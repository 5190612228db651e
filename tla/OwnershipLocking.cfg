SPECIFICATION Spec
CONSTANTS
  t1 = t1
  Nobody = Nobody
  Users = {u1, u2}
  Guests = {g1}
  Tx = {t1, t2, t3}
  Attributed = {u1, u2}
  Workers = {w1, w2, w3}
  Original <- TwoSubscriptions
SYMMETRY Symmetry
INVARIANTS SavesAndClaimsNeverDeadlock
PROPERTIES Implements
