SPECIFICATION Spec
CONSTANTS
  t2 = t2
  Nobody = Nobody
  Users = {u1, u2}
  Guests = {g1}
  Tx = {t1, t2}
  Undated = {}
  Clients = {c1, c2}
  Original <- OneSubscription
SYMMETRY Symmetry
INVARIANTS SingleOwner OwnerHoldsToken AuthorisationsHold
PROPERTIES Implements
