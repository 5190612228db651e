\* Fairness: Apple repeats every notification, the server answers it.
\* Two subscriptions, the second without expiration date.
SPECIFICATION FairSpec
CONSTANTS
  t2 = t2
  Nobody = Nobody
  Users = {u1, u2}
  Guests = {g1}
  Tx = {t1, t2}
  Undated = {t2}
  Clients = {c1}
  Original <- TwoSubscriptions
INVARIANTS AccountsReconcile ClaimedGuestIsEmpty
PROPERTIES NotificationsSettle
