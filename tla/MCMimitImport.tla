------------------------- MODULE MCMimitImport -------------------------
EXTENDS MimitImport

Report(key, at, priority, tie, usable) ==
  [key |-> key, at |-> at, priority |-> priority, tie |-> tie, usable |-> usable]

\* Two prices with rivals of every kind, in two orders; one price too few.
Complete ==
  <<Report("self", 2, 1, 1, TRUE), Report("self", 2, 0, 3, TRUE),
    Report("self", 2, 0, 2, TRUE), Report("served", 1, 1, 1, TRUE),
    Report("self", 1, 0, 0, TRUE)>>
TooShort == <<Report("self", 1, 0, 1, TRUE), Report("served", 1, 0, 1, FALSE)>>

Published == {Complete, Reverse(Complete), TooShort}
=============================================================================
