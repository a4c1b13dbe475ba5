CONSTANTS
  Tasks = {t1, trial}
  Trials = {trial}
  Callers = {c1, c2}
  Capacity = 2
  MaxRequests = 4
SPECIFICATION Spec
INVARIANTS UnderwayHasRequest LastRequestDecides DoubtIsReviewed
PROPERTIES EveryRequestDecided RequestsAreServedOnce
