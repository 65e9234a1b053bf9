SPECIFICATION FairSpec
CONSTANTS
  Qids = {q1, q2, q3}
  q1 = q1
  q2 = q2
  q3 = q3
  NumEng = 1
  NumPrios = 2
  MaxQ = 3
  QeLimit = 2
  EngOf <- EngOne
  PrioOf <- PrioZero
  Managed = {q2, q3}
PROPERTIES
  NoOvertaking
  ReachServed
