SPECIFICATION FairSpec
CONSTANTS
  Qids = {q1, q2}
  q1 = q1
  q2 = q2
  q3 = q3
  NumEng = 2
  NumPrios = 2
  MaxQ = 1
  QeLimit = 15
  EngOf <- EngTwo
  PrioOf <- PrioZero
  Managed = {}
PROPERTY AllServed
