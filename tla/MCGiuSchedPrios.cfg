SPECIFICATION FairSpec
CONSTANTS
  Qids = {q1, q2}
  q1 = q1
  q2 = q2
  q3 = q3
  NumEng = 1
  NumPrios = 8
  MaxQ = 1
  QeLimit = 15
  EngOf <- EngOne
  PrioOf <- PrioTwo
  Managed = {}
PROPERTY AllServed
