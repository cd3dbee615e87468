CONSTANTS
  e1 = e1
  e2 = e2
  t1 = t1
  t2 = t2
  w1 = w1
  w2 = w2
  Events = {e1, e2}
  Tokens = {t1}
  UserOf <- OneUser
  Workers = {w1, w2}
  NoDelivery = NoDelivery
  Batch = 1
  MaxRetries = 1
  MaxCrashes = 1
SPECIFICATION FairSpec
CHECK_DEADLOCK FALSE
 
PROPERTIES Settled 
