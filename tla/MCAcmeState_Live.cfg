CONSTANTS
  k1 = k1
  k2 = k2
  AccountKeys <- MCAccountKeys
  NoKey = NoKey
  TornKey = TornKey
  MaxBackoffCnt = 16
  MaxRestarts = 1
  AtomicStore = TRUE
SPECIFICATION Spec
PROPERTIES RenewsForever
