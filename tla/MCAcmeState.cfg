CONSTANTS
  k1 = k1
  k2 = k2
  AccountKeys <- MCAccountKeys
  NoKey = NoKey
  TornKey = TornKey
  MaxBackoffCnt = 16
  MaxRestarts = 2
  AtomicStore = FALSE
SPECIFICATION Spec
INVARIANTS TypeOK BackoffSchedule
PROPERTIES AccountAnnouncedBeforeDeploy ImplementsCertPersistence
