CONSTANTS
  Callers = {c1, c2}
  MaxAttempts = 2
  MaxSessions = 3
SPECIFICATION FairSpec
INVARIANTS
  TypeOK
  LoginKeepsDevice
  CacheAgreesWithDisk
PROPERTIES
  OneLoginPerSession
  ExpiredSessionRefreshed
