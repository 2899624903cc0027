SPECIFICATION FairSpec
CONSTANTS
  t1 = t1
  t2 = t2
  s1 = s1
  s2 = s2
  NoCookie = NoCookie
  Threads <- MCThreads
  Sessions <- MCOneSession
  Asked <- MCAsked
  MaxFaults = 1
  MaxExpirations = 1
  MaxRestarts = 1
  MaxInbox = 1

INVARIANTS TypeOK TwoFactorNeedsAuth StoresAgree
PROPERTIES PageConverges LiveKept
