SPECIFICATION Spec
CONSTANTS
  k1 = k1
  k2 = k2
  t1 = t1
  t2 = t2
  alice = alice
  bob = bob
  Guest = Guest
  Kinds <- MCKinds
  Keys <- MCKeys
  Tiles <- MCTiles
  Accounts <- MCAccounts
  MaxEntries <- MCMaxEntries
  BatchSize = 1
  MaxOpen = 3
  MaxActs = 3
  MaxFaults = 1
CHECK_DEADLOCK FALSE
INVARIANTS PendingIsLive NoForeignAnswer TilesAgree
PROPERTY ComesToRest
