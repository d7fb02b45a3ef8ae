CONSTANTS
  high = high
  mid = mid
  low = low
  A = A
  B = B
  Task = {high, mid, low}
  Idle = Idle
  Mutex = {A, B}
  NoTask = NoTask
  NoMutex = NoMutex
  PrioMax = 5
  Creations <- MCCreations
  Locks <- MCLocks
  FOREVER = 99
  Timeouts = {1, 99}
  Delays = {1}
  MaxNesting = 2
  MaxDeaths = 1
SPECIFICATION Spec
INVARIANTS ReadyQueueRight PendListsSorted TickListExact
           OwnerInherits BaseWhenFree ReturnsOwner RunsBest
PROPERTIES KeepsMutexPromise
