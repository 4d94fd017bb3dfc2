SPECIFICATION Spec
CONSTANTS
  Thread = {t1, t2, t3}
  Value = {a, b}
  Nobody = Nobody
  Takers = {t1}
  Byte = {0, 1}
  Junk = 9
  Width = 4
  kDefaultSize = 2
  Percents = {50, 99, 100}
  MaxPiece = 3
  Id = {1, 2, 3}
  Message = {m1, m2}
  NoMessage = NoMessage
  MaxClock = 2
  Num = 4
  MAX_UNSIGN_SHORT = 9
  Caller = {c1, c2}
  NoData = NoData
  MaxKeys = 3
  ObjectProxyNum = 2
  Coro = {c1, c2, c3}
  ListHead = {free, active, avail}
  Null = Null
  Writer = {w1, w2}
  Octet = {0, 1}
  Uninit = 9
  MinReserve = 4
  MaxWrite = 2
  MaxLen = 3
  User = {u1, u2, u3}
  Unlocked = Unlocked
  Lifetime = {"Default", "Phoneix", "NoDestroy"}
  MaxObjects = 3
  admin = "admin"
  h1 = h1
  h2 = h2
  h3 = h3
  Beater = {h1, h2, h3}
  Adapter <- MCAdapter
  AdminAdapter = "admin"
  AdapterOf <- MCAdapterOf
  Interval = 1
  MaxSeconds = 2
  Starter = {s1, s2}
  Fd = {7, 8}
  NoFd = 0
  NoPid = 0
  JunkPid = 99
  MaxChildren = 3
INVARIANTS
  ElementOnce
  NoElementStranded
  BytesKept
  ContainersAgree
  FreeListSound
  ListsLinked
  WriterHolds
  OneInstance
  HeartBeatKept
  ChildReaped
PROPERTIES
  TimeoutsExact
  NumberKept
\* get() without a number left ends the process.
CHECK_DEADLOCK FALSE
