\* Caches of a pool that point to where its chunks were.
SPECIFICATION UtilitySpec
CONSTANTS
  None = None
  Unset = Unset
  NoModule = NoModule
  Null = Null
  Ptr = {p1, p2, p3}
  SpCount = {b1, b2}
  Page = {g1, g2, g3}
  NumBlocks = 2
  FirstSize = 1
  MaxObjectSize = 2
  classA = classA
  classB = classB
  classC = classC
  classD = classD
  Thread = {t1, t2}
  Type = {classA, classB, classC}
  Longevity <- LongevityOf
  Uses <- UsesOf
  Line <- Lines
  Word <- Words
  Manager = {m1, m2}
  Classes <- ClassList
  Declared <- DeclaredId
  Config <- ConfigId
  Size <- SizeOf
  Absent = Absent
  ProtocolNum = 3
  Version = {Initial, Changed}
  Initial = Initial
  ModuleClass = {classA, classB, classC, classD}
  ClassID <- ClassIdOf
  Priority <- PriorityOf
  MessageMap <- MessagesOf
  ModuleNum = 2
  EventStart = 1
  EventEnd = 4
  Var = {v1, v2, v3}
  Object = {o1, o2}
  Counter = {n1, n2, n3, n4}
  Client = {k1, k2}
  Http = {k1}
  Fd = {1, 2}
  Url <- Urls
  Other = Other
  NoNode = NoNode
  Item = {a, b}
  Node = {h1, h2, h3, h4, h5}
  Head0 = h1
  Tail0 = h2
  SizeLimit = 8
  BlockLen = 8
  ByteSize = 8
  MaxLength = 20
INVARIANT
  PointIntoChunks
CHECK_DEADLOCK FALSE
