SPECIFICATION SumSpec
CONSTANTS
  one = one
  two = two
  three = three
  four = four
  file1 = file1
  RestoreChanges = 1
  RestorePrepares = 2
  RestoreFaults = 1
  RestoreBreakable = {"run", "prepare", "boot"}
  CacheReaders = {one, two}
  CacheWriters = {three}
  CacheBus = four
  CacheNames = {file1}
  NoList = NoList
  CacheChanges = 2
  SchedHandlers = {one, two}
  SchedLoops = 2
  SchedSaves = 3
  PageTasks = {file1}
  PageClients = {one, two}
  LastPageLeaves = FALSE
  PageMutators = {three, four}
  PageCapacity = 1
  PageVersions = 2
  Publishers = {one, two}
  Closers = {three}
  Handlers = 2
  Capacity = 1
  Quota = 2
INVARIANTS InOrder DrainedAtClose RestoreIsWhole ListsAreFresh PagesAgree
PROPERTIES QuietAfterClose AcceptedIsHandled RestoreEnds ReadersAnswered LoopIsOrderly PagesCatchUp
CHECK_DEADLOCK FALSE
