CONSTANTS
  downloader = downloader
  reader = reader
  task = task
  None = None
  Caller = {downloader, reader, task}
  Limit = 2
  Window = 3
  MinSleep = 1
  Asks <- AsksOfEach
  Interruptible = {task}
SPECIFICATION Spec
INVARIANTS
  TypeOK
  LineIsLive
PROPERTIES
  ImplementsLine
  EveryCallEnds
