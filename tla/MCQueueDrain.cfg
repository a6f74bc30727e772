CONSTANTS
  a = a
  b = b
  c = c
  Runs = {a, b, c}
  Size <- FrameSizes
  Caps = {2, 3}
  Spliced = Spliced
  NoPage = NoPage
  MaxInbox = 2
  MaxDrops = 1
  MaxStrays = 1
  FarOffset = 20
  MaxRedeliveries = 1
SPECIFICATION Spec
INVARIANTS SoughtPageIsServed NothingSpliced
PROPERTIES EveryRunIsRetired
