SPECIFICATION DeskSpec
CONSTANTS
  Element = {e1, e2}
  Null = Null
  Layout <- MCLayout
  Opened <- MCOpened
  Children <- MCChildren
  ScreenWidth = 1024
  ScreenHeight = 768
  QEMU = TRUE
  Packets <- MCPackets
  MaxPackets = 5
INVARIANTS EventsInOrder StackSound
PROPERTIES  Shown
