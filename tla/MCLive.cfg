SPECIFICATION Spec
CONSTANTS
  Surface = {"canonical", "variant"}
  MaxEvents = 2
  MaxSubscribers = 1
  ReplayLimit = 2
  PageCap = 2
  Calls = 3
  Beats = 1
  Boots = 2
  Breaks = 1
  Others = 1

PROPERTIES NeverBackwards PageCatchesUp
CHECK_DEADLOCK FALSE
