SPECIFICATION Spec
CONSTANTS
  Sizes = {1, 2, 3}
  More = 4
  Ceiling = 12
  HashKeys = {1, 2, 3, 4, 5}
  Values = {"u", "v"}
  INITIAL_CAPACITY = 4
  MaxCapacity = 16
  MaxBytes = 3
  Reader = {p, q}
  INPUT_BUF = 2
  COLS = 2
  ROWS = 2
  TAB = 2
  MaxRead = 3
  MaxKeys = 4
  MAX_WIDGET_SIZE = 8
  charPerLine = 2
  CellW = 9
  CellH = 18
  MaxText = 4
  MaxFiles = 2
  MAXARGS = 4
  Letters = {"a", "b", "f"}
  NOFILE = 8
  Inodes = {1, 2}
  BSIZE = 2
  NDIRECT = 1
  NINDIRECT = 2
  usedblocks = 2
  nblocks = 6
  nlog = 2
  Lengths = {1, 3}
  MaxAppends = 2
  MaxOps = 4
  CPU = {c1, c2}
  Lock = {1, 2}
  NULL = NULL
  LeftWall = 0
  RightWall = 4
  TopWall = 0
  BottomWall = 5
  StartX = 2
  StartY = 2
  W = 8
  H = 4
  CW = 2
  CH = 3
  SCREEN_WIDTH = 1024
  START_ICON_WIDTH = 72
  SHOW_DESKTOP_ICON_WIDTH = 10
  DOCK_PROGRAM_NORMAL_WIDTH = 160
  TITLE_HEIGHT = 28
  WORD = 64
  DIRSIZ = 2
  MaxBits = 4
INVARIANTS StoresSound  ShellSound ImageSound 
             ParsersSound
CHECK_DEADLOCK FALSE
