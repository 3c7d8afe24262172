\* Two handles, a buffer of two characters and a terminator, and texts of up to five.
SPECIFICATION FilesSpec
CONSTANTS
  NL = NL
  HOLE = HOLE
  CTRL = CTRL
  NONE = NONE
  i1 = i1
  i2 = i2
  Paths = {"p", "q"}
  Inodes = {i1, i2}
  Descriptions = {0, 1, 2}
  FILE_IO_MAX_FILES = 2
  FILE_IO_BUFFER_LENGTH = 3
  Names = {"f", "g"}
  BUF_LEN = 4
  AnyLine <- MCLines
  Modes <- MCModes
  Data <- MCData
  MaxText = 5
  Lists <- MCLists
  Starts <- MCStarts
PROPERTIES
  FlushedFilesAreExact
  RefusedTwiceIsFull
  ReadsWholeLines
  EditsKeepTheRest
CHECK_DEADLOCK FALSE
