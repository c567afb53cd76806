SPECIFICATION MCSpec
CONSTANTS
  Readers = {r1}
  Writers = {w1}
  Root = {}
  BUF_SIZE = 2
  MAX_CANON = 2
  Keys = {"a", "nl", "kill", "eof", "intr"}
  Modes <- MCModes
  Requests <- MCRequests
  Sharing = FALSE
  PCKBD_BUFSIZE = 2
  KeyCodes = {"caps", "ctrl", "alt", "c", "d", "del"}
  MaxTyped = 3
  PCCON_NCOL = 2
  PCCON_NLIN = 2
  TabStop = 2
  Coords = {1, 3}
  Styles = {"inv"}
  DmesgSize = 2
  MaxLog = 3
  ShPids = {1, 2, 3}
  ShPipes = {1, 2}
  MaxStages = 3
  ScriptLen = 2
  ShLabels = {1}
  ShVars = {"A", "B", "C"}
  MAXENV = 2
  GlNames <- MCNames
  GlComps <- MCComps
  TarFiles = {"a", "b", "l", "x"}
  TarLong = {"x"}
  TarInode <- MCInode
  TarSizes = {0, 2}
  TarMax = 3
  ExWords <- MCExprs
  EdMax = 5
  EdCols = 3
  EdRows = 2
  EdFiles <- MCTexts
  EdChars = {"a"}
  CalUnits = 2
  CalTimes <- MCTimes
  CpMax = 2
  HeapMax = 5
  HpSizes = {0, 1, 2}
  OtherBrk = {1}
  SdBytes = {"b", "nl"}
  SdOld <- MCOld
  SdBufsiz = 2
  SdMax = 3
INVARIANTS TtyExact ConsoleExact ShellExact HeapExact  ReadsBack EditorExact
CHECK_DEADLOCK FALSE
VIEW View
