SPECIFICATION Spec
CONSTANTS
  Parts = {"sql", "names", "upgrade", "access", "bytes", "text", "http", "files", "runner",
           "marshal", "values", "containers", "roots", "wrappers", "dispatch", "calls", "globals"}
  Conn = {1, 2, 3}
  Guarded = {1, 2}
  MaxDepth = 2
  MaxWrites = 2
  DThread = {1, 2}
  DOrigin = {1, 2}
  DName <- MCNames
  MaxRows = 3
  OldVersion = {1, 2, 3, 4, 5, 6, 7, 8, 9, 10}
  MaxSets = 2
  kMaxBufferSize = 2
  MaxBytes = 5
  MaxText = 4
  MaxPattern = 3
  kint32max = 127
  EscapeBuffer = 8
  MaxLines = 4
  MaxEdits = 1
  FThread = {1, 2}
  MaxFileOps = 3
  Module = {m1, m2, m3}
  MaxModules = 4
  Node = {"n1", "n2"}
  Root = "n1"
  MaxKids = 2
  Engine = {"FF", "IE", "NP"}
  JsvalBits = 2
  Int32Bits = 3
  JsIntBits = 3
  Int64Bits = 5
  MaxArgs = 2
  MaxKey = 2
  RHolder = {h1, h2, h3}
  RObject = {ob1, ob2}
  Released = Released
  Void = Void
  MaxReturns = 2
  JContext = {w1, w2}
  JName = {"A", "B"}
  MaxWrapped = 2
  MaxRegistered = 2
  MaxFrames = 6
  MaxThrown = 2
  GName = {g1, g2}
  GObject = {go1, go2}
CHECK_DEADLOCK FALSE
INVARIANTS TransactionsNest TextIsRight HeadersReadAsSent FilesAreSound CopiesAreWhole EnginesAgree ScriptObjectsLive
PROPERTIES PermissionsDbIsSound BytesStay RunnerDiesInTime ExceptionsArrive
