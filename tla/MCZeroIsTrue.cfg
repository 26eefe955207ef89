INIT ValuesInit
NEXT ValuesNext
CONSTANTS
  Engine = {"FF", "IE", "NP"}
  JsvalBits = 2
  Int32Bits = 3
  JsIntBits = 3
  Int64Bits = 5
  MaxArgs = 2
INVARIANT OnlyTheseAreFalse
CHECK_DEADLOCK FALSE
