SPECIFICATION Spec
CONSTANTS
  Undefined = Undefined
  Null = Null
  Uninitialized = Uninitialized
  Exception = Exception
INVARIANTS
  FloatsAgree
  TokensComeBack
  RegexpAgrees
  StringsAgree
  ObjectsAgree
CHECK_DEADLOCK FALSE
