CONSTANTS
  Programs <- MCPrograms
  CodeOf <- MCCodeOf
  ShapeOf <- MCShapeOf
  Interruptible <- MCInterruptible
SPECIFICATION Spec
INVARIANTS
  AsTheLanguageSays
  StackAsExplored
  CapturedOnce
PROPERTIES
  InterruptUnwinds
  Terminates
