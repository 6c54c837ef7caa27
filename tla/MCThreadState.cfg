SPECIFICATION Spec
CONSTANTS
  BlockOf <- MCBlockOf
  TypeOf <- MCTypeOf
  Follows <- MCFollows
  DeclareOf <- MCDeclareOf
  Globals <- MCGlobals
  Stdin = 201
  Stdout = 202
  Stderr = 203
  Addresses = {1, 3}
  ValueSet = {0, 1}
  MaxEvents <- MCMaxEvents
  MaxDepth = 2
  MaxErrors = 2
  MaxKept = 2
  Profiles = {"control", "stack", "heap", "files"}
CHECK_DEADLOCK FALSE
INVARIANTS
  NothingMismatches
  ShownIsRecorded
  GoingBackIsExact
  AreasAreFound
