\* Images with relocations only; block addresses and lengths modulo five.
CONSTANTS
  Modules <- NoModules
  ModuleNames = {}
  FunctionNames = {}
  FlagSets <- CallersFlags
  Unresolved = Unresolved
  MaxModules = 0
  MaxImports = 0
  MaxLoads = 1
  Width = 5
  ImageEnd = 4
SPECIFICATION Spec
CHECK_DEADLOCK FALSE
PROPERTY LoadReturns
