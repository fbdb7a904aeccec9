SPECIFICATION Spec
CONSTANTS
  File = {f1, f2}
  NoFile = NoFile
  Stale = Stale
  Guid = {g0, g1, g2}
  ZeroGuid = g0
  SourceCount = 3
  Capacity = 1
SYMMETRY SourcesSymmetry
INVARIANTS
  TypeOK
  WholeOrAbsent
  OnlyNamedSources
  ClosedFilesLetGo
