SPECIFICATION Spec
CONSTANTS
  Tasks = {t1}
  Names <- MCNames
  Begins <- MCBegins
  DeviceNames <- MCDevices
  DirPaths <- MCDirPaths
  MountPaths <- MCMountPaths
  Paths <- MCPaths
  OpenFlags <- MCFlags
  Chunks <- MCChunks
  Gap = gap
  Slots = 2
  Fds <- MCFds
  MaxDirs = 3
  MaxFiles = 2
  MaxSize = 2
INVARIANTS
  TypeOK
  TreeShape
PROPERTIES
  OpensAtStart
  CreatedIsOpen
  NamesStable
  StoreSpec
