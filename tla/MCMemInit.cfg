CONSTANTS
  Fan = 4
  Root = 1
  Pool <- Frames
  Pools <- FreeLists
  PtPool <- StaticTables
  BootTables <- Boot
  Virt <- Pages
  Phys = {51}
  UserPages <- Others
  ApicPage <- Apic
  ApicPhys = 90
  FbPages <- Fb
  FbPhys = 80
  HeapPages <- Heap
SPECIFICATION InitSpec
INVARIANTS
  TablesAreTree
  Lint0ReachesApic
  HeapUsable
PROPERTIES
  ImplementsAddressSpace
