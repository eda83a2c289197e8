SPECIFICATION SSpec
CONSTANTS
  Names = {"a", "autosave.txt"}
  Paths <- FewPaths
  MaxNodes = 3
  FileNames = {}
  NoFile = NoFile
  Shorter <- FirstLetter
INVARIANTS
  DiskIsATree
  QuitKeepsTree
PROPERTY ReloadIsWhole
