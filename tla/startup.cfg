SPECIFICATION Spec
CONSTANTS
  IntBits = 6
  Files <- AllFiles
  Targets <- AllTargets
  Disk <- AllFilesOnDisk
  Directories <- AllDirectories
  Barred <- Shut
  WorkDirectory <- Working
  TooLong <- Long
INVARIANTS TypeOK TreeIsFile PortFromListen RootsAreRelative RoutedAsConfigured
  ServedFromRoot ApiSeesWhatFollows
