SPECIFICATION Spec
CONSTANTS
  Trees = {t1}
  Start <- MCStart
  Layouts <- MCLayouts
  Dirs <- MCDirs
  Paths <- MCPaths
INVARIANTS TypeOK NearestManifestsDecide DescriptorsSeparate ImportJoinsItsPackage IdentityIsStated
CHECK_DEADLOCK FALSE
