SPECIFICATION FairSpec
CONSTANTS
  messages = messages
  window = window
  NoAsset = NoAsset
  Manifest <- MCManifest
  Table = {1}
  MaxRequest = 3
CHECK_DEADLOCK FALSE
INVARIANTS
  StageSound
  AssetsBeforeViews
  TablesBuiltOnce
  TablesCurrent
PROPERTIES
  RequestsComplete
