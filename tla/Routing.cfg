SPECIFICATION Spec
CONSTANTS
  Client = {c1, c2}
  NoRoute = NoRoute
  Environ <- Environments
  Spelling <- Spellings
  Lower <- LowerCase
  Value <- Values
  Unit <- Units
  Half <- MaxInt
  Request <- Requests
  Algo <- AlgoOf
  Hash <- HashOf
  DotMeta <- DotMetas
  DotBody <- DotBodies
  Hidden <- Dotted
SYMMETRY Clients
CHECK_DEADLOCK FALSE
INVARIANTS
  UpstreamsAsSet
  HeadroomWithinCap
  RoutedAsAsked
  OneImagePerFile
  FilesGuarded
  BothFormsShareOneCache
  ScanFindsFiles
