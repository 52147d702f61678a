SPECIFICATION Spec
CONSTANTS
  Nodes <- MCNodes
  Tree <- MCTree
  Roots <- MCRoots
  Garbage = Garbage
  NoValue = NoValue
  TokensOf <- MCTokensOf
  Lower <- MCLower
  Short <- MCShort
  Index <- MCIndex
  BucketOf <- MCBucketOf
  SEARCH_CHOMP_SIZE = 3
  MAX_PATH_RESULTS = 3
  MAX_CONTENT_RESULTS = 3
  Queries <- MCQueries
  MaxSearches = 2
  DataFiles <- MCDataFiles
  InitialPaths <- MCInitialPaths
  IndexTexts <- MCIndexTexts
  FieldTexts <- MCFieldTexts
  RegTexts <- MCRegTexts
  Sessions <- MCSessions
  MaxLoads = 2
INVARIANTS
  TypeOK
  SidebarSound
  PageIsCurrent
  PartsAgree
  FormShowsRegister
  ResultsOfLatestQuery
  SearchComplete
PROPERTIES
  EditsSavedWhereShown
  PathRoundTrip
  AddressRoundTrip
CHECK_DEADLOCK FALSE
