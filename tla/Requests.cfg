CONSTANTS
  s1 = s1
  s2 = s2
  Sessions = {s1, s2}
  Requests <- Requests_
  MaxRequests <- MaxRequests_
  Cuts <- Cuts_
  Frames <- Frames_
  MaxFrames = 3
  Forms <- Forms_
  Boundary <- Boundary_
  Dispositions <- Dispositions_
  Fields <- Fields_
  MaxRest = 0
  Methods = {"GET"}
  Patterns <- Patterns_
  GroupPrefixes <- GroupPrefixes_
  Paths <- Paths_
  MaxCalls = 4
  LargestBits = 7
  IntBits = 4
  DoubleBits = 5
  Halves <- Halves_
  CodePoints = {0, 10, 34, 65, 92, 117, 127, 128, 2047, 2048, 55295, 57344, 65535, 65536, 1114111}
  MaxScalar = 3
  Elements = {"null", "a"}
  Names = {"n1", "n2"}
  MaxIndex = 2
  MaxValueCalls = 4
  rightMargin_ = 8
  Lexemes <- Lexemes_
  Closers <- Closers_
  MaxLexemes = 5
  StackLimit = 3
  ULLONG_MAX = 32
  MaxHeaderSize = 64
  MaxRead = 20
  Streams <- Streams_
INIT RequestsInit
NEXT RequestsNext
INVARIANTS ParserInv HeardIsSent RequestsAsSent MessagesAreUnmasked CloseIsHeard BodyIsAsSent RouteFits GuardsComeFirst DocumentIsRead WrittenReadsBack ValueIsWhatWasAsked ScalarsAreRight
CHECK_DEADLOCK FALSE
