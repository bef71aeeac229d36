SPECIFICATION Spec
CONSTANTS
  Buffers = {b1, b2}
  NumRaws = 6
  Strings <- Texts
  MaxLen = 4
  MaxCalls = 3
  Bases = {0, 5}
  Page = 2
  AllocUnit = 3
  RawHeader = 1
  Script <- Items
  HeaderLen = 3
  AckLen = 2
  FooterLen = 1
  IovMax = 5
  Prefetch = 2
  MaxBytes = 4
  MaxMessages = 1
  NumStreams = 2
  Servers = {TRUE, FALSE}
  Chars <- SomeChars
  MaxText = 3
  MaxNumeral = 4
  Bits <- SomeBits
  UnitBits = 2
  Nano = 100
  Milli = 10
  Word = 429
  Secs = {0, 1, 428}
  Nsecs = {0, 1, 50, 99}
  Sixty = 6
  Years = {1970, 1971, 1972, 1979, 1980, 2000, 2001, 2100}
  Offset = 300
  NsecDigits = 3
  UsecDigits = 2
  TimesOfDay = {599}
  Fractions = {7, 980}
  Names <- SomeNames
  Keys <- SomeKeys
  Values <- SomeValues
  Spellings <- SomeSpellings
  Fds = {0, 1, 2, 3}
  MaxErrors = 1
  MaxBinds = 3
INVARIANTS
  BuffersSound
  StreamIntact
  Accounted
  NumbersExact
  TextSurvives
  TimeExact
  
  OwnDescriptors
PROPERTIES
  IsString
VIEW Memory
SYMMETRY Symmetry
CHECK_DEADLOCK FALSE
