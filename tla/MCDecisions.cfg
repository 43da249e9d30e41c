SPECIFICATION MCSpec
CONSTANTS
  MaxSpan = 1
  Objects = {video, subtitle}
  Parents = {inbox, shelf}
  Names = {raw, final}
  Unobserved = Unobserved
  Malformed = Malformed
  Missing = Missing
  AutoScore = 85
  MinimumMargin = 8
  Nameless = {"..."}
  CountryOrder <- MCCountryOrder
  Domestic = {"CN"}
  JapaneseKorean = {"JP"}
  Western = {"US"}
  UnknownCountries = {"ZZ"}
  Root = Root
  Top = Top
  MaxShareItems = 3
  MaxTaskPages = 3
INVARIANTS
  AcceptedIsTheOnlyFit
  CollidingFilesStay
  StoredIsReadRight
  ListingsAreWhole
  WriteChecksAreSound
  GuardIsExact
  ConclusionsAreProven
CHECK_DEADLOCK FALSE
