SPECIFICATION MCSpec
CONSTANTS
  MaxSpan = 1
  Objects = {video, subtitle}
  Parents = {inbox, shelf}
  Names = {raw, final}
  Unobserved = Unobserved
  Malformed = Malformed
  Missing = Missing
INVARIANTS
  NamesDoNotBlock
CHECK_DEADLOCK FALSE
