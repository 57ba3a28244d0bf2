CONSTANTS
  StrChars <- MCStrChars
  Ints <- MCInts
  Names <- MCNames
  Strs <- MCStrs
  Blobs <- MCBlobs
  TopStrLen = 2
  BufLens = {0, 4, 5}
SPECIFICATION Spec
INVARIANTS PrintedTextReadsBack PrintBufBounded
