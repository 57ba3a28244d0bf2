CONSTANT DualBank = TRUE
SPECIFICATION Spec
INVARIANT ErasesRequestedSector
