SPECIFICATION FairSpec
CONSTANTS
  Version = {1, 2}
  Size <- MCSize
  None = None
  BlockBytes = 29
  ReadSizes = {13, 40, 57, 64, 100}
INVARIANTS TypeOK InPlace DestWhole TransferCounted DigestDecides
PROPERTY Repaired
