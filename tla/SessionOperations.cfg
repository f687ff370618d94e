SPECIFICATION Spec
CONSTANTS
  Handles = {1, 2}
  Bytes = {0, 1}
  Parts <- MCParts
  MaxBytes = 2
  Overhead = 1
  BlockSize = 2
  FixedLen = 1
  MaxDigested = 4
  MaxCount = 2
  IVs = {1, 2}
INVARIANTS TypeOK OutputCoversInput IvMatchesCiphertext BufferBounded FindDepletes
PROPERTY OperationLifetime
