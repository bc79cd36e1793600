SPECIFICATION StructuresSpec
CONSTANTS
  Subjects = {"AVLTree", "MultiAVLTree", "Numbers", "KeyValues", "KeySet", "Arrays", "BitArrays", "Queries"}
  Keys = {1, 2, 3, 4, 5, 6, 7}
  MultiKeys = {1, 2, 3, 4}
  Entries = {1, 2, 3, 4}
  Byte = 2
  Word = 3
  Dword = 4
  Qword = 5
  Operands = {0, 1, 3, 8, 31}
  KeyObjects = {k1, k2}
  Resources = {v1, v2}
  Blocks = {b1, b2, b3, b4}
  NoBlock = NoBlock
  KeyFamilies <- MCKeyFamilies
  MaxKeys = 4
  ArrayHeader = 16
  LinkWidth = 8
  BufferWidths = {1, 2, 8}
  ArrayValues = {1, 2}
  NoElement = NoElement
  MaxElements = 5
  ByteBits = 3
  HeaderBytes = 2
  MaxBits = 8
  BitLists <- MCBitLists
  BitCounts = {1, 4}
  QueryTables <- MCQueryTables
  QueryLists <- MCQueryLists
INVARIANTS TypeOK IterationInOrder NothingLost KeptBalanced ListsExact WalksInOrder
           ArithmeticExact OneOwner KeysOrdered ContentsHold SearchExact
CHECK_DEADLOCK FALSE
