SPECIFICATION StructuresSpec
CONSTANTS
  Subjects = {"Queries"}
  Keys = {}
  MultiKeys = {}
  Entries = {}
  Byte = 2
  Word = 3
  Dword = 4
  Qword = 5
  Operands = {0}
  KeyObjects = {}
  Resources = {}
  Blocks = {}
  NoBlock = NoBlock
  KeyFamilies <- MCMixedFamilies
  MaxKeys = 4
  ArrayHeader = 16
  LinkWidth = 8
  BufferWidths = {1}
  ArrayValues = {1}
  NoElement = NoElement
  MaxElements = 2
  ByteBits = 3
  HeaderBytes = 2
  MaxBits = 1
  BitLists <- MCBitLists
  BitCounts = {1}
  QueryTables <- MCQueryTables
  QueryLists <- MCQueryLists
INVARIANT GroupsKept
CHECK_DEADLOCK FALSE
