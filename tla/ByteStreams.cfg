SPECIFICATION Spec
CONSTANTS
  MaxPath = 3
  Paths = 2
  Tags = {0, 1, 2, 3, 4, 5, 6, 7, 8, 9, 10, 11, 12, 13, 14, 15, 16, 17, 18}
  FileTags = {0, 1, 2, 18}
  MaxFields = 2
  Byte = {a, b, eol}
  Eol = eol
  Readers = {"rust", "python", "go", "java", "cpp"}
  MaxLog = 6
INVARIANTS PathsArrive SameMeaning GoRefusesCut ReadsLastLine
CHECK_DEADLOCK FALSE
