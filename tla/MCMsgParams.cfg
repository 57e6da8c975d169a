\* Both formats, two codes, values of no and one byte, two sizes of buffers.
CONSTANTS
    NULL = NULL
    Format = {1, 2}
    Code = {1, 2}
    Value <- MCValue
    BufferSizes = {12, 28}
    R = 4
    Old = 3
    MaxParams = 4

SPECIFICATION Spec
INVARIANTS
    TypeOK
    SearchFindsNext
PROPERTIES
    ImplementsList
