SPECIFICATION BufferSpec
CONSTANTS
    ByteValues = {0, 1, 2}
    Zero = 0
    Chunks <- MCChunks
    InitialSize = 3
    ExtraSize = 2
    MaxReadable = 5
INVARIANT SizeBounded
PROPERTY IsByteQueue
