SPECIFICATION CBufferSpec
CONSTANTS
    Size = 4
    Values = {1, 2, 3}
PROPERTIES
    ImplementsFifo
