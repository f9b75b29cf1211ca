\* Three slots and three items: the head wraps around, a full buffer is
\* overwritten from every head position.
CONSTANTS
    Item = {a, b, c}
    MaxSize = 3
    Null = null
    Junk = junk
SPECIFICATION BufferSpec
PROPERTY IsFifo
