\* No key is pressed while mouse_init runs.
CONSTANTS
    Scancodes <- ThreeKeys
    scancode_to_ascii <- MCTable
    scancode_to_ascii_shift <- MCTableShift
    Packets <- MCPackets
    CommandByte = 97
    KB_BUFFER_SIZE = 3
    MAX_CMD_LEN = 3
    GUARD = 2
    CURSOR_SIZE = 5
    Width = 12
    Height = 10
    MaxKeys = 3
    MaxPackets = 2
    KeysDuringInit = FALSE
SPECIFICATION FairSpec
INVARIANTS
    ByteAnnounced
    PointerFollows
    CommandByteKept
PROPERTIES
    ImplementsKeyQueue
    EveryKeyRead
