\* One process prints on two rows of two columns.
CONSTANTS
    shell = shell
    child = child
    Writers <- OneWriter
    con_rows = 2
    con_cols = 2
    Chars <- MCChars
    MaxChars = 5
    MousePlaces <- Places
SPECIFICATION Spec
INVARIANTS
    InsideRectangle
    LineBeforeCursor
    TextShown
CHECK_DEADLOCK TRUE
