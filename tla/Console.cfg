\* A screen of two rows and two columns and half a row more, messages of at
\* most two characters, numbers of eight bits.
CONSTANTS
    LLong = 128
    Sizes = {1, 2, 3, 4}
    Formats <- MCFormats
    NoOutput = NoOutput
    Printers = {task_a, task_b}
    Messages <- MCMessages
    KPRINTF_BUFFER_SIZE = 3
    FONT_WIDTH = 8
    FONT_HEIGHT = 8
    Width = 16
    Height = 20
    U32 = 96
SPECIFICATION Spec
INVARIANTS TypeOK FormatsAsExpected ScreenShowsLastLines CursorComesBack
SYMMETRY Symmetry
CONSTRAINT NearScreen
