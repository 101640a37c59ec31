\* Two rows of two columns; the ring of three lines wraps.
SPECIFICATION VgaSpec
CONSTANTS
    Width = 2
    ContentRows = 2
    ScrollbackLines = 3
    TabStop = 2
    Texts <- ShortTexts
    MaxGone = 4
INVARIANTS
    StatusBarKept
    LinesKept
PROPERTY
    ViewShowsHistory
