CONSTANTS
    None = None
    Id = {e1, e2}
    Process = {p1, p2}
    MaxErrors = 1
SPECIFICATION Spec
SYMMETRY MCSymmetry
PROPERTIES
    RowsOnlyAdvance
    TerminalRowsStay
    QuietHealConverges
