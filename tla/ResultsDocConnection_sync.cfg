SPECIFICATION Spec
CONSTANTS
    lead = lead
    helper = helper
    note = note
    Clients = {lead, helper}
    Edits = {note}
    MaxRestores = 1
    MaxMishaps = 1
SYMMETRY Alike
CHECK_DEADLOCK FALSE
INVARIANT TypeOK
INVARIANT Converged
INVARIANT EditsArrive
INVARIANT NeverStranded
INVARIANT ReplacedStaysGone
