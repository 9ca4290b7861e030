CONSTANTS
    none = none  a = a  c1 = c1  c2 = c2  s1 = s1  s2 = s2
    None = none
    Clients = {a}
    Slots = {s1, s2}
    Conns = {c1, c2}
    Names <- TwoNames
    Kinds <- OneKind
    Stations <- TwoStations
    Files <- ShortOne
    Scenarios <- Catalogues
    MaxSends = 2
    MaxTroubles = 2
SPECIFICATION Spec
SYMMETRY Alike
CHECK_DEADLOCK FALSE
INVARIANTS NobodyStarves ReportedRowsAreIn SecondTimeChangesNothing
PROPERTIES NoTwinAlone
