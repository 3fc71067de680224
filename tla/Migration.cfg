SPECIFICATION Spec
CONSTANTS
    u1 = u1
    u2 = u2
    c1 = c1
    c2 = c2
    d1 = d1
    n1 = n1
    n2 = n2
    k1 = k1
    p1 = p1
    a1 = a1
    Upload = {u1, u2}
    Commit = {c1, c2}
    Discard = {d1}
    Undo = {n1, n2}
    Key = {k1}
    PortalKey = {p1}
    NoKey = NoKey
    Status = {"open", "closed"}
    DefaultStatus = "open"
    Answer = {a1}
    Silent = Silent
    Files <- Exports
    MaxRows = 2
CHECK_DEADLOCK FALSE
SYMMETRY Interchangeable
INVARIANTS OneCasePerSourceRow CasesCanBeTakenBack UndoIsHonest MigrationInv
