SPECIFICATION MCSpec
CONSTANTS
    User = {u1, u2}
    Standing <- OneOrAll
    Session = {s1, s2}
    Request = {r1, r2}
    Case = {c1, c2}
    BreakGlass = {}
    Edits <- Bodies
    Hires <- Hired
    MaxPassword = 3
    MaxAsked = 3
    Forms <- FewForms
    MaxCase = 2
    MaxTime = 1
    BatchSize = 1
    FieldKeys = {"cpf"}
    MaxChanges = 1
    Listed = {1, 2}
    Terms = {"", "odd"}
    PageSize = 1
    MaxFetches = 3
    MaxMoves = 1
    Setting = {"key", "secret"}
    Hidden = {"secret"}
    Administrator = {"admin"}
    MaxPressed = 2
    MaxTyped = 2
    Files = 2
    Asking = {"first", "second"}
    MaxLooks = 1
    Headings <- FileHeadings
    Tables <- ExportedTables
    MaxPreviews = 2
    MaxUploads = 2
INVARIANTS ConsoleInv ImportInv
CONSTRAINT OneFileMeetsAll
CHECK_DEADLOCK FALSE
