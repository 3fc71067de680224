SPECIFICATION MCSpec
CONSTANTS
    j1 = j1
    j2 = j2
    j3 = j3
    f1 = f1
    f2 = f2
    p1 = p1
    p2 = p2
    Job = {j1, j2, j3}
    File = {f1, f2}
    Appeal = {p1}
    Window = 0
    MaxTime = 1
    Owner = {"o", "p"}
    MaxTurns = 2
    MaxGets = 2
    MaxTexts = 2
    MaxSends = 2
    MaxSaves = 2
    MaxActs = 2
CHECK_DEADLOCK FALSE
SYMMETRY Interchangeable
INVARIANTS FilesAndRowsAgree RecordInv VerdictsAgree CasePageInv
