SPECIFICATION MCSpec
CONSTANTS
    d1 = d1
    a1 = a1
    a2 = a2
    t1 = t1
    t2 = t2
    f1 = f1
    s1 = s1
    s2 = s2
    b1 = b1
    b2 = b2
    Draft = {d1}
    Email = {a1, a2}
    Token = {t1, t2}
    File = {f1}
    Submission = {s1, s2}
    NoEmail = NoEmail
    NoDraft = NoDraft
    NoCase = NoCase
    Hour = 2
    TokenTTL = 1
    DraftTTL = 1
    Grace = 1
    EmailLimit = 1
    IpLimit = 2
    MaxFiles = 2
    MaxTime = 4
    Builder = {b1, b2}
    NewTypes = {"area"}
    MaxKey = 2
    MaxVersions = 3
    MaxEdits = 2
    MaxCalls = 2
CHECK_DEADLOCK FALSE
INVARIANTS ReferencesAreDense AddressWasProved FilesAreSafe IntakeInv EditorInv
CONSTRAINT FewAtWork
SYMMETRY Interchangeable
