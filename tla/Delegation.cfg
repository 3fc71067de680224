SPECIFICATION MCSpec
CONSTANTS
    g1 = g1
    g2 = g2
    m1 = m1
    m2 = m2
    m3 = m3
    Link = {l1, l2}
    Group = {g1, g2}
    Member = {m1, m2, m3}
    GroupOf <- TwoGroups
    Name = {priya, alex}
    Click = {c1, c2}
    File = {f1}
    NoMember = NoMember
    NoName = NoName
    NoLink = NoLink
    MaxEdits = 2
CHECK_DEADLOCK FALSE
SYMMETRY Symmetry
INVARIANTS OneOpenLink DelegationInv FilesNameTheAccepter
PROPERTIES KeepsItsPromise ForgottenOnlyWhenRemoved
