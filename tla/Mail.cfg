SPECIFICATION Spec
CONSTANTS
    s1 = s1
    s2 = s2
    l1 = l1
    a1 = a1
    Sweep = {s1, s2}
    Letter = {l1}
    Address = {a1}
    Bouncing = {}
    Recipients <- SentTo
    Thresholds = {1}
    EscalateAt = 1
    MaxAge = 1
    FreeFailures = 1
    MaxPause = 2
    MaxFailures = 3
    MaxFaults = 1
INVARIANTS OneCopyPerLoss MarkedMeansTold MailInv
PROPERTY RemindersComeThrough
