SPECIFICATION Spec
CONSTANTS
    Release = {1, 2}
    Rejected = {2}
    MaxRuns = 3
    MaxFaults = 2
CHECK_DEADLOCK FALSE
INVARIANTS DeployInv DiagnosisIsHonest
PROPERTIES DoneMeansDeployed RejectionCostsNothing RerunsFinish
