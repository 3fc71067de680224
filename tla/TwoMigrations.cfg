SPECIFICATION SchemaSpec
CONSTANTS
    Files = 2
    Asking = {"first", "second"}
    MaxLooks = 1
CHECK_DEADLOCK FALSE
INVARIANT OneMigrationAtATime
