\* An offered rollback the data do not allow.
SPECIFICATION Spec
CONSTANTS
    db = db
    files = files
    Groups = {db, files}
    Releases = {1, 2, 3}
    Installed = 1
    Capable = {1, 2, 3}
    Setups <- ShellOnce
    MaxOperations = 2
INVARIANTS OfferedRollbackReadsData
\* A launcher out of operations and faults, with nothing to do, may rest.
CHECK_DEADLOCK FALSE
