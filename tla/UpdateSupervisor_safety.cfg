\* Every installation considered: two operations and two failures.
SPECIFICATION Spec
CONSTANTS
    db = db
    files = files
    Groups = {db, files}
    Releases = {1, 2, 3}
    Installed = 1
    Capable = {1, 2, 3}
    Setups <- AllSetups
    MaxOperations = 2
INVARIANTS NoAcceptedWriteLost WriterReadsData ReferencedArtifactsExist
    RecoverableBoundary ServesSelectedVersion ClosedDuringMigration
PROPERTIES SequenceNeverDrops 
\* A launcher out of operations and faults, with nothing to do, may rest.
CHECK_DEADLOCK FALSE
