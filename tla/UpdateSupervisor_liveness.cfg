\* Every operation ends, also behind the public listeners, with one failure anywhere.
SPECIFICATION FairSpec
CONSTANTS
    db = db
    files = files
    Groups = {db, files}
    Releases = {1, 2, 3}
    Installed = 1
    Capable = {1, 2, 3}
    Setups <- AllSetups
    MaxOperations = 1
PROPERTIES OperationEnds
\* A launcher out of operations and faults, with nothing to do, may rest.
CHECK_DEADLOCK FALSE
