\* A recovery flag that startup reports as recovered.
SPECIFICATION Spec
CONSTANTS
    db = db
    files = files
    Groups = {db, files}
    Releases = {1, 2, 3}
    Installed = 1
    Capable = {1, 2, 3}
    Setups <- PublicTwice
    MaxOperations = 1
INVARIANTS StartupRecovers
\* A launcher out of operations and faults, with nothing to do, may rest.
CHECK_DEADLOCK FALSE
