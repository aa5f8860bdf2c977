SPECIFICATION Spec
CONSTANTS
    Order <- MCOrder
    Layouts <- MCLayouts
    Meaning <- MCMeaning
    Type <- MCType
    Workers = {1, 2}
    Commands = {"batch-load-parsed", "batch-load-parsed --skip-existing", "batch-ingest-all", "ingest-folder --doc-by-doc", "batch-sync-semantics", "ingest", "write", "write-structural", "embed", "batch-write", "batch-embed"}
    MaxCommands = 3
    MaxFaults = 1
INVARIANTS WrittenIsOneTree EmbeddedIsCurrent
PROPERTIES StaysReachable
CHECK_DEADLOCK FALSE
