SPECIFICATION Spec
CONSTANTS
    HostTypes <- MCHostTypes
    TargetTypes <- MCTargetTypes
    ItemUnit <- MCItemUnit
    Articles <- MCArticles
    Answers <- MCAnswers
    References <- MCReferences
    Links <- MCLinks
    Diagrams <- MCDiagrams
    IssuerId = "gov"
    Manifest = {"t"}
    MaxBatches = 2
INVARIANTS CandidatesAreSettled BundleIsWhole LlmEdgesAreEarned AcceptedIsBuildable
CHECK_DEADLOCK FALSE
