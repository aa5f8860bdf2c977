CONSTANTS
  NodeCount = 4
  NodeType <- TwoArticlesOneDocument
  MaxFocuses = 2
  FocusTtl = 2
  MaxCandidates = 2
  MaxFound = 3
  MaxCitations = 2
  MaxTurns = 5
SPECIFICATION Spec
INVARIANTS FocusMirrorsCitations AnaphoraIsSafe PickAnswersTheQuestion
CHECK_DEADLOCK FALSE
