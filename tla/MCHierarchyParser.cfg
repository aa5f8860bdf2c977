SPECIFICATION Spec
CONSTANTS
    Texts <- MCTexts
    Labels <- MCLabels
INVARIANTS
    IdsAgree
    LabelsAreWritten
    ParentIsNearest
    SpansMatchText
CHECK_DEADLOCK FALSE
