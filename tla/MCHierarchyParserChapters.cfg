SPECIFICATION Spec
CONSTANTS
    Texts <- MCTexts
    Labels <- MCLabels
INVARIANT ChapterHasOnePart
CHECK_DEADLOCK FALSE
