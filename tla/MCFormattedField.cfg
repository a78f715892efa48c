SPECIFICATION Spec
CONSTANTS
    IntMax = 32767
    MaxTokens = 4
    Fields <- MCFields
INVARIANTS
    DisplayTellsTheValue
PROPERTIES
    EditTextKeepsValue
    DisplayedTextsAreShownAgain
CHECK_DEADLOCK FALSE
