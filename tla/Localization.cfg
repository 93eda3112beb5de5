SPECIFICATION Spec
CONSTANTS
    TextNodes <- MCTextNodes
    Attributes <- MCAttributes
    Skipped <- MCSkipped
    Assigned <- MCAssigned
    Pretranslated <- MCPretranslated
    Texts <- MCTexts
    TextsOf <- MCTextsOf
    Blank <- MCBlank
    Translation <- MCTranslation
    NodeOutput <- MCNodeOutput
    Absent = Absent
    MaxWrites = 4
INVARIANTS ShownIsTranslated TranslatedOnceOrTwice
PROPERTIES NoEcho SwitchIsComplete Settles
