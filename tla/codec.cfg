SPECIFICATION Spec
CONSTANTS
    CharIsSigned = TRUE
    Variants = {TRUE, FALSE}
    Ids <- EdgeIds
    Names <- EdgeNames
    Contents <- EdgeContents
    SentTypes = {"REPLY", "MSG", "ERR", "JOIN", "BYE"}
    Words = {"a", "FROM", "IS"}
    Sentences <- SomeSentences
    MaxTexts = 2
    InStep = TRUE
INVARIANTS
    ClientMailsReadBack
    DecodesAsModelled
    ShortTextsFit
    TextsReadBack
CHECK_DEADLOCK FALSE
