SPECIFICATION Spec
CONSTANTS
    CharIsSigned = TRUE
    Variants = {FALSE}
    Ids = {}
    Names = {}
    Contents = {}
    SentTypes = {"REPLY", "MSG"}
    Words = {"a"}
    Sentences <- OneSentence
    MaxTexts = 2
    InStep = FALSE
INVARIANTS
    StreamInOrder
CHECK_DEADLOCK FALSE
