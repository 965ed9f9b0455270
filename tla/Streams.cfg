\* The same turns through all translators.
SPECIFICATION TranslatedSpec
CONSTANTS
    None = None
    t1 = t1
    t2 = t2
    Tools <- MCTools
    Kinds <- MCKinds
    MaxFrames = 4
INVARIANTS
    TypeOK
    AnthropicAgrees
    OpenAIAgrees
    InputStaysWithItsTool
PROPERTIES
    MessageProtocol
CHECK_DEADLOCK FALSE
