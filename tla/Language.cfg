CONSTANTS
    Word = 4
    MaxDepth = 3
    Reading <- Read
    Accepting <- Accepts
    Running <- Run
    Compiling <- MCCompile
    Families <- MCFamilies
    Styled <- MCStyled
    Native <- MCNative
SPECIFICATION Spec
PROPERTIES ReadsAsMeant AcceptedRuns ResultHasType OverloadsAgree MemorizeTransparent SumsAddUp BackEndsAgree
CHECK_DEADLOCK FALSE
