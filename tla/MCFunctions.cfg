SPECIFICATION Spec
CONSTANTS
    Reach = 64
    Lengths = {1, 2, 3, 4, 5}
    MaxBuf = 4
    ItemCaps = {1, 2, 3, 5}
    TokenCaps = {5, 8, 12}
    Metas <- MCMetas
    HeadLens = {0, 3, 12, 20}
    OptionLens = {0, 1, 5, 50}
    MaxOptions = 3
    StateLens = {0, 4, 40}
    LongMetas <- MCLongMetas
    Widths = {1, 3, 4, 8, 9}
    Chars = {1, 3}
    Blanks <- MCBlanks
    TextLens = {1, 25, 40, 70, 130, 200}
    Others <- TwoOthers
    Scripts = {"latin", "han", "kana", "none"}
    MaxLetters = 3
    Words = {3, 4}
    Stops = {0, 1, 2, 3}
    Diacs = {0, 1, 2, 3, 4}
INVARIANTS PickIsReference SequenceSound RoomForAll PrefixIsEnough LanguageIsReference
CHECK_DEADLOCK FALSE
