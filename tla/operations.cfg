SPECIFICATION FairSpec
CONSTANTS
    Launchers = {l1, l2}
INVARIANTS
    ShutdownTellsAll
    OneOfEach
PROPERTIES
    GuiComesBack
