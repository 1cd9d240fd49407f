\* Every path on a small screen, every sign of the speed.
SPECIFICATION FairSpec
CONSTANTS
    H_RES = 5
    V_RES = 4
    WIDTH = 2
    HEIGHT = 1
    no_interrupts = 1
    Speeds <- MCSpeeds
    Paths <- MCPaths
    UINT16_MOD = 16
INVARIANTS
    SpriteOnScreen
PROPERTIES
    ComesToRest
CHECK_DEADLOCK FALSE
