\* A 1 x 2 matrix, one-entry names and a two-entry table: every phase of a
\* game, with every interleaving of mouse, keyboard and timer.
SPECIFICATION Spec
CONSTANTS
    GAME_HEIGHT_MATRIX = 1
    GAME_WIDTH_MATRIX = 2
    alien_times <- MCAlienTimes
    GAME_WIDTH = 5
    GAME_HEIGHT = 7
    GAME_HORIZONTAL_MARGIN = 2
    GAME_VERTICAL_MARGIN = 2
    ALIEN_WIDTH = 1
    ALIEN_HEIGHT = 2
    CROSSHAIR_WIDTH = 2
    CROSSHAIR_HEIGHT = 2
    BUTTON_WIDTH = 2
    BUTTON_HEIGHT = 0
    BUTTON_MARGIN_TOP = 1
    LB_SIZE = 2
    UINT8_MOD = 4
    NAME_SIZE = 2
    Letters = {"A"}
    FRAME_NUMBER = 1
    GAME_OVER_WAIT = 21
    BANNER_DELAY = 19
    ALIEN_INIT_SPAWN_TIME = 2
    ALIEN_SPAWN_RATE_INCREASE = 1
    ALIEN_MAX_SPAWN_RATE = 1
    UINT_MOD = 32
    Moves <- MCMoves
    SaveFiles <- MCNewFile
    MaxPoints = 1
INVARIANTS
    TypeOK
    KillerStays
    BannerAfterFading
    MenuIsClean
    CrosshairOnScreen
    SpawnClockSound
PROPERTIES
    PauseFreezes
