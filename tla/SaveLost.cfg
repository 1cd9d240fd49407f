\* A session whose leaderboard changed, and the file it leaves behind.
SPECIFICATION Spec
CONSTANTS
    GAME_HEIGHT_MATRIX = 1
    GAME_WIDTH_MATRIX = 1
    alien_times <- MCAlienTimes
    GAME_WIDTH = 5
    GAME_HEIGHT = 7
    GAME_HORIZONTAL_MARGIN = 2
    GAME_VERTICAL_MARGIN = 2
    ALIEN_WIDTH = 2
    ALIEN_HEIGHT = 2
    CROSSHAIR_WIDTH = 2
    CROSSHAIR_HEIGHT = 2
    BUTTON_WIDTH = 2
    BUTTON_HEIGHT = 0
    BUTTON_MARGIN_TOP = 1
    LB_SIZE = 2
    UINT8_MOD = 3
    NAME_SIZE = 2
    Letters = {"A"}
    FRAME_NUMBER = 1
    GAME_OVER_WAIT = 2
    BANNER_DELAY = 1
    ALIEN_INIT_SPAWN_TIME = 0
    ALIEN_SPAWN_RATE_INCREASE = 1
    ALIEN_MAX_SPAWN_RATE = 0
    UINT_MOD = 32
    Moves <- MCVertical
    SaveFiles <- MCNewFile
    MaxPoints = 2
PROPERTIES
    SaveFileHoldsLeaderboard
