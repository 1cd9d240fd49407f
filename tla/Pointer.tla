------------------------------ MODULE Pointer -------------------------------
(***************************************************************************)
(* The geometry of the pointing code in proj/src/mouse/mouse.c and the     *)
(* layout of proj/src/game.h: keeping the crosshair on the screen, finding *)
(* the matrix cell under it, and the two buttons of the menu.              *)
(***************************************************************************)
EXTENDS Integers

CONSTANTS
    GAME_WIDTH, GAME_HEIGHT,                        \* the screen (800 x 600)
    GAME_HORIZONTAL_MARGIN, GAME_VERTICAL_MARGIN,   \* of the matrix (15, 95)
    ALIEN_WIDTH, ALIEN_HEIGHT,                      \* of one cell (70 x 70)
    CROSSHAIR_WIDTH, CROSSHAIR_HEIGHT,              \* (64 x 64)
    BUTTON_WIDTH, BUTTON_HEIGHT,                    \* the sprites (256 x 64)
    BUTTON_MARGIN_TOP                               \* (100)

ASSUME ScreenAssumption ==
    /\ GAME_WIDTH \in Nat /\ GAME_HEIGHT \in Nat
    /\ CROSSHAIR_WIDTH \in Nat /\ CROSSHAIR_HEIGHT \in Nat
    /\ CROSSHAIR_WIDTH < GAME_WIDTH
    /\ CROSSHAIR_HEIGHT < GAME_HEIGHT

ASSUME LayoutAssumption ==
    /\ GAME_HORIZONTAL_MARGIN \in Nat /\ GAME_VERTICAL_MARGIN \in Nat
    /\ ALIEN_WIDTH \in Nat \ {0} /\ ALIEN_HEIGHT \in Nat \ {0}
    /\ BUTTON_WIDTH \in Nat /\ BUTTON_HEIGHT \in Nat
    /\ BUTTON_MARGIN_TOP \in Nat

MOUSE_INIT_X == GAME_WIDTH \div 2
MOUSE_INIT_Y == GAME_HEIGHT \div 2

crosshair_half_width    == CROSSHAIR_WIDTH \div 2
crosshair_half_height   == CROSSHAIR_HEIGHT \div 2
crosshair_width_border  == GAME_WIDTH - CROSSHAIR_WIDTH \div 2
crosshair_height_border == GAME_HEIGHT - CROSSHAIR_HEIGHT \div 2

(* C's integer division truncates towards zero; TLA+'s \div rounds down.   *)
CDiv(a, b) == IF a >= 0 THEN a \div b ELSE -((-a) \div b)

(* Mutant: > for >=.                                                       *)
ClampLate(v, lo, border) ==
    LET w == IF v < lo THEN lo ELSE v
    IN  IF w > border THEN border - 1 ELSE w

(* The pair of ifs that keeps one coordinate in lo .. border - 1.          *)
Clamp(v, lo, border) ==
    LET w == IF v < lo THEN lo ELSE v
    IN  IF w >= border THEN border - 1 ELSE w

ClampX(x) == Clamp(x, crosshair_half_width, crosshair_width_border)
ClampY(y) == Clamp(y, crosshair_half_height, crosshair_height_border)

(* The cell mouse_check_kill computes for crosshair position x, y.         *)
CellUnder(x, y) ==
    <<CDiv(y - GAME_VERTICAL_MARGIN, ALIEN_HEIGHT),
      CDiv(x - GAME_HORIZONTAL_MARGIN, ALIEN_WIDTH)>>

(* Both buttons are centred; cy is the row of the centre.                  *)
OnButton(x, y, cy) ==
    /\ x >= GAME_WIDTH \div 2 - BUTTON_WIDTH \div 2
    /\ x =< GAME_WIDTH \div 2 + BUTTON_WIDTH \div 2
    /\ y >= cy - BUTTON_HEIGHT \div 2
    /\ y =< cy + BUTTON_HEIGHT \div 2

OnPlayButton(x, y) == OnButton(x, y, GAME_HEIGHT \div 2 + BUTTON_MARGIN_TOP)
OnExitButton(x, y) == OnButton(x, y, GAME_HEIGHT \div 2 + 2 * BUTTON_MARGIN_TOP)

(* Where vg_draw_aliens paints the cell: the pixels that belong to it.     *)
DrawnAt(c, x, y) ==
    /\ x \in GAME_HORIZONTAL_MARGIN + c[2] * ALIEN_WIDTH
             .. GAME_HORIZONTAL_MARGIN + (c[2] + 1) * ALIEN_WIDTH - 1
    /\ y \in GAME_VERTICAL_MARGIN + c[1] * ALIEN_HEIGHT
             .. GAME_VERTICAL_MARGIN + (c[1] + 1) * ALIEN_HEIGHT - 1
=============================================================================
