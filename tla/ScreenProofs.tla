---------------------------- MODULE ScreenProofs ----------------------------
(***************************************************************************)
(* Every sprite of every screen of the game lies on the screen, for every  *)
(* position of the crosshair, score and name; hence the walk of            *)
(* vg_draw_sprite stays in step with its coordinates.                      *)
(***************************************************************************)
EXTENDS Screen, TLAPS

(* A place on the screen, for an image of at least one pixel.              *)
OnScreen(s) ==
    /\ s.x \in Nat /\ s.y \in Nat
    /\ s.width \in Nat \ {0} /\ s.height \in Nat \ {0}
    /\ s.x + s.width =< h_res
    /\ s.y + s.height =< v_res

(* The loop is within the rows of the sprite, or just behind them, and     *)
(* both offsets belong to row i.                                           *)
WalkInv ==
    /\ OnScreen(sprite)
    /\ i \in sprite.y .. sprite.y + sprite.height
    /\ temp_video_mem = h_res * i + sprite.x
    /\ temp_sprite = sprite.width * (i - sprite.y)

-----------------------------------------------------------------------------
(* The places.                                                             *)

(* What fits the screen also fits a uint16_t, and is drawn where it was    *)
(* meant to be.                                                            *)
LEMMA AtOnScreen ==
    ASSUME NEW x \in Nat, NEW y \in Nat, NEW w \in Nat \ {0}, NEW h \in Nat \ {0},
           x + w =< h_res, y + h =< v_res
    PROVE  OnScreen(At(x, y, w, h))
<1>1. x < 65536 /\ y < 65536
  BY DEF h_res, v_res
<1>2. U16(x) = x /\ U16(y) = y
  BY <1>1 DEF U16
<1> QED
  BY <1>2 DEF OnScreen, At

(* Eleven columns and seven rows of aliens.                                *)
LEMMA AliensOnScreen ==
    ASSUME NEW s \in Aliens
    PROVE  OnScreen(s)
<1> DEFINE X(c) == c * ALIEN_SIZE + ALIEN_MARGIN + GAME_HORIZONTAL_MARGIN
           Y(r) == r * ALIEN_SIZE + ALIEN_MARGIN + GAME_VERTICAL_MARGIN
<1>1. PICK c \in 0..GAME_WIDTH_MATRIX - 1, r \in 0..GAME_HEIGHT_MATRIX - 1 :
        s = At(X(c), Y(r), 64, 64)
  BY DEF Aliens
<1>2. /\ X(c) \in Nat /\ X(c) + 64 =< h_res
      /\ Y(r) \in Nat /\ Y(r) + 64 =< v_res
  BY DEF ALIEN_SIZE, ALIEN_MARGIN, GAME_HORIZONTAL_MARGIN, GAME_VERTICAL_MARGIN,
         GAME_WIDTH_MATRIX, GAME_HEIGHT_MATRIX, h_res, v_res
<1> HIDE DEF X, Y
<1> QED
  BY <1>1, <1>2, AtOnScreen

(* The crosshair, wherever the clamping of the mouse leaves it.            *)
LEMMA CrosshairDrawnOnScreen ==
    ASSUME NEW s \in vg_draw_crosshair
    PROVE  OnScreen(s)
<1>1. PICK x \in MouseX, y \in MouseY :
        s = At(x - CROSSHAIR \div 2, y - CROSSHAIR \div 2, CROSSHAIR, CROSSHAIR)
  BY DEF vg_draw_crosshair
<1>2. x \in 32..768 /\ y \in 32..568
  BY ScreenInputs DEF CROSSHAIR, h_res, v_res
<1>3. s = At(x - 32, y - 32, 64, 64)
  BY <1>1 DEF CROSSHAIR
<1>4. x - 32 \in Nat /\ y - 32 \in Nat /\ x - 32 + 64 =< h_res /\ y - 32 + 64 =< v_res
  BY <1>2 DEF h_res, v_res
<1> QED
  BY <1>3, <1>4, AtOnScreen

(* Digits go to the left of the first one; ten of them fit.                *)
LEMMA PointsOnScreen ==
    ASSUME NEW s \in vg_draw_points
    PROVE  OnScreen(s)
<1>1. PICK k \in UNION {1..d : d \in Digits} :
        s = At(DigitX(k - 1), POINTS_HEIGHT_MARGIN, LETTER, LETTER)
  BY DEF vg_draw_points
<1>2. k \in 1..10
  BY ScreenInputs
<1>3. DigitX(k - 1) \in Nat /\ DigitX(k - 1) + LETTER =< h_res
  BY <1>2 DEF DigitX, POINTS_WIDTH_MARGIN, POINTS_BETWEEN_MARGIN, LETTER, h_res
<1>4. /\ POINTS_HEIGHT_MARGIN \in Nat /\ POINTS_HEIGHT_MARGIN + LETTER =< v_res
      /\ LETTER \in Nat \ {0}
  BY DEF POINTS_HEIGHT_MARGIN, LETTER, v_res
<1> QED
  BY <1>1, <1>3, <1>4, AtOnScreen

(* The time in the menu.                                                   *)
LEMMA TimeOnScreen ==
    ASSUME NEW s \in vg_draw_time_info
    PROVE  OnScreen(s)
<1>1. CASE \E k \in {0, 1, 3, 4} :
             s = At(DigitX(k), POINTS_HEIGHT_MARGIN + 8, LETTER, LETTER)
  <2>1. PICK k \in {0, 1, 3, 4} : s = At(DigitX(k), POINTS_HEIGHT_MARGIN + 8, LETTER, LETTER)
    BY <1>1
  <2>2. DigitX(k) \in Nat /\ DigitX(k) + LETTER =< h_res
    BY DEF DigitX, POINTS_WIDTH_MARGIN, POINTS_BETWEEN_MARGIN, LETTER, h_res
  <2>3. /\ POINTS_HEIGHT_MARGIN + 8 \in Nat /\ POINTS_HEIGHT_MARGIN + 8 + LETTER =< v_res
        /\ LETTER \in Nat \ {0}
    BY DEF POINTS_HEIGHT_MARGIN, LETTER, v_res
  <2> QED
    BY <2>1, <2>2, <2>3, AtOnScreen
<1>2. CASE s = At(DigitX(2) + 8, POINTS_HEIGHT_MARGIN + 8 + 6 + 8, 16, 16)
  <2>1. /\ DigitX(2) + 8 \in Nat /\ DigitX(2) + 8 + 16 =< h_res
        /\ POINTS_HEIGHT_MARGIN + 8 + 6 + 8 \in Nat
        /\ POINTS_HEIGHT_MARGIN + 8 + 6 + 8 + 16 =< v_res
    BY DEF DigitX, POINTS_WIDTH_MARGIN, POINTS_BETWEEN_MARGIN, POINTS_HEIGHT_MARGIN,
           LETTER, h_res, v_res
  <2> QED
    BY <1>2, <2>1, AtOnScreen
<1> QED
  BY <1>1, <1>2 DEF vg_draw_time_info

(* An image of even width and height that is centred at height y.          *)
LEMMA CentredOnScreen ==
    ASSUME NEW y \in Nat, NEW w \in 1..h_res, NEW h \in Nat \ {0},
           w % 2 = 0, h % 2 = 0, h =< 2 * y, 2 * y + h =< 2 * v_res
    PROVE  OnScreen(Centred(y, w, h))
<1>1. /\ h_res \div 2 - w \div 2 \in Nat /\ h_res \div 2 - w \div 2 + w =< h_res
      /\ y - h \div 2 \in Nat /\ y - h \div 2 + h =< v_res
      /\ w \in Nat \ {0}
  BY DEF h_res, v_res
<1> QED
  BY <1>1, AtOnScreen DEF Centred

-----------------------------------------------------------------------------
(* The texts.                                                              *)

(* A word that ends before the right border and above the lower one.       *)
Fits(w, x0, y0) ==
    /\ w.line \in Nat /\ w.letters \in Nat /\ w.spaces \in Nat /\ w.length \in Nat
    /\ x0 + (w.letters + w.length) * LETTER + w.spaces * 20 =< h_res
    /\ y0 + (w.line + 1) * LETTER =< v_res

(* A text of such words is drawn on the screen.                            *)
LEMMA TextOnScreen ==
    ASSUME NEW text, NEW x0 \in Nat, NEW y0 \in Nat,
           \A w \in text : Fits(w, x0, y0),
           NEW s \in vg_draw_str(text, x0, y0)
    PROVE  OnScreen(s)
<1> DEFINE X(w, k) == x0 + (w.letters + k - 1) * LETTER + w.spaces * 20
           Y(w) == y0 + w.line * LETTER
<1>1. PICK w \in text : \E k \in 1..w.length : s = At(X(w, k), Y(w), LETTER, LETTER)
  BY DEF vg_draw_str
<1>2. PICK k \in 1..w.length : s = At(X(w, k), Y(w), LETTER, LETTER)
  BY <1>1
<1>3. Fits(w, x0, y0)
  OBVIOUS
<1>4. /\ X(w, k) \in Nat /\ X(w, k) + LETTER =< h_res
      /\ Y(w) \in Nat /\ Y(w) + LETTER =< v_res
      /\ LETTER \in Nat \ {0}
  BY <1>3 DEF Fits, LETTER, h_res, v_res
<1> HIDE DEF X, Y
<1> QED
  BY <1>2, <1>4, AtOnScreen

(* The question for the name, with a score of at most three digits.        *)
LEMMA InputOnScreen ==
    ASSUME NEW s \in vg_draw_input_screen
    PROVE  OnScreen(s)
<1> DEFINE Message(d) == vg_draw_str(input_message(d), 100, 100)
           Typed(length) == vg_draw_str({Word(0, 0, 0, length)}, 8 * LETTER + 96, LETTER + 100)
<1>1. ASSUME NEW d \in Digits \cap 1..3, s \in Message(d)
      PROVE  OnScreen(s)
  <2>1. \A w \in input_message(d) : Fits(w, 100, 100)
    BY DEF input_message, Word, Fits, LETTER, h_res, v_res
  <2> QED
    BY <1>1, <2>1, TextOnScreen
<1>2. ASSUME NEW length \in NameLengths, s \in Typed(length)
      PROVE  OnScreen(s)
  <2>1. length \in 0..6
    BY ScreenInputs
  <2>2. \A w \in {Word(0, 0, 0, length)} : Fits(w, 8 * LETTER + 96, LETTER + 100)
    BY <2>1 DEF Word, Fits, LETTER, h_res, v_res
  <2>3. 8 * LETTER + 96 \in Nat /\ LETTER + 100 \in Nat
    BY DEF LETTER
  <2> QED
    BY <1>2, <2>2, <2>3, TextOnScreen
<1>3. (\E d \in Digits \cap 1..3 : s \in Message(d)) \/ (\E l \in NameLengths : s \in Typed(l))
  BY DEF vg_draw_input_screen
<1> HIDE DEF Message, Typed
<1> QED
  BY <1>1, <1>2, <1>3

(* The table, with names of at most six letters.                           *)
LEMMA TableOnScreen ==
    ASSUME NEW s \in vg_draw_leadeboard
    PROVE  OnScreen(s)
<1> DEFINE Corners == {At(x, y, 96, 96) : x \in {1, 702}, y \in {1, 502}}
           Table(length) == vg_draw_str(getLeaderBoard(length), 230, 30)
           Footer == vg_draw_str(PressEnter, 50, 100 + 12 * LETTER)
<1>1. ASSUME s \in Corners
      PROVE  OnScreen(s)
  <2>1. PICK x \in {1, 702}, y \in {1, 502} : s = At(x, y, 96, 96)
    BY <1>1
  <2>2. x \in Nat /\ y \in Nat /\ x + 96 =< h_res /\ y + 96 =< v_res
    BY DEF h_res, v_res
  <2> QED
    BY <2>1, <2>2, AtOnScreen
<1>2. ASSUME NEW length \in NameLengths, s \in Table(length)
      PROVE  OnScreen(s)
  <2>1. length \in 0..6
    BY ScreenInputs
  <2>2. \A w \in getLeaderBoard(length) : Fits(w, 230, 30)
    BY <2>1 DEF getLeaderBoard, Word, Fits, LETTER, h_res, v_res
  <2> QED
    BY <1>2, <2>2, TextOnScreen
<1>3. ASSUME s \in Footer
      PROVE  OnScreen(s)
  <2>1. \A w \in PressEnter : Fits(w, 50, 100 + 12 * LETTER)
    BY DEF PressEnter, Word, Fits, LETTER, h_res, v_res
  <2>2. 100 + 12 * LETTER \in Nat
    BY DEF LETTER
  <2> QED
    BY <1>3, <2>1, <2>2, TextOnScreen
<1>4. s \in Corners \/ (\E l \in NameLengths : s \in Table(l)) \/ s \in Footer
  BY DEF vg_draw_leadeboard
<1> HIDE DEF Corners, Table, Footer
<1> QED
  BY <1>1, <1>2, <1>3, <1>4

(* Every sprite of every screen.                                           *)
LEMMA DrawnOnScreen ==
    ASSUME NEW game_state \in DrawingStates, NEW s \in Drawn(game_state)
    PROVE  OnScreen(s)
<1>1. /\ \A r \in Aliens : OnScreen(r)
      /\ \A r \in vg_draw_crosshair : OnScreen(r)
      /\ \A r \in vg_draw_points : OnScreen(r)
      /\ \A r \in vg_draw_time_info : OnScreen(r)
      /\ \A r \in vg_draw_input_screen : OnScreen(r)
      /\ \A r \in vg_draw_leadeboard : OnScreen(r)
  BY AliensOnScreen, CrosshairDrawnOnScreen, PointsOnScreen, TimeOnScreen,
     InputOnScreen, TableOnScreen
<1>2. /\ v_res = 600 /\ v_res \div 2 = 300
      /\ v_res \div 2 + BUTTON_MARGIN_TOP = 400
      /\ v_res \div 2 + 2 * BUTTON_MARGIN_TOP = 500
  BY DEF v_res, BUTTON_MARGIN_TOP
<1>3. /\ OnScreen(Centred(400, 256, 64)) /\ OnScreen(Centred(500, 256, 64))
      /\ OnScreen(Centred(300, 512, 256)) /\ OnScreen(Centred(300, 768, 128))
  <2>1. 256 % 2 = 0 /\ 64 % 2 = 0 /\ 512 % 2 = 0 /\ 768 % 2 = 0 /\ 128 % 2 = 0
    OBVIOUS
  <2>2. h_res = 800
    BY DEF h_res
  <2>3. OnScreen(Centred(400, 256, 64))
    BY <1>2, <2>1, <2>2, CentredOnScreen
  <2>4. OnScreen(Centred(500, 256, 64))
    BY <1>2, <2>1, <2>2, CentredOnScreen
  <2>5. OnScreen(Centred(300, 512, 256))
    BY <1>2, <2>1, <2>2, CentredOnScreen
  <2>6. OnScreen(Centred(300, 768, 128))
    BY <1>2, <2>1, <2>2, CentredOnScreen
  <2> QED
    BY <2>3, <2>4, <2>5, <2>6
<1>4. \A r \in vg_draw_buttons : OnScreen(r)
  BY <1>2, <1>3 DEF vg_draw_buttons
<1>5. OnScreen(At(h_res \div 2 - 384, GAME_MARGIN_TOP, 768, 128))
  <2>1. /\ h_res \div 2 - 384 \in Nat /\ h_res \div 2 - 384 + 768 =< h_res
        /\ GAME_MARGIN_TOP \in Nat /\ GAME_MARGIN_TOP + 128 =< v_res
    BY DEF h_res, v_res, GAME_MARGIN_TOP
  <2> QED
    BY <2>1, AtOnScreen
<1> QED
  BY <1>1, <1>2, <1>3, <1>4, <1>5 DEF Drawn, DrawingStates

-----------------------------------------------------------------------------
(* The walk.                                                               *)

(* One row more of a sprite.                                               *)
LEMMA RowMore ==
    ASSUME NEW w \in Nat, NEW k \in Int
    PROVE  w * k + w = w * (k + 1)
OBVIOUS

(* A row of a sprite that lies on the screen is drawn whole.               *)
LEMMA RowIsWhole ==
    ASSUME OnScreen(sprite)
    PROVE  RowWidth = sprite.width
BY DEF RowWidth, OnScreen

(* A new sprite, and the next row of it, keep the walk in step.            *)
LEMMA WalkStep ==
    ASSUME WalkInv, [Next]_vars
    PROVE  WalkInv'
<1>1. CASE DrawRow
  <2>1. sprite' = sprite /\ OnScreen(sprite)
    BY <1>1 DEF DrawRow, WalkInv
  <2>2. i \in Int /\ i < sprite.y + sprite.height /\ i' = i + 1
    BY <1>1 DEF DrawRow, RowLeft, WalkInv, OnScreen
  <2>3. i' \in sprite.y .. sprite.y + sprite.height
    BY <2>2 DEF WalkInv, OnScreen
  <2>4. temp_video_mem' = h_res * i' + sprite.x
    BY <1>1, <2>1, <2>2, RowIsWhole DEF DrawRow, WalkInv, OnScreen, row_increment, h_res
  <2>5. temp_sprite' = sprite.width * (i' - sprite.y)
    <3>1. temp_sprite' = sprite.width * (i - sprite.y) + sprite.width
      BY <1>1, <2>1, RowIsWhole DEF DrawRow, WalkInv
    <3>2. i - sprite.y \in Int /\ i - sprite.y + 1 = i' - sprite.y
      BY <2>1, <2>2 DEF OnScreen
    <3> QED
      BY <2>1, <3>1, <3>2, RowMore DEF OnScreen
  <2> QED
    BY <2>1, <2>3, <2>4, <2>5 DEF WalkInv, OnScreen
<1>2. CASE DrawNext
  <2>1. PICK game_state \in DrawingStates : \E s \in Drawn(game_state) : Begin(s)
    BY <1>2 DEF DrawNext
  <2>2. PICK s \in Drawn(game_state) : Begin(s)
    BY <2>1
  <2>3. OnScreen(s)
    BY DrawnOnScreen
  <2> QED
    BY <2>2, <2>3 DEF Begin, WalkInv, OnScreen
<1>3. CASE UNCHANGED vars
  BY <1>3 DEF vars, WalkInv, OnScreen
<1> QED
  BY <1>1, <1>2, <1>3 DEF Next

(* Drawing never loses its place: on every screen, for every crosshair,    *)
(* score and name, each row of each sprite goes to its own place in the    *)
(* buffer, and none beyond its end (vg_draw_sprite).                       *)
THEOREM EveryRowInPlace == Spec => []RowsInPlace
<1>1. Init => WalkInv
  <2> SUFFICES ASSUME Init PROVE WalkInv
    OBVIOUS
  <2>1. PICK s \in Drawn("MENU") :
          /\ sprite = s
          /\ i = s.y
          /\ temp_video_mem = h_res * s.y + s.x
          /\ temp_sprite = 0
    BY DEF Init
  <2>2. OnScreen(s)
    BY DrawnOnScreen DEF DrawingStates
  <2> QED
    BY <2>1, <2>2 DEF WalkInv, OnScreen
<1>2. WalkInv /\ [Next]_vars => WalkInv'
  BY WalkStep
<1>3. WalkInv => RowsInPlace
  <2> SUFFICES ASSUME WalkInv PROVE RowsInPlace
    OBVIOUS
  <2>1. RowWidth = sprite.width
    BY RowIsWhole DEF WalkInv
  <2> QED
    BY <2>1 DEF WalkInv, OnScreen, RowsInPlace, RowLeft, h_res, v_res
<1> QED
  BY <1>1, <1>2, <1>3, PTL DEF Spec
=============================================================================
