------------------------------- MODULE Screen -------------------------------
(***************************************************************************)
(* Where the frames of the game draw (proj/src/video_card/video_card.c):   *)
(* the sprites of every screen at the places vg_ih puts them, and the walk *)
(* of vg_draw_sprite through the buffer, row by row.  The walk only stays  *)
(* in step with the coordinates when no sprite crosses the right border;   *)
(* nothing in the code checks that.                                        *)
(*                                                                         *)
(* Lengths are in pixels, each of bytes_per_pixel bytes.  A frame draws    *)
(* its sprites one after the other; here any of them is drawn next.        *)
(***************************************************************************)
EXTENDS Integers

CONSTANTS
    MouseX, MouseY,      \* positions of the crosshair
    Digits,              \* possible lengths of a score
    NameLengths          \* possible lengths of a name

h_res == 800
v_res == 600
GAME_HORIZONTAL_MARGIN == 15
GAME_VERTICAL_MARGIN == 95
GAME_WIDTH_MATRIX == 11
GAME_HEIGHT_MATRIX == 7
ALIEN_SIZE == 70
ALIEN_MARGIN == 3
POINTS_WIDTH_MARGIN == 700
POINTS_HEIGHT_MARGIN == 32
POINTS_BETWEEN_MARGIN == 5
BUTTON_MARGIN_TOP == 100
GAME_MARGIN_TOP == 150
LETTER == 32
CROSSHAIR == 64

(* What the game ensures: the crosshair is clamped to the screen, a score  *)
(* is an unsigned int of 32 bits, and name has room for six letters.       *)
ASSUME ScreenInputs ==
    /\ MouseX \subseteq CROSSHAIR \div 2 .. h_res - CROSSHAIR \div 2
    /\ MouseY \subseteq CROSSHAIR \div 2 .. v_res - CROSSHAIR \div 2
    /\ Digits \subseteq 1..10
    /\ NameLengths \subseteq 0..6

VARIABLES
    sprite,              \* the sprite being drawn
    i,                   \* its next row on the screen
    temp_video_mem,      \* offset in the buffer
    temp_sprite          \* offset in the sprite

vars == <<sprite, i, temp_video_mem, temp_sprite>>

-----------------------------------------------------------------------------
(* The places.  Coordinates are uint16_t.                                  *)
U16(v) == v % 65536

At(x, y, w, h) == [x |-> U16(x), y |-> U16(y), width |-> w, height |-> h]

Centred(y, w, h) == At(h_res \div 2 - w \div 2, y - h \div 2, w, h)

(* vg_draw_aliens, and vg_draw_killer_alien, which draws over one of them. *)
Aliens ==
    {At(c * ALIEN_SIZE + ALIEN_MARGIN + GAME_HORIZONTAL_MARGIN,
        r * ALIEN_SIZE + ALIEN_MARGIN + GAME_VERTICAL_MARGIN, 64, 64) :
        c \in 0..GAME_WIDTH_MATRIX - 1, r \in 0..GAME_HEIGHT_MATRIX - 1}

vg_draw_crosshair ==
    {At(x - CROSSHAIR \div 2, y - CROSSHAIR \div 2, CROSSHAIR, CROSSHAIR) :
        x \in MouseX, y \in MouseY}

(* Mutant: the digits go to the right.                                     *)
DigitXRight(k) == POINTS_WIDTH_MARGIN + k * (LETTER + POINTS_BETWEEN_MARGIN)

(* Digits are drawn from the last to the first.                            *)
DigitX(k) == POINTS_WIDTH_MARGIN - k * (LETTER + POINTS_BETWEEN_MARGIN)

vg_draw_points ==
    {At(DigitX(k - 1), POINTS_HEIGHT_MARGIN, LETTER, LETTER) : k \in UNION {1..d : d \in Digits}}

(* Minutes, colon and hours: always two digits, padded with zeros.         *)
vg_draw_time_info ==
    {At(DigitX(k), POINTS_HEIGHT_MARGIN + 8, LETTER, LETTER) : k \in {0, 1, 3, 4}}
        \cup {At(DigitX(2) + 8, POINTS_HEIGHT_MARGIN + 8 + 6 + 8, 16, 16)}

vg_draw_buttons ==
    {Centred(v_res \div 2 + BUTTON_MARGIN_TOP, 256, 64),
     Centred(v_res \div 2 + 2 * BUTTON_MARGIN_TOP, 256, 64)}

(* A text is the set of its words: each with its line, the characters and  *)
(* the spaces before it on that line, and its length.  A space takes 20    *)
(* pixels, a character LETTER; the colon, which is drawn smaller in the    *)
(* middle of that place, is taken to fill it.                              *)
Word(line, letters, spaces, length) ==
    [line |-> line, letters |-> letters, spaces |-> spaces, length |-> length]

vg_draw_str(text, x0, y0) ==
    UNION {{At(x0 + (w.letters + k - 1) * LETTER + w.spaces * 20, y0 + w.line * LETTER,
               LETTER, LETTER) : k \in 1..w.length} : w \in text}

(* "SCORE:   " and the score, "NAME:   " and the name, what to do.  Beyond *)
(* three digits sprintf writes behind sc, and what is drawn is undefined.  *)
input_message(d) ==
    {Word(0, 0, 0, 6), Word(0, 6, 3, d), Word(1, 0, 0, 5),
     Word(3, 0, 0, 4), Word(3, 4, 1, 3), Word(3, 7, 2, 5), Word(3, 12, 3, 5)}

vg_draw_input_screen ==
    (UNION {vg_draw_str(input_message(d), 100, 100) : d \in Digits \cap 1..3})
        \cup (UNION {vg_draw_str({Word(0, 0, 0, length)}, 8 * LETTER + 96, LETTER + 100) :
                       length \in NameLengths})

(* The title, two empty lines, and ten of four digits, a dash and a name.  *)
getLeaderBoard(length) ==
    {Word(0, 0, 0, 11)} \cup {Word(line, 0, 0, 5 + length) : line \in 3..12}

(* "PRESS ENTER TO CONTINUE"                                               *)
PressEnter == {Word(0, 0, 0, 5), Word(0, 5, 1, 5), Word(0, 10, 2, 2), Word(0, 12, 3, 8)}

vg_draw_leadeboard ==
    {At(x, y, 96, 96) : x \in {1, 702}, y \in {1, 502}}
        \cup (UNION {vg_draw_str(getLeaderBoard(length), 230, 30) : length \in NameLengths})
        \cup vg_draw_str(PressEnter, 50, 100 + 12 * LETTER)

(* vg_ih: what is drawn in each state of the game.                         *)
Drawn(game_state) ==
    CASE game_state = "PLAYING" -> Aliens \cup vg_draw_points \cup vg_draw_crosshair
      [] game_state = "MENU" ->
            vg_draw_buttons \cup vg_draw_time_info \cup vg_draw_crosshair
                \cup {At(h_res \div 2 - 384, GAME_MARGIN_TOP, 768, 128)}
      [] game_state = "GAME_OVER" ->
            Aliens \cup vg_draw_crosshair \cup {Centred(v_res \div 2, 512, 256)}
      [] game_state = "PAUSE" -> {Centred(v_res \div 2, 768, 128)}
      [] game_state = "LB_INPUT" -> vg_draw_input_screen \cup vg_draw_crosshair
      [] game_state = "LEADERBOARD" -> vg_draw_leadeboard \cup vg_draw_crosshair

DrawingStates == {"PLAYING", "MENU", "GAME_OVER", "PAUSE", "LB_INPUT", "LEADERBOARD"}

-----------------------------------------------------------------------------
(* vg_draw_sprite and the two functions that leave out transparent pixels, *)
(* which walk in the same way.                                             *)
Begin(s) ==
    /\ sprite' = s
    /\ i' = s.y
    /\ temp_video_mem' = h_res * s.y + s.x
    /\ temp_sprite' = 0

RowLeft == i < v_res /\ i < sprite.y + sprite.height

(* Mutant: the increment that is commented out in the code.                *)
WholeRow == h_res

row_increment == h_res - sprite.width

(* The pixels of a row that are drawn, the inner loop.                     *)
RowWidth ==
    IF sprite.x + sprite.width =< h_res THEN sprite.width
    ELSE IF sprite.x < h_res THEN h_res - sprite.x
    ELSE 0

DrawRow ==
    /\ RowLeft
    /\ i' = i + 1
    /\ temp_video_mem' = temp_video_mem + RowWidth + row_increment
    /\ temp_sprite' = temp_sprite + RowWidth
    /\ UNCHANGED sprite

DrawNext ==
    /\ ~RowLeft
    /\ \E game_state \in DrawingStates : \E s \in Drawn(game_state) : Begin(s)

Init ==
    \E s \in Drawn("MENU") :
        /\ sprite = s
        /\ i = s.y
        /\ temp_video_mem = h_res * s.y + s.x
        /\ temp_sprite = 0

Next == DrawRow \/ DrawNext

Spec == Init /\ [][Next]_vars

-----------------------------------------------------------------------------
(* Whatever is drawn, on every screen, for every score, name, time and     *)
(* position of the crosshair: each row goes to its own place in the        *)
(* buffer, with its own pixels of the sprite, and stays inside the buffer, *)
(* and no row is left out at the bottom of the screen.                     *)
RowsInPlace ==
    /\ RowLeft =>
         /\ temp_video_mem = h_res * i + sprite.x
         /\ temp_sprite = sprite.width * (i - sprite.y)
         /\ temp_video_mem + RowWidth =< h_res * v_res
    /\ ~RowLeft => i = sprite.y + sprite.height
=============================================================================
