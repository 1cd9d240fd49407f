---------------------------- MODULE SpriteProofs ----------------------------
(***************************************************************************)
(* A sprite with a positive speed stays on the screen, for every screen,   *)
(* sprite, path and speed.                                                 *)
(***************************************************************************)
EXTENDS MovingSprite, TLAPS

(* The place of the sprite.                                                *)
Placed ==
    /\ x \in Nat /\ y \in Nat
    /\ x + WIDTH =< H_RES /\ y + HEIGHT =< V_RES

(* The two speeds are the given one or, along the other axis and after the *)
(* border, zero: a step that is taken back ends where it began.            *)
SpriteInv ==
    /\ speed \in Speeds
    /\ speed > 0 => Placed /\ speed_x \in {0, speed} /\ speed_y \in {0, speed}

-----------------------------------------------------------------------------
(* One step along one axis, taken back in 16-bit arithmetic.               *)
LEMMA TakenBack ==
    ASSUME NEW a \in Nat, NEW s \in Nat, a + s < UINT16_MOD
    PROVE  /\ (a + s) % UINT16_MOD = a + s
           /\ (((a + s) % UINT16_MOD) - s) % UINT16_MOD = a
<1>1. UINT16_MOD \in Nat \ {0}
  BY MovingSpriteAssumption
<1>2. \A k, m \in Nat : k < m => k % m = k
  OBVIOUS
<1>3. (a + s) % UINT16_MOD = a + s
  BY <1>1, <1>2
<1>4. a % UINT16_MOD = a
  BY <1>1, <1>2
<1> QED
  BY <1>3, <1>4

(* The sprite starts on the screen.                                        *)
LEMMA InitSprite == Init => SpriteInv
<1> SUFFICES ASSUME Init, speed > 0
             PROVE  Placed /\ speed_x \in {0, speed} /\ speed_y \in {0, speed}
  BY DEF Init, SpriteInv
<1>1. speed \in Int /\ speed \in Speeds
  BY MovingSpriteAssumption DEF Init
<1>2. Abs(speed) = speed
  BY <1>1 DEF Abs
<1>3. path[1] \in 0 .. H_RES - WIDTH /\ path[2] \in 0 .. V_RES - HEIGHT
  BY MovingSpriteAssumption DEF Init
<1>4. Placed
  BY <1>3, MovingSpriteAssumption DEF Init, Placed
<1> QED
  BY <1>2, <1>4 DEF Init

(* A frame with a positive speed keeps it there.                           *)
LEMMA FastFrameKeeps == SpriteInv /\ FastFrame => SpriteInv'
<1> SUFFICES ASSUME SpriteInv, FastFrame PROVE SpriteInv'
  OBVIOUS
<1> DEFINE px == (x + speed_x) % UINT16_MOD
           py == (y + speed_y) % UINT16_MOD
<1>1. speed' = speed /\ speed > 0 /\ MoveTo(px, py)
  BY DEF FastFrame, Frame, Timer
<1>2. /\ speed \in Speeds /\ speed \in Nat
      /\ H_RES + speed < UINT16_MOD /\ V_RES + speed < UINT16_MOD
      /\ WIDTH \in Nat /\ HEIGHT \in Nat /\ H_RES \in Nat /\ V_RES \in Nat
      /\ UINT16_MOD \in Nat
  BY <1>1, MovingSpriteAssumption DEF SpriteInv
<1>3. Placed /\ speed_x \in {0, speed} /\ speed_y \in {0, speed}
  BY <1>1 DEF SpriteInv
<1>4. /\ x + speed_x < UINT16_MOD /\ y + speed_y < UINT16_MOD
      /\ speed_x \in Nat /\ speed_y \in Nat
  BY <1>2, <1>3 DEF Placed
<1>5. /\ px = x + speed_x /\ (px - speed_x) % UINT16_MOD = x
      /\ py = y + speed_y /\ (py - speed_y) % UINT16_MOD = y
  BY <1>3, <1>4, TakenBack DEF Placed
<1> HIDE DEF px, py
<1>6. CASE Outside(px, py)
  <2>1. x' = x /\ y' = y /\ speed_x' = 0 /\ speed_y' = 0
    BY <1>1, <1>5, <1>6 DEF MoveTo
  <2> QED
    BY <1>1, <1>2, <1>3, <2>1 DEF SpriteInv, Placed
<1>7. CASE ~Outside(px, py)
  <2>1. x' = px /\ y' = py /\ speed_x' = speed_x /\ speed_y' = speed_y
    BY <1>1, <1>7 DEF MoveTo
  <2>2. px + WIDTH =< H_RES /\ py + HEIGHT =< V_RES /\ px \in Nat /\ py \in Nat
    BY <1>2, <1>3, <1>4, <1>5, <1>7 DEF Outside, Placed
  <2>3. Placed'
    BY <2>1, <2>2 DEF Placed
  <2> QED
    BY <1>1, <1>2, <1>3, <2>1, <2>3 DEF SpriteInv
<1> QED
  BY <1>6, <1>7

(* So does every other step.                                               *)
LEMMA NextSprite == SpriteInv /\ [Next]_vars => SpriteInv'
<1> SUFFICES ASSUME SpriteInv, [Next]_vars PROVE SpriteInv'
  OBVIOUS
<1>1. ASSUME UNCHANGED <<speed, place>> PROVE SpriteInv'
  BY <1>1 DEF SpriteInv, Placed, place
<1>2. CASE \E S \in SUBSET IRQs \ {{}} : Receive(S)
  BY <1>1, <1>2 DEF Receive
<1>3. CASE Keyboard
  BY <1>1, <1>3 DEF Keyboard
<1>4. CASE NoFrame \/ RestFrame
  BY <1>1, <1>4 DEF NoFrame, RestFrame, Frame, Timer
<1>5. CASE FastFrame
  BY <1>5, FastFrameKeeps
<1>6. CASE SlowFrame
  <2>1. speed' = speed /\ ~(speed > 0)
    BY <1>6, MovingSpriteAssumption DEF SlowFrame, Frame, Timer, SpriteInv
  <2> QED
    BY <2>1 DEF SpriteInv
<1>7. CASE UNCHANGED vars
  BY <1>1, <1>7 DEF vars
<1> QED
  BY <1>2, <1>3, <1>4, <1>5, <1>6, <1>7 DEF Next, TimerIH

(* For every screen, sprite, path and positive speed, vg_draw_moving_sprite *)
(* draws the whole sprite inside the frame buffer.                          *)
THEOREM SpriteStaysOnScreen == Spec => []SpriteOnScreen
<1>1. SpriteInv => SpriteOnScreen
  BY DEF SpriteInv, SpriteOnScreen, Placed
<1> QED
  BY <1>1, InitSprite, NextSprite, PTL DEF Spec
=============================================================================
