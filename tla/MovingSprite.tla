---------------------------- MODULE MovingSprite ----------------------------
(***************************************************************************)
(* vg_draw_moving_sprite of lab5/video_card.c: a sprite that moves from    *)
(* (xi, yi) towards (xf, yf), a frame at a time, until ESC is released.  A *)
(* positive speed is in pixels per frame; another one is in frames per     *)
(* pixel.  Coordinates are unsigned 16-bit numbers.                        *)
(***************************************************************************)
EXTENDS Integers

CONSTANTS
    H_RES, V_RES,       \* resolution of the mode
    WIDTH, HEIGHT,      \* img_info of the sprite
    no_interrupts,      \* 60 / fr_rate
    Speeds,             \* arguments: speeds
    Paths,              \* arguments: <<xi, yi, xf, yf>>
    UINT16_MOD

ASSUME MovingSpriteAssumption ==
    /\ H_RES \in Nat /\ V_RES \in Nat
    /\ WIDTH \in 0..H_RES /\ HEIGHT \in 0..V_RES
    /\ no_interrupts \in Nat
    /\ UINT16_MOD \in Nat \ {0}
    /\ Speeds \subseteq Int
    /\ \A s \in Speeds : H_RES + s < UINT16_MOD /\ V_RES + s < UINT16_MOD
    /\ Paths \subseteq (0 .. H_RES - WIDTH) \X (0 .. V_RES - HEIGHT)
                         \X (0 .. UINT16_MOD - 1) \X (0 .. UINT16_MOD - 1)

VARIABLES
    path, speed,                  \* the arguments
    x, y, speed_x, speed_y,
    counter_interrupts,
    neg_speed_frame_counter,
    flagESC,
    irqs                          \* handlers the message still has to run

place == <<x, y, speed_x, speed_y, neg_speed_frame_counter>>
vars == <<path, speed, place, counter_interrupts, flagESC, irqs>>

IRQs == {"kbc", "timer"}

Abs(v) == IF v < 0 THEN -v ELSE v

-----------------------------------------------------------------------------
Init ==
    /\ path \in Paths
    /\ speed \in Speeds
    /\ x = path[1]
    /\ y = path[2]
    /\ speed_x = IF path[3] = path[1] THEN 0 ELSE Abs(speed)
    /\ speed_y = IF path[3] = path[1] THEN Abs(speed) ELSE 0
    /\ counter_interrupts = 0
    /\ neg_speed_frame_counter = 0
    /\ flagESC = TRUE
    /\ irqs = {}

(* driver_receive, as long as ESC was not released.                        *)
Receive(S) ==
    /\ flagESC
    /\ irqs = {}
    /\ irqs' = S
    /\ UNCHANGED <<path, speed, place, counter_interrupts, flagESC>>

(* kbc_ih, for a byte that is the release of ESC or another one.           *)
Keyboard ==
    /\ "kbc" \in irqs
    /\ irqs' = irqs \ {"kbc"}
    /\ flagESC' \in {flagESC, FALSE}
    /\ UNCHANGED <<path, speed, place, counter_interrupts>>

Timer == irqs = {"timer"} /\ irqs' = {} /\ UNCHANGED <<path, speed, flagESC>>

(* A timer interrupt between two frames.                                   *)
NoFrame ==
    /\ Timer
    /\ counter_interrupts < no_interrupts
    /\ counter_interrupts' = counter_interrupts + 1
    /\ UNCHANGED place

Frame == Timer /\ counter_interrupts >= no_interrupts /\ counter_interrupts' = 0

AtTarget == x = path[3] /\ y = path[4]

(* The sprite is drawn and is where it should be.                          *)
RestFrame == Frame /\ AtTarget /\ UNCHANGED place

(* Mutant: only the right border is tested.                                *)
OutsideRight(px, py) == px + WIDTH > H_RES

Outside(px, py) == px + WIDTH > H_RES \/ py + HEIGHT > V_RES

(* Mutant: at the border the sprite starts again.                          *)
MoveAgain(px, py) ==
    /\ x' = IF Outside(px, py) THEN path[1] ELSE px
    /\ y' = IF Outside(px, py) THEN path[2] ELSE py
    /\ UNCHANGED <<speed_x, speed_y>>

(* Where a step to <<px, py>> ends: outside the screen it is taken back,   *)
(* and the sprite stops.                                                   *)
MoveTo(px, py) ==
    IF Outside(px, py)
    THEN /\ x' = (px - speed_x) % UINT16_MOD
         /\ y' = (py - speed_y) % UINT16_MOD
         /\ speed_x' = 0
         /\ speed_y' = 0
    ELSE /\ x' = px
         /\ y' = py
         /\ UNCHANGED <<speed_x, speed_y>>

FastFrame ==
    /\ Frame
    /\ ~AtTarget
    /\ speed > 0
    /\ MoveTo((x + speed_x) % UINT16_MOD, (y + speed_y) % UINT16_MOD)
    /\ UNCHANGED neg_speed_frame_counter

(* One pixel after Abs(speed) frames: down if speed_x is 0, else right.    *)
SlowFrame ==
    /\ Frame
    /\ ~AtTarget
    /\ speed =< 0
    /\ IF neg_speed_frame_counter = Abs(speed)
       THEN /\ IF speed_x = 0 THEN MoveTo(x, (y + 1) % UINT16_MOD)
                              ELSE MoveTo((x + 1) % UINT16_MOD, y)
            /\ neg_speed_frame_counter' = 0
       ELSE /\ MoveTo(x, y)
            /\ neg_speed_frame_counter' = neg_speed_frame_counter + 1

TimerIH == NoFrame \/ RestFrame \/ FastFrame \/ SlowFrame

Next ==
    \/ \E S \in SUBSET IRQs \ {{}} : Receive(S)
    \/ Keyboard
    \/ TimerIH

Spec == Init /\ [][Next]_vars

(* The timer goes on while the program runs, and a message is handled.     *)
FairSpec ==
    /\ Spec
    /\ WF_vars(Keyboard \/ TimerIH)
    /\ SF_vars(\E S \in SUBSET IRQs : "timer" \in S /\ Receive(S))

-----------------------------------------------------------------------------
(* With a positive speed the whole sprite stays on the screen: the step    *)
(* that would leave it is taken back whole.                                *)
SpriteOnScreen == speed > 0 => x + WIDTH =< H_RES /\ y + HEIGHT =< V_RES

(* A target that the steps of a positive speed meet: straight ahead, a     *)
(* whole number of steps away, and on the screen.                          *)
Ahead(from, to) == to >= from /\ (to - from) % speed = 0

Reachable ==
    \/ path[3] = path[1] /\ Ahead(path[2], path[4]) /\ path[4] + HEIGHT =< V_RES
    \/ path[3] # path[1] /\ path[4] = path[2]
         /\ Ahead(path[1], path[3]) /\ path[3] + WIDTH =< H_RES

(* One step more, down or to the right, would leave the screen.            *)
AtBorder ==
    IF path[3] = path[1] THEN y + HEIGHT + speed > V_RES
                         ELSE x + WIDTH + speed > H_RES

(* Where a sprite with a positive speed comes to rest, unless ESC ends the *)
(* program before: at the "final coordinates" (lab5.h:119) if its steps    *)
(* meet them; a target that they jump over, or that lies behind the start, *)
(* is passed and the sprite goes on to the border.                         *)
ComesToRest ==
    <>[](speed > 0 /\ flagESC => IF Reachable THEN AtTarget ELSE AtBorder)
=============================================================================
