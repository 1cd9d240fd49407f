------------------------------- MODULE Aliens -------------------------------
(***************************************************************************)
(* The alien matrix of proj/src/game.c: the life cycle of one alien, the   *)
(* row-major scan of game_update_alien_times, kill_other_aliens, and the   *)
(* places where game_generate_new_alien can put a new alien.  Everything   *)
(* here is a pure function of a matrix; module Game holds the state.       *)
(***************************************************************************)
EXTENDS Integers

CONSTANTS
    GAME_HEIGHT_MATRIX,   \* rows of the matrix (7)
    GAME_WIDTH_MATRIX,    \* columns of the matrix (11)
    alien_times           \* frames an alien stays in each state after the first

ASSUME MatrixAssumption ==
    /\ GAME_HEIGHT_MATRIX \in Nat \ {0}
    /\ GAME_WIDTH_MATRIX \in Nat \ {0}

(* enum ALIEN_STATE keeps its C values: the code moves to the next state   *)
(* with state++.                                                           *)
APPEARING == 0
ALIVE     == 1
DEAD_1    == 2
EMPTY     == 7

ASSUME TimesAssumption == alien_times \in [APPEARING..EMPTY -> Nat]

(* A cell is <<row, column>>, the [i][j] of game_matrix.                   *)
Cells == (0 .. GAME_HEIGHT_MATRIX - 1) \X (0 .. GAME_WIDTH_MATRIX - 1)

Alien == [state : APPEARING..EMPTY, time : Nat]

NoAlien   == [state |-> EMPTY, time |-> 0]
Newborn   == [state |-> APPEARING, time |-> alien_times[APPEARING]]
Shot      == [state |-> DEAD_1, time |-> alien_times[DEAD_1]]

(* kill_other_aliens and the GAME_OVER branch of game_update_alien_times   *)
(* write the literal 2 instead of reading alien_times.                     *)
LongFade == 3   \* mutant: one frame too many
FADE_TIME == 2
Condemned == [state |-> DEAD_1, time |-> FADE_TIME]

EmptyMatrix == [c \in Cells |-> NoAlien]

Living(a) == a.state \in {APPEARING, ALIVE}

-----------------------------------------------------------------------------
(* Mutant: the next state is taken only below NUMBER_ALIEN_STATES - 1.     *)
TickShort(a) ==
    IF a.state >= EMPTY - 1 THEN a
    ELSE IF a.time > 0 THEN [a EXCEPT !.time = @ - 1]
    ELSE [state |-> a.state + 1, time |-> alien_times[a.state + 1]]

(* One visit of the scan while the game is PLAYING: time--, or the next    *)
(* state with its own time.                                                *)
Tick(a) ==
    IF a.state = EMPTY THEN a
    ELSE IF a.time > 0 THEN [a EXCEPT !.time = @ - 1]
    ELSE [state |-> a.state + 1, time |-> alien_times[a.state + 1]]

(* The same visit once the game is over: every state lasts FADE_TIME.      *)
FadeTick(a) ==
    IF a.state = EMPTY THEN a
    ELSE IF a.time > 0 THEN [a EXCEPT !.time = @ - 1]
    ELSE [state |-> a.state + 1, time |-> FADE_TIME]

(* Mutant: an unsigned time that is never below 0.                         *)
NoKillers(m) == {c \in Cells : m[c].state = ALIVE /\ m[c].time < 0}

(* The aliens that would kill the player when the scan reaches them.       *)
Killers(m) == {c \in Cells : m[c].state = ALIVE /\ m[c].time = 0}

(* The order in which the two nested loops visit the cells.                *)
Before(c, d) == c[1] < d[1] \/ (c[1] = d[1] /\ c[2] < d[2])

(* Only the first killer of the scan gets to kill: the scan returns there. *)
IsFirstKiller(m, k) ==
    /\ k \in Killers(m)
    /\ \A d \in Killers(m) \ {k} : Before(k, d)

(* A scan that meets no killer visits every cell.                          *)
TickAll(m) == [c \in Cells |-> Tick(m[c])]

(* A scan that ends at killer k has ticked the cells before k and none of  *)
(* the others, k included.                                                 *)
TickUntil(m, k) == [c \in Cells |-> IF Before(c, k) THEN Tick(m[c]) ELSE m[c]]

(* kill_other_aliens restarts the death animation of every alien but k.    *)
kill_other_aliens(m, k) ==
    [c \in Cells |-> IF c = k \/ m[c].state = EMPTY THEN m[c] ELSE Condemned]

(* Mutant: the killer is not skipped.                                      *)
FadeEverything(m, k) == [c \in Cells |-> FadeTick(m[c])]

(* The scan in GAME_OVER leaves the killer alone.                          *)
FadeAll(m, k) == [c \in Cells |-> IF c = k THEN m[c] ELSE FadeTick(m[c])]

-----------------------------------------------------------------------------
Vacant(m) == {c \in Cells : m[c].state = EMPTY}

(* The matrices game_generate_new_alien can leave.  Each random attempt    *)
(* may hit any cell, and all attempts can fail as soon as one cell is      *)
(* occupied.                                                               *)
Spawned(m) ==
    {[m EXCEPT ![c] = Newborn] : c \in Vacant(m)}
        \cup (IF Vacant(m) = Cells THEN {} ELSE {m})
=============================================================================
