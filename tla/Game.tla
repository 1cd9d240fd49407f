-------------------------------- MODULE Game --------------------------------
(***************************************************************************)
(* The game of proj/src: game_loop (game.c) with the handlers it calls for *)
(* one notification of the kernel - mouse_ih, then kbc_ih, then the timer  *)
(* part - and what those handlers do to the game.                          *)
(*                                                                         *)
(* The kernel delivers any non-empty set of interrupts in one message, so  *)
(* irqs is the set of handlers that the current message still has to run.  *)
(* A mouse or keyboard interrupt may complete no packet or scancode; the   *)
(* bytes themselves are below this module.                                 *)
(***************************************************************************)
EXTENDS Aliens, Pointer, Leaderboard

CONSTANTS
    FRAME_NUMBER,              \* timer interrupts per frame, 60 / GAME_FRAME_RATE (2)
    GAME_OVER_WAIT,            \* frames of the GAME_OVER screen (120)
    BANNER_DELAY,              \* of them, the ones before the banner (30)
    ALIEN_INIT_SPAWN_TIME,     \* first spawn interval, in frames (70)
    ALIEN_SPAWN_RATE_INCREASE, \* what each spawn takes off it (5)
    ALIEN_MAX_SPAWN_RATE,      \* (20)
    UINT_MOD,                  \* values of a uint32_t (2^32)
    Moves,                     \* displacements <<dx, dy>> a mouse packet can carry
    SaveFiles,                 \* save files the program may find at its first start
    MaxPoints                  \* bound on points, so that TLC terminates

ASSUME TimingAssumption ==
    /\ FRAME_NUMBER \in Nat \ {0}
    /\ GAME_OVER_WAIT \in Nat \ {0}
    /\ BANNER_DELAY \in 0 .. GAME_OVER_WAIT
    /\ ALIEN_INIT_SPAWN_TIME \in Nat
    /\ ALIEN_SPAWN_RATE_INCREASE \in Nat
    /\ ALIEN_MAX_SPAWN_RATE \in Nat

ASSUME WidthAssumption ==
    /\ UINT_MOD \in Nat
    /\ UINT_MOD > GAME_OVER_WAIT
    /\ UINT_MOD > ALIEN_INIT_SPAWN_TIME
    /\ UINT_MOD > ALIEN_MAX_SPAWN_RATE

ASSUME InputAssumption ==
    /\ Moves \subseteq Int \X Int
    /\ MaxPoints \in Nat
    /\ SaveFiles \subseteq SaveFile

(* The files the program is given hold their best score first.             *)
ASSUME FilesAssumption ==
    \A f \in SaveFiles : Ordered(readSaveFile(f, EmptyLeaderboard))

VARIABLES
    running,            \* game_loop is between its first and its last line
    irqs,               \* handlers the current message still has to run
    frame_counter,      \* frame_counter % FRAME_NUMBER: all the code uses of it
    game_state,
    points,
    game_over_counter,
    killer_alien,       \* struct KILLER_ALIEN
    game_matrix,
    random_alien_counter, random_alien_number, random_alien_spawn_rate_increase,
    mouse_x, mouse_y, button_was_raised,
    name,               \* the string in char name[7]
    LB,
    savefile

spawn == <<random_alien_counter, random_alien_number,
           random_alien_spawn_rate_increase>>
pointer == <<mouse_x, mouse_y, button_was_raised>>
over == <<game_over_counter, killer_alien>>
scores == <<name, LB, savefile>>
loop == <<running, irqs, frame_counter>>
vars == <<loop, game_state, points, over, game_matrix, spawn, pointer, scores>>

(* enum GAME_STATE                                                         *)
GAME_STATE == {"PLAYING", "PAUSE", "MENU", "GAME_OVER", "EXIT",
               "LEADERBOARD", "LB_INPUT"}

IRQs == {"mouse", "kbc", "timer"}

(* Unsigned subtraction of two uint32_t.                                   *)
UintSub(a, b) == IF a >= b THEN a - b ELSE UINT_MOD + a - b

KillerCell == <<killer_alien.y, killer_alien.x>>

-----------------------------------------------------------------------------
(* Before the program runs its variables hold nothing of interest; they    *)
(* are given the values game_initialize will assign.                       *)
Init ==
    /\ running = FALSE
    /\ irqs = {}
    /\ frame_counter = 0
    /\ game_state = "EXIT"
    /\ points = 0
    /\ game_over_counter = 0
    /\ killer_alien = [state |-> 0, x |-> 0, y |-> 0]
    /\ game_matrix = EmptyMatrix
    /\ random_alien_counter = 0
    /\ random_alien_number = ALIEN_INIT_SPAWN_TIME
    /\ random_alien_spawn_rate_increase = ALIEN_SPAWN_RATE_INCREASE
    /\ mouse_x = MOUSE_INIT_X
    /\ mouse_y = MOUSE_INIT_Y
    /\ button_was_raised = TRUE
    /\ name = << >>
    /\ LB = EmptyLeaderboard
    /\ savefile \in SaveFiles

(* Mutant: game_initialize without game_reset.                             *)
InitializeWithoutReset ==
    /\ game_state' = "MENU"
    /\ points' = 0
    /\ game_over_counter' = 0
    /\ mouse_x' = MOUSE_INIT_X
    /\ mouse_y' = MOUSE_INIT_Y
    /\ random_alien_counter' = 0
    /\ random_alien_number' = ALIEN_INIT_SPAWN_TIME
    /\ random_alien_spawn_rate_increase' = ALIEN_SPAWN_RATE_INCREASE
    /\ game_matrix' = game_matrix

(* game_initialize with its trailing game_reset.  button_was_raised, name, *)
(* killer_alien, frame_counter and LB keep their values.                   *)
game_initialize ==
    /\ game_state' = "MENU"
    /\ points' = 0
    /\ game_over_counter' = 0
    /\ mouse_x' = MOUSE_INIT_X
    /\ mouse_y' = MOUSE_INIT_Y
    /\ random_alien_counter' = 0
    /\ random_alien_number' = ALIEN_INIT_SPAWN_TIME
    /\ random_alien_spawn_rate_increase' = ALIEN_SPAWN_RATE_INCREASE
    /\ game_matrix' = EmptyMatrix

(* A new process enters game_loop: the static variables have their initial *)
(* values, then game_initialize and readSaveFile.                          *)
Start ==
    /\ ~running
    /\ running' = TRUE
    /\ irqs' = {}
    /\ frame_counter' = 0
    /\ button_was_raised' = TRUE
    /\ name' = << >>
    /\ killer_alien' = [state |-> 0, x |-> 0, y |-> 0]
    /\ game_initialize
    /\ LB' = readSaveFile(savefile, EmptyLeaderboard)
    /\ UNCHANGED savefile

(* driver_receive returns a notification of the hardware.                  *)
Receive(S) ==
    /\ running
    /\ irqs = {}
    /\ game_state # "EXIT"
    /\ irqs' = S
    /\ UNCHANGED <<running, frame_counter, game_state, points, over,
                   game_matrix, spawn, pointer, scores>>

(* The loop ends once the message that set EXIT is done, and the           *)
(* leaderboard is written.                                                 *)
Finish ==
    /\ running
    /\ irqs = {}
    /\ game_state = "EXIT"
    /\ running' = FALSE
    /\ savefile' = writeSaveFile(LB)
    /\ UNCHANGED <<irqs, frame_counter, game_state, points, over,
                   game_matrix, spawn, pointer, name, LB>>

-----------------------------------------------------------------------------
(* The mouse.  A packet that is not the third byte's, or that overflowed,  *)
(* changes nothing, not even button_was_raised.                            *)

Handles(irq, first) ==
    /\ irq \in irqs
    /\ irqs \cap first = {}
    /\ irqs' = irqs \ {irq}
    /\ UNCHANGED running

MouseIgnored ==
    /\ Handles("mouse", {})
    /\ UNCHANGED <<frame_counter, game_state, points, over, game_matrix,
                   spawn, pointer, scores>>

(* mouse_check_kill at crosshair position x, y.                            *)
mouse_check_kill(x, y) ==
    LET target == {c \in Cells : c = CellUnder(x, y) /\ Living(game_matrix[c])}
    IN  \/ \E c \in target :
             /\ points < MaxPoints
             /\ points' = points + 1
             /\ game_matrix' = [game_matrix EXCEPT ![c] = Shot]
        \/ /\ target = {}
           /\ UNCHANGED <<points, game_matrix>>

(* mouse_check_play_button, then mouse_check_exit_button.                  *)
MenuChoice(x, y) ==
    IF OnExitButton(x, y) THEN "EXIT"
    ELSE IF OnPlayButton(x, y) THEN "PLAYING"
    ELSE "MENU"

(* The left button counts as raised for a packet that says it is up.       *)
Raised(lbdown) == button_was_raised \/ ~lbdown

mouse_event_handler(move, lbdown) ==
    /\ mouse_x' = ClampX(mouse_x + move[1])
    /\ mouse_y' = ClampY(mouse_y - move[2])
    /\ \/ /\ game_state = "PLAYING"
          /\ lbdown /\ Raised(lbdown)
          /\ mouse_check_kill(mouse_x', mouse_y')
          /\ button_was_raised' = FALSE
          /\ UNCHANGED game_state
       \/ /\ game_state = "MENU"
          /\ lbdown /\ Raised(lbdown)
          /\ game_state' = MenuChoice(mouse_x', mouse_y')
          /\ button_was_raised' = FALSE
          /\ UNCHANGED <<points, game_matrix>>
       \/ /\ \/ game_state \notin {"PLAYING", "MENU"}
             \/ ~(lbdown /\ Raised(lbdown))
          /\ button_was_raised' = Raised(lbdown)
          /\ UNCHANGED <<game_state, points, game_matrix>>

MousePacket ==
    /\ Handles("mouse", {})
    /\ \E move \in Moves, lbdown \in BOOLEAN : mouse_event_handler(move, lbdown)
    /\ UNCHANGED <<frame_counter, over, spawn, scores>>

-----------------------------------------------------------------------------
(* The keyboard.  kbc_ih runs after mouse_ih of the same message.          *)

KbcUnchanged ==
    UNCHANGED <<frame_counter, over, button_was_raised, savefile>>

KeepsPlay == UNCHANGED <<points, game_matrix, spawn, mouse_x, mouse_y>>

(* No scancode is completed, or the state has no use for it.               *)
KeyIgnored ==
    /\ Handles("kbc", {"mouse"})
    /\ KbcUnchanged /\ KeepsPlay
    /\ UNCHANGED <<game_state, name, LB>>

(* ESC is looked at before the game state.                                 *)
KeyEsc ==
    /\ Handles("kbc", {"mouse"})
    /\ game_state' = "EXIT"
    /\ KbcUnchanged /\ KeepsPlay
    /\ UNCHANGED <<name, LB>>

(* Mutant: P pauses every screen.                                          *)
KeyPAnywhere ==
    /\ Handles("kbc", {"mouse"})
    /\ \/ game_state # "PAUSE" /\ game_state' = "PAUSE"
       \/ game_state = "PAUSE" /\ game_state' = "PLAYING"
    /\ KbcUnchanged /\ KeepsPlay
    /\ UNCHANGED <<name, LB>>

KeyP ==
    /\ Handles("kbc", {"mouse"})
    /\ \/ game_state = "PLAYING" /\ game_state' = "PAUSE"
       \/ game_state = "PAUSE" /\ game_state' = "PLAYING"
    /\ KbcUnchanged /\ KeepsPlay
    /\ UNCHANGED <<name, LB>>

(* Mutant: name[NAME_SIZE - 1] == 0, which is always so.                   *)
HasNoLimit == Len(name) < NAME_SIZE

(* name[NAME_SIZE - 2] == 0: there is room for one more character.         *)
HasRoom == Len(name) < NAME_SIZE - 1

KeyLetter(l) ==
    /\ Handles("kbc", {"mouse"})
    /\ game_state = "LB_INPUT"
    /\ HasRoom
    /\ name' = Append(name, l)
    /\ KbcUnchanged /\ KeepsPlay
    /\ UNCHANGED <<game_state, LB>>

(* DEL puts the terminator on the last character.                          *)
Chopped(s) == [i \in 1 .. Len(s) - 1 |-> s[i]]

KeyDel ==
    /\ Handles("kbc", {"mouse"})
    /\ game_state = "LB_INPUT"
    /\ name # << >>
    /\ name' = Chopped(name)
    /\ KbcUnchanged /\ KeepsPlay
    /\ UNCHANGED <<game_state, LB>>

(* ENTER on the input screen: game_save_and_display_lb.                    *)
KeyEnterName ==
    /\ Handles("kbc", {"mouse"})
    /\ game_state = "LB_INPUT"
    /\ name # << >>
    /\ LB' = addScore(points, name, LB)
    /\ game_state' = "LEADERBOARD"
    /\ KbcUnchanged /\ KeepsPlay
    /\ UNCHANGED name

(* ENTER on the leaderboard: game_initialize, back to the menu.            *)
KeyEnterMenu ==
    /\ Handles("kbc", {"mouse"})
    /\ game_state = "LEADERBOARD"
    /\ game_initialize
    /\ UNCHANGED <<frame_counter, killer_alien, button_was_raised, scores>>

kbc_ih ==
    \/ KeyIgnored \/ KeyEsc \/ KeyP \/ KeyDel \/ KeyEnterName \/ KeyEnterMenu
    \/ \E l \in Letters : KeyLetter(l)

-----------------------------------------------------------------------------
(* The timer.  It runs last, and one interrupt in FRAME_NUMBER is a frame: *)
(* vg_ih draws the state it finds, then game_ih moves the game.            *)

TimerInterrupt ==
    /\ Handles("timer", {"mouse", "kbc"})
    /\ frame_counter' = (frame_counter + 1) % FRAME_NUMBER

NoFrame ==
    /\ TimerInterrupt
    /\ frame_counter' # 0
    /\ UNCHANGED <<game_state, points, over, game_matrix, spawn, pointer, scores>>

Frame ==
    /\ TimerInterrupt
    /\ frame_counter' = 0
    /\ UNCHANGED <<points, pointer, LB, savefile>>

(* Mutant: the interval shrinks without looking.                           *)
RateIncreaseUnchecked ==
    /\ UNCHANGED random_alien_spawn_rate_increase
    /\ random_alien_number' =
         UintSub(random_alien_number, random_alien_spawn_rate_increase)

(* The interval shrinks at every spawn until it is shorter than one step;  *)
(* then it is set to ALIEN_MAX_SPAWN_RATE for good.                        *)
RateIncrease ==
    IF random_alien_spawn_rate_increase > random_alien_number
    THEN /\ random_alien_spawn_rate_increase' = 0
         /\ random_alien_number' = ALIEN_MAX_SPAWN_RATE
    ELSE /\ UNCHANGED random_alien_spawn_rate_increase
         /\ random_alien_number' =
              UintSub(random_alien_number, random_alien_spawn_rate_increase)

(* game_generate_new_alien on m, the matrix left by the scan before it.    *)
game_generate_new_alien(m) ==
    \/ /\ random_alien_counter < random_alien_number
       /\ random_alien_counter' = random_alien_counter + 1
       /\ game_matrix' = m
       /\ UNCHANGED <<random_alien_number, random_alien_spawn_rate_increase>>
    \/ /\ random_alien_counter >= random_alien_number
       /\ random_alien_counter' = 0
       /\ RateIncrease
       /\ game_matrix' \in Spawned(m)

(* Mutant: a case PAUSE that falls through to game_step.                   *)
PlayFramePaused ==
    /\ Frame
    /\ game_state \in {"PLAYING", "PAUSE"}
    /\ Killers(game_matrix) = {}
    /\ game_generate_new_alien(TickAll(game_matrix))
    /\ UNCHANGED <<game_state, over, name>>

(* game_step when no alien's time is up.                                   *)
PlayFrame ==
    /\ Frame
    /\ game_state = "PLAYING"
    /\ Killers(game_matrix) = {}
    /\ game_generate_new_alien(TickAll(game_matrix))
    /\ UNCHANGED <<game_state, over, name>>

(* game_step when the alien at k kills the player.  The spawn part of      *)
(* game_step still runs.                                                   *)
KilledFrame(k) ==
    /\ Frame
    /\ game_state = "PLAYING"
    /\ IsFirstKiller(game_matrix, k)
    /\ game_over_counter' = GAME_OVER_WAIT
    /\ game_state' = "GAME_OVER"
    /\ killer_alien' = [state |-> 0, x |-> k[2], y |-> k[1]]
    /\ game_generate_new_alien(kill_other_aliens(TickUntil(game_matrix, k), k))
    /\ UNCHANGED name

(* game_ih in GAME_OVER, with game_leaderboard at the end of the wait.     *)
GameOverFrame ==
    /\ Frame
    /\ game_state = "GAME_OVER"
    /\ game_matrix' = FadeAll(game_matrix, KillerCell)
    /\ game_over_counter' = UintSub(game_over_counter, 1)
    /\ killer_alien' = [killer_alien EXCEPT !.state = (game_over_counter' \div 5) % 4]
    /\ \/ /\ game_over_counter' = 0
          /\ name' = << >>
          /\ game_state' = IF compareScore(points, LB) THEN "LB_INPUT"
                                                       ELSE "LEADERBOARD"
       \/ /\ game_over_counter' # 0
          /\ UNCHANGED <<name, game_state>>
    /\ UNCHANGED spawn

IdleFrame ==
    /\ Frame
    /\ game_state \notin {"PLAYING", "GAME_OVER"}
    /\ UNCHANGED <<game_state, over, game_matrix, spawn, name>>

TimerIH ==
    \/ NoFrame \/ PlayFrame \/ GameOverFrame \/ IdleFrame
    \/ \E k \in Cells : KilledFrame(k)

-----------------------------------------------------------------------------
mouse_ih == MouseIgnored \/ MousePacket

Next ==
    \/ Start
    \/ \E S \in (SUBSET IRQs) \ {{}} : Receive(S)
    \/ mouse_ih
    \/ kbc_ih
    \/ TimerIH
    \/ Finish

Spec == Init /\ [][Next]_vars

(* Weak fairness: a driver that has a message keeps running.  Strong       *)
(* fairness: the timer interrupts 60 times a second whatever the devices   *)
(* do, and the kernel keeps an interrupt pending until driver_receive      *)
(* returns it.  Nothing is assumed of the player.                          *)
TimerNotified == \E S \in (SUBSET IRQs) \ {{}} : "timer" \in S /\ Receive(S)

Fairness ==
    /\ WF_vars(mouse_ih) /\ WF_vars(kbc_ih) /\ WF_vars(TimerIH) /\ WF_vars(Finish)
    /\ SF_vars(TimerNotified)

FairSpec == Spec /\ Fairness
-----------------------------------------------------------------------------
LoopTypeOK ==
    /\ running \in BOOLEAN
    /\ irqs \subseteq IRQs
    /\ frame_counter \in 0 .. FRAME_NUMBER - 1

PlayTypeOK ==
    /\ game_state \in GAME_STATE
    /\ points \in 0 .. MaxPoints
    /\ game_over_counter \in 0 .. UINT_MOD - 1
    /\ killer_alien \in [state : 0..3, x : Nat, y : Nat]
    /\ game_matrix \in [Cells -> Alien]

SpawnTypeOK ==
    /\ random_alien_counter \in 0 .. UINT_MOD - 1
    /\ random_alien_number \in 0 .. UINT_MOD - 1
    /\ random_alien_spawn_rate_increase \in {0, ALIEN_SPAWN_RATE_INCREASE}

PointerTypeOK ==
    /\ mouse_x \in Int
    /\ mouse_y \in Int
    /\ button_was_raised \in BOOLEAN

ScoresTypeOK ==
    /\ name \in Name
    /\ LB \in LeaderboardType
    /\ savefile \in SaveFile

(* Every variable has the type of its C declaration; no enum or sprite     *)
(* index leaves its array, and the string in name leaves room for its      *)
(* terminator (keyboard_event_handler's strcat).                           *)
TypeOK ==
    /\ LoopTypeOK
    /\ PlayTypeOK
    /\ SpawnTypeOK
    /\ PointerTypeOK
    /\ ScoresTypeOK

(* While the game is over the wait counter has not run out (an unsigned    *)
(* decrement of 0 would keep the screen for 2^32 frames), and the alien    *)
(* that killed the player is still where vg_draw_killer_alien draws it:    *)
(* neither kill_other_aliens, nor the fading, nor the spawn that follows   *)
(* the death in the same frame has touched its cell.                       *)
KillerStays ==
    game_state = "GAME_OVER" =>
        /\ game_over_counter \in 1 .. GAME_OVER_WAIT
        /\ KillerCell \in Cells
        /\ game_matrix[KillerCell] = [state |-> ALIVE, time |-> 0]

(* vg_draw_game_over draws the banner.                                     *)
BannerShown == game_state = "GAME_OVER" /\ game_over_counter < GAME_OVER_WAIT - BANNER_DELAY

(* vg_draw_game_over stops drawing aliens when it starts drawing the       *)
(* banner: by then every death animation is over, the one of an alien      *)
(* spawned in the frame of the death included.                             *)
BannerAfterFading ==
    BannerShown => \A c \in Cells \ {KillerCell} : game_matrix[c].state = EMPTY

(* Whatever the last game left behind, the menu - from which alone a game  *)
(* starts - has no alien, no point, no wait and the initial spawn clock.   *)
MenuIsClean ==
    game_state = "MENU" =>
        /\ game_matrix = EmptyMatrix
        /\ points = 0
        /\ game_over_counter = 0
        /\ random_alien_counter = 0
        /\ random_alien_number = ALIEN_INIT_SPAWN_TIME
        /\ random_alien_spawn_rate_increase = ALIEN_SPAWN_RATE_INCREASE

(* Whatever packets arrive, the crosshair stays where vg_draw_sprite can   *)
(* draw it whole.                                                          *)
CrosshairOnScreen ==
    /\ mouse_x - crosshair_half_width >= 0
    /\ mouse_x + crosshair_half_width < GAME_WIDTH
    /\ mouse_y - crosshair_half_height >= 0
    /\ mouse_y + crosshair_half_height < GAME_HEIGHT

(* The spawn clock never passes its target and the target never wraps      *)
(* below zero, for any number of spawns: otherwise no alien would appear   *)
(* for 2^32 frames.                                                        *)
SpawnClockSound ==
    /\ random_alien_counter =< random_alien_number
    /\ \/ random_alien_number =< ALIEN_INIT_SPAWN_TIME
       \/ random_alien_number =< ALIEN_MAX_SPAWN_RATE

(* A name is asked only for a score that enters the table, and it still    *)
(* does when ENTER comes, however long the player types.                   *)
InputOnlyForBest ==
    game_state = "LB_INPUT" => \E i \in Index : LB.scores[i] < points

(* The leaderboard is ordered, as getLeaderBoard displays it.              *)
LeaderboardOrdered == Ordered(LB)

-----------------------------------------------------------------------------
(* While paused nothing of the game moves, whatever the timer and the      *)
(* mouse do; the pause ends only by going on or by leaving the program.    *)
PauseFreezes ==
    [][game_state = "PAUSE" =>
         /\ UNCHANGED <<points, over, game_matrix, spawn, LB, name>>
         /\ game_state' \in {"PAUSE", "PLAYING", "EXIT"}]_vars

(* leaderboard.h on addScore, "Adds score to leaderboard": once the name   *)
(* is entered, the table holds the player's score under that name, and     *)
(* every entry but the worst is still there with its own name.             *)
AddedScoreIsInTable ==
    [][game_state = "LB_INPUT" /\ game_state' = "LEADERBOARD" =>
         LET Entry(lb, i) == <<lb.scores[i], lb.names[i]>>
             Expected == {<<points, name>>} \cup {Entry(LB, i) : i \in Index \ {0}}
         IN  Expected \subseteq {Entry(LB', i) : i \in Index}]_vars

(* A shot alien's death animation ends with an empty cell, unless the game *)
(* is left, however often the player pauses it and resumes: a pause only   *)
(* delays the end, as long as the game is not left paused or paused before *)
(* every frame for ever.                                                   *)
ShotAlienVanishes ==
    \A c \in Cells :
        <>[](game_state # "PAUSE") =>
            ((game_state = "PLAYING" /\ game_matrix[c].state = DEAD_1)
                ~> (game_matrix[c].state = EMPTY
                      \/ game_state \notin {"PLAYING", "PAUSE", "GAME_OVER"}))

(* A player who can no longer kill (MaxPoints kills were made) cannot play *)
(* for ever: aliens keep coming and one of them runs out of time.          *)
PassivePlayerLoses == game_state = "PLAYING" ~> game_state # "PLAYING"

-----------------------------------------------------------------------------
(* What the repository says of the program, where the code disagrees.      *)

(* leaderboard.h on writeSaveFile, "Writes to file the leaderboard": the   *)
(* file left at exit reads back as the leaderboard of the session.         *)
SaveFileHoldsLeaderboard ==
    [][running /\ ~running' => readSaveFile(savefile', EmptyLeaderboard) = LB]_vars

(* mouse.c in mouse_check_kill, "Ignores if there is no alien in the place *)
(* of the mouse": a shot kills only an alien drawn under the crosshair.    *)
ShotsHitWhatIsDrawn ==
    [][points' = points + 1 =>
         \E c \in Cells : /\ Living(game_matrix[c]) /\ ~Living(game_matrix'[c])
                          /\ DrawnAt(c, mouse_x', mouse_y')]_vars
=============================================================================
