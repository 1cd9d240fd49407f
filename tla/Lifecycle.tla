------------------------------ MODULE Lifecycle -----------------------------
(***************************************************************************)
(* A whole run of a program that uses the mouse: proj_main_loop with the   *)
(* set-up and clean-up of game_loop (proj.c, game.c), or mouse_test_packet *)
(* of lab4, around the commands of MouseCmd.                               *)
(*                                                                         *)
(* While a program has not subscribed the mouse's interrupt exclusively,   *)
(* the handler of the system is active too and takes bytes of the mouse,   *)
(* also the ones that read_ACK_byte waits for.  The game gives its         *)
(* commands at such moments, lab4 between subscribing and unsubscribing.   *)
(***************************************************************************)
EXTENDS MouseCmd, Sequences

CONSTANT Programs        \* programs that are run

ASSUME ProgramsAssumption == Programs \subseteq {"proj", "lab4"}

VARIABLES
    prog, at,            \* the program and the number of its present step
    ret,                 \* what it returned
    allocated,           \* there is a buffer for the frames
    graphics,            \* the screen is in graphics mode
    hooks, refused,      \* interrupts subscribed; the mouse's could not be
    kept,                \* interrupts that could not be unsubscribed
    taken                \* the system's handler took an answer

life == <<prog, at, ret, allocated, graphics, hooks, refused, kept, taken>>
lifeVars == <<vars, life>>

EXIT_SUCCESS == 0
EXIT_FAILURE == 1

(* Mutant: the mouse is unsubscribed before it is told to stop.            *)
Lab4Swapped == <<"subscribe", "enable", "loop", "unsubscribe", "disable", "return">>

ProjSteps ==
    <<"prepare", "load", "mode", "enable", "subscribe", "loop", "unsubscribe", "disable",
      "exit", "free", "return">>

Lab4Steps == <<"subscribe", "enable", "loop", "disable", "unsubscribe", "return">>

Steps == [p \in {"proj", "lab4"} |-> IF p = "proj" THEN ProjSteps ELSE Lab4Steps]

Stage == IF at = 0 THEN "ended" ELSE Steps[prog][at]

LifeInit ==
    /\ Init
    /\ prog \in Programs
    /\ at = 1
    /\ ret = EXIT_SUCCESS
    /\ allocated = FALSE
    /\ graphics = FALSE
    /\ hooks = {} /\ refused = FALSE /\ kept = {}
    /\ taken = FALSE

-----------------------------------------------------------------------------
Goes == at' = at + 1 /\ UNCHANGED <<prog, ret, taken, vars>>

Ends(r) == at' = 0 /\ ret' = r /\ UNCHANGED <<prog, taken, vars>>

(* vg_prepareGraphics: true also when the mode is not known, and when      *)
(* malloc has no memory for the buffer; panic when the video memory cannot *)
(* be mapped.                                                              *)
vg_prepareGraphics ==
    /\ Stage = "prepare"
    /\ \/ allocated' \in BOOLEAN /\ (Goes \/ Ends(EXIT_FAILURE))
       \/ UNCHANGED allocated /\ Goes
    /\ UNCHANGED <<graphics, hooks, refused, kept>>

vg_load_sprites ==
    /\ Stage = "load"
    /\ Goes
    /\ UNCHANGED <<allocated, graphics, hooks, refused, kept>>

vg_setGraphics ==
    /\ Stage = "mode"
    /\ \/ graphics' = TRUE /\ Goes
       \/ UNCHANGED graphics /\ Ends(EXIT_FAILURE)
    /\ UNCHANGED <<allocated, hooks, refused, kept>>

(* The results of the subscriptions are not looked at.                     *)
Subscribe ==
    /\ Stage = "subscribe"
    /\ \E ok \in SUBSET {"kbc", "timer", "mouse"} :
        /\ hooks' = IF prog = "proj" THEN ok ELSE ok \cap {"mouse"}
        /\ refused' = ("mouse" \notin ok)
    /\ Goes
    /\ UNCHANGED <<allocated, graphics, kept>>

(* The player leaves by ESC or by the button; lab4 has its packets.        *)
LoopEnds ==
    /\ Stage = "loop"
    /\ hooks \cap {"kbc", "mouse"} # {}
    /\ Goes
    /\ UNCHANGED <<allocated, graphics, hooks, refused, kept>>

(* Each hook is removed on its own, and nobody looks whether it was.       *)
Unsubscribe ==
    /\ Stage = "unsubscribe"
    /\ \E bad \in SUBSET hooks : hooks' = bad /\ kept' = bad
    /\ Goes
    /\ UNCHANGED <<allocated, graphics, refused>>

(* Mutant: the result of vg_exit is not looked at.                         *)
ExitFailsUnseen == Goes

ExitFails == Ends(EXIT_FAILURE)

vg_exit ==
    /\ Stage = "exit"
    /\ \/ graphics' = FALSE /\ Goes
       \/ UNCHANGED graphics /\ ExitFails
    /\ UNCHANGED <<allocated, hooks, refused, kept>>

vg_free ==
    /\ Stage = "free"
    /\ allocated' = FALSE
    /\ Goes
    /\ UNCHANGED <<graphics, hooks, refused, kept>>

Return ==
    /\ Stage = "return"
    /\ Ends(EXIT_SUCCESS)
    /\ UNCHANGED <<allocated, graphics, hooks, refused, kept>>

(* _mouse_enable_data_reporting_ and mouse_disable_data_reporting.         *)
EnableReturns ==
    /\ Stage = "enable" /\ pc = "playing"
    /\ Goes
    /\ UNCHANGED <<allocated, graphics, hooks, refused, kept>>

DisableBegins ==
    /\ Stage = "disable"
    /\ mouse_disable_data_reporting
    /\ UNCHANGED life

DisableReturns ==
    /\ Stage = "disable" /\ pc = "done"
    /\ Goes
    /\ UNCHANGED <<allocated, graphics, hooks, refused, kept>>

Command ==
    /\ Stage \in {"enable", "disable"}
    /\ Commanding
    /\ UNCHANGED life

(* The handlers of the loop empty the buffer.                              *)
LoopHandles ==
    /\ Stage = "loop"
    /\ "mouse" \in hooks
    /\ Handled
    /\ UNCHANGED life

(* So does the handler of the system.  A byte that it takes between the    *)
(* two accesses of read_ACK_byte is still read: the register keeps it.     *)
SystemTakes ==
    /\ "mouse" \notin hooks
    /\ obuf # "empty" /\ pc # "get"
    /\ obuf' = "empty"
    /\ reply' = FALSE
    /\ taken' = (taken \/ reply)
    /\ UNCHANGED <<program, inbuf, prefixed, todo, told, did,
                   prog, at, ret, allocated, graphics, hooks, refused, kept>>

Controller ==
    /\ Take \/ KeyboardAnswers \/ \E b \in Noise : OtherByte(b)
    /\ UNCHANGED life

Mouse(a) == MouseAnswers(a) /\ UNCHANGED life

Main ==
    \/ vg_prepareGraphics \/ vg_load_sprites \/ vg_setGraphics \/ Subscribe
    \/ Unsubscribe \/ vg_exit \/ vg_free \/ Return
    \/ EnableReturns \/ DisableBegins \/ DisableReturns \/ Command

LifeNext ==
    \/ Main \/ LoopEnds \/ LoopHandles
    \/ SystemTakes \/ Controller \/ \E a \in Answers : Mouse(a)

LifeSpec == LifeInit /\ [][LifeNext]_lifeVars

(* The program runs on, the controller takes what it is given, a port that *)
(* is used again and again can be used in the end, and a device that is    *)
(* asked again and again gets its answer through: the mouse will not       *)
(* refuse a command for ever.  Nothing is assumed of the player.           *)
FairLife ==
    /\ LifeSpec
    /\ WF_lifeVars(Main)
    /\ WF_lifeVars(Take /\ UNCHANGED life)
    /\ SF_lifeVars(PollFree /\ UNCHANGED life)
    /\ SF_lifeVars(GetByte /\ UNCHANGED life)
    /\ SF_lifeVars(Mouse("ACK"))
    /\ SF_lifeVars(KeyboardAnswers /\ UNCHANGED life)

-----------------------------------------------------------------------------
(* A run that reports success leaves the screen in text mode, no memory,   *)
(* and no subscription but those that the kernel would not remove,         *)
(* whichever of its calls failed.                                          *)
CleanReturn ==
    at = 0 /\ ret = EXIT_SUCCESS => ~graphics /\ ~allocated /\ hooks \subseteq kept

(* lab4 loses no answer to the system's handler, unless its subscription   *)
(* failed or a wait was cut short: it gives its commands only while the    *)
(* subscription is in force, and waits for their answers meanwhile.        *)
Lab4KeepsAnswers == prog = "lab4" /\ taken => refused \/ cuts > 0

(* No step before and after the loop lasts for ever, although the waits    *)
(* for the mouse have no timeout, unless the system's handler took an      *)
(* answer or the command byte was never written: then read_ACK_byte waits  *)
(* for good.                                                               *)
StuckOnlyIfTaken == []<>(Stage \in {"loop", "ended"} \/ taken \/ unsent)
=============================================================================
