------------------------------ MODULE LabScans ------------------------------
(***************************************************************************)
(* The test programs of lab3 and lab4: one of them runs, on its device.    *)
(***************************************************************************)
EXTENDS KbdScan, MouseScan

vars == <<loopVars, kbdVars, mouseVars>>

Init == LoopInit /\ KbdInit /\ MouseInit

Program ==
    \/ prog \in KeyboardPrograms /\ KbdProgram /\ UNCHANGED mouseVars
    \/ prog \in MousePrograms /\ mouse_ih /\ UNCHANGED kbdVars

DeviceSends ==
    \/ prog \in KeyboardPrograms /\ KeyboardSends /\ UNCHANGED mouseVars
    \/ prog \in MousePrograms /\ MouseSends /\ UNCHANGED kbdVars

ControllerAnswers == CommandAnswers /\ UNCHANGED mouseVars

Ticks == TimerTicks /\ UNCHANGED <<kbdVars, mouseVars>>

Next == Program \/ DeviceSends \/ ControllerAnswers \/ Ticks

Spec == Init /\ [][Next]_vars

(* The program runs and the timer ticks; nothing is assumed of the device. *)
FairSpec == Spec /\ WF_vars(Program) /\ WF_vars(Ticks)

-----------------------------------------------------------------------------
(* Every variable has its range: the wait never passes its limit, arr is   *)
(* never overrun, and the handler only handles a byte it has read.         *)
TypeOK ==
    /\ prog \in Programs
    /\ err \in BOOLEAN /\ second \in BOOLEAN
    /\ faults \in 0..MaxFaults
    /\ pending \subseteq {"device", "timer"}
    /\ pc \in {"loop", "full", "read", "error", "get", "put", "done"}
    /\ irqs \subseteq {"device", "timer"}
    /\ pc = "error" => byte # NoByte
    /\ flagESC \in BOOLEAN /\ flag2Bytes \in BOOLEAN
    /\ counter \in 0..Limit
    /\ wrong \in Nat
    /\ quiet \in 0..Limit
    /\ command \in [int : BOOLEAN, kept : BOOLEAN]
    /\ pos \in 0..2 /\ packet \in 0..1
    /\ marked \in 0..MaxMarked
    /\ Len(arr) =< 2
    /\ printed \in 0..cnt

(* What damaged bytes can do, recognised in time or not.  lab3: a damaged  *)
(* byte makes at most two scancodes appear with a wrong code or a wrong    *)
(* number of bytes.  lab4: nothing is printed wrong before the first       *)
(* damaged byte, and after it no more packets than there were damaged      *)
(* bytes and data bytes with bit 3, which look like the first of a packet. *)
(* So neither flag2Bytes nor nbytes stays out of step by itself.           *)
FaultsBoundWrongs ==
    IF prog \in KeyboardPrograms
    THEN wrong =< 2 * faults
    ELSE wrong =< faults + marked /\ (faults = 0 => wrong = 0)

(* kbd_test_timed_scan (without ESC) and mouse_test_async end only when no *)
(* byte came for n seconds of timer interrupts - but one, which may have   *)
(* been pending when the byte came - except for a byte too late to be      *)
(* seen.                                                                   *)
EndsOnlyWhenIdle ==
    prog \in Timed /\ pc = "done" /\ flagESC
      => quiet >= Limit - 1 \/ "device" \in pending

(* "it should terminate also if no scancodes are received for n seconds"   *)
(* (lab3.c:104), and the same for the mouse: when the device falls silent, *)
(* the function returns.                                                   *)
EndsWhenIdle ==
    prog \in Timed /\ <>[][~DeviceSends]_vars => <>(pc = "done")

(* "Exits upon release of the ESC key": without damaged bytes, each of the *)
(* functions of lab3 returns after ESC was released, however its accesses  *)
(* fall.                                                                   *)
EscEnds ==
    [](faults = 0) => (obuf # NoByte /\ obuf.code = "81" ~> pc = "done")

(* mouse_test_packet returns as long as the mouse is moved: damaged bytes  *)
(* and bytes that are skipped do not keep it from its cnt packets.         *)
PacketsEnd ==
    prog = "packet" => <>(pc = "done") \/ <>[][~DeviceSends]_vars
=============================================================================
