------------------------------ MODULE ScanLoop ------------------------------
(***************************************************************************)
(* What the test programs of lab3 and lab4 share: a device that fills the  *)
(* output buffer of the controller at any moment, the timer, the loop that *)
(* receives their interrupts, and the accesses with which both kbc_ih and  *)
(* mouse_ih begin.  KbdScan and MouseScan add what the handlers do with a  *)
(* byte.                                                                   *)
(***************************************************************************)
EXTENDS Integers

CONSTANTS
    Programs,     \* the functions to run
    TICKS,        \* timer interrupts a second
    n,            \* seconds of silence after which two of them end
    MaxFaults     \* bound on the damaged bytes of one behaviour

Timed == {"timed", "async"}

ASSUME ScanAssumption ==
    /\ Programs \subseteq {"scan", "poll", "packet"} \cup Timed
    /\ TICKS \in Nat \ {0}
    /\ n \in Nat
    /\ MaxFaults \in Nat

VARIABLES
    prog,                \* the function that runs
    obuf, err,           \* output buffer; error bits of the last byte
    faults,              \* damaged bytes so far
    pending,             \* interrupts the kernel has not delivered yet
    pc, irqs,            \* next step of the program; interrupts of its message
    byte,                \* the byte the handler has read
    counter,             \* timer interrupts since the last key or movement
    wrong,               \* scancodes or packets printed that were never sent
    quiet                \* timer interrupts since the last byte, up to the limit

device == <<obuf, err, faults>>
loopVars == <<prog, device, pending, pc, irqs, byte, counter, wrong, quiet>>

NoByte == [code |-> "none"]

(* Timer interrupts in n seconds.                                          *)
Limit == n * TICKS

Running == pc # "done"

LoopInit ==
    /\ prog \in Programs
    /\ obuf = NoByte /\ err = FALSE
    /\ faults = 0
    /\ pending = {}
    /\ pc = "loop" /\ irqs = {}
    /\ byte = NoByte
    /\ counter = 0
    /\ wrong = 0
    /\ quiet = 0

(* A byte arrives, damaged or not; with an interrupt, but for              *)
(* kbd_test_poll, which runs with the keyboard's interrupt disabled.       *)
Arrives(b, bad) ==
    /\ Running
    /\ obuf = NoByte
    /\ obuf' = b
    /\ err' = bad
    /\ faults' = IF bad THEN faults + 1 ELSE faults
    /\ faults' =< MaxFaults
    /\ pending' = IF prog = "poll" THEN pending ELSE pending \cup {"device"}
    /\ quiet' = 0
    /\ UNCHANGED <<prog, pc, irqs, byte, counter, wrong>>

TimerTicks ==
    /\ Running
    /\ prog \in Timed
    /\ pending' = pending \cup {"timer"}
    /\ quiet' = IF quiet < Limit THEN quiet + 1 ELSE quiet
    /\ UNCHANGED <<prog, device, pc, irqs, byte, counter, wrong>>

-----------------------------------------------------------------------------
(* Mutant: one second too long.                                            *)
WaitsLonger == prog \in Timed => counter \div TICKS =< n

(* The time allowed for silence is not over.                               *)
Waits == prog \in Timed => counter \div TICKS < n

(* Mutant: a timer interrupt is forgotten.                                 *)
NotCounted == counter

Counted == counter + 1

Receive(go) ==
    /\ pc = "loop" /\ go
    /\ prog # "poll"
    /\ pending # {}
    /\ pending' = {}
    /\ \/ /\ "device" \in pending
          /\ pc' = "full"
          /\ irqs' = pending
          /\ UNCHANGED counter
       \/ /\ pending = {"timer"}
          /\ counter' = Counted
          /\ UNCHANGED <<pc, irqs>>
    /\ UNCHANGED <<prog, device, byte, wrong, quiet>>

Exit(go) ==
    /\ pc = "loop" /\ ~go
    /\ prog # "poll"
    /\ pc' = "done"
    /\ UNCHANGED <<prog, device, pending, irqs, byte, counter, wrong, quiet>>

(* Mutant: a key does not start the wait again.                            *)
CountOn == IF "timer" \in irqs THEN counter + 1 ELSE counter

(* The counter after a message with an interrupt of the device, which the  *)
(* code handles before the one of the timer.                               *)
AfterByte == IF "timer" \in irqs THEN 1 ELSE 0

(* The handler returns to the loop.                                        *)
Return ==
    /\ pc' = "loop"
    /\ irqs' = {}
    /\ counter' = AfterByte

BufFull ==
    /\ pc = "full"
    /\ \/ obuf # NoByte /\ pc' = "read" /\ UNCHANGED <<irqs, counter>>
       \/ obuf = NoByte /\ Return
    /\ UNCHANGED <<prog, device, pending, byte, wrong, quiet>>

ReadBuf ==
    /\ pc = "read"
    /\ byte' = obuf
    /\ obuf' = NoByte
    /\ pc' = "error"
    /\ UNCHANGED <<prog, err, faults, pending, irqs, counter, wrong, quiet>>

(* The read of the error bits: a byte that seems damaged is discarded.     *)
Discard ==
    /\ pc = "error"
    /\ err
    /\ Return
    /\ UNCHANGED <<prog, device, pending, byte, wrong, quiet>>

(* Otherwise the rest of the handler prints something right or nothing,    *)
(* or something wrong.                                                     *)
Keep(isWrong) ==
    /\ pc = "error"
    /\ ~err
    /\ wrong' = IF isWrong THEN wrong + 1 ELSE wrong
    /\ Return
    /\ UNCHANGED <<prog, device, pending, byte, quiet>>

LoopStep(go) == Receive(go) \/ Exit(go) \/ BufFull \/ ReadBuf \/ Discard
=============================================================================
