-------------------------------- MODULE Timer -------------------------------
(***************************************************************************)
(* The timer driver (proj/src/timer/timer.c; lab2 and lab5 have the same   *)
(* code) and the three programs of lab2.c that run on it, one after the    *)
(* other on one i8254.  The chip is external: a counter has a mode (the    *)
(* four low bits of its control word), the way it is loaded and a divisor; *)
(* it stops at a control word and runs again when its divisor is complete. *)
(* Every port access can fail.                                             *)
(***************************************************************************)
EXTENDS Integers

CONSTANTS
    TIMER_FREQ,   \* frequency of the chip's clock
    Freqs,        \* frequencies asked for
    Asked,        \* numbers of the timers asked for, also ones that do not exist
    Modes,        \* the counters' modes, as the firmware has set them
    TICKS,        \* timer interrupts a second
    time          \* argument of timer_test_int

Timers == 0..2
BYTE == 256

ASSUME TimerAssumption ==
    /\ TIMER_FREQ \in Nat
    /\ Freqs \subseteq Nat \ {0}
    /\ Asked \subseteq Nat
    /\ Modes \in [Timers -> 0..15]
    /\ TICKS \in Nat \ {0}
    /\ time \in Nat

VARIABLES
    mode, access,        \* of each counter; 3 loads the low byte, then the high one
    count, half,         \* its divisor; the low byte that waits for the high one
    latched,             \* its latched status
    pc, call,            \* next access of the program; what was called
    timer, freq, field,  \* its arguments
    st,                  \* the status it has read
    res1, failed,        \* the first write's result; some access failed
    result, shown,       \* what the last call returned and displayed
    subscribed,          \* the subscription that timer_test_int asked for was made
    pending, ticks,      \* timer 0 has interrupted; how often since the subscription
    timer_global_counter, counter_seconds

chip == <<mode, access, count, half, latched>>
callers == <<call, timer, freq, field>>
test == <<subscribed, pending, ticks, timer_global_counter, counter_seconds>>
vars == <<chip, pc, callers, st, res1, failed, result, shown, test>>

None == -1
OK == 0

(* The fields of a status that can be displayed.                           *)
Fields == {"all", "initial", "mode", "base"}

(* Timer interrupts in the time asked for.                                 *)
Limit == TICKS * time

Init ==
    /\ mode = Modes
    /\ access = [t \in Timers |-> 3]
    /\ count = [t \in Timers |-> 0]
    /\ half = [t \in Timers |-> None]
    /\ latched = [t \in Timers |-> None]
    /\ pc = "idle" /\ call = "none"
    /\ timer = 0 /\ freq = 0 /\ field = "all" /\ st = 0
    /\ res1 = OK /\ failed = FALSE
    /\ result = OK /\ shown = None
    /\ subscribed = FALSE
    /\ pending = FALSE /\ ticks = 0
    /\ timer_global_counter = 0 /\ counter_seconds = 0

-----------------------------------------------------------------------------
(* What the chip does with a byte written to one of its ports, and the     *)
(* status it latches, unless an older one was not read yet.                *)
Status(t, out) ==
    128 * out + (IF count[t] = None THEN 64 ELSE 0) + 16 * access[t] + mode[t]

Latch(t) ==
    /\ \E out \in {0, 1} :
        latched' = IF t \in Timers /\ latched[t] = None
                   THEN [latched EXCEPT ![t] = Status(t, out)] ELSE latched
    /\ UNCHANGED <<mode, access, count, half>>

Control(word) ==
    LET t == word \div 64 IN
    /\ mode' = [mode EXCEPT ![t] = word % 16]
    /\ access' = [access EXCEPT ![t] = (word \div 16) % 4]
    /\ count' = [count EXCEPT ![t] = None]
    /\ half' = [half EXCEPT ![t] = None]
    /\ UNCHANGED latched

Data(t, byte) ==
    /\ \/ /\ half[t] = None
          /\ half' = [half EXCEPT ![t] = byte]
          /\ UNCHANGED count
       \/ /\ half[t] # None
          /\ count' = [count EXCEPT ![t] = half[t] + BYTE * byte]
          /\ half' = [half EXCEPT ![t] = None]
    /\ UNCHANGED <<mode, access, latched>>

-----------------------------------------------------------------------------
(* A program begins, and one returns.  Its variables begin with it; only   *)
(* the chip keeps its state.                                               *)
Starts(c, t, f, d) ==
    /\ pc = "idle"
    /\ call' = c
    /\ timer' = t
    /\ freq' = f
    /\ field' = d
    /\ st' = 0 /\ res1' = OK /\ failed' = FALSE
    /\ result' = OK /\ shown' = None
    /\ pending' = FALSE /\ ticks' = 0
    /\ timer_global_counter' = 0 /\ counter_seconds' = 0
    /\ UNCHANGED chip

Calls(c, t, f, d) ==
    /\ pc' = "readback"
    /\ subscribed' = FALSE
    /\ Starts(c, t, f, d)

timer_test_read_config ==
    \E t \in Asked, d \in Fields \cup {"other"} : Calls("config", t, 0, d)

timer_test_time_base == \E t \in Asked, f \in Freqs : Calls("frequency", t, f, "all")

Returns(r) ==
    /\ result' = r
    /\ pc' = "idle"

Fails ==
    /\ failed' = TRUE
    /\ Returns(1)
    /\ UNCHANGED <<chip, callers, st, res1, shown, test>>

(* timer_get_conf: the read-back command, then the status.                 *)
ReadBack ==
    /\ pc = "readback"
    /\ \/ Fails
       \/ /\ Latch(timer)
          /\ pc' = "status"
          /\ UNCHANGED <<callers, st, res1, failed, result, shown, test>>

NoSuchTimer ==
    /\ pc = "status"
    /\ timer \notin Timers
    /\ Returns(1)
    /\ UNCHANGED <<chip, callers, st, res1, failed, shown, test>>

(* Mutant: the counting mode is not shifted.                               *)
DisplayUnshifted(s) ==
    [all |-> s, initial |-> (s \div 16) % 4, mode |-> s % 8, base |-> s % 2]

(* timer_display_conf, what it displays of each field: the counting modes  *)
(* 6 and 7 as 5.                                                           *)
timer_display_conf(s) ==
    LET m == (s \div 2) % 8 IN
    [all |-> s, initial |-> (s \div 16) % 4, mode |-> IF m < 5 THEN m ELSE 5, base |-> s % 2]

(* The status is displayed, unless there is no such field or it could not  *)
(* be printed; or timer_set_frequency goes on with it.                     *)
ReadStatus ==
    /\ pc = "status"
    /\ timer \in Timers
    /\ \/ Fails
       \/ /\ st' = latched[timer]
          /\ latched' = [latched EXCEPT ![timer] = None]
          /\ \/ /\ call = "config"
                /\ field \in Fields
                /\ shown' = timer_display_conf(st')[field]
                /\ Returns(OK)
             \/ /\ call = "config"
                /\ Returns(1)
                /\ UNCHANGED shown
             \/ /\ call = "frequency"
                /\ pc' = "control"
                /\ UNCHANGED <<result, shown>>
          /\ UNCHANGED <<mode, access, count, half, callers, res1, failed, test>>

-----------------------------------------------------------------------------
(* The rest of timer_set_frequency.                                        *)

(* Mutants: the mode is not kept; the bytes are swapped.                   *)
WordWithoutMode == 64 * timer + 48 + 6
LowByteSwapped(c) == c \div BYTE

ControlWord == 64 * timer + 48 + (st % 16)

TimerCounter == (TIMER_FREQ \div freq) % (BYTE * BYTE)

util_get_LSB(c) == c % BYTE

util_get_MSB(c) == c \div BYTE

WriteControl ==
    /\ pc = "control"
    /\ \/ Fails
       \/ /\ Control(ControlWord)
          /\ pc' = "lsb"
          /\ UNCHANGED <<callers, st, res1, failed, result, shown, test>>

WriteLsb ==
    /\ pc = "lsb"
    /\ \/ Data(timer, util_get_LSB(TimerCounter)) /\ res1' = OK /\ UNCHANGED failed
       \/ res1' = 1 /\ failed' = TRUE /\ UNCHANGED chip
    /\ pc' = "msb"
    /\ UNCHANGED <<callers, st, result, shown, test>>

(* Mutant: both results are lost.                                          *)
NoResult(r1, r2) == OK

(* res1 & res2: error codes are negative, so only two of them give one.    *)
BothResults(r1, r2) == IF OK \in {r1, r2} THEN OK ELSE 1

WriteMsb ==
    /\ pc = "msb"
    /\ \/ /\ Data(timer, util_get_MSB(TimerCounter))
          /\ Returns(BothResults(res1, OK))
          /\ UNCHANGED failed
       \/ /\ Returns(BothResults(res1, 1))
          /\ failed' = TRUE
          /\ UNCHANGED chip
    /\ UNCHANGED <<callers, st, res1, shown, test>>

-----------------------------------------------------------------------------
(* timer_test_int, which delay_seconds repeats: the subscription, whose    *)
(* failure is ignored, the interrupts of a running timer 0, and the loop.  *)
TestBegins ==
    /\ pc' = "test"
    /\ subscribed' \in BOOLEAN
    /\ Starts("test", 0, 0, "all")

(* Mutant: subscribed without IRQ_REENABLE.                                *)
InterruptOnce ==
    /\ pc = "test"
    /\ subscribed /\ count[0] # None
    /\ ticks = 0
    /\ pending' = TRUE
    /\ ticks' = 1
    /\ UNCHANGED <<chip, pc, callers, st, res1, failed, result, shown, subscribed,
                   timer_global_counter, counter_seconds>>

Interrupt ==
    /\ pc = "test"
    /\ subscribed /\ count[0] # None
    /\ pending' = TRUE
    /\ ticks' = IF ticks < Limit THEN ticks + 1 ELSE ticks
    /\ UNCHANGED <<chip, pc, callers, st, res1, failed, result, shown, subscribed,
                   timer_global_counter, counter_seconds>>

(* Mutant: the test comes before the handler.                              *)
SecondEarly(c) == (c - 1) % TICKS = 0

FullSecond(c) == c % TICKS = 0

TestReceives ==
    /\ pc = "test"
    /\ counter_seconds < time
    /\ pending
    /\ pending' = FALSE
    /\ timer_global_counter' = timer_global_counter + 1
    /\ counter_seconds' = IF FullSecond(timer_global_counter')
                          THEN counter_seconds + 1 ELSE counter_seconds
    /\ UNCHANGED <<chip, pc, callers, st, res1, failed, result, shown, subscribed, ticks>>

TestEnds ==
    /\ pc = "test"
    /\ counter_seconds >= time
    /\ Returns(OK)
    /\ UNCHANGED <<chip, callers, st, res1, failed, shown, test>>

timer_get_conf == ReadBack \/ NoSuchTimer \/ ReadStatus
timer_set_frequency == WriteControl \/ WriteLsb \/ WriteMsb
timer_test_int == TestReceives \/ TestEnds

Next ==
    \/ timer_test_read_config \/ timer_test_time_base \/ TestBegins
    \/ timer_get_conf \/ timer_set_frequency
    \/ Interrupt \/ timer_test_int

Spec == Init /\ [][Next]_vars

(* The program runs on, and so does a timer that is loaded.                *)
FairSpec == Spec /\ WF_vars(timer_test_int) /\ WF_vars(Interrupt)

-----------------------------------------------------------------------------
(* "Must use the read-back command so that it does not change the 4 LSBs"  *)
(* (lcom/timer.h:47): whatever fails, and whatever an earlier call left    *)
(* latched in the chip, no call changes a timer's mode or counting base.   *)
ModeKept == mode = Modes

(* When timer_set_frequency returned 0 the timer has the divisor of the    *)
(* frequency asked for, unless one of the accesses failed, or the divisor  *)
(* does not fit 16 bits.                                                   *)
FrequencySet ==
    pc = "idle" /\ call = "frequency" /\ result = OK /\ ~failed
      => (TIMER_FREQ \div freq < BYTE * BYTE => count[timer] = TIMER_FREQ \div freq)

(* A failure that timer_set_frequency does not report has left half a      *)
(* divisor in the timer, which stands still until the next control word.   *)
UnreportedStops ==
    pc = "idle" /\ call = "frequency" /\ result = OK /\ failed
      => half[timer] # None /\ count[timer] = None

(* What timer_test_read_config displays is how the timer is set now, also  *)
(* when the status is one that an earlier call, which failed, has left in  *)
(* the chip's latch: its mode and counting base, how it is loaded, and, of *)
(* the whole status but the output pin, whether it still waits for its     *)
(* divisor.  Only the counting modes 6 and 7, the same as 2 and 3, are not *)
(* shown as what they are when this field alone is asked for.              *)
ShownIsTrue ==
    pc = "idle" /\ call = "config" /\ result = OK =>
        /\ field = "all" => shown % 128 = Status(timer, 0)
        /\ field = "initial" => shown = access[timer]
        /\ field = "mode" /\ mode[timer] \div 2 < 6 => shown = mode[timer] \div 2
        /\ field = "base" => shown = mode[timer] % 2

(* timer_test_int(time) returns no earlier than after time full seconds of *)
(* timer interrupts, however many of them are merged into one message.     *)
TakesItsTime == pc = "idle" /\ call = "test" => ticks >= Limit

(* and it does return, provided that the subscription was made and timer 0 *)
(* has not been left stopped.                                              *)
TestReturns == (pc = "test" /\ subscribed /\ count[0] # None) ~> pc = "idle"
=============================================================================
