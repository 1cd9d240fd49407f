---------------------------- MODULE TimerProofs -----------------------------
(***************************************************************************)
(* The timer driver keeps every timer's mode, reports what the timer is    *)
(* set to, and loads the divisor it was asked for; and timer_test_int      *)
(* takes the time it was asked for.  For every frequency, every timer and  *)
(* every access that fails.                                                *)
(***************************************************************************)
EXTENDS Timer, TLAPS

(* The bit of the status that says that the divisor is still to come.      *)
Null(c) == IF c = None THEN 64 ELSE 0

(* A status that was latched in the chip is still that of its timer, but   *)
(* for the output pin, however long ago it was latched.                    *)
Holds(s, t, c) == s \in Nat /\ s % 128 = Null(c) + 48 + Modes[t]

(* The chip: only count and half change, the rest is as at the start.      *)
ChipInv ==
    /\ ModeKept
    /\ access = [t \in Timers |-> 3]
    /\ count \in [Timers -> {None} \cup Nat]
    /\ half \in [Timers -> {None} \cup Nat]
    /\ latched \in [Timers -> {None} \cup Nat]
    /\ \A t \in Timers : latched[t] = None \/ Holds(latched[t], t, count[t])

(* The call that is under way, at each of its accesses.                    *)
CallInv ==
    /\ pc \in {"idle", "readback", "status", "control", "lsb", "msb", "test"}
    /\ timer \in Nat
    /\ pc \in {"readback", "status"} =>
         /\ call \in {"config", "frequency"}
         /\ ~failed
         /\ call = "frequency" => freq \in Nat \ {0}
    /\ pc = "status" /\ timer \in Timers => Holds(latched[timer], timer, count[timer])
    /\ pc \in {"control", "lsb", "msb"} =>
         /\ call = "frequency"
         /\ freq \in Nat \ {0}
         /\ timer \in Timers
         /\ latched[timer] = None
    /\ pc = "control" => ~failed /\ st \in Nat /\ st % 16 = Modes[timer]
    /\ pc = "lsb" => ~failed /\ half[timer] = None
    /\ pc \in {"lsb", "msb"} => count[timer] = None
    /\ pc = "msb" =>
         \/ res1 = OK /\ ~failed /\ half[timer] = util_get_LSB(TimerCounter)
         \/ res1 = 1 /\ failed /\ half[timer] = None

(* The loop of timer_test_int: the interrupts counted, and the one that is *)
(* pending, are no more than those that came; a second is a full one.      *)
TestInv ==
    /\ pc = "test" => call = "test"
    /\ pending \in BOOLEAN
    /\ ticks \in Nat
    /\ timer_global_counter \in Nat
    /\ counter_seconds = timer_global_counter \div TICKS
    /\ \/ ticks >= Limit
       \/ ticks >= timer_global_counter /\ (pending => ticks >= timer_global_counter + 1)

TimerInv ==
    /\ ChipInv /\ CallInv /\ TestInv
    /\ FrequencySet /\ UnreportedStops /\ ShownIsTrue /\ TakesItsTime

-----------------------------------------------------------------------------
(* Arithmetic.                                                             *)

(* Division and remainder are unique.                                      *)
LEMMA DivUnique ==
    ASSUME NEW T \in Nat \ {0}, NEW q \in Nat, NEW r \in 0..(T - 1)
    PROVE  (T * q + r) \div T = q /\ (T * q + r) % T = r
<1> DEFINE n == T * q + r
<1> DEFINE d == n \div T
<1>1. n \in Nat /\ d \in Int /\ n % T \in 0..(T - 1) /\ n = T * d + (n % T)
  OBVIOUS
<1> HIDE DEF n, d
<1>2. n = T * q + r
  BY DEF n
<1>3. CASE d > q
  <2>1. T * d >= T * (q + 1)
    BY <1>1, <1>3
  <2>2. T * (q + 1) = T * q + T
    OBVIOUS
  <2> QED
    BY <1>1, <1>2, <2>1, <2>2
<1>4. CASE d < q
  <2>1. T * q >= T * (d + 1)
    BY <1>1, <1>4
  <2>2. T * (d + 1) = T * d + T
    BY <1>1
  <2> QED
    BY <1>1, <1>2, <2>1, <2>2
<1>5. CASE d = q
  BY <1>1, <1>2, <1>5 DEF n, d
<1> QED
  BY <1>1, <1>3, <1>4, <1>5

(* Counting one interrupt more completes a second exactly when the counter *)
(* is divisible by the interrupts of a second.                             *)
LEMMA NextSecond ==
    ASSUME NEW T \in Nat \ {0}, NEW c \in Nat
    PROVE  (c + 1) \div T = IF (c + 1) % T = 0 THEN c \div T + 1 ELSE c \div T
<1> DEFINE q == c \div T
<1> DEFINE r == c % T
<1>1. q \in Nat /\ r \in 0..(T - 1) /\ c = T * q + r
  OBVIOUS
<1> HIDE DEF q, r
<1>2. CASE r + 1 < T
  <2>1. r + 1 \in 0..(T - 1) /\ c + 1 = T * q + (r + 1)
    BY <1>1, <1>2
  <2>2. (c + 1) \div T = q /\ (c + 1) % T = r + 1
    BY <2>1, <1>1, DivUnique
  <2> QED
    BY <2>2, <1>1 DEF q
<1>3. CASE r + 1 = T
  <2>1. 0 \in 0..(T - 1) /\ q + 1 \in Nat /\ c + 1 = T * (q + 1) + 0
    BY <1>1, <1>3
  <2>2. (T * (q + 1) + 0) \div T = q + 1 /\ (T * (q + 1) + 0) % T = 0
    BY <2>1, DivUnique
  <2> QED
    BY <2>1, <2>2 DEF q
<1> QED
  BY <1>1, <1>2, <1>3

(* The control word names its timer, loads both bytes and keeps the mode.  *)
LEMMA WordParts ==
    ASSUME NEW t \in Timers, NEW m \in 0..15
    PROVE  LET w == 64 * t + 48 + m IN
           w \div 64 = t /\ w % 16 = m /\ (w \div 16) % 4 = 3
BY DEF Timers

(* The status that is latched, without the output pin.                     *)
LEMMA StatusParts ==
    ASSUME NEW m \in 0..15, NEW o \in {0, 1}, NEW n \in {0, 64}
    PROVE  LET s == 128 * o + n + 16 * 3 + m IN
           s \in Nat /\ s % 128 = n + 48 + m
OBVIOUS

(* The fields of a status.                                                 *)
LEMMA StatusFields ==
    ASSUME NEW s \in Nat, NEW m \in 0..15, NEW n \in {0, 64}, s % 128 = n + 48 + m
    PROVE  /\ s % 16 = m
           /\ (s \div 16) % 4 = 3
           /\ (s \div 2) % 8 = m \div 2
           /\ s % 2 = m % 2
OBVIOUS

(* The two bytes of a 16 bit divisor make it up again.                     *)
LEMMA Halves ==
    ASSUME NEW c \in Nat
    PROVE  /\ util_get_LSB(c) \in Nat /\ util_get_MSB(c) \in Nat
           /\ util_get_LSB(c) + BYTE * util_get_MSB(c) = c
BY DEF util_get_LSB, util_get_MSB, BYTE

(* What is displayed of a status is the mode and the access of its timer.  *)
LEMMA DisplayTrue ==
    ASSUME NEW s, NEW t \in Timers, Holds(s, t, count[t])
    PROVE  /\ s % 16 = Modes[t]
           /\ timer_display_conf(s)["all"] % 128 = Null(count[t]) + 48 + Modes[t]
           /\ timer_display_conf(s)["initial"] = 3
           /\ Modes[t] \div 2 < 6 => timer_display_conf(s)["mode"] = Modes[t] \div 2
           /\ timer_display_conf(s)["base"] = Modes[t] % 2
<1>1. Modes[t] \in 0..15 /\ Null(count[t]) \in {0, 64}
  BY TimerAssumption DEF Null
<1>2. s \in Nat /\ s % 128 = Null(count[t]) + 48 + Modes[t]
  BY DEF Holds
<1>3. /\ s % 16 = Modes[t] /\ (s \div 16) % 4 = 3
      /\ (s \div 2) % 8 = Modes[t] \div 2 /\ s % 2 = Modes[t] % 2
  BY <1>1, <1>2, StatusFields
<1>4. Modes[t] \div 2 \in 0..7
  BY <1>1
<1> QED
  BY <1>2, <1>3, <1>4 DEF timer_display_conf

-----------------------------------------------------------------------------
(* The firmware's state.                                                   *)
LEMMA InitTimer == Init => TimerInv
<1> SUFFICES ASSUME Init PROVE TimerInv
  OBVIOUS
<1>1. ChipInv
  BY DEF Init, ChipInv, ModeKept, None, Timers
<1>2. CallInv
  BY DEF Init, CallInv
<1>3. 0 \div TICKS = 0
  BY TimerAssumption
<1>4. TestInv
  <2>1. pc = "test" => call = "test"
    BY DEF Init
  <2>2. pending \in BOOLEAN /\ ~pending
    BY DEF Init
  <2>3. ticks \in Nat /\ timer_global_counter \in Nat /\ ticks >= timer_global_counter
    BY DEF Init
  <2>4. counter_seconds = timer_global_counter \div TICKS
    BY <1>3, Zenon DEF Init
  <2> QED
    BY <2>1, <2>2, <2>3, <2>4, Zenon DEF TestInv
<1> QED
  BY <1>1, <1>2, <1>4
     DEF Init, TimerInv, FrequencySet, UnreportedStops, ShownIsTrue, TakesItsTime

(* A program begins: the chip is as the last one left it.                  *)
LEMMA StartsKeep ==
    ASSUME TimerInv, NEW c \in {"config", "frequency", "test"}, NEW t \in Nat, NEW f \in Nat, NEW d,
           Starts(c, t, f, d),
           \/ pc' = "readback" /\ c # "test" /\ (c = "frequency" => f # 0)
           \/ pc' = "test" /\ c = "test"
    PROVE  TimerInv'
<1>1. ChipInv'
  BY DEF TimerInv, Starts, chip, ChipInv, ModeKept
<1>2. CallInv'
  BY DEF TimerInv, Starts, CallInv
<1>3. 0 \div TICKS = 0
  BY TimerAssumption
<1>4. TestInv'
  <2>1. pc' = "test" => call' = "test"
    BY DEF Starts
  <2>2. pending' \in BOOLEAN /\ ~pending'
    BY DEF Starts
  <2>3. ticks' \in Nat /\ timer_global_counter' \in Nat /\ ticks' >= timer_global_counter'
    BY DEF Starts
  <2>4. counter_seconds' = timer_global_counter' \div TICKS
    BY <1>3, Zenon DEF Starts
  <2> QED
    BY <2>1, <2>2, <2>3, <2>4, Zenon DEF TestInv
<1> QED
  BY <1>1, <1>2, <1>4
     DEF TimerInv, FrequencySet, UnreportedStops, ShownIsTrue, TakesItsTime

(* Nothing of the driver's loop matters to the driver, and conversely.     *)
LEMMA TestApart ==
    ASSUME TestInv, UNCHANGED <<test, call>>, pc' = "test" => pc = "test"
    PROVE  TestInv'
BY DEF TestInv, test

(* An access fails, and the function returns 1.                            *)
LEMMA FailsKeeps ==
    ASSUME TimerInv, Fails, pc # "test"
    PROVE  TimerInv'
<1>1. ChipInv'
  BY DEF TimerInv, Fails, chip, ChipInv, ModeKept
<1>2. CallInv'
  BY DEF TimerInv, Fails, Returns, callers, CallInv
<1>3. TestInv'
  BY TestApart DEF TimerInv, Fails, Returns, callers
<1> QED
  BY <1>1, <1>2, <1>3
     DEF TimerInv, FrequencySet, UnreportedStops, ShownIsTrue, TakesItsTime, Fails, Returns,
         OK, callers, test, CallInv, chip

(* timer_get_conf latches the status of its timer, which holds its mode;   *)
(* one that was already latched holds it too.                              *)
LEMMA ReadBackKeeps ==
    ASSUME TimerInv, ReadBack
    PROVE  TimerInv'
<1> SUFFICES ASSUME Latch(timer), pc = "readback", pc' = "status",
                    UNCHANGED <<callers, st, res1, failed, result, shown, test>>
             PROVE  TimerInv'
  BY FailsKeeps DEF ReadBack
<1>1. ASSUME timer \in Timers, latched[timer] = None, NEW out \in {0, 1}
      PROVE  Holds(Status(timer, out), timer, count[timer])
  <2>1. Modes[timer] \in 0..15 /\ mode[timer] = Modes[timer] /\ access[timer] = 3
    BY <1>1, TimerAssumption DEF TimerInv, ChipInv, ModeKept
  <2>2. /\ Status(timer, out) = 128 * out + Null(count[timer]) + 16 * 3 + Modes[timer]
        /\ Null(count[timer]) \in {0, 64}
    BY <2>1 DEF Status, Null
  <2> QED
    BY <1>1, <2>1, <2>2, StatusParts DEF Holds
<1>2. UNCHANGED <<mode, access, count, half>>
  BY DEF Latch
<1>3. /\ latched' \in [Timers -> {None} \cup Nat]
      /\ \A t \in Timers : latched'[t] = None \/ Holds(latched'[t], t, count[t])
      /\ timer \in Timers => Holds(latched'[timer], timer, count[timer])
  <2>1. CASE timer \in Timers /\ latched[timer] = None
    <3>1. PICK out \in {0, 1} : latched' = [latched EXCEPT ![timer] = Status(timer, out)]
      BY <2>1 DEF Latch
    <3>2. Holds(Status(timer, out), timer, count[timer])
      BY <1>1, <2>1
    <3> QED
      BY <2>1, <3>1, <3>2 DEF TimerInv, ChipInv, Holds
  <2>2. CASE ~(timer \in Timers /\ latched[timer] = None)
    <3>1. latched' = latched
      BY <2>2 DEF Latch
    <3> QED
      BY <2>2, <3>1 DEF TimerInv, ChipInv
  <2> QED
    BY <2>1, <2>2
<1>4. ChipInv'
  BY <1>2, <1>3 DEF TimerInv, ChipInv, ModeKept
<1>5. CallInv'
  BY <1>2, <1>3 DEF TimerInv, CallInv, callers
<1>6. TestInv'
  BY TestApart DEF TimerInv, callers
<1> QED
  BY <1>4, <1>5, <1>6
     DEF TimerInv, FrequencySet, UnreportedStops, ShownIsTrue, TakesItsTime

(* A timer that does not exist is refused.                                 *)
LEMMA NoSuchTimerKeeps ==
    ASSUME TimerInv, NoSuchTimer
    PROVE  TimerInv'
<1>1. ChipInv'
  BY DEF TimerInv, NoSuchTimer, chip, ChipInv, ModeKept
<1>2. CallInv'
  BY DEF TimerInv, NoSuchTimer, Returns, callers, CallInv
<1>3. TestInv'
  BY TestApart DEF TimerInv, NoSuchTimer, Returns, callers
<1> QED
  BY <1>1, <1>2, <1>3
     DEF TimerInv, FrequencySet, UnreportedStops, ShownIsTrue, TakesItsTime, NoSuchTimer,
         Returns, OK, callers, test, CallInv, chip

(* The status is read, and shown or kept for the control word.             *)
LEMMA ReadStatusKeeps ==
    ASSUME TimerInv, ReadStatus
    PROVE  TimerInv'
<1> SUFFICES ASSUME pc = "status", timer \in Timers, ~Fails
             PROVE  TimerInv'
  BY FailsKeeps DEF ReadStatus
<1>1. /\ st' = latched[timer]
      /\ latched' = [latched EXCEPT ![timer] = None]
      /\ \/ call = "config" /\ shown' = timer_display_conf(st')[field] /\ Returns(OK)
         \/ call = "config" /\ Returns(1)
         \/ call = "frequency" /\ pc' = "control" /\ UNCHANGED <<result, shown>>
      /\ UNCHANGED <<mode, access, count, half, callers, res1, failed, test>>
  BY DEF ReadStatus
<1>2. Holds(st', timer, count[timer]) /\ st' % 16 = Modes[timer]
  BY <1>1, DisplayTrue DEF TimerInv, CallInv
<1>3. ChipInv'
  BY <1>1 DEF TimerInv, ChipInv, ModeKept
<1>4. CallInv'
  <2>1. latched'[timer] = None
    BY <1>1 DEF TimerInv, ChipInv
  <2> QED
    BY <1>1, <1>2, <2>1 DEF TimerInv, CallInv, callers, Returns, Holds
<1>5. TestInv'
  BY <1>1, TestApart DEF TimerInv, callers, Returns
<1>6. ShownIsTrue'
  <2>1. CASE call = "config"
    <3> DEFINE v == timer_display_conf(st')
    <3>1. /\ v["all"] % 128 = Null(count[timer]) + 48 + Modes[timer]
          /\ v["initial"] = 3
          /\ Modes[timer] \div 2 < 6 => v["mode"] = Modes[timer] \div 2
          /\ v["base"] = Modes[timer] % 2
      BY <1>2, DisplayTrue
    <3> HIDE DEF v
    <3>2. /\ access'[timer'] = 3 /\ mode'[timer'] = Modes[timer]
          /\ count'[timer'] = count[timer] /\ timer' = timer /\ field' = field
          /\ Modes[timer] \in 0..15
      BY <1>1, TimerAssumption DEF TimerInv, ChipInv, ModeKept, callers
    <3>3. Status(timer, 0)' = Null(count[timer]) + 48 + Modes[timer]
      BY <3>2 DEF Status, Null
    <3>4. result' = OK => shown' = v[field]
      BY <1>1, <2>1 DEF Returns, OK, v
    <3> QED
      BY <3>1, <3>2, <3>3, <3>4 DEF ShownIsTrue
  <2>2. CASE call = "frequency"
    BY <1>1, <2>2 DEF ShownIsTrue, callers
  <2> QED
    BY <1>1, <2>1, <2>2
<1>7. FrequencySet' /\ UnreportedStops' /\ TakesItsTime'
  BY <1>1 DEF FrequencySet, UnreportedStops, TakesItsTime, callers, Returns
<1> QED
  BY <1>3, <1>4, <1>5, <1>6, <1>7 DEF TimerInv

-----------------------------------------------------------------------------
(* The divisor that is written is a natural number of 16 bits.             *)
LEMMA CounterFits ==
    ASSUME freq \in Nat \ {0}
    PROVE  /\ TIMER_FREQ \div freq \in Nat
           /\ TimerCounter \in Nat
           /\ TIMER_FREQ \div freq < BYTE * BYTE => TimerCounter = TIMER_FREQ \div freq
<1>1. TIMER_FREQ \div freq \in Nat
  BY TimerAssumption
<1>2. \A d \in Nat : d % 65536 \in Nat /\ (d < 65536 => d % 65536 = d)
  OBVIOUS
<1> QED
  BY <1>1, <1>2 DEF TimerCounter, BYTE

(* The control word: the timer's own mode is written back.                 *)
LEMMA ControlKeeps ==
    ASSUME TimerInv, WriteControl
    PROVE  TimerInv'
<1> SUFFICES ASSUME pc = "control", Control(ControlWord), pc' = "lsb",
                    UNCHANGED <<callers, st, res1, failed, result, shown, test>>
             PROVE  TimerInv'
  BY FailsKeeps DEF WriteControl
<1>1. timer \in Timers /\ Modes[timer] \in 0..15 /\ st % 16 = Modes[timer]
  BY TimerAssumption DEF TimerInv, CallInv
<1>2. /\ ControlWord \div 64 = timer
      /\ ControlWord % 16 = Modes[timer]
      /\ (ControlWord \div 16) % 4 = 3
  <2>1. ControlWord = 64 * timer + 48 + Modes[timer]
    BY <1>1 DEF ControlWord
  <2> QED
    BY <1>1, <2>1, WordParts
<1>3. /\ mode' = [mode EXCEPT ![timer] = Modes[timer]]
      /\ access' = [access EXCEPT ![timer] = 3]
      /\ count' = [count EXCEPT ![timer] = None]
      /\ half' = [half EXCEPT ![timer] = None]
      /\ latched' = latched
  BY <1>2 DEF Control
<1>4. mode' = mode /\ access' = access
  BY <1>1, <1>3, TimerAssumption DEF TimerInv, ChipInv, ModeKept
<1>5. ChipInv'
  <2>1. \A t \in Timers : t # timer => count'[t] = count[t]
    BY <1>1, <1>3 DEF TimerInv, ChipInv
  <2>2. \A t \in Timers : latched'[t] = None \/ Holds(latched'[t], t, count'[t])
    BY <1>3, <2>1 DEF TimerInv, ChipInv, CallInv
  <2>3. count' \in [Timers -> {None} \cup Nat] /\ half' \in [Timers -> {None} \cup Nat]
    BY <1>1, <1>3 DEF TimerInv, ChipInv
  <2> QED
    BY <1>3, <1>4, <2>2, <2>3 DEF TimerInv, ChipInv, ModeKept
<1>6. CallInv'
  BY <1>1, <1>3 DEF TimerInv, CallInv, ChipInv, callers
<1>7. TestInv'
  BY TestApart DEF TimerInv, callers
<1> QED
  BY <1>5, <1>6, <1>7
     DEF TimerInv, FrequencySet, UnreportedStops, ShownIsTrue, TakesItsTime

(* The low byte: its failure is noted, and the high byte follows anyway.   *)
LEMMA LsbKeeps ==
    ASSUME TimerInv, WriteLsb
    PROVE  TimerInv'
<1>1. /\ pc = "lsb" /\ pc' = "msb" /\ UNCHANGED <<callers, st, result, shown, test>>
      /\ timer \in Timers /\ half[timer] = None /\ count[timer] = None /\ ~failed
      /\ freq \in Nat \ {0}
  BY DEF WriteLsb, TimerInv, CallInv
<1>2. TimerCounter' = TimerCounter /\ util_get_LSB(TimerCounter) \in Nat
  BY <1>1, CounterFits, Halves DEF TimerCounter, callers
<1>3. /\ UNCHANGED <<mode, access, count, latched>>
      /\ \/ /\ res1' = OK /\ ~failed'
            /\ half' = [half EXCEPT ![timer] = util_get_LSB(TimerCounter)]
         \/ res1' = 1 /\ failed' /\ half' = half
  BY <1>1 DEF WriteLsb, Data, chip
<1>4. ChipInv'
  BY <1>1, <1>2, <1>3 DEF TimerInv, ChipInv, ModeKept
<1>5. CallInv'
  <2>1. \/ res1' = OK /\ ~failed' /\ half'[timer] = util_get_LSB(TimerCounter)
        \/ res1' = 1 /\ failed' /\ half'[timer] = None
    BY <1>1, <1>3 DEF TimerInv, ChipInv
  <2> QED
    BY <1>1, <1>2, <1>3, <2>1 DEF TimerInv, CallInv, callers, util_get_LSB
<1>6. TestInv'
  BY <1>1, TestApart DEF TimerInv, callers
<1> QED
  BY <1>1, <1>4, <1>5, <1>6
     DEF TimerInv, FrequencySet, UnreportedStops, ShownIsTrue, TakesItsTime

(* The high byte: the divisor is complete, or half of it is left behind,   *)
(* or both failures are reported.                                          *)
LEMMA MsbKeeps ==
    ASSUME TimerInv, WriteMsb
    PROVE  TimerInv'
<1>1. /\ pc = "msb" /\ pc' = "idle" /\ UNCHANGED <<callers, st, res1, shown, test>>
      /\ timer \in Timers /\ count[timer] = None /\ freq \in Nat \ {0}
      /\ call = "frequency"
  BY DEF WriteMsb, Returns, TimerInv, CallInv
<1>2. TimerCounter \in Nat /\ util_get_LSB(TimerCounter) \in Nat /\ util_get_MSB(TimerCounter) \in Nat
  BY <1>1, CounterFits, Halves
<1>3. UNCHANGED <<mode, access, latched>>
  BY DEF WriteMsb, Data, chip
<1>4. ASSUME res1 = OK, ~failed, half[timer] = util_get_LSB(TimerCounter)
      PROVE  /\ count' \in [Timers -> {None} \cup Nat]
             /\ half' \in [Timers -> {None} \cup Nat]
             /\ FrequencySet' /\ UnreportedStops'
  <2>1. \/ /\ ~failed' /\ result' = OK
           /\ count' = [count EXCEPT ![timer] = half[timer] + BYTE * util_get_MSB(TimerCounter)]
           /\ half' = [half EXCEPT ![timer] = None]
        \/ failed' /\ result' = OK /\ count' = count /\ half' = half
    BY <1>2, <1>4 DEF WriteMsb, Data, chip, Returns, BothResults, None, OK
  <2>2. half[timer] + BYTE * util_get_MSB(TimerCounter) = TimerCounter
    BY <1>2, <1>4, Halves
  <2>3. count' \in [Timers -> {None} \cup Nat] /\ half' \in [Timers -> {None} \cup Nat]
    BY <1>1, <1>2, <2>1, <2>2 DEF TimerInv, ChipInv
  <2>4. \/ ~failed' /\ count'[timer] = TimerCounter
        \/ failed' /\ count'[timer] = None /\ half'[timer] # None
    BY <1>1, <1>2, <1>4, <2>1, <2>2 DEF TimerInv, ChipInv, None
  <2>5. FrequencySet' /\ UnreportedStops'
    BY <1>1, <2>4, CounterFits DEF FrequencySet, UnreportedStops, callers
  <2> QED
    BY <2>3, <2>5
<1>5. ASSUME res1 = 1, failed, half[timer] = None
      PROVE  /\ count' \in [Timers -> {None} \cup Nat]
             /\ half' \in [Timers -> {None} \cup Nat]
             /\ FrequencySet' /\ UnreportedStops'
  <2>1. \/ /\ failed' /\ result' = OK /\ count' = count
           /\ half' = [half EXCEPT ![timer] = util_get_MSB(TimerCounter)]
        \/ failed' /\ result' = 1 /\ count' = count /\ half' = half
    BY <1>5 DEF WriteMsb, Data, chip, Returns, BothResults, OK
  <2>2. count' \in [Timers -> {None} \cup Nat] /\ half' \in [Timers -> {None} \cup Nat]
    BY <1>1, <1>2, <2>1 DEF TimerInv, ChipInv
  <2>3. failed' /\ (result' = OK => half'[timer] # None /\ count'[timer] = None)
    BY <1>1, <1>2, <1>5, <2>1 DEF TimerInv, ChipInv, None, OK
  <2>4. FrequencySet' /\ UnreportedStops'
    BY <1>1, <2>3 DEF FrequencySet, UnreportedStops, callers
  <2> QED
    BY <2>2, <2>4
<1>6. /\ count' \in [Timers -> {None} \cup Nat]
      /\ half' \in [Timers -> {None} \cup Nat]
      /\ FrequencySet' /\ UnreportedStops'
  BY <1>1, <1>4, <1>5 DEF TimerInv, CallInv
<1>7. ChipInv'
  <2>1. \A t \in Timers : t # timer => count'[t] = count[t]
    BY <1>1 DEF TimerInv, ChipInv, WriteMsb, Data, chip
  <2>2. \A t \in Timers : latched'[t] = None \/ Holds(latched'[t], t, count'[t])
    BY <1>1, <1>3, <2>1 DEF TimerInv, ChipInv, CallInv
  <2> QED
    BY <1>3, <1>6, <2>2 DEF TimerInv, ChipInv, ModeKept
<1>8. CallInv'
  BY <1>1 DEF TimerInv, CallInv, callers
<1>9. TestInv'
  BY <1>1, TestApart DEF TimerInv, callers
<1> QED
  BY <1>1, <1>6, <1>7, <1>8, <1>9 DEF TimerInv, ShownIsTrue, TakesItsTime, callers

-----------------------------------------------------------------------------
(* The loop of timer_test_int touches nothing but its own variables.       *)
LEMMA LoopApart ==
    ASSUME TimerInv, pc = "test", UNCHANGED <<chip, callers, st, res1, failed, shown>>,
           pc' \in {"idle", "test"}, TestInv', TakesItsTime'
    PROVE  TimerInv'
<1>1. call' = "test"
  BY DEF TimerInv, TestInv, callers
<1>2. ChipInv'
  BY DEF TimerInv, chip, ChipInv, ModeKept
<1>3. CallInv'
  BY DEF TimerInv, CallInv, callers
<1> QED
  BY <1>1, <1>2, <1>3 DEF TimerInv, FrequencySet, UnreportedStops, ShownIsTrue

(* Timer 0 interrupts: one more, merged with one that is still pending.    *)
LEMMA InterruptKeeps ==
    ASSUME TimerInv, Interrupt
    PROVE  TimerInv'
<1>1. Limit \in Nat
  BY TimerAssumption DEF Limit
<1>2. TestInv'
  BY <1>1 DEF TimerInv, TestInv, Interrupt, callers
<1> QED
  BY <1>2, LoopApart DEF Interrupt, TakesItsTime

(* One interrupt is counted; every TICKS of them make a second.            *)
LEMMA ReceiveKeeps ==
    ASSUME TimerInv, TestReceives
    PROVE  TimerInv'
<1>1. /\ ticks \in Nat /\ timer_global_counter \in Nat
      /\ ticks >= Limit \/ ticks >= timer_global_counter + 1
      /\ Limit \in Nat
  BY TimerAssumption DEF TimerInv, TestInv, TestReceives, Limit
<1>2. counter_seconds' = timer_global_counter' \div TICKS
  <2>1. (timer_global_counter + 1) \div TICKS =
          IF (timer_global_counter + 1) % TICKS = 0
          THEN timer_global_counter \div TICKS + 1 ELSE timer_global_counter \div TICKS
    BY <1>1, NextSecond, TimerAssumption
  <2> QED
    BY <2>1 DEF TimerInv, TestInv, TestReceives, FullSecond
<1>3. /\ UNCHANGED <<ticks, pc, call>> /\ ~pending' /\ pending' \in BOOLEAN
      /\ timer_global_counter' = timer_global_counter + 1
  BY DEF TestReceives, callers
<1>4. TestInv'
  <2>1. ticks' \in Nat /\ timer_global_counter' \in Nat
    BY <1>1, <1>3
  <2>2. ticks' >= Limit \/ ticks' >= timer_global_counter'
    BY <1>1, <1>3
  <2>3. pc' = "test" => call' = "test"
    BY <1>3 DEF TimerInv, TestInv
  <2> QED
    BY <1>2, <1>3, <2>1, <2>2, <2>3, Zenon DEF TestInv, Limit
<1> QED
  BY <1>4, LoopApart DEF TestReceives, TakesItsTime

(* The loop ends when it has counted all the seconds.                      *)
LEMMA EndsKeeps ==
    ASSUME TimerInv, TestEnds
    PROVE  TimerInv'
<1>1. TestInv'
  BY TestApart DEF TimerInv, TestEnds, Returns, callers
<1>2. ticks >= Limit
  <2> DEFINE s == timer_global_counter \div TICKS
  <2>1. /\ TICKS \in Nat \ {0} /\ time \in Nat /\ timer_global_counter \in Nat /\ ticks \in Nat
        /\ s >= time
        /\ ticks >= Limit \/ ticks >= timer_global_counter
    BY TimerAssumption DEF TimerInv, TestInv, TestEnds
  <2>2. s \in Nat /\ timer_global_counter >= TICKS * s
    BY <2>1
  <2> HIDE DEF s
  <2>3. TICKS * s >= TICKS * time
    BY <2>1, <2>2
  <2>4. TICKS * s \in Nat /\ TICKS * time \in Nat
    BY <2>1, <2>2
  <2> QED
    BY <2>1, <2>2, <2>3, <2>4 DEF Limit
<1>3. TakesItsTime'
  BY <1>2 DEF TestEnds, test, TakesItsTime, Limit
<1> QED
  BY <1>1, <1>3, LoopApart DEF TestEnds, Returns

(* Every step keeps the invariant.                                         *)
LEMMA NextTimer == TimerInv /\ [Next]_vars => TimerInv'
<1> SUFFICES ASSUME TimerInv, [Next]_vars PROVE TimerInv'
  OBVIOUS
<1>1. CASE UNCHANGED vars
  <2>1. ChipInv'
    BY <1>1 DEF TimerInv, vars, chip, ChipInv, ModeKept
  <2>2. CallInv'
    BY <1>1, <2>1 DEF TimerInv, vars, callers, chip, CallInv, TimerCounter
  <2>3. TestInv'
    BY <1>1, TestApart DEF TimerInv, vars, callers
  <2> QED
    BY <1>1, <2>1, <2>2, <2>3
       DEF TimerInv, vars, callers, chip, test, FrequencySet, UnreportedStops, ShownIsTrue,
           Status, TakesItsTime
<1>2. CASE timer_test_read_config
  BY <1>2, StartsKeep, TimerAssumption DEF timer_test_read_config, Calls
<1>3. CASE timer_test_time_base
  BY <1>3, StartsKeep, TimerAssumption DEF timer_test_time_base, Calls
<1>4. CASE TestBegins
  BY <1>4, StartsKeep DEF TestBegins
<1>5. CASE timer_get_conf
  BY <1>5, ReadBackKeeps, NoSuchTimerKeeps, ReadStatusKeeps DEF timer_get_conf
<1>6. CASE timer_set_frequency
  BY <1>6, ControlKeeps, LsbKeeps, MsbKeeps DEF timer_set_frequency
<1>7. CASE Interrupt
  BY <1>7, InterruptKeeps
<1>8. CASE timer_test_int
  BY <1>8, ReceiveKeeps, EndsKeeps DEF timer_test_int
<1> QED
  BY <1>1, <1>2, <1>3, <1>4, <1>5, <1>6, <1>7, <1>8 DEF Next

(* It holds in every state.                                                *)
LEMMA TimerInvHolds == Spec => []TimerInv
BY InitTimer, NextTimer, PTL DEF Spec

(* No call changes a timer's mode, for every mode the firmware may have    *)
(* set, whatever fails and whatever is left latched.                       *)
THEOREM ModeIsKept == Spec => []ModeKept
<1>1. TimerInv => ModeKept
  BY DEF TimerInv, ChipInv
<1> QED
  BY <1>1, TimerInvHolds, PTL

(* timer_set_frequency that reports success without a failed access has    *)
(* loaded the divisor of every frequency that fits 16 bits.                *)
THEOREM FrequencyIsSet == Spec => []FrequencySet
<1>1. TimerInv => FrequencySet
  BY DEF TimerInv
<1> QED
  BY <1>1, TimerInvHolds, PTL

(* A failure it does not report leaves the timer waiting for a byte.       *)
THEOREM UnreportedFailureStops == Spec => []UnreportedStops
<1>1. TimerInv => UnreportedStops
  BY DEF TimerInv
<1> QED
  BY <1>1, TimerInvHolds, PTL

(* What timer_test_read_config shows is how the timer is set.              *)
THEOREM ConfigShownIsTrue == Spec => []ShownIsTrue
<1>1. TimerInv => ShownIsTrue
  BY DEF TimerInv
<1> QED
  BY <1>1, TimerInvHolds, PTL

(* timer_test_int takes at least the seconds it was asked for, for every   *)
(* number of them and of interrupts a second.                              *)
THEOREM TestTakesItsTime == Spec => []TakesItsTime
<1>1. TimerInv => TakesItsTime
  BY DEF TimerInv
<1> QED
  BY <1>1, TimerInvHolds, PTL
=============================================================================
