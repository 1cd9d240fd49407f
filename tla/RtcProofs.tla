----------------------------- MODULE RtcProofs ------------------------------
(***************************************************************************)
(* The time the menu shows is a real one for every clock, provided that    *)
(* the ten port operations between the read of register A and the read of  *)
(* the hours fit between the rise of UIP and the update.                   *)
(***************************************************************************)
EXTENDS Rtc, TLAPS

(* The timing assumption of the driver.                                    *)
ReadsFit == Lead >= 10

(* Ranges that the argument needs.                                         *)
RtcTypes ==
    /\ now \in Nat
    /\ uip \in BOOLEAN
    /\ left \in Nat
    /\ chip_B \in [h24 : BOOLEAN, binary : BOOLEAN, ints : BOOLEAN]
    /\ pc \in 0..IDLE
    /\ reg_A \in BOOLEAN

(* Once register B is written the registers are in BCD and 24-hour format. *)
FormatSet == pc \in 4..LAST => chip_B.h24 /\ ~chip_B.binary

(* After register A was read without UIP, an update that begins leaves     *)
(* room for every operation up to the read of the hours.                   *)
RoomLeft ==
    /\ pc \in 10..LAST => ~reg_A
    /\ pc \in 6..READ_HOURS /\ ~reg_A /\ uip => left + pc >= 16

(* What has been read, compared with the clock.                            *)
ReadSoFar ==
    /\ pc \in 0..LAST => <<Hour, Minute>> \in during
    /\ pc \in 14..READ_HOURS => g_rtc_minutes = Minute
    /\ pc \in 16..LAST => <<g_rtc_hours, g_rtc_minutes>> \in during

(* The inductive invariant.                                                *)
RtcInv == RtcTypes /\ FormatSet /\ RoomLeft /\ ReadSoFar /\ ShownTimeWasReal

-----------------------------------------------------------------------------
(* to_BCD undoes the chip's encoding.                                      *)
LEMMA Decodes == \A v \in Nat : to_BCD(Bcd(v)) = v
BY DEF to_BCD, Bcd

(* A day is not empty.                                                     *)
LEMMA DayLength ==
    /\ SECS * MINS * HOURS \in Nat \ {0}
    /\ SECS * MINS \in Nat \ {0}
<1>1. \A a, b \in Nat \ {0} : a * b \in Nat \ {0}
  OBVIOUS
<1>2. SECS \in Nat \ {0} /\ MINS \in Nat \ {0} /\ HOURS \in Nat \ {0}
  BY RtcAssumption
<1> QED
  BY <1>1, <1>2

(* The chip's time is made of numbers.                                     *)
LEMMA ClockTypes ==
    ASSUME now \in Nat
    PROVE  Hour \in Nat /\ Minute \in Nat
<1>1. \A a \in Nat, k \in Nat \ {0} : a \div k \in Nat /\ a % k \in Nat
  OBVIOUS
<1>2. SECS \in Nat \ {0} /\ MINS \in Nat \ {0}
  BY RtcAssumption
<1> QED
  BY <1>1, <1>2, DayLength DEF Hour, Minute

(* What the two reads return in the format the program asked for.          *)
LEMMA RegistersDecode ==
    ASSUME now \in Nat, chip_B.h24, ~chip_B.binary
    PROVE  /\ to_BCD(HoursRegister) = Hour
           /\ to_BCD(MinutesRegister) = Minute
<1>1. Hour \in Nat /\ Minute \in Nat
  BY ClockTypes
<1>2. MinutesRegister = Bcd(Minute)
  BY DEF MinutesRegister, Encoded
<1>3. HoursRegister = Bcd(Hour)
  <2>1. Bcd(Hour) \in Int
    BY <1>1 DEF Bcd
  <2>2. HourIn(chip_B) = Hour /\ Afternoon(chip_B) = 0
    BY DEF HourIn, Afternoon
  <2> QED
    BY <2>1, <2>2 DEF HoursRegister, Encoded
<1> QED
  BY <1>1, <1>2, <1>3, Decodes

-----------------------------------------------------------------------------
(* The program starts between two calls.                                   *)
LEMMA InitRtc == Init => RtcInv
<1> SUFFICES ASSUME Init PROVE RtcInv
  OBVIOUS
<1>1. now \in Nat
  BY DayLength DEF Init
<1>2. pc = 22 /\ left = 0 /\ <<hours, minutes>> \in during
  BY DEF Init, IDLE
<1>3. /\ uip \in BOOLEAN /\ reg_A \in BOOLEAN
      /\ chip_B \in [h24 : BOOLEAN, binary : BOOLEAN, ints : BOOLEAN]
  BY Zenon DEF Init
<1>4. RtcTypes
  BY <1>1, <1>2, <1>3 DEF RtcTypes, IDLE
<1> QED
  BY <1>2, <1>4 DEF RtcInv, FormatSet, RoomLeft, ReadSoFar,
                    ShownTimeWasReal, IDLE, LAST, READ_HOURS

(* The steps of the program keep the invariant.                            *)
LEMMA ProgramKeeps == ReadsFit /\ RtcInv /\ rtc_ih => RtcInv'
<1> SUFFICES ASSUME ReadsFit, RtcInv, rtc_ih PROVE RtcInv'
  OBVIOUS
<1> USE DEF RtcInv, IDLE, LAST, READ_HOURS
<1>1. CASE Call
  BY <1>1 DEF Call, chip, values, RtcTypes, FormatSet, RoomLeft, ReadSoFar,
              ShownTimeWasReal, Hour, Minute
<1> DEFINE Steps == /\ left' = IF left > 0 THEN left - 1 ELSE left
                    /\ now' = now /\ uip' = uip
<1>2. Steps => Hour' = Hour /\ Minute' = Minute /\ left' \in Nat /\ left' >= left - 1
  BY DEF RtcTypes, Hour, Minute
<1>3. CASE Plain
  <2>1. Steps /\ pc \in 0 .. LAST - 1 /\ pc' = pc + 1
    BY <1>3 DEF Plain, Operation, RtcTypes
  <2>2. pc \notin {WRITE_B_DISABLE, READ_A, WRITE_B_ENABLE, READ_MINUTES, READ_HOURS}
    BY <1>3 DEF Plain
  <2>3. UNCHANGED <<chip_B, reg_A, g_rtc_minutes, g_rtc_hours, hours, minutes, during>>
    BY <1>3 DEF Plain, values
  <2> QED
    BY <1>2, <2>1, <2>2, <2>3
       DEF RtcTypes, FormatSet, RoomLeft, ReadSoFar, ShownTimeWasReal,
           WRITE_B_DISABLE, READ_A, WRITE_B_ENABLE, READ_MINUTES
<1>4. CASE disable_interrupts_rtc
  <2>1. Steps /\ pc = 3 /\ pc' = 4
    BY <1>4 DEF disable_interrupts_rtc, Operation, WRITE_B_DISABLE
  <2>2. /\ chip_B' = [h24 |-> TRUE, binary |-> FALSE, ints |-> FALSE]
        /\ UNCHANGED <<reg_A, g_rtc_minutes, g_rtc_hours, hours, minutes, during>>
    BY <1>4 DEF disable_interrupts_rtc, values
  <2> QED
    BY <1>2, <2>1, <2>2 DEF RtcTypes, FormatSet, RoomLeft, ReadSoFar, ShownTimeWasReal
<1>5. CASE ReadA
  <2>1. Steps /\ pc = 5 /\ pc' = 6 /\ reg_A' = uip
    BY <1>5 DEF ReadA, Operation, READ_A
  <2>2. UNCHANGED <<chip_B, g_rtc_minutes, g_rtc_hours, hours, minutes, during>>
    BY <1>5 DEF ReadA
  <2> QED
    BY <1>2, <2>1, <2>2 DEF RtcTypes, FormatSet, RoomLeft, ReadSoFar, ShownTimeWasReal
<1>6. CASE enable_interrupts_rtc
  <2>1. Steps /\ pc = 9 /\ pc' = IF reg_A THEN 0 ELSE 10
    BY <1>6 DEF enable_interrupts_rtc, Operation, WRITE_B_ENABLE, UpdateInProgress
  <2>2. /\ chip_B' = [chip_B EXCEPT !.ints = TRUE]
        /\ UNCHANGED <<reg_A, g_rtc_minutes, g_rtc_hours, hours, minutes, during>>
    BY <1>6 DEF enable_interrupts_rtc, values
  <2>3. /\ chip_B' \in [h24 : BOOLEAN, binary : BOOLEAN, ints : BOOLEAN]
        /\ chip_B'.h24 = chip_B.h24 /\ chip_B'.binary = chip_B.binary
    BY <2>2 DEF RtcTypes
  <2>4. UNCHANGED <<reg_A, g_rtc_minutes, g_rtc_hours, hours, minutes, during>>
    BY <2>2
  <2>5. RtcTypes' /\ FormatSet'
    BY <1>2, <2>1, <2>3, <2>4 DEF RtcTypes, FormatSet
  <2>6. RoomLeft'
    BY <1>2, <2>1, <2>4 DEF RtcTypes, RoomLeft
  <2>7. ReadSoFar' /\ ShownTimeWasReal'
    BY <1>2, <2>1, <2>4 DEF RtcTypes, ReadSoFar, ShownTimeWasReal
  <2> QED
    BY <2>5, <2>6, <2>7
<1>7. CASE ReadMinutes
  <2>1. Steps /\ pc = 13 /\ pc' = 14 /\ g_rtc_minutes' = to_BCD(MinutesRegister)
    BY <1>7 DEF ReadMinutes, Operation, READ_MINUTES
  <2>2. UNCHANGED <<chip_B, reg_A, g_rtc_hours, hours, minutes, during>>
    BY <1>7 DEF ReadMinutes
  <2>3. g_rtc_minutes' = Minute
    BY <2>1, RegistersDecode DEF RtcTypes, FormatSet
  <2> QED
    BY <1>2, <2>1, <2>2, <2>3
       DEF RtcTypes, FormatSet, RoomLeft, ReadSoFar, ShownTimeWasReal
<1>8. CASE ReadHours
  <2>1. Steps /\ pc = 15 /\ pc' = 16 /\ g_rtc_hours' = to_BCD(HoursRegister)
    BY <1>8 DEF ReadHours, Operation
  <2>2. UNCHANGED <<chip_B, reg_A, g_rtc_minutes, hours, minutes, during>>
    BY <1>8 DEF ReadHours
  <2>3. g_rtc_hours' = Hour
    BY <2>1, RegistersDecode DEF RtcTypes, FormatSet
  <2> QED
    BY <1>2, <2>1, <2>2, <2>3
       DEF RtcTypes, FormatSet, RoomLeft, ReadSoFar, ShownTimeWasReal
<1>9. CASE Show
  <2>1. Steps /\ pc = 21 /\ pc' = 22 /\ hours' = g_rtc_hours /\ minutes' = g_rtc_minutes
    BY <1>9 DEF Show, Operation
  <2>2. UNCHANGED <<chip_B, reg_A, g_rtc_minutes, g_rtc_hours, during>>
    BY <1>9 DEF Show
  <2> QED
    BY <1>2, <2>1, <2>2
       DEF RtcTypes, FormatSet, RoomLeft, ReadSoFar, ShownTimeWasReal
<1> QED
  BY <1>1, <1>3, <1>4, <1>5, <1>6, <1>7, <1>8, <1>9 DEF rtc_ih

(* The chip does: an update cannot come between the reads.                 *)
LEMMA ChipKeeps == ReadsFit /\ RtcInv /\ (RaiseUip \/ Update) => RtcInv'
<1> SUFFICES ASSUME ReadsFit, RtcInv, RaiseUip \/ Update PROVE RtcInv'
  OBVIOUS
<1> USE DEF RtcInv, IDLE, LAST, READ_HOURS
<1>1. CASE RaiseUip
  <2>1. Hour' = Hour /\ Minute' = Minute
    BY <1>1 DEF RaiseUip, Hour, Minute
  <2> QED
    BY <1>1, <2>1, RtcAssumption
       DEF RaiseUip, values, ReadsFit, RtcTypes, FormatSet, RoomLeft, ReadSoFar,
           ShownTimeWasReal
<1>2. CASE Update
  <2>1. now' \in Nat
    <3>1. \A a \in Nat, k \in Nat \ {0} : (a + 1) % k \in Nat
      OBVIOUS
    <3> QED
      BY <1>2, <3>1, DayLength DEF Update, RtcTypes
  <2>2. /\ uip /\ left = 0 /\ uip' = FALSE
        /\ during' = IF pc = 22 THEN during ELSE during \cup {<<Hour', Minute'>>}
        /\ UNCHANGED <<left, chip_B, pc, reg_A, g_rtc_minutes, g_rtc_hours, hours, minutes>>
    BY <1>2 DEF Update, values
  <2>3. pc \notin 14..READ_HOURS
    BY <2>2 DEF RoomLeft, RtcTypes
  <2>4. UNCHANGED <<chip_B, pc, reg_A, g_rtc_minutes, g_rtc_hours, hours, minutes>>
    BY <2>2
  <2>5. RtcTypes' /\ FormatSet'
    BY <2>1, <2>2, <2>4 DEF RtcTypes, FormatSet
  <2>6. RoomLeft'
    BY <2>2, <2>4 DEF RoomLeft
  <2>7. during \subseteq during' /\ (pc # 22 => <<Hour', Minute'>> \in during')
    BY <2>2
  <2>8. ReadSoFar'
    BY <2>3, <2>4, <2>7 DEF ReadSoFar
  <2>9. ShownTimeWasReal'
    BY <2>4, <2>7 DEF ShownTimeWasReal
  <2> QED
    BY <2>5, <2>6, <2>8, <2>9
<1> QED
  BY <1>1, <1>2

(* If the reads fit into the time UIP announces, then whatever the clock,  *)
(* and whenever its updates come, the menu shows a time it really had.     *)
THEOREM ShownTimeIsReal == ReadsFit => (Spec => []ShownTimeWasReal)
<1> SUFFICES ASSUME ReadsFit PROVE Spec => []ShownTimeWasReal
  OBVIOUS
<1>1. RtcInv /\ [Next]_vars => RtcInv'
  <2> SUFFICES ASSUME RtcInv, [Next]_vars PROVE RtcInv'
    OBVIOUS
  <2>1. CASE UNCHANGED vars
    BY <2>1
       DEF vars, chip, values, RtcInv, RtcTypes, FormatSet, RoomLeft, ReadSoFar,
           ShownTimeWasReal, Hour, Minute
  <2> QED
    BY <2>1, ProgramKeeps, ChipKeeps DEF Next
<1>2. RtcInv => ShownTimeWasReal
  BY DEF RtcInv
<1> QED
  BY <1>1, <1>2, InitRtc, PTL DEF Spec
=============================================================================
