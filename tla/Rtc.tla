-------------------------------- MODULE Rtc ---------------------------------
(***************************************************************************)
(* rtc_ih of proj/src/rtc/rtc.c, port operation by port operation, against *)
(* a clock that runs on.  wait_valid_rtc reads register A until no update  *)
(* is in progress; then read_time reads the six time registers one by one, *)
(* and the menu shows hours and minutes.                                   *)
(*                                                                         *)
(* The chip raises UIP some time before each update.  Lead is how many     *)
(* port operations of the program fit into that time; everything rtc_ih    *)
(* shows rests on it.  The registers are read in the format that register  *)
(* B asks for.                                                             *)
(***************************************************************************)
EXTENDS Integers

CONSTANTS
    SECS, MINS, HOURS,   \* seconds in a minute, minutes in an hour, hours in a day
    Lead                 \* port operations between the rise of UIP and the update

ASSUME RtcAssumption ==
    /\ SECS \in Nat \ {0}
    /\ MINS \in 1..60
    /\ HOURS \in 1..24
    /\ Lead \in Nat

VARIABLES
    now,              \* the chip's time, in seconds since midnight
    uip, left,        \* the flag, and the operations that still fit
    chip_B,           \* register B: 24-hour bit, binary-data bit, interrupts
    pc,               \* the next port operation
    reg_A,            \* the UIP bit wait_valid_rtc read
    g_rtc_minutes, g_rtc_hours,
    hours, minutes,   \* what the menu shows
    during            \* the <<hours, minutes>> of the chip during the last call

chip == <<now, uip, left, chip_B>>
values == <<reg_A, g_rtc_minutes, g_rtc_hours, hours, minutes>>
vars == <<chip, pc, values, during>>

Hour   == now \div (SECS * MINS)
Minute == (now \div SECS) % MINS

Bcd(v) == 16 * (v \div 10) + (v % 10)

(* The conversion the code calls to_BCD: from BCD to a number.             *)
to_BCD(value) == (value \div 16) * 10 + (value % 16)

(* In the 12-hour format midnight is 12, and bit 7 is the afternoon.       *)
HourIn(format) ==
    IF format.h24 THEN Hour ELSE ((Hour + 11) % 12) + 1
Afternoon(format) == IF ~format.h24 /\ Hour >= 12 THEN 128 ELSE 0
Encoded(v, format) == IF format.binary THEN v ELSE Bcd(v)

HoursRegister   == Encoded(HourIn(chip_B), chip_B) + Afternoon(chip_B)
MinutesRegister == Encoded(Minute, chip_B)

-----------------------------------------------------------------------------
(* The port operations of one call, in order:                              *)
(*   0 ..  3  disable_interrupts_rtc: select B, read, select B, write      *)
(*   4 ..  5  select A, read                                               *)
(*   6 ..  9  enable_interrupts_rtc, and back to 0 if UIP was set          *)
(*  10 .. 21  select and read seconds, minutes, hours, day, month, year    *)
(* Between two calls pc is IDLE.                                           *)
WRITE_B_DISABLE == 3
READ_A          == 5
WRITE_B_ENABLE  == 9
READ_MINUTES    == 13
READ_HOURS      == 15
LAST            == 21
IDLE            == 22

Init ==
    /\ now \in 0 .. SECS * MINS * HOURS - 1
    /\ uip = FALSE
    /\ left = 0
    /\ chip_B \in [h24 : BOOLEAN, binary : BOOLEAN, ints : BOOLEAN]
    /\ pc = IDLE
    /\ reg_A = FALSE
    /\ g_rtc_minutes = 0
    /\ g_rtc_hours = 0
    /\ hours = 0
    /\ minutes = 0
    /\ during = {<<0, 0>>}

(* game_loop calls rtc_ih, before its loop and in each frame of the menu.  *)
Call ==
    /\ pc = IDLE
    /\ pc' = 0
    /\ during' = {<<Hour, Minute>>}
    /\ UNCHANGED <<chip, values>>

(* A port operation takes its share of the time before the update.         *)
Operation(n) ==
    /\ pc = n
    /\ left' = IF left > 0 THEN left - 1 ELSE left
    /\ UNCHANGED <<now, uip>>

Plain ==
    /\ pc \in (0 .. LAST) \ {WRITE_B_DISABLE, READ_A, WRITE_B_ENABLE,
                             READ_MINUTES, READ_HOURS, LAST}
    /\ Operation(pc)
    /\ pc' = pc + 1
    /\ UNCHANGED <<chip_B, values, during>>

(* reg_B |= set24; reg_B &= setBCD; reg_B &= disINT; write_reg_B.          *)
disable_interrupts_rtc ==
    /\ Operation(WRITE_B_DISABLE)
    /\ chip_B' = [h24 |-> TRUE, binary |-> FALSE, ints |-> FALSE]
    /\ pc' = pc + 1
    /\ UNCHANGED <<values, during>>

ReadA ==
    /\ Operation(READ_A)
    /\ reg_A' = uip
    /\ pc' = pc + 1
    /\ UNCHANGED <<chip_B, g_rtc_minutes, g_rtc_hours, hours, minutes, during>>

(* Mutant: the loop runs once.                                             *)
OnlyOnce == FALSE

UpdateInProgress == reg_A

(* enable_interrupts_rtc and the test of the do-while loop.                *)
enable_interrupts_rtc ==
    /\ Operation(WRITE_B_ENABLE)
    /\ chip_B' = [chip_B EXCEPT !.ints = TRUE]
    /\ pc' = IF UpdateInProgress THEN 0 ELSE pc + 1
    /\ UNCHANGED <<values, during>>

ReadMinutes ==
    /\ Operation(READ_MINUTES)
    /\ g_rtc_minutes' = to_BCD(MinutesRegister)
    /\ pc' = pc + 1
    /\ UNCHANGED <<chip_B, reg_A, g_rtc_hours, hours, minutes, during>>

ReadHours ==
    /\ Operation(READ_HOURS)
    /\ g_rtc_hours' = to_BCD(HoursRegister)
    /\ pc' = pc + 1
    /\ UNCHANGED <<chip_B, reg_A, g_rtc_minutes, hours, minutes, during>>

(* The last read, and what rtc_ih does with the result.                    *)
Show ==
    /\ Operation(LAST)
    /\ hours' = g_rtc_hours
    /\ minutes' = g_rtc_minutes
    /\ pc' = IDLE
    /\ UNCHANGED <<chip_B, reg_A, g_rtc_minutes, g_rtc_hours, during>>

rtc_ih ==
    \/ Call \/ Plain \/ disable_interrupts_rtc \/ ReadA \/ enable_interrupts_rtc
    \/ ReadMinutes \/ ReadHours \/ Show

-----------------------------------------------------------------------------
(* The chip.                                                               *)
RaiseUip ==
    /\ ~uip
    /\ uip' = TRUE
    /\ left' = Lead
    /\ UNCHANGED <<now, chip_B, pc, values, during>>

Update ==
    /\ uip
    /\ left = 0
    /\ now' = (now + 1) % (SECS * MINS * HOURS)
    /\ uip' = FALSE
    /\ during' = IF pc = IDLE THEN during ELSE during \cup {<<Hour', Minute'>>}
    /\ UNCHANGED <<left, chip_B, pc, values>>

Next == rtc_ih \/ RaiseUip \/ Update

Spec == Init /\ [][Next]_vars

-----------------------------------------------------------------------------
(* When rtc_ih returns, what the menu shows is a time the clock really had *)
(* during the call: never the minutes of one hour with the next hour,      *)
(* although the registers are read one by one.  The ten operations between *)
(* the read of register A and the read of the hours must fit into Lead.    *)
ShownTimeWasReal == pc = IDLE => <<hours, minutes>> \in during
=============================================================================
