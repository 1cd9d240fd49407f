----------------------------- MODULE LabProofs ------------------------------
(***************************************************************************)
(* The test programs of lab3 and lab4, for every set of scancodes, every   *)
(* time and any number of damaged bytes: what is printed wrong is bounded  *)
(* by the damaged bytes, and by the data bytes that look like first ones,  *)
(* and a function that ends for silence has waited for it.                 *)
(***************************************************************************)
EXTENDS LabScans, TLAPS

(* What is in the buffer and in byte: a byte of the keyboard or, for       *)
(* enable_interrupts, the command byte; or a byte of the mouse.            *)
KeyBytes == [code : KeyCodes \cup {"E0"}, sent : KeyCodes \cup {"E0"}, two : BOOLEAN]
MouseBytes ==
    [code : {"data"}, pos : 0..2, packet : 0..1, bit3 : BOOLEAN, intact : BOOLEAN]

(* A handler is at work.                                                   *)
Handling == pc \in {"full", "read", "error"}

BytesInv ==
    /\ pc = "read" => obuf # NoByte
    /\ prog \in KeyboardPrograms =>
         /\ obuf \in KeyBytes \cup {NoByte, CommandByte}
         /\ pc \in {"loop", "full", "read", "error"} => obuf # CommandByte
         /\ pc = "error" => byte \in KeyBytes
    /\ prog \in MousePrograms =>
         /\ obuf \in MouseBytes \cup {NoByte}
         /\ pc = "error" => byte \in MouseBytes
    /\ arr \in Seq(MouseBytes)

(* Who does what, and the bounds that the loops' conditions leave behind.  *)
LoopInv ==
    /\ prog \in KeyboardPrograms \cup MousePrograms
    /\ "timer" \in pending \cup irqs => prog \in Timed
    /\ prog \in Timed /\ Handling => counter < Limit
    /\ prog = "packet" /\ Handling => printed < cnt
    /\ asked => prog = "poll" /\ pc \in {"get", "put", "done"}
    /\ pc \in {"get", "put"} => prog = "poll"

ScanInv == TypeOK /\ BytesInv /\ LoopInv

-----------------------------------------------------------------------------
(* Bytes come in the order in which they were sent: the byte in the buffer *)
(* is the one after the byte in the handler, and the device's next one     *)
(* comes after both.                                                       *)
Follows(b, s) == s = (b.sent = "E0")

(* A byte that was received as another; as long as it is in the buffer the *)
(* error bits are its own.                                                 *)
Garbled(b) == b.code # b.sent

KeyOrder ==
    /\ pc = "error" => Follows(byte, IF obuf # NoByte THEN obuf.two ELSE second)
    /\ obuf # NoByte => Follows(obuf, second) /\ (Garbled(obuf) => err)

(* Whether the next byte to be handled is the second of its scancode.      *)
NextIsSecond ==
    IF pc = "error" THEN byte.two ELSE IF obuf # NoByte THEN obuf.two ELSE second

KeyInSync == flag2Bytes = NextIsSecond

(* What is still to come has been paid for: one wrong scancode when the    *)
(* flag does not fit, two when a damaged byte is not handled yet, itself   *)
(* and the one after it.                                                   *)
KeyDebt ==
    /\ wrong =< 2 * faults
    /\ ~KeyInSync => wrong + 1 =< 2 * faults
    /\ err \/ (pc = "error" /\ Garbled(byte)) => wrong + 2 =< 2 * faults

KeyInv ==
    prog \in KeyboardPrograms =>
        /\ wrong =< 2 * faults
        /\ pc \in {"loop", "full", "read", "error"} => KeyOrder /\ KeyDebt

(* The same for the bytes of packets.                                      *)
Place(b) == <<b.packet, b.pos>>
After(p) == IF p[2] = 2 THEN <<1 - p[1], 0>> ELSE <<p[1], p[2] + 1>>

MouseOrder ==
    /\ pc = "error" => After(Place(byte)) = IF obuf # NoByte THEN Place(obuf) ELSE <<packet, pos>>
    /\ obuf # NoByte => After(Place(obuf)) = <<packet, pos>> /\ (~obuf.intact => err)

(* The place of the next byte to be handled.                               *)
NextPlace ==
    IF pc = "error" THEN Place(byte)
    ELSE IF obuf # NoByte THEN Place(obuf) ELSE <<packet, pos>>

(* The bytes in arr are intact and begin the packet that the next byte     *)
(* continues.                                                              *)
MouseInSync ==
    /\ \A i \in 1..Len(arr) : Place(arr[i]) = <<arr[1].packet, i - 1>> /\ arr[i].intact
    /\ arr # << >> => NextPlace = <<arr[1].packet, Len(arr)>>

(* A data byte that looks like the first of a packet.                      *)
Misleads(b) == b.intact /\ b.pos # 0 /\ b.bit3

Count(P) == IF P THEN 1 ELSE 0

(* What is still to come has been paid for: by a damaged byte that is not  *)
(* handled yet or that left arr out of step, and by each byte that may     *)
(* start a packet in the wrong place.                                      *)
Trouble == err \/ (pc = "error" /\ ~byte.intact) \/ ~MouseInSync

ToMislead ==
    Count(obuf # NoByte /\ Misleads(obuf)) + Count(pc = "error" /\ Misleads(byte))

MouseDebt == wrong + ToMislead + Count(Trouble) =< faults + marked

(* Before the first damaged byte every byte is where it should be.         *)
FirstMarked(b) == b.intact /\ (b.pos = 0 => b.bit3)

MouseClean ==
    faults = 0 =>
        /\ wrong = 0
        /\ ~err
        /\ MouseInSync
        /\ NextPlace[2] = Len(arr)
        /\ obuf # NoByte => FirstMarked(obuf)
        /\ pc = "error" => FirstMarked(byte)

MouseInv ==
    prog \in MousePrograms => MouseOrder /\ MouseDebt /\ MouseClean

-----------------------------------------------------------------------------
(* The counter of the timed functions is at most one ahead of the silence, *)
(* and not ahead of it by a timer interrupt that is still pending.         *)
Behind == quiet + 1 - (IF "timer" \in pending THEN 1 ELSE 0)

SilenceInv ==
    prog \in Timed =>
        /\ pc \in {"loop", "done"} /\ "device" \notin pending => counter =< Behind
        /\ Handling /\ "device" \notin pending /\ "timer" \in pending => quiet >= 1
        /\ pc = "done" /\ flagESC => counter >= Limit

-----------------------------------------------------------------------------
(* Facts about the constants and the bytes.                                *)
LEMMA Facts ==
    /\ Limit \in Nat
    /\ Programs \subseteq KeyboardPrograms \cup MousePrograms
    /\ "timed" \notin MousePrograms /\ "async" \notin KeyboardPrograms
    /\ KeyboardPrograms \cap MousePrograms = {}
    /\ NoByte # CommandByte
BY ScanAssumption
   DEF Limit, KeyboardPrograms, MousePrograms, Timed, NoByte, CommandByte

(* What a device sends is neither the empty buffer nor the command byte.   *)
LEMMA BytesAreBytes ==
    /\ \A b \in KeyBytes : b # NoByte /\ b # CommandByte
    /\ \A b \in MouseBytes : b # NoByte /\ b # CommandByte
<1>1. ASSUME NEW b \in KeyBytes PROVE "two" \in DOMAIN b
  BY DEF KeyBytes
<1>2. ASSUME NEW b \in MouseBytes PROVE "pos" \in DOMAIN b
  BY DEF MouseBytes
<1>3. DOMAIN NoByte = {"code"} /\ DOMAIN CommandByte = {"code"}
  BY DEF NoByte, CommandByte
<1> QED
  BY <1>1, <1>2, <1>3

(* The time that is left to a timed function is the time to its limit.     *)
LEMMA WaitsMeans ==
    ASSUME counter \in Nat, prog \in Timed
    PROVE  Waits <=> counter < Limit
<1>1. TICKS \in Nat \ {0} /\ n \in Nat
  BY ScanAssumption
<1> DEFINE q == counter \div TICKS
<1>2. q \in Nat /\ counter >= TICKS * q /\ counter < TICKS * (q + 1)
  BY <1>1
<1>3. Waits <=> q < n
  BY DEF Waits
<1> HIDE DEF q
<1>4. CASE q < n
  <2>1. TICKS * (q + 1) =< TICKS * n
    BY <1>1, <1>2, <1>4
  <2>2. TICKS * (q + 1) \in Nat /\ TICKS * n \in Nat
    BY <1>1, <1>2
  <2>3. counter < TICKS * n
    BY <1>2, <2>1, <2>2
  <2> QED
    BY <1>1, <1>3, <1>4, <2>3 DEF Limit
<1>5. CASE q >= n
  <2>1. TICKS * n =< TICKS * q
    BY <1>1, <1>2, <1>5
  <2>2. TICKS * q \in Nat /\ TICKS * n \in Nat
    BY <1>1, <1>2
  <2>3. counter >= TICKS * n
    BY <1>2, <2>1, <2>2
  <2> QED
    BY <1>1, <1>2, <1>3, <1>5, <2>3 DEF Limit
<1> QED
  BY <1>1, <1>2, <1>4, <1>5

(* The functions begin with nothing read.                                  *)
LEMMA InitScan == Init => ScanInv
<1> SUFFICES ASSUME Init PROVE ScanInv
  OBVIOUS
<1>1. TypeOK
  <2>1. /\ faults \in 0..MaxFaults /\ counter \in 0..Limit /\ wrong \in Nat /\ quiet \in 0..Limit
        /\ pos \in 0..2 /\ packet \in 0..1 /\ marked \in 0..MaxMarked /\ printed \in 0..cnt
    BY Facts, ScanAssumption, MouseScanAssumption DEF Init, LoopInit, MouseInit
  <2>2. arr = << >> /\ Len(arr) =< 2
    BY DEF Init, MouseInit
  <2>3. err \in BOOLEAN /\ second \in BOOLEAN /\ flagESC \in BOOLEAN /\ flag2Bytes \in BOOLEAN
    BY DEF Init, LoopInit, KbdInit
  <2>5. command \in [int : BOOLEAN, kept : BOOLEAN]
    BY DEF Init, KbdInit
  <2>4. prog \in Programs /\ pending = {} /\ irqs = {} /\ pc = "loop"
    BY DEF Init, LoopInit
  <2> QED
    BY <2>1, <2>2, <2>3, <2>4, <2>5 DEF TypeOK
<1>2. BytesInv
  <2>1. arr \in Seq(MouseBytes)
    BY DEF Init, MouseInit
  <2> QED
    BY <2>1, Facts DEF Init, LoopInit, BytesInv
<1>3. LoopInv
  BY Facts DEF Init, LoopInit, KbdInit, MouseInit, LoopInv, Handling
<1> QED
  BY <1>1, <1>2, <1>3 DEF ScanInv

(* The interrupts of the timer.                                            *)
LEMMA TicksScan ==
    ASSUME ScanInv, Ticks
    PROVE  ScanInv'
<1>1. TypeOK'
  BY Facts DEF ScanInv, TypeOK, Ticks, TimerTicks, device, kbdVars, flags, mouseVars
<1>2. BytesInv'
  BY DEF ScanInv, BytesInv, Ticks, TimerTicks, device, kbdVars, mouseVars
<1>3. LoopInv'
  BY DEF ScanInv, LoopInv, Handling, Ticks, TimerTicks, device, kbdVars, mouseVars
<1> QED
  BY <1>1, <1>2, <1>3 DEF ScanInv

(* A byte of the device.                                                   *)
LEMMA SendsScan ==
    ASSUME ScanInv, DeviceSends
    PROVE  ScanInv'
<1>1. CASE prog \in KeyboardPrograms /\ KeyboardSends /\ UNCHANGED mouseVars
  <2>1. PICK code \in KeyCodes \cup {"E0"}, sent \in KeyCodes \cup {"E0"}, bad \in BOOLEAN :
          /\ Arrives([code |-> code, sent |-> sent, two |-> second], bad)
          /\ second' = (sent = "E0")
    BY <1>1 DEF KeyboardSends
  <2>2. [code |-> code, sent |-> sent, two |-> second] \in KeyBytes
    BY DEF ScanInv, TypeOK, KeyBytes
  <2>3. UNCHANGED <<flags, asked, command>>
    BY <1>1 DEF KeyboardSends
  <2>4. second' \in BOOLEAN
    BY <2>1
  <2>5. TypeOK'
    BY <1>1, <2>1, <2>3, <2>4, Facts, ScanAssumption
       DEF ScanInv, TypeOK, Arrives, flags, mouseVars
  <2>6. BytesInv'
    BY <1>1, <2>1, <2>2, <2>3, BytesAreBytes, Facts DEF ScanInv, BytesInv, Arrives, mouseVars
  <2>7. LoopInv'
    BY <1>1, <2>1, <2>3 DEF ScanInv, LoopInv, Handling, Arrives, mouseVars
  <2> QED
    BY <2>5, <2>6, <2>7 DEF ScanInv
<1>2. CASE prog \in MousePrograms /\ MouseSends /\ UNCHANGED kbdVars
  <2>1. PICK bit3 \in BOOLEAN, bad \in BOOLEAN :
          /\ Arrives([code |-> "data", pos |-> pos, packet |-> packet, bit3 |-> bit3,
                      intact |-> ~bad], bad)
          /\ marked' \in {marked, marked + 1} /\ marked' =< MaxMarked
    BY <1>2 DEF MouseSends
  <2>2. [code |-> "data", pos |-> pos, packet |-> packet, bit3 |-> bit3, intact |-> ~bad]
          \in MouseBytes
    BY DEF ScanInv, TypeOK, MouseBytes
  <2>3. pos' \in 0..2 /\ packet' \in 0..1 /\ UNCHANGED <<arr, printed>>
    BY <1>2 DEF MouseSends, ScanInv, TypeOK
  <2>7. marked' \in 0..MaxMarked
    BY <2>1, MouseScanAssumption DEF ScanInv, TypeOK
  <2>4. TypeOK'
    BY <1>2, <2>1, <2>3, <2>7, Facts, ScanAssumption
       DEF ScanInv, TypeOK, Arrives, kbdVars, flags
  <2>5. BytesInv'
    BY <1>2, <2>1, <2>2, <2>3, BytesAreBytes, Facts DEF ScanInv, BytesInv, Arrives
  <2>6. LoopInv'
    BY <1>2, <2>1, <2>3 DEF ScanInv, LoopInv, Handling, Arrives, kbdVars
  <2> QED
    BY <2>4, <2>5, <2>6 DEF ScanInv
<1> QED
  BY <1>1, <1>2 DEF DeviceSends

(* The command byte comes only when it was asked for.                      *)
LEMMA AnswersScan ==
    ASSUME ScanInv, ControllerAnswers
    PROVE  ScanInv'
<1> USE DEF ControllerAnswers, CommandAnswers, mouseVars
<1>1. TypeOK'
  BY DEF ScanInv, TypeOK, flags
<1>2. BytesInv'
  BY Facts DEF ScanInv, BytesInv, LoopInv, KeyboardPrograms, MousePrograms
<1>3. LoopInv'
  BY DEF ScanInv, LoopInv, Handling
<1> QED
  BY <1>1, <1>2, <1>3 DEF ScanInv

-----------------------------------------------------------------------------
(* The loop and the first accesses of the handlers, when the loop's        *)
(* condition implies that time and packets are left.                       *)
LEMMA LoopStepScan ==
    ASSUME ScanInv, NEW go, LoopStep(go), UNCHANGED <<kbdVars, mouseVars>>,
           go /\ pc = "loop" /\ prog \in Timed => counter < Limit,
           go /\ pc = "loop" /\ prog = "packet" => printed < cnt
    PROVE  ScanInv'
<1> USE DEF ScanInv, kbdVars, mouseVars, flags, device
<1>1. CASE Receive(go)
  <2>1. TypeOK'
    <3>1. counter' \in 0..Limit
      BY <1>1, Facts DEF Receive, Counted, TypeOK, LoopInv
    <3>2. irqs' \subseteq {"device", "timer"} /\ pc' \in {"loop", "full"} /\ pending' = {}
      BY <1>1 DEF Receive, TypeOK
    <3> QED
      BY <1>1, <3>1, <3>2 DEF Receive, TypeOK
  <2>2. BytesInv'
    BY <1>1 DEF Receive, BytesInv
  <2>3. LoopInv'
    BY <1>1 DEF Receive, LoopInv, Handling, TypeOK
  <2> QED
    BY <2>1, <2>2, <2>3
<1>2. CASE Exit(go)
  <2>1. TypeOK' /\ BytesInv'
    BY <1>2 DEF Exit, TypeOK, BytesInv
  <2>2. LoopInv'
    BY <1>2 DEF Exit, LoopInv, Handling
  <2> QED
    BY <2>1, <2>2
<1>3. CASE BufFull
  <2>1. TypeOK'
    <3>1. counter' \in 0..Limit
      BY <1>3, Facts DEF BufFull, Return, AfterByte, TypeOK, LoopInv, Handling
    <3>2. irqs' \subseteq {"device", "timer"} /\ pc' \in {"loop", "read"}
      BY <1>3 DEF BufFull, Return, TypeOK
    <3> QED
      BY <1>3, <3>1, <3>2 DEF BufFull, TypeOK
  <2>2. BytesInv'
    BY <1>3 DEF BufFull, Return, BytesInv
  <2>3. LoopInv'
    BY <1>3 DEF BufFull, Return, LoopInv, Handling, TypeOK
  <2> QED
    BY <2>1, <2>2, <2>3
<1>4. CASE ReadBuf
  <2>1. TypeOK'
    BY <1>4 DEF ReadBuf, TypeOK, BytesInv
  <2>2. BytesInv'
    BY <1>4, Facts DEF ReadBuf, BytesInv, LoopInv
  <2>3. LoopInv'
    BY <1>4 DEF ReadBuf, LoopInv, Handling
  <2> QED
    BY <2>1, <2>2, <2>3
<1>5. CASE Discard
  <2>1. TypeOK'
    BY <1>5, Facts DEF Discard, Return, AfterByte, TypeOK, LoopInv, Handling
  <2>2. BytesInv'
    BY <1>5 DEF Discard, Return, BytesInv
  <2>3. LoopInv'
    BY <1>5 DEF Discard, Return, LoopInv, Handling, TypeOK
  <2> QED
    BY <2>1, <2>2, <2>3
<1> QED
  BY <1>1, <1>2, <1>3, <1>4, <1>5 DEF LoopStep

(* The end of a handler: the counter starts again.                         *)
LEMMA KeepScan ==
    ASSUME ScanInv, NEW w \in BOOLEAN, Keep(w),
           UNCHANGED <<second, asked, command, pos, packet, marked>>,
           flagESC' \in BOOLEAN, flag2Bytes' \in BOOLEAN,
           arr' \in Seq(MouseBytes), Len(arr') =< 2,
           printed' \in 0..cnt
    PROVE  ScanInv'
<1> USE DEF Keep, Return, device
<1>1. TypeOK'
  <2>1. counter' \in 0..Limit
    BY Facts DEF ScanInv, AfterByte, TypeOK, LoopInv, Handling
  <2>2. wrong' \in Nat
    BY DEF ScanInv, TypeOK
  <2> QED
    BY <2>1, <2>2 DEF ScanInv, TypeOK
<1>2. BytesInv'
  BY DEF ScanInv, BytesInv
<1>3. LoopInv'
  BY DEF ScanInv, LoopInv, Handling
<1> QED
  BY <1>1, <1>2, <1>3 DEF ScanInv

(* The functions of lab3.                                                  *)
LEMMA KbdScans ==
    ASSUME ScanInv, prog \in KeyboardPrograms, KbdProgram, UNCHANGED mouseVars
    PROVE  ScanInv'
<1>1. CASE Poll
  <2>1. TypeOK' /\ BytesInv'
    BY <1>1 DEF ScanInv, Poll, TypeOK, BytesInv, device, kbdVars, flags, mouseVars
  <2>2. LoopInv'
    BY <1>1 DEF ScanInv, Poll, LoopInv, Handling, device, kbdVars, mouseVars, Timed
  <2> QED
    BY <2>1, <2>2 DEF ScanInv
<1>2. CASE KbcHandle
  <2>1. pc = "error" /\ byte \in KeyBytes /\ flag2Bytes \in BOOLEAN /\ flagESC \in BOOLEAN
    BY <1>2 DEF KbcHandle, Keep, ScanInv, BytesInv, TypeOK
  <2>2. flag2Bytes' \in BOOLEAN /\ flagESC' \in BOOLEAN /\ UNCHANGED <<second, asked, command>>
    BY <1>2, <2>1 DEF KbcHandle, Cleared2Bytes, IsEsc
  <2>3. \E w \in BOOLEAN : Keep(w)
    <3>1. CASE byte.code = "E0"
      BY <1>2, <3>1 DEF KbcHandle
    <3>2. CASE byte.code # "E0"
      BY <1>2, <3>2 DEF KbcHandle
    <3> QED
      BY <3>1, <3>2
  <2> QED
    BY <2>2, <2>3, KeepScan DEF mouseVars, ScanInv, TypeOK, BytesInv
<1>3. CASE LoopStep(KbdContinue) /\ UNCHANGED kbdVars
  <2>1. KbdContinue /\ prog \in Timed => counter < Limit
    BY WaitsMeans DEF KbdContinue, ScanInv, TypeOK
  <2>2. prog # "packet"
    BY DEF KeyboardPrograms
  <2> QED
    BY <1>3, <2>1, <2>2, LoopStepScan
<1>4. CASE enable_interrupts
  <2> USE DEF enable_interrupts, AskCommand, GetCommand, PutCommand, device, kbdVars, mouseVars
  <2>1. TypeOK'
    <3>1. command' \in [int : BOOLEAN, kept : BOOLEAN]
      <4>1. command \in [int : BOOLEAN, kept : BOOLEAN]
        BY DEF ScanInv, TypeOK
      <4>2. CASE UNCHANGED command
        BY <4>1, <4>2
      <4>3. CASE command' = [int |-> TRUE, kept |-> byte = CommandByte]
        <5>1. \A k \in BOOLEAN : [int |-> TRUE, kept |-> k] \in [int : BOOLEAN, kept : BOOLEAN]
          OBVIOUS
        <5>2. (byte = CommandByte) \in BOOLEAN
          OBVIOUS
        <5> QED
          BY <4>3, <5>1, <5>2, Zenon
      <4> QED
        BY <1>4, <4>2, <4>3
    <3> QED
      BY <1>4, <3>1 DEF ScanInv, TypeOK, flags
  <2>2. BytesInv'
    BY <1>4, Facts DEF ScanInv, BytesInv
  <2>3. LoopInv'
    BY <1>4 DEF ScanInv, LoopInv, Handling
  <2> QED
    BY <2>1, <2>2, <2>3 DEF ScanInv
<1> QED
  BY <1>1, <1>2, <1>3, <1>4 DEF KbdProgram, kbc_ih

(* One byte more in a sequence of bytes.                                   *)
LEMMA AppendBytes ==
    ASSUME NEW a \in Seq(MouseBytes), NEW b \in MouseBytes
    PROVE  /\ Append(a, b) \in Seq(MouseBytes) /\ Len(Append(a, b)) = Len(a) + 1
           /\ \A i \in 1..Len(a) : Append(a, b)[i] = a[i]
           /\ Append(a, b)[Len(a) + 1] = b
OBVIOUS

(* The functions of lab4: arr is never overrun, and the loop's state stays *)
(* in step with the byte at hand.                                          *)
LEMMA MouseScans ==
    ASSUME ScanInv, prog \in MousePrograms, mouse_ih, UNCHANGED kbdVars
    PROVE  ScanInv'
<1>1. CASE MouseAssemble
  <2>1. /\ pc = "error" /\ byte \in MouseBytes /\ arr \in Seq(MouseBytes) /\ Len(arr) =< 2
        /\ flag2Bytes' \in BOOLEAN /\ flagESC' \in BOOLEAN
        /\ UNCHANGED <<second, asked, command, pos, packet, marked>>
    BY <1>1 DEF MouseAssemble, ScanInv, BytesInv, TypeOK, kbdVars, flags
  <2>2. \E w \in BOOLEAN : Keep(w)
    BY <1>1 DEF MouseAssemble
  <2>3. /\ arr' \in {arr, << >>} \/ (Len(arr) < 2 /\ arr' = Append(arr, byte))
        /\ printed' = printed \/ (prog = "packet" /\ printed' = printed + 1)
    BY <1>1 DEF MouseAssemble, PacketCount
  <2>4. arr' \in Seq(MouseBytes) /\ Len(arr') =< 2
    <3>1. << >> \in Seq(MouseBytes) /\ Len(<< >>) = 0
      OBVIOUS
    <3>2. Append(arr, byte) \in Seq(MouseBytes) /\ Len(Append(arr, byte)) = Len(arr) + 1
      BY <2>1, AppendBytes
    <3>3. Len(arr) \in Nat
      BY <2>1
    <3>4. CASE arr' = arr
      BY <2>1, <3>4
    <3>5. CASE arr' = << >>
      BY <3>1, <3>5
    <3>6. CASE Len(arr) < 2 /\ arr' = Append(arr, byte)
      BY <3>2, <3>3, <3>6
    <3> QED
      BY <2>3, <3>4, <3>5, <3>6
  <2>5. printed' \in 0..cnt
    BY <2>1, <2>3, MouseScanAssumption DEF ScanInv, TypeOK, LoopInv, Handling
  <2> QED
    BY <2>1, <2>2, <2>4, <2>5, KeepScan
<1>2. CASE LoopStep(MouseContinue) /\ UNCHANGED mouseVars
  <2>1. MouseContinue /\ prog \in Timed => counter < Limit
    BY WaitsMeans DEF MouseContinue, ScanInv, TypeOK, Timed
  <2>2. MouseContinue /\ prog = "packet" => printed < cnt
    BY DEF MouseContinue
  <2> QED
    BY <1>2, <2>1, <2>2, LoopStepScan
<1> QED
  BY <1>1, <1>2 DEF mouse_ih

(* Every step keeps it.                                                    *)
LEMMA NextScan == ScanInv /\ [Next]_vars => ScanInv'
<1> SUFFICES ASSUME ScanInv, [Next]_vars PROVE ScanInv'
  OBVIOUS
<1>1. CASE UNCHANGED vars
  BY <1>1 DEF vars, loopVars, device, kbdVars, flags, mouseVars, ScanInv, TypeOK, BytesInv,
              LoopInv, Handling
<1>2. CASE Program
  BY <1>2, KbdScans, MouseScans DEF Program
<1>3. CASE DeviceSends \/ ControllerAnswers \/ Ticks
  BY <1>3, SendsScan, AnswersScan, TicksScan
<1> QED
  BY <1>1, <1>2, <1>3 DEF Next

(* The type and shape of the scans, in every state.                        *)
LEMMA ScanInvHolds == Spec => []ScanInv
BY InitScan, NextScan, PTL DEF Spec

(* Every variable has its range in the functions of lab3 and lab4, for     *)
(* every n, every cnt and any number of damaged bytes: the wait never      *)
(* passes its limit, arr is not overrun, and a handler handles only a byte *)
(* it has read.                                                            *)
THEOREM ScansTypeCorrect == Spec => []TypeOK
<1>1. ScanInv => TypeOK
  BY DEF ScanInv
<1> QED
  BY <1>1, ScanInvHolds, PTL

-----------------------------------------------------------------------------
(* A message without a byte: the counter follows the silence.              *)
LEMMA LoopSilence ==
    ASSUME ScanInv, SilenceInv, prog \in Timed, NEW go, LoopStep(go),
           UNCHANGED flagESC,
           pc = "loop" /\ ~go /\ flagESC => counter >= Limit
    PROVE  SilenceInv'
<1> USE DEF ScanInv, device
<1>1. /\ counter \in 0..Limit /\ quiet \in 0..Limit /\ Limit \in Nat /\ Limit' = Limit
      /\ Handling => counter < Limit
  BY Facts DEF TypeOK, LoopInv, Limit
<1>2. CASE Receive(go)
  BY <1>1, <1>2 DEF Receive, Counted, SilenceInv, Behind, Handling
<1>3. CASE Exit(go)
  BY <1>1, <1>3 DEF Exit, SilenceInv, Behind, Handling
<1>4. CASE BufFull
  BY <1>1, <1>4 DEF BufFull, Return, AfterByte, SilenceInv, Behind, Handling
<1>5. CASE ReadBuf
  BY <1>1, <1>5 DEF ReadBuf, SilenceInv, Behind, Handling
<1>6. CASE Discard
  BY <1>1, <1>6 DEF Discard, Return, AfterByte, SilenceInv, Behind, Handling
<1> QED
  BY <1>2, <1>3, <1>4, <1>5, <1>6 DEF LoopStep

(* After a byte the counter is at most one.                                *)
LEMMA KeepSilence ==
    ASSUME ScanInv, SilenceInv, prog \in Timed, NEW w, Keep(w)
    PROVE  SilenceInv'
<1>1. counter \in 0..Limit /\ quiet \in 0..Limit /\ Limit \in Nat
  BY Facts DEF ScanInv, TypeOK
<1> QED
  BY <1>1 DEF Keep, Return, AfterByte, SilenceInv, Behind, Handling

(* Every step keeps the counter of idle seconds behind the silence.        *)
LEMMA NextSilence ==
    ScanInv /\ SilenceInv /\ [Next]_vars => SilenceInv'
<1> SUFFICES ASSUME ScanInv, SilenceInv, [Next]_vars, prog' \in Timed PROVE SilenceInv'
  BY DEF SilenceInv
<1>1. /\ counter \in 0..Limit /\ quiet \in 0..Limit /\ Limit \in Nat
      /\ prog \in Timed /\ Handling => counter < Limit
      /\ asked => prog = "poll"
  BY Facts DEF ScanInv, TypeOK, LoopInv
<1>2. CASE UNCHANGED vars
  BY <1>2 DEF vars, loopVars, kbdVars, flags, SilenceInv, Behind, Handling
<1>3. CASE Ticks
  BY <1>1, <1>3 DEF Ticks, TimerTicks, Running, kbdVars, flags, SilenceInv, Behind, Handling
<1>4. CASE DeviceSends
  <2>1. /\ pc # "done" /\ prog' = prog /\ pc' = pc /\ "device" \in pending'
    BY <1>4 DEF DeviceSends, KeyboardSends, MouseSends, Arrives, Running, Timed
  <2> QED
    BY <2>1 DEF SilenceInv, Handling
<1>5. CASE ControllerAnswers
  BY <1>1, <1>5 DEF ControllerAnswers, CommandAnswers, Timed
<1>6. CASE prog \in KeyboardPrograms /\ KbdProgram
  <2>1. CASE Poll \/ enable_interrupts
    BY <1>1, <2>1
       DEF Poll, enable_interrupts, AskCommand, GetCommand, PutCommand, Timed, ScanInv, LoopInv
  <2>2. CASE KbcHandle
    <3>1. \E w : Keep(w)
      BY <2>2 DEF KbcHandle
    <3>2. prog \in Timed
      BY <3>1 DEF Keep
    <3> QED
      BY <3>1, <3>2, KeepSilence
  <2>3. CASE LoopStep(KbdContinue) /\ UNCHANGED kbdVars
    <3>1. prog \in Timed
      BY <2>3 DEF LoopStep, Receive, Exit, BufFull, ReadBuf, Discard
    <3>2. ~KbdContinue /\ flagESC => counter >= Limit
      BY <1>1, <3>1, WaitsMeans DEF KbdContinue
    <3> QED
      BY <2>3, <3>1, <3>2, LoopSilence DEF kbdVars, flags
  <2> QED
    BY <1>6, <2>1, <2>2, <2>3 DEF KbdProgram, kbc_ih
<1>7. CASE prog \in MousePrograms /\ mouse_ih /\ UNCHANGED kbdVars
  <2>1. CASE MouseAssemble
    <3>1. \E w : Keep(w)
      BY <2>1 DEF MouseAssemble
    <3>2. prog \in Timed
      BY <3>1 DEF Keep
    <3> QED
      BY <3>1, <3>2, KeepSilence
  <2>2. CASE LoopStep(MouseContinue)
    <3>1. prog \in Timed
      BY <2>2 DEF LoopStep, Receive, Exit, BufFull, ReadBuf, Discard
    <3>2. ~MouseContinue => counter >= Limit
      BY <1>1, <3>1, WaitsMeans DEF MouseContinue, Timed
    <3> QED
      BY <1>7, <2>2, <3>1, <3>2, LoopSilence DEF kbdVars, flags
  <2> QED
    BY <1>7, <2>1, <2>2 DEF mouse_ih
<1> QED
  BY <1>2, <1>3, <1>4, <1>5, <1>6, <1>7 DEF Next, Program

(* kbd_test_timed_scan and mouse_test_async end for silence only after n   *)
(* seconds of it, but for one timer interrupt, or a byte too late to be    *)
(* seen; for every n and every rate of the timer.                          *)
THEOREM EndsOnlyForSilence == Spec => []EndsOnlyWhenIdle
<1>1. Init => SilenceInv
  BY DEF Init, LoopInit, SilenceInv, Behind, Handling
<1>2. ScanInv /\ SilenceInv => EndsOnlyWhenIdle
  BY Facts DEF ScanInv, TypeOK, SilenceInv, Behind, EndsOnlyWhenIdle
<1> QED
  BY <1>1, <1>2, NextSilence, ScanInvHolds, PTL DEF Spec

-----------------------------------------------------------------------------
(* The keyboard.  The loop is still receiving bytes.                       *)
Scanning == pc \in {"loop", "full", "read", "error"}

(* After a byte is handled, flag2Bytes fits the next one.                  *)
LEMMA KbcHandleSyncs ==
    ASSUME ScanInv, prog \in KeyboardPrograms, KeyOrder, KeyDebt, KbcHandle
    PROVE  KeyOrder' /\ KeyDebt'
<1>1. /\ pc = "error" /\ pc' = "loop" /\ ~err /\ byte \in KeyBytes
      /\ UNCHANGED <<obuf, err, faults, second>>
      /\ wrong \in Nat /\ faults \in Nat
  BY ScanAssumption DEF KbcHandle, Keep, Return, device, ScanInv, TypeOK, BytesInv
<1>2. KeyOrder'
  BY <1>1 DEF KeyOrder, Follows
<1>3. flag2Bytes' = (byte.code = "E0")
  BY DEF KbcHandle, Cleared2Bytes
<1>4. NextIsSecond' = (byte.sent = "E0")
  BY <1>1 DEF KeyOrder, Follows, NextIsSecond
<1>5. wrong' \in {wrong, wrong + 1} /\ ~err'
  BY DEF KbcHandle, Keep, device
<1>6. CASE Garbled(byte)
  <2>1. wrong + 2 =< 2 * faults
    BY <1>1, <1>6 DEF KeyDebt
  <2>2. wrong' =< 2 * faults' /\ wrong' + 1 =< 2 * faults'
    <3>1. CASE wrong' = wrong
      BY <1>1, <2>1, <3>1
    <3>2. CASE wrong' = wrong + 1
      BY <1>1, <2>1, <3>2
    <3> QED
      BY <1>5, <3>1, <3>2
  <2> QED
    BY <1>1, <1>2, <1>5, <2>2 DEF KeyDebt
<1>7. CASE ~Garbled(byte)
  <2>1. KeyInSync'
    BY <1>3, <1>4, <1>7 DEF KeyInSync, Garbled
  <2>2. KeyInSync => wrong' = wrong
    <3>1. CASE byte.code = "E0"
      BY <3>1 DEF KbcHandle, Keep
    <3>2. CASE byte.code # "E0"
      BY <1>1, <1>7, <3>2 DEF KbcHandle, Keep, KeyInSync, NextIsSecond, Garbled
    <3> QED
      BY <3>1, <3>2
  <2>3. wrong' =< 2 * faults
    BY <1>1, <1>5, <2>2 DEF KeyDebt
  <2> QED
    BY <1>1, <1>2, <1>5, <2>1, <2>3 DEF KeyDebt
<1> QED
  BY <1>6, <1>7

(* A byte arrives: if it is damaged it pays for what it may cost, and if   *)
(* not it is the one that flag2Bytes expects whenever the last one was.    *)
LEMMA KeySendsSyncs ==
    ASSUME ScanInv, prog \in KeyboardPrograms, KeyboardSends, KeyOrder, KeyDebt, Scanning
    PROVE  KeyOrder' /\ KeyDebt'
<1>1. PICK code \in KeyCodes \cup {"E0"}, sent \in KeyCodes \cup {"E0"}, bad \in BOOLEAN :
        /\ ~bad => code = sent
        /\ Arrives([code |-> code, sent |-> sent, two |-> second], bad)
        /\ second' = (sent = "E0")
  BY DEF KeyboardSends
<1>2. /\ obuf = NoByte /\ obuf' = [code |-> code, sent |-> sent, two |-> second] /\ err' = bad
      /\ faults' = IF bad THEN faults + 1 ELSE faults
      /\ UNCHANGED <<pc, byte, wrong, flag2Bytes>>
      /\ wrong \in Nat /\ faults \in Nat
      /\ second \in BOOLEAN
  BY <1>1, ScanAssumption DEF Arrives, KeyboardSends, flags, ScanInv, TypeOK
<1>3. [code |-> code, sent |-> sent, two |-> second] # NoByte
  BY <1>2, BytesAreBytes DEF KeyBytes
<1>4. obuf'.two = second /\ obuf'.code = code /\ obuf'.sent = sent /\ obuf' # NoByte
  BY <1>2, <1>3
<1>5. KeyOrder'
  BY <1>1, <1>2, <1>4 DEF KeyOrder, Follows, Garbled
<1>6. NextIsSecond' = NextIsSecond
  BY <1>2, <1>4 DEF NextIsSecond
<1>7. KeyInSync' <=> KeyInSync
  BY <1>2, <1>6 DEF KeyInSync
<1>8. KeyDebt'
  <2>1. CASE bad
    <3>1. faults' = faults + 1 /\ wrong =< 2 * faults
      BY <1>2, <2>1 DEF KeyDebt
    <3> QED
      BY <1>2, <3>1 DEF KeyDebt
  <2>2. CASE ~bad
    BY <1>2, <1>7, <2>2 DEF KeyDebt
  <2> QED
    BY <2>1, <2>2
<1> QED
  BY <1>5, <1>8

(* The accesses before: the byte only moves from the buffer to byte.       *)
LEMMA KeyLoopSyncs ==
    ASSUME ScanInv, prog \in KeyboardPrograms, NEW go, LoopStep(go), UNCHANGED kbdVars,
           KeyOrder, KeyDebt, pc' # "done"
    PROVE  KeyOrder' /\ KeyDebt'
<1> USE DEF kbdVars, flags, device
<1>1. CASE Receive(go) \/ BufFull
  <2>1. UNCHANGED <<obuf, byte, err, faults, wrong, second, flag2Bytes>> /\ pc # "error" /\ pc' # "error"
    BY <1>1 DEF Receive, BufFull, Return
  <2> QED
    BY <2>1 DEF KeyOrder, Follows, Garbled, KeyDebt, KeyInSync, NextIsSecond
<1>2. CASE ReadBuf
  <2>1. /\ pc = "read" /\ obuf # NoByte /\ byte' = obuf /\ obuf' = NoByte /\ pc' = "error"
        /\ UNCHANGED <<err, faults, wrong, second, flag2Bytes>>
    BY <1>2 DEF ReadBuf, ScanInv, BytesInv
  <2> QED
    <3>1. KeyOrder'
      BY <2>1 DEF KeyOrder, Follows
    <3>2. NextIsSecond' = NextIsSecond
      BY <2>1 DEF NextIsSecond
    <3>3. KeyInSync' <=> KeyInSync
      BY <2>1, <3>2 DEF KeyInSync
    <3>4. Garbled(byte') => err
      BY <2>1 DEF KeyOrder, Garbled
    <3> QED
      BY <2>1, <3>1, <3>3, <3>4 DEF KeyDebt
<1>3. CASE Discard
  <2>1. /\ pc' = "loop" /\ err /\ UNCHANGED <<obuf, err, faults, wrong, second, flag2Bytes>>
    BY <1>3 DEF Discard, Return
  <2>2. wrong \in Nat /\ faults \in Nat /\ wrong + 2 =< 2 * faults
    BY <2>1, ScanAssumption DEF ScanInv, TypeOK, KeyDebt
  <2>3. wrong =< 2 * faults /\ wrong + 1 =< 2 * faults
    BY <2>2
  <2> QED
    BY <2>1, <2>2, <2>3 DEF KeyOrder, Follows, KeyDebt
<1> QED
  BY <1>1, <1>2, <1>3 DEF LoopStep, Exit

(* Every step keeps the order of the scancodes and the debt of wrong ones. *)
LEMMA NextKey == ScanInv /\ KeyInv /\ [Next]_vars => KeyInv'
<1> SUFFICES ASSUME ScanInv, KeyInv, [Next]_vars, prog' \in KeyboardPrograms PROVE KeyInv'
  BY DEF KeyInv
<1>1. wrong \in Nat /\ faults \in Nat
  BY ScanAssumption DEF ScanInv, TypeOK
<1>2. CASE UNCHANGED vars
  BY <1>2 DEF vars, loopVars, device, kbdVars, flags, KeyInv, KeyOrder, Follows, KeyDebt,
              KeyInSync, NextIsSecond
<1>3. CASE Ticks
  BY <1>3 DEF Ticks, TimerTicks, device, kbdVars, flags, KeyInv, KeyOrder, Follows, KeyDebt,
              KeyInSync, NextIsSecond
<1>4. CASE ControllerAnswers
  <2>1. pc' \in {"get", "put", "done"} /\ UNCHANGED <<wrong, faults, prog>>
    BY <1>4 DEF ControllerAnswers, CommandAnswers, ScanInv, LoopInv
  <2> QED
    BY <2>1 DEF KeyInv
<1>5. CASE DeviceSends
  <2>1. prog' = prog /\ wrong' = wrong /\ pc' = pc /\ faults' \in {faults, faults + 1}
    BY <1>5 DEF DeviceSends, KeyboardSends, MouseSends, Arrives
  <2>2. KeyboardSends
    BY <1>5, <2>1, Facts DEF DeviceSends
  <2>3. wrong' =< 2 * faults'
    <3>1. wrong =< 2 * faults
      BY <2>1 DEF KeyInv
    <3>2. CASE faults' = faults
      BY <2>1, <3>1, <3>2
    <3>3. CASE faults' = faults + 1
      BY <1>1, <2>1, <3>1, <3>3
    <3> QED
      BY <2>1, <3>2, <3>3
  <2>4. CASE Scanning
    BY <2>1, <2>2, <2>3, <2>4, KeySendsSyncs DEF KeyInv, Scanning
  <2>5. CASE ~Scanning
    BY <2>1, <2>3, <2>5 DEF KeyInv, Scanning
  <2> QED
    BY <2>4, <2>5
<1>6. CASE prog \in MousePrograms /\ mouse_ih
  <2>1. prog' = prog
    BY <1>6 DEF mouse_ih, MouseAssemble, Keep, LoopStep, Receive, Exit, BufFull, ReadBuf, Discard
  <2> QED
    BY <1>6, <2>1, Facts
<1>7. CASE prog \in KeyboardPrograms /\ KbdProgram
  <2>1. CASE Poll
    BY <1>7, <2>1 DEF Poll, device, kbdVars, flags, KeyInv, KeyOrder, Follows, KeyDebt,
                      KeyInSync, NextIsSecond
  <2>2. CASE KbcHandle
    <3>1. pc = "error" /\ pc' = "loop" /\ prog' = prog
      BY <2>2 DEF KbcHandle, Keep, Return
    <3>2. KeyOrder' /\ KeyDebt'
      BY <1>7, <2>2, <3>1, KbcHandleSyncs DEF KeyInv
    <3> QED
      BY <3>1, <3>2 DEF KeyInv, KeyDebt
  <2>3. CASE LoopStep(KbdContinue) /\ UNCHANGED kbdVars
    <3>1. UNCHANGED <<prog, wrong, faults>> /\ Scanning
      BY <2>3 DEF LoopStep, Receive, Exit, BufFull, ReadBuf, Discard, device, Scanning
    <3>2. pc' # "done" => KeyOrder' /\ KeyDebt'
      BY <1>7, <2>3, <3>1, KeyLoopSyncs DEF KeyInv, Scanning
    <3> QED
      BY <1>7, <3>1, <3>2 DEF KeyInv
  <2>4. CASE enable_interrupts
    <3>1. UNCHANGED <<prog, wrong, faults>> /\ pc' \in {"get", "put", "done"}
      BY <2>4 DEF enable_interrupts, AskCommand, GetCommand, PutCommand, device
    <3> QED
      BY <1>7, <3>1 DEF KeyInv
  <2> QED
    BY <1>7, <2>1, <2>2, <2>3, <2>4 DEF KbdProgram, kbc_ih
<1> QED
  BY <1>2, <1>3, <1>4, <1>5, <1>6, <1>7 DEF Next, Program

(* A wrong scancode has been paid for by a fault, in every state.          *)
LEMMA KeyInvHolds == Spec => []KeyInv
<1>1. Init => KeyInv
  <2> SUFFICES ASSUME Init PROVE KeyInv
    OBVIOUS
  <2>1. KeyInSync /\ ~err
    BY DEF Init, LoopInit, KbdInit, KeyInSync, NextIsSecond
  <2>2. wrong =< 2 * faults /\ pc # "error" /\ obuf = NoByte
    BY DEF Init, LoopInit
  <2> QED
    BY <2>1, <2>2 DEF KeyInv, KeyOrder, KeyDebt
<1> QED
  BY <1>1, NextKey, ScanInvHolds, PTL DEF Spec

-----------------------------------------------------------------------------
(* The mouse: the places of its bytes.                                     *)
LEMMA Places ==
    ASSUME NEW b \in MouseBytes
    PROVE  b.pos \in 0..2 /\ b.packet \in 0..1 /\ b.bit3 \in BOOLEAN /\ b.intact \in BOOLEAN
BY DEF MouseBytes

(* The lengths of arr between two bytes.                                   *)
LEMMA ArrLengths ==
    ASSUME NEW a \in Seq(MouseBytes), Len(a) =< 2
    PROVE  Len(a) \in {0, 1, 2} /\ (Len(a) = 0 <=> a = << >>)
<1>1. Len(a) \in Nat
  OBVIOUS
<1>2. Len(a) = 0 => a = << >>
  OBVIOUS
<1>3. a = << >> => Len(a) = 0
  OBVIOUS
<1>4. \A k \in Nat : k =< 2 => k \in {0, 1, 2}
  OBVIOUS
<1> QED
  BY <1>1, <1>2, <1>3, <1>4, Zenon

(* arr after one more byte, for each length it can have.                   *)
LEMMA AppendThird ==
    ASSUME NEW a \in Seq(MouseBytes), NEW b \in MouseBytes
    PROVE  /\ Len(a) = 0 => Len(Append(a, b)) = 1 /\ Append(a, b)[1] = b
           /\ Len(a) = 1 =>
                Len(Append(a, b)) = 2 /\ Append(a, b)[1] = a[1] /\ Append(a, b)[2] = b
           /\ Len(a) = 2 =>
                /\ Append(a, b)[1] = a[1] /\ Append(a, b)[2] = a[2]
                /\ Append(a, b)[3] = b
<1> DEFINE c == Append(a, b)
<1>1. /\ Len(c) = Len(a) + 1
      /\ \A i \in 1..Len(a) : c[i] = a[i]
      /\ c[Len(a) + 1] = b
  BY AppendBytes
<1> HIDE DEF c
<1>2. Len(a) = 0 => Len(c) = 1 /\ c[1] = b
  BY <1>1
<1>3. Len(a) = 1 => Len(c) = 2 /\ c[1] = a[1] /\ c[2] = b
  BY <1>1
<1>4. Len(a) = 2 => c[1] = a[1] /\ c[2] = a[2] /\ c[3] = b
  BY <1>1
<1> QED
  BY <1>2, <1>3, <1>4 DEF c

(* What mouse_ih does with an intact byte that continues what is in arr.   *)
LEMMA AssembleInSync ==
    ASSUME ScanInv, prog \in MousePrograms, MouseAssemble, MouseOrder, MouseInSync,
           byte.intact, arr = << >> => ~Misleads(byte)
    PROVE  MouseInSync' /\ wrong' = wrong
<1>1. /\ pc = "error" /\ pc' = "loop" /\ byte \in MouseBytes
      /\ arr \in Seq(MouseBytes) /\ Len(arr) \in {0, 1, 2} /\ (Len(arr) = 0 <=> arr = << >>)
      /\ UNCHANGED <<obuf, pos, packet>>
      /\ byte.pos \in 0..2 /\ byte.packet \in 0..1
  <2>1. pc = "error" /\ pc' = "loop" /\ UNCHANGED <<obuf, pos, packet>>
    BY DEF MouseAssemble, Keep, Return, device
  <2>2. byte \in MouseBytes /\ arr \in Seq(MouseBytes) /\ Len(arr) =< 2
    BY <2>1 DEF ScanInv, TypeOK, BytesInv
  <2> QED
    BY <2>1, <2>2, Places, ArrLengths
<1>2. NextPlace' = After(Place(byte))
  BY <1>1 DEF MouseOrder, NextPlace
<1>3. CASE arr = << >> /\ ~Starts(byte)
  BY <1>1, <1>3 DEF MouseAssemble, Keep, MouseInSync
<1>4. CASE Len(arr) < 2 /\ (arr # << >> \/ Starts(byte))
  <2>1. arr' = Append(arr, byte) /\ wrong' = wrong
    <3>1. \A k \in {0, 1, 2} : k < 2 => k # 2
      OBVIOUS
    <3>2. Len(arr) # 2
      BY <1>1, <1>4, <3>1, Zenon
    <3> QED
      BY <1>4, <3>2 DEF MouseAssemble, Keep
  <2>2. CASE arr = << >>
    <3>1. byte.pos = 0
      BY <1>1, <1>4, <2>2 DEF Misleads, Starts
    <3>2. Len(arr') = 1 /\ arr'[1] = byte
      BY <1>1, <2>1, <2>2, AppendThird
    <3>3. Place(byte) = <<byte.packet, 0>> /\ NextPlace' = <<byte.packet, 1>>
      BY <1>2, <3>1 DEF Place, After
    <3> QED
      BY <2>1, <3>2, <3>3 DEF MouseInSync
  <2>3. CASE Len(arr) = 1
    <3>1. /\ Len(arr') = 2 /\ arr'[1] = arr[1] /\ arr'[2] = byte
      BY <1>1, <2>1, <2>3, AppendThird
    <3>2. Place(byte) = <<arr[1].packet, 1>> /\ Place(arr[1]) = <<arr[1].packet, 0>>
      BY <1>1, <2>3 DEF MouseInSync, NextPlace
    <3>3. NextPlace' = <<arr[1].packet, 2>>
      BY <1>2, <3>2 DEF After
    <3> QED
      BY <2>1, <3>1, <3>2, <3>3 DEF MouseInSync
  <2>4. Len(arr) = 0 \/ Len(arr) = 1
    <3>1. \A k \in {0, 1, 2} : k < 2 => k = 0 \/ k = 1
      OBVIOUS
    <3> QED
      BY <1>1, <1>4, <3>1, Zenon
  <2> QED
    BY <1>1, <2>2, <2>3, <2>4, Zenon
<1>5. CASE Len(arr) = 2
  <2>1. arr' = << >> /\ Keep(~IsPacket(Append(arr, byte)))
    <3>1. arr # << >> /\ ~(Len(arr) < 2)
      BY <1>1, <1>5
    <3> QED
      BY <3>1 DEF MouseAssemble
  <2>2. /\ Append(arr, byte)[1] = arr[1] /\ Append(arr, byte)[2] = arr[2]
        /\ Append(arr, byte)[3] = byte
    BY <1>1, <1>5, AppendThird
  <2>3. /\ Place(byte) = <<arr[1].packet, 2>>
        /\ Place(arr[1]) = <<arr[1].packet, 0>> /\ Place(arr[2]) = <<arr[1].packet, 1>>
        /\ arr[1].intact /\ arr[2].intact
    BY <1>1, <1>5 DEF MouseInSync, NextPlace
  <2>4. IsPacket(Append(arr, byte))
    <3> DEFINE c == Append(arr, byte)
    <3>1. /\ c[1].intact /\ c[1].pos = 0
          /\ c[2].intact /\ c[2].pos = 1 /\ c[2].packet = c[1].packet
          /\ c[3].intact /\ c[3].pos = 2 /\ c[3].packet = c[1].packet
      BY <2>2, <2>3 DEF Place
    <3>2. \A i \in 1..3 : i = 1 \/ i = 2 \/ i = 3
      OBVIOUS
    <3> HIDE DEF c
    <3>3. \A i \in 1..3 : c[i].intact /\ c[i].pos = i - 1 /\ c[i].packet = c[1].packet
      <4> SUFFICES ASSUME NEW i \in 1..3
                   PROVE  c[i].intact /\ c[i].pos = i - 1 /\ c[i].packet = c[1].packet
        OBVIOUS
      <4>1. CASE i = 1
        BY <3>1, <4>1
      <4>2. CASE i = 2
        BY <3>1, <4>2
      <4>3. CASE i = 3
        BY <3>1, <4>3
      <4> QED
        BY <3>2, <4>1, <4>2, <4>3
    <3> QED
      BY <3>3 DEF c, IsPacket
  <2> QED
    BY <2>1, <2>4 DEF Keep, MouseInSync
<1>6. Len(arr) < 2 \/ Len(arr) = 2
  <2>1. \A k \in {0, 1, 2} : k < 2 \/ k = 2
    OBVIOUS
  <2> QED
    BY <1>1, <2>1, Zenon
<1> QED
  BY <1>3, <1>4, <1>5, <1>6, Zenon

(* With or without it, what is printed wrong empties arr.                  *)
LEMMA AssembleSyncs ==
    ASSUME ScanInv, prog \in MousePrograms, MouseAssemble, MouseOrder, MouseDebt
    PROVE  MouseOrder' /\ MouseDebt'
<1>1. /\ pc = "error" /\ pc' = "loop" /\ ~err /\ ~err'
      /\ UNCHANGED <<obuf, faults, pos, packet, marked>>
      /\ wrong \in Nat /\ faults \in Nat /\ marked \in Nat
      /\ wrong' = wrong \/ (arr' = << >> /\ wrong' = wrong + 1)
      /\ byte.intact \in BOOLEAN
  <2>1. /\ pc = "error" /\ pc' = "loop" /\ ~err /\ ~err'
        /\ UNCHANGED <<obuf, faults, pos, packet, marked>>
        /\ wrong' = wrong \/ (arr' = << >> /\ wrong' = wrong + 1)
    BY DEF MouseAssemble, Keep, Return, device
  <2>2. byte \in MouseBytes /\ wrong \in Nat /\ faults \in Nat /\ marked \in Nat
    BY <2>1, ScanAssumption, MouseScanAssumption DEF ScanInv, TypeOK, BytesInv
  <2> QED
    BY <2>1, <2>2, Places
<1>2. MouseOrder'
  BY <1>1 DEF MouseOrder
<1>3. arr' = << >> => MouseInSync'
  BY DEF MouseInSync
<1> DEFINE A == Count(obuf # NoByte /\ Misleads(obuf))
           B == Count(Misleads(byte))
           T == Count(Trouble)
<1>4. ToMislead = A + B /\ ToMislead' = A /\ A \in Nat /\ B \in Nat /\ T \in {0, 1} /\ T' \in {0, 1}
  BY <1>1 DEF ToMislead, Count
<1>5. (Trouble' => ~MouseInSync') /\ (~Trouble => byte.intact /\ MouseInSync)
  BY <1>1 DEF Trouble
<1>6. T' = 1 => wrong' = wrong
  BY <1>1, <1>3, <1>5 DEF Count
<1>7. T = 1 => wrong' + T' =< wrong + 1
  BY <1>1, <1>4, <1>6
<1>8. T = 0 => wrong' + T' =< wrong + B
  <2> SUFFICES ASSUME T = 0 PROVE wrong' + T' =< wrong + B
    OBVIOUS
  <2>1. byte.intact /\ MouseInSync
    BY <1>5 DEF Count
  <2>2. CASE arr = << >> => ~Misleads(byte)
    <3>1. MouseInSync' /\ wrong' = wrong
      BY <2>1, <2>2, AssembleInSync
    <3>2. T' = 0
      BY <1>5, <3>1 DEF Count
    <3> QED
      BY <1>1, <1>4, <3>1, <3>2
  <2>3. CASE arr = << >> /\ Misleads(byte)
    <3>1. B = 1
      BY <2>3 DEF Count
    <3>2. wrong' = wrong
      BY <2>3 DEF MouseAssemble, Keep
    <3> QED
      BY <1>1, <1>4, <3>1, <3>2
  <2> QED
    BY <2>2, <2>3
<1>9. MouseDebt'
  <2>1. wrong + (A + B) + T =< faults + marked
    BY <1>4 DEF MouseDebt
  <2>2. wrong' + T' =< wrong + T + B
    BY <1>1, <1>4, <1>7, <1>8
  <2>3. wrong' \in Nat
    BY <1>1
  <2> HIDE DEF A, B, T
  <2>4. wrong' + A + T' =< faults + marked
    <3>1. \A w, v, a, b, s, u \in Int, m \in Int :
            v + u =< w + s + b /\ w + (a + b) + s =< m => v + a + u =< m
      OBVIOUS
    <3>2. wrong \in Int /\ wrong' \in Int /\ A \in Int /\ B \in Int /\ T \in Int /\ T' \in Int
      BY <1>1, <1>4, <2>3
    <3>3. faults + marked \in Int
      BY <1>1
    <3> QED
      BY <2>1, <2>2, <3>1, <3>2, <3>3, Zenon
  <2> QED
    BY <1>1, <1>4, <2>4 DEF MouseDebt, T
<1> QED
  BY <1>2, <1>9

(* Without damaged bytes, each byte is taken for what it is.               *)
LEMMA AssembleStaysClean ==
    ASSUME ScanInv, prog \in MousePrograms, MouseAssemble, MouseOrder, MouseClean
    PROVE  MouseClean'
<1> SUFFICES ASSUME faults' = 0
             PROVE  /\ wrong' = 0 /\ ~err' /\ MouseInSync' /\ NextPlace'[2] = Len(arr')
                    /\ obuf' # NoByte => FirstMarked(obuf')
                    /\ pc' # "error"
  BY DEF MouseClean
<1>1. /\ pc = "error" /\ pc' = "loop" /\ ~err' /\ byte \in MouseBytes
      /\ UNCHANGED <<obuf, faults, pos, packet>>
      /\ arr \in Seq(MouseBytes) /\ Len(arr) =< 2
  BY DEF MouseAssemble, Keep, Return, device, ScanInv, TypeOK, BytesInv
<1>2. /\ wrong = 0 /\ MouseInSync /\ NextPlace[2] = Len(arr)
      /\ FirstMarked(byte) /\ (obuf # NoByte => FirstMarked(obuf))
  BY <1>1 DEF MouseClean
<1>3. byte.pos = Len(arr) /\ byte.pos \in 0..2
  BY <1>1, <1>2, Places DEF NextPlace, Place
<1>4. Len(arr) \in {0, 1, 2} /\ (Len(arr) = 0 <=> arr = << >>)
  BY <1>1, ArrLengths
<1>5. arr = << >> => ~Misleads(byte) /\ Starts(byte)
  BY <1>2, <1>3, <1>4 DEF Misleads, FirstMarked, Starts
<1>6. MouseInSync' /\ wrong' = 0
  BY <1>2, <1>5, AssembleInSync DEF FirstMarked
<1>7. NextPlace' = After(Place(byte))
  BY <1>1 DEF MouseOrder, NextPlace
<1>8. NextPlace'[2] = IF byte.pos = 2 THEN 0 ELSE byte.pos + 1
  BY <1>7 DEF After, Place
<1>9. CASE Len(arr) = 2
  <2>1. arr' = << >>
    <3>1. arr # << >> /\ ~(Len(arr) < 2)
      BY <1>4, <1>9
    <3> QED
      BY <3>1 DEF MouseAssemble
  <2> QED
    BY <1>1, <1>2, <1>3, <1>6, <1>8, <1>9, <2>1
<1>10. CASE Len(arr) < 2
  <2>1. arr' = Append(arr, byte)
    <3>1. Len(arr) # 2
      BY <1>4, <1>10
    <3> QED
      BY <1>5, <3>1 DEF MouseAssemble
  <2>2. Len(arr') = Len(arr) + 1
    BY <1>1, <2>1, AppendBytes
  <2>3. byte.pos # 2 /\ NextPlace'[2] = Len(arr')
    BY <1>3, <1>8, <1>10, <2>2
  <2> QED
    BY <1>1, <1>2, <1>6, <2>3
<1> QED
  BY <1>4, <1>9, <1>10

(* A byte arrives.                                                         *)
LEMMA MouseSendsSyncs ==
    ASSUME ScanInv, prog \in MousePrograms, MouseSends, MouseOrder, MouseDebt, MouseClean
    PROVE  MouseOrder' /\ MouseDebt' /\ MouseClean'
<1>1. PICK bit3 \in BOOLEAN, bad \in BOOLEAN :
        /\ ~bad /\ pos = 0 => bit3
        /\ Arrives([code |-> "data", pos |-> pos, packet |-> packet, bit3 |-> bit3,
                    intact |-> ~bad], bad)
        /\ marked' = IF ~bad /\ pos # 0 /\ bit3 THEN marked + 1 ELSE marked
  BY DEF MouseSends
<1> DEFINE b == [code |-> "data", pos |-> pos, packet |-> packet, bit3 |-> bit3,
                 intact |-> ~bad]
<1>2. /\ obuf = NoByte /\ obuf' = b /\ err' = bad
      /\ faults' = IF bad THEN faults + 1 ELSE faults
      /\ UNCHANGED <<pc, byte, wrong, arr>>
      /\ wrong \in Nat /\ faults \in Nat /\ marked \in Nat
      /\ pos \in 0..2 /\ packet \in 0..1
  BY <1>1, ScanAssumption, MouseScanAssumption DEF Arrives, MouseSends, ScanInv, TypeOK
<1>4. b \in MouseBytes /\ b # NoByte
  BY <1>2, BytesAreBytes DEF MouseBytes
<1>5. /\ obuf' # NoByte /\ obuf'.intact = ~bad /\ obuf'.pos = pos /\ obuf'.bit3 = bit3
  BY <1>2, <1>4
<1>6. Place(obuf') = <<packet, pos>>
  BY <1>2, <1>4 DEF Place
<1>7. After(<<packet, pos>>) = <<packet', pos'>>
  BY <1>2 DEF After, MouseSends
<1>8. MouseOrder'
  BY <1>2, <1>5, <1>6, <1>7 DEF MouseOrder, Place
<1>9. NextPlace' = NextPlace
  BY <1>2, <1>5, <1>6 DEF NextPlace, Place
<1>10. MouseInSync' <=> MouseInSync
  BY <1>2, <1>9 DEF MouseInSync
<1>11. MouseDebt'
  <2> DEFINE B == Count(pc = "error" /\ Misleads(byte))
             M == Count(~bad /\ pos # 0 /\ bit3)
             T == Count(Trouble)
  <2>1. ToMislead = B /\ ToMislead' = M + B /\ marked' = marked + M
    <3>1. Misleads(obuf') <=> ~bad /\ pos # 0 /\ bit3
      BY <1>5 DEF Misleads
    <3>2. Count(obuf # NoByte /\ Misleads(obuf)) = 0
      BY <1>2 DEF Count
    <3>3. Count(obuf' # NoByte /\ Misleads(obuf')) = M
      BY <1>5, <3>1 DEF Count
    <3>4. B' = B /\ B \in Nat /\ M \in Nat
      BY <1>2 DEF Count
    <3>5. marked' = marked + M
      BY <1>1, <1>2 DEF Count
    <3> QED
      BY <3>2, <3>3, <3>4, <3>5 DEF ToMislead
  <2>2. B \in Nat /\ M \in Nat /\ T \in {0, 1} /\ T' \in {0, 1}
    BY DEF Count
  <2>3. bad => faults' = faults + 1
    BY <1>2
  <2>4. ~bad => faults' = faults /\ T' =< T
    <3>1. ~bad => (Trouble' => Trouble)
      BY <1>2, <1>10 DEF Trouble
    <3> QED
      BY <1>2, <3>1 DEF Count
  <2>5. wrong + B + T =< faults + marked
    BY <2>1 DEF MouseDebt
  <2> HIDE DEF B, M, T
  <2>6. wrong' + (M + B) + T' =< faults' + (marked + M)
    <3>1. wrong' = wrong /\ wrong \in Int /\ faults \in Int /\ marked \in Int /\ B \in Int /\ M \in Int
      BY <1>2, <2>2
    <3>2. T' \in Int /\ T \in Int /\ T' =< T + 1
      BY <2>2
    <3>3. \A w, k, f, m, l, s, u \in Int :
            /\ w + l + s =< f + m /\ u =< s => w + (k + l) + u =< f + (m + k)
            /\ w + l + s =< f + m /\ u =< s + 1 => w + (k + l) + u =< (f + 1) + (m + k)
      OBVIOUS
    <3>4. CASE bad
      BY <2>3, <2>5, <3>1, <3>2, <3>3, <3>4, Zenon
    <3>5. CASE ~bad
      BY <2>4, <2>5, <3>1, <3>2, <3>3, <3>5, Zenon
    <3> QED
      BY <3>4, <3>5
  <2> QED
    BY <2>1, <2>6 DEF MouseDebt, T
<1>12. MouseClean'
  <2> SUFFICES ASSUME faults' = 0
               PROVE  /\ wrong' = 0 /\ ~err' /\ MouseInSync' /\ NextPlace'[2] = Len(arr')
                      /\ FirstMarked(obuf')
                      /\ pc' = "error" => FirstMarked(byte')
    BY DEF MouseClean
  <2>1. ~bad /\ faults = 0
    BY <1>2
  <2>2. FirstMarked(obuf')
    BY <1>1, <1>5, <2>1 DEF FirstMarked
  <2> QED
    BY <1>2, <1>9, <1>10, <2>1, <2>2 DEF MouseClean
<1> QED
  BY <1>8, <1>11, <1>12

(* A debt that shrinks stays paid for.                                     *)
LEMMA LessOwing ==
    \A w, a, b, f, m \in Nat :
        a =< b => /\ \A c \in Nat : w + c + b =< f + m => w + c + a =< f + m
                  /\ w + b + 1 =< f + m => w + a + 1 =< f + m
OBVIOUS

(* The accesses before: the byte only moves from the buffer to byte.       *)
LEMMA MouseLoopSyncs ==
    ASSUME ScanInv, prog \in MousePrograms, NEW go, LoopStep(go), UNCHANGED mouseVars,
           MouseOrder, MouseDebt, MouseClean
    PROVE  MouseOrder' /\ MouseDebt' /\ MouseClean'
<1> USE DEF mouseVars, device
<1>0. wrong \in Nat /\ faults \in Nat /\ marked \in Nat
  BY ScanAssumption, MouseScanAssumption DEF ScanInv, TypeOK
<1>1. CASE Receive(go) \/ BufFull \/ Exit(go)
  <2>1. /\ UNCHANGED <<obuf, byte, err, faults, wrong, pos, packet, marked, arr>>
        /\ pc # "error" /\ pc' # "error"
    BY <1>1 DEF Receive, BufFull, Exit, Return
  <2>2. NextPlace' = NextPlace
    BY <2>1 DEF NextPlace
  <2>3. MouseInSync' <=> MouseInSync
    BY <2>1, <2>2 DEF MouseInSync
  <2>4. Trouble' <=> Trouble
    BY <2>1, <2>3 DEF Trouble
  <2>5. Count(Trouble)' = Count(Trouble) /\ ToMislead' = ToMislead
    BY <2>1, <2>4 DEF Count, ToMislead
  <2> QED
    BY <2>1, <2>2, <2>3, <2>5 DEF MouseOrder, MouseDebt, MouseClean
<1>2. CASE ReadBuf
  <2>1. /\ pc = "read" /\ obuf # NoByte /\ byte' = obuf /\ obuf' = NoByte /\ pc' = "error"
        /\ UNCHANGED <<err, faults, wrong, pos, packet, marked, arr>>
    BY <1>2 DEF ReadBuf, ScanInv, BytesInv
  <2>2. NextPlace' = NextPlace
    BY <2>1 DEF NextPlace, Place
  <2>3. MouseInSync' <=> MouseInSync
    BY <2>1, <2>2 DEF MouseInSync
  <2>4. MouseOrder'
    BY <2>1 DEF MouseOrder, Place
  <2>5. Trouble' => Trouble
    BY <2>1, <2>3 DEF Trouble, MouseOrder
  <2>6. Count(Trouble)' =< Count(Trouble) /\ Count(Trouble) \in Nat /\ Count(Trouble)' \in Nat
    BY <2>5 DEF Count
  <2>7. ToMislead' = ToMislead /\ ToMislead \in Nat
    BY <2>1 DEF Count, ToMislead, Misleads
  <2>8. MouseDebt'
    <3> DEFINE S == Count(Trouble)
    <3>1. wrong + ToMislead + S =< faults + marked /\ S \in Nat /\ S' \in Nat /\ S' =< S
      BY <2>6 DEF MouseDebt
    <3> HIDE DEF S
    <3>2. wrong + ToMislead + S' =< faults + marked
      BY <1>0, <2>7, <3>1, LessOwing
    <3> QED
      BY <2>1, <2>7, <3>2 DEF MouseDebt, S
  <2> QED
    BY <2>1, <2>2, <2>3, <2>4, <2>8 DEF MouseClean, FirstMarked
<1>3. CASE Discard
  <2>1. /\ pc = "error" /\ pc' = "loop" /\ err
        /\ UNCHANGED <<obuf, err, faults, wrong, pos, packet, marked, arr>>
    BY <1>3 DEF Discard, Return
  <2>2. Trouble /\ Trouble'
    BY <2>1 DEF Trouble
  <2>3. Count(Trouble) = 1 /\ Count(Trouble)' = 1
    BY <2>2 DEF Count
  <2>4. ToMislead' =< ToMislead /\ ToMislead \in Nat /\ ToMislead' \in Nat
    BY <2>1 DEF ToMislead, Count
  <2>5. MouseDebt'
    <3>1. wrong + ToMislead + 1 =< faults + marked
      BY <2>3 DEF MouseDebt
    <3> DEFINE A == ToMislead
    <3>2. A \in Nat /\ A' \in Nat /\ A' =< A /\ wrong + A + 1 =< faults + marked
      BY <2>4, <3>1
    <3> HIDE DEF A
    <3>3. wrong + A' + 1 =< faults + marked
      BY <1>0, <3>2, LessOwing
    <3> QED
      BY <2>1, <2>3, <3>3 DEF MouseDebt, A
  <2>6. faults # 0
    BY <2>1 DEF MouseClean
  <2> QED
    BY <2>1, <2>5, <2>6 DEF MouseOrder, MouseClean
<1> QED
  BY <1>1, <1>2, <1>3 DEF LoopStep

(* Every step keeps the order of the bytes and the debt of wrong packets.  *)
LEMMA NextMouse == ScanInv /\ MouseInv /\ [Next]_vars => MouseInv'
<1> SUFFICES ASSUME ScanInv, MouseInv, [Next]_vars, prog' \in MousePrograms PROVE MouseInv'
  BY DEF MouseInv
<1>1. CASE UNCHANGED <<prog, obuf, err, faults, pc, byte, wrong, mouseVars>>
  <2>1. NextPlace' = NextPlace /\ (MouseInSync' <=> MouseInSync)
    BY <1>1 DEF MouseInSync, NextPlace, mouseVars
  <2>2. ToMislead' = ToMislead /\ Count(Trouble)' = Count(Trouble)
    BY <1>1, <2>1 DEF ToMislead, Trouble, Count
  <2> QED
    BY <1>1, <2>1, <2>2 DEF MouseInv, MouseOrder, MouseDebt, MouseClean, mouseVars
<1>2. CASE UNCHANGED vars \/ Ticks
  BY <1>1, <1>2 DEF vars, loopVars, device, Ticks, TimerTicks
<1>3. CASE ControllerAnswers
  <2>1. prog = "poll" /\ prog' = prog
    BY <1>3 DEF ControllerAnswers, CommandAnswers, ScanInv, LoopInv
  <2> QED
    BY <2>1 DEF MousePrograms
<1>4. CASE DeviceSends
  <2>1. prog' = prog
    BY <1>4 DEF DeviceSends, KeyboardSends, MouseSends, Arrives
  <2>2. MouseSends
    BY <1>4, <2>1, Facts DEF DeviceSends
  <2> QED
    BY <2>1, <2>2, MouseSendsSyncs DEF MouseInv
<1>5. CASE prog \in KeyboardPrograms /\ KbdProgram
  <2>1. prog' = prog
    BY <1>5 DEF KbdProgram, kbc_ih, enable_interrupts, Poll, KbcHandle, Keep, LoopStep,
                Receive, Exit, BufFull, ReadBuf, Discard, AskCommand, GetCommand, PutCommand
  <2> QED
    BY <1>5, <2>1, Facts
<1>6. CASE prog \in MousePrograms /\ mouse_ih
  <2>1. CASE MouseAssemble
    <3>1. prog' = prog
      BY <2>1 DEF MouseAssemble, Keep
    <3> QED
      BY <1>6, <2>1, <3>1, AssembleSyncs, AssembleStaysClean DEF MouseInv
  <2>2. CASE LoopStep(MouseContinue) /\ UNCHANGED mouseVars
    BY <1>6, <2>2, MouseLoopSyncs DEF MouseInv
  <2> QED
    BY <1>6, <2>1, <2>2 DEF mouse_ih
<1> QED
  BY <1>2, <1>3, <1>4, <1>5, <1>6 DEF Next, Program

(* A wrong packet has been paid for, in every state.                       *)
LEMMA MouseInvHolds == Spec => []MouseInv
<1>1. Init => MouseInv
  <2> SUFFICES ASSUME Init PROVE MouseInv
    OBVIOUS
  <2>1. /\ arr = << >> /\ pc # "error" /\ obuf = NoByte /\ ~err
        /\ wrong = 0 /\ faults = 0 /\ marked = 0 /\ pos = 0
    BY DEF Init, LoopInit, MouseInit
  <2>2. MouseInSync
    BY <2>1 DEF MouseInSync
  <2>3. ~Trouble
    BY <2>1, <2>2 DEF Trouble
  <2>4. Count(Trouble) = 0 /\ ToMislead = 0
    BY <2>1, <2>3 DEF ToMislead, Count
  <2>5. NextPlace[2] = Len(arr)
    BY <2>1 DEF NextPlace
  <2> QED
    BY <2>1, <2>2, <2>4, <2>5 DEF MouseInv, MouseOrder, MouseDebt, MouseClean
<1> QED
  BY <1>1, NextMouse, ScanInvHolds, PTL DEF Spec

(* However many bytes are damaged, whatever they are received as, and      *)
(* whether they are recognised in time or not: of the scancodes at most    *)
(* two for each are wrong, and of the packets none before the first and at *)
(* most one for each of them and for each data byte with bit 3.            *)
THEOREM WrongIsPaidFor == Spec => []FaultsBoundWrongs
<1>1. ScanInv /\ KeyInv /\ MouseInv => FaultsBoundWrongs
  <2> SUFFICES ASSUME ScanInv, KeyInv, MouseInv PROVE FaultsBoundWrongs
    OBVIOUS
  <2>1. CASE prog \in KeyboardPrograms
    BY <2>1 DEF KeyInv, FaultsBoundWrongs
  <2>2. CASE prog \notin KeyboardPrograms
    <3>1. MouseDebt /\ MouseClean
      BY <2>2 DEF ScanInv, LoopInv, MouseInv
    <3>2. ToMislead \in Nat /\ Count(Trouble) \in Nat
      BY DEF ToMislead, Count
    <3>3. wrong \in Nat /\ faults \in Nat /\ marked \in Nat
      BY ScanAssumption, MouseScanAssumption DEF ScanInv, TypeOK
    <3> QED
      BY <2>2, <3>1, <3>2, <3>3 DEF MouseDebt, MouseClean, FaultsBoundWrongs
  <2> QED
    BY <2>1, <2>2
<1> QED
  BY <1>1, ScanInvHolds, KeyInvHolds, MouseInvHolds, PTL
=============================================================================
