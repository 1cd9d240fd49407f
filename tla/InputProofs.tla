---------------------------- MODULE InputProofs -----------------------------
(***************************************************************************)
(* What the byte level of the input guarantees for every set of scancodes  *)
(* and any number of disturbances: no write behind arr, no byte left in    *)
(* the controller's buffer, no byte of the mouse taken for a key, and no   *)
(* more packets put together wrongly than disturbances and data bytes that *)
(* look like first bytes.                                                  *)
(***************************************************************************)
EXTENDS InputPath, TLAPS

(* The status bits describe the byte in the buffer, and a handler that has *)
(* seen a full buffer finds it full: nobody else reads it.  driver_receive *)
(* is called when no handler of the last message is left.                  *)
BufferSeen ==
    /\ obuf # NoByte => obuf.dev \in Devices /\ aux = (obuf.dev = "mouse")
    /\ pc \in {"mouse_read", "kbc_check", "kbc_read"} => obuf # NoByte
    /\ pc = "kbc_read" => obuf.dev = "kbc"
    /\ pc \in {"mouse_error", "kbc_error"} => byte # NoByte
    /\ pc = "receive" => irqs = {}

(* The inductive invariant behind the theorems.                            *)
InputInv == TypeOK /\ BufferSeen /\ NoStuckByte /\ KeysAreKeys

-----------------------------------------------------------------------------
(* The bytes the devices make.                                             *)
LEMMA ByteFacts ==
    /\ \A k \in 0..1, p \in Positions, b \in BOOLEAN, d \in BOOLEAN :
         MouseByte(k, p, b, d) \in Bytes /\ MouseByte(k, p, b, d).dev = "mouse"
    /\ \A c \in KeyBytes, d \in BOOLEAN :
         KeyByte(c, d) \in Bytes /\ KeyByte(c, d).dev = "kbc"
BY DEF Bytes, MouseByte, KeyByte

(* Returning from a handler drops no other handler of the message.         *)
LEMMA ReturnKeepsHandlers ==
    ASSUME irqs \subseteq Devices, Return
    PROVE  /\ pc' \in {"receive", "mouse_check", "kbc_full"}
           /\ irqs' \subseteq Devices
           /\ irqs \subseteq irqs' \cup Reading'
           /\ pc' = "receive" => irqs' = {}
BY DEF Return, FirstAccess, Running, Reading, Devices

(* A byte that reaches the buffer has its interrupt.                       *)
LEMMA FillKeeps ==
    ASSUME InputInv, NEW b \in Bytes, b.dev \in Devices, b.bad \in BOOLEAN, Fill(b),
           next' \in (0..1) \X Positions, marked' \in 0..MaxMarked
    PROVE  InputInv'
<1> USE DEF InputInv
<1>1. TypeOK'
  BY InputPathAssumption DEF TypeOK, Fill, mouse, keyboard
<1>2. BufferSeen'
  BY DEF BufferSeen, Fill
<1>3. NoStuckByte'
  BY DEF NoStuckByte, Fill
<1>4. KeysAreKeys'
  BY DEF KeysAreKeys, Fill
<1> QED
  BY <1>1, <1>2, <1>3, <1>4

(* The loop starts with an empty buffer.                                   *)
LEMMA InitInput == Init => InputInv
<1> SUFFICES ASSUME Init PROVE InputInv
  OBVIOUS
<1>1. TypeOK
  <2>1. pending \subseteq Devices /\ faults \in 0..MaxFaults
    BY InputPathAssumption DEF Init
  <2>2. arr \in Seq(Bytes) /\ Len(arr) < 3
    BY DEF Init
  <2>3. /\ next \in (0..1) \X Positions /\ pc \in Accesses /\ mixed \in Nat
        /\ marked \in 0..MaxMarked
    BY InputPathAssumption DEF Init, Positions, Accesses
  <2>4. obuf = NoByte /\ byte = NoByte /\ event = NoByte /\ irqs = {}
    BY DEF Init
  <2>5. aux \in BOOLEAN /\ err \in BOOLEAN /\ flag2Bytes \in BOOLEAN
    BY DEF Init
  <2> QED
    BY <2>1, <2>2, <2>3, <2>4, <2>5 DEF TypeOK
<1>2. BufferSeen /\ NoStuckByte /\ KeysAreKeys
  BY DEF Init, BufferSeen, NoStuckByte, KeysAreKeys
<1> QED
  BY <1>1, <1>2 DEF InputInv

(* A test that fails for a byte of the handler's own device is impossible, *)
(* so returning leaves no byte behind.                                     *)
LEMMA TestKeeps ==
    ASSUME InputInv, NEW at, NEW cond, NEW to, Test(at, cond, to),
           to \in Accesses,
           to \notin {"receive", "mouse_error", "kbc_error"},
           ~cond /\ obuf # NoByte => obuf.dev \notin Reading,
           cond => \/ to = "mouse_full"
                   \/ to = "mouse_read" /\ obuf # NoByte
                   \/ to = "kbc_check" /\ obuf # NoByte
                   \/ to = "kbc_read" /\ obuf # NoByte /\ obuf.dev = "kbc",
           cond => (Reading = {"mouse"} <=> to \in {"mouse_full", "mouse_read"}),
           cond => (Reading = {"kbc"} <=> to \in {"kbc_check", "kbc_read"})
    PROVE  InputInv'
<1> USE DEF InputInv
<1>1. UNCHANGED <<obuf, aux, err, pending, next, faults, marked, byte, arr, mixed,
                  flag2Bytes, event>>
  BY DEF Test, Access, mouse, keyboard
<1>2. CASE cond
  <2>1. pc' = to /\ irqs' = irqs
    BY <1>2 DEF Test, Goto, Return
  <2>2. Reading' = Reading
    BY <1>2, <2>1 DEF Reading, Accesses
  <2> QED
    BY <1>1, <1>2, <2>1, <2>2 DEF TypeOK, BufferSeen, NoStuckByte, KeysAreKeys
<1>3. CASE ~cond
  <2>1. Return
    BY <1>3 DEF Test
  <2>2. /\ pc' \in {"receive", "mouse_check", "kbc_full"}
        /\ irqs' \subseteq Devices
        /\ irqs \subseteq irqs' \cup Reading'
        /\ pc' = "receive" => irqs' = {}
    BY <2>1, ReturnKeepsHandlers DEF TypeOK
  <2>3. NoStuckByte'
    BY <1>1, <1>3, <2>2 DEF NoStuckByte
  <2> QED
    BY <1>1, <2>2, <2>3 DEF TypeOK, BufferSeen, KeysAreKeys, Accesses
<1> QED
  BY <1>2, <1>3

(* What a read does, whoever makes it.                                     *)
LEMMA ReadKeeps ==
    ASSUME InputInv, NEW at, NEW to, Read(at, to), obuf # NoByte,
           \/ to = "mouse_error"
           \/ to = "kbc_error" /\ obuf.dev = "kbc"
    PROVE  InputInv'
<1> USE DEF InputInv
<1>1. /\ UNCHANGED <<aux, err, pending, next, faults, marked, irqs, arr, mixed,
                     flag2Bytes, event>>
      /\ pc' = to
      /\ byte' = obuf
      /\ obuf' = NoByte
  BY DEF Read, Access, Goto, mouse, keyboard
<1>2. TypeOK'
  BY <1>1 DEF TypeOK, Accesses
<1>3. BufferSeen'
  BY <1>1 DEF BufferSeen
<1>4. NoStuckByte' /\ KeysAreKeys'
  BY <1>1 DEF NoStuckByte, KeysAreKeys
<1> QED
  BY <1>2, <1>3, <1>4

(* The end of a handler: it has read, and touches the buffer no more.      *)
LEMMA EndKeeps ==
    ASSUME InputInv, pc \in {"mouse_error", "kbc_error"}, Return,
           UNCHANGED <<obuf, aux, err, pending, next, faults, marked, byte>>,
           arr' \in Seq(Bytes), Len(arr') < 3, mixed' \in Nat,
           flag2Bytes' \in BOOLEAN, event' \in Bytes \cup {NoByte}
    PROVE  InputInv'
<1> USE DEF InputInv
<1>1. /\ pc' \in {"receive", "mouse_check", "kbc_full"}
      /\ irqs' \subseteq Devices
      /\ irqs \subseteq irqs' \cup Reading'
      /\ pc' = "receive" => irqs' = {}
  BY ReturnKeepsHandlers DEF TypeOK
<1>2. TypeOK'
  BY <1>1 DEF TypeOK, Accesses
<1>3. NoStuckByte'
  <2>1. Reading = {}
    BY DEF Reading
  <2> QED
    BY <1>1, <2>1 DEF NoStuckByte
<1>4. BufferSeen' /\ KeysAreKeys'
  BY <1>1 DEF BufferSeen, KeysAreKeys
<1> QED
  BY <1>2, <1>3, <1>4

-----------------------------------------------------------------------------
(* The devices.                                                            *)
LEMMA SendKeeps == InputInv /\ (MouseSends \/ KeyboardSends) => InputInv'
<1> SUFFICES ASSUME InputInv, MouseSends \/ KeyboardSends PROVE InputInv'
  OBVIOUS
<1>1. CASE MouseSends
  <2>1. PICK bit3 \in BOOLEAN, bad \in BOOLEAN :
          /\ Fill(MouseByte(next[1], next[2], bit3, bad))
          /\ marked' = IF ~bad /\ next[2] # 0 /\ bit3 THEN marked + 1 ELSE marked
          /\ marked' =< MaxMarked
    BY <1>1 DEF MouseSends
  <2> DEFINE b == MouseByte(next[1], next[2], bit3, bad)
  <2>2. next[1] \in 0..1 /\ next[2] \in Positions
    BY DEF InputInv, TypeOK
  <2>3. b \in Bytes /\ b.dev \in Devices /\ b.bad \in BOOLEAN
    BY <2>2 DEF MouseByte, Bytes, Devices
  <2>4. next' \in (0..1) \X Positions /\ marked' \in 0..MaxMarked
    BY <1>1, <2>1, <2>2, InputPathAssumption DEF MouseSends, Positions, InputInv, TypeOK
  <2>5. Fill(b)
    BY <2>1
  <2> HIDE DEF b
  <2> QED
    BY <2>3, <2>4, <2>5, FillKeeps
<1>2. CASE KeyboardSends
  <2>1. PICK code \in KeyBytes, bad \in BOOLEAN : Fill(KeyByte(code, bad))
    BY <1>2 DEF KeyboardSends
  <2> DEFINE b == KeyByte(code, bad)
  <2>2. b \in Bytes /\ b.dev \in Devices /\ b.bad \in BOOLEAN
    BY DEF KeyByte, Bytes, Devices
  <2>3. next' \in (0..1) \X Positions /\ marked' \in 0..MaxMarked
    BY <1>2 DEF KeyboardSends, InputInv, TypeOK
  <2>4. Fill(b)
    BY <2>1
  <2> HIDE DEF b
  <2> QED
    BY <2>2, <2>3, <2>4, FillKeeps
<1> QED
  BY <1>1, <1>2

(* driver_receive starts the handlers of everything that was pending.      *)
LEMMA ReceiveKeeps == InputInv /\ Receive => InputInv'
<1> SUFFICES ASSUME InputInv, Receive PROVE InputInv'
  OBVIOUS
<1> USE DEF InputInv
<1>1. /\ pc' \in {"receive", "mouse_check", "kbc_full"}
      /\ irqs' \subseteq Devices
      /\ pending \subseteq irqs' \cup Reading'
      /\ pc' = "receive" => irqs' = {}
  BY DEF Receive, FirstAccess, Running, Reading, TypeOK, Devices
<1>2. NoStuckByte'
  BY <1>1 DEF Receive, NoStuckByte, Reading, BufferSeen
<1>3. TypeOK'
  BY <1>1 DEF Receive, TypeOK, Accesses, mouse, keyboard
<1> QED
  BY <1>1, <1>2, <1>3 DEF Receive, BufferSeen, KeysAreKeys

(* The steps of mouse_ih.  The test of keyboard_check comes first; if it   *)
(* sends the handler home, the byte in the buffer is the keyboard's.       *)
LEMMA MouseKeeps == InputInv /\ mouse_ih => InputInv'
<1> SUFFICES ASSUME InputInv, mouse_ih PROVE InputInv'
  OBVIOUS
<1>1. CASE MouseCheck
  <2>1. Test("mouse_check", aux, "mouse_full") /\ pc = "mouse_check"
    BY <1>1 DEF MouseCheck, keyboard_check, Test, Access, InputInv, TypeOK
  <2>2. Reading = {"mouse"}
    BY <2>1 DEF Reading
  <2>3. ~aux /\ obuf # NoByte => obuf.dev \notin Reading
    BY <2>2 DEF InputInv, BufferSeen
  <2> QED
    BY <2>1, <2>2, <2>3, TestKeeps DEF Accesses
<1>2. CASE MouseFull
  <2>1. Test("mouse_full", obuf # NoByte, "mouse_read") /\ pc = "mouse_full"
    BY <1>2 DEF MouseFull, Test, Access
  <2>2. Reading = {"mouse"}
    BY <2>1 DEF Reading
  <2> QED
    BY <2>1, <2>2, TestKeeps DEF Accesses
<1>3. CASE MouseRead
  <2>1. Read("mouse_read", "mouse_error") /\ obuf # NoByte
    BY <1>3 DEF MouseRead, Read, Access, InputInv, BufferSeen
  <2> QED
    BY <2>1, ReadKeeps
<1>4. CASE MouseAssemble
  <2>1. /\ pc = "mouse_error" /\ Return
        /\ UNCHANGED <<obuf, aux, err, pending, next, faults, marked, byte,
                       flag2Bytes, event>>
    BY <1>4 DEF MouseAssemble, Access, keyboard
  <2>2. byte \in Bytes
    BY <2>1 DEF InputInv, TypeOK, BufferSeen
  <2>3. arr' \in Seq(Bytes) /\ Len(arr') < 3
    <3>1. arr \in Seq(Bytes) /\ Len(arr) \in Nat /\ Len(arr) < 3
      BY DEF InputInv, TypeOK
    <3>2. ~Completes => Len(arr) < 2
      <4>1. \A n \in Nat : n < 3 /\ n # 2 => n < 2
        OBVIOUS
      <4> QED
        BY <3>1, <4>1, Zenon DEF Completes
    <3>3. CASE arr' = arr
      BY <3>1, <3>3
    <3>4. CASE arr' = << >>
      BY <3>4
    <3>5. CASE arr' = Append(arr, byte) /\ ~Completes
      <4>1. Len(arr) < 2
        BY <3>5, <3>2
      <4>2. Append(arr, byte) \in Seq(Bytes) /\ Len(Append(arr, byte)) = Len(arr) + 1
        BY <2>2, <3>1
      <4> QED
        BY <3>1, <3>5, <4>1, <4>2
    <3> QED
      BY <1>4, <3>3, <3>4, <3>5 DEF MouseAssemble, mouse
  <2>4. mixed' \in Nat
    BY <1>4 DEF MouseAssemble, mouse, InputInv, TypeOK
  <2> QED
    BY <2>1, <2>3, <2>4, EndKeeps DEF InputInv, TypeOK
<1> QED
  BY <1>1, <1>2, <1>3, <1>4 DEF mouse_ih

(* The steps of kbc_ih.  Its test for a full buffer comes first, so the    *)
(* device it is told next is that of the byte it will read.                *)
LEMMA KbcKeeps == InputInv /\ kbc_ih => InputInv'
<1> SUFFICES ASSUME InputInv, kbc_ih PROVE InputInv'
  OBVIOUS
<1>1. CASE KbcFull
  <2>1. Test("kbc_full", obuf # NoByte, "kbc_check") /\ pc = "kbc_full"
    BY <1>1 DEF KbcFull, Test, Access
  <2>2. Reading = {"kbc"}
    BY <2>1 DEF Reading
  <2> QED
    BY <2>1, <2>2, TestKeeps DEF Accesses
<1>2. CASE KbcCheck
  <2>1. Test("kbc_check", ~aux, "kbc_read") /\ pc = "kbc_check"
    BY <1>2 DEF KbcCheck, keyboard_check, Test, Access
  <2>2. Reading = {"kbc"} /\ obuf # NoByte
    BY <2>1 DEF Reading, InputInv, BufferSeen
  <2>3. /\ ~aux => obuf.dev = "kbc"
        /\ aux => obuf.dev \notin Reading
    BY <2>2 DEF InputInv, BufferSeen, Devices, TypeOK
  <2> QED
    BY <2>1, <2>2, <2>3, TestKeeps DEF Accesses
<1>3. CASE KbcRead
  <2>1. Read("kbc_read", "kbc_error") /\ obuf # NoByte /\ obuf.dev = "kbc"
    BY <1>3 DEF KbcRead, Read, Access, InputInv, BufferSeen
  <2> QED
    BY <2>1, ReadKeeps
<1>4. CASE KbcHandle
  <2>1. /\ pc = "kbc_error" /\ Return
        /\ UNCHANGED <<obuf, aux, err, pending, next, faults, marked, byte, arr, mixed>>
    BY <1>4 DEF KbcHandle, Access, mouse
  <2>2. flag2Bytes' \in BOOLEAN /\ event' \in Bytes \cup {NoByte}
    BY <1>4 DEF KbcHandle, keyboard, InputInv, TypeOK
  <2> QED
    BY <2>1, <2>2, EndKeeps DEF InputInv, TypeOK
<1> QED
  BY <1>1, <1>2, <1>3, <1>4 DEF kbc_ih

(* The invariant is inductive.                                             *)
LEMMA NextInput == InputInv /\ [Next]_vars => InputInv'
<1> SUFFICES ASSUME InputInv, [Next]_vars PROVE InputInv'
  OBVIOUS
<1>1. CASE UNCHANGED vars
  BY <1>1
     DEF vars, controller, mouse, keyboard, InputInv, TypeOK, BufferSeen,
         NoStuckByte, KeysAreKeys, Reading
<1> QED
  BY <1>1, SendKeeps, ReceiveKeeps, MouseKeeps, KbcKeeps DEF Next

-----------------------------------------------------------------------------
(* mouse_ih never writes behind arr, whatever bytes arrive and get lost,   *)
(* and every variable of the input path keeps its type.                    *)
THEOREM InputTypeCorrect == Spec => []TypeOK
<1>1. InputInv => TypeOK
  BY DEF InputInv
<1> QED
  BY <1>1, InitInput, NextInput, PTL DEF Spec

(* No byte is ever left in the controller's buffer without an interrupt or *)
(* a handler that will take it, however the accesses of the handlers and   *)
(* the arrival of bytes interleave.                                        *)
THEOREM NoByteIsStuck == Spec => []NoStuckByte
<1>1. InputInv => NoStuckByte
  BY DEF InputInv
<1> QED
  BY <1>1, InitInput, NextInput, PTL DEF Spec

(* kbc_ih never takes a byte of the mouse, stale interrupts included.      *)
THEOREM KeysComeFromKeyboard == Spec => []KeysAreKeys
<1>1. InputInv => KeysAreKeys
  BY DEF InputInv
<1> QED
  BY <1>1, InitInput, NextInput, PTL DEF Spec

-----------------------------------------------------------------------------
(* The assembly of packets.                                                *)

(* The place of a byte, and the place after it.                            *)
Place(b) == <<b.packet, b.pos>>
After(p) == IF p[2] = 2 THEN <<1 - p[1], 0>> ELSE <<p[1], p[2] + 1>>

(* mouse_ih has a byte of the mouse in hand.                               *)
InHand == pc = "mouse_error" /\ byte.dev = "mouse"

(* The bytes of the mouse come in the order in which it sent them.         *)
MouseOrder ==
    /\ obuf.dev = "mouse" => After(Place(obuf)) = next
    /\ InHand => After(Place(byte)) = IF obuf.dev = "mouse" THEN Place(obuf) ELSE next

(* The error bits are those of the byte in the buffer.                     *)
StatusOfLast == obuf # NoByte => (obuf.bad <=> err)

(* The place of the next byte of the mouse that mouse_ih will handle.      *)
NextPlace ==
    IF InHand THEN Place(byte) ELSE IF obuf.dev = "mouse" THEN Place(obuf) ELSE next

(* What is in arr begins the packet that this byte continues, and mouse_ih *)
(* has no key and no damaged byte in hand.                                 *)
InSync ==
    /\ pc = "mouse_error" => byte.dev = "mouse" /\ ~byte.bad
    /\ \A i \in 1..Len(arr) :
         arr[i].dev = "mouse" /\ ~arr[i].bad /\ Place(arr[i]) = <<arr[1].packet, i - 1>>
    /\ arr # << >> => NextPlace = <<arr[1].packet, Len(arr)>>

(* A run of mouse_ih, now or to come, for which no byte is in the buffer:  *)
(* it may find a key there.                                                *)
Stale ==
    IF obuf.dev = "mouse" THEN "mouse" \in pending /\ "mouse" \in Reading
    ELSE "mouse" \in pending \cup Reading

(* A data byte that looks like the first of a packet.                      *)
Misleads(b) == ~b.bad /\ b.pos # 0 /\ b.bit3

Count(P) == IF P THEN 1 ELSE 0

ToMislead == Count(obuf.dev = "mouse" /\ Misleads(obuf)) + Count(InHand /\ Misleads(byte))

(* What is still to come has been paid for: what a byte with errors, or an *)
(* arr out of step, and a stale run may cost by their disturbances, and    *)
(* what a misleading byte may cost by itself.                              *)
Owing == err \/ ~InSync
Paid == mixed + ToMislead + Count(Owing) + Count(Stale) =< faults + marked

(* Before the first disturbance each byte of the mouse is taken for what   *)
(* it is.                                                                  *)
FirstMarked(b) == ~b.bad /\ (b.pos = 0 => b.bit3)

Clean ==
    faults = 0 =>
        /\ mixed = 0
        /\ ~Owing /\ ~Stale
        /\ NextPlace[2] = Len(arr)
        /\ obuf.dev = "mouse" => FirstMarked(obuf)
        /\ InHand => FirstMarked(byte)

(* There is no second stale run.                                           *)
OneRun ==
    /\ "mouse" \notin irqs
    /\ obuf.dev # "mouse" => ~("mouse" \in pending /\ "mouse" \in Reading)

PacketInv == MouseOrder /\ StatusOfLast /\ OneRun /\ Paid /\ Clean

(* The fields of a byte.                                                   *)
LEMMA ByteFields ==
    ASSUME NEW b \in Bytes
    PROVE  /\ b.bad \in BOOLEAN /\ b.bit3 \in BOOLEAN /\ b.dev \in {"mouse", "kbc"}
           /\ b.dev = "mouse" => b.packet \in 0..1 /\ b.pos \in 0..2
           /\ b # NoByte
BY DEF Bytes, Positions, NoByte

(* The empty buffer belongs to no device.                                  *)
LEMMA NoByteFields == NoByte.dev = "none"
BY DEF NoByte

(* The numbers that the debt is about.                                     *)
LEMMA Numbers ==
    InputInv => mixed \in Nat /\ faults \in Nat /\ marked \in Nat /\ err \in BOOLEAN
BY InputPathAssumption DEF InputInv, TypeOK

(* A debt that does not grow stays paid for.                               *)
LEMMA StaysPaid ==
    ASSUME InputInv, Paid, mixed' = mixed, faults' = faults, marked' = marked,
           ToMislead' =< ToMislead, Owing' => Owing, Stale' => Stale
    PROVE  Paid'
<1> DEFINE M == ToMislead
           O == Count(Owing)
           S == Count(Stale)
<1>1. M \in Nat /\ M' \in Nat /\ M' =< M
  BY DEF ToMislead, Count
<1>2. O \in Nat /\ O' \in Nat /\ O' =< O /\ S \in Nat /\ S' \in Nat /\ S' =< S
  BY DEF Count
<1>3. mixed + M + O + S =< faults + marked
  BY DEF Paid
<1> HIDE DEF M, O, S
<1>4. mixed + M' + O' + S' =< faults + marked
  <2>1. \A x, a, b, c, d, e, f, g \in Nat :
          a =< b /\ c =< d /\ e =< f /\ x + b + d + f =< g => x + a + c + e =< g
    OBVIOUS
  <2>2. mixed \in Nat /\ faults + marked \in Nat
    BY Numbers
  <2> QED
    BY <1>1, <1>2, <1>3, <2>1, <2>2, Zenon
<1> QED
  BY <1>4 DEF M, O, S, Paid

(* A step that moves no byte of the mouse and starts no run of mouse_ih.   *)
LEMMA ApartPackets ==
    ASSUME InputInv, PacketInv,
           UNCHANGED <<err, next, faults, marked, arr, mixed>>,
           pc # "mouse_error", pc' # "mouse_error",
           obuf' = obuf \/ (obuf.dev # "mouse" /\ obuf' = NoByte),
           "mouse" \notin irqs',
           "mouse" \in pending' => "mouse" \in pending,
           "mouse" \in Reading' => "mouse" \in Reading \cup pending,
           "mouse" \in pending' /\ "mouse" \in Reading'
              => "mouse" \in pending /\ "mouse" \in Reading
    PROVE  PacketInv'
<1> USE NoByteFields
<1>1. obuf'.dev = "mouse" <=> obuf.dev = "mouse"
  OBVIOUS
<1>2. obuf.dev = "mouse" => obuf' = obuf
  OBVIOUS
<1>3. ~InHand /\ ~InHand'
  BY DEF InHand
<1>4. NextPlace' = NextPlace
  BY <1>1, <1>2, <1>3 DEF NextPlace, Place
<1>5. InSync' <=> InSync
  BY <1>4 DEF InSync
<1>6. Stale' => Stale
  BY <1>1 DEF Stale
<1>7. Owing' <=> Owing
  BY <1>5 DEF Owing
<1>8. ToMislead' = ToMislead /\ ToMislead \in Nat
  BY <1>1, <1>2, <1>3 DEF ToMislead, Count
<1>9. Paid'
  BY <1>6, <1>7, <1>8, StaysPaid DEF PacketInv
<1>10. MouseOrder'
  BY <1>1, <1>2, <1>3 DEF PacketInv, MouseOrder, Place
<1>11. StatusOfLast'
  BY <1>1, <1>2, <1>3 DEF PacketInv, StatusOfLast
<1>12. OneRun'
  BY <1>1 DEF PacketInv, OneRun
<1>13. Clean'
  BY <1>1, <1>2, <1>3, <1>4, <1>6, <1>7 DEF PacketInv, Clean
<1> QED
  BY <1>9, <1>10, <1>11, <1>12, <1>13 DEF PacketInv

(* A byte reaches the empty buffer.                                        *)
LEMMA FillPackets ==
    ASSUME InputInv, PacketInv, NEW b \in Bytes, Fill(b),
           b.dev = "kbc" => next' = next /\ marked' = marked,
           b.dev = "mouse" =>
              /\ Place(b) = next /\ next' = After(next)
              /\ ~b.bad => FirstMarked(b)
              /\ marked' = marked + Count(Misleads(b))
    PROVE  PacketInv'
<1>1. /\ obuf = NoByte /\ obuf' = b /\ b # NoByte
      /\ pending' = pending \cup {b.dev}
      /\ faults' = IF b.bad THEN faults + 1 ELSE faults
      /\ UNCHANGED <<pc, irqs, byte, arr, mixed>>
      /\ mixed \in Nat /\ faults \in Nat /\ marked \in Nat
      /\ b.dev \in {"mouse", "kbc"} /\ b.bad \in BOOLEAN
  BY Numbers, ByteFields DEF Fill, mouse, keyboard
<1>2. obuf.dev = "none" /\ obuf'.dev = b.dev
  BY <1>1, NoByteFields
<1>3. (InHand' <=> InHand) /\ Reading' = Reading
  BY <1>1 DEF InHand, Reading
<1>4. NextPlace' = NextPlace
  BY <1>1, <1>2, <1>3 DEF NextPlace, Place
<1>5. InSync' <=> InSync
  BY <1>1, <1>4 DEF InSync
<1>6. Stale' => Stale
  BY <1>1, <1>2, <1>3 DEF Stale
<1>7. err' <=> b.bad
  BY DEF Fill
<1>8. MouseOrder'
  BY <1>1, <1>2, <1>3 DEF PacketInv, MouseOrder, Place
<1>9. StatusOfLast'
  BY <1>1, <1>2, <1>3, <1>7 DEF PacketInv, StatusOfLast
<1>10. OneRun'
  BY <1>1, <1>2, <1>3 DEF PacketInv, OneRun
<1>11. ~b.bad => (Owing' => Owing)
  BY <1>5, <1>7 DEF Owing
<1>12. Paid'
  <2> DEFINE B == Count(InHand /\ Misleads(byte))
             K == Count(b.dev = "mouse" /\ Misleads(b))
             O == Count(Owing)
             S == Count(Stale)
  <2>1. ToMislead = B
    <3>1. Count(obuf.dev = "mouse" /\ Misleads(obuf)) = 0 /\ B \in Nat
      BY <1>2 DEF Count
    <3> QED
      BY <3>1 DEF ToMislead
  <2>2. ToMislead' = K + B
    <3>1. Count(obuf.dev = "mouse" /\ Misleads(obuf))' = K
      BY <1>1
    <3>2. B' = B
      BY <1>1, <1>3 DEF Count
    <3> QED
      BY <3>1, <3>2 DEF ToMislead
  <2>3. marked' = marked + K
    BY <1>1 DEF Count
  <2>4. /\ B \in Nat /\ K \in Nat /\ O \in Nat /\ O' \in Nat /\ O' =< 1
        /\ S \in Nat /\ S' \in Nat /\ S' =< S
    BY <1>6 DEF Count
  <2>5. ~b.bad => O' =< O
    BY <1>11 DEF Count
  <2>6. mixed + B + O + S =< faults + marked
    BY <2>1 DEF PacketInv, Paid
  <2> HIDE DEF B, K, O, S
  <2>7. mixed + (K + B) + O' + S' =< faults' + (marked + K)
    <3>1. \A x, k, b1, o, p, s, q, f, m \in Nat :
            q =< s /\ x + b1 + o + s =< f + m =>
              /\ p =< o => x + (k + b1) + p + q =< f + (m + k)
              /\ p =< 1 => x + (k + b1) + p + q =< (f + 1) + (m + k)
      OBVIOUS
    <3>2. CASE b.bad
      BY <1>1, <2>4, <2>6, <3>1, <3>2, Zenon
    <3>3. CASE ~b.bad
      BY <1>1, <2>4, <2>5, <2>6, <3>1, <3>3, Zenon
    <3> QED
      BY <1>1, <3>2, <3>3
  <2> QED
    BY <1>1, <2>2, <2>3, <2>7 DEF O, S, Paid
<1>13. Clean'
  <2> SUFFICES ASSUME faults' = 0
               PROVE  /\ mixed' = 0 /\ ~Owing' /\ ~Stale' /\ NextPlace'[2] = Len(arr')
                      /\ obuf'.dev = "mouse" => FirstMarked(obuf')
                      /\ InHand' => FirstMarked(byte')
    BY DEF Clean
  <2>1. ~b.bad /\ faults = 0
    BY <1>1
  <2> QED
    BY <1>1, <1>2, <1>3, <1>4, <1>6, <1>11, <2>1 DEF PacketInv, Clean
<1> QED
  BY <1>8, <1>9, <1>10, <1>12, <1>13 DEF PacketInv

(* The devices: an undamaged first byte of the mouse is marked as it must  *)
(* be, and a data byte that is marked too is counted.                      *)
LEMMA SendPackets ==
    ASSUME InputInv, PacketInv, MouseSends \/ KeyboardSends
    PROVE  PacketInv'
<1>1. CASE MouseSends
  <2>1. PICK bit3 \in BOOLEAN, bad \in BOOLEAN :
          /\ ~bad /\ next[2] = 0 => bit3
          /\ Fill(MouseByte(next[1], next[2], bit3, bad))
          /\ marked' = IF ~bad /\ next[2] # 0 /\ bit3 THEN marked + 1 ELSE marked
    BY <1>1 DEF MouseSends
  <2> DEFINE b == MouseByte(next[1], next[2], bit3, bad)
  <2>2. next \in (0..1) \X (0..2)
    BY DEF InputInv, TypeOK, Positions
  <2>3. b \in Bytes /\ b.dev = "mouse" /\ Place(b) = next
    BY <2>2 DEF MouseByte, Bytes, Positions, Place
  <2>4. (~b.bad => FirstMarked(b)) /\ marked' = marked + Count(Misleads(b))
    <3>1. b.bad = bad /\ b.bit3 = bit3 /\ b.pos = next[2]
      BY DEF MouseByte
    <3>2. Misleads(b) <=> ~bad /\ next[2] # 0 /\ bit3
      BY <3>1 DEF Misleads
    <3>3. marked \in Nat
      BY Numbers
    <3> HIDE DEF b
    <3>4. marked' = marked + Count(Misleads(b))
      BY <2>1, <3>2, <3>3 DEF Count
    <3> QED
      BY <2>1, <3>1, <3>4 DEF FirstMarked
  <2>5. next' = After(next)
    BY <1>1 DEF MouseSends, After
  <2>6. Fill(b)
    BY <2>1
  <2> HIDE DEF b
  <2> QED
    BY <2>3, <2>4, <2>5, <2>6, FillPackets
<1>2. CASE KeyboardSends
  <2>1. PICK code \in KeyBytes, bad \in BOOLEAN : Fill(KeyByte(code, bad))
    BY <1>2 DEF KeyboardSends
  <2> DEFINE b == KeyByte(code, bad)
  <2>2. b \in Bytes /\ b.dev = "kbc"
    BY DEF KeyByte, Bytes
  <2>3. Fill(b) /\ next' = next /\ marked' = marked
    BY <1>2, <2>1 DEF KeyboardSends
  <2> HIDE DEF b
  <2> QED
    BY <2>2, <2>3, FillPackets
<1> QED
  BY <1>1, <1>2

(* The loop, the tests of the handlers and the steps of kbc_ih, which      *)
(* takes no byte of the mouse.                                             *)
LEMMA OtherPackets ==
    ASSUME InputInv, PacketInv, Receive \/ MouseCheck \/ MouseFull \/ kbc_ih
    PROVE  PacketInv'
<1>1. "mouse" \notin irqs
  BY DEF PacketInv, OneRun
<1>2. CASE Receive
  <2>1. /\ "mouse" \notin irqs' /\ pending' = {}
        /\ "mouse" \in Reading' => "mouse" \in pending
        /\ pc # "mouse_error" /\ pc' # "mouse_error"
    BY <1>2 DEF Receive, Running, FirstAccess, Reading
  <2> QED
    BY <1>2, <2>1, ApartPackets DEF Receive, mouse
<1>3. Return => "mouse" \notin irqs' /\ "mouse" \notin Reading' /\ pc' # "mouse_error"
  BY <1>1 DEF Return, Running, FirstAccess, Reading
<1>4. CASE MouseCheck \/ MouseFull
  <2>1. /\ pc \in {"mouse_check", "mouse_full"}
        /\ UNCHANGED <<obuf, err, pending, next, faults, marked, arr, mixed>>
        /\ Return \/ (pc' \in {"mouse_full", "mouse_read"} /\ irqs' = irqs)
    BY <1>4 DEF MouseCheck, MouseFull, Test, Access, Goto, mouse
  <2>2. pc # "mouse_error" /\ pc' # "mouse_error" /\ "mouse" \notin irqs'
    BY <1>1, <1>3, <2>1
  <2>3. "mouse" \in Reading' => "mouse" \in Reading
    BY <1>3, <2>1 DEF Reading
  <2> QED
    BY <2>1, <2>2, <2>3, ApartPackets
<1>5. CASE KbcFull \/ KbcCheck
  <2>1. /\ pc \in {"kbc_full", "kbc_check"}
        /\ UNCHANGED <<obuf, err, pending, next, faults, marked, arr, mixed>>
        /\ Return \/ (pc' \in {"kbc_check", "kbc_read"} /\ irqs' = irqs)
    BY <1>5 DEF KbcFull, KbcCheck, Test, Access, Goto, mouse
  <2>2. pc # "mouse_error" /\ pc' # "mouse_error" /\ "mouse" \notin irqs'
    BY <1>1, <1>3, <2>1
  <2>3. "mouse" \notin Reading'
    BY <1>3, <2>1 DEF Reading
  <2> QED
    BY <2>1, <2>2, <2>3, ApartPackets
<1>6. CASE KbcRead
  <2>1. /\ pc = "kbc_read" /\ pc' = "kbc_error" /\ obuf.dev = "kbc" /\ obuf' = NoByte
        /\ UNCHANGED <<err, pending, next, faults, marked, irqs, arr, mixed>>
    BY <1>6 DEF KbcRead, Read, Access, Goto, mouse, InputInv, BufferSeen
  <2>2. "mouse" \notin Reading'
    BY <2>1 DEF Reading
  <2> QED
    BY <1>1, <2>1, <2>2, ApartPackets
<1>7. CASE KbcHandle
  <2>1. /\ pc = "kbc_error" /\ Return
        /\ UNCHANGED <<obuf, err, pending, next, faults, marked, arr, mixed>>
    BY <1>7 DEF KbcHandle, Access, mouse
  <2> QED
    BY <1>3, <2>1, ApartPackets
<1> QED
  BY <1>2, <1>4, <1>5, <1>6, <1>7 DEF kbc_ih

(* mouse_ih reads: a byte of its own, or a key that a stale run finds.     *)
LEMMA ReadPackets ==
    ASSUME InputInv, PacketInv, MouseRead
    PROVE  PacketInv'
<1>1. /\ pc = "mouse_read" /\ pc' = "mouse_error" /\ obuf # NoByte /\ obuf \in Bytes
      /\ byte' = obuf /\ obuf' = NoByte
      /\ UNCHANGED <<err, pending, next, faults, marked, irqs, arr, mixed>>
  BY DEF MouseRead, Read, Access, Goto, mouse, InputInv, BufferSeen, TypeOK
<1>2. /\ obuf'.dev = "none" /\ obuf.dev \in {"mouse", "kbc"}
      /\ "mouse" \in Reading /\ "mouse" \notin Reading'
      /\ ~InHand /\ (InHand' <=> obuf.dev = "mouse")
  BY <1>1, NoByteFields, ByteFields DEF Reading, InHand
<1>3. mixed \in Nat /\ faults \in Nat /\ marked \in Nat
  BY Numbers
<1>4. OneRun'
  BY <1>1, <1>2 DEF PacketInv, OneRun
<1>5. CASE obuf.dev = "mouse"
  <2>1. NextPlace' = NextPlace
    BY <1>1, <1>2, <1>5 DEF NextPlace, Place
  <2>2. ~err /\ InSync => InSync'
    BY <1>1, <1>5, <2>1 DEF InSync, PacketInv, StatusOfLast
  <2>3. Owing' => Owing
    BY <1>1, <2>2 DEF Owing
  <2>4. Stale' => Stale
    BY <1>1, <1>2, <1>5 DEF Stale
  <2>5. ToMislead' = ToMislead /\ ToMislead \in Nat
    BY <1>1, <1>2, <1>5 DEF ToMislead, Count, Misleads
  <2>6. Paid'
    BY <1>1, <2>3, <2>4, <2>5, StaysPaid DEF PacketInv
  <2>7. MouseOrder'
    BY <1>1, <1>2, <1>5 DEF PacketInv, MouseOrder, Place
  <2>8. StatusOfLast'
    BY <1>1 DEF StatusOfLast
  <2>9. Clean'
    BY <1>1, <1>2, <1>5, <2>1, <2>3, <2>4 DEF PacketInv, Clean, FirstMarked
  <2> QED
    BY <1>4, <2>6, <2>7, <2>8, <2>9 DEF PacketInv
<1>6. CASE obuf.dev = "kbc"
  <2>1. Stale /\ ~Stale'
    BY <1>1, <1>2, <1>6 DEF Stale, PacketInv, OneRun
  <2>2. ToMislead = 0 /\ ToMislead' = 0
    BY <1>2, <1>6 DEF ToMislead, Count
  <2>3. Count(Stale) = 1 /\ Count(Stale)' = 0
    BY <2>1 DEF Count
  <2>4. Paid'
    <3> DEFINE O == Count(Owing)
    <3>1. O \in {0, 1} /\ O' \in {0, 1} /\ mixed + 0 + O + 1 =< faults + marked
      BY <2>2, <2>3 DEF PacketInv, Paid, Count
    <3> HIDE DEF O
    <3>2. mixed + 0 + O' + 0 =< faults + marked
      <4>1. \A o, q \in {0, 1}, x, f, m \in Nat :
              x + 0 + o + 1 =< f + m => x + 0 + q + 0 =< f + m
        OBVIOUS
      <4> QED
        BY <1>3, <3>1, <4>1, Zenon
    <3> QED
      BY <1>1, <2>2, <2>3, <3>2 DEF O, Paid
  <2>5. MouseOrder' /\ StatusOfLast'
    BY <1>1, <1>2, <1>6 DEF MouseOrder, StatusOfLast
  <2>6. Clean'
    BY <1>1, <2>1 DEF PacketInv, Clean
  <2> QED
    BY <1>4, <2>4, <2>5, <2>6 DEF PacketInv
<1> QED
  BY <1>2, <1>5, <1>6

-----------------------------------------------------------------------------
(* Sequences of at most two bytes.                                         *)
LEMMA ArrLengths ==
    ASSUME NEW a \in Seq(Bytes), Len(a) < 3
    PROVE  Len(a) \in {0, 1, 2} /\ (Len(a) = 0 <=> a = << >>)
<1>1. Len(a) \in Nat
  OBVIOUS
<1>2. Len(a) = 0 => a = << >>
  OBVIOUS
<1>3. a = << >> => Len(a) = 0
  OBVIOUS
<1>4. \A k \in Nat : k < 3 => k \in {0, 1, 2}
  OBVIOUS
<1> QED
  BY <1>1, <1>2, <1>3, <1>4, Zenon

(* arr after one more byte, for each length it can have.                   *)
LEMMA AppendByte ==
    ASSUME NEW a \in Seq(Bytes), NEW b \in Bytes
    PROVE  /\ Len(a) = 0 => Len(Append(a, b)) = 1 /\ Append(a, b)[1] = b
           /\ Len(a) = 1 =>
                Len(Append(a, b)) = 2 /\ Append(a, b)[1] = a[1] /\ Append(a, b)[2] = b
           /\ Len(a) = 2 =>
                /\ DOMAIN Append(a, b) = 1..3
                /\ Append(a, b)[1] = a[1] /\ Append(a, b)[2] = a[2]
                /\ Append(a, b)[3] = b
<1> DEFINE c == Append(a, b)
<1>1. /\ Len(c) = Len(a) + 1
      /\ \A i \in 1..Len(a) : c[i] = a[i]
      /\ c[Len(a) + 1] = b
      /\ DOMAIN c = 1..(Len(a) + 1)
  OBVIOUS
<1> HIDE DEF c
<1>2. Len(a) = 0 => Len(c) = 1 /\ c[1] = b
  BY <1>1
<1>3. Len(a) = 1 => Len(c) = 2 /\ c[1] = a[1] /\ c[2] = b
  BY <1>1
<1>4. Len(a) = 2 => c[1] = a[1] /\ c[2] = a[2] /\ c[3] = b
  BY <1>1
<1>5. Len(a) = 2 => DOMAIN c = 1..3
  BY <1>1
<1> QED
  BY <1>2, <1>3, <1>4, <1>5 DEF c

(* A byte that continues what is in arr: no packet comes out mixed.        *)
LEMMA AssembleInSync ==
    ASSUME InputInv, PacketInv, MouseAssemble, InSync, ~err,
           arr = << >> => ~Misleads(byte)
    PROVE  InSync' /\ mixed' = mixed
<1>1. /\ pc = "mouse_error" /\ UNCHANGED <<obuf, next, byte>>
      /\ pc' # "mouse_error"
      /\ byte \in Bytes /\ arr \in Seq(Bytes) /\ Len(arr) < 3
  <2>1. pc = "mouse_error" /\ Return /\ UNCHANGED <<obuf, next, byte>>
    BY DEF MouseAssemble, Access
  <2> QED
    BY <2>1 DEF Return, FirstAccess, InputInv, TypeOK, BufferSeen
<1>2. Len(arr) \in {0, 1, 2} /\ (Len(arr) = 0 <=> arr = << >>)
  BY <1>1, ArrLengths
<1>3. /\ byte.dev = "mouse" /\ ~byte.bad
      /\ byte.packet \in 0..1 /\ byte.pos \in 0..2
      /\ InHand /\ ~InHand'
  BY <1>1, ByteFields DEF InSync, InHand
<1>4. NextPlace' = After(Place(byte))
  BY <1>1, <1>3 DEF PacketInv, MouseOrder, NextPlace, Place
<1>5. /\ ~FitsPacket => UNCHANGED <<arr, mixed>>
      /\ FitsPacket /\ ~Completes => arr' = Append(arr, byte) /\ mixed' = mixed
      /\ FitsPacket /\ Completes =>
           /\ arr' = << >>
           /\ mixed' = IF AsSent(Append(arr, byte)) THEN mixed ELSE mixed + 1
  BY DEF MouseAssemble, mouse
<1>6. CASE Len(arr) = 0
  <2>1. arr = << >> /\ ~Completes
    BY <1>2, <1>6 DEF Completes
  <2>2. CASE ~byte.bit3
    BY <1>1, <1>3, <1>5, <2>1, <2>2 DEF FitsPacket, InSync
  <2>3. CASE byte.bit3
    <3>1. arr' = Append(arr, byte) /\ mixed' = mixed
      BY <1>3, <1>5, <2>1, <2>3 DEF FitsPacket
    <3>2. Len(arr') = 1 /\ arr'[1] = byte
      BY <1>1, <1>6, <3>1, AppendByte
    <3>3. Place(byte) = <<byte.packet, 0>> /\ NextPlace' = <<byte.packet, 1>>
      BY <1>3, <1>4, <2>1, <2>3 DEF Place, After, Misleads
    <3> QED
      BY <1>1, <1>3, <3>1, <3>2, <3>3 DEF InSync
  <2> QED
    BY <2>2, <2>3
<1>7. CASE Len(arr) = 1
  <2>1. arr' = Append(arr, byte) /\ mixed' = mixed
    BY <1>2, <1>5, <1>7 DEF FitsPacket, Completes
  <2>2. Len(arr') = 2 /\ arr'[1] = arr[1] /\ arr'[2] = byte
    BY <1>1, <1>7, <2>1, AppendByte
  <2>3. /\ Place(byte) = <<arr[1].packet, 1>>
        /\ arr[1].dev = "mouse" /\ ~arr[1].bad /\ Place(arr[1]) = <<arr[1].packet, 0>>
    <3>1. arr # << >> /\ 1 \in 1..Len(arr)
      BY <1>2, <1>7
    <3> QED
      BY <1>3, <1>7, <3>1 DEF InSync, NextPlace
  <2>4. NextPlace' = <<arr[1].packet, 2>>
    BY <1>4, <2>3 DEF After
  <2> QED
    BY <1>1, <1>3, <2>1, <2>2, <2>3, <2>4 DEF InSync
<1>8. CASE Len(arr) = 2
  <2>1. /\ arr' = << >>
        /\ mixed' = IF AsSent(Append(arr, byte)) THEN mixed ELSE mixed + 1
    BY <1>2, <1>5, <1>8 DEF FitsPacket, Completes
  <2>2. /\ DOMAIN Append(arr, byte) = 1..3
        /\ Append(arr, byte)[1] = arr[1] /\ Append(arr, byte)[2] = arr[2]
        /\ Append(arr, byte)[3] = byte
    BY <1>1, <1>8, AppendByte
  <2>3. /\ Place(byte) = <<arr[1].packet, 2>>
        /\ arr[1].dev = "mouse" /\ ~arr[1].bad /\ Place(arr[1]) = <<arr[1].packet, 0>>
        /\ arr[2].dev = "mouse" /\ ~arr[2].bad /\ Place(arr[2]) = <<arr[1].packet, 1>>
    <3>1. arr # << >> /\ 1 \in 1..Len(arr) /\ 2 \in 1..Len(arr)
      BY <1>2, <1>8
    <3> QED
      BY <1>3, <1>8, <3>1 DEF InSync, NextPlace
  <2>4. AsSent(Append(arr, byte))
    BY <1>3, <2>2, <2>3 DEF AsSent, Place
  <2> QED
    BY <1>1, <2>1, <2>4 DEF InSync
<1> QED
  BY <1>2, <1>6, <1>7, <1>8, Zenon

(* In sync or not, a mixed packet leaves arr empty, and so in sync; the    *)
(* byte in hand is paid for, and a misleading one pays for what follows.   *)
LEMMA AssemblePaid ==
    ASSUME InputInv, PacketInv, MouseAssemble
    PROVE  Paid'
<1>1. /\ pc = "mouse_error" /\ Return
      /\ UNCHANGED <<obuf, err, pending, next, faults, marked>>
      /\ mixed' = mixed \/ (mixed' = mixed + 1 /\ arr' = << >> /\ ~err)
  BY DEF MouseAssemble, Access, mouse
<1>2. pc' \notin {"mouse_error", "mouse_check"} /\ ~InHand'
  BY <1>1 DEF Return, FirstAccess, PacketInv, OneRun, InHand
<1>3. Stale' <=> Stale
  <2>1. "mouse" \notin Reading /\ "mouse" \notin Reading'
    BY <1>1, <1>2 DEF Reading, Return, FirstAccess
  <2> QED
    BY <1>1, <2>1 DEF Stale
<1>4. mixed \in Nat /\ faults \in Nat /\ marked \in Nat /\ mixed' \in Nat
  BY <1>1, Numbers
<1> DEFINE A == Count(obuf.dev = "mouse" /\ Misleads(obuf))
           B == Count(InHand /\ Misleads(byte))
           O == Count(Owing)
           S == Count(Stale)
<1>5. ToMislead = A + B
  BY DEF ToMislead
<1>6. ToMislead' = A
  <2>1. A' = A /\ B' = 0 /\ A \in Nat
    BY <1>1, <1>2 DEF Count
  <2> QED
    BY <2>1 DEF ToMislead
<1>7. /\ A \in Nat /\ B \in {0, 1} /\ O \in {0, 1} /\ O' \in {0, 1}
      /\ S \in Nat /\ S' = S
  BY <1>3 DEF Count
<1>8. O' = 1 => err \/ mixed' = mixed
  <2>1. arr' = << >> => InSync'
    BY <1>2 DEF InSync
  <2> QED
    BY <1>1, <2>1 DEF Owing, Count
<1>9. O = 1 => mixed' + O' =< mixed + 1
  <2>1. err => mixed' = mixed
    BY <1>1
  <2>2. \A x \in Nat : x + 0 =< x + 1 /\ x + 1 =< x + 1 /\ (x + 1) + 0 =< x + 1
    OBVIOUS
  <2>3. CASE O' = 0
    BY <1>1, <1>4, <2>2, <2>3
  <2>4. CASE O' = 1
    BY <1>4, <1>8, <2>1, <2>2, <2>4
  <2> QED
    BY <1>7, <2>3, <2>4
<1>10. O = 0 => mixed' + O' =< mixed + B
  <2> SUFFICES ASSUME O = 0 PROVE mixed' + O' =< mixed + B
    OBVIOUS
  <2>1. ~err /\ InSync
    BY DEF Owing, Count
  <2>2. CASE arr = << >> => ~Misleads(byte)
    <3>1. InSync' /\ mixed' = mixed
      BY <2>1, <2>2, AssembleInSync
    <3>2. O' = 0
      BY <1>1, <2>1, <3>1 DEF Owing, Count
    <3>3. \A x \in Nat, y \in {0, 1} : x + 0 =< x + y
      OBVIOUS
    <3> QED
      BY <1>4, <1>7, <3>1, <3>2, <3>3, Zenon
  <2>3. CASE arr = << >> /\ Misleads(byte)
    <3>1. InHand
      BY <1>1, <2>1 DEF InSync, InHand
    <3>2. B = 1
      BY <2>3, <3>1 DEF Count
    <3>3. mixed' = mixed
      <4>1. ~Completes
        BY <2>3 DEF Completes
      <4> QED
        BY <4>1 DEF MouseAssemble, mouse
    <3>4. \A x \in Nat, y \in {0, 1} : x + y =< x + 1
      OBVIOUS
    <3> QED
      BY <1>4, <1>7, <3>2, <3>3, <3>4, Zenon
  <2> QED
    BY <2>2, <2>3
<1>11. mixed + (A + B) + O + S =< faults + marked
  BY <1>5 DEF PacketInv, Paid
<1> HIDE DEF A, B, O, S
<1>12. mixed' + A + O' + S =< faults + marked
  <2>1. \A x, y, a, s, g \in Nat, b, q \in {0, 1} :
          /\ y + q =< x + 1 /\ x + (a + b) + 1 + s =< g => y + a + q + s =< g
          /\ y + q =< x + b /\ x + (a + b) + 0 + s =< g => y + a + q + s =< g
    OBVIOUS
  <2>2. faults + marked \in Nat
    BY <1>4
  <2>3. CASE O = 0
    BY <1>4, <1>7, <1>10, <1>11, <2>1, <2>2, <2>3, Zenon
  <2>4. CASE O = 1
    BY <1>4, <1>7, <1>9, <1>11, <2>1, <2>2, <2>4, Zenon
  <2> QED
    BY <1>7, <2>3, <2>4
<1> QED
  BY <1>1, <1>6, <1>7, <1>12 DEF O, S, Paid

(* Without disturbances the bytes in arr are as many as the place of the   *)
(* next byte says.                                                         *)
LEMMA AssembleClean ==
    ASSUME InputInv, PacketInv, MouseAssemble
    PROVE  Clean'
<1>1. /\ pc = "mouse_error" /\ Return
      /\ UNCHANGED <<obuf, err, pending, next, faults, marked, byte>>
  BY DEF MouseAssemble, Access
<1> SUFFICES ASSUME faults = 0
             PROVE  /\ mixed' = 0 /\ ~Owing' /\ ~Stale' /\ NextPlace'[2] = Len(arr')
                    /\ obuf'.dev = "mouse" => FirstMarked(obuf')
                    /\ ~InHand'
  BY <1>1 DEF Clean
<1>2. pc' \notin {"mouse_error", "mouse_check"} /\ ~InHand'
  BY <1>1 DEF Return, FirstAccess, PacketInv, OneRun, InHand
<1>3. ~Stale'
  <2>1. "mouse" \notin Reading /\ "mouse" \notin Reading'
    BY <1>1, <1>2 DEF Reading, Return, FirstAccess
  <2> QED
    BY <1>1, <2>1 DEF Stale, PacketInv, Clean
<1>4. /\ mixed = 0 /\ ~err /\ InSync /\ NextPlace[2] = Len(arr)
      /\ (InHand => FirstMarked(byte)) /\ (obuf.dev = "mouse" => FirstMarked(obuf))
  BY DEF PacketInv, Clean, Owing
<1>5. /\ InHand /\ byte \in Bytes /\ arr \in Seq(Bytes) /\ Len(arr) < 3
      /\ byte.dev = "mouse"
  BY <1>1, <1>4 DEF InSync, InHand, InputInv, TypeOK, BufferSeen
<1>6. byte.pos = Len(arr) /\ byte.pos \in 0..2
  BY <1>4, <1>5, ByteFields DEF NextPlace, Place
<1>7. Len(arr) \in {0, 1, 2} /\ (Len(arr) = 0 <=> arr = << >>)
  BY <1>5, ArrLengths
<1>8. arr = << >> => ~Misleads(byte) /\ byte.bit3
  BY <1>4, <1>5, <1>6, <1>7 DEF Misleads, FirstMarked
<1>9. InSync' /\ mixed' = 0
  BY <1>4, <1>8, AssembleInSync
<1>10. NextPlace'[2] = IF byte.pos = 2 THEN 0 ELSE byte.pos + 1
  <2>1. NextPlace' = After(Place(byte))
    BY <1>1, <1>2, <1>5 DEF PacketInv, MouseOrder, NextPlace, Place
  <2> QED
    BY <2>1 DEF After, Place
<1>11. NextPlace'[2] = Len(arr')
  <2>1. FitsPacket
    BY <1>8 DEF FitsPacket
  <2>2. CASE Len(arr) = 2
    <3>1. arr' = << >>
      BY <1>4, <2>1, <2>2 DEF MouseAssemble, Completes
    <3> QED
      BY <1>6, <1>10, <2>2, <3>1
  <2>3. CASE Len(arr) # 2
    <3>1. arr' = Append(arr, byte)
      BY <1>4, <2>1, <2>3 DEF MouseAssemble, Completes
    <3>2. Len(arr') = Len(arr) + 1
      BY <1>5, <3>1
    <3> QED
      BY <1>6, <1>10, <2>3, <3>2
  <2> QED
    BY <2>2, <2>3
<1> QED
  BY <1>1, <1>2, <1>3, <1>4, <1>9, <1>11 DEF Owing

(* The end of mouse_ih.                                                    *)
LEMMA AssemblePackets ==
    ASSUME InputInv, PacketInv, MouseAssemble
    PROVE  PacketInv'
<1>1. /\ pc = "mouse_error" /\ UNCHANGED <<obuf, err, pending, next, faults>> /\ Return
  BY DEF MouseAssemble, Access
<1>2. pc' \notin {"mouse_error", "mouse_check"} /\ "mouse" \notin irqs'
  BY <1>1 DEF Return, Running, FirstAccess, PacketInv, OneRun
<1>3. "mouse" \notin Reading /\ "mouse" \notin Reading' /\ ~InHand'
  BY <1>1, <1>2 DEF Reading, InHand, Return, FirstAccess
<1>4. MouseOrder' /\ StatusOfLast' /\ OneRun'
  BY <1>1, <1>2, <1>3 DEF PacketInv, MouseOrder, StatusOfLast, OneRun, Place
<1> QED
  BY <1>4, AssemblePaid, AssembleClean DEF PacketInv

(* The invariant is inductive.                                             *)
LEMMA NextPackets == InputInv /\ PacketInv /\ [Next]_vars => PacketInv'
<1> SUFFICES ASSUME InputInv, PacketInv, [Next]_vars PROVE PacketInv'
  OBVIOUS
<1>1. CASE UNCHANGED vars
  <2> USE <1>1 DEF vars, controller, mouse
  <2>1. /\ (InHand' <=> InHand) /\ Reading' = Reading /\ NextPlace' = NextPlace
    BY DEF InHand, Reading, NextPlace, Place
  <2>2. (InSync' <=> InSync) /\ (Stale' <=> Stale)
    BY <2>1 DEF InSync, Stale
  <2>3. (Owing' <=> Owing) /\ ToMislead' = ToMislead /\ ToMislead \in Nat
    BY <2>1, <2>2 DEF Owing, ToMislead, Count
  <2>4. Paid'
    BY <2>2, <2>3, StaysPaid DEF PacketInv
  <2> QED
    BY <2>1, <2>2, <2>3, <2>4 DEF PacketInv, MouseOrder, StatusOfLast, OneRun, Clean
<1> QED
  BY <1>1, SendPackets, OtherPackets, ReadPackets, AssemblePackets DEF Next, mouse_ih

(* game_loop starts in sync; an interrupt left over from the commands is   *)
(* the one stale run that has its disturbance.                             *)
LEMMA InitPackets == Init => PacketInv
<1> SUFFICES ASSUME Init PROVE PacketInv
  OBVIOUS
<1>1. /\ obuf.dev = "none" /\ obuf = NoByte /\ pc = "receive" /\ irqs = {} /\ ~err /\ mixed = 0
      /\ arr = << >> /\ faults \in {0, 1} /\ (faults = 0 => pending = {})
      /\ marked = 0 /\ next[2] = 0
  BY NoByteFields DEF Init
<1>2. ~InHand /\ Reading = {}
  BY <1>1 DEF InHand, Reading
<1>3. InSync /\ ~Owing
  BY <1>1 DEF InSync, Owing
<1>4. Stale => faults = 1
  BY <1>1, <1>2 DEF Stale
<1>5. Paid
  <2>1. ToMislead = 0 /\ Count(Owing) = 0
    BY <1>1, <1>2, <1>3 DEF ToMislead, Count
  <2>2. Count(Stale) =< faults /\ Count(Stale) \in {0, 1}
    BY <1>1, <1>4 DEF Count
  <2> QED
    BY <1>1, <2>1, <2>2 DEF Paid
<1>6. Clean
  BY <1>1, <1>2, <1>3, <1>4 DEF Clean, NextPlace
<1> QED
  BY <1>1, <1>2, <1>5, <1>6 DEF PacketInv, MouseOrder, StatusOfLast, OneRun

(* However many bytes are damaged, of the mouse or of the keyboard,        *)
(* whichever interrupts the commands have left over and whatever the       *)
(* displacements: no packet reaches mouse_event_handler that the mouse has *)
(* not sent before the first disturbance, and in all no more than there    *)
(* were disturbances and data bytes that look like first bytes.            *)
THEOREM MixedIsPaidFor == Spec => []FaultsBoundMixed
<1>1. InputInv /\ PacketInv => FaultsBoundMixed
  <2> SUFFICES ASSUME InputInv, PacketInv PROVE FaultsBoundMixed
    OBVIOUS
  <2>1. /\ mixed \in Nat /\ faults \in Nat /\ marked \in Nat /\ ToMislead \in Nat
        /\ Count(Owing) \in Nat /\ Count(Stale) \in Nat
    BY Numbers DEF ToMislead, Count
  <2>2. mixed + ToMislead + Count(Owing) + Count(Stale) =< faults + marked
    BY DEF PacketInv, Paid
  <2>3. mixed =< faults + marked
    BY <2>1, <2>2
  <2> QED
    BY <2>3 DEF PacketInv, Clean, FaultsBoundMixed
<1> QED
  BY <1>1, InitInput, NextInput, InitPackets, NextPackets, PTL DEF Spec
=============================================================================
