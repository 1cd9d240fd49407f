----------------------------- MODULE InputPath ------------------------------
(***************************************************************************)
(* The byte level below Game: the i8042 controller with the one output     *)
(* buffer that mouse and keyboard share, and the two handlers that read it *)
(* port access by port access - mouse_ih (proj/src/mouse/mouse.c) and      *)
(* kbc_ih (proj/src/keyboard/keyboard.c).  Between two accesses of a       *)
(* handler the controller may fill an empty buffer.                        *)
(*                                                                         *)
(* The devices are modelled from how the handlers use them.  A byte of the *)
(* mouse knows its packet and its position in it, so that the properties   *)
(* can tell a packet as it was sent from one put together wrongly; the     *)
(* handlers look only at bit 3.  A damaged byte is one for which the       *)
(* controller sets the parity or timeout bit of the status register.       *)
(***************************************************************************)
EXTENDS Integers, Sequences

CONSTANTS
    KeyBytes,     \* bytes of the keyboard; "E0" starts a two-byte scancode
    SyncKeys,     \* those that have bit 3 set
    MaxFaults,    \* bound on the disturbances of one behaviour
    MaxMarked     \* bound on its data bytes with bit 3

ASSUME InputPathAssumption ==
    /\ SyncKeys \subseteq KeyBytes
    /\ MaxFaults \in Nat
    /\ MaxMarked \in Nat

VARIABLES
    obuf,         \* the output buffer
    aux, err,     \* status bits of the last byte that was in it
    pending,      \* interrupts the kernel has not delivered yet
    next,         \* <<packet, position>> of the mouse's next byte
    faults,       \* disturbances so far
    marked,       \* undamaged second and third bytes with bit 3 so far
    pc,           \* the port access the driver makes next
    irqs,         \* handlers the message still has to run, after this one
    byte,         \* the handler's local variable
    arr,          \* the nbytes bytes in arr
    flag2Bytes,
    event,        \* the byte keyboard_event_handler was last called with
    mixed         \* packets given to mouse_event_handler that were never sent

controller == <<obuf, aux, err, pending>>
mouse == <<arr, mixed>>
keyboard == <<flag2Bytes, event>>
vars == <<controller, next, faults, marked, pc, irqs, byte, mouse, keyboard>>

Devices == {"mouse", "kbc"}

Positions == 0..2

NoByte == [dev |-> "none", bad |-> FALSE]
MouseByte(packet, pos, bit3, bad) ==
    [dev |-> "mouse", packet |-> packet, pos |-> pos, bit3 |-> bit3, bad |-> bad]
KeyByte(code, bad) ==
    [dev |-> "kbc", code |-> code, bit3 |-> code \in SyncKeys, bad |-> bad]

Bytes ==
    [dev : {"mouse"}, packet : 0..1, pos : Positions, bit3 : BOOLEAN, bad : BOOLEAN]
        \cup [dev : {"kbc"}, code : KeyBytes, bit3 : BOOLEAN, bad : BOOLEAN]

-----------------------------------------------------------------------------
(* game_loop at its first driver_receive.  The answers to the commands     *)
(* before it were read by polling, and may have left their interrupt       *)
(* latched: a disturbance like a damaged byte.                             *)
Init ==
    /\ obuf = NoByte
    /\ aux = TRUE
    /\ err = FALSE
    /\ \/ pending = {} /\ faults = 0
       \/ pending \in (SUBSET Devices) \ {{}} /\ faults = 1 /\ MaxFaults > 0
    /\ next = <<0, 0>>
    /\ marked = 0
    /\ pc = "receive"
    /\ irqs = {}
    /\ byte = NoByte
    /\ arr = << >>
    /\ flag2Bytes = FALSE
    /\ event = NoByte
    /\ mixed = 0

(* A byte reaches the buffer, with its status bits and its interrupt.      *)
Fill(b) ==
    /\ obuf = NoByte
    /\ obuf' = b
    /\ aux' = (b.dev = "mouse")
    /\ err' = b.bad
    /\ pending' = pending \cup {b.dev}
    /\ faults' = IF b.bad THEN faults + 1 ELSE faults
    /\ faults' =< MaxFaults
    /\ UNCHANGED <<pc, irqs, byte, mouse, keyboard>>

(* The first byte of a packet has bit 3 set, unless it is damaged; the     *)
(* others, the displacements, may have it.                                 *)
MouseSends ==
    /\ \E bit3 \in BOOLEAN, bad \in BOOLEAN :
         /\ ~bad /\ next[2] = 0 => bit3
         /\ Fill(MouseByte(next[1], next[2], bit3, bad))
         /\ marked' = IF ~bad /\ next[2] # 0 /\ bit3 THEN marked + 1 ELSE marked
         /\ marked' =< MaxMarked
    /\ next' = IF next[2] = 2 THEN <<1 - next[1], 0>> ELSE <<next[1], next[2] + 1>>

KeyboardSends ==
    /\ \E code \in KeyBytes, bad \in BOOLEAN : Fill(KeyByte(code, bad))
    /\ UNCHANGED <<next, marked>>

-----------------------------------------------------------------------------
(* driver_receive returns every pending interrupt at once.                 *)
FirstAccess(S) ==
    IF "mouse" \in S THEN "mouse_check"
    ELSE IF "kbc" \in S THEN "kbc_full"
    ELSE "receive"

Running(S) == IF "mouse" \in S THEN S \ {"mouse"} ELSE S \ {"kbc"}

Receive ==
    /\ pc = "receive"
    /\ pending # {}
    /\ pc' = FirstAccess(pending)
    /\ irqs' = Running(pending)
    /\ pending' = {}
    /\ UNCHANGED <<obuf, aux, err, next, faults, marked, byte, mouse, keyboard>>

(* The handler returns to game_loop, which runs the next one.              *)
Return == pc' = FirstAccess(irqs) /\ irqs' = Running(irqs)

Access(at) == pc = at /\ UNCHANGED <<aux, err, pending, next, faults, marked>>

Goto(at) == pc' = at /\ UNCHANGED irqs

(* Mutant: the wrong bit of the status register.                           *)
CheckFull == obuf # NoByte

(* keyboard_check, called by both handlers: no byte of the mouse.          *)
keyboard_check == ~aux

(* A test of the status register: go on, or return.                        *)
Test(at, cond, to) ==
    /\ Access(at)
    /\ \/ cond /\ Goto(to)
       \/ ~cond /\ Return
    /\ UNCHANGED <<obuf, byte, mouse, keyboard>>

Read(at, to) ==
    /\ Access(at)
    /\ byte' = obuf
    /\ obuf' = NoByte
    /\ Goto(to)
    /\ UNCHANGED <<mouse, keyboard>>

(* mouse_ih asks whose byte it is before it asks whether there is one.     *)
MouseCheck == Test("mouse_check", ~keyboard_check, "mouse_full")

(* Mutant: a byte with an error is left in the buffer.                     *)
MouseFullNoError == Test("mouse_full", obuf # NoByte /\ ~err, "mouse_read")

MouseFull == Test("mouse_full", obuf # NoByte, "mouse_read")

MouseRead == Read("mouse_read", "mouse_error")

(* The three bytes of one packet, undamaged and in order.                  *)
AsSent(bs) ==
    /\ \A i \in DOMAIN bs : bs[i].dev = "mouse" /\ ~bs[i].bad
    /\ \A i \in DOMAIN bs : bs[i].packet = bs[1].packet /\ bs[i].pos = i - 1

(* Mutant: any byte can be the first of a packet.                          *)
AnyFirst == TRUE

(* A first byte must have bit 3 set.                                       *)
FitsPacket == arr # << >> \/ byte.bit3

(* Mutant: the packet is complete one byte too late.                       *)
CompletesLate == Len(arr) = 3

(* The byte is the third.                                                  *)
Completes == Len(arr) = 2

(* The rest of mouse_ih, after the status register was read for errors.    *)
MouseAssemble ==
    /\ Access("mouse_error")
    /\ \/ /\ err \/ ~FitsPacket
          /\ UNCHANGED mouse
       \/ /\ ~err /\ FitsPacket
          /\ ~Completes
          /\ arr' = Append(arr, byte)
          /\ UNCHANGED mixed
       \/ /\ ~err /\ FitsPacket
          /\ Completes
          /\ arr' = << >>
          /\ mixed' = IF AsSent(Append(arr, byte)) THEN mixed ELSE mixed + 1
    /\ Return
    /\ UNCHANGED <<obuf, byte, keyboard>>

-----------------------------------------------------------------------------
KbcFull == Test("kbc_full", obuf # NoByte, "kbc_check")

KbcCheck == Test("kbc_check", keyboard_check, "kbc_read")

KbcRead == Read("kbc_read", "kbc_error")

(* The rest of kbc_ih.  The second byte of a two-byte scancode is handled  *)
(* like a scancode of its own.                                             *)
KbcHandle ==
    /\ Access("kbc_error")
    /\ \/ /\ err
          /\ UNCHANGED keyboard
       \/ /\ ~err
          /\ byte.code = "E0"
          /\ flag2Bytes' = TRUE
          /\ UNCHANGED event
       \/ /\ ~err
          /\ byte.code # "E0"
          /\ flag2Bytes' = FALSE
          /\ event' = byte
    /\ Return
    /\ UNCHANGED <<obuf, byte, mouse>>

mouse_ih == MouseCheck \/ MouseFull \/ MouseRead \/ MouseAssemble
kbc_ih   == KbcFull \/ KbcCheck \/ KbcRead \/ KbcHandle

Next == MouseSends \/ KeyboardSends \/ Receive \/ mouse_ih \/ kbc_ih

Spec == Init /\ [][Next]_vars

-----------------------------------------------------------------------------
Accesses == {"receive", "mouse_check", "mouse_full", "mouse_read", "mouse_error",
             "kbc_full", "kbc_check", "kbc_read", "kbc_error"}

(* arr has its three bytes (a fourth would be written behind it), and the  *)
(* handlers read a byte only when there is one.                            *)
TypeOK ==
    /\ obuf \in Bytes \cup {NoByte}
    /\ aux \in BOOLEAN /\ err \in BOOLEAN
    /\ pending \subseteq Devices
    /\ next \in (0..1) \X Positions
    /\ faults \in 0..MaxFaults
    /\ marked \in 0..MaxMarked
    /\ pc \in Accesses
    /\ irqs \subseteq Devices
    /\ byte \in Bytes \cup {NoByte}
    /\ arr \in Seq(Bytes) /\ Len(arr) < 3
    /\ flag2Bytes \in BOOLEAN
    /\ event \in Bytes \cup {NoByte}
    /\ mixed \in Nat

(* The device whose handler is on its way to the buffer.                   *)
Reading ==
    IF pc \in {"mouse_check", "mouse_full", "mouse_read"} THEN {"mouse"}
    ELSE IF pc \in {"kbc_full", "kbc_check", "kbc_read"} THEN {"kbc"}
    ELSE {}

(* A byte in the buffer is never forgotten: an interrupt for it is still   *)
(* to come, or its handler has yet to read.  Otherwise the controller,     *)
(* which waits for the buffer to be read, would be silent for ever.        *)
NoStuckByte == obuf # NoByte => obuf.dev \in pending \cup irqs \cup Reading

(* kbc_ih takes no byte of the mouse, not even when it runs for a stale    *)
(* interrupt: the test comes after the one for a full buffer.              *)
KeysAreKeys == pc = "kbc_error" => byte.dev = "kbc"

(* No packet is put together wrongly before the first disturbance - a      *)
(* damaged byte, or a latched interrupt -, and after it no more than there *)
(* were disturbances and data bytes with bit 3, which look like the first  *)
(* of a packet: arr is never out of step by itself.                        *)
FaultsBoundMixed == mixed =< faults + marked /\ (faults = 0 => mixed = 0)
=============================================================================
