------------------------------ MODULE MouseScan -----------------------------
(***************************************************************************)
(* mouse_test_packet and mouse_test_async of lab4.c with mouse_ih of       *)
(* lab4/mouse.c, port access by port access.  A movement sends a packet of *)
(* three bytes, and bit 3 marks the first, though the others, which hold a *)
(* displacement, may have it too; the packets are numbered modulo two to   *)
(* tell neighbours apart.  mouse_check, which mouse_ih asks first, is true *)
(* of every byte here: only the mouse sends.                               *)
(***************************************************************************)
EXTENDS ScanLoop, Sequences

CONSTANTS
    cnt,          \* argument of mouse_test_packet
    MaxMarked     \* bound on the data bytes with bit 3 of one behaviour

ASSUME MouseScanAssumption ==
    /\ cnt \in Nat
    /\ MaxMarked \in Nat

VARIABLES
    pos, packet,         \* the mouse's next byte, and the packet it is of
    marked,              \* data bytes with bit 3 so far
    arr,                 \* the bytes in arr; there are nbytes of them
    printed              \* packets printed

mouseVars == <<pos, packet, marked, arr, printed>>

MousePrograms == {"packet", "async"}

MouseInit ==
    /\ pos = 0 /\ packet = 0
    /\ marked = 0
    /\ arr = << >>
    /\ printed = 0

MouseSends ==
    /\ \E bit3, bad \in BOOLEAN :
        /\ ~bad /\ pos = 0 => bit3
        /\ Arrives([code |-> "data", pos |-> pos, packet |-> packet, bit3 |-> bit3,
                    intact |-> ~bad], bad)
        /\ marked' = IF ~bad /\ pos # 0 /\ bit3 THEN marked + 1 ELSE marked
        /\ marked' =< MaxMarked
    /\ pos' = (pos + 1) % 3
    /\ packet' = IF pos = 2 THEN 1 - packet ELSE packet
    /\ UNCHANGED <<arr, printed>>

-----------------------------------------------------------------------------
(* The condition of the loops.                                             *)
MouseContinue == IF prog = "packet" THEN printed < cnt ELSE Waits

(* Mutant: bit 3 is not looked at.                                         *)
AnyStarts(b) == TRUE

Starts(b) == b.bit3

(* Mutant: a packet is not counted.                                        *)
SameCount == printed

PacketCount == printed + 1

(* A packet that the mouse has sent.                                       *)
IsPacket(a) ==
    \A i \in 1..3 : a[i].intact /\ a[i].pos = i - 1 /\ a[i].packet = a[1].packet

(* The rest of mouse_ih and of the loop's turn: the byte is skipped, or    *)
(* stored, or completes a packet, which is printed.                        *)
MouseAssemble ==
    /\ pc = "error"
    /\ \/ /\ arr = << >> /\ ~Starts(byte)
          /\ Keep(FALSE)
          /\ UNCHANGED <<arr, printed>>
       \/ /\ Len(arr) < 2
          /\ arr # << >> \/ Starts(byte)
          /\ Keep(FALSE)
          /\ arr' = Append(arr, byte)
          /\ UNCHANGED printed
       \/ /\ Len(arr) = 2
          /\ Keep(~IsPacket(Append(arr, byte)))
          /\ arr' = << >>
          /\ printed' = IF prog = "packet" THEN PacketCount ELSE printed
    /\ UNCHANGED <<pos, packet, marked>>

mouse_ih == MouseAssemble \/ (LoopStep(MouseContinue) /\ UNCHANGED mouseVars)
=============================================================================
