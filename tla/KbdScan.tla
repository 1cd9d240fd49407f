------------------------------- MODULE KbdScan ------------------------------
(***************************************************************************)
(* The three test functions of lab3 (kbd_test_scan, kbd_test_poll and      *)
(* kbd_test_timed_scan of lab3.c) with kbc_ih of lab3/keyboard.c, port     *)
(* access by port access.  A key sends one byte, or E0 and one byte; a     *)
(* damaged byte is received as any other.                                  *)
(***************************************************************************)
EXTENDS ScanLoop

CONSTANT KeyCodes        \* bytes of the keys, "81" (ESC_BREAK) among them

ASSUME KeysAssumption == "E0" \notin KeyCodes

VARIABLES
    second,              \* the keyboard's next byte follows an E0
    flagESC, flag2Bytes,
    asked, command       \* the command byte: wanted; whether it lets the keyboard
                         \* interrupt, and has its other bits

flags == <<flagESC, flag2Bytes>>
kbdVars == <<second, flags, asked, command>>

KeyboardPrograms == {"scan", "poll", "timed"}

KbdInit ==
    /\ second = FALSE
    /\ flagESC = TRUE
    /\ flag2Bytes = FALSE
    /\ asked = FALSE
    /\ command = [int |-> prog # "poll", kept |-> TRUE]

KeyboardSends ==
    /\ \E code, sent \in KeyCodes \cup {"E0"}, bad \in BOOLEAN :
        /\ second => sent # "E0"
        /\ ~bad => code = sent
        /\ Arrives([code |-> code, sent |-> sent, two |-> second], bad)
        /\ second' = (sent = "E0")
    /\ UNCHANGED <<flags, asked, command>>

(* The controller answers with the command byte.                           *)
CommandByte == [code |-> "command"]

CommandAnswers ==
    /\ asked
    /\ obuf = NoByte
    /\ obuf' = CommandByte
    /\ asked' = FALSE
    /\ UNCHANGED <<prog, err, faults, pending, pc, irqs, byte, counter, wrong, quiet,
                   second, flags, command>>

-----------------------------------------------------------------------------
(* The condition of the loops.                                             *)
KbdContinue == flagESC /\ Waits

Poll ==
    /\ pc = "loop" /\ KbdContinue
    /\ prog = "poll"
    /\ pc' = "full"
    /\ UNCHANGED <<prog, device, pending, irqs, byte, counter, wrong, quiet, kbdVars>>

(* Mutants: another byte is tested; flag2Bytes is never cleared.           *)
IsEscMake == byte.code = "01"
Keeps2Bytes == flag2Bytes

IsEsc == byte.code = "81"

(* flag2Bytes after a scancode was put together.                           *)
Cleared2Bytes == FALSE

(* The rest of kbc_ih: what it prints has two bytes when flag2Bytes is set.*)
KbcHandle ==
    /\ \/ /\ byte.code = "E0"
          /\ Keep(FALSE)
          /\ flag2Bytes' = TRUE
          /\ UNCHANGED flagESC
       \/ /\ byte.code # "E0"
          /\ Keep(flag2Bytes # byte.two \/ byte.code # byte.sent)
          /\ flag2Bytes' = Cleared2Bytes
          /\ flagESC' = (flagESC /\ ~IsEsc)
    /\ UNCHANGED <<second, asked, command>>

-----------------------------------------------------------------------------
(* enable_interrupts at the end of kbd_test_poll: the command is written   *)
(* and the output buffer read, filled or not; an empty one still shows its *)
(* last byte.                                                              *)
AskCommand ==
    /\ pc = "loop" /\ ~KbdContinue
    /\ prog = "poll"
    /\ asked' = TRUE
    /\ pc' = "get"
    /\ UNCHANGED <<prog, device, pending, irqs, byte, counter, wrong, quiet,
                   second, flags, command>>

GetCommand ==
    /\ pc = "get"
    /\ byte' = IF obuf = NoByte THEN byte ELSE obuf
    /\ obuf' = NoByte
    /\ pc' = "put"
    /\ UNCHANGED <<prog, err, faults, pending, irqs, counter, wrong, quiet, kbdVars>>

(* write_command_byte: the byte becomes the command byte, or goes to the   *)
(* keyboard when the polls ran out or the prefix could not be written.     *)
PutCommand ==
    /\ pc = "put"
    /\ \/ command' = [int |-> TRUE, kept |-> byte = CommandByte]
       \/ UNCHANGED command
    /\ pc' = "done"
    /\ UNCHANGED <<prog, device, pending, irqs, byte, counter, wrong, quiet,
                   second, flags, asked>>

enable_interrupts == AskCommand \/ GetCommand \/ PutCommand

kbc_ih == KbcHandle \/ (LoopStep(KbdContinue) /\ UNCHANGED kbdVars)

KbdProgram == Poll \/ kbc_ih \/ enable_interrupts
=============================================================================
