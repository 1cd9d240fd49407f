------------------------------ MODULE MouseCmd ------------------------------
(***************************************************************************)
(* The commands game_loop gives the mouse, and read_ACK_byte, which waits  *)
(* for the answers (proj/src/mouse/mouse.c): STREAM_MODE and DATA_REPORT   *)
(* before the game, DISABLE after it.                                      *)
(*                                                                         *)
(* The controller has an input buffer, which the program polls before it   *)
(* writes WR_MOUSE but not before the command itself; a command without    *)
(* the prefix goes to the keyboard.  Its output buffer carries answers and *)
(* other bytes of both devices, and the program tells them apart by value. *)
(* Every access to a port may fail.                                        *)
(***************************************************************************)
EXTENDS Integers

CONSTANTS
    POLLS,       \* polls of the input buffer before a command is written anyway
    MaxBusy,     \* polls that earlier work of the controller can last
    Garbage,     \* values of the uninitialized ack_byte
    Noise,       \* values of bytes that are no answers
    MaxCuts      \* waits cut short after which nothing more disturbs one

ASSUME MouseCmdAssumption ==
    /\ POLLS \in Nat \ {0}
    /\ MaxBusy \in 0..POLLS
    /\ MaxCuts \in Nat

VARIABLES
    pc, cmd,             \* the command and where its function is
    counterCycles,
    ack_byte,
    inbuf, prefixed,     \* input buffer; WR_MOUSE was taken from it
    todo, told,          \* device that has to answer, and which command
    obuf, reply,         \* output buffer; it holds an answer to a command
    did, blind,          \* the mouse carried the command out; it was written
                         \* without its prefix
    misled,              \* read_ACK_byte returned 0 for neither
    unsent,              \* a command byte could not be written
    cuts                 \* waits ended by what only looks like an answer, or by
                         \* a status that could not be read

program == <<pc, cmd, counterCycles, ack_byte, blind, misled, unsent, cuts>>
vars == <<program, inbuf, prefixed, todo, told, obuf, reply, did>>

Commands == {"STREAM_MODE", "DATA_REPORT", "DISABLE"}
Answers  == {"ACK", "NACK", "ERROR"}

(* The start of game_loop; the controller may still be at earlier work.    *)
Init ==
    /\ pc = "poll"
    /\ cmd = "STREAM_MODE"
    /\ counterCycles = 0
    /\ ack_byte = "none"
    /\ inbuf \in {"empty", "earlier"}
    /\ prefixed = FALSE
    /\ todo = "nobody" /\ told = "nothing"
    /\ obuf = "empty" /\ reply = FALSE
    /\ did = FALSE /\ blind = FALSE
    /\ misled = FALSE
    /\ unsent = FALSE
    /\ cuts = 0

-----------------------------------------------------------------------------
(* The controller takes what is in its input buffer.  A device that gets a *)
(* command before it has answered the last one answers the new one only.   *)
Take ==
    /\ inbuf # "empty"
    /\ inbuf' = "empty"
    /\ prefixed' = (inbuf = "WR_MOUSE")
    /\ IF inbuf \in Commands
       THEN /\ todo' = IF prefixed THEN "mouse" ELSE "kbc"
            /\ told' = inbuf
       ELSE UNCHANGED <<todo, told>>
    /\ UNCHANGED <<program, obuf, reply, did>>

(* The mouse does what it is told, or wants the byte again, or gives up.   *)
MouseAnswers(a) ==
    /\ todo = "mouse"
    /\ obuf = "empty"
    /\ obuf' = a
    /\ reply' = TRUE
    /\ todo' = "nobody" /\ told' = "nothing"
    /\ did' = (did \/ (a = "ACK" /\ told = cmd))
    /\ UNCHANGED <<program, inbuf, prefixed>>

(* DATA_REPORT and DISABLE are commands of the keyboard too.               *)
KeyboardAnswers ==
    /\ todo = "kbc"
    /\ obuf = "empty"
    /\ obuf' = IF told = "STREAM_MODE" THEN "NACK" ELSE "ACK"
    /\ reply' = TRUE
    /\ todo' = "nobody" /\ told' = "nothing"
    /\ UNCHANGED <<program, inbuf, prefixed, did>>

(* Something that is no answer may still disturb a wait.                   *)
MayDisturb == cuts < MaxCuts

(* A scancode or a byte of a packet, perhaps with the value of an answer.  *)
OtherByte(b) ==
    /\ obuf = "empty"
    /\ b \in Answers => MayDisturb
    /\ obuf' = b
    /\ UNCHANGED <<program, inbuf, prefixed, todo, told, reply, did>>

-----------------------------------------------------------------------------
(* Mutant: one poll is missing.                                            *)
GivesUpEarly == counterCycles >= POLLS - 1

GivesUp == counterCycles = POLLS

(* kbc_input_buf_full says that the buffer is free, also when it could not *)
(* read the status; what is in the buffer is then written over.            *)
PollFree ==
    /\ pc = "poll" /\ ~GivesUp
    /\ pc' = "write"
    /\ inbuf' = "WR_MOUSE"
    /\ UNCHANGED <<cmd, counterCycles, ack_byte, blind, misled, unsent, cuts, prefixed, todo,
                   told, obuf, reply, did>>

(* It says so, but sys_outb fails and nobody looks.                        *)
PrefixFails ==
    /\ pc = "poll" /\ ~GivesUp
    /\ pc' = "write"
    /\ blind' = TRUE
    /\ UNCHANGED <<cmd, counterCycles, ack_byte, misled, unsent, cuts, inbuf, prefixed, todo,
                   told, obuf, reply, did>>

PollFull ==
    /\ pc = "poll" /\ ~GivesUp
    /\ inbuf # "empty"
    /\ counterCycles < MaxBusy
    /\ counterCycles' = counterCycles + 1
    /\ UNCHANGED <<pc, cmd, ack_byte, blind, misled, unsent, cuts, inbuf, prefixed, todo, told,
                   obuf, reply, did>>

(* After the last poll the command is written all the same.                *)
GiveUp ==
    /\ pc = "poll" /\ GivesUp
    /\ pc' = "write"
    /\ UNCHANGED <<cmd, counterCycles, ack_byte, blind, misled, unsent, cuts, inbuf, prefixed,
                   todo, told, obuf, reply, did>>

(* The command byte, written over whatever the buffer holds unless         *)
(* sys_outb fails, and read_ACK_byte is called.  WR_MOUSE is taken faster  *)
(* than the program makes its next kernel call.                            *)
WriteCommand ==
    /\ pc = "write"
    /\ inbuf # "WR_MOUSE"
    /\ \/ inbuf' = cmd /\ UNCHANGED unsent
       \/ unsent' = TRUE /\ UNCHANGED inbuf
    /\ ack_byte' \in {g \in Garbage : g \in Answers => MayDisturb}
    /\ pc' = "status"
    /\ blind' = (blind \/ counterCycles = POLLS)
    /\ UNCHANGED <<cmd, counterCycles, misled, cuts, prefixed, todo, told, obuf, reply, did>>

(* The next command.                                                       *)
Begins(c) ==
    /\ cmd' = c
    /\ pc' = "poll"
    /\ did' = FALSE /\ blind' = FALSE

(* The caller after an answer other than NACK: an error of STREAM_MODE     *)
(* ends _mouse_enable_data_reporting_, one of DATA_REPORT is ignored.      *)
Answered(r) ==
    \/ /\ cmd = "STREAM_MODE" /\ r = 0
       /\ Begins("DATA_REPORT")
    \/ /\ cmd = "DATA_REPORT" \/ (cmd = "STREAM_MODE" /\ r = -1)
       /\ pc' = "playing"
       /\ UNCHANGED <<cmd, did, blind>>
    \/ /\ cmd = "DISABLE"
       /\ pc' = "done"
       /\ UNCHANGED <<cmd, did, blind>>

(* Mutants: an unknown byte is an error; NACK does not end the wait.       *)
IsErrorOrOther(a) == a = "ERROR" \/ a \notin Answers
IsNackNever(a) == FALSE

IsAck(a) == a = "ACK"

IsError(a) == a = "ERROR"

IsNack(a) == a = "NACK"

(* What read_ACK_byte and the loop around it do with the last byte, which  *)
(* may be an answer.  ack_byte lasts as long as the call.                  *)
Judge(a, isReply) ==
    /\ \/ IsAck(a) /\ Answered(0)
       \/ ~IsAck(a) /\ IsError(a) /\ Answered(-1)
       \/ ~IsAck(a) /\ ~IsError(a) /\ IsNack(a) /\ pc' = "poll" /\ UNCHANGED <<cmd, did, blind>>
       \/ ~IsAck(a) /\ ~IsError(a) /\ ~IsNack(a) /\ pc' = "status" /\ UNCHANGED <<cmd, did, blind>>
    /\ ack_byte' = IF pc' = "status" THEN a ELSE "none"
    /\ counterCycles' = IF pc' = "status" THEN counterCycles ELSE 0
    /\ misled' = (misled \/ (IsAck(a) /\ ~did /\ ~blind))
    /\ cuts' = IF a \in Answers /\ ~isReply THEN cuts + 1 ELSE cuts

(* The status cannot be read: the answer is not waited for.                *)
StatusFails ==
    /\ pc = "status"
    /\ MayDisturb
    /\ Answered(-1)
    /\ ack_byte' = "none"
    /\ counterCycles' = 0
    /\ cuts' = cuts + 1
    /\ UNCHANGED <<misled, unsent, inbuf, prefixed, todo, told, obuf, reply>>

(* The status says that there is no byte: the old one is judged again.     *)
StatusEmpty ==
    /\ pc = "status"
    /\ obuf = "empty"
    /\ Judge(ack_byte, FALSE)
    /\ UNCHANGED <<unsent, inbuf, prefixed, todo, told, obuf, reply>>

StatusFull ==
    /\ pc = "status"
    /\ obuf # "empty"
    /\ pc' = "get"
    /\ UNCHANGED <<cmd, counterCycles, ack_byte, blind, misled, unsent, cuts, inbuf, prefixed,
                   todo, told, obuf, reply, did>>

GetByte ==
    /\ pc = "get"
    /\ obuf' = "empty"
    /\ reply' = FALSE
    /\ Judge(obuf, reply)
    /\ UNCHANGED <<unsent, inbuf, prefixed, todo, told>>

(* A byte that cannot be read is 0 (utils.c:18-20), and stays where it is. *)
GetFails ==
    /\ pc = "get"
    /\ Judge("other", FALSE)
    /\ UNCHANGED <<unsent, inbuf, prefixed, todo, told, obuf, reply>>

read_ACK_byte == StatusFails \/ StatusEmpty \/ StatusFull \/ GetByte \/ GetFails

(* During the game the interrupt handlers empty the buffer.                *)
Handled ==
    /\ pc = "playing"
    /\ obuf # "empty"
    /\ obuf' = "empty"
    /\ reply' = FALSE
    /\ UNCHANGED <<program, inbuf, prefixed, todo, told, did>>

(* The game ends; again the controller may be at earlier work.             *)
mouse_disable_data_reporting ==
    /\ pc = "playing"
    /\ Begins("DISABLE")
    /\ inbuf' \in {inbuf, "earlier"}
    /\ UNCHANGED <<counterCycles, ack_byte, misled, unsent, cuts, prefixed, todo, told, obuf,
                   reply>>

(* The two command functions at work.                                      *)
Commanding ==
    \/ PollFree \/ PrefixFails \/ PollFull \/ GiveUp \/ WriteCommand
    \/ read_ACK_byte

-----------------------------------------------------------------------------
(* "ACK ... if everything OK" (ps2.h:25): when read_ACK_byte returns 0 the *)
(* mouse has carried the command out, unless it was written without its    *)
(* prefix - until the first wait that ends on something else than an       *)
(* answer: a status that could not be read, a value left in ack_byte, a    *)
(* byte of a movement.                                                     *)
AckMeansDone == misled => cuts > 0

One(b) == IF b THEN 1 ELSE 0

(* Answers that were asked for and not yet read.                           *)
Outstanding == One(inbuf \in Commands) + One(todo # "nobody") + One(reply)

(* Answers fall behind commands by one for each wait that was cut short,   *)
(* and never by more: when a function begins or ends, at most that many    *)
(* are on their way, which later waits will take for their own.            *)
AnswersInStep == pc \in {"poll", "playing", "done"} => Outstanding =< cuts
=============================================================================
