----------------------------- MODULE CmdProofs ------------------------------
(***************************************************************************)
(* Commands and answers of the mouse fall out of step by no more than the  *)
(* waits that were cut short, an acknowledgement is true until the first   *)
(* of them, and a run that succeeds leaves nothing behind.                 *)
(***************************************************************************)
EXTENDS Lifecycle, TLAPS

Waiting == pc \in {"status", "get"}

(* The answers on their way are counted: the command that is waited for    *)
(* may have one, and each wait that was cut short may have left one.       *)
CountInv ==
    /\ pc \in {"poll", "write", "status", "get", "playing", "done"}
    /\ cmd \in Commands
    /\ cuts \in Nat
    /\ reply \in BOOLEAN
    /\ reply => obuf \in Answers
    /\ Outstanding =< cuts + One(Waiting)

(* As long as no wait was cut short, the command follows its prefix to the *)
(* mouse and the answer is the answer to it, or it was written blindly.    *)
AckInv ==
    cuts = 0 =>
        /\ ~misled
        /\ pc = "write" => \/ inbuf = "WR_MOUSE"
                           \/ inbuf = "empty" /\ prefixed
                           \/ counterCycles = POLLS
                           \/ blind
        /\ Waiting /\ ~blind =>
               /\ inbuf \in Commands => inbuf = cmd /\ prefixed
               /\ todo # "nobody" => todo = "mouse" /\ told = cmd
               /\ reply /\ obuf = "ACK" => did

(* The inductive invariant.                                                *)
CmdInv == CountInv /\ AckInv

-----------------------------------------------------------------------------
(* Nothing is on its way when the count is 0.                              *)
LEMMA NoneOutstanding ==
    ASSUME Outstanding =< 0, reply \in BOOLEAN
    PROVE  inbuf \notin Commands /\ todo = "nobody" /\ ~reply
BY DEF Outstanding, One

(* game_loop starts with nothing on its way.                               *)
LEMMA InitCmd == Init => CmdInv
<1> SUFFICES ASSUME Init PROVE CmdInv
  OBVIOUS
<1>1. inbuf \notin Commands /\ todo = "nobody" /\ reply = FALSE /\ pc = "poll" /\ cuts = 0
  BY DEF Init, Commands
<1>2. One(inbuf \in Commands) = 0 /\ One(todo # "nobody") = 0 /\ One(reply) = 0
  BY <1>1 DEF One
<1>3. CountInv
  <2>1. Outstanding = 0 /\ One(Waiting) = 0
    BY <1>1, <1>2 DEF Outstanding, Waiting, One
  <2>2. cmd \in Commands
    BY DEF Init, Commands
  <2>3. reply \in BOOLEAN /\ ~reply
    BY <1>1
  <2> QED
    BY <1>1, <2>1, <2>2, <2>3 DEF CountInv
<1>4. AckInv
  BY <1>1 DEF AckInv, Waiting, Init
<1> QED
  BY <1>3, <1>4 DEF CmdInv

(* The devices pass an answer on, and make none of their own.              *)
LEMMA DevicesKeep ==
    ASSUME CmdInv,
           \/ Take \/ KeyboardAnswers
           \/ \E b \in Noise : OtherByte(b)
           \/ \E a \in Answers : MouseAnswers(a)
    PROVE  CmdInv'
<1> USE DEF CmdInv, CountInv, program, Waiting
<1>1. CASE Take
  <2>1. Outstanding' =< Outstanding
    BY <1>1 DEF Take, Outstanding, One, Commands
  <2>2. CountInv'
    BY <1>1, <2>1 DEF Take, Outstanding, One
  <2>3. AckInv'
    BY <1>1 DEF Take, AckInv, Commands
  <2> QED
    BY <2>2, <2>3
<1>2. CASE KeyboardAnswers
  <2>1. Outstanding' =< Outstanding
    BY <1>2 DEF KeyboardAnswers, Outstanding, One, Answers
  <2>2. CountInv'
    BY <1>2, <2>1 DEF KeyboardAnswers, Outstanding, One, Answers
  <2>3. AckInv'
    BY <1>2 DEF KeyboardAnswers, AckInv
  <2> QED
    BY <2>2, <2>3
<1>3. CASE \E b \in Noise : OtherByte(b)
  <2>1. ~reply
    BY <1>3 DEF OtherByte, Answers
  <2>2. CountInv'
    BY <1>3, <2>1 DEF OtherByte, Outstanding
  <2>3. AckInv'
    BY <1>3, <2>1 DEF OtherByte, AckInv
  <2> QED
    BY <2>2, <2>3
<1>4. CASE \E a \in Answers : MouseAnswers(a)
  <2>1. Outstanding' =< Outstanding
    BY <1>4 DEF MouseAnswers, Outstanding, One, Answers
  <2>2. CountInv'
    BY <1>4, <2>1 DEF MouseAnswers, Outstanding, One, Answers
  <2>3. AckInv'
    <3>1. PICK a \in Answers : MouseAnswers(a)
      BY <1>4
    <3>2. ASSUME cuts' = 0, Waiting', ~blind', reply', obuf' = "ACK" PROVE did'
      <4>1. todo = "mouse" /\ told = cmd /\ a = "ACK"
        BY <3>1, <3>2 DEF MouseAnswers, AckInv
      <4> QED
        BY <3>1, <4>1 DEF MouseAnswers
    <3> QED
      BY <3>1, <3>2 DEF MouseAnswers, AckInv
  <2> QED
    BY <2>2, <2>3
<1> QED
  BY <1>1, <1>2, <1>3, <1>4

(* The value a wait goes on or ends with.                                  *)
LEMMA JudgeEnds ==
    ASSUME NEW a, NEW isReply, Judge(a, isReply), cmd \in Commands
    PROVE  /\ a \in Answers => pc' \in {"poll", "playing", "done"}
           /\ a \notin Answers => pc' = "status" /\ UNCHANGED <<cmd, did, blind, cuts>>
           /\ cmd' \in Commands
BY DEF Judge, Answered, Begins, IsAck, IsError, IsNack, Answers, Commands

(* A wait that ends takes its answer with it, or is counted as cut short.  *)
LEMMA JudgeKeeps ==
    ASSUME CmdInv, NEW a, NEW isReply \in BOOLEAN, Judge(a, isReply), Waiting,
           UNCHANGED <<unsent, inbuf, prefixed, todo, told>>,
           reply' \in BOOLEAN,
           isReply => reply /\ a = obuf /\ ~reply',
           ~isReply => reply' = reply,
           reply' => obuf' = obuf
    PROVE  CmdInv'
<1> USE DEF CmdInv, CountInv
<1>1. /\ pc' \in {"poll", "status", "playing", "done"} /\ cmd' \in Commands
      /\ reply' => obuf' \in Answers
  BY JudgeEnds
<1>2. cuts' = IF a \in Answers /\ ~isReply THEN cuts + 1 ELSE cuts
  BY DEF Judge
<1>3. Outstanding =< cuts + 1
  BY DEF One
<1>4. CASE a \in Answers
  <2>1. pc' \in {"poll", "playing", "done"}
    BY <1>4, JudgeEnds
  <2>2. Outstanding' =< cuts'
    <3>1. CASE isReply
      BY <1>2, <1>3, <3>1 DEF Outstanding, One
    <3>2. CASE ~isReply
      <4>1. Outstanding' = Outstanding /\ cuts' = cuts + 1
        BY <1>2, <1>4, <3>2 DEF Outstanding
      <4> QED
        BY <1>3, <4>1
    <3> QED
      BY <3>1, <3>2
  <2>3. CountInv'
    BY <1>1, <1>2, <2>1, <2>2 DEF Waiting, One
  <2>4. ASSUME cuts' = 0 PROVE ~misled'
    <3>1. isReply /\ cuts = 0
      BY <1>2, <1>4, <2>4
    <3>2. ~misled /\ (obuf = "ACK" => did \/ blind)
      BY <3>1 DEF AckInv
    <3> QED
      BY <3>1, <3>2 DEF Judge, IsAck
  <2>5. AckInv'
    BY <2>1, <2>4 DEF AckInv, Waiting
  <2> QED
    BY <2>3, <2>5
<1>5. CASE a \notin Answers
  <2>1. pc' = "status" /\ UNCHANGED <<cmd, did, blind, cuts>>
    BY <1>5, JudgeEnds
  <2>2. ~isReply /\ reply' = reply
    BY <1>5
  <2>3. CountInv'
    <3>1. Outstanding' = Outstanding
      BY <2>2 DEF Outstanding
    <3> QED
      BY <1>1, <1>3, <2>1, <2>2, <3>1 DEF Waiting, One
  <2>4. cuts = 0 => ~misled'
    BY <1>5 DEF Judge, IsAck, Answers, AckInv
  <2>5. AckInv'
    BY <2>1, <2>2, <2>4 DEF AckInv, Waiting
  <2> QED
    BY <2>3, <2>5
<1> QED
  BY <1>4, <1>5

(* A byte that is taken by a handler takes its answer with it.             *)
LEMMA BufferEmptied ==
    ASSUME CmdInv, obuf' = "empty", reply' = FALSE,
           UNCHANGED <<program, inbuf, prefixed, todo, told, did>>
    PROVE  CmdInv'
<1>1. reply \in BOOLEAN
  BY DEF CmdInv, CountInv
<1>2. One(reply') = 0 /\ (One(reply) = 0 \/ One(reply) = 1)
  BY <1>1 DEF One
<1>3. UNCHANGED <<pc, cmd, counterCycles, blind, misled, cuts>>
  BY DEF program
<1>4. CountInv'
  <2>1. /\ One(inbuf \in Commands)' = One(inbuf \in Commands)
        /\ One(todo # "nobody")' = One(todo # "nobody")
        /\ One(Waiting)' = One(Waiting)
    BY <1>3 DEF Waiting
  <2>2. One(inbuf \in Commands) \in Nat /\ One(todo # "nobody") \in Nat /\ One(Waiting) \in Nat
    BY DEF One
  <2>3. (Outstanding =< cuts + One(Waiting))'
    BY <1>2, <1>3, <2>1, <2>2 DEF Outstanding, CmdInv, CountInv
  <2> QED
    BY <1>3, <2>3 DEF CmdInv, CountInv
<1>5. AckInv'
  BY <1>3 DEF CmdInv, AckInv, Waiting
<1> QED
  BY <1>4, <1>5 DEF CmdInv

(* The program keeps it.                                                   *)
LEMMA ProgramKeeps ==
    ASSUME CmdInv,
           Commanding \/ Handled \/ mouse_disable_data_reporting
    PROVE  CmdInv'
<1> USE DEF CmdInv, CountInv
<1>1. CASE PollFree
  <2>1. Outstanding' =< Outstanding
    BY <1>1 DEF PollFree, Outstanding, One, Commands
  <2> QED
    BY <1>1, <2>1 DEF PollFree, AckInv, Waiting, Outstanding, One
<1>2. CASE PrefixFails
  BY <1>2 DEF PrefixFails, AckInv, Waiting, Outstanding, One
<1>3. CASE PollFull
  BY <1>3 DEF PollFull, AckInv, Waiting, Outstanding, One
<1>4. CASE GiveUp
  BY <1>4 DEF GiveUp, GivesUp, AckInv, Waiting, Outstanding, One
<1>5. CASE WriteCommand
  <2>1. Outstanding =< cuts
    BY <1>5 DEF WriteCommand, Waiting, One
  <2>2. Outstanding' =< Outstanding + 1
    BY <1>5 DEF WriteCommand, Outstanding, One
  <2>3. CountInv'
    BY <1>5, <2>1, <2>2 DEF WriteCommand, Outstanding, Waiting, One
  <2>4. AckInv'
    BY <1>5, <2>1, NoneOutstanding DEF WriteCommand, AckInv, Waiting, Commands
  <2> QED
    BY <2>3, <2>4
<1>6. CASE StatusFails
  <2>1. pc' \in {"poll", "playing", "done"} /\ cmd' \in Commands /\ cuts' = cuts + 1
    BY <1>6 DEF StatusFails, Answered, Begins, Commands
  <2>2. UNCHANGED <<inbuf, todo, obuf, reply>> /\ Outstanding' = Outstanding
    BY <1>6 DEF StatusFails, Outstanding
  <2>3. Outstanding =< cuts + 1
    BY <1>6 DEF StatusFails, Waiting, One
  <2> QED
    BY <2>1, <2>2, <2>3 DEF AckInv, Waiting, One
<1>7. CASE StatusEmpty
  BY <1>7, JudgeKeeps DEF StatusEmpty, Waiting
<1>8. CASE StatusFull
  BY <1>8 DEF StatusFull, AckInv, Waiting, Outstanding, One
<1>9. CASE GetByte
  <2>1. /\ Judge(obuf, reply) /\ reply' = FALSE /\ Waiting
        /\ UNCHANGED <<unsent, inbuf, prefixed, todo, told>>
    BY <1>9 DEF GetByte, Waiting
  <2> QED
    BY <2>1, JudgeKeeps
<1>10. CASE GetFails
  BY <1>10, JudgeKeeps DEF GetFails, Waiting
<1>11. CASE Handled
  BY <1>11, BufferEmptied DEF Handled, program
<1>12. CASE mouse_disable_data_reporting
  BY <1>12
     DEF mouse_disable_data_reporting, Begins, AckInv, Waiting, Outstanding, One, Commands
<1> QED
  BY <1>1, <1>2, <1>3, <1>4, <1>5, <1>6, <1>7, <1>8, <1>9, <1>10, <1>11, <1>12
     DEF Commanding, read_ACK_byte

(* The handler of the system keeps it: at worst an answer is lost.         *)
LEMMA SystemKeeps ==
    ASSUME CmdInv, SystemTakes
    PROVE  CmdInv'
BY BufferEmptied DEF SystemTakes

(* The steps of the program around the commands do not touch them.         *)
LEMMA AroundKeeps ==
    ASSUME CmdInv, UNCHANGED vars
    PROVE  CmdInv'
BY DEF vars, program, CmdInv, CountInv, AckInv, Waiting, Outstanding, One

(* Every step keeps it.                                                    *)
LEMMA NextCmd == CmdInv /\ [LifeNext]_lifeVars => CmdInv'
<1> SUFFICES ASSUME CmdInv, [LifeNext]_lifeVars PROVE CmdInv'
  OBVIOUS
<1>1. CASE UNCHANGED lifeVars
  BY <1>1, AroundKeeps DEF lifeVars
<1>2. CASE DisableBegins \/ Command \/ LoopHandles
  BY <1>2, ProgramKeeps DEF DisableBegins, Command, LoopHandles
<1>3. CASE Controller \/ \E a \in Answers : Mouse(a)
  BY <1>3, DevicesKeep DEF Controller, Mouse
<1>4. CASE SystemTakes
  BY <1>4, SystemKeeps
<1>5. CASE \/ vg_prepareGraphics \/ vg_load_sprites \/ vg_setGraphics \/ Subscribe
           \/ Unsubscribe \/ vg_exit \/ vg_free \/ Return \/ LoopEnds
           \/ EnableReturns \/ DisableReturns
  <2>1. UNCHANGED vars
    BY <1>5 DEF vg_prepareGraphics, vg_load_sprites, vg_setGraphics, Subscribe, Unsubscribe,
                vg_exit, ExitFails, vg_free, Return, LoopEnds, EnableReturns, DisableReturns,
                Goes, Ends
  <2> QED
    BY <2>1, AroundKeeps
<1> QED
  BY <1>1, <1>2, <1>3, <1>4, <1>5 DEF LifeNext, Main

(* It holds in every state of both programs.                               *)
LEMMA CmdInvHolds == LifeSpec => []CmdInv
<1>1. LifeInit => CmdInv
  BY InitCmd DEF LifeInit
<1> QED
  BY <1>1, NextCmd, PTL DEF LifeSpec

(* Until a wait ends on something that is no answer, an acknowledged       *)
(* command was carried out by the mouse or written without its prefix:     *)
(* for any number of polls, any values of ack_byte and of other bytes,     *)
(* whichever accesses and calls fail and whatever the system's handler     *)
(* takes.                                                                  *)
THEOREM AckIsTrue == LifeSpec => []AckMeansDone
<1>1. CmdInv => AckMeansDone
  BY DEF CmdInv, CountInv, AckInv, AckMeansDone
<1> QED
  BY <1>1, CmdInvHolds, PTL

(* Whatever ended the waits, a command begins and a function returns with  *)
(* at most one answer on its way for each wait that was cut short.         *)
THEOREM AnswersStayInStep == LifeSpec => []AnswersInStep
<1>1. CmdInv => AnswersInStep
  BY DEF CmdInv, CountInv, AnswersInStep, Waiting, One
<1> QED
  BY <1>1, CmdInvHolds, PTL

-----------------------------------------------------------------------------
(* The rest of Lifecycle: what each step of the two programs leaves behind.*)

(* The game: the buffer is there until it is freed, graphics mode lasts    *)
(* from its setting to vg_exit, and the subscriptions last for the loop.   *)
ProjInv ==
    /\ at \in 0..11
    /\ at = 11 => ~allocated
    /\ graphics => at \in {0} \cup 4..9
    /\ at \notin {6, 7} => hooks \subseteq kept

(* lab4: no graphics; its commands are given while the mouse is its own.   *)
Lab4Inv ==
    /\ at \in 0..6
    /\ ~allocated /\ ~graphics
    /\ at \notin 2..5 => hooks \subseteq kept
    /\ at \in 2..5 /\ ~refused => "mouse" \in hooks
    /\ at = 1 => pc = "poll"
    /\ at \in {0, 5, 6} => pc = "done"

LifeInv ==
    /\ prog \in {"proj", "lab4"}
    /\ prog = "proj" => ProjInv
    /\ prog = "lab4" => Lab4Inv
    /\ CleanReturn

(* Where in its program each step is.                                      *)
LEMMA StageOfProj ==
    ASSUME prog = "proj", at \in 0..11
    PROVE  /\ Stage = "prepare" <=> at = 1
           /\ Stage = "load" <=> at = 2
           /\ Stage = "mode" <=> at = 3
           /\ Stage = "enable" <=> at = 4
           /\ Stage = "subscribe" <=> at = 5
           /\ Stage = "loop" <=> at = 6
           /\ Stage = "unsubscribe" <=> at = 7
           /\ Stage = "disable" <=> at = 8
           /\ Stage = "exit" <=> at = 9
           /\ Stage = "free" <=> at = 10
           /\ Stage = "return" <=> at = 11
<1>1. at \in {0, 1, 2, 3, 4, 5, 6, 7, 8, 9, 10, 11}
  OBVIOUS
<1>2. Stage = IF at = 0 THEN "ended" ELSE ProjSteps[at]
  BY DEF Stage, Steps
<1> QED
  BY <1>1, <1>2 DEF ProjSteps

(* The steps of lab4's mouse_test_packet by their numbers.                 *)
LEMMA StageOfLab4 ==
    ASSUME prog = "lab4", at \in 0..6
    PROVE  /\ Stage \notin {"prepare", "load", "mode", "exit", "free"}
           /\ Stage = "subscribe" <=> at = 1
           /\ Stage = "enable" <=> at = 2
           /\ Stage = "loop" <=> at = 3
           /\ Stage = "disable" <=> at = 4
           /\ Stage = "unsubscribe" <=> at = 5
           /\ Stage = "return" <=> at = 6
<1>1. at \in {0, 1, 2, 3, 4, 5, 6}
  OBVIOUS
<1>2. Stage = IF at = 0 THEN "ended" ELSE Lab4Steps[at]
  BY DEF Stage, Steps
<1> QED
  BY <1>1, <1>2 DEF Lab4Steps

(* The programs start with nothing held.                                   *)
LEMMA InitLife == LifeInit => LifeInv
BY ProgramsAssumption
   DEF LifeInit, Init, LifeInv, ProjInv, Lab4Inv, CleanReturn

(* A step of the devices, of a command or of a handler leaves the program  *)
(* where it is.                                                            *)
LEMMA InnerKeeps ==
    ASSUME LifeInv, UNCHANGED <<prog, at, ret, allocated, graphics, hooks, refused, kept>>,
           prog = "lab4" /\ at \in {0, 1, 5, 6} => pc' = pc
    PROVE  LifeInv'
BY DEF LifeInv, ProjInv, Lab4Inv, CleanReturn

(* The steps of the game.                                                  *)
LEMMA ProjStep ==
    ASSUME LifeInv, prog = "proj",
           \/ vg_prepareGraphics \/ vg_load_sprites \/ vg_setGraphics \/ Subscribe
           \/ Unsubscribe \/ vg_exit \/ vg_free \/ Return \/ LoopEnds
           \/ EnableReturns \/ DisableReturns
    PROVE  LifeInv'
<1> USE DEF LifeInv, ProjInv, CleanReturn, Goes, Ends, EXIT_SUCCESS, EXIT_FAILURE
<1>1. CASE vg_prepareGraphics
  BY <1>1, StageOfProj DEF vg_prepareGraphics
<1>2. CASE vg_load_sprites
  BY <1>2, StageOfProj DEF vg_load_sprites
<1>3. CASE vg_setGraphics
  BY <1>3, StageOfProj DEF vg_setGraphics
<1>4. CASE Subscribe
  BY <1>4, StageOfProj DEF Subscribe
<1>5. CASE Unsubscribe
  BY <1>5, StageOfProj DEF Unsubscribe
<1>6. CASE vg_exit
  BY <1>6, StageOfProj DEF vg_exit, ExitFails
<1>7. CASE vg_free
  BY <1>7, StageOfProj DEF vg_free
<1>8. CASE Return
  BY <1>8, StageOfProj DEF Return
<1>9. CASE LoopEnds
  BY <1>9, StageOfProj DEF LoopEnds
<1>10. CASE EnableReturns
  BY <1>10, StageOfProj DEF EnableReturns
<1>11. CASE DisableReturns
  BY <1>11, StageOfProj DEF DisableReturns
<1> QED
  BY <1>1, <1>2, <1>3, <1>4, <1>5, <1>6, <1>7, <1>8, <1>9, <1>10, <1>11

(* The steps of lab4.                                                      *)
LEMMA Lab4Step ==
    ASSUME LifeInv, prog = "lab4",
           \/ vg_prepareGraphics \/ vg_load_sprites \/ vg_setGraphics \/ Subscribe
           \/ Unsubscribe \/ vg_exit \/ vg_free \/ Return \/ LoopEnds
           \/ EnableReturns \/ DisableReturns
    PROVE  LifeInv'
<1> USE DEF LifeInv, Lab4Inv, CleanReturn, Goes, Ends, EXIT_SUCCESS
<1>1. CASE Subscribe
  <2>1. at = 1 /\ at' = 2
    BY <1>1, StageOfLab4 DEF Subscribe
  <2>2. UNCHANGED <<prog, ret, taken, pc, allocated, graphics>>
    BY <1>1 DEF Subscribe, vars, program
  <2>3. ~refused' => "mouse" \in hooks'
    BY <1>1, Zenon DEF Subscribe
  <2> QED
    BY <2>1, <2>2, <2>3
<1>2. CASE Unsubscribe
  BY <1>2, StageOfLab4 DEF Unsubscribe, vars, program
<1>3. CASE Return
  BY <1>3, StageOfLab4 DEF Return, vars, program
<1>4. CASE LoopEnds
  BY <1>4, StageOfLab4 DEF LoopEnds, vars, program
<1>5. CASE EnableReturns
  BY <1>5, StageOfLab4 DEF EnableReturns, vars, program
<1>6. CASE DisableReturns
  BY <1>6, StageOfLab4 DEF DisableReturns, vars, program
<1> QED
  BY <1>1, <1>2, <1>3, <1>4, <1>5, <1>6, StageOfLab4
     DEF vg_prepareGraphics, vg_load_sprites, vg_setGraphics, vg_exit, vg_free

(* Every step keeps it.                                                    *)
LEMMA NextLife == LifeInv /\ [LifeNext]_lifeVars => LifeInv'
<1> SUFFICES ASSUME LifeInv, [LifeNext]_lifeVars PROVE LifeInv'
  OBVIOUS
<1>1. CASE UNCHANGED lifeVars
  BY <1>1, InnerKeeps DEF lifeVars, life, vars, program
<1>2. CASE DisableBegins \/ Command
  <2>1. UNCHANGED life /\ Stage \in {"enable", "disable"}
    BY <1>2 DEF DisableBegins, Command
  <2>2. prog = "lab4" => at \in {2, 4}
    BY <2>1, StageOfLab4 DEF LifeInv, Lab4Inv
  <2> QED
    BY <2>1, <2>2, InnerKeeps DEF life
<1>3. CASE LoopHandles
  BY <1>3, InnerKeeps DEF LoopHandles, Handled, life, program
<1>4. CASE Controller \/ \E a \in Answers : Mouse(a)
  BY <1>4, InnerKeeps
     DEF Controller, Mouse, Take, KeyboardAnswers, OtherByte, MouseAnswers, life, program
<1>5. CASE SystemTakes
  BY <1>5, InnerKeeps DEF SystemTakes, program
<1>6. CASE \/ vg_prepareGraphics \/ vg_load_sprites \/ vg_setGraphics \/ Subscribe
           \/ Unsubscribe \/ vg_exit \/ vg_free \/ Return \/ LoopEnds
           \/ EnableReturns \/ DisableReturns
  BY <1>6, ProjStep, Lab4Step DEF LifeInv
<1> QED
  BY <1>1, <1>2, <1>3, <1>4, <1>5, <1>6 DEF LifeNext, Main

(* It holds in every state of both programs.                               *)
LEMMA LifeInvHolds == LifeSpec => []LifeInv
BY NextLife, InitLife, PTL DEF LifeSpec

(* A run that returns success has left graphics mode, freed the buffer and *)
(* ended every subscription that the kernel would end, whichever calls     *)
(* failed - malloc and the unsubscriptions included - and whatever the     *)
(* mouse, the keyboard and the system's handler did meanwhile.             *)
THEOREM ReturnIsClean == LifeSpec => []CleanReturn
<1>1. LifeInv => CleanReturn
  BY DEF LifeInv
<1> QED
  BY <1>1, LifeInvHolds, PTL

(* What has been taken from lab4 was taken without its subscription, or    *)
(* after a wait was cut short.                                             *)
AnswersKept ==
    /\ Lab4KeepsAnswers
    /\ prog = "lab4" /\ at = 1 /\ taken => cuts > 0

(* The system's handler, outside lab4's subscription, finds no answer: the *)
(* program is then between two commands, and no wait was cut short.        *)
LEMMA SystemFindsNone ==
    ASSUME CmdInv, LifeInv, AnswersKept, SystemTakes
    PROVE  AnswersKept'
<1>1. CASE prog = "lab4" /\ (at = 1 \/ ~refused) /\ cuts = 0
  <2>1. at \in {0, 1, 5, 6}
    BY <1>1 DEF LifeInv, Lab4Inv, SystemTakes
  <2>2. pc \in {"poll", "done"}
    BY <1>1, <2>1 DEF LifeInv, Lab4Inv
  <2>3. ~reply
    BY <1>1, <2>2, NoneOutstanding DEF CmdInv, CountInv, Waiting, One
  <2> QED
    <3>1. taken' => taken
      BY <2>3 DEF SystemTakes
    <3>2. UNCHANGED <<prog, at, refused, cuts>>
      BY DEF SystemTakes, program
    <3> QED
      BY <3>1, <3>2 DEF AnswersKept, Lab4KeepsAnswers
<1>2. CASE prog # "lab4" \/ (at # 1 /\ refused) \/ cuts # 0
  BY <1>2 DEF SystemTakes, program, AnswersKept, Lab4KeepsAnswers, CmdInv, CountInv
<1> QED
  BY <1>1, <1>2

(* The count of waits that were cut short never goes down.                 *)
LEMMA CutsGrow ==
    ASSUME CmdInv, [LifeNext]_lifeVars
    PROVE  cuts > 0 => cuts' > 0
<1>1. cuts \in Nat
  BY DEF CmdInv, CountInv
<1>2. CASE Command
  BY <1>1, <1>2
     DEF Command, Commanding, read_ACK_byte, PollFree, PrefixFails, PollFull, GiveUp,
         WriteCommand, StatusFails, StatusEmpty, StatusFull, GetByte, GetFails, Judge
<1>3. CASE DisableBegins \/ LoopHandles \/ Controller \/ (\E a \in Answers : Mouse(a)) \/ SystemTakes
  BY <1>3
     DEF DisableBegins, mouse_disable_data_reporting, LoopHandles, Handled, Controller, Take,
         KeyboardAnswers, OtherByte, Mouse, MouseAnswers, SystemTakes, program
<1>4. CASE UNCHANGED vars
  BY <1>4 DEF vars, program
<1> QED
  BY <1>2, <1>3, <1>4
     DEF LifeNext, lifeVars, Main, vg_prepareGraphics, vg_load_sprites, vg_setGraphics, Subscribe,
         Unsubscribe, vg_exit, ExitFails, vg_free, Return, LoopEnds, EnableReturns,
         DisableReturns, Goes, Ends

(* The other steps take nothing, and only the subscription decides whether *)
(* it was refused.                                                         *)
LEMMA NextKept == CmdInv /\ LifeInv /\ AnswersKept /\ [LifeNext]_lifeVars => AnswersKept'
<1> SUFFICES ASSUME CmdInv, LifeInv, AnswersKept, [LifeNext]_lifeVars PROVE AnswersKept'
  OBVIOUS
<1>1. CASE SystemTakes
  BY <1>1, SystemFindsNone
<1>2. CASE Subscribe
  BY <1>2, StageOfLab4
     DEF Subscribe, Goes, vars, program, AnswersKept, Lab4KeepsAnswers, LifeInv, Lab4Inv
<1>3. CASE UNCHANGED <<prog, taken, refused>> /\ (at' = 1 => at = 1)
  BY <1>3, CutsGrow DEF AnswersKept, Lab4KeepsAnswers
<1>4. CASE \/ vg_prepareGraphics \/ vg_load_sprites \/ vg_setGraphics
           \/ Unsubscribe \/ vg_exit \/ vg_free \/ Return \/ LoopEnds
           \/ EnableReturns \/ DisableReturns
  <2>1. UNCHANGED <<prog, taken, refused>> /\ at' \in {0, at + 1} /\ Stage # "ended"
    BY <1>4 DEF vg_prepareGraphics, vg_load_sprites, vg_setGraphics, Unsubscribe,
                vg_exit, ExitFails, vg_free, Return, LoopEnds, EnableReturns, DisableReturns,
                Goes, Ends
  <2>2. at \in Nat \ {0}
    BY <2>1 DEF LifeInv, ProjInv, Lab4Inv, Stage
  <2> QED
    BY <1>3, <2>1, <2>2
<1>5. CASE UNCHANGED life
  BY <1>3, <1>5 DEF life
<1> QED
  BY <1>1, <1>2, <1>4, <1>5
     DEF LifeNext, Main, lifeVars, DisableBegins, Command, LoopHandles, Controller, Mouse

(* Unless its own subscription was refused, or a wait for an answer was    *)
(* cut short, lab4 loses no answer to the system's handler.                *)
THEOREM Lab4LosesNothing == LifeSpec => []Lab4KeepsAnswers
<1>1. LifeInit => AnswersKept
  BY DEF LifeInit, AnswersKept, Lab4KeepsAnswers
<1>2. AnswersKept => Lab4KeepsAnswers
  BY DEF AnswersKept
<1> QED
  BY <1>1, <1>2, NextKept, LifeInvHolds, CmdInvHolds, PTL DEF LifeSpec
=============================================================================
