----------------------------- MODULE GameProofs -----------------------------
(***************************************************************************)
(* Game for every value of its constants: the lemmas about the operators   *)
(* of Aliens, Pointer and Leaderboard, type correctness, the safety        *)
(* invariants, and that every step is one of GameFlow or leaves it alone.  *)
(***************************************************************************)
EXTENDS GameRefinesFlow, FiniteSetTheorems, FunctionTheorems, TLAPS

-----------------------------------------------------------------------------
(* Aliens.                                                                 *)

(* Both ticks of an alien give an alien.                                   *)
LEMMA TickType ==
    ASSUME NEW a \in Alien
    PROVE  Tick(a) \in Alien /\ FadeTick(a) \in Alien
BY TimesAssumption DEF Tick, FadeTick, Alien, APPEARING, EMPTY, FADE_TIME

(* The scans and kill_other_aliens give matrices of aliens.                *)
LEMMA ScanType ==
    ASSUME NEW m \in [Cells -> Alien], NEW k \in Cells
    PROVE  /\ TickAll(m) \in [Cells -> Alien]
           /\ TickUntil(m, k) \in [Cells -> Alien]
           /\ kill_other_aliens(m, k) \in [Cells -> Alien]
           /\ FadeAll(m, k) \in [Cells -> Alien]
<1>1. \A c \in Cells : m[c] \in Alien
  OBVIOUS
<1>2. \A c \in Cells : Tick(m[c]) \in Alien /\ FadeTick(m[c]) \in Alien
  BY <1>1, TickType
<1>3. Condemned \in Alien
  BY DEF Condemned, Alien, DEAD_1, FADE_TIME, APPEARING, EMPTY
<1> QED
  BY <1>1, <1>2, <1>3 DEF TickAll, TickUntil, kill_other_aliens, FadeAll

(* What the spawn may do to a matrix: at most one vacant cell gets a new   *)
(* alien, every other cell keeps what it has.                              *)
LEMMA SpawnedFacts ==
    ASSUME NEW m \in [Cells -> Alien], NEW n \in Spawned(m)
    PROVE  /\ n \in [Cells -> Alien]
           /\ \A c \in Cells : n[c] = m[c] \/ (m[c].state = EMPTY /\ n[c] = Newborn)
<1>1. Newborn \in Alien
  BY TimesAssumption DEF Newborn, Alien, APPEARING, EMPTY
<1>2. n = m \/ \E c \in Vacant(m) : n = [m EXCEPT ![c] = Newborn]
  BY DEF Spawned
<1>3. CASE n = m
  BY <1>3
<1>4. CASE \E c \in Vacant(m) : n = [m EXCEPT ![c] = Newborn]
  BY <1>1, <1>4 DEF Vacant
<1> QED
  BY <1>2, <1>3, <1>4

(* The matrix game_reset makes holds aliens.                               *)
LEMMA EmptyMatrixType == EmptyMatrix \in [Cells -> Alien]
BY DEF EmptyMatrix, NoAlien, Alien, APPEARING, EMPTY

-----------------------------------------------------------------------------
(* The pointer.                                                            *)

(* Half the crosshair and the borders derived from it.                     *)
LEMMA HalfCrosshair ==
    /\ crosshair_half_width \in Nat /\ crosshair_half_height \in Nat
    /\ crosshair_width_border \in Int /\ crosshair_height_border \in Int
    /\ crosshair_half_width < crosshair_width_border
    /\ crosshair_half_height < crosshair_height_border
    /\ crosshair_width_border + crosshair_half_width = GAME_WIDTH
    /\ crosshair_height_border + crosshair_half_height = GAME_HEIGHT
BY ScreenAssumption
   DEF crosshair_half_width, crosshair_half_height,
       crosshair_width_border, crosshair_height_border

(* Clamp keeps a coordinate in lo .. border - 1, whatever it was.          *)
LEMMA ClampRange ==
    ASSUME NEW v \in Int, NEW lo \in Int, NEW border \in Int, lo < border
    PROVE  Clamp(v, lo, border) \in lo .. border - 1
BY DEF Clamp

(* A clamped position is on the screen with its whole crosshair.           *)
LEMMA ClampedOnScreen ==
    ASSUME NEW x \in Int, NEW y \in Int
    PROVE  /\ ClampX(x) \in Int /\ ClampY(y) \in Int
           /\ ClampX(x) - crosshair_half_width >= 0
           /\ ClampX(x) + crosshair_half_width < GAME_WIDTH
           /\ ClampY(y) - crosshair_half_height >= 0
           /\ ClampY(y) + crosshair_half_height < GAME_HEIGHT
<1>1. ClampX(x) \in crosshair_half_width .. crosshair_width_border - 1
  BY HalfCrosshair, ClampRange DEF ClampX
<1>2. ClampY(y) \in crosshair_half_height .. crosshair_height_border - 1
  BY HalfCrosshair, ClampRange DEF ClampY
<1> QED
  BY <1>1, <1>2, HalfCrosshair, ScreenAssumption

(* So is the middle of the screen.                                         *)
LEMMA MiddleOnScreen ==
    /\ MOUSE_INIT_X \in Int /\ MOUSE_INIT_Y \in Int
    /\ MOUSE_INIT_X - crosshair_half_width >= 0
    /\ MOUSE_INIT_X + crosshair_half_width < GAME_WIDTH
    /\ MOUSE_INIT_Y - crosshair_half_height >= 0
    /\ MOUSE_INIT_Y + crosshair_half_height < GAME_HEIGHT
BY ScreenAssumption
   DEF MOUSE_INIT_X, MOUSE_INIT_Y, crosshair_half_width, crosshair_half_height

-----------------------------------------------------------------------------
(* The leaderboard.                                                        *)

(* The empty string is a name.                                             *)
LEMMA EmptyName == << >> \in Name
BY LeaderboardAssumption DEF Name

(* What readSaveFile leaves when there is no file is a leaderboard.        *)
LEMMA EmptyLeaderboardType ==
    EmptyLeaderboard \in LeaderboardType /\ Ordered(EmptyLeaderboard)
BY EmptyName, LeaderboardAssumption
   DEF EmptyLeaderboard, LeaderboardType, Ordered, Score, Index

(* addScore gives a leaderboard, whatever the score.                       *)
LEMMA AddScoreType ==
    ASSUME NEW lb \in LeaderboardType, NEW s \in Nat, NEW n \in Name
    PROVE  addScore(s, n, lb) \in LeaderboardType
<1>1. s % UINT8_MOD \in Score
  BY LeaderboardAssumption DEF Score
<1>2. \A j \in Index : lb.names[j] \in Name /\ lb.scores[j] \in Score
  BY DEF LeaderboardType
<1> QED
  BY <1>1, <1>2 DEF addScore, LeaderboardType

(* A score that fits its uint8_t keeps an ordered leaderboard ordered.     *)
LEMMA AddScoreOrdered ==
    ASSUME NEW lb \in LeaderboardType, NEW s \in Score, NEW n \in Name,
           Ordered(lb)
    PROVE  Ordered(addScore(s, n, lb))
<1> DEFINE new == addScore(s, n, lb).scores
           Moved(j) == j + 1 \in Index /\ Passed(lb, s, j + 1)
<1>1. \A j \in Index : new[j] = IF Moved(j) THEN lb.scores[j + 1]
                                ELSE IF Passed(lb, s, j) THEN s
                                ELSE lb.scores[j]
  BY LeaderboardAssumption DEF addScore, Score
<1>2. \A j \in Index : lb.scores[j] \in Nat
  BY LeaderboardAssumption DEF LeaderboardType, Score
<1>3. \A i, j \in Index : i < j /\ Passed(lb, s, j) => Passed(lb, s, i)
  BY DEF Passed, Index
<1>4. \A j \in Index : j > 0 /\ Passed(lb, s, j) => lb.scores[j] < s
  BY DEF Passed, Index
<1>5. \A j \in Index : ~Passed(lb, s, j) => lb.scores[j] >= s
  <2>1. SUFFICES ASSUME NEW j \in Index, ~Passed(lb, s, j)
                 PROVE  lb.scores[j] >= s
    OBVIOUS
  <2>2. PICK i \in 1..j : ~(lb.scores[i] < s)
    BY <2>1 DEF Passed
  <2>3. i \in Index /\ i =< j /\ s \in Nat
    BY <2>2, LeaderboardAssumption DEF Index, Score
  <2>4. lb.scores[i] \in Nat /\ lb.scores[j] \in Nat
    BY <1>2, <2>1, <2>3
  <2>5. lb.scores[i] =< lb.scores[j]
    BY <2>1, <2>3, <2>4 DEF Ordered, Index
  <2> HIDE DEF new
  <2> QED
    BY <2>2, <2>3, <2>4, <2>5
<1>6. ASSUME NEW i \in Index, NEW j \in Index, i < j
      PROVE  new[i] =< new[j]
  <2>1. i \in Int /\ j \in Int /\ i + 1 \in Index /\ s \in Nat
    BY <1>6, LeaderboardAssumption DEF Index, Score
  <2>2. CASE Moved(i)
    <3>1. i + 1 =< j /\ lb.scores[i + 1] < s
      BY <1>4, <1>6, <2>1, <2>2 DEF Index
    <3>2. lb.scores[i + 1] =< lb.scores[j]
      BY <1>2, <2>1, <3>1 DEF Ordered
    <3>3. Moved(j) => lb.scores[i + 1] =< lb.scores[j + 1]
      BY <1>2, <2>1, <3>1 DEF Ordered
    <3> QED
      BY <1>1, <1>2, <2>1, <2>2, <3>1, <3>2, <3>3
  <2>3. CASE ~Moved(i)
    <3>1. ~Passed(lb, s, i + 1)
      BY <2>1, <2>3
    <3>2. ~Passed(lb, s, j) /\ ~Moved(j)
      BY <1>3, <1>6, <2>1, <3>1 DEF Index
    <3>3. new[j] = lb.scores[j] /\ lb.scores[j] >= s
      BY <1>1, <1>5, <3>2
    <3>4. lb.scores[i] =< lb.scores[j]
      BY <1>6 DEF Ordered
    <3> QED
      BY <1>1, <1>2, <2>1, <2>3, <3>3, <3>4
  <2> QED
    BY <2>2, <2>3
<1> QED
  BY <1>6 DEF Ordered

(* Reading a save file gives a leaderboard.                                *)
LEMMA ReadType ==
    ASSUME NEW f \in SaveFile
    PROVE  readSaveFile(f, EmptyLeaderboard) \in LeaderboardType
<1>1. ASSUME NEW i \in Index, LB_SIZE - i =< Len(f.lines)
      PROVE  f.lines[LB_SIZE - i] \in Line
  <2>1. f.lines \in Seq(Line) /\ LB_SIZE - i \in 1 .. Len(f.lines)
    BY <1>1, LeaderboardAssumption DEF SaveFile, Index
  <2> QED
    BY <2>1
<1>2. \A l \in Line : l.name \in Name /\ l.score % UINT8_MOD \in Score
  BY LeaderboardAssumption DEF Line, Score
<1> QED
  BY <1>1, <1>2, EmptyName, EmptyLeaderboardType DEF readSaveFile, LeaderboardType

(* The file writeSaveFile leaves has no line: the loop body never runs.    *)
LEMMA WriteIsEmpty ==
    ASSUME NEW lb \in LeaderboardType
    PROVE  writeSaveFile(lb) = [present |-> TRUE, lines |-> << >>]
<1>1. WrittenIndices = {}
  BY LeaderboardAssumption DEF WrittenIndices, Index
<1>2. \A e : [n \in {} |-> e] = << >>
  OBVIOUS
<1> QED
  BY <1>1, <1>2 DEF writeSaveFile

-----------------------------------------------------------------------------
(* Type correctness.                                                       *)

(* name after a letter or DEL is a name.                                   *)
LEMMA NameEdits ==
    ASSUME NEW n \in Name
    PROVE  /\ \A l \in Letters : Len(n) < NAME_SIZE - 1 => Append(n, l) \in Name
           /\ n # << >> => Chopped(n) \in Name
<1>1. n \in Seq(Letters) /\ Len(n) \in Nat /\ Len(n) < NAME_SIZE
  BY DEF Name
<1>2. ASSUME NEW l \in Letters, Len(n) < NAME_SIZE - 1
      PROVE  Append(n, l) \in Name
  <2>1. Append(n, l) \in Seq(Letters) /\ Len(Append(n, l)) = Len(n) + 1
    BY <1>1
  <2> QED
    BY <1>1, <1>2, <2>1, LeaderboardAssumption DEF Name
<1>3. ASSUME n # << >>
      PROVE  Chopped(n) \in Name
  <2>1. Len(n) > 0
    BY <1>1, <1>3
  <2>2. Chopped(n) \in Seq(Letters) /\ Len(Chopped(n)) = Len(n) - 1
    BY <1>1, <2>1 DEF Chopped
  <2> QED
    BY <1>1, <2>1, <2>2, LeaderboardAssumption DEF Name
<1> QED
  BY <1>2, <1>3

(* A uint32_t minus a uint32_t is a uint32_t.                              *)
LEMMA UintSubType ==
    ASSUME NEW a \in 0 .. UINT_MOD - 1, NEW b \in 0 .. UINT_MOD - 1
    PROVE  UintSub(a, b) \in 0 .. UINT_MOD - 1
BY WidthAssumption DEF UintSub

(* The initial state is well typed.                                        *)
LEMMA InitType == Init => TypeOK
<1> SUFFICES ASSUME Init PROVE TypeOK
  OBVIOUS
<1> USE DEF Init
<1>1. LoopTypeOK
  <2>1. running \in BOOLEAN
    OBVIOUS
  <2>2. frame_counter \in 0 .. FRAME_NUMBER - 1
    BY TimingAssumption
  <2> QED
    BY <2>1, <2>2 DEF LoopTypeOK
<1>2. PlayTypeOK
  BY EmptyMatrixType, WidthAssumption, TimingAssumption, InputAssumption
     DEF PlayTypeOK, GAME_STATE
<1>3. SpawnTypeOK
  BY TimingAssumption, WidthAssumption DEF SpawnTypeOK
<1>4. PointerTypeOK
  BY MiddleOnScreen DEF PointerTypeOK
<1>5. ScoresTypeOK
  BY EmptyName, EmptyLeaderboardType, InputAssumption DEF ScoresTypeOK
<1> QED
  BY <1>1, <1>2, <1>3, <1>4, <1>5 DEF TypeOK

(* game_initialize assigns values of the right types.                      *)
LEMMA InitializeType ==
    ASSUME game_initialize
    PROVE  /\ game_state' \in GAME_STATE
           /\ points' \in 0 .. MaxPoints
           /\ game_over_counter' \in 0 .. UINT_MOD - 1
           /\ game_matrix' \in [Cells -> Alien]
           /\ SpawnTypeOK'
           /\ mouse_x' \in Int /\ mouse_y' \in Int
BY EmptyMatrixType, MiddleOnScreen, TimingAssumption, WidthAssumption, InputAssumption
   DEF game_initialize, GAME_STATE, SpawnTypeOK

(* So does game_generate_new_alien.                                        *)
LEMMA GenerateType ==
    ASSUME SpawnTypeOK, NEW m \in [Cells -> Alien], game_generate_new_alien(m)
    PROVE  game_matrix' \in [Cells -> Alien] /\ SpawnTypeOK'
<1>1. CASE /\ random_alien_counter < random_alien_number
           /\ random_alien_counter' = random_alien_counter + 1
           /\ game_matrix' = m
           /\ UNCHANGED <<random_alien_number, random_alien_spawn_rate_increase>>
  BY <1>1, WidthAssumption DEF SpawnTypeOK
<1>2. CASE /\ random_alien_counter' = 0
           /\ RateIncrease
           /\ game_matrix' \in Spawned(m)
  <2>1. game_matrix' \in [Cells -> Alien]
    BY <1>2, SpawnedFacts
  <2>2. SpawnTypeOK'
    BY <1>2, TimingAssumption, WidthAssumption DEF RateIncrease, UintSub, SpawnTypeOK
  <2> QED
    BY <2>1, <2>2
<1> QED
  BY <1>1, <1>2 DEF game_generate_new_alien

(* The parts of TypeOK that a step leaves alone stay true.                 *)
LEMMA UnchangedType ==
    ASSUME TypeOK
    PROVE  /\ UNCHANGED loop => LoopTypeOK'
           /\ UNCHANGED <<game_state, points, over, game_matrix>> => PlayTypeOK'
           /\ UNCHANGED spawn => SpawnTypeOK'
           /\ UNCHANGED pointer => PointerTypeOK'
           /\ UNCHANGED scores => ScoresTypeOK'
BY DEF TypeOK, LoopTypeOK, PlayTypeOK, SpawnTypeOK, PointerTypeOK, ScoresTypeOK,
       loop, over, spawn, pointer, scores

(* Running a handler of the current message keeps the loop's variables     *)
(* typed.                                                                  *)
LEMMA HandlesType ==
    ASSUME LoopTypeOK, NEW irq, NEW first, Handles(irq, first),
           frame_counter' \in 0 .. FRAME_NUMBER - 1
    PROVE  LoopTypeOK'
BY DEF Handles, LoopTypeOK

(* The whole of a mouse packet.                                            *)
LEMMA MousePacketType ==
    ASSUME TypeOK, MousePacket
    PROVE  TypeOK'
<1> USE DEF TypeOK
<1>1. PICK move \in Moves, lbdown \in BOOLEAN : mouse_event_handler(move, lbdown)
  BY DEF MousePacket
<1>2. move[1] \in Int /\ move[2] \in Int
  BY InputAssumption
<1>3. LoopTypeOK'
  BY HandlesType DEF MousePacket, LoopTypeOK
<1>4. SpawnTypeOK' /\ ScoresTypeOK'
  BY UnchangedType DEF MousePacket
<1>5. mouse_x' \in Int /\ mouse_y' \in Int
  <2>1. mouse_x + move[1] \in Int /\ mouse_y - move[2] \in Int
    BY <1>2 DEF PointerTypeOK
  <2> QED
    BY <1>1, <2>1, ClampedOnScreen DEF mouse_event_handler
<1>6. button_was_raised' \in BOOLEAN
  BY <1>1 DEF mouse_event_handler, Raised, PointerTypeOK
<1>7. PlayTypeOK'
  <2>1. UNCHANGED over
    BY DEF MousePacket
  <2>2. game_state' \in GAME_STATE
    BY <1>1 DEF mouse_event_handler, MenuChoice, PlayTypeOK, GAME_STATE
  <2>3. points' \in 0 .. MaxPoints /\ game_matrix' \in [Cells -> Alien]
    <3>1. Shot \in Alien
      BY TimesAssumption DEF Shot, Alien, DEAD_1, APPEARING, EMPTY
    <3>2. \/ UNCHANGED <<points, game_matrix>>
          \/ \E c \in Cells : /\ points < MaxPoints
                              /\ points' = points + 1
                              /\ game_matrix' = [game_matrix EXCEPT ![c] = Shot]
      BY <1>1 DEF mouse_event_handler, mouse_check_kill
    <3> QED
      BY <3>1, <3>2, InputAssumption DEF PlayTypeOK
  <2> QED
    BY <2>1, <2>2, <2>3 DEF PlayTypeOK, over
<1> QED
  BY <1>3, <1>4, <1>5, <1>6, <1>7 DEF PointerTypeOK

(* The keys that change nothing but the screen, the name and the table.    *)
LEMMA KeyType ==
    ASSUME TypeOK, Handles("kbc", {"mouse"}), KbcUnchanged, KeepsPlay,
           game_state' \in GAME_STATE, name' \in Name, LB' \in LeaderboardType
    PROVE  TypeOK'
<1> USE DEF TypeOK, KbcUnchanged, KeepsPlay, over
<1>1. LoopTypeOK'
  BY HandlesType DEF LoopTypeOK
<1>2. PlayTypeOK'
  BY DEF PlayTypeOK
<1>3. SpawnTypeOK'
  BY UnchangedType
<1>4. PointerTypeOK' /\ ScoresTypeOK'
  BY DEF PointerTypeOK, ScoresTypeOK
<1> QED
  BY <1>1, <1>2, <1>3, <1>4

(* Every key.                                                              *)
LEMMA KbcType ==
    ASSUME TypeOK, kbc_ih
    PROVE  TypeOK'
<1>1. game_state \in GAME_STATE /\ name \in Name /\ LB \in LeaderboardType
  BY DEF TypeOK, PlayTypeOK, ScoresTypeOK
<1>2. CASE KeyIgnored
  BY <1>1, <1>2, KeyType DEF KeyIgnored
<1>3. CASE KeyEsc
  BY <1>1, <1>3, KeyType DEF KeyEsc, GAME_STATE
<1>4. CASE KeyP
  BY <1>1, <1>4, KeyType DEF KeyP, GAME_STATE
<1>5. CASE KeyDel
  BY <1>1, <1>5, KeyType, NameEdits DEF KeyDel
<1>6. CASE KeyEnterName
  <2>1. points \in Nat
    BY InputAssumption DEF TypeOK, PlayTypeOK
  <2>2. addScore(points, name, LB) \in LeaderboardType
    BY <1>1, <2>1, AddScoreType
  <2> QED
    BY <1>1, <1>6, <2>2, KeyType DEF KeyEnterName, GAME_STATE
<1>7. CASE KeyEnterMenu
  <2> USE <1>7 DEF KeyEnterMenu, TypeOK
  <2>1. LoopTypeOK'
    BY HandlesType DEF LoopTypeOK
  <2>2. PlayTypeOK' /\ SpawnTypeOK'
    BY InitializeType DEF PlayTypeOK
  <2>3. PointerTypeOK'
    BY InitializeType DEF PointerTypeOK
  <2>4. ScoresTypeOK'
    BY UnchangedType
  <2> QED
    BY <2>1, <2>2, <2>3, <2>4
<1>8. CASE \E l \in Letters : KeyLetter(l)
  BY <1>1, <1>8, KeyType, NameEdits DEF KeyLetter, HasRoom
<1> QED
  BY <1>2, <1>3, <1>4, <1>5, <1>6, <1>7, <1>8 DEF kbc_ih

(* A frame leaves the loop, the pointer and the table typed.               *)
LEMMA TimerType ==
    ASSUME TypeOK, TimerInterrupt
    PROVE  /\ LoopTypeOK'
           /\ Frame => PointerTypeOK' /\ LB' \in LeaderboardType
                       /\ savefile' \in SaveFile /\ points' \in 0 .. MaxPoints
<1>1. frame_counter' \in 0 .. FRAME_NUMBER - 1
  BY TimingAssumption DEF TimerInterrupt, TypeOK, LoopTypeOK
<1>2. LoopTypeOK'
  BY <1>1, HandlesType DEF TimerInterrupt, TypeOK
<1>3. Frame => PointerTypeOK'
  BY UnchangedType DEF Frame
<1>4. Frame => LB' \in LeaderboardType /\ savefile' \in SaveFile /\ points' \in 0 .. MaxPoints
  BY DEF Frame, TypeOK, ScoresTypeOK, PlayTypeOK
<1> QED
  BY <1>2, <1>3, <1>4

(* The index of the killer's sprite is in its array of 4.                  *)
LEMMA SpriteIndex ==
    ASSUME NEW n \in Nat
    PROVE  (n \div 5) % 4 \in 0..3
<1>1. n \div 5 \in Nat
  OBVIOUS
<1> QED
  BY <1>1

(* Every timer interrupt.                                                  *)
LEMMA TimerIHType ==
    ASSUME TypeOK, TimerIH
    PROVE  TypeOK'
<1> USE DEF TypeOK
<1>1. game_matrix \in [Cells -> Alien]
  BY DEF PlayTypeOK
<1>2. CASE NoFrame
  BY <1>2, TimerType, UnchangedType DEF NoFrame
<1>3. CASE PlayFrame
  <2>1. TickAll(game_matrix) \in [Cells -> Alien]
    <3>1. \A c \in Cells : Tick(game_matrix[c]) \in Alien
      BY <1>1, TickType
    <3> QED
      BY <3>1 DEF TickAll
  <2>2. game_matrix' \in [Cells -> Alien] /\ SpawnTypeOK'
    BY <1>3, <2>1, GenerateType DEF PlayFrame
  <2>3. LoopTypeOK' /\ PointerTypeOK'
    BY <1>3, TimerType DEF PlayFrame, Frame
  <2>4. PlayTypeOK' /\ ScoresTypeOK'
    BY <1>3, <2>2 DEF PlayFrame, Frame, over, PlayTypeOK, ScoresTypeOK
  <2> QED
    BY <2>2, <2>3, <2>4
<1>4. CASE \E k \in Cells : KilledFrame(k)
  <2>1. PICK k \in Cells : KilledFrame(k)
    BY <1>4
  <2>2. kill_other_aliens(TickUntil(game_matrix, k), k) \in [Cells -> Alien]
    BY <1>1, ScanType
  <2>3. game_matrix' \in [Cells -> Alien] /\ SpawnTypeOK'
    BY <2>1, <2>2, GenerateType DEF KilledFrame
  <2>4. LoopTypeOK' /\ PointerTypeOK'
    BY <2>1, TimerType DEF KilledFrame, Frame
  <2>5. killer_alien' \in [state : 0..3, x : Nat, y : Nat]
    BY <2>1, MatrixAssumption DEF KilledFrame, Cells
  <2>6. game_state' \in GAME_STATE /\ game_over_counter' \in 0 .. UINT_MOD - 1
    BY <2>1, TimingAssumption, WidthAssumption DEF KilledFrame, GAME_STATE
  <2>7. PlayTypeOK' /\ ScoresTypeOK'
    BY <2>1, <2>3, <2>5, <2>6 DEF KilledFrame, Frame, PlayTypeOK, ScoresTypeOK
  <2> QED
    BY <2>3, <2>4, <2>7
<1>5. CASE GameOverFrame
  <2> USE <1>5
  <2>1. FadeAll(game_matrix, KillerCell) \in [Cells -> Alien]
    <3>1. \A c \in Cells : FadeTick(game_matrix[c]) \in Alien
      BY <1>1, TickType
    <3> QED
      BY <1>1, <3>1 DEF FadeAll
  <2>2. game_over_counter' \in 0 .. UINT_MOD - 1
    <3>1. game_over_counter \in 0 .. UINT_MOD - 1 /\ 1 \in 0 .. UINT_MOD - 1
      BY WidthAssumption, TimingAssumption DEF PlayTypeOK
    <3>2. game_over_counter' = UintSub(game_over_counter, 1)
      BY DEF GameOverFrame
    <3> QED
      BY <3>1, <3>2, UintSubType
  <2>3. killer_alien' \in [state : 0..3, x : Nat, y : Nat]
    <3>1. game_over_counter' \in Nat
      BY <2>2, WidthAssumption
    <3>2. (game_over_counter' \div 5) % 4 \in 0..3
      BY <3>1, SpriteIndex, Zenon
    <3> QED
      BY <3>2 DEF GameOverFrame, PlayTypeOK
  <2>4. game_state' \in GAME_STATE /\ name' \in Name
    BY EmptyName DEF GameOverFrame, PlayTypeOK, ScoresTypeOK, GAME_STATE
  <2>5. LoopTypeOK' /\ PointerTypeOK'
    BY TimerType DEF GameOverFrame, Frame
  <2>6. SpawnTypeOK'
    BY UnchangedType DEF GameOverFrame
  <2>7. PlayTypeOK' /\ ScoresTypeOK'
    BY <2>1, <2>2, <2>3, <2>4 DEF GameOverFrame, Frame, PlayTypeOK, ScoresTypeOK
  <2> QED
    BY <2>5, <2>6, <2>7
<1>6. CASE IdleFrame
  BY <1>6, TimerType, UnchangedType DEF IdleFrame, Frame, scores
<1> QED
  BY <1>2, <1>3, <1>4, <1>5, <1>6 DEF TimerIH

(* Every step keeps every variable in its type.                            *)
LEMMA NextType == TypeOK /\ [Next]_vars => TypeOK'
<1> SUFFICES ASSUME TypeOK, [Next]_vars PROVE TypeOK'
  OBVIOUS
<1> USE DEF TypeOK
<1>1. CASE Start
  <2> USE <1>1 DEF Start
  <2>1. LoopTypeOK'
    <3>1. running' \in BOOLEAN /\ irqs' = {}
      OBVIOUS
    <3>2. frame_counter' \in 0 .. FRAME_NUMBER - 1
      BY TimingAssumption
    <3> QED
      BY <3>1, <3>2 DEF LoopTypeOK
  <2>2. PlayTypeOK' /\ SpawnTypeOK'
    BY InitializeType DEF PlayTypeOK
  <2>3. PointerTypeOK'
    BY InitializeType DEF PointerTypeOK
  <2>4. ScoresTypeOK'
    BY EmptyName, ReadType DEF ScoresTypeOK
  <2> QED
    BY <2>1, <2>2, <2>3, <2>4
<1>2. CASE \E S \in (SUBSET IRQs) \ {{}} : Receive(S)
  <2>1. LoopTypeOK'
    BY <1>2 DEF Receive, LoopTypeOK
  <2> QED
    BY <1>2, <2>1, UnchangedType DEF Receive
<1>3. CASE MouseIgnored
  <2>1. LoopTypeOK'
    BY <1>3, HandlesType DEF MouseIgnored, LoopTypeOK
  <2> QED
    BY <1>3, <2>1, UnchangedType DEF MouseIgnored
<1>4. CASE MousePacket
  BY <1>4, MousePacketType
<1>5. CASE kbc_ih
  BY <1>5, KbcType
<1>6. CASE TimerIH
  BY <1>6, TimerIHType
<1>7. CASE Finish
  <2> USE <1>7 DEF Finish
  <2>1. LoopTypeOK'
    BY DEF LoopTypeOK
  <2>2. savefile' \in SaveFile
    <3>1. [present |-> TRUE, lines |-> << >>] \in SaveFile
      BY DEF SaveFile
    <3> QED
      BY <3>1, WriteIsEmpty DEF ScoresTypeOK
  <2>3. ScoresTypeOK'
    BY <2>2 DEF ScoresTypeOK
  <2> QED
    BY <2>1, <2>3, UnchangedType
<1>8. CASE UNCHANGED vars
  BY <1>8, UnchangedType DEF vars
<1> QED
  BY <1>1, <1>2, <1>3, <1>4, <1>5, <1>6, <1>7, <1>8 DEF Next, mouse_ih

(* Type correctness of the whole game, for every matrix, layout, timing,   *)
(* table and name size: TypeOK is an invariant.                            *)
THEOREM TypeCorrect == Spec => []TypeOK
BY InitType, NextType, PTL DEF Spec

-----------------------------------------------------------------------------
(* The safety properties.  Each theorem has its own inductive invariant,   *)
(* on top of TypeOK.                                                       *)

(* The longest death animation - that of an alien which appears in the     *)
(* frame of the player's death, and lives and dies in GAME_OVER - is over  *)
(* when the banner comes: 5 + 19 frames of 30 in the code.                 *)
FadeFits == alien_times[APPEARING] + 19 =< BANNER_DELAY

(* No score is larger than a uint8_t.                                      *)
PointsFit == MaxPoints < UINT8_MOD

(* Frames an alien still needs to fade away once the game is over.         *)
FadeLeft(a) == a.time + 1 + 3 * (EMPTY - 1 - a.state)

(* The inductive form of BannerAfterFading: no alien needs more frames     *)
(* than there are left before the banner.                                  *)
FadesInTime ==
    game_state = "GAME_OVER" =>
        \A c \in Cells \ {KillerCell} :
            game_matrix[c].state # EMPTY =>
                FadeLeft(game_matrix[c])
                    =< game_over_counter - (GAME_OVER_WAIT - BANNER_DELAY)

-----------------------------------------------------------------------------
(* What the steps leave alone.                                             *)

(* A step that touches neither the screen, nor the matrix, nor the         *)
(* game-over variables; or one that enters another screen.                 *)
LEMMA GameOverSteps ==
    ASSUME TypeOK, [Next]_vars
    PROVE  \/ UNCHANGED <<game_state, over, game_matrix>>
           \/ game_state' # "GAME_OVER"
           \/ \E k \in Cells : KilledFrame(k)
           \/ GameOverFrame
<1>1. CASE Start
  BY <1>1 DEF Start, game_initialize
<1>2. CASE \E S \in (SUBSET IRQs) \ {{}} : Receive(S)
  BY <1>2 DEF Receive
<1>3. CASE MouseIgnored
  BY <1>3 DEF MouseIgnored
<1>4. CASE MousePacket
  <2>1. PICK move \in Moves, lbdown \in BOOLEAN : mouse_event_handler(move, lbdown)
    BY <1>4 DEF MousePacket
  <2>2. CASE game_state = "PLAYING" \/ game_state = "MENU"
    BY <2>1, <2>2 DEF mouse_event_handler, MenuChoice
  <2>3. CASE game_state \notin {"PLAYING", "MENU"}
    BY <1>4, <2>1, <2>3 DEF MousePacket, mouse_event_handler
  <2> QED
    BY <2>2, <2>3
<1>5. CASE kbc_ih
  BY <1>5
     DEF kbc_ih, KeyIgnored, KeyEsc, KeyP, KeyLetter, KeyDel, KeyEnterName,
         KeyEnterMenu, game_initialize, KbcUnchanged, KeepsPlay
<1>6. CASE TimerIH
  BY <1>6 DEF TimerIH, NoFrame, PlayFrame, IdleFrame
<1>7. CASE Finish
  BY <1>7 DEF Finish
<1>8. CASE UNCHANGED vars
  BY <1>8 DEF vars
<1> QED
  BY <1>1, <1>2, <1>3, <1>4, <1>5, <1>6, <1>7, <1>8 DEF Next, mouse_ih

-----------------------------------------------------------------------------
(* The game-over screen.                                                   *)

(* The matrix after the frame of the death: the killer is still there, and *)
(* every other cell is empty, condemned, or holds the alien just spawned.  *)
LEMMA MatrixAfterDeath ==
    ASSUME TypeOK, NEW k \in Cells, KilledFrame(k)
    PROVE  /\ game_matrix'[k] = [state |-> ALIVE, time |-> 0]
           /\ \A c \in Cells \ {k} :
                \/ game_matrix'[c].state = EMPTY
                \/ game_matrix'[c] = Condemned
                \/ game_matrix'[c] = Newborn
<1> DEFINE ticked == TickUntil(game_matrix, k)
           m == kill_other_aliens(ticked, k)
<1>1. game_matrix \in [Cells -> Alien]
  BY DEF TypeOK, PlayTypeOK
<1>2. ticked \in [Cells -> Alien] /\ m \in [Cells -> Alien]
  BY <1>1, ScanType
<1>3. game_matrix[k].state = ALIVE /\ game_matrix[k].time = 0
  BY DEF KilledFrame, IsFirstKiller, Killers
<1>4. game_matrix[k] = [state |-> ALIVE, time |-> 0]
  BY <1>1, <1>3 DEF Alien
<1>5. ~Before(k, k)
  BY MatrixAssumption DEF Before, Cells
<1>6. m[k] = [state |-> ALIVE, time |-> 0]
  BY <1>4, <1>5 DEF kill_other_aliens, TickUntil
<1>7. \A c \in Cells \ {k} : m[c].state = EMPTY \/ m[c] = Condemned
  BY DEF kill_other_aliens
<1>8. game_matrix' = m \/ game_matrix' \in Spawned(m)
  BY DEF KilledFrame, game_generate_new_alien
<1>9. \A c \in Cells :
        \/ game_matrix'[c] = m[c]
        \/ m[c].state = EMPTY /\ game_matrix'[c] = Newborn
  <2> HIDE DEF m
  <2> QED
    BY <1>2, <1>8, SpawnedFacts
<1>10. m[k].state # EMPTY
  BY <1>6 DEF ALIVE, EMPTY
<1> HIDE DEF m, ticked
<1> QED
  BY <1>6, <1>7, <1>9, <1>10

(* A frame of GAME_OVER counts down and leaves the killer alone.           *)
LEMMA KillerSurvivesFrame ==
    ASSUME TypeOK, KillerStays, GameOverFrame
    PROVE  /\ game_over_counter' = game_over_counter - 1
           /\ KillerCell' = KillerCell
           /\ game_matrix'[KillerCell] = game_matrix[KillerCell]
           /\ \A c \in Cells \ {KillerCell} :
                game_matrix'[c] = FadeTick(game_matrix[c])
<1>1. KillerCell \in Cells /\ game_over_counter \in 1 .. GAME_OVER_WAIT
  BY DEF GameOverFrame, KillerStays
<1>2. game_over_counter' = game_over_counter - 1
  BY <1>1, TimingAssumption DEF GameOverFrame, UintSub
<1>3. KillerCell' = KillerCell
  BY DEF GameOverFrame, KillerCell, TypeOK, PlayTypeOK
<1>4. game_matrix' = FadeAll(game_matrix, KillerCell)
  BY DEF GameOverFrame
<1> QED
  BY <1>1, <1>2, <1>3, <1>4 DEF FadeAll

(* KillerStays is kept by every step.                                      *)
LEMMA NextKillerStays ==
    ASSUME TypeOK, KillerStays, [Next]_vars
    PROVE  KillerStays'
<1>1. CASE UNCHANGED <<game_state, over, game_matrix>>
  BY <1>1 DEF KillerStays, KillerCell, over
<1>2. CASE game_state' # "GAME_OVER"
  BY <1>2 DEF KillerStays
<1>3. CASE \E k \in Cells : KilledFrame(k)
  <2>1. PICK k \in Cells : KilledFrame(k)
    BY <1>3
  <2>2. KillerCell' = k
    BY <2>1, MatrixAssumption DEF KilledFrame, KillerCell, Cells
  <2>3. game_over_counter' \in 1 .. GAME_OVER_WAIT
    BY <2>1, TimingAssumption DEF KilledFrame
  <2> QED
    BY <2>1, <2>2, <2>3, MatrixAfterDeath DEF KillerStays
<1>4. CASE GameOverFrame /\ game_state' = "GAME_OVER"
  <2>1. /\ KillerCell \in Cells
        /\ game_over_counter \in 1 .. GAME_OVER_WAIT
        /\ game_matrix[KillerCell] = [state |-> ALIVE, time |-> 0]
    BY <1>4 DEF GameOverFrame, KillerStays
  <2>2. game_over_counter' # 0
    BY <1>4 DEF GameOverFrame
  <2>3. game_over_counter' \in 1 .. GAME_OVER_WAIT
    BY <1>4, <2>1, <2>2, KillerSurvivesFrame, TimingAssumption
  <2> QED
    BY <1>4, <2>1, <2>3, KillerSurvivesFrame DEF KillerStays
<1> QED
  BY <1>1, <1>2, <1>3, <1>4, GameOverSteps

(* One fading frame takes one frame off what an alien has left.            *)
LEMMA FadeTickCounts ==
    ASSUME NEW a \in Alien, FadeTick(a).state # EMPTY
    PROVE  a.state # EMPTY /\ FadeLeft(FadeTick(a)) = FadeLeft(a) - 1
BY DEF FadeTick, FadeLeft, Alien, APPEARING, EMPTY, FADE_TIME

(* What a condemned and a newborn alien have left.                         *)
LEMMA FadeLeftAtDeath ==
    /\ FadeLeft(Condemned) = 15
    /\ FadeLeft(Newborn) = alien_times[APPEARING] + 19
BY TimesAssumption
   DEF FadeLeft, Condemned, Newborn, DEAD_1, APPEARING, EMPTY, FADE_TIME

(* FadesInTime is kept by every step, if the banner is late enough.        *)
LEMMA NextFadesInTime ==
    ASSUME FadeFits, TypeOK, KillerStays, FadesInTime, [Next]_vars
    PROVE  FadesInTime'
<1>1. CASE UNCHANGED <<game_state, over, game_matrix>>
  BY <1>1 DEF FadesInTime, KillerCell, over
<1>2. CASE game_state' # "GAME_OVER"
  BY <1>2 DEF FadesInTime
<1>3. CASE \E k \in Cells : KilledFrame(k)
  <2>1. PICK k \in Cells : KilledFrame(k)
    BY <1>3
  <2>2. KillerCell' = k /\ game_over_counter' = GAME_OVER_WAIT
    BY <2>1, MatrixAssumption DEF KilledFrame, KillerCell, Cells
  <2>3. ASSUME NEW c \in Cells \ {k}, game_matrix'[c].state # EMPTY
        PROVE  FadeLeft(game_matrix'[c])
                 =< GAME_OVER_WAIT - (GAME_OVER_WAIT - BANNER_DELAY)
    <3>1. game_matrix'[c] = Condemned \/ game_matrix'[c] = Newborn
      BY <2>1, <2>3, MatrixAfterDeath
    <3>2. alien_times[APPEARING] \in Nat
      BY TimesAssumption DEF APPEARING, EMPTY
    <3>3. FadeLeft(game_matrix'[c]) =< BANNER_DELAY /\ FadeLeft(game_matrix'[c]) \in Int
      BY <3>1, <3>2, FadeLeftAtDeath, TimingAssumption DEF FadeFits
    <3> QED
      BY <3>3, TimingAssumption
  <2> QED
    BY <2>2, <2>3 DEF FadesInTime
<1>4. CASE GameOverFrame
  <2>1. /\ game_state = "GAME_OVER"
        /\ KillerCell' = KillerCell
        /\ game_over_counter' = game_over_counter - 1
        /\ game_over_counter \in Int
    BY <1>4, KillerSurvivesFrame DEF GameOverFrame, TypeOK, PlayTypeOK
  <2>2. ASSUME NEW c \in Cells \ {KillerCell}, game_matrix'[c].state # EMPTY
        PROVE  FadeLeft(game_matrix'[c])
                 =< game_over_counter' - (GAME_OVER_WAIT - BANNER_DELAY)
    <3>1. game_matrix[c] \in Alien
      BY DEF TypeOK, PlayTypeOK
    <3>2. game_matrix'[c] = FadeTick(game_matrix[c])
      BY <1>4, KillerSurvivesFrame
    <3>3. /\ game_matrix[c].state # EMPTY
          /\ FadeLeft(game_matrix'[c]) = FadeLeft(game_matrix[c]) - 1
      BY <2>2, <3>1, <3>2, FadeTickCounts
    <3>4. FadeLeft(game_matrix[c])
            =< game_over_counter - (GAME_OVER_WAIT - BANNER_DELAY)
      BY <2>1, <3>3 DEF FadesInTime
    <3>5. FadeLeft(game_matrix[c]) \in Int
      BY <3>1 DEF FadeLeft, Alien, APPEARING, EMPTY
    <3> QED
      BY <2>1, <3>3, <3>4, <3>5, TimingAssumption
  <2> QED
    BY <2>1, <2>2 DEF FadesInTime
<1> QED
  BY <1>1, <1>2, <1>3, <1>4, GameOverSteps

(* When the banner is drawn nothing is left to fade.                       *)
LEMMA FadesInTimeImpliesBanner ==
    ASSUME TypeOK, FadesInTime
    PROVE  BannerAfterFading
<1> SUFFICES ASSUME BannerShown, NEW c \in Cells \ {KillerCell},
                    game_matrix[c].state # EMPTY
             PROVE  FALSE
  BY DEF BannerAfterFading
<1>1. game_matrix[c] \in Alien
  BY DEF TypeOK, PlayTypeOK
<1>2. FadeLeft(game_matrix[c]) \in Nat \ {0}
  BY <1>1 DEF FadeLeft, Alien, APPEARING, EMPTY
<1>3. FadeLeft(game_matrix[c]) =< game_over_counter - (GAME_OVER_WAIT - BANNER_DELAY)
  BY DEF BannerShown, FadesInTime
<1>4. game_over_counter \in Int /\ game_over_counter < GAME_OVER_WAIT - BANNER_DELAY
  BY DEF BannerShown, TypeOK, PlayTypeOK
<1> QED
  BY <1>2, <1>3, <1>4, TimingAssumption

(* In GAME_OVER the wait has not run out and the killer is where it is     *)
(* drawn, for every matrix and every timing.                               *)
THEOREM KillerIsSafe == Spec => []KillerStays
<1>1. Init => KillerStays
  BY DEF Init, KillerStays
<1>2. TypeOK /\ KillerStays /\ [Next]_vars => KillerStays'
  BY NextKillerStays
<1> QED
  BY <1>1, <1>2, TypeCorrect, PTL DEF Spec

(* The banner of GAME_OVER comes after every death animation, whenever the *)
(* delay before it leaves room for the longest one.                        *)
THEOREM BannerIsLate == FadeFits => (Spec => []BannerAfterFading)
<1> SUFFICES ASSUME FadeFits PROVE Spec => []BannerAfterFading
  OBVIOUS
<1>1. Init => FadesInTime
  BY DEF Init, FadesInTime
<1>2. TypeOK /\ KillerStays /\ FadesInTime /\ [Next]_vars => FadesInTime'
  BY NextFadesInTime
<1>3. TypeOK /\ FadesInTime => BannerAfterFading
  BY FadesInTimeImpliesBanner
<1> QED
  BY <1>1, <1>2, <1>3, TypeCorrect, KillerIsSafe, PTL DEF Spec

-----------------------------------------------------------------------------
(* The menu, the pointer and the spawn clock.                              *)

(* Every step that changes what the menu shows comes from game_initialize, *)
(* from PLAYING or from GAME_OVER, or leads away from the menu.            *)
LEMMA NextMenuIsClean ==
    ASSUME TypeOK, MenuIsClean, [Next]_vars
    PROVE  MenuIsClean'
<1>0. CASE UNCHANGED <<game_state, points, over, game_matrix, spawn>>
  BY <1>0 DEF MenuIsClean, over, spawn
<1>1. CASE Start
  BY <1>1 DEF Start, game_initialize, MenuIsClean
<1>2. CASE \E S \in (SUBSET IRQs) \ {{}} : Receive(S)
  BY <1>0, <1>2 DEF Receive
<1>3. CASE MouseIgnored
  BY <1>0, <1>3 DEF MouseIgnored
<1>4. CASE MousePacket
  <2>1. PICK move \in Moves, lbdown \in BOOLEAN : mouse_event_handler(move, lbdown)
    BY <1>4 DEF MousePacket
  <2>2. CASE game_state = "PLAYING"
    BY <2>1, <2>2 DEF mouse_event_handler, MenuIsClean
  <2>3. CASE game_state # "PLAYING"
    <3>1. UNCHANGED <<points, over, game_matrix, spawn>>
      BY <1>4, <2>1, <2>3 DEF MousePacket, mouse_event_handler
    <3>2. game_state' = "MENU" => game_state = "MENU"
      BY <2>1, <2>3 DEF mouse_event_handler
    <3> QED
      BY <3>1, <3>2 DEF MenuIsClean, over, spawn
  <2> QED
    BY <2>2, <2>3
<1>5. CASE kbc_ih
  <2>1. CASE KeyIgnored \/ KeyDel \/ \E l \in Letters : KeyLetter(l)
    BY <1>0, <2>1 DEF KeyIgnored, KeyDel, KeyLetter, KbcUnchanged, KeepsPlay
  <2>2. CASE KeyEsc \/ KeyP \/ KeyEnterName
    BY <2>2 DEF KeyEsc, KeyP, KeyEnterName, MenuIsClean
  <2>3. CASE KeyEnterMenu
    BY <2>3 DEF KeyEnterMenu, game_initialize, MenuIsClean
  <2> QED
    BY <1>5, <2>1, <2>2, <2>3 DEF kbc_ih
<1>6. CASE TimerIH
  <2>1. CASE NoFrame \/ IdleFrame
    BY <1>0, <2>1 DEF NoFrame, IdleFrame, Frame
  <2>2. CASE PlayFrame \/ GameOverFrame \/ \E k \in Cells : KilledFrame(k)
    BY <2>2 DEF PlayFrame, GameOverFrame, KilledFrame, MenuIsClean
  <2> QED
    BY <1>6, <2>1, <2>2 DEF TimerIH
<1>7. CASE Finish
  BY <1>0, <1>7 DEF Finish
<1>8. CASE UNCHANGED vars
  BY <1>0, <1>8 DEF vars
<1> QED
  BY <1>1, <1>2, <1>3, <1>4, <1>5, <1>6, <1>7, <1>8 DEF Next, mouse_ih

(* The crosshair is moved by mouse_event_handler and game_initialize only. *)
LEMMA NextCrosshair ==
    ASSUME TypeOK, CrosshairOnScreen, [Next]_vars
    PROVE  CrosshairOnScreen'
<1>0. CASE UNCHANGED <<mouse_x, mouse_y>>
  BY <1>0 DEF CrosshairOnScreen
<1>1. CASE Start
  BY <1>1, MiddleOnScreen DEF Start, game_initialize, CrosshairOnScreen
<1>2. CASE \E S \in (SUBSET IRQs) \ {{}} : Receive(S)
  BY <1>0, <1>2 DEF Receive, pointer
<1>3. CASE MouseIgnored
  BY <1>0, <1>3 DEF MouseIgnored, pointer
<1>4. CASE MousePacket
  <2>1. PICK move \in Moves, lbdown \in BOOLEAN : mouse_event_handler(move, lbdown)
    BY <1>4 DEF MousePacket
  <2>2. mouse_x + move[1] \in Int /\ mouse_y - move[2] \in Int
    BY InputAssumption DEF TypeOK, PointerTypeOK
  <2> QED
    BY <2>1, <2>2, ClampedOnScreen DEF mouse_event_handler, CrosshairOnScreen
<1>5. CASE kbc_ih
  <2>1. CASE KeyEnterMenu
    BY <2>1, MiddleOnScreen DEF KeyEnterMenu, game_initialize, CrosshairOnScreen
  <2>2. CASE ~KeyEnterMenu
    BY <1>0, <1>5, <2>2
       DEF kbc_ih, KeyIgnored, KeyEsc, KeyP, KeyLetter, KeyDel, KeyEnterName, KeepsPlay
  <2> QED
    BY <2>1, <2>2
<1>6. CASE TimerIH
  BY <1>0, <1>6
     DEF TimerIH, NoFrame, PlayFrame, KilledFrame, GameOverFrame, IdleFrame, Frame, pointer
<1>7. CASE Finish
  BY <1>0, <1>7 DEF Finish, pointer
<1>8. CASE UNCHANGED vars
  BY <1>0, <1>8 DEF vars, pointer
<1> QED
  BY <1>1, <1>2, <1>3, <1>4, <1>5, <1>6, <1>7, <1>8 DEF Next, mouse_ih

(* One call of game_generate_new_alien.                                    *)
LEMMA GenerateSpawnClock ==
    ASSUME SpawnTypeOK, SpawnClockSound, NEW m, game_generate_new_alien(m)
    PROVE  SpawnClockSound'
<1> USE DEF SpawnTypeOK, SpawnClockSound
<1>1. CASE /\ random_alien_counter < random_alien_number
           /\ random_alien_counter' = random_alien_counter + 1
           /\ UNCHANGED <<random_alien_number, random_alien_spawn_rate_increase>>
  BY <1>1
<1>2. CASE random_alien_counter' = 0 /\ RateIncrease
  BY <1>2, TimingAssumption DEF RateIncrease, UintSub
<1> QED
  BY <1>1, <1>2 DEF game_generate_new_alien

(* The spawn clock is set by game_initialize and moved by                  *)
(* game_generate_new_alien only.                                           *)
LEMMA NextSpawnClock ==
    ASSUME TypeOK, SpawnClockSound, [Next]_vars
    PROVE  SpawnClockSound'
<1>0. CASE UNCHANGED spawn
  BY <1>0 DEF SpawnClockSound, spawn
<1>a. CASE game_initialize
  BY <1>a, TimingAssumption DEF game_initialize, SpawnClockSound
<1>1. CASE Start
  BY <1>1, <1>a DEF Start
<1>2. CASE \E S \in (SUBSET IRQs) \ {{}} : Receive(S)
  BY <1>0, <1>2 DEF Receive
<1>3. CASE mouse_ih
  BY <1>0, <1>3 DEF mouse_ih, MouseIgnored, MousePacket
<1>4. CASE kbc_ih
  BY <1>0, <1>4, <1>a
     DEF kbc_ih, KeyIgnored, KeyEsc, KeyP, KeyLetter, KeyDel, KeyEnterName,
         KeyEnterMenu, KeepsPlay
<1>5. CASE TimerIH
  <2>1. CASE NoFrame \/ GameOverFrame \/ IdleFrame
    BY <1>0, <2>1 DEF NoFrame, GameOverFrame, IdleFrame
  <2>2. CASE PlayFrame
    BY <2>2, GenerateSpawnClock DEF PlayFrame, TypeOK
  <2>3. CASE \E k \in Cells : KilledFrame(k)
    BY <2>3, GenerateSpawnClock DEF KilledFrame, TypeOK
  <2> QED
    BY <1>5, <2>1, <2>2, <2>3 DEF TimerIH
<1>6. CASE Finish
  BY <1>0, <1>6 DEF Finish
<1>7. CASE UNCHANGED vars
  BY <1>0, <1>7 DEF vars
<1> QED
  BY <1>1, <1>2, <1>3, <1>4, <1>5, <1>6, <1>7 DEF Next

(* Every game starts from a clean menu, whatever the last one left.        *)
THEOREM MenuIsAlwaysClean == Spec => []MenuIsClean
<1>1. Init => MenuIsClean
  BY DEF Init, MenuIsClean
<1>2. TypeOK /\ MenuIsClean /\ [Next]_vars => MenuIsClean'
  BY NextMenuIsClean
<1> QED
  BY <1>1, <1>2, TypeCorrect, PTL DEF Spec

(* No sequence of packets moves the crosshair off the screen.              *)
THEOREM CrosshairStaysOnScreen == Spec => []CrosshairOnScreen
<1>1. Init => CrosshairOnScreen
  BY MiddleOnScreen DEF Init, CrosshairOnScreen
<1>2. TypeOK /\ CrosshairOnScreen /\ [Next]_vars => CrosshairOnScreen'
  BY NextCrosshair
<1> QED
  BY <1>1, <1>2, TypeCorrect, PTL DEF Spec

(* The spawn interval never wraps and its counter never passes it.         *)
THEOREM SpawnClockIsSound == Spec => []SpawnClockSound
<1>1. Init => SpawnClockSound
  BY TimingAssumption DEF Init, SpawnClockSound
<1>2. TypeOK /\ SpawnClockSound /\ [Next]_vars => SpawnClockSound'
  BY NextSpawnClock
<1> QED
  BY <1>1, <1>2, TypeCorrect, PTL DEF Spec

-----------------------------------------------------------------------------
(* The table and the pause.                                                *)

(* The steps on which the table, the score or LB_INPUT depend: a restart,  *)
(* the entry of a name, the end of the wait, a kill.                       *)
LEMMA TableSteps ==
    ASSUME [Next]_vars
    PROVE  \/ Start
           \/ KeyEnterName
           \/ GameOverFrame
           \/ /\ UNCHANGED LB
              /\ \/ game_state' # "LB_INPUT"
                 \/ UNCHANGED <<game_state, points>>
<1>1. CASE \E S \in (SUBSET IRQs) \ {{}} : Receive(S)
  BY <1>1 DEF Receive, scores
<1>2. CASE MouseIgnored
  BY <1>2 DEF MouseIgnored, scores
<1>3. CASE MousePacket
  <2>1. PICK move \in Moves, lbdown \in BOOLEAN : mouse_event_handler(move, lbdown)
    BY <1>3 DEF MousePacket
  <2>2. UNCHANGED LB
    BY <1>3 DEF MousePacket, scores
  <2>3. game_state' # "LB_INPUT" \/ UNCHANGED <<game_state, points>>
    BY <2>1 DEF mouse_event_handler, MenuChoice
  <2> QED
    BY <2>2, <2>3
<1>4. CASE kbc_ih
  BY <1>4
     DEF kbc_ih, KeyIgnored, KeyEsc, KeyP, KeyLetter, KeyDel, KeyEnterMenu,
         game_initialize, KeepsPlay, scores
<1>5. CASE NoFrame
  BY <1>5 DEF NoFrame, scores
<1>6. CASE PlayFrame \/ IdleFrame \/ \E k \in Cells : KilledFrame(k)
  BY <1>6 DEF PlayFrame, IdleFrame, KilledFrame, Frame
<1>7. CASE Finish
  BY <1>7 DEF Finish
<1>8. CASE UNCHANGED vars
  BY <1>8 DEF vars, scores
<1> QED
  BY <1>1, <1>2, <1>3, <1>4, <1>5, <1>6, <1>7, <1>8 DEF Next, mouse_ih, TimerIH

(* The input screen is entered only with a score better than the worst.    *)
LEMMA NextInput ==
    ASSUME InputOnlyForBest, [Next]_vars
    PROVE  InputOnlyForBest'
<1>1. CASE Start
  BY <1>1 DEF Start, game_initialize, InputOnlyForBest
<1>2. CASE KeyEnterName
  BY <1>2 DEF KeyEnterName, InputOnlyForBest
<1>3. CASE GameOverFrame
  <2>1. UNCHANGED <<points, LB>>
    BY <1>3 DEF GameOverFrame, Frame
  <2>2. game_state' = "LB_INPUT" => LB.scores[0] < points
    BY <1>3 DEF GameOverFrame, compareScore
  <2>3. 0 \in Index
    BY LeaderboardAssumption DEF Index
  <2> QED
    BY <2>1, <2>2, <2>3 DEF InputOnlyForBest
<1>4. CASE UNCHANGED LB /\ (game_state' # "LB_INPUT" \/ UNCHANGED <<game_state, points>>)
  BY <1>4 DEF InputOnlyForBest
<1> QED
  BY <1>1, <1>2, <1>3, <1>4, TableSteps

(* Every save file the program meets holds an ordered table: the ones it   *)
(* is given, and the empty one it leaves.                                  *)
FileOrdered == Ordered(readSaveFile(savefile, EmptyLeaderboard))

(* The file with no line reads as the empty table.                         *)
LEMMA EmptyFileOrdered ==
    Ordered(readSaveFile([present |-> TRUE, lines |-> << >>], EmptyLeaderboard))
BY LeaderboardAssumption DEF readSaveFile, EmptyLeaderboard, Ordered, Index

(* savefile is written by Finish only.                                     *)
LEMMA NextFile ==
    ASSUME TypeOK, FileOrdered, [Next]_vars
    PROVE  FileOrdered'
<1>1. CASE Finish
  <2>1. savefile' = [present |-> TRUE, lines |-> << >>]
    BY <1>1, WriteIsEmpty DEF Finish, TypeOK, ScoresTypeOK
  <2> QED
    BY <2>1, EmptyFileOrdered DEF FileOrdered
<1>2. CASE UNCHANGED savefile
  BY <1>2 DEF FileOrdered
<1>3. CASE Start \/ (\E S \in (SUBSET IRQs) \ {{}} : Receive(S)) \/ mouse_ih \/ UNCHANGED vars
  BY <1>2, <1>3 DEF Start, Receive, mouse_ih, MouseIgnored, MousePacket, vars, scores
<1>4. CASE kbc_ih
  BY <1>2, <1>4
     DEF kbc_ih, KeyIgnored, KeyEsc, KeyP, KeyLetter, KeyDel, KeyEnterName,
         KeyEnterMenu, KbcUnchanged, scores
<1>5. CASE TimerIH
  BY <1>2, <1>5
     DEF TimerIH, NoFrame, PlayFrame, KilledFrame, GameOverFrame, IdleFrame, Frame, scores
<1> QED
  BY <1>1, <1>3, <1>4, <1>5 DEF Next

(* The table is ordered after every step, if scores fit their uint8_t.     *)
LEMMA NextOrdered ==
    ASSUME PointsFit, TypeOK, FileOrdered, LeaderboardOrdered, [Next]_vars
    PROVE  LeaderboardOrdered'
<1>1. CASE Start
  BY <1>1 DEF Start, FileOrdered, LeaderboardOrdered
<1>2. CASE KeyEnterName
  <2>1. points \in Score /\ name \in Name /\ LB \in LeaderboardType
    BY InputAssumption, LeaderboardAssumption
       DEF TypeOK, PlayTypeOK, ScoresTypeOK, PointsFit, Score
  <2>2. Ordered(addScore(points, name, LB))
    BY <2>1, AddScoreOrdered DEF LeaderboardOrdered
  <2> QED
    BY <1>2, <2>2 DEF KeyEnterName, LeaderboardOrdered
<1>3. CASE GameOverFrame
  BY <1>3 DEF GameOverFrame, Frame, LeaderboardOrdered
<1>4. CASE UNCHANGED LB
  BY <1>4 DEF LeaderboardOrdered
<1> QED
  BY <1>1, <1>2, <1>3, <1>4, TableSteps

(* A name is only ever asked for, and entered with, a score that belongs   *)
(* in the table.                                                           *)
THEOREM InputIsForBest == Spec => []InputOnlyForBest
<1>1. Init => InputOnlyForBest
  BY DEF Init, InputOnlyForBest
<1>2. InputOnlyForBest /\ [Next]_vars => InputOnlyForBest'
  BY NextInput
<1> QED
  BY <1>1, <1>2, PTL DEF Spec

(* The leaderboard stays ordered over any number of games and restarts, as *)
(* long as no score exceeds a uint8_t.                                     *)
THEOREM TableIsOrdered == PointsFit => (Spec => []LeaderboardOrdered)
<1> SUFFICES ASSUME PointsFit PROVE Spec => []LeaderboardOrdered
  OBVIOUS
<1>1. Init => FileOrdered /\ LeaderboardOrdered
  BY FilesAssumption, EmptyLeaderboardType DEF Init, FileOrdered, LeaderboardOrdered
<1>2. /\ TypeOK /\ FileOrdered /\ LeaderboardOrdered /\ [Next]_vars
      => FileOrdered' /\ LeaderboardOrdered'
  BY NextFile, NextOrdered
<1> QED
  BY <1>1, <1>2, TypeCorrect, PTL DEF Spec

(* Nothing of the game moves during a pause.                               *)
THEOREM PauseIsFrozen == Spec => PauseFreezes
<1> DEFINE Frozen ==
      game_state = "PAUSE" =>
        /\ UNCHANGED <<points, over, game_matrix, spawn, LB, name>>
        /\ game_state' \in {"PAUSE", "PLAYING", "EXIT"}
<1>1. (running \/ game_state = "EXIT") /\ [Next]_vars => [Frozen]_vars
  <2> SUFFICES ASSUME running \/ game_state = "EXIT", Next, game_state = "PAUSE"
               PROVE  /\ UNCHANGED <<points, over, game_matrix, spawn, LB, name>>
                      /\ game_state' \in {"PAUSE", "PLAYING", "EXIT"}
    OBVIOUS
  <2>1. ~Start
    BY DEF Start
  <2>2. CASE \E S \in (SUBSET IRQs) \ {{}} : Receive(S)
    BY <2>2 DEF Receive, scores
  <2>3. CASE MouseIgnored
    BY <2>3 DEF MouseIgnored, scores
  <2>4. CASE MousePacket
    BY <2>4 DEF MousePacket, mouse_event_handler, scores
  <2>5. CASE kbc_ih
    BY <2>5
       DEF kbc_ih, KeyIgnored, KeyEsc, KeyP, KeyLetter, KeyDel, KeyEnterName,
           KeyEnterMenu, KbcUnchanged, KeepsPlay
  <2>6. CASE TimerIH
    BY <2>6
       DEF TimerIH, NoFrame, PlayFrame, KilledFrame, GameOverFrame, IdleFrame,
           Frame, scores
  <2>7. ~Finish
    BY DEF Finish
  <2> QED
    BY <2>1, <2>2, <2>3, <2>4, <2>5, <2>6, <2>7 DEF Next, mouse_ih
<1>2. Init => running \/ game_state = "EXIT"
  BY DEF Init
<1>3. (running \/ game_state = "EXIT") /\ [Next]_vars
        => (running \/ game_state = "EXIT")'
  <2> SUFFICES ASSUME running \/ game_state = "EXIT", [Next]_vars
               PROVE  running' \/ game_state' = "EXIT"
    OBVIOUS
  <2>1. CASE UNCHANGED running /\ (game_state = "EXIT" => game_state' = "EXIT")
    BY <2>1
  <2>2. CASE Start
    BY <2>2 DEF Start
  <2>3. CASE \E S \in (SUBSET IRQs) \ {{}} : Receive(S)
    BY <2>1, <2>3 DEF Receive
  <2>4. CASE MouseIgnored
    BY <2>1, <2>4 DEF MouseIgnored, Handles
  <2>5. CASE MousePacket
    BY <2>1, <2>5 DEF MousePacket, Handles, mouse_event_handler
  <2>6. CASE kbc_ih
    BY <2>1, <2>6
       DEF kbc_ih, KeyIgnored, KeyEsc, KeyP, KeyLetter, KeyDel, KeyEnterName,
           KeyEnterMenu, Handles
  <2>7. CASE TimerIH
    BY <2>1, <2>7
       DEF TimerIH, NoFrame, PlayFrame, KilledFrame, GameOverFrame, IdleFrame,
           Frame, TimerInterrupt, Handles
  <2>8. CASE Finish
    BY <2>8 DEF Finish
  <2>9. CASE UNCHANGED vars
    BY <2>1, <2>9 DEF vars, loop
  <2> QED
    BY <2>2, <2>3, <2>4, <2>5, <2>6, <2>7, <2>8, <2>9 DEF Next, mouse_ih
<1> QED
  BY <1>1, <1>2, <1>3, PTL DEF Spec, PauseFreezes

-----------------------------------------------------------------------------
(* The table as a bag.                                                     *)

(* An array after addScore: the entries up to the hole move down a place,  *)
(* the new one takes the hole, and the ones above it stay.                 *)
Rotated(old, new, hole) ==
    [j \in Index |-> IF j < hole THEN old[j + 1] ELSE IF j = hole THEN new ELSE old[j]]

(* The walk of addScore ends: there is a last entry that it passes.        *)
LEMMA HoleExists ==
    ASSUME NEW lb, NEW s
    PROVE  \E h \in Index : /\ Passed(lb, s, h)
                            /\ ~(h + 1 \in Index /\ Passed(lb, s, h + 1))
<1> DEFINE T == {j \in Nat : ~(j \in Index /\ Passed(lb, s, j))}
           R == OpToRel(<, Nat)
<1>1. LB_SIZE \in T
  BY LeaderboardAssumption DEF Index
<1>2. IsWellFoundedOn(R, Nat)
  BY NatLessThanWellFounded
<1>3. \A a, b \in Nat : a < b => <<a, b>> \in R
  BY DEF OpToRel
<1>4. T \subseteq Nat /\ T # {}
  BY <1>1
<1> HIDE DEF R
<1>5. PICK k \in T : \A j \in T : ~(<<j, k>> \in R)
  <2> HIDE DEF T
  <2> QED
    BY <1>2, <1>4, WFMin, Zenon
<1>6. 0 \in Index /\ Passed(lb, s, 0)
  BY LeaderboardAssumption DEF Index, Passed
<1>7. k \in Nat /\ k # 0
  BY <1>6
<1>8. k - 1 \in Nat /\ k - 1 \notin T
  <2>1. k - 1 \in Nat /\ k - 1 < k
    BY <1>7
  <2>2. <<k - 1, k>> \in R
    BY <1>3, <1>7, <2>1
  <2> HIDE DEF T
  <2> QED
    BY <1>5, <2>1, <2>2
<1>9. k - 1 \in Index /\ Passed(lb, s, k - 1)
  BY <1>8
<1>10. k - 1 + 1 = k
  BY <1>7
<1>11. ~(k \in Index /\ Passed(lb, s, k))
  BY <1>5
<1> QED
  BY <1>9, <1>10, <1>11

(* What addScore does to both arrays.                                      *)
LEMMA AddScoreRotates ==
    ASSUME NEW lb, NEW s, NEW n
    PROVE  \E h \in Index :
             addScore(s, n, lb) = [names  |-> Rotated(lb.names, n, h),
                                   scores |-> Rotated(lb.scores, s % UINT8_MOD, h)]
<1>1. PICK h \in Index : /\ Passed(lb, s, h)
                         /\ ~(h + 1 \in Index /\ Passed(lb, s, h + 1))
  BY HoleExists
<1>2. \A i, j \in Index : i =< j /\ Passed(lb, s, j) => Passed(lb, s, i)
  BY DEF Passed, Index
<1>3. ASSUME NEW j \in Index
      PROVE  /\ j < h <=> (j + 1 \in Index /\ Passed(lb, s, j + 1))
             /\ j =< h <=> Passed(lb, s, j)
  <2>1. j \in Int /\ h \in Int
    BY DEF Index
  <2>2. j =< h => Passed(lb, s, j)
    BY <1>1, <1>2
  <2>3. j < h => j + 1 \in Index /\ Passed(lb, s, j + 1)
    <3> SUFFICES ASSUME j < h PROVE j + 1 \in Index /\ Passed(lb, s, j + 1)
      OBVIOUS
    <3>1. j + 1 \in Index /\ j + 1 =< h
      BY <2>1, LeaderboardAssumption DEF Index
    <3> QED
      BY <1>1, <1>2, <3>1
  <2>4. ASSUME h < j, Passed(lb, s, j) PROVE FALSE
    <3>1. h + 1 \in Index /\ h + 1 =< j
      BY <2>1, <2>4, LeaderboardAssumption DEF Index
    <3> QED
      BY <1>1, <1>2, <2>4, <3>1
  <2>5. ASSUME h =< j, j + 1 \in Index, Passed(lb, s, j + 1) PROVE FALSE
    <3>1. h + 1 \in Index /\ h + 1 =< j + 1
      BY <2>1, <2>5, LeaderboardAssumption DEF Index
    <3> QED
      BY <1>1, <1>2, <2>5, <3>1
  <2> QED
    BY <2>1, <2>2, <2>3, <2>4, <2>5
<1>4. h \in Int /\ \A j \in Index : j \in Int
  BY DEF Index
<1>5. ASSUME NEW old, NEW new
      PROVE  [j \in Index |-> IF j + 1 \in Index /\ Passed(lb, s, j + 1) THEN old[j + 1]
                              ELSE IF Passed(lb, s, j) THEN new
                              ELSE old[j]]
               = Rotated(old, new, h)
  BY <1>3, <1>4 DEF Rotated
<1> QED
  BY <1>5 DEF addScore

(* How many entries of an array have the value v.                          *)
Count(f, v) == Cardinality({j \in Index : f[j] = v})

(* Index and its subsets are finite.                                       *)
LEMMA IndexFinite ==
    ASSUME NEW S \in SUBSET Index
    PROVE  IsFiniteSet(S) /\ Cardinality(S) \in Nat
<1>1. IsFiniteSet(Index)
  BY FS_Interval, LeaderboardAssumption DEF Index
<1> QED
  BY <1>1, FS_Subset, FS_CardinalityType

(* Rotating an array counts as putting the new value at index 0.           *)
LEMMA RotatedCount ==
    ASSUME NEW f, NEW x, NEW h \in Index, NEW v
    PROVE  Count(Rotated(f, x, h), v)
             = Cardinality({j \in Index : IF j = 0 THEN x = v ELSE f[j] = v})
<1> DEFINE A == {j \in Index : Rotated(f, x, h)[j] = v}
           B == {j \in Index : IF j = 0 THEN x = v ELSE f[j] = v}
           place(j) == IF j < h THEN j + 1 ELSE IF j = h THEN 0 ELSE j
           F == [j \in A |-> place(j)]
<1>1. \A j \in Index : j \in 0 .. LB_SIZE - 1 /\ j \in Int
  BY LeaderboardAssumption DEF Index
<1>2. ASSUME NEW j \in A PROVE place(j) \in B
  <2>1. j \in Index /\ j \in Int /\ h \in Int /\ j >= 0 /\ h >= 0 /\ h =< LB_SIZE - 1
    BY <1>1
  <2>2. CASE j < h
    BY <2>1, <2>2, LeaderboardAssumption DEF Rotated, Index
  <2>3. CASE j = h
    BY <2>1, <2>3, LeaderboardAssumption DEF Rotated, Index
  <2>4. CASE j > h
    BY <2>1, <2>4, LeaderboardAssumption DEF Rotated, Index
  <2> QED
    BY <2>1, <2>2, <2>3, <2>4
<1>3. ASSUME NEW i \in A, NEW j \in A, place(i) = place(j) PROVE i = j
  <2>1. i \in Int /\ j \in Int /\ h \in Int /\ i >= 0 /\ j >= 0 /\ h >= 0
    BY <1>1
  <2> QED
    BY <1>3, <2>1
<1>4. ASSUME NEW k \in B PROVE \E j \in A : place(j) = k
  <2>1. k \in Index /\ k \in Int /\ h \in Int /\ k >= 0 /\ h >= 0 /\ h =< LB_SIZE - 1
    BY <1>1
  <2>2. CASE k = 0
    <3>1. h \in A /\ place(h) = k
      BY <2>1, <2>2 DEF Rotated
    <3> QED
      BY <3>1
  <2>3. CASE k > 0 /\ k =< h
    <3>1. k - 1 \in Index /\ k - 1 < h /\ k - 1 + 1 = k
      BY <2>1, <2>3, LeaderboardAssumption DEF Index
    <3>2. Rotated(f, x, h)[k - 1] = f[k]
      BY <3>1 DEF Rotated
    <3>3. f[k] = v
      BY <2>1, <2>3
    <3>4. k - 1 \in A /\ place(k - 1) = k
      BY <3>1, <3>2, <3>3
    <3> QED
      BY <3>4
  <2>4. CASE k > h
    <3>1. k \in A /\ place(k) = k
      BY <2>1, <2>4 DEF Rotated
    <3> QED
      BY <3>1
  <2> QED
    BY <2>1, <2>2, <2>3, <2>4
<1> HIDE DEF A, B, place
<1>5. F \in [A -> B]
  BY <1>2
<1>6. \A a, b \in A : F[a] = F[b] => a = b
  BY <1>3
<1>7. \A b \in B : \E a \in A : F[a] = b
  BY <1>4
<1>8. ExistsBijection(A, B)
  <2>1. F \in Bijection(A, B)
    BY <1>5, <1>6, <1>7, Fun_IsBij, Zenon
  <2> QED
    BY <2>1 DEF ExistsBijection
<1>9. IsFiniteSet(A)
  BY IndexFinite DEF A
<1>10. Cardinality(A) = Cardinality(B)
  BY <1>8, <1>9, FS_Bijection
<1> QED
  BY <1>10 DEF A, B, Count

(* addScore takes one away from the count of the value at index 0 and adds *)
(* one to that of the new value.                                           *)
LEMMA AddScoreCount ==
    ASSUME NEW f, NEW x, NEW h \in Index, NEW v
    PROVE  /\ Count(f, v) \in Nat
           /\ f[0] = v /\ x # v => Count(Rotated(f, x, h), v) = Count(f, v) - 1
           /\ f[0] # v /\ x = v => Count(Rotated(f, x, h), v) = Count(f, v) + 1
           /\ (f[0] = v <=> x = v) => Count(Rotated(f, x, h), v) = Count(f, v)
<1> DEFINE A == {j \in Index : f[j] = v}
           B == {j \in Index : IF j = 0 THEN x = v ELSE f[j] = v}
<1>1. 0 \in Index
  BY LeaderboardAssumption DEF Index
<1>2. IsFiniteSet(A) /\ Cardinality(A) \in Nat /\ Count(f, v) = Cardinality(A)
  BY IndexFinite DEF Count
<1>3. Count(Rotated(f, x, h), v) = Cardinality(B)
  BY RotatedCount
<1>4. x = v => B = A \cup {0}
  BY <1>1
<1>5. x # v => B = A \ {0}
  OBVIOUS
<1>6. 0 \in A <=> f[0] = v
  BY <1>1
<1> HIDE DEF A, B
<1>7. Cardinality(A \cup {0}) = IF 0 \in A THEN Cardinality(A) ELSE Cardinality(A) + 1
  BY <1>2, FS_AddElement
<1>8. Cardinality(A \ {0}) = IF 0 \in A THEN Cardinality(A) - 1 ELSE Cardinality(A)
  BY <1>2, FS_RemoveElement
<1> QED
  BY <1>2, <1>3, <1>4, <1>5, <1>6, <1>7, <1>8

-----------------------------------------------------------------------------
(* ENTER on the input screen is the only step from there to the table.     *)
LEMMA LeavesInput ==
    ASSUME TypeOK, [Next]_vars, game_state = "LB_INPUT", game_state' = "LEADERBOARD"
    PROVE  KeyEnterName
<1>1. ~Start
  BY DEF Start, game_initialize
<1>2. ~\E S \in (SUBSET IRQs) \ {{}} : Receive(S)
  BY DEF Receive
<1>3. ~mouse_ih
  BY DEF mouse_ih, MouseIgnored, MousePacket, mouse_event_handler
<1>4. kbc_ih => KeyEnterName
  BY DEF kbc_ih, KeyIgnored, KeyEsc, KeyP, KeyLetter, KeyDel, KeyEnterMenu
<1>5. ~TimerIH
  BY DEF TimerIH, NoFrame, PlayFrame, KilledFrame, GameOverFrame, IdleFrame
<1>6. ~Finish
  BY DEF Finish
<1>7. ~UNCHANGED vars
  BY DEF vars
<1> QED
  BY <1>1, <1>2, <1>3, <1>4, <1>5, <1>6, <1>7 DEF Next

(* leaderboard.h on addScore, "Adds score to leaderboard": the score is in *)
(* the table under the name, and every entry but the worst is kept with    *)
(* its own name, wherever the walk of addScore ends.                       *)
THEOREM AddedScoreIsKept == PointsFit => (Spec => AddedScoreIsInTable)
<1> SUFFICES ASSUME PointsFit PROVE Spec => AddedScoreIsInTable
  OBVIOUS
<1> DEFINE Entry(lb, i) == <<lb.scores[i], lb.names[i]>>
           Expected == {<<points, name>>} \cup {Entry(LB, i) : i \in Index \ {0}}
           Kept == game_state = "LB_INPUT" /\ game_state' = "LEADERBOARD" =>
                     Expected \subseteq {Entry(LB', i) : i \in Index}
<1>1. TypeOK /\ [Next]_vars => [Kept]_vars
  <2> SUFFICES ASSUME TypeOK, [Next]_vars,
                      game_state = "LB_INPUT", game_state' = "LEADERBOARD",
                      NEW e \in Expected
               PROVE  \E j \in Index : e = Entry(LB', j)
    OBVIOUS
  <2>1. LB' = addScore(points, name, LB)
    BY LeavesInput DEF KeyEnterName
  <2>2. points % UINT8_MOD = points
    BY InputAssumption, LeaderboardAssumption DEF TypeOK, PlayTypeOK, PointsFit
  <2>3. PICK h \in Index :
          LB' = [names |-> Rotated(LB.names, name, h), scores |-> Rotated(LB.scores, points, h)]
    BY <2>1, <2>2, AddScoreRotates
  <2>4. \A j \in Index : /\ j < h => Entry(LB', j) = Entry(LB, j + 1)
                         /\ j = h => Entry(LB', j) = <<points, name>>
                         /\ ~(j < h) /\ j # h => Entry(LB', j) = Entry(LB, j)
    <3>1. \A j \in Index : j \in Int
      BY DEF Index
    <3> QED
      BY <2>3, <3>1 DEF Rotated
  <2>5. CASE e = <<points, name>>
    <3>1. ~(h < h) /\ Entry(LB', h) = <<points, name>>
      BY <2>4 DEF Index
    <3> QED
      BY <2>5, <3>1
  <2>6. ASSUME NEW i \in Index \ {0}, e = Entry(LB, i)
        PROVE  \E j \in Index : e = Entry(LB', j)
    <3>1. i \in Int /\ h \in Int /\ i > 0
      BY DEF Index
    <3>2. CASE i > h
      <4>1. i \in Index /\ ~(i < h) /\ i # h
        BY <3>1, <3>2
      <4>2. Entry(LB', i) = Entry(LB, i)
        BY <2>4, <4>1
      <4> QED
        BY <2>6, <4>2
    <3>3. CASE i =< h
      <4>1. i - 1 \in Index /\ i - 1 < h /\ i - 1 + 1 = i
        BY <3>1, <3>3, LeaderboardAssumption DEF Index
      <4>2. Entry(LB', i - 1) = Entry(LB, i)
        BY <2>4, <4>1
      <4> QED
        BY <2>6, <4>1, <4>2
    <3> QED
      BY <3>1, <3>2, <3>3
  <2> QED
    BY <2>5, <2>6
<1> QED
  BY <1>1, TypeCorrect, PTL DEF Spec, AddedScoreIsInTable

-----------------------------------------------------------------------------
(* Game implements GameFlow, apart from its fairness.                      *)

(* The scores that the bag of a table holds are those of its entries.      *)
LEMMA PresentScores ==
    ASSUME NEW lb \in LeaderboardType
    PROVE  Flow!Present(BagOf(lb)) = {lb.scores[j] : j \in Index}
<1>1. \A j \in Index : lb.scores[j] \in Score
  BY DEF LeaderboardType
<1>2. ASSUME NEW v \in Score
      PROVE  BagOf(lb)[v] > 0 <=> \E j \in Index : lb.scores[j] = v
  <2> DEFINE A == {j \in Index : lb.scores[j] = v}
  <2>1. BagOf(lb)[v] = Cardinality(A)
    BY DEF BagOf
  <2>2. IsFiniteSet(A) /\ Cardinality(A) \in Nat
    BY IndexFinite
  <2>3. A # {} <=> \E j \in Index : lb.scores[j] = v
    OBVIOUS
  <2> HIDE DEF A
  <2>4. Cardinality(A) = 0 <=> A = {}
    BY <2>2, FS_EmptySet
  <2> QED
    BY <2>1, <2>2, <2>3, <2>4
<1>3. Flow!Scores = Score
  BY DEF Flow!Scores, Score
<1> QED
  BY <1>1, <1>2, <1>3 DEF Flow!Present

(* compareScore looks at index 0 only; in an ordered table that decides    *)
(* whether the score is better than some entry.                            *)
LEMMA CompareQualifies ==
    ASSUME NEW lb \in LeaderboardType, Ordered(lb), NEW s \in Nat
    PROVE  Flow!Qualifies(s, BagOf(lb)) <=> compareScore(s, lb)
<1>1. 0 \in Index /\ \A j \in Index : j \in Nat /\ lb.scores[j] \in Nat
  BY LeaderboardAssumption DEF Index, LeaderboardType, Score
<1>2. \A j \in Index : lb.scores[0] =< lb.scores[j]
  BY <1>1 DEF Ordered
<1>3. Flow!Qualifies(s, BagOf(lb)) <=> \E j \in Index : lb.scores[j] < s
  BY PresentScores DEF Flow!Qualifies
<1> QED
  BY <1>1, <1>2, <1>3 DEF compareScore

(* addScore on an ordered table replaces a worst score by the new one.     *)
LEMMA AddScoreSubmits ==
    ASSUME NEW lb \in LeaderboardType, Ordered(lb), NEW s \in Score, NEW n \in Name
    PROVE  \E w \in Flow!Scores :
             /\ Flow!IsWorst(w, BagOf(lb))
             /\ BagOf(addScore(s, n, lb)) = Flow!Plus(Flow!Minus(BagOf(lb), w), s)
<1> DEFINE w == lb.scores[0]
<1>1. 0 \in Index /\ \A j \in Index : j \in Nat /\ lb.scores[j] \in Score
  BY LeaderboardAssumption DEF Index, LeaderboardType
<1>2. \A j \in Index : w =< lb.scores[j]
  BY <1>1, LeaderboardAssumption DEF Ordered, Score
<1>3. w \in Flow!Scores
  BY <1>1 DEF Flow!Scores, Score
<1>4. Flow!IsWorst(w, BagOf(lb))
  BY <1>1, <1>2, PresentScores DEF Flow!IsWorst
<1>5. s % UINT8_MOD = s
  BY LeaderboardAssumption DEF Score
<1>6. PICK h \in Index : addScore(s, n, lb).scores = Rotated(lb.scores, s, h)
  BY <1>5, AddScoreRotates
<1> DEFINE old == BagOf(lb)
           new == BagOf(addScore(s, n, lb))
<1>7. /\ old = [v \in Score |-> Count(lb.scores, v)]
      /\ new = [v \in Score |-> Count(Rotated(lb.scores, s, h), v)]
  BY <1>6 DEF BagOf, Count
<1>8. \A v \in Score :
        /\ old[v] \in Nat
        /\ w = v /\ s # v => new[v] = old[v] - 1
        /\ w # v /\ s = v => new[v] = old[v] + 1
        /\ (w = v <=> s = v) => new[v] = old[v]
  BY <1>7, AddScoreCount
<1>9. w \in Score
  BY <1>1
<1>10. DOMAIN old = Score /\ DOMAIN new = Score
  BY <1>7
<1>11. /\ old = [v \in Score |-> old[v]]
       /\ new = [v \in Score |-> new[v]]
  BY <1>7
<1> HIDE DEF old, new, w
<1>12. new = Flow!Plus(Flow!Minus(old, w), s)
  <2>1. [[old EXCEPT ![w] = @ - 1] EXCEPT ![s] = @ + 1]
          = [v \in Score |-> IF v = s
                             THEN (IF v = w THEN old[v] - 1 ELSE old[v]) + 1
                             ELSE IF v = w THEN old[v] - 1 ELSE old[v]]
    BY <1>9, <1>11
  <2>2. ASSUME NEW v \in Score
        PROVE  new[v] = IF v = s THEN (IF v = w THEN old[v] - 1 ELSE old[v]) + 1
                        ELSE IF v = w THEN old[v] - 1 ELSE old[v]
    BY <1>8
  <2>3. new = [v \in Score |-> IF v = s
                               THEN (IF v = w THEN old[v] - 1 ELSE old[v]) + 1
                               ELSE IF v = w THEN old[v] - 1 ELSE old[v]]
    BY <1>11, <2>2
  <2> QED
    BY <2>1, <2>3 DEF Flow!Plus, Flow!Minus
<1> QED
  BY <1>3, <1>4, <1>12 DEF old, new, w

(* The files the program meets: those it is given, and the one it leaves.  *)
FileKnown == savefile \in SaveFiles \/ savefile = [present |-> TRUE, lines |-> << >>]

(* The program is in its loop, or over.                                    *)
RunsOrOver == running \/ game_state = "EXIT"

FlowInv == TypeOK /\ LeaderboardOrdered /\ FileKnown /\ RunsOrOver

(* What a process reads at its start is one of the tables of GameFlow.     *)
LEMMA ReadsTable ==
    ASSUME FileKnown
    PROVE  BagOf(readSaveFile(savefile, EmptyLeaderboard))
             \in {BagOf(EmptyLeaderboard)}
                   \cup {BagOf(readSaveFile(f, EmptyLeaderboard)) : f \in SaveFiles}
<1>1. readSaveFile([present |-> TRUE, lines |-> << >>], EmptyLeaderboard) = EmptyLeaderboard
  BY LeaderboardAssumption DEF readSaveFile, EmptyLeaderboard, Index
<1> QED
  BY <1>1 DEF FileKnown

(* Only Finish writes the file, and only an EXIT ends the loop.            *)
LEMMA NextFlowInv ==
    ASSUME FileKnown, RunsOrOver, TypeOK, [Next]_vars
    PROVE  FileKnown' /\ RunsOrOver'
<1>1. CASE Start
  BY <1>1 DEF Start, FileKnown, RunsOrOver
<1>2. CASE \E S \in (SUBSET IRQs) \ {{}} : Receive(S)
  BY <1>2 DEF Receive, scores, FileKnown, RunsOrOver
<1>3. CASE MouseIgnored
  BY <1>3 DEF MouseIgnored, Handles, scores, FileKnown, RunsOrOver
<1>4. CASE MousePacket
  BY <1>4 DEF MousePacket, Handles, mouse_event_handler, scores, FileKnown, RunsOrOver
<1>5. CASE kbc_ih
  BY <1>5
     DEF kbc_ih, KeyIgnored, KeyEsc, KeyP, KeyLetter, KeyDel, KeyEnterName, KeyEnterMenu,
         KbcUnchanged, Handles, scores, FileKnown, RunsOrOver
<1>6. CASE TimerIH
  BY <1>6
     DEF TimerIH, NoFrame, PlayFrame, KilledFrame, GameOverFrame, IdleFrame,
         Frame, TimerInterrupt, Handles, scores, FileKnown, RunsOrOver
<1>7. CASE Finish
  <2>1. savefile' = [present |-> TRUE, lines |-> << >>]
    BY <1>7, WriteIsEmpty DEF Finish, TypeOK, ScoresTypeOK
  <2> QED
    BY <1>7, <2>1 DEF Finish, FileKnown, RunsOrOver
<1>8. CASE UNCHANGED vars
  BY <1>8 DEF vars, loop, scores, FileKnown, RunsOrOver
<1> QED
  BY <1>1, <1>2, <1>3, <1>4, <1>5, <1>6, <1>7, <1>8 DEF Next, mouse_ih

(* The packets: a click on a button, a shot, or nothing.                   *)
LEMMA MouseFlows ==
    ASSUME RunsOrOver, MousePacket
    PROVE  Flow!Play \/ Flow!Quit \/ Flow!Kill \/ UNCHANGED Flow!flow
<1>1. running' = running /\ LB' = LB
  BY DEF MousePacket, Handles, scores
<1>2. PICK move \in Moves, lbdown \in BOOLEAN : mouse_event_handler(move, lbdown)
  BY DEF MousePacket
<1>3. \/ game_state = "PLAYING" /\ game_state' = "PLAYING" /\ points' = points + 1
      \/ game_state = "MENU" /\ game_state' \in {"EXIT", "PLAYING"} /\ points' = points
      \/ UNCHANGED <<game_state, points>>
  BY <1>2 DEF mouse_event_handler, mouse_check_kill, MenuChoice
<1>4. CASE UNCHANGED <<game_state, points>>
  BY <1>1, <1>4 DEF Flow!flow
<1>5. CASE game_state = "PLAYING" /\ game_state' = "PLAYING" /\ points' = points + 1
  BY <1>1, <1>5 DEF Flow!Kill, Flow!Go, RunsOrOver
<1>6. CASE game_state = "MENU" /\ game_state' \in {"EXIT", "PLAYING"} /\ points' = points
  BY <1>1, <1>6 DEF Flow!Play, Flow!Quit, Flow!Go, RunsOrOver
<1> QED
  BY <1>3, <1>4, <1>5, <1>6

(* The keys: each is the step of GameFlow its screen gives it, and ENTER   *)
(* on the input screen gives the score to the table.                       *)
LEMMA KeyFlows ==
    ASSUME PointsFit, FlowInv, kbc_ih
    PROVE  [Flow!Next]_(Flow!flow)
<1>1. running' = running /\ RunsOrOver
  BY DEF kbc_ih, KeyIgnored, KeyEsc, KeyP, KeyLetter, KeyDel, KeyEnterName, KeyEnterMenu,
         Handles, FlowInv
<1>2. CASE UNCHANGED <<game_state, points, LB>>
  BY <1>1, <1>2 DEF Flow!flow
<1>3. CASE KeyIgnored \/ KeyDel \/ \E l \in Letters : KeyLetter(l)
  BY <1>2, <1>3 DEF KeyIgnored, KeyDel, KeyLetter, KeepsPlay
<1>4. CASE KeyEsc
  <2>1. game_state' = "EXIT" /\ UNCHANGED <<points, LB>>
    BY <1>4 DEF KeyEsc, KeepsPlay
  <2>2. CASE running /\ game_state # "EXIT"
    <3>1. game_state # "OFF"
      BY DEF FlowInv, TypeOK, PlayTypeOK, GAME_STATE
    <3>2. Flow!Quit
      BY <1>1, <2>1, <2>2, <3>1 DEF Flow!Quit
    <3> QED
      BY <3>2 DEF Flow!Next
  <2>3. CASE game_state = "EXIT"
    BY <1>2, <2>1, <2>3
  <2> QED
    BY <1>1, <2>2, <2>3 DEF RunsOrOver
<1>5. CASE KeyP
  <2>1. Flow!TogglePause
    BY <1>1, <1>5 DEF KeyP, KeepsPlay, RunsOrOver, Flow!TogglePause, Flow!Go
  <2> QED
    BY <2>1 DEF Flow!Next
<1>6. CASE KeyEnterName
  <2>1. points \in Score /\ name \in Name /\ LB \in LeaderboardType /\ Ordered(LB)
    BY InputAssumption, LeaderboardAssumption
       DEF FlowInv, TypeOK, PlayTypeOK, ScoresTypeOK, PointsFit, Score, LeaderboardOrdered
  <2>2. LB' = addScore(points, name, LB) /\ points' = points
    BY <1>6 DEF KeyEnterName, KeepsPlay
  <2>3. \E w \in Flow!Scores :
          /\ Flow!IsWorst(w, BagOf(LB))
          /\ BagOf(LB') = Flow!Plus(Flow!Minus(BagOf(LB), w), points)
    BY <2>1, <2>2, AddScoreSubmits
  <2>4. running /\ game_state = "LB_INPUT" /\ game_state' = "LEADERBOARD"
    BY <1>1, <1>6 DEF KeyEnterName, RunsOrOver
  <2>5. Flow!Submit
    BY <1>1, <2>2, <2>3, <2>4 DEF Flow!Submit, Flow!Go
  <2> QED
    BY <2>5 DEF Flow!Next
<1>7. CASE KeyEnterMenu
  <2>1. Flow!Back
    BY <1>1, <1>7 DEF KeyEnterMenu, game_initialize, scores, RunsOrOver, Flow!Back, Flow!Go
  <2> QED
    BY <2>1 DEF Flow!Next
<1> QED
  BY <1>3, <1>4, <1>5, <1>6, <1>7 DEF kbc_ih

(* The timer: the death, the end of the wait, or nothing to the player.    *)
LEMMA TimerFlows ==
    ASSUME FlowInv, TimerIH
    PROVE  [Flow!Next]_(Flow!flow)
<1>1. running' = running /\ RunsOrOver /\ LB' = LB /\ points' = points
  BY DEF TimerIH, NoFrame, PlayFrame, KilledFrame, GameOverFrame, IdleFrame, Frame,
         TimerInterrupt, Handles, scores, FlowInv
<1>2. CASE UNCHANGED game_state
  BY <1>1, <1>2 DEF Flow!flow
<1>3. CASE NoFrame \/ PlayFrame \/ IdleFrame
  BY <1>2, <1>3 DEF NoFrame, PlayFrame, IdleFrame
<1>4. CASE \E k \in Cells : KilledFrame(k)
  <2>1. Flow!Die
    BY <1>1, <1>4 DEF KilledFrame, RunsOrOver, Flow!Die, Flow!Go
  <2> QED
    BY <2>1 DEF Flow!Next
<1>5. CASE GameOverFrame
  <2>1. CASE game_state' = IF compareScore(points, LB) THEN "LB_INPUT" ELSE "LEADERBOARD"
    <3>1. Flow!Qualifies(points, BagOf(LB)) <=> compareScore(points, LB)
      <4>1. points \in Nat /\ LB \in LeaderboardType /\ Ordered(LB)
        BY InputAssumption
           DEF FlowInv, TypeOK, PlayTypeOK, ScoresTypeOK, LeaderboardOrdered
      <4> QED
        BY <4>1, CompareQualifies
    <3>2. running /\ game_state = "GAME_OVER"
      BY <1>1, <1>5 DEF GameOverFrame, RunsOrOver
    <3>3. Flow!Rank
      BY <1>1, <2>1, <3>1, <3>2 DEF Flow!Rank, Flow!Go
    <3> QED
      BY <3>3 DEF Flow!Next
  <2> QED
    BY <1>2, <1>5, <2>1 DEF GameOverFrame
<1> QED
  BY <1>3, <1>4, <1>5 DEF TimerIH

(* Every step of the program is a step of GameFlow or leaves it alone.     *)
LEMMA NextFlows ==
    ASSUME PointsFit, FlowInv, [Next]_vars
    PROVE  [Flow!Next]_(Flow!flow)
<1>1. CASE Start
  <2>1. Flow!Boot
    <3>1. running = FALSE /\ running' = TRUE /\ game_state' = "MENU" /\ points' = 0
      BY <1>1 DEF Start, game_initialize, FlowInv, TypeOK, LoopTypeOK
    <3>2. BagOf(LB') \in {BagOf(EmptyLeaderboard)}
                           \cup {BagOf(readSaveFile(f, EmptyLeaderboard)) : f \in SaveFiles}
      BY <1>1, ReadsTable DEF Start, FlowInv
    <3> QED
      BY <3>1, <3>2 DEF Flow!Boot, Flow!Go
  <2> QED
    BY <2>1 DEF Flow!Next
<1>2. CASE UNCHANGED <<running, game_state, points, LB>>
  BY <1>2 DEF Flow!flow
<1>3. CASE (\E S \in (SUBSET IRQs) \ {{}} : Receive(S)) \/ MouseIgnored \/ UNCHANGED vars
  BY <1>2, <1>3 DEF Receive, MouseIgnored, Handles, vars, loop, scores
<1>4. CASE MousePacket
  BY <1>4, MouseFlows DEF FlowInv, Flow!Next
<1>5. CASE kbc_ih
  BY <1>5, KeyFlows
<1>6. CASE TimerIH
  BY <1>6, TimerFlows
<1>7. CASE Finish
  <2>1. Flow!Halt
    BY <1>7 DEF Finish, Flow!Halt, Flow!Go
  <2> QED
    BY <2>1 DEF Flow!Next
<1> QED
  BY <1>1, <1>3, <1>4, <1>5, <1>6, <1>7 DEF Next, mouse_ih

(* The program moves between its screens, counts, asks for a name and      *)
(* keeps the best scores as GameFlow says, for every board, timing, table  *)
(* size and interleaving of its handlers: the safety part of               *)
(* ImplementsFlow.                                                         *)
THEOREM GameFollowsFlow == PointsFit => (Spec => Flow!Init /\ [][Flow!Next]_(Flow!flow))
<1> SUFFICES ASSUME PointsFit PROVE Spec => Flow!Init /\ [][Flow!Next]_(Flow!flow)
  OBVIOUS
<1>1. Init => Flow!Init
  BY DEF Init, Flow!Init
<1>2. Init => FileKnown /\ RunsOrOver
  BY DEF Init, FileKnown, RunsOrOver
<1>3. FileKnown /\ RunsOrOver /\ TypeOK /\ [Next]_vars => FileKnown' /\ RunsOrOver'
  BY NextFlowInv
<1>4. FlowInv /\ [Next]_vars => [Flow!Next]_(Flow!flow)
  BY NextFlows
<1>5. FlowInv <=> TypeOK /\ LeaderboardOrdered /\ FileKnown /\ RunsOrOver
  BY DEF FlowInv
<1>6. Spec => []LeaderboardOrdered
  BY TableIsOrdered
<1> QED
  BY <1>1, <1>2, <1>3, <1>4, <1>5, <1>6, TypeCorrect, PTL DEF Spec
=============================================================================
