----------------------------- MODULE Leaderboard ----------------------------
(***************************************************************************)
(* The table of best scores of proj/src/leaderboard/leaderboard.c.  A      *)
(* leaderboard is the C struct: two arrays indexed 0 .. LB_SIZE - 1, the   *)
(* worst score at index 0.  Scores are uint8_t, so a stored score is the   *)
(* player's score modulo UINT8_MOD, while both comparisons are made on the *)
(* int the caller passes.                                                  *)
(***************************************************************************)
EXTENDS Integers, Sequences

CONSTANTS
    LB_SIZE,      \* entries of the table (10)
    UINT8_MOD,    \* values of a uint8_t (256)
    NAME_SIZE,    \* char name[NAME_SIZE], the terminator included (7)
    Letters       \* what the player can type into a name: A .. Z and '-'

ASSUME LeaderboardAssumption ==
    /\ LB_SIZE \in Nat /\ LB_SIZE > 1
    /\ UINT8_MOD \in Nat \ {0}
    /\ NAME_SIZE \in Nat /\ NAME_SIZE > 1

Index == 0 .. LB_SIZE - 1
Score == 0 .. UINT8_MOD - 1
Name  == {s \in Seq(Letters) : Len(s) < NAME_SIZE}

LeaderboardType == [names : [Index -> Name], scores : [Index -> Score]]

EmptyLeaderboard ==
    [names  |-> [i \in Index |-> << >>], scores |-> [i \in Index |-> 0]]

-----------------------------------------------------------------------------
CompareTies(score, lb) == score >= lb.scores[0]   \* mutant: >= for >
compareScore(score, lb) == score > lb.scores[0]

(* Mutant: the walk stops at a worse entry instead of a better one.        *)
PassedBetter(lb, score, j) == \A i \in 1..j : lb.scores[i] > score

(* addScore walks up from index 1 while the entries are below the score,   *)
(* moving each one down a place.  Entry j is moved iff the walk passes it. *)
Passed(lb, score, j) == \A i \in 1..j : lb.scores[i] < score

(* Mutant: the scores move down and the names do not.                      *)
AddScoreNamesStay(score, name, lb) ==
    [names  |-> [j \in Index |->
                   IF Passed(lb, score, j) /\ ~(j + 1 \in Index /\ Passed(lb, score, j + 1))
                   THEN name ELSE lb.names[j]],
     scores |-> [j \in Index |->
                   IF j + 1 \in Index /\ Passed(lb, score, j + 1) THEN lb.scores[j + 1]
                   ELSE IF Passed(lb, score, j) THEN score % UINT8_MOD
                   ELSE lb.scores[j]]]

addScore(score, name, lb) ==
    LET MovedDown(j) == j + 1 \in Index /\ Passed(lb, score, j + 1)
        IsHole(j)    == Passed(lb, score, j)
        Shift(arr, new) ==
            [j \in Index |-> IF MovedDown(j) THEN arr[j + 1]
                             ELSE IF IsHole(j) THEN new
                             ELSE arr[j]]
    IN  [names  |-> Shift(lb.names, name),
         scores |-> Shift(lb.scores, score % UINT8_MOD)]

-----------------------------------------------------------------------------
(* The save file: whether fopen finds it, and its lines "score name.", the *)
(* best score first.                                                       *)
Line     == [score : Nat, name : Name]
SaveFile == [present : BOOLEAN, lines : Seq(Line)]

(* readSaveFile clears every name; a missing file clears the scores too.   *)
(* Line n goes to index LB_SIZE - n, lines beyond the table are ignored,   *)
(* and a score that no line sets keeps the value it had.                   *)
readSaveFile(file, lb) ==
    LET HasLine(i) == LB_SIZE - i =< Len(file.lines)
        LineOf(i)  == file.lines[LB_SIZE - i]
    IN  IF ~file.present THEN EmptyLeaderboard
        ELSE [names  |-> [i \in Index |->
                            IF HasLine(i) THEN LineOf(i).name ELSE << >>],
              scores |-> [i \in Index |->
                            IF HasLine(i) THEN LineOf(i).score % UINT8_MOD
                                          ELSE lb.scores[i]]]

(* writeSaveFile truncates the file and then runs                          *)
(*     for (int i = 9; i <= 0; i--)                                        *)
(* whose body is executed for index i iff the test held for every index    *)
(* from the first one down to i.                                           *)
WrittenIndices == {i \in Index : \A j \in i .. LB_SIZE - 1 : j =< 0}

writeSaveFile(lb) ==
    [present |-> TRUE,
     lines   |-> [n \in {LB_SIZE - i : i \in WrittenIndices} |->
                    [score |-> lb.scores[LB_SIZE - n],
                     name  |-> lb.names[LB_SIZE - n]]]]

-----------------------------------------------------------------------------
(* The table is in order: what getLeaderBoard shows, from index 9 down to  *)
(* 0, is ordered by the highest score.                                     *)
Ordered(lb) == \A i, j \in Index : i < j => lb.scores[i] =< lb.scores[j]
=============================================================================
