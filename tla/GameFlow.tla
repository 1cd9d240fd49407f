------------------------------ MODULE GameFlow ------------------------------
(***************************************************************************)
(* What the program promises its player, without aliens, devices or        *)
(* frames: which screen may follow which, what happens to the score, and   *)
(* what the table of best scores is.  The table is a bag (for each score,  *)
(* how many entries have it), so that it says which scores are kept and    *)
(* nothing about how they are arranged.                                    *)
(***************************************************************************)
EXTENDS Integers

CONSTANTS
    TopScore,     \* scores are 0 .. TopScore
    Tables        \* the tables the program may start with

VARIABLES screen, score, table

flow == <<screen, score, table>>

Scores == 0 .. TopScore

Present(t) == {s \in Scores : t[s] > 0}

IsWorst(s, t) == s \in Present(t) /\ \A r \in Present(t) : s =< r

(* The score is better than some entry of the table.                       *)
Qualifies(s, t) == \E r \in Present(t) : r < s

Plus(t, s)  == [t EXCEPT ![s] = @ + 1]
Minus(t, s) == [t EXCEPT ![s] = @ - 1]

-----------------------------------------------------------------------------
Init == screen = "OFF" /\ score = 0 /\ table \in Tables

Go(from, to) == screen = from /\ screen' = to

Boot == Go("OFF", "MENU") /\ score' = 0 /\ table' \in Tables

Play == Go("MENU", "PLAYING") /\ UNCHANGED <<score, table>>

Kill == Go("PLAYING", "PLAYING") /\ score' = score + 1 /\ UNCHANGED table

TogglePause ==
    /\ Go("PLAYING", "PAUSE") \/ Go("PAUSE", "PLAYING")
    /\ UNCHANGED <<score, table>>

Die == Go("PLAYING", "GAME_OVER") /\ UNCHANGED <<score, table>>

(* The end of the game-over screen: a name is asked iff the score is good. *)
Rank ==
    /\ \/ Qualifies(score, table) /\ Go("GAME_OVER", "LB_INPUT")
       \/ ~Qualifies(score, table) /\ Go("GAME_OVER", "LEADERBOARD")
    /\ UNCHANGED <<score, table>>

(* The new score takes the place of the worst one.                         *)
Submit ==
    /\ Go("LB_INPUT", "LEADERBOARD")
    /\ \E w \in Scores : IsWorst(w, table) /\ table' = Plus(Minus(table, w), score)
    /\ UNCHANGED score

Back == Go("LEADERBOARD", "MENU") /\ score' = 0 /\ UNCHANGED table

Quit ==
    /\ screen \notin {"OFF", "EXIT"}
    /\ screen' = "EXIT"
    /\ UNCHANGED <<score, table>>

Halt == Go("EXIT", "OFF") /\ UNCHANGED <<score, table>>

Next ==
    \/ Boot \/ Play \/ Kill \/ TogglePause \/ Die
    \/ Rank \/ Submit \/ Back \/ Quit \/ Halt

(* The program leaves the game-over screen and ends after EXIT by itself;  *)
(* everything else waits for the player.                                   *)
Spec == Init /\ [][Next]_flow /\ WF_flow(Rank) /\ WF_flow(Halt)
=============================================================================
