--------------------------- MODULE GameRefinesFlow --------------------------
(***************************************************************************)
(* Game implements GameFlow.  The screen is game_state while game_loop     *)
(* runs, the score is points, and the table is the bag of the scores in    *)
(* LB, whatever their order and their names.                               *)
(***************************************************************************)
EXTENDS Game, FiniteSets

BagOf(lb) == [s \in Score |-> Cardinality({i \in Index : lb.scores[i] = s})]

Flow == INSTANCE GameFlow WITH
    TopScore <- UINT8_MOD - 1,
    Tables   <- {BagOf(EmptyLeaderboard)}
                  \cup {BagOf(readSaveFile(f, EmptyLeaderboard)) : f \in SaveFiles},
    screen   <- IF running THEN game_state ELSE "OFF",
    score    <- points,
    table    <- BagOf(LB)

(* The program moves between its screens, counts, asks for a name and      *)
(* keeps the best scores as GameFlow says, and it leaves the game-over     *)
(* screen and ends after EXIT by itself.                                   *)
ImplementsFlow == Flow!Spec
=============================================================================
