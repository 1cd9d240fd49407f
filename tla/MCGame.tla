------------------------------- MODULE MCGame -------------------------------
(***************************************************************************)
(* Values for the constants of Game that a .cfg file cannot write.         *)
(***************************************************************************)
EXTENDS GameRefinesFlow

(* An alien lives one frame longer than it appears or dies.                *)
MCAlienTimes == [s \in APPEARING..EMPTY |-> IF s = ALIVE THEN 1 ELSE 0]

(* A click in place, one pixel down or left, or a leap past the top right  *)
(* corner.                                                                 *)
MCMoves == {<<0, 0>>, <<0, -1>>, <<-1, 0>>, <<9, 9>>}

(* For the runs about the table: the crosshair only goes up and down.      *)
MCVertical == {<<0, 1>>, <<0, -1>>}

EmptyFile == [present |-> TRUE, lines |-> << >>]
Missing   == [present |-> FALSE, lines |-> << >>]
MCNewFile == {EmptyFile}

(* No file, the file of a new checkout, a full one and one too long.       *)
MCFile(ss) ==
    [present |-> TRUE, lines |-> [n \in DOMAIN ss |-> [score |-> ss[n], name |-> <<"A">>]]]
MCFiles == {Missing, EmptyFile, MCFile(<<2, 1, 0>>), MCFile(<<2, 1, 1, 1>>)}
=============================================================================
