------------------------------ MODULE MCTimer -------------------------------
(***************************************************************************)
(* Values for the constants of Timer that a .cfg file cannot write.        *)
(***************************************************************************)
EXTENDS Timer, TLC

(* Square wave, rate generator, and rate generator written as mode 6 in    *)
(* BCD.                                                                    *)
MCModes == (0 :> 6) @@ (1 :> 4) @@ (2 :> 13)
=============================================================================
