------------------------------ MODULE MCLedger ------------------------------
(***************************************************************************)
(* The ledger for TLC: two goroutines record entries of two results, two   *)
(* close, and the channel is so small that it fills up.                    *)
(***************************************************************************)
EXTENDS Ledger

CONSTANTS r1, r2, c1, c2

MCRecorders == {r1, r2}
MCClosers == {c1, c2}
MCResults == {"success", "fail"}
=============================================================================
