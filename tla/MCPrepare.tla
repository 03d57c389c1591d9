----------------------------- MODULE MCPrepare -----------------------------
(***************************************************************************)
(* Prepare for TLC: accounts that start at different sequence numbers.     *)
(***************************************************************************)
EXTENDS Prepare

MCStartSeq == [a \in Accounts |-> 2 * a]
=============================================================================
