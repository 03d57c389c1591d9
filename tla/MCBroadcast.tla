---------------------------- MODULE MCBroadcast ----------------------------
(***************************************************************************)
(* Instances of Broadcast.                                                 *)
(***************************************************************************)
EXTENDS Broadcast

MCInitialSequence == [a \in Accounts |-> 2 * a + 1]

\* The node is one transaction behind the one account 0's sequence number was
\* read from, and where account 1's was read.
MCStartSequence == [a \in Accounts |-> MCInitialSequence[a] + a - 1]
=============================================================================
