------------------------------ MODULE MCReplay ------------------------------
(***************************************************************************)
(* Instances of Replay.                                                    *)
(***************************************************************************)
EXTENDS Replay

\* Blocks of no, one and two transactions.
MCTxsIn == [h \in StartHeight..Tip |-> h % 3]

\* One transaction in every block.
MCOneTx == [h \in StartHeight..Tip |-> 1]
=============================================================================
