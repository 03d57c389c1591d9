------------------------------- MODULE Replay -------------------------------
(***************************************************************************)
(* tx-replay: the Sniffer goroutine fetches the blocks of a remote chain   *)
(* in order into a buffered channel (src/replay/sniffer.go), and           *)
(* StressReplay (src/stresser.go:459-599) takes them out one at a time     *)
(* with GetNextBlockTxs (src/payload/txns_replay_stress.go:98-131) and     *)
(* broadcasts the transactions of each, counting what becomes of them.     *)
(*                                                                         *)
(* A block is its height; its transactions are their number. The answers   *)
(* of the local node to a broadcast are the categories categorizeError     *)
(* tells apart.                                                            *)
(***************************************************************************)
EXTENDS Integers, Sequences

CONSTANTS
    StartHeight,  \* cfg.StartHeight
    EndHeight,    \* cfg.EndHeight, 0 in endless mode
    Tip,          \* bound: the last block the remote chain produces
    BufferSize,   \* capacity of blocksCh
    TxsIn,        \* number of non-empty transactions of each block
    Fuzzing       \* config.GasFuzzing.Enabled

\* The checks of the tx-replay command on its heights.
ASSUME ReplayAssumption ==
    /\ StartHeight \in Nat \ {0}
    /\ EndHeight \in Nat
    /\ EndHeight > 0 => StartHeight < EndHeight
    /\ Tip \in Nat
    /\ BufferSize \in Nat \ {0}
    /\ TxsIn \in [StartHeight..Tip -> Nat]
    /\ Fuzzing \in BOOLEAN

VARIABLES
    height,    \* of the sniffer's loop
    sniffer,   \* where the sniffer is
    sniffed,   \* how the sniffer's loop ended
    blocksCh,  \* heights of the buffered blocks
    errCh,     \* an error is buffered
    closed,    \* the channels the sniffer has closed
    ctxDone,   \* rootCtx is cancelled
    phase,     \* where StressReplay is
    replayed,  \* heights GetNextBlockTxs took from blocksCh (history)
    left,      \* transactions of the current block still to broadcast
    count      \* the counters of the current block

remote  == <<height, sniffer, sniffed>>
chans   == <<blocksCh, errCh, closed>>
replay  == <<phase, replayed, left, count>>
vars    == <<remote, chans, ctxDone, replay>>

Category == {"timeout", "sequence", "gas", "other"}
NoErrors == [c \in Category |-> 0]
NoCount  == [success |-> 0, errors |-> NoErrors, fuzzed |-> 0, fallback |-> 0]

Returned == phase \in {"drained", "signalled"}

\* Never in endless mode.
AtEnd == EndHeight # 0 /\ height >= EndHeight

-----------------------------------------------------------------------------
Init ==
    /\ height = StartHeight
    /\ sniffer = "loop"
    /\ sniffed = "running"
    /\ blocksCh = << >>
    /\ errCh = FALSE
    /\ closed = {}
    /\ ctxDone = FALSE
    /\ phase = "next"
    /\ replayed = << >>
    /\ left = 0
    /\ count = NoCount

\* rootCtx ends: a signal.
Interrupt ==
    /\ ~ctxDone
    /\ ~Returned
    /\ ctxDone' = TRUE
    /\ UNCHANGED <<remote, chans, replay>>

-----------------------------------------------------------------------------
(* The sniffer. Attempts that fail and are retried leave no trace.         *)

Leave(how) ==
    /\ sniffer' = "leaving"
    /\ sniffed' = how

ReachEnd ==
    /\ sniffer = "loop"
    /\ AtEnd
    /\ Leave("completed")
    /\ UNCHANGED <<height, chans, ctxDone, replay>>

\* An attempt of rpcClient.Block succeeds.
FetchBlock ==
    /\ sniffer = "loop"
    /\ ~AtEnd
    /\ ~ctxDone
    /\ height <= Tip
    /\ sniffer' = "push"
    /\ UNCHANGED <<height, sniffed, chans, ctxDone, replay>>

\* The faulty step that forgets to advance.
PushSameBlock ==
    /\ sniffer = "push"
    /\ Len(blocksCh) < BufferSize
    /\ blocksCh' = Append(blocksCh, height)
    /\ sniffer' = "loop"
    /\ UNCHANGED <<height, sniffed, errCh, closed, ctxDone, replay>>

\* The faulty step that drops a block when the channel is full.
PushOrDrop ==
    /\ sniffer = "push"
    /\ blocksCh' = IF Len(blocksCh) < BufferSize
                     THEN Append(blocksCh, height) ELSE blocksCh
    /\ height' = height + 1
    /\ sniffer' = "loop"
    /\ UNCHANGED <<sniffed, errCh, closed, ctxDone, replay>>

\* The faulty step that does not wait for room.
PushUnbounded ==
    /\ sniffer = "push"
    /\ blocksCh' = Append(blocksCh, height)
    /\ height' = height + 1
    /\ sniffer' = "loop"
    /\ UNCHANGED <<sniffed, errCh, closed, ctxDone, replay>>

\* blocksCh <- res.Block, waiting for room, and height++.
PushBlock ==
    /\ sniffer = "push"
    /\ Len(blocksCh) < BufferSize
    /\ blocksCh' = Append(blocksCh, height)
    /\ height' = height + 1
    /\ sniffer' = "loop"
    /\ UNCHANGED <<sniffed, errCh, closed, ctxDone, replay>>

\* The faulty step that reports the error and stays in the loop.
GiveUpNot ==
    /\ sniffer = "loop"
    /\ ~AtEnd
    /\ errCh' = TRUE
    /\ UNCHANGED <<remote, blocksCh, closed, ctxDone, replay>>

\* Every attempt failed, or the context ended between them: the error is put
\* into errCh, which has room for it, unless the select prefers ctx.Done().
GiveUp ==
    /\ \/ sniffer = "loop" /\ ~AtEnd
       \/ sniffer = "push" /\ ctxDone
    /\ errCh' \in {TRUE, ~ctxDone}
    /\ Leave("failed")
    /\ UNCHANGED <<height, blocksCh, closed, ctxDone, replay>>

\* "sniffing cancelled".
Cancelled ==
    /\ sniffer = "loop"
    /\ ~AtEnd
    /\ ctxDone
    /\ Leave("cancelled")
    /\ UNCHANGED <<height, chans, ctxDone, replay>>

Close(ch, before) ==
    /\ sniffer = "leaving"
    /\ closed = before
    /\ closed' = closed \cup {ch}
    /\ UNCHANGED <<height, sniffed, blocksCh, errCh, ctxDone, replay>>

\* The deferred closes, in their order.
CloseBlocks == Close("blocks", {}) /\ UNCHANGED sniffer
CloseErr    == Close("err", {"blocks"}) /\ UNCHANGED sniffer
CloseDone   == Close("done", {"blocks", "err"}) /\ sniffer' = "gone"

-----------------------------------------------------------------------------
(* GetNextBlockTxs: a select over the channels, any ready case of it. Its  *)
(* timeout, its ctx.Done() case and a receive from the closed errCh, which *)
(* gives no block and no error, send the caller round its loop and change  *)
(* nothing: they are stuttering steps.                                     *)

\* A block without transactions is skipped (len(txBatch) == 0).
TakeBlock ==
    /\ phase = "next"
    /\ blocksCh # << >>
    /\ blocksCh' = Tail(blocksCh)
    /\ replayed' = Append(replayed, Head(blocksCh))
    /\ left' = TxsIn[Head(blocksCh)]
    /\ count' = NoCount
    /\ phase' = IF left' = 0 THEN "next" ELSE "batch"
    /\ UNCHANGED <<remote, errCh, closed, ctxDone>>

\* The faulty step that takes a closed channel for an empty one.
EndsWhenClosed ==
    /\ phase = "next"
    /\ "blocks" \in closed
    /\ phase' = "drained"
    /\ UNCHANGED <<remote, chans, ctxDone, replayed, left, count>>

\* A nil block: the channel is closed and empty.
BlocksClosed ==
    /\ phase = "next"
    /\ blocksCh = << >>
    /\ "blocks" \in closed
    /\ phase' = "drained"
    /\ UNCHANGED <<remote, chans, ctxDone, replayed, left, count>>

\* The error is logged and the loop goes on.
TakeError ==
    /\ phase = "next"
    /\ errCh
    /\ errCh' = FALSE
    /\ UNCHANGED <<remote, blocksCh, closed, ctxDone, replay>>

\* doneCh is closed, whatever blocksCh still holds.
DoneClosed ==
    /\ phase = "next"
    /\ "done" \in closed
    /\ phase' = "signalled"
    /\ UNCHANGED <<remote, chans, ctxDone, replayed, left, count>>

-----------------------------------------------------------------------------
(* The body of StressReplay's loop, one transaction of the block at a time. *)

\* categorizeError: the counters after an error of this category.
Categorize(errors, c) == [errors EXCEPT ![c] = @ + 1]

\* What the node or the cancelled context can answer.
Failures == IF ctxDone THEN {"other"} ELSE Category

\* gasFuzzer.FuzzTransaction may leave the transaction as it is, or fail.
Fuzzed == IF Fuzzing THEN BOOLEAN ELSE {FALSE}

Bump(flag) == IF flag THEN 1 ELSE 0

Counted(success, errors, wasFuzzed, fallback) ==
    /\ phase = "batch"
    /\ left > 0
    /\ left' = left - 1
    /\ count' = [success  |-> count.success + Bump(success),
                 errors   |-> errors,
                 fuzzed   |-> count.fuzzed + Bump(wasFuzzed),
                 fallback |-> count.fallback + Bump(fallback)]
    /\ UNCHANGED <<remote, chans, ctxDone, phase, replayed>>

\* A broadcast that succeeds always has a hash: the branch for an empty one
\* (stresser.go:568-569) is not reached.
TxSent ==
    /\ ~ctxDone
    /\ \E f \in Fuzzed : Counted(TRUE, count.errors, f, FALSE)

\* Counted before the fallback is considered, and again after.
TxFails ==
    \E f \in Fuzzed, c \in Failures :
        /\ ~(f /\ c = "gas")
        /\ Counted(FALSE, Categorize(Categorize(count.errors, c), c), f, FALSE)

\* The faulty step that counts the two attempts as two transactions.
FallbackCountsTwice ==
    /\ Fuzzing
    /\ ~ctxDone
    /\ phase = "batch"
    /\ left > 0
    /\ left' = left - 1
    /\ count' = [count EXCEPT !.success = @ + 2, !.fuzzed = @ + 1,
                              !.fallback = @ + 1]
    /\ UNCHANGED <<remote, chans, ctxDone, phase, replayed>>

\* The fuzzed transaction runs out of gas and the original goes through.
FallbackSent ==
    /\ Fuzzing
    /\ ~ctxDone
    /\ Counted(TRUE, Categorize(count.errors, "gas"), TRUE, TRUE)

\* Both fail. The context may end between the two.
FallbackFails ==
    /\ Fuzzing
    /\ ~ctxDone
    /\ \E c \in Category :
         Counted(FALSE, Categorize(Categorize(count.errors, "gas"), c), TRUE,
                 FALSE)

\* "Block broadcast summary".
Summary ==
    /\ phase = "batch"
    /\ left = 0
    /\ phase' = "next"
    /\ UNCHANGED <<remote, chans, ctxDone, replayed, left, count>>

-----------------------------------------------------------------------------
Sniff == \/ ReachEnd \/ FetchBlock \/ PushBlock \/ GiveUp \/ Cancelled
         \/ CloseBlocks \/ CloseErr \/ CloseDone

GetNextBlockTxs == TakeBlock \/ BlocksClosed \/ TakeError \/ DoneClosed

BroadcastBlock == TxSent \/ TxFails \/ FallbackSent \/ FallbackFails \/ Summary

Finished == Returned /\ sniffer = "gone" /\ UNCHANGED vars

Next == Interrupt \/ Sniff \/ GetNextBlockTxs \/ BroadcastBlock \/ Finished

Spec == Init /\ [][Next]_vars

\* Two goroutines, neither of which waits for the other except in a select
\* or a send; the runtime picks among the ready cases of a select at random.
Fairness == WF_vars(Sniff) /\ WF_vars(GetNextBlockTxs \/ BroadcastBlock)

FairSpec == Spec /\ Fairness

-----------------------------------------------------------------------------
\* The shape of the state, and the bound of the channel.
TypeOK ==
    /\ height \in Nat
    /\ sniffer \in {"loop", "push", "leaving", "gone"}
    /\ sniffed \in {"running", "completed", "failed", "cancelled"}
    /\ blocksCh \in Seq(Nat)
    /\ Len(blocksCh) <= BufferSize
    /\ errCh \in BOOLEAN
    /\ closed \in SUBSET {"blocks", "err", "done"}
    /\ ctxDone \in BOOLEAN
    /\ phase \in {"next", "batch", "drained", "signalled"}
    /\ replayed \in Seq(Nat)
    /\ left \in Nat
    /\ count \in [success : Nat, errors : [Category -> Nat], fuzzed : Nat,
                  fallback : Nat]

\* The k-th block of a run of consecutive blocks.
Consecutive(s, first) == \A k \in 1..Len(s) : s[k] = first + k - 1

\* Blocks are replayed in the order of the chain, none twice and none left
\* out, the buffered blocks are the ones that follow, and the sniffer is at
\* the one after those: whatever fails, is retried or is cancelled, what was
\* replayed is a prefix of the remote chain (sniffer.go:85-132).
InOrder ==
    /\ Consecutive(replayed, StartHeight)
    /\ Consecutive(blocksCh, StartHeight + Len(replayed))
    /\ height = StartHeight + Len(replayed) + Len(blocksCh)
    /\ EndHeight # 0 => height <= EndHeight

\* When StressReplay ends because blocksCh is closed and empty, it has
\* replayed every block the sniffer fetched; if the sniffer's loop came to
\* its end, those are all the blocks from the first to the one before
\* EndHeight (txns_replay_stress.go:100-103, sniffer.go:79-83).
DrainedComplete ==
    phase = "drained" =>
        /\ blocksCh = << >>
        /\ Len(replayed) = height - StartHeight
        /\ sniffed = "completed" => Len(replayed) = EndHeight - StartHeight

Errors == count.errors["timeout"] + count.errors["sequence"]
            + count.errors["gas"] + count.errors["other"]

\* The transactions of the current block broadcast so far.
Processed == TxsIn[replayed[Len(replayed)]] - left

\* The counters of the block summary (stresser.go:525-594): no transaction
\* is a success twice, one that is not a success shows among the errors, an
\* error is counted at most twice, and the fallback rate never divides by
\* zero.
SummaryBounds ==
    phase = "batch" =>
        /\ count.success <= Processed
        /\ Processed <= count.success + Errors
        /\ Errors <= 2 * Processed
        /\ count.fallback <= count.fuzzed
        /\ count.fallback <= count.success

\* The inductive invariant: the above, and what relates the two goroutines
\* and the channels between them. In particular a block in hand is below the
\* end height, and only a sniffer that has left its loop closes blocksCh.
ReplayInv ==
    /\ TypeOK
    /\ InOrder
    /\ SummaryBounds
    /\ sniffer = "push" => ~AtEnd /\ height <= Tip
    /\ height > StartHeight => height <= Tip + 1
    /\ sniffed = "completed" => AtEnd
    /\ sniffer \in {"loop", "push"} => sniffed = "running" /\ closed = {}
    /\ phase = "drained" => blocksCh = << >> /\ "blocks" \in closed
    /\ phase = "batch" => replayed # << >> /\ left <= TxsIn[replayed[Len(replayed)]]

\* The replay ends: at its end height, when the remote chain produces no more
\* blocks, or after the context is cancelled, although StressReplay itself
\* never looks at the context between blocks.
ReplayEnds == <>Returned

-----------------------------------------------------------------------------
(* What comments and messages of the code say.                             *)

\* "GetNextBlockTxs returns all transactions from the next available block",
\* and its error "no more blocks available - processing completed" is logged
\* as "Block replay completed successfully": when nothing failed and nobody
\* cancelled, the replay does not end while a block waits in blocksCh.
NoBlockAvailable ==
    Returned /\ sniffed = "completed" /\ ~ctxDone => blocksCh = << >>

\* The summary's "total" is the sum of its successes and errors, a fallback
\* counting for both: the error of a transaction that was not fuzzed is
\* counted once ("Record error for fuzzed transactions").
SummaryAddsUp ==
    phase = "batch" /\ ~Fuzzing => count.success + Errors = Processed
=============================================================================
