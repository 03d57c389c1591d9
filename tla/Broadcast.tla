----------------------------- MODULE Broadcast -----------------------------
(***************************************************************************)
(* The broadcast phase of Stress (src/stresser.go:392-448): one goroutine  *)
(* per account sends the account's signed transactions in order through    *)
(* chain.Client.Broadcast (src/chain/client.go:107-231), follows the       *)
(* sequence number the node suggests when one is refused for its sequence  *)
(* number, and gives up, for all accounts, on any other error.             *)
(*                                                                         *)
(* The node it talks to is external. Of each account the node has the next *)
(* sequence number in the last block (committed) and after the mempool's   *)
(* transactions (check); the ones between are in the mempool. Its cache    *)
(* remembers transactions it has seen. Transactions of the same accounts   *)
(* from elsewhere (an initial transaction that is included late, another   *)
(* user of the keys) take sequence numbers too.                            *)
(***************************************************************************)
EXTENDS Integers, FiniteSets

CONSTANTS
    NumAccounts,      \* len(signedTxs)
    NumTx,            \* config.NumOfTransactions
    Await,            \* config.AwaitTxConfirmation
    InitialSequence,  \* initialAccountSequences
    StartSequence,    \* the node's sequence numbers when the phase starts
    MaxForeign,       \* bound: transactions from elsewhere
    MaxDrops          \* bound: times the node loses transactions of an account

Accounts == 0..NumAccounts-1
TxIdxs   == 0..NumTx-1

ASSUME BroadcastAssumption ==
    /\ NumAccounts \in Nat \ {0}
    /\ NumTx \in Nat
    /\ Await \in BOOLEAN
    /\ InitialSequence \in [Accounts -> Nat]
    /\ StartSequence \in [Accounts -> Nat]
    /\ MaxForeign \in Nat
    /\ MaxDrops \in Nat

VARIABLES
    txIndex,    \* of each account goroutine
    pc,         \* where each account goroutine is
    ctxDone,    \* the context of the group is cancelled
    outcome,    \* what the phase ended with
    committed,  \* next sequence number, last block
    check,      \* next sequence number, mempool included
    pool,       \* own transactions in the mempool, by index
    cache,      \* own transactions in the mempool's cache
    result,     \* what became of own transactions that are in a block
    accepted,   \* own transactions the mempool ever took (history)
    foreign,    \* indexes whose sequence number went elsewhere (history)
    others,     \* counts the transactions from elsewhere
    drops       \* counts the mempool's losses, by account

client == <<txIndex, pc, ctxDone, outcome>>
blocks == <<committed, result>>
memory == <<check, pool, cache>>
history == <<accepted, foreign, others, drops>>
vars   == <<client, blocks, memory, history>>

Code   == {"none", "ok", "failed", "sequence"}
NoResult == [code |-> "none", expected |-> 0]

\* Slot i of an account holds its transaction for this sequence number.
SeqOf(a, i) == InitialSequence[a] + i

\* int(expectedAccSeq - initialSequence): the wrap-around of the unsigned
\* difference and the conversion cancel out.
IndexOf(a, seq) == seq - InitialSequence[a]

\* The node has not reached the sequence number the account was prepared for.
Behind(a) == StartSequence[a] < InitialSequence[a]

TypeOK ==
    /\ txIndex \in [Accounts -> Int]
    /\ pc \in [Accounts -> {"loop", "send", "await", "done", "failed"}]
    /\ ctxDone \in BOOLEAN
    /\ outcome \in {"running", "done", "failed", "panic"}
    /\ committed \in [Accounts -> Nat]
    /\ check \in [Accounts -> Nat]
    /\ pool \in [Accounts -> SUBSET TxIdxs]
    /\ cache \in [Accounts -> SUBSET TxIdxs]
    /\ result \in [Accounts -> [TxIdxs -> [code : Code, expected : Nat]]]
    /\ accepted \in [Accounts -> SUBSET TxIdxs]
    /\ foreign \in [Accounts -> SUBSET Int]
    /\ others \in 0..MaxForeign
    /\ drops \in [Accounts -> 0..MaxDrops]
-----------------------------------------------------------------------------
Init ==
    /\ txIndex = [a \in Accounts |-> 0]
    /\ pc = [a \in Accounts |-> "loop"]
    /\ ctxDone = FALSE
    /\ outcome = "running"
    /\ committed = StartSequence
    /\ check = StartSequence
    /\ pool = [a \in Accounts |-> {}]
    /\ cache = [a \in Accounts |-> {}]
    /\ result = [a \in Accounts |-> [i \in TxIdxs |-> NoResult]]
    /\ accepted = [a \in Accounts |-> {}]
    /\ foreign = [a \in Accounts |-> {IndexOf(a, q) : q \in InitialSequence[a]..StartSequence[a]-1}]
    /\ others = 0
    /\ drops = [a \in Accounts |-> 0]

Running == outcome = "running"

(***************************************************************************)
(* The account goroutine.                                                  *)
(***************************************************************************)

\* Faulty: the loop's bound is off by one.
SendTxPastEnd(a) ==
    /\ pc[a] = "loop"
    /\ txIndex[a] \in 0..NumTx
    /\ ~ctxDone
    /\ pc' = [pc EXCEPT ![a] = "send"]
    /\ UNCHANGED <<txIndex, ctxDone, outcome, blocks, memory, history>>

\* The next transaction is taken from accountTxs and sent.
SendTx(a) ==
    /\ pc[a] = "loop"
    /\ txIndex[a] \in TxIdxs
    /\ ~ctxDone
    /\ pc' = [pc EXCEPT ![a] = "send"]
    /\ UNCHANGED <<txIndex, ctxDone, outcome, blocks, memory, history>>

AccountDone(a) ==
    /\ pc[a] = "loop"
    /\ txIndex[a] >= NumTx
    /\ pc' = [pc EXCEPT ![a] = "done"]
    /\ UNCHANGED <<txIndex, ctxDone, outcome, blocks, memory, history>>

\* accountTxs[txIndex] with a negative index panics, and the process dies.
IndexPanics(a) ==
    /\ pc[a] = "loop"
    /\ txIndex[a] < 0
    /\ outcome' = "panic"
    /\ UNCHANGED <<txIndex, pc, ctxDone, blocks, memory, history>>

\* The goroutine returns an error, which cancels the context of all of them.
ReturnError(a) ==
    /\ pc' = [pc EXCEPT ![a] = "failed"]
    /\ ctxDone' = TRUE
    /\ UNCHANGED <<txIndex, outcome>>

\* The rate limiter's wait, or the request, fails at once on a cancelled context.
ContextEnded(a) ==
    /\ pc[a] = "loop"
    /\ txIndex[a] \in TxIdxs
    /\ ctxDone
    /\ ReturnError(a)
    /\ UNCHANGED <<blocks, memory, history>>

\* BroadcastTxSync returned without error: wait for the block, or go on.
Sent(a) ==
    /\ IF Await
       THEN /\ pc' = [pc EXCEPT ![a] = "await"]
            /\ UNCHANGED txIndex
       ELSE /\ pc' = [pc EXCEPT ![a] = "loop"]
            /\ txIndex' = [txIndex EXCEPT ![a] = @ + 1]
    /\ UNCHANGED <<ctxDone, outcome>>

\* Faulty: the suggested number is taken for the last one used...
FollowLastUsed(a, expected) ==
    /\ pc' = [pc EXCEPT ![a] = "loop"]
    /\ txIndex' = [txIndex EXCEPT ![a] = IndexOf(a, expected) + 1]
    /\ UNCHANGED <<ctxDone, outcome>>

\* ...or for the one after the expected one...
FollowOneBefore(a, expected) ==
    /\ pc' = [pc EXCEPT ![a] = "loop"]
    /\ txIndex' = [txIndex EXCEPT ![a] = IndexOf(a, expected) - 1]
    /\ UNCHANGED <<ctxDone, outcome>>

\* ...or the account starts over.
StartOver(a, expected) ==
    /\ pc' = [pc EXCEPT ![a] = "loop"]
    /\ txIndex' = [txIndex EXCEPT ![a] = 0]
    /\ UNCHANGED <<ctxDone, outcome>>

\* The error names the sequence number the node expects: go on from there.
FollowSequence(a, expected) ==
    /\ pc' = [pc EXCEPT ![a] = "loop"]
    /\ txIndex' = [txIndex EXCEPT ![a] = IndexOf(a, expected)]
    /\ UNCHANGED <<ctxDone, outcome>>

\* The mempool takes the transaction in (external).
CheckTxPasses(a) ==
    /\ txIndex[a] \notin cache[a]
    /\ SeqOf(a, txIndex[a]) = check[a]
    /\ check' = [check EXCEPT ![a] = @ + 1]
    /\ pool' = [pool EXCEPT ![a] = @ \union {txIndex[a]}]
    /\ cache' = [cache EXCEPT ![a] = @ \union {txIndex[a]}]
    /\ accepted' = [accepted EXCEPT ![a] = @ \union {txIndex[a]}]
    /\ UNCHANGED <<blocks, foreign, others, drops>>

\* A full mempool is tried again: the goroutine stays in "send" until the
\* transaction is taken in or requestTimeout makes the request fail.
TxAccepted(a) ==
    /\ pc[a] = "send"
    /\ CheckTxPasses(a)
    /\ Sent(a)

\* "tx in mempool - all is ok"
TxInCache(a) ==
    /\ pc[a] = "send"
    /\ txIndex[a] \in cache[a]
    /\ Sent(a)
    /\ UNCHANGED <<blocks, memory, history>>

\* Faulty: a transaction with the wrong sequence number is skipped.
SkipWrongSequence(a) ==
    /\ pc[a] = "send"
    /\ txIndex[a] \notin cache[a]
    /\ SeqOf(a, txIndex[a]) # check[a]
    /\ pc' = [pc EXCEPT ![a] = "loop"]
    /\ txIndex' = [txIndex EXCEPT ![a] = @ + 1]
    /\ UNCHANGED <<ctxDone, outcome, blocks, memory, history>>

WrongSequence(a) ==
    /\ pc[a] = "send"
    /\ txIndex[a] \notin cache[a]
    /\ SeqOf(a, txIndex[a]) # check[a]
    /\ FollowSequence(a, check[a])
    /\ UNCHANGED <<blocks, memory, history>>

\* Any other error: the transport, requestTimeout, a non-zero code.
SendFails(a) ==
    /\ pc[a] = "send"
    /\ ReturnError(a)
    /\ UNCHANGED <<blocks, memory, history>>

\* The mempool took the transaction in, but the answer never came.
AnswerLost(a) ==
    /\ pc[a] = "send"
    /\ CheckTxPasses(a)
    /\ ReturnError(a)

ResultOf(a) == result[a][txIndex[a]]

\* Faulty: the height is looked at before the code.
AwaitHeight(a) ==
    /\ pc[a] = "await"
    /\ ResultOf(a).code \in {"ok", "failed"}
    /\ pc' = [pc EXCEPT ![a] = "loop"]
    /\ txIndex' = [txIndex EXCEPT ![a] = @ + 1]
    /\ UNCHANGED <<ctxDone, outcome, blocks, memory, history>>

AwaitOk(a) ==
    /\ pc[a] = "await"
    /\ ResultOf(a).code = "ok"
    /\ pc' = [pc EXCEPT ![a] = "loop"]
    /\ txIndex' = [txIndex EXCEPT ![a] = @ + 1]
    /\ UNCHANGED <<ctxDone, outcome, blocks, memory, history>>

AwaitWrongSequence(a) ==
    /\ pc[a] = "await"
    /\ ResultOf(a).code = "sequence"
    /\ FollowSequence(a, ResultOf(a).expected)
    /\ UNCHANGED <<blocks, memory, history>>

AwaitFailed(a) ==
    /\ pc[a] = "await"
    /\ ResultOf(a).code = "failed"
    /\ ReturnError(a)
    /\ UNCHANGED <<blocks, memory, history>>

\* Faulty: the goroutine goes on after a timeout.
IgnoreTimeout(a) ==
    /\ pc[a] = "await"
    /\ pc' = [pc EXCEPT ![a] = "loop"]
    /\ txIndex' = [txIndex EXCEPT ![a] = @ + 1]
    /\ UNCHANGED <<ctxDone, outcome, blocks, memory, history>>

\* confirmTimeout, a cancelled context, or an error of the query.
AwaitTimesOut(a) ==
    /\ pc[a] = "await"
    /\ ReturnError(a)
    /\ UNCHANGED <<blocks, memory, history>>

(***************************************************************************)
(* The groups: "accounts" returns when every account goroutine has.        *)
(***************************************************************************)
Interrupt ==
    /\ ~ctxDone
    /\ ctxDone' = TRUE
    /\ UNCHANGED <<txIndex, pc, outcome, blocks, memory, history>>

\* Faulty: one account that is done is enough.
OneIsEnough ==
    /\ \A a \in Accounts : pc[a] \in {"done", "failed"}
    /\ outcome' = IF \E a \in Accounts : pc[a] = "done" THEN "done" ELSE "failed"
    /\ UNCHANGED <<txIndex, pc, ctxDone, blocks, memory, history>>

GroupReturns ==
    /\ \A a \in Accounts : pc[a] \in {"done", "failed"}
    /\ outcome' = IF \A a \in Accounts : pc[a] = "done" THEN "done" ELSE "failed"
    /\ UNCHANGED <<txIndex, pc, ctxDone, blocks, memory, history>>

(***************************************************************************)
(* The node (external).                                                    *)
(***************************************************************************)

\* The account's next mempool transaction is executed in a block. Executed
\* ones stay in the cache if they succeed.
Execute(a) ==
    /\ committed[a] < check[a]
    /\ committed' = [committed EXCEPT ![a] = @ + 1]
    /\ LET i == IndexOf(a, committed[a])
       IN  IF i \in pool[a]
           THEN \E code \in {"ok", "failed"} :
                   /\ result' = [result EXCEPT ![a][i] = [code |-> code, expected |-> 0]]
                   /\ pool' = [pool EXCEPT ![a] = @ \ {i}]
                   /\ cache' = IF code = "ok" THEN cache
                               ELSE [cache EXCEPT ![a] = @ \ {i}]
           ELSE UNCHANGED <<result, pool, cache>>
    /\ UNCHANGED <<client, check, history>>

\* A transaction of the account from elsewhere reaches the mempool.
ForeignTx(a) ==
    /\ others < MaxForeign
    /\ others' = others + 1
    /\ check' = [check EXCEPT ![a] = @ + 1]
    /\ foreign' = [foreign EXCEPT ![a] = @ \union {IndexOf(a, check[a])}]
    /\ UNCHANGED <<client, blocks, pool, cache, accepted, drops>>

\* One that came through another node is executed in the place of the
\* account's next mempool transaction, which is dropped or fails in a block.
ForeignBlock(a) ==
    /\ others < MaxForeign
    /\ others' = others + 1
    /\ committed' = [committed EXCEPT ![a] = @ + 1]
    /\ check' = [check EXCEPT ![a] = IF @ = committed[a] THEN @ + 1 ELSE @]
    /\ LET i == IndexOf(a, committed[a])
       IN  /\ foreign' = [foreign EXCEPT ![a] = @ \union {i}]
           /\ pool' = [pool EXCEPT ![a] = @ \ {i}]
           /\ cache' = [cache EXCEPT ![a] = @ \ {i}]
           /\ \/ UNCHANGED result
              \/ /\ i \in pool[a]
                 /\ result' = [result EXCEPT ![a][i] =
                                 [code |-> "sequence", expected |-> committed[a] + 1]]
    /\ UNCHANGED <<client, accepted, drops>>

\* A transaction fails its recheck, and those behind it with it.
RecheckDrops(a) ==
    /\ drops[a] < MaxDrops
    /\ drops' = [drops EXCEPT ![a] = @ + 1]
    /\ \E q \in committed[a]..check[a]-1 :
          LET dropped == {i \in pool[a] : SeqOf(a, i) >= q}
          IN  /\ check' = [check EXCEPT ![a] = q]
              /\ pool' = [pool EXCEPT ![a] = @ \ dropped]
              /\ cache' = [cache EXCEPT ![a] = @ \ dropped]
    /\ UNCHANGED <<client, blocks, accepted, foreign, others>>

\* The node restarts with an empty mempool and an empty cache.
Restart ==
    /\ \A a \in Accounts : drops[a] < MaxDrops
    /\ drops' = [a \in Accounts |-> IF committed[a] < check[a] THEN drops[a] + 1 ELSE drops[a]]
    /\ check' = committed
    /\ pool' = [a \in Accounts |-> {}]
    /\ cache' = [a \in Accounts |-> {}]
    /\ UNCHANGED <<client, blocks, accepted, foreign, others>>

\* The cache holds fewer transactions than the mempool (cache_size).
CacheForgets(a) ==
    /\ \E i \in cache[a] : cache' = [cache EXCEPT ![a] = @ \ {i}]
    /\ UNCHANGED <<client, blocks, check, pool, history>>
-----------------------------------------------------------------------------
\* The steps of an account goroutine that do not fail...
Progress(a) ==
    \/ SendTx(a) \/ AccountDone(a) \/ IndexPanics(a) \/ ContextEnded(a)
    \/ TxAccepted(a) \/ TxInCache(a) \/ WrongSequence(a)
    \/ AwaitOk(a) \/ AwaitWrongSequence(a) \/ AwaitFailed(a) \/ AwaitTimesOut(a)

\* ...and all of them.
Account(a) == Progress(a) \/ SendFails(a) \/ AnswerLost(a)

Node(a) == Execute(a) \/ ForeignTx(a) \/ ForeignBlock(a) \/ RecheckDrops(a) \/ CacheForgets(a)

Next ==
    \/ /\ Running
       /\ \/ \E a \in Accounts : Account(a) \/ Node(a)
          \/ Restart
          \/ Interrupt
          \/ GroupReturns
    \/ ~Running /\ UNCHANGED vars

\* Account goroutines are scheduled and their calls return; confirmTimeout ends
\* a wait that nothing else ends.
Fairness ==
    /\ \A a \in Accounts : WF_vars(Running /\ Progress(a))
    /\ WF_vars(Running /\ GroupReturns)

Spec     == Init /\ [][Next]_vars
FairSpec == Spec /\ Fairness
-----------------------------------------------------------------------------
(***************************************************************************)
(* Properties.                                                             *)
(***************************************************************************)

\* No suggested sequence number lies before an account's initial one, so that
\* accountTxs[txIndex] (stresser.go:408, 421) panics only if the node started
\* behind the one the initial sequence numbers were read from (NodeAddress and
\* GRPCAddress may name different nodes): nothing the node loses, and nobody
\* else who uses an account, brings that about.
IndexInRange ==
    /\ \A a \in Accounts : txIndex[a] < 0 => Behind(a)
    /\ outcome = "panic" => \E a \in Accounts : Behind(a)

\* An account goroutine that returns nil (stresser.go:407-437) has skipped
\* nothing: the mempool took each of its transactions at some time, or a
\* transaction from elsewhere had its sequence number.
BroadcastComplete ==
    \A a \in Accounts : pc[a] = "done" => TxIdxs \subseteq accepted[a] \union foreign[a]

\* With AwaitTxConfirmation (client.go:184-230) the transactions of an account
\* that is done are in blocks and succeeded, except where a transaction from
\* elsewhere had the sequence number.
AwaitedInBlock ==
    Await => \A a \in Accounts : pc[a] = "done" =>
                \A i \in TxIdxs : result[a][i].code = "ok" \/ i \in foreign[a]

\* A sequence error (stresser.go:412-422) sends an account back to an earlier
\* transaction only when the node has lost some of this account's that it had
\* taken in, or was behind: what is lost of one account sets no other back.
BackOnlyAfterLoss ==
    [][\A a \in Accounts : txIndex'[a] < txIndex[a] => drops[a] > 0 \/ Behind(a)]_vars

\* Every account goroutine returns: neither the suggested sequence numbers nor
\* the node's cache keep one going round for ever (stresser.go:407-435), and a
\* failure of one stops the others.
BroadcastEnds == <>~Running

\* The failure of one account's goroutine (stresser.go:425) ends the phase with
\* an error, or the process, wherever the goroutines of the others are when the
\* context is cancelled, and even if all of them complete: Stress does not go on
\* to "Benchmark done" (stresser.go:445-453).
FailureReported ==
    \A a \in Accounts : pc[a] = "failed" ~> outcome \in {"failed", "panic"}
-----------------------------------------------------------------------------
(***************************************************************************)
(* The inductive invariant behind IndexInRange, BroadcastComplete and      *)
(* AwaitedInBlock.                                                         *)
(***************************************************************************)

\* Sequence numbers only grow, up to those of the mempool.
NodeInv(a) ==
    /\ StartSequence[a] <= committed[a]
    /\ committed[a] <= check[a]
    /\ cache[a] \subseteq accepted[a]
    /\ \A i \in pool[a] : committed[a] <= SeqOf(a, i) /\ SeqOf(a, i) < check[a]
    /\ \A i \in TxIdxs : SeqOf(a, i) < check[a] => i \in accepted[a] \union foreign[a]
    /\ \A i \in TxIdxs :
          result[a][i].code # "none" => SeqOf(a, i) < committed[a]
    /\ \A i \in TxIdxs :
          result[a][i].code = "sequence" =>
             /\ i \in foreign[a]
             /\ StartSequence[a] <= result[a][i].expected
             /\ result[a][i].expected <= committed[a]

\* Whatever lies behind txIndex was taken in, or was not ours to send.
ClientInv(a) ==
    /\ txIndex[a] < 0 => Behind(a)
    /\ pc[a] \in {"send", "await"} => txIndex[a] \in TxIdxs
    /\ pc[a] = "await" => Await /\ txIndex[a] \in accepted[a]
    /\ pc[a] = "done" => txIndex[a] >= NumTx
    /\ \A i \in TxIdxs : i < txIndex[a] => i \in accepted[a] \union foreign[a]

\* Confirmed(a, i): awaiting the transaction would have succeeded.
Confirmed(a, i) == result[a][i].code = "ok" \/ i \in foreign[a]

\* With Await, an account that has not failed has at most the transaction it
\* waits for in the mempool, and everything before it is confirmed.
AwaitInv(a) ==
    Await /\ pc[a] # "failed" =>
        /\ pool[a] \subseteq {i \in TxIdxs : pc[a] = "await" /\ i = txIndex[a]}
        /\ \A i \in TxIdxs : i < txIndex[a] => Confirmed(a, i)
        /\ \A i \in TxIdxs :
              SeqOf(a, i) < committed[a] /\ (pc[a] = "await" => i # txIndex[a]) => Confirmed(a, i)
        /\ \A i \in TxIdxs :
              committed[a] <= SeqOf(a, i) /\ SeqOf(a, i) < check[a] => i \in pool[a] \union foreign[a]

\* The inductive invariant of the account goroutines (stresser.go:407-435) and
\* the node: what is behind an account's index was taken in or was not ours,
\* and with Await is confirmed.
BroadcastInv ==
    /\ TypeOK
    /\ \A a \in Accounts : NodeInv(a) /\ ClientInv(a) /\ AwaitInv(a)
    /\ outcome = "panic" => \E a \in Accounts : Behind(a)
=============================================================================
