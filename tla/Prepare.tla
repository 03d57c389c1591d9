------------------------------ MODULE Prepare ------------------------------
(***************************************************************************)
(* The preparation phase of Stress (src/stresser.go:193-364): one group of *)
(* goroutines that shares a context.                                       *)
(*                                                                         *)
(*   generate   broadcasts the initial transactions, then lets a worker    *)
(*              pool of NumCPU workers fetch each account's sequence       *)
(*              number and push NumTx transactions into txQueue;           *)
(*   signers    NumCPU goroutines that move transactions from txQueue to   *)
(*              txSignedQueue;                                             *)
(*   collect    files NumAccounts * NumTx signed transactions under their  *)
(*              account and index and then returns, which cancels the      *)
(*              context of the whole group (parallel.Exit).                *)
(*                                                                         *)
(* A fatal log call and a recovered panic both end the process:            *)
(* exit records which of them did.                                         *)
(***************************************************************************)
EXTENDS Integers, Sequences, FiniteSets

CONSTANTS
    NumAccounts,  \* len(config.Accounts)
    NumTx,        \* config.NumOfTransactions
    NumCPU,       \* runtime.NumCPU(): pool workers, and signers
    StartSeq,     \* each account's sequence number when the run starts
    QueueCap,     \* capacity of txQueue and of txSignedQueue
    Nil           \* no transaction in hand, no bytes in a slot of signedTxs

Accounts == 0..NumAccounts-1
TxIdxs   == 0..NumTx-1
Signers  == 1..NumCPU

\* A transaction out of GenerateTx, and the same one signed: its bytes
\* determine the signing account and the sequence number signed over.
Tx       == [from : Accounts, idx : TxIdxs, seq : Nat]
Bytes    == Accounts \X Nat
SignedTx == [from : Accounts, idx : TxIdxs, bytes : Bytes]

\* readAccounts (main.go:627) refuses an empty account list; nothing refuses
\* --transactions 0.
ASSUME PrepareAssumption ==
    /\ NumAccounts \in Nat \ {0}
    /\ NumTx \in Nat
    /\ NumCPU \in Nat \ {0}
    /\ StartSeq \in [Accounts -> Nat]
    /\ QueueCap \in Nat \ {0}
    /\ Nil \notin Bytes \union Tx

VARIABLES
    chainSeq,                 \* the sequence number the chain has committed
    pendingInit,              \* accounts whose initial tx may still be included
    generate,                 \* control of the "generate" goroutine
    job,                      \* the pool job of each account
    initialAccountSequences,
    request,                  \* txRequest of each job: sequence and TxIdx
    txQueue,
    signer,                   \* control of each signer
    hand,                     \* the transaction each signer works on
    txSignedQueue,
    collect,                  \* control of the "collect" goroutine
    received,                 \* transactions received by collect
    signedTxs,
    rootDone,                 \* the caller's context is cancelled
    ctxDone,                  \* the context of the group is cancelled
    verdict,                  \* what the group's first exit was
    exit,                     \* what ended the process, if something did
    phase                     \* where Stress stands

chain == <<chainSeq, pendingInit>>
pool  == <<generate, job, initialAccountSequences, request>>
sign  == <<signer, hand>>
coll  == <<collect, received, signedTxs>>
group == <<rootDone, ctxDone, verdict>>
vars  == <<chain, pool, txQueue, sign, txSignedQueue, coll, group, exit, phase>>

TypeOK ==
    /\ chainSeq \in [Accounts -> Nat]
    /\ pendingInit \in SUBSET Accounts
    /\ generate \in {"initial", "pool", "returned"}
    /\ job \in [Accounts -> {"queued", "fetch", "push", "finished"}]
    /\ initialAccountSequences \in [Accounts -> Nat]
    /\ request \in [Accounts -> [seq : Nat, idx : 0..NumTx]]
    /\ txQueue \in Seq(Tx)
    /\ signer \in [Signers -> {"recv", "send", "returned"}]
    /\ hand \in [Signers -> Tx \union {Nil}]
    /\ txSignedQueue \in Seq(SignedTx)
    /\ collect \in {"recv", "returned"}
    /\ received \in Nat
    /\ signedTxs \in [Accounts -> [TxIdxs -> Bytes \union {Nil}]]
    /\ rootDone \in BOOLEAN
    /\ ctxDone \in BOOLEAN
    /\ verdict \in {"open", "nil", "error"}
    /\ exit \in {"none", "initial", "fetch", "generate", "context", "sign"}
    /\ phase \in {"prepare", "broadcast", "failed"}
-----------------------------------------------------------------------------
Init ==
    /\ chainSeq = StartSeq
    /\ pendingInit = {}
    /\ generate = "initial"
    /\ job = [a \in Accounts |-> "queued"]
    /\ initialAccountSequences = [a \in Accounts |-> 0]
    /\ request = [a \in Accounts |-> [seq |-> 0, idx |-> 0]]
    /\ txQueue = <<>>
    /\ signer = [s \in Signers |-> "recv"]
    /\ hand = [s \in Signers |-> Nil]
    /\ txSignedQueue = <<>>
    /\ collect = "recv"
    /\ received = 0
    /\ signedTxs = [a \in Accounts |-> [i \in TxIdxs |-> Nil]]
    /\ rootDone = FALSE
    /\ ctxDone = FALSE
    /\ verdict = "open"
    /\ exit = "none"
    /\ phase = "prepare"

Running == exit = "none" /\ phase = "prepare"

\* The first task that returns an error, and the first parallel.Exit task that
\* returns at all, cancel the group's context and decide its result.
CloseGroup(result) ==
    /\ ctxDone' = TRUE
    /\ verdict' = IF verdict = "open" THEN result ELSE verdict
    /\ UNCHANGED rootDone

\* The process ends: a Fatalln, or a panic that catcher.RecvDie turns into one.
\* exit names the cancelled context where that can be the cause.
Die(cause) ==
    /\ exit' = IF ctxDone THEN "context" ELSE cause
    /\ UNCHANGED <<chain, pool, txQueue, sign, txSignedQueue, coll, group, phase>>

(***************************************************************************)
(* The "generate" goroutine and its worker pool.                           *)
(***************************************************************************)

\* createAndBroadcastInitialTxs returned nil, which it also does when attempts
\* to broadcast failed: the initial transactions of "included" are in a block,
\* those of "late" were reported failed or timed out but can still get there.
InitialTxsBroadcast ==
    /\ generate = "initial"
    /\ \E included, late \in SUBSET Accounts :
          /\ included \intersect late = {}
          /\ chainSeq' = [a \in Accounts |->
                            IF a \in included THEN chainSeq[a] + 1 ELSE chainSeq[a]]
          /\ pendingInit' = late
    /\ generate' = "pool"
    /\ UNCHANGED <<job, initialAccountSequences, request, txQueue, sign,
                   txSignedQueue, coll, group, exit, phase>>

\* Fetching a sequence number or generating an initial transaction failed.
InitialTxsFail == generate = "initial" /\ Die("initial")

\* An initial transaction given up on is included in a block after all.
LateInclusion(a) ==
    /\ a \in pendingInit
    /\ chainSeq' = [chainSeq EXCEPT ![a] = @ + 1]
    /\ pendingInit' = pendingInit \ {a}
    /\ UNCHANGED <<pool, txQueue, sign, txSignedQueue, coll, group, exit, phase>>

\* The pool hands jobs to at most NumCPU workers, in the order of submission.
StartJob(a) ==
    /\ generate = "pool"
    /\ job[a] = "queued"
    /\ \A b \in Accounts : b < a => job[b] # "queued"
    /\ Cardinality({b \in Accounts : job[b] \in {"fetch", "push"}}) < NumCPU
    /\ job' = [job EXCEPT ![a] = "fetch"]
    /\ UNCHANGED <<chain, generate, initialAccountSequences, request, txQueue, sign,
                   txSignedQueue, coll, group, exit, phase>>

\* Faulty: the sequence number is not recorded for the broadcast phase.
FetchUnrecorded(a) ==
    /\ job[a] = "fetch"
    /\ request' = [request EXCEPT ![a] = [seq |-> chainSeq[a], idx |-> 0]]
    /\ job' = [job EXCEPT ![a] = IF NumTx = 0 THEN "finished" ELSE "push"]
    /\ UNCHANGED <<chain, generate, initialAccountSequences, txQueue, sign,
                   txSignedQueue, coll, group, exit, phase>>

FetchSequence(a) ==
    /\ job[a] = "fetch"
    /\ initialAccountSequences' = [initialAccountSequences EXCEPT ![a] = chainSeq[a]]
    /\ request' = [request EXCEPT ![a] = [seq |-> chainSeq[a], idx |-> 0]]
    /\ job' = [job EXCEPT ![a] = IF NumTx = 0 THEN "finished" ELSE "push"]
    /\ UNCHANGED <<chain, generate, txQueue, sign, txSignedQueue, coll, group,
                   exit, phase>>

\* All attempts failed, or the context is cancelled: Fatalln.
FetchFails(a) == job[a] = "fetch" /\ Die("fetch")

\* Faulty: the loop runs to txIdx <= NumOfTransactions.
PushTxPastEnd(a) ==
    /\ job[a] = "push"
    /\ Len(txQueue) < QueueCap
    /\ txQueue' = Append(txQueue, [from |-> a, idx |-> request[a].idx,
                                   seq |-> request[a].seq])
    /\ request' = [request EXCEPT ![a] = [seq |-> @.seq + 1, idx |-> @.idx + 1]]
    /\ job' = [job EXCEPT ![a] = IF request[a].idx = NumTx THEN "finished" ELSE @]
    /\ UNCHANGED <<chain, generate, initialAccountSequences, sign, txSignedQueue,
                   coll, group, exit, phase>>

\* Faulty: From.Sequence++ is missing.
PushTxSameSequence(a) ==
    /\ job[a] = "push"
    /\ Len(txQueue) < QueueCap
    /\ txQueue' = Append(txQueue, [from |-> a, idx |-> request[a].idx,
                                   seq |-> request[a].seq])
    /\ request' = [request EXCEPT ![a].idx = @ + 1]
    /\ job' = [job EXCEPT ![a] = IF request[a].idx + 1 = NumTx THEN "finished" ELSE @]
    /\ UNCHANGED <<chain, generate, initialAccountSequences, sign, txSignedQueue,
                   coll, group, exit, phase>>

\* Faulty: txRequest.TxIdx is not set.
PushTxNoIndex(a) ==
    /\ job[a] = "push"
    /\ Len(txQueue) < QueueCap
    /\ txQueue' = Append(txQueue, [from |-> a, idx |-> 0, seq |-> request[a].seq])
    /\ request' = [request EXCEPT ![a] = [seq |-> @.seq + 1, idx |-> @.idx + 1]]
    /\ job' = [job EXCEPT ![a] = IF request[a].idx + 1 = NumTx THEN "finished" ELSE @]
    /\ UNCHANGED <<chain, generate, initialAccountSequences, sign, txSignedQueue,
                   coll, group, exit, phase>>

\* GenerateTx, the send into txQueue and From.Sequence++.
PushTx(a) ==
    /\ job[a] = "push"
    /\ Len(txQueue) < QueueCap
    /\ txQueue' = Append(txQueue, [from |-> a, idx |-> request[a].idx,
                                   seq |-> request[a].seq])
    /\ request' = [request EXCEPT ![a] = [seq |-> @.seq + 1, idx |-> @.idx + 1]]
    /\ job' = [job EXCEPT ![a] = IF request[a].idx + 1 = NumTx THEN "finished" ELSE @]
    /\ UNCHANGED <<chain, generate, initialAccountSequences, sign, txSignedQueue,
                   coll, group, exit, phase>>

\* GenerateTx returned an error: orPanic.
GenerateFails(a) == job[a] = "push" /\ Die("generate")

\* The worker's select sees the cancelled context: "Context ended prematurely".
ContextEnded(a) == job[a] = "push" /\ ctxDone /\ Die("context")

\* pool.StopWait() returned: every job is finished.
GenerateReturns ==
    /\ generate = "pool"
    /\ \A a \in Accounts : job[a] = "finished"
    /\ generate' = "returned"
    /\ UNCHANGED <<chain, job, initialAccountSequences, request, txQueue, sign,
                   txSignedQueue, coll, group, exit, phase>>

(***************************************************************************)
(* The signers.                                                            *)
(***************************************************************************)
SignerTakes(s) ==
    /\ signer[s] = "recv"
    /\ txQueue # <<>>
    /\ hand' = [hand EXCEPT ![s] = Head(txQueue)]
    /\ txQueue' = Tail(txQueue)
    /\ signer' = [signer EXCEPT ![s] = "send"]
    /\ UNCHANGED <<chain, pool, txSignedQueue, coll, group, exit, phase>>

\* What BuildAndSignTx makes of a transaction.
Signed(tx) == [from |-> tx.from, idx |-> tx.idx, bytes |-> <<tx.from, tx.seq>>]

\* Faulty: the send drops the transaction when txSignedQueue is full.
SignerDrops(s) ==
    /\ signer[s] = "send"
    /\ txSignedQueue' = IF Len(txSignedQueue) < QueueCap
                        THEN Append(txSignedQueue, Signed(hand[s]))
                        ELSE txSignedQueue
    /\ hand' = [hand EXCEPT ![s] = Nil]
    /\ signer' = [signer EXCEPT ![s] = "recv"]
    /\ UNCHANGED <<chain, pool, txQueue, coll, group, exit, phase>>

SignerPuts(s) ==
    /\ signer[s] = "send"
    /\ Len(txSignedQueue) < QueueCap
    /\ txSignedQueue' = Append(txSignedQueue, Signed(hand[s]))
    /\ hand' = [hand EXCEPT ![s] = Nil]
    /\ signer' = [signer EXCEPT ![s] = "recv"]
    /\ UNCHANGED <<chain, pool, txQueue, coll, group, exit, phase>>

\* BuildAndSignTx returned an error: orPanic.
SignFails(s) == signer[s] = "send" /\ Die("sign")

\* Faulty: the send into txSignedQueue does not watch the context.
SignerStopsReceiving(s) ==
    /\ signer[s] = "recv"
    /\ ctxDone
    /\ signer' = [signer EXCEPT ![s] = "returned"]
    /\ hand' = [hand EXCEPT ![s] = Nil]
    /\ CloseGroup("error")
    /\ UNCHANGED <<chain, pool, txQueue, txSignedQueue, coll, exit, phase>>

\* Either select of a signer may see the cancelled context.
SignerStops(s) ==
    /\ signer[s] # "returned"
    /\ ctxDone
    /\ signer' = [signer EXCEPT ![s] = "returned"]
    /\ hand' = [hand EXCEPT ![s] = Nil]
    /\ CloseGroup("error")
    /\ UNCHANGED <<chain, pool, txQueue, txSignedQueue, coll, exit, phase>>

(***************************************************************************)
(* The "collect" goroutine.                                                *)
(***************************************************************************)
\* Faulty: one transaction short.
ExpectedShort == NumAccounts * NumTx - 1

Expected == NumAccounts * NumTx

CollectTx ==
    /\ collect = "recv"
    /\ received < Expected
    /\ txSignedQueue # <<>>
    /\ LET tx == Head(txSignedQueue)
       IN  signedTxs' = [signedTxs EXCEPT ![tx.from][tx.idx] = tx.bytes]
    /\ txSignedQueue' = Tail(txSignedQueue)
    /\ received' = received + 1
    /\ UNCHANGED <<chain, pool, txQueue, sign, collect, group, exit, phase>>

CollectReturns ==
    /\ collect = "recv"
    /\ received = Expected
    /\ collect' = "returned"
    /\ CloseGroup("nil")
    /\ UNCHANGED <<chain, pool, txQueue, sign, txSignedQueue, received, signedTxs,
                   exit, phase>>

CollectStops ==
    /\ collect = "recv"
    /\ received < Expected
    /\ ctxDone
    /\ collect' = "returned"
    /\ CloseGroup("error")
    /\ UNCHANGED <<chain, pool, txQueue, sign, txSignedQueue, received, signedTxs,
                   exit, phase>>

(***************************************************************************)
(* The group.                                                              *)
(***************************************************************************)

\* The command's root context is cancelled.
Interrupt ==
    /\ ~rootDone
    /\ rootDone' = TRUE
    /\ ctxDone' = TRUE
    /\ UNCHANGED <<chain, pool, txQueue, sign, txSignedQueue, coll, verdict, exit, phase>>

\* parallel.Run returns once every task has returned.
GroupReturns ==
    /\ generate = "returned"
    /\ collect = "returned"
    /\ \A s \in Signers : signer[s] = "returned"
    /\ phase' = IF verdict = "nil" THEN "broadcast" ELSE "failed"
    /\ UNCHANGED <<chain, pool, txQueue, sign, txSignedQueue, coll, group, exit>>

Worker(a) ==
    \/ StartJob(a)
    \/ FetchSequence(a)
    \/ FetchFails(a)
    \/ PushTx(a)
    \/ GenerateFails(a)
    \/ ContextEnded(a)

Signer(s) == SignerTakes(s) \/ SignerPuts(s) \/ SignFails(s) \/ SignerStops(s)

Collect == CollectTx \/ CollectReturns \/ CollectStops

Generate == InitialTxsBroadcast \/ InitialTxsFail \/ GenerateReturns

Next ==
    \/ /\ Running
       /\ \/ Generate
          \/ \E a \in Accounts : Worker(a) \/ LateInclusion(a)
          \/ \E s \in Signers : Signer(s)
          \/ Collect
          \/ Interrupt
          \/ GroupReturns
    \/ ~Running /\ UNCHANGED vars  \* the phase, or the process, has ended

\* Every runnable goroutine is eventually scheduled, and a call that does not
\* fail returns. A failure is never forced: what is blocked may not count on it.
Fairness ==
    /\ WF_vars(Running /\ (InitialTxsBroadcast \/ GenerateReturns))
    /\ \A a \in Accounts :
          WF_vars(Running /\ (StartJob(a) \/ FetchSequence(a) \/ PushTx(a) \/ ContextEnded(a)))
    /\ \A s \in Signers :
          WF_vars(Running /\ (SignerTakes(s) \/ SignerPuts(s) \/ SignerStops(s)))
    /\ WF_vars(Running /\ Collect)
    /\ WF_vars(Running /\ GroupReturns)

Spec     == Init /\ [][Next]_vars
FairSpec == Spec /\ Fairness
-----------------------------------------------------------------------------
(***************************************************************************)
(* Where the transactions are.                                             *)
(***************************************************************************)
Id(tx)        == <<tx.from, tx.idx>>
Queued(queue) == {Id(queue[k]) : k \in DOMAIN queue}
Busy          == {s \in Signers : hand[s] # Nil}
InHand        == {Id(hand[s]) : s \in Busy}
Generated     == {id \in Accounts \X TxIdxs : id[2] < request[id[1]].idx}
Filed         == {id \in Accounts \X TxIdxs : signedTxs[id[1]][id[2]] # Nil}

(***************************************************************************)
(* Properties.                                                             *)
(***************************************************************************)

\* What the broadcast phase is given (stresser.go:395-408): every slot holds the
\* transaction of its own account, signed over the account's initial sequence
\* number plus the slot's index, and that initial sequence number is not ahead
\* of the chain.
PreparedTxs ==
    phase = "broadcast" =>
        \A a \in Accounts :
            /\ initialAccountSequences[a] <= chainSeq[a]
            /\ \A i \in TxIdxs :
                  signedTxs[a][i] = <<a, initialAccountSequences[a] + i>>

\* Until the context is cancelled no transaction is dropped or duplicated on its
\* way from the workers through both queues and the signers to its slot.
NoTxLost ==
    ~ctxDone =>
        /\ Generated = Queued(txQueue) \union InHand \union Queued(txSignedQueue)
                         \union Filed
        /\ Cardinality(Generated) = Len(txQueue) + Cardinality(Busy)
                                      + Len(txSignedQueue) + received

\* collect's return cancels the context under the other goroutines' feet only
\* when they have nothing left to do with it: unless the caller cancelled the
\* context, no worker dies of "Context ended prematurely" (stresser.go:311-317)
\* and no sequence number fails to be fetched because of it. With NumTx = 0
\* collect returns at once and this does not hold.
NoPrematureEnd == exit = "context" /\ NumTx > 0 => rootDone

\* A filed transaction is never overwritten by another one.
FiledOnce ==
    [][\A a \in Accounts : \A i \in TxIdxs :
          signedTxs[a][i] # Nil => signedTxs'[a][i] = signedTxs[a][i]]_signedTxs

\* The phase always comes to an end: no arrangement of full queues and waiting
\* goroutines blocks it, and a cancelled context reaches every goroutine.
PrepareEnds == <>(~Running)
-----------------------------------------------------------------------------
(***************************************************************************)
(* The inductive invariant behind PreparedTxs, NoPrematureEnd, FiledOnce.  *)
(***************************************************************************)

\* How far a job is tells how far its request is.
JobInv ==
    \A a \in Accounts :
        /\ generate = "initial" => job[a] = "queued"
        /\ generate = "returned" => job[a] = "finished"
        /\ job[a] \in {"queued", "fetch"} => request[a].idx = 0
        /\ job[a] = "push" => request[a].idx < NumTx
        /\ job[a] = "finished" => request[a].idx = NumTx
        /\ job[a] \in {"push", "finished"} =>
              /\ request[a].seq = initialAccountSequences[a] + request[a].idx
              /\ initialAccountSequences[a] <= chainSeq[a]

\* A transaction, and the bytes made of it, carry the sequence number that its
\* account and its index call for.
RightSeq(tx) ==
    /\ Id(tx) \in Generated
    /\ tx.seq = initialAccountSequences[tx.from] + tx.idx

RightBytes(id, bytes) ==
    /\ id \in Generated
    /\ bytes = <<id[1], initialAccountSequences[id[1]] + id[2]>>

ContentInv ==
    /\ \A k \in DOMAIN txQueue : RightSeq(txQueue[k])
    /\ \A s \in Signers : hand[s] # Nil <=> signer[s] = "send"
    /\ \A s \in Busy : RightSeq(hand[s])
    /\ \A k \in DOMAIN txSignedQueue :
          RightBytes(Id(txSignedQueue[k]), txSignedQueue[k].bytes)
    /\ \A id \in Filed : RightBytes(id, signedTxs[id[1]][id[2]])

\* A transaction is in one place only, and once.
NoDuplicates(queue) ==
    \A k, l \in DOMAIN queue : Id(queue[k]) = Id(queue[l]) => k = l

PlaceInv ==
    /\ NoDuplicates(txQueue)
    /\ NoDuplicates(txSignedQueue)
    /\ \A s, t \in Busy : Id(hand[s]) = Id(hand[t]) => s = t
    /\ Queued(txQueue) \intersect InHand = {}
    /\ Queued(txQueue) \intersect Queued(txSignedQueue) = {}
    /\ Queued(txQueue) \intersect Filed = {}
    /\ InHand \intersect Queued(txSignedQueue) = {}
    /\ InHand \intersect Filed = {}
    /\ Queued(txSignedQueue) \intersect Filed = {}

\* collect counts the slots it has filled, and nothing but its count or the
\* caller cancels the context.
GroupInv ==
    /\ received = Cardinality(Filed)
    /\ verdict = "nil" => received = Expected
    /\ ctxDone => rootDone \/ received = Expected
    /\ phase = "broadcast" => verdict = "nil" /\ generate = "returned"

\* The inductive invariant of the phase (stresser.go:198-361): every transaction
\* carries the right sequence number, is in one place, and collect's count is
\* the number of filled slots, so that it ends the group with no job open.
PrepareInv == TypeOK /\ JobInv /\ ContentInv /\ PlaceInv /\ GroupInv /\ NoPrematureEnd
=============================================================================
