---------------------------- MODULE PrepareProofs ----------------------------
(***************************************************************************)
(* Proofs about the preparation phase, for every number of accounts,       *)
(* transactions, CPUs and every queue capacity.                            *)
(***************************************************************************)
EXTENDS Prepare, FiniteSetTheorems, TLAPS

\* A send into a channel adds one transaction and keeps the others.
LEMMA AppendQueue ==
    ASSUME NEW T, NEW q \in Seq(T), NEW x \in T, NEW r, r = Append(q, x)
    PROVE  /\ r \in Seq(T)
           /\ Len(q) \in Nat /\ Len(r) = Len(q) + 1
           /\ DOMAIN q = 1..Len(q) /\ DOMAIN r = 1..Len(q) + 1
           /\ \A k \in 1..Len(q) : r[k] = q[k]
           /\ r[Len(q) + 1] = x
  OBVIOUS

LEMMA AppendLen ==
    ASSUME NEW T, NEW q \in Seq(T), NEW x \in T, NEW r, r = Append(q, x)
    PROVE  Len(r) = Len(q) + 1
  BY AppendQueue

LEMMA AppendElements ==
    ASSUME NEW T, NEW q \in Seq(T), NEW x \in T, NEW r, r = Append(q, x)
    PROVE  \A k \in DOMAIN r : r[k] = x \/ (k \in DOMAIN q /\ r[k] = q[k])
<1>1. /\ Len(q) \in Nat /\ DOMAIN q = 1..Len(q) /\ DOMAIN r = 1..Len(q) + 1
      /\ \A k \in 1..Len(q) : r[k] = q[k]
      /\ r[Len(q) + 1] = x
  BY AppendQueue
<1> QED BY <1>1

LEMMA AppendQueued ==
    ASSUME NEW T, NEW q \in Seq(T), NEW x \in T, NEW r, r = Append(q, x)
    PROVE  Queued(r) = Queued(q) \union {Id(x)}
<1>1. /\ Len(q) \in Nat /\ DOMAIN q = 1..Len(q) /\ DOMAIN r = 1..Len(q) + 1
      /\ \A k \in 1..Len(q) : r[k] = q[k]
      /\ r[Len(q) + 1] = x
  BY AppendQueue
<1>2. ASSUME NEW k \in DOMAIN r PROVE Id(r[k]) \in Queued(q) \union {Id(x)}
  BY AppendElements DEF Queued
<1>3. ASSUME NEW k \in DOMAIN q PROVE Id(q[k]) \in Queued(r)
  <2>1. k \in DOMAIN r /\ r[k] = q[k]
    BY <1>1
  <2> QED BY <2>1, Zenon DEF Queued
<1>4. Id(x) \in Queued(r)
  <2>1. Len(q) + 1 \in DOMAIN r
    BY <1>1
  <2> QED BY <1>1, <2>1, Zenon DEF Queued
<1> QED BY <1>2, <1>3, <1>4, Zenon DEF Queued

LEMMA AppendDistinct ==
    ASSUME NEW T, NEW q \in Seq(T), NEW x \in T, NEW r, r = Append(q, x),
           NoDuplicates(q), Id(x) \notin Queued(q)
    PROVE  NoDuplicates(r)
<1>1. /\ Len(q) \in Nat /\ DOMAIN q = 1..Len(q) /\ DOMAIN r = 1..Len(q) + 1
      /\ \A k \in 1..Len(q) : r[k] = q[k]
      /\ r[Len(q) + 1] = x
  BY AppendQueue
<1> SUFFICES ASSUME NEW k \in DOMAIN r, NEW l \in DOMAIN r, Id(r[k]) = Id(r[l])
             PROVE  k = l
  BY Zenon DEF NoDuplicates
<1>2. CASE k \in DOMAIN q /\ l \in DOMAIN q
  BY <1>1, <1>2, Zenon DEF NoDuplicates
<1>3. CASE k \in DOMAIN q /\ l \notin DOMAIN q
  BY <1>1, <1>3 DEF Queued
<1>4. CASE k \notin DOMAIN q /\ l \in DOMAIN q
  BY <1>1, <1>4 DEF Queued
<1>5. CASE k \notin DOMAIN q /\ l \notin DOMAIN q
  BY <1>1, <1>5
<1> QED BY <1>2, <1>3, <1>4, <1>5

\* A receive from a channel takes out one transaction and keeps the others.
LEMMA TailQueue ==
    ASSUME NEW T, NEW q \in Seq(T), q # <<>>, NoDuplicates(q)
    PROVE  /\ Head(q) \in T
           /\ Tail(q) \in Seq(T)
           /\ 1 \in DOMAIN q /\ Head(q) = q[1]
           /\ Id(Head(q)) \in Queued(q)
           /\ Queued(Tail(q)) = Queued(q) \ {Id(Head(q))}
           /\ NoDuplicates(Tail(q))
           /\ \A k \in DOMAIN Tail(q) : k + 1 \in DOMAIN q /\ Tail(q)[k] = q[k + 1]
<1> DEFINE r == Tail(q)
<1>1. /\ r \in Seq(T)
      /\ Len(q) \in Nat \ {0} /\ DOMAIN q = 1..Len(q)
      /\ DOMAIN r = 1..Len(q) - 1
      /\ \A k \in 1..Len(q) - 1 : r[k] = q[k + 1]
      /\ Head(q) = q[1] /\ Head(q) \in T
  OBVIOUS
<1>2. NoDuplicates(r)
  BY <1>1 DEF NoDuplicates
<1>3. Queued(r) = Queued(q) \ {Id(Head(q))}
  <2>1. ASSUME NEW k \in DOMAIN r PROVE Id(r[k]) \in Queued(q) \ {Id(Head(q))}
    <3>1. k + 1 \in DOMAIN q /\ 1 \in DOMAIN q /\ k + 1 # 1 /\ r[k] = q[k + 1]
      BY <1>1
    <3>2. Id(q[k + 1]) # Id(q[1])
      BY <3>1, Zenon DEF NoDuplicates
    <3> QED BY <1>1, <3>1, <3>2, Zenon DEF Queued
  <2>2. ASSUME NEW k \in DOMAIN q, Id(q[k]) # Id(Head(q)) PROVE Id(q[k]) \in Queued(r)
    <3>1. k - 1 \in DOMAIN r /\ r[k - 1] = q[k]
      <4>1. k # 1
        BY <1>1, <2>2
      <4>2. k - 1 \in 1..Len(q) - 1 /\ (k - 1) + 1 = k
        BY <1>1, <4>1
      <4> QED BY <1>1, <4>2
    <3> QED BY <3>1, Zenon DEF Queued
  <2> QED BY <2>1, <2>2, ZenonT(30) DEF Queued
<1>4. 1 \in DOMAIN q /\ Id(Head(q)) \in Queued(q)
  BY <1>1 DEF Queued
<1> QED BY <1>1, <1>2, <1>3, <1>4
-----------------------------------------------------------------------------
(***************************************************************************)
(* Type correctness.                                                       *)
(***************************************************************************)
LEMMA TypeInit == Init => TypeOK
<1> SUFFICES ASSUME Init PROVE TypeOK
  OBVIOUS
<1> USE PrepareAssumption DEF Init
<1>1. /\ chainSeq \in [Accounts -> Nat]
      /\ initialAccountSequences \in [Accounts -> Nat]
      /\ request \in [Accounts -> [seq : Nat, idx : 0..NumTx]]
      /\ received \in Nat
  OBVIOUS
<1>2. /\ txQueue \in Seq(Tx)
      /\ txSignedQueue \in Seq(SignedTx)
      /\ hand \in [Signers -> Tx \union {Nil}]
      /\ signedTxs \in [Accounts -> [TxIdxs -> Bytes \union {Nil}]]
  OBVIOUS
<1>3. /\ job \in [Accounts -> {"queued", "fetch", "push", "finished"}]
      /\ signer \in [Signers -> {"recv", "send", "returned"}]
  OBVIOUS
<1> QED BY <1>1, <1>2, <1>3, ZenonT(30) DEF TypeOK

\* What generating a transaction does to the requests.
LEMMA PushRequest ==
    ASSUME TypeOK, NEW a \in Accounts, PushTx(a)
    PROVE  /\ request[a].idx \in Nat /\ request[a].seq \in Nat
           /\ request'[a].idx = request[a].idx + 1
           /\ request'[a].seq = request[a].seq + 1
           /\ \A b \in Accounts : b # a => request'[b] = request[b]
<1>1. request[a] \in [seq : Nat, idx : 0..NumTx] /\ request \in [Accounts -> [seq : Nat, idx : 0..NumTx]]
  BY Zenon DEF TypeOK
<1>2. request' = [request EXCEPT ![a] = [seq |-> request[a].seq + 1, idx |-> request[a].idx + 1]]
  BY Zenon DEF PushTx
<1> QED BY <1>1, <1>2, PrepareAssumption

\* What is pushed is a transaction.
LEMMA PushedTx ==
    ASSUME TypeOK, JobInv, NEW a \in Accounts, PushTx(a)
    PROVE  /\ request[a].idx \in TxIdxs /\ request[a].idx + 1 \in 0..NumTx
           /\ [from |-> a, idx |-> request[a].idx, seq |-> request[a].seq] \in Tx
<1>1. request[a].idx \in Nat /\ request[a].seq \in Nat
  BY PushRequest
<1>2. request[a].idx < NumTx
  BY Zenon DEF PushTx, JobInv
<1>3. NumTx \in Nat
  BY PrepareAssumption
<1>4. request[a].idx \in TxIdxs /\ request[a].idx + 1 \in 0..NumTx
  BY <1>1, <1>2, <1>3 DEF TxIdxs
<1> QED BY <1>1, <1>4, Zenon DEF Tx

\* One step keeps the types. JobInv is needed because a request's index stays
\* within 0..NumTx only as the job is finished when it gets there, ContentInv
\* because a signer in "send" has a transaction in hand.
LEMMA TypeNext == TypeOK /\ JobInv /\ ContentInv /\ [Next]_vars => TypeOK'
<1> SUFFICES ASSUME TypeOK, JobInv, ContentInv, [Next]_vars PROVE TypeOK'
  OBVIOUS
<1> USE DEF TypeOK
<1>1. CASE InitialTxsBroadcast
  BY <1>1 DEF InitialTxsBroadcast, sign, coll, group
<1>2. ASSUME NEW cause \in {"initial", "fetch", "generate", "context", "sign"}, Die(cause)
      PROVE  TypeOK'
  BY <1>2 DEF Die, chain, pool, sign, coll, group
<1>3. ASSUME NEW a \in Accounts, LateInclusion(a) PROVE TypeOK'
  BY <1>3 DEF LateInclusion, pool, sign, coll, group
<1>4. ASSUME NEW a \in Accounts, StartJob(a) PROVE TypeOK'
  BY <1>4, Zenon DEF StartJob, chain, sign, coll, group
<1>5. ASSUME NEW a \in Accounts, FetchSequence(a) PROVE TypeOK'
  <2> HIDE DEF TypeOK
  <2>1. /\ chainSeq \in [Accounts -> Nat]
        /\ request \in [Accounts -> [seq : Nat, idx : 0..NumTx]]
        /\ initialAccountSequences \in [Accounts -> Nat]
        /\ job \in [Accounts -> {"queued", "fetch", "push", "finished"}]
    BY Zenon DEF TypeOK
  <2>2. 0 \in 0..NumTx
    BY PrepareAssumption
  <2>3. request' \in [Accounts -> [seq : Nat, idx : 0..NumTx]]
    BY <1>5, <2>1, <2>2, Zenon DEF FetchSequence
  <2>4. /\ initialAccountSequences' \in [Accounts -> Nat]
        /\ job' \in [Accounts -> {"queued", "fetch", "push", "finished"}]
    BY <1>5, <2>1, Zenon DEF FetchSequence
  <2>5. UNCHANGED <<chain, generate, txQueue, sign, txSignedQueue, coll, group, exit, phase>>
    BY <1>5, Zenon DEF FetchSequence
  <2> QED BY <2>3, <2>4, <2>5 DEF TypeOK, chain, sign, coll, group
<1>6. ASSUME NEW a \in Accounts, PushTx(a) PROVE TypeOK'
  <2> HIDE DEF TypeOK
  <2>1. /\ request[a].idx + 1 \in 0..NumTx
        /\ [from |-> a, idx |-> request[a].idx, seq |-> request[a].seq] \in Tx
    BY <1>6, PushedTx
  <2>2. /\ txQueue \in Seq(Tx) /\ request \in [Accounts -> [seq : Nat, idx : 0..NumTx]]
        /\ job \in [Accounts -> {"queued", "fetch", "push", "finished"}]
    BY Zenon DEF TypeOK
  <2>3. txQueue' \in Seq(Tx)
    BY <1>6, <2>1, <2>2, AppendQueue DEF PushTx
  <2>4. request' \in [Accounts -> [seq : Nat, idx : 0..NumTx]]
    <3>1. request[a].seq + 1 \in Nat
      BY <2>2
    <3>2. [seq |-> request[a].seq + 1, idx |-> request[a].idx + 1] \in [seq : Nat, idx : 0..NumTx]
      BY <2>1, <3>1
    <3>3. request' = [request EXCEPT ![a] = [seq |-> request[a].seq + 1, idx |-> request[a].idx + 1]]
      BY <1>6, Zenon DEF PushTx
    <3> QED BY <2>2, <3>2, <3>3
  <2>5. job' \in [Accounts -> {"queued", "fetch", "push", "finished"}]
    BY <1>6, <2>2, Zenon DEF PushTx
  <2>6. UNCHANGED <<chain, generate, initialAccountSequences, sign, txSignedQueue, coll, group,
                    exit, phase>>
    BY <1>6, Zenon DEF PushTx
  <2> QED BY <2>3, <2>4, <2>5, <2>6 DEF TypeOK, chain, sign, coll, group
<1>7. CASE GenerateReturns
  BY <1>7, Zenon DEF GenerateReturns, chain, sign, coll, group
<1>8. ASSUME NEW s \in Signers, SignerTakes(s) PROVE TypeOK'
  <2>1. Head(txQueue) \in Tx /\ txQueue' \in Seq(Tx)
    BY <1>8 DEF SignerTakes
  <2> QED BY <1>8, <2>1 DEF SignerTakes, chain, pool, coll, group
<1>9. ASSUME NEW s \in Signers, SignerPuts(s) PROVE TypeOK'
  <2>1. hand[s] \in Tx
    BY <1>9, Zenon DEF SignerPuts, ContentInv
  <2>2. Signed(hand[s]) \in SignedTx
    BY <2>1, Zenon DEF Signed, Tx, SignedTx, Bytes
  <2>3. txSignedQueue' \in Seq(SignedTx)
    BY <1>9, <2>2, AppendQueue, Zenon DEF SignerPuts
  <2> QED BY <1>9, <2>3 DEF SignerPuts, chain, pool, coll, group
<1>10. ASSUME NEW s \in Signers, SignerStops(s) PROVE TypeOK'
  BY <1>10, ZenonT(30) DEF SignerStops, CloseGroup, chain, pool, coll
<1>11. CASE CollectTx
  <2>1. Head(txSignedQueue) \in SignedTx /\ txSignedQueue' \in Seq(SignedTx)
    BY <1>11 DEF CollectTx
  <2>2. signedTxs' \in [Accounts -> [TxIdxs -> Bytes \union {Nil}]]
    BY <1>11, <2>1, ZenonT(30) DEF CollectTx, SignedTx
  <2>3. received' \in Nat
    BY <1>11 DEF CollectTx
  <2>4. UNCHANGED <<chain, pool, txQueue, sign, collect, group, exit, phase>>
    BY <1>11, Zenon DEF CollectTx
  <2> QED BY <2>1, <2>2, <2>3, <2>4 DEF chain, pool, sign, group
<1>12. CASE CollectReturns
  BY <1>12, Zenon DEF CollectReturns, CloseGroup, chain, pool, sign
<1>13. CASE CollectStops
  BY <1>13, Zenon DEF CollectStops, CloseGroup, chain, pool, sign
<1>14. CASE Interrupt
  BY <1>14, Zenon DEF Interrupt, chain, pool, sign, coll
<1>15. CASE GroupReturns
  BY <1>15, Zenon DEF GroupReturns, chain, pool, sign, coll, group
<1>16. CASE UNCHANGED vars
  BY <1>16 DEF vars, chain, pool, sign, coll, group
<1> QED
  BY ZenonT(30), <1>1, <1>2, <1>3, <1>4, <1>5, <1>6, <1>7, <1>8, <1>9, <1>10, <1>11, <1>12,
     <1>13, <1>14, <1>15, <1>16
  DEF Next, Generate, Worker, Signer, Collect, InitialTxsFail, FetchFails,
      GenerateFails, ContextEnded, SignFails
-----------------------------------------------------------------------------
(***************************************************************************)
(* Each conjunct of the invariant is kept by a step.                       *)
(***************************************************************************)

\* Only these actions touch the chain or the worker pool's state.
LEMMA PoolSteps ==
    ASSUME [Next]_vars
    PROVE  \/ InitialTxsBroadcast \/ GenerateReturns
           \/ \E a \in Accounts : LateInclusion(a) \/ StartJob(a) \/ FetchSequence(a)
                                    \/ PushTx(a)
           \/ UNCHANGED <<chain, pool>>
BY Zenon DEF Next, vars, Generate, Worker, Signer, Collect, InitialTxsFail, FetchFails,
       GenerateFails, ContextEnded, SignFails, Die, SignerTakes, SignerPuts, SignerStops,
       CollectTx, CollectReturns, CollectStops, Interrupt, GroupReturns

LEMMA JobNext == TypeOK /\ JobInv /\ [Next]_vars => JobInv'
<1> SUFFICES ASSUME TypeOK, JobInv, [Next]_vars PROVE JobInv'
  OBVIOUS
<1> USE PrepareAssumption DEF TypeOK, JobInv
<1>1. CASE InitialTxsBroadcast
  BY <1>1, Zenon DEF InitialTxsBroadcast
<1>2. CASE GenerateReturns
  BY <1>2, Zenon DEF GenerateReturns, chain
<1>3. ASSUME NEW a \in Accounts, LateInclusion(a) PROVE JobInv'
  BY <1>3 DEF LateInclusion, pool
<1>4. ASSUME NEW a \in Accounts, StartJob(a) PROVE JobInv'
  BY <1>4, Zenon DEF StartJob, chain
<1>5. ASSUME NEW a \in Accounts, FetchSequence(a) PROVE JobInv'
  BY <1>5 DEF FetchSequence, chain
<1>6. ASSUME NEW a \in Accounts, PushTx(a) PROVE JobInv'
  <2>1. /\ job[a] = "push" /\ UNCHANGED <<chainSeq, generate, initialAccountSequences>>
        /\ job' = [job EXCEPT ![a] = IF request[a].idx + 1 = NumTx THEN "finished" ELSE @]
    BY <1>6, Zenon DEF PushTx, chain
  <2>2. ASSUME NEW b \in Accounts, b # a
        PROVE  job'[b] = job[b] /\ request'[b] = request[b]
    BY <1>6, <2>1, <2>2, PushRequest, ZenonT(30)
  <2>3. /\ job'[a] = IF request[a].idx + 1 = NumTx THEN "finished" ELSE "push"
        /\ request[a].idx < NumTx
    BY <2>1
  <2> HIDE DEF TypeOK
  <2>4. PICK i \in Nat, q \in Nat : i = request[a].idx /\ q = request[a].seq
    BY <1>6, PushRequest
  <2>5. request'[a].idx = i + 1 /\ request'[a].seq = q + 1
    BY <1>6, <2>4, PushRequest
  <2>6. initialAccountSequences[a] \in Nat
    BY Zenon DEF TypeOK
  <2> QED BY <2>1, <2>2, <2>3, <2>4, <2>5, <2>6
<1>7. CASE UNCHANGED <<chain, pool>>
  BY <1>7, Zenon DEF chain, pool
<1> QED BY <1>1, <1>2, <1>3, <1>4, <1>5, <1>6, <1>7, PoolSteps

\* Only these actions touch a queue, a signer's hand, a slot, a request or an
\* initial sequence number.
content == <<initialAccountSequences, request, txQueue, sign, txSignedQueue, signedTxs>>

LEMMA ContentSteps ==
    ASSUME [Next]_vars
    PROVE  \/ \E a \in Accounts : FetchSequence(a) \/ PushTx(a)
           \/ \E s \in Signers : SignerTakes(s) \/ SignerPuts(s) \/ SignerStops(s)
           \/ CollectTx
           \/ UNCHANGED content
BY ZenonT(30) DEF Next, vars, Generate, Worker, Signer, Collect, InitialTxsBroadcast, InitialTxsFail,
       LateInclusion, StartJob, FetchFails, GenerateFails, ContextEnded, GenerateReturns,
       SignFails, Die, CollectReturns, CollectStops, Interrupt, GroupReturns,
       content, pool, sign, coll

\* Every transaction that is somewhere has been generated.
LEMMA PlacesGenerated ==
    ASSUME ContentInv
    PROVE  /\ Queued(txQueue) \subseteq Generated
           /\ InHand \subseteq Generated
           /\ Queued(txSignedQueue) \subseteq Generated
           /\ Filed \subseteq Generated
BY Zenon DEF ContentInv, RightSeq, RightBytes, Queued, InHand

\* The next transaction of an account is a new one, and generating it is the
\* only change to what has been generated.
LEMMA PushGenerates ==
    ASSUME TypeOK, JobInv, NEW a \in Accounts, PushTx(a)
    PROVE  /\ <<a, request[a].idx>> \notin Generated
           /\ Generated' = Generated \union {<<a, request[a].idx>>}
<1>1. request[a].idx \in TxIdxs
  BY PushedTx, ZenonT(30)
<1>n. TxIdxs \subseteq Nat
  BY PrepareAssumption DEF TxIdxs
<1>2. ASSUME NEW b \in Accounts, NEW i \in TxIdxs
      PROVE  i < request'[b].idx <=> i < request[b].idx \/ (b = a /\ i = request[a].idx)
  <2>1. CASE b = a
    BY <1>n, <2>1, PushRequest
  <2>2. CASE b # a
    BY <2>2, PushRequest
  <2> QED BY <2>1, <2>2
<1>3. ~(request[a].idx < request[a].idx)
  BY PushRequest
<1>4. <<a, request[a].idx>> \notin Generated
  BY <1>3, Zenon DEF Generated
<1>5. ASSUME NEW id \in Accounts \X TxIdxs
      PROVE  id \in Generated' <=> id \in Generated \/ id = <<a, request[a].idx>>
  BY <1>2 DEF Generated
<1>6. Generated \subseteq Accounts \X TxIdxs /\ Generated' \subseteq Accounts \X TxIdxs
  BY Zenon DEF Generated, Accounts, TxIdxs
<1> QED BY <1>1, <1>4, <1>5, <1>6

\* Fetching a sequence number generates nothing, and nothing generated so far
\* is the account's.
LEMMA FetchGenerates ==
    ASSUME TypeOK, JobInv, NEW a \in Accounts, FetchSequence(a)
    PROVE  /\ Generated' = Generated
           /\ \A id \in Generated : id[1] # a
           /\ \A id \in Generated :
                 initialAccountSequences'[id[1]] = initialAccountSequences[id[1]]
<1> USE PrepareAssumption DEF TypeOK
<1>1. request[a].idx = 0 /\ request'[a].idx = 0
  BY Zenon DEF FetchSequence, JobInv
<1>2. \A b \in Accounts : request'[b].idx = request[b].idx
  BY <1>1, Zenon DEF FetchSequence
<1>3. Generated' = Generated
  BY <1>2, ZenonT(30) DEF Generated
<1>4. ASSUME NEW id \in Generated PROVE id[1] \in Accounts /\ id[1] # a
  BY <1>1 DEF Generated, TxIdxs
<1> QED BY <1>3, <1>4, Zenon DEF FetchSequence

\* What was right about a transaction stays right when more are generated.
LEMMA KeepsRight ==
    ASSUME ContentInv,
           Generated \subseteq Generated',
           \A id \in Generated :
              initialAccountSequences'[id[1]] = initialAccountSequences[id[1]]
    PROVE  /\ \A k \in DOMAIN txQueue :
                 /\ Id(txQueue[k]) \in Generated'
                 /\ txQueue[k].seq
                      = initialAccountSequences'[txQueue[k].from] + txQueue[k].idx
           /\ UNCHANGED <<sign, txSignedQueue, signedTxs>> =>
                 /\ \A s \in Signers : hand'[s] # Nil <=> signer'[s] = "send"
                 /\ \A s \in Busy' : RightSeq(hand[s])'
                 /\ \A k \in DOMAIN txSignedQueue' :
                       RightBytes(Id(txSignedQueue[k]), txSignedQueue[k].bytes)'
                 /\ \A id \in Filed' : RightBytes(id, signedTxs[id[1]][id[2]])'
<1>1. ASSUME NEW k \in DOMAIN txQueue
      PROVE  /\ Id(txQueue[k]) \in Generated'
             /\ txQueue[k].seq
                  = initialAccountSequences'[txQueue[k].from] + txQueue[k].idx
  BY Zenon DEF ContentInv, RightSeq, Id
<1>2. ASSUME UNCHANGED <<sign, txSignedQueue, signedTxs>>
      PROVE  /\ \A s \in Signers : hand'[s] # Nil <=> signer'[s] = "send"
             /\ \A s \in Busy' : RightSeq(hand[s])'
             /\ \A k \in DOMAIN txSignedQueue' :
                   RightBytes(Id(txSignedQueue[k]), txSignedQueue[k].bytes)'
             /\ \A id \in Filed' : RightBytes(id, signedTxs[id[1]][id[2]])'
  <2>1. UNCHANGED <<signer, hand, txSignedQueue, signedTxs, Busy, Filed>>
    BY <1>2, Zenon DEF sign, Busy, Filed
  <2> QED BY <2>1, Zenon DEF ContentInv, RightSeq, RightBytes, Id
<1> QED BY <1>1, <1>2

\* collect fills the slot of the transaction it receives and no other.
LEMMA CollectFiles ==
    ASSUME TypeOK, CollectTx
    PROVE  /\ Head(txSignedQueue) \in SignedTx
           /\ Id(Head(txSignedQueue)) \in Accounts \X TxIdxs
           /\ Filed' = Filed \union {Id(Head(txSignedQueue))}
           /\ \A id \in Accounts \X TxIdxs :
                 signedTxs'[id[1]][id[2]] = IF id = Id(Head(txSignedQueue))
                                            THEN Head(txSignedQueue).bytes
                                            ELSE signedTxs[id[1]][id[2]]
<1> DEFINE tx == Head(txSignedQueue)
<1>1. tx \in SignedTx
  BY DEF TypeOK, CollectTx
<1>2. /\ signedTxs \in [Accounts -> [TxIdxs -> Bytes \union {Nil}]]
      /\ signedTxs' = [signedTxs EXCEPT ![tx.from][tx.idx] = tx.bytes]
  BY Zenon DEF TypeOK, CollectTx
<1> HIDE DEF tx
<1>3. Id(tx) = <<tx.from, tx.idx>> /\ tx.from \in Accounts /\ tx.idx \in TxIdxs /\ tx.bytes \in Bytes
  BY <1>1, Zenon DEF Id, SignedTx
<1>4. ASSUME NEW a \in Accounts, NEW i \in TxIdxs
      PROVE  signedTxs'[a][i] = IF a = tx.from /\ i = tx.idx THEN tx.bytes ELSE signedTxs[a][i]
  BY <1>2, <1>3, <1>4
<1>5. ASSUME NEW id \in Accounts \X TxIdxs
      PROVE  signedTxs'[id[1]][id[2]] = IF id = Id(tx) THEN tx.bytes ELSE signedTxs[id[1]][id[2]]
  BY <1>3, <1>4
<1>6. tx.bytes # Nil
  BY <1>3, PrepareAssumption
<1>7. Filed' = Filed \union {Id(tx)}
  BY <1>3, <1>5, <1>6 DEF Filed
<1> QED BY <1>1, <1>3, <1>5, <1>7 DEF tx

LEMMA ContentNext ==
    TypeOK /\ JobInv /\ ContentInv /\ PlaceInv /\ [Next]_vars => ContentInv'
<1> SUFFICES ASSUME TypeOK, JobInv, ContentInv, PlaceInv, [Next]_vars PROVE ContentInv'
  OBVIOUS
<1>p. Nil \notin Tx /\ Nil \notin Bytes
  BY PrepareAssumption
<1> USE <1>p
<1>t. /\ txQueue \in Seq(Tx) /\ txSignedQueue \in Seq(SignedTx)
      /\ hand \in [Signers -> Tx \union {Nil}]
      /\ signer \in [Signers -> {"recv", "send", "returned"}]
      /\ signedTxs \in [Accounts -> [TxIdxs -> Bytes \union {Nil}]]
  BY Zenon DEF TypeOK
<1>1. ASSUME NEW a \in Accounts, FetchSequence(a) PROVE ContentInv'
  <2>1. UNCHANGED <<txQueue, sign, txSignedQueue, signedTxs>>
    BY <1>1, Zenon DEF FetchSequence, coll
  <2> QED BY <1>1, <2>1, KeepsRight, FetchGenerates, ZenonT(30) DEF ContentInv, RightSeq
<1>2. ASSUME NEW a \in Accounts, PushTx(a) PROVE ContentInv'
  <2> DEFINE tx == [from |-> a, idx |-> request[a].idx, seq |-> request[a].seq]
  <2>1. /\ UNCHANGED <<sign, txSignedQueue, signedTxs, initialAccountSequences>>
        /\ txQueue' = Append(txQueue, tx) /\ job[a] = "push"
    BY <1>2, Zenon DEF PushTx, coll
  <2>2. tx \in Tx
    BY <1>2, PushedTx
  <2>3. /\ Id(tx) \in Generated'
        /\ tx.seq = initialAccountSequences'[tx.from] + tx.idx
    BY <1>2, <2>1, PushGenerates, Zenon DEF Id, JobInv
  <2>4. \A k \in DOMAIN txQueue' :
           txQueue'[k] = tx \/ (k \in DOMAIN txQueue /\ txQueue'[k] = txQueue[k])
    <3> HIDE DEF tx
    <3>1. txQueue \in Seq(Tx) /\ txQueue' = Append(txQueue, tx)
      BY <1>t, <2>1
    <3> QED BY ONLY <2>2, <3>1, AppendElements
  <2> HIDE DEF tx
  <2>5. /\ Generated \subseteq Generated'
        /\ \A id \in Generated :
              initialAccountSequences'[id[1]] = initialAccountSequences[id[1]]
    BY <1>2, <2>1, PushGenerates, ZenonT(30)
  <2>6. \A k \in DOMAIN txQueue' : RightSeq(txQueue[k])'
    BY <2>3, <2>4, <2>5, KeepsRight, Zenon DEF RightSeq, Id
  <2> QED BY <2>1, <2>5, <2>6, KeepsRight, ZenonT(30) DEF ContentInv
<1>3. ASSUME NEW s \in Signers, SignerTakes(s) PROVE ContentInv'
  <2>1. /\ txQueue # <<>> /\ txQueue' = Tail(txQueue)
        /\ hand' = [hand EXCEPT ![s] = Head(txQueue)]
        /\ signer' = [signer EXCEPT ![s] = "send"]
        /\ UNCHANGED <<initialAccountSequences, request, txSignedQueue, signedTxs>>
    BY <1>3, Zenon DEF SignerTakes, pool, coll
  <2>2. UNCHANGED <<Generated, Filed>>
    BY <2>1, Zenon DEF Generated, Filed
  <2>3. /\ Head(txQueue) \in Tx /\ 1 \in DOMAIN txQueue /\ Head(txQueue) = txQueue[1]
        /\ \A k \in DOMAIN txQueue' : k + 1 \in DOMAIN txQueue /\ txQueue'[k] = txQueue[k + 1]
    BY <1>t, <2>1, TailQueue, SMTT(20) DEF PlaceInv
  <2>4. \A k \in DOMAIN txQueue' : RightSeq(txQueue[k])'
    BY <2>1, <2>2, <2>3, Zenon DEF ContentInv, RightSeq
  <2>5. \A r \in Signers : hand'[r] # Nil <=> signer'[r] = "send"
    BY <1>t, <2>1, <2>3, Zenon DEF ContentInv
  <2>6. \A r \in Busy' : RightSeq(hand[r])'
    BY <1>t, <2>1, <2>2, <2>3, Zenon DEF ContentInv, RightSeq, Busy
  <2> QED BY <2>1, <2>2, <2>4, <2>5, <2>6, ZenonT(30) DEF ContentInv, RightBytes
<1>4. ASSUME NEW s \in Signers, SignerPuts(s) PROVE ContentInv'
  <2>1. /\ txSignedQueue' = Append(txSignedQueue, Signed(hand[s]))
        /\ hand' = [hand EXCEPT ![s] = Nil] /\ signer[s] = "send"
        /\ signer' = [signer EXCEPT ![s] = "recv"]
        /\ UNCHANGED <<initialAccountSequences, request, txQueue, signedTxs>>
    BY <1>4, Zenon DEF SignerPuts, pool, coll
  <2>2. UNCHANGED <<Generated, Filed>>
    BY <2>1, Zenon DEF Generated, Filed
  <2>3. s \in Busy /\ hand[s] \in Tx /\ RightSeq(hand[s])
    BY <1>t, <2>1, Zenon DEF ContentInv, Busy
  <2>4. /\ Signed(hand[s]) \in SignedTx
        /\ RightBytes(Id(Signed(hand[s])), Signed(hand[s]).bytes)
    BY <2>3, Zenon DEF Signed, SignedTx, Tx, Bytes, RightSeq, RightBytes, Id
  <2>5. \A k \in DOMAIN txSignedQueue' :
           \/ txSignedQueue'[k] = Signed(hand[s])
           \/ k \in DOMAIN txSignedQueue /\ txSignedQueue'[k] = txSignedQueue[k]
    <3>1. /\ txSignedQueue \in Seq(SignedTx) /\ Signed(hand[s]) \in SignedTx
          /\ txSignedQueue' = Append(txSignedQueue, Signed(hand[s]))
      BY <1>t, <2>1, <2>4
    <3> QED BY ONLY <3>1, AppendElements
  <2>6. \A k \in DOMAIN txSignedQueue' :
           RightBytes(Id(txSignedQueue[k]), txSignedQueue[k].bytes)'
    BY <2>1, <2>2, <2>4, <2>5, Zenon DEF ContentInv, RightBytes
  <2>7. \A r \in Signers : hand'[r] # Nil <=> signer'[r] = "send"
    BY <1>t, <2>1, Zenon DEF ContentInv
  <2>8. \A r \in Busy' : RightSeq(hand[r])'
    BY <1>t, <2>1, <2>2, ZenonT(30) DEF ContentInv, RightSeq, Busy
  <2> QED BY <2>1, <2>2, <2>6, <2>7, <2>8, ZenonT(30) DEF ContentInv, RightSeq, RightBytes
<1>5. ASSUME NEW s \in Signers, SignerStops(s) PROVE ContentInv'
  <2>1. /\ hand' = [hand EXCEPT ![s] = Nil]
        /\ signer' = [signer EXCEPT ![s] = "returned"]
        /\ UNCHANGED <<initialAccountSequences, request, txQueue, txSignedQueue, signedTxs>>
    BY <1>5, Zenon DEF SignerStops, pool, coll
  <2>2. UNCHANGED <<Generated, Filed>>
    BY <2>1, Zenon DEF Generated, Filed
  <2>3. \A r \in Signers : hand'[r] # Nil <=> signer'[r] = "send"
    BY <1>t, <2>1, Zenon DEF ContentInv
  <2>4. \A r \in Busy' : RightSeq(hand[r])'
    BY <1>t, <2>1, <2>2, Zenon DEF ContentInv, RightSeq, Busy
  <2> QED BY <2>1, <2>2, <2>3, <2>4, Zenon DEF ContentInv, RightSeq, RightBytes
<1>6. CASE CollectTx
  <2>1. /\ txSignedQueue # <<>> /\ txSignedQueue' = Tail(txSignedQueue)
        /\ UNCHANGED <<initialAccountSequences, request, txQueue, sign>>
    BY <1>6, Zenon DEF CollectTx, pool
  <2>2. UNCHANGED <<Generated, Busy, hand, signer>>
    BY <2>1, Zenon DEF Generated, Busy, sign
  <2>3. /\ 1 \in DOMAIN txSignedQueue /\ Head(txSignedQueue) = txSignedQueue[1]
        /\ \A k \in DOMAIN txSignedQueue' :
              k + 1 \in DOMAIN txSignedQueue /\ txSignedQueue'[k] = txSignedQueue[k + 1]
    BY <1>t, <2>1, TailQueue, Zenon DEF PlaceInv
  <2>4. \A k \in DOMAIN txSignedQueue' :
           RightBytes(Id(txSignedQueue[k]), txSignedQueue[k].bytes)'
    <3>1. ASSUME NEW k \in DOMAIN txSignedQueue'
          PROVE  RightBytes(Id(txSignedQueue'[k]), txSignedQueue'[k].bytes)
      BY <2>3, Zenon DEF ContentInv
    <3> QED BY <2>1, <2>2, <3>1, Zenon DEF RightBytes
  <2>5. RightBytes(Id(Head(txSignedQueue)), Head(txSignedQueue).bytes)
    BY <2>3, Zenon DEF ContentInv
  <2>6. Filed \subseteq Accounts \X TxIdxs
    BY Zenon DEF Filed
  <2>7. \A id \in Filed' : RightBytes(id, signedTxs[id[1]][id[2]])'
    BY <1>6, <2>1, <2>2, <2>5, <2>6, CollectFiles, ZenonT(30) DEF ContentInv, RightBytes
  <2> QED BY <2>1, <2>2, <2>4, <2>7, Zenon DEF ContentInv, RightSeq
<1>7. CASE UNCHANGED content
  <2>1. UNCHANGED <<initialAccountSequences, Generated, txQueue, hand, signer, Busy,
                    txSignedQueue, signedTxs, Filed>>
    BY <1>7, Zenon DEF content, sign, Generated, Busy, Filed
  <2> QED BY <2>1, ZenonT(30) DEF ContentInv, RightSeq, RightBytes
<1> QED BY <1>1, <1>2, <1>3, <1>4, <1>5, <1>6, <1>7, ContentSteps

\* A free signer that takes a transaction nobody has, and a signer that lets
\* go of what it has.
LEMMA TakeInHand ==
    ASSUME hand \in [Signers -> Tx \union {Nil}], NEW s \in Signers, hand[s] = Nil,
           NEW tx \in Tx, Id(tx) \notin InHand, hand' = [hand EXCEPT ![s] = tx],
           \A r, t \in Busy : Id(hand[r]) = Id(hand[t]) => r = t
    PROVE  /\ InHand' = InHand \union {Id(tx)}
           /\ \A r, t \in Busy' : Id(hand'[r]) = Id(hand'[t]) => r = t
<1>1. Busy' = Busy \union {s} /\ s \notin Busy /\ hand'[s] = tx
  BY PrepareAssumption, Zenon DEF Busy
<1>2. \A r \in Busy : hand'[r] = hand[r]
  BY <1>1, Zenon DEF Busy
<1> QED BY <1>1, <1>2 DEF InHand

LEMMA LetGo ==
    ASSUME hand \in [Signers -> Tx \union {Nil}], NEW s \in Signers,
           hand' = [hand EXCEPT ![s] = Nil],
           \A r, t \in Busy : Id(hand[r]) = Id(hand[t]) => r = t
    PROVE  /\ InHand' \subseteq InHand
           /\ hand[s] # Nil => Id(hand[s]) \in InHand /\ InHand' = InHand \ {Id(hand[s])}
           /\ \A r, t \in Busy' : Id(hand'[r]) = Id(hand'[t]) => r = t
<1>1. Busy' = Busy \ {s}
  BY Zenon DEF Busy
<1>2. \A r \in Busy' : hand'[r] = hand[r]
  BY <1>1, Zenon DEF Busy
<1>3. hand[s] # Nil => s \in Busy
  BY Zenon DEF Busy
<1> QED BY <1>1, <1>2, <1>3 DEF InHand

LEMMA PlaceNext ==
    TypeOK /\ JobInv /\ ContentInv /\ PlaceInv /\ [Next]_vars => PlaceInv'
<1> SUFFICES ASSUME TypeOK, JobInv, ContentInv, PlaceInv, [Next]_vars PROVE PlaceInv'
  OBVIOUS
<1>p. Nil \notin Tx /\ Nil \notin Bytes
  BY PrepareAssumption
<1> USE <1>p
<1>t. /\ txQueue \in Seq(Tx) /\ txSignedQueue \in Seq(SignedTx)
      /\ hand \in [Signers -> Tx \union {Nil}]
  BY Zenon DEF TypeOK
<1>1. ASSUME NEW a \in Accounts, FetchSequence(a) PROVE PlaceInv'
  <2>1. UNCHANGED <<txQueue, hand, txSignedQueue, Busy, InHand, Filed>>
    BY <1>1, Zenon DEF FetchSequence, coll, sign, Busy, InHand, Filed
  <2> QED BY <2>1, Zenon DEF PlaceInv
<1>2. ASSUME NEW a \in Accounts, PushTx(a) PROVE PlaceInv'
  <2> DEFINE tx == [from |-> a, idx |-> request[a].idx, seq |-> request[a].seq]
  <2>1. /\ UNCHANGED <<hand, txSignedQueue, signedTxs>>
        /\ txQueue' = Append(txQueue, tx) /\ job[a] = "push"
    BY <1>2, Zenon DEF PushTx, coll, sign
  <2>2. tx \in Tx
    BY <1>2, PushedTx
  <2>3. Id(tx) \notin Queued(txQueue) \union InHand \union Queued(txSignedQueue) \union Filed
    BY <1>2, PushGenerates, PlacesGenerated, Zenon DEF Id
  <2> HIDE DEF tx
  <2>4. UNCHANGED <<hand, txSignedQueue, Busy, InHand, Filed>>
    BY <2>1, Zenon DEF Busy, InHand, Filed
  <2>5. NoDuplicates(txQueue') /\ Queued(txQueue') = Queued(txQueue) \union {Id(tx)}
    <3>1. NoDuplicates(txQueue) /\ Id(tx) \notin Queued(txQueue)
      BY <2>3, Zenon DEF PlaceInv
    <3>2. Queued(txQueue') = Queued(txQueue) \union {Id(tx)}
      BY <1>t, <2>1, <2>2, AppendQueued, ZenonT(30)
    <3>3. NoDuplicates(txQueue')
      BY <1>t, <2>1, <2>2, <3>1, AppendDistinct, ZenonT(30)
    <3> QED BY <3>2, <3>3
  <2> QED BY <2>3, <2>4, <2>5, Zenon DEF PlaceInv
<1>3. ASSUME NEW s \in Signers, SignerTakes(s) PROVE PlaceInv'
  <2> DEFINE tx == Head(txQueue)
  <2>1. /\ txQueue # <<>> /\ txQueue' = Tail(txQueue) /\ signer[s] = "recv"
        /\ hand' = [hand EXCEPT ![s] = tx]
        /\ UNCHANGED <<txSignedQueue, signedTxs>>
    BY <1>3, Zenon DEF SignerTakes, coll
  <2>2. /\ tx \in Tx /\ Id(tx) \in Queued(txQueue) /\ NoDuplicates(txQueue')
        /\ Queued(txQueue') = Queued(txQueue) \ {Id(tx)}
    BY <1>t, <2>1, TailQueue, Zenon DEF PlaceInv
  <2> HIDE DEF tx
  <2>3. hand[s] = Nil
    BY <2>1, Zenon DEF ContentInv
  <2>4. /\ InHand' = InHand \union {Id(tx)}
        /\ \A r, t \in Busy' : Id(hand'[r]) = Id(hand'[t]) => r = t
    BY <1>t, <2>1, <2>2, <2>3, TakeInHand, ZenonT(30) DEF PlaceInv
  <2>5. UNCHANGED <<txSignedQueue, Filed>>
    BY <2>1, Zenon DEF Filed
  <2>6. Queued(txQueue') \intersect InHand' = {}
    BY <2>2, <2>4, Zenon DEF PlaceInv
  <2>7. Queued(txQueue') \intersect Queued(txSignedQueue) = {} /\ Queued(txQueue') \intersect Filed = {}
    BY <2>2, Zenon DEF PlaceInv
  <2>8. Id(tx) \notin Queued(txSignedQueue) /\ Id(tx) \notin Filed
    BY <2>2, Zenon DEF PlaceInv
  <2>9. InHand' \intersect Queued(txSignedQueue) = {}
    BY <2>4, <2>8, Zenon DEF PlaceInv
  <2>10. InHand' \intersect Filed = {}
    BY <2>4, <2>8, Zenon DEF PlaceInv
  <2> QED BY <2>2, <2>4, <2>5, <2>6, <2>7, <2>9, <2>10, Zenon DEF PlaceInv
<1>4. ASSUME NEW s \in Signers, SignerPuts(s) PROVE PlaceInv'
  <2> DEFINE id == Id(hand[s])
  <2>1. /\ txSignedQueue' = Append(txSignedQueue, Signed(hand[s]))
        /\ hand' = [hand EXCEPT ![s] = Nil] /\ signer[s] = "send"
        /\ UNCHANGED <<txQueue, signedTxs>>
    BY <1>4, Zenon DEF SignerPuts, coll
  <2>2. hand[s] # Nil /\ hand[s] \in Tx
    BY <1>t, <2>1, Zenon DEF ContentInv
  <2>3. Signed(hand[s]) \in SignedTx /\ Id(Signed(hand[s])) = id
    BY <2>2, Zenon DEF Signed, SignedTx, Tx, Bytes, Id
  <2>4. /\ id \in InHand /\ InHand' = InHand \ {id}
        /\ \A r, t \in Busy' : Id(hand'[r]) = Id(hand'[t]) => r = t
    BY <1>t, <2>1, <2>2, LetGo, ZenonT(30) DEF PlaceInv
  <2> HIDE DEF id
  <2>5. /\ NoDuplicates(txSignedQueue')
        /\ Queued(txSignedQueue') = Queued(txSignedQueue) \union {id}
    <3>1. NoDuplicates(txSignedQueue) /\ Id(Signed(hand[s])) \notin Queued(txSignedQueue)
      BY <2>3, <2>4, ZenonT(30) DEF PlaceInv
    <3>2. Queued(txSignedQueue') = Queued(txSignedQueue) \union {Id(Signed(hand[s]))}
      BY <1>t, <2>1, <2>3, AppendQueued, ZenonT(30)
    <3>3. NoDuplicates(txSignedQueue')
      BY <1>t, <2>1, <2>3, <3>1, AppendDistinct, ZenonT(30)
    <3> QED BY <2>3, <3>2, <3>3
  <2>6. UNCHANGED <<txQueue, Filed>>
    BY <2>1, Zenon DEF Filed
  <2>7. InHand' \intersect Queued(txSignedQueue') = {}
    BY <2>4, <2>5, Zenon DEF PlaceInv
  <2>8. Queued(txQueue) \intersect InHand' = {} /\ InHand' \intersect Filed = {}
    BY <2>4, Zenon DEF PlaceInv
  <2>9. Queued(txQueue) \intersect Queued(txSignedQueue') = {} /\ Queued(txSignedQueue') \intersect Filed = {}
    BY <2>4, <2>5 DEF PlaceInv
  <2> QED BY <2>4, <2>5, <2>6, <2>7, <2>8, <2>9, Zenon DEF PlaceInv
<1>5. ASSUME NEW s \in Signers, SignerStops(s) PROVE PlaceInv'
  <2>1. /\ hand' = [hand EXCEPT ![s] = Nil]
        /\ UNCHANGED <<txQueue, txSignedQueue, signedTxs>>
    BY <1>5, Zenon DEF SignerStops, coll
  <2>2. /\ InHand' \subseteq InHand
        /\ \A r, t \in Busy' : Id(hand'[r]) = Id(hand'[t]) => r = t
    BY <1>t, <2>1, LetGo, ZenonT(30) DEF PlaceInv
  <2>3. UNCHANGED <<txQueue, txSignedQueue, Filed>>
    BY <2>1, Zenon DEF Filed
  <2> QED BY <2>2, <2>3, Zenon DEF PlaceInv
<1>6. CASE CollectTx
  <2> DEFINE id == Id(Head(txSignedQueue))
  <2>1. /\ txSignedQueue # <<>> /\ txSignedQueue' = Tail(txSignedQueue)
        /\ UNCHANGED <<txQueue, hand>>
    BY <1>6, Zenon DEF CollectTx, sign
  <2>2. /\ id \in Queued(txSignedQueue) /\ NoDuplicates(txSignedQueue')
        /\ Queued(txSignedQueue') = Queued(txSignedQueue) \ {id}
    BY <1>t, <2>1, TailQueue, Zenon DEF PlaceInv
  <2>3. Filed' = Filed \union {id}
    BY <1>6, CollectFiles
  <2> HIDE DEF id
  <2>4. UNCHANGED <<txQueue, hand, Busy, InHand>>
    BY <2>1, Zenon DEF Busy, InHand
  <2>5. Queued(txSignedQueue') \intersect Filed' = {}
    BY <2>2, <2>3, Zenon DEF PlaceInv
  <2>6. Queued(txQueue) \intersect Queued(txSignedQueue') = {} /\ InHand \intersect Queued(txSignedQueue') = {}
    BY <2>2, Zenon DEF PlaceInv
  <2>7. Queued(txQueue) \intersect Filed' = {} /\ InHand \intersect Filed' = {}
    BY <2>2, <2>3, Zenon DEF PlaceInv
  <2> QED BY <2>2, <2>4, <2>5, <2>6, <2>7, Zenon DEF PlaceInv
<1>7. CASE UNCHANGED content
  <2>1. UNCHANGED <<txQueue, hand, txSignedQueue, Busy, InHand, Filed>>
    BY <1>7, Zenon DEF content, sign, Busy, InHand, Filed
  <2> QED BY <2>1, Zenon DEF PlaceInv
<1> QED BY <1>1, <1>2, <1>3, <1>4, <1>5, <1>6, <1>7, ContentSteps

-----------------------------------------------------------------------------
(***************************************************************************)
(* collect's count and the end of the group's context.                     *)
(***************************************************************************)

\* There are Expected slots, so a count of Expected means every slot is full.
LEMMA SlotCount ==
    /\ IsFiniteSet(Accounts \X TxIdxs)
    /\ Cardinality(Accounts \X TxIdxs) = Expected
    /\ Filed \subseteq Accounts \X TxIdxs
    /\ IsFiniteSet(Filed)
    /\ Cardinality(Filed) = Expected => Filed = Accounts \X TxIdxs
<1>1. IsFiniteSet(Accounts) /\ Cardinality(Accounts) = NumAccounts
  BY FS_Interval, PrepareAssumption DEF Accounts
<1>2. IsFiniteSet(TxIdxs) /\ Cardinality(TxIdxs) = NumTx
  BY FS_Interval, PrepareAssumption DEF TxIdxs
<1>3. /\ IsFiniteSet(Accounts \X TxIdxs)
      /\ Cardinality(Accounts \X TxIdxs) = Expected
  BY <1>1, <1>2, FS_Product, Zenon DEF Expected
<1>4. Filed \subseteq Accounts \X TxIdxs
  BY Zenon DEF Filed
<1>5. /\ IsFiniteSet(Filed)
      /\ Cardinality(Filed) = Cardinality(Accounts \X TxIdxs) => Filed = Accounts \X TxIdxs
  BY <1>3, <1>4, FS_Subset
<1> QED BY <1>3, <1>4, <1>5

\* Receiving a transaction fills a slot that was empty.
LEMMA CollectCounts ==
    ASSUME TypeOK, PlaceInv, CollectTx
    PROVE  Cardinality(Filed') = Cardinality(Filed) + 1
<1> DEFINE id == Id(Head(txSignedQueue))
<1>1. id \in Queued(txSignedQueue)
  BY TailQueue, ZenonT(30) DEF TypeOK, PlaceInv, CollectTx
<1>2. Filed' = Filed \union {id} /\ id \notin Filed
  BY <1>1, CollectFiles, ZenonT(30) DEF PlaceInv
<1> HIDE DEF id
<1> QED BY <1>2, SlotCount, FS_AddElement

LEMMA GroupNext ==
    TypeOK /\ PlaceInv /\ GroupInv /\ [Next]_vars => GroupInv'
<1> SUFFICES ASSUME TypeOK, PlaceInv, GroupInv, [Next]_vars PROVE GroupInv'
  OBVIOUS
<1>t. /\ received \in Nat /\ verdict \in {"open", "nil", "error"} /\ Expected' = Expected
      /\ rootDone \in BOOLEAN /\ ctxDone \in BOOLEAN
  BY Zenon DEF TypeOK, Expected
<1>1. CASE CollectTx
  <2>1. /\ received' = received + 1 /\ received # Expected
        /\ UNCHANGED <<verdict, ctxDone, rootDone, phase, generate>>
    BY <1>1, <1>t DEF CollectTx, group, pool
  <2>2. received' = Cardinality(Filed)'
    BY <1>1, <2>1, CollectCounts, Zenon DEF GroupInv
  <2>3. verdict' # "nil" /\ (ctxDone' => rootDone')
    BY <2>1, Zenon DEF GroupInv
  <2> QED BY <2>1, <2>2, <2>3, Zenon DEF GroupInv
<1>2. CASE CollectReturns
  <2>1. UNCHANGED <<received, Filed, phase, generate>> /\ received = Expected
    BY <1>2, Zenon DEF CollectReturns, pool, Filed
  <2>2. phase = "broadcast" => verdict' = "nil"
    BY <1>2, Zenon DEF CollectReturns, CloseGroup, GroupInv
  <2> QED BY <1>t, <2>1, <2>2, Zenon DEF GroupInv
<1>3. CASE CollectStops \/ \E s \in Signers : SignerStops(s)
  <2>1. /\ UNCHANGED <<received, Filed, phase, generate, rootDone>> /\ ctxDone
        /\ verdict' = IF verdict = "open" THEN "error" ELSE verdict
    BY <1>3, Zenon DEF CollectStops, SignerStops, CloseGroup, pool, coll, Filed
  <2> QED BY <1>t, <2>1, Zenon DEF GroupInv
<1>4. CASE Interrupt
  <2>1. UNCHANGED <<received, Filed, phase, generate, verdict>> /\ rootDone'
    BY <1>4, Zenon DEF Interrupt, pool, coll, Filed
  <2> QED BY <1>t, <2>1, Zenon DEF GroupInv
<1>5. CASE GroupReturns
  <2>1. /\ UNCHANGED <<received, Filed, verdict, rootDone, ctxDone>>
        /\ generate' = "returned" /\ (phase' = "broadcast" => verdict = "nil")
    BY <1>5, Zenon DEF GroupReturns, group, coll, pool, Filed
  <2> QED BY <1>t, <2>1, Zenon DEF GroupInv
<1>6. CASE (phase = "prepare" /\ UNCHANGED <<received, signedTxs, verdict, ctxDone, rootDone, phase>>)
           \/ UNCHANGED vars
  <2>1. /\ UNCHANGED <<received, Filed, verdict, ctxDone, rootDone, phase>>
        /\ phase = "broadcast" => generate' = generate
    BY <1>6, Zenon DEF Filed, vars, coll, group, pool
  <2> QED BY <1>t, <2>1, Zenon DEF GroupInv
<1>7. \/ CollectTx \/ CollectReturns \/ CollectStops \/ (\E s \in Signers : SignerStops(s))
      \/ Interrupt \/ GroupReturns
      \/ (phase = "prepare" /\ UNCHANGED <<received, signedTxs, verdict, ctxDone, rootDone, phase>>)
      \/ UNCHANGED vars
  BY ZenonT(30) DEF Next, Running, Generate, Worker, Signer, Collect, InitialTxsBroadcast, InitialTxsFail,
         LateInclusion, StartJob, FetchSequence, FetchFails, PushTx, GenerateFails, ContextEnded,
         GenerateReturns, SignerTakes, SignerPuts, SignFails, Die, coll, group
<1> QED BY <1>1, <1>2, <1>3, <1>4, <1>5, <1>6, <1>7

\* When collect has counted every transaction, all jobs are finished and no
\* signer has anything in hand.
LEMMA AllDone ==
    ASSUME TypeOK, JobInv, ContentInv, PlaceInv, GroupInv, received = Expected, NumTx > 0
    PROVE  /\ \A a \in Accounts : job[a] = "finished"
           /\ Busy = {}
<1>1. Filed = Accounts \X TxIdxs
  BY SlotCount, Zenon DEF GroupInv
<1>2. ASSUME NEW a \in Accounts PROVE job[a] = "finished"
  <2>1. <<a, NumTx - 1>> \in Filed
    BY <1>1, PrepareAssumption DEF TxIdxs
  <2>2. NumTx - 1 < request[a].idx
    BY <2>1, PlacesGenerated, Zenon DEF Generated
  <2>3. request[a].idx \in 0..NumTx /\ job[a] \in {"queued", "fetch", "push", "finished"}
    BY Zenon DEF TypeOK
  <2>4. NumTx \in Nat
    BY PrepareAssumption
  <2>5. request[a].idx = NumTx
    BY <2>2, <2>3, <2>4
  <2> QED BY <2>3, <2>4, <2>5 DEF JobInv
<1>3. ASSUME NEW s \in Busy PROVE FALSE
  <2>1. hand[s] \in Tx
    BY Zenon DEF Busy, TypeOK
  <2>2. Id(hand[s]) \in InHand /\ Id(hand[s]) \in Filed
    BY <1>1, <2>1, Zenon DEF InHand, Id, Tx
  <2> QED BY <2>2, Zenon DEF PlaceInv
<1> QED BY <1>2, <1>3

LEMMA NoPrematureNext ==
    PrepareInv /\ [Next]_vars => NoPrematureEnd'
<1> SUFFICES ASSUME PrepareInv, [Next]_vars, exit' = "context", NumTx > 0 PROVE rootDone'
  BY Zenon DEF NoPrematureEnd
<1> USE DEF PrepareInv
<1>1. CASE exit = "context"
  <2>1. rootDone /\ ~Running
    BY <1>1, Zenon DEF NoPrematureEnd, Running
  <2> QED BY <2>1, ZenonT(30) DEF Next, vars, group
<1>2. CASE exit # "context"
  <2>1. /\ ctxDone /\ UNCHANGED rootDone
        /\ \/ generate = "initial"
           \/ \E a \in Accounts : job[a] \in {"fetch", "push"}
           \/ \E s \in Signers : signer[s] = "send"
    BY <1>2, ZenonT(30) DEF Next, vars, Generate, Worker, Signer, Collect, InitialTxsBroadcast,
         InitialTxsFail, LateInclusion, StartJob, FetchSequence, FetchFails, PushTx,
         GenerateFails, ContextEnded, GenerateReturns, SignerTakes, SignerPuts, SignFails,
         SignerStops, CollectTx, CollectReturns, CollectStops, Interrupt, GroupReturns,
         Die, group
  <2>2. SUFFICES ASSUME received = Expected PROVE FALSE
    BY <2>1, Zenon DEF GroupInv
  <2>3. (\A a \in Accounts : job[a] = "finished") /\ Busy = {}
    BY <2>2, AllDone
  <2>4. 0 \in Accounts
    BY PrepareAssumption DEF Accounts
  <2>5. generate # "initial"
    BY <2>3, <2>4, ZenonT(30) DEF JobInv
  <2>6. \A s \in Signers : signer[s] # "send"
    BY <2>3, ZenonT(30) DEF ContentInv, Busy
  <2> QED BY <2>1, <2>3, <2>5, <2>6
<1> QED BY <1>1, <1>2

LEMMA InvInit == Init => PrepareInv
<1> SUFFICES ASSUME Init PROVE PrepareInv
  OBVIOUS
<1> USE PrepareAssumption
<1>1. TypeOK
  BY TypeInit
<1>2. JobInv
  BY Zenon DEF Init, JobInv
<1>3. Busy = {} /\ InHand = {} /\ Filed = {} /\ Queued(txQueue) = {} /\ Queued(txSignedQueue) = {}
  <2>1. Busy = {}
    BY Zenon DEF Init, Busy
  <2>2. Filed = {}
    BY Zenon DEF Init, Filed
  <2>3. DOMAIN txQueue = {} /\ DOMAIN txSignedQueue = {}
    BY DEF Init
  <2> QED BY <2>1, <2>2, <2>3, ZenonT(30) DEF InHand, Queued
<1>4. ContentInv
  <2>1. \A s \in Signers : hand[s] = Nil /\ signer[s] = "recv"
    BY Zenon DEF Init
  <2>2. DOMAIN txQueue = {} /\ DOMAIN txSignedQueue = {}
    BY DEF Init
  <2> QED BY <1>3, <2>1, <2>2, ZenonT(30) DEF ContentInv
<1>5. PlaceInv
  <2>1. DOMAIN txQueue = {} /\ DOMAIN txSignedQueue = {}
    BY DEF Init
  <2> QED BY <1>3, <2>1, Zenon DEF PlaceInv, NoDuplicates
<1>6. GroupInv
  BY <1>3, FS_EmptySet, Zenon DEF Init, GroupInv
<1>7. NoPrematureEnd
  BY Zenon DEF Init, NoPrematureEnd
<1> QED BY <1>1, <1>2, <1>4, <1>5, <1>6, <1>7, Zenon DEF PrepareInv

\* The invariant is inductive.
LEMMA InvNext == PrepareInv /\ [Next]_vars => PrepareInv'
BY TypeNext, JobNext, ContentNext, PlaceNext, GroupNext, NoPrematureNext, Zenon DEF PrepareInv

-----------------------------------------------------------------------------
(***************************************************************************)
(* The theorems.                                                           *)
(***************************************************************************)

\* PrepareInv holds in every state the preparation phase of Stress
\* (stresser.go:193-364) can reach.
THEOREM PrepareInvariant == Spec => []PrepareInv
<1>1. Init => PrepareInv
  BY InvInit
<1>2. PrepareInv /\ [Next]_vars => PrepareInv'
  BY InvNext
<1> QED BY <1>1, <1>2, PTL DEF Spec

\* The variables of the preparation phase keep their types; in particular no
\* job's TxIdx runs past NumTx (stresser.go:304-322).
THEOREM TypeCorrect == Spec => []TypeOK
<1>1. PrepareInv => TypeOK
  BY Zenon DEF PrepareInv
<1> QED BY <1>1, PrepareInvariant, PTL

\* Whatever the interleaving of workers, signers and collect, the broadcast
\* phase (stresser.go:395-408) is handed a full table in which slot i of an
\* account holds its transaction for sequence number initial + i.
THEOREM PreparedTxsCorrect == Spec => []PreparedTxs
<1>1. ASSUME PrepareInv PROVE PreparedTxs
  <2> SUFFICES ASSUME phase = "broadcast", NEW a \in Accounts
               PROVE  /\ initialAccountSequences[a] <= chainSeq[a]
                      /\ \A i \in TxIdxs : signedTxs[a][i] = <<a, initialAccountSequences[a] + i>>
    BY Zenon DEF PreparedTxs
  <2>1. received = Expected /\ generate = "returned"
    BY <1>1, Zenon DEF PrepareInv, GroupInv
  <2>2. Filed = Accounts \X TxIdxs
    BY <1>1, <2>1, SlotCount, Zenon DEF PrepareInv, GroupInv
  <2>3. initialAccountSequences[a] <= chainSeq[a]
    BY <1>1, <2>1, Zenon DEF PrepareInv, JobInv
  <2>4. ASSUME NEW i \in TxIdxs PROVE signedTxs[a][i] = <<a, initialAccountSequences[a] + i>>
    <3>1. <<a, i>> \in Filed
      BY <2>2
    <3> QED BY <1>1, <3>1, Zenon DEF PrepareInv, ContentInv, RightBytes
  <2> QED BY <2>3, <2>4
<1> QED BY <1>1, PrepareInvariant, PTL

\* With at least one transaction per account, collect's parallel.Exit
\* (stresser.go:330-358) never makes a worker die of "Context ended
\* prematurely" (stresser.go:311-317): only the caller's cancellation does.
THEOREM NoPrematureEndCorrect == Spec => []NoPrematureEnd
<1>1. PrepareInv => NoPrematureEnd
  BY Zenon DEF PrepareInv
<1> QED BY <1>1, PrepareInvariant, PTL

\* collect (stresser.go:336-354) never writes a slot it has written before.
THEOREM FiledOnceCorrect == Spec => FiledOnce
<1> DEFINE KeepsFiled ==
              \A a \in Accounts : \A i \in TxIdxs :
                 signedTxs[a][i] # Nil => signedTxs'[a][i] = signedTxs[a][i]
<1>1. ASSUME PrepareInv, [Next]_vars PROVE [KeepsFiled]_signedTxs
  <2>1. CASE CollectTx
    <3>1. Id(Head(txSignedQueue)) \in Queued(txSignedQueue)
      BY <1>1, <2>1, TailQueue, ZenonT(30) DEF PrepareInv, TypeOK, PlaceInv, CollectTx
    <3>2. Id(Head(txSignedQueue)) \notin Filed
      BY <1>1, <3>1, Zenon DEF PrepareInv, PlaceInv
    <3>3. ASSUME NEW a \in Accounts, NEW i \in TxIdxs, signedTxs[a][i] # Nil
          PROVE  signedTxs'[a][i] = signedTxs[a][i]
      <4>1. <<a, i>> \in Filed /\ <<a, i>> \in Accounts \X TxIdxs
        BY <3>3, Zenon DEF Filed
      <4>2. <<a, i>> # Id(Head(txSignedQueue))
        BY <3>2, <4>1
      <4>3. TypeOK
        BY <1>1, Zenon DEF PrepareInv
      <4> QED BY <2>1, <4>1, <4>2, <4>3, CollectFiles
    <3> QED BY <3>3
  <2>2. CASE ~CollectTx
    <3>1. UNCHANGED signedTxs
      BY <1>1, <2>2, ZenonT(30) DEF Next, vars, Generate, Worker, Signer, Collect, InitialTxsBroadcast,
         InitialTxsFail, LateInclusion, StartJob, FetchSequence, FetchFails, PushTx,
         GenerateFails, ContextEnded, GenerateReturns, SignerTakes, SignerPuts, SignFails,
         SignerStops, CollectReturns, CollectStops, Interrupt, GroupReturns, Die, coll
    <3> QED BY <3>1
  <2> QED BY <2>1, <2>2
<1> QED BY <1>1, PrepareInvariant, PTL DEF Spec, FiledOnce

\* What is generated, and the signers that work on something, are finite sets.
LEMMA FinitePlaces == IsFiniteSet(Generated) /\ IsFiniteSet(Busy)
<1>1. Generated \subseteq Accounts \X TxIdxs
  BY Zenon DEF Generated
<1>2. IsFiniteSet(Signers) /\ Busy \subseteq Signers
  BY FS_Interval, PrepareAssumption DEF Signers, Busy
<1> QED BY <1>1, <1>2, SlotCount, FS_Subset

\* One step neither drops nor duplicates a transaction.
LEMMA NoTxLostNext == PrepareInv /\ NoTxLost /\ [Next]_vars => NoTxLost'
<1> SUFFICES ASSUME PrepareInv, NoTxLost, [Next]_vars, ~ctxDone' PROVE NoTxLost'
  BY Zenon DEF NoTxLost
<1>p. Nil \notin Tx /\ Nil \notin Bytes
  BY PrepareAssumption
<1> USE <1>p
<1>i. TypeOK /\ JobInv /\ ContentInv /\ PlaceInv
  BY Zenon DEF PrepareInv
<1>t. /\ txQueue \in Seq(Tx) /\ txSignedQueue \in Seq(SignedTx) /\ received \in Nat
      /\ hand \in [Signers -> Tx \union {Nil}]
  BY <1>i, Zenon DEF TypeOK
<1>c. ~ctxDone
  BY ZenonT(30) DEF Next, vars, Generate, Worker, Signer, Collect, InitialTxsBroadcast, InitialTxsFail,
         LateInclusion, StartJob, FetchSequence, FetchFails, PushTx, GenerateFails,
         ContextEnded, GenerateReturns, SignerTakes, SignerPuts, SignFails, SignerStops,
         CollectTx, CollectReturns, CollectStops, Interrupt, GroupReturns, CloseGroup, Die, group
<1>n. Generated = Queued(txQueue) \union InHand \union Queued(txSignedQueue) \union Filed
  BY <1>c, Zenon DEF NoTxLost
<1>m. Cardinality(Generated) = Len(txQueue) + Cardinality(Busy) + Len(txSignedQueue) + received
  BY <1>c, Zenon DEF NoTxLost
<1>f. /\ Cardinality(Busy) \in Nat /\ received \in Nat
      /\ Len(txQueue) \in Nat /\ Len(txSignedQueue) \in Nat
  BY <1>t, FinitePlaces, FS_CardinalityType
<1>1. ASSUME NEW a \in Accounts, FetchSequence(a) PROVE NoTxLost'
  <2>1. UNCHANGED <<txQueue, txSignedQueue, received, Generated, Busy, InHand, Filed>>
    BY <1>i, <1>1, FetchGenerates, ZenonT(30) DEF FetchSequence, coll, sign, Busy, InHand, Filed
  <2> QED BY <1>n, <1>m, <2>1, Zenon DEF NoTxLost
<1>2. ASSUME NEW a \in Accounts, PushTx(a) PROVE NoTxLost'
  <2> DEFINE tx == [from |-> a, idx |-> request[a].idx, seq |-> request[a].seq]
  <2>1. /\ UNCHANGED <<hand, txSignedQueue, signedTxs, received>>
        /\ txQueue' = Append(txQueue, tx) /\ job[a] = "push"
    BY <1>2, Zenon DEF PushTx, coll, sign
  <2>2. tx \in Tx
    BY <1>i, <1>2, PushedTx, ZenonT(30)
  <2>3. Id(tx) \notin Generated /\ Generated' = Generated \union {Id(tx)}
    BY <1>i, <1>2, PushGenerates, Zenon DEF Id
  <2> HIDE DEF tx
  <2>4. UNCHANGED <<txSignedQueue, received, Busy, InHand, Filed>>
    BY <2>1, Zenon DEF Busy, InHand, Filed
  <2>5. /\ Queued(txQueue') = Queued(txQueue) \union {Id(tx)}
        /\ Len(txQueue') = Len(txQueue) + 1
    <3>1. Queued(txQueue') = Queued(txQueue) \union {Id(tx)}
      BY <1>t, <2>1, <2>2, AppendQueued, ZenonT(30)
    <3>2. Len(txQueue') = Len(txQueue) + 1
      <4>1. txQueue \in Seq(Tx) /\ txQueue' = Append(txQueue, tx)
        BY <1>t, <2>1
      <4> QED BY ONLY <2>2, <4>1, AppendLen
    <3> QED BY <3>1, <3>2
  <2>6. Cardinality(Generated') = Cardinality(Generated) + 1
    BY <2>3, FinitePlaces, FS_AddElement, ZenonT(30)
  <2>7. Generated' = Queued(txQueue') \union InHand' \union Queued(txSignedQueue') \union Filed'
    BY <1>n, <2>3, <2>4, <2>5
  <2>8. Cardinality(Generated') = Len(txQueue') + Cardinality(Busy') + Len(txSignedQueue') + received'
    BY <1>m, <1>f, <2>4, <2>5, <2>6
  <2> QED BY <2>7, <2>8, Zenon DEF NoTxLost
<1>3. ASSUME NEW s \in Signers, SignerTakes(s) PROVE NoTxLost'
  <2> DEFINE tx == Head(txQueue)
  <2>1. /\ txQueue # <<>> /\ txQueue' = Tail(txQueue) /\ signer[s] = "recv"
        /\ hand' = [hand EXCEPT ![s] = tx]
        /\ UNCHANGED <<request, txSignedQueue, received, signedTxs>>
    BY <1>3, Zenon DEF SignerTakes, coll, pool
  <2>2. /\ tx \in Tx /\ Id(tx) \in Queued(txQueue)
        /\ Queued(txQueue') = Queued(txQueue) \ {Id(tx)}
    BY <1>i, <1>t, <2>1, TailQueue, Zenon DEF PlaceInv
  <2>3. Len(txQueue') = Len(txQueue) - 1
    BY <1>t, <2>1
  <2> HIDE DEF tx
  <2>4. hand[s] = Nil
    BY <1>i, <2>1, Zenon DEF ContentInv
  <2>5. InHand' = InHand \union {Id(tx)}
    BY <1>i, <1>t, <2>1, <2>2, <2>4, TakeInHand, ZenonT(30) DEF PlaceInv
  <2>6. Busy' = Busy \union {s} /\ s \notin Busy
    BY <1>t, <2>1, <2>2, <2>4, Zenon DEF Busy
  <2>7. Cardinality(Busy') = Cardinality(Busy) + 1
    BY <2>6, FinitePlaces, FS_AddElement, ZenonT(30)
  <2>8. UNCHANGED <<txSignedQueue, received, Generated, Filed>>
    BY <2>1, Zenon DEF Generated, Filed
  <2>9. Generated' = Queued(txQueue') \union InHand' \union Queued(txSignedQueue') \union Filed'
    BY <1>n, <2>2, <2>5, <2>8
  <2>10. Cardinality(Generated') = Len(txQueue') + Cardinality(Busy') + Len(txSignedQueue') + received'
    BY <1>m, <1>f, <2>3, <2>7, <2>8
  <2> QED BY <2>9, <2>10, Zenon DEF NoTxLost
<1>4. ASSUME NEW s \in Signers, SignerPuts(s) PROVE NoTxLost'
  <2> DEFINE id == Id(hand[s])
  <2>1. /\ txSignedQueue' = Append(txSignedQueue, Signed(hand[s]))
        /\ hand' = [hand EXCEPT ![s] = Nil] /\ signer[s] = "send"
        /\ UNCHANGED <<request, txQueue, received, signedTxs>>
    BY <1>4, Zenon DEF SignerPuts, coll, pool
  <2>2. hand[s] # Nil /\ hand[s] \in Tx
    BY <1>i, <1>t, <2>1, Zenon DEF ContentInv
  <2>3. Signed(hand[s]) \in SignedTx /\ Id(Signed(hand[s])) = id
    BY <2>2, Zenon DEF Signed, SignedTx, Tx, Bytes, Id
  <2>4. id \in InHand /\ InHand' = InHand \ {id}
    BY <1>i, <1>t, <2>1, <2>2, LetGo, ZenonT(30) DEF PlaceInv
  <2> HIDE DEF id
  <2>5. Queued(txSignedQueue') = Queued(txSignedQueue) \union {id}
    <3>1. Queued(txSignedQueue') = Queued(txSignedQueue) \union {Id(Signed(hand[s]))}
      BY <1>t, <2>1, <2>3, AppendQueued, ZenonT(30)
    <3> QED BY <2>3, <3>1
  <2>6. Len(txSignedQueue') = Len(txSignedQueue) + 1
    <3>1. /\ txSignedQueue \in Seq(SignedTx) /\ Signed(hand[s]) \in SignedTx
          /\ txSignedQueue' = Append(txSignedQueue, Signed(hand[s]))
      BY <1>t, <2>1, <2>3
    <3> QED BY ONLY <3>1, AppendLen
  <2>7. Busy' = Busy \ {s} /\ s \in Busy
    BY <1>t, <2>1, <2>2, Zenon DEF Busy
  <2>8. Cardinality(Busy') = Cardinality(Busy) - 1
    BY <2>7, FinitePlaces, FS_RemoveElement, ZenonT(30)
  <2>9. UNCHANGED <<txQueue, received, Generated, Filed>>
    BY <2>1, Zenon DEF Generated, Filed
  <2>10. Generated' = Queued(txQueue') \union InHand' \union Queued(txSignedQueue') \union Filed'
    BY <1>n, <2>4, <2>5, <2>9
  <2>11. Cardinality(Generated') = Len(txQueue') + Cardinality(Busy') + Len(txSignedQueue') + received'
    <3>1. /\ Len(txQueue') = Len(txQueue) /\ received' = received
          /\ Cardinality(Generated') = Cardinality(Generated)
      BY <2>9
    <3>2. PICK q \in Nat, b \in Nat, n \in Nat, c \in Nat :
             q = Len(txQueue) /\ b = Cardinality(Busy) /\ n = Len(txSignedQueue) /\ c = received
      BY ONLY <1>f, Zenon
    <3>3. q + b + n + c = q + (b - 1) + (n + 1) + c
      BY ONLY SMT
    <3> QED BY ONLY <1>m, <2>6, <2>8, <3>1, <3>2, <3>3, Zenon
  <2> QED BY <2>10, <2>11, Zenon DEF NoTxLost
<1>5. ASSUME NEW s \in Signers, SignerStops(s) PROVE NoTxLost'
  BY <1>c, <1>5, Zenon DEF SignerStops
<1>6. CASE CollectTx
  <2> DEFINE id == Id(Head(txSignedQueue))
  <2>1. /\ txSignedQueue # <<>> /\ txSignedQueue' = Tail(txSignedQueue)
        /\ received' = received + 1
        /\ UNCHANGED <<request, txQueue, hand>>
    BY <1>6, Zenon DEF CollectTx, sign, pool
  <2>2. /\ id \in Queued(txSignedQueue)
        /\ Queued(txSignedQueue') = Queued(txSignedQueue) \ {id}
    BY <1>i, <1>t, <2>1, TailQueue, Zenon DEF PlaceInv
  <2>3. Filed' = Filed \union {id}
    BY <1>i, <1>6, CollectFiles
  <2> HIDE DEF id
  <2>4. Len(txSignedQueue') = Len(txSignedQueue) - 1
    BY <1>t, <2>1
  <2>5. UNCHANGED <<txQueue, Generated, Busy, InHand>>
    BY <2>1, Zenon DEF Generated, Busy, InHand
  <2>6. Generated' = Queued(txQueue') \union InHand' \union Queued(txSignedQueue') \union Filed'
    BY <1>n, <2>2, <2>3, <2>5
  <2>7. Cardinality(Generated') = Len(txQueue') + Cardinality(Busy') + Len(txSignedQueue') + received'
    BY <1>m, <1>f, <2>1, <2>4, <2>5
  <2> QED BY <2>6, <2>7, Zenon DEF NoTxLost
<1>7. CASE UNCHANGED content /\ UNCHANGED received
  <2>1. UNCHANGED <<txQueue, txSignedQueue, received, Generated, Busy, InHand, Filed>>
    BY <1>7, Zenon DEF content, sign, Generated, Busy, InHand, Filed
  <2> QED BY <1>n, <1>m, <2>1, Zenon DEF NoTxLost
<1>8. CollectTx \/ UNCHANGED received
  BY ZenonT(30) DEF Next, vars, Generate, Worker, Signer, Collect, InitialTxsBroadcast, InitialTxsFail,
         LateInclusion, StartJob, FetchSequence, FetchFails, PushTx, GenerateFails,
         ContextEnded, GenerateReturns, SignerTakes, SignerPuts, SignFails, SignerStops,
         CollectReturns, CollectStops, Interrupt, GroupReturns, Die, coll
<1> QED BY <1>1, <1>2, <1>3, <1>4, <1>5, <1>6, <1>7, <1>8, ContentSteps

\* Until the context is cancelled, every transaction a worker generated is in
\* exactly one of txQueue, a signer's hand, txSignedQueue and signedTxs
\* (stresser.go:198-358), for any number of goroutines and any queue capacity.
THEOREM NoTxLostCorrect == Spec => []NoTxLost
<1>1. Init => NoTxLost
  <2> SUFFICES ASSUME Init PROVE NoTxLost
    OBVIOUS
  <2>1. Busy = {} /\ Filed = {} /\ Generated = {}
    <3>1. Busy = {} /\ Filed = {}
      BY Zenon DEF Init, Busy, Filed
    <3>2. TxIdxs \subseteq Nat
      BY PrepareAssumption DEF TxIdxs
    <3>3. \A a \in Accounts : request[a].idx = 0
      BY Zenon DEF Init
    <3>4. ASSUME NEW id \in Accounts \X TxIdxs PROVE ~(id[2] < request[id[1]].idx)
      <4>1. id[1] \in Accounts /\ id[2] \in Nat
        BY <3>2, ZenonT(30)
      <4>2. request[id[1]].idx = 0
        BY <3>3, <4>1
      <4> QED BY <4>1, <4>2
    <3>5. Generated = {}
      BY <3>4, Zenon DEF Generated
    <3> QED BY <3>1, <3>5
  <2>2. txQueue = <<>> /\ txSignedQueue = <<>> /\ received = 0
    BY Zenon DEF Init
  <2>3. Queued(txQueue) = {} /\ Queued(txSignedQueue) = {} /\ InHand = {}
    BY <2>1, <2>2 DEF Queued, InHand
  <2> QED BY <2>1, <2>2, <2>3, FS_EmptySet DEF NoTxLost
<1>2. PrepareInv /\ NoTxLost /\ [Next]_vars => NoTxLost'
  BY NoTxLostNext
<1> QED BY <1>1, <1>2, PrepareInvariant, PTL DEF Spec
=============================================================================
