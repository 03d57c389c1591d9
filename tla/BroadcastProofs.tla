--------------------------- MODULE BroadcastProofs ---------------------------
(***************************************************************************)
(* Proofs about the broadcast phase, for every number of accounts and      *)
(* transactions, with and without AwaitTxConfirmation, and for a node that *)
(* loses transactions and takes foreign ones any number of times.          *)
(***************************************************************************)
EXTENDS Broadcast, TLAPS

AccountInv(a) == NodeInv(a) /\ ClientInv(a) /\ AwaitInv(a)

\* What TypeOK says of one account.
LEMMA AccountTypes ==
    ASSUME TypeOK, NEW a \in Accounts
    PROVE  /\ txIndex[a] \in Int
           /\ pc[a] \in {"loop", "send", "await", "done", "failed"}
           /\ committed[a] \in Nat /\ check[a] \in Nat
           /\ pool[a] \subseteq TxIdxs /\ cache[a] \subseteq TxIdxs
           /\ accepted[a] \subseteq TxIdxs
           /\ \A i \in TxIdxs : result[a][i].code \in Code /\ result[a][i].expected \in Nat
           /\ InitialSequence[a] \in Nat /\ StartSequence[a] \in Nat
           /\ NumTx \in Nat /\ TxIdxs \subseteq Int /\ Await \in BOOLEAN
BY BroadcastAssumption DEF TypeOK, TxIdxs

\* Slot k against a sequence number n, and against the next one.
LEMMA SeqNext ==
    ASSUME NEW a \in Accounts, NEW n \in Nat, NEW k \in TxIdxs
    PROVE  /\ SeqOf(a, k) \in Int
           /\ SeqOf(a, k) < n + 1 <=> SeqOf(a, k) < n \/ k = IndexOf(a, n)
           /\ n + 1 <= SeqOf(a, k) <=> n <= SeqOf(a, k) /\ k # IndexOf(a, n)
           /\ SeqOf(a, k) = n <=> k = IndexOf(a, n)
<1>1. InitialSequence[a] \in Nat /\ k \in Int
  BY BroadcastAssumption DEF TxIdxs
<1> QED BY <1>1 DEF SeqOf, IndexOf

LEMMA TypeInit == Init => TypeOK
<1> SUFFICES ASSUME Init PROVE TypeOK
  OBVIOUS
<1> USE BroadcastAssumption DEF Init
<1>1. foreign \in [Accounts -> SUBSET Int]
  BY DEF IndexOf
<1>2. result \in [Accounts -> [TxIdxs -> [code : Code, expected : Nat]]]
  BY Zenon DEF NoResult, Code
<1>3. /\ pool \in [Accounts -> SUBSET TxIdxs]
      /\ cache \in [Accounts -> SUBSET TxIdxs]
      /\ accepted \in [Accounts -> SUBSET TxIdxs]
  OBVIOUS
<1>4. /\ txIndex \in [Accounts -> Int]
      /\ pc \in [Accounts -> {"loop", "send", "await", "done", "failed"}]
      /\ committed \in [Accounts -> Nat] /\ check \in [Accounts -> Nat]
  OBVIOUS
<1>5. ctxDone \in BOOLEAN /\ outcome \in {"running", "done", "failed", "panic"}
  BY ZenonT(30)
<1>6. others \in 0..MaxForeign /\ drops \in [Accounts -> 0..MaxDrops]
  OBVIOUS
<1> QED BY <1>1, <1>2, <1>3, <1>4, <1>5, <1>6, Zenon DEF TypeOK

\* Going on after a transaction, or waiting for its block, keeps the types.
LEMMA SentType ==
    ASSUME TypeOK, NEW a \in Accounts, Sent(a)
    PROVE  /\ txIndex' \in [Accounts -> Int]
           /\ pc' \in [Accounts -> {"loop", "send", "await", "done", "failed"}]
           /\ ctxDone' \in BOOLEAN /\ UNCHANGED outcome
<1>1. /\ txIndex \in [Accounts -> Int]
      /\ pc \in [Accounts -> {"loop", "send", "await", "done", "failed"}]
      /\ ctxDone \in BOOLEAN
  BY Zenon DEF TypeOK
<1>2. UNCHANGED <<ctxDone, outcome>>
  BY Zenon DEF Sent
<1>3. \/ UNCHANGED txIndex /\ pc' = [pc EXCEPT ![a] = "await"]
      \/ pc' = [pc EXCEPT ![a] = "loop"] /\ txIndex' = [txIndex EXCEPT ![a] = @ + 1]
  BY Zenon DEF Sent
<1> QED BY <1>1, <1>2, <1>3

\* The steps of one account goroutine keep the types.
LEMMA AccountType ==
    ASSUME TypeOK, NEW a \in Accounts, ClientInv(a), NodeInv(a), Account(a)
    PROVE  TypeOK'
<1> USE BroadcastAssumption DEF TypeOK
<1>1. CASE SendTx(a) \/ AccountDone(a) \/ IndexPanics(a)
  BY <1>1, ZenonT(30) DEF SendTx, AccountDone, IndexPanics, blocks, memory, history
<1>2. CASE ContextEnded(a) \/ SendFails(a) \/ AwaitFailed(a) \/ AwaitTimesOut(a)
  BY <1>2, ZenonT(30) DEF ContextEnded, SendFails, AwaitFailed, AwaitTimesOut, ReturnError,
              blocks, memory, history
<1>3. CASE TxAccepted(a) \/ AnswerLost(a)
  <2>1. txIndex[a] \in TxIdxs /\ CheckTxPasses(a)
    BY <1>3, Zenon DEF ClientInv, TxAccepted, AnswerLost
  <2>2. /\ check' \in [Accounts -> Nat]
        /\ pool' \in [Accounts -> SUBSET TxIdxs]
        /\ cache' \in [Accounts -> SUBSET TxIdxs]
        /\ accepted' \in [Accounts -> SUBSET TxIdxs]
        /\ UNCHANGED <<committed, result, foreign, others, drops>>
    BY <2>1 DEF CheckTxPasses, blocks
  <2>3. /\ txIndex' \in [Accounts -> Int]
        /\ pc' \in [Accounts -> {"loop", "send", "await", "done", "failed"}]
        /\ ctxDone' \in BOOLEAN /\ UNCHANGED outcome
    <3>1. CASE Sent(a)
      BY <3>1, SentType, Zenon
    <3>2. CASE ReturnError(a)
      BY <3>2, Zenon DEF ReturnError
    <3> QED BY <1>3, <3>1, <3>2, Zenon DEF TxAccepted, AnswerLost
  <2> QED BY <2>2, <2>3
<1>4. CASE TxInCache(a)
  <2>1. UNCHANGED <<ctxDone, outcome, blocks, memory, history>>
    BY <1>4, Zenon DEF TxInCache, Sent
  <2>2. /\ txIndex' \in [Accounts -> Int]
        /\ pc' \in [Accounts -> {"loop", "send", "await", "done", "failed"}]
    BY <1>4, SentType, Zenon DEF TxInCache
  <2> QED BY <2>1, <2>2, Zenon DEF blocks, memory, history
<1>5. CASE WrongSequence(a)
  BY <1>5 DEF WrongSequence, FollowSequence, IndexOf, blocks, memory, history
<1>6. CASE AwaitOk(a)
  BY <1>6 DEF AwaitOk, blocks, memory, history
<1>7. CASE AwaitWrongSequence(a)
  <2>1. ResultOf(a).expected \in Nat
    BY <1>7, AccountTypes, Zenon DEF AwaitWrongSequence, ClientInv, ResultOf
  <2> QED BY <1>7, <2>1 DEF AwaitWrongSequence, FollowSequence, IndexOf, blocks, memory, history
<1> QED BY <1>1, <1>2, <1>3, <1>4, <1>5, <1>6, <1>7, Zenon DEF Account, Progress

\* So do the steps of the node.
LEMMA NodeType ==
    ASSUME TypeOK, NEW a \in Accounts, ClientInv(a), NodeInv(a), Node(a)
    PROVE  TypeOK'
<1> USE BroadcastAssumption DEF TypeOK
<1>1. CASE Execute(a)
  <2> DEFINE i == IndexOf(a, committed[a])
  <2>1. /\ committed' \in [Accounts -> Nat]
        /\ UNCHANGED <<client, check, history>>
    BY <1>1 DEF Execute
  <2>2. CASE i \in pool[a]
    <3>1. PICK code \in {"ok", "failed"} :
             /\ result' = [result EXCEPT ![a][i] = [code |-> code, expected |-> 0]]
             /\ pool' = [pool EXCEPT ![a] = @ \ {i}]
             /\ cache' = IF code = "ok" THEN cache ELSE [cache EXCEPT ![a] = @ \ {i}]
      BY <1>1, <2>2, Zenon DEF Execute
    <3>2. [code |-> code, expected |-> 0] \in [code : Code, expected : Nat]
      BY Zenon DEF Code
    <3>3. result' \in [Accounts -> [TxIdxs -> [code : Code, expected : Nat]]]
      BY <3>1, <3>2, ZenonT(30)
    <3> QED BY <2>1, <3>1, <3>3, Zenon DEF client, history
  <2>3. CASE i \notin pool[a]
    BY <1>1, <2>1, <2>3, Zenon DEF Execute, client, history
  <2> QED BY <2>2, <2>3
<1>2. CASE ForeignTx(a)
  BY <1>2 DEF ForeignTx, IndexOf, client, blocks
<1>3. CASE ForeignBlock(a)
  <2> DEFINE i == IndexOf(a, committed[a])
  <2>1. /\ others' \in 0..MaxForeign
        /\ committed' \in [Accounts -> Nat] /\ check' \in [Accounts -> Nat]
        /\ foreign' \in [Accounts -> SUBSET Int]
        /\ pool' \in [Accounts -> SUBSET TxIdxs] /\ cache' \in [Accounts -> SUBSET TxIdxs]
        /\ UNCHANGED <<client, accepted, drops>>
    BY <1>3 DEF ForeignBlock, IndexOf
  <2>2. result' \in [Accounts -> [TxIdxs -> [code : Code, expected : Nat]]]
    <3>1. [code |-> "sequence", expected |-> committed[a] + 1] \in [code : Code, expected : Nat]
      BY DEF Code
    <3>2. CASE UNCHANGED result
      BY <3>2
    <3>3. CASE result' = [result EXCEPT ![a][i] =
                            [code |-> "sequence", expected |-> committed[a] + 1]]
      BY <3>1, <3>3, ZenonT(30)
    <3> QED BY <1>3, <3>2, <3>3, Zenon DEF ForeignBlock
  <2> QED BY <2>1, <2>2, Zenon DEF client
<1>4. CASE RecheckDrops(a)
  BY <1>4 DEF RecheckDrops, client, blocks
<1>5. CASE CacheForgets(a)
  BY <1>5 DEF CacheForgets, client, blocks, history
<1> QED BY <1>1, <1>2, <1>3, <1>4, <1>5, Zenon DEF Node
-----------------------------------------------------------------------------
(***************************************************************************)
(* What a step does to the account it is about, and to the others.         *)
(***************************************************************************)
node(a) == <<committed[a], check[a], pool[a], cache[a], result[a], accepted[a], foreign[a]>>

LEMMA SameAccount ==
    ASSUME NEW b \in Accounts, AccountInv(b), UNCHANGED <<txIndex[b], pc[b], node(b)>>
    PROVE  AccountInv(b)'
BY Zenon DEF AccountInv, NodeInv, ClientInv, AwaitInv, Confirmed, SeqOf, Behind, node

\* The node's part depends on the node only.
LEMMA SameNode ==
    ASSUME NEW a \in Accounts, NodeInv(a), UNCHANGED node(a)
    PROVE  NodeInv(a)'
BY Zenon DEF NodeInv, SeqOf, node

LEMMA OtherAccounts ==
    ASSUME TypeOK, NEW a \in Accounts, NEW b \in Accounts, b # a, Account(a) \/ Node(a)
    PROVE  UNCHANGED <<txIndex[b], pc[b], node(b)>>
<1>t. /\ txIndex \in [Accounts -> Int]
      /\ pc \in [Accounts -> {"loop", "send", "await", "done", "failed"}]
      /\ committed \in [Accounts -> Nat] /\ check \in [Accounts -> Nat]
      /\ pool \in [Accounts -> SUBSET TxIdxs] /\ cache \in [Accounts -> SUBSET TxIdxs]
      /\ result \in [Accounts -> [TxIdxs -> [code : Code, expected : Nat]]]
      /\ accepted \in [Accounts -> SUBSET TxIdxs] /\ foreign \in [Accounts -> SUBSET Int]
  BY Zenon DEF TypeOK
<1>1. CASE Account(a)
  <2>1. UNCHANGED <<txIndex[b], pc[b]>>
    BY <1>t, <1>1, Zenon DEF Account, Progress, SendTx, AccountDone, IndexPanics, ContextEnded, TxAccepted,
         TxInCache, WrongSequence, AwaitOk, AwaitWrongSequence, AwaitFailed, AwaitTimesOut,
         SendFails, AnswerLost, ReturnError, Sent, FollowSequence
  <2>2. UNCHANGED <<committed, result, foreign>>
    BY <1>1, Zenon DEF Account, Progress, SendTx, AccountDone, IndexPanics, ContextEnded, TxAccepted,
         TxInCache, WrongSequence, AwaitOk, AwaitWrongSequence, AwaitFailed, AwaitTimesOut,
         SendFails, AnswerLost, CheckTxPasses, blocks, history
  <2>3. UNCHANGED <<check[b], pool[b], cache[b], accepted[b]>>
    BY <1>t, <1>1, Zenon DEF Account, Progress, SendTx, AccountDone, IndexPanics, ContextEnded, TxAccepted,
         TxInCache, WrongSequence, AwaitOk, AwaitWrongSequence, AwaitFailed, AwaitTimesOut,
         SendFails, AnswerLost, CheckTxPasses, memory, history
  <2> QED BY <2>1, <2>2, <2>3, Zenon DEF node
<1>2. CASE Node(a)
  <2>1. UNCHANGED <<txIndex, pc, accepted>>
    BY <1>2, Zenon DEF Node, Execute, ForeignTx, ForeignBlock, RecheckDrops, CacheForgets, client, history
  <2>2. UNCHANGED <<committed[b], check[b], foreign[b]>>
    BY <1>t, <1>2, Zenon DEF Node, Execute, ForeignTx, ForeignBlock, RecheckDrops, CacheForgets,
         blocks, history
  <2>3. UNCHANGED <<pool[b], cache[b], result[b]>>
    <3>1. CASE Execute(a)
      BY <1>t, <3>1, Zenon DEF Execute
    <3>2. CASE ForeignTx(a)
      BY <3>2, Zenon DEF ForeignTx, blocks
    <3>3. CASE ForeignBlock(a)
      BY <1>t, <3>3, Zenon DEF ForeignBlock
    <3>4. CASE RecheckDrops(a)
      BY <1>t, <3>4, Zenon DEF RecheckDrops, blocks
    <3>5. CASE CacheForgets(a)
      BY <1>t, <3>5, Zenon DEF CacheForgets, blocks
    <3> QED BY <1>2, <3>1, <3>2, <3>3, <3>4, <3>5, Zenon DEF Node
  <2> QED BY <2>1, <2>2, <2>3, ZenonT(30) DEF node
<1> QED BY <1>1, <1>2

\* A goroutine that failed has nothing left to keep.
LEMMA FailedAccount ==
    ASSUME TypeOK, NEW a \in Accounts, AccountInv(a), NodeInv(a)',
           pc'[a] = "failed", UNCHANGED txIndex[a],
           accepted[a] \subseteq accepted'[a], foreign[a] \subseteq foreign'[a]
    PROVE  AccountInv(a)'
BY Zenon DEF AccountInv, ClientInv, AwaitInv, Behind

\* One that moves on to a later index, all before it in order.
LEMMA MovedAccount ==
    ASSUME TypeOK, NEW a \in Accounts, AccountInv(a), NodeInv(a)', pc'[a] = "loop",
           txIndex'[a] < 0 => Behind(a),
           UNCHANGED <<committed[a], result[a], foreign[a], accepted[a], pool[a], check[a]>>,
           Await => pool[a] = {},
           \A i \in TxIdxs : i < txIndex'[a] => i \in accepted[a] \union foreign[a],
           Await => pc[a] # "failed" /\ (pc[a] = "await" => Confirmed(a, txIndex[a])),
           Await => \A i \in TxIdxs : i < txIndex'[a] => Confirmed(a, i)
    PROVE  AccountInv(a)'
BY Zenon DEF AccountInv, ClientInv, AwaitInv, Behind, Confirmed, SeqOf

\* The mempool takes in the next transaction of the account: one more is
\* accepted, and it is in the mempool.
LEMMA TakenIn ==
    ASSUME TypeOK, NEW a \in Accounts, AccountInv(a), txIndex[a] \in TxIdxs, CheckTxPasses(a)
    PROVE  /\ NodeInv(a)'
           /\ accepted'[a] = accepted[a] \union {txIndex[a]}
           /\ pool'[a] = pool[a] \union {txIndex[a]}
           /\ check'[a] = check[a] + 1 /\ SeqOf(a, txIndex[a]) = check[a]
           /\ UNCHANGED <<committed[a], result[a], foreign[a]>>
<1>t. /\ check \in [Accounts -> Nat] /\ pool \in [Accounts -> SUBSET TxIdxs]
      /\ cache \in [Accounts -> SUBSET TxIdxs] /\ accepted \in [Accounts -> SUBSET TxIdxs]
  BY Zenon DEF TypeOK
<1>1. /\ accepted'[a] = accepted[a] \union {txIndex[a]}
      /\ pool'[a] = pool[a] \union {txIndex[a]}
      /\ cache'[a] = cache[a] \union {txIndex[a]}
      /\ check'[a] = check[a] + 1 /\ SeqOf(a, txIndex[a]) = check[a]
      /\ UNCHANGED <<committed[a], result[a], foreign[a]>>
  BY <1>t, Zenon DEF CheckTxPasses, blocks
<1>2. NodeInv(a)'
  <2>1. check[a] \in Nat /\ committed[a] \in Nat /\ InitialSequence[a] \in Nat
    BY AccountTypes
  <2>2. \A i \in TxIdxs : SeqOf(a, i) < check[a] + 1 => SeqOf(a, i) < check[a] \/ i = txIndex[a]
    BY <1>1, <2>1, SeqNext
  <2>3. NodeInv(a)
    BY Zenon DEF AccountInv
  <2>4. committed'[a] <= check'[a] /\ StartSequence[a] <= committed'[a]
    <3>1. committed[a] <= check[a] /\ StartSequence[a] <= committed[a]
      BY <2>3, Zenon DEF NodeInv
    <3>2. committed[a] <= check[a] + 1
      BY ONLY <2>1, <3>1
    <3>3. committed'[a] = committed[a] /\ check'[a] = check[a] + 1
      BY <1>1
    <3> QED BY ONLY <3>1, <3>2, <3>3, Zenon
  <2>5. \A i \in pool'[a] : committed'[a] <= SeqOf(a, i) /\ SeqOf(a, i) < check'[a]
    <3>1. \A i \in pool[a] : SeqOf(a, i) \in Int
      BY <2>1, AccountTypes, SMTT(20) DEF SeqOf
    <3> QED BY <1>1, <2>1, <2>3, <3>1 DEF NodeInv
  <2>6. \A i \in TxIdxs : SeqOf(a, i) < check'[a] => i \in accepted'[a] \union foreign'[a]
    BY <1>1, <2>2, <2>3, Zenon DEF NodeInv
  <2>7. cache'[a] \subseteq accepted'[a]
    BY <1>1, <2>3, Zenon DEF NodeInv
  <2> QED BY <1>1, <2>3, <2>4, <2>5, <2>6, <2>7, Zenon DEF NodeInv, SeqOf
<1> QED BY <1>1, <1>2

LEMMA AccountStep ==
    ASSUME TypeOK, NEW a \in Accounts, AccountInv(a), Account(a)
    PROVE  AccountInv(a)'
<1>t. /\ txIndex \in [Accounts -> Int]
      /\ pc \in [Accounts -> {"loop", "send", "await", "done", "failed"}]
  BY Zenon DEF TypeOK
<1>a. /\ NumTx \in Nat /\ txIndex[a] \in Int /\ \A i \in TxIdxs : i \in Int
      /\ InitialSequence[a] \in Nat /\ check[a] \in Nat /\ committed[a] \in Nat
  BY AccountTypes
<1>i. NodeInv(a) /\ ClientInv(a) /\ AwaitInv(a)
  BY Zenon DEF AccountInv
<1>1. CASE SendTx(a) \/ AccountDone(a)
  <2>1. /\ UNCHANGED <<txIndex[a], node(a)>> /\ pc[a] = "loop"
        /\ \/ pc'[a] = "send" /\ txIndex[a] \in TxIdxs
           \/ pc'[a] = "done" /\ txIndex[a] >= NumTx
    BY <1>1, <1>t, Zenon DEF SendTx, AccountDone, node, blocks, memory, history
  <2>2. NodeInv(a)'
    BY <1>i, <2>1, SameNode
  <2>3. ClientInv(a)'
    BY <1>i, <2>1, Zenon DEF ClientInv, node, Behind
  <2>4. AwaitInv(a)'
    BY <1>i, <2>1, Zenon DEF AwaitInv, node, Confirmed, SeqOf
  <2> QED BY <2>2, <2>3, <2>4, Zenon DEF AccountInv
<1>2. CASE IndexPanics(a)
  <2>1. UNCHANGED <<txIndex[a], pc[a], node(a)>>
    BY <1>2, Zenon DEF IndexPanics, node, blocks, memory, history
  <2> QED BY <2>1, SameAccount
<1>3. CASE ContextEnded(a) \/ SendFails(a) \/ AwaitFailed(a) \/ AwaitTimesOut(a)
  <2>1. UNCHANGED <<txIndex[a], node(a)>> /\ pc'[a] = "failed"
    BY <1>3, <1>t, Zenon DEF ContextEnded, SendFails, AwaitFailed, AwaitTimesOut, ReturnError, node,
                      blocks, memory, history
  <2>2. NodeInv(a)'
    BY <1>i, <2>1, SameNode
  <2> QED BY <2>1, <2>2, FailedAccount, Zenon DEF node
<1>4. CASE AnswerLost(a)
  <2>1. UNCHANGED txIndex[a] /\ pc'[a] = "failed" /\ CheckTxPasses(a) /\ txIndex[a] \in TxIdxs
    BY <1>4, <1>t, <1>i, Zenon DEF AnswerLost, ReturnError, ClientInv
  <2> QED BY <2>1, TakenIn, FailedAccount
<1>5. CASE TxAccepted(a)
  <2>1. pc[a] = "send" /\ CheckTxPasses(a) /\ txIndex[a] \in TxIdxs /\ Sent(a)
    BY <1>5, <1>i, Zenon DEF TxAccepted, ClientInv
  <2>2. /\ NodeInv(a)'
        /\ accepted'[a] = accepted[a] \union {txIndex[a]}
        /\ pool'[a] = pool[a] \union {txIndex[a]}
        /\ check'[a] = check[a] + 1 /\ SeqOf(a, txIndex[a]) = check[a]
        /\ UNCHANGED <<committed[a], result[a], foreign[a]>>
    BY <2>1, TakenIn
  <2>3. CASE Await
    <3>1. UNCHANGED txIndex[a] /\ pc'[a] = "await"
      BY <1>t, <2>1, <2>3, Zenon DEF Sent
    <3>2. ClientInv(a)'
      BY <1>i, <2>1, <2>2, <2>3, <3>1, Zenon DEF ClientInv, Behind
    <3>3. \A i \in TxIdxs : SeqOf(a, i) < check[a] + 1 => SeqOf(a, i) < check[a] \/ i = txIndex[a]
      BY <1>a, <2>1, <2>2, SeqNext, SMTT(20)
    <3>4. AwaitInv(a)'
      BY <1>i, <2>1, <2>2, <2>3, <3>1, <3>3, Zenon DEF AwaitInv, Confirmed, SeqOf
    <3> QED BY <2>2, <3>2, <3>4, Zenon DEF AccountInv
  <2>4. CASE ~Await
    <3>1. txIndex'[a] = txIndex[a] + 1 /\ pc'[a] = "loop"
      <4>1. txIndex' = [txIndex EXCEPT ![a] = @ + 1] /\ pc' = [pc EXCEPT ![a] = "loop"]
        BY <2>1, <2>4, Zenon DEF Sent
      <4> QED BY <1>t, <4>1
    <3>2. ClientInv(a)'
      <4>1. \A i \in TxIdxs : i < txIndex[a] + 1 => i < txIndex[a] \/ i = txIndex[a]
        BY <1>a
      <4>2. txIndex[a] + 1 < 0 => txIndex[a] < 0
        BY <1>a
      <4> QED BY <1>i, <2>2, <3>1, <4>1, <4>2, Zenon DEF ClientInv, Behind
    <3> QED BY <2>2, <2>4, <3>2, Zenon DEF AccountInv, AwaitInv
  <2> QED BY <2>3, <2>4
<1>6. CASE TxInCache(a)
  <2>1. /\ UNCHANGED node(a) /\ pc[a] = "send" /\ Sent(a)
        /\ txIndex[a] \in TxIdxs /\ txIndex[a] \in accepted[a]
    BY <1>6, <1>i, Zenon DEF TxInCache, ClientInv, NodeInv, node, blocks, memory, history
  <2>2. NodeInv(a)'
    BY <1>i, <2>1, SameNode
  <2>3. CASE Await
    <3>1. UNCHANGED txIndex[a] /\ pc'[a] = "await"
      BY <1>t, <2>1, <2>3, Zenon DEF Sent
    <3>2. ClientInv(a)'
      BY <1>i, <2>1, <2>3, <3>1, ZenonT(30) DEF ClientInv, Behind, node
    <3>3. AwaitInv(a)'
      BY <1>i, <2>1, <2>3, <3>1, Zenon DEF AwaitInv, Confirmed, SeqOf, node
    <3> QED BY <2>2, <3>2, <3>3, Zenon DEF AccountInv
  <2>4. CASE ~Await
    <3>1. txIndex'[a] = txIndex[a] + 1 /\ pc'[a] = "loop"
      <4>1. txIndex' = [txIndex EXCEPT ![a] = @ + 1] /\ pc' = [pc EXCEPT ![a] = "loop"]
        BY <2>1, <2>4, Zenon DEF Sent
      <4> QED BY <1>t, <4>1
    <3>2. ClientInv(a)'
      <4>1. \A i \in TxIdxs : i < txIndex[a] + 1 => i < txIndex[a] \/ i = txIndex[a]
        BY <1>a
      <4>2. txIndex[a] + 1 < 0 => txIndex[a] < 0
        BY <1>a
      <4> QED BY <1>i, <2>1, <3>1, <4>1, <4>2, Zenon DEF ClientInv, Behind, node
    <3> QED BY <2>2, <2>4, <3>2, Zenon DEF AccountInv, AwaitInv
  <2> QED BY <2>3, <2>4
<1>7. CASE WrongSequence(a)
  <2>1. /\ UNCHANGED node(a) /\ pc[a] = "send" /\ pc'[a] = "loop"
        /\ txIndex'[a] = check[a] - InitialSequence[a]
    BY <1>7, <1>t, Zenon DEF WrongSequence, FollowSequence, IndexOf, node, blocks, memory, history
  <2>2. NodeInv(a)'
    BY <1>i, <2>1, SameNode
  <2>3. txIndex'[a] < 0 => Behind(a)
    <3>1. StartSequence[a] <= committed[a] /\ committed[a] <= check[a]
      BY <1>i, Zenon DEF NodeInv
    <3>2. StartSequence[a] \in Nat
      BY AccountTypes
    <3> QED BY <1>a, <2>1, <3>1, <3>2 DEF Behind
  <2>4. \A i \in TxIdxs : i < txIndex'[a] => SeqOf(a, i) < check[a]
    BY <1>a, <2>1 DEF SeqOf
  <2>5. \A i \in TxIdxs : SeqOf(a, i) < committed[a] \/ committed[a] <= SeqOf(a, i)
    BY <1>a DEF SeqOf
  <2>6. ASSUME Await PROVE pool[a] = {} /\ \A i \in TxIdxs : i < txIndex'[a] => Confirmed(a, i)
    BY <1>i, <2>1, <2>4, <2>5, <2>6, ZenonT(30) DEF AwaitInv, Confirmed
  <2>7. \A i \in TxIdxs : i < txIndex'[a] => i \in accepted[a] \union foreign[a]
    BY <1>i, <2>4, Zenon DEF NodeInv
  <2> QED BY <2>1, <2>2, <2>3, <2>6, <2>7, MovedAccount, Zenon DEF node
<1>8. CASE AwaitOk(a)
  <2>1. /\ UNCHANGED node(a) /\ pc[a] = "await" /\ pc'[a] = "loop"
        /\ txIndex'[a] = txIndex[a] + 1 /\ result[a][txIndex[a]].code = "ok"
    BY <1>8, <1>t, Zenon DEF AwaitOk, ResultOf, node, blocks, memory, history
  <2>2. NodeInv(a)'
    BY <1>i, <2>1, SameNode
  <2>3. Await /\ txIndex[a] \in TxIdxs /\ txIndex[a] \in accepted[a] /\ Confirmed(a, txIndex[a])
    BY <1>i, <2>1, Zenon DEF ClientInv, Confirmed
  <2>4. \A i \in TxIdxs : i < txIndex'[a] => i < txIndex[a] \/ i = txIndex[a]
    BY <1>a, <2>1
  <2>5. txIndex'[a] < 0 => txIndex[a] < 0
    BY <1>a, <2>1
  <2>6. txIndex[a] \notin pool[a]
    <3>1. SeqOf(a, txIndex[a]) < committed[a]
      BY <1>i, <2>1, <2>3, Zenon DEF NodeInv
    <3>2. txIndex[a] \in pool[a] => committed[a] <= SeqOf(a, txIndex[a])
      BY <1>i, Zenon DEF NodeInv
    <3> QED BY <1>a, <2>3, <3>1, <3>2, SeqNext
  <2>7. pool[a] = {}
    BY <1>i, <2>1, <2>3, <2>6, Zenon DEF AwaitInv
  <2>8. \A i \in TxIdxs : i < txIndex'[a] => Confirmed(a, i) /\ i \in accepted[a] \union foreign[a]
    BY <1>i, <2>1, <2>3, <2>4, Zenon DEF AwaitInv, ClientInv
  <2>9. txIndex'[a] < 0 => Behind(a)
    BY <1>i, <2>5, Zenon DEF ClientInv
  <2> QED BY <2>1, <2>2, <2>3, <2>7, <2>8, <2>9, MovedAccount, ZenonT(30) DEF node
<1>9. CASE AwaitWrongSequence(a)
  <2> DEFINE expected == result[a][txIndex[a]].expected
  <2>1. /\ UNCHANGED node(a) /\ pc[a] = "await" /\ pc'[a] = "loop"
        /\ txIndex'[a] = expected - InitialSequence[a]
        /\ result[a][txIndex[a]].code = "sequence"
    BY <1>9, <1>t, Zenon DEF AwaitWrongSequence, FollowSequence, IndexOf, ResultOf, node,
                      blocks, memory, history
  <2>2. NodeInv(a)'
    BY <1>i, <2>1, SameNode, ZenonT(30)
  <2>3. Await /\ txIndex[a] \in TxIdxs
    BY <1>i, <2>1, Zenon DEF ClientInv
  <2>4. /\ txIndex[a] \in foreign[a] /\ StartSequence[a] <= expected /\ expected <= committed[a]
        /\ committed[a] <= check[a] /\ Confirmed(a, txIndex[a])
    BY <1>i, <2>1, <2>3, Zenon DEF NodeInv, Confirmed
  <2>5. expected \in Nat /\ StartSequence[a] \in Nat /\ committed[a] \in Nat
    BY <2>3, AccountTypes
  <2> HIDE DEF expected
  <2>6. txIndex'[a] < 0 => Behind(a)
    BY <1>a, <2>1, <2>4, <2>5 DEF Behind
  <2>7. \A i \in TxIdxs : i < txIndex'[a] => SeqOf(a, i) < committed[a] /\ SeqOf(a, i) < check[a]
    BY <1>a, <2>1, <2>4, <2>5 DEF SeqOf
  <2>8. txIndex[a] \notin pool[a]
    <3>1. SeqOf(a, txIndex[a]) < committed[a]
      BY <1>i, <2>1, <2>3, Zenon DEF NodeInv
    <3>2. txIndex[a] \in pool[a] => committed[a] <= SeqOf(a, txIndex[a])
      BY <1>i, Zenon DEF NodeInv
    <3> QED BY <2>3, <2>5, <3>1, <3>2, SeqNext
  <2>9. pool[a] = {}
    BY <1>i, <2>1, <2>3, <2>8, Zenon DEF AwaitInv
  <2>10. \A i \in TxIdxs : i < txIndex'[a] => Confirmed(a, i)
    BY <1>i, <2>1, <2>3, <2>4, <2>7, Zenon DEF AwaitInv
  <2>11. \A i \in TxIdxs : i < txIndex'[a] => i \in accepted[a] \union foreign[a]
    BY <1>i, <2>7, Zenon DEF NodeInv
  <2> QED BY <2>1, <2>2, <2>4, <2>6, <2>9, <2>10, <2>11, MovedAccount, ZenonT(30) DEF node
<1> QED BY <1>1, <1>2, <1>3, <1>4, <1>5, <1>6, <1>7, <1>8, <1>9, Zenon DEF Account, Progress

\* An account whose goroutine stands still while the node moves on.
LEMMA StillClient ==
    ASSUME TypeOK, NEW a \in Accounts, AccountInv(a),
           UNCHANGED <<txIndex[a], pc[a], accepted[a]>>, foreign[a] \subseteq foreign'[a]
    PROVE  ClientInv(a)'
BY Zenon DEF AccountInv, ClientInv, Behind

LEMMA ExecuteStep ==
    ASSUME TypeOK, NEW a \in Accounts, AccountInv(a), Execute(a)
    PROVE  AccountInv(a)'
<1> DEFINE i == IndexOf(a, committed[a])
<1>t. /\ committed \in [Accounts -> Nat] /\ pool \in [Accounts -> SUBSET TxIdxs]
      /\ cache \in [Accounts -> SUBSET TxIdxs]
      /\ result \in [Accounts -> [TxIdxs -> [code : Code, expected : Nat]]]
  BY Zenon DEF TypeOK
<1>a. /\ committed[a] \in Nat /\ check[a] \in Nat /\ InitialSequence[a] \in Nat
      /\ StartSequence[a] \in Nat /\ pool[a] \subseteq TxIdxs /\ \A k \in TxIdxs : k \in Int
  BY AccountTypes
<1>i. NodeInv(a) /\ AwaitInv(a)
  BY Zenon DEF AccountInv
<1>1. /\ committed[a] < check[a] /\ committed'[a] = committed[a] + 1
      /\ UNCHANGED <<txIndex[a], pc[a], check[a], accepted[a], foreign[a]>>
  BY <1>t, Zenon DEF Execute, client, history
<1>2. ClientInv(a)'
  BY <1>1, StillClient
<1>3. \A k \in TxIdxs : SeqOf(a, k) < committed[a] + 1 <=> SeqOf(a, k) < committed[a] \/ k = i
  BY <1>a, SeqNext
<1>4. \A k \in TxIdxs : committed[a] + 1 <= SeqOf(a, k) <=> committed[a] <= SeqOf(a, k) /\ k # i
  BY <1>a, SeqNext
<1>5. i \in TxIdxs => committed[a] <= SeqOf(a, i) /\ SeqOf(a, i) < check[a]
  BY <1>a, <1>1 DEF SeqOf, IndexOf
<1>6. committed'[a] <= check[a] /\ StartSequence[a] <= committed'[a]
  <2>1. StartSequence[a] <= committed[a]
    BY <1>i, Zenon DEF NodeInv
  <2> QED BY <1>a, <1>1, <2>1
<1>7. /\ pool'[a] = pool[a] \ {i} /\ cache'[a] \subseteq cache[a]
      /\ \A k \in TxIdxs : k # i => result'[a][k] = result[a][k]
      /\ IF i \in pool[a] THEN result'[a][i].code \in {"ok", "failed"}
                          ELSE UNCHANGED result[a]
  <2>1. CASE i \in pool[a]
    <3>1. PICK code \in {"ok", "failed"} :
             /\ result' = [result EXCEPT ![a][i] = [code |-> code, expected |-> 0]]
             /\ pool' = [pool EXCEPT ![a] = @ \ {i}]
             /\ cache' = IF code = "ok" THEN cache ELSE [cache EXCEPT ![a] = @ \ {i}]
      BY <2>1, Zenon DEF Execute
    <3>2. i \in TxIdxs
      BY <1>a, <2>1
    <3> HIDE DEF i
    <3>3. cache'[a] \subseteq cache[a]
      BY <1>t, <3>1
    <3>4. pool'[a] = pool[a] \ {i}
      BY <1>t, <3>1
    <3>5. /\ \A k \in TxIdxs : k # i => result'[a][k] = result[a][k]
          /\ result'[a][i] = [code |-> code, expected |-> 0]
      BY <1>t, <3>1, <3>2
    <3> QED BY <2>1, <3>3, <3>4, <3>5
  <2>2. CASE i \notin pool[a]
    BY <2>2, Zenon DEF Execute
  <2> QED BY <2>1, <2>2
<1> HIDE DEF i
<1>8. NodeInv(a)'
  <2>1. \A k \in pool'[a] : committed'[a] <= SeqOf(a, k) /\ SeqOf(a, k) < check'[a]
    BY <1>a, <1>i, <1>1, <1>4, <1>7, Zenon DEF NodeInv
  <2>2. \A k \in TxIdxs : result'[a][k].code # "none" => SeqOf(a, k) < committed'[a]
    BY <1>i, <1>1, <1>3, <1>7, ZenonT(30) DEF NodeInv
  <2>3. \A k \in TxIdxs : result'[a][k].code = "sequence" =>
           /\ k \in foreign'[a] /\ StartSequence[a] <= result'[a][k].expected
           /\ result'[a][k].expected <= committed'[a]
    <3> SUFFICES ASSUME NEW k \in TxIdxs, result'[a][k].code = "sequence"
                 PROVE  /\ k \in foreign'[a] /\ StartSequence[a] <= result'[a][k].expected
                        /\ result'[a][k].expected <= committed'[a]
      OBVIOUS
    <3>1. result'[a][k] = result[a][k] /\ result[a][k].expected \in Nat
      BY <1>7, AccountTypes, ZenonT(30)
    <3>2. /\ k \in foreign[a] /\ StartSequence[a] <= result[a][k].expected
          /\ result[a][k].expected <= committed[a]
      BY <1>i, <3>1, Zenon DEF NodeInv
    <3>3. result[a][k].expected <= committed'[a]
      BY ONLY <1>a, <1>1, <3>1, <3>2
    <3>4. foreign'[a] = foreign[a]
      BY <1>1
    <3> QED BY ONLY <3>1, <3>2, <3>3, <3>4, Zenon
  <2> QED BY <1>i, <1>1, <1>6, <1>7, <2>1, <2>2, <2>3, ZenonT(30) DEF NodeInv, SeqOf
<1>9. AwaitInv(a)'
  <2> SUFFICES ASSUME Await, pc[a] # "failed" PROVE AwaitInv(a)'
    BY <1>1, Zenon DEF AwaitInv
  <2>1. pool'[a] \subseteq {k \in TxIdxs : pc[a] = "await" /\ k = txIndex[a]}
    BY <1>i, <1>7, ZenonT(30) DEF AwaitInv
  <2>2. \A k \in TxIdxs : Confirmed(a, k) /\ k \notin pool[a] => Confirmed(a, k)'
    BY <1>1, <1>7, Zenon DEF Confirmed
  <2>3. \A k \in pool[a] : SeqOf(a, k) >= committed[a] /\ SeqOf(a, k) < check[a]
    BY <1>a, <1>i, Zenon DEF NodeInv, SeqOf
  <2>4. \A k \in TxIdxs : k < txIndex[a] => Confirmed(a, k)'
    <3>1. \A k \in pool[a] : ~(k < txIndex[a])
      BY <1>a, <1>i DEF AwaitInv
    <3> QED BY <1>i, <2>2, <3>1, Zenon DEF AwaitInv
  <2>5. ASSUME NEW k \in TxIdxs, SeqOf(a, k) < committed'[a], pc[a] = "await" => k # txIndex[a]
        PROVE  Confirmed(a, k)'
    <3>1. k \notin pool[a]
      BY <1>i, <2>5, Zenon DEF AwaitInv
    <3>2. CASE SeqOf(a, k) < committed[a]
      BY <1>i, <2>2, <2>5, <3>1, <3>2, Zenon DEF AwaitInv
    <3>3. CASE k = i
      BY <1>i, <1>1, <1>5, <3>1, <3>3, Zenon DEF AwaitInv, Confirmed
    <3> QED BY <1>1, <1>3, <2>5, <3>2, <3>3
  <2>6. ASSUME NEW k \in TxIdxs, committed'[a] <= SeqOf(a, k), SeqOf(a, k) < check'[a]
        PROVE  k \in pool'[a] \union foreign'[a]
    BY <1>i, <1>1, <1>4, <1>7, <2>6, ZenonT(30) DEF AwaitInv
  <2> QED BY <1>1, <2>1, <2>4, <2>5, <2>6, Zenon DEF AwaitInv, SeqOf
<1> QED BY <1>2, <1>8, <1>9, Zenon DEF AccountInv

LEMMA ForeignTxStep ==
    ASSUME TypeOK, NEW a \in Accounts, AccountInv(a), ForeignTx(a)
    PROVE  AccountInv(a)'
<1> DEFINE i == IndexOf(a, check[a])
<1>a. /\ check[a] \in Nat /\ InitialSequence[a] \in Nat /\ \A k \in TxIdxs : k \in Int
      /\ committed[a] \in Nat /\ pool[a] \subseteq TxIdxs
  BY AccountTypes
<1>i. NodeInv(a) /\ AwaitInv(a)
  BY Zenon DEF AccountInv
<1>1. /\ check'[a] = check[a] + 1 /\ foreign'[a] = foreign[a] \union {i}
      /\ UNCHANGED <<txIndex[a], pc[a], committed[a], result[a], pool[a], cache[a], accepted[a]>>
  BY Zenon DEF ForeignTx, TypeOK, client, blocks
<1>2. ClientInv(a)'
  BY <1>1, StillClient
<1>3. \A k \in TxIdxs : SeqOf(a, k) < check[a] + 1 => SeqOf(a, k) < check[a] \/ k = i
  BY <1>a, SeqNext
<1>4. \A k \in TxIdxs : SeqOf(a, k) < check[a] => SeqOf(a, k) < check[a] + 1
  BY <1>a, SeqNext
<1>5. committed[a] <= check[a] + 1
  <2>1. committed[a] <= check[a]
    BY <1>i, Zenon DEF NodeInv
  <2> QED BY <1>a, <2>1
<1> HIDE DEF i
<1>6. NodeInv(a)'
  BY <1>a, <1>i, <1>1, <1>3, <1>4, <1>5, ZenonT(30) DEF NodeInv, SeqOf
<1>7. AwaitInv(a)'
  BY <1>i, <1>1, <1>3, ZenonT(30) DEF AwaitInv, Confirmed, SeqOf
<1> QED BY <1>2, <1>6, <1>7, Zenon DEF AccountInv

LEMMA ForeignBlockStep ==
    ASSUME TypeOK, NEW a \in Accounts, AccountInv(a), ForeignBlock(a)
    PROVE  AccountInv(a)'
<1> DEFINE i == IndexOf(a, committed[a])
<1>t. /\ committed \in [Accounts -> Nat] /\ check \in [Accounts -> Nat]
      /\ pool \in [Accounts -> SUBSET TxIdxs] /\ cache \in [Accounts -> SUBSET TxIdxs]
      /\ foreign \in [Accounts -> SUBSET Int]
      /\ result \in [Accounts -> [TxIdxs -> [code : Code, expected : Nat]]]
  BY Zenon DEF TypeOK
<1>a. /\ committed[a] \in Nat /\ check[a] \in Nat /\ InitialSequence[a] \in Nat
      /\ StartSequence[a] \in Nat /\ pool[a] \subseteq TxIdxs /\ \A k \in TxIdxs : k \in Int
  BY AccountTypes
<1>i. NodeInv(a) /\ AwaitInv(a)
  BY Zenon DEF AccountInv
<1>1. /\ committed'[a] = committed[a] + 1
      /\ check'[a] = IF check[a] = committed[a] THEN check[a] + 1 ELSE check[a]
      /\ foreign'[a] = foreign[a] \union {i}
      /\ pool'[a] = pool[a] \ {i} /\ cache'[a] = cache[a] \ {i}
      /\ UNCHANGED <<txIndex[a], pc[a], accepted[a]>>
  BY <1>t, ZenonT(30) DEF ForeignBlock, client
<1>2. ClientInv(a)'
  BY <1>1, StillClient, ZenonT(30)
<1>3. \A k \in TxIdxs : SeqOf(a, k) < committed[a] + 1 <=> SeqOf(a, k) < committed[a] \/ k = i
  BY <1>a, SeqNext
<1>4. \A k \in TxIdxs : committed[a] + 1 <= SeqOf(a, k) <=> committed[a] <= SeqOf(a, k) /\ k # i
  BY <1>a, SeqNext
<1>5. \A k \in TxIdxs : SeqOf(a, k) < check'[a] <=>
         SeqOf(a, k) < check[a] \/ (check[a] = committed[a] /\ k = i)
  <2>1. CASE check[a] = committed[a]
    BY <1>a, <1>1, <2>1, SeqNext, SMTT(20)
  <2>2. CASE check[a] # committed[a]
    BY <1>1, <2>2
  <2> QED BY <2>1, <2>2
<1>6. committed'[a] <= check'[a] /\ StartSequence[a] <= committed'[a]
  <2>1. StartSequence[a] <= committed[a] /\ committed[a] <= check[a]
    BY <1>i, Zenon DEF NodeInv
  <2> QED BY <1>a, <1>1, <2>1
<1>7. /\ \A k \in TxIdxs : k # i => result'[a][k] = result[a][k]
      /\ \/ UNCHANGED result[a]
         \/ i \in pool[a] /\ result'[a][i] = [code |-> "sequence", expected |-> committed[a] + 1]
  <2>1. CASE UNCHANGED result
    BY <2>1
  <2>2. CASE /\ i \in pool[a]
             /\ result' = [result EXCEPT ![a][i] =
                             [code |-> "sequence", expected |-> committed[a] + 1]]
    <3>1. i \in TxIdxs
      BY <1>a, <2>2
    <3> HIDE DEF i
    <3> QED BY <1>t, <2>2, <3>1
  <2> QED BY <2>1, <2>2, Zenon DEF ForeignBlock
<1> HIDE DEF i
<1>8. NodeInv(a)'
  <2>1. \A k \in pool'[a] : committed'[a] <= SeqOf(a, k) /\ SeqOf(a, k) < check'[a]
    BY <1>a, <1>i, <1>1, <1>4, <1>5, ZenonT(30) DEF NodeInv
  <2>2. \A k \in TxIdxs : result'[a][k].code # "none" => SeqOf(a, k) < committed'[a]
    BY <1>i, <1>1, <1>3, <1>7, ZenonT(30) DEF NodeInv
  <2>3. ASSUME NEW k \in TxIdxs, result'[a][k].code = "sequence"
        PROVE  /\ k \in foreign'[a] /\ StartSequence[a] <= result'[a][k].expected
               /\ result'[a][k].expected <= committed'[a]
    <3>1. CASE result'[a][k] = result[a][k]
      <4>1. result[a][k].expected \in Nat
        BY AccountTypes
      <4>2. /\ k \in foreign[a] /\ StartSequence[a] <= result[a][k].expected
            /\ result[a][k].expected <= committed[a]
        BY <1>i, <2>3, <3>1, Zenon DEF NodeInv
      <4>3. result[a][k].expected <= committed'[a]
        BY ONLY <1>a, <1>1, <4>1, <4>2
      <4>4. k \in foreign'[a]
        BY <1>1, <4>2
      <4> QED BY ONLY <3>1, <4>2, <4>3, <4>4, Zenon
    <3>2. CASE k = i /\ result'[a][i] = [code |-> "sequence", expected |-> committed[a] + 1]
      BY <1>a, <1>1, <1>6, <3>2
    <3> QED BY <1>7, <3>1, <3>2
  <2>4. \A k \in TxIdxs : SeqOf(a, k) < check'[a] => k \in accepted'[a] \union foreign'[a]
    BY <1>i, <1>1, <1>5, ZenonT(30) DEF NodeInv
  <2>5. cache'[a] \subseteq accepted'[a]
    BY <1>i, <1>1, Zenon DEF NodeInv
  <2> QED BY <1>6, <2>1, <2>2, <2>3, <2>4, <2>5, Zenon DEF NodeInv, SeqOf
<1>9. AwaitInv(a)'
  <2> SUFFICES ASSUME Await, pc[a] # "failed" PROVE AwaitInv(a)'
    BY <1>1, Zenon DEF AwaitInv
  <2>1. \A k \in TxIdxs : Confirmed(a, k) \/ k = i => Confirmed(a, k)'
    BY <1>1, <1>7, Zenon DEF Confirmed
  <2>2. pool'[a] \subseteq {k \in TxIdxs : pc[a] = "await" /\ k = txIndex[a]}
    BY <1>i, <1>1, Zenon DEF AwaitInv
  <2>3. \A k \in TxIdxs : k < txIndex[a] => Confirmed(a, k)'
    BY <1>i, <2>1, Zenon DEF AwaitInv
  <2>4. \A k \in TxIdxs :
           SeqOf(a, k) < committed'[a] /\ (pc[a] = "await" => k # txIndex[a]) => Confirmed(a, k)'
    <3>1. \A k \in TxIdxs : SeqOf(a, k) < committed'[a] => SeqOf(a, k) < committed[a] \/ k = i
      BY <1>1, <1>3
    <3>2. \A k \in TxIdxs :
             SeqOf(a, k) < committed[a] /\ (pc[a] = "await" => k # txIndex[a]) => Confirmed(a, k)
      BY <1>i, Zenon DEF AwaitInv
    <3> QED BY <2>1, <3>1, <3>2
  <2>5. \A k \in TxIdxs :
           committed'[a] <= SeqOf(a, k) /\ SeqOf(a, k) < check'[a] => k \in pool'[a] \union foreign'[a]
    BY <1>i, <1>1, <1>4, <1>5, Zenon DEF AwaitInv
  <2> QED BY <1>1, <2>2, <2>3, <2>4, <2>5, Zenon DEF AwaitInv, SeqOf
<1> QED BY <1>2, <1>8, <1>9, Zenon DEF AccountInv

\* A node that forgets the end of what its mempool has taken in.
LEMMA DropsStep ==
    ASSUME TypeOK, NEW a \in Accounts, AccountInv(a),
           check'[a] \in committed[a]..check[a],
           pool'[a] = {i \in pool[a] : SeqOf(a, i) < check'[a]},
           cache'[a] \subseteq cache[a],
           UNCHANGED <<txIndex[a], pc[a], committed[a], result[a], accepted[a], foreign[a]>>
    PROVE  AccountInv(a)'
<1>a. /\ committed[a] \in Nat /\ check[a] \in Nat /\ InitialSequence[a] \in Nat
      /\ pool[a] \subseteq TxIdxs /\ \A k \in TxIdxs : k \in Int
  BY AccountTypes
<1>i. NodeInv(a) /\ AwaitInv(a)
  BY Zenon DEF AccountInv
<1>1. \A k \in TxIdxs : SeqOf(a, k) < check'[a] => SeqOf(a, k) < check[a]
  BY <1>a DEF SeqOf
<1>2. committed[a] <= check'[a]
  BY <1>a
<1>3. ClientInv(a)'
  BY StillClient
<1>4. NodeInv(a)'
  BY <1>i, <1>1, <1>2, Zenon DEF NodeInv, SeqOf
<1>5. AwaitInv(a)'
  BY <1>i, <1>1, ZenonT(30) DEF AwaitInv, Confirmed, SeqOf
<1> QED BY <1>3, <1>4, <1>5, ZenonT(30) DEF AccountInv

LEMMA NodeStep ==
    ASSUME TypeOK, NEW a \in Accounts, AccountInv(a), Node(a)
    PROVE  AccountInv(a)'
<1>t. /\ check \in [Accounts -> Nat] /\ pool \in [Accounts -> SUBSET TxIdxs]
      /\ cache \in [Accounts -> SUBSET TxIdxs]
  BY Zenon DEF TypeOK
<1>a. /\ committed[a] \in Nat /\ check[a] \in Nat /\ InitialSequence[a] \in Nat
      /\ pool[a] \subseteq TxIdxs /\ \A k \in TxIdxs : k \in Int
  BY AccountTypes
<1>1. CASE RecheckDrops(a)
  <2>1. PICK q \in committed[a]..check[a]-1 :
           LET dropped == {i \in pool[a] : SeqOf(a, i) >= q}
           IN  /\ check' = [check EXCEPT ![a] = q]
               /\ pool' = [pool EXCEPT ![a] = @ \ dropped]
               /\ cache' = [cache EXCEPT ![a] = @ \ dropped]
    BY <1>1, ZenonT(30) DEF RecheckDrops
  <2>2. check'[a] = q /\ q \in committed[a]..check[a]
    <3>1. check'[a] = q
      BY <1>t, <2>1
    <3>2. q \in committed[a]..check[a]
      BY <1>a, SMTT(20)
    <3> QED BY <3>1, <3>2
  <2>3. \A i \in pool[a] : SeqOf(a, i) >= q <=> ~(SeqOf(a, i) < q)
    BY <1>a DEF SeqOf
  <2>4. pool'[a] = {i \in pool[a] : SeqOf(a, i) < q} /\ cache'[a] \subseteq cache[a]
    BY <1>t, <2>1, <2>3
  <2>5. UNCHANGED <<txIndex[a], pc[a], committed[a], result[a], accepted[a], foreign[a]>>
    BY <1>1, Zenon DEF RecheckDrops, client, blocks
  <2> QED BY <2>2, <2>4, <2>5, DropsStep
<1>2. CASE CacheForgets(a)
  <2>1. /\ UNCHANGED <<txIndex[a], pc[a], committed[a], result[a], accepted[a], foreign[a],
                       check[a], pool[a]>>
        /\ cache'[a] \subseteq cache[a]
    BY <1>2, <1>t, Zenon DEF CacheForgets, client, blocks, history
  <2>2. /\ check[a] \in committed[a]..check[a]
        /\ pool[a] = {i \in pool[a] : SeqOf(a, i) < check[a]}
    <3>1. committed[a] <= check[a] /\ \A i \in pool[a] : SeqOf(a, i) < check[a]
      BY Zenon DEF AccountInv, NodeInv
    <3>2. check[a] \in committed[a]..check[a]
      BY <1>a, <3>1
    <3> QED BY <3>1, <3>2
  <2> QED BY <2>1, <2>2, DropsStep
<1> QED BY <1>1, <1>2, ExecuteStep, ForeignTxStep, ForeignBlockStep, Zenon DEF Node

LEMMA RestartStep ==
    ASSUME TypeOK, NEW a \in Accounts, AccountInv(a), Restart
    PROVE  AccountInv(a)'
<1>1. /\ check'[a] = committed[a] /\ pool'[a] = {} /\ cache'[a] = {}
      /\ UNCHANGED <<txIndex[a], pc[a], committed[a], result[a], accepted[a], foreign[a]>>
  BY Zenon DEF Restart, client, blocks
<1>2. committed[a] \in Nat /\ check[a] \in Nat /\ NodeInv(a)
  BY AccountTypes, Zenon DEF AccountInv
<1>3. check'[a] \in committed[a]..check[a]
  BY <1>1, <1>2, SMTT(20) DEF NodeInv
<1>4. pool'[a] = {i \in pool[a] : SeqOf(a, i) < check'[a]}
  <2>1. ASSUME NEW i \in pool[a] PROVE ~(SeqOf(a, i) < committed[a])
    <3>1. i \in TxIdxs
      BY AccountTypes
    <3>2. committed[a] <= SeqOf(a, i)
      BY <1>2, Zenon DEF NodeInv
    <3> QED BY <1>2, <3>1, <3>2, SeqNext, SMTT(20)
  <2> QED BY <1>1, <2>1
<1> QED BY <1>1, <1>3, <1>4, DropsStep

-----------------------------------------------------------------------------
LEMMA InvInit == Init => BroadcastInv
<1> SUFFICES ASSUME Init PROVE BroadcastInv
  OBVIOUS
<1>1. TypeOK
  BY TypeInit
<1>2. ASSUME NEW a \in Accounts PROVE AccountInv(a)
  <2>1. /\ txIndex[a] = 0 /\ pc[a] = "loop" /\ committed[a] = StartSequence[a]
        /\ check[a] = StartSequence[a] /\ pool[a] = {} /\ cache[a] = {} /\ accepted[a] = {}
        /\ \A i \in TxIdxs : result[a][i].code = "none"
        /\ foreign[a] = {IndexOf(a, q) : q \in InitialSequence[a]..StartSequence[a]-1}
    BY Zenon DEF Init, NoResult
  <2>2. /\ StartSequence[a] \in Nat /\ InitialSequence[a] \in Nat
        /\ \A i \in TxIdxs : i \in Int /\ i >= 0
    BY BroadcastAssumption DEF TxIdxs
  <2>3. ASSUME NEW i \in TxIdxs, SeqOf(a, i) < StartSequence[a] PROVE i \in foreign[a]
    <3>1. SeqOf(a, i) \in InitialSequence[a]..StartSequence[a]-1 /\ i = IndexOf(a, SeqOf(a, i))
      BY <2>2, <2>3 DEF SeqOf, IndexOf
    <3> QED BY <2>1, <3>1
  <2>4. \A i \in TxIdxs : ~(i < 0)
    BY <2>2
  <2>5. \A i \in TxIdxs : ~(StartSequence[a] <= SeqOf(a, i) /\ SeqOf(a, i) < StartSequence[a])
    BY <2>2 DEF SeqOf
  <2>6. NodeInv(a)
    BY <2>1, <2>2, <2>3, SMTT(20) DEF NodeInv
  <2>7. ClientInv(a)
    <3>1. ~(txIndex[a] < 0) /\ \A i \in TxIdxs : ~(i < txIndex[a])
      BY <2>1, <2>4
    <3> QED BY <2>1, <3>1, ZenonT(30) DEF ClientInv
  <2>8. AwaitInv(a)
    BY <2>1, <2>3, <2>4, <2>5, Zenon DEF AwaitInv, Confirmed
  <2> QED BY <2>6, <2>7, <2>8, Zenon DEF AccountInv
<1>3. outcome # "panic"
  BY Zenon DEF Init
<1> QED BY <1>1, <1>2, <1>3, Zenon DEF BroadcastInv, AccountInv

\* The invariant is inductive.
LEMMA InvNext == BroadcastInv /\ [Next]_vars => BroadcastInv'
<1> SUFFICES ASSUME BroadcastInv, [Next]_vars PROVE BroadcastInv'
  OBVIOUS
<1>i. TypeOK /\ \A a \in Accounts : AccountInv(a)
  BY Zenon DEF BroadcastInv, AccountInv
<1>1. ASSUME NEW a \in Accounts, Account(a) \/ Node(a)
      PROVE  TypeOK' /\ \A b \in Accounts : AccountInv(b)'
  <2>1. TypeOK'
    BY <1>i, <1>1, AccountType, NodeType, Zenon DEF AccountInv
  <2>2. AccountInv(a)'
    BY <1>i, <1>1, AccountStep, NodeStep
  <2>3. ASSUME NEW b \in Accounts, b # a PROVE AccountInv(b)'
    BY <1>i, <1>1, <2>3, OtherAccounts, SameAccount
  <2> QED BY <2>1, <2>2, <2>3
<1>2. CASE Restart
  <2>1. TypeOK'
    <3>1. drops' \in [Accounts -> 0..MaxDrops]
      <4>1. \A a \in Accounts : /\ drops[a] \in 0..MaxDrops
                                /\ drops[a] < MaxDrops => drops[a] + 1 \in 0..MaxDrops
        BY <1>i, BroadcastAssumption DEF TypeOK
      <4> QED BY <1>2, <4>1 DEF Restart
    <3>2. /\ pool' \in [Accounts -> SUBSET TxIdxs] /\ cache' \in [Accounts -> SUBSET TxIdxs]
          /\ check' = committed
          /\ UNCHANGED <<txIndex, pc, ctxDone, outcome, committed, result, accepted, foreign, others>>
      BY <1>2, Zenon DEF Restart, client, blocks
    <3> QED BY <1>i, <3>1, <3>2, Zenon DEF TypeOK
  <2> QED BY <1>i, <1>2, <2>1, RestartStep, Zenon DEF BroadcastInv, AccountInv, Restart, client
<1>3. CASE Interrupt \/ GroupReturns \/ UNCHANGED vars
  <2>1. TypeOK'
    BY <1>i, <1>3, ZenonT(30) DEF Interrupt, GroupReturns, TypeOK, vars, client, blocks, memory, history
  <2>2. ASSUME NEW b \in Accounts PROVE UNCHANGED <<txIndex[b], pc[b], node(b)>>
    BY <1>3, ZenonT(30) DEF Interrupt, GroupReturns, node, vars, client, blocks, memory, history
  <2>3. outcome' = "panic" => outcome = "panic"
    BY <1>3, Zenon DEF Interrupt, GroupReturns, vars, client
  <2> QED BY <1>i, <2>1, <2>2, <2>3, SameAccount, Zenon DEF BroadcastInv, AccountInv, Behind
<1>4. ASSUME NEW a \in Accounts, Account(a) \/ Node(a) PROVE BroadcastInv'
  <2>1. CASE IndexPanics(a)
    <3>1. Behind(a)
      BY <1>i, <2>1, Zenon DEF IndexPanics, AccountInv, ClientInv
    <3> QED BY <1>1, <1>4, <3>1, ZenonT(30) DEF BroadcastInv, AccountInv, Behind
  <2>2. CASE ~IndexPanics(a)
    <3>1. outcome' = outcome
      BY <1>4, <2>2, ZenonT(30) DEF Account, Progress, SendTx, AccountDone, ContextEnded, TxAccepted,
         TxInCache, WrongSequence, AwaitOk, AwaitWrongSequence, AwaitFailed, AwaitTimesOut,
         SendFails, AnswerLost, ReturnError, Sent, FollowSequence, Node, Execute, ForeignTx,
         ForeignBlock, RecheckDrops, CacheForgets, client
    <3> QED BY <1>1, <1>4, <3>1, Zenon DEF BroadcastInv, AccountInv, Behind
  <2> QED BY <2>1, <2>2
<1> QED BY <1>2, <1>3, <1>4, Zenon DEF Next
-----------------------------------------------------------------------------
(***************************************************************************)
(* The theorems.                                                           *)
(***************************************************************************)

\* BroadcastInv holds in every state the broadcast phase (stresser.go:392-448)
\* can reach, whatever the node does.
THEOREM BroadcastInvariant == Spec => []BroadcastInv
<1>1. Init => BroadcastInv
  BY InvInit
<1>2. BroadcastInv /\ [Next]_vars => BroadcastInv'
  BY InvNext
<1> QED BY <1>1, <1>2, PTL DEF Spec

\* accountTxs[txIndex] (stresser.go:408) is never read at a negative index of
\* an account whose initial sequence number the node had reached.
THEOREM IndexInRangeCorrect == Spec => []IndexInRange
<1>1. BroadcastInv => IndexInRange
  BY Zenon DEF BroadcastInv, ClientInv, IndexInRange
<1> QED BY <1>1, BroadcastInvariant, PTL

\* An account past the end of its list is past each of its transactions.
LEMMA PastEnd ==
    ASSUME TypeOK, NEW a \in Accounts, txIndex[a] >= NumTx, NEW i \in TxIdxs
    PROVE  i < txIndex[a]
<1>1. txIndex[a] \in Int
  BY AccountTypes
<1>2. NumTx \in Nat /\ i \in 0..NumTx - 1
  BY BroadcastAssumption, Zenon DEF TxIdxs
<1>3. txIndex[a] >= NumTx
  OBVIOUS
<1> QED BY ONLY <1>1, <1>2, <1>3

\* An account goroutine that ends its loop (stresser.go:407-437) has got each
\* of its transactions into the mempool, or found its sequence number taken.
THEOREM BroadcastCompleteCorrect == Spec => []BroadcastComplete
<1>1. ASSUME BroadcastInv PROVE BroadcastComplete
  <2> SUFFICES ASSUME NEW a \in Accounts, pc[a] = "done", NEW i \in TxIdxs
               PROVE  i \in accepted[a] \union foreign[a]
    BY ZenonT(30) DEF BroadcastComplete
  <2>1. txIndex[a] >= NumTx /\ ClientInv(a) /\ TypeOK
    BY <1>1, Zenon DEF BroadcastInv, ClientInv
  <2>2. i < txIndex[a]
    BY <2>1, PastEnd
  <2> QED BY <2>1, <2>2, Zenon DEF ClientInv
<1> QED BY <1>1, BroadcastInvariant, PTL

\* With AwaitTxConfirmation it has seen each of them succeed in a block
\* (client.go:184-230), or found its sequence number taken.
THEOREM AwaitedInBlockCorrect == Spec => []AwaitedInBlock
<1>1. ASSUME BroadcastInv PROVE AwaitedInBlock
  <2> SUFFICES ASSUME Await, NEW a \in Accounts, pc[a] = "done", NEW i \in TxIdxs
               PROVE  result[a][i].code = "ok" \/ i \in foreign[a]
    BY Zenon DEF AwaitedInBlock
  <2>1. txIndex[a] >= NumTx /\ AwaitInv(a) /\ TypeOK
    BY <1>1, Zenon DEF BroadcastInv, ClientInv
  <2>2. i < txIndex[a]
    BY <2>1, PastEnd
  <2> QED BY <2>1, <2>2, Zenon DEF AwaitInv, Confirmed
<1> QED BY <1>1, BroadcastInvariant, PTL

\* The types hold throughout the broadcast phase (stresser.go:392-448).
THEOREM TypeCorrect == Spec => []TypeOK
<1>1. BroadcastInv => TypeOK
  BY Zenon DEF BroadcastInv
<1> QED BY <1>1, BroadcastInvariant, PTL
-----------------------------------------------------------------------------

\* A sequence error in a block names the number after the transaction's own; and
\* as long as nothing of the account is lost, the mempool is at least where the account is, past
\* what it waits for, and past all that the cache remembers.
AheadInv(a) ==
    /\ \A i \in TxIdxs : result[a][i].code = "sequence" =>
                            result[a][i].expected = SeqOf(a, i) + 1
    /\ drops[a] = 0 /\ ~Behind(a) =>
          /\ SeqOf(a, txIndex[a]) <= check[a]
          /\ pc[a] = "await" => SeqOf(a, txIndex[a]) < check[a]
          /\ \A i \in cache[a] : SeqOf(a, i) < check[a]

\* Slots and sequence numbers count alike.
LEMMA SeqOrder ==
    ASSUME NEW a \in Accounts, NEW i \in Int, NEW n \in Int
    PROVE  /\ SeqOf(a, i) \in Int /\ SeqOf(a, i + 1) = SeqOf(a, i) + 1
           /\ IndexOf(a, n) \in Int /\ SeqOf(a, IndexOf(a, n)) = n
           /\ IndexOf(a, n) < i <=> n < SeqOf(a, i)
<1>1. InitialSequence[a] \in Nat
  BY BroadcastAssumption
<1> QED BY <1>1 DEF SeqOf, IndexOf

LEMMA AheadSame ==
    ASSUME NEW b \in Accounts, AheadInv(b), UNCHANGED <<txIndex[b], pc[b], node(b)>>,
           drops'[b] = drops[b]
    PROVE  AheadInv(b)'
BY Zenon DEF AheadInv, node, SeqOf, Behind

\* A step of the account goroutine: where it goes back, something was lost.
LEMMA AheadAccount ==
    ASSUME TypeOK, NEW a \in Accounts, AccountInv(a), AheadInv(a), Account(a)
    PROVE  /\ AheadInv(a)'
           /\ txIndex'[a] < txIndex[a] => drops[a] > 0 \/ Behind(a)
<1>t. /\ txIndex[a] \in Int /\ check[a] \in Nat /\ committed[a] \in Nat
      /\ InitialSequence[a] \in Nat /\ drops[a] \in Nat
      /\ \A i \in cache[a] : i \in Int
  BY BroadcastAssumption, AccountTypes DEF TypeOK
<1>f. /\ txIndex \in [Accounts -> Int] /\ check \in [Accounts -> Nat]
      /\ pc \in [Accounts -> {"loop", "send", "await", "done", "failed"}]
      /\ cache \in [Accounts -> SUBSET TxIdxs]
  BY Zenon DEF TypeOK
<1>s. /\ SeqOf(a, txIndex[a]) \in Int /\ SeqOf(a, txIndex[a] + 1) = SeqOf(a, txIndex[a]) + 1
      /\ SeqOf(a, IndexOf(a, check[a])) = check[a]
      /\ IndexOf(a, check[a]) < txIndex[a] <=> check[a] < SeqOf(a, txIndex[a])
      /\ \A i \in cache[a] : SeqOf(a, i) \in Int
  <2>1. check[a] \in Int
    BY <1>t
  <2>2. \A i \in cache[a] : SeqOf(a, i) \in Int
    BY <1>t, <2>1, SeqOrder, Zenon
  <2>3. /\ SeqOf(a, txIndex[a]) \in Int /\ SeqOf(a, txIndex[a] + 1) = SeqOf(a, txIndex[a]) + 1
        /\ SeqOf(a, IndexOf(a, check[a])) = check[a]
        /\ IndexOf(a, check[a]) < txIndex[a] <=> check[a] < SeqOf(a, txIndex[a])
    BY <1>t, <2>1, SeqOrder, Zenon
  <2> QED BY <2>2, <2>3
<1>i. NodeInv(a) /\ ClientInv(a)
  BY Zenon DEF AccountInv
<1>1. CASE SendTx(a) \/ AccountDone(a) \/ IndexPanics(a) \/ ContextEnded(a) \/ SendFails(a)
           \/ AwaitFailed(a) \/ AwaitTimesOut(a)
  <2>1. /\ UNCHANGED <<txIndex, check, cache, result, drops>>
        /\ pc'[a] = "await" => pc[a] = "await"
    BY <1>f, <1>1, Zenon DEF SendTx, AccountDone, IndexPanics, ContextEnded, SendFails, AwaitFailed,
       AwaitTimesOut, ReturnError, blocks, memory, history
  <2> QED BY <1>t, <2>1 DEF AheadInv, Behind
<1>2. CASE TxAccepted(a) \/ AnswerLost(a)
  <2>1. /\ SeqOf(a, txIndex[a]) = check[a]
        /\ check'[a] = check[a] + 1
        /\ cache'[a] = cache[a] \union {txIndex[a]}
        /\ UNCHANGED <<result, drops>>
    BY <1>f, <1>2, Zenon DEF TxAccepted, AnswerLost, CheckTxPasses, blocks
  <2>2. \/ txIndex'[a] = txIndex[a]
        \/ txIndex'[a] = txIndex[a] + 1 /\ pc'[a] = "loop"
    BY <1>f, <1>2, Zenon DEF TxAccepted, AnswerLost, Sent, ReturnError
  <2>3. SeqOf(a, txIndex'[a]) \in {check[a], check[a] + 1}
        /\ (pc'[a] = "await" => SeqOf(a, txIndex'[a]) = check[a])
    BY <1>s, <2>1, <2>2
  <2>4. ~(txIndex'[a] < txIndex[a])
    BY <1>t, <2>2
  <2>5. drops[a] = 0 /\ ~Behind(a) => \A i \in cache'[a] : SeqOf(a, i) < check'[a]
    <3>1. drops[a] = 0 /\ ~Behind(a) => \A i \in cache[a] : SeqOf(a, i) < check[a]
      BY Zenon DEF AheadInv
    <3> QED BY ONLY <1>t, <1>s, <2>1, <3>1
  <2> QED BY <1>t, <2>1, <2>3, <2>4, <2>5, SMTT(30) DEF AheadInv, Behind
<1>3. CASE TxInCache(a)
  <2>1. txIndex[a] \in cache[a] /\ UNCHANGED <<check, cache, result, drops>>
    BY <1>3, Zenon DEF TxInCache, blocks, memory, history
  <2>2. \/ txIndex'[a] = txIndex[a]
        \/ txIndex'[a] = txIndex[a] + 1 /\ pc'[a] = "loop"
    BY <1>f, <1>3, Zenon DEF TxInCache, Sent
  <2>3. ~(txIndex'[a] < txIndex[a])
    BY <1>t, <2>2
  <2>4. drops[a] = 0 /\ ~Behind(a) =>
           /\ SeqOf(a, txIndex'[a]) <= check[a]
           /\ pc'[a] = "await" => SeqOf(a, txIndex'[a]) < check[a]
    <3>1. drops[a] = 0 /\ ~Behind(a) => SeqOf(a, txIndex[a]) < check[a]
      BY <2>1, Zenon DEF AheadInv
    <3> QED BY ONLY <1>t, <1>s, <2>2, <3>1
  <2> QED BY <2>1, <2>3, <2>4, Zenon DEF AheadInv, Behind
<1>4. CASE WrongSequence(a)
  <2>1. /\ txIndex'[a] = IndexOf(a, check[a]) /\ pc'[a] = "loop"
        /\ UNCHANGED <<check, cache, result, drops>>
    BY <1>f, <1>4, Zenon DEF WrongSequence, FollowSequence, blocks, memory, history
  <2>2. SeqOf(a, txIndex'[a]) = check[a] /\ (txIndex'[a] < txIndex[a] => check[a] < SeqOf(a, txIndex[a]))
    BY <1>s, <2>1
  <2>3. txIndex'[a] < txIndex[a] => ~(SeqOf(a, txIndex[a]) <= check[a])
    BY <1>t, <1>s, <2>2
  <2>4. txIndex'[a] < txIndex[a] => drops[a] > 0 \/ Behind(a)
    <3>1. txIndex'[a] < txIndex[a] => drops[a] # 0 \/ Behind(a)
      BY <2>3, Zenon DEF AheadInv
    <3> QED BY <1>t, <3>1
  <2>5. /\ SeqOf(a, txIndex'[a]) <= check[a]
        /\ pc'[a] # "await"
    BY <1>t, <2>1, <2>2
  <2> QED BY <2>1, <2>4, <2>5, Zenon DEF AheadInv, Behind
<1>5. CASE AwaitOk(a)
  <2>1. /\ txIndex'[a] = txIndex[a] + 1 /\ pc[a] = "await" /\ pc'[a] = "loop"
        /\ UNCHANGED <<check, cache, result, drops>>
    BY <1>f, <1>5, Zenon DEF AwaitOk, blocks, memory, history
  <2>2. SeqOf(a, txIndex'[a]) = SeqOf(a, txIndex[a]) + 1 /\ ~(txIndex'[a] < txIndex[a])
    BY <1>t, <1>s, <2>1, SMTT(30)
  <2>3. drops[a] = 0 /\ ~Behind(a) => SeqOf(a, txIndex'[a]) <= check[a]
    BY <1>t, <1>s, <2>1, <2>2 DEF AheadInv
  <2> QED BY <2>1, <2>2, <2>3, Zenon DEF AheadInv, Behind
<1>6. CASE AwaitWrongSequence(a)
  <2>1. /\ ResultOf(a).code = "sequence"
        /\ txIndex'[a] = IndexOf(a, ResultOf(a).expected) /\ pc'[a] = "loop"
        /\ UNCHANGED <<check, cache, result, drops>>
    BY <1>f, <1>6, Zenon DEF AwaitWrongSequence, FollowSequence, blocks, memory, history
  <2>2. txIndex[a] \in TxIdxs
    BY <1>i, <1>6, Zenon DEF ClientInv, AwaitWrongSequence
  <2>3. ResultOf(a).expected <= check[a] /\ ResultOf(a).expected = SeqOf(a, txIndex[a]) + 1
    <3>1. ResultOf(a).expected <= committed[a] /\ committed[a] <= check[a]
      BY <1>i, <2>1, <2>2, Zenon DEF NodeInv, ResultOf
    <3>2. ResultOf(a).expected = SeqOf(a, txIndex[a]) + 1
      BY <2>1, <2>2, Zenon DEF AheadInv, ResultOf
    <3>3. ResultOf(a).expected \in Int
      BY <1>s, <3>2
    <3> QED BY ONLY <1>t, <3>1, <3>2, <3>3
  <2>4. SeqOf(a, txIndex'[a]) = ResultOf(a).expected /\ ~(txIndex'[a] < txIndex[a])
    BY <1>t, <1>s, <2>1, <2>3, SeqOrder, SMTT(30)
  <2> QED BY <2>1, <2>3, <2>4, Zenon DEF AheadInv, Behind
<1> QED BY <1>1, <1>2, <1>3, <1>4, <1>5, <1>6, Zenon DEF Account, Progress

\* A step of the node about the account.
LEMMA AheadNode ==
    ASSUME TypeOK, NEW a \in Accounts, AheadInv(a), Node(a)
    PROVE  AheadInv(a)' /\ UNCHANGED txIndex
<1>t. /\ txIndex[a] \in Int /\ check[a] \in Nat /\ committed[a] \in Nat
      /\ InitialSequence[a] \in Nat /\ drops[a] \in Nat
      /\ \A i \in cache[a] : i \in Int
  BY BroadcastAssumption, AccountTypes DEF TypeOK
<1>f. /\ check \in [Accounts -> Nat] /\ cache \in [Accounts -> SUBSET TxIdxs]
      /\ result \in [Accounts -> [TxIdxs -> [code : Code, expected : Nat]]]
  BY Zenon DEF TypeOK
<1>u. UNCHANGED <<txIndex, pc>>
  BY Zenon DEF Node, Execute, ForeignTx, ForeignBlock, RecheckDrops, CacheForgets, client
<1>1. CASE RecheckDrops(a)
  <2>1. drops'[a] = drops[a] + 1 /\ UNCHANGED result
    BY <1>1, Zenon DEF RecheckDrops, blocks, TypeOK
  <2>2. drops'[a] # 0
    BY <1>t, <2>1
  <2> QED BY <1>u, <2>1, <2>2, Zenon DEF AheadInv, SeqOf
<1>2. CASE ~RecheckDrops(a)
  <2>1. UNCHANGED drops
    BY <1>2, Zenon DEF Node, Execute, ForeignTx, ForeignBlock, CacheForgets, history
  <2>2. check'[a] \in {check[a], check[a] + 1}
    BY <1>f, <1>2, Zenon DEF Node, Execute, ForeignTx, ForeignBlock, CacheForgets
  <2>3. cache'[a] \subseteq cache[a]
    <3>1. cache' = cache \/ \E i : cache' = [cache EXCEPT ![a] = @ \ {i}]
      BY <1>2, Zenon DEF Node, Execute, ForeignTx, ForeignBlock, CacheForgets
    <3> QED BY <1>f, <3>1
  <2>4. \A i \in TxIdxs : result'[a][i].code = "sequence" =>
                              result'[a][i].expected = SeqOf(a, i) + 1
    <3>c. committed[a] \in Int
      BY <1>t
    <3>0. SeqOf(a, IndexOf(a, committed[a])) = committed[a]
      BY <3>c, SeqOrder, Zenon
    <3> DEFINE k == IndexOf(a, committed[a])
    <3>1. \/ UNCHANGED result
          \/ \E code \in {"ok", "failed"} :
                result' = [result EXCEPT ![a][k] = [code |-> code, expected |-> 0]]
          \/ result' = [result EXCEPT ![a][k] =
                          [code |-> "sequence", expected |-> committed[a] + 1]]
      BY <1>2, Zenon DEF Node, Execute, ForeignTx, ForeignBlock, CacheForgets, blocks
    <3> SUFFICES ASSUME NEW i \in TxIdxs, result'[a][i].code = "sequence"
                 PROVE  result'[a][i].expected = SeqOf(a, i) + 1
      OBVIOUS
    <3>2. CASE result'[a][i] = result[a][i]
      BY <3>2, Zenon DEF AheadInv
    <3>3. CASE result'[a][i] # result[a][i]
      <4>1. i = k /\ result'[a][i] = [code |-> "sequence", expected |-> committed[a] + 1]
        BY <1>f, <3>1, <3>3
      <4> QED BY <3>0, <4>1, SMTT(30)
    <3> QED BY <3>2, <3>3
  <2>5. ASSUME NEW n \in Int
        PROVE  /\ n <= check[a] => n <= check'[a]
               /\ n < check[a] => n < check'[a]
    <3>1. check[a] \in Int /\ check'[a] \in Int /\ check[a] <= check'[a]
      BY <1>t, <2>2, SMTT(30)
    <3> QED BY ONLY <3>1
  <2>6. /\ SeqOf(a, txIndex[a]) \in Int
        /\ \A i \in cache[a] : SeqOf(a, i) \in Int
    BY <1>t, SeqOrder
  <2>7. drops[a] = 0 /\ ~Behind(a) =>
           /\ SeqOf(a, txIndex[a]) <= check'[a]
           /\ pc[a] = "await" => SeqOf(a, txIndex[a]) < check'[a]
           /\ \A i \in cache[a] : SeqOf(a, i) < check'[a]
    BY <2>5, <2>6, Zenon DEF AheadInv
  <2> QED BY <1>u, <2>1, <2>3, <2>4, <2>7, Zenon DEF AheadInv, Behind
<1> QED BY <1>1, <1>2, <1>u

LEMMA AheadInit == Init => \A a \in Accounts : AheadInv(a)
<1> SUFFICES ASSUME Init, NEW a \in Accounts PROVE AheadInv(a)
  OBVIOUS
<1>1. InitialSequence[a] \in Nat /\ StartSequence[a] \in Nat
  BY BroadcastAssumption
<1>2. txIndex[a] = 0 /\ pc[a] = "loop" /\ check[a] = StartSequence[a] /\ cache[a] = {}
  BY Zenon DEF Init
<1>3. \A i \in TxIdxs : result[a][i].code # "sequence"
  BY Zenon DEF Init, NoResult
<1>4. SeqOf(a, 0) = InitialSequence[a]
  BY <1>1 DEF SeqOf
<1> QED BY <1>1, <1>2, <1>3, <1>4 DEF AheadInv, Behind

\* Every step keeps every account from being ahead, and no step takes one back
\* that is not.
LEMMA AheadNext ==
    ASSUME BroadcastInv, \A a \in Accounts : AheadInv(a), [Next]_vars
    PROVE  \A a \in Accounts : /\ AheadInv(a)'
                               /\ txIndex'[a] < txIndex[a] => drops[a] > 0 \/ Behind(a)
<1>i. TypeOK /\ \A b \in Accounts : AccountInv(b) /\ txIndex[b] \in Int
  BY AccountTypes, Zenon DEF BroadcastInv, AccountInv
<1>d. \A b \in Accounts : drops[b] \in Nat
  BY <1>i, BroadcastAssumption DEF TypeOK
<1> TAKE a \in Accounts
<1>0. AheadInv(a)
  OBVIOUS
<1>1. CASE UNCHANGED vars \/ Interrupt \/ GroupReturns
  <2>1. UNCHANGED <<txIndex, pc, drops, node(a)>>
    BY <1>1, Zenon DEF Interrupt, GroupReturns, vars, client, blocks, memory, history, node
  <2> QED BY <1>0, <1>i, <2>1, AheadSame
<1>2. CASE Restart
  <2>1. /\ UNCHANGED <<txIndex, pc, result>>
        /\ check'[a] = committed[a] /\ cache'[a] = {}
        /\ drops'[a] = IF committed[a] < check[a] THEN drops[a] + 1 ELSE drops[a]
    BY <1>2, Zenon DEF Restart, client, blocks
  <2>2. ~(txIndex'[a] < txIndex[a])
    BY <1>i, <2>1
  <2>3. CASE committed[a] < check[a]
    <3>1. drops'[a] # 0
      BY <1>d, <2>1, <2>3
    <3> QED BY <1>0, <2>1, <2>2, <3>1, Zenon DEF AheadInv, SeqOf
  <2>4. CASE ~(committed[a] < check[a])
    <3>1. committed[a] <= check[a] /\ committed[a] \in Nat /\ check[a] \in Nat
      BY <1>i, AccountTypes, Zenon DEF AccountInv, NodeInv
    <3>2. check'[a] = check[a] /\ drops'[a] = drops[a]
      BY <2>1, <2>4, <3>1
    <3> QED BY <1>0, <2>1, <2>2, <3>2, Zenon DEF AheadInv, SeqOf, Behind
  <2> QED BY <2>3, <2>4
<1>3. ASSUME NEW b \in Accounts, Account(b) \/ Node(b)
      PROVE  AheadInv(a)' /\ (txIndex'[a] < txIndex[a] => drops[a] > 0 \/ Behind(a))
  <2>1. CASE b = a
    <3>1. CASE Account(a)
      BY <1>0, <1>i, <3>1, AheadAccount
    <3>2. CASE Node(a)
      BY <1>0, <1>i, <3>2, AheadNode
    <3> QED BY <1>3, <2>1, <3>1, <3>2
  <2>2. CASE b # a
    <3>1. UNCHANGED <<txIndex[a], pc[a], node(a)>>
      BY <1>3, <1>i, <2>2, OtherAccounts
    <3>2. drops' = drops \/ drops' = [drops EXCEPT ![b] = @ + 1]
      BY <1>3, Zenon DEF Account, Progress, SendTx, AccountDone, IndexPanics, ContextEnded, TxAccepted,
         TxInCache, WrongSequence, AwaitOk, AwaitWrongSequence, AwaitFailed, AwaitTimesOut,
         SendFails, AnswerLost, CheckTxPasses, Node, Execute, ForeignTx, ForeignBlock,
         RecheckDrops, CacheForgets, history
    <3>3. drops'[a] = drops[a]
      BY <1>i, <2>2, <3>2, Zenon DEF TypeOK
    <3> QED BY <1>0, <1>i, <3>1, <3>3, AheadSame
  <2> QED BY <2>1, <2>2
<1> QED BY <1>1, <1>2, <1>3, Zenon DEF Next

\* An account goes back to an earlier transaction (stresser.go:412-422) only when
\* the node lost some of it that it had taken in, or started behind.
THEOREM BackOnlyAfterLossCorrect == Spec => BackOnlyAfterLoss
<1> DEFINE Ahead == \A a \in Accounts : AheadInv(a)
           Back  == \A a \in Accounts : txIndex'[a] < txIndex[a] => drops[a] > 0 \/ Behind(a)
<1>1. Init => Ahead
  BY AheadInit
<1>2. BroadcastInv /\ Ahead /\ [Next]_vars => Ahead' /\ [Back]_vars
  BY AheadNext
<1> HIDE DEF Ahead
<1>3. Spec => []Ahead /\ [][Back]_vars
  BY <1>1, <1>2, BroadcastInvariant, PTL DEF Spec
<1> QED BY <1>3, Zenon DEF BackOnlyAfterLoss
=============================================================================
