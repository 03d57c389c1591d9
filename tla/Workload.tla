----------------------------- MODULE Workload -----------------------------
(***************************************************************************)
(* A stress run as its chain sees it: the initial transactions that set it *)
(* up (createAndBroadcastInitialTxs, src/stresser.go:632-741) and the      *)
(* traffic that relies on them, with the providers' state in between.      *)
(*                                                                         *)
(* How the traffic is queued, signed in parallel and broadcast again after *)
(* errors is the subject of Prepare and Broadcast; here an account stops   *)
(* at the first transaction the node refuses. The chain is external.       *)
(***************************************************************************)
EXTENDS MixedPayload, FiniteSets

CONSTANTS
    NumKeys,        \* the number of accounts
    MaxParallel,    \* maxParallelInitialTxsBroadcasts
    Attempts,       \* of retry.Do
    Settings        \* what to run with: the providers, their frequencies, the number
                    \* of transactions, the chain as providers see it, and bounds on
                    \* what may happen to it: codes others store, losses of a mempool

Keys == 0..(NumKeys - 1)

ASSUME WorkloadAssumption ==
    /\ {NumKeys, MaxParallel, Attempts, OpsPerTx} \subseteq Nat \ {0}
    /\ \A s \in Settings :
          /\ {s.transactions, s.foreign, s.losses} \subseteq Nat
          /\ DOMAIN s.providers = DOMAIN s.frequencies
          /\ \A i \in DOMAIN s.providers : IsProvider(s.providers[i])

VARIABLES
    setting,    \* the one this run has
    providers,  \* their state
    phase,      \* initial, pool, traffic, send; failed, panicked or died
    key,        \* the loop over the keys
    account,    \* each account's sequence as it was fetched
    initialTx,  \* NoTx for none
    worker,     \* each initial transaction in the pool
    attempt,    \* attempts that failed
    signed,     \* what each worker has signed last
    copies,     \* and all that it has signed (history)
    pc,         \* where each account's traffic is
    draft,      \* what it has generated and not signed
    queue,      \* what it has signed and not sent
    node,       \* codes, contracts, light accounts
    sequence,   \* of each account on the chain
    mempool,
    results,    \* executed transactions
    lost        \* whether the mempool lost any (history)

txs     == <<initialTx, signed, copies>>
pool    == <<txs, worker, attempt>>
traffic == <<pc, draft, queue>>
chain   == <<node, sequence, mempool, results, lost>>
vars    == <<setting, providers, phase, key, account, pool, traffic, chain>>

Active == phase \notin {"failed", "panicked", "died"}
-----------------------------------------------------------------------------
(* The chain                                                               *)

Pending(k) == {tx \in mempool : tx.from = k}

\* The sequence CheckTx expects.
Expected(k) == sequence[k] + Cardinality(Pending(k))

\* An Ethereum message is taken only with the signature and the extension of
\* one; the other messages only with an sdk signature.
AnteAccepts(tx) ==
    /\ tx.sequence = Expected(tx.from)
    /\ tx.signature[1] = tx.from /\ tx.signature[2] = setting.node.chainID
    /\ (tx.mode = "eth") <=> (tx.msgs[1].type = "MsgEthereumTx")

\* The code a message leaves the chain in, and whether it did what it is for:
\* a call of an address without code succeeds and does nothing.
Instantiates(n, id) == id \in DOMAIN n.codes /\ n.codes[id] = "cw20"

DoMsg(n, msg, from) ==
    LET Same(ok) == [ok |-> ok, node |-> n]
        Becomes(next) == [ok |-> TRUE, node |-> next]
    IN  CASE msg.type = "MsgSend" -> Same(TRUE)
          [] msg.type = "MsgMultiSend" ->
                Same(msg.input = FoldFunction(LAMBDA o, sum : sum + o.amount, 0, msg.outputs))
          [] msg.type = "MsgBatchUpdateOrders" ->
                Same(msg.cancelDerivative \o msg.cancelSpot # << >> => msg.subaccount # << >>)
          [] msg.type = "MsgStoreCode" -> Becomes([n EXCEPT !.codes = Append(@, msg.code)])
          [] msg.type = "MsgInstantiateContract" -> Same(Instantiates(n, msg.codeID))
          [] msg.type = "MsgInstantiateContract2" ->
                IF Instantiates(n, msg.codeID)
                THEN Becomes([n EXCEPT !.code = @ \union {<<"inst2",
                        <<"sha256", n.codes[msg.codeID]>>, from, msg.salt, msg.initArgs>>}])
                ELSE Same(FALSE)
          [] msg.type = "MsgExecuteContract" -> Same(msg.contract \in n.code)
          [] msg.type = "MsgEthereumTx" ->
                CASE msg.to = NoAddress ->
                        Becomes([n EXCEPT !.code = @ \union {CreateAddress(from, msg.nonce)}])
                  [] msg.to # NoAddress /\ msg.to[1] = "key" -> Same(TRUE)
                  [] msg.data # << >> /\ msg.data[1] = "depositTo" ->
                        Becomes([n EXCEPT !.deposit[msg.data[2]] = @ + msg.value])
                  [] msg.data # << >> /\ msg.data[1] = "handleOps" ->
                        LET ops == msg.data[2]
                            after[j \in 0..Len(ops)] ==
                                IF j = 0 THEN Same(TRUE)
                                ELSE IF /\ after[j - 1].ok
                                        /\ Accepts(after[j - 1].node, Entrypoint, ops[j])
                                THEN Becomes(HandleOp(after[j - 1].node, ops[j]))
                                ELSE Same(FALSE)
                        IN  after[Len(ops)]
                  [] OTHER -> Same(msg.to \in n.code)

\* All of a transaction's messages take effect, or none.
DoTx(n, tx) ==
    LET after[j \in 0..Len(tx.msgs)] ==
            IF j = 0 THEN [ok |-> TRUE, node |-> n]
            ELSE IF after[j - 1].ok THEN DoMsg(after[j - 1].node, tx.msgs[j], tx.from)
            ELSE after[j - 1]
        done == after[Len(tx.msgs)]
    IN  IF done.ok THEN done ELSE [ok |-> FALSE, node |-> n]

Include(k) ==
    \E tx \in Pending(k) :
        LET done == DoTx(node, tx)
        IN  /\ tx.sequence = sequence[k]
            /\ sequence' = [sequence EXCEPT ![k] = @ + 1]
            /\ mempool' = mempool \ {tx}
            /\ node' = done.node
            /\ results' = results \union {[tx |-> tx, ok |-> done.ok]}
            /\ UNCHANGED <<setting, providers, phase, key, account, pool, traffic, lost>>

\* A restart, an eviction: what an account has pending goes, and what follows.
MempoolLoses(k) ==
    /\ Pending(k) # {}
    /\ ~lost /\ setting.losses > 0
    /\ \E tx \in Pending(k) :
          mempool' = mempool \ {other \in Pending(k) : other.sequence >= tx.sequence}
    /\ lost' = TRUE
    /\ UNCHANGED <<setting, providers, phase, key, account, pool, traffic, node, sequence, results>>

\* Others store code.
ForeignStore ==
    /\ Cardinality({id \in DOMAIN node.codes : node.codes[id] = "foreign"}) < setting.foreign
    /\ node' = [node EXCEPT !.codes = Append(@, "foreign")]
    /\ UNCHANGED <<setting, providers, phase, key, account, pool, traffic, sequence, mempool,
                   results, lost>>
-----------------------------------------------------------------------------
Init ==
    /\ setting \in Settings
    /\ providers = setting.providers
    /\ node = setting.node
    /\ phase = "initial"
    /\ key = 0
    /\ account = [k \in Keys |-> 0]
    /\ initialTx = [k \in Keys |-> NoTx]
    /\ worker = [k \in Keys |-> "none"]
    /\ attempt = [k \in Keys |-> 0]
    /\ signed = [k \in Keys |-> Panic]
    /\ copies = [k \in Keys |-> {}]
    /\ pc = [k \in Keys |-> "fetch"]
    /\ draft = [k \in Keys |-> NoTx]
    /\ queue = [k \in Keys |-> << >>]
    /\ sequence = [k \in Keys |-> 5]
    /\ mempool = {}
    /\ results = {}
    /\ lost = FALSE

Request(k, seq, keys, txIdx) ==
    [from |-> k, number |-> k, sequence |-> seq, fromIdx |-> k, txIdx |-> txIdx, keys |-> keys]

-----------------------------------------------------------------------------
(* createAndBroadcastInitialTxs                                            *)

\* getAccountNumberSequence or a query of the provider failed for good.
InitialTxFails ==
    /\ phase = "initial"
    /\ phase' = "failed"
    /\ UNCHANGED <<setting, providers, key, account, pool, traffic, chain>>

\* One key of the loop, which ends with the pool or, without any transaction, here.
CreateInitialTx ==
    /\ phase = "initial"
    /\ account' = [account EXCEPT ![key] = sequence[key]]
    /\ \E i \in selectProvider(setting.frequencies) :
          LET made == GenerateInitialTx(providers[i], Request(key, sequence[key], 1, 0), node)
              some == made.tx # NoTx
          IN  /\ providers' = [providers EXCEPT ![i] = made.provider]
              /\ initialTx' = [initialTx EXCEPT ![key] = made.tx]
              /\ worker' = [worker EXCEPT ![key] = IF some THEN "queued" ELSE "none"]
              /\ key' = key + 1
              /\ phase' = IF ~made.ok THEN "failed"
                          ELSE IF key + 1 < NumKeys THEN "initial"
                          ELSE IF some \/ \E k \in Keys : worker[k] # "none" THEN "pool"
                          ELSE "traffic"
    /\ UNCHANGED <<setting, attempt, signed, copies, traffic, chain>>

Working == {k \in Keys : worker[k] \in {"retry", "submit", "await"}}

\* Faulty: attempts are not counted.
AttemptFailsUncounted(k) ==
    /\ worker' = [worker EXCEPT ![k] = "retry"]
    /\ UNCHANGED attempt

AttemptFails(k) ==
    /\ attempt' = [attempt EXCEPT ![k] = @ + 1]
    /\ worker' = [worker EXCEPT ![k] = IF attempt[k] + 1 < Attempts THEN "retry" ELSE "gaveup"]

\* Faulty: every attempt is signed for the sequence that is next by then.
SignAfresh(k) ==
    /\ phase = "pool"
    /\ \/ worker[k] = "retry"
       \/ worker[k] = "queued" /\ Cardinality(Working) < MaxParallel
    /\ \E i \in selectProvider(setting.frequencies) :
          LET tx == BuildAndSignTx(providers[i], [initialTx[k] EXCEPT !.sequence = sequence[k]])
          IN  /\ signed' = [signed EXCEPT ![k] = tx]
              /\ copies' = [copies EXCEPT ![k] = @ \union {tx}]
              /\ worker' = [worker EXCEPT ![k] = "submit"]
    /\ UNCHANGED <<setting, providers, phase, key, account, initialTx, attempt, traffic, chain>>

\* An attempt begins by signing the same transaction again. A panic is caught
\* and ends the process.
SignInitialTx(k) ==
    /\ phase = "pool"
    /\ \/ worker[k] = "retry"
       \/ worker[k] = "queued" /\ Cardinality(Working) < MaxParallel
    /\ \E i \in selectProvider(setting.frequencies) :
          LET tx == BuildAndSignTx(providers[i], initialTx[k])
          IN  /\ signed' = [signed EXCEPT ![k] = tx]
              /\ IF tx.panics
                 THEN phase' = "panicked" /\ UNCHANGED <<worker, copies>>
                 ELSE /\ worker' = [worker EXCEPT ![k] = "submit"]
                      /\ copies' = [copies EXCEPT ![k] = @ \union {tx}]
                      /\ UNCHANGED phase
    /\ UNCHANGED <<setting, providers, key, account, initialTx, attempt, traffic, chain>>

\* The node takes the transaction in and says so.
Accepted(k) ==
    /\ phase = "pool" /\ worker[k] = "submit"
    /\ AnteAccepts(signed[k])
    /\ mempool' = mempool \union {signed[k]}
    /\ worker' = [worker EXCEPT ![k] = "await"]
    /\ UNCHANGED <<setting, providers, phase, key, account, txs, attempt, traffic,
                   node, sequence, results, lost>>

\* "tx in mempool - all is ok": the node's cache remembers it, executed or not.
InMempoolCache(k) ==
    /\ phase = "pool" /\ worker[k] = "submit"
    /\ signed[k] \in mempool \union {r.tx : r \in results}
    /\ worker' = [worker EXCEPT ![k] = "await"]
    /\ UNCHANGED <<setting, providers, phase, key, account, txs, attempt, traffic,
                   chain>>

Rejected(k) ==
    /\ phase = "pool" /\ worker[k] = "submit"
    /\ ~AnteAccepts(signed[k])
    /\ AttemptFails(k)
    /\ UNCHANGED <<setting, providers, phase, key, account, txs, traffic, chain>>

\* No answer before requestTimeout: the mempool was full all the while, the
\* request was lost, or the transaction was taken in and the answer lost.
RequestTimeout(k) ==
    /\ phase = "pool" /\ worker[k] = "submit"
    /\ AttemptFails(k)
    /\ \/ UNCHANGED mempool
       \/ AnteAccepts(signed[k]) /\ mempool' = mempool \union {signed[k]}
    /\ UNCHANGED <<setting, providers, phase, key, account, txs, traffic,
                   node, sequence, results, lost>>

Confirmed(k) ==
    /\ phase = "pool" /\ worker[k] = "await"
    /\ \E r \in results :
          /\ r.tx = signed[k]
          /\ IF r.ok THEN worker' = [worker EXCEPT ![k] = "done"] /\ UNCHANGED attempt
                     ELSE AttemptFails(k)
    /\ UNCHANGED <<setting, providers, phase, key, account, txs, traffic, chain>>

\* confirmTimeout.
ConfirmTimeout(k) ==
    /\ phase = "pool" /\ worker[k] = "await"
    /\ AttemptFails(k)
    /\ UNCHANGED <<setting, providers, phase, key, account, txs, traffic, chain>>

\* Faulty: the pool is stopped and its workers are not waited for.
PoolAbandoned ==
    /\ phase = "pool"
    /\ \A k \in Keys : worker[k] # "queued"
    /\ phase' = "traffic"
    /\ UNCHANGED <<setting, providers, key, account, pool, traffic, chain>>

\* pool.StopWait. That all attempts of a transaction failed is only logged.
PoolStops ==
    /\ phase = "pool"
    /\ \A k \in Keys : worker[k] \in {"none", "done", "gaveup"}
    /\ phase' = "traffic"
    /\ UNCHANGED <<setting, providers, key, account, pool, traffic, chain>>
-----------------------------------------------------------------------------
(* The traffic                                                             *)

FetchSequence(k) ==
    /\ phase = "traffic" /\ pc[k] = "fetch"
    /\ account' = [account EXCEPT ![k] = sequence[k]]
    /\ pc' = [pc EXCEPT ![k] = IF setting.transactions = 0 THEN "ready" ELSE "generate"]
    /\ UNCHANGED <<setting, providers, phase, key, pool, draft, queue, chain>>

GenerateTraffic(k) ==
    /\ phase = "traffic" /\ pc[k] = "generate"
    /\ \E i \in selectProvider(setting.frequencies) :
          \E made \in GenerateTx(providers[i], Request(k, account[k] + Len(queue[k]), NumKeys,
                                                       Len(queue[k]))) :
             /\ providers' = [providers EXCEPT ![i] = made.provider]
             /\ draft' = [draft EXCEPT ![k] = made.tx]
             /\ IF made.ok
                THEN pc' = [pc EXCEPT ![k] = "sign"] /\ UNCHANGED phase
                ELSE phase' = "failed" /\ UNCHANGED pc
    /\ UNCHANGED <<setting, key, account, pool, queue, chain>>

\* Two goroutines at the random source of a mix, or at the map of nonces, at
\* once: the runtime notices and ends the process, or nothing is harmed. A draw
\* may come out as anything already, and all the map's keys are there, so that
\* a write touches an entry of the account's own.
RaceDetected ==
    /\ phase = "traffic"
    /\ Len(providers) > 1 \/ providers[1].kind = "eth_userop"
    /\ LET racing == IF Len(providers) > 1 THEN {"generate", "sign"} ELSE {"generate"}
       IN  \E j, k \in Keys : j # k /\ {pc[j], pc[k]} \subseteq racing
    /\ phase' = "died"
    /\ UNCHANGED <<setting, providers, key, account, pool, traffic, chain>>

SignTraffic(k) ==
    /\ phase = "traffic" /\ pc[k] = "sign"
    /\ \E i \in selectProvider(setting.frequencies) :
          LET tx == BuildAndSignTx(providers[i], draft[k])
          IN  IF tx.panics
              THEN /\ phase' = "panicked"
                   /\ UNCHANGED <<pc, queue>>
              ELSE /\ queue' = [queue EXCEPT ![k] = Append(@, tx)]
                   /\ pc' = [pc EXCEPT ![k] = IF Len(queue[k]) + 1 < setting.transactions
                                              THEN "generate" ELSE "ready"]
                   /\ UNCHANGED phase
    /\ UNCHANGED <<setting, providers, key, account, pool, draft, chain>>

\* All are prepared: the broadcast phase begins.
StartSending ==
    /\ phase = "traffic"
    /\ \A k \in Keys : pc[k] = "ready"
    /\ phase' = "send"
    /\ UNCHANGED <<setting, providers, key, account, pool, traffic, chain>>

Send(k) ==
    /\ phase = "send" /\ pc[k] = "ready" /\ queue[k] # << >>
    /\ IF AnteAccepts(Head(queue[k]))
       THEN /\ mempool' = mempool \union {Head(queue[k])}
            /\ queue' = [queue EXCEPT ![k] = Tail(@)]
            /\ UNCHANGED pc
       ELSE /\ pc' = [pc EXCEPT ![k] = "refused"]
            /\ UNCHANGED <<mempool, queue>>
    /\ UNCHANGED <<setting, providers, phase, key, account, pool, draft, node, sequence, results,
                   lost>>

Finished ==
    /\ mempool = {}
    /\ \/ ~Active
       \/ phase = "send" /\ \A k \in Keys : pc[k] = "refused" \/ queue[k] = << >>
    /\ UNCHANGED vars

Work(k) ==
    \/ SignInitialTx(k) \/ Accepted(k) \/ InMempoolCache(k) \/ Rejected(k)
    \/ RequestTimeout(k) \/ Confirmed(k) \/ ConfirmTimeout(k)

Traffic(k) == FetchSequence(k) \/ GenerateTraffic(k) \/ SignTraffic(k) \/ Send(k)

Next ==
    \/ InitialTxFails \/ CreateInitialTx \/ PoolStops \/ RaceDetected \/ StartSending
    \/ ForeignStore \/ Finished
    \/ \E k \in Keys : Work(k) \/ Traffic(k) \/ Include(k) \/ MempoolLoses(k)

Spec == Init /\ [][Next]_vars

\* Goroutines run and timeouts expire; the node need not answer.
Fairness ==
    /\ WF_vars(CreateInitialTx)
    /\ WF_vars(PoolStops)
    /\ \A k \in Keys : WF_vars(SignInitialTx(k) \/ RequestTimeout(k) \/ ConfirmTimeout(k))

FairSpec == Spec /\ Fairness
-----------------------------------------------------------------------------
(***************************************************************************)
(* Properties.                                                             *)
(***************************************************************************)
InitialResults(k) == {r \in results : r.tx \in copies[k]}

\* However often an initial transaction is signed and broadcast again
\* (stresser.go:698-732), after lost answers, timeouts and refusals, it is
\* executed at most once; and one that counts as broadcast took effect.
SetupOnce ==
    \A k \in Keys :
        /\ Cardinality(InitialResults(k)) <= 1
        /\ worker[k] = "done" => \E r \in InitialResults(k) : r.ok

NeedsSetup(p) == p.kind \in {"wasm_init_contract", "wasm_exec_contract"}
Provisioned   == \A i \in DOMAIN providers : NeedsSetup(providers[i]) => providers[i].codeID > 0

OneSigner ==
    \A i, j \in DOMAIN providers : providers[i].kind \in Signs <=> providers[j].kind \in Signs

\* Code of others has the id that traffic of its own transactions will name.
Displaced ==
    \E i \in DOMAIN providers :
        /\ providers[i].kind = "wasm_init_contract"
        /\ providers[i].codeID \in DOMAIN node.codes
        /\ node.codes[providers[i].codeID] = "foreign"

\* With the set-up confirmed, what the providers predicted then (code ids,
\* contract addresses, nonces of light accounts; wasm_exec_stress.go:150-162,
\* eth_call_stress.go:157, eth_userop_stress.go:276) is what the traffic finds
\* on the chain: every transaction of it does what it is for, in whatever order
\* the accounts' transactions are executed and whatever code others store, since
\* wasm_exec_contract instantiates in the transaction that stores: a wrong id
\* fails the set-up itself. wasm_init_contract only stores in it, and is left out
\* when code of others got the id first.
TrafficSucceeds ==
    (Provisioned /\ ~Displaced /\ \A k \in Keys : worker[k] \in {"none", "done"}) =>
        \A r \in results : r.ok

\* An account's traffic follows on from its initial transaction: unless that was
\* given up on (stresser.go:733) or the node lost something, the first sequence
\* of the traffic is fetched after it and nothing is refused. It takes the chain
\* ID of the node (cmd/chain-stresser/main.go:79) and a mix that signs in one way:
\* what one payload has made another may sign (mixed_payload.go:281).
TrafficFits ==
    (OneSigner /\ setting.node.chainID = ChainID) =>
        \A k \in Keys : pc[k] = "refused" => lost \/ worker[k] = "gaveup"

\* The set-up comes to an end, whatever the node answers or does not
\* (chain/client.go:128 retries a full mempool without a limit of its own).
SetupEnds == phase \in {"initial", "pool"} ~> phase \notin {"initial", "pool"}

\* ethTxBuilderAndSigner (eth_signer.go:24) is handed Ethereum transactions only,
\* as its type assertion has it, when "multiple transaction types" run
\* "simultaneously" (README.md:63).
SignerGetsItsOwn == phase # "panicked"
=============================================================================
