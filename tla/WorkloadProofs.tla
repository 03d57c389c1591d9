--------------------------- MODULE WorkloadProofs ---------------------------
(***************************************************************************)
(* What holds of the set-up and of the traffic for any number of accounts, *)
(* parallel workers and attempts, and any mix of providers.                *)
(***************************************************************************)
EXTENDS Workload, FiniteSetTheorems, SequenceTheorems, TLAPS

\* Transactions whose sequences are the ones from a on, without a gap.
RunFrom(S, a) ==
    /\ IsFiniteSet(S)
    /\ \A t \in S : t.sequence \in a..(a + Cardinality(S) - 1)
    /\ \A n \in a..(a + Cardinality(S) - 1) : \E t \in S : t.sequence = n
    /\ \A t, u \in S : t.sequence = u.sequence => t = u

\* A transaction of account k for sequence n; an Ethereum message says so again.
MadeFor(tx, k, n) ==
    /\ tx.from = k /\ tx.sequence = n
    /\ tx.msgs[1].type = "MsgEthereumTx" => tx.msgs[1].nonce = n

\* What the node takes when n is next.
Fits(tx, k, n) ==
    /\ tx.from = k /\ tx.sequence = n
    /\ tx.signature[1] = k /\ tx.signature[2] = ChainID
    /\ OneSigner => (tx.mode = "eth" <=> tx.msgs[1].type = "MsgEthereumTx")

IsSeq(s) == s \in Seq({s[j] : j \in DOMAIN s})

ProvidersInv ==
    /\ setting \in Settings
    /\ DOMAIN providers = DOMAIN setting.providers
    /\ \A i \in DOMAIN providers : IsProvider(providers[i])

\* The chain: what is pending follows on from what is executed.
ChainInv ==
    /\ sequence \in [Keys -> Nat]
    /\ \A k \in Keys : RunFrom(Pending(k), sequence[k])
    /\ \A r \in results : r.tx.from \in Keys /\ r.tx.sequence \in Nat
                          /\ r.tx.sequence < sequence[r.tx.from]
    /\ \A r, s \in results :
          r.tx.from = s.tx.from /\ r.tx.sequence = s.tx.sequence => r = s

\* The initial transactions: all that a worker has signed is for one sequence.
PoolInv ==
    /\ phase = "initial" => key \in Keys
    /\ worker \in [Keys -> {"none", "queued", "retry", "submit", "await", "done", "gaveup"}]
    /\ DOMAIN initialTx = Keys /\ DOMAIN signed = Keys /\ DOMAIN copies = Keys
    /\ phase = "initial" => \A k \in Keys : worker[k] \in {"none", "queued"} /\ copies[k] = {}
    /\ phase \in {"traffic", "send"} =>
          \A k \in Keys : worker[k] \in {"none", "done", "gaveup"}
    /\ \A k \in Keys :
          /\ worker[k] = "none" => copies[k] = {}
          /\ worker[k] # "none" => MadeFor(initialTx[k], k, initialTx[k].sequence)
          /\ worker[k] \in {"submit", "await", "done"} => signed[k] \in copies[k]
          /\ worker[k] = "done" => \E r \in results : r.tx = signed[k] /\ r.ok
          /\ \A c \in copies[k] : c.from = k /\ c.sequence = initialTx[k].sequence

\* Before the traffic is sent, all that is pending is initial.
QuietInv == phase # "send" => \A tx \in mempool : tx.from \in Keys /\ tx \in copies[tx.from]

\* What account k has signed and not sent continues what the node has of it.
InStep(k) ==
    /\ \A j \in DOMAIN queue[k] : Fits(queue[k][j], k, Expected(k) + j - 1)
    /\ phase = "traffic" => account[k] = Expected(k)

\* What it has generated is next, and of the kind some provider makes.
DraftFits(k) ==
    /\ MadeFor(draft[k], k, account[k] + Len(queue[k]))
    /\ \E i \in DOMAIN providers :
          draft[k].msgs[1].type = "MsgEthereumTx" <=> providers[i].kind \in Signs

\* The traffic of account k.
TrafficOf(k) ==
    /\ IsSeq(queue[k])
    /\ \A j \in DOMAIN queue[k] : queue[k][j].from = k
    /\ pc[k] = "fetch" => queue[k] = << >>
    /\ phase = "traffic" => pc[k] # "refused"
    /\ phase \in {"initial", "pool"} => pc[k] = "fetch"
    /\ phase = "send" => pc[k] \in {"ready", "refused"}
    /\ phase = "traffic" /\ pc[k] = "sign" => DraftFits(k)
    /\ \/ phase \notin {"traffic", "send"} \/ pc[k] \in {"fetch", "refused"}
       \/ lost \/ worker[k] = "gaveup"
       \/ InStep(k)

TrafficInv ==
    /\ account \in [Keys -> Nat]
    /\ pc \in [Keys -> {"fetch", "generate", "sign", "ready", "refused"}]
    /\ DOMAIN queue = Keys /\ DOMAIN draft = Keys
    /\ \A k \in Keys : TrafficOf(k)

WorkloadInv ==
    ProvidersInv /\ ChainInv /\ PoolInv /\ QuietInv /\ TrafficInv /\ TrafficFits
-----------------------------------------------------------------------------
(* The providers                                                           *)

\* What the Ethereum signer makes of a transaction, unless it panics.
LEMMA EthSigned ==
    ASSUME NEW tx, NEW k, NEW n, MadeFor(tx, k, n),
           ~ethBuildAndSignTx(tx).panics
    PROVE  LET s == ethBuildAndSignTx(tx) IN
           /\ s.from = k /\ s.sequence = n
           /\ s.signature[1] = k /\ s.signature[2] = ChainID
           /\ s.mode = "eth" /\ s.msgs[1].type = "MsgEthereumTx"
BY Zenon DEF ethBuildAndSignTx, MadeFor, Panic

\* And chain.Client, for the other providers.
LEMMA CosmosSigned ==
    ASSUME NEW tx, NEW k, NEW n, MadeFor(tx, k, n), NEW gas, NEW price, NEW memo
    PROVE  LET s == buildAndSignTx(tx, gas, price, memo) IN
           /\ s.from = k /\ s.sequence = n
           /\ s.signature[1] = k /\ s.signature[2] = ChainID
           /\ s.mode = "cosmos" /\ s.msgs = tx.msgs
BY Zenon DEF buildAndSignTx, signTx, MadeFor

\* Whichever provider signs, the transaction stays its account's and keeps its
\* sequence; only its kind may not fit the signature.
LEMMA Signed ==
    ASSUME NEW p, IsProvider(p), NEW tx, NEW k, NEW n, MadeFor(tx, k, n),
           ~BuildAndSignTx(p, tx).panics
    PROVE  LET s == BuildAndSignTx(p, tx) IN
           /\ s.from = k /\ s.sequence = n
           /\ s.signature[1] = k /\ s.signature[2] = ChainID
           /\ (tx.msgs[1].type = "MsgEthereumTx" <=> p.kind \in Signs) =>
                 (s.mode = "eth" <=> s.msgs[1].type = "MsgEthereumTx")
<1>1. CASE p.kind \in Signs
    <2>1. BuildAndSignTx(p, tx) = ethBuildAndSignTx(tx)
        BY <1>1, Zenon DEF BuildAndSignTx, Signs
    <2> QED  BY <2>1, EthSigned
<1>2. CASE p.kind \notin Signs
    <2>1. BuildAndSignTx(p, tx) = buildAndSignTx(tx, p.gas, p.price, p.memo)
        BY <1>2, Zenon DEF BuildAndSignTx, IsProvider, Kinds, bankSendBuildAndSignTx,
                    bankMultiSendBuildAndSignTx, exchangeBuildAndSignTx, wasmStoreBuildAndSignTx,
                    wasmInitBuildAndSignTx, wasmExecBuildAndSignTx
    <2> HIDE DEF MadeFor, buildAndSignTx
    <2>2. LET s == buildAndSignTx(tx, p.gas, p.price, p.memo) IN
           /\ s.from = k /\ s.sequence = n
           /\ s.signature[1] = k /\ s.signature[2] = ChainID
           /\ s.mode = "cosmos" /\ s.msgs = tx.msgs
        BY CosmosSigned
    <2> QED  BY <1>2, <2>1, <2>2, Zenon
<1> QED  BY <1>1, <1>2, Zenon

\* What a call of GenerateTx or GenerateInitialTx leaves of provider p, and a
\* transaction it makes for the request.
Makes(p, req, made) ==
    /\ IsProvider(made.provider) /\ made.provider.kind = p.kind
    /\ (made.ok /\ made.tx # NoTx) => MadeFor(made.tx, req.from, req.sequence)

MakesOwn(p, req, made) ==
    /\ IsProvider(made.provider) /\ made.provider.kind = p.kind
    /\ made.ok => /\ MadeFor(made.tx, req.from, req.sequence)
                  /\ made.tx.msgs[1].type = "MsgEthereumTx" <=> p.kind \in Signs

\* A provider that only keeps something new is the provider it was.
LEMMA Kept ==
    ASSUME NEW p, IsProvider(p), NEW q, DOMAIN q = DOMAIN p, q.kind = p.kind
    PROVE  IsProvider(q) /\ q.kind = p.kind
BY Zenon DEF IsProvider

\* A message of the Cosmos chain, and one of the EVM's.
LEMMA CosmosMade ==
    ASSUME NEW p, IsProvider(p), p.kind \notin Signs, NEW req, NEW msgs,
           msgs[1].type # "MsgEthereumTx"
    PROVE  MakesOwn(p, req, Returns(p, baseTx(req, msgs)))
BY Zenon DEF MakesOwn, Returns, baseTx, MadeFor

LEMMA EthMade ==
    ASSUME NEW p, IsProvider(p), p.kind \in Signs, NEW req, NEW to, NEW value, NEW gas,
           NEW price, NEW data, NEW q, IsProvider(q), q.kind = p.kind
    PROVE  MakesOwn(p, req, Returns(q, baseTx(req, <<LegacyTx(req, to, value, gas, price, data)>>)))
BY Zenon DEF MakesOwn, Returns, baseTx, MadeFor, LegacyTx

LEMMA NotMade ==
    ASSUME NEW p, IsProvider(p), NEW req
    PROVE  MakesOwn(p, req, Error(p))
BY Zenon DEF MakesOwn, Error

LEMMA TrafficMade ==
    ASSUME NEW p, IsProvider(p), NEW req, NEW made \in GenerateTx(p, req)
    PROVE  MakesOwn(p, req, made)
<1>1. CASE p.kind = "bank_send"
    <2>1. made = bankSendGenerateTx(p, req)
        BY <1>1 DEF GenerateTx
    <2> QED  BY <1>1, <2>1, CosmosMade, Zenon DEF bankSendGenerateTx, Signs
<1>2. CASE p.kind = "bank_multi_send"
    <2>1. made = bankMultiSendGenerateTx(p, req)
        BY <1>2 DEF GenerateTx
    <2> QED  BY <1>2, <2>1, CosmosMade, Zenon DEF bankMultiSendGenerateTx, Signs
<1>3. CASE p.kind = "wasm_store_code"
    <2>1. made = wasmStoreGenerateTx(p, req)
        BY <1>3 DEF GenerateTx
    <2> QED  BY <1>3, <2>1, CosmosMade, Zenon DEF wasmStoreGenerateTx, Signs, MsgStoreCode
<1>4. CASE p.kind = "wasm_init_contract"
    <2>1. made = wasmInitGenerateTx(p, req)
        BY <1>4 DEF GenerateTx
    <2> QED  BY <1>4, <2>1, CosmosMade, Zenon DEF wasmInitGenerateTx, Signs
<1>5. CASE p.kind = "wasm_exec_contract"
    <2>1. made = wasmExecGenerateTx(p, req)
        BY <1>5 DEF GenerateTx
    <2> QED  BY <1>5, <2>1, CosmosMade, Zenon DEF wasmExecGenerateTx, Signs
<1>6. CASE p.kind = "eth_send"
    <2>1. made = ethSendGenerateTx(p, req)
        BY <1>6 DEF GenerateTx
    <2> QED  BY <1>6, <2>1, EthMade, Zenon DEF ethSendGenerateTx, Signs
<1>7. CASE p.kind = "eth_call"
    <2>1. made = ethCallGenerateTx(p, req)
        BY <1>7 DEF GenerateTx
    <2>2. CASE p.address = NoAddress
        BY <2>1, <2>2, NotMade, Zenon DEF ethCallGenerateTx
    <2>3. CASE p.address # NoAddress
        BY <1>7, <2>1, <2>3, EthMade, Zenon DEF ethCallGenerateTx, Signs
    <2> QED  BY <2>2, <2>3, Zenon
<1>8. CASE p.kind = "eth_internal_call"
    <2>1. made = ethInternalCallGenerateTx(p, req)
        BY <1>8 DEF GenerateTx
    <2>2. CASE p.address = NoAddress
        BY <2>1, <2>2, NotMade, Zenon DEF ethInternalCallGenerateTx
    <2>3. CASE p.address # NoAddress
        BY <1>8, <2>1, <2>3, EthMade, Zenon DEF ethInternalCallGenerateTx, Signs
    <2> QED  BY <2>2, <2>3, Zenon
<1>9. CASE p.kind = "eth_deploy"
    <2>1. made = ethDeployGenerateTx(p, req)
        BY <1>9 DEF GenerateTx
    <2> QED  BY <1>9, <2>1, EthMade, Zenon DEF ethDeployGenerateTx, Signs
<1>10. CASE p.kind = "eth_userop"
    <2>1. made = ethUserOpGenerateTx(p, req)
        BY <1>10 DEF GenerateTx
    <2>2. CASE p.address = NoAddress \/ req.fromIdx \notin DOMAIN p.lightAccounts
        BY <2>1, <2>2, NotMade, Zenon DEF ethUserOpGenerateTx
    <2>3. CASE ~(p.address = NoAddress \/ req.fromIdx \notin DOMAIN p.lightAccounts)
        <3> DEFINE q == [p EXCEPT !.nonces[req.fromIdx] = @ + OpsPerTx]
        <3>1. IsProvider(q) /\ q.kind = p.kind
            BY Kept, Zenon DEF IsProvider, Blank
        <3> HIDE DEF q
        <3>2. PICK data : made = Returns(q, baseTx(req, <<LegacyTx(req, <<"contract", Entrypoint>>,
                             0, p.gas * OpsPerTx, p.price, data)>>))
            BY <2>1, <2>3, Zenon DEF ethUserOpGenerateTx, q
        <3> QED  BY <1>10, <3>1, <3>2, EthMade, Zenon DEF Signs
    <2> QED  BY <2>2, <2>3, Zenon
<1>11. CASE p.kind = "exchange_batch_orders"
    <2>1. PICK cd, cs \in BOOLEAN : made = exchangeGenerateTx(p, req, 1000, 1, cd, cs)
        BY <1>11 DEF GenerateTx
    <2>2. PICK msg : msg.type = "MsgBatchUpdateOrders" /\ made = Returns(p, baseTx(req, <<msg>>))
        BY <2>1, ZenonT(30) DEF exchangeGenerateTx
    <2> QED  BY <1>11, <2>2, CosmosMade DEF Signs
<1> QED
    BY <1>1, <1>2, <1>3, <1>4, <1>5, <1>6, <1>7, <1>8, <1>9, <1>10, <1>11, Zenon DEF IsProvider, Kinds, Signs

LEMMA NoneMade ==
    ASSUME NEW p, IsProvider(p), NEW req, NEW q, IsProvider(q), q.kind = p.kind
    PROVE  Makes(p, req, Returns(q, NoTx)) /\ Makes(p, req, Error(p))
BY Zenon DEF Makes, Returns, Error

LEMMA EthSetup ==
    ASSUME NEW p, NEW req, NEW to, NEW value, NEW gas, NEW price, NEW data,
           NEW q, IsProvider(q), q.kind = p.kind
    PROVE  Makes(p, req, Returns(q, baseTx(req, <<LegacyTx(req, to, value, gas, price, data)>>)))
BY Zenon DEF Makes, Returns, baseTx, MadeFor, LegacyTx

LEMMA CosmosSetup ==
    ASSUME NEW p, NEW req, NEW msgs, msgs[1] = MsgStoreCode, NEW q, IsProvider(q), q.kind = p.kind
    PROVE  Makes(p, req, Returns(q, baseTx(req, msgs)))
BY DEF Makes, Returns, baseTx, MadeFor, MsgStoreCode

LEMMA SetupMade ==
    ASSUME NEW p, IsProvider(p), NEW req, NEW n
    PROVE  Makes(p, req, GenerateInitialTx(p, req, n))
<1> DEFINE made == GenerateInitialTx(p, req, n)
<1>1. CASE p.kind = "eth_userop"
    <2> DEFINE la == NewLightAccount(n, ChainID, Entrypoint, Factory, req.from,
                                     defaultAccountSalt)
               q  == [p EXCEPT !.lightAccounts = (req.fromIdx :> la) @@ @,
                               !.nonces = (req.fromIdx :> Nonce(n, la)) @@ @]
    <2>1. made = ethUserOpGenerateInitialTx(p, req, n)
        BY <1>1, Zenon DEF GenerateInitialTx
    <2>2. IsProvider(q) /\ q.kind = p.kind
        BY Kept, Zenon DEF IsProvider, Blank
    <2>3. \/ made = Error(p) \/ made = Returns(q, NoTx)
          \/ made = Returns(q, baseTx(req, <<LegacyTx(req, <<"contract", Entrypoint>>,
                 endpointAccountBalanceTopup, p.deployGas, p.price,
                 DepositToEntrypointCallData(la))>>))
        BY <2>1, Zenon DEF ethUserOpGenerateInitialTx
    <2> HIDE DEF q, la, made
    <2> QED  BY <2>2, <2>3, NoneMade, EthSetup, Zenon DEF made
<1>2. CASE p.kind # "eth_userop" /\ (req.fromIdx # 0 \/ req.txIdx # 0)
    BY <1>2, NoneMade, Zenon DEF GenerateInitialTx
<1>3. CASE p.kind # "eth_userop" /\ ~(req.fromIdx # 0 \/ req.txIdx # 0)
    <2>1. CASE p.kind = "wasm_init_contract"
        <3> DEFINE q == [p EXCEPT !.codeID = queryLastWasmContractID(n) + 1]
        <3>1. made = Returns(q, baseTx(req, <<MsgStoreCode>>))
            BY <1>3, <2>1, Zenon DEF GenerateInitialTx, wasmInitGenerateInitialTx
        <3>2. IsProvider(q) /\ q.kind = p.kind
            BY Kept, Zenon DEF IsProvider, Blank
        <3> HIDE DEF q, made
        <3> QED  BY <3>1, <3>2, CosmosSetup, Zenon DEF made
    <2>2. CASE p.kind = "wasm_exec_contract"
        <3> DEFINE id == queryLastWasmContractID(n) + 1
                   q  == [p EXCEPT !.codeID = id,
                                   !.address = queryBuildAddress(p, req.from, req.from)]
                   msgs == <<MsgStoreCode, [type |-> "MsgInstantiateContract2", codeID |-> id,
                                            salt |-> p.salt, initArgs |-> req.from]>>
        <3>1. made = Returns(q, baseTx(req, msgs))
            BY <1>3, <2>2, Zenon DEF GenerateInitialTx, wasmExecGenerateInitialTx
        <3>2. IsProvider(q) /\ q.kind = p.kind
            BY Kept, Zenon DEF IsProvider, Blank
        <3>3. msgs[1] = MsgStoreCode
            BY Zenon
        <3> HIDE DEF q, made, msgs
        <3> QED  BY <3>1, <3>2, <3>3, CosmosSetup, Zenon DEF made
    <2>3. CASE p.kind \in {"eth_call", "eth_internal_call"}
        <3> DEFINE q == [p EXCEPT !.address = CreateAddress(req.from, req.sequence)]
        <3>1. \E data : made = Returns(q, baseTx(req, <<LegacyTx(req, NoAddress, 0, p.deployGas,
                                                                 p.price, data)>>))
            BY <1>3, <2>3, Zenon DEF GenerateInitialTx, ethCallGenerateInitialTx,
                              ethInternalCallGenerateInitialTx
        <3>2. IsProvider(q) /\ q.kind = p.kind
            BY Kept, Zenon DEF IsProvider, Blank
        <3> HIDE DEF q, made
        <3> QED  BY <3>1, <3>2, EthSetup, Zenon DEF made
    <2>4. CASE p.kind \notin {"wasm_init_contract", "wasm_exec_contract", "eth_call",
                              "eth_internal_call"}
        <3>1. made = Returns(p, NoTx)
            BY <1>3, <2>4, Zenon DEF GenerateInitialTx
        <3> QED  BY <3>1, NoneMade, Zenon
    <2> QED  BY <2>1, <2>2, <2>3, <2>4, Zenon
<1> QED  BY <1>1, <1>2, <1>3, Zenon
-----------------------------------------------------------------------------
(* Transactions whose sequences leave no gap                               *)

LEMMA RunEmpty ==
    ASSUME NEW a \in Nat
    PROVE  RunFrom({}, a) /\ Cardinality({}) = 0
BY FS_EmptySet DEF RunFrom

\* CheckTx takes the next one in.
LEMMA RunGrows ==
    ASSUME NEW S, NEW a \in Nat, RunFrom(S, a), NEW t, t.sequence = a + Cardinality(S)
    PROVE  /\ RunFrom(S \union {t}, a)
           /\ Cardinality(S \union {t}) = Cardinality(S) + 1
<1>1. Cardinality(S) \in Nat /\ IsFiniteSet(S)
    BY FS_CardinalityType, Zenon DEF RunFrom
<1>2. t \notin S
    BY <1>1 DEF RunFrom
<1>3. IsFiniteSet(S \union {t}) /\ Cardinality(S \union {t}) = Cardinality(S) + 1
    BY <1>1, <1>2, FS_AddElement, Zenon
<1> DEFINE c == Cardinality(S)
<1>4. \A u \in S \union {t} : u.sequence \in a..(a + c)
    BY <1>1 DEF RunFrom
<1>5. \A n \in a..(a + c) : \E u \in S \union {t} : u.sequence = n
    <2> SUFFICES ASSUME NEW n \in a..(a + c)
                 PROVE  \E u \in S \union {t} : u.sequence = n
        BY Zenon
    <2>1. CASE n = a + c
        BY <2>1, Zenon
    <2>2. CASE n # a + c
        <3>1. n \in a..(a + c - 1)
            BY <1>1, <2>2
        <3> QED  BY <3>1, Zenon DEF RunFrom
    <2> QED  BY <2>1, <2>2, Zenon
<1>6. \A u, v \in S \union {t} : u.sequence = v.sequence => u = v
    BY <1>1 DEF RunFrom
<1>7. a + Cardinality(S \union {t}) - 1 = a + c
    BY <1>1, <1>3
<1> QED  BY <1>3, <1>4, <1>5, <1>6, <1>7, Zenon DEF RunFrom

\* The first one is executed.
LEMMA RunShifts ==
    ASSUME NEW S, NEW a \in Nat, RunFrom(S, a), NEW t \in S, t.sequence = a
    PROVE  /\ RunFrom(S \ {t}, a + 1)
           /\ a + 1 + Cardinality(S \ {t}) = a + Cardinality(S)
<1>1. Cardinality(S) \in Nat /\ IsFiniteSet(S)
    BY FS_CardinalityType, Zenon DEF RunFrom
<1>2. IsFiniteSet(S \ {t}) /\ Cardinality(S \ {t}) = Cardinality(S) - 1
    BY <1>1, FS_RemoveElement, Zenon
<1>3. \A u \in S \ {t} : u.sequence \in (a + 1)..(a + Cardinality(S) - 1)
    BY <1>1 DEF RunFrom
<1>4. \A n \in (a + 1)..(a + Cardinality(S) - 1) : \E u \in S \ {t} : u.sequence = n
    BY <1>1 DEF RunFrom
<1>5. \A u, v \in S \ {t} : u.sequence = v.sequence => u = v
    BY Zenon DEF RunFrom
<1>6. /\ (a + 1) + Cardinality(S \ {t}) - 1 = a + Cardinality(S) - 1
      /\ a + 1 + Cardinality(S \ {t}) = a + Cardinality(S)
    BY <1>1, <1>2
<1> QED  BY <1>2, <1>3, <1>4, <1>5, <1>6, Zenon DEF RunFrom

\* One of them is lost, and all that follow.
LEMMA RunCut ==
    ASSUME NEW S, NEW a \in Nat, RunFrom(S, a), NEW t \in S
    PROVE  RunFrom({u \in S : ~(u.sequence >= t.sequence)}, a)
<1> DEFINE T == {u \in S : ~(u.sequence >= t.sequence)}
           b == t.sequence
<1>1. Cardinality(S) \in Nat /\ IsFiniteSet(S)
    BY FS_CardinalityType, Zenon DEF RunFrom
<1>2. b \in a..(a + Cardinality(S) - 1) /\ b \in Nat /\ a <= b
    BY <1>1 DEF RunFrom
<1>3. \A u \in T : u.sequence \in a..(b - 1)
    BY <1>1, <1>2 DEF RunFrom
<1>4. \A n \in a..(b - 1) : \E u \in T : u.sequence = n
    BY <1>1, <1>2 DEF RunFrom
<1>5. \A u, v \in T : u.sequence = v.sequence => u = v
    BY Zenon DEF RunFrom
<1>6. IsFiniteSet(T)
    BY <1>1, FS_Subset, Zenon
<1>7. Cardinality(T) = b - a
    <2> DEFINE f == [u \in T |-> u.sequence]
    <2>1. f \in Bijection(T, a..(b - 1))
        BY <1>3, <1>4, <1>5, Zenon DEF Bijection, Injection, Surjection, IsInjective
    <2>2. ExistsBijection(T, a..(b - 1))
        BY <2>1, Zenon DEF ExistsBijection
    <2> HIDE DEF T, b
    <2>3. Cardinality(a..(b - 1)) = Cardinality(T)
        BY <1>6, <2>2, FS_Bijection, Zenon
    <2>4. Cardinality(a..(b - 1)) = b - a
        <3>1. b - 1 \in Int /\ a \in Int
            BY <1>2
        <3>2. Cardinality(a..(b - 1)) = IF a > b - 1 THEN 0 ELSE b - 1 - a + 1
            BY <3>1, FS_Interval, Zenon
        <3> QED  BY <1>2, <3>2
    <2> QED  BY <2>3, <2>4, Zenon
<1>8. a + Cardinality(T) - 1 = b - 1
    BY <1>2, <1>7
<1> QED  BY <1>3, <1>4, <1>5, <1>6, <1>8, Zenon DEF RunFrom
-----------------------------------------------------------------------------
(* The chain                                                               *)

LEMMA ExpectedType ==
    ASSUME ChainInv, NEW k \in Keys
    PROVE  sequence[k] \in Nat /\ Cardinality(Pending(k)) \in Nat /\ Expected(k) \in Nat
<1>1. sequence[k] \in Nat /\ IsFiniteSet(Pending(k))
    BY Zenon DEF ChainInv, RunFrom
<1>2. Cardinality(Pending(k)) \in Nat
    BY <1>1, FS_CardinalityType, Zenon
<1> QED  BY <1>1, <1>2 DEF Expected

LEMMA ChainStill ==
    ASSUME ChainInv, UNCHANGED <<sequence, mempool, results>>
    PROVE  ChainInv' /\ \A k \in Keys : Expected(k)' = Expected(k)
<1>1. \A k : Pending(k)' = Pending(k)
    BY Zenon DEF Pending
<1>2. \A k : Expected(k)' = Expected(k)
    BY <1>1, Zenon DEF Expected
<1>3. ChainInv'
    BY <1>1, Zenon DEF ChainInv
<1> QED  BY <1>2, <1>3, Zenon

LEMMA ChainAdmits ==
    ASSUME ChainInv, NEW k \in Keys, NEW tx, tx.from = k, tx.sequence = Expected(k),
           mempool' = mempool \union {tx}, UNCHANGED <<sequence, results>>
    PROVE  /\ ChainInv'
           /\ Expected(k)' = Expected(k) + 1
           /\ \A j \in Keys \ {k} : Expected(j)' = Expected(j)
<1>1. Pending(k)' = Pending(k) \union {tx}
    BY Zenon DEF Pending
<1>2. \A j \in Keys \ {k} : Pending(j)' = Pending(j)
    BY Zenon DEF Pending
<1>3. sequence[k] \in Nat /\ RunFrom(Pending(k), sequence[k])
    BY Zenon DEF ChainInv
<1>4. tx.sequence = sequence[k] + Cardinality(Pending(k))
    BY Zenon DEF Expected
<1>5. /\ RunFrom(Pending(k) \union {tx}, sequence[k])
      /\ Cardinality(Pending(k) \union {tx}) = Cardinality(Pending(k)) + 1
    BY <1>3, <1>4, RunGrows, Zenon
<1>6. Expected(k)' = Expected(k) + 1
    BY <1>1, <1>5, ExpectedType DEF Expected
<1>7. \A j \in Keys \ {k} : Expected(j)' = Expected(j)
    BY <1>2, Zenon DEF Expected
<1>8. \A j \in Keys : RunFrom(Pending(j), sequence[j])'
    <2> SUFFICES ASSUME NEW j \in Keys  PROVE RunFrom(Pending(j)', sequence[j]')
        BY Zenon DEF RunFrom
    <2>1. CASE j = k
        BY <1>1, <1>5, <2>1, Zenon
    <2>2. CASE j # k
        BY <1>2, <2>2, Zenon DEF ChainInv
    <2> QED  BY <2>1, <2>2, Zenon
<1>9. ChainInv'
    BY <1>8, Zenon DEF ChainInv
<1> QED  BY <1>6, <1>7, <1>9, Zenon

LEMMA ChainIncludes ==
    ASSUME ChainInv, NEW k \in Keys, Include(k)
    PROVE  /\ ChainInv'
           /\ \A j \in Keys : Expected(j)' = Expected(j)
           /\ mempool' \subseteq mempool
           /\ results \subseteq results'
           /\ UNCHANGED <<setting, providers, phase, key, account, pool, traffic, lost>>
<1>1. PICK tx \in Pending(k) :
          /\ tx.sequence = sequence[k]
          /\ sequence' = [sequence EXCEPT ![k] = @ + 1]
          /\ mempool' = mempool \ {tx}
          /\ \E ok : results' = results \union {[tx |-> tx, ok |-> ok]}
          /\ UNCHANGED <<setting, providers, phase, key, account, pool, traffic, lost>>
    BY Zenon DEF Include
<1>2. PICK ok : results' = results \union {[tx |-> tx, ok |-> ok]}
    BY <1>1, Zenon
<1>3. sequence[k] \in Nat /\ RunFrom(Pending(k), sequence[k]) /\ tx.from = k
    BY Zenon DEF ChainInv, Pending
<1>4. sequence' \in [Keys -> Nat] /\ sequence'[k] = sequence[k] + 1
      /\ \A j \in Keys \ {k} : sequence'[j] = sequence[j]
    BY <1>1 DEF ChainInv
<1>5. Pending(k)' = Pending(k) \ {tx} /\ \A j \in Keys \ {k} : Pending(j)' = Pending(j)
    BY <1>1, <1>3, Zenon DEF Pending
<1>6. /\ RunFrom(Pending(k) \ {tx}, sequence[k] + 1)
      /\ sequence[k] + 1 + Cardinality(Pending(k) \ {tx}) = sequence[k] + Cardinality(Pending(k))
    <2>1. tx \in Pending(k) /\ tx.sequence = sequence[k]
        BY <1>1, Zenon
    <2> QED  BY <1>3, <2>1, RunShifts, Zenon
<1>7. \A j \in Keys : Expected(j)' = Expected(j)
    BY <1>4, <1>5, <1>6, Zenon DEF Expected
<1>8. \A j \in Keys : RunFrom(Pending(j)', sequence[j]')
    <2> TAKE j \in Keys
    <2>1. CASE j = k
        BY <1>4, <1>5, <1>6, <2>1, Zenon
    <2>2. CASE j # k
        <3>1. Pending(j)' = Pending(j) /\ sequence[j]' = sequence[j]
            BY <1>4, <1>5, <2>2, Zenon
        <3> QED  BY <3>1, Zenon DEF ChainInv
    <2> QED  BY <2>1, <2>2, Zenon
<1>9. \A r \in results' : r.tx.from \in Keys /\ r.tx.sequence \in Nat
                           /\ r.tx.sequence < sequence'[r.tx.from]
    <2> SUFFICES ASSUME NEW r \in results'
                 PROVE  r.tx.from \in Keys /\ r.tx.sequence \in Nat
                        /\ r.tx.sequence < sequence'[r.tx.from]
        BY Zenon
    <2>1. CASE r \in results
        BY <1>3, <1>4, <2>1 DEF ChainInv
    <2>2. CASE r.tx = tx
        BY <1>1, <1>3, <1>4, <2>2
    <2> QED  BY <1>2, <2>1, <2>2
<1>10. \A r, s \in results' :
          r.tx.from = s.tx.from /\ r.tx.sequence = s.tx.sequence => r = s
    <2>1. \A r \in results : ~(r.tx.from = k /\ r.tx.sequence = tx.sequence)
        BY <1>1, <1>3 DEF ChainInv
    <2> QED  BY <1>2, <1>3, <2>1 DEF ChainInv
<1>11. ChainInv'
    BY <1>4, <1>8, <1>9, <1>10, Zenon DEF ChainInv
<1> QED  BY <1>1, <1>2, <1>7, <1>11, Zenon

LEMMA ChainLoses ==
    ASSUME ChainInv, NEW k \in Keys, MempoolLoses(k)
    PROVE  ChainInv' /\ mempool' \subseteq mempool
<1>1. PICK tx \in Pending(k) :
          mempool' = mempool \ {other \in Pending(k) : other.sequence >= tx.sequence}
    BY Zenon DEF MempoolLoses
<1>2. UNCHANGED <<sequence, results>>
    BY Zenon DEF MempoolLoses
<1>3. Pending(k)' = {u \in Pending(k) : ~(u.sequence >= tx.sequence)}
    BY <1>1, Zenon DEF Pending
<1>4. \A j \in Keys \ {k} : Pending(j)' = Pending(j)
    BY <1>1, Zenon DEF Pending
<1>5. sequence[k] \in Nat /\ RunFrom(Pending(k), sequence[k])
    BY Zenon DEF ChainInv
<1>6. RunFrom(Pending(k)', sequence[k])
    BY <1>3, <1>5, RunCut, Zenon
<1>7. \A j \in Keys : RunFrom(Pending(j)', sequence[j]')
    BY <1>2, <1>4, <1>6, Zenon DEF ChainInv
<1>8. ChainInv'
    BY <1>2, <1>7, Zenon DEF ChainInv
<1> QED  BY <1>1, <1>8, Zenon
-----------------------------------------------------------------------------
(* The initial transactions                                                *)

\* A step that leaves the pool alone.
LEMMA PoolStill ==
    ASSUME PoolInv, UNCHANGED pool, results \subseteq results',
           phase' = "initial" => phase = "initial" /\ key' = key,
           phase' \in {"traffic", "send"} =>
               \/ phase \in {"traffic", "send"}
               \/ \A k \in Keys : worker[k] \in {"none", "done", "gaveup"}
    PROVE  PoolInv'
<1>1. UNCHANGED <<initialTx, signed, copies, worker>>
    BY Zenon DEF pool, txs
<1>2. \A k \in Keys : (worker[k] = "done" => \E r \in results : r.tx = signed[k] /\ r.ok)'
    BY <1>1, Zenon DEF PoolInv
<1>3. \A k \in Keys : MadeFor(initialTx[k], k, initialTx[k].sequence)' <=>
                      MadeFor(initialTx[k], k, initialTx[k].sequence)
    BY <1>1, Zenon DEF MadeFor
<1> QED  BY <1>1, <1>2, <1>3 DEF PoolInv

\* A worker goes on with what it has signed.
LEMMA WorkerMoves ==
    ASSUME PoolInv, NEW k \in Keys, NEW w, phase = "pool", worker[k] # "none",
           worker' = [worker EXCEPT ![k] = w], UNCHANGED <<txs, phase, results>>,
           \/ w \in {"retry", "gaveup"}
           \/ w = "await" /\ worker[k] = "submit"
           \/ w = "done" /\ worker[k] = "await" /\ \E r \in results : r.tx = signed[k] /\ r.ok
    PROVE  PoolInv'
<1>1. UNCHANGED <<initialTx, signed, copies, phase, results>>
    BY Zenon DEF txs
<1>2. \A j \in Keys : MadeFor(initialTx[j], j, initialTx[j].sequence)' <=>
                      MadeFor(initialTx[j], j, initialTx[j].sequence)
    BY <1>1, Zenon DEF MadeFor
<1>3. /\ worker' \in [Keys -> {"none", "queued", "retry", "submit", "await", "done", "gaveup"}]
      /\ worker'[k] = w /\ \A j \in Keys \ {k} : worker'[j] = worker[j]
    BY Zenon DEF PoolInv
<1>4. \A j \in Keys : (worker[j] = "done" => \E r \in results : r.tx = signed[j] /\ r.ok)'
    BY <1>1, <1>3, Zenon DEF PoolInv
<1>5. \A j \in Keys :
          /\ worker'[j] = "none" => worker[j] = "none"
          /\ worker'[j] # "none" => worker[j] # "none"
          /\ worker'[j] \in {"submit", "await", "done"} =>
                worker[j] \in {"submit", "await", "done"}
    BY <1>3, Zenon
<1> HIDE DEF MadeFor
<1> QED  BY <1>1, <1>2, <1>3, <1>4, <1>5 DEF PoolInv

\* A worker signs, again and again, for the same sequence.
LEMMA SignPool ==
    ASSUME ProvidersInv, PoolInv, NEW k \in Keys, SignInitialTx(k)
    PROVE  PoolInv' /\ phase' \in {"pool", "panicked"}
           /\ \A j \in Keys : copies[j] \subseteq copies'[j]
<1>1. /\ phase = "pool" /\ worker[k] \in {"retry", "queued"}
      /\ UNCHANGED <<initialTx, results>>
    BY Zenon DEF SignInitialTx, chain
<1>2. PICK i \in selectProvider(setting.frequencies) :
          LET tx == BuildAndSignTx(providers[i], initialTx[k])
          IN  /\ signed' = [signed EXCEPT ![k] = tx]
              /\ IF tx.panics
                 THEN phase' = "panicked" /\ UNCHANGED <<worker, copies>>
                 ELSE /\ worker' = [worker EXCEPT ![k] = "submit"]
                      /\ copies' = [copies EXCEPT ![k] = @ \union {tx}]
                      /\ UNCHANGED phase
    BY Zenon DEF SignInitialTx
<1> DEFINE tx == BuildAndSignTx(providers[i], initialTx[k])
           n  == initialTx[k].sequence
<1>3. i \in DOMAIN providers
    BY WorkloadAssumption, Zenon DEF selectProvider, ProvidersInv
<1>4. MadeFor(initialTx[k], k, n)
    BY <1>1, Zenon DEF PoolInv
<1>5. ~tx.panics => tx.from = k /\ tx.sequence = n
    BY <1>3, <1>4, Signed DEF ProvidersInv
<1> HIDE DEF tx
<1>6. \A j \in Keys : MadeFor(initialTx[j], j, initialTx[j].sequence)' <=>
                      MadeFor(initialTx[j], j, initialTx[j].sequence)
    BY <1>1, Zenon DEF MadeFor
<1>7. signed' = [signed EXCEPT ![k] = tx]
    BY <1>2, Zenon DEF tx
<1>8. CASE tx.panics
    <2>1. phase' = "panicked" /\ worker' = worker /\ copies' = copies
        BY <1>2, <1>8, Zenon DEF tx
    <2>2. DOMAIN signed' = Keys /\ \A j \in Keys \ {k} : signed'[j] = signed[j]
        BY <1>7, Zenon DEF PoolInv
    <2>3. \A j \in Keys : (worker[j] = "done" => \E r \in results : r.tx = signed[j] /\ r.ok)'
        BY <1>1, <2>1, <2>2, Zenon DEF PoolInv
    <2>4. PoolInv'
        BY <1>1, <1>6, <2>1, <2>2, <2>3 DEF PoolInv
    <2> QED  BY <2>1, <2>4, Zenon
<1>9. CASE ~tx.panics
    <2>1. phase' = "pool" /\ worker' = [worker EXCEPT ![k] = "submit"]
          /\ copies' = [copies EXCEPT ![k] = @ \union {tx}]
        BY <1>1, <1>2, <1>9, Zenon DEF tx
    <2>2. /\ DOMAIN signed' = Keys /\ signed'[k] = tx
          /\ \A j \in Keys \ {k} : signed'[j] = signed[j]
        BY <1>7, Zenon DEF PoolInv
    <2>3. /\ DOMAIN copies' = Keys /\ copies'[k] = copies[k] \union {tx}
          /\ \A j \in Keys \ {k} : copies'[j] = copies[j]
        BY <2>1, Zenon DEF PoolInv
    <2>4. /\ worker' \in [Keys -> {"none", "queued", "retry", "submit", "await", "done", "gaveup"}]
          /\ worker'[k] = "submit" /\ \A j \in Keys \ {k} : worker'[j] = worker[j]
        BY <2>1 DEF PoolInv
    <2>5. \A j \in Keys : (worker[j] = "done" => \E r \in results : r.tx = signed[j] /\ r.ok)'
        BY <1>1, <2>2, <2>4 DEF PoolInv
    <2>6. \A j \in Keys : \A c \in copies'[j] : c.from = j /\ c.sequence = initialTx[j].sequence
        BY <1>5, <1>9, <2>3 DEF PoolInv
    <2>7. \A j \in Keys :
              /\ worker'[j] = "none" => copies'[j] = {}
              /\ worker'[j] # "none" => MadeFor(initialTx[j], j, initialTx[j].sequence)
              /\ worker'[j] \in {"submit", "await", "done"} => signed'[j] \in copies'[j]
        BY <1>4, <2>2, <2>3, <2>4 DEF PoolInv
    <2>8. PoolInv'
        BY <1>1, <1>6, <2>1, <2>2, <2>3, <2>4, <2>5, <2>6, <2>7, SMTT(30) DEF PoolInv
    <2> QED  BY <2>1, <2>3, <2>8, Zenon
<1> QED  BY <1>8, <1>9, Zenon

\* The providers keep their kinds.
SameKinds ==
    /\ DOMAIN providers' = DOMAIN providers
    /\ \A i \in DOMAIN providers : providers'[i].kind = providers[i].kind

LEMMA ProvidersStill ==
    ASSUME ProvidersInv, UNCHANGED <<setting, providers>>
    PROVE  ProvidersInv' /\ SameKinds
BY Zenon DEF ProvidersInv, SameKinds

LEMMA ProviderMoves ==
    ASSUME ProvidersInv, NEW i \in DOMAIN providers, NEW q, IsProvider(q),
           q.kind = providers[i].kind, providers' = [providers EXCEPT ![i] = q],
           UNCHANGED setting
    PROVE  ProvidersInv' /\ SameKinds
BY Zenon DEF ProvidersInv, SameKinds

LEMMA Chosen ==
    ASSUME ProvidersInv, NEW i \in selectProvider(setting.frequencies)
    PROVE  i \in DOMAIN providers /\ IsProvider(providers[i])
BY WorkloadAssumption, Zenon DEF selectProvider, ProvidersInv

\* The loop over the keys hands the pool a transaction of the key's account.
LEMMA CreatePool ==
    ASSUME ProvidersInv, ChainInv, PoolInv, CreateInitialTx
    PROVE  /\ ProvidersInv' /\ SameKinds /\ PoolInv'
           /\ phase = "initial" /\ phase' \in {"initial", "pool", "traffic", "failed"}
           /\ UNCHANGED <<copies, traffic, sequence, mempool, results, lost, setting>>
           /\ key \in Keys /\ account' = [account EXCEPT ![key] = sequence[key]]
<1>1. /\ phase = "initial" /\ key \in Keys
      /\ account' = [account EXCEPT ![key] = sequence[key]]
      /\ UNCHANGED <<setting, attempt, signed, copies, traffic, node, sequence, mempool, results, lost>>
    BY Zenon DEF CreateInitialTx, chain, PoolInv
<1>2. PICK i \in selectProvider(setting.frequencies) :
          LET made == GenerateInitialTx(providers[i], Request(key, sequence[key], 1, 0), node)
              some == made.tx # NoTx
          IN  /\ providers' = [providers EXCEPT ![i] = made.provider]
              /\ initialTx' = [initialTx EXCEPT ![key] = made.tx]
              /\ worker' = [worker EXCEPT ![key] = IF some THEN "queued" ELSE "none"]
              /\ key' = key + 1
              /\ phase' = IF ~made.ok THEN "failed"
                          ELSE IF key + 1 < NumKeys THEN "initial"
                          ELSE IF some \/ \E k \in Keys : worker[k] # "none" THEN "pool"
                          ELSE "traffic"
    BY Zenon DEF CreateInitialTx
<1> DEFINE req  == Request(key, sequence[key], 1, 0)
           made == GenerateInitialTx(providers[i], req, node)
           some == made.tx # NoTx
<1>3. i \in DOMAIN providers /\ IsProvider(providers[i])
    BY Chosen, Zenon
<1>4. Makes(providers[i], req, made)
    BY <1>3, SetupMade, Zenon
<1>5. req.from = key /\ req.sequence = sequence[key]
    BY Zenon DEF Request
<1>6. made.ok /\ some => MadeFor(made.tx, key, sequence[key])
    BY <1>4, <1>5, Zenon DEF Makes
<1>7. ~made.ok => ~some
    <2>1. \A p, tx : Returns(p, tx).ok
        BY Zenon DEF Returns
    <2>2. \A p : Error(p).tx = NoTx
        BY Zenon DEF Error
    <2> QED  BY <2>1, <2>2, ZenonT(30) DEF GenerateInitialTx, ethUserOpGenerateInitialTx,
               wasmInitGenerateInitialTx, wasmExecGenerateInitialTx, ethCallGenerateInitialTx,
               ethInternalCallGenerateInitialTx
<1>8. some => MadeFor(made.tx, key, made.tx.sequence)
    BY <1>6, <1>7, Zenon DEF MadeFor
<1>9. ProvidersInv' /\ SameKinds
    BY <1>1, <1>2, <1>3, <1>4, ProviderMoves, Zenon DEF Makes
<1> HIDE DEF made
<1>10. /\ initialTx' = [initialTx EXCEPT ![key] = made.tx]
       /\ worker' = [worker EXCEPT ![key] = IF some THEN "queued" ELSE "none"]
       /\ key' = key + 1
       /\ phase' = IF ~made.ok THEN "failed"
                   ELSE IF key + 1 < NumKeys THEN "initial"
                   ELSE IF some \/ \E k \in Keys : worker[k] # "none" THEN "pool"
                   ELSE "traffic"
    BY <1>2, Zenon DEF made
<1>11. phase' \in {"initial", "pool", "traffic", "failed"}
    BY <1>10, Zenon
<1>12. phase' = "initial" => key' \in Keys
    BY <1>1, <1>10, WorkloadAssumption DEF Keys
<1>13. \A k \in Keys : worker[k] \in {"none", "queued"} /\ copies[k] = {}
    BY <1>1, Zenon DEF PoolInv
<1>14. /\ worker' \in [Keys -> {"none", "queued", "retry", "submit", "await", "done", "gaveup"}]
       /\ \A k \in Keys : worker'[k] \in {"none", "queued"}
       /\ worker'[key] = (IF some THEN "queued" ELSE "none")
       /\ \A k \in Keys \ {key} : worker'[k] = worker[k]
    BY <1>1, <1>10, <1>13 DEF PoolInv
<1>15. phase' = "traffic" => \A k \in Keys : worker'[k] = "none"
    BY <1>10, <1>14, Zenon
<1>16. /\ DOMAIN initialTx' = Keys /\ initialTx'[key] = made.tx
       /\ \A k \in Keys \ {key} : initialTx'[k] = initialTx[k]
    BY <1>1, <1>10, Zenon DEF PoolInv
<1>17. \A k \in Keys : worker'[k] # "none" =>
                          MadeFor(initialTx'[k], k, initialTx'[k].sequence)
    <2> SUFFICES ASSUME NEW k \in Keys, worker'[k] # "none"
                 PROVE  MadeFor(initialTx'[k], k, initialTx'[k].sequence)
        BY Zenon
    <2>1. CASE k = key
        BY <1>8, <1>14, <1>16, <2>1, Zenon
    <2>2. CASE k # key
        BY <1>14, <1>16, <2>2, Zenon DEF PoolInv
    <2> QED  BY <2>1, <2>2, Zenon
<1>18. \A k \in Keys : MadeFor(initialTx[k], k, initialTx[k].sequence)' <=>
                       MadeFor(initialTx'[k], k, initialTx'[k].sequence)
    BY Zenon DEF MadeFor
<1>19. PoolInv'
    BY <1>1, <1>11, <1>12, <1>13, <1>14, <1>15, <1>16, <1>17, <1>18 DEF PoolInv
<1> QED  BY <1>1, <1>9, <1>11, <1>19, Zenon

\* What is pending before the traffic is sent was signed by a worker.
LEMMA QuietStep ==
    ASSUME QuietInv, PoolInv', phase' # "send" => phase # "send",
           \A k \in Keys : copies[k] \subseteq copies'[k],
           phase' # "send" =>
               \A tx \in mempool' : tx \in mempool \/ \E k \in Keys : tx \in copies'[k]
    PROVE  QuietInv'
<1> SUFFICES ASSUME phase' # "send", NEW tx \in mempool'
             PROVE  tx.from \in Keys /\ tx \in copies'[tx.from]
    BY Zenon DEF QuietInv
<1>1. CASE tx \in mempool
    BY <1>1, Zenon DEF QuietInv
<1>2. CASE \E k \in Keys : tx \in copies'[k]
    BY <1>2 DEF PoolInv
<1> QED  BY <1>1, <1>2, Zenon
-----------------------------------------------------------------------------
(* The traffic                                                             *)

LEMMA SeqFacts ==
    ASSUME NEW s, IsSeq(s)
    PROVE  Len(s) \in Nat /\ DOMAIN s = 1..Len(s)
BY LenProperties, Zenon DEF IsSeq

LEMMA SeqAppended ==
    ASSUME NEW s, IsSeq(s), NEW e
    PROVE  LET t == Append(s, e) IN
           /\ IsSeq(t) /\ Len(t) = Len(s) + 1 /\ DOMAIN t = 1..(Len(s) + 1)
           /\ t[Len(s) + 1] = e /\ \A j \in DOMAIN s : t[j] = s[j]
<1> DEFINE S == {s[j] : j \in DOMAIN s} \union {e}
           t == Append(s, e)
<1>1. s \in Seq(S)
    BY SeqMonotonic, Zenon DEF IsSeq
<1>2. e \in S
    BY Zenon
<1> HIDE DEF S
<1>3. /\ t \in Seq(S) /\ Len(t) = Len(s) + 1
      /\ \A j \in 1..Len(s) : t[j] = s[j]
      /\ t[Len(s) + 1] = e
    BY <1>1, <1>2, AppendProperties
<1>4. Len(s) \in Nat /\ DOMAIN s = 1..Len(s)
    BY <1>1, LenProperties, Zenon
<1>5. DOMAIN t = 1..(Len(s) + 1)
    BY <1>3, LenProperties, Zenon
<1>6. S = {t[j] : j \in DOMAIN t}
    <2>1. \A j \in DOMAIN t : t[j] \in S
        BY <1>3, <1>5, ElementOfSeq, Zenon
    <2>2. ASSUME NEW x \in S  PROVE \E j \in DOMAIN t : t[j] = x
        BY <1>3, <1>4, <1>5 DEF S
    <2> QED  BY <2>1, <2>2, Zenon
<1> QED  BY <1>3, <1>4, <1>5, <1>6, Zenon DEF IsSeq

LEMMA SeqRest ==
    ASSUME NEW s, IsSeq(s), s # << >>
    PROVE  LET t == Tail(s) IN
           /\ IsSeq(t) /\ 1 \in DOMAIN s /\ Head(s) = s[1]
           /\ \A j \in DOMAIN t : j \in Nat /\ j + 1 \in DOMAIN s /\ t[j] = s[j + 1]
<1> DEFINE S == {s[j] : j \in DOMAIN s}
           t == Tail(s)
<1>1. s \in Seq(S)
    BY Zenon DEF IsSeq
<1> HIDE DEF S
<1>2. t \in Seq(S) /\ Len(t) = Len(s) - 1 /\ \A j \in 1..Len(t) : t[j] = s[j + 1]
    BY <1>1, HeadTailProperties, Zenon
<1>3. Len(s) \in Nat \ {0} /\ DOMAIN s = 1..Len(s) /\ DOMAIN t = 1..Len(t)
    BY <1>1, <1>2, LenProperties, EmptySeq, Zenon
<1>4. t \in Seq({t[j] : j \in DOMAIN t})
    <2> DEFINE T == {t[j] : j \in DOMAIN t}
    <2>1. t \in [1..Len(t) -> S] /\ Len(t) \in Nat
        BY <1>2, LenProperties, Zenon
    <2>2. t \in [1..Len(t) -> T]
        BY <1>3, <2>1, Zenon
    <2> QED  BY <2>1, <2>2, SeqDef, Zenon
<1>5. 1 \in DOMAIN s /\ \A j \in DOMAIN t : j \in Nat /\ j + 1 \in DOMAIN s
    BY <1>2, <1>3
<1>6. Head(s) = s[1]
    OBVIOUS
<1> QED  BY <1>2, <1>3, <1>4, <1>5, <1>6, Zenon DEF IsSeq

LEMMA OneSignerStill ==
    ASSUME SameKinds
    PROVE  OneSigner' <=> OneSigner
BY Zenon DEF SameKinds, OneSigner

\* Until the set-up is over no account has begun.
LEMMA TrafficWaits ==
    ASSUME TrafficInv, phase \in {"initial", "pool"}, phase' # "send", UNCHANGED traffic,
           account' \in [Keys -> Nat]
    PROVE  TrafficInv' /\ TrafficFits'
<1>1. UNCHANGED <<pc, draft, queue>>
    BY Zenon DEF traffic
<1>2. \A k \in Keys : pc[k] = "fetch" /\ queue[k] = << >> /\ IsSeq(queue[k])
    BY Zenon DEF TrafficInv, TrafficOf
<1>3. \A k \in Keys : TrafficOf(k)'
    <2> SUFFICES ASSUME NEW k \in Keys  PROVE TrafficOf(k)'
        BY Zenon
    <2>1. IsSeq(queue[k])'
        BY <1>1, <1>2, Zenon DEF IsSeq
    <2> QED  BY <1>1, <1>2, <2>1 DEF TrafficOf
<1>4. TrafficInv'
    BY <1>1, <1>3, Zenon DEF TrafficInv
<1> QED  BY <1>1, <1>2, <1>4, Zenon DEF TrafficFits

\* What a step of another account, or of the chain, leaves to account k.
KeptFor(k) ==
    /\ pc'[k] = pc[k] /\ queue'[k] = queue[k] /\ draft'[k] = draft[k]
    /\ account'[k] = account[k] /\ worker'[k] = worker[k]
    /\ lost' \/ (lost' = lost /\ Expected(k)' = Expected(k))

LEMMA StillFits ==
    ASSUME NEW k \in Keys, SameKinds, KeptFor(k), TrafficOf(k), phase' = phase
    PROVE  TrafficOf(k)'
<1>1. IsSeq(queue[k])'
    BY Zenon DEF KeptFor, TrafficOf, IsSeq
<1>2. DraftFits(k) => DraftFits(k)'
    BY Zenon DEF KeptFor, DraftFits, MadeFor, SameKinds
<1>3. InStep(k) => lost' \/ InStep(k)'
    <2> SUFFICES ASSUME InStep(k), ~lost'  PROVE InStep(k)'
        BY Zenon
    <2>1. queue'[k] = queue[k] /\ account'[k] = account[k] /\ Expected(k)' = Expected(k)
        BY Zenon DEF KeptFor
    <2>2. OneSigner' <=> OneSigner
        BY OneSignerStill, Zenon
    <2> QED  BY <2>1, <2>2, Zenon DEF InStep, Fits
<1>4. lost => lost'
    BY Zenon DEF KeptFor
<1> QED  BY <1>1, <1>2, <1>3, <1>4, Zenon DEF KeptFor, TrafficOf

LEMMA NowEnds ==
    ASSUME NEW k \in Keys, KeptFor(k), TrafficOf(k), phase' \in {"failed", "panicked", "died"}
    PROVE  TrafficOf(k)'
<1>1. IsSeq(queue[k])'
    BY Zenon DEF KeptFor, TrafficOf, IsSeq
<1> QED  BY <1>1, Zenon DEF KeptFor, TrafficOf

\* Where the set-up of an account was confirmed, nothing of it is pending.
LEMMA NothingPending ==
    ASSUME ChainInv, PoolInv, QuietInv, NEW k \in Keys, phase = "traffic", worker[k] # "gaveup"
    PROVE  Expected(k) = sequence[k]
<1>1. worker[k] \in {"none", "done"}
    BY Zenon DEF PoolInv
<1>2. \A tx \in Pending(k) : tx \in copies[k]
    BY Zenon DEF QuietInv, Pending
<1>3. Pending(k) = {}
    <2>1. CASE worker[k] = "none"
        BY <1>2, <2>1, Zenon DEF PoolInv
    <2>2. CASE worker[k] = "done"
        <3>1. PICK r \in results : r.tx = signed[k]
            BY <2>2, Zenon DEF PoolInv
        <3>2. r.tx.from = k /\ r.tx.sequence = initialTx[k].sequence
            BY <2>2, <3>1, Zenon DEF PoolInv
        <3>3. initialTx[k].sequence \in Nat /\ initialTx[k].sequence < sequence[k]
            BY <3>2, Zenon DEF ChainInv
        <3>4. \A tx \in Pending(k) : tx.sequence = initialTx[k].sequence
            BY <1>2, Zenon DEF PoolInv
        <3>5. \A tx \in Pending(k) : tx.sequence \in Nat /\ tx.sequence >= sequence[k]
            BY ExpectedType DEF ChainInv, RunFrom
        <3> QED  BY <3>3, <3>4, <3>5, ExpectedType
    <2> QED  BY <1>1, <2>1, <2>2, Zenon
<1> QED  BY <1>3, FS_EmptySet, ExpectedType DEF Expected

\* A step of account k alone.
LEMMA OneAccount ==
    ASSUME TrafficInv, TrafficFits, SameKinds, NEW k \in Keys,
           \A j \in Keys \ {k} : KeptFor(j),
           UNCHANGED <<setting, worker>>, lost' = lost,
           phase' = phase \/ phase' \in {"failed", "panicked", "died"},
           account' \in [Keys -> Nat],
           pc' \in [Keys -> {"fetch", "generate", "sign", "ready", "refused"}],
           DOMAIN queue' = Keys /\ DOMAIN draft' = Keys,
           TrafficOf(k)',
           OneSigner /\ setting.node.chainID = ChainID /\ pc'[k] = "refused" =>
               lost \/ worker[k] = "gaveup"
    PROVE  TrafficInv' /\ TrafficFits'
<1>1. \A j \in Keys : TrafficOf(j)'
    <2> SUFFICES ASSUME NEW j \in Keys \ {k}  PROVE TrafficOf(j)'
        BY Zenon
    <2>1. TrafficOf(j) /\ KeptFor(j)
        BY Zenon DEF TrafficInv
    <2> QED  BY <2>1, StillFits, NowEnds, Zenon
<1>2. TrafficInv'
    BY <1>1, Zenon DEF TrafficInv
<1>3. OneSigner' <=> OneSigner
    BY OneSignerStill, Zenon
<1>4. \A j \in Keys \ {k} : pc'[j] = pc[j]
    BY Zenon DEF KeptFor
<1>5. TrafficFits'
    BY <1>3, <1>4, Zenon DEF TrafficFits
<1> QED  BY <1>2, <1>5, Zenon

\* The first sequence of the traffic is the next one.
LEMMA FetchTraffic ==
    ASSUME ProvidersInv, ChainInv, PoolInv, QuietInv, TrafficInv, TrafficFits,
           NEW k \in Keys, FetchSequence(k)
    PROVE  TrafficInv' /\ TrafficFits'
<1>1. /\ phase = "traffic" /\ pc[k] = "fetch" /\ phase' = phase
      /\ account' = [account EXCEPT ![k] = sequence[k]]
      /\ pc' = [pc EXCEPT ![k] = IF setting.transactions = 0 THEN "ready" ELSE "generate"]
      /\ UNCHANGED <<setting, providers, worker, draft, queue, sequence, mempool, results, lost>>
    BY Zenon DEF FetchSequence, pool, chain
<1>2. SameKinds
    BY <1>1, ProvidersStill, Zenon
<1>3. \A j \in Keys : Expected(j)' = Expected(j)
    BY <1>1, ChainStill, Zenon
<1>4. /\ account' \in [Keys -> Nat] /\ account'[k] = sequence[k]
      /\ \A j \in Keys \ {k} : account'[j] = account[j]
    BY <1>1, ExpectedType, Zenon DEF TrafficInv
<1>5. /\ pc' \in [Keys -> {"fetch", "generate", "sign", "ready", "refused"}]
      /\ pc'[k] \in {"ready", "generate"} /\ \A j \in Keys \ {k} : pc'[j] = pc[j]
    BY <1>1, Zenon DEF TrafficInv
<1>6. \A j \in Keys \ {k} : KeptFor(j)
    BY <1>1, <1>3, <1>4, <1>5, Zenon DEF KeptFor
<1>7. TrafficOf(k)'
    <2>1. queue[k] = << >> /\ IsSeq(queue[k])
        BY <1>1, Zenon DEF TrafficInv, TrafficOf
    <2>2. queue'[k] = << >> /\ IsSeq(queue[k])'
        BY <1>1, <2>1, Zenon DEF IsSeq
    <2>3. worker[k] # "gaveup" => InStep(k)'
        <3> SUFFICES ASSUME worker[k] # "gaveup"  PROVE InStep(k)'
            BY Zenon
        <3>1. account'[k] = Expected(k)'
            BY <1>1, <1>3, <1>4, NothingPending, Zenon
        <3> QED  BY <2>2, <3>1 DEF InStep
    <2> QED  BY <1>1, <1>5, <2>2, <2>3 DEF TrafficOf
<1> QED  BY <1>1, <1>2, <1>4, <1>5, <1>6, <1>7, OneAccount DEF TrafficInv

LEMMA GenerateStep ==
    ASSUME ProvidersInv, ChainInv, TrafficInv, TrafficFits, NEW k \in Keys, GenerateTraffic(k)
    PROVE  ProvidersInv' /\ SameKinds /\ TrafficInv' /\ TrafficFits'
<1>1. /\ phase = "traffic" /\ pc[k] = "generate"
      /\ UNCHANGED <<setting, account, worker, queue, sequence, mempool, results, lost>>
    BY Zenon DEF GenerateTraffic, pool, chain
<1> DEFINE req == Request(k, account[k] + Len(queue[k]), NumKeys, Len(queue[k]))
<1>i. PICK i \in selectProvider(setting.frequencies) :
          \E made \in GenerateTx(providers[i], req) :
             /\ providers' = [providers EXCEPT ![i] = made.provider]
             /\ draft' = [draft EXCEPT ![k] = made.tx]
             /\ IF made.ok
                THEN pc' = [pc EXCEPT ![k] = "sign"] /\ UNCHANGED phase
                ELSE phase' = "failed" /\ UNCHANGED pc
    BY Zenon DEF GenerateTraffic
<1>2. PICK made \in GenerateTx(providers[i], req) :
          /\ providers' = [providers EXCEPT ![i] = made.provider]
          /\ draft' = [draft EXCEPT ![k] = made.tx]
          /\ IF made.ok
             THEN pc' = [pc EXCEPT ![k] = "sign"] /\ UNCHANGED phase
             ELSE phase' = "failed" /\ UNCHANGED pc
    BY <1>i, Zenon
<1>3. i \in DOMAIN providers /\ IsProvider(providers[i])
    BY Chosen, Zenon
<1>4. MakesOwn(providers[i], req, made)
    BY <1>3, TrafficMade, Zenon
<1>5. req.from = k /\ req.sequence = account[k] + Len(queue[k])
    BY Zenon DEF Request
<1> HIDE DEF req
<1>6. ProvidersInv' /\ SameKinds
    BY <1>1, <1>2, <1>3, <1>4, ProviderMoves, Zenon DEF MakesOwn
<1>7. \A j \in Keys : Expected(j)' = Expected(j)
    BY <1>1, ChainStill, Zenon
<1>8. /\ DOMAIN draft' = Keys /\ draft'[k] = made.tx
      /\ \A j \in Keys \ {k} : draft'[j] = draft[j]
    BY <1>2, Zenon DEF TrafficInv
<1>9. /\ pc' \in [Keys -> {"fetch", "generate", "sign", "ready", "refused"}]
      /\ pc'[k] \in {"generate", "sign"} /\ \A j \in Keys \ {k} : pc'[j] = pc[j]
      /\ phase' \in {"traffic", "failed"}
      /\ phase' = "traffic" => made.ok
    BY <1>1, <1>2, Zenon DEF TrafficInv
<1>10. \A j \in Keys \ {k} : KeptFor(j)
    BY <1>1, <1>7, <1>8, <1>9, Zenon DEF KeptFor
<1>11. TrafficOf(k)'
    <2>1. TrafficOf(k)
        BY Zenon DEF TrafficInv
    <2>2. IsSeq(queue[k])'
        BY <1>1, <2>1, Zenon DEF IsSeq, TrafficOf
    <2>3. phase' = "traffic" => DraftFits(k)'
        <3> SUFFICES ASSUME phase' = "traffic"  PROVE DraftFits(k)'
            BY Zenon
        <3>1. /\ MadeFor(made.tx, k, account[k] + Len(queue[k]))
              /\ made.tx.msgs[1].type = "MsgEthereumTx" <=> providers[i].kind \in Signs
            BY <1>4, <1>5, <1>9, Zenon DEF MakesOwn
        <3>2. account'[k] = account[k] /\ queue'[k] = queue[k]
            BY <1>1, Zenon
        <3>3. MadeFor(draft[k], k, account[k] + Len(queue[k]))'
            BY <1>8, <3>1, <3>2, Zenon DEF MadeFor
        <3> QED  BY <1>3, <1>6, <1>8, <3>1, <3>3, Zenon DEF DraftFits, SameKinds
    <2>4. phase' = "traffic" => lost \/ worker[k] = "gaveup" \/ InStep(k)'
        <3> SUFFICES ASSUME phase' = "traffic", ~lost, worker[k] # "gaveup"  PROVE InStep(k)'
            BY Zenon
        <3>1. InStep(k)
            BY <1>1, <2>1, Zenon DEF TrafficOf
        <3>2. OneSigner' <=> OneSigner
            BY <1>6, OneSignerStill, Zenon
        <3>3. account'[k] = account[k] /\ queue'[k] = queue[k] /\ Expected(k)' = Expected(k)
            BY <1>1, <1>7, Zenon
        <3> QED  BY <1>1, <3>1, <3>2, <3>3, Zenon DEF InStep, Fits
    <2> QED  BY <1>1, <1>9, <2>1, <2>2, <2>3, <2>4, Zenon DEF TrafficOf
<1>12. TrafficInv' /\ TrafficFits'
    <2>1. phase' = phase \/ phase' \in {"failed", "panicked", "died"}
        BY <1>1, <1>9, Zenon
    <2>2. account' \in [Keys -> Nat] /\ DOMAIN queue' = Keys
        BY <1>1, Zenon DEF TrafficInv
    <2>3. pc'[k] # "refused"
        BY <1>9, Zenon
    <2> QED  BY <1>1, <1>6, <1>8, <1>9, <1>10, <1>11, <2>1, <2>2, <2>3, OneAccount
<1> QED  BY <1>6, <1>12, Zenon

LEMMA SignStep ==
    ASSUME ProvidersInv, ChainInv, TrafficInv, TrafficFits, NEW k \in Keys, SignTraffic(k)
    PROVE  TrafficInv' /\ TrafficFits'
<1>1. /\ phase = "traffic" /\ pc[k] = "sign"
      /\ UNCHANGED <<setting, providers, account, worker, draft, sequence, mempool, results, lost>>
    BY Zenon DEF SignTraffic, pool, chain
<1>2. PICK i \in selectProvider(setting.frequencies) :
          LET tx == BuildAndSignTx(providers[i], draft[k])
          IN  IF tx.panics
              THEN /\ phase' = "panicked"
                   /\ UNCHANGED <<pc, queue>>
              ELSE /\ queue' = [queue EXCEPT ![k] = Append(@, tx)]
                   /\ pc' = [pc EXCEPT ![k] = IF Len(queue[k]) + 1 < setting.transactions
                                              THEN "generate" ELSE "ready"]
                   /\ UNCHANGED phase
    BY Zenon DEF SignTraffic
<1> DEFINE tx == BuildAndSignTx(providers[i], draft[k])
<1>3. i \in DOMAIN providers /\ IsProvider(providers[i])
    BY Chosen, Zenon
<1>4. SameKinds
    BY <1>1, ProvidersStill, Zenon
<1>5. \A j \in Keys : Expected(j)' = Expected(j)
    BY <1>1, ChainStill, Zenon
<1>6. TrafficOf(k) /\ DraftFits(k) /\ IsSeq(queue[k])
    BY <1>1, Zenon DEF TrafficInv, TrafficOf
<1>7. ~tx.panics => Fits(tx, k, account[k] + Len(queue[k]))
    <2> SUFFICES ASSUME ~tx.panics  PROVE Fits(tx, k, account[k] + Len(queue[k]))
        BY Zenon
    <2>1. MadeFor(draft[k], k, account[k] + Len(queue[k]))
        BY <1>6, Zenon DEF DraftFits
    <2>2. /\ tx.from = k /\ tx.sequence = account[k] + Len(queue[k])
          /\ tx.signature[1] = k /\ tx.signature[2] = ChainID
          /\ (draft[k].msgs[1].type = "MsgEthereumTx" <=> providers[i].kind \in Signs) =>
                (tx.mode = "eth" <=> tx.msgs[1].type = "MsgEthereumTx")
        BY <1>3, <2>1, Signed, SMTT(30)
    <2>3. OneSigner => (draft[k].msgs[1].type = "MsgEthereumTx" <=> providers[i].kind \in Signs)
        BY <1>3, <1>6, Zenon DEF DraftFits, OneSigner
    <2> QED  BY <2>2, <2>3, Zenon DEF Fits
<1> HIDE DEF tx
<1>8. CASE tx.panics
    <2>1. phase' = "panicked" /\ UNCHANGED <<pc, queue>>
        BY <1>2, <1>8, Zenon DEF tx
    <2>2. \A j \in Keys : KeptFor(j)
        BY <1>1, <1>5, <2>1, Zenon DEF KeptFor
    <2>3. TrafficOf(k)'
        BY <1>6, <2>1, <2>2, NowEnds, Zenon
    <2>4. pc'[k] # "refused"
        BY <1>1, <2>1, Zenon
    <2> QED  BY <1>1, <1>4, <2>1, <2>2, <2>3, <2>4, OneAccount, Zenon DEF TrafficInv
<1>9. CASE ~tx.panics
    <2>1. /\ queue' = [queue EXCEPT ![k] = Append(@, tx)]
          /\ pc' = [pc EXCEPT ![k] = IF Len(queue[k]) + 1 < setting.transactions
                                     THEN "generate" ELSE "ready"]
          /\ phase' = phase
        BY <1>2, <1>9, Zenon DEF tx
    <2>2. /\ DOMAIN queue' = Keys /\ queue'[k] = Append(queue[k], tx)
          /\ \A j \in Keys \ {k} : queue'[j] = queue[j]
        BY <2>1, Zenon DEF TrafficInv
    <2>3. /\ pc' \in [Keys -> {"fetch", "generate", "sign", "ready", "refused"}]
          /\ pc'[k] \in {"generate", "ready"} /\ \A j \in Keys \ {k} : pc'[j] = pc[j]
        BY <2>1, Zenon DEF TrafficInv
    <2>4. \A j \in Keys \ {k} : KeptFor(j)
        BY <1>1, <1>5, <2>2, <2>3, Zenon DEF KeptFor
    <2>5. /\ IsSeq(Append(queue[k], tx))
          /\ DOMAIN Append(queue[k], tx) = 1..(Len(queue[k]) + 1)
          /\ Append(queue[k], tx)[Len(queue[k]) + 1] = tx
          /\ \A j \in DOMAIN queue[k] : Append(queue[k], tx)[j] = queue[k][j]
          /\ Len(queue[k]) \in Nat /\ DOMAIN queue[k] = 1..Len(queue[k])
        <3>1. IsSeq(queue[k])
            BY <1>6, Zenon DEF TrafficOf
        <3>2. Len(queue[k]) \in Nat /\ DOMAIN queue[k] = 1..Len(queue[k])
            BY <3>1, SeqFacts, Zenon
        <3>3. PICK s, e : s = queue[k] /\ e = tx
            BY Zenon
        <3>4. /\ IsSeq(Append(s, e)) /\ DOMAIN Append(s, e) = 1..(Len(s) + 1)
              /\ Append(s, e)[Len(s) + 1] = e /\ \A j \in DOMAIN s : Append(s, e)[j] = s[j]
            <4>1. IsSeq(s)
                BY <3>1, <3>3, Zenon
            <4> QED  BY ONLY <4>1, SeqAppended, SMT
        <3> QED  BY <3>2, <3>3, <3>4, Zenon
    <2>6. lost \/ worker[k] = "gaveup" \/ InStep(k)'
        <3> SUFFICES ASSUME ~lost, worker[k] # "gaveup"  PROVE InStep(k)'
            BY Zenon
        <3>1. account[k] = Expected(k) /\ account[k] \in Nat
              /\ \A j \in DOMAIN queue[k] : Fits(queue[k][j], k, Expected(k) + j - 1)
            BY <1>1, <1>6, Zenon DEF TrafficOf, InStep, TrafficInv
        <3>2. Expected(k) + (Len(queue[k]) + 1) - 1 = account[k] + Len(queue[k])
            BY <2>5, <3>1
        <3>3. Fits(tx, k, Expected(k) + (Len(queue[k]) + 1) - 1)
            BY <1>7, <1>9, <3>2, Zenon
        <3>4. \A j \in DOMAIN queue'[k] : Fits(queue'[k][j], k, Expected(k) + j - 1)
            <4> SUFFICES ASSUME NEW j \in DOMAIN queue'[k]
                         PROVE  Fits(queue'[k][j], k, Expected(k) + j - 1)
                BY Zenon
            <4>1. CASE j = Len(queue[k]) + 1
                BY <2>2, <2>5, <3>3, <4>1, Zenon
            <4>2. CASE j \in DOMAIN queue[k]
                BY <2>2, <2>5, <3>1, <4>2, Zenon
            <4> QED  BY <2>2, <2>5, <4>1, <4>2
        <3>5. OneSigner' <=> OneSigner
            BY <1>4, OneSignerStill, Zenon
        <3>6. account'[k] = account[k] /\ Expected(k)' = Expected(k)
            BY <1>1, <1>5, Zenon
        <3> QED  BY <3>1, <3>4, <3>5, <3>6, Zenon DEF InStep, Fits
    <2>7. IsSeq(queue[k])'
        BY <2>2, <2>5, Zenon DEF IsSeq
    <2>o. \A j \in DOMAIN queue'[k] : queue'[k][j].from = k
        BY <1>6, <1>7, <1>9, <2>2, <2>5 DEF TrafficOf, Fits
    <2>8. TrafficOf(k)'
        BY <1>1, <2>1, <2>3, <2>6, <2>7, <2>o, Zenon DEF TrafficOf
    <2>9. pc'[k] # "refused"
        BY <2>3, Zenon
    <2> QED  BY <1>1, <1>4, <2>1, <2>2, <2>3, <2>4, <2>8, <2>9, OneAccount DEF TrafficInv
<1> QED  BY <1>8, <1>9, Zenon

\* What is sent is next; unless something was lost or given up, the node takes it.
LEMMA SendStep ==
    ASSUME ProvidersInv, ChainInv, TrafficInv, TrafficFits, NEW k \in Keys, Send(k)
    PROVE  ChainInv' /\ TrafficInv' /\ TrafficFits'
<1>1. /\ phase = "send" /\ pc[k] = "ready" /\ queue[k] # << >> /\ phase' = phase
      /\ UNCHANGED <<setting, providers, account, worker, draft, sequence, results, lost>>
    BY Zenon DEF Send, pool
<1>2. SameKinds
    BY <1>1, ProvidersStill, Zenon
<1>3. TrafficOf(k) /\ IsSeq(queue[k])
    BY Zenon DEF TrafficInv, TrafficOf
<1> DEFINE head == Head(queue[k])
           rest == Tail(queue[k])
<1>4. /\ IsSeq(rest) /\ 1 \in DOMAIN queue[k] /\ head = queue[k][1]
      /\ \A j \in DOMAIN rest : j \in Nat /\ j + 1 \in DOMAIN queue[k]
                                 /\ rest[j] = queue[k][j + 1]
    BY <1>1, <1>3, SeqRest, Zenon
<1>5. lost \/ worker[k] = "gaveup" \/ InStep(k)
    BY <1>1, <1>3, Zenon DEF TrafficOf
<1>6. Expected(k) \in Nat
    BY ExpectedType, Zenon
<1>7. InStep(k) => Fits(head, k, Expected(k))
    <2>1. Expected(k) + 1 - 1 = Expected(k)
        BY <1>6
    <2> QED  BY <1>4, <2>1, Zenon DEF InStep
<1>8. CASE AnteAccepts(head)
    <2>1. mempool' = mempool \union {head} /\ queue' = [queue EXCEPT ![k] = rest] /\ pc' = pc
        BY <1>8, Zenon DEF Send
    <2>2. head.from = k /\ head.sequence = Expected(k)
        BY <1>3, <1>4, <1>8, Zenon DEF TrafficOf, AnteAccepts
    <2>3. /\ ChainInv' /\ Expected(k)' = Expected(k) + 1
          /\ \A j \in Keys \ {k} : Expected(j)' = Expected(j)
        BY <1>1, <2>1, <2>2, ChainAdmits, Zenon
    <2>4. /\ DOMAIN queue' = Keys /\ queue'[k] = rest
          /\ \A j \in Keys \ {k} : queue'[j] = queue[j]
        BY <2>1, Zenon DEF TrafficInv
    <2>5. \A j \in Keys \ {k} : KeptFor(j)
        BY <1>1, <2>1, <2>3, <2>4 DEF KeptFor
    <2>6. InStep(k) => InStep(k)'
        <3> SUFFICES ASSUME InStep(k)  PROVE InStep(k)'
            BY Zenon
        <3>1. OneSigner' <=> OneSigner
            BY <1>2, OneSignerStill, Zenon
        <3>2. \A j \in DOMAIN rest : Fits(rest[j], k, Expected(k)' + j - 1)
            <4> SUFFICES ASSUME NEW j \in DOMAIN rest
                         PROVE  Fits(rest[j], k, Expected(k)' + j - 1)
                BY Zenon
            <4>1. Expected(k)' + j - 1 = Expected(k) + (j + 1) - 1
                BY <1>4, <1>6, <2>3
            <4>2. Fits(queue[k][j + 1], k, Expected(k) + (j + 1) - 1)
                BY <1>4, Zenon DEF InStep
            <4> QED  BY <1>4, <4>1, <4>2, Zenon
        <3>3. PICK r : r = rest /\ queue'[k] = r
            BY <2>4, Zenon
        <3>4. \A j \in DOMAIN r :
                  /\ r[j].from = k /\ r[j].sequence = Expected(k)' + j - 1
                  /\ r[j].signature[1] = k /\ r[j].signature[2] = ChainID
                  /\ OneSigner' => (r[j].mode = "eth" <=> r[j].msgs[1].type = "MsgEthereumTx")
            BY <3>1, <3>2, <3>3, Zenon DEF Fits
        <3>5. phase' # "traffic"
            BY <1>1, Zenon
        <3> QED  BY <3>3, <3>4, <3>5, Zenon DEF InStep, Fits
    <2>7. IsSeq(queue[k])'
        <3> HIDE DEF rest
        <3> QED  BY <1>4, <2>4 DEF IsSeq
    <2>8. \A j \in DOMAIN queue'[k] : queue'[k][j].from = k
        BY <1>3, <1>4, <2>4 DEF TrafficOf
    <2>9. TrafficOf(k)'
        BY <1>1, <1>5, <2>1, <2>6, <2>7, <2>8, Zenon DEF TrafficOf
    <2>10. TrafficInv' /\ TrafficFits'
        BY <1>1, <1>2, <2>1, <2>4, <2>5, <2>9, OneAccount, Zenon DEF TrafficInv
    <2> QED  BY <2>3, <2>10, Zenon
<1>9. CASE ~AnteAccepts(head)
    <2>1. pc' = [pc EXCEPT ![k] = "refused"] /\ mempool' = mempool /\ queue' = queue
        BY <1>9, Zenon DEF Send
    <2>2. ChainInv' /\ \A j \in Keys : Expected(j)' = Expected(j)
        BY <1>1, <2>1, ChainStill, Zenon
    <2>3. /\ pc' \in [Keys -> {"fetch", "generate", "sign", "ready", "refused"}]
          /\ pc'[k] = "refused" /\ \A j \in Keys \ {k} : pc'[j] = pc[j]
        BY <2>1, Zenon DEF TrafficInv
    <2>4. \A j \in Keys \ {k} : KeptFor(j)
        BY <1>1, <2>1, <2>2, <2>3, Zenon DEF KeptFor
    <2>5. OneSigner /\ setting.node.chainID = ChainID => lost \/ worker[k] = "gaveup"
        <3> SUFFICES ASSUME OneSigner, setting.node.chainID = ChainID, Fits(head, k, Expected(k))
                     PROVE  FALSE
            BY <1>5, <1>7, Zenon
        <3> QED  BY <1>9, Zenon DEF Fits, AnteAccepts
    <2>6. IsSeq(queue[k])'
        BY <1>3, <2>1, Zenon DEF IsSeq
    <2>7. TrafficOf(k)'
        BY <1>1, <1>3, <2>1, <2>3, <2>6, Zenon DEF TrafficOf
    <2>8. TrafficInv' /\ TrafficFits'
        BY <1>1, <1>2, <2>1, <2>3, <2>4, <2>5, <2>7, OneAccount DEF TrafficInv
    <2> QED  BY <2>2, <2>8, Zenon
<1> QED  BY <1>8, <1>9, Zenon
-----------------------------------------------------------------------------
(* The invariant                                                           *)

\* Steps of the pool: the traffic waits.
LEMMA PoolStep ==
    ASSUME WorkloadInv, NEW k \in Keys, Work(k)
    PROVE  WorkloadInv'
<1> USE DEF WorkloadInv
<1>1. /\ phase = "pool" /\ UNCHANGED <<setting, providers, account, traffic, sequence, results>>
      /\ phase' \in {"pool", "panicked"}
    BY Zenon DEF Work, SignInitialTx, Accepted, InMempoolCache, Rejected, RequestTimeout, Confirmed,
           ConfirmTimeout, chain
<1>2. ProvidersInv'
    BY <1>1, ProvidersStill, Zenon
<1>3. TrafficInv' /\ TrafficFits'
    BY <1>1, TrafficWaits, Zenon DEF TrafficInv
<1>4. CASE SignInitialTx(k)
    <2>1. PoolInv' /\ \A j \in Keys : copies[j] \subseteq copies'[j]
        BY <1>4, SignPool, Zenon
    <2>2. mempool' = mempool
        BY <1>4, Zenon DEF SignInitialTx, chain
    <2>3. ChainInv'
        BY <1>1, <2>2, ChainStill, Zenon
    <2>4. QuietInv'
        BY <1>1, <2>1, <2>2, QuietStep, Zenon
    <2> QED  BY <1>2, <1>3, <2>1, <2>3, <2>4, Zenon
<1>5. ASSUME NEW w, worker[k] # "none", worker' = [worker EXCEPT ![k] = w],
             UNCHANGED <<txs, phase>>,
             \/ w \in {"retry", "gaveup"}
             \/ w = "await" /\ worker[k] = "submit"
             \/ w = "done" /\ worker[k] = "await" /\ \E r \in results : r.tx = signed[k] /\ r.ok,
             \/ mempool' = mempool
             \/ /\ worker[k] = "submit" /\ AnteAccepts(signed[k])
                /\ mempool' = mempool \union {signed[k]}
      PROVE  WorkloadInv'
    <2>1. PoolInv'
        BY <1>1, <1>5, WorkerMoves, Zenon
    <2>2. copies' = copies
        BY <1>5, Zenon DEF txs
    <2>3. CASE mempool' = mempool
        <3>1. ChainInv'
            BY <1>1, <2>3, ChainStill, Zenon
        <3>2. QuietInv'
            BY <1>1, <2>1, <2>2, <2>3, QuietStep
        <3> QED  BY <1>2, <1>3, <2>1, <3>1, <3>2, Zenon
    <2>4. CASE /\ worker[k] = "submit" /\ AnteAccepts(signed[k])
               /\ mempool' = mempool \union {signed[k]}
        <3>1. signed[k] \in copies[k] /\ signed[k].from = k
            BY <2>4, Zenon DEF PoolInv
        <3>2. signed[k].sequence = Expected(k)
            BY <2>4, <3>1, Zenon DEF AnteAccepts
        <3>3. ChainInv'
            BY <1>1, <2>4, <3>1, <3>2, ChainAdmits
        <3>4. QuietInv'
            BY <1>1, <2>1, <2>2, <2>4, <3>1, QuietStep
        <3> QED  BY <1>2, <1>3, <2>1, <3>3, <3>4, Zenon
    <2> QED  BY <1>5, <2>3, <2>4, Zenon
<1>6. CASE Accepted(k)
    <2>1. /\ worker[k] = "submit" /\ AnteAccepts(signed[k]) /\ UNCHANGED <<txs, phase>>
          /\ mempool' = mempool \union {signed[k]} /\ worker' = [worker EXCEPT ![k] = "await"]
        BY <1>6, Zenon DEF Accepted
    <2> QED  BY <1>5, <2>1, Zenon
<1>7. CASE InMempoolCache(k)
    <2>1. /\ worker[k] = "submit" /\ UNCHANGED <<txs, phase>>
          /\ mempool' = mempool /\ worker' = [worker EXCEPT ![k] = "await"]
        BY <1>7, Zenon DEF InMempoolCache, chain
    <2> QED  BY <1>5, <2>1, Zenon
<1> DEFINE w == IF attempt[k] + 1 < Attempts THEN "retry" ELSE "gaveup"
<1>8. CASE Rejected(k)
    <2>1. /\ worker[k] = "submit" /\ UNCHANGED <<txs, phase>>
          /\ mempool' = mempool /\ worker' = [worker EXCEPT ![k] = w]
        BY <1>8, Zenon DEF Rejected, AttemptFails, chain
    <2> QED  BY <1>5, <2>1, Zenon
<1>9. CASE RequestTimeout(k)
    <2>1. /\ worker[k] = "submit" /\ UNCHANGED <<txs, phase>>
          /\ worker' = [worker EXCEPT ![k] = w]
          /\ \/ mempool' = mempool
             \/ AnteAccepts(signed[k]) /\ mempool' = mempool \union {signed[k]}
        BY <1>9, Zenon DEF RequestTimeout, AttemptFails
    <2> QED  BY <1>5, <2>1, Zenon
<1>10. CASE ConfirmTimeout(k)
    <2>1. /\ worker[k] = "await" /\ UNCHANGED <<txs, phase>>
          /\ mempool' = mempool /\ worker' = [worker EXCEPT ![k] = w]
        BY <1>10, Zenon DEF ConfirmTimeout, AttemptFails, chain
    <2> QED  BY <1>5, <2>1, Zenon
<1>11. CASE Confirmed(k)
    <2>1. worker[k] = "await" /\ UNCHANGED <<txs, phase>> /\ mempool' = mempool
        BY <1>11, Zenon DEF Confirmed, chain
    <2>2. \/ worker' = [worker EXCEPT ![k] = w]
          \/ /\ worker' = [worker EXCEPT ![k] = "done"]
             /\ \E r \in results : r.tx = signed[k] /\ r.ok
        BY <1>11, Zenon DEF Confirmed, AttemptFails
    <2> QED  BY <1>5, <2>1, <2>2, Zenon
<1> QED  BY <1>4, <1>6, <1>7, <1>8, <1>9, <1>10, <1>11 DEF Work

\* Steps that change nothing but the phase leave each account what it has.
LEMMA QuietTraffic ==
    ASSUME TrafficInv, TrafficFits, SameKinds, \A k \in Keys : KeptFor(k),
           UNCHANGED <<account, traffic, setting, worker>>, lost => lost',
           phase' = phase \/ phase' \in {"failed", "panicked", "died"}
    PROVE  TrafficInv' /\ TrafficFits'
<1>1. UNCHANGED <<pc, draft, queue>>
    BY Zenon DEF traffic
<1>2. \A k \in Keys : TrafficOf(k)'
    <2> SUFFICES ASSUME NEW k \in Keys  PROVE TrafficOf(k)'
        BY Zenon
    <2>1. TrafficOf(k) /\ KeptFor(k)
        BY Zenon DEF TrafficInv
    <2> QED  BY <2>1, StillFits, NowEnds, Zenon
<1>3. TrafficInv'
    BY <1>1, <1>2, Zenon DEF TrafficInv
<1>4. OneSigner' <=> OneSigner
    BY OneSignerStill, Zenon
<1>5. TrafficFits'
    BY <1>1, <1>4, Zenon DEF TrafficFits
<1> QED  BY <1>3, <1>5, Zenon

LEMMA InvInit == Init => WorkloadInv
<1> SUFFICES ASSUME Init  PROVE WorkloadInv
    BY Zenon
<1>1. ProvidersInv
    BY WorkloadAssumption, Zenon DEF Init, ProvidersInv
<1>2. ChainInv
    <2>1. sequence \in [Keys -> Nat] /\ results = {} /\ \A k \in Keys : Pending(k) = {}
        BY Zenon DEF Init, Pending
    <2>2. \A k \in Keys : RunFrom(Pending(k), sequence[k])
        BY <2>1, RunEmpty, Zenon
    <2> QED  BY <2>1, <2>2, Zenon DEF ChainInv
<1>3. PoolInv
    <2>1. key \in Keys
        BY WorkloadAssumption DEF Init, Keys
    <2>2. /\ phase = "initial" /\ worker = [k \in Keys |-> "none"] /\ copies = [k \in Keys |-> {}]
          /\ DOMAIN initialTx = Keys /\ DOMAIN signed = Keys
        BY Zenon DEF Init
    <2>3. DOMAIN copies = Keys /\ \A k \in Keys : worker[k] = "none" /\ copies[k] = {}
        BY <2>2, Zenon
    <2>4. worker \in [Keys -> {"none", "queued", "retry", "submit", "await", "done", "gaveup"}]
        BY <2>2, Zenon
    <2> QED  BY <2>1, <2>2, <2>3, <2>4, Zenon DEF PoolInv
<1>4. QuietInv
    BY Zenon DEF Init, QuietInv
<1>5. TrafficInv
    <2>1. IsSeq(<< >>)
        BY EmptySeq, Zenon DEF IsSeq
    <2>2. \A k \in Keys : TrafficOf(k)
        BY <2>1 DEF Init, TrafficOf
    <2> QED  BY <2>2, Zenon DEF Init, TrafficInv
<1>6. TrafficFits
    BY Zenon DEF Init, TrafficFits
<1> QED  BY <1>1, <1>2, <1>3, <1>4, <1>5, <1>6, Zenon DEF WorkloadInv

LEMMA InvNext == WorkloadInv /\ [Next]_vars => WorkloadInv'
<1> SUFFICES ASSUME WorkloadInv, [Next]_vars  PROVE WorkloadInv'
    BY Zenon
<1> USE DEF WorkloadInv
\* Steps that leave all but the phase, the codes and what is pending alone.
<1>s. ASSUME UNCHANGED <<setting, providers, account, pool, traffic, sequence, mempool, results,
                         lost>>,
             phase' = phase \/ (phase # "send" /\ phase' \in {"failed", "died"}), key' = key
      PROVE  WorkloadInv'
    <2>1. ProvidersInv' /\ SameKinds
        BY <1>s, ProvidersStill, Zenon
    <2>2. ChainInv' /\ \A k \in Keys : Expected(k)' = Expected(k)
        BY <1>s, ChainStill, Zenon
    <2>3. PoolInv'
        BY <1>s, PoolStill, Zenon
    <2>4. copies' = copies /\ worker' = worker
        BY <1>s, Zenon DEF pool, txs
    <2>5. \A k \in Keys : KeptFor(k)
        BY <1>s, <2>2, <2>4, Zenon DEF KeptFor, traffic
    <2>6. TrafficInv' /\ TrafficFits'
        BY <1>s, <2>1, <2>4, <2>5, QuietTraffic, Zenon
    <2>7. QuietInv'
        BY <1>s, <2>3, <2>4, QuietStep, Zenon
    <2> QED  BY <2>1, <2>2, <2>3, <2>6, <2>7, Zenon
<1>1. CASE InitialTxFails
    BY <1>1, <1>s, Zenon DEF InitialTxFails, chain
<1>2. CASE RaceDetected
    BY <1>2, <1>s, Zenon DEF RaceDetected, chain
<1>3. CASE ForeignStore
    BY <1>3, <1>s, Zenon DEF ForeignStore
<1>4. CASE UNCHANGED vars
    BY <1>4, <1>s, Zenon DEF vars, chain
<1>5. CASE Finished
    BY <1>4, <1>5, Zenon DEF Finished
<1>6. CASE CreateInitialTx
    <2>1. /\ ProvidersInv' /\ SameKinds /\ PoolInv'
          /\ phase = "initial" /\ phase' \in {"initial", "pool", "traffic", "failed"}
          /\ UNCHANGED <<copies, traffic, sequence, mempool, results, lost, setting>>
          /\ key \in Keys /\ account' = [account EXCEPT ![key] = sequence[key]]
        BY <1>6, CreatePool, Zenon
    <2>2. ChainInv'
        BY <2>1, ChainStill, Zenon
    <2>3. account' \in [Keys -> Nat]
        BY <2>1, ExpectedType, Zenon DEF TrafficInv
    <2>4. TrafficInv' /\ TrafficFits'
        BY <2>1, <2>3, TrafficWaits, Zenon
    <2>5. QuietInv'
        BY <2>1, QuietStep, Zenon
    <2> QED  BY <2>1, <2>2, <2>4, <2>5, Zenon
<1>7. CASE PoolStops
    <2>1. /\ phase = "pool" /\ phase' = "traffic"
          /\ \A k \in Keys : worker[k] \in {"none", "done", "gaveup"}
          /\ UNCHANGED <<setting, providers, account, pool, traffic, sequence, mempool, results>>
        BY <1>7, Zenon DEF PoolStops, chain
    <2>2. ProvidersInv' /\ ChainInv'
        BY <2>1, ProvidersStill, ChainStill, Zenon
    <2>3. PoolInv' /\ copies' = copies
        BY <2>1, PoolStill, Zenon DEF pool, txs
    <2>4. QuietInv'
        BY <2>1, <2>3, QuietStep, Zenon
    <2>5. TrafficInv' /\ TrafficFits'
        BY <2>1, TrafficWaits, Zenon DEF TrafficInv
    <2> QED  BY <2>2, <2>3, <2>4, <2>5, Zenon
<1>8. CASE StartSending
    <2>1. /\ phase = "traffic" /\ phase' = "send" /\ \A k \in Keys : pc[k] = "ready"
          /\ UNCHANGED <<setting, providers, account, pool, traffic, sequence, mempool, results, lost>>
        BY <1>8, Zenon DEF StartSending, chain
    <2>2. ProvidersInv' /\ SameKinds /\ ChainInv' /\ \A k \in Keys : Expected(k)' = Expected(k)
        BY <2>1, ProvidersStill, ChainStill, Zenon
    <2>3. PoolInv'
        BY <2>1, PoolStill, Zenon
    <2>4. QuietInv'
        BY <2>1, Zenon DEF QuietInv
    <2>5. UNCHANGED <<worker, pc, draft, queue>>
        BY <2>1, Zenon DEF pool, traffic
    <2>6. OneSigner' <=> OneSigner
        BY <2>2, OneSignerStill, Zenon
    <2>7. \A k \in Keys : TrafficOf(k)'
        <3> SUFFICES ASSUME NEW k \in Keys  PROVE TrafficOf(k)'
            BY Zenon
        <3>1. TrafficOf(k)
            BY Zenon DEF TrafficInv
        <3>2. IsSeq(queue[k])'
            BY <2>5, <3>1, Zenon DEF TrafficOf, IsSeq
        <3>3. InStep(k) => InStep(k)'
            BY <2>1, <2>2, <2>5, <2>6, Zenon DEF InStep, Fits
        <3> QED  BY <2>1, <2>5, <3>1, <3>2, <3>3, Zenon DEF TrafficOf
    <2>8. TrafficInv'
        BY <2>1, <2>5, <2>7, Zenon DEF TrafficInv
    <2>9. TrafficFits'
        BY <2>1, <2>5, Zenon DEF TrafficFits
    <2> QED  BY <2>2, <2>3, <2>4, <2>8, <2>9, Zenon
<1>9. CASE \E k \in Keys : Work(k)
    BY <1>9, PoolStep, Zenon
<1>10. CASE \E k \in Keys : Traffic(k)
    <2> SUFFICES ASSUME NEW k \in Keys, Traffic(k)  PROVE WorkloadInv'
        BY <1>10, Zenon
    <2>1. /\ UNCHANGED <<setting, key, pool, sequence, results, lost>>
          /\ phase \in {"traffic", "send"}
          /\ phase' = phase \/ (phase # "send" /\ phase' \in {"failed", "panicked"})
          /\ phase' # "send" => mempool' = mempool
        BY Zenon DEF Traffic, FetchSequence, GenerateTraffic, SignTraffic, Send, chain
    <2>2. PoolInv' /\ copies' = copies
        BY <2>1, PoolStill, Zenon DEF pool, txs
    <2>3. QuietInv'
        BY <2>1, <2>2, QuietStep, Zenon
    <2>4. CASE FetchSequence(k)
        <3>1. UNCHANGED <<providers, mempool>>
            BY <2>4, Zenon DEF FetchSequence, chain
        <3>2. ProvidersInv' /\ ChainInv'
            BY <2>1, <3>1, ProvidersStill, ChainStill, Zenon
        <3> QED  BY <2>2, <2>3, <2>4, <3>2, FetchTraffic, Zenon
    <2>5. CASE GenerateTraffic(k)
        <3>1. ChainInv'
            BY <2>1, <2>5, ChainStill, Zenon DEF GenerateTraffic, chain
        <3> QED  BY <2>2, <2>3, <2>5, <3>1, GenerateStep, Zenon
    <2>6. CASE SignTraffic(k)
        <3>1. UNCHANGED <<providers, mempool>>
            BY <2>6, Zenon DEF SignTraffic, chain
        <3>2. ProvidersInv' /\ ChainInv'
            BY <2>1, <3>1, ProvidersStill, ChainStill, Zenon
        <3> QED  BY <2>2, <2>3, <2>6, <3>2, SignStep, Zenon
    <2>7. CASE Send(k)
        <3>1. ProvidersInv'
            BY <2>1, <2>7, ProvidersStill, Zenon DEF Send
        <3> QED  BY <2>2, <2>3, <2>7, <3>1, SendStep, Zenon
    <2> QED  BY <2>4, <2>5, <2>6, <2>7, Zenon DEF Traffic
<1>11. CASE \E k \in Keys : Include(k)
    <2> SUFFICES ASSUME NEW k \in Keys, Include(k)  PROVE WorkloadInv'
        BY <1>11, Zenon
    <2>1. /\ ChainInv'
          /\ \A j \in Keys : Expected(j)' = Expected(j)
          /\ mempool' \subseteq mempool
          /\ results \subseteq results'
          /\ UNCHANGED <<setting, providers, phase, key, account, pool, traffic, lost>>
        BY ChainIncludes, Zenon
    <2>2. ProvidersInv' /\ SameKinds
        BY <2>1, ProvidersStill, Zenon
    <2>3. PoolInv'
        BY <2>1, PoolStill, Zenon
    <2>4. copies' = copies /\ worker' = worker
        BY <2>1, Zenon DEF pool, txs
    <2>5. QuietInv'
        BY <2>1, <2>3, <2>4, QuietStep, Zenon
    <2>6. \A j \in Keys : KeptFor(j)
        BY <2>1, <2>4, Zenon DEF KeptFor, traffic
    <2>7. TrafficInv' /\ TrafficFits'
        BY <2>1, <2>2, <2>4, <2>6, QuietTraffic, Zenon
    <2> QED  BY <2>1, <2>2, <2>3, <2>5, <2>7, Zenon
<1>12. CASE \E k \in Keys : MempoolLoses(k)
    <2> SUFFICES ASSUME NEW k \in Keys, MempoolLoses(k)  PROVE WorkloadInv'
        BY <1>12, Zenon
    <2>1. /\ lost' = TRUE
          /\ UNCHANGED <<setting, providers, phase, key, account, pool, traffic, results>>
        BY Zenon DEF MempoolLoses
    <2>2. ChainInv' /\ mempool' \subseteq mempool
        BY ChainLoses, Zenon
    <2>3. ProvidersInv' /\ SameKinds
        BY <2>1, ProvidersStill, Zenon
    <2>4. PoolInv'
        BY <2>1, PoolStill, Zenon
    <2>5. copies' = copies /\ worker' = worker
        BY <2>1, Zenon DEF pool, txs
    <2>6. QuietInv'
        BY <2>1, <2>2, <2>4, <2>5, QuietStep, Zenon
    <2>7. \A j \in Keys : KeptFor(j)
        BY <2>1, <2>5, Zenon DEF KeptFor, traffic
    <2>8. TrafficInv' /\ TrafficFits'
        BY <2>1, <2>3, <2>5, <2>7, QuietTraffic, Zenon
    <2> QED  BY <2>2, <2>3, <2>4, <2>6, <2>8, Zenon
<1> QED
    BY <1>1, <1>2, <1>3, <1>4, <1>5, <1>6, <1>7, <1>8, <1>9, <1>10, <1>11, <1>12 DEF Next
-----------------------------------------------------------------------------
(* What follows                                                            *)

\* What is pending at the chain continues what is executed, each worker's copies
\* are for one sequence, and the traffic is in step with the chain.
THEOREM WorkloadInvariant == Spec => []WorkloadInv
BY InvInit, InvNext, PTL DEF Spec

\* Copies for one sequence have one result.
LEMMA InvOnce == WorkloadInv => SetupOnce
<1> SUFFICES ASSUME WorkloadInv, NEW k \in Keys
             PROVE  /\ Cardinality(InitialResults(k)) <= 1
                    /\ worker[k] = "done" => \E r \in InitialResults(k) : r.ok
    BY Zenon DEF SetupOnce
<1>1. \A r, s \in InitialResults(k) : r = s
    <2>1. \A r \in InitialResults(k) :
              r \in results /\ r.tx.from = k /\ r.tx.sequence = initialTx[k].sequence
        BY ZenonT(30) DEF InitialResults, WorkloadInv, PoolInv
    <2> QED  BY <2>1, Zenon DEF WorkloadInv, ChainInv
<1>2. Cardinality(InitialResults(k)) <= 1
    <2>1. CASE InitialResults(k) = {}
        BY <2>1, FS_EmptySet
    <2>2. CASE InitialResults(k) # {}
        <3>1. PICK r : InitialResults(k) = {r}
            BY <1>1, <2>2, Zenon
        <3>2. Cardinality(InitialResults(k)) = 1
            BY <3>1, FS_Singleton, Zenon
        <3> QED  BY <3>2
    <2> QED  BY <2>1, <2>2, Zenon
<1>3. worker[k] = "done" => \E r \in InitialResults(k) : r.ok
    BY Zenon DEF WorkloadInv, PoolInv, InitialResults
<1> QED  BY <1>2, <1>3, Zenon

\* However often an initial transaction is signed and broadcast again, by
\* whichever provider, it is executed at most once; and one that a worker has
\* seen confirmed took effect (createAndBroadcastInitialTxs).
THEOREM SetupOnceCorrect == Spec => []SetupOnce
BY WorkloadInvariant, InvOnce, PTL

\* Nothing of an account's traffic is refused unless its set-up was given up on
\* or the mempool lost something, given the node's chain ID and one signer.
THEOREM TrafficFitsCorrect == Spec => []TrafficFits
<1>1. WorkloadInv => TrafficFits
    BY Zenon DEF WorkloadInv
<1> QED  BY <1>1, WorkloadInvariant, PTL
=============================================================================
