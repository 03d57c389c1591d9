----------------------------- MODULE Providers -----------------------------
(***************************************************************************)
(* The payload providers (src/payload/): what each of them builds from a   *)
(* request, what it keeps in between, and how it signs.                    *)
(*                                                                         *)
(* A provider is a record. Accounts are the indices of their keys. A coin  *)
(* is its amount, Bad when it does not parse. Contract addresses are the   *)
(* tuples they are derived from, byte code and call data names for them.   *)
(***************************************************************************)
EXTENDS Integers, Sequences, Functions, TLC, UserOps

CONSTANTS
    OpsPerTx,    \* 50 in the code
    ChainID,
    Entrypoint, Factory, Beneficiary, Counter    \* addresses

Bad == -1

eip1559InitialBaseFee == 1000000000
defaultMaxGasLimit    == 10000000

NoAddress == << >>

Failed == [ok |-> FALSE]

Blank == [ok |-> TRUE, kind |-> "", price |-> 0, gas |-> 0, deployGas |-> 0, memo |-> "",
          amount |-> 0, numTargets |-> 0, iterations |-> 0, spot |-> << >>,
          derivative |-> << >>, salt |-> "", codeHash |-> "", codeID |-> 0,
          address |-> NoAddress, lightAccounts |-> << >>, nonces |-> << >>]

Cosmos(kind, price, gas) ==
    IF price = Bad THEN Failed
    ELSE [Blank EXCEPT !.kind = kind, !.price = price, !.gas = gas]

\* A price below the initial base fee of EIP-1559 is raised to it.
Ethereum(kind, price, gas, deployGas) ==
    IF price = Bad THEN Failed
    ELSE [Blank EXCEPT !.kind = kind, !.gas = gas, !.deployGas = deployGas,
                       !.price = IF price < eip1559InitialBaseFee
                                 THEN eip1559InitialBaseFee ELSE price]

With(p, field, value) == IF p.ok THEN [p EXCEPT ![field] = value] ELSE p

NewBankSendProvider(price, amount) ==
    IF amount = Bad THEN Failed
    ELSE With(Cosmos("bank_send", price, 150000), "amount", amount)

NewBankMultiSendProvider(price, amount, numTargets) ==
    IF numTargets < 1 \/ amount = Bad THEN Failed
    ELSE With(With(With(Cosmos("bank_multi_send", price, 18000000), "amount", amount),
                   "numTargets", numTargets), "memo", "random")

NewExchangeBatchOrdersProvider(price, spot, derivative) ==
    With(With(Cosmos("exchange_batch_orders", price, 150000), "spot", spot),
         "derivative", derivative)

NewWasmStoreCodeProvider(price) == Cosmos("wasm_store_code", price, defaultMaxGasLimit)
NewWasmInitContractProvider(price) == Cosmos("wasm_init_contract", price, defaultMaxGasLimit)

WasmCreateChecksum(wasm) == <<"sha256", wasm>>

NewWasmExecContractProvider(price) ==
    With(With(Cosmos("wasm_exec_contract", price, defaultMaxGasLimit), "salt", "now"),
         "codeHash", WasmCreateChecksum("cw20"))

NewEthSendProvider(price, amount) ==
    IF amount = Bad THEN Failed
    ELSE With(Ethereum("eth_send", price, 21000, 0), "amount", amount)

NewEthCallProvider(price) == Ethereum("eth_call", price, 50000, 230000)
NewEthDeployProvider(price) == Ethereum("eth_deploy", price, 230000, 0)

NewEthInternalCallProvider(price, iterations) ==
    LET n == IF iterations = 0 THEN 100 ELSE iterations
    IN  With(Ethereum("eth_internal_call", price, 28809 + 2500 * n, 320000),
             "iterations", n)

\* The entry point is given the factory's address, which only a call of its
\* HandleOps would use.
NewEthUserOpProvider(node, chainID, price) ==
    IF ~NewEntrypoint(node, chainID, Factory, Beneficiary).ok THEN Failed
    ELSE With(Ethereum("eth_userop", price, 42000, 230000), "address", Counter)
-----------------------------------------------------------------------------
(* GenerateTx. req: from, sequence, number, fromIdx, txIdx, keys (how many) *)

\* The providers that embed ethTxBuilderAndSigner, and all of them.
Signs == {"eth_send", "eth_call", "eth_deploy", "eth_internal_call", "eth_userop"}
Kinds == Signs \union {"bank_send", "bank_multi_send", "exchange_batch_orders",
                      "wasm_store_code", "wasm_init_contract", "wasm_exec_contract"}

IsProvider(p) == DOMAIN p = DOMAIN Blank /\ p.kind \in Kinds

\* Past the last key comes the first, however far past.
Recipient(req, offset) ==
    IF req.fromIdx + offset >= req.keys THEN 0 ELSE req.fromIdx + offset

LegacyTx(req, to, value, gas, price, data) ==
    [type |-> "MsgEthereumTx", nonce |-> req.sequence, to |-> to, value |-> value,
     gas |-> gas, price |-> price, data |-> data]

baseTx(req, msgs) ==
    [from |-> req.from, number |-> req.number, sequence |-> req.sequence,
     msgs |-> msgs, fromIdx |-> req.fromIdx, txIdx |-> req.txIdx]

NoTx == baseTx([from |-> 0, number |-> 0, sequence |-> 0, fromIdx |-> 0, txIdx |-> 0], << >>)

Returns(p, tx) == [ok |-> TRUE, provider |-> p, tx |-> tx]
Error(p)       == [ok |-> FALSE, provider |-> p, tx |-> NoTx]

bankSendGenerateTx(p, req) ==
    Returns(p, baseTx(req, <<[type |-> "MsgSend", to |-> Recipient(req, 1),
                              amount |-> p.amount]>>))

bankMultiSendGenerateTx(p, req) ==
    Returns(p, baseTx(req, <<[type |-> "MsgMultiSend", input |-> p.amount * p.numTargets,
                              outputs |-> [k \in 1..p.numTargets |->
                                  [to |-> Recipient(req, k), amount |-> p.amount]]]>>))

\* Prices rise from market to market; the last market that is cancelled stands.
exchangeGenerateTx(p, req, price, quantity, cancelDerivative, cancelSpot) ==
    LET Rise(n)   == 1000 * ((n * (n - 1)) \div 2)
        Orders(markets, start) ==
            [k \in DOMAIN markets |->
                [market |-> markets[k], price |-> start + Rise(k), quantity |-> quantity,
                 subaccount |-> <<req.from, 0>>]]
        Cancelled(markets, cancel) ==
            IF cancel /\ markets # << >> THEN <<markets[Len(markets)]>> ELSE << >>
        cd == Cancelled(p.derivative, cancelDerivative)
        cs == Cancelled(p.spot, cancelSpot)
    IN  Returns(p, baseTx(req, <<[type |-> "MsgBatchUpdateOrders",
            derivativeOrders |-> Orders(p.derivative, price),
            spotOrders |-> Orders(p.spot, price + Rise(Len(p.derivative))),
            cancelDerivative |-> cd, cancelSpot |-> cs,
            subaccount |-> IF cd \o cs # << >> THEN <<req.from, 0>> ELSE << >>]>>))

MsgStoreCode == [type |-> "MsgStoreCode", code |-> "cw20"]

wasmStoreGenerateTx(p, req) == Returns(p, baseTx(req, <<MsgStoreCode>>))

wasmInitGenerateTx(p, req) ==
    Returns(p, baseTx(req, <<[type |-> "MsgInstantiateContract", codeID |-> p.codeID]>>))

wasmExecGenerateTx(p, req) ==
    Returns(p, baseTx(req, <<[type |-> "MsgExecuteContract", contract |-> p.address,
                              recipient |-> Recipient(req, 1)]>>))

ethSendGenerateTx(p, req) ==
    Returns(p, baseTx(req, <<LegacyTx(req, <<"key", Recipient(req, 1)>>, p.amount, p.gas,
                                      p.price, << >>)>>))

ethDeployGenerateTx(p, req) ==
    Returns(p, baseTx(req, <<LegacyTx(req, NoAddress, 0, p.gas, p.price, <<"Counter">>)>>))

ethCallGenerateTx(p, req) ==
    IF p.address = NoAddress THEN Error(p)
    ELSE Returns(p, baseTx(req, <<LegacyTx(req, p.address, 0, p.gas, p.price,
                                           <<"increase">>)>>))

ethInternalCallGenerateTx(p, req) ==
    IF p.address = NoAddress THEN Error(p)
    ELSE Returns(p, baseTx(req, <<LegacyTx(req, p.address, 0, p.gas, p.price,
                                           <<"benchmarkInternalCall", p.iterations>>)>>))

\* The operations take the account's nonces one after the other.
userOpGas == [call |-> 22000, verification |-> 75000, preVerification |-> 21000,
              maxFee |-> 0, maxPriorityFee |-> 0]

\* Faulty: the next transaction begins with the same nonce.
NoncesKept(p, req) ==
    LET la    == p.lightAccounts[req.fromIdx]
        op(k) == NewUserOperationWithNonce(la, p.address, <<"increase">>,
                                           p.nonces[req.fromIdx] + k - 1, userOpGas)
        ops   == [k \in 1..OpsPerTx |->
                     SignUserOperation(op(k), Entrypoint, ChainID, req.from)]
    IN  Returns(p, baseTx(req, <<LegacyTx(req, <<"contract", Entrypoint>>, 0,
                    p.gas * OpsPerTx, p.price, HandleOpsCallData(ops, req.from))>>))

ethUserOpGenerateTx(p, req) ==
    IF p.address = NoAddress \/ req.fromIdx \notin DOMAIN p.lightAccounts THEN Error(p)
    ELSE LET la    == p.lightAccounts[req.fromIdx]
             first == p.nonces[req.fromIdx]
             op(k) == NewUserOperationWithNonce(la, p.address, <<"increase">>,
                                                first + k - 1, userOpGas)
             ops   == [k \in 1..OpsPerTx |->
                          SignUserOperation(op(k), Entrypoint, ChainID, req.from)]
         IN  Returns([p EXCEPT !.nonces[req.fromIdx] = @ + OpsPerTx],
                     baseTx(req, <<LegacyTx(req, <<"contract", Entrypoint>>, 0,
                         p.gas * OpsPerTx, p.price, HandleOpsCallData(ops, req.from))>>))
-----------------------------------------------------------------------------
(* GenerateInitialTx                                                       *)

\* The codes are counted page by page; their ids run from 1.
queryLastWasmContractID(node) == Len(node.codes)

queryBuildAddress(p, creator, initArgs) == <<"inst2", p.codeHash, creator, p.salt, initArgs>>

CreateAddress(from, nonce) == <<"create", from, nonce>>

wasmInitGenerateInitialTx(p, req, node) ==
    Returns([p EXCEPT !.codeID = queryLastWasmContractID(node) + 1],
            baseTx(req, <<MsgStoreCode>>))

wasmExecGenerateInitialTx(p, req, node) ==
    LET codeID == queryLastWasmContractID(node) + 1
    IN  Returns([p EXCEPT !.codeID = codeID,
                          !.address = queryBuildAddress(p, req.from, req.from)],
                baseTx(req, <<MsgStoreCode, [type |-> "MsgInstantiateContract2",
                    codeID |-> codeID, salt |-> p.salt, initArgs |-> req.from]>>))

ethCallGenerateInitialTx(p, req) ==
    Returns([p EXCEPT !.address = CreateAddress(req.from, req.sequence)],
            baseTx(req, <<LegacyTx(req, NoAddress, 0, p.deployGas, p.price, <<"Counter">>)>>))

ethInternalCallGenerateInitialTx(p, req) ==
    Returns([p EXCEPT !.address = CreateAddress(req.from, req.sequence)],
            baseTx(req, <<LegacyTx(req, NoAddress, 0, p.deployGas, p.price,
                                   <<"BenchmarkInternalCall">>)>>))

minAccountBalanceOnEndpoint == 10
endpointAccountBalanceTopup == 15

defaultAccountSalt == 1

\* A light account for every key, and a deposit for those short of one.
ethUserOpGenerateInitialTx(p, req, node) ==
    LET la == NewLightAccount(node, ChainID, Entrypoint, Factory, req.from,
                              defaultAccountSalt)
        q  == [p EXCEPT !.lightAccounts = (req.fromIdx :> la) @@ @,
                        !.nonces = (req.fromIdx :> Nonce(node, la)) @@ @]
    IN  IF ~la.ok THEN Error(p)
        ELSE IF Balance(node, la) >= minAccountBalanceOnEndpoint THEN Returns(q, NoTx)
        ELSE Returns(q, baseTx(req, <<LegacyTx(req, <<"contract", Entrypoint>>,
                 endpointAccountBalanceTopup, p.deployGas, p.price,
                 DepositToEntrypointCallData(la))>>))

\* One contract, provisioned by the first account, or none at all.
GenerateInitialTx(p, req, node) ==
    IF p.kind = "eth_userop" THEN ethUserOpGenerateInitialTx(p, req, node)
    ELSE IF req.fromIdx # 0 \/ req.txIdx # 0 THEN Returns(p, NoTx)
    ELSE CASE p.kind = "wasm_init_contract" -> wasmInitGenerateInitialTx(p, req, node)
           [] p.kind = "wasm_exec_contract" -> wasmExecGenerateInitialTx(p, req, node)
           [] p.kind = "eth_call"           -> ethCallGenerateInitialTx(p, req)
           [] p.kind = "eth_internal_call"  -> ethInternalCallGenerateInitialTx(p, req)
           [] OTHER                         -> Returns(p, NoTx)

\* The draws are those of the random prices, quantities and cancellations.
GenerateTx(p, req) ==
    CASE p.kind = "bank_send"          -> {bankSendGenerateTx(p, req)}
      [] p.kind = "bank_multi_send"    -> {bankMultiSendGenerateTx(p, req)}
      [] p.kind = "wasm_store_code"    -> {wasmStoreGenerateTx(p, req)}
      [] p.kind = "wasm_init_contract" -> {wasmInitGenerateTx(p, req)}
      [] p.kind = "wasm_exec_contract" -> {wasmExecGenerateTx(p, req)}
      [] p.kind = "eth_send"           -> {ethSendGenerateTx(p, req)}
      [] p.kind = "eth_call"           -> {ethCallGenerateTx(p, req)}
      [] p.kind = "eth_internal_call"  -> {ethInternalCallGenerateTx(p, req)}
      [] p.kind = "eth_deploy"         -> {ethDeployGenerateTx(p, req)}
      [] p.kind = "eth_userop"         -> {ethUserOpGenerateTx(p, req)}
      [] p.kind = "exchange_batch_orders" ->
            {exchangeGenerateTx(p, req, 1000, 1, cd, cs) : cd, cs \in BOOLEAN}
-----------------------------------------------------------------------------
(* BuildAndSignTx                                                          *)

Panic == [panics |-> TRUE]

\* chain.Client signs what was built for the account's number and sequence.
signTx(tx, body) ==
    [panics |-> FALSE, mode |-> body.mode, from |-> tx.from, sequence |-> tx.sequence,
     msgs |-> body.msgs, gas |-> body.gas, price |-> body.price, memo |-> body.memo,
     signature |-> <<tx.from, ChainID, tx.number, tx.sequence, body>>]

buildAndSignTx(tx, gas, price, memo) ==
    signTx(tx, [mode |-> "cosmos", msgs |-> tx.msgs, gas |-> gas, price |-> price,
                memo |-> memo])

\* Each of the others has its own, with the gas, price and memo it keeps.
bankSendBuildAndSignTx(p, tx)      == buildAndSignTx(tx, p.gas, p.price, p.memo)
bankMultiSendBuildAndSignTx(p, tx) == buildAndSignTx(tx, p.gas, p.price, p.memo)
exchangeBuildAndSignTx(p, tx)      == buildAndSignTx(tx, p.gas, p.price, p.memo)
wasmStoreBuildAndSignTx(p, tx)     == buildAndSignTx(tx, p.gas, p.price, p.memo)
wasmInitBuildAndSignTx(p, tx)      == buildAndSignTx(tx, p.gas, p.price, p.memo)
wasmExecBuildAndSignTx(p, tx)      == buildAndSignTx(tx, p.gas, p.price, p.memo)

\* The first message is taken for an Ethereum transaction. Its own nonce counts.
ethBuildAndSignTx(tx) ==
    LET msg == tx.msgs[1]
    IN  IF msg.type # "MsgEthereumTx" THEN Panic
        ELSE [panics |-> FALSE, mode |-> "eth", from |-> tx.from, sequence |-> msg.nonce,
              msgs |-> <<msg>>, gas |-> msg.gas, price |-> msg.price, memo |-> "",
              signature |-> <<tx.from, ChainID, msg>>]

BuildAndSignTx(p, tx) ==
    CASE p.kind \in Signs                  -> ethBuildAndSignTx(tx)
      [] p.kind = "bank_send"              -> bankSendBuildAndSignTx(p, tx)
      [] p.kind = "bank_multi_send"        -> bankMultiSendBuildAndSignTx(p, tx)
      [] p.kind = "exchange_batch_orders"  -> exchangeBuildAndSignTx(p, tx)
      [] p.kind = "wasm_store_code"        -> wasmStoreBuildAndSignTx(p, tx)
      [] p.kind = "wasm_init_contract"     -> wasmInitBuildAndSignTx(p, tx)
      [] p.kind = "wasm_exec_contract"     -> wasmExecBuildAndSignTx(p, tx)
=============================================================================
