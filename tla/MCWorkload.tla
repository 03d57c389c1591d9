----------------------------- MODULE MCWorkload -----------------------------
(* Two accounts, each kind of provider, and mixes of them.                 *)
EXTENDS Workload

MCEntrypoint  == "entrypoint"
MCFactory     == "factory"
MCBeneficiary == "beneficiary"
MCCounter     == <<"contract", "counter">>

Accounts == {LightAccountAddress(MCFactory, k, defaultAccountSalt) : k \in Keys}

Fresh == [chainID |-> ChainID, codes |-> << >>, code |-> {MCCounter},
          opNonce |-> [a \in Accounts |-> 0], deposit |-> [k \in Keys |-> 0]]

\* A code is stored, the first light account has been used, the second account
\* has its deposit.
Used == [chainID |-> ChainID, codes |-> <<"cw20">>,
         code |-> {MCCounter, LightAccountAddress(MCFactory, 0, defaultAccountSalt)},
         opNonce |-> [a \in Accounts |-> IF a[3] = 0 THEN 3 ELSE 0],
         deposit |-> [k \in Keys |-> IF k = 1 THEN 10 ELSE 0]]

Setting(load, start, transactions, foreign, losses) ==
    [providers |-> load.providers, frequencies |-> load.frequencies, node |-> start,
     transactions |-> transactions, foreign |-> foreign, losses |-> losses]

Single(p) == [providers |-> <<p>>, frequencies |-> <<1>>]

\* Nothing to set up.
Plain == {NewBankSendProvider(1, 1), NewBankMultiSendProvider(1, 2, 3),
          NewWasmStoreCodeProvider(1), NewEthSendProvider(1, 1), NewEthDeployProvider(1),
          NewExchangeBatchOrdersProvider(1, <<"s">>, <<"d", "e">>)}

Payload(frequency) ==
    [frequency |-> frequency, amount |-> 0, numTargets |-> 2, spot |-> << >>,
     derivative |-> << >>]

Mixed(frequency) ==
    NewMixedPayloadProvider([kind \in DOMAIN frequency |-> Payload(frequency[kind])], 1)

MCSettings ==
    {Setting(Single(p), Fresh, 2, 0, 1) : p \in Plain} \union
    {Setting(Single(p), Used, 1, 1, 1) :
        p \in {NewWasmInitContractProvider(1), NewWasmExecContractProvider(1)}} \union
    {Setting(Single(p), Fresh, 2, 0, 1) :
        p \in {NewEthCallProvider(1), NewEthInternalCallProvider(1, 0)}} \union
    {Setting(Single(NewEthUserOpProvider(Fresh, ChainID, 1)), Fresh, 1, 0, 0),
     Setting(Single(NewEthUserOpProvider(Fresh, ChainID, 1)), Used, 2, 0, 1),
     Setting(Mixed([bank_send |-> 1, exchange_batch_orders |-> 0, wasm_init_contract |-> 1]),
             Fresh, 1, 0, 0)}

\* The mix of README.md:86-95.
ReadmeSettings ==
    {Setting(Mixed([bank_send |-> 5, eth_send |-> 3, eth_call |-> 2]), Fresh, 1, 0, 0)}
=============================================================================
