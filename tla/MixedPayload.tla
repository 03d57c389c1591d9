---------------------------- MODULE MixedPayload ----------------------------
(***************************************************************************)
(* The provider of tx-mixed-payload (src/payload/mixed_payload.go): a list *)
(* of providers, one of which is drawn for every call.                     *)
(***************************************************************************)
EXTENDS Providers

DefaultMarket == "0x1422"

\* cfg: for every payload its frequency, 0 when it is not in the file, and its
\* options, 0 or empty when they are not.
NewMixedPayloadProvider(cfg, price) ==
    LET Amount(kind)   == IF cfg[kind].amount = 0 THEN 1 ELSE cfg[kind].amount
        Markets(given) == IF given = << >> THEN <<DefaultMarket>> ELSE given
        targets        == IF cfg["bank_multi_send"].numTargets = 0 THEN 50
                          ELSE cfg["bank_multi_send"].numTargets
        exchange       == cfg["exchange_batch_orders"]
        New(kind) ==
            CASE kind = "bank_send"  -> NewBankSendProvider(price, Amount(kind))
              [] kind = "bank_multi_send" ->
                    NewBankMultiSendProvider(price, Amount(kind), targets)
              [] kind = "eth_send"   -> NewEthSendProvider(price, Amount(kind))
              [] kind = "eth_call"   -> NewEthCallProvider(price)
              [] kind = "eth_deploy" -> NewEthDeployProvider(price)
              [] kind = "exchange_batch_orders" ->
                    NewExchangeBatchOrdersProvider(price, Markets(exchange.spot),
                                                   Markets(exchange.derivative))
              [] kind = "wasm_store_code"    -> NewWasmStoreCodeProvider(price)
              [] kind = "wasm_init_contract" -> NewWasmInitContractProvider(price)
              [] kind = "wasm_exec_contract" -> NewWasmExecContractProvider(price)
        kinds == SelectSeq(<<"bank_send", "bank_multi_send", "eth_send", "eth_call",
                             "eth_deploy", "exchange_batch_orders", "wasm_store_code",
                             "wasm_init_contract", "wasm_exec_contract">>,
                           LAMBDA kind : kind \in DOMAIN cfg /\ cfg[kind].frequency > 0)
        made  == [k \in DOMAIN kinds |-> New(kinds[k])]
    IN  IF kinds = << >> \/ \E k \in DOMAIN made : ~made[k].ok THEN Failed
        ELSE [ok |-> TRUE, providers |-> made,
              frequencies |-> [k \in DOMAIN kinds |-> cfg[kinds[k]].frequency]]

\* Frequencies are kept as parts of their sum, which is what they are divided by.
normalizeFrequencies(freqs) == [parts |-> freqs, sum |-> FoldFunction(+, 0, freqs)]

Cumulative(freqs, i) == FoldFunctionOnSet(+, 0, freqs, 1..i)

\* The providers a draw can hit: r is uniform below 1, here in half parts.
selectProvider(freqs) ==
    {i \in DOMAIN freqs :
        \E r \in 0..(2 * normalizeFrequencies(freqs).sum - 1) :
            /\ r <= 2 * Cumulative(freqs, i)
            /\ \A j \in 1..(i - 1) : r > 2 * Cumulative(freqs, j)}
=============================================================================
