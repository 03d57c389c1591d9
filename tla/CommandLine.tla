---------------------------- MODULE CommandLine ----------------------------
(***************************************************************************)
(* The commands (src/cmd/chain-stresser/main.go) over the files generate   *)
(* leaves: how the flags and the YAML file become the configuration of a   *)
(* stress run, which accounts it gets, and which provider. Commands and    *)
(* generate are processes of their own, at any time.                       *)
(***************************************************************************)
EXTENDS Generator, MixedPayload

CONSTANTS
    Invocations,    \* the command lines that are tried
    RemoteChainID,  \* the EVM chain ID of the node that is connected to
    MaxStarted      \* how many stress runs are started

VARIABLES
    started,    \* the stress runs
    last        \* what became of the last command

vars == <<genVars, started, last>>

Commands == {"tx-bank-send", "tx-bank-send-many", "tx-eth-send", "tx-eth-call", "tx-eth-deploy",
             "tx-eth-internal-call", "tx-eth-userop", "tx-exchange-batch-orders",
             "tx-wasm-store-code", "tx-wasm-init-contract", "tx-wasm-exec-contract",
             "tx-mixed-payload", "tx-replay"}

\* One command has a file to read.
ASSUME CommandLineAssumption ==
    \A inv \in Invocations :
        /\ inv.cmd \in Commands
        /\ inv.num \in Int
        /\ inv.cmd # "tx-mixed-payload" => inv.yaml = << >>

Nothing == [kind |-> "none"]

Defaults == [chainID |-> 1, ethChainID |-> 1337, minGasPrice |-> 1, nodeAddr |-> 1,
             grpcAddr |-> 1, await |-> TRUE, transactions |-> 100, rateTPS |-> 0,
             rateBytes |-> 0, rateGas |-> 0, rateBurst |-> 0]

\* A zero in the file is as good as nothing. await is a pointer.
Given(yaml, s) == s \in DOMAIN yaml /\ (s = "await" \/ yaml[s] # 0)

\* Faulty: flags are not asked for.
FileFirst(cfg, yaml, flags) ==
    [s \in DOMAIN cfg |-> IF Given(yaml, s) THEN yaml[s] ELSE cfg[s]]

applyStresserConfigFromYAML(cfg, yaml, flags) ==
    [s \in DOMAIN cfg |->
        IF Given(yaml, s) /\ s \notin DOMAIN flags THEN yaml[s] ELSE cfg[s]]

Fails == [kind |-> "panic"]

\* Faulty: the number of accounts is only compared.
AllKeys(instance, num) ==
    IF num <= 0 \/ instance \notin DOMAIN disk.accounts THEN Fails
    ELSE IF num > Len(disk.accounts[instance]) THEN Fails
    ELSE [kind |-> "read", accounts |-> disk.accounts[instance]]

readAccounts(instance, num) ==
    IF num <= 0 \/ instance \notin DOMAIN disk.accounts THEN Fails
    ELSE IF num > Len(disk.accounts[instance]) THEN Fails
    ELSE [kind |-> "read", accounts |-> SubSeq(disk.accounts[instance], 1, num)]

\* An account file that cannot be used panics; the error of a provider is
\* returned to main, which panics.
Stress(inv, cfg, provider) ==
    LET file == readAccounts(inv.instance, inv.num)
    IN  IF file = Fails \/ ~provider.ok THEN Fails
        ELSE [kind |-> "stress", cfg |-> cfg, flags |-> inv.flags, yaml |-> inv.yaml,
              accounts |-> file.accounts]

Parsed(inv) ==
    [s \in DOMAIN Defaults |-> IF s \in DOMAIN inv.flags THEN inv.flags[s] ELSE Defaults[s]]

txBankSendCmd(inv) ==
    Stress(inv, Parsed(inv), NewBankSendProvider(Parsed(inv).minGasPrice, 1))

txBankMultiSendCmd(inv) ==
    Stress(inv, Parsed(inv), NewBankMultiSendProvider(Parsed(inv).minGasPrice, 1, inv.targets))

txEthSendCmd(inv) ==
    Stress(inv, Parsed(inv), NewEthSendProvider(Parsed(inv).minGasPrice, 1))

txEthCallCmd(inv) == Stress(inv, Parsed(inv), NewEthCallProvider(Parsed(inv).minGasPrice))

txEthDeployCmd(inv) == Stress(inv, Parsed(inv), NewEthDeployProvider(Parsed(inv).minGasPrice))

txEthInternalCallCmd(inv) ==
    Stress(inv, Parsed(inv),
           NewEthInternalCallProvider(Parsed(inv).minGasPrice, inv.iterations))

txEthUserOpCmd(inv) ==
    Stress(inv, Parsed(inv),
           NewEthUserOpProvider([chainID |-> RemoteChainID], Parsed(inv).ethChainID,
                                Parsed(inv).minGasPrice))

txExchangeBatchOrdersCmd(inv) ==
    Stress(inv, Parsed(inv),
           NewExchangeBatchOrdersProvider(Parsed(inv).minGasPrice, inv.markets, inv.markets))

txWasmStoreCodeCmd(inv) ==
    Stress(inv, Parsed(inv), NewWasmStoreCodeProvider(Parsed(inv).minGasPrice))

txWasmInitContractCmd(inv) ==
    Stress(inv, Parsed(inv), NewWasmInitContractProvider(Parsed(inv).minGasPrice))

txWasmExecContractCmd(inv) ==
    Stress(inv, Parsed(inv), NewWasmExecContractProvider(Parsed(inv).minGasPrice))

\* The file settles the configuration before the provider is made from it.
txMixedPayloadCmd(inv) ==
    LET cfg == applyStresserConfigFromYAML(Parsed(inv), inv.yaml, inv.flags)
    IN  Stress(inv, cfg, NewMixedPayloadProvider(inv.payloads, cfg.minGasPrice))

\* No accounts, and no confirmation is awaited, whatever the flag says.
txnsReplayCmd(inv) ==
    IF \/ inv.startHeight = 0
       \/ inv.endHeight > 0 /\ inv.startHeight >= inv.endHeight
    THEN Fails
    ELSE [kind |-> "replay", cfg |-> [Parsed(inv) EXCEPT !.await = FALSE]]

main(inv) ==
    CASE inv.cmd = "tx-bank-send"             -> txBankSendCmd(inv)
      [] inv.cmd = "tx-bank-send-many"        -> txBankMultiSendCmd(inv)
      [] inv.cmd = "tx-eth-send"              -> txEthSendCmd(inv)
      [] inv.cmd = "tx-eth-call"              -> txEthCallCmd(inv)
      [] inv.cmd = "tx-eth-deploy"            -> txEthDeployCmd(inv)
      [] inv.cmd = "tx-eth-internal-call"     -> txEthInternalCallCmd(inv)
      [] inv.cmd = "tx-eth-userop"            -> txEthUserOpCmd(inv)
      [] inv.cmd = "tx-exchange-batch-orders" -> txExchangeBatchOrdersCmd(inv)
      [] inv.cmd = "tx-wasm-store-code"       -> txWasmStoreCodeCmd(inv)
      [] inv.cmd = "tx-wasm-init-contract"    -> txWasmInitContractCmd(inv)
      [] inv.cmd = "tx-wasm-exec-contract"    -> txWasmExecContractCmd(inv)
      [] inv.cmd = "tx-mixed-payload"         -> txMixedPayloadCmd(inv)
      [] inv.cmd = "tx-replay"                -> txnsReplayCmd(inv)
-----------------------------------------------------------------------------
Init == GenInit /\ started = {} /\ last = Nothing

Generate == GenNext /\ last = Nothing /\ UNCHANGED <<started, last>>

\* Stress and StressReplay begin; what they do is in Prepare and Replay.
Execute(inv) ==
    /\ last = Nothing
    /\ LET outcome == main(inv)
       IN  /\ last' = outcome
           /\ IF outcome.kind = "stress" /\ Cardinality(started) < MaxStarted
              THEN started' = started \union
                     {[instance |-> inv.instance, num |-> inv.num,
                       accounts |-> outcome.accounts, generation |-> generations]}
              ELSE UNCHANGED started
    /\ UNCHANGED genVars

Exit == last # Nothing /\ last' = Nothing /\ UNCHANGED <<genVars, started>>

Next == Generate \/ Exit \/ \E inv \in Invocations : Execute(inv)

Spec == Init /\ [][Next]_vars
-----------------------------------------------------------------------------
(* Properties                                                              *)

\* A stress run has as many accounts as it asked for, all different and of its
\* instance's file for as long as the generation it read lasts, and runs of two
\* instances share none, whichever generations they are of and whatever became
\* of those: their sequence numbers do not collide (readAccounts and the
\* instances' loop of GenerateConfigs).
InstancesIndependent ==
    \A r \in started :
        /\ Len(r.accounts) = r.num
        /\ IsInjective(r.accounts)
        /\ r.generation = generations =>
              /\ r.instance \in DOMAIN disk.accounts
              /\ Range(r.accounts) \subseteq Range(disk.accounts[r.instance])
        /\ \A s \in started :
              r.instance # s.instance => Range(r.accounts) \intersect Range(s.accounts) = {}

\* README.md:98-101, for every setting of a stress run: the flag's value, else
\* the YAML file's, else the default (applyStresserConfigFromYAML).
SettingsPrecedence ==
    last.kind = "stress" =>
        \A s \in DOMAIN Defaults :
            last.cfg[s] = IF s \in DOMAIN last.flags THEN last.flags[s]
                          ELSE IF s \in DOMAIN last.yaml THEN last.yaml[s]
                          ELSE Defaults[s]

\* What the code keeps of that order: a flag, even one at the default's value,
\* wins over the file; the file wins over the default with any value but zero
\* or "", and await with either; and a setting that neither names has its default
\* (applyStresserConfigFromYAML, and the flags cobra has parsed before it).
FlagThenFile ==
    last.kind = "stress" =>
        \A s \in DOMAIN Defaults :
            /\ s \in DOMAIN last.flags => last.cfg[s] = last.flags[s]
            /\ (s \in DOMAIN last.yaml \ DOMAIN last.flags /\ (s = "await" \/ last.yaml[s] # 0)) =>
                  last.cfg[s] = last.yaml[s]
            /\ s \notin DOMAIN last.flags \union DOMAIN last.yaml =>
                  last.cfg[s] = Defaults[s]
=============================================================================
