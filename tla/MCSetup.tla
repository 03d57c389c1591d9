------------------------------ MODULE MCSetup ------------------------------
(* Small clusters, generated twice, and command lines of every kind.       *)
EXTENDS CommandLine

Env(validators, sentries, instances, accounts, native, prod, evm, subnet) ==
    [chainID |-> "", ethChainID |-> 0, evmEnabled |-> evm, prodLike |-> prod,
     validators |-> validators, sentries |-> sentries, instances |-> instances,
     accountsPerInstance |-> accounts, localNative |-> native, subnet |-> subnet]

\* The last fills the octet, the one before has one node too many for it.
MCEnvironments ==
    {Env(2, 1, 2, 2, FALSE, FALSE, TRUE, 0),  Env(1, 0, 1, 1, FALSE, TRUE, TRUE, 0),
     Env(3, 0, 2, 1, TRUE, TRUE, FALSE, 0),   Env(4, 0, 1, 1, TRUE, FALSE, TRUE, 0),
     Env(5, 0, 1, 1, TRUE, FALSE, TRUE, 0),   Env(1, 0, 0, 1, FALSE, FALSE, TRUE, 0),
     Env(1, 1, 1, 1, FALSE, FALSE, FALSE, BadSubnet), Env(1, 0, 1, -1, TRUE, FALSE, TRUE, 0),
     Env(2, -1, 1, 1, TRUE, FALSE, TRUE, 0),
     Env(2, 2, 1, 0, FALSE, TRUE, FALSE, 3),  Env(2, 1, 1, 1, FALSE, FALSE, TRUE, 3)}

Line(cmd, instance, num, flags) ==
    [cmd |-> cmd, instance |-> instance, num |-> num, flags |-> flags, yaml |-> << >>,
     payloads |-> << >>, targets |-> 50, iterations |-> 10, markets |-> <<DefaultMarket>>,
     startHeight |-> 0, endHeight |-> 0]

Payload(kind) == kind :> [frequency |-> 1, amount |-> 0, numTargets |-> 0, spot |-> << >>,
                          derivative |-> << >>]

\* The defaults, zero, and values of their own.
YAMLs == {<< >>, [await |-> FALSE, transactions |-> 0, rateGas |-> 5],
          [chainID |-> 2, minGasPrice |-> 2, transactions |-> 7],
          [minGasPrice |-> Bad]}

FlagSets == {<< >>, [await |-> TRUE, transactions |-> 100], [minGasPrice |-> 1]}

MCInvocations ==
    {Line("tx-bank-send", k, n, << >>) : k \in {0, 1}, n \in 0..2} \union
    {Line(cmd, 0, 1, << >>) : cmd \in Commands \ {"tx-mixed-payload", "tx-replay"}} \union
    {Line("tx-eth-userop", 0, 1, [ethChainID |-> 1]),
     Line("tx-bank-send", 0, 1, [minGasPrice |-> Bad])} \union
    {[Line("tx-mixed-payload", 0, 1, flags) EXCEPT !.yaml = yaml,
                                                   !.payloads = Payload("bank_send")] :
        flags \in FlagSets, yaml \in YAMLs} \union
    {[Line("tx-replay", 0, 1, << >>) EXCEPT !.startHeight = s, !.endHeight = e] :
        s \in {0, 2}, e \in {0, 2, 3}}
=============================================================================
