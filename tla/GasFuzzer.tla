----------------------------- MODULE GasFuzzer -----------------------------
(***************************************************************************)
(* The gas fuzzer of tx-replay (src/replay/fuzzer.go). Multipliers are in  *)
(* tenths. A transaction is what the rate limiter and the fuzzer see of    *)
(* it: its size, its gas limit, and whether it decodes as an sdk.FeeTx.    *)
(***************************************************************************)
EXTENDS Integers

Tenths == 10

\* The defaults stand in for zero values: a percentage of 0 becomes 100.
NewGasFuzzer(config) ==
    [enabled  |-> config.enabled,
     strategy |-> IF config.strategy = "" THEN "random" ELSE config.strategy,
     min      |-> IF config.min = 0 THEN 5 ELSE config.min,
     max      |-> IF config.max = 0 THEN 50 ELSE config.max,
     percent  |-> IF config.percent = 0 THEN 100 ELSE config.percent]

Scaled(gas, multiplier) == (gas * multiplier) \div Tenths

\* Any multiplier between the two, whichever is the larger.
randomFuzzing(fuzzer, gas) ==
    LET lo == Scaled(gas, fuzzer.min)
        hi == Scaled(gas, fuzzer.max)
    IN  lo..hi \union hi..lo

boundaryFuzzing(fuzzer, gas, txCounter) ==
    {Scaled(gas, IF txCounter % 2 = 0 THEN fuzzer.min ELSE fuzzer.max)}

\* Every strategy but "boundary" is the random one.
applyFuzzingStrategy(fuzzer, gas, txCounter) ==
    IF fuzzer.strategy = "boundary" THEN boundaryFuzzing(fuzzer, gas, txCounter)
                                    ELSE randomFuzzing(fuzzer, gas)

\* Messages, fee, payer, memo and signatures are copied; the size may change
\* with the encoding of the gas limit, and extension options are dropped.
createFuzzedTransaction(tx, gas) == [tx EXCEPT !.gas = gas]

\* What FuzzTransaction can return, with the counter it leaves behind. The
\* counter also moves for a transaction that turns out not to decode.
FuzzTransaction(fuzzer, tx, txCounter) ==
    (IF ~fuzzer.enabled \/ fuzzer.percent < 100
     THEN {[tx |-> tx, counter |-> txCounter]} ELSE {})
    \union
    (IF fuzzer.enabled /\ fuzzer.percent > 0
     THEN IF tx.decodes
          THEN {[tx |-> createFuzzedTransaction(tx, gas), counter |-> txCounter + 1] :
                   gas \in applyFuzzingStrategy(fuzzer, tx.gas, txCounter + 1)}
          ELSE {[tx |-> tx, counter |-> txCounter + 1]}
     ELSE {})
=============================================================================
