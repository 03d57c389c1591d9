---------------------------- MODULE MCRateLimit ----------------------------
(***************************************************************************)
(* Instances of RateLimit: one or half a transaction a second, with half a *)
(* second as the tick, bytes and gas at other rates, with the default and  *)
(* with a given burst; and a replay with either fuzzing strategy.          *)
(***************************************************************************)
EXTENDS RateLimit

NoFuzz == [enabled |-> FALSE, strategy |-> "", min |-> 0, max |-> 0, percent |-> 0]

Rates(t, b, g) == [m \in Metric |-> CASE m = "tps" -> t [] m = "bytes" -> b [] m = "gas" -> g]

Stressing(t, b, g, burst) ==
    [period |-> Rates(t, b, g), burst |-> burst, replay |-> FALSE, fuzz |-> NoFuzz]

Replaying(t, b, g, burst, strategy, percent) ==
    [period |-> Rates(t, b, g), burst |-> burst, replay |-> TRUE,
     fuzz   |-> [enabled |-> TRUE, strategy |-> strategy, min |-> 0, max |-> 20,
                 percent |-> percent]]

MCConfigs ==
    {Stressing(2, 1, 0, 0), Stressing(4, 0, 1, 1), Stressing(0, 1, 2, 2), Stressing(0, 0, 0, 1),
     Replaying(1, 0, 1, 0, "boundary", 0), Replaying(0, 0, 2, 1, "random", 50)}

MCTxs ==
    {[bytes |-> 3, gas |-> 2, decodes |-> TRUE], [bytes |-> 2, gas |-> 1, decodes |-> FALSE]}
=============================================================================
