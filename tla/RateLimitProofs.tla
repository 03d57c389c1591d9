-------------------------- MODULE RateLimitProofs --------------------------
(***************************************************************************)
(* Proofs about RateLimit for every number of senders, every rate, burst   *)
(* and transaction: what the steps of the senders do to the limiters they  *)
(* share (chunks, stages, the line of those who wait), the inductive       *)
(* invariant, what a transaction pays before it is sent, and that the      *)
(* shared limiters keep the promise of Throttle.                           *)
(***************************************************************************)
EXTENDS RateLimit, TLAPS

\* What RateInv says, for the proofs that do not look into it.
LEMMA RateFacts ==
    ASSUME RateInv
    PROVE  /\ limiter \in [Metric -> [period : Nat, burst : Nat]]
           /\ now \in Nat
           /\ tokens \in [Metric -> Int]
           /\ pc \in [Senders -> {"idle", "reserve", "wait", "send", "failed", "refused"}]
           /\ stage \in [Senders -> Metric \union {"send"}]
           /\ tx \in [Senders -> Tx]
           /\ original \in Tx
           /\ remaining \in [Senders -> Nat]
           /\ claim \in [Senders -> Nat] /\ due \in [Senders -> Int] /\ upto \in [Senders -> Nat]
           /\ ctxDone \in BOOLEAN
           /\ reserved \in [Metric -> Nat] /\ released \in [Metric -> Nat]
           /\ mark \in [Metric -> Seq(Nat)]
           /\ config \in Configs /\ limiter = buildBroadcastClient(config)
           /\ DebtInv /\ QueueInv
           /\ \A s \in Senders : pc[s] \in {"reserve", "wait"} => stage[s] \in Limited
           /\ \A s \in Senders : pc[s] = "reserve" => remaining[s] > 0
           /\ \A m \in Metric : tokens[m] <= Capacity(m) /\ released[m] <= reserved[m]
  BY Zenon DEF RateInv, TypeOK

-----------------------------------------------------------------------------
(* Burst sizes and chunks                                                  *)

LEMMA BurstPositive ==
    ASSUME NEW c \in Config, NEW m \in Metric, c.period[m] > 0
    PROVE  BurstSize(c, m) \in Nat /\ BurstSize(c, m) > 0
  <1>1. c.period[m] \in Nat /\ c.burst \in Int
    BY ZenonT(30) DEF Config
  <1>2. Ticks \in Nat /\ MaxInt \in Nat /\ MaxInt > 0
    BY RateLimitAssumption
  <1>3. PerSecond(c, m) \in Int
    BY <1>1, <1>2 DEF PerSecond
  <1>4. \A n \in Int : AtLeastOne(n) \in Nat /\ AtLeastOne(n) > 0
    BY DEF AtLeastOne
  <1>5. \A n \in Nat : n > 0 => Saturated(n) \in Nat /\ Saturated(n) > 0
    BY <1>2, Zenon DEF Saturated
  <1>6. c.burst > 0 => c.burst \in Nat
    BY <1>1
  <1>7. CASE m = "tps"
    BY <1>1, <1>3, <1>4, <1>6, <1>7, Zenon DEF BurstSize, GetTpsBurstSize
  <1>8. CASE m = "bytes"
    BY <1>1, <1>3, <1>4, <1>5, <1>6, <1>8, Zenon DEF BurstSize, GetBytesBurstSize
  <1>9. CASE m = "gas"
    BY <1>1, <1>3, <1>4, <1>5, <1>6, <1>9, Zenon DEF BurstSize, GetGasBurstSize
  <1> QED
    BY <1>7, <1>8, <1>9, Zenon DEF Metric

LEMMA LimiterOf ==
    ASSUME NEW c \in Config, NEW m \in Metric
    PROVE  buildBroadcastClient(c)[m] =
              IF c.period[m] > 0 THEN [period |-> c.period[m], burst |-> BurstSize(c, m)]
                                 ELSE [period |-> 0, burst |-> 0]
  <1>1. CASE IsEnabled(c)
    BY <1>1, Zenon DEF buildBroadcastClient, NewMultiLimiter, NewLimiter, Unlimited
  <1>2. CASE ~IsEnabled(c)
    <2>1. ~(c.period[m] > 0)
      BY <1>2, Zenon DEF IsEnabled
    <2> QED
      BY <1>2, <2>1, Zenon DEF buildBroadcastClient, Unlimited
  <1> QED
    BY <1>1, <1>2, Zenon

LEMMA LimiterType ==
    ASSUME NEW c \in Config
    PROVE  buildBroadcastClient(c) \in [Metric -> [period : Nat, burst : Nat]]
  <1>1. \A m \in Metric : buildBroadcastClient(c)[m] \in [period : Nat, burst : Nat]
    <2> SUFFICES ASSUME NEW m \in Metric
                 PROVE  buildBroadcastClient(c)[m] \in [period : Nat, burst : Nat]
      BY Zenon
    <2>1. c.period[m] \in Nat
      BY ZenonT(30) DEF Config
    <2>2. CASE c.period[m] > 0
      <3>1. buildBroadcastClient(c)[m] = [period |-> c.period[m], burst |-> BurstSize(c, m)]
        BY <2>2, LimiterOf, Zenon
      <3>2. BurstSize(c, m) \in Nat
        BY <2>2, BurstPositive, Zenon
      <3> QED
        BY ONLY <2>1, <3>1, <3>2, SMT
    <2>3. CASE ~(c.period[m] > 0)
      <3>1. buildBroadcastClient(c)[m] = [period |-> 0, burst |-> 0]
        BY <2>3, LimiterOf, Zenon
      <3> QED
        BY ONLY <3>1, SMT
    <2> QED
      BY <2>2, <2>3, Zenon
  <1>2. \E f : buildBroadcastClient(c) = [m \in Metric |-> f[m]]
    <2>1. CASE IsEnabled(c)
      <3>1. buildBroadcastClient(c) = [m \in Metric |-> NewMultiLimiter(c)[m]]
        BY <2>1, Zenon DEF buildBroadcastClient, NewMultiLimiter
      <3> QED
        BY <3>1, Zenon
    <2>2. CASE ~IsEnabled(c)
      <3>1. buildBroadcastClient(c) = [m \in Metric |-> [k \in Metric |-> Unlimited][m]]
        BY <2>2, Zenon DEF buildBroadcastClient
      <3> QED
        BY <3>1, Zenon
    <2> QED
      BY <2>1, <2>2, Zenon
  <1> QED
    BY <1>1, <1>2, Zenon

LEMMA CapacityNat ==
    ASSUME limiter \in [Metric -> [period : Nat, burst : Nat]], NEW m \in Metric
    PROVE  Capacity(m) \in Nat
  <1> DEFINE p == limiter[m].period
             b == limiter[m].burst
  <1>1. p \in Nat /\ b \in Nat
    BY Zenon
  <1>2. b * p \in Nat
    BY <1>1
  <1> QED
    BY <1>2, Zenon DEF Capacity

LEMMA Products ==
    ASSUME NEW n \in Nat, NEW p \in Nat, NEW b \in Nat, n > 0, p > 0, n <= b
    PROVE  n * p \in Nat /\ n * p > 0 /\ n * p <= b * p
  <1>1. PICK d \in Nat : b = n + d
    <2>1. b - n \in Nat /\ b = n + (b - n)
      OBVIOUS
    <2> QED
      BY <2>1, Zenon
  <1>2. PICK e \in Nat : n = 1 + e
    <2>1. n - 1 \in Nat /\ n = 1 + (n - 1)
      OBVIOUS
    <2> QED
      BY <2>1, Zenon
  <1>3. b * p = n * p + d * p /\ n * p = p + e * p
    BY <1>1, <1>2
  <1>4. d * p \in Nat /\ e * p \in Nat /\ n * p \in Nat /\ b * p \in Nat
    BY <1>1, <1>2
  <1> QED
    BY ONLY <1>3, <1>4, p \in Nat, p > 0, SMT

\* A chunk is positive, at most what remains, and costs at most a full bucket.
LEMMA ChunkCost ==
    ASSUME RateInv, NEW s \in Senders, pc[s] = "reserve"
    PROVE  /\ stage[s] \in Metric
           /\ Chunk(s) \in Nat /\ Chunk(s) > 0 /\ Chunk(s) <= remaining[s]
           /\ Chunk(s) <= limiter[stage[s]].burst
           /\ Chunk(s) * limiter[stage[s]].period \in Nat
           /\ Chunk(s) * limiter[stage[s]].period > 0
           /\ Chunk(s) * limiter[stage[s]].period <= Capacity(stage[s])
  <1> DEFINE m == stage[s]
             p == limiter[m].period
             b == limiter[m].burst
  <1>1. m \in Metric /\ p > 0 /\ p \in Nat /\ b \in Nat
    BY RateFacts, Zenon DEF Limited
  <1>2. config \in Config
    BY RateLimitAssumption, RateFacts, Zenon
  <1>3. limiter[m] = buildBroadcastClient(config)[m]
    BY RateFacts, Zenon
  <1>4. config.period[m] > 0
    <2>1. config.period[m] \in Nat
      BY <1>1, <1>2, ZenonT(30) DEF Config
    <2>2. ASSUME ~(config.period[m] > 0) PROVE FALSE
      <3>1. limiter[m] = [period |-> 0, burst |-> 0]
        BY <1>1, <1>2, <1>3, <2>2, LimiterOf, ZenonT(30)
      <3> QED
        BY <1>1, <3>1
    <2> QED
      BY <2>2, Zenon
  <1>5. b = BurstSize(config, m) /\ b > 0
    <2>1. buildBroadcastClient(config)[m] =
             [period |-> config.period[m], burst |-> BurstSize(config, m)]
      BY <1>1, <1>2, <1>4, LimiterOf, Zenon
    <2>2. BurstSize(config, m) > 0
      BY <1>1, <1>2, <1>4, BurstPositive, Zenon
    <2>3. b = BurstSize(config, m)
      BY ONLY <1>3, <2>1, SMT
    <2> QED
      BY ONLY <2>2, <2>3, SMT
  <1>6. remaining[s] \in Nat /\ remaining[s] > 0
    BY RateFacts, Zenon
  <1> HIDE DEF m, p, b
  <1>7. /\ Chunk(s) \in Nat /\ Chunk(s) > 0 /\ Chunk(s) <= remaining[s] /\ Chunk(s) <= b
    <2>1. CASE m = "tps"
      BY <1>1, <1>5, <1>6, <2>1 DEF Chunk, m
    <2>2. CASE m # "tps"
      <3>1. Chunk(s) = IF remaining[s] < b THEN remaining[s] ELSE b
        BY <1>5, <2>2, Zenon DEF Chunk, m
      <3> QED
        BY ONLY <1>1, <1>5, <1>6, <3>1
    <2> QED
      BY <2>1, <2>2, Zenon
  <1>8. Chunk(s) * p \in Nat /\ Chunk(s) * p > 0 /\ Chunk(s) * p <= b * p
    BY ONLY <1>1, <1>7, Products, Zenon
  <1> QED
    BY <1>1, <1>7, <1>8, Zenon DEF Capacity, m, p, b
-----------------------------------------------------------------------------
(* Where a transaction goes next                                           *)

LEMMA Least ==
    ASSUME NEW S \in SUBSET {1, 2, 3}, NEW x \in S, \A l \in S : x <= l
    PROVE  (CHOOSE k \in S : \A l \in S : k <= l) = x
  <1> DEFINE c == CHOOSE k \in S : \A l \in S : k <= l
  <1>1. c \in S /\ \A l \in S : c <= l
    BY Zenon
  <1> HIDE DEF c
  <1>2. c = x
    BY <1>1
  <1> QED
    BY <1>2, Zenon DEF c

\* The limiters in their order, those without anything to ask for passed over.
LEMMA NextStages ==
    ASSUME NEW t \in Tx
    PROVE  LET Open(m) == m \in Limited /\ Demand(t, m) > 0
               gas     == IF Open("gas") THEN "gas" ELSE "send"
               bytes   == IF Open("bytes") THEN "bytes" ELSE gas
           IN  /\ NextStage("gas", t) = "send"
               /\ NextStage("bytes", t) = gas
               /\ NextStage("tps", t) = bytes
               /\ NextStage("begin", t) = IF Open("tps") THEN "tps" ELSE bytes
  <1> DEFINE Open(m) == m \in Limited /\ Demand(t, m) > 0
             open(A) == {k \in DOMAIN A : Open(A[k])}
             first(A) == IF open(A) = {} THEN "send"
                         ELSE A[CHOOSE k \in open(A) : \A l \in open(A) : k <= l]
  <1>1. /\ NextStage("gas", t) = first(<< >>)
        /\ NextStage("bytes", t) = first(<<"gas">>)
        /\ NextStage("tps", t) = first(<<"bytes", "gas">>)
        /\ NextStage("begin", t) = first(<<"tps", "bytes", "gas">>)
    BY DEF NextStage, After
  <1> HIDE DEF Open
  <1>2. first(<< >>) = "send"
    OBVIOUS
  <1>3. first(<<"gas">>) = IF Open("gas") THEN "gas" ELSE "send"
    <2> DEFINE A == <<"gas">>
    <2>1. open(A) = IF Open("gas") THEN {1} ELSE {}
      OBVIOUS
    <2> QED
      BY <2>1, Least
  <1>4. first(<<"bytes", "gas">>) = IF Open("bytes") THEN "bytes"
                                    ELSE IF Open("gas") THEN "gas" ELSE "send"
    <2> DEFINE A == <<"bytes", "gas">>
    <2>1. open(A) = (IF Open("bytes") THEN {1} ELSE {}) \union (IF Open("gas") THEN {2} ELSE {})
      OBVIOUS
    <2> QED
      BY <2>1, Least
  <1>5. first(<<"tps", "bytes", "gas">>) =
            IF Open("tps") THEN "tps" ELSE IF Open("bytes") THEN "bytes"
            ELSE IF Open("gas") THEN "gas" ELSE "send"
    <2> DEFINE A == <<"tps", "bytes", "gas">>
    <2>1. open(A) = (IF Open("tps") THEN {1} ELSE {}) \union
                    (IF Open("bytes") THEN {2} ELSE {}) \union (IF Open("gas") THEN {3} ELSE {})
      OBVIOUS
    <2> QED
      BY <2>1, Least
  <1> HIDE DEF first
  <1>6. /\ NextStage("gas", t) = "send"
        /\ NextStage("bytes", t) = IF Open("gas") THEN "gas" ELSE "send"
        /\ NextStage("tps", t) = IF Open("bytes") THEN "bytes"
                                 ELSE IF Open("gas") THEN "gas" ELSE "send"
        /\ NextStage("begin", t) = IF Open("tps") THEN "tps" ELSE IF Open("bytes") THEN "bytes"
                                   ELSE IF Open("gas") THEN "gas" ELSE "send"
    BY <1>1, <1>2, <1>3, <1>4, <1>5, Zenon
  <1> QED
    BY <1>6, Zenon DEF Open

LEMMA NextStageType ==
    ASSUME RateInv, NEW m \in Metric \union {"begin"}, NEW t \in Tx
    PROVE  /\ NextStage(m, t) \in Limited \union {"send"}
           /\ NextStage(m, t) # "send" => Demand(t, NextStage(m, t)) > 0
  <1>1. m \in {"begin", "tps", "bytes", "gas"}
    BY Zenon DEF Metric
  <1> QED
    BY <1>1, NextStages, Zenon

LEMMA DemandType ==
    ASSUME NEW t \in Tx, NEW m \in Metric PROVE Demand(t, m) \in Nat
  BY Zenon DEF Tx, Metric, Demand, ExtractGasLimit

\* What a step does to the one sender that takes it.
Moves(s) ==
    /\ pc' \in [Senders -> {"idle", "reserve", "wait", "send", "failed", "refused"}]
    /\ stage' \in [Senders -> Metric \union {"send"}]
    /\ remaining' \in [Senders -> Nat]
    /\ \A u \in Senders : u # s =>
          pc'[u] = pc[u] /\ stage'[u] = stage[u] /\ remaining'[u] = remaining[u]
    /\ pc'[s] \in {"reserve", "wait"} => stage'[s] \in Limited
    /\ pc'[s] = "reserve" => remaining'[s] > 0

LEMMA EnterMoves ==
    ASSUME RateInv, NEW s \in Senders, NEW m \in Metric \union {"begin"}, NEW t \in Tx,
           Enter(s, NextStage(m, t), t)
    PROVE  Moves(s) /\ pc'[s] \in {"send", "reserve"}
  <1> DEFINE n == NextStage(m, t)
  <1>1. n \in Limited \union {"send"} /\ (n # "send" => Demand(t, n) > 0)
    BY NextStageType, Zenon
  <1>2. Limited \subseteq Metric
    BY Zenon DEF Limited
  <1>3. n # "send" => Demand(t, n) \in Nat
    BY <1>1, <1>2, DemandType, Zenon
  <1>4. /\ pc \in [Senders -> {"idle", "reserve", "wait", "send", "failed", "refused"}]
        /\ stage \in [Senders -> Metric \union {"send"}]
        /\ remaining \in [Senders -> Nat]
    BY RateFacts, Zenon
  <1>5. Enter(s, n, t)
    BY Zenon
  <1> HIDE DEF n
  <1>6. CASE n = "send"
    BY <1>4, <1>5, <1>6 DEF Enter, Moves
  <1>7. CASE n # "send"
    BY <1>1, <1>2, <1>3, <1>4, <1>5, <1>7 DEF Enter, Moves
  <1> QED
    BY <1>6, <1>7, Zenon

LEMMA GoOnMoves ==
    ASSUME RateInv, NEW s \in Senders, pc[s] \in {"reserve", "wait"}, NEW left \in Nat,
           GoOn(s, left)
    PROVE  Moves(s) /\ pc'[s] \in {"send", "reserve"}
  <1>1. stage[s] \in Limited /\ stage[s] \in Metric /\ tx[s] \in Tx
    BY RateFacts, Zenon DEF Limited
  <1>2. CASE left > 0
    <2>1. /\ pc \in [Senders -> {"idle", "reserve", "wait", "send", "failed", "refused"}]
          /\ stage \in [Senders -> Metric \union {"send"}]
          /\ remaining \in [Senders -> Nat]
      BY RateFacts, Zenon
    <2> QED
      BY <1>1, <1>2, <2>1, Zenon DEF GoOn, Moves
  <1>3. CASE ~(left > 0)
    BY <1>1, <1>3, EnterMoves, Zenon DEF GoOn
  <1> QED
    BY <1>2, <1>3, Zenon
-----------------------------------------------------------------------------
(* Buckets and those who wait at them                                      *)

Buckets ==
    /\ DebtInv
    /\ QueueInv
    /\ \A m \in Metric : tokens[m] <= Capacity(m) /\ released[m] <= reserved[m]

LEMMA BucketTypes ==
    ASSUME RateInv, NEW m \in Metric
    PROVE  /\ tokens[m] \in Int /\ reserved[m] \in Nat /\ released[m] \in Nat
           /\ Capacity(m) \in Nat /\ now \in Nat
           /\ tokens[m] <= Capacity(m) /\ released[m] <= reserved[m]
  BY CapacityNat, RateFacts, Zenon

LEMMA Waiter ==
    ASSUME RateInv, NEW s \in Senders, NEW m \in Metric, WaitsAt(s, m)
    PROVE  /\ claim[s] \in Nat /\ due[s] \in Int /\ upto[s] \in Nat
           /\ claim[s] > 0 /\ claim[s] <= Capacity(m) /\ upto[s] <= reserved[m]
           /\ now <= due[s] /\ now - due[s] = tokens[m] + (reserved[m] - upto[s])
  <1>1. claim[s] \in Nat /\ due[s] \in Int /\ upto[s] \in Nat
    BY RateFacts, Zenon
  <1>2. DebtInv
    BY RateFacts, Zenon
  <1> QED
    BY <1>1, <1>2, Zenon DEF DebtInv

\* A limiter with tokens to give has nobody waiting at it.
LEMMA NobodyWaits ==
    ASSUME RateInv, ~ctxDone, NEW m \in Metric, tokens[m] > 0
    PROVE  reserved[m] = released[m] /\ \A s \in Senders : ~WaitsAt(s, m)
  <1>1. ASSUME NEW s \in Senders, WaitsAt(s, m) PROVE FALSE
    <2>1. reserved[m] \in Nat /\ tokens[m] \in Int /\ now \in Nat
      BY BucketTypes, Zenon
    <2>2. /\ due[s] \in Int /\ upto[s] \in Nat /\ upto[s] <= reserved[m]
          /\ now <= due[s] /\ now - due[s] = tokens[m] + (reserved[m] - upto[s])
      BY <1>1, Waiter, Zenon
    <2> QED
      BY ONLY <2>1, <2>2, tokens[m] > 0, SMT
  <1>2. reserved[m] > released[m] => \E s \in Senders : WaitsAt(s, m)
    BY RateFacts, Zenon DEF QueueInv
  <1>3. ~(reserved[m] > released[m])
    BY <1>1, <1>2, Zenon
  <1>4. reserved[m] \in Nat /\ released[m] \in Nat /\ released[m] <= reserved[m]
    BY BucketTypes, Zenon
  <1> QED
    BY <1>1, <1>3, <1>4

\* A wait that is due is the oldest at its limiter, and what it waited for is
\* all the bucket has come to hold.
LEMMA Oldest ==
    ASSUME RateInv, ~ctxDone, NEW s \in Senders, NEW m \in Metric, WaitsAt(s, m),
           now >= due[s]
    PROVE  /\ released[m] = upto[s] - claim[s]
           /\ tokens[m] + (reserved[m] - released[m]) = claim[s]
  <1>1. /\ tokens[m] \in Int /\ reserved[m] \in Nat /\ released[m] \in Nat /\ now \in Nat
        /\ released[m] <= reserved[m]
    BY BucketTypes, Zenon
  <1>2. /\ claim[s] \in Nat /\ due[s] \in Int /\ upto[s] \in Nat
        /\ claim[s] > 0 /\ upto[s] <= reserved[m]
        /\ now <= due[s] /\ now - due[s] = tokens[m] + (reserved[m] - upto[s])
    BY Waiter, Zenon
  <1>3. released[m] <= upto[s] - claim[s]
    BY RateFacts, Zenon DEF QueueInv
  <1>4. tokens[m] + (reserved[m] - upto[s]) = 0
    BY ONLY <1>1, <1>2, now >= due[s], SMT
  <1>5. ASSUME released[m] < upto[s] - claim[s] PROVE FALSE
    <2>1. reserved[m] > released[m]
      BY ONLY <1>1, <1>2, <1>5, SMT
    <2>2. PICK v \in Senders : WaitsAt(v, m) /\ upto[v] - claim[v] = released[m]
      BY <2>1, RateFacts, Zenon DEF QueueInv
    <2>3. /\ claim[v] \in Nat /\ due[v] \in Int /\ upto[v] \in Nat /\ claim[v] > 0
          /\ now <= due[v] /\ now - due[v] = tokens[m] + (reserved[m] - upto[v])
      BY <2>2, Waiter, Zenon
    <2>4. v # s
      BY ONLY <1>2, <1>5, <2>2, SMT
    <2>5. upto[s] <= upto[v] - claim[v] \/ upto[v] <= upto[s] - claim[s]
      BY <2>2, <2>4, RateFacts, Zenon DEF QueueInv
    <2>6. upto[v] <= upto[s] - claim[s]
      BY ONLY <1>1, <1>2, <1>5, <2>2, <2>3, <2>5, SMT
    <2> QED
      BY ONLY <1>1, <1>2, <1>4, <2>3, <2>6, SMT
  <1> QED
    BY ONLY <1>1, <1>2, <1>3, <1>4, <1>5, SMT

\* DebtInv and QueueInv, at one limiter.
DebtAt(m) ==
    \A s \in Senders : WaitsAt(s, m) =>
        /\ claim[s] > 0
        /\ claim[s] <= Capacity(m)
        /\ upto[s] <= reserved[m]
        /\ now <= due[s]
        /\ now - due[s] = tokens[m] + (reserved[m] - upto[s])

QueueAt(m) ==
    /\ reserved[m] > released[m] =>
          \E s \in Senders : WaitsAt(s, m) /\ upto[s] - claim[s] = released[m]
    /\ \A s \in Senders : WaitsAt(s, m) =>
          /\ released[m] <= upto[s] - claim[s]
          /\ upto[s] < reserved[m] =>
                \E t \in Senders : WaitsAt(t, m) /\ upto[t] - claim[t] = upto[s]
          /\ \A t \in Senders : WaitsAt(t, m) /\ t # s =>
                upto[s] <= upto[t] - claim[t] \/ upto[t] <= upto[s] - claim[s]

WithinAt(m) == tokens[m] <= Capacity(m) /\ released[m] <= reserved[m]

LEMMA AtEach ==
    ASSUME RateInv, ~ctxDone, NEW m \in Metric PROVE DebtAt(m) /\ QueueAt(m) /\ WithinAt(m)
  BY RateFacts, Zenon DEF DebtInv, QueueInv, DebtAt, QueueAt, WithinAt

LEMMA LineKept ==
    ASSUME NEW k \in Metric, reserved'[k] = reserved[k], released'[k] = released[k],
           \A u \in Senders : WaitsAt(u, k)' <=> WaitsAt(u, k),
           \A u \in Senders : WaitsAt(u, k) => claim'[u] = claim[u] /\ upto'[u] = upto[u],
           QueueAt(k)
    PROVE  QueueAt(k)'
  BY ZenonT(60) DEF QueueAt

\* Steps that leave the limiters alone, and end no wait unless the context has
\* ended.
LEMMA QuietBuckets ==
    ASSUME RateInv, limiter' = limiter, now' = now, tokens' = tokens,
           reserved' = reserved, released' = released,
           claim' = claim, due' = due, upto' = upto,
           ctxDone => ctxDone',
           \A s \in Senders : \A m \in Metric : WaitsAt(s, m)' => WaitsAt(s, m),
           ctxDone' \/ \A s \in Senders : \A m \in Metric : WaitsAt(s, m) => WaitsAt(s, m)'
    PROVE  Buckets'
  <1>1. \A m : Capacity(m)' = Capacity(m)
    BY Zenon DEF Capacity
  <1>2. DebtInv'
    <2>1. DebtInv
      BY RateFacts, Zenon
    <2> HIDE DEF WaitsAt
    <2> QED
      BY ONLY <1>1, <2>1, now' = now, tokens' = tokens, reserved' = reserved, claim' = claim,
              due' = due, upto' = upto,
              \A s \in Senders : \A m \in Metric : WaitsAt(s, m)' => WaitsAt(s, m), Zenon
         DEF DebtInv
  <1>3. QueueInv'
    <2>1. CASE ctxDone'
      BY <2>1, Zenon DEF QueueInv
    <2>2. CASE ~ctxDone'
      <3>1. ~ctxDone /\ QueueInv
        BY <2>2, RateFacts, Zenon
      <3>2. \A s \in Senders : \A m \in Metric : WaitsAt(s, m)' <=> WaitsAt(s, m)
        BY <2>2, Zenon
      <3>3. ASSUME NEW m \in Metric PROVE QueueAt(m)'
        <4>1. QueueAt(m)
          BY <3>1, AtEach, Zenon
        <4> QED
          BY <3>2, <4>1, LineKept, Zenon
      <3> QED
        BY <3>3, Zenon DEF QueueInv, QueueAt
    <2> QED
      BY <2>1, <2>2, Zenon
  <1>4. \A m \in Metric : tokens'[m] <= Capacity(m)' /\ released'[m] <= reserved'[m]
    BY <1>1, RateFacts, Zenon
  <1> QED
    BY <1>2, <1>3, <1>4, Zenon DEF Buckets

LEMMA FromEach ==
    ASSUME \A m \in Metric : DebtAt(m)' /\ QueueAt(m)' /\ WithinAt(m)' PROVE Buckets'
  BY Zenon DEF Buckets, DebtInv, QueueInv, DebtAt, QueueAt, WithinAt

LEMMA Elsewhere ==
    ASSUME NEW k \in Metric, limiter' = limiter, now' = now, tokens'[k] = tokens[k],
           reserved'[k] = reserved[k], released'[k] = released[k],
           \A u \in Senders : WaitsAt(u, k)' <=> WaitsAt(u, k),
           \A u \in Senders : WaitsAt(u, k) =>
               claim'[u] = claim[u] /\ due'[u] = due[u] /\ upto'[u] = upto[u],
           DebtAt(k), QueueAt(k), WithinAt(k)
    PROVE  DebtAt(k)' /\ QueueAt(k)' /\ WithinAt(k)'
  <1>1. Capacity(k)' = Capacity(k)
    BY Zenon DEF Capacity
  <1>2. DebtAt(k)'
    BY <1>1, ZenonT(30) DEF DebtAt
  <1>3. QueueAt(k)'
    BY LineKept, Zenon
  <1>4. WithinAt(k)'
    BY <1>1, Zenon DEF WithinAt
  <1> QED
    BY <1>2, <1>3, <1>4, Zenon

\* Tokens that are there are taken.
LEMMA TakenBuckets ==
    ASSUME RateInv, ~ctxDone, NEW m \in Metric, NEW cost \in Nat, cost > 0, tokens[m] >= cost,
           tokens' = [tokens EXCEPT ![m] = @ - cost],
           reserved' = [reserved EXCEPT ![m] = @ + cost],
           released' = [released EXCEPT ![m] = @ + cost],
           limiter' = limiter, now' = now, claim' = claim, due' = due, upto' = upto,
           \A u \in Senders : \A k \in Metric : WaitsAt(u, k)' <=> WaitsAt(u, k)
    PROVE  Buckets'
  <1>1. /\ tokens[m] \in Int /\ reserved[m] \in Nat /\ released[m] \in Nat
        /\ Capacity(m) \in Nat /\ tokens[m] <= Capacity(m)
    BY BucketTypes, Zenon
  <1>2. tokens[m] > 0
    BY ONLY <1>1, cost \in Nat, cost > 0, tokens[m] >= cost, SMT
  <1>3. reserved[m] = released[m] /\ \A u \in Senders : ~WaitsAt(u, m)
    BY <1>2, NobodyWaits, Zenon
  <1>4. /\ tokens'[m] = tokens[m] - cost /\ reserved'[m] = reserved[m] + cost
        /\ released'[m] = released[m] + cost
    BY RateFacts, Zenon
  <1>5. \A u \in Senders : ~WaitsAt(u, m)'
    BY <1>3, Zenon
  <1>6. Capacity(m)' = Capacity(m)
    BY Zenon DEF Capacity
  <1>7. ~(reserved'[m] > released'[m]) /\ WithinAt(m)'
    BY ONLY <1>1, <1>3, <1>4, <1>6, cost \in Nat, SMT DEF WithinAt
  <1>8. DebtAt(m)' /\ QueueAt(m)'
    BY <1>5, <1>7, Zenon DEF DebtAt, QueueAt
  <1>9. ASSUME NEW k \in Metric, k # m PROVE DebtAt(k)' /\ QueueAt(k)' /\ WithinAt(k)'
    <2>1. tokens'[k] = tokens[k] /\ reserved'[k] = reserved[k] /\ released'[k] = released[k]
      BY <1>9, RateFacts, Zenon
    <2>2. DebtAt(k) /\ QueueAt(k) /\ WithinAt(k)
      BY AtEach, Zenon
    <2> QED
      BY <2>1, <2>2, Elsewhere, Zenon
  <1> QED
    BY <1>7, <1>8, <1>9, FromEach, Zenon

\* Tokens that are not there yet are reserved, behind all the others.
LEMMA ReservedBuckets ==
    ASSUME RateInv, ~ctxDone, NEW m \in Metric, NEW s \in Senders, pc[s] = "reserve",
           NEW cost \in Nat, cost > 0, cost <= Capacity(m), ~(tokens[m] >= cost),
           tokens' = [tokens EXCEPT ![m] = @ - cost],
           reserved' = [reserved EXCEPT ![m] = @ + cost],
           released' = released, limiter' = limiter, now' = now,
           claim' = [claim EXCEPT ![s] = cost],
           due' = [due EXCEPT ![s] = now + cost - tokens[m]],
           upto' = [upto EXCEPT ![s] = reserved[m] + cost],
           \A k \in Metric : WaitsAt(s, k)' <=> k = m,
           \A u \in Senders : u # s => \A k \in Metric : WaitsAt(u, k)' <=> WaitsAt(u, k)
    PROVE  Buckets'
  <1>1. /\ tokens[m] \in Int /\ reserved[m] \in Nat /\ released[m] \in Nat /\ now \in Nat
        /\ Capacity(m) \in Nat /\ tokens[m] <= Capacity(m) /\ released[m] <= reserved[m]
    BY BucketTypes, Zenon
  <1>2. \A k \in Metric : ~WaitsAt(s, k)
    BY Zenon DEF WaitsAt
  <1>3. tokens'[m] = tokens[m] - cost /\ reserved'[m] = reserved[m] + cost
    BY RateFacts, Zenon
  <1>4. /\ claim'[s] = cost /\ due'[s] = now + cost - tokens[m]
        /\ upto'[s] = reserved[m] + cost
    BY RateFacts, Zenon
  <1>5. \A u \in Senders : u # s =>
            claim'[u] = claim[u] /\ due'[u] = due[u] /\ upto'[u] = upto[u]
    BY RateFacts, Zenon
  <1>6. Capacity(m)' = Capacity(m)
    BY Zenon DEF Capacity
  <1>7. WithinAt(m)'
    BY ONLY <1>1, <1>3, <1>6, released' = released, cost \in Nat, SMT DEF WithinAt
  <1>8. DebtAt(m)'
    <2> SUFFICES ASSUME NEW u \in Senders, WaitsAt(u, m)'
                 PROVE  /\ claim'[u] > 0 /\ claim'[u] <= Capacity(m)'
                        /\ upto'[u] <= reserved'[m] /\ now' <= due'[u]
                        /\ now' - due'[u] = tokens'[m] + (reserved'[m] - upto'[u])
      BY Zenon DEF DebtAt
    <2>1. CASE u = s
      BY ONLY <1>1, <1>3, <1>4, <1>6, <2>1, now' = now, cost \in Nat, cost > 0,
              cost <= Capacity(m), ~(tokens[m] >= cost), SMT
    <2>2. CASE u # s
      <3>1. WaitsAt(u, m)
        BY <2>2, Zenon
      <3>2. /\ claim[u] \in Nat /\ due[u] \in Int /\ upto[u] \in Nat
            /\ claim[u] > 0 /\ claim[u] <= Capacity(m) /\ upto[u] <= reserved[m]
            /\ now <= due[u] /\ now - due[u] = tokens[m] + (reserved[m] - upto[u])
        BY <3>1, Waiter, Zenon
      <3>3. claim'[u] = claim[u] /\ due'[u] = due[u] /\ upto'[u] = upto[u]
        BY <1>5, <2>2, Zenon
      <3> QED
        BY ONLY <1>1, <1>3, <1>6, <3>2, <3>3, now' = now, cost \in Nat, SMT
    <2> QED
      BY <2>1, <2>2, Zenon
  <1>9. QueueAt(m)'
    <2>1. QueueAt(m)
      BY AtEach, Zenon
    <2>2. WaitsAt(s, m)' /\ upto'[s] - claim'[s] = reserved[m]
      BY <1>1, <1>4
    <2>3. ASSUME NEW u \in Senders, WaitsAt(u, m)', u # s
          PROVE  /\ WaitsAt(u, m) /\ upto'[u] = upto[u] /\ claim'[u] = claim[u]
                 /\ upto[u] \in Nat /\ claim[u] \in Nat /\ claim[u] > 0
                 /\ upto[u] <= reserved[m]
      BY <1>5, <2>3, Waiter, Zenon
    <2>4. \E u \in Senders : WaitsAt(u, m)' /\ upto'[u] - claim'[u] = released'[m]
      <3>1. CASE reserved[m] = released[m]
        BY <2>2, <3>1, Zenon
      <3>2. CASE reserved[m] # released[m]
        <4>1. reserved[m] > released[m]
          BY ONLY <1>1, <3>2, SMT
        <4>2. PICK u \in Senders : WaitsAt(u, m) /\ upto[u] - claim[u] = released[m]
          BY <2>1, <4>1, Zenon DEF QueueAt
        <4>3. u # s
          BY <1>2, <4>2, Zenon
        <4> QED
          BY <1>5, <4>2, <4>3, Zenon
      <3> QED
        BY <3>1, <3>2, Zenon
    <2>5. ASSUME NEW u \in Senders, WaitsAt(u, m)'
          PROVE  /\ released'[m] <= upto'[u] - claim'[u]
                 /\ upto'[u] < reserved'[m] =>
                       \E t \in Senders : WaitsAt(t, m)' /\ upto'[t] - claim'[t] = upto'[u]
                 /\ \A t \in Senders : WaitsAt(t, m)' /\ t # u =>
                       upto'[u] <= upto'[t] - claim'[t] \/ upto'[t] <= upto'[u] - claim'[u]
      <3>1. CASE u = s
        <4>1. released'[m] <= upto'[u] - claim'[u] /\ ~(upto'[u] < reserved'[m])
          BY ONLY <1>1, <1>3, <1>4, <2>2, <3>1, released' = released, cost \in Nat, SMT
        <4>2. ASSUME NEW t \in Senders, WaitsAt(t, m)', t # u
              PROVE  upto'[t] <= upto'[u] - claim'[u]
          <5>1. upto'[t] = upto[t] /\ upto[t] <= reserved[m]
            BY <2>3, <3>1, <4>2, Zenon
          <5> QED
            BY <2>2, <3>1, <5>1, Zenon
        <4> QED
          BY <4>1, <4>2, Zenon
      <3>2. CASE u # s
        <4>1. /\ WaitsAt(u, m) /\ upto'[u] = upto[u] /\ claim'[u] = claim[u]
              /\ upto[u] \in Nat /\ upto[u] <= reserved[m]
          BY <2>3, <2>5, <3>2, Zenon
        <4>2. released'[m] <= upto'[u] - claim'[u]
          BY <2>1, <4>1, Zenon DEF QueueAt
        <4>3. \E t \in Senders : WaitsAt(t, m)' /\ upto'[t] - claim'[t] = upto'[u]
          <5>1. CASE upto[u] = reserved[m]
            BY <2>2, <4>1, <5>1, Zenon
          <5>2. CASE upto[u] # reserved[m]
            <6>1. upto[u] < reserved[m]
              BY ONLY <1>1, <4>1, <5>2, SMT
            <6>2. PICK t \in Senders : WaitsAt(t, m) /\ upto[t] - claim[t] = upto[u]
              BY <2>1, <4>1, <6>1, Zenon DEF QueueAt
            <6>3. t # s
              BY <1>2, <6>2, Zenon
            <6> QED
              BY <1>5, <4>1, <6>2, <6>3, Zenon
          <5> QED
            BY <5>1, <5>2, Zenon
        <4>4. ASSUME NEW t \in Senders, WaitsAt(t, m)', t # u
              PROVE  upto'[u] <= upto'[t] - claim'[t] \/ upto'[t] <= upto'[u] - claim'[u]
          <5>1. CASE t = s
            BY <2>2, <4>1, <5>1, Zenon
          <5>2. CASE t # s
            <6>1. WaitsAt(t, m) /\ upto'[t] = upto[t] /\ claim'[t] = claim[t]
              BY <2>3, <4>4, <5>2, Zenon
            <6> QED
              BY <2>1, <4>1, <4>4, <6>1, Zenon DEF QueueAt
          <5> QED
            BY <5>1, <5>2, Zenon
        <4> QED
          BY <4>2, <4>3, <4>4, Zenon
      <3> QED
        BY <3>1, <3>2, Zenon
    <2> QED
      BY <2>4, <2>5, Zenon DEF QueueAt
  <1>10. ASSUME NEW k \in Metric, k # m PROVE DebtAt(k)' /\ QueueAt(k)' /\ WithinAt(k)'
    <2>1. tokens'[k] = tokens[k] /\ reserved'[k] = reserved[k] /\ released'[k] = released[k]
      BY <1>10, RateFacts, Zenon
    <2>2. DebtAt(k) /\ QueueAt(k) /\ WithinAt(k)
      BY AtEach, Zenon
    <2>3. \A u \in Senders : WaitsAt(u, k)' <=> WaitsAt(u, k)
      BY <1>2, <1>10, Zenon
    <2>4. \A u \in Senders : WaitsAt(u, k) =>
              claim'[u] = claim[u] /\ due'[u] = due[u] /\ upto'[u] = upto[u]
      BY <1>2, <1>5, Zenon
    <2> QED
      BY <2>1, <2>2, <2>3, <2>4, Elsewhere, Zenon
  <1> QED
    BY <1>7, <1>8, <1>9, <1>10, FromEach, Zenon

\* The oldest wait ends: what it was for is released.
LEMMA GrantedBuckets ==
    ASSUME RateInv, ~ctxDone, NEW m \in Metric, NEW s \in Senders, WaitsAt(s, m),
           now >= due[s],
           released' = [released EXCEPT ![m] = @ + claim[s]],
           tokens' = tokens, reserved' = reserved, limiter' = limiter, now' = now,
           \A u \in Senders : u # s =>
               claim'[u] = claim[u] /\ due'[u] = due[u] /\ upto'[u] = upto[u],
           \A k \in Metric : ~WaitsAt(s, k)',
           \A u \in Senders : u # s => \A k \in Metric : WaitsAt(u, k)' <=> WaitsAt(u, k)
    PROVE  Buckets'
  <1>1. /\ tokens[m] \in Int /\ reserved[m] \in Nat /\ released[m] \in Nat /\ now \in Nat
        /\ Capacity(m) \in Nat /\ tokens[m] <= Capacity(m) /\ released[m] <= reserved[m]
    BY BucketTypes, Zenon
  <1>2. /\ claim[s] \in Nat /\ upto[s] \in Nat /\ claim[s] > 0 /\ upto[s] <= reserved[m]
    BY Waiter, Zenon
  <1>3. released[m] = upto[s] - claim[s]
    BY Oldest, Zenon
  <1>4. released'[m] = upto[s]
    <2>1. released'[m] = released[m] + claim[s]
      BY RateFacts, Zenon
    <2> QED
      BY ONLY <1>1, <1>2, <1>3, <2>1, SMTT(30)
  <1>5. Capacity(m)' = Capacity(m)
    BY Zenon DEF Capacity
  <1>6. WithinAt(m)'
    BY ONLY <1>1, <1>2, <1>4, <1>5, tokens' = tokens, reserved' = reserved, SMT DEF WithinAt
  <1>7. ASSUME NEW u \in Senders, WaitsAt(u, m)'
        PROVE  /\ u # s /\ WaitsAt(u, m)
               /\ claim'[u] = claim[u] /\ due'[u] = due[u] /\ upto'[u] = upto[u]
    BY <1>7, Zenon
  <1>8. DebtAt(m)'
    <2>1. DebtAt(m)
      BY AtEach, Zenon
    <2> QED
      BY <1>5, <1>7, <2>1, Zenon DEF DebtAt
  <1>9. QueueAt(m)'
    <2>1. QueueAt(m)
      BY AtEach, Zenon
    <2>2. ASSUME NEW u \in Senders, WaitsAt(u, m)'
          PROVE  /\ claim[u] \in Nat /\ upto[u] \in Nat /\ claim[u] > 0
                 /\ upto[s] <= upto[u] - claim[u]
      <3>1. u # s /\ WaitsAt(u, m)
        BY <1>7, <2>2, Zenon
      <3>2. claim[u] \in Nat /\ upto[u] \in Nat /\ claim[u] > 0
        BY <3>1, Waiter, Zenon
      <3>3. released[m] <= upto[u] - claim[u]
        BY <2>1, <3>1, Zenon DEF QueueAt
      <3>4. upto[s] <= upto[u] - claim[u] \/ upto[u] <= upto[s] - claim[s]
        BY <2>1, <3>1, Zenon DEF QueueAt
      <3> QED
        BY ONLY <1>1, <1>2, <1>3, <3>2, <3>3, <3>4, SMTT(30)
    <2>3. ASSUME reserved'[m] > released'[m]
          PROVE  \E u \in Senders : WaitsAt(u, m)' /\ upto'[u] - claim'[u] = released'[m]
      <3>1. upto[s] < reserved[m]
        BY ONLY <1>1, <1>2, <1>4, <2>3, reserved' = reserved, SMT
      <3>2. PICK u \in Senders : WaitsAt(u, m) /\ upto[u] - claim[u] = upto[s]
        BY <2>1, <3>1, Zenon DEF QueueAt
      <3>3. u # s
        BY ONLY <1>2, <3>2, SMTT(30)
      <3> QED
        BY <1>4, <3>2, <3>3, Zenon
    <2>4. ASSUME NEW u \in Senders, WaitsAt(u, m)'
          PROVE  /\ released'[m] <= upto'[u] - claim'[u]
                 /\ upto'[u] < reserved'[m] =>
                       \E t \in Senders : WaitsAt(t, m)' /\ upto'[t] - claim'[t] = upto'[u]
                 /\ \A t \in Senders : WaitsAt(t, m)' /\ t # u =>
                       upto'[u] <= upto'[t] - claim'[t] \/ upto'[t] <= upto'[u] - claim'[u]
      <3>1. u # s /\ WaitsAt(u, m) /\ claim'[u] = claim[u] /\ upto'[u] = upto[u]
        BY <1>7, <2>4, Zenon
      <3>2. released'[m] <= upto'[u] - claim'[u]
        BY <1>4, <2>2, <2>4, <3>1, Zenon
      <3>3. ASSUME upto'[u] < reserved'[m]
            PROVE  \E t \in Senders : WaitsAt(t, m)' /\ upto'[t] - claim'[t] = upto'[u]
        <4>1. upto[u] < reserved[m]
          BY ONLY <3>1, <3>3, reserved' = reserved, Zenon
        <4>2. PICK t \in Senders : WaitsAt(t, m) /\ upto[t] - claim[t] = upto[u]
          BY <2>1, <3>1, <4>1, Zenon DEF QueueAt
        <4>3. t # s
          <5>1. claim[u] \in Nat /\ upto[u] \in Nat /\ claim[u] > 0 /\ upto[s] <= upto[u] - claim[u]
            BY <2>2, <2>4, Zenon
          <5> QED
            BY ONLY <1>2, <4>2, <5>1, SMT
        <4> QED
          BY <3>1, <4>2, <4>3, Zenon
      <3>4. ASSUME NEW t \in Senders, WaitsAt(t, m)', t # u
            PROVE  upto'[u] <= upto'[t] - claim'[t] \/ upto'[t] <= upto'[u] - claim'[u]
        <4>1. WaitsAt(t, m) /\ claim'[t] = claim[t] /\ upto'[t] = upto[t]
          BY <1>7, <3>4, Zenon
        <4> QED
          BY <2>1, <3>1, <3>4, <4>1, Zenon DEF QueueAt
      <3> QED
        BY <3>2, <3>3, <3>4, Zenon
    <2> QED
      BY <2>3, <2>4, Zenon DEF QueueAt
  <1>10. ASSUME NEW k \in Metric, k # m PROVE DebtAt(k)' /\ QueueAt(k)' /\ WithinAt(k)'
    <2>1. tokens'[k] = tokens[k] /\ reserved'[k] = reserved[k] /\ released'[k] = released[k]
      BY <1>10, RateFacts, Zenon
    <2>2. DebtAt(k) /\ QueueAt(k) /\ WithinAt(k)
      BY AtEach, Zenon
    <2>3. ~WaitsAt(s, k)
      BY <1>10, Zenon DEF WaitsAt
    <2>4. \A u \in Senders : WaitsAt(u, k)' <=> WaitsAt(u, k)
      BY <2>3, Zenon
    <2>5. \A u \in Senders : WaitsAt(u, k) =>
              claim'[u] = claim[u] /\ due'[u] = due[u] /\ upto'[u] = upto[u]
      BY <2>3, Zenon
    <2> QED
      BY <2>1, <2>2, <2>4, <2>5, Elsewhere, Zenon
  <1> QED
    BY <1>6, <1>8, <1>9, <1>10, FromEach, Zenon

\* Time passes: a debt shrinks with the time left until it is paid off.
LEMMA TickBuckets == ASSUME RateInv, Tick PROVE Buckets'
  <1>1. /\ limiter' = limiter /\ now' = now + 1 /\ reserved' = reserved
        /\ released' = released /\ pc' = pc /\ stage' = stage /\ claim' = claim
        /\ due' = due /\ upto' = upto /\ ctxDone' = ctxDone
    BY Zenon DEF Tick, fixed, ask
  <1>2. \A u \in Senders : \A k \in Metric : WaitsAt(u, k)' <=> WaitsAt(u, k)
    BY <1>1, Zenon DEF WaitsAt
  <1>3. \A k \in Metric : tokens'[k] = IF tokens[k] < Capacity(k) THEN tokens[k] + 1
                                       ELSE Capacity(k)
    BY Zenon DEF Tick
  <1>4. \A k : Capacity(k)' = Capacity(k)
    BY <1>1, Zenon DEF Capacity
  <1>5. ASSUME NEW u \in Senders, NEW k \in Metric, WaitsAt(u, k)'
        PROVE  /\ claim'[u] > 0 /\ claim'[u] <= Capacity(k)' /\ upto'[u] <= reserved'[k]
               /\ now' <= due'[u]
               /\ now' - due'[u] = tokens'[k] + (reserved'[k] - upto'[u])
    <2>1. WaitsAt(u, k)
      BY <1>2, <1>5, Zenon
    <2>2. now < due[u]
      BY <2>1, Zenon DEF Tick, Waiting, WaitsAt
    <2>3. /\ tokens[k] \in Int /\ reserved[k] \in Nat /\ now \in Nat /\ Capacity(k) \in Nat
      BY BucketTypes, Zenon
    <2>4. /\ due[u] \in Int /\ upto[u] \in Nat /\ claim[u] \in Nat
          /\ claim[u] > 0 /\ claim[u] <= Capacity(k)
          /\ upto[u] <= reserved[k] /\ now - due[u] = tokens[k] + (reserved[k] - upto[u])
      BY <2>1, Waiter, Zenon
    <2>5. tokens'[k] = tokens[k] + 1
      <3>1. tokens[k] < Capacity(k)
        BY ONLY <2>2, <2>3, <2>4, SMT
      <3> QED
        BY <1>3, <3>1, Zenon
    <2>6. now + 1 <= due[u] /\ now + 1 - due[u] = tokens[k] + 1 + (reserved[k] - upto[u])
      BY ONLY <2>2, <2>3, <2>4, SMT
    <2>7. Capacity(k)' = Capacity(k)
      BY <1>4, Zenon
    <2>8. /\ claim'[u] = claim[u] /\ due'[u] = due[u] /\ upto'[u] = upto[u]
          /\ reserved'[k] = reserved[k] /\ now' = now + 1
      BY <1>1, Zenon
    <2> QED
      BY ONLY <2>3, <2>4, <2>5, <2>6, <2>7, <2>8, SMT
  <1>6. DebtInv'
    BY <1>5, Zenon DEF DebtInv
  <1>7. QueueInv'
    <2>1. ASSUME NEW k \in Metric, ~ctxDone PROVE QueueAt(k)'
      <3>1. QueueAt(k)
        BY <2>1, AtEach, Zenon
      <3> QED
        BY <1>1, <1>2, <3>1, LineKept, Zenon
    <2> QED
      BY <1>1, <2>1, Zenon DEF QueueInv, QueueAt
  <1>8. ASSUME NEW k \in Metric PROVE tokens'[k] <= Capacity(k)' /\ released'[k] <= reserved'[k]
    <2>1. /\ tokens[k] \in Int /\ Capacity(k) \in Nat /\ released[k] <= reserved[k]
      BY BucketTypes, Zenon
    <2>2. tokens'[k] <= Capacity(k)
      BY <1>3, <2>1
    <2> QED
      BY <1>1, <1>4, <2>1, <2>2, Zenon
  <1> QED
    BY <1>6, <1>7, <1>8, Zenon DEF Buckets
-----------------------------------------------------------------------------
(* The actions                                                             *)

\* The types a step of a sender leaves to show.
Typed ==
    /\ tokens' \in [Metric -> Int]
    /\ tx' \in [Senders -> Tx]
    /\ original' \in Tx
    /\ claim' \in [Senders -> Nat]
    /\ due' \in [Senders -> Int]
    /\ upto' \in [Senders -> Nat]
    /\ ctxDone' \in BOOLEAN
    /\ reserved' \in [Metric -> Nat]
    /\ released' \in [Metric -> Nat]

LEMMA Assemble ==
    ASSUME RateInv, UNCHANGED <<fixed, clock>>, NEW s \in Senders, Moves(s), Typed, Buckets'
    PROVE  RateInv'
  <1>1. config' = config /\ limiter' = limiter /\ now' = now /\ mark' = mark
    BY Zenon DEF fixed, clock
  <1>2. TypeOK'
    BY <1>1, Zenon DEF RateInv, TypeOK, Typed, Moves
  <1>3. Limited' = Limited
    BY <1>1, Zenon DEF Limited
  <1>4. \A u \in Senders : pc'[u] \in {"reserve", "wait"} => stage'[u] \in Limited
    BY Zenon DEF RateInv, Moves
  <1>5. \A u \in Senders : pc'[u] = "reserve" => remaining'[u] > 0
    BY RateFacts, Zenon DEF Moves
  <1> QED
    BY <1>1, <1>2, <1>3, <1>4, <1>5, Zenon DEF RateInv, Buckets

\* What fuzzing makes of a transaction is a transaction.
LEMMA FuzzType ==
    ASSUME NEW c \in Config, NEW t \in Tx, NEW n,
           NEW f \in FuzzTransaction(NewGasFuzzer(c.fuzz), t, n)
    PROVE  f.tx \in Tx
  <1> DEFINE z == NewGasFuzzer(c.fuzz)
  <1>1. z.min \in Nat /\ z.max \in Nat
    BY ZenonT(30) DEF NewGasFuzzer, Config
  <1> HIDE DEF z
  <1>2. \A a \in Nat : Scaled(t.gas, a) \in Nat
    <2> SUFFICES ASSUME NEW a \in Nat PROVE Scaled(t.gas, a) \in Nat
      BY Zenon
    <2>1. t.gas \in Nat
      BY Zenon DEF Tx
    <2>2. t.gas * a \in Nat
      BY <2>1
    <2>3. \A x \in Nat : x \div 10 \in Nat
      OBVIOUS
    <2> QED
      BY <2>2, <2>3, Zenon DEF Scaled, Tenths
  <1>3. \A g \in applyFuzzingStrategy(z, t.gas, n + 1) : g \in Nat
    <2>1. Scaled(t.gas, z.min) \in Nat /\ Scaled(t.gas, z.max) \in Nat
      BY <1>1, <1>2, Zenon
    <2>2. \A g \in randomFuzzing(z, t.gas) : g \in Nat
      BY <2>1 DEF randomFuzzing
    <2>3. \A g \in boundaryFuzzing(z, t.gas, n + 1) : g \in Nat
      BY <2>1, Zenon DEF boundaryFuzzing
    <2> QED
      BY <2>2, <2>3, Zenon DEF applyFuzzingStrategy
  <1>4. \A g \in Nat : createFuzzedTransaction(t, g) \in Tx
    BY Zenon DEF createFuzzedTransaction, Tx
  <1>5. f \in FuzzTransaction(z, t, n)
    BY Zenon DEF z
  <1>6. \/ f = [tx |-> t, counter |-> n]
        \/ f = [tx |-> t, counter |-> n + 1]
        \/ \E g \in applyFuzzingStrategy(z, t.gas, n + 1) :
              f = [tx |-> createFuzzedTransaction(t, g), counter |-> n + 1]
    BY <1>5, Zenon DEF FuzzTransaction
  <1> QED
    BY <1>3, <1>4, <1>6

\* A transaction is taken up by a sender that is not waiting.
LEMMA StartInv ==
    ASSUME RateInv, NEW s \in Senders, pc[s] \in {"idle", "send"}, NEW t \in Tx, Start(s, t),
           UNCHANGED <<fixed, clock, bucket, ctxDone>>, original' \in Tx
    PROVE  RateInv'
  <1>1. Enter(s, NextStage("begin", t), t) /\ tx' = [tx EXCEPT ![s] = t]
        /\ claim' = claim /\ due' = due /\ upto' = upto
    BY Zenon DEF Start
  <1>2. Moves(s) /\ pc'[s] \in {"send", "reserve"}
    BY <1>1, EnterMoves, Zenon
  <1>3. Typed
    BY <1>1, RateFacts, Zenon DEF Typed, bucket
  <1>4. \A u \in Senders : \A m \in Metric : WaitsAt(u, m)' <=> WaitsAt(u, m)
    <2> SUFFICES ASSUME NEW u \in Senders, NEW m \in Metric
                 PROVE  WaitsAt(u, m)' <=> WaitsAt(u, m)
      BY Zenon
    <2>1. CASE u = s
      BY <1>2, <2>1, Zenon DEF WaitsAt
    <2>2. CASE u # s
      BY <1>2, <2>2, Zenon DEF WaitsAt, Moves
    <2> QED
      BY <2>1, <2>2, Zenon
  <1>5. Buckets'
    BY <1>1, <1>4, QuietBuckets, Zenon DEF fixed, clock, bucket
  <1> QED
    BY <1>2, <1>3, <1>5, Assemble, Zenon

LEMMA TakeTxInv == ASSUME RateInv, NEW s \in Senders, TakeTx(s) PROVE RateInv'
  <1>1. PICK t \in Txs : Start(s, t)
    BY Zenon DEF TakeTx
  <1>2. t \in Tx
    BY RateLimitAssumption, Zenon
  <1>3. original' \in Tx
    BY RateFacts, Zenon DEF TakeTx
  <1> QED
    BY <1>1, <1>2, <1>3, StartInv, Zenon DEF TakeTx

LEMMA ReplayTxInv == ASSUME RateInv, NEW s \in Senders, ReplayTx(s) PROVE RateInv'
  <1>1. PICK t \in Txs :
            \E f \in FuzzTransaction(NewGasFuzzer(config.fuzz), t, txCounter) :
                Start(s, f.tx) /\ original' = t
    BY Zenon DEF ReplayTx
  <1>2. PICK f \in FuzzTransaction(NewGasFuzzer(config.fuzz), t, txCounter) :
            Start(s, f.tx) /\ original' = t
    BY <1>1, Zenon
  <1>3. t \in Tx /\ config \in Config
    BY RateLimitAssumption, RateFacts, Zenon
  <1>4. f.tx \in Tx
    BY <1>3, FuzzType, Zenon
  <1> QED
    BY <1>2, <1>3, <1>4, StartInv, Zenon DEF ReplayTx

LEMMA FallbackInv == ASSUME RateInv, NEW s \in Senders, Fallback(s) PROVE RateInv'
  <1>1. original \in Tx /\ original' = original
    BY RateFacts, Zenon DEF Fallback
  <1> QED
    BY <1>1, StartInv, Zenon DEF Fallback

\* Steps that only move a sender that is not waiting, or whose context ended.
LEMMA MoveInv ==
    ASSUME RateInv, NEW s \in Senders, NEW to \in {"idle", "failed", "refused"},
           pc' = [pc EXCEPT ![s] = to],
           UNCHANGED <<fixed, clock, bucket, ask, tx, original>>,
           ctxDone' \in BOOLEAN, ctxDone => ctxDone',
           pc[s] # "wait" \/ ctxDone'
    PROVE  RateInv'
  <1>1. /\ stage' = stage /\ remaining' = remaining /\ claim' = claim /\ due' = due
        /\ upto' = upto
    BY Zenon DEF ask
  <1>2. Moves(s) /\ pc'[s] = to
    BY <1>1, RateFacts, Zenon DEF Moves
  <1>3. Typed
    BY <1>1, RateFacts, Zenon DEF Typed, bucket
  <1>4. \A u \in Senders : \A m \in Metric : WaitsAt(u, m)' => WaitsAt(u, m)
    BY <1>1, <1>2, Zenon DEF WaitsAt, Moves
  <1>5. ctxDone' \/ \A u \in Senders : \A m \in Metric : WaitsAt(u, m) => WaitsAt(u, m)'
    BY <1>1, <1>2, Zenon DEF WaitsAt, Moves
  <1>6. Buckets'
    BY <1>1, <1>4, <1>5, QuietBuckets, Zenon DEF fixed, clock, bucket
  <1> QED
    BY <1>2, <1>3, <1>6, Assemble, Zenon

Cost(s) == Chunk(s) * limiter[stage[s]].period

\* The two ways a reservation goes: the tokens are there, or they will be.
Takes(s) ==
    /\ tokens[stage[s]] >= Cost(s)
    /\ tokens' = [tokens EXCEPT ![stage[s]] = @ - Cost(s)]
    /\ reserved' = [reserved EXCEPT ![stage[s]] = @ + Cost(s)]
    /\ released' = [released EXCEPT ![stage[s]] = @ + Cost(s)]
    /\ GoOn(s, remaining[s] - Chunk(s))
    /\ UNCHANGED <<fixed, clock, claim, due, upto, ctxDone, tx, original>>

Queues(s) ==
    /\ ~(tokens[stage[s]] >= Cost(s))
    /\ tokens' = [tokens EXCEPT ![stage[s]] = @ - Cost(s)]
    /\ reserved' = [reserved EXCEPT ![stage[s]] = @ + Cost(s)]
    /\ pc' = [pc EXCEPT ![s] = "wait"]
    /\ remaining' = [remaining EXCEPT ![s] = @ - Chunk(s)]
    /\ claim' = [claim EXCEPT ![s] = Cost(s)]
    /\ due' = [due EXCEPT ![s] = now + Cost(s) - tokens[stage[s]]]
    /\ upto' = [upto EXCEPT ![s] = reserved[stage[s]] + Cost(s)]
    /\ UNCHANGED <<fixed, clock, released, stage, ctxDone, tx, original>>

LEMMA ReserveCases ==
    ASSUME RateInv, NEW s \in Senders, Reserve(s)
    PROVE  Takes(s) \/ Queues(s)
  <1>1. ~(Chunk(s) > limiter[stage[s]].burst)
    <2>1. /\ stage[s] \in Metric /\ Chunk(s) \in Nat /\ Chunk(s) <= limiter[stage[s]].burst
      BY ChunkCost, Zenon DEF Reserve
    <2>2. limiter[stage[s]].burst \in Nat
      BY <2>1, RateFacts, Zenon
    <2> QED
      BY ONLY <2>1, <2>2, SMTT(30)
  <1>2. WaitN(s, Chunk(s)) /\ UNCHANGED <<fixed, clock, tx, original>>
    BY Zenon DEF Reserve, load
  <1> QED
    BY <1>1, <1>2, Zenon DEF WaitN, Takes, Queues, Cost

LEMMA TakesInv ==
    ASSUME RateInv, NEW s \in Senders, pc[s] = "reserve", ~ctxDone, Takes(s) PROVE RateInv'
  <1> DEFINE m == stage[s]
  <1>1. /\ m \in Metric /\ Cost(s) \in Nat /\ Cost(s) > 0
        /\ Chunk(s) \in Nat /\ Chunk(s) <= remaining[s]
    BY ChunkCost, Zenon DEF Cost
  <1>2. remaining[s] \in Nat
    BY RateFacts, Zenon
  <1>3. remaining[s] - Chunk(s) \in Nat
    BY ONLY <1>1, <1>2, SMT
  <1>4. Moves(s) /\ pc'[s] \in {"send", "reserve"}
    BY <1>3, GoOnMoves, Zenon DEF Takes
  <1>5. Typed
    <2>1. tokens \in [Metric -> Int] /\ reserved \in [Metric -> Nat] /\ released \in [Metric -> Nat]
      BY RateFacts, Zenon
    <2>2. tokens' \in [Metric -> Int] /\ reserved' \in [Metric -> Nat]
          /\ released' \in [Metric -> Nat]
      BY <1>1, <2>1 DEF Takes
    <2> QED
      BY <2>2, RateFacts, Zenon DEF Typed, Takes
  <1>6. \A u \in Senders : \A k \in Metric : WaitsAt(u, k)' <=> WaitsAt(u, k)
    BY <1>4, Zenon DEF WaitsAt, Moves
  <1>7. Buckets'
    BY <1>1, <1>6, TakenBuckets, Zenon DEF Takes, fixed, clock
  <1> QED
    BY <1>4, <1>5, <1>7, Assemble, Zenon DEF Takes

LEMMA QueuesInv ==
    ASSUME RateInv, NEW s \in Senders, pc[s] = "reserve", ~ctxDone, Queues(s) PROVE RateInv'
  <1> DEFINE m == stage[s]
  <1>1. /\ m \in Metric /\ Cost(s) \in Nat /\ Cost(s) > 0 /\ Cost(s) <= Capacity(m)
        /\ Chunk(s) \in Nat /\ Chunk(s) <= remaining[s]
    BY ChunkCost, Zenon DEF Cost
  <1>2. remaining[s] \in Nat /\ m \in Limited
    BY RateFacts, Zenon
  <1>3. remaining[s] - Chunk(s) \in Nat
    BY ONLY <1>1, <1>2, SMT
  <1>4. Moves(s) /\ pc'[s] = "wait" /\ stage' = stage
    BY <1>2, <1>3, RateFacts, Zenon DEF Queues, Moves
  <1>5. Typed
    <2>1. tokens \in [Metric -> Int] /\ reserved \in [Metric -> Nat] /\ now \in Nat
          /\ claim \in [Senders -> Nat] /\ due \in [Senders -> Int] /\ upto \in [Senders -> Nat]
      BY RateFacts, Zenon
    <2>2. tokens' \in [Metric -> Int] /\ reserved' \in [Metric -> Nat]
      BY <1>1, <2>1 DEF Queues
    <2>3. now + Cost(s) - tokens[m] \in Int /\ reserved[m] + Cost(s) \in Nat
      BY <1>1, <2>1
    <2>4. claim' \in [Senders -> Nat] /\ due' \in [Senders -> Int] /\ upto' \in [Senders -> Nat]
      BY <1>1, <2>1, <2>3, Zenon DEF Queues
    <2> QED
      BY <2>2, <2>4, RateFacts, ZenonT(30) DEF Typed, Queues
  <1>6. \A k \in Metric : WaitsAt(s, k)' <=> k = m
    BY <1>4, Zenon DEF WaitsAt
  <1>7. \A u \in Senders : u # s => \A k \in Metric : WaitsAt(u, k)' <=> WaitsAt(u, k)
    BY <1>4, Zenon DEF WaitsAt, Moves
  <1>8. Buckets'
    BY <1>1, <1>6, <1>7, ReservedBuckets, Zenon DEF Queues, fixed, clock
  <1> QED
    BY <1>4, <1>5, <1>8, Assemble, Zenon DEF Queues

LEMMA ReserveInv == ASSUME RateInv, NEW s \in Senders, Reserve(s) PROVE RateInv'
  <1>1. pc[s] = "reserve" /\ ~ctxDone
    BY Zenon DEF Reserve
  <1>2. Takes(s) \/ Queues(s)
    BY ReserveCases, Zenon
  <1> QED
    BY <1>1, <1>2, TakesInv, QueuesInv, Zenon

LEMMA GrantedInv == ASSUME RateInv, NEW s \in Senders, Granted(s) PROVE RateInv'
  <1> DEFINE m == stage[s]
  <1>1. pc[s] = "wait" /\ ~ctxDone /\ now >= due[s] /\ m \in Metric /\ WaitsAt(s, m)
    BY RateFacts, Zenon DEF Granted, Limited, WaitsAt
  <1>2. remaining[s] \in Nat /\ claim[s] \in Nat
    BY RateFacts, Zenon
  <1>3. Moves(s) /\ pc'[s] \in {"send", "reserve"}
    BY <1>1, <1>2, GoOnMoves, Zenon DEF Granted
  <1>4. Typed
    <2>1. released \in [Metric -> Nat] /\ claim \in [Senders -> Nat]
          /\ due \in [Senders -> Int] /\ upto \in [Senders -> Nat]
      BY RateFacts, Zenon
    <2>2. /\ released' = [released EXCEPT ![m] = @ + claim[s]]
          /\ claim' = [claim EXCEPT ![s] = 0] /\ due' = [due EXCEPT ![s] = 0]
          /\ upto' = [upto EXCEPT ![s] = 0]
      BY ZenonT(30) DEF Granted
    <2>3. /\ released' \in [Metric -> Nat] /\ claim' \in [Senders -> Nat]
          /\ due' \in [Senders -> Int] /\ upto' \in [Senders -> Nat]
      BY ONLY s \in Senders, <1>1, <1>2, <2>1, <2>2, SMTT(30)
    <2>4. /\ limiter' = limiter /\ tokens' = tokens /\ reserved' = reserved
          /\ now' = now /\ mark' = mark /\ tx' = tx /\ original' = original
          /\ config' = config /\ ctxDone' = ctxDone
      BY ZenonT(30) DEF Granted, fixed, clock, load
    <2> QED
      BY <2>3, <2>4, RateFacts, ZenonT(30) DEF Typed
  <1>5. \A u \in Senders : u # s =>
            claim'[u] = claim[u] /\ due'[u] = due[u] /\ upto'[u] = upto[u]
    BY RateFacts, Zenon DEF Granted
  <1>6. \A k \in Metric : ~WaitsAt(s, k)'
    BY <1>3, Zenon DEF WaitsAt
  <1>7. \A u \in Senders : u # s => \A k \in Metric : WaitsAt(u, k)' <=> WaitsAt(u, k)
    BY <1>3, Zenon DEF WaitsAt, Moves
  <1>8. /\ released' = [released EXCEPT ![m] = @ + claim[s]] /\ tokens' = tokens
        /\ reserved' = reserved /\ limiter' = limiter /\ now' = now
    BY ZenonT(30) DEF Granted, fixed, clock
  <1>9. Buckets'
    BY <1>1, <1>5, <1>6, <1>7, <1>8, GrantedBuckets, Zenon
  <1> QED
    BY <1>3, <1>4, <1>9, Assemble, Zenon DEF Granted

LEMMA WaitCancelledInv == ASSUME RateInv, NEW s \in Senders, WaitCancelled(s) PROVE RateInv'
  <1>1. PICK to \in {"idle", "failed", "refused"} : pc' = [pc EXCEPT ![s] = to]
    BY ZenonT(30) DEF WaitCancelled
  <1>2. ctxDone' = ctxDone /\ ctxDone /\ ctxDone \in BOOLEAN
    BY RateFacts, Zenon DEF WaitCancelled
  <1>3. UNCHANGED <<fixed, clock, bucket, ask, tx, original>>
    BY Zenon DEF WaitCancelled, load
  <1> QED
    BY <1>1, <1>2, <1>3, MoveInv, Zenon

LEMMA BroadcastReturnsInv ==
    ASSUME RateInv, NEW s \in Senders, BroadcastReturns(s) PROVE RateInv'
  <1>1. ctxDone' = ctxDone /\ ctxDone \in BOOLEAN
    BY RateFacts, Zenon DEF BroadcastReturns
  <1>2. pc' = [pc EXCEPT ![s] = "idle"] /\ pc[s] # "wait"
    BY Zenon DEF BroadcastReturns
  <1>3. UNCHANGED <<fixed, clock, bucket, ask, tx, original>>
    BY Zenon DEF BroadcastReturns, load
  <1> QED
    BY <1>1, <1>2, <1>3, MoveInv, Zenon

LEMMA BroadcastFailsInv ==
    ASSUME RateInv, NEW s \in Senders, BroadcastFails(s) PROVE RateInv'
  BY MoveInv, ZenonT(30) DEF BroadcastFails, Fail, load

\* A step that changes nothing but the context.
LEMMA StillInv ==
    ASSUME RateInv, UNCHANGED <<fixed, clock, bucket, pc, ask, tx, original>>,
           ctxDone' \in BOOLEAN, ctxDone => ctxDone'
    PROVE  RateInv'
  <1>1. /\ config' = config /\ limiter' = limiter /\ now' = now /\ mark' = mark
        /\ stage' = stage /\ remaining' = remaining /\ claim' = claim /\ due' = due
        /\ upto' = upto /\ pc' = pc /\ tokens' = tokens /\ reserved' = reserved
        /\ released' = released /\ tx' = tx /\ original' = original
    BY Zenon DEF fixed, clock, bucket, ask
  <1>2. \A u \in Senders : \A m \in Metric : WaitsAt(u, m)' <=> WaitsAt(u, m)
    BY <1>1, Zenon DEF WaitsAt
  <1>3. Buckets'
    BY <1>1, <1>2, QuietBuckets, Zenon
  <1>4. TypeOK' /\ Limited' = Limited
    BY <1>1, Zenon DEF RateInv, TypeOK, Limited
  <1> QED
    BY <1>1, <1>3, <1>4, Zenon DEF RateInv, Buckets

LEMMA InterruptInv == ASSUME RateInv, Interrupt PROVE RateInv'
  BY StillInv, Zenon DEF Interrupt, load

LEMMA StutterInv == ASSUME RateInv, UNCHANGED vars PROVE RateInv'
  <1>1. ctxDone \in BOOLEAN
    BY RateFacts, Zenon
  <1> QED
    BY <1>1, StillInv, Zenon DEF vars, load

LEMMA TickInv == ASSUME RateInv, Tick PROVE RateInv'
  <1>1. Buckets'
    BY TickBuckets, Zenon
  <1>2. /\ config' = config /\ limiter' = limiter /\ now' = now + 1 /\ reserved' = reserved
        /\ released' = released /\ pc' = pc /\ stage' = stage /\ remaining' = remaining
        /\ claim' = claim /\ due' = due /\ upto' = upto /\ ctxDone' = ctxDone
        /\ tx' = tx /\ original' = original
    BY Zenon DEF Tick, fixed, ask, load
  <1>3. tokens' \in [Metric -> Int]
    <2>1. \A m \in Metric : tokens[m] \in Int /\ Capacity(m) \in Nat
      BY BucketTypes, Zenon
    <2> QED
      BY <2>1 DEF Tick
  <1>4. mark' \in [Metric -> Seq(Nat)]
    BY RateFacts, SMTT(30) DEF Tick
  <1>5. TypeOK' /\ Limited' = Limited
    BY <1>2, <1>3, <1>4, SMTT(30) DEF RateInv, TypeOK, Limited
  <1> QED
    BY <1>1, <1>2, <1>5, ZenonT(30) DEF RateInv, Buckets
-----------------------------------------------------------------------------
(* The invariant                                                           *)

LEMMA InitRateInv == Init => RateInv
  <1> SUFFICES ASSUME Init PROVE RateInv
    BY Zenon
  <1>1. config \in Config /\ config \in Configs
    BY RateLimitAssumption, Zenon DEF Init
  <1>2. limiter = buildBroadcastClient(config)
    BY Zenon DEF Init
  <1>3. limiter \in [Metric -> [period : Nat, burst : Nat]]
    BY <1>1, <1>2, LimiterType, Zenon
  <1>4. \A m \in Metric : Capacity(m) \in Nat
    BY <1>3, CapacityNat, Zenon
  <1>5. NoTx \in Tx
    BY Zenon DEF NoTx, Tx
  <1>6. tokens \in [Metric -> Int]
    BY <1>4 DEF Init
  <1>7. TypeOK
    <2>1. /\ tx \in [Senders -> Tx] /\ original \in Tx
          /\ pc \in [Senders -> {"idle", "reserve", "wait", "send", "failed", "refused"}]
          /\ stage \in [Senders -> Metric \union {"send"}]
      BY <1>5, Zenon DEF Init
    <2>2. /\ remaining \in [Senders -> Nat] /\ claim \in [Senders -> Nat]
          /\ due \in [Senders -> Int] /\ upto \in [Senders -> Nat]
          /\ reserved \in [Metric -> Nat] /\ released \in [Metric -> Nat] /\ now \in Nat
      BY DEF Init
    <2>3. mark \in [Metric -> Seq(Nat)]
      <3>1. <<0>> \in Seq(Nat)
        OBVIOUS
      <3> QED
        BY <3>1, Zenon DEF Init
    <2>4. ctxDone \in BOOLEAN
      BY ZenonT(30) DEF Init
    <2> QED
      BY <1>3, <1>6, <2>1, <2>2, <2>3, <2>4, Zenon DEF TypeOK
  <1>8. \A s \in Senders : pc[s] = "idle"
    BY Zenon DEF Init
  <1>9. \A m \in Metric : /\ tokens[m] = Capacity(m)
                          /\ released[m] = 0 /\ reserved[m] = 0
    BY Zenon DEF Init
  <1>10. DebtInv
    BY <1>8, Zenon DEF DebtInv, WaitsAt
  <1>11. QueueInv
    BY <1>8, <1>9 DEF QueueInv, WaitsAt
  <1>12. \A m \in Metric : tokens[m] <= Capacity(m) /\ released[m] <= reserved[m]
    BY <1>4, <1>9
  <1> QED
    BY <1>1, <1>2, <1>7, <1>8, <1>10, <1>11, <1>12, Zenon DEF RateInv

LEMMA Inductive == RateInv /\ [Next]_vars => RateInv'
  <1> SUFFICES ASSUME RateInv, [Next]_vars PROVE RateInv'
    BY Zenon
  <1>1. CASE Tick
    BY <1>1, TickInv, Zenon
  <1>2. CASE Interrupt
    BY <1>2, InterruptInv, Zenon
  <1>3. ASSUME NEW s \in Senders, Sender(s) PROVE RateInv'
    BY <1>3, TakeTxInv, ReplayTxInv, ReserveInv, GrantedInv, WaitCancelledInv,
       BroadcastReturnsInv, BroadcastFailsInv, FallbackInv, Zenon DEF Sender
  <1>4. CASE Finished \/ UNCHANGED vars
    BY <1>4, StutterInv, Zenon DEF Finished
  <1> QED
    BY <1>1, <1>2, <1>3, <1>4, Zenon DEF Next

\* However many senders share the limiters, their reservations stay in a line
\* without gap or overlap, and each is good exactly when its debt is paid off.
THEOREM RateInvariant == Spec => []RateInv
  BY InitRateInv, Inductive, PTL DEF Spec
-----------------------------------------------------------------------------
(* What each transaction pays                                             *)

\* The limiters a transaction comes to after a stage.
Ahead(m) == {After(m)[k] : k \in DOMAIN After(m)}

\* What a transaction costs at a limiter, and what its sender has not paid yet.
Price(t, m) == Demand(t, m) * limiter[m].period

Owed(s, m) ==
    CASE pc[s] = "send" -> 0
      [] pc[s] # "send" /\ m = stage[s] ->
            remaining[s] * limiter[m].period + (IF pc[s] = "wait" THEN claim[s] ELSE 0)
      [] pc[s] # "send" /\ m # stage[s] ->
            IF m \in Ahead(stage[s]) THEN Price(tx[s], m) ELSE 0

Covered(s) ==
    /\ pc[s] # "refused"
    /\ pc[s] \in {"reserve", "wait", "send"} =>
          \A m \in Limited : paid[s][m] + Owed(s, m) = Price(tx[s], m)

PaidInv ==
    /\ paid \in [Senders -> [Metric -> Nat]]
    /\ \A s \in Senders : Covered(s)

LEMMA Aheads ==
    /\ Ahead("begin") = Metric /\ Ahead("tps") = {"bytes", "gas"}
    /\ Ahead("bytes") = {"gas"} /\ Ahead("gas") = {}
  BY DEF Ahead, After, Metric

\* What a limiter asks and what it has been paid are numbers.
LEMMA PriceType ==
    ASSUME RateInv, NEW t \in Tx, NEW m \in Metric
    PROVE  Price(t, m) \in Nat /\ (Demand(t, m) = 0 => Price(t, m) = 0) /\ limiter[m].period \in Nat
  <1>1. limiter[m].period \in Nat
    BY RateFacts, Zenon
  <1>2. Demand(t, m) \in Nat
    BY DemandType, Zenon
  <1> QED
    BY <1>1, <1>2 DEF Price

\* Entering the next limiter, with those before it paid for.
LEMMA EnterCovers ==
    ASSUME RateInv, NEW s \in Senders, NEW m \in Metric \union {"begin"}, NEW t \in Tx,
           Enter(s, NextStage(m, t), t), tx'[s] = t, limiter' = limiter,
           \A k \in Limited : paid'[s][k] = IF k \in Ahead(m) THEN 0 ELSE Price(t, k)
    PROVE  Covered(s)'
  <1> DEFINE n == NextStage(m, t)
  <1>1. /\ pc'[s] = IF n = "send" THEN "send" ELSE "reserve"
        /\ stage'[s] = n
        /\ n # "send" => remaining'[s] = Demand(t, n)
    BY RateFacts, Zenon DEF Enter
  <1>2. \A k : Price(t, k)' = Demand(t, k) * limiter[k].period /\ Price(t, k)' = Price(t, k)
    BY Zenon DEF Price, Demand, ExtractGasLimit
  <1>3. Limited' = Limited /\ Limited \subseteq Metric
    BY Zenon DEF Limited
  <1> SUFFICES ASSUME NEW k \in Limited
               PROVE  paid'[s][k] + Owed(s, k)' = Price(t, k)
    BY <1>1, <1>2, <1>3, ZenonT(30) DEF Covered, Price, Demand, ExtractGasLimit
  <1>4. /\ Price(t, k) \in Nat /\ (Demand(t, k) = 0 => Price(t, k) = 0)
        /\ limiter[k].period \in Nat /\ Demand(t, k) \in Nat
    BY <1>3, PriceType, DemandType, Zenon
  <1>5. Owed(s, k)' = IF n = "send" THEN 0 ELSE
                      IF k = n THEN Price(t, k) + 0 ELSE
                      IF k \in Ahead(n) THEN Price(t, k) ELSE 0
    BY <1>1, <1>2, Zenon DEF Owed, Price
  <1>6. /\ k \in Ahead(m) /\ Demand(t, k) > 0 => n # "send" /\ (k = n \/ k \in Ahead(n))
        /\ k \notin Ahead(m) /\ n # "send" => k # n /\ k \notin Ahead(n)
    <2>1. k \in {"tps", "bytes", "gas"} /\ m \in {"begin", "tps", "bytes", "gas"}
      BY <1>3, Zenon DEF Metric
    <2> QED
      BY <2>1, NextStages, Aheads DEF Metric
  <1> HIDE DEF n
  <1> QED
    BY <1>4, <1>5, <1>6

\* The next chunk, or the next limiter.
LEMMA GoOnCovers ==
    ASSUME RateInv, NEW s \in Senders, pc[s] \in {"reserve", "wait"}, NEW left \in Nat,
           GoOn(s, left), tx' = tx, limiter' = limiter, paid' \in [Senders -> [Metric -> Nat]],
           \A k \in Limited :
              paid'[s][k] = IF k = stage[s] THEN Price(tx[s], k) - left * limiter[k].period
                            ELSE IF k \in Ahead(stage[s]) THEN 0 ELSE Price(tx[s], k)
    PROVE  Covered(s)'
  <1>1. stage[s] \in Limited /\ Limited \subseteq Metric /\ tx[s] \in Tx
    BY RateFacts, Zenon DEF Limited
  <1>2. \A k \in Limited : limiter[k].period \in Nat /\ Price(tx[s], k) \in Nat
    BY <1>1, PriceType, Zenon
  <1>3. CASE left > 0
    <2>1. pc'[s] = "reserve" /\ stage'[s] = stage[s] /\ remaining'[s] = left
      BY <1>3, RateFacts, Zenon DEF GoOn
    <2> SUFFICES ASSUME NEW k \in Limited
                 PROVE  paid'[s][k] + Owed(s, k)' = Price(tx[s], k)
      BY <2>1, ZenonT(30) DEF Covered, Limited, Price, Demand, ExtractGasLimit
    <2>2. Owed(s, k)' = IF k = stage[s] THEN left * limiter[k].period + 0
                        ELSE IF k \in Ahead(stage[s]) THEN Price(tx[s], k) ELSE 0
      BY <2>1, Zenon DEF Owed, Price
    <2>3. left * limiter[k].period \in Nat /\ Price(tx[s], k) \in Nat
      BY <1>2
    <2> QED
      BY <2>2, <2>3
  <1>4. CASE ~(left > 0)
    <2>1. Enter(s, NextStage(stage[s], tx[s]), tx[s])
      BY <1>4, Zenon DEF GoOn
    <2>2. stage[s] \notin Ahead(stage[s])
      BY <1>1, Aheads, ZenonT(30) DEF Metric
    <2>3. left = 0
      BY <1>4
    <2>4. \A k \in Limited : left * limiter[k].period = 0
      BY <1>2, <2>3
    <2>5. \A k \in Limited : paid'[s][k] = IF k \in Ahead(stage[s]) THEN 0 ELSE Price(tx[s], k)
      BY <1>2, <2>2, <2>4
    <2> QED
      BY <1>1, <2>1, <2>5, EnterCovers, Zenon
  <1> QED
    BY <1>3, <1>4, Zenon

\* A step of one sender leaves the others covered.
LEMMA OthersCovered ==
    ASSUME PaidInv, NEW s \in Senders, Covered(s)', limiter' = limiter,
           paid' \in [Senders -> [Metric -> Nat]],
           \A u \in Senders : u # s =>
              /\ pc'[u] = pc[u] /\ stage'[u] = stage[u] /\ remaining'[u] = remaining[u]
              /\ claim'[u] = claim[u] /\ tx'[u] = tx[u] /\ paid'[u] = paid[u]
    PROVE  PaidInv'
  <1> SUFFICES ASSUME NEW u \in Senders, u # s PROVE Covered(u)'
    BY Zenon DEF PaidInv
  <1>1. Covered(u)
    BY Zenon DEF PaidInv
  <1>2. Limited' = Limited
    BY Zenon DEF Limited
  <1>3. \A m : Owed(u, m)' = Owed(u, m) /\ Price(tx[u], m)' = Price(tx[u], m)
    BY Zenon DEF Owed, Price
  <1> QED
    BY <1>1, <1>2, <1>3, Zenon DEF Covered

LEMMA StartPays ==
    ASSUME RateInv, PaidInv, NEW s \in Senders, NEW t \in Tx, Start(s, t), limiter' = limiter
    PROVE  PaidInv'
  <1>1. /\ tx' = [tx EXCEPT ![s] = t] /\ tx \in [Senders -> Tx]
        /\ paid' = [paid EXCEPT ![s] = [m \in Metric |-> 0]]
        /\ paid \in [Senders -> [Metric -> Nat]]
        /\ claim' = claim /\ Enter(s, NextStage("begin", t), t)
    BY RateFacts, Zenon DEF Start, PaidInv
  <1>2. Moves(s)
    BY <1>1, EnterMoves, ZenonT(30)
  <1>3. tx'[s] = t /\ paid'[s] = [m \in Metric |-> 0] /\ Limited \subseteq Metric
    BY <1>1, Zenon DEF Limited
  <1>4. Covered(s)'
    <2>1. \A k \in Limited : paid'[s][k] = IF k \in Ahead("begin") THEN 0 ELSE Price(t, k)
      BY <1>3, Aheads, Zenon
    <2> QED
      BY <1>1, <1>3, <2>1, EnterCovers, Zenon
  <1>5. paid' \in [Senders -> [Metric -> Nat]]
    BY <1>1, Zenon
  <1>6. \A u \in Senders : u # s => tx'[u] = tx[u] /\ paid'[u] = paid[u]
    BY <1>1, Zenon
  <1> QED
    BY <1>1, <1>2, <1>4, <1>5, <1>6, OthersCovered, Zenon DEF Moves

\* Tokens that are released are paid for the transaction in hand.
LEMMA ReleasePays ==
    ASSUME RateInv, PaidInv, NEW s \in Senders, pc[s] \in {"reserve", "wait"},
           NEW cost \in Nat, NEW left \in Nat, GoOn(s, left), UNCHANGED <<limiter, tx>>,
           paid' = [paid EXCEPT ![s][stage[s]] = @ + cost],
           \A u \in Senders : u # s => claim'[u] = claim[u],
           cost + left * limiter[stage[s]].period = Owed(s, stage[s])
    PROVE  PaidInv'
  <1> DEFINE m == stage[s]
  <1>1. m \in Limited /\ Limited \subseteq Metric /\ tx[s] \in Tx
    BY RateFacts, Zenon DEF Limited
  <1>2. paid \in [Senders -> [Metric -> Nat]] /\ Covered(s)
    BY Zenon DEF PaidInv
  <1>3. /\ paid' \in [Senders -> [Metric -> Nat]]
        /\ \A u \in Senders : u # s => paid'[u] = paid[u]
        /\ paid'[s][m] = paid[s][m] + cost
        /\ \A k \in Metric : k # m => paid'[s][k] = paid[s][k]
    <2>1. /\ paid' = [paid EXCEPT ![s] = [paid[s] EXCEPT ![m] = @ + cost]]
          /\ paid[s] \in [Metric -> Nat] /\ m \in Metric
      BY <1>1, <1>2, Zenon
    <2> DEFINE new == [paid[s] EXCEPT ![m] = @ + cost]
    <2>2. /\ new \in [Metric -> Nat] /\ new[m] = paid[s][m] + cost
          /\ \A k \in Metric : k # m => new[k] = paid[s][k]
      BY <2>1, SMTT(30)
    <2> HIDE DEF new
    <2> QED
      BY ONLY <1>2, <2>1, <2>2, s \in Senders, Zenon DEF new
  <1>4. Moves(s)
    BY GoOnMoves
  <1>5. ASSUME NEW k \in Limited
        PROVE  paid'[s][k] = IF k = stage[s] THEN Price(tx[s], k) - left * limiter[k].period
                             ELSE IF k \in Ahead(stage[s]) THEN 0 ELSE Price(tx[s], k)
    <2>1. /\ Price(tx[s], k) \in Nat /\ limiter[k].period \in Nat /\ paid[s][k] \in Nat
      BY <1>1, <1>2, PriceType, ZenonT(30)
    <2>2. paid[s][k] + Owed(s, k) = Price(tx[s], k)
      BY <1>2, Zenon DEF Covered
    <2>3. CASE k = stage[s]
      <3>1. left * limiter[k].period \in Nat
        BY <2>1
      <3>2. paid'[s][k] = paid[s][k] + cost
        BY <1>3, <2>3, Zenon
      <3>3. cost + left * limiter[k].period = Owed(s, k)
        BY <2>3, Zenon
      <3>4. paid'[s][k] = Price(tx[s], k) - left * limiter[k].period
        BY ONLY <2>1, <2>2, <3>1, <3>2, <3>3, cost \in Nat
      <3> QED
        BY <2>3, <3>4, Zenon
    <2>4. CASE k # stage[s]
      <3>1. Owed(s, k) = IF k \in Ahead(stage[s]) THEN Price(tx[s], k) ELSE 0
        BY <2>4, Zenon DEF Owed
      <3>2. paid'[s][k] = paid[s][k]
        BY <1>1, <1>3, <2>4, Zenon
      <3> QED
        BY <2>1, <2>2, <2>4, <3>1, <3>2
    <2> QED
      BY <2>3, <2>4, Zenon
  <1>6. Covered(s)'
    BY <1>3, <1>5, GoOnCovers, Zenon
  <1> QED
    BY <1>3, <1>4, <1>6, OthersCovered, Zenon DEF Moves

LEMMA ReservePays == ASSUME RateInv, PaidInv, NEW s \in Senders, Reserve(s) PROVE PaidInv'
  <1> DEFINE m == stage[s]
             p == limiter[m].period
             n == Chunk(s)
  <1>1. /\ pc[s] = "reserve" /\ m \in Metric /\ n \in Nat /\ n <= remaining[s]
        /\ n <= limiter[m].burst /\ Cost(s) = n * p
    BY ChunkCost, Zenon DEF Reserve, Cost
  <1>2. remaining[s] \in Nat /\ p \in Nat /\ limiter[m].burst \in Nat
    BY <1>1, RateFacts, Zenon
  <1>3. /\ remaining[s] - n \in Nat /\ n * p \in Nat /\ (remaining[s] - n) * p \in Nat
        /\ n * p + (remaining[s] - n) * p = remaining[s] * p
    BY ONLY <1>1, <1>2
  <1>4. Owed(s, m) = remaining[s] * p + 0
    BY <1>1, Zenon DEF Owed
  <1>5. remaining[s] * p \in Nat
    BY <1>2
  <1>6. WaitN(s, n) /\ UNCHANGED <<limiter, tx>>
    BY Zenon DEF Reserve, fixed, load
  <1>7. ~(n > limiter[m].burst)
    BY <1>1, <1>2
  <1>8. CASE tokens[m] >= n * p
    <2>1. /\ paid' = [paid EXCEPT ![s][m] = @ + n * p] /\ GoOn(s, remaining[s] - n)
          /\ claim' = claim
      BY <1>6, <1>7, <1>8, Zenon DEF WaitN
    <2>2. n * p + (remaining[s] - n) * p = Owed(s, m)
      BY ONLY <1>3, <1>4, <1>5
    <2>3. pc[s] \in {"reserve", "wait"} /\ \A u \in Senders : u # s => claim'[u] = claim[u]
      BY <1>1, <2>1, Zenon
    <2> QED
      BY <1>3, <1>6, <2>1, <2>2, <2>3, ReleasePays, ZenonT(30)
  <1>9. CASE ~(tokens[m] >= n * p)
    <2>1. /\ pc' = [pc EXCEPT ![s] = "wait"] /\ remaining' = [remaining EXCEPT ![s] = @ - n]
          /\ claim' = [claim EXCEPT ![s] = n * p] /\ paid' = paid /\ stage' = stage
      BY <1>6, <1>7, <1>9, Zenon DEF WaitN
    <2>2. /\ pc'[s] = "wait" /\ remaining'[s] = remaining[s] - n /\ claim'[s] = n * p
          /\ \A u \in Senders : u # s =>
                pc'[u] = pc[u] /\ remaining'[u] = remaining[u] /\ claim'[u] = claim[u]
      BY <2>1, RateFacts, Zenon
    <2>3. \A k : Price(tx[s], k)' = Price(tx[s], k)
      BY <1>6, Zenon DEF Price
    <2>4. ASSUME NEW k, k = m PROVE Owed(s, k)' = Owed(s, k)
      <3>1. Owed(s, k)' = (remaining[s] - n) * p + n * p
        BY <1>6, <2>1, <2>2, <2>4, Zenon DEF Owed
      <3>2. Owed(s, k) = Owed(s, m)
        BY <2>4, Zenon
      <3> QED
        BY ONLY <1>3, <1>4, <1>5, <3>1, <3>2
    <2>5. \A k : k # m => Owed(s, k)' = Owed(s, k)
      BY <1>1, <1>6, <2>1, <2>2, <2>3, Zenon DEF Owed
    <2>6. Covered(s)'
      <3>1. \A k \in Limited : paid[s][k] + Owed(s, k) = Price(tx[s], k)
        BY <1>1, Zenon DEF PaidInv, Covered
      <3>2. Limited' = Limited
        BY <1>6, Zenon DEF Limited
      <3>3. \A k : Owed(s, k)' = Owed(s, k)
        BY <2>4, <2>5, Zenon
      <3>4. \A k \in Limited : paid'[s][k] + Owed(s, k)' = Price(tx[s], k)'
        BY <2>1, <2>3, <3>1, <3>3, Zenon
      <3> QED
        BY <2>2, <3>2, <3>4, Zenon DEF Covered
    <2> QED
      BY <1>6, <2>1, <2>2, <2>6, OthersCovered, Zenon DEF PaidInv
  <1> QED
    BY <1>8, <1>9, Zenon

LEMMA GrantedPays == ASSUME RateInv, PaidInv, NEW s \in Senders, Granted(s) PROVE PaidInv'
  <1>1. /\ pc[s] = "wait" /\ GoOn(s, remaining[s]) /\ UNCHANGED <<limiter, tx>>
        /\ paid' = [paid EXCEPT ![s][stage[s]] = @ + claim[s]]
        /\ claim' = [claim EXCEPT ![s] = 0]
    BY Zenon DEF Granted, fixed, load
  <1>2. /\ claim \in [Senders -> Nat] /\ remaining[s] \in Nat
        /\ stage[s] \in Metric /\ limiter[stage[s]].period \in Nat
    BY <1>1, RateFacts, Zenon DEF Limited
  <1>3. Owed(s, stage[s]) = remaining[s] * limiter[stage[s]].period + claim[s]
    BY <1>1, Zenon DEF Owed
  <1>4. remaining[s] * limiter[stage[s]].period \in Nat /\ claim[s] \in Nat
    BY <1>2
  <1>5. claim[s] + remaining[s] * limiter[stage[s]].period = Owed(s, stage[s])
    BY ONLY <1>3, <1>4
  <1>6. \A u \in Senders : u # s => claim'[u] = claim[u]
    BY <1>1, <1>2, Zenon
  <1> QED
    BY <1>1, <1>2, <1>4, <1>5, <1>6, ReleasePays, ZenonT(30)

\* A sender that returns has nothing to pay any more.
LEMMA ReturnPays ==
    ASSUME RateInv, PaidInv, NEW s \in Senders, NEW to \in {"idle", "failed"},
           pc' = [pc EXCEPT ![s] = to], UNCHANGED <<limiter, ask, tx, paid>>
    PROVE  PaidInv'
  <1>1. pc'[s] = to /\ \A u \in Senders : u # s => pc'[u] = pc[u]
    BY RateFacts, Zenon
  <1>2. Covered(s)'
    BY <1>1, Zenon DEF Covered
  <1> QED
    BY <1>1, <1>2, OthersCovered, Zenon DEF ask, PaidInv

LEMMA PaidStill == ASSUME PaidInv, UNCHANGED <<limiter, pc, ask, tx, paid>> PROVE PaidInv'
  <1>1. \A s \in Senders : Covered(s)' = Covered(s)
    <2> SUFFICES ASSUME NEW s \in Senders PROVE Covered(s)' = Covered(s)
      BY Zenon
    <2>1. \A m : Owed(s, m)' = Owed(s, m) /\ Price(tx[s], m)' = Price(tx[s], m)
      BY Zenon DEF Owed, Price, ask
    <2>2. Limited' = Limited
      BY Zenon DEF Limited
    <2> QED
      BY <2>1, <2>2 DEF Covered
  <1> QED
    BY <1>1, Zenon DEF PaidInv

LEMMA PaidNext == RateInv /\ PaidInv /\ [Next]_vars => PaidInv'
  <1> SUFFICES ASSUME RateInv, PaidInv, [Next]_vars PROVE PaidInv'
    BY Zenon
  <1>1. CASE Tick \/ Interrupt \/ Finished \/ UNCHANGED vars
    BY <1>1, PaidStill, Zenon DEF Tick, Interrupt, Finished, vars, fixed, load
  <1>2. ASSUME NEW s \in Senders, Sender(s) PROVE PaidInv'
    <2>1. CASE TakeTx(s)
      <3>1. PICK t \in Txs : Start(s, t)
        BY <2>1, Zenon DEF TakeTx
      <3> QED
        BY <2>1, <3>1, StartPays, RateLimitAssumption, Zenon DEF TakeTx, fixed
    <2>2. CASE ReplayTx(s)
      <3>0. PICK t \in Txs : \E f \in FuzzTransaction(NewGasFuzzer(config.fuzz), t, txCounter) :
                Start(s, f.tx)
        BY <2>2, Zenon DEF ReplayTx
      <3>1. PICK f \in FuzzTransaction(NewGasFuzzer(config.fuzz), t, txCounter) : Start(s, f.tx)
        BY <3>0, Zenon
      <3>2. t \in Tx /\ config \in Config
        BY RateLimitAssumption, RateFacts, Zenon
      <3>3. f.tx \in Tx
        BY <3>2, FuzzType, ZenonT(30)
      <3> QED
        BY <2>2, <3>1, <3>3, StartPays, Zenon DEF ReplayTx, fixed
    <2>3. CASE Fallback(s)
      BY <2>3, StartPays, RateFacts, Zenon DEF Fallback, fixed
    <2>4. CASE WaitCancelled(s) \/ BroadcastReturns(s) \/ BroadcastFails(s)
      <3>1. /\ UNCHANGED <<limiter, ask, tx, paid>>
            /\ \E to \in {"idle", "failed"} : pc' = [pc EXCEPT ![s] = to]
        BY <2>4, Zenon DEF WaitCancelled, BroadcastReturns, BroadcastFails, Fail, fixed, load
      <3> QED
        BY <3>1, ReturnPays, ZenonT(30)
    <2> QED
      BY <1>2, <2>1, <2>2, <2>3, <2>4, ReservePays, GrantedPays, Zenon DEF Sender
  <1> QED
    BY <1>1, <1>2, Zenon DEF Next

LEMMA PaidInit == Init => PaidInv
  BY DEF Init, PaidInv, Covered

\* However its chunks are interleaved with those of others, what reaches
\* Client.Broadcast was released exactly the tokens it costs, at every limiter.
THEOREM PaidInFullCorrect == Spec => []PaidInFull
  <1>1. RateInv /\ PaidInv => PaidInFull
    <2> SUFFICES ASSUME RateInv, PaidInv, NEW s \in Senders, pc[s] = "send", NEW m \in Limited
                 PROVE  paid[s][m] = Demand(tx[s], m) * limiter[m].period
      BY Zenon DEF PaidInFull
    <2>1. paid[s][m] + Owed(s, m) = Price(tx[s], m) /\ Owed(s, m) = 0 /\ paid[s][m] \in Nat
      BY Zenon DEF PaidInv, Covered, Owed, Limited
    <2> QED
      BY <2>1 DEF Price
  <1> QED
    BY <1>1, InitRateInv, Inductive, PaidInit, PaidNext, PTL DEF Spec

\* WaitN never refuses a chunk for being larger than the burst.
THEOREM NeverRefused == Spec => [](\A s \in Senders : pc[s] # "refused")
  <1>1. PaidInv => \A s \in Senders : pc[s] # "refused"
    BY Zenon DEF PaidInv, Covered
  <1> QED
    BY <1>1, InitRateInv, Inductive, PaidInit, PaidNext, PTL DEF Spec
-----------------------------------------------------------------------------
(* The shared limiters do what Throttle promises: a reservation that is    *)
(* good is a release, a reservation that is not is no step at all.         *)

Levels == [m \in Metric |-> Level(m)]

LEMMA QuietStep ==
    ASSUME UNCHANGED <<limiter, now, tokens, reserved, released, mark>>
    PROVE  UNCHANGED Promise!vars
  BY Zenon DEF Promise!vars, Level, Capacity

\* An amount that the bucket holds leaves it at once.
LEMMA ReleaseStep ==
    ASSUME NEW m \in Limited, NEW amount \in Nat, amount > 0,
           Level(m) \in Int, amount <= Level(m), Level(m)' = Level(m) - amount,
           \A k \in Metric : k # m => Level(k)' = Level(k),
           released' = [released EXCEPT ![m] = @ + amount],
           UNCHANGED <<limiter, now, mark>>
    PROVE  Promise!Next
  <1>1. m \in Promise!Limited /\ m \in Metric
    BY Zenon DEF Limited, Promise!Limited
  <1>2. amount \in 1..Levels[m]
    BY <1>1 DEF Levels
  <1>3. Levels' = [Levels EXCEPT ![m] = @ - amount]
    BY <1>1, ZenonT(30) DEF Levels
  <1>4. Promise!Release(m, amount)
    BY <1>3, Zenon DEF Promise!Release, Levels
  <1> QED
    BY <1>1, <1>2, <1>4, Zenon DEF Promise!Next, Levels

LEMMA TakesStep ==
    ASSUME RateInv, NEW s \in Senders, pc[s] = "reserve", ~ctxDone, Takes(s) PROVE Promise!Next
  <1>0. PICK m \in Metric : m = stage[s]
    BY ChunkCost, Zenon
  <1>1. m \in Limited /\ Cost(s) \in Nat /\ Cost(s) > 0
    BY <1>0, ChunkCost, RateFacts, Zenon DEF Cost
  <1>2. /\ tokens[m] \in Int /\ reserved[m] \in Nat /\ released[m] \in Nat
        /\ Capacity(m) \in Nat /\ tokens[m] <= Capacity(m) /\ tokens[m] >= Cost(s)
    BY <1>0, BucketTypes, Zenon DEF Takes
  <1>3. tokens[m] > 0
    BY ONLY <1>1, <1>2, SMT
  <1>4. reserved[m] = released[m]
    BY <1>1, <1>3, NobodyWaits, Zenon
  <1>5. Level(m) = tokens[m]
    BY ONLY <1>2, <1>4, SMTT(30) DEF Level
  <1>6. Capacity(m)' = Capacity(m) /\ \A k \in Metric : k # m => Level(k)' = Level(k)
    BY <1>0, RateFacts, Zenon DEF Takes, fixed, Capacity, Level
  <1>7. /\ tokens'[m] = tokens[m] - Cost(s) /\ reserved'[m] = reserved[m] + Cost(s)
        /\ released'[m] = released[m] + Cost(s)
    BY <1>0, RateFacts, Zenon DEF Takes
  <1>8. Level(m)' = Level(m) - Cost(s)
    <2> DEFINE held == tokens'[m] + (reserved'[m] - released'[m])
    <2>1. held = tokens[m] - Cost(s) /\ held < Capacity(m)
      BY ONLY <1>1, <1>2, <1>4, <1>7, SMTT(30)
    <2>2. Level(m)' = IF held < Capacity(m)' THEN held ELSE Capacity(m)'
      BY Zenon DEF Level
    <2> HIDE DEF held
    <2> QED
      BY ONLY <1>5, <1>6, <2>1, <2>2, ZenonT(30)
  <1>9. Level(m) \in Int /\ Cost(s) <= Level(m)
    BY ONLY <1>1, <1>2, <1>5, SMT
  <1> QED
    BY <1>0, <1>1, <1>6, <1>8, <1>9, ReleaseStep, ZenonT(30) DEF Takes, fixed, clock

LEMMA QueuesStep ==
    ASSUME RateInv, NEW s \in Senders, pc[s] = "reserve", Queues(s) PROVE UNCHANGED Promise!vars
  <1> DEFINE m == stage[s]
  <1>1. m \in Metric /\ Cost(s) \in Nat
    BY ChunkCost, Zenon DEF Cost
  <1>2. \A k \in Metric : Capacity(k)' = Capacity(k)
    BY Zenon DEF Queues, fixed, Capacity
  <1>3. ASSUME NEW k \in Metric PROVE Level(k)' = Level(k)
    <2>1. tokens[k] \in Int /\ reserved[k] \in Nat /\ released[k] \in Nat
      BY BucketTypes, Zenon
    <2>2. released' = released
      BY Zenon DEF Queues
    <2>3. tokens'[k] + (reserved'[k] - released'[k]) = tokens[k] + (reserved[k] - released[k])
      <3>1. CASE k = m
        <4>1. tokens'[k] = tokens[k] - Cost(s) /\ reserved'[k] = reserved[k] + Cost(s)
          BY <1>1, <3>1, RateFacts, Zenon DEF Queues
        <4> QED
          BY ONLY <1>1, <2>1, <2>2, <4>1, SMT
      <3>2. CASE k # m
        BY <2>2, <3>2, RateFacts, Zenon DEF Queues
      <3> QED
        BY <3>1, <3>2, Zenon
    <2> QED
      BY <1>2, <2>3, Zenon DEF Level
  <1> QED
    BY <1>3, Zenon DEF Queues, fixed, clock, Promise!vars

LEMMA GrantedStep == ASSUME RateInv, NEW s \in Senders, Granted(s) PROVE Promise!Next
  <1>0. PICK m \in Metric : m = stage[s]
    BY RateFacts, Zenon DEF Granted, Limited
  <1>1. /\ pc[s] = "wait" /\ ~ctxDone /\ now >= due[s] /\ m \in Limited
        /\ WaitsAt(s, m)
    BY <1>0, RateFacts, Zenon DEF Granted, Limited, WaitsAt
  <1>2. /\ tokens[m] \in Int /\ reserved[m] \in Nat /\ released[m] \in Nat
        /\ Capacity(m) \in Nat
    BY <1>1, BucketTypes, Zenon
  <1>3. claim[s] \in Nat /\ claim[s] > 0 /\ claim[s] <= Capacity(m)
    BY <1>1, RateFacts, Zenon DEF DebtInv
  <1>4. tokens[m] + (reserved[m] - released[m]) = claim[s]
    BY <1>1, Oldest, Zenon
  <1>5. Level(m) = claim[s]
    BY ONLY <1>2, <1>3, <1>4, SMTT(30) DEF Level
  <1>6. Capacity(m)' = Capacity(m) /\ \A k \in Metric : k # m => Level(k)' = Level(k)
    BY <1>0, RateFacts, Zenon DEF Granted, fixed, Capacity, Level
  <1>7. /\ tokens'[m] = tokens[m] /\ reserved'[m] = reserved[m]
        /\ released'[m] = released[m] + claim[s]
    BY <1>0, RateFacts, Zenon DEF Granted
  <1>8. Level(m)' = Level(m) - claim[s]
    <2> DEFINE held == tokens'[m] + (reserved'[m] - released'[m])
    <2>0. held = tokens[m] + (reserved[m] - (released[m] + claim[s]))
      BY ONLY <1>7, Zenon
    <2>1. held = 0 /\ held < Capacity(m) /\ claim[s] - claim[s] = 0
      <3> HIDE DEF held
      <3> QED
        BY ONLY <1>2, <1>3, <1>4, <2>0, SMTT(30)
    <2>2. Level(m)' = IF held < Capacity(m)' THEN held ELSE Capacity(m)'
      BY Zenon DEF Level
    <2> HIDE DEF held
    <2> QED
      BY ONLY <1>5, <1>6, <2>1, <2>2, ZenonT(30)
  <1>9. Level(m) \in Int /\ claim[s] <= Level(m)
    BY ONLY <1>3, <1>5, SMT
  <1> QED
    BY <1>0, <1>1, <1>3, <1>6, <1>8, <1>9, ReleaseStep, Zenon DEF Granted, fixed, clock

LEMMA TickStep == ASSUME RateInv, Tick PROVE Promise!Next
  <1>1. ASSUME NEW m \in Metric
        PROVE  Level(m)' = IF Level(m) < Capacity(m) THEN Level(m) + 1 ELSE Capacity(m)
    <2>1. /\ tokens[m] \in Int /\ reserved[m] \in Nat /\ released[m] \in Nat
          /\ Capacity(m) \in Nat /\ tokens[m] <= Capacity(m) /\ released[m] <= reserved[m]
      BY BucketTypes, Zenon
    <2>2. /\ reserved' = reserved /\ released' = released /\ Capacity(m)' = Capacity(m)
          /\ tokens'[m] = IF tokens[m] < Capacity(m) THEN tokens[m] + 1 ELSE Capacity(m)
      BY ZenonT(30) DEF Tick, fixed, Capacity
    <2> DEFINE held == tokens[m] + (reserved[m] - released[m])
               heldp == tokens'[m] + (reserved[m] - released[m])
    <2>3. Level(m)' = IF heldp < Capacity(m) THEN heldp ELSE Capacity(m)
      BY <2>2, Zenon DEF Level
    <2>4. Level(m) = IF held < Capacity(m) THEN held ELSE Capacity(m)
      BY Zenon DEF Level
    <2> QED
      BY ONLY <2>1, <2>2, <2>3, <2>4, SMT
  <1>2. \A m \in Metric : Promise!Capacity(m) = Capacity(m)
    BY Zenon DEF Promise!Capacity, Capacity
  <1>3. Promise!Tick
    BY <1>1, <1>2, Zenon DEF Promise!Tick, Tick, fixed
  <1> QED
    BY <1>3, Zenon DEF Promise!Next

LEMMA Step == RateInv /\ [Next]_vars => [Promise!Next]_(Promise!vars)
  <1> SUFFICES ASSUME RateInv, [Next]_vars PROVE Promise!Next \/ UNCHANGED Promise!vars
    BY Zenon
  <1>1. CASE Tick
    BY <1>1, TickStep, Zenon
  <1>2. CASE Interrupt \/ Finished \/ UNCHANGED vars
    BY <1>2, QuietStep, Zenon DEF Interrupt, Finished, vars, fixed, clock, bucket
  <1>3. ASSUME NEW s \in Senders, Sender(s) PROVE Promise!Next \/ UNCHANGED Promise!vars
    <2>1. CASE Reserve(s)
      <3>1. pc[s] = "reserve" /\ ~ctxDone
        BY <2>1, Zenon DEF Reserve
      <3> QED
        BY <2>1, <3>1, ReserveCases, TakesStep, QueuesStep, Zenon
    <2>2. CASE Granted(s)
      BY <2>2, GrantedStep, Zenon
    <2>3. CASE TakeTx(s) \/ ReplayTx(s) \/ Fallback(s)
      BY <2>3, QuietStep, ZenonT(30) DEF TakeTx, ReplayTx, Fallback, fixed, clock, bucket
    <2>4. CASE WaitCancelled(s) \/ BroadcastReturns(s) \/ BroadcastFails(s)
      BY <2>4, QuietStep, Zenon DEF WaitCancelled, BroadcastReturns, BroadcastFails,
         fixed, clock, bucket
    <2> QED
      BY <1>3, <2>1, <2>2, <2>3, <2>4, Zenon DEF Sender
  <1> QED
    BY <1>1, <1>2, <1>3, Zenon DEF Next

LEMMA InitStep == Init => Promise!Init
  <1> SUFFICES ASSUME Init PROVE Promise!Init
    BY Zenon
  <1>1. RateInv
    BY InitRateInv, Zenon
  <1>2. ASSUME NEW m \in Metric PROVE Level(m) = Promise!Capacity(m)
    <2>1. Capacity(m) \in Nat
      BY <1>1, BucketTypes, Zenon
    <2>2. tokens[m] = Capacity(m) /\ reserved[m] = 0 /\ released[m] = 0
      BY Zenon DEF Init
    <2>3. Level(m) = Capacity(m)
      BY ONLY <2>1, <2>2, SMT DEF Level
    <2> QED
      BY <2>3, Zenon DEF Capacity, Promise!Capacity
  <1>3. limiter \in [Metric -> [period : Nat, burst : Nat]]
    BY <1>1, RateFacts, Zenon
  <1> QED
    BY <1>2, <1>3, Zenon DEF Init, Promise!Init

\* The limiters with all the senders that share them, their chunks, waits and
\* cancellations, do no more than Throttle allows.
THEOREM RefinesThrottle == Spec => ImplementsThrottle
  BY RateInvariant, InitStep, Step, PTL DEF Spec, ImplementsThrottle, Promise!Spec

-----------------------------------------------------------------------------
(* The promise of a rate limit: the spans of time add up. All of this rests *)
(* on the steps of Throttle alone, not on those of the senders.            *)

\* What was released since a tick began and what is left in the bucket never
\* come to more than the capacity and the ticks since.
SpanInv ==
    /\ limiter \in [Metric -> [period : Nat, burst : Nat]]
    /\ now \in Nat
    /\ Levels \in [Metric -> Nat]
    /\ released \in [Metric -> Nat]
    /\ mark \in [Metric -> Seq(Nat)]
    /\ \A m \in Metric :
          /\ Levels[m] <= Capacity(m)
          /\ Len(mark[m]) = now + 1
          /\ \A s \in 0..now :
                released[m] - mark[m][s + 1] + Levels[m] <= Capacity(m) + (now - s)

\* An element of a sequence is one still after another was appended.
LEMMA Element ==
    ASSUME NEW q \in Seq(Nat), NEW n \in Nat, Len(q) = n + 1, NEW s \in 0..n, NEW r \in Nat
    PROVE  q[s + 1] \in Nat /\ Append(q, r)[s + 1] = q[s + 1]
  <1>1. s + 1 \in 1..Len(q)
    OBVIOUS
  <1> QED
    BY <1>1

\* What the arithmetic of a span needs of its terms.
LEMMA Terms ==
    ASSUME SpanInv, NEW m \in Metric, NEW s \in 0..now
    PROVE  /\ Capacity(m) \in Nat /\ Levels[m] \in Nat /\ released[m] \in Nat
           /\ mark[m][s + 1] \in Nat /\ now \in Nat /\ s \in Nat
           /\ released[m] - mark[m][s + 1] + Levels[m] <= Capacity(m) + (now - s)
  <1>1. mark[m] \in Seq(Nat) /\ Len(mark[m]) = now + 1 /\ now \in Nat
    BY DEF SpanInv
  <1>2. mark[m][s + 1] \in Nat
    BY ONLY <1>1, Element
  <1> QED
    BY <1>2, CapacityNat DEF SpanInv

\* The capacities of the abstract limit are those of the limiters.
LEMMA SameCapacity == \A m : Promise!Capacity(m) = Capacity(m)
  BY Zenon DEF Promise!Capacity, Capacity

LEMMA SpanInit == Promise!Init => SpanInv
  <1> SUFFICES ASSUME Promise!Init PROVE SpanInv
    BY Zenon
  <1>0. /\ limiter \in [Metric -> [period : Nat, burst : Nat]]
        /\ now = 0
        /\ released = [m \in Metric |-> 0]
        /\ mark = [m \in Metric |-> <<0>>]
    BY Zenon DEF Promise!Init
  <1>1. \A m \in Metric : Capacity(m) \in Nat
    BY <1>0, CapacityNat
  <1>2. Levels = [m \in Metric |-> Promise!Capacity(m)]
    BY Zenon DEF Promise!Init, Levels
  <1>3. Levels = [m \in Metric |-> Capacity(m)]
    BY <1>2, SameCapacity, Zenon
  <1>4. Levels \in [Metric -> Nat]
    BY <1>1, <1>3
  <1>5. mark \in [Metric -> Seq(Nat)] /\ released \in [Metric -> Nat]
    BY <1>0
  <1>6. ASSUME NEW m \in Metric
        PROVE  /\ Levels[m] <= Capacity(m)
               /\ Len(mark[m]) = now + 1
               /\ \A s \in 0..now :
                     released[m] - mark[m][s + 1] + Levels[m] <= Capacity(m) + (now - s)
    <2>1. Levels[m] = Capacity(m) /\ released[m] = 0 /\ mark[m] = <<0>>
      BY <1>0, <1>3
    <2>2. \A s \in 0..now : s = 0
      BY <1>0
    <2> QED
      BY <1>0, <1>1, <2>1, <2>2
  <1> QED
    BY <1>0, <1>4, <1>5, <1>6 DEF SpanInv

LEMMA SpanRelease ==
    ASSUME SpanInv, NEW m \in Limited, NEW amount \in 1..Levels[m], Promise!Release(m, amount)
    PROVE  SpanInv'
  <1> USE DEF SpanInv
  <1>0. m \in Metric
    BY DEF Limited
  <1>r. /\ Levels' = [Levels EXCEPT ![m] = @ - amount]
        /\ released' = [released EXCEPT ![m] = @ + amount]
        /\ limiter' = limiter /\ now' = now /\ mark' = mark
    BY Zenon DEF Promise!Release, Levels
  <1>1. \A k \in Metric : Capacity(k) \in Nat /\ Capacity(k)' = Capacity(k)
    BY <1>r, CapacityNat DEF Capacity
  <1>2. amount \in Nat /\ Levels[m] - amount \in Nat
    BY <1>0
  <1>4. Levels' \in [Metric -> Nat] /\ released' \in [Metric -> Nat]
    BY <1>0, <1>2, <1>r
  <1>5. \A k \in Metric : /\ Levels'[k] + released'[k] = Levels[k] + released[k]
                          /\ Levels'[k] <= Levels[k]
    <2> SUFFICES ASSUME NEW k \in Metric
                 PROVE  Levels'[k] + released'[k] = Levels[k] + released[k] /\ Levels'[k] <= Levels[k]
      OBVIOUS
    <2>1. Levels[k] \in Nat /\ released[k] \in Nat
      OBVIOUS
    <2>2. CASE k = m
      <3>1. Levels'[k] = Levels[k] - amount /\ released'[k] = released[k] + amount
        BY <1>r, <2>2
      <3> QED
        BY ONLY <1>2, <2>1, <3>1, SMT
    <2>3. CASE k # m
      <3>1. Levels'[k] = Levels[k] /\ released'[k] = released[k]
        BY <1>r, <2>3
      <3> QED
        BY ONLY <2>1, <3>1, SMT
    <2> QED
      BY <2>2, <2>3
  <1>6. ASSUME NEW k \in Metric
        PROVE  /\ Levels'[k] <= Capacity(k)'
               /\ Len(mark'[k]) = now' + 1
               /\ \A s \in 0..now' :
                     released'[k] - mark'[k][s + 1] + Levels'[k] <= Capacity(k)' + (now' - s)
    <2>1. Levels'[k] <= Capacity(k)
      BY <1>1, <1>4, <1>5
    <2>2. ASSUME NEW s \in 0..now
          PROVE  released'[k] - mark[k][s + 1] + Levels'[k] <= Capacity(k) + (now - s)
      <3>1. released'[k] \in Nat /\ Levels'[k] \in Nat
        BY <1>4
      <3>2. Levels'[k] + released'[k] = Levels[k] + released[k]
        BY <1>5
      <3> HIDE DEF SpanInv
      <3> QED
        BY ONLY <3>1, <3>2, SpanInv, Terms, SMT
    <2> QED
      BY <1>1, <1>r, <2>1, <2>2
  <1> QED
    BY <1>r, <1>4, <1>6

LEMMA SpanTick == ASSUME SpanInv, Promise!Tick PROVE SpanInv'
  <1> USE DEF SpanInv
  <1>a. /\ now' = now + 1
        /\ mark' = [k \in Metric |-> Append(mark[k], released[k])]
        /\ limiter' = limiter /\ released' = released
    BY Zenon DEF Promise!Tick
  <1>b. Levels' = [k \in Metric |-> IF Levels[k] < Promise!Capacity(k) THEN Levels[k] + 1
                                                                      ELSE Promise!Capacity(k)]
    BY Zenon DEF Promise!Tick, Levels
  <1>c. \A k \in Metric : Levels'[k] = IF Levels[k] < Capacity(k) THEN Levels[k] + 1
                                                                 ELSE Capacity(k)
    BY <1>b, SameCapacity, Zenon
  <1>d. DOMAIN Levels' = Metric /\ Levels' = [k \in Metric |-> Levels'[k]]
    BY <1>b, Zenon
  <1>1. \A k \in Metric : Capacity(k) \in Nat /\ Capacity(k)' = Capacity(k)
    BY <1>a, CapacityNat DEF Capacity
  <1>3. \A k \in Metric : Levels'[k] \in Nat /\ Levels'[k] <= Capacity(k) /\ Levels'[k] <= Levels[k] + 1
    BY <1>1, <1>c
  <1>4. Levels' \in [Metric -> Nat]
    BY <1>3, <1>d, Zenon
  <1>5. \A k \in Metric : mark'[k] = Append(mark[k], released[k])
    BY <1>a
  <1>6. mark' \in [Metric -> Seq(Nat)]
    BY <1>a, <1>5
  <1>7. ASSUME NEW k \in Metric
        PROVE  /\ Levels'[k] <= Capacity(k)'
               /\ Len(mark'[k]) = now' + 1
               /\ \A s \in 0..now' :
                     released'[k] - mark'[k][s + 1] + Levels'[k] <= Capacity(k)' + (now' - s)
    <2>1. Len(mark'[k]) = now + 2
      BY <1>5
    <2>2. ASSUME NEW s \in 0..now
          PROVE  released[k] - mark'[k][s + 1] + Levels'[k] <= Capacity(k) + (now + 1 - s)
      <3>1. mark[k] \in Seq(Nat) /\ Len(mark[k]) = now + 1 /\ now \in Nat /\ released[k] \in Nat
        OBVIOUS
      <3>2. mark'[k][s + 1] = mark[k][s + 1]
        BY ONLY <1>5, <3>1, Element
      <3>3. Levels'[k] \in Nat /\ Levels'[k] <= Levels[k] + 1
        BY <1>3
      <3> HIDE DEF SpanInv
      <3> QED
        BY ONLY <3>2, <3>3, SpanInv, Terms, SMT
    <2>3. released[k] - mark'[k][now + 2] + Levels'[k] <= Capacity(k)
      BY <1>1, <1>3, <1>5
    <2>4. \A s \in 0..(now + 1) : s \in 0..now \/ s = now + 1
      OBVIOUS
    <2>5. Capacity(k) + (now + 1 - (now + 1)) = Capacity(k) /\ (now + 1) + 1 = now + 2
      BY <1>1
    <2>6. ASSUME NEW s \in 0..(now + 1)
          PROVE  released[k] - mark'[k][s + 1] + Levels'[k] <= Capacity(k) + (now + 1 - s)
      BY <2>2, <2>3, <2>4, <2>5
    <2>7. now + 2 = (now + 1) + 1
      OBVIOUS
    <2> HIDE DEF SpanInv
    <2>8. now' = now + 1 /\ released'[k] = released[k] /\ Capacity(k)' = Capacity(k)
      BY <1>1, <1>a, Zenon
    <2>9. Len(mark'[k]) = now' + 1
      BY <2>1, <2>7, <2>8, Zenon
    <2>10. Levels'[k] <= Capacity(k)'
      BY <1>3, <2>8, Zenon
    <2>11. ASSUME NEW s \in 0..now'
           PROVE  released'[k] - mark'[k][s + 1] + Levels'[k] <= Capacity(k)' + (now' - s)
      <3>1. s \in 0..(now + 1)
        BY <2>8, Zenon
      <3>2. released[k] - mark'[k][s + 1] + Levels'[k] <= Capacity(k) + (now + 1 - s)
        BY <2>6, <3>1, Zenon
      <3>3. now \in Nat /\ released[k] \in Nat /\ mark'[k] \in Seq(Nat)
        BY <1>6, Zenon DEF SpanInv
      <3>4. mark'[k][s + 1] \in Nat
        BY ONLY <2>1, <3>1, <3>3
      <3>5. Capacity(k) \in Nat /\ Levels'[k] \in Nat
        BY <1>1, <1>3, Zenon
      <3> QED
        BY ONLY <2>8, <3>1, <3>2, <3>3, <3>4, <3>5
    <2> QED
      BY <2>9, <2>10, <2>11, Zenon
  <1> QED
    BY <1>a, <1>4, <1>6, <1>7

LEMMA SpanStep == SpanInv /\ [Promise!Next]_(Promise!vars) => SpanInv'
  <1> SUFFICES ASSUME SpanInv, Promise!Next \/ UNCHANGED Promise!vars PROVE SpanInv'
    BY Zenon
  <1>1. CASE Promise!Tick
    BY <1>1, SpanTick, Zenon
  <1>2. ASSUME NEW m \in Promise!Limited, NEW amount \in 1..Levels[m], Promise!Release(m, amount)
        PROVE  SpanInv'
    <2>1. m \in Limited
      BY Zenon DEF Limited, Promise!Limited
    <2> QED
      BY <1>2, <2>1, SpanRelease, Zenon
  <1>3. CASE UNCHANGED Promise!vars
    <2>1. Levels' = Levels /\ limiter' = limiter /\ now' = now /\ released' = released /\ mark' = mark
      BY <1>3, Zenon DEF Promise!vars, Levels
    <2>2. \A m : Capacity(m)' = Capacity(m)
      BY <2>1, Zenon DEF Capacity
    <2> QED
      BY <2>1, <2>2, Zenon DEF SpanInv
  <1> QED
    BY <1>1, <1>2, <1>3, Zenon DEF Promise!Next, Levels

\* A bucket that releases only what it holds stays within its rate in every
\* span of time (bucket.go:126-179), for every number of metrics, rate and burst:
\* whatever does no more than Throttle allows keeps to the window.
THEOREM ThrottleWindow == Promise!Spec => []WindowBound
  <1>1. SpanInv => WindowBound
    <2> SUFFICES ASSUME SpanInv, NEW m \in Limited, NEW s \in 0..now
                 PROVE  released[m] - mark[m][s + 1] <= Capacity(m) + (now - s)
      BY DEF WindowBound
    <2>1. m \in Metric
      BY DEF Limited
    <2> QED
      BY ONLY <2>1, SpanInv, Terms, SMT
  <1> QED
    BY SpanInit, SpanStep, <1>1, PTL DEF Promise!Spec

\* So every span of time keeps to the configured rate, for every number of
\* senders, every configuration and every sequence of transactions.
THEOREM RateWindow == Spec => []WindowBound
  BY RefinesThrottle, ThrottleWindow, PTL DEF ImplementsThrottle
=============================================================================
