----------------------------- MODULE RateLimit -----------------------------
(***************************************************************************)
(* The rate limiter (src/pkg/ratelimit/) under the goroutines that share   *)
(* it: the account goroutines of Stress, or StressReplay with its fuzzer   *)
(* and its fallback, which send everything through the broadcast function  *)
(* of buildBroadcastClient (src/stresser.go:744-768).                      *)
(*                                                                         *)
(* Time is in ticks, and so are tokens: each is worth the ticks it takes   *)
(* to come, so that a limiter gains one every tick. Timers fire when they  *)
(* are due: time passes only once those who are due have gone on.          *)
(***************************************************************************)
EXTENDS Integers, Sequences, GasFuzzer

CONSTANTS
    Senders,    \* the goroutines that broadcast
    Replayer,   \* the one of them that StressReplay is
    Ticks,      \* ticks in a second
    MaxInt,     \* the largest int
    Configs,    \* StressConfig, as far as it matters here
    Txs,        \* transactions: bytes, gas, and whether they decode
    MaxSends,   \* bound: transactions taken up
    Horizon     \* bound: until when time passes with nobody waiting

Metric == {"tps", "bytes", "gas"}

\* period[m]: ticks for a token of the configured rate, 0 where that is 0.
Config == [period : [Metric -> Nat], burst : Int, replay : BOOLEAN,
           fuzz : [enabled : BOOLEAN, strategy : {"", "random", "boundary"},
                   min : Nat, max : Nat, percent : Int]]

Tx == [bytes : Nat, gas : Nat, decodes : BOOLEAN]

ASSUME RateLimitAssumption ==
    /\ Replayer \in Senders
    /\ Ticks \in Nat \ {0}
    /\ MaxInt \in Nat \ {0}
    /\ Configs \subseteq Config
    /\ Txs \subseteq Tx
    /\ MaxSends \in Nat
    /\ Horizon \in Nat

VARIABLES
    config,
    limiter,    \* the MultiLimiter's limiters: period (0: nil) and burst
    now,
    tokens,     \* of each limiter; negative when reserved ahead
    pc,         \* where each sender is
    stage,      \* the limiter it is at
    tx,         \* what it is sending
    original,   \* what that was before it was fuzzed
    remaining,  \* tokens it has still to ask for
    claim,      \* what its reservation is for, in ticks
    due,        \* when its reservation is good
    upto,       \* what was reserved up to and with it (history)
    txCounter,  \* of the fuzzer
    ctxDone,
    reserved,   \* of each limiter, in all (history)
    released,   \* the part of that which is good (history)
    mark,       \* released at the beginning of each tick (history)
    paid,       \* what each sender got released for what it is sending (history)
    sends       \* counts the transactions taken up

ask    == <<stage, remaining, claim, due, upto>>
load   == <<tx, original, txCounter>>
bucket == <<tokens, reserved, released>>
clock  == <<now, mark>>
fixed  == <<config, limiter>>
vars   == <<fixed, clock, bucket, pc, ask, load, ctxDone, paid, sends>>

-----------------------------------------------------------------------------
(* config.go                                                               *)

\* The configured rate, per second, rounded up: only that of transactions may
\* be a fraction.
PerSecond(c, m) == (Ticks + c.period[m] - 1) \div c.period[m]

IsEnabled(c) == \E m \in Metric : c.period[m] > 0

AtLeastOne(n) == IF n < 1 THEN 1 ELSE n
Saturated(n)  == IF n > MaxInt THEN MaxInt ELSE n

GetTpsBurstSize(c) ==
    IF c.burst > 0 THEN c.burst ELSE AtLeastOne(PerSecond(c, "tps"))

GetBytesBurstSize(c) ==
    IF c.burst > 0 THEN c.burst ELSE Saturated(AtLeastOne(PerSecond(c, "bytes")))

GetGasBurstSize(c) ==
    IF c.burst > 0 THEN c.burst ELSE Saturated(AtLeastOne(PerSecond(c, "gas")))

BurstSize(c, m) ==
    CASE m = "tps"   -> GetTpsBurstSize(c)
      [] m = "bytes" -> GetBytesBurstSize(c)
      [] m = "gas"   -> GetGasBurstSize(c)

NewLimiter(c, m) == [period |-> c.period[m], burst |-> BurstSize(c, m)]

Unlimited == [period |-> 0, burst |-> 0]

\* A limiter for every rate that is set. One burst size serves all three.
NewMultiLimiter(c) ==
    [m \in Metric |-> IF c.period[m] > 0 THEN NewLimiter(c, m) ELSE Unlimited]

\* None at all if no rate is set.
buildBroadcastClient(c) ==
    IF IsEnabled(c) THEN NewMultiLimiter(c) ELSE [m \in Metric |-> Unlimited]

Limited     == {m \in Metric : limiter[m].period > 0}
Capacity(m) == limiter[m].burst * limiter[m].period

-----------------------------------------------------------------------------
(* bucket.go, gas.go                                                       *)

ExtractGasLimit(t) == IF t.decodes THEN t.gas ELSE 0

\* The tokens a transaction takes from each limiter.
Demand(t, m) ==
    CASE m = "tps"   -> 1
      [] m = "bytes" -> t.bytes
      [] m = "gas"   -> ExtractGasLimit(t)

\* The limiters of a transaction that come after a stage, in their order.
After(m) == CASE m = "begin" -> <<"tps", "bytes", "gas">>
              [] m = "tps"   -> <<"bytes", "gas">>
              [] m = "bytes" -> <<"gas">>
              [] m = "gas"   -> << >>

\* The next limiter that is there and has something to ask for.
NextStage(m, t) ==
    LET open == {k \in DOMAIN After(m) : After(m)[k] \in Limited /\ Demand(t, After(m)[k]) > 0}
    IN  IF open = {} THEN "send"
        ELSE After(m)[CHOOSE k \in open : \A l \in open : k <= l]

\* At the next limiter, or past the last one: Client.Broadcast is called.
Enter(s, m, t) ==
    /\ stage' = [stage EXCEPT ![s] = m]
    /\ IF m = "send"
       THEN /\ pc' = [pc EXCEPT ![s] = "send"]
            /\ remaining' = [remaining EXCEPT ![s] = 0]
       ELSE /\ pc' = [pc EXCEPT ![s] = "reserve"]
            /\ remaining' = [remaining EXCEPT ![s] = Demand(t, m)]

\* Faulty: the loop over the chunks ends after the first.
GoOnAfterOne(s, left) == Enter(s, NextStage(stage[s], tx[s]), tx[s])

\* A wait is over: the next chunk, or the next limiter.
GoOn(s, left) ==
    IF left > 0
    THEN /\ pc' = [pc EXCEPT ![s] = "reserve"]
         /\ remaining' = [remaining EXCEPT ![s] = left]
         /\ UNCHANGED stage
    ELSE Enter(s, NextStage(stage[s], tx[s]), tx[s])

\* The goroutine gives up; in Stress that cancels the context of all of them.
Fail(s) ==
    /\ pc' = [pc EXCEPT ![s] = "failed"]
    /\ ctxDone' = TRUE

\* Faulty: the whole amount at once.
WholeAmount(s) == IF stage[s] = "tps" THEN 1 ELSE remaining[s]

\* The chunk is at most the burst, so that WaitN never refuses it.
Chunk(s) ==
    LET burst == BurstSize(config, stage[s])
    IN  IF stage[s] = "tps" THEN 1
        ELSE IF remaining[s] < burst THEN remaining[s] ELSE burst

\* Faulty: the tokens are taken and the time until they come is not waited for.
TakeWithoutWaiting(s, n) ==
    LET cost == n * limiter[stage[s]].period
    IN  /\ tokens' = [tokens EXCEPT ![stage[s]] = @ - cost]
        /\ reserved' = [reserved EXCEPT ![stage[s]] = @ + cost]
        /\ released' = [released EXCEPT ![stage[s]] = @ + cost]
        /\ paid' = [paid EXCEPT ![s][stage[s]] = @ + cost]
        /\ GoOn(s, remaining[s] - n)
        /\ UNCHANGED <<claim, due, upto, ctxDone>>

\* limiter.Wait, and rate.Limiter.WaitN up to its timer: it refuses more than the burst, takes
\* the tokens, ahead of time if need be, and returns at once if they are there.
WaitN(s, n) ==
    LET m    == stage[s]
        cost == n * limiter[m].period
    IN  IF n > limiter[m].burst
        THEN /\ pc' = [pc EXCEPT ![s] = "refused"]
             /\ ctxDone' = (ctxDone \/ ~config.replay)
             /\ UNCHANGED <<bucket, ask, paid>>
        ELSE /\ tokens' = [tokens EXCEPT ![m] = @ - cost]
             /\ reserved' = [reserved EXCEPT ![m] = @ + cost]
             /\ IF tokens[m] >= cost
                THEN /\ released' = [released EXCEPT ![m] = @ + cost]
                     /\ paid' = [paid EXCEPT ![s][m] = @ + cost]
                     /\ GoOn(s, remaining[s] - n)
                     /\ UNCHANGED <<claim, due, upto>>
                ELSE /\ pc' = [pc EXCEPT ![s] = "wait"]
                     /\ remaining' = [remaining EXCEPT ![s] = @ - n]
                     /\ claim' = [claim EXCEPT ![s] = cost]
                     /\ due' = [due EXCEPT ![s] = now + cost - tokens[m]]
                     /\ upto' = [upto EXCEPT ![s] = reserved[m] + cost]
                     /\ UNCHANGED <<released, stage, paid>>
             /\ UNCHANGED ctxDone
-----------------------------------------------------------------------------
NoTx == [bytes |-> 0, gas |-> 0, decodes |-> FALSE]

Init ==
    /\ config \in Configs
    /\ limiter = buildBroadcastClient(config)
    /\ now = 0
    /\ tokens = [m \in Metric |-> Capacity(m)]
    /\ pc = [s \in Senders |-> "idle"]
    /\ stage = [s \in Senders |-> "send"]
    /\ tx = [s \in Senders |-> NoTx]
    /\ original = NoTx
    /\ remaining = [s \in Senders |-> 0]
    /\ claim = [s \in Senders |-> 0]
    /\ due = [s \in Senders |-> 0]
    /\ upto = [s \in Senders |-> 0]
    /\ txCounter = 0
    /\ ctxDone = FALSE
    /\ reserved = [m \in Metric |-> 0]
    /\ released = [m \in Metric |-> 0]
    /\ mark = [m \in Metric |-> <<0>>]
    /\ paid = [s \in Senders |-> [m \in Metric |-> 0]]
    /\ sends = 0

\* WaitForTransactionBytes begins.
Start(s, t) ==
    /\ tx' = [tx EXCEPT ![s] = t]
    /\ paid' = [paid EXCEPT ![s] = [m \in Metric |-> 0]]
    /\ Enter(s, NextStage("begin", t), t)
    /\ UNCHANGED <<claim, due, upto>>

\* An account goroutine takes up its next transaction, whatever the context.
TakeTx(s) ==
    /\ ~config.replay
    /\ pc[s] = "idle"
    /\ sends < MaxSends
    /\ sends' = sends + 1
    /\ \E t \in Txs : Start(s, t)
    /\ UNCHANGED <<fixed, clock, bucket, original, txCounter, ctxDone>>

\* StressReplay fuzzes the next transaction of the block.
ReplayTx(s) ==
    /\ config.replay
    /\ s = Replayer
    /\ pc[s] = "idle"
    /\ sends < MaxSends
    /\ sends' = sends + 1
    /\ \E t \in Txs :
          \E f \in FuzzTransaction(NewGasFuzzer(config.fuzz), t, txCounter) :
             /\ Start(s, f.tx)
             /\ original' = t
             /\ txCounter' = f.counter
    /\ UNCHANGED <<fixed, clock, bucket, ctxDone>>

Reserve(s) ==
    /\ pc[s] = "reserve"
    /\ ~ctxDone
    /\ WaitN(s, Chunk(s))
    /\ UNCHANGED <<fixed, clock, load, sends>>

\* Faulty: a wait ends before its time.
GrantedEarly(s) ==
    /\ pc[s] = "wait"
    /\ ~ctxDone
    /\ released' = [released EXCEPT ![stage[s]] = @ + claim[s]]
    /\ paid' = [paid EXCEPT ![s][stage[s]] = @ + claim[s]]
    /\ claim' = [claim EXCEPT ![s] = 0]
    /\ due' = [due EXCEPT ![s] = 0]
    /\ upto' = [upto EXCEPT ![s] = 0]
    /\ GoOn(s, remaining[s])
    /\ UNCHANGED <<fixed, clock, tokens, reserved, load, ctxDone, sends>>

\* The timer fires. One that fires as the context ends fired before it.
Granted(s) ==
    /\ pc[s] = "wait"
    /\ ~ctxDone
    /\ now >= due[s]
    /\ released' = [released EXCEPT ![stage[s]] = @ + claim[s]]
    /\ paid' = [paid EXCEPT ![s][stage[s]] = @ + claim[s]]
    /\ claim' = [claim EXCEPT ![s] = 0]
    /\ due' = [due EXCEPT ![s] = 0]
    /\ upto' = [upto EXCEPT ![s] = 0]
    /\ GoOn(s, remaining[s])
    /\ UNCHANGED <<fixed, clock, tokens, reserved, load, ctxDone, sends>>

\* The context ended: the error is returned, and what was taken is not given
\* back (what rate.Limiter restores of the last reservation nobody can take).
WaitCancelled(s) ==
    /\ pc[s] \in {"reserve", "wait"}
    /\ ctxDone
    /\ pc' = [pc EXCEPT ![s] = IF config.replay THEN "idle" ELSE "failed"]
    /\ UNCHANGED <<fixed, clock, bucket, ask, load, ctxDone, paid, sends>>

\* Client.Broadcast succeeded, or failed with an error after which the sender
\* goes on: a sequence error, and in StressReplay any error.
BroadcastReturns(s) ==
    /\ pc[s] = "send"
    /\ pc' = [pc EXCEPT ![s] = "idle"]
    /\ UNCHANGED <<fixed, clock, bucket, ask, load, ctxDone, paid, sends>>

BroadcastFails(s) ==
    /\ pc[s] = "send"
    /\ ~config.replay
    /\ Fail(s)
    /\ UNCHANGED <<fixed, clock, bucket, ask, load, paid, sends>>

\* The fuzzed transaction ran out of gas: the original goes the same way.
Fallback(s) ==
    /\ pc[s] = "send"
    /\ config.replay
    /\ tx[s] # original
    /\ Start(s, original)
    /\ UNCHANGED <<fixed, clock, bucket, original, txCounter, ctxDone, sends>>

Interrupt ==
    /\ ~ctxDone
    /\ ctxDone' = TRUE
    /\ UNCHANGED <<fixed, clock, bucket, pc, ask, load, paid, sends>>

Waiting == {s \in Senders : pc[s] = "wait"}

\* Time passes: every limiter gains a tick's worth of tokens, up to its burst.
Tick ==
    /\ now < Horizon \/ Waiting # {}
    /\ \A s \in Waiting : ~ctxDone /\ now < due[s]
    /\ now' = now + 1
    /\ tokens' = [m \in Metric |-> IF tokens[m] < Capacity(m) THEN tokens[m] + 1
                                                             ELSE Capacity(m)]
    /\ mark' = [m \in Metric |-> Append(mark[m], released[m])]
    /\ UNCHANGED <<fixed, reserved, released, pc, ask, load, ctxDone, paid, sends>>

Sender(s) ==
    \/ TakeTx(s) \/ ReplayTx(s) \/ Reserve(s) \/ Granted(s) \/ WaitCancelled(s)
    \/ BroadcastReturns(s) \/ BroadcastFails(s) \/ Fallback(s)

\* Everybody has returned, or has nothing left to send.
Finished ==
    /\ \A s \in Senders : pc[s] = "failed" \/ (pc[s] = "idle" /\ sends = MaxSends)
    /\ ctxDone
    /\ now >= Horizon
    /\ UNCHANGED vars

Next == Tick \/ Interrupt \/ (\E s \in Senders : Sender(s)) \/ Finished

Spec == Init /\ [][Next]_vars

\* Clocks advance and runnable goroutines run.
Fairness ==
    /\ WF_vars(Tick)
    /\ \A s \in Senders : WF_vars(Reserve(s) \/ Granted(s) \/ WaitCancelled(s))

FairSpec == Spec /\ Fairness
-----------------------------------------------------------------------------
(***************************************************************************)
(* Properties.                                                             *)
(***************************************************************************)

\* Whatever senders share a limiter and however their chunks interleave
\* (bucket.go:143-175), in no span of time does it let through more than its
\* burst and what the configured rate brought in meanwhile.
WindowBound ==
    \A m \in Limited : \A s \in 0..now :
        released[m] - mark[m][s + 1] <= Capacity(m) + (now - s)

\* A transaction that reaches Client.Broadcast (stresser.go:761-766) was paid for
\* in full at every limiter and no more than that, however many chunks it took and
\* whoever else was waiting (bucket.go:106-175): a fuzzed one by its fuzzed gas, the
\* fallback by its own and once more.
PaidInFull ==
    \A s \in Senders : pc[s] = "send" =>
        \A m \in Limited : paid[s][m] = Demand(tx[s], m) * limiter[m].period

\* A wait is refused for no other reason than a cancelled context
\* (bucket.go:140: "to avoid WaitN(n>burst) errors"), and ends: no sender is
\* starved at a limiter by the others.
EveryWaitEnds ==
    \A s \in Senders :
        pc[s] \in {"reserve", "wait"} ~>
            (pc[s] = "send" \/ (ctxDone /\ pc[s] \in {"idle", "failed"}))

-----------------------------------------------------------------------------
(***************************************************************************)
(* The inductive invariant, and the limiters seen without senders.         *)
(***************************************************************************)
TypeOK ==
    /\ limiter \in [Metric -> [period : Nat, burst : Nat]]
    /\ now \in Nat
    /\ tokens \in [Metric -> Int]
    /\ pc \in [Senders -> {"idle", "reserve", "wait", "send", "failed", "refused"}]
    /\ stage \in [Senders -> Metric \union {"send"}]
    /\ tx \in [Senders -> Tx]
    /\ original \in Tx
    /\ remaining \in [Senders -> Nat]
    /\ claim \in [Senders -> Nat]
    /\ due \in [Senders -> Int]
    /\ upto \in [Senders -> Nat]
    /\ ctxDone \in BOOLEAN
    /\ reserved \in [Metric -> Nat]
    /\ released \in [Metric -> Nat]
    /\ mark \in [Metric -> Seq(Nat)]

WaitsAt(s, m) == pc[s] = "wait" /\ stage[s] = m

\* A reservation is good once the debt it was made into is paid off, and no
\* later than that.
DebtInv ==
    \A s \in Senders : \A m \in Metric : WaitsAt(s, m) =>
        /\ claim[s] > 0
        /\ claim[s] <= Capacity(m)
        /\ upto[s] <= reserved[m]
        /\ now <= due[s]
        /\ now - due[s] = tokens[m] + (reserved[m] - upto[s])

\* The open reservations at a limiter follow each other without gap or overlap,
\* from what is released to what is reserved.
QueueInv ==
    ~ctxDone => \A m \in Metric :
        /\ reserved[m] > released[m] =>
              \E s \in Senders : WaitsAt(s, m) /\ upto[s] - claim[s] = released[m]
        /\ \A s \in Senders : WaitsAt(s, m) =>
              /\ released[m] <= upto[s] - claim[s]
              /\ upto[s] < reserved[m] =>
                    \E t \in Senders : WaitsAt(t, m) /\ upto[t] - claim[t] = upto[s]
              /\ \A t \in Senders : WaitsAt(t, m) /\ t # s =>
                    upto[s] <= upto[t] - claim[t] \/ upto[t] <= upto[s] - claim[s]

\* The inductive invariant of the limiters (bucket.go:126-179) and those who
\* wait at them.
RateInv ==
    /\ TypeOK
    /\ config \in Configs
    /\ limiter = buildBroadcastClient(config)
    /\ DebtInv
    /\ QueueInv
    /\ \A s \in Senders : pc[s] \in {"reserve", "wait"} => stage[s] \in Limited
    /\ \A s \in Senders : pc[s] = "reserve" => remaining[s] > 0
    /\ \A m \in Metric : tokens[m] <= Capacity(m) /\ released[m] <= reserved[m]

\* The limiters, seen without senders: what is reserved ahead counts as still
\* in the bucket. Once the context is cancelled nothing is released any more,
\* though reservations stay open.
Level(m) ==
    LET held == tokens[m] + (reserved[m] - released[m])
    IN  IF held < Capacity(m) THEN held ELSE Capacity(m)

Promise == INSTANCE Throttle WITH
               limit <- limiter,
               level <- [m \in Metric |-> Level(m)]

\* The shared limiters with all their senders do what Throttle promises.
ImplementsThrottle == Promise!Spec
=============================================================================
