------------------------------ MODULE Throttle ------------------------------
(***************************************************************************)
(* What a rate limit promises, without senders, chunks or reservations: of *)
(* each limited metric a bucket that fills by one every tick up to its     *)
(* capacity, and from which tokens are released only if they are there.    *)
(* Amounts are in ticks: a token is worth the "period" it takes to come.   *)
(***************************************************************************)
EXTENDS Integers, Sequences

CONSTANT Metric

VARIABLES
    limit,     \* of each metric: ticks for a token (0: no limit), and burst
    now,       \* in ticks
    level,     \* what the bucket holds
    released,  \* what it has released so far
    mark       \* mark[m][s + 1]: what it had released when tick s began

vars == <<limit, now, level, released, mark>>

Limited     == {m \in Metric : limit[m].period > 0}
Capacity(m) == limit[m].burst * limit[m].period

Init ==
    /\ limit \in [Metric -> [period : Nat, burst : Nat]]
    /\ now = 0
    /\ level = [m \in Metric |-> Capacity(m)]
    /\ released = [m \in Metric |-> 0]
    /\ mark = [m \in Metric |-> <<0>>]

Release(m, amount) ==
    /\ level' = [level EXCEPT ![m] = @ - amount]
    /\ released' = [released EXCEPT ![m] = @ + amount]
    /\ UNCHANGED <<limit, now, mark>>

Tick ==
    /\ now' = now + 1
    /\ level' = [m \in Metric |-> IF level[m] < Capacity(m) THEN level[m] + 1
                                                            ELSE Capacity(m)]
    /\ mark' = [m \in Metric |-> Append(mark[m], released[m])]
    /\ UNCHANGED <<limit, released>>

Next == Tick \/ \E m \in Limited : \E amount \in 1..level[m] : Release(m, amount)

Spec == Init /\ [][Next]_vars

\* In any span of time, however it lies, no more is released than the burst and
\* what came in meanwhile.
WindowBound ==
    \A m \in Limited : \A s \in 0..now :
        released[m] - mark[m][s + 1] <= Capacity(m) + (now - s)
=============================================================================
