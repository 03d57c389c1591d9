---------------------------- MODULE ClientProofs ----------------------------
(***************************************************************************)
(* Proofs about the two clients that fetch what a chain answers.           *)
(*                                                                         *)
(* Replay: the blocks are replayed in order, a drained replay is complete, *)
(* and the counters of a block stay within their bounds, for every range   *)
(* of heights, channel capacity and size of the blocks.                    *)
(*                                                                         *)
(* JsonRpc: an answer is found by the id of its request, and what is       *)
(* reported as done was done, for every number of callers, request objects *)
(* and calls, every size of a batch, and every answer of a server.         *)
(***************************************************************************)
EXTENDS Replay, JsonRpc, SequenceTheorems, TLAPS

\* A run of consecutive blocks grows at its end by the next block...
LEMMA ConsecutiveAppend ==
    ASSUME NEW s \in Seq(Nat), NEW first \in Nat, Consecutive(s, first)
    PROVE  Consecutive(Append(s, first + Len(s)), first)
<1> DEFINE t == Append(s, first + Len(s))
<1>1. first + Len(s) \in Nat /\ Len(s) \in Nat
  OBVIOUS
<1>2. /\ Len(t) = Len(s) + 1
      /\ \A k \in 1..Len(s) : t[k] = s[k]
      /\ t[Len(s) + 1] = first + Len(s)
  BY <1>1, AppendProperties
<1> HIDE DEF t
<1>3. ASSUME NEW k \in 1..Len(t) PROVE t[k] = first + k - 1
  <2>1. CASE k \in 1..Len(s)
    BY <1>2, <2>1, Zenon DEF Consecutive
  <2>2. CASE k = Len(s) + 1
    BY <1>1, <1>2, <2>2
  <2> QED BY <1>1, <1>2, <1>3, <2>1, <2>2
<1> QED BY <1>3, Zenon DEF Consecutive, t

\* ...and shrinks at its front by the first.
LEMMA ConsecutiveTail ==
    ASSUME NEW s \in Seq(Nat), s # << >>, NEW first \in Nat, Consecutive(s, first)
    PROVE  Head(s) = first /\ Consecutive(Tail(s), first + 1)
<1> DEFINE t == Tail(s)
<1>1. Len(s) \in Nat \ {0} /\ Head(s) = s[1]
  BY EmptySeq
<1>2. Len(t) = Len(s) - 1 /\ \A k \in 1..Len(t) : t[k] = s[k + 1]
  BY HeadTailProperties
<1> HIDE DEF t
<1>3. ASSUME NEW k \in 1..Len(t) PROVE t[k] = first + 1 + k - 1
  <2>1. k + 1 \in 1..Len(s)
    BY <1>1, <1>2, <1>3
  <2>2. s[k + 1] = first + (k + 1) - 1
    BY <2>1, Zenon DEF Consecutive
  <2> QED BY <1>2, <2>2
<1>4. s[1] = first
  BY <1>1 DEF Consecutive
<1> QED BY <1>1, <1>3, <1>4, Zenon DEF Consecutive, t

\* The initial state satisfies the invariant.
LEMMA InvInit == Init => ReplayInv
<1> SUFFICES ASSUME Init PROVE ReplayInv
  OBVIOUS
<1>1. NoCount \in [success : Nat, errors : [Category -> Nat], fuzzed : Nat,
                   fallback : Nat]
  BY Zenon DEF NoCount, NoErrors
<1>2. TypeOK
  <2>1. << >> \in Seq(Nat) /\ Len(<< >>) = 0
    BY EmptySeq
  <2>2. errCh \in BOOLEAN /\ ctxDone \in BOOLEAN
    BY Zenon DEF Init
  <2>3. height \in Nat /\ Len(blocksCh) <= BufferSize
    BY <2>1, ReplayAssumption DEF Init
  <2> QED BY <1>1, <2>1, <2>2, <2>3, Zenon DEF Init, TypeOK
<1>3. InOrder
  BY ReplayAssumption DEF Init, InOrder, Consecutive
<1> QED BY <1>2, <1>3, ReplayAssumption DEF Init, ReplayInv, SummaryBounds

\* The steps that move no block and count nothing.
LEMMA QuietSteps ==
    ASSUME ReplayInv,
           \/ Interrupt \/ ReachEnd \/ FetchBlock \/ GiveUp \/ Cancelled
           \/ CloseBlocks \/ CloseErr \/ CloseDone
           \/ BlocksClosed \/ TakeError \/ DoneClosed \/ Summary \/ Finished
           \/ UNCHANGED vars
    PROVE  ReplayInv'
<1> USE DEF ReplayInv, AtEnd
<1>1. UNCHANGED <<height, blocksCh, replayed, left, count>>
  BY Zenon DEF Interrupt, ReachEnd, FetchBlock, GiveUp, Cancelled, CloseBlocks,
         CloseErr, CloseDone, Close, BlocksClosed, TakeError, DoneClosed,
         Summary, Finished, vars, remote, chans, replay
<1>2. TypeOK'
  <2>1. /\ sniffer' \in {"loop", "push", "leaving", "gone"}
        /\ sniffed' \in {"running", "completed", "failed", "cancelled"}
        /\ phase' \in {"next", "batch", "drained", "signalled"}
        /\ closed' \in SUBSET {"blocks", "err", "done"}
    BY Zenon DEF TypeOK, Interrupt, ReachEnd, FetchBlock, GiveUp, Cancelled,
           CloseBlocks, CloseErr, CloseDone, Close, BlocksClosed, TakeError,
           DoneClosed, Summary, Finished, vars, remote, chans, replay, Leave
  <2>2. errCh' \in BOOLEAN /\ ctxDone' \in BOOLEAN
    BY Zenon DEF TypeOK, Interrupt, ReachEnd, FetchBlock, GiveUp, Cancelled,
           CloseBlocks, CloseErr, CloseDone, Close, BlocksClosed, TakeError,
           DoneClosed, Summary, Finished, vars, remote, chans, replay
  <2> QED BY <1>1, <2>1, <2>2, Zenon DEF TypeOK
<1>3. InOrder'
  BY <1>1, Zenon DEF InOrder, Consecutive
<1>4. phase' = "batch" => phase = "batch"
  BY Zenon DEF Interrupt, ReachEnd, FetchBlock, GiveUp, Cancelled, CloseBlocks,
         CloseErr, CloseDone, Close, BlocksClosed, TakeError, DoneClosed,
         Summary, Finished, vars, remote, chans, replay
<1>5. SummaryBounds'
  BY <1>1, <1>4, Zenon DEF SummaryBounds, Processed, Errors
<1>6. /\ sniffer' = "push" => ~AtEnd' /\ height' <= Tip
      /\ sniffed' = "completed" => AtEnd'
      /\ sniffer' \in {"loop", "push"} => sniffed' = "running" /\ closed' = {}
  BY <1>1, Zenon
  DEF Interrupt, ReachEnd, FetchBlock, GiveUp, Cancelled, CloseBlocks,
      CloseErr, CloseDone, Close, BlocksClosed, TakeError, DoneClosed,
      Summary, Finished, vars, remote, chans, replay, Leave
<1>7. phase' = "drained" => blocksCh' = << >> /\ "blocks" \in closed'
  BY <1>1, Zenon
  DEF Interrupt, ReachEnd, FetchBlock, GiveUp, Cancelled, CloseBlocks,
      CloseErr, CloseDone, Close, BlocksClosed, TakeError, DoneClosed,
      Summary, Finished, vars, remote, chans, replay, Leave
<1> QED BY <1>1, <1>2, <1>3, <1>4, <1>5, <1>6, <1>7

\* The block that is pushed is the one after the last in the channel.
LEMMA PushStep == ReplayInv /\ PushBlock => ReplayInv'
<1> SUFFICES ASSUME ReplayInv, PushBlock PROVE ReplayInv'
  OBVIOUS
<1>0. /\ TypeOK /\ InOrder /\ SummaryBounds
      /\ sniffer = "push" => ~AtEnd /\ height <= Tip
      /\ sniffer = "push" => sniffed = "running" /\ closed = {}
      /\ phase = "drained" => "blocks" \in closed
      /\ phase = "batch" => replayed # << >> /\ left <= TxsIn[replayed[Len(replayed)]]
  BY Zenon DEF ReplayInv
<1>1. /\ sniffer = "push" /\ sniffer' = "loop" /\ height' = height + 1
      /\ Len(blocksCh) < BufferSize
      /\ blocksCh' = Append(blocksCh, height)
      /\ UNCHANGED <<sniffed, errCh, closed, ctxDone, phase, replayed, left,
                     count>>
  BY Zenon DEF PushBlock, replay
<1>2. /\ blocksCh \in Seq(Nat) /\ height \in Nat
      /\ Len(replayed) \in Nat /\ Len(blocksCh) \in Nat
  BY <1>0 DEF TypeOK
<1>3. blocksCh' \in Seq(Nat) /\ Len(blocksCh') = Len(blocksCh) + 1
  BY <1>1, <1>2, AppendProperties
<1>4. TypeOK'
  <2>1. height' \in Nat
    BY <1>1, <1>2
  <2>2. Len(blocksCh') <= BufferSize
    <3>1. Len(blocksCh) < BufferSize /\ BufferSize \in Nat
      BY <1>1, ReplayAssumption
    <3> QED BY ONLY <1>2, <1>3, <3>1
  <2> QED BY <1>0, <1>1, <1>3, <2>1, <2>2, Zenon DEF TypeOK
<1>5. InOrder'
  <2>0. StartHeight + Len(replayed) \in Nat
    BY <1>2, ReplayAssumption
  <2>1. Consecutive(blocksCh', StartHeight + Len(replayed))
    <3>1. /\ Consecutive(blocksCh, StartHeight + Len(replayed))
          /\ height = StartHeight + Len(replayed) + Len(blocksCh)
      BY <1>0, Zenon DEF InOrder
    <3> QED BY <1>1, <1>2, <2>0, <3>1, ConsecutiveAppend
  <2>2. height' = StartHeight + Len(replayed') + Len(blocksCh')
    BY <1>0, <1>1, <1>2, <1>3, ReplayAssumption DEF InOrder
  <2>3. EndHeight # 0 => height' <= EndHeight
    BY <1>0, <1>1, <1>2, ReplayAssumption DEF AtEnd
  <2> QED BY <1>0, <1>1, <2>1, <2>2, <2>3, Zenon DEF InOrder, Consecutive
<1>6. SummaryBounds'
  BY <1>0, <1>1, Zenon DEF SummaryBounds, Processed, Errors
<1>7. phase # "drained"
  BY <1>0, <1>1
<1>8. height' <= Tip + 1
  BY <1>0, <1>1, <1>2, ReplayAssumption
<1>9. sniffed' # "completed"
  BY <1>0, <1>1
<1> QED BY <1>0, <1>1, <1>4, <1>5, <1>6, <1>7, <1>8, <1>9, Zenon DEF ReplayInv

\* The block that is taken is the one after the last that was replayed.
LEMMA TakeStep == ReplayInv /\ TakeBlock => ReplayInv'
<1> SUFFICES ASSUME ReplayInv, TakeBlock PROVE ReplayInv'
  OBVIOUS
<1>0. /\ TypeOK /\ InOrder
      /\ sniffer = "push" => ~AtEnd /\ height <= Tip
      /\ height > StartHeight => height <= Tip + 1
      /\ sniffed = "completed" => AtEnd
      /\ sniffer \in {"loop", "push"} => sniffed = "running" /\ closed = {}
  BY Zenon DEF ReplayInv
<1> DEFINE h == Head(blocksCh)
<1>1. /\ phase = "next" /\ blocksCh # << >>
      /\ blocksCh' = Tail(blocksCh)
      /\ replayed' = Append(replayed, h)
      /\ left' = TxsIn[h]
      /\ count' = NoCount
      /\ phase' = IF left' = 0 THEN "next" ELSE "batch"
      /\ UNCHANGED <<height, sniffer, sniffed, errCh, closed, ctxDone>>
  BY Zenon DEF TakeBlock, remote
<1>2. /\ blocksCh \in Seq(Nat) /\ replayed \in Seq(Nat) /\ height \in Nat
      /\ Len(replayed) \in Nat /\ Len(blocksCh) \in Nat \ {0}
  BY <1>0, <1>1, EmptySeq DEF TypeOK
<1>3. blocksCh' \in Seq(Nat) /\ Len(blocksCh') = Len(blocksCh) - 1
  BY <1>1, <1>2, HeadTailProperties
<1>n. StartHeight \in Nat /\ StartHeight + Len(replayed) \in Nat
  BY <1>2, ReplayAssumption
<1>4. /\ h = StartHeight + Len(replayed)
      /\ Consecutive(blocksCh', StartHeight + Len(replayed) + 1)
  <2>1. Consecutive(blocksCh, StartHeight + Len(replayed))
    BY <1>0, Zenon DEF InOrder
  <2> QED BY <1>1, <1>2, <1>n, <2>1, ConsecutiveTail
<1>5. /\ replayed' \in Seq(Nat) /\ Len(replayed') = Len(replayed) + 1
      /\ replayed'[Len(replayed) + 1] = h
  <2>1. h \in Nat
    BY <1>n, <1>4
  <2> QED BY <1>1, <1>2, <2>1, AppendProperties
<1>6. h \in StartHeight..Tip
  <2>1. height = StartHeight + Len(replayed) + Len(blocksCh)
    BY <1>0, Zenon DEF InOrder
  <2>2. Tip \in Nat
    BY ReplayAssumption
  <2>3. height > StartHeight /\ h < height
    BY <1>2, <1>n, <1>4, <2>1
  <2>4. height <= Tip + 1
    BY <1>0, <2>3
  <2> HIDE DEF h
  <2> QED BY <1>2, <1>n, <1>4, <2>2, <2>3, <2>4
<1> HIDE DEF h
<1>7. TxsIn[h] \in Nat
  BY <1>6, ReplayAssumption
<1>8. NoCount \in [success : Nat, errors : [Category -> Nat], fuzzed : Nat,
                   fallback : Nat]
  BY Zenon DEF NoCount, NoErrors
<1>9. TypeOK'
  <2>1. Len(blocksCh') <= BufferSize
    BY <1>0, <1>2, <1>3, ReplayAssumption DEF TypeOK
  <2>2. errCh' \in BOOLEAN /\ ctxDone' \in BOOLEAN
    BY <1>0, <1>1, Zenon DEF TypeOK
  <2>3. phase' \in {"next", "batch", "drained", "signalled"} /\ left' \in Nat
    BY <1>1, <1>7
  <2>4. count' \in [success : Nat, errors : [Category -> Nat], fuzzed : Nat,
                    fallback : Nat]
    BY <1>1, <1>8
  <2> QED BY <1>0, <1>1, <1>3, <1>5, <2>1, <2>2, <2>3, <2>4, Zenon DEF TypeOK
<1>10. InOrder'
  <2>1. Consecutive(replayed', StartHeight)
    <3>1. Consecutive(replayed, StartHeight)
      BY <1>0, Zenon DEF InOrder
    <3> QED BY <1>1, <1>2, <1>n, <1>4, <3>1, ConsecutiveAppend
  <2>2. Consecutive(blocksCh', StartHeight + Len(replayed'))
    <3>1. StartHeight + Len(replayed') = StartHeight + Len(replayed) + 1
      BY <1>2, <1>n, <1>5
    <3> QED BY <1>4, <3>1
  <2>3. height' = StartHeight + Len(replayed') + Len(blocksCh')
    BY <1>1, <1>2, <1>3, <1>5, <1>0, ReplayAssumption DEF InOrder
  <2> QED BY <1>0, <1>1, <2>1, <2>2, <2>3, Zenon DEF InOrder
<1>11. replayed'[Len(replayed')] = h /\ replayed' # << >>
  <2>1. Len(replayed') # 0
    BY <1>2, <1>5
  <2> QED BY <1>5, <2>1, EmptySeq
<1>12. SummaryBounds'
  <2>1. Processed' = 0
    BY <1>1, <1>7, <1>11 DEF Processed
  <2>2. /\ count'.success = 0 /\ count'.fuzzed = 0 /\ count'.fallback = 0
        /\ Errors' = 0
    BY <1>1 DEF NoCount, NoErrors, Errors, Category
  <2> QED BY <2>1, <2>2 DEF SummaryBounds
<1>13. phase' # "drained"
  BY <1>1
<1>14. left' <= TxsIn[replayed'[Len(replayed')]]
  BY <1>1, <1>7, <1>11
<1> QED BY <1>0, <1>1, <1>9, <1>10, <1>11, <1>12, <1>13, <1>14, Zenon DEF ReplayInv, AtEnd


\* One more error in one of the categories is one more in their sum.
LEMMA CategorizeCounts ==
    ASSUME NEW errors \in [Category -> Nat], NEW c \in Category
    PROVE  LET new == Categorize(errors, c)
           IN  /\ new \in [Category -> Nat]
               /\ new["timeout"] + new["sequence"] + new["gas"] + new["other"]
                    = errors["timeout"] + errors["sequence"] + errors["gas"]
                        + errors["other"] + 1
BY DEF Categorize, Category

\* A counted transaction that is a success, or adds an error; or both, when
\* it went through the fallback; and never more than two errors.
LEMMA CountedStep ==
    ASSUME ReplayInv,
           NEW success \in BOOLEAN, NEW wasFuzzed \in BOOLEAN,
           NEW fallback \in BOOLEAN,
           NEW errors \in [Category -> Nat], NEW n \in 0..2,
           errors["timeout"] + errors["sequence"] + errors["gas"]
             + errors["other"] = Errors + n,
           success \/ n > 0,
           fallback => success /\ wasFuzzed,
           Counted(success, errors, wasFuzzed, fallback)
    PROVE  ReplayInv'
<1>0. /\ TypeOK /\ InOrder /\ SummaryBounds
      /\ sniffer = "push" => ~AtEnd /\ height <= Tip
      /\ height > StartHeight => height <= Tip + 1
      /\ sniffed = "completed" => AtEnd
      /\ sniffer \in {"loop", "push"} => sniffed = "running" /\ closed = {}
      /\ phase = "batch" => replayed # << >> /\ left <= TxsIn[replayed[Len(replayed)]]
  BY Zenon DEF ReplayInv
<1> DEFINE current == replayed[Len(replayed)]
<1>1. /\ phase = "batch" /\ left > 0 /\ left' = left - 1
      /\ UNCHANGED <<height, sniffer, sniffed, blocksCh, errCh, closed,
                     ctxDone, phase, replayed>>
  BY Zenon DEF Counted, remote, chans
<1>2. /\ Bump(success) \in {0, 1} /\ Bump(wasFuzzed) \in {0, 1}
      /\ Bump(fallback) \in {0, 1}
      /\ Bump(success) + n > 0
      /\ Bump(fallback) <= Bump(success) /\ Bump(fallback) <= Bump(wasFuzzed)
  <2>1. CASE success
    BY <2>1 DEF Bump
  <2>2. CASE ~success
    BY <2>2 DEF Bump
  <2> QED BY <2>1, <2>2
<1>3. /\ count.success \in Nat /\ count.fuzzed \in Nat
      /\ count.fallback \in Nat /\ count.errors \in [Category -> Nat]
      /\ left \in Nat
  BY <1>0, Zenon DEF TypeOK
<1>4. /\ count'.success = count.success + Bump(success)
      /\ count'.fuzzed = count.fuzzed + Bump(wasFuzzed)
      /\ count'.fallback = count.fallback + Bump(fallback)
      /\ count'.errors = errors
      /\ count' \in [success : Nat, errors : [Category -> Nat], fuzzed : Nat,
                     fallback : Nat]
  BY <1>2, <1>3 DEF Counted
<1>5. left' \in Nat
  BY <1>1, <1>3
<1>6. TypeOK'
  BY <1>0, <1>1, <1>4, <1>5, Zenon DEF TypeOK
<1>7. InOrder'
  BY <1>0, <1>1, Zenon DEF InOrder, Consecutive
<1>8. TxsIn[current] \in Nat
  <2>1. /\ replayed \in Seq(Nat) /\ blocksCh \in Seq(Nat)
        /\ Len(replayed) \in Nat \ {0} /\ Len(blocksCh) \in Nat
        /\ height \in Nat
    BY <1>0, <1>1, EmptySeq DEF TypeOK
  <2>2. current = StartHeight + Len(replayed) - 1
    BY <2>1, <1>0, ReplayAssumption DEF InOrder, Consecutive
  <2> HIDE DEF current
  <2>3. height = StartHeight + Len(replayed) + Len(blocksCh)
    BY <1>0, Zenon DEF InOrder
  <2>4. height <= Tip + 1
    BY <1>0, <2>1, <2>3, ReplayAssumption
  <2>5. current \in StartHeight..Tip
    <3>1. StartHeight \in Nat /\ Tip \in Nat
      BY ReplayAssumption
    <3>2. current \in Int /\ StartHeight <= current
      BY <2>1, <2>2, <3>1
    <3>3. current <= Tip
      BY <2>1, <2>2, <2>3, <2>4, <3>1
    <3> QED BY <3>1, <3>2, <3>3
  <2> QED BY <2>5, ReplayAssumption
<1>9. Errors \in Nat
  BY <1>3 DEF Errors, Category
<1>10. Errors' = Errors + n
  BY <1>4, Zenon DEF Errors
<1>11. Processed' = Processed + 1 /\ Processed \in Nat
  <2>1. left <= TxsIn[current]
    BY <1>0, <1>1
  <2>2. Processed = TxsIn[current] - left /\ Processed' = TxsIn[current] - left'
    BY <1>1, Zenon DEF Processed
  <2> HIDE DEF current
  <2> QED BY <1>1, <1>3, <1>8, <2>1, <2>2
<1>12. SummaryBounds'
  <2>1. /\ count.success <= Processed
        /\ Processed <= count.success + Errors
        /\ Errors <= 2 * Processed
        /\ count.fallback <= count.fuzzed
        /\ count.fallback <= count.success
    BY <1>0, <1>1, Zenon DEF SummaryBounds
  <2>2. /\ count'.success <= Processed'
        /\ count'.fallback <= count'.fuzzed
        /\ count'.fallback <= count'.success
    BY <1>2, <1>3, <1>4, <1>11, <2>1
  <2>3. /\ Processed' <= count'.success + Errors'
        /\ Errors' <= 2 * Processed'
    BY <1>2, <1>3, <1>4, <1>9, <1>10, <1>11, <2>1
  <2> QED BY <2>2, <2>3, Zenon DEF SummaryBounds
<1>13. left' <= TxsIn[current]
  BY <1>0, <1>1, <1>3, <1>8
<1> QED BY <1>0, <1>1, <1>6, <1>7, <1>12, <1>13, Zenon DEF ReplayInv, AtEnd

\* Every way a transaction is dealt with preserves the invariant.
LEMMA TxSteps ==
    ASSUME ReplayInv, TxSent \/ TxFails \/ FallbackSent \/ FallbackFails
    PROVE  ReplayInv'
<1>1. /\ count.errors \in [Category -> Nat]
      /\ Errors = count.errors["timeout"] + count.errors["sequence"]
                    + count.errors["gas"] + count.errors["other"]
      /\ Errors \in Nat
  <2>1. count.errors \in [Category -> Nat]
    BY Zenon DEF ReplayInv, TypeOK
  <2> QED BY <2>1 DEF Errors, Category
<1>2. \A c, d \in Category :
        LET new == Categorize(Categorize(count.errors, c), d)
        IN  /\ new \in [Category -> Nat]
            /\ new["timeout"] + new["sequence"] + new["gas"] + new["other"]
                 = Errors + 2
  <2> SUFFICES ASSUME NEW c \in Category, NEW d \in Category
               PROVE  LET new == Categorize(Categorize(count.errors, c), d)
                      IN  /\ new \in [Category -> Nat]
                          /\ new["timeout"] + new["sequence"] + new["gas"]
                               + new["other"] = Errors + 2
    OBVIOUS
  <2> DEFINE e == Categorize(count.errors, c)
  <2>1. /\ e \in [Category -> Nat]
        /\ e["timeout"] + e["sequence"] + e["gas"] + e["other"] = Errors + 1
    BY <1>1, CategorizeCounts
  <2> HIDE DEF e
  <2>2. LET new == Categorize(e, d)
        IN  /\ new \in [Category -> Nat]
            /\ new["timeout"] + new["sequence"] + new["gas"] + new["other"]
                 = Errors + 1 + 1
    BY <2>1, CategorizeCounts
  <2> QED BY <1>1, <2>2 DEF e
<1>3. \A f \in Fuzzed : f \in BOOLEAN
  BY Zenon DEF Fuzzed
<1>4. Failures \subseteq Category /\ "gas" \in Category
  BY Zenon DEF Failures, Category
<1>5. CASE TxSent
  <2>1. PICK f \in Fuzzed : Counted(TRUE, count.errors, f, FALSE)
    BY <1>5, Zenon DEF TxSent
  <2>2. /\ f \in BOOLEAN /\ 0 \in 0..2 /\ Errors = Errors + 0
    BY <1>1, <1>3
  <2> QED BY <1>1, <2>1, <2>2, CountedStep, Zenon
<1>6. CASE TxFails
  <2>1. PICK f \in Fuzzed, c \in Failures :
          Counted(FALSE, Categorize(Categorize(count.errors, c), c), f, FALSE)
    BY <1>6, Zenon DEF TxFails
  <2>2. f \in BOOLEAN /\ c \in Category /\ 2 \in 0..2 /\ 2 > 0
    BY <1>3, <1>4
  <2> QED BY <1>2, <2>1, <2>2, CountedStep, Zenon
<1>7. CASE FallbackSent
  <2>1. Counted(TRUE, Categorize(count.errors, "gas"), TRUE, TRUE)
    BY <1>7, Zenon DEF FallbackSent
  <2>2. LET new == Categorize(count.errors, "gas")
        IN  /\ new \in [Category -> Nat]
            /\ new["timeout"] + new["sequence"] + new["gas"] + new["other"]
                 = Errors + 1
    BY <1>1, <1>4, CategorizeCounts
  <2>3. 1 \in 0..2
    OBVIOUS
  <2> QED BY <2>1, <2>2, <2>3, CountedStep, Zenon
<1>8. CASE FallbackFails
  <2>1. PICK c \in Category :
          Counted(FALSE, Categorize(Categorize(count.errors, "gas"), c), TRUE,
                  FALSE)
    BY <1>8, Zenon DEF FallbackFails
  <2>2. 2 \in 0..2 /\ 2 > 0
    OBVIOUS
  <2> QED BY <1>2, <1>4, <2>1, <2>2, CountedStep, Zenon
<1> QED BY <1>5, <1>6, <1>7, <1>8

\* Every step preserves the invariant.
LEMMA InvNext == ReplayInv /\ [Next]_vars => ReplayInv'
BY QuietSteps, PushStep, TakeStep, TxSteps
DEF Next, Sniff, GetNextBlockTxs, BroadcastBlock

\* The invariant holds in every state of the replay, for every range of
\* heights, every channel capacity and every size of the blocks.
THEOREM ReplayInvariant == Spec => []ReplayInv
BY InvInit, InvNext, PTL DEF Spec

\* Whatever fails, is retried or is cancelled, the replayed blocks are
\* consecutive from StartHeight, and so are the buffered ones after them.
THEOREM InOrderCorrect == Spec => []InOrder
<1>1. ReplayInv => InOrder
  BY Zenon DEF ReplayInv
<1> QED BY <1>1, ReplayInvariant, PTL

\* The types hold throughout the sniffer's and StressReplay's steps
\* (replay/sniffer.go:62-137, stresser.go:459-599).
THEOREM TypeCorrect == Spec => []TypeOK
<1>1. ReplayInv => TypeOK
  BY Zenon DEF ReplayInv
<1> QED BY <1>1, ReplayInvariant, PTL

\* The counters of a block's summary stay within their bounds.
THEOREM SummaryBoundsCorrect == Spec => []SummaryBounds
<1>1. ReplayInv => SummaryBounds
  BY Zenon DEF ReplayInv
<1> QED BY <1>1, ReplayInvariant, PTL

\* A replay that ends on the closed, empty channel has replayed every block
\* that was fetched, and all of them when the sniffer came to its end.
THEOREM DrainedCompleteCorrect == Spec => []DrainedComplete
<1>1. ReplayInv => DrainedComplete
  <2> SUFFICES ASSUME ReplayInv, phase = "drained"
               PROVE  /\ blocksCh = << >>
                      /\ Len(replayed) = height - StartHeight
                      /\ sniffed = "completed" =>
                            Len(replayed) = EndHeight - StartHeight
    BY Zenon DEF DrainedComplete
  <2>1. /\ blocksCh = << >> /\ Len(blocksCh) = 0
        /\ height \in Nat /\ Len(replayed) \in Nat
    BY DEF ReplayInv, TypeOK
  <2>2. Len(replayed) = height - StartHeight
    BY <2>1, ReplayAssumption DEF ReplayInv, InOrder
  <2>3. sniffed = "completed" => height = EndHeight
    BY <2>1, ReplayAssumption DEF ReplayInv, InOrder, AtEnd
  <2> QED BY <2>1, <2>2, <2>3
<1> QED BY <1>1, ReplayInvariant, PTL
-----------------------------------------------------------------------------
(* The calls of the JSON-RPC client                                        *)

Single == {"Call", "CallFor", "CallRaw"}

\* A call is one of the five; those of a batch have request objects, the ids of
\* which are their positions unless somebody else wrote to them.
PreparedInv(c) ==
    /\ call[c].op \in Single \union {"CallBatch", "CallBatchRaw"}
    /\ call[c].op \in {"Call", "CallFor"} => call[c].objects = << >> /\ DOMAIN body[c] = {1}
    /\ call[c].op = "CallRaw" => call[c].objects # << >> /\ DOMAIN call[c].objects = {1}
    /\ Batch(call[c]) => /\ call[c].objects # << >>
                         /\ \A k \in DOMAIN call[c].objects : call[c].objects[k] \in Objects
    /\ (call[c].op = "CallBatch" /\ ~shared[c] /\ IsInjective(call[c].objects)) =>
          \A k \in DOMAIN call[c].objects : ID[call[c].objects[k]] = k - 1

\* What was marshalled are these requests, with the ids they had.
SentInv(c) ==
    /\ call[c].op \in Single \union {"CallBatch", "CallBatchRaw"}
    /\ call[c].op \in Single => DOMAIN body[c] = {1}
    /\ Batch(call[c]) =>
          /\ DOMAIN body[c] = DOMAIN call[c].objects
          /\ \A k \in DOMAIN body[c] : body[c][k].method = call[c].objects[k]
    /\ (call[c].op = "CallBatch" /\ ~shared[c] /\ IsInjective(call[c].objects)) =>
          \A k \in DOMAIN body[c] : body[c][k].id = k - 1

\* The inductive invariant: every call is what it was when it began, and the
\* one that has just returned (last) is as promised.
JsonRpcInv ==
    /\ pc \in [Callers -> {"idle", "prepared", "sent"}]
    /\ DOMAIN ID = Objects /\ DOMAIN call = Callers /\ DOMAIN body = Callers
    /\ shared \in [Callers -> BOOLEAN]
    /\ \A c \in Callers : /\ pc[c] = "prepared" => PreparedInv(c)
                          /\ pc[c] = "sent" => SentInv(c)
    /\ AnswersMatch /\ NoFalseSuccess
-----------------------------------------------------------------------------
(* Looking up a response                                                   *)

LEMMA OneOf == ASSUME NEW x \in Int PROVE Min({x}) = x /\ Max({x}) = x
  <1>1. \A y \in {x} : y = x /\ x <= y /\ x >= y
    OBVIOUS
  <1> QED
    BY <1>1, Zenon DEF Min, Max

\* What AnswersMatch asks for: a look-up by GetByID and by AsMap finds the answer
\* to the request with this method, or nothing.
Finds(responses, id, method) ==
    LET hit == GetByID(responses, id)
    IN  IF hit # << >>
        THEN /\ hit[1].method = method
             /\ AsMap(responses)[id] = hit[1]
        ELSE id \notin DOMAIN AsMap(responses)

\* Requests with different ids, and responses to some of them, each at most once.
Identified(requests, ids) ==
    /\ DOMAIN ids = DOMAIN requests /\ IsInjective(ids)
    /\ \A k \in DOMAIN requests : requests[k].id = ids[k]

Answered(requests, responses, n, order) ==
    /\ order \in [1..n -> DOMAIN requests] /\ IsInjective(order)
    /\ DOMAIN responses = 1..n
    /\ \A m \in 1..n : /\ responses[m].id = requests[order[m]].id
                       /\ responses[m].method = requests[order[m]].method

\* Then the id of a request leads to its own answer, if there is one.
LEMMA Matched ==
    ASSUME NEW requests, NEW ids, NEW responses, NEW n, NEW order,
           Identified(requests, ids), Answered(requests, responses, n, order), NEW k \in DOMAIN ids
    PROVE  Finds(responses, ids[k], requests[k].method)
  <1>i. /\ DOMAIN ids = DOMAIN requests /\ IsInjective(ids)
        /\ \A j \in DOMAIN requests : requests[j].id = ids[j]
    BY Zenon DEF Identified
  <1>a. /\ order \in [1..n -> DOMAIN requests] /\ IsInjective(order)
        /\ DOMAIN responses = 1..n
        /\ \A m \in 1..n : /\ responses[m].id = requests[order[m]].id
                           /\ responses[m].method = requests[order[m]].method
    BY Zenon DEF Answered
  <1> DEFINE hits == WithID(responses, ids[k])
  <1>1. hits = {m \in 1..n : order[m] = k}
    <2>1. ASSUME NEW m \in 1..n PROVE responses[m].id = ids[k] <=> order[m] = k
      <3>1. order[m] \in DOMAIN ids /\ responses[m].id = ids[order[m]]
        BY <1>i, <1>a, Zenon
      <3> QED
        BY <1>i, <3>1, Zenon DEF IsInjective
    <2> QED
      BY <1>a, <2>1, Zenon DEF WithID
  <1>2. DOMAIN AsMap(responses) = {responses[m].id : m \in 1..n}
    BY <1>a, Zenon DEF AsMap
  <1>3. CASE hits = {}
    <2>1. GetByID(responses, ids[k]) = << >>
      BY <1>3, Zenon DEF GetByID
    <2>2. ids[k] \notin DOMAIN AsMap(responses)
      BY <1>2, <1>3, <1>a, Zenon DEF WithID
    <2> QED
      BY <2>1, <2>2, Zenon DEF Finds
  <1>4. CASE hits # {}
    <2>1. PICK m \in 1..n : m \in hits /\ order[m] = k
      BY <1>1, <1>4, Zenon
    <2>2. hits = {m}
      BY <1>1, <1>a, <2>1, Zenon DEF IsInjective
    <2>3. Min(hits) = m /\ Max(hits) = m
      BY <2>2, OneOf
    <2>4. GetByID(responses, ids[k]) = <<responses[m]>>
      BY <1>4, <2>3, Zenon DEF GetByID
    <2>5. responses[m].method = requests[k].method /\ responses[m].id = ids[k]
      BY <1>i, <1>a, <2>1, Zenon
    <2>6. AsMap(responses)[ids[k]] = responses[m]
      BY <1>a, <2>3, <2>5, Zenon DEF AsMap
    <2> QED
      BY <2>4, <2>5, <2>6 DEF Finds
  <1> QED
    BY <1>3, <1>4, Zenon

LEMMA Fields ==
    ASSUME NEW made, NEW op, NEW objects, NEW type,
           made = [op |-> op, objects |-> objects, type |-> type]
    PROVE  made.op = op /\ made.objects = objects
  BY Zenon

-----------------------------------------------------------------------------
(* Calls that begin                                                        *)

LEMMA RpcInvInit == RpcInit => JsonRpcInv
  <1> SUFFICES ASSUME RpcInit PROVE JsonRpcInv
    BY Zenon
  <1>1. last.status = 0 /\ pc \in [Callers -> {"idle"}]
    BY Zenon DEF RpcInit, Nothing
  <1>2. AnswersMatch /\ NoFalseSuccess
    BY <1>1 DEF AnswersMatch, NoFalseSuccess
  <1> QED
    BY <1>1, <1>2, Zenon DEF JsonRpcInv, RpcInit

\* Nothing has just returned.
LEMMA Silent == last' = Nothing => AnswersMatch' /\ NoFalseSuccess'
  <1> SUFFICES ASSUME last' = Nothing PROVE AnswersMatch' /\ NoFalseSuccess'
    BY Zenon
  <1>1. last'.status = 0
    BY Zenon DEF Nothing
  <1> QED
    BY <1>1 DEF AnswersMatch, NoFalseSuccess
\* What a call was prepared or sent with stays while others go on.
LEMMA StillPrepared ==
    ASSUME NEW d \in Callers, PreparedInv(d),
           call'[d] = call[d], body'[d] = body[d],
           shared'[d] = shared[d] /\ ID' = ID
    PROVE  PreparedInv(d)'
  BY Zenon DEF PreparedInv, Batch

LEMMA StillSent ==
    ASSUME NEW d \in Callers, SentInv(d),
           call'[d] = call[d], body'[d] = body[d], shared'[d] = shared[d]
    PROVE  SentInv(d)'
  BY Zenon DEF SentInv, Batch

\* A caller begins a call, and whatever it writes leaves the others prepared.
LEMMA BeginsInv ==
    ASSUME JsonRpcInv, NEW c \in Callers, NEW op, NEW objects, NEW type,
           Begins(c, op, objects, type),
           DOMAIN ID' = Objects, DOMAIN body' = Callers, shared' \in [Callers -> BOOLEAN],
           \A d \in Callers \ {c} :
              /\ body'[d] = body[d]
              /\ shared'[d] = shared[d] \/ pc[d] = "prepared"
              /\ pc[d] = "prepared" => PreparedInv(d)',
           PreparedInv(c)'
    PROVE  JsonRpcInv'
  <1>1. /\ pc \in [Callers -> {"idle", "prepared", "sent"}] /\ DOMAIN call = Callers
        /\ \A d \in Callers : pc[d] = "sent" => SentInv(d)
    BY Zenon DEF JsonRpcInv
  <1>2. /\ pc' = [pc EXCEPT ![c] = "prepared"] /\ last' = Nothing
        /\ call' = [call EXCEPT ![c] = [op |-> op, objects |-> objects, type |-> type]]
    BY Zenon DEF Begins
  <1>3. /\ pc' \in [Callers -> {"idle", "prepared", "sent"}] /\ DOMAIN call' = Callers
        /\ pc'[c] = "prepared"
        /\ \A d \in Callers \ {c} : pc'[d] = pc[d] /\ call'[d] = call[d]
    BY <1>1, <1>2, Zenon
  <1>4. ASSUME NEW d \in Callers
        PROVE  /\ pc'[d] = "prepared" => PreparedInv(d)'
               /\ pc'[d] = "sent" => SentInv(d)'
    <2>1. CASE d = c
      BY <1>3, <2>1, Zenon
    <2>2. CASE d # c
      <3>1. d \in Callers \ {c} /\ pc'[d] = pc[d]
        BY <1>3, <2>2, Zenon
      <3>2. ASSUME pc[d] = "sent" PROVE SentInv(d)'
        BY <1>1, <1>3, <3>1, <3>2, StillSent, Zenon
      <3> QED
        BY <3>1, <3>2, Zenon
    <2> QED
      BY <2>1, <2>2, Zenon
  <1> QED
    BY <1>2, <1>3, <1>4, Silent, Zenon DEF JsonRpcInv

LEMMA CallInv ==
    ASSUME JsonRpcInv, NEW c \in Callers, Call(c) \/ CallFor(c) \/ CallRaw(c)
    PROVE  JsonRpcInv'
  <1>1. /\ DOMAIN ID = Objects /\ DOMAIN call = Callers /\ DOMAIN body = Callers
        /\ shared \in [Callers -> BOOLEAN]
        /\ \A d \in Callers : pc[d] = "prepared" => PreparedInv(d)
    BY Zenon DEF JsonRpcInv
  <1>2. UNCHANGED <<ID, shared>>
    BY Zenon DEF Call, CallFor, CallRaw
  <1>3. /\ DOMAIN body' = Callers
        /\ \A d \in Callers \ {c} : body'[d] = body[d]
    BY <1>1, Zenon DEF Call, CallFor, CallRaw
  <1>4. PICK op \in Single : \E objects, type :
           /\ Begins(c, op, objects, type)
           /\ op = "CallRaw" => objects # << >> /\ DOMAIN objects = {1}
           /\ op # "CallRaw" => objects = << >> /\ DOMAIN body'[c] = {1}
    <2>1. CASE Call(c)
      <3>0. PICK request : body' = [body EXCEPT ![c] = <<request>>]
        BY <2>1, Zenon DEF Call
      <3>1. body'[c] = <<request>>
        BY <1>1, <3>0, Zenon
      <3>2. DOMAIN body'[c] = {1}
        BY <3>1
      <3> QED
        BY <2>1, <3>2, Zenon DEF Call, Single
    <2>2. CASE CallFor(c)
      <3>0. PICK request : body' = [body EXCEPT ![c] = <<request>>]
        BY <2>2, Zenon DEF CallFor
      <3>1. body'[c] = <<request>>
        BY <1>1, <3>0, Zenon
      <3>2. DOMAIN body'[c] = {1}
        BY <3>1
      <3> QED
        BY <2>2, <3>2, Zenon DEF CallFor, Single
    <2>3. CASE CallRaw(c)
      <3>1. PICK o \in Objects : Begins(c, "CallRaw", <<o>>, "none")
        BY <2>3, Zenon DEF CallRaw
      <3>2. <<o>> # << >> /\ DOMAIN <<o>> = {1}
        OBVIOUS
      <3> QED
        BY <3>1, <3>2, Zenon DEF Single
    <2> QED
      BY <2>1, <2>2, <2>3, Zenon
  <1>5. PICK objects, type :
           /\ Begins(c, op, objects, type)
           /\ op = "CallRaw" => objects # << >> /\ DOMAIN objects = {1}
           /\ op # "CallRaw" => objects = << >> /\ DOMAIN body'[c] = {1}
    BY <1>4, Zenon
  <1>6. call'[c] = [op |-> op, objects |-> objects, type |-> type]
    BY <1>1, <1>5, Zenon DEF Begins
  <1>7. PreparedInv(c)'
    <2>1. call'[c].op = op /\ call'[c].objects = objects
      BY ONLY <1>6
    <2>2. op \in {"Call", "CallFor", "CallRaw"} /\ op \notin {"CallBatch", "CallBatchRaw"}
      BY <1>4, Zenon DEF Single
    <2> QED
      BY <1>5, <2>1, <2>2, Zenon DEF PreparedInv, Batch, Single
  <1>8. ASSUME NEW d \in Callers \ {c}, pc[d] = "prepared" PROVE PreparedInv(d)'
    <2>1. call'[d] = call[d]
      BY <1>1, <1>5, Zenon DEF Begins
    <2> QED
      BY <1>1, <1>2, <1>3, <1>8, <2>1, StillPrepared, Zenon
  <1> QED
    BY <1>1, <1>2, <1>3, <1>5, <1>7, <1>8, BeginsInv, Zenon

LEMMA CallBatchRawInv ==
    ASSUME JsonRpcInv, NEW c \in Callers, NEW n \in Nat, NEW objects \in [1..n -> Objects],
           CallBatchRaw(c, objects)
    PROVE  JsonRpcInv'
  <1>1. /\ DOMAIN ID = Objects /\ DOMAIN call = Callers /\ DOMAIN body = Callers
        /\ shared \in [Callers -> BOOLEAN]
        /\ \A d \in Callers : pc[d] = "prepared" => PreparedInv(d)
    BY Zenon DEF JsonRpcInv
  <1>2. /\ Begins(c, "CallBatchRaw", objects, "none") /\ objects # << >>
        /\ UNCHANGED <<ID, body, shared>>
    BY Zenon DEF CallBatchRaw
  <1>m. call'[c] = [op |-> "CallBatchRaw", objects |-> objects, type |-> "none"]
    BY <1>1, <1>2, Zenon DEF Begins
  <1>3. \A d \in Callers \ {c} : call'[d] = call[d]
    BY <1>1, <1>2, Zenon DEF Begins
  <1>4. PreparedInv(c)'
    <2>1. call'[c].op = "CallBatchRaw" /\ call'[c].objects = objects
      BY <1>m, Fields, Zenon
    <2>2. \A k \in DOMAIN objects : objects[k] \in Objects
      BY Zenon
    <2> QED
      BY <1>2, <2>1, <2>2, Zenon DEF PreparedInv, Batch
  <1>5. ASSUME NEW d \in Callers \ {c}, pc[d] = "prepared" PROVE PreparedInv(d)'
    BY <1>1, <1>2, <1>3, <1>5, StillPrepared, Zenon
  <1> QED
    BY <1>1, <1>2, <1>4, <1>5, BeginsInv, Zenon

\* CallBatch writes to the objects of its batch, and with that to those of other
\* calls that have yet to marshal them: these are marked.
LEMMA CallBatchInv ==
    ASSUME JsonRpcInv, NEW c \in Callers, NEW n \in Nat, NEW objects \in [1..n -> Objects],
           CallBatch(c, objects)
    PROVE  JsonRpcInv'
  <1>1. /\ DOMAIN ID = Objects /\ DOMAIN call = Callers /\ DOMAIN body = Callers
        /\ shared \in [Callers -> BOOLEAN]
        /\ pc \in [Callers -> {"idle", "prepared", "sent"}]
        /\ \A d \in Callers : pc[d] = "prepared" => PreparedInv(d)
    BY Zenon DEF JsonRpcInv
  <1>2. /\ Begins(c, "CallBatch", objects, "none") /\ objects # << >> /\ UNCHANGED body
    BY Zenon DEF CallBatch
  <1>m. call'[c] = [op |-> "CallBatch", objects |-> objects, type |-> "none"]
    BY <1>1, <1>2, Zenon DEF Begins
  <1>3. \A d \in Callers \ {c} : call'[d] = call[d]
    BY <1>1, <1>2, Zenon DEF Begins
  <1>4. /\ DOMAIN ID' = Objects
        /\ \A o \in Objects \ Range(objects) : ID'[o] = ID[o]
        /\ \A o \in Objects : o \in Range(objects) =>
              ID'[o] = Max({k \in DOMAIN objects : objects[k] = o}) - 1
    BY Zenon DEF CallBatch
  <1>5. /\ shared' \in [Callers -> BOOLEAN]
        /\ \A d \in Callers : shared'[d] = shared[d] \/ pc[d] = "prepared"
        /\ \A d \in Callers : ~shared'[d] =>
              ~shared[d] /\ (pc[d] = "prepared" => Range(call[d].objects) \intersect Range(objects) = {})
    BY <1>1, Zenon DEF CallBatch
  <1>6. PreparedInv(c)'
    <2>1. ASSUME IsInjective(objects), NEW k \in DOMAIN objects PROVE ID'[objects[k]] = k - 1
      <3>1. {j \in DOMAIN objects : objects[j] = objects[k]} = {k}
        BY <2>1, Zenon DEF IsInjective
      <3>2. objects[k] \in Objects /\ objects[k] \in Range(objects)
        BY Zenon DEF Range
      <3>3. k \in Int
        OBVIOUS
      <3>4. Max({j \in DOMAIN objects : objects[j] = objects[k]}) = k
        BY <3>1, <3>3, OneOf, Zenon
      <3> QED
        BY <1>4, <3>2, <3>4, Zenon
    <2>2. call'[c].op = "CallBatch" /\ call'[c].objects = objects
      BY <1>m, Fields, Zenon
    <2>3. \A k \in DOMAIN objects : objects[k] \in Objects
      BY Zenon
    <2> QED
      BY <1>2, <2>1, <2>2, <2>3, Zenon DEF PreparedInv, Batch
  <1>7. ASSUME NEW d \in Callers \ {c}, pc[d] = "prepared" PROVE PreparedInv(d)'
    <2>1. PreparedInv(d) /\ call'[d] = call[d] /\ body'[d] = body[d]
      BY <1>1, <1>2, <1>3, <1>7, Zenon
    <2>2. ASSUME ~shared'[d], NEW k \in DOMAIN call[d].objects, call[d].objects[k] \in Objects
          PROVE  ID'[call[d].objects[k]] = ID[call[d].objects[k]]
      BY <1>4, <1>5, <1>7, <2>2, Zenon DEF Range
    <2> QED
      BY <1>5, <2>1, <2>2, Zenon DEF PreparedInv, Batch
  <1> QED
    BY <1>1, <1>2, <1>4, <1>5, <1>6, <1>7, BeginsInv, Zenon

-----------------------------------------------------------------------------
(* Requests that are sent, and calls that return                           *)

LEMMA newRequestInv ==
    ASSUME JsonRpcInv, NEW c \in Callers, newRequest(c)
    PROVE  JsonRpcInv'
  <1>1. /\ pc \in [Callers -> {"idle", "prepared", "sent"}] /\ DOMAIN body = Callers
        /\ DOMAIN ID = Objects /\ DOMAIN call = Callers /\ shared \in [Callers -> BOOLEAN]
        /\ \A d \in Callers : /\ pc[d] = "prepared" => PreparedInv(d)
                              /\ pc[d] = "sent" => SentInv(d)
    BY Zenon DEF JsonRpcInv
  <1>2. pc[c] = "prepared" /\ last' = Nothing /\ UNCHANGED <<ID, call, shared>>
    BY Zenon DEF newRequest
  <1>3. /\ pc' \in [Callers -> {"idle", "prepared", "sent"}] /\ DOMAIN body' = Callers
        /\ pc'[c] = "sent"
        /\ \A d \in Callers \ {c} : pc'[d] = pc[d] /\ body'[d] = body[d]
    BY <1>1, Zenon DEF newRequest
  <1>4. body'[c] = IF call[c].objects = << >> THEN body[c]
                   ELSE [k \in DOMAIN call[c].objects |->
                           [id |-> ID[call[c].objects[k]], method |-> call[c].objects[k],
                            params |-> "structured"]]
    BY <1>1, Zenon DEF newRequest
  <1>5. SentInv(c)'
    <2>1. PreparedInv(c) /\ UNCHANGED <<call[c], shared[c]>>
      BY <1>1, <1>2, Zenon
    <2>2. CASE call[c].op \in {"Call", "CallFor"}
      BY <1>4, <2>1, <2>2, Zenon DEF PreparedInv, SentInv, Batch, Single
    <2>3. CASE call[c].op \notin {"Call", "CallFor"}
      <3>1. call[c].objects # << >>
        BY <2>1, <2>3, Zenon DEF PreparedInv, Batch, Single
      <3>2. /\ DOMAIN body'[c] = DOMAIN call[c].objects
            /\ \A k \in DOMAIN call[c].objects :
                  /\ body'[c][k].id = ID[call[c].objects[k]]
                  /\ body'[c][k].method = call[c].objects[k]
        <4>1. body'[c] = [k \in DOMAIN call[c].objects |->
                            [id |-> ID[call[c].objects[k]], method |-> call[c].objects[k],
                             params |-> "structured"]]
          BY <1>4, <3>1, Zenon
        <4> QED
          BY ONLY <4>1, SMTT(30)
      <3> QED
        BY <2>1, <2>3, <3>2, Zenon DEF PreparedInv, SentInv, Batch, Single
    <2> QED
      BY <2>2, <2>3, Zenon
  <1>6. ASSUME NEW d \in Callers
        PROVE  /\ pc'[d] = "prepared" => PreparedInv(d)'
               /\ pc'[d] = "sent" => SentInv(d)'
    <2>1. CASE d = c
      BY <1>3, <1>5, <2>1, Zenon
    <2>2. CASE d # c
      BY <1>1, <1>2, <1>3, <2>2, StillPrepared, StillSent, Zenon
    <2> QED
      BY <2>1, <2>2, Zenon
  <1> QED
    BY <1>1, <1>2, <1>3, <1>6, Silent, Zenon DEF JsonRpcInv
LEMMA EndsInv ==
    ASSUME JsonRpcInv, NEW c \in Callers, NEW status, NEW done, NEW result,
           Ends(c, status, done, result), UNCHANGED ID, AnswersMatch', NoFalseSuccess'
    PROVE  JsonRpcInv'
  <1>1. /\ pc \in [Callers -> {"idle", "prepared", "sent"}] /\ DOMAIN body = Callers
        /\ DOMAIN ID = Objects /\ DOMAIN call = Callers /\ shared \in [Callers -> BOOLEAN]
        /\ \A d \in Callers : /\ pc[d] = "prepared" => PreparedInv(d)
                              /\ pc[d] = "sent" => SentInv(d)
    BY Zenon DEF JsonRpcInv
  <1>2. /\ pc' \in [Callers -> {"idle", "prepared", "sent"}] /\ DOMAIN body' = Callers
        /\ DOMAIN call' = Callers /\ shared' \in [Callers -> BOOLEAN]
        /\ pc'[c] = "idle"
        /\ \A d \in Callers \ {c} : /\ pc'[d] = pc[d] /\ body'[d] = body[d]
                                    /\ call'[d] = call[d] /\ shared'[d] = shared[d]
    BY <1>1, Zenon DEF Ends
  <1>3. ASSUME NEW d \in Callers
        PROVE  /\ pc'[d] = "prepared" => PreparedInv(d)'
               /\ pc'[d] = "sent" => SentInv(d)'
    <2>1. CASE d = c
      BY <1>2, <2>1, Zenon
    <2>2. CASE d # c
      BY <1>1, <1>2, <2>2, StillPrepared, StillSent, Zenon
    <2> QED
      BY <2>1, <2>2, Zenon
  <1> QED
    BY <1>1, <1>2, <1>3, Zenon DEF JsonRpcInv

LEMMA FailsInv ==
    ASSUME JsonRpcInv, NEW c \in Callers, EmptyList(c) \/ CallFails(c)
    PROVE  JsonRpcInv'
  <1>1. Ends(c, 0, {}, Returns(<< >>, Error)) /\ UNCHANGED ID
    BY Zenon DEF EmptyList, CallFails
  <1>2. last'.status = 0
    BY <1>1, Zenon DEF Ends
  <1>3. AnswersMatch' /\ NoFalseSuccess'
    BY <1>2 DEF AnswersMatch, NoFalseSuccess
  <1> QED
    BY <1>1, <1>3, EndsInv, Zenon

\* What the end of a call makes of a reply.
Result(c, r) == CASE call[c].op = "CallFor" -> ForReturns(c, r)
                  [] Batch(call[c])         -> doBatchCall(r)
                  [] OTHER                  -> doCall(r)

Usable(r) == r.form \notin {"garbage", "null"}

\* The responses are those of the reply or none; they come without an error only
\* if there are some, and CallFor has none that is one.
LEMMA Decoded ==
    ASSUME NEW r, NEW x, x = doCall(r) \/ x = doBatchCall(r)
    PROVE  /\ \/ x.responses = << >> /\ x.err # None
              \/ x.responses = r.answers /\ Usable(r) /\ (x = doBatchCall(r) => r.answers # << >>)
           /\ x.err.kind = "HTTPError" => x.err.code = r.status
  <1>1. x = Undecoded(r) \/ (x = Delivered(r) /\ Usable(r))
    BY Zenon DEF doCall, doBatchCall, Usable
  <1>2. x = doBatchCall(r) /\ r.answers = << >> => x = Undecoded(r)
    BY Zenon DEF doBatchCall
  <1>3. CASE x = Undecoded(r)
    BY <1>3, Zenon DEF Undecoded, Returns, HTTPError, Error, None
  <1>4. CASE x = Delivered(r) /\ Usable(r) /\ (x = doBatchCall(r) => r.answers # << >>)
    BY <1>4, Zenon DEF Delivered, Returns, HTTPError, None
  <1> QED
    BY <1>1, <1>2, <1>3, <1>4, Zenon
LEMMA ResultOf ==
    ASSUME NEW c \in Callers, SentInv(c), NEW r, NEW x, x = Result(c, r)
    PROVE  /\ \/ x.responses = << >> /\ x.err # None
              \/ x.responses = r.answers /\ Usable(r) /\ (Batch(call[c]) => r.answers # << >>)
           /\ x.err = None /\ call[c].op = "CallFor" => ~x.responses[1].error
           /\ x.err.kind = "HTTPError" => x.err.code = r.status
  <1>1. CASE call[c].op = "CallFor"
    <2> DEFINE y == doCall(r)
    <2>1. x = ForReturns(c, r) /\ ~Batch(call[c])
      BY <1>1, Zenon DEF Result, Batch
    <2>2. /\ \/ y.responses = << >> /\ y.err # None
             \/ y.responses = r.answers /\ Usable(r)
          /\ y.err.kind = "HTTPError" => y.err.code = r.status
      BY Decoded, Zenon
    <2>3. \/ x = Returns(<< >>, y.err) /\ y.err # None
          \/ x = Returns(<< >>, RPCError)
          \/ x = Returns(<< >>, Error)
          \/ x = y /\ y.err = None /\ ~y.responses[1].error
      BY <2>1, Zenon DEF ForReturns
    <2> HIDE DEF y
    <2>4. CASE x = Returns(<< >>, y.err) /\ y.err # None
      <3>1. x.responses = << >> /\ x.err = y.err
        BY <2>4 DEF Returns
      <3> QED
        BY <2>2, <2>4, <3>1, Zenon
    <2>5. CASE x = Returns(<< >>, RPCError) \/ x = Returns(<< >>, Error)
      BY <2>5 DEF Returns, RPCError, Error, None
    <2>6. CASE x = y /\ y.err = None /\ ~y.responses[1].error
      BY <2>1, <2>2, <2>6, Zenon
    <2> QED
      BY <2>3, <2>4, <2>5, <2>6, Zenon
  <1>2. CASE call[c].op # "CallFor" /\ Batch(call[c])
    <2>1. x = doBatchCall(r)
      BY <1>2, Zenon DEF Result
    <2> QED
      BY <1>2, <2>1, Decoded, Zenon
  <1>3. CASE call[c].op # "CallFor" /\ ~Batch(call[c])
    <2>1. x = doCall(r)
      BY <1>3, Zenon DEF Result
    <2> QED
      BY <1>3, <2>1, Decoded, Zenon
  <1> QED
    BY <1>1, <1>2, <1>3, Zenon

LEMMA AnswerFields ==
    ASSUME NEW c \in Callers, NEW done, NEW k, NEW type, NEW x, x = Answer(c, done, k, type)
    PROVE  /\ x.id = body[c][k].id /\ x.method = body[c][k].method
           /\ x.error <=> k \notin done
  BY Zenon DEF Answer

\* The usable replies to a batch: answers to some of its requests, in any order.
LEMMA RepliesToBatch ==
    ASSUME NEW c \in Callers, NEW done, NEW r \in Replies(c, done), Usable(r), Batch(call[c])
    PROVE  \E n : \E order \in [1..n -> DOMAIN body[c]] :
              /\ IsInjective(order)
              /\ r.answers = [k \in 1..n |-> Answer(c, done, order[k], "null")]
  <1>1. r.answers \in {[k \in DOMAIN order |-> Answer(c, done, order[k], "null")] :
                 order \in UNION {Injection(1..n, DOMAIN body[c]) : n \in 0..Len(body[c])}}
    BY Zenon DEF Replies, Usable
  <1>2. PICK order \in UNION {Injection(1..n, DOMAIN body[c]) : n \in 0..Len(body[c])} :
           r.answers = [k \in DOMAIN order |-> Answer(c, done, order[k], "null")]
    BY <1>1, Zenon
  <1>3. PICK n \in 0..Len(body[c]) : order \in Injection(1..n, DOMAIN body[c])
    BY <1>2, Zenon
  <1>4. order \in [1..n -> DOMAIN body[c]] /\ IsInjective(order) /\ DOMAIN order = 1..n
    BY <1>3, Zenon DEF Injection
  <1>5. r.answers = [k \in 1..n |-> Answer(c, done, order[k], "null")]
    BY <1>2, <1>4, Zenon
  <1> QED
    BY <1>4, <1>5, Zenon

\* Those to another call: the answer to the one request.
LEMMA RepliesToOne ==
    ASSUME NEW c \in Callers, NEW done, NEW r \in Replies(c, done), Usable(r), ~Batch(call[c])
    PROVE  \E type : r.answers = <<Answer(c, done, 1, type)>>
  <1>1. r.answers \in {<<Answer(c, done, 1, type)>> : type \in Types \union {"null"}}
    BY Zenon DEF Replies, Usable
  <1> QED
    BY <1>1, Zenon

LEMMA CallReturnsInv ==
    ASSUME JsonRpcInv, NEW c \in Callers, CallReturns(c)
    PROVE  JsonRpcInv'
  <1>1. SentInv(c) /\ UNCHANGED ID
    BY Zenon DEF JsonRpcInv, CallReturns
  <1>2. PICK done \in SUBSET DOMAIN body[c] : \E r \in Replies(c, done) :
           Ends(c, r.status, done, Result(c, r))
    BY Zenon DEF CallReturns, Result
  <1>3. PICK r \in Replies(c, done) : Ends(c, r.status, done, Result(c, r))
    BY <1>2, Zenon
  <1> DEFINE x == Result(c, r)
  <1>4. /\ last'.call = call[c] /\ last'.body = body[c] /\ last'.shared = shared[c]
        /\ last'.status = r.status /\ last'.done = done /\ last'.returned = x
    BY <1>3, Zenon DEF Ends
  <1>5. /\ \/ x.responses = << >> /\ x.err # None
           \/ x.responses = r.answers /\ Usable(r) /\ (Batch(call[c]) => r.answers # << >>)
        /\ x.err = None /\ call[c].op = "CallFor" => ~x.responses[1].error
        /\ x.err.kind = "HTTPError" => x.err.code = r.status
    BY <1>1, ResultOf, Zenon
  <1>b. ASSUME Usable(r), Batch(call[c])
        PROVE  \E n : \E order \in [1..n -> DOMAIN body[c]] :
                  /\ IsInjective(order)
                  /\ r.answers = [k \in 1..n |-> Answer(c, done, order[k], "null")]
    BY <1>b, RepliesToBatch, Zenon
  <1>o. ASSUME Usable(r), ~Batch(call[c])
        PROVE  \E type : r.answers = <<Answer(c, done, 1, type)>>
    BY <1>o, RepliesToOne, Zenon
  <1> HIDE DEF x
  <1>6. AnswersMatch'
    <2> DEFINE ids == [k \in DOMAIN call[c].objects |->
                          IF call[c].op = "CallBatch" THEN k - 1 ELSE body[c][k].id]
    <2> SUFFICES ASSUME Batch(call[c]), ~shared[c], IsInjective(call[c].objects), IsInjective(ids),
                        NEW k \in DOMAIN ids
                 PROVE  Finds(x.responses, ids[k], call[c].objects[k])
      BY <1>4, ZenonT(30) DEF AnswersMatch, Ids, Finds
    <2>1. /\ DOMAIN body[c] = DOMAIN call[c].objects /\ DOMAIN ids = DOMAIN body[c]
          /\ \A j \in DOMAIN body[c] : body[c][j].method = call[c].objects[j]
          /\ \A j \in DOMAIN body[c] : body[c][j].id = ids[j]
      BY <1>1, Zenon DEF SentInv, Batch
    <2> HIDE DEF ids
    <2>4. Identified(body[c], ids)
      BY <2>1, Zenon DEF Identified
    <2>2. CASE x.responses = << >>
      <3>1. /\ WithID(x.responses, ids[k]) = {} /\ DOMAIN AsMap(x.responses) = {}
        BY <2>2 DEF WithID, AsMap
      <3> QED
        BY <3>1, Zenon DEF GetByID, Finds
    <2>3. CASE x.responses = r.answers /\ Usable(r)
      <3>1. PICK n : \E order \in [1..n -> DOMAIN body[c]] :
               /\ IsInjective(order)
               /\ r.answers = [j \in 1..n |-> Answer(c, done, order[j], "null")]
        BY <1>b, <2>3, Zenon
      <3>2. PICK order \in [1..n -> DOMAIN body[c]] :
               /\ IsInjective(order)
               /\ r.answers = [j \in 1..n |-> Answer(c, done, order[j], "null")]
        BY <3>1, Zenon
      <3>3. Answered(body[c], r.answers, n, order)
        <4>1. \A j \in 1..n : r.answers[j] = Answer(c, done, order[j], "null")
          BY <3>2, Zenon
        <4>2. /\ DOMAIN r.answers = 1..n
              /\ \A j \in 1..n : /\ r.answers[j].id = body[c][order[j]].id
                                 /\ r.answers[j].method = body[c][order[j]].method
          BY <3>2, <4>1, AnswerFields
        <4> QED
          BY <3>2, <4>2, Zenon DEF Answered
      <3>4. Finds(r.answers, ids[k], body[c][k].method)
        BY <2>4, <3>3, Matched, Zenon
      <3> QED
        BY <2>1, <2>3, <3>4, Zenon
    <2> QED
      BY <1>5, <2>2, <2>3, Zenon
  <1>7. NoFalseSuccess'
    <2>1. ASSUME x.err = None, ~HasError(x.responses) \/ call[c].op = "CallFor",
                 NEW k \in DOMAIN x.responses
          PROVE  \E j \in done : body[c][j].method = x.responses[k].method
      <3>1. x.responses = r.answers /\ Usable(r)
        BY <1>5, <2>1, Zenon
      <3>2. CASE Batch(call[c])
        <4>1. PICK n : \E order \in [1..n -> DOMAIN body[c]] :
                 r.answers = [j \in 1..n |-> Answer(c, done, order[j], "null")]
          BY <1>b, <3>1, <3>2, Zenon
        <4>2. PICK order \in [1..n -> DOMAIN body[c]] :
                 r.answers = [j \in 1..n |-> Answer(c, done, order[j], "null")]
          BY <4>1, Zenon
        <4>a. x.responses[k] = Answer(c, done, order[k], "null")
          BY <2>1, <3>1, <4>2, Zenon
        <4>3. /\ x.responses[k].error <=> order[k] \notin done
              /\ x.responses[k].method = body[c][order[k]].method
          BY <4>a, AnswerFields
        <4>4. ~x.responses[k].error
          BY <2>1, <3>2, Zenon DEF HasError, Batch
        <4> QED
          BY <4>3, <4>4, Zenon
      <3>3. CASE ~Batch(call[c])
        <4>1. PICK type : r.answers = <<Answer(c, done, 1, type)>>
          BY <1>o, <3>1, <3>3, Zenon
        <4>a. k = 1 /\ x.responses[1] = Answer(c, done, 1, type)
          BY <2>1, <3>1, <4>1
        <4>2. /\ k = 1
              /\ x.responses[1].error <=> 1 \notin done
              /\ x.responses[1].method = body[c][1].method
          BY <4>a, AnswerFields, SMTT(30)
        <4>3. ~x.responses[1].error
          BY <1>5, <2>1, <4>2, Zenon DEF HasError
        <4> QED
          BY <4>2, <4>3, Zenon
      <3> QED
        BY <3>2, <3>3, Zenon
    <2>2. ASSUME x.err = None PROVE x.responses # << >>
      <3>1. x.responses = r.answers /\ Usable(r) /\ (Batch(call[c]) => r.answers # << >>)
        BY <1>5, <2>2, Zenon
      <3>2. ASSUME ~Batch(call[c]) PROVE r.answers # << >>
        <4>1. PICK type : r.answers = <<Answer(c, done, 1, type)>>
          BY <1>o, <3>1, <3>2, Zenon
        <4> QED
          BY <4>1
      <3> QED
        BY <3>1, <3>2, Zenon
    <2> QED
      BY <1>4, <1>5, <2>1, <2>2, Zenon DEF NoFalseSuccess
  <1> QED
    BY <1>1, <1>3, <1>6, <1>7, EndsInv, Zenon

-----------------------------------------------------------------------------
\* Every step of every caller keeps the invariant.
LEMMA RpcInvNext == JsonRpcInv /\ [RpcNext]_rpcVars => JsonRpcInv'
  <1> SUFFICES ASSUME JsonRpcInv, [RpcNext]_rpcVars PROVE JsonRpcInv'
    BY Zenon
  <1>1. CASE UNCHANGED rpcVars
    <2>1. UNCHANGED <<ID, pc, call, body, shared, last>>
      BY <1>1, Zenon DEF rpcVars
    <2>2. \A c \in Callers : /\ PreparedInv(c) => PreparedInv(c)'
                             /\ SentInv(c) => SentInv(c)'
      BY <2>1, StillPrepared, StillSent, Zenon
    <2>3. AnswersMatch' /\ NoFalseSuccess'
      BY <2>1, ZenonT(30) DEF JsonRpcInv, AnswersMatch, NoFalseSuccess, Ids
    <2> QED
      BY <2>1, <2>2, <2>3, ZenonT(30) DEF JsonRpcInv
  <1>2. ASSUME NEW c \in Callers,
               Call(c) \/ CallFor(c) \/ CallRaw(c) \/ EmptyList(c)
                  \/ newRequest(c) \/ CallFails(c) \/ CallReturns(c)
        PROVE  JsonRpcInv'
    BY <1>2, CallInv, FailsInv, newRequestInv, CallReturnsInv, Zenon
  <1>3. ASSUME NEW c \in Callers, NEW n \in 1..MaxBatch, NEW objects \in [1..n -> Objects],
               CallBatchRaw(c, objects) \/ CallBatch(c, objects)
        PROVE  JsonRpcInv'
    <2>1. n \in Nat
      BY JsonRpcAssumption
    <2> QED
      BY <1>3, <2>1, CallBatchRawInv, CallBatchInv, Zenon
  <1>4. CASE RpcFinished
    BY <1>1, <1>4, Zenon DEF RpcFinished
  <1> QED
    BY <1>1, <1>2, <1>3, <1>4, Zenon DEF RpcNext

\* Until it is marshalled, the ids of a batch are its positions unless another
\* call wrote to its objects; what is marshalled are the call's own requests with
\* the ids they had; and the call that returned last is as promised
\* (rpcClient.CallBatch, CallBatchRaw and doBatchCall, jsonrpc.go:398-573).
THEOREM JsonRpcInvariant == RpcSpec => []JsonRpcInv
  BY RpcInvInit, RpcInvNext, PTL DEF RpcSpec

\* Answers are matched to requests by their ids alone (jsonrpc.go:284-302): for
\* every size of a batch, every order and selection of answers, and any number of
\* callers, the id of a request leads to its own answer, as long as no other call
\* wrote to the request objects before they were marshalled.
THEOREM AnswersMatchCorrect == RpcSpec => []AnswersMatch
  <1>1. JsonRpcInv => AnswersMatch
    BY Zenon DEF JsonRpcInv
  <1> QED
    BY JsonRpcInvariant, <1>1, PTL

\* No combination of HTTP status, body, RPC error and JSON type makes a call
\* report what the server did not do (jsonrpc.go:451-573).
THEOREM NoFalseSuccessCorrect == RpcSpec => []NoFalseSuccess
  <1>1. JsonRpcInv => NoFalseSuccess
    BY Zenon DEF JsonRpcInv
  <1> QED
    BY JsonRpcInvariant, <1>1, PTL
=============================================================================
