-------------------------- MODULE SignalPathProofs --------------------------
(***************************************************************************)
(* Proofs along the path of a signal.  EventPath, for any symbols, event   *)
(* types, queue size, pass limit and back-pressure: type correctness with  *)
(* the queue inside its bound, and that the scheduler never sleeps on work *)
(* nobody will wake it for.  Committee, for any snapshots and histories:   *)
(* no trade without the evidence for it.  FanOut, for any terminals,       *)
(* accounts, signals, volume and lot step: type correctness; that the      *)
(* volume sent passed the gate; that an order appears only where it is     *)
(* meant; and that the canonical fan-out implements AtMostOnceDispatch     *)
(* with (signal, account) as the key.                                      *)
(***************************************************************************)
EXTENDS EventPath, Committee, FanOut, SumProofs, SequenceTheorems, TLAPS

Feeds == [todo : Seq(Pairs), routed : Nat]

LEMMA PathConstants ==
  /\ MaxSize \in Nat /\ MaxSize > 0 /\ MaxPerPass \in Nat /\ MaxEvents \in Nat
  /\ FeedTypes \subseteq TypeNames
  /\ IsFiniteSet(FeedSymbols \X FeedTypes)
<1>1. MaxSize \in Nat \ {0} /\ MaxPerPass \in Nat /\ MaxEvents \in Nat
  BY EventPathAssumption
<1>2. FeedTypes \subseteq TypeNames /\ IsFiniteSet(Primaries) /\ IsFiniteSet(Fallbacks)
  BY EventPathAssumption
<1>3. IsFiniteSet(TypeNames)
  <2>1. TypeNames = {"DOJI", "TRADE_CLOSE", "TREND", "VOLATILITY_CONTRACTING", "BREAKOUT", "RISK"}
    BY DEF TypeNames, PriorityOf
  <2>2. IsFiniteSet({"DOJI"})
    BY FS_Singleton
  <2>3. IsFiniteSet({"DOJI"} \cup {"TRADE_CLOSE"})
    BY <2>2, FS_AddElement
  <2>4. IsFiniteSet(({"DOJI"} \cup {"TRADE_CLOSE"}) \cup {"TREND"})
    BY <2>3, FS_AddElement
  <2>5. IsFiniteSet(({"DOJI"} \cup {"TRADE_CLOSE"} \cup {"TREND"}) \cup {"VOLATILITY_CONTRACTING"})
    BY <2>4, FS_AddElement
  <2>6. IsFiniteSet(({"DOJI"} \cup {"TRADE_CLOSE"} \cup {"TREND"} \cup {"VOLATILITY_CONTRACTING"})
                    \cup {"BREAKOUT"})
    BY <2>5, FS_AddElement
  <2>7. IsFiniteSet(({"DOJI"} \cup {"TRADE_CLOSE"} \cup {"TREND"} \cup {"VOLATILITY_CONTRACTING"}
                      \cup {"BREAKOUT"}) \cup {"RISK"})
    BY <2>6, FS_AddElement
  <2>8. TypeNames = {"DOJI"} \cup {"TRADE_CLOSE"} \cup {"TREND"} \cup {"VOLATILITY_CONTRACTING"}
                      \cup {"BREAKOUT"} \cup {"RISK"}
    BY <2>1
  <2> QED BY <2>7, <2>8
<1>4. IsFiniteSet(FeedTypes) /\ IsFiniteSet(FeedSymbols)
  BY <1>2, <1>3, FS_Subset, FS_Union DEF FeedSymbols
<1> QED BY <1>1, <1>2, <1>4, FS_Product

\* Taking one event out leaves a queue that is one shorter (dequeue).
LEMMA RemoveEffect ==
  ASSUME NEW S, NEW s \in Seq(S), NEW i \in DOMAIN s
  PROVE  RemoveAt(s, i) \in Seq(S) /\ Len(RemoveAt(s, i)) = Len(s) - 1
<1>1. i \in 1..Len(s) /\ Len(s) \in Nat
  BY LenProperties
<1>2. /\ SubSeq(s, 1, i - 1) \in Seq(S)
      /\ Len(SubSeq(s, 1, i - 1)) = i - 1
  <2>1. \A j \in 1..(i - 1) : s[j] \in S
    BY <1>1, ElementOfSeq
  <2> QED BY <1>1, <2>1, SubSeqProperties
<1>3. /\ SubSeq(s, i + 1, Len(s)) \in Seq(S)
      /\ Len(SubSeq(s, i + 1, Len(s))) = Len(s) - i
  <2>1. \A j \in (i + 1)..Len(s) : s[j] \in S
    BY <1>1, ElementOfSeq
  <2> QED BY <1>1, <2>1, SubSeqProperties
<1> DEFINE before == SubSeq(s, 1, i - 1)
           after == SubSeq(s, i + 1, Len(s))
<1>4. RemoveAt(s, i) = before \o after
  BY DEF RemoveAt
<1>5. before \in Seq(S) /\ after \in Seq(S) /\ Len(before) = i - 1 /\ Len(after) = Len(s) - i
  BY <1>2, <1>3
<1> HIDE DEF before, after
<1>6. before \o after \in Seq(S) /\ Len(before \o after) = Len(before) + Len(after)
  BY <1>5, ConcatProperties
<1>7. (i - 1) + (Len(s) - i) = Len(s) - 1
  BY <1>1
<1> QED BY <1>4, <1>5, <1>6, <1>7

\* The events of a poll, in any order, form a sequence.
LEMMA OrderedEvents ==
  ASSUME NEW found \in SUBSET Pairs, NEW order \in SetToSeqs(found)
  PROVE  order \in Seq(Pairs)
<1>1. IsFiniteSet(found)
  BY PathConstants, FS_Subset DEF Pairs
<1>2. Cardinality(found) \in Nat
  BY <1>1, FS_CardinalityType
<1>3. order \in [1..Cardinality(found) -> Pairs]
  BY DEF SetToSeqs
<1> QED BY <1>2, <1>3

\* enqueue never goes past the bound and counts what it lets in.
LEMMA EnqueueEffect ==
  ASSUME EventPathTypeOK, MayOffer, NEW e \in Events, Enqueue(e)
  PROVE  /\ queue' \in Seq(Events) /\ Len(queue') <= MaxSize
         /\ arrived' \in 0..MaxEvents
         /\ Full => queue' = queue
<1>1. /\ queue \in Seq(Events) /\ Len(queue) <= MaxSize /\ Len(queue) \in Nat
      /\ arrived \in 0..MaxEvents
  BY DEF EventPathTypeOK
<1>2. CASE Full
  BY <1>1, <1>2 DEF Enqueue, queueVars
<1>3. CASE ~Full
  <2>1. queue' = Append(queue, e) /\ arrived' = arrived + 1
    BY <1>3 DEF Enqueue
  <2>2. Append(queue, e) \in Seq(Events) /\ Len(Append(queue, e)) = Len(queue) + 1
    BY <1>1
  <2> QED BY <1>1, <1>3, <2>1, <2>2, PathConstants DEF Full, MayOffer
<1> QED BY <1>2, <1>3

-----------------------------------------------------------------------------
(* Type correctness                                                        *)

LEMMA TypeInit == EventPathInit => EventPathTypeOK
<1> SUFFICES ASSUME EventPathInit
             PROVE  EventPathTypeOK
  OBVIOUS
<1>1. MaxSize \in Nat /\ MaxSize > 0 /\ MaxEvents \in Nat
  BY PathConstants
<1>2. feed \in Feeds /\ queue \in Seq(Events) /\ Len(queue) = 0
  BY DEF EventPathInit, Feeds
<1>3. arrived \in 0..MaxEvents /\ gate \in [Pairs -> 0..MaxEvents]
  BY <1>1 DEF EventPathInit, SchedulerInit
<1>4. /\ loop = "top" /\ taken = 0 /\ wake = FALSE /\ stopping = FALSE /\ monitor = "rest"
      /\ fresh = FeedSymbols /\ cooling = {}
  BY DEF EventPathInit, SchedulerInit, MonitorInit
<1>5. /\ loop \in {"top", "drain", "idle", "off"} /\ taken \in Nat
      /\ monitor \in {"rest", "wake"} /\ wake \in BOOLEAN /\ stopping \in BOOLEAN
      /\ fresh \subseteq FeedSymbols /\ cooling \subseteq Pairs
  BY <1>4
<1>6. Len(queue) <= MaxSize
  BY <1>1, <1>2
<1> QED
  BY <1>2, <1>3, <1>5, <1>6 DEF EventPathTypeOK, Feeds

LEMMA TypeStep ==
  ASSUME EventPathTypeOK, [EventPathNext]_pathVars
  PROVE  EventPathTypeOK'
<1> DEFINE FeedOk == fresh' \subseteq FeedSymbols /\ cooling' \subseteq Pairs /\ feed' \in Feeds
           QueueOk == queue' \in Seq(Events) /\ Len(queue') <= MaxSize /\ arrived' \in 0..MaxEvents
           LoopOk == /\ gate' \in [Pairs -> 0..MaxEvents]
                     /\ loop' \in {"top", "drain", "idle", "off"} /\ taken' \in Nat
           FlagsOk == monitor' \in {"rest", "wake"} /\ wake' \in BOOLEAN /\ stopping' \in BOOLEAN
<1>a. FeedOk /\ QueueOk /\ LoopOk /\ FlagsOk => EventPathTypeOK'
  BY DEF EventPathTypeOK, Feeds
<1>b. UNCHANGED feedVars => FeedOk
  BY DEF EventPathTypeOK, feedVars, Feeds
<1>c. UNCHANGED queueVars => QueueOk
  BY DEF EventPathTypeOK, queueVars
<1>d. UNCHANGED loopVars => LoopOk
  BY DEF EventPathTypeOK, loopVars
<1>e. UNCHANGED <<monitor, wake, stopping>> => FlagsOk
  BY DEF EventPathTypeOK
<1>f. /\ fresh \subseteq FeedSymbols /\ cooling \subseteq Pairs /\ feed \in Feeds
      /\ queue \in Seq(Events) /\ Len(queue) <= MaxSize /\ arrived \in 0..MaxEvents
      /\ gate \in [Pairs -> 0..MaxEvents] /\ taken \in Nat
      /\ loop \in {"top", "drain", "idle", "off"}
      /\ monitor \in {"rest", "wake"} /\ wake \in BOOLEAN /\ stopping \in BOOLEAN
  BY DEF EventPathTypeOK, Feeds
<1>g. ASSUME NEW i \in DOMAIN queue, queue' = RemoveAt(queue, i), arrived' = arrived
      PROVE  QueueOk
  <2>1. RemoveAt(queue, i) \in Seq(Events) /\ Len(RemoveAt(queue, i)) = Len(queue) - 1
    BY <1>f, RemoveEffect
  <2>2. Len(queue) \in Nat /\ MaxSize \in Nat
    BY <1>f, PathConstants
  <2> QED BY <1>f, <1>g, <2>1, <2>2
<1>1. ASSUME NEW s \in FeedSymbols, MarketMoves(s)
      PROVE  EventPathTypeOK'
  <2>1. FeedOk
    BY <1>1, <1>f DEF MarketMoves
  <2> QED BY <1>1, <1>a, <1>c, <1>d, <1>e, <2>1 DEF MarketMoves
<1>2. CASE PollOnce
  <2>1. PICK read \in SUBSET FeedSymbols :
          /\ fresh' = fresh \ read
          /\ \E found \in SUBSET (read \X FeedTypes) : \E order \in SetToSeqs(found) :
               feed' = [feed EXCEPT !.todo = order]
    BY <1>2 DEF PollOnce, Polled, FeedSymbols
  <2>2. PICK found \in SUBSET Pairs : \E order \in SetToSeqs(found) :
               feed' = [feed EXCEPT !.todo = order]
    BY <2>1 DEF Pairs
  <2>3. PICK order \in SetToSeqs(found) : feed' = [feed EXCEPT !.todo = order]
    BY <2>2
  <2>4. feed' \in Feeds
    BY <1>f, <2>3, OrderedEvents DEF Feeds
  <2>5. FeedOk
    BY <1>2, <1>f, <2>1, <2>4 DEF PollOnce
  <2> QED BY <1>2, <1>a, <1>c, <1>d, <1>e, <2>5 DEF PollOnce
<1>3. CASE RouteEvent
  <2> DEFINE p == Head(feed.todo)
             e == [type |-> p[2], symbol |-> p[1], stamp |-> Stamp]
  <2>1. feed.todo \in Seq(Pairs) /\ feed.todo # <<>> /\ feed.routed \in Nat
    BY <1>3, <1>f DEF RouteEvent, Feeds
  <2>2. p \in Pairs /\ Tail(feed.todo) \in Seq(Pairs)
    BY <2>1, HeadTailProperties
  <2>3. CASE p \in cooling
    <3>1. feed' = [feed EXCEPT !.todo = Tail(@)] /\ UNCHANGED <<queueVars, cooling>>
      BY <1>3, <2>3 DEF RouteEvent
    <3>2. feed' \in Feeds
      BY <1>f, <2>2, <3>1 DEF Feeds
    <3>3. FeedOk
      BY <1>3, <1>f, <3>1, <3>2 DEF RouteEvent
    <3> QED BY <1>3, <1>a, <1>c, <1>d, <1>e, <3>1, <3>3 DEF RouteEvent
  <2>4. CASE p \notin cooling
    <3>1. /\ MayOffer /\ Enqueue(e)
          /\ feed' = [todo |-> Tail(feed.todo), routed |-> feed.routed + (IF Full THEN 0 ELSE 1)]
          /\ cooling' = IF Full THEN cooling ELSE cooling \cup {p}
      BY <1>3, <2>4 DEF RouteEvent
    <3>2. e \in Events
      <4>1. p[1] \in FeedSymbols /\ p[2] \in TypeNames
        BY <2>2, PathConstants DEF Pairs
      <4>2. Stamp \in 0..MaxEvents
        BY <1>f, <3>1, PathConstants DEF Stamp, MayOffer
      <4> QED BY <4>1, <4>2 DEF Events
    <3> HIDE DEF e
    <3>3. QueueOk
      BY <3>1, <3>2, EnqueueEffect
    <3>4. FeedOk
      BY <1>3, <1>f, <2>1, <2>2, <3>1 DEF RouteEvent, Feeds
    <3> QED BY <1>3, <1>a, <1>d, <1>e, <3>3, <3>4 DEF RouteEvent
  <2> QED BY <2>3, <2>4
<1>4. CASE OnEmit
  <2>1. FeedOk
    BY <1>4, <1>f DEF OnEmit, Feeds
  <2> QED BY <1>4, <1>a, <1>c, <1>d, <1>f, <2>1 DEF OnEmit
<1>5. ASSUME NEW p \in Pairs, CooldownOver(p) \/ RecordExpires(p)
      PROVE  EventPathTypeOK'
  <2>1. CASE CooldownOver(p)
    <3>1. FeedOk
      BY <2>1, <1>f DEF CooldownOver
    <3> QED BY <2>1, <1>a, <1>c, <1>d, <1>e, <3>1 DEF CooldownOver
  <2>2. CASE RecordExpires(p)
    <3>1. LoopOk
      BY <2>2, <1>f, PathConstants DEF RecordExpires
    <3> QED BY <2>2, <1>a, <1>b, <1>c, <1>e, <3>1 DEF RecordExpires
  <2> QED BY <1>5, <2>1, <2>2
<1>6. CASE RiskEmit
  <2> DEFINE e == [type |-> "RISK", symbol |-> NoSymbol, stamp |-> 0]
  <2>1. e \in Events
    BY PathConstants DEF Events, TypeNames, PriorityOf
  <2> HIDE DEF e
  <2>2. MayOffer /\ Enqueue(e)
    BY <1>6 DEF RiskEmit, e
  <2>3. QueueOk
    BY <2>1, <2>2, EnqueueEffect
  <2> QED BY <1>6, <1>a, <1>b, <1>d, <1>f, <2>3 DEF RiskEmit
<1>7. CASE RiskWake
  BY <1>7, <1>a, <1>b, <1>c, <1>d, <1>f DEF RiskWake
<1>8. CASE BeginPass \/ EndPass \/ Resume \/ Exit
  <2>1. LoopOk
    BY <1>8, <1>f DEF BeginPass, EndPass, Resume, Exit
  <2>2. FlagsOk
    <3>1. monitor' = monitor /\ stopping' = stopping /\ (wake' = wake \/ wake' = FALSE)
      BY <1>8 DEF BeginPass, EndPass, Resume, Exit
    <3> QED BY <1>f, <3>1
  <2>3. UNCHANGED <<feedVars, queueVars>>
    BY <1>8 DEF BeginPass, EndPass, Resume, Exit
  <2> QED BY <1>a, <1>b, <1>c, <2>1, <2>2, <2>3
<1>9. CASE SkipBackground \/ GateOut
  <2>1. PICK i \in DOMAIN queue : queue' = RemoveAt(queue, i)
    BY <1>9 DEF SkipBackground, GateOut
  <2>2. UNCHANGED <<feedVars, monitor, arrived, loop, taken, gate, wake, stopping>>
    BY <1>9 DEF SkipBackground, GateOut
  <2>3. QueueOk
    BY <1>g, <2>1, <2>2
  <2> QED BY <1>a, <1>b, <1>d, <1>e, <2>2, <2>3 DEF loopVars
<1>10. CASE Analyse
  <2> DEFINE close == [type |-> "TRADE_CLOSE", symbol |-> NoSymbol, stamp |-> 0]
             Lands(i, closes) == closes = 1 /\ Len(RemoveAt(queue, i)) < MaxSize
  <2>1. PICK i \in DOMAIN queue, closes \in 0..1 :
          /\ Allowed(queue[i])
          /\ closes = 1 => MayOffer
          /\ queue' = IF Lands(i, closes) THEN Append(RemoveAt(queue, i), close)
                                          ELSE RemoveAt(queue, i)
          /\ arrived' = arrived + (IF Lands(i, closes) THEN 1 ELSE 0)
          /\ wake' = (wake \/ closes = 1)
          /\ gate' = [gate EXCEPT ![PairOf(queue[i])] = queue[i].stamp]
    BY <1>10, Zenon DEF Analyse
  <2> DEFINE left == RemoveAt(queue, i)
  <2>2. left \in Seq(Events) /\ Len(left) = Len(queue) - 1
    BY <1>f, RemoveEffect
  <2>3. close \in Events
    BY PathConstants DEF Events, TypeNames, PriorityOf
  <2>4. QueueOk
    <3>1. CASE Lands(i, closes)
      <4>1. queue' = Append(left, close) /\ arrived' = arrived + 1 /\ MayOffer /\ Len(left) < MaxSize
        BY <2>1, <3>1
      <4> HIDE DEF left, close
      <4>2. Append(left, close) \in Seq(Events) /\ Len(Append(left, close)) = Len(left) + 1
        BY <2>2, <2>3
      <4> QED BY <1>f, <2>2, <4>1, <4>2, PathConstants DEF MayOffer
    <3>2. CASE ~Lands(i, closes)
      BY <1>f, <1>g, <2>1, <3>2
    <3> QED BY <3>1, <3>2
  <2>5. queue[i] \in Events
    BY <1>f, <2>1, ElementOfSeq, LenProperties
  <2>6. LoopOk
    <3>1. queue[i].stamp \in 0..MaxEvents
      BY <2>5 DEF Events
    <3>2. gate' \in [Pairs -> 0..MaxEvents]
      BY <1>f, <2>1, <3>1
    <3> QED BY <1>10, <1>f, <3>2 DEF Analyse
  <2>7. FlagsOk
    BY <1>10, <1>f, <2>1 DEF Analyse
  <2> QED BY <1>10, <1>a, <1>b, <2>4, <2>6, <2>7 DEF Analyse
<1>11. CASE Stop
  BY <1>11, <1>a, <1>b, <1>c, <1>d, <1>f DEF Stop
<1>12. CASE UNCHANGED pathVars
  BY <1>12, <1>a, <1>b, <1>c, <1>d, <1>e DEF pathVars
<1> QED
  BY <1>1, <1>2, <1>3, <1>4, <1>5, <1>6, <1>7, <1>8, <1>9, <1>10, <1>11, <1>12
  DEF EventPathNext, FeedStep, Schedule

\* The queue keeps its bound and every fingerprint is the stamp of an event,
\* whatever the worker threads and the scheduler interleave to.
THEOREM TypeCorrect == EventPathSpec => []EventPathTypeOK
<1> QED BY TypeInit, TypeStep, PTL DEF EventPathSpec

-----------------------------------------------------------------------------
(* Waking                                                                  *)

\* Going to sleep happens on an empty queue, and whoever fills the queue of a
\* sleeping loop has a wake-up to deliver, which only the start of a pass clears.
LEMMA WakeStep ==
  ASSUME EventPathTypeOK, NoLostWake, [EventPathNext]_pathVars
  PROVE  NoLostWake'
<1>a. ASSUME queue' = queue, loop' = loop, wake' = wake, monitor' = monitor,
             feed'.routed = feed.routed
      PROVE  NoLostWake'
  BY <1>a DEF NoLostWake
<1>b. loop' # "idle" => NoLostWake'
  BY DEF NoLostWake
<1>c. wake' = TRUE => NoLostWake'
  BY DEF NoLostWake
<1>d. feed \in Feeds /\ MaxPerPass \in Nat /\ taken \in Nat
  BY PathConstants DEF EventPathTypeOK, Feeds
<1>1. CASE \/ \E s \in FeedSymbols : MarketMoves(s)
           \/ \E p \in Pairs : CooldownOver(p) \/ RecordExpires(p)
           \/ Stop \/ UNCHANGED pathVars
  BY <1>1, <1>a
  DEF MarketMoves, CooldownOver, RecordExpires, Stop, pathVars, feedVars, queueVars, loopVars
<1>2. CASE PollOnce
  <2>1. PICK order : feed' = [feed EXCEPT !.todo = order]
    BY <1>2 DEF PollOnce
  <2>2. feed'.routed = feed.routed
    BY <1>d, <2>1 DEF Feeds
  <2> QED BY <1>2, <1>a, <2>2 DEF PollOnce, queueVars, loopVars
<1>3. CASE RouteEvent
  <2> DEFINE p == Head(feed.todo)
  <2>1. UNCHANGED <<loop, wake, monitor>>
    BY <1>3 DEF RouteEvent, loopVars
  <2>2. CASE p \in cooling
    <3>1. feed'.routed = feed.routed /\ queue' = queue
      BY <1>3, <1>d, <2>2 DEF RouteEvent, queueVars, Feeds
    <3> QED BY <1>a, <2>1, <3>1
  <2>3. CASE p \notin cooling
    <3>1. /\ feed'.routed = feed.routed + (IF Full THEN 0 ELSE 1)
          /\ Full => queue' = queue
      BY <1>3, <2>3 DEF RouteEvent, Enqueue, queueVars
    <3>2. feed.routed \in Nat
      BY <1>d DEF Feeds
    <3> QED BY <2>1, <3>1, <3>2 DEF NoLostWake
  <2> QED BY <2>2, <2>3
<1>4. CASE OnEmit \/ RiskWake
  BY <1>4, <1>c DEF OnEmit, RiskWake
<1>5. CASE RiskEmit
  BY <1>5 DEF RiskEmit, NoLostWake
<1>6. CASE BeginPass \/ SkipBackground \/ GateOut \/ Analyse \/ Resume \/ Exit
  BY <1>6, <1>b DEF BeginPass, SkipBackground, GateOut, Analyse, Resume, Exit, Takes
<1>7. CASE EndPass
  <2>1. taken = 0 => queue = <<>>
    BY <1>7, <1>d DEF EndPass
  <2>2. queue' = queue /\ loop' = IF taken = 0 THEN "idle" ELSE "top"
    BY <1>7 DEF EndPass, queueVars
  <2> QED BY <2>1, <2>2 DEF NoLostWake
<1> QED BY <1>1, <1>2, <1>3, <1>4, <1>5, <1>6, <1>7 DEF EventPathNext, FeedStep, Schedule

\* The loop never sleeps on a queue with events in it unless a wake-up is set or
\* about to be, however the feed, the monitor and the loop interleave (_run_loop).
THEOREM NoLostWakeHolds == EventPathSpec => []NoLostWake
<1>1. EventPathInit => NoLostWake
  BY DEF EventPathInit, SchedulerInit, NoLostWake
<1> QED BY <1>1, WakeStep, TypeCorrect, PTL DEF EventPathSpec

-----------------------------------------------------------------------------
(* The committee.  Every analyst's confidence is a natural number, so the  *)
(* lead's weights add up, and a direction of the verdict can only be the   *)
(* one that dominated in what the lead heard.                              *)

LEMMA Caps ==
  /\ \A x \in Int, c \in Int : AtMost(x, c) \in Int /\ AtMost(x, c) <= c
                               /\ (x >= 0 /\ c >= 0 => AtMost(x, c) >= 0)
  /\ \A x \in Int, c \in Int : AtLeast(x, c) \in Int /\ AtLeast(x, c) >= c
  /\ \A x \in Int : Clamp01(x) \in Nat /\ Abs(x) \in Nat
  BY DEF AtMost, AtLeast, Clamp01, Abs

Skills == [total : Nat, correct : Nat]

\* What memory adds or takes away leaves a confidence a confidence.
LEMMA AdjustedIsNat ==
  ASSUME NEW conf \in Int, NEW skill \in Skills
  PROVE  AdjustConfidence(conf, skill) \in Nat
<1>1. Nudge(skill) \in Int
  <2>1. skill.total \in Nat /\ 300 * skill.correct \in Nat
    BY DEF Skills
  <2>2. CASE skill.total < MinSamples
    BY <2>2 DEF Nudge
  <2>3. CASE ~(skill.total < MinSamples)
    <3>1. skill.total > 0
      BY <2>1, <2>3 DEF MinSamples
    <3> DEFINE cases == 300 * skill.correct
               all == skill.total
    <3>2. cases \in Nat /\ all \in Nat /\ all > 0
      BY <2>1, <3>1
    <3> HIDE DEF cases, all
    <3>3. (cases \div all) - 150 \in Int
      BY <3>2
    <3> QED BY <2>3, <3>3 DEF Nudge, cases, all
  <2> QED BY <2>2, <2>3
<1>2. conf + Nudge(skill) \in Int
  BY <1>1
<1> QED BY <1>2, Caps DEF AdjustConfidence

\* The technical analyst.
LEMMA TechnicalIsNat ==
  ASSUME NEW m, MarketOK(m), NEW skill \in Skills
  PROVE  TechnicalAnalyst(m, skill).conf \in Nat
<1>1. IsFiniteSet(m.events)
  <2>1. m.events \subseteq EventKinds
    BY DEF MarketOK
  <2>2. IsFiniteSet(EventKinds)
    <3>1. IsFiniteSet({})
      BY FS_EmptySet
    <3> DEFINE A == {"TREND_BULLISH", "TREND_BEARISH", "BREAKOUT"}
               B == {"BREAKDOWN", "MOMENTUM_BULLISH", "MOMENTUM_BEARISH"}
               C == {"EMA_CROSSOVER", "RSI_OVERSOLD", "RSI_OVERBOUGHT"}
               D == {"STOCH_OVERSOLD", "STOCH_OVERBOUGHT", "DOJI"}
    <3>2. \A x, y, z : IsFiniteSet({x, y, z})
      <4> SUFFICES ASSUME NEW x, NEW y, NEW z PROVE IsFiniteSet({x, y, z})
        OBVIOUS
      <4>1. IsFiniteSet({x})
        BY FS_Singleton
      <4>2. IsFiniteSet({x} \cup {y})
        BY <4>1, FS_AddElement
      <4>3. IsFiniteSet(({x} \cup {y}) \cup {z})
        BY <4>2, FS_AddElement
      <4>4. {x, y, z} = ({x} \cup {y}) \cup {z}
        OBVIOUS
      <4> QED BY <4>3, <4>4
    <3>3. IsFiniteSet(A \cup B)
      BY <3>2, FS_Union
    <3>4. IsFiniteSet((A \cup B) \cup C)
      BY <3>2, <3>3, FS_Union
    <3>5. IsFiniteSet(((A \cup B) \cup C) \cup D)
      BY <3>2, <3>4, FS_Union
    <3>6. EventKinds = ((A \cup B) \cup C) \cup D
      BY DEF EventKinds
    <3> QED BY <3>5, <3>6
  <2> QED BY <2>1, <2>2, FS_Subset
<1>2. \A sign \in {-1, 1} : Score(m.events, sign) \in Nat
  <2> SUFFICES ASSUME NEW sign \in {-1, 1} PROVE Score(m.events, sign) \in Nat
    OBVIOUS
  <2> DEFINE worth(points) == Cardinality({e \in m.events : EventScore(e) = sign * points})
  <2>1. ASSUME NEW points PROVE worth(points) \in Nat
    <3>1. IsFiniteSet({e \in m.events : EventScore(e) = sign * points})
      BY <1>1, FS_Subset
    <3> QED BY <3>1, FS_CardinalityType
  <2>2. Score(m.events, sign) = 20 * worth(20) + 12 * worth(12) + 6 * worth(6)
    BY DEF Score
  <2>3. worth(20) \in Nat /\ worth(12) \in Nat /\ worth(6) \in Nat
    BY <2>1
  <2> HIDE DEF worth
  <2> QED BY <2>2, <2>3
<1> DEFINE rawUp == Score(m.events, 1)
           rawDown == Score(m.events, -1)
           up == Discounted(m, rawUp, rawDown, "DOWN")
           down == Discounted(m, rawDown, rawUp, "UP")
           net == up - down
           total == up + down
           base == IF total = 0 THEN 0 ELSE AtMost(500 + (450 * Abs(net)) \div total, 950)
           torn == up > 0 /\ down > 0 /\ 2 * Abs(net) < total
           conf == IF torn THEN (base * 6) \div 10 ELSE base
<1>3. rawUp \in Nat /\ rawDown \in Nat
  BY <1>2
<1> HIDE DEF rawUp, rawDown
<1>4. up \in Nat /\ down \in Nat
  BY <1>3 DEF Discounted
<1> HIDE DEF up, down
<1>5. base \in Int
  <2>1. net \in Int /\ total \in Nat /\ Abs(net) \in Nat
    BY <1>4, Caps
  <2>2. CASE total = 0
    BY <2>2
  <2>3. CASE total # 0
    <3> DEFINE ratio == (450 * Abs(net)) \div total
    <3>1. ratio \in Int
      BY <2>1, <2>3
    <3>2. 500 + ratio \in Int
      BY <3>1
    <3>3. AtMost(500 + ratio, 950) \in Int
      BY <3>2, Caps
    <3> QED BY <2>3, <3>3
  <2> QED BY <2>2, <2>3
<1> HIDE DEF base
<1>6. conf \in Int
  BY <1>5
<1> HIDE DEF conf
<1>7. AdjustConfidence(conf, skill) \in Nat
  BY <1>6, AdjustedIsNat
<1>8. CASE m.events = {}
  BY <1>8 DEF TechnicalAnalyst, Answer
<1>9. CASE m.events # {}
  <2>1. TechnicalAnalyst(m, skill).conf = AdjustConfidence(conf, skill)
    BY <1>9 DEF TechnicalAnalyst, Answer, conf, base, up, down, rawUp, rawDown
  <2> QED BY <1>7, <2>1
<1> QED BY <1>8, <1>9


\* The momentum analyst.
LEMMA MomentumIsNat ==
  ASSUME NEW m, MarketOK(m), NEW skill \in Skills
  PROVE  MomentumAnalyst(m, skill).conf \in Nat
<1> DEFINE r == MomentumReadings(m)
           diff == r[1] + r[2] + r[3] + r[4] + r[5]
           size == Abs(diff)
           conf == MomentumConfidence(diff, m.adx)
<1>1. \A pivot : Divergences(pivot) \in Nat
  <2> SUFFICES ASSUME NEW pivot PROVE Divergences(pivot) \in Nat
    OBVIOUS
  <2>1. IsFiniteSet({"rsi"} \cup {"macd"})
    BY FS_Singleton, FS_AddElement
  <2>2. {o \in {"rsi", "macd"} : Diverges(pivot, o)} \subseteq {"rsi"} \cup {"macd"}
    OBVIOUS
  <2>3. IsFiniteSet({o \in {"rsi", "macd"} : Diverges(pivot, o)})
    BY <2>1, <2>2, FS_Subset
  <2> QED BY <2>3, FS_CardinalityType DEF Divergences
<1>2. m.velocity \in Int
  BY DEF MarketOK, Signs
<1>3. r[1] \in Int /\ r[2] \in Int /\ r[3] \in Int
  BY DEF MomentumReadings
<1>4. r[4] \in Int
  BY <1>2 DEF MomentumReadings
<1>5. r[5] \in Int
  <2>1. Divergences(m.lows) \in Nat /\ Divergences(m.highs) \in Nat
    BY <1>1
  <2>2. r[5] = 30 * (Divergences(m.lows) - Divergences(m.highs))
    BY DEF MomentumReadings
  <2> QED BY <2>1, <2>2
<1>6. diff \in Int
  <2> HIDE DEF r
  <2> QED BY <1>3, <1>4, <1>5
<1> HIDE DEF diff
<1>7. size \in Nat
  BY <1>6, Caps
<1>8. conf \in Int
  <2> DEFINE base == CASE size >= 40 -> AtMost(600 + 4 * size, 950)
                       [] size > 10 /\ size < 40 -> AtMost(500 + 4 * size, 850)
                       [] OTHER -> 500
  <2> HIDE DEF size
  <2>1. base \in Int
    <3>1. 600 + 4 * size \in Int /\ 500 + 4 * size \in Int
      BY <1>7
    <3>2. AtMost(600 + 4 * size, 950) \in Int /\ AtMost(500 + 4 * size, 850) \in Int
      BY <3>1 DEF AtMost
    <3>3. CASE size >= 40
      BY <1>7, <3>2, <3>3
    <3>4. CASE size > 10 /\ size < 40
      BY <1>7, <3>2, <3>4
    <3>5. CASE ~(size >= 40) /\ ~(size > 10 /\ size < 40)
      BY <3>5
    <3> QED BY <1>7, <3>3, <3>4, <3>5
  <2>2. conf = CASE m.adx = "strong" -> AtMost(base + 30, 950)
                 [] m.adx = "weak" -> AtMost(base, 500)
                 [] OTHER -> base
    BY DEF MomentumConfidence, size
  <2> HIDE DEF base, conf
  <2>3. base + 30 \in Int
    BY <2>1
  <2>4. AtMost(base + 30, 950) \in Int /\ AtMost(base, 500) \in Int
    BY <2>1, <2>3, Caps
  <2> QED BY <2>1, <2>2, <2>4
<1> HIDE DEF conf
<1> DEFINE adjusted == AdjustConfidence(conf, skill)
<1>9. adjusted \in Nat
  BY <1>8, AdjustedIsNat
<1>10. Rounded2(adjusted) \in Nat
  <2> HIDE DEF adjusted
  <2> QED BY <1>9 DEF Rounded2
<1>11. CASE ~m.bars \/ m.adx = "none"
  BY <1>11 DEF MomentumAnalyst, Answer
<1>12. CASE ~(~m.bars \/ m.adx = "none")
  <2>1. MomentumAnalyst(m, skill).conf = Rounded2(adjusted)
    BY <1>12 DEF MomentumAnalyst, Answer, conf, diff
  <2> QED BY <1>10, <2>1
<1> QED BY <1>11, <1>12

\* The structure analyst.
LEMMA StructureIsNat ==
  ASSUME NEW m, NEW lessons
  PROVE  StructureAnalyst(m, lessons).conf \in Nat
<1>1. \A sign : StructureFactors(m, sign) \in Nat
  <2> SUFFICES ASSUME NEW sign PROVE StructureFactors(m, sign) \in Nat
    OBVIOUS
  <2> DEFINE F == {<<"ema", m.ema>>, <<"bos", m.breaks>>, <<"choch", ChangeOfCharacter(m)>>,
                   <<"sweep", m.sweep>>, <<"swing", m.swing>>}
  <2>1. \A a, b, c, d, e : IsFiniteSet({a, b, c, d, e})
    <3> SUFFICES ASSUME NEW a, NEW b, NEW c, NEW d, NEW e PROVE IsFiniteSet({a, b, c, d, e})
      OBVIOUS
    <3>1. IsFiniteSet({a})
      BY FS_Singleton
    <3>2. IsFiniteSet({a} \cup {b})
      BY <3>1, FS_AddElement
    <3>3. IsFiniteSet(({a} \cup {b}) \cup {c})
      BY <3>2, FS_AddElement
    <3>4. IsFiniteSet((({a} \cup {b}) \cup {c}) \cup {d})
      BY <3>3, FS_AddElement
    <3>5. IsFiniteSet(((({a} \cup {b}) \cup {c}) \cup {d}) \cup {e})
      BY <3>4, FS_AddElement
    <3>6. {a, b, c, d, e} = ((({a} \cup {b}) \cup {c}) \cup {d}) \cup {e}
      OBVIOUS
    <3> QED BY <3>5, <3>6
  <2>2. IsFiniteSet(F)
    BY <2>1
  <2>3. IsFiniteSet({f \in F : f[2] = sign})
    <3> HIDE DEF F
    <3> QED BY <2>2, FS_Subset
  <2> QED BY <2>3, FS_CardinalityType DEF StructureFactors
<1>2. \A count \in Nat : StructureConfidence(count, m.adx) \in Nat
  BY DEF StructureConfidence, AtMost
<1> DEFINE up == StructureFactors(m, 1)
           down == StructureFactors(m, -1)
           raw == CASE up > down -> Answer("BULLISH", StructureConfidence(up, m.adx))
                    [] down > up -> Answer("BEARISH", StructureConfidence(down, m.adx))
                    [] OTHER -> Answer("NEUTRAL", 400)
<1>3. up \in Nat /\ down \in Nat
  BY <1>1
<1> HIDE DEF up, down
<1>4. raw.conf \in Nat
  <2>1. CASE up > down
    BY <1>2, <1>3, <2>1 DEF Answer
  <2>2. CASE down > up
    BY <1>2, <1>3, <2>2 DEF Answer
  <2>3. CASE ~(up > down) /\ ~(down > up)
    BY <2>3 DEF Answer
  <2> QED BY <2>1, <2>2, <2>3
<1>5. CASE ~m.bars
  BY <1>5 DEF StructureAnalyst, Answer
<1>6. CASE m.bars
  <2>1. StructureAnalyst(m, lessons) = Answer(raw.signal, AfterLessons(raw.conf, lessons))
    BY <1>6 DEF StructureAnalyst, up, down
  <2> HIDE DEF raw
  <2>2. AfterLessons(raw.conf, lessons) \in Nat
    BY <1>4 DEF AfterLessons, AtLeast
  <2> QED BY <2>1, <2>2 DEF Answer
<1> QED BY <1>5, <1>6

\* What a release adds to the macro score.
ReleaseWeight(e) ==
  ((EventReading(e) - (IF e.words.haven > 0 THEN 300 ELSE 0)) * ImpactWeight[e.impact]) \div 1000

LEMMA ReleaseWeightIsInt ==
  ASSUME NEW e, ReleaseOK(e) PROVE ReleaseWeight(e) \in Int
<1>1. /\ ImpactWeight[e.impact] \in Int
      /\ e.words.hawkish \in Nat /\ e.words.dovish \in Nat /\ e.words.haven \in Nat
      /\ e.surprise \in Int /\ e.stated \in Int
  BY DEF ReleaseOK, ImpactWeight
<1>2. \A x \in Int : Clamp1(x) \in Int
  BY DEF Clamp1, AtLeast, AtMost
<1>3. TextSentiment(e.words) \in Int
  BY <1>1, <1>2 DEF TextSentiment
<1>4. DeviationScore(e) \in Int
  <2>1. e.surprise * ImpactWeight[e.impact] \in Int
    BY <1>1
  <2>2. (e.surprise * ImpactWeight[e.impact]) \div 100 \in Int
    BY <2>1
  <2> QED BY <1>1, <1>2, <2>2 DEF DeviationScore
<1>5. EventReading(e) \in Int
  <2>1. (TextSentiment(e.words) + e.stated) \div 2 \in Int
    BY <1>1, <1>3
  <2> QED BY <1>2, <1>4, <2>1 DEF EventReading
<1> DEFINE reading == EventReading(e) - (IF e.words.haven > 0 THEN 300 ELSE 0)
<1>6. reading \in Int
  BY <1>1, <1>5
<1> HIDE DEF reading
<1>7. reading * ImpactWeight[e.impact] \in Int
  BY <1>1, <1>6
<1>8. (reading * ImpactWeight[e.impact]) \div 1000 \in Int
  BY <1>7
<1> QED BY <1>8 DEF ReleaseWeight, reading

MacroSums(g, releases) ==
  g = [s \in SUBSET releases |->
         IF s = {} THEN 0 ELSE ReleaseWeight(Some(s)) + g[s \ {Some(s)}]]

LEMMA MacroIsChosen ==
  ASSUME NEW m
  PROVE  MacroScore(m) = (CHOOSE g : MacroSums(g, m.releases))[m.releases] - m.caution
  BY DEF MacroScore, MapThenSumSet, MapThenFoldSet, MacroSums, Some, ReleaseWeight

LEMMA MacroScoreIsInt ==
  ASSUME NEW m, MarketOK(m), IsFiniteSet(m.releases) PROVE MacroScore(m) \in Int
<1> DEFINE S == m.releases
           f == [e \in S |-> ReleaseWeight(e)]
<1>1. f \in [S -> Int] /\ DOMAIN f = S /\ \A e \in S : f[e] = ReleaseWeight(e)
  BY ReleaseWeightIsInt DEF MarketOK
<1> HIDE DEF f
<1>2. \A g : SetSums(g, f, SUBSET S) <=> MacroSums(g, S)
  <2>1. \A s \in SUBSET S : s # {} => f[Some(s)] = ReleaseWeight(Some(s))
    BY <1>1 DEF Some
  <2>2. \A g : [s \in SUBSET S |-> IF s = {} THEN 0 ELSE f[Some(s)] + g[s \ {Some(s)}]]
             = [s \in SUBSET S |-> IF s = {} THEN 0
                                   ELSE ReleaseWeight(Some(s)) + g[s \ {Some(s)}]]
    BY <2>1
  <2> QED BY <2>2 DEF SetSums, MacroSums
<1>3. \E g : SetSums(g, f, SUBSET S)
  BY AllSumsExist
<1> DEFINE sums == CHOOSE g : MacroSums(g, S)
<1>4. SetSums(sums, f, SUBSET S)
  BY <1>2, <1>3
<1>5. sums[S] \in Int
  BY <1>1, <1>4, SetSumsAreInt
<1>6. MacroScore(m) = sums[S] - m.caution
  BY MacroIsChosen
<1>7. m.caution \in Nat
  BY DEF MarketOK
<1> HIDE DEF sums
<1> QED BY <1>5, <1>6, <1>7

\* The others.
LEMMA OthersAreNat ==
  ASSUME NEW m, MarketOK(m), IsFiniteSet(m.releases)
  PROVE  /\ VolatilityAnalyst(m).conf \in Nat
         /\ NewsSentiment(m).conf \in Nat
         /\ FundamentalAnalyst(m).conf \in Nat
<1>1. VolatilityAnalyst(m).conf \in Nat
  BY DEF VolatilityAnalyst, Answer
<1>2. NewsSentiment(m).conf \in Nat
  <2>1. m.sentiment \in Int /\ m.impact \in Int
    BY DEF MarketOK
  <2> DEFINE s == m.sentiment
  <2>2. CASE s >= 400
    BY <2>1, <2>2 DEF NewsSentiment, Answer, AtMost
  <2>3. CASE s <= -400
    BY <2>1, <2>3 DEF NewsSentiment, Answer, AtMost
  <2>4. CASE ~(s >= 400) /\ ~(s <= -400)
    BY <2>1, <2>4 DEF NewsSentiment, Answer
  <2> QED BY <2>2, <2>3, <2>4
<1>3. FundamentalAnalyst(m).conf \in Nat
  <2> DEFINE net == MacroScore(m)
  <2>1. net \in Int
    BY MacroScoreIsInt
  <2>2. FundamentalAnalyst(m) =
          CASE net > 150 -> Answer("BEARISH", AtMost(680 + net \div 10, 850))
            [] net < -150 -> Answer("BULLISH", AtMost(680 - net \div 10, 850))
            [] OTHER -> Answer("NEUTRAL", 550)
    BY DEF FundamentalAnalyst
  <2> HIDE DEF net
  <2>3. CASE net > 150
    <3>1. AtMost(680 + net \div 10, 850) \in Nat
      BY <2>1, <2>3 DEF AtMost
    <3> QED BY <2>1, <2>2, <2>3, <3>1 DEF Answer
  <2>4. CASE net < -150
    <3>1. AtMost(680 - net \div 10, 850) \in Nat
      BY <2>1, <2>4 DEF AtMost
    <3> QED BY <2>1, <2>2, <2>4, <3>1 DEF Answer
  <2>5. CASE ~(net > 150) /\ ~(net < -150)
    BY <2>2, <2>5 DEF Answer
  <2> QED BY <2>3, <2>4, <2>5
<1> QED BY <1>1, <1>2, <1>3


Specialists == {"technical_analyst", "momentum_analyst", "structure_analyst",
                "volatility_analyst", "news_sentiment", "fundamental_analyst"}

\* Every lead hears specialists, four at most.
LEMMA CalledSpecialists ==
  ASSUME NEW f \in Families
  PROVE  RelevantSpecialists[f] \in Seq(Specialists) /\ Len(RelevantSpecialists[f]) \in 1..4
<1>1. f \in DOMAIN RelevantSpecialists
  BY FamiliesAssumption
<1>2. f \in {"BREAKOUT", "STRUCTURE", "TREND", "MOMENTUM", "EMA", "GAP", "NEWS", "ECONOMIC", "SOCIAL"}
  BY <1>1 DEF RelevantSpecialists
<1>4. RelevantSpecialists[f] \in {
        <<"structure_analyst", "momentum_analyst", "volatility_analyst">>,
        <<"structure_analyst", "technical_analyst">>,
        <<"technical_analyst", "momentum_analyst", "volatility_analyst", "structure_analyst">>,
        <<"momentum_analyst", "structure_analyst", "technical_analyst">>,
        <<"technical_analyst", "momentum_analyst">>, <<"technical_analyst", "volatility_analyst">>,
        <<"news_sentiment", "fundamental_analyst">>, <<"fundamental_analyst", "news_sentiment">>,
        <<"news_sentiment">>}
  BY <1>2 DEF RelevantSpecialists
<1> DEFINE Team(c) == c \in Seq(Specialists) /\ Len(c) \in 1..4
<1>5. \A a, b, c, d \in Specialists :
        Team(<<a>>) /\ Team(<<a, b>>) /\ Team(<<a, b, c>>) /\ Team(<<a, b, c, d>>)
  OBVIOUS
<1>6. \A name \in {"technical_analyst", "momentum_analyst", "structure_analyst",
                   "volatility_analyst", "news_sentiment", "fundamental_analyst"} :
        name \in Specialists
  BY DEF Specialists
<1> HIDE DEF Team
<1>7. /\ Team(<<"structure_analyst", "momentum_analyst", "volatility_analyst">>)
      /\ Team(<<"momentum_analyst", "structure_analyst", "technical_analyst">>)
      /\ Team(<<"technical_analyst", "momentum_analyst", "volatility_analyst", "structure_analyst">>)
      /\ Team(<<"structure_analyst", "technical_analyst">>)
      /\ Team(<<"technical_analyst", "momentum_analyst">>)
      /\ Team(<<"technical_analyst", "volatility_analyst">>)
      /\ Team(<<"news_sentiment", "fundamental_analyst">>)
      /\ Team(<<"fundamental_analyst", "news_sentiment">>)
      /\ Team(<<"news_sentiment">>)
  BY <1>5, <1>6
<1>8. PICK c : c = RelevantSpecialists[f]
  OBVIOUS
<1>9. Team(c)
  BY <1>4, <1>7, <1>8
<1> QED BY <1>8, <1>9 DEF Team

\* What the lead hears of a specialist it called: its answer, or that it failed.
Heard ==
  /\ heard \in Seq({Failed} \cup {Says(name) : name \in Specialists})
  /\ Len(heard) <= Len(Called)
  /\ \A i \in DOMAIN heard : heard[i] = Failed \/ heard[i] = Says(Called[i])

OnACase == family \in Families /\ market \in Markets /\ history \in Histories

LEMMA WeightsAreNat ==
  ASSUME OnACase, Heard
  PROVE  \A i \in DOMAIN heard : Weight(i, heard) \in Nat
<1> SUFFICES ASSUME NEW i \in DOMAIN heard
             PROVE  Weight(i, heard) \in Nat
  OBVIOUS
<1>1. Called \in Seq(Specialists) /\ Len(heard) \in Nat /\ Len(heard) <= Len(Called)
      /\ DOMAIN heard = 1..Len(heard)
  BY CalledSpecialists DEF OnACase, Heard, Called
<1>2. i \in 1..Len(Called) /\ Called[i] \in Specialists
  BY <1>1
<1>3. /\ MarketOK(market) /\ IsFiniteSet(market.releases)
      /\ history.skill \in Skills
  BY MarketsAssumption, HistoriesAssumption DEF OnACase, Skills
<1>4. \A name \in Specialists : Says(name).conf \in Nat
  <2> SUFFICES ASSUME NEW name \in Specialists PROVE Says(name).conf \in Nat
    OBVIOUS
  <2>1. PICK m, skill, lessons :
          m = market /\ skill = history.skill /\ lessons = history.lessons
    OBVIOUS
  <2>2. MarketOK(m) /\ IsFiniteSet(m.releases) /\ skill \in Skills
    <3>1. PICK known \in Markets : known = market
      BY DEF OnACase
    <3>2. MarketOK(known) /\ IsFiniteSet(known.releases)
      BY MarketsAssumption
    <3> QED BY <1>3, <2>1, <3>1, <3>2
  <2>3. /\ TechnicalAnalyst(m, skill).conf \in Nat /\ MomentumAnalyst(m, skill).conf \in Nat
        /\ StructureAnalyst(m, lessons).conf \in Nat /\ VolatilityAnalyst(m).conf \in Nat
        /\ NewsSentiment(m).conf \in Nat /\ FundamentalAnalyst(m).conf \in Nat
    BY <2>2, TechnicalIsNat, MomentumIsNat, StructureIsNat, OthersAreNat
  <2>4. Says(name) =
          CASE name = "technical_analyst" -> TechnicalAnalyst(m, skill)
            [] name = "momentum_analyst" -> MomentumAnalyst(m, skill)
            [] name = "structure_analyst" -> StructureAnalyst(m, lessons)
            [] name = "volatility_analyst" -> VolatilityAnalyst(m)
            [] name = "news_sentiment" -> NewsSentiment(m)
            [] name = "fundamental_analyst" -> FundamentalAnalyst(m)
    BY <2>1 DEF Says
  <2> QED BY <2>3, <2>4 DEF Specialists
<1>5. heard[i].conf \in Nat
  BY <1>2, <1>4 DEF Heard, Failed, Answer
<1>6. \A regime : \A name \in Specialists : AdaptiveWeights(regime)[name] \in Nat
  BY DEF AdaptiveWeights, Specialists
<1> DEFINE weight == AdaptiveWeights(DetectRegime(market, family = "TREND"))[Called[i]]
<1>7. weight \in Nat
  BY <1>2, <1>6
<1> HIDE DEF weight
<1>8. weight * heard[i].conf \in Nat
  <2> DEFINE conf == heard[i].conf
  <2>1. conf \in Nat
    BY <1>5
  <2> HIDE DEF conf
  <2>2. weight * conf \in Nat
    BY <1>7, <2>1
  <2> QED BY <2>2 DEF conf
<1> QED BY <1>8 DEF Weight, weight

\* Votes add up, and a direction with weight has a voter.
LEMMA VotesCount ==
  ASSUME OnACase, Heard, NEW d \in {"BULLISH", "BEARISH"}
  PROVE  /\ Votes(d, heard) \in Nat
         /\ Votes(d, heard) > 0 =>
              \E i \in DOMAIN heard : heard[i] = Says(Called[i]) /\ heard[i].signal = d
<1>1. \A i \in 1..4 : Vote(i, d, heard) \in Nat
  BY WeightsAreNat DEF Vote, Voters
<1>2. \A i \in 1..4 : Vote(i, d, heard) > 0 =>
        i \in DOMAIN heard /\ heard[i] = Says(Called[i]) /\ heard[i].signal = d
  <2> SUFFICES ASSUME NEW i \in 1..4, Vote(i, d, heard) > 0
               PROVE  i \in DOMAIN heard /\ heard[i] = Says(Called[i]) /\ heard[i].signal = d
    OBVIOUS
  <2>1. i \in Voters(d, heard)
    BY DEF Vote
  <2>2. i \in DOMAIN heard /\ heard[i].signal = d
    BY <2>1 DEF Voters
  <2>3. Failed.signal = "ERROR"
    BY DEF Failed, Answer
  <2> QED BY <2>2, <2>3 DEF Heard
<1> DEFINE v(i) == Vote(i, d, heard)
<1>3. Votes(d, heard) = v(1) + v(2) + v(3) + v(4)
  BY DEF Votes
<1>4. v(1) \in Nat /\ v(2) \in Nat /\ v(3) \in Nat /\ v(4) \in Nat
  BY <1>1
<1>5. \A i \in 1..4 : v(i) > 0 =>
        i \in DOMAIN heard /\ heard[i] = Says(Called[i]) /\ heard[i].signal = d
  BY <1>2
<1> HIDE DEF v
<1>6. Votes(d, heard) \in Nat
  BY <1>3, <1>4
<1>7. ASSUME Votes(d, heard) > 0
      PROVE  \E i \in DOMAIN heard : heard[i] = Says(Called[i]) /\ heard[i].signal = d
  <2>1. v(1) > 0 \/ v(2) > 0 \/ v(3) > 0 \/ v(4) > 0
    BY <1>3, <1>4, <1>7
  <2>2. \E i \in 1..4 : v(i) > 0
    BY <2>1
  <2> QED BY <1>5, <2>2
<1> QED BY <1>6, <1>7


CommitteeInv ==
  /\ phase \in {"idle", "lead", "synthesis", "decide", "decided"}
  /\ phase = "idle" => heard = <<>>
  /\ phase # "idle" => OnACase /\ Heard
  /\ phase \in {"synthesis", "decide", "decided"} =>
       lead = Absent \/ (Len(heard) = Len(Called) /\ lead = LeadAnswer(heard))
  /\ phase \in {"decide", "decided"} =>
       /\ synthesis \in {NoProposal, GenerateProposal(lead)}
       /\ proposal \in {NoProposal, GenerateProposal(lead)}
  /\ phase = "decided" /\ verdict \in Trades => Extracted.direction = verdict

\* What was heard, and what the lead makes of it, stays while the case does.
LEMMA SameCase ==
  ASSUME UNCHANGED <<family, market, history, heard>>
  PROVE  /\ OnACase' <=> OnACase
         /\ Heard' <=> Heard
         /\ Called' = Called
         /\ LeadAnswer(heard)' = LeadAnswer(heard)
<1>1. Called' = Called
  BY DEF Called
<1>2. \A name : Says(name)' = Says(name)
  BY DEF Says
<1>3. Heard' <=> Heard
  BY <1>1, <1>2 DEF Heard
<1>4. \A i : Weight(i, heard)' = Weight(i, heard)
  BY <1>1 DEF Weight
<1>5. \A d : Voters(d, heard)' = Voters(d, heard)
  BY <1>4 DEF Voters
<1>6. \A i, d : Vote(i, d, heard)' = Vote(i, d, heard)
  BY <1>4, <1>5 DEF Vote
<1>7. \A d : Votes(d, heard)' = Votes(d, heard)
  BY <1>6 DEF Votes
<1>8. \A d : /\ Share(d, heard)' = Share(d, heard)
             /\ Dominant(d, heard)' <=> Dominant(d, heard)
  BY <1>7 DEF Share, Dominant
<1>9. LeadAnswer(heard)' = LeadAnswer(heard)
  BY <1>7, <1>8 DEF LeadAnswer
<1> QED BY <1>1, <1>3, <1>9 DEF OnACase

\* The specialists are heard one after the other.
LEMMA HearingKeeps ==
  ASSUME CommitteeInv, Hear \/ SpecialistFails \/ SpecialistHangs
  PROVE  CommitteeInv'
<1>1. /\ phase = "lead" /\ Len(heard) < Len(Called) /\ phase' = phase
      /\ UNCHANGED <<family, market, history>>
  BY DEF Hear, SpecialistFails, SpecialistHangs, Hearing
<1>2. OnACase /\ Heard /\ Called \in Seq(Specialists)
  BY <1>1, CalledSpecialists DEF CommitteeInv, OnACase, Called
<1>3. OnACase' /\ Called' = Called /\ \A name : Says(name)' = Says(name)
  BY <1>1, <1>2 DEF OnACase, Called, Says
<1>4. CASE SpecialistHangs
  <2>1. heard' = heard
    BY <1>4 DEF SpecialistHangs
  <2> QED BY <1>1, <1>2, <2>1, SameCase DEF CommitteeInv
<1>5. CASE Hear \/ SpecialistFails
  <2>1. PICK x \in {Failed} \cup {Says(name) : name \in Specialists} :
          heard' = Append(heard, x) /\ (x = Failed \/ x = Says(Called[Len(heard) + 1]))
    <3>1. Len(heard) \in Nat /\ Len(Called) \in Nat
      BY <1>2 DEF Heard
    <3>2. Called[Len(heard) + 1] \in Specialists
      BY <1>1, <1>2, <3>1
    <3> QED BY <1>5, <3>2 DEF Hear, SpecialistFails
  <2> DEFINE A == {Failed} \cup {Says(name) : name \in Specialists}
  <2>2. heard \in Seq(A) /\ x \in A
    BY <1>2, <2>1 DEF Heard
  <2>3. A' = A
    BY <1>3 DEF Failed
  <2> HIDE DEF A
  <2>4. /\ heard' \in Seq(A) /\ Len(heard') = Len(heard) + 1 /\ Len(heard) \in Nat
        /\ DOMAIN heard' = 1..Len(heard') /\ DOMAIN heard = 1..Len(heard)
        /\ \A i \in DOMAIN heard : heard'[i] = heard[i]
        /\ heard'[Len(heard) + 1] = x
    BY <2>1, <2>2
  <2>5. \A i \in DOMAIN heard' : heard'[i] = Failed \/ heard'[i] = Says(Called[i])
    <3> SUFFICES ASSUME NEW i \in DOMAIN heard'
                 PROVE  heard'[i] = Failed \/ heard'[i] = Says(Called[i])
      OBVIOUS
    <3>1. CASE i \in DOMAIN heard
      BY <1>2, <2>4, <3>1 DEF Heard
    <3>2. CASE i = Len(heard) + 1
      BY <2>1, <2>4, <3>2
    <3> QED BY <2>4, <3>1, <3>2
  <2>6. Len(heard') <= Len(Called)
    <3>1. Len(Called) \in Nat
      BY <1>2
    <3> QED BY <1>1, <2>4, <3>1
  <2>7. Heard'
    <3>1. heard' \in Seq(A')
      BY <2>3, <2>4
    <3> QED BY <1>3, <2>5, <2>6, <3>1 DEF Heard, Failed, A
  <2> QED BY <1>1, <1>3, <2>7 DEF CommitteeInv
<1> QED BY <1>4, <1>5

\* The lead answers, or its deadline leaves the neutral answer; the synthesizer makes
\* one proposal of it, which is passed on, held back or lost.
LEMMA AnsweringKeeps ==
  ASSUME CommitteeInv, LeadReturns \/ Deadline \/ Synthesise \/ SynthesisFails \/ Decide
  PROVE  CommitteeInv'
<1>1. UNCHANGED <<family, market, history>> /\ OnACase /\ Heard
  BY DEF CommitteeInv, LeadReturns, Deadline, Synthesise, SynthesisFails, Decide
<1>2. CASE LeadReturns
  <2>1. /\ phase' = "synthesis" /\ lead' = LeadAnswer(heard) /\ heard' = heard
        /\ Len(heard) = Len(Called)
    BY <1>2 DEF LeadReturns
  <2> QED BY <1>1, <2>1, SameCase DEF CommitteeInv
<1>3. CASE Deadline
  <2>1. phase' = "synthesis" /\ lead' = Absent /\ heard' = <<>>
    BY <1>3 DEF Deadline
  <2>2. OnACase' /\ Called' = Called
    BY <1>1 DEF OnACase, Called
  <2>3. Called \in Seq(Specialists) /\ Len(Called) \in 1..4
    BY <1>1, CalledSpecialists DEF OnACase, Called
  <2>4. Heard'
    BY <2>1, <2>2, <2>3 DEF Heard
  <2> QED BY <2>1, <2>2, <2>4 DEF CommitteeInv
<1>4. CASE Synthesise \/ SynthesisFails
  <2>1. /\ phase = "synthesis" /\ phase' = "decide" /\ UNCHANGED <<lead, heard>>
        /\ synthesis' \in {NoProposal, GenerateProposal(lead)}
        /\ proposal' \in {NoProposal, GenerateProposal(lead)}
    BY <1>4 DEF Synthesise, SynthesisFails, PassedOn
  <2>2. GenerateProposal(lead)' = GenerateProposal(lead) /\ NoProposal' = NoProposal
    BY <2>1 DEF GenerateProposal, Evidence, EvidenceWeight, SevereConflict, NoProposal
  <2>3. lead' = Absent \/ (Len(heard') = Len(Called') /\ lead' = LeadAnswer(heard)')
    BY <1>1, <2>1, SameCase DEF CommitteeInv
  <2> QED BY <1>1, <2>1, <2>2, <2>3, SameCase DEF CommitteeInv
<1>5. CASE Decide
  <2>1. /\ phase = "decide" /\ phase' = "decided" /\ verdict' = Decision
        /\ UNCHANGED <<lead, heard, synthesis, proposal>>
    BY <1>5 DEF Decide
  <2>2. Decision \in Trades => Extracted.direction = Decision
    BY DEF Decision, Trades
  <2>3. Extracted' = Extracted
    BY <2>1 DEF Extracted
  <2>4. GenerateProposal(lead)' = GenerateProposal(lead)
    BY <2>1 DEF GenerateProposal, Evidence, EvidenceWeight, SevereConflict
  <2>5. lead' = Absent \/ (Len(heard') = Len(Called') /\ lead' = LeadAnswer(heard)')
    BY <1>1, <2>1, SameCase DEF CommitteeInv
  <2> QED BY <1>1, <2>1, <2>2, <2>3, <2>4, <2>5, SameCase DEF CommitteeInv
<1> QED BY <1>2, <1>3, <1>4, <1>5

\* A proposal to trade has the direction of the lead's own answer.
LEMMA ProposalFollowsLead ==
  ASSUME NEW l, l.conf \in Nat, GenerateProposal(l).direction \in Trades
  PROVE  l.signal = IF GenerateProposal(l).direction = "BUY" THEN "BULLISH" ELSE "BEARISH"
<1>1. EvidenceWeight(l) \in Nat
  BY DEF EvidenceWeight
<1> DEFINE bull == Evidence("BULLISH", l)
           bear == Evidence("BEARISH", l)
<1>2. /\ bull = IF l.signal = "BULLISH" THEN EvidenceWeight(l) ELSE 0
      /\ bear = IF l.signal = "BEARISH" THEN EvidenceWeight(l) ELSE 0
  BY DEF Evidence
<1> HIDE DEF bull, bear
<1>3. CASE bull > bear /\ ~SevereConflict(l)
  <2>1. ~(bear > bull)
    BY <1>1, <1>2, <1>3
  <2>2. GenerateProposal(l) = [direction |-> "BUY", conf |-> (1000 * bull) \div (bull + bear)]
    BY <1>3, <2>1 DEF GenerateProposal, bull, bear
  <2>3. GenerateProposal(l).direction = "BUY"
    BY <2>2
  <2>4. l.signal = "BULLISH"
    BY <1>1, <1>2, <1>3
  <2> QED BY <2>3, <2>4
<1>4. CASE ~(bull > bear /\ ~SevereConflict(l)) /\ bear > bull /\ ~SevereConflict(l)
  <2>1. GenerateProposal(l).direction = "SELL"
    BY <1>4 DEF GenerateProposal, bull, bear
  <2> QED BY <1>1, <1>2, <1>4, <2>1
<1>5. CASE ~(bull > bear /\ ~SevereConflict(l)) /\ ~(bear > bull /\ ~SevereConflict(l))
  <2>1. GenerateProposal(l).direction = "HOLD"
    BY <1>5 DEF GenerateProposal, bull, bear
  <2> QED BY <2>1 DEF Trades
<1> QED BY <1>3, <1>4, <1>5

\* The lead's direction dominated in what it heard.
LEMMA LeadIsDominant ==
  ASSUME OnACase, Heard, NEW d \in {"BULLISH", "BEARISH"}, LeadAnswer(heard).signal = d
  PROVE  /\ LeadAnswer(heard).conf \in Nat
         /\ 10 * Votes(d, heard) >= 6 * (Votes("BULLISH", heard) + Votes("BEARISH", heard))
         /\ Votes(d, heard) > 0
<1> DEFINE winners == {w \in {"BULLISH", "BEARISH"} : Dominant(w, heard)}
           c == CHOOSE w \in winners : TRUE
<1>1. winners # {} /\ LeadAnswer(heard).signal = c /\ LeadAnswer(heard).conf = Share(c, heard)
  <2>1. CASE winners = {}
    BY <2>1 DEF LeadAnswer
  <2>2. CASE winners # {}
    BY <2>2 DEF LeadAnswer
  <2> QED BY <2>1, <2>2
<1>2. c \in winners
  <2> HIDE DEF winners
  <2> QED BY <1>1
<1>3. c = d /\ Dominant(d, heard)
  BY <1>1, <1>2
<1>4. PICK v, up, down : v = Votes(d, heard) /\ up = Votes("BULLISH", heard) /\ down = Votes("BEARISH", heard)
  OBVIOUS
<1>5. v \in Nat /\ up \in Nat /\ down \in Nat /\ v \in {up, down}
  BY <1>4, VotesCount
<1>6. v > 0 /\ (1000 * v) \div (up + down) >= 600
  BY <1>3, <1>4 DEF Dominant, Share
<1>7. LeadAnswer(heard).conf \in Nat
  <2>1. (1000 * v) \div (up + down) \in Nat
    BY <1>5, <1>6
  <2>2. Share(d, heard) = (1000 * v) \div (up + down)
    BY <1>4 DEF Share
  <2> QED BY <1>1, <1>3, <2>1, <2>2
<1>8. 1000 * v >= 600 * (up + down)
  BY <1>5, <1>6
<1>9. 10 * v >= 6 * (up + down)
  BY <1>5, <1>8
<1>10. Votes(d, heard) > 0
  BY <1>4, <1>6
<1>11. 10 * Votes(d, heard) >= 6 * (Votes("BULLISH", heard) + Votes("BEARISH", heard))
  BY <1>4, <1>9
<1> QED BY <1>7, <1>10, <1>11

\* A cycle that decides to trade heard every specialist it called, and the direction it
\* trades carries six tenths of the weight of those that gave one, for any snapshots
\* and histories (supervisor, market intelligence, synthesis, the pipeline's decision).
THEOREM EvidenceBackedHolds == CommitteeSpec => []EvidenceBacked
<1>1. Init => CommitteeInv
  BY DEF Init, CommitteeInv
<1>2. CommitteeInv /\ [Next]_vars => CommitteeInv'
  <2> SUFFICES ASSUME CommitteeInv, [Next]_vars PROVE CommitteeInv'
    OBVIOUS
  <2>1. ASSUME NEW f \in Families, NEW m \in Markets, NEW h \in Histories, Begin(f, m, h)
        PROVE  CommitteeInv'
    <3>1. phase' = "lead" /\ OnACase' /\ heard' = <<>>
      BY <2>1 DEF Begin, CommitteeInv, OnACase
    <3>2. OnACase' => Called' \in Seq(Specialists) /\ Len(Called') \in 1..4
      <4>1. OnACase' => family' \in Families
        BY DEF OnACase
      <4>2. PICK g : g = family'
        OBVIOUS
      <4>3. Called' = RelevantSpecialists[g]
        BY <4>2 DEF Called
      <4> QED BY <4>1, <4>2, <4>3, CalledSpecialists
    <3>3. Heard'
      BY <3>1, <3>2 DEF Heard
    <3> QED BY <3>1, <3>3 DEF CommitteeInv
  <2>2. CASE Finish
    BY <2>2 DEF Finish, CommitteeInv
  <2>3. CASE ThreadEnds \/ UNCHANGED vars
    <3>1. UNCHANGED <<phase, family, market, history, heard, lead, synthesis, proposal, verdict>>
      BY <2>3 DEF ThreadEnds, vars
    <3>2. /\ GenerateProposal(lead)' = GenerateProposal(lead) /\ Extracted' = Extracted
      BY <3>1 DEF GenerateProposal, Evidence, EvidenceWeight, SevereConflict, Extracted
    <3>3. phase' \in {"synthesis", "decide", "decided"} =>
            lead' = Absent \/ (Len(heard') = Len(Called') /\ lead' = LeadAnswer(heard)')
      BY <3>1, SameCase DEF CommitteeInv
    <3> QED BY <3>1, <3>2, <3>3, SameCase DEF CommitteeInv
  <2> QED BY <2>1, <2>2, <2>3, HearingKeeps, AnsweringKeeps DEF Next
<1>3. CommitteeInv => EvidenceBacked
  <2> SUFFICES ASSUME CommitteeInv, phase = "decided", verdict \in Trades
               PROVE  EvidenceBacked
    BY DEF EvidenceBacked
  <2> DEFINE d == IF verdict = "BUY" THEN "BULLISH" ELSE "BEARISH"
  <2>1. /\ OnACase /\ Heard /\ Extracted.direction = verdict
        /\ lead = Absent \/ (Len(heard) = Len(Called) /\ lead = LeadAnswer(heard))
        /\ Extracted \in {NoProposal, GenerateProposal(lead)}
    BY DEF CommitteeInv, Extracted
  <2>2. Extracted = GenerateProposal(lead)
    BY <2>1 DEF NoProposal, Trades
  <2>3. lead.conf \in Nat
    <3>1. CASE lead = Absent
      BY <3>1 DEF Absent
    <3>2. CASE lead = LeadAnswer(heard) /\ lead.signal \in {"BULLISH", "BEARISH"}
      BY <2>1, <3>2, LeadIsDominant
    <3>3. CASE lead = LeadAnswer(heard) /\ lead.signal \notin {"BULLISH", "BEARISH"}
      <4> DEFINE winners == {w \in {"BULLISH", "BEARISH"} : Dominant(w, heard)}
      <4>1. CASE winners = {}
        BY <3>3, <4>1 DEF LeadAnswer
      <4>2. CASE winners # {}
        <5>1. (CHOOSE w \in winners : TRUE) \in winners
          <6> HIDE DEF winners
          <6> QED BY <4>2
        <5>2. LeadAnswer(heard).signal = CHOOSE w \in winners : TRUE
          BY <4>2 DEF LeadAnswer
        <5> QED BY <3>3, <5>1, <5>2
      <4> QED BY <4>1, <4>2
    <3> QED BY <2>1, <3>1, <3>2, <3>3
  <2>4. lead.signal = d
    <3>1. PICK l : l = lead
      OBVIOUS
    <3>2. l.conf \in Nat /\ GenerateProposal(l).direction = verdict
      BY <2>1, <2>2, <2>3, <3>1 DEF GenerateProposal, Evidence, EvidenceWeight, SevereConflict
    <3> QED BY <3>1, <3>2, ProposalFollowsLead
  <2>5. lead # Absent /\ d \in {"BULLISH", "BEARISH"}
    BY <2>4 DEF Absent
  <2>6. /\ 10 * Votes(d, heard) >= 6 * (Votes("BULLISH", heard) + Votes("BEARISH", heard))
        /\ \E i \in DOMAIN heard : heard[i] = Says(Called[i]) /\ heard[i].signal = d
    BY <2>1, <2>4, <2>5, LeadIsDominant, VotesCount
  <2> QED BY <2>1, <2>5, <2>6 DEF EvidenceBacked
<1> QED BY <1>1, <1>2, <1>3, PTL DEF CommitteeSpec

-----------------------------------------------------------------------------
(* FanOut                                                                  *)

\* A dispatch serves targets that are armed and verified; while one target is
\* processed the binding is on it, or lost with its terminal.
Served ==
  /\ fan.step # "idle" => fan.sig \in Signals /\ fan.todo \subseteq armed \cap verified
  /\ fan.step \in {"process", "intent", "send"} =>
       /\ coordinator
       /\ fan.cur \in armed \cap verified
       /\ attached \in {fan.cur, None}

\* A canonical order goes out under a stored key that no order went out under.
Reserved ==
  /\ fan.step = "send" =>
       /\ <<fan.sig, AccountOf(fan.cur)>> \in keys
       /\ sent[fan.sig][AccountOf(fan.cur)] = 0
  /\ coordinator => \A s \in Signals, a \in Accounts : sent[s][a] > 0 => <<s, a>> \in keys

FanInv == FanTypeOK /\ Served /\ SentIsApproved /\ Reserved

-----------------------------------------------------------------------------
(* Lemmas about the operators                                              *)

\* Rounding down to the lot step keeps a volume a natural number
\* (OrderBuilder._normalise_to_spec).
LEMMA SnapNat ==
  ASSUME NEW v \in Nat, NEW spec \in BOOLEAN
  PROVE  Snap(v, spec) \in Nat
<1>1. LotStep \in Nat \ {0}
  BY FanOutAssumption
<1>2. v \div LotStep \in Nat
  BY <1>1
<1>3. (v \div LotStep) * LotStep \in Nat
  <2> DEFINE n == v \div LotStep
  <2>1. n \in Nat
    BY <1>2
  <2> HIDE DEF n
  <2>2. n * LotStep \in Nat
    BY <1>1, <2>1
  <2> QED BY <2>2 DEF n
<1> QED BY <1>3 DEF Snap

\* The rollup of a signal is always a status (_rollup_status_locked).
LEMMA RollupStatus ==
  ASSUME NEW accounts
  PROVE  Rollup(accounts) \in SignalStatus
<1> DEFINE known == {a \in Accounts : accounts[a] # ""}
           executed == {a \in known : accounts[a] \in Executed}
           refused == {a \in known : accounts[a] \in {"REJECTED", "FAILED"}}
<1> HIDE DEF known, executed, refused
<1>1. (CASE known # {} /\ executed = known -> "EXECUTED_ALL"
         [] executed # {} /\ executed # known -> "PARTIALLY_EXECUTED"
         [] executed = {} /\ refused # {} ->
              IF refused = known THEN "REJECTED_ALL" ELSE "PARTIALLY_EXECUTED"
         [] OTHER -> "VALIDATED") \in SignalStatus
  BY DEF SignalStatus
<1> QED BY <1>1 DEF Rollup, known, executed, refused

\* An account's new status leaves the ledger and the rollup well typed
\* (upsert_account_dispatch).
LEMMA UpsertType ==
  ASSUME FanTypeOK, NEW s \in Signals, NEW a \in Accounts, NEW status \in AccountStatus,
         Upsert(s, a, status)
  PROVE  /\ fanLedger' \in [Signals -> [Accounts -> AccountStatus \cup {""}]]
         /\ rollup' \in [Signals -> SignalStatus \cup {""}]
<1>1. Rollup([fanLedger[s] EXCEPT ![a] = status]) \in SignalStatus
  BY RollupStatus
<1> QED BY <1>1 DEF Upsert, FanTypeOK

\* An attach ends on the terminal asked for or on none (initialize).
LEMMA AttachEnds ==
  ASSUME NEW t \in Terminals, NEW r \in Attaches(t)
  PROVE  /\ r.ok \in BOOLEAN /\ r.at \in {t, None}
         /\ r.ok => r.at = t
<1>1. \/ r = [ok |-> FALSE, at |-> None]
      \/ r = [ok |-> TRUE, at |-> t]
  BY DEF Attaches
<1>2. CASE r = [ok |-> FALSE, at |-> None]
  <2>1. r.ok = FALSE /\ r.at = None
    BY <1>2, Zenon
  <2> QED BY <2>1
<1>3. CASE r = [ok |-> TRUE, at |-> t]
  <2>1. r.ok = TRUE /\ r.at = t
    BY <1>3, Zenon
  <2> QED BY <2>1
<1> QED BY <1>1, <1>2, <1>3

\* Listing the terminals adds accounts to what is known and removes none.
LEMMA ViewsGrow ==
  ASSUME FanTypeOK, NEW view \in Views
  PROVE  verified \subseteq view /\ view \subseteq Terminals
BY DEF FanTypeOK, Views, Maybe

\* One order changes the count of one terminal and of one account.
LEMMA OrderedEffect ==
  ASSUME FanTypeOK, NEW s \in Signals, NEW t \in Terminals, Ordered(s, t)
  PROVE  /\ orders' \in [Signals -> [Terminals -> Nat]]
         /\ sent' \in [Signals -> [Accounts -> Nat]]
         /\ \A s2 \in Signals, t2 \in Terminals :
              orders'[s2][t2] # orders[s2][t2] => s2 = s /\ t2 = t
         /\ sent'[s][AccountOf(t)] = sent[s][AccountOf(t)] + 1
         /\ \A s2 \in Signals, a \in Accounts :
              sent'[s2][a] # sent[s2][a] => s2 = s /\ a = AccountOf(t)
<1> DEFINE c == AccountOf(t)
<1>1. c \in Accounts
  BY DEF FanTypeOK, AccountOf
<1> HIDE DEF c
<1>2. orders' = [orders EXCEPT ![s][t] = @ + 1] /\ sent' = [sent EXCEPT ![s][c] = @ + 1]
  BY DEF Ordered, c
<1>3. /\ orders \in [Signals -> [Terminals -> Nat]] /\ sent \in [Signals -> [Accounts -> Nat]]
  BY DEF FanTypeOK
<1>4. /\ orders' \in [Signals -> [Terminals -> Nat]]
      /\ sent' \in [Signals -> [Accounts -> Nat]]
  BY <1>1, <1>2, <1>3
<1>5. sent'[s][c] = sent[s][c] + 1
  BY <1>1, <1>2, <1>3
<1>6. \A s2 \in Signals, t2 \in Terminals : ~(s2 = s /\ t2 = t) => orders'[s2][t2] = orders[s2][t2]
  BY <1>2, <1>3
<1>7. \A s2 \in Signals, a \in Accounts : ~(s2 = s /\ a = c) => sent'[s2][a] = sent[s2][a]
  BY <1>1, <1>2, <1>3
<1> QED BY <1>4, <1>5, <1>6, <1>7 DEF c

-----------------------------------------------------------------------------
(* Type correctness                                                        *)

LEMMA FanTypeInit == FanInit => FanTypeOK
<1> SUFFICES ASSUME FanInit
             PROVE  FanTypeOK
  OBVIOUS
<1>1. fan \in [step : {"idle", "next", "process", "intent", "send"},
               sig : Signals \cup {None}, todo : SUBSET Terminals, cur : Maybe,
               orig : Maybe, vol : Nat, approved : SUBSET Nat, done : Nat]
  BY DEF FanInit, Idle, Maybe
<1>2. /\ fanLedger \in [Signals -> [Accounts -> AccountStatus \cup {""}]]
      /\ rollup \in [Signals -> SignalStatus \cup {""}]
      /\ orders \in [Signals -> [Terminals -> Nat]]
      /\ sent \in [Signals -> [Accounts -> Nat]]
      /\ outcome \in [Signals -> {"none", "open", "failed"}]
  BY DEF FanInit, NoLedger
<1>3. fans \in 0..MaxFans
  <2>1. fans = 0
    BY DEF FanInit
  <2>2. MaxFans \in Nat
    BY FanOutAssumption
  <2> QED BY <2>1, <2>2
<1> QED BY <1>1, <1>2, <1>3 DEF FanInit, FanTypeOK, Maybe

\* Changes of the terminal registry and of the binding, and a restart.
LEMMA RegistryType ==
  ASSUME FanTypeOK,
         \/ \E t \in Terminals : TerminalStarts(t) \/ TerminalStops(t) \/ SelectTerminal(t)
                                   \/ ArmTerminal(t)
         \/ Disarm \/ ProbeAccounts \/ Restart
  PROVE  FanTypeOK'
<1>1. ASSUME NEW t \in Terminals, TerminalStarts(t)
      PROVE  FanTypeOK'
  BY <1>1 DEF FanTypeOK, TerminalStarts, ledgerVars, orderVars
<1>2. ASSUME NEW t \in Terminals, TerminalStops(t)
      PROVE  FanTypeOK'
  BY <1>2 DEF FanTypeOK, TerminalStops, ledgerVars, orderVars, Maybe
<1>3. ASSUME NEW t \in Terminals, SelectTerminal(t)
      PROVE  FanTypeOK'
  <2>1. verified' \subseteq Terminals
    BY <1>3, ViewsGrow DEF SelectTerminal
  <2>2. attached' \in Maybe /\ selected' \in Maybe /\ saved' \in Maybe
    BY <1>3, AttachEnds DEF FanTypeOK, SelectTerminal, Maybe
  <2> QED BY <1>3, <2>1, <2>2 DEF FanTypeOK, SelectTerminal, ledgerVars, orderVars
<1>4. ASSUME NEW t \in Terminals, ArmTerminal(t)
      PROVE  FanTypeOK'
  <2>1. verified' \subseteq Terminals
    BY <1>4, ViewsGrow DEF ArmTerminal
  <2> QED BY <1>4, <2>1 DEF FanTypeOK, ArmTerminal, ledgerVars, orderVars
<1>5. CASE Disarm
  BY <1>5 DEF FanTypeOK, Disarm, ledgerVars, orderVars
<1>6. CASE ProbeAccounts
  <2>1. verified' \subseteq Terminals
    BY <1>6 DEF FanTypeOK, ProbeAccounts, Probed
  <2>2. attached' \in Maybe
    <3>1. attached \in Maybe /\ selected \in Maybe
      BY DEF FanTypeOK
    <3>2. PICK home \in Maybe :
            attached' \in (IF home = None THEN {None} ELSE {r.at : r \in Attaches(home)})
      BY <1>6, <3>1 DEF ProbeAccounts
    <3>3. CASE home = None
      BY <3>2, <3>3 DEF Maybe
    <3>4. CASE home # None
      BY <3>2, <3>4, AttachEnds DEF Maybe
    <3> QED BY <3>3, <3>4
  <2> QED BY <1>6, <2>1, <2>2 DEF FanTypeOK, ProbeAccounts, ledgerVars, orderVars
<1>7. CASE Restart
  <2>1. fan' \in [step : {"idle", "next", "process", "intent", "send"},
                  sig : Signals \cup {None}, todo : SUBSET Terminals, cur : Maybe,
                  orig : Maybe, vol : Nat, approved : SUBSET Nat, done : Nat]
    BY <1>7 DEF Restart, Idle, Maybe
  <2>2. /\ fanLedger' \in [Signals -> [Accounts -> AccountStatus \cup {""}]]
        /\ rollup' \in [Signals -> SignalStatus \cup {""}]
    BY <1>7 DEF Restart, NoLedger
  <2>3. attached' \in Maybe
    BY <1>7 DEF FanTypeOK, Restart, Maybe
  <2> QED BY <1>7, <2>1, <2>2, <2>3 DEF FanTypeOK, Restart, orderVars
<1> QED BY <1>1, <1>2, <1>3, <1>4, <1>5, <1>6, <1>7

\* The outcome of processing an account: a verdict, and for a good one a volume
\* that passed the gate.
Processed(built, passed, ok) ==
  /\ Upsert(fan.sig, AccountOf(fan.cur), IF ok THEN "SUBMITTING" ELSE "REJECTED")
  /\ ok => built \in passed
  /\ fan' = IF ok THEN [fan EXCEPT !.step = "intent", !.vol = built, !.approved = passed]
                  ELSE [fan EXCEPT !.step = "next"]

\* Whichever lot step was read, both volumes are natural numbers and both have to
\* pass (_process_account).
LEMMA ProcessEffect ==
  ASSUME ProcessAccount
  PROVE  \E built \in Nat, passed \in SUBSET Nat, ok \in BOOLEAN : Processed(built, passed, ok)
<1>1. PICK spec1 \in BOOLEAN, spec2 \in BOOLEAN :
        \E passed \in SUBSET {Snap(Volume, spec1), Snap(Snap(Volume, spec1), spec2)} :
          LET asked == Snap(Volume, spec1)
              built == Snap(asked, spec2)
              ok == {asked, built} \subseteq passed
          IN  /\ asked > 0
              /\ Upsert(fan.sig, AccountOf(fan.cur), IF ok THEN "SUBMITTING" ELSE "REJECTED")
              /\ fan' = IF ok THEN [fan EXCEPT !.step = "intent", !.vol = built,
                                               !.approved = passed]
                              ELSE [fan EXCEPT !.step = "next"]
  BY Zenon DEF ProcessAccount
<1> DEFINE asked == Snap(Volume, spec1)
           built == Snap(asked, spec2)
<1>2. asked \in Nat /\ built \in Nat
  <2>1. Volume \in Nat
    BY FanOutAssumption
  <2>2. asked \in Nat
    BY <2>1, SnapNat
  <2> QED BY <2>2, SnapNat
<1> HIDE DEF asked, built
<1>3. PICK passed \in SUBSET {asked, built} :
        LET ok == {asked, built} \subseteq passed
        IN  /\ Upsert(fan.sig, AccountOf(fan.cur), IF ok THEN "SUBMITTING" ELSE "REJECTED")
            /\ fan' = IF ok THEN [fan EXCEPT !.step = "intent", !.vol = built,
                                             !.approved = passed]
                            ELSE [fan EXCEPT !.step = "next"]
  BY <1>1 DEF asked, built
<1> DEFINE ok == {asked, built} \subseteq passed
<1>4. passed \in SUBSET Nat /\ ok \in BOOLEAN /\ (ok => built \in passed)
  BY <1>2, <1>3
<1>5. Processed(built, passed, ok)
  BY <1>3, <1>4 DEF Processed
<1> HIDE DEF ok
<1> QED BY <1>2, <1>4, <1>5

\* The steps of a dispatch (fan_out, _process_account, execute_order,
\* _dispatch_to_terminal, the single-terminal path).
LEMMA DispatchType ==
  ASSUME FanTypeOK, Served,
         (\E s \in Signals : StartFan(s) \/ SingleOrder(s)) \/ FanStep
  PROVE  FanTypeOK'
<1> DEFINE Fans == [step : {"idle", "next", "process", "intent", "send"},
                    sig : Signals \cup {None}, todo : SUBSET Terminals, cur : Maybe,
                    orig : Maybe, vol : Nat, approved : SUBSET Nat, done : Nat]
           Kept == /\ UNCHANGED <<login, running, armed, selected, saved, coordinator>>
                   /\ verified' \subseteq Terminals /\ attached' \in Maybe /\ fan' \in Fans
           Typed == /\ fanLedger' \in [Signals -> [Accounts -> AccountStatus \cup {""}]]
                    /\ rollup' \in [Signals -> SignalStatus \cup {""}]
           Counted == /\ orders' \in [Signals -> [Terminals -> Nat]]
                      /\ sent' \in [Signals -> [Accounts -> Nat]]
           Marked == /\ keys' \subseteq Signals \X Accounts
                     /\ outcome' \in [Signals -> {"none", "open", "failed"}]
                     /\ fans' \in 0..MaxFans
<1>a. Kept /\ Typed /\ Counted /\ Marked => FanTypeOK'
  BY DEF FanTypeOK
<1>b. UNCHANGED ledgerVars => Typed
  BY DEF FanTypeOK, ledgerVars
<1>c. UNCHANGED orderVars => Counted
  BY DEF FanTypeOK, orderVars
<1>d. UNCHANGED <<keys, outcome, fans>> => Marked
  BY DEF FanTypeOK
<1>e. fan \in Fans
  BY DEF FanTypeOK
<1>f. ASSUME fan.step \in {"process", "intent", "send"}
      PROVE  fan.sig \in Signals /\ fan.cur \in Terminals /\ AccountOf(fan.cur) \in Accounts
  BY <1>f, <1>e DEF Served, FanTypeOK, AccountOf
<1>g. attached \in Maybe /\ verified \subseteq Terminals
  BY DEF FanTypeOK
<1>h. UNCHANGED <<terminalVars, coordinator>> /\ attached' \in Maybe /\ fan' \in Fans => Kept
  BY <1>g DEF terminalVars
<1>i. fans < MaxFans => fans + 1 \in 0..MaxFans
  <2>1. MaxFans \in Nat /\ fans \in 0..MaxFans
    BY FanOutAssumption DEF FanTypeOK
  <2> QED BY <2>1
<1>1. ASSUME NEW s \in Signals, StartFan(s)
      PROVE  FanTypeOK'
  <2>1. verified' \subseteq Terminals
    BY <1>1, ViewsGrow DEF StartFan
  <2>2. fan' \in Fans
    <3>1. PICK targets \in SUBSET Terminals :
            fan' = [Idle EXCEPT !.step = "next", !.sig = s, !.todo = targets, !.orig = attached]
      BY <1>1 DEF StartFan, Targets, Configured
    <3> QED BY <3>1, <1>g DEF Idle, Maybe
  <2>3. Kept
    BY <1>1, <1>g, <2>1, <2>2 DEF StartFan
  <2>4. Typed
    BY <1>1 DEF StartFan, Register, FanTypeOK, SignalStatus
  <2>5. Marked
    BY <1>1, <1>d, <1>i DEF StartFan, FanTypeOK
  <2> QED BY <1>1, <1>a, <1>c, <2>3, <2>4, <2>5 DEF StartFan
<1>2. ASSUME NEW s \in Signals, SingleOrder(s)
      PROVE  FanTypeOK'
  <2>1. verified' \subseteq Terminals
    BY <1>2, ViewsGrow DEF SingleOrder
  <2>2. Kept
    BY <1>2, <1>e, <1>g, <2>1 DEF SingleOrder
  <2>3. Counted
    <3>1. PICK lands \in BOOLEAN :
            /\ lands => Permitted(verified')
            /\ IF lands THEN Ordered(s, attached) ELSE UNCHANGED orderVars
      BY <1>2 DEF SingleOrder
    <3>2. CASE lands
      <4>1. attached \in Terminals
        BY <3>1, <3>2 DEF Permitted, Armed, FanTypeOK
      <4> QED BY <3>1, <3>2, <4>1, OrderedEffect
    <3>3. CASE ~lands
      BY <3>1, <3>3, <1>c
    <3> QED BY <3>2, <3>3
  <2>4. Marked
    <3>1. outcome' \in [Signals -> {"none", "open", "failed"}]
      BY <1>2 DEF SingleOrder, FanTypeOK
    <3>2. keys' \subseteq Signals \X Accounts /\ fans' \in 0..MaxFans
      BY <1>2, <1>i DEF SingleOrder, FanTypeOK
    <3> QED BY <3>1, <3>2
  <2> QED BY <1>2, <1>a, <1>b, <2>2, <2>3, <2>4 DEF SingleOrder
<1>3. CASE SkipDuplicate
  <2>1. fan' \in Fans
    BY <1>3, <1>e DEF SkipDuplicate
  <2> QED BY <1>3, <1>a, <1>b, <1>c, <1>d, <1>h, <1>g, <2>1 DEF SkipDuplicate
<1>4. CASE TakeTarget
  <2> DEFINE Taken(t, r) ==
         /\ attached' = r.at
         /\ Upsert(fan.sig, AccountOf(t), IF r.ok THEN "PENDING" ELSE "FAILED")
         /\ fan' = [fan EXCEPT !.todo = @ \ {t}, !.cur = t,
                               !.step = IF r.ok THEN "process" ELSE "next"]
  <2>0. PICK t \in fan.todo : \E r \in Attaches(t) : Taken(t, r)
    BY <1>4 DEF TakeTarget
  <2>1. PICK r \in Attaches(t) : Taken(t, r)
    BY <2>0
  <2>2. fan.sig \in Signals /\ t \in Terminals /\ AccountOf(t) \in Accounts
    BY <1>4, <1>e DEF TakeTarget, Served, FanTypeOK, AccountOf
  <2>3. attached' \in Maybe /\ fan' \in Fans
    BY <1>e, <2>1, <2>2, AttachEnds DEF Maybe
  <2>4. Typed
    <3>1. (IF r.ok THEN "PENDING" ELSE "FAILED") \in AccountStatus
      BY DEF AccountStatus, Terminal
    <3> QED BY <2>1, <2>2, <3>1, UpsertType
  <2> QED BY <1>4, <1>a, <1>c, <1>d, <1>h, <2>3, <2>4 DEF TakeTarget
<1>5. CASE ProcessAccount
  <2>1. PICK built \in Nat, passed \in SUBSET Nat, ok \in BOOLEAN : Processed(built, passed, ok)
    BY <1>5, ProcessEffect
  <2>2. fan' \in Fans
    BY <1>e, <2>1 DEF Processed
  <2>3. Typed
    <3>1. (IF ok THEN "SUBMITTING" ELSE "REJECTED") \in AccountStatus
      BY DEF AccountStatus, Terminal
    <3> QED BY <1>5, <1>f, <2>1, <3>1, UpsertType DEF ProcessAccount, Processed
  <2> QED BY <1>5, <1>a, <1>c, <1>d, <1>h, <1>g, <2>2, <2>3 DEF ProcessAccount
<1>6. CASE ProcessFails
  <2>1. fan' \in Fans
    BY <1>6, <1>e DEF ProcessFails
  <2>2. Typed
    BY <1>6, <1>f, UpsertType DEF ProcessFails, AccountStatus, Terminal
  <2> QED BY <1>6, <1>a, <1>c, <1>d, <1>h, <1>g, <2>1, <2>2 DEF ProcessFails
<1>7. CASE PersistKey
  <2>1. fan' \in Fans
    BY <1>7, <1>e DEF PersistKey
  <2>2. Typed
    BY <1>7, <1>b, <1>f, UpsertType DEF PersistKey, AccountStatus, Terminal
  <2>3. Marked
    <3>1. keys' \subseteq Signals \X Accounts
      <4>1. <<fan.sig, AccountOf(fan.cur)>> \in Signals \X Accounts
        BY <1>7, <1>f DEF PersistKey
      <4>2. keys' \in {keys, keys \cup {<<fan.sig, AccountOf(fan.cur)>>}}
        BY <1>7 DEF PersistKey
      <4> QED BY <4>1, <4>2 DEF FanTypeOK
    <3>2. UNCHANGED <<outcome, fans>>
      BY <1>7 DEF PersistKey
    <3> QED BY <3>1, <3>2 DEF FanTypeOK
  <2> QED BY <1>7, <1>a, <1>c, <1>h, <1>g, <2>1, <2>2, <2>3 DEF PersistKey
<1>8. CASE SendAccount
  <2>1. PICK lands \in BOOLEAN, reply \in BOOLEAN :
          /\ lands => Permitted(verified')
          /\ IF lands THEN Ordered(fan.sig, attached) ELSE UNCHANGED orderVars
          /\ Upsert(fan.sig, AccountOf(fan.cur), IF reply THEN "FILLED" ELSE "FAILED")
          /\ fan' = [fan EXCEPT !.step = "next", !.done = @ + (IF reply THEN 1 ELSE 0)]
    BY <1>8 DEF SendAccount
  <2>2. verified' \subseteq Terminals
    BY <1>8, ViewsGrow DEF SendAccount
  <2>3. Kept
    <3>1. fan.done + (IF reply THEN 1 ELSE 0) \in Nat
      BY <1>e
    <3>2. fan' \in Fans
      BY <1>e, <2>1, <3>1
    <3> QED BY <1>8, <1>g, <2>2, <3>2 DEF SendAccount
  <2>4. Typed
    <3>1. (IF reply THEN "FILLED" ELSE "FAILED") \in AccountStatus
      BY DEF AccountStatus, Terminal
    <3> QED BY <1>8, <1>f, <2>1, <3>1, UpsertType DEF SendAccount
  <2>5. Counted
    <3>1. CASE lands
      <4>1. attached \in Terminals
        BY <2>1, <3>1 DEF Permitted, Armed, FanTypeOK
      <4> QED BY <1>8, <1>f, <2>1, <3>1, <4>1, OrderedEffect DEF SendAccount
    <3>2. CASE ~lands
      BY <2>1, <3>2, <1>c
    <3> QED BY <3>1, <3>2
  <2> QED BY <1>8, <1>a, <1>d, <2>3, <2>4, <2>5 DEF SendAccount
<1>9. CASE DispatchToTerminal
  <2> DEFINE Sends(t, r, lands, reply) ==
         /\ attached' = r.at
         /\ lands => r.ok
         /\ IF lands THEN Ordered(fan.sig, r.at) ELSE UNCHANGED orderVars
         /\ fan' = [fan EXCEPT !.cur = t, !.todo = @ \ {t},
                               !.done = @ + (IF reply THEN 1 ELSE 0)]
  <2>0. PICK t \in fan.todo : \E r \in Attaches(t) : \E lands, reply \in BOOLEAN :
                                Sends(t, r, lands, reply)
    BY <1>9 DEF DispatchToTerminal
  <2>1. PICK r \in Attaches(t), lands \in BOOLEAN, reply \in BOOLEAN : Sends(t, r, lands, reply)
    BY <2>0
  <2>2. fan.sig \in Signals /\ t \in Terminals
    BY <1>9, <1>e DEF DispatchToTerminal, Served
  <2>3. attached' \in Maybe /\ fan' \in Fans
    <3>1. attached' \in Maybe
      BY <2>1, <2>2, AttachEnds DEF Maybe
    <3>2. fan.done + (IF reply THEN 1 ELSE 0) \in Nat
      BY <1>e
    <3>3. fan' \in Fans
      BY <1>e, <2>1, <2>2, <3>2 DEF Maybe
    <3> QED BY <3>1, <3>3
  <2>4. Counted
    <3>1. CASE lands
      BY <2>1, <2>2, <3>1, AttachEnds, OrderedEffect
    <3>2. CASE ~lands
      BY <2>1, <3>2, <1>c
    <3> QED BY <3>1, <3>2
  <2> QED BY <1>9, <1>a, <1>b, <1>d, <1>h, <2>3, <2>4 DEF DispatchToTerminal
<1>10. CASE EndFan
  <2>1. attached' \in Maybe /\ fan' \in Fans
    BY <1>10 DEF EndFan, AttachFolder, Idle, Maybe
  <2>2. Marked
    BY <1>10 DEF EndFan, FanTypeOK
  <2> QED BY <1>10, <1>a, <1>b, <1>c, <1>h, <2>1, <2>2 DEF EndFan
<1> QED BY <1>1, <1>2, <1>3, <1>4, <1>5, <1>6, <1>7, <1>8, <1>9, <1>10 DEF FanStep

-----------------------------------------------------------------------------
(* What a dispatch in progress serves                                      *)

LEMMA ServedStep ==
  ASSUME FanTypeOK, Served, FanNext
  PROVE  Served'
<1>a. ASSUME fan' = fan, coordinator' = coordinator, armed \subseteq armed',
             verified \subseteq verified', attached' \in {attached, None}
      PROVE  Served'
  BY <1>a DEF Served
<1>b. ASSUME fan'.step = "idle"
      PROVE  Served'
  BY <1>b DEF Served
<1>c. ASSUME fan'.step = "next", fan'.sig = fan.sig, fan'.todo \subseteq fan.todo,
             armed' = armed, verified \subseteq verified', fan.step # "idle"
      PROVE  Served'
  BY <1>c DEF Served
<1>d. fan = [fan EXCEPT !.step = fan.step] /\ fan.todo \subseteq Terminals /\ armed \subseteq Terminals
  BY DEF FanTypeOK
<1>1. ASSUME NEW t \in Terminals,
             TerminalStarts(t) \/ TerminalStops(t) \/ SelectTerminal(t) \/ ArmTerminal(t)
      PROVE  Served'
  <2>1. CASE TerminalStarts(t) \/ TerminalStops(t)
    BY <1>a, <2>1 DEF TerminalStarts, TerminalStops
  <2>2. CASE SelectTerminal(t) \/ ArmTerminal(t)
    BY <1>b, <2>2 DEF SelectTerminal, ArmTerminal
  <2> QED BY <1>1, <2>1, <2>2
<1>2. CASE Disarm \/ ProbeAccounts \/ Restart
  <2>1. CASE Disarm \/ ProbeAccounts
    BY <2>1, <1>b DEF Disarm, ProbeAccounts
  <2>2. CASE Restart
    BY <2>2, <1>b DEF Restart, Idle
  <2> QED BY <1>2, <2>1, <2>2
<1>3. ASSUME NEW s \in Signals, StartFan(s)
      PROVE  Served'
  <2>1. PICK targets \in Targets(verified') :
          fan' = [Idle EXCEPT !.step = "next", !.sig = s, !.todo = targets, !.orig = attached]
    BY <1>3 DEF StartFan
  <2>2. fan'.step = "next" /\ fan'.sig = s /\ fan'.todo = targets
    BY <2>1 DEF Idle
  <2>3. targets \subseteq armed \cap verified'
    BY DEF Targets, Armed
  <2>4. armed' = armed
    BY <1>3 DEF StartFan
  <2> QED BY <2>2, <2>3, <2>4 DEF Served
<1>4. ASSUME NEW s \in Signals, SingleOrder(s)
      PROVE  Served'
  BY <1>b, <1>4 DEF SingleOrder
<1>5. CASE SkipDuplicate
  <2>1. fan'.step = "next" /\ fan'.sig = fan.sig /\ fan'.todo \subseteq fan.todo
    <3>1. PICK t \in fan.todo : fan' = [fan EXCEPT !.todo = @ \ {t}]
      BY <1>5 DEF SkipDuplicate
    <3> QED BY <1>5, <3>1 DEF SkipDuplicate, FanTypeOK
  <2>2. fan.step = "next" /\ armed' = armed /\ verified' = verified
    BY <1>5 DEF SkipDuplicate, terminalVars
  <2> QED BY <1>c, <2>1, <2>2
<1>6. CASE TakeTarget
  <2> DEFINE Taken(t, r) ==
         /\ attached' = r.at
         /\ fan' = [fan EXCEPT !.todo = @ \ {t}, !.cur = t,
                               !.step = IF r.ok THEN "process" ELSE "next"]
  <2>1. PICK t \in fan.todo : \E r \in Attaches(t) : Taken(t, r)
    BY <1>6 DEF TakeTarget
  <2>2. PICK r \in Attaches(t) : Taken(t, r)
    BY <2>1
  <2>3. t \in armed \cap verified /\ t \in Terminals /\ fan.sig \in Signals /\ coordinator
    BY <1>6, <1>d DEF TakeTarget, Served
  <2>4. /\ fan'.sig = fan.sig /\ fan'.cur = t /\ fan'.todo = fan.todo \ {t}
        /\ attached' \in {t, None}
    BY <2>2, <2>3, AttachEnds DEF FanTypeOK
  <2>5. coordinator' = coordinator /\ armed' = armed /\ verified' = verified
    BY <1>6 DEF TakeTarget, terminalVars
  <2>6. fan.todo \subseteq armed \cap verified
    BY <1>6 DEF TakeTarget, Served
  <2> QED BY <2>3, <2>4, <2>5, <2>6 DEF Served
<1>7. CASE ProcessAccount
  <2>1. fan.step = "process" /\ UNCHANGED <<terminalVars, attached, coordinator>>
    BY <1>7 DEF ProcessAccount
  <2>2. fan'.sig = fan.sig /\ fan'.todo = fan.todo /\ fan'.cur = fan.cur
    <3>1. PICK built \in Nat, passed \in SUBSET Nat, ok \in BOOLEAN : Processed(built, passed, ok)
      BY <1>7, ProcessEffect
    <3> QED BY <3>1 DEF Processed, FanTypeOK
  <2> QED BY <2>1, <2>2 DEF Served, terminalVars
<1>8. CASE ProcessFails
  BY <1>8, <1>c DEF ProcessFails, terminalVars, FanTypeOK
<1>9. CASE PersistKey
  <2>1. fan.step = "intent" /\ UNCHANGED <<terminalVars, attached, coordinator>>
    BY <1>9 DEF PersistKey
  <2>2. fan'.sig = fan.sig /\ fan'.todo = fan.todo /\ fan'.cur = fan.cur
    BY <1>9 DEF PersistKey, FanTypeOK
  <2> QED BY <2>1, <2>2 DEF Served, terminalVars
<1>10. CASE SendAccount
  <2>1. verified \subseteq verified' /\ armed' = armed /\ fan.step = "send"
    BY <1>10, ViewsGrow DEF SendAccount
  <2>2. fan'.step = "next" /\ fan'.sig = fan.sig /\ fan'.todo = fan.todo
    BY <1>10 DEF SendAccount, FanTypeOK
  <2> QED BY <1>c, <2>1, <2>2
<1>11. CASE DispatchToTerminal
  <2>1. fan'.step = "next" /\ fan'.sig = fan.sig /\ fan'.todo \subseteq fan.todo
    <3> DEFINE Sends(t, reply) == fan' = [fan EXCEPT !.cur = t, !.todo = @ \ {t},
                                             !.done = @ + (IF reply THEN 1 ELSE 0)]
    <3>1. PICK t \in fan.todo, reply \in BOOLEAN : Sends(t, reply)
      BY <1>11 DEF DispatchToTerminal
    <3> QED BY <1>11, <3>1 DEF DispatchToTerminal, FanTypeOK
  <2>2. fan.step = "next" /\ armed' = armed /\ verified' = verified
    BY <1>11 DEF DispatchToTerminal, terminalVars
  <2> QED BY <1>c, <2>1, <2>2
<1>12. CASE EndFan
  BY <1>12, <1>b DEF EndFan, Idle
<1> QED
  BY <1>1, <1>2, <1>3, <1>4, <1>5, <1>6, <1>7, <1>8, <1>9, <1>10, <1>11, <1>12
  DEF FanNext, FanStep

\* Only ProcessAccount gives a dispatch a volume, and both the volume asked and
\* the volume built must have passed.
LEMMA ApprovedStep ==
  ASSUME FanTypeOK, SentIsApproved, FanNext
  PROVE  SentIsApproved'
<1>a. ASSUME fan'.step \notin {"intent", "send"}
      PROVE  SentIsApproved'
  BY <1>a DEF SentIsApproved
<1>b. ASSUME fan' = fan
      PROVE  SentIsApproved'
  BY <1>b DEF SentIsApproved
<1>1. ASSUME NEW t \in Terminals,
             TerminalStarts(t) \/ TerminalStops(t) \/ SelectTerminal(t) \/ ArmTerminal(t)
      PROVE  SentIsApproved'
  BY <1>b, <1>1 DEF TerminalStarts, TerminalStops, SelectTerminal, ArmTerminal
<1>2. CASE Disarm \/ ProbeAccounts
  BY <1>2, <1>b DEF Disarm, ProbeAccounts
<1>3. ASSUME NEW s \in Signals, StartFan(s) \/ SingleOrder(s)
      PROVE  SentIsApproved'
  <2>1. CASE StartFan(s)
    BY <2>1, <1>a DEF StartFan, Idle
  <2>2. CASE SingleOrder(s)
    BY <2>2, <1>b DEF SingleOrder
  <2> QED BY <1>3, <2>1, <2>2
<1>4. CASE Restart \/ EndFan
  <2>1. fan' = Idle
    BY <1>4 DEF Restart, EndFan
  <2> QED BY <1>a, <2>1 DEF Idle
<1>5. CASE SkipDuplicate \/ TakeTarget \/ ProcessFails \/ SendAccount \/ DispatchToTerminal
  <2>1. fan'.step \in {"next", "process"}
    <3>1. CASE SkipDuplicate
      BY <3>1 DEF SkipDuplicate, FanTypeOK
    <3>2. CASE TakeTarget
      BY <3>2 DEF TakeTarget, FanTypeOK
    <3>3. CASE ProcessFails
      BY <3>3 DEF ProcessFails, FanTypeOK
    <3>4. CASE SendAccount
      BY <3>4 DEF SendAccount, FanTypeOK
    <3>5. CASE DispatchToTerminal
      BY <3>5 DEF DispatchToTerminal, FanTypeOK
    <3> QED BY <1>5, <3>1, <3>2, <3>3, <3>4, <3>5
  <2> QED BY <1>a, <2>1
<1>6. CASE ProcessAccount
  <2>1. PICK built \in Nat, passed \in SUBSET Nat, ok \in BOOLEAN : Processed(built, passed, ok)
    BY <1>6, ProcessEffect
  <2> QED BY <2>1 DEF Processed, SentIsApproved, FanTypeOK
<1>7. CASE PersistKey
  <2>1. fan.vol \in fan.approved
    BY <1>7 DEF PersistKey, SentIsApproved
  <2>2. fan'.vol = fan.vol /\ fan'.approved = fan.approved
    BY <1>7 DEF PersistKey, FanTypeOK
  <2> QED BY <2>1, <2>2 DEF SentIsApproved
<1> QED BY <1>1, <1>2, <1>3, <1>4, <1>5, <1>6, <1>7 DEF FanNext, FanStep

-----------------------------------------------------------------------------
(* Keys before orders                                                      *)

LEMMA ReservedStep ==
  ASSUME FanTypeOK, Served, Reserved, FanNext
  PROVE  Reserved'
<1> DEFINE Backed == coordinator => \A s \in Signals, a \in Accounts :
                                      sent[s][a] > 0 => <<s, a>> \in keys
<1>a. ASSUME UNCHANGED <<login, coordinator, keys, sent>>,
             fan'.step = "send" => fan' = fan
      PROVE  Reserved'
  BY <1>a DEF Reserved, AccountOf
<1>b. UNCHANGED orderVars => UNCHANGED sent
  BY DEF orderVars
<1>c. UNCHANGED terminalVars => UNCHANGED login
  BY DEF terminalVars
<1>1. ASSUME NEW t \in Terminals,
             TerminalStarts(t) \/ TerminalStops(t) \/ SelectTerminal(t) \/ ArmTerminal(t)
      PROVE  Reserved'
  BY <1>1, <1>a, <1>b DEF TerminalStarts, TerminalStops, SelectTerminal, ArmTerminal
<1>2. CASE Disarm \/ ProbeAccounts
  BY <1>2, <1>a, <1>b DEF Disarm, ProbeAccounts
<1>3. CASE Restart
  BY <1>3, <1>a, <1>b DEF Restart, Idle
<1>4. ASSUME NEW s \in Signals, StartFan(s)
      PROVE  Reserved'
  BY <1>4, <1>a, <1>b DEF StartFan, Idle
<1>5. ASSUME NEW s \in Signals, SingleOrder(s)
      PROVE  Reserved'
  BY <1>5 DEF SingleOrder, Reserved
<1>6. CASE SkipDuplicate
  <2>1. fan'.step = fan.step /\ fan.step = "next"
    BY <1>6 DEF SkipDuplicate, FanTypeOK
  <2> QED BY <1>6, <1>a, <1>b, <1>c, <2>1 DEF SkipDuplicate
<1>7. CASE TakeTarget
  <2>1. fan'.step \in {"next", "process"}
    BY <1>7 DEF TakeTarget, FanTypeOK
  <2> QED BY <1>7, <1>a, <1>b, <1>c, <2>1 DEF TakeTarget
<1>8. CASE ProcessAccount
  <2>1. fan'.step \in {"intent", "next"}
    <3>1. PICK built \in Nat, passed \in SUBSET Nat, ok \in BOOLEAN : Processed(built, passed, ok)
      BY <1>8, ProcessEffect
    <3> QED BY <3>1 DEF Processed, FanTypeOK
  <2> QED BY <1>8, <1>a, <1>b, <1>c, <2>1 DEF ProcessAccount
<1>9. CASE ProcessFails
  <2>1. fan'.step = "next"
    BY <1>9 DEF ProcessFails, FanTypeOK
  <2> QED BY <1>9, <1>a, <1>b, <1>c, <2>1 DEF ProcessFails
<1>10. CASE PersistKey
  <2> DEFINE s == fan.sig
             a == AccountOf(fan.cur)
  <2>1. s \in Signals /\ a \in Accounts /\ coordinator
    BY <1>10 DEF PersistKey, Served, FanTypeOK, AccountOf
  <2>2. UNCHANGED <<login, coordinator, sent>> /\ fan'.sig = s /\ AccountOf(fan.cur)' = a
    BY <1>10 DEF PersistKey, FanTypeOK, terminalVars, orderVars, AccountOf
  <2>3. CASE FreshKey(s, a) /\ fan.vol > 0
    <3>1. keys' = keys \cup {<<s, a>>} /\ <<s, a>> \notin keys
      BY <1>10, <2>3 DEF PersistKey, FreshKey
    <3>2. sent[s][a] \in Nat
      <4>1. sent \in [Signals -> [Accounts -> Nat]]
        BY DEF FanTypeOK
      <4> HIDE DEF s, a
      <4> QED BY <2>1, <4>1
    <3>3. sent[s][a] = 0
      BY <2>1, <3>1, <3>2 DEF Reserved
    <3> HIDE DEF s, a
    <3> QED BY <2>1, <2>2, <3>1, <3>3 DEF Reserved, s, a
  <2>4. CASE ~(FreshKey(s, a) /\ fan.vol > 0)
    <3>1. fan'.step = "next" /\ keys' = keys
      BY <1>10, <2>4 DEF PersistKey, FanTypeOK
    <3> QED BY <1>a, <2>2, <3>1
  <2> QED BY <2>3, <2>4
<1>11. CASE SendAccount
  <2>1. fan'.step = "next" /\ fan.step = "send" /\ UNCHANGED <<login, coordinator, keys>>
    BY <1>11 DEF SendAccount, FanTypeOK
  <2>2. PICK lands \in BOOLEAN :
          /\ lands => Permitted(verified')
          /\ IF lands THEN Ordered(fan.sig, attached) ELSE UNCHANGED orderVars
    BY <1>11 DEF SendAccount
  <2>3. CASE lands
    <3>1. attached = fan.cur /\ attached \in Terminals /\ fan.sig \in Signals
      BY <2>1, <2>2, <2>3, FanOutAssumption DEF Permitted, Armed, Served, FanTypeOK
    <3>2. <<fan.sig, AccountOf(attached)>> \in keys
      BY <2>1, <3>1 DEF Reserved
    <3>3. \A s \in Signals, a \in Accounts :
            sent'[s][a] # sent[s][a] => s = fan.sig /\ a = AccountOf(attached)
      BY <2>2, <2>3, <3>1, OrderedEffect
    <3> QED BY <2>1, <3>2, <3>3 DEF Reserved
  <2>4. CASE ~lands
    BY <1>a, <1>b, <2>1, <2>2, <2>4
  <2> QED BY <2>3, <2>4
<1>12. CASE DispatchToTerminal
  <2>1. ~coordinator /\ ~coordinator' /\ fan.step = "next"
    BY <1>12 DEF DispatchToTerminal
  <2>2. fan'.step = "next"
    <3> DEFINE Sends(t, reply) == fan' = [fan EXCEPT !.cur = t, !.todo = @ \ {t},
                                             !.done = @ + (IF reply THEN 1 ELSE 0)]
    <3>1. PICK t \in fan.todo, reply \in BOOLEAN : Sends(t, reply)
      BY <1>12 DEF DispatchToTerminal
    <3> QED BY <2>1, <3>1 DEF FanTypeOK
  <2> QED BY <2>1, <2>2 DEF Reserved
<1>13. CASE EndFan
  BY <1>13, <1>a, <1>b, <1>c DEF EndFan, Idle
<1> QED
  BY <1>1, <1>2, <1>3, <1>4, <1>5, <1>6, <1>7, <1>8, <1>9, <1>10, <1>11, <1>12, <1>13
  DEF FanNext, FanStep

-----------------------------------------------------------------------------
(* The theorems                                                            *)

LEMMA FanInvInductive ==
  ASSUME FanInv, [FanNext]_fanVars
  PROVE  FanInv'
<1>1. CASE FanNext
  <2>1. FanTypeOK'
    <3>1. CASE (\E s \in Signals : StartFan(s) \/ SingleOrder(s)) \/ FanStep
      BY <3>1, DispatchType DEF FanInv
    <3>2. CASE \/ \E t \in Terminals : TerminalStarts(t) \/ TerminalStops(t)
                                         \/ SelectTerminal(t) \/ ArmTerminal(t)
               \/ Disarm \/ ProbeAccounts \/ Restart
      BY <3>2, RegistryType DEF FanInv
    <3> QED BY <1>1, <3>1, <3>2 DEF FanNext
  <2> QED BY <1>1, <2>1, ServedStep, ApprovedStep, ReservedStep DEF FanInv
<1>2. CASE UNCHANGED fanVars
  BY <1>2 DEF FanInv, FanTypeOK, Served, SentIsApproved, Reserved, AccountOf, fanVars,
              terminalVars, ledgerVars, orderVars
<1> QED BY <1>1, <1>2

\* What a dispatch knows of its target and of its key, in every behaviour.
THEOREM FanInvariant == FanSpec => []FanInv
<1>1. FanInit => FanInv
  <2> SUFFICES ASSUME FanInit
               PROVE  FanInv
    OBVIOUS
  <2>1. fan.step = "idle" /\ \A s \in Signals, a \in Accounts : sent[s][a] = 0
    BY DEF FanInit, Idle
  <2> QED BY <2>1, FanTypeInit DEF FanInv, Served, SentIsApproved, Reserved
<1> QED BY <1>1, FanInvInductive, PTL DEF FanSpec

\* The volume about to be sent passed the gate, whatever volume, lot step and
\* failed reads of the step (_process_account).
THEOREM SentIsApprovedHolds == FanSpec => []SentIsApproved
<1>1. FanInv => SentIsApproved
  BY DEF FanInv
<1> QED BY <1>1, FanInvariant, PTL

\* Only the four sending steps order anything, each on a terminal that is armed
\* and verified, and in a dispatch on the target being served.
LEMMA OrderedWhereMeant ==
  ASSUME FanInv, FanNext, NEW s \in Signals, NEW t \in Terminals, orders'[s][t] # orders[s][t]
  PROVE  /\ t \in armed /\ t \in verified'
         /\ fan.step # "idle" => fan'.cur = t
<1> USE DEF FanInv
<1>1. CASE SendAccount
  <2>1. PICK lands \in BOOLEAN :
          /\ lands => Permitted(verified')
          /\ IF lands THEN Ordered(fan.sig, attached) ELSE UNCHANGED orderVars
    BY <1>1 DEF SendAccount
  <2>2. lands
    BY <2>1 DEF orderVars
  <2>3. attached = fan.cur /\ attached \in armed \cap verified' /\ attached \in Terminals
    BY <1>1, <2>1, <2>2, FanOutAssumption DEF SendAccount, Permitted, Armed, Served, FanTypeOK
  <2>4. t = attached
    BY <1>1, <2>1, <2>2, <2>3, OrderedEffect DEF SendAccount, Served
  <2>5. fan'.cur = fan.cur
    BY <1>1 DEF SendAccount, FanTypeOK
  <2> QED BY <2>3, <2>4, <2>5
<1>2. CASE DispatchToTerminal
  <2> DEFINE Sends(t2, r, lands, reply) ==
         /\ attached' = r.at
         /\ lands => r.ok
         /\ IF lands THEN Ordered(fan.sig, r.at) ELSE UNCHANGED orderVars
         /\ fan' = [fan EXCEPT !.cur = t2, !.todo = @ \ {t2},
                               !.done = @ + (IF reply THEN 1 ELSE 0)]
  <2>1. PICK t2 \in fan.todo : \E r \in Attaches(t2) : \E lands, reply \in BOOLEAN :
                                 Sends(t2, r, lands, reply)
    BY <1>2 DEF DispatchToTerminal
  <2>2. PICK r \in Attaches(t2), lands \in BOOLEAN, reply \in BOOLEAN : Sends(t2, r, lands, reply)
    BY <2>1
  <2>3. lands
    BY <2>2 DEF orderVars
  <2>4. t2 \in armed \cap verified /\ t2 \in Terminals /\ fan.sig \in Signals
    BY <1>2 DEF DispatchToTerminal, Served, FanTypeOK
  <2>5. r.at = t2
    BY <2>2, <2>3, <2>4, AttachEnds
  <2>6. t = t2
    BY <2>2, <2>3, <2>4, <2>5, OrderedEffect
  <2>7. fan'.cur = t2 /\ verified' = verified
    BY <1>2, <2>2 DEF DispatchToTerminal, FanTypeOK, terminalVars
  <2> QED BY <2>4, <2>6, <2>7
<1>3. ASSUME NEW s2 \in Signals, SingleOrder(s2)
      PROVE  t \in armed /\ t \in verified' /\ fan.step = "idle"
  <2>1. PICK lands \in BOOLEAN :
          /\ lands => Permitted(verified')
          /\ IF lands THEN Ordered(s2, attached) ELSE UNCHANGED orderVars
    BY <1>3 DEF SingleOrder
  <2>2. lands
    BY <2>1 DEF orderVars
  <2>3. attached \in armed \cap verified' /\ attached \in Terminals
    BY <2>1, <2>2 DEF Permitted, Armed, FanTypeOK
  <2>4. t = attached
    BY <2>1, <2>2, <2>3, OrderedEffect
  <2> QED BY <1>3, <2>3, <2>4 DEF SingleOrder
<1>4. CASE \/ \E t2 \in Terminals : TerminalStarts(t2) \/ TerminalStops(t2) \/ SelectTerminal(t2)
                                      \/ ArmTerminal(t2)
           \/ Disarm \/ ProbeAccounts \/ Restart \/ \E s2 \in Signals : StartFan(s2)
           \/ SkipDuplicate \/ TakeTarget \/ ProcessAccount \/ ProcessFails \/ PersistKey \/ EndFan
  BY <1>4 DEF orderVars, TerminalStarts, TerminalStops, SelectTerminal, ArmTerminal, Disarm,
              ProbeAccounts, Restart, StartFan, SkipDuplicate, TakeTarget, ProcessAccount,
              ProcessFails, PersistKey, EndFan
<1> QED BY <1>1, <1>2, <1>3, <1>4 DEF FanNext, FanStep

\* No step of any behaviour orders on a terminal that is not armed, not verified
\* or not the target being served (execution_permitted, fan_out).
THEOREM OrdersWhereMeantHolds == FanSpec => OrdersWhereMeant
<1> DEFINE Meant == \A s \in Signals, t \in Terminals : orders'[s][t] # orders[s][t] =>
                      /\ t \in armed /\ t \in verified'
                      /\ fan.step # "idle" => fan'.cur = t
<1>1. FanInv /\ [FanNext]_fanVars => [Meant]_fanVars
  BY OrderedWhereMeant
<1> HIDE DEF Meant
<1>2. FanSpec => [][Meant]_fanVars
  BY <1>1, FanInvariant, PTL DEF FanSpec
<1> QED BY <1>2 DEF OrdersWhereMeant, Meant

\* Every step of the canonical fan-out reserves a key, dispatches a reserved one
\* for the first time, or changes neither; the engine's own fan-out, which keeps
\* no keys, is outside the promise and maps to stuttering.
LEMMA FanRefines ==
  ASSUME FanInv, [FanNext]_fanVars
  PROVE  [PerAccount!AbsNext]_(PerAccount!absVars)
<1> DEFINE Keyed == Signals \X Accounts
           Counts == [k \in Keyed |-> IF coordinator THEN sent[k[1]][k[2]] ELSE 0]
<1>a. ASSUME UNCHANGED <<coordinator, keys, sent>>
      PROVE  UNCHANGED PerAccount!absVars
  BY <1>a DEF PerAccount!absVars
<1>b. ASSUME UNCHANGED orderVars
      PROVE  UNCHANGED sent
  BY <1>b DEF orderVars
<1>1. CASE PersistKey
  <2> DEFINE k == <<fan.sig, AccountOf(fan.cur)>>
  <2>1. k \in Keyed
    BY <1>1 DEF PersistKey, FanInv, Served, FanTypeOK, AccountOf
  <2>2. UNCHANGED <<coordinator, sent>>
    BY <1>1, <1>b DEF PersistKey
  <2>3. keys' \in {keys, keys \cup {k}}
    BY <1>1 DEF PersistKey
  <2>4. CASE keys' = keys
    BY <1>a, <2>2, <2>4
  <2>5. CASE keys' = keys \cup {k}
    <3>1. Counts' = Counts
      BY <2>2
    <3> HIDE DEF k
    <3>2. PerAccount!Reserve(k)
      BY <2>5, <3>1 DEF PerAccount!Reserve
    <3> QED BY <2>1, <3>2 DEF PerAccount!AbsNext
  <2> QED BY <2>3, <2>4, <2>5
<1>2. CASE SendAccount
  <2> DEFINE k == <<fan.sig, AccountOf(fan.cur)>>
  <2>1. /\ fan.sig \in Signals /\ AccountOf(fan.cur) \in Accounts /\ coordinator
        /\ k \in keys /\ sent[fan.sig][AccountOf(fan.cur)] = 0
    BY <1>2 DEF SendAccount, FanInv, Served, Reserved, FanTypeOK, AccountOf
  <2>2. UNCHANGED <<coordinator, keys>>
    BY <1>2 DEF SendAccount
  <2>3. PICK lands \in BOOLEAN :
          /\ lands => Permitted(verified')
          /\ IF lands THEN Ordered(fan.sig, attached) ELSE UNCHANGED orderVars
    BY <1>2 DEF SendAccount
  <2>4. CASE lands
    <3>1. attached = fan.cur /\ attached \in Terminals
      <4>1. attached \in {fan.cur, None}
        BY <1>2 DEF SendAccount, FanInv, Served
      <4>2. attached \in armed /\ armed \subseteq Terminals
        BY <2>3, <2>4 DEF Permitted, Armed, FanInv, FanTypeOK
      <4> QED BY <4>1, <4>2, FanOutAssumption
    <3>2. /\ sent' \in [Signals -> [Accounts -> Nat]]
          /\ sent'[fan.sig][AccountOf(fan.cur)] = 1
          /\ \A s \in Signals, a \in Accounts :
               sent'[s][a] # sent[s][a] => s = fan.sig /\ a = AccountOf(fan.cur)
      BY <2>1, <2>3, <2>4, <3>1, OrderedEffect DEF FanInv
    <3>3. k \in Keyed /\ k[1] = fan.sig /\ k[2] = AccountOf(fan.cur)
      BY <2>1
    <3>4. Counts[k] = 0
      BY <2>1, <3>3
    <3>5. Counts' = [Counts EXCEPT ![k] = 1]
      <4>1. \A j \in Keyed : j # k => Counts'[j] = Counts[j]
        BY <2>1, <2>2, <3>2
      <4>2. Counts'[k] = 1
        BY <2>1, <2>2, <3>2, <3>3
      <4>3. DOMAIN Counts' = Keyed /\ DOMAIN Counts = Keyed
        OBVIOUS
      <4> HIDE DEF k, Counts, Keyed
      <4>4. \A j \in Keyed : Counts'[j] = [Counts EXCEPT ![k] = 1][j]
        BY <3>3, <4>1, <4>2, <4>3
      <4> QED BY <3>3, <4>3, <4>4 DEF Counts
    <3>6. PICK key \in Signals \X Accounts : key = k
      BY <3>3
    <3>7. PerAccount!Dispatch(key)
      BY <2>1, <2>2, <3>4, <3>5, <3>6 DEF PerAccount!Dispatch
    <3> QED BY <3>7 DEF PerAccount!AbsNext
  <2>5. CASE ~lands
    BY <1>a, <1>b, <2>2, <2>3, <2>5
  <2> QED BY <2>4, <2>5
<1>3. ASSUME \/ DispatchToTerminal
             \/ \E s \in Signals : SingleOrder(s)
      PROVE  UNCHANGED PerAccount!absVars
  <2>1. ~coordinator /\ ~coordinator' /\ keys' = keys
    <3>1. CASE DispatchToTerminal
      BY <3>1 DEF DispatchToTerminal
    <3>2. ASSUME NEW s \in Signals, SingleOrder(s)
          PROVE  ~coordinator /\ ~coordinator' /\ keys' = keys
      BY <3>2 DEF SingleOrder
    <3> QED BY <1>3, <3>1, <3>2
  <2> QED BY <2>1 DEF PerAccount!absVars
<1>4. CASE \/ \E t \in Terminals : TerminalStarts(t) \/ TerminalStops(t) \/ SelectTerminal(t)
                                     \/ ArmTerminal(t)
           \/ Disarm \/ ProbeAccounts \/ Restart \/ \E s \in Signals : StartFan(s)
           \/ SkipDuplicate \/ TakeTarget \/ ProcessAccount \/ ProcessFails \/ EndFan
  BY <1>4, <1>a, <1>b
  DEF TerminalStarts, TerminalStops, SelectTerminal, ArmTerminal, Disarm, ProbeAccounts,
      Restart, StartFan, SkipDuplicate, TakeTarget, ProcessAccount, ProcessFails, EndFan
<1>5. CASE UNCHANGED fanVars
  BY <1>5, <1>a DEF fanVars, orderVars
<1> QED BY <1>1, <1>2, <1>3, <1>4, <1>5 DEF FanNext, FanStep

\* The canonical fan-out keeps the engine's promise per account: a key before
\* its order, and at most one order for a signal on an account, through restarts,
\* repeated dispatches and terminals that share a login.
THEOREM OncePerAccountHolds == FanSpec => OncePerAccount
<1>1. FanInit => PerAccount!AbsInit
  <2> SUFFICES ASSUME FanInit
               PROVE  PerAccount!AbsInit
    OBVIOUS
  <2>1. keys = {} /\ \A k \in Signals \X Accounts : sent[k[1]][k[2]] = 0
    BY DEF FanInit
  <2> QED BY <2>1 DEF PerAccount!AbsInit
<1> QED
  BY <1>1, FanRefines, FanInvariant, PTL DEF FanSpec, OncePerAccount, PerAccount!AbsSpec
=============================================================================
