----------------------------- MODULE DeskProofs -----------------------------
(***************************************************************************)
(* Proofs about what surrounds the trading path: the notices to Telegram   *)
(* (Notices), start-up and the settings (Startup) and the news provider    *)
(* (NewsFeed), for any symbols, chats and callers and all bounds.          *)
(***************************************************************************)
EXTENDS Notices, Startup, NewsFeed, TLAPS

-----------------------------------------------------------------------------
(* One message per signal.  A message is only sent when the symbol has no  *)
(* state, and a state that goes leaves its messages finished or stray, so  *)
(* what a chat has beside its strays is what the state still refers to.    *)

SignalStates ==
  [dir : Directions \cup {"none"}, status : {"none", "open", "waiting"}, detail : Nat,
   hits : SUBSET Levels, ids : SUBSET Chats]
Records ==
  [symbol : Symbols, dir : Directions, approved : BOOLEAN, status : {"open", "waiting"},
   ticket : Nat]
Counts == [Symbols -> [Chats -> Nat]]

Held(s, c) == IF c \in states[s].ids THEN 1 ELSE 0

\* A message that is not finished is a stray, or the one the state would edit.
MessagesHeld == \A s \in Symbols, c \in Chats : live[s][c] = stray[s][c] + Held(s, c)

TrackerInv ==
  /\ tickets \in Nat
  /\ records \subseteq Records
  /\ states \in [Symbols -> SignalStates]
  /\ live \in Counts /\ stray \in Counts
  /\ MessagesHeld

LEMMA NoStateType == NoState \in SignalStates /\ NoState.ids = {}
  BY DEF NoState, SignalStates

\* A finished cycle leaves a record of the right shape.
LEMMA FinishType ==
  ASSUME TrackerInv, NEW r \in Records, FinishCycle(r), tickets' \in Nat
  PROVE  TrackerInv'
<1>1. records' \subseteq Records
  BY DEF FinishCycle, TrackerInv
<1>2. states' = states /\ live' = live /\ stray' = stray
  BY DEF FinishCycle, messageVars
<1> QED BY <1>1, <1>2 DEF TrackerInv, MessagesHeld, Held

\* Counting one more in some chats of a symbol.
LEMMA MoreCounts ==
  ASSUME NEW counts \in Counts, NEW s \in Symbols, NEW chats
  PROVE  /\ More(counts, s, chats) \in Counts
         /\ \A q \in Symbols, c \in Chats :
              More(counts, s, chats)[q][c] =
                counts[q][c] + IF q = s /\ c \in chats THEN 1 ELSE 0
<1> DEFINE row == [c \in Chats |-> counts[s][c] + IF c \in chats THEN 1 ELSE 0]
<1>1. More(counts, s, chats) = [counts EXCEPT ![s] = row]
  BY DEF More
<1>2. row \in [Chats -> Nat] /\ \A c \in Chats : row[c] = counts[s][c] + IF c \in chats THEN 1 ELSE 0
  BY DEF Counts
<1> HIDE DEF row
<1>3. [counts EXCEPT ![s] = row] \in Counts
  BY <1>2 DEF Counts
<1>4. ASSUME NEW q \in Symbols, NEW c \in Chats
      PROVE  [counts EXCEPT ![s] = row][q][c] =
               counts[q][c] + IF q = s /\ c \in chats THEN 1 ELSE 0
  <2>1. CASE q = s
    BY <1>2, <2>1 DEF Counts
  <2>2. CASE q # s
    BY <2>2 DEF Counts
  <2> QED BY <2>1, <2>2
<1> QED BY <1>1, <1>3, <1>4

\* A new status and ticket leave a state what it was otherwise.
LEMMA EditKeepsType ==
  ASSUME NEW x \in SignalStates, NEW status \in {"open", "waiting"}, NEW ticket \in Nat
  PROVE  /\ [x EXCEPT !.status = status, !.detail = ticket] \in SignalStates
         /\ [x EXCEPT !.status = status, !.detail = ticket].ids = x.ids
  BY DEF SignalStates

\* Whatever observe_cycle_result decides keeps the messages held: it sends only where
\* there is no state, and any other choice edits.
LEMMA ReportKeeps ==
  ASSUME TrackerInv, NEW r \in Records, NEW arrived \in SUBSET Chats,
         NEW answered \in SUBSET arrived, Report(r.symbol, r, arrived, answered)
  PROVE  /\ states' \in [Symbols -> SignalStates]
         /\ live' \in Counts /\ stray' \in Counts /\ MessagesHeld'
<1> DEFINE s == r.symbol
<1>1. /\ s \in Symbols /\ r.dir \in Directions /\ r.status \in {"open", "waiting"}
      /\ r.ticket \in Nat
  BY DEF Records
<1>t. /\ states \in [Symbols -> SignalStates] /\ live \in Counts /\ stray \in Counts
      /\ MessagesHeld
  BY DEF TrackerInv
<1>2. CASE ~Active(s)
  <2> DEFINE new == [dir |-> r.dir, status |-> r.status, detail |-> r.ticket, hits |-> {},
                     ids |-> answered]
  <2>1. /\ states' = [states EXCEPT ![s] = new]
        /\ live' = More(live, s, arrived) /\ stray' = More(stray, s, arrived \ answered)
    BY <1>2 DEF Report, Send
  <2>2. new \in SignalStates /\ new.ids = answered
    BY <1>1 DEF SignalStates
  <2>3. states[s].ids = {}
    BY <1>2, NoStateType DEF Active
  <2> HIDE DEF new
  <2>4. /\ states' \in [Symbols -> SignalStates] /\ states'[s].ids = answered
        /\ \A q \in Symbols \ {s} : states'[q] = states[q]
    BY <1>1, <1>t, <2>1, <2>2
  <2>5. /\ live' \in Counts /\ stray' \in Counts
        /\ \A q \in Symbols, c \in Chats :
             /\ live'[q][c] = live[q][c] + IF q = s /\ c \in arrived THEN 1 ELSE 0
             /\ stray'[q][c] = stray[q][c] + IF q = s /\ c \in arrived \ answered THEN 1 ELSE 0
    BY <1>1, <1>t, <2>1, MoreCounts
  <2>6. ASSUME NEW q \in Symbols, NEW c \in Chats
        PROVE  live'[q][c] = stray'[q][c] + Held(q, c)'
    <3>1. live[q][c] \in Nat /\ stray[q][c] \in Nat /\ live[q][c] = stray[q][c] + Held(q, c)
      BY <1>t DEF MessagesHeld, Counts
    <3>2. CASE q = s
      BY <2>3, <2>4, <2>5, <3>1, <3>2 DEF Held
    <3>3. CASE q # s
      BY <2>4, <2>5, <3>1, <3>3 DEF Held
    <3> QED BY <3>2, <3>3
  <2> QED BY <2>4, <2>5, <2>6 DEF MessagesHeld
<1>3. CASE Active(s)
  <2>1. live' = live /\ stray' = stray
    BY <1>3 DEF Report, Update, Replace
  <2>2. /\ states' \in [Symbols -> SignalStates]
        /\ \A q \in Symbols : states'[q].ids = states[q].ids
    <3>1. CASE states[s].dir = r.dir
      <4>1. states' = [states EXCEPT ![s] = [@ EXCEPT !.status = r.status, !.detail = r.ticket]]
        BY <1>3, <3>1 DEF Report, Update
      <4>2. /\ [states[s] EXCEPT !.status = r.status, !.detail = r.ticket] \in SignalStates
            /\ [states[s] EXCEPT !.status = r.status, !.detail = r.ticket].ids = states[s].ids
        BY <1>1, <1>t, EditKeepsType
      <4> DEFINE edited == [states[s] EXCEPT !.status = r.status, !.detail = r.ticket]
      <4>3. states' = [states EXCEPT ![s] = edited]
        BY <4>1
      <4>4. edited \in SignalStates /\ edited.ids = states[s].ids
        BY <4>2
      <4> HIDE DEF edited
      <4> QED BY <1>1, <1>t, <4>3, <4>4
    <3>2. CASE states[s].dir # r.dir /\ states[s].status = "open"
      BY <1>3, <1>t, <3>2 DEF Report
    <3>3. CASE states[s].dir # r.dir /\ states[s].status # "open"
      <4> DEFINE new == [dir |-> r.dir, status |-> r.status, detail |-> r.ticket, hits |-> {},
                         ids |-> states[s].ids]
      <4>1. states' = [states EXCEPT ![s] = new]
        BY <1>1, <1>t, <1>3, <3>3 DEF Report, Replace
      <4>2. new \in SignalStates /\ new.ids = states[s].ids
        BY <1>1, <1>t DEF SignalStates
      <4> HIDE DEF new
      <4> QED BY <1>1, <1>t, <4>1, <4>2
    <3> QED BY <3>1, <3>2, <3>3
  <2> QED BY <1>t, <2>1, <2>2 DEF MessagesHeld, Held
<1> QED BY <1>2, <1>3

\* A state that goes leaves its messages finished or stray.
LEMMA DroppedKeeps ==
  ASSUME TrackerInv, NEW targets, NEW finished, Dropped(targets, finished)
  PROVE  /\ states' \in [Symbols -> SignalStates]
         /\ live' \in Counts /\ stray' \in Counts /\ MessagesHeld'
<1>t. /\ states \in [Symbols -> SignalStates] /\ live \in Counts /\ stray \in Counts
      /\ MessagesHeld
  BY DEF TrackerInv
<1>1. /\ states' = [s \in Symbols |-> IF s \in targets THEN NoState ELSE states[s]]
      /\ live' = [s \in Symbols |-> [c \in Chats |->
           live[s][c] - IF s \in targets /\ c \in states[s].ids \cap finished THEN 1 ELSE 0]]
      /\ stray' = [s \in Symbols |-> [c \in Chats |->
           stray[s][c] + IF s \in targets /\ c \in states[s].ids \ finished THEN 1 ELSE 0]]
  BY DEF Dropped
<1>2. /\ states' \in [Symbols -> SignalStates]
      /\ \A s \in Symbols : states'[s] = IF s \in targets THEN NoState ELSE states[s]
  BY <1>t, <1>1, NoStateType
<1>3. ASSUME NEW s \in Symbols, NEW c \in Chats
      PROVE  /\ live'[s][c] \in Nat /\ stray'[s][c] \in Nat
             /\ live'[s][c] = stray'[s][c] + Held(s, c)'
  <2>1. /\ live[s][c] \in Nat /\ stray[s][c] \in Nat /\ live[s][c] = stray[s][c] + Held(s, c)
    BY <1>t DEF MessagesHeld, Counts
  <2>2. /\ live'[s][c] = live[s][c] -
              IF s \in targets /\ c \in states[s].ids \cap finished THEN 1 ELSE 0
        /\ stray'[s][c] = stray[s][c] +
              IF s \in targets /\ c \in states[s].ids \ finished THEN 1 ELSE 0
    BY <1>1
  <2>3. CASE s \in targets
    <3>1. states'[s].ids = {}
      BY <1>2, <2>3, NoStateType
    <3> QED BY <2>1, <2>2, <2>3, <3>1 DEF Held
  <2>4. CASE s \notin targets
    <3>1. states'[s].ids = states[s].ids
      BY <1>2, <2>4
    <3> QED BY <2>1, <2>2, <2>4, <3>1 DEF Held
  <2> QED BY <2>3, <2>4
<1>4. live' \in Counts /\ stray' \in Counts
  <2> DEFINE f(s, c) == live[s][c] -
               IF s \in targets /\ c \in states[s].ids \cap finished THEN 1 ELSE 0
             g(s, c) == stray[s][c] +
               IF s \in targets /\ c \in states[s].ids \ finished THEN 1 ELSE 0
  <2>1. live' = [s \in Symbols |-> [c \in Chats |-> f(s, c)]]
        /\ stray' = [s \in Symbols |-> [c \in Chats |-> g(s, c)]]
    BY <1>1
  <2>2. \A s \in Symbols, c \in Chats : live'[s][c] = f(s, c) /\ stray'[s][c] = g(s, c)
    BY <2>1
  <2> HIDE DEF f, g
  <2>3. \A s \in Symbols, c \in Chats : f(s, c) \in Nat /\ g(s, c) \in Nat
    BY <1>3, <2>2
  <2> QED BY <2>1, <2>3 DEF Counts
<1> QED BY <1>2, <1>3, <1>4 DEF MessagesHeld

LEMMA TrackerStep ==
  ASSUME TrackerInv, [NoticesNext]_noticesVars
  PROVE  TrackerInv'
<1>t. /\ tickets \in Nat /\ records \subseteq Records
      /\ states \in [Symbols -> SignalStates] /\ live \in Counts /\ stray \in Counts
      /\ MessagesHeld
  BY DEF TrackerInv
<1>1. ASSUME NEW s \in Symbols, NEW d \in Directions, CycleExecutes(s, d)
      PROVE  TrackerInv'
  <2>1. tickets' \in Nat /\ FinishCycle(Record(s, d, TRUE, "open", tickets'))
    BY <1>1, <1>t DEF CycleExecutes, FinishCycle, Record
  <2>2. Record(s, d, TRUE, "open", tickets') \in Records
    BY <2>1 DEF Record, Records
  <2> QED BY <2>1, <2>2, FinishType
<1>2. ASSUME NEW s \in Symbols, NEW d \in Directions, NEW approved \in BOOLEAN,
             CycleStops(s, d, approved)
      PROVE  TrackerInv'
  <2>1. tickets' \in Nat /\ FinishCycle(Record(s, d, approved, "waiting", 0))
    BY <1>2, <1>t DEF CycleStops
  <2>2. Record(s, d, approved, "waiting", 0) \in Records
    BY DEF Record, Records
  <2> QED BY <2>1, <2>2, FinishType
<1>3. ASSUME NEW s \in Symbols, PositionCloses(s)
      PROVE  TrackerInv'
  BY <1>3, <1>t DEF PositionCloses, TrackerInv, MessagesHeld, Held, messageVars
<1>4. ASSUME NEW s \in Symbols, WatchPrices(s)
      PROVE  TrackerInv'
  <2>1. PICK reached \in SUBSET Levels :
          states' = [states EXCEPT ![s] = [states[s] EXCEPT !.hits = states[s].hits \cup reached]]
    BY <1>4 DEF WatchPrices, ObservePrice
  <2>2. [states[s] EXCEPT !.hits = states[s].hits \cup reached] \in SignalStates
    BY <1>t DEF SignalStates
  <2>3. states' \in [Symbols -> SignalStates] /\ \A t \in Symbols : states'[t].ids = states[t].ids
    BY <1>t, <2>1, <2>2 DEF SignalStates
  <2> QED BY <1>4, <1>t, <2>3 DEF WatchPrices, TrackerInv, MessagesHeld, Held, messageVars
<1>5. ASSUME NEW r \in records, NEW arrived \in SUBSET Chats, NEW answered \in SUBSET Chats,
             ObserveCycle(r, arrived, answered)
      PROVE  TrackerInv'
  <2>1. r \in Records /\ records' \subseteq Records /\ tickets' \in Nat
    BY <1>5, <1>t DEF ObserveCycle
  <2>2. CASE r.approved
    <3>1. answered \in SUBSET arrived /\ Report(r.symbol, r, arrived, answered)
      BY <1>5, <2>2 DEF ObserveCycle
    <3> QED BY <2>1, <3>1, ReportKeeps DEF TrackerInv
  <2>3. CASE ~r.approved
    BY <1>5, <1>t, <2>1, <2>3 DEF ObserveCycle, TrackerInv, MessagesHeld, Held
  <2> QED BY <2>2, <2>3
<1>6. ASSUME NEW ticket \in reviews, NEW finished \in SUBSET Chats, OnReview(ticket, finished)
      PROVE  TrackerInv'
  BY <1>6, <1>t, DroppedKeeps DEF OnReview, TrackerInv
<1>7. CASE DigestNext \/ PollerNext \/ UNCHANGED noticesVars
  <2>1. UNCHANGED trackerVars
    BY <1>7 DEF DigestNext, AddItem, FlushNow, TimerFires, OnTimer, OnOrphanTimer, PollerNext,
                UserSends, GetUpdates, HandleUpdate, noticesVars
  <2> QED BY <1>t, <2>1 DEF trackerVars, messageVars, TrackerInv, MessagesHeld, Held
<1>8. CASE RestartNotices
  BY <1>8, <1>t, DroppedKeeps DEF RestartNotices, TrackerInv
<1> QED BY <1>1, <1>2, <1>3, <1>4, <1>5, <1>6, <1>7, <1>8 DEF NoticesNext, TrackerNext

\* Of its unfinished messages for a symbol a chat has at most one that was not given up,
\* by a restart, a lost answer or a last edit that failed, whatever cycles overlap and
\* however often that happened (observe_cycle_result, on_review).
THEOREM OneMessagePerSignalHolds == NoticesSpec => []OneMessagePerSignal
<1>1. NoticesInit => TrackerInv
  <2> SUFFICES ASSUME NoticesInit PROVE TrackerInv
    OBVIOUS
  <2>1. /\ tickets = 0 /\ records = {} /\ states = [s \in Symbols |-> NoState]
        /\ live = [s \in Symbols |-> [c \in Chats |-> 0]]
        /\ stray = [s \in Symbols |-> [c \in Chats |-> 0]]
    BY DEF NoticesInit, TrackerInit
  <2> QED BY <2>1, NoStateType DEF TrackerInv, MessagesHeld, Held, Counts
<1>2. TrackerInv => OneMessagePerSignal
  BY DEF TrackerInv, MessagesHeld, Held, OneMessagePerSignal, Counts
<1> QED BY <1>1, <1>2, TrackerStep, PTL DEF NoticesSpec

-----------------------------------------------------------------------------
(* No command lost.  Asking from an offset makes Telegram forget what is   *)
(* below it, so the property needs to know what the offset and the batch   *)
(* stand for: everything before the next update to be handled is handled.  *)

\* The updates fetched are consecutive and start at the first one not handled.
BatchIsNext ==
  batch # <<>> =>
    /\ \A u \in Nat : 1 <= u /\ u < batch[1] => u \in handled
    /\ offset <= batch[1] /\ confirmed <= batch[1]
    /\ \A i \in 1..Len(batch) : batch[i] = batch[1] + (i - 1)
    /\ batch[1] + Len(batch) <= sentUpdates + 1

PollerInv ==
  /\ sentUpdates \in Nat /\ batch \in Seq(Nat)
  /\ confirmed \in Nat \ {0} /\ confirmed <= sentUpdates + 1
  /\ offset \in Nat /\ offset <= sentUpdates + 1
  /\ \A u \in Nat : 1 <= u /\ (u < confirmed \/ u < offset) => u \in handled
  /\ BatchIsNext

LEMMA PollerStep ==
  ASSUME PollerInv, [NoticesNext]_noticesVars
  PROVE  PollerInv'
<1>t. /\ sentUpdates \in Nat /\ batch \in Seq(Nat) /\ Len(batch) \in Nat
      /\ confirmed \in Nat \ {0} /\ confirmed <= sentUpdates + 1
      /\ offset \in Nat /\ offset <= sentUpdates + 1
      /\ \A u \in Nat : 1 <= u /\ (u < confirmed \/ u < offset) => u \in handled
  BY DEF PollerInv
<1>1. CASE UserSends
  <2>1. sentUpdates' = sentUpdates + 1 /\ UNCHANGED <<confirmed, offset, batch, handled>>
    BY <1>1 DEF UserSends
  <2>2. batch # <<>> => batch[1] + Len(batch) <= sentUpdates + 1 /\ batch[1] \in Nat
    BY <1>t DEF PollerInv, BatchIsNext
  <2>3. BatchIsNext'
    BY <1>t, <2>1, <2>2 DEF PollerInv, BatchIsNext
  <2> QED BY <1>t, <2>1, <2>3 DEF PollerInv
<1>2. CASE GetUpdates
  <2> DEFINE from == IF offset > confirmed THEN offset ELSE confirmed
             n == sentUpdates + 1 - from
  <2>1. /\ confirmed' = from /\ batch' = [i \in 1..n |-> from + i - 1]
        /\ UNCHANGED <<sentUpdates, offset, handled>>
    BY <1>2 DEF GetUpdates
  <2>2. from \in Nat \ {0} /\ offset <= from /\ from <= sentUpdates + 1 /\ n \in Nat
    BY <1>t
  <2>3. \A u \in Nat : 1 <= u /\ u < from => u \in handled
    BY <1>t
  <2> HIDE DEF from
  <2>4. batch' \in Seq(Nat) /\ Len(batch') = n
    BY <2>1, <2>2
  <2>5. BatchIsNext'
    <3> SUFFICES ASSUME batch' # <<>> PROVE BatchIsNext'
      BY DEF BatchIsNext
    <3>1. Len(batch') >= 1
      BY <2>4
    <3>2. \A i \in 1..n : batch'[i] = from + (i - 1)
      BY <2>1, <2>2
    <3>3. batch'[1] = from
      BY <2>2, <2>4, <3>1, <3>2
    <3>4. \A i \in 1..Len(batch') : batch'[i] = batch'[1] + (i - 1)
      BY <2>4, <3>2, <3>3
    <3> HIDE DEF n
    <3>5. batch'[1] + Len(batch') <= sentUpdates' + 1
      BY <1>t, <2>1, <2>2, <2>4, <3>3 DEF n
    <3>6. /\ \A u \in Nat : 1 <= u /\ u < batch'[1] => u \in handled'
          /\ offset' <= batch'[1] /\ confirmed' <= batch'[1]
      BY <2>1, <2>2, <2>3, <3>3
    <3> QED BY <3>4, <3>5, <3>6 DEF BatchIsNext
  <2> HIDE DEF n
  <2>6. \A u \in Nat : 1 <= u /\ (u < confirmed' \/ u < offset') => u \in handled'
    BY <1>t, <2>1, <2>2, <2>3
  <2> QED BY <1>t, <2>1, <2>2, <2>4, <2>5, <2>6 DEF PollerInv
<1>3. CASE HandleUpdate
  <2> DEFINE h == batch[1]
  <2>1. /\ batch # <<>> /\ offset' = (IF h >= offset THEN h + 1 ELSE offset)
        /\ handled' = handled \cup {h} /\ batch' = Tail(batch)
        /\ UNCHANGED <<confirmed, sentUpdates>>
    BY <1>3 DEF HandleUpdate, AdvanceOffset, HandleMessage
  <2>2. /\ \A u \in Nat : 1 <= u /\ u < h => u \in handled
        /\ offset <= h /\ confirmed <= h
        /\ \A i \in 1..Len(batch) : batch[i] = h + (i - 1)
        /\ h + Len(batch) <= sentUpdates + 1
    BY <2>1 DEF PollerInv, BatchIsNext
  <2>3. Len(batch) >= 1 /\ h \in Nat
    BY <1>t, <2>1
  <2>4. /\ Tail(batch) \in Seq(Nat) /\ Len(Tail(batch)) = Len(batch) - 1
        /\ \A i \in 1..(Len(batch) - 1) : Tail(batch)[i] = batch[i + 1]
    BY <1>t, <2>1
  <2> HIDE DEF h
  <2>5. offset' = h + 1
    BY <1>t, <2>1, <2>2, <2>3
  <2>6. \A u \in Nat : u < h + 1 => u < h \/ u = h
    BY <2>3
  <2>7. \A u \in Nat : 1 <= u /\ u < h + 1 => u \in handled'
    BY <2>1, <2>2, <2>6
  <2>8. confirmed' <= h + 1
    BY <1>t, <2>1, <2>2, <2>3
  <2>9. BatchIsNext'
    <3> SUFFICES ASSUME Tail(batch) # <<>> PROVE BatchIsNext'
      BY <2>1 DEF BatchIsNext
    <3>1. Len(batch) >= 2
      BY <1>t, <2>3, <2>4
    <3>2. Tail(batch)[1] = h + 1
      BY <1>t, <2>2, <2>3, <2>4, <3>1
    <3>3. \A i \in 1..Len(Tail(batch)) : Tail(batch)[i] = (h + 1) + (i - 1)
      BY <1>t, <2>2, <2>3, <2>4
    <3>4. (h + 1) + Len(Tail(batch)) <= sentUpdates + 1
      BY <1>t, <2>2, <2>3, <2>4
    <3> QED BY <2>1, <2>5, <2>7, <2>8, <3>2, <3>3, <3>4 DEF BatchIsNext
  <2>10. offset' \in Nat /\ offset' <= sentUpdates' + 1
    BY <1>t, <2>1, <2>2, <2>3, <2>5
  <2>11. \A u \in Nat : 1 <= u /\ (u < confirmed' \/ u < offset') => u \in handled'
    BY <1>t, <2>1, <2>5, <2>7
  <2> QED BY <1>t, <2>1, <2>4, <2>9, <2>10, <2>11 DEF PollerInv
<1>4. CASE RestartNotices
  <2>1. offset' = 0 /\ batch' = <<>> /\ UNCHANGED <<confirmed, sentUpdates, handled>>
    BY <1>4 DEF RestartNotices
  <2> QED BY <1>t, <2>1 DEF PollerInv, BatchIsNext
<1>5. CASE TrackerNext \/ DigestNext \/ UNCHANGED noticesVars
  <2>1. UNCHANGED pollerVars
    <3>1. CASE TrackerNext
      BY <3>1 DEF TrackerNext, CycleExecutes, CycleStops, FinishCycle, PositionCloses,
                  WatchPrices, ObserveCycle, OnReview, messageVars
    <3>2. CASE DigestNext \/ UNCHANGED noticesVars
      BY <3>2 DEF DigestNext, AddItem, FlushNow, TimerFires, OnTimer, OnOrphanTimer,
                  noticesVars
    <3> QED BY <1>5, <3>1, <3>2
  <2> QED BY <1>t, <2>1 DEF pollerVars, PollerInv, BatchIsNext
<1> QED BY <1>1, <1>2, <1>3, <1>4, <1>5 DEF NoticesNext, PollerNext

\* Telegram forgets a command only after the poller has tried to answer it, for any
\* number of commands and restarts (TelegramPoller.poll_once).
THEOREM NoCommandLostHolds == NoticesSpec => []NoCommandLost
<1>1. NoticesInit => PollerInv
  BY DEF NoticesInit, PollerInit, PollerInv, BatchIsNext
<1>2. PollerInv => NoCommandLost
  BY DEF PollerInv, NoCommandLost
<1> QED BY <1>1, <1>2, PollerStep, PTL DEF NoticesSpec


-----------------------------------------------------------------------------
(* The lot cap.  Serving comes after the settings and the safety gate, so  *)
(* the property needs the pipeline to exist from the gate on, and to agree *)
(* with the store from the moment it is built.                             *)

SettingsStores == [loaded : BOOLEAN, values : [Knobs -> Values], present : SUBSET Knobs]

RuntimeType ==
  [built : {TRUE}, providers : {"broker", "none"},
   pipeline : [cap : Values, fanout : BOOLEAN, lessons : {"memory", "file"}],
   orders : BOOLEAN, recovered : {"unwired", "compared", "blocked", "empty"}]

\* The steps start-up takes before the safety gate has asked for the pipeline.
BeforeGate == {"down", "learning", "stores", "agents", "settings", "safety"}

CapInv ==
  /\ store \in SettingsStores
  /\ DOMAIN disk \subseteq Knobs
  /\ lessonStore \in {"memory", "file"}
  /\ runtime = NoRuntime \/ runtime \in RuntimeType
  /\ step \notin BeforeGate => runtime \in RuntimeType
  /\ runtime \in RuntimeType => runtime.pipeline.cap = store.values["cap"]

LEMMA Follows ==
  \A i \in 1..13 : FollowedBy(StartupOrder[i]) = StartupOrder[i + 1]
<1>1. Len(StartupOrder) = 14
  BY DEF StartupOrder
<1>2. \A i, j \in 1..14 : StartupOrder[i] = StartupOrder[j] => i = j
  BY DEF StartupOrder
<1>3. ASSUME NEW i \in 1..13
      PROVE  IndexOf(StartupOrder, StartupOrder[i]) = i
  BY <1>1, <1>2 DEF IndexOf
<1> QED BY <1>3 DEF FollowedBy

LEMMA EarlySteps ==
  /\ FollowedBy("learning") = "stores" /\ FollowedBy("stores") = "agents"
  /\ FollowedBy("agents") = "settings" /\ FollowedBy("settings") = "safety"
<1>1. /\ StartupOrder[1] = "learning" /\ StartupOrder[2] = "stores"
      /\ StartupOrder[3] = "agents" /\ StartupOrder[4] = "settings"
      /\ StartupOrder[5] = "safety"
  BY DEF StartupOrder
<1>2. /\ FollowedBy(StartupOrder[1]) = StartupOrder[2]
      /\ FollowedBy(StartupOrder[2]) = StartupOrder[3]
      /\ FollowedBy(StartupOrder[3]) = StartupOrder[4]
      /\ FollowedBy(StartupOrder[4]) = StartupOrder[5]
  BY Follows
<1> QED BY <1>1, <1>2

\* NoRuntime is not one of the runtimes.
LEMMA NoRuntimeIsNone == NoRuntime \notin RuntimeType
<1>1. NoRuntime.built = FALSE
  BY Zenon DEF NoRuntime
<1>2. \A rt \in RuntimeType : rt.built \in {TRUE}
  BY DEF RuntimeType
<1> QED BY <1>1, <1>2, Zenon

LEMMA LoadType ==
  ASSUME NEW s \in SettingsStores, NEW readable \in BOOLEAN, DOMAIN disk \subseteq Knobs
  PROVE  Load(s, readable) \in SettingsStores
<1> DEFINE keys == IF readable THEN {k \in DOMAIN disk : Coerces(disk[k])} ELSE {}
<1>1. CASE s.loaded
  BY <1>1 DEF Load
<1>2. CASE ~s.loaded
  <2>1. [k \in Knobs |-> IF k \in keys THEN disk[k] ELSE s.values[k]] \in [Knobs -> Values]
    BY DEF SettingsStores, Coerces
  <2>2. keys \subseteq Knobs
    OBVIOUS
  <2> QED BY <1>2, <2>1, <2>2 DEF Load, SettingsStores
<1> QED BY <1>1, <1>2


LEMMA SeedType ==
  ASSUME NEW s \in SettingsStores, NEW env \in Values
  PROVE  Seed(s, env) \in SettingsStores
<1>1. CASE "toggle" \in s.present
  BY <1>1 DEF Seed
<1>2. CASE "toggle" \notin s.present
  <2>1. [s.values EXCEPT !["toggle"] = env] \in [Knobs -> Values]
    BY DEF SettingsStores
  <2>2. s.present \cup {"toggle"} \in SUBSET Knobs
    BY DEF SettingsStores, Knobs
  <2>3. Seed(s, env) = [s EXCEPT !.values = [s.values EXCEPT !["toggle"] = env],
                                 !.present = s.present \cup {"toggle"}]
    BY <1>2 DEF Seed
  <2> QED BY <2>1, <2>2, <2>3 DEF SettingsStores
<1> QED BY <1>1, <1>2

\* A pipeline is built with the store's cap.
LEMMA BuildCap ==
  ASSUME NEW s \in SettingsStores, lessonStore \in {"memory", "file"}
  PROVE  Build(s) \in RuntimeType /\ Build(s).pipeline.cap = s.values["cap"]
<1>1. s.values["cap"] \in Values
  BY DEF SettingsStores, Knobs
<1>2. BuildPipeline(s) \in [cap : Values, fanout : BOOLEAN, lessons : {"memory", "file"}]
  <2>1. FanoutWired(s) \in BOOLEAN
    BY Zenon DEF FanoutWired
  <2> QED BY <1>1, <2>1, Zenon DEF BuildPipeline, PipelineCap
<1>3. Build(s) \in RuntimeType
  <2>1. MonitorLedger \in BOOLEAN
    BY DEF MonitorLedger
  <2>2. Providers \in {"broker", "none"}
    BY DEF Providers
  <2> QED BY <1>2, <2>1, <2>2, Zenon DEF Build, RuntimeType
<1> QED BY <1>3, Zenon DEF Build, BuildPipeline, PipelineCap

\* What is pushed is what the store holds, and pushing changes nothing else.
LEMMA PushedCap ==
  ASSUME NEW rt \in RuntimeType, NEW values \in [Knobs -> Values], NEW keys
  PROVE  /\ Pushed(rt, values, keys) \in RuntimeType
         /\ Pushed(rt, values, keys).pipeline.cap
              = IF "cap" \in keys THEN values["cap"] ELSE rt.pipeline.cap
<1> DEFINE cap == IF "cap" \in keys THEN values["cap"] ELSE rt.pipeline.cap
           pipe == [rt.pipeline EXCEPT !.cap = cap]
<1>1. rt.pipeline \in [cap : Values, fanout : BOOLEAN, lessons : {"memory", "file"}]
  BY DEF RuntimeType
<1>2. cap \in Values
  BY <1>1 DEF Knobs
<1>3. Pushed(rt, values, keys) = [rt EXCEPT !.pipeline = pipe]
  BY Zenon DEF Pushed
<1> HIDE DEF cap
<1>4. pipe \in [cap : Values, fanout : BOOLEAN, lessons : {"memory", "file"}] /\ pipe.cap = cap
  BY <1>1, <1>2
<1> HIDE DEF pipe
<1>5. [rt EXCEPT !.pipeline = pipe] \in RuntimeType /\ [rt EXCEPT !.pipeline = pipe].pipeline = pipe
  BY <1>4 DEF RuntimeType
<1> QED BY <1>3, <1>4, <1>5 DEF cap

\* The one runtime of the process, built with the store or already there.
LEMMA RuntimeThere ==
  ASSUME CapInv, NEW s \in SettingsStores
  PROVE  /\ GetRuntime(s) \in RuntimeType
         /\ runtime.built => GetRuntime(s) = runtime
         /\ ~runtime.built => GetRuntime(s).pipeline.cap = s.values["cap"]
<1>1. CASE runtime = NoRuntime
  <2>1. runtime.built = FALSE
    BY <1>1, Zenon DEF NoRuntime
  <2>2. GetRuntime(s) = Build(s)
    BY <2>1, Zenon DEF GetRuntime
  <2>3. lessonStore \in {"memory", "file"}
    BY DEF CapInv
  <2> QED BY <2>1, <2>2, <2>3, BuildCap, Zenon
<1>2. CASE runtime \in RuntimeType
  <2>1. runtime.built \in {TRUE}
    BY <1>2, Zenon DEF RuntimeType
  <2> QED BY <1>2, <2>1, Zenon DEF GetRuntime
<1> QED BY <1>1, <1>2 DEF CapInv


\* A store value for the cap survives a PUT that does not name it.
LEMMA UpdatedStore ==
  ASSUME NEW s \in SettingsStores, NEW keys \in SUBSET PatchKnobs,
         NEW patch \in [keys -> 0..2], \A k \in keys : Coerces(patch[k])
  PROVE  /\ Updated(s, patch) \in SettingsStores
         /\ "cap" \notin keys => Updated(s, patch).values["cap"] = s.values["cap"]
<1> DEFINE values == [k \in Knobs |-> IF k \in DOMAIN patch THEN patch[k] ELSE s.values[k]]
           present == s.present \cup DOMAIN patch
<1>1. DOMAIN patch = keys /\ keys \subseteq Knobs
  BY DEF PatchKnobs
<1>2. values \in [Knobs -> Values]
  BY <1>1 DEF SettingsStores, Coerces
<1>3. present \in SUBSET Knobs
  BY <1>1 DEF SettingsStores
<1>4. "cap" \notin keys => values["cap"] = s.values["cap"]
  BY <1>1 DEF Knobs
<1>5. Updated(s, patch) = [s EXCEPT !.values = values, !.present = present]
  BY DEF Updated
<1> HIDE DEF values, present
<1> QED BY <1>2, <1>3, <1>4, <1>5 DEF SettingsStores

LEMMA CapStep ==
  ASSUME CapInv, [StartupNext]_startupVars
  PROVE  CapInv'
<1>t. /\ store \in SettingsStores /\ DOMAIN disk \subseteq Knobs
      /\ lessonStore \in {"memory", "file"}
      /\ runtime = NoRuntime \/ runtime \in RuntimeType
      /\ step \notin BeforeGate => runtime \in RuntimeType
      /\ runtime \in RuntimeType => runtime.pipeline.cap = store.values["cap"]
  BY DEF CapInv
<1>s. /\ NoRuntime \notin RuntimeType
      /\ \A s \in SettingsStores : DOMAIN s.values = Knobs
  BY NoRuntimeIsNone DEF SettingsStores
<1>1. CASE Start
  <2>1. step' \in BeforeGate
    BY <1>1 DEF Start, StartupOrder, BeforeGate
  <2>2. UNCHANGED <<store, disk, lessonStore, runtime>>
    BY <1>1 DEF Start
  <2> QED BY <1>t, <2>1, <2>2 DEF CapInv
<1>2. CASE WireLearning \/ WireStores \/ RegisterAgents \/ ApplySettingsFails
  <2>1. step' \in BeforeGate
    BY <1>2, EarlySteps
    DEF WireLearning, WireStores, RegisterAgents, ApplySettingsFails, Goto, BeforeGate
  <2>2. UNCHANGED <<store, disk, runtime>> /\ lessonStore' \in {"memory", "file"}
    BY <1>t, <1>2 DEF WireLearning, WireStores, RegisterAgents, ApplySettingsFails
  <2> QED BY <1>t, <2>1, <2>2 DEF CapInv
<1>3. CASE ApplySettings
  <2>1. PICK readable \in BOOLEAN, written \in BOOLEAN, env \in Values :
          LET loaded == Load(store, readable)
              seeded == Seed(loaded, env)
          IN  /\ IF "toggle" \in loaded.present THEN UNCHANGED disk ELSE Write(seeded, written)
              /\ store' = seeded
              /\ runtime' = Pushed(GetRuntime(seeded), seeded.values, Knobs)
    BY <1>3 DEF ApplySettings
  <2> DEFINE seeded == Seed(Load(store, readable), env)
  <2>2. seeded \in SettingsStores
    BY <1>t, LoadType, SeedType
  <2>3. GetRuntime(seeded) \in RuntimeType /\ seeded.values \in [Knobs -> Values]
    BY <2>2, RuntimeThere DEF SettingsStores
  <2>4. /\ runtime' \in RuntimeType
        /\ runtime'.pipeline.cap = store'.values["cap"]
    <3>1. "cap" \in Knobs
      BY DEF Knobs
    <3> HIDE DEF seeded
    <3>2. store' = seeded /\ runtime' = Pushed(GetRuntime(seeded), seeded.values, Knobs)
      BY <2>1 DEF seeded
    <3> QED BY <2>3, <3>1, <3>2, PushedCap
  <2>5. DOMAIN disk' \subseteq Knobs
    BY <1>t, <1>s, <2>1, <2>2 DEF Write
  <2>6. lessonStore' = lessonStore
    BY <1>3 DEF ApplySettings
  <2> QED BY <1>t, <2>1, <2>2, <2>4, <2>5, <2>6 DEF CapInv
<1>4. CASE SafetyGate
  <2>1. PICK readable \in BOOLEAN :
          /\ store' = IF runtime.built THEN store ELSE Load(store, readable)
          /\ runtime' = GetRuntime(store')
    BY <1>4 DEF SafetyGate
  <2>2. UNCHANGED <<disk, lessonStore>>
    BY <1>4 DEF SafetyGate
  <2>3. store' \in SettingsStores
    BY <1>t, <2>1, LoadType
  <2>4. PICK s \in SettingsStores : s = store'
    BY <2>3
  <2>5. runtime' = GetRuntime(s)
    BY <2>1, <2>4 DEF GetRuntime, Build, BuildPipeline, PipelineCap, FanoutWired
  <2>6. runtime' \in RuntimeType
    BY <2>5, RuntimeThere
  <2>7. runtime'.pipeline.cap = store'.values["cap"]
    <3>1. CASE runtime.built
      <4>1. runtime' = runtime /\ store' = store
        BY <2>1, <2>5, <3>1, RuntimeThere
      <4> QED BY <1>t, <2>6, <4>1
    <3>2. CASE ~runtime.built
      BY <2>4, <2>5, <3>2, RuntimeThere
    <3> QED BY <3>1, <3>2
  <2> QED BY <1>t, <2>2, <2>3, <2>6, <2>7 DEF CapInv
<1>5. CASE RestartRecovery
  <2>1. runtime \in RuntimeType
    BY <1>t, <1>5 DEF RestartRecovery, BeforeGate
  <2>2. PICK outcome \in {"unwired", "compared", "blocked", "empty"} :
          runtime' = [runtime EXCEPT !.recovered = outcome]
    BY <1>5 DEF RestartRecovery, RecoveryOutcomes
  <2>3. runtime' \in RuntimeType /\ runtime'.pipeline = runtime.pipeline
    BY <2>1, <2>2 DEF RuntimeType
  <2>4. UNCHANGED <<store, disk, lessonStore>>
    BY <1>5 DEF RestartRecovery
  <2> QED BY <1>t, <2>1, <2>3, <2>4 DEF CapInv
<1>6. CASE StartTask \/ Bind \/ SelectTerminal \/ Shutdown
  <2>1. step \notin BeforeGate
    BY <1>6 DEF StartTask, Bind, SelectTerminal, Shutdown, BeforeGate
  <2>2. UNCHANGED <<store, disk, runtime, lessonStore>>
    BY <1>6 DEF StartTask, Bind, SelectTerminal, Shutdown
  <2> QED BY <1>t, <2>1, <2>2 DEF CapInv
<1>7. CASE PutSettings
  <2>0. step = "serving" /\ UNCHANGED <<step, lessonStore>>
    BY <1>7 DEF PutSettings
  <2>r. runtime \in RuntimeType /\ runtime.pipeline.cap = store.values["cap"]
    BY <1>t, <2>0 DEF BeforeGate
  <2>1. PICK keys \in SUBSET PatchKnobs, written \in BOOLEAN : \E patch \in [keys -> 0..2] :
          IF keys = {} \/ \E k \in keys : ~Coerces(patch[k])
          THEN UNCHANGED <<disk, store, runtime>>
          ELSE /\ store' = Updated(store, patch)
               /\ Write(store', written)
               /\ runtime' = Pushed(runtime, store'.values, keys)
    BY <1>7 DEF PutSettings
  <2>2. PICK patch \in [keys -> 0..2] :
          IF keys = {} \/ \E k \in keys : ~Coerces(patch[k])
          THEN UNCHANGED <<disk, store, runtime>>
          ELSE /\ store' = Updated(store, patch)
               /\ Write(store', written)
               /\ runtime' = Pushed(runtime, store'.values, keys)
    BY <2>1
  <2>3. CASE keys = {} \/ \E k \in keys : ~Coerces(patch[k])
    BY <1>t, <2>0, <2>2, <2>3 DEF CapInv
  <2>4. CASE ~(keys = {} \/ \E k \in keys : ~Coerces(patch[k]))
    <3> DEFINE s == Updated(store, patch)
    <3>1. /\ s \in SettingsStores
          /\ "cap" \notin keys => s.values["cap"] = store.values["cap"]
      BY <1>t, <2>4, UpdatedStore
    <3>2. store' = s /\ disk' = (IF written THEN s.values ELSE disk)
      BY <2>2, <2>4 DEF Write
    <3>3. runtime' = Pushed(runtime, s.values, keys)
      BY <2>2, <2>4, <3>2 DEF Pushed
    <3> HIDE DEF s
    <3>4. s.values \in [Knobs -> Values]
      BY <3>1 DEF SettingsStores
    <3>5. /\ runtime' \in RuntimeType
          /\ runtime'.pipeline.cap = IF "cap" \in keys THEN s.values["cap"] ELSE runtime.pipeline.cap
      BY <2>r, <3>3, <3>4, PushedCap
    <3>6. runtime'.pipeline.cap = store'.values["cap"]
      BY <2>r, <3>1, <3>2, <3>5
    <3>7. DOMAIN disk' \subseteq Knobs
      BY <1>t, <3>2, <3>4
    <3> QED BY <1>t, <2>0, <3>1, <3>2, <3>5, <3>6, <3>7 DEF CapInv
  <2> QED BY <2>3, <2>4
<1>8. ASSUME ProcessEnds
      PROVE  CapInv'
  <2>1. FreshStore \in SettingsStores
    BY DEF FreshStore, SettingsStores, Default, Values, Knobs
  <2> QED BY <1>t, <1>8, <1>s, <2>1 DEF ProcessEnds, CapInv, BeforeGate
<1>9. CASE StopTask
  <2>1. CASE halting = Len(ShutdownOrder)
    BY <1>8, <1>9, <2>1 DEF StopTask
  <2>2. CASE halting # Len(ShutdownOrder)
    <3>1. UNCHANGED <<step, store, disk, lessonStore, runtime>>
      BY <1>9, <2>2 DEF StopTask
    <3> QED BY <1>t, <3>1 DEF CapInv
  <2> QED BY <2>1, <2>2
<1>10. CASE Crash
  BY <1>8, <1>10 DEF Crash
<1>11. CASE HandEdit
  <2>1. DOMAIN disk' \subseteq Knobs
    BY <1>t, <1>11 DEF HandEdit
  <2>2. UNCHANGED <<step, store, lessonStore, runtime>>
    BY <1>11 DEF HandEdit
  <2> QED BY <1>t, <2>1, <2>2 DEF CapInv
<1>12. CASE UNCHANGED startupVars
  BY <1>t, <1>12 DEF startupVars, CapInv
<1> QED
  BY <1>1, <1>2, <1>3, <1>4, <1>5, <1>6, <1>7, <1>9, <1>10, <1>11, <1>12
  DEF StartupNext, StartupSteps

\* While the service serves, orders are sized with the cap the settings store holds,
\* whatever failed at start-up and whichever PUT came last (main.lifespan).
THEOREM CapsAreOperatorsHolds == StartupSpec => []CapsAreOperators
<1>1. StartupInit => CapInv
  <2> SUFFICES ASSUME StartupInit PROVE CapInv
    OBVIOUS
  <2>1. FreshStore \in SettingsStores
    BY DEF FreshStore, SettingsStores, Default, Values, Knobs
  <2> QED BY <2>1, NoRuntimeIsNone DEF StartupInit, CapInv, BeforeGate
<1>2. CapInv => CapsAreOperators
  BY DEF CapInv, CapsAreOperators, BeforeGate
<1> QED BY <1>1, <1>2, CapStep, PTL DEF StartupSpec


-----------------------------------------------------------------------------
(* The news provider.  Nothing but a restart empties the caches, whatever  *)
(* callers fetch, save or press refresh meanwhile.                         *)

FeedInv == feedBoots \in Nat

Keeps ==
  /\ calendar # "none" /\ calendar' = "none" => feedBoots' > feedBoots
  /\ news /\ ~news' => feedBoots' > feedBoots

LEMMA SourceNames ==
  /\ Len(Sources) = 3
  /\ \A i \in 1..3 : Sources[i] # "none"
  BY DEF Sources

\* Whatever a source answers, no calendar is replaced by none.
LEMMA ParsedKeeps ==
  ASSUME NEW source \in 1..3, NEW empty \in BOOLEAN, calendar # "none"
  PROVE  Parsed(source, empty) # "none"
  BY SourceNames DEF Parsed

LEMMA FeedStepKeeps ==
  ASSUME FeedInv, [NewsFeedNext]_newsFeedVars
  PROVE  FeedInv' /\ Keeps
<1>1. ASSUME UNCHANGED <<feedBoots, calendar, news>>
      PROVE  FeedInv' /\ Keeps
  BY <1>1 DEF FeedInv, Keeps
<1>2. ASSUME NEW c \in Callers, NewsArrives(c)
      PROVE  FeedInv' /\ Keeps
  <2>1. UNCHANGED <<feedBoots, calendar>>
    BY <1>2 DEF NewsArrives, calendarVars
  <2>2. CASE news' = TRUE
    <3>1. news'
      BY <2>2
    <3> QED BY <2>1, <3>1, Zenon DEF FeedInv, Keeps
  <2>3. CASE news' = news
    BY <1>1, <2>1, <2>3
  <2> QED BY <1>2, <2>2, <2>3 DEF NewsArrives, newsVars
<1>3. ASSUME NEW c \in Callers, CalendarArrives(c)
      PROVE  FeedInv' /\ Keeps
  <2>1. UNCHANGED <<feedBoots, news>>
    BY <1>3 DEF CalendarArrives, newsVars
  <2>2. calendar # "none" => calendar' # "none"
    <3>1. PICK failed \in 0..Len(Sources) :
            IF failed = Len(Sources)
            THEN calendar' = calendar
            ELSE \E empty \in BOOLEAN : calendar' = Parsed(failed + 1, empty)
      BY <1>3 DEF CalendarArrives
    <3>2. CASE failed = Len(Sources)
      BY <3>1, <3>2
    <3>3. CASE failed # Len(Sources)
      <4>1. PICK empty \in BOOLEAN : calendar' = Parsed(failed + 1, empty)
        BY <3>1, <3>3
      <4>2. failed + 1 \in 1..3
        BY <3>3, SourceNames
      <4> QED BY <4>1, <4>2, ParsedKeeps
    <3> QED BY <3>2, <3>3
  <2> QED BY <2>1, <2>2, Zenon DEF FeedInv, Keeps
<1>4. CASE RestartFeed
  <2>1. feedBoots' = feedBoots + 1
    BY <1>4 DEF RestartFeed
  <2>2. feedBoots' \in Nat /\ feedBoots' > feedBoots
    BY <2>1 DEF FeedInv
  <2> QED BY <2>2, Zenon DEF FeedInv, Keeps
<1>5. ASSUME NEW c \in Callers,
             \/ \E operator \in BOOLEAN : AskNews(c, operator)
             \/ AskCalendar(c) \/ BuildPayload(c) \/ WritePayload(c)
      PROVE  FeedInv' /\ Keeps
  BY <1>1, <1>5 DEF AskNews, AskCalendar, BuildPayload, WritePayload, calendarVars, newsVars
<1>6. CASE TimePasses
  BY <1>1, <1>6 DEF TimePasses, calendarVars, newsVars
<1>7. CASE UNCHANGED newsFeedVars
  BY <1>1, <1>7 DEF newsFeedVars, calendarVars, newsVars
<1> QED BY <1>2, <1>3, <1>4, <1>5, <1>6, <1>7 DEF NewsFeedNext

\* While the service runs, no fetch, failure, save or operator's refresh takes the
\* calendar or the headlines from the caches again: for any number of callers, any
\* throttles and any interleaving of their steps.
THEOREM LastGoodServedHolds == NewsFeedSpec => LastGoodServed
<1>1. NewsFeedInit => FeedInv
  BY DEF NewsFeedInit, FeedInv
<1>2. FeedInv /\ [NewsFeedNext]_newsFeedVars => FeedInv'
  BY FeedStepKeeps
<1>3. FeedInv /\ [NewsFeedNext]_newsFeedVars
        => [/\ calendar # "none" /\ calendar' = "none" => feedBoots' > feedBoots
            /\ news /\ ~news' => feedBoots' > feedBoots]_newsFeedVars
  BY FeedStepKeeps DEF Keeps
<1> QED BY <1>1, <1>2, <1>3, PTL DEF NewsFeedSpec, LastGoodServed

=============================================================================
