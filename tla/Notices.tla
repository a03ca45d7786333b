------------------------------ MODULE Notices ------------------------------
(***************************************************************************)
(* What the operator is told over Telegram: the one message per signal     *)
(* that is edited in place (SignalLifecycleTracker), the digest that       *)
(* collects the other cycles (PipelineDigest) with its timer thread, and   *)
(* the poller that answers commands.  Deliveries may fail, cycles overlap, *)
(* the service may restart.  A tracker update and its delivery are one     *)
(* step; wording is left out.                                              *)
(***************************************************************************)
EXTENDS Naturals, Sequences, FiniteSets

CONSTANTS
  Symbols,
  PrimaryChats, SignalChats,  \* the two bots' allowlists; {}: no such bot
  Levels,           \* tp1, tp2, tpmax, sl
  MaxTickets,       \* bound: positions opened
  MaxRecords,       \* bound: finished cycles not reported yet
  MaxItems,         \* max_items of the digest
  MaxOrphans,       \* bound: timers the digest no longer refers to
  MaxUpdates,       \* bound: commands sent by users
  MaxNoticeBoots    \* bound: restarts of the service

ASSUME NoticesAssumption ==
  /\ MaxTickets \in Nat /\ MaxRecords \in Nat /\ MaxItems \in Nat \ {0}
  /\ MaxOrphans \in Nat /\ MaxUpdates \in Nat /\ MaxNoticeBoots \in Nat

Directions == {"BUY", "SELL"}

\* get_report_gateway: the signal bot when it can reach somebody, else the other.
Chats == IF SignalChats # {} THEN SignalChats ELSE PrimaryChats

VARIABLES
  positions,   \* broker: symbol -> open position
  tickets,     \* tickets given out
  records,     \* finished cycles whose hook has not run yet
  reviews,     \* closed tickets whose review has not reached the tracker
  states,      \* the tracker: symbol -> SignalState
  live,        \* symbol, chat -> messages that arrived and do not show the review yet
  stray,       \* symbol, chat -> those among them no state refers to any more
  noticeBoots, \* restarts
  items,       \* digest: cycles waiting
  windowed,    \* digest: TELEGRAM_DIGEST_WINDOW_S is above 0
  timer,       \* digest: the timer it refers to
  orphans,     \* timer callbacks under way that it no longer refers to
  confirmed,   \* Telegram: updates below this one are forgotten
  sentUpdates, \* updates sent by users, numbered from 1
  offset,      \* poller: next update to ask for, 0: none
  batch,       \* poller: updates fetched, to be handled
  handled      \* updates that got their attempt at a reply

messageVars == <<live, stray, noticeBoots>>
trackerVars == <<positions, tickets, records, reviews, states, messageVars>>
digestVars == <<items, windowed, timer, orphans>>
pollerVars == <<confirmed, sentUpdates, offset, batch, handled>>
noticesVars == <<trackerVars, digestVars, pollerVars>>

NoState == [dir |-> "none", status |-> "none", detail |-> 0, hits |-> {}, ids |-> {}]
NoPosition == [dir |-> "none", ticket |-> 0]
Active(s) == states[s] # NoState

-----------------------------------------------------------------------------
(* Cycles                                                                  *)

Record(s, d, approved, status, ticket) ==
  [symbol |-> s, dir |-> d, approved |-> approved, status |-> status, ticket |-> ticket]

FinishCycle(r) ==
  /\ Cardinality(records) < MaxRecords /\ records' = records \cup {r}
  /\ UNCHANGED <<reviews, states, messageVars, digestVars, pollerVars>>

\* A cycle whose order was filled: the single-entry policy saw no position.
CycleExecutes(s, d) ==
  /\ positions[s] = NoPosition /\ tickets < MaxTickets
  /\ tickets' = tickets + 1
  /\ positions' = [positions EXCEPT ![s] = [dir |-> d, ticket |-> tickets']]
  /\ FinishCycle(Record(s, d, TRUE, "open", tickets'))

\* A cycle that was stopped after the risk gate (guards, single entry, cooldown,
\* entry zone) or failed in execution, both shown as not entered, or that the
\* gate refused.
CycleStops(s, d, approved) ==
  /\ FinishCycle(Record(s, d, approved, "waiting", 0))
  /\ UNCHANGED <<positions, tickets>>

PositionCloses(s) ==
  /\ positions[s] # NoPosition
  /\ reviews' = reviews \cup {positions[s].ticket}
  /\ positions' = [positions EXCEPT ![s] = NoPosition]
  /\ UNCHANGED <<tickets, records, states, messageVars, digestVars, pollerVars>>

-----------------------------------------------------------------------------
(* The signal message                                                      *)

\* One more message in each of these chats of a symbol.
More(counts, s, chats) ==
  [counts EXCEPT ![s] = [c \in Chats |-> @[c] + IF c \in chats THEN 1 ELSE 0]]

\* send_tracked: the chats that answered have an id to edit later; a message may
\* have arrived where the answer was lost.
Send(s, r, arrived, answered) ==
  /\ states' = [states EXCEPT ![s] =
       [dir |-> r.dir, status |-> r.status, detail |-> r.ticket, hits |-> {},
        ids |-> answered]]
  /\ live' = More(live, s, arrived)
  /\ stray' = More(stray, s, arrived \ answered)

\* A signal in the other direction takes over the message of one not entered.
Replace(s, r) ==
  /\ states' = [states EXCEPT ![s] =
       [dir |-> r.dir, status |-> r.status, detail |-> r.ticket, hits |-> {},
        ids |-> @.ids]]
  /\ UNCHANGED <<live, stray>>

Update(s, r) ==
  /\ states' = [states EXCEPT ![s].status = r.status, ![s].detail = r.ticket]
  /\ UNCHANGED <<live, stray>>

\* Mutant: every approved cycle sends.
Report_Resends(s, r, arrived, answered) == Send(s, r, arrived, answered)

\* The choice observe_cycle_result makes for an approved BUY or SELL.
Report(s, r, arrived, answered) ==
  IF ~Active(s) THEN Send(s, r, arrived, answered)
  ELSE IF states[s].dir = r.dir THEN Update(s, r)
  ELSE IF states[s].status = "open" THEN UNCHANGED <<states, live, stray>>
  ELSE Replace(s, r)

\* observe_cycle_result, called by the pipeline's result hook.
ObserveCycle(r, arrived, answered) ==
  /\ r \in records /\ records' = records \ {r}
  /\ answered \subseteq arrived
  /\ IF r.approved THEN Report(r.symbol, r, arrived, answered)
     ELSE UNCHANGED <<states, live, stray>>
  /\ UNCHANGED <<positions, tickets, reviews, noticeBoots, digestVars, pollerVars>>

\* observe_price: the levels the price has reached are marked, each once, on the
\* same message.
ObservePrice(s, reached) ==
  /\ ~(reached \subseteq states[s].hits)
  /\ states' = [states EXCEPT ![s].hits = @ \cup reached]

\* _observe_signal_prices, at the end of a cycle: the latest price of a symbol
\* that has a message.
WatchPrices(s) ==
  /\ Active(s)
  /\ \E reached \in SUBSET Levels : ObservePrice(s, reached)
  /\ UNCHANGED <<positions, tickets, records, reviews, messageVars, digestVars, pollerVars>>

\* on_review: the state with that ticket, or the only state there is.
ReviewTargets(ticket) ==
  LET same == {s \in Symbols : Active(s) /\ states[s].detail = ticket}
      active == {s \in Symbols : Active(s)}
  IN IF same # {} THEN same ELSE IF Cardinality(active) = 1 THEN active ELSE {}

\* The states go, whether the last edit was delivered or not: a message it did not
\* reach stays as it was, with no state left to edit it.
Dropped(targets, finished) ==
  /\ states' = [s \in Symbols |-> IF s \in targets THEN NoState ELSE states[s]]
  /\ live' = [s \in Symbols |-> [c \in Chats |->
       live[s][c] - IF s \in targets /\ c \in states[s].ids \cap finished THEN 1 ELSE 0]]
  /\ stray' = [s \in Symbols |-> [c \in Chats |->
       stray[s][c] + IF s \in targets /\ c \in states[s].ids \ finished THEN 1 ELSE 0]]

OnReview(ticket, finished) ==
  /\ ticket \in reviews /\ reviews' = reviews \ {ticket}
  /\ Dropped(ReviewTargets(ticket), finished)
  /\ UNCHANGED <<positions, tickets, records, noticeBoots, digestVars, pollerVars>>

-----------------------------------------------------------------------------
(* The digest                                                              *)

\* Mutant: the timer that was cancelled is not forgotten.
Flushed_KeepsTimer ==
  /\ items' = 0 /\ UNCHANGED <<windowed, orphans>>
  /\ timer' = IF timer = "armed" THEN "cancelled" ELSE timer

\* _flush_locked: the batch is handed over, delivered or not; a timer that has
\* fired already cannot be cancelled and will still call back.
Flushed ==
  /\ items' = 0 /\ timer' = "none" /\ UNCHANGED windowed
  /\ orphans' = orphans + IF timer = "fired" THEN 1 ELSE 0

\* add: the batch is flushed when it is full, else its timer runs, if there is a
\* window (_arm_timer_locked).
Add ==
  IF items + 1 >= MaxItems THEN Flushed
  ELSE /\ items' = items + 1 /\ UNCHANGED <<windowed, orphans>>
       /\ timer' = IF timer = "none" /\ windowed THEN "armed" ELSE timer

\* queue_pipeline_result, for a cycle the tracker did not consume and that is
\* not urgent; an urgent one is sent at once.
AddItem ==
  /\ orphans < MaxOrphans
  /\ Add
  /\ UNCHANGED <<trackerVars, pollerVars>>

\* flush_pipeline_digest, after a manual cycle.
FlushNow ==
  /\ items > 0 /\ orphans < MaxOrphans
  /\ Flushed
  /\ UNCHANGED <<trackerVars, pollerVars>>

TimerFires ==
  /\ timer = "armed" /\ timer' = "fired"
  /\ UNCHANGED <<items, windowed, orphans, trackerVars, pollerVars>>

\* _on_timer forgets whichever timer is current, its own or a newer one.
OnTimer ==
  /\ timer = "fired"
  /\ items' = 0 /\ timer' = "none" /\ UNCHANGED <<windowed, orphans>>
  /\ UNCHANGED <<trackerVars, pollerVars>>

OnOrphanTimer ==
  /\ orphans > 0
  /\ items' = 0 /\ timer' = "none" /\ UNCHANGED windowed
  /\ orphans' = IF timer = "none" THEN orphans - 1 ELSE orphans
  /\ UNCHANGED <<trackerVars, pollerVars>>

-----------------------------------------------------------------------------
(* The poller                                                              *)

UserSends ==
  /\ sentUpdates < MaxUpdates /\ sentUpdates' = sentUpdates + 1
  /\ UNCHANGED <<confirmed, offset, batch, handled, trackerVars, digestVars>>

\* getUpdates: asking from an offset confirms everything below it.
GetUpdates ==
  LET from == IF offset > confirmed THEN offset ELSE confirmed IN
  /\ batch = <<>>
  /\ confirmed' = from
  /\ batch' = [i \in 1..(sentUpdates + 1 - from) |-> from + i - 1]
  /\ UNCHANGED <<sentUpdates, offset, handled, trackerVars, digestVars>>

\* Mutant: one too far.
AdvanceOffset_Skips(u) == IF u >= offset THEN u + 2 ELSE offset

AdvanceOffset(u) == IF u >= offset THEN u + 1 ELSE offset

\* handle_message: a command only reads; what it answers may not arrive, and is
\* not tried again.
HandleMessage(u) == handled' = handled \cup {u}

\* One update of the batch; an unauthorised chat is ignored.
HandleUpdate ==
  /\ batch # <<>>
  /\ offset' = AdvanceOffset(Head(batch))
  /\ HandleMessage(Head(batch))
  /\ batch' = Tail(batch)
  /\ UNCHANGED <<confirmed, sentUpdates, trackerVars, digestVars>>

-----------------------------------------------------------------------------
\* Tracker, digest and poller live in memory only; the messages in the chats stay.
\* The digest is built anew, from the settings of the new process.
RestartNotices ==
  /\ noticeBoots < MaxNoticeBoots /\ noticeBoots' = noticeBoots + 1
  /\ records' = {} /\ reviews' = {}
  /\ Dropped(Symbols, {})
  /\ items' = 0 /\ timer' = "none" /\ orphans' = 0 /\ windowed' \in BOOLEAN
  /\ offset' = 0 /\ batch' = <<>>
  /\ UNCHANGED <<positions, tickets, confirmed, sentUpdates, handled>>

TrackerInit ==
  /\ positions = [s \in Symbols |-> NoPosition] /\ tickets = 0
  /\ records = {} /\ reviews = {}
  /\ states = [s \in Symbols |-> NoState]
  /\ live = [s \in Symbols |-> [c \in Chats |-> 0]]
  /\ stray = [s \in Symbols |-> [c \in Chats |-> 0]]
  /\ noticeBoots = 0

DigestInit == items = 0 /\ windowed \in BOOLEAN /\ timer = "none" /\ orphans = 0

PollerInit ==
  /\ confirmed = 1 /\ sentUpdates = 0
  /\ offset = 0 /\ batch = <<>> /\ handled = {}

NoticesInit == TrackerInit /\ DigestInit /\ PollerInit

TrackerNext ==
  \/ \E s \in Symbols, d \in Directions :
       \/ CycleExecutes(s, d)
       \/ \E approved \in BOOLEAN : CycleStops(s, d, approved)
  \/ \E s \in Symbols : PositionCloses(s) \/ WatchPrices(s)
  \/ \E r \in records, arrived, answered \in SUBSET Chats : ObserveCycle(r, arrived, answered)
  \/ \E ticket \in reviews, finished \in SUBSET Chats : OnReview(ticket, finished)

DigestNext == AddItem \/ FlushNow \/ TimerFires \/ OnTimer \/ OnOrphanTimer

PollerNext == UserSends \/ GetUpdates \/ HandleUpdate

NoticesNext == TrackerNext \/ DigestNext \/ PollerNext \/ RestartNotices

NoticesSpec == NoticesInit /\ [][NoticesNext]_noticesVars

\* Timer threads run.
TimerFairness == WF_noticesVars(TimerFires) /\ WF_noticesVars(OnTimer)

-----------------------------------------------------------------------------
(* Properties                                                              *)

\* Of the messages of a symbol that do not show their review, a chat has at most one
\* the tracker still edits: whatever cycles overlap, repeat or turn round, they edit
\* the message that was sent (signal_lifecycle: "ONE edit-in-place Telegram message per
\* signal").  Each further one was given up by a restart, or by a delivery that failed.
OneMessagePerSignal ==
  \A s \in Symbols, c \in Chats : live[s][c] <= stray[s][c] + 1

\* Under a window, a report that was put into the digest is handed over in the end,
\* whichever timers were cancelled too late, forgotten or replaced, unless a restart
\* loses it (PipelineDigest: "keeps the reports for window_s seconds").
QueuedIsFlushed ==
  \A b \in 0..MaxNoticeBoots :
    items > 0 /\ windowed /\ noticeBoots = b ~> items = 0 \/ noticeBoots # b

\* Telegram forgets a command only after the poller has tried to answer it,
\* across failed replies, late commands and restarts (TelegramPoller.poll_once).
NoCommandLost == \A u \in 1..(confirmed - 1) : u \in handled

=============================================================================
