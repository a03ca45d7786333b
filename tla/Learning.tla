------------------------------ MODULE Learning ------------------------------
(***************************************************************************)
(* What the system learns from a closed trade: the automatic review        *)
(* (review/auto_trigger.py, trade_review.py, advanced_review.py) and the   *)
(* steps of main._on_review that spread it, in order, over the lesson      *)
(* store, the canonical store and research queue, the agents' memory, the  *)
(* news patterns, the evidence-graded engine (learning/engine_v2.py), the  *)
(* review store and the trade ledger.  Every step has a handler of its own *)
(* and every file write may fail, which keeps the record in memory only;   *)
(* a crash between two steps loses the rest of them; a restart reads the   *)
(* files back.                                                             *)
(*                                                                         *)
(* The close detector may report a ticket more than once: a position read  *)
(* that fails looks like every position closing (module PositionCare).     *)
(* Trades are long, entered at 2; logs nothing is read from but their      *)
(* length are counted.                                                     *)
(***************************************************************************)
EXTENDS Integers, Sequences, FiniteSets, FiniteSetsExt

CONSTANTS
  Trades,       \* trade ids, one symbol
  MaxNotices,   \* bound: close notices in all
  MaxReboots,   \* bound: crashes
  MaxFailures,  \* bound: file operations that fail
  MemorySize,   \* the agents' memory keeps this many outcomes
  PatternMin, EvidenceMin, ValidatedMin   \* lessons for each evidence level

ASSUME LearningAssumption ==
  /\ MaxNotices \in Nat /\ MaxReboots \in Nat /\ MaxFailures \in Nat
  /\ MemorySize \in Nat \ {0}
  /\ IsFiniteSet(Trades) /\ {PatternMin, EvidenceMin, ValidatedMin} \subseteq Nat
  /\ 1 < PatternMin /\ PatternMin <= EvidenceMin /\ EvidenceMin <= ValidatedMin

VARIABLES
  noticed,    \* trade -> close notices so far
  review,     \* the review being spread, or NoReview
  stage,      \* its next step
  lessons, lessonFile,     \* lesson store: lines in memory and on disk
  canonical,  \* canonical store's file: trade -> records, first one first
  jobs,       \* research queue's file: jobs pending
  memory,     \* agents' memory: outcomes kept
  patterns, patternFile,   \* news patterns in memory and on disk
  engineLog, engineFile,   \* engine v2: (trade, category) -> lessons
  reviewIds, reviewFile,   \* review store: the keys it holds, the keys on disk
  ledger,     \* trade -> what the trade ledger says of its close
  spoilt,     \* trades a write to the review file failed for
  failures, reboots

learningVars == <<noticed, review, stage, lessons, lessonFile, canonical, jobs, memory,
                  patterns, patternFile, engineLog, engineFile, reviewIds, reviewFile,
                  ledger, spoilt, failures, reboots>>

NoReview == [trade |-> "none"]
NoClose == [outcome |-> "open", r |-> {}]

BoughtAt == 2
Categories == {"ENTRY_TIMING", "EXECUTION_QUALITY", "OTHER"}

Total(counts) == MapThenSumSet(LAMBDA x : counts[x], DOMAIN counts)

-----------------------------------------------------------------------------
\* Reviewing a closed trade

\* A close notice: the exit price (2 leaves nothing), whether the entry context
\* survived (it brings the stop, at 1, and the agents' outputs), high-impact
\* news among it, poor execution, and whether the closing deal gave its time.
CloseNotices ==
  {n \in [trade : Trades, exit : 1 .. 3, context : BOOLEAN, news : BOOLEAN,
          slipped : BOOLEAN, dealTime : BOOLEAN] : n.news => n.context}

Stop(n) == IF n.context THEN 1 ELSE 0
Profit(n) == n.exit - BoughtAt

\* analyze_win_loss: no profit is a loss.
Outcome(n) == IF Profit(n) > 0 THEN "WIN" ELSE "LOSS"

\* score_decision_quality reads confidence and signal off the dictionary of all
\* agents and finds neither.
DecisionScore(n) == 30

\* score_timing has no levels to compare with.
TimingScore(n) == 50

\* score_execution_quality, on either side of 60.
ExecutionScore(n) == IF n.slipped THEN 50 ELSE 100

\* classify_root_cause; the regime at exit is never known.
RootCause(n) ==
  CASE Outcome(n) = "WIN" -> IF DecisionScore(n) >= 70 THEN "analytical_error" ELSE "normal_loss"
    [] n.news -> "news_impact"
    [] ExecutionScore(n) < 60 -> "execution_slippage"
    [] TimingScore(n) < 40 -> "timing_error"
    [] DecisionScore(n) < 40 -> "analytical_error"
    [] OTHER -> "normal_loss"

\* compute_r_multiple: none without a stop.
RMultiple(n) == IF Stop(n) = 0 THEN {} ELSE {Profit(n) \div (BoughtAt - Stop(n))}

\* ReviewBuilder.realized_r: zero without a stop.
RealizedR(n) == IF Stop(n) = 0 THEN 0 ELSE Profit(n) \div (BoughtAt - Stop(n))

\* decision_outcome_class; the live record has no decision_quality, so it is 0.5.
OutcomeClass(n) ==
  IF Profit(n) = 0 THEN "BREAKEVEN"
  ELSE IF Profit(n) > 0 THEN "GOOD_DECISION_WIN" ELSE "GOOD_DECISION_LOSS"

\* _parse_closed_at: the deal's time (0), or the moment of the review.
ClosedAt(n) == IF n.dealTime THEN 0 ELSE 1 + noticed[n.trade]

\* _category_for
Category(cause) ==
  CASE cause = "timing_error" -> "ENTRY_TIMING"
    [] cause = "execution_slippage" -> "EXECUTION_QUALITY"
    [] OTHER -> "OTHER"

\* build_trade_review: what the canonical store is to keep of the trade.
BuiltReview(n) == <<OutcomeClass(n), RealizedR(n)>>

\* The record on_position_closed hands to _on_review.
ReviewRecord(n) ==
  [trade |-> n.trade, outcome |-> Outcome(n), category |-> Category(RootCause(n)),
   r |-> RMultiple(n), class |-> BuiltReview(n),
   key |-> <<n.trade, ClosedAt(n)>>, context |-> n.context, news |-> n.news]

OnPositionClosed ==
  /\ review = NoReview
  /\ Total(noticed) < MaxNotices
  /\ \E n \in CloseNotices :
       /\ noticed' = [noticed EXCEPT ![n.trade] = @ + 1]
       /\ review' = ReviewRecord(n)
  /\ stage' = "lesson"
  /\ UNCHANGED <<lessons, lessonFile, canonical, jobs, memory, patterns, patternFile,
                 engineLog, engineFile, reviewIds, reviewFile, ledger, spoilt, failures, reboots>>

-----------------------------------------------------------------------------
\* The steps of _on_review

At(s) == review # NoReview /\ stage = s

Then(s) == stage' = s /\ UNCHANGED <<noticed, review, reboots>>

\* A file operation works, or is one of the failures.
FileOk(ok) ==
  /\ ok \/ failures < MaxFailures
  /\ failures' = IF ok THEN failures ELSE failures + 1

\* record_review_lesson
RecordLesson ==
  /\ At("lesson")
  /\ \E ok \in BOOLEAN :
       /\ FileOk(ok)
       /\ lessons' = lessons + 1
       /\ lessonFile' = IF ok THEN lessonFile + 1 ELSE lessonFile
  /\ Then("bridge")
  /\ UNCHANGED <<canonical, jobs, memory, patterns, patternFile, engineLog, engineFile,
                 reviewIds, reviewFile, ledger, spoilt>>

\* CanonicalStore.write on a store read back from its file: the first record of
\* a trade is the one it keeps; an unreadable file holds none.
CanonicalWritten(readable, written) ==
  IF (readable /\ canonical[review.trade] # <<>>) \/ ~written THEN canonical
  ELSE [canonical EXCEPT ![review.trade] = Append(@, review.class)]

\* ResearchQueue.submit
Submitted(ok) == IF ok THEN jobs + 1 ELSE jobs

\* bridge_review_record: the research job is submitted every time.
Bridge ==
  /\ At("bridge")
  /\ \E broken \in {"nothing", "read", "write", "queue"} :
       /\ FileOk(broken = "nothing")
       /\ canonical' = CanonicalWritten(broken # "read", broken # "write")
       /\ jobs' = Submitted(broken # "queue")
  /\ Then("memory")
  /\ UNCHANGED <<lessons, lessonFile, memory, patterns, patternFile, engineLog, engineFile,
                 reviewIds, reviewFile, ledger, spoilt>>

\* AgentPatternMemory.record_outcome: the oldest outcome makes room.
Remembered(n) == IF n < MemorySize THEN n + 1 ELSE n

\* Learning loop 1, for the agents of the entry context.
RecordAgents ==
  /\ At("memory")
  /\ memory' = IF review.context THEN Remembered(memory) ELSE memory
  /\ Then("news")
  /\ UNCHANGED <<lessons, lessonFile, canonical, jobs, patterns, patternFile, engineLog,
                 engineFile, reviewIds, reviewFile, ledger, spoilt, failures>>

\* NewsPatternMemory.record_outcome
RecordOutcome ==
  \E ok \in BOOLEAN :
    /\ FileOk(ok)
    /\ patterns' = patterns + 1
    /\ patternFile' = IF ok THEN patternFile + 1 ELSE patternFile

\* Learning loop 2: the news that framed the trade.
RecordNews ==
  /\ At("news")
  /\ IF review.news THEN RecordOutcome ELSE UNCHANGED <<patterns, patternFile, failures>>
  /\ Then("engine")
  /\ UNCHANGED <<lessons, lessonFile, canonical, jobs, memory, engineLog, engineFile,
                 reviewIds, reviewFile, ledger, spoilt>>

\* LearningEngineV2.record_lesson: always an observation, never a duplicate.
Observed(log) == [log EXCEPT ![<<review.trade, review.category>>] = @ + 1]

\* record_review_lesson_v2
RecordEngineLesson ==
  /\ At("engine")
  /\ \E ok \in BOOLEAN :
       /\ FileOk(ok)
       /\ engineLog' = Observed(engineLog)
       /\ engineFile' = IF ok THEN Observed(engineFile) ELSE engineFile
  /\ Then("review")
  /\ UNCHANGED <<lessons, lessonFile, canonical, jobs, memory, patterns, patternFile,
                 reviewIds, reviewFile, ledger, spoilt>>

\* Mutant: the ledger is completed before the review is stored.
PersistReview_LedgerFirst ==
  /\ At("review")
  /\ ledger' = [ledger EXCEPT ![review.trade] = [outcome |-> review.outcome, r |-> review.r]]
  /\ Then("ledger")
  /\ UNCHANGED <<lessons, lessonFile, canonical, jobs, memory, patterns, patternFile,
                 engineLog, engineFile, reviewIds, reviewFile, spoilt, failures>>

\* ReviewStore.add_review: a review of the same trade and close time is a
\* duplicate.
AddReview ==
  IF review.key \in reviewIds THEN UNCHANGED <<reviewIds, reviewFile, spoilt, failures>>
  ELSE \E ok \in BOOLEAN :
         /\ FileOk(ok)
         /\ reviewIds' = reviewIds \union {review.key}
         /\ reviewFile' = IF ok THEN reviewFile \union {review.key} ELSE reviewFile
         /\ spoilt' = IF ok THEN spoilt ELSE spoilt \union {review.trade}

\* _persist_review_and_ledger, first half
PersistReview ==
  /\ At("review")
  /\ AddReview
  /\ Then("ledger")
  /\ UNCHANGED <<lessons, lessonFile, canonical, jobs, memory, patterns, patternFile,
                 engineLog, engineFile, ledger>>

\* TradeLedger.update_trade, and what its file holds of it.
UpdateTrade ==
  \E ok \in BOOLEAN :
    /\ FileOk(ok)
    /\ ledger' = IF ~ok THEN ledger
                 ELSE [ledger EXCEPT ![review.trade] =
                         [outcome |-> review.outcome, r |-> review.r]]

\* Second half: the trade's line says closed and reviewed.
CompleteLedger ==
  /\ At("ledger")
  /\ UpdateTrade
  /\ review' = NoReview /\ stage' = "idle"
  /\ UNCHANGED <<noticed, reboots, lessons, lessonFile, canonical, jobs, memory, patterns,
                 patternFile, engineLog, engineFile, reviewIds, reviewFile, spoilt>>

\* The stores read their files back; an unreadable file is an empty store.
LessonsLoaded(ok) == IF ok THEN lessonFile ELSE 0

PatternsLoaded(ok) == IF ok THEN patternFile ELSE 0

ReviewsLoaded(ok) == IF ok THEN reviewFile ELSE {}

\* Mutant: a lesson read back is recorded like a new one, on top of itself.
EngineLoaded_Twice(ok) == [g \in DOMAIN engineFile |-> IF ok THEN 2 * engineFile[g] ELSE 0]

EngineLoaded(ok) == [g \in DOMAIN engineFile |-> IF ok THEN engineFile[g] ELSE 0]

\* A crash and the next start: memory is lost and the files are read back.
Reboot ==
  /\ reboots < MaxReboots
  /\ reboots' = reboots + 1
  /\ review' = NoReview /\ stage' = "idle"
  /\ memory' = 0
  /\ \E broken \in {"nothing", "lessons", "patterns", "engine", "reviews"} :
       /\ FileOk(broken = "nothing")
       /\ lessons' = LessonsLoaded(broken # "lessons")
       /\ patterns' = PatternsLoaded(broken # "patterns")
       /\ engineLog' = EngineLoaded(broken # "engine")
       /\ reviewIds' = ReviewsLoaded(broken # "reviews")
  /\ UNCHANGED <<noticed, lessonFile, canonical, jobs, patternFile, engineFile, reviewFile,
                 ledger, spoilt>>

-----------------------------------------------------------------------------
\* LearningEngineV2: patterns and their evidence

\* aggregate_patterns: the lessons of a (category, symbol) group.
Occurrences(category) == Total([t \in Trades |-> engineLog[<<t, category>>]])

\* _classify_evidence
EvidenceLevel(category) ==
  LET n == Occurrences(category)
  IN  CASE n >= ValidatedMin -> "VALIDATED_FINDING"
        [] n >= EvidenceMin -> "EVIDENCE"
        [] n >= PatternMin -> "HYPOTHESIS"
        [] OTHER -> "OBSERVATION"

\* can_promote_to_candidate
CanPromoteToCandidate(category) == EvidenceLevel(category) = "VALIDATED_FINDING"

-----------------------------------------------------------------------------
LearningInit ==
  /\ noticed = [t \in Trades |-> 0]
  /\ review = NoReview /\ stage = "idle"
  /\ lessons = 0 /\ lessonFile = 0 /\ jobs = 0 /\ memory = 0
  /\ canonical = [t \in Trades |-> <<>>]
  /\ patterns = 0 /\ patternFile = 0
  /\ engineLog = [g \in Trades \X Categories |-> 0]
  /\ engineFile = [g \in Trades \X Categories |-> 0]
  /\ reviewIds = {} /\ reviewFile = {}
  /\ ledger = [t \in Trades |-> NoClose]
  /\ spoilt = {} /\ failures = 0 /\ reboots = 0

LearningNext ==
  \/ OnPositionClosed \/ RecordLesson \/ Bridge \/ RecordAgents \/ RecordNews
  \/ RecordEngineLesson \/ PersistReview \/ CompleteLedger \/ Reboot

LearningSpec == LearningInit /\ [][LearningNext]_learningVars

-----------------------------------------------------------------------------
(* Properties *)

\* A category validated for promotion rests on as many close notices, and no
\* trade weighs more than its notices, whatever crashes, failed writes and
\* restarts that read the lessons back (main's rehydration, engine_v2).
EvidenceIsEarned ==
  /\ \A t \in Trades : Total([c \in Categories |-> engineLog[<<t, c>>]]) <= noticed[t]
  /\ \A c \in Categories : CanPromoteToCandidate(c) => Total(noticed) >= ValidatedMin

\* A trade the ledger shows closed has its review on disk, a crash at any point
\* included, unless writing that review failed (_persist_review_and_ledger).
ClosedIsReviewed ==
  \A t \in Trades :
    ledger[t] # NoClose /\ t \notin spoilt => \E k \in reviewFile : k[1] = t
=============================================================================
