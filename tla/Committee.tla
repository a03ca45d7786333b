----------------------------- MODULE Committee -----------------------------
(***************************************************************************)
(* One analysis cycle of the agent committee, from the event to the verdict *)
(* the risk gate is given: the supervisor calls the market lead on a thread *)
(* with a deadline (agents/supervisor.py), the lead hears its specialists   *)
(* in order and weighs their evidence (market/intelligence.py), the         *)
(* synthesizer turns the lead's answer into a proposal (synthesis.py), the  *)
(* canonical chain assesses the same answers (orchestration/decision_chain) *)
(* and the pipeline extracts, filters and vetoes the proposal.              *)
(*                                                                          *)
(* The prefixes of the three leads are disjoint, so a market event has one  *)
(* lead, and the token budget, reset at the start of a cycle, admits it.    *)
(***************************************************************************)
EXTENDS Analysts, Sequences, TLC

CONSTANTS Markets,        \* the snapshots a cycle may see
          Families,       \* the event families that trigger one
          Histories,      \* what memory, lessons and the higher timeframe may say
          MaxCycles,      \* cycles explored
          MinConfidence   \* settings.min_signal_confidence, in thousandths

ASSUME MarketsAssumption == \A m \in Markets : MarketOK(m) /\ IsFiniteSet(m.releases)
ASSUME FamiliesAssumption == Families \subseteq DOMAIN RelevantSpecialists
ASSUME HistoriesAssumption ==
  \A h \in Histories : /\ h.skill \in [total : Nat, correct : Nat]
                       /\ h.lessons \in Nat
                       /\ h.bias \in {"NONE", "BULLISH", "BEARISH"}
ASSUME ConfidenceAssumption == MinConfidence \in 0..1000

VARIABLES
  phase,      \* where the cycle is
  cycles,     \* cycles started
  family,     \* the event's family
  market,     \* the merged snapshot
  history,    \* [skill, lessons, bias]: memory, lessons and higher-timeframe bias
  heard,      \* answers of the lead's thread, in order; "ERROR" for one that raised
  stuck,      \* the specialist being heard never returns
  abandoned,  \* deadline-expired threads still inside a specialist
  lead,       \* the lead's answer, [signal, conf, conflict]
  synthesis,  \* the synthesizer's proposal, [direction, conf]
  proposal,   \* what the supervisor passes on, or none
  verdict     \* the pipeline's decision

vars == <<phase, cycles, family, market, history, heard, stuck, abandoned,
          lead, synthesis, proposal, verdict>>

Nothing == "none"
NoProposal == [direction |-> "NONE", conf |-> 0]
Failed == Answer("ERROR", 0)
Absent == [signal |-> "NEUTRAL", conf |-> 0, conflict |-> FALSE]
Trades == {"BUY", "SELL"}

Called == RelevantSpecialists[family]

(***************************************************************************)
(* What the analyst called name says of the snapshot.                       *)
(***************************************************************************)
Says(name) ==
  CASE name = "technical_analyst" -> TechnicalAnalyst(market, history.skill)
    [] name = "momentum_analyst" -> MomentumAnalyst(market, history.skill)
    [] name = "structure_analyst" -> StructureAnalyst(market, history.lessons)
    [] name = "volatility_analyst" -> VolatilityAnalyst(market)
    [] name = "news_sentiment" -> NewsSentiment(market)
    [] name = "fundamental_analyst" -> FundamentalAnalyst(market)

-----------------------------------------------------------------------------
(***************************************************************************)
(* The lead's evidence synthesis over a sequence of answers.  An answer     *)
(* that is an error, or not directional, or of no confidence, has no vote.  *)
(***************************************************************************)
Weight(i, answers) ==
  AdaptiveWeights(DetectRegime(market, family = "TREND"))[Called[i]] * answers[i].conf

Voters(direction, answers) ==
  {i \in DOMAIN answers : answers[i].signal = direction /\ Weight(i, answers) > 0}

Vote(i, direction, answers) ==
  IF i \in Voters(direction, answers) THEN Weight(i, answers) ELSE 0

\* No lead hears more than four specialists.
Votes(direction, answers) ==
  Vote(1, direction, answers) + Vote(2, direction, answers)
  + Vote(3, direction, answers) + Vote(4, direction, answers)

(***************************************************************************)
(* Dominance: at least six tenths of the directional weight.  The share is  *)
(* also the lead's confidence.                                              *)
(***************************************************************************)
Share(direction, answers) ==
  (1000 * Votes(direction, answers))
    \div (Votes("BULLISH", answers) + Votes("BEARISH", answers))

Dominant_Larger(direction, answers) ==
  /\ Votes(direction, answers) > 0
  /\ Share(direction, answers) > 500

Dominant(direction, answers) ==
  /\ Votes(direction, answers) > 0
  /\ Share(direction, answers) >= 600

LeadAnswer(answers) ==
  LET split == \A d \in {"BULLISH", "BEARISH"} : Votes(d, answers) > 0
      winners == {d \in {"BULLISH", "BEARISH"} : Dominant(d, answers)}
  IN IF winners = {} THEN [signal |-> "NEUTRAL", conf |-> 0, conflict |-> split]
     ELSE LET d == CHOOSE w \in winners : TRUE
          IN [signal |-> d, conf |-> Share(d, answers), conflict |-> split]

(***************************************************************************)
(* The synthesizer sees one lead, so a directional answer is the whole      *)
(* directional weight and the proposal's confidence is 1, whatever the      *)
(* lead's was.  A conflict held with 0.75 or more is severe: HOLD.          *)
(***************************************************************************)
SevereConflict(l) == l.conflict /\ l.conf >= 750 /\ l.signal \in {"BULLISH", "BEARISH"}

\* _evidence_weight: an answer without a quality counts half, and one that flags
\* a conflict half of that.
EvidenceWeight(l) == l.conf \div (IF l.conflict THEN 4 ELSE 2)

\* The weight of a direction over the one answer there is.
Evidence(direction, l) == IF l.signal = direction THEN EvidenceWeight(l) ELSE 0

GenerateProposal(l) ==
  LET bull == Evidence("BULLISH", l)
      bear == Evidence("BEARISH", l)
  IN CASE bull > bear /\ ~SevereConflict(l) ->
            [direction |-> "BUY", conf |-> (1000 * bull) \div (bull + bear)]
       [] bear > bull /\ ~SevereConflict(l) ->
            [direction |-> "SELL", conf |-> (1000 * bear) \div (bull + bear)]
       [] OTHER -> [direction |-> "HOLD", conf |-> l.conf]

(***************************************************************************)
(* The canonical chain files an answer under the agent's own name, and the  *)
(* lead's under its department; only four domains can conflict.             *)
(***************************************************************************)
DirectionalDomains == {"structure", "regime", "liquidity", "momentum"}

DomainSignals(answers) ==
  [d \in {Called[i] : i \in DOMAIN answers} |->
     answers[CHOOSE i \in DOMAIN answers : Called[i] = d].signal]
  @@ ("market" :> lead.signal)

(***************************************************************************)
(* The debate over a conflict is held only for a candidate the supervisor   *)
(* passed on.  The candidate the chain builds names no invalidation level   *)
(* and no evidence, and a challenger refutes any such candidate, so the     *)
(* debate never clears a conflict.                                          *)
(***************************************************************************)
Candidate == [invalidation |-> {}, evidence |-> {}]

ChallengePassed(c) == c.invalidation # {} /\ c.evidence # {}

CanonicalBlock(answers) ==
  LET sig == DomainSignals(answers)
      of(d) == {x \in DOMAIN sig \cap DirectionalDomains : sig[x] = d}
  IN /\ of("BULLISH") # {} /\ of("BEARISH") # {}
     /\ proposal # NoProposal => ~ChallengePassed(Candidate)

(***************************************************************************)
(* The pipeline takes the supervisor's proposal, else the synthesis's.      *)
(***************************************************************************)
Extracted == IF proposal # NoProposal THEN proposal ELSE synthesis

Actionable(p) == p.direction \in Trades /\ p.conf >= MinConfidence

FightsBias(direction) ==
  \/ direction = "BUY" /\ history.bias = "BEARISH"
  \/ direction = "SELL" /\ history.bias = "BULLISH"

-----------------------------------------------------------------------------
(***************************************************************************)
(* Everything but the threads left behind is local to a cycle.              *)
(***************************************************************************)
Init ==
  /\ phase = "idle" /\ cycles = 0
  /\ family = Nothing /\ market = Nothing /\ history = Nothing
  /\ heard = <<>> /\ stuck = FALSE /\ abandoned = 0
  /\ lead = Absent /\ synthesis = NoProposal /\ proposal = NoProposal /\ verdict = Nothing

(***************************************************************************)
(* An event admitted by the gates opens a cycle on the merged snapshot.     *)
(***************************************************************************)
Begin(f, m, h) ==
  /\ phase = "idle" /\ cycles < MaxCycles
  /\ phase' = "lead" /\ cycles' = cycles + 1
  /\ family' = f /\ market' = m /\ history' = h
  /\ UNCHANGED <<heard, stuck, abandoned, lead, synthesis, proposal, verdict>>

Hearing == phase = "lead" /\ ~stuck /\ Len(heard) < Len(Called)

Hear ==
  /\ Hearing
  /\ heard' = Append(heard, Says(Called[Len(heard) + 1]))
  /\ UNCHANGED <<phase, cycles, family, market, history, stuck, abandoned,
                 lead, synthesis, proposal, verdict>>

SpecialistFails ==
  /\ Hearing
  /\ heard' = Append(heard, Failed)
  /\ UNCHANGED <<phase, cycles, family, market, history, stuck, abandoned,
                 lead, synthesis, proposal, verdict>>

SpecialistHangs ==
  /\ Hearing
  /\ stuck' = TRUE
  /\ UNCHANGED <<phase, cycles, family, market, history, heard, abandoned,
                 lead, synthesis, proposal, verdict>>

LeadReturns ==
  /\ phase = "lead" /\ Len(heard) = Len(Called)
  /\ phase' = "synthesis" /\ lead' = LeadAnswer(heard)
  /\ UNCHANGED <<cycles, family, market, history, heard, stuck, abandoned,
                 synthesis, proposal, verdict>>

Deadline_WaitsForWorker ==
  /\ phase = "lead" /\ ~stuck
  /\ phase' = "synthesis" /\ lead' = Absent
  /\ heard' = <<>> /\ abandoned' = abandoned + 1
  /\ UNCHANGED <<cycles, family, market, history, stuck, synthesis, proposal, verdict>>

(***************************************************************************)
(* The lead's deadline expires: its result is the neutral one, and its      *)
(* thread is left behind with whatever it had heard.                        *)
(***************************************************************************)
Deadline ==
  /\ phase = "lead"
  /\ phase' = "synthesis" /\ lead' = Absent
  /\ heard' = <<>> /\ abandoned' = abandoned + 1
  /\ UNCHANGED <<cycles, family, market, history, stuck, synthesis, proposal, verdict>>

ThreadEnds ==
  /\ abandoned > 0 /\ abandoned' = abandoned - 1
  /\ UNCHANGED <<phase, cycles, family, market, history, heard, stuck,
                 lead, synthesis, proposal, verdict>>

(***************************************************************************)
(* A direction is passed on unless some answer flags an unresolved          *)
(* conflict; the synthesis itself is returned in any case.                  *)
(***************************************************************************)
PassedOn(s) == IF s.direction \in Trades /\ ~lead.conflict THEN s ELSE NoProposal

Synthesise ==
  /\ phase = "synthesis" /\ phase' = "decide"
  /\ synthesis' = GenerateProposal(lead)
  /\ proposal' = PassedOn(GenerateProposal(lead))
  /\ UNCHANGED <<cycles, family, market, history, heard, stuck, abandoned, lead, verdict>>

SynthesisFails ==
  /\ phase = "synthesis" /\ phase' = "decide"
  /\ synthesis' = NoProposal /\ proposal' = NoProposal
  /\ UNCHANGED <<cycles, family, market, history, heard, stuck, abandoned, lead, verdict>>

(***************************************************************************)
(* The pipeline's decision on what it extracted.                            *)
(***************************************************************************)
Decision ==
  CASE ~Actionable(Extracted) -> IF lead.signal = "NEUTRAL" THEN "WAIT" ELSE "NO_TRADE"
    [] Actionable(Extracted) /\ CanonicalBlock(heard) -> "WAIT"
    [] Actionable(Extracted) /\ ~CanonicalBlock(heard) ->
         IF FightsBias(Extracted.direction) THEN "WAIT" ELSE Extracted.direction

Decide ==
  /\ phase = "decide" /\ phase' = "decided"
  /\ verdict' = Decision
  /\ UNCHANGED <<cycles, family, market, history, heard, stuck, abandoned,
                 lead, synthesis, proposal>>

Finish ==
  /\ phase = "decided" /\ phase' = "idle"
  /\ family' = Nothing /\ market' = Nothing /\ history' = Nothing
  /\ heard' = <<>> /\ stuck' = FALSE
  /\ lead' = Absent /\ synthesis' = NoProposal /\ proposal' = NoProposal /\ verdict' = Nothing
  /\ UNCHANGED <<cycles, abandoned>>

Next ==
  \/ \E f \in Families, m \in Markets, h \in Histories : Begin(f, m, h)
  \/ Hear \/ SpecialistFails \/ SpecialistHangs
  \/ LeadReturns \/ Deadline \/ ThreadEnds
  \/ Synthesise \/ SynthesisFails \/ Decide \/ Finish

CommitteeSpec == Init /\ [][Next]_vars

(***************************************************************************)
(* The supervisor's thread always goes on and its deadline is a timer; a    *)
(* specialist need never return.                                            *)
(***************************************************************************)
CommitteeFairSpec ==
  /\ CommitteeSpec
  /\ WF_vars(LeadReturns \/ Deadline)
  /\ WF_vars(Synthesise \/ SynthesisFails)
  /\ WF_vars(Decide) /\ WF_vars(Finish)

-----------------------------------------------------------------------------
(***************************************************************************)
(* A cycle that decides to trade heard every specialist it called, and the  *)
(* direction it trades carries six tenths of the weight of those that gave  *)
(* a direction: neither a raised or hung specialist, nor the synthesizer's  *)
(* rescaling of the lead's confidence, nor the fall-back from the           *)
(* supervisor's proposal to the synthesis, produces a direction of its own. *)
(***************************************************************************)
EvidenceBacked ==
  phase = "decided" /\ verdict \in Trades =>
    LET d == IF verdict = "BUY" THEN "BULLISH" ELSE "BEARISH"
    IN /\ Len(heard) = Len(Called)
       /\ 10 * Votes(d, heard) >= 6 * (Votes("BULLISH", heard) + Votes("BEARISH", heard))
       /\ \E i \in DOMAIN heard : heard[i] = Says(Called[i]) /\ heard[i].signal = d

(***************************************************************************)
(* A stuck specialist never hangs the cycle: every cycle ends, and one      *)
(* whose specialist hung ends without a trade.                              *)
(***************************************************************************)
CycleEnds == phase = "lead" ~> phase = "idle"

(***************************************************************************)
(* "An unresolved committee conflict must NEVER be forced into a trade,     *)
(* irrespective of confidence": a cycle in which specialists of both        *)
(* directions had weight decides no trade.                                  *)
(***************************************************************************)
ConflictNeverTrades ==
  phase = "decided" /\ lead.conflict => verdict \notin Trades

=============================================================================
