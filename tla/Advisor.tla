------------------------------- MODULE Advisor -------------------------------
(***************************************************************************)
(* The advisory LLM path.  An advise request passes four guardrails, is    *)
(* charged to the supervisor's token budget, is routed by a fresh          *)
(* CanonicalModelRouter and answered by NineRouterClient, which retries,   *)
(* falls back to another model and, when every provider fails, answers     *)
(* with a rule-based text of its own.  The endpoint is async and calls     *)
(* advise() directly, so one call is in flight at a time; the analysis     *)
(* cycle, which resets and charges the same budget, runs on a worker       *)
(* thread beside it, and so do the requests that refresh the model list.   *)
(*                                                                         *)
(* Tokens are counted in units, prompts and answers are left out.          *)
(***************************************************************************)
EXTENDS Naturals, Sequences, FiniteSets, SequencesExt

CONSTANTS
  Readers,          \* concurrent GET /ai/models requests
  Models,           \* the registry's default models, in order
  FreeModels,
  ClientFallbacks,  \* NineRouterClient.fallback_models
  MaxEscalations, MaxRetries,
  Estimate,         \* DEFAULT_ESTIMATE_TOKENS
  AgentEstimate,    \* DEFAULT_TOKEN_ESTIMATE
  Budgets,          \* values an operator gives supervisor_token_budget
  Totals,           \* tokens a provider may report for one answer
  CacheTtl, FailureTtl, MaxTime

ASSUME AdvisorAssumption ==
  /\ Models # <<>> /\ MaxEscalations \in Nat /\ MaxRetries \in Nat
  /\ Estimate \in Nat /\ AgentEstimate \in Nat /\ CacheTtl \in Nat
  /\ FailureTtl \in Nat /\ MaxTime \in Nat /\ Budgets \subseteq Nat
  /\ Totals \subseteq Nat
  /\ "free" \notin Readers

Mock == "rule-based-mock"
Never == MaxTime + 1      \* no such time: None

VARIABLES
  enabled, budget,   \* the knobs llm_advisor_enabled, supervisor_token_budget
  used,              \* SupervisorAgent.token_used
  cycle,             \* agents the running analysis cycle has still to charge
  call,              \* the advise() in flight
  answer,            \* the last AdvisorResult
  probe,             \* what the certification probe of the router last saw
  now, registry,     \* the clock, the shared ModelRegistry's discovery state
  lock, reader       \* its lock's holder; where each GET /ai/models stands

budgetVars == <<enabled, budget, used, cycle>>
callVars == <<call, answer, probe>>
registryVars == <<now, registry, lock, reader>>
advisorVars == <<budgetVars, callVars, registryVars>>

NoCall == [pc |-> "idle", left |-> <<>>, attempt |-> 0, primary |-> "none"]
NoAnswer == [ok |-> FALSE, model |-> "none", flagged |-> FALSE, error |-> "none"]

-----------------------------------------------------------------------------
(* Choosing models                                                         *)

\* ModelRouter._candidates, free tier: free models first, registry order kept.
Candidates == SelectSeq(Models, LAMBDA m : m \in FreeModels)
              \o SelectSeq(Models, LAMBDA m : m \notin FreeModels)

\* ModelRouter.route for the callers there are: LOW risk and complexity, no
\* cost ceiling, so every candidate is affordable.
Route == [model |-> Head(Candidates), fallback_chain |-> Tail(Candidates)]

\* CanonicalModelRouter._call_bounded: the primary and a few fallbacks, until
\* one of them does not raise.
Chain == <<Route.model>> \o SubSeq(Route.fallback_chain, 1,
                                   IF MaxEscalations < Len(Route.fallback_chain)
                                   THEN MaxEscalations ELSE Len(Route.fallback_chain))

CallBounded(raises) ==
  IF \A i \in DOMAIN Chain : Chain[i] \in raises
  THEN [status |-> "FAILED", model |-> "", retries |-> Len(Chain),
        fallback |-> Len(Chain) > 1]
  ELSE LET i == CHOOSE i \in DOMAIN Chain :
                  /\ Chain[i] \notin raises
                  /\ \A j \in 1..(i - 1) : Chain[j] \in raises
       IN [status |-> "VALID", model |-> Chain[i], retries |-> i - 1,
           fallback |-> i > 1]

\* The models NineRouterClient.generate tries for one primary.
ModelsToTry(primary) ==
  <<primary>> \o SelectSeq(ClientFallbacks, LAMBDA m : m # primary)

\* classify_llm_exception: what became of the provider, as the taxonomy has it.
Classify(failure) ==
  CASE failure = "timeout" -> "LLM_TIMEOUT"
    [] failure = "unavailable" -> "LLM_PROVIDER_503"
    [] failure = "refused" -> "LLM_PROVIDER_4XX"
    [] OTHER -> "LLM_PROVIDER_5XX"
Failures == {"timeout", "unavailable", "refused", "other"}

-----------------------------------------------------------------------------
(* The budget shared with the analysis cycle                               *)

\* SupervisorAgent.check_token_budget, refund_token_budget.
Affordable(tokens) == used + tokens <= budget
Refund(tokens) == IF tokens < used THEN used - tokens ELSE 0

\* SupervisorAgent.analyze begins: the counter starts afresh.
BeginCycle ==
  /\ cycle = 0
  /\ used' = 0 /\ cycle' \in 1..2
  /\ UNCHANGED <<enabled, budget, callVars, registryVars>>

\* One agent of the cycle is charged, or skipped.
ChargeAgent ==
  /\ cycle > 0
  /\ cycle' = cycle - 1
  /\ used' = IF Affordable(AgentEstimate) THEN used + AgentEstimate ELSE used
  /\ UNCHANGED <<enabled, budget, callVars, registryVars>>

\* The settings endpoint applies the two knobs to the running process.
SetAdvisorKnobs(on, tokens) ==
  /\ call.pc = "idle"
  /\ enabled' = on /\ budget' = tokens
  /\ UNCHANGED <<used, cycle, callVars, registryVars>>

-----------------------------------------------------------------------------
(* One advise()                                                            *)

Refuse(error) ==
  /\ call' = NoCall
  /\ answer' = [NoAnswer EXCEPT !.error = error]
  /\ UNCHANGED <<enabled, budget, cycle, probe, registryVars>>

\* The role, the opt-in and the market data, in that order.
Ask(roleAllowed, hasData) ==
  /\ call.pc = "idle"
  /\ IF roleAllowed /\ enabled /\ hasData
     THEN /\ call' = [NoCall EXCEPT !.pc = "budget"]
          /\ UNCHANGED <<budgetVars, answer, probe, registryVars>>
     ELSE Refuse("none") /\ UNCHANGED used

CommitBudget ==
  /\ call.pc = "budget"
  /\ IF Affordable(Estimate)
     THEN /\ used' = used + Estimate
          /\ call' = [call EXCEPT !.pc = "route"]
          /\ UNCHANGED <<enabled, budget, cycle, answer, probe, registryVars>>
     ELSE Refuse("none") /\ UNCHANGED used

\* router.execute as far as the client's first request.  Building the client
\* is tried once for each model of the chain and fails for all or for none.
Execute(clientBuilds) ==
  /\ call.pc = "route"
  /\ LET bounded == CallBounded(IF clientBuilds THEN {} ELSE Range(Chain))
     IN IF bounded.status = "VALID"
        THEN /\ call' = [pc |-> "try", left |-> ModelsToTry(bounded.model),
                         attempt |-> 0, primary |-> bounded.model]
             /\ UNCHANGED <<budgetVars, answer, probe, registryVars>>
        ELSE Refuse(Classify("other")) /\ UNCHANGED used

\* The client returns, the router finds free text valid, the advisor gives
\* the unused part of its estimate back and reports what the client said.
Answer(model, total, flagged) ==
  /\ answer' = [ok |-> TRUE, model |-> model, flagged |-> flagged, error |-> "none"]
  /\ used' = IF total > 0 /\ total < Estimate THEN Refund(Estimate - total) ELSE used
  /\ call' = NoCall
  /\ UNCHANGED <<enabled, budget, cycle, probe, registryVars>>

ProviderAnswers(total) ==
  /\ call.pc = "try"
  /\ Answer(Head(call.left), total, Head(call.left) # call.primary)

\* An attempt fails: the same model again, then the next one.
ProviderFails ==
  /\ call.pc = "try"
  /\ Len(call.left) > 1 \/ call.attempt < MaxRetries
  /\ call' = IF call.attempt < MaxRetries
             THEN [call EXCEPT !.attempt = @ + 1]
             ELSE [call EXCEPT !.attempt = 0, !.left = Tail(@)]
  /\ UNCHANGED <<budgetVars, answer, probe, registryVars>>

\* The last attempt at the last model fails: _rule_based_fallback answers.  The
\* failure's class stays in the client, which the router drops with itself.
MockAnswers(total) ==
  /\ call.pc = "try"
  /\ Len(call.left) = 1 /\ call.attempt = MaxRetries
  /\ Answer(Mock, total, TRUE)

\* The certification check sends one request through a transport that is down.
ProbeRouter ==
  /\ call.pc = "idle"
  /\ probe' = CallBounded(Range(Chain)).status
  /\ UNCHANGED <<budgetVars, call, answer, registryVars>>

-----------------------------------------------------------------------------
(* The shared model registry: ModelRegistry.discover_from_gateway           *)

FreshSuccess == registry.success /\ registry.discovered # Never
                /\ now - registry.discovered < CacheTtl
FreshFailure == ~registry.success /\ registry.failed # Never
                /\ now - registry.failed < FailureTtl
Cached == FreshSuccess \/ FreshFailure

\* A request finds a cached outcome, or queues for the lock.
ReadModels(r) ==
  /\ reader[r] = "idle" /\ ~Cached
  /\ reader' = [reader EXCEPT ![r] = "wait"]
  /\ UNCHANGED <<budgetVars, callVars, now, registry, lock>>

\* Mutant: whoever waited fetches.
TakeLock_NoSecondLook(r) ==
  /\ reader[r] = "wait" /\ lock = "free"
  /\ reader' = [reader EXCEPT ![r] = "fetch"]
  /\ lock' = r
  /\ registry' = [registry EXCEPT !.attempt = now]
  /\ UNCHANGED <<budgetVars, callVars, now>>

\* The caches are looked at again under the lock.
TakeLock(r) ==
  /\ reader[r] = "wait" /\ lock = "free"
  /\ IF Cached
     THEN /\ reader' = [reader EXCEPT ![r] = "idle"]
          /\ UNCHANGED <<lock, registry>>
     ELSE /\ reader' = [reader EXCEPT ![r] = "fetch"]
          /\ lock' = r
          /\ registry' = [registry EXCEPT !.attempt = now]
  /\ UNCHANGED <<budgetVars, callVars, now>>

\* The gateway lists usable models; the success dates from the attempt's start.
Discover(r) ==
  /\ reader[r] = "fetch"
  /\ registry' = [registry EXCEPT !.success = TRUE, !.source = "gateway",
                    !.discovered = registry.attempt, !.failed = Never]
  /\ lock' = "free" /\ reader' = [reader EXCEPT ![r] = "idle"]
  /\ UNCHANGED <<budgetVars, callVars, now>>

\* No gateway, or nothing usable from it: the models served stay, the failure
\* dates from now.
DiscoverFails(r) ==
  /\ reader[r] = "fetch"
  /\ registry' = [registry EXCEPT !.success = FALSE, !.source = "defaults",
                    !.failed = now]
  /\ lock' = "free" /\ reader' = [reader EXCEPT ![r] = "idle"]
  /\ UNCHANGED <<budgetVars, callVars, now>>

Tick ==
  /\ now < MaxTime
  /\ now' = now + 1
  /\ UNCHANGED <<budgetVars, callVars, registry, lock, reader>>

-----------------------------------------------------------------------------
AdvisorInit ==
  /\ enabled = FALSE /\ budget \in Budgets /\ used = 0 /\ cycle = 0
  /\ call = NoCall /\ answer = NoAnswer /\ probe = "none"
  /\ now = 0 /\ lock = "free" /\ reader = [r \in Readers |-> "idle"]
  /\ registry = [success |-> FALSE, source |-> "defaults", attempt |-> Never,
                 discovered |-> Never, failed |-> Never]

CallSteps ==
  \/ CommitBudget
  \/ \E builds \in BOOLEAN : Execute(builds)
  \/ \E total \in Totals : ProviderAnswers(total) \/ MockAnswers(total)
  \/ ProviderFails

AdvisorNext ==
  \/ BeginCycle \/ ChargeAgent
  \/ \E on \in BOOLEAN, tokens \in Budgets : SetAdvisorKnobs(on, tokens)
  \/ \E roleAllowed, hasData \in BOOLEAN : Ask(roleAllowed, hasData)
  \/ CallSteps
  \/ ProbeRouter
  \/ \E r \in Readers :
       ReadModels(r) \/ TakeLock(r) \/ Discover(r) \/ DiscoverFails(r)
  \/ Tick

AdvisorSpec == AdvisorInit /\ [][AdvisorNext]_advisorVars

-----------------------------------------------------------------------------
(* Properties                                                              *)

\* The gateway is asked by one request at a time, and never again while a
\* failure or a success is still remembered, whoever was queueing for the lock
\* when it was recorded (ModelRegistry.discover_from_gateway).
NoHammering ==
  [][\A r \in Readers : reader[r] # "fetch" /\ reader'[r] = "fetch" =>
       /\ \A s \in Readers : reader[s] # "fetch"
       /\ registry.failed # Never => now >= registry.failed + FailureTtl
       /\ registry.success => now >= registry.discovered + CacheTtl]_advisorVars
=============================================================================
