-------------------------- MODULE ReasonerRuntime --------------------------
(***************************************************************************)
(* reasoner_runtime: generate_structured runs a request against a chain of *)
(* providers (core/engine.py, providers/fallback.py).  An output that does *)
(* not parse is asked for again from the same provider, any other failure  *)
(* moves on to the next one.  The observability callbacks are registered   *)
(* in a global of the LiteLLM library for the duration of the request,     *)
(* under a process-wide lock, where LiteLLM reports every completion to    *)
(* them; health_check (health/checker.py) calls the providers without that *)
(* lock.                                                                   *)
(*                                                                         *)
(* A profile is a record of the target (provider and model) it names and   *)
(* its fallback_priority.                                                  *)
(***************************************************************************)
EXTENDS Naturals, Sequences, FiniteSets

CONSTANTS
    Requests,       \* calls of generate_structured
    Inputs,         \* requests: profiles, configured target, max_retries
    Targets,        \* provider/model pairs
    Direct,         \* targets whose client does not go through LiteLLM
    MaxProbes,      \* bound on the health probes
    Nobody

ASSUME ReasonerAssumption ==
    /\ MaxProbes \in Nat
    /\ Nobody \notin Requests
    /\ Direct \subseteq Targets
    /\ \A x \in Inputs : /\ x.profiles \in Seq([target : Targets, priority : Nat])
                        /\ x.configured \in Targets
                        /\ x.retries \in Nat

VARIABLES
    input,          \* request -> its profiles, configured target and max_retries
    rpc,            \* where a request is
    at, retry,      \* position in the chain, retry index at the provider
    hadInfra,       \* had_infra_failure
    decision,       \* request -> the FallbackDecision of its end
    lock,           \* holder of _RUNTIME_CALLBACK_LOCK
    installed,      \* request whose backends are registered with LiteLLM
    events,         \* request -> what its callback backends were told
    probes,         \* health probes so far
    log             \* history: request -> outcomes of its provider calls

reasonerVars == <<input, rpc, at, retry, hadInfra, decision, lock, installed, events, probes, log>>

Outcomes == {"parsed", "unparsable", "infra", "timeout"}
Classes  == {"none", "success_with_fallback", "task_level", "infra_level"}
\* What the backends hear: the engine's start and end, LiteLLM's reports of the
\* calls of the request, and of a probe.
Kinds == {"start", "success", "error", "answer", "failure", "probe"}
NoDecision == [class |-> "open", attempts |-> 0, retries |-> 0]

ReasonerTypeOK ==
    /\ input \in [Requests -> Inputs]
    /\ rpc \in [Requests -> {"new", "waiting", "entered", "calling", "answered",
                             "rejected", "ok", "failed", "wrapped", "escaped"}]
    /\ \A r \in Requests : at[r] \in 0..Cardinality(Targets) /\ retry[r] \in 0..input[r].retries
    /\ hadInfra \in [Requests -> BOOLEAN]
    /\ \A r \in Requests : decision[r] = NoDecision \/ decision[r].class \in Classes
    /\ lock \in Requests \cup {Nobody}
    /\ installed \in Requests \cup {Nobody}
    /\ \A r \in Requests : events[r] \in Seq(Kinds)
    /\ probes \in 0..MaxProbes
    /\ \A r \in Requests : log[r] \in Seq(Targets \X Outcomes)

ReasonerInit ==
    /\ input \in [Requests -> Inputs]
    /\ rpc = [r \in Requests |-> "new"]
    /\ at = [r \in Requests |-> 0]
    /\ retry = [r \in Requests |-> 0]
    /\ hadInfra = [r \in Requests |-> FALSE]
    /\ decision = [r \in Requests |-> NoDecision]
    /\ lock = Nobody
    /\ installed = Nobody
    /\ events = [r \in Requests |-> <<>>]
    /\ probes = 0
    /\ log = [r \in Requests |-> <<>>]

-----------------------------------------------------------------------------
(* ordered_fallback_chain                                                  *)

TargetsOf(ps) == {ps[i].target : i \in DOMAIN ps}

\* sorted by fallback_priority, which keeps the order of equal priorities.
Before(ps, i, j) ==
    \/ ps[i].priority < ps[j].priority
    \/ ps[i].priority = ps[j].priority /\ i < j

\* The profile that stands for a target: the first of those that name it.
Profile(ps, t) ==
    CHOOSE i \in DOMAIN ps :
        /\ ps[i].target = t
        /\ \A j \in DOMAIN ps : ps[j].target = t /\ j # i => Before(ps, i, j)

\* The configured target comes first, the others by priority.
Precedes(ps, configured, t, u) ==
    \/ t = configured /\ u # configured
    \/ u # configured /\ Before(ps, Profile(ps, t), Profile(ps, u))

Chain(ps, configured) ==
    LET T == TargetsOf(ps)
    IN  CHOOSE c \in [1..Cardinality(T) -> T] :
            \A i, j \in DOMAIN c : i < j => Precedes(ps, configured, c[i], c[j])

ChainOf(r) == Chain(input[r].profiles, input[r].configured)

-----------------------------------------------------------------------------
(* The engine around the provider calls                                    *)

RMove(r, phase) == rpc' = [rpc EXCEPT ![r] = phase]
Tell(r, es) == events' = [events EXCEPT ![r] = @ \o es]

\* _normalize_request and _resolve_provider_profiles.
Submit(r) ==
    /\ rpc[r] = "new"
    /\ \E phase \in {"waiting", "rejected"} : RMove(r, phase)
    /\ UNCHANGED <<input, at, retry, hadInfra, decision, lock, installed, events, probes, log>>

\* The lock, configure_litellm_callbacks and _emit_callback_start, whose
\* backends' errors are swallowed.
Enter(r) ==
    /\ rpc[r] = "waiting"
    /\ lock = Nobody
    /\ lock' = r
    /\ installed' = r
    /\ Tell(r, <<"start">>)
    /\ RMove(r, "entered")
    /\ UNCHANGED <<input, at, retry, hadInfra, decision, probes, log>>

\* configure_litellm_callbacks(()) in the finally clause.
Uninstalled == Nobody

\* Mutant: the lock is kept when the request is left.
Unlocked_Not == lock

Unlocked == Nobody

\* The result or the error leaves the engine, after what was reported of the
\* last call: one more callback, and the lock.
Leave(r, phase, reports, e) ==
    /\ RMove(r, phase)
    /\ Tell(r, reports \o <<e>>)
    /\ installed' = Uninstalled
    /\ lock' = Unlocked

\* scrub_request or resolve_response_model raises.
PrepareFails(r) ==
    /\ rpc[r] = "entered"
    /\ Leave(r, "failed", <<>>, "error")
    /\ UNCHANGED <<input, at, retry, hadInfra, decision, probes, log>>

Decide(r, class) ==
    decision' = [decision EXCEPT ![r] = [class |-> class, attempts |-> at[r],
                                         retries |-> retry[r]]]

\* execute_with_fallback begins; without a profile it raises at once.
BeginCalls(r) ==
    /\ rpc[r] = "entered"
    /\ IF input[r].profiles = <<>>
       THEN /\ Decide(r, "infra_level")
            /\ Leave(r, "wrapped", <<>>, "error")
            /\ UNCHANGED at
       ELSE /\ at' = [at EXCEPT ![r] = 1]
            /\ RMove(r, "calling")
            /\ UNCHANGED <<decision, events, installed, lock>>
    /\ UNCHANGED <<input, retry, hadInfra, probes, log>>

-----------------------------------------------------------------------------
(* execute_with_fallback: one provider call                                *)

Logged(r, outcome) == log' = [log EXCEPT ![r] = Append(@, <<ChainOf(r)[at[r]], outcome>>)]

\* Mutant: the handlers of the last request are still registered beside these.
Reports_Doubled(t, outcome) ==
    IF t \in Direct THEN {<<>>}
    ELSE IF outcome = "timeout" THEN {<<"failure", "failure">>} ELSE {<<"answer", "answer">>}

\* LiteLLM tells its success handler of every completion, whether or not it
\* parses, and its failure handler of one that raises, before the call returns.
\* A call may also fail before a completion is asked for, or on what it was
\* answered.  A client that is not LiteLLM's tells nobody.
Reports(t, outcome) ==
    CASE t \in Direct -> {<<>>}
      [] t \notin Direct /\ outcome \in {"parsed", "unparsable"} -> {<<"answer">>}
      [] t \notin Direct /\ outcome = "timeout" -> {<<"failure">>}
      [] t \notin Direct /\ outcome = "infra" -> {<<>>, <<"answer">>, <<"failure">>}

ReportsOf(r, outcome) == Reports(ChainOf(r)[at[r]], outcome)

SuccessClass(r) == IF hadInfra[r] THEN "success_with_fallback" ELSE "none"

CallParsed(r) ==
    /\ rpc[r] = "calling"
    /\ Logged(r, "parsed")
    /\ Decide(r, SuccessClass(r))
    /\ RMove(r, "answered")
    /\ \E reports \in ReportsOf(r, "parsed") : Tell(r, reports)
    /\ UNCHANGED <<input, at, retry, hadInfra, lock, installed, probes>>

MayRetry(r) == retry[r] < input[r].retries

\* ParseValidationError: again, or the task has failed, whatever providers are
\* left.
CallUnparsable(r) ==
    /\ rpc[r] = "calling"
    /\ Logged(r, "unparsable")
    /\ \E reports \in ReportsOf(r, "unparsable") :
          IF MayRetry(r)
          THEN /\ retry' = [retry EXCEPT ![r] = @ + 1]
               /\ Tell(r, reports)
               /\ UNCHANGED <<rpc, decision, installed, lock>>
          ELSE /\ Decide(r, "task_level")
               /\ Leave(r, "wrapped", reports, "error")
               /\ UNCHANGED retry
    /\ UNCHANGED <<input, at, hadInfra, probes>>

\* FallbackDecision refuses a classification other than the one it computes
\* itself without the error: for a timeout that is a provider failure, so the
\* decision cannot be built and its ValidationError leaves in its place.
Rejected(outcome) == outcome = "timeout"

CallFails(r, outcome) ==
    /\ rpc[r] = "calling"
    /\ Logged(r, outcome)
    /\ hadInfra' = [hadInfra EXCEPT ![r] = TRUE]
    /\ \E reports \in ReportsOf(r, outcome) :
          IF at[r] < Len(ChainOf(r))
          THEN /\ at' = [at EXCEPT ![r] = @ + 1]
               /\ retry' = [retry EXCEPT ![r] = 0]
               /\ Tell(r, reports)
               /\ UNCHANGED <<rpc, decision, installed, lock>>
          ELSE /\ IF Rejected(outcome)
                  THEN UNCHANGED decision /\ Leave(r, "escaped", reports, "error")
                  ELSE Decide(r, "infra_level") /\ Leave(r, "wrapped", reports, "error")
               /\ UNCHANGED <<at, retry>>
    /\ UNCHANGED <<input, probes>>

\* Lineage and replay bundle are built, or that raises.
Answer(r) ==
    /\ rpc[r] = "answered"
    /\ \/ Leave(r, "ok", <<>>, "success")
       \/ Leave(r, "failed", <<>>, "error")
    /\ UNCHANGED <<input, at, retry, hadInfra, decision, probes, log>>

\* probe_provider: a completion of LiteLLM, which tells whatever callbacks are
\* registered at the moment.
Probe ==
    /\ probes < MaxProbes
    /\ probes' = probes + 1
    /\ IF installed = Nobody THEN UNCHANGED events ELSE Tell(installed, <<"probe">>)
    /\ UNCHANGED <<input, rpc, at, retry, hadInfra, decision, lock, installed, log>>

Call(r) == CallParsed(r) \/ CallUnparsable(r) \/ \E o \in {"infra", "timeout"} : CallFails(r, o)

Step(r) == Submit(r) \/ Enter(r) \/ PrepareFails(r) \/ BeginCalls(r) \/ Call(r) \/ Answer(r)

ReasonerNext == Probe \/ \E r \in Requests : Step(r)

ReasonerSpec == ReasonerInit /\ [][ReasonerNext]_reasonerVars

\* Every provider call returns: the clients have a timeout.
ReasonerFairness == \A r \in Requests : WF_reasonerVars(Step(r))

FairReasoner == ReasonerSpec /\ ReasonerFairness

-----------------------------------------------------------------------------
(* Properties                                                              *)

Ended(r) == rpc[r] \in {"ok", "failed", "wrapped", "escaped"}

Calls(r, t, outcomes) ==
    Cardinality({i \in DOMAIN log[r] : log[r][i][1] = t /\ log[r][i][2] \in outcomes})

Faults == {"infra", "timeout"}

\* What the decision says is what happened: a plain success had no provider
\* failure behind it and a fallback had one; a task failure used up the retries
\* at the last provider and an infrastructure failure one call or more of every
\* provider, each ended by a failure; no provider is asked twice for reasons
\* other than parsing.
DecisionExplains ==
    \A r \in Requests : decision[r] # NoDecision =>
        LET d == decision[r]
            T == TargetsOf(input[r].profiles)
            failed == {t \in T : Calls(r, t, Faults) > 0}
        IN  /\ d.class = "none" => failed = {}
            /\ d.class = "success_with_fallback" => failed # {}
            /\ d.class = "infra_level" => failed = T
            /\ d.class = "task_level" =>
                  \E t \in T \ failed : Calls(r, t, {"unparsable"}) = input[r].retries + 1
            /\ \A t \in T : Calls(r, t, Faults) <= 1
            /\ \A t \in T : Calls(r, t, {"unparsable"}) <= input[r].retries + 1

\* The configured target is the first to be called when it has a profile, and a
\* target with a higher priority number is called only after every lower one
\* has failed.
ConfiguredFirst ==
    \A r \in Requests : log[r] # <<>> =>
        LET ps == input[r].profiles
            called == {log[r][i][1] : i \in DOMAIN log[r]}
        IN  /\ input[r].configured \in TargetsOf(ps) => log[r][1][1] = input[r].configured
            /\ \A t \in called, i \in DOMAIN ps :
                  t # input[r].configured /\ ps[i].priority < ps[Profile(ps, t)].priority =>
                      Calls(r, ps[i].target, Faults) = 1

Tally(r, kinds) == Cardinality({i \in DOMAIN events[r] : events[r][i] \in kinds})

\* The backends of a request hear its start first and the engine's verdict last,
\* once it has ended and never before; between them at most one report of each
\* call that was made and a failure only of calls that failed; when no request
\* is inside, nobody is registered.
EventsWellFormed ==
    /\ lock = Nobody => installed = Nobody
    /\ \A r \in Requests :
          LET e == events[r]
          IN  /\ \A i \in DOMAIN e : (e[i] = "start") <=> (i = 1)
              /\ Ended(r) <=> (e # <<>> /\ e[Len(e)] \in {"success", "error"})
              /\ \A i \in DOMAIN e : e[i] \in {"success", "error"} => i = Len(e)
              /\ Tally(r, {"answer", "failure"}) <= Len(log[r])
              /\ Tally(r, {"failure"}) <= Cardinality({i \in DOMAIN log[r] : log[r][i][2] \in Faults})

\* The decision, the order of the calls and what the callbacks were told agree
\* with what happened.
ReasonerSafe == DecisionExplains /\ ConfiguredFirst /\ EventsWellFormed

\* A request ends, however its providers fail and whoever else is waiting.
RequestsEnd == \A r \in Requests : rpc[r] = "waiting" ~> Ended(r)

\* reasoner-runtime/README.md:109 says that every exception is finally wrapped
\* in FallbackExecutionError by execute_with_fallback.
ErrorsAreWrapped == \A r \in Requests : rpc[r] # "escaped"

=============================================================================
