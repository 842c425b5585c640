---------------------------- MODULE TraceSampling ----------------------------
(***************************************************************************)
(* One traced task, from the SDK to the Collector's tail sampler.  The     *)
(* task runs inside the invoke_agent span and calls wrapped tools, each in *)
(* a span of its own that may outlive the call that made it; spans are     *)
(* exported when they end and reach the Collector in any order.  The       *)
(* Collector decides on a trace DecisionWait after its first span, on the  *)
(* spans it has by then, and later spans follow the decision.              *)
(***************************************************************************)
EXTENDS Naturals, FiniteSets

CONSTANTS
  Tools,         \* the tool calls the task may make, one span each
  DecisionWait,  \* tail_sampling.decision_wait
  SlowMs,        \* threshold_ms of keep-slow, and of tailKeepDecision
  MaxNow         \* bound on the clock

ASSUME SamplingAssumption ==
  /\ IsFiniteSet(Tools) /\ "task" \notin Tools
  /\ DecisionWait \in Nat /\ SlowMs \in Nat /\ MaxNow \in Nat

VARIABLES
  now,
  span,      \* the task's span and one for each tool call
  arrived,   \* the spans at the Collector
  deadline,  \* when the Collector decides; MaxNow + DecisionWait + 1 before the first span
  decision,  \* "pending", "kept" or "dropped"
  seen,      \* the spans it was decided on
  reported,  \* history: whether the task reported a failure while its span was open
  failed     \* history: what threw, of the task and the tools

samplingVars == <<now, span, arrived, deadline, decision, seen, reported, failed>>

Spans == Tools \cup {"task"}

Outcomes == {"success", "fail", "escalated", "unknown"}

NoDeadline == MaxNow + DecisionWait + 1

NotStarted == [phase |-> "none", start |-> 0, end |-> 0, outcome |-> "none",
               keep |-> FALSE, error |-> FALSE]

Open(s) == span[s].phase = "open"
Ended(s) == span[s].phase = "ended"

\* The task opens its span when it starts, at time 0.
SamplingInit ==
  /\ now = 0
  /\ span = [s \in Spans |-> IF s = "task" THEN [NotStarted EXCEPT !.phase = "open"]
                                           ELSE NotStarted]
  /\ arrived = {} /\ deadline = NoDeadline /\ decision = "pending" /\ seen = {}
  /\ reported = FALSE /\ failed = {}

-----------------------------------------------------------------------------
CallTool(t) ==
  /\ Open("task") /\ span[t].phase = "none"
  /\ span' = [span EXCEPT ![t] = [NotStarted EXCEPT !.phase = "open", !.start = now]]
  /\ UNCHANGED <<now, arrived, deadline, decision, seen, reported, failed>>

EndSpan(s, error) ==
  span' = [span EXCEPT ![s].phase = "ended", ![s].end = now, ![s].error = error]

ToolReturns(t) ==
  /\ Open(t)
  /\ EndSpan(t, FALSE)
  /\ UNCHANGED <<now, arrived, deadline, decision, seen, reported, failed>>

\* The exception is recorded on the tool's span and thrown on to the caller.
ToolThrows(t) ==
  /\ Open(t)
  /\ EndSpan(t, TRUE) /\ failed' = failed \cup {t}
  /\ UNCHANGED <<now, arrived, deadline, decision, seen, reported>>

\* As if the hint followed the last outcome.
RecordLastOutcome(outcome) ==
  /\ Open("task")
  /\ span' = [span EXCEPT !["task"].outcome = outcome,
                          !["task"].keep = outcome \in {"fail", "escalated"}]
  /\ reported' = (reported \/ outcome \in {"fail", "escalated"})
  /\ UNCHANGED <<now, arrived, deadline, decision, seen, failed>>

\* An ended span ignores its setters: only what is reported before counts.
RecordOutcome(outcome) ==
  /\ Open("task")
  /\ span' = [span EXCEPT !["task"].outcome = outcome,
                          !["task"].keep = @ \/ outcome \in {"fail", "escalated"}]
  /\ reported' = (reported \/ outcome \in {"fail", "escalated"})
  /\ UNCHANGED <<now, arrived, deadline, decision, seen, failed>>

TaskReturns ==
  /\ Open("task")
  /\ EndSpan("task", FALSE)
  /\ UNCHANGED <<now, arrived, deadline, decision, seen, reported, failed>>

\* The sink ends the span in a finally and records nothing.
TaskThrows ==
  /\ Open("task")
  /\ EndSpan("task", FALSE) /\ failed' = failed \cup {"task"}
  /\ UNCHANGED <<now, arrived, deadline, decision, seen, reported>>

-----------------------------------------------------------------------------
Arrive(s) ==
  /\ Ended(s) /\ s \notin arrived
  /\ arrived' = arrived \cup {s}
  /\ deadline' = IF deadline = NoDeadline THEN now + DecisionWait ELSE deadline
  /\ UNCHANGED <<now, span, decision, seen, reported, failed>>

\* From the first start to the last end of the spans the Collector has.
SlowTrace(spans) ==
  \E first, last \in spans : span[last].end >= span[first].start + SlowMs

KeepPolicy(spans) ==
  \/ \E s \in spans : span[s].keep
  \/ \E s \in spans : span[s].error
  \/ SlowTrace(spans)

\* What no policy keeps is kept with probability 0.05.
DecideOnTrace ==
  /\ decision = "pending" /\ now = deadline
  /\ decision' \in IF KeepPolicy(arrived) THEN {"kept"} ELSE {"kept", "dropped"}
  /\ seen' = arrived
  /\ UNCHANGED <<now, span, arrived, deadline, reported, failed>>

\* The Collector decides on time.
Tick ==
  /\ now < MaxNow /\ (decision = "pending" => now < deadline)
  /\ now' = now + 1
  /\ UNCHANGED <<span, arrived, deadline, decision, seen, reported, failed>>

SamplingNext ==
  \/ \E t \in Tools : CallTool(t) \/ ToolReturns(t) \/ ToolThrows(t)
  \/ \E outcome \in Outcomes : RecordOutcome(outcome)
  \/ TaskReturns \/ TaskThrows
  \/ \E s \in Spans : Arrive(s)
  \/ DecideOnTrace \/ Tick

SamplingSpec == SamplingInit /\ [][SamplingNext]_samplingVars

-----------------------------------------------------------------------------
\* As if every outcome but success were a failure to the in-process model.
TailKeepUnlessSuccess(outcome, keep, latency) ==
  keep \/ outcome # "success" \/ latency >= SlowMs

\* The SDK's own model of the Collector's decision.
TailKeepDecision(outcome, keep, latency) ==
  keep \/ outcome \in {"fail", "escalated"} \/ latency >= SlowMs

\* The Collector decided when every span of the trace had ended and arrived.
DecidedOnAll == decision # "pending" /\ \A s \in Spans : s \in seen \/ span[s].phase = "none"

\* A trace in which a tool threw, or whose task ever reported a failure, is kept if
\* it was whole when it was decided on, also when a later outcome is a success or
\* the task caught the exception.
FailuresKept ==
  DecidedOnAll /\ (failed \cap Tools # {} \/ reported)
    => decision = "kept"

\* The SDK's model of the tail decision is sound: what it keeps, given the task's
\* span, the Collector keeps, given the whole trace.
ModelIsSound ==
  DecidedOnAll /\ TailKeepDecision(span["task"].outcome, span["task"].keep,
                                   span["task"].end - span["task"].start)
    => decision = "kept"

\* "decide AFTER the whole trace is buffered", "keeps 100% of ... slow traces": a
\* task that took SlowMs is kept.
SlowTaskKept ==
  decision # "pending" /\ Ended("task") /\ span["task"].end - span["task"].start >= SlowMs
    => decision = "kept"

\* "Keeps 100% of errors": a task that threw is kept, when it was decided on all.
ThrownTaskKept == DecidedOnAll /\ "task" \in failed => decision = "kept"
=============================================================================
