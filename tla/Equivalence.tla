----------------------------- MODULE Equivalence -----------------------------
(***************************************************************************)
(* canonicalEquivalent applied to what two instrumentors emit of agent     *)
(* runs.  A run is a tree of canonical operations rooted in an             *)
(* invoke_agent; an emission of it adds framework-internal spans and       *)
(* orders the spans as they end.  Runs of AgenticOps and AgenticMind come  *)
(* through the adapters.                                                   *)
(***************************************************************************)
EXTENDS Normalize, FiniteSets

CONSTANT Pairs  \* the pairs of runs compared

VARIABLE call  \* the two runs compared and the answer, or Idle

Idle == [pc |-> "idle"]

\* Operation i is called by operation parent[i], 0 for the root.
AgentRuns(n) ==
  {r \in [op : [1..n -> Operations], parent : [1..n -> 0..n]] :
     /\ r.op[1] = "invoke_agent"
     /\ \A i \in 1..n : r.parent[i] < i /\ (r.parent[i] = 0 <=> i = 1)}

ASSUME EquivalenceAssumption ==
  /\ Null \notin Nat
  /\ \A pair \in Pairs : \A side \in {1, 2} :
       Len(pair[side].op) \in Nat \ {0} /\ pair[side] \in AgentRuns(Len(pair[side].op))

Resource == [k \in MandatoryResourceAttrs |-> "set"]

Identity == [k \in {"apl.agent_id", "apl.agent_version"} |-> "set"]

\* An object with one key, and one that is spread into another.
Only(key, value) == [k \in {key} |-> value]

Spread(attributes, more) ==
  [k \in DOMAIN attributes \cup DOMAIN more |->
     IF k \in DOMAIN more THEN more[k] ELSE attributes[k]]

\* The attributes each convention gives a span of an operation.
GenAIAttributes(op) ==
  Spread(Only(OPERATION_NAME, op),
         CASE op = "invoke_agent" -> Identity
           [] op = "chat"         -> Only("gen_ai.request.model", "gpt")
           [] op = "execute_tool" -> Only("gen_ai.tool.name", "search"))

OpenInferenceAttributes(op, isRoot, rootKind) ==
  CASE op = "invoke_agent" ->
         Spread(Only(OI_KIND, IF isRoot THEN rootKind ELSE "AGENT"), Identity)
    [] op = "chat"         -> Spread(Only(OI_KIND, "LLM"), Only("llm.model_name", "gpt"))
    [] op = "execute_tool" -> Spread(Only(OI_KIND, "TOOL"), Only("tool.name", "search"))

\* Spans in the order of their ids, in which they start.
AsStarted(spans) ==
  [p \in 1..Cardinality(spans) |->
     CHOOSE s \in spans : Cardinality({t \in spans : t.id <= s.id}) = p]

\* The spans of a run: those of its operations and, for each operation in
\* wrapped, an internal span between it and its parent.  attributes[i] are those
\* of operation i, internal those of every internal span.
Emit(r, wrapped, reversed, attributes, internal) ==
  LET Parent(i) == IF r.parent[i] = 0 THEN Null ELSE 2 * r.parent[i]
      own   == {[id |-> 2 * i, parent |-> IF i \in wrapped THEN 2 * i - 1 ELSE Parent(i),
                 attributes |-> attributes[i]] : i \in DOMAIN r.op}
      wraps == {[id |-> 2 * i - 1, parent |-> Parent(i),
                 attributes |-> internal] : i \in wrapped}
      spans == AsStarted(own \cup wraps)
  IN IF reversed THEN Reverse(spans) ELSE spans

EmitGenAI(r, wrapped, reversed) ==
  Emit(r, wrapped, reversed, [i \in DOMAIN r.op |-> GenAIAttributes(r.op[i])],
       Only(OPERATION_NAME, "embeddings"))

EmitOpenInference(r, wrapped, reversed, rootKind, internalKind) ==
  Emit(r, wrapped, reversed,
       [i \in DOMAIN r.op |-> OpenInferenceAttributes(r.op[i], i = 1, rootKind)],
       Only(OI_KIND, internalKind))

\* The engine's own spans carry no identity: the root is a CHAIN and nothing more.
EmitAgenticMind(r, wrapped) ==
  Emit(r, wrapped, FALSE,
       [i \in DOMAIN r.op |-> IF i = 1 THEN Only(OI_KIND, "CHAIN")
                              ELSE OpenInferenceAttributes(r.op[i], FALSE, "CHAIN")],
       Only(OI_KIND, "RETRIEVER"))

\* The adapter stamps the identity on the span that has no parent.
FromAgenticMind(spans) ==
  [i \in DOMAIN spans |->
     IF spans[i].parent # Null THEN spans[i]
     ELSE [spans[i] EXCEPT !.attributes = Spread(@, Identity)]]

\* A run of the bounded runner: the root names the model, every tool audited is a
\* child of it.
FromAgenticOpsRun(r) ==
  Emit(r, {}, FALSE,
       [i \in DOMAIN r.op |->
          IF i = 1 THEN Spread(GenAIAttributes("invoke_agent"),
                               Only("gen_ai.request.model", "gpt"))
          ELSE GenAIAttributes("execute_tool")],
       <<>>)

OnlyTools(r) == \A i \in 2..Len(r.op) : r.op[i] = "execute_tool" /\ r.parent[i] = 1

OneAgent(r) == \A i \in 2..Len(r.op) : r.op[i] # "invoke_agent"

\* What a run may arrive as, in the one convention and in the other.
GenAIEmissions(r) ==
  {EmitGenAI(r, wrapped, FALSE) : wrapped \in SUBSET (2..Len(r.op))}
    \cup {FromAgenticOpsRun(x) : x \in {y \in {r} : OnlyTools(y)}}

OpenInferenceEmissions(r) ==
  {EmitOpenInference(r, wrapped, TRUE, rootKind, internalKind) :
     wrapped \in SUBSET (2..Len(r.op)), rootKind \in {"AGENT", "CHAIN"},
     internalKind \in {"CHAIN", "RETRIEVER"}}
    \cup {FromAgenticMind(EmitAgenticMind(x, wrapped)) :
            x \in {y \in {r} : OneAgent(y)}, wrapped \in SUBSET (2..Len(r.op))}

Compare(a, b) ==
  /\ call = Idle
  /\ \E left \in GenAIEmissions(a), right \in OpenInferenceEmissions(b) :
       call' = [pc |-> "done", a |-> a, b |-> b,
                equivalent |-> CanonicalEquivalent(
                   Resource, NormalizeByConvention(left),
                   Resource, NormalizeByConvention(right))]

Return == call # Idle /\ call' = Idle

EquivalenceInit == call = Idle

EquivalenceNext == (\E pair \in Pairs : Compare(pair[1], pair[2])) \/ Return

EquivalenceSpec == EquivalenceInit /\ [][EquivalenceNext]_call

-----------------------------------------------------------------------------
\* Two emissions of one run are equivalent, whatever the convention, the order of
\* the spans and the framework-internal spans in between, adapted or not.
SameRunIsEquivalent == call # Idle /\ call.a = call.b => call.equivalent

Renames(a, b) == Bijection(DOMAIN a.op, DOMAIN b.op)

\* One run is another with its operations renumbered.
SameTree(a, b) ==
  /\ Len(a.op) = Len(b.op)
  /\ \E f \in Renames(a, b) : \A i \in DOMAIN a.op :
       /\ b.op[f[i]] = a.op[i]
       /\ b.parent[f[i]] = IF a.parent[i] = 0 THEN 0 ELSE f[a.parent[i]]

Caller(r, i) == IF r.parent[i] = 0 THEN Null ELSE r.op[r.parent[i]]

Calls(r, caller, callee) ==
  Cardinality({i \in DOMAIN r.op : Caller(r, i) = caller /\ r.op[i] = callee})

\* Equivalent runs make the same calls: as many of each operation by each,
\* whatever spans the instrumentors put in between.
EquivalentMakeTheSameCalls ==
  call # Idle /\ call.equivalent =>
    \A caller \in Operations \cup {Null}, callee \in Operations :
      Calls(call.a, caller, callee) = Calls(call.b, caller, callee)

\* "equal iff same set of operations + parentage": runs that are equivalent are
\* the same tree.
EquivalentIsSameTree == call # Idle /\ call.equivalent => SameTree(call.a, call.b)
=============================================================================
