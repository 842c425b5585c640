------------------------------ MODULE Normalize ------------------------------
(***************************************************************************)
(* The normalization layer: the two conventions APL ingests, OTel GenAI    *)
(* semconv and OpenInference, mapped into one model, and the equivalence   *)
(* of two traces defined on that model.                                    *)
(*                                                                         *)
(* A span is [id, parent, trace, start, attributes]; its attributes are a  *)
(* function whose domain is the set of keys the span carries.              *)
(***************************************************************************)
EXTENDS Naturals, Sequences, SequencesExt, Bags, TLC

CONSTANT Null  \* null: no parent, no operation, no attribute

Operations == {"invoke_agent", "chat", "execute_tool"}

ASSUME NormalizeAssumption == Null \notin Operations

OI_KIND == "openinference.span.kind"
OPERATION_NAME == "gen_ai.operation.name"

AplKeys == {"apl.agent_id", "apl.agent_version", "apl.outcome"}
AgentIdentityKeys == {"gen_ai.agent.id", "gen_ai.agent.name", "gen_ai.agent.version"}

MandatoryResourceAttrs == {"apl.tenant_id", "apl.product_id"}

MandatorySpanAttrs ==
  [invoke_agent |-> {OPERATION_NAME, "apl.agent_id", "apl.agent_version"},
   chat         |-> {OPERATION_NAME, "gen_ai.request.model"},
   execute_tool |-> {OPERATION_NAME, "gen_ai.tool.name"}]

Attr(attributes, key) ==
  IF key \in DOMAIN attributes THEN attributes[key] ELSE Null

Normalized(span, operation, attributes) ==
  [id |-> span.id, parent |-> span.parent, operation |-> operation,
   attributes |-> attributes]

-----------------------------------------------------------------------------
\* gen_ai.* spans are canonical already: only the operation is classified.
NormalizeGenAISpan(span) ==
  LET op == Attr(span.attributes, OPERATION_NAME) IN
  Normalized(span, IF op \in Operations THEN op ELSE Null, span.attributes)

\* A bug a maintainer could introduce: a CHAIN is an agent wherever it is.
AnyChainIsAgent(kind, isRoot) ==
  CASE kind \in {"AGENT", "CHAIN"} -> "invoke_agent"
    [] kind = "LLM"  -> "chat"
    [] kind = "TOOL" -> "execute_tool"
    [] OTHER -> Null

OperationForKind(kind, isRoot) ==
  CASE kind = "AGENT" \/ (kind = "CHAIN" /\ isRoot) -> "invoke_agent"
    [] kind = "LLM"  -> "chat"
    [] kind = "TOOL" -> "execute_tool"
    [] OTHER -> Null

\* The OpenInference key a canonical key is read from, per operation.
RenamedKeys(operation) ==
  CASE operation = "chat" ->
         [k \in {"gen_ai.request.model", "gen_ai.provider.name"} |->
            IF k = "gen_ai.request.model" THEN "llm.model_name" ELSE "llm.provider"]
    [] operation = "execute_tool" ->
         [k \in {"gen_ai.tool.name"} |-> "tool.name"]
    [] OTHER -> <<>>

CopyPassthrough(attributes) ==
  Restrict(attributes, DOMAIN attributes \cap (AplKeys \cup AgentIdentityKeys))

NormalizeOpenInferenceSpan(span) ==
  LET operation == OperationForKind(Attr(span.attributes, OI_KIND), span.parent = Null)
      renamed   == RenamedKeys(operation)
      copied    == CopyPassthrough(span.attributes)
      present   == {k \in DOMAIN renamed : renamed[k] \in DOMAIN span.attributes}
      named     == IF operation = Null THEN {} ELSE {OPERATION_NAME}
  IN Normalized(span, operation,
       [k \in present \cup named \cup DOMAIN copied |->
          IF k \in present THEN span.attributes[renamed[k]]
          ELSE IF k \in named THEN operation ELSE copied[k]])

MapSeq(Op(_), seq) == [i \in DOMAIN seq |-> Op(seq[i])]

NormalizeGenAI(spans) == MapSeq(NormalizeGenAISpan, spans)

NormalizeOpenInference(spans) == MapSeq(NormalizeOpenInferenceSpan, spans)

\* One OpenInference span makes the whole payload OpenInference.
NormalizeByConvention(spans) ==
  IF \E i \in DOMAIN spans : OI_KIND \in DOMAIN spans[i].attributes
  THEN NormalizeOpenInference(spans)
  ELSE NormalizeGenAI(spans)

-----------------------------------------------------------------------------
\* Where the span with an id is in the trace, 0 if it is not: the last one that has it.
ById(spans, id) == SelectLastInSeq(spans, LAMBDA s : s.id = id)

\* The canonical operations above a span, root first.  A parent that is not in
\* the trace ends the walk, and n bounds the steps: on a cycle of parents the
\* code's loop does not end.
CanonicalParentPath(span, spans) ==
  LET above[n \in 0..Len(spans)] ==
        [id \in {Null} \cup {spans[i].parent : i \in DOMAIN spans} |->
           IF n = 0 \/ id = Null \/ ById(spans, id) = 0 THEN <<>>
           ELSE LET parent == spans[ById(spans, id)]
                    rest   == above[n - 1][parent.parent]
                IN IF parent.operation = Null THEN rest ELSE Append(rest, parent.operation)]
  IN above[Len(spans)][span.parent]

CanonicalSpans(spans) == {i \in DOMAIN spans : spans[i].operation # Null}

\* As if the operations were compared without what they are nested in.
ShapeOfOperations(spans) ==
  ToBag([i \in CanonicalSpans(spans) |-> <<spans[i].operation, <<>>>>])

\* Sorted strings with repetitions, compared for equality: a bag.
CanonicalShape(spans) ==
  ToBag([i \in CanonicalSpans(spans) |->
           <<spans[i].operation, CanonicalParentPath(spans[i], spans)>>])

ValidateTrace(resource, spans) ==
  /\ MandatoryResourceAttrs \subseteq DOMAIN resource
  /\ \A i \in DOMAIN spans :
       spans[i].operation # Null =>
         MandatorySpanAttrs[spans[i].operation] \subseteq DOMAIN spans[i].attributes

CanonicalEquivalent(resourceA, a, resourceB, b) ==
  /\ ValidateTrace(resourceA, a)
  /\ ValidateTrace(resourceB, b)
  /\ CanonicalShape(a) = CanonicalShape(b)
=============================================================================
