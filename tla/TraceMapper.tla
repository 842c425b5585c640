----------------------------- MODULE TraceMapper -----------------------------
(***************************************************************************)
(* The pure half of the ingest pipeline: from one resourceSpans group of   *)
(* an OTLP/JSON body to the rows of apl_span it becomes.                   *)
(***************************************************************************)
EXTENDS Normalize, FiniteSets

DefaultTenant == "default tenant"

\* The elements of seq at the places chosen, in their order: what a loop pushes.
Pushed(seq, chosen) ==
  LET pushed[n \in 0..Len(seq)] ==
        IF n = 0 THEN <<>>
        ELSE IF n \in chosen THEN Append(pushed[n - 1], seq[n]) ELSE pushed[n - 1]
  IN pushed[Len(seq)]

\* Without the spans that lack an id, a name or a trace id.
Decoded(spans) == Pushed(spans, {i \in DOMAIN spans : spans[i].wellFormed})

\* What otlpJsonToTraces makes of a body: one payload per resourceSpans group,
\* without the groups that have no span left.  A body that is not JSON has no groups.
OtlpJsonToTraces(body) ==
  IF ~body.isJson THEN <<>>
  ELSE LET decoded == [k \in DOMAIN body.groups |->
                         [resource |-> body.groups[k].resource,
                          spans    |-> Decoded(body.groups[k].spans)]]
       IN Pushed(decoded, {k \in DOMAIN decoded : decoded[k].spans # <<>>})

\* The start of a span, looked up by its id: the last one of that id.
TimingOf(spans, id) == spans[SelectLastInSeq(spans, LAMBDA s : s.id = id)].start

\* The identity an invoke_agent span carries; apl.* overrides the GenAI standard.
AgentOf(attributes) ==
  IF "apl.agent_id" \in DOMAIN attributes
  THEN attributes["apl.agent_id"]
  ELSE Attr(attributes, "gen_ai.agent.id")

\* As if the agent were looked for on the first span only.
AgentOfFirstSpan(normalized) ==
  IF normalized[1].operation = "invoke_agent"
  THEN AgentOf(normalized[1].attributes) ELSE Null

AgentOfTrace(normalized) ==
  LET first == SelectInSeq(normalized, LAMBDA s : s.operation = "invoke_agent")
  IN IF first = 0 THEN Null ELSE AgentOf(normalized[first].attributes)

SpansToRows(resource, normalized, traceId, spans) ==
  LET tenant == Attr(resource, "apl.tenant_id")
      agent  == AgentOfTrace(normalized)
  IN [i \in DOMAIN normalized |->
        [tenant |-> IF tenant = Null THEN DefaultTenant ELSE tenant,
         trace |-> traceId, span |-> normalized[i].id, parent |-> normalized[i].parent,
         operation |-> normalized[i].operation, agent |-> agent,
         start |-> TimingOf(spans, normalized[i].id)]]

\* What ingestOtlp hands to the writer for one payload.  The trace id is the
\* first span's.
IngestOtlp(payload) ==
  SpansToRows(payload.resource, NormalizeByConvention(payload.spans),
              payload.spans[1].trace, payload.spans)
=============================================================================
