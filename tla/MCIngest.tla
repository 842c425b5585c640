------------------------------ MODULE MCIngest ------------------------------
(***************************************************************************)
(* Instances of Ingest for TLC.                                            *)
(***************************************************************************)
EXTENDS Ingest

CONSTANTS b1, b2, b3, b4, b5

MCOne == {{b1}}

Span(trace, id, parent, start, attributes) ==
  [trace |-> trace, id |-> id, parent |-> parent, start |-> start,
   wellFormed |-> TRUE, attributes |-> attributes]

Malformed(trace, id) == [Span(trace, id, Null, 0, <<>>) EXCEPT !.wellFormed = FALSE]

Group(tenant, spans) ==
  [resource |-> IF tenant = Null THEN <<>> ELSE ("apl.tenant_id" :> tenant), spans |-> spans]

Posted(groups) ==
  [isJson |-> TRUE, authorized |-> TRUE, tooLarge |-> FALSE, groups |-> groups]

Kind(kind) == OI_KIND :> kind
Op(op) == OPERATION_NAME :> op

\* A trace of one agent that calls a model; spans end children first.
OpenInferenceTrace(trace, start) ==
  <<Span(trace, "chat", "root", start + 1, Kind("LLM")),
    Span(trace, "root", Null, start, Kind("AGENT") @@ ("gen_ai.agent.id" :> "researcher"))>>

GenAITrace(trace, start) ==
  <<Span(trace, "tool", "agent", start + 1, Op("execute_tool")),
    Malformed(trace, "broken"),
    Span(trace, "agent", Null, start,
         Op("invoke_agent") @@ ("gen_ai.agent.id" :> "other") @@ ("apl.agent_id" :> "writer"))>>

TwoGroups == Posted(<<Group(Null, OpenInferenceTrace("t1", 10)),
                     Group(DefaultTenant, GenAITrace("t2", 20))>>)

\* The second group is another tenant's.
ForeignTenant == Posted(<<Group(Null, OpenInferenceTrace("t3", 30)),
                         Group("acme", GenAITrace("t4", 40))>>)

Refused(trace, start) == Posted(<<Group(Null, OpenInferenceTrace(trace, start))>>)

\* A trace of more spans than one INSERT takes.
Oversized == Posted(<<Group(Null,
  <<Span("t6", "search", "root", 62, Kind("TOOL")), Span("t6", "read", "root", 63, Kind("TOOL"))>>
    \o OpenInferenceTrace("t6", 60))>>)

MCBodies ==
  (b1 :> TwoGroups) @@ (b2 :> ForeignTenant)
    @@ (b3 :> [Refused("t5", 50) EXCEPT !.authorized = FALSE])
    @@ (b4 :> [Refused("t7", 70) EXCEPT !.tooLarge = TRUE])
    @@ (b5 :> Oversized)

\* A batch the server can serve and one it keeps in part; each of three it refuses whole.
MCQueues == {{b1, b2}, {b3}, {b4}, {b5}}

\* An agent that delegates to another one.
MCNested == (b1 :> Posted(<<Group(Null,
  <<Span("t1", "sub", "root", 11, Op("invoke_agent") @@ ("apl.agent_id" :> "writer")),
    Span("t1", "root", Null, 10, Op("invoke_agent") @@ ("apl.agent_id" :> "lead"))>>)>>))

\* A batch in the default encoding of the Collector's otlphttp exporter.
Protobuf == [TwoGroups EXCEPT !.isJson = FALSE]

\* Two traces of one service, exported together.
Merged == Posted(<<Group(Null, OpenInferenceTrace("t1", 10)
                                \o <<Span("t2", "root2", Null, 20, Kind("AGENT"))>>)>>)

MCClaims == (b1 :> Protobuf) @@ (b2 :> Merged)

MCEither == {{b1}, {b2}}
=============================================================================
