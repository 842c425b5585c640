------------------------------- MODULE Ingest -------------------------------
(***************************************************************************)
(* The ingest server between the exporter of a Collector and the apl_span  *)
(* table.  The exporter posts a batch and waits for the status; a lost     *)
(* connection or a client timeout makes it post the batch again while the  *)
(* handler of the earlier attempt may still be writing.  The handler maps  *)
(* one group of the body after the other and inserts its rows in one       *)
(* statement each, with no transaction around the groups.                  *)
(***************************************************************************)
EXTENDS TraceMapper

CONSTANTS
  Batches,
  Body,         \* Body[b]: what the exporter posts for batch b
  Queues,       \* the sets of batches the exporter may have to post
  RlsBinds,     \* the server's database role is subject to row-level security
  MaxRows,      \* rows of one INSERT before its parameters exceed the protocol's
  MaxAttempts,  \* how often the exporter posts a batch
  MaxFaults     \* bound on crashes and lost database connections

ASSUME IngestAssumption ==
  /\ MaxRows \in Nat /\ MaxAttempts \in Nat \ {0} /\ MaxFaults \in Nat /\ Null \notin Nat
  /\ RlsBinds \in BOOLEAN /\ Queues \subseteq SUBSET Batches
  /\ \A b \in Batches : LET groups == Body[b].groups IN
       /\ groups \in Seq(Range(groups))
       /\ \A k \in DOMAIN groups : groups[k].spans \in Seq(Range(groups[k].spans))

VARIABLES
  store,     \* the rows of apl_span
  exporter,  \* exporter[b]: "queued", "waiting", "acked" or "dropped"; "none" if it has no b
  attempt,   \* attempt[b]: how often b was posted
  handler,   \* handler[b][n]: the server's side of the n-th attempt
  faults

vars == <<store, exporter, attempt, handler, faults>>

Attempts == 1..MaxAttempts

Payloads == [b \in Batches |-> OtlpJsonToTraces(Body[b])]

\* The rows of payload k of batch b.
Rows == [b \in Batches |-> [k \in DOMAIN Payloads[b] |-> IngestOtlp(Payloads[b][k])]]

NotArrived == [pc |-> "none", group |-> 0, insert |-> "none", reply |-> Null]

Handlers ==
  [pc : {"none", "arriving", "writing", "replied", "gone"}, group : Nat,
   insert : {"none", "sent", "stored", "rejected"}, reply : {Null, 200, 401, 413, 500}]

Init ==
  /\ store = {}
  /\ exporter \in {[b \in Batches |-> IF b \in queue THEN "queued" ELSE "none"] : queue \in Queues}
  /\ attempt = [b \in Batches |-> 0]
  /\ handler = [b \in Batches |-> [n \in Attempts |-> NotArrived]]
  /\ faults = 0

-----------------------------------------------------------------------------
(* The exporter.                                                           *)

Post(b) ==
  /\ exporter[b] = "queued"
  /\ attempt' = [attempt EXCEPT ![b] = @ + 1]
  /\ exporter' = [exporter EXCEPT ![b] = "waiting"]
  /\ handler' = [handler EXCEPT ![b][attempt[b] + 1].pc = "arriving"]
  /\ UNCHANGED <<store, faults>>

\* A batch is not retried on a status of the server, 500 among them.
ReceiveReply(b) ==
  LET h == handler[b][attempt[b]] IN
  /\ exporter[b] = "waiting" /\ h.pc = "replied"
  /\ exporter' = [exporter EXCEPT ![b] = IF h.reply = 200 THEN "acked" ELSE "dropped"]
  /\ handler' = [handler EXCEPT ![b][attempt[b]].pc = "gone"]
  /\ UNCHANGED <<store, attempt, faults>>

\* As if the retries were not counted.
PostAgainForever(b) == exporter' = [exporter EXCEPT ![b] = "queued"]

PostAgain(b) ==
  exporter' = [exporter EXCEPT ![b] = IF attempt[b] < MaxAttempts THEN "queued" ELSE "dropped"]

\* The connection closes with the process that served it.
ConnectionReset(b) ==
  /\ exporter[b] = "waiting" /\ handler[b][attempt[b]].pc = "gone"
  /\ PostAgain(b)
  /\ UNCHANGED <<store, attempt, handler, faults>>

\* The exporter gives up on an attempt; its handler goes on.
ClientTimeout(b) ==
  /\ exporter[b] = "waiting"
  /\ PostAgain(b)
  /\ UNCHANGED <<store, attempt, handler, faults>>

-----------------------------------------------------------------------------
(* The handler of POST /v1/traces.                                         *)

Reply(b, n, status) ==
  handler' = [handler EXCEPT ![b][n].pc = "replied", ![b][n].reply = status]

\* As if the reply went out with the last group still to be written.
WriteGroupOneShort(b, n, k) ==
  IF k < Len(Payloads[b])
  THEN handler' = [handler EXCEPT ![b][n].pc = "writing", ![b][n].group = k,
                                  ![b][n].insert = "sent"]
  ELSE Reply(b, n, 200)

\* The loop over the payloads, at payload k: its INSERT is sent and awaited.
WriteGroup(b, n, k) ==
  IF k <= Len(Payloads[b])
  THEN handler' = [handler EXCEPT ![b][n].pc = "writing", ![b][n].group = k,
                                  ![b][n].insert = "sent"]
  ELSE Reply(b, n, 200)

Admit(b, n) ==
  /\ handler[b][n].pc = "arriving"
  /\ \/ ~Body[b].authorized /\ Reply(b, n, 401)
     \/ Body[b].authorized /\ Body[b].tooLarge /\ Reply(b, n, 413)
     \/ Body[b].authorized /\ ~Body[b].tooLarge /\ WriteGroup(b, n, 1)
  /\ UNCHANGED <<store, exporter, attempt, faults>>

\* As if the loop caught the error of a write and went on.
GroupWrittenAnyway(b, n) ==
  /\ handler[b][n].pc = "writing" /\ handler[b][n].insert \in {"stored", "rejected"}
  /\ WriteGroup(b, n, handler[b][n].group + 1)
  /\ UNCHANGED <<store, exporter, attempt, faults>>

GroupWritten(b, n) ==
  /\ handler[b][n].pc = "writing" /\ handler[b][n].insert = "stored"
  /\ WriteGroup(b, n, handler[b][n].group + 1)
  /\ UNCHANGED <<store, exporter, attempt, faults>>

\* As if the error of a write were lost and the request left open.
WriteFailsUnanswered(b, n) ==
  /\ handler[b][n].pc = "writing" /\ handler[b][n].insert = "rejected"
  /\ handler' = [handler EXCEPT ![b][n].insert = "none"]
  /\ UNCHANGED <<store, exporter, attempt, faults>>

\* As if the handler answered 200 in a finally.
WriteFailsAcked(b, n) ==
  /\ handler[b][n].pc = "writing" /\ handler[b][n].insert = "rejected"
  /\ Reply(b, n, 200)
  /\ UNCHANGED <<store, exporter, attempt, faults>>

\* The write throws out of the handler: the server answers 500.
WriteFails(b, n) ==
  /\ handler[b][n].pc = "writing" /\ handler[b][n].insert = "rejected"
  /\ Reply(b, n, 500)
  /\ UNCHANGED <<store, exporter, attempt, faults>>

-----------------------------------------------------------------------------
(* The database: an INSERT is one statement, it stores all its rows or     *)
(* none.                                                                   *)

Key(row) == <<row.start, row.span>>

\* The primary key, the row-level security policy with no app.current_tenant
\* set, and the number of bind parameters of a statement.
Accepts(rows) ==
  /\ Len(rows) <= MaxRows
  /\ RlsBinds => \A i \in DOMAIN rows : rows[i].tenant = DefaultTenant
  /\ \A i, j \in DOMAIN rows : Key(rows[i]) = Key(rows[j]) => i = j
  /\ \A i \in DOMAIN rows, row \in store : Key(rows[i]) # Key(row)

\* Also for a handler that is gone: a statement is not taken back.
ExecInsert(b, n) ==
  /\ handler[b][n].insert = "sent"
  /\ LET rows == Rows[b][handler[b][n].group] IN
       IF Accepts(rows)
       THEN /\ store' = store \cup Range(rows)
            /\ handler' = [handler EXCEPT ![b][n].insert = "stored"]
       ELSE /\ handler' = [handler EXCEPT ![b][n].insert = "rejected"]
            /\ UNCHANGED store
  /\ UNCHANGED <<exporter, attempt, faults>>

\* A statement in flight may be lost with its connection.
LoseInsert(b, n) ==
  /\ handler[b][n].insert = "sent" /\ handler[b][n].pc \in {"replied", "gone"}
  /\ handler' = [handler EXCEPT ![b][n].insert = "none"]
  /\ UNCHANGED <<store, exporter, attempt, faults>>

\* The awaited INSERT fails with its connection, whatever became of it.
DatabaseConnectionBreaks(b, n) ==
  /\ handler[b][n].pc = "writing" /\ faults < MaxFaults
  /\ faults' = faults + 1
  /\ Reply(b, n, 500)
  /\ UNCHANGED <<store, exporter, attempt>>

\* The process dies and is restarted: no attempt it was serving is answered.
Crash ==
  /\ faults < MaxFaults
  /\ \E b \in Batches, n \in Attempts :
       handler[b][n].pc \in {"arriving", "writing", "replied"}
  /\ faults' = faults + 1
  /\ handler' = [b \in Batches |-> [n \in Attempts |->
                   IF handler[b][n].pc = "none" THEN handler[b][n]
                   ELSE [handler[b][n] EXCEPT !.pc = "gone"]]]
  /\ UNCHANGED <<store, exporter, attempt>>

-----------------------------------------------------------------------------
Done ==
  /\ \A b \in Batches : exporter[b] \in {"none", "acked", "dropped"}
  /\ \A b \in Batches, n \in Attempts :
       handler[b][n].pc \in {"none", "replied", "gone"} /\ handler[b][n].insert # "sent"
  /\ UNCHANGED vars

Serve(b, n) ==
  \/ Admit(b, n) \/ GroupWritten(b, n) \/ WriteFails(b, n)

Next ==
  \/ \E b \in Batches : Post(b) \/ ReceiveReply(b) \/ ConnectionReset(b) \/ ClientTimeout(b)
  \/ \E b \in Batches, n \in Attempts :
       \/ Serve(b, n) \/ ExecInsert(b, n) \/ LoseInsert(b, n)
       \/ DatabaseConnectionBreaks(b, n)
  \/ Crash
  \/ Done

\* The exporter, the event loop of the server and the database keep going.
Fairness ==
  /\ \A b \in Batches : WF_vars(Post(b) \/ ReceiveReply(b) \/ ConnectionReset(b))
  /\ \A b \in Batches, n \in Attempts : WF_vars(Serve(b, n)) /\ WF_vars(ExecInsert(b, n))

Spec == Init /\ [][Next]_vars

FairSpec == Spec /\ Fairness

-----------------------------------------------------------------------------
AllRows == UNION {UNION {Range(Rows[b][k]) : k \in DOMAIN Rows[b]} : b \in Batches}

TypeOK ==
  /\ store \subseteq AllRows
  /\ exporter \in [Batches -> {"none", "queued", "waiting", "acked", "dropped"}]
  /\ attempt \in [Batches -> 0..MaxAttempts]
  /\ handler \in [Batches -> [Attempts -> Handlers]]
  /\ faults \in 0..MaxFaults

\* A row of the store is that of a span.
IsRowOf(row, span) ==
  row.span = span.id /\ row.parent = span.parent /\ row.start = span.start

\* An acknowledged batch is stored: every span the exporter posted that has an
\* id, a name and a trace id has its row (handler.ts loops over all payloads and
\* answers 200 after the last write).
AckedStored ==
  \A b \in Batches : exporter[b] = "acked" =>
    \A k \in DOMAIN Body[b].groups : \A i \in DOMAIN Body[b].groups[k].spans :
      LET span == Body[b].groups[k].spans[i] IN
      span.wellFormed => \E row \in store : IsRowOf(row, span)

\* Claim(row, span, spans) holds of every row in the store, span its span and
\* spans those of its payload.
OfEveryRow(Claim(_, _, _)) ==
  \A b \in Batches : \A k \in DOMAIN Payloads[b] :
    LET spans == Payloads[b][k].spans IN
    \A i \in DOMAIN spans, row \in store :
      IsRowOf(row, spans[i]) => Claim(row, spans[i], spans)

\* A stored span is attributed to the agent its trace is rooted in ("identity
\* lives on the root"), whatever the convention and the order of the spans.
Attributed ==
  OfEveryRow(LAMBDA row, span, spans :
    \A i \in DOMAIN spans :
      spans[i].trace = span.trace /\ spans[i].parent = Null
        => row.agent = AgentOf(spans[i].attributes))

\* A stored span is filed under its own trace ("traceId lives on the OTLP span").
TraceKept == OfEveryRow(LAMBDA row, span, spans : row.trace = span.trace)

KeptGroups(b) == {k \in DOMAIN Payloads[b] : Range(Rows[b][k]) \subseteq store}

\* The endpoint keeps groups whole and in order, and acknowledges what is kept.
Promise ==
  INSTANCE IngestPromise WITH
    Groups  <- [b \in Batches |-> Len(Payloads[b])],
    kept    <- [b \in Batches |-> KeptGroups(b)],
    outcome <- [b \in Batches |->
                  IF exporter[b] \in {"acked", "dropped"} THEN exporter[b] ELSE "open"]

ImplementsPromise == Promise!Spec

\* The batches of which the server refuses nothing for what they are.
Servable ==
  {b \in Batches :
     /\ Body[b].authorized /\ ~Body[b].tooLarge
     /\ \A k \in DOMAIN Payloads[b] :
          /\ Len(Rows[b][k]) <= MaxRows
          /\ RlsBinds => \A i \in DOMAIN Rows[b][k] : Rows[b][k][i].tenant = DefaultTenant
          /\ \A i \in DOMAIN Rows[b][k], c \in Batches : \A l \in DOMAIN Payloads[c] :
               \A j \in DOMAIN Rows[c][l] :
                 Key(Rows[b][k][i]) = Key(Rows[c][l][j]) => <<b, k, i>> = <<c, l, j>>}

\* Only a crash or a lost database connection loses spans: a client that times
\* out and posts a batch again, while the handler of its earlier attempt still
\* writes it, does not, though it may be told an error (the attempts collide on
\* the primary key, and the one that stored the first group goes on).
TimeoutsLoseNothing ==
  [](faults = 0) =>
    <>[](\A b \in Servable : exporter[b] # "none" => KeptGroups(b) = DOMAIN Payloads[b])

\* Every batch is answered or given up; the exporter is never left waiting.
EveryBatchResolves ==
  <>(\A b \in Batches : exporter[b] \in {"none", "acked", "dropped"})
=============================================================================
