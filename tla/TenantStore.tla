----------------------------- MODULE TenantStore -----------------------------
(***************************************************************************)
(* The tables of APL as requests of several tenants use them through one   *)
(* pool of connections.  A request is a transaction of withTenant, which   *)
(* sets app.current_tenant for itself, or one statement outside of any, as *)
(* the worker and the ingest server issue them.  Row-level security, the   *)
(* column default, foreign keys, unique keys and triggers are those of the *)
(* schema; which connection the pool hands out, what PostgreSQL leaves of  *)
(* a setting when its transaction ends and who waits for whom is how the   *)
(* libraries under the code behave.  The policies do not apply to every    *)
(* role: not to a superuser, as whom docker-compose.yml and .env.example   *)
(* connect.  Keys, defaults and triggers apply to all.                     *)
(***************************************************************************)
EXTENDS Naturals, FiniteSets

CONSTANTS
  Null,
  Tenants,
  DefaultTenant,
  Sessions,   \* the connections of the pool
  Unset,      \* app.current_tenant was never set on the connection
  Empty,      \* it was, by a transaction that is over: the empty string
  Committed,  \* stands for the transactions that are over
  Tables,     \* the tables the requests use
  Hashes,     \* the prompt hashes and config hashes there are
  MaxRows     \* bound on the rows ever inserted

VARIABLES
  rows,       \* rows[i]: the i-th row inserted, whatever its table
  setting,    \* setting[s]: app.current_tenant on connection s
  request,    \* request[s]: the request that has connection s, or had it last
  policed     \* whether the policies apply to the role the pool connects as

vars == <<rows, setting, request, policed>>

Ids == 1..MaxRows

-----------------------------------------------------------------------------
(* The schema.                                                             *)

AllTables ==
  {"agent", "prompt", "version", "eval_case", "eval_run", "cluster", "failure",
   "improvement", "representativeness_run", "retrieval_case", "judge",
   "review_capture", "span"}

ForeignKey(from, to, onDelete) == [from |-> from, to |-> to, onDelete |-> onDelete]

VersionKeys ==
  {ForeignKey("version", "agent", "cascade"), ForeignKey("version", "prompt", "restrict")}

EvalKeys ==
  {ForeignKey("eval_case", "agent", "cascade"), ForeignKey("eval_run", "agent", "cascade"),
   ForeignKey("eval_run", "version", "cascade")}

FailureKeys ==
  {ForeignKey("cluster", "agent", "cascade"), ForeignKey("failure", "cluster", "set null"),
   ForeignKey("failure", "version", "set null")}

ImprovementKeys == {ForeignKey("improvement", "agent", "cascade")}

RepresentativenessKeys == {ForeignKey("representativeness_run", "agent", "cascade")}

RetrievalCaseKeys == {ForeignKey("retrieval_case", "agent", "cascade")}

ForeignKeys ==
  VersionKeys \cup EvalKeys \cup FailureKeys \cup ImprovementKeys
    \cup RepresentativenessKeys \cup RetrievalCaseKeys

\* The tables a table refers to, by a column each.
References(table) == {k.to : k \in {fk \in ForeignKeys : fk.from = table}}

OnDelete(from, to) == (CHOOSE k \in ForeignKeys : k.from = from /\ k.to = to).onDelete

\* A column is nullable where its reference is set null on delete.
Nullable(from, to) == OnDelete(from, to) = "set null"

AppendOnly == {"version", "prompt"}

\* The hash is a column of these, unique for the tenant and, of a version, the agent.
Hashed == {"version", "prompt"}

ASSUME TenantAssumption ==
  /\ DefaultTenant \in Tenants /\ {Unset, Empty, Null} \cap Tenants = {} /\ Unset # Empty
  /\ {Committed, Null} \cap Sessions = {} /\ Null \notin Hashes /\ Null \notin Ids
  /\ Tables \subseteq AllTables /\ MaxRows \in Nat

RefsOf(table) == [References(table) -> Ids \cup {Null}]

Rows ==
  [state : {"unused", "live", "gone"}, table : Tables \cup {Null},
   tenant : Tenants \cup {Null}, ref : {<<>>} \cup UNION {RefsOf(t) : t \in Tables},
   hash : Hashes \cup {Null}, insertedBy : Sessions \cup {Committed},
   deletedBy : Sessions \cup {Null}]

Unused ==
  [state |-> "unused", table |-> Null, tenant |-> Null, ref |-> <<>>, hash |-> Null,
   insertedBy |-> Committed, deletedBy |-> Null]

\* A row that is deleted or was never committed.
Gone == [Unused EXCEPT !.state = "gone"]

Requests ==
  [pc : {"idle", "open", "aborted"}, tenant : Tenants, touched : SUBSET Tenants,
   stamped : SUBSET Tenants, error : {"none", "setting", "refused"}]

\* touched: the tenants, but its own, of rows it read or wrote; stamped: those, but
\* its own, that the column default gave to rows it inserted.
NewRequest(pc, tenant) ==
  [pc |-> pc, tenant |-> tenant, touched |-> {}, stamped |-> {}, error |-> "none"]

Init ==
  /\ rows = [i \in Ids |-> Unused]
  /\ setting = [s \in Sessions |-> Unset]
  /\ request = [s \in Sessions |-> NewRequest("idle", DefaultTenant)]
  /\ policed \in BOOLEAN

-----------------------------------------------------------------------------
(* What a statement on connection s sees and may do.                       *)

\* coalesce(current_setting('app.current_tenant', true), default): Empty is no uuid,
\* and the cast of it fails.
CurrentTenant(s) == IF setting[s] = Unset THEN DefaultTenant ELSE setting[s]

Exists(s, i) ==
  /\ rows[i].state = "live"
  /\ rows[i].insertedBy \in {Committed, s} /\ rows[i].deletedBy # s

\* The policy's USING.
Visible(s) ==
  {i \in Ids : Exists(s, i) /\ (policed => rows[i].tenant = CurrentTenant(s))}

TenantsOf(ids) == {rows[i].tenant : i \in ids}

InOtherHands(s, i) ==
  /\ rows[i].state = "live"
  /\ rows[i].insertedBy \notin {Committed, s} \/ rows[i].deletedBy \notin {Null, s}

ParentsOf(row) == {row.ref[t] : t \in DOMAIN row.ref} \ {Null}

SameKey(a, b) ==
  /\ a.table \in Hashed /\ a.table = b.table /\ a.tenant = b.tenant /\ a.hash = b.hash
  /\ a.table = "version" => a.ref["agent"] = b.ref["agent"]

\* The rows a statement on connection s may ask to insert.  A reference is the
\* id of any row of the right table, whoever's it is, or of one that is gone.  Only a
\* span may say what tenant it is of: the column default stamps the rows that do not.
Insertable(s) ==
  UNION {[state : {"live"}, table : {table},
          tenant : {CurrentTenant(s)} \cup (IF table = "span" THEN Tenants ELSE {}),
          ref : {ref \in RefsOf(table) : \A to \in References(table) :
                   IF ref[to] = Null THEN Nullable(table, to)
                   ELSE rows[ref[to]].table = to \/ rows[ref[to]] = Gone},
          hash : IF table \in Hashed THEN Hashes ELSE {Null},
          insertedBy : {s}, deletedBy : {Null}] : table \in Tables}

StampOf(row) == IF row.table = "span" THEN {} ELSE {row.tenant}

\* As if a foreign key did not lock the row it refers to.
WaitsForKeysOnly(s, row) ==
  \E i \in Ids : InOtherHands(s, i) /\ SameKey(rows[i], row)

\* A statement waits for the open transaction that has its key, or that deletes a row
\* it refers to; one that is not committed yet is not there to refer to.
InsertWaits(s, row) ==
  \E i \in Ids :
    /\ InOtherHands(s, i)
    /\ SameKey(rows[i], row) \/ (i \in ParentsOf(row) /\ Exists(s, i))

\* The column default, the policy's WITH CHECK, the unique keys and the foreign keys,
\* which look at the rows of every tenant.
InsertError(s, row) ==
  IF row.tenant = Empty \/ (setting[s] = Empty /\ policed) THEN "setting"
  ELSE IF \/ policed /\ row.tenant # CurrentTenant(s)
          \/ \E i \in Ids : Exists(s, i) /\ SameKey(rows[i], row)
          \/ \E i \in ParentsOf(row) : ~Exists(s, i)
  THEN "refused" ELSE "none"

RefersTo(i, j) == rows[i].state = "live" /\ j \in ParentsOf(rows[i])

Rule(i, j) == OnDelete(rows[i].table, rows[j].table)

\* A cascade is the foreign key's: no policy applies to it.
Cascade(s, ids) ==
  ids \cup {i \in Ids : Exists(s, i) /\ \E j \in ids : RefersTo(i, j) /\ Rule(i, j) = "cascade"}

\* What goes with row i: an agent takes its versions, and those their runs.
Doomed(s, i) == Cascade(s, Cascade(s, {i}))

DeleteWaits(s, ids) ==
  \E i \in Ids : InOtherHands(s, i) /\ (i \in ids \/ \E j \in ids : RefersTo(i, j))

Restricted(s, ids) ==
  \E i \in Ids, j \in ids : Exists(s, i) /\ RefersTo(i, j) /\ Rule(i, j) = "restrict"

-----------------------------------------------------------------------------
(* withTenant(db, tenant, fn) on connection s.                             *)

\* As if the setting were the connection's and not the transaction's.
TenantLeft(s) == setting[s]

\* PostgreSQL resets a setting made for a transaction to the empty string.
SettingLeft(s) == Empty

WithTenant(s, tenant) ==
  /\ request[s].pc = "idle"
  /\ request' = [request EXCEPT ![s] = NewRequest("open", tenant)]
  /\ setting' = [setting EXCEPT ![s] = tenant]
  /\ UNCHANGED <<rows, policed>>

Others(s, tenants) == tenants \ {request[s].tenant}

\* fn reads, or updates rows of tables that allow it.
Select(s) ==
  /\ request[s].pc = "open"
  /\ request' = [request EXCEPT ![s].touched = @ \cup Others(s, TenantsOf(Visible(s)))]
  /\ UNCHANGED <<rows, setting, policed>>

\* A failed statement aborts the transaction: it accepts no other.
Abort(s) ==
  request' = [request EXCEPT ![s].pc = "aborted", ![s].error = "refused"]

NextId == CHOOSE i \in Ids : rows[i] = Unused /\ \A j \in 1..(i - 1) : rows[j] # Unused

Insert(s) ==
  /\ request[s].pc = "open" /\ \E i \in Ids : rows[i] = Unused
  /\ \E row \in Insertable(s) :
       /\ ~InsertWaits(s, row)
       /\ IF InsertError(s, row) = "none"
          THEN /\ rows' = [rows EXCEPT ![NextId] = row]
               /\ request' = [request EXCEPT ![s].touched = @ \cup Others(s, {row.tenant}),
                                             ![s].stamped = @ \cup Others(s, StampOf(row))]
          ELSE Abort(s) /\ UNCHANGED rows
  /\ UNCHANGED <<setting, policed>>

\* The trigger of the append-only tables raises.
UpdateAppendOnly(s) ==
  /\ request[s].pc = "open"
  /\ \E i \in Visible(s) : rows[i].table \in AppendOnly
  /\ Abort(s) /\ UNCHANGED <<rows, setting, policed>>

Delete(s) ==
  /\ request[s].pc = "open"
  /\ \E i \in Visible(s) :
       /\ ~DeleteWaits(s, Doomed(s, i))
       /\ IF Restricted(s, Doomed(s, i))
          THEN Abort(s) /\ UNCHANGED rows
          ELSE /\ rows' = [j \in Ids |-> IF j \in Doomed(s, i)
                                         THEN [rows[j] EXCEPT !.deletedBy = s] ELSE rows[j]]
               /\ request' = [request EXCEPT ![s].touched = @ \cup Others(s, {rows[i].tenant})]
  /\ UNCHANGED <<setting, policed>>

EndRequest(s) ==
  /\ request' = [request EXCEPT ![s] = NewRequest("idle", DefaultTenant)]
  /\ setting' = [setting EXCEPT ![s] = SettingLeft(s)]
  /\ UNCHANGED policed

\* References to what goes are set null, those with another rule went with it.
CommitRows(s) ==
  [i \in Ids |->
     IF rows[i].deletedBy = s THEN Gone
     ELSE [rows[i] EXCEPT
             !.insertedBy = IF @ = s THEN Committed ELSE @,
             !.ref = [t \in DOMAIN @ |-> IF @[t] # Null /\ rows[@[t]].deletedBy = s
                                         THEN Null ELSE @[t]]]]

RollbackRows(s) ==
  [i \in Ids |-> IF rows[i].insertedBy = s THEN Gone
                 ELSE IF rows[i].deletedBy = s THEN [rows[i] EXCEPT !.deletedBy = Null]
                 ELSE rows[i]]

Commit(s) ==
  /\ request[s].pc = "open"
  /\ rows' = CommitRows(s) /\ EndRequest(s)

\* fn threw, on an error of the database or of its own.
Rollback(s) ==
  /\ request[s].pc \in {"open", "aborted"}
  /\ rows' = RollbackRows(s) /\ EndRequest(s)

-----------------------------------------------------------------------------
(* A statement outside of withTenant, in a transaction of its own.         *)

Answer(s, error, touched, stamped) ==
  request' = [request EXCEPT ![s] = [NewRequest("idle", DefaultTenant) EXCEPT
                                       !.error = error, !.touched = Others(s, touched),
                                       !.stamped = Others(s, stamped)]]

\* The policy is evaluated on every row there is to read.
PlainSelect(s) ==
  /\ request[s].pc = "idle"
  /\ IF setting[s] = Empty /\ policed /\ \E i \in Ids : Exists(s, i)
     THEN Answer(s, "setting", {}, {})
     ELSE Answer(s, "none", TenantsOf(Visible(s)), {})
  /\ UNCHANGED <<rows, setting, policed>>

PlainInsert(s) ==
  /\ request[s].pc = "idle" /\ \E i \in Ids : rows[i] = Unused
  /\ \E row \in Insertable(s) :
       /\ ~InsertWaits(s, row)
       /\ IF InsertError(s, row) = "none"
          THEN /\ rows' = [rows EXCEPT ![NextId] = [row EXCEPT !.insertedBy = Committed]]
               /\ Answer(s, "none", {row.tenant}, StampOf(row))
          ELSE Answer(s, InsertError(s, row), {}, {}) /\ UNCHANGED rows
  /\ UNCHANGED <<setting, policed>>

\* A connection breaks, or is idle for too long: the pool opens another.
Reconnect(s) ==
  /\ setting[s] # Unset
  /\ rows' = RollbackRows(s)
  /\ setting' = [setting EXCEPT ![s] = Unset]
  /\ request' = [request EXCEPT ![s] = NewRequest("idle", DefaultTenant)]
  /\ UNCHANGED policed

Next ==
  \E s \in Sessions :
    \/ \E tenant \in Tenants : WithTenant(s, tenant)
    \/ Select(s) \/ Insert(s) \/ UpdateAppendOnly(s) \/ Delete(s)
    \/ Commit(s) \/ Rollback(s)
    \/ PlainSelect(s) \/ PlainInsert(s) \/ Reconnect(s)

Spec == Init /\ [][Next]_vars

-----------------------------------------------------------------------------
TypeOK ==
  /\ rows \in [Ids -> Rows]
  /\ setting \in [Sessions -> Tenants \cup {Unset, Empty}]
  /\ request \in [Sessions -> Requests]
  /\ policed \in BOOLEAN

\* Whatever requests its connection served before, and in whatever role, the rows a
\* request inserts without a tenant are stamped with its own, the default one outside of
\* withTenant.  Where the policies apply it reads, inserts and names for deletion rows of
\* that tenant only; what a foreign key takes along is not the request's to see.
Isolated ==
  /\ \A s \in Sessions : request[s].stamped = {}
  /\ policed => \A s \in Sessions : request[s].touched = {}

\* What a row refers to is there and is as durable as the row, whoever's rows they are:
\* transactions that insert and delete at once leave nothing that dangles.
ReferencesResolve ==
  \A i \in Ids : rows[i].state = "live" =>
    \A p \in ParentsOf(rows[i]) :
      /\ rows[p].state = "live"
      /\ rows[p].insertedBy \in {Committed, rows[i].insertedBy}
      /\ rows[p].deletedBy \in {Null, rows[i].deletedBy} \/ Rule(i, p) = "set null"

\* "Falling back to the default tenant when it is unset ... and single-tenant just
\* works": a statement outside of withTenant never fails for want of a tenant.
UnsetIsTheDefault == \A s \in Sessions : request[s].error # "setting"

\* "Enforce isolation on every read AND write", in the deployment that ships: a request
\* reads and writes rows of its tenant only, as a superuser too.
IsolatedInAnyRole == \A s \in Sessions : request[s].touched = {}

\* The same of what ON DELETE takes along, where the policies apply: what a request
\* deletes is of its tenant.
CascadesStayInTenant ==
  policed => \A s \in Sessions, i \in Ids :
    rows[i].deletedBy = s => rows[i].tenant = request[s].tenant

\* The same of references: a row and what it refers to are of one tenant.
ReferencesStayInTenant ==
  policed => \A i \in Ids : rows[i].state = "live" =>
    \A p \in ParentsOf(rows[i]) : rows[p].tenant = rows[i].tenant

\* "append-only (DB-enforced)": a committed version or prompt stays.
HistoryStays ==
  [][\A i \in Ids :
       rows[i].state = "live" /\ rows[i].insertedBy = Committed /\ rows[i].table \in AppendOnly
         => rows'[i].state = "live"]_vars
=============================================================================
