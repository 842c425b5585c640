-------------------------- MODULE TenantStoreProofs --------------------------
(***************************************************************************)
(* Tenants are apart and references resolve: what the runs check of        *)
(* TenantStore on two connections and three rows, proved for any tenants,  *)
(* connections, tables, hashes and number of rows.                         *)
(***************************************************************************)
EXTENDS TenantStore, DataLemmas

-----------------------------------------------------------------------------
(* The foreign keys of the schema.                                         *)

\* What all of them have in common: of what deletes along, and how deep.
KeyShape(from, to, rule) ==
  /\ to \in {"agent", "prompt", "version", "cluster"}
  /\ from \notin {"agent", "prompt", "span"}
  /\ to = "prompt" => rule = "restrict"
  /\ to # "prompt" => rule = IF from = "failure" THEN "set null" ELSE "cascade"
  /\ to = "version" => from \in {"eval_run", "failure"}
  /\ to = "cluster" => from = "failure"

KeyOK(k) ==
  k = ForeignKey(k.from, k.to, k.onDelete) /\ KeyShape(k.from, k.to, k.onDelete)

\* A key made with such a shape has it.
LEMMA ShapedKeyIsOK ==
  ASSUME NEW from, NEW to, NEW rule, KeyShape(from, to, rule)
  PROVE  KeyOK(ForeignKey(from, to, rule))
<1> DEFINE k == ForeignKey(from, to, rule)
<1>1. k.from = from /\ k.to = to /\ k.onDelete = rule
  BY DEF ForeignKey
<1> QED
  BY <1>1 DEF KeyOK

\* Every foreign key of the schema has the shape.
LEMMA KeysAreOK == \A k \in ForeignKeys : KeyOK(k)
<1>1. \A k \in VersionKeys : KeyOK(k)
  BY ShapedKeyIsOK DEF VersionKeys, KeyShape
<1>2. \A k \in EvalKeys : KeyOK(k)
  BY ShapedKeyIsOK DEF EvalKeys, KeyShape
<1>3. \A k \in FailureKeys : KeyOK(k)
  BY ShapedKeyIsOK DEF FailureKeys, KeyShape
<1>4. \A k \in ImprovementKeys \cup RepresentativenessKeys \cup RetrievalCaseKeys : KeyOK(k)
  BY ShapedKeyIsOK DEF ImprovementKeys, RepresentativenessKeys, RetrievalCaseKeys, KeyShape
<1> QED
  BY <1>1, <1>2, <1>3, <1>4 DEF ForeignKeys

\* The rule of a column is that of its key: no table refers to another by two.
LEMMA ReferenceShape ==
  ASSUME NEW from, NEW to \in References(from)
  PROVE  KeyShape(from, to, OnDelete(from, to))
<1>1. PICK k \in ForeignKeys : k.from = from /\ k.to = to
  BY DEF References
<1>2. \A l \in ForeignKeys : l.from = from /\ l.to = to => l.onDelete = k.onDelete
  <2>1. TAKE l \in ForeignKeys
  <2>2. HAVE l.from = from /\ l.to = to
  <2>3. KeyShape(from, to, k.onDelete) /\ KeyShape(from, to, l.onDelete)
    BY <1>1, <2>2, KeysAreOK DEF KeyOK
  <2> QED
    BY <2>3 DEF KeyShape
<1>3. OnDelete(from, to) = k.onDelete
  BY <1>1, <1>2 DEF OnDelete
<1> QED
  BY <1>1, <1>3, KeysAreOK DEF KeyOK

-----------------------------------------------------------------------------
(* The invariant.                                                          *)

\* A row that is not live is in nobody's hands and refers to nothing.
RowOK(row) ==
  /\ row \in Rows
  /\ row.state = "live" =>
       row.table \in Tables /\ row.tenant \in Tenants /\ row.ref \in RefsOf(row.table)
  /\ row.state # "live" =>
       row.ref = <<>> /\ row.insertedBy = Committed /\ row.deletedBy = Null

RowsOK == rows \in [Ids -> Rows] /\ \A i \in Ids : RowOK(rows[i])

\* The setting of a connection is the tenant of the transaction on it, or no tenant.
RequestOK(s) ==
  /\ request[s] \in Requests
  /\ request[s].pc = "idle" => setting[s] \in {Unset, Empty} /\ request[s].tenant = DefaultTenant
  /\ request[s].pc # "idle" => setting[s] = request[s].tenant
  /\ request[s].stamped = {}
  /\ policed => request[s].touched = {}

RequestsOK ==
  /\ request \in [Sessions -> Requests]
  /\ setting \in [Sessions -> Tenants \cup {Unset, Empty}]
  /\ \A s \in Sessions : RequestOK(s)

\* Whoever has a row in hands is a transaction.
OwnersOK ==
  \A s \in Sessions, i \in Ids :
    s \in {rows[i].insertedBy, rows[i].deletedBy} => request[s].pc # "idle"

\* Row i's reference by column t, when there is one.
ReferenceOK(i, t) ==
  LET p == rows[i].ref[t] IN
  p # Null =>
    /\ rows[p].state = "live" /\ rows[p].table = t
    /\ rows[p].insertedBy \in {Committed, rows[i].insertedBy}
    /\ rows[p].deletedBy \in {Null, rows[i].deletedBy} \/ OnDelete(rows[i].table, t) = "set null"

ReferencesOK ==
  \A i \in Ids : rows[i].state = "live" => \A t \in References(rows[i].table) : ReferenceOK(i, t)

TenantInv == policed \in BOOLEAN /\ RowsOK /\ RequestsOK /\ OwnersOK /\ ReferencesOK

\* The invariant is as strong as what the run checks.
LEMMA InvImpliesIsolated == TenantInv => Isolated
BY DEF TenantInv, RequestsOK, RequestOK, OwnersOK, Isolated

\* A parent of a row is what one of its references is of.
LEMMA ParentsAreReferences ==
  ASSUME TenantInv, NEW i \in Ids, rows[i].state = "live", NEW p \in ParentsOf(rows[i])
  PROVE  \E t \in References(rows[i].table) :
           rows[i].ref[t] = p /\ p \in Ids /\ p # Null /\ rows[p].table = t
<1>1. rows[i].ref \in RefsOf(rows[i].table)
  BY DEF TenantInv, RowsOK, RowOK
<1>2. PICK t \in References(rows[i].table) : rows[i].ref[t] = p /\ p # Null /\ p \in Ids
  BY <1>1 DEF ParentsOf, RefsOf
<1> QED
  BY <1>2 DEF TenantInv, ReferencesOK, ReferenceOK

\* Also of references,
LEMMA InvImpliesResolve == TenantInv => ReferencesResolve
<1>1. SUFFICES ASSUME TenantInv, NEW i \in Ids, rows[i].state = "live",
                      NEW p \in ParentsOf(rows[i])
               PROVE  /\ rows[p].state = "live"
                      /\ rows[p].insertedBy \in {Committed, rows[i].insertedBy}
                      /\ rows[p].deletedBy \in {Null, rows[i].deletedBy} \/ Rule(i, p) = "set null"
  BY DEF ReferencesResolve
<1>2. PICK t \in References(rows[i].table) : rows[i].ref[t] = p /\ p # Null /\ rows[p].table = t
  BY <1>1, ParentsAreReferences
<1>3. ReferenceOK(i, t)
  BY <1>1, <1>2 DEF TenantInv, ReferencesOK
<1> QED
  BY <1>2, <1>3 DEF ReferenceOK, Rule

\* and of types.
LEMMA InvImpliesTypeOK == TenantInv => TypeOK
BY DEF TenantInv, RowsOK, RequestsOK, TypeOK

\* The empty store has nothing that dangles.
LEMMA InitTenantInv == Init => TenantInv
<1> SUFFICES ASSUME Init
             PROVE  TenantInv
  OBVIOUS
<1>1. RowOK(Unused)
  <2>1. Unused.ref \in {<<>>} \cup UNION {RefsOf(t) : t \in Tables}
    BY DEF Unused
  <2> QED
    BY <2>1 DEF RowOK, Unused, Rows
<1>2. RowsOK
  BY <1>1 DEF Init, RowsOK, RowOK
<1>3. NewRequest("idle", DefaultTenant) \in Requests
  BY TenantAssumption DEF NewRequest, Requests, TenantAssumption
<1>4. RequestsOK
  BY <1>3 DEF Init, RequestsOK, RequestOK, NewRequest
<1>5. OwnersOK
  BY TenantAssumption DEF Init, OwnersOK, Unused, TenantAssumption
<1>6. ReferencesOK
  BY DEF Init, ReferencesOK, Unused
<1> QED
  BY <1>2, <1>4, <1>5, <1>6 DEF TenantInv, Init

-----------------------------------------------------------------------------
(* Steps that leave the rows alone.                                        *)

\* What only the statements of connection s see of its setting.
LEMMA TenantOfRequest ==
  ASSUME TenantInv, NEW s \in Sessions
  PROVE  /\ request[s].pc # "idle" => CurrentTenant(s) = request[s].tenant
         /\ setting[s] # Empty => CurrentTenant(s) = request[s].tenant
         /\ setting[s] = Empty => CurrentTenant(s) = Empty
         /\ request[s].tenant \in Tenants
<1>1. RequestOK(s)
  BY DEF TenantInv, RequestsOK
<1>2. request[s].tenant \in Tenants
  BY <1>1 DEF RequestOK, Requests
<1> QED
  BY <1>1, <1>2, TenantAssumption DEF RequestOK, CurrentTenant, TenantAssumption

\* A row in nobody's hands but those of s: another connection keeps what it had.
LEMMA RowsUnchanged ==
  ASSUME TenantInv, UNCHANGED rows
  PROVE  RowsOK' /\ ReferencesOK'
<1>1. RowsOK'
  BY DEF TenantInv, RowsOK, RowOK
<1>2. ReferencesOK'
  <2>1. \A i \in Ids : rows'[i] = rows[i]
    OBVIOUS
  <2>2. ASSUME NEW i \in Ids, NEW t
        PROVE  ReferenceOK(i, t)' <=> ReferenceOK(i, t)
    BY DEF ReferenceOK
  <2> QED
    BY <2>1, <2>2 DEF TenantInv, ReferencesOK
<1> QED
  BY <1>1, <1>2

\* A step of connection s that leaves the rows alone keeps the invariant if its request is
\* as it should be after it and still owns what it owned.
LEMMA OtherRequests ==
  ASSUME TenantInv, NEW s \in Sessions, UNCHANGED <<rows, policed>>,
         request' \in [Sessions -> Requests], setting' \in [Sessions -> Tenants \cup {Unset, Empty}],
         \A q \in Sessions \ {s} : request'[q] = request[q] /\ setting'[q] = setting[q],
         RequestOK(s)',
         \A i \in Ids : s \in {rows[i].insertedBy, rows[i].deletedBy} => request'[s].pc # "idle"
  PROVE  TenantInv'
<1>1. \A q \in Sessions \ {s} : RequestOK(q)'
  BY DEF TenantInv, RequestsOK, RequestOK
<1>2. RequestsOK'
  BY <1>1 DEF RequestsOK
<1>3. OwnersOK'
  BY DEF TenantInv, OwnersOK
<1> QED
  BY <1>2, <1>3, RowsUnchanged DEF TenantInv

\* A request begins with the tenant it sets.
LEMMA WithTenantStep ==
  ASSUME TenantInv, NEW s \in Sessions, NEW tenant \in Tenants, WithTenant(s, tenant)
  PROVE  TenantInv'
<1>1. NewRequest("open", tenant) \in Requests
  BY DEF NewRequest, Requests
<1>2. /\ request' \in [Sessions -> Requests] /\ setting' \in [Sessions -> Tenants \cup {Unset, Empty}]
      /\ request'[s] = NewRequest("open", tenant) /\ setting'[s] = tenant
      /\ \A q \in Sessions \ {s} : request'[q] = request[q] /\ setting'[q] = setting[q]
  BY <1>1 DEF WithTenant, TenantInv, RequestsOK
<1>3. RequestOK(s)'
  BY <1>1, <1>2 DEF RequestOK, NewRequest
<1>4. \A i \in Ids : s \notin {rows[i].insertedBy, rows[i].deletedBy}
  BY DEF WithTenant, TenantInv, OwnersOK
<1> QED
  BY <1>2, <1>3, <1>4, OtherRequests DEF WithTenant

\* What a policed statement sees is of its tenant.
LEMMA VisibleRows ==
  ASSUME TenantInv, NEW s \in Sessions, policed, setting[s] # Empty
  PROVE  TenantsOf(Visible(s)) \subseteq {request[s].tenant}
<1>1. CurrentTenant(s) = request[s].tenant
  BY TenantOfRequest
<1> QED
  BY <1>1 DEF TenantsOf, Visible

\* Whatever it sees is there.
LEMMA VisibleExist ==
  ASSUME TenantInv, NEW s \in Sessions
  PROVE  /\ Visible(s) \subseteq Ids /\ \A i \in Visible(s) : Exists(s, i)
         /\ TenantsOf(Visible(s)) \subseteq Tenants
BY DEF Visible, TenantsOf, Exists, TenantInv, RowsOK, RowOK

\* A connection with a transaction has its tenant.
LEMMA OpenRequest ==
  ASSUME TenantInv, NEW s \in Sessions, request[s].pc # "idle"
  PROVE  setting[s] # Empty /\ RequestOK(s) /\ CurrentTenant(s) = request[s].tenant
<1>1. RequestOK(s) /\ request[s].tenant \in Tenants
  BY TenantOfRequest DEF TenantInv, RequestsOK
<1> QED
  BY <1>1, TenantOfRequest, TenantAssumption DEF RequestOK, TenantAssumption

\* A request that has touched and stamped rows of these tenants,
Further(s, touched, stamped) ==
  [request[s] EXCEPT !.touched = request[s].touched \cup Others(s, touched),
                     !.stamped = request[s].stamped \cup Others(s, stamped)]

\* and goes on.
LEMMA GoesOn ==
  ASSUME TenantInv, NEW s \in Sessions, request[s].pc = "open", UNCHANGED <<setting, policed>>,
         NEW touched \in SUBSET Tenants, NEW stamped \in SUBSET Tenants,
         stamped \subseteq {request[s].tenant},
         policed => touched \subseteq {request[s].tenant},
         request' = [request EXCEPT ![s] = Further(s, touched, stamped)]
  PROVE  /\ RequestsOK' /\ request' \in [Sessions -> Requests]
         /\ setting' \in [Sessions -> Tenants \cup {Unset, Empty}] /\ RequestOK(s)'
         /\ \A q \in Sessions : request'[q].pc = request[q].pc
         /\ \A q \in Sessions \ {s} : request'[q] = request[q] /\ setting'[q] = setting[q]
<1> DEFINE more == request[s].touched \cup Others(s, touched)
           sure == request[s].stamped \cup Others(s, stamped)
           now  == [request[s] EXCEPT !.touched = more, !.stamped = sure]
<1>1. RequestOK(s) /\ request \in [Sessions -> Requests]
      /\ setting \in [Sessions -> Tenants \cup {Unset, Empty}]
  BY DEF TenantInv, RequestsOK
<1>2. sure = {} /\ (policed => more = {})
  BY <1>1 DEF RequestOK, Others
<1>3. more \subseteq Tenants /\ sure \subseteq Tenants
  BY <1>1 DEF RequestOK, Requests, Others
<1> HIDE DEF more, sure
<1>4. now \in Requests /\ now.pc = "open" /\ now.tenant = request[s].tenant
      /\ now.touched = more /\ now.stamped = sure
  BY <1>1, <1>3 DEF RequestOK, Requests
<1>5. request' = [request EXCEPT ![s] = now]
  BY DEF more, sure, Further
<1> HIDE DEF now
<1>6. /\ request' \in [Sessions -> Requests] /\ request'[s] = now
      /\ \A q \in Sessions \ {s} : request'[q] = request[q]
  BY <1>1, <1>4, <1>5
<1>7. RequestOK(s)'
  BY <1>1, <1>2, <1>4, <1>6 DEF RequestOK
<1>8. \A q \in Sessions \ {s} : RequestOK(q)'
  BY <1>6 DEF TenantInv, RequestsOK, RequestOK
<1> QED
  BY <1>1, <1>4, <1>6, <1>7, <1>8 DEF RequestsOK

\* Row-level security shows a request the rows of its tenant.
LEMMA SelectStep ==
  ASSUME TenantInv, NEW s \in Sessions, Select(s)
  PROVE  TenantInv'
<1> DEFINE seen == TenantsOf(Visible(s))
           none == {}
<1>1. request[s].pc = "open" /\ UNCHANGED <<rows, setting, policed>>
      /\ request' = [request EXCEPT ![s].touched = @ \cup Others(s, seen)]
  BY DEF Select
<1>2. seen \in SUBSET Tenants
  BY VisibleExist
<1>3. policed => seen \subseteq {request[s].tenant}
  BY <1>1, OpenRequest, VisibleRows
<1> HIDE DEF seen
<1>4. request[s] \in Requests
  BY DEF TenantInv, RequestsOK, RequestOK
<1>5. [request[s] EXCEPT !.touched = request[s].touched \cup Others(s, seen)]
        = Further(s, seen, none)
  BY <1>4 DEF Further, Requests, Others
<1>6. request' = [request EXCEPT ![s] = Further(s, seen, none)]
  BY <1>1, <1>5
<1> HIDE DEF none
<1>7. /\ RequestsOK' /\ request' \in [Sessions -> Requests]
      /\ setting' \in [Sessions -> Tenants \cup {Unset, Empty}] /\ RequestOK(s)'
      /\ \A q \in Sessions : request'[q].pc = request[q].pc
      /\ \A q \in Sessions \ {s} : request'[q] = request[q] /\ setting'[q] = setting[q]
  <2>1. none \in SUBSET Tenants /\ none \subseteq {request[s].tenant}
    BY DEF none
  <2> QED
    BY <1>1, <1>2, <1>3, <1>6, <2>1, GoesOn
<1>8. OwnersOK'
  BY <1>1, <1>7 DEF TenantInv, OwnersOK
<1> QED
  BY <1>1, <1>7, <1>8, RowsUnchanged DEF TenantInv

\* A statement that fails aborts its transaction and stores nothing.
LEMMA AbortStep ==
  ASSUME TenantInv, NEW s \in Sessions, request[s].pc = "open", Abort(s),
         UNCHANGED <<rows, setting, policed>>
  PROVE  TenantInv'
<1> DEFINE now == [request[s] EXCEPT !.pc = "aborted", !.error = "refused"]
<1>1. RequestOK(s)
  BY DEF TenantInv, RequestsOK
<1>2. now \in Requests /\ now.pc = "aborted" /\ now.tenant = request[s].tenant
      /\ now.stamped = request[s].stamped /\ now.touched = request[s].touched
  BY <1>1 DEF RequestOK, Requests
<1>3. request' = [request EXCEPT ![s] = now]
  BY DEF Abort
<1> HIDE DEF now
<1>4. /\ request' \in [Sessions -> Requests] /\ setting' \in [Sessions -> Tenants \cup {Unset, Empty}]
      /\ request'[s] = now
      /\ \A q \in Sessions \ {s} : request'[q] = request[q] /\ setting'[q] = setting[q]
  BY <1>2, <1>3 DEF TenantInv, RequestsOK
<1>5. RequestOK(s)'
  BY <1>1, <1>2, <1>4 DEF RequestOK
<1> QED
  BY <1>2, <1>4, <1>5, OtherRequests

\* The answer to a statement outside of withTenant.
LEMMA AnswerStep ==
  ASSUME TenantInv, NEW s \in Sessions, request[s].pc = "idle",
         NEW error \in {"none", "setting", "refused"},
         NEW touched \in SUBSET Tenants, NEW stamped, stamped \subseteq {DefaultTenant},
         policed => touched \subseteq {DefaultTenant},
         Answer(s, error, touched, stamped), UNCHANGED <<setting, policed>>
  PROVE  /\ RequestsOK' /\ request' \in [Sessions -> Requests]
         /\ setting' \in [Sessions -> Tenants \cup {Unset, Empty}] /\ RequestOK(s)'
         /\ \A q \in Sessions : request'[q].pc = request[q].pc
         /\ \A q \in Sessions \ {s} : request'[q] = request[q] /\ setting'[q] = setting[q]
<1> DEFINE reached == Others(s, touched)
           marked  == Others(s, stamped)
           now == [NewRequest("idle", DefaultTenant) EXCEPT
                     !.error = error, !.touched = reached, !.stamped = marked]
<1>1. DefaultTenant \in Tenants
  BY TenantAssumption DEF TenantAssumption
<1>2. NewRequest("idle", DefaultTenant) \in Requests
  BY <1>1 DEF NewRequest, Requests
<1>3. request' = [request EXCEPT ![s] = now]
  BY DEF Answer
<1>4. RequestOK(s) /\ request \in [Sessions -> Requests]
      /\ setting \in [Sessions -> Tenants \cup {Unset, Empty}]
  BY DEF TenantInv, RequestsOK
<1>5. reached \subseteq Tenants /\ marked = {} /\ (policed => reached = {})
  BY <1>4 DEF RequestOK, Others
<1> HIDE DEF reached, marked
<1>6. now \in Requests /\ now.pc = "idle" /\ now.tenant = DefaultTenant
      /\ now.touched = reached /\ now.stamped = marked
  BY <1>1, <1>2, <1>5 DEF NewRequest, Requests
<1> HIDE DEF now
<1>7. /\ request' \in [Sessions -> Requests] /\ request'[s] = now
      /\ \A q \in Sessions \ {s} : request'[q] = request[q]
  BY <1>3, <1>4, <1>6
<1>8. RequestOK(s)'
  BY <1>4, <1>5, <1>6, <1>7 DEF RequestOK
<1>9. \A q \in Sessions \ {s} : RequestOK(q)'
  BY <1>7 DEF TenantInv, RequestsOK, RequestOK
<1> QED
  BY <1>4, <1>6, <1>7, <1>8, <1>9 DEF RequestsOK

\* One that changes nothing, or fails.
LEMMA PlainAnswerStep ==
  ASSUME TenantInv, NEW s \in Sessions, request[s].pc = "idle",
         NEW error \in {"none", "setting", "refused"},
         NEW touched \in SUBSET Tenants, policed => touched \subseteq {DefaultTenant},
         Answer(s, error, touched, {}), UNCHANGED <<rows, setting, policed>>
  PROVE  TenantInv'
<1>1. RequestsOK' /\ \A q \in Sessions : request'[q].pc = request[q].pc
  <2> DEFINE none == {}
  <2>1. none \subseteq {DefaultTenant} /\ Answer(s, error, touched, none)
    OBVIOUS
  <2> HIDE DEF none
  <2> QED
    BY <2>1, AnswerStep
<1>2. OwnersOK'
  BY <1>1 DEF TenantInv, OwnersOK
<1> QED
  BY <1>1, <1>2, RowsUnchanged DEF TenantInv

\* It reads with the setting its connection has.
LEMMA PlainSelectStep ==
  ASSUME TenantInv, NEW s \in Sessions, PlainSelect(s)
  PROVE  TenantInv'
<1>1. request[s].pc = "idle" /\ UNCHANGED <<rows, setting, policed>>
  BY DEF PlainSelect
<1> DEFINE seen == TenantsOf(Visible(s))
<1>2. CASE Answer(s, "setting", {}, {})
  BY <1>1, <1>2, PlainAnswerStep
<1>3. CASE /\ ~(setting[s] = Empty /\ policed /\ \E i \in Ids : Exists(s, i))
           /\ Answer(s, "none", seen, {})
  <2>1. request[s].tenant = DefaultTenant
    BY <1>1 DEF TenantInv, RequestsOK, RequestOK
  <2>2. seen \in SUBSET Tenants
    BY VisibleExist
  <2>3. policed => seen \subseteq {DefaultTenant}
    <3>1. CASE setting[s] # Empty
      BY <2>1, <3>1, VisibleRows
    <3>2. CASE policed /\ ~\E i \in Ids : Exists(s, i)
      BY <3>2 DEF TenantsOf, Visible
    <3> QED
      BY <1>3, <3>1, <3>2
  <2> HIDE DEF seen
  <2> QED
    BY <1>1, <1>3, <2>2, <2>3, PlainAnswerStep
<1> QED
  BY <1>2, <1>3 DEF PlainSelect

-----------------------------------------------------------------------------
(* Insertion.  Of the rows it refers to, the statement has waited for those *)
(* who delete them.                                                         *)

\* The id of a new row is that of no row.
LEMMA NextIdIsUnused ==
  ASSUME \E i \in Ids : rows[i] = Unused
  PROVE  NextId \in Ids /\ rows[NextId] = Unused
<1> DEFINE free == {i \in Ids : rows[i] = Unused}
<1>1. free \in SUBSET Nat /\ free # {}
  BY TenantAssumption DEF Ids, TenantAssumption
<1>2. PICK n \in free : \A i \in free : n <= i
  BY <1>1, LeastOf
<1>3. \A j \in 1..(n - 1) : rows[j] # Unused
  <2>1. TAKE j \in 1..(n - 1)
  <2>2. j \in Ids /\ ~(n <= j)
    BY <1>1, <1>2, TenantAssumption DEF Ids, TenantAssumption
  <2> QED
    BY <1>2, <2>2
<1> QED
  BY <1>2, <1>3 DEF NextId

\* What an INSERT may ask for.
LEMMA InsertableRow ==
  ASSUME NEW s \in Sessions, NEW row \in Insertable(s)
  PROVE  /\ row.state = "live" /\ row.table \in Tables /\ row.ref \in RefsOf(row.table)
         /\ row.insertedBy = s /\ row.deletedBy = Null
         /\ \A t \in References(row.table) :
              row.ref[t] # Null => rows[row.ref[t]].table = t \/ rows[row.ref[t]] = Gone
         /\ row.table # "span" => row.tenant = CurrentTenant(s)
         /\ row.tenant \in Tenants \cup {CurrentTenant(s)}
         /\ row.tenant \in Tenants => row \in Rows
<1> DEFINE columns(table) == {ref \in RefsOf(table) : \A to \in References(table) :
                               IF ref[to] = Null THEN Nullable(table, to)
                               ELSE rows[ref[to]].table = to \/ rows[ref[to]] = Gone}
           tenants(table) == {CurrentTenant(s)} \cup (IF table = "span" THEN Tenants ELSE {})
           hashes(table)  == IF table \in Hashed THEN Hashes ELSE {Null}
<1> HIDE DEF columns, tenants, hashes
<1>1. PICK table \in Tables :
        row \in [state : {"live"}, table : {table}, tenant : tenants(table),
                ref : columns(table), hash : hashes(table),
                insertedBy : {s}, deletedBy : {Null}]
  BY DEF Insertable, columns, tenants, hashes
<1>2. /\ row.state = "live" /\ row.table = table /\ row.ref \in columns(table)
      /\ row.tenant \in tenants(table) /\ row.insertedBy = s /\ row.deletedBy = Null
  BY <1>1
<1>3. /\ row.ref \in RefsOf(table)
      /\ \A t \in References(table) :
           row.ref[t] # Null => rows[row.ref[t]].table = t \/ rows[row.ref[t]] = Gone
  BY <1>2 DEF columns
<1>4. /\ row.table # "span" => row.tenant = CurrentTenant(s)
      /\ row.tenant \in Tenants \cup {CurrentTenant(s)}
  BY <1>2 DEF tenants
<1>5. columns(table) \subseteq {<<>>} \cup UNION {RefsOf(t) : t \in Tables}
  BY DEF columns
<1>6. hashes(table) \subseteq Hashes \cup {Null}
  BY DEF hashes
<1>7. row.tenant \in Tenants => row \in Rows
  BY <1>1, <1>5, <1>6 DEF Rows
<1> QED
  BY <1>2, <1>3, <1>4, <1>7

\* Of what a row refers to when it is inserted: it is there, and nobody deletes it.
ParentOK(s, p) ==
  /\ rows[p].state = "live" /\ rows[p].insertedBy \in {Committed, s} /\ rows[p].deletedBy = Null

\* What an INSERT stores, and what it stamped.
LEMMA InsertedRow ==
  ASSUME TenantInv, NEW s \in Sessions, NEW row \in Insertable(s),
         ~InsertWaits(s, row), InsertError(s, row) = "none"
  PROVE  /\ RowOK(row) /\ row.tenant \in Tenants
         /\ policed => row.tenant = request[s].tenant
         /\ StampOf(row) \subseteq {request[s].tenant} /\ StampOf(row) \subseteq Tenants
         /\ \A t \in References(row.table) : row.ref[t] # Null =>
              rows[row.ref[t]].table = t /\ ParentOK(s, row.ref[t])
<1>1. /\ row.state = "live" /\ row.table \in Tables /\ row.ref \in RefsOf(row.table)
      /\ row.insertedBy = s /\ row.deletedBy = Null
      /\ \A t \in References(row.table) :
           row.ref[t] # Null => rows[row.ref[t]].table = t \/ rows[row.ref[t]] = Gone
      /\ row.table # "span" => row.tenant = CurrentTenant(s)
      /\ row.tenant \in Tenants \cup {CurrentTenant(s)}
      /\ row.tenant \in Tenants => row \in Rows
  BY InsertableRow
<1>2. /\ row.tenant # Empty /\ (policed => setting[s] # Empty /\ row.tenant = CurrentTenant(s))
      /\ \A p \in ParentsOf(row) : Exists(s, p) \/ p \notin Ids
  BY DEF InsertError
<1>3. /\ setting[s] # Empty => CurrentTenant(s) = request[s].tenant
      /\ setting[s] = Empty => CurrentTenant(s) = Empty
      /\ request[s].tenant \in Tenants
  BY TenantOfRequest
<1>4. row.tenant \in Tenants /\ (policed => row.tenant = request[s].tenant)
  BY <1>1, <1>2, <1>3
<1>5. StampOf(row) \subseteq {request[s].tenant} /\ StampOf(row) \subseteq Tenants
  BY <1>1, <1>2, <1>3 DEF StampOf
<1>6. ASSUME NEW t \in References(row.table), row.ref[t] # Null
      PROVE  rows[row.ref[t]].table = t /\ ParentOK(s, row.ref[t])
  <2> DEFINE p == row.ref[t]
  <2>1. p \in Ids /\ p \in ParentsOf(row)
    BY <1>1, <1>6 DEF ParentsOf, RefsOf
  <2>2. Exists(s, p) /\ ~InOtherHands(s, p)
    BY <1>2, <2>1 DEF InsertWaits
  <2>3. rows[p] # Gone
    <3>1. Gone.state = "gone"
      BY DEF Gone, Unused
    <3> QED
      BY <2>2, <3>1 DEF Exists
  <2> QED
    BY <1>1, <1>6, <2>2, <2>3 DEF ParentOK, Exists, InOtherHands
<1> QED
  BY <1>1, <1>4, <1>5, <1>6 DEF RowOK

\* A row that is added refers to live rows and is referred to by none.
LEMMA RowAdded ==
  ASSUME TenantInv, NEW s \in Sessions, NEW n \in Ids, rows[n] = Unused,
         NEW row, RowOK(row), row.state = "live",
         \A t \in References(row.table) : row.ref[t] # Null =>
           /\ rows[row.ref[t]].table = t /\ ParentOK(s, row.ref[t])
           /\ rows[row.ref[t]].insertedBy \in {Committed, row.insertedBy},
         rows' = [rows EXCEPT ![n] = row]
  PROVE  RowsOK' /\ ReferencesOK'
<1>1. rows \in [Ids -> Rows] /\ \A i \in Ids : RowOK(rows[i])
  BY DEF TenantInv, RowsOK
<1>2. rows'[n] = row /\ \A i \in Ids \ {n} : rows'[i] = rows[i]
  BY <1>1
<1>3. \A i \in Ids : RowOK(rows'[i])
  BY <1>1, <1>2
<1>4. rows' \in [Ids -> Rows]
  BY <1>1 DEF RowOK
<1>5. RowsOK'
  BY <1>3, <1>4 DEF RowsOK, RowOK
<1>6. rows[n].state # "live"
  BY DEF Unused
<1>7. ASSUME NEW i \in Ids, rows'[i].state = "live", NEW t \in References(rows'[i].table),
             rows'[i].ref[t] # Null
      PROVE  ReferenceOK(i, t)'
  <2> DEFINE p == rows'[i].ref[t]
  <2>0. p \in Ids
    BY <1>3, <1>7 DEF RowOK, RefsOf
  <2>1. CASE i = n
    <3>1. rows[p].table = t /\ ParentOK(s, p) /\ rows[p].insertedBy \in {Committed, row.insertedBy}
      BY <1>2, <1>7, <2>1
    <3>2. p # n
      BY <1>6, <3>1 DEF ParentOK
    <3>3. rows'[p] = rows[p]
      BY <1>2, <2>0, <3>2
    <3> QED
      BY <1>2, <2>1, <3>1, <3>3 DEF ReferenceOK, ParentOK
  <2>2. CASE i # n
    <3>1. ReferenceOK(i, t) /\ rows'[i] = rows[i]
      BY <1>2, <1>7, <2>2 DEF TenantInv, ReferencesOK
    <3>2. p # n
      BY <1>6, <1>7, <3>1 DEF ReferenceOK
    <3>3. rows'[p] = rows[p]
      BY <1>2, <2>0, <3>2
    <3> QED
      BY <3>1, <3>3 DEF ReferenceOK
  <2> QED
    BY <2>1, <2>2
<1>8. ReferencesOK'
  <2>1. ASSUME NEW i \in Ids, rows'[i].state = "live", NEW t \in References(rows'[i].table),
               rows'[i].ref[t] = Null
        PROVE  ReferenceOK(i, t)'
    BY <2>1 DEF ReferenceOK
  <2> QED
    BY <1>7, <2>1 DEF ReferencesOK
<1> QED
  BY <1>5, <1>8

\* An INSERT of a request keeps the invariant.
LEMMA InsertStep ==
  ASSUME TenantInv, NEW s \in Sessions, Insert(s)
  PROVE  TenantInv'
<1>1. /\ request[s].pc = "open" /\ \E i \in Ids : rows[i] = Unused
      /\ UNCHANGED <<setting, policed>>
  BY DEF Insert
<1>2. PICK row \in Insertable(s) :
        /\ ~InsertWaits(s, row)
        /\ IF InsertError(s, row) = "none"
           THEN /\ rows' = [rows EXCEPT ![NextId] = row]
                /\ request' = [request EXCEPT ![s].touched = @ \cup Others(s, {row.tenant}),
                                              ![s].stamped = @ \cup Others(s, StampOf(row))]
           ELSE Abort(s) /\ UNCHANGED rows
  BY DEF Insert
<1>3. CASE InsertError(s, row) # "none"
  BY <1>1, <1>2, <1>3, AbortStep
<1>4. CASE InsertError(s, row) = "none"
  <2>1. NextId \in Ids /\ rows[NextId] = Unused
    BY <1>1, NextIdIsUnused
  <2>2. /\ RowOK(row) /\ row.tenant \in Tenants
        /\ policed => row.tenant = request[s].tenant
        /\ StampOf(row) \subseteq {request[s].tenant} /\ StampOf(row) \subseteq Tenants
        /\ \A t \in References(row.table) : row.ref[t] # Null =>
             rows[row.ref[t]].table = t /\ ParentOK(s, row.ref[t])
    BY <1>2, <1>4, InsertedRow
  <2>3. row.state = "live" /\ row.insertedBy = s /\ row.deletedBy = Null
    BY <1>2, InsertableRow
  <2>4. RowsOK' /\ ReferencesOK'
    <3>1. \A t \in References(row.table) : row.ref[t] # Null =>
            rows[row.ref[t]].insertedBy \in {Committed, row.insertedBy}
      BY <2>2, <2>3 DEF ParentOK
    <3> QED
      BY <1>2, <1>4, <2>1, <2>2, <2>3, <3>1, RowAdded
  <2>5. RequestsOK' /\ \A q \in Sessions : request'[q].pc = request[q].pc
    <3>1. request' = [request EXCEPT ![s] = Further(s, {row.tenant}, StampOf(row))]
      BY <1>2, <1>4 DEF Further
    <3> QED
      BY <1>1, <2>2, <3>1, GoesOn
  <2>6. OwnersOK'
    <3>1. rows'[NextId] = row /\ \A i \in Ids \ {NextId} : rows'[i] = rows[i]
      BY <1>2, <1>4, <2>1 DEF TenantInv, RowsOK
    <3>2. Null \notin Sessions
      BY TenantAssumption DEF TenantAssumption
    <3> QED
      BY <1>1, <2>3, <2>5, <3>1, <3>2 DEF TenantInv, OwnersOK
  <2> QED
    BY <1>1, <2>4, <2>5, <2>6 DEF TenantInv
<1> QED
  BY <1>3, <1>4

\* So does one outside of withTenant, which commits at once.
LEMMA PlainInsertStep ==
  ASSUME TenantInv, NEW s \in Sessions, PlainInsert(s)
  PROVE  TenantInv'
<1>1. /\ request[s].pc = "idle" /\ \E i \in Ids : rows[i] = Unused
      /\ UNCHANGED <<setting, policed>> /\ request[s].tenant = DefaultTenant
  BY DEF PlainInsert, TenantInv, RequestsOK, RequestOK
<1>2. PICK row \in Insertable(s) :
        /\ ~InsertWaits(s, row)
        /\ IF InsertError(s, row) = "none"
           THEN /\ rows' = [rows EXCEPT ![NextId] = [row EXCEPT !.insertedBy = Committed]]
                /\ Answer(s, "none", {row.tenant}, StampOf(row))
           ELSE Answer(s, InsertError(s, row), {}, {}) /\ UNCHANGED rows
  BY DEF PlainInsert
<1>3. CASE InsertError(s, row) # "none"
  <2>1. InsertError(s, row) \in {"none", "setting", "refused"}
    BY DEF InsertError
  <2> QED
    BY <1>1, <1>2, <1>3, <2>1, PlainAnswerStep
<1>4. CASE InsertError(s, row) = "none"
  <2>1. NextId \in Ids /\ rows[NextId] = Unused
    BY <1>1, NextIdIsUnused
  <2>2. /\ RowOK(row) /\ row.tenant \in Tenants
        /\ policed => row.tenant = request[s].tenant
        /\ StampOf(row) \subseteq {request[s].tenant} /\ StampOf(row) \subseteq Tenants
        /\ \A t \in References(row.table) : row.ref[t] # Null =>
             rows[row.ref[t]].table = t /\ ParentOK(s, row.ref[t])
    BY <1>2, <1>4, InsertedRow
  <2>3. row.state = "live" /\ row.insertedBy = s /\ row.deletedBy = Null
    BY <1>2, InsertableRow
  <2> DEFINE added == [row EXCEPT !.insertedBy = Committed]
  <2>4. /\ added \in Rows /\ added.state = "live" /\ added.table = row.table
        /\ added.tenant = row.tenant /\ added.ref = row.ref
        /\ added.insertedBy = Committed /\ added.deletedBy = Null
    BY <2>2, <2>3 DEF RowOK, Rows
  <2>5. rows' = [rows EXCEPT ![NextId] = added]
    BY <1>2, <1>4
  <2> HIDE DEF added
  <2>6. RowOK(added)
    BY <2>2, <2>3, <2>4 DEF RowOK
  <2>7. \A i \in Ids : s \notin {rows[i].insertedBy, rows[i].deletedBy}
    BY <1>1 DEF TenantInv, OwnersOK
  <2>8. RowsOK' /\ ReferencesOK'
    <3>1. \A t \in References(added.table) : added.ref[t] # Null =>
            /\ rows[added.ref[t]].table = t /\ ParentOK(s, added.ref[t])
      BY <2>2, <2>4
    <3>2. \A t \in References(added.table) : added.ref[t] # Null => added.ref[t] \in Ids
      BY <2>4, <2>6 DEF RowOK, RefsOf
    <3>3. \A t \in References(added.table) : added.ref[t] # Null =>
            rows[added.ref[t]].insertedBy \in {Committed, added.insertedBy}
      BY <2>7, <3>1, <3>2 DEF ParentOK
    <3> QED
      BY <2>1, <2>4, <2>5, <2>6, <3>1, <3>3, RowAdded
  <2>9. RequestsOK' /\ \A q \in Sessions : request'[q].pc = request[q].pc
    BY <1>1, <1>2, <1>4, <2>2, AnswerStep
  <2>10. OwnersOK'
    <3>1. rows'[NextId] = added /\ \A i \in Ids \ {NextId} : rows'[i] = rows[i]
      BY <2>1, <2>5 DEF TenantInv, RowsOK
    <3>2. Committed \notin Sessions /\ Null \notin Sessions
      BY TenantAssumption DEF TenantAssumption
    <3> QED
      BY <2>4, <2>9, <3>1, <3>2 DEF TenantInv, OwnersOK
  <2> QED
    BY <1>1, <2>8, <2>9, <2>10 DEF TenantInv
<1> QED
  BY <1>3, <1>4

-----------------------------------------------------------------------------
(* Deletion.  Whoever refers to what goes is waited for, goes along, is set *)
(* null or forbids it; two rounds of the cascade find all who go along.     *)

\* A row that refers to another has a key to its table.
LEMMA ReferringRows ==
  ASSUME TenantInv, NEW i \in Ids, NEW j, RefersTo(i, j)
  PROVE  /\ j \in Ids /\ rows[i].state = "live"
         /\ rows[j].table \in References(rows[i].table)
         /\ rows[i].ref[rows[j].table] = j
         /\ KeyShape(rows[i].table, rows[j].table, Rule(i, j))
<1>1. rows[i].state = "live" /\ j \in ParentsOf(rows[i])
  BY DEF RefersTo
<1>2. PICK t \in References(rows[i].table) :
        rows[i].ref[t] = j /\ j \in Ids /\ j # Null /\ rows[j].table = t
  BY <1>1, ParentsAreReferences
<1>3. ReferenceOK(i, t)
  BY <1>1, <1>2 DEF TenantInv, ReferencesOK
<1> QED
  BY <1>1, <1>2, <1>3, ReferenceShape DEF ReferenceOK, Rule

\* What a delete takes along is there.
LEMMA DoomedExist ==
  ASSUME NEW s \in Sessions, NEW i \in Ids, Exists(s, i)
  PROVE  /\ Doomed(s, i) \in SUBSET Ids /\ i \in Doomed(s, i)
         /\ \A j \in Doomed(s, i) : Exists(s, j)
BY DEF Doomed, Cascade

\* The keys that cascade lead from a run to a version and from there to an agent,
\* or to an agent at once: a third round would find nothing.
LEMMA TwoRoundsAreEnough ==
  ASSUME TenantInv, NEW s \in Sessions, NEW i \in Ids, Exists(s, i),
         NEW p \in Doomed(s, i), NEW a \in Ids, Exists(s, a), RefersTo(a, p),
         Rule(a, p) = "cascade"
  PROVE  a \in Doomed(s, i)
<1> DEFINE first == Cascade(s, {i})
<1>1. CASE p \in first
  BY <1>1 DEF Doomed, Cascade
<1>2. CASE p \notin first
  <2>1. PICK j \in first : Exists(s, p) /\ RefersTo(p, j) /\ Rule(p, j) = "cascade"
    BY <1>2 DEF Doomed, Cascade
  <2>2. p \in Ids
    BY DoomedExist
  <2>3. /\ KeyShape(rows[a].table, rows[p].table, "cascade")
        /\ KeyShape(rows[p].table, rows[j].table, "cascade")
    BY <2>1, <2>2, ReferringRows
  <2>4. rows[j].table = "agent"
    BY <2>3 DEF KeyShape
  <2>5. j = i
    <3>1. SUFFICES ASSUME j # i
                   PROVE  FALSE
      OBVIOUS
    <3>2. j \in Ids /\ RefersTo(j, i)
      BY <3>1 DEF Cascade
    <3>3. KeyShape(rows[j].table, rows[i].table, Rule(j, i))
      BY <3>2, ReferringRows
    <3> QED
      BY <2>4, <3>3 DEF KeyShape
  <2>6. p \in first
    BY <2>1, <2>2, <2>5 DEF Cascade
  <2> QED
    BY <1>2, <2>6
<1> QED
  BY <1>1, <1>2

\* A DELETE takes along what refers to its row, or fails.
LEMMA DeleteStep ==
  ASSUME TenantInv, NEW s \in Sessions, Delete(s)
  PROVE  TenantInv'
<1>1. /\ request[s].pc = "open" /\ UNCHANGED <<setting, policed>>
  BY DEF Delete
<1>2. PICK i \in Visible(s) :
        /\ ~DeleteWaits(s, Doomed(s, i))
        /\ IF Restricted(s, Doomed(s, i))
           THEN Abort(s) /\ UNCHANGED rows
           ELSE /\ rows' = [j \in Ids |-> IF j \in Doomed(s, i)
                                          THEN [rows[j] EXCEPT !.deletedBy = s] ELSE rows[j]]
                /\ request' = [request EXCEPT ![s].touched = @ \cup Others(s, {rows[i].tenant})]
  BY DEF Delete
<1>3. CASE Restricted(s, Doomed(s, i))
  BY <1>1, <1>2, <1>3, AbortStep
<1>4. CASE ~Restricted(s, Doomed(s, i))
  <2> DEFINE doomed == Doomed(s, i)
  <2>1. /\ i \in Ids /\ Exists(s, i) /\ rows[i].tenant \in TenantsOf(Visible(s))
        /\ rows[i].tenant \in Tenants
    BY VisibleExist DEF TenantsOf
  <2>2. doomed \in SUBSET Ids /\ \A j \in doomed : Exists(s, j)
    BY <2>1, DoomedExist
  <2>3. \A a \in Ids, p \in doomed :
          Exists(s, a) /\ RefersTo(a, p) /\ Rule(a, p) = "cascade" => a \in doomed
    BY <2>1, TwoRoundsAreEnough
  <2>4. /\ request' = [request EXCEPT ![s].touched = @ \cup Others(s, {rows[i].tenant})]
        /\ rows' = [j \in Ids |-> IF j \in doomed
                                  THEN [rows[j] EXCEPT !.deletedBy = s] ELSE rows[j]]
    BY <1>1, <1>2, <1>4
  <2>5. ~DeleteWaits(s, doomed) /\ ~Restricted(s, doomed)
    BY <1>2, <1>4
  <2> HIDE DEF doomed
  <2>6. rows \in [Ids -> Rows] /\ \A j \in Ids : RowOK(rows[j])
    BY DEF TenantInv, RowsOK
  <2>7. Null \notin Sessions
    BY TenantAssumption DEF TenantAssumption
  <2>8. \A j \in Ids :
          /\ rows'[j] \in Rows
          /\ rows'[j].state = rows[j].state /\ rows'[j].table = rows[j].table
          /\ rows'[j].tenant = rows[j].tenant /\ rows'[j].ref = rows[j].ref
          /\ rows'[j].insertedBy = rows[j].insertedBy
          /\ rows'[j].deletedBy = IF j \in doomed THEN s ELSE rows[j].deletedBy
    BY <2>4, <2>6 DEF Rows
  <2>9. \A j \in doomed : rows[j].state = "live" /\ rows[j].deletedBy = Null
    BY <2>2, <2>5 DEF DeleteWaits, InOtherHands, Exists
  <2>10. RowsOK'
    <3>1. rows' \in [Ids -> Rows]
      BY <2>4, <2>8
    <3>2. \A j \in Ids : RowOK(rows'[j])
      BY <2>6, <2>8, <2>9 DEF RowOK
    <3> QED
      BY <3>1, <3>2 DEF RowsOK, RowOK
  <2>11. RequestsOK' /\ \A q \in Sessions : request'[q].pc = request[q].pc
    <3>1. policed => {rows[i].tenant} \subseteq {request[s].tenant}
      BY <1>1, <2>1, OpenRequest, VisibleRows
    <3> DEFINE target == {rows[i].tenant}
               none   == {}
    <3>2. request[s] \in Requests
      BY DEF TenantInv, RequestsOK, RequestOK
    <3>3. [request[s] EXCEPT !.touched = request[s].touched \cup Others(s, target)]
            = Further(s, target, none)
      BY <3>2 DEF Further, Requests, Others
    <3>4. request' = [request EXCEPT ![s] = Further(s, target, none)]
      BY <2>4, <3>3
    <3>5. target \in SUBSET Tenants /\ (policed => target \subseteq {request[s].tenant})
      BY <2>1, <3>1
    <3>6. none \in SUBSET Tenants /\ none \subseteq {request[s].tenant}
      OBVIOUS
    <3> HIDE DEF target, none
    <3> QED
      BY <1>1, <3>4, <3>5, <3>6, GoesOn
  <2>12. OwnersOK'
    BY <1>1, <2>8, <2>11 DEF TenantInv, OwnersOK
  <2>13. ASSUME NEW a \in Ids, rows[a].state = "live", NEW t \in References(rows[a].table)
         PROVE  ReferenceOK(a, t)'
    <3> DEFINE p == rows[a].ref[t]
    <3>1. ReferenceOK(a, t) /\ rows[a].ref \in RefsOf(rows[a].table)
      BY <2>6, <2>13 DEF TenantInv, ReferencesOK, RowOK
    <3>2. CASE p = Null
      BY <2>8, <3>2 DEF ReferenceOK
    <3>3. CASE p # Null
      <4>1. p \in Ids /\ RefersTo(a, p) /\ rows[p].table = t
        BY <2>13, <3>1, <3>3 DEF RefsOf, RefersTo, ParentsOf, ReferenceOK
      <4>2. rows'[p].deletedBy \in {Null, rows'[a].deletedBy} \/ OnDelete(rows[a].table, t) = "set null"
        <5>1. CASE p \in doomed
          <6>1. ~InOtherHands(s, a)
            BY <2>5, <4>1, <5>1 DEF DeleteWaits
          <6>2. CASE rows[a].deletedBy = s
            BY <2>8, <4>1, <5>1, <6>2
          <6>3. CASE Exists(s, a)
            <7>1. Rule(a, p) # "restrict"
              BY <2>5, <4>1, <5>1, <6>3 DEF Restricted
            <7>2. KeyShape(rows[a].table, t, Rule(a, p)) /\ Rule(a, p) = OnDelete(rows[a].table, t)
              BY <4>1, ReferringRows DEF Rule
            <7>3. Rule(a, p) = "cascade" => a \in doomed
              BY <2>3, <4>1, <5>1, <6>3
            <7> QED
              BY <2>8, <4>1, <5>1, <7>1, <7>2, <7>3 DEF KeyShape
          <6> QED
            BY <2>7, <2>13, <6>1, <6>2, <6>3 DEF InOtherHands, Exists
        <5>2. CASE p \notin doomed
          BY <2>8, <2>9, <3>1, <3>3, <4>1, <5>2 DEF ReferenceOK
        <5> QED
          BY <5>1, <5>2
      <4> QED
        BY <2>8, <3>1, <3>3, <4>1, <4>2 DEF ReferenceOK
    <3> QED
      BY <3>2, <3>3
  <2>14. ReferencesOK'
    BY <2>8, <2>13 DEF ReferencesOK
  <2> QED
    BY <1>1, <2>10, <2>11, <2>12, <2>14 DEF TenantInv
<1> QED
  BY <1>3, <1>4

-----------------------------------------------------------------------------
(* The end of a transaction takes its rows out of its hands.               *)

\* What a transaction has deleted is gone with its commit.
LEMMA GoneRow ==
  /\ RowOK(Gone) /\ Gone.state = "gone"
  /\ Gone.insertedBy = Committed /\ Gone.deletedBy = Null
<1>1. Unused \in Rows
  <2>1. Unused.ref \in {<<>>} \cup UNION {RefsOf(t) : t \in Tables}
    BY DEF Unused
  <2> QED
    BY <2>1 DEF Unused, Rows
<1>2. /\ Gone \in Rows /\ Gone.state = "gone" /\ Gone.ref = Unused.ref
      /\ Gone.insertedBy = Unused.insertedBy /\ Gone.deletedBy = Unused.deletedBy
  BY <1>1 DEF Gone, Rows
<1>3. Unused.ref = <<>> /\ Unused.insertedBy = Committed /\ Unused.deletedBy = Null
  BY DEF Unused
<1> QED
  BY <1>2, <1>3 DEF RowOK

\* A request that ends leaves its connection to the next one.
LEMMA RequestEnds ==
  ASSUME TenantInv, NEW s \in Sessions, NEW left \in {Unset, Empty}, UNCHANGED policed,
         request' = [request EXCEPT ![s] = NewRequest("idle", DefaultTenant)],
         setting' = [setting EXCEPT ![s] = left],
         \A i \in Ids :
           /\ rows'[i].insertedBy \in {Committed, rows[i].insertedBy} \ {s}
           /\ rows'[i].deletedBy \in {Null, rows[i].deletedBy} \ {s}
  PROVE  RequestsOK' /\ OwnersOK'
<1> DEFINE new == NewRequest("idle", DefaultTenant)
<1>1. /\ new \in Requests /\ new.pc = "idle" /\ new.tenant = DefaultTenant
      /\ new.stamped = {} /\ new.touched = {}
  BY TenantAssumption DEF NewRequest, Requests, TenantAssumption
<1> HIDE DEF new
<1>2. /\ request' \in [Sessions -> Requests] /\ request'[s] = new
      /\ setting' \in [Sessions -> Tenants \cup {Unset, Empty}] /\ setting'[s] = left
      /\ \A q \in Sessions \ {s} : request'[q] = request[q] /\ setting'[q] = setting[q]
  BY <1>1 DEF TenantInv, RequestsOK, new
<1>3. RequestsOK'
  <2>1. RequestOK(s)'
    BY <1>1, <1>2 DEF RequestOK
  <2>2. \A q \in Sessions \ {s} : RequestOK(q)'
    BY <1>2 DEF TenantInv, RequestsOK, RequestOK
  <2> QED
    BY <1>2, <2>1, <2>2 DEF RequestsOK
<1>4. OwnersOK'
  <2>1. SUFFICES ASSUME NEW q \in Sessions, NEW i \in Ids,
                        q \in {rows'[i].insertedBy, rows'[i].deletedBy}
                 PROVE  request'[q].pc # "idle"
    BY DEF OwnersOK
  <2>2. Committed \notin Sessions /\ Null \notin Sessions
    BY TenantAssumption DEF TenantAssumption
  <2>3. q # s /\ q \in {rows[i].insertedBy, rows[i].deletedBy}
    BY <2>1, <2>2
  <2> QED
    BY <1>2, <2>3 DEF TenantInv, OwnersOK
<1> QED
  BY <1>3, <1>4

\* A commit makes the rows of a request durable and takes the deleted ones away.
LEMMA CommitStep ==
  ASSUME TenantInv, NEW s \in Sessions, Commit(s)
  PROVE  TenantInv'
<1> DEFINE columns(i) == [t \in DOMAIN rows[i].ref |->
                            IF rows[i].ref[t] # Null /\ rows[rows[i].ref[t]].deletedBy = s
                            THEN Null ELSE rows[i].ref[t]]
           inserted(i) == IF rows[i].insertedBy = s THEN Committed ELSE rows[i].insertedBy
<1>1. rows \in [Ids -> Rows] /\ \A i \in Ids : RowOK(rows[i])
  BY DEF TenantInv, RowsOK
<1>2. /\ rows' = [i \in Ids |-> IF rows[i].deletedBy = s THEN Gone
                                 ELSE [rows[i] EXCEPT !.insertedBy = inserted(i),
                                                      !.ref = columns(i)]]
      /\ EndRequest(s)
  BY DEF Commit, CommitRows
<1>3. s # Null /\ s # Committed
  BY TenantAssumption DEF TenantAssumption
<1>4. ASSUME NEW i \in Ids, rows[i].deletedBy = s
      PROVE  /\ RowOK(rows'[i]) /\ rows[i].state = "live" /\ rows'[i].state = "gone"
             /\ rows'[i].insertedBy = Committed /\ rows'[i].deletedBy = Null
  BY <1>1, <1>2, <1>3, <1>4, GoneRow DEF RowOK
<1>5. ASSUME NEW i \in Ids, rows[i].state # "live"
      PROVE  columns(i) = <<>>
  BY <1>1, <1>5 DEF RowOK
<1>6. ASSUME NEW i \in Ids, rows[i].state = "live"
      PROVE  columns(i) \in RefsOf(rows[i].table)
  BY <1>1, <1>6 DEF RowOK, RefsOf
<1>7. \A i \in Ids : inserted(i) \in {Committed, rows[i].insertedBy} \ {s}
  BY <1>3
<1> HIDE DEF columns, inserted
<1>8. ASSUME NEW i \in Ids, rows[i].deletedBy # s
      PROVE  /\ RowOK(rows'[i]) /\ rows'[i].state = rows[i].state /\ rows'[i].table = rows[i].table
             /\ rows'[i].tenant = rows[i].tenant /\ rows'[i].ref = columns(i)
             /\ rows'[i].insertedBy = inserted(i) /\ rows'[i].deletedBy = rows[i].deletedBy
  <2>1. rows[i] \in Rows /\ rows'[i] = [rows[i] EXCEPT !.insertedBy = inserted(i), !.ref = columns(i)]
    BY <1>1, <1>2, <1>8
  <2>2. columns(i) \in {<<>>} \cup UNION {RefsOf(t) : t \in Tables}
    BY <1>1, <1>5, <1>6 DEF RowOK
  <2>3. inserted(i) \in Sessions \cup {Committed}
    BY <1>7, <2>1 DEF Rows
  <2>4. /\ rows'[i] \in Rows /\ rows'[i].state = rows[i].state /\ rows'[i].table = rows[i].table
        /\ rows'[i].tenant = rows[i].tenant /\ rows'[i].ref = columns(i)
        /\ rows'[i].insertedBy = inserted(i) /\ rows'[i].deletedBy = rows[i].deletedBy
    BY <2>1, <2>2, <2>3 DEF Rows
  <2>5. RowOK(rows'[i])
    BY <1>1, <1>5, <1>6, <1>7, <2>4 DEF RowOK
  <2> QED
    BY <2>4, <2>5
<1>9. RowsOK'
  <2>1. \A i \in Ids : RowOK(rows'[i])
    BY <1>4, <1>8
  <2>2. rows' \in [Ids -> Rows]
    BY <1>2, <2>1 DEF RowOK
  <2> QED
    BY <2>1, <2>2 DEF RowsOK, RowOK
<1>10. RequestsOK' /\ OwnersOK'
  <2>1. \A i \in Ids :
          /\ rows'[i].insertedBy \in {Committed, rows[i].insertedBy} \ {s}
          /\ rows'[i].deletedBy \in {Null, rows[i].deletedBy} \ {s}
    BY <1>3, <1>4, <1>7, <1>8
  <2> QED
    BY <1>2, <1>9, <2>1, RequestEnds DEF EndRequest, SettingLeft
<1>11. ASSUME NEW i \in Ids, rows'[i].state = "live", NEW t \in References(rows'[i].table),
              rows'[i].ref[t] # Null
       PROVE  ReferenceOK(i, t)'
  <2>1. /\ rows[i].deletedBy # s /\ rows[i].state = "live" /\ t \in References(rows[i].table)
        /\ rows'[i].ref = columns(i)
    BY <1>4, <1>8, <1>11
  <2>2. rows[i].ref \in RefsOf(rows[i].table)
    BY <1>1, <2>1 DEF RowOK
  <2> DEFINE p == rows[i].ref[t]
  <2>3. columns(i)[t] = IF p # Null /\ rows[p].deletedBy = s THEN Null ELSE p
    BY <2>1, <2>2 DEF columns, RefsOf
  <2>4. p # Null /\ rows[p].deletedBy # s /\ rows'[i].ref[t] = p /\ p \in Ids
    BY <1>11, <2>1, <2>2, <2>3 DEF RefsOf
  <2>5. ReferenceOK(i, t)
    BY <2>1 DEF TenantInv, ReferencesOK
  <2>6. rows'[p].insertedBy \in {Committed, rows'[i].insertedBy}
    BY <1>8, <2>1, <2>4, <2>5 DEF ReferenceOK, inserted
  <2> QED
    BY <1>8, <2>1, <2>4, <2>5, <2>6 DEF ReferenceOK
<1>12. ReferencesOK'
  <2>1. ASSUME NEW i \in Ids, rows'[i].state = "live", NEW t \in References(rows'[i].table),
               rows'[i].ref[t] = Null
        PROVE  ReferenceOK(i, t)'
    BY <2>1 DEF ReferenceOK
  <2> QED
    BY <1>11, <2>1 DEF ReferencesOK
<1> QED
  BY <1>2, <1>9, <1>10, <1>12 DEF TenantInv, EndRequest

\* An error, or the end of the connection: what was inserted is gone, what was
\* deleted is back.
LEMMA RollbackStep ==
  ASSUME TenantInv, NEW s \in Sessions, NEW left \in {Unset, Empty}, rows' = RollbackRows(s),
         request' = [request EXCEPT ![s] = NewRequest("idle", DefaultTenant)],
         setting' = [setting EXCEPT ![s] = left], UNCHANGED policed
  PROVE  TenantInv'
<1>1. rows \in [Ids -> Rows] /\ \A i \in Ids : RowOK(rows[i])
  BY DEF TenantInv, RowsOK
<1>2. s # Null /\ s # Committed
  BY TenantAssumption DEF TenantAssumption
<1>3. rows' = [i \in Ids |-> IF rows[i].insertedBy = s THEN Gone
                             ELSE IF rows[i].deletedBy = s THEN [rows[i] EXCEPT !.deletedBy = Null]
                             ELSE rows[i]]
  BY DEF RollbackRows
<1>4. ASSUME NEW i \in Ids, rows[i].insertedBy = s
      PROVE  /\ RowOK(rows'[i]) /\ rows[i].state = "live" /\ rows'[i].state = "gone"
             /\ rows'[i].insertedBy = Committed /\ rows'[i].deletedBy = Null
  BY <1>1, <1>2, <1>3, <1>4, GoneRow DEF RowOK
<1>5. ASSUME NEW i \in Ids, rows[i].insertedBy # s
      PROVE  /\ RowOK(rows'[i]) /\ rows'[i].state = rows[i].state /\ rows'[i].table = rows[i].table
             /\ rows'[i].tenant = rows[i].tenant /\ rows'[i].ref = rows[i].ref
             /\ rows'[i].insertedBy = rows[i].insertedBy
             /\ rows'[i].deletedBy = IF rows[i].deletedBy = s THEN Null ELSE rows[i].deletedBy
  <2>1. /\ rows[i] \in Rows
        /\ rows'[i] = IF rows[i].deletedBy = s THEN [rows[i] EXCEPT !.deletedBy = Null] ELSE rows[i]
    BY <1>1, <1>3, <1>5
  <2>2. /\ rows'[i] \in Rows /\ rows'[i].state = rows[i].state /\ rows'[i].table = rows[i].table
        /\ rows'[i].tenant = rows[i].tenant /\ rows'[i].ref = rows[i].ref
        /\ rows'[i].insertedBy = rows[i].insertedBy
        /\ rows'[i].deletedBy = IF rows[i].deletedBy = s THEN Null ELSE rows[i].deletedBy
    BY <2>1 DEF Rows
  <2> QED
    BY <1>1, <2>2 DEF RowOK
<1>6. RowsOK'
  <2>1. \A i \in Ids : RowOK(rows'[i])
    BY <1>4, <1>5
  <2>2. rows' \in [Ids -> Rows]
    BY <1>3, <2>1 DEF RowOK
  <2> QED
    BY <2>1, <2>2 DEF RowsOK, RowOK
<1>7. RequestsOK' /\ OwnersOK'
  <2>1. \A i \in Ids :
          /\ rows'[i].insertedBy \in {Committed, rows[i].insertedBy} \ {s}
          /\ rows'[i].deletedBy \in {Null, rows[i].deletedBy} \ {s}
    BY <1>2, <1>4, <1>5
  <2> QED
    BY <1>6, <2>1, RequestEnds
<1>8. ASSUME NEW i \in Ids, rows'[i].state = "live", NEW t \in References(rows'[i].table)
      PROVE  ReferenceOK(i, t)'
  <2>1. /\ rows[i].insertedBy # s /\ rows[i].state = "live" /\ t \in References(rows[i].table)
        /\ rows'[i].ref = rows[i].ref
    BY <1>4, <1>5, <1>8
  <2> DEFINE p == rows[i].ref[t]
  <2>2. ReferenceOK(i, t) /\ p \in Ids \cup {Null}
    BY <1>1, <2>1 DEF TenantInv, ReferencesOK, RowOK, RefsOf
  <2>3. CASE p = Null
    BY <2>1, <2>3 DEF ReferenceOK
  <2>4. CASE p # Null
    <3>1. p \in Ids /\ rows[p].insertedBy # s
      BY <1>2, <2>1, <2>2, <2>4 DEF ReferenceOK
    <3> QED
      BY <1>5, <2>1, <2>2, <2>4, <3>1 DEF ReferenceOK
  <2> QED
    BY <2>3, <2>4
<1>9. ReferencesOK'
  BY <1>8 DEF ReferencesOK
<1> QED
  BY <1>6, <1>7, <1>9 DEF TenantInv

-----------------------------------------------------------------------------
\* Every step keeps the invariant.
LEMMA TenantStep ==
  ASSUME TenantInv, [Next]_vars
  PROVE  TenantInv'
<1>1. CASE UNCHANGED vars
  <2>1. RequestsOK'
    <3>1. \A s \in Sessions : RequestOK(s)'
      BY <1>1 DEF vars, TenantInv, RequestsOK, RequestOK
    <3> QED
      BY <1>1, <3>1 DEF vars, TenantInv, RequestsOK
  <2>2. OwnersOK'
    BY <1>1 DEF vars, TenantInv, OwnersOK
  <2> QED
    BY <1>1, <2>1, <2>2, RowsUnchanged DEF vars, TenantInv
<1>2. ASSUME NEW s \in Sessions, NEW tenant \in Tenants, WithTenant(s, tenant)
      PROVE  TenantInv'
  BY <1>2, WithTenantStep
<1>3. ASSUME NEW s \in Sessions, Select(s) \/ Insert(s) \/ Delete(s)
      PROVE  TenantInv'
  BY <1>3, SelectStep, InsertStep, DeleteStep
<1>4. ASSUME NEW s \in Sessions, UpdateAppendOnly(s)
      PROVE  TenantInv'
  BY <1>4, AbortStep DEF UpdateAppendOnly
<1>5. ASSUME NEW s \in Sessions, Commit(s)
      PROVE  TenantInv'
  BY <1>5, CommitStep
<1>6. ASSUME NEW s \in Sessions, Rollback(s) \/ Reconnect(s)
      PROVE  TenantInv'
  BY <1>6, RollbackStep DEF Rollback, Reconnect, EndRequest, SettingLeft
<1>7. ASSUME NEW s \in Sessions, PlainSelect(s) \/ PlainInsert(s)
      PROVE  TenantInv'
  BY <1>7, PlainSelectStep, PlainInsertStep
<1> QED
  BY <1>1, <1>2, <1>3, <1>4, <1>5, <1>6, <1>7 DEF Next

\* The store stays in its types: rows are those of the schema, each with its foreign
\* keys, for any tenants, connections, tables, hashes and number of rows.
THEOREM TenantsTypeCorrect == Spec => []TypeOK
<1> QED
  BY InitTenantInv, TenantStep, InvImpliesTypeOK, PTL DEF Spec

\* Requests of different tenants stay apart on pooled connections: in any role, what the
\* column default stamps is of the request's tenant; where the policies apply, so is all
\* it reads, inserts or names for deletion.  References and cascades may cross tenants.
THEOREM IsolatedHolds == Spec => []Isolated
<1> QED
  BY InitTenantInv, TenantStep, InvImpliesIsolated, PTL DEF Spec

\* Foreign keys resolve, across tenants too: what a live row refers to is live and as
\* durable as the row, in any interleaving of transactions that insert, delete, commit
\* and roll back, whatever ids they were given.
THEOREM ReferencesResolveHolds == Spec => []ReferencesResolve
<1> QED
  BY InitTenantInv, TenantStep, InvImpliesResolve, PTL DEF Spec
=============================================================================
