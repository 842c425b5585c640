----------------------------- MODULE SweepWorker -----------------------------
(***************************************************************************)
(* The L3 improvement sweep as it is deployed: replicas of @apl/worker     *)
(* whose hourly timer starts a run, the run's PostgreSQL connections, the  *)
(* session-level advisory lock, and the ledger rows.                       *)
(*                                                                         *)
(* A run is JavaScript between two awaits: every action of a run starts    *)
(* with an answer taken off its connection and ends with the next          *)
(* statement sent, so no other callback of the process falls in between.   *)
(* The server executes a statement some time after it was sent, and the    *)
(* answer arrives some time after that.                                    *)
(***************************************************************************)
EXTENDS Ledger, LoopBudget, FiniteSets

CONSTANTS
  Procs,         \* worker replicas
  Runs,          \* calls of runGuarded that may be in flight
  ProcOf,        \* the replica a run belongs to
  Sessions,      \* PostgreSQL sessions
  Ids,           \* ids of apl_improvement
  Visible,       \* the ids row-level security shows to the worker's role
  Verdicts,      \* what the EventResolver may answer for each id
  OperatorFrom,  \* statuses out of which someone else moves a row
  Budget,        \* SWEEP_BUDGET
  CanKill,       \* whether the operator ever sets APL_SWEEP_KILL
  MaxFaults,     \* bound on crashes and broken connections
  MaxClock,      \* bound on the clock
  None, Closed, Orphan

VARIABLES
  rows,       \* the status of each improvement
  lockDepth,  \* how often each session holds the advisory lock
  conn,       \* whose pool a session is in; Orphan when only the server has it
  wire,       \* the statement or the answer in flight on each session
  run,        \* the local state of each run
  up,         \* which replicas are running
  killEnv,    \* APL_SWEEP_KILL in each replica's own environment
  killWanted, \* APL_SWEEP_KILL as the operator has set it in the deployment
  now,        \* the wall clock
  faults      \* crashes and broken connections so far

vars == <<rows, lockDepth, conn, wire, run, up, killEnv, killWanted, now, faults>>

InFlight == {"approved", "canary"}

Row == [id : Ids, status : Statuses]

Statements == {"try_lock", "select", "update", "unlock"}
Answers    == {"granted", "refused", "selected", "updated", "unlocked"}

Message == [msg : {"quiet"} \cup Statements \cup Answers, rows : SUBSET Row]
Quiet   == [msg |-> "quiet", rows |-> {}]
Ask(m)  == [msg |-> m, rows |-> {}]

PCs == {"off", "locking", "reading", "sweeping", "writing", "unlocking"}

RunState ==
  [pc : PCs, sess : Sessions \cup {None}, due : SUBSET Row,
   event : Events \cup {None}, tracker : TrackerType]

Off == [pc |-> "off", sess |-> None, due |-> {}, event |-> None,
        tracker |-> NewTracker(0)]

\* A run that waits for the lock, or for the unlock, on session s.
Waiting(pc, s) == [Off EXCEPT !.pc = pc, !.sess = s]

ASSUME SetsAssumption ==
  /\ ProcOf \in [Runs -> Procs]
  /\ Visible \subseteq Ids
  /\ Verdicts \in [Ids -> SUBSET (Events \cup {None})]
  /\ OperatorFrom \subseteq Statuses
  /\ Budget \in BudgetType
  /\ CanKill \in BOOLEAN
  /\ MaxFaults \in Nat
  /\ MaxClock \in Nat

ASSUME NamesAssumption ==
  /\ None \notin Sessions \cup Events
  /\ Closed \notin Procs
  /\ Orphan \notin Procs
  /\ Closed # Orphan

TypeOK ==
  /\ rows \in [Ids -> Statuses]
  /\ lockDepth \in [Sessions -> Nat]
  /\ conn \in [Sessions -> Procs \cup {Closed, Orphan}]
  /\ wire \in [Sessions -> Message]
  /\ run \in [Runs -> RunState]
  /\ \A r \in Runs : run[r].pc = "off" <=> run[r].sess = None
  /\ up \in [Procs -> BOOLEAN]
  /\ killEnv \in [Procs -> BOOLEAN]
  /\ killWanted \in BOOLEAN
  /\ now \in 0..MaxClock
  /\ faults \in 0..MaxFaults

Init ==
  /\ rows \in [Ids -> {"proposed", "approved"}]
  /\ lockDepth = [s \in Sessions |-> 0]
  /\ conn = [s \in Sessions |-> Closed]
  /\ wire = [s \in Sessions |-> Quiet]
  /\ run = [r \in Runs |-> Off]
  /\ up = [p \in Procs |-> TRUE]
  /\ killEnv = [p \in Procs |-> FALSE]
  /\ killWanted = FALSE
  /\ now = 0
  /\ faults = 0

-----------------------------------------------------------------------------
\* The connection pool of a replica.

InUse(s) == \E r \in Runs : run[r].sess = s

Idle(p) == {s \in Sessions : conn[s] = p /\ ~InUse(s)}

\* Where the pool runs the next query: an idle connection when it has one.  It
\* hands out the connection returned last, and a run returns its connection and
\* asks for the next in one callback, so a run that goes on stays on its own.
Available(p) ==
  IF Idle(p) # {} THEN Idle(p) ELSE {s \in Sessions : conn[s] = Closed}

Send(s, message) == wire' = [wire EXCEPT ![s] = message]

-----------------------------------------------------------------------------
\* The database server, which executes what was sent on a session whether or
\* not the client is still there.

\* As if the lock were transaction-scoped (pg_try_advisory_xact_lock): gone once
\* the statement that took it is done, so that nobody is ever in the way.
TransactionLockFree(s) == TRUE

\* A session-level advisory lock is exclusive between sessions and re-entrant
\* within one.
LockFree(s) == \A t \in Sessions \ {s} : lockDepth[t] = 0

ExecTryLock(s) ==
  /\ wire[s].msg = "try_lock"
  /\ \/ /\ LockFree(s)
        /\ lockDepth' = [lockDepth EXCEPT ![s] = @ + 1]
        /\ Send(s, Ask("granted"))
     \/ /\ ~LockFree(s)
        /\ Send(s, Ask("refused"))
        /\ UNCHANGED lockDepth
  /\ UNCHANGED <<rows, conn, run, up, killEnv, killWanted, now, faults>>

DueRows ==
  {w \in Row : w.id \in Visible /\ w.status \in InFlight /\ rows[w.id] = w.status}

ExecSelect(s) ==
  /\ wire[s].msg = "select"
  /\ Send(s, [msg |-> "selected", rows |-> DueRows])
  /\ UNCHANGED <<rows, lockDepth, conn, run, up, killEnv, killWanted, now, faults>>

ExecUpdate(s) ==
  /\ wire[s].msg = "update"
  /\ \E w \in wire[s].rows : rows' = [rows EXCEPT ![w.id] = w.status]
  /\ Send(s, Ask("updated"))
  /\ UNCHANGED <<lockDepth, conn, run, up, killEnv, killWanted, now, faults>>

ExecUnlock(s) ==
  /\ wire[s].msg = "unlock"
  /\ lockDepth' = [lockDepth EXCEPT ![s] = IF @ > 0 THEN @ - 1 ELSE 0]
  /\ Send(s, Ask("unlocked"))
  /\ UNCHANGED <<rows, conn, run, up, killEnv, killWanted, now, faults>>

\* The server ends a session whose client is gone and frees its lock; what the
\* session had not executed is never executed.
SessionEnds(s) ==
  /\ conn[s] = Orphan
  /\ conn' = [conn EXCEPT ![s] = Closed]
  /\ lockDepth' = [lockDepth EXCEPT ![s] = 0]
  /\ wire' = [wire EXCEPT ![s] = Quiet]
  /\ UNCHANGED <<rows, run, up, killEnv, killWanted, now, faults>>

ServerStep(s) ==
  \/ ExecTryLock(s) \/ ExecSelect(s) \/ ExecUpdate(s) \/ ExecUnlock(s)
  \/ SessionEnds(s)

-----------------------------------------------------------------------------
\* A run of the sweep.

\* The hourly timer calls runGuarded and does not wait for the run before it.
TimerFires(r) ==
  /\ up[ProcOf[r]]
  /\ run[r].pc = "off"
  /\ \E s \in Available(ProcOf[r]) :
       /\ conn' = [conn EXCEPT ![s] = ProcOf[r]]
       /\ Send(s, Ask("try_lock"))
       /\ run' = [run EXCEPT ![r] = Waiting("locking", s)]
  /\ UNCHANGED <<rows, lockDepth, up, killEnv, killWanted, now, faults>>

Received(r, pc, answer) ==
  /\ run[r].pc = pc
  /\ wire[run[r].sess].msg = answer

LockRefused(r) ==
  /\ Received(r, "locking", "refused")
  /\ Send(run[r].sess, Quiet)
  /\ run' = [run EXCEPT ![r] = Off]
  /\ UNCHANGED <<rows, lockDepth, conn, up, killEnv, killWanted, now, faults>>

\* Date.now() is read once, here: it is the run's start and, for the rest of
\* the run, the only time any of its budget checks sees.
LockGranted(r) ==
  /\ Received(r, "locking", "granted")
  /\ Send(run[r].sess, Ask("select"))
  /\ run' = [run EXCEPT ![r].pc = "reading", ![r].tracker = NewTracker(now)]
  /\ UNCHANGED <<rows, lockDepth, conn, up, killEnv, killWanted, now, faults>>

DueRead(r) ==
  /\ Received(r, "reading", "selected")
  /\ Send(run[r].sess, Quiet)
  /\ run' = [run EXCEPT ![r].pc = "sweeping", ![r].due = wire[run[r].sess].rows]
  /\ UNCHANGED <<rows, lockDepth, conn, up, killEnv, killWanted, now, faults>>

\* The check at the top of an iteration.  The one before the write sees the same
\* tracker, nowMs and process.env, with no await in between, so it always agrees.
Stops(r) ==
  ShouldStop(Budget, run[r].tracker, run[r].tracker.startedMs, killEnv[ProcOf[r]])

\* The resolver says "not yet", or the row is not one its event can move.
SkipRow(r) ==
  /\ run[r].pc = "sweeping"
  /\ ~Stops(r)
  /\ \E w \in run[r].due : \E e \in Verdicts[w.id] :
       /\ e = None \/ (e # None /\ ~Advance(w.status, e).changed)
       /\ run' = [run EXCEPT ![r].due = @ \ {w},
                             ![r].tracker = RecordIteration(@)]
  /\ UNCHANGED <<rows, lockDepth, conn, wire, up, killEnv, killWanted, now, faults>>

\* The row moves: setStatus sends an UPDATE by id, whatever the row is by now.
AdvanceRow(r) ==
  /\ run[r].pc = "sweeping"
  /\ ~Stops(r)
  /\ \E w \in run[r].due : \E e \in Verdicts[w.id] \ {None} :
       LET result == Advance(w.status, e) IN
       /\ result.changed
       /\ Send(run[r].sess, [msg  |-> "update",
                             rows |-> {[id |-> w.id, status |-> result.status]}])
       /\ run' = [run EXCEPT ![r].pc = "writing", ![r].due = @ \ {w},
                             ![r].event = e]
  /\ UNCHANGED <<rows, lockDepth, conn, up, killEnv, killWanted, now, faults>>

RecordOutcome(tracker, event) ==
  RecordIteration(IF event \in VerifyFailEvents THEN RecordVerifyFail(tracker)
                                                ELSE RecordVerifyPass(tracker))

RowWritten(r) ==
  /\ Received(r, "writing", "updated")
  /\ Send(run[r].sess, Quiet)
  /\ run' = [run EXCEPT ![r].pc = "sweeping", ![r].event = None,
                        ![r].tracker = RecordOutcome(@, run[r].event)]
  /\ UNCHANGED <<rows, lockDepth, conn, up, killEnv, killWanted, now, faults>>

\* A bug a maintainer could introduce: a return without the unlock.
SweepReturnsHolding(r) ==
  /\ run[r].pc = "sweeping"
  /\ run[r].due = {} \/ Stops(r)
  /\ run' = [run EXCEPT ![r] = Off]
  /\ UNCHANGED <<rows, lockDepth, conn, wire, up, killEnv, killWanted, now, faults>>

\* As if the sweep kept the pool's only client checked out, so that the unlock
\* waits for a connection for good.
SweepReturnsStarved(r) ==
  /\ run[r].pc = "sweeping"
  /\ run[r].due = {} \/ Stops(r)
  /\ run' = [run EXCEPT ![r] = Waiting("unlocking", run[r].sess)]
  /\ UNCHANGED <<rows, lockDepth, conn, wire, up, killEnv, killWanted, now, faults>>

\* The sweep returns, because the rows are done or a limit stopped it, and the
\* finally block sends the unlock.
SweepReturns(r) ==
  /\ run[r].pc = "sweeping"
  /\ run[r].due = {} \/ Stops(r)
  /\ Send(run[r].sess, Ask("unlock"))
  /\ run' = [run EXCEPT ![r] = Waiting("unlocking", run[r].sess)]
  /\ UNCHANGED <<rows, lockDepth, conn, up, killEnv, killWanted, now, faults>>

Unlocked(r) ==
  /\ Received(r, "unlocking", "unlocked")
  /\ Send(run[r].sess, Quiet)
  /\ run' = [run EXCEPT ![r] = Off]
  /\ UNCHANGED <<rows, lockDepth, conn, up, killEnv, killWanted, now, faults>>

RunStep(r) ==
  \/ TimerFires(r) \/ LockRefused(r) \/ LockGranted(r) \/ DueRead(r)
  \/ SkipRow(r) \/ AdvanceRow(r) \/ RowWritten(r)
  \/ SweepReturns(r) \/ Unlocked(r)

-----------------------------------------------------------------------------
\* Failures.  The pool drops a connection whose query failed.

\* A query is rejected or its connection breaks where no finally block is left
\* to run: the run ends.
QueryFailsOutsideSweep(r) ==
  /\ faults < MaxFaults
  /\ run[r].pc \in {"locking", "unlocking"}
  /\ conn' = [conn EXCEPT ![run[r].sess] = Orphan]
  /\ run' = [run EXCEPT ![r] = Off]
  /\ faults' = faults + 1
  /\ UNCHANGED <<rows, lockDepth, wire, up, killEnv, killWanted, now>>

\* The same while the sweep reads or writes: the finally block unlocks, on the
\* connection the pool gives it now.
QueryFailsInSweep(r) ==
  /\ faults < MaxFaults
  /\ run[r].pc \in {"reading", "writing"}
  /\ \E s \in Available(ProcOf[r]) :
       /\ conn' = [conn EXCEPT ![run[r].sess] = Orphan, ![s] = ProcOf[r]]
       /\ Send(s, Ask("unlock"))
       /\ run' = [run EXCEPT ![r] = Waiting("unlocking", s)]
  /\ faults' = faults + 1
  /\ UNCHANGED <<rows, lockDepth, up, killEnv, killWanted, now>>

\* The same when the pool cannot connect either: the unlock throws and the run
\* ends with the lock still held by the session it lost.
DatabaseUnreachable(r) ==
  /\ faults < MaxFaults
  /\ run[r].pc \in {"reading", "writing"}
  /\ conn' = [conn EXCEPT ![run[r].sess] = Orphan]
  /\ run' = [run EXCEPT ![r] = Off]
  /\ faults' = faults + 1
  /\ UNCHANGED <<rows, lockDepth, wire, up, killEnv, killWanted, now>>

\* The pool closes a connection that stayed idle.
ReapIdle(p) ==
  /\ \E s \in Idle(p) : conn' = [conn EXCEPT ![s] = Orphan]
  /\ UNCHANGED <<rows, lockDepth, wire, run, up, killEnv, killWanted, now, faults>>

\* SIGTERM, SIGINT, an idle connection's unhandled error event or a kill: the
\* process exits at once, whatever its runs are waiting for.
Crash(p) ==
  /\ up[p]
  /\ faults < MaxFaults
  /\ up' = [up EXCEPT ![p] = FALSE]
  /\ conn' = [s \in Sessions |-> IF conn[s] = p THEN Orphan ELSE conn[s]]
  /\ run' = [r \in Runs |-> IF ProcOf[r] = p THEN Off ELSE run[r]]
  /\ faults' = faults + 1
  /\ UNCHANGED <<rows, lockDepth, wire, killEnv, killWanted, now>>

\* A replica starts with the environment of its deployment.
Start(p) ==
  /\ ~up[p]
  /\ up' = [up EXCEPT ![p] = TRUE]
  /\ killEnv' = [killEnv EXCEPT ![p] = killWanted]
  /\ UNCHANGED <<rows, lockDepth, conn, wire, run, killWanted, now, faults>>

ProcStep(p) == ReapIdle(p) \/ Crash(p) \/ Start(p)

-----------------------------------------------------------------------------
\* The world around the workers.

\* Someone else moves a row, through advance and in one statement.
OperatorMoves(id, e) ==
  /\ rows[id] \in OperatorFrom
  /\ Advance(rows[id], e).changed
  /\ rows' = [rows EXCEPT ![id] = Advance(rows[id], e).status]
  /\ UNCHANGED <<lockDepth, conn, wire, run, up, killEnv, killWanted, now, faults>>

OperatorKills ==
  /\ CanKill
  /\ ~killWanted
  /\ killWanted' = TRUE
  /\ UNCHANGED <<rows, lockDepth, conn, wire, run, up, killEnv, now, faults>>

ClockTicks ==
  /\ now < MaxClock
  /\ now' = now + 1
  /\ UNCHANGED <<rows, lockDepth, conn, wire, run, up, killEnv, killWanted, faults>>

Environment ==
  \/ \E id \in Ids, e \in Events : OperatorMoves(id, e)
  \/ OperatorKills
  \/ ClockTicks

Next ==
  \/ \E s \in Sessions : ServerStep(s)
  \/ \E r \in Runs : \/ RunStep(r) \/ QueryFailsOutsideSweep(r)
                     \/ QueryFailsInSweep(r) \/ DatabaseUnreachable(r)
  \/ \E p \in Procs : ProcStep(p)
  \/ Environment

\* The server executes what it receives and notices dead clients (keepalive),
\* the timer is periodic and answers are processed, and a supervisor restarts
\* a replica that exited.  Nothing is assumed of failures, of the operator, of
\* the pool's reaper or of the clock.
Fairness ==
  /\ \A s \in Sessions : WF_vars(ServerStep(s))
  /\ \A r \in Runs : WF_vars(RunStep(r))
  /\ \A p \in Procs : WF_vars(Start(p))

Spec == Init /\ [][Next]_vars

FairSpec == Spec /\ Fairness

-----------------------------------------------------------------------------
Sweeping(r) == run[r].pc \in {"reading", "sweeping", "writing"}

\* Single runner across replicas: two runs never sweep at once, and while one
\* sweeps no UPDATE of another, not even one left behind on the connection of a
\* replica that crashed, is still to be executed.
SingleRunner ==
  \A r \in Runs : Sweeping(r) =>
    /\ \A q \in Runs : Sweeping(q) => q = r
    /\ \A s \in Sessions : wire[s].msg = "update" => s = run[r].sess

\* A connection that went back to a pool has given the lock up.  One that kept it
\* would shut every other connection out, and be granted it again, re-entrantly.
NoIdleLock == \A p \in Procs : \A s \in Idle(p) : lockDepth[s] = 0

\* The rows a sweep has still to look at are as it read them: what advance
\* decides on is not stale.
FreshSnapshot ==
  \A r \in Runs : \A w \in run[r].due : rows[w.id] = w.status

\* The ledger as its readers see it follows the lifecycle graph.
Lifecycle == INSTANCE LedgerLifecycle
ImplementsLedger == Lifecycle!Spec

\* A replica that started with APL_SWEEP_KILL=1 never gets to write.
KilledReplicaNeverWrites ==
  \A r \in Runs : run[r].pc = "writing" => ~killEnv[ProcOf[r]]

\* A run never takes in more rows than maxIterations, the row it is writing
\* included, nor goes past the verify failures that should escalate it.
WithinBudget ==
  \A r \in Runs :
    /\ run[r].tracker.iterations + (IF run[r].pc = "writing" THEN 1 ELSE 0)
         <= Budget.maxIterations
    /\ run[r].tracker.consecutiveVerifyFails <= Budget.escalateAfterVerifyFails

-----------------------------------------------------------------------------
\* Why the properties above hold: the inductive invariant of SweepWorkerProofs.

\* What may be in flight on the session of a run that waits at pc.
Awaits(pc, msg) ==
  \/ pc = "locking"   /\ msg \in {"try_lock", "granted", "refused"}
  \/ pc = "reading"   /\ msg \in {"select", "selected"}
  \/ pc = "sweeping"  /\ msg = "quiet"
  \/ pc = "writing"   /\ msg \in {"update", "updated"}
  \/ pc = "unlocking" /\ msg \in {"unlock", "unlocked"}

HoldingMsgs == {"granted", "select", "selected", "update", "updated"}
FreeMsgs    == {"try_lock", "refused", "unlocked"}

\* What is in flight on a session tells whether it holds the lock, once; and a
\* session its pool keeps idle is quiet and does not.
SessionOK(s) ==
  /\ lockDepth[s] \in {0, 1}
  /\ wire[s].msg \in HoldingMsgs => lockDepth[s] = 1
  /\ wire[s].msg \in FreeMsgs => lockDepth[s] = 0
  /\ conn[s] # Orphan /\ ~InUse(s) => wire[s].msg = "quiet" /\ lockDepth[s] = 0

\* A run waits for what is in flight on a session of its replica's pool that no
\* other run uses, and holds the lock between the statements of its sweep.
RunOK(r) ==
  run[r].pc # "off" =>
    /\ conn[run[r].sess] = ProcOf[r]
    /\ Awaits(run[r].pc, wire[run[r].sess].msg)
    /\ run[r].pc = "sweeping" => lockDepth[run[r].sess] = 1
    /\ \A q \in Runs : run[q].sess = run[r].sess => q = r

OneHolder ==
  \A s, t \in Sessions : lockDepth[s] = 1 /\ lockDepth[t] = 1 => s = t

SessionInv ==
  /\ \A s \in Sessions : SessionOK(s)
  /\ \A r \in Runs : RunOK(r)
  /\ OneHolder

\* The rows a sweep has read but not yet looked at are in flight and as it read
\* them, none of them is the row being written, and the UPDATE on its way is an
\* allowed transition of the row as it is.
SnapshotOK(s) ==
  wire[s].msg = "selected" =>
    \A w \in wire[s].rows : w.status \in InFlight /\ rows[w.id] = w.status

UpdateOK(s) ==
  wire[s].msg = "update" =>
    \A u \in wire[s].rows :
      rows[u.id] \in InFlight /\ CanTransition(rows[u.id], u.status)

DueOK(r) ==
  /\ run[r].pc \notin {"sweeping", "writing"} => run[r].due = {}
  /\ \A w \in run[r].due : w.status \in InFlight /\ rows[w.id] = w.status
  /\ run[r].pc = "writing" =>
       \A w \in run[r].due : \A u \in wire[run[r].sess].rows : w.id # u.id

FreshInv ==
  /\ \A s \in Sessions : SnapshotOK(s) /\ UpdateOK(s)
  /\ \A r \in Runs : DueOK(r)

\* A run that writes passed the check before the row: one more row and one more
\* failure fit the budget.
TrackerOK(r) ==
  LET tracker == run[r].tracker IN
  /\ tracker.iterations <= Budget.maxIterations
  /\ tracker.consecutiveVerifyFails <= Budget.escalateAfterVerifyFails
  /\ run[r].pc = "writing" =>
       /\ tracker.iterations < Budget.maxIterations
       /\ tracker.consecutiveVerifyFails < Budget.escalateAfterVerifyFails

\* A replica's switch changes only when the replica starts, and no run outlives
\* its replica.
KillOK(r) ==
  /\ ~up[ProcOf[r]] => run[r].pc = "off"
  /\ run[r].pc = "writing" => ~killEnv[ProcOf[r]]

LimitsInv == \A r \in Runs : TrackerOK(r) /\ KillOK(r)

-----------------------------------------------------------------------------
\* The lock is never kept for good, whoever crashed while holding it.
LockEventuallyFree ==
  \A s \in Sessions : lockDepth[s] > 0 ~> lockDepth[s] = 0

\* The next runs pick up what a failed one left: an in-flight row about which the
\* resolver always has an answer leaves that state.
DecidedRowsAdvance ==
  \A i \in {j \in Visible : None \notin Verdicts[j]} :
    rows[i] \in InFlight ~> rows[i] \notin InFlight

-----------------------------------------------------------------------------
IssuesUpdate(r) == run[r].pc = "sweeping" /\ run'[r].pc = "writing"

\* "Wall-clock ceiling measured from the run start": no write is sent later than
\* timeoutMs after the run began.
TimeoutHaltsSweep ==
  [][\A r \in Runs :
       IssuesUpdate(r) => now - run[r].tracker.startedMs <= Budget.timeoutMs]_vars

\* "flipping it halts an in-flight sweep": no write is sent once the operator has
\* set APL_SWEEP_KILL.
KillHaltsSweep == [][\A r \in Runs : IssuesUpdate(r) => ~killWanted]_vars
=============================================================================
