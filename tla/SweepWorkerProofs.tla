-------------------------- MODULE SweepWorkerProofs --------------------------
(***************************************************************************)
(* What the runs check of SweepWorker on small instances, proved for any   *)
(* number of replicas, runs, sessions and rows, any resolver, any budget   *)
(* and any number of failures.                                             *)
(***************************************************************************)
EXTENDS SweepWorker, TLAPS

\* A run's verdict gives a row another status of the ledger.
LEMMA AdvanceType ==
  ASSUME NEW current \in Statuses, NEW event \in Events
  PROVE  /\ Advance(current, event).status \in Statuses
         /\ Advance(current, event).changed \in BOOLEAN
         /\ Advance(current, event).changed =>
              CanTransition(current, Advance(current, event).status)
<1>1. EventTarget[event] \in Statuses
  BY DEF EventTarget, Events, Statuses
<1> QED
  BY <1>1 DEF Advance, CanTransition

\* A run that is off, and what it holds.
LEMMA OffType ==
  /\ Off \in RunState
  /\ Off.pc = "off" /\ Off.sess = None /\ Off.due = {} /\ Off.event = None
  /\ Off.tracker = NewTracker(0)
BY DEF Off, RunState, PCs, NewTracker, TrackerType

\* A run that waits for an answer, and what it holds.
LEMMA WaitingType ==
  ASSUME NEW pc \in PCs, NEW s \in Sessions
  PROVE  /\ Waiting(pc, s) \in RunState
         /\ Waiting(pc, s).pc = pc /\ Waiting(pc, s).sess = s
         /\ Waiting(pc, s).due = {} /\ Waiting(pc, s).event = None
         /\ Waiting(pc, s).tracker = NewTracker(0)
BY DEF Waiting, Off, RunState, NewTracker, TrackerType

\* A message without rows.
LEMMA AskType ==
  \A m \in {"quiet"} \cup Statements \cup Answers :
    Ask(m) \in Message /\ Ask(m).msg = m /\ Ask(m).rows = {}
BY DEF Ask, Message

\* The silent wire.
LEMMA QuietType == Quiet \in Message /\ Quiet.msg = "quiet" /\ Quiet.rows = {}
BY DEF Quiet, Message

\* Type correctness, one lemma per kind of step.
LEMMA InitTypeOK == Init => TypeOK
<1> SUFFICES ASSUME Init PROVE TypeOK
  OBVIOUS
<1>1. now \in 0..MaxClock /\ faults \in 0..MaxFaults
  BY SetsAssumption DEF Init, SetsAssumption
<1>2. run \in [Runs -> RunState] /\ \A r \in Runs : run[r].pc = "off" /\ run[r].sess = None
  BY OffType DEF Init
<1> QED
  BY <1>1, <1>2, QuietType DEF Init, TypeOK, Statuses

\* A step of the server.
LEMMA ServerTypeOK ==
  ASSUME TypeOK, NEW s \in Sessions, ServerStep(s)
  PROVE  TypeOK'
<1> USE DEF TypeOK
<1>1. CASE ExecTryLock(s)
  BY <1>1, AskType DEF ExecTryLock, Send, Answers
<1>2. CASE ExecSelect(s)
  <2>1. [msg |-> "selected", rows |-> DueRows] \in Message
    BY DEF DueRows, Message, Answers
  <2> QED BY <1>2, <2>1 DEF ExecSelect, Send
<1>3. CASE ExecUpdate(s)
  <2>1. PICK w \in wire[s].rows : rows' = [rows EXCEPT ![w.id] = w.status]
    BY <1>3 DEF ExecUpdate
  <2>2. w \in Row
    BY <2>1 DEF Message
  <2> QED BY <1>3, <2>1, <2>2, AskType DEF ExecUpdate, Send, Answers, Row
<1>4. CASE ExecUnlock(s)
  BY <1>4, AskType DEF ExecUnlock, Send, Answers
<1>5. CASE SessionEnds(s)
  BY <1>5 DEF SessionEnds, Quiet, Message
<1> QED
  BY <1>1, <1>2, <1>3, <1>4, <1>5 DEF ServerStep

\* A tracker stays one.
LEMMA TrackerTypes ==
  ASSUME NEW t \in TrackerType
  PROVE  /\ RecordIteration(t) \in TrackerType
         /\ \A e : RecordOutcome(t, e) \in TrackerType
  BY DEF TrackerType, RecordIteration, RecordOutcome, RecordVerifyFail, RecordVerifyPass

\* A step of a run leaves every other run alone, and its own record is enough
\* to type all of them.
LEMMA RunTyped ==
  ASSUME run \in [Runs -> RunState], NEW r \in Runs, NEW new \in RunState,
         \A q \in Runs : run[q].pc = "off" <=> run[q].sess = None,
         new.pc = "off" <=> new.sess = None,
         run' = [run EXCEPT ![r] = new]
  PROVE  /\ run' \in [Runs -> RunState]
         /\ \A q \in Runs : run'[q].pc = "off" <=> run'[q].sess = None
OBVIOUS

\* A step of a run.
LEMMA RunTypeOK ==
  ASSUME TypeOK, NEW r \in Runs, RunStep(r)
  PROVE  TypeOK'
<1> USE DEF TypeOK
<1> DEFINE me == run[r]
<1>0. /\ me \in RunState
      /\ me.pc # "off" => me.sess \in Sessions
      /\ None \notin Sessions
  BY NamesAssumption DEF NamesAssumption, RunState
<1>a. \A new \in RunState :
        /\ new.pc = "off" <=> new.sess = None
        /\ run' = [run EXCEPT ![r] = new]
        => /\ run' \in [Runs -> RunState]
           /\ \A q \in Runs : run'[q].pc = "off" <=> run'[q].sess = None
  BY RunTyped
<1>1. CASE TimerFires(r)
  <2>1. PICK s \in Sessions :
          /\ conn' = [conn EXCEPT ![s] = ProcOf[r]]
          /\ Send(s, Ask("try_lock"))
          /\ run' = [run EXCEPT ![r] = Waiting("locking", s)]
    BY <1>1 DEF TimerFires, Available, Idle
  <2>2. "locking" \in PCs
    BY DEF PCs
  <2>3. /\ run' \in [Runs -> RunState]
        /\ \A q \in Runs : run'[q].pc = "off" <=> run'[q].sess = None
    BY <2>1, <2>2, <1>a, <1>0, WaitingType
  <2> QED
    BY <1>1, <2>1, <2>3, AskType, SetsAssumption
    DEF TimerFires, Send, Statements, SetsAssumption
<1>2. CASE LockRefused(r)
  BY <1>2, <1>0, <1>a, OffType, QuietType DEF LockRefused, Send
<1>3. CASE LockGranted(r)
  <2> DEFINE new == [me EXCEPT !.pc = "reading", !.tracker = NewTracker(now)]
  <2>0. NewTracker(now) \in TrackerType
    BY SetsAssumption DEF NewTracker, TrackerType, SetsAssumption
  <2>1. new \in RunState /\ new.pc # "off" /\ new.sess # None
    BY <1>0, <1>3, <2>0 DEF LockGranted, Received, RunState, PCs
  <2>2. run' = [run EXCEPT ![r] = new]
    BY <1>3 DEF LockGranted
  <2>3. /\ run' \in [Runs -> RunState]
        /\ \A q \in Runs : run'[q].pc = "off" <=> run'[q].sess = None
    BY <2>1, <2>2, <1>a
  <2> QED
    BY <1>3, <2>3, AskType DEF LockGranted, Send, Statements
<1>4. CASE DueRead(r)
  <2> DEFINE new == [me EXCEPT !.pc = "sweeping", !.due = wire[me.sess].rows]
  <2>1. wire[me.sess] \in Message
    BY <1>0, <1>4 DEF DueRead, Received
  <2>2. new \in RunState /\ new.pc # "off" /\ new.sess # None
    BY <1>0, <1>4, <2>1 DEF DueRead, Received, RunState, PCs, Message
  <2>3. run' = [run EXCEPT ![r] = new]
    BY <1>4 DEF DueRead
  <2>4. /\ run' \in [Runs -> RunState]
        /\ \A q \in Runs : run'[q].pc = "off" <=> run'[q].sess = None
    BY <2>2, <2>3, <1>a
  <2> QED
    BY <1>4, <2>4, QuietType DEF DueRead, Send
<1>5. CASE SkipRow(r)
  <2>1. PICK w \in me.due : run' = [run EXCEPT ![r].due = @ \ {w},
                                               ![r].tracker = RecordIteration(@)]
    BY <1>5 DEF SkipRow
  <2> DEFINE new == [me EXCEPT !.due = @ \ {w}, !.tracker = RecordIteration(@)]
  <2>2. new \in RunState /\ new.pc # "off" /\ new.sess # None
    BY <1>0, <1>5, TrackerTypes DEF SkipRow, RunState
  <2>3. run' = [run EXCEPT ![r] = new]
    BY <2>1
  <2>4. /\ run' \in [Runs -> RunState]
        /\ \A q \in Runs : run'[q].pc = "off" <=> run'[q].sess = None
    BY <2>2, <2>3, <1>a
  <2> QED
    BY <1>5, <2>4 DEF SkipRow
<1>6. CASE AdvanceRow(r)
  <2>1. PICK w \in me.due : \E e \in Verdicts[w.id] \ {None} :
          /\ Send(me.sess, [msg  |-> "update",
                            rows |-> {[id |-> w.id,
                                       status |-> Advance(w.status, e).status]}])
          /\ run' = [run EXCEPT ![r].pc = "writing", ![r].due = @ \ {w},
                                ![r].event = e]
    BY <1>6 DEF AdvanceRow
  <2>2. w \in Row /\ Verdicts[w.id] \ {None} \subseteq Events
    BY <1>0, SetsAssumption DEF RunState, Row, SetsAssumption
  <2>a. PICK e \in Events :
          /\ Send(me.sess, [msg  |-> "update",
                            rows |-> {[id |-> w.id,
                                       status |-> Advance(w.status, e).status]}])
          /\ run' = [run EXCEPT ![r].pc = "writing", ![r].due = @ \ {w},
                                ![r].event = e]
    BY <2>1, <2>2
  <2>3. [msg  |-> "update",
         rows |-> {[id |-> w.id, status |-> Advance(w.status, e).status]}] \in Message
    BY <2>2, AdvanceType DEF Message, Row, Statements
  <2> DEFINE new == [me EXCEPT !.pc = "writing", !.due = @ \ {w}, !.event = e]
  <2>4. new \in RunState /\ new.pc # "off" /\ new.sess # None
    BY <1>0, <1>6, <2>2 DEF AdvanceRow, RunState, PCs
  <2>5. run' = [run EXCEPT ![r] = new]
    BY <2>a
  <2>6. /\ run' \in [Runs -> RunState]
        /\ \A q \in Runs : run'[q].pc = "off" <=> run'[q].sess = None
    BY <2>4, <2>5, <1>a
  <2> QED
    BY <1>6, <2>a, <2>3, <2>6 DEF AdvanceRow, Send
<1>7. CASE RowWritten(r)
  <2> DEFINE new == [me EXCEPT !.pc = "sweeping", !.event = None,
                               !.tracker = RecordOutcome(@, me.event)]
  <2>1. new \in RunState /\ new.pc # "off" /\ new.sess # None
    BY <1>0, <1>7, TrackerTypes DEF RowWritten, Received, RunState, PCs
  <2>2. run' = [run EXCEPT ![r] = new]
    BY <1>7 DEF RowWritten
  <2>3. /\ run' \in [Runs -> RunState]
        /\ \A q \in Runs : run'[q].pc = "off" <=> run'[q].sess = None
    BY <2>1, <2>2, <1>a
  <2> QED
    BY <1>7, <2>3, QuietType DEF RowWritten, Send
<1>8. CASE SweepReturns(r)
  <2>1. "unlocking" \in PCs /\ me.sess \in Sessions
    BY <1>0, <1>8 DEF PCs, SweepReturns
  <2>2. run' = [run EXCEPT ![r] = Waiting("unlocking", me.sess)]
    BY <1>8 DEF SweepReturns
  <2>3. /\ run' \in [Runs -> RunState]
        /\ \A q \in Runs : run'[q].pc = "off" <=> run'[q].sess = None
    BY <2>1, <2>2, <1>0, <1>a, WaitingType
  <2> QED
    BY <1>8, <2>3, AskType DEF SweepReturns, Send, Statements
<1>9. CASE Unlocked(r)
  BY <1>9, <1>0, <1>a, OffType, QuietType DEF Unlocked, Send
<1> QED
  BY <1>1, <1>2, <1>3, <1>4, <1>5, <1>6, <1>7, <1>8, <1>9 DEF RunStep

\* A query that fails.
LEMMA FailureTypeOK ==
  ASSUME TypeOK, NEW r \in Runs,
         QueryFailsOutsideSweep(r) \/ QueryFailsInSweep(r) \/ DatabaseUnreachable(r)
  PROVE  TypeOK'
<1> USE DEF TypeOK
<1>0. faults < MaxFaults => faults + 1 \in 0..MaxFaults
  BY SetsAssumption DEF SetsAssumption
<1>1. CASE QueryFailsOutsideSweep(r)
  BY <1>0, <1>1, OffType DEF QueryFailsOutsideSweep
<1>2. CASE QueryFailsInSweep(r)
  <2>1. PICK s \in Sessions :
          /\ conn' = [conn EXCEPT ![run[r].sess] = Orphan, ![s] = ProcOf[r]]
          /\ Send(s, Ask("unlock"))
          /\ run' = [run EXCEPT ![r] = Waiting("unlocking", s)]
    BY <1>2 DEF QueryFailsInSweep, Available, Idle
  <2>2. "unlocking" \in PCs /\ s # None
    BY NamesAssumption DEF PCs, NamesAssumption
  <2>3. /\ run' \in [Runs -> RunState]
        /\ \A q \in Runs : run'[q].pc = "off" <=> run'[q].sess = None
    BY <2>1, <2>2, WaitingType
  <2> QED
    BY <1>0, <1>2, <2>1, <2>3, AskType, SetsAssumption
    DEF QueryFailsInSweep, Send, Statements, SetsAssumption
<1>3. CASE DatabaseUnreachable(r)
  BY <1>0, <1>3, OffType DEF DatabaseUnreachable
<1> QED
  BY <1>1, <1>2, <1>3

\* A step of a process.
LEMMA ProcTypeOK ==
  ASSUME TypeOK, NEW p \in Procs, ProcStep(p)
  PROVE  TypeOK'
<1> USE DEF TypeOK
<1>1. CASE ReapIdle(p)
  BY <1>1 DEF ReapIdle
<1>2. CASE Crash(p)
  <2>1. faults + 1 \in 0..MaxFaults
    BY <1>2, SetsAssumption DEF Crash, SetsAssumption
  <2> QED
    BY <1>2, <2>1, OffType DEF Crash
<1>3. CASE Start(p)
  BY <1>3 DEF Start
<1> QED
  BY <1>1, <1>2, <1>3 DEF ProcStep

\* A step of the environment.
LEMMA EnvironmentTypeOK == TypeOK /\ Environment => TypeOK'
<1> SUFFICES ASSUME TypeOK, Environment PROVE TypeOK'
  OBVIOUS
<1> USE DEF TypeOK
<1>1. ASSUME NEW id \in Ids, NEW e \in Events, OperatorMoves(id, e) PROVE TypeOK'
  BY <1>1, AdvanceType DEF OperatorMoves
<1>2. CASE OperatorKills
  BY <1>2 DEF OperatorKills
<1>3. CASE ClockTicks
  BY <1>3, SetsAssumption DEF ClockTicks, SetsAssumption
<1> QED
  BY <1>1, <1>2, <1>3 DEF Environment

\* Every variable keeps to its type, for any instance of the constants.
THEOREM TypeCorrect == Spec => []TypeOK
<1>1. TypeOK /\ [Next]_vars => TypeOK'
  <2> SUFFICES ASSUME TypeOK, [Next]_vars PROVE TypeOK'
    OBVIOUS
  <2>1. CASE UNCHANGED vars
    BY <2>1 DEF TypeOK, vars
  <2> QED
    BY <2>1, ServerTypeOK, RunTypeOK, FailureTypeOK, ProcTypeOK, EnvironmentTypeOK DEF Next
<1> QED
  BY <1>1, InitTypeOK, PTL DEF Spec

-----------------------------------------------------------------------------
\* Who holds which session, one lemma per kind of step: at first.
LEMMA InitSession == Init => SessionInv
BY OffType, QuietType
DEF Init, SessionInv, SessionOK, RunOK, OneHolder, HoldingMsgs, FreeMsgs

\* A run that waits has a session.
LEMMA RunHasSession ==
  ASSUME TypeOK
  PROVE  \A r \in Runs : run[r].pc # "off" => run[r].sess \in Sessions
BY DEF TypeOK, RunState

\* A step of the server keeps who holds which session.
LEMMA ServerSession ==
  ASSUME TypeOK, SessionInv, NEW s \in Sessions, ServerStep(s)
  PROVE  SessionInv'
<1> USE DEF TypeOK, InUse, HoldingMsgs, FreeMsgs
<1>0. /\ \A t \in Sessions : SessionOK(t)
      /\ \A q \in Runs : RunOK(q)
      /\ OneHolder
  BY DEF SessionInv
<1>1. CASE ExecTryLock(s)
  <2>1. wire'[s].msg \in {"granted", "refused"} /\ \A t \in Sessions \ {s} : wire'[t] = wire[t]
    BY <1>1, AskType DEF ExecTryLock, Send, Answers
  <2>2. lockDepth'[s] = 1 <=> wire'[s].msg = "granted"
    BY <1>0, <1>1, AskType DEF ExecTryLock, Send, Answers, SessionOK
  <2>3. \A t \in Sessions : SessionOK(t)'
    BY <1>0, <1>1, <2>1, <2>2 DEF ExecTryLock, SessionOK
  <2>4. \A q \in Runs : RunOK(q)'
    BY <1>0, RunHasSession, <1>1, <2>1 DEF ExecTryLock, RunOK, Awaits
  <2>5. OneHolder'
    BY <1>0, <1>1 DEF ExecTryLock, LockFree, OneHolder, SessionOK
  <2> QED
    BY <2>3, <2>4, <2>5 DEF SessionInv
<1>2. CASE ExecSelect(s)
  <2>1. wire'[s].msg = "selected" /\ \A t \in Sessions \ {s} : wire'[t] = wire[t]
    BY <1>2 DEF ExecSelect, Send
  <2>2. \A t \in Sessions : SessionOK(t)'
    BY <1>0, <1>2, <2>1 DEF ExecSelect, SessionOK
  <2>3. \A q \in Runs : RunOK(q)'
    BY <1>0, RunHasSession, <1>2, <2>1 DEF ExecSelect, RunOK, Awaits
  <2> QED
    BY <1>0, <1>2, <2>2, <2>3 DEF SessionInv, ExecSelect, OneHolder
<1>3. CASE ExecUpdate(s)
  <2>1. wire'[s].msg = "updated" /\ \A t \in Sessions \ {s} : wire'[t] = wire[t]
    BY <1>3, AskType DEF ExecUpdate, Send, Answers
  <2>2. \A t \in Sessions : SessionOK(t)'
    BY <1>0, <1>3, <2>1 DEF ExecUpdate, SessionOK
  <2>3. \A q \in Runs : RunOK(q)'
    BY <1>0, RunHasSession, <1>3, <2>1 DEF ExecUpdate, RunOK, Awaits
  <2> QED
    BY <1>0, <1>3, <2>2, <2>3 DEF SessionInv, ExecUpdate, OneHolder
<1>4. CASE ExecUnlock(s)
  <2>1. wire'[s].msg = "unlocked" /\ \A t \in Sessions \ {s} : wire'[t] = wire[t]
    BY <1>4, AskType DEF ExecUnlock, Send, Answers
  <2>2. lockDepth'[s] = 0 /\ \A t \in Sessions \ {s} : lockDepth'[t] = lockDepth[t]
    BY <1>0, <1>4 DEF ExecUnlock, SessionOK
  <2>3. \A t \in Sessions : SessionOK(t)'
    BY <1>0, <1>4, <2>1, <2>2 DEF ExecUnlock, SessionOK
  <2>4. \A q \in Runs : RunOK(q)'
    BY <1>0, RunHasSession, <1>4, <2>1, <2>2 DEF ExecUnlock, RunOK, Awaits
  <2> QED
    BY <1>0, <2>2, <2>3, <2>4 DEF SessionInv, OneHolder
<1>5. CASE SessionEnds(s)
  <2>1. \A q \in Runs : run[q].pc # "off" => run[q].sess # s
    BY <1>0, <1>5, NamesAssumption, SetsAssumption
    DEF SessionEnds, RunOK, NamesAssumption, SetsAssumption
  <2>2. \A t \in Sessions : SessionOK(t)'
    BY <1>0, <1>5, QuietType DEF SessionEnds, SessionOK
  <2>3. \A q \in Runs : RunOK(q)'
    BY <1>0, RunHasSession, <1>5, <2>1 DEF SessionEnds, RunOK
  <2> QED
    BY <1>0, <1>5, <2>2, <2>3 DEF SessionInv, SessionEnds, OneHolder
<1> QED
  BY <1>1, <1>2, <1>3, <1>4, <1>5 DEF ServerStep
\* A run that goes on stays on its session.
LEMMA RunContinues ==
  ASSUME TypeOK, SessionInv, NEW r \in Runs, run[r].pc # "off", NEW new, NEW m,
         run' = [run EXCEPT ![r] = new],
         new.pc # "off", new.sess = run[r].sess,
         wire' = [wire EXCEPT ![run[r].sess] = m],
         Awaits(new.pc, m.msg),
         m.msg \notin FreeMsgs,
         m.msg \in HoldingMsgs \/ new.pc = "sweeping" => lockDepth[run[r].sess] = 1,
         UNCHANGED <<lockDepth, conn>>
  PROVE  SessionInv'
<1> DEFINE s == run[r].sess
<1>0. /\ \A t \in Sessions : SessionOK(t)
      /\ \A q \in Runs : RunOK(q)
      /\ OneHolder
      /\ s \in Sessions
  BY RunHasSession DEF SessionInv
<1>1. /\ \A q \in Runs \ {r} : run'[q] = run[q]
      /\ run'[r] = new
      /\ \A t \in Sessions \ {s} : wire'[t] = wire[t]
      /\ wire'[s] = m
  BY <1>0 DEF TypeOK
<1>2. \A t : InUse(t)' <=> InUse(t)
  BY <1>1 DEF InUse
<1>3. \A t \in Sessions : SessionOK(t)'
  BY <1>0, <1>1, <1>2 DEF SessionOK, InUse
<1>4. \A q \in Runs : RunOK(q)'
  <2>1. RunOK(r)'
    BY <1>0, <1>1 DEF RunOK
  <2>2. ASSUME NEW q \in Runs \ {r} PROVE RunOK(q)'
    BY <1>0, <1>1, RunHasSession DEF RunOK
  <2> QED
    BY <2>1, <2>2
<1> QED
  BY <1>0, <1>3, <1>4 DEF SessionInv, OneHolder

\* A run that ends gives back a session that does not hold the lock.
LEMMA RunEnds ==
  ASSUME TypeOK, SessionInv, NEW r \in Runs, run[r].pc # "off",
         run' = [run EXCEPT ![r] = Off],
         wire' = [wire EXCEPT ![run[r].sess] = Quiet],
         lockDepth[run[r].sess] = 0,
         UNCHANGED <<lockDepth, conn>>
  PROVE  SessionInv'
<1> DEFINE s == run[r].sess
<1>0. /\ \A t \in Sessions : SessionOK(t)
      /\ \A q \in Runs : RunOK(q)
      /\ OneHolder
      /\ s \in Sessions
      /\ None \notin Sessions
  BY RunHasSession, NamesAssumption DEF SessionInv, NamesAssumption
<1>1. /\ \A q \in Runs \ {r} : run'[q] = run[q]
      /\ run'[r].pc = "off" /\ run'[r].sess = None
      /\ \A t \in Sessions \ {s} : wire'[t] = wire[t]
      /\ wire'[s].msg = "quiet"
  BY <1>0, OffType, QuietType DEF TypeOK
<1>2. \A t \in Sessions \ {s} : InUse(t)' <=> InUse(t)
  BY <1>0, <1>1 DEF InUse
<1>3. \A t \in Sessions : SessionOK(t)'
  BY <1>0, <1>1, <1>2 DEF SessionOK, HoldingMsgs, FreeMsgs
<1>4. \A q \in Runs : RunOK(q)'
  BY <1>0, <1>1, RunHasSession DEF RunOK
<1> QED
  BY <1>0, <1>3, <1>4 DEF SessionInv, OneHolder

\* A run that asks its pool for a connection gets one that nobody uses and that
\* does not hold the lock.
LEMMA AvailableUnused ==
  ASSUME TypeOK, SessionInv, NEW p \in Procs, NEW s \in Available(p)
  PROVE  /\ s \in Sessions
         /\ conn[s] = p \/ conn[s] = Closed
         /\ conn[s] # Orphan
         /\ ~InUse(s)
         /\ wire[s].msg = "quiet" /\ lockDepth[s] = 0
<1>1. s \in Sessions /\ (conn[s] = Closed \/ (conn[s] = p /\ ~InUse(s)))
  BY DEF Available, Idle
<1>2. \A r \in Runs : run[r].sess = s => conn[s] = ProcOf[r]
  <2>1. \A r \in Runs : run[r].sess = s => run[r].pc # "off"
    BY <1>1, NamesAssumption DEF NamesAssumption, TypeOK
  <2> QED
    BY <2>1 DEF SessionInv, RunOK
<1>3. ~InUse(s)
  BY <1>1, <1>2, NamesAssumption, SetsAssumption DEF InUse, NamesAssumption, SetsAssumption
<1>4. conn[s] # Orphan
  BY <1>1, NamesAssumption DEF NamesAssumption
<1> QED
  BY <1>1, <1>3, <1>4 DEF SessionInv, SessionOK

\* So does a step of a run.
LEMMA RunSession ==
  ASSUME TypeOK, SessionInv, NEW r \in Runs, RunStep(r)
  PROVE  SessionInv'
<1> DEFINE me == run[r]
<1>0. /\ \A t \in Sessions : SessionOK(t)
      /\ \A q \in Runs : RunOK(q)
      /\ OneHolder
      /\ me.pc # "off" => me.sess \in Sessions
      /\ me \in RunState /\ run \in [Runs -> RunState]
  BY RunHasSession DEF SessionInv, TypeOK
<1>1. CASE TimerFires(r)
  <2>1. PICK s \in Available(ProcOf[r]) :
          /\ conn' = [conn EXCEPT ![s] = ProcOf[r]]
          /\ Send(s, Ask("try_lock"))
          /\ run' = [run EXCEPT ![r] = Waiting("locking", s)]
    BY <1>1 DEF TimerFires
  <2>2. ProcOf[r] \in Procs
    BY SetsAssumption DEF SetsAssumption
  <2>3. /\ s \in Sessions /\ ~InUse(s)
        /\ wire[s].msg = "quiet" /\ lockDepth[s] = 0
        /\ me.pc = "off" /\ me.sess = None /\ s # None
    BY <1>1, <2>1, <2>2, AvailableUnused, NamesAssumption
    DEF TimerFires, TypeOK, NamesAssumption
  <2>4. /\ \A q \in Runs \ {r} : run'[q] = run[q] /\ run[q].sess # s
        /\ run'[r].pc = "locking" /\ run'[r].sess = s
        /\ \A t \in Sessions \ {s} : wire'[t] = wire[t] /\ conn'[t] = conn[t]
        /\ wire'[s].msg = "try_lock" /\ conn'[s] = ProcOf[r]
    BY <1>0, <2>1, <2>3, AskType, WaitingType
    DEF Send, InUse, TypeOK, Statements, PCs
  <2>5. \A t \in Sessions \ {s} : InUse(t)' <=> InUse(t)
    BY <2>3, <2>4, NamesAssumption DEF InUse, NamesAssumption
  <2>6. InUse(s)' /\ lockDepth' = lockDepth
    BY <1>1, <2>4 DEF InUse, TimerFires
  <2>7. \A t \in Sessions : SessionOK(t)'
    BY <1>0, <2>3, <2>4, <2>5, <2>6 DEF SessionOK, HoldingMsgs, FreeMsgs
  <2>8. \A q \in Runs : RunOK(q)'
    BY <1>0, <2>4, <2>6, RunHasSession DEF RunOK, Awaits
  <2> QED
    BY <1>0, <2>6, <2>7, <2>8 DEF SessionInv, OneHolder
<1>2. CASE LockRefused(r)
  <2>1. me.pc # "off" /\ lockDepth[me.sess] = 0
    BY <1>0, <1>2 DEF LockRefused, Received, SessionOK, FreeMsgs
  <2> QED
    BY <1>2, <2>1, RunEnds DEF LockRefused, Send
<1>3. CASE LockGranted(r)
  <2> DEFINE new == [me EXCEPT !.pc = "reading", !.tracker = NewTracker(now)]
             m   == Ask("select")
  <2>1. me.pc # "off" /\ lockDepth[me.sess] = 1
    BY <1>0, <1>3 DEF LockGranted, Received, SessionOK, HoldingMsgs
  <2>2. /\ new.pc = "reading" /\ new.sess = me.sess
        /\ m.msg = "select" /\ Awaits(new.pc, m.msg) /\ m.msg \notin FreeMsgs
    BY <1>0, AskType DEF RunState, Awaits, Statements, FreeMsgs
  <2>3. /\ run' = [run EXCEPT ![r] = new] /\ wire' = [wire EXCEPT ![me.sess] = m]
        /\ UNCHANGED <<lockDepth, conn>>
    BY <1>3 DEF LockGranted, Send
  <2> QED
    BY <2>1, <2>2, <2>3, RunContinues
<1>4. CASE DueRead(r)
  <2> DEFINE new == [me EXCEPT !.pc = "sweeping", !.due = wire[me.sess].rows]
  <2>1. me.pc # "off" /\ lockDepth[me.sess] = 1
    BY <1>0, <1>4 DEF DueRead, Received, SessionOK, HoldingMsgs
  <2>2. /\ new.pc = "sweeping" /\ new.sess = me.sess
        /\ Awaits(new.pc, Quiet.msg) /\ Quiet.msg \notin FreeMsgs
    BY <1>0, QuietType DEF RunState, Awaits, FreeMsgs
  <2>3. /\ run' = [run EXCEPT ![r] = new] /\ wire' = [wire EXCEPT ![me.sess] = Quiet]
        /\ UNCHANGED <<lockDepth, conn>>
    BY <1>4 DEF DueRead, Send
  <2> QED
    BY <2>1, <2>2, <2>3, RunContinues
<1>5. CASE SkipRow(r)
  <2>1. PICK w \in me.due : run' = [run EXCEPT ![r].due = @ \ {w},
                                               ![r].tracker = RecordIteration(@)]
    BY <1>5 DEF SkipRow
  <2> DEFINE new == [me EXCEPT !.due = @ \ {w}, !.tracker = RecordIteration(@)]
             m   == wire[me.sess]
  <2>2. me.pc = "sweeping" /\ lockDepth[me.sess] = 1 /\ m.msg = "quiet"
    BY <1>0, <1>5 DEF SkipRow, RunOK, Awaits
  <2>3. /\ new.pc = "sweeping" /\ new.sess = me.sess
        /\ Awaits(new.pc, m.msg) /\ m.msg \notin FreeMsgs
    BY <1>0, <2>2 DEF RunState, Awaits, FreeMsgs
  <2>4. /\ run' = [run EXCEPT ![r] = new] /\ wire' = [wire EXCEPT ![me.sess] = m]
        /\ UNCHANGED <<lockDepth, conn>>
    BY <1>0, <1>5, <2>1, <2>2 DEF SkipRow, TypeOK
  <2> QED
    BY <2>2, <2>3, <2>4, RunContinues
<1>6. CASE AdvanceRow(r)
  <2>1. PICK w \in me.due : \E e \in Verdicts[w.id] \ {None} :
          /\ Send(me.sess, [msg  |-> "update",
                            rows |-> {[id |-> w.id,
                                       status |-> Advance(w.status, e).status]}])
          /\ run' = [run EXCEPT ![r].pc = "writing", ![r].due = @ \ {w},
                                ![r].event = e]
    BY <1>6 DEF AdvanceRow
  <2>2. PICK e :
          /\ Send(me.sess, [msg  |-> "update",
                            rows |-> {[id |-> w.id,
                                       status |-> Advance(w.status, e).status]}])
          /\ run' = [run EXCEPT ![r].pc = "writing", ![r].due = @ \ {w},
                                ![r].event = e]
    BY <2>1
  <2> DEFINE new == [me EXCEPT !.pc = "writing", !.due = @ \ {w}, !.event = e]
             m   == [msg  |-> "update",
                     rows |-> {[id |-> w.id, status |-> Advance(w.status, e).status]}]
  <2>3. me.pc = "sweeping" /\ lockDepth[me.sess] = 1
    BY <1>0, <1>6 DEF AdvanceRow, RunOK
  <2>4. /\ new.pc = "writing" /\ new.sess = me.sess
        /\ Awaits(new.pc, m.msg) /\ m.msg \notin FreeMsgs
    BY <1>0 DEF RunState, Awaits, FreeMsgs
  <2>5. /\ run' = [run EXCEPT ![r] = new] /\ wire' = [wire EXCEPT ![me.sess] = m]
        /\ UNCHANGED <<lockDepth, conn>>
    BY <1>6, <2>2 DEF AdvanceRow, Send
  <2> QED
    BY <2>3, <2>4, <2>5, RunContinues
<1>7. CASE RowWritten(r)
  <2> DEFINE new == [me EXCEPT !.pc = "sweeping", !.event = None,
                               !.tracker = RecordOutcome(@, me.event)]
  <2>1. me.pc # "off" /\ lockDepth[me.sess] = 1
    BY <1>0, <1>7 DEF RowWritten, Received, SessionOK, HoldingMsgs
  <2>2. /\ new.pc = "sweeping" /\ new.sess = me.sess
        /\ Awaits(new.pc, Quiet.msg) /\ Quiet.msg \notin FreeMsgs
    BY <1>0, QuietType DEF RunState, Awaits, FreeMsgs
  <2>3. /\ run' = [run EXCEPT ![r] = new] /\ wire' = [wire EXCEPT ![me.sess] = Quiet]
        /\ UNCHANGED <<lockDepth, conn>>
    BY <1>7 DEF RowWritten, Send
  <2> QED
    BY <2>1, <2>2, <2>3, RunContinues
<1>8. CASE SweepReturns(r)
  <2> DEFINE new == Waiting("unlocking", me.sess)
             m   == Ask("unlock")
  <2>1. me.pc # "off" /\ me.sess \in Sessions
    BY <1>0, <1>8 DEF SweepReturns
  <2>2. new.pc = "unlocking" /\ new.sess = me.sess /\ m.msg = "unlock"
    BY <2>1, WaitingType, AskType DEF PCs, Statements
  <2>3. /\ Awaits(new.pc, m.msg) /\ m.msg \notin FreeMsgs
        /\ m.msg \notin HoldingMsgs
    BY <2>2 DEF Awaits, FreeMsgs, HoldingMsgs
  <2>4. /\ run' = [run EXCEPT ![r] = new] /\ wire' = [wire EXCEPT ![me.sess] = m]
        /\ UNCHANGED <<lockDepth, conn>>
    BY <1>8 DEF SweepReturns, Send
  <2> HIDE DEF new, m
  <2> QED
    BY <2>1, <2>2, <2>3, <2>4, RunContinues
<1>9. CASE Unlocked(r)
  <2>1. me.pc # "off" /\ lockDepth[me.sess] = 0
    BY <1>0, <1>9 DEF Unlocked, Received, SessionOK, FreeMsgs
  <2> QED
    BY <1>9, <2>1, RunEnds DEF Unlocked, Send
<1> QED
  BY <1>1, <1>2, <1>3, <1>4, <1>5, <1>6, <1>7, <1>8, <1>9 DEF RunStep
\* A run that loses its session leaves it to the server, whatever it holds.
LEMMA FailureSession ==
  ASSUME TypeOK, SessionInv, NEW r \in Runs,
         QueryFailsOutsideSweep(r) \/ QueryFailsInSweep(r) \/ DatabaseUnreachable(r)
  PROVE  SessionInv'
<1> DEFINE lost == run[r].sess
<1>0. /\ \A t \in Sessions : SessionOK(t)
      /\ \A q \in Runs : RunOK(q)
      /\ OneHolder
      /\ run[r].pc # "off" /\ lost \in Sessions /\ None \notin Sessions
      /\ ProcOf[r] \in Procs
      /\ \A q \in Runs \ {r} : run[q].sess # lost
  BY RunHasSession, NamesAssumption, SetsAssumption
  DEF SessionInv, RunOK, QueryFailsOutsideSweep, QueryFailsInSweep, DatabaseUnreachable,
      NamesAssumption, SetsAssumption
<1>1. CASE QueryFailsOutsideSweep(r) \/ DatabaseUnreachable(r)
  <2>1. /\ \A q \in Runs \ {r} : run'[q] = run[q]
        /\ run'[r].pc = "off" /\ run'[r].sess = None
        /\ \A t \in Sessions \ {lost} : conn'[t] = conn[t]
        /\ conn'[lost] = Orphan
        /\ wire' = wire /\ lockDepth' = lockDepth
    BY <1>0, <1>1, OffType DEF QueryFailsOutsideSweep, DatabaseUnreachable, TypeOK
  <2>2. \A t \in Sessions \ {lost} : InUse(t)' <=> InUse(t)
    BY <1>0, <2>1 DEF InUse
  <2>3. \A t \in Sessions : SessionOK(t)'
    BY <1>0, <2>1, <2>2 DEF SessionOK
  <2>4. \A q \in Runs : RunOK(q)'
    BY <1>0, <2>1, RunHasSession DEF RunOK
  <2> QED
    BY <1>0, <2>1, <2>3, <2>4 DEF SessionInv, OneHolder
<1>2. CASE QueryFailsInSweep(r)
  <2>1. PICK s \in Available(ProcOf[r]) :
          /\ conn' = [conn EXCEPT ![lost] = Orphan, ![s] = ProcOf[r]]
          /\ Send(s, Ask("unlock"))
          /\ run' = [run EXCEPT ![r] = Waiting("unlocking", s)]
    BY <1>2 DEF QueryFailsInSweep
  <2>2. /\ s \in Sessions /\ ~InUse(s) /\ s # lost
        /\ wire[s].msg = "quiet" /\ lockDepth[s] = 0 /\ lockDepth' = lockDepth
    BY <1>0, <1>2, <2>1, AvailableUnused DEF QueryFailsInSweep, InUse
  <2>3. /\ \A q \in Runs \ {r} : run'[q] = run[q] /\ run[q].sess # s
        /\ run'[r].pc = "unlocking" /\ run'[r].sess = s
        /\ \A t \in Sessions \ {s} : wire'[t] = wire[t]
        /\ wire'[s].msg = "unlock"
    BY <2>1, <2>2, AskType, WaitingType DEF Send, InUse, TypeOK, Statements, PCs
  <2>4. /\ \A t \in Sessions \ {s, lost} : conn'[t] = conn[t]
        /\ conn'[lost] = Orphan /\ conn'[s] = ProcOf[r]
    BY <1>0, <2>1, <2>2 DEF TypeOK
  <2>5. \A t \in Sessions \ {s, lost} : InUse(t)' <=> InUse(t)
    BY <1>0, <2>2, <2>3 DEF InUse
  <2>6. InUse(s)'
    BY <2>3 DEF InUse
  <2>7. \A t \in Sessions : SessionOK(t)'
    BY <1>0, <2>2, <2>3, <2>4, <2>5, <2>6 DEF SessionOK, HoldingMsgs, FreeMsgs
  <2>8. \A q \in Runs : RunOK(q)'
    BY <1>0, <2>2, <2>3, <2>4, RunHasSession DEF RunOK, Awaits
  <2> QED
    BY <1>0, <2>2, <2>7, <2>8 DEF SessionInv, OneHolder
<1> QED
  BY <1>1, <1>2

\* So does a step of a process.
LEMMA ProcSession ==
  ASSUME TypeOK, SessionInv, NEW p \in Procs, ProcStep(p)
  PROVE  SessionInv'
<1>0. /\ \A t \in Sessions : SessionOK(t)
      /\ \A q \in Runs : RunOK(q)
      /\ OneHolder
  BY DEF SessionInv
<1>1. CASE ReapIdle(p)
  <2>1. PICK s \in Idle(p) : conn' = [conn EXCEPT ![s] = Orphan]
    BY <1>1 DEF ReapIdle
  <2>2. s \in Sessions /\ ~InUse(s) /\ UNCHANGED <<run, wire, lockDepth>>
    BY <1>1, <2>1 DEF Idle, ReapIdle
  <2>3. \A t \in Sessions : SessionOK(t)'
    BY <1>0, <2>1, <2>2 DEF SessionOK, InUse, TypeOK
  <2>4. \A q \in Runs : RunOK(q)'
    BY <1>0, <2>1, <2>2, RunHasSession DEF RunOK, InUse, TypeOK
  <2> QED
    BY <1>0, <2>2, <2>3, <2>4 DEF SessionInv, OneHolder
<1>2. CASE Crash(p)
  <2>1. /\ UNCHANGED <<wire, lockDepth>>
        /\ \A t \in Sessions : conn'[t] = IF conn[t] = p THEN Orphan ELSE conn[t]
        /\ \A q \in Runs : IF ProcOf[q] = p THEN run'[q].pc = "off" /\ run'[q].sess = None
                                            ELSE run'[q] = run[q]
    BY <1>2, OffType DEF Crash
  <2>2. \A t \in Sessions : conn'[t] # Orphan => (InUse(t)' <=> InUse(t))
    <3>1. ASSUME NEW t \in Sessions, conn'[t] # Orphan, NEW q \in Runs, run[q].sess = t
          PROVE  run'[q].sess = t
      <4>1. run[q].pc # "off"
        BY <3>1, NamesAssumption DEF TypeOK, NamesAssumption
      <4>2. conn[t] = ProcOf[q]
        BY <1>0, <3>1, <4>1 DEF RunOK
      <4> QED
        BY <2>1, <3>1, <4>2
    <3>2. ASSUME NEW t \in Sessions, NEW q \in Runs, run'[q].sess = t
          PROVE  run[q].sess = t
      BY <2>1, <3>2, NamesAssumption DEF NamesAssumption
    <3> QED
      BY <3>1, <3>2 DEF InUse
  <2>3. \A t \in Sessions : SessionOK(t)'
    BY <1>0, <2>1, <2>2 DEF SessionOK
  <2>4. \A q \in Runs : RunOK(q)'
    BY <1>0, <2>1, RunHasSession, NamesAssumption DEF RunOK, NamesAssumption
  <2> QED
    BY <1>0, <2>1, <2>3, <2>4 DEF SessionInv, OneHolder
<1>3. CASE Start(p)
  BY <1>0, <1>3 DEF Start, SessionInv, SessionOK, RunOK, OneHolder, InUse
<1> QED
  BY <1>1, <1>2, <1>3 DEF ProcStep

\* The environment holds none.
LEMMA EnvironmentSession == SessionInv /\ Environment => SessionInv'
BY DEF Environment, OperatorMoves, OperatorKills, ClockTicks,
       SessionInv, SessionOK, RunOK, OneHolder, InUse

\* Runs wait on sessions of their own for what is in flight there, and one session at
\* most holds the lock, while its run sweeps.
THEOREM SessionCorrect == Spec => []SessionInv
<1>1. TypeOK /\ SessionInv /\ [Next]_vars => SessionInv'
  <2> SUFFICES ASSUME TypeOK, SessionInv, [Next]_vars PROVE SessionInv'
    OBVIOUS
  <2>1. CASE UNCHANGED vars
    BY <2>1 DEF SessionInv, SessionOK, RunOK, OneHolder, InUse, vars
  <2> QED
    BY <2>1, ServerSession, RunSession, FailureSession, ProcSession, EnvironmentSession DEF Next
<1> QED
  BY <1>1, InitSession, TypeCorrect, PTL DEF Spec

\* Two runs never sweep at once, on any replicas, and no UPDATE but the sweeping
\* run's own is ever in flight, however many runs failed and replicas crashed.
THEOREM SingleRunnerHolds == Spec => []SingleRunner
<1>1. TypeOK /\ SessionInv => SingleRunner
  <2> SUFFICES ASSUME TypeOK, SessionInv, NEW r \in Runs, Sweeping(r)
               PROVE  /\ \A q \in Runs : Sweeping(q) => q = r
                      /\ \A s \in Sessions : wire[s].msg = "update" => s = run[r].sess
    BY DEF SingleRunner
  <2>1. \A q \in Runs : Sweeping(q) => run[q].sess \in Sessions /\ lockDepth[run[q].sess] = 1
    BY RunHasSession DEF Sweeping, SessionInv, RunOK, SessionOK, Awaits, HoldingMsgs
  <2>2. \A s \in Sessions : wire[s].msg = "update" => lockDepth[s] = 1
    BY DEF SessionInv, SessionOK, HoldingMsgs
  <2>3. \A s \in Sessions : lockDepth[s] = 1 => s = run[r].sess
    BY <2>1 DEF SessionInv, OneHolder
  <2>4. \A q \in Runs : Sweeping(q) => q = r
    BY <2>1, <2>3 DEF SessionInv, RunOK, Sweeping
  <2> QED
    BY <2>2, <2>3, <2>4
<1> QED
  BY <1>1, TypeCorrect, SessionCorrect, PTL

\* A connection back in its pool never holds the lock.
THEOREM NoIdleLockHolds == Spec => []NoIdleLock
<1>1. SessionInv => NoIdleLock
  BY NamesAssumption DEF SessionInv, SessionOK, NoIdleLock, Idle, NamesAssumption
<1> QED
  BY <1>1, SessionCorrect, PTL
-----------------------------------------------------------------------------
\* From here on: nobody but the sweep moves a row that is in flight.
SweepOwnsInFlight == OperatorFrom \cap InFlight = {}

\* What is left of a sweep is as it was read, one lemma per kind of step: at first.
LEMMA InitFresh == Init => FreshInv
BY OffType, QuietType DEF Init, FreshInv, SnapshotOK, UpdateOK, DueOK

\* The one step that writes: the rows that are still to be looked at are other
\* rows, and no other session has read or is about to write.
LEMMA UpdateFresh ==
  ASSUME TypeOK, SessionInv, FreshInv, NEW s \in Sessions, ExecUpdate(s)
  PROVE  FreshInv'
<1>1. PICK u \in wire[s].rows : rows' = [rows EXCEPT ![u.id] = u.status]
  BY DEF ExecUpdate
<1>2. \A i \in Ids : i # u.id => rows'[i] = rows[i]
  BY <1>1 DEF TypeOK
<1>3. /\ wire'[s].msg = "updated" /\ wire'[s].rows = {}
      /\ \A t \in Sessions \ {s} : wire'[t] = wire[t]
      /\ run' = run /\ lockDepth[s] = 1
  BY AskType DEF ExecUpdate, Send, Answers, TypeOK, SessionInv, SessionOK, HoldingMsgs
<1>4. \A t \in Sessions \ {s} : wire[t].msg \notin HoldingMsgs
  BY <1>3 DEF SessionInv, SessionOK, OneHolder
<1>5. \A t \in Sessions : SnapshotOK(t)' /\ UpdateOK(t)'
  BY <1>3, <1>4 DEF SnapshotOK, UpdateOK, HoldingMsgs
<1>6. ASSUME NEW q \in Runs, run[q].due # {}
      PROVE  run[q].pc = "writing" /\ run[q].sess = s
  <2>1. run[q].pc \in {"sweeping", "writing"} /\ run[q].sess \in Sessions
    BY <1>6, RunHasSession DEF FreshInv, DueOK
  <2>2. lockDepth[run[q].sess] = 1
    BY <2>1 DEF SessionInv, RunOK, SessionOK, Awaits, HoldingMsgs
  <2>3. run[q].sess = s
    BY <1>3, <2>1, <2>2 DEF SessionInv, OneHolder
  <2> QED
    BY <2>1, <2>3 DEF SessionInv, RunOK, Awaits, ExecUpdate
<1>7. ASSUME NEW q \in Runs PROVE DueOK(q)'
  <2>1. CASE run[q].due = {}
    BY <1>3, <2>1 DEF DueOK
  <2>2. CASE run[q].due # {}
    <3>1. run[q].pc = "writing" /\ run[q].sess = s
      BY <1>6, <2>2
    <3>2. \A w \in run[q].due :
            w \in Row /\ w.id # u.id /\ w.status \in InFlight /\ rows[w.id] = w.status
      BY <1>1, <3>1 DEF FreshInv, DueOK, TypeOK, RunState
    <3>3. \A w \in run[q].due : rows'[w.id] = w.status
      BY <1>2, <3>2 DEF Row
    <3> QED
      BY <1>3, <3>1, <3>2, <3>3 DEF DueOK
  <2> QED
    BY <2>1, <2>2
<1> QED
  BY <1>5, <1>7 DEF FreshInv

\* A step of the server keeps it.
LEMMA ServerFresh ==
  ASSUME TypeOK, SessionInv, FreshInv, NEW s \in Sessions, ServerStep(s)
  PROVE  FreshInv'
<1>0. /\ \A t \in Sessions : SnapshotOK(t) /\ UpdateOK(t)
      /\ \A q \in Runs : DueOK(q) /\ (run[q].pc # "off" => run[q].sess \in Sessions)
  BY RunHasSession DEF FreshInv
<1>1. CASE ExecTryLock(s) \/ ExecUnlock(s) \/ SessionEnds(s)
  <2>1. /\ wire'[s].msg \notin {"selected", "update"} /\ wire'[s].rows = {}
        /\ \A t \in Sessions \ {s} : wire'[t] = wire[t]
        /\ UNCHANGED <<rows, run>>
    BY <1>1, AskType, QuietType
    DEF ExecTryLock, ExecUnlock, SessionEnds, Send, Answers, TypeOK
  <2> QED
    BY <1>0, <2>1 DEF FreshInv, SnapshotOK, UpdateOK, DueOK
<1>2. CASE ExecSelect(s)
  <2>1. /\ wire'[s].msg = "selected" /\ wire'[s].rows = DueRows
        /\ \A t \in Sessions \ {s} : wire'[t] = wire[t]
        /\ UNCHANGED <<rows, run>>
    BY <1>2 DEF ExecSelect, Send, TypeOK
  <2>2. \A q \in Runs : run[q].pc = "writing" => run[q].sess # s
    BY <1>2 DEF ExecSelect, SessionInv, RunOK, Awaits
  <2>3. \A t \in Sessions : SnapshotOK(t)' /\ UpdateOK(t)'
    BY <1>0, <2>1 DEF SnapshotOK, UpdateOK, DueRows
  <2>4. \A q \in Runs : DueOK(q)'
    BY <1>0, <2>1, <2>2 DEF DueOK
  <2> QED
    BY <2>3, <2>4 DEF FreshInv
<1>3. CASE ExecUpdate(s)
  BY <1>3, UpdateFresh
<1> QED
  BY <1>1, <1>2, <1>3 DEF ServerStep
\* A step of run r that leaves the ledger alone, sends m on session s and becomes
\* new; and what makes it keep everybody's rows fresh.
LocalStep(r, s, m, new) ==
  /\ s \in Sessions /\ m \in Message /\ new \in RunState
  /\ UNCHANGED rows
  /\ wire' = [wire EXCEPT ![s] = m]
  /\ run' = [run EXCEPT ![r] = new]
  /\ \A q \in Runs \ {r} : run[q].sess # s

KeepsFresh(s, m, new) ==
  /\ m.msg # "selected"
  /\ m.msg = "update" =>
       \A u \in m.rows : rows[u.id] \in InFlight /\ CanTransition(rows[u.id], u.status)
  /\ new.pc \notin {"sweeping", "writing"} => new.due = {}
  /\ \A w \in new.due : w.status \in InFlight /\ rows[w.id] = w.status
  /\ new.pc = "writing" =>
       new.sess = s /\ \A w \in new.due : \A u \in m.rows : w.id # u.id

\* So does a step of a run that writes no row,
LEMMA LocalStepFresh ==
  ASSUME TypeOK, FreshInv, NEW r \in Runs, NEW s, NEW m, NEW new,
         LocalStep(r, s, m, new), KeepsFresh(s, m, new)
  PROVE  FreshInv'
<1>0. /\ \A t \in Sessions : SnapshotOK(t) /\ UpdateOK(t)
      /\ \A q \in Runs : DueOK(q) /\ (run[q].pc # "off" => run[q].sess \in Sessions)
  BY RunHasSession DEF FreshInv
<1>1. /\ wire'[s] = m /\ \A t \in Sessions \ {s} : wire'[t] = wire[t]
      /\ run'[r] = new /\ \A q \in Runs \ {r} : run'[q] = run[q] /\ run[q].sess # s
      /\ rows' = rows
  BY DEF TypeOK, LocalStep
<1>2. \A t \in Sessions : SnapshotOK(t)' /\ UpdateOK(t)'
  BY <1>0, <1>1 DEF SnapshotOK, UpdateOK, KeepsFresh
<1>3. DueOK(r)'
  BY <1>1 DEF DueOK, KeepsFresh
<1>4. \A q \in Runs \ {r} : DueOK(q)'
  BY <1>0, <1>1 DEF DueOK
<1> QED
  BY <1>2, <1>3, <1>4 DEF FreshInv

\* No other run waits on a session a run uses, or is given by its pool.
LEMMA OnlyMine ==
  ASSUME TypeOK, SessionInv, NEW r \in Runs, run[r].pc # "off"
  PROVE  \A q \in Runs \ {r} : run[q].sess # run[r].sess
BY DEF SessionInv, RunOK

\* and so does every step of a run.
LEMMA RunFresh ==
  ASSUME TypeOK, SessionInv, FreshInv, NEW r \in Runs, RunStep(r)
  PROVE  FreshInv'
<1> DEFINE me == run[r]
<1>0. /\ me \in RunState /\ DueOK(r)
      /\ me.pc # "off" => me.sess \in Sessions
      /\ me.pc # "off" => \A q \in Runs \ {r} : run[q].sess # me.sess
  BY RunHasSession, OnlyMine DEF TypeOK, FreshInv
<1>1. CASE TimerFires(r)
  <2>1. PICK s \in Available(ProcOf[r]) :
          /\ Send(s, Ask("try_lock"))
          /\ run' = [run EXCEPT ![r] = Waiting("locking", s)]
    BY <1>1 DEF TimerFires
  <2>2. s \in Sessions /\ \A q \in Runs : run[q].sess # s
    BY <2>1, AvailableUnused, SetsAssumption DEF InUse, SetsAssumption
  <2> DEFINE new == Waiting("locking", s)
             m   == Ask("try_lock")
  <2>3. /\ new \in RunState /\ new.pc = "locking" /\ new.due = {}
        /\ m \in Message /\ m.msg = "try_lock"
    BY <2>2, WaitingType, AskType DEF PCs, Statements
  <2>4. rows' = rows /\ wire' = [wire EXCEPT ![s] = m] /\ run' = [run EXCEPT ![r] = new]
    BY <1>1, <2>1 DEF TimerFires, Send
  <2>a. LocalStep(r, s, m, new)
    BY <2>2, <2>3, <2>4 DEF LocalStep
  <2>b. KeepsFresh(s, m, new)
    BY <2>3 DEF KeepsFresh
  <2> QED
    BY <2>a, <2>b, LocalStepFresh
<1>2. CASE LockRefused(r) \/ Unlocked(r)
  <2>1. /\ me.pc # "off" /\ rows' = rows /\ wire' = [wire EXCEPT ![me.sess] = Quiet]
        /\ run' = [run EXCEPT ![r] = Off]
    BY <1>2 DEF LockRefused, Unlocked, Received, Send
  <2>2. LocalStep(r, me.sess, Quiet, Off)
    BY <1>0, <2>1, OffType, QuietType DEF LocalStep
  <2>3. KeepsFresh(me.sess, Quiet, Off)
    BY OffType, QuietType DEF KeepsFresh
  <2> QED
    BY <2>2, <2>3, LocalStepFresh
<1>3. CASE LockGranted(r)
  <2> DEFINE new == [me EXCEPT !.pc = "reading", !.tracker = NewTracker(now)]
             m   == Ask("select")
  <2>1. me.pc = "locking" /\ me.due = {}
    BY <1>0, <1>3 DEF LockGranted, Received, DueOK
  <2>2. NewTracker(now) \in TrackerType
    BY SetsAssumption DEF TypeOK, NewTracker, TrackerType, SetsAssumption
  <2>3. /\ new \in RunState /\ new.pc = "reading" /\ new.due = {}
        /\ m \in Message /\ m.msg = "select"
    BY <1>0, <2>1, <2>2, AskType DEF RunState, PCs, Statements
  <2>4. rows' = rows /\ wire' = [wire EXCEPT ![me.sess] = m] /\ run' = [run EXCEPT ![r] = new]
    BY <1>3 DEF LockGranted, Send
  <2>a. LocalStep(r, me.sess, m, new)
    BY <1>0, <2>1, <2>3, <2>4 DEF LocalStep
  <2>b. KeepsFresh(me.sess, m, new)
    BY <2>3 DEF KeepsFresh
  <2> QED
    BY <2>a, <2>b, LocalStepFresh
<1>4. CASE DueRead(r)
  <2> DEFINE new == [me EXCEPT !.pc = "sweeping", !.due = wire[me.sess].rows]
  <2>1. me.pc = "reading" /\ wire[me.sess].msg = "selected"
    BY <1>4 DEF DueRead, Received
  <2>2. wire[me.sess] \in Message /\ SnapshotOK(me.sess)
    BY <1>0, <2>1 DEF TypeOK, FreshInv
  <2>3. /\ new \in RunState /\ new.pc = "sweeping"
        /\ \A w \in new.due : w.status \in InFlight /\ rows[w.id] = w.status
    BY <1>0, <2>1, <2>2 DEF RunState, PCs, Message, SnapshotOK
  <2>4. rows' = rows /\ wire' = [wire EXCEPT ![me.sess] = Quiet] /\ run' = [run EXCEPT ![r] = new]
    BY <1>4 DEF DueRead, Send
  <2>a. LocalStep(r, me.sess, Quiet, new)
    BY <1>0, <2>1, <2>3, <2>4, QuietType DEF LocalStep
  <2>b. KeepsFresh(me.sess, Quiet, new)
    BY <2>3, QuietType DEF KeepsFresh
  <2> QED
    BY <2>a, <2>b, LocalStepFresh
<1>5. CASE SkipRow(r)
  <2>1. PICK w \in me.due : run' = [run EXCEPT ![r].due = @ \ {w},
                                               ![r].tracker = RecordIteration(@)]
    BY <1>5 DEF SkipRow
  <2> DEFINE new == [me EXCEPT !.due = @ \ {w}, !.tracker = RecordIteration(@)]
             m   == wire[me.sess]
  <2>2. me.pc = "sweeping" /\ m \in Message /\ m.msg = "quiet"
    BY <1>0, <1>5 DEF SkipRow, SessionInv, RunOK, Awaits, TypeOK
  <2>3. /\ new \in RunState /\ new.pc = "sweeping" /\ new.due \subseteq me.due
    BY <1>0, <2>2, TrackerTypes DEF RunState
  <2>4. rows' = rows /\ wire' = [wire EXCEPT ![me.sess] = m] /\ run' = [run EXCEPT ![r] = new]
    BY <1>0, <1>5, <2>1, <2>2 DEF SkipRow, TypeOK
  <2>a. LocalStep(r, me.sess, m, new)
    BY <1>0, <2>2, <2>3, <2>4 DEF LocalStep
  <2>b. KeepsFresh(me.sess, m, new)
    BY <1>0, <2>2, <2>3 DEF KeepsFresh, DueOK
  <2> QED
    BY <2>a, <2>b, LocalStepFresh
<1>6. CASE AdvanceRow(r)
  <2>1. PICK w \in me.due : \E e \in Verdicts[w.id] \ {None} :
          /\ Advance(w.status, e).changed
          /\ Send(me.sess, [msg  |-> "update",
                            rows |-> {[id |-> w.id,
                                       status |-> Advance(w.status, e).status]}])
          /\ run' = [run EXCEPT ![r].pc = "writing", ![r].due = @ \ {w},
                                ![r].event = e]
    BY <1>6 DEF AdvanceRow
  <2>2. w \in Row /\ Verdicts[w.id] \ {None} \subseteq Events
    BY <1>0, SetsAssumption DEF RunState, Row, SetsAssumption
  <2>3. PICK e \in Events :
          /\ Advance(w.status, e).changed
          /\ Send(me.sess, [msg  |-> "update",
                            rows |-> {[id |-> w.id,
                                       status |-> Advance(w.status, e).status]}])
          /\ run' = [run EXCEPT ![r].pc = "writing", ![r].due = @ \ {w},
                                ![r].event = e]
    BY <2>1, <2>2
  <2> DEFINE to  == Advance(w.status, e).status
             new == [me EXCEPT !.pc = "writing", !.due = @ \ {w}, !.event = e]
             m   == [msg  |-> "update", rows |-> {[id |-> w.id, status |-> to]}]
  <2>4. /\ me.pc = "sweeping" /\ w.status \in InFlight /\ rows[w.id] = w.status
        /\ \A v \in me.due : v \in Row /\ rows[v.id] = v.status /\ v.status \in InFlight
    BY <1>0, <1>6 DEF AdvanceRow, DueOK, RunState
  <2>5. to \in Statuses /\ CanTransition(w.status, to)
    BY <2>2, <2>3, AdvanceType DEF Row
  <2>6. \A v \in me.due \ {w} : v.id # w.id
    BY <2>2, <2>4 DEF Row
  <2>7. new \in RunState /\ new.pc = "writing" /\ new.sess = me.sess /\ new.due = me.due \ {w}
    BY <1>0, <2>3 DEF RunState, PCs
  <2>8. m \in Message /\ m.msg = "update" /\ m.rows = {[id |-> w.id, status |-> to]}
    BY <2>2, <2>5 DEF Message, Row, Statements
  <2>9. rows' = rows /\ wire' = [wire EXCEPT ![me.sess] = m] /\ run' = [run EXCEPT ![r] = new]
    BY <1>6, <2>3 DEF AdvanceRow, Send
  <2>a. LocalStep(r, me.sess, m, new)
    BY <1>0, <2>4, <2>7, <2>8, <2>9 DEF LocalStep
  <2>b. KeepsFresh(me.sess, m, new)
    BY <2>4, <2>5, <2>6, <2>7, <2>8 DEF KeepsFresh
  <2> QED
    BY <2>a, <2>b, LocalStepFresh
<1>7. CASE RowWritten(r)
  <2> DEFINE new == [me EXCEPT !.pc = "sweeping", !.event = None,
                               !.tracker = RecordOutcome(@, me.event)]
  <2>1. me.pc = "writing"
    BY <1>7 DEF RowWritten, Received
  <2>2. new \in RunState /\ new.pc = "sweeping" /\ new.due = me.due
    BY <1>0, TrackerTypes DEF RunState, PCs
  <2>3. rows' = rows /\ wire' = [wire EXCEPT ![me.sess] = Quiet] /\ run' = [run EXCEPT ![r] = new]
    BY <1>7 DEF RowWritten, Send
  <2>a. LocalStep(r, me.sess, Quiet, new)
    BY <1>0, <2>1, <2>2, <2>3, QuietType DEF LocalStep
  <2>b. KeepsFresh(me.sess, Quiet, new)
    BY <1>0, <2>1, <2>2, QuietType DEF KeepsFresh, DueOK
  <2> QED
    BY <2>a, <2>b, LocalStepFresh
<1>8. CASE SweepReturns(r)
  <2> DEFINE new == Waiting("unlocking", me.sess)
             m   == Ask("unlock")
  <2>1. me.pc = "sweeping"
    BY <1>8 DEF SweepReturns
  <2>2. /\ new \in RunState /\ new.pc = "unlocking" /\ new.due = {}
        /\ m \in Message /\ m.msg = "unlock"
    BY <1>0, <2>1, WaitingType, AskType DEF PCs, Statements
  <2>3. rows' = rows /\ wire' = [wire EXCEPT ![me.sess] = m] /\ run' = [run EXCEPT ![r] = new]
    BY <1>8 DEF SweepReturns, Send
  <2>a. LocalStep(r, me.sess, m, new)
    BY <1>0, <2>1, <2>2, <2>3 DEF LocalStep
  <2>b. KeepsFresh(me.sess, m, new)
    BY <2>2 DEF KeepsFresh
  <2> QED
    BY <2>a, <2>b, LocalStepFresh
<1> QED
  BY <1>1, <1>2, <1>3, <1>4, <1>5, <1>6, <1>7, <1>8 DEF RunStep

\* A query that fails keeps it.
LEMMA FailureFresh ==
  ASSUME TypeOK, SessionInv, FreshInv, NEW r \in Runs,
         QueryFailsOutsideSweep(r) \/ QueryFailsInSweep(r) \/ DatabaseUnreachable(r)
  PROVE  FreshInv'
<1>1. CASE QueryFailsOutsideSweep(r) \/ DatabaseUnreachable(r)
  <2>1. /\ UNCHANGED <<rows, wire>>
        /\ run'[r].pc = "off" /\ run'[r].due = {}
        /\ \A q \in Runs \ {r} : run'[q] = run[q]
    BY <1>1, OffType DEF QueryFailsOutsideSweep, DatabaseUnreachable, TypeOK
  <2> QED
    BY <2>1 DEF FreshInv, SnapshotOK, UpdateOK, DueOK
<1>2. CASE QueryFailsInSweep(r)
  <2>1. PICK s \in Available(ProcOf[r]) :
          /\ Send(s, Ask("unlock"))
          /\ run' = [run EXCEPT ![r] = Waiting("unlocking", s)]
    BY <1>2 DEF QueryFailsInSweep
  <2>2. s \in Sessions /\ \A q \in Runs : run[q].sess # s
    BY <2>1, AvailableUnused, SetsAssumption DEF InUse, SetsAssumption
  <2> DEFINE new == Waiting("unlocking", s)
             m   == Ask("unlock")
  <2>3. /\ new \in RunState /\ new.pc = "unlocking" /\ new.due = {}
        /\ m \in Message /\ m.msg = "unlock"
    BY <2>2, WaitingType, AskType DEF PCs, Statements
  <2>4. rows' = rows /\ wire' = [wire EXCEPT ![s] = m] /\ run' = [run EXCEPT ![r] = new]
    BY <1>2, <2>1 DEF QueryFailsInSweep, Send
  <2>a. LocalStep(r, s, m, new)
    BY <2>2, <2>3, <2>4 DEF LocalStep
  <2>b. KeepsFresh(s, m, new)
    BY <2>3 DEF KeepsFresh
  <2> QED
    BY <2>a, <2>b, LocalStepFresh
<1> QED
  BY <1>1, <1>2

\* So does a step of a process.
LEMMA ProcFresh ==
  ASSUME TypeOK, FreshInv, NEW p \in Procs, ProcStep(p)
  PROVE  FreshInv'
<1>1. CASE ReapIdle(p) \/ Start(p)
  BY <1>1 DEF ReapIdle, Start, FreshInv, SnapshotOK, UpdateOK, DueOK
<1>2. CASE Crash(p)
  <2>1. /\ UNCHANGED <<rows, wire>>
        /\ \A q \in Runs : \/ /\ run'[q].pc = "off"
                               /\ run'[q].due = {}
                            \/ run'[q] = run[q]
    BY <1>2, OffType DEF Crash
  <2> QED
    BY <2>1 DEF FreshInv, SnapshotOK, UpdateOK, DueOK
<1> QED
  BY <1>1, <1>2 DEF ProcStep

\* So does the environment if operators leave the rows in flight alone.
LEMMA EnvironmentFresh ==
  ASSUME SweepOwnsInFlight, TypeOK, SessionInv, FreshInv, Environment
  PROVE  FreshInv'
<1>1. ASSUME NEW id \in Ids, NEW e \in Events, OperatorMoves(id, e) PROVE FreshInv'
  <2>1. /\ UNCHANGED <<wire, run>>
        /\ \A i \in Ids : rows[i] \in InFlight => rows'[i] = rows[i]
    BY <1>1 DEF OperatorMoves, SweepOwnsInFlight, TypeOK
  <2>2. \A s \in Sessions : wire[s].rows \subseteq Row
    BY DEF TypeOK, Message
  <2>3. \A r \in Runs : run[r].due \subseteq Row
    BY DEF TypeOK, RunState
  <2> QED
    BY <2>1, <2>2, <2>3 DEF FreshInv, SnapshotOK, UpdateOK, DueOK, Row
<1>2. CASE OperatorKills \/ ClockTicks
  BY <1>2 DEF OperatorKills, ClockTicks, FreshInv, SnapshotOK, UpdateOK, DueOK
<1> QED
  BY <1>1, <1>2 DEF Environment

\* If operators leave the rows in flight alone, what is left of a sweep is as it was
\* read, and the UPDATE on its way is an allowed transition.
LEMMA FreshCorrect == ASSUME SweepOwnsInFlight PROVE Spec => []FreshInv
<1>1. TypeOK /\ SessionInv /\ FreshInv /\ [Next]_vars => FreshInv'
  <2> SUFFICES ASSUME TypeOK, SessionInv, FreshInv, [Next]_vars PROVE FreshInv'
    OBVIOUS
  <2>1. CASE UNCHANGED vars
    BY <2>1 DEF FreshInv, SnapshotOK, UpdateOK, DueOK, vars
  <2> QED
    BY <2>1, ServerFresh, RunFresh, FailureFresh, ProcFresh, EnvironmentFresh DEF Next
<1> QED
  BY <1>1, InitFresh, TypeCorrect, SessionCorrect, PTL DEF Spec

\* What advance decides on is never stale.
THEOREM FreshSnapshotHolds == ASSUME SweepOwnsInFlight PROVE Spec => []FreshSnapshot
<1>1. FreshInv => FreshSnapshot
  BY DEF FreshInv, DueOK, FreshSnapshot
<1> QED
  BY <1>1, FreshCorrect, PTL

\* The replicated, failing, unguarded-by-status implementation keeps the ledger's
\* promise: the two writers, the server executing an UPDATE and the operator, move
\* a row along an allowed transition.
THEOREM ImplementsLedgerHolds == ASSUME SweepOwnsInFlight PROVE Spec => ImplementsLedger
<1>0. /\ Lifecycle!Statuses = Statuses
      /\ \A from, to : Lifecycle!CanTransition(from, to) <=> CanTransition(from, to)
  BY DEF Lifecycle!CanTransition, CanTransition, Lifecycle!AllowedTransitions,
         AllowedTransitions, Lifecycle!Statuses, Statuses
<1>1. Init => Lifecycle!Init
  BY DEF Init, Lifecycle!Init, Lifecycle!Statuses
<1>2. ASSUME TypeOK, FreshInv, [Next]_vars PROVE [Lifecycle!Next]_rows
  <2>1. ASSUME NEW s \in Sessions, ExecUpdate(s) PROVE Lifecycle!Next
    <3>1. PICK u \in wire[s].rows : rows' = [rows EXCEPT ![u.id] = u.status]
      BY <2>1 DEF ExecUpdate
    <3>2. u \in Row /\ CanTransition(rows[u.id], u.status)
      BY <1>2, <2>1, <3>1 DEF TypeOK, Message, ExecUpdate, FreshInv, UpdateOK
    <3>3. Lifecycle!Move(u.id, u.status)
      BY <1>0, <3>1, <3>2 DEF Lifecycle!Move
    <3>4. u.id \in Ids /\ u.status \in Lifecycle!Statuses
      BY <1>0, <3>2 DEF Row
    <3> QED
      BY <3>3, <3>4 DEF Lifecycle!Next
  <2>2. ASSUME NEW id \in Ids, NEW e \in Events, OperatorMoves(id, e) PROVE Lifecycle!Next
    <3>1. /\ Advance(rows[id], e).status \in Statuses
          /\ CanTransition(rows[id], Advance(rows[id], e).status)
      BY <1>2, <2>2, AdvanceType DEF TypeOK, OperatorMoves
    <3>2. Lifecycle!Move(id, Advance(rows[id], e).status)
      BY <1>0, <2>2, <3>1 DEF OperatorMoves, Lifecycle!Move
    <3> QED
      BY <1>0, <2>2, <3>1, <3>2 DEF Lifecycle!Next
  <2>3. ASSUME NEW s \in Sessions, ServerStep(s) PROVE Lifecycle!Next \/ UNCHANGED rows
    BY <2>1, <2>3 DEF ServerStep, ExecTryLock, ExecSelect, ExecUnlock, SessionEnds
  <2>4. ASSUME NEW r \in Runs, \/ RunStep(r) \/ QueryFailsOutsideSweep(r)
                                \/ QueryFailsInSweep(r) \/ DatabaseUnreachable(r)
        PROVE  UNCHANGED rows
    BY <2>4 DEF RunStep, TimerFires, LockRefused, LockGranted, DueRead, SkipRow,
      AdvanceRow, RowWritten, SweepReturns, Unlocked,
      QueryFailsOutsideSweep, QueryFailsInSweep, DatabaseUnreachable
  <2>5. ASSUME NEW p \in Procs, ProcStep(p) PROVE UNCHANGED rows
    BY <2>5 DEF ProcStep, ReapIdle, Crash, Start
  <2>6. CASE Environment
    BY <2>2, <2>6 DEF Environment, OperatorKills, ClockTicks
  <2>7. CASE UNCHANGED vars
    BY <2>7 DEF vars
  <2> QED
    BY <1>2, <2>3, <2>4, <2>5, <2>6, <2>7 DEF Next
<1> QED
  BY <1>1, <1>2, TypeCorrect, FreshCorrect, PTL DEF Spec, ImplementsLedger, Lifecycle!Spec

-----------------------------------------------------------------------------
\* A run whose counters start over is within any budget.
LEMMA FreshTracker ==
  ASSUME NEW t \in Nat
  PROVE  /\ NewTracker(t).iterations <= Budget.maxIterations
         /\ NewTracker(t).consecutiveVerifyFails <= Budget.escalateAfterVerifyFails
BY SetsAssumption DEF NewTracker, SetsAssumption, BudgetType

\* The limits of a sweep, one lemma per kind of step: at first.
LEMMA InitLimits == Init => LimitsInv
BY OffType, FreshTracker, SetsAssumption
DEF Init, LimitsInv, TrackerOK, KillOK, SetsAssumption

\* A run that has ended, or starts, unlocks or reads, has nothing of its budget
\* spent; and it is off when its replica is down.
LEMMA RestartedWithinLimits ==
  ASSUME LimitsInv, NEW r \in Runs, NEW new, NEW t \in Nat,
         run \in [Runs -> RunState], run' = [run EXCEPT ![r] = new],
         UNCHANGED <<up, killEnv>>,
         new.tracker = NewTracker(t), new.pc # "writing",
         new.pc = "off" \/ up[ProcOf[r]]
  PROVE  LimitsInv'
BY FreshTracker DEF LimitsInv, TrackerOK, KillOK

\* What the check at the top of an iteration lets through.
LEMMA GoesOn ==
  ASSUME TypeOK, NEW r \in Runs, ~Stops(r)
  PROVE  /\ run[r].tracker \in TrackerType
         /\ run[r].tracker.iterations < Budget.maxIterations
         /\ run[r].tracker.consecutiveVerifyFails < Budget.escalateAfterVerifyFails
         /\ ~killEnv[ProcOf[r]]
<1>1. run[r].tracker \in TrackerType /\ Budget \in BudgetType
  BY SetsAssumption DEF TypeOK, RunState, SetsAssumption
<1> QED
  BY <1>1 DEF Stops, ShouldStop, TrackerType, BudgetType

\* A step of a run keeps within them.
LEMMA RunLimits ==
  ASSUME TypeOK, LimitsInv, NEW r \in Runs, RunStep(r)
  PROVE  LimitsInv'
<1> DEFINE me == run[r]
<1>0. /\ me \in RunState /\ run \in [Runs -> RunState] /\ ProcOf[r] \in Procs
      /\ me.pc # "off" => up[ProcOf[r]] /\ me.sess \in Sessions
      /\ TrackerOK(r) /\ now \in Nat
  BY RunHasSession, SetsAssumption DEF TypeOK, LimitsInv, KillOK, SetsAssumption
<1>1. CASE TimerFires(r)
  <2>1. PICK s \in Sessions : run' = [run EXCEPT ![r] = Waiting("locking", s)]
    BY <1>1 DEF TimerFires, Available, Idle
  <2>2. Waiting("locking", s).tracker = NewTracker(0) /\ Waiting("locking", s).pc = "locking"
    BY <2>1, WaitingType DEF PCs
  <2> QED
    BY <1>0, <1>1, <2>1, <2>2, RestartedWithinLimits DEF TimerFires
<1>2. CASE LockRefused(r) \/ Unlocked(r)
  <2>1. run' = [run EXCEPT ![r] = Off] /\ UNCHANGED <<up, killEnv>>
    BY <1>2 DEF LockRefused, Unlocked
  <2> QED
    BY <1>0, <2>1, OffType, RestartedWithinLimits
<1>3. CASE LockGranted(r)
  <2> DEFINE new == [me EXCEPT !.pc = "reading", !.tracker = NewTracker(now)]
  <2>1. /\ run' = [run EXCEPT ![r] = new] /\ UNCHANGED <<up, killEnv>>
        /\ me.pc = "locking"
    BY <1>3 DEF LockGranted, Received
  <2>2. new.pc = "reading" /\ new.tracker = NewTracker(now)
    BY <1>0 DEF RunState
  <2> QED
    BY <1>0, <2>1, <2>2, RestartedWithinLimits
<1>4. CASE DueRead(r)
  <2>1. /\ me.pc = "reading" /\ UNCHANGED <<up, killEnv>>
        /\ run'[r].pc = "sweeping" /\ run'[r].tracker = me.tracker
        /\ \A q \in Runs \ {r} : run'[q] = run[q]
    BY <1>0, <1>4 DEF DueRead, Received, RunState
  <2> QED
    BY <1>0, <2>1 DEF LimitsInv, TrackerOK, KillOK
<1>5. CASE SkipRow(r)
  <2>1. /\ me.pc = "sweeping" /\ UNCHANGED <<up, killEnv>>
        /\ run'[r].pc = "sweeping" /\ run'[r].tracker = RecordIteration(me.tracker)
        /\ \A q \in Runs \ {r} : run'[q] = run[q]
    BY <1>0, <1>5 DEF SkipRow, RunState
  <2>2. TrackerOK(r)'
    BY <1>0, <1>5, <2>1, GoesOn, SetsAssumption
    DEF SkipRow, TrackerOK, RecordIteration, TrackerType, BudgetType, SetsAssumption
  <2> QED
    BY <1>0, <2>1, <2>2 DEF LimitsInv, TrackerOK, KillOK
<1>6. CASE AdvanceRow(r)
  <2>1. /\ me.pc = "sweeping" /\ UNCHANGED <<up, killEnv>>
        /\ run'[r].pc = "writing" /\ run'[r].tracker = me.tracker
        /\ \A q \in Runs \ {r} : run'[q] = run[q]
    BY <1>0, <1>6 DEF AdvanceRow, RunState
  <2>2. TrackerOK(r)' /\ KillOK(r)'
    BY <1>0, <1>6, <2>1, GoesOn DEF AdvanceRow, TrackerOK, KillOK
  <2> QED
    BY <2>1, <2>2 DEF LimitsInv, TrackerOK, KillOK
<1>7. CASE RowWritten(r)
  <2>1. /\ me.pc = "writing" /\ UNCHANGED <<up, killEnv>>
        /\ run'[r].pc = "sweeping" /\ run'[r].tracker = RecordOutcome(me.tracker, me.event)
        /\ \A q \in Runs \ {r} : run'[q] = run[q]
    BY <1>0, <1>7 DEF RowWritten, Received, RunState
  <2>2. me.tracker \in TrackerType /\ Budget \in BudgetType
    BY <1>0, SetsAssumption DEF RunState, SetsAssumption
  <2>3. TrackerOK(r)'
    BY <1>0, <2>1, <2>2
    DEF TrackerOK, RecordOutcome, RecordIteration, RecordVerifyFail, RecordVerifyPass,
        TrackerType, BudgetType
  <2> QED
    BY <1>0, <2>1, <2>3 DEF LimitsInv, TrackerOK, KillOK
<1>8. CASE SweepReturns(r)
  <2>1. /\ me.pc = "sweeping" /\ UNCHANGED <<up, killEnv>>
        /\ run' = [run EXCEPT ![r] = Waiting("unlocking", me.sess)]
    BY <1>8 DEF SweepReturns
  <2>2. /\ Waiting("unlocking", me.sess).tracker = NewTracker(0)
        /\ Waiting("unlocking", me.sess).pc = "unlocking"
    BY <1>0, <2>1, WaitingType DEF PCs
  <2> QED
    BY <1>0, <2>1, <2>2, RestartedWithinLimits
<1> QED
  BY <1>1, <1>2, <1>3, <1>4, <1>5, <1>6, <1>7, <1>8 DEF RunStep

\* So does a query that fails.
LEMMA FailureLimits ==
  ASSUME TypeOK, LimitsInv, NEW r \in Runs,
         QueryFailsOutsideSweep(r) \/ QueryFailsInSweep(r) \/ DatabaseUnreachable(r)
  PROVE  LimitsInv'
<1>0. run \in [Runs -> RunState] /\ (run[r].pc # "off" => up[ProcOf[r]])
  BY DEF TypeOK, LimitsInv, KillOK
<1>1. CASE QueryFailsOutsideSweep(r) \/ DatabaseUnreachable(r)
  <2>1. run' = [run EXCEPT ![r] = Off] /\ UNCHANGED <<up, killEnv>>
    BY <1>1 DEF QueryFailsOutsideSweep, DatabaseUnreachable
  <2> QED
    BY <1>0, <2>1, OffType, RestartedWithinLimits
<1>2. CASE QueryFailsInSweep(r)
  <2>1. PICK s \in Sessions : run' = [run EXCEPT ![r] = Waiting("unlocking", s)]
    BY <1>2 DEF QueryFailsInSweep, Available, Idle
  <2>2. /\ Waiting("unlocking", s).tracker = NewTracker(0)
        /\ Waiting("unlocking", s).pc = "unlocking"
    BY <2>1, WaitingType DEF PCs
  <2>3. run[r].pc # "off" /\ UNCHANGED <<up, killEnv>>
    BY <1>2 DEF QueryFailsInSweep
  <2> QED
    BY <1>0, <2>1, <2>2, <2>3, RestartedWithinLimits
<1> QED
  BY <1>1, <1>2

\* So does a step of a process.
LEMMA ProcLimits ==
  ASSUME TypeOK, LimitsInv, NEW p \in Procs, ProcStep(p)
  PROVE  LimitsInv'
<1>0. \A r \in Runs : ProcOf[r] \in Procs
  BY SetsAssumption DEF SetsAssumption
<1>1. CASE ReapIdle(p)
  BY <1>1 DEF ReapIdle, LimitsInv, TrackerOK, KillOK
<1>2. CASE Crash(p)
  <2>1. \A r \in Runs :
          /\ ProcOf[r] = p => run'[r] = Off
          /\ ProcOf[r] # p => run'[r] = run[r] /\ up'[ProcOf[r]] = up[ProcOf[r]]
    BY <1>0, <1>2 DEF Crash, TypeOK
  <2> QED
    BY <1>2, <2>1, OffType, FreshTracker DEF Crash, LimitsInv, TrackerOK, KillOK
<1>3. CASE Start(p)
  <2>1. /\ UNCHANGED run
        /\ \A r \in Runs :
             \/ ProcOf[r] = p /\ run[r].pc = "off"
             \/ up'[ProcOf[r]] = up[ProcOf[r]] /\ killEnv'[ProcOf[r]] = killEnv[ProcOf[r]]
    BY <1>0, <1>3 DEF Start, TypeOK, LimitsInv, KillOK
  <2> QED
    BY <2>1 DEF LimitsInv, TrackerOK, KillOK
<1> QED
  BY <1>1, <1>2, <1>3 DEF ProcStep

\* No sweep goes beyond its limits.
LEMMA LimitsCorrect == Spec => []LimitsInv
<1>1. TypeOK /\ LimitsInv /\ [Next]_vars => LimitsInv'
  <2> SUFFICES ASSUME TypeOK, LimitsInv, [Next]_vars PROVE LimitsInv'
    OBVIOUS
  <2>1. ASSUME UNCHANGED <<run, up, killEnv>> PROVE LimitsInv'
    BY <2>1 DEF LimitsInv, TrackerOK, KillOK
  <2>2. ASSUME NEW s \in Sessions, ServerStep(s) PROVE UNCHANGED <<run, up, killEnv>>
    BY <2>2 DEF ServerStep, ExecTryLock, ExecSelect, ExecUpdate, ExecUnlock, SessionEnds
  <2>3. Environment \/ UNCHANGED vars => UNCHANGED <<run, up, killEnv>>
    BY DEF Environment, OperatorMoves, OperatorKills, ClockTicks, vars
  <2> QED
    BY <2>1, <2>2, <2>3, RunLimits, FailureLimits, ProcLimits DEF Next
<1> QED
  BY <1>1, InitLimits, TypeCorrect, PTL DEF Spec

\* A run never takes in more rows than its budget allows, the row it is writing
\* included, nor goes past the verify failures that should escalate it.
THEOREM WithinBudgetHolds == Spec => []WithinBudget
<1>1. TypeOK /\ LimitsInv => WithinBudget
  <2> SUFFICES ASSUME TypeOK, LimitsInv, NEW r \in Runs
               PROVE  /\ run[r].tracker.iterations + (IF run[r].pc = "writing" THEN 1 ELSE 0)
                           <= Budget.maxIterations
                      /\ run[r].tracker.consecutiveVerifyFails
                           <= Budget.escalateAfterVerifyFails
    BY DEF WithinBudget
  <2>1. run[r].tracker \in TrackerType /\ Budget \in BudgetType
    BY SetsAssumption DEF TypeOK, RunState, SetsAssumption
  <2> QED
    BY <2>1 DEF LimitsInv, TrackerOK, TrackerType, BudgetType
<1> QED
  BY <1>1, TypeCorrect, LimitsCorrect, PTL

\* No write is in flight from a replica that started with the kill switch set.
THEOREM KilledReplicaNeverWritesHolds == Spec => []KilledReplicaNeverWrites
<1>1. LimitsInv => KilledReplicaNeverWrites
  BY DEF LimitsInv, KillOK, KilledReplicaNeverWrites
<1> QED
  BY <1>1, LimitsCorrect, PTL
=============================================================================
