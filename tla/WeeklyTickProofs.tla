-------------------------- MODULE WeeklyTickProofs --------------------------
(***************************************************************************)
(* Proofs about the scheduler of WeeklyTick, for any number of ticks and   *)
(* events, any cadence that satisfies CadenceAssumption, and any pattern   *)
(* of failures, reschedules, crashes and database contention.              *)
(***************************************************************************)
EXTENDS WeeklyTickProps, TLAPS

-----------------------------------------------------------------------------
(* What a tick finds due are well-formed jobs.                             *)
LEMMA DueJobsAreJobs ==
  ASSUME NEW asOf \in Nat, NEW E \in SUBSET Events, NEW start \in [Events -> Nat]
  PROVE  ComputeDueJobs(asOf, [e \in E |-> start[e]]) \subseteq Job
<1>1. Day(asOf) \in Int
  BY CadenceAssumption DEF Day
<1>2. SeriesDue(asOf) \subseteq Job
  BY <1>1 DEF SeriesDue, JobFor, Job, JobType
<1>3. ASSUME NEW e \in E
      PROVE  EventDue(e, start[e], asOf) \subseteq Job
  <2>1. e \in Events /\ start[e] \in Int /\ start[e] - Official \in Int
    BY CadenceAssumption
  <2>2. OpenJobs(e, asOf) \subseteq Job
    BY <1>1, <2>1 DEF OpenJobs, JobFor, Job, JobType
  <2>3. ScoreJobs(e, start[e]) \subseteq Job
    BY <2>1 DEF ScoreJobs, JobFor, Job, JobType
  <2>4. OfficialJobs(e, start[e]) \subseteq Job
    BY <2>1 DEF OfficialJobs, JobFor, Job, JobType
  <2>5. ResultsSlot(start[e], asOf) \in Int
    BY <2>1, CadenceAssumption DEF ResultsSlot
  <2>6. ResultsJobs(e, start[e], asOf) \subseteq Job
    BY <2>1, <2>5 DEF ResultsJobs, JobFor, Job, JobType
  <2>7. DayAfterJobs(e) \subseteq Job
    BY <2>1 DEF DayAfterJobs, JobFor, Job, JobType
  <2>8. {JobFor("reconcile-7d", e, 0)} \subseteq Job
    BY <2>1 DEF JobFor, Job, JobType
  <2>. QED
    BY <2>2, <2>3, <2>4, <2>6, <2>7, <2>8 DEF EventDue, When
<1>. QED
  BY <1>2, <1>3 DEF ComputeDueJobs

LEMMA CountTypes ==
  ASSUME NEW v, IsTables(v), NEW j
  PROVE  CountAttempts(v, j) \in 0 .. MaxTransient
BY TickAssumption DEF CountAttempts, IsTables

(* The fields of the tables after each kind of row.                        *)
LEMMA RowTypes ==
  ASSUME NEW v, IsTables(v), NEW j \in Job
  PROVE  /\ IsTables(WithRow(v, j))
         /\ WithRow(v, j).done = v.done
         /\ WithRow(v, j).start = v.start
<1>1. CASE Counted(j) /\ CountAttempts(v, j) < MaxTransient
  <2> DEFINE r == [k \in DOMAIN v.rows \cup {j} |->
                     IF k = j THEN CountAttempts(v, j) + 1 ELSE v.rows[k]]
  <2>1. WithRow(v, j) = [v EXCEPT !.rows = r]
    BY <1>1 DEF WithRow
  <2>2. WithRow(v, j) = [ done |-> v.done, rows |-> r, start |-> v.start ]
    BY <2>1, Zenon DEF IsTables
  <2>3. CountAttempts(v, j) \in 0 .. MaxTransient
    BY CountTypes
  <2>4. \A k \in DOMAIN r : r[k] \in 0 .. MaxTransient
    BY <1>1, <2>3, TickAssumption DEF IsTables
  <2>5. DOMAIN r \subseteq Job /\ r = [k \in DOMAIN r |-> r[k]]
    BY DEF IsTables
  <2> HIDE DEF r
  <2>. QED
    BY <2>2, <2>4, <2>5 DEF IsTables
<1>2. CASE ~(Counted(j) /\ CountAttempts(v, j) < MaxTransient)
  BY <1>2 DEF WithRow
<1>. QED
  BY <1>1, <1>2

LEMMA SuccessTypes ==
  ASSUME NEW v, IsTables(v), NEW j \in Job
  PROVE  IsTables(WithSuccess(v, j)) /\ WithSuccess(v, j).done = v.done \cup {j}
<1> DEFINE w == WithRow(v, j)
<1>1. IsTables(w) /\ w.done = v.done
  BY RowTypes
<1> HIDE DEF w
<1>2. WithSuccess(v, j) = [w EXCEPT !.done = v.done \cup {j}]
  BY DEF WithSuccess, w
<1>3. WithSuccess(v, j) = [ done |-> v.done \cup {j}, rows |-> w.rows, start |-> w.start ]
  BY <1>1, <1>2, Zenon DEF IsTables
<1>. QED
  BY <1>1, <1>3 DEF IsTables

LEMMA StartTypes ==
  ASSUME NEW v, IsTables(v), NEW e \in Events, NEW s \in Starts
  PROVE  /\ IsTables(WithStart(v, e, s))
         /\ WithStart(v, e, s).done = v.done
<1> DEFINE f == [v.start EXCEPT ![e] = s]
<1>1. f \in [Events -> Nat]
  BY TickAssumption DEF IsTables
<1>2. WithStart(v, e, s) = [v EXCEPT !.start = f]
  BY DEF WithStart
<1> HIDE DEF f
<1>3. WithStart(v, e, s) = [ done |-> v.done, rows |-> v.rows, start |-> f ]
  BY <1>2, Zenon DEF IsTables
<1>. QED
  BY <1>1, <1>3 DEF IsTables

LEMMA EmptyTypes == IsTables(EmptyTables) /\ EmptyTables.done = {}
BY TickAssumption DEF IsTables, EmptyTables

LEMMA ViewTypes == TypeOK => \A t \in Ticks : IsTables(View(t))
BY DEF TypeOK, View

(* The dependency keys of a job are keys.                                  *)
LEMMA KeyTypes ==
  ASSUME NEW ty \in JobType, NEW e \in Events \cup {NoEvent}
  PROVE  SuccessKey(ty, e) \in Keys
BY DEF SuccessKey, Keys, NoEvent
-----------------------------------------------------------------------------
(* A process that ends, with or without a commit.                          *)
LEMMA EndTypes ==
  ASSUME TypeOK, NEW t \in Ticks, End(t)
  PROVE  /\ writer' \in Ticks \cup {None} /\ flock' \in Ticks \cup {None}
         /\ pc' \in [Ticks -> {"idle", "loaded", "running", "handler", "record", "unlocked"}]
         /\ todo' \in [Ticks -> SUBSET Job]
         /\ succeeded' \in [Ticks -> SUBSET Keys]
         /\ failed' \in [Ticks -> SUBSET (Job \X ErrorClass)]
         /\ job' \in [Ticks -> Job \cup {None}]
         /\ attempt' \in [Ticks -> 0 .. MaxTransient + 1]
         /\ result' \in [Ticks -> {None, "success", "skipped"} \cup ErrorClass]
         /\ \A u \in Ticks : pc'[u] \in {"handler", "record"} => job'[u] \in Job
BY TickAssumption DEF TypeOK, End, DropLocks

LEMMA RollbackTypes == ASSUME TypeOK, NEW t \in Ticks, Rollback(t), aborts' \in Nat
                       PROVE  TypeOK'
BY EndTypes DEF TypeOK, Rollback, clockVars

(* TypeOK is inductive.                                                    *)
LEMMA TypeInit == Init => TypeOK
BY EmptyTypes, TickAssumption DEF Init, TypeOK

LEMMA TypeStep == TypeOK /\ [Next]_vars => TypeOK'
<1> SUFFICES ASSUME TypeOK, [Next]_vars PROVE TypeOK'
  OBVIOUS
<1> USE DEF dataVars, clockVars
<1>1. CASE AdvanceClock
  BY <1>1 DEF AdvanceClock, TypeOK, tickVars
<1>2. ASSUME NEW t \in Ticks, StartTick(t) PROVE TypeOK'
  <2> DEFINE due(E) == ComputeDueJobs(now, [e \in E |-> db.start[e]])
  <2>1. PICK E \in IF Named THEN { {e} : e \in Events } ELSE { Upcoming } :
          todo' = [todo EXCEPT ![t] = due(E)]
    BY <1>2 DEF StartTick
  <2>2. E \in SUBSET Events /\ now \in Nat /\ db.start \in [Events -> Nat]
    BY <2>1 DEF Upcoming, TypeOK, IsTables
  <2>3. due(E) \subseteq Job
    BY <2>2, DueJobsAreJobs
  <2> HIDE DEF due
  <2>4. todo' \in [Ticks -> SUBSET Job]
    BY <2>1, <2>3 DEF TypeOK
  <2>. QED
    BY <1>2, <2>4 DEF StartTick, TypeOK
<1>3. ASSUME NEW t \in Ticks, RejectOverlap(t) PROVE TypeOK'
  BY <1>3, RollbackTypes DEF RejectOverlap, TypeOK
<1>4. ASSUME NEW t \in Ticks, AcquireFlock(t) PROVE TypeOK'
  <2>1. DependencyKeys(todo[t]) \subseteq Keys
    <3>1. ASSUME NEW j \in Job, NEW d \in JobDependencies[j.type]
          PROVE  SuccessKey(d, j.event) \in Keys
      <4>1. d \in JobType /\ j.event \in Events \cup {NoEvent}
        BY DEF Job, JobDependencies, JobType
      <4>. QED
        BY <4>1, KeyTypes
    <3>2. todo[t] \subseteq Job
      BY DEF TypeOK
    <3>. QED
      BY <3>1, <3>2 DEF DependencyKeys
  <2>. QED
    BY <1>4, <2>1 DEF AcquireFlock, SeedSucceeded, TypeOK
<1>5. ASSUME NEW t \in Ticks, NEW j \in todo[t], BlockJob(t, j) PROVE TypeOK'
  <2>1. j \in Job /\ IsTables(tx')
    BY <1>5, RowTypes, ViewTypes DEF BlockJob, Write, TypeOK
  <2>. QED
    BY <1>5, <2>1 DEF BlockJob, Take, Write, TypeOK
<1>6. ASSUME NEW t \in Ticks, NEW j \in todo[t], SkipDuplicate(t, j) PROVE TypeOK'
  <2>1. SuccessKey(j.type, j.event) \in Keys
    BY <1>6, KeyTypes DEF TypeOK, Job
  <2>. QED
    BY <1>6, <2>1 DEF SkipDuplicate, Take, TypeOK
<1>7. ASSUME NEW t \in Ticks, NEW j \in todo[t], CallHandler(t, j) PROVE TypeOK'
  <2>1. j \in Job
    BY <1>7 DEF TypeOK
  <2>2. CountAttempts(View(t), j) + 1 \in 0 .. MaxTransient + 1
    BY CountTypes, ViewTypes, TickAssumption
  <2>. QED
    BY <1>7, <2>1, <2>2 DEF CallHandler, Take, TypeOK
<1>8. ASSUME NEW t \in Ticks, HandlerReturns(t)
      PROVE  /\ result' \in [Ticks -> {None, "success", "skipped"} \cup ErrorClass]
             /\ pc' \in [Ticks -> {"idle", "loaded", "running", "handler", "record", "unlocked"}]
             /\ \A u \in Ticks : pc'[u] \in {"handler", "record"} => job'[u] \in Job
  BY <1>8 DEF HandlerReturns, Outcomes, TypeOK
<1>9. ASSUME NEW t \in Ticks, RunHandler(t) PROVE TypeOK'
  BY <1>8, <1>9 DEF RunHandler, HandlerReturns, TypeOK
<1>10. ASSUME NEW t \in Ticks, DiscoverMovesEvent(t) PROVE TypeOK'
  <2>1. IsTables(tx')
    BY <1>10, StartTypes, ViewTypes DEF DiscoverMovesEvent
  <2>2. HandlerReturns(t) /\ writer' = t /\ db' = db /\ moves' \in Nat
    BY <1>10 DEF DiscoverMovesEvent, TypeOK
  <2>3. UNCHANGED <<clockVars, todo, job, attempt, succeeded, failed, flock, aborts>>
    BY <2>2 DEF HandlerReturns
  <2>. QED
    BY <1>8, <2>1, <2>2, <2>3 DEF TypeOK
<1>11. ASSUME NEW t \in Ticks, RetryTransient(t) PROVE TypeOK'
  <2>1. IsTables(tx')
    BY <1>11, RowTypes, ViewTypes DEF RetryTransient, Write, TypeOK
  <2>2. attempt[t] + 1 \in 0 .. MaxTransient + 1
    BY <1>11, TickAssumption DEF RetryTransient, MayRetry, TypeOK
  <2>. QED
    BY <1>11, <2>1, <2>2 DEF RetryTransient, Write, TypeOK
<1>12. ASSUME NEW t \in Ticks, RecordSuccess(t) PROVE TypeOK'
  <2>1. job[t] \in Job
    BY <1>12 DEF RecordSuccess, TypeOK
  <2>2. IsTables(tx') /\ SuccessKey(job[t].type, job[t].event) \in Keys
    BY <1>12, <2>1, SuccessTypes, ViewTypes, KeyTypes DEF RecordSuccess, Write, Job
  <2>. QED
    BY <1>12, <2>2, TickAssumption DEF RecordSuccess, Recorded, Write, TypeOK
<1>13. ASSUME NEW t \in Ticks, RecordSkip(t) PROVE TypeOK'
  <2>1. IsTables(tx')
    BY <1>13, RowTypes, ViewTypes DEF RecordSkip, Write, TypeOK
  <2>. QED
    BY <1>13, <2>1, TickAssumption DEF RecordSkip, Recorded, Write, TypeOK
<1>14. ASSUME NEW t \in Ticks, RecordFailure(t) PROVE TypeOK'
  <2>1. job[t] \in Job /\ result[t] \in ErrorClass
    BY <1>14 DEF RecordFailure, TypeOK
  <2>2. IsTables(tx')
    BY <1>14, <2>1, RowTypes, ViewTypes DEF RecordFailure, Write
  <2>. QED
    BY <1>14, <2>1, <2>2, TickAssumption DEF RecordFailure, Recorded, Write, TypeOK
<1>15. ASSUME NEW t \in Ticks, DuplicateSuccess(t) \/ DatabaseLocked(t) PROVE TypeOK'
  BY <1>15, RollbackTypes DEF DuplicateSuccess, DatabaseLocked, TypeOK
<1>16. ASSUME NEW t \in Ticks, ReleaseFlock(t) PROVE TypeOK'
  BY <1>16 DEF ReleaseFlock, TypeOK
<1>17. ASSUME NEW t \in Ticks, Commit(t) PROVE TypeOK'
  BY <1>17, EndTypes, ViewTypes DEF Commit, TypeOK
<1>18. ASSUME NEW t \in Ticks, Abort(t) PROVE TypeOK'
  BY <1>18, RollbackTypes DEF Abort, TypeOK
<1>19. CASE UNCHANGED vars
  BY <1>19 DEF vars, tickVars, TypeOK
<1>. QED
  BY <1>1, <1>2, <1>3, <1>4, <1>5, <1>6, <1>7, <1>9, <1>10, <1>11, <1>12,
     <1>13, <1>14, <1>15, <1>16, <1>17, <1>18, <1>19
     DEF Next, TickStep, HandleJob, Record

(* Every reachable state of every instance is well typed.                  *)
THEOREM TypeCorrect == Spec => []TypeOK
<1>. QED
  BY TypeInit, TypeStep, PTL DEF Spec
-----------------------------------------------------------------------------
(* What makes LedgerClosed inductive: it holds of the uncommitted rows as  *)
(* well, whatever a tick has noted as succeeded is in the rows it sees,    *)
(* and the dependencies of the job it is executing are among them.         *)
LedgerInv ==
  /\ db.done \subseteq tx.done
  /\ writer = None => tx = db
  /\ DepsClosed(db.done) /\ DepsClosed(tx.done)
  /\ \A t \in Ticks : \A key \in succeeded[t] :
       HasSuccessfulJobType(View(t).done, key)
  /\ \A t \in Ticks : pc[t] \in {"handler", "record"} =>
       DepsSucceeded(View(t).done, job[t])

LEMMA HasMonotone ==
  ASSUME NEW D, NEW F, D \subseteq F, NEW key, HasSuccessfulJobType(D, key)
  PROVE  HasSuccessfulJobType(F, key)
BY DEF HasSuccessfulJobType

LEMMA DepsMonotone ==
  ASSUME NEW D, NEW F, D \subseteq F, NEW j, DepsSucceeded(D, j)
  PROVE  DepsSucceeded(F, j)
BY DEF DepsSucceeded, HasSuccessfulJobType

LEMMA ClosedAdd ==
  ASSUME NEW D, DepsClosed(D), NEW j, DepsSucceeded(D, j)
  PROVE  DepsClosed(D \cup {j})
BY DepsMonotone DEF DepsClosed

LEMMA LedgerInit0 == Init => LedgerInv
BY EmptyTypes DEF Init, LedgerInv, DepsClosed, View

(* A step that leaves the tables and the lock alone, and adds to what the  *)
(* ticks know only what is there to see.                                   *)
LEMMA LedgerFrame ==
  ASSUME TypeOK, LedgerInv, UNCHANGED <<db, tx, writer>>,
         \A t \in Ticks : \A key \in succeeded'[t] :
           HasSuccessfulJobType(View(t).done, key),
         \A t \in Ticks : pc'[t] \in {"handler", "record"} =>
           DepsSucceeded(View(t).done, job'[t])
  PROVE  LedgerInv'
BY DEF LedgerInv, View

(* Tick t writes: the others go on seeing the committed tables.            *)
LEMMA LedgerWrite ==
  ASSUME TypeOK, LedgerInv, NEW t \in Ticks, MayWrite(t),
         writer' = t, db' = db,
         View(t).done \subseteq tx'.done, DepsClosed(tx'.done),
         \A u \in Ticks \ {t} : succeeded'[u] = succeeded[u] /\ pc'[u] = pc[u]
                                /\ job'[u] = job[u],
         \A key \in succeeded'[t] : HasSuccessfulJobType(tx'.done, key),
         pc'[t] \in {"handler", "record"} => DepsSucceeded(tx'.done, job'[t])
  PROVE  LedgerInv'
<1>1. db'.done \subseteq tx'.done
  BY DEF LedgerInv, View
<1>2. t # None
  BY TickAssumption
<1>3. \A u \in Ticks : View(u)' = IF u = t THEN tx' ELSE db
  BY DEF View
<1>4. \A u \in Ticks \ {t} : View(u) = db
  BY <1>2 DEF View, MayWrite, LedgerInv
<1>5. ASSUME NEW u \in Ticks, NEW key \in succeeded'[u]
      PROVE  HasSuccessfulJobType(View(u)'.done, key)
  BY <1>3, <1>4 DEF LedgerInv
<1>6. ASSUME NEW u \in Ticks, pc'[u] \in {"handler", "record"}
      PROVE  DepsSucceeded(View(u)'.done, job'[u])
  BY <1>3, <1>4, <1>6 DEF LedgerInv
<1>. QED
  BY <1>1, <1>2, <1>5, <1>6 DEF LedgerInv

(* A tick ends: by a commit, if db' is what it saw, or by a rollback.      *)
LEMMA LedgerEnd ==
  ASSUME TypeOK, LedgerInv, NEW t \in Ticks, End(t),
         \/ db' = db /\ tx' = IF writer = t THEN db ELSE tx
         \/ db' = View(t) /\ tx' = tx
  PROVE  LedgerInv'
<1>1. t # None
  BY TickAssumption
<1>2. /\ succeeded'[t] = {} /\ pc'[t] = "idle"
      /\ \A u \in Ticks \ {t} : succeeded'[u] = succeeded[u] /\ pc'[u] = pc[u]
                             /\ job'[u] = job[u]
      /\ writer' = IF writer = t THEN None ELSE writer
  BY DEF End, DropLocks, TypeOK
<1>3. \A u \in Ticks \ {t} : View(u).done \subseteq View(u)'.done
  BY <1>1, <1>2 DEF View, LedgerInv
<1>4. \A u \in Ticks : \A key \in succeeded'[u] :
        HasSuccessfulJobType(View(u)'.done, key)
  BY <1>2, <1>3, HasMonotone DEF LedgerInv
<1>5. \A u \in Ticks : pc'[u] \in {"handler", "record"} =>
        DepsSucceeded(View(u)'.done, job'[u])
  BY <1>2, <1>3, DepsMonotone DEF LedgerInv
<1>6. /\ db'.done \subseteq tx'.done
      /\ writer' = None => tx' = db'
      /\ DepsClosed(db'.done) /\ DepsClosed(tx'.done)
  BY <1>1, <1>2 DEF View, LedgerInv
<1>. QED
  BY <1>4, <1>5, <1>6 DEF LedgerInv

LEMMA LedgerStep == TypeOK /\ LedgerInv /\ [Next]_vars => LedgerInv'
<1> SUFFICES ASSUME TypeOK, LedgerInv, [Next]_vars PROVE LedgerInv'
  OBVIOUS
<1> USE DEF dataVars
<1>1. CASE AdvanceClock
  BY <1>1, LedgerFrame DEF AdvanceClock, tickVars, LedgerInv
<1>2. ASSUME NEW t \in Ticks, StartTick(t) PROVE LedgerInv'
  BY <1>2, LedgerFrame DEF StartTick, TypeOK, LedgerInv
<1>3. ASSUME NEW t \in Ticks, Rollback(t) PROVE LedgerInv'
  BY <1>3, LedgerEnd DEF Rollback
<1>4. ASSUME NEW t \in Ticks, AcquireFlock(t) PROVE LedgerInv'
  <2>1. \A u \in Ticks : \A key \in succeeded'[u] :
          HasSuccessfulJobType(View(u).done, key)
    BY <1>4 DEF AcquireFlock, SeedSucceeded, TypeOK, LedgerInv
  <2>2. \A u \in Ticks : pc'[u] \in {"handler", "record"} =>
          DepsSucceeded(View(u).done, job'[u])
    BY <1>4 DEF AcquireFlock, TypeOK, LedgerInv
  <2>. QED
    BY <1>4, <2>1, <2>2, LedgerFrame DEF AcquireFlock
<1>5. ASSUME NEW t \in Ticks, NEW j \in todo[t], BlockJob(t, j) PROVE LedgerInv'
  <2>1. j \in Job /\ View(t).done = tx'.done
    BY <1>5, RowTypes, ViewTypes DEF BlockJob, Write, TypeOK
  <2>2. DepsClosed(tx'.done)
    BY <2>1 DEF LedgerInv, View
  <2>3. /\ \A key \in succeeded'[t] : HasSuccessfulJobType(tx'.done, key)
        /\ pc'[t] \in {"handler", "record"} => DepsSucceeded(tx'.done, job'[t])
    BY <1>5, <2>1 DEF BlockJob, LedgerInv
  <2>. QED
    BY <1>5, <2>1, <2>2, <2>3, LedgerWrite DEF BlockJob, Write
<1>6. ASSUME NEW t \in Ticks, NEW j \in todo[t], SkipDuplicate(t, j) PROVE LedgerInv'
  <2>1. HasSuccessfulJobType(View(t).done, SuccessKey(j.type, j.event))
    BY <1>6 DEF SkipDuplicate, HasSuccessfulJobType
  <2>2. \A u \in Ticks : \A key \in succeeded'[u] :
          HasSuccessfulJobType(View(u).done, key)
    BY <1>6, <2>1 DEF SkipDuplicate, TypeOK, LedgerInv
  <2>. QED
    BY <1>6, <2>2, LedgerFrame DEF SkipDuplicate, LedgerInv
<1>7. ASSUME NEW t \in Ticks, NEW j \in todo[t], CallHandler(t, j) PROVE LedgerInv'
  <2>1. DepsSucceeded(View(t).done, j)
    BY <1>7 DEF CallHandler, DependenciesOk, DependencySatisfied, DepsSucceeded,
                LedgerInv
  <2>2. \A u \in Ticks : pc'[u] \in {"handler", "record"} =>
          DepsSucceeded(View(u).done, job'[u])
    BY <1>7, <2>1 DEF CallHandler, TypeOK, LedgerInv
  <2>. QED
    BY <1>7, <2>2, LedgerFrame DEF CallHandler, LedgerInv
<1>8. ASSUME NEW t \in Ticks, HandlerReturns(t)
      PROVE  /\ succeeded' = succeeded /\ job' = job /\ pc[t] = "handler"
             /\ pc' = [pc EXCEPT ![t] = "record"]
  BY <1>8 DEF HandlerReturns
<1>9. ASSUME NEW t \in Ticks, RunHandler(t) PROVE LedgerInv'
  <2>1. UNCHANGED <<db, tx, writer>> /\ HandlerReturns(t)
    BY <1>9 DEF RunHandler
  <2>2. \A u \in Ticks : pc'[u] \in {"handler", "record"} =>
          DepsSucceeded(View(u).done, job'[u])
    BY <1>8, <2>1 DEF TypeOK, LedgerInv
  <2>. QED
    BY <1>8, <2>1, <2>2, LedgerFrame DEF LedgerInv
<1>10. ASSUME NEW t \in Ticks, DiscoverMovesEvent(t) PROVE LedgerInv'
  <2>1. tx'.done = View(t).done
    BY <1>10, StartTypes, ViewTypes DEF DiscoverMovesEvent
  <2>2. HandlerReturns(t) /\ MayWrite(t) /\ writer' = t /\ db' = db
    BY <1>10 DEF DiscoverMovesEvent
  <2>3. DepsClosed(tx'.done)
    BY <2>1 DEF LedgerInv, View
  <2>4. DepsSucceeded(tx'.done, job'[t])
    BY <1>8, <2>1, <2>2 DEF LedgerInv
  <2>5. \A u \in Ticks \ {t} : succeeded'[u] = succeeded[u] /\ pc'[u] = pc[u]
                              /\ job'[u] = job[u]
    BY <1>8, <2>2 DEF TypeOK
  <2>6. \A key \in succeeded'[t] : HasSuccessfulJobType(tx'.done, key)
    BY <1>8, <2>1, <2>2 DEF LedgerInv
  <2>. QED
    BY <2>1, <2>2, <2>3, <2>4, <2>5, <2>6, LedgerWrite
<1>11. ASSUME NEW t \in Ticks, RetryTransient(t) PROVE LedgerInv'
  <2>1. tx'.done = View(t).done
    BY <1>11, RowTypes, ViewTypes DEF RetryTransient, Write, TypeOK
  <2>2. DepsClosed(tx'.done) /\ DepsSucceeded(tx'.done, job[t])
    BY <1>11, <2>1 DEF RetryTransient, LedgerInv, View
  <2>3. \A key \in succeeded'[t] : HasSuccessfulJobType(tx'.done, key)
    BY <1>11, <2>1 DEF RetryTransient, LedgerInv
  <2>. QED
    BY <1>11, <2>1, <2>2, <2>3, LedgerWrite DEF RetryTransient, Write, TypeOK
<1>12. ASSUME NEW t \in Ticks, RecordSuccess(t) PROVE LedgerInv'
  <2>1. job[t] \in Job /\ DepsSucceeded(View(t).done, job[t])
    BY <1>12 DEF RecordSuccess, TypeOK, LedgerInv
  <2>2. tx'.done = View(t).done \cup {job[t]}
    BY <1>12, <2>1, SuccessTypes, ViewTypes DEF RecordSuccess, Write
  <2>3. DepsClosed(tx'.done)
    BY <2>1, <2>2, ClosedAdd DEF LedgerInv, View
  <2>4. \A key \in succeeded'[t] : HasSuccessfulJobType(tx'.done, key)
    <3>1. HasSuccessfulJobType(tx'.done, SuccessKey(job[t].type, job[t].event))
      BY <2>2 DEF HasSuccessfulJobType
    <3>2. \A key \in succeeded[t] : HasSuccessfulJobType(tx'.done, key)
      BY <2>2, HasMonotone DEF LedgerInv
    <3>. QED
      BY <1>12, <3>1, <3>2 DEF RecordSuccess, TypeOK
  <2>. QED
    BY <1>12, <2>2, <2>3, <2>4, LedgerWrite
       DEF RecordSuccess, Recorded, Write, TypeOK
<1>13. ASSUME NEW t \in Ticks, RecordSkip(t) \/ RecordFailure(t) PROVE LedgerInv'
  <2>1. job[t] \in Job /\ MayWrite(t) /\ Recorded(t) /\ succeeded' = succeeded
    BY <1>13 DEF RecordSkip, RecordFailure, TypeOK
  <2>2. tx'.done = View(t).done /\ writer' = t /\ db' = db
    BY <1>13, <2>1, RowTypes, RowTypes, ViewTypes
       DEF RecordSkip, RecordFailure, Write
  <2>3. DepsClosed(tx'.done)
    BY <2>2 DEF LedgerInv, View
  <2>4. \A key \in succeeded'[t] : HasSuccessfulJobType(tx'.done, key)
    BY <2>1, <2>2 DEF LedgerInv
  <2>. QED
    BY <2>1, <2>2, <2>3, <2>4, LedgerWrite DEF Recorded, TypeOK
<1>14. ASSUME NEW t \in Ticks, ReleaseFlock(t) PROVE LedgerInv'
  BY <1>14, LedgerFrame DEF ReleaseFlock, TypeOK, LedgerInv
<1>15. ASSUME NEW t \in Ticks, Commit(t) PROVE LedgerInv'
  BY <1>15, LedgerEnd DEF Commit
<1>16. CASE UNCHANGED vars
  BY <1>16, LedgerFrame DEF vars, tickVars, LedgerInv
<1>17. ASSUME NEW t \in Ticks,
              RejectOverlap(t) \/ DuplicateSuccess(t) \/ DatabaseLocked(t) \/ Abort(t)
       PROVE  LedgerInv'
  BY <1>3, <1>17 DEF RejectOverlap, DuplicateSuccess, DatabaseLocked, Abort
<1>. QED
  BY <1>1, <1>2, <1>4, <1>5, <1>6, <1>7, <1>9, <1>10, <1>11, <1>12, <1>13,
     <1>14, <1>15, <1>16, <1>17 DEF Next, TickStep, HandleJob, Record

(* No interleaving, failure, crash or rollback leaves the committed ledger *)
(* with a success whose dependencies did not succeed.                      *)
THEOREM LedgerStaysClosed == Spec => []LedgerClosed
<1>1. LedgerInv => LedgerClosed
  BY DEF LedgerInv, LedgerClosed
<1>. QED
  BY TypeInit, TypeStep, LedgerInit0, LedgerStep, <1>1, PTL DEF Spec

(* The ledger's vocabulary is the scheduler's.                             *)
LEMMA SameVocabulary ==
  /\ Ledger!Job = Job
  /\ \A D : DepsClosed(D) => Ledger!DepsClosed(D)
<1>1. Ledger!Job = Job /\ Ledger!JobDependencies = JobDependencies
  BY DEF Ledger!Job, Job, Ledger!JobType, JobType, Ledger!NoEvent, NoEvent,
         Ledger!JobDependencies, JobDependencies
<1>2. \A ty, e : Ledger!SuccessKey(ty, e) = SuccessKey(ty, e)
  BY DEF Ledger!SuccessKey, SuccessKey, Ledger!SeriesJobTypes, SeriesJobTypes,
         Ledger!NoEvent, NoEvent
<1>3. \A D, key : Ledger!HasSuccessfulJobType(D, key) <=> HasSuccessfulJobType(D, key)
  BY <1>2 DEF Ledger!HasSuccessfulJobType, HasSuccessfulJobType
<1>4. \A D, j : Ledger!DepsSucceeded(D, j) <=> DepsSucceeded(D, j)
  BY <1>1, <1>2, <1>3 DEF Ledger!DepsSucceeded, DepsSucceeded
<1>. QED
  BY <1>1, <1>4 DEF Ledger!DepsClosed, DepsClosed

(* Only a commit changes the committed tables, and it adds to the ledger   *)
(* a batch that keeps it closed: the scheduler implements the ledger.      *)
THEOREM ImplementsLedger == Spec => RefinesLedger
<1>1. Init => Ledger!LedgerInit
  BY DEF Init, EmptyTables, Ledger!LedgerInit
<1>2. TypeOK /\ LedgerInv /\ [Next]_vars /\ TypeOK' /\ LedgerInv'
        => [Ledger!CommitTick]_(db.done)
  <2> SUFFICES ASSUME TypeOK, LedgerInv, [Next]_vars, TypeOK', LedgerInv',
                      db' # db
               PROVE  Ledger!CommitTick
    OBVIOUS
  <2>1. PICK t \in Ticks : Commit(t)
    BY DEF Next, vars, dataVars, clockVars, TickStep, HandleJob, Record, AdvanceClock,
           StartTick, RejectOverlap, AcquireFlock, BlockJob, SkipDuplicate,
           CallHandler, RunHandler, DiscoverMovesEvent, RetryTransient,
           RecordSuccess, RecordSkip, RecordFailure, DuplicateSuccess,
           DatabaseLocked, ReleaseFlock, Abort, Rollback, Write
  <2>2. db.done \subseteq db'.done
    BY <2>1 DEF Commit, View, LedgerInv
  <2>3. db'.done \in SUBSET Job /\ DepsClosed(db'.done)
    BY DEF TypeOK, IsTables, LedgerInv
  <2>. QED
    BY <2>2, <2>3, SameVocabulary DEF Ledger!CommitTick
<1>. QED
  BY TypeInit, TypeStep, LedgerInit0, LedgerStep, <1>1, <1>2, PTL
     DEF Spec, RefinesLedger, Ledger!LedgerSpec
-----------------------------------------------------------------------------
(* A card is recommended and published only for a cutoff that was scored,  *)
(* however its start is moved and whatever fails.                          *)
OfficialTypes == {"recommend", "publish"}

ScoreOf(j) == JobFor("score", j.event, j.slot)

CutoffClosed(D) == \A k \in D : k.type \in OfficialTypes => ScoreOf(k) \in D

Executing(t) == pc[t] \in {"handler", "record"}

(* An official job waiting in a tick: its score is still to come, or being *)
(* carried out, or in the tables, or it failed and has blocked the card.   *)
Awaits(t, j) ==
  \/ ScoreOf(j) \in todo[t]
  \/ ScoreOf(j) \in View(t).done
  \/ j.event \in BlockedPublishEvents(t)
  \/ Executing(t) /\ job[t] = ScoreOf(j)

TickScored(t) ==
  /\ \A j \in todo[t] : j.type \in OfficialTypes => Awaits(t, j)
  /\ Executing(t) /\ job[t].type \in OfficialTypes => ScoreOf(job[t]) \in View(t).done
  /\ pc[t] = "record" /\ result[t] = "skipped" => job[t].type = "grade"

CutoffInv ==
  /\ CutoffClosed(db.done) /\ CutoffClosed(tx.done)
  /\ \A t \in Ticks : TickScored(t)
-----------------------------------------------------------------------------
LEMMA OfficialRanks ==
  Rank("score") = 5 /\ Rank("recommend") = 6 /\ Rank("publish") = 7
BY DEF Rank, JobExecutionOrder

(* Among the jobs due, an official job comes with its score, and after it. *)
LEMMA DueScored ==
  ASSUME NEW asOf \in Nat, NEW E \in SUBSET Events, NEW start \in [Events -> Nat],
         NEW j \in ComputeDueJobs(asOf, [e \in E |-> start[e]]),
         j.type \in OfficialTypes
  PROVE  ScoreOf(j) \in ComputeDueJobs(asOf, [e \in E |-> start[e]])
<1>1. j \notin SeriesDue(asOf)
  BY DEF SeriesDue, JobFor, OfficialTypes
<1>2. PICK e \in E : j \in EventDue(e, start[e], asOf)
  BY <1>1 DEF ComputeDueJobs
<1>3. /\ j \in OfficialJobs(e, start[e])
      /\ start[e] - Official <= asOf /\ asOf < start[e]
  BY <1>2 DEF EventDue, When, OpenJobs, ScoreJobs, ResultsJobs, DayAfterJobs,
              JobFor, OfficialTypes
<1>4. ScoreOf(j) \in ScoreJobs(e, start[e])
  BY <1>3 DEF OfficialJobs, ScoreJobs, ScoreOf, JobFor
<1>5. start[e] - ScoreReady <= asOf
  BY <1>3, CadenceAssumption
<1>6. ScoreOf(j) \in EventDue(e, start[e], asOf)
  BY <1>3, <1>4, <1>5 DEF EventDue, When
<1>. QED
  BY <1>6 DEF ComputeDueJobs

LEMMA ScoreFirst ==
  ASSUME NEW S, NEW j \in Heads(S), j.type \in OfficialTypes
  PROVE  ScoreOf(j) \notin S
BY OfficialRanks DEF Heads, Before, ScoreOf, JobFor, OfficialTypes

-----------------------------------------------------------------------------
(* What one tick's step leaves to the others.                              *)
SameTick(u) ==
  /\ todo'[u] = todo[u] /\ failed'[u] = failed[u] /\ pc'[u] = pc[u]
  /\ job'[u] = job[u] /\ result'[u] = result[u]

LEMMA OthersStayScored ==
  ASSUME NEW u \in Ticks, TickScored(u), SameTick(u),
         View(u).done \subseteq View(u)'.done
  PROVE  TickScored(u)'
BY DEF TickScored, Awaits, Executing, SameTick, BlockedPublishEvents

LEMMA ViewsGrow ==
  ASSUME TypeOK, LedgerInv, NEW t \in Ticks,
         \/ UNCHANGED <<db, tx, writer>>
         \/ MayWrite(t) /\ writer' = t /\ db' = db
         \/ End(t) /\ db' = db /\ tx' = IF writer = t THEN db ELSE tx
         \/ End(t) /\ db' = View(t) /\ tx' = tx
  PROVE  \A u \in Ticks \ {t} : View(u).done \subseteq View(u)'.done
<1>1. t # None
  BY TickAssumption
<1>. QED
  BY <1>1, TickAssumption DEF View, MayWrite, LedgerInv, End, DropLocks

LEMMA CutoffInit == Init => CutoffInv
BY EmptyTypes DEF Init, CutoffInv, CutoffClosed, TickScored, Executing

(* Tick t takes its step: it and the tables have to be looked at, the      *)
(* other ticks do not.                                                     *)
LEMMA CutoffByTick ==
  ASSUME TypeOK, LedgerInv, CutoffInv, NEW t \in Ticks,
         \A u \in Ticks \ {t} : SameTick(u),
         \/ UNCHANGED <<db, tx, writer>>
         \/ MayWrite(t) /\ writer' = t /\ db' = db
         \/ End(t) /\ db' = db /\ tx' = IF writer = t THEN db ELSE tx
         \/ End(t) /\ db' = View(t) /\ tx' = tx,
         CutoffClosed(db'.done), CutoffClosed(tx'.done), TickScored(t)'
  PROVE  CutoffInv'
<1>1. \A u \in Ticks \ {t} : View(u).done \subseteq View(u)'.done
  BY ViewsGrow
<1>2. \A u \in Ticks \ {t} : TickScored(u)'
  BY <1>1, OthersStayScored DEF CutoffInv
<1>. QED
  BY <1>2 DEF CutoffInv

LEMMA ViewClosed == ASSUME CutoffInv, NEW t PROVE CutoffClosed(View(t).done)
BY DEF CutoffInv, View

LEMMA CutoffEnd ==
  ASSUME TypeOK, LedgerInv, CutoffInv, NEW t \in Ticks, End(t),
         \/ db' = db /\ tx' = IF writer = t THEN db ELSE tx
         \/ db' = View(t) /\ tx' = tx
  PROVE  CutoffInv'
<1>1. \A u \in Ticks \ {t} : SameTick(u)
  BY DEF End, SameTick, TypeOK
<1>2. TickScored(t)'
  BY DEF End, TickScored, Executing, TypeOK
<1>3. CutoffClosed(db'.done) /\ CutoffClosed(tx'.done)
  BY ViewClosed DEF CutoffInv
<1>. QED
  BY <1>1, <1>2, <1>3, CutoffByTick

LEMMA CutoffStep == TypeOK /\ LedgerInv /\ CutoffInv /\ [Next]_vars => CutoffInv'
<1> SUFFICES ASSUME TypeOK, LedgerInv, CutoffInv, [Next]_vars PROVE CutoffInv'
  OBVIOUS
<1> USE DEF dataVars
<1>1. CASE AdvanceClock \/ UNCHANGED vars
  <2>1. UNCHANGED <<db, tx, writer, todo, failed, pc, job, result>>
    BY <1>1 DEF AdvanceClock, vars, tickVars
  <2>. QED
    BY <2>1 DEF CutoffInv, TickScored, Awaits, Executing, View, BlockedPublishEvents
<1>2. ASSUME NEW t \in Ticks, StartTick(t) PROVE CutoffInv'
  <2> DEFINE due(E) == ComputeDueJobs(now, [e \in E |-> db.start[e]])
  <2>1. PICK E \in IF Named THEN { {e} : e \in Events } ELSE { Upcoming } :
          todo' = [todo EXCEPT ![t] = due(E)]
    BY <1>2 DEF StartTick
  <2>2. E \in SUBSET Events /\ now \in Nat /\ db.start \in [Events -> Nat]
    BY <2>1 DEF Upcoming, TypeOK, IsTables
  <2>3. \A j \in due(E) : j.type \in OfficialTypes => ScoreOf(j) \in due(E)
    BY <2>2, DueScored
  <2> HIDE DEF due
  <2>4. pc' = [pc EXCEPT ![t] = "loaded"] /\ UNCHANGED <<db, tx, writer, failed, job, result>>
    BY <1>2 DEF StartTick
  <2>5. TickScored(t)'
    BY <2>1, <2>3, <2>4 DEF TickScored, Awaits, Executing, TypeOK
  <2>6. \A u \in Ticks \ {t} : SameTick(u)
    BY <2>1, <2>4 DEF SameTick, TypeOK
  <2>. QED
    BY <2>4, <2>5, <2>6, CutoffByTick DEF CutoffInv
<1>3. ASSUME NEW t \in Ticks, Rollback(t) PROVE CutoffInv'
  BY <1>3, CutoffEnd DEF Rollback
<1>4. ASSUME NEW t \in Ticks, AcquireFlock(t) \/ ReleaseFlock(t) PROVE CutoffInv'
  <2>1. /\ UNCHANGED <<db, tx, writer, todo, failed, job, result>>
        /\ pc' = [pc EXCEPT ![t] = "running"] \/ pc' = [pc EXCEPT ![t] = "unlocked"]
        /\ ~Executing(t) /\ pc[t] # "record"
    BY <1>4 DEF AcquireFlock, ReleaseFlock, Executing
  <2>2. \A u \in Ticks \ {t} : SameTick(u)
    BY <2>1 DEF SameTick, TypeOK
  <2>3. TickScored(t)'
    BY <2>1 DEF CutoffInv, TickScored, Awaits, Executing, View,
                BlockedPublishEvents, TypeOK
  <2>. QED
    BY <2>1, <2>2, <2>3, CutoffByTick DEF CutoffInv
<1>5. ASSUME NEW t \in Ticks, NEW j \in todo[t], BlockJob(t, j) PROVE CutoffInv'
  <2>1. j \in Job /\ View(t).done = tx'.done /\ View(t)'.done = tx'.done
    BY <1>5, RowTypes, ViewTypes DEF BlockJob, Write, TypeOK, View
  <2>2. j.type # "score"
    BY <1>5 DEF BlockJob, DependenciesOk, CardBlocked, JobDependencies, JobType
  <2>3. /\ todo' = [todo EXCEPT ![t] = @ \ {j}] /\ pc[t] = "running"
        /\ UNCHANGED <<db, pc, job, failed, result>> /\ MayWrite(t) /\ writer' = t
    BY <1>5 DEF BlockJob, Take, Write
  <2>4. TickScored(t)'
    <3>1. todo'[t] = todo[t] \ {j} /\ pc'[t] = "running"
      BY <2>3 DEF TypeOK
    <3>2. ASSUME NEW k \in todo'[t], k.type \in OfficialTypes PROVE Awaits(t, k)'
      <4>1. Awaits(t, k)
        BY <3>1, <3>2 DEF CutoffInv, TickScored
      <4>2. ScoreOf(k) # j
        BY <2>2 DEF ScoreOf, JobFor
      <4>. QED
        BY <2>1, <2>3, <3>1, <4>1, <4>2 DEF Awaits, Executing, BlockedPublishEvents
    <3>. QED
      BY <3>1, <3>2 DEF TickScored, Executing
  <2>5. \A u \in Ticks \ {t} : SameTick(u)
    BY <2>3 DEF SameTick, TypeOK
  <2>6. CutoffClosed(db'.done) /\ CutoffClosed(tx'.done)
    BY <2>1, <2>3, ViewClosed DEF CutoffInv
  <2>. QED
    BY <2>3, <2>4, <2>5, <2>6, CutoffByTick
<1>6. ASSUME NEW t \in Ticks, NEW j \in todo[t], SkipDuplicate(t, j) PROVE CutoffInv'
  <2>1. /\ todo' = [todo EXCEPT ![t] = @ \ {j}] /\ pc[t] = "running"
        /\ j \in View(t).done /\ View(t)' = View(t)
        /\ UNCHANGED <<db, tx, writer, pc, job, failed, result>>
    BY <1>6 DEF SkipDuplicate, Take, View
  <2>2. TickScored(t)'
    BY <2>1 DEF CutoffInv, TickScored, Awaits, Executing,
                BlockedPublishEvents, TypeOK
  <2>3. \A u \in Ticks \ {t} : SameTick(u)
    BY <2>1 DEF SameTick, TypeOK
  <2>. QED
    BY <2>1, <2>2, <2>3, CutoffByTick DEF CutoffInv
<1>7. ASSUME NEW t \in Ticks, NEW j \in todo[t], CallHandler(t, j) PROVE CutoffInv'
  <2>1. /\ todo' = [todo EXCEPT ![t] = @ \ {j}] /\ pc[t] = "running"
        /\ pc' = [pc EXCEPT ![t] = "handler"] /\ job' = [job EXCEPT ![t] = j]
        /\ ~CardBlocked(t, j) /\ View(t)' = View(t) /\ j \in Heads(todo[t])
        /\ UNCHANGED <<db, tx, writer, failed, result>>
    BY <1>7 DEF CallHandler, Take, View
  <2>2. j.type \in OfficialTypes => ScoreOf(j) \in View(t).done
    BY <2>1, ScoreFirst DEF CutoffInv, TickScored, Awaits, Executing,
                            CardBlocked, OfficialTypes
  <2>3. TickScored(t)'
    BY <2>1, <2>2 DEF CutoffInv, TickScored, Awaits, Executing,
                      BlockedPublishEvents, TypeOK
  <2>4. \A u \in Ticks \ {t} : SameTick(u)
    BY <2>1 DEF SameTick, TypeOK
  <2>. QED
    BY <2>1, <2>3, <2>4, CutoffByTick DEF CutoffInv
<1>8. ASSUME NEW t \in Ticks, HandlerReturns(t), View(t)'.done = View(t).done
      PROVE  TickScored(t)' /\ \A u \in Ticks \ {t} : SameTick(u)
  <2>1. PICK r \in Outcomes(job[t]) : result' = [result EXCEPT ![t] = r]
    BY <1>8 DEF HandlerReturns
  <2>2. /\ pc[t] = "handler" /\ pc' = [pc EXCEPT ![t] = "record"]
        /\ UNCHANGED <<todo, job, failed>>
    BY <1>8 DEF HandlerReturns
  <2>3. r = "skipped" => job[t].type = "grade"
    BY <2>1 DEF Outcomes, ErrorClass
  <2>4. TickScored(t)'
    BY <1>8, <2>1, <2>2, <2>3 DEF CutoffInv, TickScored, Awaits, Executing,
                                  BlockedPublishEvents, TypeOK
  <2>. QED
    BY <2>1, <2>2, <2>4 DEF SameTick, TypeOK
<1>9. ASSUME NEW t \in Ticks, RunHandler(t) PROVE CutoffInv'
  <2>1. UNCHANGED <<db, tx, writer>> /\ HandlerReturns(t) /\ View(t)' = View(t)
    BY <1>9 DEF RunHandler, View
  <2>. QED
    BY <1>8, <2>1, CutoffByTick DEF CutoffInv
<1>10. ASSUME NEW t \in Ticks, DiscoverMovesEvent(t) PROVE CutoffInv'
  <2>1. tx'.done = View(t).done
    BY <1>10, StartTypes, ViewTypes DEF DiscoverMovesEvent
  <2>2. HandlerReturns(t) /\ MayWrite(t) /\ writer' = t /\ db' = db
    BY <1>10 DEF DiscoverMovesEvent
  <2>3. View(t)'.done = View(t).done /\ CutoffClosed(tx'.done)
    BY <2>1, <2>2, ViewClosed DEF View
  <2>. QED
    BY <1>8, <2>2, <2>3, CutoffByTick DEF CutoffInv
<1>11. ASSUME NEW t \in Ticks, RetryTransient(t) PROVE CutoffInv'
  <2>1. tx'.done = View(t).done
    BY <1>11, RowTypes, ViewTypes DEF RetryTransient, Write, TypeOK
  <2>2. /\ pc[t] = "record" /\ pc' = [pc EXCEPT ![t] = "handler"]
        /\ result' = [result EXCEPT ![t] = None] /\ UNCHANGED <<db, todo, job, failed>>
        /\ MayWrite(t) /\ writer' = t /\ View(t)'.done = View(t).done
    BY <1>11, <2>1 DEF RetryTransient, Write, View
  <2>3. TickScored(t)'
    BY <2>2 DEF CutoffInv, TickScored, Awaits, Executing, BlockedPublishEvents, TypeOK
  <2>4. \A u \in Ticks \ {t} : SameTick(u)
    BY <2>2 DEF SameTick, TypeOK
  <2>5. CutoffClosed(tx'.done) /\ CutoffClosed(db'.done)
    BY <2>1, <2>2, ViewClosed DEF CutoffInv
  <2>. QED
    BY <2>2, <2>3, <2>4, <2>5, CutoffByTick
<1>12. ASSUME NEW t \in Ticks, Recorded(t), MayWrite(t), writer' = t, db' = db,
              pc[t] = "record", View(t).done \subseteq tx'.done, CutoffClosed(tx'.done),
              \A u \in Ticks \ {t} : failed'[u] = failed[u],
              \A j \in todo[t] : j.type \in OfficialTypes /\ Awaits(t, j) => Awaits(t, j)'
       PROVE  CutoffInv'
  <2>1. /\ pc' = [pc EXCEPT ![t] = "running"] /\ todo' = todo
        /\ job' = [job EXCEPT ![t] = None] /\ result' = [result EXCEPT ![t] = None]
    BY <1>12 DEF Recorded
  <2>2. TickScored(t)'
    BY <1>12, <2>1 DEF CutoffInv, TickScored, Executing, TypeOK
  <2>3. \A u \in Ticks \ {t} : SameTick(u)
    BY <1>12, <2>1 DEF SameTick, TypeOK
  <2>. QED
    BY <1>12, <2>2, <2>3, CutoffByTick DEF CutoffInv
<1>13. ASSUME NEW t \in Ticks, RecordSuccess(t) PROVE CutoffInv'
  <2>1. job[t] \in Job /\ pc[t] = "record" /\ MayWrite(t) /\ Recorded(t) /\ failed' = failed
    BY <1>13 DEF RecordSuccess, TypeOK
  <2>2. tx'.done = View(t).done \cup {job[t]} /\ writer' = t /\ db' = db
    BY <1>13, <2>1, SuccessTypes, ViewTypes DEF RecordSuccess, Write
  <2>3. CutoffClosed(tx'.done)
    BY <2>1, <2>2, ViewClosed DEF CutoffInv, TickScored, Executing, CutoffClosed
  <2>4. View(t)' = tx'
    BY <2>2 DEF View
  <2>5. \A j \in todo[t] : Awaits(t, j) => Awaits(t, j)'
    BY <2>1, <2>2, <2>4 DEF Awaits, Recorded, BlockedPublishEvents
  <2>. QED
    BY <1>12, <2>1, <2>2, <2>3, <2>5
<1>14. ASSUME NEW t \in Ticks, RecordSkip(t) PROVE CutoffInv'
  <2>1. job[t] \in Job /\ pc[t] = "record" /\ MayWrite(t) /\ Recorded(t) /\ failed' = failed
    BY <1>14 DEF RecordSkip, TypeOK
  <2>2. tx'.done = View(t).done /\ writer' = t /\ db' = db
    BY <1>14, <2>1, RowTypes, ViewTypes DEF RecordSkip, Write
  <2>3. View(t)' = tx' /\ CutoffClosed(tx'.done)
    BY <2>2, ViewClosed DEF View
  <2>4. job[t].type = "grade"
    BY <1>14 DEF RecordSkip, CutoffInv, TickScored
  <2>5. \A j \in todo[t] : Awaits(t, j) => Awaits(t, j)'
    BY <2>1, <2>2, <2>3, <2>4 DEF Awaits, Recorded, BlockedPublishEvents, ScoreOf, JobFor
  <2>. QED
    BY <1>12, <2>1, <2>2, <2>3, <2>5
<1>15. ASSUME NEW t \in Ticks, RecordFailure(t) PROVE CutoffInv'
  <2>1. /\ job[t] \in Job /\ pc[t] = "record" /\ MayWrite(t) /\ Recorded(t)
        /\ failed' = [failed EXCEPT ![t] = @ \cup {<<job[t], result[t]>>}]
    BY <1>15 DEF RecordFailure, TypeOK
  <2>2. tx'.done = View(t).done /\ writer' = t /\ db' = db
    BY <1>15, <2>1, RowTypes, ViewTypes DEF RecordFailure, Write
  <2>3. View(t)' = tx' /\ CutoffClosed(tx'.done)
    BY <2>2, ViewClosed DEF View
  <2>4. failed'[t] = failed[t] \cup {<<job[t], result[t]>>}
    BY <2>1 DEF TypeOK
  <2>5. BlockedPublishEvents(t) \subseteq BlockedPublishEvents(t)'
    BY <2>4 DEF BlockedPublishEvents
  <2>6. job[t].type = "score" => job[t].event \in BlockedPublishEvents(t)'
    BY <2>4 DEF BlockedPublishEvents, BlocksCard
  <2>7. \A j \in todo[t] : Awaits(t, j) => Awaits(t, j)'
    BY <2>1, <2>2, <2>3, <2>5, <2>6 DEF Awaits, Recorded, ScoreOf, JobFor
  <2>8. \A u \in Ticks \ {t} : failed'[u] = failed[u]
    BY <2>1 DEF TypeOK
  <2>. QED
    BY <1>12, <2>1, <2>2, <2>3, <2>7, <2>8
<1>16. ASSUME NEW t \in Ticks, Commit(t) PROVE CutoffInv'
  BY <1>16, CutoffEnd DEF Commit
<1>17. ASSUME NEW t \in Ticks,
              RejectOverlap(t) \/ DuplicateSuccess(t) \/ DatabaseLocked(t) \/ Abort(t)
       PROVE  CutoffInv'
  BY <1>3, <1>17 DEF RejectOverlap, DuplicateSuccess, DatabaseLocked, Abort
<1>. QED
  BY <1>1, <1>2, <1>4, <1>5, <1>6, <1>7, <1>9, <1>10, <1>11, <1>13, <1>14,
     <1>15, <1>16, <1>17 DEF Next, TickStep, HandleJob, Record

(* Whatever is recommended or published for a cutoff was scored for it.    *)
THEOREM CutoffsAreScored == Spec => []CutoffScored
<1>1. CutoffInv => CutoffScored
  BY DEF CutoffInv, CutoffClosed, CutoffScored, OfficialTypes, ScoreOf
<1>. QED
  BY TypeInit, TypeStep, LedgerInit0, LedgerStep, CutoffInit, CutoffStep, <1>1,
     PTL DEF Spec
-----------------------------------------------------------------------------
(***************************************************************************)
(* No card is missed.  The host starts the ticks one at a time and at every *)
(* instant, the tick is given every event whose official window is open,   *)
(* and nothing that a card rests on fails: then only a killed tick costs a *)
(* card one of the instants of its window.                                 *)
(***************************************************************************)
CardTypes == {"score", "recommend", "publish"}

OnTime ==
  /\ HostFlock /\ Punctual
  /\ IF Named THEN \A e, f \in Events : e = f ELSE Official <= Horizon
  /\ \A e \in Events : Official <= FirstStart[e]
  /\ \A p \in Failing : p[1] \notin CardTypes /\ p # <<"identity", "identity_unresolved">>

Opening(e) == FirstStart[e] - Official

CardJobs(e) == { JobFor(ty, e, Opening(e)) : ty \in CardTypes }

InWindow(e) == Opening(e) <= now /\ now < FirstStart[e]

(* The one tick of the moment, and what it holds.                          *)
SoloInv ==
  /\ \A t, u \in Ticks : ~Idle(t) /\ ~Idle(u) => t = u
  /\ flock # None => pc[flock] \in {"running", "handler", "record"}
  /\ writer # None => ~Idle(writer)
  /\ \A t \in Ticks : ~Idle(t) => lastRun = now
  /\ \A t \in Ticks : pc[t] = "record" => result[t] \in Outcomes(job[t])
  /\ \A t \in Ticks : Executing(t) => job[t] \notin View(t).done
  /\ \A t \in Ticks : pc[t] = "unlocked" => todo[t] = {}
  /\ \A t \in Ticks : \A f \in failed[t] : <<f[1].type, f[2]>> \in Failing
  /\ moves = 0 => db.start = FirstStart /\ tx.start = FirstStart

AtHand(t, j) ==
  j \in todo[t] \/ j \in View(t).done \/ (Executing(t) /\ job[t] = j)

(* An unpublished card has lost a tick at every instant of its window that *)
(* is over; the tick under way has its jobs at hand.                       *)
CardInv(e) ==
  moves = 0 =>
    /\ InWindow(e) => \A t \in Ticks : ~Idle(t) => \A j \in CardJobs(e) : AtHand(t, j)
    /\ JobFor("publish", e, Opening(e)) \notin db.done =>
         /\ InWindow(e) => now - Opening(e) <= aborts
         /\ InWindow(e) /\ lastRun = now /\ (\A t \in Ticks : Idle(t)) =>
              now - Opening(e) + 1 <= aborts
         /\ FirstStart[e] <= now => Official <= aborts
-----------------------------------------------------------------------------
LEMMA SoloInit == Init => SoloInv
BY TickAssumption DEF Init, SoloInv, Idle, Executing, EmptyTables

(* What any step of the one tick has to leave in order.                    *)
TickInOrder(t) ==
  /\ pc[t] = "record" => result[t] \in Outcomes(job[t])
  /\ Executing(t) => job[t] \notin View(t).done
  /\ pc[t] = "unlocked" => todo[t] = {}
  /\ \A f \in failed[t] : <<f[1].type, f[2]>> \in Failing

LEMMA Alone ==
  ASSUME SoloInv, NEW t \in Ticks, ~Idle(t)
  PROVE  /\ \A u \in Ticks \ {t} : Idle(u)
         /\ writer \in {None, t} \/ writer \notin Ticks
         /\ flock \in {None, t} \/ flock \notin Ticks
BY DEF SoloInv, Idle

(* A step of tick t that goes on: the others stay idle.                    *)
LEMMA SoloByTick ==
  ASSUME TypeOK, SoloInv, NEW t \in Ticks,
         ~Idle(t) \/ (\A u \in Ticks : Idle(u)),
         \A u \in Ticks \ {t} : pc'[u] = pc[u] /\ failed'[u] = failed[u],
         pc'[t] # "idle", lastRun' = now',
         flock' # None => flock' = t /\ pc'[t] \in {"running", "handler", "record"},
         writer' \in {None, t},
         TickInOrder(t)',
         moves' = 0 => db'.start = FirstStart /\ tx'.start = FirstStart
  PROVE  SoloInv'
<1>1. \A u \in Ticks \ {t} : pc'[u] = "idle"
  BY DEF SoloInv, Idle
<1>. QED
  BY <1>1, TickAssumption DEF SoloInv, Idle, Executing, TickInOrder

LEMMA SoloEnd ==
  ASSUME TypeOK, SoloInv, NEW t \in Ticks, ~Idle(t), End(t), UNCHANGED clockVars,
         moves' = 0 => db'.start = FirstStart /\ tx'.start = FirstStart
  PROVE  SoloInv'
<1>1. \A u \in Ticks : pc'[u] = "idle"
  BY DEF SoloInv, Idle, End, TypeOK
<1>2. flock' = None /\ writer' = None
  BY Alone DEF End, DropLocks, TypeOK
<1>3. \A u \in Ticks : \A f \in failed'[u] : <<f[1].type, f[2]>> \in Failing
  BY DEF End, SoloInv, TypeOK
<1>. QED
  BY <1>1, <1>2, <1>3 DEF SoloInv, Idle, Executing

LEMMA SoloRollback ==
  ASSUME TypeOK, SoloInv, NEW t \in Ticks, ~Idle(t), Rollback(t)
  PROVE  SoloInv'
BY SoloEnd DEF Rollback, SoloInv

(* The processes that lose a race do not exist.                            *)
LEMMA NoRaces ==
  ASSUME TypeOK, SoloInv, NEW t \in Ticks
  PROVE  ~RejectOverlap(t) /\ ~DatabaseLocked(t) /\ ~DuplicateSuccess(t)
<1>1. ~RejectOverlap(t)
  BY Alone DEF RejectOverlap, SoloInv, Idle, TypeOK
<1>2. ~DatabaseLocked(t)
  BY Alone DEF DatabaseLocked, MayWrite, Idle, TypeOK
<1>3. ~DuplicateSuccess(t)
  BY DEF DuplicateSuccess, SoloInv, Executing
<1>. QED
  BY <1>1, <1>2, <1>3

(* A write by the one tick: its view of the starts and of the successes.   *)
LEMMA ViewWritten ==
  ASSUME TypeOK, NEW t \in Ticks, NEW v, Write(t, v)
  PROVE  View(t)' = v /\ tx' = v /\ db' = db /\ writer' = t /\ moves' = moves
BY DEF Write, View

LEMMA ViewStart ==
  ASSUME SoloInv, NEW t, moves = 0
  PROVE  View(t).start = FirstStart
BY DEF SoloInv, View
LEMMA SoloStep ==
  ASSUME OnTime, TypeOK, LedgerInv, SoloInv, [Next]_vars
  PROVE  SoloInv'
<1> USE DEF dataVars, clockVars
<1>1. CASE AdvanceClock
  BY <1>1 DEF AdvanceClock, tickVars, SoloInv, OnTime, Idle, Executing, View
<1>2. CASE UNCHANGED vars
  BY <1>2 DEF vars, tickVars, SoloInv, Idle, Executing, View
<1>3. ASSUME NEW t \in Ticks, StartTick(t) PROVE SoloInv'
  <2>1. \A u \in Ticks : Idle(u)
    BY <1>3 DEF StartTick, OnTime
  <2>2. flock = None /\ writer = None
    BY <2>1, TickAssumption DEF SoloInv, Idle, TypeOK
  <2>3. /\ pc' = [pc EXCEPT ![t] = "loaded"] /\ lastRun' = now /\ now' = now
        /\ UNCHANGED <<db, tx, writer, flock, failed, moves>>
    BY <1>3 DEF StartTick
  <2>4. TickInOrder(t)'
    BY <2>3 DEF TickInOrder, SoloInv, Executing, TypeOK
  <2>. QED
    BY <2>1, <2>2, <2>3, <2>4, SoloByTick DEF SoloInv, TypeOK
<1>4. ASSUME NEW t \in Ticks, AcquireFlock(t) PROVE SoloInv'
  <2>1. /\ pc[t] = "loaded" /\ pc' = [pc EXCEPT ![t] = "running"] /\ flock' = t
        /\ UNCHANGED <<now, lastRun, db, tx, writer, failed, moves>>
    BY <1>4 DEF AcquireFlock
  <2>2. TickInOrder(t)'
    BY <2>1 DEF TickInOrder, SoloInv, Executing, TypeOK
  <2>3. ~Idle(t) /\ writer \in {None, t}
    BY <2>1, Alone DEF Idle, TypeOK
  <2>. QED
    BY <2>1, <2>2, <2>3, SoloByTick DEF SoloInv, TypeOK
<1>5. ASSUME NEW t \in Ticks, ReleaseFlock(t) PROVE SoloInv'
  <2>1. /\ pc[t] = "running" /\ pc' = [pc EXCEPT ![t] = "unlocked"] /\ flock' = None
        /\ todo[t] = {} /\ UNCHANGED <<now, lastRun, db, tx, writer, failed, moves, todo>>
    BY <1>5 DEF ReleaseFlock
  <2>2. TickInOrder(t)'
    BY <2>1 DEF TickInOrder, SoloInv, Executing, TypeOK
  <2>3. ~Idle(t) /\ writer \in {None, t}
    BY <2>1, Alone DEF Idle, TypeOK
  <2>. QED
    BY <2>1, <2>2, <2>3, SoloByTick DEF SoloInv, TypeOK
<1>6. ASSUME NEW t \in Ticks, pc[t] = "running", UNCHANGED <<now, lastRun, flock, failed>>,
             pc' = pc \/ pc' = [pc EXCEPT ![t] = "handler"], writer' \in {None, t},
             TickInOrder(t)',
             moves' = 0 => db'.start = FirstStart /\ tx'.start = FirstStart
      PROVE  SoloInv'
  <2>1. ~Idle(t) /\ flock \in {None, t}
    BY <1>6, Alone DEF Idle, TypeOK
  <2>2. pc'[t] \in {"running", "handler"}
    BY <1>6 DEF TypeOK
  <2>. QED
    BY <1>6, <2>1, <2>2, SoloByTick DEF SoloInv, TypeOK
<1>7. ASSUME NEW t \in Ticks, NEW j \in todo[t], BlockJob(t, j) PROVE SoloInv'
  <2>1. /\ pc[t] = "running" /\ Write(t, WithRow(View(t), j)) /\ j \in Job
        /\ UNCHANGED <<now, lastRun, pc, failed, flock, result, job>>
    BY <1>7 DEF BlockJob, Take, TypeOK
  <2>2. WithRow(View(t), j).start = View(t).start
    BY <2>1, RowTypes, ViewTypes
  <2>3. TickInOrder(t)'
    BY <2>1 DEF TickInOrder, SoloInv, Executing
  <2>. QED
    BY <1>6, <2>1, <2>2, <2>3, ViewWritten, ViewStart DEF SoloInv
<1>8. ASSUME NEW t \in Ticks, NEW j \in todo[t], SkipDuplicate(t, j) PROVE SoloInv'
  <2>1. /\ pc[t] = "running"
        /\ UNCHANGED <<now, lastRun, pc, failed, flock, result, job, db, tx, writer, moves>>
    BY <1>8 DEF SkipDuplicate, Take
  <2>2. TickInOrder(t)'
    BY <2>1 DEF TickInOrder, SoloInv, Executing
  <2>3. writer \in {None, t}
    BY <2>1, Alone DEF Idle, TypeOK
  <2>. QED
    BY <1>6, <2>1, <2>2, <2>3 DEF SoloInv
<1>9. ASSUME NEW t \in Ticks, NEW j \in todo[t], CallHandler(t, j) PROVE SoloInv'
  <2>1. /\ pc[t] = "running" /\ pc' = [pc EXCEPT ![t] = "handler"]
        /\ job' = [job EXCEPT ![t] = j] /\ j \notin View(t).done
        /\ UNCHANGED <<now, lastRun, failed, flock, result, db, tx, writer, moves>>
    BY <1>9 DEF CallHandler, Take
  <2>2. TickInOrder(t)'
    BY <2>1 DEF TickInOrder, SoloInv, Executing, TypeOK, View
  <2>3. writer \in {None, t}
    BY <2>1, Alone DEF Idle, TypeOK
  <2>. QED
    BY <1>6, <2>1, <2>2, <2>3 DEF SoloInv
<1>10. ASSUME NEW t \in Ticks, HandlerReturns(t), writer' \in {None, t},
              View(t)'.done = View(t).done,
              moves' = 0 => db'.start = FirstStart /\ tx'.start = FirstStart
       PROVE  SoloInv'
  <2>1. PICK r \in Outcomes(job[t]) : result' = [result EXCEPT ![t] = r]
    BY <1>10 DEF HandlerReturns
  <2>2. /\ pc[t] = "handler" /\ pc' = [pc EXCEPT ![t] = "record"]
        /\ UNCHANGED <<now, lastRun, job, failed, flock>>
    BY <1>10 DEF HandlerReturns
  <2>3. TickInOrder(t)'
    BY <1>10, <2>1, <2>2 DEF TickInOrder, SoloInv, Executing, TypeOK, Outcomes
  <2>4. ~Idle(t) /\ flock \in {None, t}
    BY <2>2, Alone DEF Idle, TypeOK
  <2>. QED
    BY <1>10, <2>2, <2>3, <2>4, SoloByTick DEF SoloInv, TypeOK
<1>11. ASSUME NEW t \in Ticks, RunHandler(t) PROVE SoloInv'
  <2>1. pc[t] = "handler" /\ UNCHANGED <<db, tx, writer, moves>> /\ HandlerReturns(t)
    BY <1>11 DEF RunHandler, HandlerReturns
  <2>2. writer \in {None, t}
    BY <2>1, Alone DEF Idle, TypeOK
  <2>. QED
    BY <1>10, <2>1, <2>2 DEF SoloInv, View
<1>12. ASSUME NEW t \in Ticks, DiscoverMovesEvent(t) PROVE SoloInv'
  <2>1. tx'.done = View(t).done
    BY <1>12, StartTypes, ViewTypes DEF DiscoverMovesEvent
  <2>2. writer' = t /\ moves' # 0
    BY <1>12 DEF DiscoverMovesEvent, TypeOK
  <2>. QED
    BY <1>10, <1>12, <2>1, <2>2 DEF DiscoverMovesEvent, View
<1>13. ASSUME NEW t \in Ticks, pc[t] = "record", writer' = t, UNCHANGED <<now, lastRun, flock>>,
              pc' = [pc EXCEPT ![t] = "running"] \/ pc' = [pc EXCEPT ![t] = "handler"],
              \A u \in Ticks \ {t} : failed'[u] = failed[u],
              \A f \in failed'[t] : <<f[1].type, f[2]>> \in Failing,
              pc'[t] = "handler" => job' = job /\ View(t)'.done = View(t).done,
              moves' = 0 => db'.start = FirstStart /\ tx'.start = FirstStart
       PROVE  SoloInv'
  <2>1. ~Idle(t) /\ flock \in {None, t}
    BY <1>13, Alone DEF Idle, TypeOK
  <2>2. pc'[t] \in {"running", "handler"}
    BY <1>13 DEF TypeOK
  <2>3. TickInOrder(t)'
    BY <1>13, <2>2 DEF TickInOrder, SoloInv, Executing
  <2>. QED
    BY <1>13, <2>1, <2>2, <2>3, SoloByTick DEF SoloInv, TypeOK
<1>14. ASSUME NEW t \in Ticks, RetryTransient(t) PROVE SoloInv'
  <2>1. /\ pc[t] = "record" /\ Write(t, WithRow(View(t), job[t])) /\ job[t] \in Job
        /\ pc' = [pc EXCEPT ![t] = "handler"]
        /\ UNCHANGED <<now, lastRun, job, failed, flock>>
    BY <1>14 DEF RetryTransient, TypeOK
  <2>2. IsTables(View(t)) /\ View(t)' = WithRow(View(t), job[t]) /\ tx' = WithRow(View(t), job[t])
    BY <2>1, ViewTypes, ViewWritten
  <2>3. WithRow(View(t), job[t]).start = View(t).start /\ WithRow(View(t), job[t]).done = View(t).done
    BY <2>1, <2>2, RowTypes
  <2>4. writer' = t /\ db' = db /\ moves' = moves
    BY <2>1 DEF Write
  <2>. QED
    BY <1>13, <2>1, <2>2, <2>3, <2>4, ViewStart DEF SoloInv
<1>15. ASSUME NEW t \in Ticks, NEW v, pc[t] = "record", Recorded(t), Write(t, v),
              v.start = View(t).start,
              \A u \in Ticks \ {t} : failed'[u] = failed[u],
              \A f \in failed'[t] : <<f[1].type, f[2]>> \in Failing
       PROVE  SoloInv'
  <2>1. pc' = [pc EXCEPT ![t] = "running"] /\ UNCHANGED <<now, lastRun, flock>>
    BY <1>15 DEF Recorded
  <2>2. pc'[t] = "running"
    BY <2>1 DEF TypeOK
  <2>3. writer' = t /\ tx' = v /\ db' = db /\ moves' = moves
    BY <1>15 DEF Write
  <2>4. moves' = 0 => db'.start = FirstStart /\ tx'.start = FirstStart
    BY <1>15, <2>3, ViewStart DEF SoloInv
  <2>. QED
    BY <1>13, <1>15, <2>1, <2>2, <2>3, <2>4
<1>16. ASSUME NEW t \in Ticks, RecordSuccess(t) PROVE SoloInv'
  <2>1. /\ pc[t] = "record" /\ Write(t, WithSuccess(View(t), job[t])) /\ job[t] \in Job
        /\ Recorded(t) /\ failed' = failed
    BY <1>16 DEF RecordSuccess, TypeOK
  <2>2. WithSuccess(View(t), job[t]).start = WithRow(View(t), job[t]).start
    BY DEF WithSuccess
  <2>3. WithRow(View(t), job[t]).start = View(t).start
    BY <2>1, RowTypes, ViewTypes
  <2>. QED
    BY <1>15, <2>1, <2>2, <2>3 DEF SoloInv
<1>17. ASSUME NEW t \in Ticks, RecordSkip(t) PROVE SoloInv'
  <2>1. /\ pc[t] = "record" /\ Write(t, WithRow(View(t), job[t])) /\ job[t] \in Job
        /\ Recorded(t) /\ failed' = failed
    BY <1>17 DEF RecordSkip, TypeOK
  <2>2. WithRow(View(t), job[t]).start = View(t).start
    BY <2>1, RowTypes, ViewTypes
  <2>. QED
    BY <1>15, <2>1, <2>2 DEF SoloInv
<1>18. ASSUME NEW t \in Ticks, RecordFailure(t) PROVE SoloInv'
  <2>1. /\ pc[t] = "record" /\ Write(t, WithRow(View(t), job[t])) /\ job[t] \in Job
        /\ Recorded(t) /\ failed' = [failed EXCEPT ![t] = @ \cup {<<job[t], result[t]>>}]
        /\ result[t] \in ErrorClass
    BY <1>18 DEF RecordFailure, TypeOK
  <2>2. WithRow(View(t), job[t]).start = View(t).start
    BY <2>1, RowTypes, ViewTypes
  <2>3. <<job[t].type, result[t]>> \in Failing
    BY <2>1 DEF SoloInv, Outcomes, ErrorClass
  <2>4. failed'[t] = failed[t] \cup {<<job[t], result[t]>>}
    BY <2>1 DEF TypeOK
  <2>5. ASSUME NEW f \in failed'[t] PROVE <<f[1].type, f[2]>> \in Failing
    <3>1. CASE f \in failed[t]
      BY <3>1 DEF SoloInv
    <3>2. CASE f = <<job[t], result[t]>>
      <4>1. f[1] = job[t] /\ f[2] = result[t]
        BY <3>2
      <4>. QED
        BY <2>3, <4>1
    <3>. QED
      BY <2>4, <3>1, <3>2
  <2>6. \A u \in Ticks \ {t} : failed'[u] = failed[u]
    BY <2>1 DEF TypeOK
  <2>. QED
    BY <1>15, <2>1, <2>2, <2>5, <2>6
<1>19. ASSUME NEW t \in Ticks, Commit(t) PROVE SoloInv'
  <2>1. /\ ~Idle(t) /\ End(t) /\ UNCHANGED clockVars /\ db' = View(t) /\ UNCHANGED <<tx, moves>>
    BY <1>19 DEF Commit, Idle
  <2>2. moves' = 0 => db'.start = FirstStart /\ tx'.start = FirstStart
    BY <2>1, ViewStart DEF SoloInv
  <2>. QED
    BY <2>1, <2>2, SoloEnd
<1>20. ASSUME NEW t \in Ticks, Abort(t) PROVE SoloInv'
  BY <1>20, SoloRollback DEF Abort
<1>. QED
  BY <1>1, <1>2, <1>3, <1>4, <1>5, <1>7, <1>8, <1>9, <1>11, <1>12, <1>14, <1>16, <1>17,
     <1>18, <1>19, <1>20, NoRaces DEF Next, TickStep, HandleJob, Record
-----------------------------------------------------------------------------
LEMMA CardTypesAreTypes == CardTypes \subseteq JobType
BY DEF CardTypes, JobType

(* An event whose official window is open is on every tick's card, and all *)
(* three of its jobs are due.                                              *)
LEMMA CardIsDue ==
  ASSUME OnTime, TypeOK, SoloInv, NEW e \in Events, InWindow(e), moves = 0,
         NEW E \in IF Named THEN { {f} : f \in Events } ELSE { Upcoming }
  PROVE  CardJobs(e) \subseteq ComputeDueJobs(now, [f \in E |-> db.start[f]])
<1>1. db.start = FirstStart /\ FirstStart[e] \in Nat /\ now \in Nat
  BY TickAssumption DEF SoloInv, TypeOK
<1>2. Official \in Nat \ {0} /\ ScoreReady \in Nat /\ Official < ScoreReady /\ Horizon \in Nat
  BY CadenceAssumption, TickAssumption
<1>3. e \in E
  BY <1>1, <1>2 DEF Upcoming, OnTime, InWindow, Opening
<1>4. CardJobs(e) \subseteq ScoreJobs(e, FirstStart[e]) \cup OfficialJobs(e, FirstStart[e])
  BY DEF CardJobs, CardTypes, ScoreJobs, OfficialJobs, Opening
<1>5. /\ FirstStart[e] - Official <= now /\ now < FirstStart[e]
      /\ FirstStart[e] - ScoreReady <= now
  BY <1>1, <1>2 DEF InWindow, Opening
<1>6. CardJobs(e) \subseteq EventDue(e, FirstStart[e], now)
  BY <1>4, <1>5 DEF EventDue, When
<1>. QED
  BY <1>1, <1>3, <1>6 DEF ComputeDueJobs

(* Nothing the tick has noted as failed blocks a card.                     *)
LEMMA NothingBlocks ==
  ASSUME OnTime, TypeOK, SoloInv, NEW t \in Ticks, NEW j
  PROVE  ~CardBlocked(t, j)
<1>1. ASSUME NEW f \in failed[t] PROVE ~BlocksCard(f[1], f[2])
  <2>1. <<f[1].type, f[2]>> \in Failing
    BY DEF SoloInv
  <2>2. f[1].type \notin CardTypes /\ <<f[1].type, f[2]>> # <<"identity", "identity_unresolved">>
    BY <2>1 DEF OnTime
  <2>. QED
    BY <2>2 DEF BlocksCard, CardTypes
<1>. QED
  BY <1>1 DEF CardBlocked, BlockedPublishEvents

(* The job of a card that comes up next has what it depends on.            *)
LEMMA CardJobRuns ==
  ASSUME OnTime, TypeOK, SoloInv, NEW t \in Ticks, NEW e \in Events,
         pc[t] = "running", \A k \in CardJobs(e) : AtHand(t, k),
         NEW j \in CardJobs(e), j \in Heads(todo[t])
  PROVE  DependenciesOk(t, j) /\ ~CardBlocked(t, j)
<1>1. \A k \in CardJobs(e) : k \in todo[t] \/ k \in View(t).done
  BY DEF AtHand, Executing
<1> DEFINE J(ty) == JobFor(ty, e, Opening(e))
<1>2. /\ J("score") \in CardJobs(e) /\ J("recommend") \in CardJobs(e)
      /\ J("publish") \in CardJobs(e)
  BY DEF CardJobs, CardTypes
<1>3. j = J("score") \/ j = J("recommend") \/ j = J("publish")
  BY DEF CardJobs, CardTypes
<1>4. \A ty : J(ty).type = ty /\ J(ty).event = e
  BY DEF JobFor
<1>5. CASE j = J("score")
  <2>1. JobDependencies[j.type] = {}
    BY <1>4, <1>5 DEF JobDependencies, JobType
  <2>. QED
    BY <2>1, NothingBlocks DEF DependenciesOk
<1>6. CASE j = J("recommend")
  <2>1. JobDependencies[j.type] = {"score"}
    BY <1>4, <1>6 DEF JobDependencies, JobType
  <2>2. J("score") \notin todo[t]
    BY <1>4, <1>6, OfficialRanks DEF Heads, Before
  <2>3. J("score") \in View(t).done
    BY <1>1, <1>2, <2>2
  <2>4. SuccessKey(J("score").type, J("score").event) = SuccessKey("score", j.event)
    BY <1>4, <1>6
  <2>5. HasSuccessfulJobType(View(t).done, SuccessKey("score", j.event))
    BY <2>3, <2>4 DEF HasSuccessfulJobType
  <2>. QED
    BY <2>1, <2>5, NothingBlocks DEF DependenciesOk, DependencySatisfied
<1>7. CASE j = J("publish")
  <2>1. JobDependencies[j.type] = {"recommend"}
    BY <1>4, <1>7 DEF JobDependencies, JobType
  <2>2. J("recommend") \notin todo[t]
    BY <1>4, <1>7, OfficialRanks DEF Heads, Before
  <2>3. J("recommend") \in View(t).done
    BY <1>1, <1>2, <2>2
  <2>4. SuccessKey(J("recommend").type, J("recommend").event) = SuccessKey("recommend", j.event)
    BY <1>4, <1>7
  <2>5. HasSuccessfulJobType(View(t).done, SuccessKey("recommend", j.event))
    BY <2>3, <2>4 DEF HasSuccessfulJobType
  <2>. QED
    BY <2>1, <2>5, NothingBlocks DEF DependenciesOk, DependencySatisfied
<1>. QED
  BY <1>3, <1>5, <1>6, <1>7

(* A step of the tick under way that neither commits nor dies.             *)
LEMMA CardByTick ==
  ASSUME TypeOK, SoloInv, NEW t \in Ticks, ~Idle(t), NEW e \in Events, CardInv(e),
         \A u \in Ticks \ {t} : pc'[u] = pc[u], pc'[t] # "idle",
         UNCHANGED <<now, lastRun, aborts>>, db'.done = db.done, moves' = 0 => moves = 0,
         View(t).done \subseteq View(t)'.done,
         ASSUME \A k \in CardJobs(e) : AtHand(t, k)
         PROVE  \A k \in CardJobs(e) : AtHand(t, k)'
  PROVE  CardInv(e)'
<1>1. \A u \in Ticks \ {t} : pc'[u] = "idle"
  BY DEF SoloInv, Idle
<1>2. ~Idle(t)'
  BY DEF Idle
<1>3. InWindow(e)' <=> InWindow(e)
  BY DEF InWindow
<1>4. CardJobs(e)' = CardJobs(e) /\ Opening(e)' = Opening(e)
  BY DEF CardJobs, Opening
<1>. QED
  BY <1>1, <1>2, <1>3, <1>4 DEF CardInv, Idle
LEMMA CardInit == ASSUME OnTime, Init, NEW e \in Events PROVE CardInv(e)
<1>1. FirstStart[e] \in Nat /\ Official \in Nat \ {0} /\ Official <= FirstStart[e]
  BY TickAssumption, CadenceAssumption DEF OnTime
<1>2. now = 0 /\ lastRun = -1 /\ aborts = 0 /\ \A t \in Ticks : Idle(t)
  BY DEF Init, Idle
<1>. QED
  BY <1>1, <1>2 DEF CardInv, InWindow, Opening

LEMMA CardStep ==
  ASSUME OnTime, TypeOK, LedgerInv, SoloInv, [Next]_vars, NEW e \in Events, CardInv(e)
  PROVE  CardInv(e)'
<1> USE DEF dataVars, clockVars
<1> DEFINE P == JobFor("publish", e, Opening(e))
<1>0. /\ FirstStart[e] \in Nat /\ Official \in Nat \ {0} /\ Opening(e) \in Nat
      /\ now \in Nat /\ lastRun \in Int /\ aborts \in Nat
      /\ FirstStart[e] = Opening(e) + Official
  BY TickAssumption, CadenceAssumption DEF OnTime, Opening, TypeOK
<1>1. CASE AdvanceClock
  <2>1. /\ lastRun = now /\ \A t \in Ticks : Idle(t) /\ Idle(t)'
        /\ now' = now + 1 /\ UNCHANGED <<lastRun, db, moves, aborts>>
    BY <1>1 DEF AdvanceClock, OnTime, tickVars, Idle
  <2>2. CASE moves = 0 /\ P \notin db.done
    <3>1. InWindow(e) => now - Opening(e) + 1 <= aborts
      BY <2>1, <2>2 DEF CardInv
    <3>2. FirstStart[e] <= now => Official <= aborts
      BY <2>2 DEF CardInv
    <3>3. InWindow(e)' => now' - Opening(e) <= aborts'
      BY <1>0, <2>1, <3>1 DEF InWindow, Opening
    <3>4. FirstStart[e] <= now' => Official <= aborts'
      BY <1>0, <2>1, <3>1, <3>2 DEF InWindow
    <3>5. lastRun' # now'
      BY <1>0, <2>1
    <3>. QED
      BY <2>1, <3>3, <3>4, <3>5 DEF CardInv, Opening
  <2>3. CASE ~(moves = 0 /\ P \notin db.done)
    BY <2>1, <2>3 DEF CardInv, Opening
  <2>. QED
    BY <2>2, <2>3
<1>2. CASE UNCHANGED vars
  BY <1>2 DEF vars, tickVars, CardInv, InWindow, Opening, Idle, AtHand, Executing, View, CardJobs
<1>3. ASSUME NEW t \in Ticks, StartTick(t) PROVE CardInv(e)'
  <2> DEFINE due(E) == ComputeDueJobs(now, [f \in E |-> db.start[f]])
  <2>1. PICK E \in IF Named THEN { {f} : f \in Events } ELSE { Upcoming } :
          todo' = [todo EXCEPT ![t] = due(E)]
    BY <1>3 DEF StartTick
  <2>2. (InWindow(e) /\ moves = 0) => CardJobs(e) \subseteq due(E)
    BY CardIsDue
  <2> HIDE DEF due
  <2>3. /\ \A u \in Ticks : Idle(u)
        /\ pc' = [pc EXCEPT ![t] = "loaded"] /\ lastRun' = now
        /\ UNCHANGED <<now, db, moves, aborts>>
    BY <1>3 DEF StartTick, OnTime
  <2>4. \A u \in Ticks : ~Idle(u)' => u = t
    BY <2>3 DEF Idle, TypeOK
  <2>5. (InWindow(e) /\ moves = 0) => \A k \in CardJobs(e) : AtHand(t, k)'
    BY <2>1, <2>2 DEF AtHand, TypeOK
  <2>6. ~Idle(t)'
    BY <2>3 DEF Idle, TypeOK
  <2>7. InWindow(e)' = InWindow(e) /\ Opening(e)' = Opening(e) /\ CardJobs(e)' = CardJobs(e)
    BY <2>3 DEF InWindow, Opening, CardJobs
  <2>. QED
    BY <2>3, <2>4, <2>5, <2>6, <2>7 DEF CardInv
<1>4. ASSUME NEW t \in Ticks, AcquireFlock(t) PROVE CardInv(e)'
  <2>1. /\ pc[t] = "loaded" /\ pc' = [pc EXCEPT ![t] = "running"]
        /\ UNCHANGED <<now, lastRun, aborts, db, tx, writer, moves, todo, job>>
    BY <1>4 DEF AcquireFlock
  <2>2. \A k : AtHand(t, k) => AtHand(t, k)'
    BY <2>1 DEF AtHand, Executing, View
  <2>. QED
    BY <2>1, <2>2, CardByTick DEF Idle, View, TypeOK
<1>5. ASSUME NEW t \in Ticks, ReleaseFlock(t) PROVE CardInv(e)'
  <2>1. /\ pc[t] = "running" /\ pc' = [pc EXCEPT ![t] = "unlocked"]
        /\ UNCHANGED <<now, lastRun, aborts, db, tx, writer, moves, todo, job>>
    BY <1>5 DEF ReleaseFlock
  <2>2. \A k : AtHand(t, k) => AtHand(t, k)'
    BY <2>1 DEF AtHand, Executing, View
  <2>. QED
    BY <2>1, <2>2, CardByTick DEF Idle, View, TypeOK
<1>6. ASSUME NEW t \in Ticks, NEW j \in todo[t], BlockJob(t, j) PROVE CardInv(e)'
  <2>1. /\ pc[t] = "running" /\ Write(t, WithRow(View(t), j)) /\ j \in Job
        /\ todo' = [todo EXCEPT ![t] = @ \ {j}] /\ j \in Heads(todo[t])
        /\ UNCHANGED <<now, lastRun, aborts, pc, job>>
    BY <1>6 DEF BlockJob, Take, TypeOK
  <2>2. View(t)'.done = View(t).done /\ db' = db /\ moves' = moves
    BY <2>1, RowTypes, ViewTypes, ViewWritten
  <2>3. ASSUME \A k \in CardJobs(e) : AtHand(t, k), NEW k \in CardJobs(e)
        PROVE  AtHand(t, k)'
    <3>1. k # j
      BY <1>6, <2>1, <2>3, CardJobRuns DEF BlockJob
    <3>. QED
      BY <2>1, <2>2, <2>3, <3>1 DEF AtHand, Executing, TypeOK
  <2>. QED
    BY <2>1, <2>2, <2>3, CardByTick DEF Idle
<1>7. ASSUME NEW t \in Ticks, NEW j \in todo[t], SkipDuplicate(t, j) PROVE CardInv(e)'
  <2>1. /\ pc[t] = "running" /\ j \in View(t).done
        /\ todo' = [todo EXCEPT ![t] = @ \ {j}]
        /\ UNCHANGED <<now, lastRun, aborts, pc, job, db, tx, writer, moves>>
    BY <1>7 DEF SkipDuplicate, Take
  <2>2. View(t)' = View(t)
    BY <2>1 DEF View
  <2>3. \A k : AtHand(t, k) => AtHand(t, k)'
    BY <2>1, <2>2 DEF AtHand, Executing, TypeOK
  <2>. QED
    BY <2>1, <2>2, <2>3, CardByTick DEF Idle
<1>8. ASSUME NEW t \in Ticks, NEW j \in todo[t], CallHandler(t, j) PROVE CardInv(e)'
  <2>1. /\ pc[t] = "running" /\ pc' = [pc EXCEPT ![t] = "handler"]
        /\ todo' = [todo EXCEPT ![t] = @ \ {j}] /\ job' = [job EXCEPT ![t] = j]
        /\ UNCHANGED <<now, lastRun, aborts, db, tx, writer, moves>>
    BY <1>8 DEF CallHandler, Take
  <2>2. View(t)' = View(t)
    BY <2>1 DEF View
  <2>3. \A k : AtHand(t, k) => AtHand(t, k)'
    BY <2>1, <2>2 DEF AtHand, Executing, TypeOK
  <2>. QED
    BY <2>1, <2>2, <2>3, CardByTick DEF Idle, TypeOK
<1>9. ASSUME NEW t \in Ticks, RunHandler(t) PROVE CardInv(e)'
  <2>1. /\ pc[t] = "handler" /\ pc' = [pc EXCEPT ![t] = "record"]
        /\ UNCHANGED <<now, lastRun, aborts, db, tx, writer, moves, todo, job>>
    BY <1>9 DEF RunHandler, HandlerReturns
  <2>2. \A k : AtHand(t, k) => AtHand(t, k)'
    BY <2>1 DEF AtHand, Executing, View, TypeOK
  <2>. QED
    BY <2>1, <2>2, CardByTick DEF Idle, View, TypeOK
<1>10. ASSUME NEW t \in Ticks, DiscoverMovesEvent(t) PROVE CardInv(e)'
  BY <1>10 DEF DiscoverMovesEvent, TypeOK, CardInv
<1>11. ASSUME NEW t \in Ticks, RetryTransient(t) PROVE CardInv(e)'
  <2>1. /\ pc[t] = "record" /\ Write(t, WithRow(View(t), job[t])) /\ job[t] \in Job
        /\ pc' = [pc EXCEPT ![t] = "handler"]
        /\ UNCHANGED <<now, lastRun, aborts, todo, job>>
    BY <1>11 DEF RetryTransient, TypeOK
  <2>2. View(t)'.done = View(t).done /\ db' = db /\ moves' = moves
    BY <2>1, RowTypes, ViewTypes, ViewWritten
  <2>3. \A k : AtHand(t, k) => AtHand(t, k)'
    BY <2>1, <2>2 DEF AtHand, Executing, TypeOK
  <2>. QED
    BY <2>1, <2>2, <2>3, CardByTick DEF Idle, TypeOK
<1>12. ASSUME NEW t \in Ticks, NEW v, pc[t] = "record", Recorded(t), Write(t, v),
              View(t).done \subseteq v.done,
              job[t] \in CardJobs(e) => job[t] \in v.done
       PROVE  CardInv(e)'
  <2>1. /\ pc' = [pc EXCEPT ![t] = "running"] /\ job' = [job EXCEPT ![t] = None]
        /\ UNCHANGED <<now, lastRun, aborts, todo>>
    BY <1>12 DEF Recorded
  <2>2. View(t)' = v /\ db' = db /\ moves' = moves
    BY <1>12, ViewWritten
  <2>3. \A k \in CardJobs(e) : AtHand(t, k) => AtHand(t, k)'
    BY <1>12, <2>1, <2>2 DEF AtHand, Executing, TypeOK
  <2>. QED
    BY <1>12, <2>1, <2>2, <2>3, CardByTick DEF Idle, TypeOK
<1>13. ASSUME NEW t \in Ticks, RecordSuccess(t) PROVE CardInv(e)'
  <2>1. /\ pc[t] = "record" /\ Write(t, WithSuccess(View(t), job[t])) /\ job[t] \in Job
        /\ Recorded(t)
    BY <1>13 DEF RecordSuccess, TypeOK
  <2>2. WithSuccess(View(t), job[t]).done = View(t).done \cup {job[t]}
    BY <2>1, SuccessTypes, ViewTypes
  <2>. QED
    BY <1>12, <2>1, <2>2
<1>14. ASSUME NEW t \in Ticks, pc[t] = "record", result[t] # "success"
       PROVE  job[t] \notin CardJobs(e)
  <2>1. CASE result[t] \in ErrorClass
    <3>1. <<job[t].type, result[t]>> \in Failing
      BY <1>14, <2>1 DEF SoloInv, Outcomes, ErrorClass
    <3>. QED
      BY <3>1 DEF OnTime, CardJobs, JobFor
  <2>2. CASE result[t] \notin ErrorClass
    <3>1. job[t].type = "grade"
      BY <1>14, <2>2 DEF SoloInv, Outcomes, ErrorClass
    <3>. QED
      BY <3>1 DEF CardJobs, CardTypes, JobFor
  <2>. QED
    BY <2>1, <2>2
<1>15. ASSUME NEW t \in Ticks, RecordSkip(t) \/ RecordFailure(t) PROVE CardInv(e)'
  <2>1. /\ pc[t] = "record" /\ Write(t, WithRow(View(t), job[t])) /\ job[t] \in Job
        /\ Recorded(t) /\ result[t] # "success"
    BY <1>15 DEF RecordSkip, RecordFailure, TypeOK, ErrorClass
  <2>2. WithRow(View(t), job[t]).done = View(t).done
    BY <2>1, RowTypes, ViewTypes
  <2>. QED
    BY <1>12, <1>14, <2>1, <2>2
<1>16. ASSUME NEW t \in Ticks, Commit(t) PROVE CardInv(e)'
  <2>1. /\ pc[t] = "unlocked" /\ End(t) /\ db' = View(t)
        /\ UNCHANGED <<now, lastRun, moves, aborts>>
    BY <1>16 DEF Commit
  <2>2. db.done \subseteq db'.done
    BY <2>1 DEF LedgerInv, View
  <2>3. \A u \in Ticks : Idle(u)'
    BY <2>1 DEF SoloInv, Idle, End, TypeOK
  <2>4. (InWindow(e) /\ moves = 0) => P \in db'.done
    <3>1. P \in CardJobs(e) /\ ~Idle(t) /\ ~Executing(t)
      BY <2>1 DEF CardJobs, CardTypes, Idle, Executing
    <3>2. todo[t] = {}
      BY <2>1 DEF SoloInv
    <3>. QED
      BY <2>1, <3>1, <3>2 DEF CardInv, AtHand
  <2>5. InWindow(e)' = InWindow(e) /\ Opening(e)' = Opening(e)
    BY <2>1 DEF InWindow, Opening
  <2>. QED
    BY <2>1, <2>2, <2>3, <2>4, <2>5 DEF CardInv
<1>17. ASSUME NEW t \in Ticks, Abort(t) PROVE CardInv(e)'
  <2>1. /\ ~Idle(t) /\ End(t) /\ aborts' = aborts + 1
        /\ UNCHANGED <<now, lastRun, db, moves>>
    BY <1>17 DEF Abort, Rollback
  <2>2. \A u \in Ticks : Idle(u)'
    BY <2>1 DEF SoloInv, Idle, End, TypeOK
  <2>3. InWindow(e)' = InWindow(e) /\ Opening(e)' = Opening(e)
    BY <2>1 DEF InWindow, Opening
  <2>. QED
    BY <1>0, <2>1, <2>2, <2>3 DEF CardInv
<1>. QED
  BY <1>1, <1>2, <1>3, <1>4, <1>5, <1>6, <1>7, <1>8, <1>9, <1>10, <1>11, <1>13, <1>15,
     <1>16, <1>17, NoRaces DEF Next, TickStep, HandleJob, Record

(* NoMissedCard, for every cadence, horizon and number of cards and lost   *)
(* ticks: under OnTime, a card that starts where it was announced and for  *)
(* which fewer ticks died than its official window has instants has been   *)
(* published when it starts.                                               *)
THEOREM NoCardIsMissed == ASSUME OnTime PROVE Spec => []NoMissedCard
<1> DEFINE Cards == \A e \in Events : CardInv(e)
<1>1. Init => Cards
  BY CardInit
<1>2. TypeOK /\ LedgerInv /\ SoloInv /\ Cards /\ [Next]_vars => Cards'
  BY CardStep
<1>3. TypeOK /\ LedgerInv /\ SoloInv /\ [Next]_vars => SoloInv'
  BY SoloStep
<1>4. TypeOK /\ Cards => NoMissedCard
  <2> SUFFICES ASSUME TypeOK, Cards, NEW e \in Events, moves = 0, aborts < Official,
                      now > FirstStart[e]
               PROVE  JobFor("publish", e, FirstStart[e] - Official) \in db.done
    BY DEF NoMissedCard
  <2>1. FirstStart[e] \in Nat /\ now \in Nat /\ aborts \in Nat /\ Official \in Nat
    BY TickAssumption, CadenceAssumption DEF TypeOK
  <2>. QED
    BY <2>1 DEF CardInv, Opening
<1>. QED
  BY TypeInit, TypeStep, LedgerInit0, LedgerStep, SoloInit, <1>1, <1>2, <1>3, <1>4,
     PTL DEF Spec
=============================================================================
