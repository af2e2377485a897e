----------------------------- MODULE JobWorker -----------------------------
(***************************************************************************)
(* scripts/job_worker.py run_once, with the calls it makes into            *)
(* job_queue.py, at the grain at which another connection can interleave.  *)
(* Python's sqlite3 opens a transaction only before the first INSERT or    *)
(* UPDATE, so every SELECT before it runs on its own and what it read may  *)
(* be stale when the UPDATE runs.  From that UPDATE to the commit the      *)
(* write lock is held and others read the old rows: one step here; a crash *)
(* inside it rolls back, which is the crash just before the step.          *)
(***************************************************************************)
EXTENDS JobRows

CONSTANTS
  MaxTime,     \* the clock may always run this far (bound)
  MaxCrashes   \* how many times a worker process may be killed (bound)

ASSUME JobWorkerAssumption == MaxTime \in Nat /\ MaxCrashes \in Nat

VARIABLES event_jobs, job_transitions, paperclip_outbox, clock,
          proc,      \* worker -> its local state
          crashes    \* kills so far

workerTables == <<event_jobs, job_transitions, paperclip_outbox>>
runVars == <<event_jobs, job_transitions, paperclip_outbox, clock, proc, crashes>>

\* Locals of a run: now is read once, when run_once begins; from, attempt and
\* retries hold what the SELECTs returned; rows is reap_expired_leases' list.
NoRows == [j \in {} |-> 0]
Idle == [pc |-> "idle", now |-> 0, job |-> 0, from |-> "absent",
         attempt |-> 0, retries |-> 0, rows |-> NoRows]

PCs == {"idle", "reap", "reap_write", "poll", "lease", "lease_write", "handle",
        "success_write", "fail", "fail_write", "raised"}

WorkerInit ==
  /\ event_jobs = [j \in JobIds |-> AbsentRow]
  /\ job_transitions = [j \in JobIds |-> <<>>]
  /\ paperclip_outbox = [k \in {} |-> "pending"]
  /\ clock = 0
  /\ proc = [w \in Owners |-> Idle]
  /\ crashes = 0

-----------------------------------------------------------------------------
At(w, pc) == proc[w].pc = pc
Become(w, local) == proc' = [proc EXCEPT ![w] = local]

\* _current_state and the guard of transition: IllegalTransition is not caught
\* by run_once and ends the process.
Guarded(w, job, target, local) ==
  LET from == event_jobs[job].state IN
  IF target \in ALLOWED_TRANSITIONS[from]
    THEN Become(w, [local EXCEPT !.from = from])
    ELSE Become(w, [Idle EXCEPT !.pc = "raised"])

\* The UPDATE and the audit INSERT, the latter with the state read earlier.
Write(job, row, from, reason) ==
  /\ event_jobs' = [event_jobs EXCEPT ![job] = row]
  /\ job_transitions' =
       [job_transitions EXCEPT ![job] = Audit(@, from, row.state, reason)]

\* webhook_ingress: the next id, committed with its envelope.
Enqueue(j) ==
  /\ event_jobs[j].state = "absent"
  /\ \A k \in 1..(j - 1) : event_jobs[k].state # "absent"
  /\ event_jobs' = [event_jobs EXCEPT ![j] = QueuedRow]
  /\ UNCHANGED <<job_transitions, paperclip_outbox, clock, proc, crashes>>

\* run_once reads the clock; reap_expired_leases SELECTs the expired rows.
StartRun(w) ==
  LET expired == {j \in JobIds : IsExpired(event_jobs[j], clock)} IN
  /\ At(w, "idle")
  /\ Become(w, [Idle EXCEPT
       !.now = clock,
       !.rows = [j \in expired |-> event_jobs[j].attempt_count],
       !.pc = IF expired = {} THEN "poll" ELSE "reap"])
  /\ UNCHANGED <<workerTables, clock, crashes>>

\* The first row of the list (any: the query has no ORDER BY) is checked
\* before the transaction begins.
ReapRead(w) ==
  /\ At(w, "reap")
  /\ \E first \in DOMAIN proc[w].rows :
       Guarded(w, first, ReapTarget(proc[w].rows[first] + 1),
               [proc[w] EXCEPT !.pc = "reap_write", !.job = first])
  /\ UNCHANGED <<workerTables, clock, crashes>>

\* All the rows, with the counters of the list; the later ones are checked
\* inside the transaction and one refusal rolls all of it back.
ReapWrite(w) ==
  LET p == proc[w]
      listed == DOMAIN p.rows
      attempt(j) == p.rows[j] + 1
      from(j) == IF j = p.job THEN p.from ELSE event_jobs[j].state
      legal == \A j \in listed : ReapTarget(attempt(j)) \in ALLOWED_TRANSITIONS[from(j)]
  IN /\ At(w, "reap_write")
     /\ \/ /\ legal
           /\ event_jobs' = [j \in JobIds |->
                IF j \in listed THEN ReapedRow(event_jobs[j], attempt(j), p.now)
                                ELSE event_jobs[j]]
           /\ job_transitions' = [j \in JobIds |->
                IF j \in listed
                  THEN Audit(job_transitions[j], from(j), ReapTarget(attempt(j)), "reap")
                  ELSE job_transitions[j]]
           /\ paperclip_outbox' = WriteOutboxRows(paperclip_outbox,
                {OutboxKey(j, p.now) : j \in {i \in listed : IsLastAttempt(attempt(i))}})
           /\ Become(w, [Idle EXCEPT !.pc = "poll", !.now = p.now])
        \/ /\ ~legal
           /\ Become(w, [Idle EXCEPT !.pc = "raised"])
           /\ UNCHANGED workerTables
     /\ UNCHANGED <<clock, crashes>>

\* poll_next: nothing to do ends the run.
Poll(w) ==
  LET next == PollNext(event_jobs, proc[w].now) IN
  /\ At(w, "poll")
  /\ \/ next = {} /\ Become(w, Idle)
     \/ \E j \in next : Become(w, [proc[w] EXCEPT !.pc = "lease", !.job = j])
  /\ UNCHANGED <<workerTables, clock, crashes>>

LeaseRead(w) ==
  /\ At(w, "lease")
  /\ Guarded(w, proc[w].job, "leased", [proc[w] EXCEPT !.pc = "lease_write"])
  /\ UNCHANGED <<workerTables, clock, crashes>>

\* Mutant of Announce: the last attempt is announced one too late.
AnnounceOffByOne(j, attempt, now) ==
  paperclip_outbox' = WriteOutboxRows(paperclip_outbox,
    IF attempt > MaxAttempts THEN {OutboxKey(j, now)} ELSE {})

\* The outbox rows of a failed attempt of job j recorded at the given time.
Announce(j, attempt, now) ==
  paperclip_outbox' = WriteOutboxRows(paperclip_outbox,
    IF IsLastAttempt(attempt) THEN {OutboxKey(j, now)} ELSE {})

\* lease_job, committed before the handler runs.
LeaseWrite(w) ==
  LET p == proc[w] IN
  /\ At(w, "lease_write")
  /\ ScopeOf[p.job] \in HandledScopes
  /\ Write(p.job, LeasedRow(event_jobs[p.job], w, p.now), p.from, "lease")
  /\ Become(w, [p EXCEPT !.pc = "handle"])
  /\ UNCHANGED <<paperclip_outbox, clock, crashes>>

\* No handler for the lane: lease_job and record_failure in one transaction.
LeaseWriteUnhandled(w) ==
  LET p == proc[w]
      j == p.job
      attempt == event_jobs[j].attempt_count + 1
      retries == event_jobs[j].retry_count + 1
  IN /\ At(w, "lease_write")
     /\ ScopeOf[j] \notin HandledScopes
     /\ \E delay \in BackoffSeconds(attempt) :
          event_jobs' = [event_jobs EXCEPT ![j] =
            FailedRow(LeasedRow(@, w, p.now), attempt, retries, p.now, delay)]
     /\ job_transitions' = [job_transitions EXCEPT ![j] =
          Audit(Audit(@, p.from, "leased", "lease"),
                "leased", FailTarget(attempt), "failure")]
     /\ Announce(j, attempt, p.now)
     /\ Become(w, Idle)
     /\ UNCHANGED <<clock, crashes>>

\* The handler returns ok; record_success reads the state.
HandlerSucceeds(w) ==
  /\ At(w, "handle")
  /\ Guarded(w, proc[w].job, "succeeded", [proc[w] EXCEPT !.pc = "success_write"])
  /\ UNCHANGED <<workerTables, clock, crashes>>

SuccessWrite(w) ==
  LET p == proc[w] IN
  /\ At(w, "success_write")
  /\ Write(p.job, Released(event_jobs[p.job], "succeeded"), p.from, "success")
  /\ Become(w, Idle)
  /\ UNCHANGED <<paperclip_outbox, clock, crashes>>

\* Mutant of HandlerFails: the retry is not counted.
HandlerFailsUncounted(w) ==
  LET row == event_jobs[proc[w].job] IN
  /\ At(w, "handle")
  /\ Become(w, [proc[w] EXCEPT !.pc = "fail", !.attempt = row.attempt_count + 1,
                               !.retries = row.retry_count])
  /\ UNCHANGED <<workerTables, clock, crashes>>

\* The handler fails or raises; record_failure reads the counters...
HandlerFails(w) ==
  LET row == event_jobs[proc[w].job] IN
  /\ At(w, "handle")
  /\ Become(w, [proc[w] EXCEPT !.pc = "fail", !.attempt = row.attempt_count + 1,
                               !.retries = row.retry_count + 1])
  /\ UNCHANGED <<workerTables, clock, crashes>>

\* ... then transition reads the state ...
FailRead(w) ==
  /\ At(w, "fail")
  /\ Guarded(w, proc[w].job, FailTarget(proc[w].attempt),
             [proc[w] EXCEPT !.pc = "fail_write"])
  /\ UNCHANGED <<workerTables, clock, crashes>>

\* ... and writes back the counters it read.
FailWrite(w) ==
  LET p == proc[w] IN
  /\ At(w, "fail_write")
  /\ \E delay \in BackoffSeconds(p.attempt) :
       Write(p.job, FailedRow(event_jobs[p.job], p.attempt, p.retries, p.now, delay),
             p.from, "failure")
  /\ Announce(p.job, p.attempt, p.now)
  /\ Become(w, Idle)
  /\ UNCHANGED <<clock, crashes>>

\* The poll loop starts a fresh process after one that raised.
Restart(w) ==
  /\ At(w, "raised")
  /\ Become(w, Idle)
  /\ UNCHANGED <<workerTables, clock, crashes>>

Crash(w) ==
  /\ proc[w].pc \notin {"idle", "raised"}
  /\ crashes < MaxCrashes
  /\ crashes' = crashes + 1
  /\ Become(w, Idle)
  /\ UNCHANGED <<workerTables, clock>>

SomeRowWaits ==
  \E j \in JobIds : \/ event_jobs[j].not_before > clock
                    \/ event_jobs[j].lease_expires_at > clock
Tick ==
  /\ clock < MaxTime \/ SomeRowWaits
  /\ clock' = clock + 1
  /\ UNCHANGED <<workerTables, proc, crashes>>

Run(w) ==
  \/ StartRun(w) \/ ReapRead(w) \/ ReapWrite(w) \/ Poll(w)
  \/ LeaseRead(w) \/ LeaseWrite(w) \/ LeaseWriteUnhandled(w)
  \/ HandlerSucceeds(w) \/ SuccessWrite(w)
  \/ HandlerFails(w) \/ FailRead(w) \/ FailWrite(w) \/ Restart(w)

WorkerNext ==
  \/ \E j \in JobIds : Enqueue(j)
  \/ \E w \in Owners : Run(w) \/ Crash(w)
  \/ Tick

WorkerSpec == WorkerInit /\ [][WorkerNext]_runVars

\* docker-compose's `while true' loop keeps every worker running, a handler
\* returns, and time passes.
WorkerFairSpec == WorkerSpec /\ WF_runVars(Tick) /\ \A w \in Owners : WF_runVars(Run(w))

-----------------------------------------------------------------------------
\* Workers hold what their SELECTs can have returned.
WorkerTypeOK ==
  /\ event_jobs \in [JobIds -> Row]
  /\ job_transitions \in [JobIds -> Seq(AuditRow)]
  /\ DOMAIN paperclip_outbox \subseteq Scopes \X Nat
  /\ clock \in Nat /\ crashes \in 0..MaxCrashes
  /\ \A w \in Owners :
       /\ proc[w].pc \in PCs
       /\ proc[w].now \in 0..clock
       /\ proc[w].pc \notin {"idle", "reap", "poll", "raised"} => proc[w].job \in JobIds
       /\ proc[w].from \in States \cup {"absent"}
       /\ DOMAIN proc[w].rows \subseteq JobIds

Queue == INSTANCE JobQueue

\* Without overlapping workers the program is the atomic queue: kills between
\* any two statements, stale clocks and late SELECTs included.
ImplementsJobQueue == Queue!Spec

\* However workers overlap, a dead letter has its outbox row: the two writes
\* share a transaction, whatever the SELECTs before it saw.
DeadLetterAnnounced == Queue!DeadLetterAnnounced

\* However workers overlap, the newest audit row of a job names its state.
AuditTail ==
  \A j \in JobIds :
    LET log == job_transitions[j]
    IN  IF log = <<>> THEN event_jobs[j].state \in {"queued", "absent"}
                      ELSE log[Len(log)].to = event_jobs[j].state

\* A worker that runs alone never meets IllegalTransition.
NeverRaises == \A w \in Owners : proc[w].pc # "raised"

\* Every job that was enqueued is finished in the end, kills and expired
\* leases included.
EveryJobFinishes ==
  \A j \in JobIds :
    (event_jobs[j].state # "absent") ~> (event_jobs[j].state \in TERMINAL)

\* job_queue.py: "terminal states are structurally terminal (AC-3)".
TerminalIsFinal == Queue!TerminalIsFinal
=============================================================================
