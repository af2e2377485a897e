------------------------------ MODULE JobQueue ------------------------------
(***************************************************************************)
(* What scripts/job_queue.py promises: the micro-job state machine with    *)
(* every call running alone in its own transaction.  `at' is the caller's  *)
(* own reading of the clock, taken at or before the call.                  *)
(***************************************************************************)
EXTENDS JobRows

CONSTANT MaxTime        \* the clock may always run this far (bound)
ASSUME JobQueueAssumption == MaxTime \in Nat

VARIABLES
  event_jobs,        \* job id -> row
  job_transitions,   \* job id -> its audit rows, oldest first
  paperclip_outbox,  \* dedupe key -> state of the outbox row
  clock

vars == <<event_jobs, job_transitions, paperclip_outbox, clock>>

Init ==
  /\ event_jobs = [j \in JobIds |-> AbsentRow]
  /\ job_transitions = [j \in JobIds |-> <<>>]
  /\ paperclip_outbox = [k \in {} |-> "pending"]
  /\ clock = 0

-----------------------------------------------------------------------------
\* transition: refuse what the table does not allow, otherwise rewrite the row
\* and append its audit row.
Transition(j, row, reason) ==
  /\ row.state \in ALLOWED_TRANSITIONS[event_jobs[j].state]
  /\ event_jobs' = [event_jobs EXCEPT ![j] = row]
  /\ job_transitions' = [job_transitions EXCEPT
       ![j] = Audit(@, event_jobs[j].state, row.state, reason)]

Enqueue(j) ==
  /\ event_jobs[j].state = "absent"
  /\ \A k \in 1..(j - 1) : event_jobs[k].state # "absent"
  /\ event_jobs' = [event_jobs EXCEPT ![j] = QueuedRow]
  /\ UNCHANGED <<job_transitions, paperclip_outbox, clock>>

\* poll_next then lease_job
Lease(j, owner, at) ==
  /\ j \in PollNext(event_jobs, at)
  /\ Transition(j, LeasedRow(event_jobs[j], owner, at), "lease")
  /\ UNCHANGED <<paperclip_outbox, clock>>

RecordSuccess(j) ==
  /\ Transition(j, Released(event_jobs[j], "succeeded"), "success")
  /\ UNCHANGED <<paperclip_outbox, clock>>

\* record_failure: the dead letter and its outbox row share the transaction.
RecordFailure(j, at) ==
  LET attempt == event_jobs[j].attempt_count + 1
      retries == event_jobs[j].retry_count + 1
  IN /\ \E delay \in BackoffSeconds(attempt) :
          Transition(j, FailedRow(event_jobs[j], attempt, retries, at, delay),
                     "failure")
     /\ paperclip_outbox' =
          WriteOutboxRows(paperclip_outbox,
            IF IsLastAttempt(attempt) THEN {OutboxKey(j, at)} ELSE {})
     /\ UNCHANGED clock

\* run_once on a lane without a handler: lease_job and record_failure in one
\* transaction, two audit rows.
FailUnhandled(j, owner, at) ==
  LET attempt == event_jobs[j].attempt_count + 1
      retries == event_jobs[j].retry_count + 1
      leased  == LeasedRow(event_jobs[j], owner, at)
  IN /\ ScopeOf[j] \notin HandledScopes
     /\ j \in PollNext(event_jobs, at)
     /\ \E delay \in BackoffSeconds(attempt) :
          event_jobs' = [event_jobs EXCEPT
            ![j] = FailedRow(leased, attempt, retries, at, delay)]
     /\ job_transitions' = [job_transitions EXCEPT ![j] =
          Audit(Audit(@, event_jobs[j].state, "leased", "lease"),
                "leased", FailTarget(attempt), "failure")]
     /\ paperclip_outbox' =
          WriteOutboxRows(paperclip_outbox,
            IF IsLastAttempt(attempt) THEN {OutboxKey(j, at)} ELSE {})
     /\ UNCHANGED clock

\* reap_expired_leases: every expired lease, in one transaction.
ReapExpiredLeases(at) ==
  LET expired    == {j \in JobIds : IsExpired(event_jobs[j], at)}
      attempt(j) == event_jobs[j].attempt_count + 1
  IN /\ expired # {}
     /\ event_jobs' = [j \in JobIds |->
          IF j \in expired THEN ReapedRow(event_jobs[j], attempt(j), at)
                           ELSE event_jobs[j]]
     /\ job_transitions' = [j \in JobIds |->
          IF j \in expired
            THEN Audit(job_transitions[j], "leased", ReapTarget(attempt(j)), "reap")
            ELSE job_transitions[j]]
     /\ paperclip_outbox' = WriteOutboxRows(paperclip_outbox,
          {OutboxKey(j, at) : j \in {i \in expired : IsLastAttempt(attempt(i))}})
     /\ UNCHANGED clock

CancelJob(j) ==
  /\ Transition(j, Released(event_jobs[j], "cancelled"), "cancelled")
  /\ UNCHANGED <<paperclip_outbox, clock>>

\* The commit of paperclip_outbox.relay, seen from the queue.
MarkDelivered(keys) ==
  /\ keys # {}
  /\ paperclip_outbox' =
       [k \in DOMAIN paperclip_outbox |->
          IF k \in keys THEN "delivered" ELSE paperclip_outbox[k]]
  /\ UNCHANGED <<event_jobs, job_transitions, clock>>

\* Past MaxTime the clock only runs on while some row waits for it.
SomeRowWaits ==
  \E j \in JobIds : \/ event_jobs[j].not_before > clock
                    \/ event_jobs[j].lease_expires_at > clock
Tick ==
  /\ clock < MaxTime \/ SomeRowWaits
  /\ clock' = clock + 1
  /\ UNCHANGED <<event_jobs, job_transitions, paperclip_outbox>>

Next ==
  \/ \E j \in JobIds : \/ Enqueue(j)
                       \/ RecordSuccess(j)
                       \/ CancelJob(j)
                       \/ \E at \in 0..clock : RecordFailure(j, at)
                       \/ \E owner \in Owners, at \in 0..clock :
                            Lease(j, owner, at) \/ FailUnhandled(j, owner, at)
  \/ \E at \in 0..clock : ReapExpiredLeases(at)
  \/ \E keys \in SUBSET {k \in DOMAIN paperclip_outbox :
                           paperclip_outbox[k] = "pending"} : MarkDelivered(keys)
  \/ Tick

Spec == Init /\ [][Next]_vars

-----------------------------------------------------------------------------
\* The tables hold rows of their schema.
TypeOK ==
  /\ event_jobs \in [JobIds -> Row]
  /\ job_transitions \in [JobIds -> Seq(AuditRow)]
  /\ DOMAIN paperclip_outbox \subseteq Scopes \X Nat
  /\ paperclip_outbox \in [DOMAIN paperclip_outbox -> {"pending", "delivered"}]
  /\ clock \in Nat

\* The attempt budget: a job that is not dead still has an attempt left, a
\* dead one has used exactly max_attempts (reap and failure both count).
WithinBudget(row) ==
  /\ row.attempt_count <= MaxAttempts
  /\ (row.state = "dead_letter") <=> (row.attempt_count = MaxAttempts)
AttemptBudget == \A j \in JobIds : WithinBudget(event_jobs[j])

\* The audit rows of a job form one unbroken path from queued to its state:
\* replaying job_transitions gives back event_jobs.
Replays(log, state) ==
  /\ \A i \in 1..(Len(log) - 1) : log[i].to = log[i + 1].from
  /\ log = <<>> => state \in {"queued", "absent"}
  /\ log # <<>> => log[1].from = "queued" /\ log[Len(log)].to = state
AuditReplays ==
  \A j \in JobIds : Replays(job_transitions[j], event_jobs[j].state)

\* The counters on the row agree with the audit trail: attempt_count counts
\* the failures and the reaped leases, retry_count the failures alone.
CountReasons(log, reasons) == Cardinality({i \in DOMAIN log : log[i].reason \in reasons})
AttemptsAudited ==
  \A j \in JobIds :
    /\ event_jobs[j].attempt_count =
         CountReasons(job_transitions[j], {"failure", "reap"})
    /\ event_jobs[j].retry_count = CountReasons(job_transitions[j], {"failure"})

\* A dead letter has an outbox row of its lane and area: none dies in silence.
DeadLetterAnnounced ==
  \A j \in JobIds : event_jobs[j].state = "dead_letter" =>
    \E k \in DOMAIN paperclip_outbox : k[1] = ScopeOf[j]

\* A leased row can always be reaped: it carries an expiry, and no other does.
Reapable(row) == (row.state = "leased") <=> (row.lease_expires_at # Null)
LeaseIsReapable == \A j \in JobIds : Reapable(event_jobs[j])

\* A finished job is never touched again, and its audit trail is closed.
TerminalIsFinal ==
  [][\A j \in JobIds : event_jobs[j].state \in TERMINAL =>
       /\ event_jobs'[j] = event_jobs[j]
       /\ job_transitions'[j] = job_transitions[j]]_vars

=============================================================================
