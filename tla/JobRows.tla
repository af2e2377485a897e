------------------------------ MODULE JobRows ------------------------------
(***************************************************************************)
(* Rows of event_jobs, job_transitions and paperclip_outbox, and the way   *)
(* scripts/job_queue.py rewrites them.  No variables: JobQueue (each call  *)
(* one transaction) and JobWorker (statement by statement) both use these. *)
(***************************************************************************)
EXTENDS Integers, Sequences, FiniteSets

CONSTANTS
  NumJobs,        \* AUTOINCREMENT ids 1..NumJobs that may be inserted (bound)
  Owners,         \* lease_owner values, one per worker process
  Scopes,         \* (lane, area_id) pairs
  ScopeOf,        \* job id -> its scope
  HandledScopes,  \* the scopes whose lane is registered in LANES
  MaxAttempts,    \* event_jobs.max_attempts
  LeaseSeconds,   \* lease_seconds of lease_job
  BackoffBase,    \* BACKOFF_BASE_S
  BackoffCap,     \* BACKOFF_CAP_S
  DayLength,      \* clock units in a UTC day
  NoOwner         \* SQL NULL in lease_owner

JobIds == 1..NumJobs
Null   == -1      \* SQL NULL in a time column

ASSUME JobRowsAssumption ==
  /\ NumJobs \in Nat
  /\ ScopeOf \in [JobIds -> Scopes]
  /\ HandledScopes \subseteq Scopes
  /\ MaxAttempts \in Nat \ {0}
  /\ LeaseSeconds \in Nat \ {0}
  /\ BackoffBase \in Nat \ {0}
  /\ BackoffCap \in Nat \ {0}
  /\ DayLength \in Nat \ {0}
  /\ NoOwner \notin Owners

-----------------------------------------------------------------------------
TERMINAL == {"succeeded", "dead_letter", "cancelled"}
LEASABLE == {"queued", "failed_retryable"}
States   == TERMINAL \cup LEASABLE \cup {"leased"}

\* Mutant of ALLOWED_TRANSITIONS: a terminal job can still be cancelled.
CancelAlwaysAllowed ==
  [s \in States \cup {"absent"} |->
     CASE s = "queued"           -> {"leased", "cancelled"}
       [] s = "leased"           -> {"succeeded", "failed_retryable",
                                     "dead_letter", "queued", "cancelled"}
       [] s = "failed_retryable" -> {"leased", "dead_letter", "cancelled"}
       [] OTHER                  -> {"cancelled"}]

\* "absent" stands for "no such row"; _current_state refuses every change of it.
ALLOWED_TRANSITIONS ==
  [s \in States \cup {"absent"} |->
     CASE s = "queued"           -> {"leased", "cancelled"}
       [] s = "leased"           -> {"succeeded", "failed_retryable",
                                     "dead_letter", "queued", "cancelled"}
       [] s = "failed_retryable" -> {"leased", "dead_letter", "cancelled"}
       [] OTHER                  -> {}]

Row == [state: States \cup {"absent"},
        attempt_count: Nat, retry_count: Nat,
        not_before: Nat \cup {Null},
        lease_owner: Owners \cup {NoOwner}, lease_expires_at: Nat \cup {Null}]

AbsentRow == [state |-> "absent", attempt_count |-> 0, retry_count |-> 0,
              not_before |-> Null, lease_owner |-> NoOwner,
              lease_expires_at |-> Null]

\* enqueue_job
QueuedRow == [AbsentRow EXCEPT !.state = "queued"]

\* The delays backoff_seconds can give after the given attempt: the base
\* doubled per attempt, plus a jitter of at most one base, capped.
BackoffSeconds(attempt) ==
  {d \in 0..BackoffCap :
     LET raw == BackoffBase * 2^(attempt - 1)
     IN  \/ raw <= d /\ d <= raw + BackoffBase
         \/ d = BackoffCap /\ raw + BackoffBase >= BackoffCap}

-----------------------------------------------------------------------------
\* WHERE clause of poll_next
IsLeasable(row, now) ==
  /\ row.state \in LEASABLE
  /\ row.not_before = Null \/ row.not_before <= now

\* poll_next: ORDER BY enqueued_at, job_id.  The ingress is one thread that
\* stamps enqueued_at as it inserts, so the two orders agree.
PollNext(jobs, now) ==
  {j \in JobIds : /\ IsLeasable(jobs[j], now)
                  /\ \A k \in 1..(j - 1) : ~IsLeasable(jobs[k], now)}

\* Mutant of IsExpired: only leases that name no owner are taken back.
IsExpiredUnowned(row, now) ==
  /\ row.state = "leased"
  /\ row.lease_owner = NoOwner
  /\ row.lease_expires_at <= now

\* WHERE clause of reap_expired_leases
IsExpired(row, now) ==
  /\ row.state = "leased"
  /\ row.lease_expires_at # Null
  /\ row.lease_expires_at <= now

\* lease_job
LeasedRow(row, owner, now) ==
  [row EXCEPT !.state = "leased", !.lease_owner = owner,
              !.lease_expires_at = now + LeaseSeconds]

\* The lease columns, cleared by every call that ends an attempt.
Released(row, to) ==
  [row EXCEPT !.state = to, !.lease_owner = NoOwner, !.lease_expires_at = Null]

\* Mutant of IsLastAttempt: one attempt too many.
IsLastAttemptOffByOne(attempt) == attempt > MaxAttempts

\* record_failure and reap_expired_leases: was that the last attempt?
IsLastAttempt(attempt) == attempt >= MaxAttempts

\* record_failure: the counters are the ones its SELECT read, plus one.
FailTarget(attempt) == IF IsLastAttempt(attempt) THEN "dead_letter"
                                                 ELSE "failed_retryable"
FailedRow(row, attempt, retries, now, delay) ==
  [Released(row, FailTarget(attempt)) EXCEPT
     !.attempt_count = attempt, !.retry_count = retries,
     !.not_before = IF IsLastAttempt(attempt) THEN @ ELSE now + delay]

\* reap_expired_leases: an abandoned lease is a spent attempt, not a retry.
ReapTarget(attempt) == IF IsLastAttempt(attempt) THEN "dead_letter" ELSE "queued"
ReapedRow(row, attempt, now) ==
  [Released(row, ReapTarget(attempt)) EXCEPT
     !.attempt_count = attempt,
     !.not_before = IF IsLastAttempt(attempt) THEN @ ELSE now]

\* transition: the audit row appended with every state change.
Reasons == {"lease", "success", "failure", "reap", "cancelled"}
AuditRow == [from: States, to: States, reason: Reasons]
\* Mutant of Audit: from and to swapped.
AuditSwapped(log, from, to, reason) ==
  Append(log, [from |-> to, to |-> from, reason |-> reason])
Audit(log, from, to, reason) ==
  Append(log, [from |-> from, to |-> to, reason |-> reason])

-----------------------------------------------------------------------------
Day(now) == now \div DayLength

\* dead_letter_dedupe_key: one row per lane, area and day.
OutboxKey(job, now) == <<ScopeOf[job], Day(now)>>

\* Mutant of WriteOutboxRows: an UPDATE in place of the INSERT.
WriteOnlyOverOld(outbox, keys) ==
  [k \in DOMAIN outbox |-> IF k \in keys THEN "pending" ELSE outbox[k]]

\* write_outbox_row: INSERT OR IGNORE on the UNIQUE dedupe_key.  The outbox is
\* a function from the keys present to the state of their row.
WriteOutboxRows(outbox, keys) ==
  [k \in DOMAIN outbox \cup keys |->
     IF k \in DOMAIN outbox THEN outbox[k] ELSE "pending"]
=============================================================================
