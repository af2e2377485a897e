--------------------------- MODULE JobQueueProofs ---------------------------
(***************************************************************************)
(* Proofs about JobQueue for any number of jobs, owners, lanes, attempts   *)
(* and any clock.                                                          *)
(***************************************************************************)
EXTENDS JobQueue, FiniteSetTheorems, TLAPS

(* What one row and its audit trail satisfy between transactions. *)
RowOK(row) == row \in Row /\ WithinBudget(row) /\ Reapable(row)
TrailOK(log, state) == log \in Seq(AuditRow) /\ Replays(log, state)

-----------------------------------------------------------------------------
(* An audit row whose from is the current state extends the path.          *)
(* (transition, scripts/job_queue.py)                                      *)
LEMMA AuditExtends ==
  ASSUME NEW log, NEW from \in States, NEW to \in States, NEW reason \in Reasons,
         TrailOK(log, from)
  PROVE  TrailOK(Audit(log, from, to, reason), to)
<1> DEFINE entry == [from |-> from, to |-> to, reason |-> reason]
           new == Append(log, entry)
<1>1. log \in Seq(AuditRow) /\ entry \in AuditRow
  BY DEF TrailOK, AuditRow
<1>2. /\ new \in Seq(AuditRow) /\ Len(new) = Len(log) + 1
      /\ \A i \in 1..Len(log) : new[i] = log[i]
      /\ new[Len(log) + 1] = entry
  BY <1>1
<1>3. Len(log) \in Nat
  BY <1>1
<1>4. from # "absent"
  BY DEF States, TERMINAL, LEASABLE
<1>5. ASSUME NEW i \in 1..(Len(new) - 1) PROVE new[i].to = new[i + 1].from
  <2>1. CASE i = Len(log)
    BY <1>2, <1>3, <2>1 DEF TrailOK, Replays
  <2>2. CASE i # Len(log)
    BY <1>2, <1>3, <2>2, <1>5 DEF TrailOK, Replays
  <2> QED BY <2>1, <2>2
<1>6. new # <<>> /\ new[1].from = "queued" /\ new[Len(new)].to = to
  <2>1. CASE log = <<>>
    BY <1>2, <1>4, <2>1 DEF TrailOK, Replays
  <2>2. CASE log # <<>>
    <3>1. Len(log) >= 1
      BY <1>1, <2>2
    <3> QED BY <1>2, <1>3, <2>2, <3>1 DEF TrailOK, Replays
  <2> QED BY <2>1, <2>2
<1> QED BY <1>2, <1>5, <1>6 DEF TrailOK, Replays, Audit

-----------------------------------------------------------------------------
(* What the row operators leave: a row of the schema, inside its budget,   *)
(* leased exactly when it carries an expiry.                               *)
LEMMA LeasedRowOK ==
  ASSUME NEW row, RowOK(row), row.state \in LEASABLE,
         NEW owner \in Owners, NEW now \in Nat
  PROVE  RowOK(LeasedRow(row, owner, now)) /\ LeasedRow(row, owner, now).state = "leased"
<1> DEFINE new == LeasedRow(row, owner, now)
<1>1. row \in Row /\ now + LeaseSeconds \in Nat /\ "leased" \in States
  BY JobRowsAssumption DEF RowOK, States
<1>2. /\ new \in Row
      /\ new.state = "leased" /\ new.attempt_count = row.attempt_count
      /\ new.lease_expires_at = now + LeaseSeconds
  BY <1>1 DEF LeasedRow, Row
<1>3. row.state # "dead_letter"
  BY DEF LEASABLE
<1> QED BY <1>1, <1>2, <1>3 DEF RowOK, WithinBudget, Reapable, Null

LEMMA ReleasedFields ==
  ASSUME NEW row \in Row, NEW to \in States
  PROVE  LET new == Released(row, to)
         IN  /\ new \in Row
             /\ new.state = to /\ new.attempt_count = row.attempt_count
             /\ new.not_before = row.not_before
             /\ new.lease_expires_at = Null
BY DEF Released, Row

LEMMA ReleasedOK ==
  ASSUME NEW row, RowOK(row), row.state # "dead_letter",
         NEW to \in {"succeeded", "cancelled"}
  PROVE  RowOK(Released(row, to)) /\ Released(row, to).state = to
<1>1. row \in Row /\ to \in States
  BY DEF RowOK, States, TERMINAL
<1> QED BY <1>1, ReleasedFields DEF RowOK, WithinBudget, Reapable

LEMMA FailedRowOK ==
  ASSUME NEW row, RowOK(row), row.state # "dead_letter",
         NEW now \in Nat, NEW delay \in Nat
  PROVE  LET failed == FailedRow(row, row.attempt_count + 1, row.retry_count + 1, now, delay)
         IN  /\ RowOK(failed)
             /\ failed.state = FailTarget(row.attempt_count + 1)
<1> DEFINE attempt == row.attempt_count + 1
           to == FailTarget(attempt)
           released == Released(row, to)
           failed == FailedRow(row, attempt, row.retry_count + 1, now, delay)
<1>1. row \in Row /\ attempt \in Nat /\ row.retry_count + 1 \in Nat /\ now + delay \in Nat
  BY DEF RowOK, Row
<1>2. to \in States /\ to \in {"dead_letter", "failed_retryable"}
  BY DEF FailTarget, States, TERMINAL, LEASABLE
<1>3. /\ released \in Row /\ released.state = to /\ released.lease_expires_at = Null
  BY <1>1, <1>2, ReleasedFields
<1>4. /\ failed \in Row
      /\ failed.state = released.state /\ failed.attempt_count = attempt
      /\ failed.lease_expires_at = released.lease_expires_at
  BY <1>1, <1>3, ZenonT(40) DEF FailedRow, Row
<1>5. attempt <= MaxAttempts /\ (to = "dead_letter" <=> attempt = MaxAttempts)
  BY <1>1, JobRowsAssumption DEF RowOK, WithinBudget, Row, FailTarget, IsLastAttempt
<1>6. failed.state # "leased"
  BY <1>2, <1>3, <1>4
<1>7. WithinBudget(failed)
  BY <1>3, <1>4, <1>5 DEF WithinBudget
<1>8. Reapable(failed)
  BY <1>3, <1>4, <1>6 DEF Reapable
<1> QED BY <1>3, <1>4, <1>7, <1>8 DEF RowOK

LEMMA ReapedRowOK ==
  ASSUME NEW row, RowOK(row), row.state # "dead_letter", NEW now \in Nat
  PROVE  LET reaped == ReapedRow(row, row.attempt_count + 1, now)
         IN  /\ RowOK(reaped)
             /\ reaped.state = ReapTarget(row.attempt_count + 1)
<1> DEFINE attempt == row.attempt_count + 1
           to == ReapTarget(attempt)
           released == Released(row, to)
           reaped == ReapedRow(row, attempt, now)
<1>1. row \in Row /\ attempt \in Nat
  BY DEF RowOK, Row
<1>2. to \in States /\ to \in {"dead_letter", "queued"}
  BY DEF ReapTarget, States, TERMINAL, LEASABLE
<1>3. /\ released \in Row /\ released.state = to /\ released.lease_expires_at = Null
  BY <1>1, <1>2, ReleasedFields
<1>4. /\ reaped \in Row
      /\ reaped.state = released.state /\ reaped.attempt_count = attempt
      /\ reaped.lease_expires_at = released.lease_expires_at
  BY <1>1, <1>3, ZenonT(40) DEF ReapedRow, Row
<1>5. attempt <= MaxAttempts /\ (to = "dead_letter" <=> attempt = MaxAttempts)
  BY <1>1, JobRowsAssumption DEF RowOK, WithinBudget, Row, ReapTarget, IsLastAttempt
<1>6. reaped.state # "leased"
  BY <1>2, <1>3, <1>4
<1>7. WithinBudget(reaped)
  BY <1>3, <1>4, <1>5 DEF WithinBudget
<1>8. Reapable(reaped)
  BY <1>3, <1>4, <1>6 DEF Reapable
<1> QED BY <1>3, <1>4, <1>7, <1>8 DEF RowOK

LEMMA DayIsNat == ASSUME NEW t \in Nat PROVE Day(t) \in Nat
BY JobRowsAssumption DEF Day

LEMMA BackoffIsNat ==
  ASSUME NEW attempt, NEW delay \in BackoffSeconds(attempt) PROVE delay \in Nat
BY JobRowsAssumption DEF BackoffSeconds

-----------------------------------------------------------------------------
(* The inductive invariant: the invariants of the runs, together.          *)
Inv == TypeOK /\ AttemptBudget /\ AuditReplays /\ LeaseIsReapable /\ DeadLetterAnnounced

OutboxOK(outbox) ==
  /\ DOMAIN outbox \subseteq Scopes \X Nat
  /\ outbox \in [DOMAIN outbox -> {"pending", "delivered"}]

LEMMA InvByRow ==
  Inv <=> /\ event_jobs \in [JobIds -> Row]
          /\ job_transitions \in [JobIds -> Seq(AuditRow)]
          /\ \A j \in JobIds : /\ RowOK(event_jobs[j])
                              /\ TrailOK(job_transitions[j], event_jobs[j].state)
          /\ OutboxOK(paperclip_outbox)
          /\ clock \in Nat
          /\ DeadLetterAnnounced
BY DEF Inv, TypeOK, AttemptBudget, AuditReplays, LeaseIsReapable, RowOK, TrailOK, OutboxOK

THEOREM InitInv == Init => Inv
<1> SUFFICES ASSUME Init PROVE Inv
  OBVIOUS
<1>1. RowOK(AbsentRow)
  BY JobRowsAssumption
     DEF RowOK, Row, AbsentRow, WithinBudget, Reapable, Null, States, TERMINAL, LEASABLE
<1>2. TrailOK(<<>>, "absent")
  BY DEF TrailOK, Replays
<1>3. AbsentRow.state = "absent" /\ AbsentRow \in Row
  BY <1>1 DEF AbsentRow, RowOK
<1> QED BY <1>1, <1>2, <1>3, InvByRow DEF Init, DeadLetterAnnounced, OutboxOK

(* One call that rewrites row j, appends to its trail and adds outbox rows *)
(* preserves the invariant, if the new row and trail are in order and a    *)
(* dead letter comes with its outbox row.                                  *)
LEMMA OneRowStep ==
  ASSUME Inv, NEW j \in JobIds, NEW row, NEW log, NEW keys,
         RowOK(row), TrailOK(log, row.state),
         keys \subseteq Scopes \X Nat,
         row.state = "dead_letter" => \E k \in keys : k[1] = ScopeOf[j],
         event_jobs' = [event_jobs EXCEPT ![j] = row],
         job_transitions' = [job_transitions EXCEPT ![j] = log],
         paperclip_outbox' = WriteOutboxRows(paperclip_outbox, keys),
         clock' = clock
  PROVE  Inv'
<1>1. /\ event_jobs \in [JobIds -> Row]
      /\ job_transitions \in [JobIds -> Seq(AuditRow)]
      /\ \A i \in JobIds : /\ RowOK(event_jobs[i])
                          /\ TrailOK(job_transitions[i], event_jobs[i].state)
      /\ OutboxOK(paperclip_outbox) /\ clock \in Nat /\ DeadLetterAnnounced
  BY InvByRow
<1>2. row \in Row /\ log \in Seq(AuditRow)
  BY DEF RowOK, TrailOK
<1>3. event_jobs' \in [JobIds -> Row] /\ job_transitions' \in [JobIds -> Seq(AuditRow)]
  BY <1>1, <1>2
<1>4. ASSUME NEW i \in JobIds
      PROVE  RowOK(event_jobs[i])' /\ TrailOK(job_transitions[i], event_jobs[i].state)'
  <2>1. CASE i = j BY <1>1, <2>1 DEF RowOK, WithinBudget, Reapable, TrailOK, Replays
  <2>2. CASE i # j BY <1>1, <2>2 DEF RowOK, WithinBudget, Reapable, TrailOK, Replays
  <2> QED BY <2>1, <2>2
<1>5. /\ DOMAIN paperclip_outbox' = DOMAIN paperclip_outbox \cup keys
      /\ \A k \in DOMAIN paperclip_outbox : paperclip_outbox'[k] = paperclip_outbox[k]
      /\ \A k \in keys \ DOMAIN paperclip_outbox : paperclip_outbox'[k] = "pending"
  BY DEF WriteOutboxRows
<1>6. OutboxOK(paperclip_outbox)'
  BY <1>1, <1>5 DEF OutboxOK, WriteOutboxRows
<1>7. DeadLetterAnnounced'
  <2> SUFFICES ASSUME NEW i \in JobIds, event_jobs'[i].state = "dead_letter"
               PROVE  \E k \in DOMAIN paperclip_outbox' : k[1] = ScopeOf[i]
    BY DEF DeadLetterAnnounced
  <2>1. CASE i = j BY <1>1, <1>5, <2>1
  <2>2. CASE i # j BY <1>1, <1>5, <2>2 DEF DeadLetterAnnounced
  <2> QED BY <2>1, <2>2
<1>8. clock' \in Nat
  BY <1>1
<1> QED
  BY <1>3, <1>4, <1>6, <1>7, <1>8
     DEF Inv, TypeOK, AttemptBudget, AuditReplays, LeaseIsReapable, RowOK, TrailOK, OutboxOK

-----------------------------------------------------------------------------
LEMMA LegalFrom ==
  ASSUME NEW from \in States \cup {"absent"}, NEW to \in ALLOWED_TRANSITIONS[from]
  PROVE  /\ from \in States \ TERMINAL
         /\ to = "leased" => from \in LEASABLE
         /\ to \in States
BY DEF ALLOWED_TRANSITIONS, States, TERMINAL, LEASABLE

(* transition, with a row in order and, for a dead letter, an outbox key.  *)
LEMMA TransitionStep ==
  ASSUME Inv, NEW j \in JobIds, NEW row, NEW reason \in Reasons, NEW keys,
         RowOK(row), Transition(j, row, reason),
         keys \subseteq Scopes \X Nat,
         row.state = "dead_letter" => \E k \in keys : k[1] = ScopeOf[j],
         paperclip_outbox' = WriteOutboxRows(paperclip_outbox, keys),
         clock' = clock
  PROVE  Inv'
<1> DEFINE from == event_jobs[j].state
           log == Audit(job_transitions[j], from, row.state, reason)
<1>1. from \in States \cup {"absent"} /\ TrailOK(job_transitions[j], from)
  BY InvByRow DEF RowOK, Row
<1>2. from \in States /\ row.state \in States
  BY <1>1, LegalFrom DEF Transition
<1>3. TrailOK(log, row.state)
  BY <1>1, <1>2, AuditExtends
<1>4. /\ event_jobs' = [event_jobs EXCEPT ![j] = row]
      /\ job_transitions' = [job_transitions EXCEPT ![j] = log]
  BY DEF Transition
<1> HIDE DEF log, from
<1> QED BY <1>3, <1>4, OneRowStep

LEMMA NoNewKeys ==
  ASSUME Inv, UNCHANGED paperclip_outbox
  PROVE  paperclip_outbox' = WriteOutboxRows(paperclip_outbox, {})
BY DEF Inv, TypeOK, WriteOutboxRows

(* The keys a failed or reaped attempt adds to the outbox.                 *)
LEMMA KeysOfAttempt ==
  ASSUME NEW j \in JobIds, NEW attempt, NEW at \in Nat, NEW state,
         state = "dead_letter" => IsLastAttempt(attempt)
  PROVE  LET keys == IF IsLastAttempt(attempt) THEN {OutboxKey(j, at)} ELSE {}
         IN  /\ keys \subseteq Scopes \X Nat
             /\ state = "dead_letter" => \E k \in keys : k[1] = ScopeOf[j]
<1>1. OutboxKey(j, at) \in Scopes \X Nat /\ OutboxKey(j, at)[1] = ScopeOf[j]
  BY JobRowsAssumption, DayIsNat DEF OutboxKey
<1> QED BY <1>1

LEMMA EnqueueInv == ASSUME Inv, NEW j \in JobIds, Enqueue(j) PROVE Inv'
<1>1. RowOK(QueuedRow) /\ QueuedRow.state = "queued"
  BY JobRowsAssumption
     DEF RowOK, Row, QueuedRow, AbsentRow, WithinBudget, Reapable, Null, States, TERMINAL, LEASABLE
<1>2. TrailOK(job_transitions[j], "absent")
  BY InvByRow DEF Enqueue
<1>3. TrailOK(job_transitions[j], "queued")
  <2>1. job_transitions[j] = <<>>
    <3> DEFINE log == job_transitions[j]
    <3> SUFFICES ASSUME log # <<>> PROVE FALSE
      OBVIOUS
    <3>1. log \in Seq(AuditRow)
      BY <1>2 DEF TrailOK
    <3>2. log[Len(log)] \in AuditRow
      BY <3>1
    <3>3. log[Len(log)].to \in States
      BY <3>2 DEF AuditRow
    <3> QED BY <1>2, <3>3 DEF TrailOK, Replays, States, TERMINAL, LEASABLE
  <2> QED BY <1>2, <2>1 DEF TrailOK, Replays
<1>4. job_transitions' = [job_transitions EXCEPT ![j] = job_transitions[j]]
  BY DEF Enqueue, Inv, TypeOK
<1> QED BY <1>1, <1>3, <1>4, NoNewKeys, OneRowStep DEF Enqueue

LEMMA LeaseInv ==
  ASSUME Inv, NEW j \in JobIds, NEW owner \in Owners, NEW at \in Nat, Lease(j, owner, at)
  PROVE  Inv'
<1>1. RowOK(event_jobs[j]) /\ event_jobs[j].state \in LEASABLE
  BY InvByRow DEF Lease, PollNext, IsLeasable
<1>2. RowOK(LeasedRow(event_jobs[j], owner, at)) /\ LeasedRow(event_jobs[j], owner, at).state = "leased"
  BY <1>1, LeasedRowOK
<1>3. "lease" \in Reasons
  BY DEF Reasons
<1>4. paperclip_outbox' = WriteOutboxRows(paperclip_outbox, {})
  BY NoNewKeys DEF Lease
<1> QED BY <1>2, <1>3, <1>4, TransitionStep DEF Lease

LEMMA RecordSuccessInv == ASSUME Inv, NEW j \in JobIds, RecordSuccess(j) PROVE Inv'
<1> DEFINE new == Released(event_jobs[j], "succeeded")
<1>1. RowOK(event_jobs[j]) /\ event_jobs[j].state \in States \cup {"absent"}
  BY InvByRow DEF RowOK, Row
<1>2. event_jobs[j].state # "dead_letter"
  <2>1. new.state \in ALLOWED_TRANSITIONS[event_jobs[j].state]
    BY DEF RecordSuccess, Transition
  <2> QED BY <1>1, <2>1, LegalFrom DEF TERMINAL
<1>3. RowOK(new) /\ new.state = "succeeded"
  BY <1>1, <1>2, ReleasedOK
<1>4. "success" \in Reasons /\ paperclip_outbox' = WriteOutboxRows(paperclip_outbox, {})
  BY NoNewKeys DEF Reasons, RecordSuccess
<1> HIDE DEF new
<1> QED BY <1>3, <1>4, TransitionStep DEF RecordSuccess, new

LEMMA CancelJobInv == ASSUME Inv, NEW j \in JobIds, CancelJob(j) PROVE Inv'
<1> DEFINE new == Released(event_jobs[j], "cancelled")
<1>1. RowOK(event_jobs[j]) /\ event_jobs[j].state \in States \cup {"absent"}
  BY InvByRow DEF RowOK, Row
<1>2. event_jobs[j].state # "dead_letter"
  <2>1. new.state \in ALLOWED_TRANSITIONS[event_jobs[j].state]
    BY DEF CancelJob, Transition
  <2> QED BY <1>1, <2>1, LegalFrom DEF TERMINAL
<1>3. RowOK(new) /\ new.state = "cancelled"
  BY <1>1, <1>2, ReleasedOK
<1>4. "cancelled" \in Reasons /\ paperclip_outbox' = WriteOutboxRows(paperclip_outbox, {})
  BY NoNewKeys DEF Reasons, CancelJob
<1> HIDE DEF new
<1> QED BY <1>3, <1>4, TransitionStep DEF CancelJob, new

LEMMA FailTargetKeys ==
  ASSUME NEW attempt
  PROVE  /\ FailTarget(attempt) = "dead_letter" => IsLastAttempt(attempt)
         /\ ReapTarget(attempt) = "dead_letter" => IsLastAttempt(attempt)
         /\ FailTarget(attempt) \in States /\ ReapTarget(attempt) \in States
BY DEF FailTarget, ReapTarget, States, TERMINAL, LEASABLE

LEMMA RecordFailureInv ==
  ASSUME Inv, NEW j \in JobIds, NEW at \in Nat, RecordFailure(j, at) PROVE Inv'
<1> DEFINE row == event_jobs[j]
           attempt == row.attempt_count + 1
           failed(delay) == FailedRow(row, attempt, row.retry_count + 1, at, delay)
           keys == IF IsLastAttempt(attempt) THEN {OutboxKey(j, at)} ELSE {}
<1>1. PICK delay \in BackoffSeconds(attempt) : Transition(j, failed(delay), "failure")
  BY DEF RecordFailure
<1>2. RowOK(row) /\ row.state \in States \cup {"absent"} /\ delay \in Nat
  BY InvByRow, BackoffIsNat DEF RowOK, Row
<1>3. row.state # "dead_letter"
  <2>1. failed(delay).state \in ALLOWED_TRANSITIONS[row.state]
    BY <1>1 DEF Transition
  <2> HIDE DEF row, failed
  <2> QED BY <1>2, <2>1, LegalFrom DEF TERMINAL
<1>4. RowOK(failed(delay)) /\ failed(delay).state = FailTarget(attempt)
  BY <1>2, <1>3, FailedRowOK
<1>5. /\ keys \subseteq Scopes \X Nat
      /\ failed(delay).state = "dead_letter" => \E k \in keys : k[1] = ScopeOf[j]
  BY <1>4, KeysOfAttempt, FailTargetKeys
<1>6. /\ paperclip_outbox' = WriteOutboxRows(paperclip_outbox, keys)
      /\ clock' = clock /\ "failure" \in Reasons
  BY DEF RecordFailure, Reasons
<1> HIDE DEF failed, keys
<1> QED BY <1>1, <1>4, <1>5, <1>6, TransitionStep

LEMMA FailUnhandledInv ==
  ASSUME Inv, NEW j \in JobIds, NEW owner \in Owners, NEW at \in Nat,
         FailUnhandled(j, owner, at)
  PROVE  Inv'
<1> DEFINE row == event_jobs[j]
           leased == LeasedRow(row, owner, at)
           attempt == row.attempt_count + 1
           failed(delay) == FailedRow(leased, attempt, row.retry_count + 1, at, delay)
           keys == IF IsLastAttempt(attempt) THEN {OutboxKey(j, at)} ELSE {}
           log1 == Audit(job_transitions[j], row.state, "leased", "lease")
           log2 == Audit(log1, "leased", FailTarget(attempt), "failure")
<1>1. PICK delay \in BackoffSeconds(attempt) :
        event_jobs' = [event_jobs EXCEPT ![j] = failed(delay)]
  BY DEF FailUnhandled
<1>2. /\ RowOK(row) /\ TrailOK(job_transitions[j], row.state)
      /\ row.state \in LEASABLE /\ delay \in Nat
  BY InvByRow, BackoffIsNat DEF FailUnhandled, PollNext, IsLeasable
<1>3. RowOK(leased) /\ leased.state = "leased"
  BY <1>2, LeasedRowOK
<1>4. leased.attempt_count = row.attempt_count /\ leased.retry_count = row.retry_count
  BY <1>2 DEF LeasedRow, RowOK, Row
<1>5. RowOK(failed(delay)) /\ failed(delay).state = FailTarget(attempt)
  <2> HIDE DEF leased
  <2> QED BY <1>2, <1>3, <1>4, FailedRowOK
<1>6. /\ keys \subseteq Scopes \X Nat
      /\ failed(delay).state = "dead_letter" => \E k \in keys : k[1] = ScopeOf[j]
  BY <1>5, KeysOfAttempt, FailTargetKeys
<1>7. /\ {"lease", "failure"} \subseteq Reasons
      /\ {row.state, "leased", FailTarget(attempt)} \subseteq States
  BY <1>2, FailTargetKeys DEF Reasons, States
<1>8. TrailOK(log2, FailTarget(attempt))
  <2>1. TrailOK(log1, "leased")
    BY <1>2, <1>7, AuditExtends
  <2> HIDE DEF log1, row, attempt
  <2> QED BY <1>7, <2>1, AuditExtends
<1>9. /\ job_transitions' = [job_transitions EXCEPT ![j] = log2]
      /\ paperclip_outbox' = WriteOutboxRows(paperclip_outbox, keys)
      /\ clock' = clock
  BY DEF FailUnhandled
<1> HIDE DEF failed, keys, log2
<1> QED BY <1>1, <1>5, <1>6, <1>8, <1>9, OneRowStep

LEMMA ReapInv == ASSUME Inv, NEW at \in Nat, ReapExpiredLeases(at) PROVE Inv'
<1> DEFINE expired == {j \in JobIds : IsExpired(event_jobs[j], at)}
           attempt(j) == event_jobs[j].attempt_count + 1
           last == {i \in expired : IsLastAttempt(attempt(i))}
           keys == {OutboxKey(j, at) : j \in last}
<1>1. /\ event_jobs \in [JobIds -> Row]
      /\ \A i \in JobIds : /\ RowOK(event_jobs[i])
                          /\ TrailOK(job_transitions[i], event_jobs[i].state)
      /\ OutboxOK(paperclip_outbox) /\ clock \in Nat /\ DeadLetterAnnounced
  BY InvByRow
<1>2. ASSUME NEW j \in expired
      PROVE  /\ event_jobs'[j] = ReapedRow(event_jobs[j], attempt(j), at)
             /\ job_transitions'[j] =
                  Audit(job_transitions[j], "leased", ReapTarget(attempt(j)), "reap")
             /\ event_jobs[j].state = "leased"
  BY DEF ReapExpiredLeases, IsExpired
<1>3. ASSUME NEW j \in JobIds, j \notin expired
      PROVE  event_jobs'[j] = event_jobs[j] /\ job_transitions'[j] = job_transitions[j]
  BY <1>3 DEF ReapExpiredLeases
<1>4. ASSUME NEW j \in expired
      PROVE  /\ RowOK(event_jobs'[j]) /\ TrailOK(job_transitions'[j], event_jobs'[j].state)
             /\ event_jobs'[j].state = ReapTarget(attempt(j))
  <2>1. RowOK(event_jobs'[j]) /\ event_jobs'[j].state = ReapTarget(attempt(j))
    BY <1>1, <1>2, ReapedRowOK
  <2>2. TrailOK(job_transitions[j], "leased")
    BY <1>1, <1>2
  <2>3. "leased" \in States /\ "reap" \in Reasons /\ ReapTarget(attempt(j)) \in States
    BY FailTargetKeys DEF States, Reasons
  <2>4. TrailOK(job_transitions'[j], ReapTarget(attempt(j)))
    BY <1>2, <2>2, <2>3, AuditExtends
  <2> QED BY <2>1, <2>4
<1>5. ASSUME NEW j \in JobIds
      PROVE  RowOK(event_jobs'[j]) /\ TrailOK(job_transitions'[j], event_jobs'[j].state)
  <2>1. CASE j \in expired BY <1>4, <2>1
  <2>2. CASE j \notin expired BY <1>1, <1>3, <2>2
  <2> QED BY <2>1, <2>2
<1>6. /\ event_jobs' \in [JobIds -> Row]
      /\ job_transitions' \in [JobIds -> Seq(AuditRow)]
  <2>1. /\ event_jobs' = [j \in JobIds |-> event_jobs'[j]]
        /\ job_transitions' = [j \in JobIds |-> job_transitions'[j]]
    BY DEF ReapExpiredLeases
  <2>2. \A j \in JobIds : event_jobs'[j] \in Row /\ job_transitions'[j] \in Seq(AuditRow)
    BY <1>5 DEF RowOK, TrailOK
  <2> QED BY <2>1, <2>2
<1>7. paperclip_outbox' = WriteOutboxRows(paperclip_outbox, keys) /\ clock' = clock
  BY DEF ReapExpiredLeases
<1>8. \A j \in JobIds : OutboxKey(j, at) \in Scopes \X Nat /\ OutboxKey(j, at)[1] = ScopeOf[j]
  BY JobRowsAssumption, DayIsNat DEF OutboxKey
<1>9. OutboxOK(paperclip_outbox')
  BY <1>1, <1>7, <1>8 DEF OutboxOK, WriteOutboxRows
<1>10. DeadLetterAnnounced'
  <2> SUFFICES ASSUME NEW j \in JobIds, event_jobs'[j].state = "dead_letter"
               PROVE  \E k \in DOMAIN paperclip_outbox' : k[1] = ScopeOf[j]
    BY DEF DeadLetterAnnounced
  <2>1. DOMAIN paperclip_outbox' = DOMAIN paperclip_outbox \cup keys
    BY <1>7 DEF WriteOutboxRows
  <2>2. CASE j \in expired
    <3>1. IsLastAttempt(attempt(j))
      BY <1>4, <2>2, FailTargetKeys
    <3>2. OutboxKey(j, at) \in keys
      BY <2>2, <3>1
    <3> QED BY <1>8, <2>1, <3>2
  <2>3. CASE j \notin expired
    <3>1. \E k \in DOMAIN paperclip_outbox : k[1] = ScopeOf[j]
      BY <1>1, <1>3, <2>3 DEF DeadLetterAnnounced
    <3> QED BY <2>1, <3>1
  <2> QED BY <2>2, <2>3
<1> QED
  BY <1>1, <1>5, <1>6, <1>7, <1>9, <1>10
     DEF Inv, TypeOK, AttemptBudget, AuditReplays, LeaseIsReapable, RowOK, TrailOK, OutboxOK

(* Every call, and every step of the relay and of the clock, preserves the *)
(* invariant.                                                              *)
THEOREM NextInv == Inv /\ [Next]_vars => Inv'
<1> SUFFICES ASSUME Inv, [Next]_vars PROVE Inv'
  OBVIOUS
<1>1. clock \in Nat /\ 0..clock \subseteq Nat
  BY DEF Inv, TypeOK
<1>2. ASSUME NEW j \in JobIds, Enqueue(j) PROVE Inv'
  BY <1>2, EnqueueInv
<1>3. ASSUME NEW j \in JobIds, RecordSuccess(j) PROVE Inv'
  BY <1>3, RecordSuccessInv
<1>4. ASSUME NEW j \in JobIds, CancelJob(j) PROVE Inv'
  BY <1>4, CancelJobInv
<1>5. ASSUME NEW j \in JobIds, NEW at \in 0..clock, RecordFailure(j, at) PROVE Inv'
  BY <1>1, <1>5, RecordFailureInv
<1>6. ASSUME NEW j \in JobIds, NEW owner \in Owners, NEW at \in 0..clock, Lease(j, owner, at)
      PROVE  Inv'
  BY <1>1, <1>6, LeaseInv
<1>7. ASSUME NEW j \in JobIds, NEW owner \in Owners, NEW at \in 0..clock,
             FailUnhandled(j, owner, at)
      PROVE  Inv'
  BY <1>1, <1>7, FailUnhandledInv
<1>8. ASSUME NEW at \in 0..clock, ReapExpiredLeases(at) PROVE Inv'
  BY <1>1, <1>8, ReapInv
<1>9. ASSUME NEW keys, MarkDelivered(keys) PROVE Inv'
  BY <1>9
     DEF Inv, TypeOK, AttemptBudget, AuditReplays, LeaseIsReapable, DeadLetterAnnounced,
         MarkDelivered, WithinBudget, Reapable, Replays
<1>10. CASE Tick
  BY <1>10
     DEF Inv, TypeOK, AttemptBudget, AuditReplays, LeaseIsReapable, DeadLetterAnnounced,
         Tick, WithinBudget, Reapable, Replays
<1>11. CASE UNCHANGED vars
  BY <1>11
     DEF Inv, TypeOK, AttemptBudget, AuditReplays, LeaseIsReapable, DeadLetterAnnounced,
         vars, WithinBudget, Reapable, Replays
<1> QED
  BY <1>2, <1>3, <1>4, <1>5, <1>6, <1>7, <1>8, <1>9, <1>10, <1>11 DEF Next

THEOREM Invariance == Spec => []Inv
<1>1. Init => Inv
  BY InitInv
<1>2. Inv /\ [Next]_vars => Inv'
  BY NextInv
<1> QED BY <1>1, <1>2, PTL DEF Spec

(* Rows keep to their schema for every number of jobs and attempts.        *)
THEOREM TypeCorrect == Spec => []TypeOK
BY Invariance, PTL DEF Inv

(* No job ever gets more than max_attempts, and it is dead exactly when it *)
(* has used them up (record_failure and reap_expired_leases).              *)
THEOREM BudgetHolds == Spec => []AttemptBudget
BY Invariance, PTL DEF Inv

(* Replaying job_transitions always gives event_jobs back.                 *)
THEOREM AuditIsComplete == Spec => []AuditReplays
BY Invariance, PTL DEF Inv

(* Every dead letter has an outbox row of its lane and area.               *)
THEOREM NoSilentDeath == Spec => []DeadLetterAnnounced
BY Invariance, PTL DEF Inv

(* A leased row, and no other, carries the expiry the reaper looks for.    *)
THEOREM LeasesAreReapable == Spec => []LeaseIsReapable
BY Invariance, PTL DEF Inv

-----------------------------------------------------------------------------
Untouched(j) == event_jobs'[j] = event_jobs[j] /\ job_transitions'[j] = job_transitions[j]

LEMMA TransitionSparesTerminal ==
  ASSUME Inv, NEW i \in JobIds, NEW row, NEW reason, Transition(i, row, reason),
         NEW j \in JobIds, event_jobs[j].state \in TERMINAL
  PROVE  Untouched(j)
<1>1. event_jobs[i].state \in States \cup {"absent"}
  BY InvByRow DEF RowOK, Row
<1>2. i # j
  BY <1>1, LegalFrom DEF Transition
<1> QED BY <1>2 DEF Transition, Untouched, Inv, TypeOK

(* A job that succeeded, died or was cancelled is never changed again, as  *)
(* long as each call runs alone in its transaction (AC-3 of job_queue.py). *)
THEOREM TerminalStaysFinal == Spec => TerminalIsFinal
<1>1. Inv /\ [Next]_vars => [\A j \in JobIds : event_jobs[j].state \in TERMINAL =>
                              /\ event_jobs'[j] = event_jobs[j]
                              /\ job_transitions'[j] = job_transitions[j]]_vars
  <2> SUFFICES ASSUME Inv, Next, NEW j \in JobIds, event_jobs[j].state \in TERMINAL
               PROVE  Untouched(j)
    BY DEF Untouched
  <2>1. ASSUME NEW i \in JobIds, Enqueue(i) PROVE Untouched(j)
    <3>1. i # j
      BY <2>1 DEF Enqueue, TERMINAL
    <3> QED BY <2>1, <3>1 DEF Enqueue, Untouched, Inv, TypeOK
  <2>2. ASSUME NEW i \in JobIds, RecordSuccess(i) PROVE Untouched(j)
    BY <2>2, TransitionSparesTerminal DEF RecordSuccess
  <2>3. ASSUME NEW i \in JobIds, CancelJob(i) PROVE Untouched(j)
    BY <2>3, TransitionSparesTerminal DEF CancelJob
  <2>4. ASSUME NEW i \in JobIds, NEW at, RecordFailure(i, at) PROVE Untouched(j)
    BY <2>4, TransitionSparesTerminal DEF RecordFailure
  <2>5. ASSUME NEW i \in JobIds, NEW owner, NEW at, Lease(i, owner, at) PROVE Untouched(j)
    BY <2>5, TransitionSparesTerminal DEF Lease
  <2>6. ASSUME NEW i \in JobIds, NEW owner, NEW at, FailUnhandled(i, owner, at)
        PROVE  Untouched(j)
    <3>1. i # j
      BY <2>6 DEF FailUnhandled, PollNext, IsLeasable, LEASABLE, TERMINAL
    <3> QED BY <2>6, <3>1 DEF FailUnhandled, Untouched, Inv, TypeOK
  <2>7. ASSUME NEW at, ReapExpiredLeases(at) PROVE Untouched(j)
    <3>1. ~IsExpired(event_jobs[j], at)
      BY DEF IsExpired, TERMINAL
    <3> QED BY <2>7, <3>1 DEF ReapExpiredLeases, Untouched
  <2>8. ASSUME NEW keys, MarkDelivered(keys) PROVE Untouched(j)
    BY <2>8 DEF MarkDelivered, Untouched
  <2>9. CASE Tick
    BY <2>9 DEF Tick, Untouched
  <2> QED BY <2>1, <2>2, <2>3, <2>4, <2>5, <2>6, <2>7, <2>8, <2>9 DEF Next
<1> QED BY <1>1, Invariance, PTL DEF Spec, TerminalIsFinal
-----------------------------------------------------------------------------
(* An audit row adds one to the count of its reason, and to no other.      *)
LEMMA CountOne ==
  ASSUME NEW log \in Seq(AuditRow), NEW from, NEW to, NEW reason, NEW reasons
  PROVE  /\ CountReasons(log, reasons) \in Nat
         /\ CountReasons(Audit(log, from, to, reason), reasons)
              = CountReasons(log, reasons) + (IF reason \in reasons THEN 1 ELSE 0)
<1> DEFINE entry == [from |-> from, to |-> to, reason |-> reason]
           new == Append(log, entry)
           n == Len(log)
           S == {i \in DOMAIN log : log[i].reason \in reasons}
           T == {i \in DOMAIN new : new[i].reason \in reasons}
<1>1. /\ n \in Nat /\ DOMAIN log = 1..n /\ DOMAIN new = 1..(n + 1)
      /\ \A i \in 1..n : new[i] = log[i]
      /\ new[n + 1] = entry
  OBVIOUS
<1>2. IsFiniteSet(S) /\ Cardinality(S) \in Nat
  <2>1. IsFiniteSet(1..n) /\ S \subseteq 1..n
    BY <1>1, FS_Interval
  <2> QED BY <2>1, FS_Subset, FS_CardinalityType
<1>3. entry.reason = reason /\ n + 1 \notin S
  BY <1>1
<1>4. CASE reason \in reasons
  <2>1. T = S \cup {n + 1}
    BY <1>1, <1>3, <1>4
  <2>2. Cardinality(T) = Cardinality(S) + 1
    BY <1>2, <1>3, <2>1, FS_AddElement
  <2> QED BY <1>2, <1>4, <2>2 DEF CountReasons, Audit
<1>5. CASE reason \notin reasons
  <2>1. T = S
    BY <1>1, <1>3, <1>5
  <2>2. Cardinality(T) = Cardinality(S) + 0
    <3> HIDE DEF S, T
    <3> QED BY <1>2, <2>1
  <2> QED BY <1>2, <1>5, <2>2 DEF CountReasons, Audit
<1> QED BY <1>4, <1>5

(* A row counts its trail.                                                 *)
Counted(row, log) ==
  /\ row.attempt_count = CountReasons(log, {"failure", "reap"})
  /\ row.retry_count = CountReasons(log, {"failure"})

CountInv == Inv /\ AttemptsAudited

LEMMA InitCount == Init => AttemptsAudited
<1> SUFFICES ASSUME Init, NEW j \in JobIds
             PROVE  Counted(event_jobs[j], job_transitions[j])
  BY DEF AttemptsAudited, Counted
<1>1. \A reasons : CountReasons(<<>>, reasons) = 0
  <2> SUFFICES ASSUME NEW reasons PROVE CountReasons(<<>>, reasons) = 0
    OBVIOUS
  <2>1. {i \in DOMAIN <<>> : <<>>[i].reason \in reasons} = {}
    OBVIOUS
  <2> QED BY <2>1, FS_EmptySet DEF CountReasons
<1> QED BY <1>1 DEF Init, AbsentRow, Counted

LEMMA CountFrame ==
  ASSUME AttemptsAudited, Inv, NEW j \in JobIds, NEW row, NEW log, Counted(row, log),
         event_jobs' = [event_jobs EXCEPT ![j] = row],
         job_transitions' = [job_transitions EXCEPT ![j] = log]
  PROVE  AttemptsAudited'
<1> SUFFICES ASSUME NEW i \in JobIds PROVE Counted(event_jobs'[i], job_transitions'[i])
  BY DEF AttemptsAudited, Counted, CountReasons
<1>1. CASE i = j BY <1>1 DEF Inv, TypeOK
<1>2. CASE i # j BY <1>2 DEF Inv, TypeOK, AttemptsAudited, Counted
<1> QED BY <1>1, <1>2

(* transition counts right if the new row counts this reason and no other. *)
LEMMA TransitionCounts ==
  ASSUME CountInv, NEW j \in JobIds, NEW row, NEW reason, Transition(j, row, reason),
         row.attempt_count = event_jobs[j].attempt_count
                               + (IF reason \in {"failure", "reap"} THEN 1 ELSE 0),
         row.retry_count = event_jobs[j].retry_count
                               + (IF reason \in {"failure"} THEN 1 ELSE 0)
  PROVE  AttemptsAudited'
<1> DEFINE log == Audit(job_transitions[j], event_jobs[j].state, row.state, reason)
<1>1. job_transitions[j] \in Seq(AuditRow) /\ Counted(event_jobs[j], job_transitions[j])
  BY DEF CountInv, Inv, TypeOK, AttemptsAudited, Counted
<1>2. Counted(row, log)
  BY <1>1, CountOne DEF Counted
<1> HIDE DEF log
<1> QED BY <1>2, CountFrame DEF Transition, CountInv, log

LEMMA CountsOfRows ==
  ASSUME NEW row \in Row
  PROVE  /\ row.attempt_count \in Nat /\ row.retry_count \in Nat
         /\ \A owner, now : /\ LeasedRow(row, owner, now).attempt_count = row.attempt_count
                            /\ LeasedRow(row, owner, now).retry_count = row.retry_count
         /\ \A to : /\ Released(row, to).attempt_count = row.attempt_count
                    /\ Released(row, to).retry_count = row.retry_count
         /\ \A attempt, retries, now, delay :
              /\ FailedRow(row, attempt, retries, now, delay).attempt_count = attempt
              /\ FailedRow(row, attempt, retries, now, delay).retry_count = retries
         /\ \A attempt, now :
              /\ ReapedRow(row, attempt, now).attempt_count = attempt
              /\ ReapedRow(row, attempt, now).retry_count = row.retry_count
BY DEF Row, LeasedRow, Released, FailedRow, ReapedRow

LEMMA NextCounts == CountInv /\ [Next]_vars => AttemptsAudited'
<1> SUFFICES ASSUME CountInv, [Next]_vars PROVE AttemptsAudited'
  OBVIOUS
<1>1. /\ \A j \in JobIds : /\ event_jobs[j] \in Row
                          /\ job_transitions[j] \in Seq(AuditRow)
                          /\ Counted(event_jobs[j], job_transitions[j])
  BY DEF CountInv, Inv, TypeOK, AttemptsAudited, Counted
<1>2. ASSUME NEW j \in JobIds, Enqueue(j) PROVE AttemptsAudited'
  <2>1. TrailOK(job_transitions[j], "absent") /\ RowOK(event_jobs[j])
    BY <1>2, InvByRow DEF Enqueue, CountInv
  <2>2. job_transitions[j] = <<>>
    <3> DEFINE log == job_transitions[j]
    <3> SUFFICES ASSUME log # <<>> PROVE FALSE
      OBVIOUS
    <3>1. log[Len(log)] \in AuditRow
      BY <2>1 DEF TrailOK
    <3>2. log[Len(log)].to \in States
      BY <3>1 DEF AuditRow
    <3> QED BY <2>1, <3>2 DEF TrailOK, Replays, States, TERMINAL, LEASABLE
  <2>3. Counted(QueuedRow, job_transitions[j])
    <3>1. \A reasons : CountReasons(<<>>, reasons) = 0
      <4> SUFFICES ASSUME NEW reasons PROVE CountReasons(<<>>, reasons) = 0
        OBVIOUS
      <4>1. {i \in DOMAIN <<>> : <<>>[i].reason \in reasons} = {}
        OBVIOUS
      <4> QED BY <4>1, FS_EmptySet DEF CountReasons
    <3> QED BY <2>2, <3>1 DEF Counted, QueuedRow, AbsentRow
  <2>4. job_transitions' = [job_transitions EXCEPT ![j] = job_transitions[j]]
    BY <1>2 DEF Enqueue, CountInv, Inv, TypeOK
  <2> QED BY <1>2, <2>3, <2>4, CountFrame DEF Enqueue, CountInv
<1>3. ASSUME NEW j \in JobIds, RecordSuccess(j) PROVE AttemptsAudited'
  BY <1>1, <1>3, CountsOfRows, TransitionCounts DEF RecordSuccess
<1>4. ASSUME NEW j \in JobIds, CancelJob(j) PROVE AttemptsAudited'
  BY <1>1, <1>4, CountsOfRows, TransitionCounts DEF CancelJob
<1>5. ASSUME NEW j \in JobIds, NEW at, RecordFailure(j, at) PROVE AttemptsAudited'
  BY <1>1, <1>5, CountsOfRows, TransitionCounts DEF RecordFailure
<1>6. ASSUME NEW j \in JobIds, NEW owner, NEW at, Lease(j, owner, at) PROVE AttemptsAudited'
  BY <1>1, <1>6, CountsOfRows, TransitionCounts DEF Lease
<1>7. ASSUME NEW j \in JobIds, NEW owner \in Owners, NEW at \in 0..clock,
             FailUnhandled(j, owner, at)
      PROVE  AttemptsAudited'
  <2> DEFINE row == event_jobs[j]
             leased == LeasedRow(row, owner, at)
             attempt == row.attempt_count + 1
             failed(delay) == FailedRow(leased, attempt, row.retry_count + 1, at, delay)
             log1 == Audit(job_transitions[j], row.state, "leased", "lease")
             log2 == Audit(log1, "leased", FailTarget(attempt), "failure")
  <2>1. PICK delay \in BackoffSeconds(attempt) :
          event_jobs' = [event_jobs EXCEPT ![j] = failed(delay)]
    BY <1>7 DEF FailUnhandled
  <2>2. RowOK(row) /\ row.state \in LEASABLE /\ at \in Nat /\ TrailOK(job_transitions[j], row.state)
    BY <1>7, InvByRow DEF FailUnhandled, PollNext, IsLeasable, CountInv, Inv, TypeOK
  <2>3. leased \in Row /\ log1 \in Seq(AuditRow)
    <3>1. leased \in Row
      BY <2>2, LeasedRowOK DEF RowOK
    <3>2. row.state \in States /\ "leased" \in States /\ "lease" \in Reasons
      BY <2>2 DEF States, Reasons
    <3>3. TrailOK(log1, "leased")
      BY <2>2, <3>2, AuditExtends
    <3> QED BY <3>1, <3>3 DEF TrailOK
  <2>4. /\ CountReasons(log1, {"failure", "reap"}) = row.attempt_count
        /\ CountReasons(log1, {"failure"}) = row.retry_count
    BY <1>1, CountOne, CountsOfRows DEF Counted
  <2>5. Counted(failed(delay), log2)
    <3>1. failed(delay).attempt_count = attempt /\ failed(delay).retry_count = row.retry_count + 1
      BY <2>3, CountsOfRows
    <3>2. /\ CountReasons(log2, {"failure", "reap"}) = CountReasons(log1, {"failure", "reap"}) + 1
          /\ CountReasons(log2, {"failure"}) = CountReasons(log1, {"failure"}) + 1
      BY <2>3, CountOne
    <3> QED BY <2>4, <3>1, <3>2 DEF Counted
  <2>6. job_transitions' = [job_transitions EXCEPT ![j] = log2]
    BY <1>7 DEF FailUnhandled
  <2> HIDE DEF failed, log2
  <2> QED BY <2>1, <2>5, <2>6, CountFrame DEF CountInv
<1>8. ASSUME NEW at, ReapExpiredLeases(at) PROVE AttemptsAudited'
  <2> SUFFICES ASSUME NEW j \in JobIds PROVE Counted(event_jobs'[j], job_transitions'[j])
    BY DEF AttemptsAudited, Counted, CountReasons
  <2> DEFINE row == event_jobs[j]
             attempt == row.attempt_count + 1
  <2>1. CASE IsExpired(row, at)
    <3>1. /\ event_jobs'[j] = ReapedRow(row, attempt, at)
          /\ job_transitions'[j] = Audit(job_transitions[j], "leased", ReapTarget(attempt), "reap")
      BY <1>8, <2>1 DEF ReapExpiredLeases
    <3>2. /\ event_jobs'[j].attempt_count = row.attempt_count + 1
          /\ event_jobs'[j].retry_count = row.retry_count
      BY <1>1, <3>1, CountsOfRows
    <3>3. /\ CountReasons(job_transitions'[j], {"failure", "reap"})
               = CountReasons(job_transitions[j], {"failure", "reap"}) + 1
          /\ CountReasons(job_transitions'[j], {"failure"})
               = CountReasons(job_transitions[j], {"failure"}) + 0
      BY <1>1, <3>1, CountOne
    <3>4. row.retry_count \in Nat
      BY <1>1, CountsOfRows
    <3> QED BY <1>1, <3>2, <3>3, <3>4 DEF Counted
  <2>2. CASE ~IsExpired(row, at)
    BY <1>1, <1>8, <2>2 DEF ReapExpiredLeases, Counted
  <2> QED BY <2>1, <2>2
<1>9. ASSUME UNCHANGED <<event_jobs, job_transitions>> PROVE AttemptsAudited'
  BY <1>9 DEF AttemptsAudited, CountReasons, CountInv
<1> QED
  BY <1>2, <1>3, <1>4, <1>5, <1>6, <1>7, <1>8, <1>9 DEF Next, MarkDelivered, Tick, vars

(* attempt_count and retry_count are what the audit trail says, for every  *)
(* interleaving of calls that run alone in their transactions.             *)
THEOREM CountersAudited == Spec => []AttemptsAudited
<1>1. Init => CountInv
  BY InitInv, InitCount DEF CountInv
<1>2. CountInv /\ [Next]_vars => CountInv'
  BY NextInv, NextCounts DEF CountInv
<1> QED BY <1>1, <1>2, PTL DEF Spec, CountInv
=============================================================================
