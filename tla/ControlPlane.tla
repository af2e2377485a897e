---------------------------- MODULE ControlPlane ----------------------------
(***************************************************************************)
(* The control plane on its one SQLite file: the webhook ingress, the job  *)
(* workers and the outbox relay of deploy/docker-compose.yml.  They share  *)
(* event_jobs, paperclip_outbox and SQLite's write lock, which relay keeps *)
(* while it talks to Paperclip: another writer then waits, or gives up     *)
(* with "database is locked" after its 5 s busy timeout.                   *)
(***************************************************************************)
EXTENDS JobWorker, WebhookIngress

CONSTANTS Relays, NoRelay, MaxFailures, MaxDay   \* of the relay

ASSUME ControlPlaneAssumption ==
  /\ MaxFailures \in Nat /\ MaxDay \in Nat
  /\ NoRelay \notin Relays

VARIABLES received, relay, lock, failures

workerVars == <<job_transitions, clock, proc, crashes>>
relayVars  == <<received, relay, lock, failures>>
vars == <<event_jobs, paperclip_outbox, workerVars, relayVars, ingressVars>>

\* One outbox row per scope and day, one umbrella per day.
OutboxKeys == Scopes \X (0..MaxDay)
UmbrellaOfKey == [k \in OutboxKeys |-> k[2]]

R == INSTANCE OutboxRelay WITH Keys <- OutboxKeys, Umbrellas <- 0..MaxDay,
                               UmbrellaOf <- UmbrellaOfKey

Init == WorkerInit /\ R!Init /\ IngressInit

-----------------------------------------------------------------------------
LockFree == lock = NoRelay

\* process_request's transaction: a new envelope comes with its job, of which
\* there are at most NumJobs (bound).
IngressInsert ==
  /\ LockFree
  /\ Insert
  /\ IF job_envelope' = job_envelope
       THEN UNCHANGED <<event_jobs, workerVars, paperclip_outbox>>
       ELSE Len(job_envelope) < NumJobs /\ Enqueue(Len(job_envelope) + 1)
  /\ UNCHANGED relayVars

IngressStep ==
  \/ IngressInsert
  \/ /\ \/ \E req \in Requests : Verify(req)
        \/ Reply \/ Outage \/ TickIngress
        \/ \E source \in Registered : Flip(source)
     /\ UNCHANGED <<event_jobs, paperclip_outbox, workerVars, relayVars>>

\* The steps of a run that only read, and those that commit.
WorkerReads(w) ==
  \/ StartRun(w) \/ ReapRead(w) \/ Poll(w) \/ LeaseRead(w)
  \/ HandlerSucceeds(w) \/ HandlerFails(w) \/ FailRead(w)
  \/ Restart(w)
WorkerWrites(w) ==
  \/ ReapWrite(w) \/ LeaseWrite(w) \/ LeaseWriteUnhandled(w)
  \/ SuccessWrite(w) \/ FailWrite(w)

WorkerStep(w) ==
  /\ WorkerReads(w) \/ (LockFree /\ WorkerWrites(w))
  /\ UNCHANGED <<relayVars, ingressVars>>

WorkerKilled(w) == Crash(w) /\ UNCHANGED <<relayVars, ingressVars>>

\* OperationalError at the first UPDATE, uncaught: the worker process ends,
\* and a finished handler's outcome is not recorded.
WorkerLockedOut(w) ==
  /\ ~LockFree
  /\ proc[w].pc \in {"reap_write", "lease_write", "success_write", "fail_write"}
  /\ proc' = [proc EXCEPT ![w] = [Idle EXCEPT !.pc = "raised"]]
  /\ UNCHANGED <<event_jobs, job_transitions, paperclip_outbox, clock, crashes,
                 relayVars, ingressVars>>

RelayStep(r) ==
  /\ R!Relay(r) \/ R!Fail(r)
  /\ UNCHANGED <<event_jobs, workerVars, ingressVars>>

TimePasses == Tick /\ UNCHANGED <<relayVars, ingressVars>>

Next ==
  \/ IngressStep
  \/ \E w \in Owners : WorkerStep(w) \/ WorkerLockedOut(w) \/ WorkerKilled(w)
  \/ \E r \in Relays : RelayStep(r)
  \/ TimePasses

Spec == Init /\ [][Next]_vars

\* The worker and relay loops of docker-compose never end, and time passes.
FairSpec ==
  /\ Spec
  /\ WF_vars(TimePasses)
  /\ \A w \in Owners : WF_vars(WorkerStep(w) \/ WorkerLockedOut(w))
  /\ \A r \in Relays : WF_vars(R!Relay(r) /\ UNCHANGED <<event_jobs, workerVars, ingressVars>>)

-----------------------------------------------------------------------------
\* The parts keep their types when they share the file.
TypeOK == WorkerTypeOK /\ R!TypeOK /\ IngressTypeOK

\* A sender that saw a 202 may forget the event: a job for it exists, and if
\* that job died an outbox row says so.
AcceptedNotLost ==
  \A k \in accepted : \E n \in DOMAIN job_envelope :
    /\ event_envelopes[job_envelope[n]] = k
    /\ event_jobs[n].state # "absent"
    /\ event_jobs[n].state = "dead_letter" =>
         \E o \in DOMAIN paperclip_outbox : o[1] = ScopeOf[n]

\* End to end: a stored event succeeds, or its death reaches Paperclip.
EventResolved ==
  \A j \in JobIds :
    (j \in DOMAIN job_envelope) ~>
      \/ event_jobs[j].state = "succeeded"
      \/ /\ event_jobs[j].state = "dead_letter"
         /\ \E k \in DOMAIN paperclip_outbox :
              k[1] = ScopeOf[j] /\ paperclip_outbox[k] = "delivered"
=============================================================================
