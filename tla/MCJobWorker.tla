---------------------------- MODULE MCJobWorker ----------------------------
(* Jobs of two lanes, one of them without a handler; workers w1 .. wn. *)
EXTENDS JobWorker
CONSTANTS w1, w2, agenda, minutes
OneWorker  == {w1}
TwoWorkers == {w1, w2}
MCScopes   == {agenda, minutes}
MCHandled  == {agenda}
HandledFirst == [j \in JobIds |-> IF j = 1 THEN agenda ELSE minutes]
SameScope    == [j \in JobIds |-> agenda]

(* Two workers on one job, of either lane: the other job of the queue was  *)
(* cancelled before they start (ids are names; no step compares them but   *)
(* the insertion, which is of the next).                                   *)
CancelledBefore(j) ==
  /\ event_jobs = [i \in JobIds |->
       IF i = j THEN [QueuedRow EXCEPT !.state = "cancelled"] ELSE AbsentRow]
  /\ job_transitions = [i \in JobIds |->
       IF i = j THEN <<[from |-> "queued", to |-> "cancelled", reason |-> "cancelled"]>>
                ELSE <<>>]

MCInit ==
  /\ \E j \in JobIds : CancelledBefore(j)
  /\ paperclip_outbox = [k \in {} |-> "pending"]
  /\ clock = 0
  /\ proc = [w \in Owners |-> Idle]
  /\ crashes = 0

MCFairSpec ==
  /\ MCInit /\ [][WorkerNext]_runVars
  /\ WF_runVars(Tick) /\ \A w \in Owners : WF_runVars(Run(w))
=============================================================================
