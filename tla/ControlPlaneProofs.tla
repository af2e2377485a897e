------------------------- MODULE ControlPlaneProofs -------------------------
(***************************************************************************)
(* Proofs about the control plane and its parts, for any number of events, *)
(* jobs, workers and relays: the webhook ingress, the job workers, and     *)
(* both on one database with the outbox relay.                             *)
(***************************************************************************)
EXTENDS ControlPlane, FiniteSetTheorems, TLAPS

-----------------------------------------------------------------------------
(* The ingress: one job per envelope, in the same order, and no two        *)
(* envelopes of one event.                                                 *)
OneEach ==
  /\ event_envelopes \in Seq(DedupeKeys)
  /\ \A i, j \in DOMAIN event_envelopes :
       event_envelopes[i] = event_envelopes[j] => i = j
  /\ job_envelope \in Seq(Nat) /\ Len(job_envelope) = Len(event_envelopes)
  /\ \A n \in DOMAIN job_envelope : job_envelope[n] = n

(* What was answered with a 202, or is about to be, is stored.             *)
Answered ==
  /\ server.pc \in {"idle", "insert", "reply"}
  /\ server.pc # "idle" => server \in [pc: {"insert", "reply"}, req: Requests]
  /\ server.pc = "reply" => Known(DedupeKey(server.req))
  /\ \A k \in accepted : Known(k)

IngressInv == OneEach /\ Answered

LEMMA IngressStarts == IngressInit => IngressInv
<1> SUFFICES ASSUME IngressInit PROVE IngressInv
  OBVIOUS
<1>1. event_envelopes = <<>> /\ job_envelope = <<>> /\ accepted = {}
  BY DEF IngressInit
<1>2. server.pc = "idle"
  BY DEF IngressInit, IdleServer
<1>3. OneEach
  BY <1>1 DEF OneEach
<1>4. Answered
  BY <1>1, <1>2 DEF Answered
<1> QED BY <1>3, <1>4 DEF IngressInv

(* A new event is appended with its job; what was stored stays stored.     *)
LEMMA InsertNewKeeps ==
  ASSUME OneEach, NEW req \in Requests, InsertNew(req)
  PROVE  /\ OneEach'
         /\ job_envelope' = Append(job_envelope, Len(job_envelope) + 1)
         /\ \A k : Known(k) => Known(k)'
         /\ Known(DedupeKey(req))'
<1> DEFINE key == DedupeKey(req)
           n == Len(event_envelopes)
<1>1. key \in DedupeKeys
  BY DEF DedupeKey, DedupeKeys, Requests
<1>2. /\ n \in Nat /\ DOMAIN event_envelopes = 1..n
      /\ DOMAIN job_envelope = 1..n /\ Len(job_envelope) = n
  BY DEF OneEach
<1>3. /\ event_envelopes' = Append(event_envelopes, key)
      /\ job_envelope' = Append(job_envelope, n + 1)
      /\ \A i \in 1..n : event_envelopes[i] # key
  BY <1>2 DEF InsertNew, Known
<1> HIDE DEF key
<1>4. /\ event_envelopes' \in Seq(DedupeKeys) /\ Len(event_envelopes') = n + 1
      /\ DOMAIN event_envelopes' = 1..(n + 1)
      /\ \A i \in 1..n : event_envelopes'[i] = event_envelopes[i]
      /\ event_envelopes'[n + 1] = key
  BY <1>1, <1>2, <1>3 DEF OneEach
<1>5. /\ job_envelope' \in Seq(Nat) /\ Len(job_envelope') = n + 1
      /\ DOMAIN job_envelope' = 1..(n + 1)
      /\ \A i \in 1..n : job_envelope'[i] = job_envelope[i]
      /\ job_envelope'[n + 1] = n + 1
  BY <1>2, <1>3 DEF OneEach
<1>6. \A i \in 1..(n + 1) : job_envelope'[i] = i
  <2>1. \A i \in 1..n : job_envelope'[i] = i
    BY <1>2, <1>5 DEF OneEach
  <2> QED BY <1>2, <1>5, <2>1
<1>7. ASSUME NEW i \in 1..(n + 1), NEW j \in 1..(n + 1),
             event_envelopes'[i] = event_envelopes'[j]
      PROVE  i = j
  <2>1. CASE i \in 1..n /\ j \in 1..n
    BY <1>2, <1>4, <1>7, <2>1 DEF OneEach
  <2>2. CASE i = n + 1 /\ j \in 1..n
    BY <1>3, <1>4, <1>7, <2>2
  <2>3. CASE i \in 1..n /\ j = n + 1
    BY <1>3, <1>4, <1>7, <2>3
  <2> QED BY <1>2, <2>1, <2>2, <2>3
<1>8. OneEach'
  BY <1>4, <1>5, <1>6, <1>7 DEF OneEach
<1>9. \A k : Known(k) => Known(k)'
  BY <1>2, <1>4 DEF Known
<1>10. Known(key)'
  BY <1>2, <1>4 DEF Known
<1> QED BY <1>2, <1>3, <1>8, <1>9, <1>10 DEF key

LEMMA InsertKeeps ==
  ASSUME IngressInv, Insert
  PROVE  /\ IngressInv'
         /\ \/ UNCHANGED job_envelope
            \/ job_envelope' = Append(job_envelope, Len(job_envelope) + 1)
<1>1. PICK req \in Requests : req = server.req /\ server.pc = "insert"
  BY DEF IngressInv, Answered, Insert
<1>2. /\ server' \in [pc: {"insert", "reply"}, req: Requests]
      /\ server'.pc = "reply" /\ server'.req = req
      /\ UNCHANGED accepted
  BY <1>1 DEF IngressInv, Answered, Insert
<1>3. SUFFICES /\ OneEach'
               /\ \A k : Known(k) => Known(k)'
               /\ Known(DedupeKey(req))'
               /\ \/ UNCHANGED job_envelope
                  \/ job_envelope' = Append(job_envelope, Len(job_envelope) + 1)
  <2>1. \A k \in accepted' : Known(k)'
    BY <1>2, <1>3 DEF IngressInv, Answered
  <2>2. Known(DedupeKey(server.req))'
    BY <1>2, <1>3 DEF DedupeKey, Known
  <2> QED BY <1>2, <1>3, <2>1, <2>2 DEF IngressInv, Answered
<1>4. CASE InsertNew(req)
  BY <1>4, InsertNewKeeps DEF IngressInv
<1>5. CASE InsertDuplicate(req)
  <2>1. Known(DedupeKey(req)) /\ UNCHANGED <<event_envelopes, job_envelope>>
    BY <1>5 DEF InsertDuplicate
  <2>2. \A k : Known(k) <=> Known(k)'
    BY <2>1 DEF Known
  <2>3. OneEach'
    BY <2>1 DEF IngressInv, OneEach
  <2> QED BY <2>1, <2>2, <2>3 DEF DedupeKey
<1> QED BY <1>1, <1>4, <1>5 DEF Insert

(* The other steps of the ingress leave the tables alone.                  *)
LEMMA IngressRestKeeps ==
  ASSUME IngressInv,
         \/ \E req \in Requests : Verify(req)
         \/ Reply \/ Outage \/ TickIngress
         \/ \E source \in Registered : Flip(source)
         \/ UNCHANGED ingressVars
  PROVE  IngressInv' /\ UNCHANGED job_envelope
<1>1. UNCHANGED <<event_envelopes, job_envelope>>
  BY DEF Verify, Reply, Outage, TickIngress, Flip, ingressVars, ingressTables
<1>2. OneEach'
  BY <1>1 DEF IngressInv, OneEach
<1>3. \A k : Known(k) <=> Known(k)'
  BY <1>1 DEF Known
<1>4. SUFFICES Answered'
  BY <1>1, <1>2 DEF IngressInv
<1>5. ASSUME NEW req \in Requests, Verify(req) PROVE Answered'
  <2>1. \/ UNCHANGED server
        \/ server' = [pc |-> "insert", req |-> req]
    BY <1>5 DEF Verify
  <2>2. UNCHANGED accepted
    BY <1>5 DEF Verify
  <2> QED BY <1>3, <2>1, <2>2 DEF IngressInv, Answered, DedupeKey, Known
<1>6. CASE Reply
  <2>1. /\ server'.pc = "idle"
        /\ accepted' = accepted \cup {DedupeKey(server.req)}
        /\ Known(DedupeKey(server.req))
    BY <1>6 DEF Reply, IdleServer, DedupeKey, IngressInv, Answered
  <2> QED BY <1>3, <2>1 DEF IngressInv, Answered
<1>7. CASE Outage
  <2>1. server'.pc = "idle" /\ UNCHANGED accepted
    BY <1>7 DEF Outage, IdleServer
  <2> QED BY <1>3, <2>1 DEF IngressInv, Answered
<1>8. CASE UNCHANGED <<server, accepted>>
  BY <1>1, <1>8 DEF IngressInv, Answered, Known, DedupeKey
<1> QED BY <1>5, <1>6, <1>7, <1>8 DEF TickIngress, Flip, ingressVars

LEMMA IngressInvariance == IngressSpec => []IngressInv
<1>1. IngressInv /\ [IngressNext]_ingressVars => IngressInv'
  BY InsertKeeps, IngressRestKeeps DEF IngressNext
<1> QED BY <1>1, IngressStarts, PTL DEF IngressSpec

LEMMA OneJobEach == IngressInv => ExactlyOneJob
<1> SUFFICES ASSUME IngressInv, NEW i \in DOMAIN event_envelopes
             PROVE  Cardinality({n \in DOMAIN job_envelope : job_envelope[n] = i}) = 1
  BY DEF IngressInv, OneEach, ExactlyOneJob
<1>1. DOMAIN job_envelope = DOMAIN event_envelopes
  BY DEF IngressInv, OneEach
<1>2. {n \in DOMAIN job_envelope : job_envelope[n] = i} = {i}
  BY <1>1 DEF IngressInv, OneEach
<1> QED BY <1>2, FS_Singleton

(* However often and however late an event is delivered, and wherever the  *)
(* server is killed, the event has one envelope and the envelope one job   *)
(* (insert_envelope and enqueue_job of scripts/webhook_ingress.py).        *)
THEOREM EventHasOneJob == IngressSpec => []ExactlyOneJob
BY OneJobEach, IngressInvariance, PTL

(* What the types say beyond IngressInv.                                   *)
RequestsAndHits ==
  /\ active \subseteq Registered
  /\ server \in {IdleServer} \cup [pc: {"insert", "reply"}, req: Requests]
  /\ event_dedupe_hits \in [DedupeKeys -> 0..MaxHits]
  /\ accepted \subseteq DedupeKeys
  /\ ingress_clock \in 0..MaxClock /\ outages \in 0..MaxOutages

LEMMA RequestsAndHitsStay == RequestsAndHits /\ [IngressNext]_ingressVars => RequestsAndHits'
<1> SUFFICES ASSUME RequestsAndHits, [IngressNext]_ingressVars PROVE RequestsAndHits'
  OBVIOUS
<1>1. /\ MaxClock \in Nat /\ MaxHits \in Nat /\ MaxOutages \in Nat
      /\ Registered \subseteq Sources
  BY IngressAssumption
<1>2. IdleServer.pc = "idle"
  BY DEF IdleServer
<1>3. ASSUME NEW req \in Requests, Verify(req) PROVE RequestsAndHits'
  BY <1>3 DEF Verify, RequestsAndHits, ingressTables
<1>4. CASE Insert
  <2>1. server \in [pc: {"insert", "reply"}, req: Requests]
    BY <1>2, <1>4 DEF Insert, RequestsAndHits
  <2>2. server' \in [pc: {"insert", "reply"}, req: Requests]
    BY <1>4, <2>1 DEF Insert
  <2>3. event_dedupe_hits' \in [DedupeKeys -> 0..MaxHits]
    BY <1>1, <1>4 DEF Insert, InsertNew, InsertDuplicate, RequestsAndHits
  <2> QED BY <1>4, <2>2, <2>3 DEF Insert, RequestsAndHits
<1>5. CASE Reply
  <2>1. server \in [pc: {"insert", "reply"}, req: Requests]
    BY <1>2, <1>5 DEF Reply, RequestsAndHits
  <2>2. <<server.req.source, server.req.body>> \in DedupeKeys
    BY <2>1 DEF Requests, DedupeKeys
  <2> QED BY <1>5, <2>2 DEF Reply, RequestsAndHits, ingressTables
<1>6. CASE Outage
  BY <1>1, <1>6 DEF Outage, RequestsAndHits, ingressTables
<1>7. ASSUME NEW source \in Registered, Flip(source) PROVE RequestsAndHits'
  BY <1>7 DEF Flip, RequestsAndHits, ingressTables
<1>8. CASE TickIngress
  BY <1>1, <1>8 DEF TickIngress, RequestsAndHits, ingressTables
<1>9. CASE UNCHANGED ingressVars
  BY <1>9 DEF ingressVars, ingressTables, RequestsAndHits
<1> QED BY <1>3, <1>4, <1>5, <1>6, <1>7, <1>8, <1>9 DEF IngressNext

(* The tables of the ingress refer to keys and envelopes that exist: no    *)
(* job without its envelope (process_request of webhook_ingress.py).       *)
THEOREM IngressTypes == IngressSpec => []IngressTypeOK
<1>1. IngressInit => RequestsAndHits
  <2>1. MaxClock \in Nat /\ MaxHits \in Nat /\ MaxOutages \in Nat
    BY IngressAssumption
  <2> QED BY <2>1 DEF IngressInit, RequestsAndHits
<1>2. IngressInv => /\ event_envelopes \in Seq(DedupeKeys)
                    /\ job_envelope \in Seq(DOMAIN event_envelopes)
  <2> SUFFICES ASSUME IngressInv
               PROVE  /\ event_envelopes \in Seq(DedupeKeys)
                      /\ job_envelope \in Seq(DOMAIN event_envelopes)
    OBVIOUS
  <2>1. /\ event_envelopes \in Seq(DedupeKeys) /\ job_envelope \in Seq(Nat)
        /\ DOMAIN job_envelope = DOMAIN event_envelopes
        /\ \A n \in DOMAIN job_envelope : job_envelope[n] \in DOMAIN event_envelopes
    BY DEF IngressInv, OneEach
  <2> QED BY <2>1
<1>3. IngressInv /\ RequestsAndHits => IngressTypeOK
  BY <1>2 DEF RequestsAndHits, IngressTypeOK
<1> QED BY <1>1, <1>3, IngressInvariance, RequestsAndHitsStay, PTL DEF IngressSpec

-----------------------------------------------------------------------------
(* The workers: what a worker may hold between two of its statements.      *)
Counts == UNION {[D -> Nat] : D \in SUBSET JobIds}
Local ==
  [pc: PCs, now: Nat, job: 0..NumJobs, from: States \cup {"absent"},
   attempt: Nat, retries: Nat, rows: Counts]
LocalOK(p, time) ==
  /\ p \in Local /\ p.now <= time
  /\ p.pc \notin {"idle", "reap", "poll", "raised"} => p.job \in JobIds
  /\ p.pc \in {"reap_write", "lease_write", "success_write", "fail_write"} =>
       p.from \in States

(* The newest audit row of a trail names the state, or the trail is empty. *)
TailOK(log, state) ==
  /\ log \in Seq(AuditRow)
  /\ IF log = <<>> THEN state \in {"queued", "absent"} ELSE log[Len(log)].to = state

Tables ==
  /\ event_jobs \in [JobIds -> Row]
  /\ job_transitions \in [JobIds -> Seq(AuditRow)]
  /\ \A j \in JobIds : TailOK(job_transitions[j], event_jobs[j].state)
  /\ DOMAIN paperclip_outbox \subseteq Scopes \X Nat
  /\ paperclip_outbox \in [DOMAIN paperclip_outbox -> {"pending", "delivered"}]
  /\ \A j \in JobIds : event_jobs[j].state = "dead_letter" =>
       \E k \in DOMAIN paperclip_outbox : k[1] = ScopeOf[j]

Workers ==
  /\ clock \in Nat /\ crashes \in 0..MaxCrashes
  /\ proc \in [Owners -> Local]
  /\ \A w \in Owners : LocalOK(proc[w], clock)

WorkerInv == Tables /\ Workers

LEMMA CountsFacts ==
  /\ \A f \in Counts : DOMAIN f \subseteq JobIds /\ \A j \in DOMAIN f : f[j] \in Nat
  /\ \A D \in SUBSET JobIds : \A f \in [D -> Nat] : f \in Counts
BY DEF Counts

LEMMA IdleIsLocal ==
  ASSUME NEW time \in Nat
  PROVE  /\ LocalOK(Idle, time)
         /\ LocalOK([Idle EXCEPT !.pc = "raised"], time)
<1>1. NoRows \in Counts
  <2>1. NoRows \in [{} -> Nat]
    BY DEF NoRows
  <2> QED BY <2>1, CountsFacts
<1>2. 0 \in 0..NumJobs /\ NumJobs \in Nat
  BY JobRowsAssumption
<1>3. Idle \in Local /\ [Idle EXCEPT !.pc = "raised"] \in Local
  BY <1>1, <1>2 DEF Idle, Local, PCs
<1>4. /\ Idle.pc = "idle" /\ Idle.now = 0
      /\ [Idle EXCEPT !.pc = "raised"].pc = "raised"
      /\ [Idle EXCEPT !.pc = "raised"].now = 0
  BY DEF Idle
<1> QED BY <1>3, <1>4 DEF LocalOK

LEMMA WorkerStarts == WorkerInit => WorkerInv
<1>0. MaxCrashes \in Nat
  BY JobWorkerAssumption
<1> SUFFICES ASSUME WorkerInit PROVE WorkerInv
  OBVIOUS
<1>1. AbsentRow \in Row /\ AbsentRow.state = "absent"
  BY DEF AbsentRow, Row, Null
<1>2. \A j \in JobIds : event_jobs[j].state = "absent" /\ job_transitions[j] = <<>>
  BY <1>1 DEF WorkerInit
<1>3. Tables
  BY <1>1, <1>2 DEF WorkerInit, Tables, TailOK
<1>4. Workers
  <2>1. \A w \in Owners : LocalOK(proc[w], 0)
    BY IdleIsLocal DEF WorkerInit
  <2>2. clock = 0 /\ crashes \in 0..MaxCrashes
    BY <1>0 DEF WorkerInit
  <2>3. proc \in [Owners -> Local]
    BY IdleIsLocal DEF WorkerInit, LocalOK
  <2> QED BY <2>1, <2>2, <2>3 DEF Workers
<1> QED BY <1>3, <1>4 DEF WorkerInv

(* A step that changes nothing but the worker's own variables.             *)
LEMMA LocalStep ==
  ASSUME Workers, NEW w \in Owners, NEW local, Become(w, local), LocalOK(local, clock),
         UNCHANGED clock, crashes' \in 0..MaxCrashes
  PROVE  Workers'
<1>1. proc' = [proc EXCEPT ![w] = local] /\ local \in Local /\ proc \in [Owners -> Local]
  BY DEF Become, LocalOK, Workers
<1>2. \A v \in Owners : proc'[v] = IF v = w THEN local ELSE proc[v]
  BY <1>1
<1> QED BY <1>1, <1>2 DEF Workers

LEMMA TablesFrame ==
  ASSUME Tables, UNCHANGED <<event_jobs, job_transitions, paperclip_outbox>>
  PROVE  Tables'
BY DEF Tables

(* A refused transition ends the process; an allowed one starts from a     *)
(* state that can be left.                                                 *)
LEMMA LeavableStates ==
  ASSUME NEW s \in States \cup {"absent"}, NEW t \in ALLOWED_TRANSITIONS[s]
  PROVE  s \in States /\ s \in {"queued", "leased", "failed_retryable"}
BY DEF ALLOWED_TRANSITIONS, States, TERMINAL, LEASABLE

LEMMA GuardedStep ==
  ASSUME WorkerInv, NEW w \in Owners, NEW job \in JobIds, NEW target, NEW local \in Local,
         local.now <= clock, local.job \in JobIds,
         Guarded(w, job, target, local), UNCHANGED <<workerTables, clock, crashes>>
  PROVE  WorkerInv'
<1>1. event_jobs[job].state \in States \cup {"absent"}
  BY DEF WorkerInv, Tables, Row
<1>2. clock \in Nat /\ crashes \in 0..MaxCrashes
  BY DEF WorkerInv, Workers
<1>3. Tables'
  BY TablesFrame DEF WorkerInv, workerTables
<1>4. CASE target \in ALLOWED_TRANSITIONS[event_jobs[job].state]
  <2> DEFINE new == [local EXCEPT !.from = event_jobs[job].state]
  <2>1. /\ new \in Local /\ new.from = event_jobs[job].state
        /\ new.now = local.now /\ new.job = local.job
    BY <1>1 DEF Local
  <2>2. event_jobs[job].state \in States
    BY <1>1, <1>4, LeavableStates
  <2>3. Become(w, new)
    BY <1>4 DEF Guarded
  <2>4. LocalOK(new, clock)
    BY <2>1, <2>2 DEF LocalOK
  <2> HIDE DEF new
  <2> QED BY <1>2, <1>3, <2>3, <2>4, LocalStep DEF WorkerInv
<1>5. CASE target \notin ALLOWED_TRANSITIONS[event_jobs[job].state]
  <2>1. Become(w, [Idle EXCEPT !.pc = "raised"])
    BY <1>5 DEF Guarded
  <2> QED BY <1>2, <1>3, <2>1, IdleIsLocal, LocalStep DEF WorkerInv
<1> QED BY <1>4, <1>5

(* The steps of a run that only read.                                      *)
LEMMA ReadsKeep ==
  ASSUME WorkerInv, NEW w \in Owners, WorkerReads(w)
  PROVE  WorkerInv'
<1> DEFINE p == proc[w]
<1>1. /\ p \in Local /\ LocalOK(p, clock) /\ p.now <= clock
      /\ clock \in Nat /\ crashes \in 0..MaxCrashes
  BY DEF WorkerInv, Workers, LocalOK
<1>2. UNCHANGED <<workerTables, clock, crashes>>
  BY DEF WorkerReads, StartRun, ReapRead, Poll, LeaseRead, HandlerSucceeds,
         HandlerFails, FailRead, Restart
<1>3. ASSUME NEW local, Become(w, local), LocalOK(local, clock) PROVE WorkerInv'
  BY <1>1, <1>2, <1>3, TablesFrame, LocalStep DEF WorkerInv, workerTables
<1>4. \A j \in JobIds : event_jobs[j] \in Row
  BY DEF WorkerInv, Tables
<1>5. CASE StartRun(w)
  <2> DEFINE expired == {j \in JobIds : IsExpired(event_jobs[j], clock)}
             rows == [j \in expired |-> event_jobs[j].attempt_count]
             local == [Idle EXCEPT !.now = clock, !.rows = rows,
                                     !.pc = IF expired = {} THEN "poll" ELSE "reap"]
  <2>1. rows \in Counts
    <3>1. \A j \in JobIds : event_jobs[j].attempt_count \in Nat
      BY <1>4 DEF Row
    <3>2. rows \in [expired -> Nat] /\ expired \in SUBSET JobIds
      BY <3>1
    <3> QED BY <3>2, CountsFacts
  <2>2. Become(w, local)
    BY <1>5 DEF StartRun
  <2> HIDE DEF rows
  <2>3. Idle \in Local
    BY <1>1, IdleIsLocal DEF LocalOK
  <2>4. local \in Local /\ local.now = clock /\ local.pc \in {"poll", "reap"}
    BY <1>1, <2>1, <2>3 DEF Local, PCs
  <2> HIDE DEF local
  <2>5. LocalOK(local, clock)
    BY <1>1, <2>4 DEF LocalOK
  <2> QED BY <1>3, <2>2, <2>5
<1>6. CASE ReapRead(w)
  <2>1. PICK first \in DOMAIN p.rows :
          Guarded(w, first, ReapTarget(p.rows[first] + 1),
                    [p EXCEPT !.pc = "reap_write", !.job = first])
    BY <1>6 DEF ReapRead
  <2>2. first \in JobIds /\ first \in 0..NumJobs
    <3>1. first \in JobIds
      BY <1>1, CountsFacts DEF Local
    <3> QED BY <3>1, JobRowsAssumption DEF JobIds
  <2> DEFINE local == [p EXCEPT !.pc = "reap_write", !.job = first]
  <2>3. local \in Local /\ local.now = p.now /\ local.job = first
    BY <1>1, <2>2 DEF Local, PCs
  <2> HIDE DEF local
  <2>4. Guarded(w, first, ReapTarget(p.rows[first] + 1), local)
    BY <2>1 DEF local
  <2> QED BY <1>1, <1>2, <2>2, <2>3, <2>4, GuardedStep
<1>7. CASE Poll(w)
  <2>1. CASE Become(w, Idle)
    BY <1>1, <1>3, <2>1, IdleIsLocal
  <2>2. ASSUME NEW j \in PollNext(event_jobs, p.now),
               Become(w, [p EXCEPT !.pc = "lease", !.job = j])
        PROVE  WorkerInv'
    <3>1. j \in JobIds /\ j \in 0..NumJobs
      BY JobRowsAssumption DEF PollNext, JobIds
    <3> DEFINE local == [p EXCEPT !.pc = "lease", !.job = j]
    <3>2. local \in Local /\ local.now = p.now /\ local.job = j /\ local.pc = "lease"
      BY <1>1, <3>1 DEF Local, PCs
    <3>3. LocalOK(local, clock)
      BY <1>1, <3>1, <3>2 DEF LocalOK
    <3> QED BY <1>3, <2>2, <3>3
  <2> QED BY <1>7, <2>1, <2>2 DEF Poll
<1>8. CASE p.pc \notin {"idle", "reap", "poll", "raised"}
  <2>1. p.job \in JobIds
    BY <1>1, <1>8 DEF LocalOK
  <2>2. ASSUME NEW target, NEW pc \in PCs,
               Guarded(w, p.job, target, [p EXCEPT !.pc = pc])
        PROVE  WorkerInv'
    <3>1. [p EXCEPT !.pc = pc] \in Local
      BY <1>1 DEF Local
    <3>2. [p EXCEPT !.pc = pc].now = p.now /\ [p EXCEPT !.pc = pc].job = p.job
      BY <1>1 DEF Local
    <3> QED BY <1>1, <1>2, <2>1, <2>2, <3>1, <3>2, GuardedStep
  <2>3. CASE LeaseRead(w)
    BY <2>2, <2>3 DEF LeaseRead, PCs
  <2>4. CASE HandlerSucceeds(w)
    BY <2>2, <2>4 DEF HandlerSucceeds, PCs
  <2>5. CASE FailRead(w)
    BY <2>2, <2>5 DEF FailRead, PCs
  <2>6. CASE HandlerFails(w)
    <3> DEFINE row == event_jobs[p.job]
               local == [p EXCEPT !.pc = "fail", !.attempt = row.attempt_count + 1,
                                  !.retries = row.retry_count + 1]
    <3>1. row.attempt_count + 1 \in Nat /\ row.retry_count + 1 \in Nat
      BY <1>4, <2>1 DEF Row
    <3>2. Become(w, local)
      BY <2>6 DEF HandlerFails
    <3> HIDE DEF row
    <3>3. local \in Local /\ local.now = p.now /\ local.job = p.job /\ local.pc = "fail"
      BY <1>1, <3>1 DEF Local, PCs
    <3>4. LocalOK(local, clock)
      BY <1>1, <2>1, <3>3 DEF LocalOK
    <3> QED BY <1>3, <3>2, <3>4
  <2>7. ~StartRun(w) /\ ~ReapRead(w) /\ ~Poll(w) /\ ~Restart(w)
    BY <1>8 DEF StartRun, ReapRead, Poll, Restart, At
  <2> QED BY <2>3, <2>4, <2>5, <2>6, <2>7 DEF WorkerReads
<1>9. CASE Restart(w)
  BY <1>1, <1>3, <1>9, IdleIsLocal DEF Restart
<1> QED
  BY <1>5, <1>6, <1>7, <1>8, <1>9
     DEF WorkerReads, At, LeaseRead, HandlerSucceeds, HandlerFails, FailRead

-----------------------------------------------------------------------------
(* What the row operators return, and what an audit row does to a trail.   *)
LEMMA LeasedIsRow ==
  ASSUME NEW row \in Row, NEW owner \in Owners, NEW now \in Nat
  PROVE  LeasedRow(row, owner, now) \in Row /\ LeasedRow(row, owner, now).state = "leased"
<1>1. now + LeaseSeconds \in Nat /\ "leased" \in States
  BY JobRowsAssumption DEF States
<1> QED BY <1>1 DEF LeasedRow, Row

LEMMA ReleasedIsRow ==
  ASSUME NEW row \in Row, NEW to \in States
  PROVE  /\ Released(row, to) \in Row /\ Released(row, to).state = to
         /\ Released(row, to).not_before = row.not_before
BY DEF Released, Row

LEMMA TargetsAreStates ==
  ASSUME NEW attempt
  PROVE  /\ FailTarget(attempt) \in States /\ ReapTarget(attempt) \in States
         /\ FailTarget(attempt) = "dead_letter" => IsLastAttempt(attempt)
         /\ ReapTarget(attempt) = "dead_letter" => IsLastAttempt(attempt)
BY DEF FailTarget, ReapTarget, States, TERMINAL, LEASABLE

LEMMA FailedIsRow ==
  ASSUME NEW row \in Row, NEW attempt \in Nat, NEW retries \in Nat,
         NEW now \in Nat, NEW delay \in Nat
  PROVE  /\ FailedRow(row, attempt, retries, now, delay) \in Row
         /\ FailedRow(row, attempt, retries, now, delay).state = FailTarget(attempt)
<1> DEFINE released == Released(row, FailTarget(attempt))
<1>1. released \in Row /\ released.state = FailTarget(attempt) /\ now + delay \in Nat
  BY TargetsAreStates, ReleasedIsRow
<1> HIDE DEF released
<1>2. /\ [released EXCEPT !.attempt_count = attempt, !.retry_count = retries,
            !.not_before = IF IsLastAttempt(attempt) THEN @ ELSE now + delay] \in Row
      /\ [released EXCEPT !.attempt_count = attempt, !.retry_count = retries,
            !.not_before = IF IsLastAttempt(attempt) THEN @ ELSE now + delay].state
           = released.state
  BY <1>1, ZenonT(40) DEF Row
<1> QED BY <1>1, <1>2 DEF FailedRow, released

LEMMA AnyFailedIsRow ==
  \A row \in Row, attempt, retries, now, delay \in Nat :
    LET failed == FailedRow(row, attempt, retries, now, delay)
    IN  failed \in Row /\ failed.state = FailTarget(attempt) /\ failed.state \in States
<1> SUFFICES ASSUME NEW row \in Row, NEW attempt \in Nat, NEW retries \in Nat,
                    NEW now \in Nat, NEW delay \in Nat
             PROVE  LET failed == FailedRow(row, attempt, retries, now, delay)
                    IN  /\ failed \in Row /\ failed.state = FailTarget(attempt)
                        /\ failed.state \in States
  BY Zenon
<1>1. FailTarget(attempt) \in States
  BY TargetsAreStates, Zenon
<1>2. /\ FailedRow(row, attempt, retries, now, delay) \in Row
      /\ FailedRow(row, attempt, retries, now, delay).state = FailTarget(attempt)
  BY FailedIsRow, ZenonT(60)
<1> QED BY <1>1, <1>2
LEMMA ReapedIsRow ==
  ASSUME NEW row \in Row, NEW attempt \in Nat, NEW now \in Nat
  PROVE  /\ ReapedRow(row, attempt, now) \in Row
         /\ ReapedRow(row, attempt, now).state = ReapTarget(attempt)
<1> DEFINE released == Released(row, ReapTarget(attempt))
<1>1. released \in Row /\ released.state = ReapTarget(attempt)
  BY TargetsAreStates, ReleasedIsRow
<1> HIDE DEF released
<1>2. /\ [released EXCEPT !.attempt_count = attempt,
            !.not_before = IF IsLastAttempt(attempt) THEN @ ELSE now] \in Row
      /\ [released EXCEPT !.attempt_count = attempt,
            !.not_before = IF IsLastAttempt(attempt) THEN @ ELSE now].state
           = released.state
  BY <1>1, ZenonT(40) DEF Row
<1> QED BY <1>1, <1>2 DEF ReapedRow, released

LEMMA AuditNamesState ==
  ASSUME NEW log \in Seq(AuditRow), NEW from \in States, NEW to \in States,
         NEW reason \in Reasons
  PROVE  TailOK(Audit(log, from, to, reason), to)
<1> DEFINE entry == [from |-> from, to |-> to, reason |-> reason]
<1>1. entry \in AuditRow /\ entry.to = to
  BY DEF AuditRow
<1> HIDE DEF entry
<1>2. /\ Append(log, entry) \in Seq(AuditRow) /\ Append(log, entry) # <<>>
      /\ Append(log, entry)[Len(Append(log, entry))] = entry
  BY <1>1
<1> QED BY <1>1, <1>2 DEF TailOK, Audit, entry

LEMMA KeysTyped ==
  ASSUME NEW j \in JobIds, NEW now \in Nat
  PROVE  OutboxKey(j, now) \in Scopes \X Nat /\ OutboxKey(j, now)[1] = ScopeOf[j]
<1>1. ScopeOf[j] \in Scopes
  BY JobRowsAssumption DEF JobIds, JobIds
<1>2. Day(now) \in Nat
  BY JobRowsAssumption DEF Day
<1> QED BY <1>1, <1>2 DEF OutboxKey

(* Outbox rows are only ever added.                                        *)
LEMMA OutboxGrows ==
  ASSUME Tables, NEW keys \in SUBSET (Scopes \X Nat),
         paperclip_outbox' = WriteOutboxRows(paperclip_outbox, keys)
  PROVE  /\ DOMAIN paperclip_outbox' = DOMAIN paperclip_outbox \cup keys
         /\ DOMAIN paperclip_outbox' \subseteq Scopes \X Nat
         /\ paperclip_outbox' \in [DOMAIN paperclip_outbox' -> {"pending", "delivered"}]
BY DEF Tables, WriteOutboxRows

LEMMA NoNewRows ==
  ASSUME Tables PROVE paperclip_outbox = WriteOutboxRows(paperclip_outbox, {})
BY DEF Tables, WriteOutboxRows

(* Several jobs rewritten in one transaction, each with its audit rows and *)
(* with an outbox row if it dies.                                          *)
LEMMA RowsStep ==
  ASSUME Tables, NEW jobs \in SUBSET JobIds,
         event_jobs' \in [JobIds -> Row],
         job_transitions' \in [JobIds -> Seq(AuditRow)],
         \A j \in JobIds \ jobs : /\ event_jobs'[j] = event_jobs[j]
                                    /\ job_transitions'[j] = job_transitions[j],
         \A j \in jobs : TailOK(job_transitions'[j], event_jobs'[j].state),
         NEW keys \in SUBSET (Scopes \X Nat),
         paperclip_outbox' = WriteOutboxRows(paperclip_outbox, keys),
         \A j \in jobs : event_jobs'[j].state = "dead_letter" =>
           \E k \in keys : k[1] = ScopeOf[j]
  PROVE  Tables'
<1>1. /\ DOMAIN paperclip_outbox' = DOMAIN paperclip_outbox \cup keys
      /\ DOMAIN paperclip_outbox' \subseteq Scopes \X Nat
      /\ paperclip_outbox' \in [DOMAIN paperclip_outbox' -> {"pending", "delivered"}]
  BY OutboxGrows
<1>2. \A j \in JobIds : TailOK(job_transitions'[j], event_jobs'[j].state)
  BY DEF Tables
<1>3. ASSUME NEW j \in JobIds, event_jobs'[j].state = "dead_letter"
      PROVE  \E k \in DOMAIN paperclip_outbox' : k[1] = ScopeOf[j]
  <2>1. CASE j \in jobs
    BY <1>1, <1>3, <2>1
  <2>2. CASE j \notin jobs
    <3>1. \E k \in DOMAIN paperclip_outbox : k[1] = ScopeOf[j]
      BY <1>3, <2>2 DEF Tables
    <3> QED BY <1>1, <3>1
  <2> QED BY <2>1, <2>2
<1> QED BY <1>1, <1>2, <1>3 DEF Tables

LEMMA OneRowStep ==
  ASSUME Tables, NEW job \in JobIds, NEW row \in Row, NEW log,
         event_jobs' = [event_jobs EXCEPT ![job] = row],
         job_transitions' = [job_transitions EXCEPT ![job] = log],
         TailOK(log, row.state),
         NEW keys \in SUBSET (Scopes \X Nat),
         paperclip_outbox' = WriteOutboxRows(paperclip_outbox, keys),
         row.state = "dead_letter" => \E k \in keys : k[1] = ScopeOf[job]
  PROVE  Tables'
<1>1. /\ event_jobs' \in [JobIds -> Row] /\ event_jobs'[job] = row
      /\ \A j \in JobIds \ {job} : event_jobs'[j] = event_jobs[j]
  BY DEF Tables
<1>2. /\ job_transitions' \in [JobIds -> Seq(AuditRow)] /\ job_transitions'[job] = log
      /\ \A j \in JobIds \ {job} : job_transitions'[j] = job_transitions[j]
  BY DEF Tables, TailOK
<1>3. {job} \in SUBSET JobIds
  OBVIOUS
<1>4. /\ \A j \in {job} : TailOK(job_transitions'[j], event_jobs'[j].state)
      /\ \A j \in {job} : event_jobs'[j].state = "dead_letter" =>
           \E k \in keys : k[1] = ScopeOf[j]
  BY <1>1, <1>2
<1>5. \A j \in JobIds \ {job} : /\ event_jobs'[j] = event_jobs[j]
                                  /\ job_transitions'[j] = job_transitions[j]
  BY <1>1, <1>2
<1> QED BY <1>1, <1>2, <1>3, <1>4, <1>5, RowsStep, ZenonT(60)

LEMMA EnqueueKeeps ==
  ASSUME WorkerInv, NEW j \in JobIds, Enqueue(j)
  PROVE  WorkerInv'
<1>1. QueuedRow \in Row /\ QueuedRow.state = "queued"
  BY DEF QueuedRow, AbsentRow, Row, Null, States, LEASABLE
<1>2. /\ event_jobs' = [event_jobs EXCEPT ![j] = QueuedRow]
      /\ UNCHANGED <<job_transitions, paperclip_outbox, clock, proc, crashes>>
      /\ event_jobs[j].state = "absent"
  BY DEF Enqueue
<1>3. /\ Tables /\ job_transitions[j] \in Seq(AuditRow)
      /\ TailOK(job_transitions[j], "absent")
  BY <1>2 DEF WorkerInv, Tables
<1>4. job_transitions[j] = <<>>
  <2>1. "absent" \notin States
    BY DEF States, TERMINAL, LEASABLE
  <2>2. job_transitions[j] # <<>> =>
          job_transitions[j][Len(job_transitions[j])] \in AuditRow
    BY <1>3
  <2> QED BY <1>3, <2>1, <2>2 DEF TailOK, AuditRow
<1>5. TailOK(job_transitions[j], "queued")
  BY <1>3, <1>4 DEF TailOK
<1>6. job_transitions' = [job_transitions EXCEPT ![j] = job_transitions[j]]
  BY <1>2, <1>3 DEF Tables
<1>7. paperclip_outbox' = WriteOutboxRows(paperclip_outbox, {})
  BY <1>2, <1>3, NoNewRows
<1>8. Tables'
  <2>1. {} \in SUBSET (Scopes \X Nat)
    OBVIOUS
  <2>2. QueuedRow.state # "dead_letter"
    BY <1>1
  <2>3. TailOK(job_transitions[j], QueuedRow.state)
    BY <1>1, <1>5
  <2> QED BY <1>1, <1>2, <1>3, <1>6, <1>7, <2>1, <2>2, <2>3, OneRowStep, Zenon
<1> QED BY <1>2, <1>8 DEF WorkerInv, Workers

LEMMA AnnounceKeys ==
  ASSUME NEW j \in JobIds, NEW attempt, NEW now \in Nat, Announce(j, attempt, now)
  PROVE  \E keys \in SUBSET (Scopes \X Nat) :
           /\ paperclip_outbox' = WriteOutboxRows(paperclip_outbox, keys)
           /\ FailTarget(attempt) = "dead_letter" => \E k \in keys : k[1] = ScopeOf[j]
<1> DEFINE keys == IF IsLastAttempt(attempt) THEN {OutboxKey(j, now)} ELSE {}
<1>1. keys \in SUBSET (Scopes \X Nat)
  BY KeysTyped
<1>2. FailTarget(attempt) = "dead_letter" => \E k \in keys : k[1] = ScopeOf[j]
  BY TargetsAreStates, KeysTyped
<1>3. paperclip_outbox' = WriteOutboxRows(paperclip_outbox, keys)
  BY DEF Announce
<1> QED BY <1>1, <1>2, <1>3

LEMMA DelaysAreNat == ASSUME NEW attempt, NEW d \in BackoffSeconds(attempt) PROVE d \in Nat
BY JobRowsAssumption DEF BackoffSeconds

(* The steps of a run that commit, one row each.                           *)
LEMMA WritesKeep ==
  ASSUME WorkerInv, NEW w \in Owners,
         \/ LeaseWrite(w) \/ LeaseWriteUnhandled(w)
         \/ SuccessWrite(w) \/ FailWrite(w)
  PROVE  WorkerInv'
<1> DEFINE p == proc[w]
           j == p.job
           row == event_jobs[j]
           log == job_transitions[j]
<1>1. /\ p \in Local /\ LocalOK(p, clock) /\ p.now <= clock /\ p.now \in Nat
      /\ clock \in Nat /\ crashes \in 0..MaxCrashes
  BY DEF WorkerInv, Workers, LocalOK, Local
<1>2. p.pc \in {"lease_write", "success_write", "fail_write"}
  BY DEF LeaseWrite, LeaseWriteUnhandled, SuccessWrite, FailWrite, At
<1>3. j \in JobIds /\ p.from \in States
  BY <1>1, <1>2 DEF LocalOK
<1>4. row \in Row /\ log \in Seq(AuditRow) /\ Tables /\ Workers
  BY <1>3 DEF WorkerInv, Tables
<1>5. UNCHANGED <<clock, crashes>>
  BY DEF LeaseWrite, LeaseWriteUnhandled, SuccessWrite, FailWrite
<1>6. /\ Reasons = {"lease", "success", "failure", "reap", "cancelled"}
      /\ "leased" \in States /\ "succeeded" \in States
  BY DEF Reasons, States, TERMINAL
<1>7. SUFFICES ASSUME Tables', NEW local, Become(w, local), LocalOK(local, clock)
               PROVE  WorkerInv'
  <2>1. SUFFICES Tables'
    <3>1. \E local : Become(w, local) /\ LocalOK(local, clock)
      <4>1. CASE LeaseWrite(w)
        <5>1. Become(w, [p EXCEPT !.pc = "handle"])
          BY <4>1 DEF LeaseWrite
        <5>2. LocalOK([p EXCEPT !.pc = "handle"], clock)
          BY <1>1, <1>3 DEF LocalOK, Local, PCs
        <5> QED BY <5>1, <5>2
      <4>2. CASE ~LeaseWrite(w)
        BY <1>1, <4>2, IdleIsLocal DEF LeaseWriteUnhandled, SuccessWrite, FailWrite
      <4> QED BY <4>1, <4>2
    <3> QED BY <1>7, <2>1, <3>1
  <2>2. CASE LeaseWrite(w)
    <3> DEFINE new == LeasedRow(row, w, p.now)
               trail == Audit(log, p.from, new.state, "lease")
    <3>1. new \in Row /\ new.state = "leased"
      BY <1>1, <1>4, LeasedIsRow
    <3>2. TailOK(trail, new.state)
      BY <1>3, <1>4, <1>6, <3>1, AuditNamesState
    <3>3. /\ event_jobs' = [event_jobs EXCEPT ![j] = new]
          /\ job_transitions' = [job_transitions EXCEPT ![j] = trail]
      BY <2>2 DEF LeaseWrite, Write
    <3>4. paperclip_outbox' = WriteOutboxRows(paperclip_outbox, {})
      BY <1>4, <2>2, NoNewRows DEF LeaseWrite
    <3> HIDE DEF new, trail
    <3> QED BY <1>3, <1>4, <3>1, <3>2, <3>3, <3>4, OneRowStep
  <2>3. CASE SuccessWrite(w)
    <3> DEFINE new == Released(row, "succeeded")
               trail == Audit(log, p.from, new.state, "success")
    <3>1. new \in Row /\ new.state = "succeeded"
      BY <1>4, <1>6, ReleasedIsRow
    <3>2. TailOK(trail, new.state)
      BY <1>3, <1>4, <1>6, <3>1, AuditNamesState
    <3>3. /\ event_jobs' = [event_jobs EXCEPT ![j] = new]
          /\ job_transitions' = [job_transitions EXCEPT ![j] = trail]
      BY <2>3 DEF SuccessWrite, Write
    <3>4. paperclip_outbox' = WriteOutboxRows(paperclip_outbox, {})
      BY <1>4, <2>3, NoNewRows DEF SuccessWrite
    <3> HIDE DEF new, trail
    <3> QED BY <1>3, <1>4, <3>1, <3>2, <3>3, <3>4, OneRowStep
  <2>4. CASE FailWrite(w)
    <3>1. PICK delay \in BackoffSeconds(p.attempt) :
            Write(j, FailedRow(row, p.attempt, p.retries, p.now, delay), p.from, "failure")
      BY <2>4 DEF FailWrite
    <3> DEFINE new == FailedRow(row, p.attempt, p.retries, p.now, delay)
               trail == Audit(log, p.from, new.state, "failure")
    <3>2. delay \in Nat /\ p.attempt \in Nat /\ p.retries \in Nat
      BY <1>1, DelaysAreNat DEF Local
    <3>3. new \in Row /\ new.state = FailTarget(p.attempt) /\ new.state \in States
      BY <1>1, <1>4, <3>2, AnyFailedIsRow, Zenon
    <3>4. TailOK(trail, new.state)
      BY <1>3, <1>4, <1>6, <3>3, AuditNamesState
    <3>5. /\ event_jobs' = [event_jobs EXCEPT ![j] = new]
          /\ job_transitions' = [job_transitions EXCEPT ![j] = trail]
      BY <3>1 DEF Write
    <3>6. Announce(j, p.attempt, p.now)
      BY <2>4 DEF FailWrite
    <3>7. PICK keys \in SUBSET (Scopes \X Nat) :
            /\ paperclip_outbox' = WriteOutboxRows(paperclip_outbox, keys)
            /\ FailTarget(p.attempt) = "dead_letter" => \E k \in keys : k[1] = ScopeOf[j]
      BY <1>1, <1>3, <3>6, AnnounceKeys
    <3> HIDE DEF new, trail
    <3> QED BY <1>3, <1>4, <3>3, <3>4, <3>5, <3>7, OneRowStep
  <2>5. CASE LeaseWriteUnhandled(w)
    <3> DEFINE attempt == row.attempt_count + 1
               retries == row.retry_count + 1
               leased == LeasedRow(row, w, p.now)
    <3>1. PICK delay \in BackoffSeconds(attempt) :
            event_jobs' = [event_jobs EXCEPT ![j] =
              FailedRow(LeasedRow(@, w, p.now), attempt, retries, p.now, delay)]
      BY <2>5, Zenon DEF LeaseWriteUnhandled
    <3> DEFINE new == FailedRow(leased, attempt, retries, p.now, delay)
               first == Audit(log, p.from, "leased", "lease")
               trail == Audit(first, "leased", FailTarget(attempt), "failure")
    <3>2. delay \in Nat /\ attempt \in Nat /\ retries \in Nat
      BY <1>4, DelaysAreNat DEF Row
    <3>3. leased \in Row
      BY <1>1, <1>4, LeasedIsRow
    <3>4. new \in Row /\ new.state = FailTarget(attempt) /\ new.state \in States
      BY <1>1, <3>2, <3>3, AnyFailedIsRow, Zenon
    <3>5. first \in Seq(AuditRow)
      BY <1>3, <1>4, <1>6, AuditNamesState DEF TailOK
    <3>6. TailOK(trail, new.state)
      BY <1>6, <3>4, <3>5, AuditNamesState
    <3>7. event_jobs' = [event_jobs EXCEPT ![j] = new]
      BY <1>3, <1>4, <3>1, SMTT(30) DEF Tables
    <3>8. job_transitions' = [job_transitions EXCEPT ![j] = trail]
      BY <1>3, <1>4, <2>5 DEF LeaseWriteUnhandled, Tables
    <3>9. Announce(j, attempt, p.now)
      BY <2>5 DEF LeaseWriteUnhandled
    <3>10. PICK keys \in SUBSET (Scopes \X Nat) :
            /\ paperclip_outbox' = WriteOutboxRows(paperclip_outbox, keys)
            /\ FailTarget(attempt) = "dead_letter" => \E k \in keys : k[1] = ScopeOf[j]
      BY <1>1, <1>3, <3>9, AnnounceKeys
    <3> HIDE DEF new, trail
    <3> QED BY <1>3, <1>4, <3>4, <3>6, <3>7, <3>8, <3>10, OneRowStep
  <2> QED BY <2>2, <2>3, <2>4, <2>5
<1>8. Workers'
  BY <1>1, <1>4, <1>5, <1>7, LocalStep
<1> QED BY <1>7, <1>8 DEF WorkerInv

(* reap_expired_leases: the whole list in one transaction, or none of it.  *)
LEMMA ReapWriteKeeps ==
  ASSUME WorkerInv, NEW w \in Owners, ReapWrite(w)
  PROVE  WorkerInv'
<1> DEFINE p == proc[w]
           listed == DOMAIN p.rows
           attempt(j) == p.rows[j] + 1
           from(j) == IF j = p.job THEN p.from ELSE event_jobs[j].state
           legal == \A j \in listed :
                      ReapTarget(attempt(j)) \in ALLOWED_TRANSITIONS[from(j)]
           keys == {OutboxKey(j, p.now) :
                      j \in {i \in listed : IsLastAttempt(attempt(i))}}
           new(j) == ReapedRow(event_jobs[j], attempt(j), p.now)
           trail(j) == Audit(job_transitions[j], from(j), ReapTarget(attempt(j)), "reap")
<1>1. /\ p \in Local /\ LocalOK(p, clock) /\ p.now <= clock /\ p.now \in Nat
      /\ clock \in Nat /\ crashes \in 0..MaxCrashes /\ Tables /\ Workers
  BY DEF WorkerInv, Workers, LocalOK, Local
<1>2. p.from \in States
  BY <1>1 DEF ReapWrite, At, LocalOK
<1>3. listed \in SUBSET JobIds /\ \A j \in listed : attempt(j) \in Nat
  <2>1. p.rows \in Counts
    BY <1>1 DEF Local
  <2> QED BY <2>1, CountsFacts
<1>4. UNCHANGED <<clock, crashes>>
  BY DEF ReapWrite
<1>5. CASE ~legal
  <2>1. Become(w, [Idle EXCEPT !.pc = "raised"]) /\ UNCHANGED workerTables
    BY <1>5 DEF ReapWrite
  <2> QED BY <1>1, <1>4, <2>1, IdleIsLocal, LocalStep, TablesFrame DEF WorkerInv, workerTables
<1>6. CASE legal
  <2>1. /\ event_jobs' = [j \in JobIds |-> IF j \in listed THEN new(j) ELSE event_jobs[j]]
        /\ job_transitions' = [j \in JobIds |->
             IF j \in listed THEN trail(j) ELSE job_transitions[j]]
        /\ paperclip_outbox' = WriteOutboxRows(paperclip_outbox, keys)
        /\ Become(w, [Idle EXCEPT !.pc = "poll", !.now = p.now])
    BY <1>6 DEF ReapWrite
  <2>2. \A j \in listed : new(j) \in Row /\ new(j).state = ReapTarget(attempt(j))
    <3> SUFFICES ASSUME NEW j \in listed
                 PROVE  new(j) \in Row /\ new(j).state = ReapTarget(attempt(j))
      BY Zenon
    <3>1. event_jobs[j] \in Row /\ attempt(j) \in Nat
      BY <1>1, <1>3 DEF Tables
    <3> HIDE DEF p, attempt
    <3> QED BY <1>1, <3>1, ReapedIsRow, Zenon
  <2>3. \A j \in listed : TailOK(trail(j), ReapTarget(attempt(j)))
    <3> SUFFICES ASSUME NEW j \in listed
                 PROVE  TailOK(trail(j), ReapTarget(attempt(j)))
      BY Zenon
    <3>1. job_transitions[j] \in Seq(AuditRow) /\ "reap" \in Reasons
      BY <1>1, <1>3 DEF Tables, Reasons
    <3>2. from(j) \in States
      <4>1. event_jobs[j].state \in States \cup {"absent"}
        BY <1>1, <1>3 DEF Tables, Row
      <4>2. j # p.job => ReapTarget(attempt(j)) \in ALLOWED_TRANSITIONS[event_jobs[j].state]
        BY <1>6
      <4> QED BY <1>2, <4>1, <4>2, LeavableStates
    <3>3. ReapTarget(attempt(j)) \in States
      BY TargetsAreStates, Zenon
    <3> HIDE DEF from, attempt
    <3> QED BY <3>1, <3>2, <3>3, AuditNamesState
  <2>4. keys \in SUBSET (Scopes \X Nat)
    BY <1>1, <1>3, KeysTyped
  <2>5. \A j \in listed : ReapTarget(attempt(j)) = "dead_letter" =>
          \E k \in keys : k[1] = ScopeOf[j]
    <3> SUFFICES ASSUME NEW j \in listed, ReapTarget(attempt(j)) = "dead_letter"
                 PROVE  \E k \in keys : k[1] = ScopeOf[j]
      BY Zenon
    <3>1. IsLastAttempt(attempt(j))
      BY TargetsAreStates, Zenon
    <3>2. OutboxKey(j, p.now) \in keys
      BY <3>1
    <3>3. OutboxKey(j, p.now)[1] = ScopeOf[j]
      BY <1>1, <1>3, KeysTyped
    <3> HIDE DEF keys
    <3> QED BY <3>2, <3>3
  <2> HIDE DEF new, trail, keys, attempt, listed
  <2>6. /\ event_jobs' \in [JobIds -> Row]
        /\ \A j \in listed : event_jobs'[j] = new(j)
        /\ \A j \in JobIds \ listed : event_jobs'[j] = event_jobs[j]
    BY <1>1, <1>3, <2>1, <2>2 DEF Tables
  <2>7. /\ job_transitions' \in [JobIds -> Seq(AuditRow)]
        /\ \A j \in listed : job_transitions'[j] = trail(j)
        /\ \A j \in JobIds \ listed : job_transitions'[j] = job_transitions[j]
    BY <1>1, <1>3, <2>1, <2>3 DEF Tables, TailOK
  <2>8. \A j \in JobIds \ listed : /\ event_jobs'[j] = event_jobs[j]
                                     /\ job_transitions'[j] = job_transitions[j]
    BY <2>6, <2>7
  <2>9. /\ \A j \in listed : TailOK(job_transitions'[j], event_jobs'[j].state)
        /\ \A j \in listed : event_jobs'[j].state = "dead_letter" =>
             \E k \in keys : k[1] = ScopeOf[j]
    BY <2>2, <2>3, <2>5, <2>6, <2>7
  <2>10. Tables'
    BY <1>1, <1>3, <2>1, <2>4, <2>6, <2>7, <2>8, <2>9, RowsStep, ZenonT(60)
  <2>11. LocalOK([Idle EXCEPT !.pc = "poll", !.now = p.now], clock)
    <3>1. Idle \in Local
      BY <1>1, IdleIsLocal DEF LocalOK
    <3> QED BY <1>1, <3>1 DEF LocalOK, Local, PCs
  <2> QED BY <1>1, <1>4, <2>1, <2>10, <2>11, LocalStep DEF WorkerInv
<1> QED BY <1>5, <1>6

(* A kill, the loss of the database lock, and the clock.                   *)
LEMMA CrashKeeps ==
  ASSUME WorkerInv, NEW w \in Owners, Crash(w)
  PROVE  WorkerInv'
<1>0. MaxCrashes \in Nat
  BY JobWorkerAssumption
<1>1. /\ Become(w, Idle) /\ UNCHANGED workerTables /\ UNCHANGED clock
      /\ crashes' \in 0..MaxCrashes /\ clock \in Nat
  BY <1>0 DEF Crash, WorkerInv, Workers
<1> QED BY <1>1, IdleIsLocal, LocalStep, TablesFrame DEF WorkerInv, workerTables

LEMMA LockedOutKeeps ==
  ASSUME WorkerInv, NEW w \in Owners, WorkerLockedOut(w)
  PROVE  WorkerInv'
<1>1. /\ Become(w, [Idle EXCEPT !.pc = "raised"])
      /\ UNCHANGED <<event_jobs, job_transitions, paperclip_outbox, clock, crashes>>
      /\ crashes \in 0..MaxCrashes /\ clock \in Nat
  BY DEF WorkerLockedOut, Become, WorkerInv, Workers
<1> QED BY <1>1, IdleIsLocal, LocalStep, TablesFrame DEF WorkerInv

LEMMA TickKeeps == ASSUME WorkerInv, Tick PROVE WorkerInv'
<1>1. /\ UNCHANGED <<event_jobs, job_transitions, paperclip_outbox, proc, crashes>>
      /\ clock' = clock + 1 /\ clock \in Nat
  BY DEF Tick, workerTables, WorkerInv, Workers
<1>2. \A w \in Owners : LocalOK(proc[w], clock + 1)
  <2>1. \A w \in Owners : LocalOK(proc[w], clock) /\ proc[w].now \in Nat
    BY DEF WorkerInv, Workers, Local
  <2> QED BY <1>1, <2>1 DEF LocalOK
<1>3. Workers'
  BY <1>1, <1>2 DEF WorkerInv, Workers
<1> QED BY <1>1, <1>3, TablesFrame DEF WorkerInv

LEMMA UnchangedKeeps ==
  ASSUME WorkerInv, UNCHANGED <<event_jobs, job_transitions, paperclip_outbox,
                                clock, proc, crashes>>
  PROVE  WorkerInv'
BY TablesFrame DEF WorkerInv, Workers

LEMMA RunKeeps ==
  ASSUME WorkerInv, NEW w \in Owners, WorkerReads(w) \/ WorkerWrites(w)
  PROVE  WorkerInv'
BY ReadsKeep, WritesKeep, ReapWriteKeeps DEF WorkerWrites

LEMMA WorkerSteps == WorkerInv /\ [WorkerNext]_runVars => WorkerInv'
<1> SUFFICES ASSUME WorkerInv, [WorkerNext]_runVars PROVE WorkerInv'
  OBVIOUS
<1>1. ASSUME NEW w \in Owners, Run(w) PROVE WorkerReads(w) \/ WorkerWrites(w)
  BY <1>1 DEF Run, WorkerReads, WorkerWrites
<1>2. ASSUME UNCHANGED runVars PROVE WorkerInv'
  BY <1>2, UnchangedKeeps DEF runVars
<1> QED BY <1>1, <1>2, EnqueueKeeps, RunKeeps, CrashKeeps, TickKeeps DEF WorkerNext

LEMMA WorkerInvariance == WorkerSpec => []WorkerInv
<1>1. WorkerInit => WorkerInv
  BY WorkerStarts
<1>2. WorkerInv /\ [WorkerNext]_runVars => WorkerInv'
  BY WorkerSteps
<1> QED BY <1>1, <1>2, PTL DEF WorkerSpec

LEMMA WorkerFacts ==
  WorkerInv => WorkerTypeOK /\ DeadLetterAnnounced /\ AuditTail
<1> SUFFICES ASSUME WorkerInv PROVE WorkerTypeOK /\ DeadLetterAnnounced /\ AuditTail
  OBVIOUS
<1>1. Tables /\ Workers
  BY DEF WorkerInv
<1>2. DeadLetterAnnounced
  BY <1>1 DEF Tables, DeadLetterAnnounced, Queue!DeadLetterAnnounced, JobIds,
              Queue!JobIds
<1>3. AuditTail
  BY <1>1 DEF Tables, TailOK, AuditTail
<1>4. ASSUME NEW w \in Owners
      PROVE  /\ proc[w].pc \in PCs
             /\ proc[w].now \in 0..clock
             /\ proc[w].pc \notin {"idle", "reap", "poll", "raised"} =>
                  proc[w].job \in JobIds
             /\ proc[w].from \in States \cup {"absent"}
             /\ DOMAIN proc[w].rows \subseteq JobIds
  <2>1. proc[w] \in Local /\ LocalOK(proc[w], clock) /\ clock \in Nat
    BY <1>1 DEF Workers
  <2> QED BY <2>1, CountsFacts DEF Local, LocalOK
<1>5. WorkerTypeOK
  BY <1>1, <1>4 DEF Tables, Workers, WorkerTypeOK
<1> QED BY <1>2, <1>3, <1>5

(* Rows and workers keep to their schema, however many workers overlap.    *)
THEOREM WorkerTypes == WorkerSpec => []WorkerTypeOK
BY WorkerInvariance, WorkerFacts, PTL

(* However many workers overlap, crash or act on stale reads: a dead       *)
(* letter has the outbox row of its lane and area (record_failure and      *)
(* reap_expired_leases of scripts/job_queue.py).                           *)
THEOREM WorkersAnnounceDeaths == WorkerSpec => []DeadLetterAnnounced
BY WorkerInvariance, WorkerFacts, PTL

(* ... and the newest audit row of every job names the job's state         *)
(* (transition of scripts/job_queue.py).                                   *)
THEOREM WorkersKeepAuditTail == WorkerSpec => []AuditTail
BY WorkerInvariance, WorkerFacts, PTL

-----------------------------------------------------------------------------
(* The three on one database.  A row once inserted is never absent again.  *)
Present ==
  \A j \in JobIds : event_jobs[j].state # "absent" => event_jobs'[j].state # "absent"

LEMMA WritesPresent ==
  ASSUME WorkerInv, NEW w \in Owners, WorkerWrites(w)
  PROVE  Present
<1> DEFINE p == proc[w]
           row == event_jobs[p.job]
<1>1. /\ \A j \in JobIds : event_jobs[j] \in Row
      /\ event_jobs \in [JobIds -> Row]
      /\ p \in Local /\ LocalOK(p, clock) /\ p.now \in Nat
  BY SMTT(30) DEF WorkerInv, Tables, Workers, Local
<1>2. p.job \in JobIds
  BY <1>1 DEF WorkerWrites, ReapWrite, LeaseWrite, LeaseWriteUnhandled,
              SuccessWrite, FailWrite, At, LocalOK
<1>3. "absent" \notin States /\ "succeeded" \in States
  BY DEF States, TERMINAL, LEASABLE
<1>4. ASSUME NEW new, event_jobs' = [event_jobs EXCEPT ![p.job] = new],
             new.state \in States
      PROVE  Present
  BY <1>1, <1>2, <1>3, <1>4 DEF Present
<1>5. CASE LeaseWrite(w)
  <2>1. event_jobs' = [event_jobs EXCEPT ![p.job] = LeasedRow(row, w, p.now)]
    BY <1>5 DEF LeaseWrite, Write
  <2>2. LeasedRow(row, w, p.now).state \in States
    BY <1>1, <1>2, LeasedIsRow DEF States
  <2> QED BY <1>4, <2>1, <2>2
<1>6. CASE SuccessWrite(w)
  <2>1. event_jobs' = [event_jobs EXCEPT ![p.job] = Released(row, "succeeded")]
    BY <1>6 DEF SuccessWrite, Write
  <2>2. Released(row, "succeeded").state \in States
    BY <1>1, <1>2, <1>3, ReleasedIsRow
  <2> QED BY <1>4, <2>1, <2>2
<1>7. CASE FailWrite(w)
  <2>1. PICK delay \in BackoffSeconds(p.attempt) :
          event_jobs' = [event_jobs EXCEPT
            ![p.job] = FailedRow(row, p.attempt, p.retries, p.now, delay)]
    BY <1>7 DEF FailWrite, Write
  <2>2. row \in Row /\ p.attempt \in Nat /\ p.retries \in Nat /\ delay \in Nat
    BY <1>1, <1>2, DelaysAreNat DEF Local
  <2>3. FailedRow(row, p.attempt, p.retries, p.now, delay).state \in States
    BY <1>1, <2>2, AnyFailedIsRow, Zenon
  <2> QED BY <1>4, <2>1, <2>3, Zenon
<1>8. CASE LeaseWriteUnhandled(w)
  <2> DEFINE attempt == row.attempt_count + 1
             retries == row.retry_count + 1
             leased == LeasedRow(row, w, p.now)
  <2>1. PICK delay \in BackoffSeconds(attempt) :
          event_jobs' = [event_jobs EXCEPT ![p.job] =
            FailedRow(LeasedRow(@, w, p.now), attempt, retries, p.now, delay)]
    BY <1>8, Zenon DEF LeaseWriteUnhandled
  <2>2. leased \in Row /\ delay \in Nat /\ attempt \in Nat /\ retries \in Nat
    <3>1. attempt \in Nat /\ retries \in Nat
      BY <1>1, <1>2 DEF Row
    <3>2. leased \in Row
      BY <1>1, <1>2, LeasedIsRow
    <3> QED BY <3>1, <3>2, DelaysAreNat
  <2>3. FailedRow(leased, attempt, retries, p.now, delay).state \in States
    BY <1>1, <2>2, AnyFailedIsRow, Zenon
  <2>4. event_jobs' = [event_jobs EXCEPT ![p.job] =
                         FailedRow(leased, attempt, retries, p.now, delay)]
    BY <1>1, <1>2, <2>1
  <2> HIDE DEF attempt, retries, leased
  <2> QED BY <1>4, <2>3, <2>4, Zenon
<1>9. CASE ReapWrite(w)
  <2>1. CASE UNCHANGED event_jobs
    BY <2>1 DEF Present
  <2>2. CASE event_jobs' = [j \in JobIds |->
               IF j \in DOMAIN p.rows THEN ReapedRow(event_jobs[j], p.rows[j] + 1, p.now)
                                      ELSE event_jobs[j]]
    <3>1. \A j \in DOMAIN p.rows : p.rows[j] + 1 \in Nat
      BY <1>1, CountsFacts DEF Local
    <3>2. ASSUME NEW j \in JobIds, j \in DOMAIN p.rows
          PROVE  event_jobs'[j].state \in States
      <4>1. event_jobs'[j] = ReapedRow(event_jobs[j], p.rows[j] + 1, p.now)
        BY <2>2, <3>2
      <4>2. \A attempt \in Nat : ReapedRow(event_jobs[j], attempt, p.now).state \in States
        BY <1>1, ReapedIsRow, TargetsAreStates
      <4> QED BY <3>1, <3>2, <4>1, <4>2, Zenon
    <3>3. \A j \in JobIds : j \notin DOMAIN p.rows => event_jobs'[j] = event_jobs[j]
      BY <2>2
    <3> QED BY <1>3, <3>2, <3>3 DEF Present
  <2> QED BY <1>9, <2>1, <2>2 DEF ReapWrite, workerTables
<1> QED BY <1>5, <1>6, <1>7, <1>8, <1>9 DEF WorkerWrites

(* Every job of the ingress is a row of event_jobs.                        *)
Stored ==
  \A n \in DOMAIN job_envelope : n \in JobIds /\ event_jobs[n].state # "absent"

PlaneInv == WorkerInv /\ IngressInv /\ Stored

LEMMA StoredStays == ASSUME Stored, Present, UNCHANGED job_envelope PROVE Stored'
BY DEF Stored, Present

LEMMA IngressStepKeeps == ASSUME PlaneInv, IngressStep PROVE PlaneInv'
<1>1. WorkerInv /\ IngressInv /\ Stored
  BY DEF PlaneInv
<1>2. CASE IngressInsert
  <2>1. Insert /\ \/ /\ job_envelope' = job_envelope
                       /\ UNCHANGED <<event_jobs, workerVars, paperclip_outbox>>
                    \/ /\ job_envelope' # job_envelope
                       /\ Len(job_envelope) < NumJobs /\ Enqueue(Len(job_envelope) + 1)
    BY <1>2 DEF IngressInsert
  <2>2. /\ IngressInv'
        /\ \/ UNCHANGED job_envelope
           \/ job_envelope' = Append(job_envelope, Len(job_envelope) + 1)
    BY <1>1, <2>1, InsertKeeps
  <2>3. CASE UNCHANGED <<job_envelope, event_jobs, workerVars, paperclip_outbox>>
    <3>1. WorkerInv'
      BY <1>1, <2>3, UnchangedKeeps DEF workerVars
    <3> QED BY <1>1, <2>2, <2>3, <3>1 DEF PlaneInv, Stored
  <2>4. CASE job_envelope' # job_envelope
    <3> DEFINE n == Len(job_envelope)
    <3>1. /\ job_envelope \in Seq(Nat) /\ n \in Nat /\ n < NumJobs
          /\ Enqueue(n + 1) /\ job_envelope' = Append(job_envelope, n + 1)
      BY <1>1, <2>1, <2>2, <2>4 DEF IngressInv, OneEach
    <3>2. n + 1 \in JobIds
      BY <3>1, JobRowsAssumption DEF JobIds
    <3>3. WorkerInv'
      BY <1>1, <3>1, <3>2, EnqueueKeeps
    <3>4. DOMAIN job_envelope' = DOMAIN job_envelope \cup {n + 1}
      BY <3>1
    <3>5. /\ event_jobs \in [JobIds -> Row]
          /\ event_jobs' = [event_jobs EXCEPT ![n + 1] = QueuedRow]
          /\ QueuedRow.state = "queued"
      BY <1>1, <3>1 DEF WorkerInv, Tables, Enqueue, QueuedRow, AbsentRow
    <3> HIDE DEF n
    <3>6. \A m \in JobIds : event_jobs'[m].state = IF m = n + 1 THEN "queued"
                                                     ELSE event_jobs[m].state
      BY <3>2, <3>5
    <3>7. Stored'
      BY <1>1, <3>2, <3>4, <3>6 DEF Stored
    <3> QED BY <2>2, <3>3, <3>7 DEF PlaneInv
  <2> QED BY <2>1, <2>3, <2>4
<1>3. CASE ~IngressInsert
  <2>1. /\ \/ \E req \in Requests : Verify(req)
           \/ Reply \/ Outage \/ TickIngress
           \/ \E source \in Registered : Flip(source)
        /\ UNCHANGED <<event_jobs, paperclip_outbox, workerVars, relayVars>>
    BY <1>3 DEF IngressStep
  <2>2. IngressInv' /\ UNCHANGED job_envelope
    BY <1>1, <2>1, IngressRestKeeps
  <2>3. WorkerInv'
    BY <1>1, <2>1, UnchangedKeeps DEF workerVars
  <2> QED BY <1>1, <2>1, <2>2, <2>3 DEF PlaneInv, Stored
<1> QED BY <1>2, <1>3

LEMMA IngressFrame ==
  ASSUME IngressInv, UNCHANGED ingressVars
  PROVE  IngressInv' /\ UNCHANGED job_envelope
<1>1. UNCHANGED ingressVars
  BY DEF ingressVars, ingressVars, ingressTables
<1> QED BY <1>1, IngressRestKeeps

LEMMA WorkerStepKeeps ==
  ASSUME PlaneInv, NEW w \in Owners,
         WorkerStep(w) \/ WorkerLockedOut(w) \/ WorkerKilled(w)
  PROVE  PlaneInv'
<1>1. WorkerInv /\ IngressInv /\ Stored
  BY DEF PlaneInv
<1>2. UNCHANGED ingressVars
  BY DEF WorkerStep, WorkerLockedOut, WorkerKilled
<1>3. WorkerInv'
  BY <1>1, RunKeeps, LockedOutKeeps, CrashKeeps DEF WorkerStep, WorkerKilled
<1>4. Present
  <2>1. CASE WorkerWrites(w)
    BY <1>1, <2>1, WritesPresent
  <2>2. CASE ~WorkerWrites(w)
    <3>1. UNCHANGED event_jobs
      BY <2>2 DEF WorkerStep, WorkerLockedOut, WorkerKilled, WorkerReads, Crash, workerTables,
           StartRun, ReapRead, Poll, LeaseRead, HandlerSucceeds, HandlerFails,
           FailRead, Restart
    <3> QED BY <3>1 DEF Present
  <2> QED BY <2>1, <2>2
<1> QED BY <1>1, <1>2, <1>3, <1>4, IngressFrame, StoredStays DEF PlaneInv

(* The relay turns rows it sent from pending to delivered and does nothing *)
(* else to the shared tables.                                              *)
LEMMA RelayTouches ==
  ASSUME NEW r \in Relays, RelayStep(r)
  PROVE  /\ UNCHANGED <<event_jobs, workerVars, ingressVars>>
         /\ \/ UNCHANGED paperclip_outbox
            \/ paperclip_outbox' = [k \in DOMAIN paperclip_outbox |->
                 IF k \in relay[r].written THEN "delivered" ELSE paperclip_outbox[k]]
BY DEF RelayStep, R!Relay, R!Fail, R!Start, R!Post, R!Update, R!Commit, R!PostFails,
       R!LockTimeout, R!Kill, R!Abort

LEMMA RelayStepKeeps == ASSUME PlaneInv, NEW r \in Relays, RelayStep(r) PROVE PlaneInv'
<1>1. WorkerInv /\ IngressInv /\ Stored
  BY DEF PlaneInv
<1>2. UNCHANGED <<event_jobs, workerVars, ingressVars>>
  BY RelayTouches
<1>3. /\ DOMAIN paperclip_outbox' = DOMAIN paperclip_outbox
      /\ paperclip_outbox' \in [DOMAIN paperclip_outbox' -> {"pending", "delivered"}]
  <2>1. paperclip_outbox \in [DOMAIN paperclip_outbox -> {"pending", "delivered"}]
    BY <1>1 DEF WorkerInv, Tables
  <2> QED BY <2>1, RelayTouches
<1>4. WorkerInv'
  BY <1>1, <1>2, <1>3 DEF WorkerInv, Tables, Workers, workerVars
<1> QED BY <1>1, <1>2, <1>4, IngressFrame DEF PlaneInv, Stored

LEMMA PlaneNext == PlaneInv /\ [Next]_vars => PlaneInv'
<1> SUFFICES ASSUME PlaneInv, [Next]_vars PROVE PlaneInv'
  OBVIOUS
<1>1. ASSUME UNCHANGED <<event_jobs, ingressVars>>, WorkerInv' PROVE PlaneInv'
  BY <1>1, IngressFrame DEF PlaneInv, Stored
<1>2. CASE TimePasses
  <2>1. Tick /\ UNCHANGED <<event_jobs, ingressVars>>
    BY <1>2 DEF TimePasses, Tick, workerTables
  <2> QED BY <1>1, <2>1, TickKeeps DEF PlaneInv
<1>3. CASE UNCHANGED vars
  <2>1. UNCHANGED <<event_jobs, job_transitions, paperclip_outbox, clock, proc, crashes,
                    ingressVars>>
    BY <1>3 DEF vars, workerVars
  <2> QED BY <1>1, <2>1, UnchangedKeeps DEF PlaneInv
<1> QED BY <1>2, <1>3, IngressStepKeeps, WorkerStepKeeps, RelayStepKeeps DEF Next

LEMMA PlaneInvariance == Spec => []PlaneInv
<1>1. Init => PlaneInv
  <2> SUFFICES ASSUME Init PROVE PlaneInv
    OBVIOUS
  <2>1. WorkerInit /\ IngressInit /\ job_envelope = <<>>
    BY DEF Init, IngressInit
  <2> QED BY <2>1, WorkerStarts, IngressStarts DEF PlaneInv, Stored
<1> QED BY <1>1, PlaneNext, PTL DEF Spec

(* A sender that saw a 202 may forget the event: whatever workers, relays  *)
(* and ingress do to the one database, a job for the event exists, and if  *)
(* that job died an outbox row says so.                                    *)
THEOREM AcceptedIsNotLost == Spec => []AcceptedNotLost
<1>1. PlaneInv => AcceptedNotLost
  <2> SUFFICES ASSUME PlaneInv, NEW k \in accepted
               PROVE  \E n \in DOMAIN job_envelope :
                        /\ event_envelopes[job_envelope[n]] = k
                        /\ event_jobs[n].state # "absent"
                        /\ event_jobs[n].state = "dead_letter" =>
                             \E o \in DOMAIN paperclip_outbox : o[1] = ScopeOf[n]
    BY DEF AcceptedNotLost
  <2>1. PICK n \in DOMAIN event_envelopes : event_envelopes[n] = k
    BY DEF PlaneInv, IngressInv, Answered, Known
  <2>2. n \in DOMAIN job_envelope /\ job_envelope[n] = n
    BY DEF PlaneInv, IngressInv, OneEach
  <2> QED BY <2>1, <2>2 DEF PlaneInv, Stored, WorkerInv, Tables
<1> QED BY <1>1, PlaneInvariance, PTL

(* The ingress, the relay and the database lock do not break what the      *)
(* workers keep.                                                           *)
THEOREM DeathsAnnounced == Spec => [](DeadLetterAnnounced /\ AuditTail /\ ExactlyOneJob)
<1>1. PlaneInv => DeadLetterAnnounced /\ AuditTail /\ ExactlyOneJob
  BY WorkerFacts, OneJobEach DEF PlaneInv
<1> QED BY <1>1, PlaneInvariance, PTL

-----------------------------------------------------------------------------
(* One worker on the plane.  Ids are handed out in order, and what the     *)
(* lone worker read is still true when it writes.                          *)
IdsInOrder ==
  \A j \in JobIds : event_jobs[j].state # "absent" =>
    \A k \in 1..(j - 1) : event_jobs[k].state # "absent"

Expired(jobs, now) == {j \in JobIds : IsExpired(jobs[j], now)}
Fresh(p, jobs) ==
  /\ p.pc \in {"reap", "reap_write"} =>
       /\ DOMAIN p.rows = Expired(jobs, p.now) /\ DOMAIN p.rows # {}
       /\ \A j \in DOMAIN p.rows : p.rows[j] = jobs[j].attempt_count
  /\ p.pc = "reap_write" => p.from = "leased"
  /\ p.pc \in {"lease", "lease_write"} => p.job \in PollNext(jobs, p.now)
  /\ p.pc \in {"handle", "success_write", "fail", "fail_write"} =>
       jobs[p.job].state = "leased"
  /\ p.pc \in {"lease_write", "success_write", "fail_write"} => p.from = jobs[p.job].state
  /\ p.pc \in {"fail", "fail_write"} =>
       /\ p.attempt = jobs[p.job].attempt_count + 1
       /\ p.retries = jobs[p.job].retry_count + 1

(* The operators of the atomic queue are those of the worker.              *)
LEMMA QueueOps ==
  /\ Queue!JobIds = JobIds /\ Queue!AbsentRow = AbsentRow /\ Queue!QueuedRow = QueuedRow
  /\ Queue!ALLOWED_TRANSITIONS = ALLOWED_TRANSITIONS
  /\ \A row, now : Queue!IsExpired(row, now) <=> IsExpired(row, now)
  /\ \A jobs, now : Queue!PollNext(jobs, now) = PollNext(jobs, now)
  /\ \A row, owner, now : Queue!LeasedRow(row, owner, now) = LeasedRow(row, owner, now)
  /\ \A row, to : Queue!Released(row, to) = Released(row, to)
  /\ \A row, a, r, now, d : Queue!FailedRow(row, a, r, now, d) = FailedRow(row, a, r, now, d)
  /\ \A row, a, now : Queue!ReapedRow(row, a, now) = ReapedRow(row, a, now)
  /\ \A a : /\ Queue!FailTarget(a) = FailTarget(a) /\ Queue!ReapTarget(a) = ReapTarget(a)
            /\ Queue!IsLastAttempt(a) <=> IsLastAttempt(a)
            /\ Queue!BackoffSeconds(a) = BackoffSeconds(a)
  /\ \A log, from, to, reason :
       Queue!Audit(log, from, to, reason) = Audit(log, from, to, reason)
  /\ \A j, now : Queue!OutboxKey(j, now) = OutboxKey(j, now)
  /\ \A outbox, keys : Queue!WriteOutboxRows(outbox, keys) = WriteOutboxRows(outbox, keys)
<1>1. Queue!JobIds = JobIds
  BY DEF Queue!JobIds, JobIds
<1>2. Queue!AbsentRow = AbsentRow /\ Queue!QueuedRow = QueuedRow
  BY DEF Queue!AbsentRow, AbsentRow, Queue!QueuedRow, QueuedRow, Queue!Null, Null
<1>3. Queue!ALLOWED_TRANSITIONS = ALLOWED_TRANSITIONS
  BY Zenon DEF Queue!ALLOWED_TRANSITIONS, ALLOWED_TRANSITIONS, Queue!States, States,
               Queue!TERMINAL, TERMINAL, Queue!LEASABLE, LEASABLE
<1>4. \A row, now : Queue!IsExpired(row, now) <=> IsExpired(row, now)
  BY Zenon DEF Queue!IsExpired, IsExpired, Queue!Null, Null
<1>5. \A jobs, now : Queue!PollNext(jobs, now) = PollNext(jobs, now)
  BY Zenon DEF Queue!PollNext, PollNext, Queue!IsLeasable, IsLeasable, Queue!LEASABLE,
               LEASABLE, Queue!Null, Null, Queue!JobIds, JobIds
<1>6. \A row, owner, now : Queue!LeasedRow(row, owner, now) = LeasedRow(row, owner, now)
  BY Zenon DEF Queue!LeasedRow, LeasedRow
<1>7. \A row, to : Queue!Released(row, to) = Released(row, to)
  BY Zenon DEF Queue!Released, Released, Queue!Null, Null
<1>8. \A a : /\ Queue!FailTarget(a) = FailTarget(a) /\ Queue!ReapTarget(a) = ReapTarget(a)
             /\ Queue!IsLastAttempt(a) <=> IsLastAttempt(a)
             /\ Queue!BackoffSeconds(a) = BackoffSeconds(a)
  BY Zenon DEF Queue!FailTarget, FailTarget, Queue!ReapTarget, ReapTarget,
               Queue!IsLastAttempt, IsLastAttempt, Queue!BackoffSeconds, BackoffSeconds
<1>9. \A row, a, r, now, d : Queue!FailedRow(row, a, r, now, d) = FailedRow(row, a, r, now, d)
  BY Zenon DEF Queue!FailedRow, FailedRow, Queue!Released, Released, Queue!Null, Null,
               Queue!FailTarget, FailTarget, Queue!IsLastAttempt, IsLastAttempt
<1>10. \A row, a, now : Queue!ReapedRow(row, a, now) = ReapedRow(row, a, now)
  BY Zenon DEF Queue!ReapedRow, ReapedRow, Queue!Released, Released, Queue!Null, Null,
               Queue!ReapTarget, ReapTarget, Queue!IsLastAttempt, IsLastAttempt
<1>11. /\ \A log, from, to, reason :
            Queue!Audit(log, from, to, reason) = Audit(log, from, to, reason)
       /\ \A j, now : Queue!OutboxKey(j, now) = OutboxKey(j, now)
       /\ \A outbox, keys :
            Queue!WriteOutboxRows(outbox, keys) = WriteOutboxRows(outbox, keys)
  BY Zenon DEF Queue!Audit, Audit, Queue!OutboxKey, OutboxKey, Queue!Day, Day,
               Queue!WriteOutboxRows, WriteOutboxRows
<1> QED
  BY <1>1, <1>2, <1>3, <1>4, <1>5, <1>6, <1>7, <1>8, <1>9, <1>10, <1>11

(* What the worker reads without writing leaves the queue where it was.    *)
LEMMA ReadsStutter ==
  ASSUME NEW w \in Owners, WorkerReads(w) \/ Crash(w) \/ WorkerLockedOut(w)
  PROVE  UNCHANGED Queue!vars
BY DEF WorkerReads, StartRun, ReapRead, Poll, LeaseRead, HandlerSucceeds,
       HandlerFails, FailRead, Restart, Crash, WorkerLockedOut, workerTables, Queue!vars

LEMMA LeasedMayEnd ==
  /\ \A a : /\ FailTarget(a) \in ALLOWED_TRANSITIONS["leased"]
            /\ ReapTarget(a) \in ALLOWED_TRANSITIONS["leased"]
  /\ "succeeded" \in ALLOWED_TRANSITIONS["leased"]
  /\ \A s \in {"queued", "failed_retryable"} : "leased" \in ALLOWED_TRANSITIONS[s]
BY DEF FailTarget, ReapTarget, ALLOWED_TRANSITIONS, States, TERMINAL, LEASABLE

(* Each commit of a worker whose reads are still true is one call of the   *)
(* atomic queue, made at the time the worker read from its clock.          *)
LEMMA WritesRefine ==
  ASSUME WorkerInv, NEW w \in Owners, Fresh(proc[w], event_jobs), WorkerWrites(w)
  PROVE  Queue!Next \/ UNCHANGED Queue!vars
<1> DEFINE p == proc[w]
           j == p.job
           row == event_jobs[j]
<1>1. /\ p \in Local /\ LocalOK(p, clock) /\ p.now \in 0..clock /\ clock \in Nat
      /\ \A i \in JobIds : event_jobs[i] \in Row
  <2>1. /\ p \in Local /\ LocalOK(p, clock) /\ p.now \in Nat /\ clock \in Nat
        /\ \A i \in JobIds : event_jobs[i] \in Row
    BY SMTT(30) DEF WorkerInv, Tables, Workers, Local
  <2> QED BY <2>1 DEF LocalOK
<1>2. j \in JobIds
  BY <1>1 DEF WorkerWrites, ReapWrite, LeaseWrite, LeaseWriteUnhandled,
              SuccessWrite, FailWrite, At, LocalOK
<1>3. j \in Queue!JobIds
  BY <1>2, QueueOps
<1>4. CASE LeaseWrite(w)
  <2>1. /\ j \in PollNext(event_jobs, p.now) /\ p.from = row.state
    BY <1>4 DEF LeaseWrite, At, Fresh
  <2>2. row.state \in {"queued", "failed_retryable"}
    BY <2>1 DEF PollNext, IsLeasable, LEASABLE
  <2>3. LeasedRow(row, w, p.now).state = "leased"
    BY <1>1, <1>2, LeasedIsRow
  <2>4. /\ event_jobs' = [event_jobs EXCEPT ![j] = LeasedRow(row, w, p.now)]
        /\ job_transitions' = [job_transitions EXCEPT ![j] =
             Audit(@, row.state, LeasedRow(row, w, p.now).state, "lease")]
        /\ UNCHANGED <<paperclip_outbox, clock>>
    BY <1>4, <2>1 DEF LeaseWrite, Write
  <2>5. Queue!Lease(j, w, p.now)
    BY <2>1, <2>2, <2>3, <2>4, QueueOps, LeasedMayEnd DEF Queue!Lease, Queue!Transition
  <2> QED BY <1>1, <1>3, <2>5 DEF Queue!Next
<1>5. CASE SuccessWrite(w)
  <2>1. row.state = "leased" /\ p.from = row.state
    BY <1>5 DEF SuccessWrite, At, Fresh
  <2>2. Released(row, "succeeded").state = "succeeded"
    BY <1>1, <1>2, ReleasedIsRow DEF States, TERMINAL
  <2>3. /\ event_jobs' = [event_jobs EXCEPT ![j] = Released(row, "succeeded")]
        /\ job_transitions' = [job_transitions EXCEPT ![j] =
             Audit(@, row.state, Released(row, "succeeded").state, "success")]
        /\ UNCHANGED <<paperclip_outbox, clock>>
    BY <1>5, <2>1 DEF SuccessWrite, Write
  <2>4. Queue!RecordSuccess(j)
    BY <2>1, <2>2, <2>3, QueueOps, LeasedMayEnd DEF Queue!RecordSuccess, Queue!Transition
  <2> QED BY <1>3, <2>4 DEF Queue!Next
<1>6. CASE FailWrite(w)
  <2> DEFINE attempt == row.attempt_count + 1
             retries == row.retry_count + 1
  <2>1. /\ row.state = "leased" /\ p.from = row.state
        /\ p.attempt = attempt /\ p.retries = retries
    BY <1>6 DEF FailWrite, At, Fresh
  <2>2. PICK delay \in BackoffSeconds(attempt) :
          Write(j, FailedRow(row, attempt, retries, p.now, delay), row.state, "failure")
    BY <1>6, <2>1 DEF FailWrite
  <2>3. attempt \in Nat /\ retries \in Nat /\ delay \in Nat
    <3>1. attempt \in Nat /\ retries \in Nat
      BY <1>1, <1>2 DEF Row
    <3> QED BY <3>1, DelaysAreNat
  <2>4. FailedRow(row, attempt, retries, p.now, delay).state = FailTarget(attempt)
    <3>1. row \in Row /\ p.now \in Nat
      BY <1>1, <1>2
    <3> DEFINE failed == FailedRow(row, attempt, retries, p.now, delay)
    <3>2. failed \in Row /\ failed.state = FailTarget(attempt) /\ failed.state \in States
      BY <2>3, <3>1, AnyFailedIsRow, Zenon
    <3> QED BY <3>2, Zenon
  <2>5. /\ paperclip_outbox' = WriteOutboxRows(paperclip_outbox,
             IF IsLastAttempt(attempt) THEN {OutboxKey(j, p.now)} ELSE {})
        /\ UNCHANGED clock
    BY <1>6, <2>1 DEF FailWrite, Announce
  <2> DEFINE failed == FailedRow(row, attempt, retries, p.now, delay)
  <2>6. Queue!Transition(j, failed, "failure")
    <3>1. failed.state \in Queue!ALLOWED_TRANSITIONS[row.state]
      BY <2>1, <2>4, QueueOps, LeasedMayEnd
    <3> HIDE DEF failed
    <3>2. Write(j, failed, row.state, "failure")
      BY <2>2 DEF failed
    <3> QED BY <3>1, <3>2, QueueOps DEF Queue!Transition, Write
  <2>7. Queue!RecordFailure(j, p.now)
    <3>1. \E d \in Queue!BackoffSeconds(attempt) :
            Queue!Transition(j, Queue!FailedRow(row, attempt, retries, p.now, d), "failure")
      BY <2>6, QueueOps
    <3>2. paperclip_outbox' = Queue!WriteOutboxRows(paperclip_outbox,
             IF Queue!IsLastAttempt(attempt) THEN {Queue!OutboxKey(j, p.now)} ELSE {})
      BY <2>5, QueueOps
    <3> QED BY <2>5, <3>1, <3>2, Zenon DEF Queue!RecordFailure
  <2> QED BY <1>1, <1>3, <2>7 DEF Queue!Next
<1>7. CASE LeaseWriteUnhandled(w)
  <2> DEFINE attempt == row.attempt_count + 1
             retries == row.retry_count + 1
             leased == LeasedRow(row, w, p.now)
  <2>1. j \in PollNext(event_jobs, p.now) /\ p.from = row.state
    BY <1>7 DEF LeaseWriteUnhandled, At, Fresh
  <2>2. PICK delay \in BackoffSeconds(attempt) :
          event_jobs' = [event_jobs EXCEPT ![j] =
            FailedRow(LeasedRow(@, w, p.now), attempt, retries, p.now, delay)]
    BY <1>7, Zenon DEF LeaseWriteUnhandled
  <2>3. event_jobs' = [event_jobs EXCEPT ![j] =
                         FailedRow(leased, attempt, retries, p.now, delay)]
    BY <1>2, <2>2 DEF WorkerInv, Tables
  <2>4. /\ ScopeOf[j] \notin HandledScopes
        /\ job_transitions' = [job_transitions EXCEPT ![j] =
             Audit(Audit(@, row.state, "leased", "lease"),
                     "leased", FailTarget(attempt), "failure")]
        /\ paperclip_outbox' = WriteOutboxRows(paperclip_outbox,
             IF IsLastAttempt(attempt) THEN {OutboxKey(j, p.now)} ELSE {})
        /\ UNCHANGED clock
    BY <1>7, <2>1, Zenon DEF LeaseWriteUnhandled, Announce
  <2>5. Queue!FailUnhandled(j, w, p.now)
    <3>1. \E d \in Queue!BackoffSeconds(attempt) :
            event_jobs' = [event_jobs EXCEPT ![j] =
              Queue!FailedRow(Queue!LeasedRow(row, w, p.now), attempt, retries, p.now, d)]
      BY <2>3, QueueOps
    <3>2. job_transitions' = [job_transitions EXCEPT ![j] =
             Queue!Audit(Queue!Audit(@, row.state, "leased", "lease"),
                         "leased", Queue!FailTarget(attempt), "failure")]
      BY <2>4, QueueOps
    <3>3. paperclip_outbox' = Queue!WriteOutboxRows(paperclip_outbox,
             IF Queue!IsLastAttempt(attempt) THEN {Queue!OutboxKey(j, p.now)} ELSE {})
      BY <2>4, QueueOps
    <3>4. j \in Queue!PollNext(event_jobs, p.now)
      BY <2>1, QueueOps
    <3> QED BY <2>4, <3>1, <3>2, <3>3, <3>4, Zenon DEF Queue!FailUnhandled
  <2> QED BY <1>1, <1>3, <2>5 DEF Queue!Next
<1>8. CASE ReapWrite(w)
  <2>1. CASE UNCHANGED workerTables
    BY <1>8, <2>1 DEF ReapWrite, workerTables, Queue!vars
  <2>2. CASE ~UNCHANGED workerTables
    <3> DEFINE listed == DOMAIN p.rows
               attempt(i) == p.rows[i] + 1
               from(i) == IF i = p.job THEN p.from ELSE event_jobs[i].state
               tries(i) == event_jobs[i].attempt_count + 1
    <3>1. /\ listed = Expired(event_jobs, p.now) /\ listed # {}
          /\ \A i \in listed : attempt(i) = tries(i)
          /\ p.from = "leased"
      BY <1>8 DEF ReapWrite, At, Fresh
    <3>2. \A i \in listed : i \in JobIds /\ from(i) = "leased"
      BY <3>1 DEF Expired, IsExpired
    <3>3. /\ event_jobs' = [i \in JobIds |->
               IF i \in listed THEN ReapedRow(event_jobs[i], attempt(i), p.now)
                               ELSE event_jobs[i]]
          /\ job_transitions' = [i \in JobIds |->
               IF i \in listed
                 THEN Audit(job_transitions[i], from(i), ReapTarget(attempt(i)), "reap")
                 ELSE job_transitions[i]]
          /\ paperclip_outbox' = WriteOutboxRows(paperclip_outbox,
               {OutboxKey(i, p.now) : i \in {k \in listed : IsLastAttempt(attempt(k))}})
          /\ UNCHANGED clock
      BY <1>8, <2>2 DEF ReapWrite
    <3> DEFINE expired == {i \in Queue!JobIds : Queue!IsExpired(event_jobs[i], p.now)}
    <3>4. expired = listed /\ expired # {}
      BY <3>1, QueueOps DEF Expired
    <3> HIDE DEF listed, expired
    <3>5. event_jobs' = [i \in Queue!JobIds |->
            IF i \in expired THEN Queue!ReapedRow(event_jobs[i], tries(i), p.now)
                             ELSE event_jobs[i]]
      BY <3>1, <3>3, <3>4, QueueOps
    <3>6. job_transitions' = [i \in Queue!JobIds |->
            IF i \in expired
              THEN Queue!Audit(job_transitions[i], "leased", Queue!ReapTarget(tries(i)), "reap")
              ELSE job_transitions[i]]
      BY <3>1, <3>2, <3>3, <3>4, QueueOps
    <3>7. paperclip_outbox' = Queue!WriteOutboxRows(paperclip_outbox,
            {Queue!OutboxKey(i, p.now) : i \in {k \in expired : Queue!IsLastAttempt(tries(k))}})
      <4>1. {k \in expired : Queue!IsLastAttempt(tries(k))}
              = {k \in listed : IsLastAttempt(attempt(k))}
        BY <3>1, <3>4, QueueOps
      <4>2. \A S : {Queue!OutboxKey(i, p.now) : i \in S} = {OutboxKey(i, p.now) : i \in S}
        BY QueueOps
      <4> QED BY <3>3, <4>1, <4>2, QueueOps
    <3>8. Queue!ReapExpiredLeases(p.now)
      BY <3>3, <3>4, <3>5, <3>6, <3>7, Zenon DEF Queue!ReapExpiredLeases, expired
    <3> QED BY <1>1, <3>8 DEF Queue!Next
  <2> QED BY <2>1, <2>2
<1> QED BY <1>4, <1>5, <1>6, <1>7, <1>8 DEF WorkerWrites

(* A worker that is between runs holds nothing that could go stale.        *)
LEMMA IdleIsFresh ==
  ASSUME NEW p, NEW jobs, p.pc \in {"idle", "poll", "raised"}
  PROVE  Fresh(p, jobs)
BY DEF Fresh

LEMMA BecomeIs ==
  ASSUME WorkerInv, NEW w \in Owners, NEW local, Become(w, local)
  PROVE  proc'[w] = local
BY DEF WorkerInv, Workers, Become

LEMMA GuardedIsFresh ==
  ASSUME WorkerInv, NEW w \in Owners, NEW job \in JobIds, NEW target, NEW local \in Local,
         Guarded(w, job, target, local), UNCHANGED event_jobs,
         \A from \in States : from = event_jobs[job].state =>
           Fresh([local EXCEPT !.from = from], event_jobs)
  PROVE  Fresh(proc'[w], event_jobs')
<1>1. event_jobs[job].state \in States \cup {"absent"}
  BY DEF WorkerInv, Tables, Row
<1>2. CASE target \in ALLOWED_TRANSITIONS[event_jobs[job].state]
  <2>1. event_jobs[job].state \in States
    BY <1>1, <1>2, LeavableStates
  <2>2. Become(w, [local EXCEPT !.from = event_jobs[job].state])
    BY <1>2 DEF Guarded
  <2>3. proc'[w] = [local EXCEPT !.from = event_jobs[job].state]
    BY <2>2, BecomeIs
  <2> QED BY <2>1, <2>3
<1>3. CASE target \notin ALLOWED_TRANSITIONS[event_jobs[job].state]
  <2>1. Become(w, [Idle EXCEPT !.pc = "raised"])
    BY <1>3 DEF Guarded
  <2>2. proc'[w].pc = "raised"
    BY <2>1, BecomeIs DEF Idle
  <2> QED BY <2>2, IdleIsFresh
<1> QED BY <1>2, <1>3

LEMMA ReadsStayFresh ==
  ASSUME WorkerInv, NEW w \in Owners, Fresh(proc[w], event_jobs), WorkerReads(w)
  PROVE  Fresh(proc'[w], event_jobs')
<1> DEFINE p == proc[w]
<1>1. /\ p \in Local /\ LocalOK(p, clock)
      /\ \A j \in JobIds : event_jobs[j] \in Row
  BY DEF WorkerInv, Tables, Workers
<1>2. UNCHANGED event_jobs
  BY DEF WorkerReads, StartRun, ReapRead, Poll, LeaseRead, HandlerSucceeds,
         HandlerFails, FailRead, Restart, workerTables
<1>3. CASE StartRun(w)
  <2> DEFINE expired == {j \in JobIds : IsExpired(event_jobs[j], clock)}
             rows == [j \in expired |-> event_jobs[j].attempt_count]
             pc == IF expired = {} THEN "poll" ELSE "reap"
             local == [Idle EXCEPT !.now = clock, !.rows = rows, !.pc = pc]
  <2>1. Become(w, local)
    BY <1>3 DEF StartRun
  <2>2. proc'[w] = local
    BY <2>1, BecomeIs
  <2>3. local.now = clock /\ local.rows = rows /\ local.pc = pc
    BY DEF Idle
  <2> HIDE DEF local
  <2>4. CASE expired = {}
    BY <2>2, <2>3, <2>4, IdleIsFresh
  <2>5. CASE expired # {}
    BY <1>2, <2>2, <2>3, <2>5 DEF Fresh, Expired
  <2> QED BY <2>4, <2>5
<1>4. CASE ReapRead(w)
  <2>1. PICK first \in DOMAIN p.rows :
          Guarded(w, first, ReapTarget(p.rows[first] + 1),
                    [p EXCEPT !.pc = "reap_write", !.job = first])
    BY <1>4 DEF ReapRead
  <2>2. /\ DOMAIN p.rows = Expired(event_jobs, p.now) /\ DOMAIN p.rows # {}
        /\ \A j \in DOMAIN p.rows : p.rows[j] = event_jobs[j].attempt_count
    BY <1>4 DEF ReapRead, At, Fresh
  <2>3. /\ first \in JobIds /\ first \in 0..NumJobs
        /\ event_jobs[first].state = "leased"
    BY <2>2, JobRowsAssumption DEF Expired, IsExpired, JobIds
  <2> DEFINE local == [p EXCEPT !.pc = "reap_write", !.job = first]
  <2>4. local \in Local
    BY <1>1, <2>3 DEF Local, PCs
  <2>5. ASSUME NEW from, from = event_jobs[first].state
        PROVE  Fresh([local EXCEPT !.from = from], event_jobs)
    <3> DEFINE new == [local EXCEPT !.from = from]
    <3>1. new.pc = "reap_write" /\ new.from = from /\ new.now = p.now /\ new.rows = p.rows
      BY <1>1 DEF Local
    <3> HIDE DEF new
    <3>2. Fresh(new, event_jobs)
      BY <2>2, <2>3, <2>5, <3>1 DEF Fresh
    <3> QED BY <3>2 DEF new
  <2> QED BY <1>2, <2>1, <2>3, <2>4, <2>5, GuardedIsFresh
<1>5. CASE Poll(w)
  <2>1. CASE Become(w, Idle)
    <3>1. proc'[w].pc = "idle"
      BY <2>1, BecomeIs DEF Idle
    <3> QED BY <3>1, IdleIsFresh
  <2>2. ASSUME NEW j \in PollNext(event_jobs, p.now),
               Become(w, [p EXCEPT !.pc = "lease", !.job = j])
        PROVE  Fresh(proc'[w], event_jobs')
    <3>1. proc'[w] = [p EXCEPT !.pc = "lease", !.job = j]
      BY <2>2, BecomeIs
    <3>2. proc'[w].pc = "lease" /\ proc'[w].job = j /\ proc'[w].now = p.now
      BY <1>1, <3>1 DEF Local
    <3> QED BY <1>2, <3>2 DEF Fresh
  <2> QED BY <1>5, <2>1, <2>2 DEF Poll
<1>6. CASE Restart(w)
  <2>1. proc'[w].pc = "idle"
    BY <1>6, BecomeIs DEF Restart, Idle
  <2> QED BY <2>1, IdleIsFresh
<1>7. CASE LeaseRead(w)
  <2>1. p.job \in PollNext(event_jobs, p.now) /\ p.job \in JobIds
    BY <1>7 DEF LeaseRead, At, Fresh, PollNext
  <2>2. [p EXCEPT !.pc = "lease_write"] \in Local
    BY <1>1 DEF Local, PCs
  <2>3. ASSUME NEW from, from = event_jobs[p.job].state
        PROVE  Fresh([[p EXCEPT !.pc = "lease_write"] EXCEPT !.from = from], event_jobs)
    <3> DEFINE new == [[p EXCEPT !.pc = "lease_write"] EXCEPT !.from = from]
    <3>1. /\ new.pc = "lease_write" /\ new.from = from /\ new.now = p.now
          /\ new.job = p.job
      BY <1>1 DEF Local
    <3> HIDE DEF new
    <3>2. Fresh(new, event_jobs)
      BY <2>1, <2>3, <3>1 DEF Fresh
    <3> QED BY <3>2 DEF new
  <2> QED BY <1>2, <1>7, <2>1, <2>2, <2>3, GuardedIsFresh DEF LeaseRead
<1>8. CASE HandlerSucceeds(w)
  <2>1. event_jobs[p.job].state = "leased" /\ p.job \in JobIds
    BY <1>1, <1>8 DEF HandlerSucceeds, At, Fresh, LocalOK
  <2>2. [p EXCEPT !.pc = "success_write"] \in Local
    BY <1>1 DEF Local, PCs
  <2>3. ASSUME NEW from, from = event_jobs[p.job].state
        PROVE  Fresh([[p EXCEPT !.pc = "success_write"] EXCEPT !.from = from], event_jobs)
    <3> DEFINE new == [[p EXCEPT !.pc = "success_write"] EXCEPT !.from = from]
    <3>1. new.pc = "success_write" /\ new.from = from /\ new.job = p.job
      BY <1>1 DEF Local
    <3> HIDE DEF new
    <3>2. Fresh(new, event_jobs)
      BY <2>1, <2>3, <3>1 DEF Fresh
    <3> QED BY <3>2 DEF new
  <2> QED BY <1>2, <1>8, <2>1, <2>2, <2>3, GuardedIsFresh DEF HandlerSucceeds
<1>9. CASE FailRead(w)
  <2>1. /\ event_jobs[p.job].state = "leased" /\ p.job \in JobIds
        /\ p.attempt = event_jobs[p.job].attempt_count + 1
        /\ p.retries = event_jobs[p.job].retry_count + 1
    BY <1>1, <1>9 DEF FailRead, At, Fresh, LocalOK
  <2>2. [p EXCEPT !.pc = "fail_write"] \in Local
    BY <1>1 DEF Local, PCs
  <2>3. ASSUME NEW from, from = event_jobs[p.job].state
        PROVE  Fresh([[p EXCEPT !.pc = "fail_write"] EXCEPT !.from = from], event_jobs)
    <3> DEFINE new == [[p EXCEPT !.pc = "fail_write"] EXCEPT !.from = from]
    <3>1. /\ new.pc = "fail_write" /\ new.from = from /\ new.job = p.job
          /\ new.attempt = p.attempt /\ new.retries = p.retries
      BY <1>1 DEF Local
    <3> HIDE DEF new
    <3>2. Fresh(new, event_jobs)
      BY <2>1, <2>3, <3>1 DEF Fresh
    <3> QED BY <3>2 DEF new
  <2> QED BY <1>2, <1>9, <2>1, <2>2, <2>3, GuardedIsFresh DEF FailRead
<1>10. CASE HandlerFails(w)
  <2> DEFINE attempt == event_jobs[p.job].attempt_count + 1
             retries == event_jobs[p.job].retry_count + 1
             local == [p EXCEPT !.pc = "fail", !.attempt = attempt, !.retries = retries]
  <2>1. event_jobs[p.job].state = "leased"
    BY <1>10 DEF HandlerFails, At, Fresh
  <2>2. Become(w, local)
    BY <1>10 DEF HandlerFails
  <2>3. proc'[w] = local
    BY <2>2, BecomeIs
  <2>4. /\ local.pc = "fail" /\ local.job = p.job
        /\ local.attempt = attempt /\ local.retries = retries
    BY <1>1 DEF Local
  <2> HIDE DEF local
  <2> QED BY <1>2, <2>1, <2>3, <2>4 DEF Fresh
<1> QED
  BY <1>3, <1>4, <1>5, <1>6, <1>7, <1>8, <1>9, <1>10 DEF WorkerReads

LEMMA WritesStayFresh ==
  ASSUME WorkerInv, NEW w \in Owners, WorkerWrites(w)
  PROVE  Fresh(proc'[w], event_jobs')
<1> DEFINE p == proc[w]
<1>1. CASE LeaseWrite(w)
  <2>1. p \in Local /\ LocalOK(p, clock) /\ event_jobs \in [JobIds -> Row]
    BY DEF WorkerInv, Tables, Workers
  <2>2. p.job \in JobIds /\ p.now \in Nat
    BY <1>1, <2>1 DEF LeaseWrite, At, LocalOK, Local
  <2>3. event_jobs' = [event_jobs EXCEPT ![p.job] = LeasedRow(event_jobs[p.job], w, p.now)]
    BY <1>1 DEF LeaseWrite, Write
  <2>4. LeasedRow(event_jobs[p.job], w, p.now).state = "leased"
    BY <2>1, <2>2, LeasedIsRow
  <2>5. event_jobs'[p.job].state = "leased"
    BY <2>1, <2>2, <2>3, <2>4
  <2>6. proc'[w] = [p EXCEPT !.pc = "handle"]
    BY <1>1, BecomeIs DEF LeaseWrite
  <2>7. proc'[w].pc = "handle" /\ proc'[w].job = p.job
    BY <2>1, <2>6 DEF Local
  <2> QED BY <2>5, <2>7 DEF Fresh
<1>2. CASE ~LeaseWrite(w)
  <2>1. \/ Become(w, Idle)
        \/ Become(w, [Idle EXCEPT !.pc = "raised"])
        \/ Become(w, [Idle EXCEPT !.pc = "poll", !.now = p.now])
    BY <1>2 DEF WorkerWrites, ReapWrite, LeaseWriteUnhandled, SuccessWrite, FailWrite
  <2>2. /\ Idle.pc = "idle" /\ [Idle EXCEPT !.pc = "raised"].pc = "raised"
        /\ [Idle EXCEPT !.pc = "poll", !.now = p.now].pc = "poll"
    BY DEF Idle
  <2>3. proc'[w].pc \in {"idle", "poll", "raised"}
    BY <2>1, <2>2, BecomeIs
  <2> QED BY <2>3, IdleIsFresh
<1> QED BY <1>1, <1>2

(* A job that is not there is not touched by a worker whose reads are true.*)
LEMMA AbsentUntouched ==
  ASSUME WorkerInv, NEW w \in Owners, Fresh(proc[w], event_jobs), WorkerWrites(w),
         NEW i \in JobIds, event_jobs[i].state = "absent"
  PROVE  event_jobs'[i] = event_jobs[i]
<1> DEFINE p == proc[w]
<1>1. event_jobs \in [JobIds -> Row]
  BY DEF WorkerInv, Tables
<1>2. CASE ReapWrite(w)
  <2>1. i \notin DOMAIN p.rows
    BY <1>2 DEF ReapWrite, At, Fresh, Expired, IsExpired
  <2> QED BY <1>2, <2>1 DEF ReapWrite, workerTables
<1>3. CASE ~ReapWrite(w)
  <2>1. event_jobs[p.job].state # "absent"
    BY <1>3 DEF WorkerWrites, LeaseWrite, LeaseWriteUnhandled, SuccessWrite,
                FailWrite, At, Fresh, PollNext, IsLeasable, LEASABLE
  <2>2. \E new : event_jobs' = [event_jobs EXCEPT ![p.job] = new]
    BY <1>3, Zenon DEF WorkerWrites, LeaseWrite, LeaseWriteUnhandled, SuccessWrite,
                       FailWrite, Write
  <2> QED BY <1>1, <2>1, <2>2
<1> QED BY <1>2, <1>3

LEMMA OrderKept ==
  ASSUME IdsInOrder, Present,
         \A i \in JobIds : event_jobs[i].state = "absent" => event_jobs'[i] = event_jobs[i]
  PROVE  IdsInOrder'
<1> SUFFICES ASSUME NEW j \in JobIds, event_jobs'[j].state # "absent", NEW k \in 1..(j - 1)
             PROVE  event_jobs'[k].state # "absent"
  BY DEF IdsInOrder
<1>1. event_jobs[j].state # "absent"
  OBVIOUS
<1>2. k \in JobIds
  BY JobRowsAssumption DEF JobIds
<1> QED BY <1>1, <1>2 DEF IdsInOrder, Present

(* A new job changes nothing of what the worker has read: it is neither    *)
(* expired nor, with ids in order, before the job that was polled.         *)
LEMMA EnqueueStaysFresh ==
  ASSUME WorkerInv, IdsInOrder, NEW w \in Owners, Fresh(proc[w], event_jobs),
         NEW j \in JobIds, Enqueue(j)
  PROVE  IdsInOrder' /\ Fresh(proc'[w], event_jobs')
<1> DEFINE p == proc[w]
<1>1. /\ event_jobs \in [JobIds -> Row] /\ event_jobs[j].state = "absent"
      /\ event_jobs' = [event_jobs EXCEPT ![j] = QueuedRow] /\ UNCHANGED proc
      /\ \A k \in 1..(j - 1) : event_jobs[k].state # "absent"
      /\ p \in Local
  BY DEF WorkerInv, Tables, Workers, Enqueue
<1>2. /\ event_jobs'[j].state = "queued"
      /\ \A i \in JobIds : i # j => event_jobs'[i] = event_jobs[i]
  BY <1>1 DEF QueuedRow, AbsentRow
<1>3. IdsInOrder'
  <2> SUFFICES ASSUME NEW i \in JobIds, event_jobs'[i].state # "absent", NEW k \in 1..(i - 1)
               PROVE  event_jobs'[k].state # "absent"
    BY DEF IdsInOrder
  <2>1. k \in JobIds
    BY JobRowsAssumption DEF JobIds
  <2>2. CASE i = j
    <3>1. k # j
      BY <2>2 DEF JobIds
    <3> QED BY <1>1, <1>2, <2>1, <2>2, <3>1
  <2>3. CASE i # j
    BY <1>2, <2>1, <2>3 DEF IdsInOrder
  <2> QED BY <2>2, <2>3
<1>4. Expired(event_jobs', p.now) = Expired(event_jobs, p.now)
  BY <1>1, <1>2 DEF Expired, IsExpired
<1>5. \A i \in Expired(event_jobs, p.now) : event_jobs'[i] = event_jobs[i]
  BY <1>1, <1>2 DEF Expired, IsExpired
<1>6. ASSUME NEW i \in PollNext(event_jobs, p.now)
      PROVE  i \in PollNext(event_jobs', p.now) /\ event_jobs'[i] = event_jobs[i]
  <2>1. /\ i \in JobIds /\ IsLeasable(event_jobs[i], p.now)
        /\ \A k \in 1..(i - 1) : ~IsLeasable(event_jobs[k], p.now)
    BY DEF PollNext
  <2>2. event_jobs[i].state # "absent"
    BY <2>1 DEF IsLeasable, LEASABLE
  <2>3. event_jobs'[i] = event_jobs[i]
    BY <1>1, <1>2, <2>1, <2>2
  <2>4. \A k \in 1..(i - 1) : k \in JobIds /\ event_jobs[k].state # "absent"
    BY <2>1, <2>2, JobRowsAssumption DEF IdsInOrder, JobIds
  <2>5. \A k \in 1..(i - 1) : event_jobs'[k] = event_jobs[k]
    BY <1>1, <1>2, <2>4
  <2> QED BY <2>1, <2>3, <2>5 DEF PollNext
<1>7. ASSUME NEW i \in JobIds, event_jobs[i].state = "leased"
      PROVE  event_jobs'[i] = event_jobs[i]
  BY <1>1, <1>2, <1>7
<1>8. p.pc \notin {"idle", "reap", "poll", "raised"} => p.job \in JobIds
  BY DEF WorkerInv, Workers, LocalOK
<1>9. Fresh(p, event_jobs')
  <2>1. p.pc \in {"reap", "reap_write"} =>
          /\ DOMAIN p.rows = Expired(event_jobs', p.now) /\ DOMAIN p.rows # {}
          /\ \A i \in DOMAIN p.rows : p.rows[i] = event_jobs'[i].attempt_count
    BY <1>4, <1>5 DEF Fresh
  <2>2. p.pc \in {"lease", "lease_write"} =>
          p.job \in PollNext(event_jobs', p.now) /\ event_jobs'[p.job] = event_jobs[p.job]
    BY <1>6 DEF Fresh
  <2>3. p.pc \in {"handle", "success_write", "fail", "fail_write"} =>
          event_jobs'[p.job] = event_jobs[p.job]
    BY <1>7, <1>8 DEF Fresh
  <2> QED BY <2>1, <2>2, <2>3 DEF Fresh
<1> QED BY <1>1, <1>3, <1>9

FreshInv(w) == IdsInOrder /\ Fresh(proc[w], event_jobs)

LEMMA RunStaysFresh ==
  ASSUME WorkerInv, NEW w \in Owners, FreshInv(w), WorkerReads(w) \/ WorkerWrites(w)
  PROVE  FreshInv(w)'
<1>1. IdsInOrder /\ Fresh(proc[w], event_jobs)
  BY DEF FreshInv
<1>2. CASE WorkerReads(w)
  <2>1. UNCHANGED event_jobs
    BY <1>2 DEF WorkerReads, StartRun, ReapRead, Poll, LeaseRead,
                HandlerSucceeds, HandlerFails, FailRead, Restart, workerTables
  <2>2. Fresh(proc'[w], event_jobs')
    BY <1>1, <1>2, ReadsStayFresh
  <2> QED BY <1>1, <2>1, <2>2, SMTT(30) DEF FreshInv, IdsInOrder
<1>3. CASE WorkerWrites(w)
  <2>1. Fresh(proc'[w], event_jobs')
    BY <1>3, WritesStayFresh
  <2>2. Present
    BY <1>3, WritesPresent
  <2>3. \A i \in JobIds : event_jobs[i].state = "absent" => event_jobs'[i] = event_jobs[i]
    BY <1>1, <1>3, AbsentUntouched
  <2> QED BY <1>1, <2>1, <2>2, <2>3, OrderKept DEF FreshInv
<1> QED BY <1>2, <1>3

LEMMA EndedIsFresh ==
  ASSUME WorkerInv, NEW w \in Owners, FreshInv(w), Crash(w) \/ WorkerLockedOut(w)
  PROVE  FreshInv(w)'
<1>1. UNCHANGED event_jobs
  BY DEF Crash, WorkerLockedOut, workerTables
<1>2. Become(w, Idle) \/ Become(w, [Idle EXCEPT !.pc = "raised"])
  BY DEF Crash, WorkerLockedOut, Become
<1>3. proc'[w].pc \in {"idle", "raised"}
  <2>1. Idle.pc = "idle" /\ [Idle EXCEPT !.pc = "raised"].pc = "raised"
    BY DEF Idle
  <2> QED BY <1>2, <2>1, BecomeIs
<1> QED BY <1>1, <1>3, IdleIsFresh DEF FreshInv, IdsInOrder

LEMMA InitIsFresh == ASSUME NEW w \in Owners PROVE WorkerInit => FreshInv(w)
<1> SUFFICES ASSUME WorkerInit PROVE FreshInv(w)
  OBVIOUS
<1>1. \A j \in JobIds : event_jobs[j].state = "absent"
  BY DEF WorkerInit, AbsentRow
<1>2. proc[w].pc = "idle"
  BY DEF WorkerInit, Idle
<1> QED BY <1>1, <1>2, IdleIsFresh DEF FreshInv, IdsInOrder

LEMMA EnqueueRefines == ASSUME NEW j \in JobIds, Enqueue(j) PROVE Queue!Next
<1>1. Queue!Enqueue(j)
  BY QueueOps DEF Enqueue, Queue!Enqueue
<1> QED BY <1>1, QueueOps DEF Queue!Next

LEMMA TickRefines == Tick => Queue!Next
BY DEF Tick, SomeRowWaits, JobIds, workerTables, Queue!Tick, Queue!SomeRowWaits,
       Queue!JobIds, Queue!Next

(* The relay's commit is the queue's MarkDelivered of the pending rows it  *)
(* wrote, or changes nothing.                                              *)
LEMMA RelayRefines ==
  ASSUME WorkerInv, NEW r \in Relays, RelayStep(r)
  PROVE  Queue!Next \/ UNCHANGED Queue!vars
<1>1. UNCHANGED <<event_jobs, job_transitions, clock>>
  BY RelayTouches DEF workerVars
<1>2. paperclip_outbox \in [DOMAIN paperclip_outbox -> {"pending", "delivered"}]
  BY DEF WorkerInv, Tables
<1>3. CASE UNCHANGED paperclip_outbox
  BY <1>1, <1>3 DEF Queue!vars
<1>4. CASE paperclip_outbox' = [k \in DOMAIN paperclip_outbox |->
                 IF k \in relay[r].written THEN "delivered" ELSE paperclip_outbox[k]]
  <2> DEFINE keys == {k \in DOMAIN paperclip_outbox :
                        k \in relay[r].written /\ paperclip_outbox[k] = "pending"}
  <2>1. paperclip_outbox' = [k \in DOMAIN paperclip_outbox |->
                               IF k \in keys THEN "delivered" ELSE paperclip_outbox[k]]
    BY <1>2, <1>4
  <2>2. CASE keys = {}
    BY <1>1, <1>2, <2>1, <2>2 DEF Queue!vars
  <2>3. CASE keys # {}
    <3>1. Queue!MarkDelivered(keys)
      BY <1>1, <2>1, <2>3 DEF Queue!MarkDelivered
    <3>2. keys \in SUBSET {k \in DOMAIN paperclip_outbox : paperclip_outbox[k] = "pending"}
      OBVIOUS
    <3> QED BY <3>1, <3>2 DEF Queue!Next
  <2> QED BY <2>2, <2>3
<1> QED BY <1>3, <1>4, RelayTouches

LEMMA QueueInit == WorkerInit => Queue!Init
BY QueueOps DEF WorkerInit, Queue!Init

(* With one worker, the whole plane (ingress, worker, relay and their one  *)
(* lock, kills and stale clocks included) is the atomic queue: every call  *)
(* of job_queue.py looks as if it ran alone in its transaction.            *)
THEOREM LoneWorkerIsAtomic ==
  ASSUME NEW w, Owners = {w}
  PROVE  Spec => ImplementsJobQueue
<1> DEFINE Inv == PlaneInv /\ FreshInv(w)
<1>1. w \in Owners
  OBVIOUS
<1>2. Init => Inv /\ Queue!Init
  <2> SUFFICES ASSUME Init PROVE Inv /\ Queue!Init
    OBVIOUS
  <2>1. WorkerInit /\ IngressInit /\ job_envelope = <<>>
    BY DEF Init, IngressInit
  <2> QED BY <1>1, <2>1, WorkerStarts, IngressStarts, InitIsFresh, QueueInit DEF PlaneInv, Stored
<1>3. Inv /\ [Next]_vars => Inv' /\ [Queue!Next]_(Queue!vars)
  <2> SUFFICES ASSUME Inv, [Next]_vars PROVE FreshInv(w)' /\ [Queue!Next]_(Queue!vars)
    BY PlaneNext
  <2>1. WorkerInv /\ FreshInv(w) /\ Fresh(proc[w], event_jobs) /\ IdsInOrder
    BY DEF PlaneInv, FreshInv
  <2>2. ASSUME UNCHANGED <<event_jobs, proc>> PROVE FreshInv(w)'
    BY <2>1, <2>2 DEF FreshInv, IdsInOrder
  <2>3. CASE IngressStep
    <3>1. CASE IngressInsert
      <4>1. \/ UNCHANGED <<event_jobs, workerVars, paperclip_outbox>>
            \/ /\ job_envelope' # job_envelope
               /\ Len(job_envelope) < NumJobs /\ Enqueue(Len(job_envelope) + 1)
        BY <3>1 DEF IngressInsert
      <4>2. CASE UNCHANGED <<event_jobs, workerVars, paperclip_outbox>>
        BY <2>2, <4>2 DEF workerVars, Queue!vars
      <4>3. CASE Len(job_envelope) < NumJobs /\ Enqueue(Len(job_envelope) + 1)
        <5>1. Len(job_envelope) \in Nat
          BY DEF PlaneInv, IngressInv, OneEach
        <5>2. Len(job_envelope) + 1 \in JobIds
          BY <4>3, <5>1, JobRowsAssumption DEF JobIds
        <5> QED BY <1>1, <2>1, <4>3, <5>2, EnqueueStaysFresh, EnqueueRefines DEF FreshInv
      <4> QED BY <4>1, <4>2, <4>3
    <3>2. CASE ~IngressInsert
      <4>1. UNCHANGED <<event_jobs, paperclip_outbox, workerVars>>
        BY <2>3, <3>2 DEF IngressStep
      <4> QED BY <2>2, <4>1 DEF workerVars, Queue!vars
    <3> QED BY <3>1, <3>2
  <2>4. CASE WorkerReads(w) \/ WorkerWrites(w)
    BY <1>1, <2>1, <2>4, RunStaysFresh, ReadsStutter, WritesRefine
  <2>5. CASE Crash(w) \/ WorkerLockedOut(w)
    BY <1>1, <2>1, <2>5, EndedIsFresh, ReadsStutter
  <2>6. ASSUME NEW r \in Relays, RelayStep(r)
        PROVE  FreshInv(w)' /\ [Queue!Next]_(Queue!vars)
    <3>1. UNCHANGED <<event_jobs, proc>>
      BY <2>6, RelayTouches DEF workerVars
    <3> QED BY <2>1, <2>2, <2>6, <3>1, RelayRefines
  <2>7. CASE TimePasses
    <3>1. Tick /\ UNCHANGED <<event_jobs, proc>>
      BY <2>7 DEF TimePasses, Tick, workerTables
    <3> QED BY <2>2, <3>1, TickRefines
  <2>8. CASE UNCHANGED vars
    BY <2>2, <2>8 DEF vars, workerVars, Queue!vars
  <2>9. ASSUME NEW v \in Owners, WorkerStep(v) \/ WorkerLockedOut(v) \/ WorkerKilled(v)
        PROVE  WorkerReads(w) \/ WorkerWrites(w) \/ Crash(w) \/ WorkerLockedOut(w)
    <3>1. v = w
      OBVIOUS
    <3> QED BY <2>9, <3>1 DEF WorkerStep, WorkerKilled
  <2> QED BY <2>3, <2>4, <2>5, <2>6, <2>7, <2>8, <2>9 DEF Next
<1> HIDE DEF Inv
<1> QED BY <1>2, <1>3, PTL DEF Spec, ImplementsJobQueue, Queue!Spec
=============================================================================
