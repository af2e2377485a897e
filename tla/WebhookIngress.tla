--------------------------- MODULE WebhookIngress ---------------------------
(***************************************************************************)
(* scripts/webhook_ingress.py process_request with insert_envelope and     *)
(* enqueue_job.  One HTTPServer thread serves one request at a time; the   *)
(* senders are external: they may send anything, again, late, and not see  *)
(* the answer.                                                             *)
(***************************************************************************)
EXTENDS Integers, Sequences, FiniteSets

CONSTANTS
  Sources,      \* source keys, registered ones and others
  Registered,   \* the rows of webhook_sources
  Bodies,       \* raw request bodies
  Malformed,    \* the bodies without event_kind, source_ref, policy_version
  FreshnessS,   \* freshness_s
  MaxClock,     \* the clock and the timestamps run 0..MaxClock (bound)
  MaxHits,      \* dedupe hits counted per key, this many or more (bound)
  MaxOutages,   \* kills, locked-database errors and lost answers (bound)
  NoRequest

ASSUME IngressAssumption ==
  /\ Registered \subseteq Sources /\ Malformed \subseteq Bodies
  /\ {FreshnessS, MaxClock, MaxHits, MaxOutages} \subseteq Nat
  /\ IsFiniteSet(Sources) /\ IsFiniteSet(Bodies)

\* signed: the signature header is the HMAC of this body under the secret of
\* this source.
Requests == [source: Sources, body: Bodies, timestamp: 0..MaxClock, signed: BOOLEAN]

ASSUME NoRequestAssumption == NoRequest \notin Requests

VARIABLES
  active,             \* webhook_sources with active = 1
  server,             \* the request being served and where it stands
  event_envelopes,    \* rows in id order: the dedupe material and the request's time
  event_dedupe_hits,  \* dedupe material -> rows
  job_envelope,       \* event_jobs.envelope_id, in job id order
  accepted,           \* <<source, body>> of the requests whose 202 arrived
  ingress_clock, outages

ingressTables == <<event_envelopes, event_dedupe_hits, job_envelope>>
ingressVars == <<active, server, ingressTables, accepted, ingress_clock, outages>>

\* compute_dedupe_key: event_kind, source_ref and policy_version are fields of
\* the body, whose hash is part of the material.
DedupeKey(req) == <<req.source, req.body>>
DedupeKeys == Sources \X Bodies

IdleServer == [pc |-> "idle", req |-> NoRequest]

IngressInit ==
  /\ active = Registered
  /\ server = IdleServer
  /\ event_envelopes = <<>>
  /\ event_dedupe_hits = [k \in DedupeKeys |-> 0]
  /\ job_envelope = <<>>
  /\ accepted = {}
  /\ ingress_clock = 0
  /\ outages = 0

-----------------------------------------------------------------------------
\* Mutant of Verified: a request must be older than the clock.
VerifiedLate(req) ==
  /\ req.source \in active
  /\ ingress_clock - req.timestamp <= FreshnessS
  /\ req.timestamp < ingress_clock
  /\ req.signed

\* _verify: the source is registered and active, the timestamp within the
\* window on either side, the signature the expected one.
Verified(req) ==
  /\ req.source \in Registered
  /\ req.source \in active
  /\ ingress_clock - req.timestamp <= FreshnessS
  /\ req.timestamp - ingress_clock <= FreshnessS
  /\ req.signed

\* A 401 or a 400 ends the request with nothing written.
Verify(req) ==
  /\ server.pc = "idle"
  /\ server' = IF Verified(req) /\ req.body \notin Malformed
                 THEN [pc |-> "insert", req |-> req] ELSE server
  /\ UNCHANGED <<active, ingressTables, accepted, ingress_clock, outages>>

\* insert_envelope, enqueue_job if it was new, one commit.
Known(key) == \E i \in DOMAIN event_envelopes : event_envelopes[i] = key
InsertNew(req) ==
  /\ ~Known(DedupeKey(req))
  /\ event_envelopes' = Append(event_envelopes, DedupeKey(req))
  /\ job_envelope' = Append(job_envelope, Len(event_envelopes) + 1)
  /\ UNCHANGED event_dedupe_hits
\* Mutant of InsertDuplicate: a known event is given a job again.
InsertDuplicateEnqueues(req) ==
  /\ Known(DedupeKey(req))
  /\ job_envelope' = Append(job_envelope,
       CHOOSE i \in DOMAIN event_envelopes : event_envelopes[i] = DedupeKey(req))
  /\ UNCHANGED <<event_envelopes, event_dedupe_hits>>
InsertDuplicate(req) ==
  /\ Known(DedupeKey(req))
  /\ event_dedupe_hits' = [event_dedupe_hits EXCEPT
       ![DedupeKey(req)] = IF @ < MaxHits THEN @ + 1 ELSE @]
  /\ UNCHANGED <<event_envelopes, job_envelope>>

Insert ==
  /\ server.pc = "insert"
  /\ InsertNew(server.req) \/ InsertDuplicate(server.req)
  /\ server' = [server EXCEPT !.pc = "reply"]
  /\ UNCHANGED <<active, accepted, ingress_clock, outages>>

Reply ==
  /\ server.pc = "reply"
  /\ accepted' = accepted \cup {<<server.req.source, server.req.body>>}
  /\ server' = IdleServer
  /\ UNCHANGED <<active, ingressTables, ingress_clock, outages>>

\* Before the commit: a kill, or "database is locked" (the handler raises and
\* the connection closes).  After it: the answer is lost.
Outage ==
  /\ server.pc # "idle"
  /\ outages < MaxOutages
  /\ outages' = outages + 1
  /\ server' = IdleServer
  /\ UNCHANGED <<active, ingressTables, accepted, ingress_clock>>

\* The operator sets the registry flag; time passes.
Flip(source) ==
  /\ active' = IF source \in active THEN active \ {source} ELSE active \cup {source}
  /\ UNCHANGED <<server, ingressTables, accepted, ingress_clock, outages>>

TickIngress ==
  /\ ingress_clock < MaxClock
  /\ ingress_clock' = ingress_clock + 1
  /\ UNCHANGED <<active, server, ingressTables, accepted, outages>>

IngressNext ==
  \/ \E req \in Requests : Verify(req)
  \/ Insert \/ Reply \/ Outage
  \/ \E source \in Registered : Flip(source)
  \/ TickIngress

IngressSpec == IngressInit /\ [][IngressNext]_ingressVars

\* The server keeps serving, and a sender that means to deliver the event k
\* keeps signing and sending it until it sees a 202.
Delivers(k) ==
  /\ k \notin accepted
  /\ Verify([source |-> k[1], body |-> k[2], timestamp |-> ingress_clock, signed |-> TRUE])
  /\ server' # server
IngressFairSpec ==
  /\ IngressSpec /\ WF_ingressVars(Insert) /\ WF_ingressVars(Reply)
  /\ \A k \in DedupeKeys : SF_ingressVars(Delivers(k))

-----------------------------------------------------------------------------
\* The tables refer to keys and envelopes that exist.
IngressTypeOK ==
  /\ active \subseteq Registered
  /\ server \in {IdleServer} \cup [pc: {"insert", "reply"}, req: Requests]
  /\ event_envelopes \in Seq(DedupeKeys)
  /\ event_dedupe_hits \in [DedupeKeys -> 0..MaxHits]
  /\ job_envelope \in Seq(DOMAIN event_envelopes)
  /\ accepted \subseteq DedupeKeys
  /\ ingress_clock \in 0..MaxClock /\ outages \in 0..MaxOutages

\* However often an event is delivered, it is one envelope and one job, and no
\* job lacks its envelope: retries and replays make no work twice.
ExactlyOneJob ==
  /\ \A i, j \in DOMAIN event_envelopes :
       event_envelopes[i] = event_envelopes[j] => i = j
  /\ \A i \in DOMAIN event_envelopes :
       Cardinality({n \in DOMAIN job_envelope : job_envelope[n] = i}) = 1

\* A sender that retries with a fresh signature is heard in the end, unless its
\* source keeps being deactivated.
EventHeard ==
  \A k \in DedupeKeys :
    (/\ k[1] \in Registered /\ k[2] \notin Malformed
     /\ <>[](k[1] \in active)) => <>(k \in accepted)
=============================================================================
