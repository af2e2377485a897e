---------------------------- MODULE OutboxRelay ----------------------------
(***************************************************************************)
(* scripts/paperclip_outbox.py: writers add rows with INSERT OR IGNORE,    *)
(* relay() reads the pending ones, POSTs one message per umbrella and      *)
(* commits once, after the last group.  Paperclip itself is external: what *)
(* matters of it is how often it received each row.                        *)
(***************************************************************************)
EXTENDS Integers, FiniteSets

CONSTANTS
  Keys,         \* dedupe keys of the rows that may be written
  Umbrellas, UmbrellaOf,
  Relays,       \* processes that may run relay(apply=True)
  NoRelay,
  MaxFailures   \* failed POSTs, lock timeouts and kills (bound)

ASSUME OutboxRelayAssumption ==
  /\ UmbrellaOf \in [Keys -> Umbrellas]
  /\ MaxFailures \in Nat
  /\ NoRelay \notin Relays

VARIABLES
  paperclip_outbox,  \* key -> state of its row, for the rows that exist
  received,          \* key -> how many POSTs carried it to Paperclip
  relay,             \* process -> its local state
  lock,              \* which relay holds the SQLite write lock
  failures

vars == <<paperclip_outbox, received, relay, lock, failures>>

\* rows: the snapshot pending_by_umbrella returned; left: the umbrellas still
\* to POST; written: rows updated in the open transaction.
Idle == [pc |-> "idle", rows |-> {}, left |-> {}, group |-> {}, written |-> {}]

Pending == {k \in DOMAIN paperclip_outbox : paperclip_outbox[k] = "pending"}

Init ==
  /\ paperclip_outbox = [k \in {} |-> "pending"]
  /\ received = [k \in Keys |-> 0]
  /\ relay = [r \in Relays |-> Idle]
  /\ lock = NoRelay
  /\ failures = 0

-----------------------------------------------------------------------------
\* write_outbox_row, committed with whatever its caller wrote: it needs the
\* write lock, and an existing row (delivered or not) is left alone.
WriteOutboxRow(k) ==
  /\ lock = NoRelay
  /\ paperclip_outbox' = [i \in DOMAIN paperclip_outbox \cup {k} |->
       IF i \in DOMAIN paperclip_outbox THEN paperclip_outbox[i] ELSE "pending"]
  /\ UNCHANGED <<received, relay, lock, failures>>

\* pending_by_umbrella
Start(r) ==
  /\ relay[r].pc = "idle"
  /\ Pending # {}
  /\ relay' = [relay EXCEPT ![r] =
       [Idle EXCEPT !.pc = "post", !.rows = Pending,
                    !.left = {UmbrellaOf[k] : k \in Pending}]]
  /\ UNCHANGED <<paperclip_outbox, received, lock, failures>>

\* One POST per umbrella, carrying the snapshot's rows of that umbrella.
Group(r, u) == {k \in relay[r].rows : UmbrellaOf[k] = u}
Receive(rows) ==
  received' = [k \in Keys |-> received[k] + (IF k \in rows THEN 1 ELSE 0)]

Post(r) ==
  /\ relay[r].pc = "post"
  /\ \E u \in relay[r].left :
       /\ Receive(Group(r, u))
       /\ relay' = [relay EXCEPT ![r].pc = "update", ![r].group = Group(r, u),
                                 ![r].left = @ \ {u}]
  /\ UNCHANGED <<paperclip_outbox, lock, failures>>

\* The first UPDATE takes the write lock, and the loop keeps it: the next POST
\* happens inside the open transaction.
Update(r) ==
  /\ relay[r].pc = "update"
  /\ lock \in {NoRelay, r}
  /\ lock' = r
  /\ relay' = [relay EXCEPT
       ![r].pc = IF relay[r].left = {} THEN "commit" ELSE "post",
       ![r].written = @ \cup relay[r].group, ![r].group = {}]
  /\ UNCHANGED <<paperclip_outbox, received, failures>>

\* Mutants of Commit: every pending row is marked; the rows get a state that no
\* reader knows.
CommitEverything(r) ==
  /\ relay[r].pc = "commit"
  /\ paperclip_outbox' = [k \in DOMAIN paperclip_outbox |-> "delivered"]
  /\ lock' = NoRelay
  /\ relay' = [relay EXCEPT ![r] = Idle]
  /\ UNCHANGED <<received, failures>>
CommitSent(r) ==
  /\ relay[r].pc = "commit"
  /\ paperclip_outbox' = [k \in DOMAIN paperclip_outbox |->
       IF k \in relay[r].written THEN "sent" ELSE paperclip_outbox[k]]
  /\ lock' = NoRelay
  /\ relay' = [relay EXCEPT ![r] = Idle]
  /\ UNCHANGED <<received, failures>>

Commit(r) ==
  /\ relay[r].pc = "commit"
  /\ paperclip_outbox' = [k \in DOMAIN paperclip_outbox |->
       IF k \in relay[r].written THEN "delivered" ELSE paperclip_outbox[k]]
  /\ lock' = NoRelay
  /\ relay' = [relay EXCEPT ![r] = Idle]
  /\ UNCHANGED <<received, failures>>

\* Leaving relay() by an exception or a kill: the connection closes and the
\* open transaction is rolled back.
Abort(r) ==
  /\ failures < MaxFailures
  /\ failures' = failures + 1
  /\ lock' = IF lock = r THEN NoRelay ELSE lock
  /\ relay' = [relay EXCEPT ![r] = Idle]
  /\ UNCHANGED paperclip_outbox

\* urlopen raised: the message was lost, or only its answer was.
PostFails(r) ==
  /\ relay[r].pc = "post"
  /\ \E u \in relay[r].left : UNCHANGED received \/ Receive(Group(r, u))
  /\ Abort(r)

\* "database is locked" after the busy timeout.
LockTimeout(r) ==
  /\ relay[r].pc = "update"
  /\ lock \notin {NoRelay, r}
  /\ UNCHANGED received
  /\ Abort(r)

Kill(r) ==
  /\ relay[r].pc # "idle"
  /\ UNCHANGED received
  /\ Abort(r)

Relay(r) == Start(r) \/ Post(r) \/ Update(r) \/ Commit(r)
Fail(r)  == PostFails(r) \/ LockTimeout(r) \/ Kill(r)

Next ==
  \/ \E k \in Keys : WriteOutboxRow(k)
  \/ \E r \in Relays : Relay(r) \/ Fail(r)

Spec == Init /\ [][Next]_vars

\* The compose loop runs relay again and again, and a POST returns or times
\* out after 30 s.
FairSpec == Spec /\ \A r \in Relays : WF_vars(Relay(r))

-----------------------------------------------------------------------------
\* The tables and the locals hold what the code can put there.
TypeOK ==
  /\ DOMAIN paperclip_outbox \subseteq Keys
  /\ \A k \in DOMAIN paperclip_outbox :
       paperclip_outbox[k] \in {"pending", "delivered"}
  /\ received \in [Keys -> Nat]
  /\ lock \in Relays \cup {NoRelay}
  /\ failures \in 0..MaxFailures
  /\ relay \in [Relays ->
       [pc: {"idle", "post", "update", "commit"}, rows: SUBSET Keys,
        left: SUBSET Umbrellas, group: SUBSET Keys, written: SUBSET Keys]]

\* A row is marked delivered only if Paperclip received it: a row written
\* while a relay was posting is not swept up by that relay's commit.
DeliveredWasReceived ==
  \A k \in DOMAIN paperclip_outbox :
    paperclip_outbox[k] = "delivered" => received[k] > 0

\* A row once written is delivered in the end, whatever failed on the way.
EveryRowDelivered ==
  \A k \in Keys :
    (k \in Pending) ~> (k \in DOMAIN paperclip_outbox /\ paperclip_outbox[k] = "delivered")

\* relay: "each umbrella group posts once", "re-running is idempotent".
PostedOnce == \A k \in Keys : received[k] <= 1
=============================================================================
