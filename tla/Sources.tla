------------------------------ MODULE Sources ------------------------------
(***************************************************************************)
(* What happens when a crawled source changes: each retrieval is preserved *)
(* as a version (source_version_store), two versions are compared and the  *)
(* difference stored by anchor (stage5_source_diff), and the records at    *)
(* the anchors that changed are marked (stage5_affected_set).              *)
(*                                                                         *)
(* One source, an agenda: its content is what it says of each item, its    *)
(* records are the statements anchored to the items and the reviewers'     *)
(* decisions on them (evidence links and aliases are found like the        *)
(* statements).  Each tool reads before it takes the write lock: a         *)
(* retrieval, a pair to compare or a resolved set may be acted on after    *)
(* others have changed what it was read from, and a set is resolved one    *)
(* segment after another.                                                  *)
(***************************************************************************)
EXTENDS Integers, Sequences, FiniteSets

CONSTANTS
    Items,       \* agenda items
    Wordings,    \* what the source may say of an item; "none" if nothing
    Statements,  \* the statements that get anchored to items
    Tools,       \* processes
    Meetings,    \* when the meeting is, as a caller may have it
    MEETING_PROXIMITY_WINDOW,
    MaxVersions, \* bound on the versions
    MaxClock     \* bound on the instants told apart

ASSUME SourcesAssumption ==
    /\ "none" \in Wordings
    /\ Meetings \subseteq Nat \ {0}
    /\ {MEETING_PROXIMITY_WINDOW, MaxVersions, MaxClock} \subseteq Nat

VARIABLES
    versions, \* source_versions by ordinal: [content, time]
    changes,  \* source_version_changes: [old, new, segments, basis], and the
              \* time of the meeting its detection was given
    ledger,   \* source_change_affected_records: [old, new, segment, record], and when
              \* the segment was looked up
    runs,     \* completed invalidations: [old, new], and when their reads began
    place,    \* where each statement is anchored, and since when: [item, at]
    decided,  \* when a reviewer first decided on each statement, 0 if none did
    notified, \* when users were notified of the source, 0 if they were not; whoever
              \* compares versions passes it
    proc,     \* what each tool has in hand
    clock

vars == <<versions, changes, ledger, runs, place, decided, notified, proc, clock>>

Contents == [Items -> Wordings]
Attachment == "attachment"   \* the anchor that stands for the whole source
Unresolved == "unresolved"
Never == 0
Idle == [pc |-> "idle"]

Tick == clock < MaxClock /\ clock' = clock + 1
Hold(t, work) == proc' = [proc EXCEPT ![t] = work]
At(t, pc) == proc[t].pc = pc

-----------------------------------------------------------------------------
(* Versions.                                                               *)

\* The caller's fetch: what the source says now, and when.
Retrieve(t, c) ==
    /\ At(t, "idle")
    /\ Len(versions) < MaxVersions \/ \E i \in DOMAIN versions : versions[i].content = c
    /\ Tick
    /\ Hold(t, [pc |-> "fetched", content |-> c, time |-> clock + 1])
    /\ UNCHANGED <<versions, changes, ledger, runs, place, decided, notified>>

\* One BEGIN IMMEDIATE transaction.  A content that the source has ever had is
\* no new version, the one before the last included; the ordinals follow the
\* order of the commits, whatever the retrieval times.
preserve_source_version(t) ==
    LET v == [content |-> proc[t].content, time |-> proc[t].time] IN
    /\ At(t, "fetched")
    /\ IF \E i \in DOMAIN versions : versions[i].content = v.content
       THEN UNCHANGED versions
       ELSE Len(versions) < MaxVersions /\ versions' = Append(versions, v)
    /\ Hold(t, Idle)
    /\ UNCHANGED <<changes, ledger, runs, place, decided, notified, clock>>

-----------------------------------------------------------------------------
(* Changes.                                                                *)

\* Contents that differ somewhere differ at some anchor; if the caller does
\* not give them by anchor, the whole source is the one segment.
compute_segments(a, b) == {i \in Items : a[i] # b[i]}
Segments(old, new, structured) ==
    IF structured THEN compute_segments(versions[old].content, versions[new].content)
    ELSE {Attachment}

\* Two rules, of which the first that fires wins: the version came after users
\* were told of the prior one, or close to the meeting, or after it.
Lateness(time, after, meeting) ==
    CASE after # Never /\ time > after -> "after_notified"
      [] /\ ~(after # Never /\ time > after)
         /\ meeting # Never /\ time >= meeting - MEETING_PROXIMITY_WINDOW -> "meeting_proximity"
      [] OTHER -> "none"

\* A mutant of the next: the retrieval compared is the old version's.
LateByTheOld(old, new, after, meeting) == Lateness(versions[old].time, after, meeting)
derive_lateness(old, new, after, meeting) == Lateness(versions[new].time, after, meeting)

\* detect_and_store up to its transaction: a pair is chosen (the latest two, or
\* by id); the contents, the time of the notification and, if the caller has
\* it, the time of the meeting are arguments.
ReadPair(t, old, new, structured, meeting) ==
    /\ At(t, "idle") /\ old < new
    /\ Hold(t, [pc |-> "compared", old |-> old, new |-> new, meeting |-> meeting,
                segments |-> Segments(old, new, structured),
                basis |-> derive_lateness(old, new, notified, meeting)])
    /\ UNCHANGED <<versions, changes, ledger, runs, place, decided, notified, clock>>

SamePair(x, y) == x.old = y.old /\ x.new = y.new

\* The transaction: a pair is stored once.  Another difference of it raises.
detect_and_store(t) ==
    LET found == [f \in {"old", "new", "segments", "basis", "meeting"} |-> proc[t][f]] IN
    /\ At(t, "compared")
    /\ changes' = IF \E c \in changes : SamePair(c, found) THEN changes
                  ELSE changes \cup {found}
    /\ Hold(t, Idle)
    /\ UNCHANGED <<versions, ledger, runs, place, decided, notified, clock>>

Notify ==
    /\ notified = Never /\ versions # <<>>
    /\ Tick
    /\ notified' = clock + 1
    /\ UNCHANGED <<versions, changes, ledger, runs, place, decided, proc>>

-----------------------------------------------------------------------------
(* The affected set.                                                       *)

\* An item's statements, or, for the whole source, those of all its items.
Located(segment) ==
    {s \in Statements : place[s].item \in (IF segment = Attachment THEN Items ELSE {segment})}

_reviews_for_statements(S) == {<<"decision", s>> : s \in {x \in S : decided[x] # Never}}

Resolved(segment) ==
    {<<"statement", s>> : s \in Located(segment)} \cup _reviews_for_statements(Located(segment))

\* A mutant of the next: a segment that finds nothing leaves no row.
DroppedIfEmpty(segment, at) ==
    {[segment |-> segment, record |-> r, at |-> at] : r \in Resolved(segment)}
\* What a segment affects; a flag if that is nothing.
RowsOf(segment, at) ==
    {[segment |-> segment, record |-> r, at |-> at] :
        r \in IF Resolved(segment) = {} THEN {<<Unresolved, segment>>} ELSE Resolved(segment)}

\* invalidate up to its first INSERT reads segment by segment, here in any
\* order; the segments themselves never change.
Locate(t, w, segment) ==
    Hold(t, [pc |-> "resolving", old |-> w.old, new |-> w.new, at |-> w.at,
             todo |-> w.todo \ {segment}, rows |-> w.rows \cup RowsOf(segment, clock)])

resolve_affected(t, c, segment) ==
    /\ At(t, "idle") /\ segment \in c.segments
    /\ Locate(t, [old |-> c.old, new |-> c.new, at |-> clock, todo |-> c.segments, rows |-> {}],
              segment)
    /\ UNCHANGED <<versions, changes, ledger, runs, place, decided, notified, clock>>

ResolveNext(t, segment) ==
    /\ At(t, "resolving") /\ segment \in proc[t].todo
    /\ Locate(t, proc[t], segment)
    /\ UNCHANGED <<versions, changes, ledger, runs, place, decided, notified, clock>>

Entry(w, row) ==
    [old |-> w.old, new |-> w.new, segment |-> row.segment, record |-> row.record, at |-> row.at]
SameEntry(e, f) == SamePair(e, f) /\ e.segment = f.segment /\ e.record = f.record

\* A mutant of the next: a change that has been marked is not marked again.
FirstRunOnly(w) == IF \E e \in ledger : SamePair(e, w) THEN {} ELSE {Entry(w, row) : row \in w.rows}
\* INSERT OR IGNORE: the rows the ledger has not.
NewEntries(w) == {e \in {Entry(w, row) : row \in w.rows} : ~\E f \in ledger : SameEntry(e, f)}

invalidate(t) ==
    /\ At(t, "resolving") /\ proc[t].todo = {}
    /\ ledger' = ledger \cup NewEntries(proc[t])
    /\ runs' = runs \cup {[old |-> proc[t].old, new |-> proc[t].new, at |-> proc[t].at]}
    /\ Hold(t, Idle)
    /\ UNCHANGED <<versions, changes, place, decided, notified, clock>>

-----------------------------------------------------------------------------
(* The registry, which other tools write.                                  *)

Placed(s, i) == place' = [place EXCEPT ![s] = [item |-> i, at |-> clock + 1]]

\* The anchoring batch writes an anchor once; a promotion may carry one, which
\* it sets whatever was there.
Anchor(s, i) ==
    /\ place[s].item = "none"
    /\ Tick /\ Placed(s, i)
    /\ UNCHANGED <<versions, changes, ledger, runs, decided, notified, proc>>

PromoteAnchored(s, i) ==
    /\ place[s].item # i
    /\ Tick /\ Placed(s, i)
    /\ decided' = IF decided[s] = Never THEN [decided EXCEPT ![s] = clock + 1] ELSE decided
    /\ UNCHANGED <<versions, changes, ledger, runs, notified, proc>>

Decide(s) ==
    /\ decided[s] = Never
    /\ Tick
    /\ decided' = [decided EXCEPT ![s] = clock + 1]
    /\ UNCHANGED <<versions, changes, ledger, runs, place, notified, proc>>

-----------------------------------------------------------------------------
Init ==
    /\ versions = <<>> /\ changes = {} /\ ledger = {} /\ runs = {}
    /\ place = [s \in Statements |-> [item |-> "none", at |-> 0]]
    /\ decided = [s \in Statements |-> Never]
    /\ notified = Never /\ clock = 0
    /\ proc = [t \in Tools |-> Idle]

Next ==
    \/ \E t \in Tools :
           \/ \E c \in Contents : Retrieve(t, c)
           \/ preserve_source_version(t) \/ detect_and_store(t) \/ invalidate(t)
           \/ \E old, new \in DOMAIN versions, structured \in BOOLEAN,
                 meeting \in Meetings \cup {Never} : ReadPair(t, old, new, structured, meeting)
           \/ \E g \in Items \cup {Attachment} :
                  ResolveNext(t, g) \/ \E c \in changes : resolve_affected(t, c, g)
    \/ \E s \in Statements :
           Decide(s) \/ \E i \in Items : Anchor(s, i) \/ PromoteAnchored(s, i)
    \/ Notify

Spec == Init /\ [][Next]_vars

-----------------------------------------------------------------------------
(* Properties.                                                             *)

\* What a change says of its lateness stays true of the notification users got,
\* before or after the two versions were preserved, compared or told of: it came
\* after it, or else close to the meeting its detection was given, or it is not
\* late (derive_lateness, stage5_source_diff.py:244-272).
LatenessHasItsReason ==
    \A c \in changes :
        LET time == versions[c.new].time IN
        /\ c.basis = "after_notified" <=> notified # Never /\ time > notified
        /\ c.basis = "none" => c.meeting = Never \/ time < c.meeting - MEETING_PROXIMITY_WINDOW
        /\ c.basis = "meeting_proximity" =>
               c.meeting # Never /\ time >= c.meeting - MEETING_PROXIMITY_WINDOW

Since(record) ==
    IF record[1] = "statement" THEN place[record[2]].at
    ELSE IF place[record[2]].at > decided[record[2]] THEN place[record[2]].at
    ELSE decided[record[2]]

\* A record that a change affects and that no row of it marks has got there
\* after the last invalidation began to read the registry, segment by segment,
\* while statements went from one to the other: nothing marks it until the
\* next (invalidate, stage5_affected_set.py:475).
UnmarkedIsNewer ==
    \A run \in runs, c \in changes : SamePair(run, c) =>
        \A g \in c.segments : \A r \in Resolved(g) :
            Since(r) > run.at \/ \E e \in ledger : SamePair(e, c) /\ e.segment = g /\ e.record = r

\* A change once invalidated covers each of its segments, by its records or by a
\* flag; both may stand side by side for good, but only from two readings of the
\* registry (assert_every_segment_covered, :543).
FlagsFillTheGaps ==
    \A run \in runs, c \in changes : SamePair(run, c) =>
        \A g \in c.segments :
            LET rows == {e \in ledger : SamePair(e, c) /\ e.segment = g} IN
            /\ rows # {}
            /\ \A e, f \in rows : e.record[1] = Unresolved /\ f.record[1] # Unresolved
                   => e.at # f.at
=============================================================================
