--------------------------- MODULE SourcesProofs ---------------------------
(***************************************************************************)
(* Proofs about Sources for any number of items, statements, tools,        *)
(* versions and instants.                                                  *)
(***************************************************************************)
EXTENDS Sources, TLAPS

(* The tables and the time keep their types, and nothing that has been     *)
(* preserved, fetched or told is of a time to come.                        *)
TypeOK ==
    /\ clock \in Nat
    /\ versions \in Seq([content : Contents, time : Nat])
    /\ notified \in Nat
    /\ place \in [Statements -> [item : Items \cup {"none"}, at : Nat]]
    /\ decided \in [Statements -> Nat]
    /\ proc = [t \in Tools |-> proc[t]]

NothingAhead ==
    /\ notified \in 0..clock
    /\ \A i \in DOMAIN versions : versions[i].time \in 0..clock
    /\ \A t \in Tools : proc[t].pc = "fetched" =>
           proc[t].content \in Contents /\ proc[t].time \in 0..clock

Base == TypeOK /\ NothingAhead

(* What a tool takes in hand; the others keep what they have.              *)
LEMMA Handed ==
    ASSUME proc = [u \in Tools |-> proc[u]], NEW t \in Tools, NEW work, Hold(t, work)
    PROVE  /\ proc' = [u \in Tools |-> proc'[u]]
           /\ proc'[t] = work
           /\ \A u \in Tools : u # t => proc'[u] = proc[u]
BY DEF Hold

(* A tool reads what a segment affects: the first of a change's, or one    *)
(* more of those it has in hand.                                           *)
Reads(t, w, g) ==
    /\ Locate(t, w, g)
    /\ UNCHANGED <<versions, changes, ledger, runs, place, decided, notified, clock>>
    /\ \/ proc[t].pc = "resolving" /\ w = proc[t]
       \/ \E c \in changes :
              w = [old |-> c.old, new |-> c.new, at |-> clock, todo |-> c.segments, rows |-> {}]

(* Next, one action of one tool at a time.                                 *)
LEMMA NextCases ==
    ASSUME Next
    PROVE
      \/ \E t \in Tools, c \in Contents : Retrieve(t, c)
      \/ \E t \in Tools : preserve_source_version(t)
      \/ \E t \in Tools : detect_and_store(t)
      \/ \E t \in Tools : invalidate(t)
      \/ \E t \in Tools, old, new \in DOMAIN versions, structured \in BOOLEAN,
             meeting \in Meetings \cup {Never} : ReadPair(t, old, new, structured, meeting)
      \/ \E t \in Tools, g \in Items \cup {Attachment} : \E w : Reads(t, w, g)
      \/ \E s \in Statements : Decide(s)
      \/ \E s \in Statements, i \in Items : Anchor(s, i)
      \/ \E s \in Statements, i \in Items : PromoteAnchored(s, i)
      \/ Notify
<1>1. ASSUME NEW t \in Tools, NEW g, ResolveNext(t, g) PROVE Reads(t, proc[t], g)
    BY <1>1 DEF ResolveNext, Reads, At
<1>2. ASSUME NEW t \in Tools, NEW g, NEW c \in changes, resolve_affected(t, c, g)
      PROVE  \E w : Reads(t, w, g)
    BY <1>2 DEF resolve_affected, Reads
<1> QED BY <1>1, <1>2 DEF Next

LEMMA BaseStep == Base /\ [Next]_vars => Base'
<1> SUFFICES ASSUME Base, [Next]_vars PROVE Base'
    OBVIOUS
<1> USE DEF Base, TypeOK, NothingAhead
<1>1. ASSUME NEW t \in Tools, NEW c \in Contents, Retrieve(t, c) PROVE Base'
    <2>1. clock' = clock + 1 /\ UNCHANGED <<versions, notified, place, decided>>
        BY <1>1 DEF Retrieve, Tick
    <2>2. Hold(t, [pc |-> "fetched", content |-> c, time |-> clock + 1])
        BY <1>1 DEF Retrieve
    <2>3. /\ proc' = [u \in Tools |-> proc'[u]]
          /\ proc'[t] = [pc |-> "fetched", content |-> c, time |-> clock + 1]
          /\ \A u \in Tools : u # t => proc'[u] = proc[u]
        BY <2>2, Handed
    <2>4. clock' \in Nat /\ 0..clock \subseteq 0..clock' /\ clock + 1 \in 0..clock'
        BY <2>1
    <2>5. NothingAhead'
        BY <2>1, <2>3, <2>4
    <2> QED BY <2>1, <2>3, <2>4, <2>5
<1>2. ASSUME NEW t \in Tools, preserve_source_version(t) PROVE Base'
    <2>1. UNCHANGED <<clock, notified, place, decided>> /\ Hold(t, Idle)
        BY <1>2 DEF preserve_source_version
    <2>2. /\ proc' = [u \in Tools |-> proc'[u]]
          /\ proc'[t] = Idle
          /\ \A u \in Tools : u # t => proc'[u] = proc[u]
        BY <2>1, Handed
    <2> DEFINE v == [content |-> proc[t].content, time |-> proc[t].time]
    <2>3. versions' = versions \/ versions' = Append(versions, v)
        BY <1>2 DEF preserve_source_version
    <2>4. v \in [content : Contents, time : Nat] /\ v.time \in 0..clock
        BY <1>2 DEF At, preserve_source_version
    <2>5. /\ versions' \in Seq([content : Contents, time : Nat])
          /\ \A i \in DOMAIN versions' : versions'[i].time \in 0..clock
        <3>1. CASE versions' = versions
            BY <3>1
        <3>2. CASE versions' = Append(versions, v)
            <4> HIDE DEF v
            <4>1. /\ DOMAIN versions' = 1 .. (Len(versions) + 1)
                  /\ DOMAIN versions = 1 .. Len(versions) /\ Len(versions) \in Nat
                  /\ \A i \in 1 .. Len(versions) : versions'[i] = versions[i]
                  /\ versions'[Len(versions) + 1] = v
                BY <3>2, <2>4
            <4> QED BY <3>2, <4>1, <2>4
        <3> QED BY <2>3, <3>1, <3>2
    <2> QED BY <2>1, <2>2, <2>5 DEF At, Idle
<1>3. ASSUME NEW t \in Tools, NEW work, Hold(t, work), work.pc # "fetched",
             UNCHANGED <<versions, clock, notified, place, decided>>
      PROVE  Base'
    <2>1. /\ proc' = [u \in Tools |-> proc'[u]]
          /\ proc'[t] = work
          /\ \A u \in Tools : u # t => proc'[u] = proc[u]
        BY <1>3, Handed
    <2> QED BY <1>3, <2>1 DEF At
<1>4. ASSUME NEW t \in Tools, detect_and_store(t) PROVE Base'
    BY <1>3, <1>4 DEF detect_and_store, Idle
<1>5. ASSUME NEW t \in Tools, invalidate(t) PROVE Base'
    BY <1>3, <1>5 DEF invalidate, Idle
<1>6. ASSUME NEW t \in Tools, NEW old, NEW new, NEW structured, NEW meeting,
             ReadPair(t, old, new, structured, meeting)
      PROVE  Base'
    BY <1>3, <1>6 DEF ReadPair
<1>7. ASSUME NEW t \in Tools, NEW w, NEW g, Reads(t, w, g) PROVE Base'
    BY <1>3, <1>7 DEF Reads, Locate
<1>8. ASSUME NEW s \in Statements, Decide(s) PROVE Base'
    <2>1. clock' \in Nat /\ 0..clock \subseteq 0..clock' /\ clock + 1 \in Nat
        BY <1>8 DEF Decide, Tick
    <2> QED BY <1>8, <2>1 DEF Decide
<1>9. ASSUME NEW s \in Statements, NEW i \in Items, Anchor(s, i) PROVE Base'
    <2>1. clock' \in Nat /\ 0..clock \subseteq 0..clock' /\ clock + 1 \in Nat
        BY <1>9 DEF Anchor, Tick
    <2> QED BY <1>9, <2>1 DEF Anchor, Placed
<1>12. ASSUME NEW s \in Statements, NEW i \in Items, PromoteAnchored(s, i) PROVE Base'
    <2>1. clock' \in Nat /\ 0..clock \subseteq 0..clock' /\ clock + 1 \in Nat
        BY <1>12 DEF PromoteAnchored, Tick
    <2> QED BY <1>12, <2>1 DEF PromoteAnchored, Placed
<1>10. CASE Notify
    <2>1. /\ clock' \in Nat /\ 0..clock \subseteq 0..clock'
          /\ clock + 1 \in Nat /\ clock + 1 \in 0..clock'
        BY <1>10 DEF Notify, Tick
    <2> QED BY <1>10, <2>1 DEF Notify
<1>11. CASE UNCHANGED vars
    BY <1>11 DEF vars, At
<1> QED BY <1>1, <1>2, <1>4, <1>5, <1>6, <1>7, <1>8, <1>9, <1>10, <1>11, <1>12,
    NextCases

LEMMA BaseHolds == Spec => []Base
<1>1. Init => Base
    BY DEF Init, Base, TypeOK, NothingAhead, At, Idle, Never
<1> QED BY <1>1, BaseStep, PTL DEF Spec

-----------------------------------------------------------------------------
(* Late changes.                                                           *)

(* What a change, stored or in hand, says of its lateness is right.        *)
Told(c, vs, told) ==
    /\ c.new \in DOMAIN vs
    /\ c.basis = "after_notified" <=> told # Never /\ vs[c.new].time > told
    /\ c.basis = "none" =>
           c.meeting = Never \/ vs[c.new].time < c.meeting - MEETING_PROXIMITY_WINDOW
    /\ c.basis = "meeting_proximity" =>
           c.meeting # Never /\ vs[c.new].time >= c.meeting - MEETING_PROXIMITY_WINDOW

LateInv ==
    /\ \A c \in changes : Told(c, versions, notified)
    /\ \A t \in Tools : proc[t].pc = "compared" => Told(proc[t], versions, notified)

(* Told depends on the versions and the time of the notification alone, and*)
(* holds of the changes there were when users are notified: none of them   *)
(* came after that.                                                        *)
LEMMA ToldStays ==
    ASSUME Base, [Next]_vars, NEW c, Told(c, versions, notified)
    PROVE  Told(c, versions', notified')
<1> USE DEF Told, Base, TypeOK, NothingAhead
<1>1. CASE UNCHANGED <<versions, notified>>
    BY <1>1
<1>2. ASSUME NEW t \in Tools, preserve_source_version(t) PROVE Told(c, versions', notified')
    <2> DEFINE v == [content |-> proc[t].content, time |-> proc[t].time]
    <2>1. versions' = versions \/ versions' = Append(versions, v)
        BY <1>2 DEF preserve_source_version
    <2>2. notified' = notified
        BY <1>2 DEF preserve_source_version
    <2>3. CASE versions' = Append(versions, v)
        <3> HIDE DEF v
        <3>1. /\ DOMAIN versions' = 1 .. (Len(versions) + 1)
              /\ DOMAIN versions = 1 .. Len(versions) /\ Len(versions) \in Nat
              /\ \A i \in 1 .. Len(versions) : versions'[i] = versions[i]
            BY <2>3
        <3> QED BY <2>2, <3>1
    <2> QED BY <2>1, <2>2, <2>3
<1>3. CASE Notify
    <2>1. /\ notified = Never /\ versions' = versions
          /\ notified' = clock + 1
        BY <1>3 DEF Notify
    <2>2. c.basis # "after_notified"
        BY <2>1
    <2>3. versions[c.new].time \in 0..clock
        OBVIOUS
    <2> QED BY <2>1, <2>2, <2>3 DEF Never
<1> QED BY <1>1, <1>2, <1>3, NextCases
        DEF Retrieve, detect_and_store, invalidate, ReadPair, Reads, Decide, Anchor,
            PromoteAnchored, vars

LEMMA LateStep == Base /\ LateInv /\ [Next]_vars => LateInv'
<1> SUFFICES ASSUME Base, LateInv, [Next]_vars PROVE LateInv'
    OBVIOUS
<1>1. \A c : Told(c, versions, notified) => Told(c, versions', notified')
    BY ToldStays
<1>2. ASSUME NEW t \in Tools, NEW work, Hold(t, work), changes' = changes,
             work.pc = "compared" => Told(work, versions', notified')
      PROVE  LateInv'
    <2>1. /\ proc'[t] = work
          /\ \A u \in Tools : u # t => proc'[u] = proc[u]
        BY <1>2, Handed DEF Base, TypeOK
    <2>2. ASSUME NEW u \in Tools, proc'[u].pc = "compared" PROVE Told(proc'[u], versions', notified')
        <3>1. CASE u = t
            BY <3>1, <1>2, <2>1, <2>2 DEF Told
        <3>2. CASE u # t
            BY <3>2, <1>1, <2>1, <2>2 DEF LateInv, Told
        <3> QED BY <3>1, <3>2
    <2> QED BY <1>1, <1>2, <2>2 DEF LateInv, Told
<1>3. ASSUME NEW t \in Tools, detect_and_store(t) PROVE LateInv'
    <2> DEFINE found == [f \in {"old", "new", "segments", "basis", "meeting"} |-> proc[t][f]]
    <2>1. changes' \subseteq changes \cup {found} /\ Hold(t, Idle) /\ proc[t].pc = "compared"
        BY <1>3 DEF detect_and_store, At
    <2>2. Told(found, versions, notified)
        <3>1. /\ Told(proc[t], versions, notified) /\ found.new = proc[t].new
              /\ found.basis = proc[t].basis /\ found.meeting = proc[t].meeting
            BY <2>1 DEF LateInv
        <3> QED BY <3>1 DEF Told
    <2> HIDE DEF found
    <2>3. /\ proc'[t] = Idle
          /\ \A u \in Tools : u # t => proc'[u] = proc[u]
        BY <2>1, Handed DEF Base, TypeOK
    <2>4. \A c \in changes' : Told(c, versions', notified')
        BY <1>1, <2>1, <2>2 DEF LateInv
    <2>5. ASSUME NEW u \in Tools, proc'[u].pc = "compared" PROVE Told(proc'[u], versions', notified')
        <3>1. u # t
            BY <2>3, <2>5 DEF Idle
        <3>2. Told(proc[u], versions, notified) /\ proc'[u] = proc[u]
            BY <2>3, <2>5, <3>1 DEF LateInv
        <3> QED BY <1>1, <3>2 DEF Told
    <2> QED BY <2>4, <2>5 DEF LateInv, Told
<1>4. ASSUME NEW t \in Tools, NEW old \in DOMAIN versions, NEW new \in DOMAIN versions,
             NEW structured, NEW meeting \in Meetings \cup {Never},
             ReadPair(t, old, new, structured, meeting)
      PROVE  LateInv'
    <2> DEFINE basis == derive_lateness(old, new, notified, meeting)
               work == [pc |-> "compared", old |-> old, new |-> new, meeting |-> meeting,
                        segments |-> Segments(old, new, structured), basis |-> basis]
    <2>1. Hold(t, work) /\ UNCHANGED <<changes, versions, notified>>
        BY <1>4 DEF ReadPair
    <2>2. work.new = new /\ work.meeting = meeting /\ work.basis = basis
        OBVIOUS
    <2>3. \/ basis = "after_notified" /\ notified # Never /\ versions[new].time > notified
          \/ /\ basis = "meeting_proximity"
             /\ ~(notified # Never /\ versions[new].time > notified)
             /\ meeting # Never /\ versions[new].time >= meeting - MEETING_PROXIMITY_WINDOW
          \/ /\ basis = "none"
             /\ ~(notified # Never /\ versions[new].time > notified)
             /\ ~(meeting # Never /\ versions[new].time >= meeting - MEETING_PROXIMITY_WINDOW)
        BY DEF derive_lateness, Lateness
    <2>4. meeting # Never => meeting - MEETING_PROXIMITY_WINDOW \in Int
        BY <1>4, SourcesAssumption DEF Never
    <2>5. versions[new].time \in Nat
        <3>1. versions[new].time \in 0..clock
            BY DEF Base, NothingAhead
        <3> QED BY <3>1 DEF Base, TypeOK
    <2>6. Told(work, versions', notified')
        <3> HIDE DEF work, basis
        <3> QED BY <2>1, <2>2, <2>3, <2>4, <2>5 DEF Told
    <2> HIDE DEF work
    <2> QED BY <1>2, <2>1, <2>6
<1>5. ASSUME NEW t \in Tools, preserve_source_version(t) PROVE LateInv'
    BY <1>2, <1>5 DEF preserve_source_version, Idle
<1>6. ASSUME NEW t \in Tools, invalidate(t) PROVE LateInv'
    BY <1>2, <1>6 DEF invalidate, Idle
<1>7. ASSUME NEW t \in Tools, NEW c \in Contents, Retrieve(t, c) PROVE LateInv'
    BY <1>2, <1>7 DEF Retrieve
<1>8. ASSUME NEW t \in Tools, NEW w, NEW g, Reads(t, w, g) PROVE LateInv'
    BY <1>2, <1>8 DEF Reads, Locate
<1>9. CASE UNCHANGED <<changes, proc>>
    BY <1>1, <1>9 DEF LateInv, Told
<1> QED BY <1>3, <1>4, <1>5, <1>6, <1>7, <1>8, <1>9, NextCases
        DEF Decide, Anchor, PromoteAnchored, Notify, vars

(* A stored change says "after notified" exactly if its newer version was  *)
(* retrieved after users had been, "close to the meeting" only if it was   *)
(* close to the one the detection was given, and "not late" only if it was *)
(* neither, whatever the order in which versions are preserved, compared   *)
(* and told of.  (derive_lateness, stage5_source_diff.py)                  *)
THEOREM LateIsTrue == Spec => []LatenessHasItsReason
<1>1. Init => LateInv
    BY DEF Init, LateInv, Idle
<1>2. LateInv => LatenessHasItsReason
    BY DEF LateInv, Told, LatenessHasItsReason
<1> QED BY <1>1, <1>2, LateStep, BaseHolds, PTL DEF Spec

-----------------------------------------------------------------------------
(* Marks.                                                                  *)

Entries(w) == {Entry(w, row) : row \in w.rows}
Resolving == {t \in Tools : proc[t].pc = "resolving"}
(* The rows that are in the ledger or about to be inserted.                *)
Marks == ledger \cup UNION {Entries(proc[t]) : t \in Resolving}

Flag(e) == e.record[1] = Unresolved

(* A pair has one change, and is invalidated only if it has one.           *)
PairsOK ==
    /\ \A c, d \in changes : SamePair(c, d) => c = d
    /\ \A r \in runs : r.at \in 0..clock /\ \E c \in changes : SamePair(r, c)
    /\ \A t \in Resolving :
           proc[t].at \in 0..clock /\ \E c \in changes : SamePair(proc[t], c)

(* Marks read at one time agree on which segments affect nothing, and those*)
(* read now agree with the registry.                                       *)
MarksAgree ==
    /\ \A e \in Marks :
           /\ e.at \in 0..clock
           /\ e.at = clock => (Flag(e) <=> Resolved(e.segment) = {})
    /\ \A e, f \in Marks : e.segment = f.segment /\ e.at = f.at => (Flag(e) <=> Flag(f))

(* What the registry has for a change and the ledger has not, or the rows  *)
(* in hand have not, is newer than the reading they come from.             *)
Complete(g, at, marked) ==
    /\ marked # {}
    /\ \A r \in Resolved(g) : Since(r) > at \/ r \in marked

InLedger(c, g) == {e.record : e \in {d \in ledger : SamePair(d, c) /\ d.segment = g}}
InHand(w, g) == {row.record : row \in {x \in w.rows : x.segment = g}}

(* Of a set in hand this is so of the segments that have been read.        *)
ReadSoFar(w) ==
    \A c \in changes : SamePair(w, c) =>
        \A g \in c.segments \ w.todo : Complete(g, w.at, InHand(w, g))

AllMarked ==
    /\ \A r \in runs, c \in changes : SamePair(r, c) =>
           \A g \in c.segments : Complete(g, r.at, InLedger(c, g))
    /\ \A t \in Resolving : ReadSoFar(proc[t])

Inv == Base /\ PairsOK /\ MarksAgree /\ AllMarked

(* A tool that takes anything but a set leaves the others' sets.           *)
LEMMA OthersKeep ==
    ASSUME Base, NEW t \in Tools, NEW work, Hold(t, work), work.pc # "resolving"
    PROVE  /\ Resolving' \subseteq Resolving
           /\ \A u \in Resolving' : proc'[u] = proc[u]
           /\ UNION {Entries(proc[u]) : u \in Resolving}'
                  \subseteq UNION {Entries(proc[u]) : u \in Resolving}
<1>1. /\ proc'[t] = work
      /\ \A u \in Tools : u # t => proc'[u] = proc[u]
    BY Handed DEF Base, TypeOK
<1>2. /\ Resolving' \subseteq Resolving
      /\ \A u \in Resolving' : proc'[u] = proc[u]
    BY <1>1 DEF Resolving
<1>3. \A u \in Resolving' : Entries(proc[u])' = Entries(proc[u])
    BY <1>2 DEF Entries, Entry
<1> QED BY <1>2, <1>3

(* A set in hand is of one change, resolved no earlier than the set says.  *)
OfAChange(w) == w.at \in 0..clock /\ \E c \in changes : SamePair(w, c)

(* With a segment read the set in hand has its rows besides those it had,  *)
(* and the others keep theirs.                                             *)
LEMMA OneReads ==
    ASSUME Base, PairsOK, NEW t \in Tools, NEW w, NEW g, Reads(t, w, g)
    PROVE  /\ Resolving' = Resolving \cup {t}
           /\ \A u \in Resolving : u # t => proc'[u] = proc[u]
           /\ proc'[t].at = w.at /\ proc'[t].todo = w.todo \ {g}
           /\ proc'[t].rows = w.rows \cup RowsOf(g, clock)
           /\ proc'[t].old = w.old /\ proc'[t].new = w.new
           /\ Entries(w) \subseteq Marks /\ OfAChange(w)
<1> DEFINE work == [pc |-> "resolving", old |-> w.old, new |-> w.new, at |-> w.at,
                    todo |-> w.todo \ {g}, rows |-> w.rows \cup RowsOf(g, clock)]
<1>1. Hold(t, work)
    BY DEF Reads, Locate
<1>2. /\ proc'[t] = work
      /\ \A u \in Tools : u # t => proc'[u] = proc[u]
    BY <1>1, Handed DEF Base, TypeOK
<1>3. Resolving' = Resolving \cup {t}
    <2>1. proc'[t].pc = "resolving"
        BY <1>2
    <2> QED BY <1>2, <2>1 DEF Resolving
<1>4. Entries(w) \subseteq Marks /\ OfAChange(w)
    <2>1. CASE proc[t].pc = "resolving" /\ w = proc[t]
        BY <2>1 DEF Marks, Resolving, PairsOK, OfAChange
    <2>2. ASSUME NEW c \in changes,
                 w = [old |-> c.old, new |-> c.new, at |-> clock, todo |-> c.segments, rows |-> {}]
          PROVE  Entries(w) \subseteq Marks /\ OfAChange(w)
        <3>1. w.rows = {} /\ w.at = clock /\ SamePair(w, c)
            BY <2>2 DEF SamePair
        <3>2. clock \in 0..clock
            BY DEF Base, TypeOK
        <3> QED BY <3>1, <3>2 DEF Entries, OfAChange
    <2> QED BY <2>1, <2>2 DEF Reads
<1> QED BY <1>2, <1>3, <1>4 DEF Resolving

LEMMA PairsStep == Base /\ PairsOK /\ [Next]_vars => PairsOK'
<1> SUFFICES ASSUME Base, PairsOK, [Next]_vars PROVE PairsOK'
    OBVIOUS
<1>1. /\ clock \in Nat
      /\ 0..clock \subseteq 0..(clock + 1)
    BY DEF Base, TypeOK
<1>2. ASSUME UNCHANGED <<changes, runs>>, clock' = clock \/ clock' = clock + 1,
             Resolving' \subseteq Resolving, \A u \in Resolving' : proc'[u] = proc[u]
      PROVE  PairsOK'
    BY <1>1, <1>2 DEF PairsOK, SamePair
<1>3. ASSUME NEW t \in Tools, NEW work, Hold(t, work), work.pc # "resolving",
             UNCHANGED <<changes, runs>>, clock' = clock \/ clock' = clock + 1
      PROVE  PairsOK'
    BY <1>2, <1>3, OthersKeep
<1>4. ASSUME NEW t \in Tools, NEW c \in Contents, Retrieve(t, c) PROVE PairsOK'
    BY <1>3, <1>4 DEF Retrieve, Tick
<1>5. ASSUME NEW t \in Tools, preserve_source_version(t) PROVE PairsOK'
    BY <1>3, <1>5 DEF preserve_source_version, Idle
<1>6. ASSUME NEW t \in Tools, NEW old, NEW new, NEW structured, NEW meeting,
             ReadPair(t, old, new, structured, meeting)
      PROVE  PairsOK'
    BY <1>3, <1>6 DEF ReadPair
<1>7. ASSUME NEW t \in Tools, detect_and_store(t) PROVE PairsOK'
    <2> DEFINE found == [f \in {"old", "new", "segments", "basis", "meeting"} |-> proc[t][f]]
    <2>1. /\ changes' = changes
             \/ (changes' = changes \cup {found} /\ ~\E c \in changes : SamePair(c, found))
          /\ Hold(t, Idle) /\ UNCHANGED <<runs, clock>>
        BY <1>7 DEF detect_and_store
    <2>2. /\ Resolving' \subseteq Resolving
          /\ \A u \in Resolving' : proc'[u] = proc[u]
        BY <2>1, OthersKeep DEF Idle
    <2> HIDE DEF found
    <2> QED BY <2>1, <2>2 DEF PairsOK, SamePair
<1>8. ASSUME NEW t \in Tools, invalidate(t) PROVE PairsOK'
    <2> DEFINE run == [old |-> proc[t].old, new |-> proc[t].new, at |-> proc[t].at]
    <2>1. /\ Hold(t, Idle) /\ UNCHANGED <<changes, clock>> /\ runs' = runs \cup {run}
          /\ t \in Resolving
        BY <1>8 DEF invalidate, At, Resolving
    <2>2. /\ Resolving' \subseteq Resolving
          /\ \A u \in Resolving' : proc'[u] = proc[u]
        BY <2>1, OthersKeep DEF Idle
    <2>3. run.at \in 0..clock /\ \E c \in changes : SamePair(run, c)
        BY <2>1 DEF PairsOK, SamePair
    <2> HIDE DEF run
    <2> QED BY <2>1, <2>2, <2>3 DEF PairsOK, SamePair
<1>9. ASSUME NEW t \in Tools, NEW w, NEW g, Reads(t, w, g) PROVE PairsOK'
    <2>1. UNCHANGED <<changes, runs, clock>>
        BY <1>9 DEF Reads
    <2>2. /\ Resolving' = Resolving \cup {t}
          /\ \A u \in Resolving : u # t => proc'[u] = proc[u]
          /\ proc'[t].at = w.at /\ proc'[t].old = w.old /\ proc'[t].new = w.new
          /\ OfAChange(w)
        BY <1>9, OneReads
    <2> QED BY <2>1, <2>2 DEF PairsOK, SamePair, OfAChange
<1>10. ASSUME UNCHANGED <<changes, runs, proc>>, clock' = clock \/ clock' = clock + 1
       PROVE  PairsOK'
    BY <1>2, <1>10 DEF Resolving
<1> QED BY <1>4, <1>5, <1>6, <1>7, <1>8, <1>9, <1>10, NextCases
        DEF Decide, Anchor, PromoteAnchored, Notify, Tick, vars

(* Fewer marks agree still: later time leaves nothing read now, and at the *)
(* same time the registry is the same.                                     *)
LEMMA FewerMarksAgree ==
    ASSUME Base, MarksAgree, Marks' \subseteq Marks,
           clock' = clock + 1 \/ UNCHANGED <<clock, place, decided>>
    PROVE  MarksAgree'
<1>1. clock \in Nat
    BY DEF Base, TypeOK
<1>2. \A e \in Marks' : e \in Marks /\ (Flag(e)' <=> Flag(e))
    BY DEF Flag
<1>3. ASSUME NEW e \in Marks'
      PROVE  e.at \in 0..clock' /\ (e.at = clock' => (Flag(e)' <=> Resolved(e.segment)' = {}))
    <2>1. CASE clock' = clock + 1
        BY <1>1, <1>2, <1>3, <2>1 DEF MarksAgree
    <2>2. CASE UNCHANGED <<clock, place, decided>>
        <3>1. Resolved(e.segment)' = Resolved(e.segment)
            BY <2>2 DEF Resolved, Located, _reviews_for_statements
        <3> QED BY <1>2, <1>3, <2>2, <3>1 DEF MarksAgree
    <2> QED BY <2>1, <2>2
<1>4. \A e, f \in Marks' : e.segment = f.segment /\ e.at = f.at => (Flag(e)' <=> Flag(f)')
    BY <1>2 DEF MarksAgree
<1> QED BY <1>3, <1>4 DEF MarksAgree

LEMMA MarksStep == Base /\ PairsOK /\ MarksAgree /\ [Next]_vars => MarksAgree'
<1> SUFFICES ASSUME Base, PairsOK, MarksAgree, [Next]_vars PROVE MarksAgree'
    OBVIOUS
<1>1. ASSUME NEW t \in Tools, NEW work, Hold(t, work), work.pc # "resolving", ledger' = ledger,
             clock' = clock + 1 \/ UNCHANGED <<clock, place, decided>>
      PROVE  MarksAgree'
    BY <1>1, OthersKeep, FewerMarksAgree DEF Marks
<1>2. ASSUME NEW t \in Tools, NEW c \in Contents, Retrieve(t, c) PROVE MarksAgree'
    BY <1>1, <1>2 DEF Retrieve, Tick
<1>3. ASSUME NEW t \in Tools, preserve_source_version(t) PROVE MarksAgree'
    BY <1>1, <1>3 DEF preserve_source_version, Idle
<1>4. ASSUME NEW t \in Tools, NEW old, NEW new, NEW structured, NEW meeting,
             ReadPair(t, old, new, structured, meeting)
      PROVE  MarksAgree'
    BY <1>1, <1>4 DEF ReadPair
<1>5. ASSUME NEW t \in Tools, detect_and_store(t) PROVE MarksAgree'
    BY <1>1, <1>5 DEF detect_and_store, Idle
<1>6. ASSUME NEW t \in Tools, invalidate(t) PROVE MarksAgree'
    <2>1. /\ Hold(t, Idle) /\ t \in Resolving /\ UNCHANGED <<clock, place, decided>>
          /\ ledger' = ledger \cup NewEntries(proc[t])
        BY <1>6 DEF invalidate, At, Resolving
    <2>2. UNION {Entries(proc[u]) : u \in Resolving}'
              \subseteq UNION {Entries(proc[u]) : u \in Resolving}
        BY <2>1, OthersKeep DEF Idle
    <2>3. NewEntries(proc[t]) \subseteq Entries(proc[t])
        BY DEF NewEntries, Entries
    <2>4. Marks' \subseteq Marks
        BY <2>1, <2>2, <2>3 DEF Marks
    <2> QED BY <2>1, <2>4, FewerMarksAgree
<1>7. ASSUME NEW t \in Tools, NEW w, NEW g, Reads(t, w, g) PROVE MarksAgree'
    <2>1. UNCHANGED <<ledger, clock, place, decided>>
        BY <1>7 DEF Reads
    <2>2. /\ Resolving' = Resolving \cup {t}
          /\ \A u \in Resolving : u # t => proc'[u] = proc[u]
          /\ proc'[t].rows = w.rows \cup RowsOf(g, clock)
          /\ proc'[t].old = w.old /\ proc'[t].new = w.new
          /\ Entries(w) \subseteq Marks
        BY <1>7, OneReads
    <2>3. ASSUME NEW e \in Marks'
          PROVE  e \in Marks \/ (e.at = clock /\ (Flag(e) <=> Resolved(e.segment) = {}))
        <3>1. CASE e \in Entries(proc[t])'
            <4>1. PICK row \in w.rows \cup RowsOf(g, clock) : e = Entry(proc'[t], row)
                BY <2>2, <3>1 DEF Entries, Entry
            <4>2. e = Entry(w, row)
                BY <2>2, <4>1 DEF Entry
            <4>3. CASE row \in w.rows
                BY <2>2, <4>2, <4>3 DEF Entries
            <4>4. CASE row \in RowsOf(g, clock)
                <5>1. PICK r \in IF Resolved(g) = {} THEN {<<Unresolved, g>>} ELSE Resolved(g) :
                          row = [segment |-> g, record |-> r, at |-> clock]
                    BY <4>4 DEF RowsOf
                <5>2. e.at = clock /\ e.segment = g /\ e.record = r
                    BY <4>2, <5>1 DEF Entry
                <5>3. CASE Resolved(g) = {}
                    <6>1. r[1] = Unresolved
                        BY <5>1, <5>3
                    <6> QED BY <5>2, <5>3, <6>1 DEF Flag
                <5>4. CASE Resolved(g) # {}
                    <6>1. r \in Resolved(g)
                        BY <5>1, <5>4
                    <6>2. r[1] = "statement" \/ r[1] = "decision"
                        BY <6>1 DEF Resolved, _reviews_for_statements
                    <6> QED BY <5>2, <5>4, <6>2 DEF Flag, Unresolved
                <5> QED BY <5>3, <5>4
            <4> QED BY <4>1, <4>3, <4>4
        <3>2. ASSUME NEW u \in Resolving, u # t, e \in Entries(proc[u])' PROVE e \in Marks
            <4>1. proc'[u] = proc[u]
                BY <2>2, <3>2
            <4>2. Entries(proc[u])' = Entries(proc[u])
                BY <4>1 DEF Entries, Entry
            <4> QED BY <3>2, <4>2 DEF Marks
        <3>3. CASE e \in ledger
            BY <3>3 DEF Marks
        <3>4. e \in ledger \/ \E u \in Resolving' : e \in Entries(proc[u])'
            BY <2>1, <2>3 DEF Marks
        <3> QED BY <2>2, <3>1, <3>2, <3>3, <3>4
    <2>4. clock \in 0..clock
        BY DEF Base, TypeOK
    <2>5. \A e \in Marks' :
              e.at \in 0..clock /\ (e.at = clock => (Flag(e) <=> Resolved(e.segment) = {}))
        BY <2>3, <2>4 DEF MarksAgree
    <2>6. ASSUME NEW e \in Marks', NEW f \in Marks', e.segment = f.segment, e.at = f.at
          PROVE  Flag(e) <=> Flag(f)
        <3>1. CASE e.at = clock
            BY <2>5, <2>6, <3>1
        <3>2. CASE e.at # clock
            BY <2>3, <2>6, <3>2 DEF MarksAgree
        <3> QED BY <3>1, <3>2
    <2>7. /\ \A e : Flag(e)' <=> Flag(e)
          /\ \A h : Resolved(h)' = Resolved(h)
        BY <2>1 DEF Flag, Resolved, Located, _reviews_for_statements
    <2> QED BY <2>1, <2>5, <2>6, <2>7 DEF MarksAgree
<1>8. ASSUME UNCHANGED <<ledger, proc>>,
             clock' = clock + 1 \/ UNCHANGED <<clock, place, decided>>
      PROVE  MarksAgree'
    <2>1. Marks' = Marks
        BY <1>8 DEF Marks, Resolving, Entries, Entry
    <2> QED BY <1>8, <2>1, FewerMarksAgree
<1> QED BY <1>2, <1>3, <1>4, <1>5, <1>6, <1>7, <1>8, NextCases
        DEF Decide, Anchor, PromoteAnchored, Notify, Tick, vars

(* The registry moves on by a statement anchored or decided on, if at all, *)
(* and what a segment then affects was so before or is newer than any      *)
(* earlier reading.                                                        *)
RegistryStep ==
    \/ UNCHANGED <<place, decided>>
    \/ \E s \in Statements : Decide(s)
    \/ \E s \in Statements, i \in Items : Anchor(s, i) \/ PromoteAnchored(s, i)

LEMMA NewRecordsAreNewer ==
    ASSUME Base, RegistryStep, NEW g, NEW at \in 0..clock, NEW r \in Resolved(g)',
           ~(Since(r)' > at)
    PROVE  r \in Resolved(g) /\ ~(Since(r) > at)
<1> USE DEF Resolved, Located, _reviews_for_statements, Since
<1>1. CASE UNCHANGED <<place, decided>>
    BY <1>1
<1>2. clock \in Nat /\ at \in Nat /\ at < clock + 1
    BY DEF Base, TypeOK
<1>3. PICK s \in Statements : r = <<"statement", s>> \/ r = <<"decision", s>>
    OBVIOUS
<1>4. r[2] = s /\ (r[1] = "statement" \/ r[1] = "decision")
    BY <1>3
<1>5. /\ place[s].at \in Nat /\ decided[s] \in Nat
    BY DEF Base, TypeOK
<1>6. ASSUME NEW x \in Statements, Decide(x) PROVE r \in Resolved(g) /\ ~(Since(r) > at)
    <2>1. place' = place /\ decided' = [decided EXCEPT ![x] = clock + 1]
        BY <1>6 DEF Decide
    <2>2. decided'[x] = clock + 1 /\ \A y \in Statements : y # x => decided'[y] = decided[y]
        BY <2>1 DEF Base, TypeOK
    <2>3. CASE r = <<"statement", s>>
        BY <2>1, <2>3
    <2>4. CASE r = <<"decision", s>>
        <3>1. s # x
            BY <1>2, <1>4, <1>5, <2>1, <2>2, <2>4
        <3>2. decided'[s] = decided[s]
            BY <2>2, <3>1
        <3> QED BY <2>1, <2>4, <3>2
    <2> QED BY <1>3, <2>3, <2>4
<1>7. ASSUME NEW x \in Statements, NEW i \in Items, Anchor(x, i) \/ PromoteAnchored(x, i)
      PROVE  r \in Resolved(g) /\ ~(Since(r) > at)
    <2>1. /\ place' = [place EXCEPT ![x] = [item |-> i, at |-> clock + 1]]
          /\ decided' = decided \/ decided' = [decided EXCEPT ![x] = clock + 1]
        BY <1>7 DEF Anchor, PromoteAnchored, Placed
    <2>2. /\ place'[x].at = clock + 1
          /\ \A y \in Statements : y # x => place'[y] = place[y] /\ decided'[y] = decided[y]
          /\ decided'[x] \in Nat
        BY <1>2, <2>1 DEF Base, TypeOK
    <2>3. s # x
        BY <1>2, <1>4, <1>5, <2>2
    <2>4. place'[s] = place[s] /\ decided'[s] = decided[s]
        BY <2>2, <2>3
    <2> QED BY <1>3, <2>4
<1> QED BY <1>1, <1>6, <1>7 DEF RegistryStep

LEMMA CompleteStays ==
    ASSUME Base, RegistryStep, NEW g, NEW at \in 0..clock, NEW few, NEW many,
           Complete(g, at, few), few \subseteq many
    PROVE  Complete(g, at, many)'
<1>1. \A r \in Resolved(g)' : Since(r)' > at \/ r \in few
    BY NewRecordsAreNewer DEF Complete
<1> QED BY <1>1 DEF Complete

LEMMA AllMarkedStep == Base /\ PairsOK /\ AllMarked /\ [Next]_vars => AllMarked'
<1> SUFFICES ASSUME Base, PairsOK, AllMarked, [Next]_vars PROVE AllMarked'
    OBVIOUS
<1>1. RegistryStep
    BY NextCases DEF RegistryStep, Retrieve, preserve_source_version, detect_and_store,
        invalidate, ReadPair, Reads, Notify, vars
<1>2. ASSUME ledger \subseteq ledger', NEW r \in runs, NEW c \in changes, SamePair(r, c),
             NEW g \in c.segments
      PROVE  Complete(g, r.at, InLedger(c, g))'
    <2>1. Complete(g, r.at, InLedger(c, g)) /\ r.at \in 0..clock
        BY <1>2 DEF AllMarked, PairsOK
    <2> DEFINE few == InLedger(c, g)
               many == {e.record : e \in {d \in ledger' : SamePair(d, c) /\ d.segment = g}}
    <2>2. few \subseteq many
        BY <1>2 DEF InLedger
    <2>3. InLedger(c, g)' = many
        BY DEF InLedger, SamePair
    <2> HIDE DEF few, many
    <2>4. Complete(g, r.at, few)
        BY <2>1 DEF few
    <2>5. \A z : z = many => Complete(g, r.at, z)'
        BY <1>1, <2>1, <2>2, <2>4, CompleteStays
    <2> QED BY <2>3, <2>5 DEF Complete
<1>3. ASSUME NEW w, OfAChange(w), NEW g, NEW held, Complete(g, w.at, held),
             NEW more, held \subseteq more
      PROVE  Complete(g, w.at, more)'
    <2> DEFINE at == w.at
    <2>1. Complete(g, at, held) /\ at \in 0..clock
        BY <1>3 DEF OfAChange
    <2> HIDE DEF at
    <2>2. \A y : y = at => Complete(g, y, more)'
        BY <1>1, <1>3, <2>1, CompleteStays
    <2> QED BY <2>2 DEF Complete, at
<1>13. ASSUME NEW u \in Resolving, proc'[u] = proc[u],
              \A c \in changes' : SamePair(proc[u], c) => c \in changes
       PROVE  ReadSoFar(proc[u])'
    <2>1. OfAChange(proc[u])
        BY DEF PairsOK, OfAChange
    <2>2. ASSUME NEW c \in changes, SamePair(proc[u], c), NEW g \in c.segments \ proc[u].todo
          PROVE  Complete(g, proc[u].at, InHand(proc[u], g))'
        <3>1. Complete(g, proc[u].at, InHand(proc[u], g))
            BY <2>2 DEF AllMarked, ReadSoFar
        <3>2. InHand(proc[u], g)' = InHand(proc[u], g)
            BY <1>13 DEF InHand
        <3> QED BY <1>3, <1>13, <2>1, <3>1, <3>2 DEF Complete
    <2> QED BY <1>13, <2>2 DEF ReadSoFar, SamePair
<1>4. ASSUME UNCHANGED <<changes, runs, ledger>>,
             Resolving' \subseteq Resolving, \A u \in Resolving' : proc'[u] = proc[u]
      PROVE  AllMarked'
    BY <1>2, <1>4, <1>13 DEF AllMarked, SamePair
<1>5. ASSUME NEW t \in Tools, NEW work, Hold(t, work), work.pc # "resolving",
             UNCHANGED <<changes, runs, ledger>>
      PROVE  AllMarked'
    BY <1>4, <1>5, OthersKeep
<1>6. ASSUME NEW t \in Tools, NEW c \in Contents, Retrieve(t, c) PROVE AllMarked'
    BY <1>5, <1>6 DEF Retrieve
<1>7. ASSUME NEW t \in Tools, preserve_source_version(t) PROVE AllMarked'
    BY <1>5, <1>7 DEF preserve_source_version, Idle
<1>8. ASSUME NEW t \in Tools, NEW old, NEW new, NEW structured, NEW meeting,
             ReadPair(t, old, new, structured, meeting)
      PROVE  AllMarked'
    BY <1>5, <1>8 DEF ReadPair
<1>9. ASSUME NEW t \in Tools, detect_and_store(t) PROVE AllMarked'
    <2> DEFINE found == [f \in {"old", "new", "segments", "basis", "meeting"} |-> proc[t][f]]
    <2>1. /\ changes' = changes
             \/ (changes' = changes \cup {found} /\ ~\E c \in changes : SamePair(c, found))
          /\ Hold(t, Idle) /\ UNCHANGED <<runs, ledger>>
        BY <1>9 DEF detect_and_store
    <2>2. /\ Resolving' \subseteq Resolving
          /\ \A u \in Resolving' : proc'[u] = proc[u]
        BY <2>1, OthersKeep DEF Idle
    <2> HIDE DEF found
    <2>3. /\ \A r \in runs, c \in changes' : SamePair(r, c) => c \in changes
          /\ \A u \in Resolving, c \in changes' : SamePair(proc[u], c) => c \in changes
        BY <2>1 DEF PairsOK, SamePair
    <2>4. \A u \in Resolving' : ReadSoFar(proc[u])'
        BY <1>13, <2>2, <2>3
    <2>5. \A r \in runs', c \in changes' : SamePair(r, c) =>
              \A g \in c.segments : Complete(g, r.at, InLedger(c, g))'
        BY <1>2, <2>1, <2>3
    <2> QED BY <2>4, <2>5 DEF AllMarked, SamePair
<1>10. ASSUME NEW t \in Tools, invalidate(t) PROVE AllMarked'
    <2> DEFINE run == [old |-> proc[t].old, new |-> proc[t].new, at |-> proc[t].at]
    <2>1. /\ Hold(t, Idle) /\ UNCHANGED changes /\ runs' = runs \cup {run}
          /\ t \in Resolving /\ ledger' = ledger \cup NewEntries(proc[t])
        BY <1>10 DEF invalidate, At, Resolving
    <2>2. /\ Resolving' \subseteq Resolving
          /\ \A u \in Resolving' : proc'[u] = proc[u]
        BY <2>1, OthersKeep DEF Idle
    <2>3. ASSUME NEW c \in changes, SamePair(run, c), NEW g \in c.segments,
                 NEW read, read = run.at
          PROVE  Complete(g, read, InLedger(c, g))'
        <3> DEFINE many == {e.record : e \in {d \in ledger' : SamePair(d, c) /\ d.segment = g}}
                   few == InHand(proc[t], g)
        <3>1. SamePair(proc[t], c) /\ OfAChange(proc[t]) /\ read = proc[t].at
            BY <2>1, <2>3 DEF SamePair, PairsOK, OfAChange
        <3>2. Complete(g, proc[t].at, few)
            <4>1. proc[t].todo = {} /\ ReadSoFar(proc[t])
                BY <1>10, <2>1 DEF invalidate, AllMarked
            <4> QED BY <2>3, <3>1, <4>1 DEF ReadSoFar
        <3>3. ASSUME NEW row \in proc[t].rows, row.segment = g PROVE row.record \in many
            <4> DEFINE e == Entry(proc[t], row)
            <4>1. e.record = row.record /\ e.segment = g /\ SamePair(e, c)
                BY <3>1, <3>3 DEF Entry, SamePair
            <4>2. e \in NewEntries(proc[t]) \/ \E f \in ledger : SameEntry(e, f)
                BY DEF NewEntries
            <4> HIDE DEF e
            <4>3. CASE e \in NewEntries(proc[t])
                BY <2>1, <4>1, <4>3
            <4>4. CASE \E f \in ledger : SameEntry(e, f)
                <5>1. PICK f \in ledger : SameEntry(e, f)
                    BY <4>4
                <5>2. /\ f \in ledger' /\ SamePair(f, c) /\ f.segment = g
                      /\ f.record = row.record
                    BY <2>1, <4>1, <5>1 DEF SameEntry, SamePair
                <5> QED BY <5>2
            <4> QED BY <4>2, <4>3, <4>4
        <3>4. few \subseteq many
            BY <3>3 DEF InHand
        <3>5. InLedger(c, g)' = many
            BY <2>3 DEF InLedger, SamePair
        <3> HIDE DEF few, many
        <3>6. \A z : z = many => Complete(g, read, z)'
            BY <1>1, <3>1, <3>2, <3>4, CompleteStays DEF OfAChange
        <3> QED BY <3>5, <3>6 DEF Complete
    <2> HIDE DEF run
    <2>4. \A r \in runs', c \in changes' : SamePair(r, c) =>
              \A g \in c.segments : Complete(g, r.at, InLedger(c, g))'
        BY <1>2, <2>1, <2>3
    <2>5. \A u \in Resolving' : ReadSoFar(proc[u])'
        BY <1>13, <2>1, <2>2
    <2> QED BY <2>4, <2>5 DEF AllMarked, SamePair
<1>11. ASSUME NEW t \in Tools, NEW w, NEW h, Reads(t, w, h) PROVE AllMarked'
    <2>1. UNCHANGED <<changes, runs, ledger, clock, place, decided>>
        BY <1>11 DEF Reads
    <2>2. /\ Resolving' = Resolving \cup {t}
          /\ \A u \in Resolving : u # t => proc'[u] = proc[u]
          /\ proc'[t].at = w.at /\ proc'[t].todo = w.todo \ {h}
          /\ proc'[t].rows = w.rows \cup RowsOf(h, clock)
          /\ proc'[t].old = w.old /\ proc'[t].new = w.new /\ OfAChange(w)
        BY <1>11, OneReads
    <2>3. ReadSoFar(w)
        <3>1. CASE proc[t].pc = "resolving" /\ w = proc[t]
            BY <3>1 DEF AllMarked, Resolving
        <3>2. ASSUME NEW c \in changes,
                     w = [old |-> c.old, new |-> c.new, at |-> clock, todo |-> c.segments,
                          rows |-> {}]
              PROVE  ReadSoFar(w)
            <4>1. SamePair(w, c) /\ w.todo = c.segments
                BY <3>2 DEF SamePair
            <4>2. \A d \in changes : SamePair(w, d) => d = c
                BY <4>1 DEF PairsOK, SamePair
            <4> QED BY <4>1, <4>2 DEF ReadSoFar
        <3> QED BY <1>11, <3>1, <3>2 DEF Reads
    <2>4. ASSUME NEW c \in changes, SamePair(w, c), NEW g \in c.segments \ (w.todo \ {h}),
                 NEW more, more = InHand(proc[t], g)'
          PROVE  Complete(g, w.at, more)'
        <3>1. InHand(w, g) \subseteq more
            BY <2>2, <2>4 DEF InHand
        <3>2. CASE g \notin w.todo
            <4>1. Complete(g, w.at, InHand(w, g))
                BY <2>3, <2>4, <3>2 DEF ReadSoFar
            <4> QED BY <1>3, <2>2, <3>1, <4>1
        <3>3. CASE g = h
            <4> DEFINE rows == IF Resolved(g) = {} THEN {<<Unresolved, g>>} ELSE Resolved(g)
            <4>1. rows \subseteq more
                <5>1. ASSUME NEW r \in rows PROVE r \in more
                    <6> DEFINE row == [segment |-> g, record |-> r, at |-> clock]
                    <6>1. row \in RowsOf(h, clock)
                        BY <3>3 DEF RowsOf
                    <6>2. row.segment = g /\ row.record = r
                        OBVIOUS
                    <6> HIDE DEF row
                    <6> QED BY <2>2, <2>4, <6>1, <6>2 DEF InHand
                <5> QED BY <5>1
            <4>2. rows # {} /\ Resolved(g) \subseteq rows
                OBVIOUS
            <4>3. Resolved(g)' = Resolved(g)
                BY <2>1 DEF Resolved, Located, _reviews_for_statements
            <4>4. more # {} /\ Resolved(g)' \subseteq more
                BY <4>1, <4>2, <4>3
            <4> QED BY <4>4 DEF Complete
        <3> QED BY <2>4, <3>2, <3>3
    <2>5. ReadSoFar(proc[t])'
        BY <2>1, <2>2, <2>4 DEF ReadSoFar, SamePair, Complete
    <2>6. \A u \in Resolving' : ReadSoFar(proc[u])'
        <3>1. ASSUME NEW u \in Resolving, u # t PROVE ReadSoFar(proc[u])'
            BY <1>13, <2>1, <2>2, <3>1
        <3> QED BY <2>2, <2>5, <3>1
    <2>7. \A r \in runs', c2 \in changes' : SamePair(r, c2) =>
              \A g \in c2.segments : Complete(g, r.at, InLedger(c2, g))'
        BY <1>2, <2>1
    <2> QED BY <2>1, <2>6, <2>7 DEF AllMarked, SamePair
<1>12. ASSUME UNCHANGED <<changes, runs, ledger, proc>> PROVE AllMarked'
    BY <1>4, <1>12 DEF Resolving
<1> QED BY <1>6, <1>7, <1>8, <1>9, <1>10, <1>11, <1>12, NextCases
        DEF Decide, Anchor, PromoteAnchored, Notify, vars

LEMMA InvHolds == Spec => []Inv
<1>1. Init => PairsOK /\ MarksAgree /\ AllMarked
    <2> SUFFICES ASSUME Init PROVE PairsOK /\ MarksAgree /\ AllMarked
        OBVIOUS
    <2>1. Resolving = {}
        BY DEF Init, Resolving, Idle
    <2>2. Marks = {}
        BY <2>1 DEF Init, Marks
    <2> QED BY <2>1, <2>2 DEF Init, PairsOK, MarksAgree, AllMarked
<1> QED BY <1>1, BaseHolds, PairsStep, MarksStep, AllMarkedStep, PTL DEF Spec, Inv

(* What a change affects and no row marks has got there since the registry *)
(* was last read for it.  (invalidate, stage5_affected_set.py)             *)
THEOREM UnmarkedHolds == Spec => []UnmarkedIsNewer
<1>1. Inv => UnmarkedIsNewer
    <2> SUFFICES ASSUME Inv, NEW run \in runs, NEW c \in changes, SamePair(run, c),
                        NEW g \in c.segments, NEW r \in Resolved(g)
                 PROVE  \/ Since(r) > run.at
                        \/ \E e \in ledger : SamePair(e, c) /\ e.segment = g /\ e.record = r
        BY DEF UnmarkedIsNewer
    <2>1. Since(r) > run.at \/ r \in InLedger(c, g)
        BY DEF Inv, AllMarked, Complete
    <2> QED BY <2>1 DEF InLedger
<1> QED BY <1>1, InvHolds, PTL

(* A change that has been invalidated covers each of its segments, and a   *)
(* flag stands beside a record only if they come from two readings.        *)
(* (resolve_affected, assert_every_segment_covered, stage5_affected_set.py)*)
THEOREM FlagsHold == Spec => []FlagsFillTheGaps
<1>1. Inv => FlagsFillTheGaps
    <2> SUFFICES ASSUME Inv, NEW run \in runs, NEW c \in changes, SamePair(run, c),
                        NEW g \in c.segments
                 PROVE  LET rows == {e \in ledger : SamePair(e, c) /\ e.segment = g} IN
                        /\ rows # {}
                        /\ \A e, f \in rows :
                               e.record[1] = Unresolved /\ f.record[1] # Unresolved
                                   => e.at # f.at
        BY DEF FlagsFillTheGaps
    <2>1. InLedger(c, g) # {}
        BY DEF Inv, AllMarked, Complete
    <2>2. \A e, f \in ledger : e.segment = f.segment /\ e.at = f.at => (Flag(e) <=> Flag(f))
        BY DEF Inv, MarksAgree, Marks
    <2> QED BY <2>1, <2>2 DEF InLedger, Flag
<1> QED BY <1>1, InvHolds, PTL
=============================================================================
