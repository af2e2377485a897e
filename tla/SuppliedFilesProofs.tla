------------------------ MODULE SuppliedFilesProofs ------------------------
(***************************************************************************)
(* Proofs about SuppliedFiles for any number of files, tools, downstream   *)
(* records, edits and kills.                                               *)
(***************************************************************************)
EXTENDS SuppliedFiles, FiniteSetTheorems, TLAPS

FileRow == [sha : Contents, state : REVIEW_STATES, prior : Nat, read : Nat, reviewed : Nat]
DepRow == [file : Nat, ref : Refs, flag : {"current", "needs_re_review"}, seen : Nat]
EventRow == [prior : Nat, new : Nat]

(* The rows, and that links and dependents name files and events there are.*)
TypeOK ==
    /\ objects \subseteq Contents
    /\ files \in Seq(FileRow)
    /\ events \in Seq(EventRow)
    /\ \A l \in links : l.file \in DOMAIN files
    /\ deps \subseteq DepRow
    /\ epoch \in Nat
    /\ proc = [t \in Tools |-> proc[t]]

(* What a tool holds between its read and its write.                       *)
Truth == IF has_primary_source THEN "resolved" ELSE "open"
WorkOK(w) ==
    /\ w.pc = "stored" => w.sha \in Contents
    /\ w.pc = "supersede" => /\ w.sha \in Contents /\ w.prior \in DOMAIN files
                             /\ w.read \in Nat
    /\ w.pc = "flag" => w.prior \in Nat /\ w.new \in Nat
    /\ w.pc = "review" => /\ w.file \in DOMAIN files /\ w.from \in REVIEW_STATES
                          /\ w.to \in _LEGAL_TRANSITIONS(w.from)
    /\ w.pc = "refresh" => /\ w.epoch \in Nat /\ w.epoch <= epoch
                           /\ w.epoch = epoch => w.target = Truth
WorksOK == \A t \in Tools : WorkOK(proc[t])

(* A gap of this epoch tells the truth.                                    *)
GapOK ==
    /\ gap.epoch \in Int /\ gap.epoch <= epoch
    /\ gap.epoch = epoch /\ gap.status \in {"open", "resolved"} => gap.status = Truth

Inv == TypeOK /\ WorksOK /\ GapOK /\ RedFlagsReachDependents

LEMMA Handed ==
    ASSUME proc = [u \in Tools |-> proc[u]], NEW t \in Tools, NEW work, Hold(t, work)
    PROVE  /\ proc' = [u \in Tools |-> proc'[u]]
           /\ proc'[t] = work
           /\ \A u \in Tools : u # t => proc'[u] = proc[u]
BY DEF Hold

(* A step that leaves the files and links alone leaves the truth alone.    *)
LEMMA TruthStays ==
    ASSUME UNCHANGED <<files, links, epoch>>
    PROVE  Truth' = Truth /\ \A w : WorkOK(w) => WorkOK(w)'
<1>1. Truth' = Truth
    BY DEF Truth, has_primary_source
<1> QED BY <1>1 DEF WorkOK

(* A step that only replaces what one tool holds.                          *)
LEMMA WorkStep ==
    ASSUME Inv, NEW t \in Tools, NEW work, Hold(t, work),
           \A w : WorkOK(w) => WorkOK(w)', WorkOK(work)'
    PROVE  WorksOK' /\ proc' = [u \in Tools |-> proc'[u]]
<1>1. /\ proc' = [u \in Tools |-> proc'[u]]
      /\ proc'[t] = work
      /\ \A u \in Tools : u # t => proc'[u] = proc[u]
    BY Handed DEF Inv, TypeOK
<1>2. ASSUME NEW u \in Tools, NEW w, w = proc'[u] PROVE WorkOK(w)'
    <2>1. w = work \/ w = proc[u]
        BY <1>1, <1>2
    <2>2. WorkOK(proc[u])
        BY DEF Inv, WorksOK
    <2>3. \A x : x = proc[u] => WorkOK(x)'
        BY <2>2
    <2> QED BY <2>1, <2>3
<1> QED BY <1>1, <1>2 DEF WorksOK, WorkOK

(* Tools that hold nothing that is checked.                                *)
LEMMA IdleOK == WorkOK(Idle) /\ WorkOK(Idle)'
BY DEF WorkOK, Idle

(* A new row is the source of nothing yet.                                 *)
LEMMA AppendStays ==
    ASSUME TypeOK, NEW file \in FileRow, files' = Append(files, file), UNCHANGED <<links, epoch>>
    PROVE  /\ files' \in Seq(FileRow)
           /\ DOMAIN files \subseteq DOMAIN files'
           /\ Truth' = Truth
           /\ \A w : WorkOK(w) => WorkOK(w)'
<1>1. /\ files' \in Seq(FileRow)
      /\ DOMAIN files \subseteq DOMAIN files'
      /\ \A i \in DOMAIN files : files'[i] = files[i]
    BY DEF TypeOK
<1>2. Truth' = Truth
    BY <1>1 DEF Truth, has_primary_source, TypeOK
<1> QED BY <1>1, <1>2 DEF WorkOK

(* After an edit nothing read before it counts as of the present.          *)
LEMMA EditStays ==
    ASSUME TypeOK, epoch' = epoch + 1, DOMAIN files' = DOMAIN files
    PROVE  /\ \A w : WorkOK(w) => WorkOK(w)'
           /\ GapOK /\ gap' = gap => GapOK'
BY DEF TypeOK, WorkOK, GapOK

LEMMA InvStep == Inv /\ [Next]_vars => Inv'
<1> SUFFICES ASSUME Inv, [Next]_vars PROVE Inv'
    OBVIOUS
<1>t. TypeOK /\ WorksOK /\ GapOK /\ RedFlagsReachDependents
    BY DEF Inv
<1>e. epoch \in Nat /\ Len(files) \in Nat /\ DOMAIN files = 1 .. Len(files)
    BY <1>t DEF TypeOK
<1>1. ASSUME NEW t \in Tools, NEW work, Hold(t, work), \A w : w = work => WorkOK(w)',
             UNCHANGED <<files, deps, events, links, epoch>>, objects' \subseteq Contents, GapOK'
      PROVE  Inv'
    <2>1. WorksOK' /\ proc' = [u \in Tools |-> proc'[u]]
        BY <1>1, WorkStep, TruthStays
    <2> QED BY <1>t, <1>1, <2>1 DEF Inv, TypeOK, RedFlagsReachDependents
<1>2. UNCHANGED <<files, links, epoch, gap>> => GapOK'
    BY <1>t, TruthStays DEF GapOK
<1>3. \A w : w = Idle => WorkOK(w)'
    BY IdleOK DEF WorkOK, Idle
<1>4. ASSUME NEW t \in Tools, NEW c \in Contents, put(t, c) PROVE Inv'
    <2>1. \A w : w = [pc |-> "stored", sha |-> c] => WorkOK(w)'
        BY DEF WorkOK
    <2> QED BY <1>t, <1>1, <1>2, <1>4, <2>1 DEF put, TypeOK
<1>5. ASSUME NEW t \in Tools, NEW file \in FileRow, NEW work, Hold(t, work),
             \A w : w = work => WorkOK(w)', files' = Append(files, file),
             UNCHANGED <<objects, deps, events, links, gap, epoch>>
      PROVE  Inv'
    <2>1. /\ files' \in Seq(FileRow)
          /\ DOMAIN files \subseteq DOMAIN files'
          /\ Truth' = Truth
          /\ \A w : WorkOK(w) => WorkOK(w)'
        BY <1>t, <1>5, AppendStays
    <2>2. WorksOK' /\ proc' = [u \in Tools |-> proc'[u]]
        BY <1>5, <2>1, WorkStep
    <2>3. GapOK'
        BY <1>t, <1>5, <2>1 DEF GapOK
    <2> QED BY <1>t, <1>5, <2>1, <2>2, <2>3 DEF Inv, TypeOK, RedFlagsReachDependents
<1>22. ASSUME NEW f \in Ids, NEW c \in Contents, NEW t \in Tools, ReadPrior(t, f, c) PROVE Inv'
    <2>1. files' = files
        BY <1>22 DEF ReadPrior
    <2>2. \A w : w = [pc |-> "supersede", prior |-> f, sha |-> c, snapshot |-> files[f].state,
                      read |-> epoch] => WorkOK(w)'
        BY <1>e, <2>1 DEF WorkOK, Ids
    <2> QED BY <1>t, <1>1, <1>2, <1>22, <2>2 DEF ReadPrior, TypeOK
<1>6. ASSUME NEW t \in Tools, SupersedeInsert(t) PROVE Inv'
    <2> DEFINE file == NewFile(proc[t].sha, proc[t].prior, proc[t].read)
               work == [pc |-> "flag", prior |-> proc[t].prior, new |-> Len(files) + 1,
                        snapshot |-> proc[t].snapshot]
    <2>1. proc[t].sha \in Contents /\ proc[t].prior \in DOMAIN files /\ proc[t].read \in Nat
        BY <1>t, <1>6 DEF SupersedeInsert, At, WorksOK, WorkOK
    <2>2. file \in FileRow
        BY <1>e, <2>1 DEF NewFile, FileRow, REVIEW_STATES
    <2>3. proc[t].prior \in Nat
        BY <1>e, <2>1
    <2>4. \A w : w = work => WorkOK(w)'
        BY <1>e, <2>3 DEF WorkOK
    <2>5. /\ Hold(t, work) /\ files' = Append(files, file)
          /\ UNCHANGED <<objects, deps, events, links, gap, epoch>>
        BY <1>6 DEF SupersedeInsert
    <2> HIDE DEF work, file
    <2> QED BY <1>5, <2>2, <2>4, <2>5
<1>7. ASSUME NEW t \in Tools, insert_file_record(t) PROVE Inv'
    <2>1. proc[t].sha \in Contents
        BY <1>t, <1>7 DEF insert_file_record, At, WorksOK, WorkOK
    <2>2. NewFile(proc[t].sha, NoFile, 0) \in FileRow
        BY <1>e, <2>1 DEF NewFile, FileRow, REVIEW_STATES, NoFile
    <2> QED BY <1>3, <1>5, <1>7, <2>2 DEF insert_file_record, Release
<1>8. ASSUME NEW t \in Tools, SupersedeFlag(t) PROVE Inv'
    <2> DEFINE prior == proc[t].prior
               event == [prior |-> prior, new |-> proc[t].new]
               hit == Affected(prior, proc[t].new)
    <2>1. event \in EventRow
        BY <1>t, <1>8 DEF SupersedeFlag, At, WorksOK, WorkOK, EventRow
    <2>2. Hold(t, Idle) /\ UNCHANGED <<objects, files, links, gap, epoch>>
        BY <1>8 DEF SupersedeFlag, Release
    <2>3. WorksOK' /\ proc' = [u \in Tools |-> proc'[u]]
        BY <1>3, <2>2, WorkStep, TruthStays
    <2>4. CASE UNCHANGED <<deps, events>>
        BY <1>t, <1>2, <2>2, <2>3, <2>4 DEF Inv, TypeOK, RedFlagsReachDependents
    <2>5. CASE /\ deps' = (deps \ hit) \cup {Flagged(d) : d \in hit}
               /\ events' = Append(events, event)
        <3>1. \A d \in hit : Flagged(d).flag = "needs_re_review"
            BY <1>t DEF Flagged, Affected, TypeOK, DepRow
        <3>2. \A d \in deps \ hit : d.file = prior => d.flag = "needs_re_review"
            BY <1>t DEF Affected, TypeOK, DepRow
        <3>0. {Flagged(d) : d \in hit} \subseteq DepRow
            BY <1>t DEF Flagged, Affected, TypeOK, DepRow
        <3>3. /\ events' \in Seq(EventRow) /\ Len(events) \in Nat
              /\ DOMAIN events' = 1 .. (Len(events) + 1) /\ DOMAIN events = 1 .. Len(events)
              /\ events'[Len(events) + 1] = event
              /\ \A i \in DOMAIN events : events'[i] = events[i]
            BY <1>t, <2>1, <2>5 DEF TypeOK
        <3> HIDE DEF hit
        <3>4. deps' \subseteq DepRow
            BY <1>t, <2>5, <3>0 DEF TypeOK
        <3>5. ASSUME NEW i \in DOMAIN events', NEW d \in deps', d.file = events'[i].prior
              PROVE  d.flag = "needs_re_review" \/ d.seen >= i
            <4>1. CASE d \notin deps \ hit
                BY <2>5, <3>1, <3>5, <4>1
            <4>2. CASE d \in deps \ hit /\ i = Len(events) + 1
                BY <3>2, <3>3, <3>5, <4>2
            <4>3. CASE d \in deps \ hit /\ i # Len(events) + 1
                <5>1. i \in DOMAIN events /\ d \in deps /\ d.file = events[i].prior
                    BY <3>3, <3>5, <4>3
                <5> QED BY <1>t, <5>1 DEF RedFlagsReachDependents
            <4> QED BY <4>1, <4>2, <4>3
        <3>6. RedFlagsReachDependents'
            BY <3>5 DEF RedFlagsReachDependents
        <3> QED BY <1>t, <1>2, <2>2, <2>3, <3>3, <3>4, <3>6 DEF Inv, TypeOK
    <2> QED BY <1>8, <2>4, <2>5 DEF SupersedeFlag
<1>9. ASSUME NEW f \in Ids, NEW to \in Asked, NEW t \in Tools, ReadReviewState(t, f, to) PROVE Inv'
    <2>0. files[f] \in FileRow
        BY <1>t, <1>9 DEF TypeOK, Ids
    <2>1. files[f].state \in REVIEW_STATES /\ files' = files
        BY <1>9, <2>0 DEF FileRow, ReadReviewState
    <2>2. \A w : w = [pc |-> "review", file |-> f, from |-> files[f].state, to |-> to] => WorkOK(w)'
        BY <1>9, <2>1 DEF WorkOK, ReadReviewState, Ids
    <2> QED BY <1>t, <1>1, <1>2, <1>9, <2>2 DEF ReadReviewState, TypeOK
<1>10. ASSUME NEW t \in Tools, set_review_state(t) PROVE Inv'
    <2> DEFINE f == proc[t].file
    <2>1. f \in DOMAIN files /\ proc[t].to \in REVIEW_STATES
        BY <1>t, <1>10 DEF set_review_state, At, WorksOK, WorkOK, _LEGAL_TRANSITIONS, REVIEW_STATES
    <2>2. /\ files' = [files EXCEPT ![f] = [@ EXCEPT !.state = proc[t].to, !.reviewed = epoch + 1]]
          /\ epoch' = epoch + 1 /\ Hold(t, Idle)
          /\ UNCHANGED <<objects, deps, events, links, gap>>
        BY <1>10 DEF set_review_state, Release
    <2> HIDE DEF f
    <2> DEFINE row == [files[f] EXCEPT !.state = proc[t].to, !.reviewed = epoch + 1]
    <2>r. row \in FileRow
        <3>1. files[f] \in FileRow
            BY <1>t, <2>1 DEF TypeOK
        <3>2. \A file \in FileRow, to \in REVIEW_STATES, n \in Nat :
                  [file EXCEPT !.state = to, !.reviewed = n] \in FileRow
            BY DEF FileRow
        <3>3. epoch + 1 \in Nat
            BY <1>e
        <3> HIDE DEF f
        <3> QED BY <2>1, <3>1, <3>2, <3>3, Zenon DEF row
    <2> HIDE DEF row
    <2>x. files' = [files EXCEPT ![f] = row]
        BY <2>2 DEF row
    <2>3. files' \in Seq(FileRow) /\ DOMAIN files' = DOMAIN files
        BY <1>t, <2>1, <2>r, <2>x DEF TypeOK
    <2>4. (\A w : WorkOK(w) => WorkOK(w)') /\ GapOK'
        BY <1>t, <2>2, <2>3, EditStays
    <2>5. WorksOK' /\ proc' = [u \in Tools |-> proc'[u]]
        BY <1>3, <2>2, <2>4, WorkStep
    <2> QED BY <1>t, <1>e, <2>2, <2>3, <2>4, <2>5 DEF Inv, TypeOK, RedFlagsReachDependents
<1>11. ASSUME NEW t \in Tools, ReadLinks(t) PROVE Inv'
    <2>1. UNCHANGED <<objects, files, deps, events, links, epoch>>
        BY <1>11 DEF ReadLinks
    <2>2. CASE gap' = [gap EXCEPT !.epoch = epoch] /\ UNCHANGED proc /\ Truth = gap.status
        <3>1. GapOK'
            <4>1. gap'.epoch = epoch \/ gap'.epoch = gap.epoch
                BY <2>2
            <4>2. gap'.status = gap.status \/ gap' = gap
                BY <2>2
            <4> QED BY <1>t, <1>e, <2>1, <2>2, <4>1, <4>2, TruthStays DEF GapOK
        <3>2. WorksOK'
            BY <1>t, <2>1, <2>2, TruthStays DEF WorksOK, WorkOK
        <3> QED BY <1>t, <2>1, <2>2, <3>1, <3>2 DEF Inv, TypeOK, RedFlagsReachDependents
    <2>3. CASE /\ Hold(t, [pc |-> "refresh", epoch |-> epoch, target |-> Truth])
               /\ UNCHANGED gap
        <3>1. \A w : w = [pc |-> "refresh", epoch |-> epoch, target |-> Truth] => WorkOK(w)'
            BY <1>e, <2>1, TruthStays DEF WorkOK
        <3> QED BY <1>t, <1>1, <1>2, <2>1, <2>3, <3>1 DEF TypeOK
    <2> QED BY <1>11, <2>2, <2>3 DEF ReadLinks, Truth
<1>12. ASSUME NEW t \in Tools, refresh_no_primary_source_gap(t) PROVE Inv'
    <2>1. /\ gap' = [status |-> proc[t].target, epoch |-> proc[t].epoch] /\ Hold(t, Idle)
          /\ UNCHANGED <<objects, files, deps, events, links, epoch>> /\ proc[t].pc = "refresh"
        BY <1>12 DEF refresh_no_primary_source_gap, Release, At
    <2>2. proc[t].epoch \in Nat /\ proc[t].epoch <= epoch
          /\ (proc[t].epoch = epoch => proc[t].target = Truth)
        BY <1>t, <2>1 DEF WorksOK, WorkOK
    <2>3. GapOK'
        BY <2>1, <2>2, TruthStays DEF GapOK
    <2> QED BY <1>t, <1>1, <1>3, <2>1, <2>3 DEF TypeOK
<1>13. ASSUME NEW t \in Tools, Killed(t) PROVE Inv'
    BY <1>t, <1>1, <1>2, <1>3, <1>13 DEF Killed, Release, TypeOK
<1>14. ASSUME NEW f \in Ids, NEW ref \in Refs, register_dependency(f, ref) PROVE Inv'
    <2>1. /\ deps' = deps \cup {[file |-> f, ref |-> ref, flag |-> "current", seen |-> Len(events)]}
          /\ UNCHANGED <<objects, files, events, links, gap, proc, epoch>>
        BY <1>14 DEF register_dependency
    <2>2. DOMAIN events = 1 .. Len(events) /\ Len(events) \in Nat
        BY <1>t DEF TypeOK
    <2>3. RedFlagsReachDependents' /\ deps' \subseteq DepRow
        BY <1>t, <1>e, <2>1, <2>2 DEF RedFlagsReachDependents, TypeOK, DepRow, Ids
    <2>4. WorksOK'
        BY <1>t, <2>1, TruthStays DEF WorksOK, WorkOK
    <2> QED BY <1>t, <1>2, <2>1, <2>3, <2>4 DEF Inv, TypeOK
<1>23. ASSUME NEW t \in Tools, NEW d \in deps, ReadFlag(t, d) PROVE Inv'
    <2>1. \A w : w = [pc |-> "resolve", file |-> d.file, ref |-> d.ref] => WorkOK(w)'
        BY DEF WorkOK
    <2> QED BY <1>t, <1>1, <1>2, <1>23, <2>1 DEF ReadFlag, TypeOK
<1>15. ASSUME NEW t \in Tools, resolve_re_review(t) PROVE Inv'
    <2> DEFINE hit == Resolved(t)
    <2>1. /\ deps' = (deps \ hit) \cup {Cleared(d) : d \in hit} /\ hit \subseteq deps
          /\ UNCHANGED <<objects, files, events, links, gap, epoch>> /\ Hold(t, Idle)
        BY <1>15 DEF resolve_re_review, Release, Resolved
    <2>2. DOMAIN events = 1 .. Len(events) /\ Len(events) \in Nat
        BY <1>t DEF TypeOK
    <2>3. \A d \in hit : Cleared(d) \in DepRow /\ Cleared(d).seen = Len(events)
        BY <1>t, <2>1, <2>2 DEF TypeOK, DepRow, Cleared
    <2> HIDE DEF hit
    <2>4. RedFlagsReachDependents' /\ deps' \subseteq DepRow
        BY <1>t, <2>1, <2>2, <2>3 DEF RedFlagsReachDependents, TypeOK
    <2>5. WorksOK' /\ proc' = [u \in Tools |-> proc'[u]]
        BY <1>3, <2>1, WorkStep, TruthStays
    <2> QED BY <1>t, <1>2, <2>1, <2>4, <2>5 DEF Inv, TypeOK
<1>16. ASSUME \A l \in links' : l.file \in DOMAIN files, epoch' = epoch + 1,
              UNCHANGED <<objects, files, deps, events, gap, proc>>
       PROVE  Inv'
    <2>1. (\A w : WorkOK(w) => WorkOK(w)') /\ GapOK'
        BY <1>t, <1>16, EditStays
    <2>2. WorksOK'
        <3>1. ASSUME NEW u \in Tools, NEW w, w = proc'[u] PROVE WorkOK(w)'
            <4>1. WorkOK(proc[u])
                BY <1>t DEF WorksOK
            <4>2. \A x : x = proc[u] => WorkOK(x)'
                BY <2>1, <4>1
            <4> QED BY <1>16, <3>1, <4>2
        <3> QED BY <3>1 DEF WorksOK, WorkOK
    <2> QED BY <1>t, <1>e, <1>16, <2>1, <2>2 DEF Inv, TypeOK, RedFlagsReachDependents
<1>17. ASSUME NEW f \in Ids, NEW primary \in BOOLEAN, link_file(f, primary) PROVE Inv'
    BY <1>t, <1>16, <1>17 DEF link_file, TypeOK, Ids
<1>18. ASSUME NEW f \in Ids, unlink_file(f) PROVE Inv'
    BY <1>t, <1>16, <1>18 DEF unlink_file, TypeOK
<1>19. ASSUME UNCHANGED <<objects, files, deps, events, links, proc, epoch>>, GapOK' PROVE Inv'
    <2>1. WorksOK'
        BY <1>t, <1>19, TruthStays DEF WorksOK, WorkOK
    <2> QED BY <1>t, <1>19, <2>1 DEF Inv, TypeOK, RedFlagsReachDependents
<1>20. record_gap \/ Acknowledge => Inv'
    BY <1>e, <1>19 DEF record_gap, Acknowledge, GapOK
<1>21. UNCHANGED vars => Inv'
    BY <1>2, <1>19 DEF vars
<1> QED
    BY <1>4, <1>6, <1>7, <1>8, <1>9, <1>10, <1>11, <1>12, <1>13, <1>14, <1>15, <1>17, <1>18,
       <1>20, <1>21, <1>22, <1>23 DEF Next, Ids

LEMMA InvInit == Init => Inv
BY DEF Init, Inv, TypeOK, WorksOK, WorkOK, Idle, GapOK, RedFlagsReachDependents, FileRow, EventRow,
       DepRow

LEMMA InvHolds == Spec => []Inv
BY InvInit, InvStep, PTL DEF Spec

\* Work built on a version that has since been superseded waits for its review
\* or was cleared or registered since, whatever the tools have in hand and
\* wherever they die (supersede_file, resolve_re_review).
THEOREM RedFlags == Spec => []RedFlagsReachDependents
<1>1. Inv => RedFlagsReachDependents
    BY DEF Inv
<1> QED BY <1>1, InvHolds, PTL

\* A gap refreshed from the links and states that still hold tells the truth
\* (refresh_no_primary_source_gap).
THEOREM FreshGaps == Spec => []FreshGapIsTrue
<1>1. Inv => FreshGapIsTrue
    BY DEF Inv, GapOK, FreshGapIsTrue, Truth, has_primary_source, _owned_no_primary_source_gap
<1> QED BY <1>1, InvHolds, PTL

ReopenedFirst ==
    \A f \in Ids : files[f].state = "rejected" /\ files'[f].state = "web_safe"
        => \E t \in Tools : At(t, "review") /\ proc[t].file = f /\ proc[t].from = "reviewing"

LEMMA StateStays ==
    ASSUME Inv, [Next]_vars, NEW f \in Ids, files'[f].state # files[f].state
    PROVE  \E t \in Tools : set_review_state(t) /\ proc[t].file = f
<1>1. \A file : files' = Append(files, file) => files'[f] = files[f]
    BY DEF Inv, TypeOK, Ids
<1>2. files' # files
    OBVIOUS
<1>3. PICK t \in Tools :
          \/ SupersedeInsert(t)
          \/ insert_file_record(t)
          \/ set_review_state(t)
    BY <1>2 DEF Next, vars, put, ReadPrior, SupersedeFlag, ReadReviewState, ReadLinks,
       refresh_no_primary_source_gap, Killed, register_dependency, ReadFlag, resolve_re_review,
       link_file, unlink_file, record_gap, Acknowledge
<1>4. set_review_state(t)
    BY <1>1, <1>3 DEF SupersedeInsert, insert_file_record
<1>5. proc[t].file = f
    BY <1>4 DEF set_review_state, Ids
<1> QED BY <1>4, <1>5

\* A rejected file is shown again only by a decision read while it was under
\* review (set_review_state).
THEOREM Reopened == Spec => NeverStraightToWebSafe
<1>1. Inv /\ [Next]_vars => [ReopenedFirst]_vars
    <2> SUFFICES ASSUME Inv, [Next]_vars, NEW f \in Ids,
                        files[f].state = "rejected", files'[f].state = "web_safe"
                 PROVE  \E t \in Tools : At(t, "review") /\ proc[t].file = f
                                         /\ proc[t].from = "reviewing"
        BY DEF ReopenedFirst
    <2>1. PICK t \in Tools : set_review_state(t) /\ proc[t].file = f
        BY StateStays
    <2>2. /\ At(t, "review") /\ proc[t].from \in REVIEW_STATES
          /\ proc[t].to \in _LEGAL_TRANSITIONS(proc[t].from)
        BY <2>1 DEF set_review_state, At, Inv, WorksOK, WorkOK
    <2>3. files'[f].state = proc[t].to
        <3>1. files[f] \in FileRow
            BY DEF Inv, TypeOK, Ids
        <3> QED BY <2>1, <3>1 DEF set_review_state, Ids, FileRow
    <2> QED BY <2>1, <2>2, <2>3 DEF _LEGAL_TRANSITIONS, REVIEW_STATES
<1> QED BY <1>1, InvHolds, PTL DEF Spec, NeverStraightToWebSafe, ReopenedFirst

-----------------------------------------------------------------------------
(* Versions without their event and objects without a row.  Those that a   *)
(* tool is still to see to are not lost.                                   *)
Owing(f) ==
    /\ files[f].prior # NoFile
    /\ ~\E i \in DOMAIN events : events[i].new = f
    /\ files[files[f].prior].reviewed <= files[f].read
Named(c) == \E f \in Ids : files[f].sha = c
Flags(t, f) == proc[t].pc = "flag" /\ proc[t].new = f
Stores(t, c) == proc[t].pc = "stored" /\ proc[t].sha = c

LostVersions == {f \in Ids : Owing(f) /\ ~\E t \in Tools : Flags(t, f)}
LostObjects == {c \in objects : ~Named(c) /\ ~\E t \in Tools : Stores(t, c)}

(* The version a tool is to make or to flag, and what its prior was: if it *)
(* is no longer that, it has been reviewed since it was read.              *)
FlagOK(w) ==
    /\ w.pc = "supersede" =>
           /\ w.prior \in Ids /\ w.read \in Nat /\ w.read <= epoch
           /\ files[w.prior].state # w.snapshot => files[w.prior].reviewed > w.read
    /\ w.pc = "flag" =>
           /\ w.new \in Ids /\ w.prior \in Ids /\ files[w.new].prior = w.prior
           /\ files[w.prior].state # w.snapshot => files[w.prior].reviewed > files[w.new].read

LeftInv ==
    /\ IsFiniteSet(objects) /\ crashes \in Nat
    /\ \A f \in Ids : files[f].prior < f /\ files[f].read <= epoch
    /\ \A t \in Tools : FlagOK(proc[t])
    /\ Cardinality(LostVersions) + Cardinality(LostObjects) <= crashes

LEMMA LostFinite ==
    ASSUME TypeOK, IsFiniteSet(objects)
    PROVE  /\ IsFiniteSet(LostVersions) /\ Cardinality(LostVersions) \in Nat
           /\ IsFiniteSet(LostObjects) /\ Cardinality(LostObjects) \in Nat
<1>1. Ids = 1..Len(files) /\ Len(files) \in Nat
    BY DEF TypeOK, Ids
<1>2. IsFiniteSet(Ids)
    BY <1>1, FS_Interval
<1>3. LostVersions \subseteq Ids /\ LostObjects \subseteq objects
    BY DEF LostVersions, LostObjects
<1> QED BY <1>2, <1>3, FS_Subset, FS_CardinalityType

LEMMA FewerLost ==
    ASSUME TypeOK, LeftInv, LostVersions' \subseteq LostVersions, LostObjects' \subseteq LostObjects
    PROVE  Cardinality(LostVersions') + Cardinality(LostObjects') <= crashes
<1> DEFINE V == LostVersions
           W == LostVersions'
           O == LostObjects
           P == LostObjects'
<1>1. /\ IsFiniteSet(V) /\ Cardinality(V) \in Nat
      /\ IsFiniteSet(O) /\ Cardinality(O) \in Nat
    BY LostFinite DEF LeftInv
<1>2. W \subseteq V /\ P \subseteq O /\ Cardinality(V) + Cardinality(O) <= crashes /\ crashes \in Nat
    BY DEF LeftInv
<1> HIDE DEF V, W, O, P
<1>3. Cardinality(W) <= Cardinality(V) /\ Cardinality(W) \in Nat
    BY <1>1, <1>2, FS_Subset, FS_CardinalityType
<1>4. Cardinality(P) <= Cardinality(O) /\ Cardinality(P) \in Nat
    BY <1>1, <1>2, FS_Subset, FS_CardinalityType
<1>5. Cardinality(W) + Cardinality(P) <= crashes
    BY <1>1, <1>2, <1>3, <1>4
<1> QED BY <1>5 DEF W, P

(* One that is killed loses what it was to see to, and no more.            *)
LEMMA OneMoreLost ==
    ASSUME TypeOK, LeftInv, NEW x,
           \/ LostVersions' \subseteq LostVersions \cup {x} /\ LostObjects' \subseteq LostObjects
           \/ LostVersions' \subseteq LostVersions /\ LostObjects' \subseteq LostObjects \cup {x}
    PROVE  Cardinality(LostVersions') + Cardinality(LostObjects') <= crashes + 1
<1> DEFINE V == LostVersions
           W == LostVersions'
           O == LostObjects
           P == LostObjects'
<1>1. /\ IsFiniteSet(V) /\ Cardinality(V) \in Nat
      /\ IsFiniteSet(O) /\ Cardinality(O) \in Nat
    BY LostFinite DEF LeftInv
<1>2. /\ \/ W \subseteq V \cup {x} /\ P \subseteq O
         \/ W \subseteq V /\ P \subseteq O \cup {x}
      /\ Cardinality(V) + Cardinality(O) <= crashes /\ crashes \in Nat
    BY DEF LeftInv
<1> HIDE DEF V, W, O, P
<1>3. ASSUME NEW S, IsFiniteSet(S), NEW T \in SUBSET (S \cup {x})
      PROVE  Cardinality(T) \in Nat /\ Cardinality(T) <= Cardinality(S) + 1
    <2>1. IsFiniteSet(S \cup {x}) /\ Cardinality(S) \in Nat
          /\ Cardinality(S \cup {x}) <= Cardinality(S) + 1
        BY <1>3, FS_AddElement, FS_CardinalityType
    <2>2. Cardinality(T) <= Cardinality(S \cup {x}) /\ IsFiniteSet(T)
        BY <1>3, <2>1, FS_Subset
    <2> QED BY <2>1, <2>2, FS_CardinalityType
<1>4. ASSUME NEW S, IsFiniteSet(S), NEW T \in SUBSET S
      PROVE  Cardinality(T) \in Nat /\ Cardinality(T) <= Cardinality(S)
    BY <1>4, FS_Subset, FS_CardinalityType
<1>5. Cardinality(W) + Cardinality(P) <= crashes + 1
    <2>1. CASE W \subseteq V \cup {x} /\ P \subseteq O
        <3>1. Cardinality(W) \in Nat /\ Cardinality(W) <= Cardinality(V) + 1
            BY <1>1, <1>3, <2>1
        <3>2. Cardinality(P) \in Nat /\ Cardinality(P) <= Cardinality(O)
            BY <1>1, <1>4, <2>1
        <3> QED BY <1>1, <1>2, <3>1, <3>2
    <2>2. CASE W \subseteq V /\ P \subseteq O \cup {x}
        <3>1. Cardinality(P) \in Nat /\ Cardinality(P) <= Cardinality(O) + 1
            BY <1>1, <1>3, <2>2
        <3>2. Cardinality(W) \in Nat /\ Cardinality(W) <= Cardinality(V)
            BY <1>1, <1>4, <2>2
        <3> QED BY <1>1, <1>2, <3>1, <3>2
    <2> QED BY <1>2, <2>1, <2>2
<1> QED BY <1>5 DEF W, P

(* What a row, once written, keeps.                                        *)
RowsKept ==
    /\ Ids \subseteq Ids'
    /\ \A f \in Ids : /\ files'[f].sha = files[f].sha /\ files'[f].prior = files[f].prior
                      /\ files'[f].read = files[f].read
                      /\ \/ files'[f].state = files[f].state /\ files'[f].reviewed = files[f].reviewed
                         \/ files'[f].reviewed = epoch + 1

LEMMA FlagStays ==
    ASSUME TypeOK, LeftInv, RowsKept, epoch' \in Nat, epoch <= epoch', NEW w, FlagOK(w)
    PROVE  FlagOK(w)'
<1>e. epoch \in Nat
    BY DEF TypeOK
<1>r. \A f \in Ids : \/ files'[f].state = files[f].state /\ files'[f].reviewed = files[f].reviewed
                     \/ files'[f].reviewed = epoch + 1
    BY DEF RowsKept
<1>1. ASSUME w.pc = "flag"
      PROVE  /\ w.new \in Ids' /\ w.prior \in Ids' /\ files'[w.new].prior = w.prior
             /\ files'[w.prior].state # w.snapshot
                    => files'[w.prior].reviewed > files'[w.new].read
    <2>1. /\ w.new \in Ids /\ w.prior \in Ids /\ files[w.new].prior = w.prior
          /\ files[w.prior].state # w.snapshot => files[w.prior].reviewed > files[w.new].read
        BY <1>1 DEF FlagOK
    <2>2. files[w.new].read <= epoch /\ files[w.new].read \in Nat
        <3>1. files[w.new] \in FileRow
            BY <2>1 DEF TypeOK, Ids
        <3> QED BY <2>1, <3>1 DEF LeftInv, FileRow
    <2>3. /\ files'[w.new].read = files[w.new].read /\ files'[w.new].prior = files[w.new].prior
          /\ w.new \in Ids' /\ w.prior \in Ids'
        BY <2>1 DEF RowsKept
    <2> QED BY <1>e, <1>r, <2>1, <2>2, <2>3
<1>2. ASSUME w.pc = "supersede"
      PROVE  /\ w.prior \in Ids' /\ w.read \in Nat /\ w.read <= epoch'
             /\ files'[w.prior].state # w.snapshot => files'[w.prior].reviewed > w.read
    <2>1. /\ w.prior \in Ids /\ w.read \in Nat /\ w.read <= epoch
          /\ files[w.prior].state # w.snapshot => files[w.prior].reviewed > w.read
        BY <1>2 DEF FlagOK
    <2>2. w.prior \in Ids'
        BY <2>1 DEF RowsKept
    <2> QED BY <1>e, <1>r, <2>1, <2>2
<1> QED BY <1>1, <1>2 DEF FlagOK

(* What a step loses, if anything: one version or object to a kill.        *)
LeftLost ==
    \/ /\ crashes' = crashes
       /\ LostVersions' \subseteq LostVersions /\ LostObjects' \subseteq LostObjects
    \/ /\ crashes' = crashes + 1
       /\ \E x : \/ /\ LostVersions' \subseteq LostVersions \cup {x}
                    /\ LostObjects' \subseteq LostObjects
                 \/ /\ LostVersions' \subseteq LostVersions
                    /\ LostObjects' \subseteq LostObjects \cup {x}

(* The invariant after a step that wrote no rows but what RowsKept says,   *)
(* and lost nothing.                                                       *)
LEMMA LeftBy ==
    ASSUME Inv, LeftInv, RowsKept, epoch' \in Nat, epoch <= epoch', IsFiniteSet(objects'),
           \A f \in Ids' : f \in Ids \/ (files'[f].prior < f /\ files'[f].read <= epoch'),
           \A t \in Tools : proc'[t] = proc[t] \/ FlagOK(proc[t])',
           LeftLost
    PROVE  LeftInv'
<1>t. TypeOK
    BY DEF Inv
<1>1. \A f \in Ids' : files'[f].prior < f /\ files'[f].read <= epoch'
    <2> SUFFICES ASSUME NEW f \in Ids' PROVE files'[f].prior < f /\ files'[f].read <= epoch'
        OBVIOUS
    <2>1. CASE f \in Ids
        <3>1. files[f] \in FileRow
            BY <1>t, <2>1 DEF TypeOK, Ids
        <3>2. files[f].prior < f /\ files[f].read <= epoch /\ files[f].read \in Nat /\ epoch \in Nat
            BY <1>t, <2>1, <3>1 DEF LeftInv, TypeOK, FileRow
        <3> QED BY <2>1, <3>2 DEF RowsKept
    <2> QED BY <2>1
<1>2. \A t \in Tools : FlagOK(proc[t])'
    <2> SUFFICES ASSUME NEW t \in Tools, proc'[t] = proc[t] PROVE FlagOK(proc[t])'
        OBVIOUS
    <2>1. PICK w : w = proc[t]
        OBVIOUS
    <2>2. FlagOK(w)
        BY <2>1 DEF LeftInv
    <2>3. FlagOK(w)'
        BY <1>t, <2>2, FlagStays
    <2> QED BY <2>1, <2>3 DEF FlagOK
<1>3. crashes' \in Nat
    BY DEF LeftInv, LeftLost
<1>4. Cardinality(LostVersions') + Cardinality(LostObjects') <= crashes'
    BY <1>t, FewerLost, OneMoreLost DEF LeftLost
<1> QED BY <1>1, <1>2, <1>3, <1>4 DEF LeftInv

(* A step that wrote no row, or only a review state, and in which no tool  *)
(* took up or laid down a version or an object, lost nothing.              *)
LEMMA NothingLost ==
    ASSUME Inv, LeftInv, RowsKept, Ids' = Ids, epoch' \in Nat, epoch <= epoch',
           UNCHANGED <<objects, events, crashes>>,
           \A t \in Tools : \/ proc'[t] = proc[t]
                            \/ /\ proc[t].pc \notin {"flag", "stored"}
                               /\ proc'[t].pc \notin {"flag", "stored", "supersede"}
    PROVE  LeftInv'
<1>t. TypeOK
    BY DEF Inv
<1>1. \A f \in Ids : Owing(f)' => Owing(f)
    <2> SUFFICES ASSUME NEW f \in Ids, Owing(f)' PROVE Owing(f)
        OBVIOUS
    <2>1. /\ files[f].prior # NoFile /\ ~\E i \in DOMAIN events : events[i].new = f
          /\ files'[files[f].prior].reviewed <= files[f].read
        BY DEF Owing, RowsKept
    <2>2. files[f] \in FileRow
        BY <1>t DEF TypeOK, Ids
    <2>3. files[f].prior \in Ids /\ files[f].read <= epoch
          /\ epoch \in Nat /\ files[f].read \in Nat
        <3>1. files[f].prior < f /\ files[f].read <= epoch /\ epoch \in Nat
            BY <1>t DEF LeftInv, TypeOK
        <3>2. Ids = 1..Len(files) /\ Len(files) \in Nat
            BY <1>t DEF TypeOK, Ids
        <3>3. files[f].prior \in Nat /\ files[f].read \in Nat
            BY <2>2 DEF FileRow
        <3> QED BY <2>1, <3>1, <3>2, <3>3 DEF NoFile
    <2>4. files'[files[f].prior].reviewed = files[files[f].prior].reviewed
        BY <2>1, <2>3 DEF RowsKept
    <2> QED BY <2>1, <2>4 DEF Owing
<1>2. \A c : Named(c) => Named(c)'
    BY DEF Named, RowsKept
<1>3. \A t \in Tools : /\ \A f : Flags(t, f) => Flags(t, f)'
                       /\ \A c : Stores(t, c) => Stores(t, c)'
    BY DEF Flags, Stores
<1>4. LostVersions' \subseteq LostVersions /\ LostObjects' \subseteq LostObjects
    BY <1>1, <1>2, <1>3 DEF LostVersions, LostObjects
<1>5. \A t \in Tools : proc'[t] = proc[t] \/ FlagOK(proc[t])'
    BY DEF FlagOK
<1>6. IsFiniteSet(objects')
    BY DEF LeftInv
<1>7. \A f \in Ids' : f \in Ids \/ (files'[f].prior < f /\ files'[f].read <= epoch')
    OBVIOUS
<1>8. LeftLost
    BY <1>4 DEF LeftLost
<1> QED BY <1>5, <1>6, <1>7, <1>8, LeftBy

LEMMA LeftStep == Inv /\ LeftInv /\ [Next]_vars => LeftInv'
<1> SUFFICES ASSUME Inv, LeftInv, [Next]_vars PROVE LeftInv'
    OBVIOUS
<1>t. TypeOK /\ WorksOK
    BY DEF Inv
<1>e. epoch \in Nat /\ Len(files) \in Nat /\ Ids = 1 .. Len(files)
    BY <1>t DEF TypeOK, Ids
<1>k. files' = files => RowsKept /\ Ids' = Ids
    BY DEF RowsKept, Ids
<1>h. ASSUME NEW t \in Tools, NEW work, Hold(t, work)
      PROVE  proc'[t] = work /\ \A u \in Tools : u # t => proc'[u] = proc[u]
    BY <1>t, <1>h, Handed DEF TypeOK
<1>1. ASSUME UNCHANGED <<objects, files, events, crashes, proc>>, epoch' = epoch \/ epoch' = epoch + 1
      PROVE  LeftInv'
    BY <1>e, <1>k, <1>1, NothingLost
<1>2. ASSUME NEW t \in Tools, NEW work, Hold(t, work),
             proc[t].pc \notin {"flag", "stored"}, work.pc \notin {"flag", "stored", "supersede"},
             UNCHANGED <<objects, files, events, crashes, epoch>>
      PROVE  LeftInv'
    <2>1. \A u \in Tools : \/ proc'[u] = proc[u]
                           \/ /\ proc[u].pc \notin {"flag", "stored"}
                              /\ proc'[u].pc \notin {"flag", "stored", "supersede"}
        BY <1>h, <1>2
    <2> QED BY <1>e, <1>k, <1>2, <2>1, NothingLost
<1>i. Idle.pc = "idle"
    BY DEF Idle
<1>4. ASSUME NEW t \in Tools, NEW c \in Contents, put(t, c) PROVE LeftInv'
    <2> DEFINE work == [pc |-> "stored", sha |-> c]
    <2>1. /\ objects' = objects \cup {c} /\ Hold(t, work) /\ proc[t].pc = "idle"
          /\ UNCHANGED <<files, events, epoch, crashes>>
        BY <1>4 DEF put, At
    <2>2. proc'[t] = work /\ \A u \in Tools : u # t => proc'[u] = proc[u]
        BY <1>h, <2>1
    <2>3. IsFiniteSet(objects')
        BY <2>1, FS_AddElement DEF LeftInv
    <2>4. LostVersions' \subseteq LostVersions
        BY <2>1, <2>2 DEF LostVersions, Owing, Flags, Ids
    <2>5. LostObjects' \subseteq LostObjects
        <3>1. Stores(t, c)'
            BY <2>2 DEF Stores
        <3>2. \A u \in Tools : \A o : Stores(u, o) => Stores(u, o)'
            BY <2>1, <2>2 DEF Stores
        <3>3. \A o : Named(o)' <=> Named(o)
            BY <2>1 DEF Named, Ids
        <3> QED BY <2>1, <3>1, <3>2, <3>3 DEF LostObjects
    <2>6. \A u \in Tools : proc'[u] = proc[u] \/ FlagOK(proc[u])'
        BY <2>2 DEF FlagOK
    <2>7. RowsKept /\ epoch' \in Nat /\ epoch <= epoch' /\ Ids' = Ids
        BY <1>e, <1>k, <2>1
    <2>8. \A f \in Ids' : f \in Ids \/ (files'[f].prior < f /\ files'[f].read <= epoch')
        BY <2>7
    <2>9. LeftLost
        BY <2>1, <2>4, <2>5 DEF LeftLost
    <2> QED BY <2>3, <2>6, <2>7, <2>8, <2>9, LeftBy
<1>5. ASSUME NEW file \in FileRow, files' = Append(files, file), NEW k, k = Len(files) + 1
      PROVE  /\ RowsKept /\ Ids' = Ids \cup {k} /\ k \notin Ids
             /\ files'[k] = file /\ \A f \in Ids : files'[f] = files[f]
             /\ UNCHANGED events => \A f \in Ids : Owing(f)' <=> Owing(f)
    <2>1. /\ Ids' = Ids \cup {k} /\ k \notin Ids
          /\ files'[k] = file /\ \A f \in Ids : files'[f] = files[f]
        BY <1>t, <1>5 DEF TypeOK, Ids
    <2>2. RowsKept
        BY <2>1 DEF RowsKept
    <2>3. ASSUME NEW f \in Ids, UNCHANGED events PROVE Owing(f)' <=> Owing(f)
        <3>1. files[f] \in FileRow /\ files[f].prior < f
            BY <1>t DEF TypeOK, Ids, LeftInv
        <3>2. files[f].prior = NoFile \/ files[f].prior \in Ids
            BY <1>e, <3>1 DEF FileRow, NoFile
        <3> QED BY <2>1, <2>3, <3>2 DEF Owing
    <2> QED BY <2>1, <2>2, <2>3
<1>6. ASSUME NEW t \in Tools, insert_file_record(t) PROVE LeftInv'
    <2> DEFINE file == NewFile(proc[t].sha, NoFile, 0)
    <2>1. /\ files' = Append(files, file) /\ Hold(t, Idle) /\ proc[t].pc = "stored"
          /\ UNCHANGED <<objects, events, epoch, crashes>>
        BY <1>6 DEF insert_file_record, At, Release
    <2>2. file \in FileRow
        <3>1. proc[t].sha \in Contents
            BY <1>t, <2>1 DEF WorksOK, WorkOK
        <3> QED BY <1>e, <3>1 DEF NewFile, FileRow, REVIEW_STATES, NoFile
    <2>3. file.sha = proc[t].sha /\ file.prior = NoFile /\ file.read = 0
        BY DEF NewFile
    <2>4. proc'[t] = Idle /\ \A u \in Tools : u # t => proc'[u] = proc[u]
        BY <1>h, <2>1
    <2> HIDE DEF file
    <2>k. PICK k : k = Len(files) + 1
        OBVIOUS
    <2>5. /\ RowsKept /\ Ids' = Ids \cup {k} /\ k \notin Ids
          /\ files'[k] = file /\ \A f \in Ids : files'[f] = files[f]
          /\ \A f \in Ids : Owing(f)' <=> Owing(f)
        BY <1>5, <2>1, <2>2, <2>k
    <2>6. LostVersions' \subseteq LostVersions
        <3>1. ~Owing(k)'
            BY <2>3, <2>5 DEF Owing
        <3>2. \A u \in Tools : \A f : Flags(u, f) => Flags(u, f)'
            BY <2>1, <2>4 DEF Flags
        <3> QED BY <2>5, <3>1, <3>2 DEF LostVersions
    <2>7. LostObjects' \subseteq LostObjects
        <3> PICK c : c = proc[t].sha
            OBVIOUS
        <3>1. Named(c)'
            BY <2>3, <2>5 DEF Named
        <3>2. \A u \in Tools : \A o : Stores(u, o) => Stores(u, o)' \/ o = c
            BY <2>4 DEF Stores
        <3>3. \A o : Named(o) => Named(o)'
            BY <2>5 DEF Named
        <3> QED BY <2>1, <3>1, <3>2, <3>3 DEF LostObjects
    <2>8. \A u \in Tools : proc'[u] = proc[u] \/ FlagOK(proc[u])'
        BY <1>i, <2>4 DEF FlagOK
    <2>9. \A f \in Ids' : f \in Ids \/ (files'[f].prior < f /\ files'[f].read <= epoch')
        BY <1>e, <2>1, <2>3, <2>5, <2>k DEF NoFile
    <2>10. LeftLost /\ IsFiniteSet(objects')
        BY <2>1, <2>6, <2>7 DEF LeftLost, LeftInv
    <2>11. epoch' \in Nat /\ epoch <= epoch'
        BY <1>e, <2>1
    <2> QED BY <2>5, <2>8, <2>9, <2>10, <2>11, LeftBy
<1>22. ASSUME NEW t \in Tools, NEW p \in Ids, NEW c \in Contents, ReadPrior(t, p, c)
       PROVE  LeftInv'
    <2> DEFINE work == [pc |-> "supersede", prior |-> p, sha |-> c, snapshot |-> files[p].state,
                        read |-> epoch]
    <2>1. /\ Hold(t, work) /\ proc[t].pc = "idle"
          /\ UNCHANGED <<objects, files, events, epoch, crashes>>
        BY <1>22 DEF ReadPrior, At
    <2>2. proc'[t] = work /\ \A u \in Tools : u # t => proc'[u] = proc[u]
        BY <1>h, <2>1
    <2>3. RowsKept /\ Ids' = Ids /\ \A f \in Ids : Owing(f)' <=> Owing(f)
        BY <1>k, <2>1 DEF Owing
    <2>4. \A u \in Tools : /\ \A f : Flags(u, f) => Flags(u, f)'
                           /\ \A o : Stores(u, o) => Stores(u, o)'
        BY <2>1, <2>2 DEF Flags, Stores
    <2>5. \A o : Named(o)' <=> Named(o)
        BY <2>1 DEF Named, Ids
    <2>6. LeftLost
        BY <2>1, <2>3, <2>4, <2>5 DEF LeftLost, LostVersions, LostObjects
    <2>7. FlagOK(proc[t])'
        <3>1. /\ proc'[t].pc = "supersede" /\ proc'[t].prior = p /\ proc'[t].read = epoch
              /\ proc'[t].snapshot = files[p].state
            BY <2>2
        <3> QED BY <1>e, <2>1, <2>3, <3>1 DEF FlagOK
    <2>8. \A u \in Tools : proc'[u] = proc[u] \/ FlagOK(proc[u])'
        BY <2>2, <2>7
    <2>9. \A f \in Ids' : f \in Ids \/ (files'[f].prior < f /\ files'[f].read <= epoch')
        BY <2>3
    <2>10. IsFiniteSet(objects') /\ epoch' \in Nat /\ epoch <= epoch'
        BY <1>e, <2>1 DEF LeftInv
    <2> QED BY <2>3, <2>6, <2>8, <2>9, <2>10, LeftBy
<1>7. ASSUME NEW t \in Tools, SupersedeInsert(t) PROVE LeftInv'
    <2>p. PICK p : p = proc[t].prior
        OBVIOUS
    <2> DEFINE file == NewFile(proc[t].sha, p, proc[t].read)
               work == [pc |-> "flag", prior |-> p, new |-> Len(files) + 1,
                        snapshot |-> proc[t].snapshot]
    <2>1. /\ files' = Append(files, file) /\ Hold(t, work) /\ proc[t].pc = "supersede"
          /\ UNCHANGED <<objects, events, epoch, crashes>>
        BY <1>7, <2>p DEF SupersedeInsert, At
    <2>0. /\ p \in Ids /\ proc[t].read \in Nat /\ proc[t].read <= epoch
          /\ files[p].state # proc[t].snapshot => files[p].reviewed > proc[t].read
        BY <2>1, <2>p DEF LeftInv, FlagOK
    <2>2. file \in FileRow
        <3>1. proc[t].sha \in Contents
            BY <1>t, <2>1 DEF WorksOK, WorkOK
        <3> QED BY <1>e, <2>0, <3>1 DEF NewFile, FileRow, REVIEW_STATES
    <2>3. file.prior = p /\ file.read = proc[t].read
        BY DEF NewFile
    <2>4. proc'[t] = work /\ \A u \in Tools : u # t => proc'[u] = proc[u]
        BY <1>h, <2>1
    <2> HIDE DEF file
    <2>k. PICK k : k = Len(files) + 1
        OBVIOUS
    <2>5. /\ RowsKept /\ Ids' = Ids \cup {k} /\ k \notin Ids
          /\ files'[k] = file /\ \A f \in Ids : files'[f] = files[f]
          /\ \A f \in Ids : Owing(f)' <=> Owing(f)
        BY <1>5, <2>1, <2>2, <2>k
    <2>6. LostVersions' \subseteq LostVersions
        <3>1. Flags(t, k)'
            BY <2>4, <2>k DEF Flags
        <3>2. \A u \in Tools : \A f : Flags(u, f) => Flags(u, f)'
            BY <2>1, <2>4 DEF Flags
        <3> QED BY <2>5, <3>1, <3>2 DEF LostVersions
    <2>7. LostObjects' \subseteq LostObjects
        <3>2. \A u \in Tools : \A o : Stores(u, o) => Stores(u, o)'
            BY <2>1, <2>4 DEF Stores
        <3>3. \A o : Named(o) => Named(o)'
            BY <2>5 DEF Named
        <3> QED BY <2>1, <3>2, <3>3 DEF LostObjects
    <2>8. FlagOK(proc[t])'
        <3>1. /\ proc'[t].new = k /\ proc'[t].prior = p
              /\ proc'[t].snapshot = proc[t].snapshot /\ proc'[t].pc = "flag"
            BY <2>4, <2>k
        <3> QED BY <2>0, <2>3, <2>5, <3>1 DEF FlagOK
    <2>9. \A f \in Ids' : f \in Ids \/ (files'[f].prior < f /\ files'[f].read <= epoch')
        BY <1>e, <2>0, <2>1, <2>3, <2>5, <2>k
    <2>10. LeftLost /\ IsFiniteSet(objects')
        BY <2>1, <2>6, <2>7 DEF LeftLost, LeftInv
    <2>11. epoch' \in Nat /\ epoch <= epoch'
        BY <1>e, <2>1
    <2> QED BY <2>4, <2>5, <2>8, <2>9, <2>10, <2>11, LeftBy
<1>8. ASSUME NEW t \in Tools, SupersedeFlag(t) PROVE LeftInv'
    <2>n. PICK new : new = proc[t].new
        OBVIOUS
    <2> DEFINE event == [prior |-> proc[t].prior, new |-> new]
    <2>1. /\ Hold(t, Idle) /\ proc[t].pc = "flag"
          /\ UNCHANGED <<objects, files, epoch, crashes>>
          /\ \/ PriorMoved(proc[t].prior, proc[t].snapshot) /\ events' = events
             \/ events' = Append(events, event)
        BY <1>8, <2>n DEF SupersedeFlag, At, Release
    <2>2. proc'[t] = Idle /\ \A u \in Tools : u # t => proc'[u] = proc[u]
        BY <1>h, <2>1
    <2>3. /\ new \in Ids /\ files[new].prior = proc[t].prior
          /\ PriorMoved(proc[t].prior, proc[t].snapshot)
                 => files[files[new].prior].reviewed > files[new].read
        BY <2>1, <2>n DEF LeftInv, FlagOK, PriorMoved
    <2>4. \A i \in DOMAIN events : i \in DOMAIN events' /\ events'[i] = events[i]
        <3>1. events \in Seq(EventRow)
            BY <1>t DEF TypeOK
        <3>2. events' = Append(events, event) => \A i \in DOMAIN events :
                  i \in DOMAIN events' /\ events'[i] = events[i]
            BY <3>1
        <3> HIDE DEF event
        <3> QED BY <2>1, <3>2
    <2>5. ~Owing(new)'
        <3>1. CASE events' = Append(events, event)
            <4>1. events \in Seq(EventRow)
                BY <1>t DEF TypeOK
            <4>2. Len(events) + 1 \in DOMAIN events' /\ events'[Len(events) + 1] = event
                BY <3>1, <4>1
            <4> QED BY <4>2 DEF Owing
        <3>2. CASE PriorMoved(proc[t].prior, proc[t].snapshot) /\ events' = events
            <4>1. files[files[new].prior].reviewed > files[new].read
                BY <2>3, <3>2
            <4>2. files[new].read \in Nat /\ files[files[new].prior].reviewed \in Nat
                <5>1. new \in Ids /\ files[new].prior \in Ids
                    BY <2>1, <2>3 DEF LeftInv, FlagOK
                <5>2. files[new] \in FileRow /\ files[files[new].prior] \in FileRow
                    BY <1>t, <5>1 DEF TypeOK, Ids
                <5> QED BY <5>2 DEF FileRow
            <4> QED BY <2>1, <4>1, <4>2 DEF Owing
        <3> QED BY <2>1, <3>1, <3>2
    <2> HIDE DEF event
    <2>6. \A f \in Ids : Owing(f)' => Owing(f) /\ f # new
        BY <2>1, <2>4, <2>5 DEF Owing
    <2>7. LostVersions' \subseteq LostVersions
        <3>1. \A u \in Tools : \A f : Flags(u, f) => Flags(u, f)' \/ f = new
            BY <2>2, <2>n DEF Flags
        <3> QED BY <1>k, <2>1, <2>6, <3>1 DEF LostVersions
    <2>8. LostObjects' \subseteq LostObjects
        <3>1. \A u \in Tools : \A o : Stores(u, o) => Stores(u, o)'
            BY <2>1, <2>2 DEF Stores
        <3> QED BY <2>1, <3>1 DEF LostObjects, Named, Ids
    <2>9. \A u \in Tools : proc'[u] = proc[u] \/ FlagOK(proc[u])'
        BY <1>i, <2>2 DEF FlagOK
    <2>10. \A f \in Ids' : f \in Ids \/ (files'[f].prior < f /\ files'[f].read <= epoch')
        BY <1>k, <2>1
    <2>11. LeftLost /\ IsFiniteSet(objects')
        BY <2>1, <2>7, <2>8 DEF LeftLost, LeftInv
    <2> QED BY <1>e, <1>k, <2>1, <2>9, <2>10, <2>11, LeftBy
<1>9. ASSUME NEW t \in Tools, NEW f \in Ids, NEW to \in Asked, ReadReviewState(t, f, to)
      PROVE  LeftInv'
    BY <1>2, <1>9 DEF ReadReviewState, At
<1>10. ASSUME NEW t \in Tools, set_review_state(t) PROVE LeftInv'
    <2> DEFINE g == proc[t].file
               row == [files[g] EXCEPT !.state = proc[t].to, !.reviewed = epoch + 1]
    <2>1. /\ files' = [files EXCEPT ![g] = row] /\ Hold(t, Idle) /\ proc[t].pc = "review"
          /\ epoch' = epoch + 1 /\ UNCHANGED <<objects, events, crashes>>
        BY <1>10 DEF set_review_state, At, Release
    <2>2. g \in Ids
        BY <1>t, <2>1 DEF WorksOK, WorkOK, Ids
    <2>3. /\ row.sha = files[g].sha /\ row.prior = files[g].prior /\ row.read = files[g].read
          /\ row.reviewed = epoch + 1
        <3>1. files[g] \in FileRow
            BY <1>t, <2>2 DEF TypeOK, Ids
        <3>2. \A file \in FileRow : \A to, n :
                  /\ [file EXCEPT !.state = to, !.reviewed = n].sha = file.sha
                  /\ [file EXCEPT !.state = to, !.reviewed = n].prior = file.prior
                  /\ [file EXCEPT !.state = to, !.reviewed = n].read = file.read
                  /\ [file EXCEPT !.state = to, !.reviewed = n].reviewed = n
            BY DEF FileRow
        <3> HIDE DEF g
        <3> QED BY <3>1, <3>2
    <2> HIDE DEF row, g
    <2>4. Ids' = Ids /\ \A f \in Ids : files'[f] = IF f = g THEN row ELSE files[f]
        BY <1>t, <2>1, <2>2 DEF TypeOK, Ids
    <2>5. RowsKept
        BY <2>3, <2>4 DEF RowsKept
    <2>6. proc'[t] = Idle /\ \A u \in Tools : u # t => proc'[u] = proc[u]
        BY <1>h, <2>1
    <2>7. \A u \in Tools : \/ proc'[u] = proc[u]
                           \/ /\ proc[u].pc \notin {"flag", "stored"}
                              /\ proc'[u].pc \notin {"flag", "stored", "supersede"}
        BY <1>i, <2>1, <2>6
    <2> QED BY <1>e, <2>1, <2>4, <2>5, <2>7, NothingLost
<1>11. ASSUME NEW t \in Tools, ReadLinks(t) PROVE LeftInv'
    <2>1. UNCHANGED <<objects, files, events, crashes, epoch>> /\ proc[t].pc = "idle"
        BY <1>11 DEF ReadLinks, At
    <2>2. \/ UNCHANGED proc
          \/ \E target : Hold(t, [pc |-> "refresh", epoch |-> epoch, target |-> target])
        BY <1>11 DEF ReadLinks
    <2> QED BY <1>1, <1>2, <2>1, <2>2
<1>12. ASSUME NEW t \in Tools, refresh_no_primary_source_gap(t) PROVE LeftInv'
    BY <1>2, <1>12, <1>i DEF refresh_no_primary_source_gap, At, Release
<1>13. ASSUME NEW t \in Tools, Killed(t) PROVE LeftInv'
    <2>1. /\ Hold(t, Idle) /\ crashes' = crashes + 1
          /\ UNCHANGED <<objects, files, events, epoch>>
        BY <1>13 DEF Killed, Release
    <2>2. proc'[t] = Idle /\ \A u \in Tools : u # t => proc'[u] = proc[u]
        BY <1>h, <2>1
    <2>3. RowsKept /\ Ids' = Ids /\ \A f \in Ids : Owing(f)' <=> Owing(f)
        BY <1>k, <2>1 DEF Owing
    <2>4. \A o : Named(o)' <=> Named(o)
        BY <2>1, <2>3 DEF Named
    <2>5. PICK x : \/ proc[t].pc = "stored" /\ x = proc[t].sha
                   \/ proc[t].pc # "stored" /\ x = proc[t].new
        OBVIOUS
    <2>6. \A u \in Tools : /\ \A f : Flags(u, f) => Flags(u, f)' \/ u = t
                           /\ \A o : Stores(u, o) => Stores(u, o)' \/ u = t
        BY <2>2 DEF Flags, Stores
    <2>7. ASSUME proc[t].pc = "stored" PROVE LeftLost
        <3>1. (\A f : ~Flags(t, f)) /\ \A o : Stores(t, o) => o = x
            BY <2>5, <2>7 DEF Flags, Stores
        <3>2. LostVersions' \subseteq LostVersions
            BY <2>3, <2>6, <3>1 DEF LostVersions
        <3>3. LostObjects' \subseteq LostObjects \cup {x}
            BY <2>1, <2>4, <2>6, <3>1 DEF LostObjects
        <3> QED BY <2>1, <3>2, <3>3, Zenon DEF LeftLost
    <2>8. ASSUME proc[t].pc # "stored" PROVE LeftLost
        <3>1. (\A o : ~Stores(t, o)) /\ \A f : Flags(t, f) => f = x
            BY <2>5, <2>8 DEF Flags, Stores
        <3>2. LostVersions' \subseteq LostVersions \cup {x}
            BY <2>3, <2>6, <3>1 DEF LostVersions
        <3>3. LostObjects' \subseteq LostObjects
            BY <2>1, <2>4, <2>6, <3>1 DEF LostObjects
        <3> QED BY <2>1, <3>2, <3>3, Zenon DEF LeftLost
    <2>9. \A u \in Tools : proc'[u] = proc[u] \/ FlagOK(proc[u])'
        BY <1>i, <2>2 DEF FlagOK
    <2>10. \A f \in Ids' : f \in Ids \/ (files'[f].prior < f /\ files'[f].read <= epoch')
        BY <2>3
    <2>11. LeftLost
        BY <2>7, <2>8
    <2>12. IsFiniteSet(objects')
        BY <2>1 DEF LeftInv
    <2> QED BY <1>e, <2>1, <2>3, <2>9, <2>10, <2>11, <2>12, LeftBy
<1>14. ASSUME NEW f \in Ids, NEW ref \in Refs, register_dependency(f, ref) PROVE LeftInv'
    BY <1>1, <1>14 DEF register_dependency
<1>15. ASSUME NEW t \in Tools, resolve_re_review(t) PROVE LeftInv'
    BY <1>2, <1>15, <1>i DEF resolve_re_review, At, Release
<1>23. ASSUME NEW t \in Tools, NEW d \in deps, ReadFlag(t, d) PROVE LeftInv'
    BY <1>2, <1>23 DEF ReadFlag, At
<1>17. ASSUME NEW f \in Ids, NEW primary \in BOOLEAN, link_file(f, primary) PROVE LeftInv'
    BY <1>1, <1>17 DEF link_file
<1>18. ASSUME NEW f \in Ids, unlink_file(f) PROVE LeftInv'
    BY <1>1, <1>18 DEF unlink_file
<1>20. record_gap \/ Acknowledge => LeftInv'
    BY <1>1 DEF record_gap, Acknowledge
<1>21. UNCHANGED vars => LeftInv'
    BY <1>1 DEF vars
<1> QED
    BY <1>4, <1>6, <1>7, <1>8, <1>9, <1>10, <1>11, <1>12, <1>13, <1>14, <1>15, <1>17, <1>18,
       <1>20, <1>21, <1>22, <1>23 DEF Next

LEMMA LeftInit == Init => LeftInv
<1> SUFFICES ASSUME Init PROVE LeftInv
    OBVIOUS
<1>1. /\ objects = {} /\ files = <<>> /\ crashes = 0 /\ \A t \in Tools : proc[t] = Idle
    BY DEF Init
<1>2. Ids = {} /\ LostVersions = {} /\ LostObjects = {}
    BY <1>1 DEF Ids, LostVersions, LostObjects
<1>3. IsFiniteSet(objects) /\ Cardinality({}) = 0
    BY <1>1, FS_EmptySet
<1>4. \A t \in Tools : FlagOK(proc[t])
    BY <1>1 DEF FlagOK, Idle
<1> QED BY <1>1, <1>2, <1>3, <1>4 DEF LeftInv

(* The values of a function on a finite set are no more than its arguments.*)
LEMMA ValuesBound ==
    ASSUME NEW T, IsFiniteSet(T), NEW f
    PROVE  /\ IsFiniteSet({f[t] : t \in T}) /\ Cardinality({f[t] : t \in T}) \in Nat
           /\ Cardinality({f[t] : t \in T}) <= Cardinality(T)
<1> DEFINE A == {f[t] : t \in T}
           g == [t \in T |-> f[t]]
<1>1. g \in Surjection(T, A)
    BY DEF Surjection
<1> HIDE DEF g, A
<1>2. IsFiniteSet(A) /\ Cardinality(A) <= Cardinality(T) /\ Cardinality(A) \in Nat
    BY <1>1, FS_Surjection, FS_CardinalityType
<1> QED BY <1>2 DEF A

(* What is left or in hand is at most what is left and those whose hands   *)
(* it is in.                                                               *)
LEMMA LeftOrInHand ==
    ASSUME NEW L, IsFiniteSet(L), NEW T, IsFiniteSet(T), NEW f, NEW S,
           \A x \in S : x \in L \/ \E t \in T : x = f[t]
    PROVE  /\ Cardinality(S) \in Nat /\ Cardinality(L) \in Nat /\ Cardinality(T) \in Nat
           /\ Cardinality(S) <= Cardinality(L) + Cardinality(T)
<1> DEFINE A == {f[t] : t \in T}
<1>1. IsFiniteSet(A) /\ Cardinality(A) \in Nat /\ Cardinality(A) <= Cardinality(T)
    BY ValuesBound
<1>2. S \subseteq L \cup A
    OBVIOUS
<1> HIDE DEF A
<1>3. /\ Cardinality(L) \in Nat /\ Cardinality(T) \in Nat /\ Cardinality(L \cap A) \in Nat
      /\ IsFiniteSet(L \cup A)
      /\ Cardinality(L \cup A) = Cardinality(L) + Cardinality(A) - Cardinality(L \cap A)
    <2>1. IsFiniteSet(L \cap A)
        BY FS_Subset
    <2> QED BY <1>1, <2>1, FS_Union, FS_CardinalityType
<1>4. IsFiniteSet(S) /\ Cardinality(S) <= Cardinality(L \cup A) /\ Cardinality(S) \in Nat
    BY <1>2, <1>3, FS_Subset, FS_CardinalityType
<1> QED BY <1>1, <1>3, <1>4

LEMMA Explained ==
    ASSUME TypeOK, LeftInv
    PROVE  LeftoversAreExplained
<1> DEFINE V == {f \in Unannounced : files[files[f].prior].reviewed <= files[f].read}
           O == {c \in objects : ~\E f \in Ids : files[f].sha = c}
           TV == {t \in Tools : proc[t].pc = "flag"}
           TO == {t \in Tools : proc[t].pc = "stored"}
           TB == {t \in Tools : proc[t].pc \in {"stored", "flag"}}
           news == [t \in Tools |-> proc[t].new]
           shas == [t \in Tools |-> proc[t].sha]
           LV == LostVersions
           LO == LostObjects
<1>1. /\ IsFiniteSet(LV) /\ Cardinality(LV) \in Nat
      /\ IsFiniteSet(LO) /\ Cardinality(LO) \in Nat
    BY LostFinite DEF LeftInv
<1>2. IsFiniteSet(TV) /\ IsFiniteSet(TO) /\ IsFiniteSet(TB)
    BY SuppliedFilesAssumption, FS_Subset
<1>3. TB = TV \cup TO /\ TV \cap TO = {}
    OBVIOUS
<1>4. \A x \in V : x \in LV \/ \E t \in TV : x = news[t]
    BY DEF Unannounced, LostVersions, Owing, Flags
<1>5. \A x \in O : x \in LO \/ \E t \in TO : x = shas[t]
    BY DEF LostObjects, Named, Stores
<1>6. LeftoversAreExplained <=> Cardinality(V) + Cardinality(O) <= Cardinality(TB) + crashes
    BY Zenon DEF LeftoversAreExplained, InHand
<1>7. Cardinality(LV) + Cardinality(LO) <= crashes /\ crashes \in Nat
    BY DEF LeftInv
<1> HIDE DEF V, O, TV, TO, TB, news, shas, LV, LO
<1>8. Cardinality(V) \in Nat /\ Cardinality(TV) \in Nat
      /\ Cardinality(V) <= Cardinality(LV) + Cardinality(TV)
    BY <1>1, <1>2, <1>4, LeftOrInHand
<1>9. Cardinality(O) \in Nat /\ Cardinality(TO) \in Nat
      /\ Cardinality(O) <= Cardinality(LO) + Cardinality(TO)
    BY <1>1, <1>2, <1>5, LeftOrInHand
<1>10. Cardinality(TB) = Cardinality(TV) + Cardinality(TO)
    <2>1. Cardinality(TV \cap TO) = 0
        BY <1>3, FS_EmptySet
    <2>2. Cardinality(TV \cup TO) = Cardinality(TV) + Cardinality(TO) - Cardinality(TV \cap TO)
        BY <1>2, FS_Union
    <2> QED BY <1>3, <1>8, <1>9, <2>1, <2>2
<1>11. Cardinality(V) + Cardinality(O) <= Cardinality(TB) + crashes
    BY <1>1, <1>7, <1>8, <1>9, <1>10
<1> QED BY <1>6, <1>11

\* A version without its event and an object without its row are in the hands
\* of a tool or were left by a kill, save for the version whose supersede
\* raises because its prior was reviewed after it had been read
\* (supersede_file, process_request of the intake).
THEOREM Leftovers == Spec => []LeftoversAreExplained
<1>1. Inv /\ LeftInv => LeftoversAreExplained
    BY Explained DEF Inv
<1> QED BY <1>1, InvHolds, LeftInit, LeftStep, PTL DEF Spec
=============================================================================
