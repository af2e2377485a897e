--------------------------- MODULE SuppliedFiles ---------------------------
(***************************************************************************)
(* Files people hand in: the encrypted object store (raw_object_store),    *)
(* the upload (beta/intake_api), the records and their review              *)
(* (file_records), versions and the work built on them (file_versioning),  *)
(* and what a meeting's files say of its missing primary source            *)
(* (file_linkage).                                                         *)
(*                                                                         *)
(* The tools are processes on one database and one directory.  An upload   *)
(* writes an object (and a line in the store's ledger, which no operation  *)
(* reads and the model leaves out) and then a row; a new version is made   *)
(* of a prior one that has been read, and commits its row before the flags *)
(* it raises; a review state, a flag and a gap are read and then written   *)
(* by id.  Between any two of these a process may die and the others act.  *)
(* One subject (a meeting) stands for all.                                 *)
(***************************************************************************)
EXTENDS Integers, Sequences, FiniteSets, SequencesExt, FiniteSetsExt

CONSTANTS
    Contents,   \* what the bytes of a file may be
    KnownBad,   \* the contents on the deny list
    Refs,       \* downstream records built from a file
    Asked,      \* the review states asked for
    Tools,      \* processes
    MaxFiles,   \* bound on the rows of supplied_files
    MaxEdits,   \* bound on links, unlinks and review decisions
    MaxCrashes  \* bound on kills

ASSUME SuppliedFilesAssumption ==
    IsFiniteSet(Tools) /\ KnownBad \subseteq Contents /\ Asked \subseteq
        {"pending", "reviewing", "web_safe", "held", "rejected"} /\ {MaxFiles, MaxEdits, MaxCrashes} \subseteq Nat

VARIABLES
    objects,  \* contents in the store
    files,    \* supplied_files in the order of insertion: [sha, state, prior], with
              \* the edits that had been made when its prior version was read, and
              \* at its own last review
    deps,     \* supplied_file_dependencies: [file, ref, flag], with the events there
              \* were when it was registered or last resolved
    events,   \* supplied_file_supersede_events: [prior, new]
    links,    \* the subject's links: [file, primary]
    gap,      \* its no_primary_source row: [status, epoch]
    proc,     \* what each tool has in hand
    epoch,    \* links, unlinks and review decisions so far
    crashes

vars == <<objects, files, deps, events, links, gap, proc, epoch, crashes>>

REVIEW_STATES == {"pending", "reviewing", "web_safe", "held", "rejected"}
NoFile == 0
Ids == DOMAIN files
Idle == [pc |-> "idle"]

At(t, pc) == proc[t].pc = pc
Hold(t, work) == proc' = [proc EXCEPT ![t] = work]
Release(t) == Hold(t, Idle)

-----------------------------------------------------------------------------
(* Uploads.                                                                *)

\* process_request up to the write of the object, which is atomic and is left
\* out if the object exists.  A known-bad digest is refused before it.
put(t, c) ==
    /\ At(t, "idle") /\ Len(files) < MaxFiles
    /\ c \notin KnownBad
    /\ objects' = objects \cup {c}
    /\ Hold(t, [pc |-> "stored", sha |-> c])
    /\ UNCHANGED <<files, deps, events, links, gap, epoch, crashes>>

NewFile(c, prior, read) ==
    [sha |-> c, state |-> "pending", prior |-> prior, read |-> read, reviewed |-> 0]

insert_file_record(t) ==
    /\ At(t, "stored") /\ Len(files) < MaxFiles
    /\ files' = Append(files, NewFile(proc[t].sha, NoFile, 0))
    /\ Release(t)
    /\ UNCHANGED <<objects, deps, events, links, gap, epoch, crashes>>

-----------------------------------------------------------------------------
(* Versions and the work that depends on them.                             *)

\* supersede_file up to its INSERT; the bytes of the new version need be in no
\* store, and nothing keeps a file from being superseded twice.
ReadPrior(t, prior, c) ==
    /\ At(t, "idle") /\ Len(files) < MaxFiles
    /\ Hold(t, [pc |-> "supersede", prior |-> prior, sha |-> c, snapshot |-> files[prior].state,
                read |-> epoch])
    /\ UNCHANGED <<objects, files, deps, events, links, gap, epoch, crashes>>

\* The new row, in a commit of its own.
SupersedeInsert(t) ==
    /\ At(t, "supersede") /\ Len(files) < MaxFiles
    /\ files' = Append(files, NewFile(proc[t].sha, proc[t].prior, proc[t].read))
    /\ Hold(t, [pc |-> "flag", prior |-> proc[t].prior, new |-> Len(files) + 1,
                snapshot |-> proc[t].snapshot])
    /\ UNCHANGED <<objects, deps, events, links, gap, epoch, crashes>>

Flagged(d) == [d EXCEPT !.flag = "needs_re_review"]
\* A mutant of the next: the new version's own dependents are flagged.
AffectedOfNew(prior, new) == {d \in deps : d.file = new /\ d.flag = "current"}
Affected(prior, new) == {d \in deps : d.file = prior /\ d.flag = "current"}

\* A mutant of the next: the prior version is compared with what was uploaded.
MovedSinceUpload(prior, snapshot) == files[prior].state # "pending"
\* The review state is the one column of a row that changes.
PriorMoved(prior, snapshot) == files[prior].state # snapshot

\* The rest of it: the dependents of the prior version and the event.  If the
\* prior version is no longer what was read, a review before or after the INSERT
\* included, it raises, and the new row stays without either.
SupersedeFlag(t) ==
    LET hit == Affected(proc[t].prior, proc[t].new) IN
    /\ At(t, "flag")
    /\ IF PriorMoved(proc[t].prior, proc[t].snapshot) THEN UNCHANGED <<deps, events>>
       ELSE /\ deps' = (deps \ hit) \cup {Flagged(d) : d \in hit}
            /\ events' = Append(events, [prior |-> proc[t].prior, new |-> proc[t].new])
    /\ Release(t)
    /\ UNCHANGED <<objects, files, links, gap, epoch, crashes>>

\* A record says which version it was built from, superseded or not.
register_dependency(f, ref) ==
    /\ \A d \in deps : <<d.file, d.ref>> # <<f, ref>>
    /\ deps' = deps \cup {[file |-> f, ref |-> ref, flag |-> "current", seen |-> Len(events)]}
    /\ UNCHANGED <<objects, files, events, links, gap, proc, epoch, crashes>>

\* A human has reviewed the work again: the flag is seen, then cleared by id,
\* whoever has cleared or raised it since.
ReadFlag(t, d) ==
    /\ At(t, "idle")
    /\ d.flag = "needs_re_review"
    /\ Hold(t, [pc |-> "resolve", file |-> d.file, ref |-> d.ref])
    /\ UNCHANGED <<objects, files, deps, events, links, gap, epoch, crashes>>

Resolved(t) == {d \in deps : d.file = proc[t].file /\ d.ref = proc[t].ref}
Cleared(d) == [d EXCEPT !.flag = "current", !.seen = Len(events)]
resolve_re_review(t) ==
    /\ At(t, "resolve")
    /\ deps' = (deps \ Resolved(t)) \cup {Cleared(d) : d \in Resolved(t)}
    /\ Release(t)
    /\ UNCHANGED <<objects, files, events, links, gap, epoch, crashes>>

-----------------------------------------------------------------------------
(* Review.                                                                 *)

\* A mutant of the next: a rejected file is approved without being reopened.
TransitionsReopenAnywhere(from) ==
    IF from = "rejected" THEN {"reviewing", "web_safe"} ELSE REVIEW_STATES \ {from}
_LEGAL_TRANSITIONS(from) ==
    CASE from = "pending" -> {"reviewing", "held", "rejected"}
      [] from = "reviewing" -> {"web_safe", "held", "rejected", "pending"}
      [] from = "web_safe" -> {"held", "rejected", "reviewing"}
      [] from = "held" -> {"reviewing", "rejected", "pending"}
      [] from = "rejected" -> {"reviewing"}

\* set_review_state up to its UPDATE; what is refused or no change writes nothing.
ReadReviewState(t, f, to) ==
    /\ At(t, "idle") /\ epoch < MaxEdits
    /\ to \in _LEGAL_TRANSITIONS(files[f].state)
    /\ Hold(t, [pc |-> "review", file |-> f, from |-> files[f].state, to |-> to])
    /\ UNCHANGED <<objects, files, deps, events, links, gap, epoch, crashes>>

set_review_state(t) ==
    /\ At(t, "review") /\ epoch < MaxEdits
    /\ files' = [files EXCEPT ![proc[t].file] = [@ EXCEPT !.state = proc[t].to,
                                                         !.reviewed = epoch + 1]]
    /\ epoch' = epoch + 1
    /\ Release(t)
    /\ UNCHANGED <<objects, deps, events, links, gap, crashes>>

-----------------------------------------------------------------------------
(* Links and the gap.                                                      *)

link_file(f, primary) ==
    /\ epoch < MaxEdits
    /\ links' = {l \in links : l.file # f} \cup {[file |-> f, primary |-> primary]}
    /\ epoch' = epoch + 1
    /\ UNCHANGED <<objects, files, deps, events, gap, proc, crashes>>

unlink_file(f) ==
    /\ epoch < MaxEdits
    /\ \E l \in links : l.file = f
    /\ links' = {l \in links : l.file # f}
    /\ epoch' = epoch + 1
    /\ UNCHANGED <<objects, files, deps, events, gap, proc, crashes>>

\* A mutant of the next: a rejected source is still a source.
CountsRejected == \E l \in links : l.primary
\* A superseded version counts as long as it is linked.
has_primary_source == \E l \in links : l.primary /\ files[l.file].state # "rejected"

\* The detector's row, or a reviewer's word on it, which is never overwritten.
record_gap ==
    /\ gap.status = "absent"
    /\ gap' = [status |-> "open", epoch |-> -1]
    /\ UNCHANGED <<objects, files, deps, events, links, proc, epoch, crashes>>

Acknowledge ==
    /\ gap.status \in {"open", "resolved"}
    /\ gap' = [status |-> "wontfix", epoch |-> -1]
    /\ UNCHANGED <<objects, files, deps, events, links, proc, epoch, crashes>>

_owned_no_primary_source_gap == gap.status \in {"open", "resolved"}

\* refresh_no_primary_source_gap: the links and the gap are read, and it ends
\* if they agree; what it writes if they do not goes to the gap as it then is.
ReadLinks(t) ==
    LET target == IF has_primary_source THEN "resolved" ELSE "open" IN
    /\ At(t, "idle") /\ _owned_no_primary_source_gap
    /\ IF target = gap.status
       THEN gap' = [gap EXCEPT !.epoch = epoch] /\ UNCHANGED proc
       ELSE /\ Hold(t, [pc |-> "refresh", epoch |-> epoch, target |-> target])
            /\ UNCHANGED gap
    /\ UNCHANGED <<objects, files, deps, events, links, epoch, crashes>>

refresh_no_primary_source_gap(t) ==
    /\ At(t, "refresh")
    /\ gap' = [status |-> proc[t].target, epoch |-> proc[t].epoch]
    /\ Release(t)
    /\ UNCHANGED <<objects, files, deps, events, links, epoch, crashes>>

-----------------------------------------------------------------------------
\* A tool is killed: what it has committed stays.
Killed(t) ==
    /\ proc[t] # Idle /\ crashes < MaxCrashes
    /\ crashes' = crashes + 1
    /\ Release(t)
    /\ UNCHANGED <<objects, files, deps, events, links, gap, epoch>>

Init ==
    /\ objects = {} /\ files = <<>> /\ deps = {} /\ events = <<>>
    /\ links = {} /\ gap = [status |-> "absent", epoch |-> -1]
    /\ proc = [t \in Tools |-> Idle]
    /\ epoch = 0 /\ crashes = 0

Next ==
    \/ \E t \in Tools :
           \/ \E c \in Contents : put(t, c)
           \/ \E f \in Ids, c \in Contents : ReadPrior(t, f, c)
           \/ insert_file_record(t) \/ SupersedeInsert(t) \/ SupersedeFlag(t)
           \/ \E d \in deps : ReadFlag(t, d)
           \/ resolve_re_review(t)
           \/ \E f \in Ids, to \in Asked : ReadReviewState(t, f, to)
           \/ set_review_state(t) \/ ReadLinks(t) \/ refresh_no_primary_source_gap(t)
           \/ Killed(t)
    \/ \E f \in Ids, ref \in Refs : register_dependency(f, ref)
    \/ \E f \in Ids, primary \in BOOLEAN : link_file(f, primary)
    \/ \E f \in Ids : unlink_file(f)
    \/ record_gap \/ Acknowledge

Spec == Init /\ [][Next]_vars

-----------------------------------------------------------------------------
(* Properties.                                                             *)

\* Whatever was built from a version that has since been superseded waits for
\* its review, or its flag was cleared since, by someone who may have seen it
\* before the last supersession, or it was registered since (supersede_file,
\* file_versioning.py:447; resolve_re_review, 351-366).
RedFlagsReachDependents ==
    \A i \in DOMAIN events, d \in deps :
        d.file = events[i].prior => d.flag = "needs_re_review" \/ d.seen >= i

InHand(pcs) == Cardinality({t \in Tools : proc[t].pc \in pcs})

Unannounced ==
    {f \in Ids : files[f].prior # NoFile /\ ~\E i \in DOMAIN events : events[i].new = f}

\* A version without its event, and so without its flags, and an object that no
\* record names, are work in hand or were left by a kill; save for the version
\* whose prior was reviewed after it had been read: its supersede raised, or is
\* about to (file_versioning.py:410-440, intake_api.py:301-305).
LeftoversAreExplained ==
    Cardinality({f \in Unannounced : files[files[f].prior].reviewed <= files[f].read})
    + Cardinality({c \in objects : ~\E f \in Ids : files[f].sha = c})
        <= InHand({"stored", "flag"}) + crashes

\* A rejected file is shown again only after it has been reopened, save by a
\* reviewer who had read it before the rejection (file_records.py:68, 272-283).
NeverStraightToWebSafe ==
    [][\A f \in Ids : files[f].state = "rejected" /\ files'[f].state = "web_safe"
           => \E t \in Tools : At(t, "review") /\ proc[t].file = f /\ proc[t].from = "reviewing"]_vars

\* A gap last refreshed from the links and states that still hold tells the
\* truth, whoever refreshed it before (file_linkage.py:394-421).
FreshGapIsTrue ==
    _owned_no_primary_source_gap /\ gap.epoch = epoch =>
        (gap.status = "resolved" <=>
            \E l \in links : l.primary /\ files[l.file].state # "rejected")
=============================================================================
