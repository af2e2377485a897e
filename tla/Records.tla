------------------------------ MODULE Records ------------------------------
(***************************************************************************)
(* The way of an AI-proposed statement into the registry and out to its    *)
(* readers: the extraction lane (ai_extraction), the risk screen and the   *)
(* reviewers' gate (ai_risk_gate), the two batch tools that decide and     *)
(* anchor many statements at once (reviewer_promotion_batch,               *)
(* agenda_anchor_batch) and the two lanes that serve what was decided      *)
(* (read_api).                                                             *)
(*                                                                         *)
(* The tools are processes on one SQLite file.  A lane writes its run row  *)
(* first and so holds the write lock until its commit: it is one step.  A  *)
(* reviewer's decision reads and checks everything before its first write: *)
(* it is two, and the others act in between.  The text of a statement does *)
(* not change, so whether the screen flags it is a constant.               *)
(***************************************************************************)
EXTENDS Integers, Sequences, FiniteSets, SequencesExt, FiniteSetsExt

CONSTANTS
    Statements,   \* ids the proposer may claim
    Extractions,  \* ids of extraction runs
    Scans,        \* ids of risk runs
    NoGo,         \* the statements whose text the screen flags
    Reviewers,    \* ids that are not forbidden automation ids
    BatchReviewer,\* reviewer:isaac, the only one the batch tools accept
    Asked,        \* the decisions reviewers take
    Targets,      \* the reviewed statuses a promotion is asked to land on
    Items,        \* agenda items
    MaxDecisions  \* bound on the decisions considered

ASSUME RecordsAssumption ==
    /\ IsFiniteSet(Statements) /\ NoGo \subseteq Statements
    /\ BatchReviewer \in Reviewers
    /\ Asked \subseteq {"approved", "corrected", "disputed", "hold", "rejected"}
    /\ Targets \subseteq {"reviewed_source_linked", "human_verified"}
    /\ "reviewed_source_linked" \in Targets
    /\ MaxDecisions \in Nat

VARIABLES
    row,       \* the statements table
    runs,      \* ai_extraction_runs: error_status of each run of the two lanes
    flags,     \* ai_risk_flags that block and are not resolved: [s, run, at]
    registry,  \* the reviewers: [status, at]
    decisions, \* the decision ledger, in the order of the commits
    desk,      \* the decision each reviewer's process is about to write
    anchoring, \* the statements of the agenda manifest being applied
    clock      \* decisions considered so far, the order of created_utc

vars == <<row, runs, flags, registry, decisions, desk, anchoring, clock>>

REVIEWED == {"reviewed_source_linked", "human_verified"}
PROMOTING_DECISIONS == {"approved", "corrected"}

NoItem == "none"
Absent == [status |-> "absent", review |-> "unreviewed", correction |-> "none",
           publication |-> "not_publishable", run |-> "none", anchor |-> NoItem]
Known == {s \in Statements : row[s].status # "absent"}
Idle == [s |-> "none"]

-----------------------------------------------------------------------------
(* The status a reader is shown.                                           *)

\* compute_ui_status, rules 1 to 12: the first that applies.
compute_ui_status(status, correction, changed, source, archive, raw) ==
    LET reviewed == status \in REVIEWED IN
    IF status = "do_not_publish" THEN "do-not-publish"
    ELSE IF status = "disputed" THEN "disputed"
    ELSE IF ~source /\ ~archive /\ ~raw THEN "source-missing"
    ELSE IF changed THEN "source-changed"
    ELSE IF reviewed /\ correction = "corrected" THEN "corrected"
    ELSE IF correction = "needs_clarification" THEN "needs-clarification"
    ELSE IF status = "machine_extracted_unreviewed" THEN "unverified"
    ELSE IF status = "source_recorded" THEN "pending-review"
    ELSE IF reviewed /\ ~source THEN "archived-source-backed"
    ELSE IF reviewed THEN "source-backed" ELSE "pending-review"

Eligible == {"source-backed", "archived-source-backed", "corrected"}

\* A statement is inserted with a resolving segment or evidence link and keeps
\* it; source_changed is never set on an AI row.
_eligible_ui_status(s) ==
    compute_ui_status(row[s].status, row[s].correction, FALSE, TRUE, FALSE, FALSE)

-----------------------------------------------------------------------------
(* Extraction and the risk screen.                                         *)

RunStatus(rejected, written) ==
    IF rejected = {} THEN "ok" ELSE IF written # {} THEN "partial" ELSE "failed"

\* The gating fields are the lane's own, whatever the proposer sent.
_bind_ai_fields(r) ==
    [Absent EXCEPT !.status = "machine_extracted_unreviewed", !.run = r]

\* One run: a claim is written, or refused before its INSERT, or written and
\* then refused because its speaker cannot be attributed.  A proposer that is
\* missing or raises leaves a failed run.
run_extraction(r) ==
    /\ runs[r] = "absent"
    /\ \/ runs' = [runs EXCEPT ![r] = "failed"] /\ UNCHANGED row
       \/ \E outcome \in [Statements -> {"not_proposed", "written", "refused", "no_speaker"}] :
              LET having(o) == {s \in Statements : outcome[s] = o}
                  inserted == having("written") \cup having("no_speaker")
              IN  /\ inserted \cap Known = {}
                  /\ row' = [s \in Statements |->
                                IF s \in inserted THEN _bind_ai_fields(r) ELSE row[s]]
                  /\ runs' = [runs EXCEPT ![r] =
                         RunStatus(having("refused") \cup having("no_speaker"), having("written"))]
    /\ UNCHANGED <<flags, registry, decisions, desk, anchoring, clock>>

\* Every statement given to a risk run is screened again, a flag that an
\* earlier run raised and a reviewer resolved notwithstanding.
run_risk(r, scanned) ==
    /\ runs[r] = "absent"
    /\ runs' = [runs EXCEPT ![r] = "ok"]
    /\ flags' = flags \cup
           {[s |-> s, run |-> r, at |-> clock] : s \in scanned \cap NoGo}
    /\ UNCHANGED <<row, registry, decisions, desk, anchoring, clock>>

open_risk_flags(s) == {f \in flags : f.s = s}

-----------------------------------------------------------------------------
(* The reviewers, all of whom have been registered once.                   *)

register_reviewer(r) ==
    /\ registry' = [registry EXCEPT ![r] = [status |-> "active", at |-> 0]]
    /\ UNCHANGED <<row, runs, flags, decisions, desk, anchoring, clock>>

revoke_reviewer(r) ==
    /\ registry' = [registry EXCEPT ![r] = [status |-> "revoked", at |-> clock]]
    /\ UNCHANGED <<row, runs, flags, decisions, desk, anchoring, clock>>

\* A mutant of the next: any row of the registry will do.
RegisteredOnce(r) == r \in DOMAIN registry
is_registered_reviewer(r) == registry[r].status = "active"

resolve_flag(r, f) ==
    /\ is_registered_reviewer(r)
    /\ flags' = flags \ {f}
    /\ UNCHANGED <<row, runs, registry, decisions, desk, anchoring, clock>>

-----------------------------------------------------------------------------
(* The gate.                                                               *)

_producing_run_ok(s) == runs[row[s].run] = "ok"

\* A mutant of the next: a flagged statement may be promoted.
MayPromoteFlagged(s, decision) == decision \in PROMOTING_DECISIONS => _producing_run_ok(s)
MayDecide(s, decision) ==
    decision \in PROMOTING_DECISIONS => _producing_run_ok(s) /\ open_risk_flags(s) = {}

\* A mutant of the next: a hold lands on a reviewed status too.
HoldTakesTarget(from, decision, to) ==
    CASE decision \in PROMOTING_DECISIONS \cup {"hold"} -> to
      [] decision = "disputed" -> "disputed"
      [] decision = "rejected" -> "do_not_publish"
target_status(from, decision, to) ==
    CASE decision \in PROMOTING_DECISIONS -> to
      [] decision = "disputed" -> "disputed"
      [] decision = "rejected" -> "do_not_publish"
      [] decision = "hold" -> from

\* The row of the ledger and the columns of the statement it goes with, from
\* what was read of the statement.
Decision(r, s, decision, to, stamp) ==
    [s |-> s, reviewer |-> r, decision |-> decision, from |-> row[s].status,
     to |-> target_status(row[s].status, decision, to),
     correction |-> IF decision = "corrected" THEN "corrected" ELSE row[s].correction,
     at |-> stamp, after |-> Len(decisions)]

\* The primary key of the ledger, statement:dec:reviewer:from->to.
decision_id(d) == <<d.s, d.reviewer, d.from, d.to>>
Collides(d) == \E i \in DOMAIN decisions : decision_id(decisions[i]) = decision_id(d)

\* A mutant of the next: a decision that does not promote leaves the status.
DecidedOnlyIfPromoted(old, d) ==
    [old EXCEPT !.status = IF d.decision \in PROMOTING_DECISIONS THEN d.to ELSE @,
                !.review = IF d.decision = "hold" THEN "in_review" ELSE "reviewed",
                !.correction = d.correction]
Decided(old, d) ==
    [old EXCEPT !.status = d.to, !.correction = d.correction,
                !.review = IF d.decision = "hold" THEN "in_review" ELSE "reviewed"]

\* promote_statement up to its INSERT: the statement, the reviewer, the run and
\* the flags are read, the time is taken.  A refusal writes nothing.
Consider(r) ==
    /\ desk[r] = Idle /\ clock < MaxDecisions
    /\ is_registered_reviewer(r)
    /\ \E s \in Known, decision \in Asked, to \in Targets :
           /\ MayDecide(s, decision)
           /\ desk' = [desk EXCEPT ![r] = Decision(r, s, decision, to, clock + 1)]
    /\ clock' = clock + 1
    /\ UNCHANGED <<row, runs, flags, registry, decisions, anchoring>>

\* The INSERT and the UPDATE, in one commit; or the key exists and the INSERT
\* raises.
promote_statement(r) ==
    LET d == desk[r] IN
    /\ d # Idle
    /\ IF Collides(d) THEN UNCHANGED <<row, decisions>>
       ELSE /\ decisions' = Append(decisions, d)
            /\ row' = [row EXCEPT ![d.s] = Decided(@, d)]
    /\ desk' = [desk EXCEPT ![r] = Idle]
    /\ UNCHANGED <<runs, flags, registry, anchoring, clock>>

\* latest_decision: the newest by created_utc, which a process takes before it
\* waits for the write lock.
OfStatement(s) == {decisions[i] : i \in {j \in DOMAIN decisions : decisions[j].s = s}}
LatestPromotes(s) ==
    \E d \in OfStatement(s) :
        d.decision \in PROMOTING_DECISIONS /\ \A e \in OfStatement(s) : e.at <= d.at

statement_publication_blocked(s) ==
    \/ row[s].status \notin REVIEWED
    \/ ~LatestPromotes(s)
    \/ open_risk_flags(s) # {}
    \/ ~_producing_run_ok(s)
    \/ _eligible_ui_status(s) \notin Eligible
    \/ row[s].publication # "publishable"

-----------------------------------------------------------------------------
(* The batch tools.                                                        *)

_already_applied(s, decision) ==
    \E d \in OfStatement(s) :
        /\ \A e \in OfStatement(s) : e.at <= d.at
        /\ d.reviewer = BatchReviewer /\ d.decision = decision
        /\ decision \in PROMOTING_DECISIONS => d.to = "reviewed_source_linked"

\* reviewer_promotion_batch.apply_manifest: all entries or, if one is refused,
\* none; some of the promoted ones carry an agenda item to set.
ApplyPromotions(plan, carrying, item) ==
    LET entries == {s \in Statements : plan[s] # "no_entry"}
        todo == {s \in entries : ~_already_applied(s, plan[s])}
        made == [s \in todo |->
                    Decision(BatchReviewer, s, plan[s], "reviewed_source_linked", clock + 1)]
        anchored(s) == s \in carrying /\ plan[s] \in PROMOTING_DECISIONS
    IN  /\ todo # {} /\ clock < MaxDecisions
        /\ entries \subseteq Known
        /\ is_registered_reviewer(BatchReviewer)
        /\ \A s \in todo : MayDecide(s, plan[s]) /\ ~Collides(made[s])
        /\ decisions' = decisions \o SetToSeq({made[s] : s \in todo})
        /\ row' = [s \in Statements |->
               IF s \notin todo THEN row[s]
               ELSE [Decided(row[s], made[s]) EXCEPT !.anchor = IF anchored(s) THEN item ELSE @]]
        /\ clock' = clock + 1
        /\ UNCHANGED <<runs, flags, registry, desk, anchoring>>

target_statements == {s \in Known : row[s].status = "reviewed_source_linked"}

\* agenda_anchor_batch.apply_manifest up to its first write.  A manifest whose
\* statements are no longer the reviewed ones is refused, so the one applied is
\* what build_manifest would build now.
_assert_source_unchanged ==
    /\ anchoring = {} /\ anchoring' = target_statements
    /\ UNCHANGED <<row, runs, flags, registry, decisions, desk, clock>>

\* A mutant of the next: what has an anchor is anchored again.
AnchorsAgain(s, target) == TRUE
MayAnchor(s, target) == row[s].anchor \in {NoItem, target}

\* Its transaction, over the statements the item's range contains: one that
\* has another anchor refuses all.
ApplyAnchors(ranged, item) ==
    /\ anchoring # {}
    /\ \A s \in ranged : MayAnchor(s, item)
    /\ row' = [s \in Statements |->
           IF s \in ranged THEN [row[s] EXCEPT !.anchor = item] ELSE row[s]]
    /\ anchoring' = {}
    /\ UNCHANGED <<runs, flags, registry, decisions, desk, clock>>

-----------------------------------------------------------------------------
(* The lanes.                                                              *)

published_records ==
    {s \in Known : _eligible_ui_status(s) \in Eligible /\ row[s].publication = "publishable"}

reviewer_internal_records ==
    {s \in Known : row[s].publication # "publishable" /\ row[s].status \in REVIEWED
                   /\ LatestPromotes(s) /\ open_risk_flags(s) = {} /\ _producing_run_ok(s)
                   /\ _eligible_ui_status(s) \in Eligible}

\* The owner's flip, which no code makes: of what the reviewers' lane shows.
OwnerPublishes(s) ==
    /\ s \in reviewer_internal_records
    /\ row' = [row EXCEPT ![s].publication = "publishable"]
    /\ UNCHANGED <<runs, flags, registry, decisions, desk, anchoring, clock>>

-----------------------------------------------------------------------------
Init ==
    /\ row = [s \in Statements |-> Absent]
    /\ runs = [r \in Extractions \cup Scans |-> "absent"]
    /\ flags = {} /\ decisions = <<>> /\ clock = 0
    /\ registry = [r \in Reviewers |-> [status |-> "active", at |-> 0]]
    /\ desk = [r \in Reviewers |-> Idle]
    /\ anchoring = {}

Next ==
    \/ \E r \in Extractions : run_extraction(r)
    \/ \E r \in Scans, scanned \in SUBSET Known \ {{}} : run_risk(r, scanned)
    \/ \E r \in Reviewers :
           \/ register_reviewer(r) \/ revoke_reviewer(r) \/ Consider(r) \/ promote_statement(r)
           \/ \E f \in flags : resolve_flag(r, f)
    \/ \E plan \in [Statements -> Asked \cup {"no_entry"}],
          carrying \in SUBSET Known, item \in Items : ApplyPromotions(plan, carrying, item)
    \/ _assert_source_unchanged
    \/ \E ranged \in SUBSET anchoring, item \in Items : ApplyAnchors(ranged, item)
    \/ \E s \in Statements : OwnerPublishes(s)

Spec == Init /\ [][Next]_vars

-----------------------------------------------------------------------------
(* Properties.                                                             *)

\* A promotion never passes over a flag that was open when its reviewer read
\* the flags: a flag still open on a promoted statement was raised afterwards
\* (promote_statement, ai_risk_gate.py:730).
NoPromotionOverFlag ==
    \A f \in flags, i \in DOMAIN decisions :
        decisions[i].decision \in PROMOTING_DECISIONS /\ f.s = decisions[i].s
            => decisions[i].at <= f.at

\* A reviewer whose identity is revoked finishes the decision in hand and
\* makes no other, in the gate or through the batch (ai_risk_gate.py:699).
RevokedDecidesNoMore ==
    \A i \in DOMAIN decisions :
        LET d == decisions[i] IN
        registry[d.reviewer].status = "revoked" => d.at <= registry[d.reviewer].at

Overlaps(i, j) == decisions[j].after < i

\* The ledger replays: the decisions of a statement form a chain that ends at
\* its status, and a correction once made is still shown, save where two
\* reviewers had read the statement before either wrote (ai_risk_gate.py:714,
\* 742, 765).
LostUpdatesAreRaces ==
    \A i \in DOMAIN decisions :
        LET d == decisions[i]
            later == {j \in DOMAIN decisions : j > i /\ decisions[j].s = d.s} IN
        /\ later = {} => row[d.s].status = d.to
        /\ later # {} => LET j == Min(later) IN decisions[j].from = d.to \/ Overlaps(i, j)
        /\ d.decision = "corrected" /\ row[d.s].correction # "corrected"
               => \E j \in later : Overlaps(i, j)

\* A dispute or a rejection keeps a statement from every reader until a
\* reviewer promotes it again, or writes a decision he had in hand before it:
\* a hold so written puts back the status it had read (ai_risk_gate.py:715).
NoSilentRevival ==
    \A s \in published_records \cup reviewer_internal_records, i \in DOMAIN decisions :
        decisions[i].s = s /\ decisions[i].decision \in {"disputed", "rejected"}
            => \E j \in DOMAIN decisions :
                   /\ j > i /\ decisions[j].s = s
                   /\ decisions[j].decision \in PROMOTING_DECISIONS \/ Overlaps(i, j)

\* An anchor once set changes only with a promotion that names another: the
\* anchoring batch writes it once (agenda_anchor_batch.py:709).
AnchorsMoveWithDecisions ==
    [][\A s \in Statements :
           row[s].anchor # NoItem /\ row'[s].anchor # row[s].anchor
               => Len(decisions') > Len(decisions)]_vars

\* What read_api serves to the public has passed the gate.
PublicPassesTheGate == \A s \in published_records : ~statement_publication_blocked(s)
=============================================================================
