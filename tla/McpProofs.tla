------------------------------ MODULE McpProofs ------------------------------
(***************************************************************************)
(* Theorems about McpService, for any number of runs, lenses, calls and    *)
(* owner's commands.  The invariant speaks of calls in flight: how many    *)
(* may still be charged, and how many may still be counted.                *)
(***************************************************************************)
EXTENDS McpService, FiniteSetTheorems, TLAPS

Pcs == {"select", "load", "preflight", "breach", "generate", "failed", "answered",
        "audit_failure", "charge", "verify", "consume", "audit_refusal", "stage",
        "audit_call", "reject", "done", "denied", "killed"}

Budgets == [cap : Nat, paused : BOOLEAN]
RunRow == [pc : Pcs, left : Int, saw : Budgets, units : Nat, seq : Nat, draft : Nat,
           findings : BOOLEAN]
Drafts == [review_state : {"unreviewed", "rejected"}, findings : BOOLEAN]

TypeOK ==
    /\ budget \in Budgets /\ topCap \in Nat /\ spend \in Nat
    /\ events \in Seq({"breach", "owner-change", "resume"})
    /\ alarm \in Seq({"breach", "owner-change", "resume"})
    /\ grant \in [used : Nat, revoked : BOOLEAN, expired : BOOLEAN]
    /\ drafts \in Seq(Drafts)
    /\ run \in [Runs -> RunRow]

-----------------------------------------------------------------------------
(* What becomes of a run's row.                                            *)

Turns(r, row) == row \in RunRow /\ run' = [run EXCEPT ![r] = row]
Cleared(row) == row.saw.cap = 0 /\ row.units = 0 /\ row.draft = 0

LEMMA Turned ==
    ASSUME TypeOK, NEW r \in Runs, NEW row, Turns(r, row)
    PROVE  /\ run' \in [Runs -> RunRow] /\ run'[r] = row
           /\ \A q \in Runs : q # r => run'[q] = run[q]
BY DEF TypeOK, Turns

(* The rows that the actions put together out of a row.                    *)
RowAt(old, pc) == [old EXCEPT !.pc = pc]
RowLeft(old, pc, left) == [old EXCEPT !.pc = pc, !.left = left]
RowNext(old, pc, left) == [old EXCEPT !.left = left, !.pc = pc]
RowDead(old, pc, left, draft) == [old EXCEPT !.pc = pc, !.left = left, !.draft = draft]

RowLoaded(old, b) == [old EXCEPT !.pc = "preflight", !.saw = b]
RowAnswered(old, units, f) == [old EXCEPT !.pc = "answered", !.units = units, !.findings = f]
RowVerified(old, pc, seq) == [old EXCEPT !.pc = pc, !.seq = seq]
RowStaged(old, draft) == [old EXCEPT !.pc = "audit_call", !.draft = draft]

LEMMA RowAtOK ==
    ASSUME NEW old \in RunRow, NEW pc \in Pcs
    PROVE  LET row == RowAt(old, pc) IN
           /\ row \in RunRow /\ row.pc = pc /\ row.saw = old.saw /\ row.units = old.units
           /\ row.seq = old.seq /\ row.findings = old.findings /\ row.draft = old.draft
BY DEF RunRow, RowAt

LEMMA RowLeftOK ==
    ASSUME NEW old \in RunRow, NEW pc \in Pcs, NEW left \in Int
    PROVE  LET row == RowLeft(old, pc, left) IN
           /\ row \in RunRow /\ row.pc = pc /\ row.saw = old.saw /\ row.units = old.units
           /\ row.seq = old.seq /\ row.findings = old.findings /\ row.draft = old.draft
BY DEF RunRow, RowLeft

LEMMA RowNextOK ==
    ASSUME NEW old \in RunRow, NEW pc \in Pcs, NEW left \in Int
    PROVE  LET row == RowNext(old, pc, left) IN
           /\ row \in RunRow /\ row.pc = pc /\ row.saw = old.saw /\ row.units = old.units
           /\ row.seq = old.seq /\ row.findings = old.findings /\ row.draft = old.draft
BY DEF RunRow, RowNext

LEMMA RowDeadOK ==
    ASSUME NEW old \in RunRow, NEW pc \in Pcs, NEW left \in Int, NEW draft \in Nat
    PROVE  LET row == RowDead(old, pc, left, draft) IN
           /\ row \in RunRow /\ row.pc = pc /\ row.saw = old.saw /\ row.units = old.units
           /\ row.seq = old.seq /\ row.findings = old.findings /\ row.draft = draft
BY DEF RunRow, RowDead

LEMMA RowLoadedOK ==
    ASSUME NEW old \in RunRow, NEW b \in Budgets
    PROVE  LET row == RowLoaded(old, b) IN
           /\ row \in RunRow /\ row.pc = "preflight" /\ row.saw = b
           /\ row.draft = old.draft
BY DEF RunRow, Pcs, RowLoaded

LEMMA RowAnsweredOK ==
    ASSUME NEW old \in RunRow, NEW units \in Nat, NEW f \in BOOLEAN
    PROVE  LET row == RowAnswered(old, units, f) IN
           /\ row \in RunRow /\ row.pc = "answered" /\ row.saw = old.saw
           /\ row.units = units /\ row.draft = old.draft
BY DEF RunRow, Pcs, RowAnswered

LEMMA RowVerifiedOK ==
    ASSUME NEW old \in RunRow, NEW pc \in Pcs, NEW seq \in Nat
    PROVE  LET row == RowVerified(old, pc, seq) IN
           /\ row \in RunRow /\ row.pc = pc /\ row.saw = old.saw /\ row.units = old.units
           /\ row.seq = seq /\ row.draft = old.draft
BY DEF RunRow, Pcs, RowVerified

LEMMA RowStagedOK ==
    ASSUME NEW old \in RunRow, NEW draft \in Nat
    PROVE  LET row == RowStaged(old, draft) IN
           /\ row \in RunRow /\ row.pc = "audit_call" /\ row.saw = old.saw
           /\ row.findings = old.findings /\ row.draft = draft
BY DEF RunRow, Pcs, RowStaged

LEMMA FreshRow == Fresh \in RunRow /\ Cleared(Fresh) /\ Fresh.pc = "select"
<1>1. LensCount \in Nat
    BY McpAssumption
<1> QED BY <1>1 DEF Fresh, RunRow, Budgets, Cleared, Pcs

LEMMA Goes ==
    ASSUME TypeOK, NEW r \in Runs, NEW pc \in Pcs, Goto(r, pc)
    PROVE  \E row : /\ Turns(r, row) /\ row.pc = pc
                    /\ row.saw = run[r].saw /\ row.units = run[r].units
                    /\ row.seq = run[r].seq /\ row.draft = run[r].draft
                    /\ row.findings = run[r].findings
<1> DEFINE row == RowAt(run[r], pc)
<1>1. run[r] \in RunRow
    BY DEF TypeOK
<1>2. /\ row \in RunRow /\ row.pc = pc
      /\ row.saw = run[r].saw /\ row.units = run[r].units /\ row.seq = run[r].seq
      /\ row.findings = run[r].findings
    BY <1>1, RowAtOK, 0 \in Int, 0 \in Nat
<1>3. row.draft = run[r].draft
    BY <1>1, RowAtOK, 0 \in Nat
<1>4. run' = [run EXCEPT ![r] = row]
    BY DEF Goto, RowAt
<1> QED BY <1>2, <1>3, <1>4 DEF Turns

LEMMA Abandons ==
    ASSUME TypeOK, NEW r \in Runs, Abandon(r)
    PROVE  \E row : Turns(r, row) /\ row.pc = "denied" /\ Cleared(row)
<1> DEFINE row == RowLeft(Fresh, "denied", 0)
<1>1. "denied" \in Pcs /\ 0 \in Int /\ 0 \in Nat
    BY DEF Pcs
<1>2. row \in RunRow /\ row.pc = "denied" /\ row.saw = Fresh.saw /\ row.units = Fresh.units
    BY <1>1, RowLeftOK, FreshRow
<1>3. row.draft = Fresh.draft
    BY <1>1, RowLeftOK, FreshRow
<1>4. run' = [run EXCEPT ![r] = row]
    BY DEF Abandon, RowLeft
<1> HIDE DEF row
<1> QED BY <1>2, <1>3, <1>4, FreshRow DEF Turns, Cleared

LEMMA Nexts ==
    ASSUME TypeOK, NEW r \in Runs, NextLens(r)
    PROVE  \E row : Turns(r, row) /\ row.pc \in {"done", "select"} /\ Cleared(row)
<1> DEFINE to == IF run[r].left = 1 THEN "done" ELSE "select"
           left == run[r].left - 1
           row == RowNext(Fresh, to, left)
<1>1. to \in Pcs /\ to \in {"done", "select"} /\ left \in Int /\ 0 \in Nat
    BY DEF Pcs, TypeOK, RunRow
<1>2. run' = [run EXCEPT ![r] = row]
    BY DEF NextLens, RowNext
<1> HIDE DEF to, left
<1>3. row \in RunRow /\ row.pc = to /\ row.saw = Fresh.saw /\ row.units = Fresh.units
    BY <1>1, RowNextOK, FreshRow
<1>4. row.draft = Fresh.draft
    BY <1>1, RowNextOK, FreshRow
<1> HIDE DEF row
<1> QED BY <1>1, <1>2, <1>3, <1>4, FreshRow DEF Turns, Cleared

LEMMA Dies ==
    ASSUME TypeOK, NEW r \in Runs, Killed(r)
    PROVE  \E row : /\ Turns(r, row) /\ row.pc = "killed"
                    /\ row.draft = run[r].draft /\ row.saw.cap = 0
<1> DEFINE row == RowDead(Fresh, "killed", 0, run[r].draft)
<1>1. "killed" \in Pcs /\ 0 \in Int /\ run[r].draft \in Nat
    BY DEF Pcs, TypeOK, RunRow
<1>2. row \in RunRow /\ row.pc = "killed" /\ row.saw = Fresh.saw
    <2>1. Fresh \in RunRow
        BY FreshRow
    <2> HIDE DEF row
    <2>2. row = RowDead(Fresh, "killed", 0, run[r].draft)
        BY DEF row
    <2> QED BY <1>1, <2>1, <2>2, RowDeadOK
<1>3. row.draft = run[r].draft
    BY <1>1, RowDeadOK, FreshRow
<1>4. run' = [run EXCEPT ![r] = row]
    BY DEF Killed, RowDead
<1> HIDE DEF row
<1> QED BY <1>2, <1>3, <1>4, FreshRow DEF Turns, Cleared

LEMMA Loads ==
    ASSUME TypeOK, NEW r \in Runs, budget_for_provider(r)
    PROVE  \E row : Turns(r, row) /\ row.pc = "preflight" /\ row.saw = budget
<1>1. run[r] \in RunRow /\ budget \in Budgets
    BY DEF TypeOK
<1>2. run' = [run EXCEPT ![r] = RowLoaded(run[r], budget)]
    BY DEF budget_for_provider, RowLoaded
<1>3. Turns(r, RowLoaded(run[r], budget))
    BY <1>1, <1>2, RowLoadedOK DEF Turns
<1> QED BY <1>1, <1>3, RowLoadedOK

LEMMA Answers ==
    ASSUME TypeOK, NEW r \in Runs, Generate(r), ~Goto(r, "failed")
    PROVE  \E row : /\ Turns(r, row) /\ row.pc = "answered" /\ row.saw = run[r].saw
                    /\ row.units <= MaxUnits
<1>1. run[r] \in RunRow /\ MaxUnits \in Nat
    BY McpAssumption DEF TypeOK
<1>3. PICK units \in 0..MaxUnits, f \in BOOLEAN :
          run' = [run EXCEPT ![r] = RowAnswered(run[r], units, f)]
    BY DEF Generate, RowAnswered
<1>4. units \in Nat /\ units <= MaxUnits
    BY <1>1
<1>5. Turns(r, RowAnswered(run[r], units, f))
    BY <1>1, <1>3, <1>4, RowAnsweredOK DEF Turns
<1> QED BY <1>1, <1>4, <1>5, RowAnsweredOK

LEMMA Verifies ==
    ASSUME TypeOK, NEW r \in Runs, verify(r)
    PROVE  \E row : /\ Turns(r, row) /\ row.pc \in {"audit_refusal", "consume"}
                    /\ row.pc = "consume" => ~Exhausted
                    /\ row.seq = grant.used + 1 /\ row.saw = run[r].saw
<1> DEFINE to == IF grant.expired \/ grant.revoked \/ Exhausted THEN "audit_refusal" ELSE "consume"
           next == grant.used + 1
<1>1. run[r] \in RunRow /\ to \in Pcs /\ next \in Nat
    BY DEF TypeOK, Pcs
<1>2. run' = [run EXCEPT ![r] = RowVerified(run[r], to, next)]
    BY DEF verify, RowVerified
<1>3. to \in {"audit_refusal", "consume"} /\ (to = "consume" => ~Exhausted)
    OBVIOUS
<1> HIDE DEF to, next
<1>4. Turns(r, RowVerified(run[r], to, next))
    BY <1>1, <1>2, RowVerifiedOK DEF Turns
<1>5. next = grant.used + 1
    BY DEF next
<1> QED BY <1>1, <1>3, <1>4, <1>5, RowVerifiedOK

LEMMA Stages ==
    ASSUME TypeOK, NEW r \in Runs, submit_output(r)
    PROVE  \E row : /\ Turns(r, row) /\ row.pc = "audit_call" /\ row.saw = run[r].saw
                    /\ row.draft = Len(drafts) + 1 /\ row.findings = run[r].findings
<1> DEFINE new == Len(drafts) + 1
<1>1. run[r] \in RunRow /\ new \in Nat
    BY DEF TypeOK
<1>2. run' = [run EXCEPT ![r] = RowStaged(run[r], new)]
    BY DEF submit_output, RowStaged
<1> HIDE DEF new
<1>3. Turns(r, RowStaged(run[r], new))
    BY <1>1, <1>2, RowStagedOK DEF Turns
<1> QED BY <1>1, <1>3, RowStagedOK DEF new

-----------------------------------------------------------------------------
(* Types.                                                                  *)

(* Whatever a step does to a run, it gives it a row of the schema.         *)
LEMMA RunsTyped ==
    ASSUME TypeOK, NEW r \in Runs, RunStep(r) \/ Killed(r)
    PROVE  run' \in [Runs -> RunRow]
<1>1. \A pc \in Pcs : Goto(r, pc) => run' \in [Runs -> RunRow]
    BY Goes, Turned
<1>2. {"load", "breach", "generate", "failed", "audit_failure", "charge", "verify", "stage",
       "reject"} \subseteq Pcs
    BY DEF Pcs
<1>3. Abandon(r) => run' \in [Runs -> RunRow]
    BY Abandons, Turned
<1>4. NextLens(r) => run' \in [Runs -> RunRow]
    BY Nexts, Turned
<1>5. CASE RunSelects(r)
    BY <1>1, <1>2, <1>3, <1>5 DEF RunSelects
<1>6. CASE budget_for_provider(r)
    BY <1>6, Loads, Turned
<1>7. CASE preflight(r)
    BY <1>1, <1>2, <1>3, <1>7 DEF preflight
<1>8. CASE record_breach(r)
    BY <1>3, <1>8 DEF record_breach
<1>9. CASE Generate(r)
    <2>1. CASE ~Goto(r, "failed")
        BY <1>9, <2>1, Answers, Turned
    <2>2. CASE Goto(r, "failed")
        BY <2>2, <1>1, <1>2
    <2> QED BY <2>1, <2>2
<1>10. CASE RecordHealth(r)
    BY <1>1, <1>2, <1>10 DEF RecordHealth
<1>11. CASE _deny_audit(r)
    BY <1>3, <1>11 DEF _deny_audit
<1>12. CASE Charge(r)
    BY <1>1, <1>2, <1>12 DEF Charge
<1>13. CASE verify(r)
    BY <1>13, Verifies, Turned
<1>14. CASE ConsumeCall(r)
    BY <1>1, <1>2, <1>14 DEF ConsumeCall
<1>15. CASE submit_output(r)
    BY <1>15, Stages, Turned
<1>16. CASE _guarded(r)
    BY <1>1, <1>2, <1>3, <1>4, <1>16 DEF _guarded
<1>17. CASE RejectDraft(r)
    BY <1>4, <1>17 DEF RejectDraft
<1>18. CASE Killed(r)
    BY <1>18, Dies, Turned
<1> QED BY <1>5, <1>6, <1>7, <1>8, <1>9, <1>10, <1>11, <1>12, <1>13, <1>14, <1>15, <1>16,
           <1>17, <1>18 DEF RunStep

LEMMA LargerOf ==
    ASSUME NEW m \in Nat, NEW n \in Nat
    PROVE  Max({m, n}) \in Nat /\ m <= Max({m, n}) /\ n <= Max({m, n})
<1>1. \E x \in {m, n} : \A y \in {m, n} : x >= y
    OBVIOUS
<1> QED BY <1>1 DEF Max

LEMMA TypesHold == TypeOK /\ [Next]_vars => TypeOK'
<1> DEFINE Kinds == {"breach", "owner-change", "resume"}
<1> SUFFICES ASSUME TypeOK, [Next]_vars
             PROVE  TypeOK'
    OBVIOUS
<1>c. Caps \subseteq Nat
    BY McpAssumption
<1>1. ASSUME NEW r \in Runs, RunStep(r) \/ Killed(r)
      PROVE  TypeOK'
    <2>1. run' \in [Runs -> RunRow]
        BY <1>1, RunsTyped
    <2>2. topCap' \in Nat /\ alarm' \in Seq(Kinds)
        BY <1>1 DEF TypeOK, RunStep, RunSelects, budget_for_provider, preflight, record_breach,
                    Generate, RecordHealth, _deny_audit, Charge, verify, ConsumeCall,
                    submit_output, _guarded, RejectDraft, Killed
    <2>3. budget' \in Budgets /\ events' \in Seq(Kinds)
        <3>1. CASE record_breach(r)
            <4>1. "breach" \in Kinds
                OBVIOUS
            <4> HIDE DEF Kinds
            <4>2. events \in Seq(Kinds) /\ events' = Append(events, "breach")
                BY <3>1 DEF record_breach, TypeOK, Kinds
            <4>3. budget' \in Budgets
                BY <3>1 DEF record_breach, TypeOK, Budgets
            <4> QED BY <4>1, <4>2, <4>3
        <3>2. CASE ~record_breach(r)
            BY <1>1, <3>2 DEF TypeOK, RunStep, RunSelects, budget_for_provider, preflight,
                    Generate, RecordHealth, _deny_audit, Charge, verify, ConsumeCall,
                    submit_output, _guarded, RejectDraft, Killed
        <3> QED BY <3>1, <3>2
    <2>4. spend' \in Nat
        <3>1. run[r].units \in Nat
            BY DEF TypeOK, RunRow
        <3>2. CASE Charge(r)
            BY <3>1, <3>2 DEF TypeOK, Charge
        <3>3. CASE ~Charge(r)
            BY <1>1, <3>3 DEF TypeOK, RunStep, RunSelects, budget_for_provider, preflight,
                    record_breach, Generate, RecordHealth, _deny_audit, verify,
                    ConsumeCall, submit_output, _guarded, RejectDraft, Killed
        <3> QED BY <3>2, <3>3
    <2>5. grant' \in [used : Nat, revoked : BOOLEAN, expired : BOOLEAN]
        <3>1. CASE ConsumeCall(r)
            BY <3>1 DEF TypeOK, ConsumeCall
        <3>2. CASE ~ConsumeCall(r)
            BY <1>1, <3>2 DEF TypeOK, RunStep, RunSelects, budget_for_provider, preflight,
                    record_breach, Generate, RecordHealth, _deny_audit, Charge, verify,
                    submit_output, _guarded, RejectDraft, Killed
        <3> QED BY <3>1, <3>2
    <2>6. drafts' \in Seq(Drafts)
        <3>1. CASE submit_output(r)
            <4> DEFINE new == [review_state |-> "unreviewed", findings |-> run[r].findings]
            <4>1. new \in Drafts
                BY DEF TypeOK, RunRow, Drafts
            <4> HIDE DEF new
            <4>2. drafts' = Append(drafts, new)
                BY <3>1 DEF submit_output, new
            <4> QED BY <4>1, <4>2 DEF TypeOK
        <3>2. CASE RejectDraft(r)
            <4> DEFINE n == run[r].draft
                       new == [drafts[n] EXCEPT !.review_state = "rejected"]
            <4>1. n \in DOMAIN drafts => new \in Drafts
                <5>1. \A d \in Drafts : [d EXCEPT !.review_state = "rejected"] \in Drafts
                    BY DEF Drafts
                <5>2. n \in DOMAIN drafts => drafts[n] \in Drafts
                    BY DEF TypeOK
                <5> QED BY <5>1, <5>2
            <4>2. drafts' = [drafts EXCEPT ![n] = new]
                BY <3>2 DEF RejectDraft
            <4> HIDE DEF n, new
            <4>3. drafts \in Seq(Drafts)
                BY DEF TypeOK
            <4>4. drafts \in [1..Len(drafts) -> Drafts] /\ Len(drafts) \in Nat
                BY <4>3
            <4>5. drafts' \in [1..Len(drafts) -> Drafts]
                BY <4>1, <4>2, <4>4
            <4> QED BY <4>4, <4>5
        <3>3. CASE ~submit_output(r) /\ ~RejectDraft(r)
            BY <1>1, <3>3 DEF TypeOK, RunStep, RunSelects, budget_for_provider, preflight,
                    record_breach, Generate, RecordHealth, _deny_audit, Charge, verify,
                    ConsumeCall, _guarded, Killed
        <3> QED BY <3>1, <3>2, <3>3
    <2> QED BY <2>1, <2>2, <2>3, <2>4, <2>5, <2>6 DEF TypeOK
<1>2. ASSUME NEW cap \in Caps, set_cap(cap)
      PROVE  TypeOK'
    <2>1. topCap' \in Nat /\ budget' \in Budgets
        BY <1>c, <1>2, LargerOf DEF set_cap, TypeOK, Budgets
    <2>2. events' \in Seq(Kinds)
        <3>1. "owner-change" \in Kinds
            OBVIOUS
        <3> HIDE DEF Kinds
        <3>2. events \in Seq(Kinds) /\ events' = Append(events, "owner-change")
            BY <1>2 DEF set_cap, TypeOK, Kinds
        <3> QED BY <3>1, <3>2
    <2> QED BY <1>2, <2>1, <2>2 DEF set_cap, TypeOK
<1>3. CASE resume
    <2>1. budget' \in Budgets
        BY <1>3 DEF resume, TypeOK, Budgets
    <2>2. events' \in Seq(Kinds)
        <3>1. "resume" \in Kinds
            OBVIOUS
        <3> HIDE DEF Kinds
        <3>2. events \in Seq(Kinds) /\ events' = Append(events, "resume")
            BY <1>3 DEF resume, TypeOK, Kinds
        <3> QED BY <3>1, <3>2
    <2> QED BY <1>3, <2>1, <2>2 DEF resume, TypeOK
<1>4. CASE revoke \/ Expire
    BY <1>4 DEF revoke, Expire, TypeOK
<1>5. CASE ReadBreaches \/ reconcile \/ UNCHANGED vars
    BY <1>5 DEF ReadBreaches, reconcile, vars, TypeOK
<1> QED BY <1>1, <1>2, <1>3, <1>4, <1>5 DEF Next

-----------------------------------------------------------------------------
(* The budget.  Whatever calls are between the preflight and their charge, *)
(* the spend is so far below its bound that each can still be charged.     *)

Flying == {"generate", "answered", "charge"}
Flyers == {r \in Runs : run[r].pc \in Flying}

Covered ==
    \/ spend = 0 /\ Flyers = {}
    \/ spend + Cardinality(Flyers) * MaxUnits
           <= topCap - Estimate + Cardinality(Runs) * MaxUnits

SawOK(row) ==
    row.saw.cap <= topCap /\ (row.pc \in {"answered", "charge"} => row.units <= MaxUnits)

SpendOK == budget.cap <= topCap /\ (\A r \in Runs : SawOK(run[r])) /\ Covered

LEMMA Times ==
    ASSUME NEW m \in Nat, NEW n \in Nat, NEW k \in Nat, m <= n
    PROVE  m * k \in Nat /\ n * k \in Nat /\ m * k <= n * k
OBVIOUS

LEMMA FewerFlyers ==
    ASSUME NEW S \in SUBSET Runs, NEW T \in SUBSET S
    PROVE  /\ Cardinality(S) \in Nat /\ Cardinality(T) \in Nat /\ Cardinality(Runs) \in Nat
           /\ Cardinality(T) * MaxUnits <= Cardinality(S) * MaxUnits
           /\ Cardinality(S) * MaxUnits <= Cardinality(Runs) * MaxUnits
           /\ Cardinality(S) * MaxUnits \in Nat /\ Cardinality(T) * MaxUnits \in Nat
           /\ Cardinality(Runs) * MaxUnits \in Nat
<1>1. IsFiniteSet(Runs) /\ MaxUnits \in Nat
    BY McpAssumption
<1>2. IsFiniteSet(S) /\ Cardinality(S) <= Cardinality(Runs)
    BY <1>1, FS_Subset
<1>3. IsFiniteSet(T) /\ Cardinality(T) <= Cardinality(S)
    BY <1>2, FS_Subset
<1>4. Cardinality(S) \in Nat /\ Cardinality(T) \in Nat /\ Cardinality(Runs) \in Nat
    BY <1>1, <1>2, <1>3, FS_CardinalityType
<1> QED BY <1>1, <1>2, <1>3, <1>4, Times

(* A step that charges nothing and lets no call fly.                       *)
LEMMA SpendQuiet ==
    ASSUME TypeOK, SpendOK, NEW r \in Runs, NEW row, Turns(r, row), SawOK(row),
           spend' = spend, topCap' = topCap, budget'.cap = budget.cap,
           row.pc \in Flying => run[r].pc \in Flying
    PROVE  SpendOK'
<1>1. /\ run'[r] = row /\ \A q \in Runs : q # r => run'[q] = run[q]
    BY Turned
<1>2. Flyers' \subseteq Flyers /\ Flyers \subseteq Runs
    BY <1>1 DEF Flyers
<1>3. (\A q \in Runs : SawOK(run[q]))'
    BY <1>1 DEF SpendOK, SawOK
<1>4. Covered'
    <2> DEFINE F == Flyers
               G == Flyers'
               f == Cardinality(F) * MaxUnits
               g == Cardinality(G) * MaxUnits
               n == Cardinality(Runs) * MaxUnits
    <2>1. f \in Nat /\ g \in Nat /\ n \in Nat /\ g <= f
        BY <1>2, FewerFlyers
    <2>2. (spend = 0 /\ F = {}) \/ spend + f <= topCap - Estimate + n
        BY DEF SpendOK, Covered
    <2>3. G \subseteq F
        BY <1>2
    <2>4. spend \in Nat /\ topCap \in Nat /\ Estimate \in Nat
        BY McpAssumption DEF TypeOK
    <2> SUFFICES (spend = 0 /\ G = {}) \/ spend + g <= topCap - Estimate + n
        BY DEF Covered
    <2> HIDE DEF F, G, f, g, n
    <2> QED BY <2>1, <2>2, <2>3, <2>4
<1> QED BY <1>3, <1>4 DEF SpendOK

(* The estimate fits under the cap that was read: the call may fly.        *)
LEMMA SpendTakesOff ==
    ASSUME TypeOK, SpendOK, NEW r \in Runs, NEW row, Turns(r, row), SawOK(row),
           spend' = spend, topCap' = topCap, budget' = budget, ~OverCap(run[r].saw.cap)
    PROVE  SpendOK'
<1>1. /\ run'[r] = row /\ \A q \in Runs : q # r => run'[q] = run[q]
    BY Turned
<1>2. (\A q \in Runs : SawOK(run[q]))'
    BY <1>1 DEF SpendOK, SawOK
<1>3. Covered'
    <2> DEFINE G == Flyers'
               g == Cardinality(G) * MaxUnits
               n == Cardinality(Runs) * MaxUnits
    <2>1. g \in Nat /\ n \in Nat /\ g <= n
        BY FewerFlyers DEF Flyers
    <2>2. run[r].saw.cap \in Nat /\ run[r].saw.cap <= topCap
        BY DEF TypeOK, RunRow, Budgets, SpendOK, SawOK
    <2>3. spend \in Nat /\ topCap \in Nat /\ Estimate \in Nat
        BY McpAssumption DEF TypeOK
    <2>4. spend + Estimate <= topCap
        BY <2>2, <2>3 DEF OverCap
    <2> SUFFICES spend + g <= topCap - Estimate + n
        BY DEF Covered
    <2> HIDE DEF G, g, n
    <2> QED BY <2>1, <2>3, <2>4
<1> QED BY <1>2, <1>3 DEF SpendOK

(* The charge: one call less in flight pays for what it adds.              *)
LEMMA SpendLands ==
    ASSUME TypeOK, SpendOK, NEW r \in Runs, Charge(r)
    PROVE  SpendOK'
<1>1. "verify" \in Pcs
    BY DEF Pcs
<1>2. PICK row : Turns(r, row) /\ row.pc = "verify" /\ row.saw = run[r].saw
    BY <1>1, Goes DEF Charge
<1>3. /\ run'[r] = row /\ \A q \in Runs : q # r => run'[q] = run[q]
    BY <1>2, Turned
<1>4. (\A q \in Runs : SawOK(run[q]))'
    BY <1>2, <1>3 DEF SpendOK, SawOK, Charge
<1>5. Covered'
    <2> DEFINE F == Flyers
               G == Flyers'
               f == Cardinality(F)
               g == Cardinality(G)
               u == run[r].units
               n == Cardinality(Runs) * MaxUnits
    <2>1. r \in F /\ G = F \ {r}
        BY <1>2, <1>3 DEF Flyers, Flying, Charge, At
    <2>2. IsFiniteSet(F) /\ f \in Nat
        BY McpAssumption, FS_Subset, FS_CardinalityType DEF Flyers
    <2>3. g = f - 1 /\ g \in Nat
        <3>1. IsFiniteSet(F \ {r})
            BY <2>2, FS_Subset
        <3> HIDE DEF F, G
        <3> QED BY <2>1, <2>2, <3>1, FS_RemoveElement, FS_CardinalityType
    <2>4. u \in Nat /\ u <= MaxUnits /\ MaxUnits \in Nat
        BY McpAssumption DEF TypeOK, RunRow, SpendOK, SawOK, Charge, At
    <2>5. spend + f * MaxUnits <= topCap - Estimate + n
        BY <2>1 DEF SpendOK, Covered
    <2>6. spend' = spend + u /\ topCap' = topCap
        BY DEF Charge
    <2>7. spend \in Nat /\ topCap \in Nat /\ Estimate \in Nat /\ n \in Nat
        BY McpAssumption, FewerFlyers DEF TypeOK
    <2>8. f * MaxUnits = g * MaxUnits + MaxUnits
        BY <2>2, <2>3, <2>4
    <2>9. g * MaxUnits \in Nat
        BY <2>3, <2>4
    <2> SUFFICES spend' + g * MaxUnits <= topCap' - Estimate + n
        BY DEF Covered
    <2> DEFINE gm == g * MaxUnits
               fm == f * MaxUnits
    <2>10. fm = gm + MaxUnits /\ gm \in Nat /\ spend + fm <= topCap - Estimate + n
        BY <2>5, <2>8, <2>9
    <2> SUFFICES spend' + gm <= topCap' - Estimate + n
        OBVIOUS
    <2> HIDE DEF F, G, f, g, u, n, gm, fm
    <2> QED BY <2>4, <2>6, <2>7, <2>10
<1> QED BY <1>4, <1>5 DEF SpendOK, Charge

LEMMA SpendOfRun ==
    ASSUME TypeOK, SpendOK, NEW r \in Runs, RunStep(r) \/ Killed(r)
    PROVE  SpendOK'
<1> DEFINE Still == spend' = spend /\ topCap' = topCap /\ budget'.cap = budget.cap
<1>a. SawOK(run[r]) /\ run[r].saw.cap \in Nat /\ topCap \in Nat
    BY DEF SpendOK, TypeOK, RunRow, Budgets
<1>b. ASSUME NEW pc \in Pcs, Goto(r, pc), Still, pc \in Flying => run[r].pc \in Flying,
             pc \in {"answered", "charge"} => run[r].pc \in {"answered", "charge"}
      PROVE  SpendOK'
    <2>1. PICK row : /\ Turns(r, row) /\ row.pc = pc /\ row.saw = run[r].saw
                     /\ row.units = run[r].units
        BY <1>b, Goes
    <2>2. SawOK(row)
        BY <1>a, <1>b, <2>1 DEF SawOK
    <2> QED BY <1>b, <2>1, <2>2, SpendQuiet
<1>c. ASSUME NEW row, Turns(r, row), row.saw.cap = 0, row.pc \notin Flying, Still
      PROVE  SpendOK'
    <2>1. SawOK(row)
        BY <1>a, <1>c DEF SawOK, Flying
    <2> QED BY <1>c, <2>1, SpendQuiet
<1>d. ASSUME Abandon(r), Still
      PROVE  SpendOK'
    BY <1>c, <1>d, Abandons DEF Cleared, Flying
<1>e. ASSUME NextLens(r), Still
      PROVE  SpendOK'
    BY <1>c, <1>e, Nexts DEF Cleared, Flying
<1>f. {"load", "breach", "generate", "failed", "audit_failure", "charge", "verify", "stage",
       "reject"} \subseteq Pcs
    BY DEF Pcs
<1>1. CASE RunSelects(r)
    <2>1. Still /\ (Goto(r, "load") \/ Abandon(r))
        BY <1>1 DEF RunSelects
    <2> QED BY <1>b, <1>d, <1>f, <2>1 DEF Flying
<1>2. CASE budget_for_provider(r)
    <2>1. PICK row : Turns(r, row) /\ row.pc = "preflight" /\ row.saw = budget
        BY <1>2, Loads
    <2>2. SawOK(row)
        BY <2>1 DEF SawOK, SpendOK
    <2> QED BY <1>2, <2>1, <2>2, SpendQuiet DEF budget_for_provider, Flying
<1>3. CASE preflight(r)
    <2>1. Still /\ budget' = budget
        BY <1>3 DEF preflight
    <2>2. Goto(r, "breach") \/ Abandon(r) \/ (Goto(r, "generate") /\ ~OverCap(run[r].saw.cap))
        BY <1>a, <1>3 DEF preflight
    <2>3. CASE Goto(r, "breach") \/ Abandon(r)
        BY <1>b, <1>d, <1>f, <2>1, <2>3 DEF Flying
    <2>4. CASE Goto(r, "generate") /\ ~OverCap(run[r].saw.cap)
        <3>1. PICK row : Turns(r, row) /\ row.pc = "generate" /\ row.saw = run[r].saw
            BY <1>f, <2>4, Goes
        <3>2. SawOK(row)
            BY <1>a, <3>1 DEF SawOK
        <3> QED BY <2>1, <2>4, <3>1, <3>2, SpendTakesOff
    <2> QED BY <2>2, <2>3, <2>4
<1>4. CASE record_breach(r)
    <2>1. Still /\ Abandon(r)
        BY <1>4 DEF record_breach, TypeOK, Budgets
    <2> QED BY <1>d, <2>1
<1>5. CASE Generate(r)
    <2>1. Still /\ run[r].pc = "generate"
        BY <1>5 DEF Generate, At
    <2>2. CASE Goto(r, "failed")
        BY <1>b, <1>f, <2>1, <2>2 DEF Flying
    <2>3. CASE ~Goto(r, "failed")
        <3>1. PICK row : Turns(r, row) /\ row.pc = "answered" /\ row.saw = run[r].saw
                         /\ row.units <= MaxUnits
            BY <1>5, <2>3, Answers
        <3>2. SawOK(row)
            BY <1>a, <3>1 DEF SawOK
        <3> QED BY <2>1, <3>1, <3>2, SpendQuiet DEF Flying
    <2> QED BY <2>2, <2>3
<1>6. CASE RecordHealth(r)
    <2>1. Still /\ \/ run[r].pc = "failed" /\ Goto(r, "audit_failure")
                   \/ run[r].pc = "answered" /\ Goto(r, "charge")
        BY <1>6 DEF RecordHealth, At
    <2> QED BY <1>b, <1>f, <2>1 DEF Flying
<1>7. CASE _deny_audit(r)
    BY <1>d, <1>7 DEF _deny_audit
<1>8. CASE Charge(r)
    BY <1>8, SpendLands
<1>9. CASE verify(r)
    <2>1. PICK row : Turns(r, row) /\ row.pc \in {"audit_refusal", "consume"}
                     /\ row.saw = run[r].saw
        BY <1>9, Verifies
    <2>2. SawOK(row)
        BY <1>a, <2>1 DEF SawOK
    <2> QED BY <1>9, <2>1, <2>2, SpendQuiet DEF verify, Flying
<1>10. CASE ConsumeCall(r)
    BY <1>b, <1>f, <1>10 DEF ConsumeCall, Flying
<1>11. CASE submit_output(r)
    <2>1. PICK row : Turns(r, row) /\ row.pc = "audit_call" /\ row.saw = run[r].saw
        BY <1>11, Stages
    <2>2. SawOK(row)
        BY <1>a, <2>1 DEF SawOK
    <2> QED BY <1>11, <2>1, <2>2, SpendQuiet DEF submit_output, Flying
<1>12. CASE _guarded(r)
    <2>1. Still /\ (Abandon(r) \/ NextLens(r) \/ Goto(r, "reject"))
        BY <1>12 DEF _guarded
    <2> QED BY <1>b, <1>d, <1>e, <1>f, <2>1 DEF Flying
<1>13. CASE RejectDraft(r)
    BY <1>e, <1>13 DEF RejectDraft
<1>14. CASE Killed(r)
    <2>1. PICK row : Turns(r, row) /\ row.pc = "killed" /\ row.saw.cap = 0
        BY <1>14, Dies
    <2> QED BY <1>c, <1>14, <2>1 DEF Killed, Flying
<1> QED BY <1>1, <1>2, <1>3, <1>4, <1>5, <1>6, <1>7, <1>8, <1>9, <1>10, <1>11, <1>12, <1>13,
           <1>14 DEF RunStep

LEMMA SpendHolds == TypeOK /\ SpendOK /\ [Next]_vars => SpendOK'
<1> SUFFICES ASSUME TypeOK, SpendOK, [Next]_vars
             PROVE  SpendOK'
    OBVIOUS
<1>1. ASSUME NEW r \in Runs, RunStep(r) \/ Killed(r)
      PROVE  SpendOK'
    BY <1>1, SpendOfRun
<1>2. ASSUME NEW cap \in Caps, set_cap(cap)
      PROVE  SpendOK'
    <2> DEFINE top == Max({topCap, cap})
               n == Cardinality(Runs) * MaxUnits
               f == Cardinality(Flyers) * MaxUnits
    <2>1. cap \in Nat /\ topCap \in Nat /\ spend \in Nat /\ Estimate \in Nat
          /\ n \in Nat /\ f \in Nat
        BY McpAssumption, FewerFlyers DEF TypeOK, Flyers
    <2>2. top \in Nat /\ topCap <= top /\ cap <= top
        BY <2>1, LargerOf
    <2>3. topCap' = top /\ run' = run /\ spend' = spend /\ budget' = [budget EXCEPT !.cap = cap]
        BY <1>2 DEF set_cap
    <2> HIDE DEF top
    <2>4. budget'.cap <= topCap'
        BY <2>2, <2>3 DEF TypeOK, Budgets
    <2>5. (\A r \in Runs : SawOK(run[r]))'
        <3>1. \A r \in Runs : run[r].saw.cap \in Nat /\ SawOK(run[r])
            BY DEF TypeOK, RunRow, Budgets, SpendOK
        <3> QED BY <2>1, <2>2, <2>3, <3>1 DEF SawOK
    <2>6. Covered'
        <3>1. Flyers' = Flyers
            BY <2>3 DEF Flyers
        <3>2. (spend = 0 /\ Flyers = {}) \/ spend + f <= topCap - Estimate + n
            BY DEF SpendOK, Covered
        <3> SUFFICES (spend = 0 /\ Flyers = {}) \/ spend + f <= top - Estimate + n
            BY <2>3, <3>1 DEF Covered
        <3> HIDE DEF f, n
        <3> QED BY <2>1, <2>2, <3>2
    <2> QED BY <2>4, <2>5, <2>6 DEF SpendOK
<1>3. CASE resume
    <2>1. budget'.cap = budget.cap /\ topCap' = topCap /\ run' = run /\ spend' = spend
        BY <1>3 DEF resume, TypeOK, Budgets
    <2> QED BY <2>1 DEF SpendOK, SawOK, Covered, Flyers
<1>4. CASE revoke \/ Expire \/ ReadBreaches \/ reconcile \/ UNCHANGED vars
    <2>1. budget' = budget /\ topCap' = topCap /\ run' = run /\ spend' = spend
        BY <1>4 DEF revoke, Expire, ReadBreaches, reconcile, vars
    <2> QED BY <2>1 DEF SpendOK, SawOK, Covered, Flyers
<1> QED BY <1>1, <1>2, <1>3, <1>4 DEF Next

-----------------------------------------------------------------------------
(* The grant.  Calls counted and calls about to be counted stay under the  *)
(* limit and the racers: a run goes to be counted only below the limit.    *)

Consumers == {r \in Runs : run[r].pc = "consume"}

SeqOK(row) == row.pc \in {"consume", "stage"} => row.seq <= MaxCalls

CallsOK ==
    MaxCalls > 0 =>
        /\ grant.used + Cardinality(Consumers) <= MaxCalls + Cardinality(Runs) - 1
        /\ \A r \in Runs : SeqOK(run[r])

LEMMA FewerConsumers ==
    ASSUME NEW S \in SUBSET Runs, NEW T \in SUBSET S
    PROVE  /\ IsFiniteSet(S) /\ IsFiniteSet(T)
           /\ Cardinality(S) \in Nat /\ Cardinality(T) \in Nat /\ Cardinality(Runs) \in Nat
           /\ Cardinality(T) <= Cardinality(S) /\ Cardinality(S) <= Cardinality(Runs)
<1>1. IsFiniteSet(Runs)
    BY McpAssumption
<1>2. IsFiniteSet(S) /\ Cardinality(S) <= Cardinality(Runs)
    BY <1>1, FS_Subset
<1>3. IsFiniteSet(T) /\ Cardinality(T) <= Cardinality(S)
    BY <1>2, FS_Subset
<1> QED BY <1>1, <1>2, <1>3, FS_CardinalityType

(* A step that counts no call and sends none to be counted.                *)
LEMMA CallsQuiet ==
    ASSUME TypeOK, CallsOK, NEW r \in Runs, NEW row, Turns(r, row),
           grant'.used = grant.used, row.pc \notin {"consume", "stage"}
    PROVE  CallsOK'
<1>1. /\ run'[r] = row /\ \A q \in Runs : q # r => run'[q] = run[q]
    BY Turned
<1>2. Consumers' \subseteq Consumers /\ Consumers \subseteq Runs
    BY <1>1 DEF Consumers
<1> DEFINE c == Cardinality(Consumers)
           d == Cardinality(Consumers')
           n == Cardinality(Runs)
<1>3. c \in Nat /\ d \in Nat /\ n \in Nat /\ d <= c
    BY <1>2, FewerConsumers
<1>4. grant.used \in Nat /\ MaxCalls \in Nat
    BY McpAssumption DEF TypeOK
<1>5. MaxCalls > 0 => grant.used + c <= MaxCalls + n - 1
    BY DEF CallsOK
<1>6. MaxCalls > 0 => \A q \in Runs : SeqOK(run'[q])
    BY <1>1 DEF CallsOK, SeqOK
<1>7. MaxCalls > 0 => grant'.used + d <= MaxCalls + n - 1
    <2> HIDE DEF c, d, n
    <2> QED BY <1>3, <1>4, <1>5
<1> QED BY <1>6, <1>7 DEF CallsOK, SeqOK

(* verify lets a call through only below the limit.                        *)
LEMMA CallsLetThrough ==
    ASSUME TypeOK, CallsOK, NEW r \in Runs, verify(r)
    PROVE  CallsOK'
<1>1. PICK row : /\ Turns(r, row) /\ row.pc \in {"audit_refusal", "consume"}
                 /\ row.pc = "consume" => ~Exhausted
                 /\ row.seq = grant.used + 1
    BY Verifies
<1>2. grant' = grant
    BY DEF verify
<1>3. CASE row.pc # "consume"
    BY <1>1, <1>2, <1>3, CallsQuiet
<1>4. CASE row.pc = "consume" /\ MaxCalls > 0
    <2>1. /\ run'[r] = row /\ \A q \in Runs : q # r => run'[q] = run[q]
        BY <1>1, Turned
    <2> DEFINE d == Cardinality(Consumers')
               n == Cardinality(Runs)
    <2>2. d \in Nat /\ n \in Nat /\ d <= n
        BY FewerConsumers DEF Consumers
    <2>3. grant.used \in Nat /\ MaxCalls \in Nat
        BY McpAssumption DEF TypeOK
    <2>4. grant.used < MaxCalls
        BY <1>1, <1>4, <2>3 DEF Exhausted
    <2>5. \A q \in Runs : SeqOK(run'[q])
        BY <1>1, <1>4, <2>1, <2>3, <2>4 DEF CallsOK, SeqOK
    <2>6. grant.used + d <= MaxCalls + n - 1
        <3> HIDE DEF d, n
        <3> QED BY <2>2, <2>3, <2>4
    <2> QED BY <1>2, <2>5, <2>6 DEF CallsOK, SeqOK
<1>5. CASE ~(MaxCalls > 0)
    BY <1>5 DEF CallsOK
<1> QED BY <1>3, <1>4, <1>5

(* The count: one consumer less pays for one call more.                    *)
LEMMA CallsCounted ==
    ASSUME TypeOK, CallsOK, NEW r \in Runs, ConsumeCall(r)
    PROVE  CallsOK'
<1>1. "stage" \in Pcs
    BY DEF Pcs
<1>2. PICK row : Turns(r, row) /\ row.pc = "stage" /\ row.seq = run[r].seq
    BY <1>1, Goes DEF ConsumeCall
<1>3. /\ run'[r] = row /\ \A q \in Runs : q # r => run'[q] = run[q]
    BY <1>2, Turned
<1> DEFINE C == Consumers
           D == Consumers'
           c == Cardinality(C)
           d == Cardinality(D)
           n == Cardinality(Runs)
<1>4. r \in C /\ D = C \ {r}
    BY <1>2, <1>3 DEF Consumers, ConsumeCall, At
<1>5. IsFiniteSet(C) /\ IsFiniteSet(D) /\ c \in Nat /\ d \in Nat /\ n \in Nat
    BY FewerConsumers, <1>4 DEF Consumers
<1>6. d = c - 1
    <2> HIDE DEF C, D
    <2> QED BY <1>4, <1>5, FS_RemoveElement, FS_CardinalityType
<1>7. grant.used \in Nat /\ grant'.used = grant.used + 1 /\ MaxCalls \in Nat
    BY McpAssumption DEF TypeOK, ConsumeCall
<1>8. MaxCalls > 0 => grant.used + c <= MaxCalls + n - 1
    BY DEF CallsOK
<1>9. MaxCalls > 0 => \A q \in Runs : SeqOK(run'[q])
    BY <1>2, <1>3 DEF CallsOK, SeqOK, ConsumeCall, At
<1>10. MaxCalls > 0 => grant'.used + d <= MaxCalls + n - 1
    <2> HIDE DEF c, d, n
    <2> QED BY <1>5, <1>6, <1>7, <1>8
<1> QED BY <1>9, <1>10 DEF CallsOK, SeqOK

LEMMA CallsOfRun ==
    ASSUME TypeOK, CallsOK, NEW r \in Runs, RunStep(r) \/ Killed(r)
    PROVE  CallsOK'
<1>a. ASSUME NEW pc \in Pcs, Goto(r, pc), pc \notin {"consume", "stage"}, grant' = grant
      PROVE  CallsOK'
    BY <1>a, Goes, CallsQuiet
<1>b. ASSUME Abandon(r) \/ NextLens(r), grant' = grant
      PROVE  CallsOK'
    BY <1>b, Abandons, Nexts, CallsQuiet
<1>c. {"load", "breach", "generate", "failed", "audit_failure", "charge", "verify", "reject"}
          \subseteq Pcs
    BY DEF Pcs
<1>1. CASE RunSelects(r)
    BY <1>a, <1>b, <1>c, <1>1 DEF RunSelects
<1>2. CASE budget_for_provider(r)
    BY <1>2, Loads, CallsQuiet DEF budget_for_provider
<1>3. CASE preflight(r)
    BY <1>a, <1>b, <1>c, <1>3 DEF preflight
<1>4. CASE record_breach(r)
    BY <1>b, <1>4 DEF record_breach
<1>5. CASE Generate(r)
    <2>1. grant' = grant
        BY <1>5 DEF Generate
    <2>2. CASE Goto(r, "failed")
        BY <1>a, <1>c, <2>1, <2>2
    <2>3. CASE ~Goto(r, "failed")
        BY <1>5, <2>1, <2>3, Answers, CallsQuiet
    <2> QED BY <2>2, <2>3
<1>6. CASE RecordHealth(r)
    BY <1>a, <1>c, <1>6 DEF RecordHealth
<1>7. CASE _deny_audit(r)
    BY <1>b, <1>7 DEF _deny_audit
<1>8. CASE Charge(r)
    BY <1>a, <1>c, <1>8 DEF Charge
<1>9. CASE verify(r)
    BY <1>9, CallsLetThrough
<1>10. CASE ConsumeCall(r)
    BY <1>10, CallsCounted
<1>11. CASE submit_output(r)
    BY <1>11, Stages, CallsQuiet DEF submit_output
<1>12. CASE _guarded(r)
    BY <1>a, <1>b, <1>c, <1>12 DEF _guarded
<1>13. CASE RejectDraft(r)
    BY <1>b, <1>13 DEF RejectDraft
<1>14. CASE Killed(r)
    <2>1. grant' = grant
        BY <1>14 DEF Killed
    <2> QED BY <1>14, <2>1, Dies, CallsQuiet
<1> QED BY <1>1, <1>2, <1>3, <1>4, <1>5, <1>6, <1>7, <1>8, <1>9, <1>10, <1>11, <1>12, <1>13,
           <1>14 DEF RunStep

LEMMA CallsHold == TypeOK /\ CallsOK /\ [Next]_vars => CallsOK'
<1> SUFFICES ASSUME TypeOK, CallsOK, [Next]_vars
             PROVE  CallsOK'
    OBVIOUS
<1>1. ASSUME NEW r \in Runs, RunStep(r) \/ Killed(r)
      PROVE  CallsOK'
    BY <1>1, CallsOfRun
<1>2. ASSUME run' = run, grant'.used = grant.used
      PROVE  CallsOK'
    BY <1>2 DEF CallsOK, Consumers, SeqOK
<1>3. CASE \/ \E cap \in Caps : set_cap(cap)
           \/ resume \/ revoke \/ Expire \/ ReadBreaches \/ reconcile \/ UNCHANGED vars
    BY <1>2, <1>3 DEF set_cap, resume, revoke, Expire, ReadBreaches, reconcile, vars, TypeOK
<1> QED BY <1>1, <1>3 DEF Next

-----------------------------------------------------------------------------
(* The reconciler.                                                         *)

Resumed(log) ==
    \A b \in DOMAIN log : log[b] = "breach" => \E o \in DOMAIN log : b < o /\ log[o] = "resume"

EventsOK == (budget.paused \/ Resumed(events)) /\ Resumed(alarm)

LEMMA ResumedAppends ==
    ASSUME NEW log \in Seq({"breach", "owner-change", "resume"}), NEW event \in {"owner-change", "resume"},
           event = "resume" \/ Resumed(log)
    PROVE  Resumed(Append(log, event))
<1> DEFINE l == Append(log, event)
<1>1. /\ Len(log) \in Nat /\ DOMAIN log = 1..Len(log) /\ DOMAIN l = 1..(Len(log) + 1)
      /\ l[Len(log) + 1] = event /\ \A i \in 1..Len(log) : l[i] = log[i]
    OBVIOUS
<1> HIDE DEF l
<1>2. ASSUME NEW b \in DOMAIN l, l[b] = "breach"
      PROVE  \E o \in DOMAIN l : b < o /\ l[o] = "resume"
    <2>1. b \in 1..Len(log) /\ log[b] = "breach"
        BY <1>1, <1>2
    <2>2. CASE event = "resume"
        BY <1>1, <2>1, <2>2
    <2>3. CASE Resumed(log)
        BY <1>1, <2>1, <2>3 DEF Resumed
    <2> QED BY <2>2, <2>3
<1>3. Resumed(l)
    BY <1>2 DEF Resumed
<1> QED BY <1>3 DEF l

LEMMA EventsHold == TypeOK /\ EventsOK /\ [Next]_vars => EventsOK'
<1> SUFFICES ASSUME TypeOK, EventsOK, [Next]_vars
             PROVE  EventsOK'
    OBVIOUS
<1>1. ASSUME budget'.paused = budget.paused, events' = events, alarm' = alarm
      PROVE  EventsOK'
    BY <1>1 DEF EventsOK, Resumed
<1>2. ASSUME NEW r \in Runs, RunStep(r) \/ Killed(r)
      PROVE  EventsOK'
    <2>1. CASE record_breach(r)
        <3>1. budget'.paused /\ alarm' = alarm
            BY <2>1 DEF record_breach, TypeOK, Budgets
        <3> QED BY <3>1 DEF EventsOK, Resumed
    <2>2. CASE ~record_breach(r)
        <3>1. budget' = budget /\ events' = events /\ alarm' = alarm
            BY <1>2, <2>2 DEF RunStep, RunSelects, budget_for_provider, preflight,
                    Generate, RecordHealth, _deny_audit, Charge, verify, ConsumeCall,
                    submit_output, _guarded, RejectDraft, Killed
        <3> QED BY <1>1, <3>1
    <2> QED BY <2>1, <2>2
<1>3. ASSUME NEW cap \in Caps, set_cap(cap)
      PROVE  EventsOK'
    <2>1. budget'.paused = budget.paused /\ events' = Append(events, "owner-change") /\ alarm' = alarm
        BY <1>3 DEF set_cap, TypeOK, Budgets
    <2>2. Resumed(events) => Resumed(Append(events, "owner-change"))
        BY ResumedAppends DEF TypeOK
    <2> QED BY <2>1, <2>2 DEF EventsOK, Resumed
<1>4. CASE resume
    <2>1. events' = Append(events, "resume") /\ alarm' = alarm
        BY <1>4 DEF resume
    <2>2. Resumed(Append(events, "resume"))
        BY ResumedAppends DEF TypeOK
    <2> QED BY <2>1, <2>2 DEF EventsOK, Resumed
<1>5. CASE reconcile
    <2>1. budget' = budget /\ events' = events
          /\ (alarm' = alarm \/ (~budget.paused /\ alarm' = events))
        BY <1>5 DEF reconcile
    <2> QED BY <2>1 DEF EventsOK, Resumed
<1>6. CASE revoke \/ Expire \/ ReadBreaches \/ UNCHANGED vars
    BY <1>1, <1>6 DEF revoke, Expire, ReadBreaches, vars
<1> QED BY <1>2, <1>3, <1>4, <1>5, <1>6 DEF Next

-----------------------------------------------------------------------------
(* The drafts.  A run that has staged one still knows its row.             *)

Holding == {"audit_call", "reject"}

HeldOK(row, table) ==
    row.pc \in Holding =>
        /\ row.draft \in DOMAIN table
        /\ table[row.draft].findings = row.findings
        /\ row.pc = "reject" => row.findings

DraftsOK == (\A r \in Runs : HeldOK(run[r], drafts)) /\ FindingsAreRejected

(* A step of a run that has no draft in hand.                              *)
LEMMA DraftsQuiet ==
    ASSUME TypeOK, DraftsOK, NEW r \in Runs, NEW row, Turns(r, row), drafts' = drafts,
           run[r].pc \notin Holding \cup {"killed"}, row.pc \notin Holding
    PROVE  DraftsOK'
<1>1. /\ run'[r] = row /\ \A q \in Runs : q # r => run'[q] = run[q]
    BY Turned
<1>2. \A q \in Runs : HeldOK(run'[q], drafts')
    BY <1>1 DEF DraftsOK, HeldOK
<1>3. FindingsAreRejected'
    BY <1>1 DEF DraftsOK, FindingsAreRejected, Holding
<1> QED BY <1>2, <1>3 DEF DraftsOK

LEMMA DraftStaged ==
    ASSUME TypeOK, DraftsOK, NEW r \in Runs, submit_output(r)
    PROVE  DraftsOK'
<1> DEFINE n == Len(drafts) + 1
           new == [review_state |-> "unreviewed", findings |-> run[r].findings]
<1>1. PICK row : /\ Turns(r, row) /\ row.pc = "audit_call"
                 /\ row.draft = n /\ row.findings = run[r].findings
    BY Stages
<1>2. /\ run'[r] = row /\ \A q \in Runs : q # r => run'[q] = run[q]
    BY <1>1, Turned
<1>3. drafts \in Seq(Drafts) /\ drafts' = Append(drafts, new)
    BY DEF submit_output, TypeOK
<1>4. /\ new.review_state = "unreviewed" /\ new.findings = run[r].findings
    OBVIOUS
<1> HIDE DEF new
<1>5. /\ n \in DOMAIN drafts' /\ drafts'[n] = new /\ n \notin DOMAIN drafts
      /\ DOMAIN drafts' = DOMAIN drafts \cup {n}
      /\ \A d \in DOMAIN drafts : drafts'[d] = drafts[d]
    BY <1>3
<1> HIDE DEF n
<1>6. \A q \in Runs : HeldOK(run'[q], drafts')
    BY <1>1, <1>2, <1>4, <1>5 DEF DraftsOK, HeldOK
<1>7. run[r].pc = "stage"
    BY DEF submit_output, At
<1>8. FindingsAreRejected'
    <2> SUFFICES ASSUME NEW d \in DOMAIN drafts'
                 PROVE  /\ drafts'[d].review_state = "rejected" => drafts'[d].findings
                        /\ drafts'[d].findings =>
                             \/ drafts'[d].review_state = "rejected"
                             \/ \E q \in Runs : /\ run'[q].draft = d
                                                /\ run'[q].pc \in {"audit_call", "reject", "killed"}
        BY DEF FindingsAreRejected
    <2>1. CASE d = n
        BY <1>1, <1>2, <1>4, <1>5, <2>1
    <2>2. CASE d \in DOMAIN drafts
        BY <1>2, <1>5, <1>7, <2>2 DEF DraftsOK, FindingsAreRejected
    <2> QED BY <1>5, <2>1, <2>2
<1> QED BY <1>6, <1>8 DEF DraftsOK

(* The audit row of a staged draft: without findings its run lets go of it. *)
LEMMA DraftAudited ==
    ASSUME TypeOK, DraftsOK, NEW r \in Runs, _guarded(r), run[r].pc = "audit_call"
    PROVE  DraftsOK'
<1>1. drafts' = drafts
    BY DEF _guarded
<1>2. "reject" \in Pcs
    BY DEF Pcs
<1>3. HeldOK(run[r], drafts)
    BY DEF DraftsOK
<1>4. CASE run[r].findings
    <2>1. PICK row : /\ Turns(r, row) /\ row.pc = "reject"
                     /\ row.draft = run[r].draft /\ row.findings = run[r].findings
        BY <1>2, <1>4, Goes DEF _guarded, At
    <2>2. /\ run'[r] = row /\ \A q \in Runs : q # r => run'[q] = run[q]
        BY <2>1, Turned
    <2>3. \A q \in Runs : HeldOK(run'[q], drafts')
        BY <1>1, <1>3, <1>4, <2>1, <2>2 DEF DraftsOK, HeldOK, Holding
    <2>4. FindingsAreRejected'
        BY <1>1, <2>1, <2>2 DEF DraftsOK, FindingsAreRejected
    <2> QED BY <2>3, <2>4 DEF DraftsOK
<1>5. CASE ~run[r].findings
    <2>1. PICK row : Turns(r, row) /\ row.pc \in {"done", "select"}
        BY <1>5, Nexts DEF _guarded, At
    <2>2. /\ run'[r] = row /\ \A q \in Runs : q # r => run'[q] = run[q]
        BY <2>1, Turned
    <2>3. \A q \in Runs : HeldOK(run'[q], drafts')
        BY <1>1, <2>1, <2>2 DEF DraftsOK, HeldOK, Holding
    <2>4. \A d \in DOMAIN drafts : drafts[d].findings => run[r].draft # d
        BY <1>3, <1>5 DEF HeldOK, Holding
    <2>5. FindingsAreRejected'
        BY <1>1, <2>2, <2>4 DEF DraftsOK, FindingsAreRejected
    <2> QED BY <2>3, <2>5 DEF DraftsOK
<1> QED BY <1>4, <1>5

LEMMA DraftRejected ==
    ASSUME TypeOK, DraftsOK, NEW r \in Runs, RejectDraft(r)
    PROVE  DraftsOK'
<1> DEFINE n == run[r].draft
           new == [drafts[n] EXCEPT !.review_state = "rejected"]
<1>1. PICK row : Turns(r, row) /\ row.pc \in {"done", "select"}
    BY Nexts DEF RejectDraft
<1>2. /\ run'[r] = row /\ \A q \in Runs : q # r => run'[q] = run[q]
    BY <1>1, Turned
<1>3. n \in DOMAIN drafts /\ drafts[n].findings
    BY DEF DraftsOK, HeldOK, Holding, RejectDraft, At
<1>4. new.review_state = "rejected" /\ new.findings = drafts[n].findings
    <2>1. \A d \in Drafts : /\ [d EXCEPT !.review_state = "rejected"].review_state = "rejected"
                            /\ [d EXCEPT !.review_state = "rejected"].findings = d.findings
        BY DEF Drafts
    <2>2. drafts[n] \in Drafts
        BY <1>3 DEF TypeOK
    <2> QED BY <2>1, <2>2
<1>5. drafts' = [drafts EXCEPT ![n] = new]
    BY DEF RejectDraft
<1> HIDE DEF new
<1>6. /\ DOMAIN drafts' = DOMAIN drafts /\ drafts'[n] = new
      /\ \A d \in DOMAIN drafts : d # n => drafts'[d] = drafts[d]
    BY <1>3, <1>5 DEF TypeOK
<1>7. \A d \in DOMAIN drafts : drafts'[d].findings = drafts[d].findings
    BY <1>4, <1>6
<1>8. \A q \in Runs : HeldOK(run'[q], drafts')
    BY <1>1, <1>2, <1>6, <1>7 DEF DraftsOK, HeldOK, Holding
<1>9. FindingsAreRejected'
    <2> SUFFICES ASSUME NEW d \in DOMAIN drafts'
                 PROVE  /\ drafts'[d].review_state = "rejected" => drafts'[d].findings
                        /\ drafts'[d].findings =>
                             \/ drafts'[d].review_state = "rejected"
                             \/ \E q \in Runs : /\ run'[q].draft = d
                                                /\ run'[q].pc \in {"audit_call", "reject", "killed"}
        BY DEF FindingsAreRejected
    <2>1. CASE d = n
        BY <1>3, <1>4, <1>6, <1>7, <2>1
    <2>2. CASE d # n
        <3>1. d \in DOMAIN drafts /\ drafts'[d] = drafts[d]
            BY <1>6, <2>2
        <3> HIDE DEF n
        <3>2. run[r].draft # d
            BY <2>2 DEF n
        <3> QED BY <1>2, <3>1, <3>2 DEF DraftsOK, FindingsAreRejected
    <2> QED BY <2>1, <2>2
<1> QED BY <1>8, <1>9 DEF DraftsOK

LEMMA DraftLeft ==
    ASSUME TypeOK, DraftsOK, NEW r \in Runs, Killed(r)
    PROVE  DraftsOK'
<1>1. drafts' = drafts
    BY DEF Killed
<1>2. PICK row : Turns(r, row) /\ row.pc = "killed" /\ row.draft = run[r].draft
    BY Dies
<1>3. /\ run'[r] = row /\ \A q \in Runs : q # r => run'[q] = run[q]
    BY <1>2, Turned
<1>4. \A q \in Runs : HeldOK(run'[q], drafts')
    BY <1>1, <1>2, <1>3 DEF DraftsOK, HeldOK, Holding
<1>5. FindingsAreRejected'
    BY <1>1, <1>2, <1>3 DEF DraftsOK, FindingsAreRejected
<1> QED BY <1>4, <1>5 DEF DraftsOK

LEMMA DraftsOfRun ==
    ASSUME TypeOK, DraftsOK, NEW r \in Runs, RunStep(r) \/ Killed(r)
    PROVE  DraftsOK'
<1> DEFINE Free == drafts' = drafts /\ run[r].pc \notin Holding \cup {"killed"}
<1>a. ASSUME NEW pc \in Pcs, Goto(r, pc), pc \notin Holding, Free
      PROVE  DraftsOK'
    BY <1>a, Goes, DraftsQuiet
<1>b. ASSUME Abandon(r), Free
      PROVE  DraftsOK'
    BY <1>b, Abandons, DraftsQuiet DEF Holding
<1>c. {"load", "breach", "generate", "failed", "audit_failure", "charge", "verify", "stage"}
          \subseteq Pcs \ Holding
    BY DEF Pcs, Holding
<1>1. CASE RunSelects(r)
    <2>1. Free /\ (Goto(r, "load") \/ Abandon(r))
        BY <1>1 DEF RunSelects, At, Holding
    <2> QED BY <1>a, <1>b, <1>c, <2>1
<1>2. CASE budget_for_provider(r)
    <2>1. Free
        BY <1>2 DEF budget_for_provider, At, Holding
    <2> QED BY <1>2, <2>1, Loads, DraftsQuiet DEF Holding
<1>3. CASE preflight(r)
    <2>1. Free /\ (Goto(r, "breach") \/ Goto(r, "generate") \/ Abandon(r))
        BY <1>3 DEF preflight, At, Holding
    <2> QED BY <1>a, <1>b, <1>c, <2>1
<1>4. CASE record_breach(r)
    BY <1>b, <1>4 DEF record_breach, At, Holding
<1>5. CASE Generate(r)
    <2>1. Free
        BY <1>5 DEF Generate, At, Holding
    <2>2. CASE Goto(r, "failed")
        BY <1>a, <1>c, <2>1, <2>2
    <2>3. CASE ~Goto(r, "failed")
        BY <1>5, <2>1, <2>3, Answers, DraftsQuiet DEF Holding
    <2> QED BY <2>2, <2>3
<1>6. CASE RecordHealth(r)
    <2>1. Free /\ (Goto(r, "audit_failure") \/ Goto(r, "charge"))
        BY <1>6 DEF RecordHealth, At, Holding
    <2> QED BY <1>a, <1>c, <2>1
<1>7. CASE _deny_audit(r)
    BY <1>b, <1>7 DEF _deny_audit, At, Holding
<1>8. CASE Charge(r)
    BY <1>a, <1>c, <1>8 DEF Charge, At, Holding
<1>9. CASE verify(r)
    <2>1. Free
        BY <1>9 DEF verify, At, Holding
    <2>2. PICK row : Turns(r, row) /\ row.pc \in {"audit_refusal", "consume"}
        BY <1>9, Verifies
    <2> QED BY <2>1, <2>2, DraftsQuiet DEF Holding
<1>10. CASE ConsumeCall(r)
    BY <1>a, <1>c, <1>10 DEF ConsumeCall, At, Holding
<1>11. CASE submit_output(r)
    BY <1>11, DraftStaged
<1>12. CASE _guarded(r)
    <2>1. CASE run[r].pc = "audit_call"
        BY <1>12, <2>1, DraftAudited
    <2>2. CASE run[r].pc # "audit_call"
        BY <1>b, <1>12, <2>2 DEF _guarded, At, Holding
    <2> QED BY <2>1, <2>2
<1>13. CASE RejectDraft(r)
    BY <1>13, DraftRejected
<1>14. CASE Killed(r)
    BY <1>14, DraftLeft
<1> QED BY <1>1, <1>2, <1>3, <1>4, <1>5, <1>6, <1>7, <1>8, <1>9, <1>10, <1>11, <1>12, <1>13,
           <1>14 DEF RunStep

LEMMA DraftsHold == TypeOK /\ DraftsOK /\ [Next]_vars => DraftsOK'
<1> SUFFICES ASSUME TypeOK, DraftsOK, [Next]_vars
             PROVE  DraftsOK'
    OBVIOUS
<1>1. ASSUME NEW r \in Runs, RunStep(r) \/ Killed(r)
      PROVE  DraftsOK'
    BY <1>1, DraftsOfRun
<1>2. ASSUME run' = run, drafts' = drafts
      PROVE  DraftsOK'
    BY <1>2 DEF DraftsOK, HeldOK, FindingsAreRejected
<1>3. CASE \/ \E cap \in Caps : set_cap(cap)
           \/ resume \/ revoke \/ Expire \/ ReadBreaches \/ reconcile \/ UNCHANGED vars
    BY <1>2, <1>3 DEF set_cap, resume, revoke, Expire, ReadBreaches, reconcile, vars
<1> QED BY <1>1, <1>3 DEF Next

-----------------------------------------------------------------------------
ServiceInv == TypeOK /\ SpendOK /\ CallsOK /\ EventsOK /\ DraftsOK

LEMMA ServiceStarts == Init => ServiceInv
<1> SUFFICES ASSUME Init PROVE ServiceInv
    OBVIOUS
<1>1. PICK cap \in Caps : budget = [cap |-> cap, paused |-> FALSE] /\ topCap = cap
    BY DEF Init
<1>2. cap \in Nat
    BY McpAssumption
<1>3. /\ events = <<>> /\ spend = 0 /\ grant = [used |-> 0, revoked |-> FALSE, expired |-> FALSE]
      /\ drafts = <<>> /\ run = [r \in Runs |-> Fresh] /\ alarm = <<>>
    BY DEF Init
<1>4. TypeOK
    BY <1>1, <1>2, <1>3, FreshRow DEF TypeOK, Budgets
<1>5. \A r \in Runs : run[r].pc = "select" /\ run[r].saw.cap = 0
    BY <1>3, FreshRow DEF Cleared
<1>6. SpendOK
    BY <1>1, <1>2, <1>3, <1>5 DEF SpendOK, SawOK, Covered, Flyers, Flying
<1>7. CallsOK
    <2>1. Consumers = {}
        BY <1>5 DEF Consumers
    <2>2. Cardinality(Consumers) = 0 /\ Cardinality(Runs) \in Nat /\ MaxCalls \in Nat
        BY <2>1, FS_EmptySet, FS_CardinalityType, McpAssumption
    <2> QED BY <1>3, <1>5, <2>2 DEF CallsOK, SeqOK
<1>8. EventsOK
    BY <1>3 DEF EventsOK, Resumed
<1>9. DraftsOK
    BY <1>3, <1>5 DEF DraftsOK, HeldOK, Holding, FindingsAreRejected
<1> QED BY <1>4, <1>6, <1>7, <1>8, <1>9 DEF ServiceInv

LEMMA ServiceInvariance == Spec => []ServiceInv
<1>1. ServiceInv /\ [Next]_vars => ServiceInv'
    BY TypesHold, SpendHolds, CallsHold, EventsHold, DraftsHold DEF ServiceInv
<1> QED BY ServiceStarts, <1>1, PTL DEF Spec

(* The tables keep their schema, and what a run holds between two of its   *)
(* statements fits them (scripts/mcp_service).                             *)
THEOREM ServiceTypes == Spec => []TypeOK
<1>1. ServiceInv => TypeOK
    BY DEF ServiceInv
<1> QED BY <1>1, ServiceInvariance, PTL

(* However many runs read the budget before any of them is charged, the    *)
(* spend passes the largest cap by what the calls in flight cost beyond    *)
(* one estimate, and by no more (budget.preflight, routing.route).         *)
THEOREM OverspendBounded == Spec => []OverspendIsInFlight
<1>1. ServiceInv => OverspendIsInFlight
    <2> SUFFICES ASSUME ServiceInv PROVE OverspendIsInFlight
        OBVIOUS
    <2> DEFINE f == Cardinality(Flyers) * MaxUnits
               n == Cardinality(Runs) * MaxUnits
    <2>1. f \in Nat /\ n \in Nat
        BY FewerFlyers DEF Flyers
    <2>2. spend \in Nat /\ topCap \in Nat /\ Estimate \in Nat
        BY McpAssumption DEF ServiceInv, TypeOK
    <2>3. spend = 0 \/ spend + f <= topCap - Estimate + n
        BY DEF ServiceInv, SpendOK, Covered
    <2> SUFFICES spend = 0 \/ spend <= topCap - Estimate + n
        BY DEF OverspendIsInFlight
    <2> HIDE DEF f, n
    <2> QED BY <2>1, <2>2, <2>3
<1> QED BY <1>1, ServiceInvariance, PTL

(* The grant's limit is exceeded by the calls that raced the last one, and *)
(* no run goes on with a sequence number past it (capability.verify).      *)
THEOREM CallLimitBounded == Spec => []CallLimitExceededByRacersOnly
<1>1. ServiceInv => CallLimitExceededByRacersOnly
    <2> SUFFICES ASSUME ServiceInv, MaxCalls > 0
                 PROVE  /\ grant.used <= MaxCalls + Cardinality(Runs) - 1
                        /\ \A r \in Runs : SeqOK(run[r])
        BY DEF CallLimitExceededByRacersOnly, SeqOK
    <2>1. Cardinality(Consumers) \in Nat /\ Cardinality(Runs) \in Nat
        BY FewerConsumers DEF Consumers
    <2>2. grant.used \in Nat /\ MaxCalls \in Nat
        BY McpAssumption DEF ServiceInv, TypeOK
    <2>3. /\ grant.used + Cardinality(Consumers) <= MaxCalls + Cardinality(Runs) - 1
          /\ \A r \in Runs : SeqOK(run[r])
        BY DEF ServiceInv, CallsOK
    <2> QED BY <2>1, <2>2, <2>3
<1> QED BY <1>1, ServiceInvariance, PTL

(* The reconciler's alarm tells of a budget that an owner resumed after    *)
(* its breach: no breach goes without its pause (budget.record_breach,     *)
(* budget_link.reconcile).                                                 *)
THEOREM AlarmsAreOfResumed == Spec => []AlarmFollowsResume
<1>1. ServiceInv => AlarmFollowsResume
    BY DEF ServiceInv, EventsOK, Resumed, AlarmFollowsResume, Range
<1> QED BY <1>1, ServiceInvariance, PTL

(* A draft with findings is rejected unless its run is about to say so or  *)
(* was killed before, and no other draft is (analysis.run_multi_lens).     *)
THEOREM FindingsStop == Spec => []FindingsAreRejected
<1>1. ServiceInv => FindingsAreRejected
    BY DEF ServiceInv, DraftsOK
<1> QED BY <1>1, ServiceInvariance, PTL

=============================================================================
