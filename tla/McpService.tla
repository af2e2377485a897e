----------------------------- MODULE McpService -----------------------------
(***************************************************************************)
(* Lens analysis over the guarded MCP boundary (scripts/mcp_service): the  *)
(* router and its budget, the provider's health, the capability token the  *)
(* workers of one job share, the drafts they stage, and the reconciler of  *)
(* budget breaches (scripts/economics/budget_link).                        *)
(*                                                                         *)
(* Each run is a process with its own connection; every statement that     *)
(* writes commits by itself, so a run is a walk through its reads and      *)
(* commits, and other runs, the owner and the reconciler act in between.   *)
(* What is generated is data: a draft either carries findings of the risk  *)
(* scan or it does not, and a call costs between nothing and MaxUnits.     *)
(***************************************************************************)
EXTENDS Integers, Sequences, FiniteSets, SequencesExt, FiniteSetsExt

CONSTANTS
    Runs,         \* processes in run_multi_lens
    LensCount,    \* lenses each has to run
    Preference,   \* the policy's provider_preference, in order
    Local,        \* the registered, enabled providers of a local kind
    Remote,       \* the others that are registered and enabled
    Estimate,     \* the policy's max_output_units
    MaxUnits,     \* input and output units one call can cost
    Caps,         \* caps an owner gives the budget
    MaxCalls,     \* the shared grant's max_calls, 0 for no limit
    Threshold,    \* degrade_threshold
    OwnerCommands \* bound on the owner's commands

ASSUME McpAssumption ==
    /\ IsFiniteSet(Runs) /\ Preference \in Seq(Local \cup Remote)
    /\ Local \cap Remote = {}
    /\ {LensCount, Estimate, MaxUnits, MaxCalls, Threshold, OwnerCommands} \subseteq Nat
    /\ LensCount > 0 /\ Caps \subseteq Nat

VARIABLES
    budget,     \* mcp_budgets row of the local provider: [cap, paused]
    events,     \* kinds of its mcp_budget_events, oldest first
    outbox,     \* kinds of outbox row, deduplicated by budget and window
    spend,      \* units of the provider's allow rows in mcp_audit_events
    streak,     \* error rows at the end of mcp_provider_health
    grant,      \* the shared grant: [used, revoked, expired]
    drafts,     \* mcp_job_outputs rows, oldest first
    audits,     \* other audit rows: how many of each outcome
    run,        \* what each run is doing
    reconciler, \* "idle", or what its SELECT saw
    alarm,      \* the events up to the last BudgetOverrun, <<>> if none
    commands,   \* the owner's commands so far
    topCap      \* the largest cap so far: history, for the properties only

vars == <<budget, events, outbox, spend, streak, grant, drafts, audits, run, reconciler,
          alarm, commands, topCap>>

Fresh == [pc |-> "select", left |-> LensCount, saw |-> [cap |-> 0, paused |-> FALSE],
          units |-> 0, seq |-> 0, draft |-> 0, findings |-> FALSE]

At(r, pc) == run[r].pc = pc
Goto(r, pc) == run' = [run EXCEPT ![r] = [@ EXCEPT !.pc = pc]]
Abandon(r) == run' = [run EXCEPT ![r] = [Fresh EXCEPT !.pc = "denied", !.left = 0]]
NextLens(r) ==
    run' = [run EXCEPT ![r] =
        [Fresh EXCEPT !.left = run[r].left - 1, !.pc = IF run[r].left = 1 THEN "done" ELSE "select"]]

-----------------------------------------------------------------------------
(* Routing: registry, locality and health choose the provider.             *)

is_callable(p) == p \in Local \cup Remote
is_local_provider(p) == p \in Local
is_degraded(p) == Threshold > 0 /\ streak >= Threshold

Eligible(p) == is_callable(p) /\ is_local_provider(p) /\ ~is_degraded(p)
Chosen == SelectSeq(Preference, Eligible)

RunSelects(r) ==
    /\ At(r, "select")
    /\ IF Chosen # <<>>
       THEN Goto(r, "load") /\ UNCHANGED audits
       ELSE Abandon(r) /\ audits' = [audits EXCEPT !.deny = @ + 1]
    /\ UNCHANGED <<budget, events, outbox, spend, streak, grant, drafts, reconciler, alarm,
                   commands, topCap>>

-----------------------------------------------------------------------------
(* The budget.                                                             *)

budget_for_provider(r) ==
    /\ At(r, "load")
    /\ run' = [run EXCEPT ![r] = [@ EXCEPT !.pc = "preflight", !.saw = budget]]
    /\ UNCHANGED <<budget, events, outbox, spend, streak, grant, drafts, audits, reconciler,
                   alarm, commands, topCap>>

\* A mutant of the next: what the call may cost is forgotten.
OverCapWithoutEstimate(cap) == spend > cap
OverCap(cap) == spend + Estimate > cap

\* preflight: the cap and the pause are those loaded before, the spend is read
\* here.  A refusal leaves no audit row.
preflight(r) ==
    LET saw == run[r].saw IN
    /\ At(r, "preflight")
    /\ CASE saw.cap = 0 \/ saw.paused -> Abandon(r)
         [] saw.cap > 0 /\ ~saw.paused /\ OverCap(saw.cap) -> Goto(r, "breach")
         [] OTHER -> Goto(r, "generate")
    /\ UNCHANGED <<budget, events, outbox, spend, streak, grant, drafts, audits, reconciler,
                   alarm, commands, topCap>>

\* A mutant of the next: the event is written, the budget is not paused.
BreachWithoutPause(r) ==
    /\ At(r, "breach")
    /\ events' = Append(events, "breach")
    /\ outbox' = outbox \cup {"mcp-budget-breach"}
    /\ Abandon(r)
    /\ UNCHANGED <<budget, spend, streak, grant, drafts, audits, reconciler, alarm, commands, topCap>>

\* record_breach: pause, event and issue in one commit.
record_breach(r) ==
    /\ At(r, "breach")
    /\ budget' = [budget EXCEPT !.paused = TRUE]
    /\ events' = Append(events, "breach")
    /\ outbox' = outbox \cup {"mcp-budget-breach"}
    /\ Abandon(r)
    /\ UNCHANGED <<spend, streak, grant, drafts, audits, reconciler, alarm, commands, topCap>>

\* The adapter's answer, which is the run's own until it is recorded.
Generate(r) ==
    /\ At(r, "generate")
    /\ \/ Goto(r, "failed")
       \/ \E units \in 0..MaxUnits, f \in BOOLEAN :
              run' = [run EXCEPT ![r] =
                         [@ EXCEPT !.pc = "answered", !.units = units, !.findings = f]]
    /\ UNCHANGED <<budget, events, outbox, spend, streak, grant, drafts, audits, reconciler,
                   alarm, commands, topCap>>

\* health.record of either outcome, and then the audit row.
RecordHealth(r) ==
    /\ \/ At(r, "failed") /\ streak' = streak + 1 /\ Goto(r, "audit_failure")
       \/ At(r, "answered") /\ streak' = 0 /\ Goto(r, "charge")
    /\ UNCHANGED <<budget, events, outbox, spend, grant, drafts, audits, reconciler, alarm,
                   commands, topCap>>

_deny_audit(r) ==
    /\ At(r, "audit_failure")
    /\ audits' = [audits EXCEPT !.deny = @ + 1]
    /\ Abandon(r)
    /\ UNCHANGED <<budget, events, outbox, spend, streak, grant, drafts, reconciler, alarm,
                   commands, topCap>>

Charge(r) ==
    /\ At(r, "charge")
    /\ spend' = spend + run[r].units
    /\ Goto(r, "verify")
    /\ UNCHANGED <<budget, events, outbox, streak, grant, drafts, audits, reconciler, alarm,
                   commands, topCap>>

-----------------------------------------------------------------------------
(* The guarded call that stages the draft.                                 *)

\* A mutant of the next: the last call is not counted.
ExhaustedLate == MaxCalls > 0 /\ grant.used > MaxCalls
Exhausted == MaxCalls > 0 /\ grant.used >= MaxCalls

\* verify up to its UPDATE.
verify(r) ==
    /\ At(r, "verify")
    /\ run' = [run EXCEPT ![r] =
           [@ EXCEPT !.pc = IF grant.expired \/ grant.revoked \/ Exhausted
                            THEN "audit_refusal" ELSE "consume",
                     !.seq = grant.used + 1]]
    /\ UNCHANGED <<budget, events, outbox, spend, streak, grant, drafts, audits, reconciler,
                   alarm, commands, topCap>>

ConsumeCall(r) ==
    /\ At(r, "consume")
    /\ grant' = [grant EXCEPT !.used = @ + 1]
    /\ Goto(r, "stage")
    /\ UNCHANGED <<budget, events, outbox, spend, streak, drafts, audits, reconciler, alarm,
                   commands, topCap>>

submit_output(r) ==
    /\ At(r, "stage")
    /\ drafts' = Append(drafts, [review_state |-> "unreviewed", findings |-> run[r].findings])
    /\ run' = [run EXCEPT ![r] = [@ EXCEPT !.pc = "audit_call", !.draft = Len(drafts) + 1]]
    /\ UNCHANGED <<budget, events, outbox, spend, streak, grant, audits, reconciler, alarm,
                   commands, topCap>>

\* _guarded's one audit row, of a call it let through or of one it refused.
_guarded(r) ==
    /\ \/ /\ At(r, "audit_refusal")
          /\ audits' = [audits EXCEPT !.deny = @ + 1]
          /\ Abandon(r)
       \/ /\ At(r, "audit_call")
          /\ audits' = [audits EXCEPT !.allow = @ + 1]
          /\ IF run[r].findings THEN Goto(r, "reject") ELSE NextLens(r)
    /\ UNCHANGED <<budget, events, outbox, spend, streak, grant, drafts, reconciler, alarm,
                   commands, topCap>>

\* A mutant of the next: the newest draft is rejected, whoever staged it.
RejectNewest(r) ==
    /\ At(r, "reject")
    /\ drafts' = [drafts EXCEPT ![Len(drafts)] = [@ EXCEPT !.review_state = "rejected"]]
    /\ NextLens(r)
    /\ UNCHANGED <<budget, events, outbox, spend, streak, grant, audits, reconciler, alarm,
                   commands, topCap>>

\* run_multi_lens: a draft with findings is rejected by a second commit.
RejectDraft(r) ==
    /\ At(r, "reject")
    /\ drafts' = [drafts EXCEPT ![run[r].draft] = [@ EXCEPT !.review_state = "rejected"]]
    /\ NextLens(r)
    /\ UNCHANGED <<budget, events, outbox, spend, streak, grant, audits, reconciler, alarm,
                   commands, topCap>>

-----------------------------------------------------------------------------
(* The owner, the reconciler, time and deaths.                             *)

OwnerStarts == commands < OwnerCommands /\ commands' = commands + 1

set_cap(cap) ==
    /\ OwnerStarts
    /\ budget' = [budget EXCEPT !.cap = cap]
    /\ events' = Append(events, "owner-change")
    /\ topCap' = Max({topCap, cap})
    /\ UNCHANGED <<outbox, spend, streak, grant, drafts, audits, run, reconciler, alarm>>

resume ==
    /\ OwnerStarts
    /\ budget' = [budget EXCEPT !.paused = FALSE]
    /\ events' = Append(events, "resume")
    /\ UNCHANGED <<outbox, spend, streak, grant, drafts, audits, run, reconciler, alarm, topCap>>

revoke ==
    /\ OwnerStarts
    /\ grant' = [grant EXCEPT !.revoked = TRUE]
    /\ UNCHANGED <<budget, events, outbox, spend, streak, drafts, audits, run, reconciler, alarm,
                   topCap>>

Expire ==
    /\ ~grant.expired
    /\ grant' = [grant EXCEPT !.expired = TRUE]
    /\ UNCHANGED <<budget, events, outbox, spend, streak, drafts, audits, run, reconciler, alarm,
                   commands, topCap>>

\* reconcile reads the breaches, then takes each in turn: a budget that is not
\* paused raises and loses what was written, otherwise its issue is queued.
ReadBreaches ==
    /\ reconciler = "idle"
    /\ "breach" \in Range(events)
    /\ reconciler' = "breaches"
    /\ UNCHANGED <<budget, events, outbox, spend, streak, grant, drafts, audits, run, alarm,
                   commands, topCap>>

reconcile ==
    /\ reconciler = "breaches"
    /\ reconciler' = "idle"
    /\ IF budget.paused
       THEN outbox' = outbox \cup {"economics-budget-breach"} /\ UNCHANGED alarm
       ELSE alarm' = events /\ UNCHANGED outbox
    /\ UNCHANGED <<budget, events, spend, streak, grant, drafts, audits, run, commands, topCap>>

Killed(r) ==
    /\ run[r].pc \notin {"done", "denied", "killed"}
    /\ run' = [run EXCEPT ![r] = [Fresh EXCEPT !.pc = "killed", !.left = 0, !.draft = run[r].draft]]
    /\ UNCHANGED <<budget, events, outbox, spend, streak, grant, drafts, audits, reconciler, alarm,
                   commands, topCap>>

-----------------------------------------------------------------------------
Init ==
    /\ \E cap \in Caps : budget = [cap |-> cap, paused |-> FALSE] /\ topCap = cap
    /\ events = <<>> /\ outbox = {} /\ spend = 0 /\ streak = 0
    /\ grant = [used |-> 0, revoked |-> FALSE, expired |-> FALSE]
    /\ drafts = <<>> /\ audits = [allow |-> 0, deny |-> 0]
    /\ run = [r \in Runs |-> Fresh]
    /\ reconciler = "idle" /\ alarm = <<>> /\ commands = 0

RunStep(r) ==
    \/ RunSelects(r) \/ budget_for_provider(r) \/ preflight(r) \/ record_breach(r)
    \/ Generate(r) \/ RecordHealth(r) \/ _deny_audit(r) \/ Charge(r)
    \/ verify(r) \/ ConsumeCall(r) \/ submit_output(r) \/ _guarded(r) \/ RejectDraft(r)

Next ==
    \/ \E r \in Runs : RunStep(r) \/ Killed(r)
    \/ \E cap \in Caps : set_cap(cap)
    \/ resume \/ revoke \/ Expire \/ ReadBreaches \/ reconcile

Spec == Init /\ [][Next]_vars

-----------------------------------------------------------------------------
(* Properties.                                                             *)

\* The comment at routing.py:199 holds that the estimate is an upper bound and
\* no call that could breach is authorized: spend stays under the largest cap.
NeverOverCap == spend <= topCap

\* Spend is summed before a call and grows after it, and the estimate covers
\* the output alone: it passes the largest cap by what the calls in flight
\* cost beyond one estimate, and by no more (budget.preflight).
OverspendIsInFlight == spend = 0 \/ spend <= topCap - Estimate + Cardinality(Runs) * MaxUnits

\* The grant's limit is compared and counted in two statements: it is exceeded
\* by the calls that raced the last one, and no two runs that hold a sequence
\* number past the limit had seen it reached (capability.verify).
CallLimitExceededByRacersOnly ==
    MaxCalls > 0 =>
        /\ grant.used <= MaxCalls + Cardinality(Runs) - 1
        /\ \A r \in Runs : run[r].pc \in {"consume", "stage"} => run[r].seq <= MaxCalls

\* The reconciler's alarm, "a breach that did not pause its budget", is raised
\* only where the budget was paused and an owner has resumed it: a breach never
\* goes without its pause (budget.record_breach, budget_link.reconcile).
AlarmFollowsResume ==
    "breach" \in Range(alarm) =>
        \E b, o \in DOMAIN alarm : b < o /\ alarm[b] = "breach" /\ alarm[o] = "resume"

\* A draft in which the risk scan found something is rejected, unless its run
\* is on the way to say so or was killed on that way; no other draft is
\* (analysis.run_multi_lens).
FindingsAreRejected ==
    \A d \in DOMAIN drafts :
        /\ drafts[d].review_state = "rejected" => drafts[d].findings
        /\ drafts[d].findings =>
               \/ drafts[d].review_state = "rejected"
               \/ \E r \in Runs : run[r].draft = d /\ run[r].pc \in {"audit_call", "reject", "killed"}
=============================================================================
