# Government Watchdog: TLA+ specifications and proofs

Government Watchdog keeps a registry of a town's public records in one SQLite
file, turns incoming events into micro-jobs, and lets a small, owner-approved
group of people read what reviewers have released. This directory models the
parts of `scripts/` whose correctness depends on the order in which things
happen, checks them with TLC and proves the central ones with TLAPS.

## 1. The system

| Part | Code | State | Who calls it, and what is hard |
|---|---|---|---|
| Webhook ingress | `webhook_ingress.py`, `event_envelope.py` | `webhook_sources`, `event_envelopes`, `event_dedupe_hits`, one `event_jobs` row per envelope | external senders over HTTP; retries, replays, lost answers, a kill in mid-request |
| Job queue | `job_queue.py` | `event_jobs`, `job_transitions` | ingress, worker, pilot workload; budget of attempts, backoff, leases, audit |
| Job worker | `job_worker.py` | none of its own | a poll loop per process, any number of them; SELECTs outside the transaction, kills, expired leases |
| Paperclip outbox | `paperclip_outbox.py` | `paperclip_outbox` | written inside other components' transactions, relayed by a loop; lost answers, kills before the single commit, the write lock |
| Beta gate | `beta/` | allowlist, magic tokens, beta sessions, audit | browser users and the owner's CLI; single use of a token, revocation racing a login |
| Accounts and cohorts | `accounts/` | accounts, tiers, sessions, consent, cohorts | owner, beta gate; cumulative caps, admissions in any order and repeated, consent withdrawn while mail is queued |
| Email gateway | `email_gateway/` | email outbox, delivery log, feature flags | accounts; an irreversible send: two senders on one row, a death between claim and send, a flag or a consent that changes meanwhile |
| Notifications | `notifications/` | in-app notifications | accounts; per-request gate |
| MCP service | `mcp_service/` | capabilities, budgets, audit rows, provider health, lens runs | agents over stdio; budgets read before and charged after a call |
| Area economics | `economics/` | areas, ledger, exported reports | owner's CLI; a breach recorded while the budget is paused and resumed |
| Record publication | `publication.py`, `read_api.py`, `export_web_artifact.py` | review and promotion columns of every record table | read by every surface; what may be shown to whom |
| AI lanes | `ai_extraction.py`, `ai_verification.py`, `ai_risk_gate.py`, `lane2_batch_queue.py` | `ai_runs`, drafts, risk flags, reviewer decisions | lane workers and reviewers; a decision on a draft that changed |
| Supplied files | `raw_object_store.py`, `file_records.py`, `file_linkage.py`, `file_versioning.py`, `beta/intake_api.py` | objects on disk, file records, versions, links | intake; a crash between the object and its row, two versions superseding one |
| Source versions (stage 5) | `source_version_store.py`, `stage5_source_diff.py`, `stage5_affected_set.py` | versions, changes, the ledger of affected records | crawler and maintenance tools; what is read before the write lock and acted on after it |
| Acquisition | `crawl_pdfs.py`, `fetch_transcripts.py`, `ingest_local_corpus.py`, `raw_preservation.py`, `embed.py` | documents, transcripts, raw files | batch scripts |
| Reviewer tools and seeds | `reviewer_promotion_batch.py`, `agenda_anchor_batch.py`, `gov*_seed.py`, `gov*_promotion*.py`, `backfill_*` | promotion columns, concept graph | one-off batches, dry run by default |
| Stage 2-5 projections and audits | `stage2_*` ... `stage5_*` | none: pure functions of the registry | read-only |
| Operations | `refresh_runner.py`, `failure_issue_filer.py`, `credit_metering.py`, `cleanup_*`, `migration_slot_claims.py`, `governance/` | JSON logs, GitHub issues | scheduled loops |
| Deployment | `deploy/`, `deploy_adapters/`, `portability_drill.py`, `db.py` | the database file, exported tables | compose services sharing one file |
| Pilot harness, smoke scripts | `pilot/`, `pilot_run.py`, `slice*_smoke.py` | synthetic data | test drivers |

The parts share one SQLite file. Python's `sqlite3` module opens a transaction
only before the first INSERT, UPDATE or DELETE, so a SELECT that decides what to
write usually runs in a moment of its own and can be stale when the write runs.
SQLite lets one connection write at a time; another waits for five seconds and
then raises `database is locked`. The docs allow several workers
(`Docs/2026-deployment-portability-contract.md:102`).

## 2. What makes each part correct

Each of these is stated by a property of a run in section 4, a theorem of
section 5, or both.

- Queue: no job exceeds `max_attempts`, and it is dead exactly when they are
  used up; the audit rows replay to the row; a finished job stays finished.
- Worker: whatever two workers do to each other, a dead letter has its outbox
  row, the newest audit row names the state, and every job finishes.
- Relay: a row is delivered in the end, and only if it was received.
- Ingress: one envelope and one job per event; a persistent sender is heard.
- All together: an accepted event is resolved or its failure reaches Paperclip.
- Beta gate and accounts: a link or its code opens one session; limits and
  revocations are outrun only by requests already in progress; signing in reopens
  an account its owner closed only if the owner closed it between that sign-in's
  reading of the tier and its approval (the docstring, `provision.py:24-31`, knows
  no exception); no notice tells of what did not happen.
- MCP service: the spend passes the cap by what the calls in flight cost and no
  more; so does the count of a token's calls; a breach never goes without its
  pause; a draft with findings is rejected.
- Records: nothing is promoted past a flag that was open when it was checked; a
  revoked reviewer decides nothing new; a lost update has two reviewers who
  overlap; a disputed or rejected statement is served again only after a promotion
  or by a decision that overlapped with the one that closed it.
- Source versions: a change is late because of the notification exactly if the
  newer version came after it, is otherwise late exactly if that version came
  within the window of the meeting its detection was given, or after it, and is
  not late for any other reason; every record an invalidated change affects is
  marked, unless it came later; every segment is covered.
- Supplied files: work built on a superseded version waits for its review; a
  version without its event or an object without its record was left by a death,
  or is in hand, or is the version of a file that was reviewed after it had been
  read as the prior one; a gap refreshed from what still holds tells the truth.
- Cohorts: cached sizes are those of the cumulative membership; a user's
  transitions form a path; every move is announced once; a step's own admissions
  keep its cap (admissions into an earlier step do not: section 6).
- Email: a message is handed over at most once; after consent is withdrawn, only
  by senders that had checked it before, one mail each; "sent" means that the
  adapter was called once and returned, and says nothing of delivery; mail left
  only for rows that read failed or sent; outcomes are final.

## 3. Modules

| Module | Models | Correspondence |
|---|---|---|
| `JobRows` | rows of the three control-plane tables, how `job_queue.py` rewrites them | one operator per function or WHERE clause; a time is a number of clock units; the audit reasons are classes of the text written (`failure` stands for `retry:...` and `max_attempts_exhausted:...`) |
| `JobQueue` | `job_queue.py`, each call alone in its transaction | the abstract specification; one action per function; the caller's `now` is any reading of the clock up to the present |
| `JobWorker` | `run_once`, statement by statement | one action per SELECT that decides, one per transaction; local variables in `proc` |
| `OutboxRelay` | `write_outbox_row`, `relay` | one action per POST, per group's UPDATEs, and for the commit; Paperclip is the counter `received` |
| `WebhookIngress` | `process_request`, `insert_envelope` | verify, insert and commit, reply; senders may send any request at any time |
| `ControlPlane` | the three services of `docker-compose.yml` on one file | extends the worker and the ingress and instantiates the relay; they share `event_jobs`, `paperclip_outbox` and the write lock |
| `BetaGate` | `beta/service`, `tokens`, `allowlist`, `provision`, `sessions`, `cookie_auth`, `ratelimit`, with `accounts/service`, `sessions`, `gate` and the notices they append | one e-mail address; a request is a walk through its handler's statements, each a commit; the owner's commands walk likewise in `owner` |
| `McpService` | `analysis.run_multi_lens`, `routing.route`, `budget`, `health`, `capability`, `job_bridge`, `economics/budget_link` | a run is a walk through its reads and commits; one local provider has the budget, one token is shared |
| `Records` | `ai_extraction`, `ai_risk_gate`, `reviewer_promotion_batch`, `agenda_anchor_batch`, `publication`, `read_api` | a lane's transaction is one action; a decision is a read-and-check and a write; the status a reader sees and the two lanes are operators on the row |
| `Sources` | `source_version_store`, `stage5_source_diff`, `stage5_affected_set` | one source; content is what it says of each item; fetch, preserve, compare, store, resolve one segment and invalidate are actions, as what each tool read may be stale when it writes |
| `SuppliedFiles` | `beta/intake_api`, `raw_object_store`, `file_records`, `file_versioning`, `file_linkage` | one subject; each read that a write rests on, each commit, and the write to the object store, an action of its own |
| `Cohorts` | `open_cohort`, `advance` and the notice staged with it | both run under BEGIN IMMEDIATE, so each is one action; a step is its place in `COHORT_CHAIN`; caps and statuses are the columns of `cohort_state` |
| `EmailOutbox` | `queue_email`, `send_pending`, consent, the adapter flag | every SELECT of `send_pending` is an action, every UPDATE with its commit another; `SmtpSend` fails before anything leaves, or hands the mail over; counted are the adapter's calls (`calls`), what the server is handed (`attempts`) and what it takes (`accepted`) |
| `JobQueueProofs`, `RecordsProofs`, `SourcesProofs`, `SuppliedFilesProofs`, `McpProofs` | theorems about the module named | |
| `ControlPlaneProofs` | theorems about `WebhookIngress`, `JobWorker` and `ControlPlane` | |
| `AccountsProofs` | theorems about `BetaGate` and `Cohorts` | |
| `OutboxProofs` | theorems about `EmailOutbox` and `OutboxRelay` | |
| `MC*` | constants for TLC | |

`ControlPlane` composes ingress, worker and relay over shared tables, and
`ImplementsJobQueue`, stated in `JobWorker`, maps the whole to `JobQueue`.
Where one module extends two others their top-level names differ
(`WorkerSpec`, `IngressSpec`, `MailSpec`, `CohortSpec`).
`BetaGate`, `McpService` and `Records` each cover several packages of the code
in one module, because what is hard in them is one package's statement landing
between two of another's.

Operators commented as a mutant (`IsLastAttemptOffByOne` beside
`IsLastAttempt`) are plausible bugs of the definition after them. Nothing uses
them; each shows that some property would notice.

Some variables are history that no code reads: `revokes`, `killed` and
`commands` in `BetaGate`, `topCap` in `McpService`, `calls`, `attempts`,
`accepted` and `withdrawn` in `EmailOutbox`, the instants (`at`, `after`, `read`,
`reviewed`, `seen`, `epoch`) and `meeting` in `Records`, `Sources` and
`SuppliedFiles` where they stand for the order of reads and commits. No guard reads them
save for the bounds.

## 4. Runs

| Run | Bounds | What it shows |
|---|---|---|
| `queue` | 2 jobs in 2 scopes (one without handler), 2 owners, 2 attempts, clock 0..1 and on while a row waits | `AttemptBudget`, `AuditReplays` and, as an action property, `TerminalIsFinal` |
| `worker_pair` | 2 workers, 1 live job of a lane with or without handler (the other was cancelled before), 2 attempts, 1 kill | `DeadLetterAnnounced`, `AuditTail`, and `EveryJobFinishes` although both may lease the job |
| `relay` | 2 relays, 3 rows under 2 umbrellas, 1 failure | `EveryRowDelivered`, `DeliveredWasReceived`, with overlapping snapshots and lock timeouts |
| `ingress` | 2 sources (1 unknown), 3 bodies (1 malformed), clock 0..2, 2 outages | `ExactlyOneJob`, `EventHeard` under replays, lost answers and kills |
| `control_plane` | 2 events of 2 lanes (1 without handler), 1 attempt, 1 kill, 1 relay failure, 1 outage | `AcceptedNotLost`, `EventResolved` while the relay locks others out; `ImplementsJobQueue`: the composition still refines the queue |
| `beta` | 3 requests, 2 in progress at a time, limits of 1, 2 owner commands, 1 death | `OneSessionPerToken`, `LimitsExceededByRacersOnly`, `SurvivorsWereInFlight`, `DoorReopensOnlyIfOvertaken`, `NoticesFollowDecisions` |
| `mcp` | 2 lens runs of 2 lenses, calls of up to 2 units, caps 0 and 2, a token of 2 calls, 2 owner commands | `OverspendIsInFlight`, `CallLimitExceededByRacersOnly`, `AlarmFollowsResume`, `FindingsAreRejected` |
| `records` | 1 statement, 2 reviewers, 1 extraction, 1 scan, 2 items, 3 decisions | `NoPromotionOverFlag`, `RevokedDecidesNoMore`, `LostUpdatesAreRaces`, `NoSilentRevival`, `AnchorsMoveWithDecisions` |
| `sources` | 2 tools, 2 items, 2 wordings, 1 statement, 2 versions, instants 0..4, a meeting at 3 with a window of 1 or none given | `LatenessHasItsReason`, `UnmarkedIsNewer`, `FlagsFillTheGaps` |
| `files` | 2 tools, 1 content, 2 versions, 1 dependent, 3 edits, 1 death | `RedFlagsReachDependents`, `LeftoversAreExplained`, `FreshGapIsTrue`, `NeverStraightToWebSafe` |
| `cohorts` | 3 users, 3 steps with default caps 1, 2, 3 and given caps 1 or 2, opened in any order and reopened | `CacheIsMembership`, `EveryMoveAnnounced`, `OverrunComesFromBelow` |
| `email` | 2 senders, 2 mails of 1 user, 2 consents, 1 death or raise | `AtMostOnce`, `LateMailWasChecked`, `OutcomeIsFinal` |

Why the bounds are enough: each hazard needs at most two actors and two rows
(two rows to be in and out of one umbrella, two mails in one batch, two events
of which one has no handler), an attempt budget of two to have one non-final
and one final failure, and one or two failures to hit each step once. The clock
of the control plane runs past `MaxTime` as long as a row waits for it, so a
lease always expires and a backoff always elapses. `MaxHits` counts dedupe hits
up to "this many or more". Three steps are enough for an admission to have a
step below and one above; two consents let a user withdraw and come back. A
limit of 1 is passed by the second of two requests; two owner commands close an
account and invite again; three decisions let a dispute stand between two that
overlap; four instants order two retrievals, a notification and an anchoring, or
a retrieval, two anchorings and a decision, and the meeting's window opens at the
second of them. Two senders past their check when consent is withdrawn let two
late mails out, which the bound of `LateMailWasChecked` allows and the run reaches.

What the bounds do not reach: with one statement the promotion batch holds one
entry, so its all-or-nothing over several is covered by the theorems of
`RecordsProofs` and not by the run; a third version of a source or a file, and
so a chain longer than one link, is covered by `SourcesProofs` and
`SuppliedFilesProofs` only, as is the refusal of content on the deny list.

Fairness. The compose services run `while true` loops, so each worker's and
relay's next step is weakly fair; a handler returns; time passes. Kills, lost
answers and refusals are never fair. For the ingress, a sender that wants to be
heard re-signs and re-sends until it sees a 202 (strong fairness, since the
server is at times busy). The compose file starts worker and relay without
`--apply`; liveness is about the deployment with it, as the worker and relay do
nothing else. Everything else runs when a person, a browser or an agent calls
it: nothing calls `send_pending`, `advance`, `reconcile`, `invalidate` or
`refresh_no_primary_source_gap` on a schedule, so those modules have no fairness
and no liveness, and `CHECK_DEADLOCK FALSE` where callers may have no more to
ask.

Configurations to run by hand. Some claims of the documentation read more
strongly than the code is; these configurations state them literally and TLC
finds the counterexample described in section 6: `MCTerminal`,
`MCOutboxPostedOnce`, `MCEmailAccepted`, `MCCohortsOverrun`, `MCMcpOverspend`,
`MCRecordsPublic`. `MCJobWorkerAlone` passes: a single worker, killed between
any two statements, implements `JobQueue` and every job finishes.

    tlc -workers 2 -config MCTerminal.cfg MCJobWorker
    tlc -workers 2 -config MCOutboxPostedOnce.cfg MCOutboxRelay
    tlc -workers 2 -config MCEmailAccepted.cfg MCEmailOutbox
    tlc -workers 2 -config MCCohortsOverrun.cfg MCCohorts
    tlc -workers 2 -config MCMcpOverspend.cfg MCMcpService
    tlc -workers 2 -config MCRecordsPublic.cfg MCRecords
    tlc -workers 2 -config MCJobWorkerAlone.cfg MCJobWorker

## 5. Proofs

Every safety property that a run of section 4 checks, invariant or action
property, is also a theorem, for every number of jobs, events, workers, relays,
requests, commands, runs, owners, users, steps, senders, mails, statements,
reviewers, decisions, versions, tools, files, instants and deaths, and every
attempt, lease, backoff, rate, budget and cap setting:

| Theorem | States |
|---|---|
| `JobQueueProofs!TypeCorrect` | the tables keep their schema |
| `JobQueueProofs!BudgetHolds` | `AttemptBudget` |
| `JobQueueProofs!AuditIsComplete` | `AuditReplays` |
| `JobQueueProofs!NoSilentDeath` | every dead letter has an outbox row of its lane and area |
| `JobQueueProofs!LeasesAreReapable` | a row carries an expiry exactly while it is leased |
| `JobQueueProofs!TerminalStaysFinal` | `TerminalIsFinal` |
| `JobQueueProofs!CountersAudited` | attempt and retry counts agree with the audit trail |
| `ControlPlaneProofs!IngressTypes` | `IngressTypeOK`: no job without its envelope |
| `ControlPlaneProofs!EventHasOneJob` | `ExactlyOneJob` |
| `ControlPlaneProofs!WorkerTypes` | `WorkerTypeOK`, for any number of workers |
| `ControlPlaneProofs!WorkersAnnounceDeaths` | `DeadLetterAnnounced` |
| `ControlPlaneProofs!WorkersKeepAuditTail` | `AuditTail` |
| `ControlPlaneProofs!AcceptedIsNotLost` | `AcceptedNotLost` of the composition |
| `ControlPlaneProofs!DeathsAnnounced` | the three invariants above survive the composition |
| `ControlPlaneProofs!LoneWorkerIsAtomic` | `ImplementsJobQueue` of the composition with one worker |
| `OutboxProofs!RelayTypes` | rows, lock and relays keep their types |
| `OutboxProofs!DeliveredRowsWereSent` | `DeliveredWasReceived` |
| `OutboxProofs!MailTypes` | rows, logs, consent and senders keep their types |
| `OutboxProofs!NeverTwice` | `AtMostOnce` |
| `OutboxProofs!LateMailIsExplained` | `LateMailWasChecked` |
| `OutboxProofs!RowsTellOfCalls` | sent by SMTP stands for one call of the adapter; mail left only for rows failed or sent by SMTP |
| `OutboxProofs!OutcomesAreFinal` | `OutcomeIsFinal` |
| `AccountsProofs!GateTypes` | tables and requests keep their types |
| `AccountsProofs!TokenOpensOneSession` | `OneSessionPerToken` |
| `AccountsProofs!RacersBoundTheExcess` | `LimitsExceededByRacersOnly` |
| `AccountsProofs!RevocationReachesSessions` | `SurvivorsWereInFlight` |
| `AccountsProofs!OwnersClosingStands` | `DoorReopensOnlyIfOvertaken` |
| `AccountsProofs!DecisionsAreTold` | `NoticesFollowDecisions` |
| `AccountsProofs!CachesTrue` | `CacheIsMembership`, with the types |
| `AccountsProofs!MovesAnnounced` | `EveryMoveAnnounced` |
| `AccountsProofs!PathsHold` | a user's transitions form a path that enters no step twice |
| `AccountsProofs!OverrunsComeFromBelow` | `OverrunComesFromBelow` |
| `McpProofs!ServiceTypes` | tables and runs keep their types |
| `McpProofs!OverspendBounded` | `OverspendIsInFlight` |
| `McpProofs!CallLimitBounded` | `CallLimitExceededByRacersOnly` |
| `McpProofs!AlarmsAreOfResumed` | `AlarmFollowsResume` |
| `McpProofs!FindingsStop` | `FindingsAreRejected` |
| `RecordsProofs!FlagsGate` | `NoPromotionOverFlag` |
| `RecordsProofs!RevocationsBind` | `RevokedDecidesNoMore` |
| `RecordsProofs!LedgerReplays` | `LostUpdatesAreRaces` |
| `RecordsProofs!ClosedStaysClosed` | `NoSilentRevival` |
| `RecordsProofs!AnchorsStand` | `AnchorsMoveWithDecisions` |
| `SourcesProofs!LateIsTrue` | `LatenessHasItsReason` |
| `SourcesProofs!UnmarkedHolds` | `UnmarkedIsNewer` |
| `SourcesProofs!FlagsHold` | `FlagsFillTheGaps` |
| `SuppliedFilesProofs!RedFlags` | `RedFlagsReachDependents` |
| `SuppliedFilesProofs!FreshGaps` | `FreshGapIsTrue` |
| `SuppliedFilesProofs!Reopened` | `NeverStraightToWebSafe` |
| `SuppliedFilesProofs!Leftovers` | `LeftoversAreExplained` |

They rest on the assumptions about the constants in the module they are about,
and on nothing else. Those say that bounds and settings are natural numbers,
that a marker such as `NoRelay` is not one of the things it stands beside, that
the choices offered to a model (`Asked`, `Targets`, `Caps`, `Malformed`) are among
those the code knows, and, where cardinalities are compared, that a set is
finite. Some settings are positive, as the code's are: attempts, lease, backoff
and the day in `JobRowsAssumption`, the hourly limit and the requests in progress
in `BetaAssumption`, the lenses in `McpAssumption`. `LoneWorkerIsAtomic` is about
`Owners = {w}`.

Queue. Each invariant is inductive together with `TypeOK`: budget needs that a
leasable row has not used its attempts, which `WithinBudget` says of every row
that is not dead; audit replay needs that the last audit row names the state,
which is a conjunct of `Replays`. Row-level lemmas (what `FailedRow`,
`ReapedRow`, `Released`, `LeasedRow` keep) are stated once and cited by each
action. `CountersAudited` is apart because it reasons about cardinalities of
sets of positions (an append adds one).

Ingress. `IngressInv` lays the jobs beside the envelopes: the n-th job is that
of the n-th envelope, and no two envelopes are of one event (`OneEach`); a
request about to be answered has its envelope stored, and so has every one
answered (`Answered`). A duplicate adds nothing, so a retry after a lost answer
finds what it left.

Workers. `WorkerInv` says nothing of what two workers know of each other,
because they know nothing: each holds only that its own job is a row and that
the state it read can be left (`LocalOK`). What makes `AuditTail` and
`DeadLetterAnnounced` survive stale reads is that the UPDATE, the audit row and
the outbox row of one call commit together, whatever state they overwrite
(`TailOK`, `Tables`). The reaper writes a set of rows at once; `RowsStep` treats
any such set.

Composition. `PlaneInv` joins both to `Stored`: every job the ingress made is a
row that is there. Workers never take a row away (`Present`), the relay changes
nothing but a pending row into a delivered one, so an accepted event keeps its
job and a dead job its outbox row. With one worker the composition refines the
queue: `Fresh` says of every statement of `run_once` that what the worker has
read is still so when it writes, since nobody else changes a job that exists
(the ingress adds jobs at the end, `IdsInOrder`); each write is then an action
of `JobQueue` with the arguments the worker carries, each read a stutter.

Relay. `SentFirst` says that the rows a relay carries, in its group or in its
open transaction, were received at least once; the commit marks only those.
Receipts are never taken back, which is why any overlap of relays keeps it.

Beta gate. Each property needs the work in hand counted with what is written:
`Credentials` gives a consumed token to one request or one session;
`Limits` adds to a count the requests that have read it and not yet written, and
so bounds their sum by the limit and `InFlight - 1`; `Overtaken` adds to the
sessions issued past a revocation the requests that may still issue one;
`Telling` adds to the notices those about to be written and equates the sum with
the decisions as long as nobody was killed. Each walk's step moves one request
from one term to the next, so sums are kept or shrink.

MCP service. Likewise: `SpendOK` bounds the spend together with what the calls
in flight (`Flyers`) may still cost, `CallsOK` the calls counted together with
the runs about to count one. `EventsOK` says that a budget not paused has a
resumption after every breach, which is what makes the alarm tell of one.
`DraftsOK` says that a run between staging and rejecting holds a draft with the
findings it found.

Records. What was so when a reviewer's checks ran must be told of a decision
that enters the ledger later. So `GateInv` speaks of decisions in hand as of
those made: each is `Gated`, that is, whatever flag is open now and blocks it,
and whatever revocation stands now against its reviewer, was stamped after its
own check. It is inductive because flags and revocations are only ever stamped
with the present. The batch writes decisions for a whole set of statements at
once; `LaidOut` and `Batch` show that what it appends is a sequence of decisions
of the one reviewer it accepts, all with the time of the batch. For the ledger,
`Replays` relates it to the rows: what a reviewer has read is the row as it is,
unless a decision was written since (`ReadOK`), the newest decision names the
row's status, and of two adjacent ones the later starts where the earlier ended
or had read before it (`Chained`); a statement that is shown has every closing
decision answered by a promotion or by an overlap (`Standing`).

Sources. `Base` gives the types and that nothing known is from the future, so
what a tool fetched cannot precede a notification it did not. `LateInv`
says that what a change says of its lateness, stored or still in hand, agrees
with the time of its newer version, of the notification and of the meeting its
detection was given: a detection that knew of no notification read a version
that came before any later one. For the affected
records the invariant is again about work in hand and work done alike: `PairsOK`
says that a resolved set belongs to a stored change, `MarksAgree` that marks made
from the registry as it was at one time agree on which segments affect nothing,
`AllMarked` that a run, done or in hand, has marked every record that was at the
anchors it has resolved when its reads began, and still is. A repeated run only adds, which keeps all three.

Supplied files. `WorkOK` says of each tool what its read still guarantees at
its write: a review in hand is a legal transition from the state it read; a
refresh in hand tells the truth if no link or review has come since
(`EditStays`: an edit moves the epoch on and so voids every such claim). With
it `GapOK` is inductive; `RedFlagsReachDependents` is inductive by itself once
the rows have their types. For the leftovers, `LeftInv` counts what nobody is
seeing to: versions without their event and objects without a row that are in no
tool's hands are no more than the deaths, since only a death lets go of one. A
supersede that raises lets go of one too, but then its prior was reviewed after
it had been read, and so is not counted: what a tool has in hand remembers the
state and the edit at which it read, and the review stamp of the prior passes
the latter as soon as the former changes.

Cohorts. Every write recomputes the caches it could have made stale, so the
cache invariant is re-established rather than preserved; the path needs that
the latest cohort of a prefix does not see what is appended after it.

Email. `AtMostOnce` is not inductive: it needs to know why a sender about to
send is alone. `FlightsOK` says that the row of a sender between its claim and
its mark is `failed` and has been through the adapter exactly as far as the sender
has come, `Exclusive` that no two senders are in flight on one row, `Unclaimed`
that a row nobody claimed has never been through it. The claim establishes the
first two from the third because it finds the row pending, which no row in
flight is. For consent, `LateInv` adds to the mails handed over since a
withdrawal the senders that may still hand one over, and bounds the sum by those
past their check at the withdrawal: nobody joins them while consent is missing,
and a sender that hands a mail over moves from one term to the other.

Model-checked only: the liveness properties `EveryJobFinishes`,
`EveryRowDelivered`, `EventHeard` and `EventResolved`, as liveness under
fairness and ENABLED are outside what TLAPS proves, and that the composition
keeps the relay's own invariants. With two workers the refinement does not hold
(section 6). `TypeCorrect`, `NoSilentDeath` (for the queue),
`LeasesAreReapable`, `CountersAudited`, `PathsHold` and the type theorems state
what no run checks.

## 6. What the code does that its texts do not say

Stated by a configuration of section 4, with a counterexample:

- `MCTerminal`: `job_queue.transition` reads the state outside the transaction
  and updates by `job_id` alone (`job_queue.py:148`), while the docstring
  (17-18) calls terminal states final. Two workers can both lease a job; when
  one has finished it, the other's late outcome takes it out of its terminal
  state.
- `MCOutboxPostedOnce`: `relay` commits once, after the last group
  (`paperclip_outbox.py:242`); a failure after a POST rolls the marks back and
  the umbrella is posted again (against 210-212).
- `MCEmailAccepted`: `send_pending` ignores what `adapter.send` returns
  (`outbox.py:158`), and the SMTP adapter returns None when the connection, TLS,
  the login or the delivery failed (`adapters.py:130-145`): the row says `sent`,
  though `outbox.py:94-99` flips it only once the sender knows it succeeded.
- `MCCohortsOverrun`: `advance` compares one cap (`cohorts.py:242`) and then
  writes the sizes of all later steps: filling `beta-3` directly and then
  admitting into `beta-2` stores a size above the maximum of `beta-3` (7-8).
- `MCMcpOverspend`: the preflight adds an estimate of the output alone
  (`budget.py:176`) where `routing.py:199-200` speaks of a cap: a single run
  can pass it by its input units.
- `MCRecordsPublic`: the published lane filters by the visible status alone
  (`read_api.py:475-477`); a statement flagged after its promotion stays public
  though `ai_risk_gate` would block it.

Seen while modelling, by reading or as part of a trace:

- Queue: the reaper acts on leases it found expired before its transaction and
  can take back one granted since.
- Email: a sender logs `suppressed` even if its conditional UPDATE matched
  nothing, so the log may hold two; consent withdrawn between a sender's check
  and its send does not stop that one mail (`LateMailWasChecked` bounds them).
- Beta gate: `allowlist.revoke` (99) returns early on a row already revoked, so
  a revocation killed before its cascade is not finished by repeating it.
- MCP: a run killed after the call and before its audit row leaves spend
  nobody counts (`routing.py:223`); a provider whose last calls failed is not
  called again, so no later call clears the streak (`health.py:49`); a refusal
  for budget writes no deny row.
- Records: a decision id that collides rolls back its whole batch; statements
  of a partial extraction run cannot be promoted at all; scanning again raises
  a flag that was resolved.
- Sources: content that returns to an earlier wording is the earlier version,
  so the reversion is never recorded; a repeated detection answers with a
  lateness that the stored row does not have. `check_trust_model` raises on
  corrections marked `replaced` and on superseders without date; publishing a
  verified statement shows up in it as `verification_regressed`;
  `source_link_validation` compares newsletter ids with card handles, which
  never match; eligible statements tied to a segment only always count as
  untraced.
- Files: a superseded version that is linked as primary still closes the gap
  (`has_primary_source`), where the docstring (40-44) has it reopened; a
  refresh may overwrite a `wontfix` set since it read; a dependency registered
  on a superseded version stays current; two supersessions of one version fork
  the chain; `supersede_file` raises after committing the new version if the
  prior one was reviewed meanwhile; two uploads of the same bytes race between
  the test and the write (`raw_object_store.py:226`).
- `failure_issue_filer.py:205` files an issue twice if it is killed between the
  creation and its record.

## 7. Abstractions, and what is not modelled

Timestamps are integers and strings compare as they do; the digest of the
dedupe material is the material; HMAC is a flag of the request; metrics,
summaries and log files are left out, as are the read-only report and the
dry-run paths. A commit and the statements since the first write are one step,
because the write lock is held from one to the other and other connections
read the old rows.

Beta gate: one address stands for all, as no statement reads another's rows.
Tokens pass three ages; cookies, mail texts, audit rows and hashes are left
out: no handler reads them back. The civic query behind the gate, paging and
the read mark of notices are not modelled.

MCP: what is generated is data, a draft with findings or without; a call costs
between nothing and `MaxUnits`. The JSON transport, the schemas and the HTTP
adapter are left out.

Records: text does not change, so whether the screen flags it is a constant.
Search, entity pages and the web export project the same rows. The verdicts of
the verification lane are not read by the gate. Building and hashing of
manifests is left out; what a manifest holds is any choice over the statements.

Sources: one source, an agenda; evidence links and aliases are found as
statements are. The segments of a change are resolved one after another; within
one segment the SELECTs of its statements, links and aliases and of the reviews
are one step. When users were notified is what every caller knows, since no
detection is modelled that is told of another time or, when there was a
notification, of none; the meeting is an argument of each detection. Times are
instants, so the 48 hours are a number of them. Files: encryption, the store's ledger (which nothing reads) and
the diff shown to reviewers are left out.

Cohorts: `latest_cohort` orders by time and then by row; the clock is taken not
to step back, so the order is that of the rows. `MaxTransitions` bounds them.

Email: rows are visited in the order of their numbers, whatever the order they
were queued in, and a batch is never cut by `limit`. When the flag is on, the
SMTP adapter is taken to be registered (otherwise the null adapter is used,
which is the flag being off). The refusal of civic templates to users without
access is left out: no caller uses such a template. The notices that follow a
grant or a withdrawal of consent are commits of their own that nothing reads.

Not modelled:

- Area economics (beyond `budget_link`): sums over an append-only ledger, one
  writer by hand.
- Evidence records: single-transaction inserts and read-only summaries.
- Acquisition: batch scripts around the network and the file system; their
  database part is idempotent inserts.
- Seeds and one-off reviewer batches: each run once, in one transaction.
- Stage projections and audits: pure functions of the registry that write
  reports; nothing reads their output back. They are a large share of the code,
  as are the smoke scripts, and are why the models cover a small share of all
  lines: what has no state and no second actor gains little from a model
  checker.
- Operations: scripts around git, GitHub and log files.
- Schema migration, table export, pilot harness: sequential, no state of their
  own, or synthetic data.

## 8. Plan

Theorems that could follow: the relay's invariants inside the composition, where
a reaper writes several outbox rows in one commit; that the composition refines
the ingress and the relay, as it does the queue; for the queue, that a dead
letter's day has its row, and not only its lane and area.

Modules that could follow: the failure filer with GitHub's answers lost; the
economics ledger together with `budget_link`; the verification lane in front of
the reviewers; two uploads of the same bytes on the file system.
