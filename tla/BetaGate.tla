------------------------------ MODULE BetaGate ------------------------------
(***************************************************************************)
(* The beta front door of one e-mail address: magic links and codes, the   *)
(* allowlist, the account it provisions, and the sessions it issues        *)
(* (scripts/beta, scripts/accounts, scripts/notifications).                *)
(*                                                                         *)
(* beta/http_api serves every request on a thread of its own with a        *)
(* connection of its own, and every statement commits by itself: a request *)
(* is a walk through the statements its handler runs, one action each, and *)
(* the owner's commands interleave with it.  A request arrives once; the   *)
(* process may be killed with all its requests, and an owner's command     *)
(* between two of its commits.  Audit rows and the mail itself are left    *)
(* out: no handler reads them back.                                        *)
(***************************************************************************)
EXTENDS Integers, Sequences, FiniteSets, SequencesExt, FiniteSetsExt

CONSTANTS
    Requests,        \* HTTP requests that will arrive, each once
    InFlight,        \* bound on the requests in progress at one time
    RateLimit,       \* MAGIC_LINK_RATE_PER_HOUR and WAITLIST_RATE_PER_HOUR
    MaxCodeAttempts, \* MAX_CODE_ATTEMPTS
    OwnerCommands    \* bound on the owner's commands

ASSUME BetaAssumption ==
    /\ IsFiniteSet(Requests)
    /\ {InFlight, RateLimit} \subseteq Nat \ {0}
    /\ {MaxCodeAttempts, OwnerCommands} \subseteq Nat

VARIABLES
    gate,      \* feature flag beta_gate_enabled
    allow,     \* beta_allowlist row of the address: none, active, revoked
    tokens,    \* beta_magic_tokens rows, oldest first
    waitlist,  \* beta_waitlist rows of the address within the hour
    sessions,  \* beta_sessions rows
    account,   \* the users row: none, passwordless, password
    grants,    \* access_grants of the account, oldest first
    bearer,    \* auth_sessions rows of the account
    notices,   \* notification_events of the account
    deletion,  \* rows of account_deletion_requests in status 'requested'
    request,   \* what each request is doing
    owner,     \* statement the owner's command is at
    commands,  \* owner's commands so far
    revokes,   \* revocations committed: history, for the properties only
    killed     \* a process has been killed in mid-command: history

vars == <<gate, allow, tokens, waitlist, sessions, account, grants, bearer, notices,
          deletion, request, owner, commands, revokes, killed>>

stores == <<gate, allow, tokens, waitlist, sessions, account, grants, bearer, notices, deletion>>
history == <<commands, revokes, killed>>

Kinds == {"ask", "join", "link", "code", "signout", "delete", "login"}
Tiers == {"waitlisted", "approved", "revoked", "paused"}
ClosedTiers == {"revoked", "paused"}
Ages == {"live", "expired", "old"}   \* under 15 min, under an hour, over an hour

NewToken == [consumed |-> FALSE, attempts |-> 0, age |-> "live"]
Idle == [pc |-> "new", arg |-> 0, epoch |-> 0, seen |-> 0]

-----------------------------------------------------------------------------
(* What the helpers read.                                                  *)

Taken(tier) == Cardinality({i \in DOMAIN grants : grants[i].tier = tier})
CurrentTier == IF grants = <<>> THEN "none" ELSE Last(grants).tier
IsAllowed == allow = "active"
DecisionRef == allow = "active"      \* a reference, or None
\* A mutant of the next: the limit is refused one too late.
OverLimitAfter ==
    Cardinality({t \in DOMAIN tokens : tokens[t].age # "old"}) > RateLimit
OverLimit == Cardinality({t \in DOMAIN tokens : tokens[t].age # "old"}) >= RateLimit
SessionLive(s) == s \in DOMAIN sessions /\ sessions[s].live

\* The gates that only read: a cookie's caller for uploads and for notices, a
\* bearer's for civic records.  Each reads everything again for each request.
Authenticates(s) == SessionLive(s) /\ IsAllowed
CookieResolves(s) == gate /\ SessionLive(s) /\ IsAllowed /\ account # "none"
Authorizes(b) == bearer[b].live /\ CurrentTier = "approved"

Unconsumed == {t \in DOMAIN tokens : ~tokens[t].consumed}

-----------------------------------------------------------------------------
(* Requests.  What a handler answers is left out: no property reads it.    *)

At(r, pc) == request[r].pc = pc
InProgress == {r \in Requests : request[r].pc \notin {"new", "done"}}
Goto(r, pc) == request' = [request EXCEPT ![r].pc = pc]
Answer(r) == request' = [request EXCEPT ![r] = [Idle EXCEPT !.pc = "done"]]

\* The flag is read before anything else; while it is off every answer is 404.
\* Login has no route of its own and does not read it.
Arrive(r, kind, arg) ==
    /\ At(r, "new")
    /\ Cardinality(InProgress) < InFlight
    /\ IF gate \/ kind = "login"
       THEN request' = [request EXCEPT ![r] = [@ EXCEPT !.pc = kind, !.arg = arg]]
       ELSE Answer(r)
    /\ UNCHANGED <<stores, owner, history>>

Reads(r, pc, next) == At(r, pc) /\ next /\ UNCHANGED <<stores, owner, history>>

\* request_magic_link: limit, allowlist, then the token.
Ask(r) == Reads(r, "ask", IF OverLimit THEN Answer(r) ELSE Goto(r, "ask_allowed"))

AskAllowed(r) ==
    Reads(r, "ask_allowed", IF IsAllowed THEN Goto(r, "ask_issue") ELSE Answer(r))

IssueToken(r) ==
    /\ At(r, "ask_issue")
    /\ tokens' = Append(tokens, NewToken)
    /\ Answer(r)
    /\ UNCHANGED <<gate, allow, waitlist, sessions, account, grants, bearer, notices, deletion,
                   owner, history>>

\* join_waitlist: anyone, up to the same kind of limit.
Join(r) == Reads(r, "join", IF waitlist >= RateLimit THEN Answer(r) ELSE Goto(r, "join_write"))

RecordJoin(r) ==
    /\ At(r, "join_write")
    /\ waitlist' = waitlist + 1
    /\ Answer(r)
    /\ UNCHANGED <<gate, allow, tokens, sessions, account, grants, bearer, notices,
                   deletion, owner, history>>

\* tokens.consume up to its UPDATE; arg is the token of the link.
Link(r) ==
    LET t == request[r].arg IN
    Reads(r, "link", IF t \in Unconsumed /\ tokens[t].age = "live"
                     THEN Goto(r, "claim") ELSE Answer(r))

\* tokens.consume_code up to its UPDATE; arg is the token whose code was
\* typed, 0 a code of none.  Only the newest unconsumed row is looked at.
Code(r) ==
    LET t == Max(Unconsumed) IN
    Reads(r, "code",
          IF \/ Unconsumed = {}
             \/ tokens[t].age # "live"
             \/ tokens[t].attempts >= MaxCodeAttempts
          THEN Answer(r)
          ELSE IF request[r].arg = t
               THEN Goto(r, "claim")
               ELSE request' = [request EXCEPT ![r] = [@ EXCEPT !.pc = "miss", !.arg = t]])

CountMiss(r) ==
    /\ At(r, "miss")
    /\ tokens' = [tokens EXCEPT ![request[r].arg].attempts = @ + 1]
    /\ Answer(r)
    /\ UNCHANGED <<gate, allow, waitlist, sessions, account, grants, bearer, notices, deletion,
                   owner, history>>

\* A mutant of the next: the UPDATE without its WHERE consumed_utc IS NULL.
ClaimAnyToken(r) ==
    /\ At(r, "claim")
    /\ Goto(r, "check")
    /\ tokens' = [tokens EXCEPT ![request[r].arg] = [@ EXCEPT !.consumed = TRUE]]
    /\ UNCHANGED <<gate, allow, waitlist, sessions, account, grants, bearer, notices, deletion,
                   owner, history>>

\* UPDATE ... WHERE consumed_utc IS NULL: one of two claims changes the row.
ClaimToken(r) ==
    LET t == request[r].arg IN
    /\ At(r, "claim")
    /\ IF tokens[t].consumed
       THEN Answer(r) /\ UNCHANGED tokens
       ELSE Goto(r, "check") /\ tokens' = [tokens EXCEPT ![t] = [@ EXCEPT !.consumed = TRUE]]
    /\ UNCHANGED <<gate, allow, waitlist, sessions, account, grants, bearer, notices, deletion,
                   owner, history>>

CheckAllowed(r) ==
    Reads(r, "check",
          IF IsAllowed
          THEN request' = [request EXCEPT ![r] = [@ EXCEPT !.pc = "find", !.epoch = revokes]]
          ELSE Answer(r))

FindUser(r) == Reads(r, "find", Goto(r, IF account # "none" THEN "tier" ELSE "create"))

\* create_user: user, waitlist request and grant in one commit; a duplicate
\* adopts the winner's row.
CreateUser(r) ==
    /\ At(r, "create")
    /\ Goto(r, "tier")
    /\ account' = IF account = "none" THEN "passwordless" ELSE account
    /\ grants' = IF account # "none" THEN grants ELSE <<[tier |-> "waitlisted", by |-> "door", seen |-> 0]>>
    /\ UNCHANGED <<gate, allow, tokens, waitlist, sessions, bearer, notices, deletion, owner, history>>

\* A mutant of the next: any tier but approved is opened.
ReadTierUnlessApproved(r) ==
    Reads(r, "tier",
          IF CurrentTier = "approved"
          THEN Goto(r, "issue")
          ELSE request' = [request EXCEPT ![r] = [@ EXCEPT !.pc = "ref", !.seen = Len(grants)]])

ReadTier(r) ==
    Reads(r, "tier",
          IF CurrentTier \in ClosedTiers \cup {"approved"}
          THEN Goto(r, "issue")
          ELSE request' = [request EXCEPT ![r] = [@ EXCEPT !.pc = "ref", !.seen = Len(grants)]])

ReadRef(r) == Reads(r, "ref", Goto(r, IF DecisionRef THEN "approve" ELSE "issue"))

DoorApproves(r) ==
    /\ At(r, "approve")
    /\ grants' = Append(grants, [tier |-> "approved", by |-> "door", seen |-> request[r].seen])
    /\ Goto(r, "notify")
    /\ UNCHANGED <<gate, allow, tokens, waitlist, sessions, account, bearer, notices, deletion,
                   owner, history>>

DoorNotifies(r) ==
    /\ At(r, "notify")
    /\ notices' = Append(notices, "access_approved")
    /\ Goto(r, "issue")
    /\ UNCHANGED <<gate, allow, tokens, waitlist, sessions, account, grants, bearer, deletion,
                   owner, history>>

IssueSession(r) ==
    /\ At(r, "issue")
    /\ sessions' = Append(sessions, [live |-> TRUE, token |-> request[r].arg,
                                     epoch |-> request[r].epoch, issued |-> revokes])
    /\ Answer(r)
    /\ UNCHANGED <<gate, allow, tokens, waitlist, account, grants, bearer, notices, deletion,
                   owner, history>>

\* sign_out: sessions.revoke of the caller's cookie.
SignOut(r) ==
    LET s == request[r].arg IN
    /\ At(r, "signout")
    /\ sessions' = IF SessionLive(s) THEN [sessions EXCEPT ![s] = [@ EXCEPT !.live = FALSE]]
                                     ELSE sessions
    /\ Answer(r)
    /\ UNCHANGED <<gate, allow, tokens, waitlist, account, grants, bearer, notices, deletion,
                   owner, history>>

\* request_account_deletion: the session names the account, INSERT OR IGNORE
\* keeps one open row.
Delete(r) ==
    Reads(r, "delete", IF SessionLive(request[r].arg) /\ account # "none"
                       THEN Goto(r, "delete_write") ELSE Answer(r))

RecordDeletion(r) ==
    /\ At(r, "delete_write")
    /\ deletion' = 1
    /\ Answer(r)
    /\ UNCHANGED <<gate, allow, tokens, waitlist, sessions, account, grants, bearer, notices,
                   owner, history>>

\* login: the password hash is read, the session is another commit.
Login(r) ==
    Reads(r, "login", IF account = "password" THEN Goto(r, "login_issue") ELSE Answer(r))

IssueBearer(r) ==
    /\ At(r, "login_issue")
    /\ bearer' = Append(bearer, [live |-> TRUE, issued |-> Taken("revoked")])
    /\ Answer(r)
    /\ UNCHANGED <<gate, allow, tokens, waitlist, sessions, account, grants, notices, deletion,
                   owner, history>>

-----------------------------------------------------------------------------
(* The owner's commands.                                                   *)

OwnerStarts == owner = "idle" /\ commands < OwnerCommands /\ commands' = commands + 1

\* allowlist.add: insert or re-activate.
Invite ==
    /\ OwnerStarts
    /\ allow' = "active"
    /\ UNCHANGED <<gate, tokens, waitlist, sessions, account, grants, bearer, notices, deletion,
                   request, owner, revokes, killed>>

\* allowlist.revoke: the row, and in a second commit its sessions.
Uninvite ==
    /\ OwnerStarts
    /\ IF allow = "active"
       THEN allow' = "revoked" /\ owner' = "cascade" /\ revokes' = revokes + 1
       ELSE UNCHANGED <<allow, owner, revokes>>
    /\ UNCHANGED <<gate, tokens, waitlist, sessions, account, grants, bearer, notices, deletion,
                   request, killed>>

\* A mutant of the next: the sessions are left open.
CascadeNothing ==
    /\ owner = "cascade"
    /\ owner' = "idle"
    /\ UNCHANGED <<stores, request, history>>

CascadeSessions ==
    /\ owner = "cascade"
    /\ sessions' = [s \in DOMAIN sessions |-> [sessions[s] EXCEPT !.live = FALSE]]
    /\ owner' = "idle"
    /\ UNCHANGED <<gate, allow, tokens, waitlist, account, grants, bearer, notices, deletion,
                   request, history>>

\* accounts.service.approve, revoke and pause by the owner.
Decide(tier) ==
    /\ OwnerStarts
    /\ account # "none"
    /\ grants' = Append(grants, [tier |-> tier, by |-> "owner", seen |-> Len(grants)])
    /\ owner' = CASE tier = "approved" -> "tell_approved"
                  [] tier = "revoked"  -> "close_bearer"
                  [] tier = "paused"   -> "idle"
    /\ UNCHANGED <<gate, allow, tokens, waitlist, sessions, account, bearer, notices, deletion,
                   request, revokes, killed>>

\* A mutant of the next: revoke returns before it notifies.
CloseBearerSilently ==
    /\ owner = "close_bearer"
    /\ bearer' = [b \in DOMAIN bearer |-> [bearer[b] EXCEPT !.live = FALSE]]
    /\ owner' = "idle"
    /\ UNCHANGED <<gate, allow, tokens, waitlist, sessions, account, grants, notices, deletion,
                   request, history>>

CloseBearer ==
    /\ owner = "close_bearer"
    /\ bearer' = [b \in DOMAIN bearer |-> [bearer[b] EXCEPT !.live = FALSE]]
    /\ owner' = "tell_revoked"
    /\ UNCHANGED <<gate, allow, tokens, waitlist, sessions, account, grants, notices, deletion,
                   request, history>>

Tell ==
    /\ owner \in {"tell_approved", "tell_revoked"}
    /\ notices' = Append(notices, IF owner = "tell_approved" THEN "access_approved"
                                                              ELSE "access_revoked")
    /\ owner' = "idle"
    /\ UNCHANGED <<gate, allow, tokens, waitlist, sessions, account, grants, bearer, deletion,
                   request, history>>

\* set_password: the only way out of the passwordless posture.
SetPassword ==
    /\ OwnerStarts
    /\ account = "passwordless"
    /\ account' = "password"
    /\ UNCHANGED <<gate, allow, tokens, waitlist, sessions, grants, bearer, notices, deletion,
                   request, owner, revokes, killed>>

SwitchGate ==
    /\ OwnerStarts
    /\ gate' = ~gate
    /\ UNCHANGED <<allow, tokens, waitlist, sessions, account, grants, bearer, notices, deletion,
                   request, owner, revokes, killed>>

-----------------------------------------------------------------------------
(* Time, and deaths: of the server or of an owner's command, one of them.  *)

\* A token outlives its 15 minutes, then the hour of the rate limit.
Passes(t) ==
    /\ tokens[t].age # "old"
    /\ \A u \in 1..(t - 1) : tokens[u].age = "old" \/ tokens[t].age = "live"
    /\ \A u \in 1..(t - 1) : tokens[u].age # "live"
    /\ tokens' = [tokens EXCEPT ![t] =
           [@ EXCEPT !.age = IF tokens[t].age = "live" THEN "expired" ELSE "old"]]
    /\ UNCHANGED <<gate, allow, waitlist, sessions, account, grants, bearer, notices, deletion,
                   request, owner, history>>

JoinPasses ==
    /\ waitlist > 0
    /\ waitlist' = waitlist - 1
    /\ UNCHANGED <<gate, allow, tokens, sessions, account, grants, bearer, notices,
                   deletion, request, owner, history>>

ServerDies ==
    /\ ~killed
    /\ InProgress # {}
    /\ request' = [r \in Requests |->
           IF r \in InProgress THEN [Idle EXCEPT !.pc = "done"] ELSE request[r]]
    /\ killed' = TRUE
    /\ UNCHANGED <<stores, owner, commands, revokes>>

OwnerDies ==
    /\ ~killed
    /\ owner # "idle"
    /\ owner' = "idle"
    /\ killed' = TRUE
    /\ UNCHANGED <<stores, request, commands, revokes>>

-----------------------------------------------------------------------------
\* States an open gate can start from: an address invited or unknown, an
\* account that may exist, a link that may be out.
Init ==
    /\ gate = TRUE
    /\ allow \in {"none", "active"}
    /\ tokens = IF allow = "active" THEN <<NewToken>> ELSE <<>>
    /\ account \in {"none", "password"}
    /\ grants = IF account # "none" THEN <<[tier |-> "waitlisted", by |-> "owner", seen |-> 0]>> ELSE <<>>
    /\ waitlist = 0 /\ sessions = <<>> /\ bearer = <<>> /\ notices = <<>> /\ deletion = 0
    /\ request = [r \in Requests |-> Idle]
    /\ owner = "idle" /\ commands = 0 /\ revokes = 0 /\ killed = FALSE

\* The argument a request of each kind carries.
Arguments(kind) ==
    CASE kind \in {"ask", "join", "login"} -> {0}
      [] kind \in {"link", "code"} -> 0..Len(tokens)
      [] kind \in {"signout", "delete"} -> DOMAIN sessions

Arrival(r) == \E kind \in Kinds : \E arg \in Arguments(kind) : Arrive(r, kind, arg)

Handler(r) ==
    \/ Ask(r) \/ AskAllowed(r) \/ IssueToken(r) \/ Join(r) \/ RecordJoin(r)
    \/ Link(r) \/ Code(r) \/ CountMiss(r) \/ ClaimToken(r)
    \/ CheckAllowed(r) \/ FindUser(r) \/ CreateUser(r) \/ ReadTier(r) \/ ReadRef(r)
    \/ DoorApproves(r) \/ DoorNotifies(r) \/ IssueSession(r)
    \/ SignOut(r) \/ Delete(r) \/ RecordDeletion(r)
    \/ Login(r) \/ IssueBearer(r)

OwnerStep ==
    \/ Invite \/ Uninvite \/ CascadeSessions \/ SwitchGate
    \/ \E tier \in {"approved", "revoked", "paused"} : Decide(tier)
    \/ CloseBearer \/ Tell \/ SetPassword

Next ==
    \/ \E r \in Requests : Arrival(r) \/ Handler(r)
    \/ OwnerStep
    \/ \E t \in DOMAIN tokens : Passes(t)
    \/ JoinPasses \/ ServerDies \/ OwnerDies

Spec == Init /\ [][Next]_vars

-----------------------------------------------------------------------------
(* Properties.                                                             *)

\* Every variable holds what its table can hold.
TypeOK ==
    /\ gate \in BOOLEAN /\ account \in {"none", "passwordless", "password"} /\ killed \in BOOLEAN
    /\ allow \in {"none", "active", "revoked"}
    /\ tokens \in Seq([consumed : BOOLEAN, attempts : Nat, age : Ages])
    /\ sessions \in Seq([live : BOOLEAN, token : Nat, epoch : Nat, issued : Nat])
    /\ grants \in Seq([tier : Tiers, by : {"door", "owner"}, seen : Nat])
    /\ bearer \in Seq([live : BOOLEAN, issued : Nat])
    /\ notices \in Seq({"access_approved", "access_revoked"})
    /\ deletion \in {0, 1} /\ waitlist \in Nat
    /\ owner \in {"idle", "cascade", "tell_approved", "close_bearer", "tell_revoked"}
    /\ commands \in 0..OwnerCommands /\ revokes \in 0..commands

\* A link and its code are one credential: however many requests present it
\* together, it opens one session (tokens.consume, tokens.consume_code).
OneSessionPerToken ==
    \A s, u \in DOMAIN sessions : sessions[s].token = sessions[u].token => s = u

\* The two limits are compared with a count read before the write
\* (ratelimit.over_limit, tokens.consume_code): they are exceeded by no more
\* than the requests that had already read the count.
LimitsExceededByRacersOnly ==
    /\ Cardinality({t \in DOMAIN tokens : tokens[t].age # "old"}) <= RateLimit + InFlight - 1
    /\ waitlist <= RateLimit + InFlight - 1
    /\ \A t \in DOMAIN tokens : tokens[t].attempts <= MaxCodeAttempts + InFlight - 1

\* When a revocation has run to its end, every session issued before it is
\* closed.  What can still open the door under the old invitation, once the
\* owner invites again, is a session whose request had passed the allowlist
\* check and had not issued it yet: at most one per request in progress.  And
\* no bearer session from before a closed account's revocation works once the
\* account is approved again (allowlist.revoke, service.verify_magic_link,
\* cookie_auth, accounts.service.revoke, accounts.gate.authorize).
SurvivorsWereInFlight ==
    owner = "idle" /\ ~killed =>
        /\ \A s \in DOMAIN sessions : sessions[s].live => sessions[s].issued = revokes
        /\ Cardinality({s \in DOMAIN sessions :
               (Authenticates(s) \/ CookieResolves(s)) /\ sessions[s].epoch < revokes}) <= InFlight
        /\ \A b \in DOMAIN bearer : Authorizes(b) => bearer[b].issued = Taken("revoked")

\* Signing in never reopens an account the owner closed, unless the owner
\* closed it after that very sign-in had read the tier (provision_account).
DoorReopensOnlyIfOvertaken ==
    \A i \in DOMAIN grants : \A j \in 1..(i - 1) :
        /\ grants[i].by = "door"
        /\ grants[j].tier \in ClosedTiers
        /\ \A k \in (j + 1)..(i - 1) : grants[k].tier \in ClosedTiers
        => j > grants[i].seen

Told(kind) == Cardinality({n \in DOMAIN notices : notices[n] = kind})

\* The decision and its notice are two commits: no notice tells of a decision
\* that was not taken, and with nothing in between and nobody killed each
\* decision has been told (accounts.service.approve, revoke).
NoticesFollowDecisions ==
    /\ Told("access_approved") <= Taken("approved")
    /\ Told("access_revoked") <= Taken("revoked")
    /\ owner = "idle" /\ ~killed /\ (\A r \in Requests : ~At(r, "notify")) =>
           /\ Told("access_approved") = Taken("approved")
           /\ Told("access_revoked") = Taken("revoked")
=============================================================================
