----------------------------- MODULE EmailOutbox -----------------------------
(***************************************************************************)
(* The consent-gated mail outbox: queue_email and send_pending of          *)
(* scripts/email_gateway/outbox.py, the flag that selects the adapter, the *)
(* SMTP adapter, and the consent a user gives and withdraws.               *)
(*                                                                         *)
(* send_pending may run in several processes.  Its reads are moments of    *)
(* their own; the statements from a first UPDATE to its commit are one     *)
(* step under the write lock.  `database is locked` is raised out of       *)
(* send_pending before anything is written and shows as a SenderDies.      *)
(***************************************************************************)
EXTENDS Naturals, Sequences, FiniteSets, FiniteSetsExt

CONSTANTS
    Senders,     \* processes that call send_pending
    Recipients,  \* the recipients
    NumMails,    \* bound on the rows of email_outbox
    UserOf,      \* the recipient of each row
    MaxKills,    \* bound on sender deaths and raises
    MaxConsents  \* bound on consent grants

Mails == 1 .. NumMails

ASSUME EmailOutboxAssumption ==
    /\ NumMails \in Nat
    /\ UserOf \in [Mails -> Recipients]
    /\ IsFiniteSet(Senders)
    /\ MaxKills \in Nat /\ MaxConsents \in Nat

VARIABLES
    email_outbox,         \* status and adapter_used of each row
    email_delivery_log,   \* the event kinds logged for each row, in order
    consent_preferences,  \* per user: email_consent and the unsubscribe token
    feature_flags,        \* is_enabled(email_adapter_enabled)
    unsubscribing,        \* per user: has the token been looked up?
    queueing,             \* mails whose consent check has passed
    sender,               \* per sender: pc, adapter, rows still to visit
    calls,                \* calls of SmtpAdapter.send that returned
    attempts,             \* messages handed to the SMTP server
    accepted,             \* messages the SMTP server took
    withdrawn,            \* per user: senders past the check when consent was last
                          \* withdrawn, and mails handed over without consent since
    kills, consents       \* counters for the bounds

mailTables == <<email_outbox, email_delivery_log, consent_preferences, feature_flags>>
history == <<calls, attempts, accepted, withdrawn>>
mailVars ==
    <<mailTables, unsubscribing, queueing, sender, history, kills, consents>>

Statuses == {"absent", "pending", "sent", "failed", "suppressed"}
Adapters == {"null", "smtp"}

\* A sender's local variables.
At(pc, adapter, rows) == [pc |-> pc, adapter |-> adapter, rows |-> rows]
IdleSender == At("idle", "null", {})

MailInit ==
    /\ email_outbox = [m \in Mails |-> [status |-> "absent", adapter |-> "null"]]
    /\ email_delivery_log = [m \in Mails |-> << >>]
    /\ consent_preferences = [u \in Recipients |-> [email_consent |-> FALSE, token |-> 0]]
    /\ feature_flags = FALSE
    /\ unsubscribing = [u \in Recipients |-> FALSE]
    /\ queueing = {}
    /\ sender = [s \in Senders |-> IdleSender]
    /\ calls = [m \in Mails |-> 0]
    /\ attempts = [m \in Mails |-> 0]
    /\ accepted = [m \in Mails |-> 0]
    /\ withdrawn = [u \in Recipients |-> [racing |-> 0, late |-> 0]]
    /\ kills = 0
    /\ consents = 0

-----------------------------------------------------------------------------
(* What the users and the owner do.                                        *)

\* The row a sender is at: the list is visited in the order of its numbers.
Row(s) == Min(sender[s].rows)

\* The senders that have checked u's consent for the row they are at, and may
\* still send it.
Checked(u) == {s \in Senders : sender[s].pc \in {"claim", "send"} /\ UserOf[Row(s)] = u}

\* A mutant of the next: any preferences row with a token will do.
HasToken(u) == consent_preferences[u].token > 0

\* _consent_ok
ConsentOK(u) == consent_preferences[u].email_consent /\ consent_preferences[u].token > 0

\* grant_email_consent: consent with a fresh unsubscribe token.
GrantConsent(u) ==
    /\ consents < MaxConsents
    /\ consents' = consents + 1
    /\ consent_preferences' =
         [consent_preferences EXCEPT ![u] = [email_consent |-> TRUE, token |-> consents + 1]]
    /\ UNCHANGED <<email_outbox, email_delivery_log, feature_flags, unsubscribing, queueing,
                   sender, history, kills>>

\* unsubscribe looks the token up and then writes by user_id.
UnsubscribeLookup(u) ==
    /\ ~unsubscribing[u]
    /\ ConsentOK(u)
    /\ unsubscribing' = [unsubscribing EXCEPT ![u] = TRUE]
    /\ UNCHANGED <<mailTables, queueing, sender, history, kills, consents>>

UnsubscribeWrite(u) ==
    /\ unsubscribing[u]
    /\ unsubscribing' = [unsubscribing EXCEPT ![u] = FALSE]
    /\ consent_preferences' = [consent_preferences EXCEPT ![u].email_consent = FALSE]
    /\ withdrawn' = [withdrawn EXCEPT ![u] = [racing |-> Cardinality(Checked(u)), late |-> 0]]
    /\ UNCHANGED <<email_outbox, email_delivery_log, feature_flags, queueing,
                   sender, calls, attempts, accepted, kills, consents>>

\* set_flag: the owner switches the real adapter on or off.
SetFlag ==
    /\ feature_flags' = ~feature_flags
    /\ UNCHANGED <<email_outbox, email_delivery_log, consent_preferences,
                   unsubscribing, queueing, sender, history, kills, consents>>

(* queue_email: refused without consent, then inserted.  (The tier check   *)
(* of civic templates is left out: no caller uses such a template.)        *)
QueueCheck(m) ==
    /\ email_outbox[m].status = "absent"
    /\ m \notin queueing
    /\ ConsentOK(UserOf[m])
    /\ queueing' = queueing \cup {m}
    /\ UNCHANGED <<mailTables, unsubscribing, sender, history, kills, consents>>

QueueInsert(m) ==
    /\ m \in queueing
    /\ queueing' = queueing \ {m}
    /\ email_outbox' = [email_outbox EXCEPT ![m].status = "pending"]
    /\ UNCHANGED <<email_delivery_log, consent_preferences, feature_flags,
                   unsubscribing, sender, history, kills, consents>>

-----------------------------------------------------------------------------
(* send_pending.                                                           *)

\* The sender turns to the next row, or is done.
NextRow(s) ==
    LET rest == sender[s].rows \ {Row(s)}
    IN IF rest = {} THEN IdleSender ELSE At("check", sender[s].adapter, rest)

\* resolve_adapter: the real adapter only while its flag is on.
Resolve(s) ==
    /\ sender[s].pc = "idle"
    /\ sender' = [sender EXCEPT ![s] = At("select", IF feature_flags THEN "smtp" ELSE "null", {})]
    /\ UNCHANGED <<mailTables, unsubscribing, queueing, history, kills, consents>>

PendingRows == {m \in Mails : email_outbox[m].status = "pending"}

SelectPending(s) ==
    /\ sender[s].pc = "select"
    /\ sender' = [sender EXCEPT ![s] =
                    IF PendingRows = {} THEN IdleSender
                    ELSE At("check", sender[s].adapter, PendingRows)]
    /\ UNCHANGED <<mailTables, unsubscribing, queueing, history, kills, consents>>

CheckConsent(s) ==
    /\ sender[s].pc = "check"
    /\ sender' = [sender EXCEPT ![s].pc =
                    IF ConsentOK(UserOf[Row(s)]) THEN "claim" ELSE "suppress"]
    /\ UNCHANGED <<mailTables, unsubscribing, queueing, history, kills, consents>>

\* A mutant of the next: every row is taken for pending.
NotAbsent(m) == email_outbox[m].status # "absent"

\* WHERE outbox_id = ? AND status = 'pending'
IsPending(m) == email_outbox[m].status = "pending"

\* The UPDATE may match nothing; the log row is written in any case.
Suppress(s) ==
    /\ sender[s].pc = "suppress"
    /\ email_outbox' =
         IF IsPending(Row(s))
         THEN [email_outbox EXCEPT ![Row(s)] = [status |-> "suppressed", adapter |-> sender[s].adapter]]
         ELSE email_outbox
    /\ email_delivery_log' = [email_delivery_log EXCEPT ![Row(s)] = Append(@, "suppressed")]
    /\ sender' = [sender EXCEPT ![s] = NextRow(s)]
    /\ UNCHANGED <<consent_preferences, feature_flags, unsubscribing, queueing, history, kills, consents>>

\* A mutant of the next: the claim leaves the row pending until it is sent.
ClaimedAsPending(s) == [status |-> "pending", adapter |-> sender[s].adapter]

\* The claim that is committed before anything is sent.
Claimed(s) == [status |-> "failed", adapter |-> sender[s].adapter]

Claim(s) ==
    /\ sender[s].pc = "claim"
    /\ IF IsPending(Row(s))
       THEN /\ email_outbox' = [email_outbox EXCEPT ![Row(s)] = Claimed(s)]
            /\ sender' = [sender EXCEPT ![s].pc = "send"]
       ELSE /\ sender' = [sender EXCEPT ![s] = NextRow(s)]
            /\ UNCHANGED email_outbox
    /\ UNCHANGED <<email_delivery_log, consent_preferences, feature_flags,
                   unsubscribing, queueing, history, kills, consents>>

(* server.send_message: from here on the mail cannot be called back.       *)
HandOver(m, taken) ==
    /\ attempts' = [attempts EXCEPT ![m] = @ + 1]
    /\ accepted' = [accepted EXCEPT ![m] = @ + taken]
    /\ withdrawn' = IF consent_preferences[UserOf[m]].email_consent THEN withdrawn
                    ELSE [withdrawn EXCEPT ![UserOf[m]].late = @ + 1]

(* SmtpAdapter.send returns whatever happens on the network: connecting,   *)
(* STARTTLS or login fails and nothing leaves, or the message is handed    *)
(* over and the server takes it or refuses it.                             *)
SmtpSend(m) ==
    /\ calls' = [calls EXCEPT ![m] = @ + 1]
    /\ \/ UNCHANGED <<attempts, accepted, withdrawn>>
       \/ \E taken \in {0, 1} : HandOver(m, taken)

(* adapter.send: the null adapter sends nothing.                           *)
Send(s) ==
    /\ sender[s].pc = "send"
    /\ sender' = [sender EXCEPT ![s].pc = "mark"]
    /\ IF sender[s].adapter = "smtp" THEN SmtpSend(Row(s)) ELSE UNCHANGED history
    /\ UNCHANGED <<mailTables, unsubscribing, queueing, kills, consents>>

\* The event kind of a delivered row.
LoggedAsSent(m) == "sent"

MarkSent(s) ==
    /\ sender[s].pc = "mark"
    /\ email_outbox' = [email_outbox EXCEPT ![Row(s)] = [status |-> "sent", adapter |-> sender[s].adapter]]
    /\ email_delivery_log' = [email_delivery_log EXCEPT ![Row(s)] = Append(@, LoggedAsSent(Row(s)))]
    /\ sender' = [sender EXCEPT ![s] = NextRow(s)]
    /\ UNCHANGED <<consent_preferences, feature_flags, unsubscribing, queueing, history, kills, consents>>

\* The message cannot be built: logged, raised, and the batch is given up.
SendRaises(s) ==
    /\ sender[s].pc = "send"
    /\ kills < MaxKills
    /\ kills' = kills + 1
    /\ email_delivery_log' = [email_delivery_log EXCEPT ![Row(s)] = Append(@, "failed")]
    /\ sender' = [sender EXCEPT ![s] = IdleSender]
    /\ UNCHANGED <<email_outbox, consent_preferences, feature_flags, unsubscribing, queueing,
                   history, consents>>

SenderDies(s) ==
    /\ sender[s].pc # "idle"
    /\ kills < MaxKills
    /\ kills' = kills + 1
    /\ sender' = [sender EXCEPT ![s] = IdleSender]
    /\ UNCHANGED <<mailTables, unsubscribing, queueing, history, consents>>

SenderStep(s) ==
    \/ Resolve(s) \/ SelectPending(s) \/ CheckConsent(s) \/ Suppress(s)
    \/ Claim(s) \/ Send(s) \/ MarkSent(s)

MailNext ==
    \/ \E u \in Recipients : GrantConsent(u) \/ UnsubscribeLookup(u) \/ UnsubscribeWrite(u)
    \/ SetFlag
    \/ \E m \in Mails : QueueCheck(m) \/ QueueInsert(m)
    \/ \E s \in Senders : SenderStep(s) \/ SendRaises(s) \/ SenderDies(s)

MailSpec == MailInit /\ [][MailNext]_mailVars

-----------------------------------------------------------------------------
PCs == {"idle", "select", "check", "suppress", "claim", "send", "mark"}

(* Rows, logs and senders keep their types.                                *)
MailTypeOK ==
    /\ email_outbox \in [Mails -> [status : Statuses, adapter : Adapters]]
    /\ email_delivery_log \in [Mails -> Seq({"sent", "suppressed", "failed"})]
    /\ consent_preferences \in [Recipients -> [email_consent : BOOLEAN, token : Nat]]
    /\ feature_flags \in BOOLEAN
    /\ unsubscribing \in [Recipients -> BOOLEAN]
    /\ queueing \subseteq Mails
    /\ sender \in [Senders -> [pc : PCs, adapter : Adapters, rows : SUBSET Mails]]
    /\ calls \in [Mails -> Nat]
    /\ attempts \in [Mails -> Nat] /\ accepted \in [Mails -> Nat]
    /\ withdrawn \in [Recipients -> [racing : Nat, late : Nat]]
    /\ kills \in Nat /\ consents \in Nat

(* GOV-1676: a message is handed to the mail server at most once, however  *)
(* many senders run and wherever one of them dies.                         *)
AtMostOnce == \A m \in Mails : attempts[m] <= 1

(* What a row can tell: one marked sent by SMTP stands for one call of the *)
(* adapter, though the mail may never have left; mail left only for a row  *)
(* that was claimed for SMTP and now reads failed or sent.                 *)
RowTellsOfCall ==
    \A m \in Mails :
        LET row == email_outbox[m]
        IN /\ row.status = "sent" /\ row.adapter = "smtp" => calls[m] = 1
           /\ attempts[m] > 0 => row.status \in {"failed", "sent"} /\ row.adapter = "smtp"

(* Consent is read before the claim and not again: mail leaves for a user  *)
(* who has withdrawn, but only from senders that had checked before the    *)
(* withdrawal, one mail from each; and none for a user who never agreed.   *)
LateMailWasChecked == \A u \in Recipients : withdrawn[u].late <= withdrawn[u].racing

(* A row is sent or suppressed for good, and one that failed is never put  *)
(* back to pending: nothing repeats an irreversible action by itself.      *)
RowsKeepOutcome ==
    \A m \in Mails :
        LET now == email_outbox[m].status
            next == email_outbox'[m].status
        IN /\ now \in {"sent", "suppressed"} => next = now
           /\ now = "failed" => next \in {"failed", "sent"}

OutcomeIsFinal == [][RowsKeepOutcome]_mailVars

(* The row is flipped to sent only when the sender knows it succeeded.     *)
SentWasAccepted ==
    \A m \in Mails :
        email_outbox[m].status = "sent" /\ email_outbox[m].adapter = "smtp" => accepted[m] = 1
=============================================================================
