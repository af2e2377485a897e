---------------------------- MODULE OutboxProofs ----------------------------
(***************************************************************************)
(* Proofs about the two outboxes: EmailOutbox for any number of senders,   *)
(* recipients and mails, OutboxRelay for any number of relays and rows.    *)
(***************************************************************************)
EXTENDS EmailOutbox, OutboxRelay, FiniteSetTheorems, WellFoundedInduction, TLAPS

(* A set of naturals that is not empty has a least member: Min of the      *)
(* community modules chooses it.                                           *)
LEMMA MinIsMember ==
    ASSUME NEW S \in SUBSET Nat, S # {}
    PROVE  /\ Min(S) \in S
           /\ \A j \in S : Min(S) <= j
<1> DEFINE R == OpToRel(<, Nat)
<1>1. IsWellFoundedOn(R, Nat)
    BY NatLessThanWellFounded
<1>2. R = {ss \in Nat \X Nat : ss[1] < ss[2]}
    BY DEF OpToRel
<1> HIDE DEF R
<1>3. \A x \in Nat, y \in Nat : <<y, x>> \in R <=> y < x
    BY <1>2
<1>4. PICK x \in S : \A y \in S : ~(<<y, x>> \in R)
    BY <1>1, WFMin
<1>5. \A y \in S : ~(y < x)
    BY <1>3, <1>4
<1>6. \A y \in S : x <= y
    BY <1>5
<1> QED BY <1>6, Zenon DEF Min

-----------------------------------------------------------------------------
(* A sender between its claim and the end of its row.                      *)
InFlight(s) == sender[s].pc \in {"send", "mark"}

(* What the claim buys: the row of a sender in flight is failed, carries   *)
(* its adapter, has been through the adapter as far as the sender is, and  *)
(* is no other sender's; a row not yet claimed has never been through it.  *)
HasRow == \A s \in Senders : sender[s].pc \notin {"idle", "select"} => sender[s].rows # {}

FlightsOK ==
    \A s \in Senders :
        InFlight(s) =>
            /\ email_outbox[Row(s)] = [status |-> "failed", adapter |-> sender[s].adapter]
            /\ sender[s].pc = "send" => calls[Row(s)] = 0 /\ attempts[Row(s)] = 0
            /\ sender[s].pc = "mark" /\ sender[s].adapter = "smtp" => calls[Row(s)] = 1

Exclusive ==
    \A s, t \in Senders : s # t /\ InFlight(s) /\ InFlight(t) => Row(s) # Row(t)

Unclaimed ==
    \A m \in Mails :
        email_outbox[m].status \in {"absent", "pending"} => calls[m] = 0 /\ attempts[m] = 0

QueueingOK == \A m \in queueing : email_outbox[m].status = "absent"

MailInv ==
    /\ MailTypeOK
    /\ HasRow
    /\ FlightsOK
    /\ Exclusive
    /\ Unclaimed
    /\ QueueingOK
    /\ AtMostOnce
    /\ RowTellsOfCall

USE DEF Statuses, Adapters, PCs, history

-----------------------------------------------------------------------------
LEMMA InitInv == MailInit => MailInv
<1> SUFFICES ASSUME MailInit PROVE MailInv
    OBVIOUS
<1>1. MailTypeOK
    <2>1. << >> \in Seq({"sent", "suppressed", "failed"})
        OBVIOUS
    <2>2. email_delivery_log \in [Mails -> Seq({"sent", "suppressed", "failed"})]
        BY <2>1 DEF MailInit
    <2>3. IdleSender \in [pc : PCs, adapter : Adapters, rows : SUBSET Mails]
        BY DEF IdleSender, At
    <2> QED BY <2>2, <2>3 DEF MailInit, MailTypeOK
<1>2. HasRow /\ FlightsOK /\ Exclusive /\ QueueingOK
    BY DEF MailInit, HasRow, FlightsOK, Exclusive, InFlight, QueueingOK, IdleSender, At
<1>3. Unclaimed /\ AtMostOnce /\ RowTellsOfCall
    BY DEF MailInit, Unclaimed, AtMostOnce, RowTellsOfCall
<1> QED BY <1>1, <1>2, <1>3 DEF MailInv

(* The row of a sender that has one is a mail.                             *)
LEMMA RowIsMail ==
    ASSUME MailTypeOK, NEW s \in Senders, sender[s].rows # {}
    PROVE  Row(s) \in Mails /\ Row(s) \in sender[s].rows
<1>1. sender[s].rows \in SUBSET Mails
    BY DEF MailTypeOK
<1>2. sender[s].rows \in SUBSET Nat
    BY <1>1 DEF Mails
<1> QED BY <1>1, <1>2, MinIsMember DEF Row

(* When one row changes, only that row has to tell of its calls.           *)
LEMMA OneRowTells ==
    ASSUME RowTellsOfCall, NEW m \in Mails,
           \A n \in Mails : n # m => /\ email_outbox'[n] = email_outbox[n]
                                     /\ calls'[n] = calls[n] /\ attempts'[n] = attempts[n],
           email_outbox'[m].status = "sent" /\ email_outbox'[m].adapter = "smtp" => calls'[m] = 1,
           attempts'[m] > 0 => /\ email_outbox'[m].status \in {"failed", "sent"}
                               /\ email_outbox'[m].adapter = "smtp"
    PROVE  RowTellsOfCall'
BY DEF RowTellsOfCall

(* There are finitely many senders, so those past a check can be counted.  *)
LEMMA CheckedIsFinite ==
    ASSUME NEW u \in Recipients
    PROVE  IsFiniteSet(Checked(u)) /\ Cardinality(Checked(u)) \in Nat
<1>1. Checked(u) \subseteq Senders
    BY DEF Checked
<1> QED BY <1>1, EmailOutboxAssumption, FS_Subset, FS_CardinalityType

(* A sender that leaves its row, or has none, is not in flight.            *)
LEMMA NextRowOK ==
    ASSUME MailTypeOK, NEW s \in Senders, sender[s].rows # {}
    PROVE  /\ NextRow(s) \in [pc : PCs, adapter : Adapters, rows : SUBSET Mails]
           /\ NextRow(s).pc \notin {"send", "mark"}
           /\ NextRow(s).pc \notin {"idle", "select"} => NextRow(s).rows # {}
BY DEF MailTypeOK, NextRow, IdleSender, At

-----------------------------------------------------------------------------
(* The users, the owner and the writer of new mail touch no row that has   *)
(* been claimed.                                                           *)
LEMMA OthersKeepInv ==
    ASSUME MailInv,
           \/ \E u \in Recipients : GrantConsent(u) \/ UnsubscribeLookup(u) \/ UnsubscribeWrite(u)
           \/ SetFlag
           \/ \E m \in Mails : QueueCheck(m)
    PROVE  MailInv'
<1>1. UNCHANGED <<email_outbox, sender, calls, attempts>>
    BY DEF GrantConsent, UnsubscribeLookup, UnsubscribeWrite, SetFlag, QueueCheck, mailTables
<1>2. MailTypeOK'
    <2>1. ASSUME NEW u \in Recipients, GrantConsent(u) PROVE MailTypeOK'
        BY <2>1 DEF MailInv, MailTypeOK, GrantConsent
    <2>2. ASSUME NEW u \in Recipients, UnsubscribeLookup(u) PROVE MailTypeOK'
        BY <2>2 DEF MailInv, MailTypeOK, UnsubscribeLookup, mailTables
    <2>3. ASSUME NEW u \in Recipients, UnsubscribeWrite(u) PROVE MailTypeOK'
        <3>1. Cardinality(Checked(u)) \in Nat
            BY CheckedIsFinite
        <3>2. [racing |-> Cardinality(Checked(u)), late |-> 0] \in [racing : Nat, late : Nat]
            BY <3>1
        <3> QED BY <2>3, <3>2 DEF MailInv, MailTypeOK, UnsubscribeWrite
    <2>4. CASE SetFlag
        BY <2>4 DEF MailInv, MailTypeOK, SetFlag
    <2>5. ASSUME NEW m \in Mails, QueueCheck(m) PROVE MailTypeOK'
        BY <2>5 DEF MailInv, MailTypeOK, QueueCheck, mailTables
    <2> QED BY <2>1, <2>2, <2>3, <2>4, <2>5
<1>3. QueueingOK'
    BY <1>1 DEF MailInv, QueueingOK, GrantConsent, UnsubscribeLookup, UnsubscribeWrite, SetFlag, QueueCheck, mailTables
<1>4. /\ HasRow' /\ FlightsOK' /\ Exclusive' /\ Unclaimed'
      /\ AtMostOnce' /\ RowTellsOfCall'
    BY <1>1 DEF MailInv, HasRow, FlightsOK, Exclusive, InFlight, Row, Unclaimed,
                AtMostOnce, RowTellsOfCall
<1> QED BY <1>2, <1>3, <1>4 DEF MailInv

LEMMA QueueInsertKeepsInv ==
    ASSUME MailInv, NEW m \in Mails, QueueInsert(m)
    PROVE  MailInv'
<1>1. email_outbox[m].status = "absent"
    BY DEF MailInv, QueueingOK, QueueInsert
<1>2. /\ UNCHANGED <<sender, calls, attempts>>
      /\ email_outbox' = [email_outbox EXCEPT ![m].status = "pending"]
      /\ queueing' = queueing \ {m}
    BY DEF QueueInsert
<1>3. MailTypeOK'
    <2> DEFINE row == [email_outbox[m] EXCEPT !.status = "pending"]
    <2>1. email_outbox \in [Mails -> [status : Statuses, adapter : Adapters]]
        BY DEF MailInv, MailTypeOK
    <2>2. row \in [status : Statuses, adapter : Adapters]
        BY <2>1
    <2>3. email_outbox' = [email_outbox EXCEPT ![m] = row]
        BY <1>2
    <2> HIDE DEF row
    <2>4. email_outbox' \in [Mails -> [status : Statuses, adapter : Adapters]]
        BY <2>1, <2>2, <2>3
    <2> QED BY <2>4 DEF MailInv, MailTypeOK, QueueInsert
<1>4. \A n \in Mails : n # m => email_outbox'[n] = email_outbox[n]
    BY <1>2 DEF MailInv, MailTypeOK
<1>5. email_outbox'[m].status = "pending"
    BY <1>2 DEF MailInv, MailTypeOK
<1>6. FlightsOK'
    <2> SUFFICES ASSUME NEW s \in Senders, InFlight(s)
                 PROVE  email_outbox'[Row(s)] = email_outbox[Row(s)]
        BY <1>2 DEF MailInv, FlightsOK, InFlight, Row
    <2>1. Row(s) \in Mails
        BY RowIsMail DEF MailInv, HasRow, InFlight
    <2>2. email_outbox[Row(s)].status = "failed"
        <3>1. email_outbox[Row(s)] = [status |-> "failed", adapter |-> sender[s].adapter]
            BY DEF MailInv, FlightsOK
        <3> QED BY <3>1
    <2> QED BY <1>1, <1>4, <2>1, <2>2
<1>7. HasRow' /\ Exclusive'
    BY <1>2 DEF MailInv, HasRow, Exclusive, InFlight, Row
<1>8. Unclaimed' /\ AtMostOnce'
    BY <1>1, <1>2, <1>4 DEF MailInv, Unclaimed, AtMostOnce
<1>9. QueueingOK'
    BY <1>2, <1>4 DEF MailInv, QueueingOK, MailTypeOK
<1>10. RowTellsOfCall'
    <2>1. attempts[m] = 0
        BY <1>1 DEF MailInv, Unclaimed
    <2> QED BY <1>2, <1>4, <1>5, <2>1, OneRowTells DEF MailInv
<1> QED BY <1>3, <1>6, <1>7, <1>8, <1>9, <1>10 DEF MailInv

-----------------------------------------------------------------------------
(* A sender that steps without touching a row and ends out of flight.      *)
LEMMA OutOfFlight ==
    ASSUME MailInv, MailTypeOK', NEW s \in Senders,
           UNCHANGED <<email_outbox, calls, attempts, queueing>>,
           NEW local, sender' = [sender EXCEPT ![s] = local],
           local.pc \notin {"send", "mark"},
           local.pc \notin {"idle", "select"} => local.rows # {}
    PROVE  MailInv'
<1>1. /\ sender'[s] = local
      /\ \A t \in Senders : t # s => sender'[t] = sender[t]
    BY DEF MailInv, MailTypeOK
<1>2. ~InFlight(s)'
    BY <1>1 DEF InFlight
<1>3. \A t \in Senders : t # s => (InFlight(t)' <=> InFlight(t)) /\ Row(t)' = Row(t)
    BY <1>1 DEF InFlight, Row
<1>4. HasRow'
    BY <1>1 DEF MailInv, HasRow
<1>5. FlightsOK' /\ Exclusive'
    BY <1>1, <1>2, <1>3 DEF MailInv, FlightsOK, Exclusive
<1>6. Unclaimed' /\ QueueingOK' /\ AtMostOnce' /\ RowTellsOfCall'
    BY DEF MailInv, Unclaimed, QueueingOK, AtMostOnce, RowTellsOfCall
<1> QED BY <1>4, <1>5, <1>6 DEF MailInv

LEMMA ReadsKeepInv ==
    ASSUME MailInv, NEW s \in Senders,
           Resolve(s) \/ SelectPending(s) \/ CheckConsent(s) \/ SenderDies(s)
    PROVE  MailInv'
<1>1. UNCHANGED <<email_outbox, calls, attempts, queueing>>
    BY DEF Resolve, SelectPending, CheckConsent, SenderDies, mailTables
<1>2. ASSUME NEW local \in [pc : PCs, adapter : Adapters, rows : SUBSET Mails],
             sender' = [sender EXCEPT ![s] = local]
      PROVE  MailTypeOK'
    BY <1>2 DEF MailInv, MailTypeOK, Resolve, SelectPending, CheckConsent, SenderDies, mailTables
<1>3. CASE Resolve(s)
    <2> DEFINE local == At("select", IF feature_flags THEN "smtp" ELSE "null", {})
    <2>1. /\ local \in [pc : PCs, adapter : Adapters, rows : SUBSET Mails]
          /\ local.pc = "select"
        BY DEF At
    <2>2. sender' = [sender EXCEPT ![s] = local]
        BY <1>3 DEF Resolve
    <2> HIDE DEF local
    <2>3. MailTypeOK'
        BY <1>2, <2>1, <2>2
    <2> QED BY <1>1, <2>1, <2>2, <2>3, OutOfFlight
<1>4. CASE SelectPending(s)
    <2> DEFINE local == IF PendingRows = {} THEN IdleSender
                        ELSE At("check", sender[s].adapter, PendingRows)
    <2>1. /\ local \in [pc : PCs, adapter : Adapters, rows : SUBSET Mails]
          /\ local.pc \notin {"send", "mark"}
          /\ local.pc \notin {"idle", "select"} => local.rows # {}
        BY DEF MailInv, MailTypeOK, At, IdleSender, PendingRows
    <2>2. sender' = [sender EXCEPT ![s] = local]
        BY <1>4 DEF SelectPending
    <2> HIDE DEF local
    <2>3. MailTypeOK'
        BY <1>2, <2>1, <2>2
    <2> QED BY <1>1, <2>1, <2>2, <2>3, OutOfFlight
<1>5. CASE CheckConsent(s)
    <2> DEFINE local == [sender[s] EXCEPT !.pc =
                           IF ConsentOK(UserOf[Row(s)]) THEN "claim" ELSE "suppress"]
    <2>1. sender[s].pc = "check" /\ sender[s].rows # {}
        BY <1>5 DEF CheckConsent, MailInv, HasRow
    <2>2. /\ local \in [pc : PCs, adapter : Adapters, rows : SUBSET Mails]
          /\ local.pc \in {"claim", "suppress"}
          /\ local.rows = sender[s].rows
        BY DEF MailInv, MailTypeOK
    <2>3. sender' = [sender EXCEPT ![s] = local]
        BY <1>5 DEF CheckConsent
    <2> HIDE DEF local
    <2>4. MailTypeOK'
        BY <1>2, <2>2, <2>3
    <2> QED BY <1>1, <2>1, <2>2, <2>3, <2>4, OutOfFlight
<1>6. CASE SenderDies(s)
    <2>1. IdleSender \in [pc : PCs, adapter : Adapters, rows : SUBSET Mails] /\ IdleSender.pc = "idle"
        BY DEF IdleSender, At
    <2>2. sender' = [sender EXCEPT ![s] = IdleSender]
        BY <1>6 DEF SenderDies
    <2>3. MailTypeOK'
        BY <1>2, <2>1, <2>2
    <2> QED BY <1>1, <2>1, <2>2, <2>3, OutOfFlight
<1> QED BY <1>3, <1>4, <1>5, <1>6

LEMMA SendRaisesKeepsInv ==
    ASSUME MailInv, NEW s \in Senders, SendRaises(s)
    PROVE  MailInv'
<1>1. Row(s) \in Mails
    BY RowIsMail DEF MailInv, HasRow, SendRaises
<1>2. IdleSender \in [pc : PCs, adapter : Adapters, rows : SUBSET Mails] /\ IdleSender.pc = "idle"
    BY DEF IdleSender, At
<1>3. MailTypeOK'
    <2>1. email_delivery_log' \in [Mails -> Seq({"sent", "suppressed", "failed"})]
        BY <1>1 DEF MailInv, MailTypeOK, SendRaises
    <2> QED BY <1>2, <2>1 DEF MailInv, MailTypeOK, SendRaises
<1>4. /\ sender' = [sender EXCEPT ![s] = IdleSender]
      /\ UNCHANGED <<email_outbox, calls, attempts, queueing>>
    BY DEF SendRaises
<1> QED BY <1>2, <1>3, <1>4, OutOfFlight

-----------------------------------------------------------------------------
(* Suppress and a claim that finds its row taken leave other senders'      *)
(* claims alone; a claim that wins excludes them.                          *)
LEMMA SuppressKeepsInv ==
    ASSUME MailInv, NEW s \in Senders, Suppress(s)
    PROVE  MailInv'
<1> DEFINE m == Row(s)
<1>1. /\ sender[s].rows # {} /\ m \in Mails
      /\ sender[s].pc = "suppress"
    BY RowIsMail DEF MailInv, HasRow, Suppress
<1>2. /\ NextRow(s) \in [pc : PCs, adapter : Adapters, rows : SUBSET Mails]
      /\ NextRow(s).pc \notin {"send", "mark"}
      /\ NextRow(s).pc \notin {"idle", "select"} => NextRow(s).rows # {}
    BY <1>1, NextRowOK DEF MailInv
<1>3. sender' = [sender EXCEPT ![s] = NextRow(s)]
    BY DEF Suppress
<1>4. MailTypeOK'
    <2>1. email_delivery_log' \in [Mails -> Seq({"sent", "suppressed", "failed"})]
        BY <1>1 DEF MailInv, MailTypeOK, Suppress
    <2>2. email_outbox' \in [Mails -> [status : Statuses, adapter : Adapters]]
        BY <1>1 DEF MailInv, MailTypeOK, Suppress
    <2>3. sender' \in [Senders -> [pc : PCs, adapter : Adapters, rows : SUBSET Mails]]
        BY <1>2, <1>3 DEF MailInv, MailTypeOK
    <2> QED BY <2>1, <2>2, <2>3 DEF MailInv, MailTypeOK, Suppress
<1>5. CASE ~IsPending(m)
    BY <1>2, <1>3, <1>4, <1>5, OutOfFlight DEF Suppress
<1>6. CASE IsPending(m)
    <2>1. /\ email_outbox'[m].status = "suppressed"
          /\ \A n \in Mails : n # m => email_outbox'[n] = email_outbox[n]
          /\ UNCHANGED <<calls, attempts, queueing>>
        BY <1>1, <1>6 DEF Suppress, MailInv, MailTypeOK
    <2>2. \A t \in Senders : t # s => sender'[t] = sender[t]
        BY <1>3 DEF MailInv, MailTypeOK
    <2>3. sender'[s] = NextRow(s)
        BY <1>3 DEF MailInv, MailTypeOK
    <2>4. ASSUME NEW t \in Senders, InFlight(t)'
          PROVE  t # s /\ InFlight(t) /\ Row(t)' = Row(t) /\ Row(t) \in Mails /\ Row(t) # m
        <3>1. t # s
            BY <1>2, <2>3, <2>4 DEF InFlight
        <3>2. InFlight(t) /\ Row(t)' = Row(t)
            BY <2>2, <2>4, <3>1 DEF InFlight, Row
        <3>3. Row(t) \in Mails
            BY <3>2, RowIsMail DEF MailInv, HasRow, InFlight
        <3>4. email_outbox[Row(t)] = [status |-> "failed", adapter |-> sender[t].adapter]
            BY <3>2 DEF MailInv, FlightsOK
        <3>5. email_outbox[Row(t)].status = "failed"
            BY <3>4
        <3> QED BY <1>6, <3>1, <3>2, <3>3, <3>5 DEF IsPending
    <2> HIDE DEF m
    <2>5. FlightsOK'
        BY <2>1, <2>2, <2>4 DEF MailInv, FlightsOK
    <2>6. Exclusive'
        BY <2>4 DEF MailInv, Exclusive
    <2>7. HasRow'
        BY <1>2, <2>2, <2>3 DEF MailInv, HasRow
    <2>8. Unclaimed' /\ AtMostOnce'
        BY <2>1 DEF MailInv, Unclaimed, AtMostOnce
    <2>9. RowTellsOfCall'
        <3>1. attempts[m] = 0
            BY <1>1, <1>6 DEF MailInv, Unclaimed, IsPending, m
        <3> QED BY <1>1, <2>1, <3>1, OneRowTells DEF MailInv
    <2>10. QueueingOK'
        BY <1>6, <2>1, ZenonT(40) DEF MailInv, QueueingOK, MailTypeOK, IsPending
    <2> QED BY <1>4, <2>5, <2>6, <2>7, <2>8, <2>9, <2>10 DEF MailInv
<1> QED BY <1>5, <1>6

LEMMA ClaimKeepsInv ==
    ASSUME MailInv, NEW s \in Senders, Claim(s)
    PROVE  MailInv'
<1> DEFINE m == Row(s)
<1>1. /\ sender[s].rows # {} /\ m \in Mails
      /\ sender[s].pc = "claim"
    BY RowIsMail DEF MailInv, HasRow, Claim
<1>2. CASE ~IsPending(m)
    <2>1. /\ NextRow(s) \in [pc : PCs, adapter : Adapters, rows : SUBSET Mails]
          /\ NextRow(s).pc \notin {"send", "mark"}
          /\ NextRow(s).pc \notin {"idle", "select"} => NextRow(s).rows # {}
        BY <1>1, NextRowOK DEF MailInv
    <2>2. /\ sender' = [sender EXCEPT ![s] = NextRow(s)]
          /\ UNCHANGED <<email_outbox, calls, attempts, queueing>>
        BY <1>2 DEF Claim
    <2>3. MailTypeOK'
        BY <2>1, <2>2 DEF MailInv, MailTypeOK, Claim
    <2> QED BY <2>1, <2>2, <2>3, OutOfFlight
<1>3. CASE IsPending(m)
    <2>1. /\ email_outbox' = [email_outbox EXCEPT ![m] = Claimed(s)]
          /\ sender' = [sender EXCEPT ![s].pc = "send"]
          /\ UNCHANGED <<calls, attempts, queueing>>
        BY <1>3 DEF Claim
    <2>2. /\ email_outbox'[m] = [status |-> "failed", adapter |-> sender[s].adapter]
          /\ \A n \in Mails : n # m => email_outbox'[n] = email_outbox[n]
        BY <1>1, <2>1 DEF Claimed, MailInv, MailTypeOK
    <2>3. /\ sender'[s].pc = "send"
          /\ sender'[s].rows = sender[s].rows
          /\ sender'[s].adapter = sender[s].adapter
          /\ \A t \in Senders : t # s => sender'[t] = sender[t]
        BY <2>1 DEF MailInv, MailTypeOK
    <2>4. calls[m] = 0 /\ attempts[m] = 0
        BY <1>1, <1>3 DEF MailInv, Unclaimed, IsPending
    <2>5. Row(s)' = m
        BY <2>3 DEF Row
    <2>6. ASSUME NEW t \in Senders, t # s, InFlight(t)'
          PROVE  InFlight(t) /\ Row(t)' = Row(t) /\ Row(t) \in Mails /\ Row(t) # m
        <3>1. InFlight(t) /\ Row(t)' = Row(t)
            BY <2>3, <2>6 DEF InFlight, Row
        <3>2. Row(t) \in Mails
            BY <3>1, RowIsMail DEF MailInv, HasRow, InFlight
        <3>3. email_outbox[Row(t)] = [status |-> "failed", adapter |-> sender[t].adapter]
            BY <3>1 DEF MailInv, FlightsOK
        <3>4. email_outbox[Row(t)].status = "failed"
            BY <3>3
        <3> QED BY <1>3, <3>1, <3>2, <3>4 DEF IsPending
    <2>7. MailTypeOK'
        <3>1. email_outbox' \in [Mails -> [status : Statuses, adapter : Adapters]]
            BY <1>1, <2>1 DEF MailInv, MailTypeOK, Claimed
        <3>2. sender' \in [Senders -> [pc : PCs, adapter : Adapters, rows : SUBSET Mails]]
            BY <2>1, ZenonT(40) DEF MailInv, MailTypeOK
        <3> QED BY <3>1, <3>2 DEF MailInv, MailTypeOK, Claim
    <2> HIDE DEF m
    <2>8. HasRow'
        BY <1>1, <2>3 DEF MailInv, HasRow
    <2>9. FlightsOK'
        <3> SUFFICES ASSUME NEW t \in Senders, InFlight(t)'
                     PROVE  /\ email_outbox'[Row(t)'] = [status |-> "failed", adapter |-> sender'[t].adapter]
                            /\ sender'[t].pc = "send" => calls'[Row(t)'] = 0 /\ attempts'[Row(t)'] = 0
                            /\ sender'[t].pc = "mark" /\ sender'[t].adapter = "smtp"
                                 => calls'[Row(t)'] = 1
            BY DEF FlightsOK
        <3>1. CASE t = s
            BY <2>1, <2>2, <2>3, <2>4, <2>5, <3>1
        <3>2. CASE t # s
            BY <2>1, <2>2, <2>3, <2>6, <3>2 DEF MailInv, FlightsOK
        <3> QED BY <3>1, <3>2
    <2>10. Exclusive'
        BY <2>5, <2>6 DEF MailInv, Exclusive
    <2>11. Unclaimed' /\ AtMostOnce'
        BY <1>3, <2>1, <2>2 DEF MailInv, Unclaimed, AtMostOnce
    <2>12. RowTellsOfCall'
        <3>1. email_outbox'[m].status = "failed"
            BY <2>2
        <3> QED BY <1>1, <2>1, <2>2, <2>4, <3>1, OneRowTells DEF MailInv
    <2>13. QueueingOK'
        BY <1>3, <2>1, <2>2 DEF MailInv, QueueingOK, MailTypeOK, IsPending
    <2> QED BY <2>7, <2>8, <2>9, <2>10, <2>11, <2>12, <2>13 DEF MailInv
<1> QED BY <1>2, <1>3

-----------------------------------------------------------------------------
(* A call of the adapter counts, and keeps the types of what it counts.    *)
LEMMA SmtpSendTypes ==
    ASSUME MailTypeOK, NEW m \in Mails, SmtpSend(m)
    PROVE  /\ calls' \in [Mails -> Nat] /\ attempts' \in [Mails -> Nat]
           /\ accepted' \in [Mails -> Nat]
           /\ withdrawn' \in [Recipients -> [racing : Nat, late : Nat]]
<1>1. /\ calls \in [Mails -> Nat] /\ attempts \in [Mails -> Nat]
      /\ accepted \in [Mails -> Nat]
      /\ withdrawn \in [Recipients -> [racing : Nat, late : Nat]]
    BY DEF MailTypeOK
<1>2. calls' \in [Mails -> Nat]
    BY <1>1 DEF SmtpSend
<1>3. CASE UNCHANGED <<attempts, accepted, withdrawn>>
    BY <1>1, <1>2, <1>3
<1>4. ASSUME NEW taken \in {0, 1}, HandOver(m, taken)
      PROVE  /\ attempts' \in [Mails -> Nat] /\ accepted' \in [Mails -> Nat]
             /\ withdrawn' \in [Recipients -> [racing : Nat, late : Nat]]
    <2>1. attempts' \in [Mails -> Nat] /\ accepted' \in [Mails -> Nat]
        BY <1>1, <1>4 DEF HandOver
    <2> DEFINE u == UserOf[m]
    <2>2. u \in Recipients
        BY EmailOutboxAssumption
    <2> HIDE DEF u
    <2>3. [withdrawn[u] EXCEPT !.late = @ + 1] \in [racing : Nat, late : Nat]
        BY <1>1, <2>2
    <2>4. withdrawn' = withdrawn \/ withdrawn' = [withdrawn EXCEPT ![u].late = @ + 1]
        BY <1>4 DEF HandOver, u
    <2> QED BY <1>1, <2>1, <2>2, <2>3, <2>4
<1> QED BY <1>2, <1>3, <1>4 DEF SmtpSend

(* The row a sender hands over is its own, and has not been handed over.   *)
LEMMA SendKeepsInv ==
    ASSUME MailInv, NEW s \in Senders, Send(s)
    PROVE  MailInv'
<1> DEFINE m == Row(s)
<1>1. /\ sender[s].rows # {} /\ m \in Mails
      /\ sender[s].pc = "send" /\ InFlight(s)
    BY RowIsMail DEF MailInv, HasRow, Send, InFlight
<1>2. /\ sender' = [sender EXCEPT ![s].pc = "mark"]
      /\ UNCHANGED <<email_outbox, queueing>>
    BY DEF Send, mailTables
<1>3. /\ sender'[s].pc = "mark"
      /\ sender'[s].rows = sender[s].rows
      /\ sender'[s].adapter = sender[s].adapter
      /\ \A t \in Senders : t # s => sender'[t] = sender[t]
    BY <1>2 DEF MailInv, MailTypeOK
<1>4. /\ calls[m] = 0 /\ attempts[m] = 0
      /\ email_outbox[m] = [status |-> "failed", adapter |-> sender[s].adapter]
    BY <1>1 DEF MailInv, FlightsOK
<1>5. email_outbox[m].status = "failed"
    BY <1>4
<1>6. /\ \A n \in Mails : n # m => calls'[n] = calls[n] /\ attempts'[n] = attempts[n]
      /\ sender[s].adapter = "smtp" => calls'[m] = 1
      /\ attempts'[m] <= 1
      /\ attempts'[m] > 0 => sender[s].adapter = "smtp"
    <2>1. calls \in [Mails -> Nat] /\ attempts \in [Mails -> Nat]
        BY DEF MailInv, MailTypeOK
    <2>2. CASE sender[s].adapter # "smtp"
        BY <1>4, <2>2 DEF Send
    <2>3. CASE sender[s].adapter = "smtp"
        <3>1. /\ calls' = [calls EXCEPT ![m] = @ + 1]
              /\ attempts' = attempts \/ attempts' = [attempts EXCEPT ![m] = @ + 1]
            BY <2>3 DEF Send, SmtpSend, HandOver
        <3> QED BY <1>1, <1>4, <2>1, <2>3, <3>1
    <2> QED BY <2>2, <2>3
<1>7. Row(s)' = m
    BY <1>3 DEF Row
<1>8. ASSUME NEW t \in Senders, t # s, InFlight(t)'
      PROVE  InFlight(t) /\ Row(t)' = Row(t) /\ Row(t) \in Mails /\ Row(t) # m
    <2>1. InFlight(t) /\ Row(t)' = Row(t)
        BY <1>3, <1>8 DEF InFlight, Row
    <2>2. Row(t) \in Mails
        BY <2>1, RowIsMail DEF MailInv, HasRow, InFlight
    <2> QED BY <1>1, <1>8, <2>1, <2>2 DEF MailInv, Exclusive
<1>9. MailTypeOK'
    <2>1. UNCHANGED history \/ SmtpSend(m)
        BY DEF Send
    <2>2. /\ calls' \in [Mails -> Nat] /\ attempts' \in [Mails -> Nat]
          /\ accepted' \in [Mails -> Nat]
          /\ withdrawn' \in [Recipients -> [racing : Nat, late : Nat]]
        BY <1>1, <2>1, SmtpSendTypes DEF MailInv, MailTypeOK
    <2>3. sender' \in [Senders -> [pc : PCs, adapter : Adapters, rows : SUBSET Mails]]
        BY <1>2, ZenonT(40) DEF MailInv, MailTypeOK
    <2> QED BY <2>2, <2>3 DEF MailInv, MailTypeOK, Send, mailTables
<1> HIDE DEF m
<1>10. HasRow'
    BY <1>1, <1>3 DEF MailInv, HasRow
<1>11. FlightsOK'
    <2> SUFFICES ASSUME NEW t \in Senders, InFlight(t)'
                 PROVE  /\ email_outbox'[Row(t)'] = [status |-> "failed", adapter |-> sender'[t].adapter]
                        /\ sender'[t].pc = "send" => calls'[Row(t)'] = 0 /\ attempts'[Row(t)'] = 0
                        /\ sender'[t].pc = "mark" /\ sender'[t].adapter = "smtp"
                             => calls'[Row(t)'] = 1
        BY DEF FlightsOK
    <2>1. CASE t = s
        BY <1>2, <1>3, <1>4, <1>6, <1>7, <2>1
    <2>2. CASE t # s
        BY <1>2, <1>3, <1>6, <1>8, <2>2 DEF MailInv, FlightsOK
    <2> QED BY <2>1, <2>2
<1>12. Exclusive'
    BY <1>7, <1>8 DEF MailInv, Exclusive
<1>13. AtMostOnce'
    BY <1>6 DEF MailInv, AtMostOnce
<1>14. Unclaimed'
    BY <1>2, <1>5, <1>6 DEF MailInv, Unclaimed
<1>16. QueueingOK'
    BY <1>2 DEF MailInv, QueueingOK
<1>15. RowTellsOfCall'
    <2>1. email_outbox[m].adapter = sender[s].adapter
        BY <1>4
    <2> QED BY <1>1, <1>2, <1>5, <1>6, <2>1, OneRowTells DEF MailInv
<1> QED BY <1>9, <1>10, <1>11, <1>12, <1>13, <1>14, <1>15, <1>16 DEF MailInv

LEMMA MarkSentKeepsInv ==
    ASSUME MailInv, NEW s \in Senders, MarkSent(s)
    PROVE  MailInv'
<1> DEFINE m == Row(s)
<1>1. /\ sender[s].rows # {} /\ m \in Mails
      /\ sender[s].pc = "mark" /\ InFlight(s)
    BY RowIsMail DEF MailInv, HasRow, MarkSent, InFlight
<1>2. /\ NextRow(s) \in [pc : PCs, adapter : Adapters, rows : SUBSET Mails]
      /\ NextRow(s).pc \notin {"send", "mark"}
      /\ NextRow(s).pc \notin {"idle", "select"} => NextRow(s).rows # {}
    BY <1>1, NextRowOK DEF MailInv
<1>3. /\ sender' = [sender EXCEPT ![s] = NextRow(s)]
      /\ email_outbox' = [email_outbox EXCEPT ![m] = [status |-> "sent", adapter |-> sender[s].adapter]]
      /\ UNCHANGED <<calls, attempts, queueing>>
    BY DEF MarkSent
<1>4. /\ email_outbox'[m] = [status |-> "sent", adapter |-> sender[s].adapter]
      /\ \A n \in Mails : n # m => email_outbox'[n] = email_outbox[n]
    BY <1>1, <1>3 DEF MailInv, MailTypeOK
<1>5. email_outbox'[m].status = "sent" /\ email_outbox'[m].adapter = sender[s].adapter
    BY <1>4
<1>6. /\ sender'[s] = NextRow(s)
      /\ \A t \in Senders : t # s => sender'[t] = sender[t]
    BY <1>3 DEF MailInv, MailTypeOK
<1>7. sender[s].adapter = "smtp" => calls[m] = 1
    BY <1>1 DEF MailInv, FlightsOK
<1>8. ASSUME NEW t \in Senders, InFlight(t)'
      PROVE  t # s /\ InFlight(t) /\ Row(t)' = Row(t) /\ Row(t) \in Mails /\ Row(t) # m
    <2>1. t # s
        BY <1>2, <1>6, <1>8 DEF InFlight
    <2>2. InFlight(t) /\ Row(t)' = Row(t)
        BY <1>6, <1>8, <2>1 DEF InFlight, Row
    <2>3. Row(t) \in Mails
        BY <2>2, RowIsMail DEF MailInv, HasRow, InFlight
    <2> QED BY <1>1, <2>1, <2>2, <2>3 DEF MailInv, Exclusive
<1>9. MailTypeOK'
    <2>1. email_delivery_log' \in [Mails -> Seq({"sent", "suppressed", "failed"})]
        BY <1>1 DEF MailInv, MailTypeOK, MarkSent, LoggedAsSent
    <2>2. email_outbox' \in [Mails -> [status : Statuses, adapter : Adapters]]
        BY <1>1, <1>3 DEF MailInv, MailTypeOK
    <2>3. sender' \in [Senders -> [pc : PCs, adapter : Adapters, rows : SUBSET Mails]]
        BY <1>2, <1>3 DEF MailInv, MailTypeOK
    <2> QED BY <2>1, <2>2, <2>3 DEF MailInv, MailTypeOK, MarkSent
<1>10. email_outbox[m].status = "failed"
    <2>1. email_outbox[m] = [status |-> "failed", adapter |-> sender[s].adapter]
        BY <1>1 DEF MailInv, FlightsOK
    <2> QED BY <2>1
<1> HIDE DEF m
<1>11. FlightsOK'
    BY <1>3, <1>4, <1>6, <1>8 DEF MailInv, FlightsOK
<1>12. Exclusive'
    BY <1>8 DEF MailInv, Exclusive
<1>13. HasRow'
    BY <1>2, <1>6 DEF MailInv, HasRow
<1>14. Unclaimed' /\ AtMostOnce'
    BY <1>3, <1>4, <1>5 DEF MailInv, Unclaimed, AtMostOnce
<1>15. RowTellsOfCall'
    <2>1. email_outbox[m].adapter = sender[s].adapter
        <3>1. email_outbox[m] = [status |-> "failed", adapter |-> sender[s].adapter]
            BY <1>1 DEF MailInv, FlightsOK, m
        <3> QED BY <3>1
    <2>2. attempts[m] > 0 => sender[s].adapter = "smtp"
        BY <1>1, <2>1 DEF MailInv, RowTellsOfCall
    <2> QED BY <1>1, <1>3, <1>4, <1>5, <1>7, <2>2, OneRowTells DEF MailInv
<1>16. QueueingOK'
    BY <1>3, <1>4, <1>10 DEF MailInv, QueueingOK, MailTypeOK
<1> QED BY <1>9, <1>11, <1>12, <1>13, <1>14, <1>15, <1>16 DEF MailInv

-----------------------------------------------------------------------------
LEMMA NextKeepsInv == MailInv /\ [MailNext]_mailVars => MailInv'
<1> SUFFICES ASSUME MailInv, [MailNext]_mailVars PROVE MailInv'
    OBVIOUS
<1>1. CASE MailNext
    BY <1>1, OthersKeepInv, QueueInsertKeepsInv, ReadsKeepInv, SuppressKeepsInv, ClaimKeepsInv,
       SendKeepsInv, MarkSentKeepsInv, SendRaisesKeepsInv DEF MailNext, SenderStep
<1>2. CASE UNCHANGED mailVars
    BY <1>2 DEF mailVars, mailTables, MailInv, MailTypeOK, HasRow, FlightsOK, Exclusive, InFlight, Row, Unclaimed,
                QueueingOK, AtMostOnce, RowTellsOfCall
<1> QED BY <1>1, <1>2

LEMMA MailInvariance == MailSpec => []MailInv
BY InitInv, NextKeepsInv, PTL DEF MailSpec

(* Rows, logs and senders keep their types (queue_email, send_pending).    *)
THEOREM MailTypes == MailSpec => []MailTypeOK
<1>1. MailInv => MailTypeOK
    BY DEF MailInv
<1> QED BY <1>1, MailInvariance, PTL

(* No mail is handed to the server twice, by any number of senders that    *)
(* die anywhere.                                                           *)
THEOREM NeverTwice == MailSpec => []AtMostOnce
<1>1. MailInv => AtMostOnce
    BY DEF MailInv
<1> QED BY MailInvariance, <1>1, PTL

(* A row that reads sent by SMTP stands for one call of the adapter, and   *)
(* mail left only for a row that reads failed or sent by SMTP (send_pending *)
(* and SmtpAdapter.send): an operator who trusts the row misses no mail.   *)
THEOREM RowsTellOfCalls == MailSpec => []RowTellsOfCall
<1>1. MailInv => RowTellsOfCall
    BY DEF MailInv
<1> QED BY MailInvariance, <1>1, PTL

-----------------------------------------------------------------------------
(* Consent: while it is withdrawn nobody newly passes the check, so what   *)
(* has been handed over since and what may still be came from the senders  *)
(* that were past it at the withdrawal.                                    *)
Consents(u) == consent_preferences[u].email_consent

LateInv ==
    /\ LateMailWasChecked
    /\ \A u \in Recipients :
           ~Consents(u) => withdrawn[u].late + Cardinality(Checked(u)) <= withdrawn[u].racing

(* Nobody is handed over, no consent changes, and nobody passes the check  *)
(* of a user who has withdrawn.                                            *)
LEMMA NobodyPasses ==
    ASSUME MailInv, LateInv, UNCHANGED <<consent_preferences, withdrawn>>,
           \A u \in Recipients : ~Consents(u) => Checked(u)' \subseteq Checked(u)
    PROVE  LateInv'
<1>1. LateMailWasChecked'
    BY DEF LateInv, LateMailWasChecked
<1>2. ASSUME NEW u \in Recipients, ~Consents(u)
      PROVE  withdrawn[u].late + Cardinality(Checked(u)') <= withdrawn[u].racing
    <2>1. /\ Cardinality(Checked(u)') \in Nat
          /\ Cardinality(Checked(u)') <= Cardinality(Checked(u))
        BY <1>2, CheckedIsFinite, FS_Subset, FS_CardinalityType
    <2>2. Cardinality(Checked(u)) \in Nat
        BY CheckedIsFinite
    <2>3. withdrawn[u].late \in Nat /\ withdrawn[u].racing \in Nat
        BY DEF MailInv, MailTypeOK
    <2>4. withdrawn[u].late + Cardinality(Checked(u)) <= withdrawn[u].racing
        BY <1>2 DEF LateInv
    <2> QED BY <2>1, <2>2, <2>3, <2>4
<1> QED BY <1>1, <1>2 DEF LateInv, Consents

(* A sender that turns to another state of its own frees the others: only  *)
(* a claim or a send newly reached adds to the senders past a check.       *)
LEMMA OthersStayChecked ==
    ASSUME MailInv, NEW s \in Senders, NEW local, sender' = [sender EXCEPT ![s] = local],
           \/ local.pc \notin {"claim", "send"}
           \/ sender[s].pc \in {"claim", "send"} /\ local.rows = sender[s].rows
    PROVE  \A u \in Recipients : Checked(u)' \subseteq Checked(u)
<1>1. /\ sender'[s] = local
      /\ \A t \in Senders : t # s => sender'[t] = sender[t]
    BY DEF MailInv, MailTypeOK
<1> SUFFICES ASSUME NEW u \in Recipients, NEW t \in Senders,
                    sender'[t].pc \in {"claim", "send"}, UserOf[Row(t)'] = u
             PROVE  sender[t].pc \in {"claim", "send"} /\ UserOf[Row(t)] = u
    BY DEF Checked
<1>2. CASE t = s
    BY <1>1, <1>2 DEF Row
<1>3. CASE t # s
    BY <1>1, <1>3 DEF Row
<1> QED BY <1>2, <1>3

LEMMA UsersKeepLate ==
    ASSUME MailInv, LateInv,
           NEW u \in Recipients, GrantConsent(u) \/ UnsubscribeWrite(u)
    PROVE  LateInv'
<1>1. \A v \in Recipients : Checked(v)' = Checked(v)
    BY DEF GrantConsent, UnsubscribeWrite, Checked, Row
<1>2. \A v \in Recipients : v # u => consent_preferences'[v] = consent_preferences[v]
    BY DEF GrantConsent, UnsubscribeWrite, MailInv, MailTypeOK
<1>3. CASE GrantConsent(u)
    <2>1. Consents(u)' /\ UNCHANGED withdrawn
        BY <1>3 DEF GrantConsent, Consents, MailInv, MailTypeOK
    <2> QED BY <1>1, <1>2, <2>1 DEF LateInv, LateMailWasChecked, Consents
<1>4. CASE UnsubscribeWrite(u)
    <2>1. /\ withdrawn'[u].racing = Cardinality(Checked(u)) /\ withdrawn'[u].late = 0
          /\ \A v \in Recipients : v # u => withdrawn'[v] = withdrawn[v]
        BY <1>4 DEF UnsubscribeWrite, MailInv, MailTypeOK
    <2>2. Cardinality(Checked(u)) \in Nat
        BY CheckedIsFinite
    <2> QED BY <1>1, <1>2, <2>1, <2>2 DEF LateInv, LateMailWasChecked, Consents
<1> QED BY <1>3, <1>4

LEMMA CheckConsentKeepsLate ==
    ASSUME MailInv, LateInv, NEW s \in Senders, CheckConsent(s)
    PROVE  LateInv'
<1> DEFINE local == [sender[s] EXCEPT !.pc = IF ConsentOK(UserOf[Row(s)]) THEN "claim" ELSE "suppress"]
<1>1. sender' = [sender EXCEPT ![s] = local] /\ UNCHANGED <<consent_preferences, withdrawn>>
    BY DEF CheckConsent, mailTables
<1>2. /\ local.rows = sender[s].rows
      /\ local.pc = IF ConsentOK(UserOf[Row(s)]) THEN "claim" ELSE "suppress"
    BY DEF MailInv, MailTypeOK
<1>3. /\ sender'[s] = local
      /\ \A t \in Senders : t # s => sender'[t] = sender[t]
    BY <1>1 DEF MailInv, MailTypeOK
<1> HIDE DEF local
<1>4. ASSUME NEW u \in Recipients, ~Consents(u), NEW t \in Senders,
             sender'[t].pc \in {"claim", "send"}, UserOf[Row(t)'] = u
      PROVE  sender[t].pc \in {"claim", "send"} /\ UserOf[Row(t)] = u
    <2>1. Row(t)' = Row(t)
        BY <1>2, <1>3 DEF Row
    <2>2. t # s
        BY <1>2, <1>3, <1>4, <2>1 DEF ConsentOK, Consents
    <2> QED BY <1>3, <1>4, <2>1, <2>2
<1>5. \A u \in Recipients : ~Consents(u) => Checked(u)' \subseteq Checked(u)
    BY <1>4 DEF Checked
<1> QED BY <1>1, <1>5, NobodyPasses

(* The sender that hands a mail over late is no longer one that may.       *)
LEMMA SendKeepsLate ==
    ASSUME MailInv, LateInv, NEW s \in Senders, Send(s)
    PROVE  LateInv'
<1>1. sender[s].pc = "send" /\ Row(s) \in Mails
    BY RowIsMail DEF MailInv, HasRow, Send
<1>2. PICK user \in Recipients : user = UserOf[Row(s)]
    BY <1>1, EmailOutboxAssumption
<1>3. sender' = [sender EXCEPT ![s].pc = "mark"] /\ UNCHANGED consent_preferences
    BY DEF Send, mailTables
<1>4. /\ sender'[s].pc = "mark"
      /\ \A t \in Senders : t # s => sender'[t] = sender[t]
    BY <1>3 DEF MailInv, MailTypeOK
<1>5. \A u \in Recipients : Checked(u)' = Checked(u) \ {s}
    BY <1>4 DEF Checked, Row
<1>6. CASE UNCHANGED withdrawn
    BY <1>3, <1>5, <1>6, NobodyPasses
<1>7. CASE ~Consents(user) /\ withdrawn' = [withdrawn EXCEPT ![user].late = @ + 1]
    <2>1. /\ withdrawn'[user].late = withdrawn[user].late + 1
          /\ withdrawn'[user].racing = withdrawn[user].racing
          /\ \A v \in Recipients : v # user => withdrawn'[v] = withdrawn[v]
        BY <1>7 DEF MailInv, MailTypeOK
    <2>2. /\ Cardinality(Checked(user) \ {s}) = Cardinality(Checked(user)) - 1
          /\ Cardinality(Checked(user) \ {s}) \in Nat
        <3>1. s \in Checked(user)
            BY <1>1, <1>2 DEF Checked
        <3>2. IsFiniteSet(Checked(user)) /\ Cardinality(Checked(user)) \in Nat
            BY CheckedIsFinite
        <3> QED BY <3>1, <3>2, FS_RemoveElement, FS_CardinalityType
    <2>3. /\ withdrawn[user].late \in Nat /\ withdrawn[user].racing \in Nat
          /\ Cardinality(Checked(user)) \in Nat
        BY CheckedIsFinite DEF MailInv, MailTypeOK
    <2>4. withdrawn[user].late + Cardinality(Checked(user)) <= withdrawn[user].racing
        BY <1>7 DEF LateInv
    <2>5. ASSUME NEW v \in Recipients, v # user
          PROVE  /\ withdrawn'[v].late <= withdrawn'[v].racing
                 /\ ~Consents(v) => withdrawn'[v].late + Cardinality(Checked(v)') <= withdrawn'[v].racing
        <3>1. Checked(v)' = Checked(v)
            BY <1>2, <1>5, <2>5 DEF Checked
        <3> QED BY <2>1, <2>5, <3>1 DEF LateInv, LateMailWasChecked
    <2>6. /\ withdrawn'[user].late <= withdrawn'[user].racing
          /\ withdrawn'[user].late + Cardinality(Checked(user)') <= withdrawn'[user].racing
        <3>1. Cardinality(Checked(user)') = Cardinality(Checked(user) \ {s})
            BY <1>5
        <3> DEFINE before == Cardinality(Checked(user))
                   after == Cardinality(Checked(user) \ {s})
        <3>2. before \in Nat /\ after \in Nat /\ after = before - 1
            BY <2>2, <2>3
        <3>3. withdrawn[user].late + before <= withdrawn[user].racing
            BY <2>4
        <3> HIDE DEF before, after
        <3>4. /\ withdrawn'[user].late <= withdrawn'[user].racing
              /\ withdrawn'[user].late + after <= withdrawn'[user].racing
            BY <2>1, <2>3, <3>2, <3>3
        <3> QED BY <3>1, <3>4 DEF after
    <2>7. \A v \in Recipients : Consents(v)' <=> Consents(v)
        BY <1>3 DEF Consents
    <2> QED BY <2>5, <2>6, <2>7 DEF LateInv, LateMailWasChecked
<1> QED BY <1>2, <1>6, <1>7 DEF Send, SmtpSend, HandOver, Consents

LEMMA SendersKeepLate ==
    ASSUME MailInv, LateInv, NEW s \in Senders,
           \/ Resolve(s) \/ SelectPending(s) \/ Suppress(s) \/ Claim(s)
           \/ MarkSent(s) \/ SendRaises(s) \/ SenderDies(s)
    PROVE  LateInv'
<1>1. UNCHANGED <<consent_preferences, withdrawn>>
    BY DEF Resolve, SelectPending, Suppress, Claim, MarkSent, SendRaises, SenderDies, mailTables
<1>2. ASSUME \A u \in Recipients : Checked(u)' \subseteq Checked(u) PROVE LateInv'
    BY <1>1, <1>2, NobodyPasses
<1>3. ASSUME NEW local, sender' = [sender EXCEPT ![s] = local], local.pc \notin {"claim", "send"}
      PROVE  LateInv'
    BY <1>2, <1>3, OthersStayChecked
<1>4. IdleSender.pc = "idle" /\ NextRow(s).pc \in {"idle", "check"}
    BY DEF IdleSender, NextRow, At
<1>5. CASE Resolve(s)
    BY <1>3, <1>5 DEF Resolve, At
<1>6. CASE SelectPending(s)
    BY <1>3, <1>4, <1>6 DEF SelectPending, At
<1>7. CASE Suppress(s) \/ MarkSent(s)
    BY <1>3, <1>4, <1>7 DEF Suppress, MarkSent
<1>8. CASE Claim(s)
    <2>1. CASE ~IsPending(Row(s))
        BY <1>3, <1>4, <1>8, <2>1 DEF Claim
    <2>2. CASE IsPending(Row(s))
        <3> DEFINE local == [sender[s] EXCEPT !.pc = "send"]
        <3>1. sender' = [sender EXCEPT ![s] = local] /\ sender[s].pc = "claim"
            BY <1>8, <2>2 DEF Claim
        <3>2. local.rows = sender[s].rows
            BY DEF MailInv, MailTypeOK
        <3> HIDE DEF local
        <3> QED BY <1>2, <3>1, <3>2, OthersStayChecked
    <2> QED BY <2>1, <2>2
<1>9. CASE SendRaises(s) \/ SenderDies(s)
    BY <1>3, <1>4, <1>9 DEF SendRaises, SenderDies
<1> QED BY <1>5, <1>6, <1>7, <1>8, <1>9

LEMMA LateInductive == MailInv /\ LateInv /\ [MailNext]_mailVars => LateInv'
<1> SUFFICES ASSUME MailInv, LateInv, [MailNext]_mailVars PROVE LateInv'
    OBVIOUS
<1>1. ASSUME UNCHANGED <<sender, consent_preferences, withdrawn>> PROVE LateInv'
    BY <1>1, NobodyPasses DEF Checked, Row
<1>2. ASSUME NEW u \in Recipients, UnsubscribeLookup(u) PROVE LateInv'
    BY <1>1, <1>2 DEF UnsubscribeLookup, mailTables
<1>3. CASE SetFlag
    BY <1>1, <1>3 DEF SetFlag
<1>4. ASSUME NEW m \in Mails, QueueCheck(m) \/ QueueInsert(m) PROVE LateInv'
    BY <1>1, <1>4 DEF QueueCheck, QueueInsert, mailTables
<1>5. CASE UNCHANGED mailVars
    BY <1>1, <1>5 DEF mailVars, mailTables
<1> QED BY <1>2, <1>3, <1>4, <1>5, UsersKeepLate, CheckConsentKeepsLate, SendKeepsLate,
           SendersKeepLate DEF MailNext, SenderStep

(* However many senders run, and however often consent is given and        *)
(* withdrawn: since the last withdrawal a user got at most one mail from   *)
(* each sender that had checked before it, and none from any other         *)
(* (unsubscribe of scripts/accounts/consent.py, _consent_ok and            *)
(* send_pending).                                                          *)
THEOREM LateMailIsExplained == MailSpec => []LateMailWasChecked
<1>1. MailInit => LateInv
    <2> SUFFICES ASSUME MailInit PROVE LateInv
        OBVIOUS
    <2>1. \A u \in Recipients : Checked(u) = {} /\ withdrawn[u] = [racing |-> 0, late |-> 0]
        BY DEF MailInit, Checked, IdleSender, At
    <2> QED BY <2>1, FS_EmptySet DEF LateInv, LateMailWasChecked
<1>2. LateInv => LateMailWasChecked
    BY DEF LateInv
<1> QED BY <1>1, <1>2, LateInductive, MailInvariance, PTL DEF MailSpec

-----------------------------------------------------------------------------
LEMMA StepKeepsOutcome == MailInv /\ [MailNext]_mailVars => [RowsKeepOutcome]_mailVars
<1> SUFFICES ASSUME MailInv, MailNext PROVE RowsKeepOutcome
    BY DEF mailVars, mailTables
<1> DEFINE Kept(m) == email_outbox'[m].status = email_outbox[m].status
<1>1. (\A m \in Mails : Kept(m)) => RowsKeepOutcome
    BY DEF RowsKeepOutcome
<1>2. ASSUME NEW m \in Mails, \A n \in Mails : n # m => Kept(n),
             \/ email_outbox[m].status \in {"absent", "pending"}
             \/ email_outbox[m].status = "failed" /\ email_outbox'[m].status = "sent"
      PROVE  RowsKeepOutcome
    BY <1>2 DEF RowsKeepOutcome
<1>3. ASSUME UNCHANGED email_outbox PROVE RowsKeepOutcome
    BY <1>1, <1>3
<1>4. ASSUME NEW u \in Recipients, GrantConsent(u) \/ UnsubscribeLookup(u) \/ UnsubscribeWrite(u)
      PROVE  RowsKeepOutcome
    BY <1>3, <1>4 DEF GrantConsent, UnsubscribeLookup, UnsubscribeWrite, mailTables
<1>5. CASE SetFlag
    BY <1>3, <1>5 DEF SetFlag
<1>6. ASSUME NEW m \in Mails, QueueCheck(m) PROVE RowsKeepOutcome
    BY <1>3, <1>6 DEF QueueCheck, mailTables
<1>7. ASSUME NEW m \in Mails, QueueInsert(m) PROVE RowsKeepOutcome
    <2>1. email_outbox[m].status = "absent"
        BY <1>7 DEF MailInv, QueueingOK, QueueInsert
    <2>2. \A n \in Mails : n # m => Kept(n)
        BY <1>7 DEF QueueInsert, MailInv, MailTypeOK
    <2> QED BY <1>2, <2>1, <2>2
<1>8. ASSUME NEW s \in Senders,
             Resolve(s) \/ SelectPending(s) \/ CheckConsent(s) \/ Send(s) \/ SendRaises(s) \/ SenderDies(s)
      PROVE  RowsKeepOutcome
    BY <1>3, <1>8 DEF Resolve, SelectPending, CheckConsent, Send, SendRaises, SenderDies, mailTables
<1>9. ASSUME NEW s \in Senders, Suppress(s) \/ Claim(s) PROVE RowsKeepOutcome
    <2>1. Row(s) \in Mails
        BY <1>9, RowIsMail DEF MailInv, HasRow, Suppress, Claim
    <2>2. CASE ~IsPending(Row(s))
        BY <1>3, <1>9, <2>2 DEF Suppress, Claim
    <2>3. CASE IsPending(Row(s))
        <3>1. \A n \in Mails : n # Row(s) => Kept(n)
            BY <1>9, <2>1, <2>3 DEF Suppress, Claim, MailInv, MailTypeOK
        <3> QED BY <1>2, <2>1, <2>3, <3>1 DEF IsPending
    <2> QED BY <2>2, <2>3
<1>10. ASSUME NEW s \in Senders, MarkSent(s) PROVE RowsKeepOutcome
    <2>1. Row(s) \in Mails /\ InFlight(s)
        BY <1>10, RowIsMail DEF MailInv, HasRow, MarkSent, InFlight
    <2>2. email_outbox[Row(s)] = [status |-> "failed", adapter |-> sender[s].adapter]
        BY <2>1 DEF MailInv, FlightsOK
    <2>3. email_outbox[Row(s)].status = "failed"
        BY <2>2
    <2>4. /\ email_outbox'[Row(s)].status = "sent"
          /\ \A n \in Mails : n # Row(s) => Kept(n)
        BY <1>10, <2>1 DEF MarkSent, MailInv, MailTypeOK
    <2> QED BY <1>2, <2>1, <2>3, <2>4
<1> QED BY <1>4, <1>5, <1>6, <1>7, <1>8, <1>9, <1>10 DEF MailNext, SenderStep

(* What became of a row is never undone, and a failed row is not retried.  *)
THEOREM OutcomesAreFinal == MailSpec => OutcomeIsFinal
BY MailInvariance, StepKeepsOutcome, PTL DEF MailSpec, OutcomeIsFinal

-----------------------------------------------------------------------------
(* The relay: the rows in hand and the rows updated in the open            *)
(* transaction were POSTed by this relay since it began.                   *)
SentFirst ==
  /\ received \in [Keys -> Nat]
  /\ relay \in [Relays ->
       [pc: {"idle", "post", "update", "commit"}, rows: SUBSET Keys,
        left: SUBSET Umbrellas, group: SUBSET Keys, written: SUBSET Keys]]
  /\ \A r \in Relays : \A k \in relay[r].group \cup relay[r].written : received[k] > 0

RelayInv ==
  /\ SentFirst
  /\ DOMAIN paperclip_outbox \subseteq Keys
  /\ DeliveredWasReceived

LocalRelay ==
  [pc: {"idle", "post", "update", "commit"}, rows: SUBSET Keys,
   left: SUBSET Umbrellas, group: SUBSET Keys, written: SUBSET Keys]

(* A relay that goes to a state whose rows were all received, while no row *)
(* is received less often than before.                                     *)
LEMMA SentFirstStep ==
  ASSUME SentFirst, NEW r \in Relays, NEW local \in LocalRelay,
         relay' = [relay EXCEPT ![r] = local],
         received' \in [Keys -> Nat],
         \A k \in Keys : received'[k] >= received[k],
         \A k \in local.group \cup local.written : received'[k] > 0
  PROVE  SentFirst'
<1>1. relay' \in [Relays -> LocalRelay]
  BY DEF SentFirst, LocalRelay
<1>2. ASSUME NEW s \in Relays, NEW k \in relay'[s].group \cup relay'[s].written
      PROVE  received'[k] > 0
  <2>1. CASE s = r
    BY <1>2, <2>1 DEF SentFirst
  <2>2. CASE s # r
    <3>1. relay'[s] = relay[s] /\ relay[s] \in LocalRelay
      BY <2>2 DEF SentFirst, LocalRelay
    <3>2. k \in Keys /\ received[k] > 0
      BY <1>2, <3>1 DEF SentFirst, LocalRelay
    <3>3. received[k] \in Nat /\ received'[k] \in Nat /\ received'[k] >= received[k]
      BY <3>2 DEF SentFirst
    <3> QED BY <3>2, <3>3
  <2> QED BY <2>1, <2>2
<1> QED BY <1>1, <1>2 DEF SentFirst, LocalRelay

LEMMA ReceiveCounts ==
  ASSUME SentFirst, NEW rows \in SUBSET Keys, Receive(rows)
  PROVE  /\ received' \in [Keys -> Nat]
         /\ \A k \in Keys : received'[k] >= received[k]
         /\ \A k \in rows : received'[k] > 0
<1>1. \A k \in Keys : received[k] \in Nat
  BY DEF SentFirst
<1>2. received' = [k \in Keys |-> received[k] + (IF k \in rows THEN 1 ELSE 0)]
  BY DEF Receive
<1>3. \A k \in Keys : received'[k] = received[k] + (IF k \in rows THEN 1 ELSE 0)
  BY <1>2
<1>4. \A k \in Keys : received'[k] \in Nat /\ received'[k] >= received[k]
  BY <1>1, <1>3
<1> QED BY <1>1, <1>2, <1>3, <1>4

(* What a POST carries are the snapshot's rows of one umbrella.            *)
LEMMA GroupIsRows ==
  ASSUME SentFirst, NEW r \in Relays, NEW u
  PROVE  Group(r, u) \in SUBSET Keys
BY DEF SentFirst, Group

LEMMA IdleRelayIsLocal == Idle \in LocalRelay /\ Idle.group = {} /\ Idle.written = {}
BY DEF Idle, LocalRelay

LEMMA AbortSends ==
  ASSUME SentFirst, NEW r \in Relays, Fail(r)
  PROVE  /\ SentFirst' /\ UNCHANGED paperclip_outbox
         /\ \A k \in Keys : received'[k] >= received[k]
<1>1. relay' = [relay EXCEPT ![r] = Idle] /\ UNCHANGED paperclip_outbox
  BY DEF Fail, PostFails, LockTimeout, Kill, Abort
<1>2. /\ received' \in [Keys -> Nat]
      /\ \A k \in Keys : received'[k] >= received[k]
  <2>1. ASSUME UNCHANGED received
        PROVE  /\ received' \in [Keys -> Nat]
               /\ \A k \in Keys : received'[k] >= received[k]
    BY <2>1 DEF SentFirst
  <2>2. ASSUME NEW u, Receive(Group(r, u))
        PROVE  /\ received' \in [Keys -> Nat]
               /\ \A k \in Keys : received'[k] >= received[k]
    BY <2>2, GroupIsRows, ReceiveCounts
  <2> QED BY <2>1, <2>2 DEF Fail, PostFails, LockTimeout, Kill
<1> QED BY <1>1, <1>2, IdleRelayIsLocal, SentFirstStep

LEMMA RelaySends ==
  ASSUME SentFirst, DOMAIN paperclip_outbox \subseteq Keys,
         NEW r \in Relays, Relay(r)
  PROVE  /\ SentFirst'
         /\ \A k \in Keys : received'[k] >= received[k]
         /\ \/ UNCHANGED paperclip_outbox
            \/ paperclip_outbox' = [k \in DOMAIN paperclip_outbox |->
                 IF k \in relay[r].written THEN "delivered" ELSE paperclip_outbox[k]]
<1>1. /\ relay[r] \in LocalRelay /\ received \in [Keys -> Nat]
      /\ \A k \in relay[r].group \cup relay[r].written : received[k] > 0
      /\ \A k \in Keys : received[k] >= received[k]
  BY DEF SentFirst, LocalRelay
<1>2. CASE Start(r)
  <2>1. Pending \subseteq Keys
    BY DEF Pending
  <2>2. {UmbrellaOf[k] : k \in Pending} \subseteq Umbrellas
    BY <2>1, OutboxRelayAssumption
  <2> DEFINE local == [Idle EXCEPT !.pc = "post", !.rows = Pending,
                         !.left = {UmbrellaOf[k] : k \in Pending}]
  <2>3. local \in LocalRelay /\ local.group = {} /\ local.written = {}
    BY <2>1, <2>2 DEF Idle, LocalRelay
  <2>4. relay' = [relay EXCEPT ![r] = local] /\ UNCHANGED <<received, paperclip_outbox>>
    BY <1>2 DEF Start
  <2> HIDE DEF local
  <2> QED BY <1>1, <2>3, <2>4, SentFirstStep
<1>3. CASE Post(r)
  <2>1. PICK u : /\ Receive(Group(r, u)) /\ UNCHANGED paperclip_outbox
                 /\ relay' = [relay EXCEPT ![r].pc = "update", ![r].group = Group(r, u),
                                           ![r].left = @ \ {u}]
    BY <1>3 DEF Post
  <2> DEFINE local == [relay[r] EXCEPT !.pc = "update", !.group = Group(r, u),
                                       !.left = @ \ {u}]
  <2>2. /\ local \in LocalRelay
        /\ local.group = Group(r, u) /\ local.written = relay[r].written
    BY <1>1, GroupIsRows DEF LocalRelay
  <2>3. relay' = [relay EXCEPT ![r] = local]
    BY <2>1 DEF SentFirst
  <2> HIDE DEF local
  <2>4. /\ received' \in [Keys -> Nat]
        /\ \A k \in Keys : received'[k] >= received[k]
        /\ \A k \in Group(r, u) : received'[k] > 0
    BY <2>1, GroupIsRows, ReceiveCounts
  <2>5. \A k \in relay[r].written : received'[k] > 0
    <3>1. \A k \in relay[r].written : k \in Keys /\ received[k] > 0
      BY <1>1 DEF LocalRelay
    <3>2. \A k \in Keys : received[k] \in Nat /\ received'[k] \in Nat
      BY <1>1, <2>4
    <3> QED BY <2>4, <3>1, <3>2
  <2> QED BY <2>1, <2>2, <2>3, <2>4, <2>5, SentFirstStep
<1>4. CASE Update(r)
  <2> DEFINE local == [relay[r] EXCEPT
                 !.pc = IF relay[r].left = {} THEN "commit" ELSE "post",
                 !.written = @ \cup relay[r].group, !.group = {}]
  <2>1. /\ local \in LocalRelay /\ local.group = {}
        /\ local.written = relay[r].written \cup relay[r].group
    BY <1>1 DEF LocalRelay
  <2>2. relay' = [relay EXCEPT ![r] = local] /\ UNCHANGED <<received, paperclip_outbox>>
    BY <1>4 DEF Update, SentFirst
  <2> HIDE DEF local
  <2> QED BY <1>1, <2>1, <2>2, SentFirstStep
<1>5. CASE Commit(r)
  <2>1. /\ relay' = [relay EXCEPT ![r] = Idle] /\ UNCHANGED received
        /\ paperclip_outbox' = [k \in DOMAIN paperclip_outbox |->
             IF k \in relay[r].written THEN "delivered" ELSE paperclip_outbox[k]]
    BY <1>5 DEF Commit
  <2> QED BY <1>1, <2>1, IdleRelayIsLocal, SentFirstStep
<1> QED BY <1>2, <1>3, <1>4, <1>5 DEF Relay

LEMMA RelayInductive == RelayInv /\ [Next]_vars => RelayInv'
<1> SUFFICES ASSUME RelayInv, [Next]_vars PROVE RelayInv'
  OBVIOUS
<1>1. SentFirst /\ DOMAIN paperclip_outbox \subseteq Keys
  BY DEF RelayInv
<1>2. ASSUME NEW k \in Keys, WriteOutboxRow(k) PROVE RelayInv'
  <2>1. UNCHANGED <<received, relay>>
    BY <1>2 DEF WriteOutboxRow
  <2>2. /\ DOMAIN paperclip_outbox' = DOMAIN paperclip_outbox \cup {k}
        /\ \A i \in DOMAIN paperclip_outbox' :
             paperclip_outbox'[i] = IF i \in DOMAIN paperclip_outbox
                                      THEN paperclip_outbox[i] ELSE "pending"
    BY <1>2 DEF WriteOutboxRow
  <2> QED BY <1>1, <2>1, <2>2 DEF RelayInv, SentFirst, DeliveredWasReceived
<1>3. ASSUME UNCHANGED paperclip_outbox, SentFirst',
             \A k \in Keys : received'[k] >= received[k]
      PROVE  RelayInv'
  <2>1. \A k \in Keys : received[k] \in Nat /\ received'[k] \in Nat
    BY <1>1, <1>3 DEF SentFirst
  <2> QED BY <1>1, <1>3, <2>1 DEF RelayInv, DeliveredWasReceived
<1>4. ASSUME NEW r \in Relays, Fail(r) PROVE RelayInv'
  BY <1>1, <1>3, <1>4, AbortSends
<1>5. ASSUME NEW r \in Relays, Relay(r) PROVE RelayInv'
  <2>1. /\ SentFirst'
        /\ \A k \in Keys : received'[k] >= received[k]
        /\ \/ UNCHANGED paperclip_outbox
           \/ paperclip_outbox' = [k \in DOMAIN paperclip_outbox |->
                IF k \in relay[r].written THEN "delivered" ELSE paperclip_outbox[k]]
    BY <1>1, <1>5, RelaySends
  <2>2. CASE paperclip_outbox' = [k \in DOMAIN paperclip_outbox |->
                IF k \in relay[r].written THEN "delivered" ELSE paperclip_outbox[k]]
    <3>1. ASSUME NEW k \in DOMAIN paperclip_outbox', paperclip_outbox'[k] = "delivered"
          PROVE  received[k] > 0
      <4>1. k \in DOMAIN paperclip_outbox
        BY <2>2, <3>1
      <4>2. k \in relay[r].written \/ paperclip_outbox[k] = "delivered"
        BY <2>2, <3>1, <4>1
      <4> QED BY <1>1, <4>1, <4>2 DEF RelayInv, SentFirst, DeliveredWasReceived
    <3>2. \A k \in Keys : received[k] \in Nat /\ received'[k] \in Nat
      BY <1>1, <2>1 DEF SentFirst
    <3>3. DOMAIN paperclip_outbox' = DOMAIN paperclip_outbox
      BY <2>2
    <3> QED BY <1>1, <2>1, <3>1, <3>2, <3>3 DEF RelayInv, DeliveredWasReceived
  <2> QED BY <1>3, <2>1, <2>2
<1>6. CASE UNCHANGED vars
  BY <1>6 DEF vars, RelayInv, SentFirst, DeliveredWasReceived
<1> QED BY <1>2, <1>4, <1>5, <1>6 DEF Next

LEMMA RelayInvariance == Spec => []RelayInv
<1>1. Init => RelayInv
  BY DEF Init, Idle, RelayInv, SentFirst, DeliveredWasReceived
<1> QED BY <1>1, RelayInductive, PTL DEF Spec

(* Whatever relays overlap, fail or are killed: a row is marked delivered  *)
(* only after a POST carried it, also a row another writer added while the *)
(* relay was talking to Paperclip (relay of scripts/paperclip_outbox.py).  *)
THEOREM DeliveredRowsWereSent == Spec => []DeliveredWasReceived
<1>1. RelayInv => DeliveredWasReceived
  BY DEF RelayInv
<1> QED BY <1>1, RelayInvariance, PTL

(* What the types say beyond RelayInv: the states of the rows, the lock and *)
(* the bound on failures.                                                  *)
RowsAndLock ==
  /\ \A k \in DOMAIN paperclip_outbox : paperclip_outbox[k] \in {"pending", "delivered"}
  /\ lock \in Relays \cup {NoRelay}
  /\ failures \in 0..MaxFailures

LEMMA RowsAndLockStay == RowsAndLock /\ [Next]_vars => RowsAndLock'
<1> SUFFICES ASSUME RowsAndLock, [Next]_vars PROVE RowsAndLock'
  OBVIOUS
<1>1. ASSUME NEW k \in Keys, WriteOutboxRow(k) PROVE RowsAndLock'
  BY <1>1 DEF WriteOutboxRow, RowsAndLock
<1>2. ASSUME NEW r \in Relays, Fail(r) PROVE RowsAndLock'
  <2>1. MaxFailures \in Nat
    BY OutboxRelayAssumption
  <2>2. Abort(r)
    BY <1>2 DEF Fail, PostFails, LockTimeout, Kill
  <2> QED BY <2>1, <2>2 DEF Abort, RowsAndLock
<1>3. ASSUME NEW r \in Relays, Relay(r) PROVE RowsAndLock'
  <2>1. CASE Start(r) \/ Post(r) \/ Update(r)
    BY <2>1 DEF Start, Post, Update, RowsAndLock
  <2>2. CASE Commit(r)
    BY <2>2 DEF Commit, RowsAndLock
  <2> QED BY <1>3, <2>1, <2>2 DEF Relay
<1>4. CASE UNCHANGED vars
  BY <1>4 DEF vars, RowsAndLock
<1> QED BY <1>1, <1>2, <1>3, <1>4 DEF Next

(* The outbox, the write lock and what a relay carries along keep their    *)
(* types (write_outbox_row and relay of scripts/paperclip_outbox.py).      *)
THEOREM RelayTypes == Spec => []TypeOK
<1>1. Init => RowsAndLock
  <2>1. MaxFailures \in Nat
    BY OutboxRelayAssumption
  <2> QED BY <2>1 DEF Init, RowsAndLock
<1>2. RelayInv /\ RowsAndLock => TypeOK
  BY DEF RelayInv, SentFirst, RowsAndLock, TypeOK
<1> QED BY <1>1, <1>2, RelayInvariance, RowsAndLockStay, PTL DEF Spec
=============================================================================
