--------------------------- MODULE RecordsProofs ---------------------------
(***************************************************************************)
(* Proofs about Records for any number of statements, runs, reviewers and  *)
(* decisions.                                                              *)
(***************************************************************************)
EXTENDS Records, FiniteSetTheorems, WellFoundedInduction, TLAPS

Statuses == REVIEWED \cup {"absent", "machine_extracted_unreviewed", "disputed", "do_not_publish"}
Decisions == {"approved", "corrected", "disputed", "hold", "rejected"}

Row == [status : Statuses, review : {"unreviewed", "reviewed", "in_review"},
        correction : {"none", "corrected"},
        publication : {"not_publishable", "publishable"},
        run : Extractions \cup {"none"}, anchor : Items \cup {NoItem}]
DecisionRow == [s : Statements, reviewer : Reviewers, decision : Decisions,
                from : Statuses, to : Statuses, correction : {"none", "corrected"},
                at : Nat, after : Nat]

(* The tables keep their types, and a reviewer's desk holds his own work.  *)
TypeOK ==
    /\ clock \in Nat
    /\ row \in [Statements -> Row]
    /\ registry = [r \in Reviewers |-> registry[r]]
    /\ decisions \in Seq(DecisionRow)
    /\ desk \in [Reviewers -> DecisionRow \cup {Idle}]
    /\ \A r \in Reviewers : desk[r] # Idle => desk[r].reviewer = r
    /\ anchoring \subseteq Statements

-----------------------------------------------------------------------------
(* A finite set is laid out as a sequence, each of its members once.       *)
LEMMA LaidOut ==
    ASSUME NEW S, IsFiniteSet(S)
    PROVE  /\ SetToSeq(S) \in Seq(S)
           /\ Len(SetToSeq(S)) = Cardinality(S)
           /\ Cardinality(S) \in Nat
           /\ \A i, j \in DOMAIN SetToSeq(S) : SetToSeq(S)[i] = SetToSeq(S)[j] => i = j
           /\ \A x \in S : \E i \in DOMAIN SetToSeq(S) : SetToSeq(S)[i] = x
<1> DEFINE n == Cardinality(S)
           q == SetToSeq(S)
<1>1. n \in Nat /\ ExistsBijection(1..n, S)
    BY FS_CardinalityType
<1>2. PICK f \in Bijection(1..n, S) : TRUE
    BY <1>1 DEF ExistsBijection
<1>3. f \in [1..n -> S] /\ IsInjective(f)
    BY <1>2 DEF Bijection, Injection, IsInjective
<1>4. q \in [1..n -> S] /\ IsInjective(q)
    BY <1>3 DEF SetToSeq
<1> HIDE DEF q
<1>5. q \in Injection(1..n, S)
    BY <1>4 DEF Injection, IsInjective
<1>6. Cardinality(1..n) = n
    BY <1>1, FS_Interval
<1>7. q \in Surjection(1..n, S)
    <2> HIDE DEF n
    <2>1. n = Cardinality(S)
        BY DEF n
    <2> QED BY <1>5, <1>6, <2>1, FS_Injection
<1>8. \A x \in S : \E i \in 1..n : q[i] = x
    BY <1>7 DEF Surjection
<1>9. DOMAIN q = 1..n /\ \A i, j \in 1..n : q[i] = q[j] => i = j
    BY <1>4 DEF IsInjective
<1>10. q \in Seq(S) /\ Len(q) = n
    BY <1>1, <1>4
<1> QED BY <1>1, <1>8, <1>9, <1>10 DEF q

LEMMA DecisionTyped ==
    ASSUME TypeOK, NEW r \in Reviewers, NEW s \in Statements, NEW d \in Decisions,
           NEW to \in REVIEWED, NEW stamp \in Nat
    PROVE  /\ Decision(r, s, d, to, stamp) \in DecisionRow
           /\ Decision(r, s, d, to, stamp).s = s
           /\ Decision(r, s, d, to, stamp).reviewer = r
           /\ Decision(r, s, d, to, stamp).decision = d
           /\ Decision(r, s, d, to, stamp).at = stamp
<1>1. row[s] \in Row
    BY DEF TypeOK
<1>2. target_status(row[s].status, d, to) \in Statuses
    BY <1>1 DEF target_status, Decisions, PROMOTING_DECISIONS, Statuses, Row
<1>3. Len(decisions) \in Nat
    BY DEF TypeOK
<1> QED BY <1>1, <1>2, <1>3 DEF Decision, DecisionRow, Row

LEMMA DecidedTyped ==
    ASSUME NEW old \in Row, NEW d \in DecisionRow
    PROVE  Decided(old, d) \in Row /\ Decided(old, d).anchor = old.anchor
BY DEF Decided, Row, DecisionRow

(* What the batch tool appends: one decision of isaac's for each entry that*)
(* has not been applied, all with the time of the batch, and one statement *)
(* changed by each.                                                        *)
Entry(d) == Decision(BatchReviewer, d.s, d.decision, "reviewed_source_linked", clock + 1)
Carried(d) ==
    /\ d.s \in Known /\ d.decision \in Decisions
    /\ d = Entry(d)
    /\ MayDecide(d.s, d.decision)
    /\ row'[d.s].status = d.to /\ row'[d.s].correction = d.correction

LEMMA EntryChanges ==
    ASSUME NEW old \in Row, NEW d \in DecisionRow, NEW anchor
    PROVE  /\ [Decided(old, d) EXCEPT !.anchor = anchor].status = d.to
           /\ [Decided(old, d) EXCEPT !.anchor = anchor].correction = d.correction
BY DEF Decided, Row

LEMMA Batch ==
    ASSUME TypeOK, NEW plan \in [Statements -> Asked \cup {"no_entry"}],
           NEW carrying \in SUBSET Known, NEW item \in Items,
           ApplyPromotions(plan, carrying, item)
    PROVE  \E made \in Seq(DecisionRow) :
               /\ decisions' = decisions \o made /\ made # <<>>
               /\ \A i \in DOMAIN made : made[i].reviewer = BatchReviewer /\ made[i].at = clock + 1
               /\ \A i \in DOMAIN made : Carried(made[i])
               /\ \A i, j \in DOMAIN made : made[i].s = made[j].s => i = j
               /\ \A s \in Statements :
                      (\A i \in DOMAIN made : made[i].s # s) => row'[s] = row[s]
<1> DEFINE entries == {s \in Statements : plan[s] # "no_entry"}
           todo == {s \in entries : ~_already_applied(s, plan[s])}
           each == [s \in todo |->
                       Decision(BatchReviewer, s, plan[s], "reviewed_source_linked", clock + 1)]
           S == {each[s] : s \in todo}
           anchored(s) == s \in carrying /\ plan[s] \in PROMOTING_DECISIONS
           anchor(s) == IF anchored(s) THEN item ELSE Decided(row[s], each[s]).anchor
           new(s) == [Decided(row[s], each[s]) EXCEPT !.anchor = anchor(s)]
<1>1. /\ todo # {} /\ todo \subseteq Statements
      /\ \A s \in todo : MayDecide(s, plan[s])
      /\ decisions' = decisions \o SetToSeq(S)
      /\ todo \subseteq Known
      /\ row' = [s \in Statements |-> IF s \notin todo THEN row[s] ELSE new(s)]
    <2>1. todo # {}
        BY Zenon DEF ApplyPromotions
    <2>2. todo \subseteq Statements
        OBVIOUS
    <2>3. \A s \in todo : MayDecide(s, plan[s])
        BY Zenon DEF ApplyPromotions
    <2>4. decisions' = decisions \o SetToSeq(S)
        BY Zenon DEF ApplyPromotions
    <2>5. entries \subseteq Known
        BY Zenon DEF ApplyPromotions
    <2>6. row' = [s \in Statements |-> IF s \notin todo THEN row[s] ELSE new(s)]
        BY Zenon DEF ApplyPromotions
    <2> QED BY <2>1, <2>2, <2>3, <2>4, <2>5, <2>6
<1>2. \A s \in todo : plan[s] \in Decisions
    <2>1. Asked \subseteq Decisions
        BY RecordsAssumption DEF Decisions
    <2>2. \A s \in entries : plan[s] \in Asked
        OBVIOUS
    <2> QED BY <2>1, <2>2
<1>3. "reviewed_source_linked" \in REVIEWED
    BY DEF REVIEWED
<1>4. BatchReviewer \in Reviewers
    BY RecordsAssumption
<1>5. clock + 1 \in Nat
    BY DEF TypeOK
<1>6. IsFiniteSet(todo)
    BY <1>1, FS_Subset, RecordsAssumption
<1> HIDE DEF todo
<1>7. \A s \in todo : each[s] = Decision(BatchReviewer, s, plan[s], "reviewed_source_linked", clock + 1)
    OBVIOUS
<1>8. \A s \in todo : s \in Statements /\ plan[s] \in Decisions
    BY <1>1, <1>2
<1>9. each \in Surjection(todo, S)
    BY DEF Surjection
<1> HIDE DEF each
<1>10. ASSUME NEW s \in todo
       PROVE  /\ each[s] \in DecisionRow /\ each[s].s = s
              /\ each[s].reviewer = BatchReviewer
              /\ each[s].decision = plan[s] /\ each[s].at = clock + 1
    BY <1>3, <1>4, <1>5, <1>7, <1>8, DecisionTyped
<1>11. IsFiniteSet(S)
    BY <1>6, <1>9, FS_Surjection
<1>12. S # {} /\ S \subseteq DecisionRow
    BY <1>1, <1>10
<1> DEFINE made == SetToSeq(S)
<1>13. ASSUME NEW s \in todo PROVE Carried(each[s])
    <2> HIDE DEF anchor
    <2>1. row'[s] = new(s)
        BY <1>1, <1>13
    <2>2. row[s] \in Row
        BY <1>8 DEF TypeOK
    <2>3. row'[s].status = each[s].to /\ row'[s].correction = each[s].correction
        BY <1>10, <2>1, <2>2, EntryChanges
    <2>4. each[s] = Entry(each[s])
        BY <1>7, <1>10 DEF Entry
    <2> QED BY <1>1, <1>8, <1>10, <2>3, <2>4 DEF Carried
<1>14. ASSUME NEW x \in S
       PROVE  /\ x.reviewer = BatchReviewer /\ x.at = clock + 1 /\ Carried(x)
              /\ x.s \in todo /\ x = each[x.s]
    <2>1. PICK s \in todo : x = each[s]
        OBVIOUS
    <2> QED BY <1>10, <1>13, <2>1
<1>15. \A s \in Statements : (\A x \in S : x.s # s) => row'[s] = row[s]
    BY <1>1, <1>10
<1> HIDE DEF S
<1>16. /\ made \in Seq(S) /\ Len(made) = Cardinality(S) /\ Cardinality(S) \in Nat
       /\ \A i, j \in DOMAIN made : made[i] = made[j] => i = j
       /\ \A x \in S : \E i \in DOMAIN made : made[i] = x
    BY <1>11, LaidOut
<1>17. Cardinality(S) # 0
    BY <1>11, <1>12, FS_EmptySet
<1>18. decisions' = decisions \o made
    BY <1>1
<1> HIDE DEF made
<1>19. made \in Seq(DecisionRow) /\ made # <<>> /\ \A i \in DOMAIN made : made[i] \in S
    BY <1>12, <1>16, <1>17
<1>20. \A i, j \in DOMAIN made : made[i].s = made[j].s => i = j
    BY <1>14, <1>16, <1>19
<1>21. \A s \in Statements : (\A i \in DOMAIN made : made[i].s # s) => row'[s] = row[s]
    BY <1>15, <1>16
<1> QED BY <1>14, <1>18, <1>19, <1>20, <1>21

-----------------------------------------------------------------------------
(* A decision that passed the gate, now or with time to come.              *)
Gated(d) ==
    /\ d.at <= clock
    /\ d.decision \in PROMOTING_DECISIONS => \A f \in flags : f.s = d.s => d.at <= f.at
    /\ registry[d.reviewer].status = "revoked" => d.at <= registry[d.reviewer].at

GateInv ==
    /\ \A i \in DOMAIN decisions : Gated(decisions[i])
    /\ \A r \in Reviewers : desk[r] # Idle => Gated(desk[r])

Inv == TypeOK /\ GateInv

(* A flag is raised, and a reviewer revoked, at the present: whatever has  *)
(* passed the gate passed it no later.                                     *)
LEMMA GatedStays ==
    ASSUME TypeOK, [Next]_vars, NEW d \in DecisionRow, Gated(d)
    PROVE  Gated(d)'
<1>1. d.at \in Nat /\ d.reviewer \in Reviewers /\ clock \in Nat
    BY DEF DecisionRow, TypeOK
<1>2. clock' = clock \/ clock' = clock + 1
    BY DEF Next, run_extraction, run_risk, register_reviewer, revoke_reviewer, Consider,
        promote_statement, resolve_flag, ApplyPromotions, _assert_source_unchanged,
        ApplyAnchors, OwnerPublishes, vars
<1>3. \A f \in flags' : f \in flags \/ f.at = clock
    <2>1. ASSUME NEW k \in Scans, NEW scanned, run_risk(k, scanned)
          PROVE  \A f \in flags' : f \in flags \/ f.at = clock
        BY <2>1 DEF run_risk
    <2>2. CASE flags' \subseteq flags
        BY <2>2
    <2> QED BY <2>1, <2>2 DEF Next, run_extraction, register_reviewer, revoke_reviewer, Consider,
            promote_statement, resolve_flag, ApplyPromotions, _assert_source_unchanged,
            ApplyAnchors, OwnerPublishes, vars
<1>4. \A r \in Reviewers : \/ registry'[r] = registry[r]
                           \/ registry'[r].status = "active"
                           \/ registry'[r].at = clock
    <2>1. CASE registry' = registry
        BY <2>1
    <2>2. ASSUME NEW x \in Reviewers, register_reviewer(x) \/ revoke_reviewer(x)
          PROVE  \A r \in Reviewers : \/ registry'[r] = registry[r]
                                     \/ registry'[r].status = "active"
                                     \/ registry'[r].at = clock
        <3>1. CASE register_reviewer(x)
            <4>1. registry' = [registry EXCEPT ![x] = [status |-> "active", at |-> 0]]
                BY <3>1 DEF register_reviewer
            <4>2. registry = [r \in Reviewers |-> registry[r]]
                BY DEF TypeOK
            <4>3. \A r \in Reviewers :
                     registry'[r] = IF r = x THEN [status |-> "active", at |-> 0] ELSE registry[r]
                BY <4>1, <4>2
            <4> QED BY <4>3
        <3>2. CASE revoke_reviewer(x)
            <4>1. registry' = [registry EXCEPT ![x] = [status |-> "revoked", at |-> clock]]
                BY <3>2 DEF revoke_reviewer
            <4>2. registry = [r \in Reviewers |-> registry[r]]
                BY DEF TypeOK
            <4>3. \A r \in Reviewers :
                     registry'[r] = IF r = x THEN [status |-> "revoked", at |-> clock] ELSE registry[r]
                BY <4>1, <4>2
            <4> QED BY <4>3
        <3> QED BY <2>2, <3>1, <3>2
    <2> QED BY <2>1, <2>2 DEF Next, run_extraction, run_risk, Consider, promote_statement,
            resolve_flag, ApplyPromotions, _assert_source_unchanged, ApplyAnchors,
            OwnerPublishes, vars
<1> QED BY <1>1, <1>2, <1>3, <1>4 DEF Gated

(* What may be decided now, by a registered reviewer, passes the gate.     *)
LEMMA NowGated ==
    ASSUME TypeOK, NEW d \in DecisionRow, MayDecide(d.s, d.decision),
           is_registered_reviewer(d.reviewer), d.at = clock + 1,
           clock' = clock + 1, UNCHANGED <<flags, registry>>
    PROVE  Gated(d)'
<1>1. clock + 1 \in Nat
    BY DEF TypeOK
<1>2. d.decision \in PROMOTING_DECISIONS => ~\E f \in flags : f.s = d.s
    BY DEF MayDecide, open_risk_flags
<1> QED BY <1>1, <1>2 DEF Gated, is_registered_reviewer

(* The batch leaves every row a row.                                       *)
LEMMA BatchRows ==
    ASSUME TypeOK, NEW plan \in [Statements -> Asked \cup {"no_entry"}],
           NEW carrying \in SUBSET Known, NEW item \in Items,
           ApplyPromotions(plan, carrying, item)
    PROVE  row' \in [Statements -> Row]
<1> DEFINE entries == {s \in Statements : plan[s] # "no_entry"}
           todo == {s \in entries : ~_already_applied(s, plan[s])}
           each == [s \in todo |->
                       Decision(BatchReviewer, s, plan[s], "reviewed_source_linked", clock + 1)]
           anchored(s) == s \in carrying /\ plan[s] \in PROMOTING_DECISIONS
           new(s) == [Decided(row[s], each[s]) EXCEPT !.anchor = IF anchored(s) THEN item ELSE @]
<1>1. row' = [s \in Statements |-> IF s \notin todo THEN row[s] ELSE new(s)]
    BY Zenon DEF ApplyPromotions
<1>2. ASSUME NEW s \in Statements, s \in todo PROVE new(s) \in Row
    <2>1. plan[s] \in Decisions
        BY <1>2, RecordsAssumption DEF Decisions
    <2>2. "reviewed_source_linked" \in REVIEWED /\ BatchReviewer \in Reviewers
        BY RecordsAssumption DEF REVIEWED
    <2>3. clock + 1 \in Nat /\ row[s] \in Row
        BY DEF TypeOK
    <2>4. each[s] \in DecisionRow
        <3>1. each[s] = Decision(BatchReviewer, s, plan[s], "reviewed_source_linked", clock + 1)
            BY <1>2
        <3> HIDE DEF each, todo
        <3> QED BY <2>1, <2>2, <2>3, <3>1, DecisionTyped
    <2> HIDE DEF each, todo
    <2>5. Decided(row[s], each[s]) \in Row
        BY <2>3, <2>4, DecidedTyped
    <2> QED BY <2>5 DEF Row
<1> HIDE DEF todo, new
<1> QED BY <1>1, <1>2 DEF TypeOK

LEMMA InvStep == Inv /\ [Next]_vars => Inv'
<1> SUFFICES ASSUME Inv, [Next]_vars PROVE Inv'
    OBVIOUS
<1>t. TypeOK
    BY DEF Inv
<1>g. GateInv
    BY DEF Inv
<1>1. /\ \A i \in DOMAIN decisions : decisions[i] \in DecisionRow
      /\ \A r \in Reviewers : desk[r] # Idle => desk[r] \in DecisionRow
    BY <1>t DEF TypeOK
<1>2. /\ \A i \in DOMAIN decisions : Gated(decisions[i]) /\ (\A d : d = decisions[i] => Gated(d)')
      /\ \A r \in Reviewers : desk[r] # Idle => \A d : d = desk[r] => Gated(d)'
    BY <1>1, <1>t, <1>g, GatedStays DEF GateInv
<1>3. ASSUME decisions' = decisions, \A r \in Reviewers : desk'[r] = desk[r] \/ desk'[r] = Idle
      PROVE  GateInv'
    BY <1>2, <1>3 DEF GateInv, Gated
<1>4. ASSUME UNCHANGED <<decisions, desk>>, clock' = clock, row' \in [Statements -> Row],
             registry' = [r \in Reviewers |-> registry'[r]], anchoring' \subseteq Statements
      PROVE  Inv'
    BY <1>t, <1>3, <1>4 DEF Inv, TypeOK
<1>5. ASSUME NEW r \in Extractions, run_extraction(r) PROVE Inv'
    <2>1. _bind_ai_fields(r) \in Row
        BY DEF _bind_ai_fields, Absent, Row, Statuses
    <2>2. ASSUME row' = row PROVE row' \in [Statements -> Row]
        BY <1>t, <2>2 DEF TypeOK
    <2>3. ASSUME row' # row PROVE row' \in [Statements -> Row]
        <3>1. PICK S \in SUBSET Statements :
                 row' = [s \in Statements |-> IF s \in S THEN _bind_ai_fields(r) ELSE row[s]]
            BY <1>5, <2>3 DEF run_extraction
        <3> QED BY <1>t, <2>1, <3>1 DEF TypeOK
    <2>4. row' \in [Statements -> Row]
        BY <2>2, <2>3
    <2> QED BY <1>4, <1>5, <1>t, <2>4 DEF run_extraction, TypeOK
<1>6. ASSUME NEW r \in Scans, NEW scanned, run_risk(r, scanned) PROVE Inv'
    BY <1>4, <1>6, <1>t DEF run_risk, TypeOK
<1>7. ASSUME NEW r \in Reviewers, register_reviewer(r) \/ revoke_reviewer(r) PROVE Inv'
    BY <1>4, <1>7, <1>t DEF register_reviewer, revoke_reviewer, TypeOK
<1>8. ASSUME NEW r \in Reviewers, NEW f \in flags, resolve_flag(r, f) PROVE Inv'
    BY <1>4, <1>8, <1>t DEF resolve_flag, TypeOK
<1>9. ASSUME NEW r \in Reviewers, Consider(r) PROVE Inv'
    <2>1. PICK s \in Known, decision \in Asked, to \in Targets :
             /\ MayDecide(s, decision)
             /\ desk' = [desk EXCEPT ![r] = Decision(r, s, decision, to, clock + 1)]
        BY <1>9 DEF Consider
    <2>2. /\ s \in Statements /\ decision \in Decisions /\ to \in REVIEWED /\ clock + 1 \in Nat
        BY <1>t, RecordsAssumption DEF Known, Decisions, REVIEWED, TypeOK
    <2> DEFINE d == Decision(r, s, decision, to, clock + 1)
    <2>3. d \in DecisionRow /\ d.s = s /\ d.reviewer = r /\ d.decision = decision /\ d.at = clock + 1
        BY <1>t, <2>2, DecisionTyped
    <2> HIDE DEF d
    <2>4. /\ clock' = clock + 1 /\ is_registered_reviewer(r)
          /\ UNCHANGED <<row, flags, registry, decisions, anchoring>>
        BY <1>9 DEF Consider
    <2>5. \A e : e = d => Gated(e)'
        BY <1>t, <2>1, <2>3, <2>4, NowGated
    <2>6. /\ desk'[r] = d
          /\ \A x \in Reviewers : x # r => desk'[x] = desk[x]
          /\ desk' \in [Reviewers -> DecisionRow \cup {Idle}]
        BY <1>t, <2>1, <2>3 DEF TypeOK, d
    <2>7. TypeOK'
        BY <1>t, <2>2, <2>3, <2>4, <2>6 DEF TypeOK
    <2>8. GateInv'
        BY <1>2, <2>4, <2>5, <2>6 DEF GateInv, Gated
    <2> QED BY <2>7, <2>8 DEF Inv
<1>10. ASSUME NEW r \in Reviewers, promote_statement(r) PROVE Inv'
    <2> DEFINE d == desk[r]
    <2>1. /\ d # Idle /\ d \in DecisionRow /\ UNCHANGED <<registry, clock, anchoring>>
          /\ desk' = [desk EXCEPT ![r] = Idle]
          /\ \/ UNCHANGED <<row, decisions>>
             \/ decisions' = Append(decisions, d) /\ row' = [row EXCEPT ![d.s] = Decided(@, d)]
        BY <1>1, <1>10 DEF promote_statement
    <2>2. \A x : x = d => Gated(x)'
        BY <1>2, <2>1
    <2> HIDE DEF d
    <2>3. /\ desk' \in [Reviewers -> DecisionRow \cup {Idle}]
          /\ \A x \in Reviewers : desk'[x] = desk[x] \/ desk'[x] = Idle
        BY <1>t, <2>1 DEF TypeOK
    <2>4. CASE UNCHANGED <<row, decisions>>
        BY <1>t, <1>3, <2>1, <2>3, <2>4 DEF Inv, TypeOK
    <2>5. CASE decisions' = Append(decisions, d) /\ row' = [row EXCEPT ![d.s] = Decided(@, d)]
        <3>1. d.s \in Statements /\ row[d.s] \in Row
            BY <1>t, <2>1 DEF DecisionRow, TypeOK
        <3>2. Decided(row[d.s], d) \in Row
            BY <2>1, <3>1, DecidedTyped
        <3>3. row' \in [Statements -> Row]
            BY <1>t, <2>5, <3>1, <3>2 DEF TypeOK
        <3>4. /\ decisions' \in Seq(DecisionRow)
              /\ \A i \in DOMAIN decisions' :
                     decisions'[i] = d \/ (i \in DOMAIN decisions /\ decisions'[i] = decisions[i])
            BY <1>t, <2>1, <2>5 DEF TypeOK
        <3>5. TypeOK'
            BY <1>t, <2>1, <2>3, <3>3, <3>4 DEF TypeOK
        <3>6. GateInv'
            BY <1>2, <2>2, <2>3, <3>4 DEF GateInv, Gated
        <3> QED BY <3>5, <3>6 DEF Inv
    <2> QED BY <2>1, <2>4, <2>5
<1>11. ASSUME NEW plan \in [Statements -> Asked \cup {"no_entry"}], NEW carrying \in SUBSET Known,
              NEW item \in Items, ApplyPromotions(plan, carrying, item)
       PROVE  Inv'
    <2>1. PICK made \in Seq(DecisionRow) :
              /\ decisions' = decisions \o made
              /\ \A i \in DOMAIN made :
                     /\ made[i].reviewer = BatchReviewer /\ made[i].at = clock + 1
                     /\ MayDecide(made[i].s, made[i].decision)
        BY <1>t, <1>11, Batch DEF Carried
    <2>2. /\ clock' = clock + 1 /\ is_registered_reviewer(BatchReviewer)
          /\ UNCHANGED <<flags, registry, desk, anchoring>>
        BY <1>11 DEF ApplyPromotions
    <2>3. row' \in [Statements -> Row]
        BY <1>t, <1>11, BatchRows
    <2>4. \A i \in DOMAIN made : made[i] \in DecisionRow
        OBVIOUS
    <2>5. \A i \in DOMAIN made : \A e : e = made[i] => Gated(e)'
        BY <1>t, <2>1, <2>2, <2>4, NowGated
    <2>6. /\ decisions' \in Seq(DecisionRow)
          /\ \A i \in DOMAIN decisions' :
                 \/ i \in DOMAIN decisions /\ decisions'[i] = decisions[i]
                 \/ \E j \in DOMAIN made : decisions'[i] = made[j]
        <3>1. decisions \in Seq(DecisionRow)
            BY <1>t DEF TypeOK
        <3>2. ASSUME NEW i \in DOMAIN decisions'
              PROVE  \/ i \in DOMAIN decisions /\ decisions'[i] = decisions[i]
                     \/ \E j \in DOMAIN made : decisions'[i] = made[j]
            <4>1. CASE i <= Len(decisions)
                BY <2>1, <3>1, <4>1
            <4>2. CASE ~(i <= Len(decisions))
                <5>1. i - Len(decisions) \in DOMAIN made /\ decisions'[i] = made[i - Len(decisions)]
                    BY <2>1, <3>1, <4>2
                <5> QED BY <5>1
            <4> QED BY <4>1, <4>2
        <3> QED BY <2>1, <3>1, <3>2
    <2>7. TypeOK'
        BY <1>t, <2>2, <2>3, <2>6 DEF TypeOK
    <2>8. GateInv'
        BY <1>2, <2>2, <2>5, <2>6 DEF GateInv, Gated
    <2> QED BY <2>7, <2>8 DEF Inv
<1>12. CASE _assert_source_unchanged
    BY <1>4, <1>12, <1>t DEF _assert_source_unchanged, target_statements, Known, TypeOK
<1>13. ASSUME NEW ranged \in SUBSET anchoring, NEW item \in Items, ApplyAnchors(ranged, item)
       PROVE  Inv'
    <2>1. row' = [s \in Statements |->
                     IF s \in ranged THEN [row[s] EXCEPT !.anchor = item] ELSE row[s]]
        BY <1>13 DEF ApplyAnchors
    <2>2. row' \in [Statements -> Row]
        BY <1>t, <2>1, SMTT(30) DEF TypeOK, Row
    <2> QED BY <1>4, <1>13, <1>t, <2>2 DEF ApplyAnchors, TypeOK
<1>14. ASSUME NEW s \in Statements, OwnerPublishes(s) PROVE Inv'
    <2>1. row' = [row EXCEPT ![s].publication = "publishable"]
        BY <1>14 DEF OwnerPublishes
    <2>2. row' \in [Statements -> Row]
        BY <1>t, <2>1, ZenonT(40) DEF TypeOK, Row
    <2> QED BY <1>4, <1>14, <1>t, <2>2 DEF OwnerPublishes, TypeOK
<1>15. CASE UNCHANGED vars
    BY <1>4, <1>15, <1>t DEF vars, TypeOK
<1> QED BY <1>5, <1>6, <1>7, <1>8, <1>9, <1>10, <1>11, <1>12, <1>13, <1>14, <1>15 DEF Next

LEMMA InvHolds == Spec => []Inv
<1>1. Init => Inv
    <2> SUFFICES ASSUME Init PROVE Inv
        OBVIOUS
    <2>1. Absent \in Row
        BY DEF Absent, Row, Statuses
    <2>2. TypeOK
        BY <2>1 DEF Init, TypeOK
    <2>3. GateInv
        BY DEF Init, GateInv
    <2> QED BY <2>2, <2>3 DEF Inv
<1> QED BY <1>1, InvStep, PTL DEF Spec

(* No promotion passes over a flag that was open when its reviewer read the*)
(* flags.  (promote_statement, ai_risk_gate.py)                            *)
THEOREM FlagsGate == Spec => []NoPromotionOverFlag
<1>1. Inv => NoPromotionOverFlag
    BY DEF Inv, GateInv, Gated, NoPromotionOverFlag
<1> QED BY <1>1, InvHolds, PTL

(* A revoked reviewer makes no decision but the one in hand.               *)
(* (promote_statement, revoke_reviewer, ai_risk_gate.py)                   *)
THEOREM RevocationsBind == Spec => []RevokedDecidesNoMore
<1>1. Inv => RevokedDecidesNoMore
    BY DEF Inv, GateInv, Gated, RevokedDecidesNoMore
<1> QED BY <1>1, InvHolds, PTL

-----------------------------------------------------------------------------
(* The ledger replays.  Every decision of a kind at or before place n of   *)
(* the ledger was followed by one that answers it, or by one whose         *)
(* reviewer had read the statement before.                                 *)
Closing == {"disputed", "rejected"}
Answered(s, n, was, by) ==
    \A i \in DOMAIN decisions :
        i <= n /\ decisions[i].s = s /\ decisions[i].decision \in was
            => \E j \in DOMAIN decisions :
                   j > i /\ decisions[j].s = s /\ (decisions[j].decision \in by \/ Overlaps(i, j))

(* What its decision makes of a statement.                                 *)
Sound(d) ==
    /\ d.from # "absent" /\ d.to # "absent"
    /\ d.decision = "corrected" => d.correction = "corrected"
    /\ d.decision \in Closing => d.to \notin REVIEWED
    /\ d.decision = "hold" => d.to = d.from

(* What a reviewer has read: the statement as it is, if no decision on it  *)
(* was written since, and as the decisions before had left it.             *)
ReadOK(d) ==
    /\ d.after \in Nat /\ d.after <= Len(decisions)
    /\ row[d.s].status # "absent"
    /\ (\A k \in DOMAIN decisions : decisions[k].s = d.s => k <= d.after)
           => d.from = row[d.s].status
    /\ d.from \in REVIEWED => Answered(d.s, d.after, Closing, PROMOTING_DECISIONS)
    /\ d.correction # "corrected" => Answered(d.s, d.after, {"corrected"}, {})

Newest(i) == \A k \in DOMAIN decisions : decisions[k].s = decisions[i].s => k <= i
Adjacent(i, j) ==
    /\ i < j /\ decisions[i].s = decisions[j].s
    /\ \A k \in DOMAIN decisions : decisions[k].s = decisions[i].s => k <= i \/ k >= j

Standing(s) ==
    /\ row[s].status \in REVIEWED => Answered(s, Len(decisions), Closing, PROMOTING_DECISIONS)
    /\ row[s].correction # "corrected" => Answered(s, Len(decisions), {"corrected"}, {})

Chained ==
    /\ \A i \in DOMAIN decisions : Newest(i) => row[decisions[i].s].status = decisions[i].to
    /\ \A i, j \in DOMAIN decisions :
           Adjacent(i, j) => decisions[j].from = decisions[i].to \/ Overlaps(i, j)
    /\ \A s \in Statements : Standing(s)

Replays ==
    /\ \A i \in DOMAIN decisions : Sound(decisions[i]) /\ row[decisions[i].s].status # "absent"
    /\ \A r \in Reviewers : desk[r] # Idle => Sound(desk[r]) /\ ReadOK(desk[r])
    /\ Chained

(* What has been answered stays answered while the ledger grows.           *)
LEMMA AnsweredStays ==
    ASSUME NEW s, NEW n \in Nat, NEW was, NEW by, n <= Len(decisions),
           decisions \in Seq(DecisionRow), NEW made \in Seq(DecisionRow),
           decisions' = decisions \o made,
           Answered(s, n, was, by)
    PROVE  Answered(s, n, was, by)'
<1>1. /\ DOMAIN decisions \subseteq DOMAIN decisions'
      /\ \A i \in DOMAIN decisions : decisions'[i] = decisions[i]
    OBVIOUS
<1>2. \A i \in DOMAIN decisions' : i <= n => i \in DOMAIN decisions
    OBVIOUS
<1>3. \A i, j \in DOMAIN decisions : Overlaps(i, j) => Overlaps(i, j)'
    BY <1>1 DEF Overlaps
<1> QED BY <1>1, <1>2, <1>3 DEF Answered

(* A decision taken from what is read now.                                 *)
LEMMA ReadNow ==
    ASSUME TypeOK, Replays, NEW r \in Reviewers, NEW s \in Known, NEW d \in Decisions,
           NEW to \in REVIEWED, NEW stamp \in Nat
    PROVE  /\ Sound(Decision(r, s, d, to, stamp))
           /\ ReadOK(Decision(r, s, d, to, stamp))
<1> DEFINE e == Decision(r, s, d, to, stamp)
<1>1. row[s] \in Row /\ s \in Statements /\ row[s].status # "absent" /\ Standing(s)
    BY DEF TypeOK, Known, Replays, Chained
<1>2. /\ e.s = s /\ e.decision = d /\ e.from = row[s].status /\ e.after = Len(decisions)
      /\ e.to = target_status(row[s].status, d, to)
      /\ e.correction = IF d = "corrected" THEN "corrected" ELSE row[s].correction
    BY DEF Decision
<1>3. Len(decisions) \in Nat
    BY DEF TypeOK
<1> HIDE DEF e
<1>4. Sound(e)
    BY <1>1, <1>2 DEF Sound, target_status, Decisions, Closing, PROMOTING_DECISIONS, REVIEWED
<1>5. ReadOK(e)
    BY <1>1, <1>2, <1>3 DEF ReadOK, Standing
<1> QED BY <1>4, <1>5 DEF e

(* Decisions that were soundly read are written, one to a statement.       *)
LEMMA Written ==
    ASSUME TypeOK, Replays, NEW made \in Seq(DecisionRow),
           decisions' = decisions \o made,
           \A i \in DOMAIN made :
               /\ Sound(made[i]) /\ ReadOK(made[i])
               /\ row'[made[i].s].status = made[i].to
               /\ row'[made[i].s].correction = made[i].correction,
           \A i, j \in DOMAIN made : made[i].s = made[j].s => i = j,
           \A s \in Statements :
               (\A i \in DOMAIN made : made[i].s # s)
                   => row'[s].status = row[s].status /\ row'[s].correction = row[s].correction
    PROVE  /\ \A i \in DOMAIN decisions' :
                  Sound(decisions'[i]) /\ row'[decisions'[i].s].status # "absent"
           /\ Chained'
           /\ \A d \in DecisionRow : ReadOK(d) => ReadOK(d)'
<1> SUFFICES ASSUME NEW n, n = Len(decisions), NEW p, p = Len(decisions')
             PROVE  /\ \A i \in DOMAIN decisions' :
                           Sound(decisions'[i]) /\ row'[decisions'[i].s].status # "absent"
                    /\ Chained'
                    /\ \A d \in DecisionRow : ReadOK(d) => ReadOK(d)'
    OBVIOUS
<1>1. decisions \in Seq(DecisionRow) /\ n \in Nat /\ DOMAIN decisions = 1..n
    BY DEF TypeOK
<1>a. \A d \in DecisionRow : d.s \in Statements /\ d.decision \in Decisions
    BY DEF DecisionRow
<1>2. ASSUME NEW i \in 1..n
      PROVE  /\ i \in DOMAIN decisions' /\ decisions'[i] = decisions[i]
             /\ decisions[i] \in DecisionRow /\ decisions[i].s \in Statements
    <2>1. i \in DOMAIN decisions' /\ decisions'[i] = decisions[i] /\ decisions[i] \in DecisionRow
        BY <1>1, <1>2
    <2> QED BY <1>a, <2>1
<1>3. ASSUME NEW m \in DOMAIN made
      PROVE  /\ n + m \in DOMAIN decisions' /\ decisions'[n + m] = made[m] /\ n + m > n
             /\ made[m] \in DecisionRow /\ made[m].s \in Statements
             /\ made[m].decision \in Decisions /\ m \in Nat
    <2>1. /\ n + m \in DOMAIN decisions' /\ decisions'[n + m] = made[m] /\ n + m > n
          /\ made[m] \in DecisionRow /\ m \in Nat
        BY <1>1, <1>3
    <2> QED BY <1>a, <2>1
<1>4. ASSUME NEW i \in DOMAIN decisions'
      PROVE  i \in 1..n \/ \E m \in DOMAIN made : i = n + m
    <2>1. CASE i <= n
        BY <1>1, <2>1
    <2>2. CASE ~(i <= n)
        <3>1. i - n \in DOMAIN made /\ i = n + (i - n)
            BY <1>1, <2>2
        <3> QED BY <3>1
    <2> QED BY <2>1, <2>2
<1>5. p \in Nat /\ n <= p /\ DOMAIN decisions' = 1..p
    BY <1>1
<1>6. \A i, j \in 1..n : Overlaps(i, j)' <=> Overlaps(i, j)
    BY <1>2 DEF Overlaps
<1>7. \A m \in DOMAIN made : \A i : Overlaps(i, n + m)' <=> made[m].after < i
    BY <1>3 DEF Overlaps
<1>8. \A s, was, by : Answered(s, n, was, by) => Answered(s, n, was, by)'
    BY <1>1, AnsweredStays
<1>9. ASSUME NEW d \in DecisionRow, ReadOK(d)
      PROVE  /\ d.after \in Nat /\ d.after <= n
             /\ \A was, by : Answered(d.s, d.after, was, by)
                                 => Answered(d.s, d.after, was, by)'
    <2>1. d.after \in Nat /\ d.after <= n
        BY <1>9 DEF ReadOK
    <2> QED BY <1>1, <2>1, AnsweredStays
(* Each of the new decisions ends what was known of its statement.         *)
<1>10. ASSUME NEW m \in DOMAIN made, NEW i \in DOMAIN decisions',
              decisions'[i].s = made[m].s
       PROVE  i = n + m \/ i \in 1..n
    BY <1>3, <1>4, <1>10
<1>11. ASSUME NEW m \in DOMAIN made, NEW was, NEW by,
              made[m].decision \notin was,
              made[m].decision \in by \/ Answered(made[m].s, made[m].after, was, by)
       PROVE  Answered(made[m].s, p, was, by)'
    <2> DEFINE e == made[m]
    <2>1. SUFFICES ASSUME NEW i \in DOMAIN decisions', decisions'[i].s = e.s,
                          decisions'[i].decision \in was
                   PROVE  \E j \in DOMAIN decisions' :
                              /\ j > i /\ decisions'[j].s = e.s
                              /\ decisions'[j].decision \in by \/ Overlaps(i, j)'
        BY DEF Answered
    <2>2. i \in 1..n /\ n + m > i
        BY <1>1, <1>3, <1>10, <1>11, <2>1
    <2>3. CASE e.decision \in by \/ e.after < i
        BY <1>3, <1>7, <2>2, <2>3
    <2>4. CASE ~(e.decision \in by \/ e.after < i)
        <3>1. made[m] \in DecisionRow /\ ReadOK(made[m])
            BY <1>3
        <3>2. made[m].after \in Nat
            BY <1>9, <3>1
        <3>3. i <= made[m].after
            BY <2>2, <2>4, <3>2
        <3>4. Answered(made[m].s, made[m].after, was, by)
            BY <1>11, <2>4
        <3>5. Answered(made[m].s, made[m].after, was, by)'
            BY <1>9, <3>1, <3>4
        <3> QED BY <2>1, <3>3, <3>5 DEF Answered
    <2> QED BY <2>3, <2>4
<1>12. ASSUME NEW s \in Statements, \A m \in DOMAIN made : made[m].s # s, NEW was, NEW by,
              Answered(s, n, was, by)
       PROVE  Answered(s, p, was, by)'
    <2>1. Answered(s, n, was, by)'
        BY <1>8, <1>12
    <2>2. \A i \in DOMAIN decisions' : decisions'[i].s = s => i \in 1..n
        BY <1>3, <1>4, <1>12
    <2> QED BY <1>1, <2>1, <2>2 DEF Answered
<1>13. \A i \in DOMAIN decisions' :
           Sound(decisions'[i]) /\ row'[decisions'[i].s].status # "absent"
    <2>1. ASSUME NEW i \in 1..n
          PROVE  Sound(decisions[i]) /\ row[decisions[i].s].status # "absent"
        BY <1>1 DEF Replays
    <2>2. ASSUME NEW s \in Statements, row[s].status # "absent" PROVE row'[s].status # "absent"
        <3>1. CASE \A m \in DOMAIN made : made[m].s # s
            BY <2>2, <3>1
        <3>2. ASSUME NEW m \in DOMAIN made, made[m].s = s PROVE row'[s].status # "absent"
            BY <3>2 DEF Sound
        <3> QED BY <3>1, <3>2
    <2>3. ASSUME NEW m \in DOMAIN made PROVE row'[made[m].s].status # "absent"
        BY DEF Sound
    <2>4. ASSUME NEW i \in 1..n
          PROVE  Sound(decisions'[i]) /\ row'[decisions'[i].s].status # "absent"
        BY <1>2, <2>1, <2>2
    <2>5. ASSUME NEW m \in DOMAIN made
          PROVE  Sound(decisions'[n + m]) /\ row'[decisions'[n + m].s].status # "absent"
        BY <1>3, <2>3
    <2> QED BY <1>4, <2>4, <2>5
<1>14. ASSUME NEW s \in Statements PROVE Standing(s)'
    <2>1. Standing(s)
        BY DEF Replays, Chained
    <2>2. CASE \A m \in DOMAIN made : made[m].s # s
        <3>1. row'[s].status = row[s].status /\ row'[s].correction = row[s].correction
            BY <2>2
        <3>2. \A was, by : Answered(s, n, was, by) => Answered(s, p, was, by)'
            BY <1>12, <2>2
        <3> QED BY <2>1, <3>1, <3>2 DEF Standing
    <2>3. ASSUME NEW m \in DOMAIN made, made[m].s = s PROVE Standing(s)'
        <3>1. /\ Sound(made[m]) /\ ReadOK(made[m])
              /\ row'[s].status = made[m].to /\ row'[s].correction = made[m].correction
            BY <2>3
        <3>2. ASSUME row'[s].status \in REVIEWED
              PROVE  Answered(s, p, Closing, PROMOTING_DECISIONS)'
            <4>1. made[m].decision \notin Closing
                BY <3>1, <3>2 DEF Sound
            <4>2. made[m].decision \in PROMOTING_DECISIONS \/ made[m].decision = "hold"
                BY <1>3, <4>1 DEF Decisions, Closing, PROMOTING_DECISIONS
            <4>3. made[m].decision = "hold"
                      => Answered(made[m].s, made[m].after, Closing, PROMOTING_DECISIONS)
                BY <3>1, <3>2 DEF Sound, ReadOK
            <4> QED BY <1>11, <2>3, <4>1, <4>2, <4>3
        <3>3. ASSUME row'[s].correction # "corrected"
              PROVE  Answered(s, p, {"corrected"}, {})'
            <4>1. made[m].decision \notin {"corrected"}
                BY <3>1, <3>3 DEF Sound
            <4>2. Answered(made[m].s, made[m].after, {"corrected"}, {})
                BY <3>1, <3>3 DEF ReadOK
            <4> QED BY <1>11, <2>3, <4>1, <4>2
        <3> QED BY <3>2, <3>3 DEF Standing
    <2> QED BY <2>2, <2>3
<1>15. ASSUME NEW i \in DOMAIN decisions', Newest(i)'
       PROVE  row'[decisions'[i].s].status = decisions'[i].to
    <2>1. ASSUME NEW m \in DOMAIN made, made[m].s = decisions'[i].s PROVE i = n + m
        <3>1. n + m \in DOMAIN decisions' /\ decisions'[n + m].s = decisions'[i].s
            BY <1>3, <2>1
        <3>2. n + m <= i
            BY <1>15, <3>1 DEF Newest
        <3>3. i = n + m \/ i \in 1..n
            BY <1>10, <2>1
        <3> QED BY <1>1, <1>3, <3>2, <3>3
    <2>2. CASE \E m \in DOMAIN made : made[m].s = decisions'[i].s
        BY <1>3, <2>1, <2>2
    <2>3. CASE \A m \in DOMAIN made : made[m].s # decisions'[i].s
        <3>1. i \in 1..n
            BY <1>3, <1>4, <2>3
        <3>2. Newest(i)
            BY <1>1, <1>2, <1>15, <3>1 DEF Newest
        <3>3. row[decisions[i].s].status = decisions[i].to
            BY <1>1, <3>1, <3>2 DEF Replays, Chained
        <3> QED BY <1>2, <2>3, <3>1, <3>3
    <2> QED BY <2>2, <2>3
<1>16. ASSUME NEW i \in DOMAIN decisions', NEW j \in DOMAIN decisions', Adjacent(i, j)'
       PROVE  decisions'[j].from = decisions'[i].to \/ Overlaps(i, j)'
    <2>1. i < j /\ decisions'[i].s = decisions'[j].s
          /\ \A k \in DOMAIN decisions' : decisions'[k].s = decisions'[i].s => k <= i \/ k >= j
        BY <1>16 DEF Adjacent
    <2>2. CASE j \in 1..n
        <3>1. i \in 1..n
            BY <1>1, <1>4, <1>5, <2>1, <2>2
        <3>2. Adjacent(i, j)
            BY <1>1, <1>2, <2>1, <2>2, <3>1 DEF Adjacent
        <3>3. decisions[j].from = decisions[i].to \/ Overlaps(i, j)
            BY <1>1, <2>2, <3>1, <3>2 DEF Replays, Chained
        <3> QED BY <1>2, <1>6, <2>2, <3>1, <3>3
    <2>3. ASSUME NEW m \in DOMAIN made, j = n + m
          PROVE  decisions'[j].from = decisions'[i].to \/ Overlaps(i, j)'
        <3> DEFINE e == made[m]
        <3>1. e = decisions'[j] /\ e.s = decisions'[i].s /\ ReadOK(e) /\ e \in DecisionRow
            BY <1>3, <2>1, <2>3
        <3>2. i \in 1..n
            BY <1>1, <1>5, <1>10, <2>1, <2>3, <3>1
        <3>3. CASE e.after < i
            BY <1>7, <2>3, <3>3
        <3>4. CASE ~(e.after < i)
            <4>1. i <= e.after
                BY <1>9, <3>1, <3>2, <3>4
            <4>2. \A k \in 1..n : decisions[k].s = e.s => k <= i
                <5> SUFFICES ASSUME NEW k \in 1..n, decisions[k].s = e.s PROVE k <= i
                    OBVIOUS
                <5>1. k \in DOMAIN decisions' /\ decisions'[k].s = decisions'[i].s
                    BY <1>2, <3>1
                <5>2. k <= i \/ k >= n + m
                    BY <2>1, <2>3, <5>1
                <5> QED BY <1>1, <1>3, <3>2, <5>2
            <4>3. \A k \in 1..n : decisions[k].s = e.s => k <= e.after
                BY <1>9, <3>1, <3>2, <4>1, <4>2
            <4>4. e.from = row[e.s].status
                BY <1>1, <3>1, <4>3 DEF ReadOK
            <4>5. Newest(i) /\ decisions[i].s = e.s
                BY <1>1, <1>2, <3>1, <3>2, <4>2 DEF Newest
            <4>6. row[e.s].status = decisions[i].to
                BY <1>1, <3>2, <4>5 DEF Replays, Chained
            <4> QED BY <1>2, <3>1, <3>2, <4>4, <4>6
        <3> QED BY <3>3, <3>4
    <2> QED BY <1>4, <2>2, <2>3
<1>17. ASSUME NEW d \in DecisionRow, ReadOK(d) PROVE ReadOK(d)'
    <2>1. d.after \in Nat /\ d.after <= n /\ d.s \in Statements
        BY <1>9, <1>17, <1>a
    <2>2. row'[d.s].status # "absent"
        <3>1. row[d.s].status # "absent"
            BY <1>17 DEF ReadOK
        <3>2. \A m \in DOMAIN made : made[m].s = d.s => row'[d.s].status # "absent"
            BY DEF Sound
        <3> QED BY <2>1, <3>1, <3>2
    <2>3. ASSUME \A k \in DOMAIN decisions' : decisions'[k].s = d.s => k <= d.after
          PROVE  d.from = row'[d.s].status
        <3>1. \A m \in DOMAIN made : made[m].s # d.s
            <4> SUFFICES ASSUME NEW m \in DOMAIN made, made[m].s = d.s PROVE FALSE
                OBVIOUS
            <4>1. n + m <= d.after
                BY <1>3, <2>3
            <4> QED BY <1>1, <1>3, <2>1, <4>1
        <3>2. \A k \in 1..n : decisions[k].s = d.s => k <= d.after
            BY <1>2, <2>3
        <3>3. d.from = row[d.s].status
            BY <1>1, <1>17, <3>2 DEF ReadOK
        <3> QED BY <2>1, <3>1, <3>3
    <2>4. d.from \in REVIEWED => Answered(d.s, d.after, Closing, PROMOTING_DECISIONS)'
        BY <1>9, <1>17 DEF ReadOK
    <2>5. d.correction # "corrected" => Answered(d.s, d.after, {"corrected"}, {})'
        BY <1>9, <1>17 DEF ReadOK
    <2>6. d.after <= Len(decisions')
        BY <1>1, <1>5, <2>1
    <2> QED BY <2>1, <2>2, <2>3, <2>4, <2>5, <2>6 DEF ReadOK
<1>18. Chained'
    BY <1>14, <1>15, <1>16 DEF Chained
<1> QED BY <1>13, <1>17, <1>18

(* A step that writes no decision leaves every statement known as it is.   *)
LEMMA Unwritten ==
    ASSUME TypeOK, Replays, decisions' = decisions,
           \A s \in Statements : row[s].status # "absent" =>
               row'[s].status = row[s].status /\ row'[s].correction = row[s].correction,
           \A s \in Statements : row[s].status = "absent" =>
               row'[s].status \notin REVIEWED
    PROVE  /\ \A i \in DOMAIN decisions' :
                  Sound(decisions'[i]) /\ row'[decisions'[i].s].status # "absent"
           /\ Chained'
           /\ \A d \in DecisionRow : ReadOK(d) => ReadOK(d)'
<1>1. \A i \in DOMAIN decisions : decisions[i].s \in Statements
    <2>1. \A i \in DOMAIN decisions : decisions[i] \in DecisionRow
        BY DEF TypeOK
    <2> QED BY <2>1 DEF DecisionRow
<1>2. \A i \in DOMAIN decisions : Sound(decisions[i]) /\ row[decisions[i].s].status # "absent"
    BY DEF Replays
<1>3. \A s, m, was, by : Answered(s, m, was, by) => Answered(s, m, was, by)'
    BY DEF Answered, Overlaps
<1>4. ASSUME NEW s \in Statements PROVE Standing(s)'
    <2>1. Standing(s)
        BY DEF Replays, Chained
    <2>2. CASE row[s].status # "absent"
        BY <1>3, <2>1, <2>2 DEF Standing, Answered, Overlaps
    <2>3. CASE row[s].status = "absent"
        <3>1. \A i \in DOMAIN decisions : decisions[i].s # s
            BY <1>2, <2>3
        <3> QED BY <3>1 DEF Standing, Answered
    <2> QED BY <2>2, <2>3
<1>5. ASSUME NEW i \in DOMAIN decisions, Newest(i)
      PROVE  row'[decisions[i].s].status = decisions[i].to
    BY <1>1, <1>2, <1>5 DEF Replays, Chained
<1>6. Chained'
    <2>1. \A i \in DOMAIN decisions' : Newest(i)' => row'[decisions'[i].s].status = decisions'[i].to
        BY <1>5 DEF Newest
    <2>2. ASSUME NEW i \in DOMAIN decisions', NEW j \in DOMAIN decisions', Adjacent(i, j)'
          PROVE  decisions'[j].from = decisions'[i].to \/ Overlaps(i, j)'
        <3>1. Adjacent(i, j)
            BY <2>2 DEF Adjacent
        <3> QED BY <3>1 DEF Replays, Chained, Overlaps
    <2> QED BY <1>4, <2>1, <2>2 DEF Chained
<1>7. ASSUME NEW d \in DecisionRow, ReadOK(d) PROVE ReadOK(d)'
    <2>1. d.s \in Statements
        BY DEF DecisionRow
    <2> QED BY <1>3, <1>7, <2>1 DEF ReadOK, Answered, Overlaps
<1> QED BY <1>1, <1>2, <1>6, <1>7

LEMMA ReplaysStep == Inv /\ Replays /\ [Next]_vars => Replays'
<1> SUFFICES ASSUME Inv, Replays, [Next]_vars PROVE Replays'
    OBVIOUS
<1>t. TypeOK
    BY DEF Inv
<1>d. \A r \in Reviewers : desk[r] # Idle =>
          desk[r] \in DecisionRow /\ Sound(desk[r]) /\ ReadOK(desk[r])
    BY <1>t DEF TypeOK, Replays
<1>s. \A s \in Statements : row[s].status = "absent" => row[s].status \notin REVIEWED
    BY DEF REVIEWED
<1>r. ASSUME \A i \in DOMAIN decisions' :
                 Sound(decisions'[i]) /\ row'[decisions'[i].s].status # "absent",
             Chained',
             \A d \in DecisionRow : ReadOK(d) => ReadOK(d)',
             \A r \in Reviewers :
                 \/ desk'[r] = desk[r] \/ desk'[r] = Idle
                 \/ \E d \in DecisionRow : desk'[r] = d /\ Sound(d) /\ ReadOK(d)
      PROVE  Replays'
    <2>1. ASSUME NEW r \in Reviewers, desk'[r] # Idle PROVE Sound(desk'[r]) /\ ReadOK(desk[r])'
        <3>1. PICK d \in DecisionRow : d = desk'[r] /\ Sound(d) /\ ReadOK(d)
            BY <1>d, <1>r, <2>1
        <3>2. ReadOK(d)' /\ d = desk'[r]
            BY <1>r, <3>1
        <3> QED BY <3>1, <3>2 DEF ReadOK
    <2> QED BY <1>r, <2>1 DEF Replays
<1>1. ASSUME decisions' = decisions,
             \A r \in Reviewers :
                 \/ desk'[r] = desk[r] \/ desk'[r] = Idle
                 \/ \E d \in DecisionRow : desk'[r] = d /\ Sound(d) /\ ReadOK(d),
             \A s \in Statements : row[s].status # "absent" =>
                 row'[s].status = row[s].status /\ row'[s].correction = row[s].correction,
             \A s \in Statements : row[s].status = "absent" => row'[s].status \notin REVIEWED
      PROVE  Replays'
    <2>1. /\ \A i \in DOMAIN decisions' :
                  Sound(decisions'[i]) /\ row'[decisions'[i].s].status # "absent"
          /\ Chained'
          /\ \A d \in DecisionRow : ReadOK(d) => ReadOK(d)'
        BY <1>t, <1>1, Unwritten
    <2> QED BY <1>1, <1>r, <2>1
<1>2. ASSUME UNCHANGED <<decisions, desk, row>> PROVE Replays'
    BY <1>1, <1>2, <1>s
<1>3. ASSUME UNCHANGED <<decisions, desk>>,
             \A s \in Statements : /\ row'[s].status = row[s].status
                                   /\ row'[s].correction = row[s].correction
      PROVE  Replays'
    BY <1>1, <1>3, <1>s
<1>5. ASSUME NEW r \in Extractions, run_extraction(r) PROVE Replays'
    <2>1. CASE row' = row
        BY <1>2, <1>5, <2>1 DEF run_extraction
    <2>2. CASE row' # row
        <3>1. PICK S \in SUBSET Statements :
                 /\ S \cap Known = {}
                 /\ row' = [s \in Statements |-> IF s \in S THEN _bind_ai_fields(r) ELSE row[s]]
            BY <1>5, <2>2 DEF run_extraction
        <3>2. _bind_ai_fields(r).status = "machine_extracted_unreviewed"
            BY DEF _bind_ai_fields, Absent
        <3>3. \A s \in Statements : row[s].status # "absent" => row'[s] = row[s]
            BY <3>1 DEF Known
        <3>4. \A s \in Statements : row[s].status = "absent" => row'[s].status \notin REVIEWED
            BY <1>s, <3>1, <3>2 DEF REVIEWED
        <3>5. UNCHANGED <<decisions, desk>>
            BY <1>5 DEF run_extraction
        <3> QED BY <1>1, <3>3, <3>4, <3>5
    <2> QED BY <2>1, <2>2
<1>6. ASSUME NEW r \in Scans, NEW scanned, run_risk(r, scanned) PROVE Replays'
    BY <1>2, <1>6 DEF run_risk
<1>7. ASSUME NEW r \in Reviewers, register_reviewer(r) \/ revoke_reviewer(r) PROVE Replays'
    BY <1>2, <1>7 DEF register_reviewer, revoke_reviewer
<1>8. ASSUME NEW r \in Reviewers, NEW f \in flags, resolve_flag(r, f) PROVE Replays'
    BY <1>2, <1>8 DEF resolve_flag
<1>9. ASSUME NEW r \in Reviewers, Consider(r) PROVE Replays'
    <2>1. PICK s \in Known, decision \in Asked, to \in Targets :
             desk' = [desk EXCEPT ![r] = Decision(r, s, decision, to, clock + 1)]
        BY <1>9 DEF Consider
    <2>2. s \in Statements /\ decision \in Decisions /\ to \in REVIEWED /\ clock + 1 \in Nat
        BY <1>t, RecordsAssumption DEF Known, Decisions, REVIEWED, TypeOK
    <2>3. PICK d \in DecisionRow :
              d = Decision(r, s, decision, to, clock + 1) /\ Sound(d) /\ ReadOK(d)
        <3>1. Decision(r, s, decision, to, clock + 1) \in DecisionRow
            BY <1>t, <2>2, DecisionTyped
        <3>2. /\ Sound(Decision(r, s, decision, to, clock + 1))
              /\ ReadOK(Decision(r, s, decision, to, clock + 1))
            BY <1>t, <2>2, ReadNow
        <3> QED BY <3>1, <3>2
    <2>4. \A x \in Reviewers : desk'[x] = IF x = r THEN d ELSE desk[x]
        BY <1>t, <2>1, <2>3 DEF TypeOK
    <2>5. UNCHANGED <<row, decisions>>
        BY <1>9 DEF Consider
    <2> QED BY <1>1, <1>s, <2>3, <2>4, <2>5
<1>10. ASSUME NEW r \in Reviewers, promote_statement(r) PROVE Replays'
    <2>1. /\ desk[r] # Idle /\ desk' = [desk EXCEPT ![r] = Idle]
          /\ \/ UNCHANGED <<row, decisions>>
             \/ /\ decisions' = Append(decisions, desk[r])
                /\ row' = [row EXCEPT ![desk[r].s] = Decided(@, desk[r])]
        BY <1>10 DEF promote_statement
    <2>2. \A x \in Reviewers : desk'[x] = desk[x] \/ desk'[x] = Idle
        BY <1>t, <2>1 DEF TypeOK
    <2>3. CASE UNCHANGED <<row, decisions>>
        BY <1>1, <1>s, <2>2, <2>3
    <2>4. CASE /\ decisions' = Append(decisions, desk[r])
               /\ row' = [row EXCEPT ![desk[r].s] = Decided(@, desk[r])]
        <3>1. PICK d \in DecisionRow : d = desk[r] /\ Sound(d) /\ ReadOK(d)
            BY <1>d, <2>1
        <3>2. d.s \in Statements /\ row[d.s] \in Row /\ row = [s \in Statements |-> row[s]]
            BY <1>t DEF TypeOK, DecisionRow
        <3>3. \A s \in Statements : row'[s] = IF s = d.s THEN Decided(row[s], d) ELSE row[s]
            BY <2>4, <3>1, <3>2
        <3>4. Decided(row[d.s], d).status = d.to /\ Decided(row[d.s], d).correction = d.correction
            BY <3>2 DEF Decided, Row
        <3>5. PICK made \in Seq(DecisionRow) : made = <<d>>
            <4>1. <<d>> \in Seq(DecisionRow)
                OBVIOUS
            <4> QED BY <4>1
        <3>6. decisions' = decisions \o made
            <4>1. decisions \in Seq(DecisionRow)
                BY <1>t DEF TypeOK
            <4> QED BY <2>4, <3>1, <3>5, <4>1
        <3>7. DOMAIN made = {1} /\ made[1] = d
            BY <3>5
        <3>8. \A i \in DOMAIN made :
                  /\ Sound(made[i]) /\ ReadOK(made[i])
                  /\ row'[made[i].s].status = made[i].to
                  /\ row'[made[i].s].correction = made[i].correction
            <4>1. row'[d.s] = Decided(row[d.s], d)
                BY <3>2, <3>3
            <4> QED BY <3>1, <3>4, <3>7, <4>1
        <3>9. \A i, j \in DOMAIN made : made[i].s = made[j].s => i = j
            BY <3>7
        <3>10. \A s \in Statements : (\A i \in DOMAIN made : made[i].s # s)
                   => row'[s].status = row[s].status /\ row'[s].correction = row[s].correction
            BY <3>3, <3>7
        <3> QED BY <1>r, <1>t, <2>2, <3>6, <3>8, <3>9, <3>10, Written
    <2> QED BY <2>1, <2>3, <2>4
<1>11. ASSUME NEW plan \in [Statements -> Asked \cup {"no_entry"}], NEW carrying \in SUBSET Known,
              NEW item \in Items, ApplyPromotions(plan, carrying, item)
       PROVE  Replays'
    <2>1. PICK made \in Seq(DecisionRow) :
              /\ decisions' = decisions \o made
              /\ \A i \in DOMAIN made : Carried(made[i])
              /\ \A i, j \in DOMAIN made : made[i].s = made[j].s => i = j
              /\ \A s \in Statements :
                     (\A i \in DOMAIN made : made[i].s # s) => row'[s] = row[s]
        BY <1>t, <1>11, Batch
    <2>2. ASSUME NEW d, Carried(d)
          PROVE  /\ Sound(d) /\ ReadOK(d)
                 /\ row'[d.s].status = d.to /\ row'[d.s].correction = d.correction
        <3>1. /\ BatchReviewer \in Reviewers /\ "reviewed_source_linked" \in REVIEWED
              /\ clock + 1 \in Nat
            BY <1>t, RecordsAssumption DEF REVIEWED, TypeOK
        <3>2. d.s \in Known /\ d.decision \in Decisions /\ d = Entry(d)
            BY <2>2 DEF Carried
        <3>3. Sound(Entry(d)) /\ ReadOK(Entry(d))
            BY <1>t, <3>1, <3>2, ReadNow DEF Entry
        <3>4. Sound(d) /\ ReadOK(d)
            BY <3>2, <3>3
        <3> QED BY <2>2, <3>4 DEF Carried
    <2>3. desk' = desk
        BY <1>11 DEF ApplyPromotions
    <2> QED BY <1>r, <1>t, <2>1, <2>2, <2>3, Written
<1>12. CASE _assert_source_unchanged
    BY <1>2, <1>12 DEF _assert_source_unchanged
<1>13. ASSUME NEW ranged \in SUBSET anchoring, NEW item \in Items, ApplyAnchors(ranged, item)
       PROVE  Replays'
    <2>1. row' = [s \in Statements |->
                     IF s \in ranged THEN [row[s] EXCEPT !.anchor = item] ELSE row[s]]
        BY <1>13 DEF ApplyAnchors
    <2>2. \A s \in Statements : row[s] \in Row
        BY <1>t DEF TypeOK
    <2>3. \A old \in Row : /\ [old EXCEPT !.anchor = item].status = old.status
                           /\ [old EXCEPT !.anchor = item].correction = old.correction
        BY DEF Row
    <2> QED BY <1>3, <1>13, <2>1, <2>2, <2>3 DEF ApplyAnchors
<1>14. ASSUME NEW s \in Statements, OwnerPublishes(s) PROVE Replays'
    <2>1. row' = [row EXCEPT ![s].publication = "publishable"]
        BY <1>14 DEF OwnerPublishes
    <2>2. row \in [Statements -> Row]
        BY <1>t DEF TypeOK
    <2>3. \A x \in Statements : /\ row'[x].status = row[x].status
                                /\ row'[x].correction = row[x].correction
        BY <2>1, <2>2 DEF Row
    <2> QED BY <1>3, <1>14, <2>3 DEF OwnerPublishes
<1>15. CASE UNCHANGED vars
    BY <1>2, <1>15 DEF vars
<1> QED BY <1>5, <1>6, <1>7, <1>8, <1>9, <1>10, <1>11, <1>12, <1>13, <1>14, <1>15 DEF Next

LEMMA ReplaysHolds == Spec => []Replays
<1>1. Init => Replays
    <2> SUFFICES ASSUME Init PROVE Replays
        OBVIOUS
    <2>1. decisions = <<>> /\ \A r \in Reviewers : desk[r] = Idle
        BY DEF Init
    <2>2. DOMAIN decisions = {}
        BY <2>1
    <2> QED BY <2>1, <2>2 DEF Replays, Chained, Standing, Answered
<1> QED BY <1>1, InvHolds, ReplaysStep, PTL DEF Spec

(* The members of a set of naturals that is not empty have a least.        *)
LEMMA MinIsLeast ==
    ASSUME NEW S \in SUBSET Nat, S # {}
    PROVE  Min(S) \in S /\ \A j \in S : Min(S) <= j
<1> DEFINE R == OpToRel(<, Nat)
<1>1. IsWellFoundedOn(R, Nat)
    BY NatLessThanWellFounded
<1>2. R = {ss \in Nat \X Nat : ss[1] < ss[2]}
    BY DEF OpToRel
<1> HIDE DEF R
<1>3. \A x \in Nat, y \in Nat : <<y, x>> \in R <=> y < x
    BY <1>2
<1>4. PICK x \in S : \A y \in S : ~(<<y, x>> \in R)
    BY <1>1, WFMin
<1>5. \A y \in S : ~(y < x)
    BY <1>3, <1>4
<1>6. \A y \in S : x <= y
    BY <1>5
<1> QED BY <1>6, Zenon DEF Min

(* The decisions of a statement form a chain that ends at its status, and  *)
(* a correction stays, save where two reviewers had read the statement     *)
(* before either wrote.  (promote_statement, ai_risk_gate.py)              *)
THEOREM LedgerReplays == Spec => []LostUpdatesAreRaces
<1>1. ASSUME Inv, Replays PROVE LostUpdatesAreRaces
    <2>1. decisions \in Seq(DecisionRow) /\ DOMAIN decisions \in SUBSET Nat
        BY <1>1 DEF Inv, TypeOK
    <2>2. SUFFICES ASSUME NEW i \in DOMAIN decisions,
                          NEW later,
                          later = {j \in DOMAIN decisions : j > i /\ decisions[j].s = decisions[i].s}
                   PROVE  /\ later = {} => row[decisions[i].s].status = decisions[i].to
                          /\ later # {} => \/ decisions[Min(later)].from = decisions[i].to
                                           \/ Overlaps(i, Min(later))
                          /\ decisions[i].decision = "corrected"
                                 /\ row[decisions[i].s].correction # "corrected"
                                 => \E j \in later : Overlaps(i, j)
        BY DEF LostUpdatesAreRaces
    <2>3. later \in SUBSET Nat /\ i \in Nat
        BY <2>1, <2>2
    <2>4. decisions[i].s \in Statements
        <3>1. decisions[i] \in DecisionRow
            BY <2>1
        <3> QED BY <3>1 DEF DecisionRow
    <2>5. ASSUME later = {} PROVE row[decisions[i].s].status = decisions[i].to
        <3>1. Newest(i)
            BY <2>1, <2>2, <2>5 DEF Newest
        <3> QED BY <1>1, <3>1 DEF Replays, Chained
    <2>6. ASSUME later # {} PROVE decisions[Min(later)].from = decisions[i].to
                                  \/ Overlaps(i, Min(later))
        <3>1. PICK j : j = Min(later)
            OBVIOUS
        <3>2. j \in later /\ \A k \in later : j <= k
            BY <2>3, <2>6, <3>1, MinIsLeast
        <3>3. Adjacent(i, j)
            BY <2>1, <2>2, <3>2 DEF Adjacent
        <3>4. j \in DOMAIN decisions
            BY <2>2, <3>2
        <3>5. decisions[j].from = decisions[i].to \/ Overlaps(i, j)
            BY <1>1, <3>3, <3>4 DEF Replays, Chained
        <3> QED BY <3>1, <3>5
    <2>7. ASSUME decisions[i].decision = "corrected", row[decisions[i].s].correction # "corrected"
          PROVE  \E j \in later : Overlaps(i, j)
        <3>1. Answered(decisions[i].s, Len(decisions), {"corrected"}, {})
            BY <1>1, <2>4, <2>7 DEF Replays, Chained, Standing
        <3>2. i <= Len(decisions)
            BY <2>1
        <3>3. PICK j \in DOMAIN decisions :
                  j > i /\ decisions[j].s = decisions[i].s /\ Overlaps(i, j)
            BY <2>7, <3>1, <3>2 DEF Answered
        <3> QED BY <2>2, <3>3
    <2> QED BY <2>5, <2>6, <2>7
<1> QED BY <1>1, InvHolds, ReplaysHolds, PTL

(* What a reader of either lane is shown has a reviewed status.            *)
LEMMA ShownIsReviewed ==
    ASSUME NEW s \in published_records \cup reviewer_internal_records
    PROVE  s \in Statements /\ row[s].status \in REVIEWED
<1>1. s \in Statements /\ (row[s].status \in REVIEWED \/ _eligible_ui_status(s) \in Eligible)
    BY DEF published_records, reviewer_internal_records, Known
<1>2. _eligible_ui_status(s) \in Eligible => row[s].status \in REVIEWED
    BY DEF _eligible_ui_status, compute_ui_status, Eligible
<1> QED BY <1>1, <1>2

(* A dispute or a rejection keeps a statement from every reader until it is*)
(* promoted, or a decision in hand before it is written.                   *)
(* (promote_statement, ai_risk_gate.py; the lanes of read_api.py)          *)
THEOREM ClosedStaysClosed == Spec => []NoSilentRevival
<1>1. ASSUME Inv, Replays PROVE NoSilentRevival
    <2>1. ASSUME NEW s \in published_records \cup reviewer_internal_records,
                 NEW i \in DOMAIN decisions, decisions[i].s = s,
                 decisions[i].decision \in Closing
          PROVE  \E j \in DOMAIN decisions :
                     /\ j > i /\ decisions[j].s = s
                     /\ decisions[j].decision \in PROMOTING_DECISIONS \/ Overlaps(i, j)
        <3>1. s \in Statements /\ row[s].status \in REVIEWED
            BY ShownIsReviewed
        <3>2. Answered(s, Len(decisions), Closing, PROMOTING_DECISIONS)
            BY <1>1, <3>1 DEF Replays, Chained, Standing
        <3>3. i <= Len(decisions)
            BY <1>1 DEF Inv, TypeOK
        <3> QED BY <2>1, <3>2, <3>3 DEF Answered
    <2> QED BY <2>1 DEF NoSilentRevival, Closing
<1> QED BY <1>1, InvHolds, ReplaysHolds, PTL

-----------------------------------------------------------------------------
(* Anchors: a statement that has none is not there, and the manifest being *)
(* applied names statements that are.                                      *)
AnchorsOK ==
    /\ \A s \in Statements : row[s].status = "absent" => row[s].anchor = NoItem
    /\ anchoring \subseteq Known

(* A step leaves a statement known, and its anchor alone unless it decides *)
(* or sets the first.                                                      *)
Kept(s) ==
    /\ row[s].status # "absent" => row'[s].status # "absent"
    /\ row[s].anchor # NoItem /\ row'[s].anchor # row[s].anchor => Len(decisions') > Len(decisions)
    /\ row'[s].status = "absent" => row'[s].anchor = NoItem

LEMMA AnchorStep ==
    ASSUME Inv, Replays, AnchorsOK, Next, NEW s \in Statements
    PROVE  Kept(s)
<1>t. TypeOK
    BY DEF Inv
<1>a. row[s].status = "absent" => row[s].anchor = NoItem
    BY DEF AnchorsOK
<1>1. row' = row => Kept(s)
    BY <1>a DEF Kept
<1>2. row'[s].status # "absent" /\ row'[s].anchor = row[s].anchor => Kept(s)
    BY DEF Kept
<1>5. ASSUME NEW r \in Extractions, run_extraction(r) PROVE Kept(s)
    <2>1. CASE row' # row
        <3>1. PICK S \in SUBSET Statements :
                 /\ S \cap Known = {}
                 /\ row' = [x \in Statements |-> IF x \in S THEN _bind_ai_fields(r) ELSE row[x]]
            BY <1>5, <2>1 DEF run_extraction
        <3>2. /\ _bind_ai_fields(r).status = "machine_extracted_unreviewed"
              /\ _bind_ai_fields(r).anchor = NoItem
            BY DEF _bind_ai_fields, Absent
        <3>3. CASE s \in S
            BY <1>a, <3>1, <3>2, <3>3 DEF Kept, Known
        <3>4. CASE s \notin S
            BY <1>a, <3>1, <3>4 DEF Kept
        <3> QED BY <3>3, <3>4
    <2> QED BY <1>1, <2>1
<1>10. ASSUME NEW r \in Reviewers, promote_statement(r) PROVE Kept(s)
    <2> DEFINE d == desk[r]
    <2>1. /\ d # Idle
          /\ row' = row \/ row' = [row EXCEPT ![d.s] = Decided(@, d)]
        BY <1>10 DEF promote_statement
    <2>2. d \in DecisionRow /\ Sound(d) /\ ReadOK(d)
        BY <1>t, <2>1 DEF TypeOK, Replays
    <2> HIDE DEF d
    <2>3. CASE row' = row
        BY <1>1, <2>3
    <2>4. CASE row' = [row EXCEPT ![d.s] = Decided(@, d)] /\ s = d.s
        <3>1. row[s] \in Row /\ row' = [x \in Statements |-> row'[x]]
            BY <1>t, <2>4 DEF TypeOK
        <3>2. row'[s] = Decided(row[s], d)
            BY <1>t, <2>4 DEF TypeOK
        <3>3. row'[s].status = d.to /\ row'[s].anchor = row[s].anchor
            BY <3>1, <3>2 DEF Decided, Row
        <3> QED BY <1>2, <2>2, <3>3 DEF Sound
    <2>5. CASE row' = [row EXCEPT ![d.s] = Decided(@, d)] /\ s # d.s
        <3>1. row'[s] = row[s]
            BY <1>t, <2>5 DEF TypeOK
        <3> QED BY <1>a, <3>1 DEF Kept
    <2> QED BY <2>1, <2>3, <2>4, <2>5
<1>11. ASSUME NEW plan \in [Statements -> Asked \cup {"no_entry"}], NEW carrying \in SUBSET Known,
              NEW item \in Items, ApplyPromotions(plan, carrying, item)
       PROVE  Kept(s)
    <2>1. PICK made \in Seq(DecisionRow) :
              /\ decisions' = decisions \o made /\ made # <<>>
              /\ \A i \in DOMAIN made : Carried(made[i])
              /\ \A x \in Statements :
                     (\A i \in DOMAIN made : made[i].s # x) => row'[x] = row[x]
        BY <1>t, <1>11, Batch
    <2>2. Len(decisions') > Len(decisions)
        <3>1. decisions \in Seq(DecisionRow)
            BY <1>t DEF TypeOK
        <3> QED BY <2>1, <3>1
    <2>3. CASE row'[s] = row[s]
        BY <1>a, <2>3 DEF Kept
    <2>4. ASSUME NEW i \in DOMAIN made, made[i].s = s PROVE Kept(s)
        <3> DEFINE d == made[i]
        <3>1. /\ BatchReviewer \in Reviewers /\ "reviewed_source_linked" \in REVIEWED
              /\ clock + 1 \in Nat
            BY <1>t, RecordsAssumption DEF REVIEWED, TypeOK
        <3>2. d.s \in Known /\ d.decision \in Decisions /\ d = Entry(d) /\ row'[d.s].status = d.to
            BY <2>1 DEF Carried
        <3> HIDE DEF d
        <3>3. Sound(Entry(d))
            BY <1>t, <3>1, <3>2, ReadNow DEF Entry
        <3>4. d.to # "absent"
            BY <3>2, <3>3 DEF Sound
        <3>5. row'[s].status # "absent"
            BY <2>4, <3>2, <3>4 DEF d
        <3> QED BY <2>2, <3>5 DEF Kept
    <2> QED BY <2>1, <2>3, <2>4
<1>13. ASSUME NEW ranged \in SUBSET anchoring, NEW item \in Items, ApplyAnchors(ranged, item)
       PROVE  Kept(s)
    <2>1. /\ row' = [x \in Statements |->
                        IF x \in ranged THEN [row[x] EXCEPT !.anchor = item] ELSE row[x]]
          /\ \A x \in ranged : row[x].anchor \in {NoItem, item}
        BY <1>13 DEF ApplyAnchors, MayAnchor
    <2>2. CASE s \in ranged
        <3>1. row[s] \in Row /\ row[s].status # "absent"
            BY <1>t, <2>2 DEF TypeOK, AnchorsOK, Known
        <3>2. row'[s] = [row[s] EXCEPT !.anchor = item]
            BY <2>1, <2>2
        <3>3. row'[s].status = row[s].status /\ row'[s].anchor = item
            BY <3>1, <3>2 DEF Row
        <3> QED BY <2>1, <2>2, <3>1, <3>3 DEF Kept
    <2>3. CASE s \notin ranged
        BY <1>a, <2>1, <2>3 DEF Kept
    <2> QED BY <2>2, <2>3
<1>14. ASSUME NEW x \in Statements, OwnerPublishes(x) PROVE Kept(s)
    <2>1. row' = [row EXCEPT ![x].publication = "publishable"]
        BY <1>14 DEF OwnerPublishes
    <2>2. row \in [Statements -> Row]
        BY <1>t DEF TypeOK
    <2>3. row'[s].status = row[s].status /\ row'[s].anchor = row[s].anchor
        BY <2>1, <2>2 DEF Row
    <2> QED BY <1>a, <2>3 DEF Kept
<1> QED BY <1>1, <1>5, <1>10, <1>11, <1>13, <1>14 DEF Next, run_risk, register_reviewer,
        revoke_reviewer, Consider, resolve_flag, _assert_source_unchanged

LEMMA AnchorsStay == Inv /\ Replays /\ AnchorsOK /\ [Next]_vars => AnchorsOK'
<1> SUFFICES ASSUME Inv, Replays, AnchorsOK, [Next]_vars PROVE AnchorsOK'
    OBVIOUS
<1>1. CASE UNCHANGED vars
    BY <1>1 DEF vars, AnchorsOK, Known
<1>2. CASE Next
    <2>1. \A s \in Statements : Kept(s)
        BY <1>2, AnchorStep, SMTT(30)
    <2>2. anchoring' = anchoring \/ anchoring' = {} \/ anchoring' = target_statements
        BY <1>2 DEF Next, run_extraction, run_risk, register_reviewer, revoke_reviewer, Consider,
            promote_statement, resolve_flag, ApplyPromotions, _assert_source_unchanged,
            ApplyAnchors, OwnerPublishes
    <2>3. anchoring' \subseteq Known
        BY <2>2 DEF AnchorsOK, target_statements
    <2>4. Known \subseteq Known'
        BY <2>1 DEF Known, Kept
    <2> QED BY <2>1, <2>3, <2>4 DEF AnchorsOK, Kept
<1> QED BY <1>1, <1>2

(* An anchor once set changes only with a decision that names another.     *)
(* (agenda_anchor_batch.apply_manifest, reviewer_promotion_batch)          *)
THEOREM AnchorsStand == Spec => AnchorsMoveWithDecisions
<1> DEFINE Moved ==
        \A s \in Statements :
            row[s].anchor # NoItem /\ row'[s].anchor # row[s].anchor
                => Len(decisions') > Len(decisions)
<1>1. Init => AnchorsOK
    <2>1. Absent.anchor = NoItem
        BY DEF Absent
    <2> QED BY <2>1 DEF Init, AnchorsOK
<1>2. Inv /\ Replays /\ AnchorsOK /\ [Next]_vars => [Moved]_vars
    BY AnchorStep DEF Kept
<1>3. Spec => [][Moved]_vars
    BY <1>1, <1>2, AnchorsStay, InvHolds, ReplaysHolds, PTL DEF Spec
<1> QED BY <1>3 DEF AnchorsMoveWithDecisions
=============================================================================
