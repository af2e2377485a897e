--------------------------- MODULE AccountsProofs ---------------------------
(***************************************************************************)
(* Proofs about scripts/accounts: the beta front door, for any number of   *)
(* requests in flight, any limits and any number of the owner's commands,  *)
(* and the cohorts, for any number of users and steps and any caps.        *)
(***************************************************************************)
EXTENDS BetaGate, Cohorts, FiniteSetTheorems, WellFoundedInduction, TLAPS

-----------------------------------------------------------------------------
(* Where a request can be.  Past its claim it alone holds its token; past  *)
(* its check it remembers the revocation it was checked under.             *)
Checked == {"find", "create", "tier", "ref", "approve", "notify", "issue"}
Claimed == Checked \cup {"check"}
Placed == Checked \ {"find", "create"}
Asking == {"ask_allowed", "ask_issue"}
PCs == Claimed \cup Asking \cup
  {"new", "done", "ask", "join", "join_write", "link", "code", "miss", "claim",
   "signout", "delete", "delete_write", "login", "login_issue"}
Local == [pc : PCs, arg : Nat, epoch : Nat, seen : Nat]

In(pcs) == {r \in Requests : request[r].pc \in pcs}
Missing(t) == {r \in Requests : request[r].pc = "miss" /\ request[r].arg = t}
Recent == {t \in DOMAIN tokens : tokens[t].age # "old"}

TokenRows == [consumed : BOOLEAN, attempts : Nat, age : Ages]
SessionRows == [live : BOOLEAN, token : Nat, epoch : Nat, issued : Nat]
BearerRows == [live : BOOLEAN, issued : Nat]
GrantRows == [tier : Tiers, by : {"door", "owner"}, seen : Nat]

Types == TypeOK /\ request \in [Requests -> Local]

(* What a request carries over still means what it meant when it was read. *)
Carries(p) ==
  /\ p.pc \in Claimed \cup {"claim", "miss"} => p.arg \in DOMAIN tokens
  /\ p.pc \in Claimed => tokens[p.arg].consumed
  /\ p.pc \in Placed => account # "none"
  /\ p.pc \in {"ref", "approve"} =>
       /\ p.seen <= Len(grants)
       /\ p.seen > 0 => grants[p.seen].tier \notin ClosedTiers
  /\ p.epoch <= revokes

Requesting ==
  /\ \A r \in Requests : Carries(request[r])
  /\ account = "none" => grants = <<>>

(* A consumed token is in one pair of hands: a request's or a session's.   *)
Credentials ==
  /\ \A r, q \in In(Claimed) : request[r].arg = request[q].arg => r = q
  /\ \A s \in DOMAIN sessions :
       /\ sessions[s].token \in DOMAIN tokens
       /\ tokens[sessions[s].token].consumed
       /\ sessions[s].issued <= revokes
       /\ \A r \in In(Claimed) : request[r].arg # sessions[s].token
  /\ OneSessionPerToken

(* Whoever has read a count and not written yet is counted with it.        *)
Limits ==
  /\ Cardinality(InProgress) <= InFlight
  /\ Cardinality(Recent) + Cardinality(In(Asking)) <= RateLimit + InFlight - 1
  /\ waitlist + Cardinality(In({"join_write"})) <= RateLimit + InFlight - 1
  /\ \A t \in DOMAIN tokens :
       tokens[t].attempts + Cardinality(Missing(t)) <= MaxCodeAttempts + InFlight - 1

(* Sessions issued since the last revocation on a check from before it,    *)
(* and the requests that may still issue one.                              *)
LateSessions == {s \in DOMAIN sessions : sessions[s].issued = revokes /\ sessions[s].epoch < revokes}
LateRequests == {r \in In(Checked) : request[r].epoch < revokes}

Overtaken == Cardinality(LateSessions) + Cardinality(LateRequests) <= InFlight

(* Until somebody is killed, the only open sessions from before a          *)
(* revocation are those its next commit is about to close.                 *)
Closing ==
  ~killed =>
    /\ owner # "cascade" =>
         \A s \in DOMAIN sessions : sessions[s].live => sessions[s].issued = revokes
    /\ owner # "close_bearer" =>
         \A b \in DOMAIN bearer : bearer[b].live => bearer[b].issued = Taken("revoked")

(* Decisions taken are notices written and notices about to be.            *)
One(b) == IF b THEN 1 ELSE 0
ToldOrTelling == Told("access_approved") + Cardinality(In({"notify"})) + One(owner = "tell_approved")
ToldOrClosing == Told("access_revoked") + One(owner \in {"close_bearer", "tell_revoked"})

Telling ==
  /\ ToldOrTelling <= Taken("approved")
  /\ ToldOrClosing <= Taken("revoked")
  /\ ~killed => ToldOrTelling = Taken("approved") /\ ToldOrClosing = Taken("revoked")

GateInv ==
  Types /\ Requesting /\ Credentials /\ Limits /\ Overtaken /\ Closing /\ Telling
    /\ DoorReopensOnlyIfOvertaken

-----------------------------------------------------------------------------
(* Sets that gain or lose one element.                                     *)
LEMMA Grows ==
  ASSUME NEW S, IsFiniteSet(S), NEW x, NEW T, T \subseteq S \cup {x}
  PROVE  /\ IsFiniteSet(T)
         /\ Cardinality(T) <= Cardinality(S) + 1
         /\ T = S \cup {x} /\ x \notin S => Cardinality(T) = Cardinality(S) + 1
<1> DEFINE U == S \cup {x}
<1>1. /\ IsFiniteSet(U)
      /\ Cardinality(U) = IF x \in S THEN Cardinality(S) ELSE Cardinality(S) + 1
  BY FS_AddElement, Zenon
<1>2. Cardinality(S) \in Nat /\ Cardinality(U) \in Nat
  BY <1>1, FS_CardinalityType
<1>3. T \in SUBSET U
  OBVIOUS
<1>4. IsFiniteSet(T) /\ Cardinality(T) <= Cardinality(U)
  BY <1>1, <1>3, FS_Subset
<1>5. Cardinality(T) \in Nat
  BY <1>4, FS_CardinalityType
<1> HIDE DEF U
<1> QED BY <1>1, <1>2, <1>4, <1>5 DEF U

LEMMA Shrinks ==
  ASSUME NEW S, IsFiniteSet(S), NEW x \in S, NEW T, T \subseteq S \ {x}
  PROVE  /\ IsFiniteSet(T)
         /\ Cardinality(T) + 1 <= Cardinality(S)
         /\ T = S \ {x} => Cardinality(T) + 1 = Cardinality(S)
<1> DEFINE U == S \ {x}
<1>1. IsFiniteSet(U) /\ Cardinality(U) = Cardinality(S) - 1
  BY FS_RemoveElement
<1>2. IsFiniteSet(T) /\ Cardinality(T) <= Cardinality(U)
  <2>1. T \in SUBSET U
    OBVIOUS
  <2> QED BY <1>1, <2>1, FS_Subset
<1>3. Cardinality(S) \in Nat /\ Cardinality(T) \in Nat
  BY <1>2, FS_CardinalityType
<1>4. T = S \ {x} => T = U
  OBVIOUS
<1> HIDE DEF U
<1> QED BY <1>1, <1>2, <1>3, <1>4

LEMMA Within ==
  ASSUME NEW S, IsFiniteSet(S), NEW T, T \subseteq S
  PROVE  IsFiniteSet(T) /\ Cardinality(T) <= Cardinality(S)
BY FS_Subset

LEMMA RequestsCount ==
  ASSUME NEW S \in SUBSET Requests
  PROVE  IsFiniteSet(S) /\ Cardinality(S) \in Nat
BY BetaAssumption, FS_Subset, FS_CardinalityType

LEMMA IndexesCount ==
  ASSUME NEW n \in Nat, NEW S \in SUBSET (1..n)
  PROVE  IsFiniteSet(S) /\ Cardinality(S) \in Nat
<1>1. IsFiniteSet(1..n)
  BY FS_Interval
<1> QED BY <1>1, FS_Subset, FS_CardinalityType

LEMMA ElementOfSeq ==
  ASSUME NEW S, NEW s \in Seq(S)
  PROVE  /\ Len(s) \in Nat /\ DOMAIN s = 1..Len(s)
         /\ \A i \in DOMAIN s : s[i] \in S
OBVIOUS

LEMMA AppendAny ==
  ASSUME NEW S, NEW s \in Seq(S), NEW e, NEW new, new = Append(s, e)
  PROVE  /\ Len(s) \in Nat /\ DOMAIN s = 1..Len(s) /\ Len(new) = Len(s) + 1
         /\ DOMAIN new = DOMAIN s \cup {Len(s) + 1} /\ Len(s) + 1 \notin DOMAIN s
         /\ \A i \in DOMAIN s : new[i] = s[i]
         /\ new[Len(s) + 1] = e
OBVIOUS

LEMMA RowTypes ==
  ASSUME Types
  PROVE  /\ tokens \in Seq(TokenRows) /\ \A t \in DOMAIN tokens : tokens[t] \in TokenRows
         /\ sessions \in Seq(SessionRows) /\ \A s \in DOMAIN sessions : sessions[s] \in SessionRows
         /\ grants \in Seq(GrantRows) /\ \A i \in DOMAIN grants : grants[i] \in GrantRows
         /\ bearer \in Seq(BearerRows) /\ \A b \in DOMAIN bearer : bearer[b] \in BearerRows
<1>1. /\ tokens \in Seq(TokenRows) /\ sessions \in Seq(SessionRows)
      /\ grants \in Seq(GrantRows) /\ bearer \in Seq(BearerRows)
  BY DEF Types, TypeOK, TokenRows, SessionRows, GrantRows, BearerRows
<1>2. \A t \in DOMAIN tokens : tokens[t] \in TokenRows
  BY <1>1, ElementOfSeq
<1>3. \A s \in DOMAIN sessions : sessions[s] \in SessionRows
  BY <1>1, ElementOfSeq
<1>4. \A i \in DOMAIN grants : grants[i] \in GrantRows
  BY <1>1, ElementOfSeq
<1>5. \A b \in DOMAIN bearer : bearer[b] \in BearerRows
  BY <1>1, ElementOfSeq
<1> QED BY <1>1, <1>2, <1>3, <1>4, <1>5

(* A set of naturals that is not empty has a least member, and a bounded  *)
(* one a greatest: Min and Max of the community modules choose them.       *)
LEMMA MinIsMember ==
    ASSUME NEW S \in SUBSET Nat, S # {}
    PROVE  /\ Min(S) \in S
           /\ \A j \in S : Min(S) <= j
<1> DEFINE R == OpToRel(<, Nat)
<1>1. IsWellFoundedOn(R, Nat)
    BY NatLessThanWellFounded
<1>2. R = {ss \in Nat \X Nat : ss[1] < ss[2]}
    BY DEF OpToRel
<1> HIDE DEF R
<1>3. \A x \in Nat, y \in Nat : <<y, x>> \in R <=> y < x
    BY <1>2
<1>4. PICK x \in S : \A y \in S : ~(<<y, x>> \in R)
    BY <1>1, WFMin
<1>5. \A y \in S : ~(y < x)
    BY <1>3, <1>4
<1>6. \A y \in S : x <= y
    BY <1>5
<1> QED BY <1>6, Zenon DEF Min

LEMMA MaxIsMember ==
    ASSUME NEW n \in Nat, NEW S \in SUBSET (1 .. n), S # {}
    PROVE  /\ Max(S) \in S
           /\ \A j \in S : j <= Max(S)
<1> DEFINE T == {n - i : i \in S}
<1>1. T \in SUBSET Nat /\ T # {}
    <2>1. \A i \in S : n - i \in Nat
        OBVIOUS
    <2> QED BY <2>1
<1>2. Min(T) \in T /\ \A l \in T : Min(T) <= l
    BY <1>1, MinIsMember
<1>3. PICK i \in S : Min(T) = n - i
    BY <1>2
<1>4. \A j \in S : n - i <= n - j
    BY <1>2, <1>3
<1>5. \A j \in S : i >= j
    BY <1>4
<1>6. Max(S) \in S /\ \A j \in S : Max(S) >= j
    BY <1>5, Zenon DEF Max
<1> QED BY <1>6


-----------------------------------------------------------------------------
(* How a request moves: where it may come from, and what it has read there. *)
Move(r, p) ==
  LET old == request[r] IN
  /\ request' = [request EXCEPT ![r] = p]
  /\ p.pc \notin {"new", "done"} =>
       old.pc \notin {"new", "done"} \/ Cardinality(InProgress) < InFlight
  /\ p.pc \in Asking => old.pc \in Asking \/ ~OverLimit
  /\ p.pc = "join_write" => waitlist < RateLimit
  /\ p.pc = "miss" => tokens[p.arg].attempts < MaxCodeAttempts
  /\ p.pc \in {"claim", "miss"} => p.arg \in DOMAIN tokens
  /\ p.pc \in Claimed =>
       /\ p.arg = old.arg
       /\ \/ old.pc \in Claimed
          \/ /\ old.pc = "claim" /\ ~tokens[p.arg].consumed
             /\ tokens'[p.arg].consumed
  /\ p.pc \in Checked =>
       p.epoch = revokes \/ (old.pc \in Checked /\ p.epoch = old.epoch)
  /\ p.pc \in Placed => old.pc \in Placed \/ account' # "none"
  /\ p.epoch <= revokes
  /\ p.pc = "ref" => p.seen = Len(grants) /\ CurrentTier \notin ClosedTiers
  /\ p.pc = "approve" => old.pc = "ref" /\ p.seen = old.seen
  /\ p.pc = "notify" <=> old.pc = "approve"
  /\ old.pc = "approve" => DoorApproves(r)
  /\ old.pc = "notify" => DoorNotifies(r)

(* No request moves, but for those a killed server takes with it.          *)
Settled ==
  /\ request' \in [Requests -> Local]
  /\ \/ UNCHANGED request
     \/ killed' /\ \A r \in Requests :
          request'[r] = request[r] \/ (request'[r].pc = "done" /\ request'[r].epoch = 0)

LEMMA Going ==
  ASSUME request \in [Requests -> Local], NEW r \in Requests, NEW pc \in PCs, Goto(r, pc)
  PROVE  \E p \in Local :
           /\ request' = [request EXCEPT ![r] = p] /\ p.pc = pc
           /\ p.arg = request[r].arg /\ p.epoch = request[r].epoch /\ p.seen = request[r].seen
<1> DEFINE p == [request[r] EXCEPT !.pc = pc]
<1>1. request[r] \in Local
  OBVIOUS
<1>2. /\ p \in Local /\ p.pc = pc
      /\ p.arg = request[r].arg /\ p.epoch = request[r].epoch /\ p.seen = request[r].seen
  BY <1>1 DEF Local
<1>3. request' = [request EXCEPT ![r] = p]
  BY Zenon DEF Goto
<1> HIDE DEF p
<1> QED BY <1>2, <1>3

LEMMA Answering ==
  ASSUME request \in [Requests -> Local], NEW r \in Requests, Answer(r)
  PROVE  \E p \in Local :
           /\ request' = [request EXCEPT ![r] = p] /\ p.pc = "done"
           /\ p.arg = 0 /\ p.epoch = 0 /\ p.seen = 0
<1> DEFINE p == [Idle EXCEPT !.pc = "done"]
<1>1. p \in Local /\ p.pc = "done" /\ p.arg = 0 /\ p.epoch = 0 /\ p.seen = 0
  BY DEF Idle, Local, PCs
<1>2. request' = [request EXCEPT ![r] = p]
  BY Zenon DEF Answer
<1> HIDE DEF p
<1> QED BY <1>1, <1>2

LEMMA AnswerMoves ==
  ASSUME Types, Requesting, NEW r \in Requests, Answer(r),
         request[r].pc \notin {"approve", "notify"}
  PROVE  \E p \in Local : Move(r, p) /\ p.pc = "done"
<1>1. PICK p \in Local : request' = [request EXCEPT ![r] = p] /\ p.pc = "done" /\ p.epoch = 0
  BY Answering DEF Types
<1>2. revokes \in Nat
  BY BetaAssumption DEF Types, TypeOK
<1>3. Move(r, p)
  BY <1>1, <1>2 DEF Move, Asking, Claimed, Checked, Placed
<1> QED BY <1>1, <1>3

LEMMA CurrentGrant ==
  ASSUME CurrentTier \notin ClosedTiers, Len(grants) > 0
  PROVE  grants[Len(grants)].tier \notin ClosedTiers
BY DEF CurrentTier, Last

LEMMA ArrivalMoves ==
  ASSUME Types, Requesting, NEW r \in Requests, Arrival(r)
  PROVE  \E p \in Local : Move(r, p)
<1>0. PICK kind \in Kinds : \E arg \in Arguments(kind) : Arrive(r, kind, arg)
  BY DEF Arrival
<1>1. PICK arg \in Arguments(kind) : Arrive(r, kind, arg)
  BY <1>0
<1>2. request[r].pc = "new"
  BY <1>1 DEF Arrive, At
<1>3. CASE Answer(r)
  BY <1>2, <1>3, AnswerMoves
<1>4. CASE request' = [request EXCEPT ![r] = [@ EXCEPT !.pc = kind, !.arg = arg]]
  <2> DEFINE old == request[r]
             p == [old EXCEPT !.pc = kind, !.arg = arg]
  <2>1. old \in Local /\ old.epoch <= revokes
    BY DEF Types, Requesting, Carries
  <2>2. arg \in Nat
    <3>1. Len(tokens) \in Nat /\ DOMAIN sessions \subseteq Nat
      BY DEF Types, TypeOK
    <3>2. Arguments(kind) \subseteq Nat
      BY <3>1 DEF Arguments, Kinds
    <3> QED BY <3>2
  <2>3. kind \in PCs
    BY DEF Kinds, PCs, Claimed, Checked, Asking
  <2>4. p \in Local /\ p.pc = kind /\ p.epoch = old.epoch
    BY <2>1, <2>2, <2>3 DEF Local
  <2>5. request' = [request EXCEPT ![r] = p]
    BY <1>4, Zenon
  <2>6. Cardinality(InProgress) < InFlight
    BY <1>1 DEF Arrive
  <2> HIDE DEF p
  <2>7. Move(r, p)
    BY <1>2, <2>1, <2>4, <2>5, <2>6 DEF Move, Kinds, Asking, Claimed, Checked, Placed
  <2> QED BY <2>4, <2>7
<1> QED BY <1>1, <1>3, <1>4 DEF Arrive

LEMMA AskMoves ==
  ASSUME Types, Requesting, NEW r \in Requests,
         Ask(r) \/ AskAllowed(r) \/ IssueToken(r) \/ Join(r) \/ RecordJoin(r)
  PROVE  \E p \in Local : Move(r, p)
<1>1. /\ revokes \in Nat /\ request[r] \in Local /\ request[r].epoch <= revokes
      /\ request \in [Requests -> Local]
  BY BetaAssumption DEF Types, TypeOK, Requesting, Carries
<1>2. CASE Answer(r)
  <2>1. request[r].pc \notin {"approve", "notify"}
    BY DEF Ask, AskAllowed, IssueToken, Join, RecordJoin, Reads, At
  <2> QED BY <1>2, <2>1, AnswerMoves
<1>3. CASE ~Answer(r)
  <2>1. \/ request[r].pc = "ask" /\ ~OverLimit /\ Goto(r, "ask_allowed")
        \/ request[r].pc = "ask_allowed" /\ Goto(r, "ask_issue")
        \/ request[r].pc = "join" /\ waitlist < RateLimit /\ Goto(r, "join_write")
    BY <1>3, BetaAssumption DEF Types, TypeOK, Ask, AskAllowed, IssueToken, Join, RecordJoin, Reads, At
  <2>2. PICK pc \in {"ask_allowed", "ask_issue", "join_write"} :
          /\ Goto(r, pc) /\ (request[r].pc = "ask_allowed" \/ ~OverLimit \/ pc = "join_write")
          /\ (pc = "join_write" => waitlist < RateLimit)
          /\ request[r].pc \in {"ask", "join", "ask_allowed"}
    BY <2>1
  <2>3. pc \in PCs
    BY DEF PCs, Asking
  <2>4. PICK p \in Local : /\ request' = [request EXCEPT ![r] = p] /\ p.pc = pc
                           /\ p.epoch = request[r].epoch
    BY <1>1, <2>2, <2>3, Going
  <2>5. Move(r, p)
    BY <1>1, <2>2, <2>4 DEF Move, Asking, Claimed, Checked, Placed
  <2> QED BY <2>5
<1> QED BY <1>2, <1>3

LEMMA CredentialMoves ==
  ASSUME Types, Requesting, NEW r \in Requests,
         Link(r) \/ Code(r) \/ CountMiss(r) \/ ClaimToken(r)
  PROVE  \E p \in Local : Move(r, p)
<1>1. /\ revokes \in Nat /\ request[r] \in Local /\ request[r].epoch <= revokes
      /\ request \in [Requests -> Local]
      /\ tokens \in Seq([consumed : BOOLEAN, attempts : Nat, age : Ages])
      /\ MaxCodeAttempts \in Nat
  BY BetaAssumption DEF Types, TypeOK, Requesting, Carries
<1>2. CASE Answer(r)
  <2>1. request[r].pc \notin {"approve", "notify"}
    BY DEF Link, Code, CountMiss, ClaimToken, Reads, At
  <2> QED BY <1>2, <2>1, AnswerMoves
<1>3. CASE Link(r) /\ ~Answer(r)
  <2>1. /\ request[r].pc = "link" /\ Goto(r, "claim")
        /\ request[r].arg \in DOMAIN tokens
    BY <1>3 DEF Link, Reads, At, Unconsumed
  <2>2. PICK p \in Local : /\ request' = [request EXCEPT ![r] = p] /\ p.pc = "claim"
                           /\ p.arg = request[r].arg /\ p.epoch = request[r].epoch
    BY <1>1, <2>1, Going DEF PCs
  <2>3. Move(r, p)
    BY <1>1, <2>1, <2>2 DEF Move, Asking, Claimed, Checked, Placed
  <2> QED BY <2>3
<1>4. CASE Code(r) /\ ~Answer(r)
  <2> DEFINE t == Max(Unconsumed)
  <2>1. /\ Unconsumed # {} /\ ~(tokens[t].attempts >= MaxCodeAttempts) /\ request[r].pc = "code"
        /\ \/ request[r].arg = t /\ Goto(r, "claim")
           \/ request' = [request EXCEPT ![r] = [@ EXCEPT !.pc = "miss", !.arg = t]]
    BY <1>4, Zenon DEF Code, Reads, At
  <2>2. t \in DOMAIN tokens
    <3>1. Len(tokens) \in Nat /\ DOMAIN tokens = 1..Len(tokens)
      BY <1>1
    <3>2. Unconsumed \in SUBSET (1..Len(tokens))
      BY <3>1 DEF Unconsumed
    <3>3. t \in Unconsumed
      BY <2>1, <3>1, <3>2, MaxIsMember, Zenon
    <3> QED BY <3>3 DEF Unconsumed
  <2> HIDE DEF t
  <2>3. t \in Nat /\ tokens[t].attempts < MaxCodeAttempts
    <3>1. DOMAIN tokens = 1..Len(tokens) /\ Len(tokens) \in Nat
      BY <1>1
    <3>2. tokens[t] \in TokenRows
      BY <2>2, RowTypes
    <3>3. tokens[t].attempts \in Nat
      BY <3>2 DEF TokenRows
    <3> QED BY <1>1, <2>1, <2>2, <3>1, <3>3
  <2>4. CASE request[r].arg = t /\ Goto(r, "claim")
    <3>1. PICK p \in Local : /\ request' = [request EXCEPT ![r] = p] /\ p.pc = "claim"
                             /\ p.arg = request[r].arg /\ p.epoch = request[r].epoch
      BY <1>1, <2>4, Going DEF PCs
    <3>2. Move(r, p)
      BY <1>1, <2>1, <2>2, <2>4, <3>1 DEF Move, Asking, Claimed, Checked, Placed
    <3> QED BY <3>2
  <2>5. CASE request' = [request EXCEPT ![r] = [@ EXCEPT !.pc = "miss", !.arg = t]]
    <3> DEFINE old == request[r]
               p == [old EXCEPT !.pc = "miss", !.arg = t]
    <3>1. p \in Local /\ p.pc = "miss" /\ p.arg = t /\ p.epoch = old.epoch
      BY <1>1, <2>3 DEF Local, PCs
    <3>2. request' = [request EXCEPT ![r] = p]
      BY <2>5, Zenon
    <3> HIDE DEF p
    <3>3. Move(r, p)
      BY <1>1, <2>1, <2>2, <2>3, <3>1, <3>2 DEF Move, Asking, Claimed, Checked, Placed
    <3> QED BY <3>1, <3>3
  <2> QED BY <2>1, <2>4, <2>5
<1>5. CASE (CountMiss(r) \/ ClaimToken(r)) /\ ~Answer(r)
  <2> DEFINE t == request[r].arg
             row == [tokens[t] EXCEPT !.consumed = TRUE]
  <2>0. /\ request[r].pc = "claim" /\ Goto(r, "check") /\ ~tokens[t].consumed
        /\ tokens' = [tokens EXCEPT ![t] = row]
    BY <1>5, Zenon DEF CountMiss, ClaimToken, At
  <2>4. t \in DOMAIN tokens
    BY <2>0 DEF Requesting, Carries
  <2>5. tokens[t] \in [consumed : BOOLEAN, attempts : Nat, age : Ages]
    BY <2>4, RowTypes DEF TokenRows
  <2>6. row.consumed
    BY <2>5
  <2> HIDE DEF row
  <2>7. tokens'[t].consumed
    BY <2>0, <2>4, <2>6
  <2>1. /\ request[r].pc = "claim" /\ Goto(r, "check") /\ ~tokens[request[r].arg].consumed
        /\ tokens'[request[r].arg].consumed
    BY <2>0, <2>7
  <2>2. PICK p \in Local : /\ request' = [request EXCEPT ![r] = p] /\ p.pc = "check"
                           /\ p.arg = request[r].arg /\ p.epoch = request[r].epoch
    BY <1>1, <2>1, Going DEF PCs, Claimed
  <2>3. Move(r, p)
    BY <1>1, <2>1, <2>2 DEF Move, Asking, Claimed, Checked, Placed
  <2> QED BY <2>3
<1> QED BY <1>2, <1>3, <1>4, <1>5

LEMMA DoorGoes ==
  ASSUME Types, Requesting, NEW r \in Requests, NEW pc \in Checked \ {"ref"}, Goto(r, pc),
         request[r].pc \in Checked,
         pc = "approve" => request[r].pc = "ref",
         pc = "notify" <=> request[r].pc = "approve",
         request[r].pc = "approve" => DoorApproves(r),
         request[r].pc = "notify" => DoorNotifies(r),
         pc \in Placed => request[r].pc \in Placed \/ account' # "none"
  PROVE  \E p \in Local : Move(r, p)
<1>1. /\ revokes \in Nat /\ request[r] \in Local /\ request[r].epoch <= revokes
      /\ request \in [Requests -> Local]
  BY BetaAssumption DEF Types, TypeOK, Requesting, Carries
<1>2. PICK p \in Local :
        /\ request' = [request EXCEPT ![r] = p] /\ p.pc = pc /\ p.arg = request[r].arg
        /\ p.epoch = request[r].epoch /\ p.seen = request[r].seen
  BY <1>1, Going DEF PCs, Claimed
<1>3. Move(r, p)
  BY <1>1, <1>2 DEF Move, Asking, Claimed, Checked, Placed
<1> QED BY <1>3

LEMMA DoorMoves ==
  ASSUME Types, Requesting, NEW r \in Requests,
         \/ CheckAllowed(r) \/ FindUser(r) \/ CreateUser(r) \/ ReadTier(r) \/ ReadRef(r)
         \/ DoorApproves(r) \/ DoorNotifies(r) \/ IssueSession(r)
  PROVE  \E p \in Local : Move(r, p)
<1> DEFINE old == request[r]
<1>1. /\ revokes \in Nat /\ old \in Local /\ old.epoch <= revokes
      /\ request \in [Requests -> Local]
      /\ Len(grants) \in Nat
  BY BetaAssumption DEF Types, TypeOK, Requesting, Carries
<1>2. CASE CheckAllowed(r)
  <2>1. old.pc = "check"
    BY <1>2 DEF CheckAllowed, Reads, At
  <2>2. CASE Answer(r)
    BY <2>1, <2>2, AnswerMoves
  <2>3. CASE request' = [request EXCEPT ![r] = [@ EXCEPT !.pc = "find", !.epoch = revokes]]
    <3> DEFINE p == [old EXCEPT !.pc = "find", !.epoch = revokes]
    <3>1. p \in Local /\ p.pc = "find" /\ p.arg = old.arg /\ p.epoch = revokes
      BY <1>1 DEF Local, PCs, Claimed, Checked
    <3>2. request' = [request EXCEPT ![r] = p]
      BY <2>3, Zenon
    <3> HIDE DEF p
    <3>3. Move(r, p)
      BY <1>1, <2>1, <3>1, <3>2 DEF Move, Asking, Claimed, Checked, Placed
    <3> QED BY <3>1, <3>3
  <2> QED BY <1>2, <2>2, <2>3 DEF CheckAllowed, Reads
<1>3. CASE FindUser(r)
  <2>1. \/ old.pc = "find" /\ Goto(r, "tier") /\ account # "none"
        \/ old.pc = "find" /\ Goto(r, "create")
    BY <1>3, Zenon DEF FindUser, Reads, At
  <2>2. UNCHANGED account
    BY <1>3 DEF FindUser, Reads, stores
  <2> QED BY <2>1, <2>2, DoorGoes DEF Checked, Placed
<1>4. CASE CreateUser(r)
  <2>1. old.pc = "create" /\ Goto(r, "tier") /\ account' # "none"
    BY <1>4 DEF CreateUser, At
  <2> QED BY <2>1, DoorGoes DEF Checked, Placed
<1>5. CASE ReadTier(r)
  <2>1. old.pc = "tier"
    BY <1>5, Zenon DEF ReadTier, Reads, At
  <2>2. CASE Goto(r, "issue")
    BY <2>1, <2>2, DoorGoes DEF Checked, Placed
  <2>3. CASE ~Goto(r, "issue")
    <3> DEFINE p == [old EXCEPT !.pc = "ref", !.seen = Len(grants)]
    <3>1. p \in Local /\ p.pc = "ref" /\ p.arg = old.arg /\ p.epoch = old.epoch
          /\ p.seen = Len(grants)
      BY <1>1 DEF Local, PCs, Claimed, Checked
    <3>2. /\ request' = [request EXCEPT ![r] = p]
          /\ CurrentTier \notin ClosedTiers
      BY <1>5, <2>3, Zenon DEF ReadTier, Reads
    <3> HIDE DEF p
    <3>3. Move(r, p)
      BY <1>1, <2>1, <3>1, <3>2 DEF Move, Asking, Claimed, Checked, Placed
    <3> QED BY <3>1, <3>3
  <2> QED BY <2>2, <2>3
<1>6. CASE ReadRef(r)
  <2>1. \/ old.pc = "ref" /\ Goto(r, "approve")
        \/ old.pc = "ref" /\ Goto(r, "issue")
    BY <1>6, Zenon DEF ReadRef, Reads, At
  <2> QED BY <2>1, DoorGoes DEF Checked, Placed
<1>7. CASE DoorApproves(r)
  <2>1. old.pc = "approve" /\ Goto(r, "notify")
    BY <1>7, Zenon DEF DoorApproves, At
  <2> QED BY <1>7, <2>1, DoorGoes DEF Checked, Placed
<1>8. CASE DoorNotifies(r)
  <2>1. old.pc = "notify" /\ Goto(r, "issue")
    BY <1>8, Zenon DEF DoorNotifies, At
  <2> QED BY <1>8, <2>1, DoorGoes DEF Checked, Placed
<1>9. CASE IssueSession(r)
  BY <1>9, AnswerMoves DEF IssueSession, At
<1> QED BY <1>2, <1>3, <1>4, <1>5, <1>6, <1>7, <1>8, <1>9

LEMMA AccountMoves ==
  ASSUME Types, Requesting, NEW r \in Requests,
         \/ SignOut(r) \/ Delete(r) \/ RecordDeletion(r) \/ Login(r) \/ IssueBearer(r)
  PROVE  \E p \in Local : Move(r, p)
<1>1. /\ revokes \in Nat /\ request[r] \in Local /\ request[r].epoch <= revokes
      /\ request \in [Requests -> Local]
  BY BetaAssumption DEF Types, TypeOK, Requesting, Carries
<1>2. request[r].pc \in {"signout", "delete", "delete_write", "login", "login_issue"}
  BY Zenon DEF SignOut, Delete, RecordDeletion, Login, IssueBearer, Reads, At
<1>3. CASE Answer(r)
  BY <1>2, <1>3, AnswerMoves
<1>4. CASE ~Answer(r)
  <2>1. PICK pc \in {"delete_write", "login_issue"} : Goto(r, pc)
    BY <1>4, Zenon DEF SignOut, Delete, RecordDeletion, Login, IssueBearer, Reads
  <2>2. PICK p \in Local : /\ request' = [request EXCEPT ![r] = p] /\ p.pc = pc
                           /\ p.epoch = request[r].epoch
    BY <1>1, <2>1, Going DEF PCs
  <2>3. Move(r, p)
    BY <1>1, <1>2, <2>1, <2>2 DEF Move, Asking, Claimed, Checked, Placed
  <2> QED BY <2>3
<1> QED BY <1>3, <1>4

(* Every step moves one request, or none but for those a kill takes.       *)
LEMMA Movement ==
  ASSUME Types, Requesting, [Next]_vars
  PROVE  Settled \/ \E r \in Requests, p \in Local : Move(r, p)
<1>1. CASE \E r \in Requests : Arrival(r)
  BY <1>1, ArrivalMoves
<1>2. CASE \E r \in Requests : Handler(r)
  <2>1. PICK r \in Requests : Handler(r)
    BY <1>2
  <2> QED BY <2>1, AskMoves, CredentialMoves, DoorMoves, AccountMoves, Zenon DEF Handler
<1>3. CASE ServerDies
  <2>1. /\ Idle.epoch = 0 /\ [Idle EXCEPT !.pc = "done"] \in Local
        /\ [Idle EXCEPT !.pc = "done"].pc = "done" /\ [Idle EXCEPT !.pc = "done"].epoch = 0
    BY DEF Idle, Local, PCs
  <2> QED BY <1>3, <2>1 DEF ServerDies, Settled, Types
<1>4. CASE UNCHANGED request
  BY <1>4 DEF Settled, Types
<1>5. CASE OwnerStep
  <2>1. UNCHANGED request
    BY <1>5, Zenon DEF OwnerStep, Invite, Uninvite, CascadeSessions, SwitchGate, Decide, CloseBearer,
                Tell, SetPassword, stores, history
  <2> QED BY <1>4, <2>1
<1>6. CASE (\E t \in DOMAIN tokens : Passes(t)) \/ JoinPasses \/ OwnerDies \/ UNCHANGED vars
  <2>1. UNCHANGED request
    BY <1>6 DEF Passes, JoinPasses, OwnerDies, vars
  <2> QED BY <1>4, <2>1
<1> QED BY <1>1, <1>2, <1>3, <1>5, <1>6 DEF Next

-----------------------------------------------------------------------------
(* Which actions write which table.                                        *)
LEMMA Readers ==
  ASSUME NEW r \in Requests,
         \/ Arrival(r) \/ Ask(r) \/ AskAllowed(r) \/ Join(r) \/ Link(r) \/ Code(r) \/ CheckAllowed(r)
         \/ FindUser(r) \/ ReadTier(r) \/ ReadRef(r) \/ Delete(r) \/ Login(r)
  PROVE  UNCHANGED <<stores, owner, history>>
BY Zenon DEF Arrival, Arrive, Ask, AskAllowed, Join, Link, Code, CheckAllowed, FindUser, ReadTier,
             ReadRef, Delete, Login, Reads

LEMMA TokenWriters ==
  ASSUME [Next]_vars
  PROVE  \/ UNCHANGED tokens
         \/ \E r \in Requests : IssueToken(r) \/ CountMiss(r) \/ ClaimToken(r)
         \/ \E t \in DOMAIN tokens : Passes(t)
<1>1. ASSUME NEW r \in Requests, Handler(r)
      PROVE  UNCHANGED tokens \/ IssueToken(r) \/ CountMiss(r) \/ ClaimToken(r)
  BY <1>1, Readers DEF Handler, stores, history, RecordJoin, CreateUser, DoorApproves, DoorNotifies, IssueSession, SignOut,
     RecordDeletion, IssueBearer
<1>2. OwnerStep => UNCHANGED tokens
  BY DEF OwnerStep, stores, history, Invite, Uninvite, CascadeSessions, SwitchGate, Decide, CloseBearer, Tell,
     SetPassword
<1>3. JoinPasses \/ ServerDies \/ OwnerDies \/ UNCHANGED vars =>
        UNCHANGED tokens
  BY DEF JoinPasses, ServerDies, OwnerDies, vars, stores, history
<1>4. \A r \in Requests : Arrival(r) => UNCHANGED tokens
  BY Readers DEF stores, history
<1> QED BY <1>1, <1>2, <1>3, <1>4, Zenon DEF Next

LEMMA SessionWriters ==
  ASSUME [Next]_vars
  PROVE  \/ UNCHANGED sessions
         \/ \E r \in Requests : IssueSession(r) \/ SignOut(r)
         \/ CascadeSessions
<1>1. ASSUME NEW r \in Requests, Handler(r)
      PROVE  UNCHANGED sessions \/ IssueSession(r) \/ SignOut(r)
  BY <1>1, Readers DEF Handler, stores, history, IssueToken, RecordJoin, CountMiss, ClaimToken, CreateUser, DoorApproves,
     DoorNotifies, RecordDeletion, IssueBearer
<1>2. OwnerStep => UNCHANGED sessions \/ CascadeSessions
  BY DEF OwnerStep, stores, history, Invite, Uninvite, SwitchGate, Decide, CloseBearer, Tell, SetPassword
<1>3. (\E t \in DOMAIN tokens : Passes(t)) \/ JoinPasses \/ ServerDies \/ OwnerDies \/ UNCHANGED vars =>
        UNCHANGED sessions
  BY DEF Passes, JoinPasses, ServerDies, OwnerDies, vars, stores, history
<1>4. \A r \in Requests : Arrival(r) => UNCHANGED sessions
  BY Readers DEF stores, history
<1> QED BY <1>1, <1>2, <1>3, <1>4, Zenon DEF Next

LEMMA GrantWriters ==
  ASSUME [Next]_vars
  PROVE  \/ UNCHANGED grants
         \/ \E r \in Requests : CreateUser(r) \/ DoorApproves(r)
         \/ \E tier \in {"approved", "revoked", "paused"} : Decide(tier)
<1>1. ASSUME NEW r \in Requests, Handler(r)
      PROVE  UNCHANGED grants \/ CreateUser(r) \/ DoorApproves(r)
  BY <1>1, Readers DEF Handler, stores, history, IssueToken, RecordJoin, CountMiss, ClaimToken, DoorNotifies, IssueSession, SignOut,
     RecordDeletion, IssueBearer
<1>2. OwnerStep => UNCHANGED grants \/ (\E tier \in {"approved", "revoked", "paused"} : Decide(tier))
  BY DEF OwnerStep, stores, history, Invite, Uninvite, CascadeSessions, SwitchGate, CloseBearer, Tell, SetPassword
<1>3. (\E t \in DOMAIN tokens : Passes(t)) \/ JoinPasses \/ ServerDies \/ OwnerDies \/ UNCHANGED vars =>
        UNCHANGED grants
  BY DEF Passes, JoinPasses, ServerDies, OwnerDies, vars, stores, history
<1>4. \A r \in Requests : Arrival(r) => UNCHANGED grants
  BY Readers DEF stores, history
<1> QED BY <1>1, <1>2, <1>3, <1>4, Zenon DEF Next

LEMMA WaitlistWriters ==
  ASSUME [Next]_vars
  PROVE  \/ UNCHANGED waitlist
         \/ \E r \in Requests : RecordJoin(r)
         \/ JoinPasses
<1>1. ASSUME NEW r \in Requests, Handler(r)
      PROVE  UNCHANGED waitlist \/ RecordJoin(r)
  BY <1>1, Readers DEF Handler, stores, history, IssueToken, CountMiss, ClaimToken, CreateUser, DoorApproves, DoorNotifies,
     IssueSession, SignOut, RecordDeletion, IssueBearer
<1>2. OwnerStep => UNCHANGED waitlist
  BY DEF OwnerStep, stores, history, Invite, Uninvite, CascadeSessions, SwitchGate, Decide, CloseBearer, Tell,
     SetPassword
<1>3. (\E t \in DOMAIN tokens : Passes(t)) \/ ServerDies \/ OwnerDies \/ UNCHANGED vars =>
        UNCHANGED waitlist
  BY DEF Passes, ServerDies, OwnerDies, vars, stores, history
<1>4. \A r \in Requests : Arrival(r) => UNCHANGED waitlist
  BY Readers DEF stores, history
<1> QED BY <1>1, <1>2, <1>3, <1>4, Zenon DEF Next

LEMMA BearerWriters ==
  ASSUME [Next]_vars
  PROVE  \/ UNCHANGED bearer
         \/ \E r \in Requests : IssueBearer(r)
         \/ CloseBearer
<1>1. ASSUME NEW r \in Requests, Handler(r)
      PROVE  UNCHANGED bearer \/ IssueBearer(r)
  BY <1>1, Readers DEF Handler, stores, history, IssueToken, RecordJoin, CountMiss, ClaimToken, CreateUser, DoorApproves,
     DoorNotifies, IssueSession, SignOut, RecordDeletion
<1>2. OwnerStep => UNCHANGED bearer \/ CloseBearer
  BY DEF OwnerStep, stores, history, Invite, Uninvite, CascadeSessions, SwitchGate, Decide, Tell, SetPassword
<1>3. (\E t \in DOMAIN tokens : Passes(t)) \/ JoinPasses \/ ServerDies \/ OwnerDies \/ UNCHANGED vars =>
        UNCHANGED bearer
  BY DEF Passes, JoinPasses, ServerDies, OwnerDies, vars, stores, history
<1>4. \A r \in Requests : Arrival(r) => UNCHANGED bearer
  BY Readers DEF stores, history
<1> QED BY <1>1, <1>2, <1>3, <1>4, Zenon DEF Next

LEMMA NoticeWriters ==
  ASSUME [Next]_vars
  PROVE  \/ UNCHANGED notices
         \/ \E r \in Requests : DoorNotifies(r)
         \/ Tell
<1>1. ASSUME NEW r \in Requests, Handler(r)
      PROVE  UNCHANGED notices \/ DoorNotifies(r)
  BY <1>1, Readers DEF Handler, stores, history, IssueToken, RecordJoin, CountMiss, ClaimToken, CreateUser, DoorApproves,
     IssueSession, SignOut, RecordDeletion, IssueBearer
<1>2. OwnerStep => UNCHANGED notices \/ Tell
  BY DEF OwnerStep, stores, history, Invite, Uninvite, CascadeSessions, SwitchGate, Decide, CloseBearer, SetPassword
<1>3. (\E t \in DOMAIN tokens : Passes(t)) \/ JoinPasses \/ ServerDies \/ OwnerDies \/ UNCHANGED vars =>
        UNCHANGED notices
  BY DEF Passes, JoinPasses, ServerDies, OwnerDies, vars, stores, history
<1>4. \A r \in Requests : Arrival(r) => UNCHANGED notices
  BY Readers DEF stores, history
<1> QED BY <1>1, <1>2, <1>3, <1>4, Zenon DEF Next

LEMMA AccountWriters ==
  ASSUME [Next]_vars
  PROVE  \/ UNCHANGED account
         \/ \E r \in Requests : CreateUser(r)
         \/ SetPassword
<1>1. ASSUME NEW r \in Requests, Handler(r)
      PROVE  UNCHANGED account \/ CreateUser(r)
  BY <1>1, Readers DEF Handler, stores, history, IssueToken, RecordJoin, CountMiss, ClaimToken, DoorApproves, DoorNotifies,
     IssueSession, SignOut, RecordDeletion, IssueBearer
<1>2. OwnerStep => UNCHANGED account \/ SetPassword
  BY DEF OwnerStep, stores, history, Invite, Uninvite, CascadeSessions, SwitchGate, Decide, CloseBearer, Tell
<1>3. (\E t \in DOMAIN tokens : Passes(t)) \/ JoinPasses \/ ServerDies \/ OwnerDies \/ UNCHANGED vars =>
        UNCHANGED account
  BY DEF Passes, JoinPasses, ServerDies, OwnerDies, vars, stores, history
<1>4. \A r \in Requests : Arrival(r) => UNCHANGED account
  BY Readers DEF stores, history
<1> QED BY <1>1, <1>2, <1>3, <1>4, Zenon DEF Next

LEMMA RevokeWriters ==
  ASSUME [Next]_vars
  PROVE  \/ UNCHANGED revokes
         \/ Uninvite
<1>1. ASSUME NEW r \in Requests, Handler(r)
      PROVE  UNCHANGED revokes
  BY <1>1, Readers DEF Handler, stores, history, IssueToken, RecordJoin, CountMiss, ClaimToken, CreateUser, DoorApproves,
     DoorNotifies, IssueSession, SignOut, RecordDeletion, IssueBearer
<1>2. OwnerStep => UNCHANGED revokes \/ Uninvite
  BY DEF OwnerStep, stores, history, Invite, CascadeSessions, SwitchGate, Decide, CloseBearer, Tell, SetPassword
<1>3. (\E t \in DOMAIN tokens : Passes(t)) \/ JoinPasses \/ ServerDies \/ OwnerDies \/ UNCHANGED vars =>
        UNCHANGED revokes
  BY DEF Passes, JoinPasses, ServerDies, OwnerDies, vars, stores, history
<1>4. \A r \in Requests : Arrival(r) => UNCHANGED revokes
  BY Readers DEF stores, history
<1> QED BY <1>1, <1>2, <1>3, <1>4, Zenon DEF Next

LEMMA OwnerWriters ==
  ASSUME [Next]_vars
  PROVE  \/ UNCHANGED owner
         \/ \E tier \in {"approved", "revoked", "paused"} : Decide(tier)
         \/ Uninvite \/ CascadeSessions \/ CloseBearer \/ Tell \/ OwnerDies
<1>1. ASSUME NEW r \in Requests, Handler(r)
      PROVE  UNCHANGED owner
  BY <1>1, Readers DEF Handler, stores, history, IssueToken, RecordJoin, CountMiss, ClaimToken, CreateUser, DoorApproves,
     DoorNotifies, IssueSession, SignOut, RecordDeletion, IssueBearer
<1>2. OwnerStep => UNCHANGED owner \/ Uninvite \/ CascadeSessions \/ CloseBearer \/ Tell \/ (\E tier \in {"approved", "revoked", "paused"} : Decide(tier))
  BY DEF OwnerStep, stores, history, Invite, SwitchGate, SetPassword
<1>3. (\E t \in DOMAIN tokens : Passes(t)) \/ JoinPasses \/ ServerDies \/ UNCHANGED vars =>
        UNCHANGED owner
  BY DEF Passes, JoinPasses, ServerDies, vars, stores, history
<1>4. \A r \in Requests : Arrival(r) => UNCHANGED owner
  BY Readers DEF stores, history
<1> QED BY <1>1, <1>2, <1>3, <1>4, Zenon DEF Next

LEMMA Killers ==
  ASSUME [Next]_vars
  PROVE  \/ UNCHANGED killed
         \/ ServerDies \/ OwnerDies
<1>1. ASSUME NEW r \in Requests, Handler(r)
      PROVE  UNCHANGED killed
  BY <1>1, Readers DEF Handler, stores, history, IssueToken, RecordJoin, CountMiss, ClaimToken, CreateUser, DoorApproves,
     DoorNotifies, IssueSession, SignOut, RecordDeletion, IssueBearer
<1>2. OwnerStep => UNCHANGED killed
  BY DEF OwnerStep, stores, history, Invite, Uninvite, CascadeSessions, SwitchGate, Decide, CloseBearer, Tell,
     SetPassword
<1>3. (\E t \in DOMAIN tokens : Passes(t)) \/ JoinPasses \/ UNCHANGED vars =>
        UNCHANGED killed
  BY DEF Passes, JoinPasses, vars, stores, history
<1>4. \A r \in Requests : Arrival(r) => UNCHANGED killed
  BY Readers DEF stores, history
<1> QED BY <1>1, <1>2, <1>3, <1>4, Zenon DEF Next

-----------------------------------------------------------------------------
(* One table at a time: what a step leaves in it.                          *)
LEMMA AppendGrows ==
  ASSUME NEW S, NEW s \in Seq(S), NEW e \in S, NEW new, new = Append(s, e)
  PROVE  /\ new \in Seq(S) /\ Len(s) \in Nat /\ Len(new) = Len(s) + 1
         /\ DOMAIN s = 1..Len(s) /\ DOMAIN new = 1..(Len(s) + 1)
         /\ \A i \in DOMAIN s : i \in DOMAIN new /\ new[i] = s[i]
         /\ new[Len(s) + 1] = e
OBVIOUS

LEMMA UpdateKeeps ==
  ASSUME NEW S, NEW s \in Seq(S), NEW i \in DOMAIN s, NEW e \in S, NEW new,
         new = [s EXCEPT ![i] = e]
  PROVE  /\ new \in Seq(S) /\ Len(new) = Len(s) /\ DOMAIN new = DOMAIN s
         /\ \A j \in DOMAIN s : new[j] = IF j = i THEN e ELSE s[j]
OBVIOUS

(* A token is never deleted and never becomes unconsumed again; its age    *)
(* and its attempts are written apart from its claim.                      *)
TokensOnlyAge ==
  /\ DOMAIN tokens' = DOMAIN tokens
  /\ \A t \in DOMAIN tokens :
       /\ tokens[t].consumed => tokens'[t].consumed
       /\ tokens[t].age = "old" => tokens'[t].age = "old"
       /\ tokens'[t].attempts = tokens[t].attempts

MissCounted(r) ==
  /\ DOMAIN tokens' = DOMAIN tokens
  /\ \A t \in DOMAIN tokens :
       /\ tokens'[t].consumed = tokens[t].consumed
       /\ tokens'[t].age = tokens[t].age
       /\ tokens'[t].attempts = IF t = request[r].arg THEN tokens[t].attempts + 1
                                                      ELSE tokens[t].attempts

LEMMA TokensChange ==
  ASSUME Types, Requesting, [Next]_vars
  PROVE  /\ tokens' \in Seq(TokenRows)
         /\ \/ TokensOnlyAge
            \/ \E r \in Requests : IssueToken(r) /\ tokens' = Append(tokens, NewToken)
            \/ \E r \in Requests : CountMiss(r) /\ MissCounted(r)
<1>1. tokens \in Seq(TokenRows) /\ \A t \in DOMAIN tokens : tokens[t] \in TokenRows
  BY RowTypes
<1>2. UNCHANGED tokens => TokensOnlyAge
  BY DEF TokensOnlyAge
<1>3. ASSUME NEW r \in Requests, IssueToken(r)
      PROVE  tokens' = Append(tokens, NewToken) /\ tokens' \in Seq(TokenRows)
  <2>1. NewToken \in TokenRows
    BY DEF NewToken, TokenRows, Ages
  <2>2. tokens' = Append(tokens, NewToken)
    BY <1>3 DEF IssueToken
  <2> QED BY <1>1, <2>1, <2>2, AppendGrows
<1>4. ASSUME NEW t \in DOMAIN tokens, NEW row \in TokenRows, tokens' = [tokens EXCEPT ![t] = row]
      PROVE  /\ tokens' \in Seq(TokenRows) /\ DOMAIN tokens' = DOMAIN tokens
             /\ \A u \in DOMAIN tokens : tokens'[u] = IF u = t THEN row ELSE tokens[u]
  BY <1>1, <1>4, UpdateKeeps
<1>5. ASSUME NEW t \in DOMAIN tokens, NEW row \in TokenRows,
             tokens[t].consumed => row.consumed, tokens[t].age = "old" => row.age = "old",
             row.attempts = tokens[t].attempts, tokens' = [tokens EXCEPT ![t] = row]
      PROVE  tokens' \in Seq(TokenRows) /\ TokensOnlyAge
  BY <1>4, <1>5 DEF TokensOnlyAge
<1>6. ASSUME NEW r \in Requests, CountMiss(r)
      PROVE  tokens' \in Seq(TokenRows) /\ MissCounted(r)
  <2> DEFINE t == request[r].arg
             row == [tokens[t] EXCEPT !.attempts = @ + 1]
  <2>1. t \in DOMAIN tokens /\ tokens[t] \in TokenRows
    BY <1>1, <1>6 DEF CountMiss, At, Requesting, Carries
  <2>2. /\ row \in TokenRows /\ row.consumed = tokens[t].consumed /\ row.age = tokens[t].age
        /\ row.attempts = tokens[t].attempts + 1
    BY <2>1 DEF TokenRows
  <2>3. tokens' = [tokens EXCEPT ![t] = row]
    BY <1>6 DEF CountMiss
  <2> HIDE DEF row, t
  <2>4. /\ tokens' \in Seq(TokenRows) /\ DOMAIN tokens' = DOMAIN tokens
        /\ \A u \in DOMAIN tokens : tokens'[u] = IF u = t THEN row ELSE tokens[u]
    BY <1>4, <2>1, <2>2, <2>3
  <2> QED BY <2>2, <2>4 DEF MissCounted, t
<1>7. ASSUME NEW r \in Requests, ClaimToken(r)
      PROVE  \/ UNCHANGED tokens
             \/ tokens' \in Seq(TokenRows) /\ TokensOnlyAge
  <2> DEFINE t == request[r].arg
             row == [tokens[t] EXCEPT !.consumed = TRUE]
  <2>1. t \in DOMAIN tokens /\ tokens[t] \in TokenRows
    BY <1>1, <1>7 DEF ClaimToken, At, Requesting, Carries
  <2>2. /\ row \in TokenRows /\ row.consumed /\ row.age = tokens[t].age
        /\ row.attempts = tokens[t].attempts
    BY <2>1 DEF TokenRows
  <2>3. UNCHANGED tokens \/ tokens' = [tokens EXCEPT ![t] = row]
    BY <1>7, Zenon DEF ClaimToken
  <2> HIDE DEF row, t
  <2> QED BY <1>5, <2>1, <2>2, <2>3
<1>8. ASSUME NEW t \in DOMAIN tokens, Passes(t)
      PROVE  tokens' \in Seq(TokenRows) /\ TokensOnlyAge
  <2> DEFINE row == [tokens[t] EXCEPT !.age = IF tokens[t].age = "live" THEN "expired" ELSE "old"]
  <2>1. /\ row \in TokenRows /\ row.consumed = tokens[t].consumed
        /\ row.attempts = tokens[t].attempts
    BY <1>1 DEF TokenRows, Ages
  <2>2. tokens[t].age # "old" /\ tokens' = [tokens EXCEPT ![t] = row]
    BY <1>8, Zenon DEF Passes
  <2> HIDE DEF row
  <2> QED BY <1>5, <2>1, <2>2
<1> QED BY <1>1, <1>2, <1>3, <1>6, <1>7, <1>8, TokenWriters

LEMMA TokensStep ==
  ASSUME Types, Requesting, [Next]_vars
  PROVE  /\ tokens' \in Seq(TokenRows)
         /\ \A t \in DOMAIN tokens : t \in DOMAIN tokens'
         /\ \A t \in DOMAIN tokens : tokens[t].consumed => tokens'[t].consumed
<1>1. ASSUME tokens' = Append(tokens, NewToken)
      PROVE  \A t \in DOMAIN tokens : t \in DOMAIN tokens' /\ tokens'[t] = tokens[t]
  BY <1>1, RowTypes, AppendAny
<1> QED BY <1>1, TokensChange DEF TokensOnlyAge, MissCounted

(* Sessions are only ever issued or closed.                                *)
SessionsOnlyClose ==
  /\ DOMAIN sessions' = DOMAIN sessions
  /\ \A s \in DOMAIN sessions :
       /\ sessions'[s].token = sessions[s].token /\ sessions'[s].epoch = sessions[s].epoch
       /\ sessions'[s].issued = sessions[s].issued
       /\ sessions'[s].live => sessions[s].live

Issued(r) == [live |-> TRUE, token |-> request[r].arg, epoch |-> request[r].epoch, issued |-> revokes]

LEMMA SessionsStep ==
  ASSUME Types, [Next]_vars
  PROVE  /\ sessions' \in Seq(SessionRows)
         /\ \/ SessionsOnlyClose
            \/ \E r \in Requests : IssueSession(r) /\ sessions' = Append(sessions, Issued(r))
<1>1. sessions \in Seq(SessionRows) /\ revokes \in Nat
  BY BetaAssumption DEF Types, TypeOK, SessionRows
<1>2. Len(sessions) \in Nat /\ DOMAIN sessions = 1..Len(sessions)
      /\ \A s \in DOMAIN sessions : sessions[s] \in SessionRows
  BY <1>1, ElementOfSeq
<1>3. CASE UNCHANGED sessions
  BY <1>1, <1>3 DEF SessionsOnlyClose
<1>4. ASSUME NEW r \in Requests, IssueSession(r)
      PROVE  sessions' = Append(sessions, Issued(r)) /\ sessions' \in Seq(SessionRows)
  <2>1. sessions' = Append(sessions, Issued(r))
    BY <1>4 DEF IssueSession, Issued
  <2>2. request[r].arg \in Nat /\ request[r].epoch \in Nat
    BY DEF Types, Local
  <2>3. Issued(r) \in SessionRows
    BY <1>1, <2>2 DEF Issued, SessionRows
  <2> QED BY <1>1, <2>1, <2>3, AppendGrows
<1>5. ASSUME NEW r \in Requests, SignOut(r)
      PROVE  sessions' \in Seq(SessionRows) /\ SessionsOnlyClose
  <2> DEFINE s == request[r].arg
             row == [sessions[s] EXCEPT !.live = FALSE]
  <2>1. \/ UNCHANGED sessions
        \/ s \in DOMAIN sessions /\ sessions' = [sessions EXCEPT ![s] = row]
    BY <1>5, Zenon DEF SignOut, SessionLive
  <2>2. s \in DOMAIN sessions =>
          /\ row \in SessionRows /\ row.token = sessions[s].token /\ row.epoch = sessions[s].epoch
          /\ row.issued = sessions[s].issued /\ row.live = FALSE
    BY <1>2 DEF SessionRows
  <2> HIDE DEF row, s
  <2>3. CASE s \in DOMAIN sessions /\ sessions' = [sessions EXCEPT ![s] = row]
    <3>1. /\ sessions' \in Seq(SessionRows) /\ DOMAIN sessions' = DOMAIN sessions
          /\ \A j \in DOMAIN sessions : sessions'[j] = IF j = s THEN row ELSE sessions[j]
      BY <1>1, <2>2, <2>3, UpdateKeeps
    <3> QED BY <2>2, <2>3, <3>1 DEF SessionsOnlyClose
  <2> QED BY <1>3, <2>1, <2>3
<1>6. ASSUME CascadeSessions
      PROVE  sessions' \in Seq(SessionRows) /\ SessionsOnlyClose
  <2>1. sessions' = [s \in DOMAIN sessions |-> [sessions[s] EXCEPT !.live = FALSE]]
    BY <1>6 DEF CascadeSessions
  <2>2. DOMAIN sessions' = 1..Len(sessions)
    BY <1>2, <2>1
  <2>3. \A s \in DOMAIN sessions :
          /\ sessions'[s] \in SessionRows /\ sessions'[s].token = sessions[s].token
          /\ sessions'[s].epoch = sessions[s].epoch /\ sessions'[s].issued = sessions[s].issued
          /\ sessions'[s].live = FALSE
    <3> SUFFICES ASSUME NEW s \in DOMAIN sessions
                 PROVE  /\ sessions'[s] \in SessionRows /\ sessions'[s].token = sessions[s].token
                        /\ sessions'[s].epoch = sessions[s].epoch
                        /\ sessions'[s].issued = sessions[s].issued
                        /\ sessions'[s].live = FALSE
      OBVIOUS
    <3>1. sessions'[s] = [sessions[s] EXCEPT !.live = FALSE] /\ sessions[s] \in SessionRows
      BY <1>2, <2>1
    <3> QED BY <3>1 DEF SessionRows
  <2>4. sessions' \in Seq(SessionRows)
    BY <1>2, <2>1, <2>2, <2>3
  <2> QED BY <1>2, <2>2, <2>3, <2>4 DEF SessionsOnlyClose
<1> QED BY <1>3, <1>4, <1>5, <1>6, SessionWriters

LEMMA TallyTypes ==
  ASSUME Types
  PROVE  /\ \A tier : /\ IsFiniteSet({i \in DOMAIN grants : grants[i].tier = tier})
                      /\ Taken(tier) \in Nat
         /\ \A kind : /\ IsFiniteSet({n \in DOMAIN notices : notices[n] = kind})
                      /\ Told(kind) \in Nat
<1>1. /\ Len(grants) \in Nat /\ DOMAIN grants = 1..Len(grants)
      /\ Len(notices) \in Nat /\ DOMAIN notices = 1..Len(notices)
  BY DEF Types, TypeOK
<1>2. ASSUME NEW tier
      PROVE  IsFiniteSet({i \in DOMAIN grants : grants[i].tier = tier}) /\ Taken(tier) \in Nat
  <2>1. {i \in DOMAIN grants : grants[i].tier = tier} \in SUBSET (1..Len(grants))
    BY <1>1
  <2> QED BY <1>1, <2>1, IndexesCount DEF Taken
<1>3. ASSUME NEW kind
      PROVE  IsFiniteSet({n \in DOMAIN notices : notices[n] = kind}) /\ Told(kind) \in Nat
  <2>1. {n \in DOMAIN notices : notices[n] = kind} \in SUBSET (1..Len(notices))
    BY <1>1
  <2> QED BY <1>1, <2>1, IndexesCount DEF Told
<1> QED BY <1>2, <1>3

LEMMA BearersStep ==
  ASSUME Types, [Next]_vars
  PROVE  /\ bearer' \in Seq(BearerRows)
         /\ \/ UNCHANGED bearer
            \/ /\ CloseBearer /\ \A b \in DOMAIN bearer' : ~bearer'[b].live
            \/ \E r \in Requests :
                 IssueBearer(r) /\ bearer' = Append(bearer, [live |-> TRUE, issued |-> Taken("revoked")])
<1>1. bearer \in Seq(BearerRows)
  BY DEF Types, TypeOK, BearerRows
<1>2. Len(bearer) \in Nat /\ DOMAIN bearer = 1..Len(bearer)
      /\ \A b \in DOMAIN bearer : bearer[b] \in BearerRows
  BY <1>1, ElementOfSeq
<1>3. ASSUME NEW r \in Requests, IssueBearer(r)
      PROVE  /\ bearer' = Append(bearer, [live |-> TRUE, issued |-> Taken("revoked")])
             /\ bearer' \in Seq(BearerRows)
  <2> DEFINE row == [live |-> TRUE, issued |-> Taken("revoked")]
  <2>1. bearer' = Append(bearer, row)
    BY <1>3 DEF IssueBearer
  <2>2. Taken("revoked") \in Nat
    BY TallyTypes
  <2>3. row \in BearerRows
    BY <2>2 DEF BearerRows
  <2> HIDE DEF row
  <2>4. bearer' \in Seq(BearerRows)
    BY <1>1, <2>1, <2>3, AppendGrows
  <2> QED BY <2>1, <2>4 DEF row
<1>4. ASSUME CloseBearer
      PROVE  bearer' \in Seq(BearerRows) /\ \A b \in DOMAIN bearer' : ~bearer'[b].live
  <2>1. bearer' = [b \in DOMAIN bearer |-> [bearer[b] EXCEPT !.live = FALSE]]
    BY <1>4 DEF CloseBearer
  <2>2. \A b \in DOMAIN bearer : bearer'[b] \in BearerRows /\ ~bearer'[b].live
    <3> SUFFICES ASSUME NEW b \in DOMAIN bearer
                 PROVE  bearer'[b] \in BearerRows /\ ~bearer'[b].live
      OBVIOUS
    <3>1. bearer'[b] = [bearer[b] EXCEPT !.live = FALSE] /\ bearer[b] \in BearerRows
      BY <1>2, <2>1
    <3> QED BY <3>1 DEF BearerRows
  <2> QED BY <1>2, <2>1, <2>2
<1> QED BY <1>1, <1>3, <1>4, BearerWriters

(* Grants and notices are only ever appended, but for the first grant of a *)
(* new account.                                                            *)
LEMMA GrantsStep ==
  ASSUME Types, Requesting, [Next]_vars
  PROVE  /\ grants' \in Seq(GrantRows)
         /\ \/ UNCHANGED grants
            \/ \E r \in Requests :
                 /\ CreateUser(r) /\ grants = <<>> /\ account = "none"
                 /\ grants' = <<[tier |-> "waitlisted", by |-> "door", seen |-> 0]>>
            \/ \E r \in Requests :
                 /\ DoorApproves(r)
                 /\ grants' = Append(grants, [tier |-> "approved", by |-> "door", seen |-> request[r].seen])
            \/ \E tier \in {"approved", "revoked", "paused"} :
                 /\ Decide(tier)
                 /\ grants' = Append(grants, [tier |-> tier, by |-> "owner", seen |-> Len(grants)])
<1>1. grants \in Seq(GrantRows) /\ Len(grants) \in Nat
  BY ElementOfSeq DEF Types, TypeOK, GrantRows
<1>2. ASSUME NEW row \in GrantRows, grants' = Append(grants, row)
      PROVE  grants' \in Seq(GrantRows)
  BY <1>1, <1>2, AppendGrows
<1>3. ASSUME NEW r \in Requests, CreateUser(r)
      PROVE  /\ grants' \in Seq(GrantRows)
             /\ \/ UNCHANGED grants
                \/ /\ grants = <<>> /\ account = "none"
                   /\ grants' = <<[tier |-> "waitlisted", by |-> "door", seen |-> 0]>>
  <2>1. [tier |-> "waitlisted", by |-> "door", seen |-> 0] \in GrantRows
    BY DEF GrantRows, Tiers
  <2> QED BY <1>1, <1>3, <2>1 DEF CreateUser, Requesting
<1>4. ASSUME NEW r \in Requests, DoorApproves(r)
      PROVE  /\ grants' \in Seq(GrantRows)
             /\ grants' = Append(grants, [tier |-> "approved", by |-> "door", seen |-> request[r].seen])
  <2>1. [tier |-> "approved", by |-> "door", seen |-> request[r].seen] \in GrantRows
    BY DEF GrantRows, Tiers, Types, Local
  <2> QED BY <1>2, <1>4, <2>1 DEF DoorApproves
<1>5. ASSUME NEW tier \in {"approved", "revoked", "paused"}, Decide(tier)
      PROVE  /\ grants' \in Seq(GrantRows)
             /\ grants' = Append(grants, [tier |-> tier, by |-> "owner", seen |-> Len(grants)])
  <2>1. [tier |-> tier, by |-> "owner", seen |-> Len(grants)] \in GrantRows
    BY <1>1 DEF GrantRows, Tiers
  <2> QED BY <1>2, <1>5, <2>1 DEF Decide
<1> QED BY <1>1, <1>3, <1>4, <1>5, GrantWriters

LEMMA NoticesStep ==
  ASSUME Types, [Next]_vars
  PROVE  /\ notices' \in Seq({"access_approved", "access_revoked"})
         /\ \/ UNCHANGED notices
            \/ \E r \in Requests : DoorNotifies(r) /\ notices' = Append(notices, "access_approved")
            \/ Tell /\ notices' = Append(notices, IF owner = "tell_approved"
                                          THEN "access_approved" ELSE "access_revoked")
<1>1. notices \in Seq({"access_approved", "access_revoked"})
  BY DEF Types, TypeOK
<1> QED BY <1>1, NoticeWriters, AppendGrows DEF DoorNotifies, Tell

LEMMA RequestStep ==
  ASSUME Types, Requesting, [Next]_vars
  PROVE  request' \in [Requests -> Local]
<1>1. request \in [Requests -> Local]
  BY DEF Types
<1>2. ASSUME NEW r \in Requests, NEW p \in Local, Move(r, p)
      PROVE  request' \in [Requests -> Local]
  BY <1>1, <1>2 DEF Move
<1> QED BY <1>2, Movement DEF Settled

LEMMA OwnerStarting ==
  ASSUME Types, [Next]_vars
  PROVE  /\ commands' \in 0..OwnerCommands /\ revokes' \in 0..commands' /\ revokes' >= revokes
         /\ revokes' # revokes => revokes' = revokes + 1 /\ Uninvite /\ allow = "active"
<1>1. commands \in 0..OwnerCommands /\ revokes \in 0..commands /\ OwnerCommands \in Nat
  BY BetaAssumption DEF Types, TypeOK
<1>2. ASSUME NEW r \in Requests, Handler(r)
      PROVE  UNCHANGED commands
  BY <1>2, Readers DEF Handler, history, IssueToken, RecordJoin, CountMiss, ClaimToken, CreateUser,
     DoorApproves, DoorNotifies, IssueSession, SignOut, RecordDeletion, IssueBearer
<1>3. OwnerStep => UNCHANGED commands \/ (commands < OwnerCommands /\ commands' = commands + 1)
  BY DEF OwnerStep, history, OwnerStarts, Invite, Uninvite, CascadeSessions, SwitchGate, Decide,
     CloseBearer, Tell, SetPassword
<1>4. (\E t \in DOMAIN tokens : Passes(t)) \/ JoinPasses \/ ServerDies \/ OwnerDies \/ UNCHANGED vars
        => UNCHANGED commands
  BY DEF Passes, JoinPasses, ServerDies, OwnerDies, vars, history
<1>5. \A r \in Requests : Arrival(r) => UNCHANGED commands
  BY Readers DEF history
<1>6. UNCHANGED commands \/ (commands < OwnerCommands /\ commands' = commands + 1)
  BY <1>2, <1>3, <1>4, <1>5, Zenon DEF Next
<1>7. Uninvite => /\ commands' = commands + 1
                  /\ UNCHANGED revokes \/ (revokes' = revokes + 1 /\ allow = "active")
  BY DEF Uninvite, OwnerStarts
<1>8. UNCHANGED revokes \/ (commands' = commands + 1 /\ revokes' = revokes + 1
                              /\ Uninvite /\ allow = "active")
  BY <1>7, RevokeWriters
<1> QED BY <1>1, <1>6, <1>8

LEMMA FlagsStep ==
  ASSUME Types, [Next]_vars
  PROVE  /\ gate' \in BOOLEAN /\ allow' \in {"none", "active", "revoked"} /\ deletion' \in {0, 1}
<1>1. gate \in BOOLEAN /\ allow \in {"none", "active", "revoked"} /\ deletion \in {0, 1}
  BY DEF Types, TypeOK
<1>2. ASSUME NEW r \in Requests, Handler(r)
      PROVE  UNCHANGED <<gate, allow>> /\ (UNCHANGED deletion \/ deletion' = 1)
  BY <1>2, Readers DEF Handler, stores, IssueToken, RecordJoin, CountMiss, ClaimToken, CreateUser,
     DoorApproves, DoorNotifies, IssueSession, SignOut, RecordDeletion, IssueBearer
<1>3. OwnerStep => /\ UNCHANGED gate \/ gate' = ~gate
                   /\ UNCHANGED allow \/ allow' \in {"active", "revoked"}
                   /\ UNCHANGED deletion
  BY DEF OwnerStep, stores, Invite, Uninvite, CascadeSessions, SwitchGate, Decide,
     CloseBearer, Tell, SetPassword
<1>4. (\E t \in DOMAIN tokens : Passes(t)) \/ JoinPasses \/ ServerDies \/ OwnerDies \/ UNCHANGED vars
        => UNCHANGED <<gate, allow, deletion>>
  BY DEF Passes, JoinPasses, ServerDies, OwnerDies, vars, stores
<1>5. \A r \in Requests : Arrival(r) => UNCHANGED <<gate, allow, deletion>>
  BY Readers DEF stores
<1>6. \/ UNCHANGED <<gate, allow, deletion>>
      \/ UNCHANGED <<gate, allow>> /\ (UNCHANGED deletion \/ deletion' = 1)
      \/ /\ UNCHANGED gate \/ gate' = ~gate
         /\ UNCHANGED allow \/ allow' \in {"active", "revoked"}
         /\ UNCHANGED deletion
  BY <1>2, <1>3, <1>4, <1>5, Zenon DEF Next
<1>7. gate' \in BOOLEAN
  BY <1>1, <1>6
<1> QED BY <1>1, <1>6, <1>7

LEMMA TypesStep ==
  ASSUME Types, Requesting, [Next]_vars
  PROVE  Types'
<1>1. /\ account \in {"none", "passwordless", "password"} /\ killed \in BOOLEAN /\ waitlist \in Nat
      /\ owner \in {"idle", "cascade", "tell_approved", "close_bearer", "tell_revoked"}
  BY DEF Types, TypeOK
<1>2. account' \in {"none", "passwordless", "password"}
  BY <1>1, AccountWriters DEF CreateUser, SetPassword
<1>3. killed' \in BOOLEAN
  BY <1>1, Killers DEF ServerDies, OwnerDies
<1>4. waitlist' \in Nat
  BY <1>1, WaitlistWriters DEF RecordJoin, JoinPasses
<1>5. owner' \in {"idle", "cascade", "tell_approved", "close_bearer", "tell_revoked"}
  BY <1>1, OwnerWriters DEF Uninvite, CascadeSessions, Decide, CloseBearer, Tell, OwnerDies
<1>6. tokens' \in Seq(TokenRows) /\ sessions' \in Seq(SessionRows) /\ bearer' \in Seq(BearerRows)
      /\ grants' \in Seq(GrantRows) /\ notices' \in Seq({"access_approved", "access_revoked"})
  BY TokensStep, SessionsStep, BearersStep, GrantsStep, NoticesStep
<1>7. gate' \in BOOLEAN /\ allow' \in {"none", "active", "revoked"} /\ deletion' \in {0, 1}
  BY FlagsStep
<1>8. commands' \in 0..OwnerCommands /\ revokes' \in 0..commands'
  BY OwnerStarting
<1>9. TypeOK'
  BY <1>2, <1>3, <1>4, <1>5, <1>6, <1>7, <1>8, Zenon
     DEF TypeOK, TokenRows, SessionRows, BearerRows, GrantRows
<1> QED BY <1>9, RequestStep DEF Types

-----------------------------------------------------------------------------
(* What requests carry over stays true under every interleaving.           *)
LEMMA GrantsStay ==
  ASSUME Types, Requesting, [Next]_vars, NEW n \in Nat, n <= Len(grants)
  PROVE  n <= Len(grants') /\ (n > 0 => grants'[n].tier = grants[n].tier)
<1>1. grants \in Seq(GrantRows) /\ Len(grants) \in Nat /\ DOMAIN grants = 1..Len(grants)
  BY ElementOfSeq DEF Types, TypeOK, GrantRows
<1>2. ASSUME NEW row, grants' = Append(grants, row)
      PROVE  n <= Len(grants') /\ (n > 0 => grants'[n].tier = grants[n].tier)
  BY <1>1, <1>2
<1>3. CASE grants = <<>> /\ grants' = <<[tier |-> "waitlisted", by |-> "door", seen |-> 0]>>
  BY <1>3
<1>4. CASE UNCHANGED grants
  BY <1>4
<1> QED BY <1>2, <1>3, <1>4, GrantsStep, Zenon

LEMMA CarriesStays ==
  ASSUME Types, Requesting, [Next]_vars, NEW q \in Local,
         q.pc \in Claimed \cup {"claim", "miss"} => q.arg \in DOMAIN tokens,
         q.pc \in Claimed => tokens[q.arg].consumed \/ tokens'[q.arg].consumed,
         q.pc \in Placed => account # "none" \/ account' # "none",
         q.pc \in {"ref", "approve"} =>
           /\ q.seen <= Len(grants)
           /\ q.seen > 0 => grants[q.seen].tier \notin ClosedTiers,
         q.epoch <= revokes
  PROVE  Carries(q)'
<1>1. q.epoch <= revokes'
  <2>1. revokes \in Nat /\ revokes' \in Nat /\ revokes' >= revokes /\ q.epoch \in Nat
    BY OwnerStarting, BetaAssumption DEF Types, TypeOK, Local
  <2> QED BY <2>1
<1>2. q.pc \in Claimed \cup {"claim", "miss"} => q.arg \in DOMAIN tokens'
  BY TokensStep
<1>3. q.pc \in Claimed => tokens'[q.arg].consumed
  BY TokensStep
<1>4. q.pc \in Placed => account' # "none"
  BY AccountWriters DEF CreateUser, SetPassword
<1>5. q.pc \in {"ref", "approve"} =>
         /\ q.seen <= Len(grants')
         /\ q.seen > 0 => grants'[q.seen].tier \notin ClosedTiers
  <2>1. q.seen \in Nat
    BY DEF Local
  <2> QED BY <2>1, GrantsStay
<1> QED BY <1>1, <1>2, <1>3, <1>4, <1>5 DEF Carries

LEMMA RequestingStep ==
  ASSUME Types, Requesting, [Next]_vars
  PROVE  Requesting'
<1>1. ASSUME NEW q \in Requests
      PROVE  Carries(request[q])'
  <2>1. request[q] \in Local /\ Carries(request[q])
    BY DEF Types, Requesting
  <2>2. \A x \in Local : Carries(x) => Carries(x)'
    <3> SUFFICES ASSUME NEW x \in Local, Carries(x) PROVE Carries(x)'
      OBVIOUS
    <3> QED BY CarriesStays DEF Carries
  <2>3. \A x \in Local : x.pc = "done" /\ x.epoch = 0 => Carries(x)'
    <3> SUFFICES ASSUME NEW x \in Local, x.pc = "done", x.epoch = 0 PROVE Carries(x)'
      OBVIOUS
    <3>1. x.epoch <= revokes
      BY BetaAssumption DEF Types, TypeOK
    <3> QED BY <3>1, CarriesStays DEF Claimed, Checked, Placed
  <2>4. ASSUME NEW r \in Requests, NEW p \in Local, Move(r, p)
        PROVE  Carries(p)'
    <3>1. Carries(request[r]) /\ request[r] \in Local
      BY DEF Types, Requesting
    <3>2. p.pc \in Claimed \cup {"claim", "miss"} => p.arg \in DOMAIN tokens
      BY <2>4, <3>1 DEF Move, Carries
    <3>3. p.pc \in Claimed => tokens[p.arg].consumed \/ tokens'[p.arg].consumed
      BY <2>4, <3>1 DEF Move, Carries
    <3>4. p.pc \in Placed => account # "none" \/ account' # "none"
      BY <2>4, <3>1 DEF Move, Carries
    <3>5. p.pc \in {"ref", "approve"} =>
             /\ p.seen <= Len(grants)
             /\ p.seen > 0 => grants[p.seen].tier \notin ClosedTiers
      <4>1. Len(grants) \in Nat
        BY DEF Types, TypeOK
      <4>2. CASE p.pc = "ref"
        BY <2>4, <4>1, <4>2, CurrentGrant DEF Move
      <4>3. CASE p.pc = "approve"
        BY <2>4, <3>1, <4>3 DEF Move, Carries
      <4> QED BY <4>2, <4>3
    <3>6. p.epoch <= revokes
      BY <2>4 DEF Move
    <3> QED BY <3>2, <3>3, <3>4, <3>5, <3>6, CarriesStays
  <2>5. \A x : request'[q] = x /\ Carries(x)' => Carries(request[q])'
    BY DEF Carries
  <2>6. CASE Settled
    <3>1. request'[q] \in Local
      BY <2>6 DEF Settled
    <3> QED BY <2>1, <2>2, <2>3, <2>5, <2>6, <3>1 DEF Settled
  <2>7. ASSUME NEW r \in Requests, NEW p \in Local, Move(r, p)
        PROVE  Carries(request[q])'
    <3>1. request'[q] = p \/ request'[q] = request[q]
      BY <2>7 DEF Move, Types
    <3> QED BY <2>1, <2>2, <2>4, <2>5, <2>7, <3>1
  <2> QED BY <2>6, <2>7, Movement
<1>2. account' = "none" => grants' = <<>>
  <2> SUFFICES ASSUME account' = "none" PROVE grants' = <<>>
    OBVIOUS
  <2>1. account = "none" /\ grants = <<>>
    BY AccountWriters DEF CreateUser, SetPassword, Requesting
  <2>2. \A r \in Requests : ~DoorApproves(r)
    BY <2>1 DEF DoorApproves, At, Requesting, Carries, Placed, Checked
  <2>3. \A tier : ~Decide(tier)
    BY <2>1 DEF Decide
  <2>4. \A r \in Requests : ~CreateUser(r)
    BY <2>1 DEF CreateUser
  <2> QED BY <2>1, <2>2, <2>3, <2>4, GrantsStep
<1> QED BY <1>1, <1>2 DEF Requesting

(* A token that is claimed was unclaimed until now, and one request at a   *)
(* time claims one.                                                        *)
LEMMA HoldersStep ==
  ASSUME Types, Requesting, [Next]_vars
  PROVE  /\ \A q \in In(Claimed)' :
              /\ request'[q].arg = request[q].arg
              /\ q \in In(Claimed) \/ ~tokens[request[q].arg].consumed
         /\ \A q, u \in In(Claimed)' : q \in In(Claimed) \/ u \in In(Claimed) \/ q = u
<1>1. CASE Settled
  BY <1>1 DEF Settled, In, Claimed, Checked
<1>2. ASSUME NEW r \in Requests, NEW p \in Local, Move(r, p)
      PROVE  /\ \A q \in In(Claimed)' :
                  /\ request'[q].arg = request[q].arg
                  /\ q \in In(Claimed) \/ ~tokens[request[q].arg].consumed
             /\ \A q, u \in In(Claimed)' : q \in In(Claimed) \/ u \in In(Claimed) \/ q = u
  <2>1. \A q \in Requests : request'[q] = IF q = r THEN p ELSE request[q]
    BY <1>2 DEF Move, Types
  <2>2. p.pc \in Claimed =>
          /\ p.arg = request[r].arg
          /\ request[r].pc \in Claimed \/ ~tokens[request[r].arg].consumed
    BY <1>2 DEF Move
  <2> QED BY <2>1, <2>2 DEF In
<1> QED BY <1>1, <1>2, Movement

LEMMA CredentialsStep ==
  ASSUME Types, Requesting, Credentials, [Next]_vars
  PROVE  Credentials'
<1> DEFINE Held == In(Claimed)
<1>1. \A q \in Held : request[q].arg \in DOMAIN tokens /\ tokens[request[q].arg].consumed
  BY DEF In, Requesting, Carries
<1>2. ASSUME NEW q \in In(Claimed)', NEW u \in In(Claimed)', request'[q].arg = request'[u].arg
      PROVE  q = u
  <2>1. request[q].arg = request[u].arg
    BY <1>2, HoldersStep
  <2>2. CASE q \in Held /\ u \in Held
    BY <2>1, <2>2 DEF Credentials
  <2>3. CASE q \in Held /\ u \notin Held
    BY <1>1, <2>1, <2>3, HoldersStep
  <2>4. CASE q \notin Held /\ u \in Held
    BY <1>1, <2>1, <2>4, HoldersStep
  <2>5. CASE q \notin Held /\ u \notin Held
    BY <1>2, <2>5, HoldersStep
  <2> QED BY <2>2, <2>3, <2>4, <2>5
<1>3. /\ revokes \in Nat /\ revokes' \in Nat /\ revokes' >= revokes
      /\ \A s \in DOMAIN sessions : sessions[s].issued \in Nat
  <2>2. \A s \in DOMAIN sessions : sessions[s].issued \in Nat
    BY RowTypes DEF SessionRows
  <2> QED BY <2>2, OwnerStarting, BetaAssumption DEF Types, TypeOK
<1>4. ASSUME NEW row, row.token \in DOMAIN tokens, tokens[row.token].consumed,
             row.issued <= revokes, row.issued \in Nat
      PROVE  /\ row.token \in DOMAIN tokens' /\ tokens'[row.token].consumed
             /\ row.issued <= revokes'
  BY <1>3, <1>4, TokensStep
<1>5. ASSUME NEW s \in DOMAIN sessions, NEW r \in In(Claimed)'
      PROVE  request'[r].arg # sessions[s].token
  BY HoldersStep DEF Credentials
<1>6. CASE SessionsOnlyClose
  <2>1. ASSUME NEW s \in DOMAIN sessions'
        PROVE  /\ sessions'[s].token \in DOMAIN tokens' /\ tokens'[sessions'[s].token].consumed
               /\ sessions'[s].issued <= revokes'
               /\ \A r \in In(Claimed)' : request'[r].arg # sessions'[s].token
    <3>1. s \in DOMAIN sessions /\ sessions'[s].token = sessions[s].token
          /\ sessions'[s].issued = sessions[s].issued
      BY <1>6 DEF SessionsOnlyClose
    <3>2. /\ sessions[s].token \in DOMAIN tokens /\ tokens[sessions[s].token].consumed
          /\ sessions[s].issued <= revokes
      BY <3>1 DEF Credentials
    <3> QED BY <1>3, <1>4, <1>5, <3>1, <3>2
  <2>2. OneSessionPerToken'
    BY <1>6 DEF SessionsOnlyClose, Credentials, OneSessionPerToken
  <2> QED BY <1>2, <2>1, <2>2 DEF Credentials
<1>7. ASSUME NEW r \in Requests, IssueSession(r), sessions' = Append(sessions, Issued(r))
      PROVE  Credentials'
  <2> DEFINE n == Len(sessions) + 1
  <2>1. /\ r \in Held /\ Issued(r).token = request[r].arg /\ Issued(r).issued = revokes
    BY <1>7 DEF IssueSession, At, In, Claimed, Checked, Issued
  <2>2. r \notin In(Claimed)'
    <3>1. request'[r].pc = "done"
      BY <1>7, Answering DEF IssueSession, Types
    <3> QED BY <3>1 DEF In, Claimed, Checked
  <2>3. /\ DOMAIN sessions' = DOMAIN sessions \cup {n} /\ n \notin DOMAIN sessions
        /\ \A s \in DOMAIN sessions : sessions'[s] = sessions[s]
        /\ sessions'[n] = Issued(r)
    BY <1>7, RowTypes, AppendAny
  <2> HIDE DEF n
  <2>4. ASSUME NEW s \in DOMAIN sessions'
        PROVE  /\ sessions'[s].token \in DOMAIN tokens' /\ tokens'[sessions'[s].token].consumed
               /\ sessions'[s].issued <= revokes'
               /\ \A q \in In(Claimed)' : request'[q].arg # sessions'[s].token
    <3>1. CASE s \in DOMAIN sessions
      <4>1. /\ sessions[s].token \in DOMAIN tokens /\ tokens[sessions[s].token].consumed
            /\ sessions[s].issued <= revokes
        BY <3>1 DEF Credentials
      <4> QED BY <1>3, <1>4, <1>5, <2>3, <3>1, <4>1
    <3>2. CASE s = n
      <4>1. \A q \in In(Claimed)' : request'[q].arg # request[r].arg
        <5> SUFFICES ASSUME NEW q \in In(Claimed)' PROVE request[q].arg # request[r].arg
          BY HoldersStep
        <5>1. CASE q \in Held
          BY <2>1, <2>2, <5>1 DEF Credentials
        <5>2. CASE q \notin Held
          BY <1>1, <2>1, <5>2, HoldersStep
        <5> QED BY <5>1, <5>2
      <4>2. /\ Issued(r).token \in DOMAIN tokens /\ tokens[Issued(r).token].consumed
            /\ Issued(r).issued <= revokes /\ Issued(r).issued \in Nat
        BY <1>1, <1>3, <2>1
      <4> QED BY <1>4, <2>1, <2>3, <3>2, <4>1, <4>2
    <3> QED BY <2>3, <3>1, <3>2
  <2>5. OneSessionPerToken'
    <3>1. \A s \in DOMAIN sessions : sessions[s].token # Issued(r).token
      BY <2>1 DEF Credentials
    <3> QED BY <2>3, <3>1 DEF Credentials, OneSessionPerToken
  <2> QED BY <1>2, <2>4, <2>5 DEF Credentials
<1> QED BY <1>6, <1>7, SessionsStep

-----------------------------------------------------------------------------
(* The limits, with the requests that have read a count and not written.   *)
LEMMA MovesOne ==
  ASSUME Types, NEW r \in Requests, NEW p \in Local, Move(r, p)
  PROVE  \A q \in Requests : request'[q] = IF q = r THEN p ELSE request[q]
BY DEF Types, Move

LEMMA InFlightStep ==
  ASSUME Types, Requesting, Limits, [Next]_vars
  PROVE  Cardinality(InProgress') <= InFlight
<1>1. /\ IsFiniteSet(InProgress) /\ Cardinality(InProgress) \in Nat
      /\ Cardinality(InProgress) <= InFlight /\ InFlight \in Nat
      /\ Cardinality(InProgress') \in Nat
  <2>1. InProgress \in SUBSET Requests /\ InProgress' \in SUBSET Requests
    BY DEF InProgress
  <2>2. IsFiniteSet(InProgress) /\ Cardinality(InProgress) \in Nat
    BY <2>1, RequestsCount
  <2>3. Cardinality(InProgress') \in Nat
    BY <2>1, RequestsCount
  <2> QED BY <2>2, <2>3, BetaAssumption DEF Limits
<1>2. CASE InProgress' \subseteq InProgress
  <2>1. Cardinality(InProgress') <= Cardinality(InProgress)
    BY <1>1, <1>2, Within
  <2> QED BY <1>1, <2>1
<1>3. CASE Settled
  <2>1. InProgress' \subseteq InProgress
    BY <1>3 DEF Settled, InProgress
  <2> QED BY <1>2, <2>1
<1>4. ASSUME NEW r \in Requests, NEW p \in Local, Move(r, p)
      PROVE  Cardinality(InProgress') <= InFlight
  <2>1. InProgress' \subseteq InProgress \cup {r}
    BY <1>4, MovesOne DEF InProgress
  <2>2. CASE Cardinality(InProgress) < InFlight
    <3>1. Cardinality(InProgress') <= Cardinality(InProgress) + 1
      BY <1>1, <2>1, Grows
    <3> QED BY <1>1, <2>2, <3>1
  <2>3. CASE ~(Cardinality(InProgress) < InFlight)
    <3>1. p.pc \notin {"new", "done"} => request[r].pc \notin {"new", "done"}
      BY <1>4, <2>3 DEF Move
    <3>2. InProgress' \subseteq InProgress
      BY <1>4, <3>1, MovesOne DEF InProgress
    <3> QED BY <1>2, <3>2
  <2> QED BY <2>2, <2>3
<1> QED BY <1>3, <1>4, Movement

(* A count S of rows and a set R of requests that still act on it: it      *)
(* keeps its bound when nothing is added to either, when one request turns *)
(* into a row, and when requests join it below the limit.                  *)
LEMMA RaceKeepsBound ==
  ASSUME NEW limit \in Nat, NEW n \in Nat, NEW m \in Nat, NEW R \in SUBSET Requests,
         NEW T \in SUBSET Requests, NEW flight \in Nat,
         n + Cardinality(R) <= limit + flight - 1,
         Cardinality(T) <= flight,
         \/ m <= n /\ T \subseteq R
         \/ m <= n + 1 /\ \E r \in R : T \subseteq R \ {r}
         \/ m <= n /\ n < limit
  PROVE  m + Cardinality(T) <= limit + flight - 1
<1>1. IsFiniteSet(R) /\ Cardinality(R) \in Nat /\ Cardinality(T) \in Nat
  BY RequestsCount
<1>2. CASE m <= n /\ T \subseteq R
  <2>1. Cardinality(T) <= Cardinality(R)
    BY <1>1, <1>2, Within
  <2> QED BY <1>1, <1>2, <2>1
<1>3. CASE m <= n + 1 /\ \E r \in R : T \subseteq R \ {r}
  <2>1. Cardinality(T) + 1 <= Cardinality(R)
    BY <1>1, <1>3, Shrinks
  <2> QED BY <1>1, <1>3, <2>1
<1>4. CASE m <= n /\ n < limit
  BY <1>1, <1>4
<1> QED BY <1>2, <1>3, <1>4

(* One request per answer: who stays in a stage was in it, or came in.     *)
LEMMA StageStep ==
  ASSUME Types, Requesting, [Next]_vars, NEW pcs, "done" \notin pcs
  PROVE  \/ In(pcs)' \subseteq In(pcs)
         \/ \E r \in Requests, p \in Local : Move(r, p) /\ p.pc \in pcs /\ request[r].pc \notin pcs
<1>1. CASE Settled
  BY <1>1 DEF Settled, In
<1>2. ASSUME NEW r \in Requests, NEW p \in Local, Move(r, p), p.pc \notin pcs \/ request[r].pc \in pcs
      PROVE  In(pcs)' \subseteq In(pcs)
  BY <1>2, MovesOne DEF In
<1> QED BY <1>1, <1>2, Movement

LEMMA AnswerLeaves ==
  ASSUME Types, NEW r \in Requests, Answer(r)
  PROVE  \A q \in Requests : IF q = r THEN request'[q].pc = "done" ELSE request'[q] = request[q]
<1>1. PICK p \in Local : request' = [request EXCEPT ![r] = p] /\ p.pc = "done"
  BY Answering DEF Types
<1> QED BY <1>1 DEF Types

LEMMA StageCount ==
  ASSUME Types, Requesting, Limits, [Next]_vars, NEW pcs, {"new", "done"} \cap pcs = {}
  PROVE  /\ In(pcs) \in SUBSET Requests /\ In(pcs)' \in SUBSET Requests
         /\ Cardinality(In(pcs)') <= InFlight
<1>1. In(pcs)' \subseteq InProgress' /\ InProgress' \in SUBSET Requests
  BY DEF In, InProgress
<1>2. IsFiniteSet(InProgress')
  BY <1>1, RequestsCount
<1>3. Cardinality(In(pcs)') <= Cardinality(InProgress')
  BY <1>1, <1>2, Within
<1>4. Cardinality(In(pcs)') \in Nat /\ Cardinality(InProgress') \in Nat /\ InFlight \in Nat
  <2>1. In(pcs)' \in SUBSET Requests
    BY DEF In
  <2>2. Cardinality(In(pcs)') \in Nat
    BY <2>1, RequestsCount
  <2>3. Cardinality(InProgress') \in Nat
    BY <1>1, RequestsCount
  <2> QED BY <2>2, <2>3, BetaAssumption
<1>5. In(pcs) \in SUBSET Requests /\ In(pcs)' \in SUBSET Requests
  BY DEF In
<1> QED BY <1>3, <1>4, <1>5, InFlightStep

LEMMA RecentTypes ==
  ASSUME Types
  PROVE  IsFiniteSet(Recent) /\ Cardinality(Recent) \in Nat
<1>1. Len(tokens) \in Nat /\ Recent \in SUBSET (1..Len(tokens))
  BY ElementOfSeq, RowTypes DEF Recent
<1> QED BY <1>1, IndexesCount

LEMMA RecentStep ==
  ASSUME Types, Requesting, Limits, [Next]_vars
  PROVE  Cardinality(Recent') + Cardinality(In(Asking)') <= RateLimit + InFlight - 1
<1> DEFINE n == Cardinality(Recent)
           m == Cardinality(Recent')
           R == In(Asking)
           T == In(Asking)'
<1>1. /\ R \in SUBSET Requests /\ T \in SUBSET Requests
      /\ Cardinality(T) <= InFlight
  BY StageCount DEF Asking
<1>2. /\ n \in Nat /\ IsFiniteSet(Recent) /\ m \in Nat /\ n + Cardinality(R) <= RateLimit + InFlight - 1
      /\ RateLimit \in Nat /\ InFlight \in Nat
  <2>1. IsFiniteSet(Recent') /\ m \in Nat
    <3>1. Len(tokens') \in Nat /\ Recent' \in SUBSET (1..Len(tokens'))
      BY ElementOfSeq, TokensChange DEF Recent
    <3> QED BY <3>1, IndexesCount
  <2> QED BY <2>1, RecentTypes, BetaAssumption DEF Limits
<1>3. CASE Recent' \subseteq Recent
  <2>1. m <= n
    BY <1>2, <1>3, Within
  <2>2. T \subseteq R \/ n < RateLimit
    <3>1. CASE T \subseteq R
      BY <3>1
    <3>2. ASSUME NEW r \in Requests, NEW p \in Local, Move(r, p), p.pc \in Asking,
                 request[r].pc \notin Asking
          PROVE  n < RateLimit
      BY <1>2, <3>2 DEF Move, OverLimit, Recent
    <3> QED BY <3>1, <3>2, StageStep DEF Asking
  <2> HIDE DEF n, m, R, T
  <2> QED BY <1>1, <1>2, <2>1, <2>2, RaceKeepsBound DEF n, m, R, T
<1>4. ASSUME NEW r \in Requests, IssueToken(r), tokens' = Append(tokens, NewToken)
      PROVE  m + Cardinality(T) <= RateLimit + InFlight - 1
  <2>1. Recent' \subseteq Recent \cup {Len(tokens) + 1}
    BY <1>4, RowTypes, AppendAny DEF Recent
  <2>2. m <= n + 1
    BY <1>2, <2>1, Grows
  <2>3. r \in R /\ T \subseteq R \ {r}
    BY <1>4, AnswerLeaves DEF IssueToken, At, In, Asking
  <2> HIDE DEF n, m, R, T
  <2> QED BY <1>1, <1>2, <2>2, <2>3, RaceKeepsBound
<1>5. TokensOnlyAge => Recent' \subseteq Recent
  BY DEF TokensOnlyAge, Recent
<1>6. ASSUME NEW r \in Requests, MissCounted(r) PROVE Recent' \subseteq Recent
  BY <1>6 DEF MissCounted, Recent
<1> QED BY <1>3, <1>4, <1>5, <1>6, TokensChange

LEMMA WaitlistStep ==
  ASSUME Types, Requesting, Limits, [Next]_vars
  PROVE  waitlist' + Cardinality(In({"join_write"})') <= RateLimit + InFlight - 1
<1> DEFINE R == In({"join_write"})
           T == In({"join_write"})'
<1>1. /\ R \in SUBSET Requests /\ T \in SUBSET Requests
      /\ Cardinality(T) <= InFlight
  BY StageCount
<1>2. /\ waitlist \in Nat /\ waitlist' \in Nat
      /\ waitlist + Cardinality(R) <= RateLimit + InFlight - 1
      /\ RateLimit \in Nat /\ InFlight \in Nat
  BY TypesStep, BetaAssumption DEF Limits, Types, TypeOK
<1>3. ASSUME waitlist' <= waitlist
      PROVE  waitlist' + Cardinality(T) <= RateLimit + InFlight - 1
  <2>1. T \subseteq R \/ waitlist < RateLimit
    <3>1. ASSUME NEW r \in Requests, NEW p \in Local, Move(r, p), p.pc \in {"join_write"}
          PROVE  waitlist < RateLimit
      BY <3>1 DEF Move
    <3> QED BY <3>1, StageStep
  <2> HIDE DEF R, T
  <2> QED BY <1>1, <1>2, <1>3, <2>1, RaceKeepsBound
<1>4. ASSUME NEW r \in Requests, RecordJoin(r)
      PROVE  waitlist' + Cardinality(T) <= RateLimit + InFlight - 1
  <2>1. waitlist' <= waitlist + 1
    BY <1>2, <1>4 DEF RecordJoin
  <2>2. r \in R /\ T \subseteq R \ {r}
    BY <1>4, AnswerLeaves DEF RecordJoin, At, In
  <2> HIDE DEF R, T
  <2> QED BY <1>1, <1>2, <2>1, <2>2, RaceKeepsBound
<1>5. JoinPasses \/ UNCHANGED waitlist => waitlist' <= waitlist
  BY <1>2 DEF JoinPasses
<1> QED BY <1>3, <1>4, <1>5, WaitlistWriters

LEMMA MissStep ==
  ASSUME Types, Requesting, Limits, [Next]_vars, NEW t \in DOMAIN tokens'
  PROVE  tokens'[t].attempts + Cardinality(Missing(t)') <= MaxCodeAttempts + InFlight - 1
<1> DEFINE R == Missing(t)
           T == Missing(t)'
<1>1. R \in SUBSET Requests /\ T \in SUBSET Requests /\ Cardinality(T) <= InFlight
  <2>1. T \subseteq In({"miss"})' /\ In({"miss"})' \in SUBSET Requests
    BY DEF In, Missing
  <2>2. IsFiniteSet(In({"miss"})') /\ Cardinality(In({"miss"})') \in Nat
    BY <2>1, RequestsCount
  <2>3. Cardinality(T) <= Cardinality(In({"miss"})')
    BY <2>1, <2>2, Within
  <2>4. R \in SUBSET Requests /\ T \in SUBSET Requests
    BY DEF Missing
  <2>5. Cardinality(T) \in Nat
    BY <2>4, RequestsCount
  <2>6. Cardinality(In({"miss"})') <= InFlight
    BY StageCount
  <2> HIDE DEF R, T
  <2> QED BY <2>2, <2>3, <2>4, <2>5, <2>6, BetaAssumption
<1>2. MaxCodeAttempts \in Nat /\ InFlight \in Nat /\ InFlight > 0
  BY BetaAssumption
<1>3. ASSUME t \in DOMAIN tokens
      PROVE  /\ tokens[t].attempts \in Nat
             /\ tokens[t].attempts + Cardinality(R) <= MaxCodeAttempts + InFlight - 1
  BY <1>3, RowTypes DEF Limits, TokenRows
<1>4. T \subseteq R \/ (t \in DOMAIN tokens /\ tokens[t].attempts < MaxCodeAttempts)
  <2>1. CASE Settled
    BY <2>1 DEF Settled, Missing
  <2>2. ASSUME NEW r \in Requests, NEW p \in Local, Move(r, p)
        PROVE  T \subseteq R \/ (t \in DOMAIN tokens /\ tokens[t].attempts < MaxCodeAttempts)
    <3>1. CASE p.pc = "miss" /\ p.arg = t
      BY <2>2, <3>1 DEF Move
    <3>2. CASE ~(p.pc = "miss" /\ p.arg = t)
      BY <2>2, <3>2, MovesOne DEF Missing
    <3> QED BY <3>1, <3>2
  <2> QED BY <2>1, <2>2, Movement
<1>5. ASSUME t \in DOMAIN tokens, tokens'[t].attempts = tokens[t].attempts
      PROVE  tokens'[t].attempts + Cardinality(T) <= MaxCodeAttempts + InFlight - 1
  <2> HIDE DEF R, T
  <2>1. tokens[t].attempts \in Nat /\ tokens'[t].attempts \in Nat
        /\ tokens'[t].attempts <= tokens[t].attempts
    BY <1>3, <1>5
  <2>2. tokens[t].attempts + Cardinality(R) <= MaxCodeAttempts + InFlight - 1
    BY <1>3, <1>5
  <2>3. T \subseteq R \/ tokens[t].attempts < MaxCodeAttempts
    BY <1>4
  <2> QED BY <1>1, <1>2, <2>1, <2>2, <2>3, RaceKeepsBound
<1>6. CASE TokensOnlyAge
  BY <1>5, <1>6 DEF TokensOnlyAge
<1>7. ASSUME NEW r \in Requests, IssueToken(r), tokens' = Append(tokens, NewToken)
      PROVE  tokens'[t].attempts + Cardinality(T) <= MaxCodeAttempts + InFlight - 1
  <2>1. CASE t \in DOMAIN tokens
    <3>1. tokens'[t] = tokens[t]
      BY <1>7, <2>1, RowTypes, AppendAny
    <3> QED BY <1>5, <2>1, <3>1
  <2>2. CASE t \notin DOMAIN tokens
    <3>1. tokens'[t] = NewToken
      BY <1>7, <2>2, RowTypes, AppendAny
    <3>2. tokens'[t].attempts = 0
      BY <3>1 DEF NewToken
    <3>3. T = {}
      <4>1. R = {}
        BY <2>2 DEF Missing, Requesting, Carries
      <4> QED BY <1>4, <2>2, <4>1
    <3>4. Cardinality(T) = 0
      BY <3>3, FS_EmptySet
    <3> QED BY <1>2, <3>2, <3>4
  <2> QED BY <2>1, <2>2
<1>8. ASSUME NEW r \in Requests, CountMiss(r), MissCounted(r)
      PROVE  tokens'[t].attempts + Cardinality(T) <= MaxCodeAttempts + InFlight - 1
  <2>1. t \in DOMAIN tokens
    BY <1>8 DEF MissCounted
  <2>2. CASE t # request[r].arg
    BY <1>5, <1>8, <2>1, <2>2 DEF MissCounted
  <2>3. CASE t = request[r].arg
    <3>1. r \in R /\ T \subseteq R \ {r}
      BY <1>8, <2>3, AnswerLeaves DEF CountMiss, At, Missing
    <3>2. tokens'[t].attempts = tokens[t].attempts + 1
      BY <1>8, <2>1, <2>3 DEF MissCounted
    <3>3. tokens'[t].attempts <= tokens[t].attempts + 1 /\ tokens'[t].attempts \in Nat
      BY <1>3, <2>1, <3>2
    <3> HIDE DEF R, T
    <3> QED BY <1>1, <1>2, <1>3, <2>1, <3>1, <3>3, RaceKeepsBound, ZenonT(40)
  <2> QED BY <2>2, <2>3
<1> QED BY <1>6, <1>7, <1>8, TokensChange

LEMMA LimitsStep ==
  ASSUME Types, Requesting, Limits, [Next]_vars
  PROVE  Limits'
BY InFlightStep, RecentStep, WaitlistStep, MissStep DEF Limits

-----------------------------------------------------------------------------
(* Sessions that slip past a revocation, and their requests.               *)
LEMMA LateTypes ==
  ASSUME Types
  PROVE  /\ IsFiniteSet(LateSessions) /\ Cardinality(LateSessions) \in Nat
         /\ LateRequests \in SUBSET Requests
         /\ revokes \in Nat /\ \A s \in DOMAIN sessions : sessions[s].issued \in Nat
<1>1. Len(sessions) \in Nat /\ LateSessions \in SUBSET (1..Len(sessions))
  BY ElementOfSeq, RowTypes DEF LateSessions
<1>2. IsFiniteSet(LateSessions) /\ Cardinality(LateSessions) \in Nat
  BY <1>1, IndexesCount
<1>3. revokes \in Nat
  BY DEF Types, TypeOK
<1>4. \A s \in DOMAIN sessions : sessions[s].issued \in Nat
  BY RowTypes DEF SessionRows
<1> QED BY <1>2, <1>3, <1>4 DEF LateRequests, In

LEMMA OvertakenStep ==
  ASSUME Types, Requesting, Credentials, Limits, Overtaken, [Next]_vars
  PROVE  Overtaken'
<1> DEFINE n == Cardinality(LateSessions)
           m == Cardinality(LateSessions')
           R == LateRequests
           T == LateRequests'
<1>1. /\ n \in Nat /\ IsFiniteSet(LateSessions) /\ n + Cardinality(R) <= InFlight /\ R \in SUBSET Requests
      /\ revokes \in Nat /\ \A s \in DOMAIN sessions : sessions[s].issued \in Nat
      /\ InFlight \in Nat
  BY LateTypes, BetaAssumption DEF Overtaken
<1>2. m \in Nat /\ T \in SUBSET Requests /\ revokes' \in Nat
  <2>1. Types'
    BY TypesStep
  <2>2. Len(sessions') \in Nat /\ LateSessions' \in SUBSET (1..Len(sessions'))
    BY <2>1, ElementOfSeq, SessionsStep DEF LateSessions
  <2>3. m \in Nat
    BY <2>2, IndexesCount
  <2>4. T \in SUBSET Requests
    BY DEF LateRequests, In
  <2> QED BY <2>3, <2>4, OwnerStarting
<1>3. Cardinality(T) <= InFlight
  <2>1. T \subseteq In(Checked)' /\ In(Checked)' \in SUBSET Requests
    BY DEF LateRequests, In
  <2>2. IsFiniteSet(In(Checked)') /\ Cardinality(In(Checked)') \in Nat /\ Cardinality(T) \in Nat
    BY <2>1, <1>2, RequestsCount
  <2>3. Cardinality(T) <= Cardinality(In(Checked)')
    BY <2>1, <2>2, Within
  <2>4. Cardinality(In(Checked)') <= InFlight
    BY StageCount DEF Checked
  <2> HIDE DEF T
  <2> QED BY <1>1, <2>2, <2>3, <2>4
<1>4. CASE revokes' # revokes
  <2>1. revokes' = revokes + 1 /\ UNCHANGED sessions
    BY <1>4, OwnerStarting DEF Uninvite
  <2>2. LateSessions' = {}
    <3>1. \A s \in DOMAIN sessions : sessions[s].issued <= revokes
      BY DEF Credentials
    <3> QED BY <1>1, <2>1, <3>1 DEF LateSessions
  <2>3. m = 0
    BY <2>2, FS_EmptySet
  <2>4. m + Cardinality(T) <= InFlight
    <3>1. Cardinality(T) \in Nat
      BY <1>2, RequestsCount
    <3> HIDE DEF m, T
    <3> QED BY <1>1, <1>3, <2>3, <3>1
  <2> QED BY <2>4 DEF Overtaken
<1>5. ASSUME UNCHANGED revokes
      PROVE  T \subseteq R
  <2>1. CASE Settled
    BY <1>5, <2>1 DEF Settled, LateRequests, In, Checked
  <2>2. ASSUME NEW r \in Requests, NEW p \in Local, Move(r, p)
        PROVE  T \subseteq R
    <3>1. p.pc \in Checked /\ p.epoch < revokes => request[r].pc \in Checked /\ request[r].epoch = p.epoch
      BY <1>1, <2>2 DEF Move, Local
    <3> QED BY <1>5, <2>2, <3>1, MovesOne DEF LateRequests, In
  <2> QED BY <2>1, <2>2, Movement
<1>6. CASE UNCHANGED revokes /\ SessionsOnlyClose
  <2>1. LateSessions' \subseteq LateSessions
    BY <1>6 DEF SessionsOnlyClose, LateSessions
  <2>2. m <= n
    BY <1>1, <2>1, Within
  <2>3. m + Cardinality(T) <= InFlight
    <3>1. IsFiniteSet(R) /\ Cardinality(R) \in Nat /\ Cardinality(T) \in Nat
      BY <1>1, <1>2, RequestsCount
    <3>2. Cardinality(T) <= Cardinality(R)
      BY <1>5, <1>6, <3>1, Within
    <3> HIDE DEF m, n, R, T
    <3> QED BY <1>1, <1>2, <2>2, <3>1, <3>2
  <2> QED BY <2>3 DEF Overtaken
<1>7. ASSUME UNCHANGED revokes, NEW r \in Requests, IssueSession(r),
             sessions' = Append(sessions, Issued(r))
      PROVE  Overtaken'
  <2>1. /\ \A s \in DOMAIN sessions : sessions'[s] = sessions[s]
        /\ DOMAIN sessions' = DOMAIN sessions \cup {Len(sessions) + 1}
        /\ sessions'[Len(sessions) + 1] = Issued(r)
    BY <1>7, RowTypes, AppendAny
  <2>2. IsFiniteSet(R) /\ Cardinality(R) \in Nat /\ Cardinality(T) \in Nat
    BY <1>1, <1>2, RequestsCount
  <2>3. CASE request[r].epoch < revokes
    <3>1. LateSessions' \subseteq LateSessions \cup {Len(sessions) + 1}
      BY <1>7, <2>1 DEF LateSessions
    <3>2. m <= n + 1
      BY <1>1, <3>1, Grows
    <3>3. r \in R
      BY <1>7, <2>3 DEF IssueSession, At, LateRequests, In, Checked
    <3>4. r \notin T
      BY <1>7, AnswerLeaves DEF IssueSession, LateRequests, In, Checked
    <3>5. T \subseteq R \ {r}
      BY <1>5, <1>7, <3>4
    <3>6. Cardinality(T) + 1 <= Cardinality(R)
      BY <2>2, <3>3, <3>5, Shrinks
    <3>7. m + Cardinality(T) <= InFlight
      <4> HIDE DEF m, n, R, T
      <4> QED BY <1>1, <1>2, <2>2, <3>2, <3>6
    <3> QED BY <3>7 DEF Overtaken
  <2>4. CASE ~(request[r].epoch < revokes)
    <3>1. LateSessions' \subseteq LateSessions
      BY <1>7, <2>1, <2>4 DEF LateSessions, Issued
    <3>2. m <= n
      BY <1>1, <3>1, Within
    <3>3. Cardinality(T) <= Cardinality(R)
      BY <1>5, <1>7, <2>2, Within
    <3>4. m + Cardinality(T) <= InFlight
      <4> HIDE DEF m, n, R, T
      <4> QED BY <1>1, <1>2, <2>2, <3>2, <3>3
    <3> QED BY <3>4 DEF Overtaken
  <2> QED BY <2>3, <2>4
<1> QED BY <1>4, <1>6, <1>7, SessionsStep

-----------------------------------------------------------------------------
(* Decisions, what they close and what they tell.                          *)
LEMMA GrantTally ==
  ASSUME Types, NEW row, grants' = Append(grants, row), NEW tier
  PROVE  Taken(tier)' = Taken(tier) + One(row.tier = tier)
<1> DEFINE S == {i \in DOMAIN grants : grants[i].tier = tier}
           T == {i \in DOMAIN grants' : grants'[i].tier = tier}
           n == Len(grants) + 1
<1>1. /\ DOMAIN grants' = DOMAIN grants \cup {n} /\ n \notin DOMAIN grants
      /\ \A i \in DOMAIN grants : grants'[i] = grants[i]
      /\ grants'[n] = row
  BY RowTypes, AppendAny
<1>2. IsFiniteSet(S) /\ Cardinality(S) \in Nat
  BY TallyTypes DEF Taken
<1>3. CASE row.tier = tier
  <2>1. T = S \cup {n} /\ n \notin S
    BY <1>1, <1>3
  <2>2. Cardinality(T) = Cardinality(S) + 1
    <3> HIDE DEF S, T, n
    <3> QED BY <1>2, <2>1, Grows
  <2> QED BY <1>3, <2>2 DEF Taken, One
<1>4. CASE row.tier # tier
  <2>1. T = S
    BY <1>1, <1>4
  <2>2. Taken(tier)' = Taken(tier) /\ One(row.tier = tier) = 0 /\ Taken(tier) \in Nat
    BY <1>2, <1>4, <2>1 DEF Taken, One
  <2> QED BY <2>2
<1> QED BY <1>3, <1>4

LEMMA NoticeTally ==
  ASSUME Types, NEW notice, notices' = Append(notices, notice), NEW kind
  PROVE  Told(kind)' = Told(kind) + One(notice = kind)
<1> DEFINE S == {i \in DOMAIN notices : notices[i] = kind}
           T == {i \in DOMAIN notices' : notices'[i] = kind}
           n == Len(notices) + 1
<1>1. /\ DOMAIN notices' = DOMAIN notices \cup {n} /\ n \notin DOMAIN notices
      /\ \A i \in DOMAIN notices : notices'[i] = notices[i]
      /\ notices'[n] = notice
  BY AppendAny DEF Types, TypeOK
<1>2. IsFiniteSet(S) /\ Cardinality(S) \in Nat
  BY TallyTypes DEF Told
<1>3. CASE notice = kind
  <2>1. T = S \cup {n} /\ n \notin S
    BY <1>1, <1>3
  <2>2. Cardinality(T) = Cardinality(S) + 1
    <3> HIDE DEF S, T, n
    <3> QED BY <1>2, <2>1, Grows
  <2> QED BY <1>3, <2>2 DEF Told, One
<1>4. CASE notice # kind
  <2>1. T = S
    BY <1>1, <1>4
  <2>2. Told(kind)' = Told(kind) /\ One(notice = kind) = 0 /\ Told(kind) \in Nat
    BY <1>2, <1>4, <2>1 DEF Told, One
  <2> QED BY <2>2
<1> QED BY <1>3, <1>4

LEMMA GrantTallies ==
  ASSUME Types, NEW row, grants' = Append(grants, row)
  PROVE  /\ Taken("approved")' = IF row.tier = "approved" THEN Taken("approved") + 1
                                                        ELSE Taken("approved")
         /\ Taken("revoked")' = IF row.tier = "revoked" THEN Taken("revoked") + 1
                                                       ELSE Taken("revoked")
<1>1. Taken("approved") \in Nat /\ Taken("revoked") \in Nat
  BY TallyTypes
<1>2. \A tier : Taken(tier)' = Taken(tier) + One(row.tier = tier)
  BY GrantTally
<1> QED BY <1>1, <1>2 DEF One

LEMMA NoticeTallies ==
  ASSUME Types, NEW notice, notices' = Append(notices, notice)
  PROVE  /\ notice = "access_approved" => /\ Told("access_approved")' = Told("access_approved") + 1
                                         /\ Told("access_revoked")' = Told("access_revoked")
         /\ notice = "access_revoked" => /\ Told("access_revoked")' = Told("access_revoked") + 1
                                        /\ Told("access_approved")' = Told("access_approved")
<1>1. Told("access_approved") \in Nat /\ Told("access_revoked") \in Nat
  BY TallyTypes
<1>2. \A kind : Told(kind)' = Told(kind) + One(notice = kind)
  BY NoticeTally
<1> QED BY <1>1, <1>2 DEF One

LEMMA FirstGrantTally ==
  ASSUME grants = <<>>, grants' = <<[tier |-> "waitlisted", by |-> "door", seen |-> 0]>>,
         NEW tier \in {"approved", "revoked"}
  PROVE  Taken(tier)' = Taken(tier)
<1>1. /\ {i \in DOMAIN grants : grants[i].tier = tier} = {}
      /\ {i \in DOMAIN grants' : grants'[i].tier = tier} = {}
  OBVIOUS
<1> QED BY <1>1 DEF Taken

LEMMA TakenStep ==
  ASSUME Types, Requesting, [Next]_vars
  PROVE  \/ \A tier \in {"approved", "revoked"} : Taken(tier)' = Taken(tier)
         \/ \E r \in Requests : DoorApproves(r) /\ Taken("approved")' = Taken("approved") + 1
                                /\ Taken("revoked")' = Taken("revoked")
         \/ Decide("approved") /\ Taken("approved")' = Taken("approved") + 1
                               /\ Taken("revoked")' = Taken("revoked")
         \/ Decide("revoked") /\ Taken("revoked")' = Taken("revoked") + 1
                              /\ Taken("approved")' = Taken("approved")
<1>1. Taken("approved") \in Nat /\ Taken("revoked") \in Nat
  BY TallyTypes
<1>2. CASE UNCHANGED grants
  BY <1>2 DEF Taken
<1>3. CASE grants = <<>> /\ grants' = <<[tier |-> "waitlisted", by |-> "door", seen |-> 0]>>
  BY <1>3, FirstGrantTally
<1>5. ASSUME NEW row, grants' = Append(grants, row)
      PROVE  /\ Taken("approved")' = IF row.tier = "approved" THEN Taken("approved") + 1
                                                            ELSE Taken("approved")
             /\ Taken("revoked")' = IF row.tier = "revoked" THEN Taken("revoked") + 1
                                                           ELSE Taken("revoked")
  BY <1>5, GrantTallies
<1>6. ASSUME NEW r \in Requests, DoorApproves(r),
             grants' = Append(grants, [tier |-> "approved", by |-> "door", seen |-> request[r].seen])
      PROVE  /\ Taken("approved")' = Taken("approved") + 1 /\ Taken("revoked")' = Taken("revoked")
  BY <1>5, <1>6
<1>7. ASSUME NEW tier \in {"approved", "revoked", "paused"}, Decide(tier),
             grants' = Append(grants, [tier |-> tier, by |-> "owner", seen |-> Len(grants)])
      PROVE  \/ tier = "paused" /\ \A k \in {"approved", "revoked"} : Taken(k)' = Taken(k)
             \/ /\ tier = "approved" /\ Taken("approved")' = Taken("approved") + 1
                /\ Taken("revoked")' = Taken("revoked")
             \/ /\ tier = "revoked" /\ Taken("revoked")' = Taken("revoked") + 1
                /\ Taken("approved")' = Taken("approved")
  BY <1>5, <1>7
<1> QED BY <1>2, <1>3, <1>6, <1>7, GrantsStep

LEMMA ClosingStep ==
  ASSUME Types, Requesting, Closing, [Next]_vars
  PROVE  Closing'
<1> SUFFICES ASSUME ~killed'
             PROVE  /\ owner' # "cascade" =>
                         \A s \in DOMAIN sessions' : sessions'[s].live => sessions'[s].issued = revokes'
                    /\ owner' # "close_bearer" =>
                         \A b \in DOMAIN bearer' : bearer'[b].live =>
                           bearer'[b].issued = Taken("revoked")'
  BY DEF Closing
<1>1. ~killed /\ ~ServerDies /\ ~OwnerDies
  <2>1. ServerDies \/ OwnerDies => killed'
    BY DEF ServerDies, OwnerDies
  <2>2. UNCHANGED killed
    BY <2>1, Killers
  <2> QED BY <2>1, <2>2
<1>2. ASSUME owner' # "cascade", NEW s \in DOMAIN sessions', sessions'[s].live
      PROVE  sessions'[s].issued = revokes'
  <2>1. ~CascadeSessions
    <3> SUFFICES ASSUME CascadeSessions PROVE FALSE
      OBVIOUS
    <3>1. sessions' = [u \in DOMAIN sessions |-> [sessions[u] EXCEPT !.live = FALSE]]
      BY DEF CascadeSessions
    <3>2. s \in DOMAIN sessions /\ sessions'[s] = [sessions[s] EXCEPT !.live = FALSE]
      BY <1>2, <3>1
    <3>3. sessions[s] \in SessionRows
      BY <3>2, RowTypes
    <3> QED BY <1>2, <3>2, <3>3 DEF SessionRows
  <2>2. owner # "cascade"
    BY <1>1, <1>2, <2>1, OwnerWriters DEF Uninvite, Decide, CloseBearer, Tell, OwnerStarts
  <2>3. UNCHANGED revokes
    <3>1. Uninvite => UNCHANGED revokes
      BY <1>2 DEF Uninvite
    <3> QED BY <3>1, OwnerStarting
  <2>4. CASE SessionsOnlyClose
    BY <1>1, <1>2, <2>2, <2>3, <2>4 DEF SessionsOnlyClose, Closing
  <2>5. ASSUME NEW r \in Requests, IssueSession(r), sessions' = Append(sessions, Issued(r))
        PROVE  sessions'[s].issued = revokes'
    <3>1. \/ s \in DOMAIN sessions /\ sessions'[s] = sessions[s]
          \/ sessions'[s] = Issued(r)
      BY <1>2, <2>5, RowTypes, AppendAny
    <3>2. Issued(r).issued = revokes
      BY DEF Issued
    <3> QED BY <1>1, <1>2, <2>2, <2>3, <3>1, <3>2 DEF Closing
  <2> QED BY <2>4, <2>5, SessionsStep
<1>3. ASSUME owner' # "close_bearer", NEW b \in DOMAIN bearer', bearer'[b].live
      PROVE  bearer'[b].issued = Taken("revoked")'
  <2>1. \/ UNCHANGED bearer
        \/ \E r \in Requests :
             IssueBearer(r) /\ bearer' = Append(bearer, [live |-> TRUE, issued |-> Taken("revoked")])
    BY <1>3, BearersStep
  <2>2. ~CloseBearer
    <3> SUFFICES ASSUME CloseBearer PROVE FALSE
      OBVIOUS
    <3>1. bearer' = [u \in DOMAIN bearer |-> [bearer[u] EXCEPT !.live = FALSE]]
      BY DEF CloseBearer
    <3>2. b \in DOMAIN bearer /\ bearer'[b] = [bearer[b] EXCEPT !.live = FALSE]
      BY <1>3, <3>1
    <3>3. bearer[b] \in BearerRows
      BY <3>2, RowTypes
    <3> QED BY <1>3, <3>2, <3>3 DEF BearerRows
  <2>3. owner # "close_bearer"
    BY <1>1, <1>3, <2>2, OwnerWriters DEF Uninvite, Decide, CascadeSessions, Tell, OwnerStarts
  <2>4. Taken("revoked")' = Taken("revoked")
    <3>1. ~Decide("revoked")
      BY <1>3 DEF Decide
    <3> QED BY <3>1, TakenStep
  <2>5. CASE UNCHANGED bearer
    BY <1>1, <1>3, <2>3, <2>4, <2>5 DEF Closing
  <2>6. CASE bearer' = Append(bearer, [live |-> TRUE, issued |-> Taken("revoked")])
    <3>1. \/ b \in DOMAIN bearer /\ bearer'[b] = bearer[b]
          \/ bearer'[b] = [live |-> TRUE, issued |-> Taken("revoked")]
      BY <1>3, <2>6, RowTypes, AppendAny
    <3> QED BY <1>1, <1>3, <2>3, <2>4, <3>1 DEF Closing
  <2> QED BY <2>1, <2>5, <2>6
<1> QED BY <1>2, <1>3

LEMMA NotifyStage ==
  ASSUME Types, Requesting, [Next]_vars
  PROVE  \/ In({"notify"})' = In({"notify"})
         \/ killed' /\ In({"notify"})' \subseteq In({"notify"})
         \/ \E r \in Requests : DoorApproves(r) \/ DoorNotifies(r)
<1>1. CASE Settled
  BY <1>1 DEF Settled, In
<1>2. ASSUME NEW r \in Requests, NEW p \in Local, Move(r, p)
      PROVE  \/ In({"notify"})' = In({"notify"})
             \/ \E q \in Requests : DoorApproves(q) \/ DoorNotifies(q)
  <2>1. CASE request[r].pc \in {"approve", "notify"}
    BY <1>2, <2>1 DEF Move
  <2>2. CASE request[r].pc \notin {"approve", "notify"}
    <3>1. p.pc # "notify"
      BY <1>2, <2>2 DEF Move
    <3> QED BY <1>2, <2>2, <3>1, MovesOne DEF In
  <2> QED BY <2>1, <2>2
<1> QED BY <1>1, <1>2, Movement

LEMMA GoesTo ==
  ASSUME Types, NEW r \in Requests, NEW pc \in PCs, Goto(r, pc)
  PROVE  \A q \in Requests :
           IF q = r THEN request'[q].pc = pc ELSE request'[q] = request[q]
<1>1. PICK p \in Local : request' = [request EXCEPT ![r] = p] /\ p.pc = pc
  BY Going DEF Types
<1> QED BY <1>1 DEF Types

LEMMA ToldStep ==
  ASSUME Types, Requesting, [Next]_vars
  PROVE  \/ Told("access_approved")' = Told("access_approved") /\ Told("access_revoked")' = Told("access_revoked")
         \/ \E r \in Requests :
              /\ DoorNotifies(r) /\ Told("access_approved")' = Told("access_approved") + 1
              /\ Told("access_revoked")' = Told("access_revoked")
         \/ /\ Tell
            /\ \/ /\ owner = "tell_approved"
                  /\ Told("access_approved")' = Told("access_approved") + 1
                  /\ Told("access_revoked")' = Told("access_revoked")
               \/ /\ owner = "tell_revoked"
                  /\ Told("access_approved")' = Told("access_approved")
                  /\ Told("access_revoked")' = Told("access_revoked") + 1
<1>1. Told("access_approved") \in Nat /\ Told("access_revoked") \in Nat
  BY TallyTypes
<1>2. CASE UNCHANGED notices
  BY <1>2 DEF Told
<1>3. ASSUME NEW notice \in {"access_approved", "access_revoked"}, notices' = Append(notices, notice)
      PROVE  \/ /\ notice = "access_approved"
                /\ Told("access_approved")' = Told("access_approved") + 1
                /\ Told("access_revoked")' = Told("access_revoked")
             \/ /\ notice = "access_revoked"
                /\ Told("access_approved")' = Told("access_approved")
                /\ Told("access_revoked")' = Told("access_revoked") + 1
  BY <1>3, NoticeTallies
<1>4. ASSUME NEW r \in Requests, DoorNotifies(r), notices' = Append(notices, "access_approved")
      PROVE  /\ Told("access_approved")' = Told("access_approved") + 1
             /\ Told("access_revoked")' = Told("access_revoked")
  BY <1>3, <1>4
<1>5. ASSUME Tell, notices' = Append(notices, IF owner = "tell_approved"
                                              THEN "access_approved" ELSE "access_revoked")
      PROVE  \/ /\ owner = "tell_approved"
                /\ Told("access_approved")' = Told("access_approved") + 1
                /\ Told("access_revoked")' = Told("access_revoked")
             \/ /\ owner = "tell_revoked"
                /\ Told("access_approved")' = Told("access_approved")
                /\ Told("access_revoked")' = Told("access_revoked") + 1
  <2>1. owner \in {"tell_approved", "tell_revoked"}
    BY <1>5 DEF Tell
  <2> QED BY <1>3, <1>5, <2>1
<1> QED BY <1>2, <1>4, <1>5, NoticesStep

LEMMA TellingStep ==
  ASSUME Types, Requesting, Telling, [Next]_vars
  PROVE  Telling'
<1> DEFINE ta == Told("access_approved")
           tr == Told("access_revoked")
           ga == Taken("approved")
           gr == Taken("revoked")
           S == In({"notify"})
           oa == One(owner = "tell_approved")
           or == One(owner \in {"close_bearer", "tell_revoked"})
<1>1. /\ ta \in Nat /\ tr \in Nat /\ ga \in Nat /\ gr \in Nat
      /\ S \in SUBSET Requests /\ S' \in SUBSET Requests
  BY TallyTypes DEF In
<1>2. IsFiniteSet(S) /\ Cardinality(S) \in Nat /\ IsFiniteSet(S') /\ Cardinality(S') \in Nat
  BY <1>1, RequestsCount
<1>3. /\ ta + Cardinality(S) + oa <= ga /\ tr + or <= gr
      /\ ~killed => ta + Cardinality(S) + oa = ga /\ tr + or = gr
  BY DEF Telling, ToldOrTelling, ToldOrClosing
<1>4. oa \in {0, 1} /\ or \in {0, 1} /\ oa' \in {0, 1} /\ or' \in {0, 1}
  BY DEF One
<1>5. killed => killed'
  <2>1. ServerDies \/ OwnerDies => killed'
    BY DEF ServerDies, OwnerDies
  <2> QED BY <2>1, Killers, Zenon
<1>6. SUFFICES /\ ta' + Cardinality(S') + oa' <= ga' /\ tr' + or' <= gr'
               /\ ~killed' => ta' + Cardinality(S') + oa' = ga' /\ tr' + or' = gr'
  BY DEF Telling, ToldOrTelling, ToldOrClosing
<1>7. CASE \E r \in Requests : DoorApproves(r)
  <2>1. PICK r \in Requests : DoorApproves(r)
    BY <1>7
  <2>2. S' = S \cup {r} /\ r \notin S
    <3>1. request[r].pc = "approve" /\ Goto(r, "notify")
      BY <2>1 DEF DoorApproves, At
    <3> QED BY <3>1, GoesTo DEF In, PCs, Claimed, Checked
  <2>3. Cardinality(S') = Cardinality(S) + 1
    <3> HIDE DEF S
    <3> QED BY <1>2, <2>2, Grows
  <2>4. UNCHANGED <<notices, owner, killed>>
    BY <2>1 DEF DoorApproves, history
  <2>5. ta' = ta /\ tr' = tr /\ oa' = oa /\ or' = or
    BY <2>4 DEF Told, One
  <2>6. ga' = ga + 1 /\ gr' = gr
    <3>1. grants' = Append(grants, [tier |-> "approved", by |-> "door", seen |-> request[r].seen])
      BY <2>1 DEF DoorApproves
    <3>2. \A row : grants' = Append(grants, row) /\ row.tier = "approved" => ga' = ga + 1 /\ gr' = gr
      BY GrantTallies
    <3> QED BY <3>1, <3>2
  <2> HIDE DEF ta, tr, ga, gr, S, oa, or
  <2> QED BY <1>1, <1>2, <1>3, <1>4, <1>5, <2>3, <2>5, <2>6
<1>8. CASE \E r \in Requests : DoorNotifies(r)
  <2>1. PICK r \in Requests : DoorNotifies(r)
    BY <1>8
  <2>2. S' = S \ {r} /\ r \in S
    <3>1. request[r].pc = "notify" /\ Goto(r, "issue")
      BY <2>1 DEF DoorNotifies, At
    <3> QED BY <3>1, GoesTo DEF In, PCs, Claimed, Checked
  <2>3. Cardinality(S') + 1 = Cardinality(S)
    <3> HIDE DEF S
    <3> QED BY <1>2, <2>2, Shrinks
  <2>4. UNCHANGED <<grants, owner, killed>>
    BY <2>1 DEF DoorNotifies, history
  <2>5. ga' = ga /\ gr' = gr /\ oa' = oa /\ or' = or
    BY <2>4 DEF Taken, One
  <2>6. ta' = ta + 1 /\ tr' = tr
    <3>1. notices' = Append(notices, "access_approved")
      BY <2>1 DEF DoorNotifies
    <3> QED BY <3>1, NoticeTallies
  <2> HIDE DEF ta, tr, ga, gr, S, oa, or
  <2> QED BY <1>1, <1>2, <1>3, <1>4, <1>5, <2>3, <2>5, <2>6
<1>9. CASE ~(\E r \in Requests : DoorApproves(r) \/ DoorNotifies(r))
  <2>1. \/ Cardinality(S') = Cardinality(S)
        \/ killed' /\ Cardinality(S') <= Cardinality(S)
    <3>1. S' \subseteq S => Cardinality(S') <= Cardinality(S)
      BY <1>2, Within
    <3> HIDE DEF S
    <3>2. S' = S \/ (killed' /\ S' \subseteq S)
      BY <1>9, NotifyStage DEF S
    <3> QED BY <3>1, <3>2
  <2>2. \/ /\ ga' = ga /\ gr' = gr
           /\ ~Decide("approved") /\ ~Decide("revoked")
        \/ Decide("approved") /\ ga' = ga + 1 /\ gr' = gr
        \/ Decide("revoked") /\ gr' = gr + 1 /\ ga' = ga
    <3>1. \A tier \in {"approved", "revoked"} : Decide(tier) => Taken(tier)' = Taken(tier) + 1
      <4> SUFFICES ASSUME NEW tier \in {"approved", "revoked"}, Decide(tier)
                   PROVE  Taken(tier)' = Taken(tier) + 1
        OBVIOUS
      <4>1. grants' = Append(grants, [tier |-> tier, by |-> "owner", seen |-> Len(grants)])
        BY DEF Decide
      <4>2. \A row : grants' = Append(grants, row) /\ row.tier = tier => Taken(tier)' = Taken(tier) + 1
        BY GrantTallies
      <4> QED BY <4>1, <4>2
    <3> QED BY <1>1, <1>9, <3>1, TakenStep
  <2>3. \/ ta' = ta /\ tr' = tr /\ ~Tell
        \/ /\ Tell /\ owner = "tell_approved" /\ ta' = ta + 1 /\ tr' = tr
        \/ /\ Tell /\ owner = "tell_revoked" /\ ta' = ta /\ tr' = tr + 1
    <3>1. Tell => \/ owner = "tell_approved" /\ ta' = ta + 1 /\ tr' = tr
                  \/ owner = "tell_revoked" /\ ta' = ta /\ tr' = tr + 1
      <4> SUFFICES ASSUME Tell
                   PROVE  \/ owner = "tell_approved" /\ ta' = ta + 1 /\ tr' = tr
                          \/ owner = "tell_revoked" /\ ta' = ta /\ tr' = tr + 1
        OBVIOUS
      <4>1. \/ owner = "tell_approved" /\ notices' = Append(notices, "access_approved")
            \/ owner = "tell_revoked" /\ notices' = Append(notices, "access_revoked")
        BY DEF Tell
      <4> QED BY <4>1, NoticeTallies
    <3> QED BY <1>9, <3>1, ToldStep
  <2>4. \/ /\ oa' = oa /\ or' = or /\ ~Decide("approved") /\ ~Decide("revoked") /\ ~Tell
        \/ /\ killed' /\ oa' <= oa /\ or' <= or
           /\ ~Decide("approved") /\ ~Decide("revoked") /\ ~Tell
        \/ /\ Decide("approved") /\ ~Decide("revoked") /\ ~Tell /\ oa = 0 /\ oa' = 1 /\ or' = or
        \/ /\ Decide("revoked") /\ ~Decide("approved") /\ ~Tell /\ or = 0 /\ or' = 1 /\ oa' = oa
        \/ /\ Tell /\ ~Decide("approved") /\ ~Decide("revoked")
           /\ \/ owner = "tell_approved" /\ oa = 1 /\ oa' = 0 /\ or' = or
              \/ owner = "tell_revoked" /\ or = 1 /\ or' = 0 /\ oa' = oa
    <3>1. CASE Tell
      BY <3>1 DEF Tell, Decide, OwnerStarts, One
    <3>2. CASE Decide("approved")
      BY <3>2 DEF Tell, Decide, OwnerStarts, One
    <3>3. CASE Decide("revoked")
      BY <3>3 DEF Tell, Decide, OwnerStarts, One
    <3>4. CASE ~Tell /\ ~Decide("approved") /\ ~Decide("revoked")
      <4>1. CASE UNCHANGED owner
        BY <3>4, <4>1 DEF One
      <4>2. CASE Decide("paused")
        BY <3>4, <4>2 DEF Decide, OwnerStarts, One
      <4>3. CASE Uninvite \/ CascadeSessions \/ CloseBearer
        BY <3>4, <4>3 DEF Uninvite, CascadeSessions, CloseBearer, OwnerStarts, One
      <4>4. CASE OwnerDies
        BY <3>4, <4>4 DEF OwnerDies, One
      <4> QED BY <3>4, <4>1, <4>2, <4>3, <4>4, OwnerWriters
    <3> QED BY <3>1, <3>2, <3>3, <3>4
  <2> HIDE DEF ta, tr, ga, gr, S, oa, or
  <2> QED BY <1>1, <1>2, <1>3, <1>4, <1>5, <2>1, <2>2, <2>3, <2>4
<1> QED BY <1>7, <1>8, <1>9

-----------------------------------------------------------------------------
(* The door and the owner's closings.                                      *)
Reopens(g, i, j) ==
  /\ g[i].by = "door" /\ g[j].tier \in ClosedTiers
  /\ \A k \in (j + 1)..(i - 1) : g[k].tier \in ClosedTiers

LEMMA DoorStep ==
  ASSUME Types, Requesting, DoorReopensOnlyIfOvertaken, [Next]_vars
  PROVE  DoorReopensOnlyIfOvertaken'
<1> DEFINE n == Len(grants)
<1>1. n \in Nat /\ DOMAIN grants = 1..n
  BY RowTypes, ElementOfSeq
<1>2. \A i \in DOMAIN grants : \A j \in 1..(i - 1) : Reopens(grants, i, j) => j > grants[i].seen
  BY DEF DoorReopensOnlyIfOvertaken, Reopens
<1>3. SUFFICES \A i \in DOMAIN grants' : \A j \in 1..(i - 1) :
                 Reopens(grants', i, j) => j > grants'[i].seen
  BY DEF DoorReopensOnlyIfOvertaken, Reopens
<1>4. CASE UNCHANGED grants
  BY <1>2, <1>4
<1>5. CASE grants' = <<[tier |-> "waitlisted", by |-> "door", seen |-> 0]>>
  <2>1. DOMAIN grants' = 1..1
    BY <1>5
  <2> QED BY <2>1
<1>6. ASSUME NEW row, grants' = Append(grants, row), row.seen \in Nat,
             row.by = "door" => /\ row.seen <= n
                                /\ row.seen > 0 => grants[row.seen].tier \notin ClosedTiers,
             NEW i \in DOMAIN grants', NEW j \in 1..(i - 1), Reopens(grants', i, j)
      PROVE  j > grants'[i].seen
  <2>1. /\ DOMAIN grants' = DOMAIN grants \cup {n + 1} /\ n + 1 \notin DOMAIN grants
        /\ \A k \in DOMAIN grants : grants'[k] = grants[k]
        /\ grants'[n + 1] = row
    BY <1>6, RowTypes, AppendAny
  <2>2. CASE i \in DOMAIN grants
    <3>1. /\ j \in DOMAIN grants /\ grants'[i] = grants[i] /\ grants'[j] = grants[j]
          /\ \A k \in (j + 1)..(i - 1) : grants'[k] = grants[k]
      BY <1>1, <2>1, <2>2
    <3>2. Reopens(grants, i, j)
      BY <1>6, <3>1 DEF Reopens
    <3> QED BY <1>2, <2>2, <3>1, <3>2
  <2>3. CASE i = n + 1
    <3>1. /\ row.by = "door" /\ j \in 1..n
          /\ \A k \in j..n : grants[k].tier \in ClosedTiers
      <4>1. grants'[i] = row /\ j \in 1..n
        BY <1>1, <2>1, <2>3
      <4>2. \A k \in j..n : grants'[k] = grants[k]
        BY <1>1, <2>1, <4>1
      <4>3. \A k \in j..n : k = j \/ k \in (j + 1)..(i - 1)
        BY <1>1, <2>3, <4>1
      <4> QED BY <1>6, <4>1, <4>2, <4>3 DEF Reopens
    <3>2. CASE row.seen = 0
      BY <1>1, <2>1, <2>3, <3>1, <3>2
    <3>3. CASE row.seen > 0
      <4>1. grants[row.seen].tier \notin ClosedTiers /\ row.seen <= n
        BY <1>6, <3>1, <3>3
      <4>2. row.seen \notin j..n
        BY <3>1, <4>1
      <4> QED BY <1>1, <1>6, <2>1, <2>3, <3>1, <4>1, <4>2
    <3> QED BY <1>6, <3>2, <3>3
  <2> QED BY <2>1, <2>2, <2>3
<1>7. ASSUME NEW r \in Requests, DoorApproves(r),
             grants' = Append(grants, [tier |-> "approved", by |-> "door", seen |-> request[r].seen])
      PROVE  \A i \in DOMAIN grants' : \A j \in 1..(i - 1) : Reopens(grants', i, j) => j > grants'[i].seen
  <2>1. /\ request[r].seen \in Nat /\ request[r].seen <= n
        /\ request[r].seen > 0 => grants[request[r].seen].tier \notin ClosedTiers
    BY <1>7 DEF DoorApproves, At, Types, Local, Requesting, Carries
  <2>2. PICK row : row = [tier |-> "approved", by |-> "door", seen |-> request[r].seen]
    OBVIOUS
  <2>3. row.by = "door" /\ row.seen = request[r].seen /\ grants' = Append(grants, row)
    BY <1>7, <2>2
  <2> QED BY <1>6, <2>1, <2>3
<1>8. ASSUME NEW tier,
             grants' = Append(grants, [tier |-> tier, by |-> "owner", seen |-> Len(grants)])
      PROVE  \A i \in DOMAIN grants' : \A j \in 1..(i - 1) : Reopens(grants', i, j) => j > grants'[i].seen
  <2>1. PICK row : row = [tier |-> tier, by |-> "owner", seen |-> Len(grants)]
    OBVIOUS
  <2>2. row.by = "owner" /\ row.seen \in Nat /\ grants' = Append(grants, row)
    BY <1>1, <1>8, <2>1
  <2> QED BY <1>6, <2>2
<1> QED BY <1>4, <1>5, <1>7, <1>8, GrantsStep

-----------------------------------------------------------------------------
(* The invariant, and what follows from it.                                *)
LEMMA GateInit == Init => GateInv
<1> SUFFICES ASSUME Init PROVE GateInv
  OBVIOUS
<1>1. /\ NewToken \in TokenRows /\ NewToken.attempts = 0
      /\ Idle \in Local /\ Idle.pc = "new" /\ Idle.epoch = 0
  BY DEF NewToken, TokenRows, Ages, Idle, Local, PCs
<1>2. tokens \in Seq(TokenRows) /\ (tokens = <<>> \/ tokens = <<NewToken>>)
  BY <1>1 DEF Init
<1>3. /\ grants \in Seq(GrantRows)
      /\ grants = <<>> \/ grants = <<[tier |-> "waitlisted", by |-> "owner", seen |-> 0]>>
      /\ account = "none" => grants = <<>>
  <2>1. [tier |-> "waitlisted", by |-> "owner", seen |-> 0] \in GrantRows
    BY DEF GrantRows, Tiers
  <2> QED BY <2>1 DEF Init
<1>4. request \in [Requests -> Local] /\ \A r \in Requests : request[r].pc = "new" /\ request[r].epoch = 0
  BY <1>1 DEF Init
<1>5. sessions \in Seq(SessionRows) /\ bearer \in Seq(BearerRows)
      /\ sessions = <<>> /\ bearer = <<>> /\ notices = <<>>
      /\ notices \in Seq({"access_approved", "access_revoked"})
  BY DEF Init
<1>6. TypeOK
  <2>1. commands = 0 /\ revokes = 0 /\ commands \in 0..OwnerCommands /\ revokes \in 0..commands
    BY BetaAssumption DEF Init
  <2>2. /\ gate \in BOOLEAN /\ account \in {"none", "passwordless", "password"}
        /\ killed \in BOOLEAN /\ allow \in {"none", "active", "revoked"}
        /\ deletion \in {0, 1} /\ waitlist \in Nat
        /\ owner \in {"idle", "cascade", "tell_approved", "close_bearer", "tell_revoked"}
    BY DEF Init
  <2> QED BY <1>2, <1>3, <1>5, <2>1, <2>2, Zenon
          DEF TypeOK, TokenRows, GrantRows, SessionRows, BearerRows
<1>7. \A pcs : "new" \notin pcs => In(pcs) = {}
  BY <1>4 DEF In
<1>8. InProgress = {} /\ \A t : Missing(t) = {}
  BY <1>4 DEF InProgress, Missing
<1>9. Requesting
  BY <1>3, <1>4 DEF Init, Requesting, Carries, Claimed, Checked, Placed
<1>10. Credentials
  <2>1. In(Claimed) = {}
    BY <1>7 DEF Claimed, Checked
  <2> QED BY <1>5, <2>1 DEF Credentials, OneSessionPerToken
<1>11. Limits
  <2>1. In(Asking) = {} /\ In({"join_write"}) = {}
    BY <1>7 DEF Asking
  <2>2. Cardinality(Recent) \in Nat /\ Cardinality(Recent) <= 1
    <3>1. Recent \subseteq {1}
      BY <1>2 DEF Recent
    <3>2. IsFiniteSet({1}) /\ Cardinality({1}) = 1
      BY FS_Singleton
    <3>3. IsFiniteSet(Recent) /\ Cardinality(Recent) <= 1
      BY <3>1, <3>2, Within
    <3> QED BY <3>3, FS_CardinalityType
  <2>3. Cardinality({}) = 0
    BY FS_EmptySet
  <2>4. /\ RateLimit \in Nat /\ RateLimit > 0 /\ InFlight \in Nat /\ InFlight > 0
        /\ MaxCodeAttempts \in Nat
    BY BetaAssumption
  <2>5. \A t \in DOMAIN tokens : tokens[t].attempts = 0
    BY <1>1, <1>2
  <2>6. waitlist = 0
    BY DEF Init
  <2>7. Cardinality(InProgress) <= InFlight
    BY <1>8, <2>3, <2>4
  <2>8. Cardinality(Recent) + Cardinality(In(Asking)) <= RateLimit + InFlight - 1
    BY <2>1, <2>2, <2>3, <2>4
  <2>9. waitlist + Cardinality(In({"join_write"})) <= RateLimit + InFlight - 1
    BY <2>1, <2>3, <2>4, <2>6
  <2>10. \A t \in DOMAIN tokens :
           tokens[t].attempts + Cardinality(Missing(t)) <= MaxCodeAttempts + InFlight - 1
    <3>1. \A t \in DOMAIN tokens : tokens[t].attempts = 0 /\ Cardinality(Missing(t)) = 0
      BY <1>8, <2>3, <2>5
    <3> QED BY <2>4, <3>1
  <2> QED BY <2>7, <2>8, <2>9, <2>10 DEF Limits
<1>12. Overtaken
  <2>1. In(Checked) = {}
    BY <1>7 DEF Checked
  <2>2. LateSessions = {} /\ LateRequests = {}
    BY <1>5, <2>1 DEF LateSessions, LateRequests
  <2> QED BY <2>2, FS_EmptySet, BetaAssumption DEF Overtaken
<1>13. Closing
  BY <1>5 DEF Closing
<1>14. Telling
  <2>1. /\ Taken("approved") = 0 /\ Taken("revoked") = 0
        /\ Told("access_approved") = 0 /\ Told("access_revoked") = 0
    <3>1. /\ {i \in DOMAIN grants : grants[i].tier = "approved"} = {}
          /\ {i \in DOMAIN grants : grants[i].tier = "revoked"} = {}
      BY <1>3
    <3>2. \A kind : {k \in DOMAIN notices : notices[k] = kind} = {}
      BY <1>5
    <3> QED BY <3>1, <3>2, FS_EmptySet DEF Taken, Told
  <2>2. In({"notify"}) = {}
    BY <1>7
  <2>3. owner = "idle"
    BY DEF Init
  <2> QED BY <2>1, <2>2, <2>3, FS_EmptySet DEF Telling, ToldOrTelling, ToldOrClosing, One
<1>15. DoorReopensOnlyIfOvertaken
  <2>1. \A i \in DOMAIN grants : i = 1
    BY <1>3
  <2> QED BY <2>1 DEF DoorReopensOnlyIfOvertaken
<1> QED BY <1>4, <1>6, <1>9, <1>10, <1>11, <1>12, <1>13, <1>14, <1>15 DEF GateInv, Types

LEMMA GateInvariance == Spec => []GateInv
<1>1. GateInv /\ [Next]_vars => GateInv'
  BY TypesStep, RequestingStep, CredentialsStep, LimitsStep, OvertakenStep, ClosingStep, TellingStep,
     DoorStep DEF GateInv
<1> QED BY <1>1, GateInit, PTL DEF Spec

(* The tables keep their schema, and what the code carries between two of  *)
(* its statements fits them (scripts/beta, scripts/accounts).              *)
THEOREM GateTypes == Spec => []TypeOK
<1>1. GateInv => TypeOK
  BY DEF GateInv, Types
<1> QED BY <1>1, GateInvariance, PTL

(* However many requests present a link or its code together, and wherever *)
(* they are cut off, they get one session out of it (tokens.consume and    *)
(* consume_code: the UPDATE that requires consumed_utc IS NULL).           *)
THEOREM TokenOpensOneSession == Spec => []OneSessionPerToken
<1>1. GateInv => OneSessionPerToken
  BY DEF GateInv, Credentials
<1> QED BY <1>1, GateInvariance, PTL

(* A limit read before the write is exceeded by no more than the requests  *)
(* that can have read it at the same time, whatever the limit and however  *)
(* many requests come (ratelimit.over_limit, tokens.consume_code).         *)
THEOREM RacersBoundTheExcess == Spec => []LimitsExceededByRacersOnly
<1>1. GateInv => LimitsExceededByRacersOnly
  <2> SUFFICES ASSUME GateInv PROVE LimitsExceededByRacersOnly
    OBVIOUS
  <2>1. Types /\ Limits /\ InFlight \in Nat /\ RateLimit \in Nat /\ MaxCodeAttempts \in Nat
    BY BetaAssumption DEF GateInv
  <2>2. /\ Cardinality(In(Asking)) \in Nat /\ Cardinality(In({"join_write"})) \in Nat
        /\ \A t \in DOMAIN tokens : Cardinality(Missing(t)) \in Nat
    <3>1. /\ In(Asking) \in SUBSET Requests /\ In({"join_write"}) \in SUBSET Requests
          /\ \A t : Missing(t) \in SUBSET Requests
      BY DEF In, Missing
    <3> QED BY <3>1, RequestsCount
  <2>3. Cardinality(Recent) \in Nat /\ waitlist \in Nat
        /\ \A t \in DOMAIN tokens : tokens[t].attempts \in Nat
    BY <2>1, RecentTypes, RowTypes DEF Types, TypeOK, TokenRows
  <2>4. Cardinality(Recent) <= RateLimit + InFlight - 1
    BY <2>1, <2>2, <2>3 DEF Limits
  <2>5. waitlist <= RateLimit + InFlight - 1
    BY <2>1, <2>2, <2>3 DEF Limits
  <2>6. \A t \in DOMAIN tokens : tokens[t].attempts <= MaxCodeAttempts + InFlight - 1
    BY <2>1, <2>2, <2>3 DEF Limits
  <2> QED BY <2>4, <2>5, <2>6 DEF LimitsExceededByRacersOnly, Recent
<1> QED BY <1>1, GateInvariance, PTL

(* Once a revocation has run to its end, what survives it was in flight:   *)
(* no session from before it is open, no more late ones than requests in   *)
(* progress, and no bearer session from before a closing works again       *)
(* (allowlist.revoke, accounts.service.revoke, accounts.gate.authorize).   *)
THEOREM RevocationReachesSessions == Spec => []SurvivorsWereInFlight
<1>1. GateInv => SurvivorsWereInFlight
  <2> SUFFICES ASSUME GateInv, owner = "idle", ~killed
               PROVE  /\ \A s \in DOMAIN sessions : sessions[s].live => sessions[s].issued = revokes
                      /\ Cardinality({s \in DOMAIN sessions :
                           (Authenticates(s) \/ CookieResolves(s)) /\ sessions[s].epoch < revokes})
                           <= InFlight
                      /\ \A b \in DOMAIN bearer : Authorizes(b) => bearer[b].issued = Taken("revoked")
    BY DEF SurvivorsWereInFlight
  <2> DEFINE S == {s \in DOMAIN sessions :
                     (Authenticates(s) \/ CookieResolves(s)) /\ sessions[s].epoch < revokes}
  <2>1. \A s \in DOMAIN sessions : sessions[s].live => sessions[s].issued = revokes
    BY DEF GateInv, Closing
  <2>2. \A b \in DOMAIN bearer : Authorizes(b) => bearer[b].issued = Taken("revoked")
    BY DEF GateInv, Closing, Authorizes
  <2>3. /\ IsFiniteSet(LateSessions) /\ Cardinality(LateSessions) \in Nat
        /\ LateRequests \in SUBSET Requests
    BY LateTypes DEF GateInv
  <2>4. S \subseteq LateSessions
    BY <2>1 DEF Authenticates, CookieResolves, SessionLive, LateSessions
  <2>5. IsFiniteSet(S) /\ Cardinality(S) <= Cardinality(LateSessions)
    BY <2>3, <2>4, Within
  <2>6. Cardinality(S) \in Nat /\ Cardinality(LateRequests) \in Nat
    BY <2>3, <2>5, RequestsCount, FS_CardinalityType
  <2>7. Cardinality(S) <= InFlight
    <3>1. Cardinality(LateSessions) + Cardinality(LateRequests) <= InFlight /\ InFlight \in Nat
      BY BetaAssumption DEF GateInv, Overtaken
    <3> HIDE DEF S
    <3> QED BY <2>3, <2>5, <2>6, <3>1
  <2> QED BY <2>1, <2>2, <2>7
<1> QED BY <1>1, GateInvariance, PTL

(* Signing in reopens a closed account only when the owner closed it after *)
(* that sign-in had read the tier (provision.provision_account).           *)
THEOREM OwnersClosingStands == Spec => []DoorReopensOnlyIfOvertaken
<1>1. GateInv => DoorReopensOnlyIfOvertaken
  BY DEF GateInv
<1> QED BY <1>1, GateInvariance, PTL

(* No notice tells of a decision that was not taken, and a decision goes   *)
(* untold only while its notice is the next commit or after a kill         *)
(* (accounts.service.approve and revoke).                                  *)
THEOREM DecisionsAreTold == Spec => []NoticesFollowDecisions
<1>1. GateInv => NoticesFollowDecisions
  <2> SUFFICES ASSUME GateInv PROVE NoticesFollowDecisions
    OBVIOUS
  <2>1. /\ Told("access_approved") \in Nat /\ Told("access_revoked") \in Nat
        /\ Taken("approved") \in Nat /\ Taken("revoked") \in Nat
    BY TallyTypes DEF GateInv
  <2>2. Cardinality(In({"notify"})) \in Nat
    <3>1. In({"notify"}) \in SUBSET Requests
      BY DEF In
    <3> QED BY <3>1, RequestsCount
  <2>3. One(owner = "tell_approved") \in {0, 1} /\ One(owner \in {"close_bearer", "tell_revoked"}) \in {0, 1}
    BY DEF One
  <2>4. Told("access_approved") <= Taken("approved") /\ Told("access_revoked") <= Taken("revoked")
    BY <2>1, <2>2, <2>3 DEF GateInv, Telling, ToldOrTelling, ToldOrClosing
  <2>5. ASSUME owner = "idle", ~killed, \A r \in Requests : ~At(r, "notify")
        PROVE  /\ Told("access_approved") = Taken("approved")
               /\ Told("access_revoked") = Taken("revoked")
    <3>1. In({"notify"}) = {}
      BY <2>5 DEF In, At
    <3>2. Cardinality(In({"notify"})) = 0
      BY <3>1, FS_EmptySet
    <3> QED BY <2>1, <2>5, <3>2 DEF GateInv, Telling, ToldOrTelling, ToldOrClosing, One
  <2> QED BY <2>4, <2>5 DEF NoticesFollowDecisions
<1> QED BY <1>1, GateInvariance, PTL

-----------------------------------------------------------------------------
(* The cohorts.                                                            *)

(* A table of transitions has finitely many members, all of them users.    *)
LEMMA MembersFinite ==
    ASSUME NEW tr \in Seq(Transitions), NEW c \in Chain
    PROVE  /\ IsFiniteSet(Members(tr, c))
           /\ MemberCount(tr, c) \in Nat
<1>1. Members(tr, c) \subseteq Users
    <2>1. \A i \in DOMAIN tr : tr[i] \in Transitions
        OBVIOUS
    <2>2. \A i \in DOMAIN tr : tr[i].user \in Users
        BY <2>1 DEF Transitions
    <2> QED BY <2>2 DEF Members
<1>2. IsFiniteSet(Members(tr, c))
    BY <1>1, FS_Subset, CohortsAssumption
<1> QED BY <1>2, FS_CardinalityType DEF MemberCount

(* A new row adds its user to its own step and to the later ones, and to   *)
(* no other.  (advance, scripts/accounts/cohorts.py)                       *)
LEMMA MembersOfAppend ==
    ASSUME NEW tr \in Seq(Transitions), NEW row \in Transitions, NEW c \in Chain
    PROVE  Members(Append(tr, row), c) =
             IF row.to <= c THEN Members(tr, c) \cup {row.user} ELSE Members(tr, c)
<1> DEFINE new == Append(tr, row)
<1>1. /\ Len(tr) \in Nat
      /\ DOMAIN tr = 1 .. Len(tr)
      /\ DOMAIN new = 1 .. (Len(tr) + 1)
      /\ \A i \in 1 .. Len(tr) : new[i] = tr[i]
      /\ new[Len(tr) + 1] = row
    OBVIOUS
<1>2. {j \in DOMAIN new : new[j].to <= c} =
        {j \in DOMAIN tr : tr[j].to <= c}
          \cup (IF row.to <= c THEN {Len(tr) + 1} ELSE {})
    BY <1>1
<1>3. CASE row.to <= c
    <2>1. {j \in DOMAIN new : new[j].to <= c} =
            {j \in DOMAIN tr : tr[j].to <= c} \cup {Len(tr) + 1}
        BY <1>2, <1>3
    <2>2. \A j \in DOMAIN tr : new[j].user = tr[j].user
        BY <1>1
    <2> QED BY <1>1, <1>3, <2>1, <2>2 DEF Members
<1>4. CASE ~(row.to <= c)
    <2>1. {j \in DOMAIN new : new[j].to <= c} = {j \in DOMAIN tr : tr[j].to <= c}
        BY <1>2, <1>4
    <2>2. \A j \in DOMAIN tr : new[j].user = tr[j].user
        BY <1>1
    <2> QED BY <1>1, <1>4, <2>1, <2>2 DEF Members
<1> QED BY <1>3, <1>4

(* SizeWith is the size that the step will have.                           *)
LEMMA SizeWithIsNextSize ==
    ASSUME NEW tr \in Seq(Transitions), NEW row \in Transitions
    PROVE  MemberCount(Append(tr, row), row.to) = SizeWith(tr, row.user, row.to)
<1>1. row.to \in Chain /\ row.to <= row.to
    BY CohortsAssumption DEF Transitions, Chain
<1>2. Members(Append(tr, row), row.to) = Members(tr, row.to) \cup {row.user}
    BY <1>1, MembersOfAppend
<1>3. IsFiniteSet(Members(tr, row.to)) /\ MemberCount(tr, row.to) \in Nat
    BY <1>1, MembersFinite
<1>4. Cardinality(Members(tr, row.to) \cup {row.user}) =
        IF row.user \in Members(tr, row.to)
        THEN Cardinality(Members(tr, row.to)) ELSE Cardinality(Members(tr, row.to)) + 1
    BY <1>3, FS_AddElement
<1> QED BY <1>2, <1>3, <1>4 DEF MemberCount, SizeWith

(* What one refresh leaves: rows of the schema with the caps they had, and *)
(* a true cache from c onwards.  (_refresh_cumulative_caches)              *)
Cached(row, size) ==
    /\ row.current_size = size
    /\ row.status = IF size >= row.max_size THEN "full" ELSE "open"

LEMMA RefreshedOK ==
    ASSUME NEW state, DOMAIN state \subseteq Chain, state \in [DOMAIN state -> StateRows],
           NEW tr \in Seq(Transitions), NEW c \in Chain,
           \A d \in DOMAIN state : state[d].status # "closed"
    PROVE  LET new == Refreshed(state, tr, c)
           IN /\ DOMAIN new = DOMAIN state
              /\ new \in [DOMAIN new -> StateRows]
              /\ \A d \in DOMAIN state :
                    /\ new[d].max_size = state[d].max_size
                    /\ d >= c => Cached(new[d], MemberCount(tr, d))
                    /\ ~(d >= c) => new[d] = state[d]
<1> DEFINE new == Refreshed(state, tr, c)
<1>1. DOMAIN new = DOMAIN state
    BY DEF Refreshed
<1>2. ASSUME NEW d \in DOMAIN state
      PROVE  /\ new[d] \in StateRows
             /\ new[d].max_size = state[d].max_size
             /\ d >= c => Cached(new[d], MemberCount(tr, d))
             /\ ~(d >= c) => new[d] = state[d]
    <2>1. state[d] \in StateRows /\ MemberCount(tr, d) \in Nat
        BY MembersFinite
    <2>2. CASE d >= c
        <3>1. new[d] = RefreshedRow(state[d], MemberCount(tr, d))
            BY <2>2 DEF Refreshed
        <3> QED BY <2>1, <2>2, <3>1 DEF RefreshedRow, StateRows, Cached
    <2>3. CASE ~(d >= c)
        BY <2>1, <2>3 DEF Refreshed
    <2> QED BY <2>2, <2>3
<1>3. new = [d \in DOMAIN new |-> new[d]]
    BY <1>1 DEF Refreshed
<1> HIDE DEF new
<1>4. new \in [DOMAIN new -> StateRows]
    BY <1>1, <1>2, <1>3
<1> QED BY <1>1, <1>2, <1>4 DEF new

-----------------------------------------------------------------------------
(* Type correctness and true caches go together: a step whose status is    *)
(* never "closed" is what makes the refresh recompute it.                  *)
CohortInv == CohortTypeOK /\ CacheIsMembership

LEMMA NeverClosed ==
    ASSUME CohortInv
    PROVE  \A d \in DOMAIN cohort_state : cohort_state[d].status # "closed"
BY DEF CohortInv, CacheIsMembership

LEMMA OpenCohortKeepsInv ==
    ASSUME CohortInv, NEW c \in Chain, NEW cap \in Caps \cup {DefaultCaps[c]}, OpenCohort(c, cap)
    PROVE  CohortInv'
<1> DEFINE size == IF c \in DOMAIN cohort_state THEN cohort_state[c].current_size ELSE 0
           upserted == [d \in DOMAIN cohort_state \cup {c} |->
                          IF d = c
                          THEN [max_size |-> cap, current_size |-> size, status |-> "open"]
                          ELSE cohort_state[d]]
<1>1. cap \in Nat /\ size \in Nat
    BY CohortsAssumption DEF CohortInv, CohortTypeOK, StateRows
<1>2. /\ DOMAIN upserted \subseteq Chain
      /\ upserted \in [DOMAIN upserted -> StateRows]
    BY <1>1 DEF CohortInv, CohortTypeOK, StateRows
<1>3. \A d \in DOMAIN upserted : upserted[d].status # "closed"
    BY NeverClosed
<1>4. cohort_state' = Refreshed(upserted, cohort_transitions, c)
    BY DEF OpenCohort
<1>5. UNCHANGED <<cohort_transitions, notification_events>>
    BY DEF OpenCohort
<1>6. \A d \in DOMAIN upserted : ~(d >= c) => d \in DOMAIN cohort_state /\ upserted[d] = cohort_state[d]
    BY DEF Chain
<1> HIDE DEF upserted
<1>7. cohort_transitions \in Seq(Transitions)
    BY DEF CohortInv, CohortTypeOK
<1>8. /\ DOMAIN cohort_state' = DOMAIN upserted
      /\ cohort_state' \in [DOMAIN cohort_state' -> StateRows]
      /\ \A d \in DOMAIN upserted :
            /\ d >= c => Cached(cohort_state'[d], MemberCount(cohort_transitions, d))
            /\ ~(d >= c) => cohort_state'[d] = upserted[d]
    BY <1>2, <1>3, <1>4, <1>7, RefreshedOK
<1>9. CohortTypeOK'
    BY <1>2, <1>5, <1>8 DEF CohortInv, CohortTypeOK
<1>10. CacheIsMembership'
    BY <1>5, <1>6, <1>8 DEF CohortInv, CacheIsMembership, Cached
<1> QED BY <1>9, <1>10 DEF CohortInv

(* latest_cohort names a step or nothing.                                  *)
LEMMA LatestCohortType ==
    ASSUME NEW tr \in Seq(Transitions), NEW u \in Users
    PROVE  LatestCohort(tr, Len(tr), u) \in Chain \cup {NoCohort}
<1> DEFINE n == Len(tr)
           rows == {i \in 1 .. n : tr[i].user = u}
           last == Max(rows)
<1>1. CASE rows = {}
    BY <1>1 DEF LatestCohort
<1>2. CASE rows # {}
    <2>1. n \in Nat /\ rows \in SUBSET (1 .. n)
        OBVIOUS
    <2>2. last \in rows
        <3> HIDE DEF n, rows
        <3> QED BY <1>2, <2>1, MaxIsMember
    <2>4. tr[last] \in Transitions
        <3>1. last \in 1 .. Len(tr)
            BY <2>2
        <3> QED BY <3>1
    <2>5. LatestCohort(tr, n, u) = tr[last].to
        BY <1>2 DEF LatestCohort
    <2> QED BY <2>4, <2>5 DEF Transitions
<1> QED BY <1>1, <1>2

LEMMA AdmitKeepsInv ==
    ASSUME CohortInv, NEW c \in Chain, NEW u \in Users, Admit(u, c)
    PROVE  CohortInv'
<1> DEFINE from == LatestCohort(cohort_transitions, Len(cohort_transitions), u)
           row  == [user |-> u, from |-> from, to |-> c]
<1>1. cohort_transitions \in Seq(Transitions)
    BY DEF CohortInv, CohortTypeOK
<1>2. from \in Chain \cup {NoCohort}
    BY <1>1, LatestCohortType
<1>3. row \in Transitions /\ row.to = c
    BY <1>2 DEF Transitions
<1>4. cohort_transitions' = Append(cohort_transitions, row)
    BY DEF Admit
<1> HIDE DEF row
<1>5. cohort_transitions' \in Seq(Transitions)
    BY <1>1, <1>3, <1>4
<1>6. cohort_state' = Refreshed(cohort_state, cohort_transitions', c)
    BY DEF Admit
<1>7. /\ DOMAIN cohort_state \subseteq Chain
      /\ cohort_state \in [DOMAIN cohort_state -> StateRows]
      /\ \A d \in DOMAIN cohort_state : cohort_state[d].status # "closed"
    BY NeverClosed DEF CohortInv, CohortTypeOK
<1>8. /\ DOMAIN cohort_state' = DOMAIN cohort_state
      /\ cohort_state' \in [DOMAIN cohort_state' -> StateRows]
      /\ \A d \in DOMAIN cohort_state :
            /\ d >= c => Cached(cohort_state'[d], MemberCount(cohort_transitions', d))
            /\ ~(d >= c) => cohort_state'[d] = cohort_state[d]
    BY <1>5, <1>6, <1>7, RefreshedOK
<1>9. \A d \in Chain : ~(d >= c) =>
        MemberCount(cohort_transitions', d) = MemberCount(cohort_transitions, d)
    <2> SUFFICES ASSUME NEW d \in Chain, ~(d >= c)
                 PROVE  Members(cohort_transitions', d) = Members(cohort_transitions, d)
        BY DEF MemberCount
    <2>1. ~(row.to <= d)
        BY <1>3 DEF Chain
    <2> QED BY <1>1, <1>3, <1>4, <2>1, MembersOfAppend
<1>10. notification_events' \in Seq([user : Users, cohort : Chain])
    BY DEF Admit, Notified, CohortInv, CohortTypeOK
<1>11. CohortTypeOK'
    BY <1>5, <1>7, <1>8, <1>10 DEF CohortTypeOK
<1>12. CacheIsMembership'
    BY <1>7, <1>8, <1>9 DEF CohortInv, CacheIsMembership, Cached
<1> QED BY <1>11, <1>12 DEF CohortInv

LEMMA AdmitAgainKeepsInv ==
    ASSUME CohortInv, NEW c \in Chain, NEW u \in Users, AdmitAgain(u, c)
    PROVE  CohortInv'
<1>1. /\ cohort_transitions' = cohort_transitions
      /\ notification_events' = notification_events
      /\ cohort_transitions \in Seq(Transitions)
      /\ cohort_state' = Refreshed(cohort_state, cohort_transitions, c)
    BY DEF AdmitAgain, CohortInv, CohortTypeOK
<1>2. /\ DOMAIN cohort_state \subseteq Chain
      /\ cohort_state \in [DOMAIN cohort_state -> StateRows]
      /\ \A d \in DOMAIN cohort_state : cohort_state[d].status # "closed"
    BY NeverClosed DEF CohortInv, CohortTypeOK
<1>3. /\ DOMAIN cohort_state' = DOMAIN cohort_state
      /\ cohort_state' \in [DOMAIN cohort_state' -> StateRows]
      /\ \A d \in DOMAIN cohort_state :
            /\ d >= c => Cached(cohort_state'[d], MemberCount(cohort_transitions, d))
            /\ ~(d >= c) => cohort_state'[d] = cohort_state[d]
    BY <1>1, <1>2, RefreshedOK
<1>4. CohortTypeOK'
    BY <1>1, <1>2, <1>3 DEF CohortInv, CohortTypeOK
<1>5. CacheIsMembership'
    BY <1>1, <1>3 DEF CohortInv, CacheIsMembership, Cached
<1> QED BY <1>4, <1>5 DEF CohortInv

(* The tables keep their types (migration 0025), and size and status of    *)
(* every cohort are those of its cumulative membership, however the chain  *)
(* is opened and filled.  (open_cohort, advance)                           *)
THEOREM CachesTrue == CohortSpec => [](CohortTypeOK /\ CacheIsMembership)
<1>1. CohortInit => CohortInv
    <2> SUFFICES ASSUME CohortInit PROVE CohortInv
        OBVIOUS
    <2>1. DOMAIN cohort_state = {}
        BY DEF CohortInit
    <2> QED BY <2>1 DEF CohortInit, CohortInv, CohortTypeOK, CacheIsMembership
<1>2. CohortInv /\ [CohortNext]_cohortVars => CohortInv'
    <2> SUFFICES ASSUME CohortInv, [CohortNext]_cohortVars PROVE CohortInv'
        OBVIOUS
    <2>1. CASE UNCHANGED cohortVars
        BY <2>1 DEF CohortInv, CohortTypeOK, CacheIsMembership, cohortVars
    <2>2. ASSUME NEW c \in Chain, NEW cap \in Caps \cup {DefaultCaps[c]}, OpenCohort(c, cap)
          PROVE  CohortInv'
        BY <2>2, OpenCohortKeepsInv
    <2>3. ASSUME NEW c \in Chain, NEW u \in Users, Admit(u, c)
          PROVE  CohortInv'
        BY <2>3, AdmitKeepsInv
    <2>4. ASSUME NEW c \in Chain, NEW u \in Users, AdmitAgain(u, c)
          PROVE  CohortInv'
        BY <2>4, AdmitAgainKeepsInv
    <2> QED BY <2>1, <2>2, <2>3, <2>4 DEF CohortNext
<1>3. CohortInv <=> CohortTypeOK /\ CacheIsMembership
    BY DEF CohortInv
<1> QED BY <1>1, <1>2, <1>3, PTL DEF CohortSpec

-----------------------------------------------------------------------------
(* Every transition has its notice and every notice its transition: advance *)
(* commits both or neither.                                                 *)
THEOREM MovesAnnounced == CohortSpec => []EveryMoveAnnounced
<1>1. CohortInit => EveryMoveAnnounced
    BY DEF CohortInit, EveryMoveAnnounced
<1>2. CohortTypeOK /\ EveryMoveAnnounced /\ [CohortNext]_cohortVars => EveryMoveAnnounced'
    <2> SUFFICES ASSUME CohortTypeOK, EveryMoveAnnounced, [CohortNext]_cohortVars
                 PROVE  EveryMoveAnnounced'
        OBVIOUS
    <2>1. CASE UNCHANGED <<cohort_transitions, notification_events>>
        BY <2>1 DEF EveryMoveAnnounced
    <2>2. ASSUME NEW c \in Chain, NEW u \in Users, Admit(u, c)
          PROVE  EveryMoveAnnounced'
        <3>1. /\ cohort_transitions \in Seq(Transitions)
              /\ notification_events \in Seq([user : Users, cohort : Chain])
            BY DEF CohortTypeOK
        <3>2. PICK row : /\ row.user = u /\ row.to = c
                         /\ cohort_transitions' = Append(cohort_transitions, row)
            BY <2>2 DEF Admit
        <3>3. notification_events' = Append(notification_events, [user |-> u, cohort |-> c])
            BY <2>2 DEF Admit, Notified
        <3>4. /\ Len(cohort_transitions') = Len(cohort_transitions) + 1
              /\ DOMAIN cohort_transitions' = 1 .. Len(cohort_transitions')
              /\ \A i \in 1 .. Len(cohort_transitions) :
                    cohort_transitions'[i] = cohort_transitions[i]
              /\ cohort_transitions'[Len(cohort_transitions) + 1] = row
            BY <3>1, <3>2
        <3>5. /\ Len(notification_events') = Len(notification_events) + 1
              /\ \A i \in 1 .. Len(notification_events) :
                    notification_events'[i] = notification_events[i]
              /\ notification_events'[Len(notification_events) + 1]
                   = [user |-> u, cohort |-> c]
            BY <3>1, <3>3
        <3>6. /\ Len(cohort_transitions) \in Nat
              /\ DOMAIN cohort_transitions = 1 .. Len(cohort_transitions)
            BY <3>1
        <3>7. ASSUME NEW i \in 1 .. (Len(cohort_transitions) + 1)
              PROVE  notification_events'[i] = [user   |-> cohort_transitions'[i].user,
                                                cohort |-> cohort_transitions'[i].to]
            <4>1. CASE i = Len(cohort_transitions) + 1
                BY <3>2, <3>4, <3>5, <4>1 DEF EveryMoveAnnounced
            <4>2. CASE i \in 1 .. Len(cohort_transitions)
                BY <3>4, <3>5, <3>6, <4>2 DEF EveryMoveAnnounced
            <4> QED BY <3>6, <4>1, <4>2
        <3>8. Len(notification_events') = Len(cohort_transitions')
            BY <3>4, <3>5 DEF EveryMoveAnnounced
        <3> QED BY <3>4, <3>7, <3>8 DEF EveryMoveAnnounced
    <2> QED BY <2>1, <2>2 DEF CohortNext, cohortVars, OpenCohort, AdmitAgain
<1> QED BY <1>1, <1>2, CachesTrue, PTL DEF CohortSpec

(* latest_cohort of a row's past depends on the rows before it alone.      *)
LEMMA LatestOfPrefix ==
    ASSUME NEW old \in Seq(Transitions), NEW new, NEW n \in Nat, NEW u,
           \A i \in 1 .. n : new[i] = old[i]
    PROVE  LatestCohort(new, n, u) = LatestCohort(old, n, u)
<1> DEFINE rows == {i \in 1 .. n : old[i].user = u}
<1>1. {i \in 1 .. n : new[i].user = u} = rows
    OBVIOUS
<1>2. CASE rows = {}
    BY <1>1, <1>2 DEF LatestCohort
<1>3. CASE rows # {}
    <2>1. Max(rows) \in rows
        <3>1. rows \in SUBSET (1 .. n)
            OBVIOUS
        <3> HIDE DEF rows
        <3> QED BY <1>3, <3>1, MaxIsMember
    <2>2. new[Max(rows)] = old[Max(rows)]
        BY <2>1
    <2>3. LatestCohort(new, n, u) = new[Max(rows)].to
        BY <1>1, <1>3 DEF LatestCohort
    <2>4. LatestCohort(old, n, u) = old[Max(rows)].to
        BY <1>3 DEF LatestCohort
    <2> QED BY <2>2, <2>3, <2>4
<1> QED BY <1>2, <1>3

(* The rows of a user form a path without repetition.  (advance)           *)
THEOREM PathsHold == CohortSpec => []TransitionsFormPath
<1>1. CohortInit => TransitionsFormPath
    BY DEF CohortInit, TransitionsFormPath
<1>2. CohortTypeOK /\ TransitionsFormPath /\ [CohortNext]_cohortVars => TransitionsFormPath'
    <2> SUFFICES ASSUME CohortTypeOK, TransitionsFormPath, [CohortNext]_cohortVars
                 PROVE  TransitionsFormPath'
        OBVIOUS
    <2>1. CASE UNCHANGED cohort_transitions
        BY <2>1, ZenonT(40) DEF TransitionsFormPath, LatestCohort
    <2>2. ASSUME NEW c \in Chain, NEW u \in Users, Admit(u, c)
          PROVE  TransitionsFormPath'
        <3> DEFINE tr == cohort_transitions
                   new == cohort_transitions'
                   n == Len(cohort_transitions)
        <3>1. tr \in Seq(Transitions) /\ n \in Nat /\ DOMAIN tr = 1 .. n
            BY DEF CohortTypeOK
        <3>2. PICK row : /\ row.user = u /\ row.to = c
                         /\ row.from = LatestCohort(tr, n, u)
                         /\ new = Append(tr, row)
            BY <2>2 DEF Admit
        <3>3. /\ DOMAIN new = 1 .. (n + 1)
              /\ \A i \in 1 .. n : new[i] = tr[i]
              /\ new[n + 1] = row
            BY <3>1, <3>2
        <3>4. \A i \in 1 .. n : ~(tr[i].user = u /\ tr[i].to = c)
            BY <2>2, <3>1 DEF Admit, HasExactTransition
        <3> HIDE DEF tr, new, n
        <3>5. \A i \in 1 .. (n + 1) : \A v : LatestCohort(new, i - 1, v) = LatestCohort(tr, i - 1, v)
            <4> SUFFICES ASSUME NEW i \in 1 .. (n + 1), NEW v
                         PROVE  LatestCohort(new, i - 1, v) = LatestCohort(tr, i - 1, v)
                OBVIOUS
            <4>1. i - 1 \in Nat /\ \A k \in 1 .. (i - 1) : new[k] = tr[k]
                BY <3>1, <3>3
            <4> QED BY <3>1, <4>1, LatestOfPrefix
        <3>6. ASSUME NEW i \in 1 .. (n + 1)
              PROVE  /\ new[i].from = LatestCohort(new, i - 1, new[i].user)
                     /\ \A j \in 1 .. (i - 1) :
                           new[j].user = new[i].user => new[j].to # new[i].to
            <4>1. CASE i \in 1 .. n
                <5>1. \A j \in 1 .. (i - 1) : new[j] = tr[j]
                    BY <3>1, <3>3, <4>1
                <5> QED BY <3>1, <3>3, <3>5, <4>1, <5>1 DEF TransitionsFormPath, tr
            <4>2. CASE i = n + 1
                <5>1. i - 1 = n
                    BY <3>1, <4>2
                <5> QED BY <3>2, <3>3, <3>4, <3>5, <4>2, <5>1
            <4> QED BY <3>1, <4>1, <4>2
        <3> QED BY <3>3, <3>6 DEF TransitionsFormPath, new
    <2> QED BY <2>1, <2>2 DEF CohortNext, cohortVars, OpenCohort, AdmitAgain
<1> QED BY <1>1, <1>2, CachesTrue, PTL DEF CohortSpec

(* A step that grows past its cap was overrun by an admission into an      *)
(* earlier step.  (advance compares the cap of to_cohort only)             *)
THEOREM OverrunsComeFromBelow == CohortSpec => OverrunComesFromBelow
<1>1. CohortInv /\ [CohortNext]_cohortVars => [StepsGrowWithinCap]_cohortVars
    <2> SUFFICES ASSUME CohortInv, CohortNext, NEW d \in DOMAIN cohort_state PROVE GrowsWithinCap(d)
        BY DEF StepsGrowWithinCap
    <2>1. d \in Chain /\ cohort_transitions \in Seq(Transitions)
        BY DEF CohortInv, CohortTypeOK
    <2>2. MemberCount(cohort_transitions, d) \in Nat
        BY <2>1, MembersFinite
    <2>3. CASE UNCHANGED cohort_transitions
        BY <2>2, <2>3 DEF GrowsWithinCap
    <2>4. ASSUME NEW c \in Chain, NEW u \in Users, Admit(u, c)
          PROVE  GrowsWithinCap(d)
        <3> DEFINE row == [user |-> u,
                           from |-> LatestCohort(cohort_transitions, Len(cohort_transitions), u),
                           to |-> c]
        <3>1. row \in Transitions /\ row.user = u /\ row.to = c
            BY <2>1, LatestCohortType DEF Transitions
        <3>2. cohort_transitions' = Append(cohort_transitions, row)
            BY <2>4 DEF Admit
        <3> HIDE DEF row
        <3>3. cohort_transitions'[Len(cohort_transitions')].to = c
            BY <2>1, <3>1, <3>2
        <3>4. CASE c < d
            BY <3>3, <3>4 DEF GrowsWithinCap
        <3>5. CASE c = d
            <4>1. MemberCount(cohort_transitions', d) = SizeWith(cohort_transitions, u, d)
                BY <2>1, <3>1, <3>2, <3>5, SizeWithIsNextSize
            <4>2. SizeWith(cohort_transitions, u, d) <= cohort_state[d].max_size
                BY <2>4, <3>5 DEF Admit
            <4>3. /\ cohort_state' = Refreshed(cohort_state, cohort_transitions', c)
                  /\ cohort_transitions' \in Seq(Transitions)
                BY <2>1, <2>4, <3>1, <3>2 DEF Admit
            <4>4. cohort_state'[d].max_size = cohort_state[d].max_size
                BY <4>3, NeverClosed, RefreshedOK DEF CohortInv, CohortTypeOK
            <4>5. cohort_state[d].max_size \in Nat /\ SizeWith(cohort_transitions, u, d) \in Nat
                BY <2>2 DEF CohortInv, CohortTypeOK, StateRows, SizeWith
            <4> QED BY <4>1, <4>2, <4>4, <4>5 DEF GrowsWithinCap
        <3>6. CASE d < c
            <4>1. ~(row.to <= d)
                BY <2>1, <3>1, <3>6 DEF Chain
            <4>2. Members(cohort_transitions', d) = Members(cohort_transitions, d)
                BY <2>1, <3>1, <3>2, <4>1, MembersOfAppend
            <4> QED BY <2>2, <4>2 DEF MemberCount, GrowsWithinCap
        <3> QED BY <2>1, <3>4, <3>5, <3>6 DEF Chain
    <2> QED BY <2>3, <2>4 DEF CohortNext, OpenCohort, AdmitAgain
<1>2. CohortSpec => []CohortInv
    BY CachesTrue, PTL DEF CohortInv
<1> QED BY <1>1, <1>2, PTL DEF CohortSpec, OverrunComesFromBelow
=============================================================================
