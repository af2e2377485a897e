------------------------------- MODULE Cohorts -------------------------------
(***************************************************************************)
(* The cohort machine of scripts/accounts/cohorts.py: an ordered chain of  *)
(* programme steps, each with a cap on its cumulative membership.          *)
(*                                                                         *)
(* Both writers run under BEGIN IMMEDIATE from their first read to their   *)
(* commit, so each call is one step; a refusal and a busy database leave   *)
(* every table as it was.  A cohort is its rank in the chain.              *)
(***************************************************************************)
EXTENDS Naturals, Sequences, FiniteSets, FiniteSetsExt

CONSTANTS
    Users,           \* the accounts
    Steps,           \* how many cohorts the chain has
    DefaultCaps,     \* DEFAULT_CAPS, by rank
    Caps,            \* the values of max_size the owner may pass
    NoCohort,        \* the NULL from_cohort
    MaxTransitions   \* bound on the rows of cohort_transitions

Chain == 1 .. Steps

ASSUME CohortsAssumption ==
    /\ IsFiniteSet(Users)
    /\ Steps \in Nat
    /\ DefaultCaps \in [Chain -> Nat]
    /\ Caps \subseteq Nat
    /\ NoCohort \notin Chain
    /\ MaxTransitions \in Nat

VARIABLES
    cohort_state,         \* the rows of cohort_state, by cohort
    cohort_transitions,   \* the rows of cohort_transitions, in order of their id
    notification_events   \* the cohort_advanced rows of notification_events

cohortVars == <<cohort_state, cohort_transitions, notification_events>>

StateRows ==
    [max_size : Nat, current_size : Nat, status : {"open", "full", "closed"}]
Transitions == [user : Users, from : Chain \cup {NoCohort}, to : Chain]

-----------------------------------------------------------------------------
(* What the code reads from cohort_transitions.                            *)

\* Everyone who ever moved into c or into an earlier step.
Members(tr, c) == {tr[i].user : i \in {j \in DOMAIN tr : tr[j].to <= c}}

\* COUNT(DISTINCT user_id)
MemberCount(tr, c) == Cardinality(Members(tr, c))

\* latest_cohort among the first n rows: the last row of the user, if any.
LatestCohort(tr, n, u) ==
    LET rows == {i \in 1 .. n : tr[i].user = u}
    IN IF rows = {} THEN NoCohort ELSE tr[Max(rows)].to

HasExactTransition(tr, u, c) == \E i \in DOMAIN tr : tr[i].user = u /\ tr[i].to = c

-----------------------------------------------------------------------------
(* _refresh_cumulative_caches: c and every existing later step.            *)

RefreshedRow(row, size) ==
    [max_size     |-> row.max_size,
     current_size |-> size,
     status       |-> IF row.status = "closed" THEN "closed"
                      ELSE IF size >= row.max_size THEN "full" ELSE "open"]

\* A mutant of the next: the later steps keep their old cache.
RefreshedAlone(state, tr, c) ==
    [d \in DOMAIN state |->
        IF d = c THEN RefreshedRow(state[d], MemberCount(tr, d)) ELSE state[d]]

Refreshed(state, tr, c) ==
    [d \in DOMAIN state |->
        IF d >= c THEN RefreshedRow(state[d], MemberCount(tr, d)) ELSE state[d]]

CohortInit ==
    /\ cohort_state = << >>
    /\ cohort_transitions = << >>
    /\ notification_events = << >>

(* open_cohort: create a step, or reopen it under another cap.             *)
OpenCohort(c, cap) ==
    /\ c > 1 => cap >= DefaultCaps[c - 1]
    /\ cap >= MemberCount(cohort_transitions, c)
    /\ LET size == IF c \in DOMAIN cohort_state THEN cohort_state[c].current_size ELSE 0
           upserted == [d \in DOMAIN cohort_state \cup {c} |->
                          IF d = c
                          THEN [max_size |-> cap, current_size |-> size, status |-> "open"]
                          ELSE cohort_state[d]]
       IN cohort_state' = Refreshed(upserted, cohort_transitions, c)
    /\ UNCHANGED <<cohort_transitions, notification_events>>

\* A mutant of the next: the newcomer is not counted.
SizeWithout(tr, u, c) == MemberCount(tr, c)

\* The recomputed size that advance compares with the cap.
SizeWith(tr, u, c) ==
    MemberCount(tr, c) + (IF u \in Members(tr, c) THEN 0 ELSE 1)

\* A mutant of the next: the notice is forgotten.
NotNotified(u, c) == notification_events

\* notify_cohort_advanced, left uncommitted for the caller.
Notified(u, c) == Append(notification_events, [user |-> u, cohort |-> c])

(* advance, for a user with no row into c: the transition, its in-app      *)
(* notification and the caches are one commit.                             *)
Admit(u, c) ==
    /\ c \in DOMAIN cohort_state
    /\ cohort_state[c].status # "closed"
    /\ ~HasExactTransition(cohort_transitions, u, c)
    /\ SizeWith(cohort_transitions, u, c) <= cohort_state[c].max_size
    /\ Len(cohort_transitions) < MaxTransitions
    /\ cohort_transitions' =
         Append(cohort_transitions,
                [user |-> u,
                 from |-> LatestCohort(cohort_transitions, Len(cohort_transitions), u),
                 to   |-> c])
    /\ notification_events' = Notified(u, c)
    /\ cohort_state' = Refreshed(cohort_state, cohort_transitions', c)

(* advance again, for a user who has a row into c: only the caches.        *)
AdmitAgain(u, c) ==
    /\ c \in DOMAIN cohort_state
    /\ cohort_state[c].status # "closed"
    /\ HasExactTransition(cohort_transitions, u, c)
    /\ cohort_state' = Refreshed(cohort_state, cohort_transitions, c)
    /\ UNCHANGED <<cohort_transitions, notification_events>>

CohortNext ==
    \E c \in Chain :
        \/ \E cap \in Caps \cup {DefaultCaps[c]} : OpenCohort(c, cap)
        \/ \E u \in Users : Admit(u, c) \/ AdmitAgain(u, c)

CohortSpec == CohortInit /\ [][CohortNext]_cohortVars

-----------------------------------------------------------------------------
(* The tables keep the types of migration 0025.                            *)
CohortTypeOK ==
    /\ DOMAIN cohort_state \subseteq Chain
    /\ cohort_state \in [DOMAIN cohort_state -> StateRows]
    /\ cohort_transitions \in Seq(Transitions)
    /\ notification_events \in Seq([user : Users, cohort : Chain])

(* The cached size and status of every step are those of its membership,   *)
(* although a move into one step changes the membership of all later ones  *)
(* and a step may be opened after its successors.                          *)
CacheIsMembership ==
    \A c \in DOMAIN cohort_state :
        LET size == MemberCount(cohort_transitions, c)
        IN /\ cohort_state[c].current_size = size
           /\ cohort_state[c].status =
                IF size >= cohort_state[c].max_size THEN "full" ELSE "open"

(* Membership and its notices commit together: the n-th notice is the one  *)
(* for the n-th transition, with none missing, repeated or early.          *)
EveryMoveAnnounced ==
    /\ Len(notification_events) = Len(cohort_transitions)
    /\ \A i \in DOMAIN cohort_transitions :
          notification_events[i] = [user   |-> cohort_transitions[i].user,
                                    cohort |-> cohort_transitions[i].to]

(* The transitions of a user form a path: each row starts where the one    *)
(* before it ended, and a repeated call adds no row, so no step is entered *)
(* twice.                                                                  *)
TransitionsFormPath ==
    \A i \in DOMAIN cohort_transitions :
        LET row == cohort_transitions[i]
        IN /\ row.from = LatestCohort(cohort_transitions, i - 1, row.user)
           /\ \A j \in 1 .. i - 1 :
                 cohort_transitions[j].user = row.user => cohort_transitions[j].to # row.to

(* A step's own admissions never take it over its cap: whenever its        *)
(* membership grows past max_size, the newcomer was moved into an earlier  *)
(* step.  (Such a move may: MCCohortsOverrun.cfg reaches it.)              *)
GrowsWithinCap(c) ==
    (/\ MemberCount(cohort_transitions', c) > cohort_state'[c].max_size
     /\ MemberCount(cohort_transitions', c) > MemberCount(cohort_transitions, c))
    => cohort_transitions'[Len(cohort_transitions')].to < c

StepsGrowWithinCap == \A c \in DOMAIN cohort_state : GrowsWithinCap(c)

OverrunComesFromBelow == [][StepsGrowWithinCap]_cohortVars

(* The plan's INV-6: no size above the cap is ever written.                *)
NoOverrun ==
    \A c \in DOMAIN cohort_state : cohort_state[c].current_size <= cohort_state[c].max_size
=============================================================================
