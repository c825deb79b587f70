------------------------------ MODULE RuleOrder ------------------------------
(***************************************************************************)
(* What the two policy engines (internal/policy, internal/policy/radius)   *)
(* have in common: the order of groups and rules, and first-match walks.   *)
(* Ids and priorities are numbers, so that they have an order.             *)
(***************************************************************************)
EXTENDS Integers, Sequences, FiniteSets

(* The order of command rules and of groups.                               *)
Before(x, y) == x.priority < y.priority \/ (x.priority = y.priority /\ x.id < y.id)

(* The members of S in this order, which tells them apart: groups have     *)
(* different ids, and two command rules of one priority are refused.       *)
Sorted(S) ==
  [k \in 1..Cardinality(S) |-> CHOOSE x \in S : Cardinality({y \in S : Before(y, x)}) = k - 1]

(* The groups a request belongs to: those that are named, by the user or   *)
(* by the client, and enabled.  Naming one twice makes no difference.      *)
GroupsInOrder(groups, named) ==
  Sorted({[id |-> g, priority |-> groups[g].priority] :
            g \in {h \in DOMAIN groups : groups[h].enabled /\ h \in named}})

(* Where a walk over lists of rules stops: hits[k] has the places in the   *)
(* k-th list at which a rule matches.  <<0, 0>> if it goes to the end.     *)
Soonest(S) == CHOOSE i \in S : \A j \in S : i <= j
FirstHit(hits) ==
  LET lists == {k \in DOMAIN hits : hits[k] # {}}
  IN IF lists = {} THEN <<0, 0>> ELSE <<Soonest(lists), Soonest(hits[Soonest(lists)])>>

=============================================================================
