--------------------------- MODULE MCRadiusTables ---------------------------
(***************************************************************************)
(* Instances of EapConversations and SessionIndex for TLC.  The two share  *)
(* no state; a behaviour is one of either, chosen at the start.            *)
(***************************************************************************)
EXTENDS EapConversations, SessionIndex

CONSTANTS c1, c2, a

VARIABLE table

(* A PEAP conversation of one client, to its end, with a stranger and a    *)
(* second conversation in the way; and short ones of every kind.           *)
Conversations ==
  {[begin |-> {c1}, first |-> {"start"}, draws |-> 4],
   [begin |-> {c1, c2}, first |-> {"identity", "md5", "start"}, draws |-> 2]}

(* Inbound requests among all accounting events; a pager; and two API      *)
(* requests that originate for one session.                                *)
Roles ==
  {[who |-> "das", handles |-> 2, nas |-> Nas,
    kinds |-> {"start", "interim", "stop", "on", "due", "reset"}],
   [who |-> "list", handles |-> 3, nas |-> {a}, kinds |-> {"start", "stop"}],
   [who |-> "dac", handles |-> 1, nas |-> {a}, kinds |-> {"start"}]}

tablesVars == <<table, eapVars, siVars>>

TablesInit ==
  /\ table \in {"challenges", "sessions"}
  /\ EapInit /\ SiInit
  /\ IF table = "challenges" THEN active.who = "dac" ELSE scene.draws = 2

TablesNext ==
  \/ table = "challenges" /\ EapNext /\ UNCHANGED <<table, siVars>>
  \/ table = "sessions" /\ SiNext /\ UNCHANGED <<table, eapVars>>

TablesSpec == TablesInit /\ [][TablesNext]_tablesVars /\ EapFairness

=============================================================================
