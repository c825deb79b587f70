------------------------------ MODULE EventLog ------------------------------
(***************************************************************************)
(* What the event service promises to those who follow it: an ever growing  *)
(* log, of which every consumer hears the events it asked for in order and  *)
(* without a hole, unless it has been told that it lost some.               *)
(*                                                                          *)
(* The bounded ring of EventRing.tla, with its evictions, mailboxes and     *)
(* replays, implements this.                                                *)
(***************************************************************************)
EXTENDS Integers, Sequences

CONSTANTS
  Consumers,
  Kinds,        \* kinds of events
  Wanted,       \* the kinds the consumers asked for
  Nowhere       \* position of a consumer that has not begun to follow

VARIABLES
  log,    \* every event ever accepted
  pos,    \* what each consumer has heard up to
  heard,  \* the ids in the last message to each consumer
  told    \* the last message said that events were lost

vars == <<log, pos, heard, told>>

Init ==
  /\ log = <<>>
  /\ pos = [c \in Consumers |-> Nowhere]
  /\ heard = [c \in Consumers |-> {}]
  /\ told = [c \in Consumers |-> FALSE]

Append1(k) ==
  /\ log' = Append(log, k)
  /\ UNCHANGED <<pos, heard, told>>

(* A consumer begins to follow at the end of the log.                      *)
Join(c) ==
  /\ pos[c] = Nowhere
  /\ pos' = [pos EXCEPT ![c] = Len(log)]
  /\ UNCHANGED <<log, heard, told>>

(* It goes away before it has heard anything it would have to remember.    *)
Quit(c) ==
  /\ pos' = [pos EXCEPT ![c] = Nowhere]
  /\ UNCHANGED <<log, heard, told>>

WantedIn(lo, hi) == {i \in lo..hi : log[i] \in Wanted}

(* It is told that there is nothing after its position, and begins again.  *)
Exhausted(c) ==
  /\ pos[c] = Nowhere \/ WantedIn(pos[c] + 1, Len(log)) = {}
  /\ pos' = [pos EXCEPT ![c] = Nowhere]
  /\ heard' = [heard EXCEPT ![c] = {}]
  /\ told' = [told EXCEPT ![c] = FALSE]
  /\ UNCHANGED log

(* A message with all wanted events from one point of the log to a later   *)
(* one.  A consumer that has a position finds them begin right after it,   *)
(* or the message says that events were lost.  A consumer with nothing left *)
(* to hear may begin again.                                                *)
Hear(c, from, to, lost) ==
  /\ from <= to /\ to <= Len(log)
  /\ log[to] \in Wanted
  /\ pos[c] # Nowhere => from > pos[c]
  /\ pos[c] = Nowhere \/ lost \/ from = pos[c] + 1
  /\ \/ pos' = [pos EXCEPT ![c] = to]
     \/ WantedIn(to + 1, Len(log)) = {} /\ pos' = [pos EXCEPT ![c] = Nowhere]
  /\ heard' = [heard EXCEPT ![c] = WantedIn(from, to)]
  /\ told' = [told EXCEPT ![c] = lost]
  /\ UNCHANGED log

(* A message that only says that events were lost: the consumer begins     *)
(* again wherever the log can still serve it.                              *)
Tell(c) ==
  /\ pos' = [pos EXCEPT ![c] = Nowhere]
  /\ heard' = [heard EXCEPT ![c] = {}]
  /\ told' = [told EXCEPT ![c] = TRUE]
  /\ UNCHANGED log

Next ==
  \/ \E k \in Kinds : Append1(k)
  \/ \E c \in Consumers :
       \/ Join(c) \/ Quit(c) \/ Exhausted(c) \/ Tell(c)
       \/ \E from, to \in 1..Len(log), lost \in BOOLEAN : Hear(c, from, to, lost)

Spec == Init /\ [][Next]_vars

=============================================================================
