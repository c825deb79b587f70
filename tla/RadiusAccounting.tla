-------------------------- MODULE RadiusAccounting --------------------------
(***************************************************************************)
(* The RADIUS/UDP accounting path: receive loop, bounded queue, workers,   *)
(* exact-response retransmission cache (internal/radius/udp/cache.go),     *)
(* semantic journal (journal.go) and the accounting handler                *)
(* (internal/radius/server/accounting.go).                                 *)
(*                                                                         *)
(* The network delivers any datagram of a client any number of times, late *)
(* or never.  A packet stands for its exact bytes, which is what the cache *)
(* fingerprints; several packets can carry the same accounting event (a    *)
(* retransmission with a new Acct-Delay-Time) and several can use the same *)
(* cache slot (the client reuses an identifier).  Each lock region of the  *)
(* code is one action, so that workers interleave between them.            *)
(***************************************************************************)
EXTENDS Naturals, Sequences, FiniteSets

CONSTANTS
  Packets, Events, Slots,
  EventOf,     \* the semantic identity of a packet (JournalKey)
  SlotOf,      \* its slotKey: endpoint, role, source, socket, code, identifier
  Ambiguous,   \* events without session id and NAS identity
  Workers, NoPacket,
  QueueCap, CacheCap, JournalCap

ASSUME AccountingAssumption ==
  /\ EventOf \in [Packets -> Events]
  /\ SlotOf \in [Packets -> Slots]
  /\ Ambiguous \subseteq Events
  /\ NoPacket \notin Packets
  /\ IsFiniteSet(Slots)
  /\ QueueCap \in Nat \ {0} /\ CacheCap \in Nat \ {0} /\ JournalCap \in Nat

VARIABLES
  open,      \* the socket is open (Drain closes it)
  queue,     \* Listener.queue
  worker,    \* what each worker is doing
  cache,     \* Cache.entries
  reserved,  \* journal.pending
  entries,   \* journal.entries
  ring,      \* the events the ring accepted
  known,     \* events recorded under a reservation since the journal forgot them
  sent       \* the last answer: [to: request, for: the request it was made for]

vars == <<open, queue, worker, cache, reserved, entries, ring, known, sent>>

(* A slot of the cache: empty, reserved for the packet fp, or holding the  *)
(* reply that was made for the packet `reply'.                             *)
Slot == [fp: Packets, pending: BOOLEAN, reply: Packets \cup {NoPacket}]
Empty == [fp |-> NoPacket, pending |-> FALSE, reply |-> NoPacket]
Pending(p) == [fp |-> p, pending |-> TRUE, reply |-> NoPacket]
Completed(p, reply) == [fp |-> p, pending |-> FALSE, reply |-> reply]

(* Where a worker is between two lock regions; sat: it owns the event      *)
(* without a reservation, because the journal was full.                    *)
Job == [pc: {"cache", "journal", "waiting", "sink", "finish", "reply", "discard"},
        pkt: Packets, sat: BOOLEAN, accepted: BOOLEAN]
Idle == [pc |-> "idle", pkt |-> NoPacket, sat |-> FALSE, accepted |-> FALSE]
At(pc, p) == [pc |-> pc, pkt |-> p, sat |-> FALSE, accepted |-> FALSE]

Init ==
  /\ open = TRUE
  /\ queue = <<>>
  /\ worker = [w \in Workers |-> Idle]
  /\ cache = [s \in Slots |-> Empty]
  /\ reserved = {} /\ entries = {}
  /\ ring = {} /\ known = {}
  /\ sent = [to |-> NoPacket, for |-> NoPacket]

Goto(w, job) == worker' = [worker EXCEPT ![w] = job]

-----------------------------------------------------------------------------
(* Receive and dispatch.                                                   *)

(* receiveLoop: a full queue drops the datagram.                           *)
Receive(p) ==
  /\ open
  /\ Len(queue) < QueueCap
  /\ queue' = Append(queue, p)
  /\ UNCHANGED <<open, worker, cache, reserved, entries, ring, known, sent>>

(* Drain closes the socket; the receive loop returns and closes the queue, *)
(* which the workers still empty.                                          *)
Close ==
  /\ open
  /\ open' = FALSE
  /\ UNCHANGED <<queue, worker, cache, reserved, entries, ring, known, sent>>

Dequeue(w) ==
  /\ worker[w] = Idle
  /\ queue # <<>>
  /\ Goto(w, At("cache", Head(queue)))
  /\ queue' = Tail(queue)
  /\ UNCHANGED <<open, cache, reserved, entries, ring, known, sent>>

(* process: no client matches, the source is over its rate, or the packet  *)
(* fails its integrity check.  None of these touches the cache.            *)
Refuse(w) ==
  /\ worker[w].pc = "cache"
  /\ Goto(w, Idle)
  /\ UNCHANGED <<open, queue, cache, reserved, entries, ring, known, sent>>

-----------------------------------------------------------------------------
(* The retransmission cache.                                               *)

Occupied(c) == Cardinality({s \in Slots : c[s] # Empty})

(* Cache.Begin: replay, ignore, or take the slot, from another packet if   *)
(* need be; a full cache refuses.                                          *)
CacheBegin(w) ==
  LET p == worker[w].pkt
      s == SlotOf[p]
      purged == [cache EXCEPT ![s] = Empty]
  IN  /\ worker[w].pc = "cache"
      /\ \/ /\ cache[s].fp = p                                  \* hit
            /\ sent' = IF cache[s].pending THEN sent
                       ELSE [to |-> p, for |-> cache[s].reply]
            /\ Goto(w, Idle)
            /\ UNCHANGED cache
         \/ /\ cache[s].fp # p
            /\ UNCHANGED sent
            /\ IF Occupied(purged) < CacheCap
               THEN cache' = [cache EXCEPT ![s] = Pending(p)] /\ Goto(w, At("journal", p))
               ELSE cache' = purged /\ Goto(w, Idle)            \* saturated
      /\ UNCHANGED <<open, queue, reserved, entries, ring, known>>

(* Seeded fault: the reply goes to whatever request has the slot.          *)
Complete_AnyPending(p) ==
  LET s == SlotOf[p]
  IN  IF cache[s] # Empty /\ cache[s].pending
      THEN {[cache EXCEPT ![s] = Completed(@.fp, p)]} ELSE {cache}

(* Cache.Complete: only the slot still reserved for p takes its reply; a   *)
(* reply over the byte budget frees the slot instead.                      *)
Complete(p) ==
  LET s == SlotOf[p]
  IN  IF cache[s].fp = p /\ cache[s].pending
      THEN {[cache EXCEPT ![s] = Completed(p, p)], [cache EXCEPT ![s] = Empty]}
      ELSE {cache}

(* The reply is cached and then sent.                                      *)
Reply(w) ==
  LET p == worker[w].pkt
  IN  /\ worker[w].pc = "reply"
      /\ cache' \in Complete(p)
      /\ sent' = [to |-> p, for |-> p]
      /\ Goto(w, Idle)
      /\ UNCHANGED <<open, queue, reserved, entries, ring, known>>

(* Cache.Abandon: pending or not, the slot of p is freed.                  *)
Abandoned(p) ==
  IF cache[SlotOf[p]].fp = p THEN [cache EXCEPT ![SlotOf[p]] = Empty] ELSE cache

Discard(w) ==
  /\ worker[w].pc = "discard"
  /\ cache' = Abandoned(worker[w].pkt)
  /\ Goto(w, Idle)
  /\ UNCHANGED <<open, queue, reserved, entries, ring, known, sent>>

(* Cache.expireLocked: an entry reaches its TTL.                           *)
CacheExpire(s) ==
  /\ cache[s] # Empty
  /\ cache' = [cache EXCEPT ![s] = Empty]
  /\ UNCHANGED <<open, queue, worker, reserved, entries, ring, known, sent>>

-----------------------------------------------------------------------------
(* The journal and the sink.                                               *)

(* journal.Begin: an event already recorded is only answered; one being    *)
(* recorded is waited for; a full journal lets the event through without a *)
(* reservation.                                                            *)
JournalBegin(w) ==
  LET p == worker[w].pkt
      e == EventOf[p]
      full == Cardinality(entries) + Cardinality(reserved) >= JournalCap
  IN  /\ worker[w].pc = "journal"
      /\ \/ e \in entries /\ Goto(w, At("reply", p)) /\ UNCHANGED reserved
         \/ e \notin entries /\ e \in reserved /\ Goto(w, At("waiting", p))
              /\ UNCHANGED reserved
         \/ e \notin entries \cup reserved /\ full /\ UNCHANGED reserved
              /\ Goto(w, [At("sink", p) EXCEPT !.sat = TRUE])
         \/ e \notin entries \cup reserved /\ ~full
              /\ reserved' = reserved \cup {e} /\ Goto(w, At("sink", p))
      /\ UNCHANGED <<open, queue, cache, entries, ring, known, sent>>

(* Accounting.Handle gives up: the status type is not accepted, the worker *)
(* deadline passes in journal.Begin, or the response cannot be signed.     *)
GiveUp(w) ==
  /\ worker[w].pc \in {"journal", "waiting", "reply"}
  /\ Goto(w, At("discard", worker[w].pkt))
  /\ UNCHANGED <<open, queue, cache, reserved, entries, ring, known, sent>>

(* Accounting.Handle up to its return: the ring accepts the record, or the *)
(* record fails, or an event without identity is over its sample and is    *)
(* acknowledged without a record.                                          *)
Sink(w) ==
  LET e == EventOf[worker[w].pkt]
      done(ok) == Goto(w, [worker[w] EXCEPT !.pc = "finish", !.accepted = ok])
  IN  /\ worker[w].pc = "sink"
      /\ \/ done(TRUE) /\ ring' = ring \cup {e}
            /\ known' = IF worker[w].sat THEN known ELSE known \cup {e}
         \/ done(FALSE) /\ UNCHANGED <<ring, known>>
         \/ e \in Ambiguous /\ done(TRUE) /\ UNCHANGED <<ring, known>>
      /\ UNCHANGED <<open, queue, cache, reserved, entries, sent>>

(* Seeded fault: the identity is committed whether or not the sink took    *)
(* the record.                                                             *)
Committed_Always(w, e) == entries \cup {e}
(* Seeded fault: the identity is released but never committed.             *)
Committed_Never(w, e) == entries
Committed(w, e) == IF worker[w].accepted THEN entries \cup {e} ELSE entries

(* Seeded fault: the waiters are not woken.                                *)
Wake_Nobody(e) == worker
(* close(done): everyone waiting for e goes back to journal.Begin.         *)
Wake(e) ==
  [v \in Workers |-> IF worker[v].pc = "waiting" /\ EventOf[worker[v].pkt] = e
                     THEN At("journal", worker[v].pkt) ELSE worker[v]]

(* The deferred journal.Finish, which an owner without a reservation does  *)
(* not run; then the handler's result decides between reply and discard.   *)
Finish(w) ==
  LET p == worker[w].pkt
      e == EventOf[p]
      next == At(IF worker[w].accepted THEN "reply" ELSE "discard", p)
  IN  /\ worker[w].pc = "finish"
      /\ IF worker[w].sat
         THEN Goto(w, next) /\ UNCHANGED <<reserved, entries>>
         ELSE /\ reserved' = reserved \ {e}
              /\ entries' = Committed(w, e)
              /\ worker' = [Wake(e) EXCEPT ![w] = next]
      /\ UNCHANGED <<open, queue, cache, ring, known, sent>>

(* journal.expireLocked: a committed identity reaches its TTL; pending     *)
(* ones never expire.                                                      *)
JournalExpire(e) ==
  /\ e \in entries
  /\ entries' = entries \ {e}
  /\ known' = known \ {e}
  /\ UNCHANGED <<open, queue, worker, cache, reserved, ring, sent>>

-----------------------------------------------------------------------------
(* A step of the worker that needs nobody else and no clock.               *)
WorkerStep(w) ==
  \/ Dequeue(w) \/ CacheBegin(w) \/ Reply(w) \/ Discard(w)
  \/ JournalBegin(w) \/ Sink(w) \/ Finish(w)

Next ==
  \/ \E p \in Packets : Receive(p)
  \/ Close
  \/ \E w \in Workers : WorkerStep(w)
  \/ \E w \in Workers : Refuse(w)
  \/ \E w \in Workers : GiveUp(w)
  \/ \E s \in Slots : CacheExpire(s)
  \/ \E e \in Events : JournalExpire(e)

(* Workers are goroutines and the sink does not block; the network, the    *)
(* clocks and the operator owe nothing.                                    *)
Spec == Init /\ [][Next]_vars /\ \A w \in Workers : WF_vars(WorkerStep(w))

-----------------------------------------------------------------------------
(* Properties.                                                             *)

(* Types, and the bounds of queue and cache.                               *)
TypeOK ==
  /\ open \in BOOLEAN
  /\ queue \in Seq(Packets) /\ Len(queue) <= QueueCap
  /\ worker \in [Workers -> Job \cup {Idle}]
  /\ cache \in [Slots -> Slot \cup {Empty}] /\ Occupied(cache) <= CacheCap
  /\ reserved \subseteq Events /\ entries \subseteq Events
  /\ ring \subseteq Events /\ known \subseteq Events
  /\ sent \in [to: Packets \cup {NoPacket}, for: Packets \cup {NoPacket}]

(* SUCCESS only after the ring took the record: whoever is answered, by    *)
(* the owner, by a waiter, by the journal or by the cache, the event is in *)
(* the ring, except for a sampled event without identity (Accounting.      *)
(* Handle, RecordRADIUSAccounting).                                        *)
AnsweredIsRecorded ==
  sent.to # NoPacket => EventOf[sent.to] \in ring \cup Ambiguous

(* A client gets the reply made for the exact bytes it sent, although      *)
(* identifiers are reused and a slot can be purged or expire while its     *)
(* request is in flight (Cache.Complete).                                  *)
ReplyAnswersRequest ==
  /\ sent.to = sent.for
  /\ \A s \in Slots : cache[s] # Empty /\ ~cache[s].pending => cache[s].reply = cache[s].fp

(* No slot stays reserved for a request nobody works on: a discarded       *)
(* request can be retried at once ("a discard cannot leave a stuck entry").*)
PendingSlotHasWorker ==
  \A s \in Slots :
    cache[s].pending => \E w \in Workers : /\ worker[w].pkt = cache[s].fp
                                           /\ worker[w].pc \notin {"idle", "cache"}

(* w works on e under a reservation of the journal.                        *)
Owns(w, e) ==
  /\ worker[w].pc \in {"sink", "finish"}
  /\ ~worker[w].sat
  /\ EventOf[worker[w].pkt] = e

(* Nobody waits for nobody: a reserved event has exactly one worker that   *)
(* will finish it, that worker keeps its reservation until it does, and    *)
(* waiters wait only for reserved events (journal.Begin, journal.Finish).  *)
ReservationHasOwner ==
  /\ \A e \in reserved : \E w \in Workers : Owns(w, e)
  /\ \A e \in Events : \A v, w \in Workers : Owns(v, e) /\ Owns(w, e) => v = w
  /\ \A w \in Workers, e \in Events : Owns(w, e) => e \in reserved
  /\ \A w \in Workers : worker[w].pc = "waiting" => EventOf[worker[w].pkt] \in reserved

(* One record per journal life: under a reservation an event goes to the   *)
(* ring only if it has not gone there since the journal last forgot it,    *)
(* whatever retransmissions, failures and timeouts come between.           *)
RecordedOnce ==
  \A w \in Workers :
    worker[w].pc = "sink" /\ ~worker[w].sat => EventOf[worker[w].pkt] \notin known

(* Shutdown drains: once the socket is closed the queue empties and every  *)
(* worker comes to rest, without help from the worker deadline.            *)
Drained == ~open ~> (queue = <<>> /\ \A w \in Workers : worker[w] = Idle)

=============================================================================
