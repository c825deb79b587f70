----------------------- MODULE RadiusAccountingProofs -----------------------
(***************************************************************************)
(* Proofs about RadiusAccounting, for any packets, slots, events, number   *)
(* of workers and capacities.                                              *)
(*                                                                         *)
(* The invariant falls into groups that are shown one after the other:     *)
(* types and bounds; what an answer rests on (Answered); that a pending    *)
(* slot has a worker; and who owns a reservation (Journalled).             *)
(***************************************************************************)
EXTENDS RadiusAccounting, FiniteSetTheorems, TLAPS

(* What may be acknowledged.                                               *)
Settled == ring \cup Ambiguous

(* Every place an answer can come from holds only settled events: the      *)
(* journal, a completed slot, a worker whose record was accepted.          *)
Answered ==
  /\ AnsweredIsRecorded
  /\ ReplyAnswersRequest
  /\ entries \subseteq Settled
  /\ \A s \in Slots : cache[s] # Empty /\ ~cache[s].pending
                        => EventOf[cache[s].fp] \in Settled
  /\ \A w \in Workers :
       worker[w].pc = "reply" \/ (worker[w].pc = "finish" /\ worker[w].accepted)
         => EventOf[worker[w].pkt] \in Settled

(* An event recorded under a reservation is in the journal, or its owner   *)
(* is about to put it there.                                               *)
Journalled ==
  /\ ReservationHasOwner
  /\ entries \cap reserved = {}
  /\ \A e \in known :
       \/ e \in entries
       \/ \E w \in Workers : Owns(w, e) /\ worker[w].pc = "finish" /\ worker[w].accepted

(* A slot holds packets of that slot only.                                 *)
Keyed == \A s \in Slots : cache[s] # Empty => SlotOf[cache[s].fp] = s

IndInv == TypeOK /\ Keyed /\ Answered /\ PendingSlotHasWorker /\ Journalled

(* A worker that is not idle has a packet.                                 *)
LEMMA WorkerType ==
  ASSUME TypeOK, NEW w \in Workers
  PROVE  /\ worker[w] \in Job \/ worker[w] = Idle
         /\ worker[w].pc # "idle"
              => /\ worker[w] \in Job
                 /\ worker[w].pkt \in Packets
                 /\ EventOf[worker[w].pkt] \in Events
                 /\ SlotOf[worker[w].pkt] \in Slots
         /\ worker[w].pc = "idle" => worker[w] = Idle
  BY AccountingAssumption DEF TypeOK, Job, Idle

(* The records a worker moves through are jobs.                            *)
LEMMA JobType ==
  ASSUME NEW p \in Packets,
         NEW pc \in {"cache", "journal", "waiting", "sink", "finish", "reply", "discard"}
  PROVE  /\ At(pc, p) \in Job
         /\ At(pc, p).pc = pc /\ At(pc, p).pkt = p
         /\ ~At(pc, p).sat /\ ~At(pc, p).accepted
  BY DEF At, Job

(* Emptying a slot does not add to the occupied ones; filling one adds at  *)
(* most one.                                                               *)
LEMMA OccupiedBounds ==
  ASSUME NEW c, c \in [Slots -> Slot \cup {Empty}], NEW s \in Slots,
         NEW x \in Slot \cup {Empty}
  PROVE  /\ Occupied(c) \in Nat
         /\ Occupied([c EXCEPT ![s] = Empty]) <= Occupied(c)
         /\ Occupied([c EXCEPT ![s] = x]) <= Occupied([c EXCEPT ![s] = Empty]) + 1
         /\ c[s] # Empty => Occupied([c EXCEPT ![s] = x]) <= Occupied(c)
  <1> DEFINE Of(d) == {t \in Slots : d[t] # Empty}
             E == [c EXCEPT ![s] = Empty]
             X == [c EXCEPT ![s] = x]
  <1>1. IsFiniteSet(Of(c)) /\ IsFiniteSet(Of(E)) /\ IsFiniteSet(Of(X))
    BY AccountingAssumption, FS_Subset
  <1>2. Cardinality(Of(c)) \in Nat /\ Cardinality(Of(E)) \in Nat /\ Cardinality(Of(X)) \in Nat
    BY <1>1, FS_CardinalityType
  <1>3. Of(E) \subseteq Of(c)
    OBVIOUS
  <1>4. Cardinality(Of(E)) <= Cardinality(Of(c))
    BY <1>1, <1>3, FS_Subset
  <1>5. Of(X) \subseteq Of(E) \cup {s}
    OBVIOUS
  <1>6. s \notin Of(E)
    OBVIOUS
  <1>7. Cardinality(Of(E) \cup {s}) = Cardinality(Of(E)) + 1 /\ IsFiniteSet(Of(E) \cup {s})
    BY <1>1, <1>6, FS_AddElement
  <1>8. Cardinality(Of(X)) <= Cardinality(Of(E)) + 1
    BY <1>5, <1>7, FS_Subset
  <1>9. c[s] # Empty => Cardinality(Of(X)) <= Cardinality(Of(c))
    <2> SUFFICES ASSUME c[s] # Empty PROVE Cardinality(Of(X)) <= Cardinality(Of(c))
      OBVIOUS
    <2>1. Of(X) \subseteq Of(c)
      OBVIOUS
    <2> QED BY <1>1, <2>1, FS_Subset
  <1> QED BY <1>2, <1>4, <1>8, <1>9 DEF Occupied

-----------------------------------------------------------------------------
(* Every step is one of these.                                             *)
LEMMA StepCases ==
  ASSUME [Next]_vars
  PROVE  \/ \E p \in Packets : Receive(p)
         \/ Close
         \/ \E w \in Workers : Dequeue(w)
         \/ \E w \in Workers : Refuse(w)
         \/ \E w \in Workers : CacheBegin(w)
         \/ \E w \in Workers : Reply(w)
         \/ \E w \in Workers : Discard(w)
         \/ \E w \in Workers : JournalBegin(w)
         \/ \E w \in Workers : GiveUp(w)
         \/ \E w \in Workers : Sink(w)
         \/ \E w \in Workers : Finish(w)
         \/ \E s \in Slots : CacheExpire(s)
         \/ \E e \in Events : JournalExpire(e)
         \/ UNCHANGED vars
  BY DEF Next, WorkerStep

(* What Sink and Finish do to the workers.                                 *)
LEMMA SinkMoves ==
  ASSUME TypeOK, NEW w \in Workers, Sink(w)
  PROVE  /\ worker[w].pc = "sink"
         /\ worker'[w].pc = "finish" /\ worker'[w].pkt = worker[w].pkt
         /\ worker'[w].sat = worker[w].sat
         /\ \A v \in Workers : v # w => worker'[v] = worker[v]
         /\ worker'[w].accepted => EventOf[worker[w].pkt] \in ring' \cup Ambiguous
         /\ \/ ring' = ring /\ known' = known
            \/ /\ ring' = ring \cup {EventOf[worker[w].pkt]}
               /\ worker'[w].accepted
               /\ known' = IF worker[w].sat THEN known
                           ELSE known \cup {EventOf[worker[w].pkt]}
         /\ UNCHANGED <<open, queue, cache, reserved, entries, sent>>
  <1> DEFINE e == EventOf[worker[w].pkt]
             job(ok) == [worker[w] EXCEPT !.pc = "finish", !.accepted = ok]
  <1>1. worker[w] \in Job /\ worker \in [Workers -> Job \cup {Idle}] /\ worker[w].pc = "sink"
    BY WorkerType DEF Sink, TypeOK
  <1>2. \A ok \in BOOLEAN : /\ job(ok).pc = "finish" /\ job(ok).accepted = ok
                            /\ job(ok).pkt = worker[w].pkt /\ job(ok).sat = worker[w].sat
    BY <1>1 DEF Job
  <1>3. PICK ok \in BOOLEAN :
          /\ worker' = [worker EXCEPT ![w] = job(ok)]
          /\ \/ /\ ok = TRUE /\ ring' = ring \cup {e}
                /\ known' = IF worker[w].sat THEN known ELSE known \cup {e}
             \/ ok = FALSE /\ UNCHANGED <<ring, known>>
             \/ e \in Ambiguous /\ ok = TRUE /\ UNCHANGED <<ring, known>>
    BY DEF Sink, Goto
  <1>4. worker'[w] = job(ok) /\ \A v \in Workers : v # w => worker'[v] = worker[v]
    BY <1>1, <1>3
  <1>5. UNCHANGED <<open, queue, cache, reserved, entries, sent>>
    BY DEF Sink
  <1> HIDE DEF job
  <1> QED BY <1>1, <1>2, <1>3, <1>4, <1>5

LEMMA FinishMoves ==
  ASSUME TypeOK, NEW w \in Workers, Finish(w)
  PROVE  /\ worker[w].pc = "finish"
         /\ worker'[w].pc = (IF worker[w].accepted THEN "reply" ELSE "discard")
         /\ worker'[w].pkt = worker[w].pkt
         /\ \A v \in Workers : v # w =>
              IF ~worker[w].sat /\ worker[v].pc = "waiting"
                   /\ EventOf[worker[v].pkt] = EventOf[worker[w].pkt]
              THEN worker'[v].pc = "journal" /\ worker'[v].pkt = worker[v].pkt
              ELSE worker'[v] = worker[v]
         /\ UNCHANGED <<open, queue, cache, ring, known, sent>>
         /\ IF worker[w].sat THEN UNCHANGED <<reserved, entries>>
            ELSE /\ reserved' = reserved \ {EventOf[worker[w].pkt]}
                 /\ entries' = Committed(w, EventOf[worker[w].pkt])
  <1> DEFINE e == EventOf[worker[w].pkt]
             n == At(IF worker[w].accepted THEN "reply" ELSE "discard", worker[w].pkt)
  <1>1. worker \in [Workers -> Job \cup {Idle}] /\ worker[w].pc = "finish"
    BY DEF TypeOK, Finish
  <1>2. /\ worker[w].sat => worker' = [worker EXCEPT ![w] = n]
        /\ ~worker[w].sat => worker' = [Wake(e) EXCEPT ![w] = n]
    BY DEF Finish, Goto
  <1>3. \A v \in Workers : Wake(e)[v] = IF worker[v].pc = "waiting" /\ EventOf[worker[v].pkt] = e
                                        THEN At("journal", worker[v].pkt) ELSE worker[v]
    BY DEF Wake
  <1>4. DOMAIN Wake(e) = Workers /\ Wake(e) = [v \in Workers |-> Wake(e)[v]]
    BY DEF Wake
  <1> HIDE DEF n
  <1>5. worker'[w] = n
    BY <1>1, <1>2, <1>4
  <1>6. \A v \in Workers : v # w => worker'[v] = IF worker[w].sat THEN worker[v] ELSE Wake(e)[v]
    BY <1>1, <1>2, <1>4
  <1>7. UNCHANGED <<open, queue, cache, ring, known, sent>>
    BY DEF Finish
  <1>8. IF worker[w].sat THEN UNCHANGED <<reserved, entries>>
            ELSE /\ reserved' = reserved \ {e}
                 /\ entries' = Committed(w, e)
    BY DEF Finish
  <1>9. /\ n.pc = (IF worker[w].accepted THEN "reply" ELSE "discard")
        /\ n.pkt = worker[w].pkt
    BY DEF n, At
  <1>10. \A v \in Workers : /\ At("journal", worker[v].pkt).pc = "journal"
                            /\ At("journal", worker[v].pkt).pkt = worker[v].pkt
    BY DEF At
  <1> QED BY <1>1, <1>3, <1>5, <1>6, <1>7, <1>8, <1>9, <1>10

(* Types and the bounds of queue and cache.                                *)
LEMMA TypePreserved ==
  ASSUME TypeOK, [Next]_vars
  PROVE  TypeOK'
  <1> USE AccountingAssumption
  <1>1. ASSUME NEW p \in Packets, Receive(p) PROVE TypeOK'
    BY <1>1 DEF TypeOK, Receive
  <1>2. CASE Close
    BY <1>2 DEF TypeOK, Close
  <1>3. ASSUME NEW w \in Workers, Dequeue(w) PROVE TypeOK'
    <2>1. Head(queue) \in Packets /\ Tail(queue) \in Seq(Packets) /\ Len(Tail(queue)) <= QueueCap
      BY <1>3 DEF TypeOK, Dequeue
    <2>2. At("cache", Head(queue)) \in Job
      BY <2>1, JobType
    <2> QED BY <1>3, <2>1, <2>2 DEF TypeOK, Dequeue, Goto
  <1>4. ASSUME NEW w \in Workers, Refuse(w) PROVE TypeOK'
    BY <1>4 DEF TypeOK, Refuse, Goto
  <1>5. ASSUME NEW w \in Workers, CacheBegin(w) PROVE TypeOK'
    <2> DEFINE p == worker[w].pkt
               s == SlotOf[p]
               purged == [cache EXCEPT ![s] = Empty]
    <2>1. p \in Packets /\ s \in Slots
      BY <1>5, WorkerType DEF CacheBegin
    <2>2. Pending(p) \in Slot /\ At("journal", p) \in Job
      BY <2>1, JobType DEF Pending, Slot
    <2>3. Occupied(purged) <= CacheCap
      <3>1. purged \in [Slots -> Slot \cup {Empty}]
        BY DEF TypeOK
      <3> HIDE DEF s, p
      <3>2. Occupied(purged) \in Nat /\ Occupied(cache) \in Nat
        BY <2>1, <3>1, OccupiedBounds DEF TypeOK
      <3>3. Occupied(purged) <= Occupied(cache)
        BY <2>1, OccupiedBounds DEF TypeOK
      <3> QED BY <3>2, <3>3 DEF TypeOK
    <2>4. Occupied(purged) < CacheCap => Occupied([cache EXCEPT ![s] = Pending(p)]) <= CacheCap
      <3>1. purged \in [Slots -> Slot \cup {Empty}]
        BY DEF TypeOK
      <3> HIDE DEF s, p
      <3>2. Occupied(purged) \in Nat
        BY <2>1, <3>1, OccupiedBounds
      <3>3. Occupied([cache EXCEPT ![s] = Pending(p)]) <= Occupied(purged) + 1
        BY <2>1, <2>2, OccupiedBounds DEF TypeOK
      <3>4. Occupied([cache EXCEPT ![s] = Pending(p)]) \in Nat
        <4>1. [cache EXCEPT ![s] = Pending(p)] \in [Slots -> Slot \cup {Empty}]
          BY <2>2 DEF TypeOK
        <4> QED BY <4>1, <2>1, OccupiedBounds
      <3> QED BY <3>2, <3>3, <3>4
    <2>5. cache' \in [Slots -> Slot \cup {Empty}] /\ Occupied(cache') <= CacheCap
      BY <1>5, <2>1, <2>2, <2>3, <2>4 DEF TypeOK, CacheBegin
    <2>6. worker' \in [Workers -> Job \cup {Idle}]
      BY <1>5, <2>2 DEF TypeOK, CacheBegin, Goto
    <2>7. sent' \in [to: Packets \cup {NoPacket}, for: Packets \cup {NoPacket}]
      <3>1. cache[s].reply \in Packets \cup {NoPacket}
        BY <2>1 DEF TypeOK, Slot, Empty
      <3> QED BY <1>5, <2>1, <3>1 DEF TypeOK, CacheBegin
    <2> QED BY <1>5, <2>5, <2>6, <2>7 DEF TypeOK, CacheBegin
  <1>6. ASSUME NEW w \in Workers, Reply(w) PROVE TypeOK'
    <2> DEFINE p == worker[w].pkt
    <2>1. p \in Packets /\ SlotOf[p] \in Slots
      BY <1>6, WorkerType DEF Reply
    <2>2. Completed(p, p) \in Slot /\ p # NoPacket
      BY <2>1 DEF Completed, Slot
    <2>3. cache' \in [Slots -> Slot \cup {Empty}]
      BY <1>6, <2>1, <2>2 DEF Reply, Complete, TypeOK
    <2>4. Occupied(cache') <= CacheCap
      <3> DEFINE s == SlotOf[p]
      <3>1. CASE cache' = cache
        BY <3>1 DEF TypeOK
      <3>2. CASE cache[s].fp = p /\ cache' \in {[cache EXCEPT ![s] = Completed(p, p)],
                                                [cache EXCEPT ![s] = Empty]}
        <4>1. cache[s] # Empty
          BY <2>2, <3>2 DEF Empty
        <4> HIDE DEF s, p
        <4>2. Occupied(cache) \in Nat /\ Occupied(cache) <= CacheCap
          BY <2>1, OccupiedBounds DEF TypeOK, s
        <4>3. Occupied(cache') \in Nat
          BY <2>1, <2>3, OccupiedBounds
        <4>4. Occupied(cache') <= Occupied(cache)
          BY <2>1, <2>2, <3>2, <4>1, OccupiedBounds DEF TypeOK, s
        <4> QED BY <4>2, <4>3, <4>4
      <3> QED BY <1>6, <3>1, <3>2 DEF Reply, Complete
    <2> QED BY <1>6, <2>1, <2>3, <2>4 DEF TypeOK, Reply, Goto
  <1>7. ASSUME NEW w \in Workers, Discard(w) PROVE TypeOK'
    <2> DEFINE s == SlotOf[worker[w].pkt]
    <2>1. s \in Slots
      BY <1>7, WorkerType DEF Discard
    <2>2. Occupied(cache') <= CacheCap /\ cache' \in [Slots -> Slot \cup {Empty}]
      <3>1. cache' = cache \/ cache' = [cache EXCEPT ![s] = Empty]
        BY <1>7 DEF Discard, Abandoned
      <3> HIDE DEF s
      <3>2. cache' \in [Slots -> Slot \cup {Empty}]
        BY <3>1 DEF TypeOK
      <3>3. Occupied(cache) \in Nat /\ Occupied(cache') \in Nat
        BY <2>1, <3>2, OccupiedBounds DEF TypeOK
      <3>4. Occupied(cache') <= Occupied(cache)
        BY <2>1, <3>1, <3>3, OccupiedBounds DEF TypeOK
      <3> QED BY <3>2, <3>3, <3>4 DEF TypeOK
    <2> QED BY <1>7, <2>2 DEF TypeOK, Discard, Goto
  <1>8. ASSUME NEW w \in Workers, JournalBegin(w) PROVE TypeOK'
    <2> DEFINE p == worker[w].pkt
    <2>1. p \in Packets /\ EventOf[p] \in Events
      BY <1>8, WorkerType DEF JournalBegin
    <2>2. /\ At("reply", p) \in Job /\ At("waiting", p) \in Job /\ At("sink", p) \in Job
          /\ [At("sink", p) EXCEPT !.sat = TRUE] \in Job
      BY <2>1 DEF At, Job
    <2>3. worker' \in [Workers -> Job \cup {Idle}]
      BY <1>8, <2>2 DEF TypeOK, JournalBegin, Goto
    <2>4. reserved' \subseteq Events
      BY <1>8, <2>1 DEF TypeOK, JournalBegin
    <2>5. UNCHANGED <<open, queue, cache, entries, ring, known, sent>>
      BY <1>8 DEF JournalBegin
    <2> QED BY <2>3, <2>4, <2>5 DEF TypeOK
  <1>9. ASSUME NEW w \in Workers, GiveUp(w) PROVE TypeOK'
    <2>1. At("discard", worker[w].pkt) \in Job
      BY <1>9, WorkerType, JobType DEF GiveUp
    <2> QED BY <1>9, <2>1 DEF TypeOK, GiveUp, Goto
  <1>10. ASSUME NEW w \in Workers, Sink(w) PROVE TypeOK'
    <2>1. EventOf[worker[w].pkt] \in Events /\ worker[w] \in Job
      BY <1>10, WorkerType DEF Sink
    <2>2. \A ok \in BOOLEAN : [worker[w] EXCEPT !.pc = "finish", !.accepted = ok] \in Job
      BY <2>1 DEF Job
    <2> QED BY <1>10, <2>1, <2>2 DEF TypeOK, Sink, Goto
  <1>11. ASSUME NEW w \in Workers, Finish(w) PROVE TypeOK'
    <2> DEFINE p == worker[w].pkt
               e == EventOf[p]
    <2>1. p \in Packets /\ e \in Events
      BY <1>11, WorkerType DEF Finish
    <2>2. At(IF worker[w].accepted THEN "reply" ELSE "discard", p) \in Job
      BY <2>1, JobType
    <2>3. Wake(e) \in [Workers -> Job \cup {Idle}]
      <3> SUFFICES ASSUME NEW v \in Workers PROVE Wake(e)[v] \in Job \cup {Idle}
        BY DEF Wake
      <3>1. worker[v].pc = "waiting" => At("journal", worker[v].pkt) \in Job
        BY WorkerType, JobType
      <3> QED BY <3>1, WorkerType DEF Wake
    <2>4. Committed(w, e) \subseteq Events
      BY <2>1 DEF Committed, TypeOK
    <2> QED BY <1>11, <2>1, <2>2, <2>3, <2>4 DEF TypeOK, Finish, Goto
  <1>12. ASSUME NEW s \in Slots, CacheExpire(s) PROVE TypeOK'
    <2>1. Occupied(cache') <= Occupied(cache) /\ Occupied(cache) \in Nat
      BY <1>12, OccupiedBounds DEF CacheExpire, TypeOK
    <2>2. cache' \in [Slots -> Slot \cup {Empty}]
      BY <1>12 DEF CacheExpire, TypeOK
    <2>3. Occupied(cache') \in Nat
      BY <2>2, OccupiedBounds
    <2> QED BY <1>12, <2>1, <2>2, <2>3 DEF TypeOK, CacheExpire
  <1>13. ASSUME NEW e \in Events, JournalExpire(e) PROVE TypeOK'
    BY <1>13 DEF TypeOK, JournalExpire
  <1>14. CASE UNCHANGED vars
    BY <1>14 DEF TypeOK, vars, Occupied
  <1> QED BY StepCases, <1>1, <1>2, <1>3, <1>4, <1>5, <1>6, <1>7, <1>8, <1>9,
             <1>10, <1>11, <1>12, <1>13, <1>14

(* Answers rest on settled events: the ring is never emptied, the journal  *)
(* takes an event only from an owner whose record was accepted, and a slot *)
(* takes a reply only from the request it is reserved for.                 *)
LEMMA AnsweredPreserved ==
  ASSUME TypeOK, Answered, [Next]_vars
  PROVE  Answered'
  <1> USE AccountingAssumption
  <1> USE DEF Answered, AnsweredIsRecorded, ReplyAnswersRequest, Settled
  <1>1. ASSUME NEW p \in Packets, Receive(p) PROVE Answered'
    BY <1>1 DEF Receive
  <1>2. CASE Close
    BY <1>2 DEF Close
  <1>3. ASSUME NEW w \in Workers, Dequeue(w) PROVE Answered'
    BY <1>3 DEF Dequeue, Goto, At, TypeOK
  <1>4. ASSUME NEW w \in Workers, Refuse(w) PROVE Answered'
    BY <1>4 DEF Refuse, Goto, Idle, TypeOK
  <1>5. ASSUME NEW w \in Workers, CacheBegin(w) PROVE Answered'
    <2> DEFINE p == worker[w].pkt
               s == SlotOf[p]
    <2>1. p \in Packets /\ s \in Slots /\ p # NoPacket
      BY <1>5, WorkerType DEF CacheBegin
    <2>2. cache[s].fp = p => cache[s] # Empty
      BY <2>1 DEF Empty
    <2>3. AnsweredIsRecorded' /\ sent'.to = sent'.for
      <3>1. sent' = sent \/ (cache[s].fp = p /\ ~cache[s].pending /\ sent' = [to |-> p, for |-> cache[s].reply])
        BY <1>5 DEF CacheBegin
      <3>2. UNCHANGED ring
        BY <1>5 DEF CacheBegin
      <3> QED BY <3>1, <3>2, <2>1, <2>2
    <2>4. \A t \in Slots : cache'[t] = cache[t] \/ cache'[t] = Empty \/ cache'[t].pending
      BY <1>5, <2>1 DEF CacheBegin, Pending, TypeOK
    <2>5. \A t \in Slots : cache'[t] # Empty /\ ~cache'[t].pending => cache'[t] = cache[t]
      BY <2>4
    <2>6. \A v \in Workers : worker'[v] = worker[v] \/ worker'[v].pc \in {"idle", "journal"}
      BY <1>5 DEF CacheBegin, Goto, Idle, At, TypeOK
    <2>7. UNCHANGED <<ring, entries>>
      BY <1>5 DEF CacheBegin
    <2> QED BY <2>3, <2>5, <2>6, <2>7
  <1>6. ASSUME NEW w \in Workers, Reply(w) PROVE Answered'
    <2> DEFINE p == worker[w].pkt
    <2>1. p \in Packets /\ SlotOf[p] \in Slots /\ EventOf[p] \in Settled
      BY <1>6, WorkerType DEF Reply
    <2>2. \A t \in Slots : cache'[t] = cache[t] \/ cache'[t] = Empty \/ cache'[t] = Completed(p, p)
      BY <1>6, <2>1 DEF Reply, Complete, TypeOK
    <2>3. \A t \in Slots : cache'[t] # Empty /\ ~cache'[t].pending
                            => cache'[t].reply = cache'[t].fp /\ EventOf[cache'[t].fp] \in Settled
      BY <2>1, <2>2 DEF Completed
    <2>4. \A v \in Workers : worker'[v] = worker[v] \/ worker'[v].pc = "idle"
      BY <1>6 DEF Reply, Goto, Idle, TypeOK
    <2>5. UNCHANGED <<ring, entries>> /\ sent' = [to |-> p, for |-> p]
      BY <1>6 DEF Reply
    <2> QED BY <2>1, <2>3, <2>4, <2>5
  <1>7. ASSUME NEW w \in Workers, Discard(w) PROVE Answered'
    <2>1. \A t \in Slots : cache'[t] = cache[t] \/ cache'[t] = Empty
      BY <1>7 DEF Discard, Abandoned, TypeOK
    <2>2. \A v \in Workers : worker'[v] = worker[v] \/ worker'[v].pc = "idle"
      BY <1>7 DEF Discard, Goto, Idle, TypeOK
    <2>3. UNCHANGED <<ring, entries, sent>>
      BY <1>7 DEF Discard
    <2> QED BY <2>1, <2>2, <2>3
  <1>8. ASSUME NEW w \in Workers, JournalBegin(w) PROVE Answered'
    <2>1. \A v \in Workers : \/ worker'[v] = worker[v]
                             \/ worker'[v].pc \in {"waiting", "sink"}
                             \/ /\ worker'[v].pkt = worker[w].pkt
                                /\ EventOf[worker[w].pkt] \in entries
      BY <1>8 DEF JournalBegin, Goto, At, TypeOK
    <2>2. UNCHANGED <<ring, entries, sent, cache>>
      BY <1>8 DEF JournalBegin
    <2> QED BY <2>1, <2>2
  <1>9. ASSUME NEW w \in Workers, GiveUp(w) PROVE Answered'
    BY <1>9 DEF GiveUp, Goto, At, TypeOK
  <1>10. ASSUME NEW w \in Workers, Sink(w) PROVE Answered'
    <2>1. ring \subseteq ring'
      BY <1>10, SinkMoves
    <2> QED BY <1>10, <2>1, SinkMoves
  <1>11. ASSUME NEW w \in Workers, Finish(w) PROVE Answered'
    <2> DEFINE p == worker[w].pkt
    <2>1. worker[w].accepted => EventOf[p] \in Settled
      BY <1>11, FinishMoves
    <2>2. entries' \subseteq Settled
      BY <1>11, <2>1, FinishMoves DEF Committed
    <2>3. \A v \in Workers : v # w => worker'[v] = worker[v] \/ worker'[v].pc = "journal"
      BY <1>11, FinishMoves
    <2>4. UNCHANGED <<ring, sent, cache>>
      BY <1>11, FinishMoves
    <2>5. worker'[w].pkt = p /\ (worker'[w].pc = "reply" => worker[w].accepted) /\ worker'[w].pc # "finish"
      BY <1>11, FinishMoves
    <2> QED BY <2>1, <2>2, <2>3, <2>4, <2>5
  <1>12. ASSUME NEW s \in Slots, CacheExpire(s) PROVE Answered'
    <2>1. \A t \in Slots : cache'[t] = cache[t] \/ cache'[t] = Empty
      BY <1>12 DEF CacheExpire, TypeOK
    <2>2. UNCHANGED <<ring, entries, sent, worker>>
      BY <1>12 DEF CacheExpire
    <2> QED BY <2>1, <2>2
  <1>13. ASSUME NEW e \in Events, JournalExpire(e) PROVE Answered'
    BY <1>13 DEF JournalExpire
  <1>14. CASE UNCHANGED vars
    BY <1>14 DEF vars
  <1> QED BY StepCases, <1>1, <1>2, <1>3, <1>4, <1>5, <1>6, <1>7, <1>8, <1>9,
             <1>10, <1>11, <1>12, <1>13, <1>14

LEMMA SlotType ==
  ASSUME TypeOK, NEW s \in Slots
  PROVE  cache[s] = Empty \/ (cache[s] \in Slot /\ cache[s].fp \in Packets)
  BY DEF TypeOK, Slot

LEMMA KeyedPreserved ==
  ASSUME TypeOK, Keyed, [Next]_vars
  PROVE  Keyed'
  <1> USE AccountingAssumption
  <1>0. ASSUME \A t \in Slots : \/ cache'[t] = cache[t]
                                \/ cache'[t] = Empty
                                \/ SlotOf[cache'[t].fp] = t
        PROVE Keyed'
    BY <1>0 DEF Keyed
  <1>1. ASSUME NEW w \in Workers, CacheBegin(w) PROVE Keyed'
    BY <1>0, <1>1, WorkerType DEF CacheBegin, Pending, TypeOK
  <1>2. ASSUME NEW w \in Workers, Reply(w) PROVE Keyed'
    BY <1>0, <1>2, WorkerType DEF Reply, Complete, Completed, TypeOK
  <1>3. ASSUME NEW w \in Workers, Discard(w) PROVE Keyed'
    BY <1>0, <1>3 DEF Discard, Abandoned, TypeOK
  <1>4. ASSUME NEW s \in Slots, CacheExpire(s) PROVE Keyed'
    BY <1>0, <1>4 DEF CacheExpire, TypeOK
  <1>5. CASE UNCHANGED cache
    BY <1>5 DEF Keyed
  <1> QED BY StepCases, <1>1, <1>2, <1>3, <1>4, <1>5
          DEF Receive, Close, Dequeue, Refuse, JournalBegin, GiveUp, Sink, Finish,
              JournalExpire, vars

(* A worker leaves a packet only by freeing or completing the slot that is *)
(* reserved for it.                                                        *)
LEMMA PendingPreserved ==
  ASSUME TypeOK, Keyed, PendingSlotHasWorker, [Next]_vars
  PROVE  PendingSlotHasWorker'
  <1> USE AccountingAssumption
  <1> DEFINE Busy(v, p) == worker[v].pkt = p /\ worker[v].pc \notin {"idle", "cache"}
  (* It is enough that the busy workers stay busy, except one that frees   *)
  (* the slot of its packet.                                               *)
  <1>0. ASSUME \A t \in Slots : cache'[t].pending
                 => \/ /\ cache[t] = cache'[t]
                       /\ \A v \in Workers : Busy(v, cache[t].fp) => Busy(v, cache[t].fp)'
                    \/ \E v \in Workers : worker'[v].pkt = cache'[t].fp
                                           /\ worker'[v].pc \notin {"idle", "cache"}
        PROVE PendingSlotHasWorker'
    BY <1>0 DEF PendingSlotHasWorker
  <1>1. ASSUME NEW p \in Packets, Receive(p) PROVE PendingSlotHasWorker'
    BY <1>1 DEF Receive, PendingSlotHasWorker
  <1>2. CASE Close
    BY <1>2 DEF Close, PendingSlotHasWorker
  <1>3. ASSUME NEW w \in Workers, Dequeue(w) PROVE PendingSlotHasWorker'
    <2>1. \A v \in Workers : worker'[v] = worker[v] \/ worker[v].pc = "idle"
      BY <1>3 DEF Dequeue, Goto, TypeOK, Idle
    <2> QED BY <1>0, <1>3, <2>1 DEF Dequeue
  <1>4. ASSUME NEW w \in Workers, Refuse(w) PROVE PendingSlotHasWorker'
    <2>1. \A v \in Workers : worker'[v] = worker[v] \/ worker[v].pc = "cache"
      BY <1>4 DEF Refuse, Goto, TypeOK
    <2> QED BY <1>0, <1>4, <2>1 DEF Refuse
  <1>5. ASSUME NEW w \in Workers, CacheBegin(w) PROVE PendingSlotHasWorker'
    <2>1. \A v \in Workers : worker'[v] = worker[v] \/ worker[v].pc = "cache"
      BY <1>5 DEF CacheBegin, Goto, TypeOK
    <2>2. \A t \in Slots : \/ cache'[t] = cache[t]
                           \/ cache'[t] = Empty
                           \/ /\ cache'[t] = Pending(worker[w].pkt)
                              /\ worker'[w] = At("journal", worker[w].pkt)
      BY <1>5 DEF CacheBegin, Goto, TypeOK
    <2> QED BY <1>0, <2>1, <2>2 DEF Empty, Pending, At
  <1>6. ASSUME NEW w \in Workers, Reply(w) PROVE PendingSlotHasWorker'
    <2> DEFINE p == worker[w].pkt
    <2>1. \A v \in Workers : worker'[v] = worker[v] \/ v = w
      BY <1>6 DEF Reply, Goto, TypeOK
    <2>2. p \in Packets
      BY <1>6, WorkerType DEF Reply
    <2>3. \A t \in Slots : cache'[t].pending => cache'[t] = cache[t] /\ cache[t].fp # p
      BY <1>6, <2>2, SlotType DEF Reply, Complete, Completed, Empty, Keyed, TypeOK
    <2> QED BY <1>0, <2>1, <2>3
  <1>7. ASSUME NEW w \in Workers, Discard(w) PROVE PendingSlotHasWorker'
    <2> DEFINE p == worker[w].pkt
    <2>1. \A v \in Workers : worker'[v] = worker[v] \/ v = w
      BY <1>7 DEF Discard, Goto, TypeOK
    <2>2. p \in Packets
      BY <1>7, WorkerType DEF Discard
    <2>3. \A t \in Slots : cache'[t].pending => cache'[t] = cache[t] /\ cache[t].fp # p
      BY <1>7, <2>2, SlotType DEF Discard, Abandoned, Empty, Keyed, TypeOK
    <2> QED BY <1>0, <2>1, <2>3
  <1>8. ASSUME NEW w \in Workers, JournalBegin(w) PROVE PendingSlotHasWorker'
    <2>1. \A v \in Workers : \/ worker'[v] = worker[v]
                             \/ /\ worker'[v].pkt = worker[v].pkt
                                /\ worker'[v].pc \in {"reply", "waiting", "sink"}
      BY <1>8 DEF JournalBegin, Goto, TypeOK, At
    <2> QED BY <1>0, <1>8, <2>1 DEF JournalBegin
  <1>9. ASSUME NEW w \in Workers, GiveUp(w) PROVE PendingSlotHasWorker'
    <2>1. \A v \in Workers : \/ worker'[v] = worker[v]
                             \/ /\ worker'[v].pkt = worker[v].pkt
                                /\ worker'[v].pc = "discard"
      BY <1>9 DEF GiveUp, Goto, TypeOK, At
    <2> QED BY <1>0, <1>9, <2>1 DEF GiveUp
  <1>10. ASSUME NEW w \in Workers, Sink(w) PROVE PendingSlotHasWorker'
    <2>1. \A v \in Workers : \/ worker'[v] = worker[v]
                             \/ /\ worker'[v].pkt = worker[v].pkt
                                /\ worker'[v].pc = "finish"
      BY <1>10, SinkMoves
    <2>2. UNCHANGED cache
      BY <1>10, SinkMoves
    <2> QED BY <1>0, <2>1, <2>2
  <1>11. ASSUME NEW w \in Workers, Finish(w) PROVE PendingSlotHasWorker'
    <2>1. \A v \in Workers : \/ worker'[v] = worker[v]
                             \/ /\ worker'[v].pkt = worker[v].pkt
                                /\ worker'[v].pc \in {"journal", "reply", "discard"}
      BY <1>11, FinishMoves
    <2>2. UNCHANGED cache
      BY <1>11, FinishMoves
    <2> QED BY <1>0, <2>1, <2>2
  <1>12. ASSUME NEW s \in Slots, CacheExpire(s) PROVE PendingSlotHasWorker'
    <2>1. \A t \in Slots : cache'[t] = cache[t] \/ cache'[t] = Empty
      BY <1>12 DEF CacheExpire, TypeOK
    <2> QED BY <1>0, <1>12, <2>1 DEF CacheExpire, Empty
  <1>13. ASSUME NEW e \in Events, JournalExpire(e) PROVE PendingSlotHasWorker'
    BY <1>13 DEF JournalExpire, PendingSlotHasWorker
  <1>14. CASE UNCHANGED vars
    BY <1>14 DEF vars, PendingSlotHasWorker
  <1> QED BY StepCases, <1>1, <1>2, <1>3, <1>4, <1>5, <1>6, <1>7, <1>8, <1>9,
             <1>10, <1>11, <1>12, <1>13, <1>14

-----------------------------------------------------------------------------
(* A worker that neither owns nor comes to own or await an event does not  *)
(* disturb the journal.                                                    *)
LEMMA QuietKeepsJournal ==
  ASSUME Journalled, UNCHANGED <<reserved, entries, known>>,
         \A v \in Workers : \/ worker'[v] = worker[v]
                            \/ /\ worker[v].pc \notin {"sink", "finish"}
                               /\ worker'[v].pc \notin {"sink", "finish", "waiting"}
  PROVE  Journalled'
  <1>1. \A v \in Workers, e \in Events \cup known \cup reserved : Owns(v, e)' <=> Owns(v, e)
    BY DEF Owns
  <1>2. \A v \in Workers, e \in Events \cup known \cup reserved : Owns(v, e) => worker'[v] = worker[v]
    BY DEF Owns
  <1>3. \A v \in Workers : worker'[v].pc = "waiting" => worker'[v] = worker[v]
    OBVIOUS
  <1>4. ReservationHasOwner'
    BY <1>1, <1>3 DEF Journalled, ReservationHasOwner
  <1>5. \A e \in known' :
          \/ e \in entries'
          \/ \E w \in Workers : Owns(w, e)' /\ worker'[w].pc = "finish" /\ worker'[w].accepted
    BY <1>1, <1>2 DEF Journalled
  <1> QED BY <1>4, <1>5 DEF Journalled

(* A worker that owns an event has one of Events.                          *)
LEMMA OwnsEvent ==
  ASSUME TypeOK, NEW w \in Workers, NEW e, Owns(w, e)
  PROVE  e \in Events
  BY WorkerType DEF Owns

LEMMA JournalledPreserved ==
  ASSUME TypeOK, Journalled, [Next]_vars
  PROVE  Journalled'
  <1> USE AccountingAssumption
  <1>1. ASSUME NEW p \in Packets, Receive(p) PROVE Journalled'
    BY <1>1, QuietKeepsJournal DEF Receive
  <1>2. CASE Close
    BY <1>2, QuietKeepsJournal DEF Close
  <1>3. ASSUME NEW w \in Workers, Dequeue(w) PROVE Journalled'
    <2>1. \A v \in Workers : worker'[v] = worker[v]
                             \/ (worker[v].pc = "idle" /\ worker'[v].pc = "cache")
      BY <1>3 DEF Dequeue, Goto, At, Idle, TypeOK
    <2> QED BY <1>3, <2>1, QuietKeepsJournal DEF Dequeue
  <1>4. ASSUME NEW w \in Workers, Refuse(w) PROVE Journalled'
    <2>1. \A v \in Workers : worker'[v] = worker[v]
                             \/ (worker[v].pc = "cache" /\ worker'[v].pc = "idle")
      BY <1>4 DEF Refuse, Goto, Idle, TypeOK
    <2> QED BY <1>4, <2>1, QuietKeepsJournal DEF Refuse
  <1>5. ASSUME NEW w \in Workers, CacheBegin(w) PROVE Journalled'
    <2>1. \A v \in Workers : worker'[v] = worker[v]
                             \/ (worker[v].pc = "cache" /\ worker'[v].pc \in {"idle", "journal"})
      BY <1>5 DEF CacheBegin, Goto, At, Idle, TypeOK
    <2> QED BY <1>5, <2>1, QuietKeepsJournal DEF CacheBegin
  <1>6. ASSUME NEW w \in Workers, Reply(w) PROVE Journalled'
    <2>1. \A v \in Workers : worker'[v] = worker[v]
                             \/ (worker[v].pc = "reply" /\ worker'[v].pc = "idle")
      BY <1>6 DEF Reply, Goto, Idle, TypeOK
    <2> QED BY <1>6, <2>1, QuietKeepsJournal DEF Reply
  <1>7. ASSUME NEW w \in Workers, Discard(w) PROVE Journalled'
    <2>1. \A v \in Workers : worker'[v] = worker[v]
                             \/ (worker[v].pc = "discard" /\ worker'[v].pc = "idle")
      BY <1>7 DEF Discard, Goto, Idle, TypeOK
    <2> QED BY <1>7, <2>1, QuietKeepsJournal DEF Discard
  <1>8. ASSUME NEW w \in Workers, JournalBegin(w) PROVE Journalled'
    <2> DEFINE p == worker[w].pkt
               e == EventOf[p]
    <2>1. \A v \in Workers : v # w => worker'[v] = worker[v]
      BY <1>8 DEF JournalBegin, Goto, TypeOK
    <2>2. worker[w].pc = "journal" /\ UNCHANGED <<entries, known>>
      BY <1>8 DEF JournalBegin
    <2>3. CASE worker'[w] = At("reply", p) /\ UNCHANGED reserved
      <3>1. worker'[w].pc = "reply"
        BY <2>3 DEF At
      <3> QED BY <2>1, <2>2, <2>3, <3>1, QuietKeepsJournal
    <2>4. CASE e \in reserved /\ worker'[w] = At("waiting", p) /\ UNCHANGED reserved
      <3>1. worker'[w].pc = "waiting" /\ worker'[w].pkt = p
        BY <2>4 DEF At
      <3>2. \A v \in Workers, f \in Events \cup known \cup reserved : Owns(v, f)' <=> Owns(v, f)
        BY <2>1, <2>2, <3>1 DEF Owns
      <3>3. \A v \in Workers, f \in Events \cup known \cup reserved : Owns(v, f) => worker'[v] = worker[v]
        BY <2>1, <2>2 DEF Owns
      <3>4. ReservationHasOwner'
        BY <2>1, <2>2, <2>4, <3>1, <3>2 DEF Journalled, ReservationHasOwner
      <3>5. \A f \in known' :
              \/ f \in entries'
              \/ \E v \in Workers : Owns(v, f)' /\ worker'[v].pc = "finish" /\ worker'[v].accepted
        BY <2>2, <3>2, <3>3 DEF Journalled
      <3> QED BY <2>2, <2>4, <3>4, <3>5 DEF Journalled
    <2>5. CASE worker'[w] = [At("sink", p) EXCEPT !.sat = TRUE] /\ UNCHANGED reserved
      <3>1. worker'[w].pc = "sink" /\ worker'[w].sat
        BY <2>5 DEF At
      <3>2. \A v \in Workers, f \in Events \cup known \cup reserved : Owns(v, f)' <=> Owns(v, f)
        BY <2>1, <2>2, <3>1 DEF Owns
      <3>3. \A v \in Workers, f \in Events \cup known \cup reserved : Owns(v, f) => worker'[v] = worker[v]
        BY <2>1, <2>2 DEF Owns
      <3>4. ReservationHasOwner'
        BY <2>1, <2>2, <2>5, <3>1, <3>2 DEF Journalled, ReservationHasOwner
      <3>5. \A f \in known' :
              \/ f \in entries'
              \/ \E v \in Workers : Owns(v, f)' /\ worker'[v].pc = "finish" /\ worker'[v].accepted
        BY <2>2, <3>2, <3>3 DEF Journalled
      <3> QED BY <2>2, <2>5, <3>4, <3>5 DEF Journalled
    <2>6. CASE /\ e \notin entries \cup reserved
               /\ reserved' = reserved \cup {e} /\ worker'[w] = At("sink", p)
      <3>1. worker'[w].pc = "sink" /\ ~worker'[w].sat /\ worker'[w].pkt = p
        BY <2>6 DEF At
      <3>2. \A v \in Workers : \A f : Owns(v, f)' <=> (Owns(v, f) \/ (v = w /\ f = e))
        BY <2>1, <2>2, <3>1 DEF Owns
      <3>3. \A v \in Workers : \A f : Owns(v, f) => worker'[v] = worker[v]
        BY <2>1, <2>2 DEF Owns
      <3>4. \A v \in Workers : ~Owns(v, e)
        BY <2>6, OwnsEvent DEF Journalled, ReservationHasOwner
      <3>5. ReservationHasOwner'
        BY <2>1, <2>2, <2>6, <3>1, <3>2, <3>4 DEF Journalled, ReservationHasOwner
      <3>6. \A f \in known' :
              \/ f \in entries'
              \/ \E v \in Workers : Owns(v, f)' /\ worker'[v].pc = "finish" /\ worker'[v].accepted
        BY <2>2, <3>2, <3>3 DEF Journalled
      <3> QED BY <2>2, <2>6, <3>5, <3>6 DEF Journalled
    <2>7. worker \in [Workers -> Job \cup {Idle}]
      BY DEF TypeOK
    <2> QED BY <1>8, <2>3, <2>4, <2>5, <2>6, <2>7 DEF JournalBegin, Goto
  <1>9. ASSUME NEW w \in Workers, GiveUp(w) PROVE Journalled'
    <2>1. \A v \in Workers : worker'[v] = worker[v]
                             \/ (worker[v].pc \in {"journal", "waiting", "reply"} /\ worker'[v].pc = "discard")
      BY <1>9 DEF GiveUp, Goto, At, TypeOK
    <2> QED BY <1>9, <2>1, QuietKeepsJournal DEF GiveUp
  <1>10. ASSUME NEW w \in Workers, Sink(w) PROVE Journalled'
    <2> DEFINE e == EventOf[worker[w].pkt]
    <2>1. \A v \in Workers : \A f : Owns(v, f)' <=> Owns(v, f)
      BY <1>10, SinkMoves DEF Owns
    <2>2. UNCHANGED <<reserved, entries>>
      BY <1>10, SinkMoves
    <2>3. ReservationHasOwner'
      BY <1>10, <2>1, <2>2, SinkMoves DEF Journalled, ReservationHasOwner
    <2>4. \A v \in Workers : worker[v].pc = "finish" => worker'[v] = worker[v]
      BY <1>10, SinkMoves
    <2>5. \A f \in known' : f \in known \/ (f = e /\ Owns(w, e) /\ worker'[w].accepted)
      BY <1>10, SinkMoves DEF Owns
    <2>6. worker'[w].pc = "finish"
      BY <1>10, SinkMoves
    <2>7. \A f \in known' :
            \/ f \in entries'
            \/ \E v \in Workers : Owns(v, f)' /\ worker'[v].pc = "finish" /\ worker'[v].accepted
      BY <2>1, <2>2, <2>4, <2>5, <2>6 DEF Journalled
    <2> QED BY <2>2, <2>3, <2>7 DEF Journalled
  <1>11. ASSUME NEW w \in Workers, Finish(w) PROVE Journalled'
    <2> DEFINE e == EventOf[worker[w].pkt]
    <2>1. CASE worker[w].sat
      <3>1. \A v \in Workers : v # w => worker'[v] = worker[v]
        BY <1>11, <2>1, FinishMoves
      <3>2. \A v \in Workers : \A f : Owns(v, f)' <=> Owns(v, f)
        BY <1>11, <2>1, <3>1, FinishMoves DEF Owns
      <3>3. \A v \in Workers : \A f : Owns(v, f) => worker'[v] = worker[v]
        BY <2>1, <3>1 DEF Owns
      <3>4. UNCHANGED <<reserved, entries, known>> /\ worker'[w].pc # "waiting"
        BY <1>11, <2>1, FinishMoves
      <3>5. ReservationHasOwner'
        BY <3>1, <3>2, <3>4 DEF Journalled, ReservationHasOwner
      <3>6. \A f \in known' :
              \/ f \in entries'
              \/ \E v \in Workers : Owns(v, f)' /\ worker'[v].pc = "finish" /\ worker'[v].accepted
        BY <3>2, <3>3, <3>4 DEF Journalled
      <3> QED BY <3>4, <3>5, <3>6 DEF Journalled
    <2>2. CASE ~worker[w].sat
      <3>1. Owns(w, e) /\ e \in Events
        BY <1>11, <2>2, FinishMoves, OwnsEvent DEF Owns
      <3>2. \A v \in Workers : \A f : Owns(v, f)' <=> (Owns(v, f) /\ v # w)
        BY <1>11, FinishMoves DEF Owns
      <3>3. \A v \in Workers : \A f : Owns(v, f) /\ v # w => worker'[v] = worker[v]
        BY <1>11, FinishMoves DEF Owns
      <3>4. \A v \in Workers : Owns(v, e) => v = w
        BY <3>1 DEF Journalled, ReservationHasOwner
      <3>5. \A f : Owns(w, f) => f = e
        BY DEF Owns
      <3>6. reserved' = reserved \ {e} /\ entries' = Committed(w, e) /\ known' = known
        BY <1>11, <2>2, FinishMoves
      <3>7. \A v \in Workers : worker'[v].pc = "waiting"
                              => /\ worker'[v] = worker[v] /\ v # w
                                 /\ EventOf[worker[v].pkt] # e
        BY <1>11, <2>2, FinishMoves
      <3>8. ReservationHasOwner'
        <4>1. \A f \in reserved' : \E v \in Workers : Owns(v, f)'
          BY <3>2, <3>5, <3>6 DEF Journalled, ReservationHasOwner
        <4>2. \A f \in Events, u, v \in Workers : Owns(u, f)' /\ Owns(v, f)' => u = v
          BY <3>2 DEF Journalled, ReservationHasOwner
        <4>3. \A v \in Workers, f \in Events : Owns(v, f)' => f \in reserved'
          BY <3>2, <3>4, <3>6 DEF Journalled, ReservationHasOwner
        <4>4. \A v \in Workers : worker'[v].pc = "waiting" => EventOf[worker'[v].pkt] \in reserved'
          BY <3>6, <3>7 DEF Journalled, ReservationHasOwner
        <4> QED BY <4>1, <4>2, <4>3, <4>4 DEF ReservationHasOwner
      <3>9. entries' \cap reserved' = {}
        BY <3>6 DEF Journalled, Committed
      <3>10. \A f \in known' :
               \/ f \in entries'
               \/ \E v \in Workers : Owns(v, f)' /\ worker'[v].pc = "finish" /\ worker'[v].accepted
        <4> SUFFICES ASSUME NEW f \in known, f \notin entries'
                     PROVE  \E v \in Workers : Owns(v, f)' /\ worker'[v].pc = "finish" /\ worker'[v].accepted
          BY <3>6
        <4>1. f \notin entries
          BY <3>6 DEF Committed
        <4>2. PICK v \in Workers : Owns(v, f) /\ worker[v].pc = "finish" /\ worker[v].accepted
          BY <4>1 DEF Journalled
        <4>3. v # w
          BY <3>5, <3>6, <4>2 DEF Committed
        <4> QED BY <3>2, <3>3, <4>2, <4>3
      <3> QED BY <3>8, <3>9, <3>10 DEF Journalled
    <2> QED BY <2>1, <2>2
  <1>12. ASSUME NEW s \in Slots, CacheExpire(s) PROVE Journalled'
    BY <1>12, QuietKeepsJournal DEF CacheExpire
  <1>13. ASSUME NEW e \in Events, JournalExpire(e) PROVE Journalled'
    BY <1>13 DEF JournalExpire, Journalled, ReservationHasOwner, Owns
  <1>14. CASE UNCHANGED vars
    BY <1>14, QuietKeepsJournal DEF vars
  <1> QED BY StepCases, <1>1, <1>2, <1>3, <1>4, <1>5, <1>6, <1>7, <1>8, <1>9,
             <1>10, <1>11, <1>12, <1>13, <1>14

-----------------------------------------------------------------------------
(* The listener starts with nothing queued, cached, reserved or sent.      *)
LEMMA InitEstablishes == Init => IndInv
  <1> SUFFICES ASSUME Init PROVE IndInv
    OBVIOUS
  <1> USE AccountingAssumption
  <1>1. Occupied(cache) = 0
    <2>1. {s \in Slots : cache[s] # Empty} = {}
      BY DEF Init
    <2> QED BY <2>1, FS_EmptySet DEF Occupied
  <1>2. TypeOK
    BY <1>1 DEF Init, TypeOK
  <1>3. Keyed /\ PendingSlotHasWorker
    BY DEF Init, Keyed, PendingSlotHasWorker, Empty
  <1>4. Answered
    BY DEF Init, Answered, AnsweredIsRecorded, ReplyAnswersRequest, Settled, Idle
  <1>5. Journalled
    BY DEF Init, Journalled, ReservationHasOwner, Owns, Idle
  <1> QED BY <1>2, <1>3, <1>4, <1>5 DEF IndInv

(* The inductive invariant of the accounting path.                         *)
THEOREM Inductive == Spec => []IndInv
  <1>1. Init => IndInv
    BY InitEstablishes
  <1>2. IndInv /\ [Next]_vars => IndInv'
    BY TypePreserved, KeyedPreserved, AnsweredPreserved, PendingPreserved,
       JournalledPreserved DEF IndInv
  <1> QED BY <1>1, <1>2, PTL DEF Spec

(* Types and bounds: the receive queue and the retransmission cache never  *)
(* exceed their configured capacity, whatever arrives.                     *)
THEOREM TypeCorrect == Spec => []TypeOK
  <1>1. IndInv => TypeOK
    BY DEF IndInv
  <1> QED BY <1>1, Inductive, PTL

(* SUCCESS only after the ring took the record, whoever answers.           *)
THEOREM SuccessIsRecorded == Spec => []AnsweredIsRecorded
  <1>1. IndInv => AnsweredIsRecorded
    BY DEF IndInv, Answered
  <1> QED BY <1>1, Inductive, PTL

(* A reply is sent only to the exact request it was made for.              *)
THEOREM RepliesMatch == Spec => []ReplyAnswersRequest
  <1>1. IndInv => ReplyAnswersRequest
    BY DEF IndInv, Answered
  <1> QED BY <1>1, Inductive, PTL

(* No cache slot is left reserved by a worker that has gone.               *)
THEOREM NoStuckSlot == Spec => []PendingSlotHasWorker
  <1>1. IndInv => PendingSlotHasWorker
    BY DEF IndInv
  <1> QED BY <1>1, Inductive, PTL

(* Every reservation of the journal has its one owner.                     *)
THEOREM ReservationsOwned == Spec => []ReservationHasOwner
  <1>1. IndInv => ReservationHasOwner
    BY DEF IndInv, Journalled
  <1> QED BY <1>1, Inductive, PTL

(* Within one journal life an event is recorded at most once under a       *)
(* reservation: were it known, it would be in the journal, where nothing   *)
(* reserved is, or have a second owner.                                    *)
THEOREM AtMostOneRecord == Spec => []RecordedOnce
  <1>1. IndInv => RecordedOnce
    <2> SUFFICES ASSUME IndInv, NEW w \in Workers, worker[w].pc = "sink", ~worker[w].sat,
                        EventOf[worker[w].pkt] \in known
                 PROVE  FALSE
      BY DEF RecordedOnce
    <2> DEFINE e == EventOf[worker[w].pkt]
    <2>1. Owns(w, e) /\ e \in Events
      BY OwnsEvent DEF Owns, IndInv
    <2>2. e \in reserved /\ e \notin entries
      BY <2>1 DEF IndInv, Journalled, ReservationHasOwner
    <2>3. PICK v \in Workers : Owns(v, e) /\ worker[v].pc = "finish"
      BY <2>2 DEF IndInv, Journalled
    <2>4. v = w
      BY <2>1, <2>3 DEF IndInv, Journalled, ReservationHasOwner
    <2> QED BY <2>3, <2>4
  <1> QED BY <1>1, Inductive, PTL

=============================================================================
