-------------------------- MODULE TacacsConnProofs --------------------------
(***************************************************************************)
(* Proofs about TacacsConn, for every set of session ids and every limit.   *)
(*                                                                          *)
(* A step of a session's goroutine changes its own object, removes at most  *)
(* its own entry from the map and touches only the conversation of its id.  *)
(* GoroutineStep shows once that such a step keeps the invariant, and each  *)
(* action is then shown to be one.  The steps of the read loop are shown    *)
(* one by one.                                                              *)
(***************************************************************************)
EXTENDS TacacsConn, FiniteSetTheorems, TLAPS

Interactive == {"begin", "begun", "continue", "verify", "prompt"}

(* Objects and their records: who has been created has an id, only         *)
(* authentication sessions converse, and others handle one packet.         *)
Recorded ==
  \A i \in Objects :
    /\ ses[i].pc # "unused" => ses[i].id \in Ids
    /\ ses[i].pc \in {"unmap", "endaaa", "gone"} => ses[i].stopped
    /\ ses[i].pc \in Interactive => ses[i].typ = "authen"
    /\ ses[i].pc = "wait" /\ ses[i].typ # "authen" => ses[i].rounds = 0

(* The map leads to sessions that have not ended, under their own id, and  *)
(* a goroutine past its removal is not in the map.                         *)
Linked ==
  /\ \A id \in Ids : sessions[id] # None =>
       Alive(sessions[id]) /\ ses[sessions[id]].id = id
  /\ \A i \in Objects : ses[i].pc = "endaaa" => sessions[ses[i].id] # i

(* The read loop works on sessions that exist, and drops stopped ones.     *)
ReaderSound ==
  /\ reader.pc \in {"offer", "unmap", "endaaa"} =>
       reader.on \in Objects /\ ses[reader.on].pc # "unused"
  /\ reader.pc \in {"unmap", "endaaa"} => ses[reader.on].stopped

(* Before the first packet nothing has happened.                           *)
FirstIsFirst == first => sc = "none" /\ \A i \in Objects : ses[i].pc = "unused"

IndInv ==
  /\ ConnTypeOK
  /\ Recorded
  /\ Linked
  /\ ReaderSound
  /\ FirstIsFirst
  /\ NegotiationGuardsSessions
  /\ RunningIsMapped
  /\ NoOrphanConversation

-----------------------------------------------------------------------------
(* Cardinality of the session map.                                         *)

(* Removing an entry does not make the map larger.                         *)
LEMMA DeletedFacts ==
  ASSUME ConnTypeOK, NEW i \in Objects, ses[i].id \in Ids,
         sessions' = Deleted(i)
  PROVE  /\ sessions' \in [Ids -> Objects \cup {None}]
         /\ sessionCount' <= MaxSessions
         /\ \A id \in Ids : sessions'[id] = None \/ sessions'[id] = sessions[id]
         /\ sessions'[ses[i].id] # i
         /\ \A id \in Ids : sessions[id] # i => sessions'[id] = sessions[id]
         /\ \A id \in Ids : sessions'[id] # sessions[id] => id = ses[i].id
  <1>1. sessions \in [Ids -> Objects \cup {None}] /\ None \notin Objects
    BY ConnAssumption DEF ConnTypeOK, Objects
  <1>2. /\ sessions' \in [Ids -> Objects \cup {None}]
        /\ \A id \in Ids : sessions'[id] = None \/ sessions'[id] = sessions[id]
        /\ sessions'[ses[i].id] # i
        /\ \A id \in Ids : sessions[id] # i => sessions'[id] = sessions[id]
        /\ \A id \in Ids : sessions'[id] # sessions[id] => id = ses[i].id
    BY <1>1 DEF Deleted
  <1>3. Mapped' \subseteq Mapped /\ Mapped \subseteq Ids
    BY <1>2 DEF Mapped
  <1>4. IsFiniteSet(Mapped)
    BY <1>3, ConnAssumption, FS_Subset
  <1>5. Cardinality(Mapped') <= Cardinality(Mapped) /\ IsFiniteSet(Mapped')
    BY <1>3, <1>4, FS_Subset
  <1>6. Cardinality(Mapped) \in Nat /\ Cardinality(Mapped') \in Nat
    BY <1>4, <1>5, FS_CardinalityType
  <1> QED BY <1>2, <1>5, <1>6, ConnAssumption DEF ConnTypeOK, sessionCount

(* An entry for a free id adds one.                                        *)
LEMMA AddedFacts ==
  ASSUME ConnTypeOK, NEW i \in Objects, NEW id \in Ids, sessions[id] = None,
         sessions' = [sessions EXCEPT ![id] = i],
         sessionCount < MaxSessions
  PROVE  sessionCount' <= MaxSessions
  <1>1. sessions \in [Ids -> Objects \cup {None}] /\ None \notin Objects
    BY ConnAssumption DEF ConnTypeOK, Objects
  <1>2. Mapped' = Mapped \cup {id} /\ id \notin Mapped /\ Mapped \subseteq Ids
    BY <1>1 DEF Mapped
  <1>3. IsFiniteSet(Mapped)
    BY <1>2, ConnAssumption, FS_Subset
  <1>4. Cardinality(Mapped') = Cardinality(Mapped) + 1 /\ Cardinality(Mapped) \in Nat
    BY <1>2, <1>3, FS_AddElement, FS_CardinalityType
  <1> QED BY <1>4, ConnAssumption DEF sessionCount

-----------------------------------------------------------------------------
(* The records the code makes.                                             *)

(* newSession makes an idle session with its id, and a gone one is stopped.*)
LEMMA MadeSessions ==
  ASSUME NEW id \in Ids, NEW typ \in Types
  PROVE  /\ Unused \in Session /\ Unused.pc = "unused" /\ Unused.rounds = 0
         /\ Gone(id) \in Session
         /\ Gone(id).pc = "gone" /\ Gone(id).stopped /\ Gone(id).id = id
         /\ NewSession(id, typ) \in Session
         /\ NewSession(id, typ).pc = "wait" /\ NewSession(id, typ).rounds = 0
         /\ NewSession(id, typ).id = id /\ NewSession(id, typ).typ = typ
  <1>1. 0 \in 0..(MaxContinues + 1)
    BY ConnAssumption
  <1>2. {"unused", "wait", "gone"} \subseteq PCs /\ "other" \in Types
    BY DEF PCs, Types
  <1>3. Unused \in Session /\ Unused.pc = "unused" /\ Unused.rounds = 0
    BY <1>1, <1>2 DEF Unused, Session
  <1>4. /\ Gone(id) \in Session
        /\ Gone(id).pc = "gone" /\ Gone(id).stopped /\ Gone(id).id = id
    BY <1>2, <1>3 DEF Gone, Session
  <1>5. /\ NewSession(id, typ) \in Session
        /\ NewSession(id, typ).pc = "wait" /\ NewSession(id, typ).rounds = 0
        /\ NewSession(id, typ).id = id /\ NewSession(id, typ).typ = typ
    BY <1>2, <1>3 DEF NewSession, Session
  <1> QED BY <1>3, <1>4, <1>5

-----------------------------------------------------------------------------
(* Steps of goroutines.                                                    *)

(* What the code lets a session's goroutine do to the shared state.        *)
OwnStep(i) ==
  /\ ses' \in [Objects -> Session]
  /\ \A j \in Objects \ {i} : ses'[j] = ses[j]
  /\ ses'[i].id = ses[i].id
  /\ ses'[i].pc # "unused"
  /\ ses[i].stopped => ses'[i].stopped
  /\ ses'[i].pc \in {"unmap", "endaaa", "gone"} => ses'[i].stopped
  /\ ses'[i].pc \in Interactive => ses'[i].typ = "authen"
  /\ ses'[i].pc = "wait" /\ ses'[i].typ # "authen" => ses'[i].rounds = 0
  /\ ses'[i].pc = "gone" => ses[i].pc = "endaaa" /\ convs'[ses[i].id] = None
  /\ ses'[i].pc = "endaaa" => ses[i].pc = "unmap" /\ sessions' = Deleted(i)
  /\ ses'[i].pc # "endaaa" => sessions' = sessions
  /\ convs' \in [Ids -> Objects \cup {None}]
  /\ \A id \in Ids \ {ses[i].id} : convs'[id] = convs[id]
  /\ drain' \in BOOLEAN
  /\ UNCHANGED <<open, first, sc, reader>>

(* Any such step of a live goroutine keeps the invariant.                  *)
LEMMA GoroutineStep ==
  ASSUME IndInv, NEW i \in Objects, Alive(i), OwnStep(i)
  PROVE  IndInv'
  <1>0. /\ sessions \in [Ids -> Objects \cup {None}] /\ None \notin Objects
        /\ ses[i].id \in Ids /\ ~first
        /\ ses \in [Objects -> Session]
    BY ConnAssumption DEF IndInv, ConnTypeOK, Objects, Recorded, Alive, FirstIsFirst
  <1>1. /\ sessions' \in [Ids -> Objects \cup {None}]
        /\ sessionCount' <= MaxSessions
        /\ \A id \in Ids : sessions'[id] = None \/ sessions'[id] = sessions[id]
        /\ \A id \in Ids : sessions[id] # i => sessions'[id] = sessions[id]
        /\ ses'[i].pc # "endaaa" => sessions' = sessions
        /\ ses'[i].pc = "endaaa" => sessions'[ses[i].id] # i /\ ses'[i].stopped
    <2>1. CASE ses'[i].pc = "endaaa"
      BY <1>0, <2>1, DeletedFacts DEF IndInv, OwnStep
    <2>2. CASE ses'[i].pc # "endaaa"
      BY <1>0, <2>2 DEF IndInv, OwnStep, ConnTypeOK, sessionCount, Mapped
    <2> QED BY <2>1, <2>2
  <1>2. ConnTypeOK'
    BY <1>0, <1>1 DEF IndInv, ConnTypeOK, OwnStep
  <1>3. Recorded'
    BY <1>0 DEF IndInv, Recorded, OwnStep
  <1>4. \A j \in Objects : Alive(j)' => Alive(j)
    BY DEF Alive, OwnStep
  <1>5. Linked'
    <2>1. ASSUME NEW id \in Ids, sessions'[id] # None
          PROVE  Alive(sessions[id])' /\ sessions'[id] = sessions[id]
                 /\ ses'[sessions[id]].id = id
      <3>1. sessions'[id] = sessions[id] /\ sessions[id] \in Objects
        BY <1>0, <1>1, <2>1
      <3>2. Alive(sessions[id]) /\ ses[sessions[id]].id = id
        BY <2>1, <3>1 DEF IndInv, Linked
      <3>3. CASE sessions[id] # i
        BY <3>1, <3>2, <3>3 DEF OwnStep, Alive
      <3>4. CASE sessions[id] = i
        BY <3>1, <3>2, <3>4 DEF OwnStep, Alive, IndInv, Linked
      <3> QED BY <3>1, <3>3, <3>4
    <2>2. ASSUME NEW j \in Objects, ses'[j].pc = "endaaa"
          PROVE  sessions'[ses'[j].id] # j
      <3>1. CASE j = i
        BY <1>1, <2>2, <3>1 DEF OwnStep
      <3>2. CASE j # i
        <4>1. ses'[j] = ses[j] /\ ses[j].id \in Ids /\ sessions[ses[j].id] # j
          BY <2>2, <3>2 DEF OwnStep, IndInv, Recorded, Linked
        <4> QED BY <1>0, <1>1, <4>1
      <3> QED BY <3>1, <3>2
    <2>3. \A id \in Ids : sessions'[id] # None =>
            Alive(sessions[id])' /\ sessions'[id] = sessions[id] /\ ses'[sessions[id]].id = id
      BY <2>1
    <2> QED BY <2>2, <2>3 DEF Linked, Alive
  <1>6. ReaderSound'
    BY DEF IndInv, ReaderSound, OwnStep
  <1>7. FirstIsFirst'
    BY <1>0 DEF FirstIsFirst, OwnStep
  <1>8. NegotiationGuardsSessions'
    BY <1>4 DEF IndInv, NegotiationGuardsSessions, OwnStep
  <1>9. RunningIsMapped'
    <2>1. ASSUME NEW j \in Objects, Alive(j)', ~ses'[j].stopped
          PROVE  sessions'[ses'[j].id] = j
      <3>1. Alive(j) /\ ses'[j].id = ses[j].id /\ ~ses[j].stopped
        BY <1>4, <2>1 DEF OwnStep
      <3>2. sessions[ses[j].id] = j /\ ses[j].id \in Ids
        BY <3>1 DEF IndInv, RunningIsMapped, Recorded, Alive
      <3>3. CASE j = i
        BY <1>1, <2>1, <3>1, <3>2, <3>3
      <3>4. CASE j # i
        BY <1>1, <3>1, <3>2, <3>4
      <3> QED BY <3>3, <3>4
    <2> QED BY <2>1 DEF RunningIsMapped
  <1>10. NoOrphanConversation'
    <2>1. ASSUME NEW id \in Ids, convs'[id] # None
          PROVE  \E j \in Objects : Alive(j)' /\ ses'[j].id = id
      <3>1. CASE id = ses[i].id
        BY <2>1, <3>1 DEF OwnStep, Alive
      <3>2. CASE id # ses[i].id
        <4>1. PICK j \in Objects : Alive(j) /\ ses[j].id = id
          BY <2>1, <3>2 DEF OwnStep, IndInv, NoOrphanConversation
        <4> QED BY <3>2, <4>1 DEF OwnStep, Alive
      <3> QED BY <3>1, <3>2
    <2> QED BY <2>1 DEF NoOrphanConversation
  <1> QED BY <1>2, <1>3, <1>5, <1>6, <1>7, <1>8, <1>9, <1>10 DEF IndInv

(* Every action of runSession is such a step.                              *)
LEMMA GoroutineInv ==
  ASSUME IndInv, NEW i \in Objects, runSession(i)
  PROVE  IndInv'
  <1> USE DEF At, Goto, Conn
  <1>0. /\ ses \in [Objects -> Session] /\ ses[i] \in Session
        /\ convs \in [Ids -> Objects \cup {None}]
        /\ drain \in BOOLEAN
    BY DEF IndInv, ConnTypeOK
  <1>1. Alive(i) /\ ses[i].id \in Ids
    BY DEF runSession, LeaveWait, Take, Begin, Begun, Continue, Verify, ReplyPrompt,
           ReplyLast, Stop, Unmap, EndAAA, Alive, IndInv, Recorded
  <1>2. CASE LeaveWait(i)
    <2>1. ses' = [ses EXCEPT ![i] = [ses[i] EXCEPT !.pc = "stop"]]
      BY <1>0, <1>2 DEF LeaveWait
    <2>2. OwnStep(i)
      BY <1>0, <1>1, <1>2, <2>1 DEF LeaveWait, OwnStep, Session, PCs, Dropping, Interactive
    <2> QED BY <1>1, <2>2, GoroutineStep
  <1>3. CASE Take(i)
    <2>1. ses[i].pc = "wait" /\ UNCHANGED <<Conn, drain, convs>>
      BY <1>3 DEF Take
    <2>2. CASE ses[i].stopped
      <3>1. ses' = [ses EXCEPT ![i] = [ses[i] EXCEPT !.in = FALSE, !.pc = "stop"]]
        BY <1>0, <1>3, <2>2 DEF Take
      <3>2. OwnStep(i)
        BY <1>0, <1>1, <2>1, <3>1 DEF OwnStep, Session, PCs, Dropping, Interactive
      <3> QED BY <1>1, <3>2, GoroutineStep
    <2>3. CASE ~ses[i].stopped
      <3>1. PICK v \in Verdicts(i) :
              ses' = [ses EXCEPT ![i] = [ses[i] EXCEPT
                        !.in = FALSE, !.pc = v,
                        !.rounds = IF v \in {"final", "begin", "continue"}
                                   THEN ses[i].rounds + 1 ELSE ses[i].rounds]]
        BY <1>0, <1>3, <2>3 DEF Take
      <3>2. /\ v \in {"error", "mismatch", "final", "begin", "continue"}
            /\ v \in {"begin", "continue"} => ses[i].typ = "authen"
            /\ v \in {"final", "begin", "continue"} => ses[i].rounds <= MaxContinues
        BY <2>1, ConnAssumption DEF Verdicts, IndInv, Recorded
      <3>3. /\ ses[i].rounds \in 0..(MaxContinues + 1) /\ MaxContinues \in Nat
            /\ v \in PCs
        BY <1>0, <3>2, ConnAssumption DEF Session, PCs, Busy
      <3>4. ses'[i] \in Session /\ ses' \in [Objects -> Session]
        <4> DEFINE n == IF v \in {"final", "begin", "continue"}
                        THEN ses[i].rounds + 1 ELSE ses[i].rounds
                   r == [ses[i] EXCEPT !.in = FALSE, !.pc = v, !.rounds = n]
        <4>1. n \in 0..(MaxContinues + 1)
          BY <3>2, <3>3
        <4> HIDE DEF n
        <4>2. r \in Session
          BY <1>0, <3>3, <4>1 DEF Session
        <4>3. ses' = [ses EXCEPT ![i] = r]
          BY <3>1 DEF n
        <4> QED BY <1>0, <4>2, <4>3
      <3>5. OwnStep(i)
        BY <1>0, <1>1, <2>1, <3>1, <3>2, <3>4 DEF OwnStep, Interactive, Session
      <3> QED BY <1>1, <3>5, GoroutineStep
    <2> QED BY <2>2, <2>3
  <1>4. CASE Begin(i)
    <2>1. ses[i].pc = "begin" /\ UNCHANGED <<Conn, drain>> /\ ses[i].typ = "authen"
      BY <1>4 DEF Begin, IndInv, Recorded, Interactive
    <2>2. PICK pc \in {"final", "begun"} :
            ses' = [ses EXCEPT ![i] = [ses[i] EXCEPT !.pc = pc]]
      BY <1>0, <1>4 DEF Begin
    <2>3. /\ convs' \in [Ids -> Objects \cup {None}]
          /\ \A id \in Ids \ {ses[i].id} : convs'[id] = convs[id]
      BY <1>0, <1>1, <1>4 DEF Begin, Ended
    <2>4. OwnStep(i)
      BY <1>0, <1>1, <2>1, <2>2, <2>3 DEF OwnStep, Session, PCs, Busy, Interactive
    <2> QED BY <1>1, <2>4, GoroutineStep
  <1>5. CASE Begun(i)
    <2>1. ses[i].pc = "begun" /\ UNCHANGED <<Conn, drain>> /\ ses[i].typ = "authen"
      BY <1>5 DEF Begun, IndInv, Recorded, Interactive
    <2>2. PICK pc \in {"final", "prompt"} :
            ses' = [ses EXCEPT ![i] = [ses[i] EXCEPT !.pc = pc]]
      BY <1>0, <1>5 DEF Begun
    <2>3. /\ convs' \in [Ids -> Objects \cup {None}]
          /\ \A id \in Ids \ {ses[i].id} : convs'[id] = convs[id]
      BY <1>0, <1>1, <1>5 DEF Begun
    <2>4. OwnStep(i)
      BY <1>0, <1>1, <2>1, <2>2, <2>3 DEF OwnStep, Session, PCs, Busy, Interactive
    <2> QED BY <1>1, <2>4, GoroutineStep
  <1>6. CASE Continue(i)
    <2>1. ses[i].pc = "continue" /\ UNCHANGED <<Conn, drain>> /\ ses[i].typ = "authen"
      BY <1>6 DEF Continue, IndInv, Recorded, Interactive
    <2>2. PICK pc \in {"final", "verify"}, c \in Objects \cup {None} :
            ses' = [ses EXCEPT ![i] = [ses[i] EXCEPT !.pc = pc, !.conv = c]]
      <3>1. CASE ses' = [ses EXCEPT
                     ![i].conv = convs[ses[i].id],
                     ![i].pc = IF convs[ses[i].id] = None
                               THEN "final" ELSE "verify"]
        <4>1. CASE convs[ses[i].id] = None
          <5>1. ses' = [ses EXCEPT ![i] = [ses[i] EXCEPT !.pc = "final", !.conv = None]]
            BY <1>0, <3>1, <4>1 DEF Session
          <5> QED BY <5>1
        <4>2. CASE convs[ses[i].id] # None
          <5>1. ses' = [ses EXCEPT ![i] = [ses[i] EXCEPT !.pc = "verify",
                                             !.conv = convs[ses[i].id]]]
            BY <1>0, <3>1, <4>2 DEF Session
          <5> QED BY <1>0, <1>1, <5>1
        <4> QED BY <4>1, <4>2
      <3>2. CASE ses' = [ses EXCEPT ![i].pc = "final"]
        <4>1. ses' = [ses EXCEPT ![i] = [ses[i] EXCEPT !.pc = "final", !.conv = ses[i].conv]]
          BY <1>0, <3>2 DEF Session
        <4> QED BY <1>0, <4>1 DEF Session
      <3> QED BY <1>6, <3>1, <3>2 DEF Continue
    <2>3. /\ convs' \in [Ids -> Objects \cup {None}]
          /\ \A id \in Ids \ {ses[i].id} : convs'[id] = convs[id]
      BY <1>0, <1>1, <1>6 DEF Continue, Ended
    <2>4. OwnStep(i)
      BY <1>0, <1>1, <2>1, <2>2, <2>3 DEF OwnStep, Session, PCs, Busy, Interactive
    <2> QED BY <1>1, <2>4, GoroutineStep
  <1>7. CASE Verify(i)
    <2>1. ses[i].pc = "verify" /\ UNCHANGED <<Conn, drain>> /\ ses[i].typ = "authen"
      BY <1>7 DEF Verify, IndInv, Recorded, Interactive
    <2>2. PICK pc \in {"final", "prompt"} :
            ses' = [ses EXCEPT ![i] = [ses[i] EXCEPT !.pc = pc, !.conv = None]]
      BY <1>0, <1>7 DEF Verify
    <2>3. /\ convs' \in [Ids -> Objects \cup {None}]
          /\ \A id \in Ids \ {ses[i].id} : convs'[id] = convs[id]
      BY <1>0, <1>1, <1>7 DEF Verify, Ended, Session
    <2>4. OwnStep(i)
      BY <1>0, <1>1, <2>1, <2>2, <2>3 DEF OwnStep, Session, PCs, Busy, Interactive
    <2> QED BY <1>1, <2>4, GoroutineStep
  <1>8. CASE ReplyPrompt(i)
    <2>1. ses[i].pc = "prompt" /\ UNCHANGED <<Conn, drain, convs>> /\ ses[i].typ = "authen"
      BY <1>8 DEF ReplyPrompt, IndInv, Recorded, Interactive
    <2>2. PICK pc \in {"wait", "stop"} :
            ses' = [ses EXCEPT ![i] = [ses[i] EXCEPT !.pc = pc]]
      BY <1>0, <1>8 DEF ReplyPrompt
    <2>3. OwnStep(i)
      BY <1>0, <1>1, <2>1, <2>2 DEF OwnStep, Session, PCs, Dropping, Interactive
    <2> QED BY <1>1, <2>3, GoroutineStep
  <1>9. CASE ReplyLast(i)
    <2>1. /\ ses' = [ses EXCEPT ![i] = [ses[i] EXCEPT !.pc = "stop"]]
          /\ UNCHANGED <<Conn, convs>>
      BY <1>0, <1>9 DEF ReplyLast
    <2>2. drain' \in BOOLEAN
      <3>1. drain' = (drain \/ (At(i, "mismatch") /\ ~ses[i].stopped))
        BY <1>9 DEF ReplyLast
      <3> QED BY <3>1, Zenon
    <2>3. OwnStep(i)
      BY <1>0, <1>1, <2>1, <2>2 DEF OwnStep, Session, PCs, Dropping, Interactive
    <2> QED BY <1>1, <2>3, GoroutineStep
  <1>10. CASE Stop(i)
    <2>1. /\ ses' = [ses EXCEPT ![i] = [ses[i] EXCEPT !.stopped = TRUE, !.pc = "unmap"]]
          /\ UNCHANGED <<Conn, drain, convs>>
      BY <1>0, <1>10 DEF Stop
    <2>2. OwnStep(i)
      BY <1>0, <1>1, <2>1 DEF OwnStep, Session, PCs, Dropping, Interactive
    <2> QED BY <1>1, <2>2, GoroutineStep
  <1>11. CASE Unmap(i)
    <2>1. /\ ses' = [ses EXCEPT ![i] = [ses[i] EXCEPT !.pc = "endaaa"]]
          /\ ses[i].pc = "unmap" /\ ses[i].stopped /\ sessions' = Deleted(i)
          /\ UNCHANGED <<open, first, sc, reader, drain, convs>>
      BY <1>0, <1>11 DEF Unmap, IndInv, Recorded
    <2>2. OwnStep(i)
      BY <1>0, <1>1, <2>1 DEF OwnStep, Session, PCs, Dropping, Interactive
    <2> QED BY <1>1, <2>2, GoroutineStep
  <1>12. CASE EndAAA(i)
    <2>1. /\ ses' = [ses EXCEPT ![i] = Gone(ses[i].id)]
          /\ ses[i].pc = "endaaa" /\ convs' = [convs EXCEPT ![ses[i].id] = None]
          /\ UNCHANGED <<Conn, drain>>
      BY <1>12 DEF EndAAA, Ended
    <2>2. /\ Gone(ses[i].id) \in Session /\ Gone(ses[i].id).pc = "gone"
          /\ Gone(ses[i].id).stopped /\ Gone(ses[i].id).id = ses[i].id
      BY <1>1, MadeSessions DEF Types
    <2>3. OwnStep(i)
      BY <1>0, <1>1, <2>1, <2>2 DEF OwnStep, Interactive
    <2> QED BY <1>1, <2>3, GoroutineStep
  <1> QED BY <1>2, <1>3, <1>4, <1>5, <1>6, <1>7, <1>8, <1>9, <1>10, <1>11, <1>12
          DEF runSession

-----------------------------------------------------------------------------
(* Steps of the read loop.                                                 *)

SCs == {"none", "asked", "plain", "yes", "no"}

(* Replies never change a negotiation that is settled.                     *)
LEMMA Replies ==
  ASSUME NEW s \in SCs
  PROVE  /\ Negotiated(s) \in {"yes", "no"}
         /\ s \in {"yes", "no"} => Negotiated(s) = s
  BY DEF SCs, Negotiated

(* A reply after the client's flag was noted disturbs no live session.     *)
LEMMA ReplyKeeps ==
  ASSUME IndInv, \E s \in ClientFlags : ReplyError(s)
  PROVE  /\ sc' \in SCs
         /\ \A i \in Objects : Alive(i) => sc' = sc
  <1>1. PICK s \in ClientFlags : sc' \in {s, Negotiated(s)}
    BY DEF ReplyError
  <1>2. s \in SCs /\ sc \in SCs
    BY DEF ClientFlags, SCs, IndInv, ConnTypeOK
  <1>3. sc' \in SCs
    BY <1>1, <1>2, Replies DEF SCs
  <1>4. ASSUME NEW i \in Objects, Alive(i)
        PROVE  sc' = sc
    <2>1. ~first /\ sc \in {"yes", "no"}
      BY <1>4 DEF IndInv, FirstIsFirst, NegotiationGuardsSessions, Alive
    <2>2. s = sc
      BY <2>1 DEF ClientFlags
    <2> QED BY <1>1, <1>2, <2>1, <2>2, Replies
  <1> QED BY <1>3, <1>4

(* Neither does replyError alone.                                          *)
LEMMA ReplyOnly ==
  ASSUME IndInv, ReplyError(sc)
  PROVE  /\ sc' \in SCs
         /\ \A i \in Objects : Alive(i) => sc' = sc
  <1>1. sc \in SCs /\ sc' \in {sc, Negotiated(sc)}
    BY DEF ReplyError, SCs, IndInv, ConnTypeOK
  <1>2. \A i \in Objects : Alive(i) => sc \in {"yes", "no"}
    BY DEF IndInv, NegotiationGuardsSessions
  <1> QED BY <1>1, <1>2, Replies DEF SCs

(* A step that marks sessions as stopped or fills mailboxes, settles the   *)
(* negotiation, or moves the read loop.                                    *)
MarkStep ==
  /\ ses' \in [Objects -> Session]
  /\ \A j \in Objects :
       /\ ses'[j].id = ses[j].id /\ ses'[j].typ = ses[j].typ
       /\ ses'[j].pc = ses[j].pc /\ ses'[j].rounds = ses[j].rounds
       /\ ses[j].stopped => ses'[j].stopped
  /\ sc' \in SCs
  /\ \A i \in Objects : Alive(i) => sc' = sc
  /\ open' \in BOOLEAN /\ drain' \in BOOLEAN /\ first' \in BOOLEAN
  /\ first' => first /\ sc' = sc
  /\ UNCHANGED <<sessions, convs>>

(* Such a step keeps the invariant where the read loop's place is sound.   *)
LEMMA MarkStepInv ==
  ASSUME IndInv, MarkStep,
         reader' \in [pc : {"read", "check", "offer", "unmap", "endaaa", "done"},
                      on : Objects \cup {None}],
         ReaderSound'
  PROVE  IndInv'
  <1>0. /\ None \notin Objects
        /\ sessions \in [Ids -> Objects \cup {None}]
        /\ \A j \in Objects : Alive(j)' <=> Alive(j)
    BY ConnAssumption DEF Objects, IndInv, ConnTypeOK, MarkStep, Alive
  <1>1. ConnTypeOK'
    BY DEF IndInv, ConnTypeOK, MarkStep, SCs, sessionCount, Mapped
  <1>2. Recorded'
    BY DEF IndInv, Recorded, MarkStep
  <1>3. Linked'
    <2>1. ASSUME NEW id \in Ids, sessions[id] # None
          PROVE  Alive(sessions[id])' /\ ses'[sessions[id]].id = id
      BY <1>0, <2>1 DEF IndInv, Linked, MarkStep, Alive
    <2>2. ASSUME NEW i \in Objects, ses'[i].pc = "endaaa"
          PROVE  sessions[ses'[i].id] # i
      BY <2>2 DEF IndInv, Linked, MarkStep
    <2>3. sessions' = sessions
      BY DEF MarkStep
    <2> QED BY <2>1, <2>2, <2>3 DEF Linked, Alive
  <1>4. FirstIsFirst'
    BY DEF IndInv, FirstIsFirst, MarkStep
  <1>5. NegotiationGuardsSessions'
    BY <1>0 DEF IndInv, NegotiationGuardsSessions, MarkStep
  <1>6. RunningIsMapped'
    BY <1>0 DEF IndInv, RunningIsMapped, MarkStep
  <1>7. NoOrphanConversation'
    BY <1>0 DEF IndInv, NoOrphanConversation, MarkStep
  <1> QED BY <1>1, <1>2, <1>3, <1>4, <1>5, <1>6, <1>7 DEF IndInv

(* Shutdown on the sessions as they are only marks them.                   *)
LEMMA ShutdownMarks ==
  ASSUME IndInv, Shutdown(ses)
  PROVE  /\ ses' \in [Objects -> Session]
         /\ \A j \in Objects :
              /\ ses'[j].id = ses[j].id /\ ses'[j].typ = ses[j].typ
              /\ ses'[j].pc = ses[j].pc /\ ses'[j].rounds = ses[j].rounds
              /\ ses[j].stopped => ses'[j].stopped
         /\ open' = FALSE
         /\ reader' \in [pc : {"read", "check", "offer", "unmap", "endaaa", "done"},
                         on : Objects \cup {None}]
         /\ reader'.pc = "done"
  <1>1. ses \in [Objects -> Session]
    BY DEF IndInv, ConnTypeOK
  <1>2. ses' = [i \in Objects |-> IF i \in MappedObjects
                     THEN [ses[i] EXCEPT !.stopped = TRUE] ELSE ses[i]]
    BY DEF Shutdown, StopAll
  <1>3. \A i \in Objects : [ses[i] EXCEPT !.stopped = TRUE] \in Session
    BY <1>1 DEF Session
  <1>4. ses' \in [Objects -> Session]
    BY <1>1, <1>2, <1>3
  <1>5. \A j \in Objects :
              /\ ses'[j].id = ses[j].id /\ ses'[j].typ = ses[j].typ
              /\ ses'[j].pc = ses[j].pc /\ ses'[j].rounds = ses[j].rounds
              /\ ses[j].stopped => ses'[j].stopped
    BY <1>1, <1>2 DEF Session
  <1>6. reader' = [pc |-> "done", on |-> None] /\ open' = FALSE
    BY DEF Shutdown
  <1> QED BY <1>4, <1>5, <1>6

(* The reader's places that name no session.                               *)
LEMMA ReaderPlaces ==
  ASSUME NEW pc \in {"read", "check", "done"},
         reader' = [pc |-> pc, on |-> None]
  PROVE  /\ reader' \in [pc : {"read", "check", "offer", "unmap", "endaaa", "done"},
                         on : Objects \cup {None}]
         /\ ReaderSound'
  BY DEF ReaderSound

(* The object of a new session is unused, so it is nowhere in the map.     *)
LEMMA FreshFacts ==
  ASSUME IndInv, NEW i \in Objects, Fresh(i)
  PROVE  /\ ses[i].pc = "unused" /\ ~Alive(i)
         /\ \A id \in Ids : sessions[id] # i
         /\ reader.pc \in {"offer", "unmap", "endaaa"} => reader.on # i
  <1>1. ses[i].pc = "unused" /\ ~Alive(i) /\ i # None
    BY ConnAssumption DEF Fresh, Alive, Objects
  <1>2. \A id \in Ids : sessions[id] # i
    BY <1>1 DEF IndInv, Linked
  <1>3. reader.pc \in {"offer", "unmap", "endaaa"} => reader.on # i
    BY <1>1 DEF IndInv, ReaderSound
  <1> QED BY <1>1, <1>2, <1>3

(* Before the first packet the map and the conversation table are empty.   *)
LEMMA FirstFacts ==
  ASSUME IndInv, first
  PROVE  /\ sc = "none" /\ \A i \in Objects : ~Alive(i)
         /\ \A id \in Ids : sessions[id] = None /\ convs[id] = None
         /\ MappedObjects = {} /\ sessionCount = 0
  <1>1. sc = "none" /\ \A i \in Objects : ~Alive(i)
    BY DEF IndInv, FirstIsFirst, Alive
  <1>2. \A id \in Ids : sessions[id] = None /\ convs[id] = None
    BY <1>1 DEF IndInv, Linked, NoOrphanConversation, ConnTypeOK
  <1>3. Mapped = {}
    BY <1>2 DEF Mapped
  <1> QED BY <1>1, <1>2, <1>3, FS_EmptySet DEF MappedObjects, sessionCount

(* Filling a mailbox or stopping a session leaves the rest of it alone.    *)
LEMMA MarkOne ==
  ASSUME ses \in [Objects -> Session], NEW i \in Objects, NEW r,
         \/ r = [ses[i] EXCEPT !.in = TRUE]
         \/ r = [ses[i] EXCEPT !.stopped = TRUE],
         ses' = [ses EXCEPT ![i] = r]
  PROVE  /\ ses' \in [Objects -> Session]
         /\ \A j \in Objects :
              /\ ses'[j].id = ses[j].id /\ ses'[j].typ = ses[j].typ
              /\ ses'[j].pc = ses[j].pc /\ ses'[j].rounds = ses[j].rounds
              /\ ses[j].stopped => ses'[j].stopped
  <1>1. ses[i] \in Session
    OBVIOUS
  <1>2. r \in Session
    <2>1. CASE r = [ses[i] EXCEPT !.in = TRUE]
      BY <1>1, <2>1 DEF Session
    <2>2. CASE r = [ses[i] EXCEPT !.stopped = TRUE]
      BY <1>1, <2>2 DEF Session
    <2> QED BY <2>1, <2>2
  <1>3. /\ r.id = ses[i].id /\ r.typ = ses[i].typ
        /\ r.pc = ses[i].pc /\ r.rounds = ses[i].rounds
        /\ ses[i].stopped => r.stopped
    <2>1. CASE r = [ses[i] EXCEPT !.in = TRUE]
      BY <1>1, <2>1 DEF Session
    <2>2. CASE r = [ses[i] EXCEPT !.stopped = TRUE]
      BY <1>1, <2>2 DEF Session
    <2> QED BY <2>1, <2>2
  <1>4. \A j \in Objects : ses'[j] = IF j = i THEN r ELSE ses[j]
    OBVIOUS
  <1> QED BY <1>2, <1>3, <1>4

(* The actions of the read loop that only mark.                            *)
LEMMA ReaderMarks ==
  ASSUME IndInv,
         \/ CheckClose \/ ReadFails \/ ReadFlagError
         \/ PacketUnknownType \/ PacketInvalid
         \/ OfferAccepted \/ OfferRefused
         \/ \E id \in Ids :
              \/ PacketRefused(id)
              \/ \E typ \in Types : PacketOfOtherType(id, typ) \/ PacketOfSession(id, typ)
  PROVE  IndInv'
  <1>0. /\ ses \in [Objects -> Session] /\ sc \in SCs /\ None \notin Objects
        /\ open \in BOOLEAN /\ drain \in BOOLEAN /\ first \in BOOLEAN
        /\ sessions \in [Ids -> Objects \cup {None}]
        /\ reader \in [pc : {"read", "check", "offer", "unmap", "endaaa", "done"},
                       on : Objects \cup {None}]
    BY ConnAssumption DEF IndInv, ConnTypeOK, SCs, Objects
  <1>1. CASE CheckClose
    <2>1. CASE Shutdown(ses)
      <3>1. MarkStep
        BY <1>0, <1>1, <2>1, ShutdownMarks DEF CheckClose, MarkStep
      <3>2. ReaderSound'
        BY <2>1, ShutdownMarks DEF ReaderSound
      <3> QED BY <2>1, <3>1, <3>2, ShutdownMarks, MarkStepInv
    <2>2. CASE reader' = [pc |-> "read", on |-> None] /\ UNCHANGED <<open, ses>>
      <3>1. MarkStep
        BY <1>0, <1>1, <2>2 DEF CheckClose, MarkStep
      <3> QED BY <2>2, <3>1, ReaderPlaces, MarkStepInv
    <2> QED BY <1>1, <2>1, <2>2 DEF CheckClose
  <1>2. CASE ReadFails
    <2>1. MarkStep
      BY <1>0, <1>2, ShutdownMarks DEF ReadFails, MarkStep
    <2>2. ReaderSound' /\ Shutdown(ses)
      BY <1>2, ShutdownMarks DEF ReadFails, ReaderSound
    <2> QED BY <2>1, <2>2, ShutdownMarks, MarkStepInv
  <1>3. CASE ReadFlagError
    <2>1. MarkStep
      BY <1>0, <1>3, ReplyOnly DEF ReadFlagError, MarkStep
    <2> QED BY <1>3, <2>1, ReaderPlaces, MarkStepInv DEF ReadFlagError, Handled
  <1>4. CASE PacketUnknownType
    <2>1. sc' \in SCs /\ \A i \in Objects : Alive(i) => sc' = sc
      <3>1. CASE first
        BY <1>4, <3>1, FirstFacts DEF PacketUnknownType, SCs
      <3>2. CASE ~first
        BY <1>0, <1>4, <3>2 DEF PacketUnknownType, ClientFlags
      <3> QED BY <3>1, <3>2
    <2>2. MarkStep
      BY <1>0, <1>4, <2>1 DEF PacketUnknownType, MarkStep
    <2> QED BY <1>4, <2>2, ReaderPlaces, MarkStepInv DEF PacketUnknownType, Handled
  <1>5. CASE PacketInvalid
    <2>1. MarkStep
      BY <1>0, <1>5, ReplyKeeps DEF PacketInvalid, MarkStep
    <2> QED BY <1>5, <2>1, ReaderPlaces, MarkStepInv DEF PacketInvalid, Handled
  <1>6. CASE OfferAccepted
    <2>1. reader.on \in Objects
      BY <1>6 DEF OfferAccepted, IndInv, ReaderSound
    <2>2. ses' = [ses EXCEPT ![reader.on] = [ses[reader.on] EXCEPT !.in = TRUE]]
      BY <1>0, <1>6, <2>1 DEF OfferAccepted
    <2>3. /\ ses' \in [Objects -> Session]
          /\ \A j \in Objects :
               /\ ses'[j].id = ses[j].id /\ ses'[j].typ = ses[j].typ
               /\ ses'[j].pc = ses[j].pc /\ ses'[j].rounds = ses[j].rounds
               /\ ses[j].stopped => ses'[j].stopped
      BY <1>0, <2>1, <2>2, MarkOne
    <2>4. MarkStep
      BY <1>0, <1>6, <2>3 DEF OfferAccepted, MarkStep
    <2> QED BY <1>6, <2>4, ReaderPlaces, MarkStepInv DEF OfferAccepted, Handled
  <1>7. CASE OfferRefused
    <2>1. MarkStep
      BY <1>0, <1>7, ReplyOnly, FirstFacts
         DEF OfferRefused, MarkStep, IndInv, ReaderSound, FirstIsFirst
    <2> QED BY <1>7, <2>1, ReaderPlaces, MarkStepInv DEF OfferRefused, Handled
  <1>8. ASSUME NEW id \in Ids, PacketRefused(id) PROVE IndInv'
    <2>1. MarkStep
      BY <1>0, <1>8, ReplyOnly DEF PacketRefused, MarkStep
    <2> QED BY <1>8, <2>1, ReaderPlaces, MarkStepInv DEF PacketRefused, Handled
  <1>9. ASSUME NEW id \in Ids, NEW typ \in Types, PacketOfOtherType(id, typ)
        PROVE  IndInv'
    <2>1. /\ sessions[id] \in Objects /\ Alive(sessions[id])
          /\ reader' = [pc |-> "unmap", on |-> sessions[id]]
      BY <1>0, <1>9 DEF PacketOfOtherType, IndInv, Linked
    <2>2. ses' = [ses EXCEPT ![sessions[id]] = [ses[sessions[id]] EXCEPT !.stopped = TRUE]]
      BY <1>0, <1>9, <2>1 DEF PacketOfOtherType, Stopped
    <2>3. /\ ses' \in [Objects -> Session]
          /\ \A j \in Objects :
               /\ ses'[j].id = ses[j].id /\ ses'[j].typ = ses[j].typ
               /\ ses'[j].pc = ses[j].pc /\ ses'[j].rounds = ses[j].rounds
               /\ ses[j].stopped => ses'[j].stopped
      BY <1>0, <2>1, <2>2, MarkOne
    <2>4. ~first
      BY <2>1, FirstFacts
    <2>5. MarkStep
      BY <1>0, <1>9, <2>3, <2>4, ReplyOnly DEF PacketOfOtherType, MarkStep
    <2>6. ReaderSound'
      BY <1>0, <2>1, <2>2 DEF ReaderSound, Alive, Session
    <2> QED BY <2>1, <2>5, <2>6, MarkStepInv
  <1>10. ASSUME NEW id \in Ids, NEW typ \in Types, PacketOfSession(id, typ)
         PROVE  IndInv'
    <2>1. /\ sessions[id] \in Objects /\ Alive(sessions[id])
          /\ reader' = [pc |-> "offer", on |-> sessions[id]]
      BY <1>0, <1>10 DEF PacketOfSession, IndInv, Linked
    <2>2. MarkStep /\ ses' = ses
      BY <1>0, <1>10 DEF PacketOfSession, MarkStep
    <2>3. ReaderSound'
      BY <2>1, <2>2 DEF ReaderSound, Alive
    <2> QED BY <2>1, <2>2, <2>3, MarkStepInv
  <1> QED BY <1>1, <1>2, <1>3, <1>4, <1>5, <1>6, <1>7, <1>8, <1>9, <1>10

(* The reader's dropSession: a stopped session leaves the map.             *)
LEMMA ReaderUnmapInv ==
  ASSUME IndInv, ReaderUnmap
  PROVE  IndInv'
  <1> DEFINE i == reader.on
  <1>0. /\ i \in Objects /\ ses[i].id \in Ids /\ ses[i].stopped /\ ses[i].pc # "unused"
        /\ sessions' = Deleted(i) /\ reader' = [reader EXCEPT !.pc = "endaaa"]
        /\ UNCHANGED <<open, first, drain, sc, ses, convs>>
    BY DEF ReaderUnmap, IndInv, ReaderSound, Recorded
  <1> HIDE DEF i
  <1>1. /\ sessions' \in [Ids -> Objects \cup {None}] /\ sessionCount' <= MaxSessions
        /\ \A id \in Ids : sessions'[id] = None \/ sessions'[id] = sessions[id]
        /\ \A id \in Ids : sessions[id] # i => sessions'[id] = sessions[id]
    BY <1>0, DeletedFacts DEF IndInv
  <1>2. /\ None \notin Objects
        /\ reader \in [pc : {"read", "check", "offer", "unmap", "endaaa", "done"},
                       on : Objects \cup {None}]
    BY ConnAssumption DEF Objects, IndInv, ConnTypeOK
  <1>3. ConnTypeOK'
    <2>1. reader' \in [pc : {"read", "check", "offer", "unmap", "endaaa", "done"},
                       on : Objects \cup {None}]
      BY <1>0, <1>2
    <2> QED BY <1>0, <1>1, <2>1 DEF IndInv, ConnTypeOK
  <1>4. Recorded'
    BY <1>0 DEF IndInv, Recorded
  <1>5. Linked'
    BY <1>0, <1>1, <1>2 DEF IndInv, Linked, Alive, Recorded
  <1>6. ReaderSound'
    BY <1>0, <1>2 DEF ReaderSound, i
  <1>7. FirstIsFirst'
    BY <1>0 DEF IndInv, FirstIsFirst
  <1>8. NegotiationGuardsSessions'
    BY <1>0 DEF IndInv, NegotiationGuardsSessions, Alive
  <1>9. RunningIsMapped'
    BY <1>0, <1>1 DEF IndInv, RunningIsMapped, Alive, Recorded
  <1>10. NoOrphanConversation'
    BY <1>0 DEF IndInv, NoOrphanConversation, Alive
  <1> QED BY <1>3, <1>4, <1>5, <1>6, <1>7, <1>8, <1>9, <1>10 DEF IndInv

(* The reader's endAAA only takes a conversation away.                     *)
LEMMA ReaderEndAAAInv ==
  ASSUME IndInv, ReaderEndAAA
  PROVE  IndInv'
  <1>0. /\ reader.on \in Objects /\ ses[reader.on].id \in Ids
        /\ convs' = [convs EXCEPT ![ses[reader.on].id] = None]
        /\ reader' = [pc |-> "check", on |-> None]
        /\ UNCHANGED <<open, first, drain, sc, sessions, ses>>
    BY DEF ReaderEndAAA, IndInv, ReaderSound, Recorded, Ended, Handled
  <1>1. ConnTypeOK'
    BY <1>0 DEF IndInv, ConnTypeOK, sessionCount, Mapped
  <1>2. Recorded' /\ FirstIsFirst'
    BY <1>0 DEF IndInv, Recorded, FirstIsFirst
  <1>3. Linked' /\ RunningIsMapped' /\ NegotiationGuardsSessions'
    BY <1>0 DEF IndInv, Linked, Alive, RunningIsMapped, NegotiationGuardsSessions
  <1>4. ReaderSound'
    BY <1>0 DEF ReaderSound
  <1>5. NoOrphanConversation'
    <2>1. \A id \in Ids : convs'[id] # None => convs[id] # None
      BY <1>0 DEF IndInv, ConnTypeOK
    <2> QED BY <1>0, <2>1 DEF IndInv, NoOrphanConversation, Alive
  <1> QED BY <1>1, <1>2, <1>3, <1>4, <1>5 DEF IndInv

(* A new object i with record r; live tells whether it enters the map.     *)
NewStep(i, id, r, live) ==
  /\ ses' = [ses EXCEPT ![i] = r]
  /\ r \in Session /\ r.id = id
  /\ live => r.pc = "wait" /\ (r.typ # "authen" => r.rounds = 0)
  /\ ~live => r.pc = "gone" /\ r.stopped
  /\ sessions' = IF live THEN [sessions EXCEPT ![id] = i] ELSE sessions
  /\ convs' \in [Ids -> Objects \cup {None}]
  /\ \A k \in Ids : convs'[k] = convs[k] \/ (k = id /\ live)
  /\ sc' \in SCs
  /\ live => sc' = "yes" \/ (sc' = "no" /\ \A j \in Objects : ~Alive(j))
  /\ \A j \in Objects : Alive(j) => sc' = sc
  /\ open' \in BOOLEAN /\ drain' \in BOOLEAN /\ first' = FALSE
  /\ \E pc \in {"read", "check", "done"} : reader' = [pc |-> pc, on |-> None]

(* An object for a free id, below the limit, keeps the invariant.          *)
LEMMA NewStepInv ==
  ASSUME IndInv, NEW i \in Objects, Fresh(i), NEW id \in Ids, NEW r,
         NEW live \in BOOLEAN, NewStep(i, id, r, live), sessions[id] = None,
         sessionCount < MaxSessions
  PROVE  IndInv'
  <1>0. /\ ses \in [Objects -> Session] /\ sessions \in [Ids -> Objects \cup {None}]
        /\ None \notin Objects
    BY ConnAssumption DEF Objects, IndInv, ConnTypeOK
  <1>1. /\ ses' \in [Objects -> Session]
        /\ ses'[i] = r /\ \A j \in Objects \ {i} : ses'[j] = ses[j]
    BY <1>0 DEF NewStep
  <1>2. /\ sessions' \in [Ids -> Objects \cup {None}]
        /\ \A k \in Ids \ {id} : sessions'[k] = sessions[k]
        /\ sessions'[id] = IF live THEN i ELSE None
    BY <1>0 DEF NewStep
  <1>3. sessionCount' <= MaxSessions
    <2>1. CASE live
      BY <2>1, AddedFacts DEF NewStep, IndInv
    <2>2. CASE ~live
      BY <2>2 DEF NewStep, IndInv, ConnTypeOK, sessionCount, Mapped
    <2> QED BY <2>1, <2>2
  <1>4. /\ reader' \in [pc : {"read", "check", "offer", "unmap", "endaaa", "done"},
                        on : Objects \cup {None}]
        /\ ReaderSound'
    <2>1. PICK pc \in {"read", "check", "done"} : reader' = [pc |-> pc, on |-> None]
      BY DEF NewStep
    <2> QED BY <2>1, ReaderPlaces
  <1>5. ConnTypeOK'
    BY <1>1, <1>2, <1>3, <1>4 DEF NewStep, ConnTypeOK, SCs
  <1>6. Recorded'
    BY <1>1 DEF IndInv, Recorded, NewStep, Interactive
  <1>7. /\ ses[i].pc = "unused" /\ ~Alive(i)
        /\ \A k \in Ids : sessions[k] # i
        /\ \A j \in Objects : j # i => (Alive(j)' <=> Alive(j))
        /\ Alive(i)' <=> live
    BY <1>1, FreshFacts DEF NewStep, Alive
  <1>8. Linked'
    <2>1. ASSUME NEW k \in Ids, sessions'[k] # None
          PROVE  ses'[sessions'[k]].pc \notin {"unused", "gone"} /\ ses'[sessions'[k]].id = k
      <3>1. CASE k = id
        BY <1>1, <1>2, <2>1, <3>1 DEF NewStep
      <3>2. CASE k # id
        <4>1. sessions'[k] = sessions[k] /\ sessions[k] \in Objects \ {i}
          BY <1>0, <1>2, <1>7, <2>1, <3>2
        <4> QED BY <1>1, <2>1, <4>1 DEF IndInv, Linked, Alive
      <3> QED BY <3>1, <3>2
    <2>2. ASSUME NEW j \in Objects, ses'[j].pc = "endaaa"
          PROVE  sessions'[ses'[j].id] # j
      <3>1. j # i
        BY <1>1, <2>2 DEF NewStep
      <3>2. ses'[j] = ses[j] /\ ses[j].id \in Ids /\ sessions[ses[j].id] # j
        BY <1>1, <2>2, <3>1 DEF IndInv, Linked, Recorded
      <3> QED BY <1>0, <1>2, <3>1, <3>2
    <2> QED BY <2>1, <2>2 DEF Linked, Alive
  <1>9. FirstIsFirst'
    BY DEF FirstIsFirst, NewStep
  <1>10. NegotiationGuardsSessions'
    <2>1. ASSUME NEW j \in Objects, Alive(j)'
          PROVE  /\ sc' \in {"yes", "no"}
                 /\ sc' = "no" => \A k \in Objects \ {j} : ~Alive(k)'
      <3>1. CASE live
        <4>1. sc' = "yes" \/ (sc' = "no" /\ \A k \in Objects : ~Alive(k))
          BY <3>1 DEF NewStep
        <4> QED BY <1>7, <2>1, <4>1
      <3>2. CASE ~live
        <4>1. Alive(j) /\ j # i /\ sc' = sc
          BY <1>7, <2>1, <3>2 DEF NewStep
        <4> QED BY <1>7, <3>2, <4>1 DEF IndInv, NegotiationGuardsSessions
      <3> QED BY <3>1, <3>2
    <2> QED BY <2>1 DEF NegotiationGuardsSessions
  <1>11. RunningIsMapped'
    <2>1. ASSUME NEW j \in Objects, Alive(j)', ~ses'[j].stopped
          PROVE  sessions'[ses'[j].id] = j
      <3>1. CASE j = i
        BY <1>1, <1>2, <1>7, <2>1, <3>1 DEF NewStep
      <3>2. CASE j # i
        <4>1. /\ ses'[j] = ses[j] /\ ses[j].id \in Ids /\ sessions[ses[j].id] = j
          BY <1>1, <1>7, <2>1, <3>2 DEF IndInv, RunningIsMapped, Recorded, Alive
        <4> QED BY <1>0, <1>2, <4>1
      <3> QED BY <3>1, <3>2
    <2> QED BY <2>1 DEF RunningIsMapped
  <1>12. NoOrphanConversation'
    <2>1. ASSUME NEW k \in Ids, convs'[k] # None
          PROVE  \E j \in Objects : Alive(j)' /\ ses'[j].id = k
      <3>1. CASE k = id /\ live
        BY <1>1, <1>7, <3>1 DEF NewStep
      <3>2. CASE convs'[k] = convs[k]
        <4>1. PICK j \in Objects : Alive(j) /\ ses[j].id = k
          BY <2>1, <3>2 DEF IndInv, NoOrphanConversation
        <4> QED BY <1>1, <1>7, <4>1
      <3> QED BY <3>1, <3>2 DEF NewStep
    <2> QED BY <2>1 DEF NoOrphanConversation
  <1> QED BY <1>4, <1>5, <1>6, <1>8, <1>9, <1>10, <1>11, <1>12 DEF IndInv

(* The four actions of the read loop that use a new object.                *)
LEMMA ReaderNewInv ==
  ASSUME IndInv, NEW id \in Ids,
         \/ FirstPrompted(id) \/ FirstCompleted(id) \/ FirstFailed(id)
         \/ \E typ \in Types : PacketNew(id, typ)
  PROVE  IndInv'
  <1>0. /\ ses \in [Objects -> Session] /\ sc \in SCs
        /\ sessions \in [Ids -> Objects \cup {None}]
        /\ convs \in [Ids -> Objects \cup {None}]
        /\ open \in BOOLEAN /\ drain \in BOOLEAN
        /\ 0 < MaxSessions /\ 1 \in 0..(MaxContinues + 1)
        /\ "authen" \in Types
    BY ConnAssumption DEF IndInv, ConnTypeOK, SCs, Types
  <1>1. ASSUME NEW typ \in Types, PacketNew(id, typ)
        PROVE  IndInv'
    <2> DEFINE n == NewSession(id, typ)
               r == [n EXCEPT !.in = TRUE]
    <2>1. PICK i \in Objects :
            /\ Fresh(i)
            /\ sessions' = [sessions EXCEPT ![id] = i]
            /\ ses' = [ses EXCEPT ![i] = r]
      BY <1>1 DEF PacketNew
    <2>2. /\ sessions[id] = None /\ sc = "yes" /\ sessionCount < MaxSessions
          /\ first' = first /\ first = FALSE
          /\ reader' = [pc |-> "check", on |-> None]
          /\ UNCHANGED <<open, drain, sc, convs>>
      BY <1>1 DEF PacketNew, Admits, Handled, IndInv, ConnTypeOK
    <2>3. n \in Session /\ n.pc = "wait" /\ n.rounds = 0 /\ n.id = id
      BY MadeSessions
    <2> HIDE DEF n
    <2>4. r \in Session /\ r.pc = "wait" /\ r.rounds = 0 /\ r.id = id
      BY <2>3 DEF Session
    <2> HIDE DEF r
    <2>5. NewStep(i, id, r, TRUE)
      BY <1>0, <2>1, <2>2, <2>4 DEF NewStep
    <2> QED BY <2>1, <2>2, <2>5, NewStepInv
  <1>2. CASE FirstPrompted(id)
    <2> DEFINE n == NewSession(id, "authen")
               r == [n EXCEPT !.rounds = 1]
    <2>1. PICK i \in Objects :
            /\ Fresh(i)
            /\ sessions' = [sessions EXCEPT ![id] = i]
            /\ ses' = [ses EXCEPT ![i] = r]
            /\ convs' = [convs EXCEPT ![id] = i]
      BY <1>2 DEF FirstPrompted
    <2>2. /\ first /\ first' = FALSE
          /\ reader' = [pc |-> "check", on |-> None]
          /\ UNCHANGED <<open, drain>>
      BY <1>2 DEF FirstPrompted, Handled
    <2>3. sc' \in {"yes", "no"}
      <3>1. PICK s \in ClientFlags : sc' = Negotiated(s)
        BY <1>2 DEF FirstPrompted
      <3>2. s \in SCs
        BY <1>0, <3>1 DEF ClientFlags, SCs
      <3> QED BY <3>1, <3>2, Replies
    <2>4. /\ n \in Session /\ n.pc = "wait" /\ n.id = id /\ n.typ = "authen"
      BY <1>0, MadeSessions
    <2> HIDE DEF n
    <2>5. r \in Session /\ r.pc = "wait" /\ r.typ = "authen" /\ r.id = id
      BY <1>0, <2>4 DEF Session
    <2> HIDE DEF r
    <2>6. /\ \A j \in Objects : ~Alive(j)
          /\ sessions[id] = None /\ sessionCount = 0
      BY <2>2, FirstFacts
    <2>7. NewStep(i, id, r, TRUE)
      BY <1>0, <2>1, <2>2, <2>3, <2>5, <2>6 DEF NewStep, SCs
    <2> QED BY <1>0, <2>1, <2>6, <2>7, NewStepInv
  <1>3. CASE FirstCompleted(id)
    <2> DEFINE r == Gone(id)
    <2>1. PICK i \in Objects : Fresh(i) /\ ses' = [ses EXCEPT ![i] = r]
      BY <1>3 DEF FirstCompleted
    <2>2. /\ first /\ first' = FALSE
          /\ reader' = [pc |-> "check", on |-> None]
          /\ UNCHANGED <<open, drain, sessions, convs>>
          /\ \E s \in ClientFlags : ReplyError(s)
      BY <1>3 DEF FirstCompleted, Handled
    <2>3. r \in Session /\ r.pc = "gone" /\ r.stopped /\ r.id = id
      BY <1>0, MadeSessions
    <2> HIDE DEF r
    <2>4. sc' \in SCs /\ \A j \in Objects : Alive(j) => sc' = sc
      BY <2>2, ReplyKeeps
    <2>5. sessions[id] = None /\ sessionCount = 0
      BY <2>2, FirstFacts
    <2>6. NewStep(i, id, r, FALSE)
      BY <1>0, <2>1, <2>2, <2>3, <2>4 DEF NewStep
    <2> QED BY <1>0, <2>1, <2>5, <2>6, NewStepInv
  <1>4. CASE FirstFailed(id)
    <2> DEFINE r == Gone(id)
    <2>1. PICK i \in Objects : Fresh(i) /\ Shutdown([ses EXCEPT ![i] = r])
      BY <1>4 DEF FirstFailed
    <2>2. /\ first /\ first' = FALSE /\ drain' \in BOOLEAN
          /\ UNCHANGED <<sessions, convs>>
          /\ \E s \in ClientFlags : ReplyError(s)
      BY <1>0, <1>4 DEF FirstFailed
    <2>3. r \in Session /\ r.pc = "gone" /\ r.stopped /\ r.id = id
      BY <1>0, MadeSessions
    <2> HIDE DEF r
    <2>4. sc' \in SCs /\ \A j \in Objects : Alive(j) => sc' = sc
      BY <2>2, ReplyKeeps
    <2>5. sessions[id] = None /\ sessionCount = 0 /\ MappedObjects = {}
      BY <2>2, FirstFacts
    <2>6. ses' = [ses EXCEPT ![i] = r]
      <3>1. ses' = StopAll([ses EXCEPT ![i] = r])
        BY <2>1 DEF Shutdown
      <3>2. ses' = [j \in Objects |-> [ses EXCEPT ![i] = r][j]]
        BY <2>5, <3>1 DEF StopAll
      <3> QED BY <1>0, <3>2
    <2>7. open' = FALSE /\ reader' = [pc |-> "done", on |-> None]
      BY <2>1 DEF Shutdown
    <2>8. NewStep(i, id, r, FALSE)
      BY <1>0, <2>2, <2>3, <2>4, <2>6, <2>7 DEF NewStep
    <2> QED BY <1>0, <2>1, <2>5, <2>8, NewStepInv
  <1> QED BY <1>1, <1>2, <1>3, <1>4

-----------------------------------------------------------------------------
(* The theorems.                                                           *)

(* A connection that has just been accepted satisfies the invariant.       *)
LEMMA InitInv == Init => IndInv
  <1> SUFFICES ASSUME Init PROVE IndInv
    OBVIOUS
  <1>0. None \notin Objects /\ MaxSessions \in Nat
    BY ConnAssumption DEF Objects
  <1>1. ses = [i \in Objects |-> Unused] /\ Unused \in Session /\ Unused.pc = "unused"
    <2>1. 0 \in 0..(MaxContinues + 1) /\ "unused" \in PCs /\ "other" \in Types
      BY ConnAssumption DEF PCs, Types
    <2> QED BY <2>1 DEF Init, Unused, Session
  <1>2. \A i \in Objects : ses[i] \in Session /\ ses[i].pc = "unused"
    BY <1>1
  <1>3. Mapped = {}
    BY DEF Init, Mapped
  <1>4. sessionCount <= MaxSessions
    BY <1>0, <1>3, FS_EmptySet DEF sessionCount
  <1>5. ConnTypeOK
    BY <1>1, <1>4 DEF Init, ConnTypeOK
  <1>6. Recorded
    BY <1>2 DEF Recorded, Interactive
  <1>7. Linked
    BY <1>2 DEF Init, Linked
  <1>8. ReaderSound
    BY DEF Init, ReaderSound
  <1>9. FirstIsFirst
    BY <1>2 DEF Init, FirstIsFirst
  <1>10. NegotiationGuardsSessions /\ RunningIsMapped
    BY <1>2 DEF NegotiationGuardsSessions, RunningIsMapped, Alive
  <1>11. NoOrphanConversation
    BY DEF Init, NoOrphanConversation
  <1> QED BY <1>5, <1>6, <1>7, <1>8, <1>9, <1>10, <1>11 DEF IndInv

(* Every step of the read loop or of a session's goroutine keeps it.       *)
LEMMA NextInv == IndInv /\ [Next]_vars => IndInv'
  <1> SUFFICES ASSUME IndInv, [Next]_vars PROVE IndInv'
    OBVIOUS
  <1>1. ASSUME NEW i \in Objects, runSession(i) PROVE IndInv'
    BY <1>1, GoroutineInv
  <1>2. CASE Reader
    <2>1. CASE ReaderUnmap
      BY <2>1, ReaderUnmapInv
    <2>2. CASE ReaderEndAAA
      BY <2>2, ReaderEndAAAInv
    <2>3. ASSUME NEW id \in Ids,
                 \/ FirstPrompted(id) \/ FirstCompleted(id) \/ FirstFailed(id)
                 \/ \E typ \in Types : PacketNew(id, typ)
          PROVE  IndInv'
      BY <2>3, ReaderNewInv
    <2>4. CASE \/ CheckClose \/ ReadFails \/ ReadFlagError
               \/ PacketUnknownType \/ PacketInvalid
               \/ OfferAccepted \/ OfferRefused
               \/ \E id \in Ids :
                    \/ PacketRefused(id)
                    \/ \E typ \in Types :
                         PacketOfOtherType(id, typ) \/ PacketOfSession(id, typ)
      BY <2>4, ReaderMarks
    <2> QED BY <1>2, <2>1, <2>2, <2>3, <2>4 DEF Reader
  <1>3. CASE UNCHANGED vars
    BY <1>3 DEF vars, IndInv, ConnTypeOK, sessionCount, Mapped, Recorded, Linked, Alive,
                ReaderSound, FirstIsFirst, NegotiationGuardsSessions,
                RunningIsMapped, NoOrphanConversation
  <1> QED BY <1>1, <1>2, <1>3 DEF Next

(* The invariant holds of every behaviour of a connection.                 *)
THEOREM Inductive == Spec => []IndInv
  <1>1. Init => IndInv
    BY InitInv
  <1>2. IndInv /\ [Next]_vars => IndInv'
    BY NextInv
  <1> QED BY <1>1, <1>2, PTL DEF Spec

(* The session map never exceeds MaxSessionsPerConnection and no session   *)
(* passes more packets than its START and MaxContinues, for every limit    *)
(* (conn.go's test before newSession, sequence.go's CheckRequest).         *)
THEOREM TypeCorrect == Spec => []ConnTypeOK
  <1>1. IndInv => ConnTypeOK
    BY DEF IndInv
  <1> QED BY <1>1, Inductive, PTL

(* connState.sc is settled before any session goroutine runs, and without  *)
(* single-connect no second session is ever opened.                        *)
THEOREM NegotiationSafe == Spec => []NegotiationGuardsSessions
  <1>1. IndInv => NegotiationGuardsSessions
    BY DEF IndInv
  <1> QED BY <1>1, Inductive, PTL

(* Whatever the interleaving of dropSession by the reader and by the       *)
(* goroutine with packets that use the id again, a session that is not     *)
(* stopped is the one its id leads to.                                     *)
THEOREM OneServerPerId == Spec => []RunningIsMapped
  <1>1. IndInv => RunningIsMapped
    BY DEF IndInv
  <1> QED BY <1>1, Inductive, PTL

(* No conversation stays in the AAA service's table without a session that *)
(* has still to run endAAA for its id.                                     *)
THEOREM ConversationsEnded == Spec => []NoOrphanConversation
  <1>1. IndInv => NoOrphanConversation
    BY DEF IndInv
  <1> QED BY <1>1, Inductive, PTL

=============================================================================
