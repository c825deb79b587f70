----------------------------- MODULE TacacsConn -----------------------------
(***************************************************************************)
(* One TACACS+ connection: internal/tacacs/server/conn.go, the sequence     *)
(* and single-connect machines of internal/tacacs/codec/sequence.go, and    *)
(* the table of authentication conversations of internal/aaa that the       *)
(* handler keeps per connection and session id.                             *)
(*                                                                          *)
(* The reader demultiplexes packets to sessions; each session has a         *)
(* goroutine and a mailbox for one packet.  Session objects are told apart  *)
(* from session ids: a client may use an id again, and the object that had  *)
(* it before may still be at work.  Every step ends where the code gives    *)
(* another goroutine something to see: a channel, the session map under     *)
(* connState.mu, or the conversation table under Service.mu.                *)
(*                                                                          *)
(* A packet is its session id and type; whether its sequence number, body   *)
(* and credentials are in order is decided when the code looks.             *)
(***************************************************************************)
EXTENDS Integers, FiniteSets

CONSTANTS
  Ids,                  \* session ids the client uses
  MaxObjects,           \* bound: session objects created on the connection
  MaxSessions,          \* Limits.MaxSessionsPerConnection
  MaxContinues,         \* Sequence.maxCont
  SingleConnectEnabled, \* Limits.SingleConnectEnabled
  None

ASSUME ConnAssumption ==
  /\ IsFiniteSet(Ids)
  /\ MaxObjects \in Nat \ {0} /\ MaxSessions \in Nat \ {0}
  /\ MaxContinues \in Nat \ {0}
  /\ SingleConnectEnabled \in BOOLEAN
  /\ None \notin 1..MaxObjects /\ None \notin Ids

Objects == 1..MaxObjects
Types == {"authen", "other"}

(* Where a session's goroutine is.  "stop", "unmap" and "endaaa" are the    *)
(* three steps of its deferred dropSession.                                 *)
Busy == {"begin", "begun", "continue", "verify",
         "prompt", "final", "error", "mismatch"}
Dropping == {"stop", "unmap", "endaaa"}
PCs == {"unused", "wait", "gone"} \cup Busy \cup Dropping

VARIABLES
  open,      \* the read loop runs and connState.closed is false
  first,     \* readLoop's first
  drain,     \* connState.drain
  sc,        \* connState.sc: "none", then the client's flag ("asked" or
             \* "plain"), then the outcome of the first reply ("yes" or "no")
  sessions,  \* connState.sessions: id -> object or None
  ses,       \* the session objects and the state of their goroutines
  reader,    \* where the read loop is, and the session it works on
  convs      \* Service.sessions: id -> object whose START began it, or None

vars == <<open, first, drain, sc, sessions, ses, reader, convs>>

(* A session object: rounds is the number of packets CheckRequest let      *)
(* through, in says whether the mailbox holds a packet, conv is the        *)
(* conversation its goroutine holds.                                       *)
Session ==
  [id : Ids \cup {None}, typ : Types, stopped : BOOLEAN, in : BOOLEAN,
   rounds : 0..(MaxContinues + 1), pc : PCs, conv : Objects \cup {None}]

Unused == [id |-> None, typ |-> "other", stopped |-> FALSE, in |-> FALSE,
           rounds |-> 0, pc |-> "unused", conv |-> None]

(* newSession. *)
NewSession(id, typ) ==
  [Unused EXCEPT !.id = id, !.typ = typ, !.pc = "wait"]

(* What is left of a session whose goroutine has ended: only the read loop *)
(* may still hold it, to refuse a packet or to finish dropping it.         *)
Gone(id) == [Unused EXCEPT !.id = id, !.stopped = TRUE, !.pc = "gone"]

Alive(i) == ses[i].pc \notin {"unused", "gone"}
Mapped == {id \in Ids : sessions[id] # None}
sessionCount == Cardinality(Mapped)

Init ==
  /\ open = TRUE
  /\ first = TRUE
  /\ drain = FALSE
  /\ sc = "none"
  /\ sessions = [id \in Ids |-> None]
  /\ ses = [i \in Objects |-> Unused]
  /\ reader = [pc |-> "read", on |-> None]
  /\ convs = [id \in Ids |-> None]

-----------------------------------------------------------------------------
(* Single-connect negotiation and error replies.                           *)

(* OnClientFirst: the flag counts on the first packet only.                *)
ClientFlags == IF first /\ sc = "none" THEN {"asked", "plain"} ELSE {sc}

(* negotiateFlags with OnServerFirst: the first reply settles the matter.  *)
Negotiated(s) ==
  IF s = "asked" /\ SingleConnectEnabled THEN "yes"
  ELSE IF s \in {"none", "asked", "plain"} THEN "no"
  ELSE s

(* replyError: a packet with the last sequence number gets no reply, and   *)
(* then nothing is negotiated.                                             *)
ReplyError(s) == sc' \in {s, Negotiated(s)}

-----------------------------------------------------------------------------
(* Ending sessions.                                                        *)

(* session.stop *)
Stopped(i) == [ses EXCEPT ![i].stopped = TRUE]

(* dropSession's middle part: only the object itself gives up its id.      *)
Deleted(i) ==
  [sessions EXCEPT ![ses[i].id] = IF @ = i THEN None ELSE @]

(* Seeded fault: the conversation is ended only by whoever has the id.     *)
Ended_IfMapped(id) ==
  IF sessions[id] = None THEN convs ELSE [convs EXCEPT ![id] = None]

(* endAAA, Bridge.EndSession and AbortAuthentication: whatever conversation*)
(* the id has is dropped.                                                  *)
Ended(id) == [convs EXCEPT ![id] = None]

MappedObjects == {sessions[id] : id \in Mapped}

(* Seeded fault: sessions outlive the connection.                          *)
StopAll_Nobody(objs) == objs

(* shutdownSessions stops every session it finds in the map.               *)
StopAll(objs) ==
  [i \in Objects |-> IF i \in MappedObjects
                     THEN [objs[i] EXCEPT !.stopped = TRUE] ELSE objs[i]]

(* The read loop returns and ServeConn's deferred shutdown runs.           *)
Shutdown(objs) ==
  /\ open' = FALSE
  /\ reader' = [pc |-> "done", on |-> None]
  /\ ses' = StopAll(objs)

-----------------------------------------------------------------------------
(* The read loop.  Every handled packet is followed by shouldClose.        *)

Reading == reader.pc = "read"
Handled == reader' = [pc |-> "check", on |-> None]

(* The next session object; older ones are never used again.               *)
Fresh(i) ==
  /\ ses[i].pc = "unused"
  /\ \A j \in Objects : ses[j].pc = "unused" => i <= j

(* shouldClose, and the loop's own test on a draining connection.          *)
shouldClose ==
  /\ sc \notin {"asked", "plain"}
  /\ sessionCount = 0
  /\ sc # "yes" \/ drain

CheckClose ==
  /\ reader.pc = "check"
  /\ IF shouldClose \/ (drain /\ sessionCount = 0)
     THEN Shutdown(ses)
     ELSE /\ reader' = [pc |-> "read", on |-> None]
          /\ UNCHANGED <<open, ses>>
  /\ UNCHANGED <<first, drain, sc, sessions, convs>>

(* End of stream, read deadline, idle timeout, lifetime, cancellation, a   *)
(* body too large, or an unknown type that cannot be answered.  What some  *)
(* of these still set (drain, the negotiation) nobody reads again.         *)
ReadFails ==
  /\ Reading
  /\ Shutdown(ses)
  /\ UNCHANGED <<first, drain, sc, sessions, convs>>

(* handleReadError for a wrong TAC_PLUS_UNENCRYPTED_FLAG.                  *)
ReadFlagError ==
  /\ Reading
  /\ ReplyError(sc)
  /\ drain' = TRUE
  /\ first' = FALSE
  /\ Handled
  /\ UNCHANGED <<open, sessions, ses, convs>>

(* handlePacket for a type it does not know: the header goes back with its *)
(* own flags, which settles the negotiation if it is the first packet.     *)
PacketUnknownType ==
  /\ Reading
  /\ \E s \in ClientFlags :
       sc' = IF first THEN (IF s = "asked" THEN "yes" ELSE "no") ELSE s
  /\ drain' = TRUE
  /\ first' = FALSE
  /\ Handled
  /\ UNCHANGED <<open, sessions, ses, convs>>

(* handlePacket for a header that does not validate.                       *)
PacketInvalid ==
  /\ Reading
  /\ \E s \in ClientFlags : ReplyError(s)
  /\ drain' = TRUE
  /\ first' = FALSE
  /\ Handled
  /\ UNCHANGED <<open, sessions, ses, convs>>

(* The id is in use with another type: reply, then dropSession, whose      *)
(* first step stops the session.                                           *)
PacketOfOtherType(id, typ) ==
  /\ Reading
  /\ sessions[id] # None
  /\ ses[sessions[id]].typ # typ
  /\ ReplyError(sc)
  /\ ses' = Stopped(sessions[id])
  /\ reader' = [pc |-> "unmap", on |-> sessions[id]]
  /\ UNCHANGED <<open, first, drain, sessions, convs>>

ReaderUnmap ==
  /\ reader.pc = "unmap"
  /\ sessions' = Deleted(reader.on)
  /\ reader' = [reader EXCEPT !.pc = "endaaa"]
  /\ UNCHANGED <<open, first, drain, sc, ses, convs>>

ReaderEndAAA ==
  /\ reader.pc = "endaaa"
  /\ convs' = Ended(ses[reader.on].id)
  /\ Handled
  /\ UNCHANGED <<open, first, drain, sc, sessions, ses>>

(* The id is in use with this type: the session found under the lock gets  *)
(* the packet after the lock was released.                                 *)
PacketOfSession(id, typ) ==
  /\ Reading
  /\ sessions[id] # None
  /\ ses[sessions[id]].typ = typ
  /\ reader' = [pc |-> "offer", on |-> sessions[id]]
  /\ UNCHANGED <<open, first, drain, sc, sessions, ses, convs>>

(* session.offer: a select takes any case that is ready, so a stopped      *)
(* session with an empty mailbox may accept or refuse.                     *)
OfferAccepted ==
  /\ reader.pc = "offer"
  /\ ~ses[reader.on].in
  /\ ses' = [ses EXCEPT ![reader.on].in = TRUE]
  /\ Handled
  /\ UNCHANGED <<open, first, drain, sc, sessions, convs>>

OfferRefused ==
  /\ reader.pc = "offer"
  /\ ses[reader.on].in \/ ses[reader.on].stopped
  /\ ReplyError(sc)
  /\ Handled
  /\ UNCHANGED <<open, first, drain, sessions, ses, convs>>

(* What handlePacket asks before it opens another session.                 *)
Admits == ~drain /\ sc = "yes" /\ sessionCount < MaxSessions

PacketRefused(id) ==
  /\ Reading
  /\ ~first
  /\ sessions[id] = None
  /\ ~Admits
  /\ ReplyError(sc)
  /\ Handled
  /\ UNCHANGED <<open, first, drain, sessions, ses, convs>>

(* A new session: its goroutine starts and finds the packet in its mailbox.*)
PacketNew(id, typ) ==
  /\ Reading
  /\ ~first
  /\ sessions[id] = None
  /\ Admits
  /\ \E i \in Objects :
       /\ Fresh(i)
       /\ sessions' = [sessions EXCEPT ![id] = i]
       /\ ses' = [ses EXCEPT ![i] = [NewSession(id, typ) EXCEPT !.in = TRUE]]
  /\ Handled
  /\ UNCHANGED <<open, first, drain, sc, convs>>

(* processFirst: the first request is handled by the read loop itself,     *)
(* while there is no other goroutine, so its steps need no interleaving.   *)
(* A prompt leaves an authentication session behind.                       *)
FirstPrompted(id) ==
  /\ Reading
  /\ first
  /\ \E i \in Objects :
       /\ Fresh(i)
       /\ sessions' = [sessions EXCEPT ![id] = i]
       /\ ses' = [ses EXCEPT ![i] =
                    [NewSession(id, "authen") EXCEPT !.rounds = 1]]
       /\ convs' = [convs EXCEPT ![id] = i]
  /\ \E s \in ClientFlags : sc' = Negotiated(s)
  /\ first' = FALSE
  /\ Handled
  /\ UNCHANGED <<open, drain>>

(* A terminal reply, or an error that ends only the session.               *)
FirstCompleted(id) ==
  /\ Reading
  /\ first
  /\ \E i \in Objects :
       /\ Fresh(i)
       /\ ses' = [ses EXCEPT ![i] = Gone(id)]
  /\ \E s \in ClientFlags : ReplyError(s)
  /\ first' = FALSE
  /\ Handled
  /\ UNCHANGED <<open, drain, sessions, convs>>

(* A secret mismatch, or a reply that cannot be written, ends the loop.    *)
FirstFailed(id) ==
  /\ Reading
  /\ first
  /\ \E i \in Objects :
       /\ Fresh(i)
       /\ Shutdown([ses EXCEPT ![i] = Gone(id)])
  /\ \E s \in ClientFlags : ReplyError(s)
  /\ drain' \in {TRUE, drain}
  /\ first' = FALSE
  /\ UNCHANGED <<sessions, convs>>

Reader ==
  \/ CheckClose \/ ReadFails \/ ReadFlagError
  \/ PacketUnknownType \/ PacketInvalid
  \/ ReaderUnmap \/ ReaderEndAAA
  \/ OfferAccepted \/ OfferRefused
  \/ \E id \in Ids :
       \/ PacketRefused(id)
       \/ FirstPrompted(id) \/ FirstCompleted(id) \/ FirstFailed(id)
       \/ \E typ \in Types :
            \/ PacketOfOtherType(id, typ) \/ PacketOfSession(id, typ)
            \/ PacketNew(id, typ)

-----------------------------------------------------------------------------
(* The goroutine of a session: runSession, dispatch and the handler.       *)

At(i, pc) == ses[i].pc = pc
Goto(i, pc) == ses' = [ses EXCEPT ![i].pc = pc]
Conn == <<open, first, sc, sessions, reader>>

(* Seeded fault: an idle session does not listen to done.                  *)
LeaveWait_Never(i) == FALSE /\ UNCHANGED vars

(* runSession's select on done.                                            *)
LeaveWait(i) ==
  /\ At(i, "wait")
  /\ ses[i].stopped
  /\ Goto(i, "stop")
  /\ UNCHANGED <<Conn, drain, convs>>

(* What CheckRequest, decoding and the classification of the packet make   *)
(* of it: a protocol error, a legacy body that does not add up, a reply    *)
(* without the handler (also every authorization and accounting reply), or *)
(* an authentication START or CONTINUE for the handler.                    *)
Verdicts(i) ==
  {"error", "mismatch"} \cup
  IF ses[i].typ # "authen" THEN {"final"}
  ELSE IF ses[i].rounds = 0 THEN {"final", "begin"}
  ELSE IF ses[i].rounds <= MaxContinues THEN {"continue"}
  ELSE {}

(* runSession takes a packet, unless the session was stopped meanwhile.    *)
Take(i) ==
  /\ At(i, "wait")
  /\ ses[i].in
  /\ IF ses[i].stopped
     THEN ses' = [ses EXCEPT ![i].in = FALSE, ![i].pc = "stop"]
     ELSE \E v \in Verdicts(i) :
            ses' = [ses EXCEPT
                      ![i].in = FALSE,
                      ![i].pc = v,
                      ![i].rounds = IF v \in {"final", "begin", "continue"}
                                    THEN @ + 1 ELSE @]
  /\ UNCHANGED <<Conn, drain, convs>>

(* BeginAuthentication: bad fields are refused at once, otherwise whatever *)
(* conversation the key has is dropped.                                    *)
Begin(i) ==
  /\ At(i, "begin")
  /\ \/ /\ Goto(i, "final")
        /\ UNCHANGED convs
     \/ /\ Goto(i, "begun")
        /\ convs' = Ended(ses[i].id)
  /\ UNCHANGED <<Conn, drain>>

(* The one-shot methods and refusals are terminal; beginInteractive stores *)
(* a conversation bound to the snapshot of this START and prompts.         *)
Begun(i) ==
  /\ At(i, "begun")
  /\ \/ /\ Goto(i, "final")
        /\ UNCHANGED convs
     \/ /\ Goto(i, "prompt")
        /\ convs' = [convs EXCEPT ![ses[i].id] = i]
  /\ UNCHANGED <<Conn, drain>>

(* ContinueAuthentication looks the conversation up, or the client aborts. *)
Continue(i) ==
  /\ At(i, "continue")
  /\ \/ /\ ses' = [ses EXCEPT
                     ![i].conv = convs[ses[i].id],
                     ![i].pc = IF convs[ses[i].id] = None
                               THEN "final" ELSE "verify"]
        /\ UNCHANGED convs
     \/ /\ Goto(i, "final")
        /\ convs' = Ended(ses[i].id)
  /\ UNCHANGED <<Conn, drain>>

(* continueASCII, continueEnable, continueCHPASS, finishPassword,          *)
(* retryOrFail and publishLogin: after the work the conversation is put    *)
(* back and prompts again, or it is dropped and the reply is terminal.     *)
Verify(i) ==
  /\ At(i, "verify")
  /\ \/ /\ ses' = [ses EXCEPT ![i].pc = "prompt", ![i].conv = None]
        /\ convs' = [convs EXCEPT ![ses[i].id] = ses[i].conv]
     \/ /\ ses' = [ses EXCEPT ![i].pc = "final", ![i].conv = None]
        /\ convs' = Ended(ses[i].id)
  /\ UNCHANGED <<Conn, drain>>

(* A prompt is written and the session waits for its answer; the write     *)
(* fails when the connection is closed and may fail otherwise.             *)
ReplyPrompt(i) ==
  /\ At(i, "prompt")
  /\ \/ Goto(i, "wait") /\ open /\ ~ses[i].stopped
     \/ Goto(i, "stop")
  /\ UNCHANGED <<Conn, drain, convs>>

(* Everything else ends the session; a secret mismatch that is not         *)
(* overtaken by a stop also stops the connection from taking new ones.     *)
ReplyLast(i) ==
  /\ ses[i].pc \in {"final", "error", "mismatch"}
  /\ drain' = (drain \/ (At(i, "mismatch") /\ ~ses[i].stopped))
  /\ Goto(i, "stop")
  /\ UNCHANGED <<Conn, convs>>

(* The deferred dropSession. *)
Stop(i) ==
  /\ At(i, "stop")
  /\ ses' = [ses EXCEPT ![i].stopped = TRUE, ![i].pc = "unmap"]
  /\ UNCHANGED <<Conn, drain, convs>>

Unmap(i) ==
  /\ At(i, "unmap")
  /\ Goto(i, "endaaa")
  /\ sessions' = Deleted(i)
  /\ UNCHANGED <<open, first, sc, reader, drain, convs>>

EndAAA(i) ==
  /\ At(i, "endaaa")
  /\ ses' = [ses EXCEPT ![i] = Gone(ses[i].id)]
  /\ convs' = Ended(ses[i].id)
  /\ UNCHANGED <<Conn, drain>>

runSession(i) ==
  \/ LeaveWait(i) \/ Take(i)
  \/ Begin(i) \/ Begun(i) \/ Continue(i) \/ Verify(i)
  \/ ReplyPrompt(i) \/ ReplyLast(i)
  \/ Stop(i) \/ Unmap(i) \/ EndAAA(i)

Next == Reader \/ \E i \in Objects : runSession(i)

Spec == Init /\ [][Next]_vars

(* A goroutine that can take a step eventually does: runnable goroutines   *)
(* are scheduled, handlers return and writes have deadlines.               *)
FairSpec == Spec /\ \A i \in Objects : WF_vars(runSession(i))

-----------------------------------------------------------------------------
(* Correctness.                                                            *)

(* The connection's fields keep their types; the session map respects      *)
(* MaxSessionsPerConnection and no session passes more packets than its    *)
(* START and MaxContinues.                                                 *)
ConnTypeOK ==
  /\ open \in BOOLEAN /\ first \in BOOLEAN /\ drain \in BOOLEAN
  /\ sc \in {"none", "asked", "plain", "yes", "no"}
  /\ sessions \in [Ids -> Objects \cup {None}]
  /\ sessionCount <= MaxSessions
  /\ ses \in [Objects -> Session]
  /\ reader \in [pc : {"read", "check", "offer", "unmap", "endaaa", "done"},
                 on : Objects \cup {None}]
  /\ convs \in [Ids -> Objects \cup {None}]

(* The negotiation is settled before a session has a goroutine of its own  *)
(* (connState.sc has no lock: the read loop is its only user until then),  *)
(* and unless it was settled with yes there is never a second session,     *)
(* whatever the client sends while the first is in a conversation.         *)
NegotiationGuardsSessions ==
  \A i \in Objects : Alive(i) =>
    /\ sc \in {"yes", "no"}
    /\ sc = "no" => \A j \in Objects \ {i} : ~Alive(j)

(* Every session that is not stopped is the one its id leads to: two       *)
(* objects never serve one id, although an id may be in use again while    *)
(* the goroutine that had it before is still at work.                      *)
RunningIsMapped ==
  \A i \in Objects :
    Alive(i) /\ ~ses[i].stopped => sessions[ses[i].id] = i

(* A conversation never outlives the sessions of its id: who put it into   *)
(* the table of the AAA service last, or somebody after him, has still to  *)
(* run endAAA.                                                             *)
NoOrphanConversation ==
  \A id \in Ids : convs[id] # None =>
    \E i \in Objects : Alive(i) /\ ses[i].id = id

(* After the connection is closed every goroutine of it ends, also one     *)
(* that waits for a packet, and no conversation is left behind.            *)
ClosedIsReaped ==
  ~open ~> /\ \A i \in Objects : ~Alive(i)
           /\ \A id \in Ids : convs[id] = None

(* docs/ARCHITECTURE.md: sessions bind the snapshot loaded at              *)
(* Authentication START.  Here: what a session continues is the            *)
(* conversation that its own START began.                                  *)
ContinuesOwnConversation ==
  \A i \in Objects : At(i, "verify") => ses[i].conv = i

=============================================================================
