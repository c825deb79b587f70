------------------------------ MODULE EventRing ------------------------------
(***************************************************************************)
(* The event ring (internal/events) and those who follow it: SSE streams   *)
(* of REST (internal/api/rest/events.go), listen streams of MCP            *)
(* (internal/api/mcp/listen.go) and pagers of the events.list operation.   *)
(*                                                                         *)
(* Accept is one step under the ring's lock: it numbers the event, puts it *)
(* over the oldest one when the ring is full, and offers it to every       *)
(* mailbox; a full mailbox detaches its subscriber.  A stream subscribes,  *)
(* replays what its client missed, and goes live, in separate lock         *)
(* regions.  The client's side is part of the model: it may hang up while  *)
(* bytes are under way, and comes back with the last id it received.       *)
(***************************************************************************)
EXTENDS Integers, Sequences, FiniteSets

CONSTANTS
  RestClients, McpClients, Pagers,
  Sink,            \* stands for a configured stdout sink
  Populations,     \* who may be around: sets of consumers, and the sink
  Produced,        \* the kinds of events the daemon's parts produce
  Cap,             \* ring capacity
  SubBuf,          \* capacity of a mailbox
  StdoutBuf,       \* capacity of the stdout queue
  MaxSubscribers,
  PageLimit,
  MaxSeq,          \* bound: events accepted
  MaxRevision,     \* bound: revisions published
  None             \* no Last-Event-ID, no cursor

(* An event matches the consumers' filter, or does not, or is suppressed   *)
(* from export.                                                            *)
Kinds == {"match", "other", "hidden"}

Streams == RestClients \cup McpClients
Consumers == RestClients \cup Pagers

ASSUME RingAssumption ==
  /\ {Cap, SubBuf, StdoutBuf, MaxSubscribers, PageLimit} \subseteq Nat \ {0}
  /\ RestClients \cap McpClients = {} /\ Streams \cap Pagers = {}
  /\ None \notin Nat
  /\ Produced \subseteq Kinds

VARIABLES
  present, \* the population of this run; it never changes
  ring,    \* buf, start, n, overwritten and closed of the ring
  log,     \* the kind of every accepted event; Ring.seq is its length
  out,     \* stdout: lines queued, written and dropped
  subs,    \* Ring.subs, by the stream that owns the mailbox
  admitted,
  h,       \* the handler of each stream
  up,      \* the client is still connected
  known,   \* the last id a REST client received; the cursor of a pager
  msg,     \* the last message to each consumer (read by the properties)
  rev,     \* the published revision
  done     \* the server's Done channel is closed

vars == <<present, ring, log, out, subs, admitted, h, up, known, msg, rev, done>>

seq == Len(log)
NoHandler == [pc |-> "none", box |-> <<>>, drop |-> FALSE,
              base |-> 0, last |-> 0, todo |-> <<>>, lastRev |-> 0, notified |-> 0]
NoMessage == [ids |-> {}, reset |-> FALSE]

Init ==
  /\ present \in Populations
  /\ ring = [buf |-> [i \in 0..Cap-1 |-> 0], start |-> 0, n |-> 0,
             overwritten |-> 0, closed |-> FALSE]
  /\ log = <<>>
  /\ out = [queued |-> 0, written |-> 0, dropped |-> 0]
  /\ subs = {}
  /\ admitted = 0
  /\ h = [c \in Streams |-> NoHandler]
  /\ up = [c \in Streams |-> FALSE]
  /\ known = [c \in Consumers |-> None]
  /\ msg = [c \in Consumers |-> NoMessage]
  /\ rev = 1
  /\ done = FALSE

-----------------------------------------------------------------------------
(* Accept                                                                  *)

(* The ring with the event of this id stored.                              *)
Stored(id) ==
  IF ring.n = Cap
  THEN [ring EXCEPT !.buf[ring.start] = id,
                    !.start = (ring.start + 1) % Cap,
                    !.overwritten = @ + 1]
  ELSE [ring EXCEPT !.buf[(ring.start + ring.n) % Cap] = id, !.n = @ + 1]

emitStdout ==
  IF Sink \notin present THEN out
  ELSE IF out.queued < StdoutBuf THEN [out EXCEPT !.queued = @ + 1]
                            ELSE [out EXCEPT !.dropped = @ + 1]

HasSpace(c) == Len(h[c].box) < SubBuf

(* Seeded fault: a full mailbox misses the event and stays subscribed.     *)
fanoutLocked_Skip(id) ==
  /\ h' = [c \in Streams |-> IF c \in subs /\ HasSpace(c)
                             THEN [h[c] EXCEPT !.box = Append(@, id)] ELSE h[c]]
  /\ UNCHANGED subs

(* fanoutLocked: the event goes into every mailbox with space; the others  *)
(* are detached and signalled.                                             *)
fanoutLocked(id) ==
  /\ h' = [c \in Streams |->
             CASE c \in subs /\ HasSpace(c)  -> [h[c] EXCEPT !.box = Append(@, id)]
               [] c \in subs /\ ~HasSpace(c) -> [h[c] EXCEPT !.drop = TRUE]
               [] OTHER -> h[c]]
  /\ subs' = {c \in subs : HasSpace(c)}

Accept(k) ==
  /\ ~ring.closed
  /\ seq < MaxSeq
  /\ log' = Append(log, k)
  /\ ring' = Stored(seq + 1)
  /\ IF k = "hidden" THEN UNCHANGED <<out, subs, h>>
     ELSE out' = emitStdout /\ fanoutLocked(seq + 1)
  /\ UNCHANGED <<admitted, up, known, msg, rev, done>>

(* The publication hook of the state manager: a mutation appends the       *)
(* revision-changed event, which no consumer's filter asks for.            *)
PublishRevision ==
  /\ rev < MaxRevision
  /\ rev' = rev + 1
  /\ IF ring.closed \/ seq = MaxSeq THEN UNCHANGED <<ring, log, out, subs, h>>
     ELSE /\ log' = Append(log, "other") /\ ring' = Stored(seq + 1)
          /\ out' = emitStdout /\ fanoutLocked(seq + 1)
  /\ UNCHANGED <<admitted, up, known, msg, done>>

(* The stdout goroutine writes one line; after Close it may go on until    *)
(* its select takes the stop channel, which writes nothing.                *)
stdoutLoop ==
  /\ out.queued > 0
  /\ out' = [out EXCEPT !.queued = @ - 1, !.written = @ + 1]
  /\ UNCHANGED <<ring, log, subs, admitted, h, up, known, msg, rev, done>>

-----------------------------------------------------------------------------
(* Reading                                                                 *)

(* The retained events, the oldest first, and where among them are those   *)
(* that a query after this id is about.                                    *)
Retained == [i \in 1..ring.n |-> ring.buf[(ring.start + i - 1) % Cap]]
Matching(after) == {i \in 1..ring.n : Retained[i] > after /\ log[Retained[i]] = "match"}

(* Seeded fault: the distance to the oldest event is off by one.           *)
Evicted_OffByOne(after) ==
  ring.n > 0 /\ after > 0 /\ Retained[1] > 1 /\ after < Retained[1] - 2

(* An event after the cursor may have been overwritten.                    *)
Evicted(after) ==
  ring.n > 0 /\ after > 0 /\ Retained[1] > 1 /\ after < Retained[1] - 1

(* The k-th of these places, from the oldest event on.                     *)
Nth(places, k) == CHOOSE i \in places : Cardinality({j \in places : j < i}) = k - 1

(* readLocked.                                                             *)
readLocked(after, limit) ==
  LET m == Matching(after)
      n == IF Cardinality(m) < limit THEN Cardinality(m) ELSE limit
      items == [k \in 1..n |-> Retained[Nth(m, k)]]
      next == IF n = 0 THEN after ELSE items[n]
  IN [items |-> items, next |-> next, reset |-> Evicted(after), more |-> Matching(next) # {}]

(* handleListEvents: one page; the cursor of the next one is given out     *)
(* only when there is more, otherwise the pager begins again.              *)
ListEvents(c) ==
  LET after == IF known[c] = None THEN 0 ELSE known[c]
      page == readLocked(after, PageLimit)
  IN /\ c \in present
     /\ known' = [known EXCEPT ![c] =
                    IF page.more /\ page.next # 0 THEN page.next ELSE None]
     /\ msg' = [msg EXCEPT ![c] = [ids |-> {page.items[k] : k \in 1..Len(page.items)},
                                     reset |-> page.reset]]
     /\ UNCHANGED <<ring, log, out, subs, admitted, h, up, rev, done>>

-----------------------------------------------------------------------------
(* Streams                                                                 *)

MayAdmit == ~ring.closed /\ admitted < MaxSubscribers

(* TrySubscribe, and the handler's own start.  A refused client is told so *)
(* by an error response and may try again.  Only a REST client that has    *)
(* received an id sends Last-Event-ID and gets a replay; the listen        *)
(* handler loaded its snapshot before.                                     *)
Open(c, loaded) ==
  /\ c \in present
  /\ h[c].pc = "none" /\ ~done
  /\ MayAdmit
  /\ admitted' = admitted + 1
  /\ subs' = subs \cup {c}
  /\ up' = [up EXCEPT ![c] = TRUE]
  /\ LET resumes == c \in RestClients /\ known[c] # None
         listens == c \in McpClients
     IN h' = [h EXCEPT ![c] =
                [pc |-> IF resumes THEN "replay" ELSE "live", box |-> <<>>, drop |-> FALSE, base |-> seq,
                 last |-> IF resumes THEN known[c] ELSE 0, todo |-> <<>>,
                 lastRev |-> IF listens THEN loaded ELSE 0, notified |-> IF listens THEN seq ELSE 0]]
  /\ UNCHANGED <<ring, log, out, known, msg, rev, done>>

(* A written frame reaches the client unless it has hung up.               *)
Receives(c, id, m) ==
  IF up[c]
  THEN known' = [known EXCEPT ![c] = id] /\ msg' = [msg EXCEPT ![c] = m]
  ELSE UNCHANGED <<known, msg>>

Event(id) == [ids |-> {id}, reset |-> FALSE]
Lost == [ids |-> {}, reset |-> TRUE]

(* The page of the replay is read under the ring's lock; a reset frame,    *)
(* with id 0, comes before its events.                                     *)
Replay(c) ==
  /\ h[c].pc = "replay"
  /\ LET page == readLocked(h[c].last, Cap)
     IN /\ h' = [h EXCEPT ![c].pc = "send", ![c].todo = page.items]
        /\ IF page.reset THEN Receives(c, 0, Lost) ELSE UNCHANGED <<known, msg>>
  /\ UNCHANGED <<ring, log, out, subs, admitted, up, rev, done>>

(* One event of the replay, or the way into the live loop.                 *)
SendReplay(c) ==
  /\ h[c].pc = "send"
  /\ IF h[c].todo = <<>>
     THEN h' = [h EXCEPT ![c].pc = "live"] /\ UNCHANGED <<known, msg>>
     ELSE /\ Receives(c, Head(h[c].todo), Event(Head(h[c].todo)))
          /\ h' = [h EXCEPT ![c].last = Head(h[c].todo), ![c].todo = Tail(@)]
  /\ UNCHANGED <<ring, log, out, subs, admitted, up, rev, done>>

(* What the live loop sends of its mailbox.                                *)
Wants(c, id) == id > h[c].last /\ log[id] = "match"

(* The live loop of REST takes an event from its mailbox.                  *)
TakeRest(c) ==
  /\ c \in RestClients /\ h[c].pc = "live" /\ h[c].box # <<>>
  /\ LET id == Head(h[c].box)
     IN IF Wants(c, id)
        THEN /\ Receives(c, id, Event(id))
             /\ h' = [h EXCEPT ![c].box = Tail(@), ![c].last = id]
        ELSE h' = [h EXCEPT ![c].box = Tail(@)] /\ UNCHANGED <<known, msg>>
  /\ UNCHANGED <<ring, log, out, subs, admitted, up, rev, done>>

(* Seeded fault: the revision is noticed only with an event.               *)
Tick_Idle(c) == FALSE
(* The ticker of a listen stream compares the revision.                    *)
Tick(c) ==
  /\ c \in McpClients /\ h[c].pc = "live"
  /\ h[c].lastRev # rev
  /\ h' = [h EXCEPT ![c].lastRev = rev]
  /\ UNCHANGED <<ring, log, out, subs, admitted, up, known, msg, rev, done>>

(* The listen loop takes an event: it announces that the events resource   *)
(* changed, whatever the event was, and a new revision.                    *)
TakeMcp(c) ==
  /\ c \in McpClients /\ h[c].pc = "live" /\ h[c].box # <<>>
  /\ h' = [h EXCEPT ![c].box = Tail(@), ![c].notified = Head(h[c].box),
                    ![c].lastRev = rev]
  /\ UNCHANGED <<ring, log, out, subs, admitted, up, known, msg, rev, done>>

(* The drop channel is closed: REST sends a reset frame and ends, the      *)
(* listen stream completes.                                                *)
Dropped(c) ==
  /\ h[c].pc = "live" /\ h[c].drop
  /\ h' = [h EXCEPT ![c].pc = "detach"]
  /\ IF c \in RestClients THEN Receives(c, 0, Lost) ELSE UNCHANGED <<known, msg>>
  /\ UNCHANGED <<ring, log, out, subs, admitted, up, rev, done>>

(* The client hangs up, or the network does.                               *)
HangUp(c) ==
  /\ up[c]
  /\ up' = [up EXCEPT ![c] = FALSE]
  /\ UNCHANGED <<ring, log, out, subs, admitted, h, known, msg, rev, done>>

(* The handler sees that its client is gone or the server is stopping.     *)
SeesEnd(c) ==
  /\ h[c].pc \in {"replay", "send", "live"}
  /\ ~up[c] \/ done
  /\ h' = [h EXCEPT ![c].pc = "detach"]
  /\ UNCHANGED <<ring, log, out, subs, admitted, up, known, msg, rev, done>>

(* valid() fails: the credential was revoked (see ControlSessions).        *)
Revoked(c) ==
  /\ h[c].pc \in {"send", "live"}
  /\ h' = [h EXCEPT ![c].pc = "detach"]
  /\ UNCHANGED <<ring, log, out, subs, admitted, up, known, msg, rev, done>>

(* cancel: the mailbox leaves the fan-out ...                              *)
Detach(c) ==
  /\ h[c].pc = "detach"
  /\ subs' = subs \ {c}
  /\ h' = [h EXCEPT ![c].pc = "release"]
  /\ UNCHANGED <<ring, log, out, admitted, up, known, msg, rev, done>>

(* ... and the admission is given back under a second lock.                *)
Release(c) ==
  /\ h[c].pc = "release"
  /\ admitted' = admitted - 1
  /\ h' = [h EXCEPT ![c] = NoHandler]
  /\ up' = [up EXCEPT ![c] = FALSE]
  /\ UNCHANGED <<ring, log, out, subs, known, msg, rev, done>>

-----------------------------------------------------------------------------
(* Shutdown                                                                *)

(* beginShutdown closes the Done channel of both stream adapters.          *)
BeginShutdown ==
  /\ ~done
  /\ done' = TRUE
  /\ UNCHANGED <<ring, log, out, subs, admitted, h, up, known, msg, rev>>

(* Close: the fan-out ends, and every mailbox that was in it is signalled. *)
Close ==
  /\ done /\ ~ring.closed
  /\ ring' = [ring EXCEPT !.closed = TRUE]
  /\ subs' = {}
  /\ h' = [c \in Streams |-> IF c \in subs THEN [h[c] EXCEPT !.drop = TRUE] ELSE h[c]]
  /\ UNCHANGED <<log, out, admitted, up, known, msg, rev, done>>

StreamStep(c) ==
  \/ Replay(c) \/ SendReplay(c) \/ TakeRest(c) \/ TakeMcp(c)
  \/ Dropped(c) \/ SeesEnd(c) \/ Detach(c) \/ Release(c)

Step ==
  \/ \E k \in Produced : Accept(k)
  \/ PublishRevision
  \/ stdoutLoop
  \/ \E c \in Pagers : ListEvents(c)
  \/ \E c \in Streams :
       \/ \E loaded \in 1..rev : Open(c, loaded)
       \/ StreamStep(c)
       \/ Tick(c) \/ HangUp(c) \/ Revoked(c)
  \/ BeginShutdown
  \/ Close

Next == Step /\ UNCHANGED present

(* Handlers and their tickers run; nothing is assumed of clients, of the   *)
(* producers of events or of the shutdown.                                 *)
Fairness ==
  /\ \A c \in Streams : WF_vars(StreamStep(c) /\ UNCHANGED present)
                        /\ WF_vars(Tick(c) /\ UNCHANGED present)
  /\ WF_vars(stdoutLoop /\ UNCHANGED present)

Spec == Init /\ [][Next]_vars /\ Fairness

-----------------------------------------------------------------------------
(* Properties                                                              *)

(* What a REST client or pager knows, as a position in the log: a client   *)
(* that has no id follows from the moment it subscribed.                   *)
Position(c) ==
  CASE known[c] = 0 -> None
    [] known[c] = None /\ c \in RestClients /\ h[c].pc # "none" /\ up[c] -> h[c].base
    [] OTHER -> known[c]

(* The consumers of the ring see an ever growing log without holes, unless *)
(* they are told that events were lost: what readLocked, the replay, the   *)
(* mailboxes and the reset frames are for.                                 *)
Log == INSTANCE EventLog WITH
         Wanted <- {"match"},
         Nowhere <- None,
         pos <- [c \in Consumers |-> Position(c)],
         heard <- [c \in Consumers |-> msg[c].ids],
         told <- [c \in Consumers |-> msg[c].reset]
ImplementsLog == Log!Spec

(* A matching event accepted while a stream is live reaches its client, or *)
(* the stream ends: a mailbox is drained or given up (fanoutLocked and the *)
(* live loops).                                                            *)
DeliveredOrEnded ==
  \A c \in RestClients : \A i \in 1..MaxSeq :
    (seq = i /\ log[i] = "match" /\ h[c].pc # "none" /\ h[c].base < i)
      ~> (h[c].pc = "none" \/ (known[c] # None /\ known[c] >= i))

(* A listen stream that stays open announces the newest exported event and *)
(* the newest revision.                                                    *)
AnnouncedOrEnded ==
  \A c \in McpClients :
    /\ \A r \in 1..MaxRevision :
         (rev = r /\ h[c].pc # "none") ~> (h[c].pc = "none" \/ h[c].lastRev >= r)
    /\ \A i \in 1..MaxSeq :
         (seq = i /\ log[i] # "hidden" /\ h[c].pc # "none")
           ~> (h[c].pc = "none" \/ h[c].notified >= i)

=============================================================================
