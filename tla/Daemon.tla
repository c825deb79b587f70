------------------------------- MODULE Daemon -------------------------------
(***************************************************************************)
(* The life of the daemon (cmd/taclabd/serve.go): listeners are bound one  *)
(* after the other, collected in a registry (internal/runtime), launched,  *)
(* and drained when a signal or a failure ends the service.  The accept    *)
(* loops of internal/tacacs/legacy, internal/tacacs/tls and                *)
(* internal/radius/tls run beside it, with their connections, watchers and *)
(* wait groups; a RADIUS/UDP listener appears with its queued datagrams.   *)
(*                                                                         *)
(* What a connection does is in TacacsConn and RadSec; here it occupies a  *)
(* slot, is waited for, and ends when it likes or when it is told to.      *)
(***************************************************************************)
EXTENDS Naturals, Sequences, FiniteSets, SequencesExt

CONSTANTS
  Listeners,   \* listener ids
  Kind,        \* "tacacs", "radsec" or "udp"
  BindOf,      \* net, host and port of each; host "*" is a wildcard, port 0 ephemeral
  Order,       \* the ids in registry order
  Optional,    \* listeners that are not required
  Aaa,         \* listeners that carry authentication or accounting
  Conns,       \* connections, or datagrams
  MaxConns,    \* max_connections of each listener
  Setups       \* documents: enabled listeners, HTTP, metrics, admin_only, and what fails

ASSUME DaemonAssumption ==
  /\ Kind \in [Listeners -> {"tacacs", "radsec", "udp"}]
  /\ ToSet(Order) = Listeners /\ IsInjective(Order)
  /\ MaxConns \in Nat \ {0}
  /\ \A s \in Setups : IsInjective(s.build) /\ ToSet(s.build) \subseteq Listeners

VARIABLES
  setup,     \* never changes
  pc,        \* the goroutine of runServeWith
  sock,      \* the listening sockets
  loop,      \* the accept loops
  rdy,       \* the ready flags
  closed,    \* Listener.closed of RADIUS/TLS; connCancel called for TACACS+
  conn,      \* connections
  cut,       \* connections closed by closeActive
  ctx,       \* serveCtx is done
  unready,   \* streamStop is closed
  errc,      \* what the accept loops returned
  grace,     \* the shutdown deadline
  drain,     \* listeners the registry has still to drain, and how far it is
  http, obs, \* the admin and the metrics server
  exit       \* what runServeWith returns

vars == <<setup, pc, sock, loop, rdy, closed, conn, cut, ctx, unready, errc, grace,
          drain, http, obs, exit>>

NoConn == [pc |-> "none", at |-> "none"]

Init ==
  /\ setup \in Setups
  /\ pc = "load"
  /\ sock = [l \in Listeners |-> "none"]
  /\ loop = [l \in Listeners |-> "none"]
  /\ rdy = [l \in Listeners |-> FALSE]
  /\ closed = {}
  /\ conn = [c \in Conns |-> NoConn]
  /\ cut = {}
  /\ ctx = FALSE
  /\ unready = FALSE
  /\ errc = <<>>
  /\ grace = "off"
  /\ drain = [todo |-> <<>>, pc |-> "idle"]
  /\ http = "off"
  /\ obs = "off"
  /\ exit = "none"

-----------------------------------------------------------------------------
(* Startup                                                                 *)

Enabled == ToSet(setup.build)
Bound == {l \in Listeners : sock[l] # "none"}
InOrder(ls) == SelectSeq(Order, LAMBDA l : l \in ls)

(* cleanup: what has been bound is closed again, and the error returned.   *)
Cleanup ==
  /\ sock' = [l \in Listeners |-> IF l \in Bound THEN "closed" ELSE sock[l]]
  /\ pc' = "returned"
  /\ exit' = "error"

(* The document is loaded and validated, and asks for something to serve.  *)
Load ==
  /\ pc = "load"
  /\ IF setup.fails = "load" \/ (Enabled \cap Aaa = {} /\ ~setup.adminOnly)
     THEN pc' = "returned" /\ exit' = "error"
     ELSE pc' = "build" /\ exit' = exit
  /\ UNCHANGED <<sock, loop, rdy, closed, conn, cut, ctx, unready, errc, grace, drain, http, obs>>

(* The next Listen of runServeWith, in the order of the source.            *)
Listen ==
  /\ pc = "build"
  /\ IF Bound = Enabled
     THEN pc' = "registry" /\ UNCHANGED <<sock, exit>>
     ELSE LET l == setup.build[Cardinality(Bound) + 1]
          IN IF setup.fails = l THEN Cleanup
             ELSE sock' = [sock EXCEPT ![l] = "open"] /\ UNCHANGED <<pc, exit>>
  /\ UNCHANGED <<loop, rdy, closed, conn, cut, ctx, unready, errc, grace, drain, http, obs>>

(* bindsConflict.                                                          *)
bindsConflict(a, b) ==
  /\ a.net = b.net /\ a.port = b.port /\ a.port # 0
  /\ a.host = "*" \/ b.host = "*" \/ a.host = b.host

(* runtime.New refuses listeners that would share an address.              *)
NewRegistry ==
  /\ pc = "registry"
  /\ IF \E l, k \in Enabled : l # k /\ bindsConflict(BindOf[l], BindOf[k])
     THEN Cleanup
     ELSE pc' = "start" /\ UNCHANGED <<sock, exit>>
  /\ UNCHANGED <<loop, rdy, closed, conn, cut, ctx, unready, errc, grace, drain, http, obs>>

(* Registry.Start: one goroutine for each listener.                        *)
Start ==
  /\ pc = "start"
  /\ loop' = [l \in Listeners |-> IF l \in Enabled THEN "launched" ELSE loop[l]]
  /\ pc' = "obs"
  /\ UNCHANGED <<sock, rdy, closed, conn, cut, ctx, unready, errc, grace, drain, http, obs, exit>>

(* Registry.Drain is about to begin with the last listener.                *)
Draining == [todo |-> Reverse(InOrder(Enabled)), pc |-> "next"]

(* A server beside the listeners cannot be started: they are drained       *)
(* without a deadline.                                                     *)
Abort ==
  /\ pc' = "abort"
  /\ drain' = Draining
  /\ exit' = "error"

ListenObs ==
  /\ pc = "obs"
  /\ IF setup.fails = "obs" THEN Abort /\ UNCHANGED obs
     ELSE pc' = "http" /\ obs' = setup.obs /\ UNCHANGED <<drain, exit>>
  /\ UNCHANGED <<sock, loop, rdy, closed, conn, cut, ctx, unready, errc, grace, http>>

StartHTTP ==
  /\ pc = "http"
  /\ IF setup.fails = "http" THEN Abort /\ UNCHANGED http
     ELSE pc' = "serving" /\ http' = setup.http /\ UNCHANGED <<drain, exit>>
  /\ UNCHANGED <<sock, loop, rdy, closed, conn, cut, ctx, unready, errc, grace, obs>>

-----------------------------------------------------------------------------
(* The accept loops                                                        *)

Serve(l) ==
  /\ loop[l] = "launched"
  /\ loop' = [loop EXCEPT ![l] = "running"]
  /\ rdy' = [rdy EXCEPT ![l] = TRUE]
  /\ UNCHANGED <<pc, sock, closed, conn, cut, ctx, unready, errc, grace, drain, http, obs, exit>>

(* The loop returns: nil when the socket was closed, or the accept error,  *)
(* which leaves the socket open.                                           *)
ServeEnds(l, how) ==
  /\ loop[l] = "running"
  /\ how = (IF sock[l] = "closed" THEN "nil" ELSE "error")
  /\ how = "error" => setup.fails = "accept"
  /\ loop' = [loop EXCEPT ![l] = "ended"]
  /\ rdy' = [rdy EXCEPT ![l] = FALSE]
  /\ errc' = Append(errc, how)
  /\ UNCHANGED <<pc, sock, closed, conn, cut, ctx, unready, grace, drain, http, obs, exit>>

(* The watcher of the loop closes the socket when serveCtx is done.        *)
WatchCtx(l) ==
  /\ ctx /\ loop[l] \in {"running", "ended"} /\ sock[l] = "open"
  /\ sock' = [sock EXCEPT ![l] = "closed"]
  /\ UNCHANGED <<pc, loop, rdy, closed, conn, cut, ctx, unready, errc, grace, drain, http, obs, exit>>

At(c, l) == conn[c].at = l
Holds(c) == conn[c].pc \in {"tracked", "serving"}
Counted(c) == conn[c].pc \in {"counted", "serving"}
Slots(l) == {c \in Conns : At(c, l) /\ Holds(c)}
Waited(l) == {c \in Conns : At(c, l) /\ Counted(c)}
HasSlot(l) == Cardinality(Slots(l)) < MaxConns

(* Accept returns a connection.  The goroutine that will serve it does not *)
(* exist yet; a datagram goes straight to the workers.                     *)
Accept(l, c) ==
  /\ loop[l] = "running" /\ sock[l] = "open"
  /\ conn[c] = NoConn
  /\ Kind[l] = "udp" => HasSlot(l)
  /\ conn' = [conn EXCEPT ![c] = [pc |-> IF Kind[l] = "udp" THEN "serving" ELSE "accepted",
                                  at |-> l]]
  /\ UNCHANGED <<pc, sock, loop, rdy, closed, cut, ctx, unready, errc, grace, drain, http, obs, exit>>

Gone(c) == conn' = [conn EXCEPT ![c] = NoConn]
Goto(c, p) == conn' = [conn EXCEPT ![c].pc = p]

(* TACACS+: the wait group, then a slot of the engine, or none.            *)
AdmitTacacs(c) ==
  /\ Kind[conn[c].at] = "tacacs"
  /\ \/ conn[c].pc = "accepted" /\ Goto(c, "counted")
     \/ conn[c].pc = "counted" /\ IF HasSlot(conn[c].at) THEN Goto(c, "serving") ELSE Gone(c)

(* RADIUS/TLS: the table of active connections, then the wait group.       *)
AdmitRadSec(c) ==
  /\ Kind[conn[c].at] = "radsec"
  /\ \/ conn[c].pc = "accepted" /\ IF HasSlot(conn[c].at) THEN Goto(c, "tracked") ELSE Gone(c)
     \/ conn[c].pc = "tracked" /\ Goto(c, "serving")

Admit(c) ==
  /\ conn[c].pc # "none"
  /\ AdmitTacacs(c) \/ AdmitRadSec(c)
  /\ UNCHANGED <<pc, sock, loop, rdy, closed, cut, ctx, unready, errc, grace, drain, http, obs, exit>>

(* A connection that has been told to end: its context is cancelled, its   *)
(* socket closed, or its loop finds the listener closed at the next packet *)
(* or at the idle deadline.  A worker finishes its datagram by itself.     *)
Told(c) ==
  CASE Kind[conn[c].at] = "tacacs" -> conn[c].at \in closed
    [] Kind[conn[c].at] = "radsec" -> c \in cut \/ conn[c].at \in closed \/ ctx
    [] OTHER -> TRUE

(* A connection ends, for whatever reason: the slot and the wait group are *)
(* given back.                                                             *)
End(c) ==
  /\ conn[c].pc = "serving"
  /\ Gone(c)
  /\ cut' = cut \ {c}
  /\ UNCHANGED <<pc, sock, loop, rdy, closed, ctx, unready, errc, grace, drain, http, obs, exit>>

-----------------------------------------------------------------------------
(* Service and its end                                                     *)

(* The ready function of startHTTP.                                        *)
Ready ==
  /\ http = "up" /\ ~unready
  /\ \A l \in Enabled \ Optional : rdy[l]
  /\ setup.adminOnly \/ \E l \in Enabled \cap Aaa : rdy[l]

Signal ==
  /\ pc \notin {"load", "build", "registry", "returned"} /\ ~ctx
  /\ ctx' = TRUE
  /\ UNCHANGED <<pc, sock, loop, rdy, closed, conn, cut, unready, errc, grace, drain, http, obs, exit>>

(* The select: a returned accept loop, or the signal.                      *)
Select ==
  /\ pc = "serving"
  /\ ctx \/ errc # <<>>
  /\ pc' = "unready"
  /\ exit' = IF errc # <<>> /\ Head(errc) = "error" THEN "error" ELSE "ok"
  /\ UNCHANGED <<sock, loop, rdy, closed, conn, cut, ctx, unready, errc, grace, drain, http, obs>>

(* Seeded fault: readiness is left to the flags of the listeners.          *)
BeginShutdown_Flags == unready' = unready
(* beginShutdown closes streamStop, unless there is no admin server.       *)
BeginShutdown == unready' = (unready \/ http # "off")

MarkUnready ==
  /\ pc = "unready"
  /\ BeginShutdown
  /\ pc' = "stop"
  /\ UNCHANGED <<sock, loop, rdy, closed, conn, cut, ctx, errc, grace, drain, http, obs, exit>>

(* stop(), the deadline, and three goroutines that shut down under it.     *)
Stop ==
  /\ pc = "stop"
  /\ ctx' = TRUE
  /\ grace' = "running"
  /\ drain' = Draining
  /\ http' = IF http = "up" THEN "closing" ELSE http
  /\ obs' = IF obs = "up" THEN "closing" ELSE obs
  /\ pc' = "shutdown"
  /\ UNCHANGED <<sock, loop, rdy, closed, conn, cut, unready, errc, exit>>

GraceOver ==
  /\ grace = "running"
  /\ grace' = "over"
  /\ UNCHANGED <<pc, sock, loop, rdy, closed, conn, cut, ctx, unready, errc, drain, http, obs, exit>>

(* http.Server.Shutdown: the last request is answered, or the deadline     *)
(* passes and the connections are closed by force.                         *)
HttpDown(forced) ==
  /\ http = "closing"
  /\ forced => grace = "over"
  /\ http' = "down"
  /\ exit' = IF forced THEN "error" ELSE exit
  /\ UNCHANGED <<pc, sock, loop, rdy, closed, conn, cut, ctx, unready, errc, grace, drain, obs>>

(* The metrics server is closed by its own watcher of serveCtx.            *)
ObsDown ==
  /\ ctx /\ obs \in {"up", "closing"}
  /\ obs' = "down"
  /\ UNCHANGED <<pc, sock, loop, rdy, closed, conn, cut, ctx, unready, errc, grace, drain, http, exit>>

(* Drain of the next listener: unready, and no more connections.           *)
DrainBegin ==
  /\ drain.pc = "next" /\ drain.todo # <<>>
  /\ LET l == Head(drain.todo)
     IN /\ rdy' = [rdy EXCEPT ![l] = FALSE]
        /\ sock' = [sock EXCEPT ![l] = "closed"]
        /\ closed' = IF Kind[l] = "radsec" THEN closed \cup {l} ELSE closed
  /\ drain' = [drain EXCEPT !.pc = "wait"]
  /\ UNCHANGED <<pc, loop, conn, cut, ctx, unready, errc, grace, http, obs, exit>>

(* Seeded fault: the contexts of the connections are cancelled only when   *)
(* the deadline passes.                                                    *)
Cancelled_AtDeadline(l, over) == IF over THEN closed \cup {l} ELSE closed
(* connCancel at the end of Shutdown.                                      *)
Cancelled(l, over) == closed \cup {l}

(* The wait ends: the group was seen at zero, or the deadline passed.  A   *)
(* connection that was accepted but not yet counted is not waited for.     *)
DrainEnd(over) ==
  LET l == Head(drain.todo)
  IN /\ drain.pc = "wait"
     /\ IF over THEN grace = "over" ELSE Waited(l) = {}
     /\ closed' = IF Kind[l] = "tacacs" THEN Cancelled(l, over) ELSE closed
     /\ cut' = IF Kind[l] = "radsec" /\ over THEN cut \cup Slots(l) ELSE cut
     /\ drain' = [todo |-> Tail(drain.todo), pc |-> "next"]
     /\ UNCHANGED <<pc, sock, loop, rdy, conn, ctx, unready, errc, grace, http, obs, exit>>

Drained == drain.pc = "next" /\ drain.todo = <<>>

(* The three results are in, or the drain of an abandoned start is over;   *)
(* the deferred stop cancels serveCtx.                                     *)
Return ==
  /\ \/ pc = "shutdown" /\ http # "closing" /\ obs # "closing"
     \/ pc = "abort"
  /\ Drained
  /\ pc' = "returned"
  /\ ctx' = TRUE
  /\ UNCHANGED <<sock, loop, rdy, closed, conn, cut, unready, errc, grace, drain, http, obs, exit>>

-----------------------------------------------------------------------------
Main == \/ Load \/ Listen \/ NewRegistry \/ Start \/ ListenObs \/ StartHTTP
        \/ Select \/ MarkUnready \/ Stop \/ Return
LoopStep(l) == Serve(l) \/ ServeEnds(l, "nil") \/ WatchCtx(l)
DrainStep == DrainBegin \/ \E over \in BOOLEAN : DrainEnd(over)

Step ==
  \/ Main
  \/ \E l \in Listeners :
       \/ LoopStep(l) \/ ServeEnds(l, "error")
       \/ \E c \in Conns : Accept(l, c)
  \/ \E c \in Conns : Admit(c) \/ End(c)
  \/ Signal \/ GraceOver \/ ObsDown \/ DrainStep
  \/ \E forced \in BOOLEAN : HttpDown(forced)

Next == Step /\ UNCHANGED setup

(* Goroutines run, the deadline passes, and a connection that was told to  *)
(* end does.  Clients may hold on to theirs for ever.                      *)
Fairness ==
  /\ WF_vars(Main /\ UNCHANGED setup)
  /\ \A l \in Listeners : WF_vars(LoopStep(l) /\ UNCHANGED setup)
  /\ \A c \in Conns : /\ WF_vars(Admit(c) /\ UNCHANGED setup)
                      /\ WF_vars(End(c) /\ Told(c) /\ UNCHANGED setup)
  /\ WF_vars(GraceOver /\ UNCHANGED setup)
  /\ WF_vars(ObsDown /\ UNCHANGED setup)
  /\ WF_vars(DrainStep /\ UNCHANGED setup)
  /\ WF_vars(HttpDown(TRUE) /\ UNCHANGED setup)

Spec == Init /\ [][Next]_vars /\ Fairness

-----------------------------------------------------------------------------
(* Properties                                                              *)

(* The readiness probe tells the truth: while it succeeds, the daemon is   *)
(* past its start and not on its way down, no listener is over its limit,  *)
(* and the accept loop of every required listener runs on an open socket,  *)
(* or on one that the signal has just closed.                              *)
ReadyMeansServing ==
  /\ \A l \in Listeners : Cardinality(Slots(l)) <= MaxConns
  /\ Ready => /\ pc \in {"serving", "unready"}
              /\ \A l \in Enabled \ Optional :
                   loop[l] = "running" /\ (sock[l] = "open" \/ ctx)

(* Once the service is over, whatever ended it and whatever the clients    *)
(* do, the daemon returns, and then no socket, server or connection of it  *)
(* is left, those included that were accepted while the drain began.       *)
ShutdownLeavesNothing ==
  (pc = "unready") ~>
    /\ pc = "returned"
    /\ \A l \in Listeners : sock[l] # "open"
    /\ \A c \in Conns : conn[c] = NoConn
    /\ http # "up" /\ obs # "up"

=============================================================================
