---------------------------- MODULE DaemonProofs ----------------------------
(***************************************************************************)
(* Proofs about Daemon and RadSec, for any listeners and documents, any    *)
(* number of connections and any limit.                                    *)
(*                                                                         *)
(* The readiness probe looks at a flag of the admin server and at flags of *)
(* the listeners, each of which another goroutine writes.  The argument is *)
(* that the main goroutine cannot be past a point while these flags say    *)
(* otherwise: sockets are closed, and listeners drained, only after the    *)
(* probe has been told to fail, or once serveCtx is done.                  *)
(***************************************************************************)
EXTENDS Daemon, RadSec, FiniteSetTheorems, TLAPS

Early == {"load", "build", "registry", "start"}
Launched == {"obs", "http", "serving", "unready", "stop"}

TypesOK ==
  /\ setup \in Setups
  /\ sock \in [Listeners -> {"none", "open", "closed"}]
  /\ loop \in [Listeners -> {"none", "launched", "running", "ended"}]
  /\ rdy \in [Listeners -> BOOLEAN]
  /\ conn = [c \in Conns |-> conn[c]]

(* Sockets before the listeners are launched.                              *)
BuildOK ==
  /\ pc \in Early => \A l \in Listeners : loop[l] = "none" /\ sock[l] # "closed"
  /\ pc \in {"registry", "start"} => Bound = Enabled

(* While the service is up, an accept loop has an open socket, or the      *)
(* signal has come; the registry has not begun to drain.                   *)
ServiceOK ==
  /\ pc \in Launched => \A l \in Listeners : loop[l] \in {"launched", "running"} => sock[l] = "open" \/ ctx
  /\ pc \in Early \cup Launched => drain.pc = "idle"

(* What the probe reads.                                                   *)
ProbeOK ==
  /\ http = "up" => pc \in {"serving", "unready", "stop"}
  /\ pc = "stop" /\ http = "up" => unready
  /\ \A l \in Listeners : rdy[l] => loop[l] = "running"

LimitOK == \A l \in Listeners : IsFiniteSet(Slots(l)) /\ Cardinality(Slots(l)) <= MaxConns

DmInv == TypesOK /\ BuildOK /\ ServiceOK /\ ProbeOK /\ LimitOK

(* All but the limit of connections.                                       *)
PhaseOK == TypesOK /\ BuildOK /\ ServiceOK /\ ProbeOK

LEMMA EnabledFacts == setup \in Setups => Enabled \subseteq Listeners
  BY DaemonAssumption DEF Enabled

-----------------------------------------------------------------------------
(* The steps of the main goroutine                                         *)

LEMMA LoadStep ==
  ASSUME PhaseOK, setup' = setup, Load
  PROVE  PhaseOK'
  <1>1. UNCHANGED <<sock, loop, rdy, conn, ctx, unready, drain, http>> /\ pc = "load"
        /\ pc' \in {"returned", "build"}
    BY DEF Load
  <1>2. http # "up"
    BY <1>1 DEF PhaseOK, ProbeOK
  <1> QED BY <1>1, <1>2 DEF PhaseOK, TypesOK, BuildOK, ServiceOK, ProbeOK, Early, Launched

(* Starting is given up: what was bound is closed.                         *)
LEMMA CleanupMoves ==
  ASSUME PhaseOK, setup' = setup, Cleanup, pc \in Early,
         UNCHANGED <<loop, rdy, conn, ctx, unready, drain, http>>
  PROVE  PhaseOK'
  <1>1. http # "up"
    BY DEF PhaseOK, ProbeOK, Early
  <1>2. sock' \in [Listeners -> {"none", "open", "closed"}] /\ pc' = "returned"
    BY DEF Cleanup, PhaseOK, TypesOK
  <1> QED BY <1>1, <1>2 DEF PhaseOK, TypesOK, BuildOK, ServiceOK, ProbeOK, Early, Launched

LEMMA ListenStep ==
  ASSUME PhaseOK, setup' = setup, Listen
  PROVE  PhaseOK'
  <1>1. pc = "build" /\ UNCHANGED <<loop, rdy, conn, ctx, unready, drain, http>>
    BY DEF Listen
  <1>2. CASE Bound = Enabled /\ pc' = "registry" /\ UNCHANGED sock
    <2>1. Bound' = Enabled'
      BY <1>2 DEF Bound, Enabled
    <2> QED BY <1>1, <1>2, <2>1 DEF PhaseOK, TypesOK, BuildOK, ServiceOK, ProbeOK, Early, Launched
  <1>3. CASE Cleanup
    BY <1>1, <1>3, CleanupMoves DEF Early
  <1>4. CASE \E l : sock' = [sock EXCEPT ![l] = "open"] /\ UNCHANGED pc
    <2>1. PICK l : sock' = [sock EXCEPT ![l] = "open"] /\ UNCHANGED pc
      BY <1>4
    <2>2. /\ sock' \in [Listeners -> {"none", "open", "closed"}]
          /\ \A k \in Listeners : sock'[k] # "closed"
      BY <1>1, <2>1 DEF PhaseOK, TypesOK, BuildOK, Early
    <2> QED BY <1>1, <2>1, <2>2 DEF PhaseOK, TypesOK, BuildOK, ServiceOK, ProbeOK, Early, Launched
  <1> QED BY <1>2, <1>3, <1>4 DEF Listen

LEMMA NewRegistryStep ==
  ASSUME PhaseOK, setup' = setup, NewRegistry
  PROVE  PhaseOK'
  <1>1. pc = "registry" /\ UNCHANGED <<loop, rdy, conn, ctx, unready, drain, http>>
    BY DEF NewRegistry
  <1>2. CASE Cleanup
    BY <1>1, <1>2, CleanupMoves DEF Early
  <1>3. CASE pc' = "start" /\ UNCHANGED sock
    <2>1. Bound' = Enabled'
      BY <1>1, <1>3 DEF PhaseOK, BuildOK, Bound, Enabled
    <2> QED BY <1>1, <1>3, <2>1 DEF PhaseOK, TypesOK, BuildOK, ServiceOK, ProbeOK, Early, Launched
  <1> QED BY <1>2, <1>3 DEF NewRegistry

LEMMA StartStep ==
  ASSUME PhaseOK, setup' = setup, Start
  PROVE  PhaseOK'
  <1>1. /\ pc = "start" /\ pc' = "obs" /\ UNCHANGED <<sock, rdy, conn, ctx, unready, drain, http>>
        /\ loop' = [l \in Listeners |-> IF l \in Enabled THEN "launched" ELSE loop[l]]
    BY DEF Start
  <1>2. /\ \A l \in Listeners : loop[l] = "none" /\ sock[l] # "closed"
        /\ Bound = Enabled /\ http # "up"
    BY <1>1 DEF PhaseOK, BuildOK, ProbeOK, Early
  <1>3. \A l \in Listeners : l \in Enabled => sock[l] = "open"
    BY <1>2 DEF Bound, PhaseOK, TypesOK
  <1>4. \A l \in Listeners : ~rdy[l]
    BY <1>2 DEF PhaseOK, ProbeOK
  <1> QED BY <1>1, <1>2, <1>3, <1>4 DEF PhaseOK, TypesOK, BuildOK, ServiceOK, ProbeOK, Early, Launched

(* Later steps that leave sockets, loops and flags alone.                  *)
LEMMA PhaseMoves ==
  ASSUME PhaseOK, setup' = setup, pc \notin Early, pc' \notin Early,
         UNCHANGED <<sock, loop, rdy, conn>>, ctx => ctx',
         pc' \in Launched => pc \in Launched /\ drain' = drain,
         http' = "up" => /\ pc' \in {"serving", "unready", "stop"}
                         /\ pc' = "stop" => unready'
  PROVE  PhaseOK'
  BY DEF PhaseOK, TypesOK, BuildOK, ServiceOK, ProbeOK, Early, Launched

LEMMA LaterSteps ==
  ASSUME PhaseOK, setup' = setup,
         ListenObs \/ StartHTTP \/ Select \/ MarkUnready \/ Stop \/ Return
  PROVE  PhaseOK'
  <1>1. CASE ListenObs
    BY <1>1, PhaseMoves DEF ListenObs, Abort, PhaseOK, ProbeOK, Early, Launched
  <1>2. CASE StartHTTP
    BY <1>2, PhaseMoves DEF StartHTTP, Abort, PhaseOK, ProbeOK, Early, Launched
  <1>3. CASE Select
    BY <1>3, PhaseMoves DEF Select, PhaseOK, ProbeOK, Early, Launched
  <1>4. CASE MarkUnready
    BY <1>4, PhaseMoves DEF MarkUnready, BeginShutdown, PhaseOK, ProbeOK, Early, Launched
  <1>5. CASE Stop
    BY <1>5, PhaseMoves DEF Stop, PhaseOK, ProbeOK, Early, Launched
  <1>6. CASE Return
    BY <1>6, PhaseMoves DEF Return, PhaseOK, ProbeOK, Early, Launched
  <1> QED BY <1>1, <1>2, <1>3, <1>4, <1>5, <1>6


-----------------------------------------------------------------------------
(* The accept loops, the drain and the servers beside them                 *)

LEMMA ServeStep ==
  ASSUME PhaseOK, setup' = setup, NEW l \in Listeners, Serve(l)
  PROVE  PhaseOK'
  <1>1. /\ loop[l] = "launched" /\ loop' = [loop EXCEPT ![l] = "running"]
        /\ rdy' = [rdy EXCEPT ![l] = TRUE]
        /\ UNCHANGED <<pc, sock, conn, ctx, unready, drain, http>>
    BY DEF Serve
  <1>2. /\ loop' \in [Listeners -> {"none", "launched", "running", "ended"}] /\ loop'[l] = "running"
        /\ \A k \in Listeners : k # l => loop'[k] = loop[k]
    BY <1>1 DEF PhaseOK, TypesOK
  <1>3. /\ rdy' \in [Listeners -> BOOLEAN]
        /\ \A k \in Listeners : k # l => rdy'[k] = rdy[k]
    BY <1>1 DEF PhaseOK, TypesOK
  <1>4. pc \notin Early
    BY <1>1 DEF PhaseOK, BuildOK
  <1>5. TypesOK'
    BY <1>1, <1>2, <1>3 DEF PhaseOK, TypesOK
  <1>6. BuildOK'
    BY <1>1, <1>4 DEF BuildOK, Early
  <1>7. ServiceOK'
    BY <1>1, <1>2 DEF PhaseOK, ServiceOK
  <1>8. ProbeOK'
    BY <1>1, <1>2, <1>3 DEF PhaseOK, ProbeOK
  <1> QED BY <1>5, <1>6, <1>7, <1>8 DEF PhaseOK

LEMMA ServeEndsStep ==
  ASSUME PhaseOK, setup' = setup, NEW l \in Listeners, NEW how, ServeEnds(l, how)
  PROVE  PhaseOK'
  <1>1. /\ loop[l] = "running" /\ loop' = [loop EXCEPT ![l] = "ended"]
        /\ rdy' = [rdy EXCEPT ![l] = FALSE]
        /\ UNCHANGED <<pc, sock, conn, ctx, unready, drain, http>>
    BY DEF ServeEnds
  <1>2. /\ loop' \in [Listeners -> {"none", "launched", "running", "ended"}] /\ loop'[l] = "ended"
        /\ \A k \in Listeners : k # l => loop'[k] = loop[k]
    BY <1>1 DEF PhaseOK, TypesOK
  <1>3. /\ rdy' \in [Listeners -> BOOLEAN] /\ ~rdy'[l]
        /\ \A k \in Listeners : k # l => rdy'[k] = rdy[k]
    BY <1>1 DEF PhaseOK, TypesOK
  <1>4. pc \notin Early
    BY <1>1 DEF PhaseOK, BuildOK
  <1>5. TypesOK'
    BY <1>1, <1>2, <1>3 DEF PhaseOK, TypesOK
  <1>6. BuildOK'
    BY <1>1, <1>4 DEF BuildOK, Early
  <1>7. ServiceOK'
    BY <1>1, <1>2 DEF PhaseOK, ServiceOK
  <1>8. ProbeOK'
    BY <1>1, <1>2, <1>3 DEF PhaseOK, ProbeOK
  <1> QED BY <1>5, <1>6, <1>7, <1>8 DEF PhaseOK

LEMMA WatchCtxStep ==
  ASSUME PhaseOK, setup' = setup, NEW l \in Listeners, WatchCtx(l)
  PROVE  PhaseOK'
  <1>1. /\ ctx /\ loop[l] # "none" /\ sock' = [sock EXCEPT ![l] = "closed"]
        /\ UNCHANGED <<pc, loop, rdy, conn, ctx, unready, drain, http>>
    BY DEF WatchCtx
  <1>2. pc \notin Early
    BY <1>1 DEF PhaseOK, BuildOK
  <1>3. sock' \in [Listeners -> {"none", "open", "closed"}]
    BY <1>1 DEF PhaseOK, TypesOK
  <1> QED BY <1>1, <1>2, <1>3 DEF PhaseOK, TypesOK, BuildOK, ServiceOK, ProbeOK, Early

LEMMA DrainBeginStep ==
  ASSUME PhaseOK, setup' = setup, DrainBegin
  PROVE  PhaseOK'
  <1>1. PICK l : /\ rdy' = [rdy EXCEPT ![l] = FALSE]
                 /\ sock' = [sock EXCEPT ![l] = "closed"]
    BY DEF DrainBegin
  <1>2. drain.pc = "next" /\ UNCHANGED <<pc, loop, conn, ctx, unready, http>>
    BY DEF DrainBegin
  <1>3. pc \notin Early \cup Launched
    BY <1>2 DEF PhaseOK, ServiceOK
  <1>4. /\ sock' \in [Listeners -> {"none", "open", "closed"}]
    BY <1>1 DEF PhaseOK, TypesOK
  <1>5. rdy' \in [Listeners -> BOOLEAN] /\ \A k \in Listeners : rdy'[k] => rdy[k]
    BY <1>1 DEF PhaseOK, TypesOK
  <1> QED BY <1>2, <1>3, <1>4, <1>5 DEF PhaseOK, TypesOK, BuildOK, ServiceOK, ProbeOK, Early, Launched

LEMMA DrainEndStep ==
  ASSUME PhaseOK, setup' = setup, NEW over \in BOOLEAN, DrainEnd(over)
  PROVE  PhaseOK'
  <1>1. drain.pc = "wait" /\ UNCHANGED <<pc, sock, loop, rdy, conn, ctx, unready, http>>
    BY DEF DrainEnd
  <1>2. pc \notin Early \cup Launched
    BY <1>1 DEF PhaseOK, ServiceOK
  <1> QED BY <1>1, <1>2, PhaseMoves DEF PhaseOK, ProbeOK, Launched

(* Steps that change nothing the probe reads, or only take it down.        *)
LEMMA SideSteps ==
  ASSUME PhaseOK, setup' = setup,
         Signal \/ GraceOver \/ ObsDown \/ \E forced \in BOOLEAN : HttpDown(forced)
  PROVE  PhaseOK'
  <1>1. /\ UNCHANGED <<pc, sock, loop, rdy, conn, unready, drain>> /\ (ctx => ctx')
        /\ http' = "up" => http = "up"
    BY DEF Signal, GraceOver, ObsDown, HttpDown
  <1>2. TypesOK' /\ BuildOK'
    BY <1>1 DEF PhaseOK, TypesOK, BuildOK, Bound, Enabled
  <1>3. ServiceOK' /\ ProbeOK'
    BY <1>1 DEF PhaseOK, ServiceOK, ProbeOK
  <1> QED BY <1>2, <1>3 DEF PhaseOK

(* Steps of a connection.                                                  *)
LEMMA ConnPhase ==
  ASSUME PhaseOK, setup' = setup, conn' = [c \in Conns |-> conn'[c]],
         UNCHANGED <<pc, sock, loop, rdy, ctx, unready, drain, http>>
  PROVE  PhaseOK'
  BY DEF PhaseOK, TypesOK, BuildOK, ServiceOK, ProbeOK, Bound, Enabled

-----------------------------------------------------------------------------
(* The limit of connections                                                *)

LEMMA LimitKept ==
  ASSUME LimitOK, UNCHANGED conn
  PROVE  LimitOK'
  BY DEF LimitOK, Slots, At, Holds

(* One connection moves: it gets a slot only where there is one.           *)
LEMMA ConnMoves ==
  ASSUME DmInv, NEW c \in Conns, NEW b, conn' = [conn EXCEPT ![c] = b],
         \/ b.pc \notin {"tracked", "serving"}
         \/ Holds(c) /\ b.at = conn[c].at
         \/ HasSlot(b.at)
  PROVE  LimitOK' /\ conn' = [d \in Conns |-> conn'[d]]
  <1>1. /\ conn' = [d \in Conns |-> conn'[d]] /\ conn'[c] = b
        /\ \A d \in Conns : d # c => conn'[d] = conn[d]
    BY DEF DmInv, TypesOK
  <1>2. ASSUME NEW l \in Listeners
        PROVE  IsFiniteSet(Slots(l)') /\ Cardinality(Slots(l)') <= MaxConns
    <2>1. PICK S : S = Slots(l)
      OBVIOUS
    <2>2. PICK T : T = Slots(l)'
      OBVIOUS
    <2>3. IsFiniteSet(S) /\ Cardinality(S) <= MaxConns /\ Cardinality(S) \in Nat /\ MaxConns \in Nat
      BY <2>1, FS_CardinalityType, DaemonAssumption DEF DmInv, LimitOK
    <2>4. CASE T \subseteq S
      BY <2>2, <2>3, <2>4, FS_Subset, FS_CardinalityType
    <2>5. CASE ~(T \subseteq S)
      <3>1. T \subseteq S \cup {c} /\ c \notin S /\ c \in T
        BY <1>1, <2>1, <2>2, <2>5 DEF Slots, At, Holds
      <3>2. b.at = l /\ b.pc \in {"tracked", "serving"}
        BY <1>1, <2>2, <3>1 DEF Slots, At, Holds
      <3>3. ~(Holds(c) /\ b.at = conn[c].at)
        BY <2>1, <3>1, <3>2 DEF Slots, At
      <3>4. Cardinality(S) < MaxConns
        BY <2>1, <3>2, <3>3 DEF HasSlot
      <3>5. IsFiniteSet(S \cup {c}) /\ Cardinality(S \cup {c}) = Cardinality(S) + 1
        BY <2>3, <3>1, FS_AddElement
      <3>6. IsFiniteSet(T) /\ Cardinality(T) <= Cardinality(S \cup {c}) /\ Cardinality(T) \in Nat
        BY <3>1, <3>5, FS_Subset, FS_CardinalityType
      <3> QED BY <2>2, <2>3, <3>4, <3>5, <3>6
    <2> QED BY <2>4, <2>5
  <1> QED BY <1>1, <1>2 DEF LimitOK


LEMMA ConnSteps ==
  ASSUME DmInv, setup' = setup, NEW c \in Conns,
         (\E l \in Listeners : Accept(l, c)) \/ Admit(c) \/ End(c)
  PROVE  DmInv'
  <1>1. UNCHANGED <<pc, sock, loop, rdy, ctx, unready, drain, http>>
    BY DEF Accept, Admit, End
  <1>2. PhaseOK
    BY DEF DmInv, PhaseOK
  <1>3. ASSUME NEW b, conn' = [conn EXCEPT ![c] = b],
               \/ b.pc \notin {"tracked", "serving"}
               \/ Holds(c) /\ b.at = conn[c].at
               \/ HasSlot(b.at)
        PROVE  DmInv'
    <2>1. LimitOK' /\ conn' = [d \in Conns |-> conn'[d]]
      BY <1>3, ConnMoves
    <2>2. PhaseOK'
      BY <1>1, <1>2, <2>1, ConnPhase
    <2> QED BY <2>1, <2>2 DEF DmInv, PhaseOK
  <1>4. NoConn.pc \notin {"tracked", "serving"}
    BY DEF NoConn
  <1>5. CASE \E l \in Listeners : Accept(l, c)
    <2>1. PICK l \in Listeners : Accept(l, c)
      BY <1>5
    <2>2. PICK p : p = IF Kind[l] = "udp" THEN "serving" ELSE "accepted"
      OBVIOUS
    <2>3. PICK b : b = [pc |-> p, at |-> l]
      OBVIOUS
    <2>4. conn' = [conn EXCEPT ![c] = b] /\ b.at = l /\ b.pc = p
      BY <2>1, <2>2, <2>3 DEF Accept
    <2>5. b.pc \notin {"tracked", "serving"} \/ HasSlot(b.at)
      BY <2>1, <2>2, <2>4 DEF Accept
    <2> QED BY <2>4, <2>5, <1>3
  <1>6. CASE Admit(c)
    <2>1. CASE Gone(c)
      BY <2>1, <1>3, <1>4 DEF Gone
    <2>2. ASSUME NEW p, Goto(c, p), p = "counted" \/ HasSlot(conn[c].at) \/ Holds(c) PROVE DmInv'
      <3>1. PICK b : b = [conn[c] EXCEPT !.pc = p]
        OBVIOUS
      <3>2. conn' = [conn EXCEPT ![c] = b]
        BY <2>2, <3>1 DEF Goto
      <3>3. b.at = conn[c].at
        BY <3>1
      <3>4. p = "counted" => b.pc \notin {"tracked", "serving"}
        BY <3>1
      <3> QED BY <2>2, <3>2, <3>3, <3>4, <1>3
    <2>3. CASE AdmitTacacs(c)
      BY <2>1, <2>2, <2>3 DEF AdmitTacacs
    <2>4. CASE AdmitRadSec(c)
      BY <2>1, <2>2, <2>4 DEF AdmitRadSec, Holds
    <2> QED BY <1>6, <2>3, <2>4 DEF Admit
  <1>7. CASE End(c)
    BY <1>7, <1>3, <1>4 DEF End, Gone
  <1> QED BY <1>5, <1>6, <1>7

-----------------------------------------------------------------------------
(* The theorems                                                            *)

(* The inductive invariant: what the main goroutine has reached, the       *)
(* sockets, the loops and the flags fit together, and the slots in use are *)
(* within the limit.                                                       *)
THEOREM DaemonInductive == Spec => []DmInv
  <1>1. Init => DmInv
    <2> SUFFICES ASSUME Init PROVE DmInv
      OBVIOUS
    <2>1. TypesOK /\ BuildOK /\ ServiceOK /\ ProbeOK
      BY DEF Init, TypesOK, BuildOK, ServiceOK, ProbeOK, Early, Launched
    <2>2. LimitOK
      <3>1. \A l \in Listeners : Slots(l) = {}
        BY DEF Init, Slots, At, Holds, NoConn
      <3> QED BY <3>1, FS_EmptySet, DaemonAssumption DEF LimitOK
    <2> QED BY <2>1, <2>2 DEF DmInv
  <1>2. DmInv /\ [Next]_vars => DmInv'
    <2> SUFFICES ASSUME DmInv, [Next]_vars PROVE DmInv'
      OBVIOUS
    <2>1. PhaseOK
      BY DEF DmInv, PhaseOK
    <2>2. CASE UNCHANGED vars
      BY <2>2, <2>1, ConnPhase, LimitKept DEF vars, DmInv, PhaseOK, TypesOK
    <2>3. CASE Next
      <3>1. setup' = setup /\ Step
        BY <2>3 DEF Next
      <3>2. ASSUME NEW c \in Conns, (\E l \in Listeners : Accept(l, c)) \/ Admit(c) \/ End(c)
            PROVE  DmInv'
        BY <3>1, <3>2, ConnSteps
      <3>3. ASSUME Main \/ Signal \/ GraceOver \/ ObsDown \/ DrainStep
                   \/ (\E forced \in BOOLEAN : HttpDown(forced))
                   \/ \E l \in Listeners : LoopStep(l) \/ ServeEnds(l, "error")
            PROVE  DmInv'
        <4>1. PhaseOK'
          <5>1. CASE Main
            BY <5>1, <2>1, <3>1, LoadStep, ListenStep, NewRegistryStep, StartStep, LaterSteps DEF Main
          <5>2. CASE \E l \in Listeners : LoopStep(l) \/ ServeEnds(l, "error")
            BY <5>2, <2>1, <3>1, ServeStep, ServeEndsStep, WatchCtxStep DEF LoopStep
          <5>3. CASE DrainStep
            BY <5>3, <2>1, <3>1, DrainBeginStep, DrainEndStep DEF DrainStep
          <5> QED BY <3>3, <5>1, <5>2, <5>3, <2>1, <3>1, SideSteps
        <4>2. UNCHANGED conn
          BY <3>3 DEF Main, Load, Listen, NewRegistry, Start, ListenObs, StartHTTP, Select,
                      MarkUnready, Stop, Return, Signal, GraceOver, ObsDown, DrainStep, DrainBegin,
                      DrainEnd, HttpDown, LoopStep, Serve, ServeEnds, WatchCtx
        <4>3. LimitOK'
          BY <4>2, LimitKept DEF DmInv
        <4> QED BY <4>1, <4>3 DEF DmInv, PhaseOK
      <3> QED BY <3>1, <3>2, <3>3 DEF Step
    <2> QED BY <2>2, <2>3
  <1> QED BY <1>1, <1>2, PTL DEF Spec

(* While the readiness probe succeeds, the service is up and the accept    *)
(* loop of every required listener runs on its socket; no listener ever    *)
(* serves more connections than its limit.                                 *)
THEOREM ProbeIsTruthful == Spec => []ReadyMeansServing
  <1>1. DmInv => ReadyMeansServing
    <2> SUFFICES ASSUME DmInv PROVE ReadyMeansServing
      OBVIOUS
    <2>1. \A l \in Listeners : Cardinality(Slots(l)) <= MaxConns
      BY DEF DmInv, LimitOK
    <2>2. ASSUME Ready
          PROVE  /\ pc \in {"serving", "unready"}
                 /\ \A l \in Enabled \ Optional : loop[l] = "running" /\ (sock[l] = "open" \/ ctx)
      <3>1. pc \in {"serving", "unready"}
        BY <2>2 DEF Ready, DmInv, ProbeOK
      <3>2. Enabled \subseteq Listeners
        BY EnabledFacts DEF DmInv, TypesOK
      <3>3. \A l \in Enabled \ Optional : loop[l] = "running"
        BY <2>2, <3>2 DEF Ready, DmInv, ProbeOK
      <3>4. \A l \in Listeners : loop[l] = "running" => sock[l] = "open" \/ ctx
        BY <3>1 DEF DmInv, ServiceOK, Launched
      <3> QED BY <3>1, <3>2, <3>3, <3>4
    <2> QED BY <2>1, <2>2 DEF ReadyMeansServing
  <1> QED BY <1>1, DaemonInductive, PTL

-----------------------------------------------------------------------------
(* RADIUS/TLS                                                              *)
(*                                                                         *)
(* The argument follows a request from the snapshot that admits it to the  *)
(* answer: a connection at work keeps the document that admitted it and    *)
(* the secret its packet was signed with, a slot that was completed keeps  *)
(* whose answer it holds, and a slot that waits belongs to a connection at *)
(* work, although slots expire and are taken over under its hands.         *)

(* A connection at work on a request it was admitted for.                  *)
AtWork(b) ==
  /\ b.pkt.signed # "no" => b.secret = b.pkt.signed
  /\ M!TlsMatch(b.doc, b.pkt.role, Addr, b.cert.sans) = [id |-> b.client, endpoint |-> b.endpoint]

(* An answer that is kept or sent for request p, which has this slot key.  *)
Keeps(a, p, key) ==
  /\ a.for = p
  /\ key = <<a.endpoint, p.role, a.cert, p.id>>
  /\ p.signed # "no" => a.secret = p.signed

SlotOK(e) ==
  /\ e = [key |-> e.key, fp |-> e.fp, pending |-> e.pending, reply |-> e.reply]
  /\ e.pending \in BOOLEAN
  /\ ~e.pending => Keeps(e.reply, e.fp, e.key)

(* What the last step sent.                                                *)
SentOK ==
  sent # NoAnswer =>
    /\ Keeps(sent.answer, sent.pkt, SlotKey(sent.on, sent.pkt))
    /\ M!TlsMatch(sent.doc, sent.pkt.role, Addr, sent.on.cert.sans)
         = [id |-> sent.on.client, endpoint |-> sent.on.endpoint]
    /\ sent.fresh => /\ sent.answer.client = sent.on.client /\ sent.answer.secret = sent.on.secret
                     /\ sent.pkt.role = "access" =>
                          sent.answer.accept = ClientOf(sent.doc, sent.on.client).permit

(* A connection works on the request of a slot.                            *)
WorksOn(b, e) == b.pc = "handling" /\ b.pkt = e.fp /\ SlotKey(b, e.fp) = e.key
PeersOK ==
  /\ peer = [c \in Peers |-> peer[c]]
  /\ \A c \in Peers : peer[c].pc = "handling" => AtWork(peer[c])
CacheOK ==
  \A e \in cache : SlotOK(e) /\ (e.pending => \E c \in Peers : WorksOn(peer[c], e))

RsInv == PeersOK /\ CacheOK /\ SentOK

-----------------------------------------------------------------------------
(* A selection that names somebody is that name and nothing else.          *)
LEMMA MatchShape ==
  ASSUME NEW d, NEW role, NEW ip, NEW cert, NEW r, r = M!TlsMatch(d, role, ip, cert)
  PROVE  r = [id |-> r.id, endpoint |-> r.endpoint]
  <1>1. \A x, y : [id |-> x, endpoint |-> y].id = x /\ [id |-> x, endpoint |-> y].endpoint = y
    OBVIOUS
  <1>2. \A es, p : \E x, y : M!Select(es, p) = [id |-> x, endpoint |-> y]
    BY DEF M!Select, M!NoMatch, M!Ambiguous
  <1>3. \E x, y : r = [id |-> x, endpoint |-> y]
    BY <1>2 DEF M!TlsMatch, M!NoMatch
  <1> QED BY <1>1, <1>3

(* What readmit and the integrity check say of an admitted packet.         *)
LEMMA AdmittedFacts ==
  ASSUME NEW b, NEW p, readmit(doc, b, p.role) = "admitted", Integral(doc, b, p)
  PROVE  /\ M!TlsMatch(doc, p.role, Addr, b.cert.sans) = [id |-> b.client, endpoint |-> b.endpoint]
         /\ p.signed # "no" => b.secret = p.signed
  <1>1. PICK r : r = M!TlsMatch(doc, p.role, Addr, b.cert.sans)
    OBVIOUS
  <1>2. r.id = b.client /\ r.endpoint = b.endpoint
    BY <1>1 DEF readmit
  <1>3. r = [id |-> r.id, endpoint |-> r.endpoint]
    BY <1>1, MatchShape
  <1>4. p.signed # "no" => b.secret = p.signed
    BY DEF Integral
  <1> QED BY <1>1, <1>2, <1>3, <1>4

-----------------------------------------------------------------------------
(* The steps                                                               *)

(* A step that sends nothing and takes no connection from its work.        *)
LEMMA SilentMoves ==
  ASSUME RsInv, PeersOK', sent' = NoAnswer, cache' \subseteq cache,
         \A d \in Peers : peer[d].pc = "handling" => peer'[d] = peer[d]
  PROVE  RsInv'
  <1>1. SentOK'
    BY DEF SentOK
  <1>2. CacheOK'
    <2> SUFFICES ASSUME NEW e \in cache'
                 PROVE  SlotOK(e) /\ (e.pending => \E c \in Peers : WorksOn(peer'[c], e))
      BY DEF CacheOK, WorksOn, SlotKey
    <2>1. SlotOK(e) /\ (e.pending => \E c \in Peers : WorksOn(peer[c], e))
      BY DEF RsInv, CacheOK
    <2> QED BY <2>1 DEF WorksOn
  <1> QED BY <1>1, <1>2 DEF RsInv

(* One connection that is not at work moves to where there is no work.     *)
LEMMA IdleMoves ==
  ASSUME RsInv, NEW c \in Peers, peer[c].pc # "handling", NEW b, b.pc # "handling",
         peer' = [peer EXCEPT ![c] = b], sent' = NoAnswer, UNCHANGED cache
  PROVE  RsInv'
  <1>1. \A d \in Peers : peer'[d] = IF d = c THEN b ELSE peer[d]
    BY DEF RsInv, PeersOK
  <1>2. peer' = [d \in Peers |-> peer'[d]]
    BY DEF RsInv, PeersOK
  <1>3. PeersOK'
    BY <1>1, <1>2 DEF RsInv, PeersOK, AtWork
  <1> QED BY <1>1, <1>3, SilentMoves

LEMMA AdmissionSteps ==
  ASSUME RsInv, NEW c \in Peers, (\E cert \in Certs : Handshake(c, cert)) \/ Bind(c) \/ Hangup(c)
  PROVE  RsInv'
  <1>1. CASE \E cert \in Certs : Handshake(c, cert)
    <2>1. PICK cert \in Certs : Handshake(c, cert)
      BY <1>1
    <2>2. PICK b : b = [pc |-> "verified", cert |-> cert]
      OBVIOUS
    <2>3. b.pc # "handling" /\ peer[c].pc # "handling"
      BY <2>1, <2>2 DEF Handshake, Free
    <2>4. peer' = [peer EXCEPT ![c] = b] /\ sent' = NoAnswer /\ UNCHANGED cache
      BY <2>1, <2>2 DEF Handshake, Silent
    <2> QED BY <2>3, <2>4, IdleMoves
  <1>2. CASE Bind(c)
    <2>1. PICK r : r = matchTLSClient(doc, peer[c].cert)
      OBVIOUS
    <2>2. PICK b : b = [pc |-> "reading", cert |-> peer[c].cert, client |-> r.id,
                        endpoint |-> r.endpoint, secret |-> ClientOf(doc, r.id).secret]
      OBVIOUS
    <2>3. b.pc # "handling" /\ Free.pc # "handling" /\ peer[c].pc # "handling"
      BY <1>2, <2>2 DEF Bind, Free
    <2>4. /\ peer' = [peer EXCEPT ![c] = Free] \/ peer' = [peer EXCEPT ![c] = b]
          /\ sent' = NoAnswer /\ UNCHANGED cache
      <3>1. Leave(c) \/ peer' = [peer EXCEPT ![c] = b]
        BY <1>2, <2>1, <2>2 DEF Bind
      <3> QED BY <1>2, <3>1 DEF Bind, Silent, Leave
    <2> QED BY <2>3, <2>4, IdleMoves
  <1>3. CASE Hangup(c)
    <2>1. Free.pc # "handling" /\ peer[c].pc # "handling"
      BY <1>3 DEF Hangup, Free
    <2> QED BY <1>3, <2>1, IdleMoves DEF Hangup, Leave, Silent
  <1> QED BY <1>1, <1>2, <1>3

LEMMA OutsideSteps ==
  ASSUME RsInv,
         \/ \E e \in cache : Expire(e)
         \/ \E d \in Documents : Publish(d)
         \/ \E t \in Trusts : Rotate(t)
  PROVE  RsInv'
  <1>1. sent' = NoAnswer /\ cache' \subseteq cache /\ peer' = peer
    BY DEF Expire, Publish, Rotate, Silent
  <1>2. PeersOK'
    BY <1>1 DEF RsInv, PeersOK, AtWork
  <1> QED BY <1>1, <1>2, SilentMoves

(* The slot holds the answer to this request: it is sent again.            *)
LEMMA ReplayStep ==
  ASSUME RsInv, NEW c \in Peers, NEW p, NEW e \in cache, e.key = SlotKey(peer[c], p), e.fp = p,
         ~e.pending, Sends(c, p, doc, e.reply, FALSE), UNCHANGED <<cache, peer>>,
         M!TlsMatch(doc, p.role, Addr, peer[c].cert.sans)
           = [id |-> peer[c].client, endpoint |-> peer[c].endpoint]
  PROVE  RsInv'
  <1>1. Keeps(e.reply, p, SlotKey(peer[c], p))
    BY DEF RsInv, CacheOK, SlotOK
  <1>2. /\ sent'.answer = e.reply /\ sent'.pkt = p /\ sent'.on = peer[c] /\ sent'.doc = doc
        /\ ~sent'.fresh
    BY DEF Sends
  <1>3. SentOK'
    BY <1>1, <1>2 DEF SentOK, SlotKey
  <1>4. PeersOK' /\ CacheOK'
    BY DEF RsInv, PeersOK, CacheOK, WorksOn, SlotKey, AtWork
  <1> QED BY <1>3, <1>4 DEF RsInv

(* The request takes its slot, from another request if need be, and the    *)
(* connection is at work.                                                  *)
LEMMA TakeSlotStep ==
  ASSUME RsInv, NEW c \in Peers, peer[c].pc = "reading", NEW p, NEW key,
         key = SlotKey(peer[c], p),
         M!TlsMatch(doc, p.role, Addr, peer[c].cert.sans)
           = [id |-> peer[c].client, endpoint |-> peer[c].endpoint],
         p.signed # "no" => peer[c].secret = p.signed,
         sent' = NoAnswer,
         cache' = (cache \ {e \in cache : e.key = key})
                  \cup {[key |-> key, fp |-> p, pending |-> TRUE, reply |-> NoAnswer]},
         peer' = [peer EXCEPT ![c] =
           [pc |-> "handling", cert |-> @.cert, client |-> @.client, endpoint |-> @.endpoint,
            secret |-> @.secret, pkt |-> p, doc |-> doc]]
  PROVE  RsInv'
  <1>1. PICK b : b = [pc |-> "handling", cert |-> peer[c].cert, client |-> peer[c].client,
                      endpoint |-> peer[c].endpoint, secret |-> peer[c].secret, pkt |-> p,
                      doc |-> doc]
    OBVIOUS
  <1>2. /\ b.pc = "handling" /\ b.cert = peer[c].cert /\ b.client = peer[c].client
        /\ b.endpoint = peer[c].endpoint /\ b.secret = peer[c].secret /\ b.pkt = p /\ b.doc = doc
    BY <1>1
  <1>3. peer' = [d \in Peers |-> peer'[d]] /\ peer'[c] = b
        /\ \A d \in Peers : d # c => peer'[d] = peer[d]
    BY <1>1 DEF RsInv, PeersOK
  <1>4. AtWork(b)
    BY <1>2 DEF AtWork
  <1>5. PeersOK'
    BY <1>3, <1>4 DEF RsInv, PeersOK, AtWork
  <1>6. PICK n : n = [key |-> key, fp |-> p, pending |-> TRUE, reply |-> NoAnswer]
    OBVIOUS
  <1>7. n.key = key /\ n.fp = p /\ n.pending = TRUE /\ SlotOK(n)
    BY <1>6 DEF SlotOK
  <1>8. WorksOn(b, n)
    BY <1>2, <1>7 DEF WorksOn, SlotKey
  <1>9. CacheOK'
    <2> SUFFICES ASSUME NEW e \in cache'
                 PROVE  SlotOK(e) /\ (e.pending => \E d \in Peers : WorksOn(peer'[d], e))
      BY DEF CacheOK, WorksOn, SlotKey
    <2>1. CASE e = n
      BY <2>1, <1>3, <1>7, <1>8
    <2>2. CASE e \in cache
      <3>1. SlotOK(e) /\ (e.pending => \E d \in Peers : WorksOn(peer[d], e))
        BY <2>2 DEF RsInv, CacheOK
      <3>2. ~WorksOn(peer[c], e)
        BY DEF WorksOn
      <3> QED BY <1>3, <3>1, <3>2
    <2> QED BY <1>6, <2>1, <2>2
  <1> QED BY <1>5, <1>9 DEF RsInv, SentOK


LEMMA ProcessStep ==
  ASSUME RsInv, NEW c \in Peers, NEW p \in Packets, Process(c, p)
  PROVE  RsInv'
  <1>1. peer[c].pc = "reading"
    BY DEF Process
  <1>2. CASE Leave(c) /\ Silent /\ UNCHANGED cache
    BY <1>1, <1>2, IdleMoves DEF Leave, Silent, Free
  <1>3. CASE readmit(doc, peer[c], p.role) = "admitted" /\ Integral(doc, peer[c], p)
             /\ BeginSlot(c, p, doc)
    <2>1. /\ M!TlsMatch(doc, p.role, Addr, peer[c].cert.sans)
               = [id |-> peer[c].client, endpoint |-> peer[c].endpoint]
          /\ p.signed # "no" => peer[c].secret = p.signed
      BY <1>3, AdmittedFacts
    <2>2. PICK key : key = SlotKey(peer[c], p)
      OBVIOUS
    <2>3. CASE /\ sent' = NoAnswer /\ cache' \subseteq cache /\ UNCHANGED peer
      <3>1. PeersOK'
        BY <2>3 DEF RsInv, PeersOK, AtWork
      <3> QED BY <2>3, <3>1, SilentMoves
    <2>4. CASE /\ \E e \in cache : /\ e.key = key /\ e.fp = p /\ ~e.pending
                                   /\ Sends(c, p, doc, e.reply, FALSE)
               /\ UNCHANGED <<cache, peer>>
      BY <2>1, <2>2, <2>4, ReplayStep
    <2>5. CASE /\ sent' = NoAnswer
               /\ cache' = (cache \ {e \in cache : e.key = key})
                           \cup {[key |-> key, fp |-> p, pending |-> TRUE, reply |-> NoAnswer]}
               /\ peer' = [peer EXCEPT ![c] =
                    [pc |-> "handling", cert |-> @.cert, client |-> @.client,
                     endpoint |-> @.endpoint, secret |-> @.secret, pkt |-> p, doc |-> doc]]
      BY <1>1, <2>1, <2>2, <2>5, TakeSlotStep
    <2> QED BY <1>3, <2>2, <2>3, <2>4, <2>5 DEF BeginSlot, Silent
  <1> QED BY <1>2, <1>3 DEF Process

(* A connection stops working: every slot that waits for its request goes  *)
(* or is completed, so that the others keep theirs.                        *)
LEMMA WorkEnds ==
  ASSUME RsInv, NEW c \in Peers, peer[c].pc = "handling",
         peer' = [peer EXCEPT ![c] = Reading(peer[c])],
         \A e \in cache' : \/ ~e.pending /\ SlotOK(e)
                           \/ e \in cache /\ ~(e.key = SlotKey(peer[c], peer[c].pkt)
                                               /\ e.fp = peer[c].pkt)
  PROVE  PeersOK' /\ CacheOK'
  <1>1. PICK b : b = Reading(peer[c])
    OBVIOUS
  <1>2. b.pc = "reading"
    BY <1>1 DEF Reading
  <1>3. peer' = [d \in Peers |-> peer'[d]] /\ peer'[c] = b
        /\ \A d \in Peers : d # c => peer'[d] = peer[d]
    BY <1>1 DEF RsInv, PeersOK
  <1>4. PeersOK'
    BY <1>2, <1>3 DEF RsInv, PeersOK, AtWork
  <1>5. CacheOK'
    <2> SUFFICES ASSUME NEW e \in cache'
                 PROVE  SlotOK(e) /\ (e.pending => \E d \in Peers : WorksOn(peer'[d], e))
      BY DEF CacheOK, WorksOn, SlotKey
    <2>1. CASE ~e.pending /\ SlotOK(e)
      BY <2>1
    <2>2. CASE e \in cache /\ ~(e.key = SlotKey(peer[c], peer[c].pkt) /\ e.fp = peer[c].pkt)
      <3>1. SlotOK(e) /\ (e.pending => \E d \in Peers : WorksOn(peer[d], e))
        BY <2>2 DEF RsInv, CacheOK
      <3>2. ~WorksOn(peer[c], e)
        BY <2>2 DEF WorksOn
      <3> QED BY <1>3, <3>1, <3>2
    <2> QED BY <2>1, <2>2
  <1> QED BY <1>4, <1>5

LEMMA AbandonStep ==
  ASSUME RsInv, NEW c \in Peers, Abandon(c)
  PROVE  RsInv'
  <1>1. peer[c].pc = "handling" /\ peer' = [peer EXCEPT ![c] = Reading(peer[c])]
    BY DEF Abandon
  <1>2. \A e \in cache' : e \in cache /\ ~(e.key = SlotKey(peer[c], peer[c].pkt) /\ e.fp = peer[c].pkt)
    BY DEF Abandon
  <1>3. PeersOK' /\ CacheOK'
    BY <1>1, <1>2, WorkEnds
  <1> QED BY <1>3 DEF RsInv, SentOK, Abandon, Silent

(* A slot with the answer in it.                                           *)
LEMMA CompletedSlot ==
  ASSUME NEW e, SlotOK(e), NEW a, Keeps(a, e.fp, e.key)
  PROVE  SlotOK([e EXCEPT !.pending = FALSE, !.reply = a])
         /\ ~[e EXCEPT !.pending = FALSE, !.reply = a].pending
  <1>1. PICK key, fp, pending, reply : key = e.key /\ fp = e.fp /\ pending = e.pending /\ reply = e.reply
    OBVIOUS
  <1>2. PICK x : x = [e EXCEPT !.pending = FALSE, !.reply = a]
    OBVIOUS
  <1>3. e = [key |-> key, fp |-> fp, pending |-> pending, reply |-> reply]
    BY <1>1 DEF SlotOK
  <1>4. x.key = key /\ x.fp = fp /\ x.pending = FALSE /\ x.reply = a
    BY <1>2, <1>3
  <1>5. x = [key |-> key, fp |-> fp, pending |-> FALSE, reply |-> a]
    BY <1>2, <1>3
  <1>6. SlotOK(x)
    BY <1>1, <1>4, <1>5 DEF SlotOK
  <1> QED BY <1>2, <1>4, <1>6

LEMMA CompleteStep ==
  ASSUME RsInv, NEW c \in Peers, NEW fits \in BOOLEAN, Complete(c, fits)
  PROVE  RsInv'
  <1>1. PICK b : b = peer[c]
    OBVIOUS
  <1>2. PICK ok : ok = IF b.pkt.role = "accounting" THEN TRUE ELSE ClientOf(b.doc, b.client).permit
    OBVIOUS
  <1>3. PICK a : a = Answer(b, b.pkt, ok)
    OBVIOUS
  <1>4. b.pc = "handling" /\ AtWork(b)
    BY <1>1 DEF Complete, RsInv, PeersOK
  <1>5. /\ a.for = b.pkt /\ a.client = b.client /\ a.endpoint = b.endpoint /\ a.cert = b.cert.name
        /\ a.secret = b.secret /\ a.accept = ok
    BY <1>3 DEF Answer
  <1>6. Keeps(a, b.pkt, SlotKey(b, b.pkt))
    BY <1>4, <1>5 DEF Keeps, SlotKey, AtWork
  <1> DEFINE slot == {e \in cache : e.key = SlotKey(b, b.pkt) /\ e.fp = b.pkt /\ e.pending}
  <1>7. cache' \subseteq (cache \ slot) \cup {[e EXCEPT !.pending = FALSE, !.reply = a] : e \in slot}
    BY <1>1, <1>2, <1>3 DEF Complete
  <1>8. \A e \in cache' : \/ ~e.pending /\ SlotOK(e)
                          \/ e \in cache /\ ~(e.key = SlotKey(b, b.pkt) /\ e.fp = b.pkt)
    <2> SUFFICES ASSUME NEW e \in cache'
                 PROVE  \/ ~e.pending /\ SlotOK(e)
                        \/ e \in cache /\ ~(e.key = SlotKey(b, b.pkt) /\ e.fp = b.pkt)
      OBVIOUS
    <2>1. CASE e \in cache \ slot
      BY <2>1 DEF RsInv, CacheOK
    <2>2. CASE \E f \in slot : e = [f EXCEPT !.pending = FALSE, !.reply = a]
      <3>1. PICK f \in slot : e = [f EXCEPT !.pending = FALSE, !.reply = a]
        BY <2>2
      <3>2. SlotOK(f) /\ Keeps(a, f.fp, f.key)
        BY <1>6 DEF RsInv, CacheOK
      <3>3. SlotOK(e) /\ ~e.pending
        BY <3>1, <3>2, CompletedSlot
      <3> QED BY <3>3
    <2> QED BY <1>7, <2>1, <2>2
  <1>9. peer' = [peer EXCEPT ![c] = Reading(peer[c])]
    BY DEF Complete
  <1>10. PeersOK' /\ CacheOK'
    BY <1>1, <1>4, <1>8, <1>9, WorkEnds
  <1>11. /\ sent'.answer = a /\ sent'.pkt = b.pkt /\ sent'.on = b /\ sent'.doc = b.doc
    BY <1>1, <1>2, <1>3 DEF Complete, Sends
  <1>12. b.pkt.role = "access" => ok = ClientOf(b.doc, b.client).permit
    BY <1>2
  <1>13. SentOK'
    BY <1>4, <1>5, <1>6, <1>11, <1>12 DEF SentOK, AtWork, SlotKey, ClientOf
  <1> QED BY <1>10, <1>13 DEF RsInv

-----------------------------------------------------------------------------
(* The theorems                                                            *)

(* The inductive invariant: connections at work, slots of the cache and    *)
(* the answer just sent agree on the request, its secret and its document. *)
THEOREM RadSecInductive == RsSpec => []RsInv
  <1>1. RsInit => RsInv
    BY DEF RsInit, RsInv, PeersOK, CacheOK, SentOK, Free
  <1>2. RsInv /\ [RsNext]_rvars => RsInv'
    <2> SUFFICES ASSUME RsInv, [RsNext]_rvars PROVE RsInv'
      OBVIOUS
    <2>1. CASE UNCHANGED rvars
      BY <2>1 DEF rvars, RsInv, PeersOK, CacheOK, SentOK, AtWork, WorksOn, SlotKey, ClientOf
    <2> QED BY <2>1, AdmissionSteps, ProcessStep, CompleteStep, AbandonStep, OutsideSteps DEF RsNext
  <1> QED BY <1>1, <1>2, PTL DEF RsSpec

(* Every answer, new or replayed, is to the very request, for the          *)
(* certificate, endpoint and secret it came with, and by a document that   *)
(* admitted its role; no slot waits for a connection that is not at work.  *)
THEOREM AnswersAsAdmitted == RsSpec => []AnsweredAsAdmitted
  <1>1. RsInv => AnsweredAsAdmitted
    BY DEF RsInv, SentOK, CacheOK, AnsweredAsAdmitted, Keeps, SlotKey, WorksOn
  <1> QED BY <1>1, RadSecInductive, PTL

=============================================================================
