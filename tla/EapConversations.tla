-------------------------- MODULE EapConversations --------------------------
(***************************************************************************)
(* EAP conversations of RADIUS access: the handler (radius/server access,  *)
(* eap, peap_access, challenge), the store of issued State values          *)
(* (radius/runtime/challenge_store.go) and the registry of PEAP tunnels    *)
(* (radius/eap/peap/registry.go).                                          *)
(*                                                                         *)
(* Several workers handle packets at once.  A State is taken from the      *)
(* store under its lock, the tunnel is fetched under the registry's lock,  *)
(* the packet is worked on without a lock, and a new State is issued: the  *)
(* steps of the model.  A State is named by its number, a tunnel by the    *)
(* State it was made for.  What a tunnel or the AAA service answers to     *)
(* bytes is a free choice.  Time is the flags due: a deadline has passed.  *)
(***************************************************************************)
EXTENDS Integers, FiniteSets

CONSTANTS
  Workers,
  Clients,      \* a RADIUS client together with its address or certificate
  Users,
  MaxEntries,   \* capacity of the challenge store
  TunnelCap,    \* tunnelCapacity of the registry
  MaxIssued,    \* bound: State values drawn
  Scenes,       \* bound: who begins, how, and how many State values are drawn
  MaxResets,    \* bound: runtime resets
  NoRec         \* no record, no tunnel, nobody

States == 1..MaxIssued
Steps == {"identity", "md5", "start", "handshake", "inner", "mschap", "finish"}

(* What the store keeps of a challenge, the registry of a tunnel, and the  *)
(* handler of AAA's accept.                                                *)
Challenge ==
  [client : Clients, user : Users \cup {NoRec}, step : Steps, root : States,
   reply : Users \cup {NoRec}, due : BOOLEAN]
Tunnel == [due : BOOLEAN, armed : BOOLEAN]
Grant == [user : Users, epoch : Nat]

ASSUME EapAssumption ==
  /\ {MaxEntries, TunnelCap} \subseteq Nat \ {0}
  /\ MaxIssued \in Nat
  /\ \A x \in Scenes : x.begin \subseteq Clients /\ x.draws \in 0..MaxIssued
  /\ NoRec \notin Clients \cup Users \cup Nat
  /\ NoRec \notin Challenge /\ NoRec \notin Tunnel /\ NoRec \notin Grant

VARIABLES
  scene,    \* never changes
  entries,  \* the challenge store, by State
  tunnels,  \* the registry of tunnels, by the State they were made for
  shook,    \* tunnels whose TLS handshake is complete
  drawn,    \* State values drawn so far
  owner,    \* the client that began each conversation
  w,        \* the handlers
  granted,  \* the last user AAA accepted, by tunnel, and the epoch
  accepts,  \* Access-Accepts sent, by conversation
  reset,    \* the runtime reset: its position
  epoch     \* resets completed

eapVars == <<scene, entries, tunnels, shook, drawn, owner, w, granted, accepts, reset, epoch>>

(* A challenge record.  user is whom an MD5 response will be checked for;  *)
(* in a tunnel AAA is asked about the last name the peer gives.  root      *)
(* names the conversation by its first State, which is the tunnel's id.    *)
Record(c, u, step, root) ==
  [client |-> c, user |-> IF step = "md5" THEN u ELSE NoRec, step |-> step,
   root |-> root, reply |-> NoRec, due |-> FALSE]

Idle == [pc |-> "idle", client |-> NoRec, ask |-> 0, taken |-> 0,
         rec |-> NoRec, new |-> 0, next |-> NoRec]

EapInit ==
  /\ scene \in Scenes
  /\ entries = [s \in States |-> NoRec]
  /\ tunnels = [s \in States |-> NoRec]
  /\ shook = {}
  /\ drawn = 0
  /\ owner = [s \in States |-> NoRec]
  /\ w = [p \in Workers |-> Idle]
  /\ granted = [s \in States |-> NoRec]
  /\ accepts = [s \in States |-> {}]
  /\ reset = "no"
  /\ epoch = 0

Peap(step) == step \notin {"identity", "md5"}

-----------------------------------------------------------------------------
(* The challenge store and the registry                                    *)

(* expireLocked of either table.                                           *)
Live(table) == {s \in States : table[s] # NoRec /\ ~table[s].due}
Expired(table) == [s \in States |-> IF s \in Live(table) THEN table[s] ELSE NoRec]

(* Seeded fault: Consume leaves the record in the store.                   *)
Taken_Left(s) == entries
Taken(s) == [entries EXCEPT ![s] = NoRec]

(* Put: refused when the registry is full of live tunnels.                 *)
PutOK == Cardinality(Live(tunnels)) < TunnelCap

(* Seeded fault: Put starts no timer; tunnels are swept by the next Put or *)
(* Get only.                                                               *)
NewTunnel_NoTimer == [due |-> FALSE, armed |-> FALSE]
NewTunnel == [due |-> FALSE, armed |-> TRUE]

(* Issue: refused when the store is full of live challenges.               *)
IssueOK == Cardinality(Live(entries)) < MaxEntries

-----------------------------------------------------------------------------
(* A packet arrives.  What it says is a choice of the handler that reads   *)
(* it, when it does.                                                       *)

(* The handler ends with a reject, or with nothing left to clean up.       *)
Reject(p) == w' = [w EXCEPT ![p] = Idle]

(* startFromIdentity: who it is, and whether PEAP is allowed by the        *)
(* snapshot of the request, decides which challenge is issued.  The State  *)
(* is drawn here.                                                          *)
StartFromIdentity(p, c, u, peapAllowed) ==
  LET s == drawn + 1
      step == IF u = NoRec THEN "identity" ELSE IF peapAllowed THEN "start" ELSE "md5"
  IN /\ s <= scene.draws /\ step \in scene.first
     /\ drawn' = s
     /\ owner' = [owner EXCEPT ![s] = c]
     /\ w' = [w EXCEPT ![p] =
                [Idle EXCEPT !.pc = IF step = "start" THEN "put" ELSE "issue",
                             !.client = c, !.new = s, !.next = Record(c, u, step, s)]]

(* Access.Handle and handleEAPStart: a packet without a State begins a     *)
(* conversation with an identity, its own or the attribute's or none;      *)
(* everything else is rejected and changes nothing.                        *)
HandleEAPStart(p, c) ==
  /\ w[p].pc = "idle" /\ c \in scene.begin
  /\ \E u \in Users \cup {NoRec}, peapAllowed \in BOOLEAN :
       StartFromIdentity(p, c, u, peapAllowed)
  /\ UNCHANGED <<entries, tunnels, shook, granted, accepts, reset, epoch>>

(* Seeded fault: the record is given to whoever presents the State.        *)
Bound_Any(e, c) == TRUE
Bound(e, c) == e.client = c

(* Access.Handle and Consume: a packet with a State, which may be any that *)
(* was ever issued, the client's own or another's, sent for the first time *)
(* or again.  It is unknown, expired, bound to another client, or taken.   *)
Consume(p, c, s) ==
  LET e == entries[s]
  IN /\ w[p].pc = "idle" /\ e # NoRec
     /\ \/ e.due /\ entries' = [entries EXCEPT ![s] = NoRec] /\ Reject(p)
        \/ /\ ~e.due /\ Bound(e, c)
           /\ entries' = Taken(s)
           /\ w' = [w EXCEPT ![p] = [Idle EXCEPT !.pc = "continue", !.client = c,
                                       !.ask = s, !.taken = epoch, !.rec = e]]
     /\ UNCHANGED <<tunnels, shook, drawn, owner, granted, accepts, reset, epoch>>

-----------------------------------------------------------------------------
(* The conversation goes on                                                *)

(* The handler leaves with something else than a challenge; it deletes the *)
(* tunnel of a PEAP record on its way out.                                 *)
Leave(p, rec) ==
  w' = [w EXCEPT ![p] = IF Peap(rec.step) THEN [Idle EXCEPT !.pc = "delete", !.rec = rec]
                                          ELSE Idle]

(* An Access-Accept, as the client sees it.                                *)
Accept(p, u, since) ==
  accepts' = [accepts EXCEPT ![w[p].rec.root] =
                @ \cup {[state |-> w[p].ask, client |-> w[p].client, user |-> u,
                         granted |-> since, taken |-> w[p].taken]}]

(* handleEAPContinuation: an identity goes on as at the beginning, and AAA *)
(* decides on an MD5 response at once.                                     *)
HandleEAPContinuation(p) ==
  /\ w[p].pc = "continue"
  /\ \/ /\ w[p].rec.step = "identity"
        /\ \E u \in Users \cup {NoRec}, peapAllowed \in BOOLEAN :
             StartFromIdentity(p, w[p].client, u, peapAllowed)
        /\ UNCHANGED accepts
     \/ /\ w[p].rec.step = "md5"
        /\ Accept(p, w[p].rec.user, w[p].taken)
        /\ Reject(p)
        /\ UNCHANGED <<drawn, owner>>
     \/ \* a packet that is wrong for the step, or AAA's reject
        /\ Leave(p, w[p].rec)
        /\ UNCHANGED <<drawn, owner, accepts>>
  /\ UNCHANGED <<entries, tunnels, shook, granted, reset, epoch>>

(* handlePEAP up to Tunnels.Get, which sweeps, extends the deadline and    *)
(* resets the timer.                                                       *)
GetTunnel(p) ==
  LET t == w[p].rec.root
      swept == Expired(tunnels)
  IN /\ w[p].pc = "continue" /\ Peap(w[p].rec.step)
     /\ tunnels' = swept
     /\ IF swept[t] = NoRec THEN Leave(p, w[p].rec)
                            ELSE w' = [w EXCEPT ![p].pc = "drive"]
     /\ UNCHANGED <<entries, shook, drawn, owner, granted, accepts, reset, epoch>>

(* issuePEAPContinue: a new State for the same tunnel.                     *)
Continue(p, next) ==
  LET s == drawn + 1
  IN /\ s <= scene.draws
     /\ drawn' = s
     /\ w' = [w EXCEPT ![p].pc = "issue", ![p].new = s, ![p].next = next]

(* handlePEAP and handlePEAPInner after Get: fragments keep the step, the  *)
(* handshake leads to the inner identity, that to the MS-CHAP challenge,   *)
(* its answer to AAA, and AAA's accept to the last round.  The goroutine   *)
(* of the handshake may also finish after the handler has looked.  A       *)
(* tunnel closed meanwhile keeps what it knows.                            *)
Drive(p) ==
  LET r == w[p].rec
      t == r.root
  IN /\ w[p].pc = "drive"
     /\ \/ \* an acknowledged or incomplete fragment
           /\ Continue(p, r)
           /\ UNCHANGED <<shook, granted, accepts>>
        \/ /\ r.step \in {"start", "handshake"} /\ t \notin shook
           /\ \E done \in SUBSET {t}, step \in {"handshake", "inner"} :
                /\ step = "inner" => done = {t}
                /\ shook' = shook \cup done
                /\ Continue(p, [r EXCEPT !.step = step])
           /\ UNCHANGED <<granted, accepts>>
        \/ /\ r.step \in {"handshake", "inner"} /\ t \in shook
           /\ Continue(p, [r EXCEPT !.step = "mschap"])
           /\ UNCHANGED <<shook, granted, accepts>>
        \/ /\ r.step = "mschap"
           /\ \E u \in Users :
                /\ granted' = [granted EXCEPT ![t] = [user |-> u, epoch |-> epoch]]
                /\ Continue(p, [r EXCEPT !.step = "finish", !.reply = u])
           /\ UNCHANGED <<shook, accepts>>
        \/ /\ r.step = "finish"
           /\ Accept(p, r.reply, granted[t].epoch)
           /\ Leave(p, w[p].rec)
           /\ UNCHANGED <<shook, drawn, granted>>
        \/ \* a TLS, framing, AAA or policy failure, or the worker's deadline
           /\ Leave(p, w[p].rec)
           /\ UNCHANGED <<shook, drawn, granted, accepts>>
     /\ UNCHANGED <<entries, tunnels, owner, reset, epoch>>

-----------------------------------------------------------------------------
(* Issuing a challenge                                                     *)

(* issuePEAPStart: the tunnel is registered under the drawn State first.   *)
PutTunnel(p) ==
  LET s == w[p].next.root
  IN /\ w[p].pc = "put"
     /\ tunnels' = IF PutOK THEN [Expired(tunnels) EXCEPT ![s] = NewTunnel]
                            ELSE Expired(tunnels)
     /\ IF PutOK THEN w' = [w EXCEPT ![p].pc = "issue"] ELSE Reject(p)
     /\ UNCHANGED <<entries, shook, drawn, owner, granted, accepts, reset, epoch>>

(* IssueChallenge.  When the store is full the tunnel is deleted: by       *)
(* issuePEAPStart itself, or on the way out of Handle.                     *)
Issue(p) ==
  /\ w[p].pc = "issue"
  /\ entries' = IF IssueOK
                THEN [Expired(entries) EXCEPT ![w[p].new] = w[p].next]
                ELSE Expired(entries)
  /\ IF IssueOK THEN w' = [w EXCEPT ![p] = Idle]
                ELSE Leave(p, w[p].next)
  /\ UNCHANGED <<tunnels, shook, drawn, owner, granted, accepts, reset, epoch>>

(* Tunnels.Delete, once or twice: it does nothing to a tunnel that is gone.*)
DeleteTunnel(p) ==
  /\ w[p].pc = "delete"
  /\ tunnels' = [tunnels EXCEPT ![w[p].rec.root] = NoRec]
  /\ w' = [w EXCEPT ![p] = Idle]
  /\ UNCHANGED <<entries, shook, drawn, owner, granted, accepts, reset, epoch>>

-----------------------------------------------------------------------------
(* Time and resets                                                         *)

(* The deadline of a tunnel passes ...                                     *)
TunnelDue(t) ==
  /\ tunnels[t] # NoRec /\ ~tunnels[t].due
  /\ tunnels' = [tunnels EXCEPT ![t].due = TRUE]
  /\ UNCHANGED <<entries, shook, drawn, owner, w, granted, accepts, reset, epoch>>

(* ... and its timer sweeps the registry.                                  *)
TimerFires(t) ==
  /\ tunnels[t] # NoRec /\ tunnels[t].due /\ tunnels[t].armed
  /\ tunnels' = Expired(tunnels)
  /\ UNCHANGED <<entries, shook, drawn, owner, w, granted, accepts, reset, epoch>>

(* The deadline of a challenge passes.  It was issued after the tunnel's   *)
(* deadline was last extended, by the same TTL.                            *)
ChallengeDue(s) ==
  /\ entries[s] # NoRec /\ ~entries[s].due
  /\ LET t == tunnels[entries[s].root]
     IN Peap(entries[s].step) /\ t # NoRec => t.due
  /\ entries' = [entries EXCEPT ![s].due = TRUE]
  /\ UNCHANGED <<tunnels, shook, drawn, owner, w, granted, accepts, reset, epoch>>

(* The reset hook of the daemon wipes the store, then the registry.        *)
ResetChallenges ==
  /\ reset = "no" /\ epoch < MaxResets
  /\ entries' = [s \in States |-> NoRec]
  /\ reset' = "tunnels"
  /\ UNCHANGED <<tunnels, shook, drawn, owner, w, granted, accepts, epoch>>

ResetTunnels ==
  /\ reset = "tunnels"
  /\ tunnels' = [s \in States |-> NoRec]
  /\ reset' = "no"
  /\ epoch' = epoch + 1
  /\ UNCHANGED <<entries, shook, drawn, owner, w, granted, accepts>>

HandlerStep(p) ==
  \/ HandleEAPContinuation(p) \/ GetTunnel(p) \/ Drive(p) \/ PutTunnel(p)
  \/ Issue(p) \/ DeleteTunnel(p)

EapStep ==
  \/ \E p \in Workers :
       \/ \E c \in Clients : HandleEAPStart(p, c) \/ \E s \in States : Consume(p, c, s)
       \/ HandlerStep(p)
  \/ \E s \in States : TunnelDue(s) \/ TimerFires(s) \/ ChallengeDue(s)
  \/ ResetChallenges \/ ResetTunnels

EapNext == EapStep /\ UNCHANGED scene

(* Handlers run to their end, time passes and timers fire; nothing is      *)
(* assumed of the clients.                                                 *)
EapFairness ==
  /\ \A p \in Workers : WF_eapVars(HandlerStep(p) /\ UNCHANGED scene)
  /\ \A s \in States : WF_eapVars(TunnelDue(s) /\ UNCHANGED scene)
                        /\ WF_eapVars(TimerFires(s) /\ UNCHANGED scene)

EapSpec == EapInit /\ [][EapNext]_eapVars /\ EapFairness

-----------------------------------------------------------------------------
(* Properties                                                              *)

(* The conversation a handler is working for.                              *)
Drives(p, t) ==
  \/ w[p].rec # NoRec /\ w[p].rec.root = t
  \/ w[p].next # NoRec /\ w[p].next.root = t

(* Both tables respect their limits, and a conversation is in one place:   *)
(* in the hands of one handler, or waiting behind one State.  A tunnel has *)
(* no lock of its own across the steps of a handler; Consume must see to   *)
(* it that two copies of an answer never drive it at the same time.        *)
OneDriver ==
  /\ Cardinality(Live(entries)) <= MaxEntries
  /\ Cardinality({t \in States : tunnels[t] # NoRec}) <= TunnelCap
  /\ \A t \in States :
       Cardinality({p \in Workers : Drives(p, t)})
         + Cardinality({s \in States : entries[s] # NoRec /\ entries[s].root = t}) <= 1

(* An Access-Accept ends a conversation once, goes to the client that      *)
(* began it, and is for the user AAA accepted; a PEAP grant from before a  *)
(* runtime reset is honoured only by a handler that had its State by then. *)
AcceptIsEarned ==
  \A t \in States :
    /\ Cardinality(accepts[t]) <= 1
    /\ \A a \in accepts[t] :
         /\ a.client = owner[t]
         /\ granted[t] # NoRec => a.user = granted[t].user
         /\ a.granted = a.taken

(* A tunnel is closed in the end, whatever becomes of its conversation:    *)
(* finished, abandoned by the client, or cut off by a reset.               *)
TunnelsReclaimed ==
  \A t \in States : tunnels[t] # NoRec ~> tunnels[t] = NoRec

=============================================================================
