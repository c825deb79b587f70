---------------------------- MODULE ApiOperations ----------------------------
(***************************************************************************)
(* The control plane's requests: the REST and MCP adapters                 *)
(* (internal/api/rest, internal/api/mcp), the operation registry with its  *)
(* idempotency store, and the handlers that publish through the state      *)
(* manager (internal/api/operations).                                      *)
(*                                                                         *)
(* A request loads one snapshot when it authenticates and is judged by it  *)
(* to the end; the replay store, the state manager and the hooks of a      *)
(* reset each have a lock of their own, so requests interleave between     *)
(* them.  What a mutation does to the objects is StateManager's matter:    *)
(* here it is a set of live objects, a set of tombstones and a revision.   *)
(***************************************************************************)
EXTENDS Integers, Sequences, FiniteSets

CONSTANTS
  Requests,      \* request goroutines
  Pagers,        \* clients that walk a list
  Ids,           \* object ids, in their sort order; 0 is no id
  Scenes,        \* who is around: the inputs and pagers that occur, what the
                 \* token changes to, and the contents of the mounted file
  Grants,        \* sets of scopes a token may have
  NoKey,         \* no idempotency key
  AnyRevision,   \* no If-Match
  MaxInFlight, Capacity, PageLimit,
  MaxArrivals,   \* bound: requests
  MaxGeneration, \* bound: changes of the actor's token
  MaxEdits       \* bound: changes of the mounted file

ASSUME OperationsAssumption ==
  /\ Ids \subseteq Nat \ {0} /\ {MaxInFlight, Capacity, PageLimit, MaxGeneration} \subseteq Nat \ {0}
  /\ \A s \in Scenes : s.grant \in Grants /\ \A t \in s.tokens : t.scopes \in Grants /\ t.usable \in BOOLEAN
  /\ \A s \in Scenes : \A i \in s.inputs :
       (i.expect = AnyRevision \/ i.expect \in Nat) /\ (i.op = "create" => i.id \in Ids)
  /\ \A s \in Scenes : s.pagers \subseteq Pagers /\ \A f \in s.files : f \subseteq Ids /\ IsFiniteSet(f)

VARIABLES
  scene,    \* the scene of this behaviour; it never changes
  pub,      \* the published snapshot: revision, live objects, tombstones, baseline
  file,     \* the mounted document: its objects, and how often it changed
  tok,      \* the actor's token: generation, grant, usable
  store,    \* replayStore.entries: the entry of each store key, 0 for none
  ents,     \* every entry ever made; a waiter holds on to a deleted one
  inflight, \* slots taken in Server.inflight
  req,      \* the requests
  walk,     \* the pagers
  hooks,    \* runs of the hooks of a reset
  arrivals,
  ran       \* handler runs under each store key since its entry last lapsed

vars == <<scene, pub, file, tok, store, ents, inflight, req, walk, hooks, arrivals, ran>>

-----------------------------------------------------------------------------
(* The operation table                                                     *)

Mutations == {"create", "update", "delete", "reset", "reload"}
Reads == {"get", "export", "validate"}
Operations == Mutations \cup Reads
ScopeOf(op) == IF op \in Mutations THEN "write" ELSE "read"

(* supportsReplay.                                                         *)
supportsReplay(op) == op \in {"create", "reset", "reload"}

Inputs == UNION {s.inputs : s \in Scenes}
Keys == {i.key : i \in Inputs} \ {NoKey}
StoreKeys == (1..MaxGeneration) \X Grants \X Keys

NoReply == [code |-> "none", of |-> "none", gen |-> 0, rev |-> 0]
Quiet == [pc |-> "idle", in |-> "none", snap |-> "none", ent |-> 0, doc |-> {},
          out |-> NoReply]
NoWalk == [pc |-> "idle", cursor |-> 0, pages |-> <<>>, stable |-> {}, deleted |-> FALSE]

Init ==
  /\ scene \in Scenes
  /\ file \in [ids : scene.files, edits : {0}]
  /\ pub = [rev |-> 1, live |-> file.ids, tombs |-> {}, base |-> file.ids]
  /\ tok = [gen |-> 1, scopes |-> scene.grant, usable |-> TRUE]
  /\ store = [k \in StoreKeys |-> 0]
  /\ ents = <<>>
  /\ inflight = 0
  /\ req = [c \in Requests |-> Quiet]
  /\ walk = [p \in Pagers |-> NoWalk]
  /\ hooks = 0
  /\ arrivals = 0
  /\ ran = [k \in StoreKeys |-> 0]

-----------------------------------------------------------------------------
(* The adapters                                                            *)

Failed(code) == [NoReply EXCEPT !.code = code]

(* An error response before the request is under way.                      *)
Reject(c, code) == UNCHANGED <<req, inflight>>

(* withInFlight gives the slot back in a deferred function.                *)
Released(c, panicked) == IF req[c].in.via = "rest" THEN inflight - 1 ELSE inflight

(* The response is written.                                                *)
Answer(c, r) ==
  /\ req' = [req EXCEPT ![c] = Quiet]
  /\ inflight' = Released(c, FALSE)

(* The request has been authenticated and goes to Registry.Invoke with the *)
(* snapshot its token was found in.                                        *)
Admitted(c, in) ==
  req' = [req EXCEPT ![c] = [Quiet EXCEPT !.pc = "invoke", !.in = in,
                                          !.snap = [rev |-> pub.rev, tok |-> tok]]]

(* withInFlight, the body, authenticate and limit of a REST request; what  *)
(* is left in its bucket is a matter of time.                              *)
ArriveRest(c, in, wellFormed, limited) ==
  /\ in.via = "rest"
  /\ CASE inflight >= MaxInFlight -> Reject(c, "unavailable")
       [] inflight < MaxInFlight /\ ~wellFormed -> Reject(c, "invalid_argument")
       [] inflight < MaxInFlight /\ wellFormed /\ limited -> Reject(c, "rate_limited")
       [] inflight < MaxInFlight /\ wellFormed /\ ~limited /\ ~tok.usable ->
            Reject(c, "unauthenticated")
       [] OTHER -> Admitted(c, in) /\ inflight' = inflight + 1

(* The MCP handler and callTool: there is neither a slot nor a bucket.     *)
ArriveMcp(c, in, wellFormed) ==
  /\ in.via = "mcp"
  /\ IF ~tok.usable THEN Reject(c, "unauthenticated")
     ELSE IF ~wellFormed THEN Reject(c, "invalid_argument")
     ELSE Admitted(c, in) /\ UNCHANGED inflight

Arrive(c, in) ==
  /\ req[c].pc = "idle"
  /\ arrivals < MaxArrivals
  /\ arrivals' = arrivals + 1
  /\ \E wellFormed, limited \in BOOLEAN :
       ArriveRest(c, in, wellFormed, limited) \/ ArriveMcp(c, in, wellFormed)
  /\ UNCHANGED <<pub, file, tok, store, ents, walk, hooks, ran>>

-----------------------------------------------------------------------------
(* Registry.Invoke                                                         *)

At(c, pc) == req[c].pc = pc
Goto(c, pc) == req' = [req EXCEPT ![c].pc = pc]
In(c) == req[c].in

(* The request ends without having run its handler.                        *)
Refuse(c, code) == Answer(c, Failed(code)) /\ UNCHANGED <<store, ents, ran>>

authorize(c) == ScopeOf(In(c).op) \in req[c].snap.tok.scopes

(* Seeded fault: the token's incarnation is not part of the store key.     *)
StoreKey_NoGeneration(c) == <<1, req[c].snap.tok.scopes, In(c).key>>
StoreKey(c) == <<req[c].snap.tok.gen, req[c].snap.tok.scopes, In(c).key>>

Fingerprint(c) == <<In(c).op, In(c).expect, In(c).id>>

(* Seeded fault: an entry without an expiry time counts as expired.        *)
Sweeps_Pending(e) == e.expired \/ ~e.done
Sweeps(e) == e.expired
Swept == [k \in StoreKeys |-> IF store[k] # 0 /\ Sweeps(ents[store[k]]) THEN 0 ELSE store[k]]

Entry(c) == [key |-> StoreKey(c), fp |-> Fingerprint(c), done |-> FALSE,
             expired |-> FALSE, out |-> NoReply]

SameInput(c, e) == e.fp = Fingerprint(c)

(* The lock region of invokeReplay: sweep, find or reserve.                *)
Reserve(c) ==
  LET k == StoreKey(c)
      e == Swept[k]
  IN /\ store' = IF e = 0 /\ Cardinality({j \in StoreKeys : Swept[j] # 0}) < Capacity
                 THEN [Swept EXCEPT ![k] = Len(ents) + 1] ELSE Swept
     /\ IF e # 0 /\ ~SameInput(c, ents[e])
        THEN Answer(c, Failed("conflict")) /\ UNCHANGED <<ents, ran>>
        ELSE IF e # 0
        THEN /\ req' = [req EXCEPT ![c].pc = "wait", ![c].ent = e]
             /\ UNCHANGED <<ents, ran, inflight>>
        ELSE IF store' = Swept
        THEN Answer(c, Failed("unavailable")) /\ UNCHANGED <<ents, ran>>
        ELSE /\ ents' = Append(ents, Entry(c))
             /\ ran' = [ran EXCEPT ![k] = @ + 1]
             /\ req' = [req EXCEPT ![c].pc = "run", ![c].ent = Len(ents) + 1]
             /\ UNCHANGED inflight

Invoke(c) ==
  /\ At(c, "invoke")
  /\ CASE ~authorize(c) -> Refuse(c, "permission_denied")
       [] authorize(c) /\ In(c).key = NoKey ->
            Goto(c, "run") /\ UNCHANGED <<store, ents, ran, inflight>>
       [] authorize(c) /\ In(c).key # NoKey /\ ~supportsReplay(In(c).op) ->
            Refuse(c, "invalid_argument")
       [] OTHER -> Reserve(c)
  /\ UNCHANGED <<pub, file, tok, walk, hooks, arrivals>>

(* A request that found an entry waits for it and returns what it holds.   *)
Await(c) ==
  /\ At(c, "wait") /\ ents[req[c].ent].done
  /\ Answer(c, ents[req[c].ent].out)
  /\ UNCHANGED <<pub, file, tok, store, ents, walk, hooks, arrivals, ran>>

(* Its client gives up first.                                              *)
Cancel(c) ==
  /\ At(c, "wait")
  /\ Answer(c, Failed("cancelled"))
  /\ UNCHANGED <<pub, file, tok, store, ents, walk, hooks, arrivals, ran>>

-----------------------------------------------------------------------------
(* The handlers                                                            *)

Outcome(c, code) ==
  [code |-> code, of |-> Fingerprint(c), gen |-> req[c].snap.tok.gen, rev |-> req[c].snap.rev]
Published(c, rev) == [Outcome(c, "ok") EXCEPT !.rev = rev]

(* The handler returns; its result is kept until Complete.                 *)
Return(c, out) == req' = [req EXCEPT ![c].pc = "complete", ![c].out = out]

RevisionMatches(c) == In(c).expect \in {AnyRevision, pub.rev}

(* handleUsersGet and its like, exports and validations: an answer from    *)
(* the snapshot the request was authenticated with.                        *)
ReadSnapshot(c) ==
  /\ At(c, "run") /\ In(c).op \in Reads
  /\ \E code \in {"ok", "not_found"} : Return(c, Outcome(c, code))
  /\ UNCHANGED <<pub, file, tok, store, ents, inflight, walk, hooks, arrivals, ran>>

(* handleReloadConfig reads the mounted file before it calls Reload.       *)
LoadBaseline(c) ==
  /\ At(c, "run") /\ In(c).op = "reload"
  /\ req' = [req EXCEPT ![c].pc = "publish", ![c].doc = file.ids]
  /\ UNCHANGED <<pub, file, tok, store, ents, inflight, walk, hooks, arrivals, ran>>

(* What a successful mutation publishes.                                   *)
Mutated(c) ==
  LET id == In(c).id
      next == [pub EXCEPT !.rev = @ + 1]
  IN CASE In(c).op = "create" -> [next EXCEPT !.live = @ \cup {id}, !.tombs = @ \ {id}]
       [] In(c).op = "update" -> next
       [] In(c).op = "delete" ->
            [next EXCEPT !.live = @ \ {id},
                         !.tombs = IF id \in pub.base THEN @ \cup {id} ELSE @]
       [] In(c).op = "reset" -> [next EXCEPT !.live = pub.base, !.tombs = {}]
       [] In(c).op = "reload" ->
            [next EXCEPT !.base = req[c].doc,
                         !.live = (@ \ pub.base) \cup (req[c].doc \ pub.tombs)]

(* The handler's call of the state manager.                                *)
Publish(c) ==
  /\ \/ At(c, "run") /\ In(c).op \in Mutations \ {"reload"}
     \/ At(c, "publish")
  /\ CASE ~RevisionMatches(c) ->
            Return(c, Outcome(c, "revision_mismatch")) /\ UNCHANGED <<pub, walk>>
       [] RevisionMatches(c) /\ In(c).op = "create" /\ In(c).id \in pub.live ->
            Return(c, Outcome(c, "already_exists")) /\ UNCHANGED <<pub, walk>>
       [] RevisionMatches(c) /\ In(c).op \in {"update", "delete"} /\ In(c).id \notin pub.live ->
            Return(c, Outcome(c, "not_found")) /\ UNCHANGED <<pub, walk>>
       [] OTHER ->
            /\ pub' = Mutated(c)
            /\ walk' = [p \in Pagers |-> [walk[p] EXCEPT !.stable = @ \cap pub'.live]]
            /\ IF In(c).op = "reset"
               THEN req' = [req EXCEPT ![c].pc = "hooks", ![c].out = Published(c, pub'.rev)]
               ELSE Return(c, Published(c, pub'.rev))
  /\ UNCHANGED <<file, tok, store, ents, inflight, hooks, arrivals, ran>>

(* handleResetRuntime then empties the tables of challenges and sessions.  *)
RunHooks(c) ==
  /\ At(c, "hooks")
  /\ hooks' = hooks + 1
  /\ Goto(c, "complete")
  /\ UNCHANGED <<pub, file, tok, store, ents, inflight, walk, arrivals, ran>>

(* The end of invokeReplay: a result that fits is kept, another one leaves *)
(* a tombstone; waiters are released.                                      *)
Kept(out, fits) == IF out.code # "ok" \/ fits THEN out ELSE Failed("unavailable")
Completed(c, out) ==
  IF req[c].ent = 0 THEN ents
  ELSE [ents EXCEPT ![req[c].ent].done = TRUE, ![req[c].ent].out = out]

Complete(c, fits) ==
  /\ At(c, "complete")
  /\ req[c].ent = 0 => fits
  /\ ents' = Completed(c, Kept(req[c].out, fits))
  /\ Answer(c, req[c].out)
  /\ UNCHANGED <<pub, file, tok, store, walk, hooks, arrivals, ran>>

(* Seeded fault: a panic leaves the entry pending.                         *)
Tombstone_None(c) == ents
(* The deferred function of invokeReplay.                                  *)
Tombstone(c) == Completed(c, Failed("unavailable"))

(* The handler panics; withRecover answers, or net/http ends the           *)
(* connection of MCP.                                                      *)
Panic(c) ==
  /\ req[c].pc \in {"run", "publish", "hooks"}
  /\ ents' = Tombstone(c)
  /\ req' = [req EXCEPT ![c] = Quiet]
  /\ inflight' = Released(c, TRUE)
  /\ UNCHANGED <<pub, file, tok, store, walk, hooks, arrivals, ran>>

(* The time to live of a completed entry is over.                          *)
Lapse(e) ==
  /\ e \in DOMAIN ents /\ ents[e].done /\ ~ents[e].expired
  /\ ents' = [ents EXCEPT ![e].expired = TRUE]
  /\ ran' = [ran EXCEPT ![ents[e].key] = 0]
  /\ UNCHANGED <<pub, file, tok, store, inflight, req, walk, hooks, arrivals>>

-----------------------------------------------------------------------------
(* Lists                                                                   *)

(* pageAfter on the sorted ids, and the same in handleTokensList: the      *)
(* lowest ids after the cursor.                                            *)
After(ids, cursor) == {i \in ids : i > cursor}
Rank(ids, i) == Cardinality({j \in ids : j < i})
PageOf(ids, cursor) == {i \in After(ids, cursor) : Rank(After(ids, cursor), i) < PageLimit}

(* Seeded fault: the cursor is the first id that was not returned.         *)
NextCursor_First(ids, cursor) ==
  IF Cardinality(After(ids, cursor)) <= PageLimit THEN 0
  ELSE CHOOSE i \in After(ids, cursor) : Rank(After(ids, cursor), i) = PageLimit
(* The last id of the page, if there are more.                             *)
NextCursor(ids, cursor) ==
  IF Cardinality(After(ids, cursor)) <= PageLimit THEN 0
  ELSE CHOOSE i \in After(ids, cursor) : Rank(After(ids, cursor), i) = PageLimit - 1

Listed(p) == pub.live \cup (IF walk[p].deleted THEN pub.tombs ELSE {})

(* A client walks a list, one request for each page, until there is no     *)
(* cursor.                                                                 *)
BeginWalk(p, deleted) ==
  /\ walk[p].pc = "idle"
  /\ walk' = [walk EXCEPT ![p] = [NoWalk EXCEPT !.pc = "page", !.stable = pub.live,
                                                !.deleted = deleted]]
  /\ UNCHANGED <<pub, file, tok, store, ents, inflight, req, hooks, arrivals, ran>>

(* handleUsersList, handleGroupsList, handleClientsList, handleTokensList. *)
ListPage(p) ==
  LET next == NextCursor(Listed(p), walk[p].cursor)
  IN /\ walk[p].pc = "page"
     /\ walk' = [walk EXCEPT ![p].pages = Append(@, PageOf(Listed(p), walk[p].cursor)),
                             ![p].cursor = next,
                             ![p].pc = IF next = 0 THEN "over" ELSE "page"]
     /\ UNCHANGED <<pub, file, tok, store, ents, inflight, req, hooks, arrivals, ran>>

-----------------------------------------------------------------------------
(* The world                                                               *)

(* The token is replaced, regranted or revoked.                            *)
ChangeToken(to) ==
  /\ tok.gen < MaxGeneration
  /\ tok' = [gen |-> tok.gen + 1, scopes |-> to.scopes, usable |-> to.usable]
  /\ UNCHANGED <<pub, file, store, ents, inflight, req, walk, hooks, arrivals, ran>>

EditFile(ids) ==
  /\ file.edits < MaxEdits
  /\ file' = [ids |-> ids, edits |-> file.edits + 1]
  /\ UNCHANGED <<pub, tok, store, ents, inflight, req, walk, hooks, arrivals, ran>>

Handle(c) == ReadSnapshot(c) \/ LoadBaseline(c) \/ Publish(c) \/ RunHooks(c)
Serve(c) == Invoke(c) \/ Await(c) \/ Handle(c) \/ \E fits \in BOOLEAN : Complete(c, fits)

Step ==
  \/ \E c \in Requests :
       \/ \E in \in scene.inputs : Arrive(c, in)
       \/ Serve(c) \/ Cancel(c) \/ Panic(c)
  \/ \E e \in DOMAIN ents : Lapse(e)
  \/ \E p \in scene.pagers : (\E deleted \in BOOLEAN : BeginWalk(p, deleted)) \/ ListPage(p)
  \/ \E to \in scene.tokens : ChangeToken(to)
  \/ \E ids \in scene.files : EditFile(ids)

Next == Step /\ UNCHANGED scene

(* The goroutine of a request runs; clients and their patience are free.   *)
Fairness == \A c \in Requests : WF_vars(Serve(c) /\ UNCHANGED scene)

Spec == Init /\ [][Next]_vars /\ Fairness

-----------------------------------------------------------------------------
(* Properties                                                              *)

(* Retries with one key run the handler once until its result has lapsed,  *)
(* however the first run ends and whoever waits for it (invokeReplay).     *)
OncePerKey == \A k \in StoreKeys : ran[k] <= 1

(* A success that a request receives, its own or a replayed one, is the    *)
(* outcome of the input it sent, executed for the incarnation of the token *)
(* it was authenticated with.                                              *)
AnswersItsRequest ==
  \A c \in Requests :
    At(c, "wait") /\ ents[req[c].ent].out.code = "ok"
      => /\ ents[req[c].ent].out.of = Fingerprint(c)
         /\ ents[req[c].ent].out.gen = req[c].snap.tok.gen

(* Every request is answered, the ones that wait for another's result too. *)
EveryRequestAnswered ==
  \A c \in Requests : (req[c].pc # "idle") ~> (req[c].pc = "idle")

(* A walk over the pages of a list returns, once, every object that was    *)
(* there all the time, although others come and go between the pages.      *)
WalkIsComplete ==
  \A p \in Pagers : walk[p].pc = "over" =>
    LET pages == walk[p].pages
    IN /\ walk[p].stable \subseteq UNION {pages[i] : i \in 1..Len(pages)}
       /\ \A i, j \in 1..Len(pages) : i # j => pages[i] \cap pages[j] = {}

=============================================================================
