---------------------------- MODULE SessionIndex ----------------------------
(***************************************************************************)
(* Dynamic authorization of RADIUS: the index of accounting sessions       *)
(* (radius/runtime/session_index.go), the handler of inbound CoA and       *)
(* Disconnect requests (radius/server/dynauth_inbound.go), the originator  *)
(* of outbound ones (radius/server/dynauth.go) and the operations that     *)
(* list sessions and send requests (api/operations/radius_dynauth.go).     *)
(*                                                                         *)
(* Every method of the index is one step under its lock and first drops    *)
(* the rows whose time is over.  A handler works with a copy of a row that *)
(* it looked up in an earlier step.                                        *)
(***************************************************************************)
EXTENDS Integers, Sequences, FiniteSets

CONSTANTS
  Endpoints, SessionIds, Names, Nas,
  Handlers,      \* workers with an inbound request
  Senders,       \* API requests that originate one
  Neighbours,    \* bound: who works beside accounting, what accounting sends,
                 \* and how many handles are drawn
  MaxRows,       \* MaxEntries of the index
  MaxBytes,
  PageLimit,
  MaxHandles,    \* bound: handles drawn
  MaxWires,      \* bound: requests originated
  CacheCap,      \* maxOriginateCache
  Nil

Keys == Endpoints \X SessionIds
Handles == 1..MaxHandles
Wires == 1..MaxWires

(* A row of the index: what accounting said last of the session, whether   *)
(* its time is over, and the attributes of the last CoA.                   *)
Row == [key : Keys, user : Names, nas : Nas, due : BOOLEAN, coa : {Nil, "attrs"}]

ASSUME IndexAssumption ==
  /\ {MaxRows, MaxBytes, PageLimit, CacheCap} \subseteq Nat \ {0}
  /\ MaxHandles \in Nat
  /\ \A x \in Neighbours : x.handles \in 0..MaxHandles /\ x.nas \subseteq Nas
  /\ Nil \notin SessionIds \cup Names \cup Nas \cup Nat \cup {"attrs"}
  /\ Nil \notin Row

VARIABLES
  active,   \* the scene; it never changes
  byKey,    \* the handle of each key
  byHandle, \* the row of each handle
  bytes,    \* the byte account of the index
  used,     \* handles ever given out
  das,      \* inbound requests in progress
  gone,     \* handles of sessions whose Disconnect was acknowledged
  walk,     \* a client that pages through radius.sessions.list
  dac,      \* originated requests in progress
  cache,    \* the originator's cache: the wire of each target
  wires,    \* identifiers of the requests sent
  network   \* requests and replies under way, and what the NAS did

indexVars == <<byKey, byHandle, bytes, used>>
siVars == <<active, byKey, byHandle, bytes, used, das, gone, walk, dac, cache, wires, network>>

(* The size of a row grows with the stored CoA attributes.                 *)
Size(row) == IF row.coa = Nil THEN 1 ELSE 2
Rows(rows) == {h \in Handles : rows[h] # Nil}

(* The sizes of some rows, added up.                                       *)
SizeOf(rows, hs) == Cardinality(hs) + Cardinality({h \in hs : rows[h].coa # Nil})

NoRequest == [pc |-> "idle", code |-> "none", row |-> Nil, found |-> 0]
Free == [pc |-> "idle", target |-> 0, wire |-> 0, outcome |-> "none"]
NoWalk == [on |-> FALSE, cursor |-> 0, seen |-> {}, owed |-> {}, missed |-> {}]

SiInit ==
  /\ active \in Neighbours
  /\ byKey = [k \in Keys |-> Nil]
  /\ byHandle = [h \in Handles |-> Nil]
  /\ bytes = 0
  /\ used = {}
  /\ das = [d \in Handlers |-> NoRequest]
  /\ gone = {}
  /\ walk = NoWalk
  /\ dac = [s \in Senders |-> Free]
  /\ cache = [h \in Handles |-> Nil]
  /\ wires = <<>>
  /\ network = [sent |-> {}, replies |-> {}, done |-> {}]

-----------------------------------------------------------------------------
(* The index                                                               *)

(* expireLocked, as the table every other method starts from.              *)
Fresh(h) == byHandle[h] # Nil /\ ~byHandle[h].due
Swept == [h \in Handles |-> IF Fresh(h) THEN byHandle[h] ELSE Nil]
SweptKeys == [k \in Keys |-> IF byKey[k] # Nil /\ Fresh(byKey[k]) THEN byKey[k] ELSE Nil]
SweptBytes == bytes - SizeOf(byHandle, {h \in Rows(byHandle) : ~Fresh(h)})

(* What a method leaves behind: rows and their byte count, with the keys   *)
(* that lead to them.                                                      *)
Install(rows, keys, n) ==
  /\ byHandle' = rows
  /\ byKey' = keys
  /\ bytes' = n

Lookup == Install(Swept, SweptKeys, SweptBytes) /\ UNCHANGED used

Fill(k, u, n, old) == [key |-> k, user |-> u, nas |-> n, due |-> FALSE,
                       coa |-> IF old = Nil THEN Nil ELSE old.coa]

(* insertLocked: a Start refreshes the row of its key under the old        *)
(* handle; a new row needs room in both budgets.                           *)
Insert(k, u, n) ==
  LET h == SweptKeys[k]
      row == Fill(k, u, n, IF h = Nil THEN Nil ELSE Swept[h])
  IN IF h # Nil
     THEN Install([Swept EXCEPT ![h] = row], SweptKeys, SweptBytes) /\ UNCHANGED used
     ELSE IF Cardinality(Rows(Swept)) >= MaxRows \/ SweptBytes + Size(row) > MaxBytes
     THEN Lookup
     ELSE \E new \in 1..active.handles \ used :
            /\ Install([Swept EXCEPT ![new] = row], [SweptKeys EXCEPT ![k] = new],
                       SweptBytes + Size(row))
            /\ used' = used \cup {new}

(* updateLocked: an Interim without a row is forgotten.                    *)
Update(k, u, n) ==
  LET h == SweptKeys[k]
  IN IF h = Nil THEN Lookup
     ELSE /\ Install([Swept EXCEPT ![h].user = u, ![h].nas = n], SweptKeys, SweptBytes)
          /\ UNCHANGED used

(* Seeded fault: the row is removed, the key still leads to its handle.    *)
DeleteKeys_KeepKey(ks) ==
  LET hs == {SweptKeys[k] : k \in {x \in ks : SweptKeys[x] # Nil}}
  IN /\ Install([h \in Handles |-> IF h \in hs THEN Nil ELSE Swept[h]], SweptKeys,
                SweptBytes - SizeOf(Swept, hs))
     /\ UNCHANGED used

(* deleteKeyLocked for a set of keys.                                      *)
DeleteKeys(ks) ==
  LET hs == {SweptKeys[k] : k \in {x \in ks : SweptKeys[x] # Nil}}
  IN /\ Install([h \in Handles |-> IF h \in hs THEN Nil ELSE Swept[h]],
                [k \in Keys |-> IF k \in ks THEN Nil ELSE SweptKeys[k]],
                SweptBytes - SizeOf(Swept, hs))
     /\ UNCHANGED used

(* flushLocked: the keys of an endpoint whose row names this NAS, by its   *)
(* address, its NAS-IP-Address or its identifier.                          *)
Flushed(e, n) ==
  {k \in Keys : k[1] = e /\ SweptKeys[k] # Nil /\ Swept[SweptKeys[k]].nas = n}

(* Apply: what accounting calls after the ring has accepted its record.    *)
Apply(kind, k, u, n) ==
  /\ CASE kind = "start"   -> Insert(k, u, n)
       [] kind = "interim" -> Update(k, u, n)
       [] kind = "stop"    -> DeleteKeys({k})
       [] kind = "on"      -> DeleteKeys(Flushed(k[1], n))
  /\ UNCHANGED <<das, gone, walk, dac, cache, wires, network>>

(* Reset, the last step of a runtime reset.                                *)
Reset ==
  /\ Rows(byHandle) # {}
  /\ Install([h \in Handles |-> Nil], [k \in Keys |-> Nil], 0)
  /\ UNCHANGED <<used, das, gone, walk, dac, cache, wires, network>>

(* A row has not been updated for the TTL.                                 *)
Due(h) ==
  /\ Fresh(h)
  /\ byHandle' = [byHandle EXCEPT ![h].due = TRUE]
  /\ UNCHANGED <<byKey, bytes, used, das, gone, walk, dac, cache, wires, network>>

-----------------------------------------------------------------------------
(* Inbound CoA and Disconnect                                              *)

(* FindDAS: the rows that agree with every part of the query.              *)
Hits(q) ==
  {h \in Rows(Swept) :
     /\ q.id # Nil => Swept[h].key[2] = q.id
     /\ q.user # Nil => Swept[h].user = q.user
     /\ q.nas # Nil => Swept[h].nas = q.nas}
Queries ==
  {q \in [id : SessionIds \cup {Nil}, user : Names \cup {Nil}, nas : Nas \cup {Nil}] :
     q.id # Nil \/ q.user # Nil}

(* DynamicAuth.Handle up to the lookup: no row or several are a NAK, as is *)
(* a query without a session id or a user.                                 *)
Find(d, code, q) ==
  /\ das[d].pc = "idle"
  /\ Lookup
  /\ Cardinality(Hits(q)) = 1
  /\ \E h \in Hits(q) :
       das' = [das EXCEPT ![d] = [pc |-> "found", code |-> code, row |-> Swept[h], found |-> h]]
  /\ UNCHANGED <<gone, walk, dac, cache, wires, network>>

FindNone(d, q) ==
  /\ das[d].pc = "idle"
  /\ Cardinality(Hits(q)) # 1
  /\ Lookup
  /\ UNCHANGED <<das, gone, walk, dac, cache, wires, network>>

(* Seeded fault: the row is deleted only if it is still the copy.          *)
Disconnects_SameRow(d) ==
  IF Swept[das[d].found] = das[d].row THEN {das[d].row.key} ELSE {}
Disconnects(d) == {das[d].row.key}

(* Delete by the key of the copy; the answer is an ACK whether or not      *)
(* there was a row.                                                        *)
Disconnect(d) ==
  /\ das[d].pc = "found" /\ das[d].code = "disconnect"
  /\ DeleteKeys(Disconnects(d))
  /\ das' = [das EXCEPT ![d] = NoRequest]
  /\ gone' = gone \cup {das[d].found}
  /\ UNCHANGED <<walk, dac, cache, wires, network>>

(* StoreLastCoA on the row the key leads to now, if any; then the ACK.     *)
StoreLastCoA(d) ==
  LET h == SweptKeys[das[d].row.key]
  IN /\ das[d].pc = "found" /\ das[d].code = "coa"
     /\ IF h = Nil THEN Lookup
        ELSE /\ Install([Swept EXCEPT ![h].coa = "attrs"], SweptKeys,
                        SweptBytes - Size(Swept[h]) + 2)
             /\ UNCHANGED used
     /\ das' = [das EXCEPT ![d] = NoRequest]
     /\ UNCHANGED <<gone, walk, dac, cache, wires, network>>

-----------------------------------------------------------------------------
(* radius.sessions.list                                                    *)

(* List: the rows with a handle after the cursor, lowest first.            *)
After(cursor) == {h \in Rows(Swept) : h > cursor}
Lowest(hs, n) == {h \in hs : Cardinality({x \in hs : x < h}) < n}

(* handleRadiusSessionsList asks for one row more than it returns, and     *)
(* hands out that row's handle as the next cursor.  owed are the sessions  *)
(* that were there when the walk began and still are.                      *)
ListPage ==
  LET got == Lowest(After(walk.cursor), PageLimit + 1)
      page == Lowest(got, PageLimit)
      owed == (IF walk.on THEN walk.owed ELSE Rows(Swept)) \cap Rows(Swept)
      seen == (IF walk.on THEN walk.seen ELSE {}) \cup page
  IN /\ Lookup
     /\ walk' = IF got = page
                THEN [NoWalk EXCEPT !.missed = owed \ seen]
                ELSE [on |-> TRUE, cursor |-> CHOOSE h \in got : h \notin page,
                      seen |-> seen, owed |-> owed, missed |-> {}]
     /\ UNCHANGED <<das, gone, dac, cache, wires, network>>

-----------------------------------------------------------------------------
(* radius.coa.send and radius.disconnect.send                              *)

(* handleDynAuthSend looks the session up and leaves with a copy.          *)
Target(s, h) ==
  /\ dac[s].pc = "idle"
  /\ Lookup
  /\ Fresh(h)
  /\ dac' = [dac EXCEPT ![s] = [Free EXCEPT !.pc = "send", !.target = h]]
  /\ UNCHANGED <<das, gone, walk, cache, wires, network>>

(* Send: within the cache's TTL the same request goes out again byte by    *)
(* byte.                                                                   *)
Cached(s) ==
  LET wire == cache[dac[s].target]
  IN /\ dac[s].pc = "send"
     /\ IF wire = Nil
        THEN dac' = [dac EXCEPT ![s].pc = "sign"] /\ UNCHANGED network
        ELSE /\ dac' = [dac EXCEPT ![s].pc = "wait", ![s].wire = wire]
             /\ network' = [network EXCEPT !.sent = @ \cup {wire}]
     /\ UNCHANGED <<byKey, byHandle, bytes, used, das, gone, walk, cache, wires>>

(* Otherwise a new one is signed, with an identifier taken from the clock, *)
(* and remembered unless the cache is full, whatever it holds by now.      *)
Sign(s, id) ==
  LET wire == Len(wires) + 1
  IN /\ dac[s].pc = "sign"
     /\ wire \in Wires
     /\ wires' = Append(wires, id)
     /\ cache' = IF Cardinality({h \in Handles : cache[h] # Nil}) >= CacheCap
                 THEN cache ELSE [cache EXCEPT ![dac[s].target] = wire]
     /\ network' = [network EXCEPT !.sent = @ \cup {wire}]
     /\ dac' = [dac EXCEPT ![s].pc = "wait", ![s].wire = wire]
     /\ UNCHANGED <<byKey, byHandle, bytes, used, das, gone, walk>>

(* An entry of the cache passes its deadline and is purged.                *)
Purge(h) ==
  /\ cache[h] # Nil
  /\ cache' = [cache EXCEPT ![h] = Nil]
  /\ UNCHANGED <<byKey, byHandle, bytes, used, das, gone, walk, dac, wires, network>>

(* The NAS answers a request it received, now or late, once or again.      *)
NasAnswers(x, ack) ==
  /\ x \in network.sent
  /\ network' = [network EXCEPT !.replies = @ \cup {[wire |-> x, ack |-> ack]},
                                !.done = IF ack THEN @ \cup {x} ELSE @]
  /\ UNCHANGED <<byKey, byHandle, bytes, used, das, gone, walk, dac, cache, wires>>

(* The identifier, and the two authenticators over the request's own.      *)
Answers(x, y) == wires[x] = wires[y] /\ x = y

(* exchange takes the first datagram that answers its request; others are  *)
(* skipped.  A reply may come to the socket of a later exchange that was   *)
(* given the same port.                                                    *)
Receive(s, reply) ==
  /\ dac[s].pc = "wait"
  /\ reply \in network.replies
  /\ Answers(reply.wire, dac[s].wire)
  /\ dac' = [dac EXCEPT ![s].pc = "end", ![s].outcome = IF reply.ack THEN "ack" ELSE "nak"]
  /\ UNCHANGED <<byKey, byHandle, bytes, used, das, gone, walk, cache, wires, network>>

(* The deadline passes: an outcome, not an error.                          *)
Timeout(s) ==
  /\ dac[s].pc = "wait"
  /\ dac' = [dac EXCEPT ![s].pc = "end", ![s].outcome = "timeout"]
  /\ UNCHANGED <<byKey, byHandle, bytes, used, das, gone, walk, cache, wires, network>>

(* The response is written and the request forgotten.                      *)
Respond(s) ==
  /\ dac[s].pc = "end"
  /\ dac' = [dac EXCEPT ![s] = Free]
  /\ UNCHANGED <<byKey, byHandle, bytes, used, das, gone, walk, cache, wires, network>>

SiStep ==
  \/ \E kind \in active.kinds \cap {"start", "interim", "stop", "on"}, k \in Keys, u \in Names, n \in active.nas :
       Apply(kind, k, u, n)
  \/ "reset" \in active.kinds /\ Reset
  \/ "due" \in active.kinds /\ \E h \in Handles : Due(h)
  \/ /\ active.who = "das"
     /\ \E d \in Handlers :
          \/ \E q \in Queries : FindNone(d, q) \/ \E code \in {"coa", "disconnect"} : Find(d, code, q)
          \/ Disconnect(d)
          \/ StoreLastCoA(d)
  \/ active.who = "list" /\ ListPage
  \/ /\ active.who = "dac"
     /\ \/ \E s \in Senders :
             \/ \E h \in Handles : Target(s, h)
             \/ Cached(s)
             \/ \E id \in {0, 1} : Sign(s, id)
             \/ \E r \in network.replies : Receive(s, r)
             \/ Timeout(s) \/ Respond(s)
        \/ \E h \in Handles : Purge(h)
        \/ \E x \in Wires, ack \in BOOLEAN : NasAnswers(x, ack)

SiNext == SiStep /\ UNCHANGED active
SiSpec == SiInit /\ [][SiNext]_siVars

-----------------------------------------------------------------------------
(* Properties                                                              *)

(* Keys and rows lead to each other, the byte account is exact, and the    *)
(* number of rows is bounded: every method leaves the two maps and the     *)
(* counter agreeing, refreshes and partial removals included.              *)
IndexConsistent ==
  /\ \A k \in Keys : byKey[k] # Nil => /\ byHandle[byKey[k]] # Nil
                                       /\ byHandle[byKey[k]].key = k
  /\ \A h \in Rows(byHandle) : byKey[byHandle[h].key] = h
  /\ bytes = SizeOf(byHandle, Rows(byHandle))
  /\ Cardinality(Rows(byHandle)) <= MaxRows

(* An ACK is true in both directions.  A session whose inbound Disconnect  *)
(* was acknowledged is never again in the index under its handle, whatever *)
(* accounting did between the lookup and the deletion; an originated       *)
(* request is reported as acknowledged only if the NAS acknowledged that   *)
(* very request, and not another one with its identifier.                  *)
AckIsTrue ==
  /\ \A h \in gone : byHandle[h] = Nil
  /\ \A s \in Senders : dac[s].outcome = "ack" => dac[s].wire \in network.done

(* A client that follows the cursors to the end has seen every session     *)
(* that was there all the time.                                            *)
WalkSeesAll == walk.missed = {}

=============================================================================
