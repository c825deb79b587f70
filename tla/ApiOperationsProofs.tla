------------------------ MODULE ApiOperationsProofs ------------------------
(***************************************************************************)
(* Proofs about ApiOperations, for every number of requests and keys, any  *)
(* operations and any capacity of the replay store.                        *)
(*                                                                         *)
(* The argument is about the entries of the replay store.  A request that  *)
(* has an entry, as its owner or waiting for it, has the entry's key and   *)
(* input; an outcome is of the input and the token it was made with; and   *)
(* an entry that has not lapsed is the one its key leads to.               *)
(***************************************************************************)
EXTENDS ApiOperations, FiniteSetTheorems, TLAPS

(* What the variables hold.                                                *)
Collections == {S \in SUBSET Ids : IsFiniteSet(S)}
Snapshots == [rev : Nat, live : Collections, tombs : Collections, base : Collections]
Tokens == [gen : 1..MaxGeneration, scopes : Grants, usable : BOOLEAN]
Prints == {<<i.op, i.expect, i.id>> : i \in Inputs}
Codes ==
  {"none", "ok", "conflict", "unavailable", "cancelled", "permission_denied", "invalid_argument",
   "revision_mismatch", "already_exists", "not_found"}
Replies == [code : Codes, of : Prints \cup {"none"}, gen : Nat, rev : Nat]
Entries == [key : StoreKeys, fp : Prints, done : BOOLEAN, expired : BOOLEAN, out : Replies]
Active ==
  [pc : {"invoke", "wait", "run", "publish", "hooks", "complete"}, in : Inputs,
   snap : [rev : Nat, tok : Tokens], ent : Nat, doc : Collections, out : Replies]

(* What a request is about, and the key it keeps its result under.         *)
PrintOf(r) == <<r.in.op, r.in.expect, r.in.id>>
KeyOf(r) == <<r.snap.tok.gen, r.snap.tok.scopes, r.in.key>>

(* A success is the outcome of this input, for this incarnation.           *)
Matches(out, fp, gen) == out.code = "ok" => out.of = fp /\ out.gen = gen

RequestOK(r, es) ==
  IF r.pc = "idle" THEN r = Quiet
  ELSE /\ r \in Active
       /\ r.pc = "wait" => r.ent # 0
       /\ r.pc = "publish" => r.in.op = "reload"
       /\ r.ent # 0 => /\ r.ent \in 1..Len(es)
                       /\ es[r.ent].fp = PrintOf(r) /\ es[r.ent].key = KeyOf(r)
       /\ Matches(r.out, PrintOf(r), r.snap.tok.gen)

WorldOK ==
  /\ scene \in Scenes
  /\ pub \in Snapshots
  /\ file.ids \in Collections
  /\ tok \in Tokens

EntriesOK ==
  /\ ents \in Seq(Entries)
  /\ \A e \in 1..Len(ents) : Matches(ents[e].out, ents[e].fp, ents[e].key[1])

(* A key leads to its newest entry until that has lapsed; a handler ran    *)
(* under the key only if the entry is there.                               *)
StoreOK ==
  /\ store \in [StoreKeys -> Nat]
  /\ ran \in [StoreKeys -> {0, 1}]
  /\ \A k \in StoreKeys : store[k] # 0 => store[k] \in 1..Len(ents) /\ ents[store[k]].key = k
  /\ \A k \in StoreKeys : ran[k] # 0 => store[k] # 0 /\ ~ents[store[k]].expired
  /\ \A e \in 1..Len(ents) : ~ents[e].expired => store[ents[e].key] = e

RequestsOK == req = [c \in Requests |-> req[c]] /\ \A c \in Requests : RequestOK(req[c], ents)

OpsInv == WorldOK /\ EntriesOK /\ StoreOK /\ RequestsOK

-----------------------------------------------------------------------------
(* Facts about requests and entries.                                       *)

(* What scenes offer is what requests may be about.                        *)
LEMMA SceneFacts ==
  ASSUME NEW s \in Scenes
  PROVE  /\ \A i \in s.inputs : i \in Inputs
         /\ \A f \in s.files : f \in Collections
         /\ \A t \in s.tokens : t.scopes \in Grants /\ t.usable \in BOOLEAN
         /\ s.grant \in Grants
  BY OperationsAssumption DEF Inputs, Collections

(* Finite sets of objects.                                                 *)
LEMMA CollectionFacts ==
  /\ {} \in Collections
  /\ \A i \in Ids : {i} \in Collections
  /\ \A S \in Collections : \A T : T \subseteq S => T \in Collections
  /\ \A S \in Collections : \A T : S \ T \in Collections
  /\ \A S, T \in Collections : S \cup T \in Collections
  <1>1. {} \in Collections
    BY FS_EmptySet DEF Collections
  <1>2. \A i \in Ids : {i} \in Collections
    BY FS_Singleton DEF Collections
  <1>3. ASSUME NEW S \in Collections, NEW T, T \subseteq S
        PROVE  T \in Collections
    <2>1. IsFiniteSet(T)
      BY <1>3, FS_Subset DEF Collections
    <2> QED BY <1>3, <2>1 DEF Collections
  <1>4. ASSUME NEW S \in Collections, NEW T
        PROVE  S \ T \in Collections
    BY <1>3
  <1>5. ASSUME NEW S \in Collections, NEW T \in Collections
        PROVE  S \cup T \in Collections
    <2>1. IsFiniteSet(S \cup T)
      BY FS_Union DEF Collections
    <2> QED BY <2>1 DEF Collections
  <1> QED BY <1>1, <1>2, <1>3, <1>4, <1>5

LEMMA QuietOK ==
  /\ \A es : RequestOK(Quiet, es)
  /\ NoReply \in Replies /\ \A code \in Codes : Failed(code) \in Replies
  /\ \A code, fp, gen : code # "ok" => Matches(Failed(code), fp, gen)
  /\ \A fp, gen : Matches(NoReply, fp, gen)
  <1>1. \A es : RequestOK(Quiet, es)
    BY DEF RequestOK, Quiet
  <1>2. NoReply \in Replies
    BY DEF NoReply, Replies, Codes
  <1>6. \A fp, gen : Matches(NoReply, fp, gen)
    BY DEF NoReply, Matches
  <1>3. \A code : Failed(code) = [code |-> code, of |-> "none", gen |-> 0, rev |-> 0]
    BY DEF Failed, NoReply
  <1>4. \A code \in Codes : Failed(code) \in Replies
    BY <1>3 DEF Replies
  <1>5. \A code, fp, gen : code # "ok" => Matches(Failed(code), fp, gen)
    BY <1>3 DEF Matches
  <1> QED BY <1>1, <1>2, <1>4, <1>5, <1>6

(* The record of a request that has been admitted.                         *)
LEMMA QuietWith ==
  ASSUME NEW in, NEW sn, NEW r, r = [Quiet EXCEPT !.pc = "invoke", !.in = in, !.snap = sn]
  PROVE  r = [pc |-> "invoke", in |-> in, snap |-> sn, ent |-> 0, doc |-> {}, out |-> NoReply]
  <1>1. DOMAIN r = DOMAIN Quiet
    OBVIOUS
  <1>2. /\ r.pc = "invoke" /\ r.in = in /\ r.snap = sn /\ r.ent = 0 /\ r.doc = {}
        /\ r.out = NoReply
    BY DEF Quiet
  <1> QED BY <1>1, <1>2 DEF Quiet

(* The key and the input of a request that is under way.                   *)
LEMMA ActiveFacts ==
  ASSUME NEW r \in Active
  PROVE  /\ PrintOf(r) \in Prints
         /\ r.in.key # NoKey => KeyOf(r) \in StoreKeys /\ KeyOf(r)[1] = r.snap.tok.gen
         /\ r.snap.tok.gen \in Nat /\ r.snap.rev \in Nat
         /\ r.in.op = "create" => r.in.id \in Ids
  <1>1. r.in \in Inputs /\ r.snap \in [rev : Nat, tok : Tokens]
    BY DEF Active
  <1>2. /\ r.snap.tok \in Tokens /\ r.snap.rev \in Nat
    BY <1>1
  <1>3. r.snap.tok.gen \in 1..MaxGeneration /\ r.snap.tok.scopes \in Grants
    BY <1>2 DEF Tokens
  <1>4. PrintOf(r) \in Prints /\ (r.in.op = "create" => r.in.id \in Ids)
    BY <1>1, OperationsAssumption DEF PrintOf, Prints, Inputs
  <1>5. r.in.key # NoKey => KeyOf(r) \in StoreKeys /\ KeyOf(r)[1] = r.snap.tok.gen
    BY <1>1, <1>3 DEF KeyOf, StoreKeys, Keys
  <1> QED BY <1>2, <1>3, <1>4, <1>5

(* A step of one request that touches neither the store nor the entries.   *)
LEMMA RequestMoves ==
  ASSUME OpsInv, WorldOK', NEW c \in Requests, NEW r, RequestOK(r, ents),
         req' = [req EXCEPT ![c] = r], UNCHANGED <<store, ents, ran>>
  PROVE  OpsInv'
  <1>1. RequestsOK'
    BY DEF OpsInv, RequestsOK
  <1> QED BY <1>1 DEF OpsInv, EntriesOK, StoreOK

(* A step that touches neither the requests nor the store.                 *)
LEMMA WorldMoves ==
  ASSUME OpsInv, WorldOK', UNCHANGED <<req, store, ents, ran>>
  PROVE  OpsInv'
  BY DEF OpsInv, EntriesOK, StoreOK, RequestsOK

LEMMA OpsInitial == Init => OpsInv
  <1> SUFFICES ASSUME Init PROVE OpsInv
    OBVIOUS
  <1>1. WorldOK
    <2>1. scene \in Scenes /\ file.ids \in scene.files
      BY DEF Init
    <2>2. file.ids \in Collections /\ scene.grant \in Grants
      BY <2>1, SceneFacts
    <2>3. pub \in Snapshots
      BY <2>2, CollectionFacts DEF Init, Snapshots
    <2>4. tok \in Tokens
      BY <2>2, OperationsAssumption DEF Init, Tokens
    <2> QED BY <2>1, <2>2, <2>3, <2>4 DEF WorldOK
  <1>2. EntriesOK /\ StoreOK
    BY DEF Init, EntriesOK, StoreOK
  <1>3. RequestsOK
    BY QuietOK DEF Init, RequestsOK
  <1> QED BY <1>1, <1>2, <1>3 DEF OpsInv

-----------------------------------------------------------------------------
(* The steps                                                               *)

LEMMA ArriveSteps ==
  ASSUME OpsInv, scene' = scene, NEW c \in Requests, NEW in \in scene.inputs, Arrive(c, in)
  PROVE  OpsInv'
  <1>1. WorldOK /\ WorldOK' /\ UNCHANGED <<store, ents, ran>>
    BY DEF OpsInv, WorldOK, Arrive
  <1>2. UNCHANGED req \/ Admitted(c, in)
    BY DEF Arrive, ArriveRest, ArriveMcp, Reject
  <1>3. CASE UNCHANGED req
    BY <1>1, <1>3, WorldMoves
  <1>4. CASE Admitted(c, in)
    <2> DEFINE sn == [rev |-> pub.rev, tok |-> tok]
               r == [Quiet EXCEPT !.pc = "invoke", !.in = in, !.snap = sn]
    <2>1. in \in Inputs /\ pub.rev \in Nat /\ tok \in Tokens
      BY <1>1, SceneFacts DEF WorldOK, Snapshots
    <2>3. sn \in [rev : Nat, tok : Tokens]
      BY <2>1
    <2>6. req' = [req EXCEPT ![c] = r]
      BY <1>4 DEF Admitted
    <2> HIDE DEF sn
    <2>2. r = [pc |-> "invoke", in |-> in, snap |-> sn, ent |-> 0, doc |-> {}, out |-> NoReply]
      BY QuietWith
    <2> HIDE DEF r
    <2>4. r \in Active /\ r.pc = "invoke" /\ r.ent = 0 /\ r.out = NoReply
      BY <2>1, <2>2, <2>3, QuietOK, CollectionFacts DEF Active
    <2>5. RequestOK(r, ents)
      BY <2>4, QuietOK DEF RequestOK
    <2> QED BY <1>1, <2>5, <2>6, RequestMoves
  <1> QED BY <1>2, <1>3, <1>4

(* The response is written; nothing of the request is left.                *)
LEMMA AnswerMoves ==
  ASSUME OpsInv, WorldOK', NEW c \in Requests, NEW r, Answer(c, r), UNCHANGED <<store, ents, ran>>
  PROVE  OpsInv'
  BY QuietOK, RequestMoves DEF Answer

(* What the invariant says of a request that is under way.                 *)
LEMMA RequestFacts ==
  ASSUME OpsInv, NEW c \in Requests, req[c].pc # "idle"
  PROVE  /\ req[c] \in Active /\ RequestOK(req[c], ents)
         /\ PrintOf(req[c]) = Fingerprint(c) /\ KeyOf(req[c]) = StoreKey(c)
  BY DEF OpsInv, RequestsOK, RequestOK, PrintOf, KeyOf, Fingerprint, StoreKey, In

(* A request goes on, with the same input, snapshot and entry.             *)
LEMMA GoesOn ==
  ASSUME NEW es, NEW r, r.pc # "idle", RequestOK(r, es), NEW x \in Active,
         x.pc # "wait", x.pc = "publish" => x.in.op = "reload", x.in = r.in, x.snap = r.snap, x.ent = r.ent,
         Matches(x.out, PrintOf(r), r.snap.tok.gen)
  PROVE  RequestOK(x, es)
  BY DEF RequestOK, PrintOf, KeyOf, Active

LEMMA GotoMoves ==
  ASSUME OpsInv, WorldOK', NEW c \in Requests, req[c].pc # "idle",
         NEW pc \in {"run", "complete"}, Goto(c, pc), UNCHANGED <<store, ents, ran>>
  PROVE  OpsInv'
  <1> DEFINE x == [req[c] EXCEPT !.pc = pc]
  <1>1. req[c] \in Active /\ RequestOK(req[c], ents)
    BY RequestFacts
  <1>2. /\ x \in Active /\ x.pc = pc /\ x.in = req[c].in /\ x.snap = req[c].snap
        /\ x.ent = req[c].ent /\ x.out = req[c].out
    BY <1>1 DEF Active
  <1>3. req' = [req EXCEPT ![c] = x]
    BY DEF Goto
  <1> HIDE DEF x
  <1>4. RequestOK(x, ents)
    BY <1>1, <1>2, GoesOn DEF RequestOK
  <1> QED BY <1>3, <1>4, RequestMoves


(* What the invariant says of an entry.                                    *)
LEMMA EntryFacts ==
  ASSUME OpsInv, NEW e \in 1..Len(ents)
  PROVE  /\ ents[e] \in Entries /\ ents[e].key \in StoreKeys
         /\ Matches(ents[e].out, ents[e].fp, ents[e].key[1])
         /\ e \in Nat /\ e # 0
  <1>1. ents[e] \in Entries /\ Matches(ents[e].out, ents[e].fp, ents[e].key[1])
    BY DEF OpsInv, EntriesOK
  <1>2. ents[e].key \in StoreKeys
    BY <1>1 DEF Entries
  <1>3. e \in Nat /\ e # 0
    BY DEF OpsInv, EntriesOK
  <1> QED BY <1>1, <1>2, <1>3

(* Sweeping drops the entries that have lapsed and nothing else.           *)
LEMMA SweptFacts ==
  ASSUME OpsInv
  PROVE  /\ Swept \in [StoreKeys -> Nat]
         /\ \A k \in StoreKeys : Swept[k] # 0 => /\ Swept[k] \in 1..Len(ents)
                                                 /\ ents[Swept[k]].key = k
                                                 /\ ~ents[Swept[k]].expired
         /\ \A k \in StoreKeys : ran[k] # 0 => Swept[k] # 0
         /\ \A e \in 1..Len(ents) : ~ents[e].expired => Swept[ents[e].key] = e
  <1>1. /\ store \in [StoreKeys -> Nat]
        /\ \A k \in StoreKeys : store[k] # 0 => store[k] \in 1..Len(ents) /\ ents[store[k]].key = k
        /\ \A k \in StoreKeys : ran[k] # 0 => store[k] # 0 /\ ~ents[store[k]].expired
        /\ \A e \in 1..Len(ents) : ~ents[e].expired => store[ents[e].key] = e
    BY DEF OpsInv, StoreOK
  <1>2. \A e \in 1..Len(ents) : ents[e].key \in StoreKeys
    BY EntryFacts
  <1>3. /\ Swept \in [StoreKeys -> Nat]
        /\ \A k \in StoreKeys :
             Swept[k] = IF store[k] # 0 /\ ents[store[k]].expired THEN 0 ELSE store[k]
    BY <1>1 DEF Swept, Sweeps
  <1> QED BY <1>1, <1>2, <1>3

LEMMA StoreSwept ==
  ASSUME OpsInv, store' = Swept, UNCHANGED <<ents, ran>>
  PROVE  StoreOK' /\ EntriesOK'
  <1>1. EntriesOK' /\ ran' \in [StoreKeys -> {0, 1}]
    BY DEF OpsInv, EntriesOK, StoreOK
  <1> QED BY <1>1, SweptFacts DEF StoreOK

(* Requests whose own record did not change still fit more entries.        *)
LEMMA OthersKeep ==
  ASSUME NEW es, NEW fs, NEW r, RequestOK(r, es), Len(es) \in Nat, Len(fs) \in Nat,
         Len(es) <= Len(fs),
         \A e \in 1..Len(es) : fs[e].fp = es[e].fp /\ fs[e].key = es[e].key
  PROVE  RequestOK(r, fs)
  <1>1. CASE r.pc = "idle"
    BY <1>1 DEF RequestOK
  <1>2. CASE r.pc # "idle"
    <2>1. r.ent # 0 => /\ r.ent \in 1..Len(fs)
                       /\ fs[r.ent].fp = PrintOf(r) /\ fs[r.ent].key = KeyOf(r)
      BY <1>2 DEF RequestOK
    <2> QED BY <1>2, <2>1 DEF RequestOK
  <1> QED BY <1>1, <1>2

(* The request has found an entry for its key and its input.               *)
LEMMA WaitStep ==
  ASSUME OpsInv, WorldOK', NEW c \in Requests, req[c].pc = "invoke", StoreKey(c) \in StoreKeys,
         Swept[StoreKey(c)] # 0, SameInput(c, ents[Swept[StoreKey(c)]]), store' = Swept,
         UNCHANGED <<ents, ran>>,
         req' = [req EXCEPT ![c].pc = "wait", ![c].ent = Swept[StoreKey(c)]]
  PROVE  OpsInv'
  <1>1. PICK e : e = Swept[StoreKey(c)]
    OBVIOUS
  <1>2. e \in 1..Len(ents) /\ ents[e].key = StoreKey(c) /\ e # 0
    BY <1>1, SweptFacts
  <1>3. ents[e].fp = Fingerprint(c)
    BY <1>1 DEF SameInput
  <1>4. req[c] \in Active /\ RequestOK(req[c], ents) /\ PrintOf(req[c]) = Fingerprint(c)
        /\ KeyOf(req[c]) = StoreKey(c)
    BY RequestFacts
  <1>5. Matches(req[c].out, PrintOf(req[c]), req[c].snap.tok.gen)
    BY <1>4 DEF RequestOK
  <1>6. e \in Nat
    BY <1>2 DEF OpsInv, EntriesOK
  <1> DEFINE x == [req[c] EXCEPT !.pc = "wait", !.ent = e]
  <1>7. /\ x \in Active /\ x.pc = "wait" /\ x.in = req[c].in /\ x.snap = req[c].snap
        /\ x.ent = e /\ x.out = req[c].out
    BY <1>4, <1>6 DEF Active
  <1>8. req' = [req EXCEPT ![c] = x]
    BY <1>1
  <1> HIDE DEF x
  <1>9. PrintOf(x) = PrintOf(req[c]) /\ KeyOf(x) = KeyOf(req[c])
    BY <1>7 DEF PrintOf, KeyOf
  <1>10. RequestOK(x, ents)
    BY <1>2, <1>3, <1>4, <1>5, <1>7, <1>9 DEF RequestOK
  <1>11. RequestsOK'
    BY <1>8, <1>10 DEF OpsInv, RequestsOK
  <1> QED BY <1>11, StoreSwept DEF OpsInv


(* The request reserves its key with a new entry and runs the handler.     *)
LEMMA NewEntryStep ==
  ASSUME OpsInv, WorldOK', NEW c \in Requests, req[c].pc = "invoke", StoreKey(c) \in StoreKeys,
         Swept[StoreKey(c)] = 0, store' = [Swept EXCEPT ![StoreKey(c)] = Len(ents) + 1],
         ents' = Append(ents, Entry(c)), ran' = [ran EXCEPT ![StoreKey(c)] = @ + 1],
         req' = [req EXCEPT ![c].pc = "run", ![c].ent = Len(ents) + 1]
  PROVE  OpsInv'
  <1>1. PICK k \in StoreKeys : k = StoreKey(c)
    OBVIOUS
  <1>2. PICK n \in Nat : n = Len(ents) + 1
    BY DEF OpsInv, EntriesOK
  <1>3. PICK x : x = Entry(c)
    OBVIOUS
  <1>4. /\ req[c] \in Active /\ RequestOK(req[c], ents) /\ PrintOf(req[c]) = Fingerprint(c)
        /\ KeyOf(req[c]) = k
    BY <1>1, RequestFacts
  <1>5. x = [key |-> k, fp |-> Fingerprint(c), done |-> FALSE, expired |-> FALSE, out |-> NoReply]
    BY <1>1, <1>3 DEF Entry
  <1>6. Fingerprint(c) \in Prints
    BY <1>4, ActiveFacts
  <1>7. x \in Entries
    BY <1>5, <1>6, QuietOK DEF Entries
  <1>8. x.key = k /\ x.fp = Fingerprint(c) /\ ~x.expired /\ x.out = NoReply
    BY <1>5
  <1>9. /\ ents' \in Seq(Entries) /\ Len(ents') = n /\ Len(ents) \in Nat /\ n = Len(ents) + 1
        /\ \A e \in 1..Len(ents) : ents'[e] = ents[e]
        /\ ents'[n] = x
    BY <1>2, <1>3, <1>7 DEF OpsInv, EntriesOK
  <1>10. \A e \in 1..Len(ents') : e = n \/ e \in 1..Len(ents)
    BY <1>9
  <1>11. EntriesOK'
    <2>1. Matches(x.out, x.fp, x.key[1])
      BY <1>8, QuietOK
    <2> QED BY <1>9, <1>10, <2>1, EntryFacts DEF EntriesOK
  <1>12. ran[k] = 0
    BY <1>1, SweptFacts DEF OpsInv, StoreOK
  <1>13. /\ ran' \in [StoreKeys -> {0, 1}] /\ ran'[k] = 1
         /\ \A j \in StoreKeys \ {k} : ran'[j] = ran[j]
    BY <1>1, <1>12 DEF OpsInv, StoreOK
  <1>14. /\ store' \in [StoreKeys -> Nat] /\ store'[k] = n
         /\ \A j \in StoreKeys \ {k} : store'[j] = Swept[j]
    BY <1>1, <1>2, SweptFacts
  <1>15. StoreOK'
    <2>1. \A j \in StoreKeys : store'[j] # 0 => store'[j] \in 1..Len(ents') /\ ents'[store'[j]].key = j
      BY <1>8, <1>9, <1>14, SweptFacts
    <2>2. \A j \in StoreKeys : ran'[j] # 0 => store'[j] # 0 /\ ~ents'[store'[j]].expired
      BY <1>8, <1>9, <1>13, <1>14, SweptFacts
    <2>3. \A e \in 1..Len(ents') : ~ents'[e].expired => store'[ents'[e].key] = e
      <3> SUFFICES ASSUME NEW e \in 1..Len(ents'), ~ents'[e].expired PROVE store'[ents'[e].key] = e
        OBVIOUS
      <3>1. CASE e = n
        BY <3>1, <1>8, <1>9, <1>14
      <3>2. CASE e \in 1..Len(ents)
        <4>1. ents'[e] = ents[e] /\ ents[e].key \in StoreKeys /\ Swept[ents[e].key] = e /\ e # 0
          BY <3>2, <1>9, EntryFacts, SweptFacts
        <4>2. ents[e].key # k
          BY <4>1, <1>1
        <4> QED BY <4>1, <4>2, <1>14
      <3> QED BY <3>1, <3>2, <1>10
    <2> QED BY <1>13, <1>14, <2>1, <2>2, <2>3 DEF StoreOK
  <1> DEFINE y == [req[c] EXCEPT !.pc = "run", !.ent = n]
  <1>16. /\ y \in Active /\ y.pc = "run" /\ y.in = req[c].in /\ y.snap = req[c].snap
         /\ y.ent = n /\ y.out = req[c].out
    BY <1>4 DEF Active
  <1>17. req' = [req EXCEPT ![c] = y]
    BY <1>2
  <1> HIDE DEF y
  <1>18. RequestOK(y, ents')
    <2>1. PrintOf(y) = PrintOf(req[c]) /\ KeyOf(y) = KeyOf(req[c])
      BY <1>16 DEF PrintOf, KeyOf
    <2>2. Matches(y.out, PrintOf(y), y.snap.tok.gen)
      BY <1>4, <1>16, <2>1 DEF RequestOK
    <2>3. n \in 1..Len(ents') /\ ents'[n].fp = PrintOf(y) /\ ents'[n].key = KeyOf(y)
      BY <1>4, <1>8, <1>9, <2>1
    <2> QED BY <1>16, <2>2, <2>3 DEF RequestOK
  <1>19. \A d \in Requests : RequestOK(req[d], ents')
    <2>1. /\ Len(ents') \in Nat /\ Len(ents) <= Len(ents')
          /\ \A e \in 1..Len(ents) : ents'[e].fp = ents[e].fp /\ ents'[e].key = ents[e].key
      BY <1>9
    <2>2. \A d \in Requests : RequestOK(req[d], ents)
      BY DEF OpsInv, RequestsOK
    <2> HIDE DEF y
    <2> QED BY <1>9, <2>1, <2>2, OthersKeep
  <1>20. RequestsOK'
    BY <1>17, <1>18, <1>19 DEF OpsInv, RequestsOK
  <1> QED BY <1>11, <1>15, <1>20 DEF OpsInv


(* The lock region of invokeReplay.                                        *)
LEMMA ReserveStep ==
  ASSUME OpsInv, WorldOK', NEW c \in Requests, req[c].pc = "invoke", In(c).key # NoKey, Reserve(c)
  PROVE  OpsInv'
  <1>1. StoreKey(c) \in StoreKeys
    BY RequestFacts, ActiveFacts DEF In
  <1>2. PICK k \in StoreKeys : k = StoreKey(c)
    BY <1>1
  <1>3. Swept \in [StoreKeys -> Nat] /\ Len(ents) \in Nat
    BY SweptFacts DEF OpsInv, EntriesOK
  <1>4. ASSUME NEW r, Answer(c, r), store' = Swept, UNCHANGED <<ents, ran>> PROVE OpsInv'
    <2>1. req' = [req EXCEPT ![c] = Quiet]
      BY <1>4 DEF Answer
    <2>2. RequestsOK'
      BY <1>4, <2>1, QuietOK DEF OpsInv, RequestsOK
    <2> QED BY <1>4, <2>2, StoreSwept DEF OpsInv
  <1>5. CASE Swept[k] # 0 /\ ~SameInput(c, ents[Swept[k]])
    BY <1>2, <1>4, <1>5 DEF Reserve
  <1>6. CASE Swept[k] # 0 /\ SameInput(c, ents[Swept[k]])
    BY <1>2, <1>6, WaitStep DEF Reserve
  <1>7. CASE Swept[k] = 0 /\ store' = Swept
    BY <1>2, <1>4, <1>7 DEF Reserve
  <1>8. CASE Swept[k] = 0 /\ store' # Swept
    <2>1. /\ store' = [Swept EXCEPT ![k] = Len(ents) + 1]
          /\ ents' = Append(ents, Entry(c))
          /\ ran' = [ran EXCEPT ![k] = @ + 1]
          /\ req' = [req EXCEPT ![c].pc = "run", ![c].ent = Len(ents) + 1]
      BY <1>2, <1>8 DEF Reserve
    <2> QED BY <1>1, <1>2, <1>8, <2>1, NewEntryStep
  <1> QED BY <1>5, <1>6, <1>7, <1>8

LEMMA InvokeStep ==
  ASSUME OpsInv, scene' = scene, NEW c \in Requests, Invoke(c)
  PROVE  OpsInv'
  <1>1. WorldOK' /\ req[c].pc = "invoke"
    BY DEF OpsInv, WorldOK, Invoke, At
  <1>2. CASE \E code \in {"permission_denied", "invalid_argument"} : Refuse(c, code)
    BY <1>1, <1>2, AnswerMoves DEF Refuse
  <1>3. CASE Goto(c, "run") /\ UNCHANGED <<store, ents, ran, inflight>>
    BY <1>1, <1>3, GotoMoves
  <1>4. CASE In(c).key # NoKey /\ Reserve(c)
    BY <1>1, <1>4, ReserveStep
  <1> QED BY <1>2, <1>3, <1>4 DEF Invoke

LEMMA WaitersStep ==
  ASSUME OpsInv, scene' = scene, NEW c \in Requests, Await(c) \/ Cancel(c)
  PROVE  OpsInv'
  <1>1. WorldOK' /\ UNCHANGED <<store, ents, ran>>
    BY DEF OpsInv, WorldOK, Await, Cancel
  <1>2. \E r : Answer(c, r)
    BY DEF Await, Cancel
  <1> QED BY <1>1, <1>2, AnswerMoves


(* The handler of a request returns an outcome of its input.               *)
LEMMA ReturnMoves ==
  ASSUME OpsInv, WorldOK', NEW c \in Requests, req[c].pc # "idle", NEW pc \in {"complete", "hooks"},
         NEW out \in Replies, Matches(out, Fingerprint(c), req[c].snap.tok.gen),
         req' = [req EXCEPT ![c].pc = pc, ![c].out = out], UNCHANGED <<store, ents, ran>>
  PROVE  OpsInv'
  <1> DEFINE x == [req[c] EXCEPT !.pc = pc, !.out = out]
  <1>1. req[c] \in Active /\ RequestOK(req[c], ents) /\ PrintOf(req[c]) = Fingerprint(c)
    BY RequestFacts
  <1>2. /\ x \in Active /\ x.pc = pc /\ x.in = req[c].in /\ x.snap = req[c].snap
        /\ x.ent = req[c].ent /\ x.out = out
    BY <1>1 DEF Active
  <1>3. req' = [req EXCEPT ![c] = x]
    OBVIOUS
  <1> HIDE DEF x
  <1>4. RequestOK(x, ents)
    BY <1>1, <1>2, GoesOn
  <1> QED BY <1>3, <1>4, RequestMoves

LEMMA OutcomeFacts ==
  ASSUME OpsInv, NEW c \in Requests, req[c].pc # "idle"
  PROVE  /\ \A code \in Codes : /\ Outcome(c, code) \in Replies
                                /\ Matches(Outcome(c, code), Fingerprint(c), req[c].snap.tok.gen)
         /\ \A rev \in Nat : /\ Published(c, rev) \in Replies
                             /\ Matches(Published(c, rev), Fingerprint(c), req[c].snap.tok.gen)
  <1>1. /\ Fingerprint(c) \in Prints /\ req[c].snap.tok.gen \in Nat /\ req[c].snap.rev \in Nat
    BY RequestFacts, ActiveFacts
  <1>2. PICK fp \in Prints, gen \in Nat, rv \in Nat :
          fp = Fingerprint(c) /\ gen = req[c].snap.tok.gen /\ rv = req[c].snap.rev
    BY <1>1
  <1>3. ASSUME NEW code \in Codes, NEW rev \in Nat, NEW r,
               r = [code |-> code, of |-> fp, gen |-> gen, rev |-> rev]
        PROVE  r \in Replies /\ Matches(r, fp, gen)
    <2>1. r \in Replies
      BY <1>3 DEF Replies
    <2>2. Matches(r, fp, gen)
      BY <1>3 DEF Matches
    <2> QED BY <2>1, <2>2
  <1>4. \A code : Outcome(c, code) = [code |-> code, of |-> fp, gen |-> gen, rev |-> rv]
    BY <1>2 DEF Outcome
  <1>5. \A rev : Published(c, rev) = [code |-> "ok", of |-> fp, gen |-> gen, rev |-> rev]
    <2> TAKE rev
    <2>1. PICK o : o = Outcome(c, "ok")
      OBVIOUS
    <2>2. o = [code |-> "ok", of |-> fp, gen |-> gen, rev |-> rv]
      BY <2>1, <1>4
    <2>3. [o EXCEPT !.rev = rev] = [code |-> "ok", of |-> fp, gen |-> gen, rev |-> rev]
      BY <2>2
    <2> QED BY <2>1, <2>3 DEF Published
  <1>6. "ok" \in Codes
    BY DEF Codes
  <1>7. \A code \in Codes : Outcome(c, code) \in Replies /\ Matches(Outcome(c, code), fp, gen)
    BY <1>2, <1>3, <1>4
  <1>8. \A rev \in Nat : Published(c, rev) \in Replies /\ Matches(Published(c, rev), fp, gen)
    BY <1>3, <1>5, <1>6
  <1> QED BY <1>2, <1>7, <1>8

LEMMA ReadSnapshotStep ==
  ASSUME OpsInv, scene' = scene, NEW c \in Requests, ReadSnapshot(c)
  PROVE  OpsInv'
  <1>1. WorldOK' /\ req[c].pc = "run" /\ UNCHANGED <<store, ents, ran>>
    BY DEF OpsInv, WorldOK, ReadSnapshot, At
  <1>2. PICK code \in {"ok", "not_found"} : Return(c, Outcome(c, code))
    BY DEF ReadSnapshot
  <1>3. code \in Codes
    BY DEF Codes
  <1> QED BY <1>1, <1>2, <1>3, OutcomeFacts, ReturnMoves DEF Return

LEMMA LoadBaselineStep ==
  ASSUME OpsInv, scene' = scene, NEW c \in Requests, LoadBaseline(c)
  PROVE  OpsInv'
  <1>1. /\ WorldOK' /\ req[c].pc = "run" /\ req[c].in.op = "reload" /\ UNCHANGED <<store, ents, ran>>
        /\ file.ids \in Collections
    BY DEF OpsInv, WorldOK, LoadBaseline, At, In
  <1> DEFINE x == [req[c] EXCEPT !.pc = "publish", !.doc = file.ids]
  <1>2. req[c] \in Active /\ RequestOK(req[c], ents)
    BY <1>1, RequestFacts
  <1>3. /\ x \in Active /\ x.pc = "publish" /\ x.in = req[c].in /\ x.snap = req[c].snap
        /\ x.ent = req[c].ent /\ x.out = req[c].out
    BY <1>1, <1>2 DEF Active
  <1>4. req' = [req EXCEPT ![c] = x]
    BY DEF LoadBaseline
  <1> HIDE DEF x
  <1>5. RequestOK(x, ents)
    BY <1>1, <1>2, <1>3, GoesOn DEF RequestOK
  <1> QED BY <1>1, <1>4, <1>5, RequestMoves


(* Every mutation publishes a snapshot of known objects.                   *)
LEMMA MutatedFacts ==
  ASSUME OpsInv, NEW c \in Requests, req[c].pc # "idle", In(c).op \in Mutations
  PROVE  Mutated(c) \in Snapshots /\ Mutated(c).rev \in Nat
  <1>1. req[c] \in Active /\ (In(c).op = "create" => In(c).id \in Ids) /\ req[c].doc \in Collections
    <2>1. req[c] \in Active
      BY RequestFacts
    <2> QED BY <2>1, ActiveFacts DEF In, Active
  <1>2. PICK doc \in Collections, op \in Mutations : doc = req[c].doc /\ op = In(c).op
    BY <1>1
  <1>3. pub \in Snapshots
    BY DEF OpsInv, WorldOK
  <1> DEFINE id == In(c).id
             next == [pub EXCEPT !.rev = @ + 1]
             ts == IF id \in pub.base THEN next.tombs \cup {id} ELSE next.tombs
  <1>4. /\ pub.base \in Collections /\ pub.tombs \in Collections /\ next \in Snapshots
        /\ next.tombs \in Collections /\ next.live \in Collections
    BY <1>3 DEF Snapshots
  <1>5. ts \in Collections
    <2>1. CASE id \in pub.base
      <3>1. id \in Ids
        BY <1>4, <2>1 DEF Collections
      <3>2. next.tombs \cup {id} \in Collections
        BY <1>4, <3>1, CollectionFacts
      <3> QED BY <2>1, <3>2
    <2>2. CASE id \notin pub.base
      BY <1>4, <2>2
    <2> QED BY <2>1, <2>2
  <1>6. \A n \in Snapshots : \A l, t, b \in Collections :
          /\ [n EXCEPT !.live = l, !.tombs = t] \in Snapshots
          /\ [n EXCEPT !.base = b, !.live = l] \in Snapshots
    BY DEF Snapshots
  <1>7. \/ Mutated(c) = next
        \/ op = "create" /\ Mutated(c) = [next EXCEPT !.live = next.live \cup {id}, !.tombs = next.tombs \ {id}]
        \/ Mutated(c) = [next EXCEPT !.live = next.live \ {id}, !.tombs = ts]
        \/ Mutated(c) = [next EXCEPT !.live = pub.base, !.tombs = {}]
        \/ Mutated(c) = [next EXCEPT !.base = doc,
                                     !.live = (next.live \ pub.base) \cup (doc \ pub.tombs)]
    BY <1>2, Zenon DEF Mutated, Mutations
  <1> HIDE DEF id, next, ts
  <1>8. Mutated(c) \in Snapshots
    <2>1. /\ next.tombs \ {id} \in Collections
          /\ next.live \ {id} \in Collections /\ {} \in Collections
          /\ (next.live \ pub.base) \cup (doc \ pub.tombs) \in Collections
      BY <1>4, CollectionFacts
    <2>2. ASSUME op = "create"
          PROVE  [next EXCEPT !.live = next.live \cup {id}, !.tombs = next.tombs \ {id}] \in Snapshots
      <3>1. {id} \in Collections
        BY <1>1, <1>2, <2>2, CollectionFacts DEF id
      <3>2. next.live \cup {id} \in Collections
        BY <1>4, <3>1, CollectionFacts
      <3> QED BY <1>4, <1>6, <2>1, <3>2
    <2>3. [next EXCEPT !.live = next.live \ {id}, !.tombs = ts] \in Snapshots
      BY <1>4, <1>5, <1>6, <2>1
    <2>4. [next EXCEPT !.live = pub.base, !.tombs = {}] \in Snapshots
      BY <1>4, <1>6, <2>1
    <2>5. [next EXCEPT !.base = doc,
                       !.live = (next.live \ pub.base) \cup (doc \ pub.tombs)] \in Snapshots
      BY <1>4, <1>6, <2>1
    <2> QED BY <1>4, <1>7, <2>2, <2>3, <2>4, <2>5, Zenon
  <1> QED BY <1>8 DEF Snapshots

LEMMA PublishStep ==
  ASSUME OpsInv, scene' = scene, NEW c \in Requests, Publish(c)
  PROVE  OpsInv'
  <1>1. req[c].pc # "idle" /\ UNCHANGED <<file, tok, store, ents, ran>>
    BY DEF Publish, At
  <1>2. In(c).op \in Mutations
    <2>1. CASE At(c, "publish")
      BY <1>1, <2>1, RequestFacts DEF At, RequestOK, In, Mutations
    <2> QED BY <2>1 DEF Publish
  <1>3. CASE \E code \in {"revision_mismatch", "already_exists", "not_found"} :
               Return(c, Outcome(c, code)) /\ UNCHANGED <<pub, walk>>
    <2>1. PICK code \in {"revision_mismatch", "already_exists", "not_found"} :
            Return(c, Outcome(c, code)) /\ UNCHANGED <<pub, walk>>
      BY <1>3
    <2>2. code \in Codes /\ WorldOK'
      BY <1>1, <2>1 DEF Codes, OpsInv, WorldOK
    <2> QED BY <1>1, <2>1, <2>2, OutcomeFacts, ReturnMoves DEF Return
  <1>4. CASE /\ pub' = Mutated(c)
             /\ \E pc \in {"complete", "hooks"} :
                  req' = [req EXCEPT ![c].pc = pc, ![c].out = Published(c, pub'.rev)]
    <2>1. pub' \in Snapshots /\ pub'.rev \in Nat
      BY <1>1, <1>2, <1>4, MutatedFacts
    <2>2. WorldOK'
      BY <1>1, <2>1 DEF OpsInv, WorldOK
    <2>3. PICK rev \in Nat : rev = pub'.rev
      BY <2>1
    <2>4. PICK pc \in {"complete", "hooks"} :
            req' = [req EXCEPT ![c].pc = pc, ![c].out = Published(c, rev)]
      BY <1>4, <2>3
    <2>5. Published(c, rev) \in Replies
          /\ Matches(Published(c, rev), Fingerprint(c), req[c].snap.tok.gen)
      BY <1>1, OutcomeFacts
    <2> QED BY <1>1, <2>2, <2>4, <2>5, ReturnMoves
  <1> QED BY <1>3, <1>4 DEF Publish, Return

LEMMA RunHooksStep ==
  ASSUME OpsInv, scene' = scene, NEW c \in Requests, RunHooks(c)
  PROVE  OpsInv'
  <1>1. WorldOK' /\ req[c].pc = "hooks" /\ Goto(c, "complete") /\ UNCHANGED <<store, ents, ran>>
    BY DEF OpsInv, WorldOK, RunHooks, At
  <1> QED BY <1>1, GotoMoves

(* The request ends and its entry, if it has one, holds what it leaves.    *)
LEMMA CompletedMoves ==
  ASSUME OpsInv, WorldOK', NEW c \in Requests, req[c].pc # "idle", NEW out \in Replies,
         Matches(out, Fingerprint(c), req[c].snap.tok.gen), ents' = Completed(c, out),
         req' = [req EXCEPT ![c] = Quiet], UNCHANGED <<store, ran>>
  PROVE  OpsInv'
  <1>1. CASE req[c].ent = 0
    BY <1>1, QuietOK, RequestMoves DEF Completed
  <1>2. CASE req[c].ent # 0
    <2>1. req[c] \in Active /\ RequestOK(req[c], ents) /\ PrintOf(req[c]) = Fingerprint(c)
      BY RequestFacts
    <2>2. PICK e \in 1..Len(ents) : e = req[c].ent
      BY <1>2, <2>1 DEF RequestOK
    <2>3. /\ ents[e].fp = Fingerprint(c) /\ ents[e].key = KeyOf(req[c])
      BY <1>2, <2>1, <2>2 DEF RequestOK
    <2>4. ents[e].key[1] = req[c].snap.tok.gen
      BY <2>3 DEF KeyOf
    <2> DEFINE x == [ents[e] EXCEPT !.done = TRUE, !.out = out]
    <2>5. ents' = [ents EXCEPT ![e] = x]
      BY <1>2, <2>2 DEF Completed
    <2>6. /\ x \in Entries /\ x.fp = ents[e].fp /\ x.key = ents[e].key /\ x.out = out
          /\ x.expired = ents[e].expired
      BY EntryFacts DEF Entries
    <2> HIDE DEF x
    <2>7. /\ ents' \in Seq(Entries) /\ Len(ents') = Len(ents) /\ Len(ents) \in Nat /\ ents'[e] = x
          /\ \A f \in 1..Len(ents) : f # e => ents'[f] = ents[f]
      BY <2>5, <2>6 DEF OpsInv, EntriesOK
    <2>8. \A f \in 1..Len(ents) : /\ ents'[f].fp = ents[f].fp /\ ents'[f].key = ents[f].key
                                  /\ ents'[f].expired = ents[f].expired
      BY <2>6, <2>7
    <2>9. EntriesOK'
      <3>1. Matches(x.out, x.fp, x.key[1])
        BY <2>3, <2>4, <2>6
      <3> QED BY <2>7, <3>1, EntryFacts DEF EntriesOK
    <2>10. StoreOK'
      BY <2>7, <2>8 DEF OpsInv, StoreOK
    <2>11. \A d \in Requests : RequestOK(req[d], ents')
      <3>1. \A d \in Requests : RequestOK(req[d], ents)
        BY DEF OpsInv, RequestsOK
      <3>2. Len(ents') \in Nat /\ Len(ents) <= Len(ents')
        BY <2>7
      <3> QED BY <2>7, <2>8, <3>1, <3>2, OthersKeep
    <2>12. RequestsOK'
      BY <2>11, QuietOK DEF OpsInv, RequestsOK
    <2> QED BY <2>9, <2>10, <2>12 DEF OpsInv
  <1> QED BY <1>1, <1>2


(* The end of invokeReplay, and its deferred function after a panic.       *)
LEMMA CompleteStep ==
  ASSUME OpsInv, scene' = scene, NEW c \in Requests, NEW fits \in BOOLEAN, Complete(c, fits)
  PROVE  OpsInv'
  <1>1. /\ WorldOK' /\ req[c].pc = "complete" /\ UNCHANGED <<store, ran>>
        /\ req' = [req EXCEPT ![c] = Quiet] /\ ents' = Completed(c, Kept(req[c].out, fits))
    BY DEF OpsInv, WorldOK, Complete, At, Answer
  <1>2. req[c] \in Active /\ RequestOK(req[c], ents) /\ PrintOf(req[c]) = Fingerprint(c)
    BY <1>1, RequestFacts
  <1>3. req[c].out \in Replies /\ Matches(req[c].out, Fingerprint(c), req[c].snap.tok.gen)
    BY <1>1, <1>2 DEF Active, RequestOK
  <1>4. /\ Failed("unavailable") \in Replies
        /\ Matches(Failed("unavailable"), Fingerprint(c), req[c].snap.tok.gen)
    BY QuietOK DEF Codes
  <1>5. PICK out \in Replies : /\ out = Kept(req[c].out, fits)
                               /\ Matches(out, Fingerprint(c), req[c].snap.tok.gen)
    BY <1>3, <1>4 DEF Kept
  <1> QED BY <1>1, <1>5, CompletedMoves

LEMMA PanicStep ==
  ASSUME OpsInv, scene' = scene, NEW c \in Requests, Panic(c)
  PROVE  OpsInv'
  <1>1. /\ WorldOK' /\ req[c].pc # "idle" /\ UNCHANGED <<store, ran>>
        /\ req' = [req EXCEPT ![c] = Quiet] /\ ents' = Completed(c, Failed("unavailable"))
    BY DEF OpsInv, WorldOK, Panic, Tombstone
  <1>2. /\ Failed("unavailable") \in Replies
        /\ Matches(Failed("unavailable"), Fingerprint(c), req[c].snap.tok.gen)
    BY QuietOK DEF Codes
  <1> QED BY <1>1, <1>2, CompletedMoves

(* Only a completed entry lapses, and its key may then be run again.       *)
LEMMA LapseStep ==
  ASSUME OpsInv, scene' = scene, NEW e \in DOMAIN ents, Lapse(e)
  PROVE  OpsInv'
  <1>1. WorldOK' /\ UNCHANGED <<store, req>>
    BY DEF OpsInv, WorldOK, Lapse
  <1>2. e \in 1..Len(ents)
    BY DEF OpsInv, EntriesOK
  <1>3. ents[e] \in Entries /\ ents[e].key \in StoreKeys
    BY <1>2, EntryFacts
  <1> DEFINE x == [ents[e] EXCEPT !.expired = TRUE]
  <1>4. ents' = [ents EXCEPT ![e] = x]
    BY DEF Lapse
  <1>5. /\ x \in Entries /\ x.fp = ents[e].fp /\ x.key = ents[e].key /\ x.out = ents[e].out
        /\ x.expired
    BY <1>3 DEF Entries
  <1>6. PICK k \in StoreKeys : k = ents[e].key
    BY <1>3
  <1>7. /\ ran' \in [StoreKeys -> {0, 1}] /\ ran'[k] = 0
        /\ \A j \in StoreKeys : j # k => ran'[j] = ran[j]
    BY <1>6 DEF Lapse, OpsInv, StoreOK
  <1> HIDE DEF x
  <1>8. /\ ents' \in Seq(Entries) /\ Len(ents') = Len(ents) /\ Len(ents) \in Nat /\ ents'[e] = x
        /\ \A f \in 1..Len(ents) : f # e => ents'[f] = ents[f]
    BY <1>2, <1>4, <1>5 DEF OpsInv, EntriesOK
  <1>9. \A f \in 1..Len(ents) : /\ ents'[f].fp = ents[f].fp /\ ents'[f].key = ents[f].key
                                /\ ents'[f].out = ents[f].out
    BY <1>5, <1>8
  <1>10. EntriesOK'
    BY <1>8, <1>9, EntryFacts DEF EntriesOK
  <1>11. StoreOK'
    <2>1. /\ store \in [StoreKeys -> Nat]
          /\ \A j \in StoreKeys : store[j] # 0 => store[j] \in 1..Len(ents) /\ ents[store[j]].key = j
          /\ \A j \in StoreKeys : ran[j] # 0 => store[j] # 0 /\ ~ents[store[j]].expired
          /\ \A f \in 1..Len(ents) : ~ents[f].expired => store[ents[f].key] = f
      BY DEF OpsInv, StoreOK
    <2>2. \A j \in StoreKeys : ran'[j] # 0 => store[j] # 0 /\ ~ents'[store[j]].expired
      <3> SUFFICES ASSUME NEW j \in StoreKeys, ran'[j] # 0
                   PROVE  store[j] # 0 /\ ~ents'[store[j]].expired
        OBVIOUS
      <3>1. j # k /\ ran[j] # 0
        BY <1>7
      <3>2. store[j] # 0 /\ ~ents[store[j]].expired /\ store[j] \in 1..Len(ents)
            /\ ents[store[j]].key = j
        BY <2>1, <3>1
      <3>3. store[j] # e
        BY <1>6, <3>1, <3>2
      <3> QED BY <1>8, <3>2, <3>3
    <2>3. \A f \in 1..Len(ents) : ~ents'[f].expired => store[ents'[f].key] = f
      BY <1>5, <1>8, <1>9, <2>1
    <2>4. \A j \in StoreKeys : store[j] # 0 => store[j] \in 1..Len(ents) /\ ents'[store[j]].key = j
      BY <1>9, <2>1
    <2> QED BY <1>1, <1>7, <1>8, <2>1, <2>2, <2>3, <2>4 DEF StoreOK
  <1>12. RequestsOK'
    <2>1. \A d \in Requests : RequestOK(req[d], ents)
      BY DEF OpsInv, RequestsOK
    <2>2. Len(ents') \in Nat /\ Len(ents) <= Len(ents')
      BY <1>8
    <2>3. \A d \in Requests : RequestOK(req[d], ents')
      BY <1>8, <1>9, <2>1, <2>2, OthersKeep
    <2> QED BY <1>1, <2>3 DEF OpsInv, RequestsOK
  <1> QED BY <1>1, <1>10, <1>11, <1>12 DEF OpsInv

(* Steps of the pagers, of the token's owner and of the file's.            *)
LEMMA OutsideSteps ==
  ASSUME OpsInv, scene' = scene,
         \/ \E p \in scene.pagers : (\E deleted \in BOOLEAN : BeginWalk(p, deleted)) \/ ListPage(p)
         \/ \E to \in scene.tokens : ChangeToken(to)
         \/ \E ids \in scene.files : EditFile(ids)
  PROVE  OpsInv'
  <1>1. scene \in Scenes /\ pub \in Snapshots /\ file.ids \in Collections /\ tok \in Tokens
    BY DEF OpsInv, WorldOK
  <1>2. CASE \E p \in scene.pagers : (\E deleted \in BOOLEAN : BeginWalk(p, deleted)) \/ ListPage(p)
    <2>1. UNCHANGED <<pub, file, tok, req, store, ents, ran>>
      BY <1>2 DEF BeginWalk, ListPage
    <2> QED BY <1>1, <2>1, WorldMoves DEF WorldOK
  <1>3. CASE \E to \in scene.tokens : ChangeToken(to)
    <2>1. PICK to \in scene.tokens : ChangeToken(to)
      BY <1>3
    <2>2. to.scopes \in Grants /\ to.usable \in BOOLEAN
      BY <1>1, SceneFacts
    <2>3. tok.gen + 1 \in 1..MaxGeneration
      BY <1>1, <2>1, OperationsAssumption DEF ChangeToken, Tokens
    <2>4. tok' \in Tokens
      BY <2>1, <2>2, <2>3 DEF ChangeToken, Tokens
    <2> QED BY <1>1, <2>1, <2>4, WorldMoves DEF ChangeToken, WorldOK
  <1>4. CASE \E ids \in scene.files : EditFile(ids)
    <2>1. PICK ids \in scene.files : EditFile(ids)
      BY <1>4
    <2>2. file'.ids \in Collections
      BY <1>1, <2>1, SceneFacts DEF EditFile
    <2> QED BY <1>1, <2>1, <2>2, WorldMoves DEF EditFile, WorldOK
  <1> QED BY <1>2, <1>3, <1>4

-----------------------------------------------------------------------------
(* The theorems                                                            *)

(* The inductive invariant: requests, entries and keys of the replay store *)
(* fit together at all times, whatever lapses, is cancelled or panics.     *)
THEOREM OpsInductive == Spec => []OpsInv
  <1>1. OpsInv /\ [Next]_vars => OpsInv'
    <2> SUFFICES ASSUME OpsInv, [Next]_vars PROVE OpsInv'
      OBVIOUS
    <2>1. CASE UNCHANGED vars
      <3>1. WorldOK' /\ UNCHANGED <<req, store, ents, ran>>
        BY <2>1 DEF vars, OpsInv, WorldOK
      <3> QED BY <3>1, WorldMoves
    <2>2. ASSUME NEW c \in Requests, scene' = scene,
                 \/ \E in \in scene.inputs : Arrive(c, in)
                 \/ Serve(c) \/ Cancel(c) \/ Panic(c)
          PROVE  OpsInv'
      BY <2>2, ArriveSteps, InvokeStep, WaitersStep, ReadSnapshotStep, LoadBaselineStep, PublishStep,
         RunHooksStep, CompleteStep, PanicStep DEF Serve, Handle
    <2> QED BY <2>1, <2>2, LapseStep, OutsideSteps DEF Next, Step
  <1> QED BY <1>1, OpsInitial, PTL DEF Spec

(* However many requests carry one key, and whoever of them is cancelled,  *)
(* panics or waits: its handler runs at most once until the result lapses. *)
THEOREM HandlersRunOnce == Spec => []OncePerKey
  <1>1. OpsInv => OncePerKey
    BY DEF OpsInv, StoreOK, OncePerKey
  <1> QED BY <1>1, OpsInductive, PTL

(* The success a waiting request receives is the outcome of its own input  *)
(* for the incarnation of the token it was authenticated with.             *)
THEOREM ReplaysAnswerTheirRequest == Spec => []AnswersItsRequest
  <1>1. OpsInv => AnswersItsRequest
    <2> SUFFICES ASSUME OpsInv, NEW c \in Requests, req[c].pc = "wait",
                        ents[req[c].ent].out.code = "ok"
                 PROVE  /\ ents[req[c].ent].out.of = Fingerprint(c)
                        /\ ents[req[c].ent].out.gen = req[c].snap.tok.gen
      BY DEF AnswersItsRequest, At
    <2>1. RequestOK(req[c], ents) /\ PrintOf(req[c]) = Fingerprint(c)
      BY RequestFacts
    <2>2. PICK e \in 1..Len(ents) : e = req[c].ent
      BY <2>1 DEF RequestOK
    <2>3. ents[e].fp = Fingerprint(c) /\ ents[e].key = KeyOf(req[c])
      BY <2>1, <2>2, EntryFacts DEF RequestOK
    <2>4. ents[e].key[1] = req[c].snap.tok.gen
      BY <2>3 DEF KeyOf
    <2> QED BY <2>2, <2>3, <2>4, EntryFacts DEF Matches
  <1> QED BY <1>1, OpsInductive, PTL

-----------------------------------------------------------------------------
(* Walks over the pages of a list.                                         *)

Content(pages) == UNION {pages[i] : i \in 1..Len(pages)}
Returned(w) == Content(w.pages)
Walks ==
  [pc : {"idle", "page", "over"}, cursor : Nat, pages : Seq(SUBSET Ids), stable : SUBSET Ids,
   deleted : BOOLEAN]

(* What was returned is not beyond the cursor, and of what has been there  *)
(* all the time nothing up to the cursor is missing; a walk that is over   *)
(* has nothing missing.                                                    *)
WalkOK(w, live) ==
  /\ w \in Walks
  /\ w.stable \subseteq live
  /\ \A i, j \in 1..Len(w.pages) : i # j => w.pages[i] \cap w.pages[j] = {}
  /\ w.pc = "page" => \A x \in Returned(w) : x <= w.cursor
  /\ \A x \in w.stable : w.pc = "over" \/ (w.pc = "page" /\ x <= w.cursor) => x \in Returned(w)
WalksOK == walk = [p \in Pagers |-> walk[p]] /\ \A p \in Pagers : WalkOK(walk[p], pub.live)

(* The rank of a member of a finite set of integers grows with it and is   *)
(* below the number of members; every such number is a rank.               *)
LEMMA Ranks ==
  ASSUME NEW S \in SUBSET Int, IsFiniteSet(S)
  PROVE  /\ Cardinality(S) \in Nat
         /\ \A i \in S : Rank(S, i) \in 0..Cardinality(S) - 1
         /\ \A i, j \in S : i < j => Rank(S, i) < Rank(S, j)
         /\ \A k \in 0..Cardinality(S) - 1 : \E i \in S : Rank(S, i) = k
  <1> DEFINE f == [i \in S |-> Rank(S, i)]
  <1> DEFINE T == 0..Cardinality(S) - 1
  <1>1. Cardinality(S) \in Nat
    BY FS_CardinalityType
  <1>2. ASSUME NEW i \in S
        PROVE  Rank(S, i) \in 0..Cardinality(S) - 1
    <2> DEFINE B == {j \in S : j < i}
    <2>1. B \in SUBSET S /\ i \notin B
      OBVIOUS
    <2>2. IsFiniteSet(B) /\ Cardinality(B) <= Cardinality(S) /\ Cardinality(S) # Cardinality(B)
      BY <2>1, FS_Subset
    <2>3. Cardinality(B) \in Nat
      BY <2>2, FS_CardinalityType
    <2>4. QED  BY <1>1, <2>2, <2>3 DEF Rank
  <1>3. ASSUME NEW i \in S, NEW j \in S, i < j
        PROVE  Rank(S, i) < Rank(S, j)
    <2> DEFINE B == {k \in S : k < i}
    <2> DEFINE C == {k \in S : k < j}
    <2>1. IsFiniteSet(C) /\ Cardinality(C) \in Nat
      BY FS_Subset, FS_CardinalityType
    <2>2. B \in SUBSET C /\ i \in C /\ i \notin B
      <3>1. i \in Int /\ j \in Int /\ ~(i < i)
        OBVIOUS
      <3>2. ASSUME NEW k \in S, k < i
            PROVE  k < j
        <4>1. k \in Int
          OBVIOUS
        <4>2. QED  BY <1>3, <3>1, <3>2, <4>1
      <3>3. QED  BY <1>3, <3>1, <3>2
    <2>3. IsFiniteSet(B) /\ Cardinality(B) <= Cardinality(C) /\ Cardinality(C) # Cardinality(B)
      BY <2>1, <2>2, FS_Subset
    <2>4. Cardinality(B) \in Nat
      BY <2>3, FS_CardinalityType
    <2>5. QED  BY <2>1, <2>3, <2>4 DEF Rank
  <1>4. f \in Injection(S, T)
    <2>1. f \in [S -> T]
      BY <1>2
    <2>2. ASSUME NEW i \in S, NEW j \in S, f[i] = f[j]
          PROVE  i = j
      <3>1. Rank(S, i) = Rank(S, j) /\ Rank(S, i) \in Int
        BY <1>2, <2>2
      <3>2. ~(i < j) /\ ~(j < i)
        BY <1>3, <3>1
      <3>3. QED  BY <3>2
    <2>3. QED  BY <2>1, <2>2 DEF Injection, IsInjective
  <1>5. IsFiniteSet(T) /\ Cardinality(T) = Cardinality(S)
    BY <1>1, FS_Interval
  <1>6. f \in Surjection(S, T)
    <2> HIDE DEF f, T
    <2>1. QED  BY <1>4, <1>5, FS_Injection
  <1>7. ASSUME NEW k \in T
        PROVE  \E i \in S : Rank(S, i) = k
    BY <1>6 DEF Surjection
  <1>8. QED  BY <1>1, <1>2, <1>3, <1>7


(* A page is what the list has between two cursors; the last page is all   *)
(* that is left.                                                           *)
LEMMA PageFacts ==
  ASSUME NEW S \in Collections, NEW cursor \in Nat
  PROVE  /\ NextCursor(S, cursor) \in Nat
         /\ PageOf(S, cursor) \subseteq After(S, cursor)
         /\ NextCursor(S, cursor) = 0 => PageOf(S, cursor) = After(S, cursor)
         /\ NextCursor(S, cursor) # 0 =>
              /\ NextCursor(S, cursor) > cursor
              /\ \A x \in After(S, cursor) : x \in PageOf(S, cursor) <=> x <= NextCursor(S, cursor)
  <1> DEFINE T == After(S, cursor)
  <1>1. T \in SUBSET Int /\ IsFiniteSet(T) /\ \A x \in T : x \in Nat /\ x > cursor /\ x # 0
    <2>1. T \subseteq S /\ S \subseteq Nat \ {0} /\ IsFiniteSet(S)
      BY OperationsAssumption DEF After, Collections
    <2>2. IsFiniteSet(T)
      BY <2>1, FS_Subset
    <2>3. \A x \in T : x \in Nat /\ x > cursor /\ x # 0
      BY <2>1 DEF After
    <2>4. T \in SUBSET Int
      BY <2>3
    <2> QED BY <2>2, <2>3, <2>4
  <1>2. PageLimit \in Nat \ {0}
    BY OperationsAssumption
  <1>3. PageOf(S, cursor) = {x \in T : Rank(T, x) < PageLimit}
    BY DEF PageOf
  <1>4. NextCursor(S, cursor) = IF Cardinality(T) <= PageLimit THEN 0
                                ELSE CHOOSE x \in T : Rank(T, x) = PageLimit - 1
    BY DEF NextCursor
  <1> HIDE DEF T
  <1>5. /\ Cardinality(T) \in Nat
        /\ \A x \in T : Rank(T, x) \in 0..Cardinality(T) - 1
        /\ \A x, y \in T : x < y => Rank(T, x) < Rank(T, y)
        /\ \A k \in 0..Cardinality(T) - 1 : \E x \in T : Rank(T, x) = k
    BY <1>1, Ranks
  <1>6. CASE Cardinality(T) <= PageLimit
    <2>1. \A x \in T : Rank(T, x) < PageLimit
      BY <1>2, <1>5, <1>6
    <2> QED BY <1>3, <1>4, <1>6, <2>1 DEF T
  <1>7. CASE ~(Cardinality(T) <= PageLimit)
    <2>1. PageLimit - 1 \in 0..Cardinality(T) - 1
      BY <1>2, <1>5, <1>7
    <2>2. \E x \in T : Rank(T, x) = PageLimit - 1
      BY <1>5, <2>1
    <2>3. PICK n \in T : n = NextCursor(S, cursor) /\ Rank(T, n) = PageLimit - 1
      BY <1>4, <1>7, <2>2
    <2>4. ASSUME NEW x \in T
          PROVE  Rank(T, x) < PageLimit <=> x <= n
      <3>1. x \in Nat /\ n \in Nat /\ Rank(T, x) \in Nat
        BY <1>1, <1>5
      <3>2. CASE x < n
        <4>1. Rank(T, x) < Rank(T, n)
          BY <1>5, <3>2
        <4> QED BY <1>2, <2>3, <3>1, <3>2, <4>1
      <3>3. CASE x = n
        BY <1>2, <2>3, <3>1, <3>3
      <3>4. CASE n < x
        <4>1. Rank(T, n) < Rank(T, x)
          BY <1>5, <3>4
        <4> QED BY <1>2, <2>3, <3>1, <3>4, <4>1
      <3> QED BY <3>1, <3>2, <3>3, <3>4
    <2>5. n \in Nat /\ n > cursor /\ n # 0
      BY <1>1
    <2> QED BY <1>3, <2>3, <2>4, <2>5 DEF T
  <1> QED BY <1>6, <1>7

(* One more page.                                                          *)
LEMMA PageReturned ==
  ASSUME NEW pages \in Seq(SUBSET Ids), NEW page \in SUBSET Ids,
         \A i \in 1..Len(pages) : pages[i] \cap page = {},
         \A i, j \in 1..Len(pages) : i # j => pages[i] \cap pages[j] = {}
  PROVE  /\ Append(pages, page) \in Seq(SUBSET Ids)
         /\ Content(Append(pages, page)) = Content(pages) \cup page
         /\ \A i, j \in 1..Len(Append(pages, page)) :
              i # j => Append(pages, page)[i] \cap Append(pages, page)[j] = {}
  <1> DEFINE t == Append(pages, page)
  <1>1. t \in Seq(SUBSET Ids) /\ Len(t) = Len(pages) + 1 /\ Len(pages) \in Nat /\ t[Len(pages) + 1] = page
        /\ \A i \in 1..Len(pages) : t[i] = pages[i]
    OBVIOUS
  <1> HIDE DEF t
  <1>2. 1..Len(t) = 1..Len(pages) \cup {Len(pages) + 1}
    BY <1>1
  <1>3. Content(t) = Content(pages) \cup page
    <2>1. \A x : x \in Content(t) <=> \E i \in 1..Len(t) : x \in t[i]
      BY DEF Content
    <2>2. \A x : x \in Content(pages) <=> \E i \in 1..Len(pages) : x \in pages[i]
      BY DEF Content
    <2>3. \A x : (\E i \in 1..Len(t) : x \in t[i]) <=> (\E i \in 1..Len(pages) : x \in pages[i]) \/ x \in page
      BY <1>1, <1>2
    <2> QED BY <2>1, <2>2, <2>3
  <1>4. ASSUME NEW i \in 1..Len(t), NEW j \in 1..Len(t), i # j
        PROVE  t[i] \cap t[j] = {}
    <2>1. CASE i \in 1..Len(pages) /\ j \in 1..Len(pages)
      BY <1>1, <1>4, <2>1
    <2>2. CASE i \in 1..Len(pages) /\ j = Len(pages) + 1
      BY <1>1, <1>4, <2>2
    <2>3. CASE i = Len(pages) + 1 /\ j \in 1..Len(pages)
      BY <1>1, <1>4, <2>3
    <2> QED BY <1>2, <1>4, <2>1, <2>2, <2>3
  <1> QED BY <1>1, <1>3, <1>4 DEF t

LEMMA ListPageStep ==
  ASSUME OpsInv, WalksOK, NEW p \in Pagers, ListPage(p)
  PROVE  WalksOK'
  <1> DEFINE w == walk[p]
             S == Listed(p)
             next == NextCursor(S, w.cursor)
             page == PageOf(S, w.cursor)
             g == [w EXCEPT !.pages = Append(w.pages, page), !.cursor = next,
                            !.pc = IF next = 0 THEN "over" ELSE "page"]
  <1>1. w \in Walks /\ w.stable \subseteq pub.live /\ w.pc = "page" /\ WalkOK(w, pub.live)
    BY DEF WalksOK, WalkOK, ListPage
  <1>2. w.cursor \in Nat /\ w.pages \in Seq(SUBSET Ids) /\ w.stable \subseteq Ids
    BY <1>1 DEF Walks
  <1>3. S \in Collections /\ pub.live \subseteq S
    BY CollectionFacts DEF OpsInv, WorldOK, Snapshots, Listed
  <1>4. walk' = [walk EXCEPT ![p] = g] /\ pub' = pub
    BY DEF ListPage
  <1>5. /\ next \in Nat /\ page \subseteq After(S, w.cursor)
        /\ next = 0 => page = After(S, w.cursor)
        /\ next # 0 => next > w.cursor /\ \A x \in After(S, w.cursor) : x \in page <=> x <= next
    BY <1>2, <1>3, PageFacts
  <1>6. /\ S \subseteq Nat /\ (\A x : x \in After(S, w.cursor) <=> x \in S /\ x > w.cursor)
        /\ S \subseteq Ids
    BY <1>3, OperationsAssumption DEF Collections, After
  <1> HIDE DEF S, next, page
  <1>7. page \in SUBSET Ids
    BY <1>5, <1>6
  <1>8. g \in Walks /\ g.stable = w.stable /\ g.cursor = next /\ g.pages = Append(w.pages, page)
        /\ g.pc = IF next = 0 THEN "over" ELSE "page"
    <2>1. Append(w.pages, page) \in Seq(SUBSET Ids)
      BY <1>2, <1>7
    <2> QED BY <1>1, <1>5, <2>1 DEF Walks
  <1> HIDE DEF g
  <1>9. \A x \in Returned(w) : x <= w.cursor
    BY <1>1 DEF WalkOK
  <1>10. \A i \in 1..Len(w.pages) : w.pages[i] \cap page = {}
    <2> SUFFICES ASSUME NEW i \in 1..Len(w.pages), NEW x \in w.pages[i], x \in page
                 PROVE  FALSE
      OBVIOUS
    <2>1. x <= w.cursor
      BY <1>9 DEF Returned, Content
    <2>2. x \in Nat /\ x > w.cursor
      BY <1>5, <1>6
    <2> QED BY <1>2, <2>1, <2>2
  <1>11. /\ Returned(g) = Returned(w) \cup page
         /\ \A i, j \in 1..Len(g.pages) : i # j => g.pages[i] \cap g.pages[j] = {}
    <2>1. \A i, j \in 1..Len(w.pages) : i # j => w.pages[i] \cap w.pages[j] = {}
      BY <1>1 DEF WalkOK
    <2>2. PICK pages \in Seq(SUBSET Ids) : pages = w.pages
      BY <1>2
    <2>3. /\ Content(Append(pages, page)) = Content(pages) \cup page
          /\ \A i, j \in 1..Len(Append(pages, page)) :
               i # j => Append(pages, page)[i] \cap Append(pages, page)[j] = {}
      <3>1. /\ \A i \in 1..Len(pages) : pages[i] \cap page = {}
            /\ \A i, j \in 1..Len(pages) : i # j => pages[i] \cap pages[j] = {}
        BY <1>10, <2>1, <2>2
      <3> QED BY <1>7, <3>1, PageReturned
    <2> QED BY <1>8, <2>2, <2>3 DEF Returned, Content
  <1>12. g.pc = "page" => \A x \in Returned(g) : x <= g.cursor
    <2> SUFFICES ASSUME next # 0, NEW x \in Returned(w) \cup page
                 PROVE  x <= next
      BY <1>8, <1>11
    <2>1. CASE x \in page
      BY <1>5, <2>1
    <2>2. CASE x \in Returned(w)
      <3>1. PICK i \in 1..Len(w.pages) : x \in w.pages[i]
        BY <2>2 DEF Returned, Content
      <3>2. w.pages[i] \in SUBSET Ids
        BY <1>2
      <3>3. x <= w.cursor /\ x \in Nat
        BY <1>9, <2>2, <3>1, <3>2, OperationsAssumption
      <3> QED BY <1>2, <1>5, <3>3
    <2> QED BY <2>1, <2>2
  <1>13. ASSUME NEW x \in g.stable, g.pc = "over" \/ (g.pc = "page" /\ x <= g.cursor)
         PROVE  x \in Returned(g)
    <2>1. x \in w.stable /\ x \in S /\ x \in Nat
      BY <1>1, <1>3, <1>6, <1>8
    <2>2. CASE x <= w.cursor
      BY <1>1, <1>11, <2>1, <2>2 DEF WalkOK
    <2>3. CASE x > w.cursor
      <3>1. x \in After(S, w.cursor)
        BY <1>6, <2>1, <2>3
      <3>2. next = 0 \/ x <= next
        BY <1>8, <1>13
      <3>3. x \in page
        BY <1>5, <3>1, <3>2
      <3> QED BY <1>11, <3>3
    <2> QED BY <1>2, <2>1, <2>2, <2>3
  <1>14. WalkOK(g, pub.live)
    BY <1>1, <1>8, <1>11, <1>12, <1>13 DEF WalkOK
  <1> QED BY <1>4, <1>14 DEF WalksOK

(* The record of a walk that has begun.                                    *)
LEMMA NoWalkWith ==
  ASSUME NEW st, NEW del, NEW g, g = [NoWalk EXCEPT !.pc = "page", !.stable = st, !.deleted = del]
  PROVE  g = [pc |-> "page", cursor |-> 0, pages |-> <<>>, stable |-> st, deleted |-> del]
  <1>1. DOMAIN g = DOMAIN NoWalk
    OBVIOUS
  <1>2. g.pc = "page" /\ g.cursor = 0 /\ g.pages = <<>> /\ g.stable = st /\ g.deleted = del
    BY DEF NoWalk
  <1> QED BY <1>1, <1>2 DEF NoWalk

LEMMA BeginWalkStep ==
  ASSUME OpsInv, WalksOK, NEW p \in Pagers, NEW deleted \in BOOLEAN, BeginWalk(p, deleted)
  PROVE  WalksOK'
  <1> DEFINE g == [NoWalk EXCEPT !.pc = "page", !.stable = pub.live, !.deleted = deleted]
  <1>1. walk' = [walk EXCEPT ![p] = g] /\ pub' = pub
    BY DEF BeginWalk
  <1>2. g = [pc |-> "page", cursor |-> 0, pages |-> <<>>, stable |-> pub.live, deleted |-> deleted]
    BY NoWalkWith
  <1>3. pub.live \subseteq Ids /\ \A x \in pub.live : x \in Nat /\ x # 0
    BY OperationsAssumption DEF OpsInv, WorldOK, Snapshots, Collections
  <1> HIDE DEF g
  <1>4. g \in Walks /\ Len(g.pages) = 0 /\ g.stable = pub.live /\ g.cursor = 0 /\ g.pc = "page"
    BY <1>2, <1>3 DEF Walks
  <1>5. Returned(g) = {}
    BY <1>4 DEF Returned, Content
  <1>6. WalkOK(g, pub.live)
    BY <1>3, <1>4, <1>5 DEF WalkOK
  <1> QED BY <1>1, <1>6 DEF WalksOK

(* Objects that go are no longer among those that were there all the time. *)
LEMMA WalksShrink ==
  ASSUME WalksOK, walk' = [p \in Pagers |-> [walk[p] EXCEPT !.stable = @ \cap pub'.live]]
  PROVE  WalksOK'
  <1> SUFFICES ASSUME NEW p \in Pagers
               PROVE  WalkOK(walk'[p], pub'.live)
    BY DEF WalksOK
  <1>1. WalkOK(walk[p], pub.live) /\ walk[p] \in Walks
    BY DEF WalksOK, WalkOK
  <1>2. walk'[p] = [walk[p] EXCEPT !.stable = walk[p].stable \cap pub'.live]
    OBVIOUS
  <1>3. /\ walk'[p] \in Walks /\ walk'[p].stable = walk[p].stable \cap pub'.live
        /\ walk'[p].pages = walk[p].pages /\ walk'[p].cursor = walk[p].cursor /\ walk'[p].pc = walk[p].pc
    BY <1>1, <1>2 DEF Walks
  <1>4. Returned(walk'[p]) = Returned(walk[p])
    BY <1>3 DEF Returned, Content
  <1> QED BY <1>1, <1>3, <1>4 DEF WalkOK

LEMMA WalkSteps ==
  ASSUME OpsInv, WalksOK, [Next]_vars
  PROVE  WalksOK'
  <1>1. CASE UNCHANGED <<pub, walk>>
    BY <1>1 DEF WalksOK
  <1>2. ASSUME NEW c \in Requests,
               \/ \E in \in scene.inputs : Arrive(c, in)
               \/ Serve(c) \/ Cancel(c) \/ Panic(c)
        PROVE  WalksOK'
    <2>1. CASE Publish(c)
      <3>1. UNCHANGED <<pub, walk>> \/ walk' = [p \in Pagers |-> [walk[p] EXCEPT !.stable = @ \cap pub'.live]]
        BY <2>1 DEF Publish
      <3> QED BY <1>1, <3>1, WalksShrink
    <2>2. CASE ~Publish(c)
      <3>1. UNCHANGED <<pub, walk>>
        BY <1>2, <2>2 DEF Arrive, Serve, Invoke, Await, Handle, ReadSnapshot, LoadBaseline, RunHooks, Complete,
                         Cancel, Panic
      <3> QED BY <1>1, <3>1
    <2> QED BY <2>1, <2>2
  <1>3. ASSUME NEW p \in scene.pagers, (\E deleted \in BOOLEAN : BeginWalk(p, deleted)) \/ ListPage(p)
        PROVE  WalksOK'
    <2>1. p \in Pagers
      BY OperationsAssumption DEF OpsInv, WorldOK
    <2> QED BY <1>3, <2>1, BeginWalkStep, ListPageStep
  <1>4. CASE \/ \E e \in DOMAIN ents : Lapse(e)
             \/ \E to \in scene.tokens : ChangeToken(to)
             \/ \E ids \in scene.files : EditFile(ids)
    BY <1>1, <1>4 DEF Lapse, ChangeToken, EditFile
  <1> QED BY <1>1, <1>2, <1>3, <1>4 DEF Next, Step, vars

(* A walk over any list, of any length and with any page limit, returns    *)
(* each object that was there all the time, and nothing twice, whatever is *)
(* created, deleted, reset or reloaded between its pages (pageAfter and    *)
(* the list handlers).                                                     *)
THEOREM WalksAreComplete == Spec => []WalkIsComplete
  <1>1. Init => WalksOK
    <2> SUFFICES ASSUME Init PROVE WalksOK
      OBVIOUS
    <2>1. walk = [p \in Pagers |-> NoWalk]
      BY DEF Init
    <2>2. WalkOK(NoWalk, pub.live)
      BY DEF NoWalk, WalkOK, Walks
    <2> QED BY <2>1, <2>2 DEF WalksOK
  <1>2. OpsInv /\ WalksOK /\ [Next]_vars => WalksOK'
    BY WalkSteps
  <1>3. WalksOK => WalkIsComplete
    <2> SUFFICES ASSUME WalksOK, NEW p \in Pagers, walk[p].pc = "over"
                 PROVE  /\ walk[p].stable \subseteq Content(walk[p].pages)
                        /\ \A i, j \in 1..Len(walk[p].pages) :
                             i # j => walk[p].pages[i] \cap walk[p].pages[j] = {}
      BY Zenon DEF WalkIsComplete, Content
    <2>1. WalkOK(walk[p], pub.live)
      BY DEF WalksOK
    <2> QED BY <2>1, Zenon DEF WalkOK, Returned
  <1> QED BY <1>1, <1>2, <1>3, OpsInductive, PTL DEF Spec

=============================================================================
