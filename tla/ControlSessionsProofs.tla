----------------------- MODULE ControlSessionsProofs -----------------------
(***************************************************************************)
(* Proofs about StateManager and about ControlSessions, which extends it,  *)
(* for every set of objects, digests, readers, baselines, tokens, sessions *)
(* and handlers.                                                           *)
(*                                                                         *)
(* All mutations go through Manager.mutate, so the proofs do too: StepShape *)
(* reduces a step to one call of mutate with an edit that satisfies Edit,  *)
(* to a load of the snapshot, or to a rotation of a token file, and each   *)
(* invariant is then shown once for these three cases.                     *)
(*                                                                         *)
(* Every step of the control plane is a step of the state manager or       *)
(* leaves it alone, so what is shown of snapshots holds there too.  The    *)
(* rest of the argument is about generations: a session is bound to one, a *)
(* generation that has been superseded never comes back, and snapshots     *)
(* that agree on a token's generation agree on what it was granted.        *)
(***************************************************************************)
EXTENDS ControlSessions, TLAPS

-----------------------------------------------------------------------------
(* The state manager.                                                      *)

(* What every edit of the overlay respects: a live user's material is in   *)
(* the bag, and a live token entry that changed is stamped with the new    *)
(* revision.                                                               *)
Edit(doc, ov, bag) ==
  /\ doc \in Baselines
  /\ ov \in [Objects -> Entry]
  /\ bag \subseteq SecretKeys
  /\ \A k \in SecretKeys :
       ov[k[1]].state = "live" /\ k[2] \in ov[k[1]].val.memory => k \in bag
  /\ \A t \in Tokens :
       ov[t] # overlay[t] /\ ov[t].state = "live" => ov[t].updated = revision + 1

(* The material of every live overlay user is in the bag.                  *)
MaterialKept ==
  \A k \in SecretKeys :
    overlay[k[1]].state = "live" /\ k[2] \in overlay[k[1]].val.memory
      => k \in secrets

(* Every entry and value the overlay can hold is well typed.               *)
LEMMA LiveValueType ==
  ASSUME TypeOK, NEW o \in Objects, Live(o)
  PROVE  /\ LiveValue(o) \in Value
         /\ InBase(baseline, o) \/ overlay[o].state = "live"
         /\ overlay[o].state = "live" => LiveValue(o) = overlay[o].val
         /\ overlay[o].state # "live" => LiveValue(o).memory = {}
  <1>1. baseline.objects[o] \in Value \cup {NoValue} /\ baseline.objects[o].memory = {}
    BY StateAssumption DEF TypeOK, Document
  <1>2. overlay[o] \in Entry
    BY DEF TypeOK
  <1>3. CASE overlay[o].state = "live"
    BY <1>2, <1>3 DEF Live, LiveValue, Merge, Entry, Absent, DeadEntry, LiveEntry, NoObject
  <1>4. CASE overlay[o].state # "live"
    BY <1>1, <1>4 DEF Live, LiveValue, Merge, NoObject, InBase
  <1> QED BY <1>3, <1>4


(* Storing a complete object is an Edit if the object's material is in the *)
(* bag.                                                                    *)
LEMMA StoredIsEdit ==
  ASSUME TypeOK, MaterialKept, NEW o \in Objects, NEW v \in Value,
         NEW bag \in SUBSET SecretKeys, secrets \subseteq bag,
         \A k \in SecretKeys : k[1] = o /\ k[2] \in v.memory => k \in bag
  PROVE  Edit(baseline, Stored(o, v), bag)
  <1> DEFINE e == [state |-> "live", val |-> v, source |-> SourceOf(o),
                   updated |-> revision + 1]
  <1>1. /\ Stored(o, v) \in [Objects -> Entry]
        /\ Stored(o, v)[o] = e
        /\ \A p \in Objects : p # o => Stored(o, v)[p] = overlay[p]
    <2>1. e \in LiveEntry
      BY StateAssumption DEF LiveEntry, SourceOf, TypeOK
    <2> HIDE DEF e
    <2>2. overlay \in [Objects -> Entry] /\ Stored(o, v) = [overlay EXCEPT ![o] = e]
      BY DEF TypeOK, Stored, e
    <2> QED BY <2>1, <2>2 DEF Entry
  <1>2. ASSUME NEW k \in SecretKeys, Stored(o, v)[k[1]].state = "live",
               k[2] \in Stored(o, v)[k[1]].val.memory
        PROVE  k \in bag
    <2>1. k[1] \in Objects
      BY DEF SecretKeys, Objects
    <2>2. CASE k[1] = o
      BY <1>1, <1>2, <2>2
    <2>3. CASE k[1] # o
      BY <1>1, <1>2, <2>1, <2>3 DEF MaterialKept
    <2> QED BY <2>2, <2>3
  <1>3. ASSUME NEW t \in Tokens, Stored(o, v)[t] # overlay[t]
        PROVE  Stored(o, v)[t].updated = revision + 1
    BY <1>1, <1>3 DEF Objects
  <1> QED BY <1>1, <1>2, <1>3 DEF Edit, TypeOK

(* Removing an entry, or putting a tombstone in its place, is an Edit.     *)
LEMMA DeletedIsEdit ==
  ASSUME TypeOK, MaterialKept, NEW o \in Objects, NEW tombstone \in BOOLEAN
  PROVE  Edit(baseline, Deleted(o, tombstone), secrets)
  <1>1. PICK e \in {Absent, Tombstone(revision + 1)} :
          Deleted(o, tombstone) = [overlay EXCEPT ![o] = e]
    BY DEF Deleted
  <1>2. e \in Entry /\ e.state # "live"
    BY StateAssumption DEF Absent, Tombstone, Entry, DeadEntry, TypeOK
  <1>3. /\ Deleted(o, tombstone) \in [Objects -> Entry]
        /\ Deleted(o, tombstone)[o] = e
        /\ \A p \in Objects : p # o => Deleted(o, tombstone)[p] = overlay[p]
    BY <1>1, <1>2 DEF TypeOK
  <1>4. ASSUME NEW k \in SecretKeys, Deleted(o, tombstone)[k[1]].state = "live",
               k[2] \in Deleted(o, tombstone)[k[1]].val.memory
        PROVE  k \in secrets
    <2>1. k[1] \in Objects
      BY DEF SecretKeys, Objects
    <2> QED BY <1>2, <1>3, <1>4, <2>1 DEF MaterialKept
  <1>5. ASSUME NEW t \in Tokens, Deleted(o, tombstone)[t] # overlay[t]
        PROVE  Deleted(o, tombstone)[t].state # "live"
    BY <1>2, <1>3, <1>5 DEF Objects
  <1> QED BY <1>3, <1>4, <1>5 DEF Edit, TypeOK

(* Reset and Reload give mutate an Edit.                                   *)
LEMMA RebaseIsEdit ==
  ASSUME TypeOK, MaterialKept, NEW doc \in Baselines
  PROVE  Edit(doc, newOverlay, {}) /\ Edit(doc, overlay, secrets)
  <1>1. newOverlay \in [Objects -> Entry] /\ \A o \in Objects : newOverlay[o].state # "live"
    BY DEF newOverlay, Entry, Absent
  <1>2. \A k \in SecretKeys : k[1] \in Objects
    BY DEF SecretKeys, Objects
  <1>3. Edit(doc, newOverlay, {})
    BY <1>1, <1>2 DEF Edit, Objects
  <1>4. Edit(doc, overlay, secrets)
    BY DEF Edit, TypeOK, MaterialKept
  <1> QED BY <1>3, <1>4

(* A step that publishes: one call of mutate with an Edit.                 *)
Publishes == \E e, doc, ov, bag : Edit(doc, ov, bag) /\ mutate(e, doc, ov, bag)

(* Every operation of the manager publishes an Edit; the only other steps  *)
(* load the pointer or rotate a file.                                      *)
LEMMA StepShape ==
  ASSUME TypeOK, MaterialKept, Next
  PROVE  \/ Publishes
         \/ \E r \in Readers : LoadSnapshot(r)
         \/ \E t \in Tokens, c \in Creds \cup {NoCred} : RotateFile(t, c)
  <1>1. ASSUME NEW o \in Objects, NEW v \in Value, v.memory = {}, NEW e,
               mutate(e, baseline, Stored(o, v), secrets)
        PROVE  Publishes
    <2>1. Edit(baseline, Stored(o, v), secrets)
      BY <1>1, StoredIsEdit DEF TypeOK
    <2> QED BY <1>1, <2>1 DEF Publishes
  <1>2. ASSUME NEW o \in Objects, NEW d \in Data, NEW refs \in SUBSET Objects,
               NEW gone \in SUBSET Slots, MayReplace(o), NEW e,
               mutate(e, baseline,
                 Stored(o, [LiveValue(o) EXCEPT !.data = d, !.refs = refs,
                                                !.memory = @ \ gone]), secrets)
        PROVE  Publishes
    <2> DEFINE v == [LiveValue(o) EXCEPT !.data = d, !.refs = refs,
                                         !.memory = @ \ gone]
    <2>1. /\ v \in Value /\ v.memory \subseteq LiveValue(o).memory
      BY <1>2, LiveValueType DEF MayReplace, Value
    <2>2. \A k \in SecretKeys : k[1] = o /\ k[2] \in v.memory => k \in secrets
      BY <1>2, <2>1, LiveValueType DEF MayReplace, MaterialKept
    <2>3. mutate(e, baseline, Stored(o, v), secrets)
      BY <1>2
    <2> HIDE DEF v
    <2>4. Edit(baseline, Stored(o, v), secrets)
      BY <2>1, <2>2, StoredIsEdit DEF TypeOK
    <2> QED BY <2>3, <2>4 DEF Publishes
  <1>3. ASSUME NEW u \in Users, NEW slot \in Slots, NEW e,
               OverrideVerifier(u, slot, e)
        PROVE  Publishes
    <2> DEFINE v == [LiveValue(u) EXCEPT !.memory = @ \cup {slot}]
               bag == secrets \cup {<<u, slot>>}
    <2>1. u \in Objects /\ Live(u) /\ mutate(e, baseline, Stored(u, v), bag)
      BY <1>3 DEF OverrideVerifier, MayReplace, Objects
    <2>2. v \in Value /\ v.memory = LiveValue(u).memory \cup {slot}
      BY <2>1, LiveValueType DEF Value
    <2>3. bag \subseteq SecretKeys /\ secrets \subseteq bag
      BY DEF SecretKeys, TypeOK
    <2>4. ASSUME NEW k \in SecretKeys, k[1] = u, k[2] \in v.memory
          PROVE  k \in bag
      <3>1. CASE k[2] = slot
        BY <2>4, <3>1 DEF SecretKeys
      <3>2. CASE k[2] \in LiveValue(u).memory
        BY <2>1, <2>4, <3>2, LiveValueType DEF MaterialKept
      <3> QED BY <2>2, <2>4, <3>1, <3>2
    <2> HIDE DEF v, bag
    <2>5. Edit(baseline, Stored(u, v), bag)
      BY <2>1, <2>2, <2>3, <2>4, StoredIsEdit
    <2> QED BY <2>1, <2>5 DEF Publishes
  <1>4. ASSUME NEW o \in Objects, NEW tombstone \in BOOLEAN, NEW e,
               DeleteObject(o, tombstone, e)
        PROVE  Publishes
    BY <1>4, DeletedIsEdit DEF DeleteObject, Publishes
  <1>5. ASSUME NEW d \in Data, NEW refs \in SUBSET Objects
        PROVE  Fresh(d, refs) \in Value /\ Fresh(d, refs).memory = {}
    BY DEF Fresh, Value
  <1>6. \A o : Nameable(o) \subseteq Objects
    BY DEF Nameable, Objects
  <1>7. ASSUME NEW e, UserStep(e) PROVE Publishes
    <2> PICK u \in Users :
          \/ \E d \in Data, refs \in SUBSET Nameable(u) :
               \/ \E override \in BOOLEAN : CreateUser(u, d, refs, override, e)
               \/ \E replaced \in SUBSET Slots : UpdateUser(u, d, refs, replaced, e)
          \/ \E tombstone \in BOOLEAN : DeleteUser(u, tombstone, e)
          \/ OverrideLoginVerifier(u, e)
          \/ OverrideEnableVerifier(u, e)
      BY <1>7 DEF UserStep
    <2>0. u \in Objects
      BY DEF Objects
    <2>1. ASSUME NEW d \in Data, NEW refs \in SUBSET Nameable(u),
                 NEW override \in BOOLEAN, CreateUser(u, d, refs, override, e)
          PROVE  Publishes
      BY <2>0, <2>1, <1>1, <1>5, <1>6 DEF CreateUser, CreateObject
    <2>2. ASSUME NEW d \in Data, NEW refs \in SUBSET Nameable(u),
                 NEW replaced \in SUBSET Slots, UpdateUser(u, d, refs, replaced, e)
          PROVE  Publishes
      BY <2>0, <2>2, <1>2, <1>6 DEF UpdateUser, UpdateObject
    <2>3. ASSUME NEW tombstone \in BOOLEAN, DeleteUser(u, tombstone, e)
          PROVE  Publishes
      BY <2>0, <2>3, <1>4 DEF DeleteUser
    <2>4. CASE OverrideLoginVerifier(u, e) \/ OverrideEnableVerifier(u, e)
      BY <2>4, <1>3 DEF OverrideLoginVerifier, OverrideEnableVerifier, Slots
    <2> QED BY <2>1, <2>2, <2>3, <2>4
  <1>8. ASSUME NEW e, GroupStep(e) PROVE Publishes
    <2> PICK g \in Groups :
          \/ \E d \in Data, override \in BOOLEAN : CreateGroup(g, d, override, e)
          \/ \E d \in Data : UpdateGroup(g, d, e)
          \/ \E tombstone \in BOOLEAN : DeleteGroup(g, tombstone, e)
      BY <1>8 DEF GroupStep
    <2>0. g \in Objects
      BY DEF Objects
    <2>1. ASSUME NEW d \in Data, NEW override \in BOOLEAN,
                 CreateGroup(g, d, override, e)
          PROVE  Publishes
      BY <2>0, <2>1, <1>1, <1>5 DEF CreateGroup, CreateObject
    <2>2. ASSUME NEW d \in Data, UpdateGroup(g, d, e)
          PROVE  Publishes
      <3>1. MayReplace(g) /\ LiveValue(g) \in Value
        BY <2>0, <2>2, LiveValueType DEF UpdateGroup, UpdateObject, MayReplace
      <3>2. [LiveValue(g) EXCEPT !.data = d] =
              [LiveValue(g) EXCEPT !.data = d, !.refs = LiveValue(g).refs,
                                   !.memory = @ \ {}]
        BY <3>1 DEF Value
      <3>3. LiveValue(g).refs \in SUBSET Objects
        BY <3>1 DEF Value
      <3> QED BY <2>0, <2>2, <3>1, <3>2, <3>3, <1>2 DEF UpdateGroup, UpdateObject
    <2>3. ASSUME NEW tombstone \in BOOLEAN, DeleteGroup(g, tombstone, e)
          PROVE  Publishes
      BY <2>0, <2>3, <1>4 DEF DeleteGroup
    <2> QED BY <2>1, <2>2, <2>3
  <1>9. ASSUME NEW e, ClientStep(e) PROVE Publishes
    <2> PICK c \in Clients :
          \/ \E d \in Data, refs \in SUBSET Nameable(c) :
               \/ \E override \in BOOLEAN : CreateClient(c, d, refs, override, e)
               \/ UpdateClient(c, d, refs, e)
          \/ \E tombstone \in BOOLEAN : DeleteClient(c, tombstone, e)
      BY <1>9 DEF ClientStep
    <2>0. c \in Objects
      BY DEF Objects
    <2>1. ASSUME NEW d \in Data, NEW refs \in SUBSET Nameable(c),
                 NEW override \in BOOLEAN, CreateClient(c, d, refs, override, e)
          PROVE  Publishes
      BY <2>0, <2>1, <1>1, <1>5, <1>6 DEF CreateClient, CreateObject
    <2>2. ASSUME NEW d \in Data, NEW refs \in SUBSET Nameable(c),
                 UpdateClient(c, d, refs, e)
          PROVE  Publishes
      <3>1. MayReplace(c) /\ LiveValue(c) \in Value
        BY <2>0, <2>2, LiveValueType DEF UpdateClient, UpdateObject, MayReplace
      <3>2. [LiveValue(c) EXCEPT !.data = d, !.refs = refs] =
              [LiveValue(c) EXCEPT !.data = d, !.refs = refs, !.memory = @ \ {}]
        BY <3>1 DEF Value
      <3> QED BY <2>0, <2>2, <3>1, <3>2, <1>2, <1>6 DEF UpdateClient, UpdateObject
    <2>3. ASSUME NEW tombstone \in BOOLEAN, DeleteClient(c, tombstone, e)
          PROVE  Publishes
      BY <2>0, <2>3, <1>4 DEF DeleteClient
    <2> QED BY <2>1, <2>2, <2>3
  <1>10. ASSUME NEW e, TokenStep(e) PROVE Publishes
    <2> PICK t \in Tokens :
          \/ \E d \in Data, c \in Creds, override \in BOOLEAN :
               CreateToken(t, d, c, override, e)
          \/ \E tombstone \in BOOLEAN : DeleteToken(t, tombstone, e)
      BY <1>10 DEF TokenStep
    <2>0. t \in Objects
      BY DEF Objects
    <2>1. ASSUME NEW d \in Data, NEW c \in Creds, NEW override \in BOOLEAN,
                 CreateToken(t, d, c, override, e)
          PROVE  Publishes
      <3> DEFINE v == [data |-> d, refs |-> {}, memory |-> {}, cred |-> c]
      <3>1. v \in Value /\ v.memory = {}
        BY DEF Value
      <3>2. mutate(e, baseline, Stored(t, v), secrets)
        BY <2>1 DEF CreateToken
      <3> HIDE DEF v
      <3> QED BY <2>0, <3>1, <3>2, <1>1
    <2>2. ASSUME NEW tombstone \in BOOLEAN, DeleteToken(t, tombstone, e)
          PROVE  Publishes
      BY <2>0, <2>2, <1>4 DEF DeleteToken
    <2> QED BY <2>1, <2>2
  <1>11. ASSUME NEW e, NEW doc \in Baselines, Reload(doc, e) PROVE Publishes
    BY <1>11, RebaseIsEdit DEF Reload, Publishes
  <1>12. ASSUME NEW e, Reset(e) PROVE Publishes
    BY <1>12, RebaseIsEdit DEF Reset, Publishes, TypeOK
  <1> QED BY <1>7, <1>8, <1>9, <1>10, <1>11, <1>12 DEF Next

-----------------------------------------------------------------------------
(* The inductive invariant.                                                *)

(* Revisions and generations are stamps of the past, and a token that is   *)
(* not live has generation 0.                                              *)
StampsInPast ==
  /\ \A t \in Tokens :
       /\ overlay[t].state = "live" => overlay[t].updated <= revision
       /\ current.gen[t] <= revision
       /\ current.objects[t].source = "none" => current.gen[t] = 0
  /\ \A r \in Readers :
       held[r].rev <= revision /\ \A t \in Tokens : held[r].gen[t] <= revision

IndInv ==
  /\ TypeOK
  /\ MaterialKept
  /\ StampsInPast
  /\ PublishedIsMerge
  /\ PublishedIsValid
  /\ SecretsReachable
  /\ BearerNamesOneToken
  /\ RevisionIdentifies
  /\ GenerationIdentifiesGrant

(* A merge of a baseline and a well-typed overlay is well typed, and only  *)
(* a live overlay entry can point into the secret bag.                     *)
LEMMA MergeType ==
  ASSUME NEW doc \in Baselines, NEW ov \in [Objects -> Entry], NEW o \in Objects
  PROVE  /\ Merge(doc, ov, o) \in Effective
         /\ ov[o].state = "live" => /\ Merge(doc, ov, o).val = ov[o].val
                                    /\ Merge(doc, ov, o).source = ov[o].source
                                    /\ Merge(doc, ov, o).source \in {"runtime", "override"}
                                    /\ Merge(doc, ov, o).updated = ov[o].updated
         /\ ov[o].state # "live" => /\ Merge(doc, ov, o).val.memory = {}
                                    /\ Merge(doc, ov, o).source \in {"none", "config"}
         /\ Merge(doc, ov, o).source = "config" => ov[o] = Absent
  <1>1. doc.objects[o] \in Value \cup {NoValue} /\ doc.objects[o].memory = {}
    BY StateAssumption DEF Document
  <1>2. ov[o] \in Entry
    OBVIOUS
  <1>3. CASE ov[o].state = "live"
    BY <1>2, <1>3 DEF Merge, Effective, Entry, Absent, DeadEntry, LiveEntry
  <1>4. CASE ov[o].state # "live"
    <2>1. NoObject \in Effective /\ NoObject.val.memory = {} /\ NoObject.source = "none"
      BY DEF NoObject, NoValue, Effective
    <2>2. CASE ov[o].state = "absent" /\ InBase(doc, o)
      <3>1. ov[o] = Absent
        BY <1>2, <2>2 DEF Entry, DeadEntry, LiveEntry
      <3>2. Merge(doc, ov, o) = [val |-> doc.objects[o], source |-> "config", updated |-> 0]
        BY <2>2 DEF Merge
      <3> QED BY <1>1, <1>4, <2>2, <3>1, <3>2 DEF InBase, Effective
    <2>3. CASE ~(ov[o].state = "absent" /\ InBase(doc, o))
      BY <1>4, <2>1, <2>3 DEF Merge
    <2> QED BY <2>2, <2>3
  <1> QED BY <1>3, <1>4

(* The digest a token is compiled with is a digest.                        *)
LEMMA CredType ==
  ASSUME NEW ov \in [Objects -> Entry], NEW doc, NEW t \in Tokens,
         files \in [Tokens -> Creds \cup {NoCred}]
  PROVE  TokenCred(doc, ov, t) \in Creds \cup {NoCred}
  <1>1. ov[t] \in Entry
    BY DEF Objects
  <1> QED BY <1>1 DEF TokenCred, Entry, Absent, DeadEntry, LiveEntry, NoValue, Value

(* A compiled candidate is a snapshot whose generations are the previous   *)
(* snapshot's or the new revision.                                         *)
LEMMA CompileType ==
  ASSUME NEW doc \in Baselines, NEW ov \in [Objects -> Entry],
         NEW bag \in SUBSET SecretKeys, NEW rev \in Nat, NEW old \in Snapshot,
         files \in [Tokens -> Creds \cup {NoCred}]
  PROVE  /\ Compile(doc, ov, bag, rev, old) \in Snapshot
         /\ \A t \in Tokens :
              Compile(doc, ov, bag, rev, old).gen[t] \in {0, rev, old.gen[t]}
  <1> DEFINE objs == MergeAll(doc, ov)
             creds == [t \in Tokens |-> TokenCred(doc, ov, t)]
             gen == [t \in Tokens |-> Generation(old, objs, creds[t], rev, t)]
  <1>1. objs \in [Objects -> Effective]
    BY MergeType DEF MergeAll
  <1>2. creds \in [Tokens -> Creds \cup {NoCred}]
    BY CredType
  <1>3. \A t \in Tokens : old.gen[t] \in Nat
    BY DEF Snapshot
  <1>4. gen \in [Tokens -> Nat] /\ \A t \in Tokens : gen[t] \in {0, rev, old.gen[t]}
    BY <1>3 DEF Generation
  <1>5. Compile(doc, ov, bag, rev, old) =
          [rev |-> rev, objects |-> objs, creds |-> creds, gen |-> gen, bag |-> bag]
    BY DEF Compile
  <1> HIDE DEF objs, creds, gen
  <1> QED BY <1>1, <1>2, <1>4, <1>5 DEF Snapshot

(* What mutate publishes.                                                  *)
LEMMA PublishFacts ==
  ASSUME TypeOK, NEW e, NEW doc, NEW ov, NEW bag,
         Edit(doc, ov, bag), mutate(e, doc, ov, bag)
  PROVE  /\ current' \in Snapshot
         /\ current'.rev = revision + 1
         /\ current'.objects = MergeAll(doc, ov)
         /\ current'.bag = Prune(ov, bag)
         /\ \A t \in Tokens :
              /\ current'.creds[t] = TokenCred(doc, ov, t)
              /\ current'.gen[t] = Generation(current, MergeAll(doc, ov),
                                              current'.creds[t], revision + 1, t)
              /\ current'.gen[t] \in {0, revision + 1, current.gen[t]}
  <1>1. revision + 1 \in Nat /\ Prune(ov, bag) \in SUBSET SecretKeys
    BY StateAssumption DEF TypeOK, Prune, Edit
  <1>2. current' = Compile(doc, ov, Prune(ov, bag), revision + 1, current)
    BY DEF mutate
  <1>3. /\ current' \in Snapshot
        /\ \A t \in Tokens : current'.gen[t] \in {0, revision + 1, current.gen[t]}
    BY <1>1, <1>2, CompileType DEF TypeOK, Edit
  <1>4. /\ current'.rev = revision + 1
        /\ current'.objects = MergeAll(doc, ov)
        /\ current'.bag = Prune(ov, bag)
        /\ \A t \in Tokens : current'.creds[t] = TokenCred(doc, ov, t)
    BY <1>2 DEF Compile
  <1>5. \A t \in Tokens :
          current'.gen[t] = Generation(current, MergeAll(doc, ov),
                                       TokenCred(doc, ov, t), revision + 1, t)
    BY <1>2 DEF Compile
  <1> QED BY <1>3, <1>4, <1>5

(* mutate preserves the invariant.                                         *)
LEMMA PublishPreserves ==
  ASSUME IndInv, Publishes
  PROVE  IndInv'
  <1> PICK e, doc, ov, bag : Edit(doc, ov, bag) /\ mutate(e, doc, ov, bag)
    BY DEF Publishes
  <1> USE DEF IndInv
  <1>0. /\ revision \in Nat /\ revision < MaxRevision
        /\ baseline' = doc /\ overlay' = ov /\ secrets' = Prune(ov, bag)
        /\ revision' = revision + 1 /\ files' = files /\ held' = held
        /\ Valid(doc, MergeAll(doc, ov)) /\ DigestsUsable(doc, ov)
    BY StateAssumption DEF mutate, Compiles, TypeOK
  <1>1. TypeOK'
    <2>1. Prune(ov, bag) \subseteq SecretKeys
      BY DEF Prune, Edit
    <2>2. revision' \in 1..MaxRevision
      BY <1>0, StateAssumption
    <2> QED BY <1>0, <2>1, <2>2, PublishFacts DEF TypeOK, Edit
  <1>2. \A k \in SecretKeys :
          k \in Prune(ov, bag) <=> ov[k[1]].state = "live" /\ k[2] \in ov[k[1]].val.memory
    BY DEF Prune, Edit
  <1>3. MaterialKept'
    BY <1>0, <1>2 DEF MaterialKept
  <1>4. PublishedIsMerge'
    BY <1>0, PublishFacts DEF PublishedIsMerge
  <1>5. PublishedIsValid'
    <2>1. current'.objects = MergeAll(doc, ov)
      BY PublishFacts
    <2> QED BY <1>0, <2>1 DEF PublishedIsValid, Valid
  <1>6. SecretsReachable'
    <2>1. current'.bag = Prune(ov, bag) /\ current'.objects = MergeAll(doc, ov)
      BY PublishFacts
    <2>2. ASSUME NEW k \in SecretKeys
          PROVE  k \in Prune(ov, bag) <=> k[2] \in MergeAll(doc, ov)[k[1]].val.memory
      <3>1. k[1] \in Objects /\ doc \in Baselines /\ ov \in [Objects -> Entry]
        BY DEF SecretKeys, Objects, Edit
      <3>2. MergeAll(doc, ov)[k[1]] = Merge(doc, ov, k[1])
        BY <3>1 DEF MergeAll
      <3> QED BY <1>2, <3>1, <3>2, MergeType
    <2>3. Prune(ov, bag) \subseteq SecretKeys
      BY DEF Prune, Edit
    <2> QED BY <2>1, <2>2, <2>3 DEF SecretsReachable
  <1>7. BearerNamesOneToken'
    BY <1>0, PublishFacts DEF BearerNamesOneToken, DigestsUsable
  <1>8. RevisionIdentifies'
    <2>1. ASSUME NEW r \in Readers PROVE held'[r].rev # current'.rev
      <3>1. held[r].rev \in Nat /\ held[r].rev <= revision
        BY DEF TypeOK, Snapshot, StampsInPast
      <3> QED BY <1>0, <3>1, PublishFacts
    <2> QED BY <2>1 DEF RevisionIdentifies
  <1>9. StampsInPast'
    <2>1. ASSUME NEW t \in Tokens
          PROVE  /\ ov[t].state = "live" => ov[t].updated <= revision + 1
                 /\ current'.gen[t] <= revision + 1
                 /\ current'.objects[t].source = "none" => current'.gen[t] = 0
      <3>1. t \in Objects /\ ov[t] \in Entry /\ overlay[t] \in Entry
        BY DEF Objects, Edit, TypeOK
      <3>2. ov[t].state = "live" => ov[t].updated <= revision + 1
        <4>1. CASE ov[t] = overlay[t]
          BY <1>0, <3>1, <4>1 DEF StampsInPast, Entry, Absent, DeadEntry, LiveEntry
        <4>2. CASE ov[t] # overlay[t]
          BY <1>0, <4>2 DEF Edit
        <4> QED BY <4>1, <4>2
      <3>3. current.gen[t] \in Nat /\ current.gen[t] <= revision
        BY DEF TypeOK, Snapshot, StampsInPast
      <3>4. current'.gen[t] <= revision + 1
        BY <1>0, <3>3, PublishFacts
      <3>5. current'.objects[t].source = "none" => current'.gen[t] = 0
        BY PublishFacts DEF Generation
      <3> QED BY <3>2, <3>4, <3>5
    <2>2. ASSUME NEW r \in Readers
          PROVE  /\ held[r].rev <= revision + 1
                 /\ \A t \in Tokens : held[r].gen[t] <= revision + 1
      BY <1>0 DEF TypeOK, Snapshot, StampsInPast
    <2> QED BY <1>0, <2>1, <2>2 DEF StampsInPast
  <1>10. GenerationIdentifiesGrant'
    <2> SUFFICES ASSUME NEW r \in Readers, NEW t \in Tokens,
                        held[r].gen[t] = current'.gen[t], current'.gen[t] # 0
                 PROVE  /\ held[r].creds[t] = current'.creds[t]
                        /\ held[r].objects[t].val.data = current'.objects[t].val.data
                        /\ held[r].objects[t].source = current'.objects[t].source
      BY <1>0 DEF GenerationIdentifiesGrant
    <2>1. held[r].gen[t] \in Nat /\ held[r].gen[t] <= revision
      BY DEF TypeOK, Snapshot, StampsInPast
    <2>2. current'.gen[t] # revision + 1
      BY <1>0, <2>1
    <2>3. /\ SameIncarnation(current, MergeAll(doc, ov), current'.creds[t], t)
          /\ current'.gen[t] = current.gen[t]
      BY <2>2, PublishFacts DEF Generation
    <2>4. /\ current.creds[t] = current'.creds[t]
          /\ current.objects[t].val.data = current'.objects[t].val.data
          /\ current.objects[t].source = current'.objects[t].source
      BY <2>3, PublishFacts DEF SameIncarnation
    <2> QED BY <2>3, <2>4 DEF GenerationIdentifiesGrant
  <1> QED BY <1>1, <1>3, <1>4, <1>5, <1>6, <1>7, <1>8, <1>9, <1>10

(* Loading the pointer preserves the invariant.                            *)
LEMMA LoadPreserves ==
  ASSUME IndInv, NEW r \in Readers, LoadSnapshot(r)
  PROVE  IndInv'
  <1> USE DEF IndInv
  <1>1. /\ UNCHANGED <<baseline, overlay, secrets, revision, current, files>>
        /\ held' = [held EXCEPT ![r] = current]
    BY DEF LoadSnapshot, managerVars
  <1>2. \A q \in Readers : held'[q] \in {held[q], current}
    BY <1>1 DEF TypeOK
  <1>3. TypeOK'
    BY <1>1 DEF TypeOK
  <1>4. StampsInPast'
    <2>1. current.rev <= revision /\ \A t \in Tokens : current.gen[t] <= revision
      BY StateAssumption DEF PublishedIsMerge, StampsInPast, TypeOK
    <2>2. ASSUME NEW q \in Readers
          PROVE  held'[q].rev <= revision /\ \A t \in Tokens : held'[q].gen[t] <= revision
      <3>1. CASE held'[q] = current
        BY <2>1, <3>1
      <3>2. CASE held'[q] = held[q]
        BY <3>2 DEF StampsInPast
      <3> QED BY <1>2, <3>1, <3>2
    <2> QED BY <1>1, <2>2 DEF StampsInPast
  <1>5. RevisionIdentifies' /\ GenerationIdentifiesGrant'
    BY <1>1, <1>2 DEF RevisionIdentifies, GenerationIdentifiesGrant
  <1>6. MaterialKept' /\ PublishedIsMerge' /\ PublishedIsValid'
    BY <1>1 DEF MaterialKept, PublishedIsMerge, PublishedIsValid
  <1>7. SecretsReachable' /\ BearerNamesOneToken'
    BY <1>1 DEF SecretsReachable, BearerNamesOneToken
  <1> QED BY <1>3, <1>4, <1>5, <1>6, <1>7

(* A step that changes neither the manager nor a reader preserves it.      *)
LEMMA IdlePreserves ==
  ASSUME IndInv, files' \in [Tokens -> Creds \cup {NoCred}],
         UNCHANGED <<baseline, overlay, secrets, revision, current, held>>
  PROVE  IndInv'
  <1> USE DEF IndInv
  <1>1. TypeOK'
    BY DEF TypeOK
  <1>2. MaterialKept' /\ PublishedIsMerge' /\ PublishedIsValid' /\ StampsInPast'
    BY DEF MaterialKept, PublishedIsMerge, PublishedIsValid, StampsInPast
  <1>3. SecretsReachable' /\ BearerNamesOneToken'
    BY DEF SecretsReachable, BearerNamesOneToken
  <1>4. RevisionIdentifies' /\ GenerationIdentifiesGrant'
    BY DEF RevisionIdentifies, GenerationIdentifiesGrant
  <1> QED BY <1>1, <1>2, <1>3, <1>4

(* New establishes the invariant.                                          *)
LEMMA InitEstablishes == Init => IndInv
  <1> SUFFICES ASSUME Init PROVE IndInv
    OBVIOUS
  <1>1. newOverlay \in [Objects -> Entry] /\ \A o \in Objects : newOverlay[o] = Absent
    BY DEF newOverlay, Entry
  <1>2. NoSnapshot \in Snapshot
    BY DEF NoSnapshot, Snapshot, Effective
  <1>3. current = Compile(baseline, newOverlay, {}, 1, NoSnapshot)
    BY DEF Init
  <1>4. /\ current \in Snapshot
        /\ \A t \in Tokens : current.gen[t] \in {0, 1, NoSnapshot.gen[t]}
    BY <1>1, <1>2, <1>3, CompileType DEF Init
  <1>5. /\ current.rev = 1 /\ current.bag = {}
        /\ current.objects = MergeAll(baseline, newOverlay)
        /\ \A t \in Tokens : current.creds[t] = TokenCred(baseline, newOverlay, t)
    BY <1>3 DEF Compile
  <1>6. \A t \in Tokens : current.objects[t].source = "none" => current.gen[t] = 0
    BY <1>3 DEF Compile, Generation
  <1>7. \A r \in Readers : held[r] = current
    BY DEF Init
  <1>8. TypeOK
    BY <1>1, <1>4, StateAssumption DEF TypeOK, Init
  <1>9. MaterialKept
    BY <1>1 DEF MaterialKept, Init, SecretKeys, Objects, Absent
  <1>10. StampsInPast
    <2>1. \A t \in Tokens : current.gen[t] <= 1
      BY <1>4 DEF NoSnapshot
    <2>2. \A t \in Tokens : overlay[t].state # "live"
      BY <1>1 DEF Init, Objects, Absent
    <2> QED BY <1>5, <1>6, <1>7, <2>1, <2>2 DEF StampsInPast, Init
  <1>11. PublishedIsMerge
    BY <1>5 DEF PublishedIsMerge, Init
  <1>12. PublishedIsValid
    BY <1>5 DEF PublishedIsValid, Valid, Compiles, Init
  <1>13. SecretsReachable
    <2>1. ASSUME NEW o \in Objects PROVE current.objects[o].val.memory = {}
      <3>1. current.objects[o] = Merge(baseline, newOverlay, o)
        BY <1>5 DEF MergeAll
      <3> QED BY <1>1, <3>1, MergeType DEF Absent, Init
    <2>2. \A k \in SecretKeys : k[1] \in Objects
      BY DEF SecretKeys, Objects
    <2> QED BY <1>5, <2>1, <2>2 DEF SecretsReachable
  <1>14. BearerNamesOneToken
    BY <1>5 DEF BearerNamesOneToken, DigestsUsable, Compiles, Init
  <1>15. RevisionIdentifies /\ GenerationIdentifiesGrant
    BY <1>7 DEF RevisionIdentifies, GenerationIdentifiesGrant
  <1> QED BY <1>8, <1>9, <1>10, <1>11, <1>12, <1>13, <1>14, <1>15 DEF IndInv

(* The invariant holds in every behaviour of the manager.                  *)
THEOREM Inductive == Spec => []IndInv
  <1>1. IndInv /\ [Next]_vars => IndInv'
    <2> SUFFICES ASSUME IndInv, [Next]_vars PROVE IndInv'
      OBVIOUS
    <2>1. CASE Publishes
      BY <2>1, PublishPreserves
    <2>2. ASSUME NEW r \in Readers, LoadSnapshot(r) PROVE IndInv'
      BY <2>2, LoadPreserves
    <2>3. ASSUME NEW t \in Tokens, NEW c \in Creds \cup {NoCred}, RotateFile(t, c)
          PROVE  IndInv'
      <3>1. UNCHANGED <<baseline, overlay, secrets, revision, current, held>>
        BY <2>3 DEF RotateFile, managerVars
      <3>2. files' \in [Tokens -> Creds \cup {NoCred}]
        BY <2>3 DEF RotateFile, IndInv, TypeOK
      <3> QED BY <3>1, <3>2, IdlePreserves
    <2>4. CASE UNCHANGED vars
      BY <2>4, IdlePreserves DEF vars, IndInv, TypeOK
    <2> QED BY <2>1, <2>2, <2>3, <2>4, StepShape DEF IndInv
  <1> QED BY <1>1, InitEstablishes, PTL DEF Spec

(* Every field of the manager and every snapshot in use is well typed.     *)
THEOREM TypeCorrect == Spec => []TypeOK
  BY Inductive, PTL DEF IndInv

(* A publication is all or nothing, whatever mutations are refused.        *)
THEOREM PublicationAtomic == Spec => []PublishedIsMerge
  BY Inductive, PTL DEF IndInv

(* No sequence of deletions, overrides and reloads publishes a dangling    *)
(* reference or exceeds the token cap.                                     *)
THEOREM PublicationValid == Spec => []PublishedIsValid
  BY Inductive, PTL DEF IndInv

(* The secret bag is exactly what the published users point to.            *)
THEOREM SecretsExact == Spec => []SecretsReachable
  BY Inductive, PTL DEF IndInv

(* A bearer names at most one live token.                                  *)
THEOREM BearerUnique == Spec => []BearerNamesOneToken
  BY Inductive, PTL DEF IndInv

(* A revision identifies the published state.                              *)
THEOREM RevisionsIdentify == Spec => []RevisionIdentifies
  BY Inductive, PTL DEF IndInv

(* A current generation stands for an unchanged grant.                     *)
THEOREM GenerationsIdentify == Spec => []GenerationIdentifiesGrant
  BY Inductive, PTL DEF IndInv

(* A superseded generation never becomes current again.                    *)
THEOREM RevocationFinal == Spec => RevokedStaysRevoked
  <1> DEFINE Stays == \A r \in Readers, t \in Tokens :
                        held[r].gen[t] \notin {0, current.gen[t]}
                          => held[r].gen[t] # current'.gen[t]
  <1>1. IndInv /\ [Next]_vars => [Stays]_vars
    <2> SUFFICES ASSUME IndInv, [Next]_vars, NEW r \in Readers, NEW t \in Tokens,
                        held[r].gen[t] \notin {0, current.gen[t]}
                 PROVE  held[r].gen[t] # current'.gen[t]
      OBVIOUS
    <2>1. CASE Publishes
      <3>1. PICK e, doc, ov, bag : Edit(doc, ov, bag) /\ mutate(e, doc, ov, bag)
        BY <2>1 DEF Publishes
      <3>2. current'.gen[t] \in {0, revision + 1, current.gen[t]}
        BY <3>1, PublishFacts DEF IndInv
      <3>3. held[r].gen[t] \in Nat /\ revision \in Nat /\ held[r].gen[t] <= revision
        BY StateAssumption DEF IndInv, TypeOK, Snapshot, StampsInPast
      <3> QED BY <3>2, <3>3
    <2>2. CASE current' = current
      BY <2>2
    <2> QED
      BY <2>1, <2>2, StepShape
      DEF IndInv, LoadSnapshot, RotateFile, managerVars, vars
  <1> QED BY <1>1, Inductive, PTL DEF Spec, RevokedStaysRevoked

(* A step that touches a token's entry ends its incarnation; one that      *)
(* leaves entry, baseline object and digest alone keeps it.                *)
THEOREM GenerationsFollow == Spec => GenerationFollowsToken
  <1> DEFINE Follows(t) ==
        /\ overlay'[t] # overlay[t]
             => current'.gen[t] # current.gen[t] \/ current'.gen[t] = 0
        /\ (/\ overlay'[t] = overlay[t]
            /\ baseline'.objects[t] = baseline.objects[t]
            /\ current'.creds[t] = current.creds[t])
             => current'.gen[t] = current.gen[t]
  <1>1. IndInv /\ [Next]_vars => [\A t \in Tokens : Follows(t)]_vars
    <2> SUFFICES ASSUME IndInv, [Next]_vars, NEW t \in Tokens PROVE Follows(t)
      OBVIOUS
    <2>0. t \in Objects
      BY DEF Objects
    <2>1. CASE Publishes
      <3> PICK e, doc, ov, bag : Edit(doc, ov, bag) /\ mutate(e, doc, ov, bag)
        BY <2>1 DEF Publishes
      <3>1. /\ overlay' = ov /\ baseline' = doc /\ doc \in Baselines
            /\ ov \in [Objects -> Entry] /\ overlay \in [Objects -> Entry]
            /\ baseline \in Baselines /\ revision \in Nat
        BY StateAssumption DEF mutate, Edit, IndInv, TypeOK
      <3>2. /\ current'.gen[t] = Generation(current, MergeAll(doc, ov),
                                            current'.creds[t], revision + 1, t)
            /\ MergeAll(doc, ov)[t] = Merge(doc, ov, t)
            /\ current.objects[t] = Merge(baseline, overlay, t)
        BY <2>0, PublishFacts DEF IndInv, PublishedIsMerge, MergeAll
      <3>3. ASSUME ov[t] # overlay[t],
                   SameIncarnation(current, MergeAll(doc, ov), current'.creds[t], t),
                   MergeAll(doc, ov)[t].source # "none"
            PROVE  FALSE
        <4>1. CASE ov[t].state = "live"
          <5>1. ov[t].updated = revision + 1
            BY <3>3, <4>1 DEF Edit
          <5>2. /\ Merge(doc, ov, t).updated = revision + 1
                /\ Merge(doc, ov, t).source \in {"runtime", "override"}
            BY <2>0, <3>1, <4>1, <5>1, MergeType
          <5>3. /\ current.objects[t].updated = revision + 1
                /\ current.objects[t].source \in {"runtime", "override"}
            BY <3>2, <3>3, <5>2 DEF SameIncarnation
          <5>4. overlay[t].state = "live" /\ overlay[t].updated = revision + 1
            BY <2>0, <3>1, <3>2, <5>3, MergeType
          <5> QED BY <3>1, <5>4 DEF IndInv, StampsInPast
        <4>2. CASE ov[t].state # "live"
          <5>1. Merge(doc, ov, t).source = "config"
            BY <2>0, <3>1, <3>2, <3>3, <4>2, MergeType
          <5>2. Merge(baseline, overlay, t).source = "config"
            BY <3>2, <3>3, <5>1 DEF SameIncarnation
          <5> QED BY <2>0, <3>1, <3>3, <5>1, <5>2, MergeType
        <4> QED BY <4>1, <4>2
      <3>4. current.gen[t] \in Nat /\ current.gen[t] <= revision
        BY DEF IndInv, TypeOK, Snapshot, StampsInPast
      <3>5. ASSUME ov[t] # overlay[t]
            PROVE  current'.gen[t] # current.gen[t] \/ current'.gen[t] = 0
        BY <3>1, <3>2, <3>3, <3>4, <3>5 DEF Generation
      <3>6. ASSUME ov[t] = overlay[t], doc.objects[t] = baseline.objects[t],
                   current'.creds[t] = current.creds[t]
            PROVE  current'.gen[t] = current.gen[t]
        <4>1. Merge(doc, ov, t) = current.objects[t]
          BY <3>2, <3>6 DEF Merge, InBase
        <4>2. CASE current.objects[t].source = "none"
          BY <3>2, <4>1, <4>2 DEF Generation, IndInv, StampsInPast
        <4>3. CASE current.objects[t].source # "none"
          BY <3>2, <3>6, <4>1, <4>3 DEF Generation, SameIncarnation
        <4> QED BY <4>2, <4>3
      <3> QED BY <3>1, <3>5, <3>6
    <2>2. CASE UNCHANGED <<overlay, current>>
      BY <2>2
    <2> QED
      BY <2>1, <2>2, StepShape
      DEF IndInv, LoadSnapshot, RotateFile, managerVars, vars
  <1> QED BY <1>1, Inductive, PTL DEF Spec, GenerationFollowsToken

-----------------------------------------------------------------------------
(* The control plane: its inductive invariant.                             *)

Session == [token: Tokens, lapsed: BOOLEAN, gen: Nat \ {0}]
Issue == [token: Tokens, cred: Creds \cup {NoCred}, data: Data \cup {NoData}]
Request ==
  {Idle}
  \cup [phase: {"cookie"}, token: {NoToken}, session: SessionIds, gen: {0}]
  \cup [phase: {"admitted", "stream"}, token: Tokens,
        session: SessionIds \cup {NoSession}, gen: Nat]

SessionsTypeOK ==
  /\ sessions \in [SessionIds -> Session \cup {NoRec}]
  /\ issued \in [SessionIds -> Issue \cup {NoRec}]
  /\ req \in [Readers -> Request]
  /\ pending \in [Handlers -> Tokens \cup {NoToken}]

(* What a token was granted, in a snapshot.                                *)
Grant(snap, t) == [token |-> t, cred |-> snap.creds[t], data |-> snap.objects[t].val.data]

(* Any two requests that hold one generation hold one grant, also when     *)
(* neither of them holds the published snapshot.                           *)
HeldAgree ==
  \A q, r \in Readers, t \in Tokens :
    held[q].gen[t] = held[r].gen[t] /\ held[q].gen[t] # 0
      => Grant(held[q], t) = Grant(held[r], t)

(* Where the generation of a session is found, so is the grant of its      *)
(* creator.                                                                *)
SpeaksIn(snap, s) ==
  snap.gen[sessions[s].token] = sessions[s].gen => issued[s] = Grant(snap, sessions[s].token)

RecordsBound ==
  \A s \in SessionIds : sessions[s] # NoRec =>
    /\ issued[s] # NoRec
    /\ sessions[s].gen <= revision
    /\ SpeaksIn(current, s)
    /\ \A r \in Readers : SpeaksIn(held[r], s)

(* A request that names a session loaded its snapshot after the session    *)
(* was issued: if the session is of the current generation, so is the      *)
(* snapshot.                                                               *)
LoadedAfterIssue ==
  \A r \in Readers :
    LET s == req[r].session
    IN  s # NoSession =>
          /\ issued[s] # NoRec
          /\ sessions[s] # NoRec /\ sessions[s].gen = current.gen[sessions[s].token]
               => held[r].gen[sessions[s].token] = sessions[s].gen

ControlInv ==
  /\ SessionsTypeOK
  /\ HeldAgree
  /\ RecordsBound
  /\ LoadedAfterIssue
  /\ CookieSpeaksForBearer

-----------------------------------------------------------------------------
(* Steps of the state manager.                                             *)

(* Every step of the control plane is a step of the manager, or leaves all *)
(* of it alone.                                                            *)
LEMMA ControlStep ==
  ASSUME ControlNext
  PROVE  Next \/ UNCHANGED vars
  <1>1. AnyRevision \in Expected
    BY DEF Expected
  <1>2. ASSUME NEW r \in Readers, RequestStep(r) PROVE Next \/ UNCHANGED vars
    <2>1. ASSUME NEW c \in Creds, VerifyBearer(r, c) PROVE LoadSnapshot(r)
      BY <2>1 DEF VerifyBearer, LoadSnapshot
    <2>2. ASSUME NEW s \in SessionIds, PresentCookie(r, s) PROVE LoadSnapshot(r)
      BY <2>2 DEF PresentCookie, LoadSnapshot
    <2>3. ASSUME \/ VerifyCookie(r) \/ GetSession(r) \/ DeleteSession(r)
                 \/ FinishRequest(r) \/ OpenStream(r) \/ StreamCheck(r)
                 \/ \E s \in SessionIds : CreateSession(r, s)
          PROVE  UNCHANGED vars
      BY <2>3 DEF VerifyCookie, GetSession, DeleteSession, FinishRequest, OpenStream,
                  StreamCheck, CreateSession
    <2> QED BY <1>2, <2>1, <2>2, <2>3 DEF RequestStep, Next
  <1>3. ASSUME NEW h \in Handlers, HandlerStep(h) PROVE Next \/ UNCHANGED vars
    <2>1. ASSUME NEW t \in Tokens, NEW d \in Data, NEW c \in Creds, NEW override \in BOOLEAN,
                 TokensCreate(h, t, d, c, override)
          PROVE  TokenStep(AnyRevision)
      BY <2>1 DEF TokensCreate, TokenStep
    <2>2. ASSUME NEW t \in Tokens, NEW tombstone \in BOOLEAN, TokensRevoke(h, t, tombstone)
          PROVE  TokenStep(AnyRevision)
      BY <2>2 DEF TokensRevoke, TokenStep
    <2>3. ASSUME Forget(h) PROVE UNCHANGED vars
      BY <2>3 DEF Forget
    <2> QED BY <1>1, <1>3, <2>1, <2>2, <2>3 DEF HandlerStep, Next
  <1>4. ASSUME Rebase PROVE Next
    BY <1>1, <1>4 DEF Rebase, Next
  <1>5. ASSUME NEW t \in Tokens, NEW c \in Creds \cup {NoCred}, RotateTokenFile(t, c)
        PROVE  Next
    BY <1>5 DEF RotateTokenFile, Next
  <1>6. ASSUME NEW s \in SessionIds, Lapse(s) PROVE UNCHANGED vars
    BY <1>6 DEF Lapse
  <1>7. ASSUME NEW d \in Data, GrantExpires(d) PROVE UNCHANGED vars
    BY <1>7 DEF GrantExpires
  <1> QED BY <1>2, <1>3, <1>4, <1>5, <1>6, <1>7 DEF ControlNext

(* The control plane drives the state manager by its specification: what   *)
(* is proved of the manager holds under sessions, streams and handlers.    *)
THEOREM ControlRefinesManager == ControlSpec => Spec
  <1>1. ControlInit => Init
    BY DEF ControlInit
  <1>2. [ControlNext]_allVars => [Next]_vars
    BY ControlStep DEF allVars
  <1> QED BY <1>1, <1>2, PTL DEF ControlSpec, Spec

(* A generation of the past that is current after a step was current       *)
(* before it, with the same grant.                                         *)
LEMMA GenerationKept ==
  ASSUME IndInv, [Next]_vars, NEW t \in Tokens,
         current'.gen[t] # 0, current'.gen[t] <= revision
  PROVE  current.gen[t] = current'.gen[t] /\ Grant(current', t) = Grant(current, t)
  <1>1. CASE Publishes
    <2> PICK e, doc, ov, bag : Edit(doc, ov, bag) /\ mutate(e, doc, ov, bag)
      BY <1>1 DEF Publishes
    <2>1. /\ current'.objects = MergeAll(doc, ov)
          /\ current'.gen[t] = Generation(current, MergeAll(doc, ov),
                                          current'.creds[t], revision + 1, t)
      BY PublishFacts DEF IndInv
    <2>2. revision \in Nat
      BY StateAssumption DEF IndInv, TypeOK
    <2>3. SameIncarnation(current, MergeAll(doc, ov), current'.creds[t], t)
      BY <2>1, <2>2 DEF Generation
    <2> QED BY <2>1, <2>2, <2>3 DEF Generation, SameIncarnation, Grant
  <1>2. CASE UNCHANGED current
    BY <1>2 DEF Grant
  <1> QED BY <1>1, <1>2, StepShape DEF IndInv, LoadSnapshot, RotateFile, managerVars, vars

LEMMA RevisionGrows ==
  ASSUME IndInv, [Next]_vars
  PROVE  revision \in Nat /\ revision' \in Nat /\ revision <= revision'
  <1>0. revision \in Nat
    BY StateAssumption DEF IndInv, TypeOK
  <1>1. CASE Publishes
    BY <1>0, <1>1 DEF Publishes, mutate
  <1>2. CASE UNCHANGED revision
    BY <1>0, <1>2
  <1> QED BY <1>1, <1>2, StepShape DEF IndInv, LoadSnapshot, RotateFile, managerVars, vars

-----------------------------------------------------------------------------
(* The invariant is preserved: by the manager ...                          *)

LEMMA ManagerPreserves ==
  ASSUME IndInv, ControlInv, [Next]_vars, UNCHANGED <<held, sessions, issued, req>>,
         pending' \in [Handlers -> Tokens \cup {NoToken}]
  PROVE  ControlInv'
  <1>1. SessionsTypeOK' /\ HeldAgree' /\ CookieSpeaksForBearer'
    BY DEF ControlInv, SessionsTypeOK, HeldAgree, Grant, CookieSpeaksForBearer
  <1>2. ASSUME NEW s \in SessionIds, sessions[s] # NoRec
        PROVE  /\ sessions[s].token \in Tokens /\ sessions[s].gen \in Nat \ {0}
               /\ current'.gen[sessions[s].token] = sessions[s].gen
                    => /\ current.gen[sessions[s].token] = sessions[s].gen
                       /\ Grant(current', sessions[s].token) = Grant(current, sessions[s].token)
    <2>1. sessions[s] \in Session /\ sessions[s].gen <= revision
      BY <1>2 DEF ControlInv, SessionsTypeOK, RecordsBound
    <2> QED BY <2>1, GenerationKept DEF Session
  <1>3. RecordsBound'
    <2> SUFFICES ASSUME NEW s \in SessionIds, sessions[s] # NoRec
                 PROVE  /\ issued[s] # NoRec
                        /\ sessions[s].gen <= revision'
                        /\ SpeaksIn(current, s)'
                        /\ \A r \in Readers : SpeaksIn(held[r], s)'
      BY DEF RecordsBound
    <2>1. /\ issued[s] # NoRec /\ sessions[s].gen <= revision
          /\ SpeaksIn(current, s) /\ \A r \in Readers : SpeaksIn(held[r], s)
      BY DEF ControlInv, RecordsBound
    <2>2. sessions[s].gen <= revision'
      BY <1>2, <2>1, RevisionGrows
    <2>3. SpeaksIn(current, s)'
      BY <1>2, <2>1 DEF SpeaksIn
    <2>4. \A r \in Readers : SpeaksIn(held[r], s)'
      BY <2>1 DEF SpeaksIn, Grant
    <2> QED BY <2>1, <2>2, <2>3, <2>4
  <1>4. LoadedAfterIssue'
    <2> SUFFICES ASSUME NEW r \in Readers, req[r].session # NoSession
                 PROVE  LET s == req[r].session
                        IN /\ issued[s] # NoRec
                           /\ sessions[s] # NoRec /\ sessions[s].gen = current'.gen[sessions[s].token]
                                => held[r].gen[sessions[s].token] = sessions[s].gen
      BY DEF LoadedAfterIssue
    <2>1. req[r].session \in SessionIds
      BY DEF ControlInv, SessionsTypeOK, Request, Idle
    <2> QED BY <1>2, <2>1 DEF ControlInv, LoadedAfterIssue
  <1> QED BY <1>1, <1>3, <1>4 DEF ControlInv

(* ... by a request that loads the snapshot ...                            *)
LEMMA RequestBegins ==
  ASSUME IndInv, ControlInv, NEW r \in Readers, NEW q \in Request, LoadSnapshot(r),
         req' = [req EXCEPT ![r] = q], UNCHANGED <<sessions, issued, pending>>,
         q.session # NoSession => q.phase # "admitted" /\ issued[q.session] # NoRec
  PROVE  ControlInv'
  <1>1. /\ UNCHANGED <<current, revision, sessions, issued, pending>>
        /\ held' = [held EXCEPT ![r] = current] /\ held \in [Readers -> Snapshot]
        /\ req \in [Readers -> Request]
    BY DEF LoadSnapshot, managerVars, IndInv, TypeOK, ControlInv, SessionsTypeOK
  <1>2. /\ held'[r] = current /\ req'[r] = q
        /\ \A p \in Readers : p # r => held'[p] = held[p] /\ req'[p] = req[p]
    BY <1>1
  <1>3. SessionsTypeOK'
    BY <1>1 DEF ControlInv, SessionsTypeOK
  <1>4. HeldAgree'
    <2> SUFFICES ASSUME NEW p1 \in Readers, NEW p2 \in Readers, NEW t \in Tokens,
                        held'[p1].gen[t] = held'[p2].gen[t], held'[p1].gen[t] # 0
                 PROVE  Grant(held'[p1], t) = Grant(held'[p2], t)
      BY DEF HeldAgree, Grant
    <2>1. \A p \in Readers : held[p].gen[t] = current.gen[t] /\ current.gen[t] # 0
            => Grant(held[p], t) = Grant(current, t)
      BY DEF IndInv, GenerationIdentifiesGrant, Grant
    <2>2. CASE p1 # r /\ p2 # r
      BY <1>2, <2>2 DEF ControlInv, HeldAgree
    <2>3. CASE p1 = r \/ p2 = r
      BY <1>2, <2>1, <2>3
    <2> QED BY <2>2, <2>3
  <1>5. RecordsBound'
    <2> SUFFICES ASSUME NEW s \in SessionIds, sessions[s] # NoRec
                 PROVE  \A p \in Readers : SpeaksIn(held[p], s)'
      BY <1>1 DEF RecordsBound, ControlInv, SpeaksIn, Grant
    <2>1. SpeaksIn(current, s) /\ \A p \in Readers : SpeaksIn(held[p], s)
      BY DEF ControlInv, RecordsBound
    <2> QED BY <1>1, <1>2, <2>1 DEF SpeaksIn, Grant
  <1>6. LoadedAfterIssue'
    BY <1>1, <1>2 DEF ControlInv, LoadedAfterIssue
  <1>7. CookieSpeaksForBearer'
    BY <1>1, <1>2 DEF ControlInv, CookieSpeaksForBearer
  <1> QED BY <1>3, <1>4, <1>5, <1>6, <1>7 DEF ControlInv

(* ... by a step that only takes records away or lets them lapse, and that *)
(* gives at most one request a new state ...                               *)
Shrinks ==
  \A s \in SessionIds : sessions'[s] # NoRec =>
    /\ sessions[s] # NoRec
    /\ sessions'[s].token = sessions[s].token /\ sessions'[s].gen = sessions[s].gen

LEMMA TableShrinks ==
  ASSUME IndInv, ControlInv, UNCHANGED <<vars, issued>>, SessionsTypeOK', Shrinks,
         NEW r, \A p \in Readers \ {r} : req'[p] = req[p],
         r \in Readers => \/ req'[r].session = NoSession
                          \/ /\ req'[r].session = req[r].session
                             /\ req'[r].phase = "admitted" =>
                                  /\ issued[req[r].session] = Grant(held[r], req'[r].token)
  PROVE  ControlInv'
  <1>1. UNCHANGED <<current, held, revision>>
    BY DEF vars
  <1>2. HeldAgree'
    BY <1>1 DEF ControlInv, HeldAgree, Grant
  <1>3. RecordsBound'
    BY <1>1 DEF ControlInv, RecordsBound, SpeaksIn, Grant, Shrinks
  <1>4. LoadedAfterIssue'
    <2> SUFFICES ASSUME NEW p \in Readers, req'[p].session # NoSession
                 PROVE  LET s == req'[p].session
                        IN /\ issued[s] # NoRec
                           /\ sessions'[s] # NoRec
                                /\ sessions'[s].gen = current.gen[sessions'[s].token]
                                => held[p].gen[sessions'[s].token] = sessions'[s].gen
      BY <1>1 DEF LoadedAfterIssue
    <2>1. req'[p].session = req[p].session /\ req[p].session \in SessionIds
      BY DEF ControlInv, SessionsTypeOK, Request, Idle
    <2> QED BY <2>1 DEF ControlInv, LoadedAfterIssue, Shrinks
  <1>5. CookieSpeaksForBearer'
    <2> SUFFICES ASSUME NEW p \in Readers, req'[p].phase = "admitted", req'[p].session # NoSession
                 PROVE  /\ issued[req'[p].session].token = req'[p].token
                        /\ issued[req'[p].session].cred = held[p].creds[req'[p].token]
                        /\ issued[req'[p].session].data = held[p].objects[req'[p].token].val.data
      BY <1>1 DEF CookieSpeaksForBearer
    <2>1. CASE p = r
      BY <2>1 DEF Grant
    <2>2. CASE p # r
      BY <2>2 DEF ControlInv, CookieSpeaksForBearer
    <2> QED BY <2>1, <2>2
  <1> QED BY <1>2, <1>3, <1>4, <1>5 DEF ControlInv

(* Service.Get takes away at most the record it was asked for.             *)
LEMMA EvictShrinks ==
  ASSUME SessionsTypeOK, NEW s \in SessionIds, NEW snap
  PROVE  /\ Evict(s, snap) \in [SessionIds -> Session \cup {NoRec}]
         /\ \A x \in SessionIds : Evict(s, snap)[x] \in {sessions[x], NoRec}
         /\ \A x \in SessionIds : Evict(s, snap)[x] # sessions[x]
              => x = s /\ ~Honoured(sessions[s], snap)
  BY DEF Evict, SessionsTypeOK

LEMMA ReqTypes ==
  ASSUME SessionsTypeOK, NEW r \in Readers
  PROVE  /\ req[r].phase \in {"idle", "cookie", "admitted", "stream"}
         /\ req[r].session \in SessionIds \cup {NoSession}
         /\ req[r].phase = "cookie" => req[r].session \in SessionIds
         /\ req[r].phase \in {"admitted", "stream"} => req[r].token \in Tokens /\ req[r].gen \in Nat
         /\ req[r].phase = "admitted" => [req[r] EXCEPT !.phase = "stream"] \in Request
         /\ Idle \in Request /\ Idle.session = NoSession
         /\ NoSession \notin SessionIds
  <1>1. req[r] \in Request
    BY DEF SessionsTypeOK
  <1> QED BY <1>1, SessionAssumption DEF Request, Idle

(* ... by every step of a request ...                                      *)
LEMMA RequestPreserves ==
  ASSUME IndInv, ControlInv, NEW r \in Readers, RequestStep(r)
  PROVE  ControlInv'
  <1>0. /\ SessionsTypeOK /\ TypeOK /\ RecordsBound
        /\ \A t \in Tokens, x \in {current, held[r]} :
             /\ x.gen[t] \in Nat /\ x.creds[t] \in Creds \cup {NoCred}
             /\ x.objects[t].val.data \in Data \cup {NoData}
    <2>1. current \in Snapshot /\ held[r] \in Snapshot
      BY DEF IndInv, TypeOK
    <2>2. ASSUME NEW t \in Tokens, NEW x \in Snapshot
          PROVE  /\ x.gen[t] \in Nat /\ x.creds[t] \in Creds \cup {NoCred}
                 /\ x.objects[t].val.data \in Data \cup {NoData}
      <3>1. x.objects[t] \in Effective
        BY DEF Snapshot, Objects
      <3>2. x.gen[t] \in Nat /\ x.creds[t] \in Creds \cup {NoCred}
        BY DEF Snapshot
      <3> QED BY <3>1, <3>2 DEF Effective, NoObject, NoValue, Value
    <2> QED BY <2>1, <2>2 DEF ControlInv, IndInv
  <1>1. ASSUME NEW c \in Creds, VerifyBearer(r, c) PROVE ControlInv'
    <2> PICK t \in Tokens :
          req' = [req EXCEPT ![r] = [phase |-> "admitted", token |-> t,
                                     session |-> NoSession, gen |-> current.gen[t]]]
      BY <1>1 DEF VerifyBearer
    <2> DEFINE q == [phase |-> "admitted", token |-> t, session |-> NoSession,
                     gen |-> current.gen[t]]
    <2>1. q \in Request /\ q.session = NoSession /\ req' = [req EXCEPT ![r] = q]
      BY <1>0 DEF Request
    <2>2. LoadSnapshot(r) /\ UNCHANGED <<sessions, issued, pending>>
      BY <1>1 DEF VerifyBearer, LoadSnapshot
    <2> HIDE DEF q
    <2> QED BY <2>1, <2>2, RequestBegins
  <1>2. ASSUME NEW s \in SessionIds, PresentCookie(r, s) PROVE ControlInv'
    <2> DEFINE q == [Idle EXCEPT !.phase = "cookie", !.session = s]
    <2>1. /\ q \in Request /\ q.phase = "cookie" /\ q.session = s
          /\ req' = [req EXCEPT ![r] = q] /\ issued[s] # NoRec
      BY <1>2 DEF Request, PresentCookie, Idle
    <2>2. LoadSnapshot(r) /\ UNCHANGED <<sessions, issued, pending>>
      BY <1>2 DEF PresentCookie, LoadSnapshot
    <2> HIDE DEF q
    <2> QED BY <2>1, <2>2, RequestBegins
  <1>3. ASSUME UNCHANGED <<vars, issued, pending>>, NEW q \in Request,
               req' = [req EXCEPT ![r] = q],
               NEW snap, NEW s \in SessionIds, sessions' \in {sessions, Evict(s, snap)},
               \/ q.session = NoSession
               \/ /\ q.session = req[r].session
                  /\ q.phase = "admitted" => issued[q.session] = Grant(held[r], q.token)
        PROVE  ControlInv'
    <2>1. SessionsTypeOK' /\ req'[r] = q /\ \A p \in Readers \ {r} : req'[p] = req[p]
      BY <1>0, <1>3, EvictShrinks DEF SessionsTypeOK
    <2>2. Shrinks
      BY <1>0, <1>3, EvictShrinks DEF Shrinks
    <2> QED BY <1>3, <2>1, <2>2, TableShrinks
  <1>4. ASSUME VerifyCookie(r) PROVE ControlInv'
    <2> DEFINE s == req[r].session
               t == sessions[s].token
               q == IF Found(s, held[r])
                    THEN [phase |-> "admitted", token |-> t, session |-> s,
                          gen |-> held[r].gen[t]]
                    ELSE Idle
    <2>1. /\ s \in SessionIds /\ sessions' = Evict(s, held[r])
          /\ req' = [req EXCEPT ![r] = q] /\ UNCHANGED <<vars, issued, pending>>
      BY <1>0, <1>4, ReqTypes DEF VerifyCookie
    <2>2. CASE Found(s, held[r])
      <3>1. /\ sessions[s] \in Session /\ sessions[s].gen = held[r].gen[t]
            /\ sessions[s] # NoRec
        BY <1>0, <2>1, <2>2 DEF Found, Honoured, SessionsTypeOK
      <3>2. issued[s] = Grant(held[r], t)
        BY <1>0, <2>1, <3>1 DEF RecordsBound, SpeaksIn
      <3>3. q \in Request /\ q.session = s /\ q.token = t
        BY <1>0, <2>1, <2>2, <3>1 DEF Request, Session
      <3> QED BY <1>3, <2>1, <3>2, <3>3
    <2>3. CASE ~Found(s, held[r])
      BY <1>0, <1>3, <2>1, <2>3, ReqTypes
    <2> QED BY <2>2, <2>3
  <1>5. ASSUME GetSession(r) PROVE ControlInv'
    BY <1>0, <1>3, <1>5, ReqTypes DEF GetSession
  <1>6. ASSUME DeleteSession(r) PROVE ControlInv'
    <2>1. /\ req[r].session \in SessionIds
          /\ sessions' = [sessions EXCEPT ![req[r].session] = NoRec]
          /\ req' = [req EXCEPT ![r] = Idle] /\ UNCHANGED <<vars, issued, pending>>
      BY <1>0, <1>6, ReqTypes DEF DeleteSession
    <2>2. SessionsTypeOK' /\ Shrinks /\ req'[r] = Idle
          /\ \A p \in Readers \ {r} : req'[p] = req[p]
      BY <1>0, <2>1, ReqTypes DEF SessionsTypeOK, Shrinks
    <2> QED BY <1>0, <2>1, <2>2, ReqTypes, TableShrinks
  <1>7. ASSUME FinishRequest(r) PROVE ControlInv'
    <2>1. /\ sessions' = sessions
          /\ req' = [req EXCEPT ![r] = Idle] /\ UNCHANGED <<vars, issued, pending>>
      BY <1>7 DEF FinishRequest
    <2>2. SessionsTypeOK' /\ Shrinks /\ req'[r] = Idle
          /\ \A p \in Readers \ {r} : req'[p] = req[p]
      BY <1>0, <2>1, ReqTypes DEF SessionsTypeOK, Shrinks
    <2> QED BY <1>0, <2>1, <2>2, ReqTypes, TableShrinks
  <1>8. ASSUME OpenStream(r) \/ StreamCheck(r) PROVE ControlInv'
    <2> DEFINE stream == [req[r] EXCEPT !.phase = "stream"]
    <2>1. /\ sessions' = RevalidateEvicts(req[r]) /\ UNCHANGED <<vars, issued, pending>>
          /\ \/ req' = [req EXCEPT ![r] = Idle]
             \/ req[r].phase = "admitted" /\ req' = [req EXCEPT ![r] = stream]
      BY <1>8 DEF OpenStream, StreamCheck
    <2>2. /\ Idle \in Request /\ Idle.session = NoSession /\ Idle.phase # "admitted"
          /\ req[r].phase = "admitted" =>
               stream \in Request /\ stream.phase # "admitted" /\ stream.session = req[r].session
      <3>1. req[r] \in Request
        BY <1>0 DEF SessionsTypeOK
      <3>2. CASE req[r].phase = "admitted"
        BY <3>1, <3>2 DEF Idle, Request
      <3> QED BY <3>2 DEF Idle, Request
    <2> HIDE DEF stream
    <2>3. PICK next \in Request :
            /\ next.phase # "admitted" /\ next.session \in {NoSession, req[r].session}
            /\ req' = [req EXCEPT ![r] = next]
      BY <2>1, <2>2
    <2>4. \/ sessions' = sessions
          \/ req[r].session \in SessionIds /\ sessions' = Evict(req[r].session, current)
      BY <1>0, <2>1, ReqTypes DEF RevalidateEvicts
    <2>5. CASE req[r].session \in SessionIds /\ sessions' = Evict(req[r].session, current)
      BY <1>3, <2>1, <2>3, <2>5
    <2>6. CASE sessions' = sessions
      <3>1. SessionsTypeOK' /\ Shrinks /\ req'[r] = next
            /\ \A p \in Readers \ {r} : req'[p] = req[p]
        BY <1>0, <2>1, <2>3, <2>6 DEF SessionsTypeOK, Shrinks
      <3> QED BY <2>1, <2>3, <3>1, TableShrinks
    <2> QED BY <2>4, <2>5, <2>6
  <1>9. ASSUME NEW s \in SessionIds, CreateSession(r, s) PROVE ControlInv'
    <2> DEFINE t == req[r].token
               rec == [token |-> t, lapsed |-> FALSE, gen |-> held[r].gen[t]]
               grant == Grant(held[r], t)
    <2>1. /\ t \in Tokens /\ held[r].gen[t] \in Nat \ {0} /\ issued[s] = NoRec
          /\ req' = [req EXCEPT ![r] = Idle] /\ UNCHANGED <<vars, pending>>
          /\ \/ sessions' = Swept /\ issued' = issued
             \/ sessions' = [Swept EXCEPT ![s] = rec] /\ issued' = [issued EXCEPT ![s] = grant]
      BY <1>0, <1>9, ReqTypes DEF CreateSession, Grant
    <2>2. /\ rec \in Session /\ grant \in Issue /\ rec # NoRec /\ grant # NoRec
          /\ rec.token = t /\ rec.gen = held[r].gen[t]
      <3>1. rec \in Session /\ rec \in [token: Tokens, lapsed: BOOLEAN, gen: Nat]
        BY <2>1 DEF Session
      <3>2. grant \in Issue
        BY <1>0, <2>1 DEF Issue, Grant
      <3> QED BY <3>1, <3>2, SessionAssumption DEF Issue
    <2> HIDE DEF rec
    <2>3. /\ Swept \in [SessionIds -> Session \cup {NoRec}]
          /\ \A x \in SessionIds : Swept[x] \in {sessions[x], NoRec}
      BY <1>0 DEF Swept, SessionsTypeOK
    <2>4. req'[r] = Idle /\ \A p \in Readers \ {r} : req'[p] = req[p]
      BY <1>0, <2>1 DEF SessionsTypeOK
    <2>5. UNCHANGED <<current, held, revision>>
      BY <2>1 DEF vars
    <2>6. CASE sessions' = Swept /\ issued' = issued
      <3>1. SessionsTypeOK' /\ Shrinks
        BY <1>0, <2>1, <2>3, <2>6, ReqTypes DEF SessionsTypeOK, Shrinks
      <3> QED BY <1>0, <2>1, <2>4, <2>6, <3>1, ReqTypes, TableShrinks
    <2>7. CASE sessions' = [Swept EXCEPT ![s] = rec] /\ issued' = [issued EXCEPT ![s] = grant]
      <3>1. /\ sessions'[s] = rec /\ issued'[s] = grant /\ sessions[s] = NoRec
            /\ \A x \in SessionIds \ {s} : issued'[x] = issued[x] /\ sessions'[x] \in {sessions[x], NoRec}
        BY <1>0, <2>1, <2>3, <2>7 DEF SessionsTypeOK, RecordsBound
      <3>2. SessionsTypeOK'
        BY <1>0, <2>1, <2>2, <2>3, <2>7, ReqTypes DEF SessionsTypeOK
      <3>3. HeldAgree'
        BY <2>5 DEF ControlInv, HeldAgree, Grant
      <3>4. RecordsBound'
        <4> SUFFICES ASSUME NEW x \in SessionIds, sessions'[x] # NoRec
                     PROVE  /\ issued'[x] # NoRec
                            /\ sessions'[x].gen <= revision
                            /\ SpeaksIn(current, x)'
                            /\ \A p \in Readers : SpeaksIn(held[p], x)'
          BY <2>5 DEF RecordsBound
        <4>1. CASE x = s
          <5>1. sessions'[x].gen <= revision
            BY <2>1, <2>2, <3>1, <4>1 DEF IndInv, StampsInPast
          <5>2. \A p \in Readers : held[p].gen[t] = held[r].gen[t] => Grant(held[p], t) = grant
            BY <2>1 DEF ControlInv, HeldAgree
          <5>3. current.gen[t] = held[r].gen[t] => Grant(current, t) = grant
            BY <2>1 DEF IndInv, GenerationIdentifiesGrant, Grant
          <5>4. SpeaksIn(current, x)' /\ \A p \in Readers : SpeaksIn(held[p], x)'
            BY <2>2, <2>5, <3>1, <4>1, <5>2, <5>3 DEF SpeaksIn, Grant
          <5> QED BY <2>2, <3>1, <4>1, <5>1, <5>4
        <4>2. CASE x # s
          <5>1. sessions'[x] = sessions[x] /\ issued'[x] = issued[x]
            BY <3>1, <4>2
          <5> QED BY <1>0, <2>5, <5>1 DEF RecordsBound, SpeaksIn, Grant
        <4> QED BY <4>1, <4>2
      <3>5. ASSUME NEW p \in Readers, req'[p].session # NoSession
            PROVE  /\ p # r /\ req'[p] = req[p] /\ req[p].session \in SessionIds \ {s}
                   /\ issued[req[p].session] # NoRec
        BY <1>0, <2>1, <2>4, <3>5, ReqTypes DEF ControlInv, LoadedAfterIssue
      <3>6. LoadedAfterIssue'
        BY <2>5, <3>1, <3>5 DEF ControlInv, LoadedAfterIssue
      <3>7. CookieSpeaksForBearer'
        BY <2>5, <3>1, <3>5 DEF ControlInv, CookieSpeaksForBearer
      <3> QED BY <3>2, <3>3, <3>4, <3>6, <3>7 DEF ControlInv
    <2> QED BY <2>1, <2>6, <2>7
  <1> QED BY <1>1, <1>2, <1>4, <1>5, <1>6, <1>7, <1>8, <1>9 DEF RequestStep

(* ... and by the handlers, by time and by everything else.                *)
LEMMA ControlPreserves ==
  ASSUME IndInv, ControlInv, [ControlNext]_allVars
  PROVE  ControlInv'
  <1>0. SessionsTypeOK /\ [Next]_vars
    BY ControlStep DEF ControlInv, allVars
  <1>1. ASSUME NEW r \in Readers, RequestStep(r) PROVE ControlInv'
    BY <1>1, RequestPreserves
  <1>2. ASSUME UNCHANGED <<held, sessions, issued, req>>,
               pending' \in [Handlers -> Tokens \cup {NoToken}]
        PROVE  ControlInv'
    BY <1>0, <1>2, ManagerPreserves
  <1>3. ASSUME UNCHANGED <<vars, issued, req>>, Shrinks, SessionsTypeOK' PROVE ControlInv'
    <2>1. CASE Readers = {}
      BY <1>3, <2>1, TableShrinks
    <2>2. ASSUME NEW r \in Readers PROVE ControlInv'
      <3>1. req[r].phase = "admitted" /\ req[r].session # NoSession
              => issued[req[r].session] = Grant(held[r], req[r].token)
        <4>1. ASSUME req[r].phase = "admitted", req[r].session # NoSession
              PROVE  /\ issued[req[r].session] \in Issue
                     /\ issued[req[r].session].token = req[r].token
                     /\ issued[req[r].session].cred = held[r].creds[req[r].token]
                     /\ issued[req[r].session].data = held[r].objects[req[r].token].val.data
          BY <1>0, <4>1, ReqTypes
          DEF ControlInv, CookieSpeaksForBearer, LoadedAfterIssue, SessionsTypeOK
        <4> QED BY <4>1 DEF Grant, Issue
      <3> QED BY <1>3, <3>1, TableShrinks
    <2> QED BY <2>1, <2>2
  <1>4. ASSUME NEW h \in Handlers, HandlerStep(h) PROVE ControlInv'
    <2>1. ASSUME NEW t \in Tokens, NEW d \in Data, NEW c \in Creds, NEW override \in BOOLEAN,
                 TokensCreate(h, t, d, c, override)
          PROVE  ControlInv'
      BY <1>0, <1>2, <2>1 DEF TokensCreate, CreateToken, mutate, SessionsTypeOK
    <2>2. ASSUME NEW t \in Tokens, NEW tombstone \in BOOLEAN, TokensRevoke(h, t, tombstone)
          PROVE  ControlInv'
      BY <1>0, <1>2, <2>2 DEF TokensRevoke, DeleteToken, DeleteObject, mutate, SessionsTypeOK
    <2>3. ASSUME Forget(h) PROVE ControlInv'
      <3>1. Shrinks /\ SessionsTypeOK'
        BY <1>0, <2>3 DEF Forget, Shrinks, SessionsTypeOK
      <3> QED BY <1>3, <2>3, <3>1 DEF Forget
    <2> QED BY <1>4, <2>1, <2>2, <2>3 DEF HandlerStep
  <1>5. ASSUME Rebase PROVE ControlInv'
    BY <1>0, <1>2, <1>5 DEF Rebase, Reload, Reset, mutate, sessionVars, SessionsTypeOK
  <1>6. ASSUME NEW t \in Tokens, NEW c \in Creds \cup {NoCred}, RotateTokenFile(t, c)
        PROVE  ControlInv'
    BY <1>0, <1>2, <1>6 DEF RotateTokenFile, RotateFile, sessionVars, SessionsTypeOK
  <1>7. ASSUME NEW s \in SessionIds, Lapse(s) PROVE ControlInv'
    <2>1. sessions[s] \in Session /\ sessions' = [sessions EXCEPT ![s] = [@ EXCEPT !.lapsed = TRUE]]
      BY <1>0, <1>7 DEF Lapse, SessionsTypeOK
    <2>2. [sessions[s] EXCEPT !.lapsed = TRUE] \in Session
          /\ [sessions[s] EXCEPT !.lapsed = TRUE].token = sessions[s].token
          /\ [sessions[s] EXCEPT !.lapsed = TRUE].gen = sessions[s].gen
      BY <2>1 DEF Session
    <2>3. Shrinks /\ SessionsTypeOK'
      BY <1>0, <1>7, <2>1, <2>2 DEF Lapse, Shrinks, SessionsTypeOK
    <2> QED BY <1>3, <1>7, <2>3 DEF Lapse
  <1>8. ASSUME NEW d \in Data, GrantExpires(d) PROVE ControlInv'
    <2>1. Shrinks /\ SessionsTypeOK'
      BY <1>0, <1>8 DEF GrantExpires, Shrinks, SessionsTypeOK
    <2> QED BY <1>3, <1>8, <2>1 DEF GrantExpires
  <1>9. CASE UNCHANGED allVars
    <2>1. Shrinks /\ SessionsTypeOK'
      BY <1>0, <1>9 DEF allVars, sessionVars, Shrinks, SessionsTypeOK
    <2> QED BY <1>3, <1>9, <2>1 DEF allVars, sessionVars
  <1> QED BY <1>1, <1>4, <1>5, <1>6, <1>7, <1>8, <1>9 DEF ControlNext

LEMMA ControlInitially == ControlInit => ControlInv
  <1> SUFFICES ASSUME ControlInit PROVE ControlInv
    OBVIOUS
  <1>1. SessionsTypeOK
    BY DEF ControlInit, SessionsTypeOK, Request
  <1>2. \A r \in Readers : held[r] = current /\ req[r] = Idle
    BY DEF ControlInit, Init
  <1>3. HeldAgree /\ LoadedAfterIssue /\ CookieSpeaksForBearer
    BY <1>2 DEF HeldAgree, LoadedAfterIssue, CookieSpeaksForBearer, Idle
  <1>4. RecordsBound
    BY DEF ControlInit, RecordsBound
  <1> QED BY <1>1, <1>3, <1>4 DEF ControlInv

(* The invariant holds in every behaviour of the control plane.            *)
THEOREM ControlInductive == ControlSpec => [](IndInv /\ ControlInv)
  <1>1. ControlSpec => []IndInv
    BY ControlRefinesManager, Inductive, PTL
  <1>2. IndInv /\ ControlInv /\ [ControlNext]_allVars => ControlInv'
    BY ControlPreserves
  <1> QED BY <1>1, <1>2, ControlInitially, PTL DEF ControlSpec

(* However creation, revocation, replacement and lookups interleave, a     *)
(* request admitted by a cookie works with the digest and the grant its    *)
(* session was created with (Service.VerifyCookie).                        *)
THEOREM CookiesSpeak == ControlSpec => []CookieSpeaksForBearer
  BY ControlInductive, PTL DEF ControlInv

-----------------------------------------------------------------------------
(* Live sessions are not evicted.                                          *)

(* A request that can still ask for a session does so with a snapshot that *)
(* honours it, if the published one does.                                  *)
LEMMA StaleHonours ==
  ASSUME IndInv, ControlInv, NEW r \in Readers, NEW s \in SessionIds, req[r].session = s,
         sessions[s] # NoRec, Honoured(sessions[s], current)
  PROVE  Honoured(sessions[s], held[r])
  <1>1. sessions[s] \in Session /\ NoSession \notin SessionIds
    BY SessionAssumption DEF ControlInv, SessionsTypeOK
  <1>2. held[r].gen[sessions[s].token] = sessions[s].gen
    BY <1>1 DEF ControlInv, LoadedAfterIssue, Honoured
  <1>3. /\ held[r].objects[sessions[s].token].val.data = current.objects[sessions[s].token].val.data
        /\ held[r].objects[sessions[s].token].source = current.objects[sessions[s].token].source
    BY <1>1, <1>2 DEF IndInv, GenerationIdentifiesGrant, Honoured, Session
  <1> QED BY <1>2, <1>3 DEF Honoured, Usable

(* A request with an outdated snapshot never costs a client its session:   *)
(* one that the published snapshot honours goes away only by logout or     *)
(* because a handler forgets the token (Service.Get, VerifyCookie, Create, *)
(* Revalidate).                                                            *)
THEOREM SessionsSurvive == ControlSpec => EvictedOnlyWhenDead
  <1> DEFINE Survives(s) ==
        LET rec == sessions[s]
        IN  (rec # NoRec /\ sessions'[s] = NoRec /\ Honoured(rec, current))
              => \/ \E r \in Readers : req[r].session = s /\ DeleteSession(r)
                 \/ \E h \in Handlers : pending[h] = rec.token /\ Forget(h)
  <1>1. IndInv /\ ControlInv /\ [ControlNext]_allVars
          => [\A s \in SessionIds : Survives(s)]_allVars
    <2> SUFFICES ASSUME IndInv, ControlInv, ControlNext, NEW s \in SessionIds,
                        sessions[s] # NoRec, sessions'[s] = NoRec, Honoured(sessions[s], current)
                 PROVE  \/ \E r \in Readers : req[r].session = s /\ DeleteSession(r)
                        \/ \E h \in Handlers : pending[h] = sessions[s].token /\ Forget(h)
      OBVIOUS
    <2>0. SessionsTypeOK /\ sessions'[s] # sessions[s]
      BY DEF ControlInv
    <2>1. ASSUME NEW r \in Readers, RequestStep(r), ~DeleteSession(r) PROVE FALSE
      <3>1. ASSUME req[r].session \in SessionIds, NEW snap \in {current, held[r]},
                   sessions' = Evict(req[r].session, snap)
            PROVE  FALSE
        BY <2>0, <3>1, EvictShrinks, StaleHonours
      <3>2. ASSUME VerifyCookie(r) \/ GetSession(r) PROVE FALSE
        BY <2>0, <3>1, <3>2, ReqTypes DEF VerifyCookie, GetSession
      <3>3. ASSUME OpenStream(r) \/ StreamCheck(r) PROVE FALSE
        BY <2>0, <3>1, <3>3, ReqTypes DEF OpenStream, StreamCheck, RevalidateEvicts
      <3>4. ASSUME NEW x \in SessionIds, CreateSession(r, x) PROVE FALSE
        <4>1. Swept[s] = sessions[s]
          BY DEF Swept, Honoured
        <4>2. x # s
          BY <3>4 DEF CreateSession, ControlInv, RecordsBound
        <4> QED BY <2>0, <3>4, <4>1, <4>2 DEF CreateSession, Swept
      <3>5. ASSUME \/ FinishRequest(r)
                   \/ \E c \in Creds : VerifyBearer(r, c)
                   \/ \E x \in SessionIds : PresentCookie(r, x)
            PROVE  FALSE
        BY <2>0, <3>5 DEF FinishRequest, VerifyBearer, PresentCookie
      <3> QED BY <2>1, <3>2, <3>3, <3>4, <3>5 DEF RequestStep
    <2>2. ASSUME NEW r \in Readers, DeleteSession(r) PROVE req[r].session = s
      BY <2>0, <2>2 DEF DeleteSession, SessionsTypeOK
    <2>3. ASSUME NEW h \in Handlers, HandlerStep(h)
          PROVE  pending[h] = sessions[s].token /\ Forget(h)
      <3>1. ASSUME Forget(h) PROVE pending[h] = sessions[s].token
        BY <2>0, <3>1 DEF Forget
      <3> QED BY <2>0, <2>3, <3>1 DEF HandlerStep, TokensCreate, TokensRevoke
    <2>4. ASSUME NEW x \in SessionIds, Lapse(x) PROVE FALSE
      <3>1. sessions[s] \in Session /\ x = s /\ sessions'[s] = [sessions[s] EXCEPT !.lapsed = TRUE]
        BY <2>0, <2>4 DEF Lapse, SessionsTypeOK
      <3> QED BY <3>1, SessionAssumption DEF Session
    <2>5. ASSUME \/ Rebase
                 \/ \E t \in Tokens, c \in Creds \cup {NoCred} : RotateTokenFile(t, c)
                 \/ \E d \in Data : GrantExpires(d)
          PROVE  FALSE
      BY <2>0, <2>5 DEF Rebase, RotateTokenFile, GrantExpires, sessionVars
    <2> QED BY <2>1, <2>2, <2>3, <2>4, <2>5 DEF ControlNext
  <1> QED BY <1>1, ControlInductive, PTL DEF ControlSpec, EvictedOnlyWhenDead

=============================================================================
