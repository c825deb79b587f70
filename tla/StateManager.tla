---------------------------- MODULE StateManager ----------------------------
(***************************************************************************)
(* The state manager of TacLab (internal/state): an immutable YAML         *)
(* baseline, a memory-only overlay of complete objects and tombstones, and *)
(* the effective snapshot compiled from both and published through an      *)
(* atomic pointer.                                                         *)
(*                                                                         *)
(* Every mutation runs Manager.mutate under one lock: check the expected   *)
(* revision, edit a copy of the overlay, prune the secret bag, compile a   *)
(* complete candidate and, only if that succeeds, install it.  A refused   *)
(* mutation changes nothing, so it is no step of this specification: the   *)
(* code's early returns are the guards of the actions.                     *)
(*                                                                         *)
(* Readers (protocol sessions, API requests) load the pointer once and     *)
(* keep the snapshot for as long as they run; `held' is what each of them  *)
(* is still working with.                                                  *)
(***************************************************************************)
EXTENDS Naturals, FiniteSets

CONSTANTS
  Users, Groups, Clients, Tokens,  \* object identities, by kind
  Data,         \* the patchable contents of an object; for a token, its grant
  Creds,        \* bearer token digests
  NoData,       \* contents of an object that does not exist
  NoCred,       \* no digest
  Baselines,    \* the documents a reload can be given
  Readers,      \* protocol sessions and API requests holding a snapshot
  AnyRevision,  \* a request without If-Match / expected_revision
  MaxRevision   \* bound of the model on the number of publications

Objects == Users \cup Groups \cup Clients \cup Tokens

(* The two verifiers a user can replace at run time; the material lives in *)
(* the overlay's secret bag under the key "login:<id>" or "enable:<id>".   *)
Slots == {"login", "enable"}
SecretKeys == Users \X Slots

(* refs: the groups and clients the object names; memory: the verifier     *)
(* slots that point into the secret bag instead of a file; cred: the       *)
(* digest of a token created at run time.                                  *)
Value == [data: Data, refs: SUBSET Objects, memory: SUBSET Slots,
          cred: Creds \cup {NoCred}]
NoValue == [data |-> NoData, refs |-> {}, memory |-> {}, cred |-> NoCred]

(* A baseline: its objects, runtime.allow_shadowing, whether               *)
(* runtime.reload_overlay_behavior is "reset", and max_objects.api_tokens  *)
(* (0: no limit).                                                          *)
Document == [objects: [Objects -> Value \cup {NoValue}],
             shadowing: BOOLEAN, reset: BOOLEAN, cap: Nat]

(* An overlay entry: none, a complete replacement, or a tombstone.         *)
Absent == [state |-> "absent", val |-> NoValue, source |-> "none", updated |-> 0]
Tombstone(rev) ==
  [state |-> "deleted", val |-> NoValue, source |-> "none", updated |-> rev]
LiveEntry == [state: {"live"}, val: Value, source: {"runtime", "override"},
              updated: Nat]
DeadEntry == [state: {"deleted"}, val: {NoValue}, source: {"none"}, updated: Nat]
Entry == {Absent} \cup DeadEntry \cup LiveEntry
newOverlay == [o \in Objects |-> Absent]

(* An object of a snapshot; NoObject when the id is not live.              *)
NoObject == [val |-> NoValue, source |-> "none", updated |-> 0]
Effective == {NoObject} \cup
  [val: Value, source: {"config", "runtime", "override"}, updated: Nat]

Snapshot == [rev: Nat, objects: [Objects -> Effective],
             creds: [Tokens -> Creds \cup {NoCred}], gen: [Tokens -> Nat],
             bag: SUBSET SecretKeys]

ASSUME StateAssumption ==
  /\ NoData \notin Data
  /\ NoCred \notin Creds
  /\ MaxRevision \in Nat \ {0}
  /\ AnyRevision \notin Nat
  /\ Users \cap Tokens = {}
  /\ IsFiniteSet(Tokens)
  /\ Baselines \subseteq Document
  \* YAML has no memory references and no token digests, only file references
  /\ \A d \in Baselines, o \in Objects :
       d.objects[o].memory = {} /\ d.objects[o].cred = NoCred

VARIABLES
  baseline,  \* Manager.baseline
  overlay,   \* Manager.overlay, without the secret bag
  secrets,   \* Manager.overlay.secrets: the keys of the bag
  revision,  \* Manager.revision
  current,   \* Manager.current: the published snapshot
  files,     \* what the bootstrap token files hold now (external)
  held       \* the snapshot each reader loaded

managerVars == <<baseline, overlay, secrets, revision, current>>
vars == <<baseline, overlay, secrets, revision, current, files, held>>

-----------------------------------------------------------------------------
(* Merging baseline and overlay.                                           *)

InBase(doc, o) == doc.objects[o] # NoValue

(* mergeUsers, mergeGroups, mergeClients and mergeTokens: an overlay entry *)
(* replaces the baseline object as a whole, a tombstone hides it.          *)
Merge(doc, ov, o) ==
  IF ov[o].state = "live"
  THEN [val |-> ov[o].val, source |-> ov[o].source, updated |-> ov[o].updated]
  ELSE IF ov[o].state = "absent" /\ InBase(doc, o)
  THEN [val |-> doc.objects[o], source |-> "config", updated |-> 0]
  ELSE NoObject

MergeAll(doc, ov) == [o \in Objects |-> Merge(doc, ov, o)]
LiveIn(objs) == {o \in Objects : objs[o].source # "none"}

(* indexTokenDigests: the digest of a live token is its own when it was    *)
(* created at run time, and otherwise that of the file the baseline names, *)
(* read again at every compilation.                                        *)
UsesFile(doc, ov, t) ==
  /\ Merge(doc, ov, t).source # "none"
  /\ InBase(doc, t)
  /\ ov[t].val.cred = NoCred

TokenCred(doc, ov, t) ==
  IF UsesFile(doc, ov, t) THEN files[t] ELSE ov[t].val.cred

(* Seeded fault: the grant is not compared.                                *)
SameIncarnation_AnyGrant(old, new, cred, t) ==
  /\ old.objects[t].source # "none"
  /\ old.creds[t] = cred
  /\ old.objects[t].source = new[t].source
  /\ new[t].source = "config" \/ old.objects[t].updated = new[t].updated

(* Seeded fault: the overlay entry is not compared.                        *)
SameIncarnation_AnyEntry(old, new, cred, t) ==
  /\ old.objects[t].source # "none"
  /\ old.creds[t] = cred
  /\ old.objects[t].val.data = new[t].val.data
  /\ old.objects[t].source = new[t].source

(* tokenCredential / credentialGeneration: a token keeps its generation    *)
(* only if it was live with the same digest, grant and source, and, when   *)
(* it comes from the overlay, the same entry.                              *)
SameIncarnation(old, new, cred, t) ==
  /\ old.objects[t].source # "none"
  /\ old.creds[t] = cred
  /\ old.objects[t].val.data = new[t].val.data
  /\ old.objects[t].source = new[t].source
  /\ new[t].source = "config" \/ old.objects[t].updated = new[t].updated

(* Seeded fault: generations are counted per token and start again at 1.   *)
Generation_Counter(old, new, cred, rev, t) ==
  IF new[t].source = "none" THEN 0
  ELSE IF SameIncarnation(old, new, cred, t) THEN old.gen[t] ELSE old.gen[t] + 1

Generation(old, new, cred, rev, t) ==
  IF new[t].source = "none" THEN 0
  ELSE IF SameIncarnation(old, new, cred, t) THEN old.gen[t] ELSE rev

(* Seeded fault: material outlives the user it was made for.               *)
Prune_Nothing(ov, bag) == bag

(* pruneOverlaySecrets: keep only what a live overlay user points to.      *)
Prune(ov, bag) ==
  {k \in bag : ov[k[1]].state = "live" /\ k[2] \in ov[k[1]].val.memory}

(* Seeded fault: references are not checked again after a deletion.        *)
Valid_CapOnly(doc, objs) ==
  doc.cap > 0 => Cardinality(LiveIn(objs) \cap Tokens) <= doc.cap

(* config.Validate on the merged document: every group and client that a   *)
(* live object names is live, and the token cap of the candidate baseline  *)
(* holds.                                                                  *)
Valid(doc, objs) ==
  /\ \A o \in LiveIn(objs) : objs[o].val.refs \subseteq LiveIn(objs)
  /\ doc.cap > 0 => Cardinality(LiveIn(objs) \cap Tokens) <= doc.cap

(* Seeded fault: the last token to claim a digest gets it.                 *)
DigestsUsable_LastWins(doc, ov) ==
  \A t \in Tokens : UsesFile(doc, ov, t) => files[t] # NoCred

(* The file of every token that needs it is readable, and no digest is     *)
(* shared by two live tokens (putTokenDigest).                             *)
DigestsUsable(doc, ov) ==
  /\ \A t \in Tokens : UsesFile(doc, ov, t) => files[t] # NoCred
  /\ \A t1, t2 \in Tokens :
       TokenCred(doc, ov, t1) = TokenCred(doc, ov, t2)
         => t1 = t2 \/ TokenCred(doc, ov, t1) = NoCred

Compiles(doc, ov) == Valid(doc, MergeAll(doc, ov)) /\ DigestsUsable(doc, ov)

(* Manager.compile: the candidate snapshot.                                *)
Compile(doc, ov, bag, rev, old) ==
  LET objs == MergeAll(doc, ov)
      creds == [t \in Tokens |-> TokenCred(doc, ov, t)]
  IN  [rev |-> rev, objects |-> objs, creds |-> creds,
       gen |-> [t \in Tokens |-> Generation(old, objs, creds[t], rev, t)],
       bag |-> bag]

NoSnapshot ==
  [rev |-> 0, objects |-> [o \in Objects |-> NoObject],
   creds |-> [t \in Tokens |-> NoCred], gen |-> [t \in Tokens |-> 0], bag |-> {}]

-----------------------------------------------------------------------------
(* The manager starts with a baseline that compiles (New).                 *)
Init ==
  /\ files \in [Tokens -> Creds \cup {NoCred}]
  /\ baseline \in Baselines
  /\ overlay = newOverlay
  /\ secrets = {}
  /\ revision = 1
  /\ Compiles(baseline, newOverlay)
  /\ current = Compile(baseline, newOverlay, {}, 1, NoSnapshot)
  /\ held = [r \in Readers |-> current]

(* Seeded fault: the candidate baseline is compiled but not installed.     *)
mutate_KeepsBaseline(expected, doc, ov, bag) ==
  /\ expected \in {AnyRevision, revision}
  /\ revision < MaxRevision
  /\ Compiles(doc, ov)
  /\ overlay' = ov
  /\ secrets' = Prune(ov, bag)
  /\ revision' = revision + 1
  /\ current' = Compile(doc, ov, Prune(ov, bag), revision + 1, current)
  /\ UNCHANGED <<baseline, files, held>>

(* Seeded fault: the snapshot is published under the old revision.         *)
mutate_SameRevision(expected, doc, ov, bag) ==
  /\ expected \in {AnyRevision, revision}
  /\ revision < MaxRevision
  /\ Compiles(doc, ov)
  /\ baseline' = doc
  /\ overlay' = ov
  /\ secrets' = Prune(ov, bag)
  /\ current' = Compile(doc, ov, Prune(ov, bag), revision, current)
  /\ UNCHANGED <<revision, files, held>>

(* Manager.mutate, for an edit that yields baseline doc, overlay ov and    *)
(* secret bag `bag'.                                                       *)
mutate(expected, doc, ov, bag) ==
  /\ expected \in {AnyRevision, revision}      \* checkRevision
  /\ revision < MaxRevision
  /\ Compiles(doc, ov)
  /\ baseline' = doc
  /\ overlay' = ov
  /\ secrets' = Prune(ov, bag)
  /\ revision' = revision + 1
  /\ current' = Compile(doc, ov, Prune(ov, bag), revision + 1, current)
  /\ UNCHANGED <<files, held>>

(* liveUser, liveGroup, liveClient, liveToken.                             *)
Live(o) == Merge(baseline, overlay, o).source # "none"
LiveValue(o) == Merge(baseline, overlay, o).val

SourceOf(o) == IF InBase(baseline, o) THEN "override" ELSE "runtime"

(* A complete object stored in the overlay (newOverlayMeta).               *)
Stored(o, v) ==
  [overlay EXCEPT ![o] = [state |-> "live", val |-> v, source |-> SourceOf(o),
                          updated |-> revision + 1]]

(* Creating over a baseline id needs Override and allow_shadowing; any     *)
(* other live id exists already.                                           *)
MayCreate(o, override) ==
  IF InBase(baseline, o) THEN override /\ baseline.shadowing ELSE ~Live(o)

CreateObject(o, v, override, expected) ==
  /\ MayCreate(o, override)
  /\ mutate(expected, baseline, Stored(o, v), secrets)

(* An update starts from the effective object; shadowing must be allowed   *)
(* unless the overlay already replaces the object.                         *)
MayReplace(o) ==
  /\ Live(o)
  /\ InBase(baseline, o) /\ ~baseline.shadowing => overlay[o].state = "live"

UpdateObject(o, v, expected) ==
  /\ MayReplace(o)
  /\ mutate(expected, baseline, Stored(o, v), secrets)

(* What the overlay becomes when a live o is deleted.                      *)
Deleted(o, tombstone) ==
  LET e == overlay[o]
      reveals == \/ e.state = "live" /\ e.source = "runtime"
                 \/ e.state = "live" /\ e.source = "override" /\ ~tombstone
  IN  IF reveals \/ ~InBase(baseline, o)
      THEN [overlay EXCEPT ![o] = Absent]
      ELSE [overlay EXCEPT ![o] = Tombstone(revision + 1)]

DeleteObject(o, tombstone, expected) ==
  /\ Live(o)
  /\ mutate(expected, baseline, Deleted(o, tombstone), secrets)

-----------------------------------------------------------------------------
(* Operations of the manager, one action per method.                       *)

(* The objects an object of the kind of o may name.                        *)
Nameable(o) == IF o \in Users THEN Groups \cup Clients
               ELSE IF o \in Clients THEN Groups ELSE {}

Fresh(d, refs) == [data |-> d, refs |-> refs, memory |-> {}, cred |-> NoCred]

CreateUser(u, d, refs, override, expected) ==
  CreateObject(u, Fresh(d, refs), override, expected)

CreateGroup(g, d, override, expected) ==
  CreateObject(g, Fresh(d, {}), override, expected)

CreateClient(c, d, refs, override, expected) ==
  CreateObject(c, Fresh(d, refs), override, expected)

(* applyUserPatch: the slots given a new file reference no longer point    *)
(* into the secret bag; omitted ones keep what they have.                  *)
UpdateUser(u, d, refs, replaced, expected) ==
  UpdateObject(u, [LiveValue(u) EXCEPT !.data = d, !.refs = refs,
                                       !.memory = @ \ replaced], expected)

UpdateGroup(g, d, expected) ==
  UpdateObject(g, [LiveValue(g) EXCEPT !.data = d], expected)

UpdateClient(c, d, refs, expected) ==
  UpdateObject(c, [LiveValue(c) EXCEPT !.data = d, !.refs = refs], expected)

DeleteUser(u, tombstone, expected) == DeleteObject(u, tombstone, expected)
DeleteGroup(g, tombstone, expected) == DeleteObject(g, tombstone, expected)
DeleteClient(c, tombstone, expected) == DeleteObject(c, tombstone, expected)

(* OverrideLoginVerifier and OverrideEnableVerifier: new material in the   *)
(* bag and a user that points to it, in one mutation.                      *)
OverrideVerifier(u, slot, expected) ==
  /\ MayReplace(u)
  /\ mutate(expected, baseline,
            Stored(u, [LiveValue(u) EXCEPT !.memory = @ \cup {slot}]),
            secrets \cup {<<u, slot>>})

OverrideLoginVerifier(u, expected) == OverrideVerifier(u, "login", expected)
OverrideEnableVerifier(u, expected) == OverrideVerifier(u, "enable", expected)

(* Unlike the other kinds, a live runtime token may be replaced.           *)
CreateToken(t, d, c, override, expected) ==
  /\ IF InBase(baseline, t) THEN override /\ baseline.shadowing
                            ELSE Live(t) => override
  /\ mutate(expected, baseline,
            Stored(t, [data |-> d, refs |-> {}, memory |-> {}, cred |-> c]),
            secrets)

DeleteToken(t, tombstone, expected) == DeleteObject(t, tombstone, expected)

(* Reload: rebase the overlay onto the new baseline, or drop it, as the    *)
(* new document says.                                                      *)
Reload(doc, expected) ==
  IF doc.reset THEN mutate(expected, doc, newOverlay, {})
               ELSE mutate(expected, doc, overlay, secrets)

Reset(expected) == mutate(expected, baseline, newOverlay, {})

(* Manager.Snapshot: a reader loads the published pointer.                 *)
LoadSnapshot(r) ==
  /\ held' = [held EXCEPT ![r] = current]
  /\ UNCHANGED <<managerVars, files>>

(* The operator rewrites a token file, or makes it unreadable (external).  *)
RotateFile(t, c) ==
  /\ files[t] # c
  /\ files' = [files EXCEPT ![t] = c]
  /\ UNCHANGED <<managerVars, held>>

-----------------------------------------------------------------------------
(* A request is unconditional or names a revision some reader has seen.    *)
Expected == {AnyRevision} \cup {held[r].rev : r \in Readers}

UserStep(e) ==
  \E u \in Users :
    \/ \E d \in Data, refs \in SUBSET Nameable(u) :
         \/ \E override \in BOOLEAN : CreateUser(u, d, refs, override, e)
         \/ \E replaced \in SUBSET Slots : UpdateUser(u, d, refs, replaced, e)
    \/ \E tombstone \in BOOLEAN : DeleteUser(u, tombstone, e)
    \/ OverrideLoginVerifier(u, e)
    \/ OverrideEnableVerifier(u, e)

GroupStep(e) ==
  \E g \in Groups :
    \/ \E d \in Data, override \in BOOLEAN : CreateGroup(g, d, override, e)
    \/ \E d \in Data : UpdateGroup(g, d, e)
    \/ \E tombstone \in BOOLEAN : DeleteGroup(g, tombstone, e)

ClientStep(e) ==
  \E c \in Clients :
    \/ \E d \in Data, refs \in SUBSET Nameable(c) :
         \/ \E override \in BOOLEAN : CreateClient(c, d, refs, override, e)
         \/ UpdateClient(c, d, refs, e)
    \/ \E tombstone \in BOOLEAN : DeleteClient(c, tombstone, e)

TokenStep(e) ==
  \E t \in Tokens :
    \/ \E d \in Data, c \in Creds, override \in BOOLEAN :
         CreateToken(t, d, c, override, e)
    \/ \E tombstone \in BOOLEAN : DeleteToken(t, tombstone, e)

Next ==
  \/ \E e \in Expected : UserStep(e)
  \/ \E e \in Expected : GroupStep(e)
  \/ \E e \in Expected : ClientStep(e)
  \/ \E e \in Expected : TokenStep(e)
  \/ \E e \in Expected, doc \in Baselines : Reload(doc, e)
  \/ \E e \in Expected : Reset(e)
  \/ \E r \in Readers : LoadSnapshot(r)
  \/ \E t \in Tokens, c \in Creds \cup {NoCred} : RotateFile(t, c)

Spec == Init /\ [][Next]_vars

-----------------------------------------------------------------------------
(* Properties.                                                             *)

(* Types of the manager's fields and of every snapshot still in use.       *)
TypeOK ==
  /\ baseline \in Baselines
  /\ overlay \in [Objects -> Entry]
  /\ secrets \subseteq SecretKeys
  /\ revision \in 1..MaxRevision
  /\ current \in Snapshot
  /\ files \in [Tokens -> Creds \cup {NoCred}]
  /\ held \in [Readers -> Snapshot]

(* What is published is what the manager would compile now: after any      *)
(* sequence of mutations, reloads and resets the snapshot is the merge of  *)
(* the installed baseline and overlay at the manager's revision, so no     *)
(* refused candidate and no half-installed one is visible (mutate).        *)
PublishedIsMerge ==
  /\ current.rev = revision
  /\ current.objects = MergeAll(baseline, overlay)
  /\ current.bag = secrets

(* Whatever was deleted, revealed or rebased, no live object names a group *)
(* or client that is not live, and the live tokens fit the cap of the      *)
(* installed baseline (compile validates the merged document).             *)
PublishedIsValid ==
  /\ \A o \in LiveIn(current.objects) :
       current.objects[o].val.refs \subseteq LiveIn(current.objects)
  /\ baseline.cap > 0
       => Cardinality(LiveIn(current.objects) \cap Tokens) <= baseline.cap

(* The secret bag of the published snapshot holds exactly the material its *)
(* users point to: no verifier is lost while a user needs it, and none     *)
(* outlives the user (pruneOverlaySecrets on the private copy).            *)
SecretsReachable ==
  current.bag =
    {k \in SecretKeys : k[2] \in current.objects[k[1]].val.memory}

(* A presented bearer names at most one token, although token files are    *)
(* rotated behind the manager's back and read again at every compilation   *)
(* (putTokenDigest).                                                       *)
BearerNamesOneToken ==
  \A t1, t2 \in Tokens :
    current.creds[t1] = current.creds[t2] /\ current.creds[t1] # NoCred
      => t1 = t2

(* A revision identifies a snapshot: who holds the revision the manager    *)
(* has holds the state the manager has, which is what makes a conditional  *)
(* write (checkRevision) free of lost updates.                             *)
RevisionIdentifies ==
  \A r \in Readers : held[r].rev = current.rev => held[r] = current

(* A credential generation identifies what was granted: a session bound to *)
(* the generation that is still current speaks for the same digest, scopes *)
(* and source as when it was bound (Snapshot.TokenGeneration).             *)
GenerationIdentifiesGrant ==
  \A r \in Readers, t \in Tokens :
    held[r].gen[t] = current.gen[t] /\ current.gen[t] # 0
      => /\ held[r].creds[t] = current.creds[t]
         /\ held[r].objects[t].val.data = current.objects[t].val.data
         /\ held[r].objects[t].source = current.objects[t].source

(* Revocation is final: a generation some reader still holds and that is   *)
(* no longer current never becomes current again, even if the same token   *)
(* is created again with the same bearer.                                  *)
RevokedStaysRevoked ==
  [][\A r \in Readers, t \in Tokens :
       held[r].gen[t] \notin {0, current.gen[t]}
         => held[r].gen[t] # current'.gen[t]]_vars

(* TokenGeneration "survives unrelated mutations but changes on            *)
(* replacement, removal and recreation, or restoration from an override,   *)
(* even when the credential bytes are identical": a step that touches the  *)
(* token's overlay entry ends its incarnation, and one that leaves entry,  *)
(* baseline object and digest alone keeps it.                              *)
GenerationFollowsToken ==
  [][\A t \in Tokens :
       /\ overlay'[t] # overlay[t]
            => current'.gen[t] # current.gen[t] \/ current'.gen[t] = 0
       /\ (/\ overlay'[t] = overlay[t]
           /\ baseline'.objects[t] = baseline.objects[t]
           /\ current'.creds[t] = current.creds[t])
            => current'.gen[t] = current.gen[t]]_vars

=============================================================================
