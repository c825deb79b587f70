--------------------------- MODULE MCStateManager ---------------------------
(***************************************************************************)
(* An instance of StateManager for TLC.  A behaviour is about users,       *)
(* groups and clients, or about tokens and their files: the two only meet  *)
(* in the revision, and each has documents and a bound of its own.         *)
(***************************************************************************)
EXTENDS StateManager

CONSTANTS u1, g1, c1, t1, t2, d1, d2,
          MaxTokenRevision

VARIABLE scene

Doc(objs, shadowing, reset, cap) ==
  [objects |-> [o \in Objects |-> IF o \in DOMAIN objs THEN objs[o] ELSE NoValue],
   shadowing |-> shadowing, reset |-> reset, cap |-> cap]

Base(d, refs) == [data |-> d, refs |-> refs, memory |-> {}, cred |-> NoCred]

(* A user in a group that a client names too; the group alone, where       *)
(* shadowing is refused; and an empty document that drops the overlay.     *)
ObjectBaselines ==
  {Doc([o \in {u1, g1, c1} |-> Base(d1, IF o = g1 THEN {} ELSE {g1})], TRUE, FALSE, 0),
   Doc([o \in {g1} |-> Base(d1, {})], FALSE, FALSE, 0),
   Doc([o \in {} |-> NoValue], TRUE, TRUE, 0)}

(* Bootstrap tokens: both; one with another grant, where only one may be   *)
(* live; none; none, dropping the overlay.                                 *)
TokenBaselines ==
  {Doc([o \in Tokens |-> Base(d1, {})], TRUE, FALSE, 0),
   Doc([o \in {t1} |-> Base(d2, {})], TRUE, FALSE, 1),
   Doc([o \in {} |-> NoValue], TRUE, FALSE, 0),
   Doc([o \in {t1} |-> Base(d1, {})], FALSE, TRUE, 0)}

AllBaselines == ObjectBaselines \cup TokenBaselines

SceneBaselines == IF scene = "objects" THEN ObjectBaselines ELSE TokenBaselines

MCInit ==
  /\ Init
  /\ scene \in {"objects", "tokens"}
  /\ baseline \in SceneBaselines
  /\ scene = "objects" => \A t \in Tokens : files[t] = NoCred

ObjectScene ==
  /\ scene = "objects"
  /\ \E e \in Expected :
       \/ UserStep(e)
       \/ GroupStep(e)
       \/ ClientStep(e)
  /\ \A o \in Objects : overlay'[o].val.data # d2

TokenScene ==
  /\ scene = "tokens"
  /\ \/ \E e \in Expected : TokenStep(e)
     \/ \E t \in Tokens, c \in Creds \cup {NoCred} : RotateFile(t, c)
  /\ revision' <= MaxTokenRevision

EitherScene ==
  \/ /\ \E e \in Expected :
          \/ \E doc \in SceneBaselines : Reload(doc, e)
          \/ Reset(e)
     /\ scene = "tokens" => revision' <= MaxTokenRevision
  \/ \E r \in Readers : LoadSnapshot(r)

MCSpec ==
  /\ MCInit
  /\ [][/\ ObjectScene \/ TokenScene \/ EitherScene
        /\ UNCHANGED scene]_<<vars, scene>>

=============================================================================
