------------------------- MODULE MCControlSessions --------------------------
(***************************************************************************)
(* An instance of ControlSessions for TLC: one token, which one document   *)
(* defines and the other does not.  In one scene the table has more        *)
(* candidates than room and MaxCrowdRevision mutations happen, in the      *)
(* other a single session meets MaxRevision of them, enough for a token    *)
(* to go and come back.                                                    *)
(***************************************************************************)
EXTENDS ControlSessions, TLC

CONSTANTS t1, d1, d2, MaxCrowdRevision, Lone

VARIABLE scene   \* "crowd" or "lone"

Doc(objs, reset) ==
  [objects |-> [o \in Objects |-> IF o \in DOMAIN objs THEN objs[o] ELSE NoValue],
   shadowing |-> TRUE, reset |-> reset, cap |-> 0]

Base(d) == [data |-> d, refs |-> {}, memory |-> {}, cred |-> NoCred]

SessionBaselines ==
  {Doc([o \in {t1} |-> Base(d1)], FALSE), Doc([o \in {} |-> NoValue], TRUE)}

MCInit == ControlInit /\ scene \in {"crowd", "lone"}

MCSpec ==
  /\ MCInit
  /\ [][/\ ControlNext
        /\ scene = "crowd" => revision' <= MaxCrowdRevision
        /\ scene = "lone" => \A s \in SessionIds \ {Lone} : issued'[s] = NoRec
        /\ UNCHANGED scene]_<<allVars, scene>>
  /\ \A r \in Readers : WF_<<allVars, scene>>(StreamCheck(r) /\ UNCHANGED scene)

=============================================================================
