---------------------------- MODULE RadiusPolicy ----------------------------
(***************************************************************************)
(* RADIUS access policy (internal/policy/radius): policies and reply       *)
(* profiles are compiled against a dictionary, and an Access-Request is    *)
(* decided by the first matching rule of the policies of its user, groups, *)
(* client endpoint and the fallback.                                       *)
(*                                                                         *)
(* The key of an attribute is a vendor, 0 for the IETF, and a code; the    *)
(* document refers to it by name or by number.  A value is known by the    *)
(* kind it parses as.  The number of an endpoint or a rule is 0 for none.  *)
(***************************************************************************)
EXTENDS RuleOrder, SequencesExt

CONSTANTS
  Dictionary   \* name -> [vendor, code, kind, single, secret, owned, request, accept, reject]

(* The other engine, to compare the groups with.                           *)
Tacacs == INSTANCE Policy WITH MaxArgs <- 0, Now <- 0
None == "none"

-----------------------------------------------------------------------------
(* The dictionary                                                          *)

Key(vendor, code) == [vendor |-> vendor, code |-> code]
NoKey == Key(0, 0)
RawVSA == "Vendor-Specific"

(* lookupVSA and lookupCode: a vendor attribute without a name is a raw    *)
(* one.                                                                    *)
Named(key) == {n \in DOMAIN Dictionary : Key(Dictionary[n].vendor, Dictionary[n].code) = key}
Def(key) == Dictionary[IF Named(key) = {} THEN RawVSA ELSE CHOOSE n \in Named(key) : TRUE]

(* resolveAttr; NoKey is its error.  With a name, numbers may only repeat  *)
(* what it says; the name of the raw attribute needs them.                 *)
Agrees(given, known) == given \in {0, known}
resolveAttr(ref) ==
  LET d == Dictionary[ref.name]
      given == Key(ref.vendor, ref.code)
      ok == IF ref.name = None
            THEN ref.code # 0 /\ (ref.vendor # 0 \/ Named(given) # {})
            ELSE /\ ref.name \in DOMAIN Dictionary
                 /\ IF ref.name = RawVSA THEN ref.vendor # 0 /\ ref.code # 0
                    ELSE Agrees(ref.vendor, d.vendor) /\ Agrees(ref.code, d.code)
  IN IF ~ok THEN NoKey
     ELSE IF ref.name \in {None, RawVSA} THEN given ELSE Key(d.vendor, d.code)

-----------------------------------------------------------------------------
(* Compilation                                                             *)

(* compileAttrMatch: secrets are no match keys; values go with equals only *)
(* and must parse as the kind of the attribute.                            *)
MatchLegal(a) ==
  LET key == resolveAttr(a.ref)
  IN /\ key # NoKey
     /\ ~Def(key).secret
     /\ Def(key).request \/ a.ref.vendor # 0
     /\ IF a.op = "equals" THEN a.value.kind = Def(key).kind
        ELSE a.op \in {"present", "absent"} /\ a.value.kind = None

(* compileReplyAttr.                                                       *)
ReplyLegal(a) ==
  LET key == resolveAttr(a.ref)
  IN /\ key # NoKey
     /\ ~Def(key).secret /\ ~Def(key).owned
     /\ a.value.kind = Def(key).kind

(* mergeReplyProfiles: the attributes of the profiles one after the other. *)
Merged(rule, profiles) ==
  LET all == FlattenSeq([k \in DOMAIN rule.profiles |-> profiles[rule.profiles[k]]])
  IN [k \in DOMAIN all |-> [key |-> resolveAttr(all[k].ref), value |-> all[k].value]]

(* What a packet may carry: an Access-Accept what the table says and any   *)
(* vendor attribute, an Access-Reject no vendor attribute at all.          *)
PacketLegal(key, effect) ==
  IF effect = "permit" THEN Def(key).accept \/ key.vendor # 0
  ELSE Def(key).reject /\ key.vendor = 0

MergeLegal(rule, profiles) ==
  /\ \A k \in DOMAIN rule.profiles : rule.profiles[k] \in DOMAIN profiles
  /\ LET all == Merged(rule, profiles)
     IN /\ \A i \in DOMAIN all : PacketLegal(all[i].key, rule.effect)
        /\ \A i, j \in DOMAIN all :
             all[i].key = all[j].key /\ Def(all[i].key).single => i = j

(* compilePolicy: rules that are not enabled are left out unread.          *)
Live(policy) == {i \in DOMAIN policy : policy[i].enabled}
RuleLegal(r, profiles) ==
  /\ r.effect \in {"permit", "deny"}
  /\ \A i \in DOMAIN r.match.attrs : MatchLegal(r.match.attrs[i])
  /\ MergeLegal(r, profiles)
PolicyLegal(policy, profiles) ==
  /\ \A i, j \in Live(policy) : policy[i].id = policy[j].id => i = j
  /\ \A i \in Live(policy) : RuleLegal(policy[i], profiles)
LivePlace(policy, n) == CHOOSE i \in Live(policy) : Cardinality({j \in Live(policy) : j < i}) = n - 1
compilePolicy(policy, profiles) ==
  [n \in 1..Cardinality(Live(policy)) |->
    LET r == policy[LivePlace(policy, n)]
    IN [id |-> r.id, match |-> r.match, effect |-> r.effect, reply |-> Merged(r, profiles)]]

(* Compile: references lead somewhere.  A client is bound by its RADIUS    *)
(* endpoints, if it is enabled and has any.                                *)
Known(in, id) == id = None \/ id \in DOMAIN in.policies
Compiles(in) ==
  /\ \A p \in DOMAIN in.profiles : \A i \in DOMAIN in.profiles[p] : ReplyLegal(in.profiles[p][i])
  /\ \A p \in DOMAIN in.policies : PolicyLegal(in.policies[p], in.profiles)
  /\ Known(in, in.fallback)
  /\ \A u \in DOMAIN in.users : Known(in, in.users[u].policy)
  /\ \A g \in DOMAIN in.groups : Known(in, in.groups[g].policy)
  /\ \A c \in DOMAIN in.clients : in.clients[c].enabled =>
       \A ep \in DOMAIN in.clients[c].endpoints : Known(in, in.clients[c].endpoints[ep])
BoundClients(in) ==
  {c \in DOMAIN in.clients : in.clients[c].enabled /\ in.clients[c].endpoints # <<>>}
Compile(in) ==
  [policies |-> [p \in DOMAIN in.policies |-> compilePolicy(in.policies[p], in.profiles)],
   clients |-> [c \in BoundClients(in) |-> in.clients[c]],
   users |-> in.users, groups |-> in.groups, fallback |-> in.fallback]

(* effectiveGroups: a disabled user brings no groups, the client still     *)
(* does.                                                                   *)
effectiveGroups(e, user, client) ==
  GroupsInOrder(e.groups,
    (IF user \in DOMAIN e.users /\ e.users[user].enabled THEN ToSet(e.users[user].groups) ELSE {})
    \cup (IF client \in DOMAIN e.clients THEN ToSet(e.clients[client].defaults) ELSE {}))
groupIDs(groups) == {groups[k].id : k \in DOMAIN groups}

-----------------------------------------------------------------------------
(* Evaluation                                                              *)

FirstOf(attrs, key) == SelectInSeq(attrs, LAMBDA a : a.key = key)

matchAttr(a, attrs) ==
  LET i == FirstOf(attrs, resolveAttr(a.ref))
  IN CASE a.op = "present" -> i # 0
       [] a.op = "absent" -> i = 0
       [] a.op = "equals" -> i # 0 /\ attrs[i].value = a.value

matchRule(r, req, groups) ==
  /\ r.match.groups # {} => groups \cap r.match.groups # {}
  /\ r.match.method # None => req.method = r.match.method
  /\ \A i \in DOMAIN r.match.attrs : matchAttr(r.match.attrs[i], req.attrs)

(* The policies in the order of Evaluate.  With one endpoint the request   *)
(* need not name it.                                                       *)
Endpoint(e, req) ==
  LET eps == e.clients[req.client].endpoints
  IN IF req.endpoint = 0 /\ Len(eps) = 1 THEN eps[1]
     ELSE IF req.endpoint \in DOMAIN eps THEN eps[req.endpoint] ELSE None

Policies(e, req) ==
  LET groups == effectiveGroups(e, req.user, req.client)
  IN <<IF req.user \in DOMAIN e.users /\ e.users[req.user].enabled
       THEN e.users[req.user].policy ELSE None>>
     \o [k \in DOMAIN groups |-> e.groups[groups[k].id].policy]
     \o <<IF req.client \in DOMAIN e.clients THEN Endpoint(e, req) ELSE None, e.fallback>>

Decision(effect, reply, rule) == [effect |-> effect, reply |-> reply, rule |-> rule]

(* matchedResult checks the reply again.                                   *)
Matched(r) ==
  IF \A i \in DOMAIN r.reply : PacketLegal(r.reply[i].key, r.effect)
  THEN Decision(r.effect, r.reply, r.id) ELSE Decision("error", <<>>, 0)

(* walk: an absent policy is passed over, one that is not there is an      *)
(* error, found where the walk meets it.                                   *)
Missing(e, policies) ==
  {k \in DOMAIN policies : policies[k] # None /\ policies[k] \notin DOMAIN e.policies}
Hits(e, p, req, groups) ==
  IF p \in DOMAIN e.policies
  THEN {i \in DOMAIN e.policies[p] : matchRule(e.policies[p][i], req, groups)} ELSE {}
FirstMatch(e, req, groups, policies) ==
  LET at == FirstHit([k \in DOMAIN policies |-> Hits(e, policies[k], req, groups)])
      unclear == /\ req.client \in DOMAIN e.clients /\ req.endpoint = 0
                 /\ Len(e.clients[req.client].endpoints) > 1
      broken == \E k \in Missing(e, policies) : at[1] = 0 \/ k < at[1]
  IN CASE unclear \/ broken -> Decision("error", <<>>, 0)
       [] ~unclear /\ ~broken /\ at[1] = 0 -> Decision("deny", <<>>, 0)
       [] OTHER -> Matched(e.policies[policies[at[1]]][at[2]])

(* groups_any goes by the groups of a known user, and by those the caller  *)
(* gives otherwise.                                                        *)
GroupsAny(e, req) ==
  IF req.user \in DOMAIN e.users
  THEN groupIDs(effectiveGroups(e, req.user, req.client)) ELSE ToSet(req.groups)
Evaluate(e, req) == FirstMatch(e, req, GroupsAny(e, req), Policies(e, req))

-----------------------------------------------------------------------------
(* What the decision is meant to be                                        *)

(* The groups of a request in the document, and the policies it is bound   *)
(* to: the nearer the source the sooner, among groups in their order.      *)
Groups(in, req) ==
  {g \in DOMAIN in.groups :
     /\ in.groups[g].enabled
     /\ \/ /\ req.user \in DOMAIN in.users /\ in.users[req.user].enabled
           /\ g \in ToSet(in.users[req.user].groups)
        \/ req.client \in BoundClients(in) /\ g \in ToSet(in.clients[req.client].defaults)}
Source(near, group, policy) == [near |-> near, group |-> group, policy |-> policy]
NoGroup == [priority |-> 0, id |-> 0]
Sources(in, req) ==
  {s \in {Source(4, NoGroup, in.fallback)}
         \cup (IF req.user \in DOMAIN in.users /\ in.users[req.user].enabled
               THEN {Source(1, NoGroup, in.users[req.user].policy)} ELSE {})
         \cup {Source(2, [priority |-> in.groups[g].priority, id |-> g], in.groups[g].policy) :
                 g \in Groups(in, req)}
         \cup (IF req.client \in BoundClients(in) THEN {Source(3, NoGroup, Endpoint(in, req))} ELSE {}) :
     s.policy # None}

(* The rules of a policy that are enabled and match.                       *)
Matching(in, p, req) ==
  LET groups == IF req.user \in DOMAIN in.users THEN Groups(in, req) ELSE ToSet(req.groups)
  IN {i \in DOMAIN in.policies[p] :
        in.policies[p][i].enabled /\ matchRule(in.policies[p][i], req, groups)}

Sooner(x, y) == x.near < y.near \/ (x.near = y.near /\ Before(x.group, y.group))
Deciding(in, req) ==
  LET bound == {s \in Sources(in, req) : Matching(in, s.policy, req) # {}}
  IN {in.policies[s.policy][Soonest(Matching(in, s.policy, req))] :
        s \in {x \in bound : \A y \in bound : y = x \/ Sooner(x, y)}}

Legal(d) ==
  \A i, j \in DOMAIN d.reply :
    LET key == d.reply[i].key
    IN /\ key.vendor # 0 => d.effect = "permit"
       /\ key.vendor = 0 => IF d.effect = "permit" THEN Def(key).accept ELSE Def(key).reject
       /\ Def(key).single /\ d.reply[j].key = key => i = j

AsMeant(in, req, d, decides) ==
  /\ d.effect = "error" => req.endpoint = 0 /\ Len(in.clients[req.client].endpoints) > 1
  /\ d.effect = "permit" => decides # {}
  /\ d.effect # "error" =>
       \A r \in decides : d = Decision(r.effect, Merged(r, in.profiles), r.id)
  /\ Legal(d)

SameGroups(in, req) ==
  (req.user \in DOMAIN in.users /\ in.users[req.user].enabled /\ req.client \in BoundClients(in)) =>
    effectiveGroups(Compile(in), req.user, req.client)
      = Tacacs!effectiveGroups(in, req.user, req.client)

(* For a document that compiles, the first matching rule of the nearest    *)
(* source decides, a disabled user brings neither policy nor groups, what  *)
(* leaves with an acceptance or a rejection is legal in that packet and    *)
(* single where it has to be, the only error is an endpoint left open, and *)
(* for an enabled user both engines walk the same groups in one order.     *)
AcceptedByRule(in, req) ==
  Compiles(in) =>
    /\ AsMeant(in, req, Evaluate(Compile(in), req), Deciding(in, req))
    /\ SameGroups(in, req)

=============================================================================
