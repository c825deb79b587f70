------------------------------- MODULE Policy -------------------------------
(***************************************************************************)
(* TACACS+ authorization (internal/policy, internal/aaa/author.go): how    *)
(* rules are compiled, which rule decides a request, and what the reply    *)
(* carries.  The engine is a value compiled from a snapshot; a request is  *)
(* evaluated without touching it.                                          *)
(*                                                                         *)
(* A matcher is the set of strings it matches.  The value of an argument   *)
(* is known by the encodings it is legal in.  The trace that explains a    *)
(* decision is left out, but for its winner.                               *)
(***************************************************************************)
EXTENDS RuleOrder, SequencesExt

CONSTANTS MaxArgs, Now

None == "none"     \* an absent string; an absent time is 0

-----------------------------------------------------------------------------
(* The argument dictionary                                                 *)

(* LookupArg over commonArgs.                                              *)
LookupArg(name) ==
  CASE name \in {"acl", "timeout", "idletime", "elapsed_time", "bytes", "bytes_in", "bytes_out",
                 "paks", "paks_in", "paks_out"} -> "numeric"
    [] name \in {"start_time", "stop_time"} -> "epoch"
    [] name \in {"noescape", "nohangup"} -> "boolean"
    [] name = "priv-lvl" -> "privilege"
    [] name = "addr" -> "address"
    [] name = "timezone" -> "timezone"
    [] OTHER -> "text"

(* ValidatePair: the wire form, then the encoding a known name asks for.   *)
ValidatePair(a) ==
  /\ a.name # None /\ a.len \in 2..255
  /\ LookupArg(a.name) = "text" \/ LookupArg(a.name) \in a.encodings

-----------------------------------------------------------------------------
(* Compilation                                                             *)

(* Seeded fault: command rules are left in the order of the document.      *)
compileRuleSet_Listed(rs) == rs
(* Services keep the order of the document.                                *)
compileRuleSet(rs) == [services |-> rs.services, commands |-> Sorted(ToSet(rs.commands))]

(* compileReply refuses the whole document for one illegal attribute.      *)
RepliesLegal(rs) ==
  \A i \in DOMAIN rs.services : \A j \in DOMAIN rs.services[i].reply :
    ValidatePair(rs.services[i].reply[j])

(* Compile.                                                                *)
Compiles(in) ==
  /\ RepliesLegal(in.fallback)
  /\ \A u \in DOMAIN in.users : RepliesLegal(in.users[u].rules)
  /\ \A g \in DOMAIN in.groups : RepliesLegal(in.groups[g].rules)

Compile(in) ==
  [users |-> [u \in DOMAIN in.users |->
               [in.users[u] EXCEPT !.rules = compileRuleSet(@)]],
   groups |-> [g \in DOMAIN in.groups |->
               [in.groups[g] EXCEPT !.rules = compileRuleSet(@)]],
   clients |-> in.clients,
   fallback |-> compileRuleSet(in.fallback)]

(* effectiveGroups: the groups of the user and the defaults of an enabled  *)
(* client.                                                                 *)
DefaultGroups(e, client) ==
  IF client \in DOMAIN e.clients /\ e.clients[client].enabled
  THEN ToSet(e.clients[client].defaults) ELSE {}
effectiveGroups(e, user, client) ==
  GroupsInOrder(e.groups, ToSet(e.users[user].groups) \cup DefaultGroups(e, client))

-----------------------------------------------------------------------------
(* Requests                                                                *)

First(args, name, else) ==
  LET i == SelectInSeq(args, LAMBDA a : a.name = name)
  IN IF i = 0 THEN else ELSE args[i].value
All(args, name) ==
  LET hits == SelectSeq(args, LAMBDA a : a.name = name)
  IN [k \in DOMAIN hits |-> hits[k].value]

(* applyWireAVs and normalize: what the arguments say comes before the     *)
(* typed fields, the first of several wins, and cmd-args are collected.    *)
Normalize(req) ==
  LET args == All(req.args, "cmd-arg")
  IN [req EXCEPT !.service = First(req.args, "service", @),
                 !.protocol = First(req.args, "protocol", @),
                 !.cmd = First(req.args, "cmd", @),
                 !.cmdArgs = IF args = <<>> THEN @ ELSE args]

(* checkAuthorFields: over a limit, the request is an error.               *)
WithinLimits(req) == Len(req.args) <= MaxArgs

userValid(u) ==
  /\ Now >= u.validAfter
  /\ u.validBefore # 0 => Now < u.validBefore

clientAllowed(u, client) == u.clients = {} \/ client \in u.clients

matchService(r, req) ==
  r.service = req.service /\ r.protocol \in {None, req.protocol}
matchCommand(r, req) == req.cmd \in r.command /\ req.cmdArgs \in r.args

-----------------------------------------------------------------------------
(* Evaluation                                                              *)

Result(status, args, winner) == [status |-> status, args |-> args, winner |-> winner]
Deny == Result("fail", <<>>, None)
Error == Result("error", <<>>, None)

(* buildReply and finish: a denial carries nothing, and a reply that does  *)
(* not fit is an error and not a denial.                                   *)
Finish(r, reply) ==
  CASE r.rule.action = "deny" -> Result("fail", <<>>, r)
    [] r.rule.action # "deny" /\ Len(reply) > MaxArgs -> Error
    [] OTHER -> Result(IF r.rule.action = "permit_add" THEN "pass_add" ELSE "pass_repl", reply, r)

(* The lists of rules that are walked, each with where it comes from.      *)
RulesOf(rs, kind) == IF kind = "service" THEN rs.services ELSE rs.commands
Tagged(source, rs, kind) == [source |-> source, rules |-> RulesOf(rs, kind)]
Walk(e, req, kind) ==
  LET groups == effectiveGroups(e, req.user, req.client)
  IN <<Tagged("user", e.users[req.user].rules, kind)>>
     \o [k \in DOMAIN groups |-> Tagged(groups[k].id, e.groups[groups[k].id].rules, kind)]
     \o <<Tagged("fallback", e.fallback, kind)>>

(* walkRules: the first rule that matches decides.                         *)
Matches(rule, req, kind) ==
  IF kind = "service" THEN matchService(rule, req) ELSE matchCommand(rule, req)
Hits(rules, req, kind) == {i \in DOMAIN rules : Matches(rules[i], req, kind)}
walkRules(walk, req, kind) ==
  LET at == FirstHit([k \in DOMAIN walk |-> Hits(walk[k].rules, req, kind)])
      rule == walk[at[1]].rules[at[2]]
  IN IF at = <<0, 0>> THEN Deny
     ELSE Finish([source |-> walk[at[1]].source, rule |-> rule],
                 IF kind = "service" THEN rule.reply ELSE <<>>)

Admitted(e, req) ==
  /\ req.user \in DOMAIN e.users
  /\ e.users[req.user].enabled
  /\ userValid(e.users[req.user])
  /\ clientAllowed(e.users[req.user], req.client)
evaluate(e, req, kind) ==
  IF Admitted(e, req) THEN walkRules(Walk(e, req, kind), req, kind) ELSE Deny

(* Service.Authorize: the command rules decide a request with a command,   *)
(* the service rules one without.                                          *)
KindOf(req) == IF req.cmd # None THEN "command" ELSE "service"
Authorize(e, request) ==
  LET req == Normalize(request)
  IN IF WithinLimits(request) THEN evaluate(e, req, KindOf(req)) ELSE Error

-----------------------------------------------------------------------------
(* Which rule is meant to decide, stated without walking: of the rules     *)
(* that match, the one of the nearest source, of the group that comes      *)
(* first, and that comes first in it.                                      *)

Source(near, group, rules) == [near |-> near, group |-> group, rules |-> rules]
NoGroup == [priority |-> 0, id |-> 0]
Sources(in, req) ==
  {Source(1, NoGroup, in.users[req.user].rules), Source(3, NoGroup, in.fallback)}
  \cup {Source(2, [priority |-> in.groups[g].priority, id |-> g], in.groups[g].rules) :
          g \in {h \in DOMAIN in.groups :
                   /\ in.groups[h].enabled
                   /\ \/ \E i \in DOMAIN in.users[req.user].groups : in.users[req.user].groups[i] = h
                      \/ h \in DefaultGroups(in, req.client)}}

(* A service rule counts by its place, a command rule by its priority.     *)
Entries(rs, kind) ==
  IF kind = "service"
  THEN {[at |-> [priority |-> 0, id |-> i], rule |-> rs.services[i]] : i \in DOMAIN rs.services}
  ELSE {[at |-> [priority |-> rs.commands[i].priority, id |-> rs.commands[i].id],
         rule |-> rs.commands[i]] : i \in DOMAIN rs.commands}
Sooner(x, y) ==
  \/ x.source.near < y.source.near
  \/ x.source.near = y.source.near /\ Before(x.source.group, y.source.group)
  \/ x.source = y.source /\ Before(x.at, y.at)
Applicable(in, req, kind) ==
  UNION {{[source |-> s, at |-> h.at, rule |-> h.rule] :
            h \in {x \in Entries(s.rules, kind) : Matches(x.rule, req, kind)}} : s \in Sources(in, req)}
Deciding(in, req, kind) ==
  {x \in Applicable(in, req, kind) : \A y \in Applicable(in, req, kind) : x = y \/ Sooner(x, y)}

Meant(in, req) ==
  IF /\ req.user \in DOMAIN in.users
     /\ in.users[req.user].enabled /\ userValid(in.users[req.user])
     /\ clientAllowed(in.users[req.user], req.client)
  THEN Deciding(in, req, KindOf(req)) ELSE {}

ByRule(r, decides, request) ==
  /\ Cardinality(decides) <= 1
  /\ r.status = "fail" => \A d \in decides : d.rule.action = "deny"
  /\ r.status \in {"pass_add", "pass_repl"} =>
       \E d \in decides : /\ r.winner.rule = d.rule
                          /\ d.rule.action = (IF r.status = "pass_add" THEN "permit_add"
                                              ELSE "permit_replace")
                          /\ KindOf(Normalize(request)) = "service" => r.args = d.rule.reply
  /\ r.status \in {"fail", "error"} => r.args = <<>>
  /\ r.status = "error" => \/ Len(request.args) > MaxArgs
                           \/ \E d \in decides : Len(d.rule.reply) > MaxArgs

(* Authorization is decided by exactly that rule of the document in, and   *)
(* fails closed: a pass needs a known, enabled, valid user on a client he  *)
(* may use and a deciding rule that permits; attributes leave only with a  *)
(* pass, and those of the rule.                                            *)
AuthorizedByRule(in, request) ==
  ByRule(Authorize(Compile(in), request), Meant(in, Normalize(request)), request)

=============================================================================
