--------------------------- MODULE ConfigObjects ---------------------------
(***************************************************************************)
(* The objects of a configuration: users, groups, RADIUS policies, reply   *)
(* profiles and bootstrap tokens, as a file writes them, as the API        *)
(* creates, shows and patches users and groups, and what a document of     *)
(* them is checked for before it is used (internal/config normalize,       *)
(* radius_policy and validate; internal/api/operations views; internal/    *)
(* state patch).  Clients are in ClientEndpoints; here a client is what    *)
(* refers to groups and policies.                                          *)
(*                                                                         *)
(* A written object is a function on the keys that are given; an object of *)
(* a document has them all.  An id is a string: "/wide" marks a spelling   *)
(* that the user name profile folds, "?" a name it refuses, " p" is p with *)
(* a blank.  No string is "", no time 0, no number -1.                     *)
(***************************************************************************)
EXTENDS Integers, Sequences, FiniteSets, TLC

Refused == [refused |-> TRUE]
Nothing == [k \in {} |-> ""]

(* golang.org/x/text/secure/precis, and strings.TrimSpace on an id.        *)
CanonicalUsername(id) == CASE id = "ann/wide" -> "ann" [] id = "?" -> "" [] OTHER -> id
TrimSpace(id) == IF id = " p" THEN "p" ELSE id

Over(written, default) == [k \in DOMAIN default |-> IF k \in DOMAIN written THEN written[k] ELSE default[k]]
Distinct(ids) == \A i, j \in DOMAIN ids : ids[i] = ids[j] => i = j
Ids(objects) == [i \in DOMAIN objects |-> objects[i]["id"]]
IdSet(objects) == {objects[i]["id"] : i \in DOMAIN objects}
Named(ids, known) == \A i \in DOMAIN ids : ids[i] \in known

NoRules == [services |-> <<>>, commands |-> <<>>]
NewUser ==
  "id" :> "" @@ "enabled" :> TRUE @@ "group_ids" :> <<>> @@ "rules" :> NoRules @@ "client_ids" :> <<>>
  @@ "valid_after" :> 0 @@ "valid_before" :> 0 @@ "login" :> "" @@ "challenge" :> "" @@ "enable" :> ""
  @@ "must_change_login" :> FALSE @@ "must_change_enable" :> FALSE @@ "radius_policy_id" :> ""
NewGroup ==
  "id" :> "" @@ "enabled" :> TRUE @@ "priority" :> 0 @@ "services" :> <<>> @@ "command_rules" :> <<>>
  @@ "default_command_action" :> "deny" @@ "radius_policy_id" :> ""

-----------------------------------------------------------------------------
(* Rules in a file                                                         *)

(* The file may say permit, in any case and with blanks around it.         *)
parseYAMLAction(s) ==
  CASE s \in {"permit", "permit_add"} -> "permit_add" [] s = "permit_replace" -> s
    [] s \in {"deny", "Deny", "deny "} -> "deny" [] OTHER -> ""

normalizeStringMatch(m) == (m.exact = "") # (m.pattern = "")

(* AVPair.Validate and the separators a file may write.                    *)
ReplyLegal(a) == a.name # "" /\ a.separator \in {"=", "*"}
normalizeReplyAttributes(attrs) ==
  [i \in DOMAIN attrs |-> [attrs[i] EXCEPT !.separator = IF @ = "" THEN "=" ELSE @]]

normalizeServiceRules(rs) ==
  [i \in DOMAIN rs |-> [rs[i] EXCEPT !.action = parseYAMLAction(@), !.reply = normalizeReplyAttributes(@)]]
ServicesWritten(rs) ==
  \A i \in DOMAIN rs :
    LET r == normalizeServiceRules(rs)[i]
    IN r.service # "" /\ r.action # "" /\ \A j \in DOMAIN r.reply : ReplyLegal(r.reply[j])

normalizeCommandRules(rs) == [i \in DOMAIN rs |-> [rs[i] EXCEPT !.action = parseYAMLAction(@)]]
CommandsWritten(rs) ==
  /\ \A i \in DOMAIN rs : /\ rs[i].id # "" /\ parseYAMLAction(rs[i].action) # ""
                          /\ normalizeStringMatch(rs[i].command) /\ normalizeStringMatch(rs[i].arguments)
  /\ Distinct([i \in DOMAIN rs |-> rs[i].id])

normalizeRuleSet(rs) ==
  [services |-> normalizeServiceRules(rs.services), commands |-> normalizeCommandRules(rs.commands)]
RulesWritten(rs) == ServicesWritten(rs.services) /\ CommandsWritten(rs.commands)

normalizeDefaultCommandAction(s) == s \in {"deny", "Deny", "deny "}

-----------------------------------------------------------------------------
(* Objects in a file                                                       *)

SecretWritten(ref, allowEnv) == ref \in {"", "file"} \/ (ref = "environment" /\ allowEnv)

normalizeUsers(raw) ==
  [i \in DOMAIN raw |->
     [Over(raw[i], NewUser) EXCEPT !["id"] = CanonicalUsername(@), !["rules"] = normalizeRuleSet(@),
                                   !["radius_policy_id"] = TrimSpace(@)]]
UsersWritten(raw, allowEnv) ==
  LET users == normalizeUsers(raw)
  IN /\ \A i \in DOMAIN users :
          /\ users[i]["id"] # "" /\ RulesWritten(Over(raw[i], NewUser)["rules"])
          /\ \A k \in {"login", "challenge", "enable"} : SecretWritten(users[i][k], allowEnv)
     /\ Distinct(Ids(users))

normalizeGroups(raw) ==
  [i \in DOMAIN raw |->
     [Over(raw[i], NewGroup) EXCEPT !["services"] = normalizeServiceRules(@),
                                    !["command_rules"] = normalizeCommandRules(@),
                                    !["default_command_action"] = "deny",
                                    !["radius_policy_id"] = TrimSpace(@)]]
GroupsWritten(raw) ==
  /\ \A i \in DOMAIN raw :
       LET g == Over(raw[i], NewGroup)
       IN /\ g["id"] # "" /\ normalizeDefaultCommandAction(g["default_command_action"])
          /\ ServicesWritten(g["services"]) /\ CommandsWritten(g["command_rules"])
  /\ Distinct(Ids(normalizeGroups(raw)))

(* An attribute is named, or numbered in 1..255 under a vendor or none.    *)
normalizeAttrIdentity(a) ==
  /\ a.name # "" \/ a.code # -1
  /\ a.vendor # -1 => a.code # -1
  /\ a.code # -1 => a.code \in 1..255
HexLegal(a) == a.hex # "odd"
normalizeRADIUSAttrMatch(a) ==
  /\ normalizeAttrIdentity(a) /\ HexLegal(a)
  /\ \/ a.op = "equals" /\ (a.value # "" \/ a.hex # "")
     \/ a.op \in {"present", "absent"} /\ a.value = "" /\ a.hex = ""
normalizeRADIUSReplyAttr(a) == normalizeAttrIdentity(a) /\ HexLegal(a) /\ (a.value # "" \/ a.hex # "")

RadiusMethods == {"", "password", "pap", "chap", "mschapv1", "mschapv2", "eap"}
normalizeRADIUSRules(rules) ==
  /\ \A i \in DOMAIN rules :
       /\ rules[i].id # "" /\ rules[i].effect \in {"permit", "deny"} /\ rules[i].method \in RadiusMethods
       /\ \A j \in DOMAIN rules[i].attributes : normalizeRADIUSAttrMatch(rules[i].attributes[j])
  /\ Distinct([i \in DOMAIN rules |-> rules[i].id])
normalizeRADIUSPolicies(raw) ==
  /\ \A i \in DOMAIN raw : raw[i]["id"] # "" /\ normalizeRADIUSRules(raw[i]["rules"])
  /\ Distinct(Ids(raw))
normalizeRADIUSReplyProfiles(raw) ==
  /\ \A i \in DOMAIN raw :
       raw[i]["id"] # "" /\ \A j \in DOMAIN raw[i]["attributes"] :
                              normalizeRADIUSReplyAttr(raw[i]["attributes"][j])
  /\ Distinct(Ids(raw))

TokensWritten(raw, allowEnv) ==
  (\A i \in DOMAIN raw : raw[i]["id"] # "" /\ SecretWritten(raw[i]["token"], allowEnv)) /\ Distinct(Ids(raw))

-----------------------------------------------------------------------------
(* A document                                                              *)

knownScopes == {"state:read", "state:write", "config:reload", "config:export", "policy:test", "events:read",
                "events:sensitive", "tokens:manage", "runtime:reset", "radius:dynamic"}
validateBootstrapTokens(tokens) ==
  /\ Distinct(Ids(tokens))
  /\ \A i \in DOMAIN tokens : /\ tokens[i]["id"] # "" /\ tokens[i]["token"] # ""
                              /\ tokens[i]["scopes"] # <<>> /\ Named(tokens[i]["scopes"], knownScopes)

(* Two rules of one priority would leave the order to chance; a pattern    *)
(* must compile.                                                           *)
validateStringMatch(m) == m.pattern # "("
validateRuleSet(commands) ==
  /\ Distinct([i \in DOMAIN commands |-> commands[i].priority])
  /\ \A i \in DOMAIN commands : validateStringMatch(commands[i].command)
                                /\ validateStringMatch(commands[i].arguments)

validateUser(u, groups, clients) ==
  /\ Named(u["group_ids"], groups) /\ Named(u["client_ids"], clients)
  /\ u["valid_after"] # 0 /\ u["valid_before"] # 0 => u["valid_after"] <= u["valid_before"]
  /\ u["must_change_login"] => u["login"] # ""
  /\ u["must_change_enable"] => u["enable"] # ""
  /\ validateRuleSet(u["rules"].commands)

validateRADIUSRules(rules, groups, profiles) ==
  \A i \in DOMAIN rules : Named(rules[i].groups_any, groups) /\ Named(rules[i].profiles, profiles)
validateRADIUSPolicyRefs(doc) ==
  LET policies == IdSet(doc.policies)
      optional(id) == id = "" \/ id \in policies
  IN /\ Distinct(Ids(doc.policies)) /\ Distinct(Ids(doc.profiles))
     /\ \A i \in DOMAIN doc.policies :
          validateRADIUSRules(doc.policies[i]["rules"], IdSet(doc.groups), IdSet(doc.profiles))
     /\ optional(doc.fallback)
     /\ \A i \in DOMAIN doc.users : optional(doc.users[i]["radius_policy_id"])
     /\ \A i \in DOMAIN doc.groups : optional(doc.groups[i]["radius_policy_id"])
     /\ \A i \in DOMAIN doc.clients : optional(doc.clients[i]["access_policy_id"])

validateLimits(doc) == \A k \in DOMAIN doc.caps : doc.caps[k] > 0 => Len(doc[k]) <= doc.caps[k]

validateDocument(doc) ==
  LET groups == IdSet(doc.groups)
  IN /\ validateLimits(doc) /\ validateBootstrapTokens(doc.tokens)
     /\ Distinct(Ids(doc.groups)) /\ Distinct(Ids(doc.users)) /\ Distinct(Ids(doc.clients))
     /\ \A i \in DOMAIN doc.groups : validateRuleSet(doc.groups[i]["command_rules"])
     /\ \A i \in DOMAIN doc.clients : Named(doc.clients[i]["default_group_ids"], groups)
     /\ \A i \in DOMAIN doc.users : validateUser(doc.users[i], groups, IdSet(doc.clients))
     /\ validateRADIUSPolicyRefs(doc)

(* Compiling the policies refuses an illegal reply attribute, whoever      *)
(* wrote it.                                                               *)
RepliesLegal(services) ==
  \A i \in DOMAIN services : \A j \in DOMAIN services[i].reply : ReplyLegal(services[i].reply[j])
compile(doc) ==
  IF /\ validateDocument(doc)
     /\ \A i \in DOMAIN doc.users : RepliesLegal(doc.users[i]["rules"].services)
     /\ \A i \in DOMAIN doc.groups : RepliesLegal(doc.groups[i]["services"])
  THEN doc ELSE Refused

Load(file) ==
  IF /\ UsersWritten(file.users, file.env) /\ GroupsWritten(file.groups) /\ TokensWritten(file.tokens, file.env)
     /\ normalizeRADIUSPolicies(file.policies) /\ normalizeRADIUSReplyProfiles(file.profiles)
  THEN compile([users |-> normalizeUsers(file.users), groups |-> normalizeGroups(file.groups),
                clients |-> file.clients, policies |-> file.policies, profiles |-> file.profiles,
                tokens |-> file.tokens, fallback |-> TrimSpace(file.fallback), caps |-> file.caps])
  ELSE Refused

-----------------------------------------------------------------------------
(* The API                                                                 *)

(* What is shown of an object: no secrets, and no action where it is deny. *)
Secrets == {"login", "challenge", "enable"}
avViews(reply) == reply
serviceViews(rs) == [i \in DOMAIN rs |-> [rs[i] EXCEPT !.reply = avViews(@)]]
commandViews(rs) == rs
ruleSetView(rs) == [services |-> serviceViews(rs.services), commands |-> commandViews(rs.commands)]
Restrictions == {"client_ids", "valid_after", "valid_before"}
restrictionsView(u) == [k \in Restrictions |-> u[k]]
userView(u) ==
  [k \in (DOMAIN u \ (Secrets \cup Restrictions \cup {"rules"})) |-> u[k]]
  @@ "restrictions" :> restrictionsView(u) @@ "rules" :> ruleSetView(u["rules"])
groupView(g) ==
  [g EXCEPT !["services"] = serviceViews(@), !["command_rules"] = commandViews(@),
            !["default_command_action"] = IF @ = "deny" THEN "" ELSE @]

(* What is sent: permit is not a word of the API, a separator is its first *)
(* octet, and a matcher is taken as it is.                                 *)
parseWireAction(s) ==
  CASE s \in {"permit_add", "permit_replace", "deny"} -> s [] s = "Deny" -> "deny" [] OTHER -> ""
avsFromTrace(reply) == [i \in DOMAIN reply |-> [reply[i] EXCEPT !.separator = IF @ = "" THEN "=" ELSE @]]
serviceRulesFromView(rs) ==
  [i \in DOMAIN rs |-> [rs[i] EXCEPT !.action = parseWireAction(@), !.reply = avsFromTrace(@)]]
commandRulesFromView(rs) == [i \in DOMAIN rs |-> [rs[i] EXCEPT !.action = parseWireAction(@)]]
ruleSetFromView(rs) ==
  [services |-> serviceRulesFromView(rs.services), commands |-> commandRulesFromView(rs.commands)]
ActionsKnown(rs) == \A i \in DOMAIN rs : rs[i].action # ""
defaultCommandAction(s) == IF s \in {"", "deny", "Deny"} THEN "deny" ELSE ""

(* Seeded fault: the end of a user's validity is not carried over.         *)
restrictionsFromView_NoEnd(r) == [r EXCEPT !["valid_before"] = 0]
restrictionsFromView(r) == r

(* applySecret: an omitted secret stays, null or an empty reference clears *)
(* it, which an enabled user's login secret does not allow.                *)
applySecret(p, k, cur) == IF k \in DOMAIN p THEN (IF p[k] = "clear" THEN "" ELSE p[k]) ELSE cur[k]

(* A new secret lifts the demand to change it, unless the patch says so.   *)
Demanded(p, secret, must, cur) ==
  IF must \in DOMAIN p THEN p[must] ELSE IF secret \in DOMAIN p THEN FALSE ELSE cur[must]

applyUserPatch(cur, p) ==
  LET sent == (IF "rules" \in DOMAIN p THEN "rules" :> ruleSetFromView(p["rules"]) ELSE Nothing)
              @@ (IF "restrictions" \in DOMAIN p THEN restrictionsFromView(p["restrictions"]) ELSE Nothing)
              @@ [k \in DOMAIN p \ ({"rules", "restrictions"} \cup Secrets) |-> p[k]]
      next == [Over(sent, cur) EXCEPT
                 !["id"] = cur["id"], !["radius_policy_id"] = TrimSpace(@),
                 !["login"] = applySecret(p, "login", cur), !["challenge"] = applySecret(p, "challenge", cur),
                 !["enable"] = applySecret(p, "enable", cur),
                 !["must_change_login"] = Demanded(p, "login", "must_change_login", cur),
                 !["must_change_enable"] = Demanded(p, "enable", "must_change_enable", cur)]
  IN IF \/ ~ActionsKnown(next["rules"].services) \/ ~ActionsKnown(next["rules"].commands)
        \/ next["enabled"] /\ "login" \in DOMAIN p /\ next["login"] = ""
        \/ next["must_change_login"] /\ next["login"] = ""
        \/ next["must_change_enable"] /\ next["enable"] = ""
     THEN Refused ELSE next

applyGroupPatch(cur, p) ==
  LET next == [Over(p, cur) EXCEPT
                 !["id"] = cur["id"], !["radius_policy_id"] = TrimSpace(@),
                 !["services"] = IF "services" \in DOMAIN p THEN serviceRulesFromView(@) ELSE @,
                 !["command_rules"] = IF "command_rules" \in DOMAIN p THEN commandRulesFromView(@) ELSE @,
                 !["default_command_action"] = defaultCommandAction(@)]
  IN IF /\ ActionsKnown(next["services"]) /\ ActionsKnown(next["command_rules"])
        /\ next["default_command_action"] # ""
     THEN next ELSE Refused

NormalizeUserID(id) == CanonicalUsername(id)
userFromCreate(w) == applyUserPatch([NewUser EXCEPT !["id"] = NormalizeUserID(w["id"])], w)
groupFromCreate(w) == applyGroupPatch([NewGroup EXCEPT !["id"] = w["id"]], w)

(* What is published with one more object, or with one object replaced.    *)
(* Creating over a baseline object is StateManager's Override.             *)
Put(doc, kind, object) ==
  LET same == {i \in DOMAIN doc[kind] : doc[kind][i]["id"] = object["id"]}
  IN IF object["id"] = "" THEN Refused
     ELSE compile([doc EXCEPT ![kind] = IF same = {} THEN Append(@, object)
                                        ELSE [@ EXCEPT ![CHOOSE i \in same : TRUE] = object]])
CreateUser(doc, w) ==
  LET u == userFromCreate(w)
  IN IF u = Refused THEN Refused ELSE IF u["id"] \in IdSet(doc.users) THEN Refused ELSE Put(doc, "users", u)
CreateGroup(doc, w) ==
  LET g == groupFromCreate(w)
  IN IF g = Refused THEN Refused ELSE IF g["id"] \in IdSet(doc.groups) THEN Refused ELSE Put(doc, "groups", g)

-----------------------------------------------------------------------------
(* Properties                                                              *)

(* Every id of an accepted document names one object, and the id of a user *)
(* is what a login under any of its spellings looks for                    *)
(* (validateRADIUSPolicyRefs, validateUser, NormalizeUserID).              *)
ReferencesResolve(doc) ==
  LET one(objects, id) == Cardinality({i \in DOMAIN objects : objects[i]["id"] = id}) = 1
      all(objects, ids) == \A i \in DOMAIN ids : one(objects, ids[i])
      policy(id) == id = "" \/ one(doc.policies, id)
  IN /\ \A i \in DOMAIN doc.users :
          LET u == doc.users[i]
          IN /\ one(doc.users, CanonicalUsername(u["id"])) /\ all(doc.groups, u["group_ids"])
             /\ all(doc.clients, u["client_ids"]) /\ policy(u["radius_policy_id"])
     /\ \A i \in DOMAIN doc.groups : one(doc.groups, doc.groups[i]["id"]) /\ policy(doc.groups[i]["radius_policy_id"])
     /\ \A i \in DOMAIN doc.clients : all(doc.groups, doc.clients[i]["default_group_ids"])
     /\ \A i \in DOMAIN doc.policies : \A j \in DOMAIN doc.policies[i]["rules"] :
          LET r == doc.policies[i]["rules"][j] IN all(doc.groups, r.groups_any) /\ all(doc.profiles, r.profiles)
     /\ policy(doc.fallback)

(* The keys of a written user as the API groups them.                      *)
AsSent(w) ==
  LET r == DOMAIN w \cap Restrictions
  IN [k \in DOMAIN w \ Restrictions |-> w[k]]
     @@ (IF r = {} THEN Nothing ELSE "restrictions" :> Over(w, [k \in Restrictions |-> NewUser[k]]))

(* The words only a file may use.                                          *)
FileWords == {"permit", "deny "}
Worded(rs) == \A i \in DOMAIN rs : rs[i].action \notin FileWords

(* An object means one thing, whichever way it comes in: what a file may   *)
(* write, the API accepts with the same result (normalizeUsers and         *)
(* normalizeGroups against applyUserPatch and applyGroupPatch), unless it  *)
(* uses a word of the file.                                                *)
OneMeaning(file) ==
  LET doc == Load(file)
      user == file.users[1]
      group == file.groups[1]
      rules == Over(user, NewUser)["rules"]
      more == Over(group, NewGroup)
  IN doc # Refused =>
       /\ Worded(rules.services) /\ Worded(rules.commands) =>
            CreateUser([doc EXCEPT !.users = Tail(@)], AsSent(user))
              = [doc EXCEPT !.users = Append(Tail(@), Head(@))]
       /\ Worded(more["services"]) /\ Worded(more["command_rules"])
          /\ more["default_command_action"] \notin FileWords =>
            groupFromCreate(group) = doc.groups[1]

(* What the API shows of an object, sent back, changes nothing             *)
(* (userView and groupView against the patches).                           *)
EchoesAreNeutral(doc) ==
  /\ \A i \in DOMAIN doc.users : applyUserPatch(doc.users[i], userView(doc.users[i])) = doc.users[i]
  /\ \A i \in DOMAIN doc.groups : applyGroupPatch(doc.groups[i], groupView(doc.groups[i])) = doc.groups[i]

(* The objects of a configuration hold together: see the parts.            *)
ObjectsHold(file, w) ==
  LET doc == Load(file)
      made == IF doc = Refused THEN Refused ELSE CreateUser(doc, w)
  IN /\ OneMeaning(file)
     /\ \A d \in {doc, made} \ {Refused} : ReferencesResolve(d) /\ EchoesAreNeutral(d)

=============================================================================
