----------------------------- MODULE MCObjects -----------------------------
(***************************************************************************)
(* The documents of users, groups, policies and tokens MCDecisions draws:  *)
(* a small document with one object varied, then a user to create in it.   *)
(***************************************************************************)
EXTENDS Integers, Sequences, FiniteSets, TLC

Match(exact, pattern) == [exact |-> exact, pattern |-> pattern]
Cmd(id, priority, action, command) ==
  [id |-> id, priority |-> priority, action |-> action, command |-> command, arguments |-> Match("", "p")]
Svc(service, protocol, action, reply) ==
  [service |-> service, protocol |-> protocol, action |-> action, reply |-> reply]
Av(name, separator) == [name |-> name, separator |-> separator, value |-> "v"]

Actions == {"permit", "permit_add", "permit_replace", "deny", "Deny", "deny ", "other", ""}
Services ==
  {<<>>} \cup {<<Svc("s", p, a, <<>>)>> : p \in {"", "ip"}, a \in Actions}
  \cup {<<Svc(s, "", "deny", <<Av(n, sep)>>)>> : s \in {"", "s"}, n \in {"", "n"}, sep \in {"", "=", "*", "~"}}
Commands ==
  {<<>>} \cup {<<Cmd("r", 1, a, Match("show", ""))>> : a \in Actions}
  \cup {<<Cmd(i, 1, "deny", m), Cmd("r", n, "permit_add", Match("", "p"))>> :
          i \in {"", "r", "q"}, n \in {1, 2},
          m \in {Match("", ""), Match("e", ""), Match("e", "p"), Match("", "(")}}
Rules == {[services |-> s, commands |-> <<>>] : s \in Services}
         \cup {[services |-> <<>>, commands |-> c] : c \in Commands}

Policies == {"", "p", " p", "gone"}
Flag(key) == {key :> b : b \in BOOLEAN}
Empty == [k \in {} |-> TRUE]
UserParts ==
  {"rules" :> r : r \in Rules}
  \cup {"group_ids" :> g : g \in {<<"g">>, <<"h", "g">>, <<"gone">>}}
  \cup {"client_ids" :> c @@ "valid_before" :> t : c \in {<<>>, <<"c">>, <<"gone">>}, t \in {0, 1, 2}}
  \cup {"valid_after" :> 2 @@ "valid_before" :> t : t \in {0, 1, 2}}
  \cup {"login" :> l @@ f : l \in {"file", "environment"}, f \in Flag("must_change_login") \cup {Empty}}
  \cup {"enable" :> l @@ f : l \in {"file", "environment"}, f \in Flag("must_change_enable")}
  \cup Flag("must_change_login") \cup Flag("enabled")
  \cup {"radius_policy_id" :> p : p \in Policies} \cup {Empty}
GroupParts ==
  {"services" :> s @@ "priority" :> 1 : s \in Services} \cup {"command_rules" :> c : c \in Commands}
  \cup {"default_command_action" :> a @@ e : a \in {"deny", "Deny", "deny ", "permit_add", ""},
          e \in Flag("enabled")}
  \cup {"radius_policy_id" :> p : p \in Policies} \cup {Empty}

Attr(name, vendor, code) == [name |-> name, vendor |-> vendor, code |-> code]
With(a, op, value, hex) ==
  [name |-> a.name, vendor |-> a.vendor, code |-> a.code, op |-> op, value |-> value, hex |-> hex]
Attrs == {Attr(n, v, c) : n \in {"", "n"}, v \in {-1, 9}, c \in {-1, 0, 1, 255, 256}}
Good == With(Attr("n", -1, -1), "equals", "v", "")
RRule(id, effect, method, groups, profiles, attrs) ==
  [id |-> id, effect |-> effect, method |-> method, groups_any |-> groups, profiles |-> profiles,
   attributes |-> attrs]
RuleParts ==
  {<<RRule("r", e, m, <<>>, <<>>, <<Good>>)>> : e \in {"permit", "deny", "error", ""}, m \in {"", "pap", "x"}}
  \cup {<<RRule("r", "deny", "", g, f, <<>>), RRule(i, "permit", "", <<"g">>, <<"f">>, <<>>)>> :
          g \in {<<"g">>, <<"gone">>}, f \in {<<"f">>, <<"f", "gone">>}, i \in {"", "r", "q"}}
  \cup {<<RRule("r", "permit", "", <<>>, <<>>, <<With(a, "present", "", "")>>)>> : a \in Attrs}
  \cup {<<RRule("r", "permit", "", <<>>, <<>>, <<With(Attr("n", -1, -1), o, v, h)>>)>> :
          o \in {"equals", "absent", ""}, v \in {"", "v"}, h \in {"", "00", "odd"}}
ProfileParts ==
  {<<With(a, "", "v", "")>> : a \in Attrs}
  \cup {<<With(Attr("n", -1, -1), "", v, h)>> : v \in {"", "v"}, h \in {"", "00", "odd"}}
TokenParts ==
  {<<"id" :> i @@ "token" :> t @@ "scopes" :> s>> : i \in {"", "t"}, t \in {"", "file", "environment"},
     s \in {<<>>, <<"state:read">>, <<"tokens:manage", "other">>}}

User(id) == "id" :> id
Client(groups, policy) == "id" :> "c" @@ "default_group_ids" :> groups @@ "access_policy_id" :> policy
Plain ==
  [users |-> <<User("ann") @@ "group_ids" :> <<"g">> >>, groups |-> <<User("g"), User("h")>>,
   clients |-> <<Client(<<"g">>, "p")>>,
   policies |-> <<"id" :> "p" @@ "rules" :> <<RRule("r", "permit", "", <<"g">>, <<"f">>, <<Good>>)>> >>,
   profiles |-> <<"id" :> "f" @@ "attributes" :> <<Good>> >>,
   tokens |-> <<>>, fallback |-> "", env |-> FALSE,
   caps |-> [users |-> 2, groups |-> 2, clients |-> 0, tokens |-> 1]]

(* What is varied, and the documents with it.                              *)
Parts ==
  {[kind |-> "users", value |-> u] : u \in UserParts} \cup {[kind |-> "groups", value |-> g] : g \in GroupParts}
  \cup {[kind |-> "policies", value |-> "conditions" :> r] : r \in RuleParts}
  \cup {[kind |-> "profiles", value |-> "attributes" :> a] : a \in ProfileParts}
  \cup {[kind |-> "tokens", value |-> "tokens" :> t] : t \in TokenParts} \cup {[kind |-> "more", value |-> Empty]}
Varied(p) ==
  CASE p.kind = "users" -> {[Plain EXCEPT !.users = <<User(i) @@ p.value>>] : i \in {"ann", "ann/wide", "?", ""}}
    [] p.kind = "groups" -> {[Plain EXCEPT ![p.kind] = <<User("g") @@ p.value, User(i)>>] : i \in {"h", "g"}}
    [] p.kind = "policies" -> {[Plain EXCEPT ![p.kind][1]["rules"] = p.value["conditions"]]}
    [] p.kind = "profiles" -> {[Plain EXCEPT ![p.kind][1]["attributes"] = p.value["attributes"]]}
    [] p.kind = "tokens" -> {[Plain EXCEPT !.tokens = t] : t \in {p.value["tokens"], p.value["tokens"] \o p.value["tokens"]}}
    [] OTHER -> {[Plain EXCEPT !.users = <<User("ann/wide"), User(i)>>] : i \in {"ann", "bob"}}
                \cup {[Plain EXCEPT !.fallback = f, !.clients[1] = Client(g, a)] :
                        f \in Policies, g \in {<<>>, <<"g">>, <<"gone">>}, a \in Policies}
(* The user that is then created: another, or the first under another      *)
(* spelling, with the same keys.                                           *)
Created(p) ==
  LET restricted == DOMAIN p.value \cap {"client_ids", "valid_after", "valid_before"}
      given == [k \in DOMAIN p.value \ restricted |-> p.value[k]]
      limits == "client_ids" :> <<>> @@ "valid_after" :> 0 @@ "valid_before" :> 0
      keys == CASE p.kind # "users" -> {Empty, "login" :> "clear", "login" :> "clear" @@ "enabled" :> FALSE}
                [] p.kind = "users" /\ restricted = {} -> {given}
                [] OTHER -> {given @@ "restrictions" :> ([k \in restricted |-> p.value[k]] @@ limits)}
  IN {User(i) @@ w : i \in {"bob", "ann/wide"}, w \in keys}

Drafts(p) ==
  {[file |-> [d EXCEPT !.env = e], user |-> w] : d \in Varied(p), e \in BOOLEAN, w \in Created(p)}

=============================================================================
