---------------------------- MODULE MCClientDocs ---------------------------
(***************************************************************************)
(* Client documents on small instances: files in the flatten form, in the  *)
(* endpoint form and in both; requests that touch one thing or several.    *)
(***************************************************************************)
EXTENDS Naturals, Sequences

None == "none"
TacacsRoles == <<"authentication", "authorization", "accounting">>

Tac(id, transport, roles, block) ==
  [id |-> id, protocol |-> "tacacs", transport |-> transport, roles |-> roles, block |-> block]
Rad(id, transport, roles, block) ==
  [id |-> id, protocol |-> "radius", transport |-> transport, roles |-> roles, block |-> block]

Raw(transports, secret, methods, acct, endpoints) ==
  [id |-> "c", mode |-> {}, cidrs |-> TRUE, transports |-> transports, secret |-> secret, life |-> None,
   methods |-> methods, service |-> {}, groups |-> {}, acct |-> acct, endpoints |-> endpoints]
RawTac(secret, methods) ==
  [secret |-> secret, life |-> None, methods |-> methods, service |-> {}, groups |-> {}, acct |-> {}]
RawRad(secret, methods) == [secret |-> secret, life |-> None, methods |-> methods, status |-> {}, knobs |-> {}]
EndpointLists ==
  {<<>>, <<Tac("a", "tcp", <<"authentication">>, {RawTac("s1", {"pap"})})>>,
   <<Tac("a", "tcp", TacacsRoles, {}), Tac("b", "tls", TacacsRoles, {})>>,
   <<Tac("a", "tcp", TacacsRoles, {RawTac("none", {})}), Rad("r", "udp", <<"accounting">>, {RawRad("s2", {})})>>,
   <<Tac("a", "tcp", TacacsRoles, {RawTac("s1", {"pap"})}), Tac("b", "tls", TacacsRoles, {RawTac("none", {})})>>,
   <<Rad("r", "udp", <<"access">>, {RawRad("s2", {})}),
     Rad("t", "tls", <<"access", "dynamic_authorization">>, {RawRad("s1", {"eap"})})>>}
MCFiles ==
  {Raw(ts, s, m, ac, eps) :
     ts \in {<<>>, <<"legacy">>, <<"legacy", "tls">>, <<"legacy", "legacy">>},
     s \in {"none", "s1"}, m \in {{}, {"pap"}}, ac \in {{}, {"off"}}, eps \in EndpointLists}
  \cup {[Raw(<<"tls">>, "none", {}, {}, <<>>) EXCEPT !.mode = {"certificate_only"}, !.cidrs = FALSE],
        [Raw(<<"legacy">>, "s1", {}, {}, <<>>) EXCEPT !.life = "l1", !.service = {"login"}, !.groups = {"g"}],
        [Raw(<<"legacy">>, "s1", {}, {}, <<>>) EXCEPT !.groups = {"h"}],
        Raw(<<"legacy">>, "weak", {}, {}, <<>>)}

Nothing ==
  [match |-> {}, secret |-> {}, life |-> {}, auth |-> {}, groups |-> {}, acct |-> {},
   endpoints |-> {}, radius |-> {}]
WriteTac(secret, methods, acct) ==
  {[secret |-> secret, life |-> {}, methods |-> methods, service |-> None, groups |-> {}, acct |-> acct]}
WriteRad(secret, methods, status) ==
  {[secret |-> secret, life |-> {}, methods |-> methods, status |-> status, knobs |-> {}]}
Lists ==
  {<<>>, <<Tac("a", "tcp", <<"authentication">>, WriteTac({"s2"}, {"pap"}, {"on"}))>>,
   <<Tac("a", "tcp", TacacsRoles, WriteTac({}, {}, {})), Tac("b", "tcp", TacacsRoles, WriteTac({"s1"}, {"pap"}, {}))>>,
   <<Rad("r", "udp", <<"access">>, WriteRad({}, {}, {}))>>,
   <<Rad("q", "udp", <<"accounting">>, WriteRad({}, {}, {"start"}))>>,
   <<Tac("tacacs-legacy", "tcp", TacacsRoles, WriteTac({}, {"pap"}, {"on"})),
     Rad("r", "udp", <<"accounting">>, {}), Rad("t", "tls", <<"access">>, WriteRad({"s2"}, {"eap"}, {}))>>}
View(enabled, roles, secret, methods) ==
  [enabled |-> enabled, roles |-> roles, secret |-> secret, life |-> {}, methods |-> methods,
   status |-> {}, knobs |-> {}]
Views ==
  {View({FALSE}, <<>>, {}, {}), View({}, <<>>, {"s1"}, {}), View({}, <<"access", "accounting">>, {}, {}),
   View({}, <<"accounting">>, {"s2"}, {{}}), View({}, <<"access">>, {"clear"}, {{"eap"}})}
Match(ts) == [transports |-> ts, mode |-> {}, cidrs |-> TRUE]
Flatten ==
  {Nothing,
   [Nothing EXCEPT !.match = {Match(<<"legacy">>)}, !.secret = {"s1"}],
   [Nothing EXCEPT !.match = {Match(<<"tls", "legacy">>)}],
   [Nothing EXCEPT !.match = {Match(<<>>)}, !.secret = {"clear"}],
   [Nothing EXCEPT !.match = {Match(<<"tls">>)}, !.secret = {"clear"}],
   [Nothing EXCEPT !.match = {[Match(<<"tls">>) EXCEPT !.mode = {"certificate_only"}, !.cidrs = FALSE]}],
   [Nothing EXCEPT !.secret = {"s2"}, !.life = {"l1"}],
   [Nothing EXCEPT !.auth = {[methods |-> {"pap"}, service |-> "login"]}],
   [Nothing EXCEPT !.groups = {{"g"}}, !.acct = {"off"}],
   [Nothing EXCEPT !.groups = {{"h"}}]}
MCWrites ==
  {[w EXCEPT !.endpoints = e, !.radius = r] :
     w \in Flatten, e \in {{}} \cup {{l} : l \in Lists}, r \in {{}} \cup {{v} : v \in Views}}

=============================================================================
