---------------------------- MODULE MCDecisions ----------------------------
(***************************************************************************)
(* The decisions of the daemon on small instances: the conversations of    *)
(* Aaa, one user and one client at a time; the document of a client as     *)
(* ClientEndpoints keeps it; and the pure engines, each on every input of  *)
(* a small domain.  An input is drawn in two steps, so that the workers    *)
(* share the domain.                                                       *)
(***************************************************************************)
EXTENDS Aaa, ClientMatch, ClientEndpoints, TLC

VARIABLES scene, input
mcvars == <<vars, scene, input, client>>

-----------------------------------------------------------------------------
(* Conversations and access attempts                                       *)

MCCanonical == "U1" :> "u1"
Mem(w) == [at |-> "memory", word |-> w]
File == [at |-> "file", word |-> ""]
Account(login, enable, must, more) ==
  [enabled |-> more # "disabled", clients |-> IF more = "restricted" THEN {"c2"} ELSE {}, must |-> must,
   shadowable |-> more # "fixed", secret |-> [login |-> login, enable |-> enable, challenge |-> File]]
Doc(u, methods, permits) ==
  [users |-> "u1" :> u, clients |-> "c1" :> [enabled |-> TRUE, methods |-> methods], permits |-> permits]
PlainDoc == Doc(Account(Mem("a"), Mem("b"), {}, "plain"), {}, {"u1"})
MCDocuments ==
  {PlainDoc,
   Doc(Account(File, Mem(""), {"login", "enable"}, "plain"), {}, {"u1"}),
   Doc(Account(Mem("a"), Mem("b"), {"login", "enable"}, "fixed"), {}, {}),
   Doc(Account(Mem("a"), File, {"login"}, "plain"), {"ascii", "pap", "enable"}, {"u1"}),
   Doc(Account(Mem("b"), Mem("a"), {}, "restricted"), {}, {"u1"}),
   Doc(Account(Mem("b"), Mem("a"), {}, "disabled"), {}, {"u1"})}
Holding(w) == [login |-> w, enable |-> "b", challenge |-> w]
MCContents == {Holding(w) : w \in {"a", "b", ""}}
St(action, service, type, user) ==
  [action |-> action, service |-> service, type |-> type, user |-> user, client |-> "c1",
   data |-> "", shaped |-> TRUE, overPriv |-> FALSE, fits |-> TRUE]
MCStarts ==
  {St("login", "login", "ascii", u) : u \in {"u1", ""}}
  \cup {St("login", "enable", "ascii", "U1"), St("chpass", "login", "ascii", ""),
        St("chpass", "login", "ascii", "U1")}
  \cup {[St("login", "login", t, "U1") EXCEPT !.data = w] : t \in OneShot, w \in {"a", "b"}}
  \cup {St("sendauth", "login", "ascii", "u1"), St("chpass", "enable", "ascii", "u1"),
        St("login", "none", "pap", "u1"), St("chpass", "login", "pap", "u1")}
  \cup {[St("login", "enable", "ascii", "u1") EXCEPT !.overPriv = TRUE],
        [St("login", "login", "chap", "u1") EXCEPT !.shaped = FALSE],
        [St("login", "login", "ascii", "u1") EXCEPT !.fits = FALSE],
        [St("login", "login", "ascii", "u1") EXCEPT !.client = "c2"]}
MCAttempts ==
  {[user |-> u, client |-> "c1", method |-> m, word |-> w] :
     u \in {"U1", "x"}, m \in {"password", "eap", "token"}, w \in {"a", "b"}}

(* The world moves only while somebody is waiting for a decision.  During  *)
(* a login, which is bound to the document of its START, it moves to half  *)
(* of the documents.                                                       *)
Later == {d \in Documents : d.clients["c1"].methods = {} /\ d.users["u1"].clients = {} /\ d.permits # {}}
Conversations ==
  \/ scene = "login" /\ \E k \in Keys : Conversation(k) /\ (sessions[k] = NoSession => reply[k] = NoReply)
  \/ scene = "access" /\ ((\E a \in Attempts : AdmitAccess(a)) \/ AuthenticateAccess)
  \/ /\ \/ scene = "login" /\ \E k \in Keys : sessions[k] # NoSession
        \/ scene = "access" /\ access.verdict = "pending"
     /\ \/ \E d \in IF scene = "login" THEN Later ELSE Documents : Publish(d)
        \/ \E c \in Contents : RotateFiles(c)
        \/ \E u \in Users : Expire(u)

-----------------------------------------------------------------------------
(* Clients: two with everything that can differ, or three that differ in   *)
(* address, mode and priority.                                             *)

Cidr(form, addr, bits) == [form |-> form, addr |-> addr, bits |-> bits]
CidrSets == {{Cidr("v4", 0, 0)}, {Cidr("v4", 0, 1)}, {Cidr("v4", 0, 1), Cidr("v6", 0, 1)},
             {Cidr("mapped", 0, 6), Cidr("v4", 3, 1)}}
Client(id, pri, mode, tr, cidrs, sans) ==
  [id |-> id, enabled |-> TRUE, priority |-> pri, mode |-> mode, transports |-> tr,
   cidrs |-> {NormalizeCIDR(s) : s \in cidrs}, sans |-> sans,
   radius |-> [udp |-> IF mode = "addr" THEN {"access"} ELSE {},
               tls |-> IF "tls" \in tr THEN {"access"} ELSE {}]]
Both == {"legacy", "tls"}
Some(id, transports) ==
  {Client(id, pri, mode, tr, cs, sans) :
     pri \in 1..2, mode \in {"cert", "addr"}, tr \in transports,
     cs \in CidrSets, sans \in {{}, {"a"}, {"b"}}}
Few(id, priorities) ==
  {Client(id, pri, mode, Both, cs, {}) : pri \in priorities, mode \in {"cert", "addr"}, cs \in CidrSets}
Ips == {[form |-> f, addr |-> a] : f \in {"v4", "mapped", "v6"}, a \in {0, 1, 3}}
Certs == {NoCert, {}, {"a"}, {"a", "b"}}

(* The client of a peer is the one the documentation names, for every peer *)
(* and whatever else is configured: see PeerDecided.                       *)
ClientDecided ==
  scene = "match" /\ input.whole =>
    \A ip \in Ips, cert \in Certs : PeerDecided(input.value, "access", ip, cert)

-----------------------------------------------------------------------------
(* TACACS+ authorization                                                   *)

MCMaxArgs == 2
T == INSTANCE Policy WITH MaxArgs <- MCMaxArgs, Now <- 5

Svc(action, n) ==
  [service |-> "shell", protocol |-> "none", action |-> action,
   reply |-> [k \in 1..n |-> [name |-> "priv-lvl", len |-> 10, encodings |-> {"privilege"}]]]
Cmd(id, pri, action, cmds) ==
  [id |-> id, priority |-> pri, action |-> action, command |-> cmds, args |-> {<<>>}, reply |-> <<>>]
RuleSets ==
  {[services |-> s, commands |-> c] :
     s \in {<<>>, <<Svc("permit_add", 1)>>, <<Svc("deny", 1), Svc("permit_add", 1)>>, <<Svc("permit_replace", 3)>>},
     c \in {<<>>, <<Cmd(1, 2, "permit_add", {"show"}), Cmd(2, 1, "deny", {"show", "conf"})>>,
            <<Cmd(1, 2, "permit_add", {"show"}), Cmd(2, 1, "deny", {"conf"})>>}}
PlainSets == {rs \in RuleSets : Len(rs.services) < 2}
TUsers ==
  {[enabled |-> TRUE, groups |-> g, clients |-> cl, validAfter |-> 0, validBefore |-> before, rules |-> r] :
     g \in {<<>>, <<1>>, <<2, 1, 2>>}, cl \in {{}, {"d"}}, before \in {0, 5}, r \in PlainSets}
TGroup(en, pri, rules) == [enabled |-> en, priority |-> pri, rules |-> rules]
TInputs(u) ==
  {[users |-> ("u" :> u), groups |-> (1 :> g1 @@ 2 :> g2),
    clients |-> ("c" :> [enabled |-> TRUE, defaults |-> <<2>>]),
    fallback |-> [services |-> <<Svc("permit_add", 0)>>, commands |-> <<>>]] :
     g1 \in {TGroup(TRUE, 2, r) : r \in RuleSets},
     g2 \in {TGroup(en, p, r) : en \in BOOLEAN, p \in {1, 2}, r \in {x \in PlainSets : x.commands # <<>>}}}
Arg(n, v) == [name |-> n, value |-> v]
TRequests ==
  {[user |-> u, client |-> "c", service |-> "shell", protocol |-> "none", cmd |-> "none", cmdArgs |-> <<>>, args |-> a] :
     u \in {"u", "x"},
     a \in {<<>>, <<Arg("cmd", "show")>>, <<Arg("cmd", "conf")>>, <<Arg("cmd", "none"), Arg("cmd", "show")>>}}

-----------------------------------------------------------------------------
(* RADIUS policy                                                           *)

Entry2(vendor, code, kind, single, request, accept, reject) ==
  [vendor |-> vendor, code |-> code, kind |-> kind, single |-> single, secret |-> FALSE, owned |-> FALSE,
   request |-> request, accept |-> accept, reject |-> reject]
MCDictionary ==
  ("Filter-Id" :> Entry2(0, 11, "text", FALSE, FALSE, TRUE, FALSE))
  @@ ("Session-Timeout" :> Entry2(0, 27, "int", TRUE, FALSE, TRUE, FALSE))
  @@ ("Reply-Message" :> Entry2(0, 18, "text", FALSE, FALSE, TRUE, TRUE))
  @@ ("NAS-Port" :> Entry2(0, 5, "int", TRUE, TRUE, FALSE, FALSE))
  @@ ("Cisco-AVPair" :> Entry2(9, 1, "text", FALSE, TRUE, TRUE, TRUE))
  @@ ("Vendor-Specific" :> Entry2(0, 26, "vsa", FALSE, TRUE, TRUE, TRUE))
R == INSTANCE RadiusPolicy WITH Dictionary <- MCDictionary

Ref(name, vendor, code) == [name |-> name, vendor |-> vendor, code |-> code]
Val(k, v) == [kind |-> k, v |-> v]
Reply(ref, value) == [ref |-> ref, value |-> value]
Profiles ==
  [p1 |-> <<Reply(Ref("Filter-Id", 0, 0), Val("text", "a")), Reply(Ref("none", 0, 27), Val("int", 1))>>,
   p2 |-> <<Reply(Ref("Reply-Message", 0, 18), Val("text", "m"))>>,
   p3 |-> <<Reply(Ref("Session-Timeout", 0, 0), Val("int", 2)), Reply(Ref("none", 9, 1), Val("text", "x"))>>,
   p4 |-> <<Reply(Ref("Vendor-Specific", 99, 7), Val("vsa", "x"))>>]
M(g, m, a) == [groups |-> g, method |-> m, attrs |-> a]
Port == Ref("NAS-Port", 0, 0)
Rules ==
  {M({}, "none", <<>>), M({1}, "none", <<>>), M({2}, "pap", <<>>),
   M({}, "none", <<[ref |-> Port, op |-> "equals", value |-> Val("int", 1)]>>),
   M({}, "none", <<[ref |-> Ref("none", 0, 5), op |-> "absent", value |-> Val("none", 0)]>>)}
Rule(id, en, m, eff, ps) == [id |-> id, enabled |-> en, match |-> m, effect |-> eff, profiles |-> ps]
RPolicies ==
  {<<Rule(1, TRUE, m, eff, ps)>> : m \in Rules, eff \in {"permit", "deny"},
     ps \in {<<>>, <<"p2">>, <<"p1", "p2">>, <<"p1", "p3">>, <<"p4", "p3">>}}
  \cup {<<Rule(1, en, m, "deny", <<"p2">>), Rule(2, TRUE, M({}, "none", <<>>), "permit", <<"p1">>)>> :
          m \in Rules, en \in BOOLEAN}
RSimple ==
  {<<Rule(1, TRUE, M({}, "none", <<>>), "deny", <<>>)>>, <<Rule(1, TRUE, M({1}, "none", <<>>), "permit", <<>>)>>}
RInputs(pa) ==
  {[policies |-> [a |-> pa, b |-> pb, c |-> pc], profiles |-> Profiles, fallback |-> bound[1],
    users |-> ("u" :> [enabled |-> who[1], groups |-> who[2], policy |-> bound[2]]),
    groups |-> (1 :> [enabled |-> TRUE, priority |-> 1, policy |-> "b"]
                @@ 2 :> [enabled |-> TRUE, priority |-> gp, policy |-> "c"]),
    clients |-> ("c" :> [enabled |-> TRUE, defaults |-> <<2, 1>>, endpoints |-> eps])] :
     pb \in RSimple, pc \in {<<>>, <<Rule(3, TRUE, M({}, "pap", <<>>), "permit", <<"p3">>)>>},
     bound \in {<<"none", "none">>, <<"none", "a">>, <<"a", "none">>},
     who \in {<<TRUE, <<>>>>, <<TRUE, <<2>>>>, <<FALSE, <<2>>>>}, gp \in {0, 1},
     eps \in {<<"a">>, <<"none", "a">>}}
RRequests ==
  {[user |-> u, client |-> c, endpoint |-> ep, method |-> "pap", groups |-> <<1>>, attrs |-> at] :
     u \in {"u", "x"}, c \in {"c", "d"}, ep \in {0, 2},
     at \in {<<>>, <<[key |-> R!Key(0, 5), value |-> Val("int", 1)]>>}}

(* Both policy engines decide by the rule the document means: see          *)
(* AuthorizedByRule of Policy and AcceptedByRule of RadiusPolicy.          *)
DecidedByRule ==
  /\ scene = "policy" /\ input.whole => \A r \in TRequests : T!AuthorizedByRule(input.value, r)
  /\ scene = "radius" /\ input.whole => \A r \in RRequests : R!AcceptedByRule(input.value, r)

-----------------------------------------------------------------------------
(* Client documents                                                        *)

In == INSTANCE MCClientDocs
MCFiles == In!MCFiles
MCWrites == In!MCWrites

-----------------------------------------------------------------------------
(* Packets                                                                 *)

I == INSTANCE MCWire
W == INSTANCE TacacsCodec WITH Base <- 16, Printable <- 3..14, Mandatory <- I!Eq, Optional <- I!Star,
                               Follow <- 9, MaxBody <- 44, MinChallenge <- 2, Response <- 3, MSChallenges <- {3, 5}
P == INSTANCE RadiusCodec WITH Base <- 16, AuthSize <- 2, VendorSize <- 2, VendorSpecific <- 9,
                               Cisco <- 9, AVPair <- 1, Microsoft <- 55, SecretTypes <- {1, 2},
                               MaxPacket <- 34, MaxAttrs <- 2, MaxValues <- 16

A == INSTANCE AcctRecord WITH Base <- 4, Width <- 2, MaxArguments <- 3

Layouts ==
  [AuthenStart |-> W!AuthenStart, AuthenContinue |-> W!AuthenContinue, AuthenReply |-> W!AuthenReply,
   AuthorRequest |-> W!AuthorRequest, AuthorResponse |-> W!AuthorResponse,
   AcctRequest |-> W!AcctRequest, AcctReply |-> W!AcctReply]

(* The codec and the AAA service classify a START alike: what the codec    *)
(* lets through is the conversation that is then begun.                    *)
StartsAgree ==
  \A minor \in 0..2, a \in {"login", "chpass", "sendauth"}, s \in W!KnownServices \cup {"other"},
     t \in {"ascii", "other"} \cup OneShot :
    LET st == St(a, s, t, "u1")
        flow == W!ClassifyAuthenStart(minor, st)
    IN flow \notin {"fail", "error"} => classifyStart(st) = flow

(* What is sent is what the peer reads, what is accepted says nothing      *)
(* beyond what was read from it, and what is taken for a repetition says   *)
(* nothing new: see BodyFaithful of TacacsCodec, PacketFaithful of         *)
(* RadiusCodec and IdentityFaithful of AcctRecord.                         *)
WireFaithful ==
  scene = "wire" =>
    /\ input.drawn = 0 =>
         /\ StartsAgree
         /\ \A n \in 0..12 : W!ChallengeFaithful([i \in 1..n |-> i])
         /\ \A n \in 0..10, t \in {1, 3} : P!VendorFaithful(I!Long(n), t)
    /\ input.whole /\ input.value.body = "radius" =>
         \A max \in {0, 5, 22} : P!PacketFaithful(input.value.msg, max)
    /\ input.whole /\ input.value.body = "accounting" =>
         \A q \in I!Accountings(input.value.first) : A!IdentityFaithful(input.value.msg, q)
    /\ input.whole /\ input.value.body \in I!Bodies =>
         W!BodyFaithful(Layouts[input.value.body], input.value.msg)

-----------------------------------------------------------------------------
(* Configuration files                                                     *)

F == INSTANCE MCConfigFiles
C == INSTANCE ConfigFile

(* A file gives the daemon it describes, in either schema: see FileHolds   *)
(* of ConfigFile.                                                          *)
FileHolds == scene = "file" /\ input.whole => C!FileHolds(input.value)

O == INSTANCE MCObjects
B == INSTANCE ConfigObjects

(* The users, groups, policies and tokens of an accepted document hold     *)
(* together, come in alike by file and by API, and survive being sent back *)
(* as they are shown: see ObjectsHold of ConfigObjects.                    *)
ObjectsHold == scene = "objects" /\ input.whole => B!ObjectsHold(input.value.file, input.value.user)

-----------------------------------------------------------------------------
Nothing == [drawn |-> 0, whole |-> FALSE]
Part(value) == [drawn |-> 1, whole |-> FALSE, value |-> value]
Whole(value) == [drawn |-> 2, whole |-> TRUE, value |-> value]

Draw ==
  /\ UNCHANGED <<vars, scene, client>>
  /\ \/ /\ input = Nothing
        /\ \/ scene = "match" /\ \E x \in Some("c1", {Both}) \cup Few("c3", {1}) : input' = Part(x)
           \/ scene = "policy" /\ \E u \in TUsers : input' = Part(u)
           \/ scene = "radius" /\ \E pa \in RPolicies : input' = Part(pa)
           \/ scene = "file" /\ \E p \in F!Parts : input' = Part(p)
           \/ scene = "objects" /\ \E p \in O!Parts : input' = Part(p)
           \/ /\ scene = "wire"
              /\ \/ \E b \in I!Bodies : input' = Part([body |-> b, first |-> <<>>])
                 \/ \E a \in I!Attributes : input' = Part([body |-> "radius", first |-> a])
                 \/ \E a \in I!AcctStatuses : input' = Part([body |-> "accounting", first |-> a])
     \/ /\ input.drawn = 1
        /\ \/ /\ scene = "match" /\ input.value.id = "c1"
              /\ \E y \in Some("c2", {{"tls"}, Both}) : input' = Whole({input.value, y})
           \/ /\ scene = "match" /\ input.value.id = "c3"
              /\ \E x \in Few("c1", 1..2), y \in Few("c2", 1..2) : input' = Whole({input.value, x, y})
           \/ scene = "policy" /\ \E in \in TInputs(input.value) : input' = Whole(in)
           \/ scene = "radius" /\ \E in \in RInputs(input.value) : input' = Whole(in)
           \/ scene = "file" /\ \E f \in F!Files(input.value) : input' = Whole(f)
           \/ scene = "objects" /\ \E d \in O!Drafts(input.value) : input' = Whole(d)
           \/ /\ scene = "wire"
              /\ \E msg \in CASE input.value.body = "radius" -> I!Packets(input.value.first)
                              [] input.value.body = "accounting" -> I!Accountings(input.value.first)
                              [] OTHER -> I!Messages(input.value.body) :
                   input' = Whole(input.value @@ "msg" :> msg)

MCInit ==
  /\ Init
  /\ scene \in {"login", "access", "match", "policy", "radius", "client", "wire", "file", "objects"}
  /\ scene \notin {"login", "access"} => current.doc = PlainDoc /\ files = Holding("")
  /\ input = Nothing
  /\ CeInit

MCNext ==
  \/ Draw
  \/ Conversations /\ UNCHANGED <<scene, input, client>>
  \/ scene = "client" /\ CeNext /\ UNCHANGED <<vars, scene, input>>

MCSpec == MCInit /\ [][MCNext]_mcvars
ClientSpec == (MCInit /\ scene = "client") /\ [][MCNext]_mcvars

=============================================================================
