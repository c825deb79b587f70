-------------------------- MODULE ClientEndpoints --------------------------
(***************************************************************************)
(* The document of one client and the two forms it is written in.  The     *)
(* flatten form has the transports, one shared secret and one policy for   *)
(* TACACS+ and a RADIUS view that stands for the UDP endpoint; the         *)
(* endpoint form lists every endpoint.  The configuration file             *)
(* (config.normalizeClientsV2) and the API (state.applyClientPatch) accept *)
(* either or both, keep both, and must keep them telling the same story:   *)
(* TACACS+ listeners and policy read the flatten form, RADIUS listeners    *)
(* and the API's views read the endpoints.                                 *)
(*                                                                         *)
(* An optional field of a file or request is a set with at most one        *)
(* element, and what a handler makes of its input is a set with at most    *)
(* one client: none when it refuses.  A secret stands for the reference    *)
(* and what is behind it; the four accounting flags are one value; an      *)
(* absent and an empty list are not told apart.                            *)
(***************************************************************************)
EXTENDS Integers, Sequences, FiniteSets

CONSTANTS
  RawClients, \* clients a configuration file can hold, as written
  Writes,     \* requests of clients.create and clients.update
  Usable,     \* secrets whose file is readable and satisfies the secret policy
  GroupIds    \* groups of the document

VARIABLE client   \* the effective client, NoClient when there is none

Transports == {"legacy", "tls"}
IsList(s) == Len(s) \in Nat /\ s = [k \in 1..Len(s) |-> s[k]]
EndpointList(eps) ==
  IsList(eps) /\ \A k \in DOMAIN eps : eps[k].protocol \in {"tacacs", "radius"} /\ IsList(eps[k].roles)

(* Parsing refuses other protocols and transports.                         *)
WriteOK(w) ==
  /\ \A m \in w.match : m.transports \in Seq(Transports)
  /\ \A eps \in w.endpoints : EndpointList(eps)
  /\ \A r \in w.radius : IsList(r.roles)
ASSUME EndpointsAssumption ==
  /\ \A raw \in RawClients : raw.transports \in Seq(Transports) /\ EndpointList(raw.endpoints)
  /\ \A w \in Writes : WriteOK(w)

None == "none"
NoClient == [id |-> None]

OrElse(option, default) == IF option = {} THEN default ELSE CHOOSE x \in option : TRUE

(* Lists.  What is found at some places of a list is a function on them;   *)
(* InOrder makes a list of it again.                                       *)
Lists(s, x) == \E k \in DOMAIN s : s[k] = x
Members(s) == {s[k] : k \in DOMAIN s}
Each(Op(_), s) == [k \in DOMAIN s |-> Op(s[k])]
Earliest(at) == CHOOSE k \in at : \A j \in at : k <= j
Latest(at) == CHOOSE k \in at : \A j \in at : j <= k
PlacesBefore(at, k) == Cardinality({j \in at : j < k})
InOrder(f) ==
  [n \in 1..Cardinality(DOMAIN f) |-> f[CHOOSE k \in DOMAIN f : PlacesBefore(DOMAIN f, k) = n - 1]]
Distinct(f) ==
  InOrder([k \in {i \in DOMAIN f : \A j \in DOMAIN f : j < i => f[j] # f[i]} |-> f[k]])
Filtered(s, Keep(_)) == InOrder([k \in {i \in DOMAIN s : Keep(s[i])} |-> s[k]])

-----------------------------------------------------------------------------
(* Endpoints and the flatten fields they project to                        *)

IsTacacs(ep) == ep.protocol = "tacacs"
IsRadius(ep) == ep.protocol = "radius"
On(protocol, transport, eps) == {k \in DOMAIN eps : eps[k].protocol = protocol /\ eps[k].transport = transport}

HasRADIUSEndpoint(c) == \E k \in DOMAIN c.endpoints : IsRadius(c.endpoints[k])
UdpIndex(eps) == On("radius", "udp", eps)

TacacsRoles == <<"authentication", "authorization", "accounting">>

synthesizeTACACSEndpoint(c, t) ==
  [id |-> IF t = "legacy" THEN "tacacs-legacy" ELSE "tacacs-tls",
   protocol |-> "tacacs", transport |-> IF t = "legacy" THEN "tcp" ELSE "tls",
   roles |-> TacacsRoles, block |-> c.policy,
   secret |-> IF t = "legacy" THEN c.secret ELSE None,
   life |-> IF t = "legacy" THEN c.life ELSE None]
synthesizeTACACSEndpoints(c) ==
  [k \in DOMAIN c.transports |-> synthesizeTACACSEndpoint(c, c.transports[k])]

(* The last endpoint over TCP gives the secret, the first of all the       *)
(* policy.                                                                 *)
projectTACACS(eps) ==
  LET tacacs == {k \in DOMAIN eps : IsTacacs(eps[k])}
      tcp == {k \in tacacs : eps[k].transport = "tcp"}
  IN [have |-> tacacs # {},
      transports |-> Distinct([k \in tacacs |-> IF k \in tcp THEN "legacy" ELSE "tls"]),
      secret |-> IF tcp = {} THEN None ELSE eps[Latest(tcp)].secret,
      life |-> IF tcp = {} THEN None ELSE eps[Latest(tcp)].life,
      policy |-> IF tacacs = {} THEN {} ELSE {eps[Earliest(tacacs)].block}]

applyTACACSProjection(c) ==
  LET p == projectTACACS(c.endpoints)
  IN IF p.have
     THEN [c EXCEPT !.transports = p.transports, !.secret = p.secret, !.life = p.life,
                    !.policy = OrElse(p.policy, c.policy)]
     ELSE [c EXCEPT !.transports = <<>>]

projectionMatchesClient(c, p) ==
  /\ c.transports = p.transports
  /\ IF p.have THEN c.secret = p.secret /\ c.life = p.life /\ p.policy = {c.policy}
     ELSE c.secret = None /\ c.policy.methods = {} /\ c.policy.service = None /\ c.policy.groups = {}

DefaultRADIUSAccessMethods == {"pap", "chap"}
FillRADIUSAccessMethods(methods, roles) ==
  IF Lists(roles, "access") /\ methods = {} THEN DefaultRADIUSAccessMethods ELSE methods
AllStatus == {"start", "stop", "interim"}

-----------------------------------------------------------------------------
(* What both ways in must satisfy before a snapshot is published           *)

(* Validation sees a client without RADIUS through the endpoints its       *)
(* flatten form stands for.                                                *)
Synthesized(c) == IF HasRADIUSEndpoint(c) THEN c ELSE [c EXCEPT !.endpoints = synthesizeTACACSEndpoints(c)]

validateClient(c) ==
  LET radius == {k \in DOMAIN c.endpoints : IsRadius(c.endpoints[k])}
      tls == On("radius", "tls", c.endpoints)
  IN /\ radius # {} => projectionMatchesClient(c, projectTACACS(c.endpoints))
     /\ c.transports # <<>> \/ radius # {}
     /\ Lists(c.transports, "legacy") => c.secret # None
     /\ c.mode = "certificate_only" =>
          On("tacacs", "tls", c.endpoints) # {} \/ Lists(c.transports, "tls") \/ tls # {}
     /\ \A k \in radius : c.endpoints[k].secret # None
     /\ UdpIndex(c.endpoints) # {} => c.cidrs
     /\ tls # {} /\ c.mode # "certificate_only" => c.cidrs
     /\ c.policy.groups \subseteq GroupIds

EvaluateSecrets(c) ==
  /\ c.secret \in Usable \cup {None}
  /\ \A k \in DOMAIN c.endpoints : IsRadius(c.endpoints[k]) => c.endpoints[k].secret \in Usable \cup {None}

Valid(c) == validateClient(Synthesized(c)) /\ EvaluateSecrets(Synthesized(c))

-----------------------------------------------------------------------------
(* The configuration file                                                  *)

normalizeClientsFlatten(raw) ==
  [id |-> raw.id, mode |-> OrElse(raw.mode, "address_and_certificate"), cidrs |-> raw.cidrs,
   transports |-> raw.transports, secret |-> raw.secret, life |-> raw.life,
   policy |-> [methods |-> raw.methods, service |-> OrElse(raw.service, None),
               groups |-> raw.groups, acct |-> OrElse(raw.acct, "on")],
   endpoints |-> <<>>]

flattenProtocolSpecified(raw) ==
  \/ raw.transports # <<>> \/ raw.secret # None \/ raw.methods # {}
  \/ raw.service # {} \/ raw.groups # {} \/ raw.acct # {}

(* A TACACS+ endpoint takes from the flatten form what it leaves out: all  *)
(* of it, the rotation data included, when it has no block; the rotation   *)
(* data never, when it has one.                                            *)
normalizeTACACSEndpoint(raw, flat) ==
  IF raw.block = {} THEN [secret |-> flat.secret, life |-> flat.life, block |-> flat.policy]
  ELSE LET b == OrElse(raw.block, {})
       IN [secret |-> IF b.secret = None THEN flat.secret ELSE b.secret,
           life |-> b.life,
           block |-> [methods |-> IF b.methods = {} THEN flat.policy.methods ELSE b.methods,
                      service |-> IF b.methods = {} THEN flat.policy.service
                                  ELSE OrElse(b.service, flat.policy.service),
                      groups |-> IF b.groups = {} THEN flat.policy.groups ELSE b.groups,
                      acct |-> OrElse(b.acct, flat.policy.acct)]]

normalizeRADIUSEndpoint(raw) ==
  LET b == OrElse(raw.block, {})
  IN [secret |-> b.secret, life |-> b.life,
      block |-> [methods |-> FillRADIUSAccessMethods(b.methods, raw.roles),
                 status |-> IF Lists(raw.roles, "accounting") /\ b.status = {} THEN AllStatus ELSE b.status,
                 knobs |-> OrElse(b.knobs, "default")]]

normalizeEndpoint(raw, flat) ==
  LET rest == IF IsTacacs(raw) THEN normalizeTACACSEndpoint(raw, flat) ELSE normalizeRADIUSEndpoint(raw)
  IN [id |-> raw.id, protocol |-> raw.protocol, transport |-> raw.transport, roles |-> Distinct(raw.roles),
      secret |-> rest.secret, life |-> rest.life, block |-> rest.block]

LegalRoles(protocol) ==
  IF protocol = "tacacs" THEN Members(TacacsRoles) ELSE {"access", "accounting", "dynamic_authorization"}
PairIsLegal(ep) == ep.transport \in (IF IsTacacs(ep) THEN {"tcp", "tls"} ELSE {"udp", "tls"})
DistinctIds(eps) == \A j, k \in DOMAIN eps : eps[j].id = eps[k].id => j = k
AtMostOne(protocol, eps) == \A t \in {"tcp", "tls", "udp"} : Cardinality(On(protocol, t, eps)) <= 1

tacacsEndpointsConsistent(eps) ==
  \A j, k \in DOMAIN eps : IsTacacs(eps[j]) /\ IsTacacs(eps[k]) => eps[j].block = eps[k].block

normalizeEndpoints(raws, flat) ==
  {eps \in {[k \in DOMAIN raws |-> normalizeEndpoint(raws[k], flat)]} :
     /\ \A k \in DOMAIN raws :
          /\ PairIsLegal(raws[k])
          /\ raws[k].roles # <<>> /\ Members(raws[k].roles) \subseteq LegalRoles(raws[k].protocol)
          /\ IsRadius(raws[k]) => raws[k].block # {}
     /\ DistinctIds(eps) /\ AtMostOne("radius", eps) /\ AtMostOne("tacacs", eps)
     /\ tacacsEndpointsConsistent(eps)}

(* A file of schema version 1 has no endpoints.                            *)
normalizeClientsV2(raw) ==
  LET flat == normalizeClientsFlatten(raw)
  IN IF raw.endpoints = <<>> THEN {[flat EXCEPT !.endpoints = synthesizeTACACSEndpoints(flat)]}
     ELSE {applyTACACSProjection([flat EXCEPT !.endpoints = eps]) :
             eps \in {e \in normalizeEndpoints(raw.endpoints, flat) :
                        flattenProtocolSpecified(raw) => projectionMatchesClient(flat, projectTACACS(e))}}

-----------------------------------------------------------------------------
(* The API's requests                                                      *)

tacacsEndpointFromWrite(w) ==
  LET b == OrElse(w.block, [secret |-> {}, life |-> {}, methods |-> {}, service |-> None,
                           groups |-> {}, acct |-> {}])
  IN [secret |-> OrElse(b.secret \ {"clear"}, None), life |-> OrElse(b.life, None),
      block |-> [methods |-> b.methods, service |-> b.service, groups |-> b.groups,
                 acct |-> OrElse(b.acct, "off")]]

radiusEndpointFromWrite(w) ==
  LET b == OrElse(w.block, [secret |-> {}, life |-> {}, methods |-> {}, status |-> {}, knobs |-> {}])
  IN [secret |-> OrElse(b.secret \ {"clear"}, None), life |-> OrElse(b.life, None),
      block |-> [methods |-> FillRADIUSAccessMethods(b.methods, w.roles), status |-> b.status,
                 knobs |-> OrElse(b.knobs, "default")]]

clientEndpointFromWrite(w) ==
  LET rest == IF IsTacacs(w) THEN tacacsEndpointFromWrite(w) ELSE radiusEndpointFromWrite(w)
  IN [id |-> w.id, protocol |-> w.protocol, transport |-> w.transport, roles |-> Distinct(w.roles),
      secret |-> rest.secret, life |-> rest.life, block |-> rest.block]

(* The API knows no dynamic_authorization role and, unlike the file, lets  *)
(* two TACACS+ endpoints share a transport or differ in policy.            *)
clientEndpointsFromView(ws) ==
  {eps \in {Each(clientEndpointFromWrite, ws)} :
     /\ \A k \in DOMAIN ws :
          /\ PairIsLegal(ws[k])
          /\ ws[k].roles # <<>>
          /\ Members(ws[k].roles) \subseteq LegalRoles(ws[k].protocol) \ {"dynamic_authorization"}
     /\ DistinctIds(eps) /\ AtMostOne("radius", eps)}

(* Seeded fault: an endpoint takes the last secret of its protocol.        *)
retainOmittedEndpointSecrets_ByKind(prev, eps) ==
  LET kin(ep) == {k \in DOMAIN prev.endpoints : prev.endpoints[k].protocol = ep.protocol}
      retained(ep) == IF ep.secret = None /\ kin(ep) # {}
                      THEN [ep EXCEPT !.secret = prev.endpoints[Latest(kin(ep))].secret] ELSE ep
  IN Each(retained, eps)

(* An endpoint written without a secret keeps the one of the endpoint of   *)
(* the same id; a renamed one that of the last RADIUS endpoint, or of the  *)
(* last TACACS+ endpoint over TCP.                                         *)
RetainedFrom(olds, ep) ==
  LET same == {k \in DOMAIN olds : olds[k].id = ep.id}
  IN IF same # {} THEN {k \in {Latest(same)} : olds[k].protocol = ep.protocol}
     ELSE {k \in DOMAIN olds : IF IsRadius(ep) THEN IsRadius(olds[k])
                               ELSE ep.transport = "tcp" /\ IsTacacs(olds[k]) /\ olds[k].transport = "tcp"}
retainOmittedEndpointSecrets(prev, eps) ==
  LET from(ep) == RetainedFrom(prev.endpoints, ep)
      retained(ep) == IF ep.secret = None /\ from(ep) # {}
                      THEN [ep EXCEPT !.secret = prev.endpoints[Latest(from(ep))].secret] ELSE ep
  IN Each(retained, eps)

applyRADIUSFields(ep, w) ==
  [ep EXCEPT !.life = OrElse(w.life, ep.life),
             !.block = [methods |-> IF w.methods = {} THEN ep.block.methods
                                    ELSE FillRADIUSAccessMethods(OrElse(w.methods, {}), ep.roles),
                        status |-> OrElse(w.status, ep.block.status),
                        knobs |-> OrElse(w.knobs, ep.block.knobs)]]

defaultRADIUSEndpoint(roles) ==
  [id |-> "radius-udp", protocol |-> "radius", transport |-> "udp", roles |-> roles,
   secret |-> None, life |-> None,
   block |-> [methods |-> FillRADIUSAccessMethods({}, roles),
              status |-> IF Lists(roles, "accounting") THEN AllStatus ELSE {}, knobs |-> "default"]]

NotUdp(ep) == ~(IsRadius(ep) /\ ep.transport = "udp")

(* The flatten RADIUS view speaks of the UDP endpoint: disabled removes    *)
(* it, anything else edits or makes it, except beside a TLS endpoint,      *)
(* where none is invented.  Roles already stored may hold one the view     *)
(* does not know, and then the request is refused.                         *)
applyRADIUSFlatten(c, w) ==
  LET udp == UdpIndex(c.endpoints)
      k == CHOOSE i \in udp : TRUE
      roles == IF w.roles # <<>> THEN Distinct(w.roles)
               ELSE IF udp # {} THEN c.endpoints[k].roles ELSE <<"access", "accounting">>
      before == IF c.endpoints = <<>> THEN synthesizeTACACSEndpoints(c) ELSE c.endpoints
  IN IF w.enabled = {FALSE}
     THEN {[c EXCEPT !.endpoints = Filtered(@, NotUdp)]}
     ELSE IF ~(Members(roles) \subseteq {"access", "accounting"}) THEN {}
     ELSE IF udp # {}
          THEN {[c EXCEPT !.endpoints[k] = applyRADIUSFields([@ EXCEPT !.roles = roles], w)]}
     ELSE IF On("radius", "tls", c.endpoints) # {} THEN {c}
     ELSE {[c EXCEPT !.endpoints = Append(before, applyRADIUSFields(defaultRADIUSEndpoint(roles), w))]}

(* Seeded fault: a flatten update leaves the endpoints as they were.       *)
rebuildTACACSEndpointsFromFlatten_Keeps(c) == c

rebuildTACACSEndpointsFromFlatten(c) ==
  [c EXCEPT !.endpoints = synthesizeTACACSEndpoints(c) \o Filtered(@, IsRadius)]

tacacsFlattenSpecified(w) ==
  w.match # {} \/ w.secret # {} \/ w.life # {} \/ w.auth # {} \/ w.groups # {} \/ w.acct # {}

radiusFlattenDisagrees(c, w) ==
  /\ w.radius # {}
  /\ LET r == OrElse(w.radius, {})
         udp == UdpIndex(c.endpoints)
         ep == c.endpoints[CHOOSE k \in udp : TRUE]
     IN IF r.enabled = {FALSE} THEN udp # {}
        ELSE \/ udp = {}
             \/ r.roles # <<>> /\ Distinct(r.roles) # ep.roles
             \/ r.methods \notin {{}, {ep.block.methods}}
             \/ r.status \notin {{}, {ep.block.status}}
             \/ r.knobs \notin {{}, {ep.block.knobs}}
             \/ r.secret \ {"clear"} \notin {{}, {ep.secret}}

applyRADIUSSecretPatch(c, secret) ==
  LET udp == UdpIndex(c.endpoints)
      k == CHOOSE i \in udp : TRUE
  IN IF secret = {} \/ (udp = {} /\ secret = {"clear"}) THEN {c}
     ELSE IF udp = {} \/ secret = {"clear"} THEN {}
     ELSE {[c EXCEPT !.endpoints[k].secret = OrElse(secret, None)]}

(* The flatten fields of a request.  Clearing the secret that a legacy     *)
(* transport needs is refused.                                             *)
FlattenPatched(c, w) ==
  LET match == OrElse(w.match, [transports |-> c.transports, mode |-> {c.mode}, cidrs |-> c.cidrs])
      auth == OrElse(w.auth, [methods |-> c.policy.methods, service |-> c.policy.service])
      next == [c EXCEPT !.transports = match.transports, !.cidrs = match.cidrs,
                        !.mode = OrElse(match.mode, "address_and_certificate"),
                        !.life = OrElse(w.life, c.life),
                        !.policy = [methods |-> auth.methods, service |-> auth.service,
                                    groups |-> OrElse(w.groups, c.policy.groups),
                                    acct |-> OrElse(w.acct, c.policy.acct)]]
  IN IF w.secret = {"clear"} /\ Lists(next.transports, "legacy") THEN {}
     ELSE {[next EXCEPT !.secret = IF w.secret = {"clear"} THEN None ELSE OrElse(w.secret, c.secret)]}

EndpointsPatched(cur, c, w) ==
  {applyTACACSProjection(d) :
     d \in {e \in {[c EXCEPT !.endpoints = retainOmittedEndpointSecrets(cur, eps)] :
                     eps \in clientEndpointsFromView(OrElse(w.endpoints, <<>>))} :
              /\ tacacsFlattenSpecified(w) /\ e.endpoints # <<>> =>
                   projectionMatchesClient(e, projectTACACS(e.endpoints))
              /\ ~radiusFlattenDisagrees(e, w)}}

applyClientPatch(cur, w) ==
  UNION {applyRADIUSSecretPatch(d, IF w.radius = {} THEN {} ELSE OrElse(w.radius, {}).secret) :
    d \in UNION {IF w.endpoints # {} THEN EndpointsPatched(cur, c, w)
                 ELSE {rebuildTACACSEndpointsFromFlatten(e) :
                         e \in IF w.radius = {} THEN {c} ELSE applyRADIUSFlatten(c, OrElse(w.radius, {}))} :
                 c \in FlattenPatched(cur, w)}}

clientFromCreate ==
  [id |-> "c", mode |-> "address_and_certificate", cidrs |-> FALSE, transports |-> <<>>,
   secret |-> None, life |-> None, endpoints |-> <<>>,
   policy |-> [methods |-> {}, service |-> None, groups |-> {}, acct |-> "on"]]

(* What clients.get shows of the endpoints, in the form clients.update     *)
(* takes: neither secrets nor rotation data.                               *)
clientEndpointView(ep) ==
  [id |-> ep.id, protocol |-> ep.protocol, transport |-> ep.transport, roles |-> ep.roles,
   block |-> {IF IsTacacs(ep)
              THEN [secret |-> {}, life |-> {}, methods |-> ep.block.methods, service |-> ep.block.service,
                    groups |-> ep.block.groups, acct |-> {ep.block.acct}]
              ELSE [secret |-> {}, life |-> {}, methods |-> ep.block.methods, status |-> ep.block.status,
                    knobs |-> {ep.block.knobs}]}]
clientEndpointViews(c) == Each(clientEndpointView, c.endpoints)

-----------------------------------------------------------------------------
CeInit == client = NoClient

(* Load validates the document it keeps, so that a client without RADIUS   *)
(* keeps the synthesized endpoints; an overlay validates a copy.           *)
Load(raw) ==
  /\ client = NoClient
  /\ \E c \in normalizeClientsV2(raw) : Valid(c) /\ client' = Synthesized(c)

Create(w) ==
  /\ client = NoClient
  /\ \E c \in applyClientPatch(clientFromCreate, w) : Valid(c) /\ client' = c

(* clients.update, and clients.create with override of a baseline client.  *)
Update(w) ==
  /\ client # NoClient
  /\ \E c \in applyClientPatch(client, w) : Valid(c) /\ client' = c

CeNext ==
  \/ \E raw \in RawClients : Load(raw)
  \/ \E w \in Writes : Create(w) \/ Update(w)

CeSpec == CeInit /\ [][CeNext]_client

-----------------------------------------------------------------------------
(* What a listener uses of the flatten form: a client without RADIUS may   *)
(* name a transport twice, and keeps the secret of a legacy transport it   *)
(* no longer has.                                                          *)
InUse(c) ==
  LET legacy == Lists(c.transports, "legacy")
  IN [c EXCEPT !.transports = Distinct(@), !.secret = IF legacy THEN @ ELSE None,
               !.life = IF legacy THEN @ ELSE None]

(* The two forms agree after any sequence of loads, creates and updates:   *)
(* what the TACACS+ listeners use of the flatten fields is the projection  *)
(* of the endpoints that clients.get shows.                                *)
ProjectionHolds ==
  client # NoClient => projectionMatchesClient(InUse(client), projectTACACS(client.endpoints))

(* Writing back the endpoints that were read changes nothing, the secrets  *)
(* that a view leaves out included, or is refused.  Rotation data is not   *)
(* shown and so is lost; an access endpoint without methods gets the       *)
(* default ones (see AccessRoleHasMethods).                                *)
Echo(c) ==
  [match |-> {}, secret |-> {}, life |-> {}, auth |-> {}, groups |-> {}, acct |-> {},
   endpoints |-> {clientEndpointViews(c)}, radius |-> {}]
WithoutLife(ep) == [ep EXCEPT !.life = None]
Untimed(c) ==
  [InUse(c) EXCEPT !.life = None, !.endpoints = Each(WithoutLife, @)]
HasMethods(c) ==
  \A k \in DOMAIN c.endpoints :
    IsRadius(c.endpoints[k]) /\ Lists(c.endpoints[k].roles, "access") => c.endpoints[k].block.methods # {}

EchoIsNeutral ==
  client # NoClient /\ HasMethods(client) =>
    \A c \in applyClientPatch(client, Echo(client)) : Valid(c) => Untimed(c) = Untimed(client)

(* "A zero-length list is never persisted on an access role": the access   *)
(* handler takes an empty list for every method.                           *)
AccessRoleHasMethods == client # NoClient => HasMethods(client)
=============================================================================
