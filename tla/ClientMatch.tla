---------------------------- MODULE ClientMatch ----------------------------
(***************************************************************************)
(* Which client of the document a peer is (internal/config/match*.go):     *)
(* the indexes compiled from the enabled clients for TACACS+, for a        *)
(* RADIUS/UDP role and for a RADIUS/TLS role, the pairs that compilation   *)
(* refuses as indistinguishable, and the selection by certificate, longest *)
(* prefix and priority.                                                    *)
(*                                                                         *)
(* Addresses have Width bits; an IPv6 address may be an IPv4 one in mapped *)
(* form, whose prefixes are Mapped bits longer.  DNS and IP identities of  *)
(* certificates are one set of names.                                      *)
(***************************************************************************)
EXTENDS Integers, FiniteSets

CONSTANTS Width, Mapped

ASSUME ClientMatchAssumption == Width \in Nat /\ Mapped \in Nat /\ Mapped > Width

(* net.ParseCIDR and the canonical form of indexFromClient: the family,    *)
(* the masked network, the length within the family and the prefix length  *)
(* as it was written.                                                      *)
Truncate(addr, len) == addr \div 2^(Width - len)
ParseCIDR(s) ==
  LET len == IF s.form = "mapped" THEN s.bits - Mapped ELSE s.bits
  IN [v4 |-> s.form # "v6", net |-> Truncate(s.addr, len), len |-> len, bits |-> s.bits]

(* normalizeCIDRs writes the network back: a mapped one as an IPv4 one.    *)
NormalizeCIDR(s) ==
  LET c == ParseCIDR(s)
  IN [form |-> IF c.v4 THEN "v4" ELSE "v6", addr |-> c.net * 2^(Width - c.len), bits |-> c.len]

(* canonicalizeIP: a mapped peer is an IPv4 peer.                          *)
CanonicalizeIP(ip) == [v4 |-> ip.form # "v6", addr |-> ip.addr]

Contains(c, p) == c.v4 = p.v4 /\ Truncate(p.addr, c.len) = c.net

-----------------------------------------------------------------------------
(* Compilation                                                             *)

Entry(c, endpoint) ==
  [id |-> c.id, endpoint |-> endpoint, priority |-> c.priority, mode |-> c.mode,
   transports |-> c.transports, cidrs |-> {ParseCIDR(s) : s \in c.cidrs}, sans |-> c.sans]

(* Which clients an index is made of; radius maps the transport of an      *)
(* endpoint to its roles.                                                  *)
TacacsEntries(clients) ==
  {Entry(c, "tacacs") : c \in {x \in clients : x.enabled /\ x.transports # {}}}
UdpEntries(clients, role) ==
  {Entry(c, "udp") : c \in {x \in clients : x.enabled /\ role \in x.radius["udp"]}}
TlsEntries(clients, role) ==
  {Entry(c, "tls") : c \in {x \in clients : x.enabled /\ role \in x.radius["tls"]}}

(* shareIdenticalCIDR and certsMayOverlap.                                 *)
ShareIdenticalCIDR(a, b) == a.cidrs \cap b.cidrs # {}
CertsMayOverlap(a, b) == a.sans = {} \/ b.sans = {} \/ a.sans \cap b.sans # {}

(* The last two steps of pairAmbiguous.                                    *)
SameReach(a, b) == a.mode = "cert" \/ b.mode = "cert" \/ ShareIdenticalCIDR(a, b)

PairAmbiguous(a, b) ==
  /\ a.priority = b.priority
  /\ \E t \in a.transports \cap b.transports :
       /\ t = "tls" => CertsMayOverlap(a, b)
       /\ SameReach(a, b)
UdpPairAmbiguous(a, b) == a.priority = b.priority /\ ShareIdenticalCIDR(a, b)
TlsPairAmbiguous(a, b) ==
  a.priority = b.priority /\ CertsMayOverlap(a, b) /\ SameReach(a, b)

(* checkAmbiguity of each index, and what entries cannot do without.       *)
Compiles(entries, Ambiguous(_, _)) ==
  \A a, b \in entries : a.id # b.id => ~Ambiguous(a, b)
TacacsCompiles(clients) == Compiles(TacacsEntries(clients), PairAmbiguous)
UdpCompiles(clients, role) ==
  /\ Compiles(UdpEntries(clients, role), UdpPairAmbiguous)
  /\ \A e \in UdpEntries(clients, role) : e.cidrs # {}
TlsCompiles(clients, role) ==
  /\ Compiles(TlsEntries(clients, role), TlsPairAmbiguous)
  /\ \A e \in TlsEntries(clients, role) : e.mode = "addr" => e.cidrs # {}

-----------------------------------------------------------------------------
(* Selection                                                               *)

NoCert == {"none"}     \* the peer presented no certificate

CertSatisfied(e, cert) == e.sans = {} \/ (cert # NoCert /\ e.sans \cap cert # {})
RadiusCertSatisfied(e, cert) == cert # NoCert /\ CertSatisfied(e, cert)

Largest(S) == CHOOSE x \in S : \A y \in S : y <= x
Smallest(S) == CHOOSE x \in S : \A y \in S : x <= y

(* longestContaining.                                                      *)
Hits(e, p) == {c.bits : c \in {x \in e.cidrs : Contains(x, p)}}
LongestContaining(e, p) == Largest(Hits(e, p))

(* A candidate goes by its address, unless its certificate is enough.      *)
Candidates(entries, p) == {e \in entries : e.mode = "cert" \/ Hits(e, p) # {}}
BestPrefix(cands, p) == Largest({LongestContaining(e, p) : e \in cands} \cup {-1})

NoMatch == [id |-> "not_found", endpoint |-> ""]
Ambiguous == [id |-> "ambiguous", endpoint |-> ""]

(* Seeded fault: priority before prefix.                                   *)
Select_PriorityFirst(entries, p) ==
  LET cand == Candidates(entries, p)
      winners == {e \in cand : \A f \in cand : e.priority <= f.priority}
  IN CASE winners = {} -> NoMatch
       [] Cardinality(winners) > 1 -> Ambiguous
       [] OTHER -> LET w == CHOOSE e \in winners : TRUE IN [id |-> w.id, endpoint |-> w.endpoint]
(* The common tail of the Match methods: the longest prefix among the      *)
(* address candidates, the certificate candidates beside them, the lowest  *)
(* priority, and no choice between equals.                                 *)
Select(entries, p) ==
  LET cand == Candidates(entries, p)
      best == BestPrefix({e \in cand : e.mode = "addr"}, p)
      final == {e \in cand : e.mode = "cert" \/ LongestContaining(e, p) = best}
      winners == {e \in final : \A f \in final : e.priority <= f.priority}
  IN CASE winners = {} -> NoMatch
       [] Cardinality(winners) > 1 -> Ambiguous
       [] OTHER -> LET w == CHOOSE e \in winners : TRUE IN [id |-> w.id, endpoint |-> w.endpoint]

Match(clients, transport, ip, cert) ==
  Select({e \in TacacsEntries(clients) :
            /\ transport \in e.transports
            /\ transport = "tls" => CertSatisfied(e, cert)}, CanonicalizeIP(ip))

(* A datagram has only its address.                                        *)
UdpMatch(clients, role, ip) ==
  Select({[e EXCEPT !.mode = "addr"] : e \in UdpEntries(clients, role)}, CanonicalizeIP(ip))

(* hasUnconstrained: a certificate without names can still be enough.      *)
TlsMatch(clients, role, ip, cert) ==
  LET entries == TlsEntries(clients, role)
  IN IF cert = NoCert \/ (cert = {} /\ \A e \in entries : e.sans # {}) THEN NoMatch
     ELSE Select({e \in entries : RadiusCertSatisfied(e, cert)}, CanonicalizeIP(ip))

-----------------------------------------------------------------------------
(* What selection is meant to be                                           *)

Reach(e, p) == Largest({c.len : c \in {x \in e.cidrs : Contains(x, p)}} \cup {-1})
Eligible(e, p) == e.mode = "cert" \/ Reach(e, p) >= 0
Behind(e, f, p) == e.mode = "addr" /\ f.mode = "addr" /\ Reach(e, p) < Reach(f, p)

(* The selection r among entries is right: a client is selected when it is *)
(* eligible and every other eligible one is behind on its prefix or has a  *)
(* higher priority number; nobody when nobody is eligible; and there is no *)
(* choice only when the certificate names two clients with nothing in      *)
(* common.                                                                 *)
RightChoice(r, entries, p, cert) ==
  LET el == {e \in entries : Eligible(e, p)}
  IN CASE r = NoMatch -> el = {}
       [] r = Ambiguous -> \E a, b \in el : /\ a.sans \cap cert # {} /\ b.sans \cap cert # {}
                                            /\ a.sans \cap b.sans = {}
       [] OTHER -> \E e \in el :
                     /\ e.id = r.id /\ e.endpoint = r.endpoint
                     /\ \A f \in el \ {e} :
                          \/ \E g \in el : Behind(f, g, p)
                          \/ ~Behind(e, f, p) /\ e.priority < f.priority

(* Everything that compiled indexes decide for one peer.                   *)
PeerDecided(clients, role, ip, cert) ==
  LET p == CanonicalizeIP(ip)
  IN /\ TacacsCompiles(clients) =>
          /\ RightChoice(Match(clients, "legacy", ip, NoCert),
                         {e \in TacacsEntries(clients) : "legacy" \in e.transports}, p, {})
          /\ RightChoice(Match(clients, "tls", ip, cert),
                         {e \in TacacsEntries(clients) : "tls" \in e.transports
                                                         /\ CertSatisfied(e, cert)}, p, cert)
     /\ UdpCompiles(clients, role) =>
          RightChoice(UdpMatch(clients, role, ip),
                      {[e EXCEPT !.mode = "addr"] : e \in UdpEntries(clients, role)}, p, {})
     /\ TlsCompiles(clients, role) =>
          RightChoice(TlsMatch(clients, role, ip, cert),
                      {e \in TlsEntries(clients, role) : RadiusCertSatisfied(e, cert)}, p, cert)

=============================================================================
