------------------------------- MODULE RadSec -------------------------------
(***************************************************************************)
(* RADIUS over TLS (internal/radius/tls): a handshake held against the     *)
(* trust files of the moment, the binding of a connection to a client, an  *)
(* endpoint and a secret, and packets one after the other, each admitted   *)
(* again under the snapshot it is read in and sent through the listener's  *)
(* retransmission cache.  The document and the files change at any time,   *)
(* and a client may repeat a request on another connection.                *)
(***************************************************************************)
EXTENDS Integers, Sequences, FiniteSets

CONSTANTS
  Peers,       \* connections
  Certs,       \* certificates: name, issuer and SANs
  Packets,     \* requests: role, id and signed, the secret of their authenticator
  Documents,   \* sets of clients, as ClientMatch has them, with secret, ma and permit
  Trusts,      \* trust files: ca, the issuers; crl and revoked
  Addr,        \* the address of the peers
  MaxEntries   \* retransmission_cache_entries

VARIABLES
  doc,     \* the published snapshot
  trust,   \* the files on disk
  peer,    \* connections
  cache,   \* cache.entries
  sent     \* the answer the last step sent, if it sent one

rvars == <<doc, trust, peer, cache, sent>>

M == INSTANCE ClientMatch WITH Width <- 2, Mapped <- 4

Free == [pc |-> "free"]
NoAnswer == [made |-> "none"]

RsInit ==
  /\ doc \in Documents
  /\ trust \in Trusts
  /\ peer = [c \in Peers |-> Free]
  /\ cache = {}
  /\ sent = NoAnswer

Silent == sent' = NoAnswer
Leave(c) == peer' = [peer EXCEPT ![c] = Free]

-----------------------------------------------------------------------------
(* Handshake                                                               *)

(* revokedBy: the issuer's list is there, authentic, in force, and does    *)
(* not name the certificate.                                               *)
Revoked(t, cert) == t.crl # "valid" \/ cert.name \in t.revoked

(* configForClient and verifyPeer read the CA bundle and the CRL anew; the *)
(* TLS stack verifies the chain.                                           *)
Verified(t, cert) == cert.issuer \in t.ca /\ (t.crl # "off" => ~Revoked(t, cert))

(* handleConn, up to the verified certificate.                             *)
Handshake(c, cert) ==
  /\ peer[c] = Free
  /\ Verified(trust, cert)
  /\ peer' = [peer EXCEPT ![c] = [pc |-> "verified", cert |-> cert]]
  /\ Silent /\ UNCHANGED <<doc, trust, cache>>

(* matchTLSClient: the two roles name one client and endpoint, or only one *)
(* of them names any.                                                      *)
matchTLSClient(d, cert) ==
  LET acc == M!TlsMatch(d, "access", Addr, cert.sans)
      acct == M!TlsMatch(d, "accounting", Addr, cert.sans)
      found(r) == r.id \notin {"not_found", "ambiguous"}
  IN CASE found(acc) /\ found(acct) -> IF acc = acct THEN acc ELSE M!Ambiguous
       [] found(acc) /\ ~found(acct) -> acc
       [] found(acct) /\ ~found(acc) -> acct
       [] OTHER -> IF M!Ambiguous \in {acc, acct} THEN M!Ambiguous ELSE M!NoMatch

ClientOf(d, id) == CHOOSE x \in d : x.id = id

(* The rest of the admission: client, endpoint and secret are bound.       *)
Bind(c) ==
  LET r == matchTLSClient(doc, peer[c].cert)
  IN /\ peer[c].pc = "verified"
     /\ Silent /\ UNCHANGED <<doc, trust, cache>>
     /\ IF r \in {M!NoMatch, M!Ambiguous} \/ ClientOf(doc, r.id).secret = "none"
        THEN Leave(c)
        ELSE peer' = [peer EXCEPT ![c] = [pc |-> "reading", cert |-> @.cert, client |-> r.id,
                                          endpoint |-> r.endpoint, secret |-> ClientOf(doc, r.id).secret]]

-----------------------------------------------------------------------------
(* Packets                                                                 *)

(* readmit: keep the connection, and admit the packet.                     *)
readmit(d, b, role) ==
  LET own == M!TlsMatch(d, role, Addr, b.cert.sans)
      full == matchTLSClient(d, b.cert)
      holds(r) == r.id = b.client /\ r.endpoint = b.endpoint
  IN IF role # "none" /\ holds(own) THEN "admitted"
     ELSE IF holds(full) THEN "dropped" ELSE "closed"

(* CheckAccountingIntegrity and CheckIntegrity, under the bound secret.    *)
Integral(d, b, p) ==
  IF p.role = "accounting" \/ p.signed # "no" THEN p.signed = b.secret
  ELSE ~ClientOf(d, b.client).ma

(* Seeded fault: the source is the peer's address.                         *)
SlotKey_Address(b, p) == <<b.endpoint, p.role, Addr, p.id>>
SlotKey(b, p) == <<b.endpoint, p.role, b.cert.name, p.id>>

Answer(b, p, accept) ==
  [made |-> "answer", for |-> p, client |-> b.client, endpoint |-> b.endpoint, cert |-> b.cert.name,
   secret |-> b.secret, accept |-> accept]

Sends(c, p, d, answer, fresh) ==
  sent' = [made |-> "sent", on |-> peer[c], pkt |-> p, doc |-> d, answer |-> answer, fresh |-> fresh]

(* cache.Begin: replay, ignore, or take the slot, from another request if  *)
(* need be; a full cache refuses.                                          *)
BeginSlot(c, p, d) ==
  LET key == SlotKey(peer[c], p)
      mine == {e \in cache : e.key = key}
      others == cache \ mine
  IN \/ /\ \E e \in mine : /\ e.fp = p
                           /\ IF e.pending THEN Silent ELSE Sends(c, p, d, e.reply, FALSE)
        /\ UNCHANGED <<cache, peer>>
     \/ /\ \A e \in mine : e.fp # p
        /\ Silent
        /\ IF Cardinality(others) < MaxEntries
           THEN /\ cache' = others \cup {[key |-> key, fp |-> p, pending |-> TRUE, reply |-> NoAnswer]}
                /\ peer' = [peer EXCEPT ![c] =
                     [pc |-> "handling", cert |-> @.cert, client |-> @.client, endpoint |-> @.endpoint,
                      secret |-> @.secret, pkt |-> p, doc |-> d]]
           ELSE cache' = others /\ UNCHANGED peer

(* process, up to the handler.  A packet that does not decode is ignored.  *)
Process(c, p) ==
  LET verdict == readmit(doc, peer[c], p.role)
  IN /\ peer[c].pc = "reading"
     /\ UNCHANGED <<doc, trust>>
     /\ \/ verdict = "closed" /\ Leave(c) /\ Silent /\ UNCHANGED cache
        \/ /\ verdict = "admitted" /\ Integral(doc, peer[c], p)
           /\ BeginSlot(c, p, doc)

Reading(b) == [pc |-> "reading", cert |-> b.cert, client |-> b.client, endpoint |-> b.endpoint,
               secret |-> b.secret]

(* The handler answers under the snapshot of the request; cache.Complete   *)
(* keeps the answer where the slot still waits for it and the byte budget  *)
(* allows, and it is written.                                              *)
Complete(c, fits) ==
  LET b == peer[c]
      a == Answer(b, b.pkt, IF b.pkt.role = "accounting" THEN TRUE
                            ELSE ClientOf(b.doc, b.client).permit)
      slot == {e \in cache : e.key = SlotKey(b, b.pkt) /\ e.fp = b.pkt /\ e.pending}
  IN /\ b.pc = "handling"
     /\ fits \/ slot # {}
     /\ cache' = (cache \ slot) \cup
                 IF fits THEN {[e EXCEPT !.pending = FALSE, !.reply = a] : e \in slot} ELSE {}
     /\ peer' = [peer EXCEPT ![c] = Reading(b)]
     /\ Sends(c, b.pkt, b.doc, a, TRUE)
     /\ UNCHANGED <<doc, trust>>

(* The handler discards: cache.Abandon.                                    *)
Abandon(c) ==
  LET b == peer[c]
  IN /\ b.pc = "handling"
     /\ cache' = {e \in cache : e.key # SlotKey(b, b.pkt) \/ e.fp # b.pkt}
     /\ peer' = [peer EXCEPT ![c] = Reading(b)]
     /\ Silent /\ UNCHANGED <<doc, trust>>

(* The stream ends, idles out, or is not framed: the connection closes.    *)
Hangup(c) ==
  /\ peer[c].pc \in {"verified", "reading"}
  /\ Leave(c)
  /\ Silent /\ UNCHANGED <<doc, trust, cache>>

(* expireLocked, at the next use of the cache.                             *)
Expire(e) ==
  /\ e \in cache
  /\ cache' = cache \ {e}
  /\ Silent /\ UNCHANGED <<doc, trust, peer>>

Publish(d) == doc # d /\ doc' = d /\ Silent /\ UNCHANGED <<trust, peer, cache>>
Rotate(t) == trust # t /\ trust' = t /\ Silent /\ UNCHANGED <<doc, peer, cache>>

RsNext ==
  \/ \E c \in Peers :
       \/ \E cert \in Certs : Handshake(c, cert)
       \/ \E p \in Packets : Process(c, p)
       \/ \E fits \in BOOLEAN : Complete(c, fits)
       \/ Bind(c) \/ Abandon(c) \/ Hangup(c)
  \/ \E e \in cache : Expire(e)
  \/ \E d \in Documents : Publish(d)
  \/ \E t \in Trusts : Rotate(t)

RsSpec == RsInit /\ [][RsNext]_rvars

-----------------------------------------------------------------------------
(* An answer on a connection answers the very request, was made for the    *)
(* certificate and the endpoint of that connection, and carries the secret *)
(* the request was signed with; the client was admitted, for the role of   *)
(* the request, by the document current when the request was read, however *)
(* long ago it was bound, and a new answer is what that document decides   *)
(* for it.  A slot that waits for an answer has a connection working on it.*)
AnsweredAsAdmitted ==
  /\ sent # NoAnswer =>
       LET p == sent.pkt
           a == sent.answer
           b == sent.on
       IN /\ a.for = p /\ a.cert = b.cert.name /\ a.endpoint = b.endpoint
          /\ p.signed # "no" => a.secret = p.signed
          /\ M!TlsMatch(sent.doc, p.role, Addr, b.cert.sans) = [id |-> b.client, endpoint |-> b.endpoint]
          /\ sent.fresh => /\ a.client = b.client /\ a.secret = b.secret
                           /\ p.role = "access" => a.accept = ClientOf(sent.doc, b.client).permit
  /\ \A e \in cache : e.pending =>
       \E c \in Peers : peer[c].pc = "handling" /\ peer[c].pkt = e.fp /\ SlotKey(peer[c], e.fp) = e.key

=============================================================================
