----------------------------- MODULE AcctRecord ----------------------------
(***************************************************************************)
(* What an Accounting-Request means (internal/radius/server/accounting.go, *)
(* internal/aaa/radius_accounting.go): the identity under which the        *)
(* journal takes two requests for one event, and the record the event ring *)
(* and the session index are given.  RadiusAccounting takes the identity   *)
(* as EventOf and the record as one step of its sink; here are both.       *)
(*                                                                         *)
(* An attribute is a type and octets in 0..Base-1; a number has Width      *)
(* octets (256 and 4 in the code).  A digest stands for what it is taken   *)
(* of.                                                                     *)
(***************************************************************************)
EXTENDS Integers, Sequences, FiniteSets

CONSTANTS Base, Width, MaxArguments

AllOf(attrs, t) == SelectSeq(attrs, LAMBDA a : a.type = t)
Absent(attrs, t) == AllOf(attrs, t) = <<>>
textAttr(attrs, t) == IF Absent(attrs, t) THEN <<>> ELSE AllOf(attrs, t)[1].value

NoNumber == -1
uint32Val(v) ==
  LET upTo[k \in 0..Len(v)] == IF k = 0 THEN 0 ELSE upTo[k - 1] * Base + v[k]
  IN IF Len(v) = Width THEN upTo[Width] ELSE NoNumber
NumberOf(attrs, t) == IF Absent(attrs, t) THEN NoNumber ELSE uint32Val(AllOf(attrs, t)[1].value)

Kinds == <<<<1, "start">>, <<2, "stop">>, <<3, "interim_update">>, <<7, "accounting_on">>, <<8, "accounting_off">>>>
mapAcctStatus(attrs) ==
  LET n == NumberOf(attrs, "Status-Type")
      known == SelectSeq(Kinds, LAMBDA k : k[1] = n)
  IN IF Len(AllOf(attrs, "Status-Type")) = 1 /\ known # <<>> THEN known[1][2] ELSE "none"
statusAllowed(kind, allow) == kind # "none" /\ (allow = {} \/ kind \in allow)

-----------------------------------------------------------------------------
(* The identity                                                            *)

(* The first of three names that is there and well formed.                 *)
nasIdentity(attrs) ==
  LET v(t) == textAttr(attrs, t)
  IN IF Len(v("NAS-IP")) = Width THEN <<"ip4", v("NAS-IP")>>
     ELSE IF Len(v("NAS-IPv6")) = 4 * Width THEN <<"ip6", v("NAS-IPv6")>>
     ELSE IF v("NAS-Identifier") # <<>> THEN <<"id", v("NAS-Identifier")>> ELSE <<>>

(* An update is told from the next by its counters; any other request by   *)
(* everything that a retransmission keeps.  An absent counter and an empty *)
(* one are written alike.                                                  *)
Counters == <<"Timestamp", "Session-Time", "Input-Octets", "Input-Gigawords", "Output-Octets",
              "Output-Gigawords", "Input-Packets", "Output-Packets">>
Changing == {"Delay-Time", "Message-Authenticator", "Proxy-State"}

eventFingerprint(kind, attrs) ==
  IF kind = "interim_update"
  THEN [i \in DOMAIN Counters |-> textAttr(attrs, Counters[i])]
  ELSE SelectSeq(attrs, LAMBDA a : a.type \notin Changing)

JournalKey(req) ==
  LET kind == mapAcctStatus(req.attrs)
  IN [endpoint |-> req.endpoint, peer |-> req.peer, session |-> textAttr(req.attrs, "Session-Id"), kind |-> kind,
      nas |-> nasIdentity(req.attrs), fingerprint |-> eventFingerprint(kind, req.attrs)]

-----------------------------------------------------------------------------
(* The record                                                              *)

(* A counter is sent in two halves.                                        *)
foldedOctets(attrs, lo, hi) ==
  LET half(t) == IF NumberOf(attrs, t) = NoNumber THEN 0 ELSE NumberOf(attrs, t)
  IN half(lo) + half(hi) * Base ^ Width

(* The causes of RFC 2866 have a name; any other is left out.              *)
terminateCauseName(attrs) ==
  IF NumberOf(attrs, "Terminate-Cause") \in 1..18 THEN NumberOf(attrs, "Terminate-Cause") ELSE 0

(* The names of the attributes, each with how often it is there.           *)
summarizeAttrs(attrs) ==
  LET types == {attrs[i].type : i \in DOMAIN attrs}
  IN [t \in types |-> Len(AllOf(attrs, t))]

buildRADIUSRecord(req) ==
  LET attrs == req.attrs
      number(t) == IF NumberOf(attrs, t) = NoNumber THEN 0 ELSE NumberOf(attrs, t)
  IN [kind |-> mapAcctStatus(attrs), user |-> textAttr(attrs, "User-Name"),
      session |-> textAttr(attrs, "Session-Id"), started |-> NumberOf(attrs, "Timestamp"),
      time |-> number("Session-Time"), input |-> foldedOctets(attrs, "Input-Octets", "Input-Gigawords"),
      output |-> foldedOctets(attrs, "Output-Octets", "Output-Gigawords"),
      cause |-> terminateCauseName(attrs), names |-> summarizeAttrs(attrs),
      class |-> textAttr(attrs, "Class"), port |-> number("NAS-Port"),
      nas |-> [ip |-> IF Len(textAttr(attrs, "NAS-IP")) = Width THEN textAttr(attrs, "NAS-IP") ELSE <<>>,
               id |-> textAttr(attrs, "NAS-Identifier")],
      endpoint |-> req.endpoint, peer |-> req.peer]

(* What the event shows: names without values, and the counters that are   *)
(* not zero.                                                               *)
radiusAccountingAVs(rec) ==
  [names |-> DOMAIN rec.names \cup (IF rec.session # <<>> THEN {"Session-Id"} ELSE {}),
   values |-> {<<k, rec[k]>> : k \in {x \in {"input", "output", "time", "cause"} : rec[x] # 0}}]
checkSafeAttributeBudget(rec) == Cardinality(DOMAIN rec.names) <= MaxArguments

(* The event, unless the request has too many attributes.  Every cause     *)
(* that has a name is one the service knows.                               *)
NoEvent == [kind |-> "none"]
RecordRADIUSAccounting(rec) ==
  IF checkSafeAttributeBudget(rec)
  THEN [kind |-> rec.kind, user |-> rec.user, session |-> rec.session, started |-> rec.started,
        endpoint |-> rec.endpoint, peer |-> rec.peer, shown |-> radiusAccountingAVs(rec)]
  ELSE NoEvent

-----------------------------------------------------------------------------
(* Properties                                                              *)

(* The request q that repeats p, for a client that has waited.             *)
Repeats(p, q) ==
  LET kept(r) == SelectSeq(r.attrs, LAMBDA a : a.type \notin Changing)
  IN p.endpoint = q.endpoint /\ p.peer = q.peer /\ kept(p) = kept(q)

(* The journal merges what is one event and nothing else: a retransmission *)
(* has the identity of the first request, and two requests of one identity *)
(* would be recorded with the same numbers for the same session, so that   *)
(* nothing is lost when only one of them is (eventFingerprint against      *)
(* buildRADIUSRecord).                                                     *)
IdentityFaithful(p, q) ==
  LET event(r) == RecordRADIUSAccounting(buildRADIUSRecord(r))
      said(e) == <<e.kind, e.session, e.started, {v \in e.shown.values : v[1] # "cause"}>>
  IN statusAllowed(mapAcctStatus(p.attrs), {}) =>
       /\ Repeats(p, q) => JournalKey(p) = JournalKey(q)
       /\ JournalKey(p) = JournalKey(q) /\ event(p) # NoEvent /\ event(q) # NoEvent =>
            /\ said(event(p)) = said(event(q))
            /\ event(p).kind # "interim_update" =>
                 [buildRADIUSRecord(p) EXCEPT !.names = {}] = [buildRADIUSRecord(q) EXCEPT !.names = {}]

=============================================================================
