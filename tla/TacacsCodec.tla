---------------------------- MODULE TacacsCodec ----------------------------
(***************************************************************************)
(* The packets of TACACS+ (internal/tacacs/codec): the header and its      *)
(* length, the seven bodies, their argument lists, and the matrix of       *)
(* versions a START is held against.                                       *)
(*                                                                         *)
(* An octet is a number below Base, so that the limits of a length octet   *)
(* are within reach.  A body is described by its layout: the slots of its  *)
(* fixed part in wire order, each a value, the length of a text or the     *)
(* number of arguments; the lengths of the arguments follow, then the      *)
(* texts in the order of their lengths, then the arguments.  Decoders and  *)
(* encoders return a set: empty when they refuse.                          *)
(***************************************************************************)
EXTENDS Integers, Sequences, FiniteSets, SequencesExt

CONSTANTS Base,                 \* octets are 0..Base-1
          Printable, Mandatory, Optional,   \* octets of text, '=' and '*'
          Follow,               \* the status of a referral
          MaxBody,              \* MaxBodyBytes
          MinChallenge, Response, MSChallenges   \* lengths of CHAP and MS-CHAP data

(* binary.BigEndian: w octets of a number, and back.                       *)
Put(n, w) == [i \in 1..w |-> (n \div Base^(w - i)) % Base]
Get(s) == FoldLeft(LAMBDA n, d : n * Base + d, 0, s)
Total(s) == FoldLeft(LAMBDA n, d : n + d, 0, s)

PrintableASCII(s) == \A i \in DOMAIN s : s[i] \in Printable

-----------------------------------------------------------------------------
(* Arguments                                                               *)

IsSep(b) == b \in {Mandatory, Optional}
ContainsArgSep(s) == \E i \in DOMAIN s : IsSep(s[i])

(* ParseArgument: split at the first separator; an empty field is absent.  *)
ParseArgument(raw) ==
  IF raw = <<>> THEN {<<>>}
  ELSE {<<[name |-> SubSeq(raw, 1, i - 1), sep |-> raw[i], value |-> SubSeq(raw, i + 1, Len(raw))]>> :
          i \in {j \in 2..Len(raw) : /\ PrintableASCII(raw) /\ IsSep(raw[j])
                                     /\ ~ContainsArgSep(SubSeq(raw, 1, j - 1))}}

ArgumentBytes(a) == a.name \o <<a.sep>> \o a.value
EncodeArgument(a) ==
  {b \in {ArgumentBytes(a)} : /\ a.name # <<>> /\ ~ContainsArgSep(a.name) /\ IsSep(a.sep)
                              /\ Len(b) \in 2..(Base - 1) /\ PrintableASCII(b)}

-----------------------------------------------------------------------------
(* Layouts                                                                 *)

Value(f) == [kind |-> "value", field |-> f, width |-> 1]
Len8(f) == [kind |-> "len", field |-> f, width |-> 1]
Len16(f) == [kind |-> "len", field |-> f, width |-> 2]
ArgCount == [kind |-> "args", field |-> "args", width |-> 1]

Values(fs) == [i \in DOMAIN fs |-> Value(fs[i])]
Who == <<Len8("user"), Len8("port"), Len8("remAddr")>>

AuthenStart ==
  [slots |-> Values(<<"action", "privLvl", "type", "service">>) \o Who \o <<Len8("data")>>,
   printable |-> {"port", "remAddr"}]
AuthenContinue ==
  [slots |-> <<Len16("userMsg"), Len16("data"), Value("flags")>>, printable |-> {"userMsg"}]
AuthenReply ==
  [slots |-> <<Value("status"), Value("flags"), Len16("serverMsg"), Len16("data")>>,
   printable |-> {"serverMsg"}]
AuthorRequest ==
  [slots |-> Values(<<"method", "privLvl", "type", "service">>) \o Who \o <<ArgCount>>,
   printable |-> {"port", "remAddr"}]
AuthorResponse ==
  [slots |-> <<Value("status"), ArgCount, Len16("serverMsg"), Len16("data")>>,
   printable |-> {"serverMsg", "data"}]
AcctRequest ==
  [slots |-> Values(<<"acct", "method", "privLvl", "type", "service">>) \o Who \o <<ArgCount>>,
   printable |-> {"port", "remAddr"}]
AcctReply ==
  [slots |-> <<Len16("serverMsg"), Len16("data"), Value("status")>>, printable |-> {"serverMsg", "data"}]

Slots(layout, kind) == SelectSeq(layout.slots, LAMBDA s : s.kind = kind)
HasArgs(layout) == Slots(layout, "args") # <<>>
Fields(layout) == {layout.slots[i].field : i \in DOMAIN layout.slots}
HeadLen(layout) == Total([i \in DOMAIN layout.slots |-> layout.slots[i].width])

-----------------------------------------------------------------------------
(* Decoding                                                                *)

(* cursor.u8 and cursor.u16 over the fixed part: the number in each slot.  *)
ReadHead(layout, p) ==
  LET at(i) == Total([j \in 1..(i - 1) |-> layout.slots[j].width])
  IN [f \in Fields(layout) |->
        LET i == CHOOSE j \in DOMAIN layout.slots : layout.slots[j].field = f
        IN Get(SubSeq(p, at(i) + 1, at(i) + layout.slots[i].width))]

(* cursor.bytes, one piece after the other.                                *)
Cut(p, lens) ==
  [i \in DOMAIN lens |-> LET from == Total(SubSeq(lens, 1, i - 1)) IN SubSeq(p, from + 1, from + lens[i])]

(* readArgs: the arguments that are present, or none when one is malformed.*)
ReadArgs(raws) ==
  IF \E i \in DOMAIN raws : ParseArgument(raws[i]) = {} THEN {}
  ELSE {FlattenSeq([i \in DOMAIN raws |-> CHOOSE a \in ParseArgument(raws[i]) : TRUE])}

(* The Decode functions: the pieces consume the body exactly.              *)
DecodeBody(layout, p) ==
  IF Len(p) < HeadLen(layout) THEN {} ELSE
  LET head == ReadHead(layout, p)
      texts == Slots(layout, "len")
      count == IF HasArgs(layout) THEN head["args"] ELSE 0
      rest == SubSeq(p, HeadLen(layout) + 1, Len(p))
      lens == [i \in DOMAIN texts |-> head[texts[i].field]] \o SubSeq(rest, 1, count)
      pieces == Cut(SubSeq(rest, count + 1, Len(rest)), lens)
      text(f) == pieces[CHOOSE i \in DOMAIN texts : texts[i].field = f]
      isText(f) == \E i \in DOMAIN texts : texts[i].field = f
  IN IF Len(rest) < count \/ Len(rest) # count + Total(lens) THEN {}
     ELSE {[f \in Fields(layout) |->
              CASE f = "args" -> args [] isText(f) -> text(f) [] OTHER -> head[f]] :
             args \in {a \in ReadArgs(SubSeq(pieces, Len(texts) + 1, Len(pieces))) :
                         \A f \in layout.printable : PrintableASCII(text(f))}}

(* ValidAcctFlags; DecodeAcctRequest returns the request with the error,   *)
(* so that it is answered ERROR.                                           *)
Start == 2
StopFlag == 4
Watchdog == 8
ValidAcctFlags(flags) == flags \in {Start, StopFlag, Watchdog, Watchdog + Start}

-----------------------------------------------------------------------------
(* Encoding                                                                *)

(* UseArguments: a plain WATCHDOG carries none.                            *)
ArgsOf(m) == IF "acct" \in DOMAIN m /\ m.acct = Watchdog THEN <<>> ELSE m.args

(* u8len and u16len.                                                       *)
LenFits(n, w) == n < Base^w

EncodeSlot(m, s, count) ==
  CASE s.kind = "len" -> Put(Len(m[s.field]), s.width)
    [] s.kind = "args" -> Put(count, 1)
    [] s.field = "flags" -> <<m.flags % 2>>     \* the known mask of CONTINUE and REPLY
    [] OTHER -> <<m[s.field]>>

(* The Encode methods.                                                     *)
EncodeBody(layout, m) ==
  LET args == IF HasArgs(layout) THEN ArgsOf(m) ELSE <<>>
      texts == Slots(layout, "len")
      raws == [i \in DOMAIN args |-> ArgumentBytes(args[i])]
      body == FlattenSeq([i \in DOMAIN layout.slots |-> EncodeSlot(m, layout.slots[i], Len(args))])
              \o [i \in DOMAIN raws |-> Len(raws[i])]
              \o FlattenSeq([i \in DOMAIN texts |-> m[texts[i].field]]) \o FlattenSeq(raws)
  IN {b \in {body} :
        /\ "status" \in DOMAIN m => m.status # Follow
        /\ "acct" \in DOMAIN m => ValidAcctFlags(m.acct)
        /\ \A f \in layout.printable : PrintableASCII(m[f])
        /\ \A i \in DOMAIN texts : LenFits(Len(m[texts[i].field]), texts[i].width)
        /\ Len(args) < Base /\ \A i \in DOMAIN args : EncodeArgument(args[i]) # {}
        /\ Len(body) <= MaxBody}

-----------------------------------------------------------------------------
(* Packets: four octets, the session, the length, the body.                *)

HeaderSize == 12
EncodePacket(h, body) == h.octets \o Put(h.session, 4) \o Put(Len(body), 4) \o body

ClampMaxBody(max) == IF max = 0 \/ max > MaxBody THEN MaxBody ELSE max

(* DecodePacket: exactly Length octets of body, whatever follows them.     *)
DecodePacket(p, max) ==
  LET length == Get(SubSeq(p, 9, HeaderSize))
  IN IF Len(p) < HeaderSize \/ length > ClampMaxBody(max) \/ Len(p) < HeaderSize + length THEN {}
     ELSE {[octets |-> SubSeq(p, 1, 4), session |-> Get(SubSeq(p, 5, 8)),
            body |-> SubSeq(p, HeaderSize + 1, HeaderSize + length)]}

(* NextSeq and UnknownTypeReply.                                           *)
NextSeq(seq) == IF seq = 0 \/ seq = Base - 1 THEN {} ELSE {seq + 1}

-----------------------------------------------------------------------------
(* The data of a CHAP or MS-CHAP START: id, challenge, response.           *)

SplitChallenge(data, n) ==
  [id |-> data[1], challenge |-> SubSeq(data, 2, 1 + n), response |-> SubSeq(data, 2 + n, Len(data))]
DecodeCHAPData(data) ==
  {SplitChallenge(data, n) : n \in {x \in {Len(data) - 1 - Response} : x >= MinChallenge}}
DecodeMSCHAP(data) ==
  {SplitChallenge(data, n) : n \in {x \in MSChallenges : Len(data) = 1 + x + Response}}
EncodeCHAPData(d) == {b \in {<<d.id>> \o d.challenge \o d.response} : Len(d.response) = Response}
EncodeMSCHAPData(d) == {b \in EncodeCHAPData(d) : Len(d.challenge) \in MSChallenges}

-----------------------------------------------------------------------------
(* ClassifyAuthenStart: the flow a START of this minor version asks for,   *)
(* or the status that refuses it.                                          *)

OneShotTypes == {"pap", "chap", "mschapv1", "mschapv2"}
KnownServices == {"login", "enable", "ppp", "none"}
ClassifyAuthenStart(minor, st) ==
  LET served(version) == st.service \in KnownServices \ {"enable", "none"} /\ minor = version
  IN CASE st.action = "chpass" /\ st.service = "enable" -> "fail"
       [] st.action = "chpass" /\ st.service # "enable" /\ st.type = "ascii" ->
            IF served(0) THEN "chpass" ELSE "fail"
       [] st.action = "login" /\ st.service = "enable" -> IF minor # 0 THEN "fail" ELSE "enable"
       [] st.action = "login" /\ st.service # "enable" /\ st.type \in {"ascii"} \cup OneShotTypes ->
            IF served(IF st.type = "ascii" THEN 0 ELSE 1) THEN st.type ELSE "fail"
       [] OTHER -> "error"

-----------------------------------------------------------------------------
(* What the codec promises                                                 *)

(* What of a message reaches the peer.                                     *)
Carried(layout, m) ==
  [f \in Fields(layout) |->
     CASE f = "flags" -> m.flags % 2 [] f = "args" -> ArgsOf(m) [] OTHER -> m[f]]

(* The data of a START is split without loss.                              *)
ChallengeFaithful(data) ==
  /\ \A d \in DecodeCHAPData(data) : EncodeCHAPData(d) = {data}
  /\ \A d \in DecodeMSCHAP(data) : EncodeMSCHAPData(d) = {data}

(* One octet changed, one cut off, one added.                              *)
Near(b) ==
  {[b EXCEPT ![i] = v] : i \in DOMAIN b, v \in {0, 1, 2, Base - 1}}
  \cup {SubSeq(b, 1, Len(b) - 1), Append(b, 0), Append(b, 1)}

(* The peer decodes what was encoded; and a body that is accepted, however *)
(* it came about, says nothing beyond the message read from it: written    *)
(* again it is the same octets, but for absent arguments and masked flags. *)
BodyFaithful(layout, m) ==
  \A b \in EncodeBody(layout, m) :
    /\ DecodeBody(layout, b) = {Carried(layout, m)}
    /\ \A h \in {[octets |-> <<1, 2, 3, 0>>, session |-> Base + 1]} :
         /\ DecodePacket(EncodePacket(h, b) \o <<1>>, 0)
              = {[octets |-> h.octets, session |-> h.session, body |-> b]}
         /\ \A x \in Near(EncodePacket(h, b)) : \A d \in DecodePacket(x, 0) : Len(d.body) <= MaxBody
    /\ \A x \in Near(b) : \A n \in DecodeBody(layout, x) :
         \A again \in EncodeBody(layout, n) :
           /\ DecodeBody(layout, again) = {Carried(layout, n)}
           /\ again = x \/ Len(again) < Len(x) \/ ("flags" \in Fields(layout) /\ n.flags > 1)

=============================================================================
