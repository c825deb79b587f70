---------------------------- MODULE RadiusCodec ----------------------------
(***************************************************************************)
(* The packets of RADIUS (internal/radius/codec, radius/attribute and the  *)
(* stream of radius/tls): header and declared length, the walk over the    *)
(* attributes, vendor attributes and the attributes nested in them, and    *)
(* packets one after the other on a stream.                                *)
(*                                                                         *)
(* An octet is a number below Base; decoders and encoders return a set,    *)
(* empty when they refuse.                                                 *)
(***************************************************************************)
EXTENDS Integers, Sequences, SequencesExt

CONSTANTS Base,                \* octets are 0..Base-1
          AuthSize,            \* AuthenticatorSize
          VendorSize,          \* octets of a vendor id
          VendorSpecific,      \* the attribute type of vendor attributes
          Cisco, AVPair, Microsoft, SecretTypes,   \* vendor ids and types
          MaxPacket, MaxAttrs, MaxValues           \* the bounds

(* binary.BigEndian: w octets of a number, and back.                       *)
Put(n, w) == [i \in 1..w |-> (n \div Base^(w - i)) % Base]
Get(s) == FoldLeft(LAMBDA n, d : n * Base + d, 0, s)

HeaderSize == 4 + AuthSize
MaxValueLength == Base - 3

-----------------------------------------------------------------------------
(* Attributes                                                              *)

Raw(t, v) == [type |-> t, value |-> v]
ValueBytes(set) == FoldLeft(LAMBDA n, a : n + Len(a.value), 0, set)
WireSize(set) == FoldLeft(LAMBDA n, a : n + 2 + Len(a.value), 0, set)

(* The walk of attribute.Decode and of ParseVendorTLVs: the offsets at     *)
(* which it looks for an attribute, with -1 when one is cut off or its     *)
(* length is below two.                                                    *)
Offsets(p) ==
  LET step[off \in 0..Len(p)] ==
        IF off = Len(p) THEN {off}
        ELSE IF Len(p) - off < 2 \/ p[off + 2] < 2 \/ p[off + 2] > Len(p) - off THEN {off, -1}
        ELSE {off} \cup step[off + p[off + 2]]
  IN step[0]
WellFormed(p) == -1 \notin Offsets(p)
Walk(p) ==
  LET offs == SetToSortSeq(Offsets(p) \ {Len(p)}, <)
  IN [i \in DOMAIN offs |-> Raw(p[offs[i] + 1], SubSeq(p, offs[i] + 3, offs[i] + p[offs[i] + 2]))]

DecodeAttributes(p, maxAttrs, maxValues) ==
  {set \in IF WellFormed(p) THEN {Walk(p)} ELSE {} : Len(set) <= maxAttrs /\ ValueBytes(set) <= maxValues}

(* Seeded fault: the length octet does not count itself and the type.      *)
Tlv_Short(a) == <<a.type, Len(a.value)>> \o a.value
Tlv(a) == <<a.type, (2 + Len(a.value)) % Base>> \o a.value
EncodeAttributes(set) ==
  IF \E i \in DOMAIN set : Len(set[i].value) > MaxValueLength THEN {}
  ELSE {FlattenSeq([i \in DOMAIN set |-> Tlv(set[i])])}

-----------------------------------------------------------------------------
(* Vendor attributes                                                       *)

ParseVSA(r) ==
  IF r.type # VendorSpecific \/ Len(r.value) < VendorSize THEN {}
  ELSE {[vendor |-> Get(SubSeq(r.value, 1, VendorSize)),
         payload |-> SubSeq(r.value, VendorSize + 1, Len(r.value))]}
VsaRaw(v) ==
  IF Len(v.payload) > MaxValueLength - VendorSize THEN {}
  ELSE {Raw(VendorSpecific, Put(v.vendor, VendorSize) \o v.payload)}

ParseVendorTLVs(p) == IF WellFormed(p) THEN {Walk(p)} ELSE {}
MaxVendorTLVValue == MaxValueLength - VendorSize - 2
EncodeVendorTLVs(tlvs) ==
  IF \/ \E i \in DOMAIN tlvs : Len(tlvs[i].value) > MaxVendorTLVValue
     \/ WireSize(tlvs) > MaxValueLength - VendorSize
  THEN {} ELSE {FlattenSeq([i \in DOMAIN tlvs |-> Tlv(tlvs[i])])}

(* MicrosoftVSA and EncodeCiscoAVPair.                                     *)
VendorRaw(vendor, type, value) ==
  UNION {VsaRaw([vendor |-> vendor, payload |-> p]) : p \in EncodeVendorTLVs(<<Raw(type, value)>>)}
EncodeCiscoAVPair(text) == VendorRaw(Cisco, AVPair, text)
MicrosoftVSA(type, value) == VendorRaw(Microsoft, type, value)

(* MicrosoftSecret: a malformed payload of that vendor counts as secret.   *)
MicrosoftSecret(r) ==
  \E v \in ParseVSA(r) :
    /\ v.vendor = Microsoft
    /\ \/ ParseVendorTLVs(v.payload) = {}
       \/ \E t \in ParseVendorTLVs(v.payload) : \E i \in DOMAIN t : t[i].type \in SecretTypes

(* DecodeCiscoAVPairs: the texts, none for another vendor.                 *)
DecodeCiscoAVPairs(r) ==
  UNION {IF v.vendor # Cisco THEN {<<>>}
         ELSE {LET pairs == SelectSeq(t, LAMBDA x : x.type = AVPair)
               IN [i \in DOMAIN pairs |-> pairs[i].value] : t \in ParseVendorTLVs(v.payload)} :
           v \in ParseVSA(r)}

-----------------------------------------------------------------------------
(* Packets                                                                 *)

(* Bounds.normalized, of the packet size.                                  *)
Normalized(max) ==
  IF max <= 0 \/ max > MaxPacket THEN MaxPacket ELSE IF max < HeaderSize THEN HeaderSize ELSE max

(* DecodeBounded: octets past the declared length are padding.             *)
DecodeBounded(d, max) ==
  LET declared == Get(SubSeq(d, 3, 4))
  IN IF Len(d) < HeaderSize \/ declared < HeaderSize \/ declared > Normalized(max) \/ declared > Len(d) THEN {}
     ELSE {[code |-> d[1], id |-> d[2], auth |-> SubSeq(d, 5, HeaderSize), attrs |-> a] :
             a \in DecodeAttributes(SubSeq(d, HeaderSize + 1, declared), MaxAttrs, MaxValues)}

EncodeBounded(p, max) ==
  {b \in {<<p.code, p.id>> \o Put(HeaderSize + Len(payload), 2) \o p.auth \o payload :
            payload \in EncodeAttributes(p.attrs)} :
     Len(p.attrs) <= MaxAttrs /\ ValueBytes(p.attrs) <= MaxValues /\ Len(b) <= Normalized(max)}

-----------------------------------------------------------------------------
(* Streams                                                                 *)

(* WritePacket: one packet, whole.                                         *)
WritePacket(b) == IF Len(b) < HeaderSize \/ Get(SubSeq(b, 3, 4)) # Len(b) THEN {} ELSE {b}

(* ReadPacket: the packet at the front of a stream and what is left, or    *)
(* nothing: the connection closes.                                         *)
Limit(max) == IF max <= 0 THEN MaxPacket ELSE max     \* the listener's settings
ReadMax(max) == IF max < HeaderSize THEN HeaderSize ELSE IF max > MaxPacket THEN MaxPacket ELSE max
ReadPacket(s, max) ==
  LET length == Get(SubSeq(s, 3, 4))
  IN IF Len(s) < 4 \/ length < HeaderSize \/ length > ReadMax(max) \/ Len(s) < length THEN {}
     ELSE {[packet |-> SubSeq(s, 1, length), rest |-> SubSeq(s, length + 1, Len(s))]}

-----------------------------------------------------------------------------
(* What the codec promises                                                 *)

Near(b) ==
  {[b EXCEPT ![i] = v] : i \in DOMAIN b, v \in {0, 1, 2, 3, Base - 1}}
  \cup {SubSeq(b, 1, Len(b) - 1), Append(b, 0), Append(b, 1)}

(* A packet comes back as it was sent, padded or followed by another on a  *)
(* stream; and a datagram that is accepted, however it came about, is the  *)
(* encoding of the packet read from it, and padding.                       *)
PacketFaithful(p, max) ==
  \A b \in EncodeBounded(p, max) :
    /\ DecodeBounded(b \o <<1, 0>>, max) = {p}
    /\ ReadPacket(b \o b, Limit(max)) = {[packet |-> b, rest |-> b]} /\ WritePacket(b) = {b}
    /\ \A x \in Near(b) :
         /\ \A q \in DecodeBounded(x, max) : \A again \in EncodeBounded(q, max) : IsPrefix(again, x)
         /\ \A r \in ReadPacket(x, Limit(max)) : WritePacket(r.packet) = {r.packet}

(* Vendor attributes come back as they were made, and every attribute that *)
(* holds a secret is known as one.                                         *)
VendorFaithful(text, type) ==
  /\ \A r \in EncodeCiscoAVPair(text) : DecodeCiscoAVPairs(r) = {<<text>>} /\ EncodeAttributes(<<r>>) # {}
  /\ \A r \in MicrosoftVSA(type, text) :
       /\ \A v \in ParseVSA(r) : ParseVendorTLVs(v.payload) = {<<Raw(type, text)>>}
       /\ ParseVSA(r) # {} /\ DecodeCiscoAVPairs(r) = {<<>>}
       /\ MicrosoftSecret(r) <=> type \in SecretTypes

=============================================================================
