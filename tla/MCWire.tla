------------------------------ MODULE MCWire -------------------------------
(***************************************************************************)
(* Messages for the codecs, with octets below 16: texts that are empty,    *)
(* not printable, as long as a length octet allows and one longer, and     *)
(* argument lists at their limits.                                         *)
(***************************************************************************)
EXTENDS Integers, Sequences

Long(n) == [i \in 1..n |-> 5]
Arg(n, s, v) == [name |-> n, sep |-> s, value |-> v]
Eq == 3
Star == 4
ArgLists ==
  {<<>>, <<Arg(<<5>>, Eq, <<>>)>>, <<Arg(<<5>>, Star, <<6, Eq>>), Arg(<<7>>, Eq, <<5>>)>>,
   <<Arg(<<5>>, Eq, Long(13))>>, <<Arg(<<5>>, Eq, Long(14))>>, <<Arg(<<>>, Eq, <<5>>)>>,
   <<Arg(<<5, Eq>>, Eq, <<5>>)>>, <<Arg(<<5>>, 6, <<5>>)>>, <<Arg(<<5>>, Eq, <<0>>)>>}
  \cup {[i \in 1..n |-> Arg(<<5>>, Eq, <<>>)] : n \in {15, 16}}

Texts == {<<>>, <<5>>, <<0, 5>>, Long(15), Long(16)}
Short == {<<>>, <<6>>, <<0>>}
Plain == {<<>>, <<6, 7>>}
Flags == {0, 1, 3}
Statuses == {1, 9}

Messages(name) ==
  CASE name = "AuthenStart" ->
         {[action |-> 1, privLvl |-> 15, type |-> 2, service |-> 0, user |-> u, port |-> p, remAddr |-> r, data |-> d] :
            u \in Texts, p \in Short, r \in Plain, d \in Texts}
    [] name = "AuthenContinue" ->
         {[userMsg |-> u, data |-> d, flags |-> f] : u \in Texts, d \in Texts \cup {Long(17)}, f \in Flags}
    [] name = "AuthenReply" ->
         {[status |-> s, flags |-> f, serverMsg |-> u, data |-> d] :
            s \in Statuses, f \in Flags, u \in Texts, d \in Short}
    [] name = "AuthorRequest" ->
         {[method |-> 1, privLvl |-> 15, type |-> 2, service |-> 0, user |-> u, port |-> p, remAddr |-> <<6>>, args |-> a] :
            u \in Texts, p \in Short, a \in ArgLists}
    [] name = "AuthorResponse" ->
         {[status |-> s, serverMsg |-> u, data |-> d, args |-> a] :
            s \in Statuses, u \in Texts, d \in Short, a \in ArgLists}
    [] name = "AcctRequest" ->
         {[acct |-> f, method |-> 1, privLvl |-> 15, type |-> 2, service |-> 0, user |-> u, port |-> p,
           remAddr |-> <<>>, args |-> a] :
            f \in {2, 8, 10, 6}, u \in Texts, p \in Short, a \in ArgLists}
    [] name = "AcctReply" ->
         {[status |-> s, serverMsg |-> u, data |-> d] : s \in Statuses, u \in Texts, d \in Short}
Bodies == {"AuthenStart", "AuthenContinue", "AuthenReply", "AuthorRequest", "AuthorResponse",
           "AcctRequest", "AcctReply"}

-----------------------------------------------------------------------------
Attributes ==
  {[type |-> t, value |-> v] : t \in {1, 9}, v \in {<<>>, <<0>>, <<2, 1>>, Long(13), Long(14)}}
Packets(first) ==
  {[code |-> 1, id |-> 7, auth |-> <<1, 2>>, attrs |-> a] :
     a \in {<<>>, <<first>>} \cup {<<first, x>> : x \in Attributes} \cup {<<first, x, y>> : x, y \in Attributes}}

-----------------------------------------------------------------------------
(* Accounting requests: a status, then a few attributes.                   *)
A(t, v) == [type |-> t, value |-> v]
AcctStatuses == {<<A("Status-Type", v)>> : v \in {<<0, 1>>, <<0, 2>>, <<0, 3>>, <<1, 3>>, <<2, 0>>, <<3>>}}
             \cup {<<>>, <<A("Status-Type", <<0, 1>>), A("Status-Type", <<0, 3>>)>>}
Numbers == {A(t, v) : t \in {"Session-Time", "Input-Octets", "Input-Gigawords", "Output-Gigawords", "Timestamp"},
                      v \in {<<>>, <<1>>, <<0, 1>>, <<1, 0>>}}
Named == {A("Session-Id", <<1>>), A("NAS-IP", <<1>>), A("NAS-IP", <<1, 2>>), A("NAS-Identifier", <<1, 2>>),
          A("Delay-Time", <<0, 1>>), A("Delay-Time", <<0, 2>>), A("Proxy-State", <<1>>),
          A("Terminate-Cause", <<0, 1>>), A("Terminate-Cause", <<3, 3>>)}
Accountings(status) ==
  {[endpoint |-> "e", peer |-> 1, attrs |-> status \o rest] :
     rest \in {<<>>} \cup {<<x>> : x \in Numbers \cup Named}
             \cup {<<x, y>> : x \in Numbers, y \in {A("Input-Octets", <<0, 1>>), A("Input-Gigawords", <<1, 0>>),
                                                    A("Session-Id", <<1>>), A("Delay-Time", <<0, 2>>)}}}

=============================================================================
