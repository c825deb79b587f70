--------------------------- MODULE DecisionProofs ---------------------------
(***************************************************************************)
(* Proofs about Aaa, for any documents, names, words and STARTs, any       *)
(* number of conversations and any limit of rounds; about ClientMatch, for *)
(* any clients, prefixes and peers; about ClientEndpoints, for any         *)
(* configuration files and any sequence of requests; and about Policy and  *)
(* RadiusPolicy, for any valid documents and any requests.                 *)
(*                                                                         *)
(* A session of the AAA service holds a few flags; whether a PASS is       *)
(* earned is a matter of all that was typed.  The argument is that the     *)
(* flags summarise the history: a session is trying, and everything typed  *)
(* so far was wrong; or it has heard the right secret, just now and within *)
(* the allowed rounds, and a change is owed; or it has heard the new       *)
(* secret once after that.                                                 *)
(***************************************************************************)
EXTENDS Aaa, ClientMatch, ClientEndpoints, RuleOrder, SequenceTheorems, FiniteSetTheorems, TLAPS

(* The history of a conversation: the START, the name where the START has  *)
(* none, and then the words.                                               *)
IsSeq(h) == Len(h) \in Nat /\ h = [i \in 1..Len(h) |-> h[i]]
History(h) == IsSeq(h) /\ Len(h) >= 1
Off(h) == IF h[1].start.user = Empty THEN 2 ELSE 1
Count(h) == Len(h) - Off(h)
Word(h, i) == h[Off(h) + i]
Missed(h, n, slot) == \A j \in 1..n : slot \notin Word(h, j).right
FirstRight(h, i, slot) ==
  i \in 1..MaxRounds /\ slot \in Word(h, i).right /\ Missed(h, i - 1, slot)

Fields == {"flow", "user", "client", "snap", "needUser", "needOld", "needNew", "needConfirm", "newPass", "fails"}

(* A session is about its START, and about the name that was given.        *)
Founded(s, h) ==
  /\ History(h)
  /\ DOMAIN s = Fields
  /\ h[1].start \in Starts
  /\ s.flow = classifyStart(h[1].start) /\ s.flow \in Interactive
  /\ s.snap = h[1].snap /\ s.client = h[1].start.client
  /\ methodAllowed(s.snap.doc, s.client, s.flow)
  /\ s.needUser \in BOOLEAN /\ (s.needUser <=> Count(h) = -1)
  /\ ~s.needUser => Count(h) >= 0 /\ s.user = canonUser(Name(h))

Owed(s, h) ==
  \/ SlotOf(s.flow) \in s.snap.doc.users[s.user].must
  \/ h[1].start.action = "chpass"

(* What the flags of a session say.                                        *)
Trying(s, h) ==
  /\ s.needOld \in BOOLEAN /\ (s.needOld <=> s.flow = "chpass")
  /\ s.needNew \in BOOLEAN /\ (s.needNew <=> s.flow = "chpass")
  /\ s.needConfirm = FALSE
  /\ s.fails \in Nat /\ s.fails < MaxRounds
  /\ s.fails = IF s.needUser THEN 0 ELSE Count(h)
  /\ Missed(h, Count(h), SlotOf(s.flow))
Proven(s, h) ==
  /\ s.needUser = FALSE /\ s.needOld = FALSE /\ s.needNew = TRUE /\ s.needConfirm = FALSE
  /\ FirstRight(h, Count(h), SlotOf(s.flow)) /\ Owed(s, h)
Confirming(s, h) ==
  /\ s.needUser = FALSE /\ s.needOld = FALSE /\ s.needNew = FALSE /\ s.needConfirm = TRUE
  /\ Count(h) >= 2
  /\ FirstRight(h, Count(h) - 1, SlotOf(s.flow)) /\ Owed(s, h)
  /\ Word(h, Count(h)).typed = s.newPass /\ s.newPass # Empty

Talk(s, h) == Founded(s, h) /\ (Trying(s, h) \/ Proven(s, h) \/ Confirming(s, h))

(* A snapshot a conversation keeps is older than the published one, or is  *)
(* the published one.                                                      *)
Dated(snap, now) ==
  /\ snap.rev \in Nat /\ snap.rev <= now.rev
  /\ snap.rev = now.rev => snap.doc = now.doc

TablesOK ==
  /\ DOMAIN sessions = Keys /\ DOMAIN reply = Keys
  /\ said = [k \in Keys |-> said[k]]
  /\ current.rev \in Nat
TalksOK ==
  \A k \in Keys : sessions[k] # NoSession => Talk(sessions[k], said[k]) /\ Dated(sessions[k].snap, current)

(* The parts of PassIsEarned.                                              *)
Earned(h, now) ==
  LET st == h[1].start
      doc == h[1].snap.doc
      flow == classifyStart(st)
  IN /\ doc.clients[st.client].enabled
     /\ doc.clients[st.client].methods = {} \/ flow \in doc.clients[st.client].methods
     /\ IF flow \in OneShot
        THEN /\ SlotOf(flow) \in h[1].right
             /\ "login" \notin doc.users[canonUser(st.user)].must
        ELSE \E i \in DOMAIN Given(h) : EarnedAt(h, i, SlotOf(flow), now)
PassesEarned == \A k \in Keys : reply[k].status = "pass" => Earned(said[k], reply[k].snap)
AcceptEarned ==
  access.verdict = "accept" =>
    LET a == access.attempt
        doc == access.snap.doc
        u == canonUser(a.user)
    IN /\ (IF a.method = "password" THEN "login" ELSE "challenge") \in access.right
       /\ u \in doc.permits /\ "login" \notin doc.users[u].must

AaaInv == TablesOK /\ TalksOK /\ PassesEarned /\ AcceptEarned

-----------------------------------------------------------------------------
(* Histories                                                               *)

LEMMA SeqFacts ==
  ASSUME NEW h, IsSeq(h)
  PROVE  \E S : h \in Seq(S)
  <1> DEFINE S == {h[i] : i \in 1..Len(h)}
  <1>1. h \in [1..Len(h) -> S]
    BY DEF IsSeq
  <1>2. h \in Seq(S)
    BY <1>1 DEF IsSeq
  <1> QED
    BY <1>2

LEMMA IsSeqOf ==
  ASSUME NEW S, NEW h \in Seq(S)
  PROVE  IsSeq(h)
  BY DEF IsSeq

(* A first entry.                                                          *)
LEMMA FirstFacts ==
  ASSUME NEW e
  PROVE  IsSeq(<<e>>) /\ Len(<<e>>) = 1 /\ <<e>>[1] = e
  <1>1. <<e>> \in Seq({e})
    OBVIOUS
  <1> QED
    BY <1>1, IsSeqOf

(* One more entry.                                                         *)
LEMMA AppendFacts ==
  ASSUME NEW h, IsSeq(h), NEW e
  PROVE  /\ IsSeq(Append(h, e)) /\ Len(Append(h, e)) = Len(h) + 1
         /\ Append(h, e)[Len(h) + 1] = e
         /\ \A i \in 1..Len(h) : Append(h, e)[i] = h[i]
  <1>1. PICK S : h \in Seq(S)
    BY SeqFacts
  <1>2. h \in Seq(S \cup {e}) /\ e \in S \cup {e}
    BY <1>1
  <1>3. Append(h, e) \in Seq(S \cup {e})
    BY <1>2
  <1>4. IsSeq(Append(h, e))
    BY <1>3, IsSeqOf
  <1> QED
    BY <1>2, <1>4

(* The history g is h and then e.                                          *)
Grown(g, h, e) ==
  /\ History(g) /\ g[1] = h[1]
  /\ Count(g) = Count(h) + 1 /\ Count(h) \in Int
  /\ \A i \in 1..Count(h) : Word(g, i) = Word(h, i)
  /\ Count(h) >= 0 => Word(g, Count(h) + 1) = e /\ Name(g) = Name(h)
  /\ Count(h) = -1 => Name(g) = e.typed

LEMMA HearFacts ==
  ASSUME NEW h, History(h), NEW e
  PROVE  Grown(Append(h, e), h, e)
  <1>0. IsSeq(h) /\ Len(h) >= 1
    BY DEF History
  <1>0a. PICK g : g = Append(h, e)
    OBVIOUS
  <1>1. /\ IsSeq(g) /\ Len(g) = Len(h) + 1 /\ g[Len(h) + 1] = e
        /\ \A i \in 1..Len(h) : g[i] = h[i]
    BY <1>0, <1>0a, AppendFacts
  <1>2. Len(h) \in Nat /\ g[1] = h[1]
    BY <1>0, <1>1 DEF IsSeq
  <1>3. Off(g) = Off(h) /\ Off(h) \in {1, 2}
    BY <1>2 DEF Off
  <1>4. Count(g) = Count(h) + 1 /\ Count(h) \in Int /\ Len(h) = Count(h) + Off(h)
    <2>1. Len(g) = Len(h) + 1
      BY <1>1
    <2>2. Off(h) \in Int /\ Len(h) \in Int
      BY <1>2, <1>3
    <2> QED
      BY <1>3, <2>1, <2>2 DEF Count
  <1>5. \A i \in 1..Count(h) : Word(g, i) = Word(h, i)
    BY <1>1, <1>2, <1>3, <1>4 DEF Word
  <1>6. ASSUME Count(h) >= 0
        PROVE  Word(g, Count(h) + 1) = e /\ Name(g) = Name(h)
    <2>1. Word(g, Count(h) + 1) = g[Len(h) + 1]
      <3>1. Off(g) + (Count(h) + 1) = Len(h) + 1
        BY <1>2, <1>3, <1>4
      <3> QED
        BY <3>1 DEF Word
    <2>2. Name(g) = Name(h)
      <3>1. CASE h[1].start.user = Empty
        <4>1. Len(h) > 1 /\ Len(g) > 1
          BY <1>1, <1>2, <1>4, <1>6, <3>1 DEF Off
        <4>2. g[2] = h[2]
          BY <1>1, <1>2, <4>1
        <4> QED
          BY <1>2, <3>1, <4>1, <4>2 DEF Name
      <3>2. CASE h[1].start.user # Empty
        BY <1>2, <3>2 DEF Name
      <3> QED
        BY <3>1, <3>2
    <2> QED
      BY <1>1, <2>1, <2>2
  <1>7. ASSUME Count(h) = -1
        PROVE  Name(g) = e.typed
    <2>1. h[1].start.user = Empty /\ Len(h) = 1
      BY <1>0, <1>2, <1>4, <1>7 DEF Off
    <2> QED
      BY <1>1, <1>2, <2>1 DEF Name
  <1>8. History(g)
    BY <1>0, <1>1, <1>2 DEF History
  <1>9. Grown(g, h, e)
    BY <1>2, <1>4, <1>5, <1>6, <1>7, <1>8 DEF Grown
  <1> QED
    BY <1>0a, <1>9

(* The words of a history.                                                 *)
LEMMA GivenFacts ==
  ASSUME NEW h, History(h), Count(h) >= 0
  PROVE  /\ Len(Given(h)) = Count(h) /\ DOMAIN Given(h) = 1..Count(h)
         /\ \A i \in 1..Count(h) : Given(h)[i] = Word(h, i)
  <1>0. IsSeq(h) /\ Len(h) >= 1
    BY DEF History
  <1>1. PICK S : h \in Seq(S)
    BY <1>0, SeqFacts
  <1>2. PICK m \in {2, 3} : m = (IF h[1].start.user = Empty THEN 3 ELSE 2)
    OBVIOUS
  <1>3. Given(h) = SubSeq(h, m, Len(h)) /\ Off(h) = m - 1 /\ Len(h) \in Nat
    BY <1>0, <1>1, <1>2 DEF Given, Off, IsSeq
  <1>4. m <= Len(h) + 1 /\ Count(h) = Len(h) - m + 1
    BY <1>3 DEF Count
  <1>5. m \in 1..Len(h)+1 /\ Len(h) \in m-1 .. Len(h)
    BY <1>3, <1>4
  <1>6. /\ SubSeq(h, m, Len(h)) \in Seq(S)
        /\ Len(SubSeq(h, m, Len(h))) = Len(h) - m + 1
        /\ \A i \in 1 .. Len(h) - m + 1 : SubSeq(h, m, Len(h))[i] = h[m + i - 1]
    BY <1>1, <1>5, SubSeqProperties
  <1>7. \A i \in 1..Count(h) : Given(h)[i] = Word(h, i)
    BY <1>3, <1>4, <1>6 DEF Word
  <1> QED
    BY <1>3, <1>4, <1>6, <1>7

(* What makes a PASS, said of the words.                                   *)
EarnedWords(h, i, slot, now, doc, u) ==
  /\ FirstRight(h, i, slot)
  /\ doc = h[1].snap.doc /\ u = canonUser(Name(h))
  /\ \/ /\ Count(h) = i
        /\ slot \notin doc.users[u].must /\ h[1].start.action # "chpass"
     \/ /\ Count(h) = i + 2
        /\ slot \in doc.users[u].must \/ h[1].start.action = "chpass"
        /\ Word(h, i + 1).typed = Word(h, i + 2).typed /\ Word(h, i + 1).typed # Empty
        /\ now.rev = h[1].snap.rev + 1
        /\ now.doc = Override(doc, u, slot, Word(h, i + 1).typed)

LEMMA EarnedFromWords ==
  ASSUME NEW h, History(h), NEW i, NEW slot, NEW now, NEW doc, NEW u,
         EarnedWords(h, i, slot, now, doc, u)
  PROVE  i \in DOMAIN Given(h) /\ EarnedAt(h, i, slot, now)
  <1>0. doc = h[1].snap.doc /\ u = canonUser(Name(h))
    BY DEF EarnedWords
  <1>1. i \in Nat /\ 1 <= i /\ i <= MaxRounds /\ slot \in Word(h, i).right /\ Missed(h, i - 1, slot)
    BY AaaAssumption DEF FirstRight, EarnedWords
  <1>2. Count(h) \in Nat /\ i \in 1..Count(h)
    BY <1>1 DEF EarnedWords
  <1>3. /\ Len(Given(h)) = Count(h) /\ DOMAIN Given(h) = 1..Count(h)
        /\ \A j \in 1..Count(h) : Given(h)[j] = Word(h, j)
    BY <1>2, GivenFacts
  <1>4. slot \in Given(h)[i].right /\ \A j \in 1..(i - 1) : slot \notin Given(h)[j].right
    BY <1>1, <1>2, <1>3 DEF Missed
  <1>5. CASE Count(h) = i /\ slot \notin doc.users[u].must /\ h[1].start.action # "chpass"
    BY <1>0, <1>1, <1>2, <1>3, <1>4, <1>5 DEF EarnedAt
  <1>6. CASE /\ Count(h) = i + 2
             /\ slot \in doc.users[u].must \/ h[1].start.action = "chpass"
             /\ Word(h, i + 1).typed = Word(h, i + 2).typed /\ Word(h, i + 1).typed # Empty
             /\ now.rev = h[1].snap.rev + 1
             /\ now.doc = Override(doc, u, slot, Word(h, i + 1).typed)
    <2>1. Given(h)[i + 1] = Word(h, i + 1) /\ Given(h)[i + 2] = Word(h, i + 2)
      BY <1>1, <1>3, <1>6
    <2> QED
      BY <1>0, <1>1, <1>2, <1>3, <1>4, <1>6, <2>1 DEF EarnedAt
  <1> QED
    BY <1>5, <1>6 DEF EarnedWords

-----------------------------------------------------------------------------
(* Credentials: the service verifies what is right, and nothing else.      *)

Slots == {"login", "enable", "challenge"}

LEMMA SlotFacts == \A flow : SlotOf(flow) \in Slots
  BY DEF SlotOf, Slots

LEMMA VerifyIsRight ==
  ASSUME NEW doc, NEW typed, NEW on, NEW slot \in Slots, NEW word
  PROVE  /\ Verify(doc, canonUser(typed), on, slot, word) <=> slot \in Right(doc, typed, on, word)
         /\ Verify(doc, canonUser(typed), on, slot, word) => Known(doc, canonUser(typed))
  <1> DEFINE u == canonUser(typed)
  <1>1. Verify(doc, u, on, slot, word) <=>
          lookup(doc, u, on) /\ word # Empty /\ Truth(doc, u, slot) = word
    BY DEF Verify, verifyResponse, VerifyArgon2id, resolveSecret, Truth
  <1>2. slot \in Right(doc, typed, on, word) <=>
          lookup(doc, u, on) /\ word # Empty /\ Truth(doc, u, slot) = word
    BY DEF Right, lookup, Known, Slots
  <1>3. lookup(doc, u, on) => Known(doc, u)
    BY DEF lookup
  <1> QED
    BY <1>1, <1>2, <1>3

(* A conversation that changes a password says so in its START.            *)
LEMMA FlowFacts ==
  ASSUME NEW st \in Starts, classifyStart(st) \in Interactive
  PROVE  classifyStart(st) = "chpass" <=> st.action = "chpass"
  BY AaaAssumption DEF classifyStart, Interactive

-----------------------------------------------------------------------------
(* Steps of one conversation                                               *)

(* A conversation changes its own entries, and the published snapshot only *)
(* by a new revision.                                                      *)
LEMMA ConversationStep ==
  ASSUME AaaInv, NEW k \in Keys, NEW s, NEW h, NEW a,
         sessions' = [sessions EXCEPT ![k] = s],
         said' = [said EXCEPT ![k] = h],
         reply' = [reply EXCEPT ![k] = a],
         access' = access,
         current' = current \/ (current'.rev \in Nat /\ current'.rev > current.rev),
         s # NoSession => Talk(s, h) /\ Dated(s.snap, current'),
         a.status = "pass" => Earned(h, a.snap)
  PROVE  AaaInv'
  <1>1. TablesOK'
    BY DEF AaaInv, TablesOK
  <1>2. \A j \in Keys : /\ j = k => sessions'[j] = s /\ said'[j] = h /\ reply'[j] = a
                        /\ j # k => sessions'[j] = sessions[j] /\ said'[j] = said[j] /\ reply'[j] = reply[j]
    BY DEF AaaInv, TablesOK
  <1>3. ASSUME NEW j \in Keys, sessions'[j] # NoSession
        PROVE  Talk(sessions'[j], said'[j]) /\ Dated(sessions'[j].snap, current')
    <2>1. CASE j = k
      BY <1>2, <1>3, <2>1
    <2>2. CASE j # k
      <3>1. Talk(sessions[j], said[j]) /\ Dated(sessions[j].snap, current)
        BY <1>2, <1>3, <2>2 DEF AaaInv, TalksOK
      <3>2. Dated(sessions[j].snap, current')
        BY <3>1 DEF Dated, AaaInv, TablesOK
      <3> QED
        BY <1>2, <2>2, <3>1, <3>2
    <2> QED
      BY <2>1, <2>2
  <1>4. TalksOK'
    BY <1>3 DEF TalksOK
  <1>5. PassesEarned'
    <2>1. SUFFICES ASSUME NEW j \in Keys, reply'[j].status = "pass"
                   PROVE  Earned(said'[j], reply'[j].snap)
      BY DEF PassesEarned
    <2>2. CASE j = k
      BY <1>2, <2>1, <2>2
    <2>3. CASE j # k
      BY <1>2, <2>1, <2>3 DEF AaaInv, PassesEarned
    <2> QED
      BY <2>2, <2>3
  <1>6. AcceptEarned'
    BY DEF AaaInv, AcceptEarned
  <1> QED
    BY <1>1, <1>4, <1>5, <1>6 DEF AaaInv

(* A new session is trying, and has heard nothing.                         *)
LEMMA NewTalk ==
  ASSUME NEW st \in Starts, NEW r, NEW snap,
         classifyStart(st) \in Interactive,
         methodAllowed(snap.doc, st.client, classifyStart(st)),
         NEW s, s = newSession(snap, st, classifyStart(st)),
         NEW h, h = <<[start |-> st, snap |-> snap, right |-> r]>>
  PROVE  Talk(s, h) /\ s.snap = snap
  <1>1. IsSeq(h) /\ Len(h) = 1 /\ h[1] = [start |-> st, snap |-> snap, right |-> r]
    BY FirstFacts
  <1>2. h[1].start = st /\ h[1].snap = snap
    BY <1>1
  <1>3. /\ DOMAIN s = Fields
        /\ s.flow = classifyStart(st) /\ s.user = canonUser(st.user)
        /\ s.client = st.client /\ s.snap = snap
        /\ s.needUser = (st.user = Empty)
        /\ s.needOld = (classifyStart(st) = "chpass") /\ s.needNew = (classifyStart(st) = "chpass")
        /\ s.needConfirm = FALSE /\ s.fails = 0
    BY DEF newSession, Fields
  <1>a. /\ s.needUser \in BOOLEAN /\ (s.needUser <=> st.user = Empty)
        /\ s.needOld \in BOOLEAN /\ (s.needOld <=> classifyStart(st) = "chpass")
        /\ s.needNew \in BOOLEAN /\ (s.needNew <=> classifyStart(st) = "chpass")
    BY <1>3, Zenon
  <1>4. Count(h) = (IF st.user = Empty THEN -1 ELSE 0)
    BY <1>1, <1>2 DEF Count, Off
  <1>5. st.user # Empty => Name(h) = st.user
    BY <1>2 DEF Name
  <1>6. Founded(s, h)
    BY <1>1, <1>2, <1>3, <1>a, <1>4, <1>5 DEF Founded, History
  <1>7. Trying(s, h)
    BY <1>3, <1>a, <1>4, AaaAssumption DEF Trying, Missed
  <1> QED
    BY <1>3, <1>6, <1>7 DEF Talk

LEMMA PromptFacts == \A flow, user : FirstPrompt(flow, user) \in {"getuser", "getdata", "getpass"}
  BY DEF FirstPrompt

LEMMA BeginInv ==
  ASSUME AaaInv, NEW k \in Keys, NEW st \in Starts, Begin(k, st)
  PROVE  AaaInv'
  <1> DEFINE flow == classifyStart(st)
             r == Right(current.doc, st.user, st.client, st.data)
             status == IF ~st.fits THEN "error"
                ELSE IF flow \notin Interactive \cup OneShot THEN IF flow = "fail" THEN "fail" ELSE "error"
                ELSE IF ~methodAllowed(current.doc, st.client, flow) THEN "restart"
                ELSE IF flow \in OneShot THEN oneShot(current.doc, st, flow)
                ELSE IF flow = "enable" /\ st.overPriv THEN "fail"
                ELSE FirstPrompt(flow, canonUser(st.user))
  <1>1. PICK s : s = IF status \in {"getuser", "getpass", "getdata"} THEN newSession(current, st, flow) ELSE NoSession
    OBVIOUS
  <1>2. PICK h : h = <<[start |-> st, snap |-> current, right |-> r]>>
    OBVIOUS
  <1>3. PICK a : a = [status |-> status, snap |-> current]
    OBVIOUS
  <1>4. /\ sessions' = [sessions EXCEPT ![k] = s] /\ said' = [said EXCEPT ![k] = h]
        /\ reply' = [reply EXCEPT ![k] = a]
        /\ current' = current /\ access' = access
    BY <1>1, <1>2, <1>3 DEF Begin, Answer
  <1>5. ASSUME s # NoSession
        PROVE  Talk(s, h) /\ Dated(s.snap, current')
    <2>1. status \in {"getuser", "getpass", "getdata"} /\ s = newSession(current, st, flow)
      BY <1>1, <1>5
    <2>2. flow \in Interactive /\ methodAllowed(current.doc, st.client, flow)
      BY <2>1 DEF oneShot, Interactive, OneShot
    <2>3. Talk(s, h) /\ s.snap = current
      BY <1>2, <2>1, <2>2, NewTalk
    <2> QED
      BY <1>4, <2>3 DEF Dated, AaaInv, TablesOK
  <1>6. ASSUME a.status = "pass"
        PROVE  Earned(h, a.snap)
    <2>1. status = "pass"
      BY <1>3, <1>6
    <2>2. /\ flow \in OneShot /\ methodAllowed(current.doc, st.client, flow)
          /\ Verify(current.doc, canonUser(st.user), st.client, SlotOf(flow), st.data)
          /\ ~mustChange(current.doc, canonUser(st.user), "login")
      BY <2>1 DEF oneShot, FirstPrompt
    <2>4. SlotOf(flow) \in r /\ Known(current.doc, canonUser(st.user))
      BY <2>2, SlotFacts, VerifyIsRight
    <2>5. "login" \notin current.doc.users[canonUser(st.user)].must
      BY <2>2, <2>4 DEF mustChange
    <2>6. h[1] = [start |-> st, snap |-> current, right |-> r]
      BY <1>2, FirstFacts
    <2>7. h[1].start = st /\ h[1].snap = current /\ h[1].right = r
      BY <2>6
    <2> HIDE DEF r
    <2> QED
      BY <2>2, <2>4, <2>5, <2>7 DEF Earned, methodAllowed
  <1> QED
    BY <1>4, <1>5, <1>6, ConversationStep

-----------------------------------------------------------------------------
(* CONTINUE                                                                *)

(* What is typed, as the history keeps it.                                 *)
Said(h, typed) ==
  [typed |-> typed, right |-> Right(h[1].snap.doc, Name(h), h[1].start.client, typed)]

(* A word is heard by a session that knows its user: all that the session  *)
(* rests on is as it was, and the word is right if it is verified.         *)
Heard(s, g, h, typed) ==
  /\ Founded(s, g)
  /\ Count(h) \in Nat /\ Count(g) = Count(h) + 1 /\ g[1] = h[1]
  /\ \A i \in 1..Count(h) : Word(g, i) = Word(h, i)
  /\ Word(g, Count(h) + 1).typed = typed
  /\ Verified(s, typed) <=> SlotOf(s.flow) \in Word(g, Count(h) + 1).right
  /\ Verified(s, typed) => Known(s.snap.doc, s.user)

LEMMA WordHeard ==
  ASSUME NEW s, NEW h, Founded(s, h), s.needUser = FALSE, NEW typed,
         NEW g, g = Append(h, Said(h, typed))
  PROVE  Heard(s, g, h, typed)
  <1>1. PICK e : e = Said(h, typed)
    OBVIOUS
  <1>2. e.typed = typed /\ e.right = Right(h[1].snap.doc, Name(h), h[1].start.client, typed)
    BY <1>1 DEF Said
  <1>3. History(h) /\ Count(h) >= 0 /\ s.user = canonUser(Name(h))
    BY DEF Founded
  <1>a. g = Append(h, e)
    BY <1>1
  <1>b. Grown(g, h, e)
    BY <1>a, <1>3, HearFacts
  <1>4. /\ History(g) /\ g[1] = h[1]
        /\ Count(g) = Count(h) + 1 /\ Count(h) \in Nat
        /\ \A i \in 1..Count(h) : Word(g, i) = Word(h, i)
        /\ Word(g, Count(h) + 1) = e /\ Name(g) = Name(h)
    BY <1>3, <1>b DEF Grown
  <1>5. Founded(s, g)
    BY <1>3, <1>4 DEF Founded
  <1>6. s.snap = h[1].snap /\ s.client = h[1].start.client
    BY DEF Founded
  <1>7. /\ Verified(s, typed) <=> SlotOf(s.flow) \in e.right
        /\ Verified(s, typed) => Known(s.snap.doc, s.user)
    BY <1>2, <1>3, <1>6, SlotFacts, VerifyIsRight DEF Verified
  <1> QED
    BY <1>2, <1>4, <1>5, <1>7 DEF Heard

(* While a session is trying.                                              *)
LEMMA HitOrMiss ==
  ASSUME NEW s, NEW h, Founded(s, h), Trying(s, h), s.needUser = FALSE, NEW typed,
         NEW g, g = Append(h, Said(h, typed)),
         NEW slot, slot = SlotOf(s.flow)
  PROVE  /\ ~Verified(s, typed) => Missed(g, Count(g), slot)
         /\ Verified(s, typed) => FirstRight(g, Count(g), slot)
  <1>0. Heard(s, g, h, typed)
    BY WordHeard
  <1>1. /\ Count(h) \in Nat /\ Count(g) = Count(h) + 1
        /\ \A i \in 1..Count(h) : Word(g, i) = Word(h, i)
        /\ Verified(s, typed) <=> slot \in Word(g, Count(h) + 1).right
    BY <1>0 DEF Heard
  <1>2. Missed(h, Count(h), slot) /\ Count(h) < MaxRounds
    BY DEF Trying
  <1>3. Missed(g, Count(h), slot)
    BY <1>1, <1>2 DEF Missed
  <1>4. ~Verified(s, typed) => Missed(g, Count(g), slot)
    <2>1. \A j \in 1..(Count(h) + 1) : j \in 1..Count(h) \/ j = Count(h) + 1
      BY <1>1
    <2> QED
      BY <1>1, <1>3, <2>1 DEF Missed
  <1>5. Verified(s, typed) => FirstRight(g, Count(g), slot)
    <2>1. Count(g) \in 1..MaxRounds /\ Count(g) - 1 = Count(h)
      BY <1>1, <1>2, AaaAssumption
    <2> QED
      BY <1>1, <1>3, <2>1 DEF FirstRight
  <1> QED
    BY <1>4, <1>5

(* Edits of a session that leave what it rests on.                         *)
LEMMA SameFounded ==
  ASSUME NEW s, NEW t, NEW h, Founded(s, h), DOMAIN t = Fields,
         t.flow = s.flow, t.user = s.user, t.client = s.client, t.snap = s.snap, t.needUser = s.needUser
  PROVE  Founded(t, h) /\ (Owed(t, h) <=> Owed(s, h))
  <1>1. Founded(t, h)
    BY DEF Founded
  <1> QED
    BY <1>1 DEF Owed

(* The handlers see one conversation: its session and what is said in it.  *)
LEMMA ContinueFacts ==
  ASSUME AaaInv, NEW k \in Keys, NEW typed, sessions[k] # NoSession, Hears(k, typed)
  PROVE  /\ Talk(sessions[k], said[k]) /\ Dated(sessions[k].snap, current)
         /\ said' = [said EXCEPT ![k] = Append(said[k], Said(said[k], typed))]
         /\ access' = access
  <1>1. Talk(sessions[k], said[k]) /\ Dated(sessions[k].snap, current)
    BY DEF AaaInv, TalksOK
  <1>2. said' = [said EXCEPT ![k] = Append(said[k], Said(said[k], typed))] /\ access' = access
    BY DEF Hears, Said, AaaInv, TablesOK
  <1> QED
    BY <1>1, <1>2

(* The name is given.                                                      *)
Named(s, typed) == [s EXCEPT !.user = canonUser(typed), !.needUser = FALSE]

LEMMA NameTalk ==
  ASSUME NEW s, NEW h, Talk(s, h), s.needUser = TRUE, NEW typed,
         NEW g, g = Append(h, Said(h, typed)),
         NEW t, t = Named(s, typed)
  PROVE  Talk(t, g) /\ t.snap = s.snap
  <1>1. Founded(s, h) /\ Trying(s, h)
    BY DEF Talk, Proven, Confirming
  <1>2. PICK e : e = Said(h, typed)
    OBVIOUS
  <1>3. e.typed = typed
    BY <1>2 DEF Said
  <1>4. History(h) /\ Count(h) = -1
    BY <1>1 DEF Founded
  <1>5. Grown(g, h, e)
    BY <1>2, <1>4, HearFacts
  <1>6. History(g) /\ g[1] = h[1] /\ Count(g) = 0 /\ Name(g) = typed
    BY <1>3, <1>4, <1>5 DEF Grown
  <1>7. /\ DOMAIN t = Fields /\ t.flow = s.flow /\ t.client = s.client /\ t.snap = s.snap
        /\ t.user = canonUser(typed) /\ t.needUser = FALSE
        /\ t.needOld = s.needOld /\ t.needNew = s.needNew /\ t.needConfirm = s.needConfirm
        /\ t.fails = s.fails
    BY <1>1 DEF Founded, Fields, Named
  <1>8. Founded(t, g)
    <2>1. /\ g[1].start \in Starts
          /\ t.flow = classifyStart(g[1].start) /\ t.flow \in Interactive
          /\ t.snap = g[1].snap /\ t.client = g[1].start.client
          /\ methodAllowed(t.snap.doc, t.client, t.flow)
      BY <1>1, <1>6, <1>7 DEF Founded
    <2>2. t.needUser \in BOOLEAN /\ (t.needUser <=> Count(g) = -1)
      <3>1. t.needUser = FALSE
        BY <1>7
      <3>2. Count(g) # -1
        BY <1>6
      <3> QED
        BY <3>1, <3>2
    <2>3. Count(g) >= 0 /\ t.user = canonUser(Name(g))
      BY <1>6, <1>7
    <2> QED
      BY <1>6, <1>7, <2>1, <2>2, <2>3 DEF Founded
  <1>9. s.fails = 0
    BY <1>1 DEF Trying
  <1>10. Trying(t, g)
    BY <1>1, <1>6, <1>7, <1>9 DEF Trying, Missed
  <1> QED
    BY <1>7, <1>8, <1>10 DEF Talk

(* A wrong word with rounds left.                                          *)
LEMMA RetryTalk ==
  ASSUME NEW s, NEW h, Founded(s, h), Trying(s, h), s.needUser = FALSE, NEW typed,
         ~Verified(s, typed), s.fails + 1 < MaxRounds,
         NEW g, g = Append(h, Said(h, typed)),
         NEW t, t = [s EXCEPT !.fails = @ + 1]
  PROVE  Talk(t, g) /\ t.snap = s.snap
  <1>1. Heard(s, g, h, typed)
    BY WordHeard
  <1>2. Founded(s, g) /\ Count(g) = Count(h) + 1
    BY <1>1 DEF Heard
  <1>3. Missed(g, Count(g), SlotOf(s.flow))
    BY HitOrMiss
  <1>4. /\ DOMAIN t = Fields /\ t.flow = s.flow /\ t.client = s.client /\ t.snap = s.snap
        /\ t.user = s.user /\ t.needUser = s.needUser
        /\ t.needOld = s.needOld /\ t.needNew = s.needNew /\ t.needConfirm = s.needConfirm
        /\ t.fails = s.fails + 1
    BY DEF Founded, Fields
  <1>5. Founded(t, g)
    BY <1>2, <1>4, SameFounded
  <1>6. s.fails = Count(h)
    BY DEF Trying
  <1>7. t.fails \in Nat /\ t.fails < MaxRounds /\ t.fails = Count(g)
    BY <1>2, <1>4, <1>6 DEF Trying
  <1>8. Trying(t, g)
    BY <1>3, <1>4, <1>7 DEF Trying
  <1> QED
    BY <1>4, <1>5, <1>8 DEF Talk

(* The right word, with a change owed.                                     *)
LEMMA ProvenTalk ==
  ASSUME NEW s, NEW h, Founded(s, h), Trying(s, h), s.needUser = FALSE, NEW typed, Verified(s, typed),
         Owed(s, h),
         NEW g, g = Append(h, Said(h, typed)),
         NEW t, t \in {[s EXCEPT !.needNew = TRUE, !.fails = 0], [s EXCEPT !.needOld = FALSE, !.fails = 0]},
         t.needNew, ~t.needOld
  PROVE  Talk(t, g) /\ t.snap = s.snap
  <1>1. Heard(s, g, h, typed)
    BY WordHeard
  <1>2. Founded(s, g) /\ g[1] = h[1]
    BY <1>1 DEF Heard
  <1>3. FirstRight(g, Count(g), SlotOf(s.flow))
    BY HitOrMiss
  <1>4. /\ DOMAIN t = Fields /\ t.flow = s.flow /\ t.client = s.client /\ t.snap = s.snap
        /\ t.user = s.user /\ t.needUser = s.needUser
        /\ t.needConfirm = s.needConfirm
        /\ t.needOld \in {FALSE, s.needOld} /\ t.needNew \in {TRUE, s.needNew}
    BY DEF Founded, Fields
  <1>5. t.needOld = FALSE /\ t.needNew = TRUE /\ t.needConfirm = FALSE
    BY <1>4 DEF Trying
  <1>6. Owed(s, g)
    BY <1>2 DEF Owed
  <1>7. Founded(t, g) /\ Owed(t, g)
    BY <1>2, <1>4, <1>6, SameFounded
  <1>8. Proven(t, g)
    BY <1>3, <1>4, <1>5, <1>7 DEF Proven
  <1> QED
    BY <1>4, <1>7, <1>8 DEF Talk

(* The new secret for the first time.                                      *)
Renewed(s, typed) == [s EXCEPT !.newPass = typed, !.needNew = FALSE, !.needConfirm = TRUE]

LEMMA ConfirmTalk ==
  ASSUME NEW s, NEW h, Founded(s, h), Proven(s, h), NEW typed, typed # Empty,
         NEW g, g = Append(h, Said(h, typed)),
         NEW t, t = Renewed(s, typed)
  PROVE  Talk(t, g) /\ t.snap = s.snap
  <1>0. s.needUser = FALSE
    BY DEF Proven
  <1>1. Heard(s, g, h, typed)
    BY <1>0, WordHeard
  <1>2. /\ Founded(s, g) /\ g[1] = h[1] /\ Count(h) \in Nat /\ Count(g) = Count(h) + 1
        /\ \A i \in 1..Count(h) : Word(g, i) = Word(h, i)
        /\ Word(g, Count(g)).typed = typed
    BY <1>1 DEF Heard
  <1>3. FirstRight(h, Count(h), SlotOf(s.flow)) /\ Count(h) >= 1
    BY DEF Proven, FirstRight
  <1>4. FirstRight(g, Count(g) - 1, SlotOf(s.flow))
    <2>1. Count(g) - 1 = Count(h) /\ Count(h) \in 1..Count(h)
      BY <1>2, <1>3
    <2>2. Missed(g, Count(h) - 1, SlotOf(s.flow))
      BY <1>2, <1>3 DEF Missed, FirstRight
    <2> QED
      BY <1>2, <1>3, <2>1, <2>2 DEF FirstRight
  <1>5. /\ DOMAIN t = Fields /\ t.flow = s.flow /\ t.client = s.client /\ t.snap = s.snap
        /\ t.user = s.user /\ t.needUser = s.needUser /\ t.needOld = s.needOld
        /\ t.needNew = FALSE /\ t.needConfirm = TRUE /\ t.newPass = typed
    BY DEF Founded, Fields, Renewed
  <1>6. Owed(s, g)
    BY <1>2 DEF Owed, Proven
  <1>7. Founded(t, g) /\ Owed(t, g)
    BY <1>2, <1>5, <1>6, SameFounded
  <1>8. Confirming(t, g)
    BY <1>2, <1>3, <1>4, <1>5, <1>7 DEF Confirming, Proven
  <1> QED
    BY <1>5, <1>7, <1>8 DEF Talk

(* What every conversation brings to a PASS.                               *)
LEMMA EarnedBy ==
  ASSUME NEW s, NEW g, Founded(s, g), NEW now, NEW i,
         i \in DOMAIN Given(g), EarnedAt(g, i, SlotOf(s.flow), now)
  PROVE  Earned(g, now)
  <1>1. /\ s.flow = classifyStart(g[1].start) /\ s.flow \notin OneShot
        /\ s.snap = g[1].snap /\ s.client = g[1].start.client
    BY DEF Founded, Interactive, OneShot
  <1>2. methodAllowed(s.snap.doc, s.client, s.flow)
    BY DEF Founded
  <1> QED
    BY <1>1, <1>2 DEF Earned, methodAllowed

(* The right word, with nothing owed.                                      *)
LEMMA PassAtOnce ==
  ASSUME NEW s, NEW h, Founded(s, h), Trying(s, h), s.needUser = FALSE, s.flow # "chpass",
         NEW typed, Verified(s, typed), ~mustChange(s.snap.doc, s.user, SlotOf(s.flow)),
         NEW g, g = Append(h, Said(h, typed)), NEW now
  PROVE  Earned(g, now)
  <1>1. Heard(s, g, h, typed)
    BY WordHeard
  <1>2. Founded(s, g) /\ g[1] = h[1] /\ Known(s.snap.doc, s.user)
    BY <1>1 DEF Heard
  <1>3. FirstRight(g, Count(g), SlotOf(s.flow))
    BY HitOrMiss
  <1>4. SlotOf(s.flow) \notin s.snap.doc.users[s.user].must
    BY <1>2 DEF mustChange
  <1>5. g[1].start.action # "chpass"
    BY <1>2, FlowFacts DEF Founded
  <1>6. s.needUser = FALSE /\ History(g) /\ s.snap.doc = g[1].snap.doc /\ s.user = canonUser(Name(g))
    BY <1>2 DEF Founded
  <1>7. EarnedWords(g, Count(g), SlotOf(s.flow), now, s.snap.doc, s.user)
    BY <1>3, <1>4, <1>5, <1>6 DEF EarnedWords
  <1>8. Count(g) \in DOMAIN Given(g) /\ EarnedAt(g, Count(g), SlotOf(s.flow), now)
    BY <1>6, <1>7, EarnedFromWords
  <1> QED
    BY <1>2, <1>8, EarnedBy

(* The new secret for the second time, published over the revision of the  *)
(* START.                                                                  *)
LEMMA PassAfterChange ==
  ASSUME NEW s, NEW h, Founded(s, h), Confirming(s, h), NEW typed, typed = s.newPass,
         NEW g, g = Append(h, Said(h, typed)), NEW now,
         now.rev = s.snap.rev + 1,
         now.doc = Override(s.snap.doc, s.user, SlotOf(s.flow), typed)
  PROVE  Earned(g, now)
  <1>0. s.needUser = FALSE
    BY DEF Confirming
  <1>1. Heard(s, g, h, typed)
    BY <1>0, WordHeard
  <1>2. /\ Founded(s, g) /\ g[1] = h[1] /\ Count(h) \in Nat /\ Count(g) = Count(h) + 1
        /\ \A i \in 1..Count(h) : Word(g, i) = Word(h, i)
        /\ Word(g, Count(h) + 1).typed = typed
    BY <1>1 DEF Heard
  <1>3. PICK i \in Nat : i = Count(h) - 1
    BY <1>2 DEF Confirming
  <1>4. i >= 1 /\ Count(h) = i + 1 /\ Count(g) = i + 2
    BY <1>2, <1>3 DEF Confirming
  <1>5. FirstRight(h, i, SlotOf(s.flow)) /\ Word(h, i + 1).typed = typed /\ typed # Empty
    BY <1>3, <1>4 DEF Confirming
  <1>6. FirstRight(g, i, SlotOf(s.flow))
    <2>1. Missed(g, i - 1, SlotOf(s.flow))
      BY <1>2, <1>4, <1>5 DEF Missed, FirstRight
    <2>2. i \in 1..Count(h)
      BY <1>4
    <2> QED
      BY <1>2, <1>5, <2>1, <2>2 DEF FirstRight
  <1>7. Word(g, i + 1).typed = typed /\ Word(g, i + 2).typed = typed
    BY <1>2, <1>4, <1>5
  <1>8. SlotOf(s.flow) \in s.snap.doc.users[s.user].must \/ g[1].start.action = "chpass"
    BY <1>2 DEF Confirming, Owed
  <1>9. History(g) /\ s.snap = g[1].snap /\ s.user = canonUser(Name(g))
    BY <1>0, <1>2 DEF Founded
  <1>10. PICK doc, u, slot : doc = s.snap.doc /\ u = s.user /\ slot = SlotOf(s.flow)
    OBVIOUS
  <1>11. /\ doc = g[1].snap.doc /\ u = canonUser(Name(g)) /\ FirstRight(g, i, slot)
         /\ Count(g) = i + 2
         /\ slot \in doc.users[u].must \/ g[1].start.action = "chpass"
         /\ Word(g, i + 1).typed = Word(g, i + 2).typed /\ Word(g, i + 1).typed # Empty
         /\ now.rev = g[1].snap.rev + 1
         /\ now.doc = Override(doc, u, slot, Word(g, i + 1).typed)
    BY <1>4, <1>5, <1>6, <1>7, <1>8, <1>9, <1>10
  <1>12. EarnedWords(g, i, slot, now, doc, u)
    BY <1>11 DEF EarnedWords
  <1>13. i \in DOMAIN Given(g) /\ EarnedAt(g, i, slot, now)
    BY <1>9, <1>12, EarnedFromWords
  <1> QED
    BY <1>2, <1>10, <1>13, EarnedBy

(* A handler that ends the conversation without a PASS.                    *)
LEMMA EndedStep ==
  ASSUME AaaInv, NEW k \in Keys, NEW h, NEW status, status # "pass",
         said' = [said EXCEPT ![k] = h], access' = access, Ended(k), Replies(k, status)
  PROVE  AaaInv'
  <1>1. PICK a : a = [status |-> status, snap |-> current]
    OBVIOUS
  <1>2. /\ sessions' = [sessions EXCEPT ![k] = NoSession]
        /\ reply' = [reply EXCEPT ![k] = a] /\ current' = current /\ a.status # "pass"
    BY <1>1 DEF Ended, Replies, Answer
  <1> QED
    BY <1>2, ConversationStep

(* One that ends it with a PASS.                                           *)
LEMMA PassedStep ==
  ASSUME AaaInv, NEW k \in Keys, NEW h, Earned(h, current'),
         said' = [said EXCEPT ![k] = h], access' = access, Ended(k),
         reply' = [reply EXCEPT ![k] = Answer("pass")],
         current' = current \/ (current'.rev \in Nat /\ current'.rev > current.rev)
  PROVE  AaaInv'
  <1>1. PICK a : a = [status |-> "pass", snap |-> current']
    OBVIOUS
  <1>2. /\ sessions' = [sessions EXCEPT ![k] = NoSession]
        /\ reply' = [reply EXCEPT ![k] = a] /\ a.snap = current'
    BY <1>1 DEF Ended, Answer
  <1> QED
    BY <1>2, ConversationStep

(* One that keeps it.                                                      *)
LEMMA KeptStep ==
  ASSUME AaaInv, NEW k \in Keys, NEW h, NEW status, status # "pass", NEW s,
         said' = [said EXCEPT ![k] = h], access' = access, Kept(k, s), Replies(k, status),
         Talk(s, h), Dated(s.snap, current)
  PROVE  AaaInv'
  <1>1. PICK a : a = [status |-> status, snap |-> current]
    OBVIOUS
  <1>2. /\ sessions' = [sessions EXCEPT ![k] = s]
        /\ reply' = [reply EXCEPT ![k] = a] /\ current' = current /\ a.status # "pass"
    BY <1>1 DEF Kept, Replies, Answer
  <1> QED
    BY <1>2, ConversationStep

LEMMA GiveUserInv ==
  ASSUME AaaInv, NEW k \in Keys, NEW typed, sessions[k] # NoSession, Hears(k, typed), GiveUser(k, typed)
  PROVE  AaaInv'
  <1>1. PICK s, h, g : s = sessions[k] /\ h = said[k] /\ g = Append(h, Said(h, typed))
    OBVIOUS
  <1>2. Talk(s, h) /\ Dated(s.snap, current) /\ said' = [said EXCEPT ![k] = g] /\ access' = access
    BY <1>1, ContinueFacts
  <1>3. PICK t : t = Named(s, typed)
    OBVIOUS
  <1>4. PICK status \in {"getdata", "getpass"} : s.needUser /\ Kept(k, t) /\ Replies(k, status)
    BY <1>1, <1>3 DEF GiveUser, Named
  <1>a. s.needUser = TRUE
    BY <1>2, <1>4 DEF Talk, Founded
  <1>b. g = Append(h, Said(h, typed))
    BY <1>1
  <1>5. Talk(t, g) /\ t.snap = s.snap
    BY <1>2, <1>3, <1>a, <1>b, NameTalk
  <1> QED
    BY <1>2, <1>4, <1>5, KeptStep

(* A wrong word, in either flow.                                           *)
Wrong(s, h, typed) == Trying(s, h) /\ s.needUser = FALSE /\ ~Verified(s, typed)

LEMMA RetryInv ==
  ASSUME AaaInv, NEW k \in Keys, NEW typed, sessions[k] # NoSession, Hears(k, typed),
         Wrong(sessions[k], said[k], typed),
         NEW prompt, prompt # "pass", retryOrFail(k, sessions[k], prompt)
  PROVE  AaaInv'
  <1>0. PICK s : s = sessions[k] /\ Wrong(s, said[k], typed) /\ retryOrFail(k, s, prompt)
    OBVIOUS
  <1>1. PICK h, g : h = said[k] /\ g = Append(h, Said(h, typed))
    OBVIOUS
  <1>2. Talk(s, h) /\ Dated(s.snap, current) /\ said' = [said EXCEPT ![k] = g] /\ access' = access
    BY <1>0, <1>1, ContinueFacts
  <1>3. Founded(s, h) /\ Trying(s, h)
    BY <1>0, <1>1, <1>2 DEF Talk, Wrong
  <1>4. CASE s.fails + 1 >= MaxRounds
    <2>1. Ended(k) /\ Replies(k, "fail")
      BY <1>0, <1>4 DEF retryOrFail
    <2> QED
      BY <1>2, <2>1, EndedStep
  <1>5. CASE ~(s.fails + 1 >= MaxRounds)
    <2>1. PICK t : t = [s EXCEPT !.fails = @ + 1]
      OBVIOUS
    <2>2. Kept(k, t) /\ Replies(k, prompt)
      BY <1>0, <1>5, <2>1 DEF retryOrFail
    <2>3. s.fails + 1 < MaxRounds
      BY <1>3, <1>5, AaaAssumption DEF Trying
    <2>4. Talk(t, g) /\ t.snap = s.snap
      <3>1. g = Append(h, Said(h, typed)) /\ s.needUser = FALSE /\ ~Verified(s, typed)
        BY <1>0, <1>1 DEF Wrong
      <3> QED
        BY <1>3, <2>1, <2>3, <3>1, RetryTalk
    <2> QED
      BY <1>2, <2>2, <2>4, KeptStep
  <1> QED
    BY <1>4, <1>5

LEMMA FinishPasswordInv ==
  ASSUME AaaInv, NEW k \in Keys, NEW typed, sessions[k] # NoSession, Hears(k, typed), finishPassword(k, typed)
  PROVE  AaaInv'
  <1>1. PICK s, h, g : s = sessions[k] /\ h = said[k] /\ g = Append(h, Said(h, typed))
    OBVIOUS
  <1>2. Talk(s, h) /\ Dated(s.snap, current) /\ said' = [said EXCEPT ![k] = g] /\ access' = access
    BY <1>1, ContinueFacts
  <1>3. s.flow # "chpass" /\ ~s.needUser /\ ~s.needNew /\ ~s.needConfirm
    BY <1>1 DEF finishPassword
  <1>4. Founded(s, h) /\ Trying(s, h) /\ s.needUser = FALSE
    BY <1>2, <1>3 DEF Talk, Proven, Confirming, Founded
  <1>5. PICK must, may \in BOOLEAN :
          /\ must <=> mustChange(s.snap.doc, s.user, SlotOf(s.flow))
          /\ CASE ~Verified(s, typed) -> retryOrFail(k, s, "getpass")
               [] Verified(s, typed) /\ must /\ ~may -> Ended(k) /\ Replies(k, "fail")
               [] Verified(s, typed) /\ must /\ may ->
                    Kept(k, [s EXCEPT !.needNew = TRUE, !.fails = 0]) /\ Replies(k, "getpass")
               [] OTHER -> Ended(k) /\ Replies(k, "pass")
    BY <1>1 DEF finishPassword
  <1>6. CASE ~Verified(s, typed)
    <2>1. retryOrFail(k, s, "getpass")
      BY <1>5, <1>6
    <2>2. Wrong(sessions[k], said[k], typed) /\ retryOrFail(k, sessions[k], "getpass")
      BY <1>1, <1>4, <1>6, <2>1 DEF Wrong
    <2> QED
      BY <2>2, RetryInv
  <1>7. CASE Verified(s, typed) /\ must /\ ~may
    <2>1. Ended(k) /\ Replies(k, "fail")
      BY <1>5, <1>7
    <2> QED
      BY <1>2, <2>1, EndedStep
  <1>8. CASE Verified(s, typed) /\ must /\ may
    <2>1. PICK t : t = [s EXCEPT !.needNew = TRUE, !.fails = 0]
      OBVIOUS
    <2>2. Kept(k, t) /\ Replies(k, "getpass")
      BY <1>5, <1>8, <2>1
    <2>3. Owed(s, h)
      BY <1>5, <1>8 DEF Owed, mustChange
    <2>4. t.needNew /\ ~t.needOld
      BY <1>3, <1>4, <2>1 DEF Founded, Trying, Fields
    <2>5. Talk(t, g) /\ t.snap = s.snap
      BY <1>1, <1>4, <1>8, <2>1, <2>3, <2>4, ProvenTalk
    <2> QED
      BY <1>2, <2>2, <2>5, KeptStep
  <1>9. CASE Verified(s, typed) /\ ~must
    <2>1. Ended(k) /\ Replies(k, "pass")
      BY <1>5, <1>9
    <2>2. Earned(g, current')
      BY <1>1, <1>3, <1>4, <1>5, <1>9, PassAtOnce
    <2>3. reply' = [reply EXCEPT ![k] = Answer("pass")] /\ current' = current
      BY <2>1 DEF Replies
    <2> QED
      BY <1>2, <2>1, <2>2, <2>3, PassedStep
  <1> QED
    BY <1>6, <1>7, <1>8, <1>9

LEMMA GiveOldInv ==
  ASSUME AaaInv, NEW k \in Keys, NEW typed, sessions[k] # NoSession, Hears(k, typed), giveOld(k, typed)
  PROVE  AaaInv'
  <1>1. PICK s, h, g : s = sessions[k] /\ h = said[k] /\ g = Append(h, Said(h, typed))
    OBVIOUS
  <1>2. Talk(s, h) /\ Dated(s.snap, current) /\ said' = [said EXCEPT ![k] = g] /\ access' = access
    BY <1>1, ContinueFacts
  <1>3. s.flow = "chpass" /\ ~s.needUser /\ s.needOld
    BY <1>1 DEF giveOld
  <1>4. Founded(s, h) /\ Trying(s, h) /\ s.needUser = FALSE
    BY <1>2, <1>3 DEF Talk, Proven, Confirming, Founded
  <1>5. CASE Verified(s, typed)
    <2>1. PICK t : t = [s EXCEPT !.needOld = FALSE, !.fails = 0]
      OBVIOUS
    <2>2. Kept(k, t) /\ Replies(k, "getpass")
      BY <1>1, <1>5, <2>1 DEF giveOld
    <2>3. Owed(s, h)
      BY <1>3, <1>4, FlowFacts DEF Founded, Owed
    <2>4. t.needNew /\ ~t.needOld
      BY <1>3, <1>4, <2>1 DEF Founded, Trying, Fields
    <2>5. Talk(t, g) /\ t.snap = s.snap
      BY <1>1, <1>4, <1>5, <2>1, <2>3, <2>4, ProvenTalk
    <2> QED
      BY <1>2, <2>2, <2>5, KeptStep
  <1>6. CASE ~Verified(s, typed)
    <2>1. retryOrFail(k, s, "getdata")
      BY <1>1, <1>6 DEF giveOld
    <2> QED
      <3>1. Wrong(sessions[k], said[k], typed) /\ retryOrFail(k, sessions[k], "getdata")
        BY <1>1, <1>4, <1>6, <2>1 DEF Wrong
      <3> QED
        BY <3>1, RetryInv
  <1> QED
    BY <1>5, <1>6

LEMMA GiveNewInv ==
  ASSUME AaaInv, NEW k \in Keys, NEW typed, sessions[k] # NoSession, Hears(k, typed), giveNew(k, typed)
  PROVE  AaaInv'
  <1>1. PICK s, h, g : s = sessions[k] /\ h = said[k] /\ g = Append(h, Said(h, typed))
    OBVIOUS
  <1>2. Talk(s, h) /\ Dated(s.snap, current) /\ said' = [said EXCEPT ![k] = g] /\ access' = access
    BY <1>1, ContinueFacts
  <1>3. ~s.needUser /\ ~s.needOld /\ s.needNew
    BY <1>1 DEF giveNew
  <1>4. Founded(s, h) /\ Proven(s, h)
    BY <1>2, <1>3 DEF Talk, Trying, Confirming
  <1>5. CASE typed = Empty
    <2>1. Ended(k) /\ Replies(k, "fail")
      BY <1>5 DEF giveNew
    <2> QED
      BY <1>2, <2>1, EndedStep
  <1>6. CASE typed # Empty
    <2>1. PICK t : t = Renewed(s, typed)
      OBVIOUS
    <2>2. Kept(k, t) /\ Replies(k, "getpass")
      BY <1>1, <1>6, <2>1 DEF giveNew, Renewed
    <2>a. g = Append(h, Said(h, typed))
      BY <1>1
    <2>3. Talk(t, g) /\ t.snap = s.snap
      BY <1>4, <1>6, <2>1, <2>a, ConfirmTalk
    <2> QED
      BY <1>2, <2>2, <2>3, KeptStep
  <1> QED
    BY <1>5, <1>6

LEMMA GiveConfirmInv ==
  ASSUME AaaInv, NEW k \in Keys, NEW typed, NEW compiles \in BOOLEAN, sessions[k] # NoSession,
         Hears(k, typed), giveConfirm(k, typed, compiles)
  PROVE  AaaInv'
  <1>1. PICK s, h, g : s = sessions[k] /\ h = said[k] /\ g = Append(h, Said(h, typed))
    OBVIOUS
  <1>2. Talk(s, h) /\ Dated(s.snap, current) /\ said' = [said EXCEPT ![k] = g] /\ access' = access
    BY <1>1, ContinueFacts
  <1>3. ~s.needUser /\ ~s.needOld /\ s.needConfirm /\ Ended(k)
    BY <1>1 DEF giveConfirm
  <1>4. Founded(s, h) /\ Confirming(s, h)
    BY <1>2, <1>3 DEF Talk, Trying, Proven
  <1>5. CASE typed # s.newPass \/ ~MayPublish(s)
    <2>1. Replies(k, "fail")
      BY <1>1, <1>5 DEF giveConfirm
    <2> QED
      BY <1>2, <1>3, <2>1, EndedStep
  <1>6. CASE typed = s.newPass /\ MayPublish(s) /\ ~compiles
    <2>1. Replies(k, "error")
      BY <1>1, <1>6 DEF giveConfirm
    <2> QED
      BY <1>2, <1>3, <2>1, EndedStep
  <1>7. CASE typed = s.newPass /\ MayPublish(s) /\ compiles
    <2>1. /\ current' = [rev |-> current.rev + 1,
                         doc |-> Override(current.doc, s.user, SlotOf(s.flow), typed)]
          /\ reply' = [reply EXCEPT ![k] = Answer("pass")]
      BY <1>1, <1>7 DEF giveConfirm
    <2>2. current'.rev = current.rev + 1 /\ current'.doc = Override(current.doc, s.user, SlotOf(s.flow), typed)
      BY <2>1
    <2>3. s.snap.rev = current.rev /\ s.snap.doc = current.doc
      BY <1>2, <1>7 DEF MayPublish, Dated
    <2>4. PICK now : now = current'
      OBVIOUS
    <2>5. now.rev = s.snap.rev + 1 /\ now.doc = Override(s.snap.doc, s.user, SlotOf(s.flow), typed)
      BY <2>2, <2>3, <2>4
    <2>6. Earned(g, current')
      BY <1>1, <1>4, <1>7, <2>4, <2>5, PassAfterChange
    <2>7. current'.rev \in Nat /\ current'.rev > current.rev
      BY <2>2 DEF AaaInv, TablesOK
    <2> QED
      BY <1>2, <1>3, <2>1, <2>6, <2>7, PassedStep
  <1> QED
    BY <1>5, <1>6, <1>7

LEMMA ContinueInv ==
  ASSUME AaaInv, NEW k \in Keys, NEW typed, Continue(k, typed)
  PROVE  AaaInv'
  <1>1. sessions[k] # NoSession /\ Hears(k, typed)
    BY DEF Continue
  <1>2. CASE GiveUser(k, typed)
    BY <1>1, <1>2, GiveUserInv
  <1>3. CASE finishPassword(k, typed)
    BY <1>1, <1>3, FinishPasswordInv
  <1>4. CASE giveOld(k, typed)
    BY <1>1, <1>4, GiveOldInv
  <1>5. CASE giveNew(k, typed)
    BY <1>1, <1>5, GiveNewInv
  <1>6. CASE \E compiles \in BOOLEAN : giveConfirm(k, typed, compiles)
    BY <1>1, <1>6, GiveConfirmInv
  <1> QED
    BY <1>2, <1>3, <1>4, <1>5, <1>6 DEF Continue

LEMMA AbortInv ==
  ASSUME AaaInv, NEW k \in Keys, Abort(k)
  PROVE  AaaInv'
  <1>1. PICK h : h = said[k]
    OBVIOUS
  <1>2. said' = [said EXCEPT ![k] = h] /\ access' = access
    <2>1. said' = said /\ access' = access
      BY DEF Abort
    <2>2. said = [said EXCEPT ![k] = said[k]]
      BY DEF AaaInv, TablesOK
    <2> QED
      BY <1>1, <2>1, <2>2
  <1>3. Ended(k) /\ Replies(k, "fail")
    BY DEF Abort, Replies
  <1> QED
    BY <1>2, <1>3, EndedStep

-----------------------------------------------------------------------------
(* Access attempts, and the world around                                   *)

LEMMA AccessInv ==
  ASSUME AaaInv, AuthenticateAccess \/ \E a \in Attempts : AdmitAccess(a)
  PROVE  AaaInv'
  <1>1. UNCHANGED <<current, files, elapsed, sessions, reply, said>>
    BY DEF AuthenticateAccess, AdmitAccess
  <1>2. TablesOK' /\ TalksOK' /\ PassesEarned'
    BY <1>1 DEF AaaInv, TablesOK, TalksOK, PassesEarned
  <1>3. CASE \E a \in Attempts : AdmitAccess(a)
    <2>1. access'.verdict = "pending"
      BY <1>3 DEF AdmitAccess
    <2> QED
      BY <1>2, <2>1 DEF AaaInv, AcceptEarned
  <1>4. CASE AuthenticateAccess
    <2>1. PICK a, doc, user, slot :
            /\ a = access.attempt /\ doc = access.snap.doc /\ user = canonUser(a.user)
            /\ slot = IF a.method = "password" THEN "login" ELSE "challenge"
      OBVIOUS
    <2>2. /\ access'.attempt = a /\ access'.snap.doc = doc
          /\ access'.right = Right(doc, a.user, a.client, a.word)
      BY <1>4, <2>1 DEF AuthenticateAccess
    <2>3. access'.verdict = "accept" =>
            Verify(doc, user, a.client, slot, a.word) /\ ~mustChange(doc, user, "login") /\ user \in doc.permits
      BY <1>4, <2>1 DEF AuthenticateAccess, evaluateAccess
    <2>4. slot \in Slots
      BY <2>1 DEF Slots
    <2>5. Verify(doc, user, a.client, slot, a.word) =>
            slot \in Right(doc, a.user, a.client, a.word) /\ Known(doc, user)
      BY <2>1, <2>4, VerifyIsRight
    <2>6. access'.verdict = "accept" =>
            slot \in access'.right /\ user \in doc.permits /\ "login" \notin doc.users[user].must
      BY <2>2, <2>3, <2>5 DEF mustChange
    <2>7. AcceptEarned'
      BY <2>1, <2>2, <2>6 DEF AcceptEarned
    <2> QED
      BY <1>2, <2>7 DEF AaaInv
  <1> QED
    BY <1>3, <1>4

LEMMA PublishInv ==
  ASSUME AaaInv, NEW d, Publish(d)
  PROVE  AaaInv'
  <1>1. /\ UNCHANGED <<sessions, reply, said, access>>
        /\ current'.rev = current.rev + 1 /\ current.rev \in Nat
    BY DEF Publish, AaaInv, TablesOK
  <1>2. TablesOK'
    BY <1>1 DEF AaaInv, TablesOK
  <1>3. \A snap : Dated(snap, current) => Dated(snap, current')
    BY <1>1 DEF Dated
  <1>4. TalksOK'
    BY <1>1, <1>3 DEF AaaInv, TalksOK
  <1>5. PassesEarned' /\ AcceptEarned'
    BY <1>1 DEF AaaInv, PassesEarned, AcceptEarned
  <1> QED
    BY <1>2, <1>4, <1>5 DEF AaaInv

(* What the invariant speaks of does not change with files and clock.      *)
LEMMA WorldInv ==
  ASSUME AaaInv, UNCHANGED <<current, sessions, reply, said, access>>
  PROVE  AaaInv'
  BY DEF AaaInv, TablesOK, TalksOK, PassesEarned, AcceptEarned

LEMMA AaaInit == Init => AaaInv
  <1> SUFFICES ASSUME Init
               PROVE  AaaInv
    OBVIOUS
  <1>1. TablesOK
    BY DEF Init, TablesOK
  <1>2. \A k \in Keys : sessions[k] = NoSession /\ reply[k].status # "pass"
    BY DEF Init, NoReply
  <1>3. access.verdict # "accept"
    BY DEF Init, NoAttempt
  <1> QED
    BY <1>1, <1>2, <1>3 DEF AaaInv, TalksOK, PassesEarned, AcceptEarned

LEMMA AaaStep == AaaInv /\ [Next]_vars => AaaInv'
  <1> SUFFICES ASSUME AaaInv, [Next]_vars
               PROVE  AaaInv'
    OBVIOUS
  <1>1. ASSUME NEW k \in Keys, Conversation(k)
        PROVE  AaaInv'
    <2>1. CASE \E st \in Starts : Begin(k, st)
      BY <2>1, BeginInv
    <2>2. CASE \E typed \in Typed : Continue(k, typed)
      BY <2>2, ContinueInv
    <2>3. CASE Abort(k)
      BY <2>3, AbortInv
    <2> QED
      BY <1>1, <2>1, <2>2, <2>3 DEF Conversation
  <1>2. CASE AuthenticateAccess \/ \E a \in Attempts : AdmitAccess(a)
    BY <1>2, AccessInv
  <1>3. CASE \E d \in Documents : Publish(d)
    BY <1>3, PublishInv
  <1>4. CASE (\E c \in Contents : RotateFiles(c)) \/ (\E u \in Users : Expire(u)) \/ UNCHANGED vars
    <2>1. UNCHANGED <<current, sessions, reply, said, access>>
      BY <1>4 DEF RotateFiles, Expire, vars
    <2> QED
      BY <2>1, WorldInv
  <1> QED
    BY <1>1, <1>2, <1>3, <1>4 DEF Next

(* The flags of every session summarise what was typed in it, from the     *)
(* START to the last CONTINUE, whatever is published, rotated or expires   *)
(* meanwhile.                                                              *)
THEOREM AaaInductive == Spec => []AaaInv
  BY AaaInit, AaaStep, PTL DEF Spec

LEMMA EarnedParts == AaaInv => PassIsEarned
  BY DEF AaaInv, PassesEarned, AcceptEarned, Earned, PassIsEarned

(* A PASS is earned by the right secret within the allowed rounds, and by  *)
(* the change that was owed, over the revision of the START; an access     *)
(* attempt is accepted by the right secret under its own snapshot.         *)
THEOREM PassesAreEarned == Spec => []PassIsEarned
  BY AaaInductive, EarnedParts, PTL

-----------------------------------------------------------------------------
(* The client of a peer                                                    *)
(*                                                                         *)
(* Selection compares lengths of prefixes and then priorities, and refuses *)
(* a tie.  The argument is that a tie is between entries with one priority *)
(* that reach the peer by prefixes of one length; two such prefixes are    *)
(* one, which compilation has refused, unless the certificate tells the    *)
(* entries apart.                                                          *)

(* The rank of a member of a finite set of integers grows with it and is   *)
(* below the number of members; every such number is a rank.               *)
LEMMA Ranks ==
  ASSUME NEW S \in SUBSET Int, IsFiniteSet(S)
  PROVE  /\ Cardinality(S) \in Nat
         /\ \A i \in S : PlacesBefore(S, i) \in 0..Cardinality(S) - 1
         /\ \A i, j \in S : i < j => PlacesBefore(S, i) < PlacesBefore(S, j)
         /\ \A k \in 0..Cardinality(S) - 1 : \E i \in S : PlacesBefore(S, i) = k
  <1> DEFINE f == [i \in S |-> PlacesBefore(S, i)]
  <1> DEFINE T == 0..Cardinality(S) - 1
  <1>1. Cardinality(S) \in Nat
    BY FS_CardinalityType
  <1>2. ASSUME NEW i \in S
        PROVE  PlacesBefore(S, i) \in 0..Cardinality(S) - 1
    <2> DEFINE B == {j \in S : j < i}
    <2>1. B \in SUBSET S /\ i \notin B
      OBVIOUS
    <2>2. IsFiniteSet(B) /\ Cardinality(B) <= Cardinality(S) /\ Cardinality(S) # Cardinality(B)
      BY <2>1, FS_Subset
    <2>3. Cardinality(B) \in Nat
      BY <2>2, FS_CardinalityType
    <2>4. QED  BY <1>1, <2>2, <2>3 DEF PlacesBefore
  <1>3. ASSUME NEW i \in S, NEW j \in S, i < j
        PROVE  PlacesBefore(S, i) < PlacesBefore(S, j)
    <2> DEFINE B == {k \in S : k < i}
    <2> DEFINE C == {k \in S : k < j}
    <2>1. IsFiniteSet(C) /\ Cardinality(C) \in Nat
      BY FS_Subset, FS_CardinalityType
    <2>2. B \in SUBSET C /\ i \in C /\ i \notin B
      <3>1. i \in Int /\ j \in Int /\ ~(i < i)
        OBVIOUS
      <3>2. ASSUME NEW k \in S, k < i
            PROVE  k < j
        <4>1. k \in Int
          OBVIOUS
        <4>2. QED  BY <1>3, <3>1, <3>2, <4>1
      <3>3. QED  BY <1>3, <3>1, <3>2
    <2>3. IsFiniteSet(B) /\ Cardinality(B) <= Cardinality(C) /\ Cardinality(C) # Cardinality(B)
      BY <2>1, <2>2, FS_Subset
    <2>4. Cardinality(B) \in Nat
      BY <2>3, FS_CardinalityType
    <2>5. QED  BY <2>1, <2>3, <2>4 DEF PlacesBefore
  <1>4. f \in Injection(S, T)
    <2>1. f \in [S -> T]
      BY <1>2
    <2>2. ASSUME NEW i \in S, NEW j \in S, f[i] = f[j]
          PROVE  i = j
      <3>1. PlacesBefore(S, i) = PlacesBefore(S, j) /\ PlacesBefore(S, i) \in Int
        BY <1>2, <2>2
      <3>2. ~(i < j) /\ ~(j < i)
        BY <1>3, <3>1
      <3>3. QED  BY <3>2
    <2>3. QED  BY <2>1, <2>2 DEF Injection, IsInjective
  <1>5. IsFiniteSet(T) /\ Cardinality(T) = Cardinality(S)
    BY <1>1, FS_Interval
  <1>6. f \in Surjection(S, T)
    <2> HIDE DEF f, T
    <2>1. QED  BY <1>4, <1>5, FS_Injection
  <1>7. ASSUME NEW k \in T
        PROVE  \E i \in S : PlacesBefore(S, i) = k
    BY <1>6 DEF Surjection
  <1>8. QED  BY <1>1, <1>2, <1>3, <1>7


(* A finite set of integers that is not empty has a largest and a smallest *)
(* member.                                                                 *)
LEMMA Extremes ==
  ASSUME NEW S \in SUBSET Int, IsFiniteSet(S), S # {}
  PROVE  /\ Largest(S) \in S /\ \A y \in S : y <= Largest(S)
         /\ Latest(S) \in S /\ \A y \in S : y <= Latest(S)
         /\ Earliest(S) \in S /\ \A y \in S : Earliest(S) <= y
         /\ \E x \in S : \A y \in S : x <= y
  <1>1. Cardinality(S) \in Nat /\ Cardinality(S) # 0
    BY FS_CardinalityType, FS_EmptySet
  <1>2. \E i \in S : PlacesBefore(S, i) = 0
    BY <1>1, Ranks
  <1>3. \E i \in S : PlacesBefore(S, i) = Cardinality(S) - 1
    BY <1>1, Ranks
  <1>4. \A i, j \in S : PlacesBefore(S, i) \in 0..Cardinality(S) - 1 /\ (i < j => PlacesBefore(S, i) < PlacesBefore(S, j))
    BY Ranks
  <1>5. \E x \in S : \A y \in S : x <= y
    BY <1>1, <1>2, <1>4
  <1>6. \E x \in S : \A y \in S : y <= x
    BY <1>1, <1>3, <1>4
  <1> QED BY <1>5, <1>6 DEF Largest, Latest, Earliest

(* Prefixes as compilation leaves them: canonical, so that the length that *)
(* was written is the length that counts.                                  *)
PrefixOK(c) ==
  /\ c = [v4 |-> c.v4, net |-> c.net, len |-> c.len, bits |-> c.bits]
  /\ c.len \in Nat /\ c.bits = c.len
EntryOK(e) ==
  /\ e.priority \in Int /\ e.mode \in {"cert", "addr"} /\ e.endpoint # ""
  /\ IsFiniteSet(e.cidrs) /\ \A c \in e.cidrs : PrefixOK(c)

(* The lengths that longestContaining compares are those of the prefixes   *)
(* that reach the peer, and the longest one is there.                      *)
LEMMA Reaches ==
  ASSUME NEW e, EntryOK(e), NEW p
  PROVE  /\ Hits(e, p) = {} => Reach(e, p) = -1
         /\ Hits(e, p) # {} =>
              /\ Reach(e, p) \in Nat /\ LongestContaining(e, p) = Reach(e, p)
              /\ \E c \in e.cidrs : Contains(c, p) /\ c.len = Reach(e, p)
  <1> DEFINE In == {x \in e.cidrs : Contains(x, p)}
  <1> DEFINE L == {c.len : c \in In}
  <1>1. \A c \in In : c.len \in Nat /\ c.bits = c.len
    BY DEF EntryOK, PrefixOK
  <1>2. Hits(e, p) = L
    BY <1>1 DEF Hits
  <1>3. IsFiniteSet(L)
    <2>1. IsFiniteSet(In)
      BY FS_Subset DEF EntryOK
    <2> DEFINE f == [c \in In |-> c.len]
    <2>2. f \in Surjection(In, L)
      BY DEF Surjection
    <2> HIDE DEF In, L, f
    <2> QED BY <2>1, <2>2, FS_Surjection
  <1>4. Reach(e, p) = Largest(L \cup {-1})
    BY DEF Reach
  <1>5. L \in SUBSET Nat
    BY <1>1
  <1>6. \A x \in L : \E c \in e.cidrs : Contains(c, p) /\ c.len = x
    OBVIOUS
  <1>a. LongestContaining(e, p) = Largest(L)
    BY <1>2 DEF LongestContaining
  <1> HIDE DEF L, In
  <1>7. CASE L = {}
    <2>1. L \cup {-1} = {-1} /\ {-1} \in SUBSET Int /\ {-1} # {}
      BY <1>7
    <2>2. IsFiniteSet({-1})
      BY FS_Singleton
    <2>3. Largest({-1}) \in {-1}
      BY <2>1, <2>2, Extremes
    <2> QED BY <1>2, <1>4, <1>7, <2>1, <2>3
  <1>8. CASE L # {}
    <2>1. L \cup {-1} \in SUBSET Int /\ IsFiniteSet(L \cup {-1}) /\ L \cup {-1} # {}
      BY <1>3, <1>5, FS_AddElement
    <2> DEFINE x == Largest(L)
    <2> DEFINE y == Largest(L \cup {-1})
    <2>2. x \in L /\ \A z \in L : z <= x
      BY <1>3, <1>5, <1>8, Extremes
    <2>3. y \in L \cup {-1} /\ \A z \in L \cup {-1} : z <= y
      BY <2>1, Extremes
    <2> HIDE DEF x, y
    <2>4. x \in Nat /\ x = y
      BY <1>5, <2>2, <2>3
    <2> QED BY <1>2, <1>4, <1>6, <1>8, <1>a, <2>2, <2>4 DEF x, y
  <1> QED BY <1>7, <1>8

(* Two prefixes of one length that reach one peer are one prefix.          *)
LEMMA SamePrefix ==
  ASSUME NEW a, NEW b, EntryOK(a), EntryOK(b), NEW p,
         Hits(a, p) # {}, Hits(b, p) # {}, Reach(a, p) = Reach(b, p)
  PROVE  ShareIdenticalCIDR(a, b)
  <1>1. PICK x \in a.cidrs : Contains(x, p) /\ x.len = Reach(a, p)
    BY Reaches
  <1>2. PICK y \in b.cidrs : Contains(y, p) /\ y.len = Reach(b, p)
    BY Reaches
  <1>3. PrefixOK(x) /\ PrefixOK(y)
    BY DEF EntryOK
  <1>4. x.len = y.len /\ x.v4 = y.v4 /\ x.net = y.net /\ x.bits = y.bits
    BY <1>1, <1>2, <1>3 DEF Contains, PrefixOK
  <1>5. x = y
    BY <1>3, <1>4 DEF PrefixOK
  <1> QED BY <1>5 DEF ShareIdenticalCIDR

(* The tail of the Match methods chooses right among entries of which any  *)
(* two with one priority and a common reach are told apart by the          *)
(* certificate.                                                            *)
LEMMA Selects ==
  ASSUME NEW entries, IsFiniteSet(entries), \A e \in entries : EntryOK(e), NEW p, NEW cert,
         \A a, b \in entries :
           a # b /\ a.priority = b.priority /\ SameReach(a, b) =>
             a.sans \cap cert # {} /\ b.sans \cap cert # {} /\ a.sans \cap b.sans = {}
  PROVE  RightChoice(Select(entries, p), entries, p, cert)
  <1> DEFINE cand == Candidates(entries, p)
  <1> DEFINE near == {e \in cand : e.mode = "addr"}
  <1> DEFINE best == BestPrefix(near, p)
  <1> DEFINE final == {e \in cand : e.mode = "cert" \/ LongestContaining(e, p) = best}
  <1> DEFINE winners == {e \in final : \A f \in final : e.priority <= f.priority}
  <1> DEFINE el == {e \in entries : Eligible(e, p)}
  <1>1. \A e \in entries : /\ EntryOK(e)
                           /\ Hits(e, p) = {} => Reach(e, p) = -1
                           /\ Hits(e, p) # {} => Reach(e, p) \in Nat /\ LongestContaining(e, p) = Reach(e, p)
    BY Reaches
  <1>2. el = cand
    BY <1>1 DEF Eligible, Candidates
  <1>3. cand \in SUBSET entries /\ IsFiniteSet(cand) /\ near \in SUBSET cand /\ IsFiniteSet(near)
    BY FS_Subset DEF Candidates
  <1>4. \A e \in near : Hits(e, p) # {} /\ Reach(e, p) \in Nat /\ LongestContaining(e, p) = Reach(e, p)
    BY <1>1 DEF Candidates
  <1>5. /\ \A e \in near : Reach(e, p) <= best
        /\ near # {} => \E g \in near : Reach(g, p) = best
        /\ best \in Int
    <2> DEFINE L == {LongestContaining(e, p) : e \in near}
    <2>1. IsFiniteSet(L)
      <3> DEFINE f == [e \in near |-> LongestContaining(e, p)]
      <3>1. f \in Surjection(near, L)
        BY DEF Surjection
      <3> HIDE DEF near, L, f
      <3> QED BY <1>3, <3>1, FS_Surjection
    <2>2. L \cup {-1} \in SUBSET Int /\ L \cup {-1} # {}
      BY <1>4
    <2>3. IsFiniteSet(L \cup {-1})
      BY <2>1, FS_AddElement
    <2>4. best = Largest(L \cup {-1})
      BY DEF BestPrefix
    <2>5. best \in L \cup {-1} /\ \A y \in L \cup {-1} : y <= best
      <3> HIDE DEF L, best
      <3> QED BY <2>2, <2>3, <2>4, Extremes
    <2>6. \A e \in near : Reach(e, p) \in L /\ Reach(e, p) \in Nat
      BY <1>4
    <2>7. \A x \in L : \E g \in near : Reach(g, p) = x
      BY <1>4
    <2> HIDE DEF L, best, near
    <2>8. near # {} => best # -1
      BY <2>5, <2>6
    <2> QED BY <2>2, <2>5, <2>6, <2>7, <2>8
  <1>6. Select(entries, p) = CASE winners = {} -> NoMatch
                               [] Cardinality(winners) > 1 -> Ambiguous
                               [] OTHER -> LET w == CHOOSE e \in winners : TRUE
                                           IN [id |-> w.id, endpoint |-> w.endpoint]
    BY DEF Select
  <1>7. final \in SUBSET cand /\ winners \in SUBSET final /\ IsFiniteSet(final) /\ IsFiniteSet(winners)
    BY <1>3, FS_Subset
  <1>8. \A e \in cand : /\ e \in entries /\ e.priority \in Int /\ e.endpoint # ""
                        /\ e.mode \in {"cert", "addr"}
                        /\ e.mode = "addr" => e \in near
                        /\ e \in final <=> e.mode = "cert" \/ Reach(e, p) = best
    <2>1. \A e \in cand : e \in entries /\ EntryOK(e)
      BY <1>1, <1>3
    <2> QED BY <1>4, <2>1 DEF EntryOK
  <1>a. \A a, b \in final : a.mode = "addr" /\ b.mode = "addr" => ShareIdenticalCIDR(a, b)
    BY <1>1, <1>4, <1>7, <1>8, SamePrefix
  <1>b. RightChoice(Select(entries, p), entries, p, cert)
        = LET r == Select(entries, p)
          IN CASE r = NoMatch -> cand = {}
               [] r = Ambiguous -> \E a, b \in cand : /\ a.sans \cap cert # {} /\ b.sans \cap cert # {}
                                                      /\ a.sans \cap b.sans = {}
               [] OTHER -> \E e \in cand :
                             /\ e.id = r.id /\ e.endpoint = r.endpoint
                             /\ \A f \in cand \ {e} :
                                  \/ \E g \in cand : Behind(f, g, p)
                                  \/ ~Behind(e, f, p) /\ e.priority < f.priority
    <2> HIDE DEF cand
    <2> QED BY <1>2 DEF RightChoice
  <1> HIDE DEF cand, near, best, final, el
  <1>9. final # {} => winners # {}
    <2> DEFINE P == {e.priority : e \in final}
    <2>1. IsFiniteSet(P)
      <3> DEFINE f == [e \in final |-> e.priority]
      <3>1. f \in Surjection(final, P)
        BY DEF Surjection
      <3> HIDE DEF P, f
      <3> QED BY <1>7, <3>1, FS_Surjection
    <2>2. P \in SUBSET Int
      BY <1>7, <1>8
    <2>3. P # {} => \E x \in P : \A y \in P : x <= y
      <3> HIDE DEF P
      <3> QED BY <2>1, <2>2, Extremes
    <2> QED BY <2>3
  <1>10. cand # {} => final # {}
    <2> SUFFICES ASSUME NEW e \in cand PROVE final # {}
      OBVIOUS
    <2>1. CASE e.mode = "cert"
      BY <1>8, <2>1
    <2>2. CASE e.mode # "cert"
      <3>1. e \in near
        BY <1>8, <2>2
      <3>2. PICK g \in near : Reach(g, p) = best
        BY <1>5, <3>1
      <3> QED BY <1>3, <1>8, <3>2
    <2> QED BY <2>1, <2>2
  <1>c. Ambiguous # NoMatch
    <2>1. Ambiguous.id # NoMatch.id
      BY DEF Ambiguous, NoMatch
    <2> QED BY <2>1
  <1>11. CASE winners = {}
    <2>1. Select(entries, p) = NoMatch
      <3> HIDE DEF winners
      <3>1. ~(Cardinality(winners) > 1)
        BY <1>11, FS_EmptySet
      <3> QED BY <1>6, <1>11, <3>1
    <2>2. cand = {}
      <3> HIDE DEF winners
      <3> QED BY <1>9, <1>10, <1>11
    <2> QED BY <1>b, <1>c, <2>1, <2>2
  <1>12. CASE Cardinality(winners) > 1
    <2>1. winners # {}
      <3> HIDE DEF winners
      <3> QED BY <1>12, FS_EmptySet
    <2>2. Select(entries, p) = Ambiguous
      <3> HIDE DEF winners
      <3> QED BY <1>6, <1>12, <2>1
    <2>3. \E a, b \in winners : a # b
      <3> HIDE DEF winners
      <3> SUFFICES ASSUME \A a, b \in winners : a = b PROVE FALSE
        OBVIOUS
      <3>1. PICK a : a \in winners
        BY <2>1
      <3>2. winners = {a}
        BY <3>1
      <3> QED BY <1>12, <3>2, FS_Singleton
    <2>4. PICK a \in winners, b \in winners : a # b
      BY <2>3
    <2>5. a \in final /\ b \in final /\ a.priority <= b.priority /\ b.priority <= a.priority
      OBVIOUS
    <2>6. a \in cand /\ b \in cand /\ a \in entries /\ b \in entries /\ a.priority = b.priority
      <3>1. a \in cand /\ b \in cand
        BY <1>7, <2>5
      <3>2. a.priority \in Int /\ b.priority \in Int
        BY <1>8, <3>1
      <3>3. a.priority = b.priority
        <4> HIDE DEF winners
        <4> QED BY <2>5, <3>2
      <3> QED BY <1>8, <3>1, <3>3
    <2>7. SameReach(a, b)
      BY <1>8, <1>a, <2>5, <2>6 DEF SameReach
    <2>8. a.sans \cap cert # {} /\ b.sans \cap cert # {} /\ a.sans \cap b.sans = {}
      BY <2>4, <2>6, <2>7
    <2> QED BY <1>b, <1>c, <2>2, <2>6, <2>8
  <1>13. CASE winners # {} /\ ~(Cardinality(winners) > 1)
    <2> DEFINE w == CHOOSE e \in winners : TRUE
    <2>1. w \in winners
      BY <1>13
    <2>2. Select(entries, p) = [id |-> w.id, endpoint |-> w.endpoint]
      <3> HIDE DEF winners, w
      <3> QED BY <1>6, <1>13 DEF w
    <2>3. winners = {w}
      <3> HIDE DEF winners, w
      <3>1. Cardinality(winners) \in Nat /\ Cardinality(winners) # 0
        BY <1>7, <1>13, FS_CardinalityType, FS_EmptySet
      <3>2. Cardinality(winners) = 1
        BY <1>13, <3>1
      <3>3. PICK x : winners = {x}
        BY <1>7, <3>2, FS_Singleton
      <3> QED BY <2>1, <3>3
    <2> HIDE DEF w
    <2>4. w \in final /\ w \in cand /\ w.endpoint # "" /\ \A f \in final : w.priority <= f.priority
      BY <1>7, <1>8, <2>1
    <2>5. Select(entries, p) # NoMatch /\ Select(entries, p) # Ambiguous
      <3>1. NoMatch.endpoint = "" /\ Ambiguous.endpoint = ""
        BY DEF NoMatch, Ambiguous
      <3>2. Select(entries, p).endpoint = w.endpoint
        BY <2>2
      <3> QED BY <2>4, <3>1, <3>2
    <2>6. ASSUME NEW f \in cand, f # w, f \notin final
          PROVE  \E g \in cand : Behind(f, g, p)
      <3>1. f \in near /\ f.mode = "addr" /\ Reach(f, p) # best
        BY <1>8, <2>6
      <3>2. PICK g \in near : Reach(g, p) = best
        BY <1>5, <3>1
      <3>3. Reach(f, p) < best
        BY <1>4, <1>5, <3>1
      <3>4. g \in cand /\ g.mode = "addr"
        BY <1>3 DEF near
      <3> QED BY <3>1, <3>2, <3>3, <3>4 DEF Behind
    <2>7. ASSUME NEW f \in cand, f # w, f \in final
          PROVE  ~Behind(w, f, p) /\ w.priority < f.priority
      <3>1. w.priority \in Int /\ f.priority \in Int /\ w.priority <= f.priority
        BY <1>8, <2>4, <2>7
      <3>2. f \notin winners
        <4> HIDE DEF winners
        <4> QED BY <2>3, <2>7
      <3>3. \E h \in final : ~(f.priority <= h.priority)
        BY <2>7, <3>2
      <3>4. w.priority # f.priority
        BY <2>4, <3>3
      <3>5. ~Behind(w, f, p)
        <4> SUFFICES ASSUME w.mode = "addr", f.mode = "addr" PROVE ~(Reach(w, p) < Reach(f, p))
          BY DEF Behind
        <4>1. Reach(w, p) = best /\ Reach(f, p) = best
          BY <1>8, <2>4, <2>7
        <4> QED BY <1>5, <4>1
      <3> QED BY <3>1, <3>4, <3>5
    <2>8. \A f \in cand \ {w} : \/ \E g \in cand : Behind(f, g, p)
                                \/ ~Behind(w, f, p) /\ w.priority < f.priority
      BY <2>6, <2>7
    <2>9. w.id = Select(entries, p).id /\ w.endpoint = Select(entries, p).endpoint
      BY <2>2
    <2> QED BY <1>b, <2>4, <2>5, <2>8, <2>9
  <1> QED BY <1>11, <1>12, <1>13

(* What a valid document has: clients with different ids, in one of the    *)
(* two modes, with canonical prefixes as normalizeCIDRs leaves them.       *)
CanonicalCIDR(s) == s.form \in {"v4", "v6"} /\ s.bits \in 0..Width
ClientsOK(clients) ==
  /\ IsFiniteSet(clients)
  /\ \A c, d \in clients : c.id = d.id => c = d
  /\ \A c \in clients :
       /\ c.priority \in Int /\ c.mode \in {"cert", "addr"}
       /\ IsFiniteSet(c.cidrs) /\ \A s \in c.cidrs : CanonicalCIDR(s)

(* normalizeCIDRs leaves canonical prefixes, of whatever form they were    *)
(* written in.                                                             *)
LEMMA Normalized ==
  ASSUME NEW s, s.form \in {"v4", "v6", "mapped"},
         s.bits \in IF s.form = "mapped" THEN Mapped..Mapped + Width ELSE 0..Width
  PROVE  CanonicalCIDR(NormalizeCIDR(s))
  BY ClientMatchAssumption DEF CanonicalCIDR, NormalizeCIDR, ParseCIDR

LEMMA Parsed ==
  ASSUME NEW s, CanonicalCIDR(s)
  PROVE  PrefixOK(ParseCIDR(s))
  <1>1. s.form # "mapped"
    BY DEF CanonicalCIDR
  <1>2. s.bits \in Nat
    BY ClientMatchAssumption DEF CanonicalCIDR
  <1> DEFINE c == ParseCIDR(s)
  <1>3. /\ c = [v4 |-> c.v4, net |-> c.net, len |-> c.len, bits |-> c.bits]
        /\ c.len = s.bits /\ c.bits = s.bits
    BY <1>1 DEF ParseCIDR
  <1> HIDE DEF c
  <1>4. PrefixOK(c)
    BY <1>2, <1>3 DEF PrefixOK
  <1> QED BY <1>4 DEF c

(* The entries of an index are well formed, finitely many, and those of    *)
(* two clients differ in their id.                                         *)
Catalogues(entries, S, endpoint) ==
  /\ \A c \in S : Entry(c, endpoint) \in entries
  /\ \A e \in entries : \E c \in S : e = Entry(c, endpoint)
IndexOK(entries) ==
  /\ IsFiniteSet(entries)
  /\ \A e \in entries : EntryOK(e)
  /\ \A a, b \in entries : a.id = b.id => a = b
LEMMA Compiled ==
  ASSUME NEW clients, ClientsOK(clients), NEW S \in SUBSET clients, NEW endpoint, endpoint # "",
         NEW entries, Catalogues(entries, S, endpoint)
  PROVE  IndexOK(entries)
  <1> USE DEF Catalogues
  <1>1. IsFiniteSet(entries)
    <2>1. IsFiniteSet(S)
      BY FS_Subset DEF ClientsOK
    <2> DEFINE f == [c \in S |-> Entry(c, endpoint)]
    <2>2. f \in Surjection(S, entries)
      BY DEF Surjection
    <2> HIDE DEF f
    <2> QED BY <2>1, <2>2, FS_Surjection
  <1>2. ASSUME NEW c \in S
        PROVE  EntryOK(Entry(c, endpoint))
    <2> DEFINE e == Entry(c, endpoint)
    <2>1. /\ e.priority = c.priority /\ e.mode = c.mode /\ e.endpoint = endpoint
          /\ e.cidrs = {ParseCIDR(s) : s \in c.cidrs}
      BY DEF Entry
    <2>2. /\ c.priority \in Int /\ c.mode \in {"cert", "addr"}
          /\ IsFiniteSet(c.cidrs) /\ \A s \in c.cidrs : CanonicalCIDR(s)
      BY DEF ClientsOK
    <2>3. IsFiniteSet({ParseCIDR(s) : s \in c.cidrs})
      <3> DEFINE f == [s \in c.cidrs |-> ParseCIDR(s)]
      <3> DEFINE T == {ParseCIDR(s) : s \in c.cidrs}
      <3>1. f \in Surjection(c.cidrs, T)
        BY DEF Surjection
      <3> HIDE DEF f, T
      <3>2. IsFiniteSet(T)
        BY <2>2, <3>1, FS_Surjection
      <3> QED BY <3>2 DEF T
    <2>4. ASSUME NEW s \in c.cidrs
          PROVE  PrefixOK(ParseCIDR(s))
      BY <2>2, Parsed
    <2> HIDE DEF e
    <2>5. EntryOK(e)
      BY <2>1, <2>2, <2>3, <2>4 DEF EntryOK
    <2> QED BY <2>5 DEF e
  <1>3. ASSUME NEW a \in entries, NEW b \in entries, a.id = b.id
        PROVE  a = b
    <2>1. PICK c \in S : a = Entry(c, endpoint)
      OBVIOUS
    <2>2. PICK d \in S : b = Entry(d, endpoint)
      OBVIOUS
    <2>3. a.id = c.id /\ b.id = d.id
      BY <2>1, <2>2 DEF Entry
    <2>4. c = d
      BY <1>3, <2>3 DEF ClientsOK
    <2> QED BY <2>1, <2>2, <2>4
  <1> QED BY <1>1, <1>2, <1>3 DEF IndexOK

(* For every document that compiles and every peer, the client of a        *)
(* TACACS+ connection, of a RADIUS datagram and of a RADIUS/TLS connection *)
(* is the one the documentation names (the Match methods of                *)
(* internal/config/match*.go), and no peer is refused as ambiguous but one *)
(* whose certificate names two clients with nothing in common.             *)
THEOREM PeersAreDecided ==
  ASSUME NEW clients, ClientsOK(clients), NEW role, NEW ip, NEW cert
  PROVE  PeerDecided(clients, role, ip, cert)
  <1> DEFINE p == CanonicalizeIP(ip)
  <1> DEFINE T == TacacsEntries(clients)
  <1> DEFINE U == UdpEntries(clients, role)
  <1> DEFINE R == TlsEntries(clients, role)
  <1>1. IsFiniteSet(T) /\ (\A e \in T : EntryOK(e)) /\ \A a, b \in T : a.id = b.id => a = b
    <2> DEFINE S == {x \in clients : x.enabled /\ x.transports # {}}
    <2> DEFINE endpoint == "tacacs"
    <2>1. S \in SUBSET clients /\ endpoint # "" /\ Catalogues(T, S, endpoint)
      BY DEF Catalogues, TacacsEntries
    <2> HIDE DEF S, T, endpoint
    <2>2. IndexOK(T)
      BY <2>1, Compiled
    <2> QED BY <2>2 DEF IndexOK
  <1>2. IsFiniteSet(U) /\ (\A e \in U : EntryOK(e)) /\ \A a, b \in U : a.id = b.id => a = b
    <2> DEFINE S == {x \in clients : x.enabled /\ role \in x.radius["udp"]}
    <2> DEFINE endpoint == "udp"
    <2>1. S \in SUBSET clients /\ endpoint # "" /\ Catalogues(U, S, endpoint)
      BY DEF Catalogues, UdpEntries
    <2> HIDE DEF S, U, endpoint
    <2>2. IndexOK(U)
      BY <2>1, Compiled
    <2> QED BY <2>2 DEF IndexOK
  <1>3. IsFiniteSet(R) /\ (\A e \in R : EntryOK(e)) /\ \A a, b \in R : a.id = b.id => a = b
    <2> DEFINE S == {x \in clients : x.enabled /\ role \in x.radius["tls"]}
    <2> DEFINE endpoint == "tls"
    <2>1. S \in SUBSET clients /\ endpoint # "" /\ Catalogues(R, S, endpoint)
      BY DEF Catalogues, TlsEntries
    <2> HIDE DEF S, R, endpoint
    <2>2. IndexOK(R)
      BY <2>1, Compiled
    <2> QED BY <2>2 DEF IndexOK
  <1> HIDE DEF p
  <1>4. ASSUME TacacsCompiles(clients)
        PROVE  RightChoice(Match(clients, "legacy", ip, NoCert), {e \in T : "legacy" \in e.transports}, p, {})
    <2> DEFINE E == {e \in T : "legacy" \in e.transports}
    <2>1. Match(clients, "legacy", ip, NoCert) = Select(E, p)
      BY DEF Match, p
    <2>2. E \in SUBSET T /\ IsFiniteSet(E) /\ \A e \in E : EntryOK(e)
      BY <1>1, FS_Subset
    <2>3. ASSUME NEW a \in E, NEW b \in E, a # b, a.priority = b.priority, SameReach(a, b)
          PROVE  FALSE
      <3> HIDE DEF T
      <3>1. ~PairAmbiguous(a, b)
        BY <1>1, <1>4, <2>3 DEF TacacsCompiles, Compiles, T
      <3> QED BY <2>3, <3>1 DEF PairAmbiguous
    <2> HIDE DEF E, T
    <2> QED BY <2>1, <2>2, <2>3, Selects DEF E
  <1>5. ASSUME TacacsCompiles(clients)
        PROVE  RightChoice(Match(clients, "tls", ip, cert),
                           {e \in T : "tls" \in e.transports /\ CertSatisfied(e, cert)}, p, cert)
    <2> DEFINE E == {e \in T : "tls" \in e.transports /\ CertSatisfied(e, cert)}
    <2>1. Match(clients, "tls", ip, cert) = Select(E, p)
      BY DEF Match, p
    <2>2. E \in SUBSET T /\ IsFiniteSet(E) /\ \A e \in E : EntryOK(e)
      BY <1>1, FS_Subset
    <2>3. ASSUME NEW a \in E, NEW b \in E, a # b, a.priority = b.priority, SameReach(a, b)
          PROVE  a.sans \cap cert # {} /\ b.sans \cap cert # {} /\ a.sans \cap b.sans = {}
      <3> HIDE DEF T
      <3>1. ~PairAmbiguous(a, b)
        BY <1>1, <1>5, <2>3 DEF TacacsCompiles, Compiles, T
      <3>2. ~CertsMayOverlap(a, b)
        BY <2>3, <3>1 DEF PairAmbiguous
      <3> QED BY <3>2 DEF CertsMayOverlap, CertSatisfied
    <2> HIDE DEF E, T
    <2> QED BY <2>1, <2>2, <2>3, Selects DEF E
  <1>6. ASSUME UdpCompiles(clients, role)
        PROVE  RightChoice(UdpMatch(clients, role, ip), {[e EXCEPT !.mode = "addr"] : e \in U}, p, {})
    <2> DEFINE E == {[e EXCEPT !.mode = "addr"] : e \in U}
    <2>1. UdpMatch(clients, role, ip) = Select(E, p)
      BY DEF UdpMatch, p
    <2>2. IsFiniteSet(E)
      <3> DEFINE f == [e \in U |-> [e EXCEPT !.mode = "addr"]]
      <3>1. f \in Surjection(U, E)
        BY DEF Surjection
      <3> HIDE DEF f, E, U
      <3> QED BY <1>2, <3>1, FS_Surjection
    <2>3. ASSUME NEW e \in U
          PROVE  LET m == [e EXCEPT !.mode = "addr"]
                 IN /\ EntryOK(m) /\ m.mode = "addr"
                    /\ m.id = e.id /\ m.priority = e.priority /\ m.cidrs = e.cidrs
      <3>1. PICK c \in clients : e = Entry(c, "udp")
        BY DEF UdpEntries
      <3> DEFINE m == [e EXCEPT !.mode = "addr"]
      <3>2. /\ m.mode = "addr" /\ m.id = e.id /\ m.priority = e.priority /\ m.cidrs = e.cidrs
            /\ m.endpoint = e.endpoint
        BY <3>1 DEF Entry
      <3>3. EntryOK(e)
        BY <1>2
      <3> HIDE DEF m
      <3>4. EntryOK(m)
        BY <3>2, <3>3 DEF EntryOK
      <3> QED BY <3>2, <3>4 DEF m
    <2>4. ASSUME NEW a \in E, NEW b \in E, a # b, a.priority = b.priority, SameReach(a, b)
          PROVE  FALSE
      <3>1. PICK c \in U : a = [c EXCEPT !.mode = "addr"]
        OBVIOUS
      <3>2. PICK d \in U : b = [d EXCEPT !.mode = "addr"]
        OBVIOUS
      <3>3. c # d /\ c.priority = d.priority /\ a.mode = "addr" /\ b.mode = "addr"
            /\ a.cidrs = c.cidrs /\ b.cidrs = d.cidrs
        BY <2>3, <2>4, <3>1, <3>2
      <3>4. ShareIdenticalCIDR(c, d)
        BY <2>4, <3>3 DEF SameReach, ShareIdenticalCIDR
      <3>5. ~UdpPairAmbiguous(c, d)
        BY <1>2, <1>6, <3>3 DEF UdpCompiles, Compiles
      <3> QED BY <3>3, <3>4, <3>5 DEF UdpPairAmbiguous
    <2>5. \A e \in E : EntryOK(e)
      BY <2>3
    <2> HIDE DEF E, U
    <2> QED BY <2>1, <2>2, <2>4, <2>5, Selects DEF E
  <1>7. ASSUME TlsCompiles(clients, role)
        PROVE  RightChoice(TlsMatch(clients, role, ip, cert), {e \in R : RadiusCertSatisfied(e, cert)}, p, cert)
    <2> DEFINE E == {e \in R : RadiusCertSatisfied(e, cert)}
    <2>1. CASE cert = NoCert \/ (cert = {} /\ \A e \in R : e.sans # {})
      <3>1. TlsMatch(clients, role, ip, cert) = NoMatch
        BY <2>1 DEF TlsMatch
      <3>2. E = {}
        BY <2>1 DEF RadiusCertSatisfied, CertSatisfied
      <3>3. Ambiguous # NoMatch
        <4>1. Ambiguous.id # NoMatch.id
          BY DEF Ambiguous, NoMatch
        <4> QED BY <4>1
      <3> HIDE DEF E, R
      <3>4. RightChoice(NoMatch, E, p, cert)
        BY <3>2, <3>3 DEF RightChoice
      <3> QED BY <3>1, <3>4 DEF E
    <2>2. CASE ~(cert = NoCert \/ (cert = {} /\ \A e \in R : e.sans # {}))
      <3>1. TlsMatch(clients, role, ip, cert) = Select(E, p)
        BY <2>2 DEF TlsMatch, p
      <3>2. E \in SUBSET R /\ IsFiniteSet(E) /\ \A e \in E : EntryOK(e)
        BY <1>3, FS_Subset
      <3>3. ASSUME NEW a \in E, NEW b \in E, a # b, a.priority = b.priority, SameReach(a, b)
            PROVE  a.sans \cap cert # {} /\ b.sans \cap cert # {} /\ a.sans \cap b.sans = {}
        <4> HIDE DEF R
        <4>1. ~TlsPairAmbiguous(a, b)
          BY <1>3, <1>7, <3>3 DEF TlsCompiles, Compiles, R
        <4>2. ~CertsMayOverlap(a, b)
          BY <3>3, <4>1 DEF TlsPairAmbiguous
        <4> QED BY <4>2 DEF CertsMayOverlap, RadiusCertSatisfied, CertSatisfied
      <3> HIDE DEF E, R
      <3> QED BY <3>1, <3>2, <3>3, Selects DEF E
    <2> QED BY <2>1, <2>2
  <1> QED BY <1>4, <1>5, <1>6, <1>7 DEF PeerDecided, p

-----------------------------------------------------------------------------
(* The two forms of a client                                               *)
(*                                                                         *)
(* ClientEndpoints keeps what it is told in lists, so the first lemmas are *)
(* about lists.  The argument is then that every way into the document     *)
(* ends in one of three: RADIUS endpoints, and validation compares the two *)
(* forms; none, and the TACACS+ fields projected from the endpoints; or    *)
(* none, and the endpoints made from the TACACS+ fields.  What is left, a  *)
(* client with no TACACS+ and no RADIUS at all, is refused.                *)

(* A sequence of the library is a list.                                    *)
LEMMA SeqIsList ==
  ASSUME NEW S, NEW s \in Seq(S)
  PROVE  IsList(s) /\ DOMAIN s = 1..Len(s) /\ \A k \in DOMAIN s : s[k] \in S
  BY DEF IsList

(* A list is made of what is found at the places, in their order.          *)
LEMMA InOrderIs ==
  ASSUME NEW f, DOMAIN f \in SUBSET Int, IsFiniteSet(DOMAIN f)
  PROVE  /\ InOrder(f) \in Seq(Members(f)) /\ IsList(InOrder(f))
         /\ \A n \in DOMAIN InOrder(f) :
              \E k \in DOMAIN f : PlacesBefore(DOMAIN f, k) = n - 1 /\ InOrder(f)[n] = f[k]
         /\ \A k \in DOMAIN f : \E n \in DOMAIN InOrder(f) : InOrder(f)[n] = f[k]
  <1> DEFINE D == DOMAIN f
  <1> DEFINE C == Cardinality(D)
  <1> DEFINE at(n) == CHOOSE k \in D : PlacesBefore(D, k) = n - 1
  <1>1. /\ C \in Nat
        /\ \A i \in D : PlacesBefore(D, i) \in 0..C - 1
        /\ \A i, j \in D : i < j => PlacesBefore(D, i) < PlacesBefore(D, j)
        /\ \A k \in 0..C - 1 : \E i \in D : PlacesBefore(D, i) = k
    <2> HIDE DEF D
    <2> QED BY Ranks DEF D
  <1>2. InOrder(f) = [n \in 1..C |-> f[at(n)]]
    BY DEF InOrder
  <1> HIDE DEF D, C
  <1>3. ASSUME NEW n \in 1..C
        PROVE  at(n) \in D /\ PlacesBefore(D, at(n)) = n - 1
    <2>1. n - 1 \in 0..C - 1
      BY <1>1
    <2>2. \E i \in D : PlacesBefore(D, i) = n - 1
      BY <1>1, <2>1
    <2> QED BY <2>2
  <1>4. ASSUME NEW k \in D
        PROVE  \E n \in 1..C : at(n) = k
    <2> DEFINE n == PlacesBefore(D, k) + 1
    <2>1. n \in 1..C /\ n - 1 = PlacesBefore(D, k)
      BY <1>1
    <2>2. at(n) \in D /\ PlacesBefore(D, at(n)) = PlacesBefore(D, k)
      BY <1>3, <2>1
    <2> HIDE DEF n
    <2>3. PICK m : m = at(n)
      OBVIOUS
    <2>4. m \in Int /\ k \in Int /\ m \in D /\ PlacesBefore(D, m) \in Int /\ PlacesBefore(D, m) = PlacesBefore(D, k)
      BY <1>1, <2>2, <2>3 DEF D
    <2>5. ~(m < k) /\ ~(k < m)
      BY <1>1, <2>4
    <2>6. m = k
      BY <2>4, <2>5
    <2> QED BY <2>1, <2>3, <2>6
  <1>5. Members(f) = {f[k] : k \in D}
    BY DEF Members, D
  <1>6. \A n \in 1..C : f[at(n)] \in Members(f)
    BY <1>3, <1>5
  <1> HIDE DEF at
  <1>7. InOrder(f) \in Seq(Members(f)) /\ DOMAIN InOrder(f) = 1..C
    BY <1>1, <1>2, <1>6
  <1>8. IsList(InOrder(f))
    BY <1>7, SeqIsList
  <1>9. \A n \in 1..C : InOrder(f)[n] = f[at(n)]
    BY <1>2
  <1> QED BY <1>3, <1>4, <1>7, <1>8, <1>9 DEF D

(* A list in order is the list itself.                                     *)
LEMMA InOrderSame ==
  ASSUME NEW s, IsList(s)
  PROVE  InOrder(s) = s
  <1> DEFINE N == Len(s)
  <1>1. N \in Nat /\ s = [k \in 1..N |-> s[k]] /\ DOMAIN s = 1..N
    BY DEF IsList
  <1> HIDE DEF N
  <1>2. IsFiniteSet(1..N) /\ Cardinality(1..N) = N
    BY <1>1, FS_Interval
  <1>3. ASSUME NEW k \in 1..N
        PROVE  PlacesBefore(1..N, k) = k - 1
    <2>1. {j \in 1..N : j < k} = 1..k - 1
      BY <1>1
    <2>2. Cardinality(1..k - 1) = k - 1
      <3>1. 1 \in Int /\ k - 1 \in Int /\ (1 > k - 1 => k - 1 = 0)
        BY <1>1
      <3>2. Cardinality(1..k - 1) = IF 1 > k - 1 THEN 0 ELSE (k - 1) - 1 + 1
        BY <3>1, FS_Interval
      <3> QED BY <3>1, <3>2
    <2> QED BY <2>1, <2>2 DEF PlacesBefore
  <1>4. ASSUME NEW n \in 1..N
        PROVE  (CHOOSE k \in 1..N : PlacesBefore(1..N, k) = n - 1) = n
    <2>1. \E k \in 1..N : PlacesBefore(1..N, k) = n - 1
      BY <1>3
    <2>2. PICK m : m = CHOOSE k \in 1..N : PlacesBefore(1..N, k) = n - 1
      OBVIOUS
    <2>3. m \in 1..N /\ PlacesBefore(1..N, m) = n - 1
      BY <2>1, <2>2
    <2>4. m - 1 = n - 1
      BY <1>3, <2>3
    <2>5. m = n
      BY <1>1, <2>3, <2>4
    <2> QED BY <2>2, <2>5
  <1>5. InOrder(s) = [n \in 1..N |-> s[CHOOSE k \in 1..N : PlacesBefore(1..N, k) = n - 1]]
    BY <1>1, <1>2 DEF InOrder
  <1>6. InOrder(s) = [n \in 1..N |-> s[n]]
    BY <1>4, <1>5
  <1> QED BY <1>1, <1>6

NoRepeat(s) == \A i, j \in DOMAIN s : s[i] = s[j] => i = j

(* Distinct keeps what is there, each once.                                *)
LEMMA DistinctIs ==
  ASSUME NEW f, DOMAIN f \in SUBSET Int, IsFiniteSet(DOMAIN f)
  PROVE  /\ Distinct(f) \in Seq(Members(f)) /\ IsList(Distinct(f)) /\ NoRepeat(Distinct(f))
         /\ \A x : Lists(Distinct(f), x) <=> Lists(f, x)
  <1> DEFINE F == {i \in DOMAIN f : \A j \in DOMAIN f : j < i => f[j] # f[i]}
  <1> DEFINE g == [k \in F |-> f[k]]
  <1> DEFINE d == InOrder(g)
  <1>1. F \in SUBSET DOMAIN f /\ F \in SUBSET Int /\ IsFiniteSet(F)
    BY FS_Subset
  <1>2. DOMAIN g = F /\ (\A k \in F : g[k] = f[k]) /\ Members(g) \subseteq Members(f)
    BY DEF Members
  <1>3. Distinct(f) = d
    BY DEF Distinct
  <1>4. \A i, j \in F : f[i] = f[j] => i = j
    <2>1. ASSUME NEW i \in F, NEW j \in F, f[i] = f[j]
          PROVE  ~(i < j) /\ ~(j < i)
      BY <2>1
    <2>2. \A i \in F : i \in Int
      BY <1>1
    <2> HIDE DEF F
    <2> QED BY <2>1, <2>2
  <1>5. ASSUME NEW k \in DOMAIN f
        PROVE  \E i \in F : f[i] = f[k]
    <2> DEFINE S == {j \in DOMAIN f : f[j] = f[k]}
    <2>1. S \in SUBSET Int /\ IsFiniteSet(S) /\ k \in S
      BY FS_Subset
    <2>2. Earliest(S) \in S /\ \A y \in S : Earliest(S) <= y
      <3> HIDE DEF S
      <3> QED BY <2>1, Extremes
    <2>3. PICK i : i \in S /\ \A y \in S : i <= y
      BY <2>2
    <2>4. i \in DOMAIN f /\ i \in Int /\ f[i] = f[k]
      BY <2>1, <2>3
    <2>5. ASSUME NEW j \in DOMAIN f, j < i, f[j] = f[i]
          PROVE  FALSE
      <3>1. j \in S /\ j \in Int
        BY <2>4, <2>5
      <3> QED BY <2>3, <2>4, <2>5, <3>1
    <2>6. i \in F
      BY <2>4, <2>5
    <2> QED BY <2>4, <2>6
  <1> HIDE DEF F
  <1>6. /\ d \in Seq(Members(g)) /\ IsList(d)
        /\ \A n \in DOMAIN d : \E k \in F : PlacesBefore(F, k) = n - 1 /\ d[n] = f[k]
        /\ \A k \in F : \E n \in DOMAIN d : d[n] = f[k]
    <2> HIDE DEF g
    <2>1. DOMAIN g \in SUBSET Int /\ IsFiniteSet(DOMAIN g)
      BY <1>1, <1>2
    <2>2. /\ d \in Seq(Members(g)) /\ IsList(d)
          /\ \A n \in DOMAIN d : \E k \in DOMAIN g : PlacesBefore(DOMAIN g, k) = n - 1 /\ d[n] = g[k]
          /\ \A k \in DOMAIN g : \E n \in DOMAIN d : d[n] = g[k]
      BY <2>1, InOrderIs
    <2> HIDE DEF d
    <2> QED BY <1>2, <2>2
  <1>7. d \in Seq(Members(f))
    <2> HIDE DEF d, g
    <2> QED BY <1>2, <1>6
  <1> HIDE DEF d, g
  <1>8. DOMAIN d \in SUBSET Int
    BY <1>7
  <1>9. NoRepeat(d)
    <2> SUFFICES ASSUME NEW i \in DOMAIN d, NEW j \in DOMAIN d, d[i] = d[j] PROVE i = j
      BY DEF NoRepeat
    <2>1. PICK k \in F : PlacesBefore(F, k) = i - 1 /\ d[i] = f[k]
      BY <1>6
    <2>2. PICK l \in F : PlacesBefore(F, l) = j - 1 /\ d[j] = f[l]
      BY <1>6
    <2>3. k = l
      BY <1>4, <2>1, <2>2
    <2>4. i - 1 = j - 1 /\ i \in Int /\ j \in Int
      BY <1>8, <2>1, <2>2, <2>3
    <2> QED BY <2>4
  <1>10. \A x : Lists(d, x) <=> Lists(f, x)
    BY <1>1, <1>5, <1>6 DEF Lists
  <1> QED BY <1>3, <1>6, <1>7, <1>9, <1>10

(* A list without repetitions is left as it is.                            *)
LEMMA DistinctSame ==
  ASSUME NEW s, IsList(s), NoRepeat(s)
  PROVE  Distinct(s) = s
  <1> DEFINE F == {i \in DOMAIN s : \A j \in DOMAIN s : j < i => s[j] # s[i]}
  <1>1. Len(s) \in Nat /\ s = [k \in 1..Len(s) |-> s[k]] /\ DOMAIN s = 1..Len(s)
    BY DEF IsList
  <1>2. F = DOMAIN s
    BY <1>1 DEF NoRepeat
  <1>3. [k \in F |-> s[k]] = s
    BY <1>1, <1>2
  <1>4. Distinct(s) = InOrder([k \in F |-> s[k]])
    BY DEF Distinct
  <1> QED BY <1>3, <1>4, InOrderSame

(* Places of a list.                                                       *)
LEMMA ListPlaces ==
  ASSUME NEW s, IsList(s)
  PROVE  /\ Len(s) \in Nat /\ DOMAIN s = 1..Len(s) /\ DOMAIN s \in SUBSET Int /\ IsFiniteSet(DOMAIN s)
         /\ \A at \in SUBSET DOMAIN s : at \in SUBSET Int /\ IsFiniteSet(at)
  <1>1. Len(s) \in Nat /\ s = [k \in 1..Len(s) |-> s[k]] /\ DOMAIN s = 1..Len(s)
    BY DEF IsList
  <1>2. IsFiniteSet(1..Len(s))
    BY <1>1, FS_Interval
  <1> QED BY <1>1, <1>2, FS_Subset

(* A function on the places of a list is a list.                           *)
LEMMA FunctionIsList ==
  ASSUME NEW s, IsList(s), NEW t, t = [k \in DOMAIN s |-> t[k]]
  PROVE  IsList(t) /\ DOMAIN t = DOMAIN s
  <1>1. PICK n \in Nat : DOMAIN s = 1..n
    BY ListPlaces
  <1>2. t = [k \in 1..n |-> t[k]]
    BY <1>1
  <1>3. t \in Seq({t[k] : k \in 1..n})
    BY <1>2
  <1> QED BY <1>1, <1>2, <1>3, SeqIsList

(* An optional field and its default.                                      *)
LEMMA Options ==
  ASSUME NEW o, NEW d
  PROVE  /\ o = {} => OrElse(o, d) = d
         /\ o # {} => OrElse(o, d) \in o
         /\ \A x : o = {x} => OrElse(o, d) = x
  BY DEF OrElse

-----------------------------------------------------------------------------
(* Clients as the methods leave them.                                      *)

PolicyOK(b) == b = [methods |-> b.methods, service |-> b.service, groups |-> b.groups, acct |-> b.acct]
SettingsOK(b) == b = [methods |-> b.methods, status |-> b.status, knobs |-> b.knobs]
EndpointOK(ep) ==
  /\ ep = [id |-> ep.id, protocol |-> ep.protocol, transport |-> ep.transport, roles |-> ep.roles,
           secret |-> ep.secret, life |-> ep.life, block |-> ep.block]
  /\ ep.protocol \in {"tacacs", "radius"}
  /\ IsList(ep.roles) /\ NoRepeat(ep.roles)
  /\ IF ep.protocol = "tacacs" THEN PolicyOK(ep.block) ELSE SettingsOK(ep.block)
EndpointsOK(eps) == IsList(eps) /\ \A k \in DOMAIN eps : EndpointOK(eps[k])
ClientOK(c) ==
  /\ c = [id |-> c.id, mode |-> c.mode, cidrs |-> c.cidrs, transports |-> c.transports, secret |-> c.secret,
          life |-> c.life, policy |-> c.policy, endpoints |-> c.endpoints]
  /\ c.transports \in Seq(Transports) /\ PolicyOK(c.policy) /\ EndpointsOK(c.endpoints)

LEMMA RolesOK ==
  ASSUME NEW roles, IsList(roles)
  PROVE  IsList(Distinct(roles)) /\ NoRepeat(Distinct(roles))
  BY ListPlaces, DistinctIs

LEMMA TacacsRolesOK == IsList(TacacsRoles) /\ NoRepeat(TacacsRoles)
  <1>1. TacacsRoles \in Seq({"authentication", "authorization", "accounting"}) /\ Len(TacacsRoles) = 3
    BY DEF TacacsRoles
  <1>2. TacacsRoles[1] = "authentication" /\ TacacsRoles[2] = "authorization" /\ TacacsRoles[3] = "accounting"
    BY DEF TacacsRoles
  <1>3. IsList(TacacsRoles) /\ DOMAIN TacacsRoles = 1..3
    BY <1>1, SeqIsList
  <1> QED BY <1>2, <1>3 DEF NoRepeat

LEMMA RadiusRolesOK == IsList(<<"access", "accounting">>) /\ NoRepeat(<<"access", "accounting">>)
  <1> DEFINE s == <<"access", "accounting">>
  <1>1. s \in Seq({"access", "accounting"}) /\ Len(s) = 2 /\ s[1] = "access" /\ s[2] = "accounting"
    OBVIOUS
  <1> HIDE DEF s
  <1>2. IsList(s) /\ DOMAIN s = 1..2
    BY <1>1, SeqIsList
  <1>3. NoRepeat(s)
    BY <1>1, <1>2 DEF NoRepeat
  <1> QED BY <1>2, <1>3 DEF s

(* Edits that leave a client a client.                                     *)
LEMMA WithEndpoints ==
  ASSUME NEW c, ClientOK(c), NEW eps, EndpointsOK(eps)
  PROVE  /\ ClientOK([c EXCEPT !.endpoints = eps])
         /\ [c EXCEPT !.endpoints = eps]
            = [id |-> c.id, mode |-> c.mode, cidrs |-> c.cidrs, transports |-> c.transports, secret |-> c.secret,
               life |-> c.life, policy |-> c.policy, endpoints |-> eps]
  <1> DEFINE d == [c EXCEPT !.endpoints = eps]
  <1>1. d = [id |-> c.id, mode |-> c.mode, cidrs |-> c.cidrs, transports |-> c.transports, secret |-> c.secret,
             life |-> c.life, policy |-> c.policy, endpoints |-> eps]
    BY DEF ClientOK
  <1> HIDE DEF d
  <1>2. ClientOK(d)
    BY <1>1 DEF ClientOK
  <1> QED BY <1>1, <1>2 DEF d

LEMMA Synthesizes ==
  ASSUME NEW c, c.transports \in Seq(Transports), PolicyOK(c.policy), NEW eps, eps = synthesizeTACACSEndpoints(c)
  PROVE  /\ EndpointsOK(eps) /\ DOMAIN eps = DOMAIN c.transports
         /\ \A k \in DOMAIN eps :
              /\ eps[k].protocol = "tacacs" /\ eps[k].block = c.policy
              /\ eps[k].transport = "tcp" <=> c.transports[k] = "legacy"
              /\ c.transports[k] = "legacy" => eps[k].secret = c.secret /\ eps[k].life = c.life
  <1>1. IsList(c.transports)
    BY SeqIsList
  <1>2. eps = [k \in DOMAIN c.transports |-> synthesizeTACACSEndpoint(c, c.transports[k])]
    BY DEF synthesizeTACACSEndpoints
  <1>3. IsList(eps) /\ DOMAIN eps = DOMAIN c.transports
    BY <1>1, <1>2, FunctionIsList
  <1>4. IsList(TacacsRoles) /\ NoRepeat(TacacsRoles)
    BY TacacsRolesOK
  <1>5. ASSUME NEW t, NEW ep, ep = synthesizeTACACSEndpoint(c, t)
        PROVE  /\ EndpointOK(ep) /\ ep.protocol = "tacacs" /\ ep.block = c.policy
               /\ ep.transport = "tcp" <=> t = "legacy"
               /\ t = "legacy" => ep.secret = c.secret /\ ep.life = c.life
    <2>1. /\ ep = [id |-> ep.id, protocol |-> ep.protocol, transport |-> ep.transport, roles |-> ep.roles,
                   secret |-> ep.secret, life |-> ep.life, block |-> ep.block]
          /\ ep.protocol = "tacacs" /\ ep.block = c.policy /\ ep.roles = TacacsRoles
          /\ ep.transport = IF t = "legacy" THEN "tcp" ELSE "tls"
          /\ t = "legacy" => ep.secret = c.secret /\ ep.life = c.life
      BY <1>5 DEF synthesizeTACACSEndpoint
    <2> QED BY <1>4, <2>1 DEF EndpointOK
  <1> QED BY <1>2, <1>3, <1>5 DEF EndpointsOK

(* Reading the TACACS+ fields off a list of endpoints.                     *)
TacacsAt(eps) == {k \in DOMAIN eps : eps[k].protocol = "tacacs"}
TcpAt(eps) == {k \in TacacsAt(eps) : eps[k].transport = "tcp"}
FlatAt(eps) == [k \in TacacsAt(eps) |-> IF k \in TcpAt(eps) THEN "legacy" ELSE "tls"]

LEMMA Projects ==
  ASSUME NEW eps, EndpointsOK(eps), NEW p, p = projectTACACS(eps)
  PROVE  /\ p.have = (TacacsAt(eps) # {})
         /\ p.transports = Distinct(FlatAt(eps)) /\ p.transports \in Seq(Transports)
         /\ IsList(p.transports) /\ NoRepeat(p.transports)
         /\ Lists(p.transports, "legacy") <=> TcpAt(eps) # {}
         /\ TacacsAt(eps) = {} => p.transports = <<>>
         /\ TcpAt(eps) = {} => p.secret = None /\ p.life = None
         /\ TcpAt(eps) # {} => /\ Latest(TcpAt(eps)) \in TcpAt(eps)
                               /\ p.secret = eps[Latest(TcpAt(eps))].secret
                               /\ p.life = eps[Latest(TcpAt(eps))].life
         /\ p.policy = IF TacacsAt(eps) = {} THEN {} ELSE {eps[Earliest(TacacsAt(eps))].block}
         /\ TacacsAt(eps) # {} =>
              Earliest(TacacsAt(eps)) \in TacacsAt(eps) /\ PolicyOK(eps[Earliest(TacacsAt(eps))].block)
  <1> DEFINE T == TacacsAt(eps)
  <1> DEFINE C == TcpAt(eps)
  <1> DEFINE f == FlatAt(eps)
  <1>1. T \in SUBSET DOMAIN eps /\ C \in SUBSET T /\ C \in SUBSET DOMAIN eps
    BY DEF TacacsAt, TcpAt
  <1>2. T \in SUBSET Int /\ IsFiniteSet(T) /\ C \in SUBSET Int /\ IsFiniteSet(C)
    BY <1>1, ListPlaces DEF EndpointsOK
  <1>3. p = [have |-> T # {}, transports |-> Distinct(f),
             secret |-> IF C = {} THEN None ELSE eps[Latest(C)].secret,
             life |-> IF C = {} THEN None ELSE eps[Latest(C)].life,
             policy |-> IF T = {} THEN {} ELSE {eps[Earliest(T)].block}]
    BY DEF projectTACACS, IsTacacs, TacacsAt, TcpAt, FlatAt
  <1>4. /\ DOMAIN f = T /\ \A k \in T : f[k] = IF k \in C THEN "legacy" ELSE "tls"
        /\ Members(f) \subseteq Transports
    BY DEF FlatAt, Members, Transports
  <1> HIDE DEF T, C, f
  <1>5. /\ Distinct(f) \in Seq(Members(f)) /\ IsList(Distinct(f)) /\ NoRepeat(Distinct(f))
        /\ Lists(Distinct(f), "legacy") <=> Lists(f, "legacy")
    BY <1>2, <1>4, DistinctIs
  <1>6. Distinct(f) \in Seq(Transports)
    BY <1>4, <1>5
  <1>7. Lists(f, "legacy") <=> C # {}
    BY <1>1, <1>4 DEF Lists
  <1>8. T = {} => Distinct(f) = <<>>
    <2> SUFFICES ASSUME T = {} PROVE Distinct(f) = <<>>
      OBVIOUS
    <2>1. Members(f) = {}
      BY <1>4 DEF Members
    <2> QED BY <1>5, <2>1
  <1>9. C # {} => Latest(C) \in C
    BY <1>2, Extremes
  <1>10. T # {} => Earliest(T) \in T
    BY <1>2, Extremes
  <1>11. \A k \in T : PolicyOK(eps[k].block)
    BY DEF T, TacacsAt, EndpointsOK, EndpointOK
  <1>12. /\ p.have = (T # {}) /\ p.transports = Distinct(f)
         /\ p.policy = IF T = {} THEN {} ELSE {eps[Earliest(T)].block}
    BY <1>3
  <1>13. C = {} => p.secret = None /\ p.life = None
    BY <1>3
  <1>14. C # {} => p.secret = eps[Latest(C)].secret /\ p.life = eps[Latest(C)].life
    BY <1>3
  <1> QED BY <1>5, <1>6, <1>7, <1>8, <1>9, <1>10, <1>11, <1>12, <1>13, <1>14 DEF T, C, f

-----------------------------------------------------------------------------
(* The two forms of a client.                                              *)

Agrees(c) == projectionMatchesClient(InUse(c), projectTACACS(c.endpoints))

LEMMA InUseIs ==
  ASSUME NEW c, ClientOK(c), NEW u, u = InUse(c)
  PROVE  u = [id |-> c.id, mode |-> c.mode, cidrs |-> c.cidrs, transports |-> Distinct(c.transports),
              secret |-> IF Lists(c.transports, "legacy") THEN c.secret ELSE None,
              life |-> IF Lists(c.transports, "legacy") THEN c.life ELSE None,
              policy |-> c.policy, endpoints |-> c.endpoints]
  BY DEF InUse, ClientOK

(* A client that matches its projection is in use as it is projected.      *)
LEMMA MatchAgrees ==
  ASSUME NEW c, ClientOK(c), projectionMatchesClient(c, projectTACACS(c.endpoints))
  PROVE  Agrees(c)
  <1> DEFINE p == projectTACACS(c.endpoints)
  <1> DEFINE u == InUse(c)
  <1> DEFINE eps == c.endpoints
  <1>1. EndpointsOK(eps)
    BY DEF ClientOK
  <1> HIDE DEF p, u
  <1>2. p = projectTACACS(eps) /\ u = InUse(c) /\ projectionMatchesClient(c, p)
    BY DEF p, u
  <1>3. /\ IsList(p.transports) /\ NoRepeat(p.transports)
        /\ Lists(p.transports, "legacy") <=> TcpAt(eps) # {}
        /\ TcpAt(eps) = {} => p.secret = None /\ p.life = None
    BY <1>1, <1>2, Projects
  <1>4. u.transports = Distinct(c.transports) /\ u.policy = c.policy
        /\ u.secret = (IF Lists(c.transports, "legacy") THEN c.secret ELSE None)
        /\ u.life = (IF Lists(c.transports, "legacy") THEN c.life ELSE None)
    BY <1>2, InUseIs
  <1>5. c.transports = p.transports
    BY <1>2 DEF projectionMatchesClient
  <1>6. u.transports = p.transports
    BY <1>3, <1>4, <1>5, DistinctSame
  <1>7. CASE p.have
    <2>1. c.secret = p.secret /\ c.life = p.life /\ p.policy = {c.policy}
      BY <1>2, <1>7 DEF projectionMatchesClient
    <2>2. u.secret = p.secret /\ u.life = p.life
      BY <1>3, <1>4, <1>5, <2>1
    <2>3. projectionMatchesClient(u, p)
      BY <1>4, <1>6, <1>7, <2>1, <2>2 DEF projectionMatchesClient
    <2> QED BY <2>3 DEF Agrees, u, p
  <1>8. CASE ~p.have
    <2>1. c.secret = None /\ c.policy.methods = {} /\ c.policy.service = None /\ c.policy.groups = {}
      BY <1>2, <1>8 DEF projectionMatchesClient
    <2>2. u.secret = None
      BY <1>4, <2>1
    <2>3. projectionMatchesClient(u, p)
      BY <1>4, <1>6, <1>8, <2>1, <2>2 DEF projectionMatchesClient
    <2> QED BY <2>3 DEF Agrees, u, p
  <1> QED BY <1>7, <1>8

(* A client with the endpoints its TACACS+ fields stand for agrees.        *)
LEMMA SynthesizedAgrees ==
  ASSUME NEW c, ClientOK(c), c.endpoints = synthesizeTACACSEndpoints(c), c.transports # <<>>
  PROVE  Agrees(c)
  <1> DEFINE eps == c.endpoints
  <1> DEFINE p == projectTACACS(eps)
  <1> DEFINE u == InUse(c)
  <1>1. /\ c.transports \in Seq(Transports) /\ PolicyOK(c.policy) /\ EndpointsOK(eps)
    BY DEF ClientOK
  <1>2. /\ DOMAIN eps = DOMAIN c.transports
        /\ \A k \in DOMAIN eps :
              /\ eps[k].protocol = "tacacs" /\ eps[k].block = c.policy
              /\ eps[k].transport = "tcp" <=> c.transports[k] = "legacy"
              /\ c.transports[k] = "legacy" => eps[k].secret = c.secret /\ eps[k].life = c.life
    BY <1>1, Synthesizes
  <1> HIDE DEF eps, p, u
  <1>3. p = projectTACACS(eps) /\ u = InUse(c)
    BY DEF p, u
  <1>4. IsList(c.transports) /\ DOMAIN c.transports = 1..Len(c.transports) /\ Len(c.transports) \in Nat
        /\ \A k \in DOMAIN c.transports : c.transports[k] \in Transports
    BY <1>1, SeqIsList
  <1>5. TacacsAt(eps) = DOMAIN c.transports /\ TcpAt(eps) = {k \in DOMAIN c.transports : c.transports[k] = "legacy"}
    BY <1>2 DEF TacacsAt, TcpAt
  <1>6. TacacsAt(eps) # {}
    BY <1>1, <1>4, <1>5
  <1>7. FlatAt(eps) = c.transports
    <2>1. \A k \in DOMAIN c.transports : c.transports[k] = IF k \in TcpAt(eps) THEN "legacy" ELSE "tls"
      BY <1>4, <1>5 DEF Transports
    <2>2. FlatAt(eps) = [k \in DOMAIN c.transports |-> IF k \in TcpAt(eps) THEN "legacy" ELSE "tls"]
      BY <1>5 DEF FlatAt
    <2>3. c.transports = [k \in DOMAIN c.transports |-> c.transports[k]]
      BY <1>4 DEF IsList
    <2> QED BY <2>1, <2>2, <2>3
  <1>8. Lists(c.transports, "legacy") <=> TcpAt(eps) # {}
    BY <1>5 DEF Lists
  <1>9. /\ p.have /\ p.transports = Distinct(c.transports)
        /\ TcpAt(eps) = {} => p.secret = None /\ p.life = None
        /\ TcpAt(eps) # {} => \E k \in TcpAt(eps) : p.secret = eps[k].secret /\ p.life = eps[k].life
        /\ p.policy = {eps[Earliest(TacacsAt(eps))].block} /\ Earliest(TacacsAt(eps)) \in TacacsAt(eps)
    <2>1. p.have = (TacacsAt(eps) # {})
      BY <1>1, <1>3, Projects
    <2>2. p.have
      BY <1>6, <2>1, Zenon
    <2>3. /\ p.transports = Distinct(FlatAt(eps))
          /\ TcpAt(eps) = {} => p.secret = None /\ p.life = None
          /\ TcpAt(eps) # {} => /\ Latest(TcpAt(eps)) \in TcpAt(eps)
                                /\ p.secret = eps[Latest(TcpAt(eps))].secret
                                /\ p.life = eps[Latest(TcpAt(eps))].life
      BY <1>1, <1>3, Projects
    <2>4. /\ p.policy = IF TacacsAt(eps) = {} THEN {} ELSE {eps[Earliest(TacacsAt(eps))].block}
          /\ TacacsAt(eps) # {} => Earliest(TacacsAt(eps)) \in TacacsAt(eps)
      BY <1>1, <1>3, Projects
    <2> QED BY <1>6, <1>7, <2>2, <2>3, <2>4
  <1>10. u.transports = Distinct(c.transports) /\ u.policy = c.policy
        /\ u.secret = (IF Lists(c.transports, "legacy") THEN c.secret ELSE None)
        /\ u.life = (IF Lists(c.transports, "legacy") THEN c.life ELSE None)
    BY <1>3, InUseIs
  <1>11. u.secret = p.secret /\ u.life = p.life
    <2>1. \A k \in TcpAt(eps) : eps[k].secret = c.secret /\ eps[k].life = c.life
      BY <1>2, <1>5
    <2> QED BY <1>8, <1>9, <1>10, <2>1
  <1>12. p.policy = {u.policy}
    BY <1>2, <1>5, <1>9, <1>10
  <1>13. projectionMatchesClient(u, p)
    BY <1>9, <1>10, <1>11, <1>12 DEF projectionMatchesClient
  <1> QED BY <1>13 DEF Agrees, u, p, eps

(* applyTACACSProjection makes a client match, if there is something to    *)
(* project.                                                                *)
LEMMA Projected ==
  ASSUME NEW c, ClientOK(c), NEW d, d = applyTACACSProjection(c), NEW p, p = projectTACACS(c.endpoints)
  PROVE  /\ ClientOK(d) /\ d.endpoints = c.endpoints
         /\ d.id = c.id /\ d.mode = c.mode /\ d.cidrs = c.cidrs
         /\ p.have => /\ projectionMatchesClient(d, p) /\ d.transports = p.transports /\ d.secret = p.secret
                      /\ p.policy = {d.policy}
         /\ ~p.have => d.transports = <<>> /\ d.secret = c.secret /\ d.policy = c.policy
  <1> DEFINE eps == c.endpoints
  <1>1. EndpointsOK(eps) /\ PolicyOK(c.policy)
    BY DEF ClientOK
  <1>2. /\ p.have = (TacacsAt(eps) # {}) /\ p.transports \in Seq(Transports)
        /\ p.policy = IF TacacsAt(eps) = {} THEN {} ELSE {eps[Earliest(TacacsAt(eps))].block}
        /\ TacacsAt(eps) # {} => PolicyOK(eps[Earliest(TacacsAt(eps))].block)
    BY <1>1, Projects
  <1>3. CASE p.have
    <2> DEFINE b == eps[Earliest(TacacsAt(eps))].block
    <2>1. p.policy = {b} /\ PolicyOK(b)
      BY <1>2, <1>3
    <2> HIDE DEF b
    <2>2. OrElse(p.policy, c.policy) = b
      BY <2>1, Options
    <2>3. d = [id |-> c.id, mode |-> c.mode, cidrs |-> c.cidrs, transports |-> p.transports, secret |-> p.secret,
               life |-> p.life, policy |-> b, endpoints |-> c.endpoints]
      BY <1>3, <2>2 DEF applyTACACSProjection, ClientOK
    <2>4. ClientOK(d)
      BY <1>1, <1>2, <2>1, <2>3 DEF ClientOK
    <2>5. projectionMatchesClient(d, p)
      BY <1>3, <2>1, <2>3 DEF projectionMatchesClient
    <2> QED BY <1>3, <2>1, <2>3, <2>4, <2>5
  <1>4. CASE ~p.have
    <2>1. d = [id |-> c.id, mode |-> c.mode, cidrs |-> c.cidrs, transports |-> <<>>, secret |-> c.secret,
               life |-> c.life, policy |-> c.policy, endpoints |-> c.endpoints]
      BY <1>4 DEF applyTACACSProjection, ClientOK
    <2>2. <<>> \in Seq(Transports)
      OBVIOUS
    <2>3. ClientOK(d)
      BY <1>1, <2>1, <2>2 DEF ClientOK
    <2> QED BY <1>4, <2>1, <2>3
  <1> QED BY <1>3, <1>4

-----------------------------------------------------------------------------
(* The methods leave clients.                                              *)

LEMMA EmptyList == EndpointsOK(<<>>)
  <1>1. <<>> \in Seq({}) /\ DOMAIN <<>> = {}
    OBVIOUS
  <1> QED BY <1>1, SeqIsList DEF EndpointsOK

LEMMA NormalizedEndpoint ==
  ASSUME NEW raw, raw.protocol \in {"tacacs", "radius"}, IsList(raw.roles), NEW flat, PolicyOK(flat.policy),
         NEW ep, ep = normalizeEndpoint(raw, flat)
  PROVE  EndpointOK(ep)
  <1>1. \E s, l, b :
          /\ ep = [id |-> raw.id, protocol |-> raw.protocol, transport |-> raw.transport, roles |-> Distinct(raw.roles),
                   secret |-> s, life |-> l, block |-> b]
          /\ IF raw.protocol = "tacacs" THEN PolicyOK(b) ELSE SettingsOK(b)
    <2>1. CASE raw.protocol = "tacacs"
      <3> DEFINE n == normalizeTACACSEndpoint(raw, flat)
      <3>1. PolicyOK(n.block)
        BY DEF normalizeTACACSEndpoint, PolicyOK
      <3>2. ep = [id |-> raw.id, protocol |-> raw.protocol, transport |-> raw.transport, roles |-> Distinct(raw.roles),
                  secret |-> n.secret, life |-> n.life, block |-> n.block]
        BY <2>1 DEF normalizeEndpoint, IsTacacs
      <3> HIDE DEF n
      <3> QED BY <2>1, <3>1, <3>2
    <2>2. CASE raw.protocol # "tacacs"
      <3> DEFINE n == normalizeRADIUSEndpoint(raw)
      <3>1. SettingsOK(n.block)
        BY DEF normalizeRADIUSEndpoint, SettingsOK
      <3>2. ep = [id |-> raw.id, protocol |-> raw.protocol, transport |-> raw.transport, roles |-> Distinct(raw.roles),
                  secret |-> n.secret, life |-> n.life, block |-> n.block]
        BY <2>2 DEF normalizeEndpoint, IsTacacs
      <3> HIDE DEF n
      <3> QED BY <2>2, <3>1, <3>2
    <2> QED BY <2>1, <2>2
  <1> QED BY <1>1, RolesOK DEF EndpointOK

LEMMA WrittenEndpoint ==
  ASSUME NEW w, w.protocol \in {"tacacs", "radius"}, IsList(w.roles), NEW ep, ep = clientEndpointFromWrite(w)
  PROVE  EndpointOK(ep)
  <1>1. \E s, l, b :
          /\ ep = [id |-> w.id, protocol |-> w.protocol, transport |-> w.transport, roles |-> Distinct(w.roles),
                   secret |-> s, life |-> l, block |-> b]
          /\ IF w.protocol = "tacacs" THEN PolicyOK(b) ELSE SettingsOK(b)
    <2>1. CASE w.protocol = "tacacs"
      <3> DEFINE n == tacacsEndpointFromWrite(w)
      <3>1. PolicyOK(n.block)
        BY DEF tacacsEndpointFromWrite, PolicyOK
      <3>2. ep = [id |-> w.id, protocol |-> w.protocol, transport |-> w.transport, roles |-> Distinct(w.roles),
                  secret |-> n.secret, life |-> n.life, block |-> n.block]
        BY <2>1 DEF clientEndpointFromWrite, IsTacacs
      <3> HIDE DEF n
      <3> QED BY <2>1, <3>1, <3>2
    <2>2. CASE w.protocol # "tacacs"
      <3> DEFINE n == radiusEndpointFromWrite(w)
      <3>1. SettingsOK(n.block)
        BY DEF radiusEndpointFromWrite, SettingsOK
      <3>2. ep = [id |-> w.id, protocol |-> w.protocol, transport |-> w.transport, roles |-> Distinct(w.roles),
                  secret |-> n.secret, life |-> n.life, block |-> n.block]
        BY <2>2 DEF clientEndpointFromWrite, IsTacacs
      <3> HIDE DEF n
      <3> QED BY <2>2, <3>1, <3>2
    <2> QED BY <2>1, <2>2
  <1> QED BY <1>1, RolesOK DEF EndpointOK

(* What a file gives is a client.                                          *)
LEMMA LoadedOK ==
  ASSUME NEW raw \in RawClients, NEW c \in normalizeClientsV2(raw)
  PROVE  ClientOK(c)
  <1> DEFINE flat == normalizeClientsFlatten(raw)
  <1>1. raw.transports \in Seq(Transports) /\ EndpointList(raw.endpoints)
    BY EndpointsAssumption
  <1>2. ClientOK(flat)
    <2>1. /\ flat = [id |-> flat.id, mode |-> flat.mode, cidrs |-> flat.cidrs, transports |-> flat.transports,
                     secret |-> flat.secret, life |-> flat.life, policy |-> flat.policy, endpoints |-> flat.endpoints]
          /\ flat.transports = raw.transports /\ flat.endpoints = <<>>
      BY DEF normalizeClientsFlatten
    <2>2. PolicyOK(flat.policy)
      BY DEF normalizeClientsFlatten, PolicyOK
    <2> HIDE DEF flat
    <2> QED BY <1>1, <2>1, <2>2, EmptyList DEF ClientOK
  <1>3. CASE raw.endpoints = <<>>
    <2>1. c = [flat EXCEPT !.endpoints = synthesizeTACACSEndpoints(flat)]
      BY <1>3 DEF normalizeClientsV2
    <2> HIDE DEF flat
    <2>2. EndpointsOK(synthesizeTACACSEndpoints(flat))
      BY <1>2, Synthesizes DEF ClientOK
    <2> QED BY <1>2, <2>1, <2>2, WithEndpoints
  <1>4. CASE raw.endpoints # <<>>
    <2>1. PICK eps \in normalizeEndpoints(raw.endpoints, flat) :
            c = applyTACACSProjection([flat EXCEPT !.endpoints = eps])
      BY <1>4 DEF normalizeClientsV2
    <2>2. eps = [k \in DOMAIN raw.endpoints |-> normalizeEndpoint(raw.endpoints[k], flat)]
      BY DEF normalizeEndpoints
    <2> HIDE DEF flat
    <2>3. IsList(eps) /\ DOMAIN eps = DOMAIN raw.endpoints
      BY <1>1, <2>2, FunctionIsList DEF EndpointList
    <2>4. \A k \in DOMAIN eps : EndpointOK(eps[k])
      BY <1>1, <1>2, <2>2, <2>3, NormalizedEndpoint DEF EndpointList, ClientOK
    <2>5. ClientOK([flat EXCEPT !.endpoints = eps])
      BY <1>2, <2>3, <2>4, WithEndpoints DEF EndpointsOK
    <2> QED BY <2>1, <2>5, Projected
  <1> QED BY <1>3, <1>4

(* The flatten fields of a request.                                        *)
LEMMA FlattenOK ==
  ASSUME NEW cur, ClientOK(cur), NEW w, WriteOK(w), NEW c \in FlattenPatched(cur, w)
  PROVE  ClientOK(c) /\ c.endpoints = cur.endpoints
  <1> DEFINE match == OrElse(w.match, [transports |-> cur.transports, mode |-> {cur.mode}, cidrs |-> cur.cidrs])
  <1>1. match.transports \in Seq(Transports)
    <2>1. CASE w.match = {}
      <3>1. match = [transports |-> cur.transports, mode |-> {cur.mode}, cidrs |-> cur.cidrs]
        BY <2>1, Options
      <3> QED BY <3>1 DEF ClientOK
    <2>2. CASE w.match # {}
      <3>1. match \in w.match
        BY <2>2, Options
      <3> QED BY <3>1 DEF WriteOK
    <2> QED BY <2>1, <2>2
  <1>2. \E mode, life, secret, m, s, g, a :
          c = [id |-> cur.id, mode |-> mode, cidrs |-> match.cidrs, transports |-> match.transports,
               secret |-> secret, life |-> life, endpoints |-> cur.endpoints,
               policy |-> [methods |-> m, service |-> s, groups |-> g, acct |-> a]]
    <2> DEFINE auth == OrElse(w.auth, [methods |-> cur.policy.methods, service |-> cur.policy.service])
    <2> DEFINE pol == [methods |-> auth.methods, service |-> auth.service,
                       groups |-> OrElse(w.groups, cur.policy.groups), acct |-> OrElse(w.acct, cur.policy.acct)]
    <2> DEFINE sec == IF w.secret = {"clear"} THEN None ELSE OrElse(w.secret, cur.secret)
    <2> DEFINE mod == OrElse(match.mode, "address_and_certificate")
    <2>1. c = [[cur EXCEPT !.transports = match.transports, !.cidrs = match.cidrs, !.mode = mod,
                           !.life = OrElse(w.life, cur.life), !.policy = pol] EXCEPT !.secret = sec]
      BY DEF FlattenPatched
    <2> HIDE DEF match, sec, mod
    <2>2. c = [id |-> cur.id, mode |-> mod, cidrs |-> match.cidrs, transports |-> match.transports,
               secret |-> sec, life |-> OrElse(w.life, cur.life), endpoints |-> cur.endpoints, policy |-> pol]
      <3> HIDE DEF pol
      <3> QED BY <2>1 DEF ClientOK
    <2> QED BY <2>2
  <1> HIDE DEF match
  <1>3. c = [id |-> c.id, mode |-> c.mode, cidrs |-> c.cidrs, transports |-> c.transports, secret |-> c.secret,
             life |-> c.life, policy |-> c.policy, endpoints |-> c.endpoints]
        /\ c.transports = match.transports /\ c.endpoints = cur.endpoints
    BY <1>2
  <1>4. PolicyOK(c.policy)
    BY <1>2 DEF PolicyOK
  <1> QED BY <1>1, <1>3, <1>4 DEF ClientOK

(* What is kept of a list of endpoints.                                    *)
Keeping(eps, at) == InOrder([k \in at |-> eps[k]])

LEMMA KeptOK ==
  ASSUME NEW eps, EndpointsOK(eps), NEW at \in SUBSET DOMAIN eps, NEW kept, kept = Keeping(eps, at)
  PROVE  /\ EndpointsOK(kept)
         /\ \A n \in DOMAIN kept : \E k \in at : kept[n] = eps[k]
         /\ \A k \in at : \E n \in DOMAIN kept : kept[n] = eps[k]
         /\ at = {} => kept = <<>>
  <1> DEFINE f == [k \in at |-> eps[k]]
  <1>1. at \in SUBSET Int /\ IsFiniteSet(at)
    BY ListPlaces DEF EndpointsOK
  <1>2. DOMAIN f = at /\ \A k \in at : f[k] = eps[k]
    OBVIOUS
  <1> HIDE DEF f
  <1>3. /\ kept \in Seq(Members(f)) /\ IsList(kept)
        /\ \A n \in DOMAIN kept : \E k \in at : kept[n] = f[k]
        /\ \A k \in at : \E n \in DOMAIN kept : kept[n] = f[k]
    <2>1. kept = InOrder(f)
      BY DEF f, Keeping
    <2>2. DOMAIN f \in SUBSET Int /\ IsFiniteSet(DOMAIN f)
      BY <1>1, <1>2
    <2>3. /\ InOrder(f) \in Seq(Members(f)) /\ IsList(InOrder(f))
          /\ \A n \in DOMAIN InOrder(f) :
               \E k \in DOMAIN f : PlacesBefore(DOMAIN f, k) = n - 1 /\ InOrder(f)[n] = f[k]
          /\ \A k \in DOMAIN f : \E n \in DOMAIN InOrder(f) : InOrder(f)[n] = f[k]
      BY <2>2, InOrderIs
    <2>4. \A n \in DOMAIN kept : \E k \in at : kept[n] = f[k]
      BY <1>2, <2>1, <2>3, Zenon
    <2>5. \A k \in at : \E n \in DOMAIN kept : kept[n] = f[k]
      BY <1>2, <2>1, <2>3, Zenon
    <2> QED BY <2>1, <2>3, <2>4, <2>5
  <1>4. at = {} => Members(f) = {}
    BY <1>2 DEF Members
  <1>5. at = {} => kept = <<>>
    BY <1>3, <1>4
  <1>6. /\ \A n \in DOMAIN kept : \E k \in at : kept[n] = eps[k]
        /\ \A k \in at : \E n \in DOMAIN kept : kept[n] = eps[k]
    <2>1. ASSUME NEW n \in DOMAIN kept
          PROVE  \E k \in at : kept[n] = eps[k]
      <3>1. PICK k \in at : kept[n] = f[k]
        BY <1>3
      <3> QED BY <1>2, <3>1
    <2>2. ASSUME NEW k \in at
          PROVE  \E n \in DOMAIN kept : kept[n] = eps[k]
      <3>1. PICK n \in DOMAIN kept : kept[n] = f[k]
        BY <1>3
      <3> QED BY <1>2, <3>1
    <2> QED BY <2>1, <2>2
  <1>7. EndpointsOK(kept)
    BY <1>3, <1>6 DEF EndpointsOK
  <1> QED BY <1>5, <1>6, <1>7

Joined(s, t) == s \o t

LEMMA JoinedOK ==
  ASSUME NEW s, EndpointsOK(s), NEW t, EndpointsOK(t)
  PROVE  /\ EndpointsOK(Joined(s, t)) /\ (t = <<>> => Joined(s, t) = s)
         /\ \A k \in DOMAIN t : \E n \in DOMAIN Joined(s, t) : Joined(s, t)[n] = t[k]
  <1> DEFINE S == Members(s) \cup Members(t)
  <1>1. /\ Len(s) \in Nat /\ s = [k \in 1..Len(s) |-> s[k]] /\ DOMAIN s = 1..Len(s)
        /\ Len(t) \in Nat /\ t = [k \in 1..Len(t) |-> t[k]] /\ DOMAIN t = 1..Len(t)
    BY DEF EndpointsOK, IsList
  <1>2. \A k \in DOMAIN s : s[k] \in S
    BY DEF Members
  <1>3. \A k \in DOMAIN t : t[k] \in S
    BY DEF Members
  <1>4. \A e \in S : EndpointOK(e)
    BY DEF Members, EndpointsOK
  <1> HIDE DEF S
  <1>5. s \in Seq(S) /\ t \in Seq(S)
    BY <1>1, <1>2, <1>3
  <1>6. s \o t \in Seq(S)
    BY <1>5
  <1>7. IsList(s \o t) /\ \A k \in DOMAIN (s \o t) : (s \o t)[k] \in S
    BY <1>6, SeqIsList
  <1>8. EndpointsOK(s \o t)
    BY <1>4, <1>7 DEF EndpointsOK
  <1>9. t = <<>> => s \o t = s
    BY <1>5
  <1>10. ASSUME NEW k \in DOMAIN t
         PROVE  \E n \in DOMAIN (s \o t) : (s \o t)[n] = t[k]
    <2>1. Len(s) + k \in DOMAIN (s \o t) /\ (s \o t)[Len(s) + k] = t[k]
      BY <1>1, <1>5
    <2> QED BY <2>1
  <1> QED BY <1>8, <1>9, <1>10 DEF Joined

LEMMA FieldsOK ==
  ASSUME NEW ep, EndpointOK(ep), ep.protocol = "radius", NEW w, NEW e, e = applyRADIUSFields(ep, w)
  PROVE  EndpointOK(e) /\ e.protocol = "radius"
  <1>1. \E l, m, s, n :
          e = [id |-> ep.id, protocol |-> ep.protocol, transport |-> ep.transport, roles |-> ep.roles,
               secret |-> ep.secret, life |-> l, block |-> [methods |-> m, status |-> s, knobs |-> n]]
    BY DEF applyRADIUSFields, EndpointOK
  <1>2. /\ e = [id |-> e.id, protocol |-> e.protocol, transport |-> e.transport, roles |-> e.roles,
                secret |-> e.secret, life |-> e.life, block |-> e.block]
        /\ e.protocol = ep.protocol /\ e.roles = ep.roles
    BY <1>1
  <1>3. SettingsOK(e.block)
    BY <1>1 DEF SettingsOK
  <1> QED BY <1>2, <1>3 DEF EndpointOK

LEMMA DefaultOK ==
  ASSUME NEW roles, IsList(roles), NoRepeat(roles), NEW e, e = defaultRADIUSEndpoint(roles)
  PROVE  EndpointOK(e) /\ e.protocol = "radius"
  <1>1. \E m, s :
          e = [id |-> "radius-udp", protocol |-> "radius", transport |-> "udp", roles |-> roles,
               secret |-> None, life |-> None, block |-> [methods |-> m, status |-> s, knobs |-> "default"]]
    BY DEF defaultRADIUSEndpoint
  <1>2. /\ e = [id |-> e.id, protocol |-> e.protocol, transport |-> e.transport, roles |-> e.roles,
                secret |-> e.secret, life |-> e.life, block |-> e.block]
        /\ e.protocol = "radius" /\ e.roles = roles
    BY <1>1
  <1>3. SettingsOK(e.block)
    BY <1>1 DEF SettingsOK
  <1> QED BY <1>2, <1>3 DEF EndpointOK

LEMMA ReplacedOK ==
  ASSUME NEW eps, EndpointsOK(eps), NEW k \in DOMAIN eps, NEW e, EndpointOK(e)
  PROVE  EndpointsOK([eps EXCEPT ![k] = e])
  <1> DEFINE f == [eps EXCEPT ![k] = e]
  <1>1. eps = [i \in DOMAIN eps |-> eps[i]] /\ IsList(eps)
    BY DEF EndpointsOK, IsList
  <1>2. f = [i \in DOMAIN eps |-> IF i = k THEN e ELSE eps[i]]
    BY <1>1
  <1> HIDE DEF f
  <1>3. IsList(f) /\ DOMAIN f = DOMAIN eps
    BY <1>1, <1>2, FunctionIsList
  <1>4. \A i \in DOMAIN f : EndpointOK(f[i])
    BY <1>2, <1>3 DEF EndpointsOK
  <1> QED BY <1>3, <1>4 DEF EndpointsOK, f

(* The RADIUS view of a request.                                           *)
LEMMA RadiusFlattenOK ==
  ASSUME NEW c, ClientOK(c), NEW w, IsList(w.roles), NEW d \in applyRADIUSFlatten(c, w)
  PROVE  ClientOK(d)
  <1> DEFINE udp == UdpIndex(c.endpoints)
  <1> DEFINE k == CHOOSE i \in udp : TRUE
  <1> DEFINE roles == IF w.roles # <<>> THEN Distinct(w.roles)
                      ELSE IF udp # {} THEN c.endpoints[k].roles ELSE <<"access", "accounting">>
  <1> DEFINE before == IF c.endpoints = <<>> THEN synthesizeTACACSEndpoints(c) ELSE c.endpoints
  <1>1. \/ d = [c EXCEPT !.endpoints = Filtered(c.endpoints, NotUdp)]
        \/ udp # {} /\ d = [c EXCEPT !.endpoints[k] = applyRADIUSFields([@ EXCEPT !.roles = roles], w)]
        \/ d = c
        \/ d = [c EXCEPT !.endpoints = Append(before, applyRADIUSFields(defaultRADIUSEndpoint(roles), w))]
    BY DEF applyRADIUSFlatten
  <1>2. c.transports \in Seq(Transports) /\ PolicyOK(c.policy) /\ EndpointsOK(c.endpoints)
    BY DEF ClientOK
  <1>3. udp # {} => k \in DOMAIN c.endpoints /\ c.endpoints[k].protocol = "radius" /\ EndpointOK(c.endpoints[k])
    BY <1>2 DEF UdpIndex, On, EndpointsOK
  <1>4. IsList(roles) /\ NoRepeat(roles)
    BY <1>3, RolesOK, RadiusRolesOK DEF EndpointOK
  <1>5. EndpointsOK(before)
    BY <1>2, Synthesizes
  <1> HIDE DEF udp, k, roles, before
  <1>6. CASE d = [c EXCEPT !.endpoints = Filtered(c.endpoints, NotUdp)]
    <2> DEFINE at == {j \in DOMAIN c.endpoints : NotUdp(c.endpoints[j])}
    <2>1. Filtered(c.endpoints, NotUdp) = Keeping(c.endpoints, at)
      BY DEF Filtered, Keeping
    <2>2. at \in SUBSET DOMAIN c.endpoints
      OBVIOUS
    <2> HIDE DEF at
    <2>3. EndpointsOK(Filtered(c.endpoints, NotUdp))
      BY <1>2, <2>1, <2>2, KeptOK
    <2> QED BY <1>6, <2>3, WithEndpoints
  <1>7. CASE udp # {} /\ d = [c EXCEPT !.endpoints[k] = applyRADIUSFields([@ EXCEPT !.roles = roles], w)]
    <2> DEFINE ep == [c.endpoints[k] EXCEPT !.roles = roles]
    <2> DEFINE e == applyRADIUSFields(ep, w)
    <2>1. /\ ep = [id |-> ep.id, protocol |-> ep.protocol, transport |-> ep.transport, roles |-> ep.roles,
                   secret |-> ep.secret, life |-> ep.life, block |-> ep.block]
          /\ ep.protocol = "radius" /\ ep.roles = roles /\ ep.block = c.endpoints[k].block
      BY <1>3, <1>7 DEF EndpointOK
    <2>2. SettingsOK(ep.block)
      BY <1>3, <1>7, <2>1 DEF EndpointOK
    <2> HIDE DEF ep
    <2>3. EndpointOK(ep)
      BY <1>4, <2>1, <2>2 DEF EndpointOK
    <2>4. EndpointOK(e)
      BY <2>1, <2>3, FieldsOK
    <2>5. d = [c EXCEPT !.endpoints = [c.endpoints EXCEPT ![k] = e]]
      BY <1>7 DEF ep
    <2> HIDE DEF e
    <2>6. EndpointsOK([c.endpoints EXCEPT ![k] = e])
      BY <1>2, <1>3, <1>7, <2>4, ReplacedOK
    <2> QED BY <2>5, <2>6, WithEndpoints
  <1>8. CASE d = [c EXCEPT !.endpoints = Append(before, applyRADIUSFields(defaultRADIUSEndpoint(roles), w))]
    <2> DEFINE e == applyRADIUSFields(defaultRADIUSEndpoint(roles), w)
    <2>1. EndpointOK(e)
      BY <1>4, DefaultOK, FieldsOK
    <2>2. d = [c EXCEPT !.endpoints = Append(before, e)]
      BY <1>8
    <2> HIDE DEF e
    <2>3. <<e>> \in Seq({e}) /\ DOMAIN <<e>> = {1} /\ <<e>>[1] = e
      OBVIOUS
    <2>4. EndpointsOK(<<e>>)
      BY <2>1, <2>3, SeqIsList DEF EndpointsOK
    <2>5. EndpointsOK(Joined(before, <<e>>))
      BY <1>5, <2>4, JoinedOK
    <2>6. Append(before, e) = before \o <<e>>
      <3>1. before \in Seq(Members(before))
        BY <1>5 DEF EndpointsOK, IsList, Members
      <3>2. before \in Seq(Members(before) \cup {e})
        BY <3>1
      <3> QED BY <3>2
    <2>7. EndpointsOK(Append(before, e))
      BY <2>5, <2>6 DEF Joined
    <2> QED BY <2>2, <2>7, WithEndpoints
  <1> QED BY <1>1, <1>6, <1>7, <1>8

(* A flatten update makes the TACACS+ endpoints anew and keeps the others. *)
LEMMA RebuiltOK ==
  ASSUME NEW c, ClientOK(c), NEW d, d = rebuildTACACSEndpointsFromFlatten(c)
  PROVE  ClientOK(d) /\ (HasRADIUSEndpoint(d) \/ d.endpoints = synthesizeTACACSEndpoints(d))
  <1> DEFINE eps == c.endpoints
  <1> DEFINE at == {j \in DOMAIN eps : IsRadius(eps[j])}
  <1> DEFINE kept == Filtered(eps, IsRadius)
  <1> DEFINE syn == synthesizeTACACSEndpoints(c)
  <1>1. c.transports \in Seq(Transports) /\ PolicyOK(c.policy) /\ EndpointsOK(eps)
    BY DEF ClientOK
  <1>2. kept = Keeping(eps, at)
    BY DEF Filtered, Keeping
  <1>3. d = [c EXCEPT !.endpoints = syn \o kept]
    BY DEF rebuildTACACSEndpointsFromFlatten
  <1>4. at \in SUBSET DOMAIN eps /\ \A k \in at : IsRadius(eps[k])
    OBVIOUS
  <1>5. EndpointsOK(syn)
    BY <1>1, Synthesizes
  <1> HIDE DEF kept, at, syn, eps
  <1>6. /\ EndpointsOK(kept)
        /\ \A n \in DOMAIN kept : \E k \in at : kept[n] = eps[k]
        /\ \A k \in at : \E n \in DOMAIN kept : kept[n] = eps[k]
        /\ at = {} => kept = <<>>
    BY <1>1, <1>2, <1>4, KeptOK
  <1> DEFINE new == Joined(syn, kept)
  <1>7. d = [c EXCEPT !.endpoints = new]
    BY <1>3 DEF Joined
  <1> HIDE DEF new
  <1>8. /\ EndpointsOK(new) /\ (kept = <<>> => new = syn)
        /\ \A k \in DOMAIN kept : \E n \in DOMAIN new : new[n] = kept[k]
    <2>1. EndpointsOK(kept)
      BY <1>6
    <2> QED BY <1>5, <2>1, JoinedOK DEF new
  <1>9. ClientOK(d) /\ d.endpoints = new /\ d.transports = c.transports /\ d.secret = c.secret
        /\ d.life = c.life /\ d.policy = c.policy
    <2>1. EndpointsOK(new) /\ d = [c EXCEPT !.endpoints = new]
      BY <1>8, <1>7
    <2>2. /\ ClientOK([c EXCEPT !.endpoints = new])
          /\ [c EXCEPT !.endpoints = new]
             = [id |-> c.id, mode |-> c.mode, cidrs |-> c.cidrs, transports |-> c.transports, secret |-> c.secret,
                life |-> c.life, policy |-> c.policy, endpoints |-> new]
      BY <2>1, WithEndpoints
    <2>3. /\ ClientOK(d)
          /\ d = [id |-> c.id, mode |-> c.mode, cidrs |-> c.cidrs, transports |-> c.transports, secret |-> c.secret,
                  life |-> c.life, policy |-> c.policy, endpoints |-> new]
      BY <2>1, <2>2
    <2> QED BY <2>3
  <1>10. CASE at = {}
    <2>1. d.endpoints = syn
      BY <1>6, <1>8, <1>9, <1>10
    <2>2. synthesizeTACACSEndpoints(d) = syn
      BY <1>9 DEF synthesizeTACACSEndpoints, synthesizeTACACSEndpoint, syn
    <2> QED BY <1>9, <2>1, <2>2
  <1>11. CASE at # {}
    <2>1. PICK k \in at : TRUE
      BY <1>11
    <2>2. PICK m \in DOMAIN kept : kept[m] = eps[k]
      BY <1>6
    <2>3. PICK n \in DOMAIN new : new[n] = kept[m]
      BY <1>8
    <2>4. n \in DOMAIN d.endpoints /\ IsRadius(d.endpoints[n])
      BY <1>4, <1>9, <2>2, <2>3
    <2> QED BY <1>9, <2>4 DEF HasRADIUSEndpoint
  <1> QED BY <1>10, <1>11

(* The secret of the RADIUS view.                                          *)
LEMMA SecretOK ==
  ASSUME NEW c, ClientOK(c), NEW secret, NEW d \in applyRADIUSSecretPatch(c, secret)
  PROVE  ClientOK(d) /\ (HasRADIUSEndpoint(d) \/ d = c)
  <1> DEFINE udp == UdpIndex(c.endpoints)
  <1> DEFINE k == CHOOSE i \in udp : TRUE
  <1>1. d = c \/ (udp # {} /\ d = [c EXCEPT !.endpoints[k].secret = OrElse(secret, None)])
    BY DEF applyRADIUSSecretPatch
  <1>2. EndpointsOK(c.endpoints)
    BY DEF ClientOK
  <1>3. udp # {} => k \in DOMAIN c.endpoints /\ c.endpoints[k].protocol = "radius" /\ EndpointOK(c.endpoints[k])
    BY <1>2 DEF UdpIndex, On, EndpointsOK
  <1> HIDE DEF udp, k
  <1>4. CASE udp # {} /\ d = [c EXCEPT !.endpoints[k].secret = OrElse(secret, None)]
    <2> DEFINE ep == c.endpoints[k]
    <2> DEFINE e == [ep EXCEPT !.secret = OrElse(secret, None)]
    <2>1. /\ e = [id |-> e.id, protocol |-> e.protocol, transport |-> e.transport, roles |-> e.roles,
                  secret |-> e.secret, life |-> e.life, block |-> e.block]
          /\ e.protocol = ep.protocol /\ e.roles = ep.roles /\ e.block = ep.block
      BY <1>3, <1>4 DEF EndpointOK
    <2>2. d = [c EXCEPT !.endpoints = [c.endpoints EXCEPT ![k] = e]]
      BY <1>4
    <2> HIDE DEF e
    <2>3. EndpointOK(e) /\ e.protocol = "radius"
      BY <1>3, <1>4, <2>1 DEF EndpointOK
    <2> DEFINE eps == [c.endpoints EXCEPT ![k] = e]
    <2>4. EndpointsOK(eps)
      BY <1>2, <1>3, <1>4, <2>3, ReplacedOK
    <2>5. k \in DOMAIN eps /\ eps[k] = e
      BY <1>3, <1>4
    <2>6. d = [c EXCEPT !.endpoints = eps]
      BY <2>2
    <2> HIDE DEF eps
    <2>7. /\ ClientOK([c EXCEPT !.endpoints = eps])
          /\ [c EXCEPT !.endpoints = eps]
             = [id |-> c.id, mode |-> c.mode, cidrs |-> c.cidrs, transports |-> c.transports, secret |-> c.secret,
                life |-> c.life, policy |-> c.policy, endpoints |-> eps]
      BY <2>4, WithEndpoints
    <2>8. ClientOK(d) /\ d.endpoints = eps
      BY <2>6, <2>7
    <2> QED BY <2>3, <2>5, <2>8 DEF HasRADIUSEndpoint, IsRadius
  <1> QED BY <1>1, <1>4

(* What an endpoint written without a secret keeps.                        *)
LEMMA RetainedOK ==
  ASSUME NEW prev, NEW eps, EndpointsOK(eps), NEW r, r = retainOmittedEndpointSecrets(prev, eps)
  PROVE  EndpointsOK(r)
  <1> DEFINE from(ep) == RetainedFrom(prev.endpoints, ep)
  <1> DEFINE retained(ep) == IF ep.secret = None /\ from(ep) # {}
                             THEN [ep EXCEPT !.secret = prev.endpoints[Latest(from(ep))].secret] ELSE ep
  <1>1. r = [k \in DOMAIN eps |-> retained(eps[k])]
    BY DEF retainOmittedEndpointSecrets, Each
  <1>2. ASSUME NEW ep, EndpointOK(ep)
        PROVE  EndpointOK(retained(ep))
    <2>1. ASSUME NEW s, NEW e, e = [ep EXCEPT !.secret = s]
          PROVE  EndpointOK(e)
      <3>1. /\ e = [id |-> e.id, protocol |-> e.protocol, transport |-> e.transport, roles |-> e.roles,
                    secret |-> e.secret, life |-> e.life, block |-> e.block]
            /\ e.protocol = ep.protocol /\ e.roles = ep.roles /\ e.block = ep.block
        BY <1>2, <2>1 DEF EndpointOK
      <3> QED BY <1>2, <3>1 DEF EndpointOK
    <2> HIDE DEF from
    <2> QED BY <1>2, <2>1
  <1> HIDE DEF retained
  <1>3. IsList(r) /\ DOMAIN r = DOMAIN eps
    BY <1>1, FunctionIsList DEF EndpointsOK
  <1>4. \A k \in DOMAIN r : EndpointOK(r[k])
    BY <1>1, <1>2, <1>3 DEF EndpointsOK
  <1> QED BY <1>3, <1>4 DEF EndpointsOK

(* The endpoints of a request, projected on the flatten fields.            *)
Matches(c) == projectionMatchesClient(c, projectTACACS(c.endpoints))

LEMMA EndpointsPatchedOK ==
  ASSUME NEW cur, NEW c, ClientOK(c), NEW w, WriteOK(w), w.endpoints # {}, NEW d \in EndpointsPatched(cur, c, w)
  PROVE  ClientOK(d) /\ (Matches(d) \/ d.transports = <<>>)
  <1> DEFINE ws == OrElse(w.endpoints, <<>>)
  <1>1. PICK eps \in clientEndpointsFromView(ws) :
          d = applyTACACSProjection([c EXCEPT !.endpoints = retainOmittedEndpointSecrets(cur, eps)])
    BY DEF EndpointsPatched
  <1>2. ws \in w.endpoints
    BY Options
  <1>3. EndpointList(ws)
    BY <1>2 DEF WriteOK
  <1> HIDE DEF ws
  <1>4. eps = [k \in DOMAIN ws |-> clientEndpointFromWrite(ws[k])]
    BY DEF clientEndpointsFromView, Each
  <1>5. IsList(eps) /\ DOMAIN eps = DOMAIN ws
    BY <1>3, <1>4, FunctionIsList DEF EndpointList
  <1>6. \A k \in DOMAIN eps : EndpointOK(eps[k])
    BY <1>3, <1>4, <1>5, WrittenEndpoint DEF EndpointList
  <1> DEFINE r == retainOmittedEndpointSecrets(cur, eps)
  <1>7. EndpointsOK(r)
    BY <1>5, <1>6, RetainedOK DEF EndpointsOK
  <1> DEFINE e == [c EXCEPT !.endpoints = r]
  <1>8. d = applyTACACSProjection(e)
    BY <1>1
  <1> HIDE DEF r
  <1>9. ClientOK(e)
    BY <1>7, WithEndpoints
  <1> HIDE DEF e
  <1>10. ClientOK(d) /\ d.endpoints = e.endpoints
         /\ (projectTACACS(e.endpoints).have => projectionMatchesClient(d, projectTACACS(e.endpoints)))
         /\ (~projectTACACS(e.endpoints).have => d.transports = <<>>)
    BY <1>8, <1>9, Projected
  <1> QED BY <1>10 DEF Matches

(* What a request gives is a client, and its two forms agree or it is for  *)
(* validation to see that they do.                                         *)
LEMMA PatchedOK ==
  ASSUME NEW cur, ClientOK(cur), NEW w, WriteOK(w), NEW c \in applyClientPatch(cur, w)
  PROVE  /\ ClientOK(c)
         /\ HasRADIUSEndpoint(c) \/ Matches(c) \/ c.transports = <<>> \/ c.endpoints = synthesizeTACACSEndpoints(c)
  <1> DEFINE secret == IF w.radius = {} THEN {} ELSE OrElse(w.radius, {}).secret
  <1>1. PICK b \in FlattenPatched(cur, w) :
          \E d \in IF w.endpoints # {} THEN EndpointsPatched(cur, b, w)
                   ELSE {rebuildTACACSEndpointsFromFlatten(e) :
                           e \in IF w.radius = {} THEN {b} ELSE applyRADIUSFlatten(b, OrElse(w.radius, {}))} :
            c \in applyRADIUSSecretPatch(d, secret)
    BY DEF applyClientPatch
  <1> HIDE DEF secret
  <1>2. ClientOK(b)
    BY FlattenOK
  <1>3. CASE w.endpoints # {}
    <2>1. PICK d \in EndpointsPatched(cur, b, w) : c \in applyRADIUSSecretPatch(d, secret)
      BY <1>1, <1>3
    <2>2. ClientOK(d) /\ (Matches(d) \/ d.transports = <<>>)
      BY <1>2, <1>3, EndpointsPatchedOK
    <2>3. ClientOK(c) /\ (HasRADIUSEndpoint(c) \/ c = d)
      BY <2>1, <2>2, SecretOK
    <2> QED BY <2>2, <2>3
  <1>4. CASE w.endpoints = {}
    <2>1. PICK e \in IF w.radius = {} THEN {b} ELSE applyRADIUSFlatten(b, OrElse(w.radius, {})) :
            c \in applyRADIUSSecretPatch(rebuildTACACSEndpointsFromFlatten(e), secret)
      BY <1>1, <1>4
    <2>2. ClientOK(e)
      <3>1. CASE w.radius = {}
        BY <1>2, <2>1, <3>1
      <3>2. CASE w.radius # {}
        <4>1. OrElse(w.radius, {}) \in w.radius
          BY <3>2, Options
        <4>2. IsList(OrElse(w.radius, {}).roles)
          BY <4>1 DEF WriteOK
        <4>3. e \in applyRADIUSFlatten(b, OrElse(w.radius, {}))
          BY <2>1, <3>2
        <4> QED BY <1>2, <4>2, <4>3, RadiusFlattenOK
      <3> QED BY <3>1, <3>2
    <2> DEFINE d == rebuildTACACSEndpointsFromFlatten(e)
    <2>3. ClientOK(d) /\ (HasRADIUSEndpoint(d) \/ d.endpoints = synthesizeTACACSEndpoints(d))
      BY <2>2, RebuiltOK
    <2>4. c \in applyRADIUSSecretPatch(d, secret)
      BY <2>1
    <2> HIDE DEF d
    <2>5. ClientOK(c) /\ (HasRADIUSEndpoint(c) \/ c = d)
      BY <2>3, <2>4, SecretOK
    <2> QED BY <2>3, <2>5
  <1> QED BY <1>3, <1>4

LEMMA CreatedOK == ClientOK(clientFromCreate)
  <1> DEFINE c == clientFromCreate
  <1>1. /\ c = [id |-> c.id, mode |-> c.mode, cidrs |-> c.cidrs, transports |-> c.transports, secret |-> c.secret,
                life |-> c.life, policy |-> c.policy, endpoints |-> c.endpoints]
        /\ c.transports = <<>> /\ c.endpoints = <<>>
    BY DEF clientFromCreate
  <1>2. PolicyOK(c.policy)
    BY DEF clientFromCreate, PolicyOK
  <1>3. <<>> \in Seq(Transports)
    OBVIOUS
  <1> HIDE DEF c
  <1>4. ClientOK(c)
    BY <1>1, <1>2, <1>3, EmptyList DEF ClientOK
  <1> QED BY <1>4 DEF c

(* What validation adds.                                                   *)
LEMMA ValidAgrees ==
  ASSUME NEW c, ClientOK(c), Valid(c)
  PROVE  /\ HasRADIUSEndpoint(c) => Matches(c)
         /\ ~HasRADIUSEndpoint(c) => c.transports # <<>>
  <1>1. CASE HasRADIUSEndpoint(c)
    <2>1. validateClient(c)
      BY <1>1 DEF Valid, Synthesized
    <2>2. {k \in DOMAIN c.endpoints : IsRadius(c.endpoints[k])} # {}
      BY <1>1 DEF HasRADIUSEndpoint
    <2> QED BY <1>1, <2>1, <2>2 DEF validateClient, Matches
  <1>2. CASE ~HasRADIUSEndpoint(c)
    <2> DEFINE syn == synthesizeTACACSEndpoints(c)
    <2> DEFINE d == [c EXCEPT !.endpoints = syn]
    <2>1. validateClient(d)
      BY <1>2 DEF Valid, Synthesized
    <2>2. EndpointsOK(syn) /\ \A k \in DOMAIN syn : syn[k].protocol = "tacacs"
      BY Synthesizes DEF ClientOK
    <2> HIDE DEF syn
    <2>3. d.endpoints = syn /\ d.transports = c.transports
      BY <2>2, WithEndpoints
    <2> HIDE DEF d
    <2>4. {k \in DOMAIN d.endpoints : IsRadius(d.endpoints[k])} = {}
      BY <2>2, <2>3 DEF IsRadius
    <2>5. d.transports # <<>>
      BY <2>1, <2>4 DEF validateClient
    <2> QED BY <1>2, <2>3, <2>5
  <1> QED BY <1>1, <1>2

CeInv == client # NoClient => ClientOK(client) /\ Agrees(client)

LEMMA CeInductive ==
  ASSUME CeInv, [CeNext]_client
  PROVE  CeInv'
  <1>1. ASSUME NEW raw \in RawClients, Load(raw)
        PROVE  ClientOK(client') /\ Agrees(client')
    <2>1. PICK c \in normalizeClientsV2(raw) : Valid(c) /\ client' = Synthesized(c)
      BY <1>1 DEF Load
    <2>2. ClientOK(c)
      BY LoadedOK
    <2>3. CASE HasRADIUSEndpoint(c)
      <3>1. client' = c
        BY <2>1, <2>3 DEF Synthesized
      <3>2. Matches(c)
        BY <2>1, <2>2, <2>3, ValidAgrees
      <3>3. Agrees(c)
        BY <2>2, <3>2, MatchAgrees DEF Matches
      <3> QED BY <2>2, <3>1, <3>3
    <2>4. CASE ~HasRADIUSEndpoint(c)
      <3> DEFINE syn == synthesizeTACACSEndpoints(c)
      <3> DEFINE d == [c EXCEPT !.endpoints = syn]
      <3>1. client' = d
        BY <2>1, <2>4 DEF Synthesized
      <3>2. EndpointsOK(syn)
        BY <2>2, Synthesizes DEF ClientOK
      <3>3. c.transports # <<>>
        BY <2>1, <2>2, <2>4, ValidAgrees
      <3>4. /\ ClientOK(d)
            /\ d = [id |-> c.id, mode |-> c.mode, cidrs |-> c.cidrs, transports |-> c.transports,
                    secret |-> c.secret, life |-> c.life, policy |-> c.policy, endpoints |-> syn]
        <4> HIDE DEF syn
        <4> QED BY <2>2, <3>2, WithEndpoints
      <3> HIDE DEF d, syn
      <3>5. /\ d.transports = c.transports /\ d.secret = c.secret /\ d.life = c.life /\ d.policy = c.policy
            /\ d.endpoints = syn
        BY <3>4
      <3>6. synthesizeTACACSEndpoints(d) = syn
        BY <3>5 DEF synthesizeTACACSEndpoints, synthesizeTACACSEndpoint, syn
      <3>7. Agrees(d)
        BY <3>3, <3>4, <3>5, <3>6, SynthesizedAgrees
      <3> QED BY <3>1, <3>4, <3>7
    <2> QED BY <2>3, <2>4
  <1>2. ASSUME NEW cur, ClientOK(cur), NEW w \in Writes, NEW c \in applyClientPatch(cur, w), Valid(c)
        PROVE  ClientOK(c) /\ Agrees(c)
    <2>1. WriteOK(w)
      BY EndpointsAssumption
    <2>2. /\ ClientOK(c)
          /\ HasRADIUSEndpoint(c) \/ Matches(c) \/ c.transports = <<>> \/ c.endpoints = synthesizeTACACSEndpoints(c)
      BY <1>2, <2>1, PatchedOK
    <2>3. /\ HasRADIUSEndpoint(c) => Matches(c)
          /\ ~HasRADIUSEndpoint(c) => c.transports # <<>>
      BY <1>2, <2>2, ValidAgrees
    <2>4. CASE Matches(c)
      BY <2>2, <2>4, MatchAgrees DEF Matches
    <2>5. CASE c.endpoints = synthesizeTACACSEndpoints(c) /\ c.transports # <<>>
      BY <2>2, <2>5, SynthesizedAgrees
    <2> QED BY <2>2, <2>3, <2>4, <2>5
  <1>3. ASSUME NEW w \in Writes, Create(w)
        PROVE  ClientOK(client') /\ Agrees(client')
    <2>1. PICK c \in applyClientPatch(clientFromCreate, w) : Valid(c) /\ client' = c
      BY <1>3 DEF Create
    <2> QED BY <1>2, <2>1, CreatedOK
  <1>4. ASSUME NEW w \in Writes, Update(w)
        PROVE  ClientOK(client') /\ Agrees(client')
    <2>1. PICK c \in applyClientPatch(client, w) : Valid(c) /\ client' = c
      BY <1>4 DEF Update
    <2>2. ClientOK(client)
      BY <1>4 DEF Update, CeInv
    <2> QED BY <1>2, <2>1, <2>2
  <1>5. CASE UNCHANGED client
    BY <1>5 DEF CeInv, Agrees, ClientOK, NoClient
  <1> QED BY <1>1, <1>3, <1>4, <1>5 DEF CeNext, CeInv

(* The inductive invariant of the two forms: the client has the shape the  *)
(* methods expect, and what its listeners use of the flatten fields is     *)
(* what its endpoints project to (normalizeClientsV2, applyClientPatch and *)
(* validateClient together).                                               *)
THEOREM FormsInductive == CeSpec => []CeInv
  <1>1. CeInit => CeInv
    BY DEF CeInit, CeInv
  <1>2. CeInv /\ [CeNext]_client => CeInv'
    BY CeInductive
  <1> QED BY <1>1, <1>2, PTL DEF CeSpec

(* For any files and requests, in any order, the flatten form that TACACS+ *)
(* listeners and policy read and the endpoints that clients.get shows tell *)
(* the same: rebuildTACACSEndpointsFromFlatten after a flatten update,     *)
(* applyTACACSProjection after one of the endpoints, and validateClient    *)
(* where there is RADIUS, leave no way for them to part.                   *)
THEOREM FormsAgree == CeSpec => []ProjectionHolds
  <1>1. CeInv => ProjectionHolds
    BY DEF CeInv, Agrees, ProjectionHolds
  <1> QED BY <1>1, FormsInductive, PTL

-----------------------------------------------------------------------------
(* Writing back what was read.                                             *)

Untied(ep) ==
  [id |-> ep.id, protocol |-> ep.protocol, transport |-> ep.transport, roles |-> ep.roles,
   secret |-> None, life |-> None, block |-> ep.block]
Unrotated(ep) ==
  [id |-> ep.id, protocol |-> ep.protocol, transport |-> ep.transport, roles |-> ep.roles,
   secret |-> ep.secret, life |-> None, block |-> ep.block]

(* An endpoint that is read and written back loses its secret and its      *)
(* rotation data and nothing else.                                         *)
LEMMA EchoedEndpoint ==
  ASSUME NEW ep, EndpointOK(ep), IsRadius(ep) /\ Lists(ep.roles, "access") => ep.block.methods # {},
         NEW v, v = clientEndpointView(ep), NEW e, e = clientEndpointFromWrite(v)
  PROVE  e = Untied(ep)
  <1>1. Distinct(ep.roles) = ep.roles
    BY DistinctSame DEF EndpointOK
  <1>2. /\ v.id = ep.id /\ v.protocol = ep.protocol /\ v.transport = ep.transport /\ v.roles = ep.roles
        /\ v.block = {IF IsTacacs(ep)
                      THEN [secret |-> {}, life |-> {}, methods |-> ep.block.methods, service |-> ep.block.service,
                            groups |-> ep.block.groups, acct |-> {ep.block.acct}]
                      ELSE [secret |-> {}, life |-> {}, methods |-> ep.block.methods, status |-> ep.block.status,
                            knobs |-> {ep.block.knobs}]}
    BY DEF clientEndpointView
  <1>3. \A d : OrElse({} \ {"clear"}, d) = d /\ OrElse({}, d) = d
    BY Options
  <1>4. CASE ep.protocol = "tacacs"
    <2> DEFINE b == [secret |-> {}, life |-> {}, methods |-> ep.block.methods, service |-> ep.block.service,
                     groups |-> ep.block.groups, acct |-> {ep.block.acct}]
    <2> DEFINE d == [secret |-> {}, life |-> {}, methods |-> {}, service |-> None, groups |-> {}, acct |-> {}]
    <2>1. v.block = {b}
      BY <1>2, <1>4 DEF IsTacacs
    <2>2. OrElse(v.block, d) = b
      <3> HIDE DEF b, d
      <3> QED BY <2>1, Options
    <2>3. OrElse({ep.block.acct}, "off") = ep.block.acct
      BY Options
    <2> DEFINE n == tacacsEndpointFromWrite(v)
    <2>4. n = [secret |-> OrElse(b.secret \ {"clear"}, None), life |-> OrElse(b.life, None),
               block |-> [methods |-> b.methods, service |-> b.service, groups |-> b.groups,
                          acct |-> OrElse(b.acct, "off")]]
      BY <2>2 DEF tacacsEndpointFromWrite
    <2>5. ep.block = [methods |-> ep.block.methods, service |-> ep.block.service, groups |-> ep.block.groups,
                      acct |-> ep.block.acct]
      BY <1>4 DEF EndpointOK, PolicyOK
    <2>6. n.secret = None /\ n.life = None
      BY <1>3, <2>4
    <2>7. n.block = ep.block
      BY <2>3, <2>4, <2>5
    <2>8. e = [id |-> v.id, protocol |-> v.protocol, transport |-> v.transport, roles |-> Distinct(v.roles),
               secret |-> n.secret, life |-> n.life, block |-> n.block]
      BY <1>2, <1>4 DEF clientEndpointFromWrite, IsTacacs
    <2> HIDE DEF n
    <2> QED BY <1>1, <1>2, <2>6, <2>7, <2>8 DEF Untied
  <1>5. CASE ep.protocol # "tacacs"
    <2> DEFINE b == [secret |-> {}, life |-> {}, methods |-> ep.block.methods, status |-> ep.block.status,
                     knobs |-> {ep.block.knobs}]
    <2> DEFINE d == [secret |-> {}, life |-> {}, methods |-> {}, status |-> {}, knobs |-> {}]
    <2>1. v.block = {b}
      BY <1>2, <1>5 DEF IsTacacs
    <2>2. OrElse(v.block, d) = b
      <3> HIDE DEF b, d
      <3> QED BY <2>1, Options
    <2>3. OrElse({ep.block.knobs}, "default") = ep.block.knobs
      BY Options
    <2> DEFINE n == radiusEndpointFromWrite(v)
    <2>4. n = [secret |-> OrElse(b.secret \ {"clear"}, None), life |-> OrElse(b.life, None),
               block |-> [methods |-> FillRADIUSAccessMethods(b.methods, v.roles), status |-> b.status,
                          knobs |-> OrElse(b.knobs, "default")]]
      BY <2>2 DEF radiusEndpointFromWrite
    <2>5. ep.block = [methods |-> ep.block.methods, status |-> ep.block.status, knobs |-> ep.block.knobs]
      BY <1>5 DEF EndpointOK, SettingsOK
    <2>6. n.secret = None /\ n.life = None
      BY <1>3, <2>4
    <2>7. IsRadius(ep)
      BY <1>5 DEF EndpointOK, IsRadius
    <2>8. FillRADIUSAccessMethods(ep.block.methods, v.roles) = ep.block.methods
      BY <1>2, <2>7 DEF FillRADIUSAccessMethods
    <2>9. n.block = ep.block
      BY <2>3, <2>4, <2>5, <2>8
    <2>10. e = [id |-> v.id, protocol |-> v.protocol, transport |-> v.transport, roles |-> Distinct(v.roles),
                secret |-> n.secret, life |-> n.life, block |-> n.block]
      BY <1>2, <1>5 DEF clientEndpointFromWrite, IsTacacs
    <2> HIDE DEF n
    <2> QED BY <1>1, <1>2, <2>6, <2>9, <2>10 DEF Untied
  <1> QED BY <1>4, <1>5

LEMMA WithoutLifeIs ==
  ASSUME NEW ep, EndpointOK(ep)
  PROVE  WithoutLife(ep) = Unrotated(ep) /\ WithoutLife(Unrotated(ep)) = Unrotated(ep)
  BY DEF EndpointOK, WithoutLife, Unrotated

(* Every endpoint gets its own secret back.                                *)
LEMMA EchoedEndpoints ==
  ASSUME NEW c, ClientOK(c), HasMethods(c), NEW eps \in clientEndpointsFromView(clientEndpointViews(c)),
         NEW r, r = retainOmittedEndpointSecrets(c, eps)
  PROVE  r = [k \in DOMAIN c.endpoints |-> Unrotated(c.endpoints[k])]
  <1> DEFINE E == c.endpoints
  <1> DEFINE from(ep) == RetainedFrom(E, ep)
  <1> DEFINE retained(ep) == IF ep.secret = None /\ from(ep) # {}
                             THEN [ep EXCEPT !.secret = E[Latest(from(ep))].secret] ELSE ep
  <1>1. IsList(E) /\ \A k \in DOMAIN E : EndpointOK(E[k])
    BY DEF ClientOK, EndpointsOK
  <1> DEFINE vs == clientEndpointViews(c)
  <1>2. vs = [k \in DOMAIN E |-> clientEndpointView(E[k])]
    BY DEF clientEndpointViews, Each
  <1>3. eps = [k \in DOMAIN vs |-> clientEndpointFromWrite(vs[k])] /\ DistinctIds(eps)
    BY DEF clientEndpointsFromView, Each
  <1>4. r = [k \in DOMAIN eps |-> retained(eps[k])]
    BY DEF retainOmittedEndpointSecrets, Each
  <1> HIDE DEF vs, retained, from
  <1>5. DOMAIN eps = DOMAIN E /\ \A k \in DOMAIN E : eps[k] = Untied(E[k])
    <2>1. DOMAIN eps = DOMAIN E /\ \A k \in DOMAIN E : eps[k] = clientEndpointFromWrite(clientEndpointView(E[k]))
      BY <1>2, <1>3
    <2>2. ASSUME NEW k \in DOMAIN E
          PROVE  clientEndpointFromWrite(clientEndpointView(E[k])) = Untied(E[k])
      <3>1. IsRadius(E[k]) /\ Lists(E[k].roles, "access") => E[k].block.methods # {}
        BY DEF HasMethods
      <3> QED BY <1>1, <3>1, EchoedEndpoint
    <2> QED BY <2>1, <2>2
  <1>6. ASSUME NEW k \in DOMAIN E
        PROVE  retained(eps[k]) = Unrotated(E[k])
    <2>1. /\ eps[k] = Untied(E[k]) /\ eps[k].id = E[k].id /\ eps[k].protocol = E[k].protocol
          /\ eps[k].secret = None
      BY <1>5 DEF Untied
    <2>2. ASSUME NEW j \in DOMAIN E
          PROVE  eps[j].id = E[j].id
      <3>1. eps[j] = Untied(E[j])
        BY <1>5
      <3> QED BY <3>1 DEF Untied
    <2>3. {j \in DOMAIN E : E[j].id = eps[k].id} = {k}
      BY <1>3, <1>5, <2>1, <2>2 DEF DistinctIds
    <2>4. k \in Int
      BY <1>1, ListPlaces
    <2>5. Latest({k}) = k
      BY <2>4 DEF Latest
    <2>6. from(eps[k]) = {j \in {k} : E[j].protocol = eps[k].protocol}
      BY <2>3, <2>5 DEF RetainedFrom, from
    <2>7. from(eps[k]) = {k}
      BY <2>1, <2>6
    <2>8. retained(eps[k]) = [eps[k] EXCEPT !.secret = E[k].secret]
      BY <2>1, <2>5, <2>7 DEF retained
    <2> QED BY <2>1, <2>8 DEF Untied, Unrotated
  <1> QED BY <1>4, <1>5, <1>6

(* The projection does not read rotation data, except into rotation data.  *)
LEMMA UnrotatedProjection ==
  ASSUME NEW eps, EndpointsOK(eps), NEW r, r = [k \in DOMAIN eps |-> Unrotated(eps[k])],
         NEW p, p = projectTACACS(eps), NEW q, q = projectTACACS(r)
  PROVE  /\ EndpointsOK(r) /\ Each(WithoutLife, r) = r /\ Each(WithoutLife, eps) = r
         /\ q.have = p.have /\ q.transports = p.transports /\ q.secret = p.secret /\ q.policy = p.policy
  <1>1. DOMAIN r = DOMAIN eps /\ \A k \in DOMAIN eps : r[k] = Unrotated(eps[k])
    OBVIOUS
  <1>2. IsList(eps) /\ \A k \in DOMAIN eps : EndpointOK(eps[k])
    BY DEF EndpointsOK
  <1>3. IsList(r)
    BY <1>1, <1>2, FunctionIsList
  <1>4. ASSUME NEW k \in DOMAIN eps
        PROVE  /\ EndpointOK(r[k]) /\ r[k].protocol = eps[k].protocol /\ r[k].transport = eps[k].transport
               /\ r[k].secret = eps[k].secret /\ r[k].block = eps[k].block
    <2>1. r[k] = Unrotated(eps[k])
      BY <1>1
    <2>2. EndpointOK(eps[k])
      BY <1>2
    <2>3. /\ r[k] = [id |-> r[k].id, protocol |-> r[k].protocol, transport |-> r[k].transport, roles |-> r[k].roles,
                     secret |-> r[k].secret, life |-> r[k].life, block |-> r[k].block]
          /\ r[k].protocol = eps[k].protocol /\ r[k].transport = eps[k].transport
          /\ r[k].secret = eps[k].secret /\ r[k].block = eps[k].block /\ r[k].roles = eps[k].roles
      BY <2>1 DEF Unrotated
    <2> QED BY <2>2, <2>3 DEF EndpointOK
  <1>5. EndpointsOK(r)
    BY <1>1, <1>3, <1>4 DEF EndpointsOK
  <1>6. TacacsAt(r) = TacacsAt(eps) /\ TcpAt(r) = TcpAt(eps)
    BY <1>1, <1>4 DEF TacacsAt, TcpAt
  <1>7. FlatAt(r) = FlatAt(eps)
    BY <1>6 DEF FlatAt
  <1>8. Each(WithoutLife, eps) = r
    BY <1>2, WithoutLifeIs DEF Each
  <1>9. Each(WithoutLife, r) = r
    <2>1. \A k \in DOMAIN eps : WithoutLife(r[k]) = Unrotated(eps[k])
      BY <1>1, <1>2, WithoutLifeIs
    <2> QED BY <1>1, <2>1 DEF Each
  <1> DEFINE T == TacacsAt(eps)
  <1> DEFINE C == TcpAt(eps)
  <1>10. /\ p.have = (T # {}) /\ p.transports = Distinct(FlatAt(eps))
         /\ C = {} => p.secret = None
         /\ C # {} => Latest(C) \in C /\ p.secret = eps[Latest(C)].secret
         /\ p.policy = IF T = {} THEN {} ELSE {eps[Earliest(T)].block}
         /\ T # {} => Earliest(T) \in T
    BY Projects
  <1>11. /\ q.have = (TacacsAt(r) # {}) /\ q.transports = Distinct(FlatAt(r))
         /\ TcpAt(r) = {} => q.secret = None
         /\ TcpAt(r) # {} => q.secret = r[Latest(TcpAt(r))].secret
         /\ q.policy = IF TacacsAt(r) = {} THEN {} ELSE {r[Earliest(TacacsAt(r))].block}
    <2> HIDE DEF T, C
    <2> QED BY <1>5, Projects
  <1>12. T \in SUBSET DOMAIN eps /\ C \in SUBSET DOMAIN eps
    BY DEF TacacsAt, TcpAt
  <1> HIDE DEF T, C
  <1>13. /\ q.have = (T # {}) /\ q.transports = Distinct(FlatAt(eps))
         /\ C = {} => q.secret = None
         /\ C # {} => q.secret = r[Latest(C)].secret
         /\ q.policy = IF T = {} THEN {} ELSE {r[Earliest(T)].block}
    BY <1>6, <1>7, <1>11 DEF T, C
  <1>14. q.secret = p.secret
    BY <1>4, <1>10, <1>12, <1>13
  <1>15. q.policy = p.policy
    BY <1>4, <1>10, <1>12, <1>13
  <1>16. q.have = p.have /\ q.transports = p.transports
    BY <1>10, <1>13
  <1> QED BY <1>5, <1>8, <1>9, <1>14, <1>15, <1>16

(* The flatten fields are not in the request, and stay.                    *)
LEMMA EchoedFlatten ==
  ASSUME NEW c, ClientOK(c), NEW b \in FlattenPatched(c, Echo(c))
  PROVE  b = c
  <1> DEFINE w == Echo(c)
  <1>1. /\ w.match = {} /\ w.secret = {} /\ w.life = {} /\ w.auth = {} /\ w.groups = {} /\ w.acct = {}
    BY DEF Echo
  <1> HIDE DEF w
  <1>2. b \in FlattenPatched(c, w)
    BY DEF w
  <1> DEFINE m == [transports |-> c.transports, mode |-> {c.mode}, cidrs |-> c.cidrs]
  <1> DEFINE a == [methods |-> c.policy.methods, service |-> c.policy.service]
  <1>3. OrElse(w.match, m) = m /\ OrElse(w.auth, a) = a
    <2> HIDE DEF m, a
    <2> QED BY <1>1, Options
  <1>4. OrElse(w.life, c.life) = c.life /\ OrElse(w.groups, c.policy.groups) = c.policy.groups
        /\ OrElse(w.acct, c.policy.acct) = c.policy.acct /\ OrElse(w.secret, c.secret) = c.secret
    BY <1>1, Options
  <1>5. OrElse({c.mode}, "address_and_certificate") = c.mode
    BY Options
  <1>6. w.secret # {"clear"}
    BY <1>1
  <1>7. c.policy = [methods |-> c.policy.methods, service |-> c.policy.service, groups |-> c.policy.groups,
                    acct |-> c.policy.acct]
    BY DEF ClientOK, PolicyOK
  <1> DEFINE pol == [methods |-> a.methods, service |-> a.service, groups |-> c.policy.groups,
                     acct |-> c.policy.acct]
  <1>8. b = [[c EXCEPT !.transports = m.transports, !.cidrs = m.cidrs,
                       !.mode = OrElse(m.mode, "address_and_certificate"), !.life = c.life,
                       !.policy = pol] EXCEPT !.secret = c.secret]
    BY <1>2, <1>3, <1>4, <1>6 DEF FlattenPatched
  <1>9. pol = c.policy
    BY <1>7
  <1> HIDE DEF pol
  <1>10. b = [[c EXCEPT !.transports = c.transports, !.cidrs = c.cidrs, !.mode = c.mode, !.life = c.life,
                        !.policy = c.policy] EXCEPT !.secret = c.secret]
    BY <1>5, <1>8, <1>9
  <1> QED BY <1>10 DEF ClientOK

LEMMA UntimedIs ==
  ASSUME NEW c, ClientOK(c)
  PROVE  Untimed(c)
         = [id |-> c.id, mode |-> c.mode, cidrs |-> c.cidrs, transports |-> Distinct(c.transports),
            secret |-> IF Lists(c.transports, "legacy") THEN c.secret ELSE None, life |-> None,
            policy |-> c.policy, endpoints |-> Each(WithoutLife, c.endpoints)]
  <1> DEFINE u == InUse(c)
  <1>1. u = [id |-> c.id, mode |-> c.mode, cidrs |-> c.cidrs, transports |-> Distinct(c.transports),
              secret |-> IF Lists(c.transports, "legacy") THEN c.secret ELSE None,
              life |-> IF Lists(c.transports, "legacy") THEN c.life ELSE None,
              policy |-> c.policy, endpoints |-> c.endpoints]
    BY InUseIs
  <1>2. Untimed(c) = [u EXCEPT !.life = None, !.endpoints = Each(WithoutLife, u.endpoints)]
    BY DEF Untimed
  <1> HIDE DEF u
  <1>3. u.endpoints = c.endpoints
    BY <1>1
  <1>4. Untimed(c) = [u EXCEPT !.life = None, !.endpoints = Each(WithoutLife, c.endpoints)]
    BY <1>2, <1>3
  <1> DEFINE e == Each(WithoutLife, c.endpoints)
  <1> HIDE DEF e
  <1>5. Untimed(c) = [u EXCEPT !.life = None, !.endpoints = e]
    BY <1>4 DEF e
  <1> QED BY <1>1, <1>5 DEF e

(* A client whose forms agree is what its own endpoints make of it.        *)
LEMMA EchoNeutral ==
  ASSUME NEW c, ClientOK(c), Agrees(c), HasMethods(c), NEW d \in applyClientPatch(c, Echo(c))
  PROVE  Untimed(d) = Untimed(c)
  <1> DEFINE w == Echo(c)
  <1>1. w.endpoints = {clientEndpointViews(c)} /\ w.radius = {}
    BY DEF Echo
  <1>2. OrElse(w.endpoints, <<>>) = clientEndpointViews(c)
    BY <1>1, Options
  <1>3. \E b \in FlattenPatched(c, w) : \E e \in EndpointsPatched(c, b, w) : d \in applyRADIUSSecretPatch(e, {})
    <2> HIDE DEF w
    <2>1. d \in applyClientPatch(c, w)
      BY DEF w
    <2>2. w.endpoints # {}
      BY <1>1
    <2> QED BY <1>1, <2>1, <2>2 DEF applyClientPatch
  <1>4. \A b \in FlattenPatched(c, w) : b = c
    BY EchoedFlatten
  <1> HIDE DEF w
  <1>5. d \in EndpointsPatched(c, c, w)
    <2>1. PICK e \in EndpointsPatched(c, c, w) : d \in applyRADIUSSecretPatch(e, {})
      BY <1>3, <1>4
    <2>2. d = e
      BY <2>1 DEF applyRADIUSSecretPatch
    <2> QED BY <2>2
  <1>6. PICK eps \in clientEndpointsFromView(clientEndpointViews(c)) :
          d = applyTACACSProjection([c EXCEPT !.endpoints = retainOmittedEndpointSecrets(c, eps)])
    BY <1>2, <1>5 DEF EndpointsPatched
  <1> DEFINE r == [k \in DOMAIN c.endpoints |-> Unrotated(c.endpoints[k])]
  <1>7. retainOmittedEndpointSecrets(c, eps) = r
    BY EchoedEndpoints
  <1> DEFINE p == projectTACACS(c.endpoints)
  <1> DEFINE q == projectTACACS(r)
  <1>8. EndpointsOK(c.endpoints)
    BY DEF ClientOK
  <1>9. /\ EndpointsOK(r) /\ Each(WithoutLife, r) = r /\ Each(WithoutLife, c.endpoints) = r
        /\ q.have = p.have /\ q.transports = p.transports /\ q.secret = p.secret /\ q.policy = p.policy
    BY <1>8, UnrotatedProjection
  <1> DEFINE f == [c EXCEPT !.endpoints = r]
  <1>10. d = applyTACACSProjection(f)
    BY <1>6, <1>7
  <1> HIDE DEF r, p, q
  <1>11. /\ ClientOK(f)
         /\ f = [id |-> c.id, mode |-> c.mode, cidrs |-> c.cidrs, transports |-> c.transports, secret |-> c.secret,
                 life |-> c.life, policy |-> c.policy, endpoints |-> r]
    BY <1>9, WithEndpoints
  <1> HIDE DEF f
  <1>12. /\ ClientOK(d) /\ d.endpoints = f.endpoints /\ d.id = f.id /\ d.mode = f.mode /\ d.cidrs = f.cidrs
         /\ q.have => d.transports = q.transports /\ d.secret = q.secret /\ q.policy = {d.policy}
         /\ ~q.have => d.transports = <<>> /\ d.secret = f.secret /\ d.policy = f.policy
    <2>1. q = projectTACACS(f.endpoints)
      BY <1>11 DEF q
    <2> QED BY <1>10, <1>11, <2>1, Projected
  <1>13. /\ d.endpoints = r /\ d.id = c.id /\ d.mode = c.mode /\ d.cidrs = c.cidrs
         /\ f.secret = c.secret /\ f.policy = c.policy
    BY <1>11, <1>12
  <1> DEFINE u == InUse(c)
  <1>14. u.transports = Distinct(c.transports) /\ u.policy = c.policy
         /\ u.secret = IF Lists(c.transports, "legacy") THEN c.secret ELSE None
    BY InUseIs
  <1>15. projectionMatchesClient(u, p)
    BY DEF Agrees, p
  <1>16. /\ IsList(p.transports) /\ NoRepeat(p.transports) /\ Distinct(p.transports) = p.transports
         /\ Lists(p.transports, "legacy") \/ p.secret = None
         /\ ~p.have => p.transports = <<>>
    <2>1. /\ p.have = (TacacsAt(c.endpoints) # {})
          /\ IsList(p.transports) /\ NoRepeat(p.transports)
          /\ Lists(p.transports, "legacy") <=> TcpAt(c.endpoints) # {}
          /\ TacacsAt(c.endpoints) = {} => p.transports = <<>>
          /\ TcpAt(c.endpoints) = {} => p.secret = None /\ p.life = None
      BY <1>8, Projects DEF p
    <2>2. Distinct(p.transports) = p.transports
      BY <2>1, DistinctSame
    <2>3. ~p.have => TacacsAt(c.endpoints) = {}
      BY <2>1, Zenon
    <2> QED BY <2>1, <2>2, <2>3
  <1> HIDE DEF u
  <1>17. u.transports = p.transports
    BY <1>15 DEF projectionMatchesClient
  <1>18. /\ Distinct(d.transports) = u.transports /\ d.policy = c.policy
         /\ (IF Lists(d.transports, "legacy") THEN d.secret ELSE None) = u.secret
    <2>1. CASE p.have
      <3>1. u.secret = p.secret /\ p.policy = {c.policy}
        BY <1>14, <1>15, <2>1 DEF projectionMatchesClient
      <3>2. d.transports = p.transports /\ d.secret = p.secret /\ p.policy = {d.policy}
        BY <1>9, <1>12, <2>1
      <3> QED BY <1>16, <1>17, <3>1, <3>2
    <2>2. CASE ~p.have
      <3>1. u.secret = None
        BY <1>15, <2>2 DEF projectionMatchesClient
      <3>2. d.transports = p.transports /\ d.policy = c.policy /\ ~Lists(d.transports, "legacy")
        <4>1. ~q.have
          BY <1>9, <2>2, Zenon
        <4>2. d.transports = <<>> /\ d.policy = c.policy
          BY <1>12, <1>13, <4>1
        <4>3. p.transports = <<>>
          BY <1>16, <2>2
        <4> QED BY <4>2, <4>3 DEF Lists
      <3> QED BY <1>16, <1>17, <3>1, <3>2
    <2> QED BY <2>1, <2>2
  <1>19. Untimed(d)
         = [id |-> d.id, mode |-> d.mode, cidrs |-> d.cidrs, transports |-> Distinct(d.transports),
            secret |-> IF Lists(d.transports, "legacy") THEN d.secret ELSE None, life |-> None,
            policy |-> d.policy, endpoints |-> Each(WithoutLife, d.endpoints)]
    BY <1>12, UntimedIs
  <1>20. Untimed(c)
         = [id |-> c.id, mode |-> c.mode, cidrs |-> c.cidrs, transports |-> Distinct(c.transports),
            secret |-> IF Lists(c.transports, "legacy") THEN c.secret ELSE None, life |-> None,
            policy |-> c.policy, endpoints |-> Each(WithoutLife, c.endpoints)]
    BY UntimedIs
  <1>21. Each(WithoutLife, d.endpoints) = Each(WithoutLife, c.endpoints)
    BY <1>9, <1>13
  <1> QED BY <1>13, <1>14, <1>18, <1>19, <1>20, <1>21

(* In every state that any files and requests reach, clients.update with   *)
(* the endpoints that clients.get showed changes nothing but rotation      *)
(* data: retainOmittedEndpointSecrets gives every endpoint its own secret  *)
(* back, and applyTACACSProjection the flatten fields they came from.      *)
THEOREM EchoesChangeNothing == CeSpec => []EchoIsNeutral
  <1>1. CeInv => EchoIsNeutral
    BY EchoNeutral DEF CeInv, EchoIsNeutral
  <1> QED BY <1>1, FormsInductive, PTL

-----------------------------------------------------------------------------
(* The rule that decides                                                   *)
(*                                                                         *)
(* An engine sorts groups and command rules and walks lists until a rule   *)
(* matches; a document means the least applicable rule in an order of      *)
(* sources, groups and places.  The argument is that sorting lists every   *)
(* member once and in order, so that the k-th list of a walk belongs to    *)
(* the k-th source and the places in it keep their order, and then the     *)
(* first match is the least of all.                                        *)

CONSTANTS MaxArgs, Time, Attributes
Tac == INSTANCE Policy WITH Now <- Time
Rad == INSTANCE RadiusPolicy WITH Dictionary <- Attributes

(* The order tells the members of S apart.                                 *)
Orderable(S) ==
  /\ IsFiniteSet(S)
  /\ \A x \in S : x.priority \in Int /\ x.id \in Int
  /\ \A x, y \in S : x.priority = y.priority /\ x.id = y.id => x = y

LEMMA BeforeIsStrict ==
  ASSUME NEW x, NEW y, x.priority \in Int, x.id \in Int, y.priority \in Int, y.id \in Int
  PROVE  /\ ~(Before(x, y) /\ Before(y, x))
         /\ Before(x, y) \/ Before(y, x) \/ (x.priority = y.priority /\ x.id = y.id)
         /\ \A z : z.priority \in Int /\ z.id \in Int /\ Before(x, y) /\ Before(y, z) => Before(x, z)
  BY DEF Before

(* Sorting lists every member once, in the order.                          *)
SortedAs(s, S) ==
  /\ \A k \in DOMAIN s : s[k] \in S
  /\ \A x \in S : \E k \in DOMAIN s : s[k] = x
  /\ \A j, k \in DOMAIN s : j < k => Before(s[j], s[k])
LEMMA SortedLists ==
  ASSUME NEW S, Orderable(S)
  PROVE  /\ Cardinality(S) \in Nat
         /\ Sorted(S) = [k \in 1..Cardinality(S) |-> Sorted(S)[k]]
         /\ SortedAs(Sorted(S), S)
  <1> DEFINE B(x) == {y \in S : Before(y, x)}
  <1> DEFINE f == [x \in S |-> Cardinality(B(x))]
  <1> DEFINE N == 0..Cardinality(S) - 1
  <1> DEFINE s == Sorted(S)
  <1>1. IsFiniteSet(S) /\ Cardinality(S) \in Nat
    BY FS_CardinalityType DEF Orderable
  <1>2. ASSUME NEW x \in S
        PROVE  Cardinality(B(x)) \in N
    <2>1. x \notin B(x) /\ B(x) \in SUBSET S
      BY DEF Orderable, Before
    <2>2. IsFiniteSet(B(x)) /\ Cardinality(B(x)) <= Cardinality(S) /\ Cardinality(S) # Cardinality(B(x))
      BY <1>1, <2>1, FS_Subset
    <2>3. Cardinality(B(x)) \in Nat
      BY <2>2, FS_CardinalityType
    <2> QED BY <1>1, <2>2, <2>3
  <1>3. ASSUME NEW x \in S, NEW y \in S, Before(x, y)
        PROVE  f[x] < f[y]
    <2>1. B(x) \in SUBSET B(y)
      <3> SUFFICES ASSUME NEW z \in S, Before(z, x) PROVE Before(z, y)
        OBVIOUS
      <3> QED BY <1>3, BeforeIsStrict DEF Orderable
    <2>2. x \in B(y) /\ x \notin B(x)
      BY <1>3, BeforeIsStrict DEF Orderable
    <2>3. IsFiniteSet(B(y))
      BY <1>1, FS_Subset
    <2> HIDE DEF B
    <2>4. Cardinality(B(x)) <= Cardinality(B(y)) /\ Cardinality(B(y)) # Cardinality(B(x))
      BY <2>1, <2>2, <2>3, FS_Subset
    <2> QED BY <1>1, <1>2, <2>4
  <1>4. f \in Injection(S, N)
    <2>1. f \in [S -> N]
      BY <1>2
    <2>2. ASSUME NEW x \in S, NEW y \in S, f[x] = f[y]
          PROVE  x = y
      <3>1. f[x] \in Int /\ f[y] \in Int
        BY <1>1, <2>1
      <3>2. ~Before(x, y) /\ ~Before(y, x)
        <4> HIDE DEF f
        <4> QED BY <1>3, <2>2, <3>1
      <3> QED BY <3>2, BeforeIsStrict DEF Orderable
    <2> QED BY <2>1, <2>2 DEF Injection, IsInjective
  <1>5. IsFiniteSet(N) /\ Cardinality(N) = Cardinality(S)
    BY <1>1, FS_Interval
  <1>6. f \in Surjection(S, N)
    <2> HIDE DEF f, N
    <2> QED BY <1>4, <1>5, FS_Injection
  <1>7. ASSUME NEW k \in 1..Cardinality(S)
        PROVE  s[k] \in S /\ f[s[k]] = k - 1
    <2>1. k - 1 \in N
      BY <1>1
    <2>2. \E x \in S : f[x] = k - 1
      <3> HIDE DEF f, N
      <3> QED BY <1>6, <2>1 DEF Surjection
    <2>3. s[k] = CHOOSE x \in S : Cardinality(B(x)) = k - 1
      BY DEF Sorted
    <2> QED BY <2>2, <2>3
  <1>8. DOMAIN s = 1..Cardinality(S) /\ s = [k \in 1..Cardinality(S) |-> s[k]]
    BY DEF Sorted
  <1> HIDE DEF s
  <1>9. ASSUME NEW x \in S
        PROVE  \E k \in DOMAIN s : s[k] = x
    <2>1. f[x] \in N
      BY <1>2
    <2>2. f[x] + 1 \in 1..Cardinality(S)
      BY <1>1, <2>1
    <2>3. f[s[f[x] + 1]] = f[x] /\ s[f[x] + 1] \in S
      <3> HIDE DEF f
      <3> QED BY <1>1, <1>7, <2>1, <2>2
    <2>4. s[f[x] + 1] = x
      <3> HIDE DEF f
      <3> QED BY <1>4, <2>3 DEF Injection, IsInjective
    <2> QED BY <1>8, <2>2, <2>4
  <1>10. ASSUME NEW j \in DOMAIN s, NEW k \in DOMAIN s, j < k
         PROVE  Before(s[j], s[k])
    <2>1. s[j] \in S /\ s[k] \in S /\ f[s[j]] = j - 1 /\ f[s[k]] = k - 1
      BY <1>7, <1>8
    <2>2. ~Before(s[k], s[j])
      <3> HIDE DEF f
      <3> QED BY <1>1, <1>3, <1>8, <1>10, <2>1
    <2>3. s[j] # s[k]
      <3> HIDE DEF f
      <3> QED BY <1>1, <1>8, <1>10, <2>1
    <2> QED BY <2>1, <2>2, <2>3, BeforeIsStrict DEF Orderable
  <1> QED BY <1>1, <1>7, <1>8, <1>9, <1>10 DEF SortedAs, s


LEMMA TacIs ==
  /\ \A x, y : Tac!Before(x, y) <=> Before(x, y)
  /\ \A S : Tac!Soonest(S) = Soonest(S)
  /\ \A h : Tac!FirstHit(h) = FirstHit(h)
  /\ \A g, n : Tac!GroupsInOrder(g, n) = GroupsInOrder(g, n)
  /\ \A S : Tac!Sorted(S) = Sorted(S)
  /\ \A s : Tac!ToSet(s) = {s[i] : i \in DOMAIN s}
  BY DEF Tac!Before, Before, Tac!Soonest, Soonest, Tac!FirstHit, FirstHit, Tac!GroupsInOrder, GroupsInOrder,
         Tac!Sorted, Sorted, Tac!Cardinality, Cardinality, Tac!ToSet

LEMMA RadIs ==
  /\ \A x, y : Rad!Before(x, y) <=> Before(x, y)
  /\ \A S : Rad!Soonest(S) = Soonest(S)
  /\ \A h : Rad!FirstHit(h) = FirstHit(h)
  /\ \A g, n : Rad!GroupsInOrder(g, n) = GroupsInOrder(g, n)
  /\ \A s : Rad!ToSet(s) = {s[i] : i \in DOMAIN s}
  /\ \A g, n : Rad!Tacacs!GroupsInOrder(g, n) = GroupsInOrder(g, n)
  /\ \A s : Rad!Tacacs!ToSet(s) = {s[i] : i \in DOMAIN s}
  BY DEF Rad!Before, Before, Rad!Soonest, Soonest, Rad!FirstHit, FirstHit, Rad!GroupsInOrder, GroupsInOrder,
         Rad!Sorted, Sorted, Rad!Cardinality, Cardinality, Rad!ToSet, Rad!Tacacs!ToSet,
         Rad!Tacacs!GroupsInOrder, Rad!Tacacs!Sorted, Rad!Tacacs!Cardinality, Rad!Tacacs!Before

(* A walk stops at the first list with a match, and at the first in it.    *)
LEMMA Soon ==
  ASSUME NEW n \in Nat, NEW S \in SUBSET (1..n), S # {}
  PROVE  Soonest(S) \in S /\ \A j \in S : Soonest(S) <= j
  <1>1. IsFiniteSet(S) /\ S \in SUBSET Int
    <2>1. IsFiniteSet(1..n)
      BY FS_Interval
    <2>2. IsFiniteSet(S)
      BY <2>1, FS_Subset
    <2> QED BY <2>2
  <1>2. \E x \in S : \A y \in S : x <= y
    BY <1>1, Extremes
  <1> QED BY <1>2 DEF Soonest

HitsOK(hits) ==
  \E n \in Nat : /\ DOMAIN hits = 1..n
                 /\ \A k \in 1..n : \E m \in Nat : hits[k] \in SUBSET (1..m)
LEMMA Walked ==
  ASSUME NEW hits, HitsOK(hits), NEW at, at = FirstHit(hits)
  PROVE  \/ at = <<0, 0>> /\ \A k \in DOMAIN hits : hits[k] = {}
         \/ /\ at # <<0, 0>> /\ at[1] # 0
            /\ at[1] \in DOMAIN hits /\ at[2] \in hits[at[1]]
            /\ \A k \in DOMAIN hits : hits[k] # {} => at[1] <= k
            /\ \A i \in hits[at[1]] : at[2] <= i
  <1>1. PICK n \in Nat : /\ DOMAIN hits = 1..n
                         /\ \A k \in 1..n : \E m \in Nat : hits[k] \in SUBSET (1..m)
    BY DEF HitsOK
  <1> DEFINE lists == {k \in DOMAIN hits : hits[k] # {}}
  <1>2. CASE lists = {}
    BY <1>2 DEF FirstHit
  <1>3. CASE lists # {}
    <2> DEFINE k == Soonest(lists)
    <2>1. k \in lists /\ \A j \in lists : k <= j
      BY <1>1, <1>3, Soon
    <2>2. at = <<k, Soonest(hits[k])>>
      BY <1>3 DEF FirstHit
    <2>3. PICK m \in Nat : hits[k] \in SUBSET (1..m)
      BY <1>1, <2>1
    <2>4. Soonest(hits[k]) \in hits[k] /\ \A i \in hits[k] : Soonest(hits[k]) <= i
      BY <2>1, <2>3, Soon
    <2> HIDE DEF k
    <2>5. k \in 1..n /\ hits[k] # {}
      BY <1>1, <2>1
    <2>6. at[1] = k /\ at[2] = Soonest(hits[k]) /\ k # 0
      BY <1>1, <2>2, <2>5
    <2> QED BY <1>1, <2>1, <2>2, <2>4, <2>5, <2>6
  <1> QED BY <1>2, <1>3

(* A walk is a user's list, the lists of the groups, and more.             *)
LEMMA WalkJoined ==
  ASSUME NEW n \in Nat, NEW f, f = [k \in 1..n |-> f[k]], NEW a, NEW b, NEW c, NEW w
  PROVE  /\ w = <<a>> \o f \o <<b>> =>
              /\ DOMAIN w = 1..n + 2
              /\ w[1] = a /\ w[n + 2] = b
              /\ \A k \in 2..n + 1 : w[k] = f[k - 1]
         /\ w = <<a>> \o f \o <<b, c>> =>
              /\ DOMAIN w = 1..n + 3
              /\ w[1] = a /\ w[n + 2] = b /\ w[n + 3] = c
              /\ \A k \in 2..n + 1 : w[k] = f[k - 1]
  <1> DEFINE U == {a, b, c} \cup {f[k] : k \in 1..n}
  <1>1. f \in Seq(U) /\ Len(f) = n
    <2>1. f \in [1..n -> U]
      OBVIOUS
    <2> HIDE DEF U
    <2> QED BY <2>1
  <1>2. <<a>> \in Seq(U) /\ <<b>> \in Seq(U) /\ <<b, c>> \in Seq(U)
    OBVIOUS
  <1> HIDE DEF U
  <1> DEFINE g == <<a>> \o f
  <1>3. g \in Seq(U) /\ Len(g) = n + 1 /\ g[1] = a /\ \A k \in 2..n + 1 : g[k] = f[k - 1]
    BY <1>1, <1>2
  <1> HIDE DEF g
  <1>4. w = g \o <<b>> => DOMAIN w = 1..n + 2 /\ w[n + 2] = b /\ \A k \in 1..n + 1 : w[k] = g[k]
    BY <1>2, <1>3
  <1>5. w = g \o <<b, c>> => DOMAIN w = 1..n + 3 /\ w[n + 2] = b /\ w[n + 3] = c /\ \A k \in 1..n + 1 : w[k] = g[k]
    BY <1>2, <1>3
  <1>6. 1 \in 1..n + 1 /\ \A k \in 2..n + 1 : k \in 1..n + 1
    OBVIOUS
  <1> QED BY <1>3, <1>4, <1>5, <1>6 DEF g

(* The groups of a request, in order.                                      *)
GroupsOK(groups) ==
  IsFiniteSet(DOMAIN groups) /\ \A g \in DOMAIN groups : g \in Int /\ groups[g].priority \in Int
GroupKey(groups, g) == [priority |-> groups[g].priority, id |-> g]
Enabled(groups, named) == {h \in DOMAIN groups : groups[h].enabled /\ h \in named}
LEMMA GroupsListed ==
  ASSUME NEW groups, GroupsOK(groups), NEW named
  PROVE  \E n \in Nat : \E ids \in [1..n -> Enabled(groups, named)] :
           /\ GroupsInOrder(groups, named) = [k \in 1..n |-> [id |-> ids[k], priority |-> groups[ids[k]].priority]]
           /\ \A g \in Enabled(groups, named) : \E k \in 1..n : ids[k] = g
           /\ \A j, k \in 1..n : j < k => Before(GroupKey(groups, ids[j]), GroupKey(groups, ids[k]))
  <1> DEFINE live == Enabled(groups, named)
  <1> DEFINE rec(g) == [id |-> g, priority |-> groups[g].priority]
  <1> DEFINE S == {rec(g) : g \in live}
  <1>1. GroupsInOrder(groups, named) = Sorted(S)
    BY DEF GroupsInOrder, Enabled
  <1>2. Orderable(S)
    <2>1. IsFiniteSet(live)
      BY FS_Subset DEF GroupsOK, Enabled
    <2>2. IsFiniteSet(S)
      <3> DEFINE f == [g \in live |-> rec(g)]
      <3>1. f \in Surjection(live, S)
        BY DEF Surjection
      <3> HIDE DEF f, S, live
      <3> QED BY <2>1, <3>1, FS_Surjection
    <2> QED BY <2>2 DEF Orderable, GroupsOK, Enabled
  <1> DEFINE n == Cardinality(S)
  <1> DEFINE s == Sorted(S)
  <1>3. n \in Nat /\ s = [k \in 1..n |-> s[k]] /\ SortedAs(s, S)
    <2> HIDE DEF S
    <2> QED BY <1>2, SortedLists
  <1> HIDE DEF s, n
  <1>4. DOMAIN s = 1..n
    BY <1>3
  <1> DEFINE ids == [k \in 1..n |-> s[k].id]
  <1>5. ASSUME NEW k \in 1..n
        PROVE  ids[k] \in live /\ s[k] = rec(ids[k])
    <2>1. s[k] \in S
      BY <1>3, <1>4 DEF SortedAs
    <2>2. PICK g \in live : s[k] = rec(g)
      BY <2>1
    <2> QED BY <2>2
  <1>6. ids \in [1..n -> live]
    BY <1>5
  <1>7. s = [k \in 1..n |-> rec(ids[k])]
    BY <1>3, <1>5
  <1>8. ASSUME NEW g \in live
        PROVE  \E k \in 1..n : ids[k] = g
    <2>1. PICK k \in 1..n : s[k] = rec(g)
      BY <1>3, <1>4 DEF SortedAs
    <2> QED BY <2>1
  <1>9. ASSUME NEW j \in 1..n, NEW k \in 1..n, j < k
        PROVE  Before(GroupKey(groups, ids[j]), GroupKey(groups, ids[k]))
    <2>1. Before(s[j], s[k])
      BY <1>3, <1>4, <1>9 DEF SortedAs
    <2>2. s[j] = rec(ids[j]) /\ s[k] = rec(ids[k])
      BY <1>5
    <2> HIDE DEF ids
    <2> QED BY <2>1, <2>2 DEF Before, GroupKey
  <1> HIDE DEF ids
  <1> QED BY <1>1, <1>3, <1>6, <1>7, <1>8, <1>9 DEF s

(* What a valid document has: lists of rules of known actions, command     *)
(* rules of different priorities (validateRuleSet), groups that have their *)
(* ids as keys.                                                            *)
Actions == {"permit_add", "permit_replace", "deny"}
RuleSetOK(rs) ==
  /\ IsSeq(rs.services) /\ IsSeq(rs.commands)
  /\ \A i \in DOMAIN rs.services : rs.services[i].action \in Actions
  /\ \A i \in DOMAIN rs.commands :
       /\ rs.commands[i].action \in Actions
       /\ rs.commands[i].priority \in Int /\ rs.commands[i].id \in Int
  /\ \A i, j \in DOMAIN rs.commands : rs.commands[i].priority = rs.commands[j].priority => i = j
UserFields == {"enabled", "groups", "clients", "validAfter", "validBefore", "rules"}
GroupFields == {"enabled", "priority", "rules"}
PolicyDocOK(in) ==
  /\ \A u \in DOMAIN in.users : DOMAIN in.users[u] = UserFields /\ RuleSetOK(in.users[u].rules)
  /\ GroupsOK(in.groups)
  /\ \A g \in DOMAIN in.groups : DOMAIN in.groups[g] = GroupFields /\ RuleSetOK(in.groups[g].rules)
  /\ RuleSetOK(in.fallback)

Keyed(x) == x.priority \in Int /\ x.id \in Int
(* The compiled list of a rule set has its entries in their order.         *)
PlaceOf(rules, i, kind) ==
  IF kind = "service" THEN [priority |-> 0, id |-> i]
  ELSE [priority |-> rules[i].priority, id |-> rules[i].id]
EntryAt(rules, i, kind) == [at |-> PlaceOf(rules, i, kind), rule |-> rules[i]]
InPlace(rules, rs, kind) ==
  /\ \E n \in Nat : DOMAIN rules = 1..n
  /\ \A i \in DOMAIN rules : EntryAt(rules, i, kind) \in Tac!Entries(rs, kind)
  /\ \A h \in Tac!Entries(rs, kind) : \E i \in DOMAIN rules : h = EntryAt(rules, i, kind)
  /\ \A i, j \in DOMAIN rules : i < j => Before(PlaceOf(rules, i, kind), PlaceOf(rules, j, kind))
  /\ \A i \in DOMAIN rules : rules[i].action \in Actions /\ Keyed(PlaceOf(rules, i, kind))
LEMMA CompiledInPlace ==
  ASSUME NEW rs, RuleSetOK(rs), NEW kind
  PROVE  InPlace(Tac!RulesOf(Tac!compileRuleSet(rs), kind), rs, kind)
  <1> DEFINE L == Tac!RulesOf(Tac!compileRuleSet(rs), kind)
  <1>1. CASE kind = "service"
    <2>1. L = rs.services
      BY <1>1 DEF Tac!RulesOf, Tac!compileRuleSet
    <2>2. Tac!Entries(rs, kind) = {EntryAt(L, i, kind) : i \in DOMAIN L}
      BY <1>1, <2>1 DEF Tac!Entries, EntryAt, PlaceOf
    <2>3. IsSeq(L) /\ \A i \in DOMAIN L : L[i].action \in Actions
      BY <2>1 DEF RuleSetOK
    <2> HIDE DEF L
    <2>4. Len(L) \in Nat /\ DOMAIN L = 1..Len(L)
      BY <2>3 DEF IsSeq
    <2>5. \A i, j \in DOMAIN L : i < j => Before(PlaceOf(L, i, kind), PlaceOf(L, j, kind))
      BY <1>1, <2>4 DEF Before, PlaceOf
    <2>6. \A i \in DOMAIN L : Keyed(PlaceOf(L, i, kind))
      BY <1>1, <2>4 DEF PlaceOf, Keyed
    <2>7. InPlace(L, rs, kind)
      BY <2>2, <2>3, <2>4, <2>5, <2>6 DEF InPlace
    <2> QED BY <2>7 DEF L
  <1>2. CASE kind # "service"
    <2> DEFINE c == rs.commands
    <2> DEFINE S == {c[i] : i \in DOMAIN c}
    <2>1. L = Sorted(S)
      BY <1>2, TacIs DEF Tac!RulesOf, Tac!compileRuleSet
    <2>2. Tac!Entries(rs, kind) = {[at |-> [priority |-> r.priority, id |-> r.id], rule |-> r] : r \in S}
      BY <1>2 DEF Tac!Entries
    <2>3. Len(c) \in Nat /\ DOMAIN c = 1..Len(c)
      BY DEF RuleSetOK, IsSeq
    <2>4. IsFiniteSet(S)
      <3> DEFINE f == [i \in DOMAIN c |-> c[i]]
      <3>1. f \in Surjection(DOMAIN c, S)
        BY DEF Surjection
      <3>2. IsFiniteSet(DOMAIN c)
        BY <2>3, FS_Interval
      <3> HIDE DEF f, S
      <3> QED BY <3>1, <3>2, FS_Surjection
    <2>5. Orderable(S)
      <3>1. \A x \in S : x.priority \in Int /\ x.id \in Int
        BY DEF RuleSetOK
      <3>2. ASSUME NEW x \in S, NEW y \in S, x.priority = y.priority
            PROVE  x = y
        BY <3>2 DEF RuleSetOK
      <3> QED BY <2>4, <3>1, <3>2 DEF Orderable
    <2>6. \A x \in S : x.action \in Actions
      BY DEF RuleSetOK
    <2> HIDE DEF S, L
    <2>7. Cardinality(S) \in Nat /\ L = [k \in 1..Cardinality(S) |-> L[k]] /\ SortedAs(L, S)
      BY <2>1, <2>5, SortedLists
    <2>8. Cardinality(S) \in Nat /\ DOMAIN L = 1..Cardinality(S)
      BY <2>7
    <2>9. \A i \in DOMAIN L : EntryAt(L, i, kind) = [at |-> [priority |-> L[i].priority, id |-> L[i].id], rule |-> L[i]]
      BY <1>2 DEF EntryAt, PlaceOf
    <2>10. \A i \in DOMAIN L : EntryAt(L, i, kind) \in Tac!Entries(rs, kind)
      BY <2>2, <2>7, <2>9 DEF SortedAs
    <2>11. \A h \in Tac!Entries(rs, kind) : \E i \in DOMAIN L : h = EntryAt(L, i, kind)
      BY <2>2, <2>7, <2>9 DEF SortedAs
    <2>12. \A i, j \in DOMAIN L : i < j => Before(PlaceOf(L, i, kind), PlaceOf(L, j, kind))
      BY <1>2, <2>7 DEF SortedAs, Before, PlaceOf
    <2>13. \A i \in DOMAIN L : L[i].action \in Actions /\ Keyed(PlaceOf(L, i, kind))
      BY <1>2, <2>5, <2>6, <2>7 DEF SortedAs, Orderable, Keyed, PlaceOf
    <2>14. InPlace(L, rs, kind)
      BY <2>8, <2>10, <2>11, <2>12, <2>13 DEF InPlace
    <2> QED BY <2>14 DEF L
  <1> QED BY <1>1, <1>2

(* The k-th list of a walk comes from the k-th source.                     *)
Ahead(s, t) == s.near < t.near \/ (s.near = t.near /\ Before(s.group, t.group))
SourceAt(in, req, ids, n, k) ==
  IF k = 1 THEN Tac!Source(1, Tac!NoGroup, in.users[req.user].rules)
  ELSE IF k = n + 2 THEN Tac!Source(3, Tac!NoGroup, in.fallback)
  ELSE Tac!Source(2, GroupKey(in.groups, ids[k - 1]), in.groups[ids[k - 1]].rules)
Follows(walk, src, in, req, kind) ==
  /\ \E n \in Nat : DOMAIN walk = 1..n
  /\ DOMAIN src = DOMAIN walk
  /\ \A k \in DOMAIN walk : InPlace(walk[k].rules, src[k].rules, kind)
  /\ \A k \in DOMAIN walk : src[k] \in Tac!Sources(in, req)
  /\ \A s \in Tac!Sources(in, req) : \E k \in DOMAIN walk : s = src[k]
  /\ \A j, k \in DOMAIN walk : j < k => Ahead(src[j], src[k])
  /\ \A k \in DOMAIN walk : src[k].near \in Int /\ Keyed(src[k].group)
LEMMA WalkFollows ==
  ASSUME NEW in, PolicyDocOK(in), NEW req, req.user \in DOMAIN in.users, NEW kind
  PROVE  \E src : Follows(Tac!Walk(Tac!Compile(in), req, kind), src, in, req, kind)
  <1> DEFINE e == Tac!Compile(in)
  <1> DEFINE compiled(rs) == Tac!compileRuleSet(rs)
  <1> DEFINE named == {in.users[req.user].groups[i] : i \in DOMAIN in.users[req.user].groups}
                      \cup Tac!DefaultGroups(in, req.client)
  <1> DEFINE G == GroupsInOrder(in.groups, named)
  <1>1. /\ e.users[req.user].rules = compiled(in.users[req.user].rules)
        /\ e.users[req.user].groups = in.users[req.user].groups
    <2>1. DOMAIN in.users[req.user] = UserFields
      BY DEF PolicyDocOK
    <2> QED BY <2>1 DEF Tac!Compile, UserFields
  <1>2. /\ DOMAIN e.groups = DOMAIN in.groups
        /\ \A g \in DOMAIN in.groups : /\ e.groups[g].rules = compiled(in.groups[g].rules)
                                       /\ e.groups[g].priority = in.groups[g].priority
                                       /\ e.groups[g].enabled = in.groups[g].enabled
    <2>1. \A g \in DOMAIN in.groups : DOMAIN in.groups[g] = GroupFields
      BY DEF PolicyDocOK
    <2> QED BY <2>1 DEF Tac!Compile, GroupFields
  <1>3. e.clients = in.clients /\ e.fallback = compiled(in.fallback)
    BY DEF Tac!Compile
  <1> HIDE DEF e, compiled
  <1>4. GroupsInOrder(e.groups, named) = G
    BY <1>2 DEF GroupsInOrder
  <1>5. Tac!effectiveGroups(e, req.user, req.client) = G
    <2>1. Tac!DefaultGroups(e, req.client) = Tac!DefaultGroups(in, req.client)
      BY <1>3 DEF Tac!DefaultGroups
    <2> QED BY <1>1, <1>4, <2>1, TacIs DEF Tac!effectiveGroups
  <1> DEFINE live == Enabled(in.groups, named)
  <1>6. PICK n \in Nat : \E ids \in [1..n -> live] :
          /\ G = [k \in 1..n |-> [id |-> ids[k], priority |-> in.groups[ids[k]].priority]]
          /\ \A g \in live : \E k \in 1..n : ids[k] = g
          /\ \A j, k \in 1..n : j < k => Before(GroupKey(in.groups, ids[j]), GroupKey(in.groups, ids[k]))
    <2>1. GroupsOK(in.groups)
      BY DEF PolicyDocOK
    <2> HIDE DEF named
    <2> QED BY <2>1, GroupsListed
  <1>7. PICK ids \in [1..n -> live] :
          /\ G = [k \in 1..n |-> [id |-> ids[k], priority |-> in.groups[ids[k]].priority]]
          /\ \A g \in live : \E k \in 1..n : ids[k] = g
          /\ \A j, k \in 1..n : j < k => Before(GroupKey(in.groups, ids[j]), GroupKey(in.groups, ids[k]))
    BY <1>6
  <1> DEFINE src == [k \in 1..n + 2 |-> SourceAt(in, req, ids, n, k)]
  <1> DEFINE walk == Tac!Walk(e, req, kind)
  <1> DEFINE f == [k \in 1..n |-> Tac!Tagged(G[k].id, e.groups[G[k].id].rules, kind)]
  <1>8. walk = <<Tac!Tagged("user", e.users[req.user].rules, kind)>> \o f \o <<Tac!Tagged("fallback", e.fallback, kind)>>
    <2>1. DOMAIN G = 1..n
      BY <1>7
    <2> HIDE DEF G
    <2> QED BY <1>5, <2>1 DEF Tac!Walk
  <1>9. \A k \in 1..n : f[k].rules = Tac!RulesOf(compiled(in.groups[ids[k]].rules), kind)
    <2>1. ASSUME NEW k \in 1..n PROVE G[k].id = ids[k] /\ ids[k] \in DOMAIN in.groups
      BY <1>7 DEF Enabled
    <2> HIDE DEF G, live
    <2> QED BY <1>2, <2>1 DEF Tac!Tagged
  <1>10. f = [k \in 1..n |-> f[k]]
    OBVIOUS
  <1> HIDE DEF walk, f, G
  <1>11. /\ DOMAIN walk = 1..n + 2
         /\ walk[1] = Tac!Tagged("user", e.users[req.user].rules, kind)
         /\ walk[n + 2] = Tac!Tagged("fallback", e.fallback, kind)
         /\ \A k \in 2..n + 1 : walk[k] = f[k - 1]
    BY <1>8, <1>10, WalkJoined
  <1>12. ASSUME NEW k \in 1..n + 2
         PROVE  /\ InPlace(walk[k].rules, src[k].rules, kind)
                /\ src[k] \in Tac!Sources(in, req)
    <2>1. CASE k = 1
      <3>1. walk[k].rules = Tac!RulesOf(compiled(in.users[req.user].rules), kind)
        BY <1>1, <1>11, <2>1 DEF Tac!Tagged
      <3>2. src[k] = Tac!Source(1, Tac!NoGroup, in.users[req.user].rules)
        BY <2>1 DEF SourceAt
      <3> QED BY <3>1, <3>2, CompiledInPlace DEF compiled, PolicyDocOK, Tac!Source, Tac!Sources
    <2>2. CASE k = n + 2
      <3>1. walk[k].rules = Tac!RulesOf(compiled(in.fallback), kind)
        BY <1>3, <1>11, <2>2 DEF Tac!Tagged
      <3>2. src[k] = Tac!Source(3, Tac!NoGroup, in.fallback)
        BY <2>2 DEF SourceAt
      <3> QED BY <3>1, <3>2, CompiledInPlace DEF compiled, PolicyDocOK, Tac!Source, Tac!Sources
    <2>3. CASE k \in 2..n + 1
      <3>1. k - 1 \in 1..n /\ k # 1 /\ k # n + 2
        BY <2>3
      <3> DEFINE g == ids[k - 1]
      <3>2. g \in live /\ g \in DOMAIN in.groups
        BY <1>7, <3>1 DEF Enabled
      <3>3. walk[k].rules = Tac!RulesOf(compiled(in.groups[g].rules), kind)
        BY <1>9, <1>11, <2>3, <3>1
      <3>4. src[k] = Tac!Source(2, GroupKey(in.groups, g), in.groups[g].rules)
        BY <3>1 DEF SourceAt
      <3> HIDE DEF g, src
      <3>5. src[k] \in Tac!Sources(in, req)
        BY <3>2, <3>4 DEF Tac!Sources, Enabled, GroupKey
      <3>6. src[k].rules = in.groups[g].rules /\ RuleSetOK(in.groups[g].rules)
        BY <3>2, <3>4 DEF Tac!Source, PolicyDocOK
      <3>7. InPlace(Tac!RulesOf(compiled(in.groups[g].rules), kind), in.groups[g].rules, kind)
        BY <3>6, CompiledInPlace DEF compiled
      <3> QED BY <3>3, <3>5, <3>6, <3>7
    <2> QED BY <2>1, <2>2, <2>3
  <1>13. ASSUME NEW s \in Tac!Sources(in, req)
         PROVE  \E k \in 1..n + 2 : s = src[k]
    <2>1. CASE s = Tac!Source(1, Tac!NoGroup, in.users[req.user].rules)
      <3>1. 1 \in 1..n + 2 /\ src[1] = s
        BY <2>1 DEF SourceAt
      <3> QED BY <3>1
    <2>2. CASE s = Tac!Source(3, Tac!NoGroup, in.fallback)
      <3>1. n + 2 \in 1..n + 2 /\ src[n + 2] = s
        BY <2>2 DEF SourceAt
      <3> QED BY <3>1
    <2>3. ASSUME NEW g \in live, s = Tac!Source(2, GroupKey(in.groups, g), in.groups[g].rules)
          PROVE  \E k \in 1..n + 2 : s = src[k]
      <3>1. PICK j \in 1..n : ids[j] = g
        BY <1>7
      <3>2. j + 1 \in 1..n + 2 /\ j + 1 # 1 /\ j + 1 # n + 2 /\ (j + 1) - 1 = j
        OBVIOUS
      <3>3. src[j + 1] = s
        BY <2>3, <3>1, <3>2 DEF SourceAt
      <3> QED BY <3>2, <3>3
    <2>4. \/ s = Tac!Source(1, Tac!NoGroup, in.users[req.user].rules)
          \/ s = Tac!Source(3, Tac!NoGroup, in.fallback)
          \/ \E g \in live : s = Tac!Source(2, GroupKey(in.groups, g), in.groups[g].rules)
      BY DEF Tac!Sources, Enabled, GroupKey
    <2> QED BY <2>1, <2>2, <2>3, <2>4
  <1>14. ASSUME NEW j \in 1..n + 2, NEW k \in 1..n + 2, j < k
         PROVE  Ahead(src[j], src[k])
    <2>1. src[j].near = (IF j = 1 THEN 1 ELSE 2) /\ src[k].near = (IF k = n + 2 THEN 3 ELSE 2)
      BY <1>14 DEF SourceAt, Tac!Source
    <2>2. CASE j # 1 /\ k # n + 2
      <3>1. j - 1 \in 1..n /\ k - 1 \in 1..n /\ j - 1 < k - 1 /\ j # n + 2 /\ k # 1
        BY <1>14, <2>2
      <3>2. src[j].group = GroupKey(in.groups, ids[j - 1]) /\ src[k].group = GroupKey(in.groups, ids[k - 1])
        BY <2>2, <3>1 DEF SourceAt, Tac!Source
      <3> QED BY <1>7, <2>1, <2>2, <3>1, <3>2 DEF Ahead
    <2> QED BY <2>1, <2>2 DEF Ahead
  <1>15. ASSUME NEW k \in 1..n + 2
         PROVE  src[k].near \in Int /\ Keyed(src[k].group)
    <2>1. CASE k = 1 \/ k = n + 2
      BY <2>1 DEF SourceAt, Tac!Source, Tac!NoGroup, Keyed
    <2>2. CASE k # 1 /\ k # n + 2
      <3>1. k - 1 \in 1..n
        BY <2>2
      <3>2. ids[k - 1] \in DOMAIN in.groups
        BY <1>7, <3>1 DEF Enabled
      <3>3. src[k].near = 2 /\ src[k].group = GroupKey(in.groups, ids[k - 1])
        BY <2>2 DEF SourceAt, Tac!Source
      <3> QED BY <3>2, <3>3 DEF PolicyDocOK, GroupsOK, GroupKey, Keyed
    <2> QED BY <2>1, <2>2
  <1>16. DOMAIN src = 1..n + 2 /\ n + 2 \in Nat
    OBVIOUS
  <1> HIDE DEF src
  <1>17. Follows(walk, src, in, req, kind)
    BY <1>11, <1>12, <1>13, <1>14, <1>15, <1>16 DEF Follows
  <1> QED BY <1>17 DEF walk, e

(* Where a walk that follows the sources stops is the rule that decides.   *)
LEMMA WalkDecides ==
  ASSUME NEW walk, NEW src, NEW in, NEW req, NEW kind, Follows(walk, src, in, req, kind),
         NEW at, at = FirstHit([k \in DOMAIN walk |-> Tac!Hits(walk[k].rules, req, kind)])
  PROVE  \/ at = <<0, 0>> /\ Tac!Deciding(in, req, kind) = {}
         \/ /\ at # <<0, 0>>
            /\ \E d : /\ Tac!Deciding(in, req, kind) = {d}
                      /\ d.rule = walk[at[1]].rules[at[2]]
                      /\ d.rule.action \in Actions
  <1> DEFINE hits == [k \in DOMAIN walk |-> Tac!Hits(walk[k].rules, req, kind)]
  <1> DEFINE entry(k, i) == [source |-> src[k], at |-> PlaceOf(walk[k].rules, i, kind), rule |-> walk[k].rules[i]]
  <1> DEFINE all == Tac!Applicable(in, req, kind)
  <1>1. PICK n \in Nat : DOMAIN walk = 1..n
    BY DEF Follows
  <1>2. ASSUME NEW k \in DOMAIN walk
        PROVE  InPlace(walk[k].rules, src[k].rules, kind) /\ src[k] \in Tac!Sources(in, req)
    BY DEF Follows
  <1>3. ASSUME NEW k \in DOMAIN walk
        PROVE  hits[k] = {i \in DOMAIN walk[k].rules : Tac!Matches(walk[k].rules[i], req, kind)}
    BY DEF Tac!Hits
  <1>4. HitsOK(hits)
    <2>1. DOMAIN hits = 1..n
      BY <1>1
    <2>2. ASSUME NEW k \in 1..n
          PROVE  \E m \in Nat : hits[k] \in SUBSET (1..m)
      <3>1. PICK m \in Nat : DOMAIN walk[k].rules = 1..m
        BY <1>1, <1>2 DEF InPlace
      <3> QED BY <1>1, <1>3, <3>1
    <2> HIDE DEF hits
    <2> QED BY <2>1, <2>2 DEF HitsOK
  <1>5. ASSUME NEW y \in all
        PROVE  \E k \in DOMAIN walk : \E i \in hits[k] : y = entry(k, i)
    <2>1. PICK s \in Tac!Sources(in, req) :
            \E h \in Tac!Entries(s.rules, kind) :
              Tac!Matches(h.rule, req, kind) /\ y = [source |-> s, at |-> h.at, rule |-> h.rule]
      BY DEF Tac!Applicable
    <2>2. PICK h \in Tac!Entries(s.rules, kind) :
            Tac!Matches(h.rule, req, kind) /\ y = [source |-> s, at |-> h.at, rule |-> h.rule]
      BY <2>1
    <2>3. PICK k \in DOMAIN walk : s = src[k]
      BY DEF Follows
    <2>4. PICK i \in DOMAIN walk[k].rules : h = EntryAt(walk[k].rules, i, kind)
      BY <1>2, <2>2, <2>3 DEF InPlace
    <2>5. h.rule = walk[k].rules[i] /\ h.at = PlaceOf(walk[k].rules, i, kind)
      BY <2>4 DEF EntryAt
    <2>6. i \in hits[k]
      BY <1>3, <2>2, <2>5
    <2> QED BY <2>2, <2>3, <2>5, <2>6
  <1>6. ASSUME NEW k \in DOMAIN walk, NEW i \in hits[k]
        PROVE  entry(k, i) \in all
    <2>1. i \in DOMAIN walk[k].rules /\ Tac!Matches(walk[k].rules[i], req, kind)
      BY <1>3
    <2>2. EntryAt(walk[k].rules, i, kind) \in Tac!Entries(src[k].rules, kind)
      BY <1>2, <2>1 DEF InPlace
    <2> DEFINE h == EntryAt(walk[k].rules, i, kind)
    <2>3. h.rule = walk[k].rules[i] /\ h.at = PlaceOf(walk[k].rules, i, kind)
      BY DEF EntryAt
    <2> HIDE DEF h
    <2>4. entry(k, i) = [source |-> src[k], at |-> h.at, rule |-> h.rule]
      BY <2>3
    <2> QED BY <1>2, <2>1, <2>2, <2>3, <2>4 DEF Tac!Applicable, h
  <1> HIDE DEF hits, all
  <1>7. at = FirstHit(hits) /\ DOMAIN hits = DOMAIN walk
    BY DEF hits
  <1>8. CASE at = <<0, 0>>
    <2>1. \A k \in DOMAIN walk : hits[k] = {}
      BY <1>4, <1>7, <1>8, Walked
    <2>2. all = {}
      BY <1>5, <2>1
    <2> QED BY <1>8, <2>2 DEF Tac!Deciding, all
  <1>9. CASE at # <<0, 0>>
    <2> DEFINE k == at[1]
    <2> DEFINE i == at[2]
    <2>1. /\ k \in DOMAIN walk /\ i \in hits[k]
          /\ \A m \in DOMAIN walk : hits[m] # {} => k <= m
          /\ \A j \in hits[k] : i <= j
      BY <1>4, <1>7, <1>9, Walked
    <2> HIDE DEF k, i
    <2> DEFINE w == entry(k, i)
    <2>2. w \in all
      BY <1>6, <2>1
    <2>3. PICK top \in Nat : DOMAIN walk[k].rules = 1..top
      BY <1>2, <2>1 DEF InPlace
    <2>4. ASSUME NEW y \in all, y # w
          PROVE  Tac!Sooner(w, y) /\ ~Tac!Sooner(y, w)
      <3>1. PICK m \in DOMAIN walk : \E j \in hits[m] : y = entry(m, j)
        BY <1>5
      <3>2. PICK j \in hits[m] : y = entry(m, j)
        BY <3>1
      <3>3. k <= m /\ k \in 1..n /\ m \in 1..n
        BY <1>1, <2>1, <3>2
      <3>4. w.source = src[k] /\ y.source = src[m]
        BY <3>2
      <3>5. CASE k < m
        <4>1. Ahead(src[k], src[m])
          BY <2>1, <3>5 DEF Follows
        <4>2. src[k].near \in Int /\ src[m].near \in Int /\ Keyed(src[k].group) /\ Keyed(src[m].group)
          BY <2>1 DEF Follows
        <4>3. ~Ahead(src[m], src[k]) /\ src[k] # src[m]
          BY <4>1, <4>2 DEF Ahead, Before, Keyed
        <4> HIDE DEF w
        <4> QED BY <3>4, <4>1, <4>3, TacIs DEF Ahead, Tac!Sooner
      <3>6. CASE k = m
        <4>1. i <= j /\ i \in 1..top /\ j \in 1..top
          BY <1>3, <2>1, <2>3, <3>2, <3>6
        <4>2. i # j
          BY <2>4, <3>2, <3>6
        <4> DEFINE rules == walk[k].rules
        <4>3. InPlace(rules, src[k].rules, kind) /\ DOMAIN rules = 1..top
          BY <1>2, <2>1, <2>3
        <4> HIDE DEF rules
        <4>4. i \in DOMAIN rules /\ j \in DOMAIN rules /\ i < j
          BY <4>1, <4>2, <4>3
        <4>5. Before(PlaceOf(rules, i, kind), PlaceOf(rules, j, kind))
          BY <4>3, <4>4 DEF InPlace
        <4>6. Keyed(PlaceOf(rules, i, kind)) /\ Keyed(PlaceOf(rules, j, kind))
          BY <4>3, <4>4 DEF InPlace
        <4>7. ~Before(PlaceOf(rules, j, kind), PlaceOf(rules, i, kind))
          BY <4>5, <4>6, BeforeIsStrict DEF Keyed
        <4>8. src[k].near \in Int /\ Keyed(src[k].group)
          BY <2>1 DEF Follows
        <4>9. ~Ahead(src[k], src[k])
          BY <4>8 DEF Ahead, Before, Keyed
        <4>10. w.at = PlaceOf(rules, i, kind) /\ y.at = PlaceOf(rules, j, kind) /\ y.source = src[k]
          BY <3>2, <3>6 DEF rules
        <4> HIDE DEF w
        <4> QED BY <3>4, <4>5, <4>7, <4>9, <4>10, TacIs DEF Ahead, Tac!Sooner
      <3> QED BY <3>3, <3>5, <3>6
    <2>5. Tac!Deciding(in, req, kind) = {w}
      <3> HIDE DEF w
      <3> QED BY <2>2, <2>4 DEF Tac!Deciding, all
    <2>6. w.rule = walk[at[1]].rules[at[2]]
      BY DEF k, i
    <2>7. w.rule.action \in Actions
      <3>1. i \in DOMAIN walk[k].rules
        BY <1>3, <2>1
      <3> QED BY <1>2, <2>1, <3>1 DEF InPlace
    <2> HIDE DEF w
    <2> QED BY <1>9, <2>5, <2>6, <2>7
  <1> QED BY <1>8, <1>9

(* For every document that is valid and every request, authorization is    *)
(* decided by the rule the document means and fails closed (Authorize of   *)
(* internal/aaa/author.go and evaluate of internal/policy).                *)
THEOREM AuthorizationIsByRule ==
  ASSUME MaxArgs \in Nat, NEW in, PolicyDocOK(in), NEW request, Len(request.args) \in Nat
  PROVE  Tac!AuthorizedByRule(in, request)
  <1> DEFINE e == Tac!Compile(in)
  <1> DEFINE req == Tac!Normalize(request)
  <1> DEFINE kind == Tac!KindOf(req)
  <1> DEFINE decides == Tac!Meant(in, req)
  <1> DEFINE r == Tac!Authorize(e, request)
  <1>1. ASSUME NEW u \in DOMAIN in.users
        PROVE  /\ u \in DOMAIN e.users
               /\ \A x \in {"enabled", "clients", "validAfter", "validBefore"} : e.users[u][x] = in.users[u][x]
    <2>1. DOMAIN in.users[u] = UserFields
      BY DEF PolicyDocOK
    <2> QED BY <2>1 DEF Tac!Compile, UserFields
  <1>2. DOMAIN e.users = DOMAIN in.users
    BY DEF Tac!Compile
  <1> HIDE DEF e, req
  <1>3. Tac!Admitted(e, req) <=> Tac!Admitted(in, req)
    <2>1. CASE req.user \in DOMAIN in.users
      BY <1>1, <1>2, <2>1 DEF Tac!Admitted, Tac!userValid, Tac!clientAllowed
    <2>2. CASE req.user \notin DOMAIN in.users
      BY <1>2, <2>2 DEF Tac!Admitted
    <2> QED BY <2>1, <2>2
  <1>4. decides = IF Tac!Admitted(in, req) THEN Tac!Deciding(in, req, kind) ELSE {}
    BY DEF Tac!Meant, Tac!Admitted
  <1>5. /\ Cardinality({}) = 0
        /\ \A d : Cardinality({d}) = 1
        /\ \A S : Tac!Cardinality(S) = Cardinality(S)
    <2>1. \A S : Tac!Cardinality(S) = Cardinality(S)
      BY DEF Tac!Cardinality, Cardinality
    <2> QED BY <2>1, FS_EmptySet, FS_Singleton
  <1> HIDE DEF kind, decides
  <1>6. SUFFICES Tac!ByRule(r, decides, request)
    BY DEF Tac!AuthorizedByRule, decides, req, e
  <1> DEFINE walk == Tac!Walk(e, req, kind)
  <1> DEFINE at == FirstHit([k \in DOMAIN walk |-> Tac!Hits(walk[k].rules, req, kind)])
  <1> DEFINE rule == walk[at[1]].rules[at[2]]
  <1>7. ASSUME Tac!Admitted(in, req)
        PROVE  \/ at = <<0, 0>> /\ decides = {}
               \/ /\ at # <<0, 0>>
                  /\ \E d : decides = {d} /\ d.rule = rule /\ d.rule.action \in Actions
    <2>1. req.user \in DOMAIN in.users
      BY <1>7 DEF Tac!Admitted
    <2>2. PICK src : Follows(walk, src, in, req, kind)
      BY <2>1, WalkFollows DEF e
    <2> HIDE DEF walk
    <2>3. decides = Tac!Deciding(in, req, kind)
      BY <1>4, <1>7
    <2>4. at = FirstHit([k \in DOMAIN walk |-> Tac!Hits(walk[k].rules, req, kind)])
      OBVIOUS
    <2> HIDE DEF at
    <2>5. \/ at = <<0, 0>> /\ Tac!Deciding(in, req, kind) = {}
          \/ /\ at # <<0, 0>>
             /\ \E d : /\ Tac!Deciding(in, req, kind) = {d}
                       /\ d.rule = walk[at[1]].rules[at[2]]
                       /\ d.rule.action \in Actions
      BY <2>2, <2>4, WalkDecides
    <2> QED BY <2>3, <2>5
  <1> HIDE DEF walk, at, rule
  <1>8. Tac!Cardinality(decides) <= 1
    <2>1. decides = {} \/ \E d : decides = {d}
      BY <1>4, <1>7
    <2>2. Cardinality(decides) \in {0, 1}
      BY <1>5, <2>1
    <2> QED BY <1>5, <2>2
  <1>9. CASE ~Tac!WithinLimits(request)
    <2>1. r = [status |-> "error", args |-> <<>>, winner |-> Tac!None]
      BY <1>9 DEF Tac!Authorize, Tac!Error, Tac!Result
    <2>2. Len(request.args) > MaxArgs
      BY <1>9 DEF Tac!WithinLimits
    <2>3. r.status = "error" /\ r.args = <<>>
      BY <2>1
    <2> HIDE DEF r
    <2> QED BY <1>8, <2>2, <2>3 DEF Tac!ByRule
  <1>10. CASE Tac!WithinLimits(request) /\ ~Tac!Admitted(in, req)
    <2>1. r = [status |-> "fail", args |-> <<>>, winner |-> Tac!None]
      BY <1>3, <1>10 DEF Tac!Authorize, Tac!evaluate, Tac!Deny, Tac!Result, req
    <2>2. r.status = "fail" /\ r.args = <<>> /\ decides = {}
      BY <1>4, <1>10, <2>1
    <2> HIDE DEF r
    <2> QED BY <1>8, <2>2 DEF Tac!ByRule
  <1>11. CASE Tac!WithinLimits(request) /\ Tac!Admitted(in, req)
    <2>1. r = Tac!walkRules(walk, req, kind)
      BY <1>3, <1>11 DEF Tac!Authorize, Tac!evaluate, req, kind, walk
    <2> DEFINE sent == IF kind = "service" THEN rule.reply ELSE <<>>
    <2> DEFINE hit == [source |-> walk[at[1]].source, rule |-> rule]
    <2>2. r = IF at = <<0, 0>> THEN Tac!Deny ELSE Tac!Finish(hit, sent)
      BY <2>1, TacIs DEF Tac!walkRules, at, rule
    <2> HIDE DEF r
    <2>3. CASE at = <<0, 0>>
      <3>1. r.status = "fail" /\ r.args = <<>> /\ decides = {}
        BY <1>7, <1>11, <2>2, <2>3 DEF Tac!Deny, Tac!Result
      <3> QED BY <1>8, <3>1 DEF Tac!ByRule
    <2>4. CASE at # <<0, 0>>
      <3>1. PICK d : decides = {d} /\ d.rule = rule /\ d.rule.action \in Actions
        BY <1>7, <1>11, <2>4
      <3>2. r = Tac!Finish(hit, sent) /\ hit.rule = rule
        BY <2>2, <2>4
      <3> HIDE DEF hit, sent
      <3>3. CASE rule.action = "deny"
        <4>1. r = [status |-> "fail", args |-> <<>>, winner |-> hit]
          BY <3>2, <3>3 DEF Tac!Finish, Tac!Result
        <4>2. r.status = "fail" /\ r.args = <<>>
          BY <4>1
        <4> QED BY <1>8, <3>1, <3>3, <4>2 DEF Tac!ByRule
      <3>4. CASE rule.action # "deny" /\ Len(sent) > MaxArgs
        <4>1. r = [status |-> "error", args |-> <<>>, winner |-> Tac!None]
          BY <3>2, <3>4 DEF Tac!Finish, Tac!Error, Tac!Result
        <4>2. r.status = "error" /\ r.args = <<>>
          BY <4>1
        <4>3. kind = "service"
          BY <3>4 DEF sent
        <4>4. Len(d.rule.reply) > MaxArgs
          BY <3>1, <3>4, <4>3 DEF sent
        <4> QED BY <1>8, <3>1, <4>2, <4>4 DEF Tac!ByRule
      <3>5. CASE rule.action # "deny" /\ ~(Len(sent) > MaxArgs)
        <4>1. r = [status |-> IF rule.action = "permit_add" THEN "pass_add" ELSE "pass_repl",
                   args |-> sent, winner |-> hit]
          BY <3>2, <3>5 DEF Tac!Finish, Tac!Result
        <4>2. /\ r.status = IF rule.action = "permit_add" THEN "pass_add" ELSE "pass_repl"
              /\ r.args = sent /\ r.winner.rule = rule
          BY <3>2, <4>1
        <4>3. rule.action \in {"permit_add", "permit_replace"}
          BY <3>1, <3>5 DEF Actions
        <4>4. kind = "service" => sent = d.rule.reply
          BY <3>1 DEF sent
        <4> QED BY <1>8, <3>1, <4>2, <4>3, <4>4 DEF Tac!ByRule, kind, req
      <3> QED BY <3>3, <3>4, <3>5
    <2> QED BY <2>3, <2>4
  <1> QED BY <1>9, <1>10, <1>11

(* What a valid document has: lists of rules and of endpoints, policies    *)
(* with a name, groups that have their ids as keys.                        *)
RadiusDocOK(in) ==
  /\ GroupsOK(in.groups)
  /\ Rad!None \notin DOMAIN in.policies
  /\ \A p \in DOMAIN in.policies : IsSeq(in.policies[p])
  /\ \A c \in DOMAIN in.clients : IsSeq(in.clients[c].endpoints)

(* A compiled policy has the enabled rules, in their places.               *)
CompiledRule(r, profiles) ==
  [id |-> r.id, match |-> r.match, effect |-> r.effect, reply |-> Rad!Merged(r, profiles)]
Placed(rules, policy, profiles, m, place) ==
  /\ m \in Nat /\ place \in [1..m -> Rad!Live(policy)]
  /\ rules = [i \in 1..m |-> CompiledRule(policy[place[i]], profiles)]
  /\ \A l \in Rad!Live(policy) : \E i \in 1..m : place[i] = l
  /\ \A i, j \in 1..m : i <= j => place[i] <= place[j]
  /\ Rad!Live(policy) \in SUBSET (1..Len(policy))
LEMMA PolicyInPlace ==
  ASSUME NEW policy, IsSeq(policy), NEW profiles
  PROVE  \E m, place : Placed(Rad!compilePolicy(policy, profiles), policy, profiles, m, place)
  <1> DEFINE live == Rad!Live(policy)
  <1> DEFINE m == Cardinality(live)
  <1>1. Len(policy) \in Nat /\ live \in SUBSET (1..Len(policy))
    BY DEF IsSeq, Rad!Live
  <1>2. IsFiniteSet(live) /\ live \in SUBSET Int
    <2>1. IsFiniteSet(1..Len(policy))
      BY <1>1, FS_Interval
    <2>2. IsFiniteSet(live)
      BY <1>1, <2>1, FS_Subset
    <2> QED BY <1>1, <2>2
  <1> HIDE DEF live
  <1>3. /\ m \in Nat
        /\ \A i \in live : PlacesBefore(live, i) \in 0..m - 1
        /\ \A i, j \in live : i < j => PlacesBefore(live, i) < PlacesBefore(live, j)
        /\ \A k \in 0..m - 1 : \E i \in live : PlacesBefore(live, i) = k
    BY <1>2, Ranks
  <1> DEFINE place == [i \in 1..m |-> Rad!LivePlace(policy, i)]
  <1>4. \A S : Rad!Cardinality(S) = Cardinality(S)
    BY DEF Rad!Cardinality, Cardinality
  <1>5. ASSUME NEW i \in 1..m
        PROVE  place[i] \in live /\ PlacesBefore(live, place[i]) = i - 1
    <2>1. place[i] = CHOOSE l \in live : PlacesBefore(live, l) = i - 1
      BY <1>4 DEF Rad!LivePlace, PlacesBefore, live
    <2>2. i - 1 \in 0..m - 1
      BY <1>3
    <2> HIDE DEF place, m
    <2> QED BY <1>3, <2>1, <2>2
  <1>6. Rad!compilePolicy(policy, profiles) = [i \in 1..m |-> CompiledRule(policy[place[i]], profiles)]
    BY <1>4 DEF Rad!compilePolicy, CompiledRule, live
  <1>7. place \in [1..m -> live]
    BY <1>5
  <1> HIDE DEF place, m
  <1>8. ASSUME NEW l \in live
        PROVE  \E i \in 1..m : place[i] = l
    <2> DEFINE i == PlacesBefore(live, l) + 1
    <2>1. i \in 1..m /\ PlacesBefore(live, l) = i - 1 /\ i \in Int
      BY <1>3
    <2>2. place[i] \in live /\ PlacesBefore(live, place[i]) = i - 1
      BY <1>5, <2>1
    <2>3. place[i] \in Int /\ l \in Int
      BY <1>2, <2>2
    <2> HIDE DEF i
    <2>4. ~(place[i] < l) /\ ~(l < place[i])
      BY <1>3, <2>1, <2>2
    <2> QED BY <2>1, <2>3, <2>4
  <1>9. ASSUME NEW i \in 1..m, NEW j \in 1..m, i <= j
        PROVE  place[i] <= place[j]
    <2>1. /\ place[i] \in live /\ PlacesBefore(live, place[i]) = i - 1
          /\ place[j] \in live /\ PlacesBefore(live, place[j]) = j - 1
      BY <1>5
    <2>2. place[i] \in Int /\ place[j] \in Int /\ i \in Int /\ j \in Int
      <3>1. place[i] \in Int /\ place[j] \in Int
        BY <1>2, <2>1
      <3> QED BY <1>3, <3>1
    <2>3. ~(place[j] < place[i])
      BY <1>3, <1>9, <2>1, <2>2
    <2> QED BY <2>2, <2>3
  <1>10. Placed(Rad!compilePolicy(policy, profiles), policy, profiles, m, place)
    BY <1>1, <1>3, <1>6, <1>7, <1>8, <1>9 DEF Placed, live
  <1> QED BY <1>10

(* The groups of a request are those the document gives it.                *)
NamedGroups(in, req) ==
  (IF req.user \in DOMAIN in.users /\ in.users[req.user].enabled
   THEN {in.users[req.user].groups[i] : i \in DOMAIN in.users[req.user].groups} ELSE {})
  \cup (IF req.client \in Rad!BoundClients(in)
        THEN {in.clients[req.client].defaults[i] : i \in DOMAIN in.clients[req.client].defaults} ELSE {})
LEMMA RadiusGroups ==
  ASSUME NEW in, RadiusDocOK(in), NEW req
  PROVE  /\ Rad!effectiveGroups(Rad!Compile(in), req.user, req.client) = GroupsInOrder(in.groups, NamedGroups(in, req))
         /\ Rad!Groups(in, req) = Enabled(in.groups, NamedGroups(in, req))
         /\ Rad!groupIDs(GroupsInOrder(in.groups, NamedGroups(in, req))) = Rad!Groups(in, req)
         /\ Rad!SameGroups(in, req)
  <1> DEFINE e == Rad!Compile(in)
  <1> DEFINE named == NamedGroups(in, req)
  <1>1. /\ e.users = in.users /\ e.groups = in.groups
        /\ DOMAIN e.clients = Rad!BoundClients(in)
        /\ \A c \in Rad!BoundClients(in) : e.clients[c] = in.clients[c]
    BY DEF Rad!Compile
  <1>2. Rad!effectiveGroups(e, req.user, req.client) = GroupsInOrder(in.groups, named)
    <2> HIDE DEF e
    <2> DEFINE own == IF req.user \in DOMAIN e.users /\ e.users[req.user].enabled
                      THEN Rad!ToSet(e.users[req.user].groups) ELSE {}
    <2> DEFINE defaults == IF req.client \in DOMAIN e.clients
                           THEN Rad!ToSet(e.clients[req.client].defaults) ELSE {}
    <2>1. own \cup defaults = named
      <3>1. \A s : Rad!ToSet(s) = {s[i] : i \in DOMAIN s}
        BY DEF Rad!ToSet
      <3> QED BY <1>1, <3>1 DEF NamedGroups
    <2>2. Rad!effectiveGroups(e, req.user, req.client) = Rad!GroupsInOrder(e.groups, own \cup defaults)
      BY DEF Rad!effectiveGroups
    <2> HIDE DEF own, defaults, named
    <2>3. Rad!GroupsInOrder(in.groups, named) = GroupsInOrder(in.groups, named)
      BY RadIs
    <2> QED BY <1>1, <2>1, <2>2, <2>3
  <1>3. Rad!Groups(in, req) = Enabled(in.groups, named)
    BY RadIs DEF Rad!Groups, Enabled, NamedGroups
  <1>4. Rad!groupIDs(GroupsInOrder(in.groups, named)) = Enabled(in.groups, named)
    <2> HIDE DEF named
    <2> DEFINE G == GroupsInOrder(in.groups, named)
    <2> DEFINE live == Enabled(in.groups, named)
    <2>1. GroupsOK(in.groups)
      BY DEF RadiusDocOK
    <2>2. PICK n \in Nat : \E ids \in [1..n -> live] :
            /\ G = [k \in 1..n |-> [id |-> ids[k], priority |-> in.groups[ids[k]].priority]]
            /\ \A g \in live : \E k \in 1..n : ids[k] = g
            /\ \A j, k \in 1..n : j < k => Before(GroupKey(in.groups, ids[j]), GroupKey(in.groups, ids[k]))
      BY <2>1, GroupsListed
    <2>3. PICK ids \in [1..n -> live] :
            /\ G = [k \in 1..n |-> [id |-> ids[k], priority |-> in.groups[ids[k]].priority]]
            /\ \A g \in live : \E k \in 1..n : ids[k] = g
            /\ \A j, k \in 1..n : j < k => Before(GroupKey(in.groups, ids[j]), GroupKey(in.groups, ids[k]))
      BY <2>2
    <2>4. Rad!groupIDs(G) = {ids[k] : k \in 1..n}
      BY <2>3 DEF Rad!groupIDs
    <2> HIDE DEF live, G
    <2>5. {ids[k] : k \in 1..n} = live
      BY <2>3
    <2> QED BY <2>4, <2>5 DEF G, live
  <1>5. Rad!SameGroups(in, req)
    <2> SUFFICES ASSUME req.user \in DOMAIN in.users, in.users[req.user].enabled, req.client \in Rad!BoundClients(in)
                 PROVE  Rad!effectiveGroups(e, req.user, req.client)
                          = Rad!Tacacs!effectiveGroups(in, req.user, req.client)
      BY DEF Rad!SameGroups
    <2>1. req.client \in DOMAIN in.clients /\ in.clients[req.client].enabled
      BY DEF Rad!BoundClients
    <2>2. Rad!Tacacs!effectiveGroups(in, req.user, req.client) = GroupsInOrder(in.groups, named)
      BY <2>1, RadIs DEF Rad!Tacacs!effectiveGroups, Rad!Tacacs!DefaultGroups, NamedGroups
    <2> QED BY <1>2, <2>2
  <1> QED BY <1>2, <1>3, <1>4, <1>5

(* The k-th policy of a walk is that of the k-th source.                   *)
UserPolicy(in, req) ==
  IF req.user \in DOMAIN in.users /\ in.users[req.user].enabled THEN in.users[req.user].policy ELSE Rad!None
ClientPolicy(in, req) ==
  IF req.client \in Rad!BoundClients(in) THEN Rad!Endpoint(in, req) ELSE Rad!None
RadiusSourceAt(in, req, ids, n, k) ==
  IF k = 1 THEN Rad!Source(1, Rad!NoGroup, UserPolicy(in, req))
  ELSE IF k = n + 2 THEN Rad!Source(3, Rad!NoGroup, ClientPolicy(in, req))
  ELSE IF k = n + 3 THEN Rad!Source(4, Rad!NoGroup, in.fallback)
  ELSE Rad!Source(2, GroupKey(in.groups, ids[k - 1]), in.groups[ids[k - 1]].policy)
Sourced(policies, src, in, req) ==
  /\ \E n \in Nat : DOMAIN policies = 1..n
  /\ DOMAIN src = DOMAIN policies
  /\ \A k \in DOMAIN policies : src[k].policy = policies[k] /\ Rad!Known(in, policies[k])
  /\ \A k \in DOMAIN policies : policies[k] # Rad!None => src[k] \in Rad!Sources(in, req)
  /\ \A s \in Rad!Sources(in, req) : s.policy # Rad!None /\ \E k \in DOMAIN policies : s = src[k]
  /\ \A j, k \in DOMAIN policies : j < k => Ahead(src[j], src[k])
  /\ \A k \in DOMAIN policies : src[k].near \in Int /\ Keyed(src[k].group)
LEMMA PoliciesSourced ==
  ASSUME NEW in, RadiusDocOK(in), Rad!Compiles(in), NEW req
  PROVE  \E src : Sourced(Rad!Policies(Rad!Compile(in), req), src, in, req)
  <1> DEFINE e == Rad!Compile(in)
  <1> DEFINE named == NamedGroups(in, req)
  <1> DEFINE G == GroupsInOrder(in.groups, named)
  <1> DEFINE live == Enabled(in.groups, named)
  <1> DEFINE P == Rad!Policies(e, req)
  <1>1. /\ e.users = in.users /\ e.groups = in.groups /\ e.fallback = in.fallback
        /\ DOMAIN e.clients = Rad!BoundClients(in)
        /\ \A c \in Rad!BoundClients(in) : e.clients[c] = in.clients[c]
    BY DEF Rad!Compile
  <1>2. Rad!effectiveGroups(e, req.user, req.client) = G /\ Rad!Groups(in, req) = live
    BY RadiusGroups
  <1> HIDE DEF e, named
  <1>3. PICK n \in Nat : \E ids \in [1..n -> live] :
          /\ G = [k \in 1..n |-> [id |-> ids[k], priority |-> in.groups[ids[k]].priority]]
          /\ \A g \in live : \E k \in 1..n : ids[k] = g
          /\ \A j, k \in 1..n : j < k => Before(GroupKey(in.groups, ids[j]), GroupKey(in.groups, ids[k]))
    <2>1. GroupsOK(in.groups)
      BY DEF RadiusDocOK
    <2> QED BY <2>1, GroupsListed
  <1>4. PICK ids \in [1..n -> live] :
          /\ G = [k \in 1..n |-> [id |-> ids[k], priority |-> in.groups[ids[k]].priority]]
          /\ \A g \in live : \E k \in 1..n : ids[k] = g
          /\ \A j, k \in 1..n : j < k => Before(GroupKey(in.groups, ids[j]), GroupKey(in.groups, ids[k]))
    BY <1>3
  <1> DEFINE f == [k \in 1..n |-> in.groups[G[k].id].policy]
  <1> DEFINE src == [k \in 1..n + 3 |-> RadiusSourceAt(in, req, ids, n, k)]
  <1>5. P = <<UserPolicy(in, req)>> \o f \o <<ClientPolicy(in, req), in.fallback>>
    <2>1. DOMAIN G = 1..n
      BY <1>4
    <2>2. UserPolicy(in, req) = IF req.user \in DOMAIN e.users /\ e.users[req.user].enabled
                                THEN e.users[req.user].policy ELSE Rad!None
      BY <1>1 DEF UserPolicy
    <2>3. ClientPolicy(in, req) = IF req.client \in DOMAIN e.clients THEN Rad!Endpoint(e, req) ELSE Rad!None
      BY <1>1 DEF ClientPolicy, Rad!Endpoint
    <2> HIDE DEF G
    <2> QED BY <1>1, <1>2, <2>1, <2>2, <2>3 DEF Rad!Policies
  <1>6. \A k \in 1..n : f[k] = in.groups[ids[k]].policy
    BY <1>4
  <1>7. f = [k \in 1..n |-> f[k]]
    OBVIOUS
  <1> HIDE DEF P, f, G
  <1>8. /\ DOMAIN P = 1..n + 3
        /\ P[1] = UserPolicy(in, req) /\ P[n + 2] = ClientPolicy(in, req) /\ P[n + 3] = in.fallback
        /\ \A k \in 2..n + 1 : P[k] = f[k - 1]
    BY <1>5, <1>7, WalkJoined
  <1>9. ASSUME NEW k \in 1..n + 3
        PROVE  k = 1 \/ k = n + 2 \/ k = n + 3
               \/ (k # 1 /\ k # n + 2 /\ k # n + 3 /\ k \in 2..n + 1 /\ k - 1 \in 1..n /\ ids[k - 1] \in live)
    <2>1. k = 1 \/ k = n + 2 \/ k = n + 3
          \/ (k # 1 /\ k # n + 2 /\ k # n + 3 /\ k \in 2..n + 1 /\ k - 1 \in 1..n)
      OBVIOUS
    <2> QED BY <1>4, <2>1
  <1>10. ASSUME NEW k \in 1..n + 3
         PROVE  /\ src[k].policy = P[k]
                /\ src[k].near \in Int /\ Keyed(src[k].group)
                /\ P[k] # Rad!None => src[k] \in Rad!Sources(in, req)
                /\ Rad!Known(in, P[k])
    <2>1. CASE k = 1
      <3>1. src[k] = Rad!Source(1, Rad!NoGroup, UserPolicy(in, req)) /\ P[k] = UserPolicy(in, req)
        BY <1>8, <2>1 DEF RadiusSourceAt
      <3> HIDE DEF src
      <3>2. src[k].policy = P[k] /\ src[k].near \in Int /\ Keyed(src[k].group)
        BY <3>1 DEF Rad!Source, Rad!NoGroup, Keyed
      <3>3. P[k] # Rad!None => src[k] \in Rad!Sources(in, req)
        BY <3>1, <3>2 DEF UserPolicy, Rad!Sources
      <3>4. Rad!Known(in, P[k])
        BY <3>1 DEF UserPolicy, Rad!Compiles, Rad!Known
      <3> QED BY <3>2, <3>3, <3>4
    <2>2. CASE k = n + 2
      <3>1. src[k] = Rad!Source(3, Rad!NoGroup, ClientPolicy(in, req)) /\ P[k] = ClientPolicy(in, req)
        BY <1>8, <2>2 DEF RadiusSourceAt
      <3> HIDE DEF src
      <3>2. src[k].policy = P[k] /\ src[k].near \in Int /\ Keyed(src[k].group)
        BY <3>1 DEF Rad!Source, Rad!NoGroup, Keyed
      <3>3. P[k] # Rad!None => src[k] \in Rad!Sources(in, req)
        BY <3>1, <3>2 DEF ClientPolicy, Rad!Sources
      <3>4. Rad!Known(in, P[k])
        <4>1. CASE req.client \in Rad!BoundClients(in)
          <5> DEFINE eps == in.clients[req.client].endpoints
          <5>1. req.client \in DOMAIN in.clients /\ in.clients[req.client].enabled
            BY <4>1 DEF Rad!BoundClients
          <5>2. \A ep \in DOMAIN eps : Rad!Known(in, eps[ep])
            BY <5>1 DEF Rad!Compiles
          <5>3. IsSeq(eps)
            BY <5>1 DEF RadiusDocOK
          <5> HIDE DEF eps
          <5>4. Len(eps) = 1 => 1 \in DOMAIN eps
            BY <5>3 DEF IsSeq
          <5>5. P[k] = Rad!Endpoint(in, req)
            BY <3>1, <4>1 DEF ClientPolicy
          <5>6. P[k] = Rad!None \/ \E ep \in DOMAIN eps : P[k] = eps[ep]
            BY <5>4, <5>5 DEF Rad!Endpoint, eps
          <5> QED BY <5>2, <5>6 DEF Rad!Known
        <4>2. CASE req.client \notin Rad!BoundClients(in)
          BY <3>1, <4>2 DEF ClientPolicy, Rad!Known
        <4> QED BY <4>1, <4>2
      <3> QED BY <3>2, <3>3, <3>4
    <2>3. CASE k = n + 3
      <3>1. src[k] = Rad!Source(4, Rad!NoGroup, in.fallback) /\ P[k] = in.fallback
        BY <1>8, <2>3 DEF RadiusSourceAt
      <3> HIDE DEF src
      <3>2. src[k].policy = P[k] /\ src[k].near \in Int /\ Keyed(src[k].group)
        BY <3>1 DEF Rad!Source, Rad!NoGroup, Keyed
      <3>3. P[k] # Rad!None => src[k] \in Rad!Sources(in, req)
        BY <3>1, <3>2 DEF Rad!Sources
      <3>4. Rad!Known(in, P[k])
        BY <3>1 DEF Rad!Compiles
      <3> QED BY <3>2, <3>3, <3>4
    <2>4. CASE k # 1 /\ k # n + 2 /\ k # n + 3 /\ k \in 2..n + 1 /\ k - 1 \in 1..n /\ ids[k - 1] \in live
      <3> DEFINE g == ids[k - 1]
      <3>1. src[k] = Rad!Source(2, GroupKey(in.groups, g), in.groups[g].policy) /\ P[k] = in.groups[g].policy
        BY <1>6, <1>8, <2>4 DEF RadiusSourceAt
      <3>2. g \in live /\ g \in DOMAIN in.groups
        BY <2>4 DEF Enabled
      <3> HIDE DEF src, g, live
      <3>3. src[k].policy = P[k] /\ src[k].near \in Int /\ Keyed(src[k].group)
        BY <3>1, <3>2 DEF Rad!Source, GroupKey, Keyed, RadiusDocOK, GroupsOK
      <3>4. P[k] # Rad!None => src[k] \in Rad!Sources(in, req)
        BY <1>2, <3>1, <3>2, <3>3 DEF Rad!Sources, GroupKey
      <3>5. Rad!Known(in, P[k])
        BY <3>1, <3>2 DEF Rad!Compiles
      <3> QED BY <3>3, <3>4, <3>5
    <2> QED BY <1>9, <2>1, <2>2, <2>3, <2>4
  <1>11. ASSUME NEW s \in Rad!Sources(in, req)
         PROVE  s.policy # Rad!None /\ \E k \in 1..n + 3 : s = src[k]
    <2>1. s.policy # Rad!None
      BY DEF Rad!Sources
    <2>2. \/ s = Rad!Source(4, Rad!NoGroup, in.fallback)
          \/ s = Rad!Source(1, Rad!NoGroup, UserPolicy(in, req))
          \/ s = Rad!Source(3, Rad!NoGroup, ClientPolicy(in, req))
          \/ \E g \in live : s = Rad!Source(2, GroupKey(in.groups, g), in.groups[g].policy)
      BY <1>2 DEF Rad!Sources, UserPolicy, ClientPolicy, GroupKey
    <2>3. CASE s = Rad!Source(4, Rad!NoGroup, in.fallback)
      <3>1. n + 3 \in 1..n + 3 /\ src[n + 3] = s
        BY <2>3 DEF RadiusSourceAt
      <3> QED BY <2>1, <3>1
    <2>4. CASE s = Rad!Source(1, Rad!NoGroup, UserPolicy(in, req))
      <3>1. 1 \in 1..n + 3 /\ src[1] = s
        BY <2>4 DEF RadiusSourceAt
      <3> QED BY <2>1, <3>1
    <2>5. CASE s = Rad!Source(3, Rad!NoGroup, ClientPolicy(in, req))
      <3>1. n + 2 \in 1..n + 3 /\ src[n + 2] = s
        BY <2>5 DEF RadiusSourceAt
      <3> QED BY <2>1, <3>1
    <2>6. ASSUME NEW g \in live, s = Rad!Source(2, GroupKey(in.groups, g), in.groups[g].policy)
          PROVE  \E k \in 1..n + 3 : s = src[k]
      <3>1. PICK j \in 1..n : ids[j] = g
        BY <1>4
      <3>2. j + 1 \in 1..n + 3 /\ j + 1 # 1 /\ j + 1 # n + 2 /\ j + 1 # n + 3 /\ (j + 1) - 1 = j
        OBVIOUS
      <3>3. src[j + 1] = s
        BY <2>6, <3>1, <3>2 DEF RadiusSourceAt
      <3> QED BY <3>2, <3>3
    <2> QED BY <2>1, <2>2, <2>3, <2>4, <2>5, <2>6
  <1>12. ASSUME NEW j \in 1..n + 3, NEW k \in 1..n + 3, j < k
         PROVE  Ahead(src[j], src[k])
    <2>1. /\ src[j].near = (IF j = 1 THEN 1 ELSE IF j = n + 2 THEN 3 ELSE 2)
          /\ src[k].near = (IF k = n + 2 THEN 3 ELSE IF k = n + 3 THEN 4 ELSE 2)
      BY <1>12 DEF RadiusSourceAt, Rad!Source
    <2>2. CASE j # 1 /\ k # n + 2 /\ k # n + 3
      <3>1. j - 1 \in 1..n /\ k - 1 \in 1..n /\ j - 1 < k - 1 /\ j # n + 2 /\ j # n + 3 /\ k # 1
        BY <1>12, <2>2
      <3>2. src[j].group = GroupKey(in.groups, ids[j - 1]) /\ src[k].group = GroupKey(in.groups, ids[k - 1])
        BY <2>2, <3>1 DEF RadiusSourceAt, Rad!Source
      <3> QED BY <1>4, <2>1, <2>2, <3>1, <3>2 DEF Ahead
    <2> QED BY <1>12, <2>1, <2>2 DEF Ahead
  <1>13. DOMAIN src = 1..n + 3 /\ n + 3 \in Nat
    OBVIOUS
  <1> HIDE DEF src
  <1>14. Sourced(P, src, in, req)
    BY <1>8, <1>10, <1>11, <1>12, <1>13 DEF Sourced
  <1> QED BY <1>14 DEF P, e

(* The rule at which a walk stops is the rule the document means.          *)
RequestGroups(in, req) ==
  IF req.user \in DOMAIN in.users THEN Rad!Groups(in, req) ELSE {req.groups[i] : i \in DOMAIN req.groups}
LEMMA RadiusWalkDecides ==
  ASSUME NEW in, RadiusDocOK(in), NEW req, NEW groups, groups = RequestGroups(in, req),
         NEW policies, NEW src, Sourced(policies, src, in, req), NEW e, e = Rad!Compile(in),
         NEW at, at = FirstHit([k \in DOMAIN policies |-> Rad!Hits(e, policies[k], req, groups)])
  PROVE  \/ at = <<0, 0>> /\ Rad!Deciding(in, req) = {}
         \/ /\ at # <<0, 0>> /\ at[1] # 0 /\ at[1] \in DOMAIN policies
            /\ policies[at[1]] \in DOMAIN in.policies
            /\ \E l \in Rad!Live(in.policies[policies[at[1]]]) :
                 /\ Rad!Deciding(in, req) = {in.policies[policies[at[1]]][l]}
                 /\ e.policies[policies[at[1]]][at[2]] = CompiledRule(in.policies[policies[at[1]]][l], in.profiles)
  <1> DEFINE hits == [k \in DOMAIN policies |-> Rad!Hits(e, policies[k], req, groups)]
  <1> DEFINE met(p) == Rad!Matching(in, p, req)
  <1>1. PICK n \in Nat : DOMAIN policies = 1..n
    BY DEF Sourced
  <1>2. /\ DOMAIN e.policies = DOMAIN in.policies
        /\ \A p \in DOMAIN in.policies : e.policies[p] = Rad!compilePolicy(in.policies[p], in.profiles)
    BY DEF Rad!Compile
  <1>3. \A p : met(p) = {l \in DOMAIN in.policies[p] : in.policies[p][l].enabled /\ Rad!matchRule(in.policies[p][l], req, groups)}
    BY RadIs DEF Rad!Matching, RequestGroups
  <1>4. ASSUME NEW p \in DOMAIN in.policies
        PROVE  \E m, place : Placed(e.policies[p], in.policies[p], in.profiles, m, place)
    <2>1. IsSeq(in.policies[p])
      BY DEF RadiusDocOK
    <2> QED BY <1>2, <2>1, PolicyInPlace
  <1>5. ASSUME NEW p \in DOMAIN in.policies, NEW m, NEW place,
               Placed(e.policies[p], in.policies[p], in.profiles, m, place)
        PROVE  /\ Rad!Hits(e, p, req, groups) \in SUBSET (1..m)
               /\ \A i \in 1..m : i \in Rad!Hits(e, p, req, groups) <=> place[i] \in met(p)
               /\ \A l \in met(p) : l \in Rad!Live(in.policies[p])
    <2>1. Rad!Hits(e, p, req, groups) = {i \in 1..m : Rad!matchRule(e.policies[p][i], req, groups)}
      BY <1>2, <1>5 DEF Rad!Hits, Placed
    <2>2. ASSUME NEW i \in 1..m
          PROVE  Rad!matchRule(e.policies[p][i], req, groups) <=> place[i] \in met(p)
      <3>1. place[i] \in DOMAIN in.policies[p] /\ in.policies[p][place[i]].enabled
        BY <1>5 DEF Rad!Live, Placed
      <3>2. e.policies[p][i].match = in.policies[p][place[i]].match
        BY <1>5 DEF CompiledRule, Placed
      <3>3. Rad!matchRule(e.policies[p][i], req, groups) <=> Rad!matchRule(in.policies[p][place[i]], req, groups)
        BY <3>2 DEF Rad!matchRule
      <3> QED BY <1>3, <3>1, <3>3
    <2>3. \A l \in met(p) : l \in Rad!Live(in.policies[p])
      BY <1>3 DEF Rad!Live
    <2> HIDE DEF met
    <2> QED BY <2>1, <2>2, <2>3
  <1>6. ASSUME NEW k \in DOMAIN policies
        PROVE  /\ \E m \in Nat : hits[k] \in SUBSET (1..m)
               /\ policies[k] # Rad!None => (hits[k] # {} <=> met(policies[k]) # {})
               /\ hits[k] # {} => policies[k] \in DOMAIN in.policies /\ policies[k] # Rad!None
    <2> DEFINE p == policies[k]
    <2>1. CASE p \in DOMAIN in.policies
      <3>1. PICK m, place : Placed(e.policies[p], in.policies[p], in.profiles, m, place)
        BY <1>4, <2>1
      <3>2. m \in Nat /\ \A l \in Rad!Live(in.policies[p]) : \E i \in 1..m : place[i] = l
        BY <3>1 DEF Placed
      <3>3. /\ Rad!Hits(e, p, req, groups) \in SUBSET (1..m)
            /\ \A i \in 1..m : i \in Rad!Hits(e, p, req, groups) <=> place[i] \in met(p)
            /\ \A l \in met(p) : l \in Rad!Live(in.policies[p])
        BY <1>5, <2>1, <3>1
      <3>4. hits[k] = Rad!Hits(e, p, req, groups) /\ p # Rad!None
        BY <2>1 DEF RadiusDocOK
      <3> HIDE DEF p, met, hits
      <3>5. ASSUME NEW i \in hits[k]
            PROVE  met(p) # {}
        BY <3>3, <3>4
      <3>6. ASSUME NEW l \in met(p)
            PROVE  hits[k] # {}
        <4>1. PICK i \in 1..m : place[i] = l
          BY <3>2, <3>3
        <4> QED BY <3>3, <3>4, <4>1
      <3> QED BY <2>1, <3>2, <3>3, <3>4, <3>5, <3>6 DEF p
    <2>2. CASE p \notin DOMAIN in.policies
      <3>1. p = Rad!None
        BY <2>2 DEF Sourced, Rad!Known
      <3>2. hits[k] = {}
        BY <1>2, <2>2 DEF Rad!Hits
      <3> HIDE DEF hits, met
      <3> QED BY <3>1, <3>2
    <2> QED BY <2>1, <2>2
  <1> HIDE DEF hits, met
  <1>7. DOMAIN hits = DOMAIN policies /\ at = FirstHit(hits)
    BY DEF hits
  <1>8. HitsOK(hits)
    BY <1>1, <1>6, <1>7 DEF HitsOK
  <1> DEFINE bound == {s \in Rad!Sources(in, req) : met(s.policy) # {}}
  <1>9. Rad!Deciding(in, req) = {in.policies[s.policy][Soonest(met(s.policy))] :
                                   s \in {x \in bound : \A y \in bound : y = x \/ Ahead(x, y)}}
    BY RadIs DEF Rad!Deciding, Rad!Sooner, Ahead, met
  <1>10. ASSUME NEW y \in bound
         PROVE  \E k \in DOMAIN policies : y = src[k] /\ hits[k] # {}
    <2>1. PICK k \in DOMAIN policies : y = src[k]
      BY DEF Sourced
    <2>2. y.policy = policies[k] /\ policies[k] # Rad!None
      BY <2>1 DEF Sourced
    <2> QED BY <1>6, <2>1, <2>2
  <1>11. CASE at = <<0, 0>>
    <2>1. \A k \in DOMAIN policies : hits[k] = {}
      BY <1>7, <1>8, <1>11, Walked
    <2>2. bound = {}
      BY <1>10, <2>1
    <2> HIDE DEF bound
    <2> QED BY <1>9, <1>11, <2>2
  <1>12. CASE at # <<0, 0>>
    <2> DEFINE k == at[1]
    <2> DEFINE i == at[2]
    <2> DEFINE p == policies[k]
    <2>1. /\ k \in DOMAIN policies /\ k # 0 /\ i \in hits[k]
          /\ \A j \in DOMAIN policies : hits[j] # {} => k <= j
          /\ \A j \in hits[k] : i <= j
      BY <1>7, <1>8, <1>12, Walked
    <2> HIDE DEF k, i
    <2>2. p \in DOMAIN in.policies /\ p # Rad!None /\ met(p) # {} /\ src[k].policy = p
      BY <1>6, <2>1 DEF Sourced
    <2>3. src[k] \in bound
      BY <2>1, <2>2 DEF Sourced
    <2>4. ASSUME NEW y \in bound, y # src[k]
          PROVE  Ahead(src[k], y) /\ ~Ahead(y, src[k])
      <3>1. PICK j \in DOMAIN policies : y = src[j] /\ hits[j] # {}
        BY <1>10
      <3>2. k < j
        BY <1>1, <2>1, <2>4, <3>1
      <3>3. Ahead(src[k], src[j])
        BY <2>1, <3>2 DEF Sourced
      <3>4. src[k].near \in Int /\ src[j].near \in Int /\ Keyed(src[k].group) /\ Keyed(src[j].group)
        BY <2>1 DEF Sourced
      <3>5. ~Ahead(src[j], src[k])
        BY <3>3, <3>4 DEF Ahead, Before, Keyed
      <3> QED BY <3>1, <3>3, <3>5
    <2>5. {x \in bound : \A y \in bound : y = x \/ Ahead(x, y)} = {src[k]}
      <3> HIDE DEF bound
      <3> QED BY <2>3, <2>4
    <2> HIDE DEF bound, p
    <2>6. Rad!Deciding(in, req) = {in.policies[p][Soonest(met(p))]}
      BY <1>9, <2>2, <2>5
    <2>7. PICK m, place : Placed(e.policies[p], in.policies[p], in.profiles, m, place)
      BY <1>4, <2>2
    <2>8. /\ m \in Nat /\ place \in [1..m -> Rad!Live(in.policies[p])]
          /\ e.policies[p] = [j \in 1..m |-> CompiledRule(in.policies[p][place[j]], in.profiles)]
          /\ \A l \in Rad!Live(in.policies[p]) : \E j \in 1..m : place[j] = l
          /\ \A j, l \in 1..m : j <= l => place[j] <= place[l]
          /\ Rad!Live(in.policies[p]) \in SUBSET (1..Len(in.policies[p]))
      BY <2>7 DEF Placed
    <2>9. hits[k] = Rad!Hits(e, p, req, groups)
      BY <2>1 DEF hits, p
    <2>10. /\ hits[k] \in SUBSET (1..m)
           /\ \A j \in 1..m : j \in hits[k] <=> place[j] \in met(p)
           /\ \A l \in met(p) : l \in Rad!Live(in.policies[p])
      <3>1. /\ Rad!Hits(e, p, req, groups) \in SUBSET (1..m)
            /\ \A j \in 1..m : j \in Rad!Hits(e, p, req, groups) <=> place[j] \in met(p)
            /\ \A l \in met(p) : l \in Rad!Live(in.policies[p])
        BY <1>5, <2>2, <2>7
      <3> QED BY <2>9, <3>1
    <2>11. i \in 1..m /\ place[i] \in met(p)
      BY <2>1, <2>10
    <2>12. ASSUME NEW l \in met(p)
           PROVE  place[i] <= l
      <3>1. PICK j \in 1..m : place[j] = l
        BY <2>8, <2>10
      <3>2. i <= j
        BY <2>1, <2>10, <3>1
      <3> QED BY <2>8, <2>11, <3>1, <3>2
    <2>13. Soonest(met(p)) = place[i]
      <3> DEFINE top == Len(in.policies[p])
      <3>1. top \in Nat
        BY <2>2 DEF RadiusDocOK, IsSeq
      <3>2. met(p) \in SUBSET (1..top)
        BY <2>8, <2>10
      <3> HIDE DEF top
      <3>3. Soonest(met(p)) \in met(p) /\ \A j \in met(p) : Soonest(met(p)) <= j
        BY <2>11, <3>1, <3>2, Soon
      <3>4. Soonest(met(p)) \in Int /\ place[i] \in Int
        BY <2>11, <3>1, <3>2, <3>3
      <3>5. Soonest(met(p)) <= place[i] /\ place[i] <= Soonest(met(p))
        BY <2>11, <2>12, <3>3
      <3> QED BY <3>4, <3>5
    <2>14. place[i] \in Rad!Live(in.policies[p]) /\ e.policies[p][i] = CompiledRule(in.policies[p][place[i]], in.profiles)
      BY <2>8, <2>11
    <2>15. Rad!Deciding(in, req) = {in.policies[p][place[i]]}
      BY <2>6, <2>13
    <2> QED BY <1>12, <2>1, <2>2, <2>14, <2>15 DEF k, i, p
  <1> QED BY <1>11, <1>12

(* For every document that compiles and every request, the RADIUS access   *)
(* decision is the one the document means, what leaves with it is legal in *)
(* the packet it leaves in, and both engines walk the same groups          *)
(* (Evaluate of internal/policy/radius/evaluate.go).                       *)
THEOREM AcceptanceIsByRule ==
  ASSUME NEW in, RadiusDocOK(in), NEW req
  PROVE  Rad!AcceptedByRule(in, req)
  <1> SUFFICES ASSUME Rad!Compiles(in)
               PROVE  Rad!AsMeant(in, req, Rad!Evaluate(Rad!Compile(in), req), Rad!Deciding(in, req))
    BY RadiusGroups DEF Rad!AcceptedByRule
  <1> DEFINE e == Rad!Compile(in)
  <1> DEFINE d == Rad!Evaluate(e, req)
  <1> DEFINE groups == Rad!GroupsAny(e, req)
  <1> DEFINE policies == Rad!Policies(e, req)
  <1> DEFINE at == FirstHit([k \in DOMAIN policies |-> Rad!Hits(e, policies[k], req, groups)])
  <1>1. /\ e.users = in.users /\ DOMAIN e.clients = Rad!BoundClients(in)
        /\ \A c \in Rad!BoundClients(in) : e.clients[c] = in.clients[c]
        /\ DOMAIN e.policies = DOMAIN in.policies
    BY DEF Rad!Compile
  <1>2. PICK src : Sourced(policies, src, in, req)
    BY PoliciesSourced
  <1>3. groups = RequestGroups(in, req)
    BY <1>1, RadiusGroups, RadIs DEF Rad!GroupsAny, RequestGroups
  <1>4. Rad!Missing(e, policies) = {}
    <2> HIDE DEF e, policies
    <2> QED BY <1>1, <1>2 DEF Rad!Missing, Sourced, Rad!Known
  <1> DEFINE unclear == /\ req.client \in DOMAIN e.clients /\ req.endpoint = 0
                        /\ Len(e.clients[req.client].endpoints) > 1
  <1>5. d = CASE unclear -> Rad!Decision("error", <<>>, 0)
              [] ~unclear /\ at[1] = 0 -> Rad!Decision("deny", <<>>, 0)
              [] OTHER -> Rad!Matched(e.policies[policies[at[1]]][at[2]])
    <2> HIDE DEF e, policies, groups
    <2> QED BY <1>4, RadIs DEF Rad!Evaluate, Rad!FirstMatch, policies, groups
  <1>6. e = Rad!Compile(in) /\ at = FirstHit([k \in DOMAIN policies |-> Rad!Hits(e, policies[k], req, groups)])
    OBVIOUS
  <1> HIDE DEF e, d, groups, policies, at
  <1>7. \/ at = <<0, 0>> /\ Rad!Deciding(in, req) = {}
        \/ /\ at # <<0, 0>> /\ at[1] # 0 /\ at[1] \in DOMAIN policies
           /\ policies[at[1]] \in DOMAIN in.policies
           /\ \E l \in Rad!Live(in.policies[policies[at[1]]]) :
                /\ Rad!Deciding(in, req) = {in.policies[policies[at[1]]][l]}
                /\ e.policies[policies[at[1]]][at[2]] = CompiledRule(in.policies[policies[at[1]]][l], in.profiles)
    BY <1>2, <1>3, <1>6, RadiusWalkDecides
  <1> SUFFICES Rad!AsMeant(in, req, d, Rad!Deciding(in, req))
    BY DEF d, e
  <1>8. CASE unclear
    <2>1. d = [effect |-> "error", reply |-> <<>>, rule |-> 0]
      BY <1>5, <1>8 DEF Rad!Decision
    <2>2. d.effect = "error" /\ d.reply = <<>>
      BY <2>1
    <2>3. req.endpoint = 0 /\ Len(in.clients[req.client].endpoints) > 1
      BY <1>1, <1>8
    <2>4. Rad!Legal(d)
      BY <2>2 DEF Rad!Legal
    <2> QED BY <2>2, <2>3, <2>4 DEF Rad!AsMeant
  <1>9. CASE ~unclear /\ at = <<0, 0>>
    <2> HIDE DEF unclear
    <2>1. d = [effect |-> "deny", reply |-> <<>>, rule |-> 0]
      BY <1>5, <1>9 DEF Rad!Decision
    <2>2. d.effect = "deny" /\ d.reply = <<>>
      BY <2>1
    <2>3. Rad!Deciding(in, req) = {}
      BY <1>7, <1>9
    <2>4. Rad!Legal(d)
      BY <2>2 DEF Rad!Legal
    <2> QED BY <2>2, <2>3, <2>4 DEF Rad!AsMeant
  <1>10. CASE ~unclear /\ at # <<0, 0>>
    <2> HIDE DEF unclear
    <2> DEFINE p == policies[at[1]]
    <2>1. p \in DOMAIN in.policies /\ at[1] # 0
      BY <1>7, <1>10
    <2>2. PICK l \in Rad!Live(in.policies[p]) :
            /\ Rad!Deciding(in, req) = {in.policies[p][l]}
            /\ e.policies[p][at[2]] = CompiledRule(in.policies[p][l], in.profiles)
      BY <1>7, <1>10
    <2>3. d = Rad!Matched(e.policies[p][at[2]])
      BY <1>5, <1>10, <2>1
    <2> HIDE DEF p
    <2> DEFINE r == in.policies[p][l]
    <2> DEFINE all == Rad!Merged(r, in.profiles)
    <2>4. Rad!PolicyLegal(in.policies[p], in.profiles)
      BY <2>1 DEF Rad!Compiles
    <2>5. Rad!RuleLegal(r, in.profiles)
      BY <2>2, <2>4 DEF Rad!PolicyLegal
    <2> HIDE DEF r
    <2>6. r.effect \in {"permit", "deny"} /\ Rad!MergeLegal(r, in.profiles)
      BY <2>5 DEF Rad!RuleLegal
    <2>7. /\ \A i \in DOMAIN all : Rad!PacketLegal(all[i].key, r.effect)
          /\ \A i, j \in DOMAIN all : all[i].key = all[j].key /\ Rad!Def(all[i].key).single => i = j
      BY <2>6 DEF Rad!MergeLegal
    <2> HIDE DEF all
    <2>8. d = [effect |-> r.effect, reply |-> all, rule |-> r.id]
      <3> DEFINE c == CompiledRule(r, in.profiles)
      <3>1. d = Rad!Matched(c) /\ c.reply = all /\ c.effect = r.effect /\ c.id = r.id
        BY <2>2, <2>3 DEF CompiledRule, all, r
      <3> HIDE DEF c
      <3> QED BY <2>7, <3>1 DEF Rad!Matched, Rad!Decision
    <2>9. d.effect = r.effect /\ d.reply = all
      BY <2>8
    <2>10. Rad!Deciding(in, req) = {r}
      BY <2>2 DEF r
    <2>11. Rad!Legal(d)
      BY <2>6, <2>7, <2>9 DEF Rad!Legal, Rad!PacketLegal
    <2>12. d = Rad!Decision(r.effect, Rad!Merged(r, in.profiles), r.id)
      BY <2>8 DEF Rad!Decision, all
    <2> QED BY <2>6, <2>9, <2>10, <2>11, <2>12 DEF Rad!AsMeant
  <1> QED BY <1>8, <1>9, <1>10

=============================================================================
