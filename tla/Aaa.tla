-------------------------------- MODULE Aaa --------------------------------
(***************************************************************************)
(* The AAA service (internal/aaa) with the credential checks it makes      *)
(* (internal/credentials): interactive and one-shot TACACS+ logins, enable *)
(* and password changes, and RADIUS access attempts.                       *)
(*                                                                         *)
(* A conversation keeps the snapshot of its START and verifies against it  *)
(* to the end, while the control plane publishes others; what a secret     *)
(* file holds is read at every verification.  A changed password is        *)
(* published only over the revision of the START.                          *)
(*                                                                         *)
(* A response to a challenge stands for the secret it was made from.       *)
(* Authorization is in Policy, the decision after a RADIUS credential pass *)
(* in RadiusPolicy: here the document says whom it permits.                *)
(***************************************************************************)
EXTENDS Naturals, Sequences, FiniteSets

CONSTANTS
  Keys,         \* connection and session of a conversation
  Users,        \* canonical user ids
  Words,        \* what can be a secret
  Canonical,    \* CanonicalUsername: what can be typed as a name -> id
  Starts,       \* START packets
  Attempts,     \* RADIUS access attempts
  Documents,    \* what the control plane can publish
  Contents,     \* what the secret files can hold
  MaxRounds,    \* limits.max_authentication_rounds
  MaxRevision   \* bound on revisions from the control plane

(* A change of password is an action of a START and no type of one.        *)
ASSUME AaaAssumption ==
  /\ MaxRounds \in Nat \ {0} /\ MaxRevision \in Nat
  /\ \A st \in Starts : st.type # "chpass"

VARIABLES
  current,   \* the published snapshot: a revision and a document
  files,     \* what the secret files hold (external)
  elapsed,   \* the users whose valid_before has passed
  sessions,  \* Service.sessions
  reply,     \* the last reply to each conversation, and the snapshot then
  said,      \* START, its snapshot, and what was typed since (history)
  access     \* a RADIUS attempt with the snapshot it was admitted under

vars == <<current, files, elapsed, sessions, reply, said, access>>

Empty == ""      \* nothing typed, no name, no secret
Typed == Words \cup DOMAIN Canonical \cup {Empty}
NoSession == [flow |-> "none"]
NoReply == [status |-> "none"]
NoAttempt == [verdict |-> "none"]

Init ==
  /\ \E d \in Documents : current = [rev |-> 1, doc |-> d]
  /\ files \in Contents
  /\ elapsed = {}
  /\ sessions = [k \in Keys |-> NoSession]
  /\ reply = [k \in Keys |-> NoReply]
  /\ said = [k \in Keys |-> <<>>]
  /\ access = NoAttempt

-----------------------------------------------------------------------------
(* Credentials                                                             *)

(* canonUser: what is no name stays as it is.                              *)
canonUser(typed) == IF typed \in DOMAIN Canonical THEN Canonical[typed] ELSE typed

(* resolveSecret: a runtime secret is in the snapshot, any other is read   *)
(* now; one that cannot be read or is no verifier is as good as none.      *)
resolveSecret(doc, u, slot) ==
  LET ref == doc.users[u].secret[slot]
  IN IF ref.at = "file" THEN files[slot] ELSE ref.word

(* Service.lookup.                                                         *)
Known(doc, u) == u \in DOMAIN doc.users
lookup(doc, u, client) ==
  /\ Known(doc, u)
  /\ doc.users[u].enabled
  /\ doc.users[u].clients = {} \/ client \in doc.users[u].clients
  /\ u \notin elapsed

(* VerifyArgon2id: what parses as a verifier is that of one word, and of   *)
(* no empty one; verifyCHAP, verifyMSCHAPv1 and verifyMSCHAPv2: a response *)
(* was made from one secret.                                               *)
VerifyArgon2id(stored, word) == word # Empty /\ stored = word
verifyResponse(stored, word) == word # Empty /\ stored = word

(* VerifyASCIIOrPAP, VerifyEnable, VerifyCHAP and VerifyMSCHAP: each has   *)
(* its own material and no other.                                          *)
Verify(doc, u, client, slot, word) ==
  /\ lookup(doc, u, client)
  /\ IF slot = "challenge" THEN verifyResponse(resolveSecret(doc, u, slot), word)
     ELSE VerifyArgon2id(resolveSecret(doc, u, slot), word)

(* DeriveLoginVerifier and DeriveEnableVerifier: a verifier kept in memory.*)
DeriveVerifier(word) == [at |-> "memory", word |-> word]

mustChange(doc, u, slot) == Known(doc, u) /\ slot \in doc.users[u].must

-----------------------------------------------------------------------------
(* History: the kinds of secret a word is the right one of, for a user at  *)
(* a client, as the document, the files and the clock are.                 *)

Truth(doc, u, slot) ==
  IF doc.users[u].secret[slot].at = "file" THEN files[slot] ELSE doc.users[u].secret[slot].word
Right(doc, typed, client, word) ==
  LET u == canonUser(typed)
      may == /\ u \in DOMAIN doc.users
             /\ doc.users[u].enabled /\ u \notin elapsed
             /\ doc.users[u].clients = {} \/ client \in doc.users[u].clients
  IN {slot \in {"login", "enable", "challenge"} : may /\ word # Empty /\ Truth(doc, u, slot) = word}

(* What a conversation heard: the name, wherever it was given, and the     *)
(* words after it.                                                         *)
Name(h) == IF h[1].start.user = Empty /\ Len(h) > 1 THEN h[2].typed ELSE h[1].start.user
Given(h) == SubSeq(h, IF h[1].start.user = Empty THEN 3 ELSE 2, Len(h))

-----------------------------------------------------------------------------
(* START                                                                   *)

(* classifyStart: the flow, or the status that ends it.                    *)
classifyStart(st) ==
  CASE st.action = "login" /\ st.service = "enable" -> "enable"
    [] st.action = "login" /\ st.service = "none" -> "fail"
    [] st.action = "login" /\ st.service \notin {"enable", "none"} -> st.type
    [] st.action = "chpass" /\ st.service = "enable" -> "fail"
    [] st.action = "chpass" /\ st.service = "none" /\ st.type = "ascii" -> "fail"
    [] st.action = "chpass" /\ st.service \notin {"enable", "none"} /\ st.type = "ascii" -> "chpass"
    [] OTHER -> "error"

Interactive == {"ascii", "enable", "chpass"}
OneShot == {"pap", "chap", "mschapv1", "mschapv2"}

(* methodAllowed: a client that lists no methods allows all.               *)
methodAllowed(doc, client, method) ==
  /\ client \in DOMAIN doc.clients
  /\ doc.clients[client].enabled
  /\ doc.clients[client].methods = {} \/ method \in doc.clients[client].methods

SlotOf(flow) ==
  CASE flow \in {"chap", "mschapv1", "mschapv2"} -> "challenge"
    [] flow = "enable" -> "enable"
    [] OTHER -> "login"

(* oneShotPAP, oneShotCHAP, oneShotMSCHAP and finishOneShotOutcome: data   *)
(* of the wrong shape is an error for every identity.                      *)
oneShot(doc, st, flow) ==
  LET user == canonUser(st.user)
      passes == /\ user # Empty
                /\ Verify(doc, user, st.client, SlotOf(flow), st.data)
                /\ ~mustChange(doc, user, "login")
  IN IF flow # "pap" /\ ~st.shaped THEN "error" ELSE IF passes THEN "pass" ELSE "fail"

(* beginInteractive.                                                       *)
newSession(snap, st, flow) ==
  [flow |-> flow, user |-> canonUser(st.user), client |-> st.client, snap |-> snap,
   needUser |-> st.user = Empty, needOld |-> flow = "chpass", needNew |-> flow = "chpass",
   needConfirm |-> FALSE, newPass |-> Empty, fails |-> 0]
FirstPrompt(flow, user) ==
  CASE user = Empty -> "getuser"
    [] user # Empty /\ flow = "chpass" -> "getdata"
    [] OTHER -> "getpass"

Answer(status) == [status |-> status, snap |-> current']

(* BeginAuthentication.  The connection begins a conversation only for a   *)
(* session that has none (TacacsConn); the drop is a precaution.           *)
Begin(k, st) ==
  LET flow == classifyStart(st)
      doc == current.doc
      status == IF ~st.fits THEN "error"
                ELSE IF flow \notin Interactive \cup OneShot THEN IF flow = "fail" THEN "fail" ELSE "error"
                ELSE IF ~methodAllowed(doc, st.client, flow) THEN "restart"
                ELSE IF flow \in OneShot THEN oneShot(doc, st, flow)
                ELSE IF flow = "enable" /\ st.overPriv THEN "fail"
                ELSE FirstPrompt(flow, canonUser(st.user))
  IN /\ sessions[k] = NoSession
     /\ sessions' = [sessions EXCEPT ![k] =
          IF status \in {"getuser", "getpass", "getdata"} THEN newSession(current, st, flow) ELSE NoSession]
     /\ said' = [said EXCEPT ![k] = <<[start |-> st, snap |-> current,
                                        right |-> Right(doc, st.user, st.client, st.data)]>>]
     /\ UNCHANGED <<current, files, elapsed, access>>
     /\ reply' = [reply EXCEPT ![k] = Answer(status)]

-----------------------------------------------------------------------------
(* CONTINUE                                                                *)

Ended(k) == sessions' = [sessions EXCEPT ![k] = NoSession]
Kept(k, s) == sessions' = [sessions EXCEPT ![k] = s]
Hears(k, typed) ==
  /\ said' = [said EXCEPT ![k] = Append(@, [typed |-> typed,
                 right |-> Right(@[1].snap.doc, Name(@), @[1].start.client, typed)])]
  /\ UNCHANGED <<files, elapsed, access>>
Replies(k, status) == UNCHANGED current /\ reply' = [reply EXCEPT ![k] = Answer(status)]

GiveUser(k, typed) ==
  LET s == sessions[k]
  IN /\ s.needUser
     /\ Kept(k, [s EXCEPT !.user = canonUser(typed), !.needUser = FALSE])
     /\ Replies(k, IF s.flow = "chpass" THEN "getdata" ELSE "getpass")

(* retryOrFail.                                                            *)
retryOrFail(k, s, prompt) ==
  IF s.fails + 1 >= MaxRounds
  THEN Ended(k) /\ Replies(k, "fail")
  ELSE Kept(k, [s EXCEPT !.fails = @ + 1]) /\ Replies(k, prompt)

Verified(s, typed) == Verify(s.snap.doc, s.user, s.client, SlotOf(s.flow), typed)

(* Seeded fault: a password that must be changed is good enough once more. *)
finishPassword_Lenient(k, typed) ==
  LET s == sessions[k]
  IN /\ s.flow # "chpass" /\ ~s.needUser /\ ~s.needNew /\ ~s.needConfirm
     /\ IF Verified(s, typed) THEN Ended(k) /\ Replies(k, "pass") ELSE retryOrFail(k, s, "getpass")
(* finishPassword: a password that must be changed is changed in the same  *)
(* conversation, where the client may.                                     *)
finishPassword(k, typed) ==
  LET s == sessions[k]
      must == mustChange(s.snap.doc, s.user, SlotOf(s.flow))
      may == s.flow = "enable" \/ methodAllowed(s.snap.doc, s.client, "chpass")
  IN /\ s.flow # "chpass" /\ ~s.needUser /\ ~s.needNew /\ ~s.needConfirm
     /\ CASE ~Verified(s, typed) -> retryOrFail(k, s, "getpass")
          [] Verified(s, typed) /\ must /\ ~may -> Ended(k) /\ Replies(k, "fail")
          [] Verified(s, typed) /\ must /\ may ->
               Kept(k, [s EXCEPT !.needNew = TRUE, !.fails = 0]) /\ Replies(k, "getpass")
          [] OTHER -> Ended(k) /\ Replies(k, "pass")

(* The first part of continueCHPASS.                                       *)
giveOld(k, typed) ==
  LET s == sessions[k]
  IN /\ s.flow = "chpass" /\ ~s.needUser /\ s.needOld
     /\ IF Verified(s, typed)
        THEN Kept(k, [s EXCEPT !.needOld = FALSE, !.fails = 0]) /\ Replies(k, "getpass")
        ELSE retryOrFail(k, s, "getdata")

(* continueNewConfirm, and continueCHPASS after the old password.          *)
giveNew(k, typed) ==
  LET s == sessions[k]
  IN /\ ~s.needUser /\ ~s.needOld /\ s.needNew
     /\ IF typed = Empty THEN Ended(k) /\ Replies(k, "fail")
        ELSE /\ Kept(k, [s EXCEPT !.newPass = typed, !.needNew = FALSE, !.needConfirm = TRUE])
             /\ Replies(k, "getpass")

(* Manager.OverrideLoginVerifier and OverrideEnableVerifier: the new       *)
(* secret in memory and the duty to change it gone.                        *)
Override(doc, u, slot, word) ==
  [doc EXCEPT !.users[u].secret[slot] = DeriveVerifier(word),
              !.users[u].must = @ \ {slot}]
Overridable(doc, u) == Known(doc, u) /\ doc.users[u].shadowable

(* The revision of the START is still the published one.                   *)
MayPublish(s) == current.rev = s.snap.rev /\ Overridable(current.doc, s.user)

(* publishLogin and publishEnable.  Compilation can fail for reasons that  *)
(* have nothing to do with the change: that is an error.                   *)
giveConfirm(k, typed, compiles) ==
  LET s == sessions[k]
  IN /\ ~s.needUser /\ ~s.needOld /\ s.needConfirm
     /\ Ended(k)
     /\ CASE typed # s.newPass -> Replies(k, "fail")
          [] typed = s.newPass /\ ~MayPublish(s) -> Replies(k, "fail")
          [] typed = s.newPass /\ MayPublish(s) /\ ~compiles -> Replies(k, "error")
          [] OTHER ->
               /\ current.rev <= MaxRevision
               /\ current' = [rev |-> current.rev + 1,
                              doc |-> Override(current.doc, s.user, SlotOf(s.flow), typed)]
               /\ reply' = [reply EXCEPT ![k] = Answer("pass")]

(* ContinueAuthentication.                                                 *)
Continue(k, typed) ==
  /\ sessions[k] # NoSession
  /\ Hears(k, typed)
  /\ \/ GiveUser(k, typed)
     \/ finishPassword(k, typed)
     \/ giveOld(k, typed)
     \/ giveNew(k, typed)
     \/ \E compiles \in BOOLEAN : giveConfirm(k, typed, compiles)

(* AbortAuthentication, for an abort flag and for the end of the session.  *)
Abort(k) ==
  /\ sessions[k] # NoSession
  /\ Ended(k)
  /\ UNCHANGED <<current, files, elapsed, said, access>>
  /\ reply' = [reply EXCEPT ![k] = Answer("fail")]

-----------------------------------------------------------------------------
(* RADIUS access                                                           *)

(* The listener loads the snapshot and later asks for a decision under it. *)
AdmitAccess(a) ==
  /\ access.verdict # "pending"
  /\ access' = [verdict |-> "pending", attempt |-> a, snap |-> current]
  /\ UNCHANGED <<current, files, elapsed, sessions, reply, said>>

(* evaluateAccess and mapPolicyResult.                                     *)
evaluateAccess(doc, user) ==
  IF user \in doc.permits THEN "accept" ELSE "reject_policy"

(* AuthenticateAccess: EAP-MD5 evidence is checked as CHAP is.             *)
AuthenticateAccess ==
  LET a == access.attempt
      doc == access.snap.doc
      user == canonUser(a.user)
      slot == IF a.method = "password" THEN "login" ELSE "challenge"
      verdict ==
        IF a.method \notin {"password", "chap", "mschapv1", "mschapv2", "eap"} THEN "reject_unsupported"
        ELSE IF ~Verify(doc, user, a.client, slot, a.word) THEN "reject_credentials"
        ELSE IF mustChange(doc, user, "login") THEN "reject_change_required"
        ELSE evaluateAccess(doc, user)
  IN /\ access.verdict = "pending"
     /\ access' = [verdict |-> verdict, attempt |-> a, snap |-> access.snap,
                   right |-> Right(doc, a.user, a.client, a.word)]
     /\ UNCHANGED <<current, files, elapsed, sessions, reply, said>>

-----------------------------------------------------------------------------
(* Around it: the control plane, the files and the clock.                  *)

Publish(d) ==
  /\ current.rev < MaxRevision
  /\ current' = [rev |-> current.rev + 1, doc |-> d]
  /\ UNCHANGED <<files, elapsed, sessions, reply, said, access>>

RotateFiles(c) ==
  /\ files' = c
  /\ UNCHANGED <<current, elapsed, sessions, reply, said, access>>

Expire(u) ==
  /\ elapsed' = elapsed \cup {u}
  /\ UNCHANGED <<current, files, sessions, reply, said, access>>

Conversation(k) ==
  \/ \E st \in Starts : Begin(k, st)
  \/ \E typed \in Typed : Continue(k, typed)
  \/ Abort(k)

Next ==
  \/ \E k \in Keys : Conversation(k)
  \/ \E a \in Attempts : AdmitAccess(a)
  \/ AuthenticateAccess
  \/ \E d \in Documents : Publish(d)
  \/ \E c \in Contents : RotateFiles(c)
  \/ \E u \in Users : Expire(u)

Spec == Init /\ [][Next]_vars

-----------------------------------------------------------------------------
(* Properties                                                              *)

(* A pass of a conversation that typed g, the i-th word of which was the   *)
(* first right one: either that was all and nothing had to be changed, or  *)
(* two equal words followed and are now the secret, published as the next  *)
(* revision after that of the START.                                       *)
EarnedAt(h, i, slot, now) ==
  LET g == Given(h)
      doc == h[1].snap.doc
      u == canonUser(Name(h))
      owed == slot \in doc.users[u].must \/ h[1].start.action = "chpass"
  IN /\ i <= MaxRounds
     /\ slot \in g[i].right /\ \A j \in 1..(i - 1) : slot \notin g[j].right
     /\ IF ~owed THEN Len(g) = i
        ELSE /\ Len(g) = i + 2
             /\ g[i + 1].typed = g[i + 2].typed /\ g[i + 1].typed # Empty
             /\ now.rev = h[1].snap.rev + 1
             /\ now.doc = Override(doc, u, slot, g[i + 1].typed)

(* PASS is earned: by the right secret of the right kind for the named     *)
(* user, under the document of the START, within the allowed rounds, and   *)
(* with the change a must-change flag asks for made over that very         *)
(* revision; a client is never passed by a method it does not allow.  An   *)
(* access attempt is accepted by the right secret too, under the snapshot  *)
(* it was admitted with, and never with a change owed.                     *)
PassIsEarned ==
  /\ \A k \in Keys : reply[k].status = "pass" =>
       LET h == said[k]
           st == h[1].start
           doc == h[1].snap.doc
           flow == classifyStart(st)
       IN /\ doc.clients[st.client].enabled
          /\ doc.clients[st.client].methods = {} \/ flow \in doc.clients[st.client].methods
          /\ IF flow \in OneShot
             THEN /\ SlotOf(flow) \in h[1].right
                  /\ "login" \notin doc.users[canonUser(st.user)].must
             ELSE \E i \in DOMAIN Given(h) : EarnedAt(h, i, SlotOf(flow), reply[k].snap)
  /\ access.verdict = "accept" =>
       LET a == access.attempt
           doc == access.snap.doc
           u == canonUser(a.user)
       IN /\ (IF a.method = "password" THEN "login" ELSE "challenge") \in access.right
          /\ u \in doc.permits /\ "login" \notin doc.users[u].must

=============================================================================
