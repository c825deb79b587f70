--------------------------- MODULE ControlSessions ---------------------------
(***************************************************************************)
(* UI sessions and event streams of the control plane (internal/api/auth,  *)
(* the token handlers of internal/api/operations, and the streams of       *)
(* internal/api/rest and internal/api/mcp) over the state manager.         *)
(*                                                                         *)
(* A request loads the snapshot once and authenticates and runs against    *)
(* it.  Between the load and the locked session table any number of        *)
(* mutations can be published, so a request can work with the view of a    *)
(* token that no longer exists.  Token handlers first publish and then, in *)
(* a second step, make the session table forget the token.  A stream       *)
(* remembers the generation it was opened under and compares it with the   *)
(* published snapshot before every write.                                  *)
(***************************************************************************)
EXTENDS StateManager

CONSTANTS
  SessionIds,   \* random ids; each is issued at most once
  Handlers,     \* token handlers running concurrently
  MaxSess,      \* Service.maxSess
  NoToken, NoSession, NoRec

ASSUME SessionAssumption ==
  /\ MaxSess \in Nat \ {0}
  /\ NoToken \notin Tokens
  /\ NoSession \notin SessionIds
  /\ NoRec \notin [token: Tokens, lapsed: BOOLEAN, gen: Nat]
  /\ NoRec \notin [token: Tokens, cred: Creds \cup {NoCred}, data: Data \cup {NoData}]

(* A request is idle, holds a cookie it has still to present, is admitted, *)
(* or serves a stream.                                                     *)
Idle == [phase |-> "idle", token |-> NoToken, session |-> NoSession, gen |-> 0]

VARIABLES
  sessions,  \* Service.sessions: token, generation, and lapsed once its time is over
  issued,    \* token, digest and grant of each session's creator (history)
  req,       \* the requests and streams in progress, by reader
  pending,   \* the token each handler has published and not yet forgotten
  elapsed    \* grants whose expires_at has passed

sessionVars == <<sessions, issued, req, pending, elapsed>>
allVars == <<vars, sessionVars>>

ControlInit ==
  /\ Init
  /\ sessions = [s \in SessionIds |-> NoRec]
  /\ issued = [s \in SessionIds |-> NoRec]
  /\ req = [r \in Readers |-> Idle]
  /\ pending = [h \in Handlers |-> NoToken]
  /\ elapsed = {}

-----------------------------------------------------------------------------
(* The session table.                                                      *)

(* The token is live in the snapshot and its grant has not expired.        *)
Usable(snap, t) ==
  snap.objects[t].source # "none" /\ snap.objects[t].val.data \notin elapsed

(* Seeded fault: the session is bound to the token id, not to its          *)
(* generation.                                                             *)
Honoured_AnyGeneration(rec, snap) ==
  ~rec.lapsed /\ Usable(snap, rec.token)

(* The checks VerifyCookie and Get make on a record they found.            *)
Honoured(rec, snap) ==
  /\ ~rec.lapsed
  /\ Usable(snap, rec.token)
  /\ snap.gen[rec.token] = rec.gen

(* Service.Get: a record that is not honoured is deleted.                  *)
Evict(s, snap) ==
  IF sessions[s] # NoRec /\ ~Honoured(sessions[s], snap)
  THEN [sessions EXCEPT ![s] = NoRec] ELSE sessions

Found(s, snap) == sessions[s] # NoRec /\ Honoured(sessions[s], snap)

(* sweepExpiredLocked.                                                     *)
Swept == [s \in SessionIds |->
            IF sessions[s] # NoRec /\ sessions[s].lapsed THEN NoRec ELSE sessions[s]]

SizeOf(table) == Cardinality({s \in SessionIds : table[s] # NoRec})

HasRoom(table) == SizeOf(table) < MaxSess

-----------------------------------------------------------------------------
(* Requests.                                                               *)

(* Service.VerifyBearer, on the snapshot just loaded.                      *)
VerifyBearer(r, c) ==
  /\ req[r] = Idle
  /\ \E t \in Tokens :
       /\ current.creds[t] = c
       /\ Usable(current, t)
       /\ req' = [req EXCEPT ![r] = [phase |-> "admitted", token |-> t,
                                     session |-> NoSession, gen |-> current.gen[t]]]
  /\ held' = [held EXCEPT ![r] = current]
  /\ UNCHANGED <<managerVars, files, sessions, issued, pending, elapsed>>

(* Seeded fault: the connection keeps the snapshot of its first request.   *)
PresentCookie_CachedSnapshot(r, s) ==
  /\ req[r] = Idle
  /\ issued[s] # NoRec
  /\ req' = [req EXCEPT ![r] = [Idle EXCEPT !.phase = "cookie", !.session = s]]
  /\ UNCHANGED <<held, managerVars, files, sessions, issued, pending, elapsed>>

(* A client that was given a cookie presents it; the request loads the     *)
(* snapshot before it looks the cookie up.                                 *)
PresentCookie(r, s) ==
  /\ req[r] = Idle
  /\ issued[s] # NoRec
  /\ held' = [held EXCEPT ![r] = current]
  /\ req' = [req EXCEPT ![r] = [Idle EXCEPT !.phase = "cookie", !.session = s]]
  /\ UNCHANGED <<managerVars, files, sessions, issued, pending, elapsed>>

(* Service.VerifyCookie, under the lock of the session table.              *)
VerifyCookie(r) ==
  LET s == req[r].session
      t == sessions[s].token
  IN  /\ req[r].phase = "cookie"
      /\ sessions' = Evict(s, held[r])
      /\ req' = [req EXCEPT ![r] =
           IF Found(s, held[r])
           THEN [phase |-> "admitted", token |-> t, session |-> s,
                 gen |-> held[r].gen[t]]
           ELSE Idle]
      /\ UNCHANGED <<vars, issued, pending, elapsed>>

(* Service.Create: only a bearer creates a session; expired records make   *)
(* room first.  A full table refuses.                                      *)
CreateSession(r, s) ==
  LET t == req[r].token
  IN  /\ req[r].phase = "admitted" /\ req[r].session = NoSession
      /\ issued[s] = NoRec
      /\ Usable(held[r], t)
      /\ held[r].gen[t] # 0
      /\ IF HasRoom(Swept)
         THEN /\ sessions' = [Swept EXCEPT ![s] = [token |-> t, lapsed |-> FALSE,
                                                   gen |-> held[r].gen[t]]]
              /\ issued' = [issued EXCEPT ![s] =
                   [token |-> t, cred |-> held[r].creds[t],
                    data |-> held[r].objects[t].val.data]]
         ELSE sessions' = Swept /\ UNCHANGED issued
      /\ req' = [req EXCEPT ![r] = Idle]
      /\ UNCHANGED <<vars, pending, elapsed>>

(* handleSessionGet for an admitted cookie.                                *)
GetSession(r) ==
  /\ req[r].phase = "admitted" /\ req[r].session # NoSession
  /\ sessions' = Evict(req[r].session, held[r])
  /\ req' = [req EXCEPT ![r] = Idle]
  /\ UNCHANGED <<vars, issued, pending, elapsed>>

(* handleSessionDelete: a request can only delete its own session.         *)
DeleteSession(r) ==
  /\ req[r].phase = "admitted" /\ req[r].session # NoSession
  /\ sessions' = [sessions EXCEPT ![req[r].session] = NoRec]
  /\ req' = [req EXCEPT ![r] = Idle]
  /\ UNCHANGED <<vars, issued, pending, elapsed>>

(* Any other operation, or the client going away.                          *)
FinishRequest(r) ==
  /\ req[r].phase \in {"admitted", "stream"}
  /\ req' = [req EXCEPT ![r] = Idle]
  /\ UNCHANGED <<vars, sessions, issued, pending, elapsed>>

-----------------------------------------------------------------------------
(* Streams.                                                                *)

(* Seeded fault: the stream is bound to the token id, not to its           *)
(* generation.                                                             *)
Revalidates_AnyGeneration(q) ==
  /\ q.gen # 0
  /\ Usable(current, q.token)
  /\ q.session # NoSession => Found(q.session, current)

(* Service.Revalidate against the published snapshot.                      *)
Revalidates(q) ==
  /\ q.gen # 0 /\ current.gen[q.token] = q.gen
  /\ Usable(current, q.token)
  /\ q.session # NoSession => Found(q.session, current)

(* Revalidate asks Get for the session only after the token passed.        *)
RevalidateEvicts(q) ==
  IF /\ current.gen[q.token] = q.gen /\ Usable(current, q.token)
     /\ q.session # NoSession
  THEN Evict(q.session, current) ELSE sessions

(* streamEvents / handleListen: the stream starts only if it is valid.     *)
OpenStream(r) ==
  /\ req[r].phase = "admitted"
  /\ sessions' = RevalidateEvicts(req[r])
  /\ req' = [req EXCEPT ![r] = IF Revalidates(req[r])
                               THEN [req[r] EXCEPT !.phase = "stream"] ELSE Idle]
  /\ UNCHANGED <<vars, issued, pending, elapsed>>

(* The stream's loop: on every event and every heartbeat it revalidates,   *)
(* and returns when that fails.                                            *)
StreamCheck(r) ==
  /\ req[r].phase = "stream"
  /\ ~Revalidates(req[r])
  /\ sessions' = RevalidateEvicts(req[r])
  /\ req' = [req EXCEPT ![r] = Idle]
  /\ UNCHANGED <<vars, issued, pending, elapsed>>

-----------------------------------------------------------------------------
(* Token handlers and time.                                                *)

(* handleTokensCreate and handleTokensRevoke: the mutation ...             *)
TokensCreate(h, t, d, c, override) ==
  /\ pending[h] = NoToken
  /\ CreateToken(t, d, c, override, AnyRevision)
  /\ pending' = [pending EXCEPT ![h] = t]
  /\ UNCHANGED <<sessions, issued, req, elapsed>>

TokensRevoke(h, t, tombstone) ==
  /\ pending[h] = NoToken
  /\ DeleteToken(t, tombstone, AnyRevision)
  /\ pending' = [pending EXCEPT ![h] = t]
  /\ UNCHANGED <<sessions, issued, req, elapsed>>

(* ... and then Service.Forget.                                            *)
Forget(h) ==
  /\ pending[h] # NoToken
  /\ sessions' = [s \in SessionIds |->
                    IF sessions[s] # NoRec /\ sessions[s].token = pending[h]
                    THEN NoRec ELSE sessions[s]]
  /\ pending' = [pending EXCEPT ![h] = NoToken]
  /\ UNCHANGED <<vars, issued, req, elapsed>>

(* config.reload and runtime.reset can end a token too; they forget        *)
(* nothing.                                                                *)
Rebase ==
  /\ \/ \E doc \in Baselines : Reload(doc, AnyRevision)
     \/ Reset(AnyRevision)
  /\ UNCHANGED sessionVars

RotateTokenFile(t, c) == RotateFile(t, c) /\ UNCHANGED sessionVars

(* The lifetime or the idle timeout of a session passes.                   *)
Lapse(s) ==
  /\ sessions[s] # NoRec
  /\ ~sessions[s].lapsed
  /\ sessions' = [sessions EXCEPT ![s].lapsed = TRUE]
  /\ UNCHANGED <<vars, issued, req, pending, elapsed>>

(* The expires_at of a grant passes.                                       *)
GrantExpires(d) ==
  /\ d \notin elapsed
  /\ elapsed' = elapsed \cup {d}
  /\ UNCHANGED <<vars, sessions, issued, req, pending>>

RequestStep(r) ==
  \/ \E c \in Creds : VerifyBearer(r, c)
  \/ \E s \in SessionIds : PresentCookie(r, s)
  \/ VerifyCookie(r)
  \/ \E s \in SessionIds : CreateSession(r, s)
  \/ GetSession(r)
  \/ DeleteSession(r)
  \/ FinishRequest(r)
  \/ OpenStream(r)
  \/ StreamCheck(r)

HandlerStep(h) ==
  \/ \E t \in Tokens, d \in Data, c \in Creds, override \in BOOLEAN :
       TokensCreate(h, t, d, c, override)
  \/ \E t \in Tokens, tombstone \in BOOLEAN : TokensRevoke(h, t, tombstone)
  \/ Forget(h)

ControlNext ==
  \/ \E r \in Readers : RequestStep(r)
  \/ \E h \in Handlers : HandlerStep(h)
  \/ Rebase
  \/ \E t \in Tokens, c \in Creds \cup {NoCred} : RotateTokenFile(t, c)
  \/ \E s \in SessionIds : Lapse(s)
  \/ \E d \in Data : GrantExpires(d)

(* The heartbeat of a stream keeps ticking.                                *)
ControlSpec ==
  /\ ControlInit /\ [][ControlNext]_allVars
  /\ \A r \in Readers : WF_allVars(StreamCheck(r))

-----------------------------------------------------------------------------
(* Properties.                                                             *)

(* A cookie speaks for the bearer it was issued to: however creation,      *)
(* revocation, replacement and lookups interleave, an admitted session     *)
(* request works with a token that still has the digest and the grant its  *)
(* session was created with.                                               *)
CookieSpeaksForBearer ==
  \A r \in Readers :
    LET q == req[r]
    IN  q.phase = "admitted" /\ q.session # NoSession
          => /\ issued[q.session].token = q.token
             /\ issued[q.session].cred = held[r].creds[q.token]
             /\ issued[q.session].data = held[r].objects[q.token].val.data

(* A request with an outdated snapshot never costs a client its session:   *)
(* a record that is bound to the current generation of a usable token and  *)
(* has not lapsed goes away only by logout or because a handler forgets    *)
(* the token.                                                              *)
EvictedOnlyWhenDead ==
  [][\A s \in SessionIds :
       LET rec == sessions[s]
       IN  (rec # NoRec /\ sessions'[s] = NoRec /\ Honoured(rec, current))
             => \/ \E r \in Readers : req[r].session = s /\ DeleteSession(r)
                \/ \E h \in Handlers : pending[h] = rec.token /\ Forget(h)]_allVars

(* A stream does not outlive its token's incarnation: once the generation  *)
(* it was opened under is no longer current it ends.                       *)
RevokedStreamEnds ==
  \A r \in Readers :
    (/\ req[r].phase = "stream"
     /\ req[r].gen # current.gen[req[r].token]) ~> req[r].phase # "stream"

=============================================================================
