------------------------------ MODULE Sessions ------------------------------
(***************************************************************************)
(* Login sessions of CloudNotes: refresh tokens, their rotation and        *)
(* revocation, password changes and password-reset tokens                  *)
(* (backend/app/routers/auth.py, users.py, dependencies.py, and the token  *)
(* purge of scheduler.py).                                                 *)
(*                                                                         *)
(* Every endpoint is a plain `def`, so FastAPI runs it on a thread of the  *)
(* worker pool and two requests interleave at every call to PostgreSQL     *)
(* (READ COMMITTED, one Session and several commits per request) or Redis. *)
(* One action here is what a handler does up to and including one commit   *)
(* or one Redis call; reads whose result nothing later can invalidate are  *)
(* merged with the step that follows them, and an UPDATE with its commit.  *)
(*                                                                         *)
(* A Request is one HTTP request, made at most once.  The token a request  *)
(* creates (a refresh_tokens row, or a pwd_reset key in Redis) is named by *)
(* that request, so Request bounds requests and tokens at once.  Requests  *)
(* that are turned away without touching any state are not represented.   *)
(***************************************************************************)
EXTENDS Naturals, FiniteSets

CONSTANTS
    Request,            \* the HTTP requests of a behaviour
    User,               \* registered accounts
    None,               \* "no user" / "no token"
    Workers,            \* threads that run handlers; 1 = one request at a time
    Faults,             \* may a handler die between two of its commits?
    AUTO_VERIFY_EMAILS  \* the setting that enables the /dev-* endpoints

ASSUME RequestAssumption == IsFiniteSet(Request) /\ None \notin Request
ASSUME UserAssumption    == None \notin User
ASSUME WorkersAssumption == Workers \in Nat \ {0}
ASSUME SwitchAssumption  == Faults \in BOOLEAN /\ AUTO_VERIFY_EMAILS \in BOOLEAN

VARIABLES
    password,   \* users.password_hash, as a version number per user
    is_active,  \* users.is_active
    row,        \* refresh_tokens: state of the row each request inserted
    expired,    \* the tokens whose expires_at has passed
    reset_key,  \* Redis pwd_reset:<hash>: state of the key each request set
    audit,      \* the requests whose audit_logs row is committed
    held,       \* the requests whose raw token reached a client
    op,         \* handler a request runs
    pc,         \* what that handler does next
    who,        \* user it acts for
    tok,        \* token it was presented with (cookie, body or session id)
    cred,       \* password version it verified, inherited through rotation;
                \* for a password change, the version it installed
    changed,    \* history: the requests that committed a new password
    missed      \* history: the requests that were between their credential
                \* check and their INSERT when _revoke_all_refresh_tokens ran
                \* for their user, and what was rotated out of them

database == <<password, is_active, row, expired, audit>>
history  == <<changed, missed>>
request  == <<op, who, tok, cred>>
vars     == <<database, reset_key, held, pc, request, history>>

Handlers == {"login", "refresh", "logout", "revoke_session",
             "revoke_all_sessions", "update_my_profile", "forgot_password",
             "reset_password", "dev_reset_password"}
Running  == {"audit", "user", "rotate", "issue", "mark_expired", "revoke_one",
             "revoke_all", "change", "delete_key", "send"}
Issuing  == {"audit", "user", "rotate", "issue"}

-----------------------------------------------------------------------------
Init ==
    /\ password = [u \in User |-> 0]
    /\ is_active = [u \in User |-> TRUE]
    /\ row = [r \in Request |-> "none"]
    /\ expired = {}
    /\ reset_key = [r \in Request |-> "none"]
    /\ audit = {}
    /\ held = {}
    /\ op = [r \in Request |-> "none"]
    /\ pc = [r \in Request |-> "idle"]
    /\ who = [r \in Request |-> None]
    /\ tok = [r \in Request |-> None]
    /\ cred = [r \in Request |-> 0]
    /\ changed = {}
    /\ missed = {}

InFlight == {r \in Request : pc[r] \in Running}
ThreadFree == Cardinality(InFlight) < Workers

(* Request r starts handler h for user u, presented with token t, and does *)
(* step `next` first.                                                      *)
Begin(r, h, u, t, c, next) ==
    /\ pc[r] = "idle"
    /\ ThreadFree
    /\ op' = [op EXCEPT ![r] = h]
    /\ who' = [who EXCEPT ![r] = u]
    /\ tok' = [tok EXCEPT ![r] = t]
    /\ cred' = [cred EXCEPT ![r] = c]
    /\ pc' = [pc EXCEPT ![r] = next]

Goto(r, next) == pc' = [pc EXCEPT ![r] = next] /\ UNCHANGED request

(* get_current_user: a Bearer token from a login or a refresh of u, still  *)
(* within its lifetime (which is shorter than the refresh token's), and an *)
(* active account.  The token is not looked up anywhere, so revoking the   *)
(* session it came with does not revoke it.                                *)
get_current_user(u) ==
    /\ \E s \in held \ expired : op[s] \in {"login", "refresh"} /\ who[s] = u
    /\ is_active[u]

-----------------------------------------------------------------------------
(* _revoke_all_refresh_tokens: one UPDATE, which sees the rows committed   *)
(* when it runs and no row inserted after.  (An operator marked as a        *)
(* mutant is a slip a check is expected to catch; the model never uses it.) *)

RevocableOfAnyUser(t, u) == row[t] = "live"                     \* mutant: no user_id filter
RevocableInverted(t, u) == row[t] = "revoked" /\ who[t] = u     \* mutant: revoked == True
Revocable(t, u) == row[t] = "live" /\ who[t] = u

RevokeRowsOf(u) ==
    /\ row' = [t \in Request |-> IF Revocable(t, u) THEN "revoked" ELSE row[t]]
    /\ missed' = missed \cup {i \in Request : pc[i] \in Issuing /\ who[i] = u}

RevokeAll(r) ==
    /\ pc[r] = "revoke_all"
    /\ RevokeRowsOf(who[r])
    /\ Goto(r, IF op[r] = "refresh" THEN "reuse_denied" ELSE "answered")
    /\ UNCHANGED <<password, is_active, expired, audit, reset_key, held, changed>>

(* `rt.revoked = True; db.commit()` on a row read earlier.  The ORM's      *)
(* UPDATE names only the row's id, so it succeeds whatever happened to the *)
(* row since, unless the purge deleted it: then SQLAlchemy raises          *)
(* StaleDataError and the request answers 500.                             *)
MarkRevoked(r, next) ==
    /\ \/ /\ row[tok[r]] = "purged"
          /\ Goto(r, "failed")
          /\ UNCHANGED row
       \/ /\ row[tok[r]] # "purged"
          /\ row' = [row EXCEPT ![tok[r]] = "revoked"]
          /\ Goto(r, next)
    /\ UNCHANGED <<password, is_active, expired, audit, reset_key, held, history>>

-----------------------------------------------------------------------------
(* POST /login *)

LoginCheck(r, u) ==
    /\ is_active[u]
    /\ Begin(r, "login", u, None, password[u], "audit")
    /\ UNCHANGED <<database, reset_key, held, history>>

LoginWithoutAudit(r) ==                       \* mutant: log_action after issue
    /\ pc[r] = "audit"
    /\ Goto(r, "issue")
    /\ UNCHANGED <<database, reset_key, held, history>>

LoginAudit(r) ==
    /\ pc[r] = "audit"
    /\ audit' = audit \cup {r}
    /\ Goto(r, "issue")
    /\ UNCHANGED <<password, is_active, row, expired, reset_key, held, history>>

(* _issue_refresh_token: the row is committed and then the answer carries  *)
(* the raw token; a crash in between leaves a session nobody holds.        *)
Issue(r) ==
    /\ pc[r] = "issue"
    /\ row' = [row EXCEPT ![r] = "live"]
    /\ \/ held' = held \cup {r} /\ Goto(r, "answered")
       \/ Faults /\ UNCHANGED held /\ Goto(r, "failed")
    /\ UNCHANGED <<password, is_active, expired, audit, reset_key, history>>

-----------------------------------------------------------------------------
(* POST /refresh *)

AfterReadNoReuse(t) ==                        \* mutant: no reuse detection
    IF t \in expired THEN "mark_expired" ELSE "user"

AfterRead(t) ==
    IF row[t] = "revoked" THEN "revoke_all"
    ELSE IF t \in expired THEN "mark_expired" ELSE "user"

RefreshRead(r, t) ==
    /\ t \in held
    /\ row[t] \in {"live", "revoked"}
    /\ Begin(r, "refresh", who[t], t, cred[t], AfterRead(t))
    /\ missed' = IF t \in missed THEN missed \cup {r} ELSE missed
    /\ UNCHANGED <<database, reset_key, held, changed>>

RefreshUser(r) ==
    /\ pc[r] = "user"
    /\ Goto(r, IF is_active[who[r]] THEN "rotate" ELSE "answered")
    /\ UNCHANGED <<database, reset_key, held, history>>

IssueWithoutRotating(r) ==                    \* mutant: old token kept
    /\ pc[r] = "rotate"
    /\ Goto(r, "issue")
    /\ UNCHANGED <<database, reset_key, held, history>>

Rotate(r) == pc[r] = "rotate" /\ MarkRevoked(r, "issue")

MarkExpired(r) == pc[r] = "mark_expired" /\ MarkRevoked(r, "answered")

-----------------------------------------------------------------------------
(* POST /logout, DELETE /sessions/{id}, DELETE /sessions *)

Logout(r, t) ==
    /\ t \in held
    /\ row[t] = "live"
    /\ Begin(r, "logout", who[t], t, 0, "revoke_one")
    /\ UNCHANGED <<database, reset_key, held, history>>

OwnSession(u) == {t \in Request : row[t] = "live" /\ who[t] = u}

RevokeSession(r, u, t) ==
    /\ get_current_user(u)
    /\ t \in OwnSession(u)
    /\ Begin(r, "revoke_session", u, t, 0, "revoke_one")
    /\ UNCHANGED <<database, reset_key, held, history>>

RevokeOne(r) == pc[r] = "revoke_one" /\ MarkRevoked(r, "answered")

RevokeAllSessions(r, u) ==
    /\ get_current_user(u)
    /\ Begin(r, "revoke_all_sessions", u, None, 0, "revoke_all")
    /\ UNCHANGED <<database, reset_key, held, history>>

-----------------------------------------------------------------------------
(* PUT /users/me, POST /forgot-password, /reset-password,                  *)
(* /dev-reset-password.  Every change installs a new version: choosing the *)
(* same password again counts as a change.                                 *)

UpdateMyProfile(r, u) ==
    /\ get_current_user(u)
    /\ Begin(r, "update_my_profile", u, None, 0, "change")
    /\ UNCHANGED <<database, reset_key, held, history>>

ForgotPassword(r, u) ==
    /\ Begin(r, "forgot_password", u, None, 0, "send")
    /\ reset_key' = [reset_key EXCEPT ![r] = "set"]
    /\ UNCHANGED <<database, held, history>>

(* Background task after the answer; _send_email swallows SMTP errors.     *)
SendResetEmail(r) ==
    /\ pc[r] = "send"
    /\ \/ held' = held \cup {r}
       \/ UNCHANGED held
    /\ Goto(r, "answered")
    /\ UNCHANGED <<database, reset_key, history>>

KeyOwnerUnread(k) == None                     \* mutant: the stored id is ignored
KeyOwner(k) == who[k]

ResetRead(r, k) ==
    /\ k \in held
    /\ reset_key[k] = "set"
    /\ Begin(r, "reset_password", KeyOwner(k), k, 0, "change")
    /\ UNCHANGED <<database, reset_key, held, history>>

AfterChangeAnswer(r) == "answered"            \* mutant: sessions not revoked
AfterChangeKeepKey(r) == "revoke_all"         \* mutant: key not deleted
AfterChange(r) == IF op[r] = "reset_password" THEN "delete_key" ELSE "revoke_all"

(* The commit of the new password hash; /reset-password commits an audit   *)
(* row with it, /users/me does not.                                        *)
ChangePassword(r) ==
    LET u == who[r] IN
    /\ pc[r] = "change"
    /\ password' = [password EXCEPT ![u] = @ + 1]
    /\ cred' = [cred EXCEPT ![r] = password[u] + 1]
    /\ changed' = changed \cup {r}
    /\ audit' = IF op[r] = "reset_password" THEN audit \cup {r} ELSE audit
    /\ pc' = [pc EXCEPT ![r] = AfterChange(r)]
    /\ UNCHANGED <<is_active, row, expired, reset_key, held, op, who, tok, missed>>

DeleteKey(r) ==
    /\ pc[r] = "delete_key"
    /\ reset_key' = [reset_key EXCEPT ![tok[r]] = "gone"]
    /\ Goto(r, "revoke_all")
    /\ UNCHANGED <<database, held, history>>

(* The new hash is still pending when _revoke_all_refresh_tokens commits,  *)
(* so both take effect in one transaction.                                 *)
DevResetPassword(r, u) ==
    /\ AUTO_VERIFY_EMAILS
    /\ Begin(r, "dev_reset_password", u, None, password[u] + 1, "answered")
    /\ password' = [password EXCEPT ![u] = @ + 1]
    /\ changed' = changed \cup {r}
    /\ RevokeRowsOf(u)
    /\ UNCHANGED <<is_active, expired, audit, reset_key, held>>

-----------------------------------------------------------------------------
(* The environment: accounts suspended and reinstated by their own          *)
(* handlers (a user may also deactivate the account, with the effect of a  *)
(* suspension), time, the 03:00 job, Redis expiry, and handlers that die   *)
(* or that a database or Redis error ends with a 500.                      *)

SuspendUser(u) ==
    /\ ThreadFree
    /\ is_active[u]
    /\ is_active' = [is_active EXCEPT ![u] = FALSE]
    /\ UNCHANGED <<password, row, expired, audit, reset_key, held, pc, request, history>>

UnsuspendUser(u) ==
    /\ ThreadFree
    /\ ~is_active[u]
    /\ is_active' = [is_active EXCEPT ![u] = TRUE]
    /\ UNCHANGED <<password, row, expired, audit, reset_key, held, pc, request, history>>

Expire(t) ==
    /\ row[t] \in {"live", "revoked"}
    /\ t \notin expired
    /\ expired' = expired \cup {t}
    /\ UNCHANGED <<password, is_active, row, audit, reset_key, held, pc, request, history>>

ExpireKey(k) ==
    /\ reset_key[k] = "set"
    /\ reset_key' = [reset_key EXCEPT ![k] = "gone"]
    /\ UNCHANGED <<database, held, pc, request, history>>

PurgeRevokedOnly(t) == t \in expired /\ row[t] = "revoked"  \* mutant: extra filter
Purgeable(t) == t \in expired /\ row[t] \in {"live", "revoked"}

PurgeExpired ==
    /\ \E t \in Request : Purgeable(t)
    /\ row' = [t \in Request |-> IF Purgeable(t) THEN "purged" ELSE row[t]]
    /\ UNCHANGED <<password, is_active, expired, audit, reset_key, held, pc, request, history>>

Fail(r) ==
    /\ Faults
    /\ pc[r] \in Running
    /\ Goto(r, "failed")
    /\ UNCHANGED <<database, reset_key, held, history>>

-----------------------------------------------------------------------------
Arrive(r) ==
    \/ \E u \in User :
        \/ LoginCheck(r, u)
        \/ RevokeAllSessions(r, u)
        \/ UpdateMyProfile(r, u)
        \/ ForgotPassword(r, u)
        \/ DevResetPassword(r, u)
        \/ \E t \in Request : RevokeSession(r, u, t)
    \/ \E t \in Request :
        \/ RefreshRead(r, t)
        \/ Logout(r, t)
        \/ ResetRead(r, t)

Step(r) ==
    \/ LoginAudit(r)
    \/ Issue(r)
    \/ RefreshUser(r)
    \/ Rotate(r)
    \/ MarkExpired(r)
    \/ RevokeOne(r)
    \/ RevokeAll(r)
    \/ SendResetEmail(r)
    \/ ChangePassword(r)
    \/ DeleteKey(r)

Next ==
    \/ \E r \in Request : Arrive(r) \/ Step(r) \/ Fail(r)
    \/ \E u \in User : SuspendUser(u) \/ UnsuspendUser(u)
    \/ \E t \in Request : Expire(t) \/ ExpireKey(t)
    \/ PurgeExpired

Spec == Init /\ [][Next]_vars

(* A thread that runs a handler is scheduled until the handler returns, and *)
(* the 03:00 job comes round every day.                                    *)
Fairness ==
    /\ \A r \in Request : WF_vars(Step(r))
    /\ WF_vars(PurgeExpired)

FairSpec == Spec /\ Fairness

-----------------------------------------------------------------------------
(* The active sessions of GET /sessions.  A row is in `expired` when         *)
(* `expires_at < now`, the test of /refresh and of the purge, so that a    *)
(* session in its very last instant, which GET /sessions (`> now`) lists   *)
(* no longer but /refresh still takes, counts here.                        *)
list_sessions(u) ==
    {t \in Request : who[t] = u /\ row[t] = "live" /\ t \notin expired}

(* Shape of the state, and that a request which has started acts for a     *)
(* user and a row or key belongs to a request that has started.            *)
TypeOK ==
    /\ password \in [User -> Nat]
    /\ is_active \in [User -> BOOLEAN]
    /\ row \in [Request -> {"none", "live", "revoked", "purged"}]
    /\ reset_key \in [Request -> {"none", "set", "gone"}]
    /\ expired \subseteq Request
    /\ audit \subseteq Request
    /\ held \subseteq Request
    /\ changed \subseteq Request
    /\ missed \subseteq Request
    /\ op \in [Request -> Handlers \cup {"none"}]
    /\ pc \in [Request -> Running \cup {"idle", "answered", "reuse_denied", "failed"}]
    /\ who \in [Request -> User \cup {None}]
    /\ tok \in [Request -> Request \cup {None}]
    /\ cred \in [Request -> Nat]
    /\ \A r \in Request : pc[r] # "idle" => who[r] \in User
    /\ \A r \in Request : row[r] # "none" \/ reset_key[r] # "none" => pc[r] # "idle"

(* A refreshed session replaces the one it came from: whenever a row       *)
(* inserted by /refresh exists, the row that was presented is no longer    *)
(* usable (auth.py:280-284 commits the revocation before the insert, so no *)
(* crash or interleaving leaves both).                                     *)
ParentRetired ==
    \A r \in Request :
        op[r] = "refresh" /\ row[r] # "none" => row[tok[r]] \in {"revoked", "purged"}

(* Once a password change has answered, a live session of that user was    *)
(* opened with the new password (or a newer one), or was being issued      *)
(* while the change revoked the others.  This is all that auth.py:403-408  *)
(* and users.py:38-41 guarantee when requests overlap.                     *)
OldSessionsOnlyByRace ==
    \A c \in changed : pc[c] = "answered" =>
        \A t \in list_sessions(who[c]) : cred[t] >= cred[c] \/ t \in missed

(* "Revokes all refresh tokens on success so stolen sessions cannot        *)
(* persist after a password change" (auth.py:389): no exception for        *)
(* sessions that were being issued.                                        *)
NoStaleSession ==
    \A c \in changed : pc[c] = "answered" =>
        \A t \in list_sessions(who[c]) : cred[t] >= cred[c]

(* Refresh tokens are consumed by rotation (models/refresh_token.py:16):   *)
(* no token is exchanged for two sessions.                                 *)
ConsumedOnce ==
    \A a, b \in Request :
        /\ op[a] = "refresh" /\ op[b] = "refresh"
        /\ row[a] # "none" /\ row[b] # "none"
        /\ tok[a] = tok[b]
        => a = b

(* Once a replayed refresh token has been refused, the sessions it had been *)
(* exchanged for are dead, except one that was being issued while the      *)
(* refusal revoked the user's sessions (auth.py:260-268).                  *)
ReplacementsOnlyByRace ==
    \A a, b \in Request :
        /\ pc[b] = "reuse_denied"
        /\ op[a] = "refresh" /\ tok[a] = tok[b] /\ row[a] = "live"
        => a \in missed

(* "On reuse of an already-revoked token: entire session family revoked"   *)
(* (auth.py:248): no exception for a session that was being issued.        *)
ReuseEndsFamily ==
    \A a, b \in Request :
        pc[b] = "reuse_denied" /\ op[a] = "refresh" /\ tok[a] = tok[b] => row[a] # "live"

(* A password-reset token changes a password at most once (auth.py:390,    *)
(* "Token is single-use").                                                 *)
ResetTokenSingleUse ==
    \A a, b \in changed :
        /\ op[a] = "reset_password" /\ op[b] = "reset_password"
        /\ tok[a] = tok[b]
        => a = b

(* Every session opened by a login, and every password changed with a      *)
(* reset token, has its audit row committed, whatever crashes.             *)
AuditComplete ==
    /\ \A r \in Request : op[r] = "login" /\ row[r] # "none" => r \in audit
    /\ \A r \in changed : op[r] = "reset_password" => r \in audit

(* A session ends early only at the hands of a request made for the same   *)
(* user: no filter in a bulk or single revocation lets one user's logout,  *)
(* reset or replayed token end another user's session.                     *)
Isolation ==
    [][\A t \in Request : row[t] = "live" /\ row'[t] = "revoked" =>
          \E r \in Request : who'[r] = who[t] /\ pc'[r] # pc[r]]_vars

(* With a thread that keeps running, a password change does get round to   *)
(* revoking: from some point on only sessions with the new password, or    *)
(* ones issued during the revocation, are left.                            *)
ChangeTakesEffect ==
    \A c \in Request :
        c \in changed ~>
            [](\A t \in list_sessions(who[c]) : cred[t] >= cred[c] \/ t \in missed)

(* A refresh_tokens row whose expiry has passed is deleted by the daily    *)
(* job, also when it was revoked before or a request still refers to it.   *)
ExpiredPurged ==
    \A t \in Request : t \in expired ~> row[t] = "purged"
=============================================================================
