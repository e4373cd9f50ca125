------------------------------ MODULE Accounts ------------------------------
(***************************************************************************)
(* Who has an account in CloudNotes, who may use it, and who administers   *)
(* it: registration and e-mail verification (backend/app/routers/auth.py), *)
(* suspension, roles and deactivation (admin.py, users.py).                *)
(*                                                                         *)
(* One action is what a handler does up to one commit, one UPDATE whose    *)
(* rows matter before its commit, or one e-mail.  A verification token is  *)
(* named by the request that issued it, a user by the e-mail address.      *)
(* Passwords and sessions are in module Sessions.                          *)
(***************************************************************************)
EXTENDS Naturals, FiniteSets

CONSTANTS
    Request,    \* HTTP requests, each made at most once
    User,       \* e-mail addresses
    Admin,      \* the administrators set up in the database at first
    None,       \* "no user" / "no token"
    Workers,    \* requests that can be in flight at once
    Faults      \* may a handler die, or a commit fail, between two steps?

ASSUME RequestAssumption == IsFiniteSet(Request) /\ None \notin Request
ASSUME UserAssumption    == None \notin User /\ Admin \subseteq User
ASSUME WorkersAssumption == Workers \in Nat \ {0}
ASSUME FaultsAssumption  == Faults \in BOOLEAN

VARIABLES
    auto,       \* settings.AUTO_VERIFY_EMAILS of this deployment
    registered, \* users with a row in `users`
    active,     \* ... with is_active
    verified,   \* ... with is_verified
    admins,     \* ... with role "admin"
    token,      \* email_verifications: the row each request inserted
    expired,    \* the tokens whose expires_at has passed
    sent,       \* the tokens that were mailed
    op, pc,     \* handler a request runs, and its next step
    who,        \* the user who makes it (or whose token it presents)
    target,     \* the user an administrator changes
    tok,        \* the token it presents
    hits,       \* the tokens its UPDATE has found unused, not yet committed
    blind       \* history: issues of tokens still uncommitted at that UPDATE

users    == <<registered, active, verified, admins>>
tokens   == <<token, expired, sent>>
request  == <<op, who, target, tok>>
local    == <<hits, blind>>
vars     == <<auto, users, tokens, request, pc, local>>

Running == {"insert_user", "auto_verify", "mark_used", "insert_token", "mail", "verify",
            "suspend", "unsuspend", "promote", "demote", "deactivate"}
Ended == {"answered", "failed"}

Init ==
    /\ auto \in BOOLEAN
    /\ registered = Admin
    /\ active = Admin
    /\ verified = Admin
    /\ admins = Admin
    /\ token = [r \in Request |-> "none"]
    /\ expired = {}
    /\ sent = {}
    /\ op = [r \in Request |-> "none"]
    /\ pc = [r \in Request |-> "idle"]
    /\ who = [r \in Request |-> None]
    /\ target = [r \in Request |-> None]
    /\ tok = [r \in Request |-> None]
    /\ hits = [r \in Request |-> {}]
    /\ blind = [r \in Request |-> {}]

InFlight == {r \in Request : pc[r] \in Running}

(* A handler has made its checks. *)
Begin(r, h, u, v, t, next) ==
    /\ pc[r] = "idle"
    /\ Cardinality(InFlight) < Workers
    /\ op' = [op EXCEPT ![r] = h]
    /\ who' = [who EXCEPT ![r] = u]
    /\ target' = [target EXCEPT ![r] = v]
    /\ tok' = [tok EXCEPT ![r] = t]
    /\ pc' = [pc EXCEPT ![r] = next]
    /\ UNCHANGED <<auto, users, tokens, local>>

Goto(r, next) == pc' = [pc EXCEPT ![r] = next] /\ UNCHANGED <<auto, request>>

-----------------------------------------------------------------------------
(* POST /auth/register *)

RegisterStart(r, u) ==
    u \notin registered /\ Begin(r, "register", u, None, None, "insert_user")

InsertTwice(r) ==                             \* mutant: no unique index on email
    /\ pc[r] = "insert_user"
    /\ registered' = registered \cup {who[r]}
    /\ active' = active \cup {who[r]}
    /\ Goto(r, IF auto THEN "auto_verify" ELSE "mark_used")
    /\ UNCHANGED <<verified, admins, tokens, local>>

(* The unique index refuses an address that was registered meanwhile.      *)
InsertUser(r) ==
    /\ pc[r] = "insert_user"
    /\ \/ /\ who[r] \notin registered
          /\ registered' = registered \cup {who[r]}
          /\ active' = active \cup {who[r]}
          /\ Goto(r, IF auto THEN "auto_verify" ELSE "mark_used")
       \/ /\ who[r] \in registered
          /\ Goto(r, "failed")
          /\ UNCHANGED <<registered, active>>
    /\ UNCHANGED <<verified, admins, tokens, local>>

AutoVerify(r) ==
    /\ pc[r] = "auto_verify"
    /\ verified' = verified \cup {who[r]}
    /\ Goto(r, "answered")
    /\ UNCHANGED <<registered, active, admins, tokens, local>>

-----------------------------------------------------------------------------
(* POST /auth/resend-verification, and the token both handlers issue       *)

ResendStart(r, u) ==
    /\ u \in active \ verified
    /\ Begin(r, "resend_verification", u, None, None, "mark_used")

UnusedTokens(u) == {t \in Request : token[t] = "unused" /\ who[t] = u}

(* _issue_verification: the UPDATE finds the committed unused tokens, and  *)
(* is committed with the INSERT.                                           *)
MarkUsedCommitted(r) ==                       \* mutant: a commit after the UPDATE
    /\ pc[r] = "mark_used"
    /\ token' = [t \in Request |-> IF t \in UnusedTokens(who[r]) THEN "used" ELSE token[t]]
    /\ Goto(r, "insert_token")
    /\ UNCHANGED <<users, expired, sent, local>>

OutdatedNone(r) == {}                         \* mutant: old tokens stay valid
Outdated(r) == UnusedTokens(who[r])

MarkUsed(r) ==
    /\ pc[r] = "mark_used"
    /\ hits' = [hits EXCEPT ![r] = Outdated(r)]
    /\ blind' = [blind EXCEPT ![r] =
                    {c \in Request : pc[c] = "insert_token" /\ who[c] = who[r]}]
    /\ Goto(r, "insert_token")
    /\ UNCHANGED <<users, tokens>>

InsertToken(r) ==
    /\ pc[r] = "insert_token"
    /\ token' = [t \in Request |-> IF t = r THEN "unused"
                                   ELSE IF t \in hits[r] THEN "used" ELSE token[t]]
    /\ hits' = [hits EXCEPT ![r] = {}]
    /\ Goto(r, "mail")
    /\ UNCHANGED <<users, expired, sent, blind>>

(* The background task, after the answer; a failure to send is swallowed.  *)
Mail(r) ==
    /\ pc[r] = "mail"
    /\ \/ sent' = sent \cup {r}
       \/ UNCHANGED sent
    /\ Goto(r, "answered")
    /\ UNCHANGED <<users, token, expired, local>>

(* GET /auth/verify *)
VerifyStart(r, t) ==
    /\ token[t] = "unused"
    /\ t \in sent \ expired
    /\ Begin(r, "verify_email", who[t], None, t, "verify")

VerifyKeepsToken(r) ==                        \* mutant: `used` not set
    /\ pc[r] = "verify"
    /\ verified' = verified \cup {who[r]}
    /\ Goto(r, "answered")
    /\ UNCHANGED <<registered, active, admins, tokens, local>>

CommitVerify(r) ==
    /\ pc[r] = "verify"
    /\ token' = [token EXCEPT ![tok[r]] = "used"]
    /\ verified' = verified \cup {who[r]}
    /\ Goto(r, "answered")
    /\ UNCHANGED <<registered, active, admins, expired, sent, local>>

DevVerifyUnknown(u) ==                        \* mutant: user not looked up
    auto /\ verified' = verified \cup {u}
         /\ UNCHANGED <<auto, registered, active, admins, tokens, request, pc, local>>

(* POST /auth/dev-verify *)
DevVerify(u) ==
    /\ auto
    /\ u \in registered
    /\ verified' = verified \cup {u}
    /\ UNCHANGED <<auto, registered, active, admins, tokens, request, pc, local>>

-----------------------------------------------------------------------------
(* Administration.  require_admin, then the state of the user concerned.   *)

require_admin(a) == a \in active \cap admins

SuspendAnyone(r, a, u) ==                     \* mutant: own account allowed
    /\ require_admin(a)
    /\ u \in active
    /\ Begin(r, "suspend_user", a, u, None, "suspend")

SuspendStart(r, a, u) ==
    /\ require_admin(a)
    /\ a # u
    /\ u \in active
    /\ Begin(r, "suspend_user", a, u, None, "suspend")

CommitSuspend(r) ==
    /\ pc[r] = "suspend"
    /\ active' = active \ {target[r]}
    /\ Goto(r, "answered")
    /\ UNCHANGED <<registered, verified, admins, tokens, local>>

UnsuspendStart(r, a, u) ==
    /\ require_admin(a)
    /\ u \in registered \ active
    /\ Begin(r, "unsuspend_user", a, u, None, "unsuspend")

CommitUnsuspend(r) ==
    /\ pc[r] = "unsuspend"
    /\ active' = active \cup {target[r]}
    /\ Goto(r, "answered")
    /\ UNCHANGED <<registered, verified, admins, tokens, local>>

(* A change to the role that was loaded writes no more than an audit row.  *)
ChangeRoleStart(r, a, u) ==
    /\ require_admin(a)
    /\ u \in registered
    /\ Begin(r, "change_user_role", a, u, None,
             IF u \in admins THEN "demote" ELSE "promote")

CommitRole(r) ==
    /\ \/ pc[r] = "promote" /\ admins' = admins \cup {target[r]}
       \/ pc[r] = "demote" /\ admins' = admins \ {target[r]}
    /\ Goto(r, "answered")
    /\ UNCHANGED <<registered, active, verified, tokens, local>>

(* DELETE /users/me *)
DeactivateStart(r, u) ==
    u \in active /\ Begin(r, "deactivate_my_account", u, u, None, "deactivate")

CommitDeactivate(r) ==
    /\ pc[r] = "deactivate"
    /\ active' = active \ {who[r]}
    /\ Goto(r, "answered")
    /\ UNCHANGED <<registered, verified, admins, tokens, local>>

-----------------------------------------------------------------------------
(* 24 hours pass. *)
ExpireToken(t) ==
    /\ token[t] # "none"
    /\ t \notin expired
    /\ expired' = expired \cup {t}
    /\ UNCHANGED <<auto, users, token, sent, request, pc, local>>

Fail(r) ==
    /\ Faults
    /\ pc[r] \in Running
    /\ Goto(r, "failed")
    /\ hits' = [hits EXCEPT ![r] = {}]
    /\ UNCHANGED <<users, tokens, blind>>

Arrive(r) ==
    \/ \E u \in User : RegisterStart(r, u) \/ ResendStart(r, u) \/ DeactivateStart(r, u)
    \/ \E t \in Request : VerifyStart(r, t)
    \/ \E a, u \in User :
        SuspendStart(r, a, u) \/ UnsuspendStart(r, a, u) \/ ChangeRoleStart(r, a, u)

Step(r) ==
    \/ InsertUser(r) \/ AutoVerify(r)
    \/ MarkUsed(r) \/ InsertToken(r) \/ Mail(r) \/ CommitVerify(r)
    \/ CommitSuspend(r) \/ CommitUnsuspend(r) \/ CommitRole(r) \/ CommitDeactivate(r)

Next ==
    \/ \E r \in Request : Arrive(r) \/ Step(r) \/ Fail(r) \/ ExpireToken(r)
    \/ \E u \in User : DevVerify(u)

Spec == Init /\ [][Next]_vars

-----------------------------------------------------------------------------
(* Properties *)

Issuers == {"register", "resend_verification"}

TypeOK ==
    /\ auto \in BOOLEAN
    /\ registered \subseteq User
    /\ active \subseteq registered
    /\ verified \subseteq registered
    /\ admins \subseteq registered
    /\ token \in [Request -> {"none", "unused", "used"}]
    /\ expired \subseteq {t \in Request : token[t] # "none"}
    /\ sent \subseteq {t \in Request : token[t] # "none"}
    /\ op \in [Request -> Issuers \cup {"none", "verify_email", "suspend_user",
                  "unsuspend_user", "change_user_role", "deactivate_my_account"}]
    /\ pc \in [Request -> Running \cup Ended \cup {"idle"}]
    /\ who \in [Request -> User \cup {None}]
    /\ target \in [Request -> User \cup {None}]
    /\ tok \in [Request -> Request \cup {None}]
    /\ hits \in [Request -> SUBSET {t \in Request : token[t] # "none"}]
    /\ blind \in [Request -> SUBSET Request]
    /\ \A r \in Request : token[r] # "none" => op[r] \in Issuers /\ who[r] \in registered

(* An address gets one account, however many registrations pass the check  *)
(* before the first of them commits (auth.py:149-156).                     *)
OneAccountPerEmail ==
    \A r, c \in Request :
        /\ op[r] = "register" /\ pc[r] \notin {"insert_user", "failed"}
        /\ op[c] = "register" /\ pc[c] \notin {"insert_user", "failed"}
        /\ who[r] = who[c]
        => r = c

(* An unverified user who was ever issued a token has one that was neither *)
(* consumed nor invalidated: a failure between the invalidation of the old *)
(* tokens and the new one loses nothing (auth.py:124-139, 325-328).        *)
WorkingToken ==
    \A u \in registered \ verified :
        (\E t \in Request : token[t] # "none" /\ who[t] = u) => UnusedTokens(u) # {}

(* Unless the deployment verifies by itself, an account is verified only   *)
(* through a token that was mailed to it and is used up (auth.py:312-328). *)
VerifiedByMail ==
    \A u \in verified \ Admin :
        auto \/ \E t \in sent : who[t] = u /\ token[t] = "used"

(* "Invalidate old email-verification tokens" (auth.py:125): a user has    *)
(* two valid ones only if one was issued while the transaction of the      *)
(* other was still open (auth.py:126-138).                                 *)
UnusedTokensByRace ==
    \A u \in User : \A s, t \in UnusedTokens(u) :
        s # t => s \in blind[t] \/ t \in blind[s]

(* "Admins cannot suspend their own account - this prevents accidental     *)
(* lockout" (admin.py:175): the last active administrator is lost only by  *)
(* his own demotion or deactivation, or by a request whose maker was       *)
(* suspended or demoted while it ran (admin.py:149-155, 177-186).          *)
LockoutExplained ==
    [][active \cap admins # {} /\ active' \cap admins' = {} =>
         \E r \in Request :
            /\ pc[r] \in Running /\ pc'[r] = "answered"
            /\ \/ ~require_admin(who[r])
               \/ op[r] # "suspend_user" /\ target[r] = who[r]]_vars
=============================================================================
