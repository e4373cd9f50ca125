---------------------------- MODULE SessionTable ----------------------------
(***************************************************************************)
(* What the endpoints of routers/auth.py promise about login sessions,     *)
(* without the handlers that provide it: a table of open sessions on which *)
(* every request takes effect at one instant.  A session is opened for a   *)
(* password its user has had, is handed over with its owner and that       *)
(* password when its token is refreshed, and is ended by its user, by the  *)
(* replay of a token, by the expiry job, or by a change of password.  A    *)
(* session that has ended is not opened again.                             *)
(*                                                                         *)
(* Serial says whether requests are served one at a time and none dies     *)
(* half way.  Then the password is the current one, a token is exchanged   *)
(* while its session is open, so once, and a change of password ends every *)
(* session of its user at the same instant.                                *)
(***************************************************************************)
EXTENDS Naturals

CONSTANTS Session, User, None, Serial

VARIABLES
    version,    \* how often each user has changed the password
    open,       \* sessions whose refresh token can be used
    used,       \* sessions that were ever opened
    owner,      \* whose session it is
    since,      \* the version of the password it was opened with
    from,       \* the session whose token was exchanged for it, or None
    expired     \* sessions whose expiry has passed

table == <<open, used, owner, since, from>>
vars  == <<version, table, expired>>

Init ==
    /\ version = [u \in User |-> 0]
    /\ open = {}
    /\ used = {}
    /\ owner = [s \in Session |-> None]
    /\ since = [s \in Session |-> 0]
    /\ from = [s \in Session |-> None]
    /\ expired = {}

Add(s, u, v, t) ==
    /\ s \notin used
    /\ used' = used \cup {s}
    /\ owner' = [owner EXCEPT ![s] = u]
    /\ since' = [since EXCEPT ![s] = v]
    /\ from' = [from EXCEPT ![s] = t]

Open(s, u, v) ==
    /\ Serial => v = version[u]
    /\ Add(s, u, v, None)
    /\ open' = open \cup {s}
    /\ UNCHANGED <<version, expired>>

(* Otherwise the session of t has ended before, but another may also have   *)
(* been exchanged for it.                                                  *)
Renew(t, s) ==
    /\ t \in used
    /\ Serial <=> t \in open
    /\ Add(s, owner[t], since[t], t)
    /\ open' = (open \ {t}) \cup {s}
    /\ UNCHANGED <<version, expired>>

End(S) == open' = open \ S /\ UNCHANGED <<used, owner, since, from, expired>>

EndOne(s) == End({s}) /\ UNCHANGED version

OpenOf(u) == {s \in open : owner[s] = u}

EndAll(u) == End(OpenOf(u)) /\ UNCHANGED version

(* Otherwise an EndAll is to follow. *)
ChangePassword(u) ==
    /\ version' = [version EXCEPT ![u] = @ + 1]
    /\ End(OpenOf(u)) \/ (~Serial /\ UNCHANGED table)
    /\ UNCHANGED expired

Expire(s) ==
    /\ s \in used
    /\ expired' = expired \cup {s}
    /\ UNCHANGED <<version, table>>

Lapse == End(expired) /\ UNCHANGED version

Next ==
    \/ \E s \in Session :
        \/ EndOne(s)
        \/ Expire(s)
        \/ \E u \in User : \E v \in 0 .. version[u] : Open(s, u, v)
        \/ \E t \in Session : Renew(t, s)
    \/ \E u \in User : EndAll(u) \/ ChangePassword(u)
    \/ Lapse

Spec == Init /\ [][Next]_vars
=============================================================================
