---------------------------- MODULE SessionsInv ----------------------------
(* The strengthenings that make the invariants of Sessions inductive.      *)
(* SessionsProofs shows that they are; TLC checks them first.              *)
EXTENDS Sessions

Retired == {"revoked", "purged"}

(* Who a request and the token it was presented with belong to, and where  *)
(* in a handler each program counter occurs.                               *)
Linked ==
    \A r \in Request :
        /\ tok[r] \in Request => pc[tok[r]] # "idle"
        /\ op[r] \in {"refresh", "logout", "revoke_session"} =>
              /\ tok[r] \in Request
              /\ row[tok[r]] # "none"
              /\ who[tok[r]] = who[r]
        /\ op[r] = "reset_password" => tok[r] \in Request
        /\ pc[r] = "audit" => op[r] = "login"
        /\ pc[r] = "issue" => op[r] \in {"login", "refresh"}
        /\ pc[r] \in {"user", "rotate", "mark_expired", "reuse_denied"} => op[r] = "refresh"
        /\ pc[r] = "revoke_one" => op[r] \in {"logout", "revoke_session"}
        /\ pc[r] \in {"change", "delete_key"} => op[r] \in {"update_my_profile", "reset_password"}
        /\ pc[r] = "delete_key" => op[r] = "reset_password"
        /\ row[r] # "none" =>
              op[r] \in {"login", "refresh"} /\ pc[r] \in {"answered", "failed"}

(* A token is retired from the moment /refresh has rotated it, and from    *)
(* the moment /refresh has read it as revoked.                             *)
Consumed ==
    \A r \in Request : op[r] = "refresh" =>
        /\ row[r] # "none" \/ pc[r] = "issue" => row[tok[r]] \in Retired
        /\ pc[r] \in {"revoke_all", "reuse_denied"} => row[tok[r]] \in Retired

(* The row of t exists and is usable, or its handler may still insert it.  *)
Usable(t) == row[t] = "live" \/ pc[t] \in Issuing

(* What a request that has changed a password may still do.                *)
Changing ==
    \A c \in changed :
        /\ pc[c] \in {"delete_key", "revoke_all", "answered", "failed"}
        /\ op[c] \in {"update_my_profile", "reset_password", "dev_reset_password"}
        /\ cred[c] <= password[who[c]]

Recent ==
    \A c \in changed : pc[c] = "answered" =>
        \A t \in Request :
            Usable(t) /\ who[t] = who[c] => cred[t] >= cred[c] \/ t \in missed

Replaced ==
    \A a, b \in Request :
        /\ pc[b] = "reuse_denied"
        /\ op[a] = "refresh" /\ tok[a] = tok[b] /\ Usable(a)
        => a \in missed

Audited ==
    /\ \A r \in Request :
          op[r] = "login" /\ (row[r] # "none" \/ pc[r] = "issue") => r \in audit
    /\ \A r \in changed : op[r] = "reset_password" => r \in audit

IInv == TypeOK /\ Linked /\ Consumed /\ Changing /\ Recent /\ Replaced /\ Audited

(* With one worker thread: nothing overlaps, so nothing is missed and no   *)
(* two requests have exchanged, or are exchanging, one token.              *)
OneAtATime ==
    /\ \A a, b \in InFlight : a = b
    /\ missed = {}
    /\ \A a, b \in Request :
          /\ op[a] = "refresh" /\ op[b] = "refresh" /\ tok[a] = tok[b]
          /\ row[a] # "none" \/ pc[a] = "issue"
          /\ row[b] # "none" \/ pc[b] \in Issuing
          => a = b

(* With one worker thread and no crash: the key of a reset that has changed *)
(* a password is deleted before the next request arrives.                  *)
ResetOnce ==
    /\ \A a, b \in Request :
          /\ op[a] = "reset_password" /\ op[b] = "reset_password" /\ tok[a] = tok[b]
          /\ a \in changed
          /\ b \in changed \/ pc[b] = "change"
          => a = b
    /\ \A a \in changed :
          op[a] = "reset_password" => pc[a] = "delete_key" \/ reset_key[tok[a]] = "gone"
=============================================================================
