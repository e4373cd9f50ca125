------------------------- MODULE SessionsRefinement -------------------------
(***************************************************************************)
(* However requests overlap and wherever they die, the handlers of         *)
(* Sessions implement the table of SessionTable: a session is open while   *)
(* its row is live.  With one request at a time, and none that dies half   *)
(* way, they implement the serial table although most of them commit       *)
(* several times: a session counts as open from the commit after which     *)
(* nothing but its own INSERT can follow, and as ended from the commit of  *)
(* a new password on, while its rows are still to be revoked.              *)
(***************************************************************************)
EXTENDS SessionsInv

(* The sessions of u are about to be revoked by a password change.         *)
Unsettled(u) ==
    \E c \in changed : pc[c] \in {"delete_key", "revoke_all"} /\ who[c] = u

Opened == {s \in Request : row[s] # "none" \/ pc[s] = "issue"}
OpenNow == {s \in Opened : Usable(s) /\ ~Unsettled(who[s])}
OwnerOf == [s \in Request |-> IF s \in Opened THEN who[s] ELSE None]
OpenedWith == [s \in Request |-> IF s \in Opened THEN cred[s] ELSE 0]
OpenedFor == [s \in Request |-> IF s \in Opened /\ op[s] = "refresh" THEN tok[s] ELSE None]

Table == INSTANCE SessionTable WITH
    Session <- Request, Serial <- TRUE, version <- password, open <- OpenNow,
    used <- Opened, owner <- OwnerOf, since <- OpenedWith, from <- OpenedFor

(* One request at a time, every request takes effect in one step: tokens   *)
(* are exchanged one for one, a change of password ends all the sessions   *)
(* of its user and nobody else's, and nothing brings a session back.       *)
ImplementsTable == Table!Spec

Inserted == {s \in Request : row[s] # "none"}
LiveRows == {s \in Request : row[s] = "live"}
RowOwner == [s \in Request |-> IF s \in Inserted THEN who[s] ELSE None]
RowSince == [s \in Request |-> IF s \in Inserted THEN cred[s] ELSE 0]
RowFrom == [s \in Request |-> IF s \in Inserted /\ op[s] = "refresh" THEN tok[s] ELSE None]

Rows == INSTANCE SessionTable WITH
    Session <- Request, Serial <- FALSE, version <- password, open <- LiveRows,
    used <- Inserted, owner <- RowOwner, since <- RowSince, from <- RowFrom

(* In any interleaving, with handlers dying anywhere: no ended session is  *)
(* ever open again, a refreshed session has the owner and the password     *)
(* version of the one it replaces, which is closed before it opens, and    *)
(* bulk revocations end all the open sessions of one user or none.         *)
ImplementsRows == Rows!Spec

(* What a handler that issues a token relies on, in any interleaving.      *)
Credentials ==
    /\ \A r \in Request :
        /\ op[r] = "refresh" => cred[r] = cred[tok[r]]
        /\ row[r] # "none" \/ pc[r] \in Issuing => cred[r] <= password[who[r]]
    /\ \A t \in expired : row[t] # "none"

(* With one worker thread: what a request in flight has verified or read   *)
(* is still so, but for the purge.                                         *)
Presented ==
    /\ \A r \in Request :
        /\ op[r] = "refresh" => cred[r] = cred[tok[r]]
        /\ pc[r] \in {"user", "rotate", "mark_expired", "revoke_one"} =>
              row[tok[r]] \in {"live", "purged"}
        /\ pc[r] = "audit" => cred[r] = password[who[r]]
    /\ \A t \in expired : row[t] # "none"
=============================================================================
