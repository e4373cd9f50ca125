------------------------------ MODULE NoteCache ------------------------------
(***************************************************************************)
(* One note behind the cache-aside layer of CloudNotes                     *)
(* (backend/app/cache.py, routers/notes.py, and the parts of sharing.py    *)
(* and admin.py that change what notes.py answers).                        *)
(*                                                                         *)
(* Redis keeps the note under notes:detail:<id> and every plain listing    *)
(* under notes:list:<user>:...; one key per user stands for that user's    *)
(* listings.  A handler reads the cache, reads PostgreSQL, and fills or    *)
(* deletes cache keys in separate calls, between which the other threads   *)
(* run.  Listings with a search or a filter never touch the cache and are  *)
(* left out, and so are requests refused before they change anything.      *)
(*                                                                         *)
(* One note is enough: writes to another note only delete list keys, which *)
(* Evict does here, and its entries in a list are independent of this one. *)
(***************************************************************************)
EXTENDS Naturals, FiniteSets

CONSTANTS
    Request,    \* HTTP requests, each made at most once
    User,
    Owner,      \* owner_id of the note; no endpoint changes it
    None,       \* absent key, absent value
    Workers,    \* threads that run handlers
    Faults      \* may Redis calls fail and handlers die between two steps?

ASSUME RequestAssumption == IsFiniteSet(Request) /\ None \notin Request
ASSUME UserAssumption    == Owner \in User /\ None \notin User /\ "detail" \notin User
ASSUME WorkersAssumption == Workers \in Nat \ {0}
ASSUME FaultsAssumption  == Faults \in BOOLEAN

VARIABLES
    note,       \* the notes row; version counts the commits that changed it
    share,      \* note_shares: permission each user has on the note
    grant,      \* id of that row, named by the request that inserted it
    role,       \* users.role
    detail,     \* Redis notes:detail:<id>
    list,       \* Redis notes:list:<user>:..., per user
    op, pc,     \* handler a request runs, and its next step
    who,        \* its current_user
    seen,       \* that user's role when the request authenticated
    target,     \* user a share is granted to or taken from
    data,       \* what it has read: a note, a listing, or the id of a share
    ids,        \* list_notes: is the note among the shared_ids it read?
    todo,       \* list keys a running SCAN is still bound to return
    late,       \* history: keys whose entry was out of date when written
    skipped     \* history: keys whose entry no write will delete any more:
                \* the deletion failed, or the handler does not invalidate

database == <<note, share, grant, role>>
cache    == <<detail, list, late, skipped>>
request  == <<op, who, seen, target>>
local    == <<data, ids, todo>>
vars     == <<database, cache, pc, request, local>>

Visibility == {"private", "public"}
Permission == {"view", "edit"}
Notes == [state : {"none", "live", "deleted"}, version : Nat, visibility : Visibility]
Listings == [note : Notes \cup {None}, shared : BOOLEAN, as : {"user", "admin"}]
Key == User \cup {"detail"}
Running == {"check_hit", "read", "check_miss", "fill_detail", "shared_ids", "query",
            "fill_list", "update", "delete", "create", "share", "unshare", "restore",
            "del_detail", "scan", "scanning"}
Ended == {"served", "denied", "answered", "failed"}

Init ==
    /\ note \in [state : {"none", "live"}, version : {0}, visibility : Visibility]
    /\ share = [u \in User |-> "none"]
    /\ grant = [u \in User |-> None]
    /\ role = [u \in User |-> "user"]
    /\ detail = None
    /\ list = [u \in User |-> None]
    /\ op = [r \in Request |-> "none"]
    /\ pc = [r \in Request |-> "idle"]
    /\ who = [r \in Request |-> None]
    /\ seen = [r \in Request |-> "user"]
    /\ target = [r \in Request |-> None]
    /\ data = [r \in Request |-> None]
    /\ ids = [r \in Request |-> FALSE]
    /\ todo = [r \in Request |-> {}]
    /\ late = {}
    /\ skipped = {}

InFlight == {r \in Request : pc[r] \in Running}
ThreadFree == Cardinality(InFlight) < Workers

(* get_current_user, then the first step of handler h.                     *)
Begin(r, h, u, v, next) ==
    /\ pc[r] = "idle"
    /\ ThreadFree
    /\ op' = [op EXCEPT ![r] = h]
    /\ who' = [who EXCEPT ![r] = u]
    /\ seen' = [seen EXCEPT ![r] = role[u]]
    /\ target' = [target EXCEPT ![r] = v]
    /\ pc' = [pc EXCEPT ![r] = next]

Goto(r, next) == pc' = [pc EXCEPT ![r] = next] /\ UNCHANGED request

(* The handler returns or raises: its local variables are gone.            *)
End(r, outcome) ==
    /\ pc' = [pc EXCEPT ![r] = outcome]
    /\ who' = [who EXCEPT ![r] = None]
    /\ seen' = [seen EXCEPT ![r] = "user"]
    /\ UNCHANGED <<op, target>>
    /\ data' = [data EXCEPT ![r] = None]
    /\ ids' = [ids EXCEPT ![r] = FALSE]
    /\ todo' = [todo EXCEPT ![r] = {}]

-----------------------------------------------------------------------------
(* Access rules.  check_read_access judges the data it is handed, which   *)
(* on a cache hit is the cached copy, and looks the share up.              *)

check_read_access(d, u, as) ==
    d.visibility = "public" \/ u = Owner \/ as = "admin" \/ share[u] # "none"

check_ownership(u, as) == u = Owner \/ as = "admin"
MayUpdate(u, as) == check_ownership(u, as) \/ share[u] = "edit"

(* What GET /notes/ shows of the note to u, and the role it was shown to.  *)
Listing(u, as, shared) ==
    LET visible == /\ note.state = "live"
                   /\ as = "admin" \/ u = Owner \/ note.visibility = "public" \/ shared
    IN [note   |-> IF visible THEN note ELSE None,
        shared |-> visible /\ shared /\ u # Owner,
        as     |-> as]

(* The answer if it were computed from the database in one go.             *)
CanRead(u) ==
    /\ note.state = "live"
    /\ note.visibility = "public" \/ u = Owner \/ role[u] = "admin" \/ share[u] # "none"
ListNow(u) == Listing(u, role[u], role[u] = "user" /\ share[u] # "none")

-----------------------------------------------------------------------------
(* cache.py.  Every call swallows Redis errors.                            *)

Forget(K) == late' = late \ K /\ skipped' = skipped \ K

cache_set_detail(d) ==
    /\ detail' = d
    /\ late' = IF d = note THEN late \ {"detail"} ELSE late \cup {"detail"}
    /\ skipped' = skipped \ {"detail"}
    /\ UNCHANGED list

cache_set_list(u, d) ==
    /\ list' = [list EXCEPT ![u] = d]
    /\ late' = IF d = ListNow(u) THEN late \ {u} ELSE late \cup {u}
    /\ skipped' = skipped \ {u}
    /\ UNCHANGED detail

cache_delete_detail ==
    /\ detail' = None
    /\ Forget({"detail"})
    /\ UNCHANGED list

DeleteLists(K) ==
    /\ list' = [u \in User |-> IF u \in K THEN None ELSE list[u]]
    /\ Forget(K)
    /\ UNCHANGED detail

CachedLists == {u \in User : list[u] # None}
Cached == CachedLists \cup (IF detail = None THEN {} ELSE {"detail"})

(* A Redis call that raised: nothing happened, the handler goes on.        *)
Swallowed == Faults /\ UNCHANGED <<detail, list, late>>

-----------------------------------------------------------------------------
(* GET /notes/{id} *)

GetHit(r, u) ==
    /\ detail # None
    /\ Begin(r, "get_note", u, None, "check_hit")
    /\ data' = [data EXCEPT ![r] = detail]
    /\ UNCHANGED <<database, cache, ids, todo>>

GetMiss(r, u) ==
    /\ detail = None \/ Faults
    /\ Begin(r, "get_note", u, None, "read")
    /\ UNCHANGED <<database, cache, local>>

HitUnchecked(r) ==                      \* mutant: access not checked on a hit
    /\ pc[r] = "check_hit"
    /\ End(r, "served")
    /\ UNCHANGED <<database, cache>>

CheckHit(r) ==
    /\ pc[r] = "check_hit"
    /\ End(r, IF check_read_access(data[r], who[r], seen[r]) THEN "served" ELSE "denied")
    /\ UNCHANGED <<database, cache>>

FoundAny == note.state # "none"         \* mutant: deleted_at not filtered
Found == note.state = "live"

ReadNote(r) ==
    /\ pc[r] = "read"
    /\ \/ /\ Found
          /\ data' = [data EXCEPT ![r] = note]
          /\ Goto(r, "check_miss")
          /\ UNCHANGED <<ids, todo>>
       \/ ~Found /\ End(r, "denied")
    /\ UNCHANGED <<database, cache>>

CheckMiss(r) ==
    /\ pc[r] = "check_miss"
    /\ \/ /\ check_read_access(data[r], who[r], seen[r])
          /\ Goto(r, "fill_detail")
          /\ UNCHANGED local
       \/ /\ ~check_read_access(data[r], who[r], seen[r])
          /\ End(r, "denied")
    /\ UNCHANGED <<database, cache>>

FillDetail(r) ==
    /\ pc[r] = "fill_detail"
    /\ cache_set_detail(data[r]) \/ (Swallowed /\ UNCHANGED skipped)
    /\ End(r, "served")
    /\ UNCHANGED database

-----------------------------------------------------------------------------
(* GET /notes/ *)

(* A cached listing is returned as it is.                                  *)
ListHit(r, u) ==
    /\ list[u] # None
    /\ pc[r] = "idle"
    /\ ThreadFree
    /\ op' = [op EXCEPT ![r] = "list_notes"]
    /\ pc' = [pc EXCEPT ![r] = "served"]
    /\ UNCHANGED <<database, cache, who, seen, target, local>>

ListMiss(r, u) ==
    /\ list[u] = None \/ Faults
    /\ Begin(r, "list_notes", u, None, IF role[u] = "admin" THEN "query" ELSE "shared_ids")
    /\ UNCHANGED <<database, cache, local>>

SharedIds(r) ==
    /\ pc[r] = "shared_ids"
    /\ ids' = [ids EXCEPT ![r] = share[who[r]] # "none"]
    /\ Goto(r, "query")
    /\ UNCHANGED <<database, cache, data, todo>>

Query(r) ==
    /\ pc[r] = "query"
    /\ data' = [data EXCEPT ![r] = Listing(who[r], seen[r], ids[r])]
    /\ Goto(r, "fill_list")
    /\ UNCHANGED <<database, cache, ids, todo>>

FillList(r) ==
    /\ pc[r] = "fill_list"
    /\ cache_set_list(who[r], data[r]) \/ (Swallowed /\ UNCHANGED skipped)
    /\ End(r, "served")
    /\ UNCHANGED database

-----------------------------------------------------------------------------
(* Writers: read and check, commit, then invalidate.  An UPDATE names only *)
(* the row's id, so what was checked may have changed by then.  An update   *)
(* that changes no field is left out.                                      *)

Bumped(s) == [state |-> s, version |-> note.version + 1, visibility |-> note.visibility]

UpdateStart(r, u) ==
    /\ note.state = "live"
    /\ MayUpdate(u, role[u])
    /\ Begin(r, "update_note", u, None, "update")
    /\ UNCHANGED <<database, cache, local>>

CommitUpdate(r) ==
    /\ pc[r] = "update"
    /\ \E v \in Visibility :
          note' = [state |-> note.state, version |-> note.version + 1, visibility |-> v]
    /\ Goto(r, "del_detail")
    /\ UNCHANGED <<share, grant, role, cache, local>>

DeleteStart(r, u) ==
    /\ note.state = "live"
    /\ check_ownership(u, role[u])
    /\ Begin(r, "delete_note", u, None, "delete")
    /\ UNCHANGED <<database, cache, local>>

AfterDeleteListsOnly == "scan"         \* mutant: detail key not deleted
AfterDelete == "del_detail"

CommitDelete(r) ==
    /\ pc[r] = "delete"
    /\ note' = Bumped("deleted")
    /\ Goto(r, AfterDelete)
    /\ UNCHANGED <<share, grant, role, cache, local>>

CreateStart(r) ==
    /\ note.state = "none"
    /\ \A s \in Request : op[s] # "create_note"
    /\ Begin(r, "create_note", Owner, None, "create")
    /\ UNCHANGED <<database, cache, local>>

CommitCreate(r) ==
    /\ pc[r] = "create"
    /\ \E v \in Visibility :
          note' = [state |-> "live", version |-> 1, visibility |-> v]
    /\ Goto(r, "scan")
    /\ UNCHANGED <<share, grant, role, cache, local>>

ShareStart(r, u, t) ==
    /\ note.state = "live"
    /\ check_ownership(u, role[u])
    /\ t # Owner
    /\ Begin(r, "share_note", u, t, "share")
    /\ data' = [data EXCEPT ![r] = grant[t]]
    /\ UNCHANGED <<database, cache, ids, todo>>

(* INSERT if no row was found, else UPDATE of the row found.  A row that    *)
(* has come or gone meanwhile makes the commit raise (uq_note_share,       *)
(* StaleDataError).                                                        *)
CommitShare(r) ==
    LET t == target[r] IN
    /\ pc[r] = "share"
    /\ \/ /\ grant[t] = data[r]
          /\ \E p \in Permission : share' = [share EXCEPT ![t] = p]
          /\ grant' = [grant EXCEPT ![t] = IF data[r] = None THEN r ELSE data[r]]
          /\ Goto(r, "scan")
          /\ UNCHANGED local
       \/ /\ grant[t] # data[r]
          /\ End(r, "failed")
          /\ UNCHANGED <<share, grant>>
    /\ UNCHANGED <<note, role, cache>>

UnshareStart(r, u, t) ==
    /\ note.state = "live"
    /\ check_ownership(u, role[u])
    /\ grant[t] # None
    /\ Begin(r, "revoke_note_share", u, t, "unshare")
    /\ data' = [data EXCEPT ![r] = grant[t]]
    /\ UNCHANGED <<database, cache, ids, todo>>

AfterUnshareAnswer == "answered"       \* mutant: lists not invalidated
AfterUnshare == "scan"

(* A DELETE that finds its row gone only logs a warning.                   *)
CommitUnshare(r) ==
    LET t == target[r] IN
    /\ pc[r] = "unshare"
    /\ \/ /\ grant[t] = data[r]
          /\ share' = [share EXCEPT ![t] = "none"]
          /\ grant' = [grant EXCEPT ![t] = None]
       \/ /\ grant[t] # data[r]
          /\ UNCHANGED <<share, grant>>
    /\ Goto(r, AfterUnshare)
    /\ UNCHANGED <<note, role, cache, local>>

(* Admin only; no invalidation follows the commit.                         *)
RestoreStart(r, u) ==
    /\ note.state = "deleted"
    /\ role[u] = "admin"
    /\ Begin(r, "restore_note", u, None, "restore")
    /\ UNCHANGED <<database, cache, local>>

CommitRestore(r) ==
    /\ pc[r] = "restore"
    /\ note' = Bumped("live")
    /\ skipped' = skipped \cup Cached
    /\ End(r, "answered")
    /\ UNCHANGED <<share, grant, role, detail, list, late>>

-----------------------------------------------------------------------------
(* Invalidation: DEL of the detail key, then SCAN and DEL of the list      *)
(* keys.  SCAN is bound to return the keys that are there from its start   *)
(* to its end; it may return others, and it returns them in batches.       *)

(* The keys r is still going to delete.                                    *)
Pending(r) ==
    {k \in Key : \/ pc[r] = "del_detail"
                 \/ pc[r] = "scan" /\ k \in User
                 \/ pc[r] = "scanning" /\ k \in todo[r]}

DelDetail(r) ==
    /\ pc[r] = "del_detail"
    /\ \/ cache_delete_detail
       \/ Swallowed /\ skipped' = skipped \cup (Cached \cap {"detail"})
    /\ Goto(r, "scan")
    /\ UNCHANGED <<database, local>>

(* The iteration ends when SCAN has returned all it must; a Redis error    *)
(* ends it early.                                                          *)
ScanEndsAnyTime(left) == TRUE          \* mutant: one batch, cursor ignored
ScanEnds(left) == left = {}

ScanStart(r) ==
    /\ pc[r] = "scan"
    /\ \/ /\ todo' = [todo EXCEPT ![r] = CachedLists]
          /\ Goto(r, "scanning")
          /\ UNCHANGED <<skipped, data, ids>>
       \/ /\ Swallowed
          /\ skipped' = skipped \cup CachedLists
          /\ End(r, "answered")
    /\ UNCHANGED <<database, detail, list, late>>

ScanDelete(r) ==
    /\ pc[r] = "scanning"
    /\ todo[r] # {}
    /\ \E K \in SUBSET User :
          /\ K \cap todo[r] # {}
          /\ DeleteLists(K)
          /\ todo' = [todo EXCEPT ![r] = @ \ K]
    /\ UNCHANGED <<database, pc, request, data, ids>>

ScanEnd(r) ==
    /\ pc[r] = "scanning"
    /\ \/ ScanEnds(todo[r]) /\ UNCHANGED <<detail, list, late, skipped>>
       \/ Swallowed /\ skipped' = skipped \cup (Cached \cap todo[r])
    /\ End(r, "answered")
    /\ UNCHANGED database

-----------------------------------------------------------------------------
(* The environment. *)

(* An administrator changes a role; nothing is invalidated.                *)
change_user_role(u) ==
    /\ ThreadFree
    /\ \E x \in {"user", "admin"} : role' = [role EXCEPT ![u] = x]
    /\ skipped' = skipped \cup (CachedLists \cap {u})
    /\ UNCHANGED <<note, share, grant, detail, list, late, pc, request, local>>

(* TTL (30 s for lists, 300 s for the detail), or memory pressure.         *)
ExpireDetail == detail # None /\ cache_delete_detail /\ UNCHANGED <<database, pc, request, local>>

NoExpiry(u) == list[u] # None /\ FALSE /\ UNCHANGED vars     \* mutant: SET without TTL
ExpireList(u) ==
    /\ list[u] # None
    /\ DeleteLists({u})
    /\ UNCHANGED <<database, pc, request, local>>

(* The process dies while r is running.                                    *)
Fail(r) ==
    /\ Faults
    /\ pc[r] \in Running
    /\ skipped' = skipped \cup (Cached \cap Pending(r))
    /\ End(r, "failed")
    /\ UNCHANGED <<database, detail, list, late>>

-----------------------------------------------------------------------------
Arrive(r) ==
    \/ CreateStart(r)
    \/ \E u \in User :
        \/ GetHit(r, u)
        \/ GetMiss(r, u)
        \/ ListHit(r, u)
        \/ ListMiss(r, u)
        \/ UpdateStart(r, u)
        \/ DeleteStart(r, u)
        \/ RestoreStart(r, u)
        \/ \E t \in User : ShareStart(r, u, t) \/ UnshareStart(r, u, t)

Step(r) ==
    \/ CheckHit(r) \/ ReadNote(r) \/ CheckMiss(r) \/ FillDetail(r)
    \/ SharedIds(r) \/ Query(r) \/ FillList(r)
    \/ CommitUpdate(r) \/ CommitDelete(r) \/ CommitCreate(r)
    \/ CommitShare(r) \/ CommitUnshare(r) \/ CommitRestore(r)
    \/ DelDetail(r) \/ ScanStart(r) \/ ScanDelete(r) \/ ScanEnd(r)

Next ==
    \/ \E r \in Request : Arrive(r) \/ Step(r) \/ Fail(r)
    \/ \E u \in User : change_user_role(u) \/ ExpireList(u)
    \/ ExpireDetail

Spec == Init /\ [][Next]_vars

(* Threads run to the end of their handler, and Redis expires its keys.    *)
Fairness ==
    /\ \A r \in Request : WF_vars(Step(r))
    /\ \A u \in User : WF_vars(ExpireList(u))
    /\ WF_vars(ExpireDetail)

FairSpec == Spec /\ Fairness

-----------------------------------------------------------------------------
Stale(k) ==
    IF k = "detail" THEN detail # None /\ detail # note
                    ELSE list[k] # None /\ list[k] # ListNow(k)

Quiet == InFlight = {}

(* Shape of the state; what the detail key holds is a live note.           *)
TypeOK ==
    /\ note \in Notes
    /\ share \in [User -> Permission \cup {"none"}]
    /\ grant \in [User -> Request \cup {None}]
    /\ \A u \in User : grant[u] = None <=> share[u] = "none"
    /\ role \in [User -> {"user", "admin"}]
    /\ detail = None \/ (detail \in Notes /\ detail.state = "live")
    /\ list \in [User -> Listings \cup {None}]
    /\ pc \in [Request -> Running \cup Ended \cup {"idle"}]
    /\ \A r \in InFlight : who[r] \in User
    /\ who \in [Request -> User \cup {None}]
    /\ seen \in [Request -> {"user", "admin"}]
    /\ target \in [Request -> User \cup {None}]
    /\ DOMAIN op = Request /\ DOMAIN data = Request
    /\ ids \in [Request -> BOOLEAN]
    /\ todo \in [Request -> SUBSET User]
    /\ late \subseteq Key
    /\ skipped \subseteq Key

(* A cache entry differs from the database only if it was out of date when *)
(* it was written, or a writer that has committed is still going to delete *)
(* it, or its deletion failed, or the change was one that does not         *)
(* invalidate (a restore, a role change).  Nothing else goes stale.        *)
StaleExplained ==
    \A k \in Key :
        Stale(k) => k \in late \cup skipped \/ (\E r \in Request : k \in Pending(r))

(* One request at a time and Redis up: between requests the detail key is  *)
(* the row in the database.                                                *)
DetailFresh == Quiet => ~Stale("detail")

(* Likewise a listing shows its user only what that user may read, as it   *)
(* is now, unless the user's role has changed since.                       *)
ListShowsOnlyReadable ==
    Quiet => \A u \in User :
        list[u] # None =>
            list[u].as # role[u] \/ list[u].note = None \/
            (CanRead(u) /\ list[u].note = note)

(* "Access control must be re-checked even on cache hits: visibility or    *)
(* ownership may have changed" (notes.py:229): while nobody writes, a copy  *)
(* that is in the cache is served only to users who may read the note.     *)
HitAuthorised ==
    [][\A r \in Request :
          /\ pc[r] = "check_hit" /\ pc'[r] = "served"
          /\ InFlight = {r} /\ detail = data[r]
          => CanRead(who[r])]_vars

(* "The recipient immediately loses access" (sharing.py:111): once a       *)
(* revocation has answered, and nothing but shares was written, the note   *)
(* is not in the cached listing of a recipient who may not read it.        *)
RevokedNotListed ==
    \A r \in Request :
        /\ op[r] = "revoke_note_share" /\ pc[r] = "answered"
        /\ \A w \in Request : op[w] \in {"none", "get_note", "list_notes", "share_note",
                                        "revoke_note_share"}
        /\ list[target[r]] # None
        /\ list[target[r]].note # None /\ list[target[r]].as = role[target[r]]
        => CanRead(target[r])

(* TTLs bound staleness: no key stays stale for good, whatever failed.     *)
StaleEnds == \A k \in Key : []<>~Stale(k)

-----------------------------------------------------------------------------
(* What makes the invariants inductive. *)

(* What a handler holds when it is about to fill the cache or to commit.    *)
DataOK ==
    \A r \in Request :
        /\ pc[r] \in {"check_hit", "check_miss", "fill_detail"} =>
              data[r] \in Notes /\ data[r].state = "live"
        /\ pc[r] = "fill_list" => data[r] \in Listings
        /\ pc[r] \in {"share", "unshare"} => target[r] \in User
        /\ pc[r] \in {"update", "delete", "restore"} => note.state # "none"
        /\ pc[r] = "create" =>
              /\ op[r] = "create_note"
              /\ note.state = "none"
              /\ \A s \in Request : pc[s] = "create" => s = r

(* With one thread and no failure: what a reader has read is still so, a   *)
(* note being restored is not cached, and the detail key is never doubted. *)
OneAtATime ==
    /\ \A a, b \in InFlight : a = b
    /\ "detail" \notin late \cup skipped
    /\ \A r \in Request :
        /\ pc[r] \in {"check_miss", "fill_detail"} => data[r] = note
        /\ pc[r] = "restore" => detail = None
=============================================================================
