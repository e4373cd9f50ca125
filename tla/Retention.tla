----------------------------- MODULE Retention -----------------------------
(***************************************************************************)
(* What becomes of CloudNotes' notes and of what hangs off them: the trash *)
(* and the nightly hard delete, shares with users, public share links,     *)
(* attachments with their files (backend/app/scheduler.py,                 *)
(* routers/sharing.py, attachments.py, admin.py, storage.py and the        *)
(* foreign keys of the alembic migrations).                                *)
(*                                                                         *)
(* One action is what a handler does up to one commit, one UPDATE whose    *)
(* rows matter before its commit, or one call to the file system.  A       *)
(* share, a link, an attachment row and its file are named by the request  *)
(* that made them.                                                         *)
(***************************************************************************)
EXTENDS Naturals, FiniteSets

CONSTANTS
    Request,    \* HTTP requests, each made at most once
    Note,       \* notes that exist when the behaviour starts
    None,       \* "no note" / "no attachment"
    Workers,    \* requests that can be in flight at once
    Faults      \* may a handler die, or a commit fail, between two steps?

ASSUME RequestAssumption == IsFiniteSet(Request) /\ None \notin Request
ASSUME NoteAssumption    == None \notin Note
ASSUME WorkersAssumption == Workers \in Nat \ {0}
ASSUME FaultsAssumption  == Faults \in BOOLEAN

VARIABLES
    note,       \* "trash": deleted_at set; "old": set more than 30 days ago
    link,       \* share_links: the row each request inserted
    share,      \* the requests whose note_shares row is there
    expired,    \* the links whose expires_at has passed
    att,        \* the requests whose attachments row is there
    file,       \* the requests whose uploaded file is on disk
    dir,        \* the notes whose upload directory is on disk
    op, pc,     \* handler a request runs, and its next step
    on,         \* the note it is about
    ref,        \* the attachment it deletes, the share it deletes or updates
    hits,       \* the links its UPDATE has found active, not yet committed
    blind       \* history: link creations still uncommitted at that UPDATE

tables  == <<note, share, link, expired, att>>
disk    == <<file, dir>>
request == <<op, on, ref>>
local   == <<hits, blind>>
vars    == <<tables, disk, pc, request, local>>

Running == {"mkdir", "write", "save_row", "exists", "unlink", "rmdir", "drop_row",
            "share", "unshare", "replace", "insert", "revoke", "trash", "restore"}
Ended == {"answered", "failed"}

Init ==
    /\ note = [n \in Note |-> "live"]
    /\ link = [r \in Request |-> "none"]
    /\ share = {}
    /\ expired = {}
    /\ att = {}
    /\ file = {}
    /\ dir = {}
    /\ op = [r \in Request |-> "none"]
    /\ pc = [r \in Request |-> "idle"]
    /\ on = [r \in Request |-> None]
    /\ ref = [r \in Request |-> None]
    /\ hits = [r \in Request |-> {}]
    /\ blind = [r \in Request |-> {}]

InFlight == {r \in Request : pc[r] \in Running}

(* The handler has authenticated its caller as the owner or an             *)
(* administrator and found the note as it wants it.                        *)
Begin(r, h, n, a, next) ==
    /\ pc[r] = "idle"
    /\ Cardinality(InFlight) < Workers
    /\ op' = [op EXCEPT ![r] = h]
    /\ on' = [on EXCEPT ![r] = n]
    /\ ref' = [ref EXCEPT ![r] = a]
    /\ pc' = [pc EXCEPT ![r] = next]
    /\ UNCHANGED <<tables, disk, local>>

Goto(r, next) == pc' = [pc EXCEPT ![r] = next] /\ UNCHANGED request

-----------------------------------------------------------------------------
(* POST /notes/{id}/attachments.  The only `async` handler: it awaits the  *)
(* body between its check and the first step on disk.                      *)

UploadStart(r, n) == note[n] = "live" /\ Begin(r, "upload_attachment", n, None, "mkdir")

(* LocalStorage.save: mkdir(exist_ok=True), then write_bytes, which raises *)
(* when another request has removed the directory in between.              *)
MakeDir(r) ==
    /\ pc[r] = "mkdir"
    /\ dir' = dir \cup {on[r]}
    /\ Goto(r, "write")
    /\ UNCHANGED <<tables, file, local>>

WriteFile(r) ==
    /\ pc[r] = "write"
    /\ \/ on[r] \in dir /\ file' = file \cup {r} /\ Goto(r, "save_row")
       \/ on[r] \notin dir /\ Goto(r, "failed") /\ UNCHANGED file
    /\ UNCHANGED <<tables, dir, local>>

SaveRow(r) ==
    /\ pc[r] = "save_row"
    /\ att' = att \cup {r}
    /\ Goto(r, "answered")
    /\ UNCHANGED <<note, share, link, expired, disk, local>>

(* DELETE /notes/{id}/attachments/{file_id} *)
DeleteAnyAttachment(r, n, a) ==               \* mutant: no filter on note_id
    note[n] = "live" /\ a \in att /\ Begin(r, "delete_attachment", n, a, "exists")

DeleteAttachmentStart(r, n, a) ==
    /\ note[n] = "live"
    /\ a \in att
    /\ on[a] = n
    /\ Begin(r, "delete_attachment", n, a, "exists")

FilesOf(n) == {a \in file : on[a] = n}

(* LocalStorage.delete: exists, unlink, rmdir.  If two deletions find the  *)
(* file, the later unlink raises.                                          *)
FindFile(r) ==
    /\ pc[r] = "exists"
    /\ Goto(r, IF ref[r] \in file THEN "unlink" ELSE "rmdir")
    /\ UNCHANGED <<tables, disk, local>>

UnlinkNothing(r) ==                           \* mutant: wrong path, nothing is there
    pc[r] = "unlink" /\ Goto(r, "rmdir") /\ UNCHANGED <<tables, disk, local>>

Unlink(r) ==
    /\ pc[r] = "unlink"
    /\ \/ ref[r] \in file /\ file' = file \ {ref[r]} /\ Goto(r, "rmdir")
       \/ ref[r] \notin file /\ Goto(r, "failed") /\ UNCHANGED file
    /\ UNCHANGED <<tables, dir, local>>

RemoveTree(r) ==                              \* mutant: rmtree for rmdir
    /\ pc[r] = "rmdir"
    /\ dir' = dir \ {on[r]}
    /\ Goto(r, "drop_row")
    /\ UNCHANGED <<tables, file, local>>

(* rmdir succeeds on an empty directory only; its failure is ignored.      *)
RemoveDir(r) ==
    /\ pc[r] = "rmdir"
    /\ dir' = IF FilesOf(on[r]) = {} THEN dir \ {on[r]} ELSE dir
    /\ Goto(r, "drop_row")
    /\ UNCHANGED <<tables, file, local>>

(* A row that another request has deleted meanwhile only logs a warning.   *)
DropUncommitted(r) ==                         \* mutant: no commit
    pc[r] = "drop_row" /\ Goto(r, "answered") /\ UNCHANGED <<tables, disk, local>>

DropRow(r) ==
    /\ pc[r] = "drop_row"
    /\ att' = att \ {ref[r]}
    /\ Goto(r, "answered")
    /\ UNCHANGED <<note, share, link, expired, disk, local>>

-----------------------------------------------------------------------------
(* POST and DELETE /notes/{id}/share *)

SharesOf(n) == {a \in share : on[a] = n}

(* a: the row of the user to share with, if the query finds one.           *)
ShareStart(r, n, a) ==
    /\ note[n] = "live"
    /\ a \in SharesOf(n) \cup {None}
    /\ Begin(r, "share_note", n, a, "share")

(* INSERT if no row was found, else UPDATE of the row found.  A row that   *)
(* has come (uq_note_share) or gone (StaleDataError) meanwhile makes it    *)
(* raise.                                                                  *)
CommitShare(r) ==
    /\ pc[r] = "share"
    /\ \/ ref[r] = None /\ share' = share \cup {r} /\ Goto(r, "answered")
       \/ ref[r] \in share /\ Goto(r, "answered") /\ UNCHANGED share
       \/ /\ IF ref[r] = None THEN SharesOf(on[r]) # {} ELSE ref[r] \notin share
          /\ Goto(r, "failed")
          /\ UNCHANGED share
    /\ UNCHANGED <<note, link, expired, att, disk, local>>

UnshareStart(r, n, a) ==
    /\ note[n] = "live"
    /\ a \in SharesOf(n)
    /\ Begin(r, "revoke_note_share", n, a, "unshare")

(* A row that is gone already only logs a warning.                         *)
CommitUnshare(r) ==
    /\ pc[r] = "unshare"
    /\ share' = share \ {ref[r]}
    /\ Goto(r, "answered")
    /\ UNCHANGED <<note, link, expired, att, disk, local>>

-----------------------------------------------------------------------------
(* POST and DELETE /notes/{id}/share-link *)

ActiveLinks(n) == {a \in Request : link[a] = "active" /\ on[a] = n}

LinkStart(r, n) == note[n] = "live" /\ Begin(r, "create_share_link", n, None, "replace")

(* The UPDATE finds the links that are committed and active now; what it   *)
(* changes is seen by others after the commit, which also inserts the row. *)
ReplaceNone(r) == {}                          \* mutant: old links not revoked
Replaced(r) == ActiveLinks(on[r])

ReplaceLinks(r) ==
    /\ pc[r] = "replace"
    /\ hits' = [hits EXCEPT ![r] = Replaced(r)]
    /\ blind' = [blind EXCEPT ![r] = {c \in Request : pc[c] = "insert" /\ on[c] = on[r]}]
    /\ Goto(r, "insert")
    /\ UNCHANGED <<tables, disk>>

InsertLink(r) ==
    /\ pc[r] = "insert"
    /\ link' = [a \in Request |-> IF a = r THEN "active"
                                  ELSE IF a \in hits[r] THEN "revoked" ELSE link[a]]
    /\ hits' = [hits EXCEPT ![r] = {}]
    /\ Goto(r, "answered")
    /\ UNCHANGED <<note, share, expired, att, disk, blind>>

RevokeLinkStart(r, n) == note[n] = "live" /\ Begin(r, "revoke_share_link", n, None, "revoke")

RevokeLink(r) ==
    /\ pc[r] = "revoke"
    /\ link' = [a \in Request |-> IF a \in ActiveLinks(on[r]) THEN "revoked" ELSE link[a]]
    /\ Goto(r, "answered")
    /\ UNCHANGED <<note, share, expired, att, disk, local>>

-----------------------------------------------------------------------------
(* DELETE /notes/{id} and POST /admin/notes/{id}/restore *)

DeleteStart(r, n) == note[n] = "live" /\ Begin(r, "delete_note", n, None, "trash")

CommitDelete(r) ==
    /\ pc[r] = "trash"
    /\ note' = [note EXCEPT ![on[r]] = "trash"]
    /\ Goto(r, "answered")
    /\ UNCHANGED <<share, link, expired, att, disk, local>>

RestoreStart(r, n) ==
    /\ note[n] \in {"trash", "old"}
    /\ Begin(r, "restore_note", n, None, "restore")

(* The ORM's UPDATE of a row the nightly job has deleted raises            *)
(* StaleDataError.                                                         *)
RestoreAnyway(r) ==                           \* mutant: row written back
    /\ pc[r] = "restore"
    /\ note' = [note EXCEPT ![on[r]] = "live"]
    /\ Goto(r, "answered")
    /\ UNCHANGED <<share, link, expired, att, disk, local>>

CommitRestore(r) ==
    /\ pc[r] = "restore"
    /\ \/ /\ note[on[r]] # "gone"
          /\ note' = [note EXCEPT ![on[r]] = "live"]
          /\ Goto(r, "answered")
       \/ /\ note[on[r]] = "gone"
          /\ UNCHANGED note
          /\ Goto(r, "failed")
    /\ UNCHANGED <<share, link, expired, att, disk, local>>

-----------------------------------------------------------------------------
(* The jobs.  One DELETE serves all notes that are due.  The foreign keys  *)
(* of note_shares, share_links and attachments have no ON DELETE: a due    *)
(* note with a share, a link (a revoked or expired one, too) or an         *)
(* attachment fails the whole statement.                                   *)

DueIfYoung == {n \in Note : note[n] = "trash"}   \* mutant: cutoff compared the wrong way
Due == {n \in Note : note[n] = "old"}

Referenced(n) == \E r \in Request : on[r] = n /\ (link[r] # "none" \/ r \in att \cup share)

DeletableLinksOnly == \A n \in Due :          \* mutant: no key on attachments
    ~\E r \in Request : on[r] = n /\ link[r] # "none"
Deletable == \A n \in Due : ~Referenced(n)

PurgedBy(D) == note' = [n \in Note |-> IF n \in D THEN "gone" ELSE note[n]]

hard_delete_old_notes ==
    /\ Due # {}
    /\ Deletable
    /\ PurgedBy(Due)
    /\ UNCHANGED <<share, link, expired, att, disk, pc, request, local>>

Overdue(a) == a \in expired /\ link[a] = "active"

revoke_expired_share_links ==
    /\ \E a \in Request : Overdue(a)
    /\ link' = [a \in Request |-> IF Overdue(a) THEN "revoked" ELSE link[a]]
    /\ UNCHANGED <<note, share, expired, att, disk, pc, request, local>>

(* 30 days pass: no request stays in flight for so long.                   *)
Age(n) ==
    /\ note[n] = "trash"
    /\ InFlight = {}
    /\ note' = [note EXCEPT ![n] = "old"]
    /\ UNCHANGED <<share, link, expired, att, disk, pc, request, local>>

(* 7 days pass. *)
ExpireLink(a) ==
    /\ link[a] # "none"
    /\ a \notin expired
    /\ expired' = expired \cup {a}
    /\ UNCHANGED <<note, share, link, att, disk, pc, request, local>>

Fail(r) ==
    /\ Faults
    /\ pc[r] \in Running
    /\ Goto(r, "failed")
    /\ hits' = [hits EXCEPT ![r] = {}]
    /\ UNCHANGED <<tables, disk, blind>>

-----------------------------------------------------------------------------
Arrive(r) ==
    \E n \in Note :
        \/ UploadStart(r, n)
        \/ LinkStart(r, n)
        \/ RevokeLinkStart(r, n)
        \/ DeleteStart(r, n)
        \/ RestoreStart(r, n)
        \/ \E a \in Request : DeleteAttachmentStart(r, n, a) \/ UnshareStart(r, n, a)
        \/ \E a \in Request \cup {None} : ShareStart(r, n, a)

Step(r) ==
    \/ MakeDir(r) \/ WriteFile(r) \/ SaveRow(r)
    \/ FindFile(r) \/ Unlink(r) \/ RemoveDir(r) \/ DropRow(r)
    \/ CommitShare(r) \/ CommitUnshare(r)
    \/ ReplaceLinks(r) \/ InsertLink(r) \/ RevokeLink(r)
    \/ CommitDelete(r) \/ CommitRestore(r)

Next ==
    \/ \E r \in Request : Arrive(r) \/ Step(r) \/ Fail(r) \/ ExpireLink(r)
    \/ \E n \in Note : Age(n)
    \/ hard_delete_old_notes
    \/ revoke_expired_share_links

Spec == Init /\ [][Next]_vars

(* Threads run to the end of their handler, and the jobs come round.       *)
Fairness ==
    /\ \A r \in Request : WF_vars(Step(r))
    /\ WF_vars(hard_delete_old_notes)
    /\ WF_vars(revoke_expired_share_links)

FairSpec == Spec /\ Fairness

-----------------------------------------------------------------------------
(* Properties *)

TypeOK ==
    /\ note \in [Note -> {"live", "trash", "old", "gone"}]
    /\ link \in [Request -> {"none", "active", "revoked"}]
    /\ share \subseteq {a \in Request : /\ op[a] = "share_note" /\ pc[a] = "answered"
                                       /\ ref[a] = None}
    /\ expired \subseteq {a \in Request : link[a] # "none"}
    /\ att \subseteq {a \in Request : op[a] = "upload_attachment" /\ pc[a] = "answered"}
    /\ file \subseteq {a \in Request : op[a] = "upload_attachment"}
    /\ dir \subseteq Note
    /\ op \in [Request -> {"none", "upload_attachment", "delete_attachment",
                           "share_note", "revoke_note_share", "create_share_link",
                           "revoke_share_link", "delete_note", "restore_note"}]
    /\ pc \in [Request -> Running \cup Ended \cup {"idle"}]
    /\ on \in [Request -> Note \cup {None}]
    /\ ref \in [Request -> Request \cup {None}]
    /\ \A r \in Request :
        /\ pc[r] = "idle" <=> on[r] = None
        /\ op[r] \in {"delete_attachment", "revoke_note_share"} => ref[r] \in Request
        /\ ref[r] # None => on[ref[r]] = on[r]
        /\ link[r] # "none" => op[r] = "create_share_link" /\ pc[r] = "answered"
    /\ hits \in [Request -> SUBSET {a \in Request : link[a] # "none"}]
    /\ blind \in [Request -> SUBSET Request]

(* No share, link or attachment row belongs to a note that has been deleted   *)
(* for good (the foreign keys of migrations e5f6a7b8c9d0 and f6a7b8c9d0e1  *)
(* against the one DELETE of scheduler.py:49-53).                          *)
ReferentialIntegrity == \A n \in Note : note[n] = "gone" => ~Referenced(n)

(* A listed attachment can be downloaded, unless a deletion has removed    *)
(* its file and is about to delete its row, or died before it did          *)
(* (attachments.py:185-187).                                               *)
RowHasFile ==
    \A a \in att \ file : \E r \in Request :
        /\ op[r] = "delete_attachment" /\ ref[r] = a
        /\ pc[r] \in {"rmdir", "drop_row", "failed"}

(* A file on disk has its row, unless its upload is about to insert it or  *)
(* died before it did: no other interleaving of uploads and deletions      *)
(* leaves a file nothing refers to (attachments.py:138-149).               *)
FileHasRow == \A a \in file \ att : pc[a] \in {"save_row", "failed"}

(* The removal of a note's directory never takes another file with it,     *)
(* whatever uploads are between mkdir and write; an upload that is about   *)
(* to write lacks its directory only if a deletion on the same note has    *)
(* got as far as rmdir, or died (storage.py:30-41).                        *)
FilesReachable ==
    /\ \A a \in file : on[a] \in dir
    /\ \A r \in Request : pc[r] = "write" /\ on[r] \notin dir =>
        \E d \in Request :
            /\ op[d] = "delete_attachment" /\ on[d] = on[r]
            /\ pc[d] \in {"drop_row"} \cup Ended

(* "Each call replaces any existing active link" (sharing.py:136): a note  *)
(* has two active links only if one was created while the transaction of   *)
(* the other was still open (sharing.py:144-156).                          *)
ActiveLinksByRace ==
    \A n \in Note : \A a, b \in ActiveLinks(n) :
        a # b => a \in blind[b] \/ b \in blind[a]

(* A note deleted for good does not come back, not even through a restore  *)
(* that found it in the trash (admin.py:89-94, scheduler.py:49-54).        *)
GoneForGood == [][\A n \in Note : note[n] = "gone" => note'[n] = "gone"]_vars

(* If from some moment on no due note has a share, a link or an            *)
(* attachment, every due note is purged or restored               *)
(* (scheduler.py:48-54).                                                   *)
UnblockedTrashPurged ==
    <>[](\A n \in Due : ~Referenced(n)) =>
        \A n \in Note : note[n] = "old" ~> note[n] # "old"

=============================================================================
