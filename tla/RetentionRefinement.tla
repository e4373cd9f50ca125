------------------------ MODULE RetentionRefinement ------------------------
(***************************************************************************)
(* The handlers and jobs of Retention implement the shelf of NoteShelf     *)
(* however they overlap and wherever they die; with one worker thread they *)
(* implement it as the documentation states it.  An upload takes effect    *)
(* with its row, when its file is there; a deletion with its unlink, while *)
(* the row is still listed.                                                *)
(***************************************************************************)
EXTENDS Retention

(* The row is listed, and the file is found where it is served from        *)
(* (attachments.py:158-162; the static mount of main.py:77).               *)
Available == {a \in att \cap file : on[a] \in dir}

Uploaded == {a \in Request : op[a] = "upload_attachment" /\ pc[a] = "answered"}
Granted == {a \in Request : op[a] = "share_note" /\ pc[a] = "answered" /\ ref[a] = None}
NoteOf == [a \in Request |->
    IF link[a] # "none" \/ a \in Uploaded \cup Granted THEN on[a] ELSE None]

Shelf == INSTANCE NoteShelf WITH
    Item <- Request, of <- NoteOf, shares <- share, files <- Available, Serial <- (Workers = 1)

(* Every request takes effect at one instant or not at all, in any         *)
(* interleaving: what is attached can be fetched until it is detached,     *)
(* revoked links stay revoked, the nightly job takes whole empty notes     *)
(* and nothing returns (attachments.py, sharing.py, admin.py, scheduler.py).*)
ImplementsShelf == Shelf!Spec

(* What the proof knows beyond the invariants of Retention: a creation     *)
(* revokes links of its own note only and, with one worker, all of them.   *)
OwnHits == \A r \in Request : \A a \in hits[r] : on[a] = on[r]

(* "Each call replaces any existing active link" (sharing.py:136).         *)
OneActiveLink == \A n \in Note : \A a, b \in ActiveLinks(n) : a = b

Undisturbed ==
    /\ \A r, c \in InFlight : r = c
    /\ \A r \in Request :
        /\ pc[r] \in Running \ {"restore"} => note[on[r]] = "live"
        /\ pc[r] = "insert" => ActiveLinks(on[r]) \subseteq hits[r]

ShelfInv == OwnHits /\ (Workers = 1 => OneActiveLink /\ Undisturbed)

(* Between requests the table of attachments and the disk agree.           *)
AtRestConsistent == InFlight = {} => att = file

(* A handler that does not die leaves neither file nor row behind it when  *)
(* it fails: an upload whose directory was taken away, a deletion whose    *)
(* file was, a share that another request made or withdrew, the restore of *)
(* a purged note.  A missing file is one whose deletion goes on.           *)
CleanFailures ==
    /\ \A r \in Request : pc[r] = "failed" =>
        /\ op[r] \in {"upload_attachment", "delete_attachment", "share_note", "restore_note"}
        /\ r \notin file
    /\ \A a \in att \ file : \E r \in Request :
        /\ op[r] = "delete_attachment" /\ ref[r] = a
        /\ pc[r] \in {"rmdir", "drop_row"}
=============================================================================
