--------------------- MODULE RetentionRefinementProofs ---------------------
(***************************************************************************)
(* Retention implements NoteShelf for any number of notes, requests and    *)
(* threads, with handlers failing anywhere; with one thread it implements  *)
(* the serial shelf, so a note has at most one active link.                *)
(***************************************************************************)
EXTENDS RetentionRefinement, RetentionProofs, FiniteSetTheorems

(* With one thread, a request that arrives finds none in flight.           *)
LEMMA NoneInFlight ==
    ASSUME Workers = 1, Cardinality(InFlight) < Workers
    PROVE  InFlight = {}
<1>1. InFlight \subseteq Request
  BY DEF InFlight
<1>2. IsFiniteSet(InFlight)
  BY <1>1, RequestAssumption, FS_Subset
<1>3. Cardinality(InFlight) = 0
  BY <1>2, FS_CardinalityType
<1> QED
  BY <1>2, <1>3, FS_EmptySet

(* The requests in flight are those before the step and the one arriving.  *)
LEMMA BeginKeeps ==
    ASSUME TypeOK, ShelfInv, NEW r \in Request, NEW h, NEW n \in Note, NEW a,
           NEW next \in Running \ {"insert"}, Begin(r, h, n, a, next),
           next # "restore" => note[n] = "live"
    PROVE  ShelfInv'
<1> USE RequestAssumption, NoteAssumption DEF TypeOK, Begin, tables, disk, local, ShelfInv
<1>1. OwnHits'
  BY DEF OwnHits
<1>2. ASSUME Workers = 1 PROVE OneActiveLink'
  BY <1>2 DEF OneActiveLink, ActiveLinks
<1>3. ASSUME Workers = 1 PROVE Undisturbed'
  <2>1. InFlight = {}
    BY <1>3, NoneInFlight
  <2> QED
    BY <2>1 DEF Undisturbed, InFlight, Running
<1> QED
  BY <1>1, <1>2, <1>3

(* The invariant that the refinement needs beside IInv.                    *)
LEMMA ShelfStep == IInv /\ ShelfInv /\ [Next]_vars => ShelfInv'
<1> SUFFICES ASSUME IInv, ShelfInv, [Next]_vars PROVE ShelfInv'
  OBVIOUS
<1>0. TypeOK /\ DataOK
  BY DEF IInv
<1>1. ASSUME NEW r \in Request, Arrive(r) PROVE ShelfInv'
  <2>1. PICK n \in Note : \/ UploadStart(r, n) \/ LinkStart(r, n) \/ RevokeLinkStart(r, n)
                          \/ DeleteStart(r, n) \/ RestoreStart(r, n)
                          \/ \E a \in Request \cup {None} :
                                \/ DeleteAttachmentStart(r, n, a)
                                \/ ShareStart(r, n, a) \/ UnshareStart(r, n, a)
    BY <1>1 DEF Arrive
  <2>2. ASSUME UploadStart(r, n) \/ LinkStart(r, n) \/ RevokeLinkStart(r, n)
               \/ DeleteStart(r, n) \/ RestoreStart(r, n)
        PROVE  ShelfInv'
    BY <1>0, <2>2, BeginKeeps DEF UploadStart, LinkStart, RevokeLinkStart, DeleteStart,
       RestoreStart, Running
  <2>3. ASSUME NEW a \in Request \cup {None},
               DeleteAttachmentStart(r, n, a) \/ ShareStart(r, n, a) \/ UnshareStart(r, n, a)
        PROVE  ShelfInv'
    BY <1>0, <2>3, BeginKeeps DEF DeleteAttachmentStart, ShareStart, UnshareStart, Running
  <2> QED
    BY <2>1, <2>2, <2>3
<1> USE RequestAssumption, NoteAssumption, <1>0 DEF TypeOK, DataOK, ShelfInv, OwnHits,
        OneActiveLink, Undisturbed, ActiveLinks, InFlight, tables, disk, request, local,
        Running, Ended
<1>2. ASSUME NEW r \in Request,
             \/ MakeDir(r) \/ WriteFile(r) \/ SaveRow(r) \/ FindFile(r) \/ Unlink(r)
             \/ RemoveDir(r) \/ DropRow(r) \/ CommitShare(r) \/ CommitUnshare(r)
      PROVE  ShelfInv'
  BY <1>2 DEF MakeDir, WriteFile, SaveRow, FindFile, Unlink, RemoveDir, DropRow,
     CommitShare, CommitUnshare, Goto
<1>3. ASSUME NEW r \in Request, ReplaceLinks(r) PROVE ShelfInv'
  BY <1>3 DEF ReplaceLinks, Replaced, Goto
<1>4. ASSUME NEW r \in Request, InsertLink(r) PROVE ShelfInv'
  BY <1>4 DEF InsertLink, Goto
<1>5. ASSUME NEW r \in Request, RevokeLink(r) PROVE ShelfInv'
  BY <1>5 DEF RevokeLink, Goto
<1>6. ASSUME NEW r \in Request, CommitDelete(r) PROVE ShelfInv'
  BY <1>6 DEF CommitDelete, Goto
<1>7. ASSUME NEW r \in Request, CommitRestore(r) PROVE ShelfInv'
  BY <1>7 DEF CommitRestore, Goto
<1>8. ASSUME NEW r \in Request, Fail(r) PROVE ShelfInv'
  BY <1>8 DEF Fail, Goto
<1>9. ASSUME NEW a \in Request, ExpireLink(a) PROVE ShelfInv'
  BY <1>9 DEF ExpireLink
<1>10. ASSUME NEW n \in Note, Age(n) PROVE ShelfInv'
  BY <1>10 DEF Age
<1>11. CASE hard_delete_old_notes
  BY <1>11 DEF hard_delete_old_notes, PurgedBy, Due
<1>12. CASE revoke_expired_share_links
  BY <1>12 DEF revoke_expired_share_links, Overdue
<1>13. CASE UNCHANGED vars
  BY <1>13 DEF vars
<1> QED
  BY <1>1, <1>2, <1>3, <1>4, <1>5, <1>6, <1>7, <1>8, <1>9, <1>10, <1>11, <1>12, <1>13
     DEF Next, Step

LEMMA ShelfAlways == Spec => []ShelfInv
<1>1. Init => ShelfInv
  BY DEF Init, ShelfInv, OwnHits, OneActiveLink, ActiveLinks, Undisturbed, InFlight, Running
<1> QED
  BY <1>1, ShelfStep, Inductive, PTL DEF Spec
-----------------------------------------------------------------------------
(* Files are reachable, so what is listed and on disk is available.        *)
LEMMA AvailableFiles ==
    /\ IInv => Available = att \cap file
    /\ IInv' => Available' = att' \cap file'
BY DEF IInv, TypeOK, FilesInv, FilesReachable, Available

(* A step that leaves the tables alone, ends no upload and removes no      *)
(* listed file is a stutter of the shelf.                                  *)
LEMMA ShelfUnchanged ==
    ASSUME IInv, IInv', UNCHANGED <<note, share, link, expired>>,
           att' \cap file' = att \cap file, NoteOf' = NoteOf
    PROVE  UNCHANGED Shelf!vars
<1>1. Available' = Available
  BY AvailableFiles
<1> QED
  BY <1>1 DEF Shelf!vars, Shelf!items

(* A request that has just been answered hangs off its note: as a share, a *)
(* link or an attachment.                                                  *)
LEMMA Placed ==
    ASSUME NEW r \in Request, on' = on, NoteOf[r] = None,
           \A a \in Request \ {r} :
              /\ a \in (Uploaded \cup Granted)' <=> a \in Uploaded \cup Granted
              /\ link'[a] # "none" <=> link[a] # "none",
           link'[r] # "none" \/ r \in (Uploaded \cup Granted)'
    PROVE  Shelf!Place(r, on[r])
BY DEF NoteOf, Shelf!Place

(* A request that arrives touches nothing on the shelf.                    *)
LEMMA ArriveShelf ==
    ASSUME IInv, IInv', NEW r \in Request, Arrive(r)
    PROVE  UNCHANGED Shelf!vars
<1> USE DEF IInv, TypeOK, DataOK, tables, disk
<1>1. /\ pc[r] = "idle" /\ pc'[r] # "answered"
      /\ \A a \in Request \ {r} : /\ pc'[a] = pc[a] /\ on'[a] = on[a]
                                 /\ op'[a] = op[a] /\ ref'[a] = ref[a]
      /\ UNCHANGED <<tables, disk>>
  BY DEF Arrive, UploadStart, LinkStart, RevokeLinkStart, DeleteStart, RestoreStart,
     DeleteAttachmentStart, ShareStart, UnshareStart, Begin
<1>2. NoteOf' = NoteOf
  BY <1>1 DEF NoteOf, Uploaded, Granted
<1> QED
  BY <1>1, <1>2, ShelfUnchanged

(* Steps of an upload before its row, those of a deletion but its unlink,  *)
(* the UPDATE of a creation before its commit and the death of a handler   *)
(* do not show on the shelf.                                               *)
LEMMA HiddenStep ==
    ASSUME IInv, IInv', NEW r \in Request,
           \/ MakeDir(r) \/ WriteFile(r) \/ FindFile(r) \/ RemoveDir(r) \/ DropRow(r)
           \/ ReplaceLinks(r) \/ Fail(r)
    PROVE  UNCHANGED Shelf!vars
<1> USE DEF IInv, TypeOK, DataOK, tables, disk, request
<1>1. /\ UNCHANGED <<note, share, link, expired, op, on, ref>>
      /\ pc[r] \in Running
      /\ pc'[r] = "answered" => op[r] \notin {"upload_attachment", "share_note"}
      /\ \A a \in Request \ {r} : pc'[a] = pc[a]
  BY DEF MakeDir, WriteFile, FindFile, RemoveDir, DropRow, ReplaceLinks, Fail, Goto, Running
<1>2. NoteOf' = NoteOf
  BY <1>1 DEF NoteOf, Uploaded, Granted, Running
<1>3. att' \cap file' = att \cap file
  BY DEF MakeDir, WriteFile, FindFile, RemoveDir, DropRow, ReplaceLinks, Fail, Goto,
     FilesInv, Running
<1> QED
  BY <1>1, <1>2, <1>3, ShelfUnchanged

(* The row of an upload attaches its file.                                 *)
LEMMA SaveRowAttaches ==
    ASSUME IInv, IInv', ShelfInv, NEW r \in Request, SaveRow(r)
    PROVE  Shelf!Attach(r, on[r])
<1> USE DEF IInv, TypeOK, DataOK, SaveRow, Goto, disk, request, Running
<1>1. Shelf!Editable(on[r])
  BY DEF Shelf!Editable, ShelfInv, Undisturbed
<1>2. Shelf!Place(r, on[r])
  BY Placed DEF NoteOf, Uploaded, Granted
<1>3. Available' = Available \cup {r}
  BY AvailableFiles DEF FilesInv
<1> QED
  BY <1>1, <1>2, <1>3 DEF Shelf!Attach

(* The unlink of a file detaches it, if no other deletion did.             *)
LEMMA UnlinkDetaches ==
    ASSUME IInv, IInv', ShelfInv, NEW r \in Request, Unlink(r)
    PROVE  Shelf!Detach(ref[r]) \/ UNCHANGED Shelf!vars
<1> USE DEF IInv, TypeOK, DataOK, Unlink, Goto, tables, request, Running
<1>1. ref[r] \in Uploaded /\ NoteOf[ref[r]] = on[r]
  BY RequestAssumption DEF NoteOf, Uploaded, Granted
<1>2. NoteOf' = NoteOf
  BY DEF NoteOf, Uploaded, Granted
<1>3. Shelf!Editable(on[r])
  BY DEF Shelf!Editable, ShelfInv, Undisturbed
<1>4. Available' = Available \ {ref[r]}
  BY AvailableFiles
<1> QED
  BY <1>1, <1>2, <1>3, <1>4 DEF Shelf!Detach, Shelf!vars, Shelf!items

(* The commit of a share puts it on the shelf, if it inserts its row.      *)
LEMMA ShareGrants ==
    ASSUME IInv, IInv', ShelfInv, NEW r \in Request, CommitShare(r)
    PROVE  Shelf!Grant(r, on[r]) \/ UNCHANGED Shelf!vars
<1> USE DEF IInv, TypeOK, DataOK, CommitShare, Goto, disk, request, Running
<1>1. Available' = Available
  BY AvailableFiles
<1>2. CASE ref[r] = None /\ share' = share \cup {r} /\ pc' = [pc EXCEPT ![r] = "answered"]
  <2>1. Shelf!Editable(on[r])
    BY DEF Shelf!Editable, ShelfInv, Undisturbed
  <2>2. Shelf!Place(r, on[r])
    BY <1>2, Placed DEF NoteOf, Uploaded, Granted
  <2> QED
    BY <1>1, <1>2, <2>1, <2>2 DEF Shelf!Grant
<1>3. CASE /\ UNCHANGED share
           /\ \/ ref[r] \in share /\ pc' = [pc EXCEPT ![r] = "answered"]
              \/ pc' = [pc EXCEPT ![r] = "failed"]
  <2>1. NoteOf' = NoteOf
    BY <1>3, RequestAssumption DEF NoteOf, Uploaded, Granted
  <2> QED
    BY <1>1, <1>3, <2>1 DEF Shelf!vars, Shelf!items
<1> QED
  BY <1>2, <1>3

(* A share is withdrawn, unless another request has done so.               *)
LEMMA UnshareWithdraws ==
    ASSUME IInv, IInv', ShelfInv, NEW r \in Request, CommitUnshare(r)
    PROVE  Shelf!Withdraw(ref[r]) \/ UNCHANGED Shelf!vars
<1> USE DEF IInv, TypeOK, DataOK, CommitUnshare, Goto, disk, request, Running
<1>1. ref[r] \in Request /\ on[ref[r]] = on[r]
  BY RequestAssumption
<1>2. NoteOf' = NoteOf
  BY DEF NoteOf, Uploaded, Granted
<1>3. Shelf!Editable(on[r])
  BY DEF Shelf!Editable, ShelfInv, Undisturbed
<1>4. Available' = Available
  BY AvailableFiles
<1>5. ref[r] \in share => NoteOf[ref[r]] = on[r]
  BY <1>1 DEF NoteOf, Granted
<1> QED
  BY <1>2, <1>3, <1>4, <1>5 DEF Shelf!Withdraw, Shelf!vars, Shelf!items

(* Links that a shelf shows active are the active rows.                    *)
LEMMA SameActive == \A n \in Note : Shelf!Active(n) = ActiveLinks(n)
BY NoteAssumption DEF Shelf!Active, ActiveLinks, NoteOf

(* A commit that revokes some links and creates none changes nothing else. *)
LEMMA NotesOfItemsKept ==
    ASSUME IInv, UNCHANGED <<op, on, ref, pc>>,
           \A a \in Request : link'[a] # "none" <=> link[a] # "none"
    PROVE  NoteOf' = NoteOf
BY DEF NoteOf, Uploaded, Granted

(* One UPDATE that revokes H, of which only R was still active, and adds r. *)
LEMMA RevokedAndAdded ==
    ASSUME NEW r \in Request, NEW H, NEW R \in SUBSET H,
           \A a \in H \ R : link[a] = "revoked",
           link' = [a \in Request |-> IF a = r THEN "active"
                                      ELSE IF a \in H THEN "revoked" ELSE link[a]]
    PROVE  link' = [Shelf!Revoked(R) EXCEPT ![r] = "active"]
<1> DEFINE F == [Shelf!Revoked(R) EXCEPT ![r] = "active"]
<1>1. F = [a \in Request |-> IF a = r THEN "active" ELSE Shelf!Revoked(R)[a]]
  BY DEF Shelf!Revoked
<1>2. \A a \in Request : link'[a] = F[a]
  BY <1>1 DEF Shelf!Revoked
<1> QED
  BY <1>1, <1>2

(* The commit of a creation shares the note and replaces what its UPDATE   *)
(* found.                                                                  *)
LEMMA InsertShares ==
    ASSUME IInv, IInv', ShelfInv, NEW r \in Request, InsertLink(r)
    PROVE  \E R \in SUBSET Shelf!Active(on[r]) : Shelf!Share(r, on[r], R)
<1> USE NoteAssumption DEF IInv, TypeOK, DataOK, InsertLink, Goto, disk, request, Running
<1> DEFINE R == hits[r] \cap ActiveLinks(on[r])
<1>1. on[r] \in Note /\ R \in SUBSET Shelf!Active(on[r])
  BY SameActive
<1>2. Shelf!Editable(on[r])
  BY DEF Shelf!Editable, ShelfInv, Undisturbed
<1>3. Shelf!Place(r, on[r])
  BY Placed DEF NoteOf, Uploaded, Granted
<1>4. Workers = 1 => R = Shelf!Active(on[r])
  BY <1>1, SameActive DEF ShelfInv, Undisturbed
<1>5. link' = [Shelf!Revoked(R) EXCEPT ![r] = "active"]
  <2>1. \A a \in hits[r] : link[a] \in {"active", "revoked"} /\ on[a] = on[r]
    BY DEF ShelfInv, OwnHits
  <2>2. \A a \in hits[r] \ R : link[a] = "revoked"
    BY <2>1 DEF ActiveLinks
  <2>3. /\ R \in SUBSET hits[r]
        /\ link' = [a \in Request |-> IF a = r THEN "active"
                                      ELSE IF a \in hits[r] THEN "revoked" ELSE link[a]]
    OBVIOUS
  <2> HIDE DEF R, IInv, InsertLink
  <2> QED
    BY <2>2, <2>3, RevokedAndAdded
<1>6. Available' = Available
  BY AvailableFiles
<1> HIDE DEF R
<1>7. Shelf!Share(r, on[r], R)
  BY <1>2, <1>3, <1>4, <1>5, <1>6 DEF Shelf!Share
<1> QED
  BY <1>1, <1>7

(* DELETE of the link ends every active link of the note.                  *)
LEMMA RevokeUnshares ==
    ASSUME IInv, IInv', ShelfInv, NEW r \in Request, RevokeLink(r)
    PROVE  Shelf!Unshare(on[r])
<1> USE DEF IInv, TypeOK, DataOK, RevokeLink, Goto, disk, request, Running
<1>1. Shelf!Editable(on[r])
  BY DEF Shelf!Editable, ShelfInv, Undisturbed
<1>2. link' = Shelf!Revoked(Shelf!Active(on[r]))
  <2>1. Shelf!Active(on[r]) = ActiveLinks(on[r])
    BY SameActive
  <2> QED
    BY <2>1 DEF Shelf!Revoked
<1>3. NoteOf' = NoteOf
  BY DEF NoteOf, Uploaded, Granted, ActiveLinks
<1>4. Available' = Available
  BY AvailableFiles
<1> QED
  BY <1>1, <1>2, <1>3, <1>4 DEF Shelf!Unshare

(* Trash and restore move the note, unless another request already did.    *)
LEMMA MovesNote ==
    ASSUME IInv, IInv', NEW r \in Request, CommitDelete(r) \/ CommitRestore(r)
    PROVE  Shelf!Trash(on[r]) \/ Shelf!Restore(on[r]) \/ UNCHANGED Shelf!vars
<1> USE DEF IInv, TypeOK, DataOK, Goto, disk, request, Running
<1>1. on[r] \in Note
  BY DEF CommitDelete, CommitRestore
<1>2. /\ UNCHANGED <<share, link, expired, att, file, op, on, ref>>
      /\ pc[r] \in {"trash", "restore"} /\ pc'[r] \in Ended
      /\ op[r] \notin {"upload_attachment", "share_note"}
      /\ \A a \in Request \ {r} : pc'[a] = pc[a]
  BY DEF CommitDelete, CommitRestore, Ended
<1>3. NoteOf' = NoteOf
  BY <1>2 DEF NoteOf, Uploaded, Granted, Ended
<1>4. UNCHANGED Shelf!items
  BY <1>2, <1>3, AvailableFiles DEF Shelf!items
<1>5. note[on[r]] \in {"live", "trash", "old", "gone"}
  BY <1>1
<1>6. CASE CommitDelete(r)
  BY <1>1, <1>2, <1>4, <1>5, <1>6 DEF CommitDelete, Shelf!Trash, Shelf!Move, Shelf!vars
<1>7. CASE CommitRestore(r)
  BY <1>1, <1>2, <1>4, <1>5, <1>7 DEF CommitRestore, Shelf!Restore, Shelf!Move, Shelf!vars
<1> QED
  BY <1>6, <1>7

(* The clock and the jobs.                                                 *)
LEMMA JobsOnShelf ==
    ASSUME IInv, IInv'
    PROVE  /\ \A n \in Note : Age(n) => Shelf!Age(n)
           /\ \A a \in Request : ExpireLink(a) => Shelf!Expire(a)
           /\ revoke_expired_share_links => Shelf!Lapse
           /\ hard_delete_old_notes => Shelf!Purge
<1> USE NoteAssumption DEF IInv, TypeOK, disk, request
<1>1. ASSUME NEW n \in Note, Age(n) PROVE Shelf!Age(n)
  BY <1>1, AvailableFiles, NotesOfItemsKept DEF Age, Shelf!Age, Shelf!Move, Shelf!items
<1>2. ASSUME NEW a \in Request, ExpireLink(a) PROVE Shelf!Expire(a)
  BY <1>2, AvailableFiles, NotesOfItemsKept DEF ExpireLink, Shelf!Expire, Shelf!items
<1>3. ASSUME revoke_expired_share_links PROVE Shelf!Lapse
  <2>1. link' = Shelf!Revoked({a \in expired : link[a] = "active"})
    BY <1>3 DEF revoke_expired_share_links, Overdue, Shelf!Revoked
  <2>2. NoteOf' = NoteOf
    BY <1>3, NotesOfItemsKept DEF revoke_expired_share_links, Overdue
  <2> QED
    BY <1>3, <2>1, <2>2, AvailableFiles DEF revoke_expired_share_links, Shelf!Lapse
<1>4. ASSUME hard_delete_old_notes PROVE Shelf!Purge
  <2>1. \A n \in Note : note[n] = "old" => Shelf!Empty(n)
    BY <1>4, AvailableFiles DEF hard_delete_old_notes, Deletable, Due, Referenced, Shelf!Empty,
       NoteOf, Granted
  <2>2. note' = [n \in Note |-> IF note[n] = "old" THEN "gone" ELSE note[n]]
    BY <1>4 DEF hard_delete_old_notes, PurgedBy, Due
  <2>3. UNCHANGED Shelf!items
    BY <1>4, AvailableFiles, NotesOfItemsKept DEF hard_delete_old_notes, Shelf!items
  <2> QED
    BY <1>4, <2>1, <2>2, <2>3 DEF Shelf!Purge, hard_delete_old_notes
<1> QED
  BY <1>1, <1>2, <1>3, <1>4

LEMMA StepRefinesShelf ==
    IInv /\ IInv' /\ ShelfInv /\ [Next]_vars => [Shelf!Next]_(Shelf!vars)
<1> SUFFICES ASSUME IInv, IInv', ShelfInv, [Next]_vars PROVE [Shelf!Next]_(Shelf!vars)
  OBVIOUS
<1> USE DEF Shelf!Next
<1>0. \A r \in Request : pc[r] \in Running => on[r] \in Note
  BY DEF IInv, TypeOK, Running
<1>1. ASSUME NEW r \in Request, Arrive(r) PROVE UNCHANGED Shelf!vars
  BY <1>1, ArriveShelf
<1>2. ASSUME NEW r \in Request,
             \/ MakeDir(r) \/ WriteFile(r) \/ FindFile(r) \/ RemoveDir(r) \/ DropRow(r)
             \/ ReplaceLinks(r) \/ Fail(r)
      PROVE  UNCHANGED Shelf!vars
  BY <1>2, HiddenStep
<1>3. ASSUME NEW r \in Request, SaveRow(r) PROVE Shelf!Next
  BY <1>0, <1>3, SaveRowAttaches DEF SaveRow, Running
<1>4. ASSUME NEW r \in Request, Unlink(r) PROVE [Shelf!Next]_(Shelf!vars)
  <2>1. ref[r] \in Request
    BY <1>4 DEF Unlink, IInv, TypeOK, DataOK
  <2> QED
    BY <1>4, <2>1, UnlinkDetaches
<1>5. ASSUME NEW r \in Request, InsertLink(r) PROVE Shelf!Next
  BY <1>0, <1>5, InsertShares DEF InsertLink, Running
<1>6. ASSUME NEW r \in Request, RevokeLink(r) PROVE Shelf!Next
  BY <1>0, <1>6, RevokeUnshares DEF RevokeLink, Running
<1>7. ASSUME NEW r \in Request, CommitDelete(r) \/ CommitRestore(r)
      PROVE  [Shelf!Next]_(Shelf!vars)
  BY <1>0, <1>7, MovesNote DEF CommitDelete, CommitRestore, Running
<1>8. ASSUME NEW a \in Request, ExpireLink(a) PROVE Shelf!Next
  BY <1>8, JobsOnShelf
<1>9. ASSUME NEW n \in Note, Age(n) PROVE Shelf!Next
  BY <1>9, JobsOnShelf
<1>10. ASSUME hard_delete_old_notes \/ revoke_expired_share_links PROVE Shelf!Next
  BY <1>10, JobsOnShelf
<1>11. ASSUME NEW r \in Request, CommitShare(r) PROVE [Shelf!Next]_(Shelf!vars)
  BY <1>0, <1>11, ShareGrants DEF CommitShare, Running
<1>12. ASSUME NEW r \in Request, CommitUnshare(r) PROVE [Shelf!Next]_(Shelf!vars)
  <2>1. ref[r] \in Request
    BY <1>12 DEF CommitUnshare, IInv, TypeOK, DataOK
  <2> QED
    BY <1>12, <2>1, UnshareWithdraws
<1>13. ASSUME UNCHANGED vars PROVE UNCHANGED Shelf!vars
  BY <1>13 DEF vars, tables, disk, request, Shelf!vars, Shelf!items, NoteOf, Uploaded,
     Granted, Available
<1> QED
  BY <1>1, <1>2, <1>3, <1>4, <1>5, <1>6, <1>7, <1>8, <1>9, <1>10, <1>11, <1>12, <1>13
     DEF Next, Step

(* Attachments, links and notes change as if every request took effect at  *)
(* one instant, however handlers overlap and wherever they die; served one *)
(* at a time, a request changes no note in the trash and a new link        *)
(* replaces all others (attachments.py, sharing.py, admin.py, storage.py,  *)
(* scheduler.py).                                                          *)
THEOREM Implementation == Spec => ImplementsShelf
<1>1. Init => Shelf!Init
  BY DEF Init, Shelf!Init, NoteOf, Uploaded, Granted, Available
<1>2. IInv /\ IInv' /\ ShelfInv /\ [Next]_vars => [Shelf!Next]_(Shelf!vars)
  BY StepRefinesShelf
<1> QED
  BY <1>1, <1>2, Inductive, ShelfAlways, PTL DEF Spec, ImplementsShelf, Shelf!Spec

(* Served one at a time, creations leave a note with one active link, even *)
(* if handlers die half way (sharing.py:136, 144-156).                     *)
THEOREM OneActiveLinkOneAtATime == ASSUME Workers = 1 PROVE Spec => []OneActiveLink
<1>1. ShelfInv => OneActiveLink
  BY DEF ShelfInv
<1> QED
  BY <1>1, ShelfAlways, PTL

(* If no handler dies, then whenever none is in flight every listed        *)
(* attachment has its file and every file its row, whatever the overlaps   *)
(* were (attachments.py:138-149, 185-187).                                 *)
THEOREM AttachmentsConsistentAtRest ==
    ASSUME ~Faults PROVE Spec => []AtRestConsistent
<1>1. Init => CleanFailures
  BY DEF Init, CleanFailures
<1>2. IInv /\ CleanFailures /\ [Next]_vars => CleanFailures'
  <2> SUFFICES ASSUME IInv, CleanFailures, [Next]_vars PROVE CleanFailures'
    OBVIOUS
  <2> USE RequestAssumption DEF IInv, TypeOK, DataOK, FilesInv, FileHasRow, CleanFailures,
          disk, request, Running
  <2>1. ASSUME NEW r \in Request, Arrive(r) PROVE CleanFailures'
    BY <2>1 DEF Arrive, UploadStart, LinkStart, RevokeLinkStart, DeleteStart, RestoreStart,
       DeleteAttachmentStart, ShareStart, UnshareStart, Begin, tables
  <2>2. ASSUME NEW r \in Request,
               \/ MakeDir(r) \/ WriteFile(r) \/ SaveRow(r) \/ FindFile(r) \/ Unlink(r)
               \/ RemoveDir(r) \/ DropRow(r)
        PROVE  CleanFailures'
    BY <2>2 DEF MakeDir, WriteFile, SaveRow, FindFile, Unlink, RemoveDir, DropRow, Goto, tables
  <2>3. ASSUME NEW r \in Request,
               \/ CommitShare(r) \/ CommitUnshare(r) \/ ReplaceLinks(r) \/ InsertLink(r)
               \/ RevokeLink(r) \/ CommitDelete(r) \/ CommitRestore(r)
        PROVE  CleanFailures'
    BY <2>3 DEF CommitShare, CommitUnshare, ReplaceLinks, InsertLink, RevokeLink,
       CommitDelete, CommitRestore, Goto, tables
  <2>4. CASE UNCHANGED <<op, ref, pc, att, file>>
    BY <2>4
  <2> QED
    BY <2>1, <2>2, <2>3, <2>4 DEF Next, Step, Fail, ExpireLink, Age, hard_delete_old_notes,
       revoke_expired_share_links, vars, tables, disk, request
<1>3. IInv /\ CleanFailures => AtRestConsistent
  <2> SUFFICES ASSUME IInv, CleanFailures, InFlight = {} PROVE att = file
    BY DEF AtRestConsistent
  <2> USE DEF IInv, TypeOK, FilesInv, CleanFailures, InFlight, Running
  <2>1. ASSUME NEW a \in att PROVE a \in file
    BY <2>1
  <2>2. ASSUME NEW a \in file PROVE a \in att
    BY <2>2 DEF FileHasRow
  <2> QED
    BY <2>1, <2>2
<1> QED
  BY <1>1, <1>2, <1>3, Inductive, PTL DEF Spec
=============================================================================
