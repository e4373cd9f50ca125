--------------------------- MODULE RetentionProofs ---------------------------
(***************************************************************************)
(* For any number of notes, requests and threads, with handlers failing at *)
(* any step: rows, files and directories agree up to what a handler in     *)
(* flight or a dead one accounts for, two links of a note are active only  *)
(* by a race of their creations, and the nightly job leaves no orphan.     *)
(***************************************************************************)
EXTENDS Retention, TLAPS

(* What a handler in flight may rely on: its own kind, a note that nothing *)
(* purges meanwhile, an attachment whose upload has ended.                 *)
DataOK ==
    \A r \in Request :
        /\ pc[r] = "idle" => op[r] = "none" /\ ref[r] = None
        /\ pc[r] \in {"mkdir", "write", "save_row"} => op[r] = "upload_attachment"
        /\ pc[r] \in {"exists", "unlink", "rmdir", "drop_row"} => op[r] = "delete_attachment"
        /\ pc[r] = "share" => op[r] = "share_note"
        /\ pc[r] = "unshare" => op[r] = "revoke_note_share"
        /\ pc[r] \in {"replace", "insert"} => op[r] = "create_share_link"
        /\ pc[r] = "revoke" => op[r] = "revoke_share_link"
        /\ pc[r] = "trash" => op[r] = "delete_note"
        /\ pc[r] = "restore" => op[r] = "restore_note"
        /\ pc[r] \in Running \ {"restore"} => note[on[r]] \in {"live", "trash"}
        /\ op[r] = "delete_attachment" =>
             op[ref[r]] = "upload_attachment" /\ pc[ref[r]] = "answered"

(* A file is written before its row, and removed before it.                *)
FilesInv ==
    /\ \A r \in Request :
        /\ pc[r] = "save_row" => r \in file
        /\ pc[r] \in {"rmdir", "drop_row"} => ref[r] \notin file
    /\ RowHasFile
    /\ FileHasRow
    /\ FilesReachable

(* A link that a creation in flight will not revoke raced with it.         *)
LinksInv ==
    /\ \A r, c \in Request :
        /\ pc[r] = "insert" /\ on[c] = on[r] /\ c # r /\ pc[c] = "insert" =>
             r \in blind[c] \/ c \in blind[r]
        /\ pc[r] = "insert" /\ on[c] = on[r] /\ link[c] = "active" =>
             c \in hits[r] \cup blind[r] \/ r \in blind[c]
    /\ ActiveLinksByRace

IInv == TypeOK /\ DataOK /\ FilesInv /\ LinksInv /\ ReferentialIntegrity

-----------------------------------------------------------------------------
(* Each step keeps the shape of the state.                                 *)
LEMMA TypeStep ==
    TypeOK /\ DataOK /\ [Next]_vars => TypeOK'
<1> SUFFICES ASSUME TypeOK, DataOK, [Next]_vars
             PROVE  TypeOK'
  OBVIOUS
<1> USE RequestAssumption, NoteAssumption DEF TypeOK, DataOK,
        tables, disk, request, local, Running, Ended
<1>1. ASSUME NEW r \in Request, NEW n \in Note, UploadStart(r, n)
      PROVE  TypeOK'
  BY <1>1 DEF UploadStart, Begin
<1>2. ASSUME NEW r \in Request, NEW n \in Note, LinkStart(r, n) PROVE TypeOK'
  BY <1>2 DEF LinkStart, Begin
<1>3. ASSUME NEW r \in Request, NEW n \in Note, RevokeLinkStart(r, n)
      PROVE  TypeOK'
  BY <1>3 DEF RevokeLinkStart, Begin
<1>4. ASSUME NEW r \in Request, NEW n \in Note, DeleteStart(r, n)
      PROVE  TypeOK'
  BY <1>4 DEF DeleteStart, Begin
<1>5. ASSUME NEW r \in Request, NEW n \in Note, RestoreStart(r, n)
      PROVE  TypeOK'
  BY <1>5 DEF RestoreStart, Begin
<1>6. ASSUME NEW r \in Request, NEW n \in Note, NEW a \in Request,
             DeleteAttachmentStart(r, n, a)
      PROVE  TypeOK'
  BY <1>6 DEF DeleteAttachmentStart, Begin
<1>7. ASSUME NEW r \in Request, NEW n \in Note, NEW a \in Request \cup {None},
             ShareStart(r, n, a)
      PROVE  TypeOK'
  BY <1>7 DEF ShareStart, Begin, SharesOf
<1>8. ASSUME NEW r \in Request, NEW n \in Note, NEW a \in Request,
             UnshareStart(r, n, a)
      PROVE  TypeOK'
  BY <1>8 DEF UnshareStart, Begin, SharesOf
<1>9. ASSUME NEW r \in Request, MakeDir(r) PROVE TypeOK'
  BY <1>9 DEF MakeDir, Goto
<1>10. ASSUME NEW r \in Request, WriteFile(r) PROVE TypeOK'
  BY <1>10 DEF WriteFile, Goto
<1>11. ASSUME NEW r \in Request, SaveRow(r) PROVE TypeOK'
  BY <1>11 DEF SaveRow, Goto
<1>12. ASSUME NEW r \in Request, FindFile(r) PROVE TypeOK'
  BY <1>12 DEF FindFile, Goto
<1>13. ASSUME NEW r \in Request, Unlink(r) PROVE TypeOK'
  BY <1>13 DEF Unlink, Goto
<1>14. ASSUME NEW r \in Request, RemoveDir(r) PROVE TypeOK'
  BY <1>14 DEF RemoveDir, Goto
<1>15. ASSUME NEW r \in Request, DropRow(r) PROVE TypeOK'
  BY <1>15 DEF DropRow, Goto
<1>16. ASSUME NEW r \in Request, CommitShare(r) PROVE TypeOK'
  BY <1>16 DEF CommitShare, Goto
<1>17. ASSUME NEW r \in Request, CommitUnshare(r) PROVE TypeOK'
  BY <1>17 DEF CommitUnshare, Goto
<1>18. ASSUME NEW r \in Request, ReplaceLinks(r) PROVE TypeOK'
  BY <1>18 DEF ReplaceLinks, Goto, Replaced, ActiveLinks
<1>19. ASSUME NEW r \in Request, InsertLink(r) PROVE TypeOK'
  BY <1>19 DEF InsertLink, Goto
<1>20. ASSUME NEW r \in Request, RevokeLink(r) PROVE TypeOK'
  BY <1>20 DEF RevokeLink, Goto, ActiveLinks
<1>21. ASSUME NEW r \in Request, CommitDelete(r) PROVE TypeOK'
  BY <1>21 DEF CommitDelete, Goto
<1>22. ASSUME NEW r \in Request, CommitRestore(r) PROVE TypeOK'
  BY <1>22 DEF CommitRestore, Goto
<1>23. ASSUME NEW r \in Request, Fail(r) PROVE TypeOK'
  BY <1>23 DEF Fail, Goto
<1>24. ASSUME NEW a \in Request, ExpireLink(a) PROVE TypeOK'
  BY <1>24 DEF ExpireLink
<1>25. ASSUME NEW n \in Note, Age(n) PROVE TypeOK'
  BY <1>25 DEF Age
<1>26. CASE hard_delete_old_notes
  BY <1>26 DEF hard_delete_old_notes, PurgedBy, Due
<1>27. CASE revoke_expired_share_links
  BY <1>27 DEF revoke_expired_share_links, Overdue
<1>28. CASE UNCHANGED vars
  BY <1>28 DEF vars
<1> QED
  BY <1>1, <1>2, <1>3, <1>4, <1>5, <1>6, <1>7, <1>8, <1>9, <1>10, <1>11,
     <1>12, <1>13, <1>14, <1>15, <1>16, <1>17, <1>18, <1>19, <1>20, <1>21,
     <1>22, <1>23, <1>24, <1>25, <1>26, <1>27, <1>28 DEF Next, Arrive, Step

(* ... and what handlers in flight rely on.                                *)
LEMMA DataStep ==
    TypeOK /\ DataOK /\ [Next]_vars => DataOK'
<1> SUFFICES ASSUME TypeOK, DataOK, [Next]_vars
             PROVE  DataOK'
  OBVIOUS
<1> USE RequestAssumption, NoteAssumption DEF TypeOK, DataOK,
        tables, disk, request, local, Running, Ended
<1>1. ASSUME NEW r \in Request, NEW n \in Note, UploadStart(r, n)
      PROVE  DataOK'
  BY <1>1 DEF UploadStart, Begin
<1>2. ASSUME NEW r \in Request, NEW n \in Note, LinkStart(r, n) PROVE DataOK'
  BY <1>2 DEF LinkStart, Begin
<1>3. ASSUME NEW r \in Request, NEW n \in Note, RevokeLinkStart(r, n)
      PROVE  DataOK'
  BY <1>3 DEF RevokeLinkStart, Begin
<1>4. ASSUME NEW r \in Request, NEW n \in Note, DeleteStart(r, n)
      PROVE  DataOK'
  BY <1>4 DEF DeleteStart, Begin
<1>5. ASSUME NEW r \in Request, NEW n \in Note, RestoreStart(r, n)
      PROVE  DataOK'
  BY <1>5 DEF RestoreStart, Begin
<1>6. ASSUME NEW r \in Request, NEW n \in Note, NEW a \in Request,
             DeleteAttachmentStart(r, n, a)
      PROVE  DataOK'
  BY <1>6 DEF DeleteAttachmentStart, Begin
<1>7. ASSUME NEW r \in Request, NEW n \in Note, NEW a \in Request \cup {None},
             ShareStart(r, n, a)
      PROVE  DataOK'
  BY <1>7 DEF ShareStart, Begin, SharesOf
<1>8. ASSUME NEW r \in Request, NEW n \in Note, NEW a \in Request,
             UnshareStart(r, n, a)
      PROVE  DataOK'
  BY <1>8 DEF UnshareStart, Begin, SharesOf
<1>9. ASSUME NEW r \in Request, MakeDir(r) PROVE DataOK'
  BY <1>9 DEF MakeDir, Goto
<1>10. ASSUME NEW r \in Request, WriteFile(r) PROVE DataOK'
  BY <1>10 DEF WriteFile, Goto
<1>11. ASSUME NEW r \in Request, SaveRow(r) PROVE DataOK'
  BY <1>11 DEF SaveRow, Goto
<1>12. ASSUME NEW r \in Request, FindFile(r) PROVE DataOK'
  BY <1>12 DEF FindFile, Goto
<1>13. ASSUME NEW r \in Request, Unlink(r) PROVE DataOK'
  BY <1>13 DEF Unlink, Goto
<1>14. ASSUME NEW r \in Request, RemoveDir(r) PROVE DataOK'
  BY <1>14 DEF RemoveDir, Goto
<1>15. ASSUME NEW r \in Request, DropRow(r) PROVE DataOK'
  BY <1>15 DEF DropRow, Goto
<1>16. ASSUME NEW r \in Request, CommitShare(r) PROVE DataOK'
  BY <1>16 DEF CommitShare, Goto
<1>17. ASSUME NEW r \in Request, CommitUnshare(r) PROVE DataOK'
  BY <1>17 DEF CommitUnshare, Goto
<1>18. ASSUME NEW r \in Request, ReplaceLinks(r) PROVE DataOK'
  BY <1>18 DEF ReplaceLinks, Goto
<1>19. ASSUME NEW r \in Request, InsertLink(r) PROVE DataOK'
  BY <1>19 DEF InsertLink, Goto
<1>20. ASSUME NEW r \in Request, RevokeLink(r) PROVE DataOK'
  BY <1>20 DEF RevokeLink, Goto
<1>21. ASSUME NEW r \in Request, CommitDelete(r) PROVE DataOK'
  BY <1>21 DEF CommitDelete, Goto
<1>22. ASSUME NEW r \in Request, CommitRestore(r) PROVE DataOK'
  BY <1>22 DEF CommitRestore, Goto
<1>23. ASSUME NEW r \in Request, Fail(r) PROVE DataOK'
  BY <1>23 DEF Fail, Goto
<1>24. ASSUME NEW a \in Request, ExpireLink(a) PROVE DataOK'
  BY <1>24 DEF ExpireLink
<1>25. ASSUME NEW n \in Note, Age(n) PROVE DataOK'
  BY <1>25 DEF Age, InFlight
<1>26. CASE hard_delete_old_notes
  BY <1>26 DEF hard_delete_old_notes, PurgedBy, Due
<1>27. CASE revoke_expired_share_links
  BY <1>27 DEF revoke_expired_share_links, Overdue
<1>28. CASE UNCHANGED vars
  BY <1>28 DEF vars
<1> QED
  BY <1>1, <1>2, <1>3, <1>4, <1>5, <1>6, <1>7, <1>8, <1>9, <1>10, <1>11,
     <1>12, <1>13, <1>14, <1>15, <1>16, <1>17, <1>18, <1>19, <1>20, <1>21,
     <1>22, <1>23, <1>24, <1>25, <1>26, <1>27, <1>28 DEF Next, Arrive, Step

(* Rows, files and directories.                                            *)
LEMMA FilesStep ==
    TypeOK /\ DataOK /\ FilesInv /\ [Next]_vars => FilesInv'
<1> SUFFICES ASSUME TypeOK, DataOK, FilesInv, [Next]_vars
             PROVE  FilesInv'
  OBVIOUS
<1> USE RequestAssumption, NoteAssumption DEF TypeOK, DataOK, FilesInv,
        RowHasFile, FileHasRow, FilesReachable,
        tables, disk, request, local, Running, Ended
<1>1. ASSUME NEW r \in Request, NEW n \in Note, UploadStart(r, n)
      PROVE  FilesInv'
  BY <1>1 DEF UploadStart, Begin
<1>2. ASSUME NEW r \in Request, NEW n \in Note, LinkStart(r, n)
      PROVE  FilesInv'
  BY <1>2 DEF LinkStart, Begin
<1>3. ASSUME NEW r \in Request, NEW n \in Note, RevokeLinkStart(r, n)
      PROVE  FilesInv'
  BY <1>3 DEF RevokeLinkStart, Begin
<1>4. ASSUME NEW r \in Request, NEW n \in Note, DeleteStart(r, n)
      PROVE  FilesInv'
  BY <1>4 DEF DeleteStart, Begin
<1>5. ASSUME NEW r \in Request, NEW n \in Note, RestoreStart(r, n)
      PROVE  FilesInv'
  BY <1>5 DEF RestoreStart, Begin
<1>6. ASSUME NEW r \in Request, NEW n \in Note, NEW a \in Request,
             DeleteAttachmentStart(r, n, a)
      PROVE  FilesInv'
  BY <1>6 DEF DeleteAttachmentStart, Begin
<1>7. ASSUME NEW r \in Request, NEW n \in Note, NEW a \in Request \cup {None},
             ShareStart(r, n, a)
      PROVE  FilesInv'
  BY <1>7 DEF ShareStart, Begin
<1>8. ASSUME NEW r \in Request, NEW n \in Note, NEW a \in Request,
             UnshareStart(r, n, a)
      PROVE  FilesInv'
  BY <1>8 DEF UnshareStart, Begin
<1>9. ASSUME NEW r \in Request, MakeDir(r) PROVE FilesInv'
  BY <1>9 DEF MakeDir, Goto
<1>10. ASSUME NEW r \in Request, WriteFile(r) PROVE FilesInv'
  BY <1>10 DEF WriteFile, Goto
<1>11. ASSUME NEW r \in Request, SaveRow(r) PROVE FilesInv'
  BY <1>11 DEF SaveRow, Goto
<1>12. ASSUME NEW r \in Request, FindFile(r) PROVE FilesInv'
  BY <1>12 DEF FindFile, Goto
<1>13. ASSUME NEW r \in Request, Unlink(r) PROVE FilesInv'
  BY <1>13 DEF Unlink, Goto
<1>14. ASSUME NEW r \in Request, RemoveDir(r) PROVE FilesInv'
  BY <1>14 DEF RemoveDir, Goto, FilesOf
<1>15. ASSUME NEW r \in Request, DropRow(r) PROVE FilesInv'
  BY <1>15 DEF DropRow, Goto
<1>16. ASSUME NEW r \in Request, CommitShare(r) PROVE FilesInv'
  BY <1>16 DEF CommitShare, Goto
<1>17. ASSUME NEW r \in Request, CommitUnshare(r) PROVE FilesInv'
  BY <1>17 DEF CommitUnshare, Goto
<1>18. ASSUME NEW r \in Request, ReplaceLinks(r) PROVE FilesInv'
  BY <1>18 DEF ReplaceLinks, Goto
<1>19. ASSUME NEW r \in Request, InsertLink(r) PROVE FilesInv'
  BY <1>19 DEF InsertLink, Goto
<1>20. ASSUME NEW r \in Request, RevokeLink(r) PROVE FilesInv'
  BY <1>20 DEF RevokeLink, Goto
<1>21. ASSUME NEW r \in Request, CommitDelete(r) PROVE FilesInv'
  BY <1>21 DEF CommitDelete, Goto
<1>22. ASSUME NEW r \in Request, CommitRestore(r) PROVE FilesInv'
  BY <1>22 DEF CommitRestore, Goto
<1>23. ASSUME NEW r \in Request, Fail(r) PROVE FilesInv'
  BY <1>23 DEF Fail, Goto
<1>24. ASSUME NEW a \in Request, ExpireLink(a) PROVE FilesInv'
  BY <1>24 DEF ExpireLink
<1>25. ASSUME NEW n \in Note, Age(n) PROVE FilesInv'
  BY <1>25 DEF Age
<1>26. CASE hard_delete_old_notes
  BY <1>26 DEF hard_delete_old_notes, PurgedBy, Due
<1>27. CASE revoke_expired_share_links
  BY <1>27 DEF revoke_expired_share_links, Overdue
<1>28. CASE UNCHANGED vars
  BY <1>28 DEF vars
<1> QED
  BY <1>1, <1>2, <1>3, <1>4, <1>5, <1>6, <1>7, <1>8, <1>9, <1>10, <1>11,
     <1>12, <1>13, <1>14, <1>15, <1>16, <1>17, <1>18, <1>19, <1>20, <1>21,
     <1>22, <1>23, <1>24, <1>25, <1>26, <1>27, <1>28 DEF Next, Arrive, Step

(* Links and their creations.                                              *)
LEMMA LinksStep ==
    TypeOK /\ DataOK /\ LinksInv /\ [Next]_vars => LinksInv'
<1> SUFFICES ASSUME TypeOK, DataOK, LinksInv, [Next]_vars
             PROVE  LinksInv'
  OBVIOUS
<1> USE RequestAssumption, NoteAssumption DEF TypeOK, DataOK, LinksInv,
        ActiveLinksByRace, ActiveLinks,
        tables, disk, request, local, Running, Ended
<1>1. ASSUME NEW r \in Request, NEW n \in Note, UploadStart(r, n)
      PROVE  LinksInv'
  BY <1>1 DEF UploadStart, Begin
<1>2. ASSUME NEW r \in Request, NEW n \in Note, LinkStart(r, n)
      PROVE  LinksInv'
  BY <1>2 DEF LinkStart, Begin
<1>3. ASSUME NEW r \in Request, NEW n \in Note, RevokeLinkStart(r, n)
      PROVE  LinksInv'
  BY <1>3 DEF RevokeLinkStart, Begin
<1>4. ASSUME NEW r \in Request, NEW n \in Note, DeleteStart(r, n)
      PROVE  LinksInv'
  BY <1>4 DEF DeleteStart, Begin
<1>5. ASSUME NEW r \in Request, NEW n \in Note, RestoreStart(r, n)
      PROVE  LinksInv'
  BY <1>5 DEF RestoreStart, Begin
<1>6. ASSUME NEW r \in Request, NEW n \in Note, NEW a \in Request,
             DeleteAttachmentStart(r, n, a)
      PROVE  LinksInv'
  BY <1>6 DEF DeleteAttachmentStart, Begin
<1>7. ASSUME NEW r \in Request, NEW n \in Note, NEW a \in Request \cup {None},
             ShareStart(r, n, a)
      PROVE  LinksInv'
  BY <1>7 DEF ShareStart, Begin
<1>8. ASSUME NEW r \in Request, NEW n \in Note, NEW a \in Request,
             UnshareStart(r, n, a)
      PROVE  LinksInv'
  BY <1>8 DEF UnshareStart, Begin
<1>9. ASSUME NEW r \in Request, MakeDir(r) PROVE LinksInv'
  BY <1>9 DEF MakeDir, Goto
<1>10. ASSUME NEW r \in Request, WriteFile(r) PROVE LinksInv'
  BY <1>10 DEF WriteFile, Goto
<1>11. ASSUME NEW r \in Request, SaveRow(r) PROVE LinksInv'
  BY <1>11 DEF SaveRow, Goto
<1>12. ASSUME NEW r \in Request, FindFile(r) PROVE LinksInv'
  BY <1>12 DEF FindFile, Goto
<1>13. ASSUME NEW r \in Request, Unlink(r) PROVE LinksInv'
  BY <1>13 DEF Unlink, Goto
<1>14. ASSUME NEW r \in Request, RemoveDir(r) PROVE LinksInv'
  BY <1>14 DEF RemoveDir, Goto
<1>15. ASSUME NEW r \in Request, DropRow(r) PROVE LinksInv'
  BY <1>15 DEF DropRow, Goto
<1>16. ASSUME NEW r \in Request, CommitShare(r) PROVE LinksInv'
  BY <1>16 DEF CommitShare, Goto
<1>17. ASSUME NEW r \in Request, CommitUnshare(r) PROVE LinksInv'
  BY <1>17 DEF CommitUnshare, Goto
<1>18. ASSUME NEW r \in Request, ReplaceLinks(r) PROVE LinksInv'
  BY <1>18 DEF ReplaceLinks, Goto, Replaced
<1>19. ASSUME NEW r \in Request, InsertLink(r) PROVE LinksInv'
  BY <1>19 DEF InsertLink, Goto
<1>20. ASSUME NEW r \in Request, RevokeLink(r) PROVE LinksInv'
  BY <1>20 DEF RevokeLink, Goto
<1>21. ASSUME NEW r \in Request, CommitDelete(r) PROVE LinksInv'
  BY <1>21 DEF CommitDelete, Goto
<1>22. ASSUME NEW r \in Request, CommitRestore(r) PROVE LinksInv'
  BY <1>22 DEF CommitRestore, Goto
<1>23. ASSUME NEW r \in Request, Fail(r) PROVE LinksInv'
  BY <1>23 DEF Fail, Goto
<1>24. ASSUME NEW a \in Request, ExpireLink(a) PROVE LinksInv'
  BY <1>24 DEF ExpireLink
<1>25. ASSUME NEW n \in Note, Age(n) PROVE LinksInv'
  BY <1>25 DEF Age
<1>26. CASE hard_delete_old_notes
  BY <1>26 DEF hard_delete_old_notes, PurgedBy, Due
<1>27. CASE revoke_expired_share_links
  BY <1>27 DEF revoke_expired_share_links, Overdue
<1>28. CASE UNCHANGED vars
  BY <1>28 DEF vars
<1> QED
  BY <1>1, <1>2, <1>3, <1>4, <1>5, <1>6, <1>7, <1>8, <1>9, <1>10, <1>11,
     <1>12, <1>13, <1>14, <1>15, <1>16, <1>17, <1>18, <1>19, <1>20, <1>21,
     <1>22, <1>23, <1>24, <1>25, <1>26, <1>27, <1>28 DEF Next, Arrive, Step

(* Foreign keys.                                                           *)
LEMMA ReferenceStep ==
    TypeOK /\ DataOK /\ ReferentialIntegrity /\ [Next]_vars => ReferentialIntegrity'
<1> SUFFICES ASSUME TypeOK, DataOK, ReferentialIntegrity, [Next]_vars
             PROVE  ReferentialIntegrity'
  OBVIOUS
<1> USE RequestAssumption, NoteAssumption DEF TypeOK, DataOK,
        ReferentialIntegrity, Referenced,
        tables, disk, request, local, Running, Ended
<1>1. ASSUME NEW r \in Request, NEW n \in Note, UploadStart(r, n)
      PROVE  ReferentialIntegrity'
  BY <1>1 DEF UploadStart, Begin
<1>2. ASSUME NEW r \in Request, NEW n \in Note, LinkStart(r, n)
      PROVE  ReferentialIntegrity'
  BY <1>2 DEF LinkStart, Begin
<1>3. ASSUME NEW r \in Request, NEW n \in Note, RevokeLinkStart(r, n)
      PROVE  ReferentialIntegrity'
  BY <1>3 DEF RevokeLinkStart, Begin
<1>4. ASSUME NEW r \in Request, NEW n \in Note, DeleteStart(r, n)
      PROVE  ReferentialIntegrity'
  BY <1>4 DEF DeleteStart, Begin
<1>5. ASSUME NEW r \in Request, NEW n \in Note, RestoreStart(r, n)
      PROVE  ReferentialIntegrity'
  BY <1>5 DEF RestoreStart, Begin
<1>6. ASSUME NEW r \in Request, NEW n \in Note, NEW a \in Request,
             DeleteAttachmentStart(r, n, a)
      PROVE  ReferentialIntegrity'
  BY <1>6 DEF DeleteAttachmentStart, Begin
<1>7. ASSUME NEW r \in Request, NEW n \in Note, NEW a \in Request \cup {None},
             ShareStart(r, n, a)
      PROVE  ReferentialIntegrity'
  BY <1>7 DEF ShareStart, Begin
<1>8. ASSUME NEW r \in Request, NEW n \in Note, NEW a \in Request,
             UnshareStart(r, n, a)
      PROVE  ReferentialIntegrity'
  BY <1>8 DEF UnshareStart, Begin
<1>9. ASSUME NEW r \in Request, MakeDir(r) PROVE ReferentialIntegrity'
  BY <1>9 DEF MakeDir, Goto
<1>10. ASSUME NEW r \in Request, WriteFile(r) PROVE ReferentialIntegrity'
  BY <1>10 DEF WriteFile, Goto
<1>11. ASSUME NEW r \in Request, SaveRow(r) PROVE ReferentialIntegrity'
  BY <1>11 DEF SaveRow, Goto
<1>12. ASSUME NEW r \in Request, FindFile(r) PROVE ReferentialIntegrity'
  BY <1>12 DEF FindFile, Goto
<1>13. ASSUME NEW r \in Request, Unlink(r) PROVE ReferentialIntegrity'
  BY <1>13 DEF Unlink, Goto
<1>14. ASSUME NEW r \in Request, RemoveDir(r) PROVE ReferentialIntegrity'
  BY <1>14 DEF RemoveDir, Goto
<1>15. ASSUME NEW r \in Request, DropRow(r) PROVE ReferentialIntegrity'
  BY <1>15 DEF DropRow, Goto
<1>16. ASSUME NEW r \in Request, CommitShare(r) PROVE ReferentialIntegrity'
  BY <1>16 DEF CommitShare, Goto
<1>17. ASSUME NEW r \in Request, CommitUnshare(r) PROVE ReferentialIntegrity'
  BY <1>17 DEF CommitUnshare, Goto
<1>18. ASSUME NEW r \in Request, ReplaceLinks(r) PROVE ReferentialIntegrity'
  BY <1>18 DEF ReplaceLinks, Goto
<1>19. ASSUME NEW r \in Request, InsertLink(r) PROVE ReferentialIntegrity'
  BY <1>19 DEF InsertLink, Goto
<1>20. ASSUME NEW r \in Request, RevokeLink(r) PROVE ReferentialIntegrity'
  BY <1>20 DEF RevokeLink, Goto, ActiveLinks
<1>21. ASSUME NEW r \in Request, CommitDelete(r) PROVE ReferentialIntegrity'
  BY <1>21 DEF CommitDelete, Goto
<1>22. ASSUME NEW r \in Request, CommitRestore(r) PROVE ReferentialIntegrity'
  BY <1>22 DEF CommitRestore, Goto
<1>23. ASSUME NEW r \in Request, Fail(r) PROVE ReferentialIntegrity'
  BY <1>23 DEF Fail, Goto
<1>24. ASSUME NEW a \in Request, ExpireLink(a) PROVE ReferentialIntegrity'
  BY <1>24 DEF ExpireLink
<1>25. ASSUME NEW n \in Note, Age(n) PROVE ReferentialIntegrity'
  BY <1>25 DEF Age
<1>26. CASE hard_delete_old_notes
  BY <1>26 DEF hard_delete_old_notes, PurgedBy, Due, Deletable
<1>27. CASE revoke_expired_share_links
  BY <1>27 DEF revoke_expired_share_links, Overdue
<1>28. CASE UNCHANGED vars
  BY <1>28 DEF vars
<1> QED
  BY <1>1, <1>2, <1>3, <1>4, <1>5, <1>6, <1>7, <1>8, <1>9, <1>10, <1>11,
     <1>12, <1>13, <1>14, <1>15, <1>16, <1>17, <1>18, <1>19, <1>20, <1>21,
     <1>22, <1>23, <1>24, <1>25, <1>26, <1>27, <1>28 DEF Next, Arrive, Step

-----------------------------------------------------------------------------
(* The invariant the other theorems rest on.                               *)
THEOREM Inductive == Spec => []IInv
<1>1. Init => IInv
  BY RequestAssumption, NoteAssumption DEF Init, IInv, TypeOK, DataOK, FilesInv,
     LinksInv, ReferentialIntegrity, Referenced, RowHasFile, FileHasRow,
     FilesReachable, ActiveLinksByRace, ActiveLinks, Running
<1>2. IInv /\ [Next]_vars => IInv'
  BY TypeStep, DataStep, FilesStep, LinksStep, ReferenceStep DEF IInv
<1> QED
  BY <1>1, <1>2, PTL DEF Spec

(* The state keeps its shape: deletions stay within their note             *)
(* (attachments.py:178-181).                                               *)
THEOREM TypeCorrect == Spec => []TypeOK
<1>1. IInv => TypeOK
  BY DEF IInv
<1> QED
  BY Inductive, <1>1, PTL

(* No share, link or attachment row belongs to a purged note               *)
(* (scheduler.py:49-53 and the foreign keys of the migrations).            *)
THEOREM NoOrphanRows == Spec => []ReferentialIntegrity
<1>1. IInv => ReferentialIntegrity
  BY DEF IInv
<1> QED
  BY Inductive, <1>1, PTL

(* A row whose file is missing is being deleted, or its deletion died      *)
(* between the file and the commit (attachments.py:185-187).               *)
THEOREM RowsHaveFiles == Spec => []RowHasFile
<1>1. IInv => RowHasFile
  BY DEF IInv, FilesInv
<1> QED
  BY Inductive, <1>1, PTL

(* A file without a row is being uploaded or deleted, or the handler died  *)
(* in between (attachments.py:138-149, 185-187).                           *)
THEOREM FilesHaveRows == Spec => []FileHasRow
<1>1. IInv => FileHasRow
  BY DEF IInv, FilesInv
<1> QED
  BY Inductive, <1>1, PTL

(* The directory of a stored file is there, although deletions remove      *)
(* directories that uploads have made; an upload lacks its own only if a   *)
(* deletion on its note removed it (storage.py:28-31, 40-43).              *)
THEOREM FilesAlwaysReachable == Spec => []FilesReachable
<1>1. IInv => FilesReachable
  BY DEF IInv, FilesInv
<1> QED
  BY Inductive, <1>1, PTL

(* Two links of one note are both active only by a race of their creations *)
(* (sharing.py:144-156).                                                   *)
THEOREM OneLinkButForRaces == Spec => []ActiveLinksByRace
<1>1. IInv => ActiveLinksByRace
  BY DEF IInv, LinksInv
<1> QED
  BY Inductive, <1>1, PTL

(* A purged note does not come back (admin.py:89-94, scheduler.py:49-54).  *)
THEOREM PurgeIsFinal == Spec => GoneForGood
<1>1. TypeOK /\ DataOK /\ [Next]_vars =>
        [\A n \in Note : note[n] = "gone" => note'[n] = "gone"]_vars
  <2> SUFFICES ASSUME TypeOK, DataOK, [Next]_vars, NEW m \in Note, note[m] = "gone"
               PROVE  note'[m] = "gone"
    OBVIOUS
  <2> USE DEF TypeOK, DataOK, tables, Running
  <2>1. ASSUME NEW r \in Request, CommitDelete(r) PROVE note'[m] = "gone"
    BY <2>1 DEF CommitDelete
  <2>2. ASSUME NEW r \in Request, CommitRestore(r) PROVE note'[m] = "gone"
    BY <2>2 DEF CommitRestore
  <2>3. ASSUME NEW n \in Note, Age(n) PROVE note'[m] = "gone"
    BY <2>3 DEF Age
  <2>4. CASE hard_delete_old_notes
    BY <2>4 DEF hard_delete_old_notes, PurgedBy
  <2>5. CASE UNCHANGED note
    BY <2>5
  <2> QED
    BY <2>1, <2>2, <2>3, <2>4, <2>5 DEF Next, Arrive, Step, Fail, UploadStart,
       LinkStart, RevokeLinkStart, DeleteStart, RestoreStart, Begin,
       DeleteAttachmentStart, ShareStart, UnshareStart, MakeDir, WriteFile, SaveRow,
       FindFile, Unlink, RemoveDir, DropRow, CommitShare, CommitUnshare,
       ReplaceLinks, InsertLink, RevokeLink, ExpireLink, revoke_expired_share_links, vars
<1>2. IInv => TypeOK /\ DataOK
  BY DEF IInv
<1> QED
  BY Inductive, <1>1, <1>2, PTL DEF Spec, GoneForGood
=============================================================================
