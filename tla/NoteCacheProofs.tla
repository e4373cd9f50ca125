--------------------------- MODULE NoteCacheProofs ---------------------------
(***************************************************************************)
(* For any number of users, requests and threads, with Redis and handlers  *)
(* failing at will: every stale cache entry is accounted for.  For one     *)
(* thread and no failure: the detail key is never stale between requests,  *)
(* a cached listing shows what its user may read, a hit is let through to  *)
(* readers only.                                                           *)
(***************************************************************************)
EXTENDS NoteCache, FiniteSetTheorems, TLAPS

-----------------------------------------------------------------------------
(* Each handler step keeps the shape of the state.                         *)
LEMMA TypeStep == TypeOK /\ DataOK /\ [Next]_vars => TypeOK'
<1> SUFFICES ASSUME TypeOK, DataOK, [Next]_vars PROVE TypeOK'
  OBVIOUS
<1> USE RequestAssumption, UserAssumption DEF TypeOK, DataOK, Notes,
        Permission, Visibility, Key, Running, Ended, InFlight, database, cache,
        request, local
<1>1. ASSUME NEW r \in Request, CreateStart(r) PROVE TypeOK'
  BY <1>1 DEF CreateStart, Begin
<1>2. ASSUME NEW r \in Request, NEW u \in User, GetHit(r, u) PROVE TypeOK'
  BY <1>2 DEF GetHit, Begin
<1>3. ASSUME NEW r \in Request, NEW u \in User, GetMiss(r, u) PROVE TypeOK'
  BY <1>3 DEF GetMiss, Begin
<1>4. ASSUME NEW r \in Request, NEW u \in User, ListHit(r, u) PROVE TypeOK'
  BY <1>4 DEF ListHit
<1>5. ASSUME NEW r \in Request, NEW u \in User, ListMiss(r, u) PROVE TypeOK'
  BY <1>5 DEF ListMiss, Begin
<1>6. ASSUME NEW r \in Request, NEW u \in User, UpdateStart(r, u) PROVE TypeOK'
  BY <1>6 DEF UpdateStart, Begin
<1>7. ASSUME NEW r \in Request, NEW u \in User, DeleteStart(r, u) PROVE TypeOK'
  BY <1>7 DEF DeleteStart, Begin
<1>8. ASSUME NEW r \in Request, NEW u \in User, RestoreStart(r, u) PROVE TypeOK'
  BY <1>8 DEF RestoreStart, Begin
<1>9. ASSUME NEW r \in Request, NEW u \in User, NEW t \in User, ShareStart(r, u, t)
      PROVE  TypeOK'
  BY <1>9 DEF ShareStart, Begin
<1>10. ASSUME NEW r \in Request, NEW u \in User, NEW t \in User, UnshareStart(r, u, t)
       PROVE  TypeOK'
  BY <1>10 DEF UnshareStart, Begin
<1>11. ASSUME NEW r \in Request, CheckHit(r) PROVE TypeOK'
  BY <1>11 DEF CheckHit, End
<1>12. ASSUME NEW r \in Request, ReadNote(r) PROVE TypeOK'
  <2>1. CASE Found
    BY <1>12, <2>1 DEF ReadNote, Found, Goto
  <2>2. CASE ~Found
    <3>1. End(r, "denied") /\ UNCHANGED <<database, cache>> /\ pc[r] = "read"
      BY <1>12, <2>2 DEF ReadNote
    <3> QED
      BY <3>1 DEF End
  <2> QED
    BY <2>1, <2>2
<1>13. ASSUME NEW r \in Request, CheckMiss(r) PROVE TypeOK'
  <2>1. CASE check_read_access(data[r], who[r], seen[r])
    BY <1>13, <2>1 DEF CheckMiss, Goto
  <2>2. CASE ~check_read_access(data[r], who[r], seen[r])
    <3>1. End(r, "denied") /\ UNCHANGED <<database, cache>> /\ pc[r] = "check_miss"
      BY <1>13, <2>2 DEF CheckMiss
    <3> QED
      BY <3>1 DEF End
  <2> QED
    BY <2>1, <2>2
<1>14. ASSUME NEW r \in Request, FillDetail(r) PROVE TypeOK'
  BY <1>14 DEF FillDetail, cache_set_detail, Swallowed, End
<1>15. ASSUME NEW r \in Request, SharedIds(r) PROVE TypeOK'
  BY <1>15 DEF SharedIds, Goto
<1>16. ASSUME NEW r \in Request, Query(r) PROVE TypeOK'
  BY <1>16 DEF Query, Goto
<1>17. ASSUME NEW r \in Request, FillList(r) PROVE TypeOK'
  BY <1>17 DEF FillList, cache_set_list, Swallowed, End
<1>18. ASSUME NEW r \in Request, CommitUpdate(r) PROVE TypeOK'
  BY <1>18 DEF CommitUpdate, Goto
<1>19. ASSUME NEW r \in Request, CommitDelete(r) PROVE TypeOK'
  BY <1>19 DEF CommitDelete, Bumped, AfterDelete, Goto
<1>20. ASSUME NEW r \in Request, CommitCreate(r) PROVE TypeOK'
  BY <1>20 DEF CommitCreate, Goto
<1>21. ASSUME NEW r \in Request, CommitShare(r) PROVE TypeOK'
  <2>1. target[r] \in User /\ pc[r] = "share" /\ UNCHANGED <<note, role, cache>>
    BY <1>21 DEF CommitShare
  <2>2. CASE grant[target[r]] = data[r]
    BY <1>21, <2>1, <2>2 DEF CommitShare, Goto
  <2>3. CASE grant[target[r]] # data[r]
    <3>1. End(r, "failed") /\ UNCHANGED <<share, grant>>
      BY <1>21, <2>3 DEF CommitShare
    <3> QED
      BY <2>1, <3>1 DEF End
  <2> QED
    BY <2>2, <2>3
<1>22. ASSUME NEW r \in Request, CommitUnshare(r) PROVE TypeOK'
  BY <1>22 DEF CommitUnshare, AfterUnshare, Goto
<1>23. ASSUME NEW r \in Request, CommitRestore(r) PROVE TypeOK'
  BY <1>23 DEF CommitRestore, Bumped, Cached, CachedLists, End
<1>24. ASSUME NEW r \in Request, DelDetail(r) PROVE TypeOK'
  BY <1>24 DEF DelDetail, cache_delete_detail, Forget, Swallowed, Cached, Goto
<1>25. ASSUME NEW r \in Request, ScanStart(r) PROVE TypeOK'
  <2>1. CASE /\ Goto(r, "scanning") /\ todo' = [todo EXCEPT ![r] = CachedLists]
             /\ UNCHANGED <<skipped, data, ids>>
    <3>1. pc[r] = "scan" /\ UNCHANGED <<database, detail, list, late>>
      BY <1>25 DEF ScanStart
    <3> QED
      BY <2>1, <3>1 DEF CachedLists, Goto
  <2>2. CASE Swallowed /\ skipped' = skipped \cup CachedLists /\ End(r, "answered")
    BY <1>25, <2>2 DEF ScanStart, CachedLists, Swallowed, End
  <2> QED
    BY <1>25, <2>1, <2>2 DEF ScanStart
<1>26. ASSUME NEW r \in Request, ScanDelete(r) PROVE TypeOK'
  BY <1>26 DEF ScanDelete, DeleteLists, Forget
<1>27. ASSUME NEW r \in Request, ScanEnd(r) PROVE TypeOK'
  BY <1>27 DEF ScanEnd, ScanEnds, Swallowed, Cached, CachedLists, End
<1>28. ASSUME NEW r \in Request, Fail(r) PROVE TypeOK'
  BY <1>28 DEF Fail, Cached, CachedLists, End
<1>29. ASSUME NEW u \in User, change_user_role(u) PROVE TypeOK'
  BY <1>29 DEF change_user_role, CachedLists
<1>30. ASSUME NEW u \in User, ExpireList(u) PROVE TypeOK'
  BY <1>30 DEF ExpireList, DeleteLists, Forget
<1>31. CASE ExpireDetail
  BY <1>31 DEF ExpireDetail, cache_delete_detail, Forget
<1>32. CASE UNCHANGED vars
  BY <1>32 DEF vars
<1> QED
  BY <1>1, <1>2, <1>3, <1>4, <1>5, <1>6, <1>7, <1>8, <1>9, <1>10, <1>11,
     <1>12, <1>13, <1>14, <1>15, <1>16, <1>17, <1>18, <1>19, <1>20, <1>21, <1>22,
     <1>23, <1>24, <1>25, <1>26, <1>27, <1>28, <1>29, <1>30, <1>31, <1>32 DEF
     Next, Arrive, Step

(* ... and what handlers hold.                                              *)
LEMMA DataStep == TypeOK /\ DataOK /\ [Next]_vars => DataOK'
<1> SUFFICES ASSUME TypeOK, DataOK, [Next]_vars PROVE DataOK'
  OBVIOUS
<1> USE RequestAssumption, UserAssumption DEF TypeOK, DataOK, Running,
        database, cache, request, local
<1>1. ASSUME NEW r \in Request, CreateStart(r) PROVE DataOK'
  BY <1>1 DEF CreateStart, Begin
<1>2. ASSUME NEW r \in Request, NEW u \in User, GetHit(r, u) PROVE DataOK'
  BY <1>2 DEF GetHit, Begin
<1>3. ASSUME NEW r \in Request, NEW u \in User, GetMiss(r, u) PROVE DataOK'
  BY <1>3 DEF GetMiss, Begin
<1>4. ASSUME NEW r \in Request, NEW u \in User, ListHit(r, u) PROVE DataOK'
  BY <1>4 DEF ListHit
<1>5. ASSUME NEW r \in Request, NEW u \in User, ListMiss(r, u) PROVE DataOK'
  BY <1>5 DEF ListMiss, Begin
<1>6. ASSUME NEW r \in Request, NEW u \in User, UpdateStart(r, u) PROVE DataOK'
  BY <1>6 DEF UpdateStart, Begin
<1>7. ASSUME NEW r \in Request, NEW u \in User, DeleteStart(r, u) PROVE DataOK'
  BY <1>7 DEF DeleteStart, Begin
<1>8. ASSUME NEW r \in Request, NEW u \in User, RestoreStart(r, u) PROVE DataOK'
  BY <1>8 DEF RestoreStart, Begin
<1>9. ASSUME NEW r \in Request, NEW u \in User, NEW t \in User, ShareStart(r, u, t)
      PROVE  DataOK'
  BY <1>9 DEF ShareStart, Begin
<1>10. ASSUME NEW r \in Request, NEW u \in User, NEW t \in User, UnshareStart(r, u, t)
       PROVE  DataOK'
  BY <1>10 DEF UnshareStart, Begin
<1>11. ASSUME NEW r \in Request, CheckHit(r) PROVE DataOK'
  BY <1>11 DEF CheckHit, End
<1>12. ASSUME NEW r \in Request, ReadNote(r) PROVE DataOK'
  BY <1>12 DEF ReadNote, Found, Goto, End
<1>13. ASSUME NEW r \in Request, CheckMiss(r) PROVE DataOK'
  BY <1>13 DEF CheckMiss, Goto, End
<1>14. ASSUME NEW r \in Request, FillDetail(r) PROVE DataOK'
  BY <1>14 DEF FillDetail, cache_set_detail, Swallowed, End
<1>15. ASSUME NEW r \in Request, SharedIds(r) PROVE DataOK'
  BY <1>15 DEF SharedIds, Goto
<1>16. ASSUME NEW r \in Request, Query(r) PROVE DataOK'
  BY <1>16 DEF Query, Goto, Listing, Listings
<1>17. ASSUME NEW r \in Request, FillList(r) PROVE DataOK'
  BY <1>17 DEF FillList, cache_set_list, Swallowed, End
<1>18. ASSUME NEW r \in Request, CommitUpdate(r) PROVE DataOK'
  BY <1>18 DEF CommitUpdate, Goto
<1>19. ASSUME NEW r \in Request, CommitDelete(r) PROVE DataOK'
  BY <1>19 DEF CommitDelete, Bumped, AfterDelete, Goto
<1>20. ASSUME NEW r \in Request, CommitCreate(r) PROVE DataOK'
  BY <1>20 DEF CommitCreate, Goto
<1>21. ASSUME NEW r \in Request, CommitShare(r) PROVE DataOK'
  <2>1. CASE grant[target[r]] = data[r]
    BY <1>21, <2>1 DEF CommitShare, Goto
  <2>2. CASE grant[target[r]] # data[r]
    BY <1>21, <2>2 DEF CommitShare, End
  <2> QED
    BY <2>1, <2>2
<1>22. ASSUME NEW r \in Request, CommitUnshare(r) PROVE DataOK'
  BY <1>22 DEF CommitUnshare, AfterUnshare, Goto
<1>23. ASSUME NEW r \in Request, CommitRestore(r) PROVE DataOK'
  BY <1>23 DEF CommitRestore, Bumped, Cached, CachedLists, End
<1>24. ASSUME NEW r \in Request, DelDetail(r) PROVE DataOK'
  BY <1>24 DEF DelDetail, cache_delete_detail, Forget, Swallowed, Cached, Goto
<1>25. ASSUME NEW r \in Request, ScanStart(r) PROVE DataOK'
  BY <1>25 DEF ScanStart, CachedLists, Swallowed, Goto, End
<1>26. ASSUME NEW r \in Request, ScanDelete(r) PROVE DataOK'
  BY <1>26 DEF ScanDelete, DeleteLists, Forget
<1>27. ASSUME NEW r \in Request, ScanEnd(r) PROVE DataOK'
  BY <1>27 DEF ScanEnd, ScanEnds, Swallowed, Cached, CachedLists, End
<1>28. ASSUME NEW r \in Request, Fail(r) PROVE DataOK'
  BY <1>28 DEF Fail, Cached, CachedLists, End
<1>29. ASSUME NEW u \in User, change_user_role(u) PROVE DataOK'
  BY <1>29 DEF change_user_role, CachedLists
<1>30. ASSUME NEW u \in User, ExpireList(u) PROVE DataOK'
  BY <1>30 DEF ExpireList, DeleteLists, Forget
<1>31. CASE ExpireDetail
  BY <1>31 DEF ExpireDetail, cache_delete_detail, Forget
<1>32. CASE UNCHANGED vars
  BY <1>32 DEF vars
<1> QED
  BY <1>1, <1>2, <1>3, <1>4, <1>5, <1>6, <1>7, <1>8, <1>9, <1>10, <1>11,
     <1>12, <1>13, <1>14, <1>15, <1>16, <1>17, <1>18, <1>19, <1>20, <1>21, <1>22,
     <1>23, <1>24, <1>25, <1>26, <1>27, <1>28, <1>29, <1>30, <1>31, <1>32 DEF
     Next, Arrive, Step

-----------------------------------------------------------------------------
(* What the database would answer changes only with the database.          *)
LEMMA ListNowFrame ==
    ASSUME UNCHANGED database
    PROVE  \A u \in User : ListNow(u)' = ListNow(u)
BY DEF ListNow, Listing, database

(* A step that leaves database and cache alone and ends no pending         *)
(* deletion keeps StaleExplained.                                          *)
LEMMA StaleFrame ==
    ASSUME StaleExplained, UNCHANGED <<database, cache>>,
           \A r \in Request : Pending(r) \subseteq Pending(r)'
    PROVE  StaleExplained'
BY ListNowFrame DEF StaleExplained, Stale, Key, database, cache

(* A commit that changes shares only is followed by a scan, which covers   *)
(* every listing it makes stale.                                           *)
LEMMA SharesCovered ==
    ASSUME StaleExplained, UNCHANGED <<note, role, cache, todo>>, DOMAIN pc = Request,
           NEW r \in Request, pc[r] \in {"share", "unshare"}, pc' = [pc EXCEPT ![r] = "scan"]
    PROVE  StaleExplained'
<1>1. \A k \in User : k \in Pending(r)'
  BY DEF Pending, Key
<1>2. Stale("detail")' => Stale("detail")
  BY DEF Stale, cache
<1>3. \A s \in Request : "detail" \in Pending(s) => "detail" \in Pending(s)'
  BY UserAssumption DEF Pending, Key
<1> QED
  BY <1>1, <1>2, <1>3 DEF StaleExplained, Key, cache

(* Every step accounts for the entries it makes stale.                     *)
LEMMA StaleStep == TypeOK /\ DataOK /\ StaleExplained /\ [Next]_vars => StaleExplained'
<1> SUFFICES ASSUME TypeOK, DataOK, StaleExplained, [Next]_vars
             PROVE  StaleExplained'
  OBVIOUS
<1> USE UserAssumption DEF TypeOK, DataOK, Key, request, local
<1>1. ASSUME NEW r \in Request, CreateStart(r) PROVE StaleExplained'
  BY <1>1, StaleFrame DEF CreateStart, Begin, Pending, cache
<1>2. ASSUME NEW r \in Request, NEW u \in User, GetHit(r, u)
      PROVE  StaleExplained'
  BY <1>2, StaleFrame DEF GetHit, Begin, Pending, cache
<1>3. ASSUME NEW r \in Request, NEW u \in User, GetMiss(r, u)
      PROVE  StaleExplained'
  BY <1>3, StaleFrame DEF GetMiss, Begin, Pending, cache
<1>4. ASSUME NEW r \in Request, NEW u \in User, ListHit(r, u)
      PROVE  StaleExplained'
  BY <1>4, StaleFrame DEF ListHit, Pending, cache
<1>5. ASSUME NEW r \in Request, NEW u \in User, ListMiss(r, u)
      PROVE  StaleExplained'
  BY <1>5, StaleFrame DEF ListMiss, Begin, Pending, cache
<1>6. ASSUME NEW r \in Request, NEW u \in User, UpdateStart(r, u)
      PROVE  StaleExplained'
  BY <1>6, StaleFrame DEF UpdateStart, Begin, Pending, cache
<1>7. ASSUME NEW r \in Request, NEW u \in User, DeleteStart(r, u)
      PROVE  StaleExplained'
  BY <1>7, StaleFrame DEF DeleteStart, Begin, Pending, cache
<1>8. ASSUME NEW r \in Request, NEW u \in User, RestoreStart(r, u)
      PROVE  StaleExplained'
  BY <1>8, StaleFrame DEF RestoreStart, Begin, Pending, cache
<1>9. ASSUME NEW r \in Request, NEW u \in User, NEW t \in User, ShareStart(r, u, t)
      PROVE  StaleExplained'
  BY <1>9, StaleFrame DEF ShareStart, Begin, Pending, cache
<1>10. ASSUME NEW r \in Request, NEW u \in User, NEW t \in User, UnshareStart(r, u, t)
       PROVE  StaleExplained'
  BY <1>10, StaleFrame DEF UnshareStart, Begin, Pending, cache
<1>11. ASSUME NEW r \in Request, CheckHit(r) PROVE StaleExplained'
  BY <1>11, StaleFrame DEF CheckHit, End, Pending, cache
<1>12. ASSUME NEW r \in Request, ReadNote(r) PROVE StaleExplained'
  BY <1>12, StaleFrame DEF ReadNote, Found, Goto, End, Pending, cache
<1>13. ASSUME NEW r \in Request, CheckMiss(r) PROVE StaleExplained'
  BY <1>13, StaleFrame DEF CheckMiss, Goto, End, Pending, cache
<1>14. ASSUME NEW r \in Request, FillDetail(r) PROVE StaleExplained'
  BY <1>14, ListNowFrame DEF FillDetail, cache_set_detail, Swallowed, End,
     StaleExplained, Stale, Pending, cache, database
<1>15. ASSUME NEW r \in Request, SharedIds(r) PROVE StaleExplained'
  BY <1>15, StaleFrame DEF SharedIds, Goto, Pending, cache
<1>16. ASSUME NEW r \in Request, Query(r) PROVE StaleExplained'
  BY <1>16, StaleFrame DEF Query, Goto, Pending, cache
<1>17. ASSUME NEW r \in Request, FillList(r) PROVE StaleExplained'
  <2>1. CASE cache_set_list(who[r], data[r])
    <3>1. who[r] \in User
      BY <1>17 DEF FillList, TypeOK, InFlight, Running
    <3> DEFINE u == who[r]
    <3>a. /\ list' = [list EXCEPT ![u] = data[r]] /\ detail' = detail
          /\ late' = (IF data[r] = ListNow(u) THEN late \ {u} ELSE late \cup {u})
          /\ skipped' = skipped \ {u} /\ UNCHANGED database
      BY <1>17, <2>1 DEF FillList, cache_set_list
    <3>b. \A v \in User : ListNow(v)' = ListNow(v)
      BY <3>a, ListNowFrame
    <3>c. note' = note
      BY <3>a DEF database
    <3>2. \A k \in Key : Stale(k)' => (k \in late' \/ (Stale(k) /\ k # u))
      BY <3>a, <3>b, <3>c, <3>1 DEF Stale
    <3>4. \A k \in Key : k # u => (k \in late \cup skipped => k \in late' \cup skipped')
      BY <3>a
    <3>3. \A s \in Request : Pending(s) \subseteq Pending(s)'
      BY <1>17 DEF FillList, End, Pending
    <3> QED
      BY <3>2, <3>3, <3>4 DEF StaleExplained
  <2>2. CASE UNCHANGED cache
    BY <1>17, <2>2, StaleFrame DEF FillList, End, Pending
  <2> QED
    BY <1>17, <2>1, <2>2 DEF FillList, Swallowed, cache
<1>18. ASSUME NEW r \in Request, CommitUpdate(r) PROVE StaleExplained'
  BY <1>18 DEF CommitUpdate, Goto, StaleExplained, Stale, Pending, cache,
     database
<1>19. ASSUME NEW r \in Request, CommitDelete(r) PROVE StaleExplained'
  BY <1>19 DEF CommitDelete, Bumped, AfterDelete, Goto, StaleExplained, Stale,
     Pending, cache, database
<1>20. ASSUME NEW r \in Request, CommitCreate(r) PROVE StaleExplained'
  BY <1>20 DEF CommitCreate, Goto, StaleExplained, Stale, Pending, cache,
     database
<1>21. ASSUME NEW r \in Request, CommitShare(r) PROVE StaleExplained'
  <2>1. CASE grant[target[r]] = data[r]
    BY <1>21, <2>1, SharesCovered DEF CommitShare, Goto, cache
  <2>2. CASE grant[target[r]] # data[r]
    BY <1>21, <2>2, StaleFrame DEF CommitShare, End, Pending, cache, database
  <2> QED
    BY <2>1, <2>2
<1>22. ASSUME NEW r \in Request, CommitUnshare(r) PROVE StaleExplained'
  BY <1>22, SharesCovered DEF CommitUnshare, AfterUnshare, Goto, cache
<1>23. ASSUME NEW r \in Request, CommitRestore(r) PROVE StaleExplained'
  BY <1>23 DEF CommitRestore, Bumped, Cached, CachedLists, End,
     StaleExplained, Stale, Pending, cache, database, ListNow, Listing
<1>24. ASSUME NEW r \in Request, DelDetail(r) PROVE StaleExplained'
  BY <1>24, ListNowFrame DEF DelDetail, cache_delete_detail, Forget,
     Swallowed, Cached, Goto, StaleExplained, Stale, Pending, cache, database
<1>25. ASSUME NEW r \in Request, ScanStart(r) PROVE StaleExplained'
  BY <1>25, ListNowFrame DEF ScanStart, CachedLists, Swallowed, Goto, End,
     StaleExplained, Stale, Pending, cache, database
<1>26. ASSUME NEW r \in Request, ScanDelete(r) PROVE StaleExplained'
  BY <1>26, ListNowFrame DEF ScanDelete, DeleteLists, Forget, StaleExplained,
     Stale, Pending, cache, database
<1>27. ASSUME NEW r \in Request, ScanEnd(r) PROVE StaleExplained'
  BY <1>27, ListNowFrame DEF ScanEnd, ScanEnds, Swallowed, Cached,
     CachedLists, End, StaleExplained, Stale, Pending, cache, database
<1>28. ASSUME NEW r \in Request, Fail(r) PROVE StaleExplained'
  BY <1>28, ListNowFrame DEF Fail, Cached, CachedLists, End, StaleExplained,
     Stale, Pending, cache, database
<1>29. ASSUME NEW u \in User, change_user_role(u) PROVE StaleExplained'
  BY <1>29 DEF change_user_role, CachedLists, StaleExplained, Stale, Pending,
     cache, database, ListNow, Listing
<1>30. ASSUME NEW u \in User, ExpireList(u) PROVE StaleExplained'
  BY <1>30, ListNowFrame DEF ExpireList, DeleteLists, Forget, StaleExplained,
     Stale, Pending, cache, database
<1>31. CASE ExpireDetail
  BY <1>31, ListNowFrame DEF ExpireDetail, cache_delete_detail, Forget,
     StaleExplained, Stale, Pending, cache, database
<1>32. CASE UNCHANGED vars
  BY <1>32, StaleFrame DEF vars, cache, database, local, request, Pending
<1> QED
  BY <1>1, <1>2, <1>3, <1>4, <1>5, <1>6, <1>7, <1>8, <1>9, <1>10, <1>11,
     <1>12, <1>13, <1>14, <1>15, <1>16, <1>17, <1>18, <1>19, <1>20, <1>21, <1>22,
     <1>23, <1>24, <1>25, <1>26, <1>27, <1>28, <1>29, <1>30, <1>31, <1>32 DEF
     Next, Arrive, Step

-----------------------------------------------------------------------------
(* With one thread, a request arrives only when none is in flight.         *)
LEMMA FreeMeansNoneInFlight ==
    ASSUME Workers = 1, ThreadFree
    PROVE  InFlight = {}
<1>1. InFlight \subseteq Request
  BY DEF InFlight
<1>2. IsFiniteSet(InFlight)
  BY <1>1, RequestAssumption, FS_Subset
<1>3. Cardinality(InFlight) \in Nat
  BY <1>2, FS_CardinalityType
<1>4. Cardinality(InFlight) = 0
  BY <1>3 DEF ThreadFree
<1> QED
  BY <1>2, <1>4, FS_EmptySet

(* Nothing changes between what one request reads and what it writes.      *)
LEMMA OneAtATimeStep ==
    Workers = 1 /\ ~Faults /\ TypeOK /\ DataOK /\ StaleExplained /\ OneAtATime /\ [Next]_vars
    => OneAtATime'
<1> SUFFICES ASSUME Workers = 1, ~Faults, TypeOK, DataOK, StaleExplained, OneAtATime, [Next]_vars
             PROVE  OneAtATime'
  OBVIOUS
<1> USE UserAssumption DEF OneAtATime, InFlight, Running, TypeOK, Key,
        database, cache, request, local
<1>1. ASSUME NEW r \in Request, CreateStart(r) PROVE OneAtATime'
  BY <1>1, FreeMeansNoneInFlight DEF CreateStart, Begin
<1>2. ASSUME NEW r \in Request, NEW u \in User, GetHit(r, u) PROVE OneAtATime'
  BY <1>2, FreeMeansNoneInFlight DEF GetHit, Begin
<1>3. ASSUME NEW r \in Request, NEW u \in User, GetMiss(r, u) PROVE OneAtATime'
  BY <1>3, FreeMeansNoneInFlight DEF GetMiss, Begin
<1>4. ASSUME NEW r \in Request, NEW u \in User, ListHit(r, u) PROVE OneAtATime'
  BY <1>4, FreeMeansNoneInFlight DEF ListHit
<1>5. ASSUME NEW r \in Request, NEW u \in User, ListMiss(r, u) PROVE OneAtATime'
  BY <1>5, FreeMeansNoneInFlight DEF ListMiss, Begin
<1>6. ASSUME NEW r \in Request, NEW u \in User, UpdateStart(r, u)
      PROVE  OneAtATime'
  BY <1>6, FreeMeansNoneInFlight DEF UpdateStart, Begin
<1>7. ASSUME NEW r \in Request, NEW u \in User, DeleteStart(r, u)
      PROVE  OneAtATime'
  BY <1>7, FreeMeansNoneInFlight DEF DeleteStart, Begin
<1>8. ASSUME NEW r \in Request, NEW u \in User, RestoreStart(r, u)
      PROVE  OneAtATime'
  BY <1>8, FreeMeansNoneInFlight DEF RestoreStart, Begin, StaleExplained,
     Stale, Pending
<1>9. ASSUME NEW r \in Request, NEW u \in User, NEW t \in User, ShareStart(r, u, t)
      PROVE  OneAtATime'
  BY <1>9, FreeMeansNoneInFlight DEF ShareStart, Begin
<1>10. ASSUME NEW r \in Request, NEW u \in User, NEW t \in User, UnshareStart(r, u, t)
       PROVE  OneAtATime'
  BY <1>10, FreeMeansNoneInFlight DEF UnshareStart, Begin
<1>11. ASSUME NEW r \in Request, CheckHit(r) PROVE OneAtATime'
  BY <1>11 DEF CheckHit, End
<1>12. ASSUME NEW r \in Request, ReadNote(r) PROVE OneAtATime'
  BY <1>12 DEF ReadNote, Found, Goto, End
<1>13. ASSUME NEW r \in Request, CheckMiss(r) PROVE OneAtATime'
  BY <1>13 DEF CheckMiss, Goto, End
<1>14. ASSUME NEW r \in Request, FillDetail(r) PROVE OneAtATime'
  BY <1>14 DEF FillDetail, cache_set_detail, Swallowed, End
<1>15. ASSUME NEW r \in Request, SharedIds(r) PROVE OneAtATime'
  BY <1>15 DEF SharedIds, Goto
<1>16. ASSUME NEW r \in Request, Query(r) PROVE OneAtATime'
  BY <1>16 DEF Query, Goto
<1>17. ASSUME NEW r \in Request, FillList(r) PROVE OneAtATime'
  BY <1>17 DEF FillList, cache_set_list, Swallowed, End
<1>18. ASSUME NEW r \in Request, CommitUpdate(r) PROVE OneAtATime'
  BY <1>18 DEF CommitUpdate, Goto
<1>19. ASSUME NEW r \in Request, CommitDelete(r) PROVE OneAtATime'
  BY <1>19 DEF CommitDelete, Bumped, AfterDelete, Goto
<1>20. ASSUME NEW r \in Request, CommitCreate(r) PROVE OneAtATime'
  BY <1>20 DEF CommitCreate, Goto
<1>21. ASSUME NEW r \in Request, CommitShare(r) PROVE OneAtATime'
  <2>1. CASE grant[target[r]] = data[r]
    BY <1>21, <2>1 DEF CommitShare, Goto
  <2>2. CASE grant[target[r]] # data[r]
    BY <1>21, <2>2 DEF CommitShare, End
  <2> QED
    BY <2>1, <2>2
<1>22. ASSUME NEW r \in Request, CommitUnshare(r) PROVE OneAtATime'
  BY <1>22 DEF CommitUnshare, AfterUnshare, Goto
<1>23. ASSUME NEW r \in Request, CommitRestore(r) PROVE OneAtATime'
  BY <1>23 DEF CommitRestore, Bumped, Cached, CachedLists, End
<1>24. ASSUME NEW r \in Request, DelDetail(r) PROVE OneAtATime'
  BY <1>24 DEF DelDetail, cache_delete_detail, Forget, Swallowed, Cached, Goto
<1>25. ASSUME NEW r \in Request, ScanStart(r) PROVE OneAtATime'
  BY <1>25 DEF ScanStart, CachedLists, Swallowed, Goto, End
<1>26. ASSUME NEW r \in Request, ScanDelete(r) PROVE OneAtATime'
  BY <1>26 DEF ScanDelete, DeleteLists, Forget
<1>27. ASSUME NEW r \in Request, ScanEnd(r) PROVE OneAtATime'
  BY <1>27 DEF ScanEnd, ScanEnds, Swallowed, Cached, CachedLists, End
<1>28. ASSUME NEW r \in Request, Fail(r) PROVE OneAtATime'
  BY <1>28 DEF Fail, Cached, CachedLists, End
<1>29. ASSUME NEW u \in User, change_user_role(u) PROVE OneAtATime'
  BY <1>29 DEF change_user_role, CachedLists
<1>30. ASSUME NEW u \in User, ExpireList(u) PROVE OneAtATime'
  BY <1>30 DEF ExpireList, DeleteLists, Forget
<1>31. CASE ExpireDetail
  BY <1>31 DEF ExpireDetail, cache_delete_detail, Forget
<1>32. CASE UNCHANGED vars
  BY <1>32 DEF vars
<1> QED
  BY <1>1, <1>2, <1>3, <1>4, <1>5, <1>6, <1>7, <1>8, <1>9, <1>10, <1>11,
     <1>12, <1>13, <1>14, <1>15, <1>16, <1>17, <1>18, <1>19, <1>20, <1>21, <1>22,
     <1>23, <1>24, <1>25, <1>26, <1>27, <1>28, <1>29, <1>30, <1>31, <1>32 DEF
     Next, Arrive, Step

-----------------------------------------------------------------------------
(* One thread: what a listing shows.  It shows nothing, or the note as it  *)
(* is to somebody whom the role it was made for, or the note, lets read    *)
(* it.  Roles may change while it is cached, the rest may not.             *)
Sound(d, u) ==
    \/ d.note = None
    \/ /\ d.note = note /\ note.state = "live"
       /\ d.as = "admin" \/ u = Owner \/ note.visibility = "public" \/ share[u] # "none"

(* What the request in flight has read is still so.                        *)
Held ==
    \A r \in InFlight :
        /\ seen[r] = role[who[r]]
        /\ pc[r] = "check_hit" => data[r] # None
        /\ pc[r] = "query" /\ ids[r] => seen[r] = "admin" \/ share[who[r]] # "none"
        /\ pc[r] = "fill_list" => Sound(data[r], who[r])
        /\ pc[r] = "restore" => note.state = "deleted"

ListsSound ==
    \A u \in User : list[u] # None => Sound(list[u], u) \/ \E r \in Request : u \in Pending(r)

(* A step that keeps the row and its shares, adds no listing and ends no   *)
(* pending deletion keeps the listings sound.                              *)
LEMMA ListsFrame ==
    ASSUME ListsSound, UNCHANGED <<note, share, list>>,
           \A r \in Request : Pending(r) \subseteq Pending(r)'
    PROVE  ListsSound'
BY DEF ListsSound, Sound

(* After a commit all listings are about to be deleted.                    *)
LEMMA AllPending ==
    ASSUME NEW r \in Request, pc \in [Request -> Running \cup Ended \cup {"idle"}],
           pc' = [pc EXCEPT ![r] = "del_detail"] \/ pc' = [pc EXCEPT ![r] = "scan"]
    PROVE  ListsSound'
<1>1. \A u \in User : u \in Pending(r)'
  BY DEF Pending, Key
<1> QED
  BY <1>1 DEF ListsSound

(* Nothing changes between what one request reads and what it stores.      *)
LEMMA HeldStep ==
    Workers = 1 /\ ~Faults /\ TypeOK /\ OneAtATime /\ Held /\ [Next]_vars => Held'
<1> SUFFICES ASSUME Workers = 1, ~Faults, TypeOK, OneAtATime, Held, [Next]_vars
             PROVE  Held'
  OBVIOUS
<1> USE UserAssumption DEF OneAtATime, Held, Sound, InFlight, Running, TypeOK, Key,
        database, cache, request, local
<1>1. ASSUME NEW r \in Request, CreateStart(r) PROVE Held'
  BY <1>1, FreeMeansNoneInFlight DEF CreateStart, Begin
<1>2. ASSUME NEW r \in Request, NEW u \in User, GetHit(r, u) PROVE Held'
  BY <1>2, FreeMeansNoneInFlight DEF GetHit, Begin
<1>3. ASSUME NEW r \in Request, NEW u \in User, GetMiss(r, u) PROVE Held'
  BY <1>3, FreeMeansNoneInFlight DEF GetMiss, Begin
<1>4. ASSUME NEW r \in Request, NEW u \in User, ListHit(r, u) PROVE Held'
  BY <1>4, FreeMeansNoneInFlight DEF ListHit
<1>5. ASSUME NEW r \in Request, NEW u \in User, ListMiss(r, u) PROVE Held'
  BY <1>5, FreeMeansNoneInFlight DEF ListMiss, Begin
<1>6. ASSUME NEW r \in Request, NEW u \in User, UpdateStart(r, u)
      PROVE  Held'
  BY <1>6, FreeMeansNoneInFlight DEF UpdateStart, Begin
<1>7. ASSUME NEW r \in Request, NEW u \in User, DeleteStart(r, u)
      PROVE  Held'
  BY <1>7, FreeMeansNoneInFlight DEF DeleteStart, Begin
<1>8. ASSUME NEW r \in Request, NEW u \in User, RestoreStart(r, u)
      PROVE  Held'
  BY <1>8, FreeMeansNoneInFlight DEF RestoreStart, Begin
<1>9. ASSUME NEW r \in Request, NEW u \in User, NEW t \in User, ShareStart(r, u, t)
      PROVE  Held'
  BY <1>9, FreeMeansNoneInFlight DEF ShareStart, Begin
<1>10. ASSUME NEW r \in Request, NEW u \in User, NEW t \in User, UnshareStart(r, u, t)
       PROVE  Held'
  BY <1>10, FreeMeansNoneInFlight DEF UnshareStart, Begin
<1>11. ASSUME NEW r \in Request, CheckHit(r) PROVE Held'
  BY <1>11 DEF CheckHit, End
<1>12. ASSUME NEW r \in Request, ReadNote(r) PROVE Held'
  BY <1>12 DEF ReadNote, Found, Goto, End
<1>13. ASSUME NEW r \in Request, CheckMiss(r) PROVE Held'
  BY <1>13 DEF CheckMiss, Goto, End
<1>14. ASSUME NEW r \in Request, FillDetail(r) PROVE Held'
  BY <1>14 DEF FillDetail, cache_set_detail, Swallowed, End
<1>15. ASSUME NEW r \in Request, SharedIds(r) PROVE Held'
  <2>1. ids'[r] <=> share[who[r]] # "none"
    BY <1>15 DEF SharedIds
  <2>2. pc'[r] = "query" /\ r \in InFlight /\ \A s \in InFlight' : s = r
    BY <1>15 DEF SharedIds, Goto
  <2>3. UNCHANGED <<seen, role, who, share>>
    BY <1>15 DEF SharedIds, Goto
  <2> QED
    BY <2>1, <2>2, <2>3
<1>16. ASSUME NEW r \in Request, Query(r) PROVE Held'
  BY <1>16 DEF Query, Goto, Listing
<1>17. ASSUME NEW r \in Request, FillList(r) PROVE Held'
  BY <1>17 DEF FillList, cache_set_list, Swallowed, End
<1>18. ASSUME NEW r \in Request, CommitUpdate(r) PROVE Held'
  BY <1>18 DEF CommitUpdate, Goto
<1>19. ASSUME NEW r \in Request, CommitDelete(r) PROVE Held'
  BY <1>19 DEF CommitDelete, Bumped, AfterDelete, Goto
<1>20. ASSUME NEW r \in Request, CommitCreate(r) PROVE Held'
  BY <1>20 DEF CommitCreate, Goto
<1>21. ASSUME NEW r \in Request, CommitShare(r) PROVE Held'
  <2>1. CASE grant[target[r]] = data[r]
    BY <1>21, <2>1 DEF CommitShare, Goto
  <2>2. CASE grant[target[r]] # data[r]
    BY <1>21, <2>2 DEF CommitShare, End
  <2> QED
    BY <2>1, <2>2
<1>22. ASSUME NEW r \in Request, CommitUnshare(r) PROVE Held'
  BY <1>22 DEF CommitUnshare, AfterUnshare, Goto
<1>23. ASSUME NEW r \in Request, CommitRestore(r) PROVE Held'
  BY <1>23 DEF CommitRestore, Bumped, Cached, CachedLists, End
<1>24. ASSUME NEW r \in Request, DelDetail(r) PROVE Held'
  BY <1>24 DEF DelDetail, cache_delete_detail, Forget, Swallowed, Cached, Goto
<1>25. ASSUME NEW r \in Request, ScanStart(r) PROVE Held'
  BY <1>25 DEF ScanStart, CachedLists, Swallowed, Goto, End
<1>26. ASSUME NEW r \in Request, ScanDelete(r) PROVE Held'
  BY <1>26 DEF ScanDelete, DeleteLists, Forget
<1>27. ASSUME NEW r \in Request, ScanEnd(r) PROVE Held'
  BY <1>27 DEF ScanEnd, ScanEnds, Swallowed, Cached, CachedLists, End
<1>28. ASSUME NEW r \in Request, Fail(r) PROVE Held'
  BY <1>28 DEF Fail, Cached, CachedLists, End
<1>29. ASSUME NEW u \in User, change_user_role(u) PROVE Held'
  BY <1>29, FreeMeansNoneInFlight DEF change_user_role, CachedLists
<1>30. ASSUME NEW u \in User, ExpireList(u) PROVE Held'
  BY <1>30 DEF ExpireList, DeleteLists, Forget
<1>31. CASE ExpireDetail
  BY <1>31 DEF ExpireDetail, cache_delete_detail, Forget
<1>32. CASE UNCHANGED vars
  BY <1>32 DEF vars
<1> QED
  BY <1>1, <1>2, <1>3, <1>4, <1>5, <1>6, <1>7, <1>8, <1>9, <1>10, <1>11,
     <1>12, <1>13, <1>14, <1>15, <1>16, <1>17, <1>18, <1>19, <1>20, <1>21, <1>22,
     <1>23, <1>24, <1>25, <1>26, <1>27, <1>28, <1>29, <1>30, <1>31, <1>32 DEF
     Next, Arrive, Step

(* Every listing is sound or about to be deleted.                           *)
LEMMA ListsStep ==
    Workers = 1 /\ ~Faults /\ TypeOK /\ OneAtATime /\ Held /\ ListsSound /\ [Next]_vars
    => ListsSound'
<1> SUFFICES ASSUME Workers = 1, ~Faults, TypeOK, OneAtATime, Held, ListsSound, [Next]_vars
             PROVE  ListsSound'
  OBVIOUS
<1> USE UserAssumption DEF TypeOK, Key, request, local
<1>1. ASSUME NEW r \in Request, CreateStart(r) PROVE ListsSound'
  BY <1>1, ListsFrame DEF CreateStart, Begin, Pending, database, cache
<1>2. ASSUME NEW r \in Request, NEW u \in User, GetHit(r, u)
      PROVE  ListsSound'
  BY <1>2, ListsFrame DEF GetHit, Begin, Pending, database, cache
<1>3. ASSUME NEW r \in Request, NEW u \in User, GetMiss(r, u)
      PROVE  ListsSound'
  BY <1>3, ListsFrame DEF GetMiss, Begin, Pending, database, cache
<1>4. ASSUME NEW r \in Request, NEW u \in User, ListHit(r, u)
      PROVE  ListsSound'
  BY <1>4, ListsFrame DEF ListHit, Pending, database, cache
<1>5. ASSUME NEW r \in Request, NEW u \in User, ListMiss(r, u)
      PROVE  ListsSound'
  BY <1>5, ListsFrame DEF ListMiss, Begin, Pending, database, cache
<1>6. ASSUME NEW r \in Request, NEW u \in User, UpdateStart(r, u)
      PROVE  ListsSound'
  BY <1>6, ListsFrame DEF UpdateStart, Begin, Pending, database, cache
<1>7. ASSUME NEW r \in Request, NEW u \in User, DeleteStart(r, u)
      PROVE  ListsSound'
  BY <1>7, ListsFrame DEF DeleteStart, Begin, Pending, database, cache
<1>8. ASSUME NEW r \in Request, NEW u \in User, RestoreStart(r, u)
      PROVE  ListsSound'
  BY <1>8, ListsFrame DEF RestoreStart, Begin, Pending, database, cache
<1>9. ASSUME NEW r \in Request, NEW u \in User, NEW t \in User, ShareStart(r, u, t)
      PROVE  ListsSound'
  BY <1>9, ListsFrame DEF ShareStart, Begin, Pending, database, cache
<1>10. ASSUME NEW r \in Request, NEW u \in User, NEW t \in User, UnshareStart(r, u, t)
       PROVE  ListsSound'
  BY <1>10, ListsFrame DEF UnshareStart, Begin, Pending, database, cache
<1>11. ASSUME NEW r \in Request, CheckHit(r) PROVE ListsSound'
  BY <1>11, ListsFrame DEF CheckHit, End, Pending, database, cache
<1>12. ASSUME NEW r \in Request, ReadNote(r) PROVE ListsSound'
  BY <1>12, ListsFrame DEF ReadNote, Found, Goto, End, Pending, database, cache
<1>13. ASSUME NEW r \in Request, CheckMiss(r) PROVE ListsSound'
  BY <1>13, ListsFrame DEF CheckMiss, Goto, End, Pending, database, cache
<1>14. ASSUME NEW r \in Request, FillDetail(r) PROVE ListsSound'
  BY <1>14, ListsFrame DEF FillDetail, cache_set_detail, Swallowed, End, Pending, database
<1>15. ASSUME NEW r \in Request, SharedIds(r) PROVE ListsSound'
  BY <1>15, ListsFrame DEF SharedIds, Goto, Pending, database, cache
<1>16. ASSUME NEW r \in Request, Query(r) PROVE ListsSound'
  BY <1>16, ListsFrame DEF Query, Goto, Pending, database, cache
<1>17. ASSUME NEW r \in Request, FillList(r) PROVE ListsSound'
  <2>1. /\ pc[r] = "fill_list" /\ list' = [list EXCEPT ![who[r]] = data[r]]
        /\ UNCHANGED database
    BY <1>17 DEF FillList, cache_set_list, Swallowed
  <2>2. Sound(data[r], who[r])
    BY <2>1 DEF Held, InFlight, Running
  <2>3. \A s \in Request : Pending(s) \subseteq Pending(s)'
    BY <1>17 DEF FillList, End, Pending
  <2> QED
    BY <2>1, <2>2, <2>3 DEF ListsSound, Sound, database
<1>18. ASSUME NEW r \in Request, CommitUpdate(r) PROVE ListsSound'
  BY <1>18, AllPending DEF CommitUpdate, Goto
<1>19. ASSUME NEW r \in Request, CommitDelete(r) PROVE ListsSound'
  BY <1>19, AllPending DEF CommitDelete, AfterDelete, Goto
<1>20. ASSUME NEW r \in Request, CommitCreate(r) PROVE ListsSound'
  BY <1>20, AllPending DEF CommitCreate, Goto
<1>21. ASSUME NEW r \in Request, CommitShare(r) PROVE ListsSound'
  <2>1. CASE grant[target[r]] = data[r]
    BY <1>21, <2>1, AllPending DEF CommitShare, Goto
  <2>2. CASE grant[target[r]] # data[r]
    BY <1>21, <2>2, ListsFrame DEF CommitShare, End, Pending, cache, database
  <2> QED
    BY <2>1, <2>2
<1>22. ASSUME NEW r \in Request, CommitUnshare(r) PROVE ListsSound'
  BY <1>22, AllPending DEF CommitUnshare, AfterUnshare, Goto
<1>23. ASSUME NEW r \in Request, CommitRestore(r) PROVE ListsSound'
  <2>1. pc[r] = "restore" /\ UNCHANGED list
    BY <1>23 DEF CommitRestore
  <2>2. note.state = "deleted"
    BY <2>1 DEF Held, InFlight, Running
  <2>3. \A s \in Request : Pending(s) = {}
    BY <2>1 DEF OneAtATime, InFlight, Running, Pending
  <2>4. \A u \in User : list[u] # None => list[u].note = None
    BY <2>2, <2>3 DEF ListsSound, Sound
  <2> QED
    BY <2>1, <2>4 DEF ListsSound, Sound
<1>24. ASSUME NEW r \in Request, DelDetail(r) PROVE ListsSound'
  BY <1>24, AllPending DEF DelDetail, Goto
<1>25. ASSUME NEW r \in Request, ScanStart(r) PROVE ListsSound'
  <2>1. /\ pc'[r] = "scanning" /\ todo'[r] = CachedLists /\ UNCHANGED list
    BY <1>25 DEF ScanStart, Goto, Swallowed
  <2>2. \A u \in User : list'[u] # None => u \in Pending(r)'
    BY <2>1 DEF CachedLists, Pending
  <2> QED
    BY <2>2 DEF ListsSound
<1>26. ASSUME NEW r \in Request, ScanDelete(r) PROVE ListsSound'
  BY <1>26 DEF ScanDelete, DeleteLists, Pending, ListsSound, Sound, database
<1>27. ASSUME NEW r \in Request, ScanEnd(r) PROVE ListsSound'
  BY <1>27, ListsFrame DEF ScanEnd, ScanEnds, Swallowed, End, Pending, database
<1>28. ASSUME NEW r \in Request, Fail(r) PROVE ListsSound'
  BY <1>28 DEF Fail
<1>29. ASSUME NEW u \in User, change_user_role(u) PROVE ListsSound'
  BY <1>29, ListsFrame DEF change_user_role, Pending
<1>30. ASSUME NEW u \in User, ExpireList(u) PROVE ListsSound'
  BY <1>30 DEF ExpireList, DeleteLists, Pending, ListsSound, Sound, database
<1>31. CASE ExpireDetail
  BY <1>31, ListsFrame DEF ExpireDetail, cache_delete_detail, Pending, database
<1>32. CASE UNCHANGED vars
  BY <1>32, ListsFrame DEF vars, cache, database, Pending
<1> QED
  BY <1>1, <1>2, <1>3, <1>4, <1>5, <1>6, <1>7, <1>8, <1>9, <1>10, <1>11,
     <1>12, <1>13, <1>14, <1>15, <1>16, <1>17, <1>18, <1>19, <1>20, <1>21, <1>22,
     <1>23, <1>24, <1>25, <1>26, <1>27, <1>28, <1>29, <1>30, <1>31, <1>32 DEF
     Next, Arrive, Step

-----------------------------------------------------------------------------
(* The initial states satisfy every part of the inductive invariant.       *)
LEMMA Initially == Init => TypeOK /\ DataOK /\ StaleExplained /\ OneAtATime
<1> SUFFICES ASSUME Init PROVE TypeOK /\ DataOK /\ StaleExplained /\ OneAtATime
  OBVIOUS
<1> USE UserAssumption DEF Init
<1>1. TypeOK
  BY DEF TypeOK, Notes, Permission, Ended, InFlight, Running
<1>2. DataOK
  BY DEF DataOK
<1>3. StaleExplained
  BY DEF StaleExplained, Stale, Key
<1>4. OneAtATime
  BY DEF OneAtATime, InFlight, Running
<1> QED
  BY <1>1, <1>2, <1>3, <1>4

(* The state keeps its shape, and the cache never holds a deleted note     *)
(* that was not live when it was read.                                     *)
THEOREM TypeCorrect == Spec => [](TypeOK /\ DataOK)
<1>1. Init => TypeOK /\ DataOK
  BY Initially
<1>2. TypeOK /\ DataOK /\ [Next]_vars => (TypeOK /\ DataOK)'
  BY TypeStep, DataStep
<1> QED
  BY <1>1, <1>2, PTL DEF Spec

(* Every stale entry was out of date when written, is about to be deleted, *)
(* or escaped a deletion that failed or that the handler does not do.      *)
THEOREM EveryStaleEntryExplained == Spec => []StaleExplained
<1>1. Init => StaleExplained
  BY Initially
<1>2. TypeOK /\ DataOK /\ StaleExplained /\ [Next]_vars => StaleExplained'
  BY StaleStep
<1> QED
  BY <1>1, <1>2, TypeCorrect, PTL DEF Spec

(* With one request at a time and no failure the detail key is the row,    *)
(* also across restores and role changes.                                  *)
THEOREM DetailFreshOneAtATime ==
    ASSUME Workers = 1, ~Faults PROVE Spec => []DetailFresh
<1>1. Init => OneAtATime
  BY Initially
<1>2. TypeOK /\ DataOK /\ StaleExplained /\ OneAtATime /\ [Next]_vars => OneAtATime'
  BY OneAtATimeStep
<1>3. TypeOK /\ StaleExplained /\ OneAtATime => DetailFresh
  BY DEF TypeOK, StaleExplained, OneAtATime, DetailFresh, Quiet, InFlight,
     Running,
         Pending, Key
<1> QED
  BY <1>1, <1>2, <1>3, TypeCorrect, EveryStaleEntryExplained, PTL DEF Spec

(* With one request at a time and no failure: the invariant that both of   *)
(* the next theorems rest on.                                              *)
LEMMA SoundOneAtATime ==
    ASSUME Workers = 1, ~Faults
    PROVE  Spec => [](TypeOK /\ StaleExplained /\ OneAtATime /\ Held /\ ListsSound)
<1>1. Init => OneAtATime /\ Held /\ ListsSound
  <2>1. Init => InFlight = {} /\ \A u \in User : list[u] = None
    BY DEF Init, InFlight, Running
  <2> QED
    BY <2>1, Initially DEF Held, ListsSound
<1>2. TypeOK /\ DataOK /\ StaleExplained /\ OneAtATime /\ [Next]_vars => OneAtATime'
  BY OneAtATimeStep
<1>3. TypeOK /\ OneAtATime /\ Held /\ [Next]_vars => Held'
  BY HeldStep
<1>4. TypeOK /\ OneAtATime /\ Held /\ ListsSound /\ [Next]_vars => ListsSound'
  BY ListsStep
<1> QED
  BY <1>1, <1>2, <1>3, <1>4, TypeCorrect, EveryStaleEntryExplained, PTL DEF Spec

(* With one request at a time and no failure a cached listing shows its    *)
(* user the note only as it is and only if the user may read it now        *)
(* (notes.py:117-174, sharing.py:120-122).                                 *)
THEOREM ListsReadableOneAtATime ==
    ASSUME Workers = 1, ~Faults PROVE Spec => []ListShowsOnlyReadable
<1>1. TypeOK /\ ListsSound => ListShowsOnlyReadable
  <2> SUFFICES ASSUME TypeOK, ListsSound, InFlight = {}, NEW u \in User, list[u] # None,
                      list[u].as = role[u], list[u].note # None
               PROVE  CanRead(u) /\ list[u].note = note
    BY DEF ListShowsOnlyReadable, Quiet
  <2>1. \A r \in Request : Pending(r) = {}
    BY DEF InFlight, Running, Pending
  <2> QED
    BY <2>1 DEF ListsSound, Sound, CanRead
<1> QED
  BY <1>1, SoundOneAtATime, PTL

(* With one request at a time and no failure the check on a cache hit      *)
(* (notes.py:229-231) lets nobody read the note who may not.               *)
THEOREM HitAuthorisedOneAtATime ==
    ASSUME Workers = 1, ~Faults PROVE Spec => HitAuthorised
<1>1. ASSUME TypeOK, StaleExplained, OneAtATime, Held, Next,
             NEW r \in Request, pc[r] = "check_hit", pc'[r] = "served",
             InFlight = {r}, detail = data[r]
      PROVE  CanRead(who[r])
  <2>1. CheckHit(r)
    <3>1. ~ThreadFree
      BY <1>1, FreeMeansNoneInFlight
    <3>2. ASSUME NEW s \in Request, Arrive(s) PROVE FALSE
      BY <3>1, <3>2 DEF Arrive, CreateStart, GetHit, GetMiss, ListHit, ListMiss, UpdateStart,
         DeleteStart, RestoreStart, ShareStart, UnshareStart, Begin
    <3>3. ASSUME NEW s \in Request, Step(s) PROVE s = r
      BY <1>1, <3>3 DEF Step, InFlight, Running, CheckHit, ReadNote, CheckMiss, FillDetail,
         SharedIds, Query, FillList, CommitUpdate, CommitDelete, CommitCreate, CommitShare,
         CommitUnshare, CommitRestore, DelDetail, ScanStart, ScanDelete, ScanEnd
    <3>4. Step(r) => CheckHit(r)
      BY <1>1 DEF Step, ReadNote, CheckMiss, FillDetail,
         SharedIds, Query, FillList, CommitUpdate, CommitDelete, CommitCreate, CommitShare,
         CommitUnshare, CommitRestore, DelDetail, ScanStart, ScanDelete, ScanEnd
    <3>5. ASSUME NEW u \in User, change_user_role(u) \/ ExpireList(u) PROVE FALSE
      BY <1>1, <3>5 DEF change_user_role, ExpireList
    <3> QED
      <4>1. ~ExpireDetail /\ \A s \in Request : ~Fail(s)
        BY <1>1 DEF ExpireDetail, Fail
      <4>2. PICK s \in Request : Step(s)
        BY <1>1, <3>2, <3>5, <4>1 DEF Next
      <4> QED
        BY <3>3, <3>4, <4>2
  <2>2. check_read_access(data[r], who[r], seen[r])
    BY <1>1, <2>1 DEF CheckHit, End, TypeOK
  <2>3. detail = note /\ note.state = "live"
    <3>1. detail # None
      BY <1>1 DEF Held
    <3>2. "detail" \notin late \cup skipped /\ \A s \in Request : "detail" \notin Pending(s)
      BY <1>1 DEF OneAtATime, InFlight, Running, Pending
    <3> QED
      BY <1>1, <3>1, <3>2 DEF StaleExplained, Stale, Key, TypeOK
  <2>4. seen[r] = role[who[r]]
    BY <1>1 DEF Held
  <2> QED
    BY <1>1, <2>2, <2>3, <2>4 DEF check_read_access, CanRead
<1>2. TypeOK /\ StaleExplained /\ OneAtATime /\ Held /\ [Next]_vars =>
        [\A r \in Request :
            /\ pc[r] = "check_hit" /\ pc'[r] = "served"
            /\ InFlight = {r} /\ detail = data[r]
            => CanRead(who[r])]_vars
  BY <1>1
<1> QED
  BY <1>2, SoundOneAtATime, PTL DEF Spec, HitAuthorised

-----------------------------------------------------------------------------
(* The copies of the note there are: the row, the cached ones, and what    *)
(* readers hold that are about to judge, to serve or to store it.          *)
IsCopy(d) ==
    /\ d # None
    /\ \/ d = note
       \/ d = detail
       \/ \E u \in CachedLists : d = list[u].note
       \/ \E r \in Request :
            \/ pc[r] \in {"check_hit", "check_miss", "fill_detail"} /\ d = data[r]
            \/ pc[r] = "fill_list" /\ d = data[r].note

(* A copy is never newer than the row, and two copies of one version are   *)
(* equal: however old what a reader is shown, it is what the note was at   *)
(* one instant and never a mixture (notes.py:113-176, 216-245).            *)
CopiesWhole ==
    \A d, e \in Notes : IsCopy(d) /\ IsCopy(e) =>
        /\ d.version <= note.version
        /\ d.version = e.version => d = e

(* A step that leaves the row alone makes no copy but of what is there.    *)
LEMMA CopiesKept ==
    ASSUME CopiesWhole, note' = note, \A d : IsCopy(d)' => IsCopy(d)
    PROVE  CopiesWhole'
BY DEF CopiesWhole

(* A commit makes one copy, the new row, and numbers it past all others.   *)
LEMMA CopiesCommitted ==
    ASSUME TypeOK, CopiesWhole, note' \in Notes, note'.version > note.version,
           \A d : IsCopy(d)' => d = note' \/ IsCopy(d)
    PROVE  CopiesWhole'
<1>1. \A d \in Notes : IsCopy(d) => d.version < note'.version
  BY DEF CopiesWhole, TypeOK, Notes
<1>2. \A d \in Notes : IsCopy(d)' => d.version <= note'.version
  BY <1>1 DEF Notes
<1>3. \A d, e \in Notes : IsCopy(d)' /\ IsCopy(e)' /\ d.version = e.version => d = e
  BY <1>1 DEF CopiesWhole, Notes
<1> QED
  BY <1>2, <1>3 DEF CopiesWhole

(* Steps that store nothing, and take on nothing but copies.               *)
LEMMA CopiesFrame ==
    ASSUME TypeOK, NEW r \in Request, UNCHANGED <<note, detail, list>>,
           \A s \in Request \ {r} : pc'[s] = pc[s] /\ data'[s] = data[s],
           pc'[r] \in {"check_hit", "check_miss", "fill_detail"} =>
               data'[r] = None \/ IsCopy(data'[r]),
           pc'[r] = "fill_list" => data'[r].note = None \/ IsCopy(data'[r].note)
    PROVE  \A d : IsCopy(d)' => IsCopy(d)
BY DEF IsCopy, CachedLists

(* ... and those that also store what they hold, or drop entries.          *)
LEMMA CopiesStored ==
    ASSUME TypeOK, NEW r \in Request, note' = note, End(r, "served"),
           \/ pc[r] = "fill_detail" /\ detail' = data[r] /\ list' = list
           \/ pc[r] = "fill_list" /\ list' = [list EXCEPT ![who[r]] = data[r]]
                 /\ detail' = detail
    PROVE  \A d : IsCopy(d)' => IsCopy(d)
<1>1. \A s \in Request : pc'[s] # "served" => pc'[s] = pc[s] /\ data'[s] = data[s]
  BY DEF End, TypeOK
<1>2. \A d : (\E s \in Request :
                 \/ pc'[s] \in {"check_hit", "check_miss", "fill_detail"} /\ d = data'[s]
                 \/ pc'[s] = "fill_list" /\ d = data'[s].note)
             /\ d # None => IsCopy(d)
  BY <1>1 DEF IsCopy
<1>3. \A d : d = detail' /\ d # None => IsCopy(d)
  BY DEF IsCopy
<1>4. \A u \in User : list'[u] # None => IsCopy(list'[u].note) \/ list'[u].note = None
  BY DEF IsCopy, CachedLists, TypeOK
<1> QED
  BY <1>2, <1>3, <1>4 DEF IsCopy, CachedLists

LEMMA CopiesDropped ==
    ASSUME UNCHANGED <<note, pc, data>>, detail' \in {detail, None},
           \A u \in User : list'[u] \in {list[u], None}
    PROVE  \A d : IsCopy(d)' => IsCopy(d)
BY DEF IsCopy, CachedLists

Unborn == note.state = "none" => note.version = 0

LEMMA CopiesStep ==
    TypeOK /\ DataOK /\ Unborn /\ CopiesWhole /\ [Next]_vars => Unborn' /\ CopiesWhole'
<1> SUFFICES ASSUME TypeOK, DataOK, Unborn, CopiesWhole, [Next]_vars
             PROVE  Unborn' /\ CopiesWhole'
  OBVIOUS
<1> USE DEF database, cache, local
<1>1. ASSUME NEW r \in Request, CommitUpdate(r) \/ CommitDelete(r) \/ CommitCreate(r)
      PROVE  Unborn' /\ CopiesWhole'
  <2>1. /\ note' \in Notes /\ note'.version = note.version + 1 /\ note'.state # "none"
        /\ UNCHANGED <<detail, list, data>>
        /\ \E next \in {"del_detail", "scan"} : Goto(r, next)
    BY <1>1 DEF CommitUpdate, CommitDelete, CommitCreate, Bumped, AfterDelete,
       TypeOK, DataOK, Unborn, Notes
  <2>2. \A d : IsCopy(d)' => d = note' \/ IsCopy(d)
    BY <2>1 DEF IsCopy, CachedLists, Goto, TypeOK
  <2> QED
    BY <2>1, <2>2, CopiesCommitted DEF Unborn, TypeOK, Notes
<1>2. ASSUME NEW r \in Request, CommitRestore(r) PROVE Unborn' /\ CopiesWhole'
  <2>1. /\ note' \in Notes /\ note'.version = note.version + 1 /\ note'.state # "none"
        /\ UNCHANGED <<detail, list>>
        /\ \A s \in Request : pc'[s] # "answered" => pc'[s] = pc[s] /\ data'[s] = data[s]
    BY <1>2 DEF CommitRestore, Bumped, End, TypeOK, Notes
  <2>2. \A d : IsCopy(d)' => d = note' \/ IsCopy(d)
    BY <2>1 DEF IsCopy, CachedLists
  <2> QED
    BY <2>1, <2>2, CopiesCommitted DEF Unborn, TypeOK, Notes
<1>3. note' = note => Unborn'
  BY DEF Unborn
<1>4. ASSUME NEW r \in Request, Arrive(r), ~CreateStart(r) PROVE Unborn' /\ CopiesWhole'
  <2>1. /\ UNCHANGED <<note, detail, list>>
        /\ \A s \in Request \ {r} : pc'[s] = pc[s] /\ data'[s] = data[s]
        /\ pc'[r] \in {"check_hit", "check_miss", "fill_detail"} => data'[r] = detail
        /\ pc'[r] # "fill_list"
    BY <1>4 DEF Arrive, GetHit, GetMiss, ListHit, ListMiss, UpdateStart, DeleteStart,
       RestoreStart, ShareStart, UnshareStart, Begin, TypeOK
  <2>2. detail = None \/ IsCopy(detail)
    BY DEF IsCopy
  <2> QED
    BY <1>3, <2>1, <2>2, CopiesFrame, CopiesKept
<1>5. ASSUME NEW r \in Request, CreateStart(r) PROVE Unborn' /\ CopiesWhole'
  <2>1. /\ UNCHANGED <<note, detail, list>> /\ pc'[r] = "create"
        /\ \A s \in Request \ {r} : pc'[s] = pc[s] /\ data'[s] = data[s]
    BY <1>5 DEF CreateStart, Begin, TypeOK
  <2> QED
    BY <1>3, <2>1, CopiesFrame, CopiesKept
<1>6. ASSUME NEW r \in Request, ReadNote(r) PROVE Unborn' /\ CopiesWhole'
  <2>1. /\ UNCHANGED <<note, detail, list>>
        /\ \A s \in Request \ {r} : pc'[s] = pc[s] /\ data'[s] = data[s]
        /\ \/ pc'[r] = "check_miss" /\ data'[r] = note
           \/ pc'[r] = "denied"
    BY <1>6 DEF ReadNote, Goto, End, TypeOK
  <2>2. note = None \/ IsCopy(note)
    BY DEF IsCopy
  <2> QED
    BY <1>3, <2>1, <2>2, CopiesFrame, CopiesKept
<1>7. ASSUME NEW r \in Request, CheckMiss(r) PROVE Unborn' /\ CopiesWhole'
  <2>1. /\ UNCHANGED <<note, detail, list>>
        /\ \A s \in Request \ {r} : pc'[s] = pc[s] /\ data'[s] = data[s]
        /\ \/ pc'[r] = "fill_detail" /\ data'[r] = data[r]
           \/ pc'[r] = "denied"
    BY <1>7 DEF CheckMiss, Goto, End, TypeOK
  <2>2. data[r] = None \/ IsCopy(data[r])
    BY <1>7 DEF CheckMiss, IsCopy
  <2> QED
    BY <1>3, <2>1, <2>2, CopiesFrame, CopiesKept
<1>8. ASSUME NEW r \in Request, Query(r) PROVE Unborn' /\ CopiesWhole'
  <2>1. /\ UNCHANGED <<note, detail, list>> /\ pc'[r] = "fill_list"
        /\ \A s \in Request \ {r} : pc'[s] = pc[s] /\ data'[s] = data[s]
        /\ data'[r].note \in {note, None}
    BY <1>8 DEF Query, Goto, TypeOK, Listing
  <2>2. note = None \/ IsCopy(note)
    BY DEF IsCopy
  <2> QED
    BY <1>3, <2>1, <2>2, CopiesFrame, CopiesKept
<1>9. ASSUME NEW r \in Request, FillDetail(r) \/ FillList(r)
      PROVE  Unborn' /\ CopiesWhole'
  <2>1. note' = note /\ End(r, "served")
    BY <1>9 DEF FillDetail, FillList
  <2>2. CASE UNCHANGED <<detail, list>>
    <3>1. pc'[r] = "served" /\ \A s \in Request \ {r} : pc'[s] = pc[s] /\ data'[s] = data[s]
      BY <2>1 DEF End, TypeOK
    <3> QED
      BY <1>3, <2>1, <2>2, <3>1, CopiesFrame, CopiesKept
  <2>3. CASE ~UNCHANGED <<detail, list>>
    BY <1>3, <1>9, <2>1, <2>3, CopiesStored, CopiesKept
       DEF FillDetail, FillList, cache_set_detail, cache_set_list, Swallowed
  <2> QED
    BY <2>2, <2>3
<1>10. ASSUME NEW r \in Request,
              \/ CheckHit(r) \/ SharedIds(r) \/ CommitShare(r) \/ CommitUnshare(r)
              \/ ScanStart(r) \/ ScanEnd(r) \/ Fail(r)
       PROVE  Unborn' /\ CopiesWhole'
  <2>1. /\ UNCHANGED <<note, detail, list>>
        /\ \A s \in Request \ {r} : pc'[s] = pc[s] /\ data'[s] = data[s]
        /\ pc'[r] \in {"served", "denied", "query", "scan", "failed", "scanning", "answered"}
    BY <1>10 DEF CheckHit, SharedIds, CommitShare, CommitUnshare, AfterUnshare, ScanStart,
       ScanEnd, Fail, Goto, End, Swallowed, TypeOK
  <2> QED
    BY <1>3, <2>1, CopiesFrame, CopiesKept
<1>11. ASSUME NEW r \in Request, DelDetail(r) PROVE Unborn' /\ CopiesWhole'
  <2>1. /\ UNCHANGED <<note, list, data>> /\ detail' \in {detail, None}
        /\ pc[r] = "del_detail" /\ pc' = [pc EXCEPT ![r] = "scan"]
    BY <1>11 DEF DelDetail, Goto, cache_delete_detail, Swallowed
  <2>2. \A d : IsCopy(d)' => IsCopy(d)
    BY <2>1 DEF IsCopy, CachedLists, TypeOK
  <2> QED
    BY <1>3, <2>1, <2>2, CopiesKept
<1>12. ASSUME UNCHANGED <<note, pc, data>>, detail' \in {detail, None},
              \A u \in User : list'[u] \in {list[u], None}
       PROVE  Unborn' /\ CopiesWhole'
  BY <1>3, <1>12, CopiesDropped, CopiesKept
<1>13. ASSUME NEW r \in Request, ScanDelete(r) PROVE Unborn' /\ CopiesWhole'
  BY <1>12, <1>13 DEF ScanDelete, DeleteLists
<1>14. ASSUME NEW u \in User, ExpireList(u) \/ change_user_role(u)
       PROVE  Unborn' /\ CopiesWhole'
  BY <1>12, <1>14 DEF ExpireList, change_user_role, DeleteLists
<1>15. ASSUME ExpireDetail PROVE Unborn' /\ CopiesWhole'
  BY <1>12, <1>15 DEF ExpireDetail, cache_delete_detail
<1>16. CASE UNCHANGED vars
  BY <1>12, <1>16 DEF vars
<1> QED
  BY <1>1, <1>2, <1>4, <1>5, <1>6, <1>7, <1>8, <1>9, <1>10, <1>11, <1>13, <1>14,
     <1>15, <1>16 DEF Next, Step

(* However readers, writers, failures and crashes interleave, no copy of   *)
(* the note is one it never was.                                           *)
THEOREM CopiesAlwaysWhole == Spec => []CopiesWhole
<1>1. Init => Unborn /\ CopiesWhole
  <2> SUFFICES ASSUME Init PROVE Unborn /\ CopiesWhole
    OBVIOUS
  <2>1. note.version = 0 /\ note \in Notes
    BY DEF Init, Notes
  <2>2. \A d : IsCopy(d) => d = note
    BY DEF IsCopy, CachedLists, Init
  <2> QED
    BY <2>1, <2>2 DEF Unborn, CopiesWhole
<1>2. TypeOK /\ DataOK /\ (Unborn /\ CopiesWhole) /\ [Next]_vars => (Unborn /\ CopiesWhole)'
  BY CopiesStep
<1> QED
  BY <1>1, <1>2, TypeCorrect, PTL DEF Spec
=============================================================================
