# CloudNotes: specifications and proofs

TLA+ models of the CloudNotes backend (`src/backend/app`) and of its React client
(`src/frontend/src`), the TLC instances that check them and the TLAPS proofs about them. CloudNotes is a FastAPI
application over PostgreSQL and Redis: accounts with login sessions, notes with
visibility and sharing, a cache in front of the notes, attachments on disk, an
audit log, three scheduled jobs, and a single-page client.

## 1. The system

### How requests run

Every endpoint but `upload_attachment` is a plain `def`, so FastAPI runs it on a
thread of its worker pool: **requests interleave at every blocking call**. Each
request has one SQLAlchemy session (`database.py:21`) at PostgreSQL's default
isolation, READ COMMITTED: a query sees what is committed when it runs, an ORM
`UPDATE` names only the row's primary key, and a handler that commits twice is two
transactions. Nothing takes a row lock, an advisory lock or a Redis lock. Redis
calls are separate from the transactions. `APScheduler` runs the jobs in the same
process, on threads of their own. A process may die between any two of these steps.

That is what makes this code hard to test: the tests run one request at a time, on
one thread, with a fake Redis that never fails.

### Components

| Component | State it keeps | Operations | Hard behaviour | What makes it correct |
|---|---|---|---|---|
| Login sessions (`auth.py`, `users.py`, `dependencies.py`) | `users.password_hash`, `is_active`, rows of `refresh_tokens`, Redis `pwd_reset:*` | login, refresh (rotation, reuse detection), logout, list/revoke sessions, change, forget and reset the password, suspend | several commits per request; two requests with one token; crash between commits; rows purged while held | a change of password ends older sessions; one session per token; a replay ends the family; one reset per token; no user can end another's session |
| Notes and cache (`notes.py`, `cache.py`) | row of `notes`, Redis `notes:detail:*`, `notes:list:*` | create, get, list, update, delete, restore | cache filled after the row was read; SCAN in batches; swallowed Redis errors | cached data differ from the row only for reasons one can name, and not for ever; no access through the cache that the row denies |
| Shares with users (`sharing.py`) | rows of `note_shares` | share, revoke | two writers meet the unique constraint; listings of the recipient | a revoked recipient loses access |
| Share links (`sharing.py`, hourly job) | rows of `share_links` | create (replacing), revoke, use, expire | UPDATE then INSERT in two overlapping requests | one active link; a revoked link stays dead |
| Scheduler (`scheduler.py`) | - | delete notes 30 days in the trash, purge tokens, expire links | foreign keys of a bulk DELETE; races with handlers | what is due is eventually done |
| Attachments (`attachments.py`, `storage.py`) | rows of `attachments`, files in one directory per note | upload, list, delete | file and row written by separate steps; directory removed under an upload | every row has its file |
| Administration (`admin.py`) | `users.role`, `is_active` | suspend, reinstate, change role, restore a note | two administrators acting at once | somebody is left who can administer |
| Registration, verification (`auth.py`, `email.py`) | `users`, `email_verifications` | register, verify, resend | two resends at once | an account is verified with its own newest token |
| Audit log (`audit.py`) | rows of `audit_logs` | `log_action` in the caller's transaction | commits that do not include it; a "before" read earlier than the commit; an UPDATE that leaves out the columns it thinks unchanged | the row is there exactly when the change is, and the rows of a note fit together and fit the note |
| Frontend (`App.jsx`, `api/`, `components/`) | `token` and `userEmail` in localStorage, shared by all tabs; per tab the user shown, the notes, the note being edited, the error | log in, log out, reload, list, create, update, delete | answers in any order, after a logout or not at all; a 401 for an old call; tabs that do not see each other's logins | a tab acts on and shows the account it names; it ends up showing its own changes |
| Rate limiter, tags, schemas, middleware, migrations | counters in Redis; none | - | - | - |

Handlers call `get_current_user` first, which reads `users`; they share the
database and Redis and nothing else. A restore and a role change (`admin.py`)
change what `notes.py` answers without going through its cache; the purge job
deletes rows of `auth.py` that a request may hold. The client uses the login and
registration endpoints and those of `notes.py`. It keeps the access token only: it
neither refreshes it nor calls `/auth/logout`, so an expired token ends its login.

## 2. Modules

| Module | What it is |
|---|---|
| `Sessions` | login sessions, password changes and reset tokens, token expiry and purge |
| `SessionsInv` | the strengthening that makes its invariants inductive |
| `SessionsProofs` | its theorems |
| `SessionTable` | abstract specification: sessions as a table on which every request is one step |
| `SessionsRefinement` | the refinement mappings from `Sessions` to `SessionTable`, for one thread and for many |
| `SessionsRefinementProofs` | the proofs that they are |
| `NoteCache` | one note, its shares, roles, and the cached detail and listings |
| `NoteCacheProofs` | its theorems |
| `NoteEdits` | the columns of one note, its deletion and restore, and its audit rows |
| `NoteEditsProofs` | its theorems |
| `Retention` | the trash, shares, share links, attachments with their files, the nightly and the hourly job |
| `RetentionProofs` | its theorems |
| `NoteShelf` | abstract specification: notes, what hangs off them and the trash, every request one step |
| `RetentionRefinement` | the refinement mapping from `Retention` to `NoteShelf` |
| `RetentionRefinementProofs` | the proof that it is one, and what follows for one thread and for an idle system |
| `Accounts` | registration, e-mail verification, suspension, roles, deactivation |
| `AccountsProofs` | its theorems |
| `Frontend` | the tabs of one browser, their localStorage and their calls of `/notes` |
| `FrontendProofs` | its theorems |
| `MCSessions`, `MCNoteCache`, `MCNoteEdits`, `MCRetention`, `MCAccounts`, `MCFrontend` | symmetry sets for TLC; the constants are in the `.cfg` files |

The models of the backend have the same shape. `Request` is a finite set of HTTP requests, each
made at most once; `pc[r]` is what the handler of `r` does next. **One action is
what a handler does up to and including one commit, one Redis call or one call to the
file system.** An action
whose guard is `pc[r] = "idle"` is the arrival of a request: it makes the checks the
handler makes first, and a request that the handler turns away without changing
anything is not represented. `Workers` bounds the requests in flight, so
`Workers = 1` is the system as the tests see it. `Faults` allows a handler to die at
any step (`Fail`) and, in `NoteCache`, any Redis call to fail.

**`Sessions`.** A token is named by the request that created it, so `row[r]` is the
`refresh_tokens` row request `r` inserted and `reset_key[r]` the Redis key it set.
`password[u]` is a version number: a change installs the next one, even when the
same words are chosen. `cred[r]` is the version a session descends from: login
verifies it, a refresh inherits it. Two history variables record what the
properties are about: `changed` (the requests that committed a new password) and
`missed` (the requests that were between their credential check and their INSERT
while `_revoke_all_refresh_tokens` ran for their user, and what was later rotated
out of them). An access token lives at most as long as the refresh token it came
with; `get_current_user` lets it be used until then, which allows more than the 15
minutes of the code and never less. A query that updates and its commit are one
step.

**`SessionTable` and `SessionsRefinement`.** What a client may think the endpoints do:
a session is opened with a password its user has had, handed over with its owner and that
password by a refresh, and ended by its user, a replay, the expiry job or a change of
password, in one step each, and never opened twice; `from` records what it was exchanged
for. The constant `Serial` adds what holds
only one request at a time: the password is the current one, a token is exchanged while its
session is open, so once, a change of password ends all sessions of its user in the same
step. Without it the exchanged session has ended before, but two may have been exchanged
for it.
There are two mappings. `Table` (`Serial`) is for one thread and no crash: a session counts
as open from the commit that retires its parent (or from the login's audit commit), after
which only its own INSERT follows, and as ended from the commit of the new password, while
the deletion of the reset key and the revoking UPDATE follow. `Rows` (not `Serial`) is for
any number of threads and any crash: a session is open while its row is live, a change of
password is a step and the UPDATE that revokes is another, or never comes.

**`NoteCache`.** One note is enough: writes to another note only delete listings,
which `ExpireList` does as well, and its entries in a listing are independent. One
key per user stands for the listings of that user that differ in paging and order.
`share[u]` is the permission a `note_shares` row grants, `grant[u]` the identity of
that row, so that a commit which finds the row gone, or another in its place, fails as
PostgreSQL and SQLAlchemy make it fail. `late` and `skipped` are history: the keys
whose entry was already out of date when it was written, and the keys whose entry no
writer is going to delete any more. A deletion by pattern is a SCAN that must return
the keys present from its start to its end and may return others, batch by batch.

**`NoteEdits`.** The same handlers seen from the row instead of the cache. A request loads
the row (`seen`), sets the columns its body names (`want`) and commits them with an audit
row; nothing locks the row in between, so `raced` remembers who held a copy while another
request committed. The UPDATE names the columns whose new value differs from the *loaded*
one (`Written`), so a column that is set to what was loaded keeps what somebody else
committed meanwhile. A `null` passes `NoteUpdate` and fails the commit. `log` holds the
requests whose audit row was committed: `want[log[i]]` is the row's "after" and
`seen[log[i]]` its "before".

**`Retention`.** A share, a link, an attachment row and its file are named by the request
that made them (`r \in share`, `link[r]`, `r \in att`, `r \in file`), `on[r]` is the note the request is
about, and `note[n]` follows `deleted_at`: live, in the trash, there for 30 days
("old"), deleted for good. `create_share_link` runs an UPDATE and commits it with its
INSERT, so `ReplaceLinks` notes the links it found (`hits`) and `InsertLink` makes both
visible; the history variable `blind` keeps the creations that were uncommitted at that
UPDATE. Uploads and deletions touch disk and database in separate steps, one for each call
of `storage.py`: `mkdir` and the write, `exists`, `unlink` and `rmdir`. A write whose
directory is gone and an `unlink` whose file is gone raise, `rmdir` works on an empty
directory only, and a crash may leave an empty one. `share_note_with_user` keeps the row its
query found for the user (`ref[r]`, or none) and inserts or updates by it, whatever became of
the row meanwhile; which user it is stays open here (`NoteCache` has the users). The foreign
keys of `note_shares`, `share_links` and `attachments` are the guard of `hard_delete_old_notes`, which deletes all due notes or none.
Uploads run on the event loop, where nothing interleaves them with one another after
the body was read; the model lets them interleave, which allows more. Time passes for
a whole 30 days only when no request is in flight (`Age`).

**`NoteShelf` and `RetentionRefinement`.** What a user may think of notes, attachments,
shares and links: every request takes effect at one instant or not at all. An attachment is on the
shelf while its row is listed *and* its file is there (`Available`), so an upload takes
effect with the commit of its row and a deletion with its unlink, although the row is
listed for one more commit; the directories and the half-done work of handlers that died
are invisible. A revoked link stays revoked, the hourly job takes all overdue links, the
nightly job all due notes, which must be empty, or none. `Serial` is `Workers = 1`: then a
note in the trash is left alone and a new link replaces *all* active ones; otherwise a
request that found its note live may still take effect after the note went to the trash,
and a new link may leave others standing.

**`Accounts`.** Four sets of users follow the columns of `users`: `registered` (there is
a row), `active`, `verified`, `admins`. `token[r]` is the `email_verifications` row that
request `r` inserted, `sent` the tokens whose mail went out. `_issue_verification` is an
UPDATE and an INSERT in one transaction, modelled like the link creation of `Retention`
(`hits`, `blind`). The setting `AUTO_VERIFY_EMAILS` is chosen once, in the initial state.
The first administrators are set up in the database by hand (no code does it): `Admin`.
Administrative handlers check `require_admin` and the state of the user concerned when
they start and commit later; a role change that finds the role it wants writes nothing
but an audit row and is not represented.

**`Frontend`.** A step is what a click or an answer does up to the next await. `Request` is a
set of numbers in the order of the calls. `call[r]` is how `r` was sent: its tab, the
token found in localStorage, and the user the tab was showing. Of the backend a version
number per account is enough: a change raises it and a listing carries the one it was
served at, so `served[q] >= served[c]` says that listing `q` shows change `c`. `notes[t]`
and `editNote[t]` name the listing the notes came from. An answer is handled by its tab
in any order, late or never (`Lost`), until a reload drops it. A refusal is `missing`
(the request carried no token: the client shows the message) or `invalid` (the client
logs out). Waiting in the login form is left out: nothing else can be clicked there, so
a login happens when its answer arrives. The history variables say what may go wrong:
`switched` (another tab changed the login under this one), `past` (calls of an earlier
login of their tab), `late` (those of them that were shown nevertheless), `overtaken`
(listings that a later listing outran).

## 3. Runs

| Run | Instance | Shows |
|---|---|---|
| `Sessions_concurrent` | 4 requests, 2 users, 2 threads, faults | what rotation, revocation and audit guarantee under every interleaving and crash; the rows implement the non-serial `SessionTable` |
| `Sessions_sequential` | 4 requests, 1 user, 1 thread, fairness | the documented promises, without exception; the handlers implement `SessionTable`; a change takes effect; expired rows are purged |
| `Sessions_stale` (violated) | 4 requests, 2 threads | a login overlapping a password change survives it |
| `Sessions_reset_twice` (violated) | 4 requests, 2 threads | two resets with one token |
| `NoteCache_concurrent` | 2 requests, 2 users, 2 threads, faults, fairness | every reason for a stale entry; no key is stale for good |
| `NoteCache_sequential` | 4 requests, 2 users, 1 thread | the cached note is the row; listings and hits show what may be read |
| `NoteCache_revoked` (violated) | 3 requests, 2 threads | a listing stored after the revocation it should reflect |
| `Retention_concurrent` | 3 requests, 2 notes, 3 threads, faults, fairness | rows, files, directories, shares and links under every overlap and failure; the handlers implement `NoteShelf`; the jobs do their work |
| `Retention_blocked` (violated) | 2 requests, 1 note, fairness | a note that had a link is never purged |
| `Accounts_concurrent` | 4 requests, 2 administrators and 1 address, 2 threads, faults | one account per address, tokens that keep working, and how the last administrator can be lost |
| `NoteEdits_concurrent` | 4 requests, 2 columns of 2 values, 3 threads, faults | the audit log and the trash of a note under overlapping changes |
| `Frontend_concurrent` | 2 tabs, 2 users, 2 tokens, 3 calls, faults | what tabs show and send, whatever the order of the answers, logins, logouts and reloads |

**Bounds.** Requests bound everything: tokens, keys, commits and versions, so no
state constraint is needed. Two threads are enough for every pairwise race, and no
handler does anything that depends on how many others run. Four requests allow a
login, a refresh, a replay and a change, or two logins, a forgotten password and a
reset; with one thread four are also the longest chains the sequential properties need
(a login, two refreshes and a replay; a forgotten password and two resets). In `NoteCache`
the note may exist from the start, so two requests are a reader that fills late and the
writer it races with, three (`NoteCache_revoked`) or four (`NoteCache_sequential`) also the
reader that is misled; `EveryStaleEntryExplained` has no bound. The owner and one other user have every relation to the
note (owner, administrator, recipient, stranger), since shares and roles change.
Three requests in
`Retention` allow an upload, its deletion and an upload into the directory being
removed, an attachment that two requests delete at once, a share that one request updates
while another withdraws it, or two overlapping link creations and a deletion of the note; two
notes, because one DELETE serves all. In `Accounts` two administrators can suspend each other, and
four requests register an address twice, resend and verify. Four requests in `NoteEdits` are
two updates and a deletion that overlap, and a restore. Three calls in `Frontend` are a
listing that is still under way when the next login makes its own, and a change with the
listing it asks for; two tabs, users and tokens let one tab replace the other's login. The
properties were also checked once with four calls, for one tab with faults and for two tabs without.
Requests are interchangeable, and so are users (but the owner), so the runs that
check invariants and action properties use symmetry; the liveness runs do not. The
theorems of section 4 hold for any number of requests, users and threads. When all
requests have been made the clock, the suspension of accounts, role changes and
cache expiry can still go on, so no run of `Sessions` or `NoteCache` ever deadlocks, and deadlock is checked.
`Retention`, `Accounts`, `NoteEdits` and `Frontend` do stop (every request answered, every link and token
expired, every note purged or blocked), so their runs do not check deadlock; what must
not be left undone in `Retention` is stated by its liveness properties.

**Fairness.** `FairSpec` assumes weak fairness of each handler's next step (a thread
that runs is scheduled; every call has a time-out, or the request fails), of the
jobs (cron and interval triggers) and of the expiry of Redis keys (every `SETEX` has a TTL).
Nothing makes a client send a request, a password be changed or an account be
suspended. With faults enabled a handler may die at any step, so the step's
fairness promises nothing about requests that died; `ChangeTakesEffect` is therefore
checked without faults, `StaleEnds` with. `NoteEdits` and `Frontend` have safety
properties only: nobody retries a call that was lost, and a tab whose call never returns
waits for ever, in the code as in the model.

### Findings

1. `Sessions_stale`: a login (or refresh) that has verified the old password
   before the change inserts its session after the change has revoked the others.
   The session, opened with the old password, stays active. `OldSessionsOnlyByRace`
   says this is the only way.
2. `Sessions_reset_twice`: two requests with one reset token both read the key
   before either deletes it. A crash between the commit and the deletion has the
   same effect; without overlap and crash it cannot happen (proved).
3. `NoteCache_revoked`: a listing computed before a share was revoked is stored
   after the revocation deleted the listings, and shows the note until its TTL ends.
4. `Retention_blocked`: the nightly job deletes from `notes` only and the foreign keys
   have no ON DELETE, so a note that ever had a share link (even a revoked one), a share
   or an attachment fails the DELETE every night, with all the other due notes.
   `UnblockedTrashPurged` says that nothing else keeps a note in the trash.

`suspend_user` promises that it "prevents accidental lockout" (`admin.py:175`). Two
administrators who suspend each other at once do lock everybody out, and so does the
last one who demotes or deactivates himself; `LockoutExplained` says that these are
the only ways.

The same races break two more promises, which the sequential run checks and the
concurrent run weakens: two overlapping refreshes can exchange one token twice
(`ConsumedOnce`), and a replay refused while the first exchange is still issuing
leaves its session alive (`ReuseEndsFamily`; `ReplacementsOnlyByRace` says that it
is the only way). And with two threads a late fill lets `get_note` judge a reader by
a visibility that is no longer the note's (`HitAuthorised` holds for one thread only).

`AuditFaithful`, `TrashUntouched`, `RightAccount`, `ShownExplained` and `OwnChangesShown` name
their exceptions, and the exceptions are real: an update that loaded a note before it was
deleted edits it in the trash, its audit row shows a "before" that was not the row's; a
listing answered after a logout shows the last user's notes to the next one; a tab sends
the token another tab has put into localStorage; an old listing that comes last hides a
change until the next one.

## 4. Proofs

All theorems are proved for arbitrary finite sets of requests (in `Frontend`: any set of
numbers) and arbitrary sets of users, notes, columns, tabs and tokens. The assumptions are those of the modules: the set of requests is finite,
`None` is no request, user or note, `Null` is no value of a column, at least one thread.

**Sessions.** The invariants are not inductive: that a refresh's parent is retired
when the row is inserted rests on its having been retired one commit earlier, that
no older session survives a change rests on what requests about to insert one hold.
`IInv` (module `SessionsInv`) adds

- `Linked`: which handler is at which step, and whose token it was presented with;
- `Consumed`: a token is retired from the moment `/refresh` has rotated it or read
  it as revoked, so from before the new row exists;
- `Changing`, `Recent`: `OldSessionsOnlyByRace` for rows *and* for requests that are
  still going to insert one;
- `Replaced`: the same for the sessions a replayed token was exchanged for;
- `Audited`: the audit row is there from the step before the session's INSERT.

`IInvStep` proves that each action keeps it. From `[]IInv` follow `TypeCorrect`,
`RotationRetires`, `PasswordChangeRevokes`, `ReplayRevokes`, `AuditCompleteAlways`
and the action property `UsersIsolated`: under any interleaving and any crash.
With one thread, `OneAtATime` (no two requests in flight, so nothing is missed) is
also invariant, which turns the weak forms into the documented ones
(`NoStaleSessionOneAtATime`, `ConsumedOnceOneAtATime`, `ReuseEndsFamilyOneAtATime`),
crashes included; `ResetTokenOneAtATime` also needs that no handler dies, because
the key is deleted after the commit.

**Session table.** `Implementation` (`Workers = 1`, no faults) proves that the initial state of
`Sessions` maps to that of the serial `SessionTable` and every step to a step of it or a stutter. The
step part needs, besides `IInv` and `OneAtATime`, `Presented`: what the one request in flight
has verified or read is still so when it commits, but for the purge. A
login's INSERT, the deletion of a reset key and the revoking UPDATE after a change
stutter; the commit of a new password is the table's `ChangePassword`.
`RowsImplementation` has no assumption: with any number of threads and crashes at every
step the rows implement the table without `Serial`; so no session is usable next to one it was
exchanged for, and what has ended stays so. It needs `Credentials`: a refresh holds
the password version of the token it was presented with, nobody holds one from the future.

**NoteCache.** `StaleExplained` is inductive together with `TypeOK` and `DataOK`
(what a handler holds at the steps that store or commit). A step that leaves the
database and the cache alone and ends no pending deletion keeps it
(`StaleFrame`); a commit to shares only is followed by a scan (`SharesCovered`); a
store makes an entry stale only by marking it `late`. `DetailFreshOneAtATime` adds
`OneAtATime`: with one thread and no failure what a reader read is still the row
when it is stored, and a note about to be restored is not cached, so that not even a
restore, which invalidates nothing, makes the detail key stale.
`ListsReadableOneAtATime` and `HitAuthorisedOneAtATime` add `Held` (what the one request in
flight has read is still so) and `ListsSound`: a cached listing shows nothing, or the note as
it is to somebody whom the note, or the role the listing was made for, lets read it, unless
its deletion is pending. `ListsSound` says nothing of the user's present role, because roles
change while a listing is cached and nothing invalidates it.

`CopiesAlwaysWhole` is about any number of threads and every failure: whatever is cached, or
held by a reader that is about to judge, serve or store it, is no newer than the row, and
two copies of one version are equal. So a reader may be shown an old note, never one that
was not. It is inductive with `Unborn` (no version before the note is created): a commit
numbers the row past every copy there is, and every other step copies what is there.

**Retention.** `IInv` (in `RetentionProofs`) adds to the properties what a handler in
flight relies on (`DataOK`: its note is not being purged, the attachment it deletes
was uploaded), that a file is on disk while its row is being inserted and gone once its
deletion has come to `rmdir` (`FilesInv`), and the race property for creations that have
not committed yet (`LinksInv`: an active link of the note is among those the creation
will revoke, or one of the two was uncommitted at the UPDATE of the other). Each part
is preserved action by action; `NoOrphanRows`, `RowsHaveFiles`, `FilesHaveRows`, `FilesAlwaysReachable`, `OneLinkButForRaces`
and the action property `PurgeIsFinal` follow, with failures at every step.

**Note shelf.** `Implementation` (in `RetentionRefinementProofs`) proves, for any number of
threads and with failures at every step, that every step of `Retention` is one of `NoteShelf`
or a stutter. It rests on `IInv` and on `ShelfInv`: the links a creation is going to revoke
are of its own note (`OwnHits`), and with one thread they are all that are active and the
note is still live (`Undisturbed`). `OneActiveLinkOneAtATime` is what `ShelfInv` says of links.
`AttachmentsConsistentAtRest` needs no bound on threads, but that no handler dies: a handler
that fails by itself (an upload whose directory was removed under it, a deletion whose file
another one unlinked, a share that another request made or withdrew, a restore that finds its
note purged) leaves neither row nor file, and a file that is missing is one whose deletion
goes on (`CleanFailures`), so an idle system has exactly
one file for each row. In `NoteShelf` a note that is gone has no transition out, so
`ImplementsShelf` contains `GoneForGood`.

**Accounts.** The same argument: `DataOK` for what a handler in flight relies on,
`TokensInv` for issues that have not committed yet, and each property inductive with
them. The working token survives a crash because the UPDATE and the INSERT commit
together (the mutant of `WorkingToken` separates them). `LockoutOnlyAsExplained` splits
on the three commits that can remove an administrator. With one thread, and crashes, the
exceptions go: `Alone` (one request in flight, its maker still an active administrator, its
UPDATE still up to date) gives `OneTokenOneAtATime` (no user has two unused tokens) and
`LockoutOneAtATime` (the last administrator is lost only by giving up his own role or account).

**NoteEdits.** The two properties are inductive with `TypeOK`, `Current` (whoever holds the note
and was not raced holds it as it is, and a restore is under way only on a note in the trash)
and `TrashLogged` (the newest deletion or restore in the log tells whether the note is in the
trash). `AuditTrusted` and `TrashRespected` allow overlap, and say so through `raced`;
With one thread the exception goes away, because `Begin` admits no second request (the lemma
`SerialNotRaced`), and `AuditExactOneAtATime` and `TrashExactOneAtATime` state what is left: an unbroken chain of before and after
values that ends in the note, and a trash that only restores get out of.

**Frontend.** A history variable alone proves nothing, so `IInv` (in `FrontendProofs`) ties it to
the state: `Tied`, a tab shows the address that is in localStorage, and the token there is
that user's, unless another tab has switched the login; `Sent`, a call that is not of an
earlier login was sent as the user its tab still shows; `Displayed`, the notes shown are a
listing of this tab that was answered, of the user shown unless it came late. The hard part
is `Refetched`: for every acknowledged change of the current login, each listing still under
way shows it, is already outrun, or will be outrun by a later one that does (`Awaited`), and
some listing under way shows it, or the notes shown do, or an error is displayed (`Covered`).
`Awaited` carries `Covered` over the answer to any listing: the one that arrives shows the
change, or a later one that does is still to come. `TypeCorrect`, `RightAccountAlways`,
`ShownAlwaysExplained` and `OwnChangesAlwaysShown` follow, with calls failing at will.
With a single tab (`OneTab`) nothing is ever switched: `OneTabInStep` proves that the tab shows
the user of localStorage and that every call acts on the account that was shown, and
`OneTabShown` that only what outlived its login, or was overtaken, is shown wrongly.

**Proved, and in no run:** the properties that a theorem states without a run checking them
are stronger forms of run properties on restricted instances (`OneUnusedToken`,
`LockoutOwnDoing`, `AuditExact`, `TrashExact`, `InStep`, `ShownOfAccount`, `OneActiveLink`,
`AtRestConsistent`), hold of more (`CopiesWhole`), or follow from one of them
(`ParentRetired` from `ImplementsRows`). Each was also checked with TLC, with the constants
of the module's run and the restriction the theorem names (`InStep` and `ShownOfAccount`
with one tab and four calls).

**Model-checked only:** the liveness properties (`ChangeTakesEffect`,
`ExpiredPurged`, `StaleEnds`, `UnblockedTrashPurged`): liveness under fairness, and with it
ENABLED, is out of the prover's reach, as is induction over data, which no module needs.

## 5. Not modelled, and why

- The rate limiter, tags, the middleware and logging keep no state these properties
  depend on; the limiter's counters are slowapi's. Of the schemas, `NoteUpdate` matters
  (which columns a request names, and that it lets a `null` through).
- In the frontend: the text typed into the forms, what error messages say, the password
  reset of the login form (one call that changes the backend only), and the second
  mount of React's StrictMode, which development builds have.
- The instant of expiry: a row has expired or it has not.
- JWT signatures, hashing and token generation: a token is presented or it is not.
- Searches and filtered listings: they read the database and never the cache.
- Migrations: run before the first request; of them the models carry the foreign keys
  and the unique constraints.
- Reading through a share link (`access_via_share_link`): it changes nothing.
- In `DevResetPassword` the UPDATE and its commit are one step: a login that runs
  from check to INSERT inside that transaction is not represented.

## 6. Possible extensions

1. Abstract specifications of the accounts and of the cache (a register with stale reads),
   as `SessionTable` and `NoteShelf` are of sessions and of notes.
2. Composition: sessions with accounts (a suspended user's sessions), the cache with
   the trash, the client with the cache (a listing that is older than the change it follows).
