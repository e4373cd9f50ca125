----------------------------- MODULE Frontend -----------------------------
(***************************************************************************)
(* The React client: the tabs of one browser, the localStorage they share, *)
(* and the requests they have under way (frontend/src/App.jsx, api/*.js,   *)
(* components/LoginForm.jsx, NoteForm.jsx).                                *)
(*                                                                         *)
(* Every request takes the token it finds in localStorage when it is sent. *)
(* Nothing is aborted: answers come back in any order and are handled by   *)
(* whatever the tab has become, until a reload drops them.  Handlers run   *)
(* to their next await without interruption, so an action is what a click  *)
(* or an answer does up to there.                                          *)
(*                                                                         *)
(* Of the backend, an account is a version number that each change raises, *)
(* and a listing carries the version its account had when it was served    *)
(* (when the backend's cache breaks that is the subject of NoteCache).     *)
(* The login form does nothing while it waits, so a login, after a         *)
(* registration or not, is the step in which its answer arrives.           *)
(***************************************************************************)
EXTENDS Naturals

CONSTANTS
    Tab,        \* tabs of the browser
    User,       \* e-mail addresses with an account
    Token,      \* access tokens the backend can issue
    Request,    \* calls of /notes the tabs can make, numbered as they are sent
    None,
    Faults      \* may the network or the backend fail?

ASSUME RequestAssumption == Request \subseteq Nat
ASSUME FaultsAssumption  == Faults \in BOOLEAN
ASSUME NoneAssumption    == None \notin Tab \cup User \cup Token \cup Request

VARIABLES
    token, email,   \* localStorage
    owner,          \* the user each issued token is for
    expired,        \* the tokens that have expired
    version,        \* changes made to the notes of each user
    userEmail,      \* React state of each tab: who it shows as logged in,
    notes,          \*   the listing whose notes it shows,
    editNote,       \*   the listing from which the note being edited was picked,
    error,          \*   and whether it shows an error
    call,           \* how each request was sent
    pc, result,     \* where it is, and its answer
    served,         \* the version a listing shows, or a change made
    dropped,        \* requests their tab does not wait for any more
    switched,       \* history: tabs whose login another tab has replaced
    past,           \* history: requests of an earlier login of their tab
    late,           \* history: those of them that were answered nevertheless
    overtaken       \* history: listings that a later one overtook

storage == <<token, email>>
backend == <<owner, expired, version>>
page    == <<userEmail, notes, editNote, error>>
network == <<call, pc, result, served, dropped>>
history == <<switched, past, late, overtaken>>
vars    == <<storage, backend, page, network, history>>

Changes == {"create", "update", "delete"}
Unsent  == [kind |-> "none", tab |-> None, token |-> None, shown |-> None,
            switched |-> FALSE]

Of(t)      == {r \in Request : call[r].tab = t}
Pending(t) == {r \in Of(t) : pc[r] \in {"sent", "served"}} \ dropped
Saving(t)  == \E r \in Pending(t) \ past : call[r].kind \in {"create", "update"}
Account(r) == IF call[r].token = None THEN None ELSE owner[call[r].token]

Init ==
    /\ token = None /\ email = None
    /\ owner = [k \in Token |-> None]
    /\ expired = {}
    /\ version = [u \in User |-> 0]
    /\ userEmail = [t \in Tab |-> None]
    /\ notes = [t \in Tab |-> None]
    /\ editNote = [t \in Tab |-> None]
    /\ error = [t \in Tab |-> FALSE]
    /\ call = [r \in Request |-> Unsent]
    /\ pc = [r \in Request |-> "idle"]
    /\ result = [r \in Request |-> "none"]
    /\ served = [r \in Request |-> 0]
    /\ dropped = {} /\ switched = {} /\ past = {} /\ late = {} /\ overtaken = {}

-----------------------------------------------------------------------------
(* Tab t makes the next request, as the user it displays and with the      *)
(* token k of localStorage; changed tells whether another tab has put the  *)
(* token there.                                                            *)
Call(kind, t, k, shown, changed) ==
    [kind |-> kind, tab |-> t, token |-> k, shown |-> shown, switched |-> changed]
IsNext(r) == pc[r] = "idle" /\ \A q \in Request : q < r => pc[q] # "idle"

Send(r, c) ==
    /\ IsNext(r)
    /\ call' = [call EXCEPT ![r] = c]
    /\ pc' = [pc EXCEPT ![r] = "sent"]
    /\ UNCHANGED <<result, served>>

(* LoginForm stores the token and App the address; the effect on userEmail *)
(* fetches the notes.  editNote and error keep what they had.              *)
Login(t, u, k, r) ==
    /\ userEmail[t] = None
    /\ owner[k] = None
    /\ owner' = [owner EXCEPT ![k] = u]
    /\ token' = k /\ email' = u
    /\ userEmail' = [userEmail EXCEPT ![t] = u]
    /\ switched' = {s \in Tab \ {t} : userEmail[s] \notin {None, u}}
    /\ past' = past \cup Of(t)
    /\ Send(r, Call("list", t, k, u, FALSE))
    /\ UNCHANGED <<expired, version, notes, editNote, error, dropped, late, overtaken>>

(* A reload, or a tab opened anew, forgets the React state and the         *)
(* requests under way, and takes the user from localStorage.               *)
Reload(t, r) ==
    /\ userEmail' = [userEmail EXCEPT ![t] = email]
    /\ notes' = [notes EXCEPT ![t] = None]
    /\ editNote' = [editNote EXCEPT ![t] = None]
    /\ error' = [error EXCEPT ![t] = FALSE]
    /\ dropped' = dropped \cup Pending(t)
    /\ switched' = switched \ {t}
    /\ past' = past \cup Of(t)
    /\ IF email = None
       THEN UNCHANGED <<call, pc, result, served>>
       ELSE Send(r, Call("list", t, token, email, FALSE))
    /\ UNCHANGED <<storage, backend, late, overtaken>>

LogoutKeepsEmail(t) ==                  \* mutant: removes the token only
    /\ token' = None
    /\ userEmail' = [userEmail EXCEPT ![t] = None]
    /\ notes' = [notes EXCEPT ![t] = None]
    /\ switched' = {s \in Tab \ {t} : userEmail[s] # None}
    /\ past' = past \cup Of(t)
    /\ UNCHANGED <<email, editNote>>

LogoutKeepsNotes(t) ==                  \* mutant: no setNotes([])
    /\ token' = None /\ email' = None
    /\ userEmail' = [userEmail EXCEPT ![t] = None]
    /\ switched' = {s \in Tab \ {t} : userEmail[s] # None}
    /\ past' = past \cup Of(t)
    /\ UNCHANGED <<notes, editNote>>

(* handleLogout: editNote survives, and so do the requests under way.      *)
handleLogout(t) ==
    /\ token' = None /\ email' = None
    /\ userEmail' = [userEmail EXCEPT ![t] = None]
    /\ notes' = [notes EXCEPT ![t] = None]
    /\ switched' = {s \in Tab \ {t} : userEmail[s] # None}
    /\ past' = past \cup Of(t)
    /\ UNCHANGED editNote

Logout(t) ==
    /\ userEmail[t] # None
    /\ handleLogout(t)
    /\ UNCHANGED <<backend, error, network, late, overtaken>>

-----------------------------------------------------------------------------
(* The form is for a new note or for the one being edited; its button is   *)
(* off while it saves, the notes' own buttons and Cancel are not.          *)
Change(t, kind, r) ==
    /\ userEmail[t] # None
    /\ IF kind = "delete" THEN notes[t] # None
                          ELSE ~Saving(t) /\ (kind = "update" <=> editNote[t] # None)
    /\ Send(r, Call(kind, t, token, userEmail[t], t \in switched))
    /\ UNCHANGED <<storage, backend, page, dropped, history>>

Edit(t) ==
    /\ userEmail[t] # None
    /\ notes[t] # None /\ editNote[t] # notes[t]
    /\ editNote' = [editNote EXCEPT ![t] = notes[t]]
    /\ UNCHANGED <<storage, backend, userEmail, notes, error, network, history>>

Cancel(t) ==
    /\ userEmail[t] # None
    /\ editNote[t] # None
    /\ editNote' = [editNote EXCEPT ![t] = None]
    /\ UNCHANGED <<storage, backend, userEmail, notes, error, network, history>>

-----------------------------------------------------------------------------
Expire(k) ==
    /\ owner[k] # None /\ k \notin expired
    /\ expired' = expired \cup {k}
    /\ UNCHANGED <<storage, owner, version, page, network, history>>

(* The backend handles r: it refuses a request without a token, or whose   *)
(* token has expired; otherwise it lists, or makes the change.  (A listing *)
(* nobody waits for is left alone: it changes nothing.)                    *)
Handle(r) ==
    /\ pc[r] = "sent"
    /\ r \in dropped => call[r].kind \in Changes
    /\ LET k == call[r].token
           n == version[owner[k]] + (IF call[r].kind \in Changes THEN 1 ELSE 0)
       IN  IF k # None /\ k \notin expired
           THEN /\ result' = [result EXCEPT ![r] = "ok"]
                /\ version' = [version EXCEPT ![owner[k]] = n]
                /\ served' = [served EXCEPT ![r] = n]
           ELSE /\ result' = [result EXCEPT ![r] = IF k = None THEN "missing" ELSE "invalid"]
                /\ UNCHANGED <<version, served>>
    /\ pc' = [pc EXCEPT ![r] = "served"]
    /\ UNCHANGED <<storage, owner, expired, page, call, dropped, history>>

-----------------------------------------------------------------------------
(* An answer reaches the tab, if it still waits for it.                    *)
Arrive(r, kinds, results) ==
    /\ pc[r] = "served" /\ r \notin dropped
    /\ call[r].kind \in kinds /\ result[r] \in results
    /\ pc' = [pc EXCEPT ![r] = "done"]
    /\ UNCHANGED <<call, dropped>>

(* The call fails, before the backend has done it or after.                *)
Lost(r, kinds) ==
    /\ Faults
    /\ r \in Pending(call[r].tab) /\ call[r].kind \in kinds
    /\ dropped' = dropped \cup {r}
    /\ UNCHANGED <<call, pc>>

(* The listings of the tab that were asked for earlier will come later.    *)
Overtakes(r) ==
    /\ overtaken' = overtaken \cup {q \in Pending(call[r].tab) : q < r /\ call[q].kind = "list"}
    /\ UNCHANGED <<result, served>>

(* fetchNotes: notes are shown and the error goes, a token that is refused *)
(* ends the login, any other error is shown.                               *)
Listed(r) ==
    /\ Arrive(r, {"list"}, {"ok"})
    /\ notes' = [notes EXCEPT ![call[r].tab] = r]
    /\ error' = [error EXCEPT ![call[r].tab] = FALSE]
    /\ late' = IF r \in past THEN late \cup {r} ELSE late
    /\ Overtakes(r)
    /\ UNCHANGED <<storage, backend, userEmail, editNote, switched, past>>

ListRefused(r) ==
    /\ Arrive(r, {"list"}, {"invalid"})
    /\ handleLogout(call[r].tab)
    /\ Overtakes(r)
    /\ UNCHANGED <<backend, error, late>>

ListFailed(r) ==
    /\ Arrive(r, {"list"}, {"missing"}) \/ Lost(r, {"list"})
    /\ error' = [error EXCEPT ![call[r].tab] = TRUE]
    /\ Overtakes(r)
    /\ UNCHANGED <<storage, backend, userEmail, notes, editNote, switched, past, late>>

ChangedNoFetch(r, q) ==                 \* mutant: no fetchNotes() after the change
    /\ Arrive(r, Changes, {"ok"})
    /\ UNCHANGED <<storage, backend, page, result, served, history>>

(* handleCreate, handleUpdate and handleDelete close the edit form, if     *)
(* they updated, and fetch the notes with the token that is there now.     *)
Changed(r, q) ==
    LET t == call[r].tab IN
    /\ pc[r] = "served" /\ r \notin dropped
    /\ call[r].kind \in Changes /\ result[r] = "ok"
    /\ editNote' = IF call[r].kind = "update" THEN [editNote EXCEPT ![t] = None] ELSE editNote
    /\ IsNext(q)
    /\ call' = [call EXCEPT ![q] = Call("list", t, token, userEmail[t], t \in switched)]
    /\ pc' = [pc EXCEPT ![r] = "done", ![q] = "sent"]
    /\ UNCHANGED <<storage, backend, userEmail, notes, error, result, served, dropped, history>>

(* The form shows the error, or nobody does.                               *)
ChangeFailed(r) ==
    /\ Arrive(r, Changes, {"missing", "invalid"}) \/ Lost(r, Changes)
    /\ UNCHANGED <<storage, backend, page, result, served, history>>

Next ==
    \/ \E t \in Tab : Logout(t) \/ Edit(t) \/ Cancel(t)
    \/ \E t \in Tab, r \in Request :
          \/ \E u \in User, k \in Token : Login(t, u, k, r)
          \/ Reload(t, r)
          \/ \E kind \in Changes : Change(t, kind, r)
    \/ \E k \in Token : Expire(k)
    \/ \E r \in Request : Handle(r) \/ Listed(r) \/ ListRefused(r) \/ ListFailed(r)
                          \/ ChangeFailed(r) \/ \E q \in Request : Changed(r, q)

Spec == Init /\ [][Next]_vars

-----------------------------------------------------------------------------
(* Shape of the state, and that the two keys of localStorage, which        *)
(* LoginForm and App write, come and go together.                          *)
Calls == [kind : Changes \cup {"list"}, tab : Tab, token : Token \cup {None},
          shown : User \cup {None}, switched : BOOLEAN]
TypeOK ==
    /\ token \in Token \cup {None} /\ email \in User \cup {None}
    /\ token = None <=> email = None
    /\ owner \in [Token -> User \cup {None}]
    /\ expired \subseteq Token
    /\ version \in [User -> Nat]
    /\ userEmail \in [Tab -> User \cup {None}]
    /\ notes \in [Tab -> Request \cup {None}]
    /\ editNote \in [Tab -> Request \cup {None}]
    /\ error \in [Tab -> BOOLEAN]
    /\ call \in [Request -> Calls \cup {Unsent}]
    /\ pc \in [Request -> {"idle", "sent", "served", "done"}]
    /\ result \in [Request -> {"none", "ok", "missing", "invalid"}]
    /\ served \in [Request -> Nat]
    /\ dropped \subseteq Request /\ past \subseteq Request
    /\ late \subseteq Request /\ overtaken \subseteq Request
    /\ switched \subseteq Tab

(* What a tab sends, it sends to the account it shows as logged in, unless *)
(* another tab has logged in or out since (the header of App.jsx:111 and   *)
(* the token of api/notes.js:5 are kept in two places).                    *)
RightAccount ==
    \A r \in Request :
        call[r].shown # None /\ ~call[r].switched => Account(r) = call[r].shown

(* The listing was asked for by the login it now appears under, and with   *)
(* that login's token.                                                     *)
Unmixed(r) == call[r].shown # None /\ ~call[r].switched

(* The notes a tab shows, and the one being edited, are of the account it  *)
(* shows as logged in, unless the listing was answered after a logout, the *)
(* edit form was left open by one, or another tab changed the login.       *)
ShownExplained ==
    \A t \in Tab : userEmail[t] # None =>
        /\ notes[t] # None /\ notes[t] \notin late /\ Unmixed(notes[t])
              => Account(notes[t]) = userEmail[t]
        /\ editNote[t] # None /\ editNote[t] \notin past /\ Unmixed(editNote[t])
              => Account(editNote[t]) = userEmail[t]

(* A tab that waits for nothing and shows no error shows what it has       *)
(* changed itself during this login, unless listings overtook each other   *)
(* or the account changed (App.jsx:82-100).                                *)
OwnChangesShown ==
    \A t \in Tab : userEmail[t] # None /\ Pending(t) = {} /\ ~error[t] =>
        \A r \in Of(t) \ past :
            call[r].kind \in Changes /\ pc[r] = "done" /\ result[r] = "ok" =>
                /\ notes[t] # None
                /\ \/ notes[t] \in overtaken
                   \/ Account(notes[t]) # Account(r)
                   \/ served[notes[t]] >= served[r]
=============================================================================
