-------------------------- MODULE FrontendProofs --------------------------
(***************************************************************************)
(* What the tabs show and send, for any number of tabs, users, tokens and  *)
(* requests.  IInv ties a tab to localStorage unless another tab has       *)
(* switched the login (Tied), a request to the tab and the login it was    *)
(* sent by (Sent), what a tab shows to an answered listing of its own      *)
(* (Displayed), and an acknowledged change to a listing that is still to   *)
(* come or already shown (Refetched).                                      *)
(***************************************************************************)
EXTENDS Frontend, TLAPS

Tied ==
    /\ token # None => owner[token] = email
    /\ \A t \in Tab : userEmail[t] # None /\ t \notin switched => userEmail[t] = email

Sent ==
    \A r \in Request :
        /\ pc[r] = "idle" =>
              /\ call[r] = Unsent
              /\ r \notin past \cup late \cup overtaken \cup dropped
              /\ \A q \in Request : r < q => pc[q] = "idle"
        /\ pc[r] # "idle" =>
              /\ call[r] \in Calls
              /\ r \notin past => call[r].shown = userEmail[call[r].tab]
        /\ call[r].token # None => owner[call[r].token] # None
        /\ call[r].shown # None /\ ~call[r].switched => Account(r) = call[r].shown
        /\ result[r] = "ok" =>
              /\ pc[r] \in {"served", "done"}
              /\ call[r].token # None
              /\ served[r] <= version[Account(r)]

Displayed ==
    \A t \in Tab :
        /\ notes[t] # None =>
              /\ notes[t] \in Of(t) /\ pc[notes[t]] = "done" /\ result[notes[t]] = "ok"
              /\ notes[t] \notin late => call[notes[t]].shown \in {None, userEmail[t]}
        /\ editNote[t] # None => editNote[t] \in Of(t)

Listings(t) == {q \in Pending(t) : call[q].kind = "list"}
Acked(t)    == {c \in Of(t) \ past : call[c].kind \in Changes /\ pc[c] = "done" /\ result[c] = "ok"}

(* Listing q shows, or will show, change c if it is of the same account.   *)
Shows(q, c) ==
    pc[q] = "sent" \/ result[q] # "ok" \/ Account(q) # Account(c) \/ served[q] >= served[c]

Awaited(t, c) ==
    \A p \in Listings(t) :
        p \in overtaken \/ Shows(p, c) \/ \E q \in Listings(t) : p < q /\ Shows(q, c)
Covered(t, c) ==
    \/ \E q \in Listings(t) : Shows(q, c)
    \/ error[t]
    \/ notes[t] # None /\ (notes[t] \in overtaken \/ Shows(notes[t], c))
Refetched == \A t \in Tab : \A c \in Acked(t) : Awaited(t, c) /\ Covered(t, c)

IInv == TypeOK /\ Tied /\ Sent /\ Displayed /\ Refetched

-----------------------------------------------------------------------------
(* A request that is made touches no other one and is the last so far.     *)
LEMMA SendFrame ==
    ASSUME TypeOK, Sent, NEW r \in Request, NEW c \in Calls,
           IsNext(r), call' = [call EXCEPT ![r] = c]
    PROVE  /\ \A q \in Request \ {r} : call'[q] = call[q]
           /\ call'[r] = c
           /\ \A q \in Request : pc[q] # "idle" => q < r
           /\ \A q \in Request : r < q => pc[q] = "idle"
<1>1. \A q \in Request : q \in Nat
  BY RequestAssumption
<1>2. \A q \in Request : r < q => pc[q] = "idle"
  BY DEF Sent, IsNext
<1>3. \A q \in Request : pc[q] # "idle" => q < r
  BY <1>1, <1>2 DEF IsNext
<1>4. DOMAIN call = Request
  BY DEF TypeOK
<1> QED
  BY <1>2, <1>3, <1>4

(* A change that was acknowledged stays shown, or awaited, when a step     *)
(* neither takes nor adds a listing of its tab.                            *)
LEMMA KeptForTab ==
    ASSUME Refetched, overtaken \subseteq overtaken', NEW t \in Tab, NEW c \in Acked(t),
           Listings(t)' = Listings(t), error'[t] = error[t], notes'[t] = notes[t],
           \A q \in Listings(t) \cup ({notes[t]} \ {None}) : Shows(q, c) => Shows(q, c)'
    PROVE  Awaited(t, c)' /\ Covered(t, c)'
<1>1. Awaited(t, c) /\ Covered(t, c)
  BY DEF Refetched
<1>2. Awaited(t, c)'
  BY <1>1 DEF Awaited
<1>3. notes[t] # None /\ Shows(notes[t], c) => Shows(notes[t], c)'
  OBVIOUS
<1>4. Covered(t, c)'
  BY <1>1, <1>3 DEF Covered
<1> QED
  BY <1>2, <1>4

LEMMA RefetchedKept ==
    ASSUME Refetched, overtaken \subseteq overtaken',
           \A t \in Tab : \A c \in Acked(t)' :
              /\ c \in Acked(t)
              /\ Listings(t)' = Listings(t)
              /\ error'[t] = error[t] /\ notes'[t] = notes[t]
              /\ \A q \in Listings(t) \cup ({notes[t]} \ {None}) : Shows(q, c) => Shows(q, c)'
    PROVE  Refetched'
<1> SUFFICES ASSUME NEW t \in Tab, NEW c \in Acked(t)'
             PROVE  Awaited(t, c)' /\ Covered(t, c)'
  BY DEF Refetched
<1> QED
  BY KeptForTab

(* What Sent asks of the requests there were, and of the one that is made. *)
LEMMA SentNew ==
    ASSUME TypeOK, Sent, NEW r \in Request, NEW c \in Calls,
           IsNext(r), call' = [call EXCEPT ![r] = c], pc'[r] = "sent",
           \A q \in Request \ {r} : /\ pc'[q] = "idle" <=> pc[q] = "idle"
                                    /\ pc[q] \in {"served", "done"} => pc'[q] \in {"served", "done"},
           UNCHANGED <<result, served, version>>,
           \A k \in Token : owner[k] # None => owner'[k] = owner[k],
           c.token # None => owner'[c.token] # None,
           c.shown # None /\ ~c.switched => c.token # None /\ owner'[c.token] = c.shown,
           c.shown = userEmail'[c.tab],
           \A q \in Request : pc[q] = "idle" => q \notin past' \cup late' \cup overtaken' \cup dropped',
           \A q \in Request : pc[q] # "idle" /\ q \notin past' =>
              q \notin past /\ userEmail'[call[q].tab] = userEmail[call[q].tab]
    PROVE  Sent'
<1>1. /\ \A q \in Request \ {r} : call'[q] = call[q]
      /\ call'[r] = c
      /\ \A q \in Request : pc[q] # "idle" => q < r
      /\ \A q \in Request : r < q => pc[q] = "idle"
  BY SendFrame
<1>2. \A q \in Request : call[q].token # None => call[q].token \in Token
  BY DEF TypeOK, Calls, Unsent
<1>3. result'[r] # "ok" /\ pc[r] = "idle"
  BY DEF Sent, IsNext
<1>4. \A q \in Request \ {r} : Account(q)' = Account(q)
  BY <1>1, <1>2 DEF Account, Sent
<1>5. ASSUME NEW q \in Request \ {r}
      PROVE  /\ pc'[q] = "idle" =>
                   /\ call'[q] = Unsent
                   /\ q \notin past' \cup late' \cup overtaken' \cup dropped'
                   /\ \A p \in Request : q < p => pc'[p] = "idle"
             /\ pc'[q] # "idle" =>
                   /\ call'[q] \in Calls
                   /\ q \notin past' => call'[q].shown = userEmail'[call'[q].tab]
             /\ call'[q].token # None => owner'[call'[q].token] # None
             /\ call'[q].shown # None /\ ~call'[q].switched => Account(q)' = call'[q].shown
             /\ result'[q] = "ok" =>
                   /\ pc'[q] \in {"served", "done"}
                   /\ call'[q].token # None
                   /\ served'[q] <= version'[Account(q)']
  <2>1. pc'[q] = "idle" =>
                   /\ call'[q] = Unsent
                   /\ q \notin past' \cup late' \cup overtaken' \cup dropped'
    BY <1>1 DEF Sent
  <2>2. ASSUME pc'[q] = "idle", NEW p \in Request, q < p
        PROVE  pc'[p] = "idle"
    <3>1. pc[q] = "idle" /\ pc[p] = "idle"
      BY <2>2 DEF Sent
    <3>2. p # r
      BY <3>1, <2>2 DEF IsNext
    <3> QED
      BY <3>1, <3>2
  <2>3. pc'[q] # "idle" =>
                   /\ call'[q] \in Calls
                   /\ q \notin past' => call'[q].shown = userEmail'[call'[q].tab]
    BY <1>1 DEF Sent
  <2>4. /\ call'[q].token # None => owner'[call'[q].token] # None
        /\ call'[q].shown # None /\ ~call'[q].switched => Account(q)' = call'[q].shown
    BY <1>1, <1>2, <1>4 DEF Sent
  <2>5. result'[q] = "ok" =>
                   /\ pc'[q] \in {"served", "done"}
                   /\ call'[q].token # None
                   /\ served'[q] <= version'[Account(q)']
    BY <1>1, <1>4 DEF Sent
  <2> QED
    BY <2>1, <2>2, <2>3, <2>4, <2>5
<1>6. /\ pc'[r] # "idle" /\ call'[r] \in Calls /\ call'[r].shown = userEmail'[call'[r].tab]
      /\ call'[r].token # None => owner'[call'[r].token] # None
      /\ call'[r].shown # None /\ ~call'[r].switched => Account(r)' = call'[r].shown
  BY <1>1 DEF Account
<1> QED
  BY <1>3, <1>5, <1>6 DEF Sent

(* The same when no request is made and no answer is produced.             *)
LEMMA SentKept ==
    ASSUME TypeOK, Sent,
           UNCHANGED <<call, result, served, version, owner>>,
           \A q \in Request : /\ pc'[q] = "idle" <=> pc[q] = "idle"
                              /\ pc[q] \in {"served", "done"} => pc'[q] \in {"served", "done"},
           \A q \in Request : pc[q] = "idle" => q \notin past' \cup late' \cup overtaken' \cup dropped',
           \A q \in Request : pc[q] # "idle" /\ q \notin past' =>
              q \notin past /\ userEmail'[call[q].tab] = userEmail[call[q].tab]
    PROVE  Sent'
<1>1. \A q \in Request : Account(q)' = Account(q)
  BY DEF Account
<1> QED
  BY <1>1 DEF Sent

(* A login or a reload of t leaves no acknowledged change of t, and the    *)
(* other tabs as they were.                                                *)
LEMMA RefetchedFresh ==
    ASSUME IInv, NEW t \in Tab, NEW r \in Request, NEW c \in Calls, c.tab = t,
           IsNext(r), call' = [call EXCEPT ![r] = c], pc' = [pc EXCEPT ![r] = "sent"],
           past' = past \cup Of(t),
           dropped' = dropped \/ dropped' = dropped \cup Pending(t),
           \A k \in Token : owner[k] # None => owner'[k] = owner[k],
           \A s \in Tab \ {t} : notes'[s] = notes[s] /\ error'[s] = error[s],
           UNCHANGED <<result, served, overtaken>>
    PROVE  Refetched'
<1>1. /\ \A q \in Request \ {r} : call'[q] = call[q] /\ pc'[q] = pc[q]
      /\ call'[r] = c /\ pc'[r] = "sent" /\ pc[r] = "idle"
  BY SendFrame DEF IInv, TypeOK, IsNext
<1>2. ASSUME NEW s \in Tab, NEW d \in Acked(s)'
      PROVE  d \in Acked(s) /\ s # t /\ d # r
  <2>1. d \in Request /\ pc'[d] = "done" /\ d # r
    BY <1>1 DEF Acked, Of
  <2>2. d \in Acked(s)
    BY <1>1, <2>1 DEF Acked, Of
  <2> QED
    BY <2>1, <2>2 DEF Acked
<1>3. ASSUME NEW s \in Tab \ {t}
      PROVE  Listings(s)' = Listings(s)
  <2>1. Of(s)' = Of(s) /\ r \notin Of(s) /\ Of(s) \cap Of(t) = {}
    BY <1>1, NoneAssumption DEF Of, IInv, Sent, Unsent
  <2>2. Pending(s)' = Pending(s)
    BY <1>1, <2>1 DEF Pending
  <2> QED
    BY <1>1, <2>1, <2>2 DEF Listings, Pending
<1>4. \A q, d \in Request \ {r} : Shows(q, d)' <=> Shows(q, d)
  <2>1. \A q \in Request : call[q].token # None => call[q].token \in Token
    BY DEF IInv, TypeOK, Calls, Unsent
  <2>2. \A q \in Request \ {r} : Account(q)' = Account(q)
    BY <1>1, <2>1 DEF Account, IInv, Sent
  <2> QED
    BY <1>1, <2>2 DEF Shows
<1>5. \A s \in Tab : \A q \in Listings(s) \cup ({notes[s]} \ {None}) : q \in Request \ {r}
  <2>1. \A s \in Tab : \A q \in Listings(s) : q \in Request /\ pc[q] # "idle"
    BY DEF Listings, Pending, Of
  <2>2. \A s \in Tab : notes[s] # None => notes[s] \in Request /\ pc[notes[s]] # "idle"
    BY DEF IInv, Displayed, Of
  <2> QED
    BY <1>1, <2>1, <2>2
<1>6. \A s \in Tab : \A d \in Acked(s)' : d \in Request
  BY DEF Acked, Of
<1> QED
  BY <1>2, <1>3, <1>4, <1>5, <1>6, RefetchedKept DEF IInv

-----------------------------------------------------------------------------
LEMMA LoginStep ==
    ASSUME IInv, NEW t \in Tab, NEW u \in User, NEW k \in Token, NEW r \in Request,
           Login(t, u, k, r)
    PROVE  IInv'
<1>0. PICK c : c = Call("list", t, k, u, FALSE)
  OBVIOUS
<1>1. /\ c \in Calls /\ c.kind = "list" /\ c.tab = t /\ c.token = k /\ c.shown = u
      /\ c.switched = FALSE
  BY <1>0 DEF Call, Calls
<1>2. IsNext(r) /\ call' = [call EXCEPT ![r] = c] /\ pc' = [pc EXCEPT ![r] = "sent"]
      /\ UNCHANGED <<result, served>>
  BY <1>0 DEF Login, Send
<1>3. /\ \A q \in Request \ {r} : call'[q] = call[q] /\ pc'[q] = pc[q]
      /\ call'[r] = c /\ pc'[r] = "sent" /\ pc[r] = "idle"
  BY <1>2, SendFrame, <1>1 DEF IInv, TypeOK, IsNext
<1>4. TypeOK'
  <2> USE DEF IInv, TypeOK, Login
  <2>1. /\ token' \in Token \cup {None} /\ email' \in User \cup {None}
        /\ token' = None <=> email' = None
        /\ owner' \in [Token -> User \cup {None}]
        /\ expired' \subseteq Token
        /\ version' \in [User -> Nat]
        /\ userEmail' \in [Tab -> User \cup {None}]
    BY NoneAssumption
  <2>2. /\ notes' \in [Tab -> Request \cup {None}]
        /\ editNote' \in [Tab -> Request \cup {None}]
        /\ error' \in [Tab -> BOOLEAN]
        /\ call' \in [Request -> Calls \cup {Unsent}]
        /\ pc' \in [Request -> {"idle", "sent", "served", "done"}]
        /\ result' \in [Request -> {"none", "ok", "missing", "invalid"}]
        /\ served' \in [Request -> Nat]
    BY <1>1, <1>2
  <2>3. /\ dropped' \subseteq Request /\ past' \subseteq Request
        /\ late' \subseteq Request /\ overtaken' \subseteq Request
        /\ switched' \subseteq Tab
    BY DEF Of
  <2> QED
    BY <2>1, <2>2, <2>3
<1>5. Tied'
  BY DEF IInv, TypeOK, Tied, Login
<1>6. \A q \in Request : pc[q] = "idle" => q \notin past' \cup late' \cup overtaken' \cup dropped'
  <2>1. \A q \in Request : pc[q] = "idle" => q \notin Of(t)
    BY NoneAssumption DEF IInv, Sent, Of, Unsent
  <2> QED
    BY <2>1 DEF IInv, Sent, Login
<1>7. \A q \in Request : pc[q] # "idle" /\ q \notin past' =>
              q \notin past /\ userEmail'[call[q].tab] = userEmail[call[q].tab]
  BY DEF IInv, TypeOK, Login, Of
<1>8. Sent'
  <2>1. \A j \in Token : owner[j] # None => owner'[j] = owner[j]
    BY DEF IInv, TypeOK, Login
  <2>2. owner'[k] = u /\ u # None /\ userEmail'[t] = u /\ UNCHANGED version
    BY NoneAssumption DEF IInv, TypeOK, Login
  <2> QED
    BY <1>1, <1>2, <1>3, <1>6, <1>7, <2>1, <2>2, SentNew, NoneAssumption DEF IInv
<1>9. Displayed'
  <2>1. \A s \in Tab : Of(s) \subseteq Of(s)' /\ r \notin Of(s)
    BY <1>3, NoneAssumption DEF Of, IInv, Sent, Unsent
  <2>2. \A s \in Tab : notes[s] # None =>
           /\ notes[s] \in Request \ {r}
           /\ call[notes[s]].shown \in {None, userEmail[s]} => call[notes[s]].shown \in {None, userEmail'[s]}
    BY <1>3, <2>1 DEF IInv, TypeOK, Displayed, Login
  <2> QED
    BY <1>2, <1>3, <2>1, <2>2 DEF IInv, Displayed, Login
<1>10. Refetched'
  BY <1>1, <1>2, RefetchedFresh DEF IInv, TypeOK, Login
<1> QED
  BY <1>4, <1>5, <1>8, <1>9, <1>10 DEF IInv

LEMMA ReloadStep ==
    ASSUME IInv, NEW t \in Tab, NEW r \in Request, Reload(t, r)
    PROVE  IInv'
<1>1. \A q \in Request : pc[q] = "idle" => q \notin past' \cup late' \cup overtaken' \cup dropped'
  <2>1. \A q \in Request : pc[q] = "idle" => q \notin Of(t)
    BY NoneAssumption DEF IInv, Sent, Of, Unsent
  <2>2. /\ past' = past \cup Of(t) /\ late' = late /\ overtaken' = overtaken
        /\ dropped' = dropped \cup Pending(t) /\ Pending(t) \subseteq Of(t)
    BY DEF Reload, Pending
  <2> QED
    BY <2>1, <2>2 DEF IInv, Sent
<1>2. \A q \in Request : pc[q] # "idle" /\ q \notin past' =>
              q \notin past /\ userEmail'[call[q].tab] = userEmail[call[q].tab]
  BY DEF IInv, TypeOK, Reload, Of
<1>3. Tied'
  BY DEF IInv, TypeOK, Tied, Reload, storage, backend
<1>4. /\ token' \in Token \cup {None} /\ email' \in User \cup {None}
      /\ token' = None <=> email' = None
      /\ owner' \in [Token -> User \cup {None}]
      /\ expired' \subseteq Token
      /\ version' \in [User -> Nat]
      /\ userEmail' \in [Tab -> User \cup {None}]
      /\ notes' \in [Tab -> Request \cup {None}]
      /\ editNote' \in [Tab -> Request \cup {None}]
      /\ error' \in [Tab -> BOOLEAN]
  BY DEF IInv, TypeOK, Reload, storage, backend
<1>5. /\ dropped' \subseteq Request /\ past' \subseteq Request
      /\ late' \subseteq Request /\ overtaken' \subseteq Request
      /\ switched' \subseteq Tab
  BY DEF IInv, TypeOK, Reload, Of, Pending
<1>6. /\ \A s \in Tab \ {t} : /\ notes'[s] = notes[s] /\ error'[s] = error[s]
                               /\ userEmail'[s] = userEmail[s] /\ editNote'[s] = editNote[s]
      /\ notes'[t] = None /\ editNote'[t] = None /\ userEmail'[t] = email
      /\ UNCHANGED <<token, email, owner, expired, version, late, overtaken>>
      /\ past' = past \cup Of(t) /\ dropped' = dropped \cup Pending(t)
  BY DEF IInv, TypeOK, Reload, storage, backend
<1>7. CASE email = None
  <2>1. UNCHANGED <<call, pc, result, served>>
    BY <1>7 DEF Reload
  <2>2. TypeOK'
    BY <1>4, <1>5, <2>1 DEF IInv, TypeOK
  <2>3. Sent'
    BY <1>1, <1>2, <1>6, <2>1, SentKept DEF IInv
  <2>4. Displayed'
    BY <1>6, <2>1 DEF IInv, Displayed, Of
  <2>5. Refetched'
    <3>1. \A s \in Tab : \A d \in Acked(s)' : d \in Acked(s) /\ s # t
      BY <1>6, <2>1 DEF Acked, Of
    <3>2. \A s \in Tab \ {t} : Listings(s)' = Listings(s)
      <4>1. \A s \in Tab \ {t} : Pending(s)' = Pending(s)
        BY <1>6, <2>1 DEF Pending, Of
      <4> QED
        BY <2>1, <4>1 DEF Listings
    <3>3. \A q, d : Shows(q, d)' <=> Shows(q, d)
      BY <1>6, <2>1 DEF Shows, Account
    <3> QED
      BY <1>6, <3>1, <3>2, <3>3, RefetchedKept DEF IInv
  <2> QED
    BY <1>3, <2>2, <2>3, <2>4, <2>5 DEF IInv
<1>8. CASE email # None
  <2>1. PICK c : c = Call("list", t, token, email, FALSE)
    OBVIOUS
  <2>2. /\ c \in Calls /\ c.kind = "list" /\ c.tab = t /\ c.token = token /\ c.shown = email
        /\ c.switched = FALSE
    BY <2>1 DEF Call, Calls, IInv, TypeOK
  <2>3. IsNext(r) /\ call' = [call EXCEPT ![r] = c] /\ pc' = [pc EXCEPT ![r] = "sent"]
        /\ UNCHANGED <<result, served>>
    BY <1>8, <2>1 DEF Reload, Send
  <2>4. /\ \A q \in Request \ {r} : call'[q] = call[q] /\ pc'[q] = pc[q]
        /\ call'[r] = c /\ pc'[r] = "sent" /\ pc[r] = "idle"
    BY <2>2, <2>3, SendFrame DEF IInv, TypeOK, IsNext
  <2>5. TypeOK'
    <3>1. /\ call' \in [Request -> Calls \cup {Unsent}]
          /\ pc' \in [Request -> {"idle", "sent", "served", "done"}]
          /\ result' \in [Request -> {"none", "ok", "missing", "invalid"}]
          /\ served' \in [Request -> Nat]
      BY <2>2, <2>3 DEF IInv, TypeOK
    <3> QED
      BY <1>4, <1>5, <3>1 DEF TypeOK
  <2>6. Sent'
    <3>1. token # None /\ owner[token] = email /\ owner' = owner
      BY <1>6, <1>8 DEF IInv, TypeOK, Tied
    <3> QED
      BY <1>1, <1>2, <1>6, <1>8, <2>2, <2>3, <2>4, <3>1, SentNew DEF IInv
  <2>7. Displayed'
    <3>1. \A s \in Tab : Of(s) \subseteq Of(s)' /\ r \notin Of(s)
      BY <2>4, NoneAssumption DEF Of, IInv, Sent, Unsent
    <3>2. \A s \in Tab \ {t} : notes[s] # None => notes[s] \in Request \ {r}
      BY <2>4, <3>1 DEF IInv, TypeOK, Displayed
    <3> QED
      BY <1>6, <2>3, <2>4, <3>1, <3>2 DEF IInv, Displayed
  <2>8. Refetched'
    BY <1>6, <2>2, <2>3, RefetchedFresh
  <2> QED
    BY <1>3, <2>5, <2>6, <2>7, <2>8 DEF IInv
<1> QED
  BY <1>7, <1>8

(* handleLogout, by a click or by a refused token.                         *)
LEMMA LogoutKeeps ==
    ASSUME IInv, NEW t \in Tab, handleLogout(t), overtaken \subseteq overtaken',
           overtaken' \subseteq {q \in Request : pc[q] # "idle"},
           UNCHANGED <<backend, error, call, result, served, dropped, late>>,
           pc' = pc \/ \E r \in Of(t) : pc[r] = "served" /\ pc' = [pc EXCEPT ![r] = "done"]
    PROVE  IInv'
<1> USE DEF backend
<1>1. \A q \in Request : pc[q] = "idle" => q \notin past' \cup late' \cup overtaken' \cup dropped'
  <2>1. \A q \in Request : pc[q] = "idle" => q \notin Of(t)
    BY NoneAssumption DEF IInv, Sent, Of, Unsent
  <2> QED
    BY <2>1 DEF IInv, Sent, handleLogout
<1>2. \A q \in Request : pc[q] # "idle" /\ q \notin past' =>
              q \notin past /\ userEmail'[call[q].tab] = userEmail[call[q].tab]
  BY DEF IInv, TypeOK, handleLogout, Of
<1>3. \A q \in Request : /\ pc'[q] = "idle" <=> pc[q] = "idle"
                         /\ pc[q] = "done" => pc'[q] = "done"
                         /\ pc[q] \in {"served", "done"} => pc'[q] \in {"served", "done"}
                         /\ q \notin Of(t) => pc'[q] = pc[q]
  BY DEF IInv, TypeOK, Of
<1>4. TypeOK'
  <2>1. pc' \in [Request -> {"idle", "sent", "served", "done"}]
    BY DEF IInv, TypeOK, Of
  <2>2. overtaken' \subseteq Request /\ past' \subseteq Request /\ switched' \subseteq Tab
    BY DEF IInv, TypeOK, Of, handleLogout
  <2>3. /\ userEmail' \in [Tab -> User \cup {None}]
        /\ notes' \in [Tab -> Request \cup {None}]
        /\ editNote' \in [Tab -> Request \cup {None}]
    BY DEF IInv, TypeOK, handleLogout
  <2> QED
    BY <2>1, <2>2, <2>3 DEF IInv, TypeOK, handleLogout
<1>5. Tied'
  BY DEF IInv, TypeOK, Tied, handleLogout
<1>6. Sent'
  BY <1>1, <1>2, <1>3, SentKept DEF IInv
<1>7. Displayed'
  BY <1>3 DEF IInv, TypeOK, Displayed, Of, handleLogout
<1>8. Refetched'
  <2>1. \A s \in Tab : \A d \in Acked(s)' : d \in Acked(s) /\ s # t
    BY <1>3 DEF Acked, Of, handleLogout
  <2>2. \A s \in Tab \ {t} : Listings(s)' = Listings(s)
    <3>1. \A s \in Tab \ {t} : Of(s)' = Of(s) /\ \A q \in Of(s) : pc'[q] = pc[q]
      BY <1>3 DEF Of
    <3>2. \A s \in Tab \ {t} : Pending(s)' = Pending(s)
      BY <3>1 DEF Pending
    <3> QED
      BY <3>2 DEF Listings
  <2>3. \A s \in Tab \ {t} : \A q \in Listings(s) \cup ({notes[s]} \ {None}) : pc'[q] = pc[q]
    BY <1>3 DEF Listings, Pending, Of, IInv, Displayed
  <2>4. \A q, d : pc'[q] = pc[q] => (Shows(q, d)' <=> Shows(q, d))
    BY DEF Shows, Account
  <2>5. \A s \in Tab \ {t} : notes'[s] = notes[s]
    BY DEF handleLogout, IInv, TypeOK
  <2> QED
    BY <2>1, <2>2, <2>3, <2>4, <2>5, RefetchedKept DEF IInv
<1> QED
  BY <1>4, <1>5, <1>6, <1>7, <1>8 DEF IInv

-----------------------------------------------------------------------------
(* A step that leaves the requests and what tabs show of them alone.       *)
LEMMA RefetchedSame ==
    ASSUME Refetched, UNCHANGED <<call, pc, result, served, dropped, owner, past, overtaken,
                                  notes, error>>
    PROVE  Refetched'
BY DEF Refetched, Awaited, Covered, Acked, Listings, Pending, Of, Shows, Account

LEMMA EditStep ==
    ASSUME IInv, NEW t \in Tab, Edit(t) \/ Cancel(t)
    PROVE  IInv'
<1> USE DEF storage, backend, network, history
<1>1. /\ UNCHANGED <<token, email, owner, expired, version, userEmail, notes, error, call, pc,
                     result, served, dropped, switched, past, late, overtaken>>
      /\ \/ editNote' = [editNote EXCEPT ![t] = notes[t]] /\ notes[t] # None
         \/ editNote' = [editNote EXCEPT ![t] = None]
  BY DEF Edit, Cancel
<1>2. TypeOK'
  BY <1>1 DEF IInv, TypeOK
<1>3. Tied' /\ Sent'
  BY <1>1 DEF IInv, Tied, Sent, Account
<1>4. Displayed'
  BY <1>1 DEF IInv, TypeOK, Displayed, Of
<1>5. Refetched'
  BY <1>1, RefetchedSame DEF IInv
<1> QED
  BY <1>2, <1>3, <1>4, <1>5 DEF IInv

LEMMA ExpireStep ==
    ASSUME IInv, NEW k \in Token, Expire(k)
    PROVE  IInv'
<1> USE DEF storage, page, network, history
<1>1. TypeOK'
  BY DEF IInv, TypeOK, Expire
<1>2. Tied' /\ Sent' /\ Displayed'
  BY DEF IInv, Tied, Sent, Displayed, Of, Account, Expire
<1>3. Refetched'
  BY RefetchedSame DEF IInv, Expire
<1> QED
  BY <1>1, <1>2, <1>3 DEF IInv

LEMMA ChangeStep ==
    ASSUME IInv, NEW t \in Tab, NEW kind \in Changes, NEW r \in Request, Change(t, kind, r)
    PROVE  IInv'
<1> USE DEF storage, backend, page, history
<1>1. PICK c : c = Call(kind, t, token, userEmail[t], t \in switched)
  OBVIOUS
<1>2. c \in Calls
  <2>1. (t \in switched) \in BOOLEAN
    OBVIOUS
  <2> QED
    BY <1>1, <2>1 DEF Call, Calls, IInv, TypeOK
<1>3. /\ c.kind = kind /\ c.tab = t /\ c.token = token /\ c.shown = userEmail[t]
      /\ c.switched <=> t \in switched
  BY <1>1 DEF Call
<1>4. /\ IsNext(r) /\ call' = [call EXCEPT ![r] = c] /\ pc' = [pc EXCEPT ![r] = "sent"]
      /\ UNCHANGED <<token, email, owner, expired, version, userEmail, notes, editNote, error,
                     result, served, dropped, switched, past, late, overtaken>>
  BY <1>1 DEF Change, Send
<1>5. /\ \A q \in Request \ {r} : call'[q] = call[q] /\ pc'[q] = pc[q]
      /\ call'[r] = c /\ pc'[r] = "sent" /\ pc[r] = "idle"
  BY <1>2, <1>4, SendFrame DEF IInv, TypeOK, IsNext
<1>6. TypeOK'
  BY <1>2, <1>4 DEF IInv, TypeOK
<1>7. Tied'
  BY <1>4 DEF IInv, Tied
<1>8. Sent'
  <2>1. c.shown # None /\ ~c.switched => c.token # None /\ owner'[c.token] = c.shown
    BY <1>3, <1>4 DEF IInv, TypeOK, Tied
  <2>2. c.token # None => owner'[c.token] # None
    BY <1>3, <1>4 DEF IInv, TypeOK, Tied
  <2>3. \A q \in Request : pc[q] = "idle" => q \notin past' \cup late' \cup overtaken' \cup dropped'
    BY <1>4 DEF IInv, Sent
  <2> QED
    BY <1>2, <1>3, <1>4, <1>5, <2>1, <2>2, <2>3, SentNew DEF IInv
<1>9. \A s \in Tab : Of(s) \subseteq Of(s)' /\ r \notin Of(s) /\ Of(s)' \subseteq Of(s) \cup {r}
  BY <1>5, NoneAssumption DEF Of, IInv, Sent, Unsent
<1>10. Displayed'
  <2>1. \A s \in Tab : notes[s] # None => notes[s] \in Request \ {r}
    BY <1>9 DEF IInv, TypeOK, Displayed
  <2> QED
    BY <1>4, <1>5, <1>9, <2>1 DEF IInv, Displayed
<1>11. Refetched'
  <2>1. \A s \in Tab : \A d \in Acked(s)' : d \in Acked(s) /\ d \in Request \ {r}
    BY <1>4, <1>5 DEF Acked, Of
  <2>2. \A s \in Tab : Listings(s)' = Listings(s)
    <3>1. kind # "list"
      BY DEF Changes
    <3> QED
      BY <1>3, <1>4, <1>5, <1>9, <3>1 DEF Listings, Pending
  <2>3. \A q, d \in Request \ {r} : Shows(q, d)' <=> Shows(q, d)
    BY <1>4, <1>5 DEF Shows, Account
  <2>4. \A s \in Tab : \A q \in Listings(s) \cup ({notes[s]} \ {None}) : q \in Request \ {r}
    BY <1>9 DEF Listings, Pending, Of, IInv, Displayed
  <2> QED
    BY <1>4, <2>1, <2>2, <2>3, <2>4, RefetchedKept DEF IInv
<1> QED
  BY <1>6, <1>7, <1>8, <1>10, <1>11 DEF IInv

-----------------------------------------------------------------------------
(* What the backend answers is at least as new as what it has acknowledged.*)
LEMMA HandleStep ==
    ASSUME IInv, NEW r \in Request, Handle(r)
    PROVE  IInv'
<1> USE DEF storage, page, history
<1>1. /\ UNCHANGED <<token, email, owner, expired, userEmail, notes, editNote, error, call,
                     dropped, switched, past, late, overtaken>>
      /\ pc[r] = "sent" /\ pc' = [pc EXCEPT ![r] = "served"]
  BY DEF Handle
<1>2. \A q \in Request : Account(q)' = Account(q)
  BY <1>1 DEF Account
<1>3. PICK k : k = call[r].token
  OBVIOUS
<1>4. k # None => k \in Token /\ owner[k] \in User /\ Account(r) = owner[k]
  BY <1>1, <1>3 DEF IInv, TypeOK, Sent, Calls, Account, Unsent
<1>5. CASE k # None /\ k \notin expired
  <2>1. PICK n : n = version[owner[k]] + (IF call[r].kind \in Changes THEN 1 ELSE 0)
    OBVIOUS
  <2>2. /\ result' = [result EXCEPT ![r] = "ok"]
        /\ version' = [version EXCEPT ![owner[k]] = n]
        /\ served' = [served EXCEPT ![r] = n]
    BY <1>3, <1>5, <2>1 DEF Handle
  <2>3. n \in Nat /\ n >= version[owner[k]]
    BY <1>4, <1>5, <2>1 DEF IInv, TypeOK
  <2>4. TypeOK'
    BY <1>1, <1>4, <1>5, <2>2, <2>3 DEF IInv, TypeOK
  <2>5. \A u \in User : version'[u] >= version[u]
    BY <1>4, <1>5, <2>2, <2>3 DEF IInv, TypeOK
  <2>6. ASSUME NEW q \in Request, result'[q] = "ok"
        PROVE  /\ pc'[q] \in {"served", "done"}
               /\ call'[q].token # None
               /\ served'[q] <= version'[Account(q)']
    <3>1. CASE q = r
      BY <1>1, <1>2, <1>3, <1>4, <1>5, <2>2, <2>3, <3>1 DEF IInv, TypeOK
    <3>2. CASE q # r
      <4>1. result[q] = "ok" /\ pc'[q] = pc[q] /\ served'[q] = served[q]
        BY <1>1, <2>2, <2>6, <3>2 DEF IInv, TypeOK
      <4>2. call[q].token # None /\ served[q] <= version[Account(q)] /\ pc[q] \in {"served", "done"}
        BY <4>1 DEF IInv, Sent
      <4>3. Account(q) \in User
        BY <4>2 DEF IInv, TypeOK, Sent, Calls, Account, Unsent
      <4>4. served[q] \in Nat /\ version[Account(q)] \in Nat /\ version'[Account(q)] \in Nat
        BY <2>4, <4>3 DEF IInv, TypeOK
      <4>5. version[Account(q)] <= version'[Account(q)]
        BY <2>5, <4>3, <4>4
      <4> QED
        BY <1>1, <1>2, <4>1, <4>2, <4>4, <4>5
    <3> QED
      BY <3>1, <3>2
  <2>7. \A q \in Request : pc'[q] = "idle" <=> pc[q] = "idle"
    BY <1>1 DEF IInv, TypeOK
  <2>8. Sent'
    BY <1>1, <1>2, <2>6, <2>7 DEF IInv, Sent
  <2>9. Displayed'
    BY <1>1, <2>2 DEF IInv, TypeOK, Displayed, Of
  <2>10. ASSUME NEW d \in Request, pc[d] = "done", result[d] = "ok"
         PROVE  \A q \in Request : Shows(q, d) => Shows(q, d)'
    <3>1. d # r /\ served'[d] = served[d]
      BY <1>1, <2>2, <2>10 DEF IInv, TypeOK
    <3>2. \A q \in Request \ {r} : Shows(q, d) => Shows(q, d)'
      BY <1>1, <1>2, <2>2, <3>1 DEF IInv, TypeOK, Shows
    <3>3. Account(r) = Account(d) => served'[r] >= served[d]
      <4>1. SUFFICES ASSUME Account(r) = Account(d) PROVE n >= served[d]
        BY <2>2 DEF IInv, TypeOK
      <4>2. served[d] <= version[owner[k]]
        BY <1>4, <1>5, <2>10, <4>1 DEF IInv, Sent
      <4> QED
        BY <1>4, <1>5, <2>3, <4>2 DEF IInv, TypeOK
    <3> QED
      BY <1>2, <3>1, <3>2, <3>3 DEF Shows
  <2>11. Refetched'
    <3>1. \A s \in Tab : \A d \in Acked(s)' :
             d \in Acked(s) /\ d \in Request /\ pc[d] = "done" /\ result[d] = "ok"
      BY <1>1, <2>2 DEF IInv, TypeOK, Acked, Of
    <3>2. \A s \in Tab : Listings(s)' = Listings(s)
      BY <1>1 DEF IInv, TypeOK, Listings, Pending, Of
    <3>3. \A s \in Tab : \A q \in Listings(s) \cup ({notes[s]} \ {None}) : q \in Request
      BY DEF Listings, Pending, Of, IInv, Displayed
    <3> QED
      BY <1>1, <2>10, <3>1, <3>2, <3>3, RefetchedKept DEF IInv
  <2> QED
    BY <1>1, <2>4, <2>8, <2>9, <2>11 DEF IInv, Tied
<1>6. CASE ~(k # None /\ k \notin expired)
  <2>1. /\ result' = [result EXCEPT ![r] = IF k = None THEN "missing" ELSE "invalid"]
        /\ UNCHANGED <<version, served>>
    BY <1>3, <1>6 DEF Handle
  <2>2. result'[r] # "ok" /\ \A q \in Request \ {r} : result'[q] = result[q] /\ pc'[q] = pc[q]
    BY <1>1, <2>1 DEF IInv, TypeOK
  <2>3. pc'[r] = "served" /\ result[r] # "ok"
    BY <1>1 DEF IInv, TypeOK, Sent
  <2>4. TypeOK'
    BY <1>1, <2>1 DEF IInv, TypeOK
  <2>5. Sent'
    BY <1>1, <1>2, <2>1, <2>2, <2>3 DEF IInv, Sent
  <2>6. Displayed'
    BY <1>1, <2>2, <2>3 DEF IInv, Displayed, Of
  <2>7. Refetched'
    <3>1. \A s \in Tab : \A d \in Acked(s)' : d \in Acked(s) /\ d \in Request \ {r}
      BY <1>1, <2>2, <2>3 DEF Acked, Of
    <3>2. \A s \in Tab : Listings(s)' = Listings(s)
      BY <1>1 DEF IInv, TypeOK, Listings, Pending, Of
    <3>3. \A q \in Request, d \in Request \ {r} : Shows(q, d) => Shows(q, d)'
      BY <1>1, <1>2, <2>1, <2>2, <2>3 DEF Shows
    <3>4. \A s \in Tab : \A q \in Listings(s) \cup ({notes[s]} \ {None}) : q \in Request
      BY DEF Listings, Pending, Of, IInv, Displayed
    <3> QED
      BY <1>1, <3>1, <3>2, <3>3, <3>4, RefetchedKept DEF IInv
  <2> QED
    BY <1>1, <2>4, <2>5, <2>6, <2>7 DEF IInv, Tied
<1> QED
  BY <1>5, <1>6

-----------------------------------------------------------------------------
(* An answered or lost request is still none of the others' business.      *)
LEMMA ArriveFrame ==
    ASSUME TypeOK, NEW r \in Request, NEW K, NEW R, Arrive(r, K, R) \/ Lost(r, K)
    PROVE  /\ r \in Pending(call[r].tab) /\ call[r].kind \in K /\ call' = call
           /\ pc' \in [Request -> {"idle", "sent", "served", "done"}] /\ dropped' \subseteq Request
           /\ \A q \in Request \ {r} : pc'[q] = pc[q] /\ (q \in dropped' <=> q \in dropped)
           /\ r \in dropped' \/ pc'[r] = "done"
           /\ pc'[r] # "idle" /\ pc[r] \in {"sent", "served"} /\ (pc[r] = "served" => pc'[r] # "sent")
           /\ pc'[r] = "done" => Arrive(r, K, R)
           /\ \A s : Of(s)' = Of(s)
           /\ \A s : Pending(s)' = Pending(s) \ {r}
           /\ \A s : Listings(s)' = Listings(s) \ {r}
BY DEF TypeOK, Arrive, Lost, Pending, Listings, Of

(* When listing r is answered or lost, those asked for before it are       *)
(* overtaken and those asked for after it are still awaited.               *)
LEMMA AwaitedAfter ==
    ASSUME IInv, NEW r \in Request, NEW t \in Tab, NEW c \in Acked(t),
           Overtakes(r),
           Listings(t)' = Listings(t) \ {r},
           \A q \in Listings(t) \ {r} : Shows(q, c) => Shows(q, c)'
    PROVE  Awaited(t, c)'
<1>1. Awaited(t, c)
  BY DEF IInv, Refetched
<1>2. SUFFICES ASSUME NEW p \in Listings(t) \ {r}
               PROVE  p \in overtaken' \/ Shows(p, c)'
                      \/ \E q \in Listings(t) \ {r} : p < q /\ Shows(q, c)'
  BY DEF Awaited
<1>3. CASE p \in overtaken \/ Shows(p, c)
  BY <1>3 DEF Overtakes
<1>4. CASE \E q \in Listings(t) : p < q /\ Shows(q, c)
  <2>1. PICK q \in Listings(t) : p < q /\ Shows(q, c)
    BY <1>4
  <2>2. CASE q = r
    <3>1. p \in Pending(call[r].tab) /\ call[p].kind = "list" /\ p < r
      BY <2>1, <2>2 DEF Listings, Pending, Of
    <3> QED
      BY <3>1 DEF Overtakes
  <2>3. CASE q # r
    BY <2>1, <2>3
  <2> QED
    BY <2>2, <2>3
<1> QED
  BY <1>1, <1>3, <1>4 DEF Awaited

(* No answer is acknowledged, and no other tab disturbed, by the answer to *)
(* a listing.                                                              *)
LEMMA ListingFrame ==
    ASSUME IInv, NEW r \in Request, NEW R, Arrive(r, {"list"}, R) \/ Lost(r, {"list"}),
           Overtakes(r), UNCHANGED <<owner, past>>
    PROVE  /\ call[r].tab \in Tab /\ r \in Listings(call[r].tab)
           /\ overtaken \subseteq overtaken' /\ overtaken' \subseteq {q \in Request : pc[q] # "idle"}
           /\ \A s \in Tab : Acked(s)' = Acked(s) /\ r \notin Acked(s) /\ notes[s] # r
           /\ \A s \in Tab \ {call[r].tab} : Listings(s)' = Listings(s)
           /\ \A q \in Request \ {r}, c \in Request \ {r} : Shows(q, c)' <=> Shows(q, c)
<1>1. /\ r \in Pending(call[r].tab) /\ call[r].kind = "list" /\ call' = call
      /\ \A q \in Request \ {r} : pc'[q] = pc[q]
      /\ \A s : Of(s)' = Of(s)
      /\ \A s : Listings(s)' = Listings(s) \ {r}
  BY ArriveFrame DEF IInv
<1>2. call[r].tab \in Tab /\ pc[r] \in {"sent", "served"}
  BY <1>1 DEF IInv, Sent, Pending, Calls
<1>3. overtaken \subseteq overtaken' /\ overtaken' \subseteq {q \in Request : pc[q] # "idle"}
  BY DEF IInv, TypeOK, Sent, Overtakes, Pending, Of
<1>4. \A s \in Tab : Acked(s)' = Acked(s) /\ r \notin Acked(s)
  BY <1>1 DEF Acked, Of, Changes, Overtakes
<1>5. \A s \in Tab : notes[s] # r
  BY <1>2, NoneAssumption DEF IInv, TypeOK, Displayed
<1>6. \A s \in Tab \ {call[r].tab} : r \notin Listings(s)
  BY DEF Listings, Pending, Of
<1>7. \A q \in Request \ {r}, c \in Request \ {r} : Shows(q, c)' <=> Shows(q, c)
  BY <1>1 DEF Shows, Account, Overtakes
<1> QED
  BY <1>1, <1>2, <1>3, <1>4, <1>5, <1>6, <1>7 DEF Listings

LEMMA ListedStep ==
    ASSUME IInv, NEW r \in Request, Listed(r)
    PROVE  IInv'
<1> USE DEF storage, backend
<1>1. PICK t : t = call[r].tab
  OBVIOUS
<1>2. /\ t \in Tab /\ r \in Listings(t)
      /\ overtaken \subseteq overtaken' /\ overtaken' \subseteq {q \in Request : pc[q] # "idle"}
      /\ \A s \in Tab : Acked(s)' = Acked(s) /\ r \notin Acked(s) /\ notes[s] # r
      /\ \A s \in Tab \ {t} : Listings(s)' = Listings(s)
      /\ \A q \in Request \ {r}, c \in Request \ {r} : Shows(q, c)' <=> Shows(q, c)
  BY <1>1, ListingFrame DEF Listed
<1>3. /\ notes' = [notes EXCEPT ![t] = r] /\ error' = [error EXCEPT ![t] = FALSE]
      /\ UNCHANGED <<token, email, owner, expired, version, userEmail, editNote, call, result,
                     served, dropped, switched, past>>
      /\ late' = (IF r \in past THEN late \cup {r} ELSE late)
      /\ pc[r] = "served" /\ result[r] = "ok" /\ pc' = [pc EXCEPT ![r] = "done"]
      /\ Listings(t)' = Listings(t) \ {r}
  BY <1>1, ArriveFrame DEF IInv, Listed, Arrive, Overtakes
<1>4. TypeOK'
  BY <1>2, <1>3 DEF IInv, TypeOK
<1>5. Tied'
  BY <1>3 DEF IInv, Tied
<1>6. Sent'
  <2>1. \A q \in Request : /\ pc'[q] = "idle" <=> pc[q] = "idle"
                           /\ pc[q] \in {"served", "done"} => pc'[q] \in {"served", "done"}
    BY <1>3 DEF IInv, TypeOK
  <2>2. \A q \in Request : pc[q] = "idle" => q \notin past' \cup late' \cup overtaken' \cup dropped'
    BY <1>2, <1>3 DEF IInv, Sent
  <2> QED
    BY <1>3, <2>1, <2>2, SentKept DEF IInv
<1>7. Displayed'
  <2>1. r \notin past => call[r].shown = userEmail[t]
    BY <1>1, <1>3 DEF IInv, Sent
  <2>2. r \in Of(t)' /\ pc'[r] = "done" /\ \A s \in Tab : Of(s)' = Of(s)
    BY <1>2, <1>3 DEF IInv, TypeOK, Listings, Pending, Of
  <2>3. \A s \in Tab \ {t} : notes'[s] = notes[s] /\ (notes[s] # None => pc'[notes[s]] = pc[notes[s]])
    BY <1>2, <1>3 DEF IInv, TypeOK
  <2> QED
    BY <1>2, <1>3, <2>1, <2>2, <2>3 DEF IInv, TypeOK, Displayed
<1>8. Refetched'
  <2> SUFFICES ASSUME NEW s \in Tab, NEW c \in Acked(s)
               PROVE  Awaited(s, c)' /\ Covered(s, c)'
    BY <1>2 DEF Refetched
  <2>1. c \in Request \ {r} /\ pc[c] = "done"
    BY <1>2 DEF Acked, Of
  <2>2. Listings(s) \subseteq Request
    BY DEF Listings, Pending, Of
  <2>3. CASE s # t
    <3>1. \A q \in Listings(s) \cup ({notes[s]} \ {None}) : q \in Request \ {r}
      BY <1>2, <2>2, <2>3, <1>1 DEF Listings, Pending, Of, IInv, Displayed
    <3> QED
      BY <1>2, <1>3, <2>1, <2>3, <3>1, KeptForTab DEF IInv, TypeOK
  <2>4. CASE s = t
    <3>1. c \in Acked(t) /\ c \in Request \ {r} /\ Listings(t) \subseteq Request
      BY <2>1, <2>2, <2>4
    <3>2. Awaited(t, c)'
      BY <1>2, <1>3, <3>1, AwaitedAfter DEF Listed
    <3>3. notes'[t] = r /\ r # None
      BY <1>2, <1>3, NoneAssumption DEF IInv, TypeOK
    <3>4. CASE r \in overtaken
      <4>1. notes'[t] # None /\ notes'[t] \in overtaken'
        BY <1>2, <3>3, <3>4
      <4> QED
        BY <2>4, <3>2, <4>1 DEF Covered
    <3>5. CASE Shows(r, c)
      <4>1. notes'[t] # None /\ Shows(notes[t], c)'
        BY <1>3, <3>3, <3>5 DEF IInv, TypeOK, Shows, Account
      <4> QED
        BY <2>4, <3>2, <4>1 DEF Covered
    <3>6. CASE \E q \in Listings(t) : r < q /\ Shows(q, c)
      <4>1. PICK q \in Listings(t) : r < q /\ Shows(q, c)
        BY <3>6
      <4>2. q # r
        BY <4>1, RequestAssumption
      <4>3. q \in Listings(t)' /\ Shows(q, c)'
        BY <1>2, <1>3, <3>1, <4>1, <4>2
      <4> QED
        BY <2>4, <3>2, <4>3 DEF Covered
    <3>7. r \in overtaken \/ Shows(r, c) \/ \E q \in Listings(t) : r < q /\ Shows(q, c)
      BY <1>2, <3>1 DEF IInv, Refetched, Awaited
    <3> QED
      BY <3>4, <3>5, <3>6, <3>7
  <2> QED
    BY <2>3, <2>4
<1> QED
  BY <1>4, <1>5, <1>6, <1>7, <1>8 DEF IInv

LEMMA ListRefusedStep ==
    ASSUME IInv, NEW r \in Request, ListRefused(r)
    PROVE  IInv'
<1> DEFINE t == call[r].tab
<1>1. pc[r] = "served" /\ pc' = [pc EXCEPT ![r] = "done"] /\ r \in Of(t)
  BY DEF ListRefused, Arrive, Of
<1>2. t \in Tab
  BY <1>1 DEF IInv, Sent, Calls
<1>3. overtaken \subseteq overtaken' /\ overtaken' \subseteq {q \in Request : pc[q] # "idle"}
  BY DEF IInv, TypeOK, Sent, ListRefused, Overtakes, Pending, Of
<1>4. handleLogout(t) /\ UNCHANGED <<backend, error, call, result, served, dropped, late>>
  BY DEF ListRefused, Arrive, Overtakes
<1> HIDE DEF t
<1> QED
  BY <1>1, <1>2, <1>3, <1>4, LogoutKeeps

LEMMA LogoutStep ==
    ASSUME IInv, NEW t \in Tab, Logout(t)
    PROVE  IInv'
<1>1. overtaken' = overtaken /\ overtaken \subseteq {q \in Request : pc[q] # "idle"}
  BY DEF IInv, TypeOK, Sent, Logout
<1>2. handleLogout(t) /\ UNCHANGED <<backend, error, call, pc, result, served, dropped, late>>
  BY DEF Logout, network
<1> QED
  BY <1>1, <1>2, LogoutKeeps

LEMMA ListFailedStep ==
    ASSUME IInv, NEW r \in Request, ListFailed(r)
    PROVE  IInv'
<1> USE DEF storage, backend
<1>1. PICK t : t = call[r].tab
  OBVIOUS
<1>2. /\ t \in Tab /\ r \in Listings(t)
      /\ overtaken \subseteq overtaken' /\ overtaken' \subseteq {q \in Request : pc[q] # "idle"}
      /\ \A s \in Tab : Acked(s)' = Acked(s) /\ r \notin Acked(s) /\ notes[s] # r
      /\ \A s \in Tab \ {t} : Listings(s)' = Listings(s)
      /\ \A q \in Request \ {r}, c \in Request \ {r} : Shows(q, c)' <=> Shows(q, c)
  BY <1>1, ListingFrame DEF ListFailed
<1>3. /\ error' = [error EXCEPT ![t] = TRUE]
      /\ UNCHANGED <<token, email, owner, expired, version, userEmail, notes, editNote, call,
                     result, served, switched, past, late>>
      /\ pc' \in [Request -> {"idle", "sent", "served", "done"}] /\ dropped' \subseteq Request
      /\ \A q \in Request \ {r} : pc'[q] = pc[q] /\ (q \in dropped' <=> q \in dropped)
      /\ pc'[r] # "idle" /\ pc[r] \in {"sent", "served"} /\ (pc[r] = "served" => pc'[r] # "sent")
      /\ Listings(t)' = Listings(t) \ {r}
  BY <1>1, ArriveFrame DEF IInv, ListFailed, Arrive, Lost, Overtakes
<1>4. TypeOK'
  BY <1>2, <1>3 DEF IInv, TypeOK
<1>5. Tied'
  BY <1>3 DEF IInv, Tied
<1>6. Sent'
  <2>1. \A q \in Request : /\ pc'[q] = "idle" <=> pc[q] = "idle"
                           /\ pc[q] \in {"served", "done"} => pc'[q] \in {"served", "done"}
    BY <1>3 DEF IInv, TypeOK
  <2>2. \A q \in Request : pc[q] = "idle" => q \notin past' \cup late' \cup overtaken' \cup dropped'
    <3>1. \A q \in Request : pc[q] = "idle" => q \in Request \ {r}
      BY <1>3
    <3> QED
      BY <1>2, <1>3, <3>1 DEF IInv, Sent
  <2> QED
    BY <1>3, <2>1, <2>2, SentKept DEF IInv
<1>7. Displayed'
  <2>1. \A s \in Tab : Of(s)' = Of(s) /\ (notes[s] # None => notes[s] \in Request \ {r})
    BY <1>2, <1>3 DEF Of, IInv, TypeOK
  <2> QED
    BY <1>3, <2>1 DEF IInv, Displayed
<1>8. Refetched'
  <2> SUFFICES ASSUME NEW s \in Tab, NEW c \in Acked(s)
               PROVE  Awaited(s, c)' /\ Covered(s, c)'
    BY <1>2 DEF Refetched
  <2>1. c \in Request \ {r}
    BY <1>2 DEF Acked, Of
  <2>2. Listings(s) \subseteq Request
    BY DEF Listings, Pending, Of
  <2>3. CASE s # t
    <3>1. \A q \in Listings(s) \cup ({notes[s]} \ {None}) : q \in Request \ {r}
      BY <1>2, <2>2, <2>3, <1>1 DEF Listings, Pending, Of, IInv, Displayed
    <3> QED
      BY <1>2, <1>3, <2>1, <2>3, <3>1, KeptForTab DEF IInv, TypeOK
  <2>4. CASE s = t
    <3>1. c \in Acked(t) /\ Listings(t) \subseteq Request
      BY <2>2, <2>4
    <3>2. Awaited(t, c)'
      BY <1>2, <1>3, <2>1, <3>1, AwaitedAfter DEF ListFailed
    <3>3. error'[t]
      BY <1>2, <1>3 DEF IInv, TypeOK
    <3> QED
      BY <2>4, <3>2, <3>3 DEF Covered
  <2> QED
    BY <2>3, <2>4
<1> QED
  BY <1>4, <1>5, <1>6, <1>7, <1>8 DEF IInv

LEMMA ChangeFailedStep ==
    ASSUME IInv, NEW r \in Request, ChangeFailed(r)
    PROVE  IInv'
<1> USE DEF storage, backend, page, history
<1>1. /\ UNCHANGED <<token, email, owner, expired, version, userEmail, notes, editNote, error,
                     call, result, served, switched, past, late, overtaken>>
      /\ call[r].kind \in Changes
      /\ pc' \in [Request -> {"idle", "sent", "served", "done"}] /\ dropped' \subseteq Request
      /\ \A q \in Request \ {r} : pc'[q] = pc[q] /\ (q \in dropped' <=> q \in dropped)
      /\ pc'[r] # "idle" /\ pc[r] \in {"sent", "served"} /\ (pc[r] = "served" => pc'[r] # "sent")
      /\ pc'[r] = "done" => result[r] # "ok"
      /\ \A s : Of(s)' = Of(s)
      /\ \A s : Listings(s)' = Listings(s) \ {r}
  <2>1. pc'[r] = "done" => result[r] # "ok"
    BY ArriveFrame DEF ChangeFailed, Arrive, Lost, Pending, IInv
  <2> QED
    BY <2>1, ArriveFrame DEF IInv, ChangeFailed, Arrive, Lost
<1>2. TypeOK' /\ Tied'
  BY <1>1 DEF IInv, TypeOK, Tied
<1>3. Sent'
  <2>1. \A q \in Request : /\ pc'[q] = "idle" <=> pc[q] = "idle"
                           /\ pc[q] \in {"served", "done"} => pc'[q] \in {"served", "done"}
    BY <1>1 DEF IInv, TypeOK
  <2>2. \A q \in Request : pc[q] = "idle" => q \notin past' \cup late' \cup overtaken' \cup dropped'
    <3>1. \A q \in Request : pc[q] = "idle" => q \in Request \ {r}
      BY <1>1
    <3> QED
      BY <1>1, <3>1 DEF IInv, Sent
  <2> QED
    BY <1>1, <2>1, <2>2, SentKept DEF IInv
<1>4. \A s \in Tab : notes[s] # None => notes[s] \in Request \ {r}
  BY <1>1 DEF IInv, TypeOK, Displayed
<1>5. Displayed'
  BY <1>1, <1>4 DEF IInv, Displayed
<1>6. Refetched'
  <2>1. \A s \in Tab : \A c \in Acked(s)' : c \in Acked(s) /\ c \in Request \ {r}
    BY <1>1 DEF Acked, Of
  <2>2. \A s \in Tab : r \notin Listings(s) /\ Listings(s)' = Listings(s)
    BY <1>1 DEF Listings, Changes
  <2>3. \A q, c \in Request \ {r} : Shows(q, c)' <=> Shows(q, c)
    BY <1>1 DEF Shows, Account
  <2>4. \A s \in Tab : \A q \in Listings(s) \cup ({notes[s]} \ {None}) : q \in Request \ {r}
    BY <1>4, <2>2 DEF Listings, Pending, Of
  <2> QED
    BY <1>1, <2>1, <2>2, <2>3, <2>4, RefetchedKept DEF IInv
<1> QED
  BY <1>2, <1>3, <1>5, <1>6 DEF IInv

(* An acknowledged change asks for the notes again: the new listing is     *)
(* the last one, and will show all that was acknowledged before.           *)
LEMMA ChangedStep ==
    ASSUME IInv, NEW r \in Request, NEW q \in Request, Changed(r, q)
    PROVE  IInv'
<1> USE DEF storage, backend, history
<1>1. PICK t : t = call[r].tab
  OBVIOUS
<1>2. t \in Tab /\ q # r /\ pc[r] = "served" /\ pc[q] = "idle" /\ r \in Of(t)
      /\ call[r].kind \in Changes
  BY <1>1 DEF IInv, Sent, Calls, Changed, IsNext, Of
<1>3. PICK c : c = Call("list", t, token, userEmail[t], t \in switched)
  OBVIOUS
<1>4. c \in Calls
  <2>1. (t \in switched) \in BOOLEAN
    OBVIOUS
  <2> QED
    BY <1>2, <1>3, <2>1 DEF Call, Calls, IInv, TypeOK
<1>5. /\ c.kind = "list" /\ c.tab = t /\ c.token = token /\ c.shown = userEmail[t]
      /\ c.switched <=> t \in switched
  BY <1>3 DEF Call
<1>6. /\ IsNext(q) /\ call' = [call EXCEPT ![q] = c]
      /\ pc' = [pc EXCEPT ![r] = "done", ![q] = "sent"]
      /\ editNote' = editNote \/ editNote' = [editNote EXCEPT ![t] = None]
      /\ UNCHANGED <<token, email, owner, expired, version, userEmail, notes, error, result,
                     served, dropped, switched, past, late, overtaken>>
  BY <1>1, <1>3 DEF Changed
<1>7. /\ \A p \in Request \ {q} : call'[p] = call[p]
      /\ \A p \in Request \ {q, r} : pc'[p] = pc[p]
      /\ call'[q] = c /\ pc'[q] = "sent" /\ pc'[r] = "done"
      /\ \A p \in Request : pc[p] # "idle" => p < q
  <2>1. /\ \A p \in Request \ {q} : call'[p] = call[p]
        /\ call'[q] = c /\ \A p \in Request : pc[p] # "idle" => p < q
    BY <1>4, <1>6, SendFrame DEF IInv
  <2> QED
    BY <1>2, <1>6, <2>1 DEF IInv, TypeOK
<1>8. TypeOK'
  BY <1>2, <1>4, <1>6 DEF IInv, TypeOK
<1>9. Tied'
  BY <1>6 DEF IInv, Tied
<1>10. Sent'
  <2>1. c.shown # None /\ ~c.switched => c.token # None /\ owner'[c.token] = c.shown
    BY <1>2, <1>5, <1>6 DEF IInv, TypeOK, Tied
  <2>2. c.token # None => owner'[c.token] # None
    BY <1>5, <1>6 DEF IInv, TypeOK, Tied
  <2>3. \A p \in Request : pc[p] = "idle" => p \notin past' \cup late' \cup overtaken' \cup dropped'
    BY <1>6 DEF IInv, Sent
  <2>4. \A p \in Request \ {q} : /\ pc'[p] = "idle" <=> pc[p] = "idle"
                                 /\ pc[p] \in {"served", "done"} => pc'[p] \in {"served", "done"}
    BY <1>2, <1>7
  <2> QED
    BY <1>4, <1>5, <1>6, <1>7, <2>1, <2>2, <2>3, <2>4, SentNew DEF IInv
<1>11. \A s \in Tab : Of(s) \subseteq Of(s)' /\ q \notin Of(s) /\ Of(s)' \subseteq Of(s) \cup {q}
  BY <1>2, <1>7, NoneAssumption DEF Of, IInv, Sent, Unsent
<1>12. \A s \in Tab : notes[s] # None => notes[s] \in Request \ {q, r}
  BY <1>2, <1>11 DEF IInv, TypeOK, Displayed
<1>13. Displayed'
  BY <1>6, <1>7, <1>11, <1>12 DEF IInv, TypeOK, Displayed
<1>14. \A s \in Tab \ {t} : Of(s)' = Of(s) /\ r \notin Of(s)
  BY <1>1, <1>5, <1>7, <1>11 DEF Of
<1>15. \A s \in Tab : Listings(s) \subseteq Request \ {q, r}
  BY <1>2, <1>11 DEF Listings, Pending, Changes, Of
<1>16. /\ \A s \in Tab \ {t} : Listings(s)' = Listings(s)
       /\ Listings(t)' = Listings(t) \cup {q}
  <2>1. \A s \in Tab, p \in Request \ {q, r} : p \in Listings(s)' <=> p \in Listings(s)
    BY <1>6, <1>7 DEF Listings, Pending, Of
  <2>2. \A s \in Tab : r \notin Listings(s)'
    BY <1>7 DEF Listings, Pending
  <2>3. q \in Listings(t)' /\ \A s \in Tab \ {t} : q \notin Listings(s)'
    BY <1>5, <1>6, <1>7, <1>2 DEF Listings, Pending, Of, IInv, Sent
  <2>4. \A s \in Tab : Listings(s)' \subseteq Request
    BY DEF Listings, Pending, Of
  <2> QED
    BY <1>2, <1>15, <2>1, <2>2, <2>3, <2>4
<1>17. Refetched'
  <2> SUFFICES ASSUME NEW s \in Tab, NEW d \in Acked(s)'
               PROVE  Awaited(s, d)' /\ Covered(s, d)'
    BY DEF Refetched
  <2>1. CASE s = t
    <3>1. q \in Listings(t)' /\ Shows(q, d)'
      BY <1>7, <1>16 DEF Shows
    <3>2. \A p \in Listings(t) : p < q
      BY <1>2, <1>7, <1>15 DEF Listings, Pending
    <3>3. Awaited(t, d)'
      BY <1>16, <3>1, <3>2 DEF Awaited
    <3> QED
      BY <2>1, <3>1, <3>3 DEF Covered
  <2>2. CASE s # t
    <3>1. d \in Acked(s) /\ d \in Request \ {q, r}
      <4>1. /\ d \in Of(s)' /\ d \notin past' /\ call'[d].kind \in Changes
            /\ pc'[d] = "done" /\ result'[d] = "ok"
        BY DEF Acked
      <4>2. d \in Of(s) /\ d # r
        BY <1>14, <2>2, <4>1
      <4>3. d \in Request \ {q, r}
        BY <1>7, <4>1, <4>2 DEF Of
      <4> QED
        BY <1>6, <1>7, <4>1, <4>2, <4>3 DEF Acked
    <3>2. \A p \in Request \ {q, r} : Shows(p, d)' <=> Shows(p, d)
      BY <1>6, <1>7, <3>1 DEF Shows, Account
    <3>3. \A p \in Listings(s) \cup ({notes[s]} \ {None}) : Shows(p, d) => Shows(p, d)'
      BY <1>12, <1>15, <3>2
    <3> QED
      BY <1>6, <1>16, <2>2, <3>1, <3>3, KeptForTab DEF IInv
  <2> QED
    BY <2>1, <2>2
<1> QED
  BY <1>8, <1>9, <1>10, <1>13, <1>17 DEF IInv

-----------------------------------------------------------------------------
LEMMA IInvInit == Init => IInv
<1> SUFFICES ASSUME Init PROVE IInv
  OBVIOUS
<1>1. TypeOK
  BY DEF Init, TypeOK
<1>2. Tied
  BY DEF Init, Tied
<1>3. Sent
  BY DEF Init, Sent, Unsent, Account
<1>4. Displayed
  BY DEF Init, Displayed
<1>5. Refetched
  <2>1. \A t \in Tab : Acked(t) = {}
    BY DEF Init, Acked, Of
  <2> QED
    BY <2>1 DEF Refetched
<1> QED
  BY <1>1, <1>2, <1>3, <1>4, <1>5 DEF IInv

LEMMA IInvStep == IInv /\ [Next]_vars => IInv'
<1> SUFFICES ASSUME IInv, [Next]_vars PROVE IInv'
  OBVIOUS
<1>1. CASE \E t \in Tab : Logout(t) \/ Edit(t) \/ Cancel(t)
  BY <1>1, LogoutStep, EditStep
<1>2. CASE \E t \in Tab, r \in Request :
              \/ \E u \in User, k \in Token : Login(t, u, k, r)
              \/ Reload(t, r)
              \/ \E kind \in Changes : Change(t, kind, r)
  BY <1>2, LoginStep, ReloadStep, ChangeStep
<1>3. CASE \E k \in Token : Expire(k)
  BY <1>3, ExpireStep
<1>4. CASE \E r \in Request : Handle(r) \/ Listed(r) \/ ListRefused(r) \/ ListFailed(r)
                              \/ ChangeFailed(r) \/ \E q \in Request : Changed(r, q)
  BY <1>4, HandleStep, ListedStep, ListRefusedStep, ListFailedStep, ChangeFailedStep, ChangedStep
<1>5. CASE UNCHANGED vars
  <2>1. UNCHANGED <<token, email, owner, expired, version, userEmail, notes, editNote, error,
                    call, pc, result, served, dropped, switched, past, late, overtaken>>
    BY <1>5 DEF vars, storage, backend, page, network, history
  <2>2. TypeOK' /\ Tied' /\ Displayed'
    BY <2>1 DEF IInv, TypeOK, Tied, Displayed, Of
  <2>3. Sent'
    BY <2>1 DEF IInv, Sent, Account
  <2>4. Refetched'
    BY <2>1 DEF IInv, Refetched, Acked, Awaited, Covered, Listings, Pending, Of, Shows, Account
  <2> QED
    BY <2>2, <2>3, <2>4 DEF IInv
<1> QED
  <2>1. Next \/ UNCHANGED vars
    OBVIOUS
  <2> QED
    BY <1>1, <1>2, <1>3, <1>4, <1>5, <2>1, Zenon DEF Next

LEMMA Invariance == Spec => []IInv
BY IInvInit, IInvStep, PTL DEF Spec

(* The state is well formed; in particular the two keys that LoginForm and *)
(* App write into localStorage come and go together.                       *)
THEOREM TypeCorrect == Spec => []TypeOK
<1>1. IInv => TypeOK
  BY DEF IInv
<1> QED
  BY <1>1, Invariance, PTL

(* A request acts on the account the tab showed when it was made, unless   *)
(* another tab had changed the login: getAuthHeader reads the token when   *)
(* the request is sent, and App never shows a user whose token is gone.    *)
THEOREM RightAccountAlways == Spec => []RightAccount
<1>1. IInv => RightAccount
  BY DEF IInv, Sent, RightAccount
<1> QED
  BY <1>1, Invariance, PTL

(* Notes of another account than the one shown come from an answer that    *)
(* outlived its login, an edit form that did, or another tab's login, and  *)
(* from nothing else.                                                      *)
THEOREM ShownAlwaysExplained == Spec => []ShownExplained
<1>1. IInv => ShownExplained
  <2> SUFFICES ASSUME IInv, NEW t \in Tab, userEmail[t] # None
               PROVE  /\ notes[t] # None /\ notes[t] \notin late /\ Unmixed(notes[t])
                            => Account(notes[t]) = userEmail[t]
                      /\ editNote[t] # None /\ editNote[t] \notin past /\ Unmixed(editNote[t])
                            => Account(editNote[t]) = userEmail[t]
    BY DEF ShownExplained
  <2>1. ASSUME notes[t] # None, notes[t] \notin late, Unmixed(notes[t])
        PROVE  Account(notes[t]) = userEmail[t]
    <3>1. call[notes[t]].shown = userEmail[t] /\ notes[t] \in Request
      BY <2>1 DEF IInv, TypeOK, Displayed, Unmixed
    <3> QED
      BY <2>1, <3>1 DEF IInv, Sent, Unmixed
  <2>2. ASSUME editNote[t] # None, editNote[t] \notin past, Unmixed(editNote[t])
        PROVE  Account(editNote[t]) = userEmail[t]
    <3>1. editNote[t] \in Request /\ call[editNote[t]].tab = t
      BY <2>2 DEF IInv, Displayed, Of
    <3>2. pc[editNote[t]] # "idle"
      BY <3>1, NoneAssumption DEF IInv, Sent, Unsent
    <3> QED
      BY <2>2, <3>1, <3>2 DEF IInv, Sent, Unmixed
  <2> QED
    BY <2>1, <2>2
<1> QED
  BY <1>1, Invariance, PTL

(* Once nothing is under way and no error is shown, a tab shows what it    *)
(* changed during this login, up to listings that overtook each other:     *)
(* the listing each acknowledged change asks for is always still awaited,  *)
(* shown, or outrun by a later one.                                        *)
THEOREM OwnChangesAlwaysShown == Spec => []OwnChangesShown
<1>1. IInv => OwnChangesShown
  <2> SUFFICES ASSUME IInv, NEW t \in Tab, Pending(t) = {}, ~error[t],
                      NEW r \in Of(t) \ past,
                      call[r].kind \in Changes, pc[r] = "done", result[r] = "ok"
               PROVE  /\ notes[t] # None
                      /\ \/ notes[t] \in overtaken
                         \/ Account(notes[t]) # Account(r)
                         \/ served[notes[t]] >= served[r]
    BY DEF OwnChangesShown
  <2>1. Listings(t) = {} /\ r \in Acked(t)
    BY DEF Listings, Acked
  <2>2. notes[t] # None /\ (notes[t] \in overtaken \/ Shows(notes[t], r))
    BY <2>1 DEF IInv, Refetched, Covered
  <2>3. pc[notes[t]] = "done" /\ result[notes[t]] = "ok"
    BY <2>2 DEF IInv, Displayed
  <2> QED
    BY <2>2, <2>3 DEF Shows
<1> QED
  BY <1>1, Invariance, PTL

-----------------------------------------------------------------------------
(* A single tab is all the client was written for: no storage event tells  *)
(* a tab of the others.                                                    *)
OneTab == \A s, t \in Tab : s = t

(* It shows the user of localStorage, and every call it ever made acts on  *)
(* the account it showed then, or on none (App.jsx:33-37, 59-80,           *)
(* api/notes.js:3-7).                                                      *)
InStep ==
    /\ \A t \in Tab : userEmail[t] = email
    /\ \A r \in Request : Account(r) = call[r].shown

(* Its notes and its edit form are of the account it shows unless they     *)
(* outlived their login, and its own changes are shown once nothing is     *)
(* under way, unless listings came late or overtook each other             *)
(* (App.jsx:39-57, 82-100).                                                *)
ShownOfAccount ==
    \A t \in Tab : userEmail[t] # None =>
        /\ notes[t] # None /\ notes[t] \notin late => Account(notes[t]) = userEmail[t]
        /\ editNote[t] # None /\ editNote[t] \notin past => Account(editNote[t]) = userEmail[t]
        /\ Pending(t) = {} /\ ~error[t] =>
             \A r \in Of(t) \ past :
                call[r].kind \in Changes /\ pc[r] = "done" /\ result[r] = "ok" =>
                    /\ notes[t] # None
                    /\ notes[t] \in overtaken \cup late \/ served[notes[t]] >= served[r]

(* A call made with the token and for the user of localStorage.            *)
LEMMA InStepCall ==
    ASSUME TypeOK, Tied, InStep, NEW r \in Request, NEW c \in Calls,
           c.token = token, c.shown = email,
           call' = [call EXCEPT ![r] = c], UNCHANGED owner
    PROVE  \A q \in Request : Account(q)' = call'[q].shown
<1>1. \A q \in Request \ {r} : call'[q] = call[q]
  BY DEF TypeOK
<1>2. call'[r] = c
  BY DEF TypeOK
<1>3. c.token = None <=> c.shown = None
  BY DEF TypeOK
<1>4. c.token # None => owner[c.token] = c.shown
  BY DEF Tied
<1> QED
  BY <1>1, <1>2, <1>3, <1>4 DEF InStep, Account

LEMMA OneTabLogin ==
    ASSUME OneTab, TypeOK, Sent, InStep, NEW t \in Tab, NEW r \in Request,
           NEW u \in User, NEW k \in Token, Login(t, u, k, r)
    PROVE  InStep' /\ switched' = {}
<1>1. \A s \in Tab : s = t
  BY DEF OneTab
<1>2. (\A s \in Tab : userEmail'[s] = email') /\ switched' = {}
  BY <1>1 DEF Login, TypeOK
<1>3. ASSUME NEW q \in Request \ {r} PROVE Account(q)' = call'[q].shown
  <2>1. call'[q] = call[q] /\ call[q].token # k
    BY NoneAssumption DEF Login, Send, Sent, TypeOK
  <2>2. Account(q)' = Account(q)
    BY <2>1 DEF Login, Account, TypeOK
  <2> QED
    BY <2>1, <2>2 DEF InStep
<1>4. call'[r] = Call("list", t, k, u, FALSE) /\ owner'[k] = u
  BY DEF Login, Send, TypeOK
<1>5. Account(r)' = call'[r].shown
  BY <1>4, NoneAssumption DEF Account, Call
<1> QED
  BY <1>2, <1>3, <1>5 DEF InStep

Solo == InStep /\ switched = {}

LEMMA OneTabStep ==
    ASSUME OneTab
    PROVE  IInv /\ Solo /\ [Next]_vars => Solo'
<1> SUFFICES ASSUME IInv, InStep, switched = {}, [Next]_vars
             PROVE  InStep' /\ switched' = {}
  BY DEF Solo
<1> USE DEF IInv
<1>1. ASSUME NEW t \in Tab, NEW r \in Request, NEW u \in User, NEW k \in Token,
             Login(t, u, k, r)
      PROVE  InStep' /\ switched' = {}
  BY <1>1, OneTabLogin
<1>2. ASSUME NEW t \in Tab, NEW kind \in Changes \cup {"list"}
      PROVE  Call(kind, t, token, email, FALSE) \in Calls
  BY <1>2 DEF Call, Calls, TypeOK
<1>3. ASSUME NEW t \in Tab, NEW r \in Request, Reload(t, r)
      PROVE  InStep' /\ switched' = {}
  <2>1. (\A s \in Tab : userEmail'[s] = email') /\ switched' = {} /\ UNCHANGED owner
    BY <1>3 DEF Reload, TypeOK, InStep, storage, backend
  <2>2. CASE UNCHANGED call
    BY <2>1, <2>2 DEF InStep, Account
  <2>3. CASE call' = [call EXCEPT ![r] = Call("list", t, token, email, FALSE)]
    BY <2>1, <2>3, <1>2, InStepCall DEF InStep, Call
  <2> QED
    BY <1>3, <2>2, <2>3 DEF Reload, Send
<1>4. ASSUME NEW t \in Tab, NEW r \in Request, NEW kind \in Changes, Change(t, kind, r)
      PROVE  InStep' /\ switched' = {}
  <2>1. UNCHANGED <<userEmail, email, owner, switched>>
    BY <1>4 DEF Change, storage, backend, page, history
  <2>2. call' = [call EXCEPT ![r] = Call(kind, t, token, email, FALSE)]
    <3>1. (t \in switched) = FALSE /\ userEmail[t] = email
      BY DEF InStep
    <3> QED
      BY <1>4, <3>1, Zenon DEF Change, Send
  <2> QED
    BY <2>1, <2>2, <1>2, InStepCall DEF InStep, Call
<1>5. ASSUME NEW r \in Request, NEW q \in Request, Changed(r, q)
      PROVE  InStep' /\ switched' = {}
  <2>1. UNCHANGED <<userEmail, email, owner, switched>>
    BY <1>5 DEF Changed, storage, backend, history
  <2>2. call[r].tab \in Tab
    BY <1>5 DEF Changed, Sent, Calls
  <2>3. call' = [call EXCEPT ![q] =
            Call("list", call[r].tab, token, email, FALSE)]
    <3>1. (call[r].tab \in switched) = FALSE /\ userEmail[call[r].tab] = email
      BY <2>2 DEF InStep
    <3> QED
      BY <1>5, <3>1, Zenon DEF Changed
  <2> QED
    BY <2>1, <2>2, <2>3, <1>2, InStepCall DEF InStep, Call
<1>6. ASSUME NEW t \in Tab, handleLogout(t), UNCHANGED <<call, owner>>
      PROVE  InStep' /\ switched' = {}
  BY <1>6 DEF handleLogout, OneTab, TypeOK, InStep, Account
<1>7. ASSUME UNCHANGED <<userEmail, email, owner, switched, call>>
      PROVE  InStep' /\ switched' = {}
  BY <1>7 DEF InStep, Account
<1>8. ASSUME NEW r \in Request, ListRefused(r) PROVE InStep' /\ switched' = {}
  <2>1. call[r].tab \in Tab
    BY <1>8 DEF ListRefused, Arrive, Sent, Calls
  <2> QED
    BY <1>6, <1>8, <2>1 DEF ListRefused, Arrive, backend
<1>9. ASSUME NEW t \in Tab, Logout(t) PROVE InStep' /\ switched' = {}
  BY <1>6, <1>9 DEF Logout, backend, network
<1>10. ASSUME NEW r \in Request,
              Handle(r) \/ Listed(r) \/ ListFailed(r) \/ ChangeFailed(r)
       PROVE  InStep' /\ switched' = {}
  BY <1>7, <1>10 DEF Handle, Listed, ListFailed, ChangeFailed, Arrive, Lost, storage,
     backend, page, history
<1>11. ASSUME NEW t \in Tab, Edit(t) \/ Cancel(t) PROVE InStep' /\ switched' = {}
  BY <1>7, <1>11 DEF Edit, Cancel, storage, backend, network, history
<1>12. ASSUME NEW k \in Token, Expire(k) PROVE InStep' /\ switched' = {}
  BY <1>7, <1>12 DEF Expire, storage, page, network, history
<1>13. CASE UNCHANGED vars
  BY <1>7, <1>13 DEF vars, storage, backend, page, network, history
<1> QED
  BY <1>1, <1>3, <1>4, <1>5, <1>8, <1>9, <1>10, <1>11, <1>12, <1>13 DEF Next

(* With one tab a call always acts on the account that was shown.          *)
THEOREM OneTabInStep ==
    ASSUME OneTab
    PROVE  Spec => []InStep
<1>1. Init => Solo
  BY DEF Init, Solo, InStep, Account, Unsent
<1>2. Solo => InStep
  BY DEF Solo
<1> QED
  BY <1>1, <1>2, OneTabStep, Invariance, PTL DEF Spec

(* With one tab, what is shown is wrong only by what came late.            *)
THEOREM OneTabShown ==
    ASSUME OneTab
    PROVE  Spec => []ShownOfAccount
<1>1. IInv /\ InStep /\ OwnChangesShown => ShownOfAccount
  <2> SUFFICES ASSUME IInv, InStep, OwnChangesShown, NEW t \in Tab, userEmail[t] # None
               PROVE  /\ notes[t] # None /\ notes[t] \notin late =>
                            Account(notes[t]) = userEmail[t]
                      /\ editNote[t] # None /\ editNote[t] \notin past =>
                            Account(editNote[t]) = userEmail[t]
                      /\ Pending(t) = {} /\ ~error[t] =>
                           \A r \in Of(t) \ past :
                              call[r].kind \in Changes /\ pc[r] = "done" /\ result[r] = "ok" =>
                                  /\ notes[t] # None
                                  /\ \/ notes[t] \in overtaken \cup late
                                     \/ served[notes[t]] >= served[r]
    BY DEF ShownOfAccount
  <2> USE DEF IInv
  <2>1. ASSUME notes[t] # None, notes[t] \notin late
        PROVE  Account(notes[t]) = userEmail[t]
    <3>1. /\ notes[t] \in Request /\ result[notes[t]] = "ok"
          /\ call[notes[t]].shown \in {None, userEmail[t]}
      BY <2>1 DEF Displayed, Of
    <3>2. Account(notes[t]) # None
      BY <3>1 DEF Sent, Account
    <3> QED
      BY <3>1, <3>2 DEF InStep
  <2>2. ASSUME NEW r \in Of(t) \ past
        PROVE  Account(r) = userEmail[t]
    <3>1. r \in Request /\ call[r].tab = t
      BY DEF Of
    <3>2. pc[r] # "idle"
      BY <3>1, NoneAssumption DEF Sent, Unsent
    <3> QED
      BY <3>1, <3>2 DEF Sent, InStep
  <2>3. editNote[t] # None => editNote[t] \in Of(t)
    BY DEF Displayed
  <2>4. ASSUME Pending(t) = {}, ~error[t], NEW r \in Of(t) \ past,
               call[r].kind \in Changes, pc[r] = "done", result[r] = "ok"
        PROVE  /\ notes[t] # None
               /\ \/ notes[t] \in overtaken \cup late
                  \/ served[notes[t]] >= served[r]
    BY <2>1, <2>2, <2>4 DEF OwnChangesShown
  <2> QED
    BY <2>1, <2>2, <2>3, <2>4
<1> QED
  BY <1>1, Invariance, OneTabInStep, OwnChangesAlwaysShown, PTL
=============================================================================
