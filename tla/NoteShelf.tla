----------------------------- MODULE NoteShelf -----------------------------
(***************************************************************************)
(* What CloudNotes promises about notes and what hangs off them, without   *)
(* the commits, the disk and the threads that provide it: every request    *)
(* takes effect at one instant or not at all.  An attachment can be        *)
(* fetched from the instant it is attached until it is detached, a revoked *)
(* link never works again, and what is purged is an empty note that had    *)
(* its time in the trash and never comes back.                             *)
(*                                                                         *)
(* Serial says whether requests are served one at a time.  Then a new link *)
(* replaces all active ones and a note in the trash is left alone; without *)
(* it a request that found its note live may take effect after another one *)
(* moved it to the trash, and a new link may leave active ones standing.   *)
(***************************************************************************)
CONSTANTS Note, Item, None, Serial

VARIABLES
    note,       \* "live", in the "trash", there for 30 days ("old"), "gone"
    link,       \* what became of the share link each item is, if it is one
    of,         \* the note an item hangs off
    shares,     \* grants of a note to another user
    files,      \* attachments that can be listed and fetched
    expired     \* links whose time has run out

items == <<link, of, shares, files>>
vars  == <<note, items, expired>>

Init ==
    /\ note = [n \in Note |-> "live"]
    /\ link = [a \in Item |-> "none"]
    /\ of = [a \in Item |-> None]
    /\ shares = {}
    /\ files = {}
    /\ expired = {}

Active(n) == {a \in Item : link[a] = "active" /\ of[a] = n}
Empty(n) == \A a \in Item : of[a] = n => link[a] = "none" /\ a \notin shares \cup files
Editable(n) == note[n] = "live" \/ (note[n] = "trash" /\ ~Serial)

Place(a, n) == of[a] = None /\ of' = [of EXCEPT ![a] = n]
Revoked(R) == [a \in Item |-> IF a \in R THEN "revoked" ELSE link[a]]

Attach(a, n) ==
    /\ Editable(n)
    /\ Place(a, n)
    /\ files' = files \cup {a}
    /\ UNCHANGED <<note, link, shares, expired>>

Detach(a) ==
    /\ a \in files
    /\ Editable(of[a])
    /\ files' = files \ {a}
    /\ UNCHANGED <<note, link, of, shares, expired>>

Grant(a, n) ==
    /\ Editable(n)
    /\ Place(a, n)
    /\ shares' = shares \cup {a}
    /\ UNCHANGED <<note, link, files, expired>>

Withdraw(a) ==
    /\ a \in shares
    /\ Editable(of[a])
    /\ shares' = shares \ {a}
    /\ UNCHANGED <<note, link, of, files, expired>>

(* R: the links that the new one replaces. *)
Share(a, n, R) ==
    /\ Editable(n)
    /\ Place(a, n)
    /\ Serial => R = Active(n)
    /\ link' = [Revoked(R) EXCEPT ![a] = "active"]
    /\ UNCHANGED <<note, shares, files, expired>>

Unshare(n) ==
    /\ Editable(n)
    /\ link' = Revoked(Active(n))
    /\ UNCHANGED <<note, of, shares, files, expired>>

Move(n, s) == note' = [note EXCEPT ![n] = s] /\ UNCHANGED <<items, expired>>

Trash(n) == note[n] = "live" /\ Move(n, "trash")

Restore(n) == note[n] \in {"trash", "old"} /\ Move(n, "live")

Age(n) == note[n] = "trash" /\ Move(n, "old")

Expire(a) ==
    /\ link[a] # "none"
    /\ expired' = expired \cup {a}
    /\ UNCHANGED <<note, items>>

(* The jobs: all that is due, or nothing. *)
Lapse ==
    /\ link' = Revoked({a \in expired : link[a] = "active"})
    /\ UNCHANGED <<note, of, shares, files, expired>>

Purge ==
    /\ \A n \in Note : note[n] = "old" => Empty(n)
    /\ note' = [n \in Note |-> IF note[n] = "old" THEN "gone" ELSE note[n]]
    /\ UNCHANGED <<items, expired>>

Next ==
    \/ \E n \in Note :
        \/ Trash(n) \/ Restore(n) \/ Age(n) \/ Unshare(n)
        \/ \E a \in Item :
            Attach(a, n) \/ Grant(a, n) \/ \E R \in SUBSET Active(n) : Share(a, n, R)
    \/ \E a \in Item : Detach(a) \/ Withdraw(a) \/ Expire(a)
    \/ Lapse
    \/ Purge

Spec == Init /\ [][Next]_vars
=============================================================================
