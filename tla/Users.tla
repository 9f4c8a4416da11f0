------------------------------- MODULE Users -------------------------------
(***************************************************************************)
(* What a user.Repository holds and what each of its writes makes of it:   *)
(* src/internal/storage/memory/user_repo.go without its lock.  A           *)
(* directory maps ids to users; the index of e-mails is determined by it.  *)
(***************************************************************************)
EXTENDS Integers

CONSTANTS
    Ids,     \* the ids that Service.generateID can return
    Names,   \* the names of users
    Emails,  \* e-mail addresses, as they are written
    Key,     \* [Emails -> the address lower-cased and trimmed]
    NoUser   \* the absence of a user

User == [name : Names, email : Emails]
Directories == [Ids -> User \cup {NoUser}]
Empty == [i \in Ids |-> NoUser]

ASSUME UsersAssumption == Ids \subseteq Nat \ {0} /\ NoUser \notin User

Keys == {Key[e] : e \in Emails}
Has(u, k) == u # NoUser /\ Key[u.email] = k

(* Get and GetByEmail: whether there is a user, and whose e-mail this is. *)
There(d, i) == d[i] # NoUser
WithEmail(d, k) == {i \in Ids : Has(d[i], k)}

(* A write: the user with this id becomes this user, or goes away. *)
AddOf(i, u) == [kind |-> "add", id |-> i, user |-> u]
UpdateOf(i, u) == [kind |-> "update", id |-> i, user |-> u]
RemoveOf(i) == [kind |-> "remove", id |-> i, user |-> NoUser]

Adds == {AddOf(i, u) : i \in Ids, u \in User}
Updates == {UpdateOf(i, u) : i \in Ids, u \in User}
Removes == {RemoveOf(i) : i \in Ids}
Writes == Adds \cup Updates \cup Removes

(* The e-mail of the write is not that of another user. *)
Free(d, w) == WithEmail(d, Key[w.user.email]) \subseteq {w.id}

(* The checks of Add, Update and Remove. *)
AddValid(d, w) == w.kind = "add" /\ Free(d, w)
UpdateValid(d, w) == w.kind = "update" /\ There(d, w.id) /\ Free(d, w)
RemoveValid(d, w) == w.kind = "remove" /\ There(d, w.id)

Valid(d, w) == AddValid(d, w) \/ UpdateValid(d, w) \/ RemoveValid(d, w)

Applied(d, w) == [d EXCEPT ![w.id] = w.user]

(* No two users of a directory share an e-mail. *)
Distinct(d) ==
    \A i, k \in Ids : i # k /\ d[i] # NoUser => ~Has(d[k], Key[d[i].email])
=============================================================================
