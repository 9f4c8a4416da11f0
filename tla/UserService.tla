---------------------------- MODULE UserService ----------------------------
(***************************************************************************)
(* Concurrent calls of src/internal/user/service.go on one repository.     *)
(* The repository does each of its operations at once (UserRepo implements *)
(* UserDirectory), but UpdateUser and DeleteByEmail use two of them.       *)
(***************************************************************************)
EXTENDS Users

CONSTANTS
    Calls,    \* the calls, each made once
    Unset,    \* a name or an e-mail left empty in an update
    Requests  \* what may be asked, of the forms below

ASSUME RequestsAssumption ==
    Requests \subseteq
        [kind : {"register"}, user : User]
        \cup [kind : {"update"}, id : Ids,
              name : Names \cup {Unset}, email : Emails \cup {Unset}]
        \cup [kind : {"remove"}, id : Ids]
        \cup [kind : {"delete"}, email : Emails]

ASSUME UnsetAssumption == Unset \notin Calls

VARIABLES
    dir,      \* the users in the repository
    pc,       \* where each call is
    request,  \* what each call asked
    found,    \* the id and the user that the first half of a call read
    result,   \* how each call ended
    made,     \* the ids generated so far
    owner     \* for each id, the call whose registration generated it

vars == <<dir, pc, request, found, result, made, owner>>

Nothing == [id |-> 0, user |-> NoUser]

(* Mistakes that the properties below tell from the code: each definition   *)
(* of this block is a wrong version of the one its name starts with. *)
AllowedIfThere(w) == w.kind # "add" => dir[w.id] # NoUser
TargetByEmail(c) ==
    IF \E i \in Ids : Has(dir[i], Key[request[c].email])
    THEN CHOOSE i \in Ids : Has(dir[i], Key[request[c].email])
    ELSE found[c].id

Init ==
    /\ dir = Empty
    /\ pc = [c \in Calls |-> "idle"]
    /\ request = [c \in Calls |-> Unset]
    /\ found = [c \in Calls |-> Nothing]
    /\ result = [c \in Calls |-> "none"]
    /\ made = {}
    /\ owner = [i \in Ids |-> Unset]

Call(c) ==
    /\ pc[c] = "idle"
    /\ \E r \in Requests :
         /\ r.kind \in {"update", "remove"} => r.id \in made
         /\ request' = [request EXCEPT ![c] = r]
    /\ pc' = [pc EXCEPT ![c] = "called"]
    /\ UNCHANGED <<dir, found, result, made, owner>>

Asks(c, kind) == request[c] # Unset /\ request[c].kind = kind

End(c, answer) ==
    /\ pc' = [pc EXCEPT ![c] = "done"]
    /\ result' = [result EXCEPT ![c] = answer]

(* One write of the repository ends the call: done, refused, or failed in  *)
(* the storage. *)
Allowed(w) == Valid(dir, w)

Write(c, w) ==
    \/ Allowed(w) /\ dir' = Applied(dir, w) /\ End(c, "ok")
    \/ ~Allowed(w) /\ End(c, "refused") /\ UNCHANGED dir
    \/ Allowed(w) /\ End(c, "storage") /\ UNCHANGED dir

(* Register and AddUser *)
Register(c) ==
    /\ pc[c] = "called" /\ Asks(c, "register")
    /\ \E i \in Ids \ made :
         /\ made' = made \cup {i}
         /\ owner' = [owner EXCEPT ![i] = c]
         /\ Write(c, AddOf(i, request[c].user))
    /\ UNCHANGED <<request, found>>

RemoveUser(c) ==
    /\ pc[c] = "called" /\ Asks(c, "remove")
    /\ Write(c, RemoveOf(request[c].id))
    /\ UNCHANGED <<request, found, made, owner>>

(* UpdateUser: repo.Get *)
GetForUpdate(c) ==
    /\ pc[c] = "called" /\ Asks(c, "update")
    /\ LET i == request[c].id
       IN  \/ /\ There(dir, i)
              /\ found' = [found EXCEPT ![c] = [id |-> i, user |-> dir[i]]]
              /\ pc' = [pc EXCEPT ![c] = "read"]
              /\ UNCHANGED result
           \/ /\ ~There(dir, i)
              /\ End(c, "refused")
              /\ UNCHANGED found
    /\ UNCHANGED <<dir, request, made, owner>>

(* The user that was read, with the fields that were asked for. *)
Merged(c) ==
    LET r == request[c]
        u == found[c].user
    IN  [name |-> IF r.name = Unset THEN u.name ELSE r.name,
         email |-> IF r.email = Unset THEN u.email ELSE r.email]

(* UpdateUser: repo.Update *)
PutUpdate(c) ==
    /\ pc[c] = "read" /\ Asks(c, "update")
    /\ Write(c, UpdateOf(found[c].id, Merged(c)))
    /\ UNCHANGED <<request, found, made, owner>>

(* DeleteByEmail: Login, with the right password or with a wrong one *)
LoginForDelete(c) ==
    /\ pc[c] = "called" /\ Asks(c, "delete")
    /\ \/ \E i \in WithEmail(dir, Key[request[c].email]) :
            /\ found' = [found EXCEPT ![c] = [id |-> i, user |-> dir[i]]]
            /\ pc' = [pc EXCEPT ![c] = "read"]
            /\ UNCHANGED result
       \/ End(c, "refused") /\ UNCHANGED found
    /\ UNCHANGED <<dir, request, made, owner>>

(* The user who logged in is removed, by id. *)
Target(c) == found[c].id

(* DeleteByEmail: repo.Remove *)
RemoveLoggedIn(c) ==
    /\ pc[c] = "read" /\ Asks(c, "delete")
    /\ Write(c, RemoveOf(Target(c)))
    /\ UNCHANGED <<request, found, made, owner>>

Serve(c) ==
    \/ Register(c) \/ RemoveUser(c)
    \/ GetForUpdate(c) \/ PutUpdate(c)
    \/ LoginForDelete(c) \/ RemoveLoggedIn(c)

Next == \E c \in Calls : Call(c) \/ Serve(c)

Spec == Init /\ [][Next]_vars

-----------------------------------------------------------------------------
(* Every variable keeps its type. *)
TypeOK ==
    /\ dir \in Directories
    /\ pc \in [Calls -> {"idle", "called", "read", "done"}]
    /\ request \in [Calls -> Requests \cup {Unset}]
    /\ found \in [Calls -> [id : Ids \cup {0}, user : User \cup {NoUser}]]
    /\ result \in [Calls -> {"none", "ok", "refused", "storage"}]
    /\ made \subseteq Ids
    /\ owner \in [Ids -> Calls \cup {Unset}]

(* However the calls interleave, no two users share an e-mail. *)
EmailsUnique == Distinct(dir)

(* A user is there if and only if its registration succeeded and no call   *)
(* that removed this very user did: an update that read the user before it *)
(* was removed does not bring it back, and a deletion hits the user who    *)
(* logged in, whatever became of the e-mail since. *)
Removed(c, i) ==
    /\ result[c] = "ok"
    /\ \/ Asks(c, "remove") /\ request[c].id = i
       \/ Asks(c, "delete") /\ found[c].id = i

RegisteredStay ==
    \A i \in Ids :
        dir[i] # NoUser <=>
            /\ owner[i] # Unset /\ result[owner[i]] = "ok"
            /\ \A c \in Calls : ~Removed(c, i)
=============================================================================
