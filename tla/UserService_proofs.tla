------------------------- MODULE UserService_proofs -------------------------
(***************************************************************************)
(* Proofs about UserService: its types, the uniqueness of e-mails, and     *)
(* that users stay from their registration to their own removal, for any   *)
(* number of calls, ids and addresses.                                     *)
(***************************************************************************)
EXTENDS UserService, TLAPS

(* A call that has not ended has no result, and one between its two halves *)
(* holds a user and its id. *)
CallsInOrder ==
    \A c \in Calls :
        /\ pc[c] # "done" => result[c] = "none"
        /\ pc[c] = "read" => found[c].id \in Ids /\ found[c].user \in User

(* What is in the directory, and whatever a call names, was generated. *)
IdsAreMade ==
    /\ \A i \in Ids \ made : dir[i] = NoUser /\ owner[i] = Unset
    /\ \A i \in Ids : owner[i] # Unset => pc[owner[i]] = "done"
    /\ \A c \in Calls : found[c].id \in made \cup {0}
    /\ \A c \in Calls :
         Asks(c, "update") \/ Asks(c, "remove") => request[c].id \in made

IInv == TypeOK /\ CallsInOrder /\ IdsAreMade /\ EmailsUnique /\ RegisteredStay

-----------------------------------------------------------------------------
(* What a request of each kind carries. *)
LEMMA RequestForms ==
    ASSUME NEW r \in Requests
    PROVE  /\ r.kind = "register" => r.user \in User
           /\ r.kind = "update" => /\ r.id \in Ids
                                   /\ r.name \in Names \cup {Unset}
                                   /\ r.email \in Emails \cup {Unset}
           /\ r.kind = "remove" => r.id \in Ids
           /\ r.kind = "delete" => r.email \in Emails
  BY RequestsAssumption

(* A write that passes its checks leaves a directory whose e-mails are     *)
(* distinct. *)
LEMMA AppliedIsDirectory ==
    ASSUME NEW d \in Directories, NEW w,
           w.id \in Ids, w.user \in User \cup {NoUser}
    PROVE  Applied(d, w) \in Directories
  BY DEF Directories, Applied

LEMMA ValidKeepsDistinct ==
    ASSUME NEW d \in Directories, NEW w, Valid(d, w), Distinct(d),
           w.id \in Ids, w.user \in User \cup {NoUser},
           w.kind = "remove" => w.user = NoUser
    PROVE  Distinct(Applied(d, w))
<1> DEFINE e == Applied(d, w)
<1>1. e[w.id] = w.user /\ \A i \in Ids : i # w.id => e[i] = d[i]
  BY DEF Directories, Applied
<1>2. SUFFICES ASSUME NEW i \in Ids, NEW k \in Ids, i # k, e[i] # NoUser,
                      Has(e[k], Key[e[i].email])
               PROVE  FALSE
  BY DEF Distinct
<1>3. e[k] # NoUser /\ Key[e[k].email] = Key[e[i].email]
  BY <1>2 DEF Has
<1>4. CASE i # w.id /\ k # w.id
  BY <1>1, <1>2, <1>4 DEF Distinct
<1>5. CASE i = w.id
  <2>1. w.user # NoUser /\ Free(d, w)
    BY <1>1, <1>2, <1>5 DEF Valid, AddValid, UpdateValid, RemoveValid
  <2>2. d[k] = e[k] /\ Has(d[k], Key[w.user.email])
    BY <1>1, <1>2, <1>5
  <2> QED
    BY <2>1, <2>2, <1>2, <1>5 DEF Free, WithEmail
<1>6. CASE k = w.id
  <2>1. w.user # NoUser /\ Free(d, w)
    BY <1>1, <1>3, <1>6 DEF Valid, AddValid, UpdateValid, RemoveValid
  <2>2. d[i] = e[i] /\ Has(d[i], Key[w.user.email])
    BY <1>1, <1>2, <1>3, <1>6 DEF Has
  <2> QED
    BY <2>1, <2>2, <1>2, <1>6 DEF Free, WithEmail
<1> QED
  BY <1>4, <1>5, <1>6

(* A write of one call: the directory keeps its type and its e-mails       *)
(* distinct, and the call ends. *)
LEMMA WriteEnds ==
    ASSUME TypeOK, EmailsUnique, NEW c \in Calls, NEW w, Write(c, w),
           w.id \in Ids, w.user \in User \cup {NoUser},
           w.kind = "remove" => w.user = NoUser
    PROVE  /\ dir' \in Directories /\ Distinct(dir')
           /\ pc' = [pc EXCEPT ![c] = "done"]
           /\ \E answer \in {"ok", "refused", "storage"} :
                result' = [result EXCEPT ![c] = answer]
           /\ result'[c] = "ok" => Valid(dir, w) /\ dir' = Applied(dir, w)
           /\ result'[c] # "ok" => dir' = dir
<1>1. dir \in Directories /\ Distinct(dir) /\ result \in [Calls -> {"none", "ok", "refused", "storage"}]
  BY DEF TypeOK, EmailsUnique
<1>2. CASE Allowed(w) /\ dir' = Applied(dir, w) /\ End(c, "ok")
  BY <1>1, <1>2, AppliedIsDirectory, ValidKeepsDistinct DEF Allowed, End
<1>3. CASE End(c, "refused") /\ UNCHANGED dir
  BY <1>1, <1>3 DEF End
<1>4. CASE End(c, "storage") /\ UNCHANGED dir
  BY <1>1, <1>4 DEF End
<1> QED
  BY <1>2, <1>3, <1>4 DEF Write
-----------------------------------------------------------------------------
(* The invariant at the start, and after each step. *)
LEMMA InitIInv == Init => IInv
<1> SUFFICES ASSUME Init PROVE IInv
  OBVIOUS
<1>1. TypeOK
  BY UsersAssumption DEF Init, TypeOK, Empty, Directories, Nothing
<1>2. CallsInOrder /\ IdsAreMade
  BY DEF Init, CallsInOrder, IdsAreMade, Empty, Nothing, Asks
<1>3. EmailsUnique /\ RegisteredStay
  BY DEF Init, EmailsUnique, RegisteredStay, Distinct, Empty
<1> QED
  BY <1>1, <1>2, <1>3 DEF IInv

(* A step that ends a call without a success, or moves it on without an    *)
(* end, and writes nothing. *)
LEMMA QuietStep ==
    ASSUME IInv, NEW c \in Calls, pc[c] # "done",
           UNCHANGED <<dir, made, owner>>,
           \A b \in Calls \ {c} : /\ pc'[b] = pc[b] /\ result'[b] = result[b]
                                  /\ request'[b] = request[b] /\ found'[b] = found[b],
           result'[c] # "ok", TypeOK', CallsInOrder', IdsAreMade'
    PROVE  IInv'
<1>1. EmailsUnique'
  BY DEF IInv, EmailsUnique
<1>2. \A b \in Calls, i \in Ids : Removed(b, i)' <=> Removed(b, i)
  BY DEF IInv, CallsInOrder, Removed, Asks
<1>3. \A i \in Ids : owner[i] # Unset => owner[i] \in Calls \ {c}
  BY DEF IInv, TypeOK, IdsAreMade
<1>4. RegisteredStay'
  BY <1>2, <1>3 DEF IInv, RegisteredStay
<1> QED
  BY <1>1, <1>4 DEF IInv

LEMMA CallIInv == ASSUME IInv, NEW c \in Calls, Call(c) PROVE IInv'
<1>1. PICK r \in Requests : /\ r.kind \in {"update", "remove"} => r.id \in made
                            /\ request' = [request EXCEPT ![c] = r]
  BY DEF Call
<1>2. TypeOK'
  BY <1>1 DEF Call, IInv, TypeOK
<1>3. CallsInOrder'
  BY <1>1 DEF Call, IInv, TypeOK, CallsInOrder
<1>4. IdsAreMade'
  BY <1>1 DEF Call, IInv, TypeOK, IdsAreMade, Asks
<1>5. result'[c] # "ok"
  BY DEF Call, IInv, TypeOK, CallsInOrder
<1> QED
  BY <1>1, <1>2, <1>3, <1>4, <1>5, QuietStep DEF Call, IInv, TypeOK

LEMMA RegisterIInv == ASSUME IInv, NEW c \in Calls, Register(c) PROVE IInv'
<1>1. request[c] \in Requests /\ request[c].user \in User
  BY RequestForms DEF Register, Asks, IInv, TypeOK
<1>2. PICK i \in Ids \ made :
         /\ made' = made \cup {i}
         /\ owner' = [owner EXCEPT ![i] = c]
         /\ Write(c, AddOf(i, request[c].user))
  BY DEF Register
<1> DEFINE w == AddOf(i, request[c].user)
<1>3. w.id = i /\ w.user = request[c].user /\ w.kind = "add"
  BY DEF AddOf
<1>4. UNCHANGED <<request, found>> /\ pc[c] = "called"
  BY DEF Register
<1> HIDE DEF w
<1>5. Write(c, w)
  BY <1>2 DEF w
<1>6. /\ dir' \in Directories /\ Distinct(dir')
      /\ pc' = [pc EXCEPT ![c] = "done"]
      /\ \E answer \in {"ok", "refused", "storage"} :
           result' = [result EXCEPT ![c] = answer]
      /\ result'[c] = "ok" => Valid(dir, w) /\ dir' = Applied(dir, w)
      /\ result'[c] # "ok" => dir' = dir
  BY <1>1, <1>3, <1>5, WriteEnds DEF IInv
<1>7. TypeOK'
  BY <1>2, <1>4, <1>6 DEF IInv, TypeOK
<1>8. CallsInOrder'
  BY <1>4, <1>6 DEF IInv, TypeOK, CallsInOrder
<1>9. \A k \in Ids \ {i} : dir'[k] = dir[k] /\ owner'[k] = owner[k]
  BY <1>2, <1>3, <1>6 DEF IInv, TypeOK, Applied, Directories
<1>10. IdsAreMade'
  <2>1. \A k \in Ids \ made' : dir'[k] = NoUser /\ owner'[k] = Unset
    BY <1>2, <1>9 DEF IInv, IdsAreMade
  <2>2. \A k \in Ids : owner'[k] # Unset => pc'[owner'[k]] = "done"
    BY <1>2, <1>6, <1>9 DEF IInv, TypeOK, IdsAreMade
  <2>3. \A b \in Calls : found'[b].id \in made' \cup {0}
    BY <1>2, <1>4 DEF IInv, IdsAreMade
  <2>4. \A b \in Calls :
          Asks(b, "update")' \/ Asks(b, "remove")' => request'[b].id \in made'
    BY <1>2, <1>4 DEF IInv, IdsAreMade, Asks
  <2> QED
    BY <2>1, <2>2, <2>3, <2>4 DEF IdsAreMade
<1>11. \A b \in Calls, k \in Ids : Removed(b, k)' <=> Removed(b, k)
  BY <1>4, <1>6 DEF Register, IInv, TypeOK, CallsInOrder, Removed, Asks
<1>12. \A b \in Calls : ~Removed(b, i)
  BY <1>2, UsersAssumption DEF IInv, IdsAreMade, Removed
<1>13. RegisteredStay'
  <2> SUFFICES ASSUME NEW k \in Ids
               PROVE  dir'[k] # NoUser <=>
                        /\ owner'[k] # Unset /\ result'[owner'[k]] = "ok"
                        /\ \A b \in Calls : ~Removed(b, k)'
    BY DEF RegisteredStay
  <2>1. CASE k = i
    <3>1. owner'[i] = c /\ c # Unset
      BY <1>2, UnsetAssumption DEF IInv, TypeOK
    <3>2. dir[i] = NoUser
      BY <1>2 DEF IInv, IdsAreMade
    <3>3. result'[c] = "ok" => dir'[i] = request[c].user /\ request[c].user # NoUser
      BY <1>1, <1>3, <1>6, UsersAssumption DEF IInv, TypeOK, Applied, Directories
    <3> QED
      BY <2>1, <3>1, <3>2, <3>3, <1>6, <1>11, <1>12
  <2>2. CASE k # i
    <3>1. owner[k] # Unset => owner[k] \in Calls \ {c}
      BY <1>4 DEF IInv, TypeOK, IdsAreMade
    <3>2. owner[k] # Unset => result'[owner[k]] = result[owner[k]]
      BY <3>1, <1>6 DEF IInv, TypeOK
    <3> QED
      BY <2>2, <3>2, <1>9, <1>11 DEF IInv, RegisteredStay
  <2> QED
    BY <2>1, <2>2
<1> QED
  BY <1>6, <1>7, <1>8, <1>10, <1>13 DEF IInv, EmailsUnique
(* The second half of a call that writes to the user with an id it names:  *)
(* what RemoveUser, DeleteByEmail and UpdateUser have in common. *)
LEMMA WriteTypes ==
    ASSUME IInv, NEW c \in Calls, NEW w, Write(c, w), w.id \in Ids,
           w.user \in User \cup {NoUser}, w.kind \in {"update", "remove"},
           w.kind = "remove" => w.user = NoUser,
           UNCHANGED <<request, found, made, owner>>
    PROVE  /\ TypeOK' /\ CallsInOrder' /\ IdsAreMade' /\ EmailsUnique'
           /\ \A b \in Calls \ {c} : result'[b] = result[b]
           /\ result'[c] = "ok" => There(dir, w.id) /\ dir' = Applied(dir, w)
           /\ result'[c] # "ok" => dir' = dir
<1>1. /\ dir' \in Directories /\ Distinct(dir')
      /\ pc' = [pc EXCEPT ![c] = "done"]
      /\ \E answer \in {"ok", "refused", "storage"} :
           result' = [result EXCEPT ![c] = answer]
      /\ result'[c] = "ok" => Valid(dir, w) /\ dir' = Applied(dir, w)
      /\ result'[c] # "ok" => dir' = dir
  BY WriteEnds DEF IInv
<1>2. TypeOK'
  BY <1>1 DEF IInv, TypeOK
<1>3. CallsInOrder'
  BY <1>1 DEF IInv, TypeOK, CallsInOrder
<1>4. result'[c] = "ok" => There(dir, w.id)
  BY <1>1 DEF Valid, AddValid, UpdateValid, RemoveValid
<1>5. \A k \in Ids : dir[k] = NoUser => dir'[k] = NoUser
  BY <1>1, <1>4 DEF IInv, TypeOK, There, Applied, Directories
<1>6. IdsAreMade'
  BY <1>1, <1>5 DEF IInv, TypeOK, IdsAreMade, Asks
<1>7. \A b \in Calls \ {c} : result'[b] = result[b]
  BY <1>1 DEF IInv, TypeOK
<1> QED
  BY <1>1, <1>2, <1>3, <1>4, <1>6, <1>7 DEF EmailsUnique

LEMMA RemovalIInv ==
    ASSUME IInv, NEW c \in Calls, NEW i \in Ids, pc[c] # "done", Write(c, RemoveOf(i)),
           UNCHANGED <<request, found, made, owner>>,
           \/ Asks(c, "remove") /\ request[c].id = i
           \/ Asks(c, "delete") /\ found[c].id = i
    PROVE  IInv'
<1> DEFINE w == RemoveOf(i)
<1>1. w.id = i /\ w.user = NoUser /\ w.kind = "remove"
  BY DEF RemoveOf
<1> HIDE DEF w
<1>2. Write(c, w)
  BY DEF w
<1>3. /\ TypeOK' /\ CallsInOrder' /\ IdsAreMade' /\ EmailsUnique'
      /\ \A b \in Calls \ {c} : result'[b] = result[b]
      /\ result'[c] = "ok" => There(dir, w.id) /\ dir' = Applied(dir, w)
      /\ result'[c] # "ok" => dir' = dir
  BY <1>1, <1>2, WriteTypes
<1>4. \A k \in Ids : owner[k] # Unset => owner[k] \in Calls \ {c}
  BY DEF IInv, TypeOK, IdsAreMade
<1>5. \A b \in Calls \ {c}, k \in Ids : Removed(b, k)' <=> Removed(b, k)
  BY <1>3 DEF Removed, Asks
<1>6. \A k \in Ids : ~Removed(c, k)
  BY DEF IInv, CallsInOrder, Removed
<1>7. \A k \in Ids : Removed(c, k)' <=> k = i /\ result'[c] = "ok"
  BY DEF Removed, Asks
<1>8. CASE result'[c] = "ok"
  <2>1. dir'[i] = NoUser /\ \A k \in Ids \ {i} : dir'[k] = dir[k]
    BY <1>1, <1>3, <1>8 DEF IInv, TypeOK, Applied, Directories
  <2>2. Removed(c, i)'
    BY <1>7, <1>8
  <2>3. \A k \in Ids \ {i} : ~Removed(c, k)'
    BY <1>7
  <2> QED
    BY <2>1, <2>2, <2>3, <1>3, <1>4, <1>5, <1>6 DEF IInv, RegisteredStay
<1>9. CASE result'[c] # "ok"
  <2>1. \A k \in Ids : ~Removed(c, k)'
    BY <1>7, <1>9
  <2> QED
    BY <2>1, <1>9, <1>3, <1>4, <1>5, <1>6 DEF IInv, RegisteredStay
<1> QED
  BY <1>8, <1>9

LEMMA RemoveUserIInv == ASSUME IInv, NEW c \in Calls, RemoveUser(c) PROVE IInv'
<1>1. request[c] \in Requests /\ request[c].id \in Ids
  BY RequestForms DEF RemoveUser, Asks, IInv, TypeOK
<1> QED
  BY <1>1, RemovalIInv DEF RemoveUser

LEMMA RemoveLoggedInIInv ==
    ASSUME IInv, NEW c \in Calls, RemoveLoggedIn(c) PROVE IInv'
<1>1. found[c].id \in Ids
  BY DEF RemoveLoggedIn, IInv, CallsInOrder
<1> QED
  BY <1>1, RemovalIInv DEF RemoveLoggedIn, Target

LEMMA PutUpdateIInv == ASSUME IInv, NEW c \in Calls, PutUpdate(c) PROVE IInv'
<1> DEFINE w == UpdateOf(found[c].id, Merged(c))
<1>1. request[c] \in Requests /\ request[c].name \in Names \cup {Unset}
      /\ request[c].email \in Emails \cup {Unset}
  BY RequestForms DEF PutUpdate, Asks, IInv, TypeOK
<1>2. found[c].id \in Ids /\ found[c].user \in User
  BY DEF PutUpdate, IInv, CallsInOrder
<1>3. Merged(c) \in User
  BY <1>1, <1>2 DEF Merged, User
<1>4. w.id = found[c].id /\ w.user = Merged(c) /\ w.kind = "update"
  BY DEF UpdateOf
<1>5. Write(c, w) /\ UNCHANGED <<request, found, made, owner>> /\ pc[c] = "read"
  BY DEF PutUpdate
<1> HIDE DEF w
<1>6. /\ TypeOK' /\ CallsInOrder' /\ IdsAreMade' /\ EmailsUnique'
      /\ \A b \in Calls \ {c} : result'[b] = result[b]
      /\ result'[c] = "ok" => There(dir, w.id) /\ dir' = Applied(dir, w)
      /\ result'[c] # "ok" => dir' = dir
  BY <1>2, <1>3, <1>4, <1>5, WriteTypes
<1>7. \A k \in Ids : owner[k] # Unset => owner[k] \in Calls \ {c}
  BY <1>5 DEF IInv, TypeOK, IdsAreMade
<1>8. \A b \in Calls, k \in Ids : Removed(b, k)' <=> Removed(b, k)
  BY <1>5, <1>6 DEF PutUpdate, IInv, CallsInOrder, Removed, Asks
<1>9. \A k \in Ids : dir'[k] # NoUser <=> dir[k] # NoUser
  BY <1>2, <1>3, <1>4, <1>6, UsersAssumption
  DEF IInv, TypeOK, There, Applied, Directories
<1>10. \A k \in Ids : owner[k] # Unset => result'[owner[k]] = result[owner[k]]
  BY <1>6, <1>7
<1>11. RegisteredStay'
  <2> SUFFICES ASSUME NEW k \in Ids
               PROVE (dir[k] # NoUser)' <=>
                       /\ (owner[k] # Unset /\ result[owner[k]] = "ok")'
                       /\ \A b \in Calls : ~Removed(b, k)'
    BY DEF RegisteredStay
  <2>1. owner' = owner
    BY <1>5
  <2>2. (\A b \in Calls : ~Removed(b, k)') <=> (\A b \in Calls : ~Removed(b, k))
    BY <1>8
  <2> QED
    BY <1>9, <1>10, <2>1, <2>2 DEF IInv, RegisteredStay
<1> QED
  BY <1>6, <1>11 DEF IInv

LEMMA GetForUpdateIInv ==
    ASSUME IInv, NEW c \in Calls, GetForUpdate(c) PROVE IInv'
<1>1. request[c] \in Requests /\ request[c].id \in Ids
  BY RequestForms DEF GetForUpdate, Asks, IInv, TypeOK
<1>2. There(dir, request[c].id) =>
        dir[request[c].id] \in User /\ request[c].id \in made
  BY <1>1 DEF There, IInv, TypeOK, IdsAreMade, Directories
<1>3. TypeOK'
  BY <1>1, <1>2 DEF GetForUpdate, End, IInv, TypeOK
<1>4. CallsInOrder'
  BY <1>1, <1>2 DEF GetForUpdate, End, IInv, TypeOK, CallsInOrder
<1>5. IdsAreMade'
  BY <1>1, <1>2 DEF GetForUpdate, End, IInv, TypeOK, IdsAreMade, Asks
<1>6. result'[c] # "ok" /\ pc[c] # "done"
  BY DEF GetForUpdate, End, IInv, TypeOK, CallsInOrder
<1>7. \A b \in Calls \ {c} : /\ pc'[b] = pc[b] /\ result'[b] = result[b]
                             /\ request'[b] = request[b] /\ found'[b] = found[b]
  BY DEF GetForUpdate, End, IInv, TypeOK
<1>8. UNCHANGED <<dir, made, owner>>
  BY DEF GetForUpdate
<1> QED
  BY <1>3, <1>4, <1>5, <1>6, <1>7, <1>8, QuietStep

LEMMA LoginForDeleteIInv ==
    ASSUME IInv, NEW c \in Calls, LoginForDelete(c) PROVE IInv'
<1>1. \A i \in WithEmail(dir, Key[request[c].email]) :
        i \in Ids /\ dir[i] \in User /\ i \in made
  BY DEF WithEmail, Has, IInv, TypeOK, IdsAreMade, Directories
<1>2. TypeOK'
  BY <1>1 DEF LoginForDelete, End, IInv, TypeOK
<1>3. CallsInOrder'
  BY <1>1 DEF LoginForDelete, End, IInv, TypeOK, CallsInOrder
<1>4. IdsAreMade'
  BY <1>1 DEF LoginForDelete, End, IInv, TypeOK, IdsAreMade, Asks
<1>5. result'[c] # "ok" /\ pc[c] # "done"
  BY DEF LoginForDelete, End, IInv, TypeOK, CallsInOrder
<1>6. \A b \in Calls \ {c} : /\ pc'[b] = pc[b] /\ result'[b] = result[b]
                             /\ request'[b] = request[b] /\ found'[b] = found[b]
  BY DEF LoginForDelete, End, IInv, TypeOK
<1>7. UNCHANGED <<dir, made, owner>>
  BY DEF LoginForDelete
<1> QED
  BY <1>2, <1>3, <1>4, <1>5, <1>6, <1>7, QuietStep

LEMMA StutterIInv == ASSUME IInv, UNCHANGED vars PROVE IInv'
  BY DEF vars, IInv, TypeOK, CallsInOrder, IdsAreMade, Asks, EmailsUnique,
         RegisteredStay, Removed

LEMMA NextIInv == IInv /\ [Next]_vars => IInv'
<1> SUFFICES ASSUME IInv, [Next]_vars PROVE IInv'
  OBVIOUS
<1>1. CASE UNCHANGED vars
  BY <1>1, StutterIInv
<1>2. CASE Next
  <2> PICK c \in Calls : Call(c) \/ Serve(c)
    BY <1>2 DEF Next
  <2> QED
    BY CallIInv, RegisterIInv, RemoveUserIInv, GetForUpdateIInv, PutUpdateIInv,
       LoginForDeleteIInv, RemoveLoggedInIInv DEF Serve
<1> QED
  BY <1>1, <1>2

THEOREM IInvHolds == Spec => []IInv
<1>1. Init => IInv
  BY InitIInv
<1>2. IInv /\ [Next]_vars => IInv'
  BY NextIInv
<1> QED
  BY <1>1, <1>2, PTL DEF Spec

-----------------------------------------------------------------------------
(* Every variable of the service keeps its type, for any calls and users.  *)
THEOREM TypeCorrect == Spec => []TypeOK
<1>1. IInv => TypeOK
  BY DEF IInv
<1> QED
  BY <1>1, IInvHolds, PTL

(* However the calls of the service interleave, no two users share an      *)
(* e-mail. *)
THEOREM EmailsAreUnique == Spec => []EmailsUnique
<1>1. IInv => EmailsUnique
  BY DEF IInv
<1> QED
  BY <1>1, IInvHolds, PTL

(* A user is there exactly from the success of its registration to that of *)
(* a removal of this very user, whatever updates and deletions meet it. *)
THEOREM RegisteredUsersStay == Spec => []RegisteredStay
<1>1. IInv => RegisteredStay
  BY DEF IInv
<1> QED
  BY <1>1, IInvHolds, PTL
=============================================================================
