--------------------------- MODULE UserRepo_proofs ---------------------------
(***************************************************************************)
(* Theorems about the file repository.  The index is exact for any number  *)
(* of processes on the file; that a process agrees with the file, and that *)
(* the repository implements UserDirectory, needs that it is the only one. *)
(***************************************************************************)
EXTENDS UserRepo, TLAPS

-----------------------------------------------------------------------------
(* Directories and their index *)

Index == [Keys -> Ids \cup {0}]

(* An index is exact for a directory. *)
Exact(d, ix) == \A k \in Keys, i \in Ids : ix[k] = i <=> Has(d[i], k)

LEMMA KeyOfUser == ASSUME NEW u \in User PROVE Key[u.email] \in Keys /\ Has(u, Key[u.email])
BY UsersAssumption DEF User, Keys, Has

(* A directory with an exact index has no e-mail twice. *)
LEMMA ExactIsDistinct ==
    ASSUME NEW d \in Directories, NEW ix, Exact(d, ix) PROVE Distinct(d)
<1> SUFFICES ASSUME NEW i \in Ids, NEW m \in Ids, i # m, d[i] # NoUser,
                    Has(d[m], Key[d[i].email])
             PROVE FALSE
  BY DEF Distinct
<1>1. d[i] \in User
  BY DEF Directories
<1>2. Key[d[i].email] \in Keys /\ Has(d[i], Key[d[i].email])
  BY <1>1, KeyOfUser
<1> QED
  BY <1>2 DEF Exact

(* load builds an exact index of a directory without doubles. *)
LEMMA LoadedIsExact ==
    ASSUME NEW d \in Directories, Distinct(d)
    PROVE IndexOf(d) \in Index /\ Exact(d, IndexOf(d))
<1> DEFINE Last(i, k) == Has(d[i], k) /\ \A m \in Ids : Has(d[m], k) => m <= i
<1>1. ASSUME NEW k \in Keys, NEW i \in Ids, Has(d[i], k)
      PROVE IndexOf(d)[k] = i
  <2>1. \A m \in Ids : Has(d[m], k) => m = i
    BY <1>1 DEF Distinct, Has
  <2>2. i <= i
    BY UsersAssumption
  <2>3. Last(i, k)
    BY <1>1, <2>1, <2>2
  <2>4. Last(CHOOSE m \in Ids : Last(m, k), k) /\ (CHOOSE m \in Ids : Last(m, k)) \in Ids
    BY <2>3
  <2>5. (CHOOSE m \in Ids : Last(m, k)) = i
    BY <2>1, <2>4
  <2> QED
    BY <1>1, <2>5 DEF IndexOf
<1>2. ASSUME NEW k \in Keys, ~ \E i \in Ids : Has(d[i], k)
      PROVE IndexOf(d)[k] = 0
  BY <1>2 DEF IndexOf
<1>3. IndexOf(d) \in Index
  <2>1. \A k \in Keys : IndexOf(d)[k] \in Ids \cup {0}
    BY <1>1, <1>2
  <2> QED
    BY <2>1 DEF IndexOf, Index
<1>4. Exact(d, IndexOf(d))
  BY <1>1, <1>2, UsersAssumption DEF Exact
<1> QED
  BY <1>3, <1>4

(* A user changes, to one whose e-mail nobody else has: the index follows, *)
(* and no e-mail of the user before became another's. *)
LEMMA ReindexedIsExact ==
    ASSUME NEW d \in Directories, NEW ix \in Index, Exact(d, ix),
           NEW i \in Ids, NEW v \in User \cup {NoUser},
           \A k \in Keys : Has(v, k) => ix[k] \in {0, i}
    PROVE /\ Reindexed(ix, i, d[i], v) \in Index
          /\ Exact([d EXCEPT ![i] = v], Reindexed(ix, i, d[i], v))
          /\ \A k \in Keys : Has(d[i], k) => Reindexed(ix, i, d[i], v)[k] \in {0, i}
<1> DEFINE jx == Reindexed(ix, i, d[i], v)
<1>1. \A k \in Keys : ix[k] \in Ids \cup {0}
  BY DEF Index
<1>2. \A k \in Keys : Has(d[i], k) => ix[k] = i
  BY DEF Exact
<1>3. \A k \in Keys :
        jx[k] = IF Has(d[i], k) /\ Has(v, k) THEN ix[k]
                ELSE IF Has(v, k) THEN i
                ELSE IF Has(d[i], k) THEN 0
                ELSE ix[k]
  BY DEF Reindexed
<1>4. jx \in Index
  BY <1>1 DEF Reindexed, Index
<1>5. ASSUME NEW k \in Keys, NEW m \in Ids
      PROVE jx[k] = m <=> Has([d EXCEPT ![i] = v][m], k)
  <2>1. CASE m = i
    BY <1>2, <1>3, <2>1, UsersAssumption DEF Exact, Directories
  <2>2. CASE m # i
    <3>1. [d EXCEPT ![i] = v][m] = d[m]
      BY <2>2 DEF Directories
    <3>2. ix[k] = m <=> Has(d[m], k)
      BY DEF Exact
    <3> QED
      BY <1>2, <1>3, <2>2, <3>1, <3>2, UsersAssumption
  <2> QED
    BY <2>1, <2>2
<1>6. \A k \in Keys : Has(d[i], k) => jx[k] \in {0, i}
  BY <1>2, <1>3
<1> QED
  BY <1>4, <1>5, <1>6 DEF Exact

-----------------------------------------------------------------------------
(* Any number of processes: the index *)

Files == Directories \cup {Partial}

Types ==
    /\ up \subseteq Procs
    /\ users \in [Procs -> Directories]
    /\ emails \in [Procs -> Index]
    /\ file \in Files
    /\ temp \in Files \cup {NoFile}
    /\ pc \in [Procs -> {"idle", "write", "rename", "saved"}]
    /\ write \in [Procs -> Writes \cup {NoWrite}]
    /\ prev \in [Procs -> User \cup {NoUser}]
    /\ reply \in [Procs -> {"none", "ok", "invalid", "storage"}]
    /\ made \subseteq Ids

(* What is on disk, if it is complete, was once the memory of a process. *)
FilesDistinct ==
    /\ file # Partial => Distinct(file)
    /\ temp \in Directories => Distinct(temp)

(* A write in progress was made in memory, and undoing it takes no e-mail  *)
(* from another user. *)
WriteMade ==
    \A p \in Procs :
        IF pc[p] = "idle" THEN write[p] = NoWrite
        ELSE /\ p \in up /\ write[p] \in Writes
             /\ users[p][write[p].id] = write[p].user
             /\ \A k \in Keys : Has(prev[p], k) => emails[p][k] \in {0, write[p].id}

(* The memory of a process is empty or exactly indexed. *)
Indexed(p) == IF p \in up THEN Exact(users[p], emails[p]) ELSE users[p] = Empty

IInv == Types /\ FilesDistinct /\ WriteMade /\ (\A p \in Procs : Indexed(p))

LEMMA WriteForms ==
    ASSUME NEW w \in Writes
    PROVE w.id \in Ids /\ w.user \in User \cup {NoUser}
BY DEF Writes, Adds, Updates, Removes, AddOf, UpdateOf, RemoveOf

LEMMA WritesMade ==
    ASSUME NEW i \in Ids, NEW u \in User
    PROVE AddOf(i, u) \in Writes /\ UpdateOf(i, u) \in Writes /\ RemoveOf(i) \in Writes
BY DEF Writes, Adds, Updates, Removes

LEMMA EmptyIsDistinct == Empty \in Directories /\ Distinct(Empty)
BY DEF Empty, Directories, Distinct, Has

LEMMA InitIInv == Init => IInv
<1> SUFFICES ASSUME Init PROVE IInv
  OBVIOUS
<1>1. NoIndex \in Index
  BY DEF NoIndex, Index
<1>2. Types
  BY <1>1, EmptyIsDistinct DEF Init, Types, Files
<1>3. FilesDistinct
  BY EmptyIsDistinct, RepoAssumption DEF Init, FilesDistinct
<1> QED
  BY <1>2, <1>3 DEF Init, IInv, WriteMade, Indexed

(* A process: its memory keeps its index, its write what WriteMade says. *)
Sound(p) ==
    /\ Indexed(p)
    /\ IF pc[p] = "idle" THEN write[p] = NoWrite
       ELSE /\ p \in up /\ write[p] \in Writes
            /\ users[p][write[p].id] = write[p].user
            /\ \A k \in Keys : Has(prev[p], k) => emails[p][k] \in {0, write[p].id}

LEMMA SoundIsIInv == IInv <=> Types /\ FilesDistinct /\ \A p \in Procs : Sound(p)
BY DEF IInv, WriteMade, Sound

(* What a step of one process leaves alone keeps the others sound. *)
LEMMA OthersStay ==
    ASSUME IInv, NEW p \in Procs, Types', FilesDistinct', Sound(p)',
           \A q \in Procs \ {p} :
               /\ users'[q] = users[q] /\ emails'[q] = emails[q]
               /\ pc'[q] = pc[q] /\ write'[q] = write[q] /\ prev'[q] = prev[q]
               /\ q \in up' <=> q \in up
    PROVE IInv'
<1>1. \A q \in Procs : Sound(q)
  BY SoundIsIInv
<1>2. ASSUME NEW q \in Procs \ {p} PROVE Sound(q)'
  BY <1>1, <1>2 DEF Sound, Indexed
<1>3. \A q \in Procs : Sound(q)'
  BY <1>2
<1> QED
  BY <1>3, SoundIsIInv DEF IInv, WriteMade, Sound

LEMMA StartIInv == ASSUME IInv, NEW p \in Procs, Start(p) PROVE IInv'
<1>1. file \in Directories /\ Distinct(file)
  BY DEF Start, IInv, Types, Files, FilesDistinct
<1>2. IndexOf(file) \in Index /\ Exact(file, IndexOf(file))
  BY <1>1, LoadedIsExact
<1>3. Types'
  BY <1>1, <1>2 DEF Start, IInv, Types
<1>4. FilesDistinct'
  BY DEF Start, IInv, FilesDistinct
<1>5. users'[p] = file /\ emails'[p] = IndexOf(file) /\ p \in up'
  BY DEF Start, IInv, Types
<1>6. pc'[p] = "idle" /\ write'[p] = NoWrite
  BY DEF Start, IInv, WriteMade
<1>7. Sound(p)'
  BY <1>2, <1>5, <1>6 DEF Sound, Indexed
<1> QED
  BY <1>3, <1>4, <1>7, OthersStay DEF Start, IInv, Types

LEMMA RefuseIInv ==
    ASSUME IInv, NEW p \in Procs, Refuse(p), made' \subseteq Ids PROVE IInv'
BY DEF Refuse, IInv, Types, FilesDistinct, WriteMade, Indexed

LEMMA ChangeIInv ==
    ASSUME IInv, NEW p \in up, pc[p] = "idle", NEW w \in Writes, Change(p, w),
           \A k \in Keys : Has(w.user, k) => emails[p][k] \in {0, w.id},
           made' \subseteq Ids
    PROVE IInv'
<1> DEFINE old == users[p][w.id]
<1>1. p \in Procs /\ w.id \in Ids /\ w.user \in User \cup {NoUser}
  BY WriteForms DEF IInv, Types
<1>2. /\ users[p] \in Directories /\ emails[p] \in Index /\ Exact(users[p], emails[p])
      /\ old \in User \cup {NoUser}
  BY <1>1 DEF IInv, Types, Indexed, Directories
<1>3. /\ users'[p] = [users[p] EXCEPT ![w.id] = w.user]
      /\ emails'[p] = Reindexed(emails[p], w.id, old, w.user)
      /\ prev'[p] = old /\ write'[p] = w /\ pc'[p] = "write" /\ up' = up
  BY <1>1 DEF Change, IInv, Types
<1>4. /\ emails'[p] \in Index
      /\ Exact(users'[p], emails'[p])
      /\ \A k \in Keys : Has(old, k) => emails'[p][k] \in {0, w.id}
  BY <1>1, <1>2, <1>3, ReindexedIsExact
<1>5. users'[p] \in Directories /\ users'[p][w.id] = w.user
  BY <1>1, <1>2, <1>3 DEF Directories
<1>6. Types'
  BY <1>1, <1>2, <1>3, <1>4, <1>5 DEF Change, IInv, Types
<1>7. FilesDistinct'
  BY DEF Change, IInv, FilesDistinct
<1>8. Sound(p)'
  BY <1>3, <1>4, <1>5 DEF Sound, Indexed
<1> QED
  BY <1>1, <1>6, <1>7, <1>8, OthersStay DEF Change, IInv, Types

LEMMA AddIInv ==
    ASSUME IInv, NEW p \in Procs, NEW i \in Ids, NEW u \in User, Add(p, i, u)
    PROVE IInv'
<1>1. made' \subseteq Ids
  BY DEF Add, Fresh, IInv, Types
<1>2. CASE CanAdd(p, u) /\ Change(p, AddOf(i, u))
  <2>1. AddOf(i, u) \in Writes /\ AddOf(i, u).user = u
    BY WritesMade DEF AddOf
  <2>2. \A k \in Keys : Has(u, k) => emails[p][k] = 0
    BY <1>2 DEF CanAdd, Has
  <2> QED
    BY <1>1, <1>2, <2>1, <2>2, ChangeIInv DEF Add, Unlocked
<1> QED
  BY <1>1, <1>2, RefuseIInv DEF Add

LEMMA UpdateIInv ==
    ASSUME IInv, NEW p \in Procs, NEW i \in Ids, NEW u \in User, Update(p, i, u)
    PROVE IInv'
<1>1. made' \subseteq Ids
  BY DEF Update, IInv, Types
<1>2. CASE CanUpdate(p, i, u) /\ Change(p, UpdateOf(i, u))
  <2>1. UpdateOf(i, u) \in Writes /\ UpdateOf(i, u).user = u /\ UpdateOf(i, u).id = i
    BY WritesMade DEF UpdateOf
  <2>2. Exact(users[p], emails[p])
    BY DEF Update, Unlocked, IInv, Indexed
  <2>3. \A k \in Keys : Has(u, k) => emails[p][k] \in {0, i}
    BY <1>2, <2>2 DEF CanUpdate, SameKey, Has, Exact
  <2> QED
    BY <1>1, <1>2, <2>1, <2>3, ChangeIInv DEF Update, Unlocked
<1> QED
  BY <1>1, <1>2, RefuseIInv DEF Update

LEMMA RemoveIInv ==
    ASSUME IInv, NEW p \in Procs, NEW i \in Ids, Remove(p, i) PROVE IInv'
<1>1. made' \subseteq Ids
  BY DEF Remove, IInv, Types
<1>2. CASE CanRemove(p, i) /\ Change(p, RemoveOf(i))
  <2>1. RemoveOf(i) \in Writes /\ RemoveOf(i).user = NoUser
    BY DEF Writes, Removes, RemoveOf
  <2> QED
    BY <1>1, <1>2, <2>1, ChangeIInv DEF Remove, Unlocked, Has
<1> QED
  BY <1>1, <1>2, RefuseIInv DEF Remove

LEMMA WriteTempIInv == ASSUME IInv, NEW p \in Procs, WriteTemp(p) PROVE IInv'
<1>1. p \in up /\ users[p] \in Directories /\ Distinct(users[p])
  BY ExactIsDistinct DEF WriteTemp, IInv, Types, WriteMade, Indexed
<1>2. Types'
  BY <1>1 DEF WriteTemp, IInv, Types, Files
<1>3. FilesDistinct'
  BY <1>1 DEF WriteTemp, IInv, FilesDistinct
<1>4. Sound(p)'
  BY DEF WriteTemp, IInv, Types, WriteMade, Indexed, Sound
<1> QED
  BY <1>2, <1>3, <1>4, OthersStay DEF WriteTemp, IInv, Types

LEMMA RenameIInv == ASSUME IInv, NEW p \in Procs, Rename(p) PROVE IInv'
<1>1. temp \in Files /\ (temp # Partial => Distinct(temp))
  BY DEF Rename, Written, IInv, Types, FilesDistinct, Files
<1>2. Types'
  BY <1>1 DEF Rename, Written, IInv, Types
<1>3. FilesDistinct'
  BY <1>1, RepoAssumption DEF Rename, FilesDistinct
<1>4. Sound(p)'
  BY DEF Rename, Written, IInv, Types, WriteMade, Indexed, Sound
<1> QED
  BY <1>2, <1>3, <1>4, OthersStay DEF Rename, IInv, Types

LEMMA AcknowledgeIInv == ASSUME IInv, NEW p \in Procs, Acknowledge(p) PROVE IInv'
<1>1. Types'
  BY DEF Acknowledge, Leave, IInv, Types
<1>2. FilesDistinct'
  BY DEF Acknowledge, IInv, FilesDistinct
<1>3. Sound(p)'
  BY DEF Acknowledge, Leave, IInv, Types, Indexed, Sound
<1> QED
  BY <1>1, <1>2, <1>3, OthersStay DEF Acknowledge, Leave, IInv, Types

LEMMA SaveFailsIInv == ASSUME IInv, NEW p \in Procs, SaveFails(p) PROVE IInv'
<1> DEFINE i == write[p].id
           v == prev[p]
<1>1. p \in up /\ write[p] \in Writes /\ users[p][i] = write[p].user
      /\ \A k \in Keys : Has(v, k) => emails[p][k] \in {0, i}
  BY DEF SaveFails, IInv, WriteMade
<1>2. i \in Ids /\ v \in User \cup {NoUser}
  BY <1>1, WriteForms DEF IInv, Types
<1>3. users[p] \in Directories /\ emails[p] \in Index /\ Exact(users[p], emails[p])
  BY <1>1 DEF IInv, Types, Indexed
<1>4. /\ users'[p] = [users[p] EXCEPT ![i] = v]
      /\ emails'[p] = Reindexed(emails[p], i, users[p][i], v)
      /\ up' = up /\ pc'[p] = "idle" /\ write'[p] = NoWrite
  BY <1>1 DEF SaveFails, RolledBack, Leave, IInv, Types
<1>5. emails'[p] \in Index /\ Exact(users'[p], emails'[p])
  BY <1>1, <1>2, <1>3, <1>4, ReindexedIsExact
<1>6. users'[p] \in Directories
  BY <1>2, <1>3, <1>4 DEF Directories
<1>7. temp' \in {temp, Partial}
  BY DEF SaveFails
<1>8. Types'
  BY <1>1, <1>4, <1>5, <1>6, <1>7 DEF SaveFails, Leave, IInv, Types, Files
<1>9. FilesDistinct'
  BY <1>7, RepoAssumption DEF SaveFails, IInv, FilesDistinct
<1>10. Sound(p)'
  BY <1>1, <1>4, <1>5 DEF Sound, Indexed
<1> QED
  BY <1>8, <1>9, <1>10, OthersStay DEF SaveFails, Leave, IInv, Types

LEMMA CrashIInv == ASSUME IInv, NEW p \in Procs, Crash(p) PROVE IInv'
<1>1. temp' \in {temp, Partial}
  BY DEF Crash
<1>2. NoIndex \in Index
  BY DEF NoIndex, Index
<1>3. Types'
  BY <1>1, <1>2, EmptyIsDistinct DEF Crash, IInv, Types, Files
<1>4. FilesDistinct'
  BY <1>1, RepoAssumption DEF Crash, IInv, FilesDistinct
<1>5. Sound(p)'
  BY DEF Crash, IInv, Types, Indexed, Sound
<1> QED
  BY <1>3, <1>4, <1>5, OthersStay DEF Crash, IInv, Types

LEMMA NextIInv == IInv /\ [Next]_vars => IInv'
<1> SUFFICES ASSUME IInv, [Next]_vars PROVE IInv'
  OBVIOUS
<1>1. CASE UNCHANGED vars
  BY <1>1 DEF vars, IInv, Types, FilesDistinct, WriteMade, Indexed
<1>2. ASSUME NEW p \in Procs, Start(p) PROVE IInv'
  BY <1>2, StartIInv
<1>3. ASSUME NEW p \in Procs, Crash(p) PROVE IInv'
  BY <1>3, CrashIInv
<1>4. ASSUME NEW p \in Procs, NEW i \in Ids, NEW u \in User, Add(p, i, u) PROVE IInv'
  BY <1>4, AddIInv
<1>5. ASSUME NEW p \in Procs, NEW i \in Ids, NEW u \in User, Update(p, i, u) PROVE IInv'
  BY <1>5, UpdateIInv
<1>6. ASSUME NEW p \in Procs, NEW i \in Ids, Remove(p, i) PROVE IInv'
  BY <1>6, RemoveIInv
<1>7. ASSUME NEW p \in Procs, Saves(p) PROVE IInv'
  BY <1>7, WriteTempIInv, RenameIInv, AcknowledgeIInv, SaveFailsIInv DEF Saves
<1> QED
  BY <1>1, <1>2, <1>3, <1>4, <1>5, <1>6, <1>7 DEF Next

THEOREM IInvHolds == Spec => []IInv
<1> QED
  BY InitIInv, NextIInv, PTL DEF Spec

(* The index of each process is exactly that of its users, however many    *)
(* processes use the file and whatever fails. *)
THEOREM IndexIsExact == Spec => []IndexExact
<1>1. IInv => IndexExact
  BY DEF IInv, Types, Indexed, Exact, IndexExact
<1> QED
  BY <1>1, IInvHolds, PTL

(* No process ever holds two users with one e-mail in memory. *)
THEOREM MemoryIsDistinct == Spec => [](\A p \in Procs : Distinct(users[p]))
<1>1. IInv => \A p \in Procs : Distinct(users[p])
  BY ExactIsDistinct, EmptyIsDistinct DEF IInv, Types, Indexed
<1> QED
  BY <1>1, IInvHolds, PTL

-----------------------------------------------------------------------------
(* One process: memory and file *)

Alone == Procs = {Server}

Known(d) == \A i \in Ids : d[i] # NoUser => i \in made

(* What one process has in its memory, in the temporary file and in the    *)
(* file at each point of a write. *)
Saved(p) ==
    /\ pc[p] = "idle" /\ p \in up => users[p] = file
    /\ pc[p] \in {"write", "rename"} => file = RolledBack(p)
    /\ pc[p] = "rename" => temp = users[p]
    /\ pc[p] = "saved" => file = users[p]

AInv ==
    /\ IInv
    /\ file # Partial
    /\ \A p \in Procs : Saved(p)
    /\ Known(file) /\ \A p \in Procs : Known(users[p])

LEMMA InitAInv == Init => AInv
BY InitIInv, RepoAssumption, EmptyIsDistinct
DEF Init, AInv, Saved, Known, Empty

LEMMA ChangeAInv ==
    ASSUME Alone, AInv, IInv', NEW p \in Procs, NEW w \in Writes, Unlocked(p),
           Change(p, w), made \subseteq made', w.id \in made'
    PROVE AInv'
<1> USE DEF Alone
<1>1. users[p] = file /\ users[p] \in Directories /\ w.id \in Ids
  BY WriteForms DEF AInv, Saved, Unlocked, IInv, Types
<1>2. /\ users'[p] = [users[p] EXCEPT ![w.id] = w.user] /\ prev'[p] = users[p][w.id]
      /\ write'[p] = w /\ pc'[p] = "write" /\ file' = file
  BY DEF Change, AInv, IInv, Types
<1>3. [users'[p] EXCEPT ![w.id] = prev'[p]] = users[p]
  BY <1>1, <1>2 DEF Directories
<1>4. Saved(p)'
  BY <1>1, <1>2, <1>3 DEF Saved, RolledBack
<1>5. Known(file)' /\ Known(users[p])'
  BY <1>1, <1>2 DEF AInv, Known, Directories
<1> QED
  BY <1>2, <1>4, <1>5 DEF AInv

LEMMA RefuseAInv ==
    ASSUME AInv, IInv', NEW p \in Procs, Refuse(p), made \subseteq made'
    PROVE AInv'
BY DEF Refuse, AInv, Saved, RolledBack, Known

LEMMA NextAInv == ASSUME Alone PROVE AInv /\ [Next]_vars => AInv'
<1> USE DEF Alone
<1> SUFFICES ASSUME AInv, [Next]_vars PROVE AInv'
  OBVIOUS
<1>0. IInv'
  BY NextIInv DEF AInv
<1>1. CASE UNCHANGED vars
  BY <1>0, <1>1 DEF vars, AInv, Saved, RolledBack, Known
<1>2. ASSUME NEW p \in Procs, Start(p) PROVE AInv'
  BY <1>0, <1>2 DEF Start, AInv, IInv, Types, WriteMade, Saved, RolledBack, Known
<1>3. ASSUME NEW p \in Procs, Crash(p) PROVE AInv'
  <2>1. Known(Empty)
    BY DEF Known, Empty
  <2> QED
    BY <1>0, <1>3, <2>1 DEF Crash, AInv, IInv, Types, Saved, Known
<1>4. ASSUME NEW p \in Procs, NEW i \in Ids, NEW u \in User, Add(p, i, u) PROVE AInv'
  BY <1>0, <1>4, WritesMade, ChangeAInv, RefuseAInv DEF Add, Fresh, AddOf
<1>5. ASSUME NEW p \in Procs, NEW i \in Ids, NEW u \in User, Update(p, i, u) PROVE AInv'
  BY <1>0, <1>5, WritesMade, ChangeAInv, RefuseAInv DEF Update, UpdateOf
<1>6. ASSUME NEW p \in Procs, NEW i \in Ids, Remove(p, i) PROVE AInv'
  <2>1. RemoveOf(i) \in Writes
    BY DEF Writes, Removes
  <2> QED
    BY <1>0, <1>6, <2>1, ChangeAInv, RefuseAInv DEF Remove, RemoveOf
<1>7. ASSUME NEW p \in Procs, WriteTemp(p) PROVE AInv'
  BY <1>0, <1>7 DEF WriteTemp, AInv, IInv, Types, Saved, RolledBack, Known
<1>8. ASSUME NEW p \in Procs, Rename(p) PROVE AInv'
  <2>1. temp = users[p] /\ users[p] \in Directories
    BY <1>8 DEF Rename, Written, AInv, IInv, Types, Saved
  <2> QED
    BY <1>0, <1>8, <2>1, RepoAssumption
    DEF Rename, Written, AInv, IInv, Types, Saved, RolledBack, Known
<1>9. ASSUME NEW p \in Procs, Acknowledge(p) PROVE AInv'
  BY <1>0, <1>9 DEF Acknowledge, Leave, AInv, IInv, Types, Saved, RolledBack, Known
<1>10. ASSUME NEW p \in Procs, SaveFails(p) PROVE AInv'
  <2>1. users'[p] = file /\ pc'[p] = "idle" /\ file' = file /\ made' = made
    BY <1>10 DEF SaveFails, Leave, AInv, IInv, Types, Saved
  <2> QED
    BY <1>0, <2>1 DEF AInv, Saved, RolledBack, Known
<1> QED
  BY <1>1, <1>2, <1>3, <1>4, <1>5, <1>6, <1>7, <1>8, <1>9, <1>10 DEF Next, Saves

THEOREM AInvHolds == ASSUME Alone PROVE Spec => []AInv
<1> QED
  BY InitAInv, NextAInv, PTL DEF Spec

(* A server that is alone on its file keeps the type of every variable: it *)
(* never loads a file that is cut short. *)
THEOREM TypeCorrect == ASSUME Alone PROVE Spec => []TypeOK
<1>1. AInv => TypeOK
  BY DEF AInv, IInv, Types, Files, Index, TypeOK
<1> QED
  BY <1>1, AInvHolds, PTL

(* What a read sees is what a restart would load. *)
THEOREM MemoryIsOnDisk == ASSUME Alone PROVE Spec => []MemoryIsDisk
<1>1. AInv => MemoryIsDisk
  BY DEF AInv, Saved, MemoryIsDisk, Unlocked
<1> QED
  BY <1>1, AInvHolds, PTL

(* No two users share an e-mail, in memory or in the file. *)
THEOREM EmailsAreUnique == ASSUME Alone PROVE Spec => []EmailsUnique
<1>1. AInv => EmailsUnique
  BY ExactIsDistinct, EmptyIsDistinct
  DEF AInv, IInv, Types, Files, FilesDistinct, Indexed, EmailsUnique
<1> QED
  BY <1>1, AInvHolds, PTL

-----------------------------------------------------------------------------
(* One process implements UserDirectory *)

(* The checks on memory and index are those of the directory. *)
LEMMA AddCheck ==
    ASSUME AInv, NEW p \in Procs, Unlocked(p),
           NEW i \in Ids \ made, NEW u \in User
    PROVE CanAdd(p, u) <=> Valid(file, AddOf(i, u))
<1> DEFINE k == Key[u.email]
<1>1. users[p] = file /\ Exact(file, emails[p]) /\ k \in Keys /\ u # NoUser
      /\ emails[p][k] \in Ids \cup {0} /\ file[i] = NoUser
  BY KeyOfUser, UsersAssumption
  DEF AInv, Saved, Unlocked, IInv, Types, Index, Indexed, Known
<1>2. CASE emails[p][k] = 0
  <2>1. \A m \in Ids : ~Has(file[m], k)
    BY <1>1, <1>2, UsersAssumption DEF Exact
  <2> QED
    BY <1>2, <2>1 DEF CanAdd, Valid, AddValid, Free, WithEmail, AddOf
<1>3. CASE emails[p][k] # 0
  <2>1. emails[p][k] \in Ids /\ Has(file[emails[p][k]], k)
    BY <1>1, <1>3 DEF Exact
  <2>2. emails[p][k] # i
    BY <1>1, <2>1 DEF Has
  <2> QED
    BY <1>3, <2>1, <2>2
    DEF CanAdd, Valid, AddValid, UpdateValid, RemoveValid, Free, WithEmail, AddOf
<1> QED
  BY <1>2, <1>3

LEMMA UpdateCheck ==
    ASSUME AInv, NEW p \in Procs, Unlocked(p), NEW i \in Ids, NEW u \in User
    PROVE CanUpdate(p, i, u) <=> Valid(file, UpdateOf(i, u))
<1> DEFINE k == Key[u.email]
<1>1. users[p] = file /\ Exact(file, emails[p]) /\ k \in Keys /\ u # NoUser
      /\ emails[p][k] \in Ids \cup {0} /\ file \in Directories
  BY KeyOfUser, UsersAssumption
  DEF AInv, Saved, Unlocked, IInv, Types, Index, Indexed
<1>2. SameKey(file[i], u) <=> emails[p][k] = i
  BY <1>1 DEF SameKey, Exact, Has
<1>3. Free(file, UpdateOf(i, u)) <=> emails[p][k] \in {0, i}
  <2>1. WithEmail(file, k) = {m \in Ids : emails[p][k] = m}
    BY <1>1 DEF WithEmail, Exact
  <2> QED
    BY <1>1, <2>1, UsersAssumption DEF Free, UpdateOf
<1>4. CanUpdate(p, i, u) <=> file[i] # NoUser /\ emails[p][k] \in {0, i}
  BY <1>1, <1>2 DEF CanUpdate
<1> QED
  BY <1>3, <1>4 DEF Valid, AddValid, UpdateValid, RemoveValid, There, UpdateOf

LEMMA RemoveCheck ==
    ASSUME AInv, NEW p \in Procs, Unlocked(p), NEW i \in Ids
    PROVE CanRemove(p, i) <=> Valid(file, RemoveOf(i))
BY DEF AInv, Saved, Unlocked, CanRemove, Valid, AddValid, UpdateValid, RemoveValid,
       There, RemoveOf

LEMMA SameDefinitions ==
    /\ Directory!Writes = Writes /\ Directory!Empty = Empty
    /\ \A d, w : Directory!Applied(d, w) = Applied(d, w)
    /\ \A d, w : Directory!Valid(d, w) <=> Valid(d, w)
<1>1. Directory!Writes = Writes
  BY DEF Directory!Writes, Directory!Adds, Directory!Updates, Directory!Removes,
         Directory!AddOf, Directory!UpdateOf, Directory!RemoveOf, Directory!User,
         Writes, Adds, Updates, Removes, AddOf, UpdateOf, RemoveOf, User
<1>2. Directory!Empty = Empty
  BY DEF Directory!Empty, Empty
<1>3. \A d, w : Directory!Applied(d, w) = Applied(d, w)
  BY DEF Directory!Applied, Applied
<1>4. \A d, w : Directory!Free(d, w) <=> Free(d, w)
  BY DEF Directory!Free, Free, Directory!WithEmail, WithEmail, Directory!Has, Has
<1>5. \A d, w : Directory!Valid(d, w) <=> Valid(d, w)
  BY <1>4
  DEF Directory!Valid, Valid, Directory!AddValid, AddValid, Directory!UpdateValid,
      UpdateValid, Directory!RemoveValid, RemoveValid, Directory!There, There
<1> QED
  BY <1>1, <1>2, <1>3, <1>5

(* A check and the change it allows begin a write of the directory, or the *)
(* write is refused. *)
LEMMA BeginsOrRefuses ==
    ASSUME AInv, Server \in Procs, NEW w \in Writes, Unlocked(Server),
           \/ Valid(file, w) /\ Change(Server, w)
           \/ ~Valid(file, w) /\ Refuse(Server)
    PROVE Directory!Refuse(w) \/ Directory!Begin(w)
<1>1. write[Server] = NoWrite /\ pc[Server] = "idle"
  BY DEF Unlocked, AInv, IInv, WriteMade
<1>2. CASE Valid(file, w) /\ Change(Server, w)
  <2>1. write'[Server] = w /\ pc'[Server] = "write" /\ file' = file /\ reply' = reply
    BY <1>2 DEF Change, AInv, IInv, Types
  <2> QED
    BY <1>1, <1>2, <2>1, SameDefinitions DEF Directory!Begin
<1>3. CASE ~Valid(file, w) /\ Refuse(Server)
  <2>1. reply'[Server] = "invalid" /\ UNCHANGED <<file, write, pc>>
    BY <1>3 DEF Refuse, AInv, IInv, Types
  <2> QED
    BY <1>1, <1>3, <2>1, SameDefinitions DEF Directory!Refuse
<1> QED
  BY <1>2, <1>3

(* A server that is alone on its file keeps what UserDirectory promises:   *)
(* each write is refused, or takes effect at once, or changes nothing, and *)
(* only a crash leaves its caller in doubt. *)
THEOREM ImplementsTheDirectory ==
    ASSUME Alone
    PROVE  Spec => ImplementsDirectory
<1> USE DEF Alone
<1>0. \A p \in Procs : p = Server
  OBVIOUS
<1>1. ASSUME Init, Server \in Procs PROVE Directory!Init
  BY <1>1, SameDefinitions DEF Init, Directory!Init
<1>2. ASSUME AInv, AInv', [Next]_vars PROVE [Directory!Next]_(Directory!vars)
  <2> USE <1>2
  <2>1. CASE UNCHANGED vars
    BY <2>1 DEF vars, Directory!vars
  <2>2. ASSUME NEW p \in Procs, Start(p) PROVE UNCHANGED Directory!vars
    BY <2>2 DEF Start, Directory!vars
  <2>3. ASSUME NEW p \in Procs, Crash(p) PROVE Directory!Crash
    BY <2>3 DEF Crash, Directory!Crash, AInv, IInv, Types
  <2>4. ASSUME NEW p \in Procs, NEW i \in Ids, NEW u \in User, Add(p, i, u)
        PROVE  \E w \in Writes : Directory!Refuse(w) \/ Directory!Begin(w)
    <3>1. i \in Ids \ made /\ Unlocked(p)
      BY <2>4 DEF Add, Fresh
    <3> QED
      BY <2>4, <3>1, AddCheck, WritesMade, BeginsOrRefuses DEF Add
  <2>5. ASSUME NEW p \in Procs, NEW i \in Ids, NEW u \in User, Update(p, i, u)
        PROVE  \E w \in Writes : Directory!Refuse(w) \/ Directory!Begin(w)
    BY <2>5, UpdateCheck, WritesMade, BeginsOrRefuses DEF Update
  <2>6. ASSUME NEW p \in Procs, NEW i \in Ids, Remove(p, i)
        PROVE  \E w \in Writes : Directory!Refuse(w) \/ Directory!Begin(w)
    <3>1. RemoveOf(i) \in Writes
      BY DEF Writes, Removes
    <3> QED
      BY <2>6, <3>1, RemoveCheck, BeginsOrRefuses DEF Remove
  <2>7. ASSUME NEW p \in Procs, WriteTemp(p) PROVE UNCHANGED Directory!vars
    BY <2>7 DEF WriteTemp, Directory!vars, AInv, IInv, Types
  <2>8. ASSUME NEW p \in Procs, Rename(p) PROVE Directory!TakeEffect
    <3>1. /\ write[p] \in Writes /\ users[p][write[p].id] = write[p].user
          /\ file = RolledBack(p) /\ temp = users[p] /\ users[p] \in Directories
      BY <2>8 DEF Rename, Written, AInv, IInv, Types, WriteMade, Saved
    <3>2. users[p] = Applied(file, write[p])
      BY <3>1, WriteForms DEF RolledBack, Applied, Directories
    <3>3. /\ file' = users[p] /\ pc[p] = "rename" /\ pc'[p] = "saved"
          /\ UNCHANGED <<write, reply>>
      BY <2>8, <3>1 DEF Rename, Written, AInv, IInv, Types
    <3> QED
      BY <1>0, <3>1, <3>2, <3>3, SameDefinitions, RepoAssumption
      DEF Directory!TakeEffect
  <2>9. ASSUME NEW p \in Procs, Acknowledge(p) PROVE Directory!Acknowledge
    <3>1. write[p] # NoWrite
      BY <2>9, RepoAssumption DEF Acknowledge, AInv, IInv, WriteMade
    <3> QED
      BY <2>9, <3>1
      DEF Acknowledge, Leave, Directory!Acknowledge, Directory!End, AInv, IInv, Types
  <2>10. ASSUME NEW p \in Procs, SaveFails(p) PROVE Directory!Fail
    <3>1. write[p] # NoWrite
      BY <2>10, RepoAssumption DEF SaveFails, AInv, IInv, WriteMade
    <3> QED
      BY <2>10, <3>1
      DEF SaveFails, Leave, Directory!Fail, Directory!End, AInv, IInv, Types
  <2> QED
    BY <2>1, <2>2, <2>3, <2>4, <2>5, <2>6, <2>7, <2>8, <2>9, <2>10, SameDefinitions
    DEF Next, Saves, Directory!Next
<1>3. Server \in Procs
  OBVIOUS
<1> QED
  BY <1>1, <1>2, <1>3, AInvHolds, PTL DEF Spec, ImplementsDirectory, Directory!Spec
=============================================================================
