------------------------------ MODULE UserRepo ------------------------------
(***************************************************************************)
(* The JSON file repository of src/internal/storage/jsonfile/user_repo.go: *)
(* users and an index of their e-mails in memory, written as a whole to a  *)
(* temporary file that is then renamed over the file, rolled back in       *)
(* memory when that fails, and read again when the process restarts.       *)
(*                                                                         *)
(* Several processes may have the file open (cmd/api, cmd/ingest).  In a   *)
(* process, r.mu is held from the check of a write to its return, so a     *)
(* process has at most one write in progress and reads see none.           *)
(***************************************************************************)
EXTENDS Users

CONSTANTS
    Procs,    \* the processes with a repository on the file
    NoWrite,  \* no write is in progress
    Partial,  \* a file that was not written to its end
    NoFile    \* the absence of the temporary file

ASSUME RepoAssumption ==
    /\ NoWrite \notin Writes
    /\ Partial \notin Directories /\ NoFile \notin Directories

VARIABLES
    up,      \* the processes that run
    users,   \* r.users of each process
    emails,  \* r.emails of each process; 0 is the absence of an entry
    file,    \* the users in the file; none if there is no file
    temp,    \* the temporary file
    pc,      \* where each process is in a write
    write,   \* the write in progress in each process
    prev,    \* the user that it replaces
    reply,   \* how the last write of each process ended
    made     \* the ids generated so far

vars == <<up, users, emails, file, temp, pc, write, prev, reply, made>>

NoIndex == [k \in Keys |-> 0]

(* Mistakes that the properties below tell from the code: each definition   *)
(* of this block is a wrong version of the one its name starts with. *)
RolledBackNot(p) == users[p]
ReindexedAddingOnly(ix, i, old, new) ==
    [k \in Keys |-> IF Has(new, k) THEN i ELSE ix[k]]
RenamedIsWritten(p) == pc[p] \in {"write", "rename"}

(* load.  Users are read in the order of their ids. *)
IndexOf(d) ==
    [k \in Keys |->
        IF \E i \in Ids : Has(d[i], k)
        THEN CHOOSE i \in Ids : /\ Has(d[i], k)
                                /\ \A m \in Ids : Has(d[m], k) => m <= i
        ELSE 0]

Init ==
    /\ up = {}
    /\ users = [p \in Procs |-> Empty]
    /\ emails = [p \in Procs |-> NoIndex]
    /\ file = Empty
    /\ temp = NoFile
    /\ pc = [p \in Procs |-> "idle"]
    /\ write = [p \in Procs |-> NoWrite]
    /\ prev = [p \in Procs |-> NoUser]
    /\ reply = [p \in Procs |-> "none"]
    /\ made = {}

(* NewUserRepo; with a file that does not parse the process exits. *)
Start(p) ==
    /\ p \notin up
    /\ file # Partial
    /\ up' = up \cup {p}
    /\ users' = [users EXCEPT ![p] = file]
    /\ emails' = [emails EXCEPT ![p] = IndexOf(file)]
    /\ UNCHANGED <<file, temp, pc, write, prev, reply, made>>

-----------------------------------------------------------------------------
Unlocked(p) == p \in up /\ pc[p] = "idle"

(* The index after the user i changed from old to new.  An e-mail that     *)
(* stays the same is not touched. *)
Reindexed(ix, i, old, new) ==
    [k \in Keys |-> IF Has(old, k) /\ Has(new, k) THEN ix[k]
                    ELSE IF Has(new, k) THEN i
                    ELSE IF Has(old, k) THEN 0
                    ELSE ix[k]]

SameKey(u, v) == u # NoUser /\ v # NoUser /\ Key[u.email] = Key[v.email]

(* The checks, on what is in memory. *)
CanAdd(p, u) == emails[p][Key[u.email]] = 0

CanUpdate(p, i, u) ==
    /\ users[p][i] # NoUser
    /\ SameKey(users[p][i], u) \/ emails[p][Key[u.email]] = 0

CanRemove(p, i) == users[p][i] # NoUser

(* An error of a check is returned with nothing changed. *)
Refuse(p) ==
    /\ reply' = [reply EXCEPT ![p] = "invalid"]
    /\ UNCHANGED <<up, users, emails, file, temp, pc, write, prev>>

(* The change in memory, before saveLocked. *)
Change(p, w) ==
    LET old == users[p][w.id]
    IN  /\ users' = [users EXCEPT ![p][w.id] = w.user]
        /\ emails' = [emails EXCEPT ![p] = Reindexed(@, w.id, old, w.user)]
        /\ prev' = [prev EXCEPT ![p] = old]
        /\ write' = [write EXCEPT ![p] = w]
        /\ pc' = [pc EXCEPT ![p] = "write"]
        /\ UNCHANGED <<up, file, temp, reply>>

(* Under an id that generateID never returned before. *)
Fresh(i) == i \notin made /\ made' = made \cup {i}

Add(p, i, u) ==
    /\ Unlocked(p)
    /\ Fresh(i)
    /\ \/ CanAdd(p, u) /\ Change(p, AddOf(i, u))
       \/ ~CanAdd(p, u) /\ Refuse(p)

Update(p, i, u) ==
    /\ Unlocked(p)
    /\ i \in made /\ UNCHANGED made
    /\ \/ CanUpdate(p, i, u) /\ Change(p, UpdateOf(i, u))
       \/ ~CanUpdate(p, i, u) /\ Refuse(p)

Remove(p, i) ==
    /\ Unlocked(p)
    /\ i \in made /\ UNCHANGED made
    /\ \/ CanRemove(p, i) /\ Change(p, RemoveOf(i))
       \/ ~CanRemove(p, i) /\ Refuse(p)

(* os.WriteFile *)
WriteTemp(p) ==
    /\ pc[p] = "write"
    /\ temp' = users[p]
    /\ pc' = [pc EXCEPT ![p] = "rename"]
    /\ UNCHANGED <<up, users, emails, file, write, prev, reply, made>>

Written(p) == pc[p] = "rename" /\ temp # NoFile

(* os.Rename *)
Rename(p) ==
    /\ Written(p)
    /\ file' = temp
    /\ temp' = NoFile
    /\ pc' = [pc EXCEPT ![p] = "saved"]
    /\ UNCHANGED <<up, users, emails, write, prev, reply, made>>

(* The locked call returns. *)
Leave(p, answer) ==
    /\ pc' = [pc EXCEPT ![p] = "idle"]
    /\ write' = [write EXCEPT ![p] = NoWrite]
    /\ prev' = [prev EXCEPT ![p] = NoUser]
    /\ reply' = [reply EXCEPT ![p] = answer]
    /\ UNCHANGED <<up, made>>

Acknowledge(p) ==
    /\ pc[p] = "saved"
    /\ Leave(p, "ok")
    /\ UNCHANGED <<users, emails, file, temp>>

(* saveLocked fails: before it writes, while it writes, or in the rename.  *)
(* The change in memory is undone. *)
RolledBack(p) == [users[p] EXCEPT ![write[p].id] = prev[p]]

SaveFails(p) ==
    /\ pc[p] \in {"write", "rename"}
    /\ temp' \in {temp} \cup (IF pc[p] = "write" THEN {Partial} ELSE {})
    /\ users' = [users EXCEPT ![p] = RolledBack(p)]
    /\ emails' = [emails EXCEPT ![p] =
                    Reindexed(@, write[p].id, write[p].user, prev[p])]
    /\ Leave(p, "storage")
    /\ UNCHANGED file

(* The process ends, anywhere: the memory is lost. *)
Crash(p) ==
    /\ p \in up
    /\ up' = up \ {p}
    /\ users' = [users EXCEPT ![p] = Empty]
    /\ emails' = [emails EXCEPT ![p] = NoIndex]
    /\ temp' \in {temp} \cup (IF pc[p] = "write" THEN {Partial} ELSE {})
    /\ pc' = [pc EXCEPT ![p] = "idle"]
    /\ write' = [write EXCEPT ![p] = NoWrite]
    /\ prev' = [prev EXCEPT ![p] = NoUser]
    /\ reply' = [reply EXCEPT ![p] = "none"]
    /\ UNCHANGED <<file, made>>

Saves(p) == WriteTemp(p) \/ Rename(p) \/ Acknowledge(p) \/ SaveFails(p)

Next ==
    \E p \in Procs :
        \/ Start(p) \/ Crash(p)
        \/ \E i \in Ids, u \in User : Add(p, i, u) \/ Update(p, i, u)
        \/ \E i \in Ids : Remove(p, i)
        \/ Saves(p)

Spec == Init /\ [][Next]_vars

-----------------------------------------------------------------------------
(* Every variable keeps its type; in particular the file that a process    *)
(* reads when it starts is always complete, if only one process writes it. *)
TypeOK ==
    /\ up \subseteq Procs
    /\ users \in [Procs -> Directories]
    /\ emails \in [Procs -> [Keys -> Ids \cup {0}]]
    /\ file \in Directories
    /\ temp \in Directories \cup {Partial, NoFile}
    /\ pc \in [Procs -> {"idle", "write", "rename", "saved"}]
    /\ write \in [Procs -> Writes \cup {NoWrite}]
    /\ prev \in [Procs -> User \cup {NoUser}]
    /\ reply \in [Procs -> {"none", "ok", "invalid", "storage"}]
    /\ made \subseteq Ids

(* What a read sees is what a restart would load: after an acknowledged    *)
(* write, after a failed save and after a crash alike. *)
MemoryIsDisk ==
    \A p \in Procs : Unlocked(p) => users[p] = file

(* The index of e-mails is exactly that of the users, even while a write   *)
(* is in progress: no user is unreachable by its e-mail, no e-mail stays   *)
(* taken by a user who gave it up, or whose save failed. *)
IndexExact ==
    \A p \in up :
        \A k \in Keys, i \in Ids : emails[p][k] = i <=> Has(users[p][i], k)

(* No two users share an e-mail, in memory or in the file. *)
EmailsUnique ==
    /\ Distinct(file)
    /\ \A p \in Procs : Distinct(users[p])

Server == CHOOSE p \in Procs : TRUE

Directory == INSTANCE UserDirectory WITH
    dir <- file,
    call <- write[Server],
    done <- pc[Server] = "saved",
    reply <- reply[Server]

(* One process on a file implements the directory: see UserDirectory. *)
ImplementsDirectory == Directory!Spec
=============================================================================
