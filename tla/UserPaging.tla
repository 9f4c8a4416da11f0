----------------------------- MODULE UserPaging -----------------------------
(***************************************************************************)
(* A client that reads the list of users page by page while the calls of   *)
(* UserService go on.  ListUsers of the HTTP and of the gRPC handler are   *)
(* the same: each page is cut out of a list of its own.                    *)
(***************************************************************************)
EXTENDS UserService, Sequences, FiniteSets

CONSTANTS
    Sorted,        \* the repository lists by id (jsonfile), or in any order (memory)
    DefaultLimit,  \* defaultPageLimit
    MaxLimit,      \* maxPageLimit
    Limits,        \* the limits a client may ask for
    Offsets        \* the offsets it may start from

ASSUME PagingAssumption ==
    /\ MaxLimit \in Nat /\ DefaultLimit \in 1 .. MaxLimit
    /\ Limits \subseteq Int /\ Offsets \subseteq Int

VARIABLES
    reading,  \* "no", "yes" or "done"
    limit,    \* the limit of the client
    offset,   \* where its next page starts
    pages,    \* the ids it got so far
    stayed,   \* the ids there at each moment since its first page
    came,     \* an id was added since
    went      \* an id was removed since

pagingVars == <<reading, limit, offset, pages, stayed, came, went>>

PagingInit ==
    /\ Init
    /\ reading = "no" /\ limit \in Limits /\ offset \in Offsets
    /\ pages = <<>> /\ stayed = {} /\ came = FALSE /\ went = FALSE

Listed(d) == {i \in Ids : d[i] # NoUser}

(* List: each user once. *)
IsOrdered(list) == \A m, n \in DOMAIN list : m < n => list[m] < list[n]
ListOf(d) ==
    {list \in [1 .. Cardinality(Listed(d)) -> Listed(d)] :
        /\ {list[n] : n \in DOMAIN list} = Listed(d)
        /\ Sorted => IsOrdered(list)}

(* A mistake: the limit is the client's. *)
PageLimitAsAsked(n) == n

PageLimit(n) == IF n < 1 THEN DefaultLimit ELSE IF n > MaxLimit THEN MaxLimit ELSE n
PageOffset(n) == IF n < 0 THEN 0 ELSE n

PageSlice(list, lim, off) ==
    LET end == IF off + lim > Len(list) THEN Len(list) ELSE off + lim
    IN  IF off >= Len(list) THEN <<>> ELSE SubSeq(list, off + 1, end)

(* A page; the client goes on after what it got, up to an empty page. *)
ReadPage ==
    /\ reading # "done"
    /\ \E list \in ListOf(dir) :
         LET page == PageSlice(list, PageLimit(limit), PageOffset(offset))
         IN  /\ pages' = pages \o page
             /\ offset' = PageOffset(offset) + Len(page)
             /\ reading' = IF page = <<>> THEN "done" ELSE "yes"
    /\ stayed' = IF reading = "no" THEN Listed(dir) ELSE stayed
    /\ UNCHANGED <<vars, limit, came, went>>

(* The calls go on; what comes and goes is noted while a client reads. *)
Observed ==
    /\ stayed' = stayed \cap Listed(dir')
    /\ came' = (came \/ (reading = "yes" /\ Listed(dir') \ Listed(dir) # {}))
    /\ went' = (went \/ (reading = "yes" /\ Listed(dir) \ Listed(dir') # {}))
    /\ UNCHANGED <<reading, limit, offset, pages>>

PagingNext == ReadPage \/ (Next /\ Observed)
PagingSpec == PagingInit /\ [][PagingNext]_<<vars, pagingVars>>

-----------------------------------------------------------------------------
(* Whoever reads all pages of a sorted list from its start misses a user   *)
(* that was there all along only if another one went away meanwhile, and   *)
(* gets a user twice only if another one came. *)
FromTheStart == offset = Len(pages)

PagesCover ==
    Sorted =>
        /\ reading = "done" /\ FromTheStart /\ ~went =>
              \A i \in stayed : \E n \in DOMAIN pages : pages[n] = i
        /\ ~came => \A m, n \in DOMAIN pages : m # n => pages[m] # pages[n]
=============================================================================
