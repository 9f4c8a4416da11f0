----------------------------- MODULE JobLedger -----------------------------
(***************************************************************************)
(* What the worker pool promises its callers, without workers, channels or *)
(* locks.  A job offered to the pool is either refused, and then never     *)
(* runs, or accepted, and then runs exactly once.  Settling is what a      *)
(* return of Stop means: nothing is offered or pending, and nothing ever   *)
(* will be again.                                                          *)
(***************************************************************************)
CONSTANT Jobs

VARIABLES offered, pending, executing, finished, refused, settled

vars == <<offered, pending, executing, finished, refused, settled>>

Known == offered \cup pending \cup executing \cup finished \cup refused

Init ==
    /\ offered = {} /\ pending = {} /\ executing = {}
    /\ finished = {} /\ refused = {}
    /\ settled = FALSE

Offer(j) ==
    /\ ~settled
    /\ j \notin Known
    /\ offered' = offered \cup {j}
    /\ UNCHANGED <<pending, executing, finished, refused, settled>>

Refuse(j) ==
    /\ j \in offered
    /\ offered' = offered \ {j}
    /\ refused' = refused \cup {j}
    /\ UNCHANGED <<pending, executing, finished, settled>>

Accept(j) ==
    /\ j \in offered
    /\ offered' = offered \ {j}
    /\ pending' = pending \cup {j}
    /\ UNCHANGED <<executing, finished, refused, settled>>

(* A job given straight to a worker is never pending. *)
HandOver(j) ==
    /\ j \in offered
    /\ offered' = offered \ {j}
    /\ executing' = executing \cup {j}
    /\ UNCHANGED <<pending, finished, refused, settled>>

Begin(j) ==
    /\ j \in pending
    /\ pending' = pending \ {j}
    /\ executing' = executing \cup {j}
    /\ UNCHANGED <<offered, finished, refused, settled>>

End(j) ==
    /\ j \in executing
    /\ executing' = executing \ {j}
    /\ finished' = finished \cup {j}
    /\ UNCHANGED <<offered, pending, refused, settled>>

Settle ==
    /\ offered = {} /\ pending = {}
    /\ settled' = TRUE
    /\ UNCHANGED <<offered, pending, executing, finished, refused>>

Next ==
    \/ \E j \in Jobs : \/ Offer(j) \/ Refuse(j) \/ Accept(j)
                       \/ HandOver(j) \/ Begin(j) \/ End(j)
    \/ Settle

Spec == Init /\ [][Next]_vars
=============================================================================
