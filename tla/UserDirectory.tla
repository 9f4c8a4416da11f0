--------------------------- MODULE UserDirectory ---------------------------
(***************************************************************************)
(* What a persistent repository of users promises one server: each write   *)
(* is refused because the directory as it stands does not allow it, or it  *)
(* takes effect at once and is acknowledged, or it fails and changes       *)
(* nothing.  Only a crash leaves its caller in doubt.                      *)
(***************************************************************************)
EXTENDS Users

CONSTANT NoWrite  \* no write is in progress

VARIABLES dir,    \* the users that would be there after a crash
          call,   \* the write in progress
          done,   \* whether it has taken effect
          reply   \* how the last write ended

vars == <<dir, call, done, reply>>

Init == dir = Empty /\ call = NoWrite /\ ~done /\ reply = "none"

Refuse(w) ==
    /\ call = NoWrite
    /\ ~Valid(dir, w)
    /\ reply' = "invalid"
    /\ UNCHANGED <<dir, call, done>>

Begin(w) ==
    /\ call = NoWrite
    /\ Valid(dir, w)
    /\ call' = w
    /\ UNCHANGED <<dir, done, reply>>

TakeEffect ==
    /\ call # NoWrite /\ ~done
    /\ dir' = Applied(dir, call)
    /\ done' = TRUE
    /\ UNCHANGED <<call, reply>>

End(answer) ==
    /\ call # NoWrite
    /\ call' = NoWrite /\ done' = FALSE /\ reply' = answer
    /\ UNCHANGED dir

Acknowledge == done /\ End("ok")
Fail == ~done /\ End("storage")

Crash ==
    /\ call' = NoWrite /\ done' = FALSE /\ reply' = "none"
    /\ UNCHANGED dir

Next ==
    \/ \E w \in Writes : Refuse(w) \/ Begin(w)
    \/ TakeEffect \/ Acknowledge \/ Fail \/ Crash

Spec == Init /\ [][Next]_vars
=============================================================================
