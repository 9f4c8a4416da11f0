---------------------------- MODULE MCUserPaging ----------------------------
(***************************************************************************)
(* The instance of UserPaging for TLC: two registrations, any two calls    *)
(* that meet on the users they made, and a client that reads the list      *)
(* meanwhile.                                                              *)
(***************************************************************************)
EXTENDS UserPaging, TLC

CONSTANTS alice, Alice, bob, n1, c1, c2, c3, c4

TwoAddresses == {alice, Alice, bob}
Lowered == (alice :> alice) @@ (Alice :> alice) @@ (bob :> bob)
TwoIds == 1 .. 2
OneName == {n1}
FourCalls == {c1, c2, c3, c4}
CallSymmetry == Permutations(FourCalls)

AllRequests ==
    [kind : {"register"}, user : User]
    \cup [kind : {"update"}, id : Ids, name : {Unset},
          email : Emails \cup {Unset}]
    \cup [kind : {"remove"}, id : Ids]
    \cup [kind : {"delete"}, email : {alice, bob}]

(* No limit, and one above the maximum; from a negative offset. *)
TwoLimits == {0, 5}
Negative == {-1}
=============================================================================
