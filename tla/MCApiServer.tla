---------------------------- MODULE MCApiServer ----------------------------
(***************************************************************************)
(* Instances of ApiServer for TLC.                                         *)
(***************************************************************************)
EXTENDS ApiServer

CONSTANTS u1, u2, c1, c2

SmallDefaults == [capacity |-> 1, rate |-> 1]
Default == [fileOk |-> TRUE, file |-> <<>>, envOk |-> TRUE, env |-> <<>>]

(* The defaults; the same with a file that the environment overrides; and  *)
(* what must not start: a capacity of 0, an unreadable file, a value that  *)
(* is no number. *)
SomeSources ==
    {Default,
     [Default EXCEPT !.file = [capacity |-> 0, rate |-> 1], !.env = [capacity |-> 1]],
     [Default EXCEPT !.file = [capacity |-> 0]],
     [Default EXCEPT !.fileOk = FALSE],
     [Default EXCEPT !.envOk = FALSE]}

Token(method, user, count) ==
    [method |-> method, user |-> user, count |-> count, decodes |-> TRUE]

TokenRequests ==
    {Token("take", u1, 1), Token("return", u1, 1), Token("take", u2, 1)}
OtherRequests ==
    {Token("get", u1, 0), Token("return", u2, -1),
     [method |-> "list", user |-> NoId, decodes |-> TRUE],
     [method |-> "user", user |-> u1, decodes |-> TRUE],
     [method |-> "user", user |-> u1, decodes |-> FALSE]}

SomeHttpRequests ==
    {[op |-> "list", bad |-> {"limit"}, valid |-> FALSE, decodes |-> TRUE],
     [op |-> "get", bad |-> {}, valid |-> FALSE, decodes |-> TRUE],
     [op |-> "create", bad |-> {}, valid |-> TRUE, decodes |-> FALSE],
     [op |-> "update", bad |-> {}, valid |-> TRUE, decodes |-> TRUE]}

(* Bound, and not as the OpenAPI document has it. *)
InvalidRequest == {[op |-> "get", bad |-> {}, valid |-> FALSE, decodes |-> TRUE]}

TwoUsers == {u1, u2}
OneCall == {c1}
TwoCalls == {c1, c2}
TwoHttps == 1 .. 2
Symmetry == Permutations(TwoCalls)
NoRequests == {}
=============================================================================
