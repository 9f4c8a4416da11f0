---------------------------- MODULE MCIngestRun ----------------------------
(***************************************************************************)
(* Instances of IngestRun for TLC.                                         *)
(***************************************************************************)
EXTENDS IngestRun

CONSTANTS a, b, c,   \* files
          x, y,      \* e-mails
          n1, n2     \* basenames

(* Two files that share an e-mail; one row of b does not parse. *)
TwoFiles == {a, b}
TwoText == (a :> <<x, y>>) @@ (b :> <<Bad, x>>)
TwoNames == (a :> n1) @@ (b :> n2)

(* A row over two lines and one whose e-mail is blank; a wrong header over *)
(* a line; nothing but a header, under the basename of the first. *)
ThreeFiles == {a, b, c}
OddText == (a :> <<x, More, Blank>>) @@ (b :> <<Skip>>) @@ (c :> <<>>)
SharedNames == (a :> n1) @@ (b :> n2) @@ (c :> n1)

(* The same with one row less, for liveness. *)
ShortText == (a :> <<x>>) @@ (b :> <<Bad, x>>)

(* One row each, with the same e-mail. *)
TwinText == (a :> <<x>>) @@ (b :> <<x>>)

NoFiles == {}
OnlyA == {a}
OnlyB == {b}
=============================================================================
