----------------------------- MODULE PyLiteDict -----------------------------
(***************************************************************************)
(* A dict of names or attributes as the partial function that it is for    *)
(* its users; PyLiteHash shows that the table implements it.               *)
(***************************************************************************)

Nothing == <<>>
With(f, n, v) == [m \in DOMAIN f \cup {n} |-> IF m = n THEN v ELSE f[m]]
Without(f, n) == [m \in DOMAIN f \ {n} |-> f[m]]
=============================================================================
