------------------------------ MODULE MCExpect ------------------------------
(* The output and the searches for model checking: two patterns, of which  *)
(* one spans two writes and ends with the other, and the list of EOF alone, *)
(* which read() and the documentation of expect use.                       *)
EXTENDS Expect

By(exact, patterns) == [exact |-> exact, patterns |-> patterns, window |-> NoWindow]

MCOutput == <<"a", "b">>
MCSearches == {By(TRUE, <<<<"b">>, <<"a", "b">>>>), By(FALSE, <<EOF>>)}
=============================================================================
