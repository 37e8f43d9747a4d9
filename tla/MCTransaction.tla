--------------------------- MODULE MCTransaction ---------------------------
(* Transaction for TLC. *)
EXTENDS Transaction

\* Two names, and twice the same.
Lists == {<<"a", "b">>, <<"b", "b">>}

NoList == {}

=============================================================================
