----------------------------- MODULE MCStrings -----------------------------
(***************************************************************************)
(* Two strings that grow by turns, and C strings made on the way.          *)
(***************************************************************************)
EXTENDS Strings

MCGarbage  == <<"garbage", 0>>
MCLiterals == {<<"a", "b", "a">>, <<"b">>}

=============================================================================
