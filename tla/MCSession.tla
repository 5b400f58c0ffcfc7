------------------------------- MODULE MCSession -------------------------------
(* A blob of two bytes and the empty one, for model checking Session.        *)
EXTENDS Session

AB == <<"a", "b">>

TwoBlobs == {AB, <<>>}
OneBlob == {AB}

\* The blob, more than it, and less.
SomeInputs == {AB, <<"a", "b", "a", "a">>, <<"a">>}

Damaged == <<"a", "a">>

TheUdig == <<"u", "u", "\n">>

=============================================================================
