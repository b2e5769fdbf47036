----------------------------- MODULE MCHXformat -----------------------------
(* A search of HXparse_dequote_fmt in texts with and without a last        *)
(* backslash.                                                              *)
EXTENDS HXformat

MCUpper == "a" :> "A"
MCScanned == {<<"a">>, <<"\\", "a">>, <<"a", "\\">>}
=============================================================================
