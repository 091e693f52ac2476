--------------------------- MODULE MCConfigFidelity ---------------------------
(***************************************************************************)
(* ConfigFidelity with literals of no, one and two parameters.             *)
(***************************************************************************)
EXTENDS ConfigFidelity

\* The longer literal holds every parameter of the shorter one, and one more.
MCLiterals == {<<"fast">>, <<"fast", "effort">>}
=============================================================================
