------------------------------ MODULE MCRedact ------------------------------
(***************************************************************************)
(* Redact for TLC: needles that overlap themselves and each other, one     *)
(* with the preferred mask byte in it, two forms of one Secret, or none.   *)
(***************************************************************************)
EXTENDS Redact

CONSTANTS a, b, m

SomeBytes == {a, b, m}

SomeMasks == <<m, "x">>

SomeNeedles == {{}, {<<a, b, a>>}, {<<a, a>>, <<b, a, m>>}, {<<a, b>>, <<b, a, b, b>>}}
=============================================================================
