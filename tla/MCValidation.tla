---------------------------- MODULE MCValidation ----------------------------
(* Instances of Validation for TLC. *)
EXTENDS Validation

CONSTANTS v1, v2, f1

\* The Node holds the second version and the first fingerprint, and now and then
\* cannot confirm the version.
LosesContent == {<<v2, f1>>, <<"unknown", f1>>}

Steady == {<<v2, f1>>}
=============================================================================
