----------------------------- MODULE MCRoutines -----------------------------
EXTENDS Routines

CONSTANT d1

OneRoutine == {1}
AnyKind    == {{"queue", "limit"}, {"window", "limit"}, {"once", "limit"}}
=============================================================================
