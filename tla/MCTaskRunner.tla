----------------------------- MODULE MCTaskRunner -----------------------------
\* A relaxation and a density of states in one work directory.
EXTENDS TaskRunner

OneOfEach == [t \in {"t1_si", "t2_si_dos"} |-> IF t = "t1_si" THEN "T1" ELSE "dos"]
=============================================================================
