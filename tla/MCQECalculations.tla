-------------------------- MODULE MCQECalculations --------------------------
(* Runs a caller may ask for: with and without inputs of their own, close to *)
(* the limits of the repairs.                                                *)
EXTENDS QECalculations

Run(template, default, ecutwfc, kpoints, path, nbnd) ==
  [template |-> template, default |-> default, ecutwfc |-> ecutwfc,
   kpoints |-> kpoints, nkpoints_bands |-> path, nbnd |-> nbnd]

\* The defaults of the materials lie between 20 and 60 Ry.
MCRequests ==
  {Run("t0_scf", 60, 0, 0, 0, 0), Run("t0_scf", 40, 115, 5, 0, 0),
   Run("t1_vc_relax", 40, 0, 6, 0, 0),
   Run("t2_bands", 60, 0, 0, 100, 0), Run("t2_bands", 40, 0, 0, 0, 8),
   Run("t2_dos", 40, 0, 0, 0, 0)}
=============================================================================
