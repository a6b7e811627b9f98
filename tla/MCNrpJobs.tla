------------------------------ MODULE MCNrpJobs ------------------------------
(***************************************************************************)
(* Instances of NrpJobs for TLC.                                           *)
(***************************************************************************)
EXTENDS NrpJobs

AllData     == SUBSET {"inputs", "output"}
InputsOnly  == {{"inputs"}}
CodeOnly    == {{}}
NoInputs    == {{}, {"output"}}
=============================================================================
