--------------------------- MODULE MCPhotoPipeline ---------------------------
(***************************************************************************)
(* The pipeline as TLC checks it: every parameter is given its value by    *)
(* the .cfg of the run.  No symmetry set: most runs check a temporal       *)
(* formula, for which symmetry is unsound, and the queue picks jobs by age.*)
(***************************************************************************)
EXTENDS PhotoPipeline
=============================================================================
