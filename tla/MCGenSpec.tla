------------------------------ MODULE MCGenSpec ------------------------------
(* The generated specification on every sample machine. *)
EXTENDS GenSamples
==============================================================================
