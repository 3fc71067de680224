------------------------------ MODULE MCDeploy ------------------------------
(* Values for the constants of Deploy.                                     *)
EXTENDS Deploy
=============================================================================
