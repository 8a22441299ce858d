-------------------------- MODULE MCWorkflowEngine --------------------------
(* WorkflowEngine on small instances: the constants are in the .cfg files. *)
EXTENDS WorkflowEngine
=============================================================================
