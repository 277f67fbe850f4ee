------------------------- MODULE MCWorkflowEngine -------------------------
(* Instances of WorkflowEngine for TLC.                                    *)
EXTENDS WorkflowEngine

CONSTANTS a, b, w, z

(* A sequential workflow, and one with two steps at a time.                *)
MCPrograms == { <<{a}, {w}>>, <<{a, b}, {z}>> }
=============================================================================
