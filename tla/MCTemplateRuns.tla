---------------------------- MODULE MCTemplateRuns ----------------------------
(* Instance of TemplateRuns for TLC: a template of one step, with one input or
   two. *)
EXTENDS TemplateRuns, TLC

CONSTANTS e1

OneTool  == e1 :> "tool"
==============================================================================
