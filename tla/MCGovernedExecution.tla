------------------------- MODULE MCGovernedExecution -------------------------
(* Instances of GovernedExecution for TLC: one command that needs an approval,
   a tool's or a Notion write, alone or beside a refresh that needs none. *)
EXTENDS GovernedExecution, TLC

CONSTANTS e1, e2

OneTool          == e1 :> "tool"
OneNotion        == e1 :> "notion"
NotionAndRefresh == e1 :> "notion" @@ e2 :> "refresh"
==============================================================================
