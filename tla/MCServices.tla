------------------------------ MODULE MCServices ------------------------------
(* The services that share no state with each other, each in an instance of
   its own: a behaviour is one of one part, chosen at its start, and the other
   parts are at rest. *)
EXTENDS NotionArmed, ChatTurns, KnowledgeReads, NotionBatch, TLC

CONSTANTS Approvals, Executions, Payloads   \* see ApprovalState

VARIABLES part, approvals, disk, aged, issued

storeVars == <<approvals, disk, aged, issued>>

(* The approval store while its file can be read and written. *)
Reliable == INSTANCE ApprovalState WITH DiskMayFail <- FALSE

(* Three chat turns that overlap: one that declines, proposes or asks for a
   title, one that may be almost anything, and one more message. *)
Conversation ==
  1 :> {"ne", "create", "task for this goal"}
  @@ 2 :> {"da", "ne", "otkazi", "question", "create in notion",
           "task for this goal", "arm"}
  @@ 3 :> {"question", "ne", "odobri", "?!?!"}

Request(id, intent, target, goal, project, titled) ==
  [id |-> id, intent |-> intent, target |-> target, goal |-> goal,
   project |-> project, titled |-> titled]

(* Batches of three operations, with references that name an earlier one, one
   of two of the same name, a later one, or none. *)
FirstRequests == {Request(1, "create_goal", Unset, Unset, Unset, FALSE),
                  Request(1, "create_task", Unset, Unset, Unset, TRUE),
                  Request(2, "create_project", Unset, Unset, Unset, TRUE)}
LaterRequests == FirstRequests \cup
                 {Request(2, "create_goal", Unset, 1, Unset, TRUE),
                  Request(3, "create_task", Unset, 1, 2, FALSE),
                  Request(3, "create_task", Unset, 1, 2, TRUE),
                  Request(2, "create_project", Unset, 1, Unset, FALSE),
                  Request(3, "update_page", 2, Known, 1, FALSE),
                  Request(1, "delete_page", 2, Unset, Unset, FALSE),
                  Request(2, "unsupported", Unset, Unset, Unset, FALSE)}
RequestedBatches == {<<a, b, c>> : a \in FirstRequests, b \in LaterRequests, c \in LaterRequests}

Parts == {"approvals", "armed", "chat", "knowledge", "batch"}

ArmedRest     == Init
ChatRest      == ChatInit /\ chatPending = NoProposal /\ ~chatGoal /\ ~chatArmed
KnowledgeRest == KnInit /\ knSnap = Nothing
BatchRest     == BatchInit /\ nbBatch = CHOOSE b \in WriteBatches : TRUE

ServicesInit ==
  /\ part \in Parts
  /\ Reliable!Init
  /\ ArmedRest
  /\ IF part = "chat" THEN ChatInit ELSE ChatRest
  /\ IF part = "knowledge" THEN KnInit ELSE KnowledgeRest
  /\ IF part = "batch" THEN BatchInit ELSE BatchRest

ServicesNext ==
  /\ \/ /\ part = "approvals" /\ Reliable!Next
        /\ UNCHANGED <<vars, chatVars, knVars, nbVars>>
     \/ /\ part = "armed" /\ Next
        /\ UNCHANGED <<storeVars, chatVars, knVars, nbVars>>
     \/ /\ part = "chat" /\ ChatNext
        /\ UNCHANGED <<storeVars, vars, knVars, nbVars>>
     \/ /\ part = "knowledge" /\ KnNext
        /\ UNCHANGED <<storeVars, vars, chatVars, nbVars>>
     \/ /\ part = "batch" /\ BatchNext
        /\ UNCHANGED <<storeVars, vars, chatVars, knVars>>
  /\ UNCHANGED part

servicesVars == <<part, storeVars, vars, chatVars, knVars, nbVars>>

ServicesSpec == ServicesInit /\ [][ServicesNext]_servicesVars

(* While its file works the approval store keeps to the lifecycle of its
   docstring, restarts included (ApprovalState!KeepsLifecycle). *)
KeepsLifecycle == Reliable!KeepsLifecycle

(* Every part is in a state of its types; for the approval store this is
   checked where its file may fail. *)
ServicesTypeOK == TypeOK /\ ChatTypeOK /\ KnTypeOK /\ BatchTypeOK
==============================================================================
