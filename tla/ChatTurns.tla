----------------------------- MODULE ChatTurns -----------------------------
(* The turns of one conversation at /api/chat (routers/chat_router.py).  A
   turn is a coroutine; between its awaits no other turn runs.  What the turns
   share is kept in the conversation store: the pending proposal, and the
   question "what is the task called?" that waits for a title (the slot).
   A proposal is named after the turn and the agent that made it; Earlier is
   the one an earlier process left in the file. *)
EXTENDS Integers, FiniteSets

CONSTANTS
  Turns,      \* the requests, numbered in the order they arrive: 1 .. n
  Said,       \* which of the messages each turn may be
  Earlier,    \* a proposal made before this process started
  NoProposal

VARIABLES
  chatPending,   \* pending_proposed_commands
  chatStale,     \* whether the pending proposal is older than 15 minutes
  chatSlot,      \* pending_create_task_for_goal: "none", "open", "expired"
  chatGoal,      \* whether last_referenced_goal_id is set
  chatArmed,     \* Notion Ops of the session
  chatTurn,      \* what each coroutine has in hand
  chatDeclined,  \* history: the proposals a "no" has cleared
  chatAsked,     \* history: the turns that asked for a title
  chatTitled     \* history: the turns whose message became a title

chatStore == <<chatPending, chatStale, chatSlot, chatGoal>>
chatHist  == <<chatDeclined, chatAsked, chatTitled>>
chatVars  == <<chatStore, chatArmed, chatTurn, chatHist>>

(* What a message may be, to this code.  "da" and "ne" have fewer than the
   four characters a message needs to be interpreted; one of punctuation only
   is no title. *)
Messages     == {"da", "odobri", "ne", "otkazi", "nemoj", "hmm", "question",
                 "create", "create in notion", "task for this goal",
                 "arm", "disarm", "?!?!"}
ConfirmWords == {"da", "odobri"}
DismissWords == {"ne", "otkazi", "nemoj"}
ShortWords   == {"da", "ne", "hmm"}
CancelWords  == {"ne", "otkazi"}          \* those that close the slot
WriteWords   == {"create", "create in notion", "task for this goal"}

ASSUME ChatAssumption ==
  /\ Turns \subseteq Nat
  /\ Said \in [Turns -> SUBSET Messages]
  /\ Earlier \notin (Turns \X {"agent", "advisor"}) \cup Turns \cup {NoProposal}
  /\ NoProposal \notin Turns \X {"agent", "advisor"}

Proposals == (Turns \X {"agent", "advisor"}) \cup {Earlier}
Idle      == [at |-> "new", prompt |-> "question", seen |-> NoProposal,
              gate |-> "NORMAL", declined |-> FALSE, armed |-> FALSE]

ChatTypeOK ==
  /\ chatPending \in Proposals \cup {NoProposal}
  /\ chatStale \in BOOLEAN
  /\ chatSlot \in {"none", "open", "expired"}
  /\ chatGoal \in BOOLEAN
  /\ chatArmed \in BOOLEAN
  /\ chatTurn \in
       [Turns -> [at : {"new", "bundle", "read", "agent", "advisor", "done"},
                  prompt : Messages, seen : Proposals \cup {NoProposal},
                  gate : {"CONTROL", "CONFIRM", "DISMISS", "AMBIGUOUS", "NORMAL"},
                  declined : BOOLEAN, armed : BOOLEAN]]
  /\ chatDeclined \subseteq Proposals
  /\ chatAsked \subseteq Turns \cup {Earlier}
  /\ chatTitled \subseteq Turns

(* A process starts on the file an earlier one left. *)
ChatInit ==
  /\ chatPending \in {NoProposal, Earlier}
  /\ chatStale = FALSE
  /\ chatGoal \in BOOLEAN
  /\ chatSlot \in (IF chatGoal THEN {"none", "open"} ELSE {"none"})
  /\ chatArmed \in BOOLEAN
  /\ chatTurn = [t \in Turns |-> Idle]
  /\ chatDeclined = {}
  /\ chatAsked = IF chatSlot = "open" THEN {Earlier} ELSE {}
  /\ chatTitled = {}
----------------------------------------------------------------------------
(* The turn gate: a confirmation or a dismissal counts only while a proposal
   is pending; a message too short to interpret is ambiguous. *)
Gate(m, pending) ==
  CASE m \in {"arm", "disarm"}                           -> "CONTROL"
    [] pending # NoProposal /\ m \in ConfirmWords        -> "CONFIRM"
    [] pending # NoProposal /\ m \in DismissWords        -> "DISMISS"
    [] m \in ShortWords /\ (pending = NoProposal \/ m \notin ConfirmWords \cup DismissWords)
                                                         -> "AMBIGUOUS"
    [] OTHER                                             -> "NORMAL"

(* _load_pending_proposal *)
LoadPending == IF chatStale THEN NoProposal ELSE chatPending

(* _persist_pending_proposal: a proposal replaces the pending one and its
   time; nothing to propose clears it and leaves the time alone. *)
PersistPending(p) ==
  /\ chatPending' = p
  /\ chatStale' = IF p = NoProposal THEN chatStale ELSE FALSE

(* An answered turn has nothing in hand; that it declined is remembered. *)
Answer(t) == chatTurn' = [chatTurn EXCEPT ![t] = [Idle EXCEPT !.at = "done", !.declined = chatTurn[t].declined]]

Move(t, at) == chatTurn' = [chatTurn EXCEPT ![t].at = at, ![t].seen = NoProposal, ![t].gate = "NORMAL"]

(* The request arrives: the proposal is loaded (but not for an arming
   command), the gate decides, and the knowledge snapshot is awaited. *)
ChatStart(t, m) ==
  LET seen == IF m \in {"arm", "disarm"} THEN NoProposal ELSE LoadPending IN
  /\ chatTurn[t].at = "new" /\ \A u \in Turns : u < t => chatTurn[u].at # "new"
  /\ chatTurn' = [chatTurn EXCEPT ![t] =
                    [at |-> "bundle", prompt |-> m, seen |-> seen,
                     gate |-> Gate(m, seen), declined |-> FALSE, armed |-> FALSE]]
  /\ UNCHANGED <<chatStore, chatArmed, chatHist>>

(* Grounding may refuse the question before the gate's decision is used. *)
ChatFailClosed(t) ==
  /\ chatTurn[t].at = "bundle"
  /\ Answer(t)
  /\ UNCHANGED <<chatStore, chatArmed, chatHist>>

(* Fault: a replay renews the proposal it replays. *)
ChatReplayRenews(t) ==
  /\ chatTurn[t].at = "bundle" /\ chatTurn[t].gate = "CONFIRM"
  /\ PersistPending(chatTurn[t].seen)
  /\ Answer(t)
  /\ UNCHANGED <<chatSlot, chatGoal, chatArmed, chatHist>>

(* A confirmation repeats the proposal loaded before the await. *)
ChatReplay(t) ==
  /\ chatTurn[t].at = "bundle" /\ chatTurn[t].gate = "CONFIRM"
  /\ Answer(t)
  /\ UNCHANGED <<chatStore, chatArmed, chatHist>>

ChatClarify(t) ==
  /\ chatTurn[t].at = "bundle" /\ chatTurn[t].gate = "AMBIGUOUS"
  /\ Answer(t)
  /\ UNCHANGED <<chatStore, chatArmed, chatHist>>

(* A dismissal clears whatever is pending by now, and the turn goes on. *)
ChatDismiss(t) ==
  /\ chatTurn[t].at = "bundle" /\ chatTurn[t].gate = "DISMISS"
  /\ PersistPending(NoProposal)
  /\ chatDeclined' = chatDeclined \cup ({chatPending} \ {NoProposal})
  /\ chatTurn' = [chatTurn EXCEPT ![t].at = "read", ![t].declined = TRUE,
                                  ![t].seen = NoProposal, ![t].gate = "NORMAL"]
  /\ UNCHANGED <<chatSlot, chatGoal, chatArmed, chatAsked, chatTitled>>

(* Any other message goes on to the reads it needs, which are awaited. *)
ChatProceed(t) ==
  /\ chatTurn[t].at = "bundle" /\ chatTurn[t].gate \in {"CONTROL", "NORMAL"}
  /\ Move(t, "read")
  /\ UNCHANGED <<chatStore, chatArmed, chatHist>>
----------------------------------------------------------------------------
(* "notion ops aktiviraj", "notion ops ugasi" *)
ChatSetArmed(t) ==
  /\ chatTurn[t].at = "read" /\ chatTurn[t].prompt \in {"arm", "disarm"}
  /\ chatArmed' = (chatTurn[t].prompt = "arm")
  /\ Answer(t)
  /\ UNCHANGED <<chatStore, chatHist>>

Talks(t)   == chatTurn[t].at = "read" /\ chatTurn[t].prompt \notin {"arm", "disarm"}

(* The slot takes the message; one that leaves no title goes on as it is. *)
SlotWaits(t) == Talks(t) /\ chatSlot = "open" /\ chatTurn[t].prompt # "?!?!"

ChatSlotCancel(t) ==
  /\ SlotWaits(t) /\ chatTurn[t].prompt \in CancelWords
  /\ chatSlot' = "none"
  /\ Answer(t)
  /\ UNCHANGED <<chatPending, chatStale, chatGoal, chatArmed, chatHist>>

(* Fault: the slot is closed only when the task has been proposed. *)
ChatTakeTitleLate(t) ==
  /\ SlotWaits(t) /\ chatTurn[t].prompt \notin CancelWords
  /\ chatTitled' = chatTitled \cup {t}
  /\ chatTurn' = [chatTurn EXCEPT ![t].at = "agent", ![t].prompt = "create",
                                  ![t].armed = chatArmed]
  /\ UNCHANGED <<chatStore, chatArmed, chatDeclined, chatAsked>>

(* Fault: the slot is marked as used, which nobody clears. *)
ChatTakeTitleMarked(t) ==
  /\ SlotWaits(t) /\ chatTurn[t].prompt \notin CancelWords
  /\ chatSlot' = "used"
  /\ Move(t, "agent")
  /\ UNCHANGED <<chatPending, chatStale, chatGoal, chatArmed, chatHist>>

(* Whatever else is said is the title: the message becomes the request to
   create the task, and the slot is closed before the agent is asked. *)
ChatTakeTitle(t) ==
  /\ SlotWaits(t) /\ chatTurn[t].prompt \notin CancelWords
  /\ chatSlot' = "none"
  /\ chatTitled' = chatTitled \cup {t}
  /\ chatTurn' = [chatTurn EXCEPT ![t].at = "agent", ![t].prompt = "create",
                                  ![t].armed = chatArmed]
  /\ UNCHANGED <<chatPending, chatStale, chatGoal, chatArmed, chatDeclined, chatAsked>>

(* An expired slot is cleared by the next turn that looks at it. *)
SlotAfterLook == IF chatSlot = "expired" THEN "none" ELSE chatSlot

(* "Add a task for this goal": without a goal in context it says so; without
   a title it opens the slot and asks; with one it is a request to create.  A
   title that speaks of this goal closes the slot and is taken the same way. *)
ChatAskTitle(t) ==
  /\ Talks(t) /\ chatTurn[t].prompt = "task for this goal"
  /\ \/ /\ ~chatGoal
        /\ Answer(t)
        /\ chatSlot' = "none"
        /\ UNCHANGED chatAsked
     \/ /\ chatGoal
        /\ Answer(t)
        /\ chatSlot' = "open"
        /\ chatAsked' = chatAsked \cup {t}
  /\ UNCHANGED <<chatPending, chatStale, chatGoal, chatArmed, chatDeclined, chatTitled>>

ChatWriteIntent(t) ==
  /\ Talks(t) /\ ~SlotWaits(t) /\ chatTurn[t].prompt \in WriteWords
  /\ chatTurn[t].prompt = "task for this goal" => chatGoal
  /\ chatSlot' = SlotAfterLook
  /\ chatTurn' = [chatTurn EXCEPT ![t].at = "agent", ![t].armed = chatArmed]
  /\ UNCHANGED <<chatPending, chatStale, chatGoal, chatArmed, chatHist>>

(* "Transform this plan" with no plan to transform. *)
ChatNoPlan(t) ==
  /\ Talks(t) /\ ~SlotWaits(t) /\ chatTurn[t].prompt \in {"create", "create in notion"}
  /\ chatSlot' = SlotAfterLook
  /\ Answer(t)
  /\ UNCHANGED <<chatPending, chatStale, chatGoal, chatArmed, chatHist>>

(* A question the snapshot can answer is answered without the advisor; the
   goal it shows becomes the goal in context.  Others go to the advisor. *)
ChatQuestion(t) ==
  /\ Talks(t) /\ ~SlotWaits(t) /\ chatTurn[t].prompt \notin WriteWords
  /\ chatSlot' = SlotAfterLook
  /\ \/ /\ Answer(t)
        /\ chatGoal' \in {chatGoal, TRUE}
     \/ /\ chatTurn' = [chatTurn EXCEPT ![t].at = "advisor", ![t].armed = chatArmed]
        /\ UNCHANGED chatGoal
  /\ UNCHANGED <<chatPending, chatStale, chatArmed, chatHist>>
----------------------------------------------------------------------------
(* Fault: a proposal made in the turn that declined is kept as well. *)
OwnProposalAlways(t, agent) == <<t, agent>>

(* What a turn that proposes makes pending. *)
OwnProposal(t, agent) == IF chatTurn[t].declined THEN NoProposal ELSE <<t, agent>>

(* notion_ops_agent has answered a write intent: there is always a proposal. *)
ChatAgentAnswers(t) ==
  /\ chatTurn[t].at = "agent"
  /\ PersistPending(OwnProposal(t, "agent"))
  /\ Answer(t)
  /\ UNCHANGED <<chatSlot, chatGoal, chatArmed, chatHist>>

(* It raised, or what follows its proposal did: the advisor is asked. *)
ChatAgentFails(t) ==
  /\ chatTurn[t].at = "agent"
  /\ \/ UNCHANGED <<chatPending, chatStale>>
     \/ PersistPending(OwnProposal(t, "agent"))
  /\ Move(t, "advisor")
  /\ UNCHANGED <<chatSlot, chatGoal, chatArmed, chatHist>>

(* The advisor proposes nothing, a Notion write, another action, or only a
   wrapper to be approved.  Disarmed, a Notion write is not offered; armed, a
   wrapper is not. *)
ChatAdvisorAnswers(t, out) ==
  LET armed    == chatTurn[t].armed
      notion   == chatTurn[t].prompt = "create in notion"
      blocked  == ~armed /\ (out = "notion" \/ notion)
      proposes == \/ ~armed /\ out \in {"other", "wrapper"}
                  \/ armed /\ (out \in {"notion", "other"} \/ notion)
  IN /\ chatTurn[t].at = "advisor"
     /\ \/ /\ blocked
           /\ Answer(t)
           /\ UNCHANGED <<chatPending, chatStale>>
        \/ /\ ~blocked /\ proposes
           /\ PersistPending(OwnProposal(t, "advisor"))
           /\ Answer(t)
        \/ /\ ~blocked /\ ~proposes
           /\ PersistPending(NoProposal)
           /\ Answer(t)
     /\ UNCHANGED <<chatSlot, chatGoal, chatArmed, chatHist>>

(* No language model, or the advisor raised twice: an error, nothing kept. *)
ChatAdvisorFails(t) ==
  /\ chatTurn[t].at = "advisor"
  /\ Answer(t)
  /\ UNCHANGED <<chatStore, chatArmed, chatHist>>

(* A voice turn is cancelled or times out at one of the awaits. *)
ChatAbandon(t) ==
  /\ chatTurn[t].at \in {"bundle", "read", "agent", "advisor"}
  /\ Answer(t)
  /\ UNCHANGED <<chatStore, chatArmed, chatHist>>

(* The clock: 15 minutes for a proposal, 10 for the slot. *)
ChatAge ==
  /\ \/ ~chatStale /\ chatStale' = TRUE /\ UNCHANGED chatSlot
     \/ chatSlot = "open" /\ chatSlot' = "expired" /\ UNCHANGED chatStale
  /\ UNCHANGED <<chatPending, chatGoal, chatArmed, chatTurn, chatHist>>

ChatStep(t) ==
  \/ ChatFailClosed(t) \/ ChatReplay(t) \/ ChatClarify(t) \/ ChatDismiss(t)
  \/ ChatProceed(t) \/ ChatSetArmed(t) \/ ChatSlotCancel(t) \/ ChatTakeTitle(t)
  \/ ChatAskTitle(t) \/ ChatWriteIntent(t) \/ ChatNoPlan(t) \/ ChatQuestion(t)
  \/ ChatAgentAnswers(t) \/ ChatAgentFails(t) \/ ChatAdvisorFails(t)
  \/ \E out \in {"none", "notion", "other", "wrapper"} : ChatAdvisorAnswers(t, out)

ChatNext ==
  \/ \E t \in Turns : ChatAbandon(t) \/ ChatStep(t) \/ \E m \in Said[t] : ChatStart(t, m)
  \/ ChatAge

ChatSpec == ChatInit /\ [][ChatNext]_chatVars
----------------------------------------------------------------------------
(* A proposal that a "no" has cleared is never pending again, whichever turns
   were under way: no later "yes" can repeat it. *)
DeclinedStaysDeclined == chatPending \notin chatDeclined

(* Whatever the agents propose in the turn that said "no", by any of the ways
   such a turn can end, is not left pending for the next "yes". *)
DeclinedTurnsLeaveNothing ==
  \A t \in Turns, agent \in {"agent", "advisor"} :
     chatTurn[t].declined => chatPending # <<t, agent>>

(* A question for a title makes at most one message a task, with turns that
   overlap, answers that fail and questions that expire. *)
OneTaskPerQuestion ==
  Cardinality(chatTitled) + (IF chatSlot = "open" THEN 1 ELSE 0) <= Cardinality(chatAsked)
============================================================================
