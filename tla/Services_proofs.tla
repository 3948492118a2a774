-------------------------- MODULE Services_proofs --------------------------
(* Proofs about the services that share no state with each other, one section
   for each, and about the module that instantiates them. *)
EXTENDS MCServices, FiniteSetTheorems, TLAPS

----------------------------------------------------------------------------
(* NotionArmed, for any principals, TTL and clock bound.

   What the gate answers is computed from memory or from a reload.  Memory is
   only used while it equals the file (AnswersArePersistent), so both are the
   file's content, and every entry of the file is a setting that was answered
   or whose answer was lost (FileIsAsked). *)

FileIsAsked == \A p \in Principals : Stored[p] \in {acked[p]} \cup lost[p]

ArmedInv == TypeOK /\ AnswersArePersistent /\ FileIsAsked /\ GateNeedsArming

(* Whether an operation reloads or not, it works on the file's content. *)
LEMMA CurrentIsStored ==
  ASSUME TypeOK, AnswersArePersistent
  PROVE  /\ Current = Stored /\ Stored \in [Principals -> Setting]
         /\ OnDisk = Stored
<1>1. AllOff \in [Principals -> Setting]
  BY DEF AllOff, Off, Setting
<1>2. Stored \in [Principals -> Setting]
  BY <1>1 DEF TypeOK, Stored
<1>3. CASE Usable
  <2>1. file = data
    BY <1>3 DEF AnswersArePersistent
  <2>2. file # Absent
    BY <2>1, ArmedAssumption DEF TypeOK
  <2>. QED
    BY <1>2, <1>3, <2>1, <2>2 DEF Current, OnDisk, Stored
<1>4. CASE ~Usable
  BY <1>2, <1>4 DEF Current, OnDisk
<1>. QED
  BY <1>3, <1>4

(* Both settings a request can ask for are settings. *)
LEMMA AskedIsSetting ==
  ASSUME TypeOK
  PROVE  Off \in Setting /\ [armed |-> TRUE, until |-> now + TTL] \in Setting
BY ArmedAssumption DEF TypeOK, Off, Setting

(* The first state: nothing stored, nobody armed. *)
LEMMA InitArmedInv == Init => ArmedInv
<1>. SUFFICES ASSUME Init PROVE ArmedInv
  OBVIOUS
<1>1. AllOff \in [Principals -> Setting]
  BY DEF AllOff, Off, Setting
<1>2. TypeOK
  BY <1>1 DEF Init, TypeOK, NotAsked
<1>3. FileIsAsked
  BY DEF Init, FileIsAsked, Stored
<1>4. AnswersArePersistent /\ GateNeedsArming
  BY DEF Init, AnswersArePersistent, Usable, GateNeedsArming, NotAsked
<1>. QED
  BY <1>2, <1>3, <1>4 DEF ArmedInv

(* A failing load changes neither the file nor what is known of it. *)
LEMMA LoadFailsArmedInv ==
  ASSUME ArmedInv, LoadFails,
         gate' \in [Principals -> {"none", "error"}]
  PROVE  ArmedInv'
<1>1. AllOff \in [Principals -> Setting]
  BY DEF AllOff, Off, Setting
<1>2. TypeOK'
  BY <1>1 DEF ArmedInv, TypeOK, LoadFails
<1>3. AnswersArePersistent'
  BY DEF LoadFails, AnswersArePersistent, Usable
<1>4. FileIsAsked'
  BY DEF ArmedInv, LoadFails, FileIsAsked, Stored
<1>5. GateNeedsArming'
  BY DEF GateNeedsArming
<1>. QED
  BY <1>2, <1>3, <1>4, <1>5 DEF ArmedInv

(* get answers from the file's content. *)
LEMMA GetArmedInv ==
  ASSUME ArmedInv, NEW p \in Principals, Get(p)
  PROVE  ArmedInv'
<1>1. CASE LoadFails /\ gate' = [NotAsked EXCEPT ![p] = "error"]
  BY <1>1, LoadFailsArmedInv DEF NotAsked
<1>2. CASE /\ data' = Current /\ file' = OnDisk
           /\ loaded' = TRUE /\ healthy' = TRUE
           /\ gate' = [NotAsked EXCEPT ![p] = IF Active(Current[p]) THEN "armed" ELSE "disarmed"]
           /\ UNCHANGED <<now, acked, lost>>
  <2>1. Current = Stored /\ Stored \in [Principals -> Setting] /\ OnDisk = Stored
    BY CurrentIsStored DEF ArmedInv
  <2>2. TypeOK'
    BY <1>2, <2>1 DEF ArmedInv, TypeOK, NotAsked
  <2>3. AnswersArePersistent'
    BY <1>2, <2>1 DEF AnswersArePersistent
  <2>4. Stored' = Stored
    BY <1>2, <2>1, ArmedAssumption DEF Stored
  <2>5. FileIsAsked'
    BY <1>2, <2>4 DEF ArmedInv, FileIsAsked
  <2>6. ASSUME NEW q \in Principals, gate'[q] = "armed"
        PROVE  \E s \in {acked'[q]} \cup lost'[q] : s.armed /\ now' < s.until
    <3>1. q = p /\ Active(Stored[p])
      BY <1>2, <2>1, <2>6 DEF NotAsked
    <3>2. Stored[p] \in {acked'[q]} \cup lost'[q]
      BY <1>2, <3>1 DEF ArmedInv, FileIsAsked
    <3>. QED
      BY <1>2, <3>1, <3>2 DEF Active
  <2>. QED
    BY <2>2, <2>3, <2>5, <2>6 DEF ArmedInv, GateNeedsArming
<1>. QED
  BY <1>1, <1>2 DEF Get

(* set: the file takes the setting and the caller is answered, or neither. *)
LEMMA SetArmedInv ==
  ASSUME ArmedInv, NEW p \in Principals, NEW s \in Setting, Set(p, s)
  PROVE  ArmedInv'
<1>1. CASE LoadFails /\ gate' = NotAsked
  BY <1>1, LoadFailsArmedInv DEF NotAsked
<1>2. CASE /\ data' = [Current EXCEPT ![p] = s]
           /\ loaded' = TRUE
           /\ \/ /\ file' = data' /\ healthy' = TRUE
                 /\ acked' = [acked EXCEPT ![p] = s]
                 /\ lost' = [lost EXCEPT ![p] = {}]
              \/ DiskMayFail /\ file' = OnDisk /\ healthy' = FALSE /\ UNCHANGED <<acked, lost>>
           /\ gate' = NotAsked
           /\ UNCHANGED now
  <2>1. Current = Stored /\ Stored \in [Principals -> Setting] /\ OnDisk = Stored
    BY CurrentIsStored DEF ArmedInv
  <2>2. data' \in [Principals -> Setting]
    BY <1>2, <2>1
  <2>3. TypeOK'
    BY <1>2, <2>1, <2>2 DEF ArmedInv, TypeOK, NotAsked
  <2>4. AnswersArePersistent'
    BY <1>2 DEF AnswersArePersistent, Usable
  <2>5. GateNeedsArming'
    BY <1>2 DEF GateNeedsArming, NotAsked
  <2>6. FileIsAsked'
    <3>1. CASE file' = data' /\ acked' = [acked EXCEPT ![p] = s] /\ lost' = [lost EXCEPT ![p] = {}]
      <4>1. Stored' = [Stored EXCEPT ![p] = s]
        BY <1>2, <2>1, <2>2, <3>1, ArmedAssumption DEF Stored
      <4>. QED
        BY <2>1, <3>1, <4>1 DEF ArmedInv, TypeOK, FileIsAsked
    <3>2. CASE file' = OnDisk /\ UNCHANGED <<acked, lost>>
      <4>1. Stored' = Stored
        BY <2>1, <3>2, ArmedAssumption DEF Stored
      <4>. QED
        BY <3>2, <4>1 DEF ArmedInv, FileIsAsked
    <3>. QED
      BY <1>2, <3>1, <3>2
  <2>. QED
    BY <2>3, <2>4, <2>5, <2>6 DEF ArmedInv
<1>. QED
  BY <1>1, <1>2 DEF Set

(* A stop outside an operation leaves the file as it is. *)
LEMMA CrashArmedInv ==
  ASSUME ArmedInv, Crash
  PROVE  ArmedInv'
<1>1. AllOff \in [Principals -> Setting]
  BY DEF AllOff, Off, Setting
<1>. QED
  BY <1>1 DEF ArmedInv, Crash, Stop, TypeOK, AnswersArePersistent, Usable, FileIsAsked, Stored,
              GateNeedsArming, NotAsked

(* A stop inside a set: the file is of before or of after it. *)
LEMMA CrashInSetArmedInv ==
  ASSUME ArmedInv, NEW p \in Principals, NEW s \in Setting, CrashInSet(p, s)
  PROVE  ArmedInv'
<1>1. AllOff \in [Principals -> Setting]
  BY DEF AllOff, Off, Setting
<1>2. Current = Stored /\ Stored \in [Principals -> Setting]
  BY CurrentIsStored DEF ArmedInv
<1>3. [Current EXCEPT ![p] = s] \in [Principals -> Setting]
  BY <1>2
<1>4. TypeOK'
  BY <1>1, <1>3 DEF ArmedInv, TypeOK, CrashInSet, Stop, NotAsked
<1>5. AnswersArePersistent'
  BY DEF CrashInSet, Stop, AnswersArePersistent, Usable
<1>6. GateNeedsArming'
  BY DEF CrashInSet, GateNeedsArming, NotAsked
<1>7. Stored' = Stored \/ Stored' = [Stored EXCEPT ![p] = s]
  BY <1>2, <1>3, ArmedAssumption DEF CrashInSet, Stored
<1>8. \A q \in Principals : /\ acked'[q] = acked[q] /\ lost[q] \subseteq lost'[q]
                            /\ s \in lost'[p]
  BY DEF ArmedInv, TypeOK, CrashInSet
<1>9. FileIsAsked'
  BY <1>2, <1>7, <1>8 DEF ArmedInv, FileIsAsked
<1>. QED
  BY <1>4, <1>5, <1>6, <1>9 DEF ArmedInv

(* The clock only closes the gate. *)
LEMMA TickArmedInv ==
  ASSUME ArmedInv, Tick
  PROVE  ArmedInv'
BY DEF ArmedInv, Tick, TypeOK, AnswersArePersistent, Usable, FileIsAsked, Stored,
       GateNeedsArming, NotAsked

(* Every step preserves the invariant. *)
LEMMA NextArmedInv == ArmedInv /\ [Next]_vars => ArmedInv'
<1>. SUFFICES ASSUME ArmedInv, [Next]_vars PROVE ArmedInv'
  OBVIOUS
<1>1. ASSUME NEW p \in Principals, Get(p) PROVE ArmedInv'
  BY <1>1, GetArmedInv
<1>2. ASSUME NEW p \in Principals, Arm(p) \/ Disarm(p) PROVE ArmedInv'
  BY <1>2, SetArmedInv, AskedIsSetting DEF Arm, Disarm, ArmedInv
<1>3. ASSUME NEW p \in Principals,
             NEW s \in {Off, [armed |-> TRUE, until |-> now + TTL]}, CrashInSet(p, s)
      PROVE  ArmedInv'
  BY <1>3, CrashInSetArmedInv, AskedIsSetting DEF ArmedInv
<1>4. CASE Crash
  BY <1>4, CrashArmedInv
<1>5. CASE Tick
  BY <1>5, TickArmedInv
<1>6. CASE UNCHANGED vars
  BY <1>6 DEF vars, ArmedInv, TypeOK, AnswersArePersistent, Usable, FileIsAsked, Stored,
              GateNeedsArming
<1>. QED
  BY <1>1, <1>2, <1>3, <1>4, <1>5, <1>6 DEF Next

(* Memory, file and answers keep their shape through failed flushes and reloads. *)
THEOREM ArmedTypeCorrect == Spec => []TypeOK
<1>1. ArmedInv => TypeOK
  BY DEF ArmedInv
<1>. QED
  BY <1>1, InitArmedInv, NextArmedInv, PTL DEF Spec

(* The gate never opens for an arming whose request failed, was followed by an
   answered disarming, or has expired. *)
THEOREM GateIsSound == Spec => []GateNeedsArming
<1>1. ArmedInv => GateNeedsArming
  BY DEF ArmedInv
<1>. QED
  BY <1>1, InitArmedInv, NextArmedInv, PTL DEF Spec

(* Memory that answers equals the file: no answer of the store is lost by a
   restart. *)
THEOREM ArmingsArePersistent == Spec => []AnswersArePersistent
<1>1. ArmedInv => AnswersArePersistent
  BY DEF ArmedInv
<1>. QED
  BY <1>1, InitArmedInv, NextArmedInv, PTL DEF Spec

----------------------------------------------------------------------------
(* ChatTurns, for any turns and whatever they say.

   A turn only goes forward, and what it proposes or asks is named after it.
   So a proposal that was ever pending, or declined, is of a turn that will not
   make it again (MadeByThen), and a turn that took a title or asked for one
   will not do so again (TookByThen, AskedByThen). *)

Agents == {"agent", "advisor"}

(* Where a turn is once it has made a proposal. *)
After(agent) == IF agent = "agent" THEN {"advisor", "done"} ELSE {"done"}

MadeByThen ==
  \A t \in Turns, agent \in Agents :
     <<t, agent>> \in chatDeclined \cup {chatPending} => chatTurn[t].at \in After(agent)

TookByThen  == \A t \in chatTitled : chatTurn[t].at \in {"agent", "advisor", "done"}
AskedByThen == \A t \in chatAsked \cap Turns : chatTurn[t].at = "done"

PInv == /\ ChatTypeOK
        /\ NoProposal \notin chatDeclined
        /\ MadeByThen
        /\ DeclinedStaysDeclined
        /\ DeclinedTurnsLeaveNothing

TInv == /\ ChatTypeOK
        /\ TookByThen /\ AskedByThen
        /\ IsFiniteSet(chatTitled) /\ IsFiniteSet(chatAsked)
        /\ OneTaskPerQuestion

TurnState == [at : {"new", "bundle", "read", "agent", "advisor", "done"},
              prompt : Messages, seen : Proposals \cup {NoProposal},
              gate : {"CONTROL", "CONFIRM", "DISMISS", "AMBIGUOUS", "NORMAL"},
              declined : BOOLEAN, armed : BOOLEAN]

(* What the turns have in hand keeps its type if that of one turn does. *)
LEMMA IdleIsTurnState == Idle \in TurnState
BY DEF Idle, TurnState, Messages

(* The state an answered turn is left in. *)
LEMMA AnswerType ==
  ASSUME ChatTypeOK, NEW t \in Turns, Answer(t)
  PROVE  chatTurn' \in [Turns -> TurnState]
BY DEF ChatTypeOK, TurnState, Answer, Idle, Messages

(* The state of a turn that goes on. *)
LEMMA MoveType ==
  ASSUME ChatTypeOK, NEW t \in Turns, NEW at \in {"read", "agent", "advisor"}, Move(t, at)
  PROVE  chatTurn' \in [Turns -> TurnState]
<1>1. chatTurn[t] \in TurnState
  BY DEF ChatTypeOK, TurnState
<1>2. [[[chatTurn[t] EXCEPT !.at = at] EXCEPT !.seen = NoProposal] EXCEPT !.gate = "NORMAL"] \in TurnState
  BY <1>1 DEF TurnState
<1>3. chatTurn' = [chatTurn EXCEPT ![t] =
         [[[chatTurn[t] EXCEPT !.at = at] EXCEPT !.seen = NoProposal] EXCEPT !.gate = "NORMAL"]]
  BY DEF ChatTypeOK, TurnState, Move
<1>. QED
  BY <1>2, <1>3 DEF ChatTypeOK, TurnState

(* The state of a turn that asks an agent, with its message or a title. *)
LEMMA AsksType ==
  ASSUME ChatTypeOK, NEW t \in Turns, NEW at \in {"agent", "advisor"},
         \/ chatTurn' = [chatTurn EXCEPT ![t].at = at, ![t].armed = chatArmed]
         \/ chatTurn' = [chatTurn EXCEPT ![t].at = at, ![t].prompt = "create",
                                         ![t].armed = chatArmed]
  PROVE  chatTurn' \in [Turns -> TurnState]
<1>. DEFINE asks  == [[chatTurn[t] EXCEPT !.at = at] EXCEPT !.armed = chatArmed]
            title == [[[chatTurn[t] EXCEPT !.at = at] EXCEPT !.prompt = "create"]
                       EXCEPT !.armed = chatArmed]
<1>1. chatTurn[t] \in TurnState /\ chatArmed \in BOOLEAN /\ "create" \in Messages
  BY DEF ChatTypeOK, TurnState, Messages
<1>2. asks \in TurnState /\ title \in TurnState
  BY <1>1 DEF TurnState
<1>3. chatTurn' = [chatTurn EXCEPT ![t] = asks] \/ chatTurn' = [chatTurn EXCEPT ![t] = title]
  BY DEF ChatTypeOK, TurnState
<1>. QED
  BY <1>2, <1>3 DEF ChatTypeOK, TurnState

(* A proposal to keep is one, or none. *)
LEMMA OwnProposalType ==
  ASSUME NEW t \in Turns, NEW agent \in Agents
  PROVE  OwnProposal(t, agent) \in Proposals \cup {NoProposal}
BY DEF OwnProposal, Proposals, Agents

(* Persisting keeps the types of what it writes. *)
LEMMA PersistType ==
  ASSUME ChatTypeOK, NEW p \in Proposals \cup {NoProposal}, PersistPending(p)
  PROVE  chatPending' \in Proposals \cup {NoProposal} /\ chatStale' \in BOOLEAN
BY DEF ChatTypeOK, PersistPending

(* The first state. *)
LEMMA InitChatType == ChatInit => ChatTypeOK
BY IdleIsTurnState DEF ChatInit, ChatTypeOK, TurnState, Proposals

(* Each step keeps the types. *)
LEMMA NextChatType == ASSUME ChatTypeOK, [ChatNext]_chatVars PROVE ChatTypeOK'
<1>. USE DEF ChatTypeOK
<1>1. ASSUME NEW t \in Turns, NEW m \in Said[t], ChatStart(t, m) PROVE ChatTypeOK'
  <2>1. m \in Messages
    BY <1>1, ChatAssumption
  <2>2. /\ LoadPending \in Proposals \cup {NoProposal}
        /\ \A p : Gate(m, p) \in {"CONTROL", "CONFIRM", "DISMISS", "AMBIGUOUS", "NORMAL"}
    BY DEF LoadPending, Gate
  <2>. QED
    BY <1>1, <2>1, <2>2 DEF ChatStart, chatStore, chatHist
<1>2. ASSUME NEW t \in Turns, ChatAbandon(t) \/ ChatFailClosed(t) \/ ChatReplay(t) \/ ChatClarify(t)
                              \/ ChatAdvisorFails(t)
      PROVE ChatTypeOK'
  BY <1>2, AnswerType DEF ChatAbandon, ChatFailClosed, ChatReplay, ChatClarify, ChatAdvisorFails,
                          chatStore, chatHist, TurnState
<1>3. ASSUME NEW t \in Turns, ChatDismiss(t) PROVE ChatTypeOK'
  BY <1>3, PersistType DEF ChatDismiss, TurnState
<1>4. ASSUME NEW t \in Turns, ChatProceed(t) PROVE ChatTypeOK'
  BY <1>4, MoveType DEF ChatProceed, chatStore, chatHist, TurnState
<1>5. ASSUME NEW t \in Turns, ChatSetArmed(t) PROVE ChatTypeOK'
  BY <1>5, AnswerType DEF ChatSetArmed, chatStore, chatHist, TurnState
<1>6. ASSUME NEW t \in Turns, ChatSlotCancel(t) PROVE ChatTypeOK'
  BY <1>6, AnswerType DEF ChatSlotCancel, chatHist, TurnState
<1>7. ASSUME NEW t \in Turns, ChatTakeTitle(t) PROVE ChatTypeOK'
  BY <1>7, AsksType DEF ChatTakeTitle, TurnState
<1>8. ASSUME NEW t \in Turns, ChatAskTitle(t) PROVE ChatTypeOK'
  BY <1>8, AnswerType DEF ChatAskTitle, SlotAfterLook, TurnState
<1>9. ASSUME NEW t \in Turns, ChatWriteIntent(t) PROVE ChatTypeOK'
  BY <1>9, AsksType DEF ChatWriteIntent, SlotAfterLook, chatHist, TurnState
<1>10. ASSUME NEW t \in Turns, ChatNoPlan(t) PROVE ChatTypeOK'
  BY <1>10, AnswerType DEF ChatNoPlan, SlotAfterLook, chatHist, TurnState
<1>11. ASSUME NEW t \in Turns, ChatQuestion(t) PROVE ChatTypeOK'
  <2>1. CASE Answer(t) /\ chatGoal' \in {chatGoal, TRUE}
    BY <1>11, <2>1, AnswerType DEF ChatQuestion, SlotAfterLook, chatHist, TurnState
  <2>2. CASE ~(Answer(t) /\ chatGoal' \in {chatGoal, TRUE})
    BY <1>11, <2>2, AsksType DEF ChatQuestion, SlotAfterLook, chatHist, TurnState
  <2>. QED
    BY <2>1, <2>2
<1>12. ASSUME NEW t \in Turns, ChatAgentAnswers(t) PROVE ChatTypeOK'
  BY <1>12, AnswerType, PersistType, OwnProposalType DEF ChatAgentAnswers, chatHist, TurnState, Agents
<1>13. ASSUME NEW t \in Turns, ChatAgentFails(t) PROVE ChatTypeOK'
  BY <1>13, MoveType, PersistType, OwnProposalType DEF ChatAgentFails, chatHist, TurnState, Agents
<1>14. ASSUME NEW t \in Turns, NEW out, ChatAdvisorAnswers(t, out) PROVE ChatTypeOK'
  <2>1. Answer(t)
    BY <1>14 DEF ChatAdvisorAnswers
  <2>2. \/ UNCHANGED <<chatPending, chatStale>>
        \/ PersistPending(OwnProposal(t, "advisor"))
        \/ PersistPending(NoProposal)
    BY <1>14 DEF ChatAdvisorAnswers
  <2>3. chatPending' \in Proposals \cup {NoProposal} /\ chatStale' \in BOOLEAN
    BY <2>2, PersistType, OwnProposalType DEF Agents
  <2>. QED
    BY <1>14, <2>1, <2>3, AnswerType DEF ChatAdvisorAnswers, chatHist, TurnState
<1>15. CASE ChatAge
  BY <1>15 DEF ChatAge, chatHist
<1>16. CASE UNCHANGED chatVars
  BY <1>16 DEF chatVars, chatStore, chatHist
<1>. QED
  BY <1>1, <1>2, <1>3, <1>4, <1>5, <1>6, <1>7, <1>8, <1>9, <1>10, <1>11, <1>12, <1>13, <1>14,
     <1>15, <1>16 DEF ChatNext, ChatStep

(* The state keeps its types. *)
THEOREM ChatTypeCorrect == ChatSpec => []ChatTypeOK
<1>1. ChatInit => ChatTypeOK
  BY InitChatType
<1>2. ChatTypeOK /\ [ChatNext]_chatVars => ChatTypeOK'
  BY NextChatType
<1>. QED
  BY <1>1, <1>2, PTL DEF ChatSpec

(* What a step may do, in the terms of the two invariants. *)
OnlyForward ==
  \A u \in Turns :
    /\ chatTurn[u].at = "agent" => chatTurn'[u].at \in {"agent", "advisor", "done"}
    /\ chatTurn[u].at = "advisor" => chatTurn'[u].at \in {"advisor", "done"}
    /\ chatTurn[u].at = "done" => chatTurn'[u].at = "done"

DeclinesCleanly ==
  \A u \in Turns : chatTurn'[u].declined => chatTurn[u].declined \/ chatPending' = NoProposal

Proposes(t, agent) ==
  /\ chatPending' = <<t, agent>>
  /\ chatTurn[t].at = agent /\ ~chatTurn[t].declined
  /\ chatTurn'[t].at \in After(agent)

PendingMoves ==
  \/ /\ \/ chatPending' \in {chatPending, NoProposal}
        \/ \E t \in Turns, agent \in Agents : Proposes(t, agent)
     /\ chatDeclined' = chatDeclined
  \/ /\ chatPending' = NoProposal
     /\ chatDeclined' = chatDeclined \cup ({chatPending} \ {NoProposal})

Titles(t) ==
  /\ chatTurn[t].at = "read" /\ chatTurn'[t].at = "agent"
  /\ chatSlot = "open" /\ chatSlot' = "none"
  /\ chatTitled' = chatTitled \cup {t} /\ chatAsked' = chatAsked

AsksTitle(t) ==
  /\ chatTurn[t].at = "read" /\ chatTurn'[t].at = "done"
  /\ chatAsked' = chatAsked \cup {t} /\ chatTitled' = chatTitled

TitleMoves ==
  \/ \E t \in Turns : Titles(t) \/ AsksTitle(t)
  \/ /\ chatTitled' = chatTitled /\ chatAsked' = chatAsked
     /\ chatSlot' = "open" => chatSlot = "open"

Moves == OnlyForward /\ DeclinesCleanly /\ PendingMoves /\ TitleMoves

(* The one turn that moves, and the others. *)
LEMMA AnswerMoves ==
  ASSUME ChatTypeOK, NEW t \in Turns, Answer(t)
  PROVE  /\ OnlyForward
         /\ chatTurn'[t].at = "done"
         /\ \A u \in Turns : chatTurn'[u].declined = chatTurn[u].declined
BY DEF ChatTypeOK, Answer, Idle, OnlyForward

(* A turn that proposes and is answered, or goes on to the advisor. *)
LEMMA PersistMoves ==
  ASSUME ChatTypeOK, NEW t \in Turns, NEW agent \in Agents,
         PersistPending(OwnProposal(t, agent)), chatTurn[t].at = agent,
         chatTurn'[t].at \in After(agent), chatDeclined' = chatDeclined
  PROVE  PendingMoves
BY DEF PersistPending, OwnProposal, PendingMoves, Proposes

(* Each step does no more than that. *)
LEMMA NextMoves == ASSUME ChatTypeOK, [ChatNext]_chatVars PROVE Moves
<1>1. ASSUME NEW t \in Turns, NEW m \in Said[t], ChatStart(t, m) PROVE Moves
  <2>1. OnlyForward /\ DeclinesCleanly
    BY <1>1 DEF ChatStart, ChatTypeOK, OnlyForward, DeclinesCleanly
  <2>2. PendingMoves /\ TitleMoves
    BY <1>1 DEF ChatStart, chatStore, chatHist, PendingMoves, TitleMoves
  <2>. QED
    BY <2>1, <2>2 DEF Moves
<1>2. ASSUME NEW t \in Turns, ChatAbandon(t) \/ ChatFailClosed(t) \/ ChatReplay(t) \/ ChatClarify(t)
                              \/ ChatAdvisorFails(t) \/ ChatSetArmed(t)
      PROVE Moves
  BY <1>2, AnswerMoves DEF ChatAbandon, ChatFailClosed, ChatReplay, ChatClarify, ChatAdvisorFails,
     ChatSetArmed, chatStore, chatHist, Moves, PendingMoves, TitleMoves, DeclinesCleanly
<1>3. ASSUME NEW t \in Turns, ChatDismiss(t) PROVE Moves
  <2>1. chatPending' = NoProposal
    BY <1>3 DEF ChatDismiss, PersistPending
  <2>2. OnlyForward
    BY <1>3 DEF ChatDismiss, ChatTypeOK, OnlyForward
  <2>. QED
    BY <1>3, <2>1, <2>2 DEF ChatDismiss, Moves, PendingMoves, TitleMoves, DeclinesCleanly
<1>4. ASSUME NEW t \in Turns, ChatProceed(t) PROVE Moves
  <2>1. OnlyForward /\ DeclinesCleanly
    BY <1>4 DEF ChatProceed, Move, ChatTypeOK, OnlyForward, DeclinesCleanly
  <2>. QED
    BY <1>4, <2>1 DEF ChatProceed, chatStore, chatHist, Moves, PendingMoves, TitleMoves
<1>5. ASSUME NEW t \in Turns, ChatSlotCancel(t) \/ ChatNoPlan(t) PROVE Moves
  BY <1>5, AnswerMoves DEF ChatSlotCancel, ChatNoPlan, SlotAfterLook, chatHist,
     Moves, PendingMoves, TitleMoves, DeclinesCleanly
<1>6. ASSUME NEW t \in Turns, ChatTakeTitle(t) PROVE Moves
  <2>1. OnlyForward /\ DeclinesCleanly
    BY <1>6 DEF ChatTakeTitle, SlotWaits, Talks, ChatTypeOK, OnlyForward, DeclinesCleanly
  <2>2. Titles(t)
    BY <1>6 DEF ChatTakeTitle, SlotWaits, Talks, ChatTypeOK, Titles
  <2>. QED
    BY <1>6, <2>1, <2>2 DEF ChatTakeTitle, Moves, PendingMoves, TitleMoves
<1>7. ASSUME NEW t \in Turns, ChatAskTitle(t) PROVE Moves
  <2>1. Answer(t)
    BY <1>7 DEF ChatAskTitle
  <2>2. TitleMoves
    BY <1>7, <2>1, AnswerMoves DEF ChatAskTitle, SlotWaits, Talks, SlotAfterLook, TitleMoves, AsksTitle
  <2>. QED
    BY <1>7, <2>1, <2>2, AnswerMoves DEF ChatAskTitle, Moves, PendingMoves, DeclinesCleanly
<1>8. ASSUME NEW t \in Turns, ChatWriteIntent(t) PROVE Moves
  <2>1. OnlyForward /\ DeclinesCleanly
    BY <1>8 DEF ChatWriteIntent, Talks, ChatTypeOK, OnlyForward, DeclinesCleanly
  <2>. QED
    BY <1>8, <2>1 DEF ChatWriteIntent, SlotAfterLook, chatHist, Moves, PendingMoves, TitleMoves
<1>9. ASSUME NEW t \in Turns, ChatQuestion(t) PROVE Moves
  <2>1. OnlyForward /\ DeclinesCleanly
    <3>1. CASE Answer(t)
      BY <3>1, AnswerMoves DEF DeclinesCleanly
    <3>2. CASE ~Answer(t)
      <4>1. /\ chatTurn[t].at = "read"
            /\ chatTurn' = [chatTurn EXCEPT ![t].at = "advisor", ![t].armed = chatArmed]
        BY <1>9, <3>2 DEF ChatQuestion, Talks
      <4>. QED
        BY <4>1 DEF ChatTypeOK, OnlyForward, DeclinesCleanly
    <3>. QED
      BY <3>1, <3>2
  <2>. QED
    BY <1>9, <2>1 DEF ChatQuestion, SlotAfterLook, chatHist, Moves, PendingMoves, TitleMoves
<1>10. ASSUME NEW t \in Turns, ChatAgentAnswers(t) PROVE Moves
  <2>1. PendingMoves
    BY <1>10, AnswerMoves, PersistMoves DEF ChatAgentAnswers, chatHist, After, Agents
  <2>. QED
    BY <1>10, <2>1, AnswerMoves DEF ChatAgentAnswers, chatHist, Moves, TitleMoves, DeclinesCleanly
<1>11. ASSUME NEW t \in Turns, ChatAgentFails(t) PROVE Moves
  <2>1. OnlyForward /\ DeclinesCleanly /\ chatTurn'[t].at = "advisor"
    BY <1>11 DEF ChatAgentFails, Move, ChatTypeOK, OnlyForward, DeclinesCleanly
  <2>2. CASE UNCHANGED <<chatPending, chatStale>>
    BY <1>11, <2>1, <2>2 DEF ChatAgentFails, chatHist, Moves, PendingMoves, TitleMoves
  <2>3. CASE PersistPending(OwnProposal(t, "agent"))
    <3>1. PendingMoves
      BY <1>11, <2>1, <2>3, PersistMoves DEF ChatAgentFails, chatHist, After, Agents
    <3>. QED
      BY <1>11, <2>1, <3>1 DEF ChatAgentFails, chatHist, Moves, TitleMoves
  <2>. QED
    BY <1>11, <2>2, <2>3 DEF ChatAgentFails
<1>12. ASSUME NEW t \in Turns, NEW out, ChatAdvisorAnswers(t, out) PROVE Moves
  <2>1. Answer(t) /\ chatTurn[t].at = "advisor" /\ UNCHANGED <<chatSlot, chatHist>>
    BY <1>12 DEF ChatAdvisorAnswers
  <2>2. \/ UNCHANGED <<chatPending, chatStale>>
        \/ PersistPending(OwnProposal(t, "advisor"))
        \/ PersistPending(NoProposal)
    BY <1>12 DEF ChatAdvisorAnswers
  <2>3. PendingMoves
    <3>1. CASE PersistPending(OwnProposal(t, "advisor"))
      BY <2>1, <3>1, AnswerMoves, PersistMoves DEF chatHist, After, Agents
    <3>2. CASE ~PersistPending(OwnProposal(t, "advisor"))
      BY <2>1, <2>2, <3>2 DEF chatHist, PersistPending, PendingMoves
    <3>. QED
      BY <3>1, <3>2
  <2>. QED
    BY <2>1, <2>3, AnswerMoves DEF chatHist, Moves, TitleMoves, DeclinesCleanly
<1>13. CASE ChatAge \/ UNCHANGED chatVars
  BY <1>13 DEF ChatAge, chatVars, chatStore, chatHist, Moves, OnlyForward, DeclinesCleanly,
               PendingMoves, TitleMoves
<1>. QED
  BY <1>1, <1>2, <1>3, <1>4, <1>5, <1>6, <1>7, <1>8, <1>9, <1>10, <1>11, <1>12, <1>13
     DEF ChatNext, ChatStep

(* No proposal is declined before the first turn, and the pending one is of no
   turn. *)
LEMMA InitPInv == ChatInit => PInv
<1>. SUFFICES ASSUME ChatInit PROVE PInv
  OBVIOUS
<1>1. \A t \in Turns, agent \in Agents : chatPending # <<t, agent>>
  BY ChatAssumption DEF ChatInit, Agents
<1>. QED
  BY <1>1, InitChatType DEF ChatInit, PInv, MadeByThen, DeclinedStaysDeclined,
                        DeclinedTurnsLeaveNothing, Agents

(* A turn that proposes has not proposed this before. *)
LEMMA NextPInv == ASSUME PInv, [ChatNext]_chatVars PROVE PInv'
<1>1. ChatTypeOK /\ ChatTypeOK' /\ Moves
  BY NextChatType, NextMoves DEF PInv
<1>2. (NoProposal \notin chatDeclined)'
  BY <1>1 DEF PInv, Moves, PendingMoves
<1>3. MadeByThen'
  <2>. SUFFICES ASSUME NEW t \in Turns, NEW agent \in Agents,
                       <<t, agent>> \in chatDeclined' \cup {chatPending'}
                PROVE  chatTurn'[t].at \in After(agent)
    BY DEF MadeByThen
  <2>1. CASE <<t, agent>> \in chatDeclined \cup {chatPending}
    <3>1. chatTurn[t].at \in After(agent)
      BY <2>1 DEF PInv, MadeByThen
    <3>. QED
      BY <1>1, <3>1 DEF Moves, OnlyForward, After
  <2>2. CASE <<t, agent>> \notin chatDeclined \cup {chatPending}
    <3>1. <<t, agent>> # NoProposal
      BY ChatAssumption DEF Agents
    <3>2. PICK u \in Turns, other \in Agents : Proposes(u, other)
      BY <1>1, <2>2, <3>1 DEF Moves, PendingMoves
    <3>3. <<t, agent>> = <<u, other>>
      BY <1>1, <2>2, <3>1, <3>2 DEF Moves, PendingMoves, Proposes
    <3>4. t = u /\ agent = other
      BY <3>3
    <3>. QED
      BY <3>2, <3>4 DEF Proposes
  <2>. QED
    BY <2>1, <2>2
<1>4. DeclinedStaysDeclined'
  <2>1. CASE \E t \in Turns, agent \in Agents : Proposes(t, agent) /\ chatDeclined' = chatDeclined
    <3>1. PICK t \in Turns, agent \in Agents : Proposes(t, agent) /\ chatDeclined' = chatDeclined
      BY <2>1
    <3>2. chatTurn[t].at \notin After(agent)
      BY <3>1 DEF Proposes, After, Agents
    <3>. QED
      BY <3>1, <3>2 DEF PInv, MadeByThen, Proposes, DeclinedStaysDeclined
  <2>2. CASE ~\E t \in Turns, agent \in Agents : Proposes(t, agent) /\ chatDeclined' = chatDeclined
    BY <1>1, <1>2, <2>2 DEF PInv, Moves, PendingMoves, DeclinedStaysDeclined
  <2>. QED
    BY <2>1, <2>2
<1>5. DeclinedTurnsLeaveNothing'
  <2>. SUFFICES ASSUME NEW t \in Turns, NEW agent \in Agents,
                       chatTurn'[t].declined, chatPending' = <<t, agent>>
                PROVE  FALSE
    BY DEF DeclinedTurnsLeaveNothing, Agents
  <2>1. chatPending' # NoProposal
    BY ChatAssumption DEF Agents
  <2>2. chatTurn[t].declined
    BY <1>1, <2>1 DEF Moves, DeclinesCleanly
  <2>3. chatPending # <<t, agent>>
    BY <2>2 DEF PInv, DeclinedTurnsLeaveNothing, Agents
  <2>4. PICK u \in Turns, other \in Agents : Proposes(u, other)
    BY <1>1, <2>1, <2>3 DEF Moves, PendingMoves
  <2>5. u = t
    BY <2>4 DEF Proposes
  <2>. QED
    BY <2>2, <2>4, <2>5 DEF Proposes
<1>. QED
  BY <1>1, <1>2, <1>3, <1>4, <1>5 DEF PInv

(* A proposal that a "no" has cleared is never pending again. *)
THEOREM NoStaysNo == ChatSpec => []DeclinedStaysDeclined
<1>1. PInv => DeclinedStaysDeclined
  BY DEF PInv
<1>. QED
  BY <1>1, InitPInv, NextPInv, PTL DEF ChatSpec

(* A turn that said "no" leaves no proposal of its own pending. *)
THEOREM NoMeansNone == ChatSpec => []DeclinedTurnsLeaveNothing
<1>1. PInv => DeclinedTurnsLeaveNothing
  BY DEF PInv
<1>. QED
  BY <1>1, InitPInv, NextPInv, PTL DEF ChatSpec

(* At first at most the slot of an earlier process is open, asked by none. *)
LEMMA InitTInv == ChatInit => TInv
<1>. SUFFICES ASSUME ChatInit PROVE TInv
  OBVIOUS
<1>1. AskedByThen
  BY ChatAssumption DEF ChatInit, AskedByThen
<1>2. IsFiniteSet(chatTitled) /\ Cardinality(chatTitled) = 0
  BY FS_EmptySet DEF ChatInit
<1>3. CASE chatSlot = "open"
  <2>1. IsFiniteSet(chatAsked) /\ Cardinality(chatAsked) = 1
    BY <1>3, FS_Singleton DEF ChatInit
  <2>. QED
    BY <1>1, <1>2, <1>3, <2>1, InitChatType DEF TInv, ChatInit, TookByThen, OneTaskPerQuestion
<1>4. CASE chatSlot # "open"
  <2>1. IsFiniteSet(chatAsked) /\ Cardinality(chatAsked) = 0
    BY <1>4, FS_EmptySet DEF ChatInit
  <2>. QED
    BY <1>1, <1>2, <1>4, <2>1, InitChatType DEF TInv, ChatInit, TookByThen, OneTaskPerQuestion
<1>. QED
  BY <1>3, <1>4

(* A title closes the slot; only a question opens it, or leaves it open. *)
LEMMA NextTInv == ASSUME TInv, [ChatNext]_chatVars PROVE TInv'
<1>1. ChatTypeOK /\ ChatTypeOK' /\ OnlyForward /\ TitleMoves
  BY NextChatType, NextMoves DEF TInv, Moves
<1>2. Cardinality(chatTitled) \in Nat /\ Cardinality(chatAsked) \in Nat
  BY FS_CardinalityType DEF TInv
<1>3. ASSUME NEW t \in Turns, Titles(t) PROVE TInv'
  <2>1. t \notin chatTitled
    BY <1>3 DEF TInv, TookByThen, Titles
  <2>2. IsFiniteSet(chatTitled') /\ Cardinality(chatTitled') = Cardinality(chatTitled) + 1
    BY <1>3, <2>1, FS_AddElement DEF TInv, Titles
  <2>3. TookByThen' /\ AskedByThen'
    BY <1>1, <1>3 DEF TInv, TookByThen, AskedByThen, Titles, OnlyForward, ChatTypeOK
  <2>. QED
    BY <1>1, <1>2, <1>3, <2>2, <2>3 DEF TInv, Titles, OneTaskPerQuestion
<1>4. ASSUME NEW t \in Turns, AsksTitle(t) PROVE TInv'
  <2>1. t \notin chatAsked
    BY <1>4 DEF TInv, AskedByThen, AsksTitle
  <2>2. IsFiniteSet(chatAsked') /\ Cardinality(chatAsked') = Cardinality(chatAsked) + 1
    BY <1>4, <2>1, FS_AddElement DEF TInv, AsksTitle
  <2>3. TookByThen' /\ AskedByThen'
    BY <1>1, <1>4 DEF TInv, TookByThen, AskedByThen, AsksTitle, OnlyForward, ChatTypeOK
  <2>. QED
    BY <1>1, <1>2, <1>4, <2>2, <2>3 DEF TInv, AsksTitle, OneTaskPerQuestion
<1>5. CASE /\ chatTitled' = chatTitled /\ chatAsked' = chatAsked
           /\ chatSlot' = "open" => chatSlot = "open"
  <2>1. TookByThen' /\ AskedByThen'
    BY <1>1, <1>5 DEF TInv, TookByThen, AskedByThen, OnlyForward, ChatTypeOK
  <2>. QED
    BY <1>1, <1>2, <1>5, <2>1 DEF TInv, OneTaskPerQuestion
<1>. QED
  BY <1>1, <1>3, <1>4, <1>5 DEF TitleMoves

(* A question for a title makes at most one message a task. *)
THEOREM QuestionIsWorthOneTask == ChatSpec => []OneTaskPerQuestion
<1>1. TInv => OneTaskPerQuestion
  BY DEF TInv
<1>. QED
  BY <1>1, InitTInv, NextTInv, PTL DEF ChatSpec

----------------------------------------------------------------------------
(* KnowledgeReads, for any requests, refreshes, sessions, limits of age and
   clock bound.

   A build reads after it began (BuildsReadLater), so what it returns is never
   older than its date.  While a refresh is under way that began alone, the
   caches and the other builds date from after its beginning
   (RefreshIsFirst): when it takes effect, nothing older is left. *)

BuildsReadLater ==
  \A r \in Readers :
    /\ knBuild[r].at # "none" => knBuild[r].began <= knNow
    /\ knBuild[r].at = "read" => /\ knBuild[r].began <= knBuild[r].content
                                 /\ knBuild[r].content <= knNow
                                 /\ knFloor <= knBuild[r].content

SnapshotIsRead ==
  knSnap # Nothing => knSnap.whole /\ knSnap.began <= knSnap.content

RefreshIsFirst ==
  \A r \in Readers :
    knReader[r].does = "refresh" /\ knBuild[r].at # "none" /\ knBuild[r].alone
    => /\ \A s \in Sessions : knCache[s] # Nothing => knBuild[r].began <= knCache[s].content
       /\ \A o \in Readers : knBuild[o].at # "none" => knBuild[r].began <= knBuild[o].began

KnInv == /\ KnTypeOK
        /\ knFloor <= knNow
        /\ BuildsReadLater
        /\ SnapshotIsRead
        /\ RefreshIsFirst
        /\ RefreshIsNotUndone

Build == [at : {"none", "begun", "read"}, began : Times, content : Times, alone : BOOLEAN]
Doing == [does : {"nothing", "bundle", "live", "refresh"}, for : Sessions \cup {Nothing}]

(* Neither a snapshot nor an entry of the cache is mistaken for none. *)
LEMMA NothingIsNothing == Nothing \notin Snapshot /\ Nothing \notin Cached
BY KnowledgeAssumption DEF Snapshot, Cached, Times

(* The types of what a reader has in hand when its build begins and ends. *)
LEMMA BeginsType ==
  ASSUME KnTypeOK, NEW r \in Readers, NEW does \in {"bundle", "live", "refresh"},
         NEW for \in Sessions \cup {Nothing}, Begins(r, does, for)
  PROVE  knReader' \in [Readers -> Doing] /\ knBuild' \in [Readers -> Build]
<1>1. (\A o \in Readers : knBuild[o].at = "none") \in BOOLEAN /\ knNow \in Times /\ 0 \in Times
  BY KnowledgeAssumption DEF KnTypeOK, Times
<1>. QED
  BY <1>1 DEF KnTypeOK, Begins, Build, Doing

(* The same at its end. *)
LEMMA EndsType ==
  ASSUME KnTypeOK, NEW r \in Readers, Ends(r)
  PROVE  knReader' \in [Readers -> Doing] /\ knBuild' \in [Readers -> Build]
BY KnowledgeAssumption DEF KnTypeOK, Ends, Build, Doing, Idling, NoBuild, Times

(* What a build returns is a snapshot. *)
LEMMA BuiltType ==
  ASSUME KnTypeOK, NEW r \in Readers, NEW whole \in BOOLEAN
  PROVE  Built(r, whole) \in Snapshot
BY DEF KnTypeOK, Built, Snapshot

(* A build that begins keeps what is known of builds and refreshes, whichever
   entries of the cache are dropped meanwhile. *)
LEMMA BeginsKeeps ==
  ASSUME KnInv, NEW r \in Readers, NEW does \in {"bundle", "live"},
         NEW for \in Sessions \cup {Nothing}, Begins(r, does, for),
         knCache' \in [Sessions -> Cached \cup {Nothing}],
         \A s \in Sessions : knCache'[s] \in {knCache[s], Nothing},
         UNCHANGED <<knNow, knFloor>>
  PROVE  BuildsReadLater' /\ RefreshIsFirst'
<1>1. \A o \in Readers : o # r => knBuild'[o] = knBuild[o] /\ knReader'[o] = knReader[o]
  BY DEF KnInv, KnTypeOK, Begins
<1>2. /\ knBuild'[r].at = "begun" /\ knBuild'[r].began = knNow
      /\ knReader'[r].does = does
  BY DEF KnInv, KnTypeOK, Begins
<1>3. knNow \in Nat /\ \A o \in Readers : knBuild[o].began \in Nat
  BY DEF KnInv, KnTypeOK, Times
<1>4. BuildsReadLater'
  BY <1>1, <1>2, <1>3 DEF KnInv, BuildsReadLater
<1>5. RefreshIsFirst'
  BY <1>1, <1>2, <1>3 DEF KnInv, RefreshIsFirst, BuildsReadLater
<1>. QED
  BY <1>4, <1>5

(* So does one that ends, if what it leaves in the cache is not older. *)
LEMMA EndsKeeps ==
  ASSUME KnInv, NEW r \in Readers, Ends(r),
         \A s \in Sessions :
            \/ knCache'[s] \in {knCache[s], Nothing}
            \/ knBuild[r].at = "read" /\ knCache'[s].content = knBuild[r].content,
         UNCHANGED <<knNow, knFloor>>
  PROVE  BuildsReadLater' /\ RefreshIsFirst'
<1>1. \A o \in Readers : o # r => knBuild'[o] = knBuild[o] /\ knReader'[o] = knReader[o]
  BY DEF KnInv, KnTypeOK, Ends
<1>2. knBuild'[r].at = "none"
  BY DEF KnInv, KnTypeOK, Ends, NoBuild
<1>3. \A o \in Readers : knBuild[o].began \in Nat /\ knBuild[o].content \in Nat
  BY DEF KnInv, KnTypeOK, Times
<1>4. BuildsReadLater'
  BY <1>1, <1>2 DEF KnInv, BuildsReadLater
<1>5. RefreshIsFirst'
  <2>. SUFFICES ASSUME NEW o \in Readers,
                       knReader'[o].does = "refresh" /\ knBuild'[o].at # "none" /\ knBuild'[o].alone
                PROVE  /\ \A s \in Sessions : knCache'[s] # Nothing
                                              => knBuild'[o].began <= knCache'[s].content
                       /\ \A p \in Readers : knBuild'[p].at # "none"
                                              => knBuild'[o].began <= knBuild'[p].began
    BY DEF RefreshIsFirst
  <2>1. o # r /\ knBuild'[o] = knBuild[o] /\ knReader'[o] = knReader[o]
    BY <1>1, <1>2
  <2>2. \A p \in Readers : knBuild[p].at # "none" => knBuild[o].began <= knBuild[p].began
    BY <2>1 DEF KnInv, RefreshIsFirst
  <2>3. ASSUME NEW s \in Sessions, knCache'[s] # Nothing
        PROVE  knBuild[o].began <= knCache'[s].content
    <3>1. CASE knCache'[s] \in {knCache[s], Nothing}
      BY <2>1, <2>3, <3>1 DEF KnInv, RefreshIsFirst
    <3>2. CASE knBuild[r].at = "read" /\ knCache'[s].content = knBuild[r].content
      BY <1>3, <2>2, <3>2 DEF KnInv, BuildsReadLater
    <3>. QED
      BY <3>1, <3>2
  <2>. QED
    BY <1>1, <1>2, <2>1, <2>2, <2>3
<1>. QED
  BY <1>4, <1>5

(* The targeted read of a turn: it ends, or a live read begins. *)
LEMMA TargetedReadKeeps ==
  ASSUME KnInv, NEW t \in KnTurns, TargetedRead(t), UNCHANGED <<knNow, knFloor>>
  PROVE  /\ knReader' \in [Readers -> Doing] /\ knBuild' \in [Readers -> Build]
         /\ knCache' \in [Sessions -> Cached \cup {Nothing}]
         /\ \A s \in Sessions : knCache'[s] \in {knCache[s], Nothing}
         /\ BuildsReadLater' /\ RefreshIsFirst'
<1>1. t \in Readers
  BY DEF Readers
<1>2. /\ knCache' \in [Sessions -> Cached \cup {Nothing}]
      /\ \A s \in Sessions : knCache'[s] \in {knCache[s], Nothing}
  BY DEF KnInv, KnTypeOK, TargetedRead, Looked
<1>3. CASE Ends(t)
  BY <1>1, <1>2, <1>3, EndsType, EndsKeeps DEF KnInv
<1>4. CASE ~Ends(t)
  <2>1. PICK s \in Sessions : Begins(t, "live", s)
    BY <1>4 DEF TargetedRead
  <2>. QED
    BY <1>1, <1>2, <2>1, BeginsType, BeginsKeeps DEF KnInv
<1>. QED
  BY <1>2, <1>3, <1>4

(* What a boot leaves is a snapshot, or none. *)
LEMMA BootedType == ASSUME knNow \in Times PROVE Booted \subseteq Snapshot \cup {Nothing}
<1>1. [content |-> knNow, began |-> knNow, whole |-> TRUE] \in Snapshot
  BY DEF Snapshot
<1>. QED
  BY <1>1 DEF Booted

(* The process has just started, and may have refreshed. *)
LEMMA InitKnInv == KnInit => KnInv
<1>. SUFFICES ASSUME KnInit PROVE KnInv
  OBVIOUS
<1>1. KnTypeOK
  <2>1. 0 \in Times
    BY KnowledgeAssumption DEF Times
  <2>2. knSnap \in Snapshot \cup {Nothing}
    BY <2>1, BootedType DEF KnInit
  <2>3. knReader \in [Readers -> Doing] /\ knBuild \in [Readers -> Build]
    BY <2>1 DEF KnInit, Idling, NoBuild, Doing, Build
  <2>. QED
    BY <2>1, <2>2, <2>3 DEF KnInit, KnTypeOK, Doing, Build
<1>2. BuildsReadLater /\ RefreshIsFirst
  BY DEF KnInit, BuildsReadLater, RefreshIsFirst, NoBuild, Idling
<1>3. SnapshotIsRead /\ RefreshIsNotUndone /\ knFloor <= knNow
  BY DEF KnInit, SnapshotIsRead, RefreshIsNotUndone, Booted
<1>. QED
  BY <1>1, <1>2, <1>3 DEF KnInv

(* A snapshot that is synced is whole, and not older than the last refresh. *)
LEMMA SyncKeeps ==
  ASSUME KnInv, NEW r \in Readers, NEW whole \in BOOLEAN, knBuild[r].at = "read", Syncs(r, whole)
  PROVE  /\ knSnap' \in Snapshot \cup {Nothing}
         /\ SnapshotIsRead'
         /\ knSnap' # Nothing => knFloor <= knSnap'.content
<1>1. CASE whole
  BY <1>1, BuiltType DEF KnInv, Syncs, Built, SnapshotIsRead, BuildsReadLater
<1>2. CASE ~whole
  BY <1>2 DEF KnInv, KnTypeOK, Syncs, SnapshotIsRead, RefreshIsNotUndone
<1>. QED
  BY <1>1, <1>2

(* Each step keeps the invariant. *)
LEMMA NextKnInv == ASSUME KnInv, [KnNext]_knVars PROVE KnInv'
<1>. USE DEF Readers
<1>0. knNow \in Nat /\ knFloor \in Nat
      /\ \A r \in Readers : knBuild[r].began \in Nat /\ knBuild[r].content \in Nat
  BY DEF KnInv, KnTypeOK, Times
<1>1. ASSUME NEW t \in KnTurns, KnChat(t) PROVE KnInv'
  <2>1. UNCHANGED <<knNow, knSnap, knFloor>>
    BY <1>1 DEF KnChat
  <2>2. /\ knReader' \in [Readers -> Doing] /\ knBuild' \in [Readers -> Build]
        /\ knCache' \in [Sessions -> Cached \cup {Nothing}]
        /\ \A s \in Sessions : knCache'[s] \in {knCache[s], Nothing}
        /\ BuildsReadLater' /\ RefreshIsFirst'
    <3>1. CASE NeedsRefresh
      <4>1. Begins(t, "bundle", Nothing) /\ UNCHANGED knCache
        BY <1>1, <3>1 DEF KnChat
      <4>2. knCache' \in [Sessions -> Cached \cup {Nothing}]
        BY <4>1 DEF KnInv, KnTypeOK
      <4>. QED
        BY <2>1, <4>1, <4>2, BeginsType, BeginsKeeps DEF KnInv
    <3>2. CASE ~NeedsRefresh
      BY <1>1, <2>1, <3>2, TargetedReadKeeps DEF KnChat
    <3>. QED
      BY <3>1, <3>2
  <2>. QED
    BY <2>1, <2>2 DEF KnInv, KnTypeOK, Doing, Build, SnapshotIsRead, RefreshIsNotUndone
<1>2. ASSUME NEW t \in KnTurns, NEW whole \in BOOLEAN, KnBundled(t, whole) PROVE KnInv'
  <2>1. UNCHANGED <<knNow, knFloor>> /\ knBuild[t].at = "read" /\ Syncs(t, whole) /\ TargetedRead(t)
    BY <1>2 DEF KnBundled
  <2>2. /\ knReader' \in [Readers -> Doing] /\ knBuild' \in [Readers -> Build]
        /\ knCache' \in [Sessions -> Cached \cup {Nothing}]
        /\ \A s \in Sessions : knCache'[s] \in {knCache[s], Nothing}
        /\ BuildsReadLater' /\ RefreshIsFirst'
    BY <2>1, TargetedReadKeeps
  <2>3. /\ knSnap' \in Snapshot \cup {Nothing} /\ SnapshotIsRead'
        /\ knSnap' # Nothing => knFloor <= knSnap'.content
    BY <2>1, SyncKeeps
  <2>. QED
    BY <2>1, <2>2, <2>3 DEF KnInv, KnTypeOK, Doing, Build, RefreshIsNotUndone
<1>3. ASSUME NEW t \in KnTurns, NEW whole \in BOOLEAN, KnLive(t, whole) PROVE KnInv'
  <2>1. UNCHANGED <<knNow, knSnap, knFloor>> /\ knBuild[t].at = "read" /\ Ends(t)
    BY <1>3 DEF KnLive
  <2>. DEFINE entry == [content |-> knBuild[t].content, began |-> knBuild[t].began,
                        whole |-> whole, until |-> knNow + CacheTTL]
  <2>2. entry \in Cached
    BY KnowledgeAssumption DEF KnInv, KnTypeOK, Cached, Times
  <2>3. knCache' = [knCache EXCEPT ![knReader[t].for] = entry]
    BY <1>3 DEF KnLive
  <2>4. knCache' \in [Sessions -> Cached \cup {Nothing}]
    BY <2>2, <2>3 DEF KnInv, KnTypeOK
  <2>5. \A s \in Sessions : knCache'[s] = knCache[s] \/ knCache'[s] = entry
    BY <2>3 DEF KnInv, KnTypeOK
  <2>6. \A s \in Sessions : knCache'[s] = knCache[s] \/ knCache'[s].content = knBuild[t].content
    BY <2>5
  <2>7. BuildsReadLater' /\ RefreshIsFirst'
    BY <2>1, <2>6, EndsKeeps
  <2>8. \A s \in Sessions : knCache'[s] # Nothing => knFloor <= knCache'[s].content
    BY <2>1, <2>6 DEF KnInv, RefreshIsNotUndone, BuildsReadLater
  <2>9. knReader' \in [Readers -> Doing] /\ knBuild' \in [Readers -> Build]
    BY <2>1, EndsType DEF KnInv
  <2>. QED
    BY <2>1, <2>4, <2>7, <2>8, <2>9 DEF KnInv, KnTypeOK, Doing, Build, SnapshotIsRead, RefreshIsNotUndone
<1>4. ASSUME NEW r \in Refreshers, KnRefresh(r) PROVE KnInv'
  <2>1. /\ UNCHANGED <<knNow, knSnap, knFloor>>
        /\ knCache' = [s \in Sessions |-> Nothing]
        /\ Begins(r, "refresh", Nothing)
    BY <1>4 DEF KnRefresh
  <2>2. knReader' \in [Readers -> Doing] /\ knBuild' \in [Readers -> Build]
    BY <2>1, BeginsType DEF KnInv
  <2>3. \A o \in Readers : o # r => knBuild'[o] = knBuild[o] /\ knReader'[o] = knReader[o]
    BY <2>1 DEF KnInv, KnTypeOK, Begins
  <2>4. /\ knBuild'[r].at = "begun" /\ knBuild'[r].began = knNow
        /\ knBuild'[r].alone => \A o \in Readers : knBuild[o].at = "none"
    BY <2>1 DEF KnInv, KnTypeOK, Begins
  <2>5. BuildsReadLater'
    BY <1>0, <2>1, <2>3, <2>4 DEF KnInv, BuildsReadLater
  <2>6. RefreshIsFirst'
    <3>. SUFFICES ASSUME NEW o \in Readers, knReader'[o].does = "refresh",
                         knBuild'[o].at # "none", knBuild'[o].alone
                  PROVE  \A p \in Readers : knBuild'[p].at # "none"
                                               => knBuild'[o].began <= knBuild'[p].began
      BY <2>1 DEF RefreshIsFirst
    <3>1. CASE o = r
      BY <1>0, <2>3, <2>4, <3>1
    <3>2. CASE o # r
      <4>1. knBuild'[o] = knBuild[o] /\ knReader'[o] = knReader[o]
        BY <2>3, <3>2
      <4>2. \A p \in Readers : knBuild[p].at # "none" => knBuild[o].began <= knBuild[p].began
        BY <4>1 DEF KnInv, RefreshIsFirst
      <4>3. knBuild[o].began <= knNow
        BY <4>1 DEF KnInv, BuildsReadLater
      <4>. QED
        BY <2>3, <2>4, <4>1, <4>2, <4>3
    <3>. QED
      BY <3>1, <3>2
  <2>. QED
    BY <2>1, <2>2, <2>5, <2>6 DEF KnInv, KnTypeOK, Doing, Build, SnapshotIsRead, RefreshIsNotUndone
<1>5. ASSUME NEW r \in Refreshers, NEW whole \in BOOLEAN, KnRefreshed(r, whole) PROVE KnInv'
  <2>1. /\ UNCHANGED <<knNow, knCache>> /\ Ends(r) /\ Syncs(r, whole)
        /\ knBuild[r].at = "read" /\ knReader[r].does = "refresh"
        /\ knFloor' = IF whole /\ knBuild[r].alone THEN knBuild[r].began ELSE knFloor
    BY <1>5 DEF KnRefreshed
  <2>2. knReader' \in [Readers -> Doing] /\ knBuild' \in [Readers -> Build]
    BY <2>1, EndsType DEF KnInv
  <2>3. /\ knSnap' \in Snapshot \cup {Nothing} /\ SnapshotIsRead'
        /\ knSnap' # Nothing => knFloor <= knSnap'.content
    BY <2>1, SyncKeeps
  <2>4. \A o \in Readers : o # r => knBuild'[o] = knBuild[o] /\ knReader'[o] = knReader[o]
    BY <2>1 DEF KnInv, KnTypeOK, Ends
  <2>5. knBuild'[r].at = "none"
    BY <2>1 DEF KnInv, KnTypeOK, Ends, NoBuild
  <2>6. RefreshIsFirst'
    BY <2>1, <2>4, <2>5 DEF KnInv, RefreshIsFirst
  <2>7. CASE whole /\ knBuild[r].alone
    <3>1. knFloor' = knBuild[r].began /\ knSnap' = Built(r, whole)
      BY <2>1, <2>7 DEF Syncs
    <3>2. /\ \A s \in Sessions : knCache[s] # Nothing => knBuild[r].began <= knCache[s].content
          /\ \A o \in Readers : knBuild[o].at # "none" => knBuild[r].began <= knBuild[o].began
      BY <2>1, <2>7 DEF KnInv, RefreshIsFirst
    <3>3. BuildsReadLater'
      BY <1>0, <2>1, <2>4, <2>5, <3>1, <3>2 DEF KnInv, BuildsReadLater
    <3>4. RefreshIsNotUndone' /\ knFloor' <= knNow'
      BY <2>1, <3>1, <3>2 DEF KnInv, RefreshIsNotUndone, BuildsReadLater, Built
    <3>5. knFloor' \in Times
      BY <3>1 DEF KnInv, KnTypeOK
    <3>. QED
      BY <2>1, <2>2, <2>3, <2>6, <3>3, <3>4, <3>5 DEF KnInv, KnTypeOK, Doing, Build
  <2>8. CASE ~(whole /\ knBuild[r].alone)
    <3>1. knFloor' = knFloor
      BY <2>1, <2>8
    <3>2. BuildsReadLater'
      BY <2>1, <2>4, <2>5, <3>1 DEF KnInv, BuildsReadLater
    <3>. QED
      BY <2>1, <2>2, <2>3, <2>6, <3>1, <3>2 DEF KnInv, KnTypeOK, Doing, Build, RefreshIsNotUndone
  <2>. QED
    BY <2>7, <2>8
<1>6. ASSUME NEW r \in Readers, KnRead(r) PROVE KnInv'
  <2>1. /\ UNCHANGED <<knNow, knSnap, knCache, knReader, knFloor>> /\ knBuild[r].at = "begun"
        /\ knBuild' = [knBuild EXCEPT ![r].at = "read", ![r].content = knNow]
    BY <1>6 DEF KnRead
  <2>2. knBuild' \in [Readers -> Build]
    BY <2>1 DEF KnInv, KnTypeOK, Build
  <2>3. \A o \in Readers : o # r => knBuild'[o] = knBuild[o]
    BY <2>1 DEF KnInv, KnTypeOK
  <2>4. /\ knBuild'[r].at = "read" /\ knBuild'[r].content = knNow
        /\ knBuild'[r].began = knBuild[r].began
    BY <2>1 DEF KnInv, KnTypeOK
  <2>5. knBuild[r].began <= knNow /\ knFloor <= knNow
    BY <2>1 DEF KnInv, BuildsReadLater
  <2>6. BuildsReadLater' /\ RefreshIsFirst'
    <3>1. BuildsReadLater'
      <4>. SUFFICES ASSUME NEW o \in Readers
                    PROVE  /\ knBuild'[o].at # "none" => knBuild'[o].began <= knNow
                           /\ knBuild'[o].at = "read" => /\ knBuild'[o].began <= knBuild'[o].content
                                                         /\ knBuild'[o].content <= knNow
                                                         /\ knFloor <= knBuild'[o].content
        BY <2>1 DEF BuildsReadLater
      <4>1. CASE o = r
        BY <1>0, <2>4, <2>5, <4>1
      <4>2. CASE o # r
        BY <2>3, <4>2 DEF KnInv, BuildsReadLater
      <4>. QED
        BY <4>1, <4>2
    <3>2. \A o \in Readers : /\ knBuild'[o].began = knBuild[o].began
                             /\ knBuild'[o].at # "none" => knBuild[o].at # "none"
      BY <2>1, <2>3, <2>4
    <3>3. RefreshIsFirst'
      <4>. SUFFICES ASSUME NEW o \in Readers, knReader'[o].does = "refresh",
                           knBuild'[o].at # "none", knBuild'[o].alone
                    PROVE  /\ \A s \in Sessions : knCache'[s] # Nothing
                                                  => knBuild'[o].began <= knCache'[s].content
                           /\ \A p \in Readers : knBuild'[p].at # "none"
                                                  => knBuild'[o].began <= knBuild'[p].began
        BY DEF RefreshIsFirst
      <4>1. knReader[o].does = "refresh" /\ knBuild[o].at # "none" /\ knBuild[o].alone
        BY <2>1, <3>2 DEF KnInv, KnTypeOK
      <4>2. /\ \A s \in Sessions : knCache[s] # Nothing => knBuild[o].began <= knCache[s].content
            /\ \A p \in Readers : knBuild[p].at # "none" => knBuild[o].began <= knBuild[p].began
        BY <4>1 DEF KnInv, RefreshIsFirst
      <4>. QED
        BY <2>1, <3>2, <4>2
    <3>. QED
      BY <3>1, <3>3
  <2>. QED
    BY <2>1, <2>2, <2>6 DEF KnInv, KnTypeOK, Doing, Build, SnapshotIsRead, RefreshIsNotUndone
<1>7. ASSUME NEW r \in Readers, KnGivesUp(r) PROVE KnInv'
  <2>1. UNCHANGED <<knNow, knSnap, knCache, knFloor>> /\ Ends(r)
    BY <1>7 DEF KnGivesUp
  <2>2. BuildsReadLater' /\ RefreshIsFirst'
    BY <2>1, EndsKeeps
  <2>3. knReader' \in [Readers -> Doing] /\ knBuild' \in [Readers -> Build]
    BY <2>1, EndsType DEF KnInv
  <2>. QED
    BY <2>1, <2>2, <2>3 DEF KnInv, KnTypeOK, Doing, Build, SnapshotIsRead, RefreshIsNotUndone
<1>8. CASE KnRestart
  <2>1. knSnap' \in Booted /\ UNCHANGED <<knNow, knFloor>>
        /\ knCache' = [s \in Sessions |-> Nothing]
        /\ knReader' = [r \in Readers |-> Idling] /\ knBuild' = [r \in Readers |-> NoBuild]
    BY <1>8 DEF KnRestart
  <2>2. 0 \in Times
    BY KnowledgeAssumption DEF Times
  <2>3. knReader' \in [Readers -> Doing] /\ knBuild' \in [Readers -> Build]
    BY <2>1, <2>2 DEF Idling, NoBuild, Doing, Build
  <2>4. knSnap' \in Snapshot \cup {Nothing}
    BY <2>1, BootedType DEF KnInv, KnTypeOK
  <2>5. BuildsReadLater' /\ RefreshIsFirst'
    BY <2>1 DEF BuildsReadLater, RefreshIsFirst, NoBuild, Idling
  <2>6. SnapshotIsRead' /\ RefreshIsNotUndone'
    BY <1>0, <2>1 DEF KnInv, SnapshotIsRead, RefreshIsNotUndone, Booted
  <2>. QED
    BY <2>1, <2>3, <2>4, <2>5, <2>6 DEF KnInv, KnTypeOK, Doing, Build
<1>9. CASE KnTick
  <2>1. UNCHANGED <<knSnap, knCache, knReader, knBuild, knFloor>>
        /\ knNow < KnMaxTime /\ knNow' = knNow + 1
    BY <1>9 DEF KnTick
  <2>2. knNow' \in Times
    BY <1>0, <2>1, KnowledgeAssumption DEF Times
  <2>3. BuildsReadLater' /\ RefreshIsFirst'
    BY <1>0, <2>1 DEF KnInv, BuildsReadLater, RefreshIsFirst
  <2>. QED
    BY <1>0, <2>1, <2>2, <2>3 DEF KnInv, KnTypeOK, SnapshotIsRead, RefreshIsNotUndone
<1>10. CASE UNCHANGED knVars
  BY <1>10 DEF knVars, KnInv, KnTypeOK, BuildsReadLater, SnapshotIsRead, RefreshIsFirst,
               RefreshIsNotUndone
<1>. QED
  BY <1>1, <1>2, <1>3, <1>4, <1>5, <1>6, <1>7, <1>8, <1>9, <1>10 DEF KnNext

(* The state keeps its types. *)
THEOREM KnowledgeTypeCorrect == KnSpec => []KnTypeOK
<1>1. KnInv => KnTypeOK
  BY DEF KnInv
<1>. QED
  BY <1>1, InitKnInv, NextKnInv, PTL DEF KnSpec

(* The date of the snapshot never flatters it, and it was read whole. *)
THEOREM WhatIsFreshIsFresh == KnSpec => []FreshIsFresh
<1>1. KnInv => FreshIsFresh
  <2>. SUFFICES ASSUME KnInv, knSnap # Nothing
                PROVE  knSnap.whole /\ (~SnapExpired => knNow - knSnap.content <= SnapTTL)
    BY DEF FreshIsFresh
  <2>1. knSnap \in Snapshot /\ knNow \in Nat
    BY DEF KnInv, KnTypeOK, Times
  <2>2. knSnap.whole /\ knSnap.began <= knSnap.content
    BY DEF KnInv, SnapshotIsRead
  <2>3. knSnap.began \in Nat /\ knSnap.content \in Nat
    BY <2>1 DEF Snapshot, Times
  <2>. QED
    BY <2>1, <2>2, <2>3, KnowledgeAssumption DEF SnapExpired
<1>. QED
  BY <1>1, InitKnInv, NextKnInv, PTL DEF KnSpec

(* Once a refresh that began alone has taken effect, nothing older is served. *)
THEOREM RefreshStands == KnSpec => []RefreshIsNotUndone
<1>1. KnInv => RefreshIsNotUndone
  BY DEF KnInv
<1>. QED
  BY <1>1, InitKnInv, NextKnInv, PTL DEF KnSpec

----------------------------------------------------------------------------
(* NotionBatch, for any lists of operations of any length.

   What a parameter has become is a page that was there or one that the report
   calls a success: a reference is only entered with a success
   (RefsAreReported), and stays (SuccessesAreNamed).  An operation that still
   relates its page has that page (MineIsThere). *)

Reported(q) == \E j \in DOMAIN nbReport : nbReport[j].ok /\ nbReport[j].page = q

UnderWay == nbAt \notin {"finished", "raised"} => Len(nbReport) < Len(nbBatch)

RefsAreReported ==
  \A k \in DOMAIN nbRefs : nbRefs[k] # Dangling => nbRefs[k] # Unset /\ Reported(nbRefs[k])

SuccessesAreNamed ==
  \A j \in DOMAIN nbReport : nbReport[j].ok /\ nbReport[j].page # Unset =>
    nbReport[j].page \in DOMAIN nbPages /\ nbRefs[nbBatch[j].id] # Dangling

MineIsThere ==
  nbAt = "relating" => /\ Mine \in DOMAIN nbPages
                       /\ Op.intent \in Creations => nbPages[Here].state # "absent"

BInv == /\ BatchTypeOK /\ UnderWay /\ RefsAreReported /\ SuccessesAreNamed /\ MineIsThere
        /\ SuccessIsThere /\ RelatedToSuccesses

(* The pages of the operations before this one that are there and related stay
   so, and none is related to a page that was not reported. *)
PagesGrow ==
  /\ nbPages' \in [DOMAIN nbPages -> Page]
  /\ \A p \in 1 .. Len(nbReport) :
       /\ nbPages[p].state # "absent" => nbPages'[p].state # "absent"
       /\ nbPages[p].goal # Unset => nbPages'[p].goal # Unset
       /\ nbPages[p].project # Unset => nbPages'[p].project # Unset
  /\ \A p \in DOMAIN nbPages :
       \A q \in {nbPages'[p].goal, nbPages'[p].project} \ {Unset, Known} : Reported(q)

(* The operation at hand has done what a success promises whose page is known,
   or not. *)
OpIsThere(page) ==
  /\ Op.intent \in Creations => nbPages'[Here].state # "absent"
  /\ Op.intent = "create_task" /\ (Op.titled \/ Given(Here, Op.goal))
       => nbPages'[Here].goal # Unset
  /\ page # Unset =>
       /\ Op.intent = "create_project" /\ Given(Here, Op.goal) => nbPages'[Here].goal # Unset
       /\ Op.intent = "create_task" /\ Given(Here, Op.project) => nbPages'[Here].project # Unset

(* The shapes. *)
LEMMA BatchIs ==
  ASSUME BInv
  PROVE  /\ nbBatch \in Seq(Operations) /\ Len(nbBatch) \in Nat
         /\ DOMAIN nbPages = 0 .. Len(nbBatch) /\ nbPages \in [DOMAIN nbPages -> Page]
         /\ Len(nbReport) \in Nat /\ DOMAIN nbReport = 1 .. Len(nbReport)
         /\ \A i \in 1 .. Len(nbBatch) : nbBatch[i] \in Operations /\ nbBatch[i].id \in DOMAIN nbRefs
         /\ Known \in DOMAIN nbPages
  BY BatchAssumption DEF BInv, BatchTypeOK, Known

(* The operation at hand. *)
LEMMA OpIs ==
  ASSUME BInv, nbAt \in {"writing", "relating"}
  PROVE  /\ Here \in 1 .. Len(nbBatch) /\ Here \in DOMAIN nbPages
         /\ Op \in Operations /\ Op.id \in DOMAIN nbRefs
  BY BatchIs DEF BInv, UnderWay, Here, Op

(* What a parameter has become. *)
LEMMA ResolvedIs ==
  ASSUME BInv, NEW v \in Parameters
  PROVE  /\ Resolved(v) \in DOMAIN nbPages \cup {Unset, Dangling}
         /\ Resolved(v) \notin {Unset, Dangling, Known} => Reported(Resolved(v))
         /\ Given(Here, v) => Resolved(v) \in DOMAIN nbPages
         /\ v = Unset => ~Given(Here, v)
<1>1. CASE v \in {Known, Unset}
  <2>1. Resolved(v) = v
    BY <1>1 DEF Resolved, Known, Unset
  <2>2. v = Unset => ~Given(Here, v)
    <3>. SUFFICES ASSUME NEW j \in 1 .. Here - 1, nbBatch[j].id = Unset
                  PROVE  FALSE
      BY DEF Given, Known, Unset
    <3>1. j \in 1 .. Len(nbReport) /\ Len(nbReport) <= Len(nbBatch)
      BY BatchIs DEF Here, BInv, BatchTypeOK
    <3>2. nbBatch[j] \in Operations
      BY <3>1, BatchIs
    <3>. QED
      BY <3>2 DEF Operations, Unset
  <2>. QED
    BY <1>1, <2>1, <2>2, BatchIs
<1>2. CASE v > 0
  <2>1. Resolved(v) = IF v \in DOMAIN nbRefs THEN nbRefs[v] ELSE Dangling
    BY <1>2 DEF Resolved, Parameters, Unset
  <2>2. /\ Resolved(v) # Dangling => Reported(Resolved(v)) /\ Resolved(v) # Unset
        /\ Reported(Resolved(v)) /\ Resolved(v) # Unset => Resolved(v) \in DOMAIN nbPages
    BY <2>1 DEF BInv, RefsAreReported, SuccessesAreNamed, Reported
  <2>3. Given(Here, v) => Resolved(v) # Dangling
    <3>. SUFFICES ASSUME NEW j \in 1 .. Here - 1, nbBatch[j].id = v, nbReport[j].ok,
                         nbReport[j].page # Unset
                  PROVE  Resolved(v) # Dangling
      BY <1>2 DEF Given, Known
    <3>1. j \in 1 .. Len(nbReport) /\ Len(nbReport) <= Len(nbBatch)
      BY BatchIs DEF Here, BInv, BatchTypeOK
    <3>2. v \in DOMAIN nbRefs /\ nbRefs[v] # Dangling
      BY <3>1, BatchIs DEF BInv, SuccessesAreNamed
    <3>. QED
      BY <2>1, <3>2
  <2>. QED
    BY <1>2, <2>2, <2>3 DEF Unset
<1>. QED
  BY <1>1, <1>2 DEF Parameters, Known, Unset

(* The goal of a new task is a page, or none. *)
LEMMA TaskGoalIs ==
  ASSUME BInv, NEW o \in Operations
  PROVE  /\ TaskGoal(o) \in DOMAIN nbPages \cup {Unset}
         /\ TaskGoal(o) \notin {Unset, Known} => Reported(TaskGoal(o))
         /\ o.titled \/ Given(Here, o.goal) => TaskGoal(o) # Unset
<1>1. o.goal \in Parameters
  BY DEF Operations
<1>2. \A p \in DOMAIN nbPages : p >= 0
  BY BatchIs
<1>. QED
  BY <1>1, <1>2, ResolvedIs, BatchIs DEF TaskGoal, Unset, Dangling, Known

(* So are the relations of an operation, unless a reference dangles. *)
LEMMA RelationsAre ==
  ASSUME BInv, NEW o \in Operations
  PROVE  /\ \A q \in {Relations(o).goal, Relations(o).project} :
              /\ q \in DOMAIN nbPages \cup {Unset, Dangling}
              /\ q \notin {Unset, Dangling, Known} => Reported(q)
         /\ o.intent = "create_task" => /\ Relations(o).goal = TaskGoal(o)
                                        /\ Relations(o).project = Resolved(o.project)
         /\ o.intent = "create_project" /\ Given(Here, o.goal) =>
              Relations(o).goal \in DOMAIN nbPages
<1>1. o.goal \in Parameters /\ o.project \in Parameters
  BY DEF Operations
<1>2. /\ Unset \notin DOMAIN nbPages /\ Dangling \notin DOMAIN nbPages /\ Unset # Dangling
      /\ Known \in DOMAIN nbPages
  BY BatchIs DEF Unset, Dangling
<1>3. CASE o.intent = "create_goal"
  BY <1>1, <1>2, <1>3, TaskGoalIs DEF Relations
<1>4. CASE o.intent = "create_task"
  BY <1>1, <1>2, <1>4, TaskGoalIs, ResolvedIs DEF Relations
<1>5. CASE o.intent = "create_project"
  BY <1>1, <1>2, <1>5, ResolvedIs DEF Relations
<1>6. CASE o.intent = "update_page"
  BY <1>1, <1>2, <1>6, ResolvedIs DEF Relations
<1>7. CASE o.intent \in {"create_page", "delete_page", "unsupported"}
  BY <1>2, <1>7 DEF Relations
<1>. QED
  BY <1>3, <1>4, <1>5, <1>6, <1>7 DEF Operations, Intents, Creations

(* What one more result leaves of the report. *)
LEMMA ReportGrows ==
  ASSUME BInv, nbAt \in {"writing", "relating"}, UNCHANGED nbBatch,
         NEW ok \in BOOLEAN, NEW page \in Nat \cup {Unset}, Reports(ok, page)
  PROVE  /\ nbReport' \in Seq([ok : BOOLEAN, page : Nat \cup {Unset}])
         /\ DOMAIN nbReport' = 1 .. Here /\ Len(nbReport') = Here
         /\ nbReport'[Here] = [ok |-> ok, page |-> page]
         /\ \A j \in 1 .. Len(nbReport) : nbReport'[j] = nbReport[j]
         /\ \A j \in 1 .. Here : j = Here \/ j \in 1 .. Len(nbReport)
         /\ \A q : Reported(q) => Reported(q)'
         /\ \A i \in 1 .. Here, v \in Parameters : Given(i, v)' => Given(i, v)
<1>1. nbReport \in Seq([ok : BOOLEAN, page : Nat \cup {Unset}]) /\ Len(nbReport) \in Nat
  BY BatchIs DEF BInv, BatchTypeOK
<1>2. nbReport' = Append(nbReport, [ok |-> ok, page |-> page])
  BY DEF Reports
<1>3. /\ nbReport' \in Seq([ok : BOOLEAN, page : Nat \cup {Unset}])
      /\ DOMAIN nbReport' = 1 .. Here /\ Len(nbReport') = Here
      /\ nbReport'[Here] = [ok |-> ok, page |-> page]
      /\ \A j \in 1 .. Len(nbReport) : nbReport'[j] = nbReport[j]
  BY <1>1, <1>2 DEF Here
<1>4. \A j \in 1 .. Here : j = Here \/ j \in 1 .. Len(nbReport)
  BY <1>1 DEF Here
<1>5. \A q : Reported(q) => Reported(q)'
  BY <1>1, <1>3, BatchIs DEF Reported, Here
<1>6. \A i \in 1 .. Here, v \in Parameters : Given(i, v)' => Given(i, v)
  <2>. SUFFICES ASSUME NEW i \in 1 .. Here, NEW v \in Parameters,
                       NEW j \in 1 .. i - 1, nbBatch[j].id = v,
                       nbReport'[j].ok, nbReport'[j].page # Unset
                PROVE  nbReport[j].ok /\ nbReport[j].page # Unset
    BY DEF Given
  <2>. j \in 1 .. Len(nbReport)
    BY <1>1 DEF Here
  <2>. QED
    BY <1>3
<1>. QED
  BY <1>3, <1>4, <1>5, <1>6

(* A result is sound if a success has kept its promise. *)
LEMMA ReportKeeps ==
  ASSUME BInv, nbAt \in {"writing", "relating"}, UNCHANGED nbBatch, PagesGrow,
         NEW ok \in BOOLEAN, NEW page \in Nat \cup {Unset}, Reports(ok, page),
         ok => page \in DOMAIN nbPages \cup {Unset} /\ OpIsThere(page)
  PROVE  BInv'
<1>. DEFINE o == Op
<1>1. /\ Here \in 1 .. Len(nbBatch) /\ Here \in DOMAIN nbPages
      /\ Op \in Operations /\ Op.id \in DOMAIN nbRefs
  BY OpIs
<1>2. page \in DOMAIN nbPages => page # Dangling
  BY BatchIs DEF Dangling
<1>3. /\ DOMAIN nbRefs' = DOMAIN nbRefs
      /\ \A k \in DOMAIN nbRefs : nbRefs'[k] = IF ok /\ page # Unset /\ k = Op.id THEN page ELSE nbRefs[k]
      /\ nbAt' = IF Here = Len(nbBatch) THEN "finished" ELSE "writing"
  BY <1>1 DEF Reports, BInv, BatchTypeOK
<1>0. /\ nbReport' \in Seq([ok : BOOLEAN, page : Nat \cup {Unset}])
      /\ DOMAIN nbReport' = 1 .. Here /\ Len(nbReport') = Here
      /\ nbReport'[Here] = [ok |-> ok, page |-> page]
      /\ \A j \in 1 .. Len(nbReport) : nbReport'[j] = nbReport[j]
      /\ \A j \in 1 .. Here : j = Here \/ j \in 1 .. Len(nbReport)
      /\ \A q : Reported(q) => Reported(q)'
  BY ReportGrows
<1>4. BatchTypeOK'
  <2>1. nbPages' \in [0 .. Len(nbBatch) -> Page]
    BY BatchIs DEF PagesGrow
  <2>2. nbRefs' \in [{nbBatch[i].id : i \in DOMAIN nbBatch} -> Nat \cup {Dangling}]
    <3>1. ok /\ page # Unset => page \in Nat
      BY BatchIs
    <3>. QED
      BY <1>1, <3>1 DEF Reports, BInv, BatchTypeOK
  <2>. QED
    BY <1>0, <1>1, <1>3, <2>1, <2>2, BatchIs DEF BInv, BatchTypeOK, Here
<1>5. UnderWay'
  BY <1>1, <1>3, <1>0, BatchIs DEF UnderWay, Here
<1>6. RefsAreReported'
  <2>. SUFFICES ASSUME NEW k \in DOMAIN nbRefs, nbRefs'[k] # Dangling
                PROVE  /\ nbRefs'[k] # Unset
                       /\ \E j \in 1 .. Here : nbReport'[j].ok /\ nbReport'[j].page = nbRefs'[k]
    BY <1>0, <1>3 DEF RefsAreReported, Reported
  <2>0. Here \in 1 .. Here
    BY <1>1
  <2>1. CASE ok /\ page # Unset /\ k = Op.id
    BY <1>0, <1>3, <2>0, <2>1
  <2>2. CASE ~(ok /\ page # Unset /\ k = Op.id)
    <3>1. nbRefs'[k] = nbRefs[k] /\ nbRefs[k] # Unset /\ Reported(nbRefs[k])
      BY <1>3, <2>2 DEF BInv, RefsAreReported
    <3>. QED
      BY <1>0, <3>1 DEF Reported
  <2>. QED
    BY <2>1, <2>2
<1>7. SuccessesAreNamed'
  <2>. SUFFICES ASSUME NEW j \in 1 .. Here, nbReport'[j].ok, nbReport'[j].page # Unset
                PROVE  /\ nbReport'[j].page \in DOMAIN nbPages'
                       /\ nbRefs'[nbBatch[j].id] # Dangling
    BY <1>0 DEF SuccessesAreNamed
  <2>0. DOMAIN nbPages' = DOMAIN nbPages
    BY DEF PagesGrow
  <2>1. CASE j = Here
    <3>1. ok /\ nbReport'[j].page = page /\ nbBatch[j].id = Op.id
      BY <1>0, <2>1 DEF Op
    <3>. QED
      BY <1>1, <1>2, <1>3, <2>0, <3>1
  <2>2. CASE j \in 1 .. Len(nbReport)
    <3>1. nbReport[j].ok /\ nbReport[j].page # Unset /\ nbBatch[j].id \in DOMAIN nbRefs
      <4>1. j \in 1 .. Len(nbBatch)
        BY <1>1, BatchIs DEF Here
      <4>. QED
        BY <2>2, <4>1, <1>0, BatchIs
    <3>2. nbReport[j].page \in DOMAIN nbPages /\ nbRefs[nbBatch[j].id] # Dangling
      BY <2>2, <3>1, BatchIs DEF BInv, SuccessesAreNamed
    <3>. QED
      BY <1>2, <1>3, <2>0, <2>2, <3>1, <3>2, <1>0
  <2>. QED
    BY <2>1, <2>2, <1>0
<1>8. MineIsThere'
  BY <1>3 DEF MineIsThere
<1>9. SuccessIsThere'
  <2>. SUFFICES ASSUME NEW i \in 1 .. Here, nbReport'[i].ok
                PROVE  LET x == nbBatch[i]  pg == nbPages'[i] IN
                       /\ x.intent \in Creations => pg.state # "absent"
                       /\ x.intent = "create_task" /\ (x.titled \/ Given(i, x.goal)')
                            => pg.goal # Unset
                       /\ nbReport'[i].page # Unset =>
                            /\ x.intent = "create_project" /\ Given(i, x.goal)' => pg.goal # Unset
                            /\ x.intent = "create_task" /\ Given(i, x.project)'
                                 => pg.project # Unset
    BY <1>0 DEF SuccessIsThere, Given
  <2>0. nbBatch[i] \in Operations /\ i \in DOMAIN nbPages
    BY <1>1, BatchIs
  <2>1. /\ Given(i, nbBatch[i].goal)' => Given(i, nbBatch[i].goal)
        /\ Given(i, nbBatch[i].project)' => Given(i, nbBatch[i].project)
    <3>1. nbBatch[i].goal \in Parameters /\ nbBatch[i].project \in Parameters
      BY <2>0 DEF Operations
    <3>2. \A v \in Parameters : Given(i, v)' => Given(i, v)
      BY ReportGrows
    <3>. QED
      BY <3>1, <3>2 DEF Given
  <2>2. CASE i = Here
    <3>1. ok /\ OpIsThere(page) /\ nbBatch[i] = Op /\ nbReport'[i].page = page
      BY <1>0, <2>2 DEF Op
    <3>. QED
      BY <2>1, <2>2, <3>1 DEF OpIsThere
  <2>3. CASE i \in 1 .. Len(nbReport)
    <3>1. nbReport[i].ok /\ nbReport'[i] = nbReport[i]
      BY <2>3, <1>0
    <3>2. LET x == nbBatch[i]  pg == nbPages[i] IN
          /\ x.intent \in Creations => pg.state # "absent"
          /\ x.intent = "create_task" /\ (x.titled \/ Given(i, x.goal)) => pg.goal # Unset
          /\ nbReport[i].page # Unset =>
               /\ x.intent = "create_project" /\ Given(i, x.goal) => pg.goal # Unset
               /\ x.intent = "create_task" /\ Given(i, x.project) => pg.project # Unset
      BY <2>3, <3>1, BatchIs DEF BInv, SuccessIsThere
    <3>. QED
      BY <2>1, <2>3, <3>1, <3>2 DEF PagesGrow
  <2>. QED
    BY <2>2, <2>3, <1>0
<1>10. RelatedToSuccesses'
  <2>. SUFFICES ASSUME NEW p \in DOMAIN nbPages,
                       NEW q \in {nbPages'[p].goal, nbPages'[p].project} \ {Unset, Known}
                PROVE  Reported(q)'
    BY DEF RelatedToSuccesses, Reported, PagesGrow
  <2>1. Reported(q)
    BY DEF PagesGrow
  <2>. QED
    BY <2>1, <1>0
<1>. QED
  BY <1>4, <1>5, <1>6, <1>7, <1>8, <1>9, <1>10 DEF BInv

(* A failure promises nothing. *)
LEMMA FailureKeeps ==
  ASSUME BInv, nbAt \in {"writing", "relating"}, UNCHANGED nbBatch, PagesGrow, Fails
  PROVE  BInv'
BY ReportKeeps DEF Fails

(* Nor does an operation that has not come to its end. *)
LEMMA RelatingKeeps ==
  ASSUME BInv, nbAt \in {"writing", "relating"}, nbAt' = "relating", PagesGrow,
         UNCHANGED <<nbBatch, nbRefs, nbReport>>,
         Mine \in DOMAIN nbPages, Op.intent \in Creations => nbPages'[Here].state # "absent"
  PROVE  BInv'
<1>1. DOMAIN nbPages' = DOMAIN nbPages /\ UNCHANGED <<Here, Op, Mine>>
  BY DEF PagesGrow, Here, Op, Mine, Resolved
<1>2. BatchTypeOK' /\ UnderWay' /\ MineIsThere'
  BY <1>1, BatchIs DEF BInv, BatchTypeOK, UnderWay, MineIsThere, PagesGrow
<1>3. RefsAreReported' /\ SuccessesAreNamed'
  BY <1>1 DEF BInv, RefsAreReported, SuccessesAreNamed, Reported
<1>4. SuccessIsThere'
  <2>. SUFFICES ASSUME NEW i \in DOMAIN nbReport, nbReport[i].ok
                PROVE  LET x == nbBatch[i]  pg == nbPages'[i] IN
                       /\ x.intent \in Creations => pg.state # "absent"
                       /\ x.intent = "create_task" /\ (x.titled \/ Given(i, x.goal))
                            => pg.goal # Unset
                       /\ nbReport[i].page # Unset =>
                            /\ x.intent = "create_project" /\ Given(i, x.goal) => pg.goal # Unset
                            /\ x.intent = "create_task" /\ Given(i, x.project) => pg.project # Unset
    BY DEF SuccessIsThere, Given
  <2>1. i \in 1 .. Len(nbReport)
    BY BatchIs
  <2>. QED
    BY <2>1 DEF BInv, SuccessIsThere, PagesGrow
<1>5. RelatedToSuccesses'
  BY <1>1 DEF RelatedToSuccesses, PagesGrow, Reported
<1>. QED
  BY <1>2, <1>3, <1>4, <1>5 DEF BInv

(* Pages that are left alone. *)
LEMMA SamePages == ASSUME BInv, UNCHANGED nbPages PROVE PagesGrow
BY BatchIs DEF BInv, RelatedToSuccesses, PagesGrow, Reported

(* One page that changes: it is related to reported pages only, and loses
   nothing if it is not the page of the operation at hand. *)
LEMMA OnePage ==
  ASSUME BInv, NEW p \in DOMAIN nbPages, NEW e \in Page,
         nbPages' = [nbPages EXCEPT ![p] = e],
         \A q \in {e.goal, e.project} \ {Unset, Known} : Reported(q),
         p = Here \/ /\ nbPages[p].state # "absent" => e.state # "absent"
                     /\ nbPages[p].goal # Unset => e.goal # Unset
                     /\ nbPages[p].project # Unset => e.project # Unset
  PROVE  PagesGrow
<1>1. /\ \A r \in DOMAIN nbPages : nbPages'[r] = IF r = p THEN e ELSE nbPages[r]
      /\ nbPages' \in [DOMAIN nbPages -> Page]
  BY BatchIs
<1>2. \A r \in DOMAIN nbPages :
        \A q \in {nbPages[r].goal, nbPages[r].project} \ {Unset, Known} : Reported(q)
  BY DEF BInv, RelatedToSuccesses, Reported
<1>3. \A r \in 1 .. Len(nbReport) : r # Here /\ r \in DOMAIN nbPages
  BY BatchIs DEF Here, BInv, BatchTypeOK
<1>. QED
  BY <1>1, <1>2, <1>3 DEF PagesGrow

(* An operation is a success at once only if it has nothing to relate: then it
   was given no relation. *)
LEMMA NothingToRelate ==
  ASSUME BInv, nbAt \in {"writing", "relating"}, ~Asks(Relations(Op)),
         Op.intent \in Creations => nbPages'[Here].state # "absent"
  PROVE  OpIsThere(Mine)
<1>1. Op \in Operations /\ Op.goal \in Parameters /\ Op.project \in Parameters
  BY OpIs DEF Operations
<1>2. Unset \notin DOMAIN nbPages
  BY BatchIs DEF Unset
<1>3. CASE Op.intent = "create_task"
  BY <1>1, <1>2, <1>3, RelationsAre, TaskGoalIs, ResolvedIs DEF Asks, OpIsThere
<1>4. CASE Op.intent = "create_project"
  BY <1>1, <1>2, <1>4, RelationsAre DEF Asks, OpIsThere
<1>. QED
  BY <1>3, <1>4 DEF OpIsThere

(* One call carries an operation on. *)
LEMMA ContinuesKeeps ==
  ASSUME BInv, nbAt = "writing", UNCHANGED nbBatch, PagesGrow,
         Mine \in DOMAIN nbPages, Continues(Mine),
         Op.intent \in Creations => nbPages'[Here].state # "absent"
  PROVE  BInv'
<1>1. CASE Asks(Relations(Op))
  BY <1>1, RelatingKeeps DEF Continues
<1>2. CASE ~Asks(Relations(Op))
  <2>1. Reports(TRUE, Mine) /\ OpIsThere(Mine)
    BY <1>2, NothingToRelate DEF Continues
  <2>2. Mine \in Nat \cup {Unset}
    BY BatchIs
  <2>. QED
    BY <2>1, <2>2, ReportKeeps
<1>. QED
  BY <1>1, <1>2

(* The goals are looked up. *)
LEMMA LookupKeeps == ASSUME BInv, NbLookup PROVE BInv'
<1>1. UNCHANGED <<nbBatch, nbPages, nbRefs, nbReport>> /\ nbAt' \in {"writing", "raised"}
      /\ nbAt = "looking"
  BY DEF NbLookup
<1>2. BatchTypeOK' /\ UnderWay' /\ MineIsThere'
  BY <1>1 DEF BInv, BatchTypeOK, UnderWay, MineIsThere
<1>3. RefsAreReported' /\ SuccessesAreNamed' /\ SuccessIsThere' /\ RelatedToSuccesses'
  BY <1>1 DEF BInv, RefsAreReported, SuccessesAreNamed, SuccessIsThere, RelatedToSuccesses,
              Reported, Given
<1>. QED
  BY <1>2, <1>3 DEF BInv

(* A page is created: a task is related to a page that was reported. *)
LEMMA CreateKeeps == ASSUME BInv, NbCreate PROVE BInv'
<1>. DEFINE goal == IF Op.intent = "create_task" THEN TaskGoal(Op) ELSE Unset
            e    == [state |-> "live", goal |-> goal, project |-> Unset]
<1>1. nbAt = "writing" /\ Op.intent \in Creations /\ UNCHANGED nbBatch
  BY DEF NbCreate
<1>2. CASE UNCHANGED nbPages /\ Fails
  BY <1>1, <1>2, SamePages, FailureKeeps
<1>3. CASE /\ nbPages' = [nbPages EXCEPT ![Here] = e]
           /\ Fails \/ Continues(Here) \/ Reports(TRUE, Unset)
  <2>1. Here \in DOMAIN nbPages /\ Op \in Operations
    BY <1>1, OpIs
  <2>2. goal \in DOMAIN nbPages \cup {Unset} /\ (goal \notin {Unset, Known} => Reported(goal))
    BY <2>1, TaskGoalIs
  <2>3. e \in Page
    BY <2>2, BatchIs DEF Page
  <2>4. \A q \in {e.goal, e.project} \ {Unset, Known} : Reported(q)
    BY <2>2
  <2>5. PagesGrow
    <3>. HIDE DEF e
    <3>. QED
      BY <1>3, <2>1, <2>3, <2>4, OnePage
  <2>6. nbPages'[Here].state # "absent"
    BY <1>3, <2>1, BatchIs
  <2>7. Mine = Here
    BY <1>1 DEF Mine
  <2>8. OpIsThere(Unset)
    <3>1. Op.intent = "create_task" /\ (Op.titled \/ Given(Here, Op.goal)) => goal # Unset
      BY <2>1, TaskGoalIs
    <3>. QED
      BY <1>3, <2>1, <2>6, <3>1, BatchIs DEF OpIsThere
  <2>9. CASE Reports(TRUE, Unset)
    BY <1>1, <2>5, <2>8, <2>9, ReportKeeps
  <2>. QED
    BY <1>1, <1>3, <2>1, <2>5, <2>6, <2>7, <2>9, FailureKeeps, ContinuesKeeps
<1>. QED
  BY <1>2, <1>3 DEF NbCreate

(* A page is changed: an archived one stays where it is. *)
LEMMA ChangeKeeps == ASSUME BInv, NbChange PROVE BInv'
<1>. DEFINE page == Resolved(Op.target)
<1>1. nbAt = "writing" /\ Op.intent \in {"update_page", "delete_page"} /\ UNCHANGED nbBatch
  BY DEF NbChange
<1>2. CASE UNCHANGED nbPages /\ Fails
  BY <1>1, <1>2, SamePages, FailureKeeps
<1>3. CASE /\ page >= 0
           /\ nbPages' = IF Op.intent = "delete_page"
                         THEN [nbPages EXCEPT ![page].state = "archived"] ELSE nbPages
           /\ Fails \/ Continues(page)
  <2>1. page \in DOMAIN nbPages
    <3>1. Op.target \in Parameters
      BY <1>1, OpIs DEF Operations
    <3>. QED
      BY <1>3, <3>1, ResolvedIs DEF Unset, Dangling
  <2>2. PagesGrow
    <3>1. CASE Op.intent = "delete_page"
      <4>. DEFINE e == [nbPages[page] EXCEPT !.state = "archived"]
      <4>1. nbPages[page] \in Page
        BY <2>1, BatchIs
      <4>2. e \in Page /\ e.goal = nbPages[page].goal /\ e.project = nbPages[page].project
            /\ e.state = "archived"
        BY <4>1 DEF Page
      <4>3. \A q \in {e.goal, e.project} \ {Unset, Known} : Reported(q)
        BY <2>1, <4>2 DEF BInv, RelatedToSuccesses, Reported
      <4>4. nbPages' = [nbPages EXCEPT ![page] = e]
        BY <1>3, <2>1, <3>1
      <4>. HIDE DEF e, page
      <4>. QED
        BY <2>1, <4>2, <4>3, <4>4, OnePage
    <3>2. CASE Op.intent # "delete_page"
      BY <1>3, <3>2, SamePages
    <3>. QED
      BY <3>1, <3>2
  <2>3. Mine = page /\ Op.intent \notin Creations
    BY <1>1 DEF Mine, Creations
  <2>. QED
    BY <1>1, <1>3, <2>1, <2>2, <2>3, FailureKeeps, ContinuesKeeps
<1>. QED
  BY <1>2, <1>3 DEF NbChange

(* The relations are set: to reported pages, and none is taken away. *)
LEMMA RelateGrows ==
  ASSUME BInv, nbAt = "relating", Dangling \notin {Relations(Op).goal, Relations(Op).project},
         nbPages' = Related
  PROVE  PagesGrow /\ (Op.intent \in Creations => OpIsThere(Mine))
<1>. DEFINE r == Relations(Op)
            m == nbPages[Mine]
            e == [m EXCEPT !.goal    = IF r.goal = Unset THEN m.goal ELSE r.goal,
                           !.project = IF r.project = Unset THEN m.project ELSE r.project]
<1>1. Mine \in DOMAIN nbPages /\ (Op.intent \in Creations => nbPages[Here].state # "absent")
  BY DEF BInv, MineIsThere
<1>2. Op \in Operations /\ Here \in DOMAIN nbPages
  BY OpIs
<1>3. m \in Page
  BY <1>1, BatchIs
<1>4. \A q \in {r.goal, r.project} :
        q \in DOMAIN nbPages \cup {Unset} /\ (q \notin {Unset, Known} => Reported(q))
  BY <1>2, RelationsAre
<1>5. /\ e \in Page /\ e.state = m.state
      /\ e.goal = IF r.goal = Unset THEN m.goal ELSE r.goal
      /\ e.project = IF r.project = Unset THEN m.project ELSE r.project
  <2>1. \A q \in DOMAIN nbPages : q \in Nat
    BY BatchIs
  <2>. HIDE DEF r
  <2>. QED
    BY <1>3, <1>4, <2>1 DEF Page
<1>6. nbPages' = [nbPages EXCEPT ![Mine] = e]
  BY <1>1 DEF Related
<1>7. \A q \in {m.goal, m.project} \ {Unset, Known} : Reported(q)
  BY <1>1 DEF BInv, RelatedToSuccesses, Reported
<1>8. \A q \in {e.goal, e.project} \ {Unset, Known} : Reported(q)
  BY <1>4, <1>5, <1>7
<1>9. PagesGrow
  <2>. HIDE DEF e, r
  <2>. QED
    BY <1>1, <1>5, <1>6, <1>8, OnePage
<1>10. Op.intent \in Creations => OpIsThere(Mine)
  <2>. SUFFICES ASSUME Op.intent \in Creations PROVE OpIsThere(Mine)
    OBVIOUS
  <2>1. Mine = Here /\ nbPages'[Here] = e
    BY <1>1, <1>6 DEF Mine
  <2>2. Unset \notin DOMAIN nbPages
    BY BatchIs DEF Unset
  <2>3. Op.goal \in Parameters /\ Op.project \in Parameters
    BY <1>2 DEF Operations
  <2>4. CASE Op.intent = "create_task"
    <3>1. r.goal = TaskGoal(Op) /\ r.project = Resolved(Op.project)
      BY <1>2, <2>4, RelationsAre
    <3>2. /\ Op.titled \/ Given(Here, Op.goal) => r.goal # Unset
          /\ Given(Here, Op.project) => r.project # Unset
      BY <1>2, <2>2, <2>3, <3>1, TaskGoalIs, ResolvedIs
    <3>. HIDE DEF r, e
    <3>. QED
      BY <1>1, <1>5, <2>1, <2>4, <3>2 DEF OpIsThere
  <2>5. CASE Op.intent = "create_project"
    <3>1. Given(Here, Op.goal) => r.goal # Unset
      BY <1>2, <2>2, <2>5, RelationsAre
    <3>. HIDE DEF r, e
    <3>. QED
      BY <1>1, <1>5, <2>1, <2>5, <3>1 DEF OpIsThere
  <2>6. CASE Op.intent \notin {"create_task", "create_project"}
    <3>. HIDE DEF e
    <3>. QED
      BY <1>1, <1>5, <2>1, <2>6 DEF OpIsThere
  <2>. QED
    BY <2>4, <2>5, <2>6
<1>. QED
  BY <1>9, <1>10

(* The relations are set, or are refused: a success without them was not given
   any. *)
LEMMA RelateKeeps == ASSUME BInv, NbRelate PROVE BInv'
<1>1. nbAt = "relating" /\ UNCHANGED nbBatch
  BY DEF NbRelate
<1>2. /\ Mine \in DOMAIN nbPages /\ Mine \in Nat \cup {Unset}
      /\ Op.intent \in Creations => nbPages[Here].state # "absent"
  BY <1>1, BatchIs DEF BInv, MineIsThere
<1>3. Op \in Operations /\ Op.goal \in Parameters
  BY <1>1, OpIs DEF Operations
<1>4. CASE /\ Dangling \notin {Relations(Op).goal, Relations(Op).project}
           /\ nbPages' = Related
           /\ Reports(TRUE, Mine) \/ Fails
  <2>1. PagesGrow /\ OpIsThere(Mine)
    BY <1>1, <1>4, RelateGrows DEF OpIsThere, Creations
  <2>. QED
    BY <1>1, <1>2, <1>4, <2>1, ReportKeeps, FailureKeeps
<1>5. CASE UNCHANGED nbPages /\ Fails
  BY <1>1, <1>5, SamePages, FailureKeeps
<1>6. CASE /\ UNCHANGED nbPages /\ Reports(TRUE, Mine)
           /\ \/ Op.intent = "create_goal"
              \/ Op.intent = "create_project" /\ Op.goal = Unset
  <2>1. ~(Op.intent = "create_project" /\ Given(Here, Op.goal))
    BY <1>3, <1>6, ResolvedIs
  <2>2. OpIsThere(Mine)
    BY <1>2, <1>6, <2>1 DEF OpIsThere, Creations
  <2>. QED
    BY <1>1, <1>2, <1>6, <2>2, SamePages, ReportKeeps
<1>. QED
  BY <1>4, <1>5, <1>6 DEF NbRelate

(* The invariant holds at first. *)
LEMMA InitBInv == BatchInit => BInv
<1>. SUFFICES ASSUME BatchInit PROVE BInv
  OBVIOUS
<1>1. nbBatch \in Seq(Operations) /\ nbBatch # <<>> /\ Len(nbBatch) \in Nat /\ Len(nbBatch) > 0
  BY BatchAssumption DEF BatchInit
<1>2. NoPage \in Page /\ [NoPage EXCEPT !.state = "live"] \in Page
      /\ [NoPage EXCEPT !.state = "live"].goal = Unset
      /\ [NoPage EXCEPT !.state = "live"].project = Unset
  BY DEF NoPage, Page
<1>3. BatchTypeOK
  BY <1>1, <1>2 DEF BatchInit, BatchTypeOK
<1>4. UnderWay /\ MineIsThere /\ RefsAreReported
  BY <1>1 DEF BatchInit, UnderWay, MineIsThere, RefsAreReported
<1>5. SuccessesAreNamed /\ SuccessIsThere
  BY DEF BatchInit, SuccessesAreNamed, SuccessIsThere
<1>6. RelatedToSuccesses
  BY <1>2 DEF BatchInit, RelatedToSuccesses, NoPage
<1>. QED
  BY <1>3, <1>4, <1>5, <1>6 DEF BInv

(* And is kept by every step. *)
LEMMA NextBInv == BInv /\ [BatchNext]_nbVars => BInv'
<1>. SUFFICES ASSUME BInv, [BatchNext]_nbVars PROVE BInv'
  OBVIOUS
<1>1. CASE NbUnsupported
  BY <1>1, SamePages, FailureKeeps DEF NbUnsupported
<1>2. CASE UNCHANGED nbVars
  BY <1>2 DEF nbVars, BInv, BatchTypeOK, UnderWay, MineIsThere, RefsAreReported, SuccessesAreNamed,
              SuccessIsThere, RelatedToSuccesses, Reported, Given, Mine, Op, Here, Resolved
<1>. QED
  BY <1>1, <1>2, LookupKeeps, CreateKeeps, ChangeKeeps, RelateKeeps DEF BatchNext

(* The state of a batch stays what it is declared to be. *)
THEOREM BatchTypeCorrect == BatchSpec => []BatchTypeOK
<1>1. BInv => BatchTypeOK
  BY DEF BInv
<1>. QED
  BY <1>1, InitBInv, NextBInv, PTL DEF BatchSpec

(* SuccessIsThere: what a batch reports to have done is there, and related as
   it was asked to be (_execute_batch_request), for every list of operations
   and whichever of its calls fail. *)
THEOREM SuccessesAreThere == BatchSpec => []SuccessIsThere
<1>1. BInv => SuccessIsThere
  BY DEF BInv
<1>. QED
  BY <1>1, InitBInv, NextBInv, PTL DEF BatchSpec

(* RelatedToSuccesses: no page is related to what a failed operation has left
   behind (_resolve_refs). *)
THEOREM NothingHangsOnFailures == BatchSpec => []RelatedToSuccesses
<1>1. BInv => RelatedToSuccesses
  BY DEF BInv
<1>. QED
  BY <1>1, InitBInv, NextBInv, PTL DEF BatchSpec

----------------------------------------------------------------------------
(* Side by side each service is itself: what is proved, or checked, of one of
   them holds whichever runs. *)
LEMMA ServicesAreThemselves == ServicesSpec => Spec /\ ChatSpec /\ KnSpec /\ BatchSpec
<1>1. ServicesInit => Init /\ ChatInit /\ KnInit /\ BatchInit
  BY DEF ServicesInit, ArmedRest, ChatRest, KnowledgeRest, BatchRest
<1>2. [ServicesNext]_servicesVars =>
        [Next]_vars /\ [ChatNext]_chatVars /\ [KnNext]_knVars /\ [BatchNext]_nbVars
  BY DEF ServicesNext, servicesVars
<1>. QED
  BY <1>1, <1>2, PTL DEF ServicesSpec, Spec, ChatSpec, KnSpec, BatchSpec

(* The theorems of the approval store, where its file can be read and written. *)
Approved == INSTANCE ApprovalState_proofs WITH DiskMayFail <- FALSE

(* The approval store implements the lifecycle of its docstring, whichever
   service runs. *)
THEOREM ServicesKeepLifecycle == ServicesSpec => KeepsLifecycle
<1>1. Approved!Spec => Approved!KeepsLifecycle
  BY Approved!ImplementsLifecycle
<1>2. ServicesInit => Approved!Init
  BY DEF ServicesInit, Reliable!Init, Reliable!Empty, Reliable!NoRecord,
         Approved!Init, Approved!Empty, Approved!NoRecord
<1>3. [ServicesNext]_servicesVars => [Approved!Next]_Approved!storeVars
  BY DEF ServicesNext, servicesVars, storeVars, Approved!storeVars, Reliable!Next, Approved!Next,
         Reliable!Touch, Approved!Touch, Reliable!Create, Approved!Create, Reliable!Approve,
         Approved!Approve, Reliable!Reject, Approved!Reject, Reliable!Age, Approved!Age,
         Reliable!Restart, Approved!Restart, Reliable!Commit, Approved!Commit,
         Reliable!Matching, Approved!Matching, Reliable!Current, Approved!Current,
         Reliable!Expired, Approved!Expired, Reliable!Written, Approved!Written,
         Reliable!Empty, Approved!Empty, Reliable!NoRecord, Approved!NoRecord
<1>4. Approved!Lifecycle!Init => Reliable!Lifecycle!Init
  BY DEF Approved!Lifecycle!Init, Reliable!Lifecycle!Init, Approved!Lifecycle!NoRecord,
         Reliable!Lifecycle!NoRecord
<1>5. [Approved!Lifecycle!Next]_approvals => [Reliable!Lifecycle!Next]_approvals
  BY DEF Approved!Lifecycle!Next, Reliable!Lifecycle!Next, Approved!Lifecycle!Move,
         Reliable!Lifecycle!Move, Approved!Lifecycle!Record, Reliable!Lifecycle!Record,
         Approved!Lifecycle!NoRecord, Reliable!Lifecycle!NoRecord,
         Approved!Lifecycle!Decisions, Reliable!Lifecycle!Decisions
<1>6. ServicesSpec => Approved!Spec
  BY <1>2, <1>3, PTL DEF ServicesSpec, Approved!Spec
<1>7. Approved!KeepsLifecycle => KeepsLifecycle
  BY <1>4, <1>5, PTL DEF KeepsLifecycle, Reliable!KeepsLifecycle, Reliable!Lifecycle!Spec,
                         Approved!KeepsLifecycle, Approved!Lifecycle!Spec
<1>. QED
  BY <1>1, <1>6, <1>7

(* ServicesTypeOK: each service keeps to its types, whichever runs. *)
THEOREM ServicesTypeCorrect == ServicesSpec => []ServicesTypeOK
<1>1. TypeOK /\ ChatTypeOK /\ KnTypeOK /\ BatchTypeOK => ServicesTypeOK
  BY DEF ServicesTypeOK
<1>. QED
  BY <1>1, ServicesAreThemselves, ArmedTypeCorrect, ChatTypeCorrect, KnowledgeTypeCorrect,
     BatchTypeCorrect, PTL
=============================================================================
