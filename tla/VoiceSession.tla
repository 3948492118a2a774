---------------------------- MODULE VoiceSession ----------------------------
(* One connection of the realtime voice socket (routers/voice_router.py,
   voice_realtime_ws).  A main loop receives events, a task runs each turn;
   both send.  A send takes its sequence number at once, then waits for the
   lock, which is given in order, and keeps it until the transport has room:
   the head of the queue of sends has been written, the others wait. *)
EXTENDS Integers, Sequences, SequencesExt

CONSTANTS MaxInputs,  \* events the client sends
          MaxDeltas   \* parts of the longest answer

VARIABLES
  vsOpen,       \* whether the client is connected
  vsInputs,     \* events received, which bounds the counters
  vsMain,       \* what the main loop does
  vsTask,       \* what each turn's task does; turns are numbered
  vsLeft,       \* parts of its answer each turn has yet to send
  vsStray,      \* turns whose cancellation came together with an empty answer
  vsActive,     \* active_turn_task and its ids: the turn, or none (0)
  vsCancelled,  \* active_cancelled
  vsSeq,        \* the next sequence number
  vsQueue,      \* the sends under way
  vsWire        \* history: what the client has been sent

vsTurns == <<vsTask, vsLeft, vsStray>>
vsVars  == <<vsOpen, vsInputs, vsMain, vsTurns, vsActive, vsCancelled, vsSeq, vsQueue, vsWire>>

Spoken == 1 .. MaxInputs   \* every input may start a turn
Main   == 0

ASSUME VoiceAssumption == MaxInputs \in Nat /\ MaxDeltas \in Nat

TaskStates == {"none", "opening", "asking", "talking", "finishing", "closing",
               "failing", "clearing", "undoing", "ended"}
Events     == {"started", "delta", "final", "done", "error"}

VoiceTypeOK ==
  /\ vsOpen \in BOOLEAN /\ vsCancelled \in BOOLEAN
  /\ vsInputs \in 0 .. MaxInputs
  /\ vsMain \in {"receiving", "refusing", "cancelling", "ending", "closed"}
  /\ vsTask \in [Spoken -> TaskStates]
  /\ vsLeft \in [Spoken -> 0 .. MaxDeltas]
  /\ vsStray \subseteq Spoken
  /\ vsActive \in Spoken \cup {0}
  /\ vsSeq \in Nat
  /\ vsQueue \in Seq([who : Spoken \cup {Main}, what : Events, turn : Spoken \cup {0}, seq : Nat])
  /\ vsWire \in [last : Nat \cup {-1}, ordered : BOOLEAN, done : SUBSET Spoken, late : BOOLEAN]

(* The session has been started. *)
VoiceInit ==
  /\ vsOpen = TRUE /\ vsCancelled = FALSE
  /\ vsInputs = 0
  /\ vsMain = "receiving"
  /\ vsTask = [t \in Spoken |-> "none"]
  /\ vsLeft = [t \in Spoken |-> 0]
  /\ vsStray = {}
  /\ vsActive = 0
  /\ vsSeq = 1
  /\ vsQueue = <<>>
  /\ vsWire = [last |-> 0, ordered |-> TRUE, done |-> {}, late |-> FALSE]
----------------------------------------------------------------------------
(* The queue of sends becomes q: a new head is written. *)
Sends(q) ==
  /\ vsQueue' = q
  /\ vsWire' =
       IF q = <<>> \/ (vsQueue # <<>> /\ Head(q) = Head(vsQueue)) THEN vsWire
       ELSE LET e == Head(q) IN
            [last    |-> e.seq,
             ordered |-> vsWire.ordered /\ e.seq > vsWire.last,
             done    |-> IF e.what = "done" THEN vsWire.done \cup {e.turn} ELSE vsWire.done,
             late    |-> vsWire.late \/ (e.what = "delta" /\ e.turn \in vsWire.done)]

(* Fault: a send does not wait for those that have begun before it. *)
JoiningFirst(q, who, what, turn) ==
  LET e == [who |-> who, what |-> what, turn |-> turn, seq |-> vsSeq] IN
  IF q = <<>> THEN <<e>> ELSE <<Head(q), e>> \o Tail(q)

(* _send_event: the queue with one more send. *)
Joining(q, who, what, turn) ==
  Append(q, [who |-> who, what |-> what, turn |-> turn, seq |-> vsSeq])

SendEvent(q, who, what, turn) == /\ Sends(Joining(q, who, what, turn))
                                 /\ vsSeq' = vsSeq + 1

Sending(who) == \E i \in DOMAIN vsQueue : vsQueue[i].who = who

(* The send that who waits for, of which there is one at most, is given up. *)
Without(q, who) ==
  IF \E i \in DOMAIN q : q[i].who = who
  THEN RemoveAt(q, CHOOSE i \in DOMAIN q : q[i].who = who)
  ELSE q

(* Fault: a cancelled task is in a state of its own. *)
AfterCancelMarked(t, stray) == IF vsTask[t] = "none" THEN "none" ELSE "cancelled"

(* What is left of a task that is cancelled: a send it waits for is given up,
   an error it reports is followed by its cleanup, and a cancellation that
   comes with the chat's answer is swallowed by wait_for; a turn with parts to
   send then sees active_cancelled. *)
AfterCancel(t, stray) ==
  CASE vsTask[t] \in {"failing", "clearing"} -> "clearing"
    [] vsTask[t] = "none"                    -> "none"
    [] stray                                 -> "talking"
    [] OTHER                                 -> "ended"

(* Fault: the task is not cancelled. *)
CancelTurnLater(t, tasks) == vsTask' = tasks /\ UNCHANGED <<vsLeft, vsStray>> /\ vsCancelled' = FALSE

(* The task of turn t is cancelled, and the other tasks become as in tasks. *)
CancelTurn(t, tasks) ==
  /\ vsCancelled' = TRUE
  /\ \E stray \in BOOLEAN :
        /\ stray => vsTask[t] = "asking"
        /\ vsTask'  = [tasks EXCEPT ![t] = AfterCancel(t, stray)]
        /\ vsStray' = IF stray THEN vsStray \cup {t} ELSE vsStray
        /\ vsLeft'  = [vsLeft EXCEPT ![t] = 0]

Becomes(t, state) == vsTask' = [vsTask EXCEPT ![t] = state]
----------------------------------------------------------------------------
(* The connection is closed: what is under way is not sent any more. *)
Closes == vsMain' = "closed" /\ vsOpen' = FALSE /\ Sends(<<>>)

Receives == vsMain = "receiving" /\ vsOpen /\ vsInputs < MaxInputs /\ vsInputs' = vsInputs + 1

(* input.final while a turn is active, or without a text. *)
VoiceRefuse ==
  /\ Receives
  /\ vsMain' = "refusing"
  /\ SendEvent(vsQueue, Main, "error", 0)
  /\ UNCHANGED <<vsOpen, vsTurns, vsActive, vsCancelled>>

(* input.final: the turn's task is created; its two first sends, meta and
   turn.started, count as one. *)
VoiceInput ==
  LET t == vsInputs + 1 IN
  /\ Receives
  /\ vsActive = 0
  /\ vsActive' = t
  /\ vsCancelled' = FALSE
  /\ Becomes(t, "opening")
  /\ SendEvent(vsQueue, t, "started", t)
  /\ UNCHANGED <<vsOpen, vsMain, vsLeft, vsStray>>

(* _cancel_active_turn in the main loop, which then goes on receiving
   (control.cancel) or ends the session (session.end, an idle timeout). *)
VoiceCancel(next) ==
  /\ IF next = "cancelling" THEN Receives
     ELSE vsMain = "receiving" /\ vsOpen /\ UNCHANGED vsInputs
  /\ \/ /\ vsActive = 0
        /\ IF next = "ending" THEN Closes ELSE UNCHANGED <<vsOpen, vsMain, vsQueue, vsWire>>
        /\ UNCHANGED <<vsTurns, vsCancelled, vsSeq>>
     \/ /\ vsActive # 0
        /\ CancelTurn(vsActive, vsTask)
        /\ SendEvent(Without(vsQueue, vsActive), Main, "done", vsActive)
        /\ vsMain' = next
        /\ UNCHANGED vsOpen
  /\ UNCHANGED vsActive

(* The client is gone: what is under way cannot be sent, the main loop's next
   step raises, and its cleanup cancels the active turn. *)
VoiceDisconnect ==
  /\ vsOpen
  /\ Closes
  /\ vsActive' = 0
  /\ IF vsActive = 0 THEN UNCHANGED <<vsTurns, vsCancelled>> ELSE CancelTurn(vsActive, vsTask)
  /\ UNCHANGED <<vsInputs, vsSeq>>

(* There is room again: the sender of the head goes on, the next is written. *)
VoiceSent ==
  /\ vsQueue # <<>>
  /\ LET who == Head(vsQueue).who IN
     IF who = Main
     THEN /\ IF vsMain = "ending" THEN Closes
             ELSE Sends(Tail(vsQueue)) /\ vsMain' = "receiving" /\ UNCHANGED vsOpen
          /\ vsActive' = IF vsMain = "refusing" THEN vsActive ELSE 0
          /\ UNCHANGED vsTask
     ELSE /\ Sends(Tail(vsQueue))
          /\ Becomes(who, CASE vsTask[who] = "opening"   -> "asking"
                            [] vsTask[who] = "talking"   -> "talking"
                            [] vsTask[who] = "finishing" -> "closing"
                            [] vsTask[who] = "failing"   -> "clearing"
                            [] vsTask[who] \in {"closing", "undoing"} -> "ended")
          /\ vsActive' = IF vsTask[who] \in {"closing", "undoing"} THEN 0 ELSE vsActive
          /\ UNCHANGED <<vsMain, vsOpen>>
  /\ UNCHANGED <<vsInputs, vsLeft, vsStray, vsCancelled, vsSeq>>
----------------------------------------------------------------------------
(* The chat has answered with n parts. *)
VoiceAnswered(t, n) ==
  /\ vsTask[t] = "asking"
  /\ Becomes(t, "talking")
  /\ vsLeft' = [vsLeft EXCEPT ![t] = n]
  /\ UNCHANGED <<vsOpen, vsInputs, vsMain, vsStray, vsActive, vsCancelled, vsSeq, vsQueue, vsWire>>

(* The turn sends its next part, or the whole of it; before a part it looks
   whether the active turn has been cancelled. *)
VoiceSpeak(t) ==
  /\ vsTask[t] = "talking" /\ ~Sending(t) /\ vsOpen
  /\ IF vsLeft[t] > 0 /\ vsCancelled
     THEN Becomes(t, "ended") /\ UNCHANGED <<vsLeft, vsSeq, vsQueue, vsWire>>
     ELSE IF vsLeft[t] > 0
     THEN /\ SendEvent(vsQueue, t, "delta", t)
          /\ vsLeft' = [vsLeft EXCEPT ![t] = @ - 1]
          /\ UNCHANGED vsTask
     ELSE /\ SendEvent(vsQueue, t, "final", t)
          /\ Becomes(t, "finishing")
          /\ UNCHANGED vsLeft
  /\ UNCHANGED <<vsOpen, vsInputs, vsMain, vsStray, vsActive, vsCancelled>>

VoiceFinish(t) ==
  /\ vsTask[t] = "closing" /\ ~Sending(t) /\ vsOpen
  /\ SendEvent(vsQueue, t, "done", t)
  /\ UNCHANGED <<vsOpen, vsInputs, vsMain, vsTurns, vsActive, vsCancelled>>

(* The turn times out, or the chat raises: what it sends is given up, and an
   error is sent instead. *)
VoiceTurnFails(t) ==
  /\ vsTask[t] \in {"opening", "asking", "talking", "finishing", "closing"} /\ vsOpen
  /\ t \notin vsStray
  /\ Becomes(t, "failing")
  /\ SendEvent(Without(vsQueue, t), t, "error", t)
  /\ UNCHANGED <<vsOpen, vsInputs, vsMain, vsLeft, vsStray, vsActive, vsCancelled>>

(* Fault: the cleanup waits for the task it has cancelled, which may be its own. *)
VoiceClearWaits(t) ==
  /\ vsTask[t] = "clearing" /\ vsOpen
  /\ vsActive # 0 => vsTask[vsActive] = "ended"
  /\ Becomes(t, "ended")
  /\ UNCHANGED <<vsOpen, vsInputs, vsMain, vsLeft, vsStray, vsActive, vsCancelled, vsSeq, vsQueue, vsWire>>

(* The turn's own _cancel_active_turn, which cancels whatever is active. *)
VoiceClear(t) ==
  LET undoing == [vsTask EXCEPT ![t] = "undoing"] IN
  /\ vsTask[t] = "clearing" /\ vsOpen
  /\ \/ /\ vsActive = 0
        /\ Becomes(t, "ended")
        /\ UNCHANGED <<vsLeft, vsStray, vsCancelled, vsSeq, vsQueue, vsWire>>
     \/ /\ vsActive # 0
        /\ IF vsActive = t
           THEN vsTask' = undoing /\ vsCancelled' = TRUE /\ UNCHANGED <<vsLeft, vsStray>>
           ELSE CancelTurn(vsActive, undoing)
        /\ SendEvent(Without(vsQueue, vsActive), t, "done", vsActive)
  /\ UNCHANGED <<vsOpen, vsInputs, vsMain, vsActive>>

(* With the client gone nothing can be sent: the task raises, and ends. *)
VoiceGivesUp(t) ==
  /\ vsTask[t] \notin {"none", "asking", "ended"} /\ ~vsOpen
  /\ Becomes(t, "ended")
  /\ vsActive' = 0
  /\ UNCHANGED <<vsOpen, vsInputs, vsMain, vsLeft, vsStray, vsCancelled, vsSeq, vsQueue, vsWire>>

VoiceTaskStep(t) ==
  \/ VoiceSpeak(t) \/ VoiceFinish(t) \/ VoiceTurnFails(t) \/ VoiceClear(t) \/ VoiceGivesUp(t)
  \/ \E n \in 0 .. MaxDeltas : VoiceAnswered(t, n)

VoiceNext ==
  \/ VoiceRefuse \/ VoiceInput \/ VoiceCancel("cancelling") \/ VoiceCancel("ending")
  \/ VoiceDisconnect \/ VoiceSent
  \/ \E t \in Spoken : VoiceTaskStep(t)

(* The transport drains or the connection breaks, the chat answers or the turn
   times out. *)
VoiceFairness == /\ WF_vsVars(VoiceSent)
                 /\ \A t \in Spoken : WF_vsVars(VoiceTaskStep(t))

VoiceSpec == VoiceInit /\ [][VoiceNext]_vsVars /\ VoiceFairness
----------------------------------------------------------------------------
(* The client receives the events in the order of their sequence numbers,
   whichever of the tasks sends them and whichever sends are given up. *)
WireInOrder == vsWire.ordered

(* No part of an answer follows the end of its turn, also when the turn that is
   ended is not the one whose task ends it. *)
NothingSaidAfterDone == ~vsWire.late

(* A turn that has begun ends: it does not wait for an answer, for the lock or
   for a client that has gone. *)
TurnsEnd == \A t \in Spoken : vsTask[t] = "opening" ~> vsTask[t] = "ended"
============================================================================
