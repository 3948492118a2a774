------------------------------ MODULE MCProgress ------------------------------
(* The parts in which something must come about: the steps of a job template
   (of one step, with one input or two), the lists of pending jobs, the reviews
   of the feedback loop and the turns of a voice session.  They share no state;
   a behaviour is one of one part, chosen at its start, and the other parts are
   at rest. *)
EXTENDS TemplateRuns, JobBatches, FeedbackLoop, VoiceSession, TLC

CONSTANTS e1, q1, q2, q3, d1

VARIABLE part

OneTool  == e1 :> "tool"

(* Two calls of run_pending: one has a job twice, which the other has as well. *)
JobLists == <<<<"j1", "j1", "j2">>, <<"j1">>>>

(* Two approvals of one decision, and a rejection of the same. *)
Deciders == [q \in {q1, q2, q3} |->
               [kind |-> IF q = q2 THEN "reject" ELSE "approve", decision |-> d1]]

ProgressInit ==
  /\ part \in {"template", "jobs", "feedback", "voice"}
  /\ StepInit /\ JbInit /\ FeedbackInit /\ VoiceInit
  /\ part = "jobs" \/ jbKeep = Forever

ProgressNext ==
  /\ \/ /\ part = "template" /\ StepNext
        /\ UNCHANGED <<jbVars, fbVars, vsVars>>
     \/ /\ part = "jobs" /\ JobsNext
        /\ UNCHANGED <<stepVars, fbVars, vsVars>>
     \/ /\ part = "feedback" /\ FeedbackNext
        /\ UNCHANGED <<stepVars, jbVars, vsVars>>
     \/ /\ part = "voice" /\ VoiceNext
        /\ UNCHANGED <<stepVars, jbVars, fbVars>>
  /\ UNCHANGED part

progressVars == <<part, stepVars, jbVars, fbVars, vsVars>>

(* The fairness of JobBatches, FeedbackLoop and VoiceSession, in their
   behaviours. *)
ProgressFairness ==
  /\ \A e \in JobTasks : WF_jbVars(part = "jobs" /\ JobStep(e))
  /\ WF_fbVars(part = "feedback" /\ FbJobStarts)
  /\ \A w \in Runs : SF_fbVars(part = "feedback" /\ FbCommit(w))
  /\ WF_vsVars(part = "voice" /\ VoiceSent)
  /\ \A t \in Spoken : WF_vsVars(part = "voice" /\ VoiceTaskStep(t))

ProgressSpec == ProgressInit /\ [][ProgressNext]_progressVars /\ ProgressFairness

(* Every part is in a state of its types. *)
ProgressTypeOK == JbTypeOK /\ FeedbackTypeOK /\ VoiceTypeOK
===============================================================================
