--------------------------- MODULE GovernedEffects ---------------------------
(***************************************************************************)
(* What the governed write path promises (CANON.md: "No execution is       *)
(* allowed without explicit governance approval"; ai_ops_router.py: the    *)
(* idempotency cache "prevents double-write on repeated approve calls"):   *)
(* a command takes effect only after it was granted, a grant is never      *)
(* taken back, and one grant gives at most one effect.                     *)
(***************************************************************************)
EXTENDS Naturals

CONSTANT Commands

VARIABLES granted,    \* commands a human has approved
          effects     \* command -> how often its executor was started

vars == <<granted, effects>>

Init == granted = {} /\ effects = [c \in Commands |-> 0]

Grant(c) == /\ granted' = granted \cup {c}
            /\ UNCHANGED effects

Effect(c) == /\ c \in granted
             /\ effects[c] = 0
             /\ effects' = [effects EXCEPT ![c] = 1]
             /\ UNCHANGED granted

Next == \E c \in Commands : Grant(c) \/ Effect(c)

Spec == Init /\ [][Next]_vars
==============================================================================
