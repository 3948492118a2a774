----------------------------- MODULE NotionArmed -----------------------------
(***************************************************************************)
(* The store of Notion Ops armings, services/notion_armed_store.py: one    *)
(* dict and one file, every operation under one re-entrant lock.  The      *)
(* orchestrator's gate reads it before each Notion write; the toggle route *)
(* and the chat write it.                                                  *)
(*                                                                         *)
(* set changes memory first and the file second.  If the file cannot be    *)
(* replaced the caller gets the error, memory is ahead of the file, and    *)
(* the store is marked unhealthy: the next operation reads the file again. *)
(* A principal without an entry is disarmed.                               *)
(***************************************************************************)
EXTENDS Naturals

CONSTANTS Principals,
          TTL,          \* NOTION_OPS_ARM_TTL_SECONDS
          MaxTime,      \* bound on the clock
          DiskMayFail,  \* whether reading or replacing the file may fail
          Absent        \* the file does not exist

Setting == [armed: BOOLEAN, until: Nat]
Off     == [armed |-> FALSE, until |-> 0]
AllOff  == [p \in Principals |-> Off]

ASSUME ArmedAssumption ==
  /\ TTL \in Nat \ {0}
  /\ MaxTime \in Nat
  /\ DiskMayFail \in BOOLEAN
  /\ Absent \notin [Principals -> Setting]

VARIABLES data,     \* _STATE.data
          loaded,   \* _STATE.loaded
          healthy,  \* _STATE.healthy
          file,     \* notion_armed_store.json
          now,
          acked,    \* history: the setting last answered to each principal
          lost,     \* history: settings since then whose request got no answer
          gate      \* what the operation just made answered the gate

stateVars == <<data, loaded, healthy>>
vars == <<data, loaded, healthy, file, now, acked, lost, gate>>

TypeOK == /\ data \in [Principals -> Setting]
          /\ loaded \in BOOLEAN /\ healthy \in BOOLEAN
          /\ file \in [Principals -> Setting] \cup {Absent}
          /\ now \in Nat
          /\ acked \in [Principals -> Setting]
          /\ lost \in [Principals -> SUBSET Setting]
          /\ gate \in [Principals -> {"none", "armed", "disarmed", "error"}]

NotAsked == [p \in Principals |-> "none"]

-----------------------------------------------------------------------------
(* _ensure_loaded when all goes well: what memory and the file then hold.
   load writes an empty file where there is none. *)
Stored  == IF file = Absent THEN AllOff ELSE file
Usable  == loaded /\ healthy
Current == IF Usable THEN data ELSE Stored
OnDisk  == IF Usable THEN file ELSE Stored

(* load raises: unreadable, or no file and none can be written. *)
LoadFails == /\ ~Usable /\ DiskMayFail
             /\ loaded' = FALSE /\ healthy' = FALSE
             /\ data' = IF file = Absent THEN AllOff ELSE data
             /\ UNCHANGED <<file, acked, lost, now>>

(* Fault: an arming is looked up without its expiry. *)
ActiveForever(s) == s.armed

(* _apply_expiry: an arming holds until it expires. *)
Active(s) == s.armed /\ now < s.until

(* get, as the gate calls it: an error blocks the write like a disarmed
   answer. *)
Get(p) ==
  \/ LoadFails /\ gate' = [NotAsked EXCEPT ![p] = "error"]
  \/ /\ data' = Current /\ file' = OnDisk
     /\ loaded' = TRUE /\ healthy' = TRUE
     /\ gate' = [NotAsked EXCEPT ![p] = IF Active(Current[p]) THEN "armed" ELSE "disarmed"]
     /\ UNCHANGED <<now, acked, lost>>

(* Fault: a failed flush leaves the store healthy. *)
SetKeepsMemory(p, s) ==
  \/ LoadFails /\ gate' = NotAsked
  \/ /\ data' = [Current EXCEPT ![p] = s]
     /\ loaded' = TRUE /\ healthy' = TRUE
     /\ \/ /\ file' = data'
           /\ acked' = [acked EXCEPT ![p] = s]
           /\ lost' = [lost EXCEPT ![p] = {}]
        \/ DiskMayFail /\ file' = OnDisk /\ UNCHANGED <<acked, lost>>
     /\ gate' = NotAsked
     /\ UNCHANGED now

(* set and clear: memory, then flush. *)
Set(p, s) ==
  \/ LoadFails /\ gate' = NotAsked
  \/ /\ data' = [Current EXCEPT ![p] = s]
     /\ loaded' = TRUE
     /\ \/ /\ file' = data' /\ healthy' = TRUE
           /\ acked' = [acked EXCEPT ![p] = s]
           /\ lost' = [lost EXCEPT ![p] = {}]
        \/ DiskMayFail /\ file' = OnDisk /\ healthy' = FALSE /\ UNCHANGED <<acked, lost>>
     /\ gate' = NotAsked
     /\ UNCHANGED now

Arm(p) == Set(p, [armed |-> TRUE, until |-> now + TTL])

Disarm(p) == Set(p, Off)

(* The process stops between two operations, or inside a set before or after
   the file is replaced (its caller then gets no answer); a new one starts
   with nothing loaded. *)
Stop == data' = AllOff /\ loaded' = FALSE /\ healthy' = TRUE

Crash == Stop /\ gate' = NotAsked /\ UNCHANGED <<file, now, acked, lost>>

CrashInSet(p, s) ==
  /\ Stop
  /\ file' \in {file, [Current EXCEPT ![p] = s]}
  /\ lost' = [lost EXCEPT ![p] = @ \cup {s}]
  /\ gate' = NotAsked
  /\ UNCHANGED <<now, acked>>

Tick == /\ now < MaxTime
        /\ now' = now + 1
        /\ gate' = NotAsked
        /\ UNCHANGED <<data, loaded, healthy, file, acked, lost>>

-----------------------------------------------------------------------------
Init == /\ data = AllOff /\ loaded = FALSE /\ healthy = TRUE
        /\ file = Absent
        /\ now = 0
        /\ acked = AllOff
        /\ lost = [p \in Principals |-> {}]
        /\ gate = NotAsked

Next == \/ \E p \in Principals :
             \/ Get(p) \/ Arm(p) \/ Disarm(p)
             \/ \E s \in {Off, [armed |-> TRUE, until |-> now + TTL]} : CrashInSet(p, s)
        \/ Crash
        \/ Tick

Spec == Init /\ [][Next]_vars

-----------------------------------------------------------------------------
(* The gate opens only for an arming that is still running and that was
   answered, or whose answer a crash swallowed: one whose flush failed never
   opens it, and neither does one followed by an answered disarming, whatever
   errors, reloads and restarts come between. *)
GateNeedsArming ==
  \A p \in Principals : gate[p] = "armed" =>
    \E s \in {acked[p]} \cup lost[p] : s.armed /\ now < s.until

(* What a usable store answers from memory is in the file: a restart changes
   no answer. *)
AnswersArePersistent == Usable => file = data
==============================================================================
