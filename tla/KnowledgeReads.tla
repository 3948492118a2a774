--------------------------- MODULE KnowledgeReads ---------------------------
(* What the server knows of Notion, and how old it is.  The snapshot
   (services/knowledge_snapshot_service.py) belongs to the process; the
   session cache (services/session_snapshot_cache.py) keeps the live reads of
   the chat.  Both are filled from build_knowledge_snapshot, whose calls are
   awaited: a build notes when it begins, and reads later.  The content of
   Notion changes with the clock: what is read at a time is named after it. *)
EXTENDS Integers

CONSTANTS
  KnTurns,     \* chat requests, one at a time each
  Refreshers,  \* explicit refresh_snapshot commands
  Sessions,
  SnapTTL,     \* KNOWLEDGE_SNAPSHOT_TTL_SECONDS
  CacheTTL,    \* CEO_CHAT_SNAPSHOT_TTL_SECONDS
  KnMaxTime,   \* bound on the clock
  Nothing

VARIABLES
  knNow,
  knSnap,    \* _payload with _last_sync: what was read, and when its build began
  knCache,   \* SESSION_SNAPSHOT_CACHE
  knReader,  \* what each request or command is doing, and for which session
  knBuild,   \* the build it awaits
  knFloor    \* history: a refresh that began at this time has taken effect

knVars == <<knNow, knSnap, knCache, knReader, knBuild, knFloor>>

Readers == KnTurns \cup Refreshers
Times   == 0 .. KnMaxTime

ASSUME KnowledgeAssumption ==
  /\ SnapTTL \in Nat /\ CacheTTL \in Nat \ {0} /\ KnMaxTime \in Nat
  /\ KnTurns \cap Refreshers = {}
  /\ Nothing \notin [content : Int, began : Int, whole : BOOLEAN]
  /\ Nothing \notin [content : Int, began : Int, whole : BOOLEAN, until : Int]

Snapshot == [content : Times, began : Times, whole : BOOLEAN]
Cached   == [content : Times, began : Times, whole : BOOLEAN, until : Times \cup (KnMaxTime .. KnMaxTime + CacheTTL)]
Idling   == [does |-> "nothing", for |-> Nothing]
NoBuild  == [at |-> "none", began |-> 0, content |-> 0, alone |-> FALSE]

KnTypeOK ==
  /\ knNow \in Times
  /\ knSnap \in Snapshot \cup {Nothing}
  /\ knCache \in [Sessions -> Cached \cup {Nothing}]
  /\ knReader \in [Readers -> [does : {"nothing", "bundle", "live", "refresh"},
                              for : Sessions \cup {Nothing}]]
  /\ knBuild \in [Readers -> [at : {"none", "begun", "read"}, began : Times,
                              content : Times, alone : BOOLEAN]]
  /\ knFloor \in Times

(* The boot refreshes before the first request is served, if it can. *)
Booted == {Nothing, [content |-> knNow, began |-> knNow, whole |-> TRUE]}

KnInit ==
  /\ knNow = 0
  /\ knSnap \in Booted
  /\ knCache  = [s \in Sessions |-> Nothing]
  /\ knReader = [r \in Readers |-> Idling]
  /\ knBuild  = [r \in Readers |-> NoBuild]
  /\ knFloor  = 0
----------------------------------------------------------------------------
(* is_expired, and the boundary of /api/chat: refresh when nothing usable. *)
SnapExpired == knNow - knSnap.began > SnapTTL
NeedsRefresh == knSnap = Nothing \/ SnapExpired

(* A build begins; it is alone if no other is under way. *)
Begins(r, does, for) ==
  /\ knReader' = [knReader EXCEPT ![r] = [does |-> does, for |-> for]]
  /\ knBuild'  = [knBuild EXCEPT ![r] =
                    [at |-> "begun", began |-> knNow, content |-> 0,
                     alone |-> \A o \in Readers : knBuild[o].at = "none"]]

Ends(r) ==
  /\ knReader' = [knReader EXCEPT ![r] = Idling]
  /\ knBuild'  = [knBuild EXCEPT ![r] = NoBuild]

(* The first database is read: the others are read later, and are newer. *)
KnRead(r) ==
  /\ knBuild[r].at = "begun"
  /\ knBuild' = [knBuild EXCEPT ![r].at = "read", ![r].content = knNow]
  /\ UNCHANGED <<knNow, knSnap, knCache, knReader, knFloor>>

(* Fault: the snapshot is dated when its build ends. *)
BuiltAtEnd(r, whole) == [content |-> knBuild[r].content, began |-> knNow, whole |-> whole]

(* What the build returns; not whole if a query failed or the budget ended. *)
Built(r, whole) == [content |-> knBuild[r].content, began |-> knBuild[r].began, whole |-> whole]

(* sync_knowledge_snapshot at its end: no overwrite on failure. *)
Syncs(r, whole) == knSnap' = IF whole THEN Built(r, whole) ELSE knSnap

(* SESSION_SNAPSHOT_CACHE.get for a client whose own snapshot is of time min. *)
Hit(s, min) == knCache[s] # Nothing /\ knNow < knCache[s].until /\ knCache[s].began >= min

(* An expired entry is dropped by the request that looks at it. *)
Looked(s) == IF knCache[s] # Nothing /\ knNow >= knCache[s].until
             THEN [knCache EXCEPT ![s] = Nothing] ELSE knCache

(* The targeted read of a turn: none is needed, or the cache or the snapshot
   answers; otherwise Notion is asked. *)
TargetedRead(t) ==
  \/ Ends(t) /\ UNCHANGED knCache
  \/ \E s \in Sessions, min \in 0 .. knNow :
       /\ ~Hit(s, min)
       /\ knCache' = Looked(s)
       /\ Ends(t) \/ Begins(t, "live", s)

(* A chat request: _knowledge_bundle refreshes if it must. *)
KnChat(t) ==
  /\ knReader[t].does = "nothing"
  /\ IF NeedsRefresh THEN Begins(t, "bundle", Nothing) /\ UNCHANGED knCache
                     ELSE TargetedRead(t)
  /\ UNCHANGED <<knNow, knSnap, knFloor>>

KnBundled(t, whole) ==
  /\ knReader[t].does = "bundle" /\ knBuild[t].at = "read"
  /\ Syncs(t, whole)
  /\ TargetedRead(t)
  /\ UNCHANGED <<knNow, knFloor>>

(* The live read is kept for the session, whole or not. *)
KnLive(t, whole) ==
  /\ knReader[t].does = "live" /\ knBuild[t].at = "read"
  /\ knCache' = [knCache EXCEPT ![knReader[t].for] =
                   [content |-> knBuild[t].content, began |-> knBuild[t].began,
                    whole |-> whole, until |-> knNow + CacheTTL]]
  /\ Ends(t)
  /\ UNCHANGED <<knNow, knSnap, knFloor>>

(* The request is cancelled, or what it awaits raises. *)
KnGivesUp(r) ==
  /\ knReader[r].does # "nothing"
  /\ Ends(r)
  /\ UNCHANGED <<knNow, knSnap, knCache, knFloor>>
----------------------------------------------------------------------------
(* Fault: the session cache is not invalidated. *)
KnRefreshKeeps(r) ==
  /\ knReader[r].does = "nothing"
  /\ Begins(r, "refresh", Nothing)
  /\ UNCHANGED <<knNow, knSnap, knCache, knFloor>>

(* refresh_snapshot: the caches are cleared, then the snapshot is synced. *)
KnRefresh(r) ==
  /\ knReader[r].does = "nothing"
  /\ knCache' = [s \in Sessions |-> Nothing]
  /\ Begins(r, "refresh", Nothing)
  /\ UNCHANGED <<knNow, knSnap, knFloor>>

KnRefreshed(r, whole) ==
  /\ knReader[r].does = "refresh" /\ knBuild[r].at = "read"
  /\ Syncs(r, whole)
  /\ knFloor' = IF whole /\ knBuild[r].alone THEN knBuild[r].began ELSE knFloor
  /\ Ends(r)
  /\ UNCHANGED <<knNow, knCache>>

KnRestart ==
  /\ knSnap' \in Booted
  /\ knCache'  = [s \in Sessions |-> Nothing]
  /\ knReader' = [r \in Readers |-> Idling]
  /\ knBuild'  = [r \in Readers |-> NoBuild]
  /\ UNCHANGED <<knNow, knFloor>>

KnTick == knNow < KnMaxTime /\ knNow' = knNow + 1
          /\ UNCHANGED <<knSnap, knCache, knReader, knBuild, knFloor>>

KnNext ==
  \/ \E t \in KnTurns : KnChat(t) \/ \E whole \in BOOLEAN : KnBundled(t, whole) \/ KnLive(t, whole)
  \/ \E r \in Refreshers : KnRefresh(r) \/ \E whole \in BOOLEAN : KnRefreshed(r, whole)
  \/ \E r \in Readers : KnRead(r) \/ KnGivesUp(r)
  \/ KnTick \/ KnRestart

KnSpec == KnInit /\ [][KnNext]_knVars
----------------------------------------------------------------------------
(* What the server keeps was read whole, whatever refreshes fail ("do NOT
   overwrite SSOT snapshot on refresh failure"); and while it is not expired
   it shows Notion as it was within the TTL, with builds of any length that
   overlap: last_sync never flatters it. *)
FreshIsFresh ==
  knSnap # Nothing => /\ knSnap.whole
                      /\ ~SnapExpired => knNow - knSnap.content <= SnapTTL

(* Once a refresh has taken effect that began while no other build was under
   way, nothing older than its beginning is served: neither the snapshot nor
   a session cached before it, whatever builds begin, fail or end later. *)
RefreshIsNotUndone ==
  /\ knSnap # Nothing => knSnap.content >= knFloor
  /\ \A s \in Sessions : knCache[s] # Nothing => knCache[s].content >= knFloor

(* "Chat/advisor cannot keep serving stale snapshots after an explicit refresh":
   when a refresh has taken effect, the session cache holds nothing usable that
   was read before the refresh began.  A live read that was under way when the
   caches were cleared fills them again. *)
NothingStaleAfterRefresh ==
  [][\A r \in Refreshers : KnRefreshed(r, TRUE) =>
       \A s \in Sessions : knCache'[s] # Nothing /\ knNow < knCache'[s].until
         => knCache'[s].content >= knBuild[r].began]_knVars
============================================================================
