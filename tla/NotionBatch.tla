----------------------------- MODULE NotionBatch -----------------------------
(* A batch of Notion writes under one approval (services/notion_service.py,
   _execute_batch_request).  The operations are executed one after the other,
   each with several calls to Notion, any of which may fail, or fail once it
   has been carried out.  A later operation may name what an earlier one made
   by its op_id ("$op_id").  The batch reports on each operation; it undoes
   nothing.
   Pages are numbers: 0 is a goal that was there before, i > 0 is the page made
   by operation i.  In an operation, k > 0 stands for the reference "$k". *)
EXTENDS Integers, Sequences

CONSTANT WriteBatches   \* the batches that may be requested

VARIABLES
  nbBatch,   \* operations
  nbAt,      \* what it is doing
  nbPages,   \* Notion: each page, and what it is related to
  nbRefs,    \* ref_map
  nbReport   \* results

nbVars == <<nbBatch, nbAt, nbPages, nbRefs, nbReport>>

Unset    == -1   \* a parameter, or a relation, that is not there
Dangling == -2   \* a reference that has not been replaced
Known    == 0

Creations  == {"create_goal", "create_task", "create_project", "create_page"}
Intents    == Creations \cup {"update_page", "delete_page", "unsupported"}
Parameters == Nat \cup {Unset}

(* goal is parent_goal_id, goal_id or primary_goal_id; titled tells whether
   the title of the known goal is given as well. *)
Operations == [id : Nat \ {0}, intent : Intents, target : Parameters,
               goal : Parameters, project : Parameters, titled : BOOLEAN]

(* An empty batch is refused (batch_request requires operations[]). *)
ASSUME BatchAssumption == WriteBatches \subseteq Seq(Operations) \ {<<>>}

Page     == [state : {"absent", "live", "archived"},
             goal : Nat \cup {Unset}, project : Nat \cup {Unset}]
NoPage   == [state |-> "absent", goal |-> Unset, project |-> Unset]
Here     == Len(nbReport) + 1
Op       == nbBatch[Here]

BatchTypeOK ==
  /\ nbBatch \in WriteBatches
  /\ nbAt \in {"looking", "writing", "relating", "finished", "raised"}
  /\ nbPages \in [0 .. Len(nbBatch) -> Page]
  /\ nbRefs \in [{nbBatch[i].id : i \in DOMAIN nbBatch} -> Nat \cup {Dangling}]
  /\ nbReport \in Seq([ok : BOOLEAN, page : Nat \cup {Unset}])
  /\ Len(nbReport) <= Len(nbBatch)

BatchInit ==
  /\ nbBatch \in WriteBatches
  /\ nbAt = "looking"
  /\ nbPages = [p \in 0 .. Len(nbBatch) |->
                  IF p = Known THEN [NoPage EXCEPT !.state = "live"] ELSE NoPage]
  /\ nbRefs = [k \in {nbBatch[i].id : i \in DOMAIN nbBatch} |-> Dangling]
  /\ nbReport = <<>>
----------------------------------------------------------------------------
(* _resolve_refs: what a parameter of the operation at hand has become. *)
Resolved(v) == IF v <= 0 THEN v
               ELSE IF v \in DOMAIN nbRefs THEN nbRefs[v] ELSE Dangling

(* The goal of a new task: a reference that dangles is dropped, and the title
   is looked up. *)
TaskGoal(o) == IF Resolved(o.goal) >= 0 THEN Resolved(o.goal)
               ELSE IF o.titled THEN Known ELSE Unset

(* Fault: a failed operation that has made a page can be referred to. *)
ReportsAny(ok, page) ==
  /\ nbReport' = Append(nbReport, [ok |-> ok, page |-> page])
  /\ nbRefs' = IF nbPages'[Here].state = "absent" THEN nbRefs
               ELSE [nbRefs EXCEPT ![Op.id] = Here]
  /\ nbAt' = IF Here = Len(nbBatch) THEN "finished" ELSE "writing"

(* The result of the operation is appended, a success whose page is known may
   be referred to, and the next operation begins. *)
Reports(ok, page) ==
  /\ nbReport' = Append(nbReport, [ok |-> ok, page |-> page])
  /\ nbRefs' = IF ok /\ page # Unset THEN [nbRefs EXCEPT ![Op.id] = page] ELSE nbRefs
  /\ nbAt' = IF Here = Len(nbBatch) THEN "finished" ELSE "writing"

Fails == Reports(FALSE, Unset)

(* Before any operation, the goals that new tasks name by title only are looked
   up; one that is not found, is ambiguous or cannot be queried ends it all. *)
NbLookup ==
  /\ nbAt = "looking"
  /\ \/ nbAt' = "writing"
     \/ /\ \E i \in DOMAIN nbBatch : /\ nbBatch[i].intent = "create_task"
                                     /\ nbBatch[i].titled /\ nbBatch[i].goal = Unset
        /\ nbAt' = "raised"
  /\ UNCHANGED <<nbBatch, nbPages, nbRefs, nbReport>>

(* What the operation still has to relate once its page is there: a goal takes
   its parent, unless the reference dangles; the others take what they are
   given, a reference that dangles included. *)
Relations(o) ==
  LET given(v) == IF Resolved(v) = Unset /\ o.titled /\ o.intent = "create_project"
                  THEN Known ELSE Resolved(v)
  IN CASE o.intent = "create_goal"    -> [goal |-> TaskGoal(o), project |-> Unset]
       [] o.intent = "create_task"    -> [goal |-> TaskGoal(o), project |-> Resolved(o.project)]
       [] o.intent = "create_project" -> [goal |-> given(o.goal), project |-> Unset]
       [] o.intent = "update_page"    -> [goal |-> Resolved(o.goal), project |-> Resolved(o.project)]
       [] OTHER                       -> [goal |-> Unset, project |-> Unset]

Asks(r) == r.goal # Unset \/ r.project # Unset

(* One call carries the operation on, to its relations or to its success. *)
Continues(page) ==
  IF Asks(Relations(Op)) THEN nbAt' = "relating" /\ UNCHANGED <<nbRefs, nbReport>>
                         ELSE Reports(TRUE, page)

(* POST /pages.  A task is created with its goal, the others are related to
   theirs later; the page may be there although the call has failed.  A reply
   without a body leaves the page without an id: nothing can be related to it,
   and the operation succeeds. *)
NbCreate ==
  LET goal == IF Op.intent = "create_task" THEN TaskGoal(Op) ELSE Unset IN
  /\ nbAt = "writing" /\ Op.intent \in Creations
  /\ \/ UNCHANGED nbPages /\ Fails
     \/ /\ nbPages' = [nbPages EXCEPT ![Here] = [state |-> "live", goal |-> goal, project |-> Unset]]
        /\ Fails \/ Continues(Here) \/ Reports(TRUE, Unset)
  /\ UNCHANGED nbBatch

(* PATCH /pages/{page_id}: the page of a reference that dangles is unknown. *)
NbChange ==
  LET page == Resolved(Op.target) IN
  /\ nbAt = "writing" /\ Op.intent \in {"update_page", "delete_page"}
  /\ \/ UNCHANGED nbPages /\ Fails
     \/ /\ page >= 0
        /\ nbPages' = IF Op.intent = "delete_page"
                      THEN [nbPages EXCEPT ![page].state = "archived"] ELSE nbPages
        /\ Fails \/ Continues(page)
  /\ UNCHANGED nbBatch

NbUnsupported ==
  /\ nbAt = "writing" /\ Op.intent = "unsupported"
  /\ UNCHANGED <<nbBatch, nbPages>>
  /\ Fails

(* The page of the operation, and its relations once they have been set. *)
Mine == IF Op.intent \in Creations THEN Here ELSE Resolved(Op.target)

Related ==
  LET r == Relations(Op) IN
  [nbPages EXCEPT ![Mine].goal    = IF r.goal = Unset THEN @ ELSE r.goal,
                  ![Mine].project = IF r.project = Unset THEN @ ELSE r.project]

(* Fault: the relations of every operation are set at best. *)
NbRelateAtBest ==
  /\ nbAt = "relating"
  /\ nbPages' \in IF Dangling \in {Relations(Op).goal, Relations(Op).project}
                   THEN {nbPages} ELSE {nbPages, Related}
  /\ Reports(TRUE, Mine)
  /\ UNCHANGED nbBatch

(* The relations are set by one call, which is refused if a reference dangles.
   That of a goal to its parent is set at best, like that of a project to a
   goal whose title is not found; any other failure is that of the operation,
   whose page stays. *)
NbRelate ==
  LET r == Relations(Op) IN
  /\ nbAt = "relating"
  /\ \/ /\ Dangling \notin {r.goal, r.project}
        /\ nbPages' = Related
        /\ Reports(TRUE, Mine) \/ (Op.intent # "create_goal" /\ Fails)
     \/ /\ UNCHANGED nbPages
        /\ \/ Op.intent # "create_goal" /\ Fails
           \/ /\ \/ Op.intent = "create_goal"
                 \/ Op.intent = "create_project" /\ Op.goal = Unset
              /\ Reports(TRUE, Mine)
  /\ UNCHANGED nbBatch

BatchNext == NbLookup \/ NbCreate \/ NbChange \/ NbUnsupported \/ NbRelate

BatchSpec == BatchInit /\ [][BatchNext]_nbVars
----------------------------------------------------------------------------
(* v is a page that was there, or the name of an earlier success. *)
Given(i, v) ==
  v = Known \/ \E j \in 1 .. i - 1 :
    nbBatch[j].id = v /\ nbReport[j].ok /\ nbReport[j].page # Unset

(* What the report calls a success is there, and related as it was asked to
   be: a task to its goal and project, a project to its goal, if they were
   named by a page or by an operation reported a success before; a task also
   to a goal named by its title.  A page whose id the reply did not bring has
   the relations it was created with, a task's goal, and no others. *)
SuccessIsThere ==
  \A i \in DOMAIN nbReport :
    LET o == nbBatch[i]  page == nbPages[i] IN
    nbReport[i].ok =>
      /\ o.intent \in Creations => page.state # "absent"
      /\ o.intent = "create_task" /\ (o.titled \/ Given(i, o.goal)) => page.goal # Unset
      /\ nbReport[i].page # Unset =>
           /\ o.intent = "create_project" /\ Given(i, o.goal) => page.goal # Unset
           /\ o.intent = "create_task" /\ Given(i, o.project) => page.project # Unset

(* A page is related to a page of this batch only if the report calls the
   operation that made that page, or was the last to change it, a success:
   never to what a failed operation has left behind. *)
RelatedToSuccesses ==
  \A p \in DOMAIN nbPages :
    \A q \in {nbPages[p].goal, nbPages[p].project} \ {Unset, Known} :
      \E j \in DOMAIN nbReport : nbReport[j].ok /\ nbReport[j].page = q
============================================================================
