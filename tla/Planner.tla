------------------------------- MODULE Planner -------------------------------
(***************************************************************************)
(* The todo lists of the planner: planner.MemoryStore, one list per        *)
(* session, read into the prompt of a turn (FocusPrompt, called by         *)
(* Engine.PrepareLoop) and changed by the turn's tools update_todo and      *)
(* mark_task_done. The store locks each call; nothing holds over a turn.    *)
(***************************************************************************)
EXTENDS Integers, Sequences, FiniteSets

CONSTANTS
  Turns,       \* handlers that may run a turn
  Sessions,
  TaskIds,     \* task ids, as the model makes them up
  Orders,      \* values of a task's order
  MaxTasks,    \* bound on the length of a list
  MaxPlans     \* bound on the number of lists stored

ASSUME ListsAssumption == MaxTasks \in Nat /\ MaxPlans \in Nat /\ Orders \subseteq Nat

Statuses == {"pending", "in_progress", "done", "cancelled"}
Task == [id : TaskIds, status : Statuses, order : Orders]

\* No session id: the gateway turns down a message without one.
NoSession == "none"

ASSUME SessionsAssumption == NoSession \notin Sessions

\* The lists the model may hand to update_todo; nothing checks that ids differ.
Lists == UNION {[1..n -> Task] : n \in 0..MaxTasks}

VARIABLES
  sessions,   \* the store: per session its list
  plans,      \* number of lists stored so far
  session     \* per turn: its session, or NoSession

plannerVars == <<sessions, plans, session>>

PlannerInit ==
  /\ sessions = [s \in Sessions |-> <<>>]
  /\ plans = 0
  /\ session = [t \in Turns |-> NoSession]

InProgress(l) == {i \in DOMAIN l : l[i].status = "in_progress"}

\* The tasks FocusPrompt may name: in progress and first by order; the sort is
\* not stable, so of several with the same order any.
Focus(l) == {l[i].id : i \in {j \in InProgress(l) : \A k \in InProgress(l) : l[j].order <= l[k].order}}

\* PrepareLoop: a turn of session s begins, with the focus of its list in the
\* prompt.  The list is only read; other turns of s may be under way.
Prepare(t, s) ==
  /\ session[t] = NoSession
  /\ session' = [session EXCEPT ![t] = s]
  /\ UNCHANGED <<sessions, plans>>

\* ReplaceTasks: the list of session s is l from now on.
ReplaceTasks(s, l) == [sessions EXCEPT ![s] = l]

\* The tool update_todo. Arguments that are no list are an error and change
\* nothing.
UpdateTodo(t) ==
  /\ session[t] # NoSession /\ plans < MaxPlans
  /\ \E l \in Lists : sessions' = ReplaceTasks(session[t], l)
  /\ plans' = plans + 1
  /\ UNCHANGED session

FirstAny(l, id) == {i \in DOMAIN l : i = 1}

\* The task MarkDone finds: the first with the id.
First(l, id) == {i \in DOMAIN l : l[i].id = id /\ \A j \in 1..i - 1 : l[j].id # id}

Marked(l, i) == [l EXCEPT ![i].status = "done"]

\* The tool mark_task_done, for the id of the focus or any other. An id that is
\* not there, or a session without a list, is an error and changes nothing.
MarkTaskDone(t, id) ==
  /\ session[t] # NoSession
  /\ \E i \in First(sessions[session[t]], id) :
       sessions' = [sessions EXCEPT ![session[t]] = Marked(@, i)]
  /\ UNCHANGED <<plans, session>>

\* The turn returns, with an answer or an error.
EndTurn(t) ==
  /\ session[t] # NoSession
  /\ session' = [session EXCEPT ![t] = NoSession]
  /\ UNCHANGED <<sessions, plans>>

\* The lists live in the process: a restart loses them.
LoseTodos ==
  /\ sessions' = [s \in Sessions |-> <<>>]
  /\ session' = [t \in Turns |-> NoSession]
  /\ UNCHANGED plans

PlannerNext ==
  \/ \E t \in Turns :
       \/ \E s \in Sessions : Prepare(t, s)
       \/ UpdateTodo(t)
       \/ \E id \in TaskIds : MarkTaskDone(t, id)
       \/ EndTurn(t)
  \/ LoseTodos

PlannerSpec == PlannerInit /\ [][PlannerNext]_plannerVars
-------------------------------------------------------------------------------
\* Tasks of list l that share the id.
Twins(l, id) == {i \in DOMAIN l : l[i].id = id}

\* When mark_task_done says ok, the focus moves on: the next prompt does not
\* tell the model to work on the task it has just marked, unless the list holds
\* another task with the same id (MarkDone stops at the first, store.go:49-54).
DoneLeavesFocus ==
  [][\A t \in Turns, id \in TaskIds : MarkTaskDone(t, id) =>
       LET l == sessions'[session[t]]
       IN id \notin Focus(l) \/ Cardinality(Twins(l, id)) > 1]_plannerVars
==============================================================================
