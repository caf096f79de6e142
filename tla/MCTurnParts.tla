----------------------------- MODULE MCTurnParts -----------------------------
(***************************************************************************)
(* The parts that prepare and read one turn's texts, checked side by side: *)
(* recall of memories, focus on a todo, pruning of tool results and         *)
(* compaction (all called by Engine.PrepareLoop), the reading of the        *)
(* model's stream and its splitting. They share no state, so a behaviour is *)
(* one of one part, which Init picks, while the others rest.                *)
(***************************************************************************)
EXTENDS MCCompaction, Recall, Planner, ToolPruning, StreamChat, ThinkingSplit

VARIABLE part

\* Tags of the shape of <thinking> and </thinking>.
MCOpen == <<"<", "t", ">">>
MCClose == <<"<", "/", "t", ">">>

NoHistory == <<Plain("system", 1), Plain("user", 1)>>

PartsInit ==
  /\ part \in {"recall", "focus", "pruning", "compaction", "stream", "splitting"}
  /\ RecallInit /\ (part # "recall" => lastId = 0)
  /\ PlannerInit
  /\ PruningInit /\ (part # "pruning" => limit = Off)
  /\ Init /\ (part # "compaction" => msgs = NoHistory)
  /\ StreamInit /\ (part # "stream" => plan = <<>> /\ first = 0)
  /\ SplitInit

PartsNext ==
  \/ /\ part = "recall" /\ RecallNext
     /\ UNCHANGED <<plannerVars, pruningVars, vars, streamVars, splitVars, part>>
  \/ /\ part = "focus" /\ PlannerNext
     /\ UNCHANGED <<recallVars, pruningVars, vars, streamVars, splitVars, part>>
  \/ /\ part = "pruning" /\ PruningNext
     /\ UNCHANGED <<recallVars, plannerVars, vars, streamVars, splitVars, part>>
  \/ /\ part = "compaction" /\ Next
     /\ UNCHANGED <<recallVars, plannerVars, pruningVars, streamVars, splitVars, part>>
  \/ /\ part = "stream" /\ StreamNext
     /\ UNCHANGED <<recallVars, plannerVars, pruningVars, vars, splitVars, part>>
  \/ /\ part = "splitting" /\ SplitNext
     /\ UNCHANGED <<recallVars, plannerVars, pruningVars, vars, streamVars, part>>

PartsSpec ==
  PartsInit /\ [][PartsNext]_<<recallVars, plannerVars, pruningVars, vars, streamVars, splitVars, part>>
===============================================================================
