----------------------------- MODULE TurnContract -----------------------------
(***************************************************************************)
(* What one user turn of the agent promises its caller, whatever the model *)
(* and the tools do: it is a sequence of at most MaxTurns tool rounds, each *)
(* of which succeeds or fails as a whole, and it ends with a final answer, *)
(* with a model error, with an open circuit (the last MaxFailures rounds   *)
(* all failed) or with the round limit.  The outcome is a function of the  *)
(* HISTORY of rounds: there is no counter here.                            *)
(***************************************************************************)
EXTENDS Naturals, Sequences

CONSTANTS MaxTurns,     \* tool rounds a turn may have
          MaxFailures   \* failed rounds in a row that open the circuit

VARIABLES verdicts,     \* verdicts[k]: "failed" when some tool of round k failed, else "ok"
          outcome       \* how the turn ended, or "running"

contractVars == <<verdicts, outcome>>

\* The last n rounds of v all failed.
FailedStreak(v, n) ==
  /\ Len(v) >= n
  /\ \A k \in (Len(v) - n + 1)..Len(v) : v[k] = "failed"

ContractInit == verdicts = <<>> /\ outcome = "running"

\* A tool round is over.  An open circuit wins over the round limit.
Round(verdict) ==
  /\ outcome = "running"
  /\ verdicts' = Append(verdicts, verdict)
  /\ outcome' = IF FailedStreak(verdicts', MaxFailures) THEN "circuit"
                ELSE IF Len(verdicts') = MaxTurns THEN "maxTurns"
                ELSE "running"

\* The model answered without asking for tools, or could not be reached.
End ==
  /\ outcome = "running"
  /\ outcome' \in {"final", "modelErr"}
  /\ UNCHANGED verdicts

ContractNext == End \/ \E verdict \in {"ok", "failed"} : Round(verdict)

ContractSpec == ContractInit /\ [][ContractNext]_contractVars
===============================================================================
