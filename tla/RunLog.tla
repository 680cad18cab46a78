------------------------------- MODULE RunLog -------------------------------
(***************************************************************************)
(* What the log of the syncs promises, whatever happens to the processes   *)
(* that write it (db/sync-logs.ts): a line is opened as running, is closed *)
(* exactly once with a verdict that is then final, and does not stay open  *)
(* for ever ("the UI would show a spinner that never stops").              *)
(***************************************************************************)
CONSTANT Logs       \* places for lines; a closed line's place is used again

VARIABLE status     \* [Logs -> the status of the line at that place]

Verdicts == {"success", "error"}
Statuses == Verdicts \union {"none", "running"}

Init == status = [l \in Logs |-> "none"]

Open(l) == /\ status[l] # "running"
           /\ status' = [status EXCEPT ![l] = "running"]

\* Several lines may be closed at once, but with one verdict and only if they are open.
Close(S, verdict) ==
  /\ S # {} /\ \A l \in S : status[l] = "running"
  /\ status' = [l \in Logs |-> IF l \in S THEN verdict ELSE status[l]]

Next == \/ \E l \in Logs : Open(l)
        \/ \E S \in SUBSET Logs, verdict \in Verdicts : Close(S, verdict)

Ends(l) == \E S \in SUBSET Logs, verdict \in Verdicts : l \in S /\ Close(S, verdict)

Safety == Init /\ [][Next]_status

Spec == Safety /\ \A l \in Logs : WF_status(Ends(l))

=============================================================================
