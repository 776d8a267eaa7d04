--------------------------- MODULE BatchContract ---------------------------
(***************************************************************************)
(* What `returnguard-project` promises the person who runs it, with no     *)
(* mention of threads, futures or processes: each selected translation     *)
(* unit is analysed and reported at most once, a run that was not cut      *)
(* short accounts for every unit it started, and exit status 0 is a claim  *)
(* about all the selected units.  ProjectRunner implements it.             *)
(***************************************************************************)
EXTENDS Integers

CONSTANT Units            \* the selected translation units

VARIABLES
  status,                 \* where each unit stands
  exit                    \* -1 while running, then the exit status of the process

vars == <<status, exit>>

Running == -1
Passed  == "passed"       \* reported with exit status 0
Failed  == "failed"       \* reported with any other status
Reported == {Passed, Failed}

Init ==
  /\ status = [u \in Units |-> "waiting"]
  /\ exit = Running

\* A unit is handed to the pool.
Start(u) ==
  /\ exit = Running
  /\ status[u] = "waiting"
  /\ status' = [status EXCEPT ![u] = "active"]
  /\ UNCHANGED exit

\* The verdict of a finished unit reaches the user.
Report(u) ==
  /\ exit = Running
  /\ status[u] = "active"
  /\ \E verdict \in Reported : status' = [status EXCEPT ![u] = verdict]
  /\ UNCHANGED exit

\* Units are given up together: after a failure under --fail-fast, or when
\* the run is cut short.
Abandon ==
  /\ exit = Running
  /\ \E dropped \in SUBSET {u \in Units : status[u] \notin Reported} :
       status' = [u \in Units |-> IF u \in dropped THEN "abandoned" ELSE status[u]]
  /\ UNCHANGED exit

\* Every unit was reported, or a failure justifies leaving some out.
Exit(code) ==
  /\ exit = Running
  /\ code = 0 => \A u \in Units : status[u] = Passed
  /\ code = 1 => \E u \in Units : status[u] = Failed
  /\ \A u \in Units : status[u] # "active"
  /\ exit' = code
  /\ UNCHANGED status

Next ==
  \/ \E u \in Units : Start(u) \/ Report(u)
  \/ Abandon
  \/ \E code \in {0, 1, 130} : Exit(code)

Spec == Init /\ [][Next]_vars
=============================================================================
