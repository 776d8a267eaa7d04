--------------------------- MODULE ProjectRunner ---------------------------
(***************************************************************************)
(* The parallel project driver: bounded_results and main's reporting loop  *)
(* on the main thread, run_translation_unit and wait_for_process on the    *)
(* threads of the pool, and the process group of each analyzer.            *)
(*                                                                         *)
(* Main thread.  `mainAt` is where it stands: "fill" (submit_next up to    *)
(* `slots` times), "wait" (concurrent.futures.wait), "drain" (the for loop *)
(* over the done futures), "report" (a result was yielded and main's loop  *)
(* body handles it), "stop" and "cancel" (the except clauses of a          *)
(* KeyboardInterrupt), "shutdown" (executor.shutdown(wait=True)), "leave"  *)
(* (an exception left main; the interpreter joins the pool's threads) and  *)
(* "exited".                                                               *)
(*                                                                         *)
(* Worker.  `workerAt[u]` is where the thread running unit u stands:       *)
(* "open" (output file, Popen), "check" (top of wait_for_process's loop),  *)
(* "poll" (process.wait with the poll interval), "term", "grace" and       *)
(* "kill" (terminate_process_group), "close" (write the note, build the    *)
(* RunResult), "idle" otherwise.                                           *)
(*                                                                         *)
(* Children.  The leader is the analyzer itself, the helper one other      *)
(* member of its process group.  Both may run forever: nothing here makes  *)
(* them exit but SIGKILL, and SIGTERM only where they obey it.             *)
(***************************************************************************)
EXTENDS Integers, FiniteSets

CONSTANTS
  NumUnits,       \* number of selected translation units
  Jobs,           \* --jobs, after min(jobs, len(selected))
  FailFast,       \* --fail-fast
  HasTimeout,     \* --timeout was given
  MaxInterrupts,  \* bound: how many Ctrl-C the user presses
  ReportFaults,   \* may copying or printing a finished log raise OSError?
  WorkerFaults,   \* may the worker's own file or process creation fail?
  Helpers         \* the units whose analyzer may start another process

ASSUME RunnerAssumption ==
  /\ NumUnits \in Nat \ {0}
  /\ Jobs \in 1..NumUnits
  /\ MaxInterrupts \in Nat
  /\ FailFast \in BOOLEAN /\ HasTimeout \in BOOLEAN
  /\ ReportFaults \in BOOLEAN /\ WorkerFaults \in BOOLEAN
  /\ Helpers \subseteq 1..NumUnits

Units == 1..NumUnits
NoUnit == 0

VARIABLES
  mainAt, nextUnit, pending, batch, current, slots, reported, stopSubmitting,
  stopEvent, tempDir, interrupts, exitCode,
  future, workerAt, reason, overdue, verdict,
  leader, helper, signalled

mainVars == <<mainAt, nextUnit, pending, batch, current, slots, reported,
              stopSubmitting, stopEvent, tempDir, interrupts, exitCode>>
workerVars == <<workerAt, reason, overdue, verdict>>
childVars == <<leader, helper, signalled>>
vars == <<mainVars, future, workerVars, childVars>>

FutureStates == {"none", "queued", "running", "finished", "cancelled", "notified"}
Verdicts == {"none", "ok", "bad", "notStarted", "timeout", "interrupted", "internal"}
Interrupted == 130
Running == -1          \* no exit status decided yet

TypeOK ==
  /\ mainAt \in {"fill", "wait", "drain", "report", "stop", "cancel",
                 "shutdown", "leave", "exited"}
  /\ nextUnit \in 1..(NumUnits + 1)
  /\ pending \subseteq Units
  /\ batch \subseteq Units
  /\ current \in Units \cup {NoUnit}
  /\ slots \in Nat
  /\ reported \subseteq Units
  /\ stopSubmitting \in BOOLEAN /\ stopEvent \in BOOLEAN /\ tempDir \in BOOLEAN
  /\ interrupts \in 0..MaxInterrupts
  /\ exitCode \in {Running, 0, 1, Interrupted}
  /\ future \in [Units -> FutureStates]
  /\ workerAt \in [Units -> {"idle", "open", "check", "poll", "term", "grace",
                             "kill", "close"}]
  /\ reason \in [Units -> {"none", "timeout", "interrupted"}]
  /\ overdue \in [Units -> BOOLEAN]
  /\ verdict \in [Units -> Verdicts]
  /\ leader \in [Units -> {"none", "alive", "ok", "bad"}]
  /\ helper \in [Units -> {"none", "obedient", "deaf", "gone"}]
  /\ signalled \in [Units -> {"none", "term", "kill"}]

Init ==
  /\ mainAt = "fill"
  /\ nextUnit = 1
  /\ pending = {} /\ batch = {} /\ reported = {}
  /\ current = NoUnit
  /\ slots = Jobs
  /\ stopSubmitting = FALSE /\ stopEvent = FALSE /\ tempDir = TRUE
  /\ interrupts = 0
  /\ exitCode = Running
  /\ future = [u \in Units |-> "none"]
  /\ workerAt = [u \in Units |-> "idle"]
  /\ reason = [u \in Units |-> "none"]
  /\ overdue = [u \in Units |-> FALSE]
  /\ verdict = [u \in Units |-> "none"]
  /\ leader = [u \in Units |-> "none"]
  /\ helper = [u \in Units |-> "none"]
  /\ signalled = [u \in Units |-> "none"]

-----------------------------------------------------------------------------
\* Plausible slips, each used in place of the definition it is named after to
\* show that a property notices it.

FirstCompletedKeepsPending ==   \* the done futures stay in `pending`
  /\ mainAt = "wait"
  /\ batch' = {u \in pending : future[u] \in {"finished", "notified"}}
  /\ batch' # {}
  /\ slots' = 0
  /\ mainAt' = "drain"
  /\ UNCHANGED <<nextUnit, pending, current, reported, stopSubmitting, stopEvent, tempDir,
                 interrupts, exitCode, future, workerVars, childVars>>

ResumeAfterReportForgets ==   \* a later success clears stop_submitting
  /\ mainAt = "report"
  /\ stopSubmitting' = (FailFast /\ verdict[current] # "ok")
  /\ current' = NoUnit
  /\ mainAt' = "drain"
  /\ UNCHANGED <<nextUnit, pending, batch, slots, reported, stopEvent, tempDir,
                 interrupts, exitCode, future, workerVars, childVars>>

BatchDrainedWithoutRefill ==   \* freed slots are not resubmitted
  /\ mainAt = "drain" /\ batch = {}
  /\ mainAt' = "wait"
  /\ UNCHANGED <<nextUnit, pending, batch, current, slots, reported, stopSubmitting,
                 stopEvent, tempDir, interrupts, exitCode, future, workerVars, childVars>>

FinishWithoutJoin ==   \* shutdown(wait=False)
  /\ mainAt = "shutdown"
  /\ mainAt' = "exited"
  /\ tempDir' = FALSE
  /\ exitCode' = IF stopEvent THEN Interrupted
                 ELSE IF \E u \in reported : verdict[u] # "ok" THEN 1 ELSE 0
  /\ UNCHANGED <<nextUnit, pending, batch, current, slots, reported, stopSubmitting,
                 stopEvent, interrupts, future, workerVars, childVars>>

FinishIgnoresInterrupt ==   \* KeyboardInterrupt is not re-raised
  /\ mainAt = "shutdown"
  /\ \A u \in Units : future[u] # "running"
  /\ mainAt' = "exited"
  /\ tempDir' = FALSE
  /\ exitCode' = IF \E u \in reported : verdict[u] # "ok" THEN 1 ELSE 0
  /\ UNCHANGED <<nextUnit, pending, batch, current, slots, reported, stopSubmitting,
                 stopEvent, interrupts, future, workerVars, childVars>>

InterruptWithoutClose ==   \* the generator is not closed on KeyboardInterrupt
  /\ mainAt \in {"fill", "wait", "drain", "report"}
  /\ interrupts < MaxInterrupts
  /\ interrupts' = interrupts + 1
  /\ tempDir' = FALSE
  /\ exitCode' = Interrupted
  /\ mainAt' = "leave"
  /\ UNCHANGED <<nextUnit, pending, batch, current, slots, reported, stopSubmitting,
                 stopEvent, future, workerVars, childVars>>

InterruptOnlySetsEvent ==   \* a handler that sets the event and carries on
  /\ mainAt \in {"fill", "wait", "drain", "report"}
  /\ interrupts < MaxInterrupts
  /\ interrupts' = interrupts + 1
  /\ stopEvent' = TRUE
  /\ UNCHANGED <<mainAt, nextUnit, pending, batch, current, slots, reported,
                 stopSubmitting, tempDir, exitCode, future, workerVars, childVars>>

CheckStopIgnoresEvent(u) ==   \* only the deadline is looked at
  /\ workerAt[u] = "check"
  /\ workerAt' = [workerAt EXCEPT ![u] = IF overdue[u] THEN "term" ELSE "poll"]
  /\ reason' = [reason EXCEPT ![u] = IF overdue[u] THEN "timeout" ELSE @]
  /\ UNCHANGED <<mainVars, future, overdue, verdict, childVars>>

ChildReapedEarly(u) ==   \* no exit status yet is taken for success
  /\ workerAt[u] = "poll"
  /\ verdict' = [verdict EXCEPT ![u] = IF leader[u] = "bad" THEN "bad" ELSE "ok"]
  /\ workerAt' = [workerAt EXCEPT ![u] = "close"]
  /\ UNCHANGED <<mainVars, future, reason, overdue, childVars>>

EscalateWithoutKill(u) ==   \* SIGTERM only
  /\ leader[u] = "alive" /\ workerAt[u] = "term"
  /\ signalled' = [signalled EXCEPT ![u] = "term"]
  /\ workerAt' = [workerAt EXCEPT ![u] = "grace"]
  /\ UNCHANGED <<mainVars, future, reason, overdue, verdict, leader, helper>>

-----------------------------------------------------------------------------
\* The main thread: bounded_results and the loop that consumes it.

\* submit_next: the next unit becomes a queued future.
SubmitNext ==
  /\ mainAt = "fill"
  /\ slots > 0 /\ nextUnit \in Units
  /\ future' = [future EXCEPT ![nextUnit] = "queued"]
  /\ pending' = pending \cup {nextUnit}
  /\ nextUnit' = nextUnit + 1
  /\ slots' = slots - 1
  /\ UNCHANGED <<mainAt, batch, current, reported, stopSubmitting, stopEvent,
                 tempDir, interrupts, exitCode, workerVars, childVars>>

\* The submitting loop is over, or the iterator is exhausted.
Submitted ==
  /\ mainAt = "fill"
  /\ slots = 0 \/ nextUnit \notin Units
  /\ mainAt' = "wait"
  /\ UNCHANGED <<nextUnit, pending, batch, current, slots, reported, stopSubmitting,
                 stopEvent, tempDir, interrupts, exitCode, future, workerVars, childVars>>

Completed == {u \in pending : future[u] \in {"finished", "notified"}}

\* concurrent.futures.wait(..., FIRST_COMPLETED) splits pending in two.
FirstCompleted ==
  /\ mainAt = "wait"
  /\ Completed # {}
  /\ batch' = Completed
  /\ pending' = pending \ Completed
  /\ slots' = 0
  /\ mainAt' = "drain"
  /\ UNCHANGED <<nextUnit, current, reported, stopSubmitting, stopEvent, tempDir,
                 interrupts, exitCode, future, workerVars, childVars>>

\* `while pending` ends: the generator's finally clause shuts the pool down.
NothingPending ==
  /\ mainAt = "wait"
  /\ pending = {}
  /\ mainAt' = "shutdown"
  /\ UNCHANGED <<nextUnit, pending, batch, current, slots, reported, stopSubmitting,
                 stopEvent, tempDir, interrupts, exitCode, future, workerVars, childVars>>

\* `if future.cancelled(): continue`
SkipCancelled(u) ==
  /\ mainAt = "drain"
  /\ u \in batch /\ future[u] = "notified"
  /\ batch' = batch \ {u}
  /\ UNCHANGED <<mainAt, nextUnit, pending, current, slots, reported, stopSubmitting,
                 stopEvent, tempDir, interrupts, exitCode, future, workerVars, childVars>>

\* The result is yielded; main counts it before doing anything else.
YieldResult(u) ==
  /\ mainAt = "drain"
  /\ u \in batch /\ future[u] = "finished"
  /\ batch' = batch \ {u}
  /\ slots' = slots + 1
  /\ current' = u
  /\ reported' = reported \cup {u}
  /\ mainAt' = "report"
  /\ UNCHANGED <<nextUnit, pending, stopSubmitting, stopEvent, tempDir,
                 interrupts, exitCode, future, workerVars, childVars>>

\* main's loop body ends and the generator resumes after its yield.
ResumeAfterReport ==
  /\ mainAt = "report"
  /\ stopSubmitting' = (stopSubmitting \/ (FailFast /\ verdict[current] # "ok"))
  /\ current' = NoUnit
  /\ mainAt' = "drain"
  /\ UNCHANGED <<nextUnit, pending, batch, slots, reported, stopEvent, tempDir,
                 interrupts, exitCode, future, workerVars, childVars>>

\* Future.cancel succeeds on what no thread has picked up yet.
CancelQueued(us) ==
  [u \in Units |-> IF u \in us /\ future[u] = "queued" THEN "cancelled" ELSE future[u]]

\* After the batch: cancel what is pending, or refill one slot per result.
BatchDrained ==
  /\ mainAt = "drain"
  /\ batch = {}
  /\ IF stopSubmitting
       THEN mainAt' = "wait" /\ future' = CancelQueued(pending)
       ELSE mainAt' = "fill" /\ UNCHANGED future
  /\ UNCHANGED <<nextUnit, pending, batch, current, slots, reported, stopSubmitting,
                 stopEvent, tempDir, interrupts, exitCode, workerVars, childVars>>

NoRunningWorker == \A u \in Units : future[u] # "running"

\* The pool is down: temporary directory removed, summary, exit status.
Finish ==
  /\ mainAt = "shutdown"
  /\ NoRunningWorker
  /\ mainAt' = "exited"
  /\ tempDir' = FALSE
  /\ exitCode' = IF stopEvent THEN Interrupted
                 ELSE IF \E u \in reported : verdict[u] # "ok" THEN 1 ELSE 0
  /\ UNCHANGED <<nextUnit, pending, batch, current, slots, reported, stopSubmitting,
                 stopEvent, interrupts, future, workerVars, childVars>>

\* KeyboardInterrupt while the main thread is in the generator or in main's
\* loop body: either way an except clause is entered, with no result lost.
Interrupt ==
  /\ mainAt \in {"fill", "wait", "drain", "report"}
  /\ interrupts < MaxInterrupts
  /\ interrupts' = interrupts + 1
  /\ current' = NoUnit
  /\ mainAt' = "stop"
  /\ UNCHANGED <<nextUnit, pending, batch, slots, reported, stopSubmitting, stopEvent,
                 tempDir, exitCode, future, workerVars, childVars>>

\* `stop_event.set()`
SetStopEvent ==
  /\ mainAt = "stop"
  /\ stopEvent' = TRUE
  /\ mainAt' = "cancel"
  /\ UNCHANGED <<nextUnit, pending, batch, current, slots, reported, stopSubmitting,
                 tempDir, interrupts, exitCode, future, workerVars, childVars>>

\* Pending futures are cancelled, and executor.shutdown(cancel_futures=True)
\* empties the pool's queue before it waits for the threads.
CancelAll ==
  /\ mainAt = "cancel"
  /\ future' = CancelQueued(Units)
  /\ mainAt' = "shutdown"
  /\ UNCHANGED <<nextUnit, pending, batch, current, slots, reported, stopSubmitting,
                 stopEvent, tempDir, interrupts, exitCode, workerVars, childVars>>

\* Ctrl-C while shutdown(wait=True) joins the threads: main's handler sets the
\* event and main returns 130 with the temporary directory already removed.
InterruptShutdown ==
  /\ mainAt = "shutdown"
  /\ interrupts < MaxInterrupts
  /\ interrupts' = interrupts + 1
  /\ stopEvent' = TRUE
  /\ tempDir' = FALSE
  /\ exitCode' = Interrupted
  /\ mainAt' = "leave"
  /\ UNCHANGED <<nextUnit, pending, batch, current, slots, reported, stopSubmitting,
                 future, workerVars, childVars>>

\* copy_or_print_output raises an OSError other than FileNotFoundError: nothing
\* catches it, the generator is not closed and stop_event stays clear.
ReportFails ==
  /\ ReportFaults
  /\ mainAt = "report"
  /\ tempDir' = FALSE
  /\ exitCode' = 1
  /\ mainAt' = "leave"
  /\ UNCHANGED <<nextUnit, pending, batch, current, slots, reported, stopSubmitting,
                 stopEvent, interrupts, future, workerVars, childVars>>

\* The interpreter exits once the pool's threads have run out of work.
LeaveProcess ==
  /\ mainAt = "leave"
  /\ \A u \in Units : future[u] \notin {"queued", "running"}
  /\ mainAt' = "exited"
  /\ UNCHANGED <<nextUnit, pending, batch, current, slots, reported, stopSubmitting,
                 stopEvent, tempDir, interrupts, exitCode, future, workerVars, childVars>>

-----------------------------------------------------------------------------
\* The pool's threads.

BusyWorkers == {u \in Units : future[u] = "running"}

\* A thread of the pool is free, and u is at the head of its queue.
PoolTakes(u) ==
  /\ Cardinality(BusyWorkers) < Jobs
  /\ \A v \in Units : v < u => future[v] \notin {"queued", "cancelled"}

StartWork(u) ==
  /\ future[u] = "queued" /\ PoolTakes(u)
  /\ future' = [future EXCEPT ![u] = "running"]
  /\ workerAt' = [workerAt EXCEPT ![u] = "open"]
  /\ UNCHANGED <<mainVars, reason, overdue, verdict, childVars>>

\* A cancelled future counts as done only once a thread has dequeued it.
NotifyCancelled(u) ==
  /\ future[u] = "cancelled" /\ PoolTakes(u)
  /\ future' = [future EXCEPT ![u] = "notified"]
  /\ UNCHANGED <<mainVars, workerVars, childVars>>

\* The worker is about to return v for u.
Settle(u, v) ==
  /\ verdict' = [verdict EXCEPT ![u] = v]
  /\ workerAt' = [workerAt EXCEPT ![u] = "close"]

\* The output file is opened and the analyzer started in a session of its own.
Spawn(u) ==
  /\ workerAt[u] = "open"
  /\ tempDir
  /\ leader' = [leader EXCEPT ![u] = "alive"]
  /\ workerAt' = [workerAt EXCEPT ![u] = "check"]
  /\ UNCHANGED <<mainVars, future, reason, overdue, verdict, helper, signalled>>

\* Opening the file raises (an internal error), or Popen does (exit 127).
SpawnFails(u) ==
  /\ workerAt[u] = "open"
  /\ \/ (WorkerFaults \/ ~tempDir) /\ Settle(u, "internal")
     \/ WorkerFaults /\ tempDir /\ Settle(u, "notStarted")
  /\ UNCHANGED <<mainVars, future, reason, overdue, childVars>>

\* Top of the loop: the stop event is looked at before the deadline.
CheckStop(u) ==
  /\ workerAt[u] = "check"
  /\ IF stopEvent \/ overdue[u]
       THEN /\ workerAt' = [workerAt EXCEPT ![u] = "term"]
            /\ reason' = [reason EXCEPT ![u] = IF stopEvent THEN "interrupted" ELSE "timeout"]
       ELSE /\ workerAt' = [workerAt EXCEPT ![u] = "poll"]
            /\ UNCHANGED reason
  /\ UNCHANGED <<mainVars, future, overdue, verdict, childVars>>

Gone(u) == leader[u] \in {"ok", "bad"}

\* process.wait returns the analyzer's own exit status.
ChildReaped(u) ==
  /\ workerAt[u] = "poll"
  /\ Gone(u)
  /\ Settle(u, leader[u])
  /\ UNCHANGED <<mainVars, future, reason, overdue, childVars>>

PollExpires(u) ==
  /\ workerAt[u] = "poll"
  /\ ~Gone(u)
  /\ workerAt' = [workerAt EXCEPT ![u] = "check"]
  /\ UNCHANGED <<mainVars, future, reason, overdue, verdict, childVars>>

\* terminate_process_group returns as soon as the leader is gone, at every stage.
LeaderIsGone(u) ==
  /\ workerAt[u] \in {"term", "grace", "kill"}
  /\ Gone(u)
  /\ Settle(u, reason[u])
  /\ UNCHANGED <<mainVars, future, reason, overdue, childVars>>

\* SIGTERM to the group, then SIGKILL when the grace period is over.
Escalate(u) ==
  /\ ~Gone(u)
  /\ \/ /\ workerAt[u] = "term"
        /\ signalled' = [signalled EXCEPT ![u] = "term"]
        /\ workerAt' = [workerAt EXCEPT ![u] = "grace"]
     \/ /\ workerAt[u] = "grace"
        /\ signalled' = [signalled EXCEPT ![u] = "kill"]
        /\ workerAt' = [workerAt EXCEPT ![u] = "kill"]
  /\ UNCHANGED <<mainVars, future, reason, overdue, verdict, leader, helper>>

\* The worker returns; writing the note may still fail, which main's worker
\* wrapper turns into an internal error.
WorkerReturns(u) ==
  /\ workerAt[u] = "close"
  /\ workerAt' = [workerAt EXCEPT ![u] = "idle"]
  /\ future' = [future EXCEPT ![u] = "finished"]
  /\ \/ UNCHANGED verdict
     \/ /\ WorkerFaults /\ reason[u] # "none"
        /\ verdict' = [verdict EXCEPT ![u] = "internal"]
  /\ UNCHANGED <<mainVars, reason, overdue, childVars>>

\* The monotonic clock passes the deadline of a unit being waited for.
DeadlinePasses(u) ==
  /\ HasTimeout
  /\ workerAt[u] \in {"check", "poll"} /\ ~overdue[u]
  /\ overdue' = [overdue EXCEPT ![u] = TRUE]
  /\ UNCHANGED <<mainVars, future, workerAt, reason, verdict, childVars>>

-----------------------------------------------------------------------------
\* The analyzer's process group.

LeaderExits(u) ==
  /\ leader[u] = "alive"
  /\ \E status \in {"ok", "bad"} : leader' = [leader EXCEPT ![u] = status]
  /\ UNCHANGED <<mainVars, future, workerVars, helper, signalled>>

HelperStarts(u) ==
  /\ u \in Helpers
  /\ leader[u] = "alive" /\ helper[u] = "none" /\ signalled[u] = "none"
  /\ \E kind \in {"obedient", "deaf"} : helper' = [helper EXCEPT ![u] = kind]
  /\ UNCHANGED <<mainVars, future, workerVars, leader, signalled>>

HelperAlive(u) == helper[u] \in {"obedient", "deaf"}

HelperExits(u) ==
  /\ HelperAlive(u)
  /\ helper' = [helper EXCEPT ![u] = "gone"]
  /\ UNCHANGED <<mainVars, future, workerVars, leader, signalled>>

\* A helper that does not ignore SIGTERM dies of it.
HelperObeys(u) ==
  /\ signalled[u] = "term" /\ helper[u] = "obedient"
  /\ helper' = [helper EXCEPT ![u] = "gone"]
  /\ UNCHANGED <<mainVars, future, workerVars, leader, signalled>>

\* SIGKILL takes what is left of the group.
GroupKilled(u) ==
  /\ signalled[u] = "kill"
  /\ leader[u] = "alive" \/ HelperAlive(u)
  /\ leader' = [leader EXCEPT ![u] = IF @ = "alive" THEN "bad" ELSE @]
  /\ helper' = [helper EXCEPT ![u] = IF HelperAlive(u) THEN "gone" ELSE @]
  /\ UNCHANGED <<mainVars, future, workerVars, signalled>>

-----------------------------------------------------------------------------
MainStep ==
  \/ SubmitNext \/ Submitted
  \/ FirstCompleted \/ NothingPending
  \/ \E u \in Units : SkipCancelled(u) \/ YieldResult(u)
  \/ ResumeAfterReport \/ BatchDrained
  \/ SetStopEvent \/ CancelAll
  \/ Finish \/ LeaveProcess

WorkerStep(u) ==
  \/ StartWork(u) \/ NotifyCancelled(u)
  \/ Spawn(u) \/ SpawnFails(u)
  \/ CheckStop(u) \/ ChildReaped(u) \/ PollExpires(u)
  \/ LeaderIsGone(u) \/ Escalate(u) \/ WorkerReturns(u)

KernelStep(u) == HelperObeys(u) \/ GroupKilled(u)

ProcessStep(u) == LeaderExits(u) \/ HelperStarts(u) \/ HelperExits(u)

\* What may happen but need not.
Environment ==
  \/ Interrupt \/ InterruptShutdown \/ ReportFails
  \/ \E u \in Units : ProcessStep(u)

Terminated == mainAt = "exited" /\ UNCHANGED vars

Next ==
  \/ MainStep
  \/ \E u \in Units : WorkerStep(u) \/ DeadlinePasses(u) \/ KernelStep(u)
  \/ Environment
  \/ Terminated

SafetySpec == Init /\ [][Next]_vars

\* The main thread and the pool's threads are scheduled and the kernel delivers
\* signals; an analyzer need never exit by itself.
Fairness ==
  /\ WF_vars(MainStep)
  /\ \A u \in Units : WF_vars(WorkerStep(u)) /\ WF_vars(KernelStep(u))

Spec == SafetySpec /\ Fairness

-----------------------------------------------------------------------------
\* Properties.

\* Exit status 0 is a claim about every selected unit: each was reported, each
\* verdict is a zero exit status, and the analyzer that gave it really ended.
\* It rests on one freed slot being refilled per yielded result.
ExitZeroMeansAllPassed ==
  exitCode = 0 =>
    /\ reported = Units
    /\ \A u \in Units : verdict[u] = "ok" /\ leader[u] = "ok"

\* At most --jobs frontends are alive at any time, those being terminated
\* included: a worker returns only when its analyzer is gone.
BoundedFrontends == Cardinality({u \in Units : leader[u] = "alive"}) <= Jobs

\* No analyzer is alive once returnguard-project has exited, however it exits.
NoAnalyzerOutlivesRun == mainAt = "exited" => \A u \in Units : leader[u] # "alive"

\* The temporary output directory is removed only when no worker can still
\* open or write its log there.
OutputDirOutlivesWorkers == ~tempDir => NoRunningWorker

\* A unit cut short by Ctrl-C is never reported as if it had been analysed.
NoCutShortVerdictReported == \A u \in reported : verdict[u] # "interrupted"

\* --fail-fast lets running analyzers finish: one is signalled only when its
\* own deadline passed or the user pressed Ctrl-C.
SignalledForCause ==
  \A u \in Units : signalled[u] # "none" => overdue[u] \/ interrupts > 0

\* Under --fail-fast no unit is submitted once a failure has been reported and
\* the generator has resumed, whatever the results after it in the same batch.
FailFastStopsSubmitting ==
  [][FailFast /\ mainAt # "report" /\ (\E u \in reported : verdict[u] # "ok")
       => nextUnit' = nextUnit]_vars

\* The run has a --timeout and the clock advances: no unit is waited for forever
\* before its deadline.
DeadlinesPass ==
  HasTimeout /\ \A u \in Units : []<>(workerAt[u] \notin {"check", "poll"} \/ overdue[u])

\* With --timeout every run ends, even if no analyzer ever exits by itself.
EveryRunEnds == DeadlinesPass => <>(mainAt = "exited")

\* Ctrl-C ends the run without the help of a timeout or of the analyzers.
InterruptEndsRun == (interrupts > 0) ~> (mainAt = "exited")

\* Unless --fail-fast, Ctrl-C or a reporting error stops it, the run reports
\* every selected unit, whether or not its analyzer ever exits by itself.
EveryUnitIsReported ==
  DeadlinesPass => <>(reported = Units \/ stopSubmitting \/ interrupts > 0 \/ mainAt = "leave")

\* docs/large-projects.md: timeout and Ctrl-C cleanup "target the entire
\* ReturnGuard process group, so helper processes are not left running".
HelpersDoNotSurvive ==
  \A u \in Units : (verdict[u] \in {"timeout", "interrupted"}) ~> ~HelperAlive(u)

\* The driver implements what it promises its user.
Ending == mainAt \in {"stop", "cancel", "shutdown", "leave", "exited"}

UnitStatus(u) ==
  IF u \in reported THEN (IF verdict[u] = "ok" THEN "passed" ELSE "failed")
  ELSE IF u >= nextUnit THEN "waiting"
  ELSE IF Ending \/ future[u] \in {"cancelled", "notified"} THEN "abandoned"
  ELSE "active"

Contract == INSTANCE BatchContract WITH
  status <- [u \in Units |-> UnitStatus(u)],
  exit <- IF mainAt = "exited" THEN exitCode ELSE Running

\* Every step of the driver is a step of the contract or changes nothing in it.
ImplementsContract == Contract!Spec

-----------------------------------------------------------------------------
\* The inductive invariant behind the theorems of DriverProofs.

\* What a worker, its child and its future say of each other.
WorkerInv ==
  \A u \in Units :
    /\ (future[u] = "running") <=> (workerAt[u] # "idle")
    /\ future[u] \in {"none", "queued", "cancelled", "notified"} =>
         leader[u] = "none" /\ verdict[u] = "none" /\ reason[u] = "none"
    /\ workerAt[u] = "open" => leader[u] = "none" /\ reason[u] = "none"
    /\ workerAt[u] \in {"check", "poll"} => leader[u] # "none" /\ reason[u] = "none"
    /\ workerAt[u] \in {"term", "grace", "kill"} => leader[u] # "none" /\ reason[u] # "none"
    /\ leader[u] = "alive" =>
         workerAt[u] \in {"check", "poll", "term", "grace", "kill"}
    /\ (verdict[u] # "none") <=> (workerAt[u] = "close" \/ future[u] = "finished")
    /\ verdict[u] = "ok" => leader[u] = "ok"

\* Why a worker gave up on its analyzer.
CauseInv ==
  \A u \in Units :
    /\ reason[u] = "timeout" => overdue[u]
    /\ reason[u] = "interrupted" => stopEvent
    /\ verdict[u] = "interrupted" => reason[u] = "interrupted"
    /\ verdict[u] = "timeout" => reason[u] = "timeout"
    /\ signalled[u] # "none" => reason[u] # "none"

\* Every submitted unit is where the generator can still find it, or was
\* reported, or was cancelled for a reason.
AccountInv ==
  /\ \A u \in Units : (future[u] # "none") <=> (u < nextUnit)
  /\ \A u \in Units : future[u] # "none" =>
       u \in pending \cup batch \cup reported \/ future[u] = "notified"
  /\ \A u \in pending \cup batch \cup reported : future[u] # "none"
  /\ \A u \in batch : future[u] \in {"finished", "notified"}
  /\ \A u \in reported : future[u] = "finished"
  /\ \A u \in pending : u \notin batch /\ u \notin reported
  /\ \A u \in batch : u \notin reported
  /\ \A u \in Units : future[u] \in {"cancelled", "notified"} => stopSubmitting \/ stopEvent
  /\ current # NoUnit => current \in reported
  /\ mainAt = "report" => current # NoUnit

\* Where the main thread may be, given its flags.
PhaseInv ==
  /\ stopEvent => mainAt \in {"cancel", "shutdown", "leave", "exited"}
  /\ mainAt = "cancel" => stopEvent
  /\ stopEvent \/ mainAt = "stop" => interrupts > 0
  /\ mainAt = "fill" => ~stopSubmitting
  /\ stopSubmitting => \E u \in reported : verdict[u] # "ok"
  /\ mainAt \in {"fill", "wait"} => batch = {}
  /\ (exitCode # Running) <=> (mainAt \in {"leave", "exited"})
  /\ exitCode = 0 => mainAt = "exited"
  /\ tempDir <=> (mainAt \notin {"leave", "exited"})
  /\ mainAt = "shutdown" /\ stopEvent => \A u \in Units : future[u] # "queued"
  /\ mainAt = "exited" => \A u \in Units : future[u] \notin {"queued", "running"}

\* No slot is lost: unless told to stop, the generator waits for something as
\* long as there are units left, and gives up on nothing.
RefillInv ==
  ~stopSubmitting /\ nextUnit \in Units =>
    /\ mainAt = "fill" => slots > 0 \/ pending # {}
    /\ mainAt = "wait" => pending # {}
    /\ mainAt \in {"drain", "report"} =>
         slots > 0 \/ \E u \in batch : future[u] = "finished"
    /\ mainAt = "shutdown" => stopEvent
ShutdownInv == mainAt = "shutdown" /\ ~stopEvent => pending = {} /\ batch = {}

\* A reported failure is remembered for --fail-fast.
FailFastInv ==
  FailFast =>
    /\ mainAt \in {"fill", "wait", "drain"} /\ (\E u \in reported : verdict[u] # "ok")
         => stopSubmitting
    /\ mainAt = "report" /\ (\E u \in reported \ {current} : verdict[u] # "ok")
         => stopSubmitting

PoolInv == Cardinality(BusyWorkers) <= Jobs

IInv ==
  /\ TypeOK
  /\ WorkerInv /\ CauseInv
  /\ AccountInv /\ PhaseInv /\ RefillInv /\ ShutdownInv
  /\ FailFastInv /\ PoolInv
  /\ ExitZeroMeansAllPassed
=============================================================================
