------------------------------ MODULE AdapterProcess ------------------------------
(***************************************************************************)
(* One product adapter on one event loop: the scan tasks that share its     *)
(* semaphore, the payload file and the subprocess of each, and the          *)
(* executors that poll the job's cancel flag while a scan runs              *)
(* (_scan_with_cancellation).  Time is not modelled: a timer may fire       *)
(* whenever the await it bounds is still pending.                           *)
(*                                                                         *)
(* Task.cancel() leaves a pending CancelledError, which is what the task's  *)
(* next step takes; a second cancel() before that step changes nothing.     *)
(***************************************************************************)
EXTENDS Naturals, Sequences, SequencesExt, FiniteSets

CONSTANTS Scans,          \* scan tasks, one per _scan_with_cancellation call
          MaxConcurrency, \* the adapter's max_concurrency
          Disturbed       \* bound: the scans that may be refused at the start, lose their poll
                          \* or have their job cancelled; the others are only shut down

ASSUME AdapterAssumption == MaxConcurrency \in Nat \ {0} /\ Disturbed \subseteq Scans

VARIABLES scan,   \* frame of each scan task
          exec,   \* frame of each executor, inside _scan_with_cancellation
          proc,   \* the subprocess of each scan
          sig,    \* the strongest signal sent to it
          file,   \* its payload file
          queue,  \* scans waiting for the semaphore, in order
          free,   \* the semaphore's value
          flag,   \* scans whose job has cancel_requested
          down    \* the event loop is shutting down

vars == <<scan, exec, proc, sig, file, queue, free, flag, down>>

Outcomes == {"none", "returned", "CANCELLED", "ADAPTER_TIMEOUT", "ADAPTER_UNAVAILABLE",
             "PRODUCT_CLI_ERROR", "INTERNAL_ERROR"}

Verdicts == (Outcomes \ {"CANCELLED"}) \cup {"JobCancelledError", "CancelledError"}

Init ==
  /\ scan = [s \in Scans |-> [pc |-> "new", reason |-> "none", cancelling |-> FALSE,
                              outcome |-> "none"]]
  /\ exec = [s \in Scans |-> [pc |-> "poll", cancelling |-> FALSE, verdict |-> "none"]]
  /\ proc = [s \in Scans |-> "none"]
  /\ sig = [s \in Scans |-> "none"]
  /\ file = [s \in Scans |-> "none"]
  /\ queue = << >> /\ free = MaxConcurrency
  /\ flag = {} /\ down = FALSE

-----------------------------------------------------------------------------
(* JSONSubprocessAdapter.scan *)

At(s, pc) == scan[s].pc = pc /\ ~scan[s].cancelling

Ended(s) == scan[s].pc = "ended"

EndedAs(frame, outcome) ==
  [frame EXCEPT !.pc = "ended", !.outcome = outcome, !.cancelling = FALSE]

\* Leaving `async with self._semaphore`: the slot goes to the first waiter, or back.
Release(frames) ==
  IF queue = << >>
    THEN scan' = frames /\ free' = free + 1 /\ UNCHANGED queue
    ELSE /\ scan' = [frames EXCEPT ![Head(queue)].pc = "spawn"]
         /\ queue' = Tail(queue)
         /\ UNCHANGED free

\* Mutant: an error path that leaves without releasing the semaphore.
FinishKeepingSlot(s, outcome) ==
  /\ scan' = [scan EXCEPT ![s] = EndedAs(@, outcome)]
  /\ file' = [file EXCEPT ![s] = "none"]
  /\ UNCHANGED <<queue, free>>

\* Mutant: the payload file is removed only after a scan that did not time out.
FinishKeepingFile(s, outcome) ==
  /\ Release([scan EXCEPT ![s] = EndedAs(@, outcome)])
  /\ file' = [file EXCEPT ![s] = IF outcome = "ADAPTER_TIMEOUT" THEN @ ELSE "none"]

\* The end of a scan that holds a slot: the semaphore is released, then the file unlinked.
Finish(s, outcome) ==
  /\ Release([scan EXCEPT ![s] = EndedAs(@, outcome)])
  /\ file' = [file EXCEPT ![s] = "none"]

\* No CLI directory, or a payload over max_input_bytes: nothing was written yet.
Refuse(s, outcome) ==
  /\ s \in Disturbed /\ At(s, "new") /\ outcome \in {"ADAPTER_UNAVAILABLE", "PRODUCT_CLI_ERROR"}
  /\ scan' = [scan EXCEPT ![s] = EndedAs(@, outcome)]
  /\ UNCHANGED <<exec, proc, sig, file, queue, free, flag, down>>

\* _write_payload raises OSError in write(): delete=False leaves what was written.
WriteFails(s) ==
  /\ s \in Disturbed /\ At(s, "new")
  /\ scan' = [scan EXCEPT ![s] = EndedAs(@, "INTERNAL_ERROR")]
  /\ file' = [file EXCEPT ![s] = "partial"]
  /\ UNCHANGED <<exec, proc, sig, queue, free, flag, down>>

\* The payload is written and the semaphore acquired, or waited for.
Start(s) ==
  /\ At(s, "new")
  /\ file' = [file EXCEPT ![s] = "written"]
  /\ IF free > 0
       THEN /\ free' = free - 1
            /\ scan' = [scan EXCEPT ![s].pc = "spawn"]
            /\ UNCHANGED queue
       ELSE /\ queue' = Append(queue, s)
            /\ scan' = [scan EXCEPT ![s].pc = "queued"]
            /\ UNCHANGED free
  /\ UNCHANGED <<exec, proc, sig, flag, down>>

SpawnFails(s) ==
  /\ At(s, "spawn")
  /\ Finish(s, "ADAPTER_UNAVAILABLE")
  /\ UNCHANGED <<exec, proc, sig, flag, down>>

Spawn(s) ==
  /\ At(s, "spawn")
  /\ proc' = [proc EXCEPT ![s] = "alive"]
  /\ scan' = [scan EXCEPT ![s].pc = "communicate"]
  /\ UNCHANGED <<exec, sig, file, queue, free, flag, down>>

\* communicate() returned: exit code, size limit, JSON and Finding.from_dict decide.
Collect(s, outcome) ==
  /\ At(s, "communicate") /\ proc[s] = "exited"
  /\ outcome \in {"returned", "PRODUCT_CLI_ERROR", "INTERNAL_ERROR"}
  /\ Finish(s, outcome)
  /\ UNCHANGED <<exec, proc, sig, flag, down>>

-----------------------------------------------------------------------------
(* _stop_process *)

StoppedAs(reason) == IF reason = "timeout" THEN "ADAPTER_TIMEOUT" ELSE "CANCELLED"

\* Nothing to stop after an exit, else terminate() and the wait for the grace period.
StopProcess(s, reason) ==
  \/ /\ proc[s] = "exited"
     /\ Finish(s, StoppedAs(reason))
     /\ UNCHANGED sig
  \/ /\ proc[s] = "alive"
     /\ sig' = [sig EXCEPT ![s] = "term"]
     /\ scan' = [scan EXCEPT ![s].pc = "grace", ![s].reason = reason, ![s].cancelling = FALSE]
     /\ UNCHANGED <<file, queue, free>>

\* Mutant: the timeout is raised without stopping the process.
TimeoutLeavesProcess(s) ==
  /\ At(s, "communicate")
  /\ Finish(s, "ADAPTER_TIMEOUT")
  /\ UNCHANGED <<exec, proc, sig, flag, down>>

\* wait_for(communicate()) times out, also when the process exited in the same turn.
Timeout(s) ==
  /\ At(s, "communicate")
  /\ StopProcess(s, "timeout")
  /\ UNCHANGED <<exec, proc, flag, down>>

\* Mutant: the wait after terminate() has no limit.
GraceNeverEnds(s) == FALSE /\ UNCHANGED vars

GraceEnds(s) ==
  /\ At(s, "grace") /\ proc[s] = "alive"
  /\ sig' = [sig EXCEPT ![s] = "kill"]
  /\ scan' = [scan EXCEPT ![s].pc = "kill"]
  /\ UNCHANGED <<exec, proc, file, queue, free, flag, down>>

\* Mutant: what the process wrote before it stopped is taken as its answer.
StoppedReturnsOutput(s) ==
  /\ At(s, "grace") \/ At(s, "kill")
  /\ proc[s] = "exited"
  /\ Finish(s, "returned")
  /\ UNCHANGED <<exec, proc, sig, flag, down>>

\* wait() returned, in the grace period or after kill(): the scan's error is raised.
Stopped(s) ==
  /\ At(s, "grace") \/ At(s, "kill")
  /\ proc[s] = "exited"
  /\ Finish(s, StoppedAs(scan[s].reason))
  /\ UNCHANGED <<exec, proc, sig, flag, down>>

\* The scan task takes the CancelledError pending on it: before its first step, in the
\* semaphore's queue, in create_subprocess_exec (which then kills what it started), in
\* communicate(), and in either wait of _stop_process, where no handler is left to catch it.
TakeCancel(s) ==
  /\ scan[s].cancelling
  /\ \/ /\ scan[s].pc \in {"new", "queued"}
        /\ scan' = [scan EXCEPT ![s] = EndedAs(@, "CANCELLED")]
        /\ file' = [file EXCEPT ![s] = "none"]
        /\ UNCHANGED <<sig, queue, free>>
     \/ scan[s].pc = "communicate" /\ StopProcess(s, "cancel")
     \/ /\ scan[s].pc \in {"spawn", "grace", "kill"}
        /\ Finish(s, "CANCELLED")
        /\ UNCHANGED sig
  /\ UNCHANGED <<exec, proc, flag, down>>

-----------------------------------------------------------------------------
(* JobExecutor._scan_with_cancellation *)

Return(s, verdict) ==
  exec' = [exec EXCEPT ![s] = [pc |-> "done", cancelling |-> FALSE, verdict |-> verdict]]

\* task.cancel() on a scan that runs still: its future leaves the semaphore's queue.
CancelTask(s) ==
  /\ scan' = [scan EXCEPT ![s].cancelling = TRUE]
  /\ queue' = RemoveFirst(queue, s)

\* What awaiting a scan task that was cancelled raises: only CancelledError is swallowed.
AwaitedAs(outcome) ==
  IF outcome \in {"returned", "CANCELLED"} THEN "JobCancelledError" ELSE outcome

\* Mutant: the loop returns what the scan found without looking at the flag again.
PollDoneUnchecked(s) ==
  /\ exec[s].pc = "poll" /\ ~exec[s].cancelling /\ Ended(s)
  /\ Return(s, scan[s].outcome)
  /\ UNCHANGED <<scan, proc, sig, file, queue, free, flag, down>>

PollDone(s) ==
  /\ exec[s].pc = "poll" /\ ~exec[s].cancelling /\ Ended(s) /\ s \notin flag
  /\ Return(s, scan[s].outcome)
  /\ UNCHANGED <<scan, proc, sig, file, queue, free, flag, down>>

PollCancel(s) ==
  /\ exec[s].pc = "poll" /\ ~exec[s].cancelling /\ s \in flag
  /\ IF Ended(s)
       THEN Return(s, AwaitedAs(scan[s].outcome)) /\ UNCHANGED <<scan, queue>>
       ELSE CancelTask(s) /\ exec' = [exec EXCEPT ![s].pc = "await"]
  /\ UNCHANGED <<proc, sig, file, free, flag, down>>

\* repository.get raises in the loop: no handler cancels the scan task, which runs on.
PollFails(s) ==
  /\ s \in Disturbed /\ exec[s].pc = "poll" /\ ~exec[s].cancelling
  /\ Return(s, "INTERNAL_ERROR")
  /\ UNCHANGED <<scan, proc, sig, file, queue, free, flag, down>>

\* The awaited scan has ended; a CancelledError pending on the executor is swallowed too.
AwaitEnds(s) ==
  /\ exec[s].pc = "await" /\ Ended(s)
  /\ Return(s, IF exec[s].cancelling THEN "JobCancelledError" ELSE AwaitedAs(scan[s].outcome))
  /\ UNCHANGED <<scan, proc, sig, file, queue, free, flag, down>>

\* except asyncio.CancelledError: an unfinished scan is cancelled and awaited first.
TakeInterrupt(s) ==
  /\ exec[s].pc = "poll" /\ exec[s].cancelling
  /\ IF Ended(s)
       THEN Return(s, "CancelledError") /\ UNCHANGED <<scan, queue>>
       ELSE /\ CancelTask(s)
            /\ exec' = [exec EXCEPT ![s].pc = "reraise", ![s].cancelling = FALSE]
  /\ UNCHANGED <<proc, sig, file, free, flag, down>>

Reraise(s) ==
  /\ exec[s].pc = "reraise" /\ Ended(s)
  /\ Return(s, "CancelledError")
  /\ UNCHANGED <<scan, proc, sig, file, queue, free, flag, down>>

-----------------------------------------------------------------------------
(* The environment *)

RequestCancel(s) ==
  /\ s \in Disturbed \ flag /\ exec[s].pc # "done"
  /\ flag' = flag \cup {s}
  /\ UNCHANGED <<scan, exec, proc, sig, file, queue, free, down>>

\* The product's process ends by itself or by a signal; it may ignore terminate().
Exit(s) ==
  /\ proc[s] = "alive"
  /\ proc' = [proc EXCEPT ![s] = "exited"]
  /\ UNCHANGED <<scan, exec, sig, file, queue, free, flag, down>>

\* asyncio.run cancels every task that is left, executors and scans alike.  An executor
\* that awaits a running scan passes its own cancellation on to the scan.
Shutdown ==
  /\ ~down /\ down' = TRUE
  /\ scan' = [s \in Scans |-> [scan[s] EXCEPT !.cancelling = ~Ended(s)]]
  /\ queue' = << >>
  /\ exec' = [s \in Scans |->
                [exec[s] EXCEPT !.cancelling =
                   exec[s].pc = "poll" \/ (exec[s].pc = "await" /\ Ended(s))]]
  /\ UNCHANGED <<proc, sig, file, free, flag>>

ScanStep(s) ==
  \/ \E o \in Outcomes : Refuse(s, o) \/ Collect(s, o)
  \/ WriteFails(s) \/ Start(s) \/ SpawnFails(s) \/ Spawn(s)
  \/ Timeout(s) \/ GraceEnds(s) \/ Stopped(s) \/ TakeCancel(s)

ExecStep(s) ==
  PollDone(s) \/ PollCancel(s) \/ AwaitEnds(s) \/ TakeInterrupt(s) \/ Reraise(s)

Next ==
  \/ \E s \in Scans : \/ ScanStep(s) \/ ExecStep(s) \/ PollFails(s)
                      \/ RequestCancel(s) \/ Exit(s)
  \/ Shutdown

Spec == Init /\ [][Next]_vars

\* The loop runs every task that can run, timers fire, and a process that got SIGKILL
\* ends; nothing makes a process end by itself or on SIGTERM.
Fairness ==
  \A s \in Scans : /\ WF_vars(ScanStep(s))
                   /\ WF_vars(ExecStep(s))
                   /\ WF_vars(sig[s] = "kill" /\ Exit(s))

FairSpec == Spec /\ Fairness

-----------------------------------------------------------------------------

Holding == {"spawn", "communicate", "grace", "kill"}

\* Every frame, signal, file and counter keeps its shape, and the queue holds each waiting
\* scan once.
TypeOK ==
  /\ scan \in [Scans -> [pc : {"new", "queued", "ended"} \cup Holding,
                         reason : {"none", "timeout", "cancel"}, cancelling : BOOLEAN,
                         outcome : Outcomes]]
  /\ exec \in [Scans -> [pc : {"poll", "await", "reraise", "done"}, cancelling : BOOLEAN,
                         verdict : Verdicts]]
  /\ proc \in [Scans -> {"none", "alive", "exited"}]
  /\ sig \in [Scans -> {"none", "term", "kill"}]
  /\ file \in [Scans -> {"none", "written", "partial"}]
  /\ queue \in Seq(Scans)
  /\ \A i, j \in 1..Len(queue) : queue[i] = queue[j] => i = j
  /\ {queue[i] : i \in 1..Len(queue)} =
       {s \in Scans : scan[s].pc = "queued" /\ ~scan[s].cancelling}
  /\ free \in 0..MaxConcurrency
  /\ flag \subseteq Scans /\ down \in BOOLEAN

\* max_concurrency: however scans time out, are cancelled in the queue, while starting or
\* while stopping, no slot is lost or given twice and none is free while a scan waits for
\* it, so no more processes run unsignalled than the adapter allows.
SlotsConserved ==
  /\ free + Cardinality({s \in Scans : scan[s].pc \in Holding}) = MaxConcurrency
  /\ queue # << >> => free = 0
  /\ Cardinality({s \in Scans : proc[s] = "alive" /\ sig[s] = "none"}) <= MaxConcurrency

\* The worker reads its input file some time after it is started: the file is there as long
\* as a process that nobody stopped may read it, and no ended scan leaves a written one
\* behind (a payload whose write failed is left, by _write_payload).
PayloadLives ==
  \A s \in Scans :
    /\ proc[s] = "alive" /\ sig[s] = "none" => file[s] = "written"
    /\ Ended(s) => file[s] # "written"

\* docs/architecture.md has every job end in a graceful termination and then a forced one.
\* A scan that has ended leaves a live process only in one way: it was cancelled while
\* _stop_process was already waiting, after a timeout or at shutdown, and the process has
\* been signalled.  A reported timeout or a single cancellation always saw it exit.
OrphansAreExplained ==
  \A s \in Scans : Ended(s) /\ proc[s] = "alive" =>
    /\ sig[s] # "none" /\ scan[s].outcome = "CANCELLED"
    /\ scan[s].reason = "timeout" \/ down

\* Findings come only from a process that ended by itself: an answer that arrives with the
\* timeout or after a signal is dropped.  And an executor that is done leaves no scan
\* running, except after an error of the poll itself, which ends the job as INTERNAL_ERROR
\* while the scan task still holds its slot.
VerdictIsHonest ==
  \A s \in Scans :
    /\ "returned" \in {scan[s].outcome, exec[s].verdict} => proc[s] = "exited" /\ sig[s] = "none"
    /\ exec[s].pc = "done" /\ ~Ended(s) => exec[s].verdict = "INTERNAL_ERROR"

\* Every scan ends and gives its slot back, and its executor gets an answer, though the
\* process may ignore SIGTERM and never end by itself: each await of a scan has a timer, a
\* slot that will be released, or follows SIGKILL.
ScansEnd == \A s \in Scans : <>(Ended(s) /\ exec[s].pc = "done")

\* The executor's view: what JobLifecycle assumes of a scan is what this adapter provides.
CallOf(frame) == CASE frame.pc = "poll" -> "scan"
                   [] frame.pc = "await" -> "teardown"
                   [] frame.pc = "reraise" -> "interrupted"
                   [] frame.pc = "done" -> frame.verdict

calls == [s \in Scans |-> CallOf(exec[s])]

Call == INSTANCE ScanCall WITH call <- calls

\* _scan_with_cancellation returns findings only if its last poll saw no request, raises
\* JobCancelledError only for a request, and passes an interruption on.
ImplementsScanCall == Call!ScanCallSpec

=============================================================================
