---------------------------- MODULE AgentDispatch ----------------------------
(***************************************************************************)
(* One run of an agent: POST /agents/run writes a row and puts a job into  *)
(* the queue, a worker posts the job to the webhook of n8n and retries     *)
(* what fails, and n8n calls back with the outcome (AgentsService,         *)
(* AgentDispatchService, AgentDispatchWorker, AgentsCallbackHmacGuard).    *)
(*                                                                         *)
(* Requests, worker and callbacks run in one backend process, which may    *)
(* end at any time; the row (PostgreSQL), the job and the replay keys      *)
(* (Redis) survive it.  BullMQ and n8n are external: the queue retries a   *)
(* failed job until its attempts are used up, and takes up a job whose     *)
(* process has ended once; n8n may start a workflow and not be heard, and  *)
(* may deliver a report more than once, or never (it signs a report once,  *)
(* and the replay key lives as long as the signature is accepted).         *)
(***************************************************************************)
EXTENDS Integers, Sequences

CONSTANTS
  Attempts,   \* AGENT_DISPATCH_ATTEMPTS
  Delivery,   \* bound: deliveries of reports
  MaxCrashes  \* bound: ends of the process

ASSUME AttemptsAssumption == Attempts \in Nat \ {0}
ASSUME MaxCrashesAssumption == MaxCrashes \in Nat

VARIABLES
  status,      \* AgentRun.status ("none": no row)
  request,     \* what runAgent does next
  job,         \* the state of the job in the queue
  made,        \* its attemptsMade
  stalls,      \* how often it was taken up from a process that had ended
  worker,      \* what processJob does next
  handler,     \* what handleFailed does next
  dlq,         \* the job is in the dead letter queue
  posts,       \* history: requests sent to n8n
  executions,  \* workflows n8n has started: their outcomes
  keys,        \* those with a replay key of their report
  stage,       \* what the callback of a delivery does next
  of,          \* the execution it reports on
  crashes,     \* ends of the process so far
  history      \* history: what went wrong so far

queue == <<job, made, stalls>>
callbacks == <<keys, stage, of>>
dispatchVars == <<status, request, queue, worker, handler, dlq, posts, executions,
                  callbacks, crashes, history>>

Final == {"SUCCESS", "ERROR"}

DispatchInit ==
  /\ status = "none" /\ request = "idle"
  /\ job = "none" /\ made = 0 /\ stalls = 0
  /\ worker = "idle" /\ handler = "idle" /\ dlq = FALSE
  /\ posts = 0 /\ executions = <<>>
  /\ keys = {} /\ stage = [d \in Delivery |-> "idle"] /\ of = [d \in Delivery |-> 0]
  /\ crashes = 0 /\ history = {}

Remember(S) == history' = history \cup S

----------------------------------------------------------------------------
(* runAgent *)

CreateRow ==
  /\ request = "idle" /\ status = "none"
  /\ status' = "QUEUED" /\ request' = "enqueue"
  /\ UNCHANGED <<queue, worker, handler, dlq, posts, executions, callbacks,
                 crashes, history>>

\* The integration log is written outside of the try block.
LogFails ==
  /\ request = "enqueue" /\ request' = "done"
  /\ UNCHANGED <<status, queue, worker, handler, dlq, posts, executions,
                 callbacks, crashes, history>>

Enqueue ==
  /\ request = "enqueue" /\ request' = "done"
  /\ job' = "waiting"
  /\ UNCHANGED <<status, made, stalls, worker, handler, dlq, posts, executions,
                 callbacks, crashes, history>>

\* Redis does not answer; it may have added the job.
EnqueueFails ==
  /\ request = "enqueue" /\ request' = "error"
  /\ job' \in {"none", "waiting"}
  /\ Remember({"unqueued"})
  /\ UNCHANGED <<status, made, stalls, worker, handler, dlq, posts, executions,
                 callbacks, crashes>>

WriteUnqueued ==
  /\ request = "error" /\ request' = "done"
  /\ status' = "ERROR"
  /\ UNCHANGED <<queue, worker, handler, dlq, posts, executions, callbacks,
                 crashes, history>>

----------------------------------------------------------------------------
(* The worker *)

Take ==
  /\ job = "waiting" /\ job' = "active"
  /\ worker' = "post"
  /\ UNCHANGED <<status, request, made, stalls, handler, dlq, posts, executions,
                 callbacks, crashes, history>>

\* Fault: the attempt after the last is the final one.
IsFinalLate(m) == m > Attempts

\* Fault: every failed attempt is taken for the final one.
IsFinalAlways(m) == TRUE

IsFinal(m) == m >= Attempts

\* Fault: the attempts are taken for retries after the first one.
HasAttemptsLeftExtra(m) == m <= Attempts

\* The job's option "attempts".
HasAttemptsLeft(m) == m < Attempts

\* The attempt throws: the queue counts it and tries again, or gives up; the
\* handler of the event returns at once unless the attempt was the final one.
FailAttempt ==
  /\ made' = made + 1
  /\ job' = IF HasAttemptsLeft(made + 1) THEN "waiting" ELSE "failed"
  /\ worker' = "idle"
  /\ handler' = IF IsFinal(made + 1) THEN "error" ELSE "idle"

Started == Append(executions, "running")

\* n8n starts a workflow; its answer comes in time, or does not.
PostAccepted ==
  /\ worker = "post" /\ posts' = posts + 1
  /\ executions' = Started
  /\ \/ worker' = "update" /\ UNCHANGED history
     \/ worker' = "timeout" /\ Remember({"lost"})
  /\ UNCHANGED <<status, request, queue, handler, dlq, callbacks, crashes>>

\* n8n is not reached, or answers with an error.
PostRefused ==
  /\ worker = "post" /\ posts' = posts + 1
  /\ FailAttempt
  /\ UNCHANGED <<status, request, stalls, dlq, executions, callbacks, crashes,
                 history>>

TimeOut ==
  /\ worker = "timeout"
  /\ FailAttempt
  /\ UNCHANGED <<status, request, stalls, dlq, posts, executions, callbacks,
                 crashes, history>>

\* Whatever the status has become meanwhile.
WriteRunning ==
  /\ worker = "update" /\ worker' = "idle"
  /\ status' = "RUNNING" /\ job' = "done"
  /\ UNCHANGED <<request, made, stalls, handler, dlq, posts, executions,
                 callbacks, crashes, history>>

RunningFails ==
  /\ worker = "update"
  /\ FailAttempt
  /\ Remember({"lost"})
  /\ UNCHANGED <<status, request, stalls, dlq, posts, executions, callbacks, crashes>>

\* The queue finds an active job whose process has ended.  The second time it
\* fails; whether that counts as an attempt is left open.
Stall ==
  /\ job = "active" /\ worker = "idle"
  /\ IF stalls = 1
       THEN /\ job' = "failed" /\ made' \in {made, made + 1}
            /\ handler' = IF IsFinal(made') THEN "error" ELSE "idle"
            /\ Remember(IF IsFinal(made') THEN {} ELSE {"dropped"})
            /\ UNCHANGED stalls
       ELSE job' = "waiting" /\ stalls' = stalls + 1
            /\ UNCHANGED <<made, handler, history>>
  /\ UNCHANGED <<status, request, worker, dlq, posts, executions, callbacks, crashes>>

----------------------------------------------------------------------------
(* handleFailed, of the final attempt *)

WriteError ==
  /\ handler = "error" /\ handler' = "dlq"
  /\ \/ status' = "ERROR" /\ UNCHANGED history
     \/ UNCHANGED status /\ Remember({"dropped"})     \* the error is logged only
  /\ UNCHANGED <<request, queue, worker, dlq, posts, executions, callbacks, crashes>>

AddDlq ==
  /\ handler = "dlq" /\ handler' = "idle"
  /\ dlq' = TRUE
  /\ UNCHANGED <<status, request, queue, worker, posts, executions, callbacks,
                 crashes, history>>

DlqFails ==
  /\ handler = "dlq" /\ handler' = "idle"
  /\ Remember({"dropped"})
  /\ UNCHANGED <<status, request, queue, worker, dlq, posts, executions, callbacks,
                 crashes>>

----------------------------------------------------------------------------
(* n8n, and the callback: the guard, then the handler *)

Finish ==
  \E k \in DOMAIN executions, o \in Final :
    /\ executions[k] = "running"
    /\ executions' = [executions EXCEPT ![k] = o]
    /\ UNCHANGED <<status, request, queue, worker, handler, dlq, posts, callbacks,
                   crashes, history>>

\* A signature whose replay key is there is refused.
CheckReplayOf(d, k) ==
  /\ stage[d] = "idle" /\ executions[k] \in Final /\ k \notin keys
  /\ stage' = [stage EXCEPT ![d] = "checked"]
  /\ of' = [of EXCEPT ![d] = k]
  /\ Remember(IF \E e \in Delivery : stage[e] = "checked" /\ of[e] = k
            THEN {"overlap"} ELSE {})
  /\ UNCHANGED <<status, request, queue, worker, handler, dlq, posts, executions,
                 keys, crashes>>

CheckReplay(d) == \E k \in DOMAIN executions : CheckReplayOf(d, k)

\* Fault: the key is not set.
MarkedNot(k) == keys

Marked(k) == keys \cup {k}

MarkReplay(d) ==
  /\ stage[d] = "checked" /\ stage' = [stage EXCEPT ![d] = "marked"]
  /\ keys' = Marked(of[d])
  /\ UNCHANGED <<status, request, queue, worker, handler, dlq, posts, executions, of,
                 crashes, history>>

\* Written by id, whatever the status has become; the worker may still be about
\* to write RUNNING.
WriteReport(d) ==
  /\ stage[d] = "marked" /\ stage' = [stage EXCEPT ![d] = "written"]
  /\ status' = executions[of[d]]
  /\ Remember(IF worker = "update" THEN {"early"} ELSE {})
  /\ UNCHANGED <<request, queue, worker, handler, dlq, posts, executions, keys, of,
                 crashes>>

\* The guard or the handler fails.
ReportFails(d) ==
  /\ stage[d] \in {"checked", "marked"} /\ stage' = [stage EXCEPT ![d] = "failed"]
  /\ UNCHANGED <<status, request, queue, worker, handler, dlq, posts, executions, keys,
                 of, crashes, history>>

----------------------------------------------------------------------------
\* The process ends, and starts again.
ProcessEnds ==
  /\ crashes < MaxCrashes /\ crashes' = crashes + 1
  /\ request' = IF request = "idle" THEN "idle" ELSE "done"
  /\ worker' = "idle" /\ handler' = "idle"
  /\ stage' = [d \in Delivery |->
       IF stage[d] \in {"checked", "marked"} THEN "failed" ELSE stage[d]]
  /\ Remember((IF worker \in {"update", "timeout"} THEN {"lost"} ELSE {})
            \cup (IF handler # "idle" THEN {"dropped"} ELSE {}))
  /\ UNCHANGED <<status, queue, dlq, posts, executions, keys, of>>

\* Nothing is left to do.
Settled ==
  /\ request = "done" /\ worker = "idle" /\ handler = "idle"
  /\ job \in {"none", "failed", "done"}
  /\ UNCHANGED dispatchVars

Backend ==
  \/ CreateRow \/ LogFails \/ Enqueue \/ EnqueueFails \/ WriteUnqueued
  \/ Take \/ PostAccepted \/ PostRefused \/ TimeOut \/ WriteRunning \/ RunningFails
  \/ WriteError \/ AddDlq \/ DlqFails

Callback(d) == CheckReplay(d) \/ MarkReplay(d) \/ WriteReport(d) \/ ReportFails(d)

DispatchNext ==
  \/ Backend \/ Stall \/ Finish \/ ProcessEnds \/ Settled
  \/ \E d \in Delivery : Callback(d)

DispatchSpec == DispatchInit /\ [][DispatchNext]_dispatchVars

\* The process goes on with what it has begun, and the queue hands out its jobs;
\* n8n and the network owe nothing.
DispatchFairSpec == DispatchSpec /\ WF_dispatchVars(Backend) /\ WF_dispatchVars(Stall)

----------------------------------------------------------------------------
DispatchTypeOK ==
  /\ status \in {"none", "QUEUED", "RUNNING"} \cup Final
  /\ request \in {"idle", "enqueue", "error", "done"}
  /\ job \in {"none", "waiting", "active", "failed", "done"}
  /\ made \in 0 .. Attempts /\ stalls \in 0 .. 1
  /\ worker \in {"idle", "post", "update", "timeout"}
  /\ handler \in {"idle", "error", "dlq"} /\ dlq \in BOOLEAN
  /\ posts \in Nat /\ executions \in Seq(Final \cup {"running"})
  /\ keys \subseteq Nat
  /\ stage \in [Delivery -> {"idle", "checked", "marked", "written", "failed"}]
  /\ of \in [Delivery -> Nat]
  /\ crashes \in 0 .. MaxCrashes
  /\ history \subseteq {"unqueued", "lost", "dropped", "overlap", "early"}

\* n8n is called once more than there are attempts at most, however often the
\* process ends and whatever fails.
PostsBounded == posts <= Attempts + 1

\* A job that has failed is in the dead letter queue and its run has ended,
\* unless the process, a second stall or a failing store came between.
FailureIsReported ==
  job = "failed" /\ handler = "idle" /\ "dropped" \notin history =>
    dlq /\ status \in Final

\* A report is written once, unless two copies of it pass the look at the replay
\* key together.
ReportOnce ==
  "overlap" \notin history =>
    \A d, e \in Delivery :
      stage[d] = "written" /\ stage[e] = "written" /\ of[d] = of[e] => d = e

\* A run that has ended stays as it is: late answers, retries, restarts and
\* repeated reports do not change it.  What does: a second workflow, an answer of
\* n8n that was lost, a report that is faster than the answer, and a job that was
\* queued though the queue did not say so.
FinalIsKept ==
  [][Len(executions) <= 1 /\ history \cap {"lost", "early", "unqueued"} = {}
       /\ status \in Final => status' = status]_dispatchVars

\* A run whose job is in the queue does not stay QUEUED, though the process may
\* end in the middle of an attempt.
LeavesQueue ==
  job \in {"waiting", "active"} ~> (status # "QUEUED" \/ "dropped" \in history)

----------------------------------------------------------------------------
(* The inductive invariant *)

\* Nothing is queued before runAgent does so; only an active job has a worker,
\* only a failed one a handler.
JobAndWorker ==
  /\ request \in {"idle", "enqueue"} => job = "none"
  /\ worker # "idle" => job = "active"
  /\ handler # "idle" => job = "failed"
  /\ job \notin {"failed", "done"} => made < Attempts

\* An attempt that was not counted yet is in progress, or its process has ended.
PostsCounted ==
  /\ job \in {"none", "waiting"} \/ worker = "post" => posts <= made + stalls
  /\ job = "active" => posts <= made + stalls + 1
  /\ PostsBounded

Reporting ==
  job = "failed" /\ "dropped" \notin history =>
    /\ handler = "error" \/ status \in Final
    /\ handler = "idle" => dlq

\* A delivery under way reports on a workflow that has ended.
Delivering ==
  \A d \in Delivery : stage[d] # "idle" =>
    of[d] \in DOMAIN executions /\ executions[of[d]] \in Final

Passed(d) == stage[d] \in {"checked", "marked", "written"}

\* Of the deliveries that report on one workflow, one gets past the replay key.
OneDelivery ==
  /\ \A d \in Delivery : stage[d] \in {"marked", "written"} => of[d] \in keys
  /\ "overlap" \notin history =>
       \A d, e \in Delivery : Passed(d) /\ Passed(e) /\ of[d] = of[e] => d = e

Excused == Len(executions) > 1 \/ history \cap {"lost", "early", "unqueued"} # {}

\* While nothing excuses a change, the status follows the job step by step.
StatusFollowsJob ==
  ~Excused =>
    /\ request # "error" /\ worker # "timeout"
    /\ status = "none" <=> request = "idle"
    /\ job # "none" => request = "done"
    /\ job # "done" /\ worker # "update" => executions = <<>>
    /\ job \notin {"done", "failed"} => status \in {"none", "QUEUED"}
    /\ job = "failed" => status \in {"QUEUED", "ERROR"}
    /\ job = "done" /\ status # "RUNNING" =>
         executions # <<>> /\ status = executions[1] /\ status \in Final

DispatchIInv ==
  /\ DispatchTypeOK /\ JobAndWorker /\ PostsCounted /\ Reporting
  /\ Delivering /\ OneDelivery /\ StatusFollowsJob
=============================================================================
