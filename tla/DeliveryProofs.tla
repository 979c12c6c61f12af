--------------------------- MODULE DeliveryProofs ---------------------------
(***************************************************************************)
(* Proofs about three parts of the backend whose calls are repeated and    *)
(* overlap.  First Idempotency, for any set of requests, any set of bodies *)
(* and any number of polls; then AgentDispatch, for any number of          *)
(* attempts, deliveries and ends of the process; last Transfers, for any   *)
(* set of calls, any statement lines and cash, and any number of payouts   *)
(* and runs.                                                               *)
(***************************************************************************)
EXTENDS Idempotency, AgentDispatch, Transfers, SumLemmas

----------------------------------------------------------------------------
(* Requests with a key *)

\* Typing is preserved by every step; the number of polls is bounded because a
\* request that is still polling has one left.
LEMMA TypeStep == TypeOK /\ LookLeft /\ [Next]_vars => TypeOK' /\ LookLeft'
<1> SUFFICES ASSUME TypeOK, LookLeft, [Next]_vars PROVE TypeOK' /\ LookLeft'
  OBVIOUS
<1> USE PollsAssumption, NoneAssumption
    DEF TypeOK, LookLeft, PC, InFlight, Critical, Answered, Fault
<1>1. ASSUME NEW q \in Req, Arrive(q) PROVE TypeOK' /\ LookLeft'
  BY <1>1 DEF Arrive, Goto, Note
<1>2. ASSUME NEW q \in Req, LookUp(q) PROVE TypeOK' /\ LookLeft'
  BY <1>2 DEF LookUp, Replay, Goto, Note, Redis
<1>3. ASSUME NEW q \in Req, Acquire(q) PROVE TypeOK' /\ LookLeft'
  BY <1>3 DEF Acquire, Goto, Note, Redis
<1>4. ASSUME NEW q \in Req, Poll(q) PROVE TypeOK' /\ LookLeft'
  BY <1>4 DEF Poll, Replay, Goto, Note, Redis, PollsAfter, GivesUp
<1>5. ASSUME NEW q \in Req, Handle(q) PROVE TypeOK' /\ LookLeft'
  BY <1>5 DEF Handle, Goto
<1>6. ASSUME NEW q \in Req, Store(q) PROVE TypeOK' /\ LookLeft'
  BY <1>6 DEF Store, Goto, Note, Redis, Cached
<1>7. ASSUME NEW q \in Req, Unlock(q) PROVE TypeOK' /\ LookLeft'
  BY <1>7 DEF Unlock, Goto, Note, Redis
<1>8. ASSUME NEW q \in Req, Crash(q) PROVE TypeOK' /\ LookLeft'
  BY <1>8 DEF Crash, Goto, Note
<1>9. CASE LockExpires
  BY <1>9 DEF LockExpires, Note
<1>10. CASE CacheExpires
  BY <1>10 DEF CacheExpires, Note
<1>11. CASE Quiescent \/ UNCHANGED vars
  BY <1>11 DEF Quiescent, vars
<1> QED
  BY <1>1, <1>2, <1>3, <1>4, <1>5, <1>6, <1>7, <1>8, <1>9, <1>10, <1>11
  DEF Next, Step

\* The history of faults only grows.
LEMMA FaultsGrow == [Next]_vars => faults \subseteq faults'
BY DEF Next, Step, Arrive, LookUp, Acquire, Poll, Handle, Store, Unlock, Crash,
       LockExpires, CacheExpires, Quiescent, vars, Note, Redis

\* While no lock has expired under its owner, whoever is in the handler owns
\* the lock: a release only ever deletes the releaser's own lock.
LEMMA LockStep ==
  TypeOK /\ LockIsOwned /\ [Next]_vars => LockIsOwned'
<1> SUFFICES ASSUME TypeOK, LockIsOwned, [Next]_vars, "lockExpired" \notin faults',
                    NEW r \in Req, pc'[r] \in Critical
             PROVE  lock' = r
  BY DEF LockIsOwned
<1>0. /\ "lockExpired" \notin faults
      /\ \A q \in Req : pc[q] \in Critical => lock = q
  BY FaultsGrow DEF LockIsOwned
<1> USE NoneAssumption DEF TypeOK, Critical
<1>1. ASSUME NEW q \in Req, Arrive(q) PROVE lock' = r
  BY <1>0, <1>1 DEF Arrive, Goto
<1>2. ASSUME NEW q \in Req, LookUp(q) PROVE lock' = r
  BY <1>0, <1>2 DEF LookUp, Replay, Goto
<1>3. ASSUME NEW q \in Req, Acquire(q) PROVE lock' = r
  BY <1>0, <1>3 DEF Acquire, Goto, LockIsFree
<1>4. ASSUME NEW q \in Req, Poll(q) PROVE lock' = r
  BY <1>0, <1>4 DEF Poll, Replay, Goto
<1>5. ASSUME NEW q \in Req, Handle(q) PROVE lock' = r
  BY <1>0, <1>5 DEF Handle, Goto
<1>6. ASSUME NEW q \in Req, Store(q) PROVE lock' = r
  BY <1>0, <1>6 DEF Store, Goto
<1>7. ASSUME NEW q \in Req, Unlock(q) PROVE lock' = r
  BY <1>0, <1>7 DEF Unlock, Goto
<1>8. ASSUME NEW q \in Req, Crash(q) PROVE lock' = r
  BY <1>0, <1>8 DEF Crash, Goto
<1>9. CASE LockExpires
  BY <1>0, <1>9 DEF LockExpires, Note
<1>10. CASE CacheExpires
  BY <1>0, <1>10 DEF CacheExpires
<1>11. CASE Quiescent \/ UNCHANGED vars
  BY <1>0, <1>11 DEF Quiescent, vars
<1> QED
  BY <1>1, <1>2, <1>3, <1>4, <1>5, <1>6, <1>7, <1>8, <1>9, <1>10, <1>11
  DEF Next, Step

\* Without overlap, one request is in flight at a time.
LEMMA FlightStep ==
  TypeOK /\ OneInFlight /\ [Next]_vars => OneInFlight'
<1> SUFFICES ASSUME TypeOK, OneInFlight, [Next]_vars, "overlap" \notin faults',
                    NEW a \in Req, NEW b \in Req,
                    pc'[a] \in InFlight, pc'[b] \in InFlight
             PROVE  a = b
  BY DEF OneInFlight
<1>0. \A p, q \in Req : pc[p] \in InFlight /\ pc[q] \in InFlight => p = q
  BY FaultsGrow DEF OneInFlight
<1> USE DEF TypeOK, InFlight, Critical
<1>1. ASSUME NEW q \in Req, Arrive(q) PROVE a = b
  BY <1>0, <1>1 DEF Arrive, Goto, Note
<1>2. ASSUME NEW q \in Req, LookUp(q) PROVE a = b
  BY <1>0, <1>2 DEF LookUp, Replay, Goto
<1>3. ASSUME NEW q \in Req, Acquire(q) PROVE a = b
  BY <1>0, <1>3 DEF Acquire, Goto
<1>4. ASSUME NEW q \in Req, Poll(q) PROVE a = b
  BY <1>0, <1>4 DEF Poll, Replay, Goto
<1>5. ASSUME NEW q \in Req, Handle(q) PROVE a = b
  BY <1>0, <1>5 DEF Handle, Goto
<1>6. ASSUME NEW q \in Req, Store(q) PROVE a = b
  BY <1>0, <1>6 DEF Store, Goto
<1>7. ASSUME NEW q \in Req, Unlock(q) PROVE a = b
  BY <1>0, <1>7 DEF Unlock, Goto
<1>8. ASSUME NEW q \in Req, Crash(q) PROVE a = b
  BY <1>0, <1>8 DEF Crash, Goto
<1>9. CASE LockExpires \/ CacheExpires \/ Quiescent \/ UNCHANGED vars
  BY <1>0, <1>9 DEF LockExpires, CacheExpires, Quiescent, vars
<1> QED
  BY <1>1, <1>2, <1>3, <1>4, <1>5, <1>6, <1>7, <1>8, <1>9 DEF Next, Step

\* What is cached was committed, and nobody gets a response for another body.
LEMMA ReplayStep ==
  TypeOK /\ CachedHasEffect /\ BodyChecked /\ [Next]_vars
    => CachedHasEffect' /\ BodyChecked'
<1> SUFFICES ASSUME TypeOK, CachedHasEffect, BodyChecked, [Next]_vars
             PROVE  CachedHasEffect' /\ BodyChecked'
  OBVIOUS
<1> USE NoneAssumption DEF TypeOK, CachedHasEffect, BodyChecked
<1>1. ASSUME NEW q \in Req, Arrive(q) PROVE CachedHasEffect' /\ BodyChecked'
  BY <1>1 DEF Arrive, Goto
<1>2. ASSUME NEW q \in Req, LookUp(q) PROVE CachedHasEffect' /\ BodyChecked'
  BY <1>2 DEF LookUp, Replay, SameBody, Goto
<1>3. ASSUME NEW q \in Req, Acquire(q) PROVE CachedHasEffect' /\ BodyChecked'
  BY <1>3 DEF Acquire, Goto
<1>4. ASSUME NEW q \in Req, Poll(q) PROVE CachedHasEffect' /\ BodyChecked'
  BY <1>4 DEF Poll, Replay, SameBody, Goto
<1>5. ASSUME NEW q \in Req, Handle(q) PROVE CachedHasEffect' /\ BodyChecked'
  BY <1>5 DEF Handle, Goto
<1>6. ASSUME NEW q \in Req, Store(q) PROVE CachedHasEffect' /\ BodyChecked'
  BY <1>6 DEF Store, Cached, Goto
<1>7. ASSUME NEW q \in Req, Unlock(q) PROVE CachedHasEffect' /\ BodyChecked'
  BY <1>7 DEF Unlock, Goto
<1>8. ASSUME NEW q \in Req, Crash(q) PROVE CachedHasEffect' /\ BodyChecked'
  BY <1>8 DEF Crash, Goto
<1>9. CASE LockExpires \/ CacheExpires \/ Quiescent \/ UNCHANGED vars
  BY <1>9 DEF LockExpires, CacheExpires, Quiescent, vars
<1> QED
  BY <1>1, <1>2, <1>3, <1>4, <1>5, <1>6, <1>7, <1>8, <1>9 DEF Next, Step

\* Between requests that do not overlap, the one that has committed is about
\* to cache its response or has done so; the next one finds it there.
LEMMA EffectStep ==
  /\ TypeOK /\ OneInFlight /\ EffectIsCached /\ OnceIfSerial
  /\ CachedHasEffect /\ [Next]_vars
  => EffectIsCached' /\ OnceIfSerial'
<1> SUFFICES ASSUME TypeOK, OneInFlight, EffectIsCached, OnceIfSerial,
                    CachedHasEffect, [Next]_vars,
                    faults' \subseteq {"lockExpired"}
             PROVE  /\ \A e \in effects' : pc'[e] = "store" \/ cache' = e
                    /\ effects' # {} => \A q \in Req :
                         pc'[q] \notin {"acquire", "poll", "handler"}
                    /\ \A p, q \in effects' : p = q
  BY DEF EffectIsCached, OnceIfSerial
<1> DEFINE Goal == /\ \A e \in effects' : pc'[e] = "store" \/ cache' = e
                   /\ effects' # {} => \A q \in Req :
                        pc'[q] \notin {"acquire", "poll", "handler"}
                   /\ \A p, q \in effects' : p = q
<1>a. /\ \A e \in effects : pc[e] = "store" \/ cache = e
      /\ effects # {} => \A q \in Req : pc[q] \notin {"acquire", "poll", "handler"}
      /\ \A p, q \in effects : p = q
  BY FaultsGrow DEF EffectIsCached, OnceIfSerial
<1>b. \A p, q \in Req : pc[p] \in InFlight /\ pc[q] \in InFlight => p = q
  BY FaultsGrow DEF OneInFlight
<1> USE NoneAssumption DEF TypeOK
<1>1. ASSUME NEW q \in Req, Arrive(q) PROVE Goal
  BY <1>a, <1>1 DEF Arrive, Goto
<1>2. ASSUME NEW q \in Req, LookUp(q) PROVE Goal
  <2>1. \A e \in effects : cache = e
    BY <1>a, <1>b, <1>2 DEF LookUp, InFlight, Critical
  <2>2. effects # {} => cache # None
    BY <2>1
  <2>3. effects # {} => Replay(q)
    BY <1>2, <2>2 DEF LookUp, Redis, Note
  <2>4. cache' = cache /\ effects' = effects
    BY <1>2 DEF LookUp
  <2>5. effects # {} => \A r \in Req : pc'[r] \notin {"acquire", "poll", "handler"}
    BY <1>a, <2>3 DEF Replay, Goto
  <2> QED BY <1>a, <2>1, <2>4, <2>5
<1>3. ASSUME NEW q \in Req, Acquire(q) PROVE Goal
  BY <1>a, <1>3 DEF Acquire, Goto
<1>4. ASSUME NEW q \in Req, Poll(q) PROVE Goal
  BY <1>a, <1>4 DEF Poll, Goto
<1>5. ASSUME NEW q \in Req, Handle(q) PROVE Goal
  <2>1. effects = {} /\ effects' \subseteq {q} /\ cache' = cache
    BY <1>a, <1>5 DEF Handle
  <2>2. effects' # {} => pc' = [pc EXCEPT ![q] = "store"]
    BY <1>5, <2>1 DEF Handle, Goto
  <2>3. \A r \in Req : r # q => pc[r] \notin InFlight
    BY <1>b, <1>5 DEF Handle, InFlight, Critical
  <2> QED BY <2>1, <2>2, <2>3 DEF InFlight, Critical
<1>6. ASSUME NEW q \in Req, Store(q) PROVE Goal
  <2>1. cache' = q /\ effects' = effects
    BY <1>6 DEF Store, Cached, Redis, Note
  <2>2. pc' = [pc EXCEPT ![q] = "unlock"]
    BY <1>6 DEF Store, Goto
  <2>3. \A e \in effects : e = q
    BY <1>a, <1>6 DEF Store, CachedHasEffect
  <2> QED BY <1>a, <2>1, <2>2, <2>3
<1>7. ASSUME NEW q \in Req, Unlock(q) PROVE Goal
  BY <1>a, <1>7 DEF Unlock, Goto
<1>8. ASSUME NEW q \in Req, Crash(q) PROVE Goal
  BY <1>8 DEF Crash, Note
<1>9. CASE CacheExpires
  BY <1>9 DEF CacheExpires, Note
<1>10. CASE LockExpires \/ Quiescent \/ UNCHANGED vars
  BY <1>a, <1>10 DEF LockExpires, Quiescent, vars
<1> QED
  BY <1>1, <1>2, <1>3, <1>4, <1>5, <1>6, <1>7, <1>8, <1>9, <1>10 DEF Next, Step

----------------------------------------------------------------------------
LEMMA Initially == Init => IInv
BY PollsAssumption, NoneAssumption
   DEF Init, IInv, TypeOK, LookLeft, LockIsOwned, OneInFlight, EffectIsCached,
       CachedHasEffect, BodyChecked, OnceIfSerial, PC, InFlight, Critical,
       Answered, Fault

\* The inductive invariant: typing, lock ownership, serial flight and the
\* place of the one effect.
THEOREM Invariance == Spec => []IInv
<1>1. IInv /\ [Next]_vars => IInv'
  BY TypeStep, LockStep, FlightStep, ReplayStep, EffectStep DEF IInv
<1> QED BY Initially, <1>1, PTL DEF Spec

\* Every reachable state is well typed; in particular a request polls at most
\* MaxPolls times.
THEOREM TypeCorrect == Spec => []TypeOK
BY Invariance, PTL DEF IInv

\* No two requests run the handler together unless a lock has expired under
\* its owner.
THEOREM MutualExclusion == Spec => []OneHandlerAtATime
<1>1. IInv => OneHandlerAtATime
  BY DEF IInv, LockIsOwned, OneHandlerAtATime
<1> QED BY Invariance, <1>1, PTL

\* A client that retries one request after the other gets one commit.
THEOREM ExactlyOnceIfSerial == Spec => []OnceIfSerial
BY Invariance, PTL DEF IInv

\* No request is answered with the response to another body.
THEOREM BodyIsChecked == Spec => []BodyChecked
BY Invariance, PTL DEF IInv

----------------------------------------------------------------------------
(* One run of an agent *)

USE AttemptsAssumption, MaxCrashesAssumption

\* A new workflow is added to those there are.
LEMMA Starting ==
  ASSUME DispatchTypeOK
  PROVE  /\ Started \in Seq(Final \cup {"running"})
         /\ Len(executions) \in Nat /\ Len(Started) = Len(executions) + 1
         /\ DOMAIN Started = DOMAIN executions \cup {Len(executions) + 1}
         /\ \A k \in DOMAIN executions : Started[k] = executions[k]
         /\ Started[Len(executions) + 1] = "running"
  <1>1. executions \in Seq(Final \cup {"running"})
    BY DEF DispatchTypeOK
  <1>2. "running" \in Final \cup {"running"}
    OBVIOUS
  <1> HIDE DEF Final
  <1> QED
    BY <1>1, <1>2 DEF Started

\* The initial state satisfies the invariant: there is no row, and no job.
THEOREM DispatchInitial == DispatchInit => DispatchIInv
  <1> SUFFICES ASSUME DispatchInit PROVE DispatchIInv
    OBVIOUS
  <1>1. DispatchTypeOK
    <2>1. /\ executions \in Seq(Final \cup {"running"})
          /\ posts \in Nat /\ crashes \in 0 .. MaxCrashes
      BY DEF DispatchInit
    <2>2. made \in 0 .. Attempts /\ stalls \in 0 .. 1
      BY DEF DispatchInit
    <2>3. /\ stage \in [Delivery -> {"idle", "checked", "marked", "written", "failed"}]
          /\ of \in [Delivery -> Nat]
      BY DEF DispatchInit
    <2> QED
      BY <2>1, <2>2, <2>3 DEF DispatchInit, DispatchTypeOK
  <1>2. JobAndWorker /\ PostsCounted /\ Reporting
    BY DEF DispatchInit, JobAndWorker, PostsCounted, PostsBounded, Reporting
  <1>3. Delivering /\ OneDelivery
    BY DEF DispatchInit, Delivering, OneDelivery, Passed
  <1>4. StatusFollowsJob
    BY DEF DispatchInit, StatusFollowsJob, Excused
  <1> QED
    BY <1>1, <1>2, <1>3, <1>4 DEF DispatchIInv
----------------------------------------------------------------------------
(* The steps: each part of the invariant in turn *)

\* Every step keeps the types; an attempt is counted only while some are left.
LEMMA TypeKept ==
  ASSUME DispatchIInv, [DispatchNext]_dispatchVars
  PROVE  DispatchTypeOK'
  <1> USE DEF Remember, queue, callbacks
  <1>0. DispatchTypeOK /\ JobAndWorker
    BY DEF DispatchIInv
  <1>1. CASE CreateRow \/ LogFails \/ Enqueue \/ EnqueueFails \/ WriteUnqueued
    <2>1. /\ status' \in {status, "QUEUED", "ERROR"}
          /\ request' \in {"enqueue", "error", "done"}
          /\ job' \in {job, "none", "waiting"}
      BY <1>1 DEF CreateRow, LogFails, Enqueue, EnqueueFails, WriteUnqueued
    <2>2. history' = history \/ history' = history \cup {"unqueued"}
      BY <1>1 DEF CreateRow, LogFails, Enqueue, EnqueueFails, WriteUnqueued
    <2>3. UNCHANGED <<made, stalls, worker, handler, dlq, posts, executions,
                      callbacks, crashes>>
      BY <1>1 DEF CreateRow, LogFails, Enqueue, EnqueueFails, WriteUnqueued
    <2>4. /\ status' \in {"none", "QUEUED", "RUNNING"} \cup Final
          /\ request' \in {"idle", "enqueue", "error", "done"}
          /\ job' \in {"none", "waiting", "active", "failed", "done"}
          /\ history' \subseteq {"unqueued", "lost", "dropped", "overlap", "early"}
      BY <1>0, <2>1, <2>2 DEF DispatchTypeOK, Final
    <2> QED
      BY <1>0, <2>3, <2>4 DEF DispatchTypeOK
  <1>2. CASE Take \/ WriteRunning
    BY <1>0, <1>2 DEF DispatchTypeOK, Take, WriteRunning
  <1>3. CASE PostAccepted
    <2>1. executions' \in Seq(Final \cup {"running"})
      BY <1>0, <1>3, Starting DEF PostAccepted
    <2>2. posts' \in Nat
      BY <1>0, <1>3 DEF DispatchTypeOK, PostAccepted
    <2>3. worker' \in {"update", "timeout"} /\ history' \subseteq history \cup {"lost"}
      BY <1>3 DEF PostAccepted
    <2>4. UNCHANGED <<status, request, job, made, stalls, handler, dlq, keys, stage, of,
                      crashes>>
      BY <1>3 DEF PostAccepted
    <2> QED
      BY <1>0, <2>1, <2>2, <2>3, <2>4 DEF DispatchTypeOK
  <1>4. CASE PostRefused \/ TimeOut \/ RunningFails
    <2>1. made < Attempts /\ FailAttempt
      BY <1>0, <1>4 DEF PostRefused, TimeOut, RunningFails, JobAndWorker
    <2>2. made' \in 0 .. Attempts
      BY <1>0, <2>1 DEF FailAttempt, HasAttemptsLeft, DispatchTypeOK
    <2>3. /\ job' \in {"waiting", "failed"} /\ worker' = "idle"
          /\ handler' \in {"error", "idle"}
      BY <2>1 DEF FailAttempt, HasAttemptsLeft
    <2>4. posts' \in Nat
      BY <1>0, <1>4 DEF DispatchTypeOK, PostRefused, TimeOut, RunningFails
    <2>5. history' \subseteq history \cup {"lost"}
      BY <1>4 DEF PostRefused, TimeOut, RunningFails
    <2>6. UNCHANGED <<status, request, stalls, dlq, executions, keys, stage, of,
                      crashes>>
      BY <1>4 DEF PostRefused, TimeOut, RunningFails
    <2> QED
      BY <1>0, <2>2, <2>3, <2>4, <2>5, <2>6 DEF DispatchTypeOK
  <1>5. CASE Stall
    <2>1. made < Attempts /\ made' \in {made, made + 1}
      BY <1>0, <1>5 DEF Stall, JobAndWorker
    <2>2. made' \in 0 .. Attempts
      BY <1>0, <2>1 DEF DispatchTypeOK
    <2>3. stalls' \in 0 .. 1
      BY <1>0, <1>5 DEF DispatchTypeOK, Stall
    <2>4. /\ job' \in {"waiting", "failed"} /\ handler' \in {"error", "idle", handler}
          /\ history' \subseteq history \cup {"dropped"}
      BY <1>5 DEF Stall
    <2>5. UNCHANGED <<status, request, worker, dlq, posts, executions, keys, stage, of,
                      crashes>>
      BY <1>5 DEF Stall
    <2> QED
      BY <1>0, <2>2, <2>3, <2>4, <2>5 DEF DispatchTypeOK
  <1>6. CASE WriteError \/ AddDlq \/ DlqFails
    <2>1. /\ status' \in {status, "ERROR"} /\ handler' \in {"idle", "dlq"}
          /\ dlq' = dlq \/ dlq' = TRUE
      BY <1>6 DEF WriteError, AddDlq, DlqFails
    <2>2. history' = history \/ history' = history \cup {"dropped"}
      BY <1>6 DEF WriteError, AddDlq, DlqFails
    <2>3. UNCHANGED <<request, queue, worker, posts, executions, callbacks, crashes>>
      BY <1>6 DEF WriteError, AddDlq, DlqFails
    <2>4. /\ status' \in {"none", "QUEUED", "RUNNING"} \cup Final
          /\ handler' \in {"idle", "error", "dlq"} /\ dlq' \in BOOLEAN
          /\ history' \subseteq {"unqueued", "lost", "dropped", "overlap", "early"}
      BY <1>0, <2>1, <2>2 DEF DispatchTypeOK, Final
    <2> QED
      BY <1>0, <2>3, <2>4 DEF DispatchTypeOK
  <1>7. CASE Finish
    <2>1. executions' \in Seq(Final \cup {"running"})
      BY <1>0, <1>7 DEF DispatchTypeOK, Finish
    <2>2. UNCHANGED <<status, request, queue, worker, handler, dlq, posts, callbacks,
                      crashes, history>>
      BY <1>7 DEF Finish
    <2> QED
      BY <1>0, <2>1, <2>2 DEF DispatchTypeOK
  <1>8. ASSUME NEW d \in Delivery, Callback(d)
        PROVE  DispatchTypeOK'
    <2>1. CASE CheckReplay(d)
      <3>1. PICK k \in DOMAIN executions : CheckReplayOf(d, k)
        BY <2>1 DEF CheckReplay
      <3>2. k \in Nat
        BY <1>0 DEF DispatchTypeOK
      <3>3. /\ stage' \in [Delivery -> {"idle", "checked", "marked", "written", "failed"}]
            /\ of' \in [Delivery -> Nat]
        BY <1>0, <3>1, <3>2 DEF DispatchTypeOK, CheckReplayOf
      <3>4. history' = history \/ history' = history \cup {"overlap"}
        BY <3>1 DEF CheckReplayOf
      <3>5. history' \subseteq {"unqueued", "lost", "dropped", "overlap", "early"}
        BY <1>0, <3>4 DEF DispatchTypeOK
      <3>6. UNCHANGED <<status, request, queue, worker, handler, dlq, posts, executions,
                        keys, crashes>>
        BY <3>1 DEF CheckReplayOf
      <3> QED
        BY <1>0, <3>3, <3>5, <3>6 DEF DispatchTypeOK
    <2>2. CASE MarkReplay(d) \/ ReportFails(d)
      <3>1. /\ stage' = [stage EXCEPT ![d] = "marked"] \/ stage' = [stage EXCEPT ![d] = "failed"]
            /\ keys' = keys \/ keys' = keys \cup {of[d]}
            /\ UNCHANGED <<status, request, queue, worker, handler, dlq, posts, executions, of,
                           crashes, history>>
        BY <2>2 DEF MarkReplay, Marked, ReportFails
      <3>2. keys' \subseteq Nat
        <4>1. keys \subseteq Nat /\ of[d] \in Nat
          BY <1>0 DEF DispatchTypeOK
        <4> QED BY <3>1, <4>1
      <3>3. stage' \in [Delivery -> {"idle", "checked", "marked", "written", "failed"}]
        BY <1>0, <3>1 DEF DispatchTypeOK
      <3> QED
        BY <1>0, <3>1, <3>2, <3>3 DEF DispatchTypeOK, queue
    <2>3. CASE WriteReport(d)
      <3>1. status' \in Final
        BY <2>3 DEF DispatchIInv, Delivering, WriteReport
      <3> QED
        BY <1>0, <2>3, <3>1 DEF DispatchTypeOK, WriteReport
    <2> QED
      BY <1>8, <2>1, <2>2, <2>3 DEF Callback
  <1>9. CASE ProcessEnds
    BY <1>0, <1>9 DEF DispatchTypeOK, ProcessEnds
  <1>10. CASE Settled \/ UNCHANGED dispatchVars
    <2>1. UNCHANGED dispatchVars
      BY <1>10 DEF Settled
    <2> QED
      BY <1>0, <2>1 DEF DispatchTypeOK, dispatchVars, queue, callbacks
  <1> QED
    BY <1>1, <1>2, <1>3, <1>4, <1>5, <1>6, <1>7, <1>8, <1>9, <1>10 DEF DispatchNext,
       Backend
\* Job, worker and handler stay together, and every request to n8n is accounted
\* for by an attempt that was counted, a stall, or the attempt in progress.
LEMMA QueueKept ==
  ASSUME DispatchIInv, [DispatchNext]_dispatchVars
  PROVE  JobAndWorker' /\ PostsCounted'
  <1> USE DEF queue, PostsBounded, JobAndWorker
  <1>0. /\ JobAndWorker /\ PostsCounted
        /\ made \in Nat /\ stalls \in 0 .. 1 /\ posts \in Nat
        /\ job \in {"none", "waiting", "active", "failed", "done"}
    BY DEF DispatchIInv, DispatchTypeOK
  <1>1. CASE CreateRow \/ LogFails \/ Enqueue \/ EnqueueFails \/ WriteUnqueued
    BY <1>0, <1>1 DEF PostsCounted, CreateRow, LogFails, Enqueue, EnqueueFails,
       WriteUnqueued
  <1>2. CASE Take \/ WriteRunning
    BY <1>0, <1>2 DEF PostsCounted, Take, WriteRunning
  <1>3. CASE PostAccepted
    BY <1>0, <1>3 DEF PostsCounted, PostAccepted
  <1>4. CASE PostRefused
    BY <1>0, <1>4 DEF PostsCounted, PostRefused, FailAttempt, HasAttemptsLeft, IsFinal
  <1>5. CASE TimeOut \/ RunningFails
    BY <1>0, <1>5 DEF PostsCounted, TimeOut, RunningFails, FailAttempt,
       HasAttemptsLeft, IsFinal
  <1>6. CASE Stall
    BY <1>0, <1>6 DEF PostsCounted, Stall, IsFinal
  <1>7. CASE WriteError \/ AddDlq \/ DlqFails \/ Finish
    BY <1>0, <1>7 DEF PostsCounted, WriteError, AddDlq, DlqFails, Finish
  <1>8. ASSUME NEW d \in Delivery, Callback(d)
        PROVE  JobAndWorker' /\ PostsCounted'
    BY <1>0, <1>8 DEF PostsCounted, Callback, CheckReplay, CheckReplayOf, MarkReplay,
       WriteReport, ReportFails
  <1>9. CASE ProcessEnds
    BY <1>0, <1>9 DEF PostsCounted, ProcessEnds
  <1>10. CASE Settled \/ UNCHANGED dispatchVars
    BY <1>0, <1>10 DEF PostsCounted, Settled, dispatchVars
  <1> QED
    BY <1>1, <1>2, <1>3, <1>4, <1>5, <1>6, <1>7, <1>8, <1>9, <1>10 DEF DispatchNext,
       Backend

\* A failed job is on its way to the dead letter queue.
LEMMA ReportingKept ==
  ASSUME DispatchIInv, [DispatchNext]_dispatchVars
  PROVE  Reporting'
  <1> USE DEF queue, Remember
  <1>0. /\ JobAndWorker /\ Reporting /\ made \in Nat
        /\ handler \in {"idle", "error", "dlq"}
    BY DEF DispatchIInv, DispatchTypeOK
  <1>1. CASE CreateRow \/ LogFails \/ Enqueue \/ EnqueueFails \/ WriteUnqueued
    BY <1>0, <1>1 DEF Reporting, JobAndWorker, CreateRow, LogFails, Enqueue,
       EnqueueFails, WriteUnqueued, Final
  <1>2. CASE Take \/ PostAccepted \/ WriteRunning
    BY <1>0, <1>2 DEF Reporting, JobAndWorker, Take, PostAccepted, WriteRunning
  <1>3. CASE PostRefused \/ TimeOut \/ RunningFails
    BY <1>0, <1>3 DEF Reporting, PostRefused, TimeOut, RunningFails, FailAttempt,
       HasAttemptsLeft,
       IsFinal
  <1>4. CASE Stall
    BY <1>0, <1>4 DEF Reporting, Stall
  <1>5. CASE WriteError \/ AddDlq \/ DlqFails
    BY <1>0, <1>5 DEF Reporting, JobAndWorker, WriteError, AddDlq, DlqFails, Final
  <1>6. CASE Finish
    BY <1>0, <1>6 DEF Reporting, Finish
  <1>7. ASSUME NEW d \in Delivery, Callback(d)
        PROVE  Reporting'
    <2>1. WriteReport(d) => status' \in Final
      BY DEF DispatchIInv, Delivering, WriteReport
    <2>2. UNCHANGED <<job, handler, dlq>> /\ history \subseteq history'
      BY <1>7 DEF Callback, CheckReplay, CheckReplayOf, MarkReplay, WriteReport,
         ReportFails
    <2>3. status' = status \/ WriteReport(d)
      BY <1>7 DEF Callback, CheckReplay, CheckReplayOf, MarkReplay, ReportFails
    <2> QED
      BY <1>0, <2>1, <2>2, <2>3 DEF Reporting
  <1>8. CASE ProcessEnds
    BY <1>0, <1>8 DEF Reporting, ProcessEnds
  <1>9. CASE Settled \/ UNCHANGED dispatchVars
    BY <1>0, <1>9 DEF Reporting, Settled, dispatchVars
  <1> QED
    BY <1>1, <1>2, <1>3, <1>4, <1>5, <1>6, <1>7, <1>8, <1>9 DEF DispatchNext, Backend

\* Steps that are not those of n8n or of a callback leave both alone, but for the
\* start of a workflow and the end of the process.
LEMMA CallbacksLeftAlone ==
  ASSUME DispatchIInv, [DispatchNext]_dispatchVars
  PROVE  \/ UNCHANGED <<executions, callbacks>>
         \/ PostAccepted
         \/ Finish
         \/ \E d \in Delivery : Callback(d)
         \/ ProcessEnds
  BY DEF DispatchNext, Backend, CreateRow, LogFails, Enqueue, EnqueueFails,
     WriteUnqueued, Take,
     PostRefused, TimeOut, WriteRunning, RunningFails, Stall, WriteError, AddDlq,
     DlqFails, Settled, dispatchVars, callbacks

\* A delivery under way keeps to its workflow, whose outcome no longer changes.
LEMMA DeliveringKept ==
  ASSUME DispatchIInv, [DispatchNext]_dispatchVars
  PROVE  Delivering'
  <1> USE DEF callbacks
  <1>0. /\ DispatchTypeOK /\ Delivering
        /\ executions \in Seq(Final \cup {"running"}) /\ "running" \notin Final
        /\ stage \in [Delivery -> {"idle", "checked", "marked", "written", "failed"}]
        /\ of \in [Delivery -> Nat]
    BY DEF DispatchIInv, DispatchTypeOK, Final
  <1>1. CASE UNCHANGED <<executions, callbacks>>
    BY <1>0, <1>1 DEF Delivering
  <1>2. CASE PostAccepted
    BY <1>0, <1>2, Starting DEF Delivering, PostAccepted
  <1>3. CASE Finish
    BY <1>0, <1>3 DEF Delivering, Finish
  <1>4. ASSUME NEW d \in Delivery, Callback(d)
        PROVE  Delivering'
    BY <1>0, <1>4 DEF Delivering, Callback, CheckReplay, CheckReplayOf, MarkReplay,
       WriteReport, ReportFails
  <1>5. CASE ProcessEnds
    BY <1>0, <1>5 DEF Delivering, ProcessEnds
  <1> QED
    BY <1>1, <1>2, <1>3, <1>4, <1>5, CallbacksLeftAlone
\* The second delivery of a report finds the key of the first, or has looked for it
\* at the same time.
LEMMA OneDeliveryKept ==
  ASSUME DispatchIInv, [DispatchNext]_dispatchVars
  PROVE  OneDelivery'
  <1> USE DEF callbacks, Remember
  <1>0. /\ OneDelivery
        /\ stage \in [Delivery -> {"idle", "checked", "marked", "written", "failed"}]
        /\ of \in [Delivery -> Nat]
    BY DEF DispatchIInv, DispatchTypeOK
  <1>1. history \subseteq history'
    BY DEF DispatchNext, Backend, Callback, CreateRow, LogFails, Enqueue, EnqueueFails,
       WriteUnqueued, Take, PostAccepted, PostRefused, TimeOut, WriteRunning,
       RunningFails, Stall, WriteError, AddDlq, DlqFails, Finish, CheckReplay,
       CheckReplayOf, MarkReplay, WriteReport, ReportFails, ProcessEnds, Settled,
       dispatchVars
  <1>2. CASE UNCHANGED callbacks
    BY <1>0, <1>1, <1>2 DEF OneDelivery, Passed
  <1>3. ASSUME NEW c \in Delivery, CheckReplay(c)
        PROVE  OneDelivery'
    <2>1. PICK k \in DOMAIN executions : CheckReplayOf(c, k)
      BY <1>3 DEF CheckReplay
    <2>2. ASSUME NEW d \in Delivery, stage'[d] \in {"marked", "written"}
          PROVE  of'[d] \in keys'
      BY <1>0, <2>1, <2>2 DEF CheckReplayOf, OneDelivery
    <2>3. ASSUME "overlap" \notin history', NEW e \in Delivery, Passed(e), of[e] = k
          PROVE  FALSE
      BY <1>0, <2>1, <2>3 DEF CheckReplayOf, OneDelivery, Passed
    <2>4. ASSUME "overlap" \notin history', NEW d \in Delivery, NEW e \in Delivery,
                 Passed(d)', Passed(e)', of'[d] = of'[e]
          PROVE  d = e
      <3>1. CASE d = c
        BY <1>0, <2>1, <2>3, <2>4, <3>1 DEF CheckReplayOf, Passed
      <3>2. CASE e = c
        BY <1>0, <2>1, <2>3, <2>4, <3>2 DEF CheckReplayOf, Passed
      <3>3. CASE d # c /\ e # c
        BY <1>0, <1>1, <2>1, <2>4, <3>3 DEF CheckReplayOf, Passed, OneDelivery
      <3> QED
        BY <3>1, <3>2, <3>3
    <2> QED
      BY <2>2, <2>4 DEF OneDelivery
  <1>4. ASSUME NEW c \in Delivery, MarkReplay(c) \/ WriteReport(c) \/ ReportFails(c)
        PROVE  OneDelivery'
    <2>1. of' = of /\ \A d \in Delivery : Passed(d)' => Passed(d)
      BY <1>0, <1>4 DEF MarkReplay, WriteReport, ReportFails, Passed
    <2>2. \A d \in Delivery : stage'[d] \in {"marked", "written"} => of'[d] \in keys'
      BY <1>0, <1>4 DEF MarkReplay, Marked, WriteReport, ReportFails, OneDelivery
    <2> QED
      BY <1>0, <1>1, <2>1, <2>2 DEF OneDelivery
  <1>5. CASE ProcessEnds
    <2>1. of' = of /\ \A d \in Delivery : Passed(d)' => Passed(d)
      BY <1>0, <1>5 DEF ProcessEnds, Passed
    <2>2. \A d \in Delivery : stage'[d] \in {"marked", "written"} => of'[d] \in keys'
      BY <1>0, <1>5 DEF ProcessEnds, OneDelivery
    <2> QED
      BY <1>0, <1>1, <2>1, <2>2 DEF OneDelivery
  <1>6. CASE PostAccepted \/ Finish
    BY <1>2, <1>6 DEF PostAccepted, Finish
  <1> QED
    BY <1>2, <1>3, <1>4, <1>5, <1>6, CallbacksLeftAlone DEF Callback

\* What excuses a change of the status does not go away.
LEMMA ExcusedForever ==
  ASSUME DispatchIInv, [DispatchNext]_dispatchVars, Excused
  PROVE  Excused'
  <1>1. history \subseteq history'
    BY DEF DispatchNext, Backend, Callback, CreateRow, LogFails, Enqueue, EnqueueFails,
       WriteUnqueued, Take, PostAccepted, PostRefused, TimeOut, WriteRunning,
       RunningFails, Stall, WriteError, AddDlq, DlqFails, Finish, CheckReplay,
       CheckReplayOf, MarkReplay, WriteReport, ReportFails, ProcessEnds, Settled,
       dispatchVars, Remember
  <1>2. DispatchTypeOK /\ executions \in Seq(Final \cup {"running"})
    BY DEF DispatchIInv, DispatchTypeOK
  <1>3. Len(executions') >= Len(executions) /\ Len(executions) \in Nat
    <2>1. CASE PostAccepted
      BY <1>2, <2>1, Starting DEF PostAccepted
    <2>2. CASE Finish
      BY <1>2, <2>2 DEF Finish
    <2>3. CASE executions' = executions
      BY <1>2, <2>3
    <2>4. ASSUME NEW d \in Delivery, Callback(d)
          PROVE  executions' = executions
      BY <2>4 DEF Callback, CheckReplay, CheckReplayOf, MarkReplay, WriteReport,
         ReportFails
    <2> QED
      BY <2>1, <2>2, <2>3, <2>4, CallbacksLeftAlone DEF ProcessEnds
  <1>4. Len(executions') \in Nat
    <2>1. DispatchTypeOK'
      BY TypeKept
    <2> QED
      BY <2>1 DEF DispatchTypeOK
  <1> QED
    BY <1>1, <1>3, <1>4 DEF Excused
\* Without an excuse there is at most one workflow, and it is the first.
LEMMA OneWorkflow ==
  ASSUME DispatchIInv, ~Excused, NEW k \in DOMAIN executions
  PROVE  k = 1 /\ executions # <<>>
  <1>1. executions \in Seq(Final \cup {"running"}) /\ Len(executions) <= 1
    BY DEF DispatchIInv, DispatchTypeOK, Excused
  <1> QED
    BY <1>1

\* A delivery under way without an excuse comes after RUNNING was written.
LEMMA ReportComesLast ==
  ASSUME DispatchIInv, ~Excused, NEW d \in Delivery, stage[d] = "marked",
  worker # "update"
  PROVE  /\ job = "done" /\ of[d] = 1 /\ executions # <<>>
         /\ executions[1] \in Final
  <1>1. of[d] \in DOMAIN executions /\ executions[of[d]] \in Final
    BY DEF DispatchIInv, Delivering
  <1>2. of[d] = 1 /\ executions # <<>>
    BY <1>1, OneWorkflow
  <1> QED
    BY <1>1, <1>2 DEF DispatchIInv, StatusFollowsJob

\* Step by step the status follows the job, or something excuses that it does not.
LEMMA StatusKept ==
  ASSUME DispatchIInv, [DispatchNext]_dispatchVars
  PROVE  StatusFollowsJob'
  <1> SUFFICES ASSUME ~Excused'
               PROVE  StatusFollowsJob'
    BY DEF StatusFollowsJob
  <1> USE DEF queue, callbacks, Remember
  <1>0. /\ ~Excused /\ StatusFollowsJob /\ JobAndWorker
        /\ job \in {"none", "waiting", "active", "failed", "done"}
    BY ExcusedForever DEF DispatchIInv, DispatchTypeOK
  <1>1. history' \cap {"lost", "early", "unqueued"} = {}
    BY DEF Excused
  <1>2. CASE CreateRow \/ LogFails \/ Enqueue \/ EnqueueFails \/ WriteUnqueued
    BY <1>0, <1>1, <1>2 DEF StatusFollowsJob, JobAndWorker, CreateRow, LogFails,
       Enqueue, EnqueueFails, WriteUnqueued
  <1>3. CASE Take \/ WriteRunning
    BY <1>0, <1>3 DEF StatusFollowsJob, JobAndWorker, Take, WriteRunning
  <1>4. CASE PostAccepted
    BY <1>0, <1>1, <1>4 DEF StatusFollowsJob, JobAndWorker, PostAccepted
  <1>5. CASE PostRefused \/ TimeOut \/ RunningFails
    BY <1>0, <1>1, <1>5 DEF StatusFollowsJob, JobAndWorker, PostRefused, TimeOut,
       RunningFails, FailAttempt, HasAttemptsLeft
  <1>6. CASE Stall
    BY <1>0, <1>6 DEF StatusFollowsJob, JobAndWorker, Stall
  <1>7. CASE WriteError \/ AddDlq \/ DlqFails
    BY <1>0, <1>7 DEF StatusFollowsJob, JobAndWorker, WriteError, AddDlq, DlqFails
  <1>8. CASE Finish
    <2>1. PICK k \in DOMAIN executions, o \in Final :
            executions[k] = "running" /\ executions' = [executions EXCEPT ![k] = o]
      BY <1>8 DEF Finish
    <2>2. k = 1 /\ executions # <<>>
      BY <1>0, <2>1, OneWorkflow
    <2>3. job = "done" => status = "RUNNING"
      BY <1>0, <2>1, <2>2 DEF StatusFollowsJob, Final
    <2>4. UNCHANGED <<status, request, job, worker>>
      BY <1>8 DEF Finish
    <2> QED
      BY <1>0, <2>2, <2>3, <2>4 DEF StatusFollowsJob
  <1>9. ASSUME NEW d \in Delivery, Callback(d)
        PROVE  StatusFollowsJob'
    <2>1. CASE WriteReport(d)
      <3>1. stage[d] = "marked" /\ worker # "update"
        BY <1>1, <2>1 DEF WriteReport
      <3>2. /\ job = "done" /\ executions # <<>> /\ executions[1] \in Final
            /\ of[d] = 1
        BY <1>0, <3>1, ReportComesLast
      <3>3. /\ UNCHANGED <<request, job, worker, executions>>
            /\ status' = executions[1]
        BY <2>1, <3>2 DEF WriteReport
      <3>4. status' # "none"
        BY <3>2, <3>3 DEF Final
      <3> QED
        BY <1>0, <3>2, <3>3, <3>4 DEF StatusFollowsJob
    <2>2. CASE CheckReplay(d) \/ MarkReplay(d) \/ ReportFails(d)
      BY <1>0, <2>2 DEF StatusFollowsJob, CheckReplay, CheckReplayOf, MarkReplay,
         ReportFails
    <2> QED
      BY <1>9, <2>1, <2>2 DEF Callback
  <1>10. CASE ProcessEnds
    BY <1>0, <1>1, <1>10 DEF StatusFollowsJob, JobAndWorker, ProcessEnds
  <1>11. CASE Settled \/ UNCHANGED dispatchVars
    BY <1>0, <1>11 DEF StatusFollowsJob, Settled, dispatchVars
  <1> QED
    BY <1>2, <1>3, <1>4, <1>5, <1>6, <1>7, <1>8, <1>9, <1>10, <1>11
       DEF DispatchNext, Backend

----------------------------------------------------------------------------
(* The theorems *)

\* The invariant holds in every reachable state.
THEOREM DispatchInvariance == DispatchSpec => []DispatchIInv
  <1>1. ASSUME DispatchIInv, [DispatchNext]_dispatchVars
        PROVE  DispatchIInv'
    BY <1>1, TypeKept, QueueKept, ReportingKept, DeliveringKept, OneDeliveryKept,
       StatusKept DEF DispatchIInv
  <1> QED
    BY <1>1, DispatchInitial, PTL DEF DispatchSpec

\* Every reachable state is well typed; in particular no attempt is counted beyond
\* the last.
THEOREM DispatchTypeCorrect == DispatchSpec => []DispatchTypeOK
  <1>1. DispatchIInv => DispatchTypeOK
    BY DEF DispatchIInv
  <1> QED
    BY <1>1, DispatchInvariance, PTL

\* The worker calls n8n at most once more than there are attempts.
THEOREM PostsAreBounded == DispatchSpec => []PostsBounded
  <1>1. DispatchIInv => PostsBounded
    BY DEF DispatchIInv, PostsCounted
  <1> QED
    BY <1>1, DispatchInvariance, PTL

\* What handleFailed owes a failed job it has done.
THEOREM FailuresAreReported == DispatchSpec => []FailureIsReported
  <1>1. DispatchIInv => FailureIsReported
    BY DEF DispatchIInv, Reporting, FailureIsReported
  <1> QED
    BY <1>1, DispatchInvariance, PTL

\* The replay key lets one delivery of a report through, unless two look together.
THEOREM ReportsAreWrittenOnce == DispatchSpec => []ReportOnce
  <1>1. DispatchIInv => ReportOnce
    BY DEF DispatchIInv, OneDelivery, Passed, ReportOnce
  <1> QED
    BY <1>1, DispatchInvariance, PTL

\* A run that has ended keeps its status, unless one of the named things happens.
THEOREM OutcomeIsKept == DispatchSpec => FinalIsKept
  <1> DEFINE Kept == Len(executions) <= 1
                       /\ history \cap {"lost", "early", "unqueued"} = {}
                       /\ status \in Final => status' = status
  <1>1. ASSUME DispatchIInv, [DispatchNext]_dispatchVars
        PROVE  [Kept]_dispatchVars
    <2> SUFFICES ASSUME ~Excused, status \in Final, Len(executions) <= 1
                 PROVE  status' = status
      <3>1. executions \in Seq(Final \cup {"running"})
        BY <1>1 DEF DispatchIInv, DispatchTypeOK
      <3> QED
        BY <3>1 DEF Excused
    <2>0. StatusFollowsJob /\ JobAndWorker
      BY <1>1 DEF DispatchIInv
    <2>1. CASE CreateRow \/ WriteUnqueued \/ WriteRunning \/ WriteError
      BY <2>0, <2>1 DEF StatusFollowsJob, JobAndWorker, CreateRow, WriteUnqueued,
         WriteRunning, WriteError, Final
    <2>2. ASSUME NEW d \in Delivery, WriteReport(d)
          PROVE  status' = status
      <3>1. stage[d] = "marked" /\ status' = executions[of[d]]
        BY <2>2 DEF WriteReport
      <3>2. worker # "update"
        BY <2>0 DEF StatusFollowsJob, JobAndWorker, Final
      <3>3. job = "done" /\ of[d] = 1
        BY <1>1, <3>1, <3>2, ReportComesLast
      <3>4. status = executions[1]
        BY <2>0, <3>3 DEF StatusFollowsJob, Final
      <3> QED
        BY <3>1, <3>3, <3>4
    <2>3. \/ CreateRow \/ WriteUnqueued \/ WriteRunning \/ WriteError
          \/ \E d \in Delivery : WriteReport(d)
          \/ status' = status
      BY <1>1 DEF DispatchNext, Backend, Callback, LogFails, Enqueue, EnqueueFails, Take,
         PostAccepted, PostRefused, TimeOut, RunningFails, Stall, AddDlq, DlqFails,
         Finish, CheckReplay, CheckReplayOf, MarkReplay, ReportFails, ProcessEnds,
         Settled,
         dispatchVars
    <2> QED
      BY <2>1, <2>2, <2>3
  <1> QED
    BY <1>1, DispatchInvariance, PTL DEF DispatchSpec, FinalIsKept

----------------------------------------------------------------------------
(* Transfers: documents, and sums over their runs *)

LEMMA DocKinds ==
  /\ Group \in Doc /\ Event \in Doc /\ Payout \subseteq Doc /\ Group # Event
  /\ Group \notin Payout /\ Event \notin Payout
  /\ \A d \in Doc : d \in Payout \/ d = Group \/ d = Event
  /\ IsFiniteSet(Doc)
<1>1. MaxTransfers \in Nat
  BY BoundsAssumption
<1>2. IsFiniteSet(Payout)
  BY <1>1, FS_Interval DEF Payout
<1>3. IsFiniteSet({Group, Event})
  <2>1. IsFiniteSet({} \cup {Group})
    BY FS_EmptySet, FS_AddElement
  <2>2. IsFiniteSet(({} \cup {Group}) \cup {Event})
    BY <2>1, FS_AddElement
  <2>3. {Group, Event} = ({} \cup {Group}) \cup {Event}
    OBVIOUS
  <2> QED BY <2>2, <2>3
<1>4. IsFiniteSet(Doc)
  BY <1>2, <1>3, FS_Union DEF Doc
<1>5. Group \notin Payout /\ Event \notin Payout /\ Group # Event
  BY <1>1 DEF Payout, Group, Event
<1> QED BY <1>4, <1>5 DEF Doc

LEMMA SumIsAdded == \A d : Sum(d) = Added(runs[d])
  BY DEF Sum, Added

LEMMA RunSums == \A r \in Run : r.sum \in Int
  BY DEF Run

----------------------------------------------------------------------------
(* What a call does to the runs of a document *)

LEMMA NewRunIs ==
  ASSUME NEW n \in {0, 1}, NEW b \in BOOLEAN
  PROVE  /\ NewRun(n, b) \in Run /\ NewRun(n, b).status = "POSTED"
         /\ NewRun(n, b).sum = n /\ NewRun(n, b).own = b
<1>1. 0 \in 0 .. MaxRuns
  BY BoundsAssumption
<1> QED BY <1>1 DEF NewRun, Run

LEMMA LateLine ==
  ASSUME NEW r \in Run
  PROVE  LET v1 == [r EXCEPT !.lines = @ + 1]
             v2 == [v1 EXCEPT !.sum = @ + 1]
             v  == [v2 EXCEPT !.own = TRUE]
         IN  v \in Run /\ v.status = r.status /\ v.sum = r.sum + 1 /\ v.own
<1> DEFINE v1 == [r EXCEPT !.lines = @ + 1]
           v2 == [v1 EXCEPT !.sum = @ + 1]
           v3 == [v2 EXCEPT !.own = TRUE]
<1>0. r.lines + 1 \in Nat /\ r.sum + 1 \in Int
  BY DEF Run
<1>1. /\ v1 \in Run /\ v1.status = r.status /\ v1.lines = r.lines + 1 /\ v1.sum = r.sum
  BY <1>0 DEF Run
<1> HIDE DEF v1
<1>2. v2 \in Run /\ v2.status = r.status /\ v2.sum = r.sum + 1
  BY <1>0, <1>1 DEF Run
<1> HIDE DEF v2
<1>3. v3 \in Run /\ v3.status = v2.status /\ v3.sum = v2.sum
  BY <1>2 DEF Run
<1>4. v3.own
  BY <1>2 DEF Run
<1> HIDE DEF v3
<1>5. v3 \in Run /\ v3.status = r.status /\ v3.sum = r.sum + 1 /\ v3.own
  BY <1>2, <1>3, <1>4
<1> QED BY <1>5 DEF v1, v2, v3

\* A line that comes late is added to the run.
LEMMA LineAddedTo ==
  ASSUME NEW s \in Seq(Run), NEW k \in DOMAIN s
  PROVE  LET t == [s EXCEPT ![k].lines = @ + 1, ![k].sum = @ + 1, ![k].own = TRUE]
         IN  /\ t \in Seq(Run) /\ Len(t) = Len(s)
             /\ t[k].own /\ t[k].status = s[k].status /\ t[k].sum = s[k].sum + 1
             /\ \A i \in DOMAIN s \ {k} : t[i] = s[i]
             /\ Added(t) = Added(s) + 1
<1> DEFINE r == s[k]
           v1 == [r EXCEPT !.lines = @ + 1]
           v2 == [v1 EXCEPT !.sum = @ + 1]
           v == [v2 EXCEPT !.own = TRUE]
           t == [s EXCEPT ![k] = v]
<1>1. r \in Run
  OBVIOUS
<1>2. r.lines \in Nat /\ r.sum \in Int /\ r.own \in BOOLEAN
  BY <1>1 DEF Run
<1>4. [s EXCEPT ![k].lines = @ + 1, ![k].sum = @ + 1, ![k].own = TRUE] = t
  BY <1>1
<1>3. v \in Run /\ v.status = r.status /\ v.sum = r.sum + 1 /\ v.own
  BY <1>1, LateLine
<1> HIDE DEF v, v1, v2
<1>5. /\ t \in Seq(Run) /\ Len(t) = Len(s) /\ t[k] = v
      /\ \A i \in DOMAIN s \ {k} : t[i] = s[i]
  BY <1>3, RowPut
<1>6. Added(t) = Added(s) - s[k].sum + v.sum
  BY <1>3, RunSums, AddedPut
<1>7. Added(s) \in Int
  BY RunSums, AddedRows
<1>8. Added(t) = Added(s) + 1
  BY <1>2, <1>3, <1>6, <1>7
<1> HIDE DEF t
<1> QED BY <1>3, <1>4, <1>5, <1>8

\* voidRun: the run is void, and its reversal comes last.
LEMMA Reversing ==
  ASSUME NEW s \in Seq(Run), NEW k \in DOMAIN s, Len(s) < MaxRuns
  PROVE  LET t == Append([s EXCEPT ![k].status = "VOIDED", ![k].mirror = Len(s) + 1],
                         Mirror(s[k]))
         IN  /\ t \in Seq(Run) /\ Len(t) = Len(s) + 1
             /\ t[k].status = "VOIDED" /\ t[k].own = s[k].own /\ t[k].sum = s[k].sum
             /\ \A i \in DOMAIN s \ {k} : t[i] = s[i]
             /\ t[Len(s) + 1].status = "POSTED" /\ t[Len(s) + 1].sum = -s[k].sum
             /\ t[Len(s) + 1].own = FALSE
             /\ Added(t) = Added(s) - s[k].sum
<1> DEFINE r == s[k]
           v == [[r EXCEPT !.status = "VOIDED"] EXCEPT !.mirror = Len(s) + 1]
           u == [s EXCEPT ![k] = v]
           w == Mirror(r)
           t == Append(u, w)
<1>1. r \in Run /\ Len(s) + 1 \in 0 .. MaxRuns /\ 0 \in 0 .. MaxRuns
  BY BoundsAssumption
<1>2. r.lines \in Nat /\ r.sum \in Int /\ r.own \in BOOLEAN
  BY <1>1 DEF Run
<1>3. v \in Run /\ v.status = "VOIDED" /\ v.sum = r.sum
  BY <1>1 DEF Run
<1>4. v.own = r.own
  BY <1>1 DEF Run
<1>5. w \in Run /\ w.status = "POSTED" /\ w.sum = -r.sum
  BY <1>1, <1>2 DEF Run, Mirror
<1>6. w.own = FALSE
  BY DEF Mirror
<1>7. [s EXCEPT ![k].status = "VOIDED", ![k].mirror = Len(s) + 1] = u
  BY <1>1
<1> HIDE DEF v, w
<1>8. /\ u \in Seq(Run) /\ Len(u) = Len(s) /\ DOMAIN u = DOMAIN s /\ u[k] = v
      /\ \A i \in DOMAIN s \ {k} : u[i] = s[i]
  BY <1>3, RowPut
<1>9. Added(u) = Added(s) - r.sum + v.sum
  BY <1>3, RunSums, AddedPut
<1> HIDE DEF u
<1>10. /\ t \in Seq(Run) /\ Len(t) = Len(u) + 1 /\ t[Len(u) + 1] = w
       /\ \A i \in DOMAIN u : t[i] = u[i]
  BY <1>5, <1>8, RowAppended
<1>11. Added(t) = Added(u) + w.sum
  BY <1>5, <1>8, RunSums, AddedAppended
<1>12. Added(s) \in Int
  BY RunSums, AddedRows
<1>13. Added(t) = Added(s) - r.sum
  BY <1>2, <1>3, <1>5, <1>9, <1>11, <1>12
<1> HIDE DEF t
<1>14. /\ t[k].status = "VOIDED" /\ t[k].sum = r.sum
       /\ \A i \in DOMAIN s \ {k} : t[i] = s[i]
       /\ t[Len(s) + 1].status = "POSTED" /\ t[Len(s) + 1].sum = -r.sum
  BY <1>3, <1>5, <1>8, <1>10
<1>15. t[k].own = r.own /\ t[Len(s) + 1].own = FALSE
  BY <1>4, <1>6, <1>8, <1>10
<1>16. t = Append([s EXCEPT ![k].status = "VOIDED", ![k].mirror = Len(s) + 1], Mirror(s[k]))
  BY <1>7 DEF t, w
<1> QED BY <1>8, <1>10, <1>13, <1>14, <1>15, <1>16

\* A run that a post makes comes last.
LEMMA Appending ==
  ASSUME NEW s \in Seq(Run), NEW n \in {0, 1}, NEW b \in BOOLEAN
  PROVE  LET t == Append(s, NewRun(n, b))
         IN  /\ t \in Seq(Run) /\ Len(t) = Len(s) + 1
             /\ \A i \in DOMAIN s : t[i] = s[i]
             /\ t[Len(s) + 1].status = "POSTED" /\ t[Len(s) + 1].sum = n
             /\ t[Len(s) + 1].own = b
             /\ Added(t) = Added(s) + n
<1> DEFINE w == NewRun(n, b)
           t == Append(s, w)
<1>1. w \in Run /\ w.status = "POSTED" /\ w.sum = n /\ w.own = b
  BY NewRunIs
<1> HIDE DEF w
<1>2. /\ t \in Seq(Run) /\ Len(t) = Len(s) + 1 /\ t[Len(s) + 1] = w
      /\ \A i \in DOMAIN s : t[i] = s[i]
  BY <1>1, RowAppended
<1>3. Added(t) = Added(s) + w.sum
  BY <1>1, RunSums, AddedAppended
<1> HIDE DEF t
<1>4. /\ t[Len(s) + 1].status = "POSTED" /\ t[Len(s) + 1].sum = n /\ Added(t) = Added(s) + n
      /\ t[Len(s) + 1].own = b
  BY <1>1, <1>2, <1>3
<1>5. t = Append(s, NewRun(n, b))
  BY DEF t, w
<1> QED BY <1>2, <1>4, <1>5

\* All runs of all documents.
LEMMA MadeBounds ==
  ASSUME TransferTypeOK
  PROVE  Made \in Nat /\ \A d \in Doc : Len(runs[d]) \in Nat /\ Len(runs[d]) <= Made
<1> DEFINE f == [d \in Doc |-> Len(runs[d])]
<1>1. \A d \in Doc : f[d] \in Nat /\ f[d] = Len(runs[d])
  BY DEF TransferTypeOK
<1> HIDE DEF f
<1>2. /\ SumFunctionOnSet(f, Doc) \in Nat
      /\ \A d \in Doc : f[d] <= SumFunctionOnSet(f, Doc)
  BY <1>1, DocKinds, SumNat
<1> QED BY <1>1, <1>2 DEF Made, f

LEMMA MadeOneMore ==
  ASSUME TransferTypeOK, NEW d \in Doc, NEW t \in Seq(Run), Len(t) <= Len(runs[d]) + 1,
         runs' = [runs EXCEPT ![d] = t]
  PROVE  Made' <= Made + (Len(t) - Len(runs[d])) /\ Made' \in Int
<1> DEFINE f == [e \in Doc |-> Len(runs[e])]
           g == [e \in Doc |-> Len(runs'[e])]
<1>0. runs'[d] = t /\ \A e \in Doc \ {d} : runs'[e] = runs[e]
  BY DEF TransferTypeOK
<1>1. \A e \in Doc : f[e] \in Int /\ g[e] \in Int
  BY <1>0 DEF TransferTypeOK
<1>2. \A e \in Doc \ {d} : g[e] = f[e]
  BY <1>0
<1>3. f[d] = Len(runs[d]) /\ g[d] = Len(t)
  BY <1>0
<1>4. Made = SumFunctionOnSet(f, Doc) /\ Made' = SumFunctionOnSet(g, Doc)
  BY DEF Made
<1> HIDE DEF f, g
<1>5. SumFunctionOnSet(g, Doc) = SumFunctionOnSet(f, Doc) - f[d] + g[d]
  BY <1>1, <1>2, DocKinds, SumChange
<1>6. SumFunctionOnSet(f, Doc) \in Int
  BY <1>1, DocKinds, SumInt
<1>7. f[d] \in Int /\ g[d] \in Int
  BY <1>1
<1> QED BY <1>3, <1>4, <1>5, <1>6, <1>7

\* The run that a call finds is the last one.
LEMMA ActiveIsTop ==
  ASSUME TransferTypeOK, NEW d \in Doc, runs[d] # <<>> => Last(d).status = "POSTED"
  PROVE  Active(d) = Len(runs[d]) /\ (Active(d) = 0 <=> runs[d] = <<>>)
<1> DEFINE s == runs[d]
           S == {0} \cup {k \in DOMAIN s : s[k].status = "POSTED"}
<1>1. s \in Seq(Run) /\ (s # <<>> => s[Len(s)].status = "POSTED")
  BY DEF TransferTypeOK, Last
<1>2. Active(d) = Max(S)
  BY DEF Active
<1> HIDE DEF s
<1>3. Len(s) \in Nat /\ S \in SUBSET (0 .. Len(s)) /\ S # {} /\ 0 \in S
  BY <1>1
<1>4. Len(s) \in S
  BY <1>1
<1> HIDE DEF S
<1>5. Max(S) \in S /\ \A y \in S : Max(S) >= y
  BY <1>3, Largest
<1>6. Max(S) = Len(s)
  <2> DEFINE m == Max(S)
             n == Len(s)
  <2>1. m \in S /\ m >= n
    BY <1>4, <1>5
  <2>2. n \in Nat /\ S \subseteq 0 .. n
    BY <1>3
  <2> HIDE DEF m, n
  <2>3. m = n
    BY <2>1, <2>2
  <2> QED BY <2>3 DEF m, n
<1> QED BY <1>1, <1>2, <1>6 DEF s

----------------------------------------------------------------------------
(* The ends of a post and of a void *)

\* A post leaves the runs of its document as they are, makes a run or adds a line.
LEMMA PostEffect ==
  ASSUME TransferTypeOK, CallsKnow, LastStands, NEW c \in Client, CommitPost(c)
  PROVE  LET d == doc[c]
             s == runs[d]
             t == runs'[d]
         IN  /\ d \in Doc /\ t \in Seq(Run) /\ runs' \in [Doc -> Seq(Run)] /\ Made' <= MaxRuns
             /\ \A e \in Doc \ {d} : runs'[e] = runs[e]
             /\ \/ t = s /\ seen[c] # 0
                \/ /\ seen[c] = 0 /\ Len(t) = Len(s) + 1
                   /\ \A i \in DOMAIN s : t[i] = s[i]
                   /\ t[Len(t)].status = "POSTED" /\ t[Len(t)].own = ~Held(d, 0)
                   /\ t[Len(t)].sum = IF Held(d, 0) THEN 0 ELSE 1
                   /\ Added(t) = Added(s) + t[Len(t)].sum
                \/ /\ seen[c] \in DOMAIN s /\ ~Held(d, seen[c]) /\ Len(t) = Len(s)
                   /\ \A i \in DOMAIN s \ {seen[c]} : t[i] = s[i]
                   /\ t[seen[c]].own /\ t[seen[c]].status = s[seen[c]].status
                   /\ t[seen[c]].sum = s[seen[c]].sum + 1
                   /\ Added(t) = Added(s) + 1
<1> DEFINE d == doc[c]
           s == runs[d]
           t == runs'[d]
           k == seen[c]
           n == IF Held(d, k) THEN 0 ELSE 1
           Same == t = s /\ seen[c] # 0
           More == /\ seen[c] = 0 /\ Len(t) = Len(s) + 1
                   /\ \A i \in DOMAIN s : t[i] = s[i]
                   /\ t[Len(t)].status = "POSTED" /\ t[Len(t)].own = ~Held(d, 0)
                   /\ t[Len(t)].sum = IF Held(d, 0) THEN 0 ELSE 1
                   /\ Added(t) = Added(s) + t[Len(t)].sum
           Late == /\ seen[c] \in DOMAIN s /\ ~Held(d, seen[c]) /\ Len(t) = Len(s)
                   /\ \A i \in DOMAIN s \ {seen[c]} : t[i] = s[i]
                   /\ t[seen[c]].own /\ t[seen[c]].status = s[seen[c]].status
                   /\ t[seen[c]].sum = s[seen[c]].sum + 1
                   /\ Added(t) = Added(s) + 1
<1>1. d \in Doc /\ s \in Seq(Run) /\ runs \in [Doc -> Seq(Run)] /\ Len(s) \in Nat
  BY DEF TransferTypeOK
<1>2. k \in {0} \cup DOMAIN s /\ step[c] = "posting" /\ (k = 0 => Made < MaxRuns)
  BY DEF CommitPost, CallsKnow, Knows
<1>3. Made <= MaxRuns /\ Made \in Nat /\ MaxRuns \in Nat
  BY MadeBounds, BoundsAssumption DEF LastStands
<1>4. CASE k = 0
  <2>1. runs' = [runs EXCEPT ![d] = Append(s, NewRun(n, n = 1))]
    BY <1>1, <1>4 DEF CommitPost
  <2> DEFINE b == n = 1
             u == Append(s, NewRun(n, b))
  <2>2. n \in {0, 1} /\ b \in BOOLEAN
    OBVIOUS
  <2>3. /\ u \in Seq(Run) /\ Len(u) = Len(s) + 1
        /\ \A i \in DOMAIN s : u[i] = s[i]
        /\ u[Len(s) + 1].status = "POSTED" /\ u[Len(s) + 1].sum = n
        /\ u[Len(s) + 1].own = b
        /\ Added(u) = Added(s) + n
    <3> HIDE DEF n, b
    <3> QED BY <1>1, <2>2, Appending
  <2>4. b = ~Held(d, 0) /\ n = IF Held(d, 0) THEN 0 ELSE 1
    BY <1>4
  <2>c. runs' = [runs EXCEPT ![d] = u]
    BY <2>1
  <2> HIDE DEF u, n, b
  <2>5. t = u /\ \A e \in Doc \ {d} : runs'[e] = runs[e]
    BY <1>1, <2>c
  <2>6. runs' \in [Doc -> Seq(Run)]
    BY <1>1, <2>c, <2>3
  <2>7. Len(u) <= Len(s) + 1
    BY <1>1, <2>3
  <2>8. Made' <= Made + (Len(u) - Len(s)) /\ Made' \in Int
    BY <1>1, <2>3, <2>7, <2>c, MadeOneMore
  <2>9. Made' <= MaxRuns
    BY <1>1, <1>2, <1>3, <1>4, <2>3, <2>8
  <2>10. u[Len(u)].own = ~Held(d, 0)
    BY <2>3, <2>4
  <2>11. /\ u[Len(u)].status = "POSTED" /\ Added(u) = Added(s) + u[Len(u)].sum
         /\ u[Len(u)].sum = IF Held(d, 0) THEN 0 ELSE 1
    BY <2>3, <2>4
  <2>12. More
    BY <1>4, <2>3, <2>5, <2>10, <2>11
  <2> QED BY <1>1, <2>3, <2>5, <2>6, <2>9, <2>12
<1>5. CASE k # 0 /\ runs' = runs
  BY <1>1, <1>3, <1>5 DEF Made
<1>6. CASE k # 0 /\ runs' # runs
  <2>1. /\ ~Held(d, k)
        /\ runs' = [runs EXCEPT ![d][k].lines = @ + 1, ![d][k].sum = @ + 1, ![d][k].own = TRUE]
    BY <1>6 DEF CommitPost
  <2> DEFINE u == [s EXCEPT ![k].lines = @ + 1, ![k].sum = @ + 1, ![k].own = TRUE]
  <2>2. runs' = [runs EXCEPT ![d] = u]
    BY <1>1, <2>1
  <2>3. k \in DOMAIN s
    BY <1>2, <1>6
  <2>4. /\ u \in Seq(Run) /\ Len(u) = Len(s)
        /\ u[k].own /\ u[k].status = s[k].status /\ u[k].sum = s[k].sum + 1
        /\ \A i \in DOMAIN s \ {k} : u[i] = s[i]
        /\ Added(u) = Added(s) + 1
    BY <1>1, <2>3, LineAddedTo
  <2> HIDE DEF u
  <2>5. t = u /\ \A e \in Doc \ {d} : runs'[e] = runs[e]
    BY <1>1, <2>2
  <2>6. runs' \in [Doc -> Seq(Run)]
    BY <1>1, <2>2, <2>4
  <2>a. Len(u) <= Len(s) + 1
    BY <1>1, <2>4
  <2>7. Made' <= Made + (Len(u) - Len(s)) /\ Made' \in Int
    BY <1>1, <2>2, <2>4, <2>a, MadeOneMore
  <2>8. Made' <= MaxRuns
    BY <1>1, <1>3, <2>4, <2>7
  <2>9. Late
    BY <2>1, <2>3, <2>4, <2>5
  <2> QED BY <1>1, <2>4, <2>5, <2>6, <2>8, <2>9
<1> QED BY <1>4, <1>5, <1>6

\* A void leaves the runs of its document as they are, or takes back the last of them.
LEMMA VoidEffect ==
  ASSUME TransferTypeOK, CallsKnow, LastStands, NEW c \in Client, CommitVoid(c)
  PROVE  LET d == doc[c]
             s == runs[d]
             n == Len(s)
             t == runs'[d]
         IN  /\ d \in Doc /\ t \in Seq(Run) /\ runs' \in [Doc -> Seq(Run)] /\ Made' <= MaxRuns
             /\ \A e \in Doc \ {d} : runs'[e] = runs[e]
             /\ \/ t = s
                \/ /\ seen[c] = 0 /\ s # <<>> /\ Len(t) = n + 1
                   /\ t[n].status = "VOIDED" /\ t[n].own = s[n].own /\ t[n].sum = s[n].sum
                   /\ \A i \in DOMAIN s \ {n} : t[i] = s[i]
                   /\ t[n + 1].status = "POSTED" /\ t[n + 1].sum = -s[n].sum
                   /\ t[n + 1].own = FALSE
                   /\ Added(t) = Added(s) - s[n].sum
<1> DEFINE d == doc[c]
           s == runs[d]
           n == Len(s)
           t == runs'[d]
<1>1. d \in Doc /\ s \in Seq(Run) /\ runs \in [Doc -> Seq(Run)] /\ n \in Nat
  BY DEF TransferTypeOK
<1>2. Made <= MaxRuns /\ Made \in Nat /\ MaxRuns \in Nat /\ n <= Made
  BY <1>1, MadeBounds, BoundsAssumption DEF LastStands
<1>3. CASE runs' = runs
  BY <1>1, <1>2, <1>3 DEF Made
<1>4. CASE runs' # runs
  <2>1. /\ seen[c] = 0 /\ Active(d) # 0 /\ Made < MaxRuns
        /\ runs' = Reverse(d, Active(d))
    BY <1>4 DEF CommitVoid
  <2>2. Active(d) = n /\ s # <<>>
    BY <1>1, <2>1, ActiveIsTop DEF LastStands
  <2>3. n \in DOMAIN s /\ n < MaxRuns
    BY <1>1, <1>2, <2>1, <2>2
  <2> DEFINE u == Append([s EXCEPT ![n].status = "VOIDED", ![n].mirror = n + 1], Mirror(s[n]))
  <2>4. runs' = [runs EXCEPT ![d] = u]
    BY <1>1, <2>1, <2>2 DEF Reverse
  <2>5. /\ u \in Seq(Run) /\ Len(u) = n + 1
        /\ u[n].status = "VOIDED" /\ u[n].own = s[n].own /\ u[n].sum = s[n].sum
        /\ \A i \in DOMAIN s \ {n} : u[i] = s[i]
        /\ u[n + 1].status = "POSTED" /\ u[n + 1].sum = -s[n].sum
        /\ u[n + 1].own = FALSE
        /\ Added(u) = Added(s) - s[n].sum
    BY <1>1, <2>3, Reversing
  <2> HIDE DEF u
  <2>6. t = u /\ \A e \in Doc \ {d} : runs'[e] = runs[e]
    BY <1>1, <2>4
  <2>7. runs' \in [Doc -> Seq(Run)]
    BY <1>1, <2>4, <2>5
  <2>a. Len(u) <= n + 1
    BY <1>1, <2>5
  <2>8. Made' <= Made + (Len(u) - n) /\ Made' \in Int
    BY <1>1, <2>4, <2>5, <2>a, MadeOneMore
  <2>9. Made' <= MaxRuns
    BY <1>1, <1>2, <2>1, <2>5, <2>8
  <2> QED BY <1>1, <2>1, <2>2, <2>5, <2>6, <2>7, <2>9
<1> QED BY <1>3, <1>4

\* A void leaves every other document as it is.
LEMMA VoidElsewhere ==
  ASSUME TransferTypeOK, CallsKnow, LastStands, NEW c \in Client, CommitVoid(c),
         NEW e \in Doc, e # doc[c]
  PROVE  runs'[e] = runs[e]
<1>1. CASE runs' = runs
  BY <1>1
<1>2. CASE runs' # runs
  <2>1. PICK u : runs' = [runs EXCEPT ![doc[c]] = u]
    BY <1>2 DEF CommitVoid, Reverse
  <2> QED BY <2>1 DEF TransferTypeOK
<1> QED BY <1>1, <1>2

\* Steps but these two leave the runs alone, and but the void the cash.
LEMMA RunsLeftAlone ==
  ASSUME [TransferNext]_transferVars
  PROVE  /\ \/ UNCHANGED runs
            \/ \E c \in Client : CommitPost(c) \/ CommitVoid(c)
         /\ \/ UNCHANGED cash
            \/ \E c \in Client : CommitVoid(c)
         /\ overlapped \subseteq overlapped' /\ UNCHANGED <<match, legs>>
<1> USE DEF rows
<1>1. CASE UNCHANGED transferVars
  BY <1>1 DEF transferVars
<1>2. CASE \E l \in Line : PostLine(l) \/ LinkLine(l)
  BY <1>2 DEF PostLine, LinkLine
<1>3. ASSUME NEW c \in Client,
             \/ ReadPair(c) \/ WritePair(c) \/ ReadPost(c) \/ FindRun(c) \/ ReadVoid(c)
             \/ Abort(c)
      PROVE  UNCHANGED <<runs, cash, match, legs>> /\ overlapped \subseteq overlapped'
  BY <1>3 DEF ReadPair, WritePair, ReadPost, FindRun, ReadVoid, Abort
<1>4. ASSUME NEW c \in Client, CommitPost(c)
      PROVE  UNCHANGED <<cash, match, legs, overlapped>>
  BY <1>4 DEF CommitPost
<1>5. ASSUME NEW c \in Client, CommitVoid(c)
      PROVE  UNCHANGED <<match, legs, overlapped>>
  BY <1>5 DEF CommitVoid
<1> QED BY <1>1, <1>2, <1>3, <1>4, <1>5 DEF TransferNext

----------------------------------------------------------------------------
(* Types, and what a call knows *)

LEMMA PayoutRows ==
  ASSUME TransferTypeOK
  PROVE  /\ \A d \in Payout : Exists(d) <=> d \in DOMAIN transfers
         /\ \A d \in DOMAIN transfers : d \in Payout /\ transfers[d] \in Row
         /\ Len(transfers) \in Nat /\ DOMAIN transfers = 1 .. Len(transfers)
<1>1. \A d \in Payout : Exists(d) <=> d \in DOMAIN transfers
  BY DocKinds DEF Exists
<1>2. /\ transfers \in Seq(Row) /\ Len(transfers) <= MaxTransfers /\ Len(transfers) \in Nat
      /\ DOMAIN transfers = 1 .. Len(transfers) /\ MaxTransfers \in Nat
  BY BoundsAssumption DEF TransferTypeOK
<1>3. \A d \in DOMAIN transfers : d \in Payout /\ transfers[d] \in Row
  BY <1>2 DEF Payout
<1> QED BY <1>1, <1>2, <1>3

\* The status of a payout changes, the pair does not.
LEMMA StatusWritten ==
  ASSUME TransferTypeOK, NEW d \in DOMAIN transfers, NEW v \in Status
  PROVE  LET t == [transfers EXCEPT ![d].status = v]
         IN  /\ t \in Seq(Row) /\ Len(t) = Len(transfers) /\ DOMAIN t = DOMAIN transfers
             /\ t[d].status = v
             /\ \A i \in DOMAIN transfers : /\ i # d => t[i] = transfers[i]
                                            /\ t[i].wallet = transfers[i].wallet
                                            /\ t[i].bank = transfers[i].bank
<1> DEFINE r == [transfers[d] EXCEPT !.status = v]
           t == [transfers EXCEPT ![d] = r]
<1>1. transfers \in Seq(Row) /\ transfers[d] \in Row
  BY PayoutRows DEF TransferTypeOK
<1>2. r \in Row /\ r.status = v /\ r.wallet = transfers[d].wallet /\ r.bank = transfers[d].bank
  BY <1>1 DEF Row
<1> HIDE DEF r
<1>3. /\ t \in Seq(Row) /\ Len(t) = Len(transfers) /\ DOMAIN t = DOMAIN transfers
      /\ t[d] = r /\ \A i \in DOMAIN transfers \ {d} : t[i] = transfers[i]
  BY <1>1, <1>2, RowPut
<1> HIDE DEF t
<1>4. /\ t[d].status = v
      /\ \A i \in DOMAIN transfers : /\ i # d => t[i] = transfers[i]
                                     /\ t[i].wallet = transfers[i].wallet
                                     /\ t[i].bank = transfers[i].bank
  BY <1>2, <1>3
<1> QED BY <1>3, <1>4 DEF t, r

LEMMA NoRowIs ==
  /\ NoRow \in Wanted /\ "PAIRED" \in Status /\ "POSTED" \in Status /\ "CANCELED" \in Status
  /\ Row \subseteq Wanted
  /\ \A v \in Status : [NoRow EXCEPT !.status = v] \in Wanted
<1>1. "PAIRED" \in Status /\ "POSTED" \in Status /\ "CANCELED" \in Status
  BY DEF Status
<1>2. NoRow \in Wanted
  BY <1>1 DEF NoRow, Wanted
<1>3. \A v \in Status : [NoRow EXCEPT !.status = v] \in Wanted
  BY <1>1 DEF NoRow, Wanted
<1> QED BY <1>1, <1>2, <1>3 DEF Wanted

LEMMA EndTypes ==
  ASSUME TransferTypeOK, NEW c \in Client, End(c)
  PROVE  /\ step' \in [Client -> {"idle", "pair", "post", "posting", "void"}]
         /\ doc' \in [Client -> Doc] /\ seen' \in [Client -> 0 .. MaxRuns]
         /\ want' \in [Client -> Wanted]
         /\ step'[c] = "idle" /\ want'[c] = NoRow
         /\ \A e \in Client \ {c} : /\ step'[e] = step[e] /\ doc'[e] = doc[e]
                                    /\ seen'[e] = seen[e] /\ want'[e] = want[e]
<1>1. Event \in Doc /\ 0 \in 0 .. MaxRuns /\ NoRow \in Wanted
  BY DocKinds, NoRowIs, BoundsAssumption
<1>2. /\ step \in [Client -> {"idle", "pair", "post", "posting", "void"}]
      /\ doc \in [Client -> Doc] /\ seen \in [Client -> 0 .. MaxRuns]
      /\ want \in [Client -> Wanted]
  BY DEF TransferTypeOK
<1>3. /\ step' = [step EXCEPT ![c] = "idle"] /\ doc' = [doc EXCEPT ![c] = Event]
      /\ seen' = [seen EXCEPT ![c] = 0] /\ want' = [want EXCEPT ![c] = NoRow]
  BY DEF End, Turn
<1> HIDE DEF NoRow, Wanted, Doc
<1>4. step' \in [Client -> {"idle", "pair", "post", "posting", "void"}] /\ doc' \in [Client -> Doc]
  BY <1>1, <1>2, <1>3
<1>5. seen' \in [Client -> 0 .. MaxRuns] /\ want' \in [Client -> Wanted]
  BY <1>1, <1>2, <1>3
<1>6. /\ step'[c] = "idle" /\ want'[c] = NoRow
      /\ \A e \in Client \ {c} : /\ step'[e] = step[e] /\ doc'[e] = doc[e]
                                 /\ seen'[e] = seen[e] /\ want'[e] = want[e]
  BY <1>2, <1>3
<1> QED BY <1>4, <1>5, <1>6

LEMMA TransferTypes ==
  ASSUME TransferTypeOK, CallsKnow, LastStands, [TransferNext]_transferVars
  PROVE  TransferTypeOK'
<1> USE DEF rows
<1> HIDE DEF Doc, Wanted, NoRow, Row, Run, Status
<1>a. 0 \in 0 .. MaxRuns /\ MaxRuns \in Nat
  BY BoundsAssumption
<1>1. CASE UNCHANGED transferVars
  BY <1>1 DEF transferVars, TransferTypeOK
<1>2. ASSUME NEW l \in Line, PostLine(l) \/ LinkLine(l)
      PROVE  TransferTypeOK'
  <2>1. posted' \subseteq Line /\ link' \subseteq Line
    BY <1>2 DEF PostLine, LinkLine, TransferTypeOK
  <2> QED BY <1>2, <2>1 DEF PostLine, LinkLine, TransferTypeOK
<1>3. ASSUME NEW c \in Client, ReadPair(c)
      PROVE  TransferTypeOK'
  <2>1. PICK w \in Wallet, b \in Bank, r \in BOOLEAN :
          want' = [want EXCEPT ![c] = [wallet |-> w, bank |-> b, ref |-> r, status |-> "PAIRED"]]
    BY <1>3 DEF ReadPair
  <2>2. [wallet |-> w, bank |-> b, ref |-> r, status |-> "PAIRED"] \in Wanted
    BY NoRowIs DEF Row
  <2>3. want' \in [Client -> Wanted]
    BY <2>1, <2>2 DEF TransferTypeOK
  <2>4. step' = [step EXCEPT ![c] = "pair"] /\ UNCHANGED <<match, legs, rows, doc, seen, overlapped>>
    BY <1>3 DEF ReadPair, Turn
  <2> QED BY <2>3, <2>4 DEF TransferTypeOK
<1>4. ASSUME NEW c \in Client, WritePair(c)
      PROVE  TransferTypeOK'
  <2>1. want[c] \in Row
    BY <1>4 DEF WritePair, CallsKnow, Knows
  <2>2. /\ transfers \in Seq(Row) /\ Len(transfers) <= MaxTransfers /\ Len(transfers) \in Nat
        /\ MaxTransfers \in Nat
    BY BoundsAssumption DEF TransferTypeOK
  <2>3. \/ transfers' = transfers
        \/ transfers' = Append(transfers, want[c]) /\ Len(transfers) < MaxTransfers
    BY <1>4 DEF WritePair
  <2>4. transfers' \in Seq(Row) /\ Len(transfers') <= MaxTransfers
    BY <2>1, <2>2, <2>3
  <2>5. End(c) /\ UNCHANGED <<match, legs, posted, cash, link, event, runs, overlapped>>
    BY <1>4 DEF WritePair
  <2> QED BY <2>4, <2>5, EndTypes DEF TransferTypeOK
<1>5. ASSUME NEW c \in Client, ReadPost(c)
      PROVE  TransferTypeOK'
  <2>1. PICK d \in Doc :
          /\ step[c] = "idle" /\ Exists(d)
          /\ doc' = [doc EXCEPT ![c] = d]
          /\ want' = IF d \in Payout THEN [want EXCEPT ![c].status = transfers[d].status] ELSE want
          /\ overlapped' = overlapped \/ overlapped' = overlapped \cup {d}
          /\ step' = [step EXCEPT ![c] = "post"]
          /\ UNCHANGED <<match, legs, rows, seen>>
    BY <1>5 DEF ReadPost, Turn
  <2>2. want' \in [Client -> Wanted]
    <3>1. CASE d \in Payout
      <4>1. transfers[d].status \in Status
        BY <2>1, <3>1, PayoutRows DEF Row
      <4>2. want[c] = NoRow
        BY <2>1 DEF CallsKnow, Knows
      <4>3. [NoRow EXCEPT !.status = transfers[d].status] \in Wanted
        BY <4>1, NoRowIs
      <4>4. want \in [Client -> Wanted]
        BY DEF TransferTypeOK
      <4>5. want' = [want EXCEPT ![c] = [NoRow EXCEPT !.status = transfers[d].status]]
        BY <2>1, <3>1, <4>2
      <4> QED BY <4>3, <4>4, <4>5
    <3>2. CASE d \notin Payout
      BY <2>1, <3>2 DEF TransferTypeOK
    <3> QED BY <3>1, <3>2
  <2>3. doc' \in [Client -> Doc] /\ overlapped' \subseteq Doc
    BY <2>1 DEF TransferTypeOK
  <2> QED BY <2>1, <2>2, <2>3 DEF TransferTypeOK
<1>6. ASSUME NEW c \in Client, FindRun(c)
      PROVE  TransferTypeOK'
  <2>1. /\ seen' = [seen EXCEPT ![c] = Active(doc[c])] /\ step' = [step EXCEPT ![c] = "posting"]
        /\ UNCHANGED <<match, legs, rows, doc, want, overlapped>>
    BY <1>6 DEF FindRun, Turn
  <2>2. doc[c] \in Doc
    BY DEF TransferTypeOK
  <2>3. Active(doc[c]) \in 0 .. MaxRuns
    BY <1>a, <2>2, ActiveIsTop, MadeBounds DEF LastStands
  <2>4. seen' \in [Client -> 0 .. MaxRuns]
    BY <2>1, <2>3 DEF TransferTypeOK
  <2> QED BY <2>1, <2>4 DEF TransferTypeOK
<1>7. ASSUME NEW c \in Client, CommitPost(c)
      PROVE  TransferTypeOK'
  <2>1. runs' \in [Doc -> Seq(Run)]
    BY <1>7, PostEffect
  <2>2. transfers' \in Seq(Row) /\ Len(transfers') <= MaxTransfers
    <3>1. CASE transfers' = transfers
      BY <3>1 DEF TransferTypeOK
    <3>2. CASE transfers' # transfers
      <4>1. doc[c] \in Payout /\ transfers' = [transfers EXCEPT ![doc[c]].status = "POSTED"]
        BY <1>7, <3>2 DEF CommitPost
      <4>2. doc[c] \in DOMAIN transfers
        BY <1>7, <4>1, PayoutRows DEF CommitPost, CallsKnow, Knows
      <4>3. Len(transfers) <= MaxTransfers
        BY DEF TransferTypeOK
      <4> QED BY <4>1, <4>2, <4>3, NoRowIs, StatusWritten
    <3> QED BY <3>1, <3>2
  <2>3. event' \in {"IMPORTED", "POSTED"}
    BY <1>7 DEF CommitPost, TransferTypeOK
  <2>4. End(c) /\ UNCHANGED <<match, legs, posted, cash, link, overlapped>>
    BY <1>7 DEF CommitPost
  <2> QED BY <2>1, <2>2, <2>3, <2>4, EndTypes DEF TransferTypeOK
<1>8. ASSUME NEW c \in Client, ReadVoid(c)
      PROVE  TransferTypeOK'
  <2>1. PICK d \in Doc :
          /\ doc' = [doc EXCEPT ![c] = d]
          /\ seen' = [seen EXCEPT ![c] = IF VoidedBefore(d) THEN 1 ELSE 0]
          /\ overlapped' = overlapped \/ overlapped' = overlapped \cup {d}
          /\ step' = [step EXCEPT ![c] = "void"]
          /\ UNCHANGED <<match, legs, rows, want>>
    BY <1>8 DEF ReadVoid, Turn
  <2>2. VoidedBefore(d) => 1 \in 0 .. MaxRuns
    <3> SUFFICES ASSUME VoidedBefore(d)
                 PROVE  1 \in 0 .. MaxRuns
      OBVIOUS
    <3>1. runs[d] \in Seq(Run) /\ DOMAIN runs[d] # {}
      BY DEF VoidedBefore, TransferTypeOK
    <3>2. Len(runs[d]) \in Nat /\ Len(runs[d]) >= 1
      BY <3>1
    <3>3. Len(runs[d]) <= Made /\ Made \in Nat /\ Made <= MaxRuns
      BY MadeBounds DEF LastStands
    <3> QED BY <1>a, <3>2, <3>3
  <2>3. seen' \in [Client -> 0 .. MaxRuns]
    BY <1>a, <2>1, <2>2 DEF TransferTypeOK
  <2>4. doc' \in [Client -> Doc] /\ overlapped' \subseteq Doc
    BY <2>1 DEF TransferTypeOK
  <2> QED BY <2>1, <2>3, <2>4 DEF TransferTypeOK
<1>9. ASSUME NEW c \in Client, CommitVoid(c)
      PROVE  TransferTypeOK'
  <2>1. runs' \in [Doc -> Seq(Run)]
    BY <1>9, VoidEffect
  <2>2. transfers' \in Seq(Row) /\ Len(transfers') <= MaxTransfers
    <3>1. CASE transfers' = transfers
      BY <3>1 DEF TransferTypeOK
    <3>2. CASE transfers' # transfers
      <4>1. doc[c] \in Payout /\ transfers' = [transfers EXCEPT ![doc[c]].status = "CANCELED"]
        BY <1>9, <3>2 DEF CommitVoid
      <4>2. doc[c] \in DOMAIN transfers
        BY <1>9, <4>1, PayoutRows DEF CommitVoid, CallsKnow, Knows
      <4>3. Len(transfers) <= MaxTransfers
        BY DEF TransferTypeOK
      <4> QED BY <4>1, <4>2, <4>3, NoRowIs, StatusWritten
    <3> QED BY <3>1, <3>2
  <2>3. cash' \in [Cash -> {"POSTED", "VOIDED"}]
    BY <1>9 DEF CommitVoid, TransferTypeOK
  <2>4. End(c) /\ UNCHANGED <<match, legs, posted, link, event, overlapped>>
    BY <1>9 DEF CommitVoid
  <2> QED BY <2>1, <2>2, <2>3, <2>4, EndTypes DEF TransferTypeOK
<1>10. ASSUME NEW c \in Client, Abort(c)
       PROVE  TransferTypeOK'
  BY <1>10, EndTypes DEF Abort, TransferTypeOK
<1> QED BY <1>1, <1>2, <1>3, <1>4, <1>5, <1>6, <1>7, <1>8, <1>9, <1>10 DEF TransferNext

\* No document goes away, and no run.
LEMMA NothingGoesAway ==
  ASSUME TransferTypeOK, CallsKnow, LastStands, [TransferNext]_transferVars
  PROVE  /\ \A d \in Doc : Exists(d) => Exists(d)'
         /\ \A d \in Doc : DOMAIN runs[d] \subseteq DOMAIN runs'[d]
<1> USE DEF rows
<1>1. DOMAIN transfers \subseteq DOMAIN transfers'
  <2>1. CASE transfers' = transfers
    BY <2>1
  <2>2. ASSUME NEW c \in Client, WritePair(c)
        PROVE  DOMAIN transfers \subseteq DOMAIN transfers'
    <3>1. transfers' = transfers \/ transfers' = Append(transfers, want[c])
      BY <2>2 DEF WritePair
    <3>2. transfers \in Seq(Row) /\ (transfers' # transfers => want[c] \in Row)
      BY <2>2 DEF WritePair, CallsKnow, Knows, TransferTypeOK
    <3> QED BY <3>1, <3>2
  <2>3. ASSUME NEW c \in Client, CommitPost(c) \/ CommitVoid(c), transfers' # transfers
        PROVE  DOMAIN transfers \subseteq DOMAIN transfers'
    BY <2>3 DEF CommitPost, CommitVoid
  <2>4. \/ transfers' = transfers
        \/ \E c \in Client : WritePair(c) \/ CommitPost(c) \/ CommitVoid(c)
    BY DEF TransferNext, transferVars, PostLine, LinkLine, ReadPair, ReadPost, FindRun,
           ReadVoid, Abort
  <2> QED BY <2>1, <2>2, <2>3, <2>4
<1>2. legs' = legs
  BY RunsLeftAlone
<1>3. \A d \in Doc : Exists(d) => Exists(d)'
  BY <1>1, <1>2 DEF Exists
<1>4. ASSUME NEW d \in Doc
      PROVE  DOMAIN runs[d] \subseteq DOMAIN runs'[d]
  <2>0. runs[d] \in Seq(Run) /\ Len(runs[d]) \in Nat
    BY DEF TransferTypeOK
  <2>1. CASE runs' = runs
    BY <2>1
  <2>2. ASSUME NEW c \in Client, CommitPost(c)
        PROVE  DOMAIN runs[d] \subseteq DOMAIN runs'[d]
    <3>1. CASE d = doc[c]
      <4>1. /\ runs'[d] \in Seq(Run)
            /\ runs'[d] = runs[d] \/ Len(runs'[d]) \in {Len(runs[d]), Len(runs[d]) + 1}
        BY <2>2, <3>1, PostEffect
      <4> QED BY <2>0, <4>1
    <3>2. CASE d # doc[c]
      BY <2>2, <3>2, PostEffect
    <3> QED BY <3>1, <3>2
  <2>3. ASSUME NEW c \in Client, CommitVoid(c)
        PROVE  DOMAIN runs[d] \subseteq DOMAIN runs'[d]
    <3>1. CASE d = doc[c]
      <4>1. /\ runs'[d] \in Seq(Run)
            /\ runs'[d] = runs[d] \/ Len(runs'[d]) = Len(runs[d]) + 1
        BY <2>3, <3>1, VoidEffect
      <4> QED BY <2>0, <4>1
    <3>2. CASE d # doc[c]
      BY <2>0, <2>3, <3>2, VoidElsewhere
    <3> QED BY <3>1, <3>2
  <2> QED BY <2>1, <2>2, <2>3, RunsLeftAlone
<1> QED BY <1>3, <1>4

\* A step of one call leaves the others where they are.
LEMMA OthersWait ==
  ASSUME TransferTypeOK, NEW c \in Client,
         \/ ReadPair(c) \/ WritePair(c) \/ ReadPost(c) \/ FindRun(c) \/ CommitPost(c)
         \/ ReadVoid(c) \/ CommitVoid(c) \/ Abort(c),
         NEW e \in Client, e # c
  PROVE  step'[e] = step[e] /\ doc'[e] = doc[e] /\ seen'[e] = seen[e] /\ want'[e] = want[e]
<1> USE DEF TransferTypeOK, Turn
<1>1. CASE WritePair(c) \/ CommitPost(c) \/ CommitVoid(c) \/ Abort(c)
  BY <1>1 DEF WritePair, CommitPost, CommitVoid, Abort, End
<1>2. CASE ReadPair(c) \/ FindRun(c) \/ ReadVoid(c)
  BY <1>2 DEF ReadPair, FindRun, ReadVoid
<1>3. CASE ReadPost(c)
  BY <1>3 DEF ReadPost
<1> QED BY <1>1, <1>2, <1>3

LEMMA CallsStep ==
  ASSUME TransferTypeOK, CallsKnow, LastStands, [TransferNext]_transferVars
  PROVE  CallsKnow'
<1> USE DEF rows
<1> HIDE DEF Doc, Wanted, NoRow, Row, Run, Status
<1>0. TransferTypeOK'
  BY TransferTypes
<1>1. ASSUME NEW e \in Client, step'[e] = step[e], doc'[e] = doc[e], seen'[e] = seen[e],
             want'[e] = want[e]
      PROVE  Knows(e)'
  <2>1. Knows(e) /\ doc[e] \in Doc
    BY DEF CallsKnow, TransferTypeOK
  <2>2. Exists(doc[e]) => Exists(doc[e])'
    BY <2>1, <1>1, NothingGoesAway DEF Exists
  <2>3. DOMAIN runs[doc[e]] \subseteq DOMAIN runs'[doc'[e]]
    BY <2>1, <1>1, NothingGoesAway
  <2> QED BY <2>1, <2>2, <2>3, <1>1 DEF Knows
<1>2. CASE UNCHANGED transferVars \/ \E l \in Line : PostLine(l) \/ LinkLine(l)
  BY <1>1, <1>2 DEF CallsKnow, transferVars, PostLine, LinkLine
<1>3. ASSUME NEW c \in Client, WritePair(c) \/ CommitPost(c) \/ CommitVoid(c) \/ Abort(c)
      PROVE  Knows(c)'
  <2>1. End(c)
    BY <1>3 DEF WritePair, CommitPost, CommitVoid, Abort
  <2>2. step'[c] = "idle" /\ want'[c] = NoRow
    BY <2>1, EndTypes
  <2> QED BY <2>2 DEF Knows
<1>4. ASSUME NEW c \in Client, ReadPair(c)
      PROVE  Knows(c)'
  <2>1. PICK w \in Wallet, b \in Bank, r \in BOOLEAN :
          want' = [want EXCEPT ![c] = [wallet |-> w, bank |-> b, ref |-> r, status |-> "PAIRED"]]
    BY <1>4 DEF ReadPair
  <2>2. step'[c] = "pair"
    BY <1>4 DEF ReadPair, Turn, TransferTypeOK
  <2>3. want'[c] = [wallet |-> w, bank |-> b, ref |-> r, status |-> "PAIRED"]
    BY <2>1 DEF TransferTypeOK
  <2>4. want'[c] \in Row /\ want'[c].status = "PAIRED"
    BY <2>3, NoRowIs DEF Row
  <2> QED BY <2>2, <2>4 DEF Knows
<1>5. ASSUME NEW c \in Client, ReadPost(c) \/ ReadVoid(c)
      PROVE  Knows(c)'
  <2>1. PICK d \in Doc : Exists(d) /\ doc' = [doc EXCEPT ![c] = d]
    BY <1>5 DEF ReadPost, ReadVoid
  <2>2. step'[c] \in {"post", "void"} /\ doc'[c] = d
    BY <1>5, <2>1 DEF ReadPost, ReadVoid, Turn, TransferTypeOK
  <2>3. Exists(d)'
    BY <2>1, NothingGoesAway
  <2>4. Exists(doc[c])'
    BY <2>2, <2>3 DEF Exists
  <2> QED BY <2>2, <2>4 DEF Knows
<1>6. ASSUME NEW c \in Client, FindRun(c)
      PROVE  Knows(c)'
  <2>1. /\ step'[c] = "posting" /\ seen'[c] = Active(doc[c]) /\ doc'[c] = doc[c]
        /\ step[c] = "post" /\ legs' = legs /\ transfers' = transfers /\ runs' = runs
    BY <1>6 DEF FindRun, Turn, TransferTypeOK
  <2>2. doc[c] \in Doc /\ runs[doc[c]] \in Seq(Run) /\ Exists(doc[c])
    BY <2>1 DEF TransferTypeOK, CallsKnow, Knows
  <2>3. Active(doc[c]) = Len(runs[doc[c]])
    BY <2>2, ActiveIsTop DEF LastStands
  <2>4. Active(doc[c]) \in {0} \cup DOMAIN runs[doc[c]]
    BY <2>2, <2>3
  <2>5. Exists(doc[c])'
    BY <2>1, <2>2 DEF Exists
  <2> QED BY <2>1, <2>4, <2>5 DEF Knows
<1>7. ASSUME NEW c \in Client,
             \/ ReadPair(c) \/ WritePair(c) \/ ReadPost(c) \/ FindRun(c) \/ CommitPost(c)
             \/ ReadVoid(c) \/ CommitVoid(c) \/ Abort(c)
      PROVE  CallsKnow'
  <2>1. \A e \in Client \ {c} : Knows(e)'
    BY <1>1, <1>7, OthersWait
  <2>2. Knows(c)'
    BY <1>3, <1>4, <1>5, <1>6, <1>7
  <2> QED BY <2>1, <2>2 DEF CallsKnow
<1> QED BY <1>2, <1>7 DEF TransferNext

----------------------------------------------------------------------------
(* The cash of canceled payouts *)

LEMMA CanceledStep ==
  ASSUME TransferTypeOK, CallsKnow, LastStands, CanceledCash, [TransferNext]_transferVars
  PROVE  CanceledCash'
<1> USE DEF rows
<1> HIDE DEF Doc, Wanted, NoRow, Row, Run, Status
\* A payout that is canceled now was so before, or is canceled by this step.
<1> DEFINE Was(t) == /\ t \in DOMAIN transfers
                     /\ transfers'[t].wallet = transfers[t].wallet
                     /\ transfers'[t].bank = transfers[t].bank
                     /\ \/ transfers[t].status = "CANCELED"
                        \/ \E c \in Client : CommitVoid(c) /\ doc[c] = t
<1>1. ASSUME NEW t \in DOMAIN transfers', transfers'[t].status = "CANCELED"
      PROVE  Was(t)
  <2>1. CASE transfers' = transfers
    BY <1>1, <2>1
  <2>2. ASSUME NEW c \in Client, WritePair(c)
        PROVE  Was(t)
    <3>1. /\ transfers' = transfers \/ transfers' = Append(transfers, want[c])
          /\ transfers' # transfers => want[c] \in Row /\ want[c].status = "PAIRED"
      BY <2>2 DEF WritePair, CallsKnow, Knows
    <3>2. transfers \in Seq(Row)
      BY DEF TransferTypeOK
    <3> QED BY <1>1, <3>1, <3>2
  <2>3. ASSUME NEW c \in Client, NEW v \in {"POSTED", "CANCELED"}, doc[c] \in Payout,
               transfers' = [transfers EXCEPT ![doc[c]].status = v], Exists(doc[c]),
               v = "CANCELED" => CommitVoid(c)
        PROVE  Was(t)
    <3>1. doc[c] \in DOMAIN transfers /\ v \in Status
      BY <2>3, PayoutRows, NoRowIs
    <3>2. /\ DOMAIN transfers' = DOMAIN transfers /\ transfers'[doc[c]].status = v
          /\ \A i \in DOMAIN transfers : /\ i # doc[c] => transfers'[i] = transfers[i]
                                         /\ transfers'[i].wallet = transfers[i].wallet
                                         /\ transfers'[i].bank = transfers[i].bank
      BY <2>3, <3>1, StatusWritten
    <3> QED BY <1>1, <2>3, <3>2
  <2>4. ASSUME NEW c \in Client, CommitPost(c), transfers' # transfers
        PROVE  Was(t)
    <3>1. /\ doc[c] \in Payout /\ Exists(doc[c])
          /\ transfers' = [transfers EXCEPT ![doc[c]].status = "POSTED"]
      BY <2>4 DEF CommitPost, CallsKnow, Knows
    <3> HIDE DEF Was
    <3> QED BY <2>3, <3>1
  <2>5. ASSUME NEW c \in Client, CommitVoid(c), transfers' # transfers
        PROVE  Was(t)
    <3>1. /\ doc[c] \in Payout /\ Exists(doc[c])
          /\ transfers' = [transfers EXCEPT ![doc[c]].status = "CANCELED"]
      BY <2>5 DEF CommitVoid, CallsKnow, Knows
    <3> HIDE DEF Was
    <3> QED BY <2>3, <2>5, <3>1
  <2>6. \/ transfers' = transfers
        \/ \E c \in Client : WritePair(c) \/ CommitPost(c) \/ CommitVoid(c)
    BY DEF TransferNext, transferVars, PostLine, LinkLine, ReadPair, ReadPost, FindRun,
           ReadVoid, Abort
  <2> HIDE DEF Was
  <2> QED BY <2>1, <2>2, <2>4, <2>5, <2>6
\* Cash that is void stays so.
<1>2. \A m \in Cash : cash[m] = "VOIDED" => cash'[m] = "VOIDED"
  <2>1. ASSUME NEW c \in Client, CommitVoid(c)
        PROVE  \A m \in Cash : cash[m] = "VOIDED" => cash'[m] = "VOIDED"
    BY <2>1 DEF CommitVoid
  <2> QED BY <2>1, RunsLeftAlone
<1>3. \A t \in DOMAIN transfers : t \in Payout /\ transfers[t] \in Row
  BY PayoutRows
<1>4. \A l \in Line : match'[l] = match[l] /\ match[l] \in Cash
  BY RunsLeftAlone DEF TransferTypeOK
<1>5. ASSUME NEW t \in DOMAIN transfers', transfers'[t].status = "CANCELED"
      PROVE  \A m \in LegsOf(t)' : cash'[m] = "VOIDED"
  <2>1. Was(t)
    BY <1>1, <1>5
  <2>2. t \in Payout /\ transfers[t].wallet \in Line /\ transfers[t].bank \in Line
    BY <1>3, <2>1 DEF Row, Line
  <2>3. /\ LegsOf(t) = {match[transfers[t].wallet], match[transfers[t].bank]}
        /\ LegsOf(t)' = {match'[transfers'[t].wallet], match'[transfers'[t].bank]}
    BY <2>2, DocKinds DEF LegsOf
  <2>4. LegsOf(t)' = LegsOf(t) /\ LegsOf(t) \subseteq Cash
    BY <1>4, <2>1, <2>2, <2>3
  <2>5. CASE transfers[t].status = "CANCELED"
    <3>1. \A m \in LegsOf(t) : cash[m] = "VOIDED"
      BY <2>1, <2>5 DEF CanceledCash
    <3> QED BY <1>2, <2>4, <3>1
  <2>6. ASSUME NEW c \in Client, CommitVoid(c), doc[c] = t
        PROVE  \A m \in LegsOf(t)' : cash'[m] = "VOIDED"
    <3>1. \A m \in Cash : m \in LegsOf(t) => cash'[m] = "VOIDED"
      BY <2>6 DEF CommitVoid
    <3> QED BY <2>4, <3>1
  <2> QED BY <2>1, <2>5, <2>6
<1> QED BY <1>5 DEF CanceledCash

----------------------------------------------------------------------------
(* The runs of payouts and events *)

\* What LastStands says of the runs of a payout or an event.
OutStands(s) ==
  /\ Added(s) \in {0, 1}
  /\ s = <<>> => Added(s) = 0
  /\ s # <<>> => s[1].own /\ s[1].sum = 1 /\ Added(s) - s[Len(s)].sum \in {0, 1}

LEMMA OutAre == \A d : Last(d) = runs[d][Len(runs[d])] /\ Sum(d) = Added(runs[d])
  BY SumIsAdded DEF Last

LEMMA FirstIsHeld ==
  ASSUME TransferTypeOK, NEW d \in Doc \ {Group}, NEW k,
         runs[d] # <<>> => runs[d][1].own
  PROVE  Held(d, k) <=> runs[d] # <<>>
<1>1. runs[d] \in Seq(Run)
  BY DEF TransferTypeOK
<1>2. Held(d, k) <=> \E j \in DOMAIN runs[d] : runs[d][j].own
  BY DEF Held
<1>3. runs[d] # <<>> => 1 \in DOMAIN runs[d]
  BY <1>1
<1>4. runs[d] = <<>> => DOMAIN runs[d] = {}
  OBVIOUS
<1> QED BY <1>2, <1>3, <1>4

LEMMA LastStep ==
  ASSUME TransferTypeOK, CallsKnow, LastStands, [TransferNext]_transferVars
  PROVE  LastStands'
<1> HIDE DEF Doc, Run
<1>0. TransferTypeOK'
  BY TransferTypes
<1> DEFINE Stands(s) == s # <<>> => s[Len(s)].status = "POSTED"
<1>a. LastStands <=> /\ Made <= MaxRuns
                     /\ \A d \in Doc : Stands(runs[d])
                     /\ \A d \in Doc \ {Group} : OutStands(runs[d])
  BY OutAre DEF LastStands, OutStands
<1>b. LastStands' <=> /\ Made' <= MaxRuns
                      /\ \A d \in Doc : Stands(runs'[d])
                      /\ \A d \in Doc \ {Group} : OutStands(runs'[d])
  <2>1. \A d : Last(d)' = runs'[d][Len(runs'[d])] /\ Sum(d)' = Added(runs'[d])
    BY DEF Last, Sum, Added
  <2> QED BY <2>1 DEF LastStands, OutStands
<1>1. CASE runs' = runs
  <2>1. Made' = Made
    BY <1>1 DEF Made
  <2> HIDE DEF Stands
  <2> QED BY <1>1, <1>a, <1>b, <2>1
<1>2. ASSUME NEW c \in Client, CommitPost(c)
      PROVE  LastStands'
  <2> DEFINE d == doc[c]
             s == runs[d]
             t == runs'[d]
  <2>1. /\ d \in Doc /\ t \in Seq(Run) /\ Made' <= MaxRuns
        /\ \A e \in Doc \ {d} : runs'[e] = runs[e]
    BY <1>2, PostEffect
  <2>a. s \in Seq(Run) /\ Len(s) \in Nat
    BY <2>1 DEF TransferTypeOK
  <2>b. Added(s) \in Int
    BY <2>a, RunSums, AddedRows
  <2>c. Stands(s)
    BY <2>1, <1>a
  <2>2. s \in Seq(Run) /\ Len(s) \in Nat /\ Stands(s) /\ Added(s) \in Int
    BY <2>a, <2>b, <2>c
  <2>3. \/ t = s /\ seen[c] # 0
        \/ /\ seen[c] = 0 /\ Len(t) = Len(s) + 1
           /\ \A i \in DOMAIN s : t[i] = s[i]
           /\ t[Len(t)].status = "POSTED" /\ t[Len(t)].own = ~Held(d, 0)
           /\ t[Len(t)].sum = IF Held(d, 0) THEN 0 ELSE 1
           /\ Added(t) = Added(s) + t[Len(t)].sum
        \/ /\ seen[c] \in DOMAIN s /\ ~Held(d, seen[c]) /\ Len(t) = Len(s)
           /\ \A i \in DOMAIN s \ {seen[c]} : t[i] = s[i]
           /\ t[seen[c]].own /\ t[seen[c]].status = s[seen[c]].status
           /\ t[seen[c]].sum = s[seen[c]].sum + 1
           /\ Added(t) = Added(s) + 1
    BY <1>2, PostEffect
  <2> HIDE DEF d
  <2>4. Stands(t)
    BY <2>1, <2>2, <2>3
  <2>5. ASSUME d # Group
        PROVE  OutStands(t)
    <3>1. OutStands(s)
      BY <2>1, <2>5, <1>a
    <3>2. \A k : Held(d, k) <=> s # <<>>
      BY <2>1, <2>5, <3>1, FirstIsHeld DEF OutStands
    <3>3. CASE t = s
      BY <3>1, <3>3
    <3>4. CASE t # s
      <4>1. /\ Len(t) = Len(s) + 1 /\ \A i \in DOMAIN s : t[i] = s[i]
            /\ t[Len(t)].own = (s = <<>>)
            /\ t[Len(t)].sum = IF s # <<>> THEN 0 ELSE 1
            /\ Added(t) = Added(s) + t[Len(t)].sum
        <5>1. ~(seen[c] \in DOMAIN s /\ ~Held(d, seen[c]))
          BY <2>2, <3>2
        <5>2. /\ Len(t) = Len(s) + 1 /\ \A i \in DOMAIN s : t[i] = s[i]
              /\ t[Len(t)].own = ~Held(d, 0)
              /\ t[Len(t)].sum = IF Held(d, 0) THEN 0 ELSE 1
              /\ Added(t) = Added(s) + t[Len(t)].sum
          BY <2>3, <3>4, <5>1
        <5>3. Held(d, 0) = (s # <<>>)
          <6>1. Held(d, 0) \in BOOLEAN
            BY <2>5 DEF Held
          <6> QED BY <3>2, <6>1
        <5> QED BY <5>2, <5>3
      <4>2. CASE s = <<>>
        <5>a. Len(t) = 1 /\ t # <<>> /\ t[1].sum = 1
          BY <2>1, <4>1, <4>2
        <5>b. t[1].own
          BY <4>1, <4>2, <5>a
        <5>c. Added(s) = 0
          BY <3>1, <4>2 DEF OutStands
        <5>1. Len(t) = 1 /\ t # <<>> /\ t[1].own /\ t[1].sum = 1 /\ Added(t) = 1
          BY <4>1, <5>a, <5>b, <5>c
        <5> QED BY <5>1 DEF OutStands
      <4>3. CASE s # <<>>
        <5>1. t # <<>> /\ t[1] = s[1] /\ t[Len(t)].sum = 0 /\ Added(t) = Added(s)
          BY <2>1, <2>2, <4>1, <4>3
        <5> QED BY <2>2, <3>1, <4>3, <5>1 DEF OutStands
      <4> QED BY <4>2, <4>3
    <3> QED BY <3>3, <3>4
  <2> HIDE DEF Stands
  <2> QED BY <1>a, <1>b, <2>1, <2>4, <2>5
<1>3. ASSUME NEW c \in Client, CommitVoid(c)
      PROVE  LastStands'
  <2> DEFINE d == doc[c]
             s == runs[d]
             t == runs'[d]
             n == Len(s)
  <2>1. /\ d \in Doc /\ t \in Seq(Run) /\ Made' <= MaxRuns
        /\ \A e \in Doc \ {d} : runs'[e] = runs[e]
    BY <1>3, VoidEffect
  <2>a. s \in Seq(Run) /\ n \in Nat
    BY <2>1 DEF TransferTypeOK
  <2>b. Added(s) \in Int
    BY <2>a, RunSums, AddedRows
  <2>c. Stands(s)
    BY <2>1, <1>a
  <2>2. s \in Seq(Run) /\ n \in Nat /\ Stands(s) /\ Added(s) \in Int
    BY <2>a, <2>b, <2>c
  <2>3. \/ t = s
        \/ /\ s # <<>> /\ Len(t) = n + 1
           /\ t[n].status = "VOIDED" /\ t[n].own = s[n].own /\ t[n].sum = s[n].sum
           /\ \A i \in DOMAIN s \ {n} : t[i] = s[i]
           /\ t[n + 1].status = "POSTED" /\ t[n + 1].sum = -s[n].sum
           /\ Added(t) = Added(s) - s[n].sum
    BY <1>3, VoidEffect
  <2> HIDE DEF d
  <2>4. Stands(t)
    BY <2>1, <2>2, <2>3
  <2>5. ASSUME d # Group
        PROVE  OutStands(t)
    <3>1. OutStands(s)
      BY <2>1, <2>5, <1>a
    <3>2. CASE t = s
      BY <3>1, <3>2
    <3>3. CASE t # s
      <4>1. s # <<>> /\ n \in DOMAIN s /\ 1 \in DOMAIN s /\ Len(t) = n + 1 /\ t # <<>>
        BY <2>1, <2>2, <2>3, <3>3
      <4>2. s[n].sum \in Int
        BY <2>2, <4>1, RunSums, AddedRows
      <4>3. t[1].own /\ t[1].sum = 1
        <5>1. CASE n = 1
          BY <2>3, <3>1, <3>3, <5>1 DEF OutStands
        <5>2. CASE n # 1
          BY <2>3, <3>1, <3>3, <4>1, <5>2 DEF OutStands
        <5> QED BY <5>1, <5>2
      <4>4. Added(t) \in {0, 1}
        BY <2>3, <3>1, <3>3, <4>1 DEF OutStands
      <4>5. Added(t) - t[Len(t)].sum = Added(s)
        BY <2>2, <2>3, <3>3, <4>1, <4>2
      <4>6. Added(s) \in {0, 1}
        BY <3>1 DEF OutStands
      <4> QED BY <4>1, <4>3, <4>4, <4>5, <4>6 DEF OutStands
    <3> QED BY <3>2, <3>3
  <2> HIDE DEF Stands
  <2> QED BY <1>a, <1>b, <2>1, <2>4, <2>5
<1> QED BY <1>1, <1>2, <1>3, RunsLeftAlone

----------------------------------------------------------------------------
(* Taking turns *)

\* A call that voids d did so before, or starts now.
LEMMA WhoVoids ==
  ASSUME TransferTypeOK, [TransferNext]_transferVars, NEW d \in Doc, NEW c \in Client,
         step'[c] = "void", doc'[c] = d
  PROVE  \/ step[c] = "void" /\ doc[c] = d /\ seen'[c] = seen[c]
         \/ /\ ReadVoid(c) /\ Voidable(d) /\ UNCHANGED runs
            /\ seen'[c] = 0 <=> ~VoidedBefore(d)
            /\ Busy(d, {"void"}) => d \in overlapped'
<1> USE DEF rows
<1>1. CASE UNCHANGED transferVars \/ \E l \in Line : PostLine(l) \/ LinkLine(l)
  BY <1>1 DEF transferVars, PostLine, LinkLine
<1>2. ASSUME NEW e \in Client, e # c,
             \/ ReadPair(e) \/ WritePair(e) \/ ReadPost(e) \/ FindRun(e) \/ CommitPost(e)
             \/ ReadVoid(e) \/ CommitVoid(e) \/ Abort(e)
      PROVE  step[c] = "void" /\ doc[c] = d /\ seen'[c] = seen[c]
  BY <1>2, OthersWait
<1>3. ~(WritePair(c) \/ CommitPost(c) \/ CommitVoid(c) \/ Abort(c))
  BY EndTypes DEF WritePair, CommitPost, CommitVoid, Abort
<1>4. ~(ReadPair(c) \/ ReadPost(c) \/ FindRun(c))
  BY DEF ReadPair, ReadPost, FindRun, Turn, TransferTypeOK
<1>5. CASE ReadVoid(c)
  <2>1. PICK v \in Doc :
          /\ Voidable(v) /\ doc' = [doc EXCEPT ![c] = v]
          /\ seen' = [seen EXCEPT ![c] = IF VoidedBefore(v) THEN 1 ELSE 0]
          /\ overlapped' = IF Busy(v, {"void"}) THEN overlapped \cup {v} ELSE overlapped
    BY <1>5 DEF ReadVoid
  <2>2. v = d
    BY <2>1 DEF TransferTypeOK
  <2>3. seen'[c] = IF VoidedBefore(d) THEN 1 ELSE 0
    BY <2>1, <2>2 DEF TransferTypeOK
  <2>4. UNCHANGED runs
    BY <1>5 DEF ReadVoid
  <2> QED BY <1>5, <2>1, <2>2, <2>3, <2>4
<1> QED BY <1>1, <1>2, <1>3, <1>4, <1>5 DEF TransferNext

\* A call that posts d did so before, or starts now.
LEMMA WhoPosts ==
  ASSUME TransferTypeOK, [TransferNext]_transferVars, NEW d \in Doc, NEW c \in Client,
         step'[c] \in {"post", "posting"}, doc'[c] = d
  PROVE  \/ /\ step[c] \in {"post", "posting"} /\ doc[c] = d /\ want'[c] = want[c]
            /\ step'[c] = "posting" =>
                 \/ step[c] = "posting" /\ seen'[c] = seen[c]
                 \/ seen'[c] = Active(d) /\ UNCHANGED runs
         \/ /\ ReadPost(c) /\ step'[c] = "post" /\ UNCHANGED runs
            /\ d \in Payout => /\ d \in DOMAIN transfers
                               /\ transfers[d].status \in {"PAIRED", "POSTED"}
                               /\ want'[c].status = transfers[d].status
            /\ Busy(d, {"post", "posting"}) => d \in overlapped'
<1> USE DEF rows
<1> HIDE DEF Doc, Run
<1>1. CASE UNCHANGED transferVars \/ \E l \in Line : PostLine(l) \/ LinkLine(l)
  BY <1>1 DEF transferVars, PostLine, LinkLine
<1>2. ASSUME NEW e \in Client, e # c,
             \/ ReadPair(e) \/ WritePair(e) \/ ReadPost(e) \/ FindRun(e) \/ CommitPost(e)
             \/ ReadVoid(e) \/ CommitVoid(e) \/ Abort(e)
      PROVE  step'[c] = step[c] /\ doc[c] = d /\ seen'[c] = seen[c] /\ want'[c] = want[c]
  BY <1>2, OthersWait
<1>3. ~(WritePair(c) \/ CommitPost(c) \/ CommitVoid(c) \/ Abort(c))
  BY EndTypes DEF WritePair, CommitPost, CommitVoid, Abort
<1>4. ~(ReadPair(c) \/ ReadVoid(c))
  BY DEF ReadPair, ReadVoid, Turn, TransferTypeOK
<1>5. CASE FindRun(c)
  <2>1. step[c] = "post" /\ doc[c] = d /\ UNCHANGED <<runs, want>>
    BY <1>5 DEF FindRun
  <2>2. seen'[c] = Active(d)
    BY <1>5, <2>1 DEF FindRun, TransferTypeOK
  <2> QED BY <2>1, <2>2
<1>6. CASE ReadPost(c)
  <2>1. PICK v \in Doc :
          /\ Exists(v) /\ doc' = [doc EXCEPT ![c] = v]
          /\ v \in Payout => transfers[v].status \in {"PAIRED", "POSTED"}
          /\ v \in Payout => want' = [want EXCEPT ![c].status = transfers[v].status]
          /\ overlapped' = IF Busy(v, {"post", "posting"}) THEN overlapped \cup {v}
                           ELSE overlapped
    BY <1>6 DEF ReadPost
  <2>2. v = d
    BY <2>1 DEF TransferTypeOK
  <2>3. step'[c] = "post" /\ UNCHANGED runs
    BY <1>6 DEF ReadPost, Turn, TransferTypeOK
  <2>4. d \in Payout => /\ d \in DOMAIN transfers
                        /\ want'[c].status = transfers[d].status
                        /\ transfers[d].status \in {"PAIRED", "POSTED"}
    <3>1. want \in [Client -> Wanted] /\ \A w \in Wanted : "status" \in DOMAIN w
      BY DEF TransferTypeOK, Wanted, Row
    <3> HIDE DEF Wanted
    <3>2. d \in Payout => want'[c].status = transfers[d].status
      BY <2>1, <2>2, <3>1
    <3> QED BY <2>1, <2>2, <3>2, PayoutRows
  <2> QED BY <1>6, <2>1, <2>2, <2>3, <2>4
<1> QED BY <1>1, <1>2, <1>3, <1>4, <1>5, <1>6 DEF TransferNext

LEMMA TurnsStep ==
  ASSUME TransferTypeOK, TakeTurns, [TransferNext]_transferVars
  PROVE  TakeTurns'
<1> HIDE DEF Doc
<1>1. ASSUME NEW d \in Doc \ overlapped', NEW c \in Client, NEW e \in Client,
             At(c, d, {"void"})', At(e, d, {"void"})'
      PROVE  c = e
  <2>1. d \in Doc \ overlapped
    BY <1>1, RunsLeftAlone
  <2>2. ASSUME NEW a \in Client, NEW b \in Client, a # b, ReadVoid(a),
               Busy(d, {"void"}) => d \in overlapped', At(b, d, {"void"})'
        PROVE  FALSE
    <3>1. At(b, d, {"void"})
      BY <2>2, OthersWait DEF At
    <3> QED BY <1>1, <2>2, <3>1 DEF Busy, At
  <2>3. /\ At(c, d, {"void"}) \/ (ReadVoid(c) /\ (Busy(d, {"void"}) => d \in overlapped'))
        /\ At(e, d, {"void"}) \/ (ReadVoid(e) /\ (Busy(d, {"void"}) => d \in overlapped'))
    BY <1>1, <2>1, WhoVoids DEF At
  <2>4. CASE At(c, d, {"void"}) /\ At(e, d, {"void"})
    BY <2>1, <2>4 DEF TakeTurns
  <2> QED BY <1>1, <2>2, <2>3, <2>4
<1>2. ASSUME NEW d \in Doc \ overlapped', NEW c \in Client, NEW e \in Client,
             At(c, d, {"post", "posting"})', At(e, d, {"post", "posting"})'
      PROVE  c = e
  <2> DEFINE Posts(a) == At(a, d, {"post", "posting"})
             Starts(a) == ReadPost(a) /\ (Busy(d, {"post", "posting"}) => d \in overlapped')
  <2>1. d \in Doc \ overlapped
    BY <1>2, RunsLeftAlone
  <2>2. ASSUME NEW a \in Client, NEW b \in Client, a # b, Starts(a),
               At(b, d, {"post", "posting"})'
        PROVE  FALSE
    <3>1. Posts(b)
      BY <2>2, OthersWait DEF At
    <3> QED BY <1>2, <2>2, <3>1 DEF Busy, At
  <2>3. (Posts(c) \/ Starts(c)) /\ (Posts(e) \/ Starts(e))
    BY <1>2, <2>1, WhoPosts DEF At
  <2>4. CASE Posts(c) /\ Posts(e)
    BY <2>1, <2>4 DEF TakeTurns
  <2> HIDE DEF Posts, Starts
  <2> QED BY <1>2, <2>2, <2>3, <2>4
<1> QED BY <1>1, <1>2 DEF TakeTurns

----------------------------------------------------------------------------
(* What a payout or an event says of itself *)

\* The commit of a post that has found what there is: the first run, or nothing new.
LEMMA PostInTurn ==
  ASSUME TransferTypeOK, CallsKnow, LastStands, NEW c \in Client, CommitPost(c),
         NEW d \in Doc, d = doc[c], d # Group, Stage(d, runs[d]), CallsFollow(d, runs[d])
  PROVE  /\ Stage(d, runs[d])'
         /\ runs'[d] = runs[d] \/ (runs[d] = <<>> /\ Len(runs'[d]) = 1)
<1> HIDE DEF Doc, Run, Row
<1> DEFINE s == runs[d]
           t == runs'[d]
           k == seen[c]
<1>1. /\ s \in Seq(Run) /\ runs \in [Doc -> Seq(Run)] /\ Len(s) \in Nat
      /\ d \in Payout \/ d = Event
      /\ d \in Payout => d # Event
  BY DocKinds DEF TransferTypeOK
<1>2. k \in {0} \cup DOMAIN s /\ step[c] = "posting" /\ Exists(d)
  BY DEF CommitPost, CallsKnow, Knows
<1>3. d \in Payout => d \in DOMAIN transfers
  BY <1>2, PayoutRows
<1>4. Sum(d) = Added(s) /\ Sum(d)' = Added(t)
  BY SumIsAdded DEF Sum, Added
<1>5. s # <<>> => k # 0 /\ (d \in Payout => want[c].status = "POSTED")
  BY <1>2 DEF CallsFollow, At
<1>6. event' = IF d = Event THEN "POSTED" ELSE event
  BY DEF CommitPost
<1>7. CASE s = <<>>
  <2>1. k = 0 /\ ~Held(d, k) /\ Len(s) = 0
    BY <1>2, <1>7 DEF Held
  <2>2. runs' = [runs EXCEPT ![d] = Append(@, NewRun(1, TRUE))]
    BY <2>1 DEF CommitPost
  <2>3. Len(t) = 1 /\ t[1] = NewRun(1, TRUE)
    <3> DEFINE w == NewRun(1, TRUE)
    <3>1. t = Append(s, w)
      BY <1>1, <2>2
    <3>2. w \in Run
      BY NewRunIs
    <3> HIDE DEF w
    <3>3. Len(t) = Len(s) + 1 /\ t[Len(s) + 1] = w
      BY <1>1, <3>1, <3>2, RowAppended
    <3> DEFINE n == Len(s)
               m == Len(t)
    <3>4. n = 0 /\ m = n + 1 /\ t[n + 1] = w
      BY <2>1, <3>3
    <3> HIDE DEF n, m, t
    <3>5. m = 1 /\ t[1] = w
      BY <3>4
    <3> QED BY <3>5 DEF m, w
  <2>4. t[1].lines = 1 /\ t[1].own /\ t[1].sum = 1 /\ t[1].status = "POSTED"
    BY <2>3 DEF NewRun
  <2>5. Added(t) = 1
    <3>1. Added(s) = 0
      BY <1>4, <1>7 DEF LastStands
    <3>2. Added(t) = Added(s) + t[Len(t)].sum
      <4>1. seen[c] \notin DOMAIN s
        BY <1>7, <2>1
      <4>2. t # s
        <5>1. 0 # 1
          OBVIOUS
        <5>2. Len(s) = 0 /\ Len(t) = 1
          BY <2>1, <2>3
        <5> QED BY <5>1, <5>2
      <4> QED BY <4>1, <4>2, PostEffect
    <3>3. t[Len(t)].sum = 1
      BY <2>3, <2>4
    <3> HIDE DEF s, t
    <3> QED BY <3>1, <3>2, <3>3
  <2>6. d \in Payout => d \in DOMAIN transfers' /\ transfers'[d].status = "POSTED"
    <3>1. d \in Payout => transfers' = [transfers EXCEPT ![d].status = "POSTED"]
      BY <2>1 DEF CommitPost
    <3> QED BY <1>3, <3>1, StatusWritten, NoRowIs
  <2>7. CountsAsPosted(d)'
    <3>1. CASE d = Event
      <4>1. DOMAIN t = {1}
        BY <2>3, <1>1, <1>7
      <4>2. ~VoidedBefore(d)'
        BY <2>4, <4>1 DEF VoidedBefore
      <4> QED BY <1>6, <3>1, <4>2 DEF CountsAsPosted
    <3>2. CASE d \in Payout
      BY <1>1, <2>6, <3>2 DEF CountsAsPosted
    <3> QED BY <1>1, <3>1, <3>2
  <2> QED BY <1>4, <1>7, <2>3, <2>4, <2>5, <2>7 DEF Stage
<1>8. CASE s # <<>>
  <2>1. s[1].own /\ s[1].lines = 1 /\ Len(s) \in {1, 2}
    BY <1>8 DEF Stage
  <2>2. 1 \in DOMAIN s /\ k \in DOMAIN s /\ k # 0 /\ k \in {1, 2}
    BY <1>1, <1>2, <1>5, <1>8, <2>1
  <2>3. Held(d, k)
    BY <2>1, <2>2 DEF Held
  <2>4. s[k].lines > 0
    <3>1. Len(s) = 1 => k = 1
      BY <1>1, <2>2
    <3>2. Len(s) = 2 => s[2].lines = 1
      BY <1>8 DEF Stage
    <3> QED BY <2>1, <2>2, <3>1, <3>2
  <2>5. runs' = runs /\ (d \in Payout => transfers' = transfers)
    BY <1>5, <1>8, <2>2, <2>3, <2>4 DEF CommitPost
  <2>6. d \notin Payout => transfers' = transfers
    BY DEF CommitPost
  <2>7. CountsAsPosted(d) => CountsAsPosted(d)'
    BY <1>6, <2>5, <2>6 DEF CountsAsPosted, VoidedBefore
  <2> QED BY <1>4, <1>8, <2>5, <2>6, <2>7 DEF Stage
<1> QED BY <1>7, <1>8

\* The commit of a void that has found what there is: the reversal of the one run, or
\* nothing new.
LEMMA VoidInTurn ==
  ASSUME TransferTypeOK, CallsKnow, LastStands, NEW c \in Client, CommitVoid(c),
         NEW d \in Doc, d = doc[c], d # Group, Stage(d, runs[d]), CallsFollow(d, runs[d])
  PROVE  /\ Stage(d, runs[d])' /\ runs[d] # <<>>
         /\ runs'[d] = runs[d] \/ (Len(runs[d]) = 1 /\ Len(runs'[d]) = 2)
<1> HIDE DEF Doc, Run, Row
<1> DEFINE s == runs[d]
           t == runs'[d]
<1>1. /\ s \in Seq(Run) /\ runs \in [Doc -> Seq(Run)] /\ Len(s) \in Nat
      /\ DOMAIN s = 1 .. Len(s)
      /\ d \in Payout \/ d = Event
      /\ d \in Payout => d # Event
  BY DocKinds DEF TransferTypeOK
<1>2. step[c] = "void" /\ Exists(d)
  BY DEF CommitVoid, CallsKnow, Knows
<1>3. d \in Payout => d \in DOMAIN transfers' /\ transfers'[d].status = "CANCELED"
  <2>1. d \in Payout => d \in DOMAIN transfers
    BY <1>2, PayoutRows
  <2>2. d \in Payout => transfers' = [transfers EXCEPT ![d].status = "CANCELED"]
    BY DEF CommitVoid
  <2> QED BY <2>1, <2>2, StatusWritten, NoRowIs
<1>4. Sum(d) = Added(s) /\ Sum(d)' = Added(t)
  BY SumIsAdded DEF Sum, Added
<1>5. seen[c] = 0 <=> Len(s) < 2
  BY <1>2 DEF CallsFollow, At
<1>6. Active(d) = Len(s)
  BY ActiveIsTop DEF LastStands
<1>7. s = <<>> \/ Len(s) = 1 \/ Len(s) = 2
  BY DEF Stage
<1>8. s # <<>>
  <2>1. CASE s = <<>>
    <3>1. Len(s) = 0 /\ DOMAIN s = {} /\ Active(d) = 0
      BY <1>1, <1>6, <2>1
    <3> QED BY <1>5, <3>1 DEF CommitVoid
  <2> QED BY <2>1
<1>9. CASE Len(s) = 1
  <2>1. /\ s[1].lines = 1 /\ s[1].own /\ s[1].sum = 1 /\ Sum(d) = 1 /\ s[1].status = "POSTED"
    BY <1>8, <1>9 DEF Stage
  <2>2. DOMAIN s = {1} /\ ~\E j \in DOMAIN s : s[j].status = "VOIDED"
    BY <1>1, <1>9, <2>1
  <2>3. runs' = Reverse(d, 1)
    BY <1>5, <1>6, <1>9, <2>2 DEF CommitVoid
  <2> DEFINE u == [s EXCEPT ![1].status = "VOIDED", ![1].mirror = Len(s) + 1]
  <2>4. t = Append(u, Mirror(s[1]))
    BY <1>1, <2>3 DEF Reverse
  <2>5. s[1] \in Run
    BY <1>1, <2>2
  <2>6. u \in Seq(Run) /\ Len(u) = 1 /\ u[1].lines = s[1].lines /\ u[1].own = s[1].own
        /\ u[1].status = "VOIDED"
    <3> DEFINE v == [[s[1] EXCEPT !.status = "VOIDED"] EXCEPT !.mirror = Len(s) + 1]
    <3>1. Len(s) + 1 \in 0 .. MaxRuns
      <4>1. Made < MaxRuns
        BY <1>5, <1>9, <2>2 DEF CommitVoid
      <4> QED BY <1>1, <1>9, <4>1, MadeBounds, BoundsAssumption
    <3>2. v \in Run /\ v.lines = s[1].lines /\ v.status = "VOIDED"
      BY <2>5, <3>1 DEF Run
    <3>3. v.own = s[1].own
      BY <2>5 DEF Run
    <3>4. u = [s EXCEPT ![1] = v]
      BY <2>2, <2>5
    <3> HIDE DEF u, v
    <3> QED BY <1>1, <1>9, <2>2, <3>2, <3>3, <3>4
  <2> HIDE DEF u
  <2>7. Len(t) = 2 /\ t[1] = u[1] /\ t[2] = Mirror(s[1])
    <3> DEFINE w == Mirror(s[1])
    <3>1. w \in Run
      <4>1. -s[1].sum \in Int /\ s[1].lines \in Nat /\ 0 \in 0 .. MaxRuns
        BY <2>5, BoundsAssumption DEF Run
      <4> QED BY <4>1 DEF Mirror, Run
    <3>2. t = Append(u, w)
      BY <2>4
    <3> HIDE DEF w
    <3>3. Len(t) = Len(u) + 1 /\ t[Len(u) + 1] = w /\ \A i \in DOMAIN u : t[i] = u[i]
      BY <2>6, <3>1, <3>2, RowAppended
    <3>4. 1 \in DOMAIN u
      BY <2>6
    <3> QED BY <2>6, <3>3, <3>4 DEF w
  <2>8. t[2].lines = 1 /\ t[2].status = "POSTED"
    BY <2>1, <2>7 DEF Mirror
  <2>9. Added(t) = 0
    <3>1. t # s
      BY <1>9, <2>7
    <3>2. Added(t) = Added(s) - s[1].sum
      BY <1>9, <3>1, VoidEffect
    <3>3. Added(s) = 1 /\ s[1].sum = 1
      BY <1>4, <2>1
    <3> HIDE DEF s, t
    <3> QED BY <3>2, <3>3
  <2> QED BY <1>3, <1>4, <1>8, <1>9, <2>1, <2>6, <2>7, <2>8, <2>9 DEF Stage
<1>10. CASE Len(s) = 2
  <2>1. runs' = runs
    BY <1>5, <1>10 DEF CommitVoid
  <2>2. /\ s[1].lines = 1 /\ s[1].own /\ s[1].status = "VOIDED" /\ s[2].lines = 1
        /\ s[2].status = "POSTED" /\ Sum(d) = 0
    BY <1>8, <1>10 DEF Stage
  <2> QED BY <1>3, <1>4, <1>8, <1>10, <2>1, <2>2 DEF Stage
<1> QED BY <1>7, <1>8, <1>9, <1>10

\* Whatever is done to other documents, this one stays as it is; a pair may be made.
LEMMA ElsewhereInTurn ==
  ASSUME TransferTypeOK, CallsKnow, LastStands, [TransferNext]_transferVars,
         NEW d \in Doc, d # Group, Stage(d, runs[d]),
         \A c \in Client : ~((CommitPost(c) \/ CommitVoid(c)) /\ doc[c] = d)
  PROVE  Stage(d, runs[d])' /\ runs'[d] = runs[d]
<1> USE DEF rows
<1> HIDE DEF Doc, Run, Row
<1>0. d \in Payout \/ d = Event
  BY DocKinds
<1>1. runs'[d] = runs[d]
  <2>1. ASSUME NEW c \in Client, CommitPost(c)
        PROVE  runs'[d] = runs[d]
    BY <2>1, PostEffect
  <2>2. ASSUME NEW c \in Client, CommitVoid(c)
        PROVE  runs'[d] = runs[d]
    BY <2>2, VoidEffect
  <2> QED BY <2>1, <2>2, RunsLeftAlone
<1>2. d = Event => event' = event
  <2>1. ASSUME NEW c \in Client, CommitPost(c), d = Event
        PROVE  event' = event
    BY <2>1 DEF CommitPost
  <2>2. ASSUME NEW c \in Client,
               \/ ReadPair(c) \/ WritePair(c) \/ ReadPost(c) \/ FindRun(c) \/ ReadVoid(c)
               \/ CommitVoid(c) \/ Abort(c)
        PROVE  event' = event
    BY <2>2 DEF ReadPair, WritePair, ReadPost, FindRun, ReadVoid, CommitVoid, Abort
  <2>3. CASE UNCHANGED transferVars \/ \E l \in Line : PostLine(l) \/ LinkLine(l)
    BY <2>3 DEF transferVars, PostLine, LinkLine
  <2> QED BY <2>1, <2>2, <2>3 DEF TransferNext
<1>3. \/ /\ d \in DOMAIN transfers' <=> d \in DOMAIN transfers
         /\ d \in DOMAIN transfers => transfers'[d].status = transfers[d].status
      \/ d \notin DOMAIN transfers /\ transfers'[d].status = "PAIRED"
  <2>1. ASSUME NEW c \in Client, CommitPost(c) \/ CommitVoid(c), doc[c] \in DOMAIN transfers
        PROVE  /\ d \in DOMAIN transfers' <=> d \in DOMAIN transfers
               /\ d \in DOMAIN transfers => transfers'[d].status = transfers[d].status
    <3>1. d # doc[c]
      BY <2>1
    <3>2. \/ transfers' = transfers
          \/ \E v \in Status : transfers' = [transfers EXCEPT ![doc[c]].status = v]
      BY <2>1, NoRowIs DEF CommitPost, CommitVoid
    <3> QED BY <2>1, <3>1, <3>2, StatusWritten
  <2>2. ASSUME NEW c \in Client, CommitPost(c) \/ CommitVoid(c), doc[c] \notin DOMAIN transfers
        PROVE  transfers' = transfers
    <3>1. doc[c] \notin Payout
      <4>1. Exists(doc[c])
        BY <2>2 DEF CommitPost, CommitVoid, CallsKnow, Knows
      <4> QED BY <2>2, <4>1, PayoutRows
    <3> QED BY <2>2, <3>1 DEF CommitPost, CommitVoid
  <2>3. ASSUME NEW c \in Client, WritePair(c), transfers' # transfers
        PROVE  \/ /\ d \in DOMAIN transfers' <=> d \in DOMAIN transfers
                  /\ d \in DOMAIN transfers => transfers'[d].status = transfers[d].status
               \/ d \notin DOMAIN transfers /\ transfers'[d].status = "PAIRED"
    <3>1. /\ transfers' = Append(transfers, want[c]) /\ want[c].status = "PAIRED"
          /\ want[c] \in Row
      BY <2>3 DEF WritePair, CallsKnow, Knows
    <3>2. transfers \in Seq(Row) /\ Len(transfers) \in Nat /\ DOMAIN transfers = 1 .. Len(transfers)
      BY PayoutRows DEF TransferTypeOK
    <3>3. /\ DOMAIN transfers' = 1 .. Len(transfers) + 1
          /\ transfers'[Len(transfers) + 1] = want[c]
          /\ \A i \in DOMAIN transfers : transfers'[i] = transfers[i]
      BY <3>1, <3>2
    <3> QED BY <3>1, <3>2, <3>3
  <2>4. ASSUME NEW c \in Client,
               ReadPair(c) \/ ReadPost(c) \/ FindRun(c) \/ ReadVoid(c) \/ Abort(c)
        PROVE  transfers' = transfers
    BY <2>4 DEF ReadPair, ReadPost, FindRun, ReadVoid, Abort
  <2>5. CASE UNCHANGED transferVars \/ \E l \in Line : PostLine(l) \/ LinkLine(l)
    BY <2>5 DEF transferVars, PostLine, LinkLine
  <2> QED BY <2>1, <2>2, <2>3, <2>4, <2>5 DEF TransferNext
<1>4. Sum(d)' = Sum(d) /\ VoidedBefore(d)' = VoidedBefore(d)
  BY <1>1 DEF Sum, VoidedBefore
<1>5. CASE d = Event
  <2>1. CountsAsPosted(d)' = CountsAsPosted(d) /\ d \notin Payout
    BY <1>2, <1>4, <1>5, DocKinds DEF CountsAsPosted
  <2>2. d \notin DOMAIN transfers /\ d \notin DOMAIN transfers'
    <3>1. TransferTypeOK'
      BY TransferTypes
    <3>2. \A i \in DOMAIN transfers' : i \in Payout
      BY <3>1, BoundsAssumption DEF TransferTypeOK, Payout
    <3> QED BY <2>1, <3>2, PayoutRows
  <2> QED BY <1>1, <1>4, <2>1, <2>2 DEF Stage
<1>6. CASE d \in Payout
  <2>1. d # Event
    BY <1>6, DocKinds
  <2>2. CASE /\ d \in DOMAIN transfers' <=> d \in DOMAIN transfers
             /\ d \in DOMAIN transfers => transfers'[d].status = transfers[d].status
    <3>1. CountsAsPosted(d)' <=> CountsAsPosted(d)
      BY <2>1, <2>2 DEF CountsAsPosted
    <3> QED BY <1>1, <1>4, <2>2, <3>1 DEF Stage
  <2>3. CASE d \notin DOMAIN transfers /\ transfers'[d].status = "PAIRED"
    <3>1. runs[d] = <<>> /\ Sum(d) = 0
      BY <1>6, <2>1, <2>3 DEF Stage, CountsAsPosted
    <3>2. ~CountsAsPosted(d)'
      BY <2>1, <2>3 DEF CountsAsPosted
    <3> QED BY <1>1, <1>4, <2>3, <3>1, <3>2 DEF Stage
  <2> QED BY <1>3, <2>2, <2>3
<1> QED BY <1>0, <1>1, <1>5, <1>6

\* What a call has read of a document still fits what the document has become.
LEMMA DocStep ==
  ASSUME TransferTypeOK, CallsKnow, LastStands, TakeTurns, DocStands,
         [TransferNext]_transferVars
  PROVE  DocStands'
<1> HIDE DEF Doc, Run, Row
<1>1. SUFFICES ASSUME NEW d \in Doc \ ({Group} \cup overlapped')
               PROVE  Stage(d, runs[d])' /\ CallsFollow(d, runs[d])'
  BY DEF DocStands
<1>2. /\ d \in Doc /\ d # Group /\ d \notin overlapped
      /\ Stage(d, runs[d]) /\ CallsFollow(d, runs[d])
  BY <1>1, RunsLeftAlone DEF DocStands
<1> DEFINE s == runs[d]
           t == runs'[d]
<1>3. /\ s \in Seq(Run) /\ Len(s) \in Nat /\ DOMAIN s = 1 .. Len(s)
      /\ s = <<>> <=> Len(s) = 0
  BY <1>2 DEF TransferTypeOK
<1>4. /\ Stage(d, runs[d])'
      /\ \/ t = s
         \/ s = <<>> /\ Len(t) = 1 /\ \E c \in Client : CommitPost(c) /\ doc[c] = d
         \/ Len(s) = 1 /\ Len(t) = 2 /\ \E c \in Client : CommitVoid(c) /\ doc[c] = d
  <2>1. ASSUME NEW c \in Client, CommitPost(c), doc[c] = d
        PROVE  Stage(d, runs[d])' /\ (t = s \/ (s = <<>> /\ Len(t) = 1))
    BY <1>2, <2>1, PostInTurn
  <2>2. ASSUME NEW c \in Client, CommitVoid(c), doc[c] = d
        PROVE  Stage(d, runs[d])' /\ (t = s \/ (Len(s) = 1 /\ Len(t) = 2))
    BY <1>2, <2>2, VoidInTurn
  <2>3. CASE \A c \in Client : ~((CommitPost(c) \/ CommitVoid(c)) /\ doc[c] = d)
    BY <1>2, <2>3, ElsewhereInTurn
  <2> HIDE DEF s, t
  <2> QED BY <2>1, <2>2, <2>3
<1>5. ASSUME NEW c \in Client, At(c, d, {"void"})'
      PROVE  seen'[c] = 0 <=> Len(t) < 2
  <2>1. CASE At(c, d, {"void"}) /\ seen'[c] = seen[c]
    <3>1. seen[c] = 0 <=> Len(s) < 2
      BY <1>2, <2>1 DEF CallsFollow
    <3>2. ASSUME NEW e \in Client, CommitVoid(e), doc[e] = d
          PROVE  FALSE
      <4>1. At(e, d, {"void"})
        BY <3>2 DEF CommitVoid, At
      <4>2. e = c
        BY <1>2, <2>1, <4>1 DEF TakeTurns
      <4> QED BY <1>5, <3>2, <4>2, EndTypes DEF CommitVoid, At
    <3>3. t = s \/ (s = <<>> /\ Len(t) = 1)
      BY <1>4, <3>2
    <3> DEFINE n == Len(s)
               m == Len(t)
    <3>4. seen[c] = 0 <=> n < 2
      BY <3>1
    <3>5. m = n \/ (n = 0 /\ m = 1)
      BY <1>3, <3>3
    <3> HIDE DEF n, m, s, t
    <3>6. seen'[c] = 0 <=> m < 2
      BY <2>1, <3>4, <3>5
    <3> QED BY <3>6 DEF m, t
  <2>2. CASE UNCHANGED runs /\ (seen'[c] = 0 <=> ~VoidedBefore(d))
    <3>1. \/ s = <<>>
          \/ Len(s) = 1 /\ s[1].status = "POSTED"
          \/ Len(s) = 2 /\ s[1].status = "VOIDED" /\ s[2].status = "POSTED"
      BY <1>2 DEF Stage
    <3>2. VoidedBefore(d) <=> \E k \in 1 .. Len(s) : s[k].status = "VOIDED"
      BY <1>2, <1>3 DEF VoidedBefore
    <3> HIDE DEF s
    <3>3. VoidedBefore(d) <=> Len(s) = 2
      <4>1. CASE Len(s) = 0
        BY <3>2, <4>1
      <4>2. CASE Len(s) = 1 /\ s[1].status = "POSTED"
        BY <3>2, <4>2
      <4>3. CASE Len(s) = 2 /\ s[1].status = "VOIDED"
        BY <3>2, <4>3
      <4> QED BY <1>3, <3>1, <4>1, <4>2, <4>3
    <3>4. Len(s) = 0 \/ Len(s) = 1 \/ Len(s) = 2
      BY <1>3, <3>1
    <3> DEFINE n == Len(s)
               m == Len(t)
    <3>5. m = n
      BY <2>2 DEF s
    <3>6. (seen'[c] = 0 <=> n # 2) /\ n \in {0, 1, 2}
      BY <2>2, <3>3, <3>4
    <3> HIDE DEF n, m, t
    <3>7. seen'[c] = 0 <=> m < 2
      BY <3>5, <3>6
    <3> QED BY <3>7 DEF m, t
  <2> QED BY <1>2, <1>5, <2>1, <2>2, WhoVoids DEF At
<1>6. ASSUME NEW c \in Client, At(c, d, {"post", "posting"})', t # <<>>
      PROVE  /\ step'[c] = "posting" => seen'[c] # 0
             /\ d \in Payout => want'[c].status = "POSTED"
  <2>1. CASE /\ At(c, d, {"post", "posting"}) /\ want'[c] = want[c]
             /\ step'[c] = "posting" =>
                  \/ step[c] = "posting" /\ seen'[c] = seen[c]
                  \/ seen'[c] = Active(d) /\ UNCHANGED runs
    <3>1. ASSUME NEW e \in Client, CommitPost(e), doc[e] = d
          PROVE  FALSE
      <4>1. At(e, d, {"post", "posting"})
        BY <3>1 DEF CommitPost, At
      <4>2. e = c
        BY <1>2, <2>1, <4>1 DEF TakeTurns
      <4> QED BY <1>6, <3>1, <4>2, EndTypes DEF CommitPost, At
    <3>2. s # <<>>
      <4>1. t = s \/ Len(s) = 1
        BY <1>4, <3>1
      <4> HIDE DEF s, t
      <4> QED BY <1>3, <1>6, <4>1
    <3>3. (step[c] = "posting" => seen[c] # 0) /\ (d \in Payout => want[c].status = "POSTED")
      BY <1>2, <2>1, <3>2 DEF CallsFollow
    <3>4. Active(d) # 0
      BY <1>2, <3>2, ActiveIsTop DEF LastStands
    <3> QED BY <2>1, <3>3, <3>4
  <2>2. CASE /\ step'[c] = "post" /\ UNCHANGED runs
             /\ d \in Payout => /\ d \in DOMAIN transfers
                                /\ transfers[d].status \in {"PAIRED", "POSTED"}
                                /\ want'[c].status = transfers[d].status
    <3>1. ASSUME d \in Payout
          PROVE  transfers[d].status = "POSTED"
      <4>1. s # <<>> /\ d # Event
        BY <1>6, <2>2, <3>1, DocKinds
      <4> QED BY <1>2, <2>2, <3>1, <4>1 DEF Stage, CountsAsPosted
    <3> QED BY <2>2, <3>1
  <2> QED BY <1>2, <1>6, <2>1, <2>2, WhoPosts DEF At
<1> QED BY <1>4, <1>5, <1>6 DEF CallsFollow

----------------------------------------------------------------------------
(* The internal transfer *)

\* What GroupStands says of the runs r of the internal transfer.
Taken(r) == Len(r) = 2 /\ r[1].own /\ r[1].status = "VOIDED"
            /\ Added(r) = IF r[2].own THEN 1 ELSE 0

GroupRuns(r) ==
  \/ r = <<>> /\ Added(r) = 0
  \/ Len(r) = 1 /\ r[1].own /\ r[1].sum = 1 /\ Added(r) = 1
  \/ Taken(r)

LEMMA GroupRunsStep ==
  ASSUME TransferTypeOK, CallsKnow, LastStands, GroupStands, [TransferNext]_transferVars,
         Group \notin overlapped
  PROVE  /\ GroupRuns(runs'[Group])
         /\ \/ runs'[Group] = runs[Group]
            \/ \E c \in Client :
                 /\ CommitPost(c) /\ doc[c] = Group
                 /\ Taken(runs'[Group]) => Taken(runs[Group])
            \/ \E c \in Client : CommitVoid(c) /\ doc[c] = Group
<1> HIDE DEF Doc, Run
<1> DEFINE s == runs[Group]
           t == runs'[Group]
<1>1. Group \in Doc /\ s \in Seq(Run) /\ Len(s) \in Nat
  BY DocKinds DEF TransferTypeOK
<1>2. /\ GroupRuns(s)
      /\ Taken(s) => ~Busy(Group, {"void"})
      /\ \A c \in Client : step[c] = "posting" /\ doc[c] = Group /\ seen[c] = 0 => s = <<>>
  <2>1. Sum(Group) = Added(s)
    BY SumIsAdded
  <2>2. /\ \A c \in Client : step[c] = "posting" /\ doc[c] = Group /\ seen[c] = 0 => s = <<>>
        /\ \/ s = <<>> /\ Added(s) = 0
           \/ Len(s) = 1 /\ s[1].own /\ s[1].sum = 1 /\ Added(s) = 1
           \/ /\ Len(s) = 2 /\ s[1].own /\ s[1].status = "VOIDED"
              /\ Added(s) = IF s[2].own THEN 1 ELSE 0
              /\ ~Busy(Group, {"void"})
    BY <2>1 DEF GroupStands
  <2>3. s = <<>> => Len(s) = 0
    OBVIOUS
  <2> HIDE DEF s
  <2> QED BY <2>2, <2>3 DEF GroupRuns, Taken
<1>3. ASSUME NEW c \in Client, CommitPost(c), t # s
      PROVE  /\ doc[c] = Group /\ GroupRuns(t)
             /\ Taken(t) => Taken(s)
  <2>1. doc[c] = Group
    BY <1>1, <1>3, PostEffect
  <2>2. step[c] = "posting"
    BY <1>3 DEF CommitPost
  <2>3. \/ /\ seen[c] = 0 /\ Len(t) = Len(s) + 1
           /\ t[Len(t)].own = ~Held(Group, 0)
           /\ t[Len(t)].sum = IF Held(Group, 0) THEN 0 ELSE 1
           /\ Added(t) = Added(s) + t[Len(t)].sum
        \/ /\ seen[c] \in DOMAIN s /\ ~Held(Group, seen[c]) /\ Len(t) = Len(s)
           /\ \A i \in DOMAIN s \ {seen[c]} : t[i] = s[i]
           /\ t[seen[c]].own
           /\ Added(t) = Added(s) + 1
    BY <1>3, <2>1, PostEffect
  <2>4. t \in Seq(Run)
    BY <1>3, <2>1, PostEffect
  <2>5. ASSUME seen[c] = 0
        PROVE  Len(t) = 1 /\ t[1].own /\ t[1].sum = 1 /\ Added(t) = 1
    <3>1. s = <<>> /\ Added(s) = 0 /\ Len(s) = 0
      <4>1. s = <<>> /\ Len(s) = 0
        BY <1>2, <2>1, <2>2, <2>5
      <4> QED BY <1>2, <4>1 DEF GroupRuns, Taken
    <3>2. Held(Group, 0) = FALSE
      BY DEF Held
    <3>3. ~(seen[c] \in DOMAIN s)
      BY <3>1
    <3>4. Len(t) = 1 /\ t[Len(t)].sum = 1 /\ Added(t) = 1
      BY <2>3, <3>1, <3>2, <3>3
    <3>5. t[Len(t)].own
      BY <2>3, <3>2, <3>3
    <3> QED BY <3>4, <3>5
  <2>6. ASSUME seen[c] # 0
        PROVE  Taken(s) /\ Taken(t)
    <3> DEFINE k == seen[c]
    <3>1. /\ k \in DOMAIN s /\ ~Held(Group, k) /\ Len(t) = Len(s)
          /\ \A i \in DOMAIN s \ {k} : t[i] = s[i]
          /\ t[k].own
          /\ Added(t) = Added(s) + 1
      BY <2>3, <2>6
    <3>2. ~s[k].own
      BY <2>6, <3>1 DEF Held
    <3>3. s # <<>> /\ k \in 1 .. Len(s)
      BY <1>1, <3>1
    <3>4. Taken(s)
      <4>1. Len(s) = 1 => k = 1
        BY <3>3
      <4> QED BY <1>2, <3>2, <3>3, <4>1 DEF GroupRuns
    <3>5. k = 2
      <4>1. k \in 1 .. 2 /\ s[1].own
        BY <3>3, <3>4 DEF Taken
      <4> QED BY <3>2, <4>1
    <3>6. Len(t) = 2 /\ t[1] = s[1] /\ t[2].own
      BY <1>1, <3>1, <3>4, <3>5 DEF Taken
    <3>7. Added(t) = 1
      <4>1. Added(s) = 0
        BY <3>2, <3>4, <3>5 DEF Taken
      <4> QED BY <3>1, <4>1
    <3> QED BY <3>4, <3>6, <3>7 DEF Taken
  <2>7. CASE seen[c] = 0
    BY <2>1, <2>5, <2>7 DEF GroupRuns, Taken
  <2>8. CASE seen[c] # 0
    BY <2>1, <2>6, <2>8 DEF GroupRuns
  <2> QED BY <2>7, <2>8
<1>4. ASSUME NEW c \in Client, CommitVoid(c), t # s
      PROVE  doc[c] = Group /\ Taken(t)
  <2> DEFINE n == Len(s)
  <2>1. doc[c] = Group
    BY <1>1, <1>4, VoidElsewhere
  <2>2. /\ s # <<>> /\ Len(t) = n + 1
        /\ t[n].status = "VOIDED" /\ t[n].own = s[n].own /\ t[n].sum = s[n].sum
        /\ t[n + 1].own = FALSE
        /\ Added(t) = Added(s) - s[n].sum
    BY <1>4, <2>1, VoidEffect
  <2>3. Busy(Group, {"void"})
    BY <1>4, <2>1 DEF CommitVoid, Busy
  <2>4. Len(s) = 1 /\ s[1].own /\ s[1].sum = 1 /\ Added(s) = 1
    BY <1>2, <2>2, <2>3 DEF GroupRuns
  <2>5. Len(t) = 2 /\ t[1].status = "VOIDED" /\ Added(t) = 0
    BY <2>2, <2>4
  <2>6. t[1].own /\ t[2].own = FALSE
    BY <2>2, <2>4
  <2> QED BY <2>1, <2>5, <2>6 DEF Taken
<1>5. t = s \/ \E c \in Client : CommitPost(c) \/ CommitVoid(c)
  BY RunsLeftAlone
<1> HIDE DEF s, t
<1>6. \/ t = s
      \/ \E c \in Client : t # s /\ CommitPost(c)
      \/ \E c \in Client : t # s /\ CommitVoid(c)
  BY <1>5
<1>7. CASE t = s
  BY <1>2, <1>7 DEF s, t
<1>8. CASE \E c \in Client : t # s /\ CommitPost(c)
  BY <1>3, <1>8 DEF s, t
<1>9. CASE \E c \in Client : t # s /\ CommitVoid(c)
  BY <1>4, <1>9 DEF s, t, GroupRuns
<1> QED BY <1>6, <1>7, <1>8, <1>9

LEMMA GroupStep ==
  ASSUME TransferTypeOK, CallsKnow, LastStands, TakeTurns, GroupStands,
         [TransferNext]_transferVars
  PROVE  GroupStands'
<1> HIDE DEF Doc, Run
<1> DEFINE s == runs[Group]
           t == runs'[Group]
           Posts(c) == step[c] \in {"post", "posting"} /\ doc[c] = Group
<1>0. TransferTypeOK'
  BY TransferTypes
<1>1. SUFFICES ASSUME Group \notin overlapped'
               PROVE  GroupStands'
  BY DEF GroupStands
<1>2. Group \notin overlapped /\ Group \in Doc
  BY <1>1, RunsLeftAlone, DocKinds
<1>3. /\ \A c, e \in Client : Posts(c) /\ Posts(e) => c = e
      /\ \A c \in Client : step[c] = "posting" /\ doc[c] = Group /\ seen[c] = 0 => s = <<>>
      /\ Taken(s) => (\A m \in legs : cash[m] = "VOIDED") /\ ~Busy(Group, {"void"})
  <2>1. Sum(Group) = Added(s)
    BY SumIsAdded
  <2>2. /\ \A c, e \in Client : Posts(c) /\ Posts(e) => c = e
        /\ \A c \in Client : step[c] = "posting" /\ doc[c] = Group /\ seen[c] = 0 => s = <<>>
    BY <1>2 DEF GroupStands, TakeTurns, At
  <2>3. \/ s = <<>>
        \/ Len(s) = 1
        \/ (\A m \in legs : cash[m] = "VOIDED") /\ ~Busy(Group, {"void"})
    BY <1>2 DEF GroupStands
  <2>4. Taken(s) => s # <<>> /\ Len(s) # 1
    BY DEF Taken
  <2> HIDE DEF s
  <2> QED BY <2>2, <2>3, <2>4
<1>4. /\ GroupRuns(t)
      /\ \/ t = s
         \/ \E c \in Client :
              CommitPost(c) /\ doc[c] = Group /\ (Taken(t) => Taken(s))
         \/ \E c \in Client : CommitVoid(c) /\ doc[c] = Group
  BY <1>2, GroupRunsStep
<1>6. ASSUME NEW c \in Client, step'[c] = "posting", doc'[c] = Group, seen'[c] = 0
      PROVE  t = <<>>
  <2>1. \/ Posts(c) /\ step[c] = "posting" /\ seen'[c] = seen[c]
        \/ seen'[c] = Active(Group) /\ UNCHANGED runs
    BY <1>2, <1>6, WhoPosts
  <2>2. CASE seen'[c] = Active(Group) /\ UNCHANGED runs
    <3>1. Active(Group) = 0 <=> s = <<>>
      BY <1>2, ActiveIsTop DEF LastStands
    <3> QED BY <1>6, <2>2, <3>1
  <2>3. CASE Posts(c) /\ step[c] = "posting" /\ seen'[c] = seen[c]
    <3>1. s = <<>>
      BY <1>3, <1>6, <2>3
    <3>2. ASSUME NEW e \in Client, CommitPost(e), doc[e] = Group
          PROVE  FALSE
      <4>1. Posts(e)
        BY <3>2 DEF CommitPost
      <4>2. e = c
        BY <1>3, <2>3, <4>1
      <4>3. step'[e] = "idle"
        BY <3>2, EndTypes DEF CommitPost
      <4> QED BY <1>6, <4>2, <4>3
    <3>3. ASSUME NEW e \in Client, CommitVoid(e), doc[e] = Group
          PROVE  t = s
      BY <3>1, <3>3, VoidEffect
    <3> QED BY <1>4, <3>1, <3>2, <3>3
  <2> QED BY <2>1, <2>2, <2>3
<1>7. ASSUME NEW c \in Client, CommitVoid(c), doc[c] = Group
      PROVE  (\A m \in legs' : cash'[m] = "VOIDED") /\ ~Busy(Group, {"void"})'
  <2>1. legs' = legs /\ legs \subseteq Cash
    BY RunsLeftAlone DEF TransferTypeOK
  <2>2. \A m \in legs : cash'[m] = "VOIDED"
    <3>1. LegsOf(Group) = legs
      BY DocKinds DEF LegsOf
    <3>2. \A m \in Cash : m \in LegsOf(Group) => cash'[m] = "VOIDED"
      BY <1>7 DEF CommitVoid
    <3> QED BY <2>1, <3>1, <3>2
  <2>3. ASSUME NEW e \in Client, step'[e] = "void", doc'[e] = Group
        PROVE  FALSE
    <3>1. step'[c] = "idle" /\ step[c] = "void"
      BY <1>7, EndTypes DEF CommitVoid
    <3>2. e # c
      BY <2>3, <3>1
    <3>3. step[e] = "void" /\ doc[e] = Group
      BY <1>7, <2>3, <3>2, OthersWait
    <3> QED BY <1>2, <1>7, <3>1, <3>2, <3>3 DEF TakeTurns, At
  <2> QED BY <2>1, <2>2, <2>3 DEF Busy
<1>8. ASSUME Taken(s)
      PROVE  (\A m \in legs' : cash'[m] = "VOIDED") /\ ~Busy(Group, {"void"})'
  <2>1. \A m \in legs : cash[m] = "VOIDED"
    BY <1>3, <1>8
  <2>2. legs' = legs /\ legs \subseteq Cash
    BY RunsLeftAlone DEF TransferTypeOK
  <2>3. \A m \in Cash : cash[m] = "VOIDED" => cash'[m] = "VOIDED"
    <3>1. ASSUME NEW c \in Client, CommitVoid(c)
          PROVE  \A m \in Cash : cash[m] = "VOIDED" => cash'[m] = "VOIDED"
      BY <3>1 DEF CommitVoid
    <3> QED BY <3>1, RunsLeftAlone
  <2>4. ASSUME NEW e \in Client, step'[e] = "void", doc'[e] = Group
        PROVE  FALSE
    <3>1. (step[e] = "void" /\ doc[e] = Group) \/ Voidable(Group)
      BY <1>2, <2>4, WhoVoids
    <3>2. ~Voidable(Group)
      BY <2>1, DocKinds DEF Voidable
    <3> QED BY <1>3, <1>8, <3>1, <3>2 DEF Busy
  <2> QED BY <2>1, <2>2, <2>3, <2>4 DEF Busy
<1>9. Taken(t) => (\A m \in legs' : cash'[m] = "VOIDED") /\ ~Busy(Group, {"void"})'
  <2> HIDE DEF s, t
  <2> QED BY <1>4, <1>7, <1>8
<1>10. Sum(Group)' = Added(t)
  BY DEF Sum, Added
<1> QED
  <2>1. \/ t = <<>> /\ Sum(Group)' = 0
        \/ Len(t) = 1 /\ t[1].own /\ t[1].sum = 1 /\ Sum(Group)' = 1
        \/ /\ Len(t) = 2 /\ t[1].own /\ t[1].status = "VOIDED"
           /\ Sum(Group)' = IF t[2].own THEN 1 ELSE 0
           /\ \A m \in legs' : cash'[m] = "VOIDED"
           /\ ~Busy(Group, {"void"})'
    <3> HIDE DEF t
    <3> QED BY <1>4, <1>9, <1>10 DEF GroupRuns, Taken
  <2> QED BY <1>6, <2>1 DEF GroupStands

----------------------------------------------------------------------------
(* Transfers: the theorems *)

LEMMA TransferStart == TransferInit => TransferIInv
<1> SUFFICES ASSUME TransferInit
             PROVE  TransferIInv
  OBVIOUS
<1> HIDE DEF Doc, Run, Row
<1>1. \A d \in Doc : runs[d] = <<>>
  BY DEF TransferInit
<1>2. \A d \in Doc : Sum(d) = 0
  BY <1>1, SumIsAdded, AddedNone
<1>3. Made = 0
  <2> DEFINE f == [d \in Doc |-> Len(runs[d])]
  <2>1. \A d \in Doc : f[d] = 0
    BY <1>1
  <2> HIDE DEF f
  <2>2. SumFunctionOnSet(f, Doc) = 0
    BY <2>1, DocKinds, SumZero
  <2> QED BY <2>2 DEF Made, f
<1>4. TransferTypeOK
  <2>1. Event \in Doc /\ NoRow \in Wanted /\ 0 \in 0 .. MaxRuns /\ MaxTransfers \in Nat
    BY DocKinds, NoRowIs, BoundsAssumption
  <2>2. legs \subseteq Cash
    BY DEF TransferInit, Cash
  <2>3. transfers \in Seq(Row) /\ Len(transfers) <= MaxTransfers
    BY <2>1 DEF TransferInit
  <2>4. runs \in [Doc -> Seq(Run)]
    BY DEF TransferInit
  <2> HIDE DEF NoRow, Wanted
  <2> QED BY <2>1, <2>2, <2>3, <2>4 DEF TransferInit, TransferTypeOK
<1>5. CallsKnow /\ CanceledCash
  BY DEF TransferInit, CallsKnow, Knows, CanceledCash
<1>6. LastStands
  <2>1. 0 <= MaxRuns
    BY BoundsAssumption
  <2> QED BY <1>1, <1>2, <1>3, <2>1 DEF LastStands
<1>7. TakeTurns /\ DocStands
  <2>1. ASSUME NEW d \in Doc \ {Group}
        PROVE  Stage(d, runs[d]) /\ CallsFollow(d, runs[d])
    <3>1. ~CountsAsPosted(d) /\ d \notin DOMAIN transfers
      BY DEF TransferInit, CountsAsPosted
    <3>2. \A c \in Client : step[c] = "idle"
      BY DEF TransferInit
    <3> QED BY <1>1, <1>2, <3>1, <3>2 DEF Stage, CallsFollow, At
  <2> QED BY <2>1 DEF TransferInit, TakeTurns, DocStands, At
<1>8. GroupStands
  <2>1. runs[Group] = <<>> /\ Sum(Group) = 0
    BY <1>1, <1>2, DocKinds
  <2> QED BY <2>1 DEF TransferInit, GroupStands
<1> QED BY <1>4, <1>5, <1>6, <1>7, <1>8 DEF TransferIInv

\* TransferInvariance: the inductive invariant holds, however calls on a payout, an
\* internal transfer and an event overlap (postTransfer, postInternalTransfer, postEvent
\* and their voids).
THEOREM TransferInvariance == TransferSpec => []TransferIInv
<1>1. TransferIInv /\ [TransferNext]_transferVars => TransferIInv'
  BY TransferTypes, CallsStep, CanceledStep, LastStep, TurnsStep, DocStep, GroupStep
     DEF TransferIInv
<1> QED BY TransferStart, <1>1, PTL DEF TransferSpec

\* CashAlwaysAgrees: a canceled payout leaves its cash void; the ledger never counts a
\* payout or an event twice, whatever overlaps; and what either says of itself, posted
\* or canceled or voided, is what the ledger counts, unless two posts of it have
\* overlapped or two voids.
THEOREM CashAlwaysAgrees == TransferSpec => []CashAgrees
<1>1. TransferIInv => CashAgrees
  <2> SUFFICES ASSUME TransferIInv
               PROVE  CashAgrees
    OBVIOUS
  <2> USE DEF TransferIInv
  <2> HIDE DEF Doc, Run
  <2>1. BookedOnce
    <3>1. ASSUME Group \notin overlapped
          PROVE  Sum(Group) \in {0, 1}
      BY <3>1 DEF GroupStands
    <3>2. \A d \in Doc \ {Group} : Sum(d) \in {0, 1}
      BY DEF LastStands
    <3> QED BY <3>1, <3>2 DEF BookedOnce
  <2>2. BooksFollow
    <3>1. ASSUME NEW d \in Doc \ {Group}, d \notin overlapped
          PROVE  Sum(d) = IF CountsAsPosted(d) THEN 1 ELSE 0
      <4>1. Stage(d, runs[d]) /\ runs[d] \in Seq(Run)
        BY <3>1 DEF DocStands, TransferTypeOK
      <4>2. Len(runs[d]) = 2 /\ runs[d][1].status = "VOIDED" => VoidedBefore(d)
        BY <3>1, <4>1 DEF VoidedBefore
      <4>3. d = Event \/ d \in Payout
        BY <3>1, DocKinds
      <4> QED BY <3>1, <4>1, <4>2, <4>3, DocKinds DEF Stage, CountsAsPosted
    <3> QED BY <3>1 DEF BooksFollow
  <2> QED BY <2>1, <2>2 DEF CashAgrees
<1> QED BY TransferInvariance, <1>1, PTL
=============================================================================
