---------------------------- MODULE Idempotency ----------------------------
(***************************************************************************)
(* IdempotencyInterceptor and IdempotencyService: what the requests that   *)
(* carry one Idempotency-Key (of one user, method and path) do to the two  *)
(* Redis keys it stands for, the cached response and the lock, around the  *)
(* handler they protect.                                                   *)
(*                                                                         *)
(* Every Redis command is a step of its own, since each one is awaited,    *)
(* and may fail: IdempotencyService catches the error and goes on as if    *)
(* the command had found nothing.  Keys expire at any time after they are  *)
(* set.  No controller sets cacheErrors, so errors are never cached.       *)
(***************************************************************************)
EXTENDS Naturals, FiniteSets

CONSTANTS
  Req,       \* requests with the key; a retry is another request
  Body,      \* hashes of request bodies
  MaxPolls,  \* maxRetries: how often a request without the lock looks again
  None       \* also the hash of a request that has no body

ASSUME PollsAssumption == MaxPolls \in Nat \ {0}
ASSUME NoneAssumption == None \notin Req \cup Body

VARIABLES
  cache,    \* the request whose response is cached, or None
  lock,     \* the request that set the lock, or None (Redis holds only '1')
  pc,       \* next step of a request
  body,     \* requestHash of a request; null without a body
  polls,    \* how often it has looked for the response of the lock's owner
  answer,   \* the request whose response a request was given
  effects,  \* requests whose handler has committed
  faults    \* history: what has happened that the interceptor may not survive

vars == <<cache, lock, pc, body, polls, answer, effects, faults>>

\* "failure": a process or a Redis command has failed, or a cached response has
\* expired.
Fault == {"overlap", "lockExpired", "failure"}

\* The request holds, or believes it holds, the lock.
Critical == {"handler", "store", "unlock"}

InFlight == {"get", "acquire", "poll"} \cup Critical

\* The answers: own response, replay, 409 for the body, 409 for the lock, the
\* error of the handler, and none at all.
Answered == {"executed", "replayed", "bodyConflict", "busy", "error", "crashed"}

PC == {"idle"} \cup InFlight \cup Answered

Init ==
  /\ cache = None /\ lock = None
  /\ pc = [q \in Req |-> "idle"]
  /\ body \in [Req -> Body \cup {None}]
  /\ polls = [q \in Req |-> 0]
  /\ answer = [q \in Req |-> None]
  /\ effects = {} /\ faults = {}

Goto(q, l) == pc' = [pc EXCEPT ![q] = l]

Note(S) == faults' = faults \cup S

\* A Redis command is carried out, or fails and is caught; one that fails may
\* have been carried out all the same, and only its reply lost.
Redis(ok) == ok \in BOOLEAN /\ Note(IF ok THEN {} ELSE {"failure"})

\* The first request, a retry, or a copy sent while another is in flight.
Arrive(q) ==
  /\ pc[q] = "idle"
  /\ Goto(q, "get")
  /\ Note(IF \E p \in Req : pc[p] \in InFlight THEN {"overlap"} ELSE {})
  /\ UNCHANGED <<cache, lock, body, polls, answer, effects>>

\* Fault: the body is not compared.
SameBodyAlways(p, q) == TRUE

\* The two are compared only if both requests have a body.
SameBody(p, q) == None \in {body[p], body[q]} \/ body[p] = body[q]

\* A response is cached: the request is answered with it, unless its body is
\* not the body the response was computed for.
Replay(q) ==
  /\ cache # None
  /\ IF SameBody(cache, q)
       THEN /\ answer' = [answer EXCEPT ![q] = cache]
            /\ Goto(q, "replayed")
       ELSE Goto(q, "bodyConflict") /\ UNCHANGED answer
  /\ UNCHANGED polls

\* getCachedResponse
LookUp(q) ==
  /\ pc[q] = "get"
  /\ \E ok \in BOOLEAN :
       /\ Redis(ok)
       /\ \/ ok /\ Replay(q)
          \/ (~ok \/ cache = None) /\ Goto(q, "acquire")
             /\ UNCHANGED <<answer, polls>>
  /\ UNCHANGED <<cache, lock, body, effects>>

\* Fault: SET without NX.
LockIsFreeAlways == TRUE

LockIsFree == lock = None

\* acquireLock; the cache is not read again once the lock is held
Acquire(q) ==
  /\ pc[q] = "acquire"
  /\ \E ok \in BOOLEAN :
       /\ Redis(ok)
       /\ \/ ok /\ LockIsFree /\ lock' = q /\ Goto(q, "handler")
          \/ /\ ~ok \/ ~LockIsFree
             /\ UNCHANGED lock \/ (LockIsFree /\ lock' = q)
             /\ Goto(q, "poll")
  /\ UNCHANGED <<cache, body, polls, answer, effects>>

\* Fault: the loop of waitForCachedResponse has no bound.
PollsNever(q) == polls[q]

PollsAfter(q) == polls[q] + 1

GivesUp(n) == n >= MaxPolls

\* One turn of waitForCachedResponse; after the last one the request gives up.
Poll(q) ==
  /\ pc[q] = "poll"
  /\ \E ok \in BOOLEAN :
       /\ Redis(ok)
       /\ \/ ok /\ Replay(q)
          \/ /\ ~ok \/ cache = None
             /\ polls' = [polls EXCEPT ![q] = PollsAfter(q)]
             /\ Goto(q, IF GivesUp(PollsAfter(q)) THEN "busy" ELSE "poll")
             /\ UNCHANGED answer
  /\ UNCHANGED <<cache, lock, body, effects>>

\* The handler commits, or throws and leaves nothing behind.
Handle(q) ==
  /\ pc[q] = "handler"
  /\ \/ effects' = effects \cup {q} /\ Goto(q, "store")
     \/ Goto(q, "unlock") /\ UNCHANGED effects
  /\ UNCHANGED <<cache, lock, body, polls, answer, faults>>

\* Fault: the response is not cached.
CachedNever(q) == cache

\* The response the SETEX leaves in the cache.
Cached(q) == q

\* cacheResponse: the response is stored over whatever is cached.
Store(q) ==
  /\ pc[q] = "store"
  /\ \E ok \in BOOLEAN :
       Redis(ok) /\ (cache' = Cached(q) \/ (~ok /\ UNCHANGED cache))
  /\ Goto(q, "unlock")
  /\ UNCHANGED <<lock, body, polls, answer, effects>>

\* releaseLock deletes the key, whoever has set it; then the answer goes out.
Unlock(q) ==
  /\ pc[q] = "unlock"
  /\ \E ok \in BOOLEAN :
       Redis(ok) /\ (lock' = None \/ (~ok /\ UNCHANGED lock))
  /\ IF q \in effects
       THEN Goto(q, "executed") /\ answer' = [answer EXCEPT ![q] = q]
       ELSE Goto(q, "error") /\ UNCHANGED answer
  /\ UNCHANGED <<cache, body, polls, effects>>

\* The process goes down with the request.
Crash(q) ==
  /\ pc[q] \in InFlight
  /\ Goto(q, "crashed") /\ Note({"failure"})
  /\ UNCHANGED <<cache, lock, body, polls, answer, effects>>

\* 60 seconds after it was set; early only for an owner still at work.
LockExpires ==
  /\ lock # None
  /\ lock' = None
  /\ Note(IF pc[lock] \in Critical THEN {"lockExpired"} ELSE {})
  /\ UNCHANGED <<cache, pc, body, polls, answer, effects>>

\* 24 hours after it was set
CacheExpires ==
  /\ cache # None
  /\ cache' = None
  /\ Note({"failure"})
  /\ UNCHANGED <<lock, pc, body, polls, answer, effects>>

Step(q) ==
  LookUp(q) \/ Acquire(q) \/ Poll(q) \/ Handle(q) \/ Store(q) \/ Unlock(q)

\* Every request is answered; the server waits for more.
Quiescent ==
  /\ \A q \in Req : pc[q] \in Answered
  /\ UNCHANGED vars

Next ==
  \/ \E q \in Req : Arrive(q) \/ Step(q) \/ Crash(q)
  \/ LockExpires \/ CacheExpires \/ Quiescent

Spec == Init /\ [][Next]_vars

\* The process executes a request it has taken.  Nothing is assumed of Redis:
\* a key may outlive its expiry for as long as it likes.
FairSpec == Spec /\ \A q \in Req : WF_vars(Step(q))

----------------------------------------------------------------------------
TypeOK ==
  /\ cache \in Req \cup {None} /\ lock \in Req \cup {None}
  /\ pc \in [Req -> PC] /\ body \in [Req -> Body \cup {None}]
  /\ polls \in [Req -> 0 .. MaxPolls]
  /\ answer \in [Req -> Req \cup {None}]
  /\ effects \subseteq Req /\ faults \subseteq Fault

\* The lock has no owner token, and any request may delete it; still no two
\* requests are in the handler together unless the handler has outlived the
\* expiry of the lock.  Crashes and Redis failures do not break this.
OneHandlerAtATime ==
  "lockExpired" \notin faults =>
    \A p, q \in Req : pc[p] \in Critical /\ pc[q] \in Critical => p = q

\* What the interceptor does give a client that waits for an answer before it
\* tries again: the handler commits at most once, even when the lock expires
\* under it, as long as no process or Redis command fails and the cached
\* response has not expired.
OnceIfSerial ==
  faults \subseteq {"lockExpired"} => \A p, q \in effects : p = q

\* Two bodies never share a response: a request that carries a body is not
\* answered with what was computed for another one, whichever of the two reads
\* found it and however the requests interleave.  A request without a body is
\* outside the promise, on either side: it is not compared.
BodyChecked ==
  \A q \in Req :
    answer[q] # None /\ None \notin {body[q], body[answer[q]]}
      => body[answer[q]] = body[q]

\* A request never hangs on a lock whose owner is gone: it is answered, if
\* only with "being processed by another request".
EveryRequestEnds == \A q \in Req : pc[q] = "get" ~> pc[q] \in Answered

----------------------------------------------------------------------------
(* The inductive invariant behind the safety properties *)

LockIsOwned ==
  "lockExpired" \notin faults =>
    \A q \in Req : pc[q] \in Critical => lock = q

OneInFlight ==
  "overlap" \notin faults =>
    \A p, q \in Req : pc[p] \in InFlight /\ pc[q] \in InFlight => p = q

\* Without a fault, the request that has committed is about to cache its
\* response or has done so, and no other one has got past the first look-up.
EffectIsCached ==
  faults \subseteq {"lockExpired"} =>
    /\ \A e \in effects : pc[e] = "store" \/ cache = e
    /\ effects # {} => \A q \in Req : pc[q] \notin {"acquire", "poll", "handler"}

\* A request that may look again has a look left.
LookLeft ==
  \A q \in Req :
    pc[q] \in {"idle", "get", "acquire", "poll"} => polls[q] < MaxPolls

\* A response is cached after its request has committed.
CachedHasEffect ==
  /\ cache # None => cache \in effects
  /\ \A q \in Req : pc[q] = "store" => q \in effects

IInv ==
  /\ TypeOK /\ LookLeft /\ LockIsOwned /\ OneInFlight /\ EffectIsCached
  /\ CachedHasEffect /\ BodyChecked /\ OnceIfSerial

=============================================================================
