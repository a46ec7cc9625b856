---------------------- MODULE TranscriptServiceProofs ----------------------
(***************************************************************************)
(* For any number of requests and any queue size: the three ways to the    *)
(* session exclude each other, no caller is forgotten, and the service     *)
(* implements SerialSession.                                               *)
(*                                                                         *)
(* The invariant ties the program counters to the mutex (Holder) and to    *)
(* the job channel (Jobs).  With them the session a request works on is    *)
(* the stored one until it stores its own (Current): that is why nothing   *)
(* is lost although Execute reads and writes in different steps.           *)
(***************************************************************************)
EXTENDS TranscriptService, TLAPS

Types ==
    /\ pc \in [Req -> Step]
    /\ mutex \in Req \union {None} /\ worker \in Req \union {None}
    /\ queue \in Seq(Req)
    /\ store \in Session
    /\ heard \in [Req -> Session] /\ view \in [Req -> Session]
    /\ pending \subseteq Req
    /\ calls \in [Req -> Nat]

Holder ==
    /\ \A r \in Req : InMutex(r) <=> mutex = r
    /\ \A r \in pending : pc[r] = "executing"

Jobs ==
    /\ \A i \in 1..Len(queue) : pc[queue[i]] = "waiting" /\ queue[i] # worker
    /\ \A i, j \in 1..Len(queue) : queue[i] = queue[j] => i = j
    /\ \A r \in Req : pc[r] = "waiting" =>
          worker = r \/ \E i \in 1..Len(queue) : queue[i] = r
    /\ worker # None => pc[worker] \in {"waiting", "executing", "executed"}

Current ==
    \A r \in Req :
        /\ pc[r] \in {"classifying", "immediate"} => heard[r] = store
        /\ pc[r] = "executing" => view[r] = store
        /\ pc[r] = "executing" /\ r \in Spoken /\ worker # r => view[r] \in {heard[r], Fresh}

IInv == Types /\ Holder /\ Jobs /\ Current

-----------------------------------------------------------------------------

\* The empty session is a session.
LEMMA FreshIsSession == Fresh \in Session
    BY DEF Fresh, Session

\* Nothing has been read, queued or called at first.
LEMMA InitInvariant == Init => IInv
    BY FreshIsSession, RequestsAssumption
    DEF Init, IInv, Types, Holder, Jobs, Current, Step, InMutex, Req

\* The types are kept by every step.
LEMMA TypesKept ==
    ASSUME Types, [Next]_vars
    PROVE  Types'
    <1> USE DEF Types, Goto, sessions, host
    <1>1. ASSUME NEW r \in Req, Send(r) PROVE Types'
      BY <1>1 DEF Send, Step
    <1>2. ASSUME NEW r \in Req, HostAnswers(r) PROVE Types'
      BY <1>2 DEF HostAnswers
    <1>3. ASSUME NEW r \in Req, RejectBlank(r) \/ Claim(r) \/ Unclaim(r) \/ Overflow(r)
          PROVE  Types'
      BY <1>3 DEF RejectBlank, Claim, Unclaim, Overflow, Step
    <1>4. ASSUME NEW r \in Req, Classify(r) PROVE Types'
      BY <1>4, FreshIsSession DEF Classify, Get, Step
    <1>5. ASSUME NEW r \in Req, Enqueue(r) PROVE Types'
      BY <1>5 DEF Enqueue, Step
    <1>6. ASSUME NEW r \in Req, ExecuteClaimed(r) \/ ExecuteControl(r) \/ ExecuteQueued(r)
          PROVE  Types'
      <2>1. Load(r) /\ (mutex' = mutex \/ mutex' = r)
        BY <1>6 DEF ExecuteClaimed, ExecuteControl, ExecuteQueued
      <2>2. PICK t \in {store, Fresh} : store' = t /\ view' = [view EXCEPT ![r] = t]
        BY <2>1 DEF Load, Get
      <2>3. store' \in Session /\ view' \in [Req -> Session]
        BY <2>2, FreshIsSession
      <2>4. pc' \in [Req -> Step] /\ calls' \in [Req -> Nat]
        BY <2>1 DEF Load, Step
      <2> QED BY <2>1, <2>3, <2>4 DEF Load
    <1>7. ASSUME NEW r \in Req, CallHost(r) PROVE Types'
      BY <1>7 DEF CallHost
    <1>8. ASSUME NEW r \in Req, Finish(r) PROVE Types'
      BY <1>8, FreshIsSession DEF Finish, Session, Step
    <1>9. ASSUME NEW r \in Req, Respond(r) PROVE Types'
      BY <1>9 DEF Respond, Step
    <1>10. CASE Receive
      BY <1>10 DEF Receive
    <1>11. CASE Quiet \/ UNCHANGED vars
      BY <1>11 DEF Quiet, vars
    <1> QED BY <1>1, <1>2, <1>3, <1>4, <1>5, <1>6, <1>7, <1>8, <1>9, <1>10, <1>11
            DEF Next, Handler

\* Only the holder of the mutex is in it, and only it has calls outstanding.
LEMMA HolderKept ==
    ASSUME Types, Holder, [Next]_vars
    PROVE  Holder'
    <1> USE RequestsAssumption DEF Types, Holder, InMutex, Goto, sessions, host
    <1>1. ASSUME NEW r \in Req, Send(r) PROVE Holder'
      BY <1>1 DEF Send
    <1>2. ASSUME NEW r \in Req, HostAnswers(r) PROVE Holder'
      BY <1>2 DEF HostAnswers
    <1>3. ASSUME NEW r \in Req, RejectBlank(r) \/ Enqueue(r) \/ Overflow(r) PROVE Holder'
      BY <1>3 DEF RejectBlank, Enqueue, Overflow
    <1>4. ASSUME NEW r \in Req, Classify(r) PROVE Holder'
      BY <1>4 DEF Classify, Get
    <1>5. ASSUME NEW r \in Req, Claim(r) PROVE Holder'
      BY <1>5 DEF Claim
    <1>6. ASSUME NEW r \in Req, Unclaim(r) PROVE Holder'
      BY <1>6 DEF Unclaim
    <1>7. ASSUME NEW r \in Req, ExecuteClaimed(r) PROVE Holder'
      BY <1>7 DEF ExecuteClaimed, Load, Get
    <1>8. ASSUME NEW r \in Req, ExecuteControl(r) \/ ExecuteQueued(r) PROVE Holder'
      BY <1>8 DEF ExecuteControl, ExecuteQueued, Load, Get
    <1>9. ASSUME NEW r \in Req, CallHost(r) PROVE Holder'
      BY <1>9 DEF CallHost
    <1>10. ASSUME NEW r \in Req, Finish(r) PROVE Holder'
      BY <1>10 DEF Finish
    <1>11. ASSUME NEW r \in Req, Respond(r) PROVE Holder'
      BY <1>11 DEF Respond
    <1>12. CASE Receive
      BY <1>12 DEF Receive
    <1>13. CASE Quiet \/ UNCHANGED vars
      BY <1>13 DEF Quiet, vars
    <1> QED BY <1>1, <1>2, <1>3, <1>4, <1>5, <1>6, <1>7, <1>8, <1>9, <1>10, <1>11,
               <1>12, <1>13 DEF Next, Handler

\* A step of a request that is neither queued nor becomes so.
LEMMA JobsMoved ==
    ASSUME Types, Jobs, NEW r \in Req, NEW step,
           pc[r] # "waiting", step # "waiting", pc' = [pc EXCEPT ![r] = step],
           UNCHANGED <<queue, worker>>,
           worker = r => step \in {"executing", "executed"}
    PROVE  Jobs'
    <1>1. \A i \in 1..Len(queue) : queue[i] \in Req /\ queue[i] # r
      BY DEF Types, Jobs
    <1>2. \A q \in Req : (pc'[q] = "waiting" <=> pc[q] = "waiting")
                         /\ (q # r => pc'[q] = pc[q])
      BY DEF Types
    <1>3. worker # None => pc'[worker] \in {"waiting", "executing", "executed"}
      BY RequestsAssumption DEF Types, Jobs
    <1> QED BY <1>1, <1>2, <1>3 DEF Jobs

\* The job channel and the worker hold the waiting requests, each once.
LEMMA JobsKept ==
    ASSUME Types, Holder, Jobs, [Next]_vars
    PROVE  Jobs'
    <1> USE RequestsAssumption DEF Types, Jobs, Goto, sessions, host
    <1>1. ASSUME NEW r \in Req, Send(r) PROVE Jobs'
      <2>1. pc' = [pc EXCEPT ![r] = "sent"]
        BY <1>1 DEF Send
      <2>2. pc[r] = "unsaid" /\ UNCHANGED <<queue, worker>>
        BY <1>1 DEF Send
      <2> QED BY <2>1, <2>2, JobsMoved
    <1>2. ASSUME NEW r \in Req, HostAnswers(r) \/ CallHost(r) PROVE Jobs'
      BY <1>2 DEF HostAnswers, CallHost
    <1>3. ASSUME NEW r \in Req,
                 RejectBlank(r) \/ Claim(r) \/ Unclaim(r) \/ Overflow(r) \/ Classify(r)
          PROVE  Jobs'
      <2>1. PICK step \in {"classifying", "immediate", "unclaimed", "refused"} :
               pc' = [pc EXCEPT ![r] = step]
        BY <1>3 DEF RejectBlank, Claim, Unclaim, Overflow, Classify
      <2>2. pc[r] \in {"sent", "classifying", "unclaimed"} /\ UNCHANGED <<queue, worker>>
        BY <1>3 DEF RejectBlank, Claim, Unclaim, Overflow, Classify
      <2> QED BY <2>1, <2>2, JobsMoved
    <1>4. ASSUME NEW r \in Req, Enqueue(r) PROVE Jobs'
      <2>1. /\ pc[r] = "unclaimed" /\ queue' = Append(queue, r)
            /\ pc' = [pc EXCEPT ![r] = "waiting"] /\ worker' = worker
        BY <1>4 DEF Enqueue
      <2>2. \A i \in 1..Len(queue) : queue[i] # r
        BY <2>1
      <2>3. worker # r
        BY <2>1
      <2>4. /\ Len(queue') = Len(queue) + 1 /\ queue'[Len(queue) + 1] = r
            /\ \A i \in 1..Len(queue) : queue'[i] = queue[i]
        BY <2>1
      <2>5. \A i \in 1..Len(queue') : pc'[queue'[i]] = "waiting" /\ queue'[i] # worker'
        BY <2>1, <2>3, <2>4
      <2>6. \A i, j \in 1..Len(queue') : queue'[i] = queue'[j] => i = j
        <3> SUFFICES ASSUME NEW i \in 1..Len(queue'), NEW j \in 1..Len(queue'),
                            queue'[i] = queue'[j]
                     PROVE  i = j
          OBVIOUS
        <3>1. Len(queue) \in Nat /\ queue \in Seq(Req)
          OBVIOUS
        <3>2. /\ i \in 1..Len(queue) \/ i = Len(queue) + 1
              /\ j \in 1..Len(queue) \/ j = Len(queue) + 1
          BY <2>4, <3>1
        <3>3. CASE i \in 1..Len(queue) /\ j \in 1..Len(queue)
          BY <2>4, <3>3
        <3>4. CASE i = Len(queue) + 1 /\ j \in 1..Len(queue)
          BY <2>2, <2>4, <3>4
        <3>5. CASE i \in 1..Len(queue) /\ j = Len(queue) + 1
          BY <2>2, <2>4, <3>5
        <3> QED BY <3>2, <3>3, <3>4, <3>5
      <2>7. \A q \in Req : pc'[q] = "waiting" =>
               worker' = q \/ \E i \in 1..Len(queue') : queue'[i] = q
        BY <2>1, <2>4
      <2>8. worker' # None => pc'[worker'] \in {"waiting", "executing", "executed"}
        BY <2>1, <2>3
      <2> QED BY <2>5, <2>6, <2>7, <2>8
    <1>5. ASSUME NEW r \in Req, ExecuteClaimed(r) \/ ExecuteControl(r) \/ ExecuteQueued(r)
          PROVE  Jobs'
      <2>1. pc' = [pc EXCEPT ![r] = "executing"] /\ UNCHANGED <<queue, worker>>
        BY <1>5 DEF ExecuteClaimed, ExecuteControl, ExecuteQueued, Load
      <2>2. CASE pc[r] # "waiting"
        BY <2>1, <2>2, JobsMoved
      <2>3. CASE pc[r] = "waiting"
        <3>1. worker = r
          BY <1>5, <2>3 DEF ExecuteClaimed, ExecuteControl, ExecuteQueued
        <3>2. \A i \in 1..Len(queue) : queue[i] \in Req /\ queue[i] # r
          BY <3>1
        <3>3. \A q \in Req : q # r => pc'[q] = pc[q]
          BY <2>1
        <3>4. pc'[r] = "executing"
          BY <2>1
        <3> QED BY <2>1, <3>1, <3>2, <3>3, <3>4
      <2> QED BY <2>2, <2>3
    <1>6. ASSUME NEW r \in Req, Finish(r) PROVE Jobs'
      BY <1>6 DEF Finish
    <1>7. ASSUME NEW r \in Req, Respond(r) PROVE Jobs'
      BY <1>7 DEF Respond
    <1>8. CASE Receive
      <2>1. /\ queue # << >> /\ worker = None /\ worker' = queue[1]
            /\ queue' = Tail(queue) /\ pc' = pc
        BY <1>8 DEF Receive
      <2>2. /\ Len(queue') = Len(queue) - 1 /\ Len(queue) \in Nat \ {0}
            /\ \A i \in 1..Len(queue') : queue'[i] = queue[i + 1]
        BY <2>1
      <2>3. \A i \in 1..Len(queue') : pc'[queue'[i]] = "waiting" /\ queue'[i] # worker'
        BY <2>1, <2>2
      <2>4. \A i, j \in 1..Len(queue') : queue'[i] = queue'[j] => i = j
        BY <2>1, <2>2
      <2>5. \A q \in Req : pc'[q] = "waiting" =>
               worker' = q \/ \E i \in 1..Len(queue') : queue'[i] = q
        <3> SUFFICES ASSUME NEW q \in Req, pc[q] = "waiting", queue[1] # q
                     PROVE  \E i \in 1..Len(queue') : queue'[i] = q
          BY <2>1
        <3>1. PICK i \in 1..Len(queue) : queue[i] = q
          BY <2>1
        <3>2. i # 1
          BY <3>1
        <3>3. i - 1 \in 1..Len(queue') /\ (i - 1) + 1 = i
          BY <2>2, <3>1, <3>2
        <3>4. queue'[i - 1] = q
          BY <2>2, <3>1, <3>3
        <3> QED BY <3>3, <3>4
      <2> QED BY <2>1, <2>2, <2>3, <2>4, <2>5
    <1>9. CASE Quiet \/ UNCHANGED vars
      BY <1>9 DEF Quiet, vars
    <1> QED BY <1>1, <1>2, <1>3, <1>4, <1>5, <1>6, <1>7, <1>8, <1>9 DEF Next, Handler

\* What a request in the mutex has read is what is stored.
LEMMA CurrentKept ==
    ASSUME Types, Holder, Jobs, Current, [Next]_vars
    PROVE  Current'
    <1> USE RequestsAssumption DEF Types, Current, Goto, sessions, host
    <1>0. \A q, r \in Req : InMutex(q) /\ InMutex(r) => q = r
      BY DEF Holder
    <1>1. ASSUME NEW r \in Req, Send(r) PROVE Current'
      BY <1>1 DEF Send
    <1>2. ASSUME NEW r \in Req, HostAnswers(r) \/ CallHost(r) PROVE Current'
      BY <1>2 DEF HostAnswers, CallHost
    <1>3. ASSUME NEW r \in Req,
                 RejectBlank(r) \/ Claim(r) \/ Unclaim(r) \/ Overflow(r) \/ Enqueue(r)
          PROVE  Current'
      BY <1>3 DEF RejectBlank, Claim, Unclaim, Overflow, Enqueue
    <1>4. ASSUME NEW r \in Req, Classify(r) PROVE Current'
      <2>1. \A q \in Req : ~InMutex(q)
        BY <1>4 DEF Classify, Holder
      <2>2. /\ pc' = [pc EXCEPT ![r] = "classifying"] /\ view' = view
            /\ heard' = [heard EXCEPT ![r] = store'] /\ worker' = worker
        BY <1>4 DEF Classify, Get
      <2> QED BY <2>1, <2>2 DEF InMutex
    <1>5. ASSUME NEW r \in Req, Load(r),
                 \A q \in Req : InMutex(q) => q = r,
                 \/ pc[r] = "immediate"
                 \/ pc[r] \in {"sent", "waiting"} /\ (r \in Control \/ worker = r)
          PROVE  Current'
      <2>1. PICK t \in {store, Fresh} : store' = t /\ view' = [view EXCEPT ![r] = t]
        BY <1>5 DEF Load, Get
      <2>2. pc' = [pc EXCEPT ![r] = "executing"] /\ heard' = heard /\ worker' = worker
        BY <1>5 DEF Load
      <2>3. view'[r] = store' /\ (pc[r] = "immediate" => view'[r] \in {heard'[r], Fresh})
        BY <2>1, <2>2
      <2>4. \A q \in Req : q # r => pc'[q] \notin {"classifying", "immediate", "executing"}
        BY <1>5, <2>2 DEF InMutex
      <2>5. pc'[r] = "executing"
        BY <2>2
      <2>6. r \in Spoken /\ worker # r => pc[r] = "immediate"
        BY <1>5
      <2> QED BY <2>2, <2>3, <2>4, <2>5, <2>6
    <1>6. ASSUME NEW r \in Req, ExecuteClaimed(r) \/ ExecuteControl(r) \/ ExecuteQueued(r)
          PROVE  Current'
      <2>1. Load(r)
        BY <1>6 DEF ExecuteClaimed, ExecuteControl, ExecuteQueued
      <2>2. \A q \in Req : InMutex(q) => q = r
        BY <1>6 DEF ExecuteClaimed, ExecuteControl, ExecuteQueued, Holder, InMutex
      <2>3. \/ pc[r] = "immediate"
            \/ pc[r] \in {"sent", "waiting"} /\ (r \in Control \/ worker = r)
        BY <1>6 DEF ExecuteClaimed, ExecuteControl, ExecuteQueued
      <2> QED BY <1>5, <2>1, <2>2, <2>3
    <1>7. ASSUME NEW r \in Req, Finish(r) PROVE Current'
      <2>1. \A q \in Req : InMutex(q) => q = r
        BY <1>7 DEF Finish, Holder, InMutex
      <2>2. pc' = [pc EXCEPT ![r] = "executed"]
        BY <1>7 DEF Finish
      <2> QED BY <2>1, <2>2 DEF InMutex
    <1>8. ASSUME NEW r \in Req, Respond(r) PROVE Current'
      <2>1. /\ pc' = [pc EXCEPT ![r] = "answered"] /\ pc[r] = "executed"
            /\ UNCHANGED sessions
            /\ \A q \in Req : q # r /\ worker' # q => worker # q
        BY <1>8 DEF Respond
      <2> QED BY <2>1
    <1>9. CASE Receive
      <2>1. worker = None /\ UNCHANGED <<pc, sessions>>
        BY <1>9 DEF Receive
      <2> QED BY <2>1
    <1>10. CASE Quiet \/ UNCHANGED vars
      BY <1>10 DEF Quiet, vars
    <1> QED BY <1>1, <1>2, <1>3, <1>4, <1>6, <1>7, <1>8, <1>9, <1>10 DEF Next, Handler

-----------------------------------------------------------------------------
(* The theorems.                                                           *)

\* The invariant always holds.
THEOREM Invariance == Spec => []IInv
    <1>1. IInv /\ [Next]_vars => IInv'
      BY TypesKept, HolderKept, JobsKept, CurrentKept DEF IInv
    <1> QED BY InitInvariant, <1>1, PTL DEF Spec

\* OneAtATime: work on a session never overlaps, so the host is asked for one
\* thing at a time.
THEOREM MutualExclusion == Spec => []OneAtATime
    <1>1. IInv => OneAtATime
      BY DEF IInv, Holder, OneAtATime
    <1> QED BY <1>1, Invariance, PTL

\* ClaimedSessionIsHeard: an immediate route acts on the session it was chosen for.
THEOREM ClaimIsAtomic == Spec => []ClaimedSessionIsHeard
    <1>1. IInv => ClaimedSessionIsHeard
      BY DEF IInv, Current, ClaimedSessionIsHeard, Req
    <1> QED BY <1>1, Invariance, PTL

\* NobodyForgotten: every blocked caller has exactly one job on its way.
THEOREM JobsAreKept == Spec => []NobodyForgotten
    <1>1. IInv => NobodyForgotten
      BY DEF IInv, Jobs, NobodyForgotten
    <1> QED BY <1>1, Invariance, PTL

\* SerialSession: the service implements a session that takes in one request at
\* a time, none lost and none twice.
THEOREM NothingIsLost == Spec => SerialSession
    <1> DEFINE finished == {r \in Req : pc[r] \in {"executed", "answered"}}
    <1>1. Init => Serial!SerialInit
      BY DEF Init, Serial!SerialInit, Fresh, Serial!Fresh
    <1>2. IInv /\ [Next]_vars => [Serial!SerialNext]_<<store, finished>>
      <2> SUFFICES ASSUME IInv, [Next]_vars
                   PROVE  [Serial!SerialNext]_<<store, finished>>
        OBVIOUS
      <2> USE DEF Goto, sessions
      <2>0. pc \in [Req -> Step]
        BY DEF IInv, Types
      <2>1. ASSUME NEW r \in Req, Finish(r) PROVE Serial!Absorb(r)
        <3>1. /\ pc[r] = "executing" /\ pc' = [pc EXCEPT ![r] = "executed"]
              /\ store' = Append(view[r], r)
          BY <2>1 DEF Finish
        <3>2. view[r] = store
          BY <3>1 DEF IInv, Current
        <3>3. r \notin finished /\ finished' = finished \union {r}
          BY <2>0, <3>1
        <3> QED BY <3>1, <3>2, <3>3 DEF Serial!Absorb
      <2>2. ASSUME NEW r \in Req,
                   Classify(r) \/ ExecuteClaimed(r) \/ ExecuteControl(r) \/ ExecuteQueued(r)
            PROVE  UNCHANGED <<store, finished>> \/ Serial!Expire
        <3>1. store' = store \/ store' = Fresh
          BY <2>2 DEF Classify, ExecuteClaimed, ExecuteControl, ExecuteQueued, Load, Get
        <3>2. PICK step \in {"classifying", "executing"} : pc' = [pc EXCEPT ![r] = step]
          BY <2>2 DEF Classify, ExecuteClaimed, ExecuteControl, ExecuteQueued, Load
        <3>3. pc[r] \in {"sent", "immediate", "waiting"}
          BY <2>2 DEF Classify, ExecuteClaimed, ExecuteControl, ExecuteQueued
        <3>4. finished' = finished
          BY <2>0, <3>2, <3>3
        <3> QED BY <3>1, <3>4 DEF Serial!Expire, Fresh, Serial!Fresh
      <2>3. ASSUME NEW r \in Req,
                   \/ Send(r) \/ HostAnswers(r) \/ CallHost(r)
                   \/ RejectBlank(r) \/ Claim(r) \/ Unclaim(r) \/ Enqueue(r)
                   \/ Overflow(r) \/ Respond(r)
            PROVE  UNCHANGED <<store, finished>>
        <3>1. store' = store
          BY <2>3 DEF Send, HostAnswers, CallHost, RejectBlank, Claim,
                      Unclaim, Enqueue, Overflow, Respond
        <3>2. \/ pc' = pc
              \/ /\ pc[r] = "executed" /\ pc' = [pc EXCEPT ![r] = "answered"]
              \/ /\ pc[r] \notin {"executed", "answered"}
                 /\ \E step \in Step \ {"executed", "answered"} :
                       pc' = [pc EXCEPT ![r] = step]
          BY <2>3 DEF Send, HostAnswers, CallHost, RejectBlank, Claim,
                      Unclaim, Enqueue, Overflow, Respond, Step
        <3>3. finished' = finished
          BY <2>0, <3>2
        <3> QED BY <3>1, <3>3
      <2>4. CASE Receive
        BY <2>4 DEF Receive
      <2>5. CASE Quiet \/ UNCHANGED vars
        BY <2>5 DEF Quiet, vars
      <2> QED BY <2>1, <2>2, <2>3, <2>4, <2>5 DEF Next, Handler, Serial!SerialNext
    <1> QED BY <1>1, <1>2, Invariance, PTL DEF Spec, SerialSession, Serial!SerialSpec

-----------------------------------------------------------------------------
(* The types that rest on a guard.                                         *)

Limits ==
    /\ Len(queue) <= QueueSize
    /\ calls \in [Req -> 0..MaxCalls]

\* The queue and the host calls keep to their limits.
LEMMA LimitsKept ==
    ASSUME Types, Limits, [Next]_vars
    PROVE  Limits'
    <1> USE BoundsAssumption DEF Types, Limits, Goto, sessions, host
    <1>1. ASSUME NEW r \in Req, Send(r) \/ HostAnswers(r) \/ Classify(r) \/ Claim(r) \/ Unclaim(r)
                                \/ Finish(r)
          PROVE  Limits'
      BY <1>1 DEF Send, HostAnswers, Classify, Claim, Unclaim, Finish
    <1>2. ASSUME NEW r \in Req, RejectBlank(r) \/ Overflow(r) \/ Respond(r) PROVE Limits'
      BY <1>2 DEF RejectBlank, Overflow, Respond
    <1>3. ASSUME NEW r \in Req, Enqueue(r) PROVE Limits'
      BY <1>3 DEF Enqueue
    <1>4. CASE Receive
      BY <1>4 DEF Receive
    <1>5. ASSUME NEW r \in Req, ExecuteClaimed(r) \/ ExecuteControl(r) \/ ExecuteQueued(r)
          PROVE  Limits'
      <2>1. Load(r)
        BY <1>5 DEF ExecuteClaimed, ExecuteControl, ExecuteQueued
      <2> QED BY <2>1 DEF Load
    <1>6. ASSUME NEW r \in Req, CallHost(r) PROVE Limits'
      BY <1>6 DEF CallHost
    <1>7. CASE UNCHANGED vars
      BY <1>7 DEF vars
    <1> QED BY <1>1, <1>2, <1>3, <1>4, <1>5, <1>6, <1>7 DEF Next, Handler, Quiet, vars

\* TypeOK: the state keeps its shape, and the queue never holds more than QueueSize jobs.
THEOREM TypeCorrect == Spec => []TypeOK
    <1>1. Init => Limits
      BY BoundsAssumption DEF Init, Limits
    <1>2. IInv /\ Limits /\ [Next]_vars => Limits'
      BY LimitsKept DEF IInv
    <1>3. IInv /\ Limits => TypeOK
      BY DEF IInv, Types, Limits, TypeOK
    <1> QED BY <1>1, <1>2, <1>3, Invariance, PTL DEF Spec

=============================================================================
