------------------------- MODULE TranscriptService -------------------------
(***************************************************************************)
(* transcript.Service and its callers: many voice.transcript requests, one *)
(* session.                                                                *)
(*                                                                         *)
(* The extension sends a request for each committed utterance without      *)
(* waiting for the answer to the one before.  The core runs a goroutine    *)
(* for each; it classifies the utterance under executeMu and either        *)
(* executes it at once (an immediate route) or puts it into a bounded      *)
(* queue for the single worker.  A control request (a cancel button) needs *)
(* no classification.  Execute reads the session, may call the host and    *)
(* wait for it any number of times, and writes the session.                *)
(*                                                                         *)
(* One session key; eviction is the choice Get makes.  What Execute does to *)
(* the session is the subject of VoiceSession: here a session is the list  *)
(* of the requests it has taken in since it was fresh.                     *)
(***************************************************************************)
EXTENDS Naturals, Sequences

CONSTANTS
    Spoken,         \* committed utterances
    Control,        \* control requests
    QueueSize,      \* defaultTranscriptQueueSize
    MaxCalls,       \* bound on the host requests of one execution
    None            \* no request

Req == Spoken \union Control

ASSUME RequestsAssumption == Spoken \intersect Control = {} /\ None \notin Req
ASSUME BoundsAssumption   == QueueSize \in Nat \ {0} /\ MaxCalls \in Nat

VARIABLES
    pc,         \* how far each request has come
    mutex,      \* the request executeMu is held for, or None
    queue,      \* the service's job channel
    worker,     \* the job in the worker's hands, or None
    store,      \* the stored session
    heard,      \* the session a request was classified in
    view,       \* the session a request is executed in
    pending,    \* the requests whose host call is outstanding (Server.pending)
    calls       \* host calls of the running executions

vars == <<pc, mutex, queue, worker, store, heard, view, pending, calls>>
sessions == <<store, heard, view>>
host == <<pending, calls>>

Step == {"unsaid", "sent", "classifying", "unclaimed", "waiting",
         "immediate", "executing", "executed", "answered", "refused"}

Fresh == << >>

Goto(r, step) == pc' = [pc EXCEPT ![r] = step]

-----------------------------------------------------------------------------
(* The extension.                                                          *)

\* client.transcript for a committed utterance, or the request of a cancel button.  The
\* core reads it and starts its goroutine.
Send(r) ==
    /\ pc[r] = "unsaid"
    /\ Goto(r, "sent")
    /\ UNCHANGED <<mutex, queue, worker, sessions, host>>

\* The extension answers a host request; it is read by Server.Run.
HostAnswers(r) ==
    /\ r \in pending
    /\ pending' = pending \ {r}
    /\ UNCHANGED <<pc, mutex, queue, worker, sessions, calls>>

-----------------------------------------------------------------------------
(* The core.                                                               *)

\* VoiceSessionStore.Get: the stored session, or an empty one when it was idle
\* for too long; that one is deleted.
Get(s) == s \in {store, Fresh} /\ store' = s

\* An utterance of blanks is invalid.
RejectBlank(r) ==
    /\ pc[r] = "sent" /\ r \in Spoken
    /\ Goto(r, "refused")
    /\ UNCHANGED <<mutex, queue, worker, sessions, host>>

\* tryImmediateAfterClassify takes the mutex and asks the model.
Classify(r) ==
    /\ pc[r] = "sent" /\ r \in Spoken
    /\ mutex = None
    /\ mutex' = r
    /\ \E s \in {store, Fresh} : Get(s) /\ heard' = [heard EXCEPT ![r] = s]
    /\ Goto(r, "classifying")
    /\ UNCHANGED <<queue, worker, view, host>>

\* Mutant: the mutex is released between the classifier and the execution.
ClaimUnlocked(r) ==
    /\ pc[r] = "classifying"
    /\ mutex' = None
    /\ Goto(r, "immediate")
    /\ UNCHANGED <<queue, worker, sessions, host>>

\* An immediate route is executed without releasing the mutex.
Claim(r) ==
    /\ pc[r] = "classifying"
    /\ Goto(r, "immediate")
    /\ UNCHANGED <<mutex, queue, worker, sessions, host>>

\* Mutant: a classifier that failed is asked again.
UnclaimAndRetry(r) ==
    /\ pc[r] = "classifying"
    /\ mutex' = None
    /\ Goto(r, "sent")
    /\ UNCHANGED <<queue, worker, sessions, host>>

\* Every other route, and a classifier that failed, is left to the worker.
Unclaim(r) ==
    /\ pc[r] = "classifying"
    /\ mutex' = None
    /\ Goto(r, "unclaimed")
    /\ UNCHANGED <<queue, worker, sessions, host>>

\* Mutant: the queue has no limit.
EnqueueUnbounded(r) ==
    /\ pc[r] = "unclaimed"
    /\ queue' = Append(queue, r)
    /\ Goto(r, "waiting")
    /\ UNCHANGED <<mutex, worker, sessions, host>>

Enqueue(r) ==
    /\ pc[r] = "unclaimed"
    /\ Len(queue) < QueueSize
    /\ queue' = Append(queue, r)
    /\ Goto(r, "waiting")
    /\ UNCHANGED <<mutex, worker, sessions, host>>

\* Mutant: the caller waits for the answer to a job that was not queued.
OverflowWaiting(r) ==
    /\ pc[r] = "unclaimed"
    /\ Len(queue) >= QueueSize
    /\ Goto(r, "waiting")
    /\ UNCHANGED <<mutex, queue, worker, sessions, host>>

\* "voice.transcript queue is full": the utterance is given up.
Overflow(r) ==
    /\ pc[r] = "unclaimed"
    /\ Len(queue) >= QueueSize
    /\ Goto(r, "refused")
    /\ UNCHANGED <<mutex, queue, worker, sessions, host>>

\* runWorker receives a job; it takes the mutex in a second step.
Receive ==
    /\ worker = None /\ queue # << >>
    /\ worker' = Head(queue)
    /\ queue' = Tail(queue)
    /\ UNCHANGED <<pc, mutex, sessions, host>>

\* The beginning of Execute.
Load(r) ==
    /\ \E s \in {store, Fresh} : Get(s) /\ view' = [view EXCEPT ![r] = s]
    /\ calls' = [calls EXCEPT ![r] = 0]
    /\ Goto(r, "executing")
    /\ UNCHANGED <<queue, worker, heard, pending>>

ExecuteClaimed(r) == pc[r] = "immediate" /\ Load(r) /\ UNCHANGED mutex

\* Mutants: a control request, or the worker, does not wait for the mutex.
ExecuteControlUnlocked(r) ==
    pc[r] = "sent" /\ r \in Control /\ mutex' = r /\ Load(r)

ExecuteQueuedUnlocked(r) ==
    worker = r /\ pc[r] = "waiting" /\ mutex' = r /\ Load(r)

ExecuteControl(r) ==
    /\ pc[r] = "sent" /\ r \in Control
    /\ mutex = None /\ mutex' = r
    /\ Load(r)

ExecuteQueued(r) ==
    /\ worker = r /\ pc[r] = "waiting"
    /\ mutex = None /\ mutex' = r
    /\ Load(r)

\* Server.Request: a handler sends a host request and waits.
CallHost(r) ==
    /\ pc[r] = "executing" /\ r \in Spoken \ pending
    /\ calls[r] < MaxCalls
    /\ pending' = pending \union {r}
    /\ calls' = [calls EXCEPT ![r] = @ + 1]
    /\ UNCHANGED <<pc, mutex, queue, worker, sessions>>

\* The end of Execute: persist, then the mutex is released.
Finish(r) ==
    /\ pc[r] = "executing" /\ r \notin pending
    /\ store' = Append(view[r], r)
    /\ view' = [view EXCEPT ![r] = Fresh]
    /\ heard' = [heard EXCEPT ![r] = Fresh]
    /\ mutex' = None
    /\ Goto(r, "executed")
    /\ UNCHANGED <<queue, worker, host>>

\* The worker hands over its result, or AcceptTranscript returns it; the answer
\* is written, and the extension ends its RPC.
Respond(r) ==
    /\ pc[r] = "executed"
    /\ worker' = IF worker = r THEN None ELSE worker
    /\ Goto(r, "answered")
    /\ UNCHANGED <<mutex, queue, sessions, host>>

\* Nothing is left to say or to answer.
Quiet == (\A r \in Req : pc[r] \in {"answered", "refused"}) /\ UNCHANGED vars

-----------------------------------------------------------------------------
(* The specification.                                                      *)

Init ==
    /\ pc = [r \in Req |-> "unsaid"]
    /\ mutex = None /\ queue = << >> /\ worker = None
    /\ store = Fresh
    /\ heard = [r \in Req |-> Fresh]
    /\ view = [r \in Req |-> Fresh]
    /\ pending = {}
    /\ calls = [r \in Req |-> 0]

\* The steps of the goroutine of request r, and of the worker on its behalf.
Handler(r) ==
    \/ RejectBlank(r) \/ Classify(r) \/ Claim(r) \/ Unclaim(r)
    \/ Enqueue(r) \/ Overflow(r) \/ ExecuteClaimed(r) \/ ExecuteControl(r)
    \/ ExecuteQueued(r) \/ CallHost(r) \/ Finish(r) \/ Respond(r)

Next ==
    \/ \E r \in Req : Send(r) \/ HostAnswers(r) \/ Handler(r)
    \/ Receive
    \/ Quiet

Spec == Init /\ [][Next]_vars

\* A goroutine that can go on does: the mutex reaches every waiter (there are
\* finitely many requests, so no waiter is overtaken for ever), model calls end
\* by their timeout, and the host answers.  Utterances may never be spoken.
Fairness ==
    /\ \A r \in Req : WF_vars(Handler(r)) /\ WF_vars(HostAnswers(r))
    /\ WF_vars(Receive)

FairSpec == Spec /\ Fairness

-----------------------------------------------------------------------------
(* Properties.                                                             *)

Session == Seq(Req)

\* The variables have the types of the Go fields they stand for.
TypeOK ==
    /\ pc \in [Req -> Step]
    /\ mutex \in Req \union {None} /\ worker \in Req \union {None}
    /\ queue \in Seq(Req) /\ Len(queue) <= QueueSize
    /\ store \in Session
    /\ heard \in [Req -> Session] /\ view \in [Req -> Session]
    /\ pending \subseteq Req
    /\ calls \in [Req -> 0..MaxCalls]

InMutex(r) == pc[r] \in {"classifying", "immediate", "executing"}

\* What ExecutionSerialized asks for (flows/execution.go:12): work on a session
\* never overlaps, whichever of the three ways it came to the mutex; so at most
\* one host call is outstanding, and it is that of the request in the mutex.
OneAtATime ==
    /\ \A q, r \in Req : InMutex(q) /\ InMutex(r) => q = r
    /\ \A r \in pending : pc[r] = "executing"

\* An immediate route is executed in the session it was classified in, or in an
\* empty one when the session expired while the model was thinking.
ClaimedSessionIsHeard ==
    \A r \in Spoken :
        pc[r] = "executing" /\ worker # r => view[r] \in {heard[r], Fresh}

\* A caller blocked on its response channel has its job in the queue or in the
\* worker's hands, and only once.
NobodyForgotten ==
    \A r \in Req :
        pc[r] = "waiting" =>
            \/ worker = r /\ \A i \in 1..Len(queue) : queue[i] # r
            \/ worker # r /\ \E i \in 1..Len(queue) :
                  queue[i] = r /\ \A j \in 1..Len(queue) : queue[j] = r => j = i

\* The mutex makes the requests take turns with the session: none is taken in
\* twice, none is overwritten by another that read the session before it.
Serial == INSTANCE SerialSession
             WITH session <- store,
                  done <- {r \in Req : pc[r] \in {"executed", "answered"}}

SerialSession == Serial!SerialSpec

\* Every request that reached the core is answered, also when others hold the
\* queue full and the mutex busy.
EveryRequestAnswered ==
    \A r \in Req : pc[r] = "sent" ~> pc[r] \in {"answered", "refused"}

=============================================================================
