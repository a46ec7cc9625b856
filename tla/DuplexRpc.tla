----------------------------- MODULE DuplexRpc -----------------------------
(***************************************************************************)
(* The connection of the extension (RpcTransport) and the core (Server):   *)
(* two pipes of JSON lines on which both sides make calls.                 *)
(*                                                                         *)
(* Both sides number their calls from one, so that equal numbers are in    *)
(* flight in both directions; whether a line has a method tells a request  *)
(* from an answer.  The core serves each request in a goroutine, which may *)
(* ask the extension (host.applyDirectives, host.readFile, ...) and waits  *)
(* for the answer.  Nothing on either side has a timeout.                  *)
(*                                                                         *)
(* An error answer is an answer.  The body of a line is abstracted to the  *)
(* call it is about; a line may be longer than the core's scanner takes.   *)
(***************************************************************************)
EXTENDS Naturals, Sequences

CONSTANTS
    Call,       \* the calls the extension makes (voice.transcript)
    None,       \* no call
    MaxAsks     \* bound on the questions the core asks on one connection

ASSUME NoneAssumption == None \notin Call

ASSUME AsksAssumption == MaxAsks \in Nat

VARIABLES
    call,       \* the promise of each call
    answer,     \* whose answer has settled it
    issued,     \* the call each id of the extension was given to
    pending,    \* the ids of RpcTransport.pending
    hosting,    \* host requests a handler of the extension is busy with
    disposed,   \* RpcTransport.disposed
    exitSeen,   \* the exit event was handled
    alive,      \* the core's process runs
    reader,     \* whether Run still scans its input
    handler,    \* the goroutine that serves each call
    told,       \* whose answer a handler was given by the host
    asked,      \* the handler each id of the core was given to
    awaited,    \* the ids of Server.pending
    toCore, toExt

extension == <<call, answer, issued, pending, hosting, disposed, exitSeen>>
core == <<alive, reader, handler, told, asked, awaited>>
vars == <<extension, core, toCore, toExt>>

Request(id, c, long)  == [kind |-> "request",  id |-> id, about |-> c, long |-> long]
Response(id, c, long) == [kind |-> "response", id |-> id, about |-> c, long |-> long]

Message == [kind : {"request", "response"}, id : Nat \ {0}, about : Call, long : BOOLEAN]

\* The ids given out so far.
Ids(given) == 1..Len(given)

\* A line written to the core; a dead process reads nothing.
WriteToCore(line) == toCore' = IF alive THEN Append(toCore, line) ELSE toCore

\* Settling the calls with the ids in S.
Settled(S, how) == [c \in Call |-> IF \E i \in S : issued[i] = c THEN how ELSE call[c]]

-----------------------------------------------------------------------------
(* The extension.                                                          *)

\* Mutant: the ids begin at zero.
MakeFromZero(c, long) ==
    /\ call[c] = "idle" /\ ~disposed
    /\ call' = [call EXCEPT ![c] = "pending"]
    /\ issued' = Append(issued, c)
    /\ pending' = pending \union {Len(issued)}
    /\ WriteToCore(Request(Len(issued), c, long))
    /\ UNCHANGED <<answer, hosting, disposed, exitSeen, core, toExt>>

\* request(), on a transport that is in use.
Make(c, long) ==
    /\ call[c] = "idle" /\ ~disposed
    /\ call' = [call EXCEPT ![c] = "pending"]
    /\ issued' = Append(issued, c)
    /\ pending' = pending \union {Len(issued) + 1}
    /\ WriteToCore(Request(Len(issued) + 1, c, long))
    /\ UNCHANGED <<answer, hosting, disposed, exitSeen, core, toExt>>

\* request(), after dispose().
MakeRefused(c) ==
    /\ call[c] = "idle" /\ disposed
    /\ call' = [call EXCEPT ![c] = "failed"]
    /\ UNCHANGED <<answer, issued, pending, hosting, disposed, exitSeen, core, toCore, toExt>>

\* handleMessage, a line with a method: a handler starts.
HearRequest ==
    /\ toExt # << >> /\ Head(toExt).kind = "request"
    /\ toExt' = Tail(toExt)
    /\ hosting' = hosting \union {Head(toExt).id}
    /\ UNCHANGED <<call, answer, issued, pending, disposed, exitSeen, core, toCore>>

\* The call whose id is in hit is settled with the first line's answer.
Settle(hit) ==
    /\ toExt' = Tail(toExt)
    /\ pending' = pending \ hit
    /\ call' = Settled(hit, "answered")
    /\ answer' = [c \in Call |-> IF \E i \in hit : issued[i] = c THEN Head(toExt).about
                                 ELSE answer[c]]
    /\ UNCHANGED <<issued, hosting, disposed, exitSeen, core, toCore>>

\* Mutant: whether a line has a method is not looked at.
HearAnyAnswer ==
    /\ toExt # << >>
    /\ Settle({Head(toExt).id} \intersect pending)

\* Mutant: the table of pending calls is not consulted.
HearLateAnswer ==
    /\ toExt # << >> /\ Head(toExt).kind = "response"
    /\ Settle({Head(toExt).id} \intersect Ids(issued))

\* handleMessage, a line without: the call with its id is settled, if there is one.
HearAnswer ==
    /\ toExt # << >> /\ Head(toExt).kind = "response"
    /\ Settle({Head(toExt).id} \intersect pending)

\* Mutant: a host handler that throws is not answered.
ServeSilently(id, long) ==
    /\ id \in hosting
    /\ hosting' = hosting \ {id}
    /\ toCore' = IF alive /\ ~long THEN Append(toCore, Response(id, asked[id], FALSE)) ELSE toCore
    /\ UNCHANGED <<call, answer, issued, pending, disposed, exitSeen, core, toExt>>

\* The host handler's promise is settled, and its answer is written.
Serve(id, long) ==
    /\ id \in hosting
    /\ hosting' = hosting \ {id}
    /\ WriteToCore(Response(id, asked[id], long))
    /\ UNCHANGED <<call, answer, issued, pending, disposed, exitSeen, core, toExt>>

\* rejectAll.
RejectAll ==
    /\ call' = Settled(pending, "failed")
    /\ pending' = {}

\* Mutant: the exit is logged only.
SeeExitOnly ==
    /\ ~alive /\ ~exitSeen
    /\ exitSeen' = TRUE
    /\ UNCHANGED <<call, answer, issued, pending, hosting, disposed, core, toCore, toExt>>

\* The process's exit event.  What the core wrote before may still arrive.
SeeExit ==
    /\ ~alive /\ ~exitSeen
    /\ exitSeen' = TRUE
    /\ RejectAll
    /\ UNCHANGED <<answer, issued, hosting, disposed, core, toCore, toExt>>

\* dispose(); the transport goes on reading its process's output.
Dispose ==
    /\ ~disposed /\ disposed' = TRUE
    /\ RejectAll
    /\ UNCHANGED <<answer, issued, hosting, exitSeen, core, toCore, toExt>>

-----------------------------------------------------------------------------
(* The core.                                                               *)

Reading == alive /\ reader = "reading" /\ toCore # << >>

\* Run: a request gets a goroutine.
ReadRequest ==
    /\ Reading /\ ~Head(toCore).long /\ Head(toCore).kind = "request"
    /\ toCore' = Tail(toCore)
    /\ handler' = [handler EXCEPT ![Head(toCore).about] = "running"]
    /\ UNCHANGED <<extension, alive, reader, told, asked, awaited, toExt>>

\* Run: an answer is given to the goroutine that waits for its id, if any.
ReadAnswer ==
    /\ Reading /\ ~Head(toCore).long /\ Head(toCore).kind = "response"
    /\ toCore' = Tail(toCore)
    /\ LET hit == {Head(toCore).id} \intersect awaited
           woken == {c \in Call : \E i \in hit : asked[i] = c}
       IN  /\ awaited' = awaited \ hit
           /\ handler' = [c \in Call |-> IF c \in woken THEN "running" ELSE handler[c]]
           /\ told' = [c \in Call |-> IF c \in woken THEN Head(toCore).about ELSE told[c]]
    /\ UNCHANGED <<extension, alive, reader, asked, toExt>>

\* Run: the scanner gives up at a line of more than a megabyte.
ReadTooLong ==
    /\ Reading /\ Head(toCore).long
    /\ reader' = "ended"
    /\ UNCHANGED <<extension, alive, handler, told, asked, awaited, toCore, toExt>>

\* Request(): the handler registers, writes, and waits.
Ask(c) ==
    /\ alive /\ handler[c] = "running" /\ Len(asked) < MaxAsks
    /\ handler' = [handler EXCEPT ![c] = "asking"]
    /\ asked' = Append(asked, c)
    /\ awaited' = awaited \union {Len(asked) + 1}
    /\ toExt' = Append(toExt, Request(Len(asked) + 1, c, FALSE))
    /\ UNCHANGED <<extension, alive, reader, told, toCore>>

\* Mutant: an error of the handler is logged and not encoded.
ReplyOrNot(c) ==
    /\ alive /\ handler[c] = "running"
    /\ handler' = [handler EXCEPT ![c] = "done"]
    /\ \E id \in Ids(issued) :
          /\ issued[id] = c
          /\ toExt' \in {toExt, Append(toExt, Response(id, c, FALSE))}
    /\ UNCHANGED <<extension, alive, reader, told, asked, awaited, toCore>>

\* The handler ends: encodeSuccess or encodeError with the id of its request.
Reply(c) ==
    /\ alive /\ handler[c] = "running"
    /\ handler' = [handler EXCEPT ![c] = "done"]
    /\ \E id \in Ids(issued) :
          /\ issued[id] = c
          /\ toExt' = Append(toExt, Response(id, c, FALSE))
    /\ UNCHANGED <<extension, alive, reader, told, asked, awaited, toCore>>

Busy == \E c \in Call : handler[c] \in {"running", "asking"}

\* The process ends: Run returns when its handlers have (wg.Wait), or a panic or
\* a signal ends it.
Exit ==
    /\ alive' = FALSE
    /\ toCore' = << >>
    /\ UNCHANGED <<extension, reader, handler, told, asked, awaited, toExt>>

RunReturns == alive /\ reader = "ended" /\ ~Busy /\ Exit

Crash == alive /\ Exit

\* Nothing is under way and nothing can be done any more.
Rest ==
    /\ disposed /\ ~alive /\ exitSeen /\ hosting = {} /\ toExt = << >>
    /\ \A c \in Call : call[c] # "idle"
    /\ UNCHANGED vars

-----------------------------------------------------------------------------
(* The specification.                                                      *)

Connected ==
    /\ issued = << >> /\ pending = {} /\ hosting = {} /\ disposed = FALSE /\ exitSeen = FALSE
    /\ alive = TRUE /\ reader = "reading" /\ asked = << >> /\ awaited = {}
    /\ toCore = << >> /\ toExt = << >>

Init ==
    /\ Connected
    /\ call = [c \in Call |-> "idle"] /\ answer = [c \in Call |-> None]
    /\ handler = [c \in Call |-> "none"] /\ told = [c \in Call |-> None]

\* What each side does on its own.
Extension ==
    \/ HearRequest \/ HearAnswer \/ SeeExit
    \/ \E id \in hosting, long \in BOOLEAN : Serve(id, long)

Core ==
    \/ ReadRequest \/ ReadAnswer \/ ReadTooLong \/ RunReturns
    \/ \E c \in Call : Ask(c) \/ Reply(c)

Next ==
    \/ Extension \/ Core \/ Crash \/ Dispose \/ Rest
    \/ \E c \in Call : MakeRefused(c) \/ \E long \in BOOLEAN : Make(c, long)

Spec == Init /\ [][Next]_vars

\* Event handlers, host handlers and goroutines end; nothing makes a call be made,
\* a process crash or a transport be disposed.
FairSpec == Spec /\ WF_vars(Extension) /\ WF_vars(Core)

-----------------------------------------------------------------------------
(* Properties.                                                             *)

\* The types, and where the ids of each side come from.
TypeOK ==
    /\ call \in [Call -> {"idle", "pending", "answered", "failed"}]
    /\ answer \in [Call -> Call \union {None}] /\ told \in [Call -> Call \union {None}]
    /\ issued \in Seq(Call) /\ pending \subseteq 1..Len(issued)
    /\ asked \in Seq(Call) /\ awaited \subseteq 1..Len(asked) /\ hosting \subseteq 1..Len(asked)
    /\ {disposed, exitSeen, alive} \subseteq BOOLEAN /\ reader \in {"reading", "ended"}
    /\ handler \in [Call -> {"none", "running", "asking", "done", "lost"}]
    /\ toCore \in Seq(Message) /\ toExt \in Seq(Message)

\* Although both sides count from one and answers come in any order, a caller is
\* given the answer to its own call, and a handler the answer to its own question.
RightAnswers ==
    \A c \in Call : answer[c] \in {None, c} /\ told[c] \in {None, c}

OnItsWay(pipe, kind, c) == \E i \in 1..Len(pipe) : pipe[i].kind = kind /\ pipe[i].about = c

\* A call whose caller waits is in a pipe, or a goroutine is at work on it.
NoCallForgotten ==
    \A c \in Call : call[c] = "pending" /\ alive =>
        \/ OnItsWay(toCore, "request", c) \/ OnItsWay(toExt, "response", c)
        \/ handler[c] \in {"running", "asking"}

\* A handler that waits for the host has its question or its answer in a pipe, or
\* the extension at work on it.
NoQuestionForgotten ==
    \A c \in Call : handler[c] = "asking" /\ alive =>
        \/ OnItsWay(toExt, "request", c) \/ OnItsWay(toCore, "response", c)
        \/ \E id \in hosting : asked[id] = c

\* The core is deaf: Run has stopped reading, and a handler waits for an answer
\* that it would have to read, so that wg.Wait never ends.
Deaf == reader = "ended" /\ \E c \in Call : handler[c] = "asking"

\* A call made while the core runs is settled, unless the core becomes deaf.  (A
\* call made after the exit was seen waits until the transport is disposed of.)
CallsSettle == \A c \in Call : call[c] = "pending" /\ alive ~> call[c] # "pending" \/ Deaf

\* What server.go:125 says of Run, that it reads "until EOF", for the one who depends
\* on it: while a handler waits for the host's answer, Run reads.
ReadsUntilEOF == \A c \in Call : alive /\ handler[c] = "asking" => reader = "reading"

\* The connection implements the contract of a call.
Once == INSTANCE CallOnce WITH
    outcome <- [c \in Call |-> CASE call[c] = "idle" -> "unmade" [] call[c] = "pending" -> "open"
                                [] OTHER -> call[c]],
    work <- [c \in Call |-> IF handler[c] \in {"running", "asking", "lost"} THEN "begun" ELSE handler[c]]

Contract == Once!ContractSpec

=============================================================================
