-------------------------- MODULE SidecarLifecycle --------------------------
(***************************************************************************)
(* Starting and stopping the microphone: the extension's voice session and *)
(* the voice sidecar process.                                              *)
(*                                                                         *)
(* The sidecar reads its requests one by one.  A start launches a loop (a  *)
(* goroutine that reads the microphone and talks to the speech service), a *)
(* stop cancels the loop and waits for it.  A loop that fails ends by      *)
(* itself and tidies up; the flags it clears, running and cancel, are the  *)
(* ones the request reader works with, and nothing protects them.  Each    *)
(* access of a flag is a step.  The extension sends requests without       *)
(* waiting for their events.                                               *)
(***************************************************************************)
EXTENDS Naturals, Sequences

CONSTANTS
    Loop,           \* the transcribe loops of the process's life
    MaxPresses,     \* bound on the presses of the start and stop buttons
    None            \* no loop

ASSUME LoopsAssumption == None \notin Loop /\ "reader" \notin Loop \union {None}
ASSUME PressesAssumption == MaxPresses \in Nat

VARIABLES
    listening,  \* VoiceSessionController.isRunning in the extension
    presses,    \* presses so far
    stdin,      \* requests on their way to the sidecar
    stdout,     \* events on their way to the extension
    running,    \* App.running
    cancelOf,   \* the loop that App.cancel cancels, or None when it is nil
    cancelled,  \* the loops whose context is cancelled
    at          \* where the request reader and the loops are

vars == <<listening, presses, stdin, stdout, running, cancelOf, cancelled, at>>
extension == <<listening, presses>>
flags == <<running, cancelOf>>

Actor == Loop \union {"reader"}

Place == {"reading", "starting", "opening", "launching", "launched",
          "unborn", "transcribing", "gone",
          "ended", "clearing", "cancelling", "forgetting", "waiting", "reporting"}

Goto(a, place) == at' = [at EXCEPT ![a] = place]

Write(event) == stdout' = Append(stdout, event)

-----------------------------------------------------------------------------
(* The extension.                                                          *)

PressStart ==
    /\ presses < MaxPresses /\ ~listening
    /\ listening' = TRUE
    /\ presses' = presses + 1
    /\ stdin' = Append(stdin, "start")
    /\ UNCHANGED <<stdout, flags, cancelled, at>>

PressStop ==
    /\ presses < MaxPresses
    /\ listening' = FALSE
    /\ presses' = presses + 1
    /\ stdin' = Append(stdin, "stop")
    /\ UNCHANGED <<stdout, flags, cancelled, at>>

\* Mutant: an error is only shown.
TakeEventIgnoringErrors ==
    /\ stdout # << >>
    /\ stdout' = Tail(stdout)
    /\ listening' = (listening /\ Head(stdout) # "stopped")
    /\ UNCHANGED <<presses, stdin, flags, cancelled, at>>

\* onError and onState: an error ends the session and is answered by a stop, a
\* "stopped" ends the session, the other states are only logged.
TakeEvent ==
    /\ stdout # << >>
    /\ stdout' = Tail(stdout)
    /\ listening' = (listening /\ Head(stdout) \notin {"error", "stopped"})
    /\ stdin' = IF Head(stdout) = "error" THEN Append(stdin, "stop") ELSE stdin
    /\ UNCHANGED <<presses, flags, cancelled, at>>

-----------------------------------------------------------------------------
(* The request reader of the sidecar: App.Run and handleStart.             *)

ReadStart ==
    /\ at["reader"] = "reading" /\ stdin # << >> /\ Head(stdin) = "start"
    /\ stdin' = Tail(stdin)
    /\ Write("starting")
    /\ Goto("reader", "starting")
    /\ UNCHANGED <<extension, flags, cancelled>>

\* Mutant: a start while running is carried out.
CheckStartAlways ==
    /\ at["reader"] = "starting"
    /\ Goto("reader", "opening")
    /\ UNCHANGED <<extension, stdin, stdout, flags, cancelled>>

\* A start while running is left at that.
CheckStart ==
    /\ at["reader"] = "starting"
    /\ Goto("reader", IF running THEN "reading" ELSE "opening")
    /\ UNCHANGED <<extension, stdin, stdout, flags, cancelled>>

\* No API key, or no microphone.
StartFails ==
    /\ at["reader"] = "opening"
    /\ Write("error")
    /\ Goto("reader", "reading")
    /\ UNCHANGED <<extension, stdin, flags, cancelled>>

\* (The bound: when every loop of the model has been launched, starts fail.)
MarkRunning ==
    /\ at["reader"] = "opening" /\ \E l \in Loop : at[l] = "unborn"
    /\ running' = TRUE
    /\ Goto("reader", "launching")
    /\ UNCHANGED <<extension, stdin, stdout, cancelOf, cancelled>>

Launch(l) ==
    /\ at["reader"] = "launching" /\ at[l] = "unborn"
    /\ cancelOf' = l
    /\ at' = [at EXCEPT !["reader"] = "launched", ![l] = "transcribing"]
    /\ UNCHANGED <<extension, stdin, stdout, running, cancelled>>

\* "listening" may be written when the loop has ended and said so.
SayListening ==
    /\ at["reader"] = "launched"
    /\ Write("listening")
    /\ Goto("reader", "reading")
    /\ UNCHANGED <<extension, stdin, flags, cancelled>>

ReadStop ==
    /\ at["reader"] = "reading" /\ stdin # << >> /\ Head(stdin) = "stop"
    /\ stdin' = Tail(stdin)
    /\ Goto("reader", "ended")
    /\ UNCHANGED <<extension, stdout, flags, cancelled>>

\* wg.Wait.
Waited ==
    /\ at["reader"] = "waiting"
    /\ \A l \in Loop : at[l] \in {"unborn", "gone"}
    /\ Goto("reader", "reporting")
    /\ UNCHANGED <<extension, stdin, stdout, flags, cancelled>>

-----------------------------------------------------------------------------
(* A loop.                                                                 *)

\* The speech service cannot be reached, closes or reports an error; or the read
\* of the microphone fails, as it does when a cancelled context has stopped it.
LoopFails(l) ==
    /\ at[l] = "transcribing"
    /\ Write("error")
    /\ Goto(l, "ended")
    /\ UNCHANGED <<extension, stdin, flags, cancelled>>

\* The loop sees that its context is cancelled, or the end of the microphone.
LoopStops(l) ==
    /\ at[l] = "transcribing" /\ l \in cancelled
    /\ Goto(l, "ended")
    /\ UNCHANGED <<extension, stdin, stdout, flags, cancelled>>

-----------------------------------------------------------------------------
(* stopIfRunning and markTranscribeFinished clear the same flags, the one  *)
(* in the reader and the other in a loop that has ended.                   *)

Check(a) ==
    /\ at[a] = "ended"
    /\ Goto(a, IF running THEN "clearing" ELSE IF a = "reader" THEN "reporting" ELSE "gone")
    /\ UNCHANGED <<extension, stdin, stdout, flags, cancelled>>

Clear(a) ==
    /\ at[a] = "clearing"
    /\ running' = FALSE
    /\ Goto(a, "cancelling")
    /\ UNCHANGED <<extension, stdin, stdout, cancelOf, cancelled>>

\* Mutant: the reader does not wait for the loop.
ClearedAtOnce(a) == "reporting"

Cleared(a) == IF a = "reader" THEN "waiting" ELSE "reporting"

Cancel(a) ==
    /\ at[a] = "cancelling"
    /\ IF cancelOf = None
       THEN Goto(a, Cleared(a)) /\ UNCHANGED cancelled
       ELSE Goto(a, "forgetting") /\ cancelled' = cancelled \union {cancelOf}
    /\ UNCHANGED <<extension, stdin, stdout, flags>>

ForgetCancel(a) ==
    /\ at[a] = "forgetting"
    /\ cancelOf' = None
    /\ Goto(a, Cleared(a))
    /\ UNCHANGED <<extension, stdin, stdout, running, cancelled>>

\* Mutant: a stop is reported as a shutdown.
SayShutdown(a) ==
    /\ at[a] = "reporting"
    /\ Write("shutdown")
    /\ Goto(a, IF a = "reader" THEN "reading" ELSE "gone")
    /\ UNCHANGED <<extension, stdin, flags, cancelled>>

SayStopped(a) ==
    /\ at[a] = "reporting"
    /\ Write("stopped")
    /\ Goto(a, IF a = "reader" THEN "reading" ELSE "gone")
    /\ UNCHANGED <<extension, stdin, flags, cancelled>>

-----------------------------------------------------------------------------
(* The specification.                                                      *)

Init ==
    /\ listening = FALSE /\ presses = 0
    /\ stdin = << >> /\ stdout = << >>
    /\ running = FALSE /\ cancelOf = None /\ cancelled = {}
    /\ at = [a \in Actor |-> IF a = "reader" THEN "reading" ELSE "unborn"]

Reader ==
    \/ ReadStart \/ CheckStart \/ StartFails \/ MarkRunning
    \/ (\E l \in Loop : Launch(l)) \/ SayListening \/ ReadStop \/ Waited

Tidy(a) == Check(a) \/ Clear(a) \/ Cancel(a) \/ ForgetCancel(a) \/ SayStopped(a)

\* Nobody has anything to do until the user comes back.
Idle ==
    /\ presses = MaxPresses /\ stdin = << >> /\ stdout = << >>
    /\ at["reader"] = "reading"
    /\ UNCHANGED vars

Next ==
    \/ PressStart \/ PressStop \/ TakeEvent \/ Reader
    \/ \E l \in Loop : LoopFails(l) \/ LoopStops(l)
    \/ \E a \in Actor : Tidy(a)
    \/ Idle

Spec == Init /\ [][Next]_vars

\* The reader, the extension's event handlers and a loop that has ended go on;
\* a loop ends when its context is cancelled, and otherwise need not end.
Fairness ==
    /\ WF_vars(Reader) /\ WF_vars(TakeEvent)
    /\ \A a \in Actor : WF_vars(Tidy(a))
    /\ \A l \in Loop : WF_vars(LoopStops(l))

FairSpec == Spec /\ Fairness

-----------------------------------------------------------------------------
(* Properties.                                                             *)

\* The variables have the types of the fields they stand for.
TypeOK ==
    /\ listening \in BOOLEAN /\ presses \in 0..MaxPresses
    /\ stdin \in Seq({"start", "stop"})
    /\ stdout \in Seq({"starting", "listening", "stopped", "error"})
    /\ running \in BOOLEAN
    /\ cancelOf \in Loop \union {None}
    /\ cancelled \subseteq Loop
    /\ at \in [Actor -> Place]

\* Two loops never hold the microphone at once, also when a loop that ended by
\* itself is still tidying up while the next is launched.
OneMicrophone ==
    \A k, l \in Loop : at[k] = "transcribing" /\ at[l] = "transcribing" => k = l

\* When the sidecar answers a stop, the microphone is off.
StoppedMeansSilent ==
    at["reader"] = "reporting" => \A l \in Loop : at[l] # "transcribing"

\* What markTranscribeFinished is for (lifecycle.go:70): once nothing is on its
\* way and no loop is left, the extension does not think the session is active.
NotStuckListening ==
    /\ stdin = << >> /\ stdout = << >> /\ at["reader"] = "reading"
    /\ \A l \in Loop : at[l] \in {"unborn", "gone"}
    => ~listening

\* The sidecar echoes a stop.
StopIsEchoed == at["reader"] = "ended" ~> at["reader"] = "reading"

=============================================================================
