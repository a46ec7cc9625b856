# A formal model of Vocode

Vocode is voice control for an editor. Three programs work together:

```
 microphone                     VS Code extension                      core
 ┌──────────────┐ stdin/stdout ┌───────────────────┐  JSON-RPC  ┌──────────────────┐
 │ voice sidecar│ ───────────► │ voice controller  │ ─────────► │ transcript service│
 │ detector,    │  events,     │ transcript        │ utterances,│ pipeline, voice   │
 │ STT stream   │  transcripts │   pipeline        │ cancel     │ session, searches │
 │              │ ◄─────────── │ panel store       │ ◄───────── │ host requests     │
 └──────────────┘  start/stop  │ directives, undo  │  batches   └──────────────────┘
                               └───────────────────┘
```

This directory holds TLA+ modules that model the parts of Vocode whose
correctness depends on order, concurrency or long sequences of calls, the TLC
configurations that check them on small instances, and TLAPS proofs for every
instance. `PROJECT.json` lists, in a form for tools, the components, the runs,
the lines of code each definition translates, the hazards, the findings and the
theorems. Paths below are relative to the repository.

## Inventory

| Component | Code | State it keeps | Hard behaviour | Module |
|---|---|---|---|---|
| Transcript pipeline, voice session, flow handlers, searches | `apps/core/internal/transcript`, `apps/core/internal/flows` | `VoiceSession`: phase, hits and active index, paths with folder flags, index and focus | long sequences of utterances over three copies of one selection; refusals half-way through a handler | `VoiceSession` |
| Edits: `edit`, `delete`, `create`, and the host that applies them | `flows/workspaceselect`, `transcript/hostdirectives`, extension's `directives/edit` | none in the core; the file on the disk, the editor's buffer, a batch half applied | lines read from the disk long before they are changed in the buffer; ranges shifted by an import that goes in first; saves and actions that fail between two others | `ScopedEdit` |
| Transcript service | `transcript/service.go`, `flows/execution.go` | `executeMu`, job channel, worker | immediate routes overtake the queue; one stored session is read and written in different steps, with a host call between | `TranscriptService` |
| Session store | `transcript/session/store.go` | session per key, last access | idle eviction, eviction when full | one key in `TranscriptService` and `VoiceSession` |
| Core's JSON-RPC server | `apps/core/internal/rpc` | pending host requests, a goroutine per request | two-way calls over one pair of pipes, in which both sides count from one; the end of reading with handlers waiting | `DuplexRpc` |
| Extension's transport | `vscode-extension/src/daemon` | pending calls, `disposed` | late answers, exit of the core, disposal | `DuplexRpc`, `CallOnce` |
| Activation and restart | `extension.ts`, `commands/services.ts`, `daemon/spawn.ts` | `restartInFlight`, a timer, the two processes | changes of settings and secrets while processes are spawned with the old ones | `Backend` |
| Panel store and panel | `ui/panel/main-panel-store.ts` | search list, rows, order of running RPCs | a second copy of the list, written by answers that arrive in any order and by a close button that awaits its call | `VoicePanel` (the list) |
| Extension's transcript pipeline | `voice-transcript/*.ts` | active editor, pending ids | which path is sent as the focus; concurrent RPCs | `VoicePanel`, `SidecarLifecycle` |
| Sidecar lifecycle | `apps/voice/internal/app/lifecycle.go`, `app.go` | `running`, `cancel`, wait group | flags shared by two goroutines without a lock; events that cross with requests | `SidecarLifecycle` |
| Transcribe loop, detector, STT stream | `app/transcribe.go`, `app/vad.go`, `stt/elevenlabs_stream.go` | detector buffer and counters, held chunks, deadline, queued answers | audio sent from four places; answers, deadlines and live settings in any order | `TranscribeLoop` |
| Classifier and model clients | `flows/router`, `agent` | none | – | a choice by `\E` |
| Microphone, keyterms, protocol types, webview, settings page, web site | – | – | – | not modelled: device input, data, rendering |

What makes the parts correct, in a sentence each:

* the session: every index points into its list, the focus is the marked row,
  flags belong to the list they stand beside, a refusal does not change what the
  next utterance means;
* the panel: it shows the list the session holds, and speech acts on the row it
  marks;
* an edit: what was said is done to the lines that were meant, or nothing is;
  no line the user types meanwhile is lost, and no import is inserted twice;
* a call between extension and core: its work is begun at most once, its caller is
  told its own answer or a failure, at most once, and is not forgotten;
* the backend: both processes run with the user's last settings, and a restart
  leaves nobody waiting;
* the service: executions take turns, none is lost, none overwrites another,
  every caller gets an answer;
* the sidecar: one microphone at a time, off when a stop is answered, and the
  extension never waits for a sidecar that has stopped;
* the loop: all audio, once, in order; every utterance closed by a commit; audio
  is never held back for ever.

## Modules

`VoiceSession` – one action per route of the three phases (`main`, `select`,
`files`), the two cancel buttons, and expiry. An action is a whole call of
`Execute`: the handler with its host batches and their refusals, `outcome.Apply`
on success, the final persist. `vs` is the stored session, `reply` the
completion, with what the host was asked to do (`opened`, `acted`, `place`,
number of `batches`). The route, the text and the results are chosen by `\E`:
every sequence of utterances is covered, whatever the model says. Handlers that
leave the session alone and differ only in their text share an action
(`SelectEdit`, `FilesCommand`, ...). Abstractions: the clarify overlay is left
out (no core handler sets it), so is the branch of `Apply` for an empty file
list (never emitted); path equality is identity although the code folds case;
moving a folder does not rewrite listed children, in the code or here; an
expired or evicted session is `Expire`.

`VoicePanel` extends it with the extension's side: the panel's copy of the list
and the active editor, whose file is sent as `focusedWorkspacePath`. The extension
waits for nothing: `Say` and `Press` begin a call, from the editor and the panel of
that moment; the core executes the calls under way one at a time, in any order
(`Speak`, `Close`), and may reject any (`Reject`); the panel takes in the answers in
the order of execution (`TakeIn`) or not (`Overtake`). `Puts` and `Handled` are what
`markHandled` and `markError` make of an answer, `NoPanel` what the close button does
when its own call has returned. Answers that leave the list alone are not kept.

`TranscriptService` – one program counter per request, from `Send` through
`Classify`, the queue and the worker to `Respond`, plus the mutex, the channel, the stored session and the outstanding host calls. Every
point where another goroutine may run is a step of its own; what runs between
two of them is one step. The effect of an execution on the session is abstracted
to "it absorbs the request": what it does is `VoiceSession`'s subject.
`SerialSession` is the abstract specification, a session that absorbs requests
one at a time; `Serial == INSTANCE SerialSession WITH ...` maps the stored
session to it.

`DuplexRpc` – the connection of `RpcTransport` and `Server`: two pipes of
requests and answers, `pending` on the one side and `awaited` on the other, a
handler per call. `Make`, `HearRequest`, `HearAnswer`, `Serve`, `SeeExit` and
`Dispose` are the extension's; `ReadRequest`, `ReadAnswer`, `Ask`, `Reply` and
`ReadTooLong` the core's. A line is its kind, its id and the call it is about; it
may be too long for the core's scanner, which then stops reading for ever. The
core's process may end at any moment (`Crash`), or because `Run` returns. An error
answer is an answer.

`CallOnce` – the abstract specification of a call, seen from its caller: `Made`,
`Begun`, `Ended`, `Told`, and `AllFail`. `Contract` in `DuplexRpc` is its
refinement: what the caller knows is the state of the promise, and the work is
what the handler has done, a handler that died with its process being one that
has begun and will not end.

`Backend` – extends `DuplexRpc` by the keeper of the connection: `wireVocodeBackend`
as the phases `check`, `core`, `voice`, each the time until an `await` returns;
`restartVocode`; the listeners for secrets (at once) and settings (through a
timer). A setting is a version number. A restart disposes of the client and kills
the processes; a new core begins with new pipes and a new client with new ids.
Why a change that the core was not spawned with began no restart is recorded in
`missed`: it came before the listeners were registered, or while a restart was in
flight.

`ScopedEdit` – one file. `Ask` is the utterance with the selection, symbol or hit
it is about; `Read` is `ReadHostFile` with `resolveEditRange` and the early
refusals; `Plan` builds the batch from the model's answer: the import action, with
the place each language's rules give it, and the change with its range shifted;
`ApplyAction`, `StaleRange`, `SaveAction` and their failures are the host's loop
over the actions; `Report` is `ConsumeHostApplyReport`. `Type`, `Erase` and `Save`
are the user's, between any two of them. A text is its row of lines; a line made
of two is `Glued`. Left out: columns within a line, the search for a place to
create code in (any line), the reveal of the new code, and what organizeImports
does to the text.

`SidecarLifecycle` – the buttons, the two pipes, the request reader and the
loops. Each access of `running` and `cancel` is a step, since nothing protects
them; the test and the call of `cancel` are one load. A loop may fail at any
moment. `stopIfRunning` (the reader) and `markTranscribeFinished` (a loop) share
the actions `Check`, `Clear`, `Cancel`, `ForgetCancel`, as their code does the
same to the same flags. Process restart, shutdown and configuration are left out.

`TranscribeLoop` – one run of `transcribeLoop`. Audio is a row of numbered
units; a chunk is an interval of them. Whether a frame is speech is chosen by
`\E` (energy and noise floor are left out), the rest of `localVAD.process` is
kept: counters, chunk sizes by silence, the tail that is kept, the maximal
utterance. The loop's places are those between its calls that touch the stream;
`drainSTTClientEvents` is `Drained`. Left out: partial transcripts, the context
text, the padding of short segments, the websocket's handshake, preroll (never
sent by itself). The service answers commits in order at any time; blank answers
are dropped as `readLoop` drops them. `Break` stands for every way the loop
returns early.

Each module has operators marked `Mutant`: plausible mistakes in the code
(a dropped guard, a missing reset, a swapped order). Replacing the definition by
its mutant makes TLC violate the property `PROJECT.json` names with it, which
shows that the property depends on the code.

## Runs

| Run | Module, configuration | Shows |
|---|---|---|
| `voice_panel` | `MCVoicePanel`, `VoicePanel.cfg` | indices, focus, flags and phases stay consistent; refusals keep the phase, and the lists too when nothing reached the host; only leaving, deleting, expiry, and a search in contents or a creation end a list of files; a move leaves no row with the old path; with calls under way, successes keep panel and session agreed and no list phase is hidden from the user, unless answers or a close cross |
| `scoped_edit` | `MCScopedEdit`, `ScopedEdit.cfg` | an utterance nobody disturbs does what it means to the file (the shifts by the import block are right), or, if its target reaches the line of the imports, is refused and leaves the imports only; success is not reported of half a batch; no line typed meanwhile is overwritten, unless it is part of the target; imports are not doubled |
| `transcript_service` | `MCTranscriptService`, `TranscriptService.cfg` | executions exclude each other, an immediate route runs in the session it was classified in, no waiting caller is forgotten, refinement of `SerialSession`, every request is answered |
| `backend` | `MCBackend`, `Backend.cfg` | right answers, nobody forgotten while the core lives, refinement of `CallOnce`, calls settle unless the core is deaf, restarts settle all calls, the processes end up with the last configuration unless a change was missed or a spawn failed, the backend comes to rest |
| `sidecar_lifecycle` | `MCSidecarLifecycle`, `SidecarLifecycle.cfg` | one microphone, silence when a stop is answered, no extension left listening |
| `transcribe_loop` | `TranscribeLoop`, `TranscribeLoop.cfg` | the audio stays in order through live changes; without them, utterances are closed; no hold waits for a drained answer, held audio is sent in the end |

`VoiceSession` has no run of its own: every behaviour of it is one of
`VoicePanel`, whose run checks its properties.

Six more runs check what a comment, the schema or the documentation says, and
TLC finds a behaviour of the code that contradicts it:

| Run | What the code does |
|---|---|
| `create_entry_placement` | speech without a direction makes the selected folder a single "file" row; the next new file is put beside the folder instead of into it |
| `marked_row` | the active editor's file is sent as the focused row: delete, move and rename can act on a row the panel does not mark |
| `glued_create` | `create` below code, with a new import, in a script without imports: the block goes in above the code with a blank line, which is counted in the shift but not in the lines the new code is fitted to, and the new code is glued to the line below |
| `deaf_core` | a handler asks for a file (`host.readFile`) and the answer is a line of more than a megabyte: it ends the core's reading, although its input goes on, and the handler that waits for that answer keeps the process alive, deaf |
| `latest_configuration` | a key that changes when a restart has spawned the core and not yet the sidecar begins no restart (`extension.ts:243`): the core keeps the environment of before, although `extension.ts:358-359` has the listener so that both "always see the latest configuration" |
| `stop_echo` | a loop that tidies up late wipes out its successor's cancel function; the next stop waits for ever |

More of what was met while modelling, visible in the models without a run of its
own:

* A close button awaits its call and then dismisses whatever list is shown
  (`main-panel.ts:166-193`): a file search that ends meanwhile leaves the session in
  the phase `files` with no list on the screen, and so do two answers that overtake
  each other. Until the next list or cancel, speech is routed by a phase the user
  cannot see. `crossed` records that this has happened, and `NoHiddenPhase` and
  `SuccessKeepsListsAgreed` speak of the other behaviours.
* The core does not execute in the order the RPCs began, while the panel store takes
  the call begun first for the one "the daemon is executing (front of FIFO)"
  (`main-panel-store.ts:515-516`): the output of a batch may be shown in another row.
  (For the same reason "FIFO order" in `README.md` holds only for queued utterances.)
* A search in contents, or a creation, without hits ends the list of files
  (`apply.go:70-75`); a search for files without hits keeps it (`ListOutlivesMisses`).
* A target that begins above the place of the imports and ends below it (a
  whole-file edit of a file with imports) no longer holds its old text when the
  import is in: the edit is refused as stale and the import stays (`Straddles`).
* So is a target that ends right where the imports go: `import_insert.go:95` compares
  the end of the range, which is exclusive, as if it were a line of the range
  (`el >= insertLine`), and moves it past the imports (`EndsAtImports`).
* The core's copy of the file with the import lacks the blank line that separates
  imports from code; whether code created below gets a line of its own is then
  decided by the wrong line (`CreatedBelow`).
* The core reads from the disk, the host edits the buffer. With unsaved changes,
  a replacement is refused unless the text at the place is the same; a creation
  has no text to compare, and goes in at the line the disk had.
* A selection that is outside the disk's lines is silently taken for the whole
  file (`Resolved`).
* After a batch whose save failed, the same utterance inserts the import again
  (`ImportOnce` holds while no save has failed).
* A blank committed transcript is thrown away, so that a hold it should end lasts
  until the deadline; a live change of the detector's settings in the middle of an
  utterance leaves its segment open (`ClosedWhileSteady` asks for no changes).
* Until `activate` has wired the first backend no listener is registered: a change
  that comes after the core was spawned is not noticed (`missed = "unwatched"`).
* The core never asks for an undo: the ledger in the extension is only written.

### Bounds, and why they are enough

* `VoicePanel`: a text file, a binary, a folder and the workspace; a list of hits and
  two lists of files, with a folder last, and with a file that the search does not
  open first; ordinals up to two (`MaxPick`), so that one is out of range once a list
  has shrunk. Two calls under way (`MaxCalls`): a close and an utterance, or two
  utterances, in every order of beginning, execution and answer. The state space is
  finite and explored completely; the view `SeenAgain` identifies states that differ
  only in the last completion, which no step reads, or in the order of the calls
  begun, none of which comes first. Everything the run checks is proved for any paths
  and lists and any number of calls.
* `ScopedEdit`: five files, of each set of import rules one or two, of two to four
  lines: with imports to append to, without, with code right below, a group of Go,
  and a file in which no line ends the imports. One change by hand (`MaxKeys`) at any moment, of any
  line, with any number of saves; two utterances (`MaxRequests`), so that a batch
  that failed half-way is followed by another. Every range and every line to create
  at is tried. All of it is proved for any files and any numbers.
* `Backend`: two calls with two questions of the core for each connection
  (`MaxAsks`), so that ids meet in both directions and answers are out of order;
  four changes (`MaxChanges`) of which some leave the setup incomplete, so that a
  change can meet every phase of the spawning begun by the one before. Except for
  the liveness properties, all of it is proved for any number.
* `TranscriptService`: three utterances and a cancel button over a queue of one
  and up to one host call (`MaxCalls`) for each execution. One utterance is with the
  worker while the next fills the queue and the third overflows it, and every pair
  of the three ways to the mutex meets. The safety part is proved for any number.
* `SidecarLifecycle`: two loops (one tidies up while the next is launched) and
  four presses (`MaxPresses`; start, stop, start, stop is the longest round that
  involves both). When both loops of the model were launched, further starts
  fail. The loops are interchangeable, hence the symmetry set; the liveness
  run does without it. The safety part is proved for any number.
* `TranscribeLoop`: frames of two units against chunks of three and five, so
  that tails of every length occur; two frames open and two end an utterance,
  four are its maximum; nine frames (`MaxFrames`) hold two utterances or one
  that is cut; reads of up to two frames (`MaxRead`); up to two live changes
  (`MaxChanges`). Order, closing and hold are proved for all sizes.

### Fairness

* `TranscriptService`: each goroutine and the worker run (the Go scheduler);
  the mutex reaches every waiter, since finitely many requests contend for it;
  model calls end by their client's timeout, so a classifier that does not answer
  is one that failed; the host answers. Nothing makes an utterance be spoken.
* `Backend`: spawning ends, in success or failure; timers fire; the event loop of
  the extension, its host handlers, and the reader and handlers of the core go on.
  Nothing makes a call be made, a setting change or a process crash. There is no
  timeout on either side, so `CallsSettle` has to except a deaf core.
* `SidecarLifecycle`: the reader, the extension's event handlers and a loop that
  has ended go on; a cancelled loop ends. An uncancelled loop need not end.
* `TranscribeLoop`: the loop and the clock go on (a read of the microphone
  ends). Nothing is assumed of the speech service.
* `ScopedEdit` has no liveness property: every wait in it is one of `DuplexRpc`.

Deadlock is checked in every run; the models have an explicit step for the
states in which the program rests (`Quiet`, `Idle`, `Done`, `Rest`).

## Proofs

Assumptions are only those named `...Assumption` in the modules.

`VoiceSessionProofs`, for all sets of paths, hits and search results. The
invariant is `IInv`: the session is `Sound` (the four list invariants and the
types) and the reply well typed. It is inductive by itself, but a handler works
on intermediate sessions and hands a completion to `Apply`; the lemmas show that
every intermediate session is `Sound`, every completion `Faithful`, and that
`Apply` makes a sound session of the two. Theorems: `TypeCorrect`,
`ActiveHitAlwaysExists`, `FocusAlwaysActiveRow`, `FlagsAlwaysMatchList`,
`FilePhaseNeverHasHits`. The action properties follow utterance by utterance from
the session a handler answers from (`Same`: the lists of before) and from what its
completion says of a list: `RefusalAlwaysKeepsPhase`,
`UnsentRefusalAlwaysKeepsLists`, `ListAlwaysOutlivesMisses`, `MoveNeverLeavesOldRow`.

`VoicePanelProofs`, for the session with the panel and the editor beside it, and any
number of calls under way. What is proved is about `Ahead`, the panel once it has taken
in the answers under way. `NoHiddenPhase` is not inductive: a close sends the control
of the list it was pressed for, and would leave the phase standing if the list were of
the other kind by the time it is executed. `PInv` adds that, unless answers or a close
have `crossed`, each list phase has its own kind of list ahead (`InStep`); `crossed` is
over when the last answer is taken in and the two are in step again. All that is needed
of the handlers is the `Shape` of their answers: one list at most is reported, and where
none is, the session has the lists of before. Theorems: `PanelInvariant`,
`NeverInAHiddenPhase`, `SuccessAlwaysKeepsListsAgreed`.

`TranscriptServiceProofs`, for any number of requests, queue size and host calls.
`Holder` ties the program counters to the mutex, `Jobs` to the channel and the
worker; neither exclusion nor `NobodyForgotten` is inductive without them.
`Current` says that the session a request works on is the stored one until it
stores its own: this makes the step `Finish` an `Absorb` of `SerialSession`
although the session was read long before. Theorems: `TypeCorrect`,
`MutualExclusion`, `ClaimIsAtomic`, `JobsAreKept`, and the refinement `NothingIsLost`.

`TranscribeLoopProofs`, for all sizes, any number of frames and changes. The
order of the audio is a statement about a row of chunks (`Row`); lemmas say what
happens to a row that gets longer, loses its front, or is thrown away. The last
needs induction on the row, done with the least index at which a claim fails
(`LeastNumber`, from the well-foundedness of the natural numbers). The order is
inductive together with `HoldInOrder` (nothing is held unless an answer is
awaited, so direct sending overtakes nothing) and `Buffered` (outside an
utterance the detector's buffer is empty, so a flush loses nothing).
`LinkInOrder` carries `HoldNotOverlooked`. For closing, `Closing` adds that an
utterance that is over and not closed has its commit as the last chunk at hand,
and that what is closed was sent. Theorems: `TypeCorrect`, `AudioAlwaysInOrder`,
`HoldNeverOverlooked`, `UtterancesAlwaysClosed` (while the settings stay as they
are: a live change in an utterance leaves it open).

`BackendProofs`, for any set of calls and any bounds. `Wire` is the invariant of
the connection: `CoreLines` and `ExtLines` say whose each line in a pipe is and how
far its work has come, `Numbered` and `Waiting` that ids and waiters belong together
one to one, `OneRequest` that no call is in the pipe twice (so that no work is begun
twice), `Questions` and `Calls` where each outstanding thing is. None of the checked
properties is inductive without them: an answer is the right one because the id in
its line was given to the call it is about. `Between` says what is left of a
connection while the next one is made (no client while processes are spawned; empty
pipes and no handler once the core is), which is why ids that begin at one again
cannot meet answers of the old connection. `Fresh` is the invariant for what the
processes were spawned with. Every step of the connection is shown to be a step of
`CallOnce` or none. Theorems: `BackendTypes`, `RightAnswersAlways`,
`NoCallForgottenEver`, `NoQuestionForgottenEver`, `RestartSettlesCallsAlways`,
`LatestUnlessMissedAlways`, and the refinement `ImplementsContract`.

`SidecarLifecycleProofs`, for any number of loops and presses. `Exclusive` shows
that the unprotected flag `running` works as a lock all the same: of the loops that
transcribe, or have ended and not yet cleared the flag, there is one at most, and
while there is one the flag is set or the reader waits for it. `Pending` says where
the event is that will end the extension's session. Theorems: `LifecycleTypes`,
`OneMicrophoneAlways`, `StoppedAlwaysSilent`, `NeverStuckListening`. (What `running`
protects, `cancel` does not have: see `stop_echo`.)

`ScopedEditTexts`, what the operators of `ScopedEdit` do to texts of any length.
Texts under `Join` are a monoid (`JoinAssociative`, `JoinUnit`: the unit is the text
of one blank line), a text is what is before a place joined to what is after it
(`BeforeJoinAfter`), and a place in a text joined of two is a place in one of them,
the second beginning with a line of its own when the first ends in a blank line. From
this follows what an edit is about: one of the upper part leaves the lower part
alone (`SubstitutedInFirst`), one of the lower part is the same edit further down
(`SubstitutedInSecond`), and the text of a range moves with it (`SliceInFirst`,
`SliceInSecond`). No induction over texts is needed; `FirstNotPlace` takes the least
index, from the well-foundedness of the natural numbers.

`ScopedEditProofs`, for any set of files, any number of utterances and changes by
hand. The invariant `Inv` says, besides the types, what the job is at each place of
the handler (`JobInv`: the batch at the host is the one computed from the text that
was read, for a target inside that text); where an import cannot be (`ImportInv`: a
buffer with the import has it on the disk too, unless a save is under way, so that
the next utterance, which reads the disk, sees it); that a batch that was applied to
its end left its code (`CodeInv`); and how far the file of an undisturbed utterance
has come (`CalmInv`: the text that was read, then that text with the imports, then
`Intended`). None of the five properties is inductive without `JobInv`, and
`ImportOnce` is not without the disk. The heart of `UndisturbedEdits` is
`Undisturbed`: the host finds the range unchanged, and what it makes of the buffer is
what was meant. `BelowImports` and `AboveImports` prove it of a target below or above
the imports, since a text with imports is its part above joined to the block and its
part below; `SyntheticLine` shows that the core's copy of the file has the right line
where code is created, unless a separating line was added above it (`CreatedBelow`, the
one case excepted). A target that reaches the line of the imports (`Overlaps`) holds
other text once they are in, and is refused. Theorems: `AlwaysInv`, `TypeCorrect`,
`ImportAtMostOnce`, `UndisturbedEditsMeant`, `SuccessAlwaysComplete`,
`TypedLinesAlwaysSurvive`. They assume of the constants that a file ends with a
newline and does not have the import twice to begin with (`FilesAssumption`), and
that the lines the model answers are not blank, nor among those the user types
(`LinesAssumption`: a user who types the import by hand while the core thinks can have
it twice).

Only model-checked: the liveness properties (`EveryRequestAnswered`, `CallsSettle`,
`ComesToRest`, `HeldAudioIsSent`: the prover has no rules for fairness and
`ENABLED`). The properties of the runs that expect a violation are false and cannot be
proved; every other property of a run is a theorem.

## Not modelled, and why

* The classifier and the language model: their answers are arbitrary in the models.
* The clarify overlay: no handler of the core sets it.
* Ranking of search results and the runs of ripgrep: a search returns any list.
* Columns, and the actions of batches that the core never sends (anchors, whole
  files); the undo ledger, which the core never reads.
* The bound of the session store and its other keys: the extension uses one
  context at a time; losing it is `Expire`, at any moment.
* `restartVoiceSidecar`, which no configuration listener calls; shutdown of the
  sidecar; the handshake of the speech service's websocket.
* Microphone, keyterms, protocol types and validators, webview, settings page, web
  site: device input, data and rendering, without state of their own.

## Plan

Done, in this order: `VoiceSession` and `VoicePanel` (the meaning of an utterance);
`TranscriptService` refining `SerialSession` (concurrency around a session);
`SidecarLifecycle` and `TranscribeLoop` (from the microphone to the transcript);
`DuplexRpc` refining `CallOnce`, and `Backend` (the connection, crashes and
restarts); `ScopedEdit` (what an utterance does to a file); the proofs of all safety
properties.

Left:

1. `SessionStore` – several keys, eviction of idle sessions, the bound of the store;
   an abstract store that may forget, but never mixes up, sessions.
2. Columns within a line in `ScopedEdit`, and the reveal of the new code.
3. The pending rows of the panel and the order of their calls, with
   `TranscriptService`.
