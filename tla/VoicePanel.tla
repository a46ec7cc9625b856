----------------------------- MODULE VoicePanel -----------------------------
(***************************************************************************)
(* The voice session together with the side panel and the editor of the    *)
(* extension, which the user reads and speaks about.                       *)
(*                                                                         *)
(* The extension does not wait: every utterance, and every press of the    *)
(* panel's close button, is a voice.transcript call of its own, begun from *)
(* the editor and the panel of that moment.  The core executes one call at *)
(* a time (VoiceSession), in any order, and the panel takes in the answers *)
(* as they arrive, in any order.                                           *)
(***************************************************************************)
EXTENDS VoiceSession, SequencesExt

CONSTANT MaxCalls       \* bound on the calls under way

VARIABLES
    panel,      \* searchState of the main panel store
    editor,     \* the file of the active editor, NoPath when there is none
    sent,       \* the calls begun and not yet executed
    answers,    \* in the order of execution, the lists the panel has not taken in
    crossed     \* history: answers or a close have crossed (Overtake, Close), and the
                \* panel has not been in step since

panelVars == <<vs, reply, panel, editor, sent, answers, crossed>>

NoPanel == [kind |-> "closed", list |-> << >>, at |-> 0]

AsIs == [NoPanel EXCEPT !.kind = "as is"]

\* Mutant: the row that is marked does not move.
PutsFirst(kind, none, wire) ==
    CASE wire.kind = "closed"  -> NoPanel
      [] wire.kind = "no hits" -> [NoPanel EXCEPT !.kind = none]
      [] wire.kind = "rows"    -> [kind |-> kind, list |-> wire.list, at |-> 0]
      [] OTHER                 -> AsIs

\* What one part of a successful completion puts in the place of searchState.
Puts(kind, none, wire) ==
    CASE wire.kind = "closed"  -> NoPanel
      [] wire.kind = "no hits" -> [NoPanel EXCEPT !.kind = none]
      [] wire.kind = "rows"    -> [kind |-> kind, list |-> wire.list, at |-> wire.at]
      [] OTHER                 -> AsIs

\* markHandled for a success, the files after the hits; markError, which leaves the list,
\* for a refusal.
Handled(r) ==
    LET files == Puts("files", "no files", r.files)
    IN  CASE ~r.ok -> AsIs
          [] r.ok /\ files # AsIs -> files
          [] OTHER -> Puts("hits", "no hits", r.search)

\* The panel when all answers under way have been taken in, in order.
Ahead == IF answers = << >> THEN panel ELSE answers[Len(answers)]

\* Each list phase has its own kind of list.
InStep ==
    /\ vs.phase = "select" => Ahead.kind = "hits"
    /\ vs.phase = "files"  => Ahead.kind = "files"

-----------------------------------------------------------------------------
(* The extension.                                                          *)

\* The focusedWorkspacePath of runDaemonTranscriptForPendingId.
FocusSent == IF editor # NoPath THEN editor ELSE WorkspaceRoot

\* The control of the close button, by the list the panel shows.
ControlOf(p) ==
    IF p.kind \in {"files", "no files"} THEN "cancel_file_selection" ELSE "cancel_selection"

\* No call is executed.
Quiet == vs' = vs /\ reply' = Done("none")

Begin(call) ==
    /\ Len(sent) + Len(answers) < MaxCalls
    /\ sent' = Append(sent, call)
    /\ Quiet /\ UNCHANGED <<panel, editor, answers, crossed>>

\* An utterance; the close button of the search panel (a control has no use of a focus).
Say   == Begin([kind |-> "speech", focus |-> FocusSent])
Press == panel.kind # "closed" /\ Begin([kind |-> ControlOf(panel), focus |-> NoPath])

\* The first answer is taken in.
TakeIn ==
    /\ answers # << >>
    /\ panel' = answers[1]
    /\ answers' = Tail(answers)
    /\ Quiet /\ UNCHANGED <<editor, sent>>
    /\ crossed' = (crossed /\ (answers' # << >> \/ ~InStep))

\* An answer is taken in before that of a call executed earlier.
Overtake(i) ==
    /\ i \in 2..Len(answers)
    /\ panel' = answers[i]
    /\ answers' = RemoveAt(answers, i)
    /\ crossed' = TRUE
    /\ Quiet /\ UNCHANGED <<editor, sent>>

\* The call is rejected, by a full queue for one: the list stays.
Reject(i) ==
    /\ i \in 1..Len(sent)
    /\ sent' = RemoveAt(sent, i)
    /\ Quiet /\ UNCHANGED <<panel, editor, answers, crossed>>

\* The user opens another file, or closes the last one.
SwitchEditor ==
    /\ editor' \in (Path \ Folder) \union {NoPath}
    /\ Quiet /\ UNCHANGED <<panel, sent, answers, crossed>>

-----------------------------------------------------------------------------
(* The core.                                                               *)

\* The call is executed; an answer that changes the list is on its way to the panel.
Executed(i, puts) ==
    /\ sent' = RemoveAt(sent, i)
    /\ answers' = IF puts = AsIs THEN answers ELSE Append(answers, puts)
    /\ UNCHANGED panel

\* An utterance, which may open a file.
Speak(i) ==
    /\ sent[i].kind = "speech"
    /\ InMain \/ InSelect \/ FilesExit \/ FilesGone \/ WithList(sent[i].focus)
    /\ Executed(i, Handled(reply'))
    /\ editor' = IF reply'.opened # NoPath THEN reply'.opened ELSE editor
    /\ UNCHANGED crossed

\* A close: its list may no longer be the one there is.
Close(i) ==
    /\ sent[i].kind # "speech"
    /\ IF sent[i].kind = "cancel_file_selection" THEN CancelFileSelection ELSE CancelSelection
    /\ Executed(i, NoPanel)
    /\ crossed' = (crossed \/ (Ahead.kind # "closed" /\ sent[i].kind # ControlOf(Ahead)))
    /\ UNCHANGED editor

\* The store drops the session; the panel is not told.
Forget == Expire /\ UNCHANGED <<panel, editor, sent, answers, crossed>>

PanelInit ==
    /\ Init /\ panel = NoPanel /\ editor = NoPath
    /\ sent = << >> /\ answers = << >> /\ crossed = FALSE

Voice == Say \/ TakeIn \/ \E i \in 1..Len(sent) : Speak(i)

PanelNext ==
    \/ Voice \/ Press \/ SwitchEditor \/ Forget
    \/ \E i \in 1..Len(sent) : Close(i) \/ Reject(i)
    \/ \E i \in 2..Len(answers) : Overtake(i)

PanelSpec == PanelInit /\ [][PanelNext]_panelVars

\* The same with hands off the editor and the panel: only the voice opens files, and
\* every answer is taken in in its turn.
HandsOffSpec == PanelInit /\ [][Voice]_panelVars

-----------------------------------------------------------------------------
(* Properties.                                                             *)

\* The panel shows, when the answers are taken in, the list the session holds, so that
\* "pick two" picks the row with the number two; and in a hit list it marks the
\* session's active hit.
ListsAgree ==
    /\ vs.phase = "files" /\ vs.paths # << >> =>
          Ahead.kind = "files" /\ Ahead.list = vs.paths
    /\ vs.phase = "select" /\ vs.hits # << >> =>
          Ahead.kind = "hits" /\ Ahead.list = vs.hits /\ Ahead.at = vs.active

\* A successful utterance never makes the panel and the session disagree: what a
\* handler changes in the session it also reports (a refusal may break this), and the
\* panel agrees as soon as it has taken in the answers, unless they cross.
SuccessKeepsListsAgreed ==
    [][ListsAgree /\ reply'.ok /\ ~crossed' => ListsAgree']_panelVars

\* The session is never in a list phase that the user cannot see: when no list is
\* shown, or will be once the answers are taken in, speech is routed by the main phase.
\* Where answers overtake each other, or a close is executed on a list it was not
\* pressed for, the code does leave the user there.
NoHiddenPhase ==
    ~crossed /\ Ahead.kind \notin {"hits", "files"} => vs.phase = "main"

\* What the schema says of focusedWorkspacePath (the focused row of the
\* file-selection UI) and what move, rename and delete say they act on: the row
\* the panel marks is the path that is moved, renamed or deleted.
ActsOnMarkedRow ==
    [][panel.kind = "files" /\ reply'.acted # NoPath =>
          reply'.acted = panel.list[panel.at + 1]]_panelVars

=============================================================================
