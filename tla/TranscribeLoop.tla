--------------------------- MODULE TranscribeLoop ---------------------------
(***************************************************************************)
(* One run of the sidecar's transcribe loop: from the microphone, through  *)
(* the local voice activity detector, to the speech service.               *)
(*                                                                         *)
(* The detector cuts the audio into chunks and marks the end of an         *)
(* utterance with a commit.  After a commit the loop holds further audio   *)
(* back until the service has answered it, the next commit is due, or a    *)
(* deadline has passed.  The service answers commits one after the other,  *)
(* at any time; blank answers are thrown away by the read loop.            *)
(*                                                                         *)
(* Audio is a row of numbered units, a frame is FrameUnits of them; a      *)
(* chunk is the interval from..to (a commit without audio is empty).  What *)
(* is said is not modelled: whether a frame is speech is chosen by \E.     *)
(***************************************************************************)
EXTENDS Naturals, Sequences

CONSTANTS
    FrameUnits,             \* frameBytes
    MinChunk, MaxChunk,     \* minChunkBytes, maxChunkBytes, in units
    StartFrames, EndFrames, \* startFrames, endFrames
    MaxUtterFrames,         \* maxUtterFrames; 0 when there is no maximum
    Ceiling,                \* whether SttCommitResponseTimeoutMs is above zero
    MaxFrames,              \* bound on the frames the microphone delivers
    MaxRead,                \* bound on the frames one read delivers
    MaxChanges              \* bound on the live changes of the settings

ASSUME SizesAssumption ==
    /\ FrameUnits \in Nat \ {0} /\ MinChunk \in Nat \ {0}
    /\ MaxChunk \in Nat /\ MaxChunk >= MinChunk
    /\ StartFrames \in Nat \ {0} /\ EndFrames \in Nat \ {0}
    /\ MaxUtterFrames \in Nat /\ Ceiling \in BOOLEAN

ASSUME BoundsAssumption ==
    MaxFrames \in Nat /\ MaxRead \in Nat /\ MaxChanges \in Nat

VARIABLES
    at,         \* where the loop is
    unread,     \* frames of the last read that are not processed yet
    eof,        \* the last read ended with io.EOF
    heard,      \* units of audio the detector has taken
    detector,   \* localVAD; sendBuf is the interval from..heard
    out,        \* chunks of the current frame that are not handled yet
    held,       \* sttDeferred
    awaiting,   \* awaitingOutboundCommitted
    late,       \* outboundCommitDeadline has passed
    sent,       \* the last unit of audio sent
    link,       \* the stream: commits sent, answered, drained; queued answers
    dropped,    \* units thrown away by a live change of the settings
    uttered,    \* the last unit that was part of an utterance
    closed,     \* the last unit that was sent when a commit was
    changes     \* live changes of the settings so far

vars == <<at, unread, eof, heard, detector, out, held, awaiting, late, sent,
          link, dropped, uttered, closed, changes>>
mic == <<unread, eof, heard, detector, uttered>>
hold == <<held, awaiting, late>>
settings == <<dropped, changes>>

Chunk == [from : Nat, to : Nat, commit : BOOLEAN]

\* newLocalVAD, after n units of audio.
FreshDetector(n) ==
    [inSpeech |-> FALSE, speech |-> 0, inSpeechFrames |-> 0, silence |-> 0, from |-> n + 1]

FreshLink == [commits |-> 0, answered |-> 0, drained |-> 0, answers |-> << >>]

-----------------------------------------------------------------------------
(* The detector.                                                           *)

\* drainNonCommitChunks: whole chunks are cut off the front of from..to, and a
\* tail is always kept.
Whole(from, to, size) == (to - from) \div size

Cut(from, to, size) ==
    [i \in 1..Whole(from, to, size) |->
        [from |-> from + (i - 1) * size, to |-> from + i * size - 1, commit |-> FALSE]]

Tailed(d, to, size) == [d EXCEPT !.from = @ + Whole(@, to, size) * size]

\* currentChunkBytes.
ChunkSize(d) == IF d.silence > 0 THEN MaxChunk ELSE MinChunk

Commit(d, to) == [from |-> d.from, to |-> to, commit |-> TRUE]

Result(d, chunks, uttering) == [detector |-> d, chunks |-> chunks, uttering |-> uttering]

\* process, outside an utterance: the frame is streamed, until enough frames in
\* a row are speech; the last of them opens the utterance.
Listen(d, to, speech) ==
    LET n == IF speech THEN d.speech + 1 ELSE 0
        opened == [FreshDetector(to - FrameUnits) EXCEPT !.inSpeech = TRUE]
    IN  IF n >= StartFrames
        THEN Result(Tailed(opened, to, MinChunk), Cut(opened.from, to, MinChunk), TRUE)
        ELSE Result([d EXCEPT !.speech = n, !.from = to + 1],
                    <<[from |-> d.from, to |-> to, commit |-> FALSE]>>, FALSE)

\* Mutant: the silence is not reset at the end of an utterance.
EndUtteranceInSilence(d, to, chunks) ==
    Result([FreshDetector(to) EXCEPT !.silence = d.silence],
           Append(chunks, Commit(d, to)), TRUE)

EndUtterance(d, to, chunks) ==
    Result(FreshDetector(to), Append(chunks, Commit(d, to)), TRUE)

\* process, within an utterance: it ends with enough silence; a long one may be
\* committed on the way.  (The tail is never empty here, so that the branches
\* for an empty sendBuf are not taken.)
Utter(d, to, speech) ==
    LET chunks == Cut(d.from, to, ChunkSize(d))
        next == [Tailed(d, to, ChunkSize(d)) EXCEPT
                    !.inSpeechFrames = @ + 1,
                    !.silence = IF speech THEN 0 ELSE @ + 1]
    IN  IF next.silence >= EndFrames
        THEN EndUtterance(next, to, chunks)
        ELSE IF MaxUtterFrames > 0 /\ next.inSpeechFrames >= MaxUtterFrames
        THEN Result([next EXCEPT !.inSpeechFrames = 0, !.from = to + 1],
                    Append(chunks, Commit(next, to)), TRUE)
        ELSE Result(next, chunks, TRUE)

\* flush, after the last frame.
Flushed == IF detector.inSpeech THEN <<Commit(detector, heard)>> ELSE << >>

-----------------------------------------------------------------------------
(* Steps the loop is built from.                                           *)

\* drainSTTClientEvents takes in every queued answer (not its failures: Break).
Drained(l) ==
    [l EXCEPT !.answers = << >>,
              !.drained = IF l.answers = << >> THEN @ ELSE l.answers[Len(l.answers)]]

\* flushSTTDeferred: the last unit sent afterwards.
SentWithHeld == IF held = << >> THEN sent ELSE held[Len(held)].to

\* endOutboundHold: the audio held back is sent, in order.
EndHold == held' = << >> /\ awaiting' = FALSE /\ late' = FALSE

\* Mutant: the deadline is not looked at.
ConsiderAnswersOnly(here, next) ==
    /\ at = here /\ at' = next
    /\ link' = Drained(link)
    /\ IF awaiting /\ link.answers # << >>
       THEN EndHold /\ sent' = SentWithHeld
       ELSE UNCHANGED <<hold, sent>>
    /\ UNCHANGED <<mic, out, settings, closed>>

\* drainSTTClientEvents and considerReleasingOutboundHold: any answer, or the
\* deadline, ends the hold.
Consider(here, next) ==
    /\ at = here /\ at' = next
    /\ link' = Drained(link)
    /\ IF awaiting /\ (link.answers # << >> \/ late)
       THEN EndHold /\ sent' = SentWithHeld
       ELSE UNCHANGED <<hold, sent>>
    /\ UNCHANGED <<mic, out, settings, closed>>

-----------------------------------------------------------------------------
(* The loop.                                                               *)

\* The top of the loop, when the context is alive and no change is pending.
Begin ==
    /\ at = "top" /\ at' = "draining"
    /\ UNCHANGED <<mic, out, hold, sent, link, settings, closed>>

DrainBefore == Consider("draining", "reading")

\* The microphone delivers some frames, perhaps none, perhaps its last ones.
Read(n, last) ==
    /\ at = "reading" /\ at' = "framing"
    /\ heard + n * FrameUnits <= MaxFrames * FrameUnits
    /\ unread' = n /\ eof' = last
    /\ UNCHANGED <<heard, detector, uttered, out, hold, sent, link, settings, closed>>

Process(speech) ==
    /\ at = "framing" /\ out = << >> /\ unread > 0
    /\ unread' = unread - 1
    /\ heard' = heard + FrameUnits
    /\ LET r == IF detector.inSpeech THEN Utter(detector, heard', speech)
                ELSE Listen(detector, heard', speech)
       IN  /\ detector' = r.detector
           /\ out' = r.chunks
           /\ uttered' = IF r.uttering THEN heard' ELSE uttered
    /\ UNCHANGED <<at, eof, hold, sent, link, settings, closed>>

\* A chunk that is no commit is sent; the answers drained then are ignored.
Stream ==
    /\ at = "framing" /\ out # << >> /\ ~Head(out).commit /\ ~awaiting
    /\ out' = Tail(out)
    /\ sent' = Head(out).to
    /\ link' = Drained(link)
    /\ UNCHANGED <<at, mic, hold, settings, closed>>

\* Mutant: while an answer is awaited, commits are held back too.
DeferAny ==
    /\ at = "framing" /\ out # << >> /\ awaiting
    /\ out' = Tail(out)
    /\ held' = Append(held, Head(out))
    /\ UNCHANGED <<at, mic, awaiting, late, sent, link, settings, closed>>

\* It is held back while an answer is awaited.
Defer ==
    /\ at = "framing" /\ out # << >> /\ ~Head(out).commit /\ awaiting
    /\ out' = Tail(out)
    /\ held' = Append(held, Head(out))
    /\ UNCHANGED <<at, mic, awaiting, late, sent, link, settings, closed>>

\* Mutant: the audio held back stays behind the commit.
SendCommitFirst ==
    /\ at = "framing" /\ out # << >> /\ Head(out).commit
    /\ at' = "committed"
    /\ out' = Tail(out)
    /\ sent' = Head(out).to /\ closed' = Head(out).to
    /\ link' = [Drained(link) EXCEPT !.commits = @ + 1]
    /\ UNCHANGED <<mic, hold, settings>>

\* A commit ends the hold of the one before; its audio is sent as an ordinary
\* chunk, then the commit.  Answers drained in between are ignored.
SendCommit ==
    /\ at = "framing" /\ out # << >> /\ Head(out).commit
    /\ at' = "committed"
    /\ out' = Tail(out)
    /\ EndHold
    /\ sent' = Head(out).to /\ closed' = Head(out).to
    /\ link' = [(IF sent' = sent THEN link ELSE Drained(link)) EXCEPT !.commits = @ + 1]
    /\ UNCHANGED <<mic, settings>>

\* Mutant: the answers drained after the commit are ignored too.
AwaitAnyway ==
    /\ at = "committed" /\ at' = "framing"
    /\ link' = Drained(link)
    /\ awaiting' = TRUE
    /\ UNCHANGED <<mic, out, held, late, sent, settings, closed>>

\* The drain after the commit: an answer, of whichever commit, and there is no
\* hold.
Await ==
    /\ at = "committed" /\ at' = "framing"
    /\ link' = Drained(link)
    /\ awaiting' = (link.answers = << >>)
    /\ UNCHANGED <<mic, out, held, late, sent, settings, closed>>

Processed ==
    /\ at = "framing" /\ out = << >> /\ unread = 0
    /\ at' = "bottom"
    /\ UNCHANGED <<mic, out, hold, sent, link, settings, closed>>

DrainAfter == Consider("bottom", IF eof THEN "flushing" ELSE "top")

\* The microphone has ended: what is held, and what the detector keeps, is sent.
Flush ==
    /\ at = "flushing" /\ at' = "done"
    /\ EndHold
    /\ detector' = [detector EXCEPT !.inSpeech = FALSE, !.from = heard + 1]
    /\ sent' = IF Flushed = << >> THEN SentWithHeld ELSE heard
    /\ closed' = IF Flushed = << >> THEN closed ELSE heard
    /\ link' = [Drained(link) EXCEPT !.commits = @ + Len(Flushed)]
    /\ UNCHANGED <<unread, eof, heard, uttered, out, settings>>

\* The loop returns: its context is cancelled (seen at the top), the stream
\* broke or could not be opened again, or the microphone failed.
Break ==
    /\ \/ at \in {"top", "draining", "committed", "bottom", "flushing"}
       \/ at = "framing" /\ out # << >> /\ (awaiting => Head(out).commit)
    /\ at' = "done"
    /\ UNCHANGED <<mic, out, hold, sent, link, settings, closed>>

Loop ==
    \/ Begin \/ DrainBefore
    \/ \E n \in 0..MaxRead, last \in BOOLEAN : Read(n, last)
    \/ \E speech \in BOOLEAN : Process(speech)
    \/ Stream \/ Defer \/ SendCommit \/ Await
    \/ Processed \/ DrainAfter \/ Flush \/ Break

-----------------------------------------------------------------------------
(* The service, the clock and the user's settings.                         *)

\* The next commit is answered.  A blank answer does not reach the loop.
Answer(blank) ==
    /\ at # "done" /\ link.answered < link.commits
    /\ link' = [link EXCEPT !.answered = @ + 1,
                            !.answers = IF blank THEN @ ELSE Append(@, link.answered + 1)]
    /\ UNCHANGED <<at, mic, out, hold, sent, settings, closed>>

DeadlinePasses ==
    /\ Ceiling /\ awaiting /\ ~late
    /\ late' = TRUE
    /\ UNCHANGED <<at, mic, out, held, awaiting, sent, link, settings, closed>>

\* The units of a sequence of chunks.
Units(chunks) == UNION {chunks[i].from .. chunks[i].to : i \in 1..Len(chunks)}

\* sttChanged: a new stream; what was held is thrown away.
Reconnect ==
    /\ at = "top" /\ changes < MaxChanges
    /\ changes' = changes + 1
    /\ link' = FreshLink
    /\ dropped' = dropped \union Units(held)
    /\ held' = << >> /\ awaiting' = FALSE /\ late' = FALSE
    /\ UNCHANGED <<at, mic, out, sent, closed>>

\* vadChanged: a new detector, without the buffer and the utterance of the old.
Retune ==
    /\ at = "top" /\ changes < MaxChanges
    /\ changes' = changes + 1
    /\ dropped' = dropped \union (detector.from .. heard)
    /\ detector' = FreshDetector(heard)
    /\ UNCHANGED <<at, unread, eof, heard, uttered, out, hold, sent, link, closed>>

Done == at = "done" /\ UNCHANGED vars

-----------------------------------------------------------------------------
(* The specification.                                                      *)

Init ==
    /\ at = "top" /\ unread = 0 /\ eof = FALSE /\ heard = 0
    /\ detector = FreshDetector(0)
    /\ out = << >> /\ held = << >> /\ awaiting = FALSE /\ late = FALSE
    /\ sent = 0 /\ link = FreshLink
    /\ dropped = {} /\ uttered = 0 /\ closed = 0 /\ changes = 0

\* While the settings stay as they are.
Steady ==
    Loop \/ (\E blank \in BOOLEAN : Answer(blank)) \/ DeadlinePasses \/ Done

Next == Steady \/ Reconnect \/ Retune

Spec == Init /\ [][Next]_vars

\* The loop's goroutine goes on (a read of the microphone ends), and so does
\* time.  Nothing is assumed of the service.
FairSpec == Spec /\ WF_vars(Loop) /\ WF_vars(DeadlinePasses)

-----------------------------------------------------------------------------
(* Properties.                                                             *)

Place == {"top", "draining", "reading", "framing", "committed", "bottom", "flushing", "done"}

Detector == [inSpeech : BOOLEAN, speech : 0..(StartFrames - 1),
             inSpeechFrames : Nat, silence : 0..(EndFrames - 1), from : Nat \ {0}]

\* The types of the loop's variables, and the limits of the detector's counters.
TypeOK ==
    /\ at \in Place /\ unread \in 0..MaxRead /\ eof \in BOOLEAN
    /\ heard \in Nat /\ sent \in Nat /\ uttered \in Nat /\ closed \in Nat
    /\ detector \in Detector
    /\ out \in Seq(Chunk) /\ held \in Seq(Chunk)
    /\ awaiting \in BOOLEAN /\ late \in BOOLEAN
    /\ link \in [commits : Nat, answered : Nat, drained : Nat, answers : Seq(Nat)]
    /\ dropped \subseteq Nat /\ changes \in 0..MaxChanges

\* b is the first unit after a that is no gap.
Follows(a, b, gaps) == a < b /\ (a + 1)..(b - 1) \subseteq gaps

\* The chunks of line lead, one after the other, from behind unit a to unit b.
Row(a, line, b, gaps) ==
    /\ line = << >> => Follows(a, b, gaps)
    /\ line # << >> => /\ Follows(a, line[1].from, gaps)
                      /\ Follows(line[Len(line)].to, b, gaps)
    /\ \A i \in 1..Len(line) : line[i].from <= line[i].to + 1
    /\ \A i \in 1..(Len(line) - 1) : Follows(line[i].to, line[i + 1].from, gaps)

\* The audio goes to the service once and in the order it was spoken, whatever
\* is held back: what was sent, what is held, the chunks at hand, and the
\* detector's buffer follow each other, with no gap but for the audio a change
\* of the settings has thrown away.
AudioInOrder ==
    /\ Row(sent, held \o out, detector.from, dropped)
    /\ detector.from <= heard + 1

\* An utterance that is over was closed by a commit that was sent after all of
\* it: otherwise "the segment stays open and the client shows a stuck partial"
\* (vad.go:174-176).
UtterancesAreClosed ==
    ~detector.inSpeech /\ out = << >> => uttered <= closed

\* The same while no live change has replaced the detector or the connection
\* (transcribe.go:176-196 does so in the middle of an utterance, without a flush).
ClosedWhileSteady == changes = 0 => UtterancesAreClosed

\* The loop never holds audio for an answer it has drained already: such a hold
\* would last until the deadline.
HoldNotOverlooked == awaiting => link.drained < link.commits

\* Audio held back is sent in the end, whatever the service does.
HeldAudioIsSent == held # << >> ~> held = << >> \/ at = "done"

=============================================================================
