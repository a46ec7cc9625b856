------------------------ MODULE MCTranscriptService ------------------------
(* Three utterances and a cancel button over a queue of one. *)
EXTENDS TranscriptService

CONSTANTS say1, say2, say3, cancel

MCSpoken == {say1, say2, say3}

=============================================================================
