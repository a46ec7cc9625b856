---------------------------- MODULE MCVoicePanel ----------------------------
(* The voice session and the panel on a text file, a binary, a folder and    *)
(* the workspace folder.                                                     *)
EXTENDS VoicePanel

CONSTANTS text, image, folder, root, hit1, hit2

MCPath   == {text, image, folder, root}
MCFolder == {folder, root}
MCBinary == {image}
MCHit    == {hit1, hit2}
MCHitPath == [h \in MCHit |-> text]

MCHitLists == {<<hit1, hit2>>}

\* A file that the search opens before a folder, and two files, the first of which it
\* does not open and the second of which may be moved over the first.
MCPathLists == {<<text, folder>>, <<image, text>>}

\* No step depends on the last completion, nor on the order of the (two) calls begun:
\* states that differ in these only are one.
SeenAgain ==
    <<vs, panel, editor, {sent[i] : i \in 1..Len(sent)}, Len(sent), answers, crossed>>

=============================================================================
