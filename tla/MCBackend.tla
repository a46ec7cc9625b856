----------------------------- MODULE MCBackend -----------------------------
(* Two calls; the setup lacks a key at first, and once more later.          *)
EXTENDS Backend

CONSTANTS call1, call2

MCComplete == {1, 2, 4}

=============================================================================
