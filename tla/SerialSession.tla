--------------------------- MODULE SerialSession ---------------------------
(***************************************************************************)
(* What the core promises of a voice session that several voice.transcript *)
(* requests use at once: it takes in one request at a time, each at most   *)
(* once and none is lost, until it is idle for too long and starts afresh. *)
(***************************************************************************)
EXTENDS Sequences

CONSTANTS Req       \* requests

VARIABLES session,  \* the requests it has taken in since it was fresh
          done      \* the requests that were executed

Fresh == << >>

SerialInit == session = Fresh /\ done = {}

Absorb(r) ==
    /\ r \notin done
    /\ session' = Append(session, r)
    /\ done' = done \union {r}

Expire == session' = Fresh /\ UNCHANGED done

SerialNext == Expire \/ \E r \in Req : Absorb(r)

SerialSpec == SerialInit /\ [][SerialNext]_<<session, done>>

=============================================================================
