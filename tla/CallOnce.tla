------------------------------ MODULE CallOnce ------------------------------
(***************************************************************************)
(* What a remote call promises its caller: the work is begun at most once, *)
(* and the caller is told its outcome at most once: the answer to this     *)
(* call, when its work is done, or a failure, which may come at any time   *)
(* and says nothing about the work.                                        *)
(***************************************************************************)
CONSTANT Call

VARIABLES
    outcome,    \* what the caller of each call knows
    work        \* how far the work of each call is

contract == <<outcome, work>>

Open(c) == outcome[c] = "open"

ContractInit ==
    /\ outcome = [c \in Call |-> "unmade"]
    /\ work = [c \in Call |-> "none"]

Made(c) ==
    /\ outcome[c] = "unmade"
    /\ \E o \in {"open", "failed"} : outcome' = [outcome EXCEPT ![c] = o]
    /\ UNCHANGED work

Begun(c) ==
    /\ outcome[c] # "unmade" /\ work[c] = "none"
    /\ work' = [work EXCEPT ![c] = "begun"]
    /\ UNCHANGED outcome

Ended(c) ==
    /\ work[c] = "begun"
    /\ work' = [work EXCEPT ![c] = "done"]
    /\ UNCHANGED outcome

Told(c) ==
    /\ Open(c) /\ work[c] = "done"
    /\ outcome' = [outcome EXCEPT ![c] = "answered"]
    /\ UNCHANGED work

\* All open calls fail together: their connection is lost.
AllFail ==
    /\ outcome' = [c \in Call |-> IF Open(c) THEN "failed" ELSE outcome[c]]
    /\ UNCHANGED work

ContractNext ==
    \/ \E c \in Call : Made(c) \/ Begun(c) \/ Ended(c) \/ Told(c)
    \/ AllFail

ContractSpec == ContractInit /\ [][ContractNext]_contract

=============================================================================
