---------------------------- MODULE ConnectOutcome ----------------------------
(***************************************************************************)
(* What main relies on when it calls Connect (src/src/ashuffle.h): one     *)
(* answer to every call, a user who is asked for a password only if that is*)
(* possible, and no second call, which could not ask, once he was asked.   *)
(***************************************************************************)
VARIABLES interactive,    \* a getpass function was passed
          outcome,        \* "none", "connected", "error", or "died": exited
          prompted        \* the user was asked; main may not reconnect

vars == <<interactive, outcome, prompted>>

Init ==
    /\ interactive \in BOOLEAN
    /\ outcome = "none"
    /\ prompted = FALSE

(* A user who does not answer ends the process.                            *)
Prompt ==
    /\ outcome = "none"
    /\ interactive
    /\ prompted' = TRUE
    /\ outcome' \in {"none", "died"}
    /\ UNCHANGED interactive

Answer ==
    /\ outcome = "none"
    /\ outcome' \in {"connected", "error", "died"}
    /\ UNCHANGED <<interactive, prompted>>

CallAgain ==
    /\ outcome \in {"connected", "error"}
    /\ ~prompted
    /\ outcome' = "none"
    /\ interactive' = FALSE
    /\ UNCHANGED prompted

Next == Prompt \/ Answer \/ CallAgain

Spec == Init /\ [][Next]_vars
=============================================================================
