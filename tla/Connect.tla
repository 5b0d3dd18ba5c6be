------------------------------- MODULE Connect -------------------------------
(***************************************************************************)
(* Connecting to MPD and the password workflow (src/src/ashuffle.cc,       *)
(* Connect and PromptPassword; src/src/mpd_client.cc, ApplyPassword and    *)
(* CheckCommands), one action per call to the server or to the user.  The  *)
(* connection may break at any time, and stays broken: libmpdclient fails  *)
(* every call after the first that failed.                                 *)
(***************************************************************************)
CONSTANTS Passwords,      \* what the user may supply or type
          Accepted,       \* those the server knows
          Sufficient      \* those that permit all of kRequiredCommands

ASSUME PasswordAssumption == Sufficient \subseteq Accepted /\ Accepted \subseteq Passwords

NoPassword == "no password"

ASSUME NoPasswordAssumption == NoPassword \notin Passwords

VARIABLES host,           \* the password in --host or MPD_HOST, if any
          interactive,    \* getpass_f is not null
          pc,
          broken,         \* the connection has failed
          permitted,      \* the server permits all of kRequiredCommands
          typed,          \* pass
          prompted        \* disable_reconnect, set by main's pass_f

vars == <<host, interactive, pc, broken, permitted, typed, prompted>>

Done == {"connected", "error", "died"}

TypeOK ==
    /\ host \in Passwords \cup {NoPassword}
    /\ interactive \in BOOLEAN
    /\ pc \in {"dial", "apply_host", "check", "getpass", "apply", "recheck"} \cup Done
    /\ broken \in BOOLEAN
    /\ permitted \in BOOLEAN
    /\ typed \in Passwords \cup {NoPassword}
    /\ prompted \in BOOLEAN
    /\ pc = "apply" => typed # NoPassword
    /\ pc \in {"getpass", "apply", "recheck"} => interactive

(* A server may permit everything to everybody, or not.                    *)
Init ==
    /\ host \in Passwords \cup {NoPassword}
    /\ interactive \in BOOLEAN
    /\ pc = "dial"
    /\ broken = FALSE
    /\ permitted \in BOOLEAN
    /\ typed = NoPassword
    /\ prompted = FALSE

-----------------------------------------------------------------------------
Dial ==
    /\ pc = "dial"
    /\ pc' = IF broken THEN "error"
             ELSE IF host = NoPassword THEN "check" ELSE "apply_host"
    /\ UNCHANGED <<host, interactive, broken, permitted, typed, prompted>>

(* A password the server knows replaces the permissions of the connection; *)
(* one it does not know changes nothing, and the error is cleared.         *)
Permission(password) ==
    IF broken \/ password \notin Accepted THEN permitted
    ELSE password \in Sufficient

(* Whether the password was accepted is not looked at.                     *)
ApplyHostPassword ==
    /\ pc = "apply_host"
    /\ permitted' = Permission(host)
    /\ pc' = "check"
    /\ UNCHANGED <<host, interactive, broken, typed, prompted>>

(* Mutants: nobody to ask, or a password that was supplied, is no reason   *)
(* not to ask.                                                             *)
CheckAndPrompt ==
    /\ pc = "check"
    /\ pc' = IF broken THEN "error"
             ELSE IF permitted THEN "connected"
             ELSE IF host = NoPassword THEN "getpass"
             ELSE "died"
    /\ UNCHANGED <<host, interactive, broken, permitted, typed, prompted>>

CheckAndAskAnyway ==
    /\ pc = "check"
    /\ pc' = IF broken THEN "error"
             ELSE IF permitted THEN "connected"
             ELSE IF interactive THEN "getpass"
             ELSE "died"
    /\ UNCHANGED <<host, interactive, broken, permitted, typed, prompted>>

CheckCommands ==
    /\ pc = "check"
    /\ pc' = IF broken THEN "error"
             ELSE IF permitted THEN "connected"
             ELSE IF host = NoPassword /\ interactive THEN "getpass"
             ELSE "died"
    /\ UNCHANGED <<host, interactive, broken, permitted, typed, prompted>>

(* PromptPassword                                                          *)

Type(password) ==
    /\ pc = "getpass"
    /\ typed' = password
    /\ prompted' = TRUE
    /\ pc' = "apply"
    /\ UNCHANGED <<host, interactive, broken, permitted>>

(* Nothing is left to read, or the terminal fails: GetPass exits.          *)
NoAnswer ==
    /\ pc = "getpass"
    /\ prompted' = TRUE
    /\ pc' = "died"
    /\ UNCHANGED <<host, interactive, broken, permitted, typed>>

(* Any error but a rejected password is followed by another prompt, too.   *)
ApplyTypedPassword ==
    /\ pc = "apply"
    /\ permitted' = Permission(typed)
    /\ pc' = IF ~broken /\ typed \in Accepted THEN "recheck" ELSE "getpass"
    /\ typed' = NoPassword
    /\ UNCHANGED <<host, interactive, broken, prompted>>

(* Mutant: an accepted password is taken to be good enough.                *)
NoRecheck ==
    /\ pc = "recheck"
    /\ pc' = IF broken THEN "error" ELSE "connected"
    /\ UNCHANGED <<host, interactive, broken, permitted, typed, prompted>>

Recheck ==
    /\ pc = "recheck"
    /\ pc' = IF broken THEN "error" ELSE IF permitted THEN "connected" ELSE "died"
    /\ UNCHANGED <<host, interactive, broken, permitted, typed, prompted>>

Breaks ==
    /\ pc \notin Done
    /\ ~broken
    /\ broken' = TRUE
    /\ UNCHANGED <<host, interactive, pc, permitted, typed, prompted>>

Step ==
    \/ Dial \/ ApplyHostPassword \/ CheckCommands
    \/ (\E password \in Passwords : Type(password)) \/ NoAnswer
    \/ ApplyTypedPassword \/ Recheck

Next == Step \/ Breaks

(* Connect takes its steps, and the user answers every prompt.             *)
Spec == Init /\ [][Next]_vars /\ WF_vars(Step)

(* A user who is asked again and again knows a password that is accepted.  *)
PatientSpec ==
    Spec /\ SF_vars(\E password \in Accepted : Type(password))

-----------------------------------------------------------------------------
(* Whichever way a connection is made, by default permissions, by the      *)
(* password of the host or by one that was typed, and whichever of them    *)
(* were rejected or insufficient on the way, a connection that is handed   *)
(* to main may run everything Loop is going to call.                       *)
ConnectedMeansPermitted == pc = "connected" => permitted

(* Connect answers once, and asks for a password only if it has somebody   *)
(* to ask.                                                                 *)
Outcome == INSTANCE ConnectOutcome
               WITH outcome <- IF pc \in Done THEN pc ELSE "none"

AnswersOnce == Outcome!Spec

(* No password is asked for if one was supplied.                           *)
AsksOnlyWithoutPassword == prompted => host = NoPassword

(* "keep looping till we get a bad error, or we get a good password"       *)
(* (ashuffle.cc:151): after an error the prompt comes to an end.           *)
PromptEnds == (pc = "getpass" /\ broken) ~> pc \in Done
=============================================================================
