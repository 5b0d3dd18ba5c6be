----------------------------- MODULE ConnectProofs -----------------------------
(***************************************************************************)
(* Proofs about Connect, for every set of passwords and whatever the       *)
(* server knows of them.                                                   *)
(***************************************************************************)
EXTENDS Connect, TLAPS

(* Somebody is asked only where there is somebody and no password was      *)
(* supplied: TypeOK says the first, Prompting the second.                 *)
Prompting == pc \in {"getpass", "apply", "recheck"} => host = NoPassword

ConnectInv ==
    TypeOK /\ ConnectedMeansPermitted /\ AsksOnlyWithoutPassword /\ Prompting

(* Before the first call there is no connection to have rights on.         *)
LEMMA ConnectStart == Init => ConnectInv
BY DEF Init, ConnectInv, TypeOK, Prompting, ConnectedMeansPermitted,
       AsksOnlyWithoutPassword, Done

(* A password leaves the connection permitted or not.                      *)
LEMMA PermissionType ==
    ASSUME permitted \in BOOLEAN, NEW password
    PROVE  Permission(password) \in BOOLEAN
<1>1. (password \in Sufficient) \in BOOLEAN
  OBVIOUS
<1> QED  BY <1>1 DEF Permission

(* Every call to the server, every password typed and the loss of the      *)
(* connection preserve ConnectInv.                                         *)
LEMMA ConnectStep == ConnectInv /\ [Next]_vars => ConnectInv'
<1> SUFFICES ASSUME ConnectInv, [Next]_vars
             PROVE  ConnectInv'
  OBVIOUS
<1> USE DEF ConnectInv, TypeOK, Prompting, ConnectedMeansPermitted,
            AsksOnlyWithoutPassword, Done
<1>1. CASE Dial
  BY <1>1 DEF Dial
<1>2. CASE ApplyHostPassword
  <2>1. permitted' \in BOOLEAN
    BY <1>2, PermissionType DEF ApplyHostPassword
  <2> QED  BY <1>2, <2>1 DEF ApplyHostPassword
<1>3. CASE CheckCommands
  BY <1>3 DEF CheckCommands
<1>4. ASSUME NEW password \in Passwords, Type(password)
      PROVE  ConnectInv'
  BY <1>4, NoPasswordAssumption DEF Type
<1>9. CASE NoAnswer
  BY <1>9 DEF NoAnswer
<1>5. CASE ApplyTypedPassword
  <2>1. permitted' \in BOOLEAN
    BY <1>5, PermissionType DEF ApplyTypedPassword
  <2> QED  BY <1>5, <2>1 DEF ApplyTypedPassword
<1>6. CASE Recheck
  BY <1>6 DEF Recheck
<1>7. CASE Breaks
  BY <1>7 DEF Breaks
<1>8. CASE UNCHANGED vars
  BY <1>8 DEF vars
<1> QED  BY <1>1, <1>2, <1>3, <1>4, <1>5, <1>6, <1>7, <1>8, <1>9 DEF Next, Step

(***************************************************************************)
(* Connect hands out only connections that may run every required command, *)
(* and prompts only if no password was supplied (ashuffle.cc, Connect).    *)
(***************************************************************************)
THEOREM ConnectCorrect ==
    Spec => [](TypeOK /\ ConnectedMeansPermitted /\ AsksOnlyWithoutPassword)
<1>1. ConnectInv => TypeOK /\ ConnectedMeansPermitted /\ AsksOnlyWithoutPassword
  BY DEF ConnectInv
<1> QED  BY <1>1, ConnectStart, ConnectStep, PTL DEF Spec

(* Every step of Connect is a prompt, an answer, or invisible to main.     *)
LEMMA OutcomeStep ==
    ConnectInv /\ [Next]_vars => [Outcome!Next]_(Outcome!vars)
<1> SUFFICES ASSUME ConnectInv, [Next]_vars
             PROVE  [Outcome!Next]_(Outcome!vars)
  OBVIOUS
<1> USE DEF ConnectInv, TypeOK, Done, Outcome!vars, Outcome!Next
<1>1. CASE Dial
  BY <1>1 DEF Dial, Outcome!Answer
<1>2. CASE ApplyHostPassword
  BY <1>2 DEF ApplyHostPassword
<1>3. CASE CheckCommands
  BY <1>3 DEF CheckCommands, Outcome!Answer
<1>4. ASSUME NEW password \in Passwords, Type(password)
      PROVE  [Outcome!Next]_(Outcome!vars)
  BY <1>4 DEF Type, Outcome!Prompt
<1>9. CASE NoAnswer
  BY <1>9 DEF NoAnswer, Outcome!Prompt
<1>5. CASE ApplyTypedPassword
  BY <1>5 DEF ApplyTypedPassword
<1>6. CASE Recheck
  BY <1>6 DEF Recheck, Outcome!Answer
<1>7. CASE Breaks
  BY <1>7 DEF Breaks
<1>8. CASE UNCHANGED vars
  BY <1>8 DEF vars
<1> QED  BY <1>1, <1>2, <1>3, <1>4, <1>5, <1>6, <1>7, <1>8, <1>9 DEF Next, Step

(***************************************************************************)
(* Connect implements what its header promises: it answers once, and asks  *)
(* only if it was passed a function to ask with (ashuffle.h, Connect).     *)
(***************************************************************************)
THEOREM ConnectAnswersOnce == Spec => AnswersOnce
<1>1. Init => Outcome!Init
  BY DEF Init, Outcome!Init, Done
<1> QED  BY <1>1, ConnectStart, ConnectStep, OutcomeStep, PTL
            DEF Spec, AnswersOnce, Outcome!Spec
=============================================================================
