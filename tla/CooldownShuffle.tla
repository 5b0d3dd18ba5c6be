--------------------------- MODULE CooldownShuffle ---------------------------
(***************************************************************************)
(* What a client of ashuffle's shuffle chain may rely on, stated without   *)
(* the chain's pool and window: an item that has just been picked "cools   *)
(* down" and is not picked again before                                    *)
(*                                                                         *)
(*        min(window size, number of items - 1)                            *)
(*                                                                         *)
(* other picks have happened.  The number of items counted is the one at   *)
(* the time of the pick: items added later do not lengthen a cooldown      *)
(* that has already started.                                               *)
(***************************************************************************)
EXTENDS Integers

CONSTANTS MaxWindow,      \* the window size the chain was built with
          MaxItems        \* bound on the number of items (model checking)

VARIABLES size,           \* how many items the chain holds
          cooldown        \* cooldown[i]: picks of others still owed before i

vars == <<size, cooldown>>

Lesser(a, b) == IF a <= b THEN a ELSE b

TypeOK ==
    /\ size \in 0 .. MaxItems
    /\ cooldown \in [1 .. size -> 0 .. MaxWindow]

Init ==
    /\ size = 0
    /\ cooldown = [i \in 1 .. 0 |-> 0]

(* A chain that has been cleared forgets what it has handed out.           *)
Clear ==
    /\ size' = 0
    /\ cooldown' = [i \in 1 .. 0 |-> 0]

(* Items that join owe nobody anything.                                    *)
Grow(f, n) == [i \in 1 .. n |-> IF i \in DOMAIN f THEN f[i] ELSE 0]

Add ==
    /\ size < MaxItems
    /\ size' = size + 1
    /\ cooldown' = Grow(cooldown, size + 1)

(* The cooldowns after i has been picked from n items.                     *)
Charge(f, i, n) ==
    [j \in 1 .. n |-> IF j = i THEN Lesser(MaxWindow, n - 1)
                      ELSE IF f[j] > 0 THEN f[j] - 1 ELSE 0]

Pick(i) ==
    /\ cooldown[i] = 0
    /\ cooldown' = Charge(cooldown, i, size)
    /\ UNCHANGED size

Next ==
    \/ Clear
    \/ Add
    \/ \E i \in 1 .. size : Pick(i)

Spec == Init /\ [][Next]_vars
=============================================================================
