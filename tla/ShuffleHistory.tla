---------------------------- MODULE ShuffleHistory ----------------------------
(***************************************************************************)
(* The shuffle chain with a history variable: for every item, how many     *)
(* picks of other items CooldownShuffle still demands before it may be     *)
(* picked again.  The chain's own steps neither read it nor depend on it.  *)
(***************************************************************************)
EXTENDS ShuffleChain

VARIABLE cooldown

Promise == INSTANCE CooldownShuffle WITH size <- Len(items)

historyVars == <<items, window, pool, cooldown>>

HistoryInit ==
    /\ Init
    /\ cooldown = [i \in 1 .. 0 |-> 0]

HistoryClear ==
    /\ Clear
    /\ cooldown' = [i \in 1 .. 0 |-> 0]

HistoryAdd(item) ==
    /\ Add(item)
    /\ cooldown' = Promise!Grow(cooldown, Len(items) + 1)

HistoryPick(i) ==
    /\ Pick(i)
    /\ cooldown' = Promise!Charge(cooldown, i, Len(items))

HistoryNext ==
    \/ HistoryClear
    \/ \E item \in Item : HistoryAdd(item)
    \/ \E i \in Indices : HistoryPick(i)

HistorySpec == HistoryInit /\ [][HistoryNext]_historyVars

-----------------------------------------------------------------------------

HistoryTypeOK == TypeOK /\ Promise!TypeOK

(* The order of picks keeps the promise of CooldownShuffle: no item comes  *)
(* back before min(MaxWindow, Len(items) - 1) others were picked, whatever *)
(* Adds and Clears happen in between (readme.md, "shuffle algorithm").     *)
KeepsPromise == Promise!Spec

(* What makes the promise hold: the j-th item of the window is at least    *)
(* j - 1 picks away, which is as long as it has to wait, and an item of    *)
(* the pool is behind the whole window.                                    *)
WaitsInLine ==
    /\ \A j \in 1 .. Len(window) : cooldown[window[j]] <= j - 1
    /\ \A i \in pool : cooldown[i] <= Len(window)
=============================================================================
