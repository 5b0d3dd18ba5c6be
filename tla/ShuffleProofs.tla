---------------------------- MODULE ShuffleProofs ----------------------------
(***************************************************************************)
(* Proofs about the shuffle chain, for every set of items, every window    *)
(* size and every number of items.                                         *)
(***************************************************************************)
EXTENDS ShuffleHistory, ChainProofs

ChainInv == ChainWhole /\ Len(items) <= MaxItems

(* Adding an item (ShuffleChain::Add) preserves ChainInv.                  *)
LEMMA AddLemma ==
    ASSUME ChainInv, NEW item \in Item, Add(item)
    PROVE  ChainInv' /\ Len(items') = Len(items) + 1
<1>1. ChainWhole /\ AddAll(<<item>>) /\ Len(items) < MaxItems /\ Len(items) \in Nat
  BY LenProperties DEF ChainInv, ChainWhole, Add
<1>2. <<item>> \in Seq(Item) /\ Len(<<item>>) = 1
  OBVIOUS
<1>3. ChainWhole' /\ Len(items') = Len(items) + 1
  BY <1>1, <1>2, AddAllKeepsWhole
<1> QED  BY <1>1, <1>3, MaxItemsAssumption DEF ChainInv

(* A cleared chain satisfies ChainInv (ShuffleChain::Clear).               *)
LEMMA ClearLemma ==
    ASSUME items = <<>>, window = <<>>, pool = {}
    PROVE  ChainInv
<1>1. items \in Seq(Item) /\ Len(items) = 0 /\ 1 .. Len(items) = {}
  OBVIOUS
<1>2. ChainWhole
  BY <1>1, FilledIsWhole
<1> QED  BY <1>1, <1>2, MaxItemsAssumption DEF ChainInv

(* Every operation of the chain preserves ChainInv.                        *)
LEMMA ChainStep == ChainInv /\ [Next]_chainVars => ChainInv'
<1> SUFFICES ASSUME ChainInv, [Next]_chainVars
             PROVE  ChainInv'
  OBVIOUS
<1>1. CASE Clear
  <2>1. <<>> \in Seq(Item) /\ Len(<<>>) = 0 /\ 1 .. Len(<<>>) = {}
    OBVIOUS
  <2>2. Refill(<<>>) /\ items' = <<>>
    BY <1>1, <2>1 DEF Clear, Refill
  <2>3. ChainWhole'
    BY <2>1, <2>2, RefillKeepsWhole
  <2> QED  BY <2>1, <2>2, <2>3, MaxItemsAssumption DEF ChainInv
<1>2. ASSUME NEW item \in Item, Add(item)
      PROVE  ChainInv'
  BY <1>2, AddLemma
<1>3. ASSUME NEW i \in Indices, Pick(i)
      PROVE  ChainInv'
  <2>1. ChainWhole' /\ items' = items
    BY <1>3, PickKeepsWhole DEF ChainInv, Pick
  <2> QED  BY <2>1 DEF ChainInv
<1>4. CASE UNCHANGED chainVars
  BY <1>4 DEF chainVars, ChainInv, ChainWhole, TypeOK, NothingLostOrDuplicated, WindowBounded,
              Indices, Range, IsInjective
<1> QED  BY <1>1, <1>2, <1>3, <1>4 DEF Next

(***************************************************************************)
(* TypeOK, NothingLostOrDuplicated and WindowBounded hold of the chain:    *)
(* its three containers never lose, duplicate or misplace an index, for    *)
(* any number of items and any window size (shuffle.cc, Add, FillWindow,   *)
(* Pick, Clear).                                                           *)
(***************************************************************************)
THEOREM ChainCorrect ==
    Spec => [](TypeOK /\ NothingLostOrDuplicated /\ WindowBounded)
<1>1. Init => ChainInv
  BY ClearLemma DEF Init
<1>2. ChainInv /\ [Next]_chainVars => ChainInv'
  BY ChainStep
<1>3. ChainInv => TypeOK /\ NothingLostOrDuplicated /\ WindowBounded
  BY DEF ChainInv, ChainWhole, TypeOK
<1> QED  BY <1>1, <1>2, <1>3, PTL DEF Spec

(***************************************************************************)
(* The inductive invariant of the chain with its history.  Promise!TypeOK  *)
(* and ChainInv alone are not enough for the promise: that Pick returns an *)
(* item whose cooldown is 0 follows from WaitsInLine only.                 *)
(***************************************************************************)
HistoryInv == ChainInv /\ Promise!TypeOK /\ WaitsInLine

(* A cooldown is a number of picks, for every item of the window, too.     *)
LEMMA CooldownValues ==
    ASSUME HistoryInv
    PROVE  /\ Len(items) \in Nat /\ Len(items) <= MaxItems
           /\ Len(window) \in Nat /\ Len(window) <= MaxWindow
           /\ cooldown \in [Indices -> 0 .. MaxWindow]
           /\ \A j \in 1 .. Len(window) : window[j] \in Indices
BY LenProperties, ElementOfSeq
   DEF HistoryInv, ChainInv, ChainWhole, TypeOK, WindowBounded, Promise!TypeOK, Indices

(* The item Pick returns owes nothing: its cooldown is over.               *)
LEMMA PickIsReady ==
    ASSUME HistoryInv, NEW i, Pick(i)
    PROVE  i \in Indices /\ cooldown[i] = 0
<1>1. i \in Indices /\ IF Len(window) = 0 THEN i \in pool ELSE i = window[1]
  BY PickLemma DEF HistoryInv, ChainInv
<1>2. cooldown[i] \in Nat
  BY <1>1, CooldownValues, WindowAssumption
<1>3. CASE Len(window) = 0
  BY <1>1, <1>2, <1>3 DEF HistoryInv, WaitsInLine
<1>4. CASE Len(window) # 0
  <2>1. 1 \in 1 .. Len(window)
    BY <1>4, CooldownValues
  <2> QED  BY <1>1, <1>2, <1>4, <2>1 DEF HistoryInv, WaitsInLine
<1> QED  BY <1>1, <1>3, <1>4

(* Pick lets the others in line move up and sends its item to the end.     *)
LEMMA PickKeepsHistory ==
    ASSUME HistoryInv, NEW i, HistoryPick(i)
    PROVE  (Promise!TypeOK /\ WaitsInLine)'
<1>1. Pick(i) /\ cooldown' = Promise!Charge(cooldown, i, Len(items))
  BY DEF HistoryPick
<1>2. /\ i \in Indices
      /\ window' \in Seq(Indices)
      /\ Len(window') = Smaller(MaxWindow, Len(items) - 1)
      /\ Len(window) - 1 <= Len(window')
      /\ \A j \in 1 .. Len(window') :
            /\ window'[j] # i
            /\ IF j < Len(window) THEN window'[j] = window[j + 1]
                                  ELSE window'[j] \in pool
      /\ pool' \subseteq pool \cup {i}
      /\ pool' \subseteq Indices
      /\ items' = items
  BY <1>1, PickLemma DEF HistoryInv, ChainInv
<1>3. /\ Len(items) \in Nat \ {0} /\ Len(items) <= MaxItems
      /\ Len(window) \in Nat
      /\ cooldown \in [Indices -> 0 .. MaxWindow]
  BY <1>1, CooldownValues DEF Pick
<1>4. /\ \A j \in 1 .. Len(window) : cooldown[window[j]] <= j - 1
      /\ \A k \in pool : cooldown[k] <= Len(window)
  BY DEF HistoryInv, WaitsInLine
<1>5. cooldown' = [j \in Indices |->
                    IF j = i THEN Smaller(MaxWindow, Len(items) - 1)
                    ELSE IF cooldown[j] > 0 THEN cooldown[j] - 1 ELSE 0]
  BY <1>1 DEF Promise!Charge, Promise!Lesser, Smaller, Indices
<1>6. Smaller(MaxWindow, Len(items) - 1) \in 0 .. MaxWindow
  BY <1>3, WindowAssumption DEF Smaller
<1>7. Indices' = Indices
  BY <1>2 DEF Indices
<1>8. (Promise!TypeOK)'
  <2>1. cooldown' \in [Indices -> 0 .. MaxWindow]
    BY <1>3, <1>5, <1>6, WindowAssumption
  <2> QED  BY <1>2, <1>3, <1>7, <2>1, MaxItemsAssumption DEF Promise!TypeOK, Indices
<1>9. Len(window') \in Nat
  BY <1>2, LenProperties
<1>10. ASSUME NEW j \in 1 .. Len(window')
       PROVE  cooldown'[window'[j]] <= j - 1
  <2>1. window'[j] \in Indices /\ window'[j] # i
    BY <1>2, <1>9, ElementOfSeq
  <2>2. cooldown'[window'[j]] = IF cooldown[window'[j]] > 0 THEN cooldown[window'[j]] - 1 ELSE 0
    BY <1>5, <2>1
  <2>3. cooldown[window'[j]] \in Nat
    BY <1>3, <2>1, WindowAssumption
  <2>4. CASE j < Len(window)
    <3>1. j + 1 \in 1 .. Len(window) /\ window'[j] = window[j + 1]
      BY <1>2, <1>3, <1>9, <2>4
    <3>2. cooldown[window'[j]] <= j
      BY <1>4, <3>1
    <3> QED  BY <1>9, <2>2, <2>3, <3>2
  <2>5. CASE j >= Len(window)
    <3>1. window'[j] \in pool
      BY <1>2, <1>3, <1>9, <2>5
    <3>2. cooldown[window'[j]] <= Len(window)
      BY <1>4, <3>1
    <3> QED  BY <1>3, <1>9, <2>2, <2>3, <2>5, <3>2
  <2> QED  BY <1>3, <1>9, <2>4, <2>5
<1>11. ASSUME NEW k \in pool'
       PROVE  cooldown'[k] <= Len(window')
  <2>1. k \in Indices
    BY <1>2
  <2>2. CASE k = i
    BY <1>2, <1>5, <1>6, <2>1, <2>2, WindowAssumption
  <2>3. CASE k # i
    <3>1. cooldown[k] \in Nat /\ cooldown[k] <= Len(window)
      BY <1>2, <1>3, <1>4, <2>1, <2>3, WindowAssumption
    <3>2. cooldown'[k] = IF cooldown[k] > 0 THEN cooldown[k] - 1 ELSE 0
      BY <1>5, <2>1, <2>3
    <3> QED  BY <1>2, <1>3, <1>9, <3>1, <3>2
  <2> QED  BY <2>2, <2>3
<1> QED  BY <1>8, <1>10, <1>11 DEF WaitsInLine

(* An item that is added joins the pool, and owes nothing.                 *)
LEMMA AddKeepsHistory ==
    ASSUME HistoryInv, NEW item \in Item, HistoryAdd(item)
    PROVE  (Promise!TypeOK /\ WaitsInLine)'
<1>1. /\ Add(item)
      /\ cooldown' = [i \in 1 .. Len(items) + 1 |->
                        IF i \in DOMAIN cooldown THEN cooldown[i] ELSE 0]
  BY DEF HistoryAdd, Promise!Grow
<1>2. /\ Len(items) \in Nat /\ Len(items) < MaxItems
      /\ Len(items') = Len(items) + 1
      /\ cooldown \in [Indices -> 0 .. MaxWindow]
      /\ window' = window
      /\ \A j \in 1 .. Len(window) : window[j] \in Indices
      /\ Len(window) \in Nat
  BY <1>1, AddLemma, CooldownValues DEF HistoryInv, Add, AddAll
<1>3. pool' = pool \cup {Len(items) + 1} /\ pool \subseteq Indices
  BY <1>1, <1>2 DEF Add, AddAll, HistoryInv, ChainInv, ChainWhole
<1>4. (Promise!TypeOK)'
  BY <1>1, <1>2, WindowAssumption, MaxItemsAssumption DEF Promise!TypeOK, Indices
<1>5. \A i \in Indices : cooldown'[i] = cooldown[i]
  BY <1>1, <1>2 DEF Indices
<1>6. cooldown'[Len(items) + 1] = 0
  BY <1>1, <1>2 DEF Indices
<1> QED  BY <1>2, <1>3, <1>4, <1>5, <1>6 DEF WaitsInLine, HistoryInv

(* Every operation of the chain with its history preserves HistoryInv.     *)
LEMMA HistoryStep == HistoryInv /\ [HistoryNext]_historyVars => HistoryInv'
<1> SUFFICES ASSUME HistoryInv, [HistoryNext]_historyVars
             PROVE  HistoryInv'
  OBVIOUS
<1>1. ChainInv'
  BY ChainStep DEF HistoryInv, HistoryNext, HistoryClear, HistoryAdd, HistoryPick,
                   Next, historyVars, chainVars
<1>2. CASE HistoryClear
  <2>1. Len(items') = 0 /\ Len(window') = 0 /\ pool' = {} /\ cooldown' = [i \in 1 .. 0 |-> 0]
    BY <1>2 DEF HistoryClear, Clear
  <2> QED  BY <1>1, <2>1, MaxItemsAssumption DEF HistoryInv, Promise!TypeOK, WaitsInLine
<1>3. ASSUME NEW item \in Item, HistoryAdd(item)
      PROVE  HistoryInv'
  BY <1>1, <1>3, AddKeepsHistory DEF HistoryInv
<1>4. ASSUME NEW i \in Indices, HistoryPick(i)
      PROVE  HistoryInv'
  BY <1>1, <1>4, PickKeepsHistory DEF HistoryInv
<1>5. CASE UNCHANGED historyVars
  BY <1>1, <1>5 DEF historyVars, HistoryInv, Promise!TypeOK, WaitsInLine
<1> QED  BY <1>2, <1>3, <1>4, <1>5 DEF HistoryNext

(* The chain a constructor builds satisfies HistoryInv.                    *)
LEMMA HistoryStart == HistoryInit => HistoryInv
<1> SUFFICES ASSUME HistoryInit  PROVE HistoryInv
  OBVIOUS
<1>1. ChainInv
  BY ClearLemma DEF HistoryInit, Init
<1>2. Len(items) = 0 /\ Len(window) = 0 /\ pool = {} /\ cooldown = [i \in 1 .. 0 |-> 0]
  BY DEF HistoryInit, Init
<1> QED  BY <1>1, <1>2, MaxItemsAssumption DEF HistoryInv, Promise!TypeOK, WaitsInLine

(* Every item of the chain, and nothing else, has a cooldown of at most    *)
(* MaxWindow: the history keeps in step with Add, Clear and the window.    *)
THEOREM HistoryTypes == HistorySpec => []HistoryTypeOK
<1>1. HistoryInv => HistoryTypeOK
  BY DEF HistoryInv, ChainInv, ChainWhole, TypeOK, HistoryTypeOK
<1> QED  BY <1>1, HistoryStart, HistoryStep, PTL DEF HistorySpec

(* What makes the promise true: an item has to wait at most as long as its *)
(* place in the window makes it wait.                                      *)
THEOREM LineIsKept == HistorySpec => []WaitsInLine
<1>1. HistoryInv => WaitsInLine
  BY DEF HistoryInv
<1> QED  BY <1>1, HistoryStart, HistoryStep, PTL DEF HistorySpec

(* With its history, too, the chain keeps every index in one place and its *)
(* window bounded: the extra item of FillWindow is gone when Pick returns. *)
THEOREM WindowStaysBounded == HistorySpec => [](WindowBounded /\ NothingLostOrDuplicated)
<1>1. HistoryInv => WindowBounded /\ NothingLostOrDuplicated
  BY DEF HistoryInv, ChainInv, ChainWhole
<1> QED  BY <1>1, HistoryStart, HistoryStep, PTL DEF HistorySpec

(* Every operation of the chain is one that CooldownShuffle allows.        *)
LEMMA PromiseStep ==
    HistoryInv /\ [HistoryNext]_historyVars => [Promise!Next]_(Promise!vars)
<1> SUFFICES ASSUME HistoryInv, [HistoryNext]_historyVars
             PROVE  Promise!Next \/ UNCHANGED Promise!vars
  OBVIOUS
<1>1. CASE HistoryClear
  <2>1. Promise!Clear
    BY <1>1 DEF HistoryClear, Clear, Promise!Clear
  <2> QED  BY <2>1 DEF Promise!Next
<1>2. ASSUME NEW item \in Item, HistoryAdd(item)
      PROVE  Promise!Next
  <2>1. Len(items) < MaxItems /\ Len(items') = Len(items) + 1
    BY <1>2, AddLemma DEF HistoryInv, HistoryAdd, Add
  <2>2. Promise!Add
    BY <1>2, <2>1 DEF HistoryAdd, Promise!Add
  <2> QED  BY <2>2 DEF Promise!Next
<1>3. ASSUME NEW i \in Indices, HistoryPick(i)
      PROVE  Promise!Next
  <2>1. cooldown[i] = 0
    BY <1>3, PickIsReady DEF HistoryPick
  <2>2. Promise!Pick(i)
    BY <1>3, <2>1 DEF HistoryPick, Pick, Promise!Pick
  <2> QED  BY <2>2 DEF Promise!Next, Indices
<1>4. CASE UNCHANGED historyVars
  BY <1>4 DEF historyVars, Promise!vars
<1> QED  BY <1>1, <1>2, <1>3, <1>4 DEF HistoryNext

(***************************************************************************)
(* The shuffle chain implements CooldownShuffle: no item comes back before *)
(* min(MaxWindow, Len(items) - 1) picks of other items, whatever is added  *)
(* or cleared in between (readme.md, "shuffle algorithm").                 *)
(***************************************************************************)
THEOREM ChainKeepsPromise == HistorySpec => KeepsPromise
<1>1. HistoryInit => Promise!Init
  BY DEF HistoryInit, Init, Promise!Init
<1> QED
  BY <1>1, HistoryStart, HistoryStep, PromiseStep, PTL
     DEF HistorySpec, KeepsPromise, Promise!Spec
=============================================================================
