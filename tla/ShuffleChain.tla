----------------------------- MODULE ShuffleChain -----------------------------
(***************************************************************************)
(* The shuffle chain (src/src/shuffle.h, src/src/shuffle.cc): the list of  *)
(* items (songs or groups of songs), the window, a short ordered queue of  *)
(* the items that are picked next, and the pool, the items that are in     *)
(* neither place in line.  Pool and window hold indices into the list, as  *)
(* in the code.  The pool is a deque there, but its order is never         *)
(* observable: an element is drawn from it uniformly at random.  Here it   *)
(* is a set, and a draw is a nondeterministic choice.                      *)
(***************************************************************************)
EXTENDS Integers, Sequences, FiniteSets, Functions

CONSTANTS Item,           \* what can be added to a chain
          MaxWindow,      \* _max_window; 1 by default, 7 in main, always >= 1
          MaxItems        \* bound on Len(items) (model checking)

ASSUME WindowAssumption == MaxWindow \in Nat \ {0}
ASSUME MaxItemsAssumption == MaxItems \in Nat

VARIABLES items,          \* _items
          window,         \* _window, the next pick first
          pool            \* _pool

chainVars == <<items, window, pool>>

Indices == 1 .. Len(items)

Smaller(a, b) == IF a <= b THEN a ELSE b

-----------------------------------------------------------------------------

TypeOK ==
    /\ items \in Seq(Item)
    /\ Len(items) <= MaxItems
    /\ window \in Seq(Indices)
    /\ pool \in SUBSET Indices

(* A chain without items, as its constructor builds it.                    *)
Init ==
    /\ items = <<>>
    /\ window = <<>>
    /\ pool = {}

Clear ==
    /\ items' = <<>>
    /\ window' = <<>>
    /\ pool' = {}

(* Mutant: the index of the new item is taken before it is there.          *)
AddAllStaleIndex(newItems) ==
    /\ items' = items \o newItems
    /\ pool' = pool \cup (Len(items) + 2 .. Len(items) + Len(newItems) + 1)
    /\ UNCHANGED window

(* Add, called for every element of newItems in turn.                      *)
AddAll(newItems) ==
    /\ items' = items \o newItems
    /\ pool' = pool \cup (Len(items) + 1 .. Len(items) + Len(newItems))
    /\ UNCHANGED window

Add(item) ==
    /\ Len(items) < MaxItems
    /\ AddAll(<<item>>)

(* Clear, then Add for every element of newItems in turn.                  *)
Refill(newItems) ==
    /\ items' = newItems
    /\ window' = <<>>
    /\ pool' = 1 .. Len(newItems)

(* Mutants: a window filled too far, or not far enough.                    *)
DrawnOneMore == Smaller(MaxWindow + 2 - Len(window), Cardinality(pool))
DrawnOneLess == Smaller(MaxWindow - Len(window) + (IF window = <<>> THEN 1 ELSE 0),
                        Cardinality(pool))

(* Everything that FillWindow can leave in the window: it draws until      *)
(* the window holds one item more than its nominal size, or the pool has   *)
(* run dry.                                                                *)
Drawn == Smaller(MaxWindow + 1 - Len(window), Cardinality(pool))

Draws == {d \in [1 .. Drawn -> pool] : IsInjective(d)}

(* Mutant: what is drawn jumps the queue.                                  *)
FilledAtFront == {d \o window : d \in Draws}

FilledWindows == {window \o d : d \in Draws}

(* Mutant: the picked item does not return to the pool.                    *)
PickForgets(i) ==
    /\ Len(items) # 0
    /\ \E w \in FilledWindows :
          /\ i = Head(w)
          /\ window' = Tail(w)
          /\ pool' = pool \ Range(w)
    /\ UNCHANGED items

(* Pick, when it returns items[i]._uris.  On an empty chain Pick fails an  *)
(* assertion: it has no successor here, and its callers have to say what   *)
(* that failure means for them.                                            *)
Pick(i) ==
    /\ Len(items) # 0
    /\ \E w \in FilledWindows :
          /\ i = Head(w)
          /\ window' = Tail(w)
          /\ pool' = (pool \ Range(w)) \cup {i}
    /\ UNCHANGED items

Next ==
    \/ Clear
    \/ \E item \in Item : Add(item)
    \/ \E i \in Indices : Pick(i)

Spec == Init /\ [][Next]_chainVars

-----------------------------------------------------------------------------

(* Every item is in exactly one place: pool and window never share an      *)
(* index, the window holds none twice, and none is lost.  Indices move     *)
(* between the two deques in Add, FillWindow and Pick without any check.   *)
NothingLostOrDuplicated ==
    /\ IsInjective(window)
    /\ Range(window) \cap pool = {}
    /\ Range(window) \cup pool = Indices

(* Between two picks the window holds at most MaxWindow items, although    *)
(* FillWindow fills it to MaxWindow + 1.                                   *)
WindowBounded == Len(window) <= MaxWindow
=============================================================================
