------------------------------ MODULE ChainProofs ------------------------------
(***************************************************************************)
(* What the operations of the shuffle chain do to its containers, for every*)
(* set of items, every window size and every number of items: the facts    *)
(* that proofs about the chain, and about whatever uses one, rest on.      *)
(***************************************************************************)
EXTENDS ShuffleChain, FiniteSetTheorems, SequenceTheorems, TLAPS

(* The containers are in order, whatever the chain's length.               *)
ChainWhole ==
    /\ items \in Seq(Item)
    /\ window \in Seq(Indices)
    /\ pool \in SUBSET Indices
    /\ NothingLostOrDuplicated
    /\ WindowBounded

(* There are as many indices as items.                                     *)
LEMMA CountUpTo ==
    ASSUME NEW n \in Nat
    PROVE  IsFiniteSet(1 .. n) /\ Cardinality(1 .. n) = n
BY FS_Interval

(***************************************************************************)
(* Counting: the window and the pool together hold Len(items) indices.     *)
(***************************************************************************)
LEMMA Counting ==
    ASSUME ChainWhole
    PROVE  /\ IsFiniteSet(pool)
           /\ Cardinality(pool) \in Nat
           /\ Len(window) + Cardinality(pool) = Len(items)
<1> USE DEF ChainWhole, NothingLostOrDuplicated
<1>1. Len(items) \in Nat /\ Len(window) \in Nat
  BY LenProperties
<1>2. window \in [1 .. Len(window) -> Indices] /\ DOMAIN window = 1 .. Len(window)
  BY LenProperties
<1>3. IsFiniteSet(Indices) /\ Cardinality(Indices) = Len(items)
  BY <1>1, CountUpTo DEF Indices
<1>4. IsFiniteSet(pool) /\ Cardinality(pool) \in Nat
  BY <1>3, FS_Subset, FS_CardinalityType
<1>5. IsFiniteSet(1 .. Len(window)) /\ Cardinality(1 .. Len(window)) = Len(window)
  BY <1>1, CountUpTo
<1>6. window \in Surjection(1 .. Len(window), Range(window))
  BY <1>2 DEF Surjection, Range
<1>7. window \in Injection(1 .. Len(window), Range(window))
  BY <1>2, <1>6 DEF Surjection, Injection
<1>8. IsFiniteSet(Range(window)) /\ Cardinality(Range(window)) = Len(window)
  BY <1>5, <1>6, <1>7, FS_Surjection
<1>9. Cardinality(Range(window) \cup pool)
        = Cardinality(Range(window)) + Cardinality(pool) - Cardinality(Range(window) \cap pool)
  BY <1>4, <1>8, FS_Union
<1>10. Cardinality(Range(window) \cap pool) = 0
  BY FS_EmptySet
<1>11. Range(window) \cup pool = Indices
  OBVIOUS
<1>12. Cardinality(Indices)
         = Cardinality(Range(window)) + Cardinality(pool) - Cardinality(Range(window) \cap pool)
  BY <1>9, <1>11, Zenon
<1>13. Len(items) = Len(window) + Cardinality(pool) - 0
  BY <1>3, <1>8, <1>10, <1>12, Zenon
<1> QED  BY <1>1, <1>4, <1>13

(***************************************************************************)
(* FillWindow: it keeps what the window held, appends indices of the pool, *)
(* introduces no duplicate, and stops at MaxWindow + 1 items or when every *)
(* item is in the window.                                                  *)
(***************************************************************************)
LEMMA FillWindowLemma ==
    ASSUME ChainWhole, NEW w \in FilledWindows
    PROVE  /\ w \in Seq(Indices)
           /\ Len(w) = Smaller(MaxWindow + 1, Len(items))
           /\ Len(window) <= Len(w)
           /\ \A j \in 1 .. Len(window) : w[j] = window[j]
           /\ \A j \in Len(window) + 1 .. Len(w) : w[j] \in pool
           /\ IsInjective(w)
<1> USE DEF ChainWhole, NothingLostOrDuplicated, WindowBounded
<1>1. PICK d \in Draws : w = window \o d
  BY DEF FilledWindows
<1>2. /\ Len(items) \in Nat /\ Len(window) \in Nat
      /\ Cardinality(pool) \in Nat
      /\ Len(window) + Cardinality(pool) = Len(items)
  BY LenProperties, Counting
<1>3. Drawn \in Nat /\ Len(window) + Drawn = Smaller(MaxWindow + 1, Len(items))
  BY <1>2, WindowAssumption DEF Drawn, Smaller
<1>4. d \in [1 .. Drawn -> pool] /\ IsInjective(d)
  BY DEF Draws
<1>5. d \in Seq(Indices) /\ Len(d) = Drawn
  BY <1>3, <1>4
<1>6. /\ w \in Seq(Indices)
      /\ Len(w) = Len(window) + Drawn
      /\ \A j \in 1 .. Len(window) + Drawn :
            w[j] = IF j <= Len(window) THEN window[j] ELSE d[j - Len(window)]
  <2>1. window \in Seq(Indices)
    OBVIOUS
  <2>2. /\ window \o d \in Seq(Indices)
        /\ Len(window \o d) = Len(window) + Len(d)
        /\ \A j \in 1 .. Len(window) + Len(d) :
              (window \o d)[j] = IF j <= Len(window) THEN window[j]
                                 ELSE d[j - Len(window)]
    BY <1>5, <2>1, ConcatProperties
  <2> QED  BY <1>1, <1>5, <2>2, Zenon
<1>7. \A j \in 1 .. Len(window) : w[j] = window[j]
  BY <1>2, <1>3, <1>6
<1>8. \A j \in Len(window) + 1 .. Len(w) :
         w[j] = d[j - Len(window)] /\ j - Len(window) \in 1 .. Drawn /\ w[j] \in pool
  BY <1>2, <1>3, <1>4, <1>6
<1>9. IsInjective(w)
  <2> SUFFICES ASSUME NEW a \in 1 .. Len(w), NEW b \in 1 .. Len(w), w[a] = w[b]
               PROVE  a = b
    BY <1>6, LenProperties DEF IsInjective
  <2>1. \A j \in 1 .. Len(window) : window[j] \in Range(window) /\ window[j] \notin pool
    BY LenProperties DEF Range
  <2>2. CASE a <= Len(window) /\ b <= Len(window)
    <3>1. a \in DOMAIN window /\ b \in DOMAIN window /\ window[a] = window[b]
      BY <1>2, <1>3, <1>6, <1>7, <2>2, LenProperties
    <3> QED  BY <3>1 DEF IsInjective
  <2>3. CASE a > Len(window) /\ b > Len(window)
    <3>1. a - Len(window) \in 1 .. Drawn /\ b - Len(window) \in 1 .. Drawn
          /\ d[a - Len(window)] = d[b - Len(window)]
      BY <1>2, <1>3, <1>6, <1>8, <2>3
    <3>2. a - Len(window) = b - Len(window)
      BY <3>1, <1>4 DEF IsInjective
    <3> QED  BY <3>2, <1>2, <1>3, <1>6
  <2>4. CASE ~(a <= Len(window) <=> b <= Len(window))
    BY <1>2, <1>3, <1>6, <1>7, <1>8, <2>1, <2>4
  <2> QED  BY <1>2, <1>3, <1>6, <2>2, <2>3, <2>4
<1> QED  BY <1>2, <1>3, <1>6, <1>7, <1>8, <1>9

(***************************************************************************)
(* Pick: which index it returns, and what the window looks like after it.  *)
(***************************************************************************)
LEMMA PickLemma ==
    ASSUME ChainWhole, NEW i, Pick(i)
    PROVE  /\ i \in Indices
           /\ IF Len(window) = 0 THEN i \in pool ELSE i = window[1]
           /\ window' \in Seq(Indices)
           /\ Len(window') = Smaller(MaxWindow, Len(items) - 1)
           /\ Len(window) - 1 <= Len(window')
           /\ \A j \in 1 .. Len(window') :
                 /\ window'[j] # i
                 /\ IF j < Len(window) THEN window'[j] = window[j + 1]
                                       ELSE window'[j] \in pool
           /\ IsInjective(window')
           /\ pool' \subseteq pool \cup {i}
           /\ pool' \subseteq Indices
           /\ Range(window') \cap pool' = {}
           /\ Range(window') \cup pool' = Indices
           /\ items' = items
<1>1. PICK w \in FilledWindows :
        /\ i = Head(w)
        /\ window' = Tail(w)
        /\ pool' = (pool \ Range(w)) \cup {i}
  BY DEF Pick
<1>2. /\ w \in Seq(Indices)
      /\ Len(w) = Smaller(MaxWindow + 1, Len(items))
      /\ Len(window) <= Len(w)
      /\ \A j \in 1 .. Len(window) : w[j] = window[j]
      /\ \A j \in Len(window) + 1 .. Len(w) : w[j] \in pool
      /\ IsInjective(w)
  BY FillWindowLemma
<1>3. /\ Len(items) \in Nat \ {0} /\ Len(window) \in Nat
      /\ pool \subseteq Indices
      /\ IsInjective(window)
      /\ Range(window) \cap pool = {}
      /\ Range(window) \cup pool = Indices
      /\ window \in Seq(Indices)
      /\ items' = items
  BY LenProperties DEF Pick, ChainWhole, NothingLostOrDuplicated
<1>4. Len(w) \in Nat \ {0} /\ Len(w) - 1 = Smaller(MaxWindow, Len(items) - 1)
  BY <1>2, <1>3, WindowAssumption DEF Smaller
<1>5. w # <<>> /\ DOMAIN w = 1 .. Len(w)
  BY <1>2, <1>4, LenProperties, EmptySeq
<1>6. /\ i = w[1]
      /\ window' \in Seq(Indices)
      /\ Len(window') = Len(w) - 1
      /\ \A j \in 1 .. Len(window') : window'[j] = w[j + 1]
  BY <1>1, <1>2, <1>5, HeadTailProperties
<1>7. i \in Indices
  BY <1>2, <1>4, <1>6, ElementOfSeq
<1>8. IF Len(window) = 0 THEN i \in pool ELSE i = window[1]
  BY <1>2, <1>3, <1>4, <1>6
<1>9. DOMAIN window' = 1 .. Len(window')
  BY <1>6, LenProperties
<1>10. \A j \in 1 .. Len(window') :
         /\ window'[j] # i
         /\ IF j < Len(window) THEN window'[j] = window[j + 1] ELSE window'[j] \in pool
  <2> SUFFICES ASSUME NEW j \in 1 .. Len(window')
               PROVE  /\ window'[j] # i
                      /\ IF j < Len(window) THEN window'[j] = window[j + 1]
                                            ELSE window'[j] \in pool
    OBVIOUS
  <2>1. j + 1 \in 1 .. Len(w) /\ 1 \in 1 .. Len(w) /\ j + 1 # 1 /\ window'[j] = w[j + 1]
    BY <1>4, <1>6
  <2>2. window'[j] # i
    BY <1>2, <1>5, <1>6, <2>1 DEF IsInjective
  <2>3. IF j < Len(window) THEN window'[j] = window[j + 1] ELSE window'[j] \in pool
    BY <1>2, <1>3, <2>1
  <2> QED  BY <2>2, <2>3
<1>11. IsInjective(window')
  <2> SUFFICES ASSUME NEW a \in 1 .. Len(window'), NEW b \in 1 .. Len(window'),
                      window'[a] = window'[b]
               PROVE  a = b
    BY <1>9 DEF IsInjective
  <2>1. a + 1 \in 1 .. Len(w) /\ b + 1 \in 1 .. Len(w) /\ w[a + 1] = w[b + 1]
    BY <1>4, <1>6
  <2>2. a + 1 = b + 1
    BY <1>2, <1>5, <2>1 DEF IsInjective
  <2> QED  BY <1>4, <1>6, <2>2
<1>12. Range(w) = Range(window') \cup {i}
  <2>1. \A j \in 1 .. Len(w) : j = 1 \/ (j - 1 \in 1 .. Len(window') /\ window'[j - 1] = w[j])
    BY <1>4, <1>6
  <2>2. Range(w) \subseteq Range(window') \cup {i}
    BY <1>5, <1>6, <1>9, <2>1 DEF Range
  <2>3. \A j \in 1 .. Len(window') : j + 1 \in 1 .. Len(w)
    BY <1>4, <1>6
  <2>4. Range(window') \cup {i} \subseteq Range(w)
    BY <1>4, <1>5, <1>6, <1>9, <2>3 DEF Range
  <2> QED  BY <2>2, <2>4
<1>13. i \notin Range(window')
  BY <1>9, <1>10 DEF Range
<1>14. Range(window) \subseteq Range(w) /\ Range(w) \subseteq Indices
  <2>1. DOMAIN window = 1 .. Len(window)
    BY <1>3, LenProperties
  <2>2. Range(window) \subseteq Range(w)
    BY <1>2, <1>3, <1>4, <1>5, <2>1 DEF Range
  <2>3. Range(w) \subseteq Indices
    BY <1>2, <1>5, ElementOfSeq DEF Range
  <2> QED  BY <2>2, <2>3
<1>15. Range(window') \cap pool' = {}
  BY <1>1, <1>12, <1>13
<1>16. Range(window') \cup pool' = Indices
  BY <1>1, <1>3, <1>12, <1>14
<1>17. Len(window) - 1 <= Len(window')
  BY <1>2, <1>3, <1>4, <1>6
<1>18. pool' \subseteq pool \cup {i} /\ pool' \subseteq Indices
  BY <1>1, <1>3, <1>7
<1> QED  BY <1>3, <1>4, <1>6, <1>7, <1>8, <1>10, <1>11, <1>15, <1>16, <1>17, <1>18

(* Picking keeps the containers in order.                                  *)
LEMMA PickKeepsWhole ==
    ASSUME ChainWhole, NEW i, Pick(i)
    PROVE  ChainWhole'
<1>1. /\ window' \in Seq(Indices)
      /\ Len(window') = Smaller(MaxWindow, Len(items) - 1)
      /\ IsInjective(window')
      /\ pool' \subseteq Indices
      /\ Range(window') \cap pool' = {}
      /\ Range(window') \cup pool' = Indices
      /\ items' = items
  BY PickLemma
<1>2. items \in Seq(Item) /\ Len(items) \in Nat /\ Len(items) # 0
  BY LenProperties DEF ChainWhole, Pick
<1>3. Indices' = Indices
  BY <1>1 DEF Indices
<1>4. NothingLostOrDuplicated'
  BY <1>1, <1>3 DEF NothingLostOrDuplicated
<1>5. WindowBounded'
  BY <1>1, <1>2, WindowAssumption DEF WindowBounded, Smaller
<1> QED  BY <1>1, <1>2, <1>3, <1>4, <1>5 DEF ChainWhole

(* Adding items to a chain, as many as there are, keeps it in order: every *)
(* new index is in the pool, and none was there before.                    *)
LEMMA AddAllKeepsWhole ==
    ASSUME ChainWhole, NEW newItems \in Seq(Item), AddAll(newItems)
    PROVE  /\ ChainWhole'
           /\ items' = items \o newItems
           /\ Len(items') = Len(items) + Len(newItems)
<1>1. /\ items \in Seq(Item) /\ Len(items) \in Nat /\ Len(newItems) \in Nat
      /\ window \in Seq(Indices) /\ Len(window) <= MaxWindow
      /\ pool \subseteq Indices
      /\ NothingLostOrDuplicated
      /\ window' = window
      /\ pool' = pool \cup (Len(items) + 1 .. Len(items) + Len(newItems))
      /\ items' = items \o newItems
  BY LenProperties DEF ChainWhole, WindowBounded, AddAll
<1>2. items' \in Seq(Item) /\ Len(items') = Len(items) + Len(newItems)
  BY <1>1, ConcatProperties
<1>3. Indices' = Indices \cup (Len(items) + 1 .. Len(items) + Len(newItems))
  BY <1>1, <1>2 DEF Indices
<1>4. window' \in Seq(Indices')
  BY <1>1, <1>3, SeqMonotonic
<1>5. Range(window) \subseteq Indices
  BY <1>1, LenProperties, ElementOfSeq DEF Range
<1>6. Indices \cap (Len(items) + 1 .. Len(items) + Len(newItems)) = {}
  BY <1>1 DEF Indices
<1>7. NothingLostOrDuplicated'
  BY <1>1, <1>3, <1>5, <1>6 DEF NothingLostOrDuplicated, Range, IsInjective
<1> QED  BY <1>1, <1>2, <1>3, <1>4, <1>7 DEF ChainWhole, WindowBounded

(* Emptying a chain and filling it anew leaves it in order.                *)
LEMMA RefillKeepsWhole ==
    ASSUME NEW newItems \in Seq(Item), Refill(newItems)
    PROVE  ChainWhole'
<1>1. items' = newItems /\ window' = <<>> /\ pool' = 1 .. Len(newItems)
  BY DEF Refill
<1>2. Indices' = 1 .. Len(newItems)
  BY <1>1 DEF Indices
<1>3. DOMAIN window' = {} /\ Len(window') = 0 /\ window' \in Seq(Indices')
  BY <1>1
<1>4. NothingLostOrDuplicated'
  BY <1>1, <1>2, <1>3 DEF NothingLostOrDuplicated, Range, IsInjective
<1>5. WindowBounded'
  BY <1>3, WindowAssumption DEF WindowBounded
<1> QED  BY <1>1, <1>2, <1>3, <1>4, <1>5 DEF ChainWhole

(* And a chain that was filled by adding to an empty one is in order.      *)
LEMMA FilledIsWhole ==
    ASSUME items \in Seq(Item), window = <<>>, pool = 1 .. Len(items)
    PROVE  ChainWhole
<1>1. DOMAIN window = {} /\ Len(window) = 0 /\ window \in Seq(Indices)
  OBVIOUS
<1>2. NothingLostOrDuplicated
  BY <1>1 DEF NothingLostOrDuplicated, Range, IsInjective, Indices
<1> QED  BY <1>1, <1>2, WindowAssumption DEF ChainWhole, WindowBounded, Indices
=============================================================================
