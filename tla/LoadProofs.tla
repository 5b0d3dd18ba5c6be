------------------------------ MODULE LoadProofs ------------------------------
(***************************************************************************)
(* Proofs about the loaders, for every library, every file, every set of   *)
(* rules and every grouping.  The options do not change while a chain is   *)
(* loaded.                                                                 *)
(***************************************************************************)
EXTENDS Load, SequenceTheorems, FiniteSetTheorems, WellFoundedInduction, TLAPS

(* The songs that may be in the chain.                                     *)
Allowed ==
    IF Unchecked THEN Range(lines)
    ELSE {song.uri : song \in WantedSongs}

(* Before a loader has done anything.                                      *)
Untouched ==
    /\ stage = "start" /\ unread = <<>> /\ valid_uris = {}
    /\ items = <<>> /\ groups = [k \in {} |-> <<>>]

(* No item is empty.  What is still to be received is part of the listing, *)
(* and a file has been read as it is.                                      *)
LoadInv ==
    /\ LoadTypeOK
    /\ NothingUnwanted
    /\ <<>> \notin Range(items)
    /\ IsFiniteSet(DOMAIN groups)
    /\ Range(unread) \subseteq Range(listing)
    /\ valid_uris \subseteq Range(lines)
    /\ stage = "start" => Untouched

(* NothingUnwanted, with its set of songs named.                           *)
LEMMA UnwantedMeans ==
    NothingUnwanted <=>
        /\ \A item \in Range(items) : Range(item) \subseteq Allowed
        /\ \A key \in DOMAIN groups : Range(groups[key]) \subseteq Allowed
BY DEF NothingUnwanted, Allowed

(* What an operation that leaves options, library and file alone must show *)
(* of the items and groups it leaves behind.                               *)
LEMMA StillWanted ==
    ASSUME UNCHANGED <<opts, listing, lines>>,
           \A item \in Range(items') : Range(item) \subseteq Allowed,
           \A key \in DOMAIN groups' : Range(groups'[key]) \subseteq Allowed
    PROVE  NothingUnwanted'
<1>1. Allowed' = Allowed
  BY DEF Allowed, WantedSongs, Unchecked, FromFile, Wanted, Excluded, TagOf
<1> QED  BY <1>1 DEF NothingUnwanted, Allowed

(* A loader that has done nothing has loaded nothing it should not have,   *)
(* whatever the options, the library and the file.                         *)
LEMMA UntouchedIsFine ==
    ASSUME Untouched', listing' \in Seq(Song), file' \in Seq(URI), lines' \in Seq(URI)
    PROVE  LoadInv'
<1>1. DOMAIN groups' = {} /\ Range(items') = {} /\ Range(unread') = {}
  BY DEF Untouched, Range
<1>2. NothingUnwanted'
  BY <1>1 DEF NothingUnwanted
<1>3. IsFiniteSet(DOMAIN groups')
  BY <1>1, FS_EmptySet
<1>4. LoadTypeOK'
  BY <1>1 DEF Untouched, LoadTypeOK
<1> QED  BY <1>1, <1>2, <1>3, <1>4 DEF LoadInv, Untouched

(* A song that passes Verify is wanted, also if it was received without    *)
(* its tags.                                                               *)
LEMMA VerifiedIsWanted ==
    ASSUME opts \in OptionsType, valid_uris \subseteq Range(lines),
           NEW song \in Song, Verify(Received(song))
    PROVE  Wanted(song)
<1>1. Received(song).uri = song.uri
  BY DEF Received, Song
<1>2. FromFile => song.uri \in Range(lines)
  BY <1>1 DEF Verify
<1>3. CASE opts.ruleset = <<>>
  <2>1. Range(opts.ruleset) = {}
    BY <1>3 DEF Range
  <2> QED  BY <1>2, <2>1 DEF Wanted, Excluded
<1>4. CASE opts.ruleset # <<>>
  <2>1. Received(song) = song
    BY <1>4 DEF Received, OmitsMetadata
  <2>2. \A rule \in Range(opts.ruleset) : Accepts(rule, song)
    BY <2>1 DEF Verify
  <2> QED  BY <1>2, <2>2 DEF Wanted, Excluded, Accepts
<1> QED  BY <1>3, <1>4

(* What is received is a song with the same URI.                           *)
LEMMA ReceivedIsSong ==
    ASSUME NEW song \in Song
    PROVE  Received(song) \in Song /\ Received(song).uri = song.uri
<1>1. [t \in Tag |-> <<>>] \in [Tag -> Seq(Value)]
  OBVIOUS
<1> QED  BY <1>1 DEF Received, Song

(* Songs are grouped by keys.                                              *)
LEMMA KeyIsKey ==
    ASSUME opts \in OptionsType, NEW song \in Song
    PROVE  KeyOf(song) \in Key
<1>1. /\ opts.group_by \in Seq(Tag)
      /\ Len(opts.group_by) \in Nat
      /\ DOMAIN opts.group_by = 1 .. Len(opts.group_by)
  BY LenProperties DEF OptionsType
<1>2. ASSUME NEW i \in 1 .. Len(opts.group_by)
      PROVE  TagOf(song, opts.group_by[i]) \in SUBSET Value
  <2>1. opts.group_by[i] \in Tag
    BY <1>1, ElementOfSeq
  <2>2. song.tags[opts.group_by[i]] \in Seq(Value)
    BY <2>1 DEF Song
  <2>3. song.tags[opts.group_by[i]] # <<>> => Head(song.tags[opts.group_by[i]]) \in Value
    BY <2>2, HeadTailProperties
  <2> QED  BY <2>3 DEF TagOf
<1>3. Key = [1 .. Len(opts.group_by) -> SUBSET Value]
  BY DEF Key
<1> QED  BY <1>1, <1>2, <1>3 DEF KeyOf

(* Appending adds one element to what a sequence holds.                    *)
LEMMA RangeOfAppend ==
    ASSUME NEW S, NEW seq \in Seq(S), NEW e \in S
    PROVE  Append(seq, e) \in Seq(S) /\ Range(Append(seq, e)) = Range(seq) \cup {e}
<1>1. Append(seq, e) = seq \o <<e>>
  BY AppendIsConcat
<1>2. <<e>> \in Seq(S) /\ Range(<<e>>) = {e}
  BY DEF Range
<1>3. seq \o <<e>> \in Seq(S) /\ Range(seq \o <<e>>) = Range(seq) \cup Range(<<e>>)
  BY <1>2, ConcatProperties, RangeConcatenation
<1> QED  BY <1>1, <1>2, <1>3, Zenon

(* The first of the songs to be received, and the others.                  *)
LEMMA NextReceived ==
    ASSUME LoadInv, unread # <<>>
    PROVE  /\ Head(unread) \in Song /\ Head(unread) \in Range(listing)
           /\ Tail(unread) \in Seq(Song) /\ Range(Tail(unread)) \subseteq Range(listing)
<1>1. unread \in Seq(Song) /\ Range(unread) \subseteq Range(listing)
  BY DEF LoadInv, LoadTypeOK
<1>2. /\ Head(unread) \in Song
      /\ Tail(unread) \in Seq(Song)
      /\ Len(unread) \in Nat \ {0}
      /\ Len(Tail(unread)) = Len(unread) - 1
      /\ \A i \in 1 .. Len(Tail(unread)) : Tail(unread)[i] = unread[i + 1]
  BY <1>1, HeadTailProperties, EmptySeq
<1>3. Head(unread) = unread[1] /\ DOMAIN unread = 1 .. Len(unread)
  BY <1>1, <1>2, LenProperties
<1>4. DOMAIN Tail(unread) = 1 .. Len(Tail(unread))
  BY <1>2, LenProperties
<1>5. Head(unread) \in Range(unread)
  BY <1>2, <1>3 DEF Range
<1>6. Range(Tail(unread)) \subseteq Range(unread)
  <2>1. \A i \in 1 .. Len(Tail(unread)) : i + 1 \in DOMAIN unread
    BY <1>2, <1>3
  <2> QED  BY <1>2, <1>4, <2>1 DEF Range
<1> QED  BY <1>1, <1>2, <1>5, <1>6

(* An unchecked file is loaded as it is.                                   *)
LEMMA LoadFileStep ==
    ASSUME LoadInv, UNCHANGED opts, LoadFile
    PROVE  LoadInv'
<1>1. /\ lines \in Seq(URI)
      /\ Len(lines) \in Nat /\ DOMAIN lines = 1 .. Len(lines)
      /\ Range(lines) \subseteq URI
      /\ Allowed = Range(lines)
  BY LenProperties, RangeOfSeq DEF LoadInv, LoadTypeOK, LoadFile, Allowed, Untouched
<1>2. items' = [i \in 1 .. Len(lines) |-> <<lines[i]>>]
  BY <1>1 DEF LoadFile
<1>3. ASSUME NEW i \in 1 .. Len(lines)
      PROVE  /\ <<lines[i]>> \in Seq(URI) /\ <<lines[i]>> # <<>>
             /\ Range(<<lines[i]>>) \subseteq Range(lines)
  <2>1. lines[i] \in URI /\ lines[i] \in Range(lines)
    BY <1>1, ElementOfSeq DEF Range
  <2> QED  BY <2>1 DEF Range
<1>4. items' \in [1 .. Len(lines) -> Seq(URI)]
  BY <1>2, <1>3
<1>5. items' \in Seq(Seq(URI))
  BY <1>1, <1>4
<1>6. Range(items') = {<<lines[i]>> : i \in 1 .. Len(lines)}
  BY <1>2 DEF Range
<1>7. <<>> \notin Range(items') /\ \A item \in Range(items') : Range(item) \subseteq Allowed
  BY <1>1, <1>3, <1>6
<1>8. groups = [k \in {} |-> <<>>] /\ DOMAIN groups = {}
  BY DEF LoadInv, LoadFile, Untouched
<1>9. NothingUnwanted'
  BY <1>7, <1>8, StillWanted DEF LoadFile
<1>10. LoadTypeOK'
  BY <1>5 DEF LoadInv, LoadTypeOK, LoadFile, Key
<1> QED  BY <1>7, <1>9, <1>10 DEF LoadInv, LoadFile

(* The file is read, and the library asked for.                            *)
LEMMA ListAllStep ==
    ASSUME LoadInv, UNCHANGED opts, ListAll
    PROVE  LoadInv'
<1>1. items = <<>> /\ DOMAIN groups = {}
  BY DEF LoadInv, ListAll, Untouched
<1>2. Range(items) = {}
  BY <1>1 DEF Range
<1>3. NothingUnwanted'
  BY <1>1, <1>2, StillWanted DEF ListAll
<1>4. Range(lines) \subseteq URI /\ <<>> \in Seq(URI)
  BY RangeOfSeq DEF LoadInv, LoadTypeOK
<1>5. LoadTypeOK'
  BY <1>1, <1>4 DEF LoadInv, LoadTypeOK, ListAll, Key
<1> QED  BY <1>1, <1>3, <1>5 DEF LoadInv, ListAll

(* A song that joins a group leaves every group what it was, or longer.    *)
LEMMA JoinedGroup ==
    ASSUME LoadInv, NEW key \in Key, NEW uri \in URI \cap Allowed,
           NEW joined, joined = WithGroup(key, Append(GroupOf(key), uri))
    PROVE  /\ DOMAIN joined = DOMAIN groups \cup {key}
           /\ \A k \in DOMAIN joined : /\ joined[k] \in Seq(URI) \ {<<>>}
                                       /\ Range(joined[k]) \subseteq Allowed
<1>1. GroupOf(key) \in Seq(URI) /\ Range(GroupOf(key)) \subseteq Allowed
  <2>1. CASE key \in DOMAIN groups
    BY <2>1, UnwantedMeans DEF LoadInv, LoadTypeOK, GroupOf
  <2>2. CASE key \notin DOMAIN groups
    <3>1. <<>> \in Seq(URI) /\ Range(<<>>) = {}
      BY DEF Range
    <3> QED  BY <2>2, <3>1 DEF GroupOf
  <2> QED  BY <2>1, <2>2
<1>2. /\ Append(GroupOf(key), uri) \in Seq(URI) \ {<<>>}
      /\ Range(Append(GroupOf(key), uri)) \subseteq Allowed
  <2>1. Append(GroupOf(key), uri) # <<>>
    BY <1>1, AppendProperties
  <2> QED  BY <1>1, <2>1, RangeOfAppend
<1>3. \A k \in DOMAIN groups : groups[k] \in Seq(URI) \ {<<>>} /\ Range(groups[k]) \subseteq Allowed
  BY UnwantedMeans DEF LoadInv, LoadTypeOK
<1> QED  BY <1>2, <1>3 DEF WithGroup

(* A song is received, and added, or its group made longer, if it is       *)
(* wanted.                                                                 *)
LEMMA ReceiveSongStep ==
    ASSUME LoadInv, opts \in OptionsType, UNCHANGED opts, ReceiveSong
    PROVE  LoadInv'
<1> DEFINE song == Received(Head(unread))
           key == KeyOf(song)
<1>1. /\ Head(unread) \in Song /\ Head(unread) \in Range(listing)
      /\ Tail(unread) \in Seq(Song) /\ Range(Tail(unread)) \subseteq Range(listing)
      /\ unread' = Tail(unread) /\ stage = "list"
  BY NextReceived DEF ReceiveSong
<1>2. song \in Song /\ song.uri = Head(unread).uri /\ key \in Key
  BY <1>1, ReceivedIsSong, KeyIsKey
<1>3. song.uri \in URI
  BY <1>2 DEF Song
<1>4. /\ UNCHANGED <<listing, file, lines, stage, valid_uris>>
      /\ IF ~Verify(song) THEN UNCHANGED <<groups, items>>
         ELSE IF opts.group_by = <<>>
         THEN items' = Append(items, <<song.uri>>) /\ UNCHANGED groups
         ELSE groups' = WithGroup(key, Append(GroupOf(key), song.uri)) /\ UNCHANGED items
  BY DEF ReceiveSong
<1>5. Verify(song) => song.uri \in Allowed
  <2> SUFFICES ASSUME Verify(song)  PROVE song.uri \in Allowed
    OBVIOUS
  <2>1. Wanted(Head(unread))
    BY <1>1, VerifiedIsWanted DEF LoadInv
  <2>2. ~Unchecked \/ song.uri \in Range(lines)
    BY <1>2, <2>1 DEF Wanted, Unchecked
  <2> QED  BY <1>1, <1>2, <2>1, <2>2 DEF Allowed, WantedSongs
<1> HIDE DEF song, key
<1>6. CASE UNCHANGED <<groups, items>>
  <2>1. NothingUnwanted'
    BY <1>4, <1>6, StillWanted, UnwantedMeans DEF LoadInv
  <2>2. LoadTypeOK'
    BY <1>1, <1>4, <1>6 DEF LoadInv, LoadTypeOK, Key
  <2> QED  BY <1>1, <1>4, <1>6, <2>1, <2>2 DEF LoadInv
<1>7. CASE Verify(song) /\ items' = Append(items, <<song.uri>>) /\ UNCHANGED groups
  <2>1. <<song.uri>> \in Seq(URI) /\ <<song.uri>> # <<>> /\ Range(<<song.uri>>) = {song.uri}
    BY <1>3 DEF Range
  <2>2. items' \in Seq(Seq(URI)) /\ Range(items') = Range(items) \cup {<<song.uri>>}
    <3>1. items \in Seq(Seq(URI))
      BY DEF LoadInv, LoadTypeOK
    <3>2. \A item \in Seq(URI) :
             /\ Append(items, item) \in Seq(Seq(URI))
             /\ Range(Append(items, item)) = Range(items) \cup {item}
      BY <3>1, RangeOfAppend
    <3> QED  BY <1>7, <2>1, <3>2
  <2>3. \A item \in Range(items') : Range(item) \subseteq Allowed
    <3>1. \A item \in Range(items) : Range(item) \subseteq Allowed
      BY UnwantedMeans DEF LoadInv
    <3> QED  BY <1>5, <1>7, <2>1, <2>2, <3>1
  <2>4. NothingUnwanted'
    BY <1>4, <1>7, <2>3, StillWanted, UnwantedMeans DEF LoadInv
  <2>5. LoadTypeOK'
    BY <1>1, <1>4, <1>7, <2>2 DEF LoadInv, LoadTypeOK, Key
  <2> QED  BY <1>1, <1>4, <1>7, <2>1, <2>2, <2>4, <2>5 DEF LoadInv
<1>8. CASE Verify(song) /\ groups' = WithGroup(key, Append(GroupOf(key), song.uri)) /\ UNCHANGED items
  <2>1. /\ DOMAIN groups' = DOMAIN groups \cup {key}
        /\ \A k \in DOMAIN groups' : /\ groups'[k] \in Seq(URI) \ {<<>>}
                                     /\ Range(groups'[k]) \subseteq Allowed
    BY <1>2, <1>3, <1>5, <1>8, JoinedGroup
  <2>2. NothingUnwanted'
    BY <1>4, <1>8, <2>1, StillWanted, UnwantedMeans DEF LoadInv
  <2>3. LoadTypeOK'
    BY <1>1, <1>2, <1>4, <1>8, <2>1 DEF LoadInv, LoadTypeOK, Key
  <2>4. IsFiniteSet(DOMAIN groups')
    BY <2>1, FS_AddElement DEF LoadInv
  <2> QED  BY <1>1, <1>4, <1>8, <2>2, <2>3, <2>4 DEF LoadInv
<1> QED  BY <1>4, <1>6, <1>7, <1>8

(* The groups are added, none of them empty.                               *)
LEMMA ListingEndsStep ==
    ASSUME LoadInv, UNCHANGED opts, ListingEnds
    PROVE  LoadInv'
<1>1. PICK order \in SetToSeqs(DOMAIN groups) :
         items' = items \o [i \in DOMAIN order |-> groups[order[i]]]
  BY DEF ListingEnds
<1> DEFINE n == Cardinality(DOMAIN groups)
           added == [i \in DOMAIN order |-> groups[order[i]]]
<1>2. n \in Nat
  BY FS_CardinalityType DEF LoadInv
<1>3. order \in [1 .. n -> DOMAIN groups]
  BY <1>1 DEF SetToSeqs
<1>4. \A k \in DOMAIN groups : groups[k] \in Seq(URI) \ {<<>>} /\ Range(groups[k]) \subseteq Allowed
  BY UnwantedMeans DEF LoadInv, LoadTypeOK
<1>5. added \in [1 .. n -> Seq(URI)]
  BY <1>3, <1>4
<1>6. \A item \in Range(added) : item # <<>> /\ Range(item) \subseteq Allowed
  BY <1>3, <1>4 DEF Range
<1>7. added \in Seq(Seq(URI))
  <2> HIDE DEF n, added
  <2> QED  BY <1>2, <1>5
<1> HIDE DEF added
<1>8. items' \in Seq(Seq(URI)) /\ Range(items') = Range(items) \cup Range(added)
  <2>1. items \in Seq(Seq(URI)) /\ items' = items \o added
    BY <1>1 DEF LoadInv, LoadTypeOK, added
  <2> QED  BY <1>7, <2>1, ConcatProperties, RangeConcatenation
<1>9. <<>> \notin Range(items') /\ \A item \in Range(items') : Range(item) \subseteq Allowed
  BY <1>6, <1>8, UnwantedMeans DEF LoadInv
<1>10. NothingUnwanted'
  BY <1>4, <1>9, StillWanted DEF ListingEnds
<1>11. LoadTypeOK'
  BY <1>8 DEF LoadInv, LoadTypeOK, ListingEnds, Key
<1> QED  BY <1>9, <1>10, <1>11 DEF LoadInv, ListingEnds

(***************************************************************************)
(* Every step of a loader preserves LoadInv: only wanted songs reach the   *)
(* chain, for every library, file, rule set and grouping (load.cc).        *)
(***************************************************************************)
THEOREM LoadStep ==
    ASSUME LoadInv, opts \in OptionsType, UNCHANGED opts, [LoadNext]_loadVars
    PROVE  LoadInv'
<1>1. CASE UNCHANGED loadVars
  <2>1. NothingUnwanted'
    BY <1>1, StillWanted, UnwantedMeans DEF LoadInv, loadVars
  <2> QED  BY <1>1, <2>1 DEF loadVars, LoadInv, LoadTypeOK, Key, Untouched
<1> QED
  BY <1>1, LoadFileStep, ListAllStep, ReceiveSongStep, ListingEndsStep DEF LoadNext

-----------------------------------------------------------------------------
(* What is selected of a sequence                                          *)

(* What holds of 0, and of n + 1 if of n, holds of every number.           *)
LEMMA SetInduction ==
    ASSUME NEW S, 0 \in S, \A n \in Nat : n \in S => n + 1 \in S
    PROVE  Nat \subseteq S
<1> DEFINE less == {p \in Nat \X Nat : p[1] < p[2]}
           left == Nat \ S
<1>1. IsWellFoundedOn(less, Nat)
  BY NatLessThanWellFounded DEF OpToRel
<1>2. SUFFICES ASSUME left # {}  PROVE FALSE
  OBVIOUS
<1>3. PICK x \in left : \A y \in left : <<y, x>> \notin less
  <2>1. left \subseteq Nat
    OBVIOUS
  <2> HIDE DEF less, left
  <2> QED BY <1>1, <1>2, <2>1, WFMin
<1>4. x \in Nat /\ x # 0
  OBVIOUS
<1>5. x - 1 \in Nat /\ x - 1 < x /\ x = (x - 1) + 1
  BY <1>4
<1>6. x - 1 \notin left
  BY <1>3, <1>4, <1>5
<1> QED  BY <1>4, <1>5, <1>6

(* f[i] is what is selected of the first i elements.                       *)
Selects(f, seq, S, n) ==
    f = [i \in 0 .. n |->
           IF i = 0 THEN <<>>
           ELSE IF seq[i] \in S THEN Append(f[i - 1], seq[i]) ELSE f[i - 1]]

(* Selected takes its last value.                                          *)
LEMMA SelectedIs ==
    ASSUME NEW seq, NEW S
    PROVE  Selected(seq, S) = (CHOOSE f : Selects(f, seq, S, Len(seq)))[Len(seq)]
BY DEF Selected, Selects

(* There is such a function for every n,                                   *)
LEMMA SelectsExists ==
    ASSUME NEW seq, NEW S, NEW n \in Nat
    PROVE  \E f : Selects(f, seq, S, n)
<1> DEFINE Q == {m \in Nat : \E f : Selects(f, seq, S, m)}
<1>1. 0 \in Q
  <2>1. Selects([i \in 0 .. 0 |-> <<>>], seq, S, 0)
    BY DEF Selects
  <2> QED  BY <2>1
<1>2. ASSUME NEW m \in Nat, m \in Q  PROVE m + 1 \in Q
  <2>1. PICK f : Selects(f, seq, S, m)
    BY <1>2
  <2> DEFINE g == [i \in 0 .. m + 1 |->
                     IF i <= m THEN f[i]
                     ELSE IF seq[i] \in S THEN Append(f[m], seq[i]) ELSE f[m]]
  <2>2. \A i \in 0 .. m : f[i] = IF i = 0 THEN <<>>
           ELSE IF seq[i] \in S THEN Append(f[i - 1], seq[i]) ELSE f[i - 1]
    BY <2>1 DEF Selects
  <2>3. ASSUME NEW i \in 0 .. m + 1
        PROVE  g[i] = IF i = 0 THEN <<>>
                      ELSE IF seq[i] \in S THEN Append(g[i - 1], seq[i]) ELSE g[i - 1]
    <3>1. CASE i <= m
      <4>1. g[i] = f[i] /\ (i # 0 => g[i - 1] = f[i - 1])
        BY <3>1
      <4> QED  BY <2>2, <3>1, <4>1
    <3>2. CASE i = m + 1
      <4>1. g[m] = f[m] /\ i # 0 /\ i - 1 = m
        BY <3>2
      <4> QED  BY <3>2, <4>1
    <3> QED  BY <3>1, <3>2
  <2>4. Selects(g, seq, S, m + 1)
    BY <2>3 DEF Selects
  <2> QED  BY <2>4
<1>3. Nat \subseteq Q
  <2> HIDE DEF Q
  <2> QED  BY <1>1, <1>2, SetInduction
<1> QED  BY <1>3

(* and its values depend on no element behind theirs.                      *)
LEMMA SelectsAlike ==
    ASSUME NEW s, NEW t, NEW S, NEW m \in Nat, NEW n \in Nat, m <= n,
           \A i \in 1 .. m : s[i] = t[i],
           NEW f, Selects(f, s, S, m), NEW g, Selects(g, t, S, n)
    PROVE  f[m] = g[m]
<1> DEFINE Q == {i \in Nat : i <= m => f[i] = g[i]}
<1>1. /\ \A i \in 0 .. m : f[i] = IF i = 0 THEN <<>>
           ELSE IF s[i] \in S THEN Append(f[i - 1], s[i]) ELSE f[i - 1]
      /\ \A i \in 0 .. n : g[i] = IF i = 0 THEN <<>>
           ELSE IF t[i] \in S THEN Append(g[i - 1], t[i]) ELSE g[i - 1]
  BY DEF Selects
<1>2. 0 \in Q
  BY <1>1
<1>3. ASSUME NEW i \in Nat, i \in Q  PROVE i + 1 \in Q
  <2> SUFFICES ASSUME i + 1 <= m  PROVE f[i + 1] = g[i + 1]
    OBVIOUS
  <2>1. f[i] = g[i] /\ s[i + 1] = t[i + 1] /\ (i + 1) - 1 = i /\ i + 1 # 0
    BY <1>3
  <2>2. i + 1 \in 0 .. m /\ i + 1 \in 0 .. n
    OBVIOUS
  <2> QED  BY <1>1, <2>1, <2>2
<1>4. Nat \subseteq Q
  <2> HIDE DEF Q
  <2> QED  BY <1>2, <1>3, SetInduction
<1> QED  BY <1>4

(* Nothing is selected of nothing.                                         *)
LEMMA SelectedOfNone ==
    ASSUME NEW S
    PROVE  Selected(<<>>, S) = <<>>
<1> DEFINE f == CHOOSE f : Selects(f, <<>>, S, 0)
<1>1. Selects(f, <<>>, S, 0)
  BY SelectsExists
<1>2. f[0] = <<>>
  <2> HIDE DEF f
  <2> QED  BY <1>1 DEF Selects
<1>3. Selected(<<>>, S) = (CHOOSE g : Selects(g, <<>>, S, Len(<<>>)))[Len(<<>>)] /\ Len(<<>>) = 0
  BY SelectedIs
<1> QED  BY <1>2, <1>3

(* The last element comes last, if at all.                                 *)
LEMMA SelectedOfAppended ==
    ASSUME NEW T, NEW seq \in Seq(T), NEW e \in T, NEW S
    PROVE  Selected(Append(seq, e), S) =
              IF e \in S THEN Append(Selected(seq, S), e) ELSE Selected(seq, S)
<1> DEFINE n == Len(seq)
           more == Append(seq, e)
           f == CHOOSE f : Selects(f, seq, S, n)
           g == CHOOSE g : Selects(g, more, S, n + 1)
<1>1. n \in Nat /\ Len(more) = n + 1 /\ more[n + 1] = e /\ \A i \in 1 .. n : seq[i] = more[i]
  BY AppendProperties
<1> HIDE DEF n, more
<1>2. Selects(f, seq, S, n) /\ Selects(g, more, S, n + 1)
  <2>1. n \in Nat /\ n + 1 \in Nat
    BY <1>1
  <2>2. \E h : Selects(h, seq, S, n)
    BY <2>1, SelectsExists, Zenon
  <2>3. \E h : Selects(h, more, S, n + 1)
    BY <2>1, SelectsExists, Zenon
  <2> QED  BY <2>2, <2>3, Zenon
<1>3. Selected(seq, S) = f[n] /\ Selected(more, S) = g[n + 1]
  BY <1>1, SelectedIs DEF n
<1> HIDE DEF f, g
<1>4. f[n] = g[n]
  BY <1>1, <1>2, SelectsAlike
<1>5. g[n + 1] = IF more[n + 1] \in S THEN Append(g[(n + 1) - 1], more[n + 1]) ELSE g[(n + 1) - 1]
  <2>1. n + 1 \in 0 .. n + 1 /\ n + 1 # 0
    BY <1>1
  <2> QED  BY <1>2, <2>1 DEF Selects
<1> QED  BY <1>1, <1>3, <1>4, <1>5 DEF more

(* What holds of the empty sequence, and of every sequence that has one    *)
(* more element if of that without it, holds of every sequence.            *)
LEMMA AppendInduction ==
    ASSUME NEW T, NEW P, <<>> \in P,
           \A seq \in Seq(T) : \A e \in T : seq \in P => Append(seq, e) \in P
    PROVE  Seq(T) \subseteq P
<1> DEFINE Q == {n \in Nat : \A seq \in Seq(T) : Len(seq) = n => seq \in P}
<1>1. 0 \in Q
  BY EmptySeq
<1>2. ASSUME NEW n \in Nat, n \in Q  PROVE n + 1 \in Q
  <2> SUFFICES ASSUME NEW seq \in Seq(T), Len(seq) = n + 1  PROVE seq \in P
    OBVIOUS
  <2>1. seq # <<>>
    BY EmptySeq
  <2>2. PICK s \in Seq(T), e \in T : seq = Append(s, e)
    BY <2>1, SequenceEmptyOrAppend, Zenon
  <2>3. Len(s) \in Nat /\ Len(seq) = Len(s) + 1
    BY <2>2, AppendProperties, LenProperties
  <2>4. s \in P
    BY <1>2, <2>3
  <2> QED  BY <2>2, <2>4
<1>3. Nat \subseteq Q
  <2> HIDE DEF Q
  <2> QED  BY <1>1, <1>2, SetInduction
<1> QED  BY <1>3, LenProperties

(* What is selected is what the sequence has of S.                         *)
LEMMA SelectedHas ==
    ASSUME NEW T, NEW seq \in Seq(T), NEW S
    PROVE  Selected(seq, S) \in Seq(T) /\ Range(Selected(seq, S)) = Range(seq) \cap S
<1> DEFINE P == {s \in Seq(T) : /\ Selected(s, S) \in Seq(T)
                                /\ Range(Selected(s, S)) = Range(s) \cap S}
<1>1. <<>> \in P
  <2>1. Range(<<>>) = {} /\ <<>> \in Seq(T)
    BY DEF Range
  <2> QED  BY <2>1, SelectedOfNone
<1>2. ASSUME NEW s \in Seq(T), NEW e \in T, s \in P  PROVE Append(s, e) \in P
  <2>1. Append(s, e) \in Seq(T) /\ Range(Append(s, e)) = Range(s) \cup {e}
    BY RangeOfAppend
  <2>2. Selected(s, S) \in Seq(T) /\ Range(Selected(s, S)) = Range(s) \cap S
    BY <1>2
  <2>3. /\ Append(Selected(s, S), e) \in Seq(T)
        /\ Range(Append(Selected(s, S), e)) = Range(Selected(s, S)) \cup {e}
    BY <2>2, RangeOfAppend
  <2>4. Selected(Append(s, e), S) = IF e \in S THEN Append(Selected(s, S), e) ELSE Selected(s, S)
    BY SelectedOfAppended
  <2> QED  BY <2>1, <2>2, <2>3, <2>4
<1>3. Seq(T) \subseteq P
  <2> HIDE DEF P
  <2> QED  BY <1>1, <1>2, AppendInduction
<1> QED  BY <1>3

-----------------------------------------------------------------------------
(* The items are the wanted songs that were listed                         *)

(* The songs chosen so far, as single items.                               *)
Chosen == Selected(Listed, WantedSongs)

OneByOne(songs) == [i \in DOMAIN songs |-> <<songs[i].uri>>]

(* The reader is on its way through the listing, and knows the file.       *)
ReadingInv ==
    /\ ~Unchecked
    /\ FromFile => valid_uris = Range(lines)
    /\ Len(unread) <= Len(listing)
    /\ \A i \in 1 .. Len(unread) : unread[i] = listing[Len(listing) - Len(unread) + i]

(* What was loaded is what LoadsWhatWasAsked says, of the lines there were.*)
LoadsTheWanted == stage = "done" => HoldsTheWanted

(* Every prefix of the listing has become the items, or the groups, it     *)
(* should become.                                                          *)
AskedInv ==
    /\ ListedOnce(listing)
    /\ stage = "list" =>
         /\ ReadingInv
         /\ opts.group_by = <<>> => items = OneByOne(Chosen) /\ DOMAIN groups = {}
         /\ opts.group_by # <<>> =>
              /\ items = <<>>
              /\ groups = [k \in {KeyOf(song) : song \in Range(Chosen)} |->
                             URIs(Selected(Chosen, OfKey(k)))]
    /\ LoadsTheWanted

(* A loader that has done nothing has loaded what it was asked to.         *)
LEMMA UntouchedIsAsked ==
    ASSUME Untouched', ListedOnce(listing')
    PROVE  AskedInv'
BY DEF Untouched, AskedInv, LoadsTheWanted, HoldsTheWanted

(* Which songs are wanted, and how they are grouped, is settled.           *)
LEMMA SameWants ==
    ASSUME UNCHANGED <<opts, listing, lines>>
    PROVE  /\ WantedSongs' = WantedSongs
           /\ \A song : KeyOf(song)' = KeyOf(song)
           /\ \A k : OfKey(k)' = OfKey(k)
           /\ Unchecked' = Unchecked /\ FromFile' = FromFile
BY DEF WantedSongs, Wanted, Excluded, TagOf, FromFile, Unchecked, KeyOf, OfKey

(* What a step of the reader that leaves options, library and file alone   *)
(* has to show.                                                            *)
LEMMA SameListing ==
    ASSUME UNCHANGED <<opts, listing, lines, unread>>
    PROVE  Listed' = Listed /\ Chosen' = Chosen
<1>1. Listed' = Listed
  BY DEF Listed
<1> QED  BY <1>1, SameWants DEF Chosen

(* URIs and single items of one song more.                                 *)
LEMMA OneSongMore ==
    ASSUME NEW songs \in Seq(Song), NEW song \in Song
    PROVE  /\ URIs(Append(songs, song)) = Append(URIs(songs), song.uri)
           /\ OneByOne(Append(songs, song)) = Append(OneByOne(songs), <<song.uri>>)
<1> DEFINE n == Len(songs)
           more == Append(songs, song)
<1>1. /\ n \in Nat /\ DOMAIN songs = 1 .. n /\ DOMAIN more = 1 .. n + 1
      /\ more[n + 1] = song /\ \A i \in 1 .. n : more[i] = songs[i]
  BY AppendProperties, LenProperties
<1>2. URIs(songs) = [i \in 1 .. n |-> songs[i].uri]
      /\ OneByOne(songs) = [i \in 1 .. n |-> <<songs[i].uri>>]
  BY <1>1 DEF URIs, OneByOne
<1>3. URIs(more) = [i \in 1 .. n + 1 |-> more[i].uri]
      /\ OneByOne(more) = [i \in 1 .. n + 1 |-> <<more[i].uri>>]
  BY <1>1 DEF URIs, OneByOne
<1>4. \A i \in 1 .. n : songs[i] \in Song
  BY ElementOfSeq
<1>5. \A f, g : f = [i \in 1 .. n |-> f[i]] => Append(f, g) = [i \in 1 .. n + 1 |-> IF i = n + 1 THEN g ELSE f[i]]
  OBVIOUS
<1> QED  BY <1>1, <1>2, <1>3, <1>5

(* Verify does look for what is wanted, if the file was read as it is.     *)
LEMMA VerifyIsWanted ==
    ASSUME opts \in OptionsType, FromFile => valid_uris = Range(lines),
           NEW song \in Song
    PROVE  Verify(Received(song)) <=> Wanted(song)
<1>1. Received(song).uri = song.uri
  BY ReceivedIsSong
<1>2. CASE opts.ruleset = <<>>
  <2>1. Range(opts.ruleset) = {}
    BY <1>2 DEF Range
  <2> QED  BY <1>1, <2>1 DEF Wanted, Excluded, Verify
<1>3. CASE opts.ruleset # <<>>
  <2>1. Received(song) = song
    BY <1>3 DEF Received, OmitsMetadata
  <2>2. ~Excluded(song) <=> \A rule \in Range(opts.ruleset) : Accepts(rule, song)
    BY DEF Excluded, Accepts
  <2> QED  BY <2>1, <2>2 DEF Wanted, Verify
<1> QED  BY <1>2, <1>3

(* Receiving a song makes what was listed longer by it.                    *)
LEMMA ListedGrows ==
    ASSUME LoadInv, ReadingInv, unread # <<>>, unread' = Tail(unread),
           UNCHANGED <<opts, listing, lines, valid_uris>>
    PROVE  /\ Listed \in Seq(Song) /\ Listed' = Append(Listed, Head(unread))
           /\ ReadingInv'
<1> DEFINE n == Len(listing)
           u == Len(unread)
<1>1. listing \in Seq(Song) /\ unread \in Seq(Song)
  BY DEF LoadInv, LoadTypeOK
<1>2. n \in Nat /\ u \in Nat /\ 0 < u /\ u <= n
  BY <1>1, LenProperties, EmptySeq DEF ReadingInv
<1>3. /\ Tail(unread) \in Seq(Song) /\ Len(Tail(unread)) = u - 1
      /\ \A i \in 1 .. u - 1 : Tail(unread)[i] = unread[i + 1]
      /\ Head(unread) = unread[1]
  BY <1>1, HeadTailProperties
<1>4. \A i \in 1 .. u : unread[i] = listing[n - u + i]
  BY DEF ReadingInv
<1> HIDE DEF n, u
<1>5. Head(unread) = listing[n - u + 1]
  BY <1>2, <1>3, <1>4
<1>6. \A i \in 1 .. n : listing[i] \in Song
  BY <1>1, ElementOfSeq DEF n
<1>7. Listed = SubSeq(listing, 1, n - u) /\ Listed' = SubSeq(listing, 1, n - u + 1)
  <2>1. n - (u - 1) = n - u + 1
    BY <1>2
  <2> QED  BY <1>3, <2>1 DEF Listed, n, u
<1>8. Listed \in Seq(Song)
  BY <1>2, <1>6, <1>7, SubSeqProperties
<1>9. Listed' = Append(Listed, Head(unread))
  <2>1. n - u + 1 \in 1 .. n /\ (n - u + 1) - 1 = n - u /\ 1 \in 1 .. n /\ n - u + 1 \in Nat
    BY <1>2
  <2>2. Listed' = Listed \o <<Head(unread)>>
    <3> DEFINE m == n - u + 1
    <3>1. 1 \in 1 .. Len(listing) /\ m \in 1 .. Len(listing)
      BY <2>1 DEF n
    <3>2. SubSeq(listing, 1, m) = SubSeq(listing, 1, m - 1) \o <<listing[m]>>
      <4> HIDE DEF m
      <4>1. m \in 1 .. Len(listing)
        BY <3>1
      <4> QED  BY <1>1, <3>1, <4>1, SubSeqRecursiveSecond
    <3> QED  BY <1>5, <1>7, <2>1, <3>2
  <2>3. Head(unread) \in Song
    BY <1>1, <1>2, HeadTailProperties
  <2>4. Append(Listed, Head(unread)) = Listed \o <<Head(unread)>>
    BY <1>8, <2>3, AppendIsConcat
  <2> QED  BY <2>2, <2>4
<1>10. ReadingInv'
  <2>1. Len(unread)' = u - 1 /\ Len(listing)' = n
    BY <1>3 DEF n
  <2>2. \A i \in 1 .. u - 1 : unread'[i] = listing'[n - (u - 1) + i]
    <3> SUFFICES ASSUME NEW i \in 1 .. u - 1  PROVE Tail(unread)[i] = listing[n - (u - 1) + i]
      OBVIOUS
    <3>1. i + 1 \in 1 .. u /\ n - (u - 1) + i = n - u + (i + 1)
      BY <1>2
    <3> QED  BY <1>3, <1>4, <3>1
  <2>3. u - 1 <= n
    BY <1>2
  <2>4. ~Unchecked' /\ (FromFile' => valid_uris' = Range(lines'))
    BY SameWants DEF ReadingInv
  <2>5. \A i \in 1 .. Len(unread') : unread'[i] = listing'[Len(listing') - Len(unread') + i]
    BY <2>1, <2>2
  <2>6. Len(unread') <= Len(listing')
    BY <2>1, <2>3
  <2> QED  BY <2>4, <2>5, <2>6 DEF ReadingInv
<1> QED  BY <1>8, <1>9, <1>10

(* One wanted song more is chosen, and is in one group more, or not.       *)
LEMMA ChosenGrows ==
    ASSUME LoadInv, opts \in OptionsType, ReadingInv, unread # <<>>, unread' = Tail(unread),
           UNCHANGED <<opts, listing, lines, valid_uris>>
    PROVE  /\ Chosen \in Seq(Song)
           /\ Chosen' = IF Verify(Received(Head(unread))) THEN Append(Chosen, Head(unread))
                        ELSE Chosen
<1>1. Listed \in Seq(Song) /\ Listed' = Append(Listed, Head(unread))
  BY ListedGrows
<1>2. Head(unread) \in Song /\ Head(unread) \in Range(listing)
  BY NextReceived
<1>3. Verify(Received(Head(unread))) <=> Head(unread) \in WantedSongs
  <2>1. Verify(Received(Head(unread))) <=> Wanted(Head(unread))
    BY <1>2, VerifyIsWanted DEF ReadingInv
  <2> QED  BY <1>2, <2>1 DEF WantedSongs
<1>4. Chosen' = Selected(Append(Listed, Head(unread)), WantedSongs)
  BY <1>1, SameWants DEF Chosen
<1>5. Chosen \in Seq(Song)
  BY <1>1, SelectedHas DEF Chosen
<1> QED  BY <1>1, <1>2, <1>3, <1>4, <1>5, SelectedOfAppended DEF Chosen

(* A group is what was chosen of its key, also before there is any.        *)
LEMMA GroupIsChosen ==
    ASSUME Chosen \in Seq(Song), NEW key,
           groups = [k \in {KeyOf(song) : song \in Range(Chosen)} |->
                       URIs(Selected(Chosen, OfKey(k)))]
    PROVE  GroupOf(key) = URIs(Selected(Chosen, OfKey(key)))
<1>1. CASE key \in DOMAIN groups
  BY <1>1 DEF GroupOf
<1>2. CASE key \notin DOMAIN groups
  <2>1. Range(Chosen) \cap OfKey(key) = {}
    BY <1>2 DEF OfKey
  <2>2. /\ Selected(Chosen, OfKey(key)) \in Seq(Song)
        /\ Range(Selected(Chosen, OfKey(key))) = {}
    BY <2>1, SelectedHas, Zenon
  <2>3. \A s \in Seq(Song) : Range(s) = {} => s = <<>>
    <3> SUFFICES ASSUME NEW s \in Seq(Song), Range(s) = {}  PROVE s = <<>>
      OBVIOUS
    <3>1. DOMAIN s = {}
      BY DEF Range
    <3> QED  BY <3>1, EmptySeq, LenProperties
  <2>4. Selected(Chosen, OfKey(key)) = <<>>
    BY <2>2, <2>3
  <2>5. URIs(<<>>) = <<>>
    BY DEF URIs
  <2> QED  BY <1>2, <2>4, <2>5 DEF GroupOf
<1> QED  BY <1>1, <1>2

(* The groups are those of the chosen songs, with one more among them.     *)
LEMMA GroupsGrow ==
    ASSUME Chosen \in Seq(Song), NEW song \in Song, song \in Range(listing),
           UNCHANGED <<opts, listing, lines>>,
           groups = [k \in {KeyOf(s) : s \in Range(Chosen)} |-> URIs(Selected(Chosen, OfKey(k)))],
           groups' = WithGroup(KeyOf(song), Append(GroupOf(KeyOf(song)), song.uri)),
           Chosen' = Append(Chosen, song)
    PROVE  groups' = [k \in {KeyOf(s)' : s \in Range(Chosen')} |->
                        URIs(Selected(Chosen', OfKey(k)'))]
<1> DEFINE key == KeyOf(song)
           keys == {KeyOf(s) : s \in Range(Chosen)}
<1>1. {KeyOf(s)' : s \in Range(Chosen')} = keys \cup {key}
  <2>1. Range(Chosen') = Range(Chosen) \cup {song}
    BY RangeOfAppend
  <2> QED  BY <2>1, SameWants
<1>2. \A k : URIs(Selected(Chosen', OfKey(k)')) =
               IF k = key THEN Append(GroupOf(key), song.uri)
               ELSE URIs(Selected(Chosen, OfKey(k)))
  <2> SUFFICES ASSUME NEW k
               PROVE  URIs(Selected(Chosen', OfKey(k)')) =
                        IF k = key THEN Append(GroupOf(key), song.uri)
                        ELSE URIs(Selected(Chosen, OfKey(k)))
    OBVIOUS
  <2>1. OfKey(k)' = OfKey(k)
    BY SameWants
  <2>2. Selected(Append(Chosen, song), OfKey(k)) =
          IF song \in OfKey(k) THEN Append(Selected(Chosen, OfKey(k)), song)
          ELSE Selected(Chosen, OfKey(k))
    BY SelectedOfAppended
  <2>3. song \in OfKey(k) <=> k = key
    BY DEF OfKey
  <2>4. Selected(Chosen, OfKey(k)) \in Seq(Song)
    BY SelectedHas
  <2>5. URIs(Append(Selected(Chosen, OfKey(k)), song)) =
          Append(URIs(Selected(Chosen, OfKey(k))), song.uri)
    BY <2>4, OneSongMore
  <2>6. GroupOf(k) = URIs(Selected(Chosen, OfKey(k)))
    BY GroupIsChosen
  <2> HIDE DEF key
  <2> QED  BY <2>1, <2>2, <2>3, <2>5, <2>6
<1>3. DOMAIN groups = keys /\ \A k \in keys : groups[k] = URIs(Selected(Chosen, OfKey(k)))
  OBVIOUS
<1>4. groups' = [k \in keys \cup {key} |->
                   IF k = key THEN Append(GroupOf(key), song.uri) ELSE groups[k]]
  BY <1>3 DEF WithGroup
<1> HIDE DEF key, keys
<1> QED  BY <1>1, <1>2, <1>3, <1>4

(* A song is received.                                                     *)
LEMMA ReceiveSongAsked ==
    ASSUME LoadInv, AskedInv, opts \in OptionsType, UNCHANGED opts, ReceiveSong
    PROVE  AskedInv'
<1> DEFINE song == Head(unread)
<1>1. /\ stage = "list" /\ unread # <<>> /\ unread' = Tail(unread)
      /\ UNCHANGED <<opts, listing, file, lines, stage, valid_uris>>
  BY DEF ReceiveSong
<1>2. ReadingInv /\ ReadingInv'
  BY <1>1, ListedGrows DEF AskedInv
<1>3. song \in Song /\ song \in Range(listing) /\ Received(song).uri = song.uri
  BY <1>1, NextReceived, ReceivedIsSong
<1>4. /\ Chosen \in Seq(Song)
      /\ Chosen' = IF Verify(Received(song)) THEN Append(Chosen, song) ELSE Chosen
  BY <1>1, <1>2, ChosenGrows
<1>5. ListedOnce(listing)'
  BY <1>1 DEF AskedInv, ListedOnce
<1>6. LoadsTheWanted'
  BY <1>1 DEF LoadsTheWanted, HoldsTheWanted
<1>7. opts'.group_by = opts.group_by /\ stage' = "list"
  BY <1>1
<1>8. CASE ~Verify(Received(song))
  <2>1. Chosen' = Chosen /\ UNCHANGED <<groups, items>>
    BY <1>4, <1>8 DEF ReceiveSong
  <2>2. opts.group_by = <<>> => items' = OneByOne(Chosen') /\ DOMAIN groups' = {}
    BY <1>1, <2>1 DEF AskedInv
  <2>3. opts.group_by # <<>> =>
          /\ items' = <<>>
          /\ groups' = [k \in {KeyOf(s)' : s \in Range(Chosen')} |->
                          URIs(Selected(Chosen', OfKey(k)'))]
    <3>1. ASSUME opts.group_by # <<>>
          PROVE  /\ items = <<>>
                 /\ groups = [k \in {KeyOf(s) : s \in Range(Chosen)} |->
                                URIs(Selected(Chosen, OfKey(k)))]
      BY <1>1, <3>1 DEF AskedInv
    <3>2. {KeyOf(s)' : s \in Range(Chosen')} = {KeyOf(s) : s \in Range(Chosen)}
      BY <1>1, <2>1, SameWants
    <3>3. \A k : URIs(Selected(Chosen', OfKey(k)')) = URIs(Selected(Chosen, OfKey(k)))
      BY <1>1, <2>1, SameWants
    <3> QED  BY <2>1, <3>1, <3>2, <3>3
  <2> QED  BY <1>2, <1>5, <1>6, <1>7, <2>2, <2>3 DEF AskedInv
<1>9. CASE Verify(Received(song)) /\ opts.group_by = <<>>
  <2>1. items' = Append(items, <<song.uri>>) /\ UNCHANGED groups
    BY <1>3, <1>9 DEF ReceiveSong
  <2>2. items = OneByOne(Chosen) /\ DOMAIN groups = {}
    BY <1>1, <1>9 DEF AskedInv
  <2>3. OneByOne(Append(Chosen, song)) = Append(OneByOne(Chosen), <<song.uri>>)
    BY <1>3, <1>4, OneSongMore
  <2>4. items' = OneByOne(Chosen') /\ DOMAIN groups' = {}
    BY <1>4, <1>9, <2>1, <2>2, <2>3
  <2> QED  BY <1>2, <1>5, <1>6, <1>7, <1>9, <2>4 DEF AskedInv
<1>10. CASE Verify(Received(song)) /\ opts.group_by # <<>>
  <2>1. Received(song) = song
    BY <1>10 DEF Received, OmitsMetadata
  <2>2. groups' = WithGroup(KeyOf(song), Append(GroupOf(KeyOf(song)), song.uri)) /\ UNCHANGED items
    BY <1>10, <2>1 DEF ReceiveSong
  <2>3. /\ items = <<>>
        /\ groups = [k \in {KeyOf(s) : s \in Range(Chosen)} |->
                       URIs(Selected(Chosen, OfKey(k)))]
    BY <1>1, <1>10 DEF AskedInv
  <2>4. Chosen' = Append(Chosen, song)
    BY <1>4, <1>10
  <2>5. groups' = [k \in {KeyOf(s)' : s \in Range(Chosen')} |->
                     URIs(Selected(Chosen', OfKey(k)'))]
    BY <1>1, <1>3, <1>4, <2>2, <2>3, <2>4, GroupsGrow
  <2>6. items' = <<>>
    BY <2>2, <2>3
  <2> QED  BY <1>2, <1>5, <1>6, <1>7, <1>10, <2>5, <2>6 DEF AskedInv
<1> QED  BY <1>8, <1>9, <1>10

(* The file is loaded as it is.                                            *)
LEMMA LoadFileAsked ==
    ASSUME LoadInv, AskedInv, UNCHANGED opts, LoadFile
    PROVE  AskedInv'
<1>1. /\ items' = [i \in DOMAIN lines |-> <<lines[i]>>]
      /\ stage' = "done" /\ UNCHANGED <<opts, listing, lines>> /\ Unchecked
  BY DEF LoadFile
<1>2. ListedOnce(listing)' /\ Unchecked'
  BY <1>1, SameWants DEF AskedInv, ListedOnce
<1>3. LoadsTheWanted'
  BY <1>1, <1>2 DEF LoadsTheWanted, HoldsTheWanted
<1> QED  BY <1>1, <1>2, <1>3 DEF AskedInv

(* The library is asked for, and nothing of it is listed yet.              *)
LEMMA ListAllAsked ==
    ASSUME LoadInv, AskedInv, UNCHANGED opts, ListAll
    PROVE  AskedInv'
<1>1. /\ items = <<>> /\ groups = [k \in {} |-> <<>>]
      /\ UNCHANGED <<opts, listing, lines, groups, items>> /\ ~Unchecked
      /\ FromFile => valid_uris' = Range(lines)
      /\ (stage' = "list" /\ unread' = listing) \/ stage' = "died"
  BY DEF LoadInv, ListAll, Untouched
<1>2. ListedOnce(listing)' /\ ~Unchecked' /\ (FromFile' => FromFile)
  BY <1>1, SameWants DEF AskedInv, ListedOnce
<1>3. LoadsTheWanted'
  BY <1>1 DEF LoadsTheWanted, HoldsTheWanted
<1>4. CASE stage' = "died"
  BY <1>2, <1>3, <1>4 DEF AskedInv
<1>5. CASE stage' = "list" /\ unread' = listing
  <2>1. listing \in Seq(Song) /\ Len(listing) \in Nat
    BY LenProperties DEF LoadInv, LoadTypeOK
  <2>2. Len(unread') = Len(listing) /\ Len(listing') = Len(listing)
    BY <1>1, <1>5
  <2>3. ReadingInv'
    <3>1. \A i \in 1 .. Len(listing) : Len(listing) - Len(listing) + i = i
      BY <2>1
    <3>2. \A i \in 1 .. Len(unread') : unread'[i] = listing'[Len(listing') - Len(unread') + i]
      BY <1>1, <1>5, <2>2, <3>1
    <3>3. Len(unread') <= Len(listing')
      BY <2>1, <2>2
    <3> QED  BY <1>1, <1>2, <3>2, <3>3 DEF ReadingInv
  <2>4. Listed' = <<>>
    <3>1. Listed' = SubSeq(listing, 1, 0)
      BY <1>1, <2>1, <2>2 DEF Listed
    <3> QED  BY <3>1, SubSeqEmpty
  <2>5. Chosen' = <<>>
    BY <2>4, SelectedOfNone DEF Chosen
  <2>6. OneByOne(<<>>) = <<>> /\ Range(<<>>) = {}
    BY DEF OneByOne, Range
  <2>7. items' = OneByOne(Chosen') /\ DOMAIN groups' = {} /\ items' = <<>>
    BY <1>1, <2>5, <2>6
  <2>8. groups' = [k \in {KeyOf(s)' : s \in Range(Chosen')} |->
                     URIs(Selected(Chosen', OfKey(k)'))]
    <3>1. {KeyOf(s)' : s \in Range(Chosen')} = {}
      BY <2>5, <2>6
    <3> QED  BY <1>1, <3>1
  <2> QED  BY <1>2, <1>3, <2>3, <2>7, <2>8 DEF AskedInv
<1> QED  BY <1>1, <1>4, <1>5

(* No two groups are alike: songs of one URI are one song, of one key.     *)
LEMMA GroupsDiffer ==
    ASSUME LoadInv, ListedOnce(listing), Chosen \in Seq(Song),
           groups = [k \in {KeyOf(s) : s \in Range(Chosen)} |-> URIs(Selected(Chosen, OfKey(k)))],
           NEW k1 \in DOMAIN groups, NEW k2 \in DOMAIN groups, groups[k1] = groups[k2]
    PROVE  k1 = k2
<1>1. ASSUME NEW k \in DOMAIN groups
      PROVE  groups[k] # <<>> /\ \E song \in Range(listing) : groups[k][1] = song.uri /\ KeyOf(song) = k
  <2> DEFINE of == Selected(Chosen, OfKey(k))
  <2>1. of \in Seq(Song) /\ Range(of) \subseteq OfKey(k)
    BY SelectedHas
  <2>2. groups[k] = URIs(of) /\ groups[k] \in Seq(URI) \ {<<>>}
    BY DEF LoadInv, LoadTypeOK
  <2> HIDE DEF of
  <2>3. DOMAIN groups[k] = DOMAIN of
    BY <2>2 DEF URIs
  <2>4. 1 \in DOMAIN groups[k]
    BY <2>2, LenProperties, EmptySeq
  <2>5. groups[k][1] = of[1].uri /\ of[1] \in Range(of)
    BY <2>2, <2>3, <2>4 DEF URIs, Range
  <2> QED  BY <2>1, <2>2, <2>5 DEF OfKey
<1>2. PICK a \in Range(listing) : groups[k1][1] = a.uri /\ KeyOf(a) = k1
  BY <1>1
<1>3. PICK b \in Range(listing) : groups[k2][1] = b.uri /\ KeyOf(b) = k2
  BY <1>1
<1>4. a = b
  BY <1>2, <1>3 DEF ListedOnce, Range
<1> QED  BY <1>2, <1>3, <1>4

(* An order of the groups has each of them once.                           *)
LEMMA OrderHasAll ==
    ASSUME NEW S, IsFiniteSet(S), NEW order \in SetToSeqs(S)
    PROVE  /\ IsInjective(order) /\ Range(order) = S
           /\ DOMAIN order = 1 .. Cardinality(S) /\ Cardinality(S) \in Nat
<1> DEFINE n == Cardinality(S)
<1>1. n \in Nat
  BY FS_CardinalityType
<1>2. order \in [1 .. n -> S] /\ IsInjective(order)
  BY DEF SetToSeqs, IsInjective
<1>3. order \in Injection(1 .. n, S)
  BY <1>2 DEF Injection
<1>4. Cardinality(1 .. n) = n
  BY <1>1, FS_Interval
<1>5. order \in Surjection(1 .. n, S)
  BY <1>3, <1>4, FS_Injection
<1>6. Range(order) = S
  BY <1>2, <1>5 DEF Surjection, Range
<1> QED  BY <1>1, <1>2, <1>6

(* The listing ends, and the groups are added.                             *)
LEMMA ListingEndsAsked ==
    ASSUME LoadInv, AskedInv, UNCHANGED opts, ListingEnds
    PROVE  AskedInv'
<1>1. /\ stage = "list" /\ stage' = "done"
      /\ UNCHANGED <<opts, listing, file, lines, unread, valid_uris, groups>>
  BY DEF ListingEnds
<1>2. ListedOnce(listing)' /\ ~Unchecked' /\ Chosen' = Chosen /\ opts'.group_by = opts.group_by
  BY <1>1, SameWants, SameListing DEF AskedInv, ListedOnce, ReadingInv
<1>3. Chosen \in Seq(Song)
  <2>1. /\ listing \in Seq(Song) /\ Len(listing) \in Nat /\ Len(unread) \in Nat
        /\ Len(unread) <= Len(listing) /\ \A i \in 1 .. Len(listing) : listing[i] \in Song
    BY <1>1, LenProperties, ElementOfSeq DEF LoadInv, LoadTypeOK, AskedInv, ReadingInv
  <2>2. Listed \in Seq(Song)
    BY <2>1, SubSeqProperties DEF Listed
  <2> QED  BY <2>2, SelectedHas DEF Chosen
<1>4. PICK order \in SetToSeqs(DOMAIN groups) :
         items' = items \o [i \in DOMAIN order |-> groups[order[i]]]
  BY DEF ListingEnds
<1> DEFINE n == Cardinality(DOMAIN groups)
           added == [i \in DOMAIN order |-> groups[order[i]]]
<1>5. IsInjective(order) /\ Range(order) = DOMAIN groups /\ DOMAIN order = 1 .. n /\ n \in Nat
  BY OrderHasAll DEF LoadInv
<1>6. CASE opts.group_by = <<>>
  <2>1. items = OneByOne(Chosen) /\ DOMAIN groups = {}
    BY <1>1, <1>6 DEF AskedInv
  <2>2. DOMAIN order = {}
    BY <1>5, <2>1 DEF Range
  <2>3. added = <<>>
    BY <2>2
  <2>4. items \in Seq(Seq(URI)) /\ items \o <<>> = items
    BY ConcatEmptySeq DEF LoadInv, LoadTypeOK
  <2>5. items' = OneByOne(Chosen)
    BY <1>4, <2>1, <2>3, <2>4
  <2>6. LoadsTheWanted'
    BY <1>2, <1>6, <2>5 DEF LoadsTheWanted, HoldsTheWanted, OneByOne, Chosen
  <2> QED  BY <1>1, <1>2, <2>6 DEF AskedInv
<1>7. CASE opts.group_by # <<>>
  <2> DEFINE Class(song) == URIs(Selected(Chosen, OfKey(KeyOf(song))))
  <2>1. /\ items = <<>>
        /\ groups = [k \in {KeyOf(s) : s \in Range(Chosen)} |->
                       URIs(Selected(Chosen, OfKey(k)))]
    BY <1>1, <1>7 DEF AskedInv
  <2>2. ListedOnce(listing)
    BY DEF AskedInv
  <2>3. \A i \in 1 .. n : order[i] \in DOMAIN groups
    BY <1>5 DEF Range
  <2>4. \A k \in DOMAIN groups : groups[k] \in Seq(URI)
    BY DEF LoadInv, LoadTypeOK
  <2>5. added \in Seq(Seq(URI))
    <3>1. added \in [1 .. n -> Seq(URI)]
      BY <1>5, <2>3, <2>4
    <3> HIDE DEF added, n
    <3> QED  BY <1>5, <3>1
  <2>6. items' = added
    <3> HIDE DEF added
    <3> QED  BY <1>4, <2>1, <2>5, ConcatEmptySeq DEF added
  <2>7. IsInjective(added)
    <3> SUFFICES ASSUME NEW a \in 1 .. n, NEW b \in 1 .. n, added[a] = added[b]
                 PROVE  a = b
      BY <1>5 DEF IsInjective
    <3>1. groups[order[a]] = groups[order[b]]
      BY <1>5
    <3>2. order[a] = order[b]
      BY <1>3, <2>1, <2>2, <2>3, <3>1, GroupsDiffer
    <3> QED  BY <1>5, <3>2 DEF IsInjective
  <2>8. Range(added) = {groups[k] : k \in DOMAIN groups}
    BY <1>5 DEF Range
  <2>9. {groups[k] : k \in DOMAIN groups} = {Class(song) : song \in Range(Chosen)}
    BY <2>1
  <2>10. IsInjective(items') /\ Range(items') = {Class(song) : song \in Range(Chosen)}
    <3> HIDE DEF added
    <3> QED  BY <2>6, <2>7, <2>8, <2>9
  <2>11. \A song : URIs(Selected(Chosen', OfKey(KeyOf(song))')) = Class(song)
    BY <1>1, <1>2, SameWants
  <2>12. LoadsTheWanted'
    BY <1>2, <1>7, <2>10, <2>11, SameWants DEF LoadsTheWanted, HoldsTheWanted, Chosen
  <2> QED  BY <1>1, <1>2, <2>12 DEF AskedInv
<1> QED  BY <1>6, <1>7

(***************************************************************************)
(* Every step of a loader preserves AskedInv: what becomes of a listing is *)
(* right at every point of it (load.cc, MPDLoader::Load).                  *)
(***************************************************************************)
THEOREM AskedStep ==
    ASSUME LoadInv, AskedInv, opts \in OptionsType, UNCHANGED opts, [LoadNext]_loadVars
    PROVE  AskedInv'
<1>1. CASE UNCHANGED loadVars
  <2>1. UNCHANGED <<opts, listing, lines, unread, stage, items, groups, valid_uris>>
    BY <1>1 DEF loadVars
  <2>2. ListedOnce(listing)' /\ ReadingInv' = ReadingInv /\ Chosen' = Chosen
    BY <2>1, SameWants, SameListing DEF ListedOnce, AskedInv, ReadingInv
  <2>3. LoadsTheWanted'
    <3> DEFINE Class(song) == URIs(Selected(Chosen, OfKey(KeyOf(song))))
    <3>1. \A song : URIs(Selected(Chosen', OfKey(KeyOf(song))')) = Class(song)
      BY <2>1, <2>2, SameWants
    <3>2. stage = "done" =>
            IF Unchecked THEN items = [i \in DOMAIN lines |-> <<lines[i]>>]
            ELSE IF opts.group_by = <<>> THEN items = OneByOne(Chosen)
            ELSE IsInjective(items) /\ Range(items) = {Class(song) : song \in Range(Chosen)}
      BY DEF AskedInv, LoadsTheWanted, HoldsTheWanted, OneByOne, Chosen
    <3>3. Unchecked' = Unchecked
      BY <2>1, SameWants
    <3>4. CASE stage' # "done"
      BY <3>4 DEF LoadsTheWanted, HoldsTheWanted
    <3>5. CASE stage' = "done" /\ Unchecked
      BY <2>1, <3>2, <3>3, <3>5 DEF LoadsTheWanted, HoldsTheWanted
    <3>6. CASE stage' = "done" /\ ~Unchecked /\ opts.group_by = <<>>
      BY <2>1, <2>2, <3>2, <3>3, <3>6 DEF LoadsTheWanted, HoldsTheWanted, OneByOne, Chosen
    <3>7. CASE stage' = "done" /\ ~Unchecked /\ opts.group_by # <<>>
      <4>1. IsInjective(items') /\ Range(items') = {Class(song) : song \in Range(Chosen)}
        BY <2>1, <3>2, <3>7
      <4> HIDE DEF Class
      <4>2. {URIs(Selected(Chosen', OfKey(KeyOf(song))')) : song \in Range(Chosen')} =
              {Class(song) : song \in Range(Chosen)}
        BY <2>2, <3>1
      <4> QED  BY <2>1, <3>3, <3>7, <4>1, <4>2 DEF LoadsTheWanted, HoldsTheWanted, Chosen
    <3> QED  BY <3>4, <3>5, <3>6, <3>7
  <2>4. {KeyOf(s)' : s \in Range(Chosen')} = {KeyOf(s) : s \in Range(Chosen)}
    BY <2>1, <2>2, SameWants
  <2>5. \A k : URIs(Selected(Chosen', OfKey(k)')) = URIs(Selected(Chosen, OfKey(k)))
    BY <2>1, <2>2, SameWants
  <2> QED  BY <2>1, <2>2, <2>3, <2>4, <2>5 DEF AskedInv
<1> QED
  BY <1>1, LoadFileAsked, ListAllAsked, ReceiveSongAsked, ListingEndsAsked DEF LoadNext
=============================================================================
