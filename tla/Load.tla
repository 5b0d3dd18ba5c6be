--------------------------------- MODULE Load ---------------------------------
(***************************************************************************)
(* The loaders (src/src/load.cc) with the exclusion rules (src/src/rule.cc)*)
(* and the reader of MPD's song list (src/src/mpd_client.cc): from a       *)
(* listing of the library, or a file of URIs, to the items of a chain.     *)
(***************************************************************************)
EXTENDS Options

CONSTANTS URI,
          Value,          \* values of tags
          Matching        \* a value and an argument that is a substring of
                          \* it, in whatever case

(* A song has any number of values of each tag.                            *)
Song == [uri : URI, tags : [Tag -> Seq(Value)]]

(* MPD's library has one song of a URI.                                    *)
ListedOnce(songs) ==
    \A a, b \in DOMAIN songs : songs[a].uri = songs[b].uri => a = b

ASSUME LoadAssumption == Matching \subseteq Value \X Arg

VARIABLES listing,        \* the songs of the library, as MPD lists them
          file,           \* the URIs in the file that --file names
          lines,          \* those that password prompts left to the loader
          stage,          \* "start", "list", "done" or "died"
          unread,         \* what the song reader still has to receive
          valid_uris,     \* valid_uris_
          groups,         \* groups, by their values of the tags of --group-by
          items           \* the items of the chain

loadVars == <<listing, file, lines, stage, unread, valid_uris, groups, items>>

Key == UNION {[1 .. n -> SUBSET Value] : n \in {Len(opts.group_by)}}

LoadTypeOK ==
    /\ listing \in Seq(Song) /\ unread \in Seq(Song)
    /\ file \in Seq(URI) /\ lines \in Seq(URI)
    /\ stage \in {"start", "list", "done", "died"}
    /\ valid_uris \in SUBSET URI
    /\ DOMAIN groups \subseteq Key /\ \A k \in DOMAIN groups : groups[k] \in Seq(URI) \ {<<>>}
    /\ items \in Seq(Seq(URI))

LoadInit(listings, files) ==
    /\ listing \in listings
    /\ file \in files
    /\ lines = file
    /\ stage = "start"
    /\ unread = <<>>
    /\ valid_uris = {}
    /\ groups = [k \in {} |-> <<>>]
    /\ items = <<>>

-----------------------------------------------------------------------------
(* Song::Tag, an optional: only the first value of a tag is looked at.     *)
TagOf(song, tag) == IF song.tags[tag] = <<>> THEN {} ELSE {Head(song.tags[tag])}

(* Rule::Accepts                                                           *)
Accepts(rule, song) ==
    \E p \in Range(rule) :
        \A v \in TagOf(song, p.tag) : <<v, p.value>> \notin Matching

(* MPDLoader is used unless the URIs of a file are not to be checked.      *)
FromFile == opts.file_in # NoFile
Unchecked == FromFile /\ ~opts.check_uris

(* Mutant: URIs from a file are subject to no rules.                       *)
VerifyFileOnly(song) ==
    IF FromFile THEN song.uri \in valid_uris
    ELSE \A rule \in Range(opts.ruleset) : Accepts(rule, song)

(* MPDLoader::Verify, and FileMPDLoader's, which looks the URI up first.   *)
Verify(song) ==
    /\ FromFile => song.uri \in valid_uris
    /\ \A rule \in Range(opts.ruleset) : Accepts(rule, song)

(* Mutant: only grouping needs the songs' tags.                            *)
OmitsMetadataWithRules == opts.group_by = <<>>

OmitsMetadata == opts.ruleset = <<>> /\ opts.group_by = <<>>

Received(song) ==
    IF OmitsMetadata THEN [song EXCEPT !.tags = [t \in Tag |-> <<>>]] ELSE song

KeyOf(song) == [i \in DOMAIN opts.group_by |-> TagOf(song, opts.group_by[i])]

(* The group of that key, which is empty if there was none; groups with    *)
(* that one changed.                                                       *)
GroupOf(key) == IF key \in DOMAIN groups THEN groups[key] ELSE <<>>

WithGroup(key, uris) ==
    [k \in DOMAIN groups \cup {key} |-> IF k = key THEN uris ELSE groups[k]]

(* FileLoader::Load adds the lines as they are; FileMPDLoader reads them   *)
(* when it is constructed.  Nobody reads from the file after that.  ListAll*)
(* may fail to send its request.                                           *)
LoadFile ==
    /\ stage = "start" /\ Unchecked
    /\ items' = [i \in DOMAIN lines |-> <<lines[i]>>]
    /\ stage' = "done"
    /\ UNCHANGED <<listing, file, lines, unread, valid_uris, groups>>

ListAll ==
    /\ stage = "start" /\ ~Unchecked
    /\ valid_uris' = IF FromFile THEN Range(lines) ELSE valid_uris
    /\ \/ stage' = "list" /\ unread' = listing
       \/ stage' = "died" /\ UNCHANGED unread
    /\ UNCHANGED <<listing, file, lines, groups, items>>

(* One round of the loop: Done and Next fetch one song between them.       *)
ReceiveSong ==
    /\ stage = "list" /\ unread # <<>>
    /\ unread' = Tail(unread)
    /\ LET song == Received(Head(unread))
           key == KeyOf(song)
       IN IF ~Verify(song) THEN UNCHANGED <<groups, items>>
          ELSE IF opts.group_by = <<>>
          THEN items' = Append(items, <<song.uri>>) /\ UNCHANGED groups
          ELSE groups' = WithGroup(key, Append(GroupOf(key), song.uri)) /\ UNCHANGED items
    /\ UNCHANGED <<listing, file, lines, stage, valid_uris>>

(* There is nothing more, or the connection has failed, which looks the    *)
(* same to the loader.  An unordered map gives the groups in any order.    *)
ListingEnds ==
    /\ stage = "list"
    /\ stage' = "done"
    /\ \E order \in SetToSeqs(DOMAIN groups) :
          items' = items \o [i \in DOMAIN order |-> groups[order[i]]]
    /\ UNCHANGED <<listing, file, lines, unread, valid_uris, groups>>

LoadNext == LoadFile \/ ListAll \/ ReceiveSong \/ ListingEnds

-----------------------------------------------------------------------------
(* What is to be shuffled, read off the library and the options at once.   *)
Excluded(song) ==
    \E rule \in Range(opts.ruleset) :
        \A p \in Range(rule) : \E v \in TagOf(song, p.tag) : <<v, p.value>> \in Matching

Wanted(song) == ~Excluded(song) /\ (FromFile => song.uri \in Range(lines))

WantedSongs == {song \in Range(listing) : Wanted(song)}

Listed == SubSeq(listing, 1, Len(listing) - Len(unread))

(* The elements of a sequence that are in S, in the same order.            *)
Selected(seq, S) ==
    LET first[n \in 0 .. Len(seq)] ==
            IF n = 0 THEN <<>>
            ELSE IF seq[n] \in S THEN Append(first[n - 1], seq[n]) ELSE first[n - 1]
    IN  first[Len(seq)]

URIs(songs) == [i \in DOMAIN songs |-> songs[i].uri]

OfKey(key) == {song \in Range(listing) : KeyOf(song) = key}

HoldsTheWanted ==
    LET wanted == Selected(Listed, WantedSongs)
        Class(song) == URIs(Selected(wanted, OfKey(KeyOf(song))))
    IN IF Unchecked THEN items = [i \in DOMAIN lines |-> <<lines[i]>>]
       ELSE IF opts.group_by = <<>>
       THEN items = [i \in DOMAIN wanted |-> <<wanted[i].uri>>]
       ELSE IsInjective(items) /\ Range(items) = {Class(song) : song \in Range(wanted)}

(* A chain that was loaded holds, of the songs that were listed, the wanted*)
(* ones and no other, each once, in listing order or in the groups they    *)
(* form: each group in one piece, whatever order the groups are in.  With  *)
(* --no-check it holds the file.  The whole file is asked for, unless it is*)
(* standard input: there, lines that a password prompt has read are lost to*)
(* the list (getpass.cc), and only what it left is loaded.                 *)
LoadsWhatWasAsked ==
    stage = "done" =>
        /\ opts.file_in # "-" => lines = file
        /\ HoldsTheWanted

(* At every moment of loading, only wanted songs are in the chain, or are  *)
(* on their way to it.                                                     *)
NothingUnwanted ==
    LET allowed == IF Unchecked THEN Range(lines) ELSE {song.uri : song \in WantedSongs}
    IN /\ \A item \in Range(items) : Range(item) \subseteq allowed
       /\ \A key \in DOMAIN groups : Range(groups[key]) \subseteq allowed
=============================================================================
