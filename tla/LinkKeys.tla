------------------------------ MODULE LinkKeys ------------------------------
(***************************************************************************)
(* The texts by which captures are found: the key of a link (link.cpp),    *)
(* its prefix key and the ltree path made of that (prefix_utils.cpp), and  *)
(* the bound of a scan by text prefix (prefix_pagination.cpp).  A text is  *)
(* a sequence of bytes; Dot, Slash and letters are the bytes that matter,  *)
(* MaxByte stands for 0xFF.  The query of a link is left out: ToKey        *)
(* appends it to the key as it is and MakePrefixKey drops it, so neither   *)
(* the segments nor the order of the keys of one path depend on it.        *)
(***************************************************************************)
EXTENDS Naturals, Sequences, SequencesExt

CONSTANTS
    None,
    Dot, Slash, MaxByte,
    LabelMax,    \* max_bytes_per_label
    BoundLength, \* bound of the texts UpperExclusiveBound is checked on
    PathLength   \* bound of the paths the trees are checked on

ASSUME TextAssumption ==
    /\ Dot \in Nat /\ Slash \in Nat /\ MaxByte \in Nat
    /\ Dot < Slash /\ Slash < MaxByte
    /\ LabelMax \in Nat \ {0} /\ BoundLength \in Nat /\ PathLength \in Nat

Bytes == 0..MaxByte
Text  == Seq(Bytes)

\* A valid domain has labels of 1 to 63 bytes, which fit a label of the tree.
HostLabels == {s \in Seq(Bytes \ {Dot, Slash}) : Len(s) \in 1..LabelMax}
Links ==
    [host: Seq(HostLabels) \ {<<>>}, path: {p \in Text : p # <<>> /\ p[1] = Slash}]

ASSUME NoLinkAssumption == None \notin Links

\* The order of a column collated "C".
Less(s, t) ==
    \E i \in DOMAIN t :
        /\ \A k \in 1..(i - 1) : k \in DOMAIN s /\ s[k] = t[k]
        /\ i \in DOMAIN s => s[i] < t[i]

AtMost(s, t) == s = t \/ Less(s, t)

-----------------------------------------------------------------------------
(* The scan.                                                               *)

(* Mutant of UpperExclusiveBound: the tail is kept.                        *)
UpperExclusiveBoundUncut(s) ==
    LET Free == {i \in DOMAIN s : s[i] < MaxByte}
        last == CHOOSE i \in Free : \A k \in Free : k <= i
    IN  IF Free = {} THEN s ELSE [s EXCEPT ![last] = @ + 1]

UpperExclusiveBound(s) ==
    LET Free == {i \in DOMAIN s : s[i] < MaxByte}
        last == CHOOSE i \in Free : \A k \in Free : k <= i
    IN  IF Free = {} THEN s ELSE Append(SubSeq(s, 1, last - 1), s[last] + 1)

-----------------------------------------------------------------------------
(* Keys.  A link is a host, as labels, and a path that starts with a       *)
(* slash; scheme, user, port and fragment do not reach a key.              *)

Join(parts, sep) ==
    LET text[i \in 0..Len(parts)] ==
            IF i = 0 THEN <<>>
            ELSE IF i = 1 THEN parts[1] ELSE text[i - 1] \o <<sep>> \o parts[i]
    IN  text[Len(parts)]

Split(text, sep) ==
    LET parts[i \in 0..Len(text)] ==
            IF i = 0 THEN << <<>> >>
            ELSE LET before == parts[i - 1]
                 IN  IF text[i] = sep THEN Append(before, <<>>)
                     ELSE [before EXCEPT ![Len(before)] = Append(@, text[i])]
    IN  parts[Len(text)]

DropLastSlash(text) ==
    IF text # <<>> /\ Last(text) = Slash THEN Front(text) ELSE text

\* Parsing: the host ends at the first slash, and its last dot is dropped; an empty label
\* makes it invalid.
FromText(text) ==
    LET slash  == SelectInSeq(text, LAMBDA b : b = Slash)
        host   == IF slash = 0 THEN text ELSE SubSeq(text, 1, slash - 1)
        labels == Split(IF host # <<>> /\ Last(host) = Dot THEN Front(host) ELSE host, Dot)
    IN  IF <<>> \in ToSet(labels) THEN None
        ELSE [host |-> labels,
              path |-> IF slash = 0 THEN <<Slash>> ELSE SubSeq(text, slash, Len(text))]

\* The link as text without its scheme.
ToKey(link) == DropLastSlash(Join(link.host, Dot) \o link.path)

\* The host reversed, then the path.
MakePrefixKey(link) == Join(Reverse(link.host), Dot) \o DropLastSlash(link.path)

\* A label of the tree holds at most LabelMax bytes; a longer segment takes several labels.
EncodedSegment(bytes) ==
    IF bytes = <<>> THEN << <<"x">> >>
    ELSE [i \in 1..((Len(bytes) + LabelMax - 1) \div LabelMax) |->
             <<"x">> \o SubSeq(bytes, (i - 1) * LabelMax + 1,
                               IF i * LabelMax < Len(bytes) THEN i * LabelMax ELSE Len(bytes))]

EncodedSegments(parts) ==
    LET out[i \in 0..Len(parts)] ==
            IF i = 0 THEN <<>> ELSE out[i - 1] \o EncodedSegment(parts[i])
    IN  out[Len(parts)]

MakePrefixTree(key) ==
    LET slash == SelectInSeq(key, LAMBDA b : b = Slash)
        host  == IF slash = 0 THEN key ELSE SubSeq(key, 1, slash - 1)
    IN  << <<"h">> >> \o EncodedSegments(Split(host, Dot))
        \o (IF slash = 0 THEN <<>>
            ELSE << <<"p">> >> \o EncodedSegments(Split(SubSeq(key, slash + 1, Len(key)), Slash)))

\* ltree's <@, by which links are denied, allowed and purged.
Under(tree, prefixTree) == IsPrefix(prefixTree, tree)

-----------------------------------------------------------------------------
(* What they should amount to.                                             *)

\* The texts from a prefix up to its bound are exactly the texts that start with it.
BoundIsExact(Texts) ==
    \A p, s \in Texts :
        (\E i \in DOMAIN p : p[i] < MaxByte) =>
            ((AtMost(p, s) /\ Less(s, UpperExclusiveBound(p))) <=> IsPrefix(p, s))

\* A link has one key with and without its last slash, and parsing the key gives a link
\* with that key, so that what a listing shows can be asked for again: but for a path that
\* ends with two slashes, of which each parse takes one.
KeyIsStable(L) ==
    \A l \in L :
        Last(l.path) # Slash \/ Len(l.path) = 1 \/ Last(Front(l.path)) # Slash =>
            /\ ToKey(l) = ToKey([l EXCEPT !.path = DropLastSlash(@)])
            /\ FromText(ToKey(l)) # None /\ ToKey(FromText(ToKey(l))) = ToKey(l)

\* The segments of a path: none for the root.
Segments(link) ==
    IF link.path = <<Slash>> THEN <<>> ELSE Split(Tail(DropLastSlash(link.path)), Slash)

\* A prefix without a path covers its host and the hosts below it, one with a path covers
\* what is below that path on the same host, segment by segment.
Below(l, p) ==
    IF Segments(p) = <<>> THEN IsPrefix(Reverse(p.host), Reverse(l.host))
    ELSE l.host = p.host /\ IsPrefix(Segments(p), Segments(l))

\* The tree never misses a link below a prefix.  It takes in others only when a segment of
\* the prefix fills a label: a label does not tell the end of a segment from a cut in it.
TreeIsSegmentwise(L) ==
    LET Tree == [l \in L |-> MakePrefixTree(MakePrefixKey(l))]
    IN  \A l, p \in L :
            /\ Below(l, p) => Under(Tree[l], Tree[p])
            /\ Under(Tree[l], Tree[p]) =>
                  Below(l, p) \/ \E s \in ToSet(Segments(p)) : Len(s) >= LabelMax

\* Texts and links to look at.
SomeTexts == BoundedSeq(Bytes, BoundLength)
SomeLinks ==
    [host: {<< <<MaxByte>> >>, << <<MaxByte>>, <<MaxByte>> >>, << <<Slash + 1>>, <<MaxByte>> >>},
     path: {<<Slash>> \o t : t \in BoundedSeq({Slash, MaxByte}, PathLength)}]
=============================================================================
