------------------------------ MODULE Segmenter ------------------------------
(***************************************************************************)
(* Segment (viking/segment.go): the tokens of a text.  A text is a         *)
(* sequence of characters: Chinese ones, which are cut by the longest word *)
(* of the dictionary that begins there; the characters of Words, each of   *)
(* which stands for a run of letters and digits, never beside another, and *)
(* gives its stem; and others, which separate.                             *)
(***************************************************************************)
EXTENDS Naturals, Sequences

CONSTANTS
  Han,           \* Chinese characters
  Words, Stem,   \* runs of letters and digits, and porterStem of each
  Dict           \* dictionary: sequences of Han

MinLength(a, b) == IF a < b THEN a ELSE b

(* NewSegmenter: the longest word, and never less than four. *)
MaxLength == CHOOSE n \in {4} \cup {Len(d) : d \in Dict} : \A d \in Dict : n >= Len(d) /\ n >= 4

(* The length of the longest word of the dictionary at i, or one.  Letters *)
(* stop no match, but no word of the dictionary mixes them with Han.       *)
MatchAt(text, i) ==
  LET fits == {n \in 1..MinLength(MaxLength, Len(text) - i + 1) : SubSeq(text, i, i + n - 1) \in Dict}
  IN  IF fits = {} THEN 1 ELSE CHOOSE n \in fits : \A m \in fits : m <= n

(* The tokens that begin at each character of a text, in the order of a    *)
(* reader that goes on behind what it has read.                            *)
Walk(tokens, width) ==
  LET from[i \in 1..(Len(tokens) + 1)] ==
        IF i > Len(tokens) THEN <<>> ELSE tokens[i] \o from[i + width[i]]
  IN  from[1]

TokensAt(text, i) ==
  IF text[i] \in Han THEN <<SubSeq(text, i, i + MatchAt(text, i) - 1)>>
  ELSE IF text[i] \in Words THEN <<<<Stem[text[i]]>>>> ELSE <<>>

Width(text, i) == IF text[i] \in Han THEN MatchAt(text, i) ELSE 1

Segment(text) ==
  Walk([i \in 1..Len(text) |-> TokensAt(text, i)], [i \in 1..Len(text) |-> Width(text, i)])

(* tokenize (viking/search.go): every Chinese character is a token. *)
Tokenize(text) ==
  Walk([i \in 1..Len(text) |-> IF text[i] \in Han \cup Words THEN <<text[i]>> ELSE <<>>],
       [i \in 1..Len(text) |-> 1])
=============================================================================
