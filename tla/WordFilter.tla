----------------------------- MODULE WordFilter -----------------------------
(***************************************************************************)
(* The word filter of misc/co_wordfilter.c: a trie whose nodes keep their  *)
(* children in a vector that is sorted by character and searched by        *)
(* halves. Deleting a word leaves its nodes, and only takes the mark off   *)
(* the last. A text is a sequence of characters, one of which, Bad, stands *)
(* for bytes that coutf8_decode refuses.                                   *)
(***************************************************************************)
EXTENDS Integers, Sequences, FiniteSets, SequencesExt

CONSTANTS Width,    \* the characters, positive numbers, and the bytes of each
          Words,    \* words that are added and deleted
          Files,    \* files of words: [lines, newline], newline if it ends with one
          WordSize, \* bytes of the buffer of cowf_loadwords, 256
          Texts,    \* texts that are filtered
          Masks     \* characters that words are overwritten with, of one byte

ASSUME WordFilterAssumption ==
  /\ Width \in [DOMAIN Width -> Nat \ {0}] /\ DOMAIN Width \subseteq Nat
  /\ \A word \in Words : word \in Seq(DOMAIN Width)
  /\ \A file \in Files : file.lines \in Seq(Seq(DOMAIN Width))
  /\ WordSize \in Nat /\ WordSize > 2
  /\ \A text \in Texts : text \in Seq(DOMAIN Width)
  /\ \A ch \in Masks : ch \in DOMAIN Width /\ Width[ch] = 1

VARIABLES chvec,    \* of every node (which is the path to it) the characters of its children
          isend,    \* the nodes where a word ends
          added,    \* history: the words that should be in the filter
          whole     \* history: no file that was loaded had a line that is not read as it is

wfvars == <<chvec, isend, added, whole>>

-----------------------------------------------------------------------------
Bad == 0

\* What coutf8_decode makes of a text before it fails.
Decoded(text) == LET bad == {i \in DOMAIN text : text[i] = Bad}
                 IN  IF bad = {} THEN text ELSE SubSeq(text, 1, Min(bad) - 1)

\* A turn of the search in _cowf_find_child; the elements of vec are counted from 0.
Turn(vec, code, s) ==
  LET mid == (s.high + s.low) \div 2
      node == vec[mid + 1]
  IN  IF s.found \/ s.low > s.high THEN s
      ELSE [low   |-> IF code > node THEN mid + 1 ELSE s.low,
            high  |-> IF code < node THEN mid - 1 ELSE s.high,
            mid   |-> mid,
            found |-> code = node]

\* Where code is in vec, or else where to insert it. No search takes more turns than
\* there are elements.
_cowf_find_child(vec, code) ==
  LET after[i \in 0 .. Len(vec)] ==
        IF i = 0 THEN [low |-> 0, high |-> Len(vec) - 1, mid |-> 0, found |-> FALSE]
        ELSE Turn(vec, code, after[i - 1])
      end == after[Len(vec)]
      here == end.found \/ vec = <<>> \/ code < vec[end.mid + 1]
  IN  [found |-> end.found, index |-> IF here THEN end.mid ELSE end.mid + 1]

\* Faulty variant: inserted where the search ended.
_cowf_insert_child_AtMid(children, parent, code) ==
  LET at == _cowf_find_child(children[parent], code)
      child == Append(parent, code)
  IN  IF at.found THEN children
      ELSE [n \in DOMAIN children \cup {child} |->
              IF n = child THEN <<>>
              ELSE IF n = parent
              THEN InsertAt(children[n], Len(children[n]) \div 2 + 1, code)
              ELSE children[n]]

_cowf_insert_child(children, parent, code) ==
  LET at == _cowf_find_child(children[parent], code)
      child == Append(parent, code)
  IN  IF at.found THEN children
      ELSE [n \in DOMAIN children \cup {child} |->
              IF n = child THEN <<>>
              ELSE IF n = parent THEN InsertAt(children[n], at.index + 1, code)
              ELSE children[n]]

\* Does a path lead to a node? _cowf_get_lastchild follows it a child at a time.
Reached(path) == \A i \in DOMAIN path :
                   _cowf_find_child(chvec[SubSeq(path, 1, i - 1)], path[i]).found

HasRoot == chvec # << >>

\* A decoding error makes _cowf_get_lastchild return NULL, and so does the empty word.
_cowf_get_lastchild(word) == HasRoot /\ word # <<>> /\ Decoded(word) = word /\ Reached(word)

-----------------------------------------------------------------------------
\* The nodes after cowf_addword; the root is made before the word is looked at.
WithWord(children, word) ==
  LET rooted == IF children = << >> THEN [n \in {<<>>} |-> <<>>] ELSE children
      path == Decoded(word)
      upto[i \in 0 .. Len(path)] ==
        IF i = 0 THEN rooted
        ELSE _cowf_insert_child(upto[i - 1], SubSeq(path, 1, i - 1), path[i])
  IN  upto[Len(path)]

\* The word that is marked: what was decoded, if anything.
Marked(word) == {Decoded(word)} \ {<<>>}

\* Of a text, the bytes of its first i characters.
BytesOfFirst(text) ==
  LET upto[i \in 0 .. Len(text)] == IF i = 0 THEN 0 ELSE upto[i - 1] + Width[text[i]]
  IN  upto

Bytes(text) == BytesOfFirst(text)[Len(text)]

\* Bytes of a line: fgets keeps the newline.
LineLength(file, i) ==
  Bytes(file.lines[i]) + (IF i < Len(file.lines) \/ file.newline THEN 1 ELSE 0)

\* fgets leaves room for the terminating zero.
Room == WordSize - 1

\* What can be decoded of the k-th read of a line. A character that does not fit into the
\* buffer is cut, and no part of it is decoded: it ends its read, and the next has nothing.
Read(line, k) ==
  LET bytes == BytesOfFirst(line)
      from == (k - 1) * Room
      inside == {j \in DOMAIN line : from <= bytes[j - 1] /\ bytes[j] <= from + Room}
      cut == \E j \in DOMAIN line : bytes[j - 1] < from /\ from < bytes[j]
  IN  IF cut \/ inside = {} THEN <<>> ELSE SubSeq(line, Min(inside), Max(inside))

\* The reads of a line that are added. One of a single byte, which would be the last, is
\* taken for an empty line, even if the byte is no newline but the end of a file.
Reads(file, i) ==
  [k \in 1 .. (LineLength(file, i) + Room - 2) \div Room |-> Read(file.lines[i], k)]

\* Every line is read at once, and what is read is added.
ReadWhole(file) ==
  \A i \in DOMAIN file.lines :
    Bytes(file.lines[i]) <= Room /\ (Bytes(file.lines[i]) = 1 => LineLength(file, i) = 2)

\* The nodes after some words, and after the lines of a file.
WithWords(children, words) ==
  LET upto[k \in 0 .. Len(words)] ==
        IF k = 0 THEN children ELSE WithWord(upto[k - 1], words[k])
  IN  upto[Len(words)]

WithLines(children, file) ==
  LET upto[i \in 0 .. Len(file.lines)] ==
        IF i = 0 THEN children ELSE WithWords(upto[i - 1], Reads(file, i))
  IN  upto[Len(file.lines)]

WFInit == chvec = << >> /\ isend = {} /\ added = {} /\ whole = TRUE

cowf_addword(word) == /\ chvec' = WithWord(chvec, word)
                      /\ isend' = isend \cup Marked(word)
                      /\ added' = added \cup Marked(word)
                      /\ UNCHANGED whole

\* Every line is a word of the filter (co_wordfilter.h:19), what is marked is what was read.
cowf_loadwords(file) ==
  LET lines == DOMAIN file.lines
  IN  /\ chvec' = WithLines(chvec, file)
      /\ isend' = isend \cup UNION {UNION {Marked(Reads(file, i)[k]) : k \in DOMAIN Reads(file, i)} :
                                     i \in lines}
      /\ added' = added \cup UNION {Marked(file.lines[i]) : i \in lines}
      /\ whole' = (whole /\ ReadWhole(file))

cowf_delword(word) == /\ isend' = IF _cowf_get_lastchild(word) THEN isend \ {word} ELSE isend
                      /\ added' = added \ {word}
                      /\ UNCHANGED <<chvec, whole>>

cowf_clear == chvec' = << >> /\ isend' = {} /\ added' = {} /\ whole' = TRUE

WFNext == \/ \E word \in Words : cowf_addword(word) \/ cowf_delword(word)
          \/ \E file \in Files : cowf_loadwords(file)
          \/ cowf_clear

WFSpec == WFInit /\ [][WFNext]_wfvars

-----------------------------------------------------------------------------
cowf_exist(word) == _cowf_get_lastchild(word) /\ word \in isend

\* Where the first word to end, of those that start at from, ends; 0 if there is none.
\* The walk goes down a child at a time and stops at a character that has none.
_cowf_check_word(text, from) ==
  LET ends == {i \in from .. Len(text) :
                 LET path == SubSeq(text, from, i)
                 IN  Decoded(path) = path /\ Reached(path) /\ path \in isend}
  IN  IF ends = {} THEN 0 ELSE Min(ends)

\* The text after cowf_fitler, from a character on: every byte of a word is overwritten.
\* Beyond the text there is nothing.
Filtered(text, ch) ==
  LET from[p \in 1 .. Len(text) + 1] ==
        LET e == _cowf_check_word(text, p)
        IN  IF p > Len(text) THEN <<>>
            ELSE IF e > 0
            THEN [i \in 1 .. Bytes(SubSeq(text, p, e)) |-> ch] \o from[e + 1]
            ELSE IF text[p] = Bad THEN SubSeq(text, p, Len(text))
            ELSE <<text[p]>> \o from[p + 1]
  IN  from[1]

cowf_fitler(text, ch) == IF HasRoot THEN Filtered(text, ch) ELSE text

cowf_check(text) == HasRoot /\ \E p \in 1 .. Len(Decoded(text)) : _cowf_check_word(text, p) > 0

-----------------------------------------------------------------------------
\* A text has a word of the filter.
Has(text) == \E word \in added : \E i \in 0 .. Len(text) - Len(word) :
               SubSeq(text, i + 1, i + Len(word)) = word

\* A word of the filter has the character.
InAWord(ch) == \E word \in added : ch \in ToSet(word)

\* In whatever order words were added, loaded and deleted, no matter which of them are
\* parts of others, and as long as no line of a file was too long or a single last byte:
\* exactly the words of the filter exist; a text is found to have one when it has one
\* before its first undecodable byte; a text without one is left as it is; and filtered
\* with a character that is in no word, one that had a word is changed and has none left.
\* (Of a word that is not well-formed, the filter has what precedes the undecodable byte.
\* Without `whole` it is false: a file of one line, of one byte and without a newline, loads
\* nothing, where co_wordfilter.h:19 has one keyword on each line.)
FilterExact ==
  whole =>
    /\ \A word \in Words : cowf_exist(word) <=> word \in added
    /\ \A text \in Texts :
         LET has == Has(Decoded(text))
         IN  /\ cowf_check(text) <=> has
             /\ \A ch \in Masks :
                  LET filtered == cowf_fitler(text, ch)
                  IN  /\ ~ has => filtered = text
                      /\ ~ InAWord(ch) => /\ ~ cowf_check(filtered)
                                          /\ has => filtered # text
=============================================================================
