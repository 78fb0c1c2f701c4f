------------------------------ MODULE Chunking ------------------------------
(* How the text of a document is cut into chunks (services/ingestion.py): by  *)
(* paragraphs, their sentences and, where these are too long, by length; or   *)
(* by ever smaller separators; and then with an overlap.  A string is the     *)
(* sequence of its characters, and an offset counts from zero, as in the code.*)
EXTENDS Naturals, Sequences, FiniteSets, SequencesExt

CONSTANTS
  MaxText,   \* the longest text
  Sizes,     \* chunk_size, 64 to 10,000 in the service
  Overlaps   \* chunk_overlap

VARIABLES text, config, chunks
chunkingVars == <<text, config, chunks>>

Blanks == {" ", "\n"}
Chars == {"x", "."} \cup Blanks
Strategies == {"paragraph", "recursive"}
NoConfig == [strategy |-> "none", size |-> 1, overlap |-> 0]

TypeOK ==
  /\ text \in Seq(Chars)
  /\ config \in {NoConfig} \cup [strategy : Strategies, size : Sizes, overlap : Overlaps]
  /\ \A i \in DOMAIN chunks : chunks[i].text \in Seq(Chars) /\ {chunks[i].from, chunks[i].to} \subseteq Nat

Init == text \in BoundedSeq(Chars, MaxText) /\ config = NoConfig /\ chunks = <<>>

---------------------------------------------------------------------------
(* Strings.                                                                   *)

Visible(s) == SelectSeq(s, LAMBDA c : c \notin Blanks)
IsBlank(s) == Visible(s) = <<>>
Leading(s) == CHOOSE n \in 0..Len(s) :
  (\A i \in 1..n : s[i] \in Blanks) /\ (n < Len(s) => s[n + 1] \notin Blanks)
Strip(s) ==
  LET right == Reverse(SubSeq(s, Leading(s) + 1, Len(s)))
  IN  Reverse(SubSeq(right, Leading(right) + 1, Len(right)))

\* str.find: the first offset from "start" on, or the length plus one.
Find(s, t, start) ==
  LET at == {i \in start..(Len(s) - Len(t)) : SubSeq(s, i + 1, i + Len(t)) = t}
  IN  IF Len(t) > Len(s) \/ at = {} THEN Len(s) + 1 ELSE CHOOSE i \in at : \A j \in at : i <= j

RECURSIVE Split(_, _)
Split(s, sep) ==
  LET at == Find(s, sep, 0) IN
  IF at > Len(s) THEN <<s>>
  ELSE <<SubSeq(s, 1, at)>> \o Split(SubSeq(s, at + Len(sep) + 1, Len(s)), sep)

Chunk(segment, start) ==
  LET stripped == Strip(segment)
      from == start + Leading(segment)
  IN  [text |-> stripped, from |-> from, to |-> from + Len(stripped)]
Flushed(current, start) == IF IsBlank(current) THEN <<>> ELSE <<Chunk(current, start)>>

---------------------------------------------------------------------------
(* The paragraph strategy.                                                    *)

\* _split_oversized_sentence: pieces of the full length, blank ones too, and a
\* last one to go on with.
OfSentence(s, start, size) ==
  LET n == (Len(s) - 1) \div size
  IN  [chunks |-> [i \in 1..n |-> Chunk(SubSeq(s, (i - 1) * size + 1, i * size), start + (i - 1) * size)],
       carry |-> SubSeq(s, n * size + 1, Len(s)), start |-> start + n * size]

\* One part after another joins what is carried while it fits; else that is a
\* chunk, and the part is carried, or what its cut leaves of it.
Packed(acc, part, start, glue, size, cut) ==
  IF Len(acc.carry) + Len(part) + Len(glue) <= size
    THEN IF acc.carry # <<>> THEN [acc EXCEPT !.carry = @ \o glue \o part]
         ELSE [acc EXCEPT !.carry = part, !.start = start]
  ELSE LET done == acc.chunks \o Flushed(acc.carry, acc.start)
           rest == IF Len(part) > size THEN cut ELSE [chunks |-> <<>>, carry |-> part, start |-> start]
       IN  [acc EXCEPT !.chunks = done \o rest.chunks, !.carry = rest.carry, !.start = rest.start]

Fresh(cursor) == [chunks |-> <<>>, carry |-> <<>>, start |-> 0, cursor |-> cursor]

\* _split_oversized_paragraph
OfParagraph(para, start, size) ==
  LET parts == Split(para, <<".", " ">>)
      ended == [i \in DOMAIN parts |-> IF i < Len(parts) THEN Append(parts[i], ".") ELSE parts[i]]
      sentences == FlattenSeq([i \in DOMAIN ended |-> Split(ended[i], <<"\n">>)])
      Add(acc, sentence) ==
        LET at == Find(para, sentence, acc.cursor - start)
            here == IF at > Len(para) THEN acc.cursor ELSE start + at
            cut == OfSentence(sentence, here, size)
        IN  [Packed(acc, sentence, here, <<" ">>, size, cut) EXCEPT !.cursor = here + Len(sentence)]
  IN  FoldLeft(Add, Fresh(start), sentences)

\* _paragraph_chunks
ParagraphChunks(s, size) ==
  LET Add(acc, raw) ==
        LET at == Find(s, raw, acc.cursor)
            para == Strip(raw)
            start == at + Leading(raw)
        IN  [Packed(acc, para, start, <<"\n", "\n">>, size, OfParagraph(para, start, size))
               EXCEPT !.cursor = at + Len(raw)]
      last == FoldLeft(Add, Fresh(0), SelectSeq(Split(s, <<"\n", "\n">>), LAMBDA p : ~IsBlank(p)))
  IN  last.chunks \o Flushed(last.carry, last.start)

---------------------------------------------------------------------------
(* The recursive strategy.                                                    *)

Separators == <<<<"\n", "\n">>, <<"\n">>, <<".", " ">>, <<" ">>, <<>>>>

RECURSIVE Pieces(_, _, _, _)
Pieces(s, offset, seps, size) ==
  IF Len(s) <= size \/ seps = <<>> THEN Flushed(s, offset)
  ELSE IF Head(seps) = <<>>
    THEN LET Cut(acc, i) == acc \o Flushed(SubSeq(s, i * size + 1, IF (i + 1) * size < Len(s) THEN (i + 1) * size ELSE Len(s)),
                                           offset + i * size)
         IN  FoldLeft(Cut, <<>>, [i \in 1..((Len(s) - 1) \div size + 1) |-> i - 1])
  ELSE LET parts == Split(s, Head(seps))
           pieces == [i \in DOMAIN parts |-> IF i < Len(parts) THEN parts[i] \o Head(seps) ELSE parts[i]]
           Out(acc) == IF acc.carry = <<>> THEN acc.chunks
                       ELSE acc.chunks \o Pieces(acc.carry, acc.start, Tail(seps), size)
           Add(acc, piece) ==
             LET fits == Len(acc.carry) + Len(piece) <= size
                 base == IF fits THEN acc ELSE [acc EXCEPT !.chunks = Out(acc), !.carry = <<>>]
             IN  [base EXCEPT !.carry = @ \o piece,
                              !.start = IF base.carry = <<>> THEN acc.cursor ELSE @,
                              !.cursor = @ + Len(piece)]
       IN  Out(FoldLeft(Add, Fresh(offset), pieces))

RecursiveChunks(s, size) == IF IsBlank(s) THEN <<>> ELSE Pieces(s, 0, Separators, size)

---------------------------------------------------------------------------
(* The overlap.                                                               *)

(* Mutant of Tails: one character too many.                                   *)
TailsTooLong(s, overlap) == SubSeq(s, IF Len(s) > overlap THEN Len(s) - overlap ELSE 1, Len(s))

\* What a chunk takes from its predecessor: its last characters, from the first
\* word that begins there.
Tails(s, overlap) == SubSeq(s, IF Len(s) > overlap THEN Len(s) - overlap + 1 ELSE 1, Len(s))
Words(tail) ==
  LET at == Find(tail, <<" ">>, 0) IN IF at > Len(tail) THEN tail ELSE SubSeq(tail, at + 2, Len(tail))

\* _apply_overlap
Overlapped(raw, overlap) ==
  [i \in DOMAIN raw |->
     IF overlap = 0 \/ i = 1 THEN raw[i]
     ELSE LET tail == Tails(raw[i - 1].text, overlap)
              words == Words(tail)
              back == Len(tail) + IF words = <<>> THEN 0 ELSE 1
          IN  [raw[i] EXCEPT !.text = IF words = <<>> THEN @ ELSE words \o <<" ">> \o @,
                             !.from = IF @ > back THEN @ - back ELSE 0]]

Chunked(s, strategy, size) ==
  IF strategy = "recursive" THEN RecursiveChunks(s, size) ELSE ParagraphChunks(s, size)

\* chunk_document
ChunkDocument ==
  /\ config = NoConfig
  /\ \E strategy \in Strategies, size \in Sizes, overlap \in Overlaps :
       /\ config' = [strategy |-> strategy, size |-> size, overlap |-> overlap]
       /\ chunks' = Overlapped(Chunked(text, strategy, size), overlap)
  /\ UNCHANGED text

Next == ChunkDocument

---------------------------------------------------------------------------
(* Properties.                                                                *)

Done == config # NoConfig
Raw == Chunked(text, config.strategy, config.size)
Joined(parts) == FoldLeft(LAMBDA s, c : s \o Visible(c.text), <<>>, parts)
Slice(c) == SubSeq(text, c.from + 1, c.to)

\* No visible character of the text is lost, doubled or moved by the cutting,
\* and no chunk is longer than chunk_size; an overlap adds at most its own
\* length and a blank, in front, of what the chunk before ends with.
NothingLost ==
  Done =>
    /\ Joined(Raw) = Visible(text)
    /\ \A i \in DOMAIN Raw : Len(Raw[i].text) <= config.size
    /\ Len(chunks) = Len(Raw)
    /\ \A i \in DOMAIN chunks :
         LET added == Len(chunks[i].text) - Len(Raw[i].text) IN
         /\ added <= config.overlap + 1
         /\ SubSeq(chunks[i].text, added + 1, Len(chunks[i].text)) = Raw[i].text
         /\ added > 0 => IsSuffix(SubSeq(chunks[i].text, 1, added - 1), Raw[i - 1].text)

\* A chunk is empty only where the text has blanks enough to fill one.
EmptyHasCause ==
  Done =>
    \A i \in DOMAIN Raw : Raw[i].text = <<>> =>
      /\ config.strategy = "paragraph"
      /\ \E j \in 0..(Len(text) - config.size) : IsBlank(SubSeq(text, j + 1, j + config.size))

\* A text with single blanks, and blank lines between paragraphs.
Plain ==
  \A i \in 1..(Len(text) - 1) : {text[i], text[i + 1]} \subseteq Blanks =>
    /\ text[i] = "\n" /\ text[i + 1] = "\n"
    /\ i + 2 <= Len(text) => text[i + 2] \notin Blanks

\* The offsets come in order and enclose the chunk: those of the recursive
\* strategy exactly, those of the paragraph strategy in plain texts.  The overlap
\* moves none of the ends.
OffsetsSound ==
  Done =>
    /\ \A i, j \in DOMAIN Raw : i < j => Raw[i].from <= Raw[j].from
    /\ \A i \in DOMAIN Raw :
         /\ config.strategy = "recursive" => Slice(Raw[i]) = Raw[i].text
         /\ config.strategy = "paragraph" /\ Plain => Visible(Slice(Raw[i])) = Visible(Raw[i].text)
         /\ chunks[i].from <= Raw[i].from /\ chunks[i].to = Raw[i].to

\* All of it.
ChunksSound == NothingLost /\ EmptyHasCause /\ OffsetsSound
=============================================================================
