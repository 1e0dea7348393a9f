----------------------------- MODULE TextChunks -----------------------------
(***************************************************************************)
(* How long texts are cut for a model: _split_into_chunks and              *)
(* summarize_transcript of summarize.py, and the three methods of the step *)
(* transform.text_split.  A text is a sequence of the characters that the  *)
(* cuts tell apart: "c" stands for a letter, "." for an end of sentence,   *)
(* " " for a blank and "n" for a newline.  A piece is <<start, end>>, the  *)
(* slice text[start:end] of Python, counted from 0.                        *)
(***************************************************************************)
EXTENDS Integers, Sequences, FiniteSets
LOCAL INSTANCE FiniteSetsExt
LOCAL INSTANCE SequencesExt

At(text, i) == text[i + 1]
IsBlank(text, i) == At(text, i) \in {" ", "n"}

\* Positions in text[start:end] of two characters in a row (for str.rfind).
Pairs(text, start, end, as, bs) ==
  {i \in start .. end - 2 : At(text, i) \in as /\ At(text, i + 1) \in bs}

HasText(text, p) == \E i \in p[1] .. p[2] - 1 : ~IsBlank(text, i)

\* [c for c in chunks if c.strip()]
NotBlank(text, pieces) == SelectSeq(pieces, LAMBDA p : HasText(text, p))

\* The end of the piece that begins at start: after the last paragraph break,
\* else after the last sentence, else at the size.
CutAt(text, max, start) ==
  LET end        == start + max
      paragraphs == {i \in Pairs(text, start, end, {"n"}, {"n"}) : i > start}
      sentences  == Pairs(text, start, end, {"."}, {" ", "n"})
  IN  IF end >= Len(text) THEN Len(text)
      ELSE IF paragraphs # {} THEN Max(paragraphs) + 2
      ELSE IF sentences # {} THEN Max(sentences) + 2
      ELSE end

\* Mutation: the overlap counts from the size, wherever the cut fell.
NextStart_FromSize(text, max, overlap, start) ==
  Max({start + 1, start + max - overlap})

NextStart(text, max, overlap, start) ==
  Max({start + 1, CutAt(text, max, start) - overlap})

\* _split_into_chunks
Chunks(text, max, overlap) ==
  LET effective == Min({overlap, max - 1})
      from[start \in 0 .. Len(text)] ==
        <<<<start, CutAt(text, max, start)>>>> \o
          (IF start + max >= Len(text) THEN <<>>
           ELSE from[NextStart(text, max, effective, start)])
  IN  IF Len(text) <= max THEN <<<<0, Len(text)>>>> ELSE NotBlank(text, from[0])

\* summarize_transcript: what is asked of the model, each time with a prompt
\* and a piece of the transcript, or with the answers so far (Answers).
Answers == <<0, 0>>
Requests(text, max, overlap, mode) ==
  LET chunks == Chunks(text, max, overlap)
  IN  IF max > 0 /\ Len(text) > max
      THEN [i \in DOMAIN chunks |-> <<"tldr", chunks[i]>>] \o <<<<mode, Answers>>>>
      ELSE <<<<mode, <<0, Len(text)>>>>>>

-----------------------------------------------------------------------------
\* Mutation: pieces of the size, one overlap apart from each other.
Fixed_Apart(text, size, overlap) ==
  LET count == Cardinality({k \in 0 .. Len(text) : k * (size + overlap) < Len(text)})
  IN  NotBlank(text, [k \in 1 .. count |->
        <<(k - 1) * (size + overlap), Min({Len(text), (k - 1) * (size + overlap) + size})>>])

\* _split_fixed
Fixed(text, size, overlap) ==
  LET step  == size - Max({0, Min({overlap, size - 1})})
      count == Cardinality({k \in 0 .. Len(text) : k * step < Len(text)})
  IN  NotBlank(text, [k \in 1 .. count |->
        <<(k - 1) * step, Min({Len(text), (k - 1) * step + size})>>])

\* Runs of blanks, as long as they are: what \s+ and \n\s*\n find.
Runs(text) ==
  {p \in (0 .. Len(text)) \X (0 .. Len(text)) :
     /\ p[1] < p[2]
     /\ \A i \in p[1] .. p[2] - 1 : IsBlank(text, i)
     /\ p[1] = 0 \/ ~IsBlank(text, p[1] - 1)
     /\ p[2] = Len(text) \/ ~IsBlank(text, p[2])}

ParagraphBreaks(text) ==
  {p \in Runs(text) : \E i, j \in p[1] .. p[2] - 1 : i # j /\ At(text, i) = "n" /\ At(text, j) = "n"}
SentenceBreaks(text) ==
  {p \in Runs(text) : p[1] > 0 /\ At(text, p[1] - 1) = "."}

\* re.split and strip: from break to break, without the blanks at both ends.
Between(text, breaks) ==
  LET inside(p) == p[1] < p[2] /\ ~IsBlank(text, p[1]) /\ ~IsBlank(text, p[2] - 1)
                     /\ \A b \in breaks : b[2] <= p[1] \/ p[2] <= b[1]
      pieces == {p \in (0 .. Len(text)) \X (0 .. Len(text)) : inside(p)}
  IN  SetToSortSeq({p \in pieces : \A q \in pieces : q[1] <= p[1] /\ p[2] <= q[2] => q = p},
                   LAMBDA p, q : p[1] < q[1])

\* The handler of the step; it fails on a text of blanks (None).  The text is
\* stripped before it is cut.
Split(text, method, size, overlap) ==
  IF method = "fixed" THEN IF size <= 0 THEN <<<<0, Len(text)>>>> ELSE Fixed(text, size, overlap)
  ELSE IF method = "sentence" THEN Between(text, SentenceBreaks(text))
  ELSE Between(text, ParagraphBreaks(text))

-----------------------------------------------------------------------------
Covers(text, pieces) ==
  \A i \in 0 .. Len(text) - 1 : ~IsBlank(text, i) =>
    \E k \in DOMAIN pieces : pieces[k][1] <= i /\ i < pieces[k][2]

\* However long a transcript is, what is asked of the model leaves out none of
\* its text, and no piece is longer than the configured limit; the pieces move
\* on through the text and share no more than the overlap with their
\* neighbours; a text that was cut is answered from the answers, at the end.
NoTextIsSkipped(text, max, overlap) ==
  LET requests == Requests(text, max, overlap, "full")
      pieces   == [k \in DOMAIN SelectSeq(requests, LAMBDA r : r[2] # Answers) |-> requests[k][2]]
  IN  /\ Covers(text, pieces)
      /\ requests[Len(requests)] \in {<<"full", Answers>>, <<"full", <<0, Len(text)>>>>}
      /\ max > 0 => \A k \in DOMAIN pieces : pieces[k][2] - pieces[k][1] <= max
      /\ \A k \in DOMAIN pieces \ {1} :
           /\ pieces[k - 1][1] < pieces[k][1]
           /\ pieces[k - 1][2] <= pieces[k][2]
           /\ pieces[k - 1][2] - pieces[k][1] <= overlap

\* Whatever the method, the pieces of a step hold all the text; those of a
\* fixed size fit it, and no sentence or paragraph is in two pieces.
StepKeepsTheText(text, size, overlap) ==
  /\ \A method \in {"sentence", "paragraph"} :
       LET pieces == Split(text, method, size, overlap)
       IN  /\ Covers(text, pieces)
           /\ \A k \in DOMAIN pieces \ {1} : pieces[k - 1][2] < pieces[k][1]
  /\ LET pieces == Split(text, "fixed", size, overlap)
     IN  /\ Covers(text, pieces)
         /\ size > 0 => \A k \in DOMAIN pieces : pieces[k][2] - pieces[k][1] <= size
=============================================================================
