---------------------------- MODULE TextSplitter ----------------------------
(***************************************************************************)
(* FixedSizeSplitter (components/text_splitters/fixed_size_splitter.py).   *)
(* A text is a sequence of truth values, TRUE for a blank; positions in it *)
(* start at 0 and a chunk is the pair of its start and its end.  One step  *)
(* is one chunk that iter_chunks yields.                                   *)
(***************************************************************************)
EXTENDS Integers, Sequences, FiniteSetsExt, SequencesExt

VARIABLES
    spans,         \* the chunks so far
    nextStart,     \* approximate_start
    skipAdjust,    \* skip_adjust_chunk_start
    splitting      \* "running", "done" or "failed" (an IndexError)

splitterVars == <<spans, nextStart, skipAdjust, splitting>>

Blank(text, i) == text[i + 1]

AdjustChunkStart(text, i) ==
    LET stops == {j \in 1..i : Blank(text, j - 1)}
    IN  IF i = 0 \/ stops = {} \/ Blank(text, i) THEN i ELSE Max(stops)

\* Mutant: the end of a chunk is left where it falls.
CutAnywhere(text, start, i) == i

AdjustChunkEnd(text, start, i) ==
    LET stops == {j \in (start + 1)..i : Blank(text, j) \/ Blank(text, j - 1)}
    IN  IF i = Len(text) \/ stops = {} THEN i ELSE Max(stops)

SplitterValid(size, overlap) == size > 0 /\ overlap < size

\* Mutant: the start of the next chunk is taken as it comes.
AdvanceByStep(start, at, step) == start + step

\* A start that was moved back by a step or more must not stop the advance.
Advance(start, at, step) ==
    IF start + step <= at THEN at + step ELSE start + step

SplitterInit ==
    /\ spans = <<>> /\ nextStart = 0
    /\ skipAdjust = FALSE /\ splitting = "running"

CurrentEnd == IF spans = <<>> THEN 0 ELSE Last(spans)[2]
AdjustsStart(approximate) == approximate /\ ~skipAdjust /\ nextStart > 0

NextChunk(text, size, overlap, approximate) ==
    /\ splitting = "running" /\ CurrentEnd < Len(text)
    /\ ~(AdjustsStart(approximate) /\ nextStart >= Len(text))
    /\ LET start == IF AdjustsStart(approximate)
                    THEN AdjustChunkStart(text, nextStart) ELSE nextStart
           fixedEnd == Min({start + size, Len(text)})
           end == IF approximate THEN AdjustChunkEnd(text, start, fixedEnd)
                  ELSE fixedEnd
       IN  /\ spans' = Append(spans, <<start, end>>)
           /\ skipAdjust' = (approximate /\ end = fixedEnd)
           /\ nextStart' = Advance(start, nextStart, size - overlap)
    /\ UNCHANGED splitting

\* text[approximate_start] behind the end of the text.
SplitterFails(text, approximate) ==
    /\ splitting = "running" /\ CurrentEnd < Len(text)
    /\ AdjustsStart(approximate) /\ nextStart >= Len(text)
    /\ splitting' = "failed"
    /\ UNCHANGED <<spans, nextStart, skipAdjust>>

SplitterDone(text) ==
    /\ splitting = "running" /\ CurrentEnd >= Len(text)
    /\ splitting' = "done"
    /\ UNCHANGED <<spans, nextStart, skipAdjust>>

-----------------------------------------------------------------------------
Words(text) ==
    {w \in (0..Len(text)) \X (0..Len(text)) :
        /\ w[1] < w[2]
        /\ \A i \in w[1]..(w[2] - 1) : ~Blank(text, i)
        /\ w[1] = 0 \/ Blank(text, w[1] - 1)
        /\ w[2] = Len(text) \/ Blank(text, w[2])}

\* A start that falls in such a word may be moved back by a step or more.
WordsBeyond(text, step) == {w \in Words(text) : w[1] > 0 /\ w[2] - w[1] > step}

\* The part of a text from start to end is whole in some chunk.
InOneChunk(start, end) ==
    \E i \in DOMAIN spans : spans[i][1] <= start /\ end <= spans[i][2]
=============================================================================
