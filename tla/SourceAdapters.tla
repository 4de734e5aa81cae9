----------------------------- MODULE SourceAdapters -----------------------------
(***************************************************************************)
(* What the adapters of the sources share.  A name in source code is the   *)
(* sequence of its parts between underscores, so a private one starts with *)
(* an empty part; a text is the sequence of its words.                     *)
(***************************************************************************)
EXTENDS Integers, Sequences, SequencesExt

CONSTANT None

Private(name) == name[1] = ""

\* Each member of a sequence, put through an operator.
Each(f(_), s) == [i \in 1..Len(s) |-> f(s[i])]

\* The members of a sequence that pass a test.
Keep(s, test(_)) == FlattenSeq([i \in 1..Len(s) |-> IF test(s[i]) THEN <<s[i]>> ELSE <<>>])

\* A loop over a sequence: what becomes of start when the step is taken for each
\* member in turn.
Steps(step(_, _), start, s) ==
    LET after[n \in 0..Len(s)] == IF n = 0 THEN start ELSE step(after[n - 1], s[n])
    IN after[Len(s)]
=============================================================================
