------------------------------ MODULE Folding -------------------------------
(* The loop over a log that replay(), railState() and makeStore() have in common. *)
EXTENDS Integers, Sequences

\* The fold of a sequence from its oldest element on; a function of the prefix,
\* which TLC evaluates faster than FoldLeft of SequencesExt.
fold(Step(_, _), first, es) ==
  LET upTo[i \in 0..Len(es)] == IF i = 0 THEN first ELSE Step(upTo[i - 1], es[i])
  IN  upTo[Len(es)]
=============================================================================
