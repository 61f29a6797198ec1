------------------------------- MODULE Absent -------------------------------
(***************************************************************************)
(* The value that stands for null, undefined and a missing field in the    *)
(* modules of pure functions, and the operators they share.                *)
(***************************************************************************)
EXTENDS Naturals, Sequences, SequencesExt, FiniteSets

CONSTANT None

\* value ?? fallback
OrElse(value, fallback) == IF value = None THEN fallback ELSE value

\* The image of a sequence under an operator.
Mapped(Op(_), s) == [i \in DOMAIN s |-> Op(s[i])]

\* The elements of s at the positions P, in their order.
At(s, P) ==
  LET at[n \in 0..Len(s)] ==
        IF n = 0 THEN <<>> ELSE IF n \in P THEN Append(at[n - 1], s[n]) ELSE at[n - 1] IN
  at[Len(s)]

\* filter(): the elements of s that satisfy a test, in their order.
Where(s, Test(_)) == At(s, {i \in DOMAIN s : Test(s[i])})

\* find(): the first element that satisfies a test.
FirstOf(s, Test(_)) ==
  LET found == {i \in DOMAIN s : Test(s[i])} IN IF found = {} THEN None ELSE s[Min(found)]

\* filter(): the elements of s that are in S, in their order.
Among(s, S) == FoldLeft(LAMBDA kept, v : IF v \in S THEN Append(kept, v) ELSE kept, <<>>, s)

\* The elements of s at the positions that satisfy a test of the position.
AtPositions(s, Test(_)) ==
  FoldLeftDomain(LAMBDA kept, i : IF Test(i) THEN Append(kept, s[i]) ELSE kept, <<>>, s)

=============================================================================
