---------------------------- MODULE Enumerations ----------------------------
(***************************************************************************)
(* The positions of a sequence that are worth a mention, as the code       *)
(* collects them: by a loop over the sequence from its start.              *)
(***************************************************************************)
EXTENDS Naturals, Sequences

\* The elements of S among 1..n, in increasing order.
InOrder(S, n) ==
  LET upto[i \in Nat] == IF i = 0 THEN <<>>
                         ELSE IF i \in S THEN Append(upto[i - 1], i)
                         ELSE upto[i - 1]
  IN upto[n]
=============================================================================
