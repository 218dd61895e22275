------------------------------ MODULE FilterSeq ------------------------------
(***************************************************************************)
(* SelectSeq with a set in place of the test, written as a recursion over  *)
(* the places of the sequence: the form that theorems can be stated about. *)
(* The modules with theorems stay without SequencesExt, whose definitions  *)
(* would be in the context of every obligation; what they need of it is    *)
(* here.                                                                   *)
(***************************************************************************)
EXTENDS Naturals, Sequences

(* The sequences over S of at most max elements. *)
SeqUpTo(S, max) == UNION {[1..n -> S] : n \in 0..max}

(* The sequence s begins with the sequence t. *)
BeginsWith(s, t) == Len(t) <= Len(s) /\ SubSeq(s, 1, Len(t)) = t

(* The elements of s that are in A, in their order. *)
Among(s, A) ==
    LET kept[i \in 0..Len(s)] ==
            IF i = 0 THEN <<>>
            ELSE IF s[i] \in A THEN Append(kept[i - 1], s[i]) ELSE kept[i - 1]
    IN  kept[Len(s)]

==============================================================================
