----------------------------- MODULE ValueGraph -----------------------------
(***************************************************************************)
(* What a program can rely on about its Values, independent of reference   *)
(* counts, builders, half-done operations and the collector.  The Values   *)
(* it has lead to a graph of Nix values.  A value of that graph stays as   *)
(* it is, but for its one evaluation; it is there until no Value leads to  *)
(* it; and a new value is none that a Value led to before.                 *)
(***************************************************************************)
EXTENDS Naturals

CONSTANT Cells

VARIABLES
  kept,        \* Values of a cell the program has
  contents,    \* cells a value holds; of those no Value leads to, nothing
  unevaluated  \* values the Values lead to that wait for their evaluation

\* What S leads to when cell c holds h[c].
ReachIn(h, S) ==
  {c \in Cells : \A T \in SUBSET Cells :
     S \subseteq T /\ (\A d \in T : h[d] \subseteq T) => c \in T}

KeptIn(k) == {c \in Cells : k[c] > 0}
Seen == ReachIn(contents, KeptIn(kept))

Init ==
  /\ kept = [c \in Cells |-> 0]
  /\ contents = [c \in Cells |-> {}]
  /\ unevaluated = {}

\* The program sees the part of a heap that its Values now lead to, h telling
\* what cells hold and Z which are not evaluated.  The rest is gone.
Sees(h, Z) ==
  LET seen == ReachIn(h, KeptIn(kept'))
  IN /\ contents' = [c \in Cells |-> IF c \in seen THEN h[c] ELSE {}]
     /\ unevaluated' = Z \cap seen

\* A new value c, of what was there and of other new values.
Make(c) ==
  /\ kept' = [kept EXCEPT ![c] = @ + 1]
  /\ c \notin Seen
  /\ \E H \in SUBSET (Cells \ {c}) :
       \E Z \in SUBSET ({c} \cup (H \ Seen)) :
         Sees([contents EXCEPT ![c] = H], unevaluated \cup Z)

\* Another Value of what is there.
Share(c) ==
  /\ kept' = [kept EXCEPT ![c] = @ + 1]
  /\ c \in Seen
  /\ Sees(contents, unevaluated)

Discard(c) ==
  /\ kept[c] > 0
  /\ kept' = [kept EXCEPT ![c] = @ - 1]
  /\ Sees(contents, unevaluated)

\* The value of c is found in what c leads to, and in new values.
Evaluate(c) ==
  /\ UNCHANGED kept
  /\ c \in unevaluated
  /\ LET seen == Seen
         ledTo == ReachIn(contents, {c})
     IN \E H \in SUBSET (ledTo \cup (Cells \ seen)) :
          \E Z \in SUBSET (H \ seen) :
            Sees([contents EXCEPT ![c] = H], (unevaluated \ {c}) \cup Z)

Next == \E c \in Cells : Make(c) \/ Share(c) \/ Discard(c) \/ Evaluate(c)

Spec == Init /\ [][Next]_<<kept, contents, unevaluated>>
=============================================================================
