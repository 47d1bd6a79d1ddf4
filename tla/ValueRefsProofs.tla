-------------------------- MODULE ValueRefsProofs --------------------------
(***************************************************************************)
(* Proofs about ValueRefs, for every heap and every bound.                 *)
(*                                                                         *)
(* The collector frees what it does not mark, so the argument rests on one *)
(* fact: a set that contains the roots and is closed under holds contains  *)
(* everything marked (MarkedIsLeast).  RefsInv keeps the marked cells      *)
(* allocated; every action is shown to mark no cell beyond a closed set of *)
(* allocated ones.                                                         *)
(***************************************************************************)
EXTENDS ValueRefs, TLAPS

\* Ties the operation's variables to its step.
StepInv ==
  /\ kind = "idle" <=> step = "none"
  /\ step \in {"none", "fill", "alloc", "string"} => result = None
  /\ step \in {"init", "owned"} => result \in Cells
  /\ step \in {"fill", "alloc", "init"} <=> kind \in Makers
  /\ step = "fill" => kind = "build"
  /\ step \notin {"fill", "alloc", "init"} => items = {}
  /\ items \subseteq Wrapped
  /\ step = "owned" => wrappers[result] < MaxWrappers
  /\ step = "init" => wrappers[result] = 0 /\ result \notin lost
  /\ StringsFreed

\* The collector has kept every marked cell, and free cells are blank.
HeapInv ==
  /\ Rooted \subseteq allocated
  /\ \A c \in Cells \ allocated : holds[c] = {} /\ c \notin lazy

RefsInv == TypeOK /\ StepInv /\ LedgerBalanced /\ HeapInv

----------------------------------------------------------------------------
(* Reachability                                                            *)

\* What is reachable contains where it starts and is closed under holds.
LEMMA ReachClosed ==
  ASSUME holds \in [Cells -> SUBSET Cells], NEW S \in SUBSET Cells
  PROVE  /\ Reach(S) \subseteq Cells
         /\ S \subseteq Reach(S)
         /\ \A d \in Reach(S) : holds[d] \subseteq Reach(S)
BY DEF Reach

\* A closed set that contains S contains all that S reaches.
LEMMA ReachLeast ==
  ASSUME NEW S, NEW T \in SUBSET Cells, S \subseteq T,
         \A d \in T : holds[d] \subseteq T
  PROVE  Reach(S) \subseteq T
BY DEF Reach

\* The same for what the collector marks after a step.
LEMMA MarkedIsLeast ==
  ASSUME NEW T \in SUBSET Cells,
         \A c \in Cells : refs'[c] > 0 => c \in T,
         builder' \subseteq T,
         \A d \in T : holds'[d] \subseteq T
  PROVE  Rooted' \subseteq T
BY DEF Rooted, Reach

\* Marked cells: the counted ones, the builder's, and what they hold.
LEMMA MarkedClosed ==
  ASSUME TypeOK
  PROVE  /\ Rooted \subseteq Cells
         /\ \A c \in Cells : refs[c] > 0 => c \in Rooted
         /\ builder \subseteq Rooted
         /\ \A d \in Rooted : holds[d] \subseteq Rooted
<1>1. {c \in Cells : refs[c] > 0} \cup builder \in SUBSET Cells
  BY DEF TypeOK
<1>2. holds \in [Cells -> SUBSET Cells]
  BY DEF TypeOK
<1> QED
  BY <1>1, <1>2, ReachClosed DEF Rooted

----------------------------------------------------------------------------
(* The invariant                                                           *)

\* Types, steps and counts, without the heap.
LedgerInv == TypeOK /\ StepInv /\ LedgerBalanced

LEMMA LedgerInit == Init => LedgerInv
BY RefsAssumption DEF Init, LedgerInv, TypeOK, StepInv, LedgerBalanced, Wrapped,
   InHand, One, Makers, Readers, StringsFreed

\* A new value holds cells.
LEMMA ContentsInHeap ==
  ASSUME TypeOK, kind \in Makers, NEW New \in SUBSET Cells
  PROVE  \A H \in Contents(New) : H \subseteq New \cup Rooted \cup Reach(items)
<1>1. items \subseteq Reach(items) /\ builder \subseteq Rooted
  BY MarkedClosed, ReachClosed DEF TypeOK
<1> QED
  BY <1>1 DEF Contents, Makers, TypeOK

\* An unallocated cell is not counted, and no Value or operation has it.
LEMMA FreeCells ==
  ASSUME RefsInv, NEW c \in Cells \ allocated
  PROVE  refs[c] = 0 /\ wrappers[c] = 0 /\ c \notin lost
<1>1. refs[c] \in Nat /\ wrappers[c] \in Nat /\ refs[c] = 0
  BY MarkedClosed DEF RefsInv, HeapInv, TypeOK
<1> QED
  BY <1>1 DEF RefsInv, LedgerBalanced, One

LEMMA LedgerStep == RefsInv /\ [Next]_vars => LedgerInv'
<1> SUFFICES ASSUME RefsInv, [Next]_vars
             PROVE  LedgerInv'
  OBVIOUS
<1>a. LedgerInv
  BY DEF RefsInv, LedgerInv
<1>b. \A c \in Cells \ allocated :
        refs[c] = 0 /\ wrappers[c] = 0 /\ c \notin lost
  BY FreeCells
<1>c. \A New \in SUBSET Cells :
        kind \in Makers => Contents(New) \subseteq SUBSET Cells
  <2>1. Rooted \subseteq Cells /\ Reach(items) \subseteq Cells
    BY DEF Rooted, Reach
  <2> QED
    BY <1>a, <2>1, ContentsInHeap DEF LedgerInv
<1> USE <1>a
<1> USE RefsAssumption
        DEF LedgerInv, TypeOK, StepInv, LedgerBalanced, Wrapped, InHand, One,
            Makers, Readers, StringsFreed, Finish, Idle, Incref, Decref,
            heapVars, opVars, stringVars
<1>1. ASSUME NEW k \in Makers, NEW S \in SUBSET Cells, Begin(k, S)
      PROVE  LedgerInv'
  BY <1>1 DEF Begin
<1>2. ASSUME NEW c \in Cells, Insert(c) PROVE LedgerInv'
  BY <1>2 DEF Insert
<1>3. ASSUME NEW c \in Cells, Alloc(c) PROVE LedgerInv'
  BY <1>3, <1>b DEF Alloc
<1>4. ASSUME GiveUp PROVE LedgerInv'
  BY <1>4 DEF GiveUp
<1>5. ASSUME NEW New \in SUBSET Cells, InitOk(New) PROVE LedgerInv'
  <2>1. kind \in Makers /\ result \in Cells /\ New \subseteq Cells
    BY <1>5 DEF InitOk
  <2>2. PICK H \in Contents(New) : holds' = [holds EXCEPT ![result] = H]
    BY <1>5 DEF InitOk
  <2>3. H \in SUBSET Cells
    BY <1>c, <2>1, <2>2
  <2>a. lazy' \subseteq Cells
    BY <1>5, <2>1 DEF InitOk, Unevaluated
  <2>4. TypeOK'
    BY <1>5, <2>1, <2>2, <2>3, <2>a DEF InitOk
  <2>5. StepInv'
    BY <1>5, <2>1 DEF InitOk
  <2>6. LedgerBalanced'
    BY <1>5, <2>1 DEF InitOk
  <2> QED
    BY <2>4, <2>5, <2>6
<1>6. ASSUME InitFails PROVE LedgerInv'
  BY <1>6 DEF InitFails
<1>7. ASSUME EvalFails PROVE LedgerInv'
  BY <1>7 DEF EvalFails
<1>8. ASSUME NEW k \in {"get", "entry"}, NEW c \in Cells, NEW d \in Cells,
             Fetch(k, c, d)
      PROVE  LedgerInv'
  BY <1>8 DEF Fetch
<1>9. ASSUME Wrap PROVE LedgerInv'
  BY <1>9 DEF Wrap
<1>10. ASSUME Reject PROVE LedgerInv'
  BY <1>10 DEF Reject
<1>11. ASSUME NEW k \in {"string", "stringContext"}, Realise(k)
       PROVE  LedgerInv'
  BY <1>11 DEF Realise
<1>12. ASSUME FreeString PROVE LedgerInv'
  BY <1>12 DEF FreeString
<1>13. ASSUME InvalidUtf8 PROVE LedgerInv'
  BY <1>13 DEF InvalidUtf8
<1>14. ASSUME NEW c \in Cells, CloneValue(c) PROVE LedgerInv'
  BY <1>14 DEF CloneValue
<1>15. ASSUME NEW c \in Cells, DropValue(c) PROVE LedgerInv'
  BY <1>15 DEF DropValue
<1>16. ASSUME NEW c \in Cells, Collect(c) PROVE LedgerInv'
  BY <1>16 DEF Collect
<1>17. ASSUME NEW c \in Cells, NEW New \in SUBSET Cells, Evaluate(c, New)
       PROVE  LedgerInv'
  <2>1. PICK S \in SUBSET Reach({c}) :
          holds' = [holds EXCEPT ![c] = New \cup S]
    BY <1>17 DEF Evaluate
  <2>2. New \cup S \in SUBSET Cells
    BY <2>1 DEF Reach
  <2> QED
    BY <1>17, <2>1, <2>2 DEF Evaluate
<1>18. ASSUME UNCHANGED vars PROVE LedgerInv'
  BY <1>18 DEF vars
<1> QED
  BY <1>1, <1>2, <1>3, <1>4, <1>5, <1>6, <1>7, <1>8, <1>9, <1>10, <1>11,
     <1>12, <1>13, <1>14, <1>15, <1>16, <1>17, <1>18 DEF Next

----------------------------------------------------------------------------
(* The heap                                                                *)

\* What the program holds is marked.
LEMMA HeldIsMarked ==
  ASSUME RefsInv
  PROVE  /\ Wrapped \subseteq Rooted
         /\ Reach(items) \subseteq Rooted
         /\ step \in {"init", "owned"} => result \in Rooted
<1>1. \A c \in Cells : refs[c] > 0 => c \in Rooted
  BY MarkedClosed DEF RefsInv
<1>2. \A c \in Cells : wrappers[c] > 0 \/ InHand(c) => refs[c] > 0
  BY DEF RefsInv, LedgerBalanced, TypeOK, One
<1>3. Wrapped \subseteq Rooted
  BY <1>1, <1>2 DEF Wrapped
<1>4. items \subseteq Rooted
  BY <1>3 DEF RefsInv, StepInv
<1>5. Reach(items) \subseteq Rooted
  BY <1>4, MarkedClosed, ReachLeast DEF RefsInv
<1>6. step \in {"init", "owned"} => result \in Rooted
  BY <1>1, <1>2 DEF RefsInv, StepInv, InHand
<1> QED
  BY <1>3, <1>5, <1>6

\* A step that leaves the contents alone and roots nothing new.
LEMMA MarksKept ==
  ASSUME RefsInv, UNCHANGED <<allocated, holds, lazy>>,
         \A c \in Cells : refs'[c] > 0 => c \in Rooted,
         builder' \subseteq Rooted
  PROVE  HeapInv'
<1>1. /\ Rooted \subseteq Cells
      /\ \A d \in Rooted : holds[d] \subseteq Rooted
  BY MarkedClosed DEF RefsInv
<1>2. Rooted' \subseteq Rooted
  BY <1>1, MarkedIsLeast
<1> QED
  BY <1>2 DEF RefsInv, HeapInv

LEMMA HeapInit == Init => HeapInv
<1> SUFFICES ASSUME Init PROVE HeapInv
  OBVIOUS
<1>1. Reach({}) \subseteq {}
  BY ReachLeast
<1>2. {c \in Cells : refs[c] > 0} \cup builder = {}
  BY DEF Init
<1> QED
  BY <1>1, <1>2 DEF Init, HeapInv, Rooted

LEMMA HeapStep == RefsInv /\ [Next]_vars => HeapInv'
<1> SUFFICES ASSUME RefsInv, [Next]_vars
             PROVE  HeapInv'
  OBVIOUS
<1>t. TypeOK
  BY DEF RefsInv
<1>m. /\ Rooted \subseteq Cells
      /\ \A c \in Cells : refs[c] > 0 => c \in Rooted
      /\ builder \subseteq Rooted
      /\ \A d \in Rooted : holds[d] \subseteq Rooted
  BY <1>t, MarkedClosed
<1>h. /\ Wrapped \subseteq Rooted
      /\ Reach(items) \subseteq Rooted
      /\ items \subseteq Rooted
      /\ step \in {"init", "owned"} => result \in Rooted
  BY HeldIsMarked DEF RefsInv, StepInv
<1> USE <1>t, <1>m, <1>h DEF Finish, heapVars, opVars, Incref, Decref
<1>1. ASSUME NEW k \in Makers, NEW S \in SUBSET Cells, Begin(k, S)
      PROVE  HeapInv'
  BY <1>1, MarksKept DEF Begin
<1>2. ASSUME NEW c \in Cells, Insert(c) PROVE HeapInv'
  BY <1>2, MarksKept DEF Insert
<1>3. ASSUME NEW c \in Cells, Alloc(c) PROVE HeapInv'
  <2> DEFINE T == Rooted \cup {c}
  <2>1. holds[c] = {}
    BY <1>3 DEF RefsInv, HeapInv, Alloc
  <2>2. Rooted' \subseteq T
    <3>1. \A d \in Cells : refs'[d] > 0 => d \in T
      BY <1>3 DEF Alloc, TypeOK
    <3>2. builder' \subseteq T /\ \A d \in T : holds'[d] \subseteq T
      BY <1>3, <2>1 DEF Alloc
    <3> QED
      BY <3>1, <3>2, MarkedIsLeast, ZenonT(30)
  <2> QED
    BY <1>3, <2>2 DEF Alloc, RefsInv, HeapInv
<1>4. ASSUME GiveUp PROVE HeapInv'
  BY <1>4, MarksKept DEF GiveUp
<1>5. ASSUME NEW New \in SUBSET Cells, InitOk(New) PROVE HeapInv'
  <2> DEFINE T == Rooted \cup New
  <2>1. kind \in Makers /\ result \in Rooted
    BY <1>5 DEF InitOk, RefsInv, StepInv
  <2>2. PICK H \in Contents(New) : holds' = [holds EXCEPT ![result] = H]
    BY <1>5 DEF InitOk
  <2>3. H \subseteq T
    BY <2>1, <2>2, ContentsInHeap
  <2>4. New \cap allocated = {} /\ \A d \in New : holds[d] = {}
    BY <1>5 DEF InitOk, RefsInv, HeapInv
  <2>5. Rooted' \subseteq T
    <3>1. \A d \in T : holds'[d] \subseteq T
      BY <2>2, <2>3, <2>4 DEF TypeOK
    <3>2. builder' \subseteq T /\ \A d \in Cells : refs'[d] > 0 => d \in T
      BY <1>5 DEF InitOk
    <3> QED
      BY <3>1, <3>2, MarkedIsLeast
  <2>6. result \in allocated
    BY <2>1 DEF RefsInv, HeapInv
  <2> QED
    BY <1>5, <2>2, <2>5, <2>6 DEF InitOk, Unevaluated, RefsInv, HeapInv, TypeOK
<1>6. ASSUME InitFails PROVE HeapInv'
  BY <1>6, MarksKept DEF InitFails, TypeOK
<1>7. ASSUME EvalFails PROVE HeapInv'
  BY <1>7, MarksKept DEF EvalFails
<1>8. ASSUME NEW k \in {"get", "entry"}, NEW c \in Cells, NEW d \in Cells,
             Fetch(k, c, d)
      PROVE  HeapInv'
  BY <1>8, MarksKept DEF Fetch, TypeOK
<1>9. ASSUME Wrap PROVE HeapInv'
  BY <1>9, MarksKept DEF Wrap
<1>10. ASSUME Reject PROVE HeapInv'
  BY <1>10, MarksKept DEF Reject, TypeOK
<1>11. ASSUME NEW k \in {"string", "stringContext"}, Realise(k)
       PROVE  HeapInv'
  BY <1>11, MarksKept DEF Realise
<1>12. ASSUME FreeString PROVE HeapInv'
  BY <1>12, MarksKept DEF FreeString
<1>13. ASSUME InvalidUtf8 PROVE HeapInv'
  BY <1>13, MarksKept DEF InvalidUtf8
<1>14. ASSUME NEW c \in Cells, CloneValue(c) PROVE HeapInv'
  BY <1>14, MarksKept DEF CloneValue, TypeOK
<1>15. ASSUME NEW c \in Cells, DropValue(c) PROVE HeapInv'
  BY <1>15, MarksKept DEF DropValue, TypeOK
<1>16. ASSUME NEW c \in Cells, Collect(c) PROVE HeapInv'
  <2>1. c \notin Rooted
    BY <1>16 DEF Collect
  <2>2. Rooted' \subseteq Rooted
    <3>1. \A d \in Rooted : holds'[d] \subseteq Rooted
      BY <1>16, <2>1 DEF Collect, TypeOK
    <3>2. builder' \subseteq Rooted
      BY <1>16 DEF Collect
    <3>3. \A d \in Cells : refs'[d] > 0 => d \in Rooted
      BY <1>16 DEF Collect
    <3> QED
      BY <3>1, <3>2, <3>3, MarkedIsLeast
  <2> QED
    BY <1>16, <2>1, <2>2 DEF Collect, RefsInv, HeapInv, TypeOK
<1>17. ASSUME NEW c \in Cells, NEW New \in SUBSET Cells, Evaluate(c, New)
       PROVE  HeapInv'
  <2> DEFINE T == Rooted \cup New
  <2>1. PICK S \in SUBSET Reach({c}) :
          holds' = [holds EXCEPT ![c] = New \cup S]
    BY <1>17 DEF Evaluate
  <2>2. c \in Reach(Wrapped) /\ Reach(Wrapped) \subseteq Rooted
    BY <1>17, ReachLeast DEF Evaluate
  <2>3. Reach({c}) \subseteq Rooted
    BY <2>2, ReachLeast
  <2>4. New \cap allocated = {} /\ \A d \in New : holds[d] = {}
    BY <1>17 DEF Evaluate, RefsInv, HeapInv
  <2>5. Rooted' \subseteq T
    <3>1. \A d \in T : holds'[d] \subseteq T
      BY <2>1, <2>3, <2>4 DEF TypeOK
    <3>2. builder' \subseteq T /\ \A d \in Cells : refs'[d] > 0 => d \in T
      BY <1>17 DEF Evaluate
    <3> QED
      BY <3>1, <3>2, MarkedIsLeast
  <2>6. c \in allocated
    BY <2>2 DEF RefsInv, HeapInv
  <2> QED
    BY <1>17, <2>1, <2>5, <2>6 DEF Evaluate, RefsInv, HeapInv, TypeOK
<1>18. ASSUME UNCHANGED vars PROVE HeapInv'
  BY <1>18, MarksKept DEF vars
<1> QED
  BY <1>1, <1>2, <1>3, <1>4, <1>5, <1>6, <1>7, <1>8, <1>9, <1>10, <1>11,
     <1>12, <1>13, <1>14, <1>15, <1>16, <1>17, <1>18 DEF Next

----------------------------------------------------------------------------
(* The theorems                                                            *)

\* RefsInv is inductive.
THEOREM RefsInvariant == Spec => []RefsInv
<1>1. Init => RefsInv
  BY LedgerInit, HeapInit DEF RefsInv, LedgerInv
<1>2. RefsInv /\ [Next]_vars => RefsInv'
  BY LedgerStep, HeapStep DEF RefsInv, LedgerInv
<1> QED
  BY <1>1, <1>2, PTL DEF Spec

\* Types: no builder outlives its operation.
THEOREM TypesCorrect == Spec => []TypeOK
<1>1. RefsInv => TypeOK
  BY DEF RefsInv
<1> QED
  BY <1>1, RefsInvariant, PTL

\* The counts of libexpr are the Values, the operation's and the lost ones.
THEOREM LedgerIsBalanced == Spec => []LedgerBalanced
<1>1. RefsInv => LedgerBalanced
  BY DEF RefsInv
<1> QED
  BY <1>1, RefsInvariant, PTL

\* Every realised string is freed or lost by as_string.
THEOREM StringsAreFreed == Spec => []StringsFreed
<1>1. RefsInv => StringsFreed
  BY DEF RefsInv, StepInv
<1> QED
  BY <1>1, RefsInvariant, PTL

\* Nothing the program can reach has been collected.
THEOREM NothingDangles == Spec => []NothingDangling
<1>1. RefsInv => NothingDangling
  <2> SUFFICES ASSUME RefsInv PROVE NothingDangling
    OBVIOUS
  <2>1. /\ Rooted \subseteq Cells
        /\ \A d \in Rooted : holds[d] \subseteq Rooted
        /\ Wrapped \cup items \cup builder \subseteq Rooted
        /\ step \in {"init", "owned"} => result \in Rooted
    BY MarkedClosed, HeldIsMarked DEF RefsInv, StepInv
  <2>2. Reach(Wrapped \cup items \cup builder) \subseteq Rooted
    BY <2>1, ReachLeast
  <2>3. step \in {"init", "owned"} => Reach({result}) \subseteq Rooted
    BY <2>1, ReachLeast
  <2> QED
    BY <2>2, <2>3 DEF NothingDangling, RefsInv, HeapInv
<1> QED
  BY <1>1, RefsInvariant, PTL

\* What an evaluated Value holds does not change while it exists.
THEOREM ContentsAreStable == Spec => ContentsStable
<1>1. RefsInv /\ [Next]_vars =>
        [\A c \in Cells \ lazy :
           wrappers[c] > 0 /\ wrappers'[c] > 0 =>
             holds'[c] = holds[c] /\ c \notin lazy']_vars
  <2> SUFFICES ASSUME RefsInv, Next, NEW c \in Cells \ lazy, wrappers[c] > 0
               PROVE  holds'[c] = holds[c] /\ c \notin lazy'
    OBVIOUS
  <2> USE DEF heapVars, Finish
  <2>1. c \in Rooted /\ c \in allocated /\ (step = "init" => c # result)
    BY HeldIsMarked DEF RefsInv, HeapInv, StepInv, Wrapped
  <2>2. ASSUME NEW New \in SUBSET Cells, InitOk(New)
        PROVE  holds'[c] = holds[c] /\ c \notin lazy'
    BY <2>1, <2>2 DEF InitOk, Unevaluated, RefsInv, TypeOK
  <2>3. ASSUME NEW d \in Cells, Collect(d)
        PROVE  holds'[c] = holds[c] /\ c \notin lazy'
    BY <2>1, <2>3 DEF Collect, RefsInv, TypeOK
  <2>4. ASSUME NEW d \in Cells, NEW New \in SUBSET Cells, Evaluate(d, New)
        PROVE  holds'[c] = holds[c] /\ c \notin lazy'
    BY <2>1, <2>4 DEF Evaluate, RefsInv, TypeOK
  <2>5. CASE UNCHANGED <<holds, lazy>>
    BY <2>5
  <2> QED
    BY <2>2, <2>3, <2>4, <2>5 DEF Next, Begin, Insert, Alloc, GiveUp,
       InitFails, EvalFails, Fetch, Wrap, Reject, Realise, FreeString,
       InvalidUtf8, CloneValue, DropValue
<1> QED
  BY <1>1, RefsInvariant, PTL DEF Spec, ContentsStable

----------------------------------------------------------------------------
(* ValueGraph is implemented                                               *)

\* What an operation has in hand: a blank cell no Value leads to, or an
\* element of what a Value leads to.
SeenInv ==
  /\ step = "init" => result \notin Reach(Wrapped) \cup lazy
  /\ step = "owned" => result \in Reach(Wrapped)

\* The facts about reachability, for any heap h.
LEMMA ReachInClosed ==
  ASSUME NEW h \in [Cells -> SUBSET Cells], NEW S \in SUBSET Cells
  PROVE  /\ Graph!ReachIn(h, S) \subseteq Cells
         /\ S \subseteq Graph!ReachIn(h, S)
         /\ \A d \in Graph!ReachIn(h, S) : h[d] \subseteq Graph!ReachIn(h, S)
BY DEF Graph!ReachIn

LEMMA ReachInLeast ==
  ASSUME NEW h, NEW S, NEW T \in SUBSET Cells, S \subseteq T,
         \A d \in T : h[d] \subseteq T
  PROVE  Graph!ReachIn(h, S) \subseteq T
BY DEF Graph!ReachIn

\* Only what is reached matters for what is reached.
LEMMA SameReach ==
  ASSUME NEW h \in [Cells -> SUBSET Cells], NEW g \in [Cells -> SUBSET Cells],
         NEW S \in SUBSET Cells,
         \A d \in Graph!ReachIn(h, S) : g[d] = h[d]
  PROVE  Graph!ReachIn(g, S) = Graph!ReachIn(h, S)
<1> DEFINE H == Graph!ReachIn(h, S)
           G == Graph!ReachIn(g, S)
<1>1. /\ H \subseteq Cells /\ S \subseteq H
      /\ \A d \in H : h[d] \subseteq H
  BY ReachInClosed
<1>2. /\ G \subseteq Cells /\ S \subseteq G
      /\ \A d \in G : g[d] \subseteq G
  BY ReachInClosed
<1>3. \A d \in H : g[d] = h[d]
  OBVIOUS
<1> HIDE DEF H, G
<1>4. G \subseteq H
  BY <1>1, <1>3, ReachInLeast DEF G
<1>5. H \subseteq G
  BY <1>2, <1>3, <1>4, ReachInLeast DEF H
<1> QED
  BY <1>4, <1>5 DEF H, G

\* The abstract graph reaches what the heap reaches.
LEMMA SeenIsReached ==
  ASSUME TypeOK
  PROVE  /\ Visible \in [Cells -> SUBSET Cells]
         /\ Graph!Seen = Reach(Wrapped)
<1>1. Reach(Wrapped) = Graph!ReachIn(holds, Wrapped)
  BY DEF Reach, Graph!ReachIn
<1>2. Visible \in [Cells -> SUBSET Cells] /\ holds \in [Cells -> SUBSET Cells]
  BY DEF Visible, TypeOK
<1>3. \A d \in Graph!ReachIn(holds, Wrapped) : Visible[d] = holds[d]
  BY <1>1, ReachInClosed DEF Visible, Graph!ReachIn
<1>4. Wrapped = Graph!KeptIn(wrappers) /\ Wrapped \in SUBSET Cells
  BY DEF Wrapped, Graph!KeptIn
<1> QED
  BY <1>1, <1>2, <1>3, <1>4, SameReach DEF Graph!Seen

\* A step shows the program the heap it leaves.
LEMMA StepSees ==
  ASSUME TypeOK', NEW h \in [Cells -> SUBSET Cells], NEW Z,
         \A d \in Reach(Wrapped)' : h[d] = holds'[d],
         \A d \in Reach(Wrapped)' : d \in lazy' <=> d \in Z
  PROVE  Graph!Sees(h, Z)
<1> DEFINE W == Graph!KeptIn(wrappers')
<1>1. W = Wrapped' /\ W \in SUBSET Cells
  BY DEF Wrapped, Graph!KeptIn
<1>2. Reach(Wrapped)' = Graph!ReachIn(holds', W)
  BY <1>1 DEF Reach, Graph!ReachIn
<1>3. holds' \in [Cells -> SUBSET Cells]
  BY DEF TypeOK
<1>4. Graph!ReachIn(h, W) = Reach(Wrapped)'
  BY <1>1, <1>2, <1>3, SameReach
<1>5. Visible' = [c \in Cells |-> IF c \in Graph!ReachIn(h, W)
                                  THEN h[c] ELSE {}]
  BY <1>4 DEF Visible
<1>6. VisiblyLazy' = Z \cap Graph!ReachIn(h, W)
  BY <1>4 DEF VisiblyLazy
<1> QED
  BY <1>5, <1>6 DEF Graph!Sees

\* What the heap and the Values lead to is the same when neither changes.
LEMMA ReachKept ==
  ASSUME UNCHANGED <<wrappers, holds>>
  PROVE  Reach(Wrapped)' = Reach(Wrapped)
BY DEF Reach, Wrapped

\* The collector takes nothing that a Value leads to.
LEMMA CollectUnseen ==
  ASSUME RefsInv, NEW c \in Cells, Collect(c)
  PROVE  /\ Reach(Wrapped)' = Reach(Wrapped)
         /\ Visible' = Visible /\ VisiblyLazy' = VisiblyLazy
<1> DEFINE R == Reach(Wrapped)
<1>1. R \subseteq Rooted /\ c \notin Rooted
  BY HeldIsMarked, MarkedClosed, ReachLeast DEF RefsInv, Collect
<1>2. /\ holds \in [Cells -> SUBSET Cells]
      /\ holds' \in [Cells -> SUBSET Cells]
      /\ \A d \in Cells \ {c} : holds'[d] = holds[d]
  BY DEF RefsInv, TypeOK, Collect
<1>3. /\ Wrapped' = Wrapped /\ Wrapped \in SUBSET Cells
      /\ R = Graph!ReachIn(holds, Wrapped) /\ R \subseteq Cells
  BY DEF Collect, Wrapped, Reach, Graph!ReachIn
<1>4. Graph!ReachIn(holds', Wrapped) = R
  BY <1>1, <1>2, <1>3, SameReach
<1>5. Reach(Wrapped)' = R
  BY <1>3, <1>4 DEF Reach, Graph!ReachIn
<1>6. \A d \in R : holds'[d] = holds[d]
  BY <1>1, <1>2, <1>3
<1>7. Visible' = Visible
  BY <1>5, <1>6 DEF Visible
<1>8. VisiblyLazy' = VisiblyLazy
  BY <1>1, <1>5 DEF VisiblyLazy, Collect
<1> QED
  BY <1>5, <1>7, <1>8

\* Writing one cell adds to what the Values lead to at most what was new and
\* unallocated.
LEMMA WriteReach ==
  ASSUME RefsInv, NEW c \in Cells, NEW New \in SUBSET (Cells \ allocated),
         NEW H, holds' = [holds EXCEPT ![c] = H],
         H \subseteq Reach(Wrapped) \cup New, Wrapped' = Wrapped
  PROVE  Reach(Wrapped)' \subseteq Reach(Wrapped) \cup New
<1> DEFINE T == Reach(Wrapped) \cup New
<1>1. /\ Reach(Wrapped) \subseteq Cells /\ Wrapped \subseteq Reach(Wrapped)
      /\ \A d \in Reach(Wrapped) : holds[d] \subseteq Reach(Wrapped)
  BY ReachClosed DEF RefsInv, TypeOK, Wrapped
<1>2. \A d \in New : holds[d] = {}
  BY DEF RefsInv, HeapInv
<1>3. \A d \in T : holds'[d] \subseteq T
  BY <1>1, <1>2 DEF RefsInv, TypeOK
<1>4. T \in SUBSET Cells /\ Wrapped' \subseteq T
  BY <1>1
<1> QED
  BY <1>3, <1>4 DEF Reach

\* What the program can reach is allocated.
LEMMA ReachedFacts ==
  ASSUME RefsInv
  PROVE  /\ Reach(Wrapped) \subseteq allocated /\ Wrapped \subseteq Reach(Wrapped)
         /\ \A d \in Reach(Wrapped) : holds[d] \subseteq Reach(Wrapped)
         /\ \A S \in SUBSET Reach(Wrapped) : Reach(S) \subseteq Reach(Wrapped)
         /\ step \in {"init", "owned"} => result \in allocated
<1>1. /\ Rooted \subseteq allocated
      /\ step \in {"init", "owned"} => result \in Rooted
      /\ Wrapped \subseteq Rooted
  BY HeldIsMarked DEF RefsInv, HeapInv
<1>2. /\ Reach(Wrapped) \subseteq Cells /\ Wrapped \subseteq Reach(Wrapped)
      /\ \A d \in Reach(Wrapped) : holds[d] \subseteq Reach(Wrapped)
  BY ReachClosed DEF RefsInv, TypeOK, Wrapped
<1>3. Reach(Wrapped) \subseteq Rooted
  BY <1>1, MarkedClosed, ReachLeast DEF RefsInv
<1>4. \A S \in SUBSET Reach(Wrapped) : Reach(S) \subseteq Reach(Wrapped)
  BY <1>2, ReachLeast
<1> QED
  BY <1>1, <1>2, <1>3, <1>4

\* What an evaluation writes: new cells, and cells that were there.
LEMMA EvaluateWrites ==
  ASSUME RefsInv, NEW c \in Cells, NEW New \in SUBSET Cells, Evaluate(c, New)
  PROVE  \E H \in SUBSET (Reach({c}) \cup New) :
           /\ holds' = [holds EXCEPT ![c] = H] /\ New \subseteq H
           /\ H \subseteq Reach(Wrapped) \cup New
           /\ Reach(Wrapped)' \subseteq Reach(Wrapped) \cup New
<1>1. PICK S \in SUBSET Reach({c}) : holds' = [holds EXCEPT ![c] = New \cup S]
  BY DEF Evaluate
<1>2. Reach({c}) \subseteq Reach(Wrapped)
  BY ReachedFacts DEF Evaluate
<1> DEFINE H == New \cup S
<1>3. H \in SUBSET (Reach({c}) \cup New) /\ New \subseteq H
  OBVIOUS
<1>4. H \subseteq Reach(Wrapped) \cup New
  BY <1>2
<1>5. New \in SUBSET (Cells \ allocated) /\ Wrapped' = Wrapped
  BY DEF Evaluate, Wrapped
<1>6. holds' = [holds EXCEPT ![c] = H]
  BY <1>1
<1> HIDE DEF H
<1>7. Reach(Wrapped)' \subseteq Reach(Wrapped) \cup New
  BY <1>4, <1>5, <1>6, WriteReach
<1> QED
  BY <1>3, <1>4, <1>6, <1>7

LEMMA SeenStep == RefsInv /\ SeenInv /\ [Next]_vars => SeenInv'
<1> SUFFICES ASSUME RefsInv, SeenInv, [Next]_vars
             PROVE  SeenInv'
  OBVIOUS
<1> USE DEF Finish, heapVars, opVars
<1>1. CASE step' \notin {"init", "owned"}
  BY <1>1 DEF SeenInv
<1>2. ASSUME NEW c \in Cells, Alloc(c)
      PROVE  SeenInv'
  BY <1>2, ReachKept, ReachedFacts DEF Alloc, SeenInv, RefsInv, HeapInv
<1>3. ASSUME NEW k \in {"get", "entry"}, NEW c \in Cells, NEW d \in Cells,
             Fetch(k, c, d)
      PROVE  SeenInv'
  BY <1>3, ReachKept, ReachedFacts DEF Fetch, SeenInv
<1>4. ASSUME NEW c \in Cells, Collect(c)
      PROVE  SeenInv'
  BY <1>4, CollectUnseen DEF Collect, SeenInv
<1>5. ASSUME NEW c \in Cells, NEW New \in SUBSET Cells, Evaluate(c, New)
      PROVE  SeenInv'
  <2>1. Reach(Wrapped)' \subseteq Reach(Wrapped) \cup New
    BY <1>5, EvaluateWrites
  <2>2. CASE step = "none"
    BY <1>5, <2>2 DEF Evaluate, SeenInv
  <2>3. CASE step = "init"
    <3>1. step' = "init" /\ result' = result
      BY <1>5, <2>3 DEF Evaluate
    <3>2. result \in allocated /\ result \notin New
      BY <1>5, <2>3, ReachedFacts DEF Evaluate
    <3>3. lazy' \subseteq lazy \cup New
      BY <1>5 DEF Evaluate
    <3> QED
      BY <2>1, <2>3, <3>1, <3>2, <3>3 DEF SeenInv
  <2> QED
    BY <1>5, <2>2, <2>3 DEF Evaluate, Idle, RefsInv, StepInv
<1>6. CASE UNCHANGED <<step, result, wrappers, holds, lazy>>
  BY <1>6, ReachKept DEF SeenInv
<1>7. ASSUME NEW c \in Cells, CloneValue(c) \/ DropValue(c)
      PROVE  step' = "none"
  BY <1>7 DEF CloneValue, DropValue, Idle, RefsInv, StepInv
<1> QED
  BY <1>1, <1>2, <1>3, <1>4, <1>5, <1>6, <1>7 DEF Next, vars, Begin, Insert,
     GiveUp, InitOk, InitFails, EvalFails, Wrap, Reject, Realise, FreeString,
     InvalidUtf8

\* A Value is returned that holds what was there, and new cells.
LEMMA InitOkMakes ==
  ASSUME RefsInv, TypeOK', SeenInv, NEW New \in SUBSET Cells, InitOk(New)
  PROVE  Graph!Make(result)
<1>1. /\ kind \in Makers /\ result \in Cells
      /\ result \notin Reach(Wrapped) /\ result \notin lazy
      /\ result \notin New /\ New \cap allocated = {}
  BY ReachedFacts DEF InitOk, SeenInv, RefsInv, StepInv
<1>2. PICK H \in Contents(New) : holds' = [holds EXCEPT ![result] = H]
  BY DEF InitOk
<1>3. PICK U \in Unevaluated, N \in SUBSET New : lazy' = lazy \cup U \cup N
  BY DEF InitOk
<1>4. H \subseteq Reach(Wrapped) \cup New /\ New \subseteq H
  <2>1. items \in SUBSET Reach(Wrapped) /\ builder \subseteq items
    BY ReachedFacts DEF RefsInv, StepInv, TypeOK
  <2>2. Reach(items) \subseteq Reach(Wrapped)
    BY <2>1, ReachedFacts
  <2>3. New # {} => kind \in {"eval", "call"}
    BY DEF InitOk
  <2> QED
    BY <1>1, <1>2, <2>1, <2>2, <2>3 DEF Contents, Makers
<1>5. U \subseteq {result}
  BY <1>1, <1>3 DEF Unevaluated
<1>6. Reach(Wrapped)' \subseteq Reach(Wrapped) \cup {result} \cup New
  <2>1. Wrapped' = Wrapped \cup {result}
    BY <1>1 DEF InitOk, Wrapped, RefsInv, TypeOK
  <2> DEFINE T == Reach(Wrapped) \cup {result} \cup New
  <2>2. T \in SUBSET Cells /\ Wrapped' \subseteq T
    BY <1>1, <2>1, ReachedFacts DEF Reach
  <2>3. ASSUME NEW d \in T PROVE holds'[d] \subseteq T
    <3>1. CASE d = result
      BY <1>1, <1>2, <1>4, <3>1 DEF RefsInv, TypeOK
    <3>2. CASE d # result
      BY <1>1, <1>2, <2>3, <3>2, ReachedFacts DEF RefsInv, TypeOK, HeapInv
    <3> QED
      BY <3>1, <3>2
  <2> QED
    BY <2>2, <2>3 DEF Reach
<1>7. Graph!Seen = Reach(Wrapped) /\ Visible \in [Cells -> SUBSET Cells]
      /\ Reach(Wrapped) \subseteq allocated
  BY SeenIsReached, ReachedFacts DEF RefsInv
<1>8. \A d \in New : holds[d] = {} /\ d \notin lazy /\ d \notin Reach(Wrapped)
  BY <1>1, <1>7 DEF RefsInv, HeapInv
<1> DEFINE h == [Visible EXCEPT ![result] = H]
           Z == VisiblyLazy \cup (U \cup N)
<1>9. H \in SUBSET (Cells \ {result})
      /\ U \cup N \in SUBSET ({result} \cup (H \ Graph!Seen))
  BY <1>1, <1>3, <1>4, <1>5, <1>7, <1>8 DEF Reach
<1>10. h \in [Cells -> SUBSET Cells]
  BY <1>7, <1>9
<1>11. ASSUME NEW d \in Reach(Wrapped)'
       PROVE  h[d] = holds'[d] /\ (d \in lazy' <=> d \in Z)
  <2>1. CASE d \in Reach(Wrapped)
    BY <1>1, <1>2, <1>3, <1>7, <2>1 DEF Visible, VisiblyLazy, RefsInv, TypeOK
  <2>2. CASE d = result
    BY <1>1, <1>2, <1>3, <1>7, <2>2, ZenonT(60) DEF VisiblyLazy, RefsInv, TypeOK
  <2>3. CASE d \in New
    BY <1>1, <1>2, <1>3, <1>7, <1>8, <2>3
       DEF Visible, VisiblyLazy, RefsInv, TypeOK
  <2> QED
    BY <1>6, <2>1, <2>2, <2>3
<1> HIDE DEF h, Z
<1>12. Graph!Sees(h, Z)
  BY <1>10, <1>11, StepSees
<1>13. wrappers' = [wrappers EXCEPT ![result] = @ + 1]
  BY DEF InitOk
<1> QED
  BY <1>1, <1>7, <1>9, <1>12, <1>13 DEF Graph!Make, h, Z

\* A step that changes neither the heap nor what is evaluated, only how many
\* Values there are.
LEMMA WrapperStepSees ==
  ASSUME RefsInv, TypeOK', UNCHANGED <<holds, lazy>>,
         Reach(Wrapped)' \subseteq Reach(Wrapped)
  PROVE  Graph!Sees(Visible, VisiblyLazy)
<1>1. Visible \in [Cells -> SUBSET Cells]
  BY SeenIsReached DEF RefsInv
<1>2. \A d \in Reach(Wrapped)' :
        /\ Visible[d] = holds'[d]
        /\ d \in lazy' <=> d \in VisiblyLazy
  BY DEF Visible, VisiblyLazy, Reach
<1> QED
  BY <1>1, <1>2, StepSees

\* Every step is one of the graph's, or the program does not notice it.
LEMMA GraphStep ==
  RefsInv /\ SeenInv /\ RefsInv' /\ [Next]_vars
    => [Graph!Next]_<<wrappers, Visible, VisiblyLazy>>
<1> SUFFICES ASSUME RefsInv, SeenInv, RefsInv', [Next]_vars
             PROVE  [Graph!Next]_<<wrappers, Visible, VisiblyLazy>>
  OBVIOUS
<1>t. TypeOK /\ TypeOK' /\ Graph!Seen = Reach(Wrapped)
  BY SeenIsReached DEF RefsInv
<1> USE DEF Finish, heapVars, opVars
<1>1. ASSUME NEW New \in SUBSET Cells, InitOk(New)
      PROVE  Graph!Next
  BY <1>1, <1>t, InitOkMakes DEF Graph!Next, InitOk, RefsInv, StepInv
<1>2. ASSUME NEW c \in Cells, c \in Reach(Wrapped), UNCHANGED <<holds, lazy>>,
             wrappers' = [wrappers EXCEPT ![c] = @ + 1]
      PROVE  Graph!Next
  <2>1. Wrapped' \subseteq Reach(Wrapped)
    BY <1>t, <1>2, ReachedFacts DEF Wrapped, TypeOK
  <2>2. Reach(Wrapped)' \subseteq Reach(Wrapped)
    BY <1>2, <2>1, ReachedFacts DEF Reach
  <2> QED
    BY <1>t, <1>2, <2>2, WrapperStepSees DEF Graph!Next, Graph!Share
<1>3. ASSUME NEW c \in Cells, DropValue(c)
      PROVE  Graph!Next
  <2>1. /\ wrappers' = [wrappers EXCEPT ![c] = @ - 1] /\ wrappers[c] > 0
        /\ UNCHANGED <<holds, lazy>>
    BY <1>3 DEF DropValue, Wrapped
  <2>2. Wrapped' \subseteq Wrapped
    BY <1>t, <2>1 DEF Wrapped, TypeOK
  <2>3. Reach(Wrapped)' \subseteq Reach(Wrapped)
    BY <2>1, <2>2, ReachedFacts DEF Reach
  <2> QED
    BY <1>t, <2>1, <2>3, WrapperStepSees DEF Graph!Next, Graph!Discard
<1>4. ASSUME NEW c \in Cells, NEW New \in SUBSET Cells, Evaluate(c, New)
      PROVE  Graph!Next
  <2>1. PICK H \in SUBSET (Reach({c}) \cup New) :
          /\ holds' = [holds EXCEPT ![c] = H] /\ New \subseteq H
          /\ H \subseteq Reach(Wrapped) \cup New
          /\ Reach(Wrapped)' \subseteq Reach(Wrapped) \cup New
    BY <1>4, EvaluateWrites
  <2>2. PICK N \in SUBSET New : lazy' = (lazy \ {c}) \cup N
    BY <1>4 DEF Evaluate
  <2>3. c \in VisiblyLazy /\ c \in Reach(Wrapped) /\ UNCHANGED wrappers
    BY <1>4 DEF Evaluate, VisiblyLazy
  <2>4. \A d \in New : holds[d] = {} /\ d \notin lazy /\ d \notin Reach(Wrapped)
    BY <1>4, ReachedFacts DEF Evaluate, RefsInv, HeapInv
  <2>5. Reach({c}) = Graph!ReachIn(Visible, {c})
    <3>1. Reach({c}) \subseteq Reach(Wrapped)
      BY <2>3, ReachedFacts
    <3>2. \A d \in Graph!ReachIn(holds, {c}) : Visible[d] = holds[d]
      BY <3>1 DEF Visible, Reach, Graph!ReachIn
    <3>3. /\ Visible \in [Cells -> SUBSET Cells] /\ {c} \in SUBSET Cells
          /\ holds \in [Cells -> SUBSET Cells]
      BY <1>t, SeenIsReached DEF TypeOK
    <3>4. Graph!ReachIn(Visible, {c}) = Graph!ReachIn(holds, {c})
      BY <3>2, <3>3, SameReach
    <3> QED
      BY <3>4 DEF Reach, Graph!ReachIn
  <2> DEFINE h == [Visible EXCEPT ![c] = H]
             Z == (VisiblyLazy \ {c}) \cup N
  <2>6. h \in [Cells -> SUBSET Cells]
    BY <2>1, SeenIsReached DEF RefsInv, Reach
  <2>7. ASSUME NEW d \in Reach(Wrapped)'
        PROVE  h[d] = holds'[d] /\ (d \in lazy' <=> d \in Z)
    <3>1. CASE d = c
      <4>1. h[d] = H /\ holds'[d] = H
        BY <1>t, <2>1, <3>1 DEF Visible, TypeOK
      <4>2. c \notin N
        BY <2>3, <2>4
      <4> QED
        BY <2>2, <3>1, <4>1, <4>2
    <3>2. CASE d # c
      <4>1. /\ d \in Cells /\ holds'[d] = holds[d] /\ h[d] = Visible[d]
            /\ d \in Reach(Wrapped) \/ d \in New
        BY <1>t, <2>1, <3>2 DEF Visible, TypeOK, Reach
      <4>2. Visible[d] = holds[d]
        BY <2>4, <4>1 DEF Visible
      <4>3. d \in lazy' <=> d \in Z
        BY <2>2, <2>4, <3>2, <4>1 DEF VisiblyLazy
      <4> QED
        BY <4>1, <4>2, <4>3
    <3> QED
      BY <3>1, <3>2
  <2> HIDE DEF h, Z
  <2>8. Graph!Sees(h, Z)
    BY <1>t, <2>6, <2>7, StepSees
  <2>9. /\ H \in SUBSET (Graph!ReachIn(Visible, {c}) \cup (Cells \ Graph!Seen))
        /\ N \in SUBSET (H \ Graph!Seen)
    BY <1>t, <2>1, <2>2, <2>4, <2>5
  <2>10. Graph!Evaluate(c)
    BY <2>3, <2>8, <2>9 DEF Graph!Evaluate, h, Z
  <2> QED
    BY <2>10 DEF Graph!Next
<1>5. CASE UNCHANGED <<wrappers, holds, lazy>>
  BY <1>5, ReachKept DEF Visible, VisiblyLazy
<1>6. ASSUME NEW c \in Cells, Collect(c)
      PROVE  UNCHANGED <<wrappers, Visible, VisiblyLazy>>
  BY <1>6, CollectUnseen DEF Collect
<1>7. ASSUME Wrap
      PROVE  Graph!Next
  BY <1>2, <1>7 DEF Wrap, SeenInv, RefsInv, StepInv
<1>8. ASSUME NEW c \in Cells, CloneValue(c)
      PROVE  Graph!Next
  BY <1>2, <1>8, ReachedFacts DEF CloneValue
<1> QED
  BY <1>1, <1>3, <1>4, <1>5, <1>6, <1>7, <1>8 DEF Next, vars, Begin, Insert,
     Alloc, GiveUp, InitFails, EvalFails, Fetch, Reject, Realise, FreeString,
     InvalidUtf8

\* What happens in the heap is, for the program, what ValueGraph promises.
THEOREM GraphImplemented == Spec => ImplementsGraph
<1>1. Init => Graph!Init /\ SeenInv
  <2> SUFFICES ASSUME Init PROVE Graph!Init /\ SeenInv
    OBVIOUS
  <2>1. Visible = [c \in Cells |-> {}] /\ VisiblyLazy = {}
    BY DEF Init, Visible, VisiblyLazy
  <2> QED
    BY <2>1 DEF Init, Graph!Init, SeenInv
<1>2. RefsInv /\ SeenInv /\ [Next]_vars => SeenInv'
  BY SeenStep
<1>3. RefsInv /\ SeenInv /\ RefsInv' /\ [Next]_vars
        => [Graph!Next]_<<wrappers, Visible, VisiblyLazy>>
  BY GraphStep
<1> QED
  BY <1>1, <1>2, <1>3, RefsInvariant, PTL
     DEF Spec, ImplementsGraph, Graph!Spec

=============================================================================
