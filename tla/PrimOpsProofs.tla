--------------------------- MODULE PrimOpsProofs ---------------------------
(***************************************************************************)
(* Proofs about PrimOps, for any number of primops, values and states.     *)
(* The inductive invariant PrimInv relates, for each primop, the progress  *)
(* of the handle to the reference count, the collector's view of the       *)
(* object and the closure's box; the safety properties and the refinement  *)
(* of ClosureMemory follow from it.                                        *)
(***************************************************************************)
EXTENDS PrimOps, TLAPS

\* Before new is done with p, no reference, value or registry knows it.
Unborn(p) ==
  /\ phase[p] = "none" =>
       /\ ~boxed[p] /\ frees[p] = 0 /\ object[p] = "none" /\ gcref[p] = 0
       /\ ~finalizer[p] /\ ~registered[p]
  /\ phase[p] = "boxed" =>
       /\ boxed[p] /\ frees[p] = 0 /\ object[p] = "none" /\ gcref[p] = 0
       /\ ~finalizer[p] /\ ~registered[p]
  /\ phase[p] = "allocated" =>
       /\ boxed[p] /\ frees[p] = 0 /\ object[p] = "alive" /\ gcref[p] = 1
       /\ ~finalizer[p] /\ ~registered[p]

\* From then on the handle, or the registry after it, owns one reference,
\* and the finalizer is the only thing that frees the box.
Counted(p) ==
  /\ phase[p] \in {"handle", "named", "embedding", "dropping"} =>
       /\ boxed[p] /\ frees[p] = 0 /\ object[p] = "alive" /\ gcref[p] = 1
       /\ finalizer[p]
  /\ phase[p] \in {"handle", "named", "embedding"} => ~registered[p]
  /\ phase[p] = "gone" =>
       \/ /\ boxed[p] /\ frees[p] = 1 /\ object[p] = "none" /\ gcref[p] = 0
          /\ ~finalizer[p] /\ ~registered[p]
       \/ /\ boxed[p] /\ finalizer[p]
          /\ gcref[p] = IF registered[p] THEN 1 ELSE 0
          /\ registered[p] => object[p] = "alive"
          /\ object[p] \in {"alive", "finalizing"} => frees[p] = 0
          /\ object[p] = "collected" => frees[p] = 1
          /\ object[p] # "none"

\* A value being filled belongs to one call and holds no primop yet.
Filling ==
  /\ \A p \in Prims : target[p] # None <=> phase[p] = "embedding"
  /\ \A p \in Prims : phase[p] = "embedding" =>
       target[p] \in Values /\ vref[target[p]] = 1 /\ vprim[target[p]] = None
  /\ \A p, q \in Prims : p # q /\ target[p] # None => target[p] # target[q]

\* A primop that a referenced value holds left its handle behind and was not
\* collected.
Held ==
  \A v \in Values, p \in Prims :
    vref[v] > 0 /\ vprim[v] = p =>
      /\ phase[p] \in {"dropping", "gone"}
      /\ object[p] = "alive"
      /\ finalizer[p]

\* The registry, the flag and the states agree.
Recorded ==
  /\ \A p \in Prims : registered[p] <=> p \in registry
  /\ \A s \in States : builtins[s] \subseteq registry

\* A name belongs to one primop among those registered or being registered.
Claimed(p) == p \in registry \/ phase[p] = "named"

NamesInv ==
  /\ \A p \in Prims : phase[p] # "none" => name[p] \in Names
  /\ \A p \in Prims : Claimed(p) => name[p] \in names
  /\ \A p, q \in Prims : p # q /\ Claimed(p) /\ Claimed(q) => name[p] # name[q]

PrimInv ==
  /\ TypeOK
  /\ \A p \in Prims : Unborn(p) /\ Counted(p)
  /\ Filling
  /\ Held
  /\ Recorded
  /\ NamesInv

-----------------------------------------------------------------------------
LEMMA PrimInvInit == Init => PrimInv
BY PrimOpsAssumption
   DEF Init, PrimInv, TypeOK, Phases, Unborn, Counted, Filling, Held, Recorded,
       NamesInv, Claimed

LEMMA PrimInvStep == PrimInv /\ [Next]_vars => PrimInv'
<1> SUFFICES ASSUME PrimInv, [Next]_vars PROVE PrimInv'
  OBVIOUS
<1> USE PrimOpsAssumption
    DEF PrimInv, TypeOK, Phases, Unborn, Counted, Filling, Held, Recorded,
        NamesInv, Claimed, Goto, handleVars, closureVars, objectVars,
        globalVars, stateVars, valueVars
<1>1. ASSUME NEW p \in Prims, NEW n \in Names, BoxClosure(p, n) PROVE PrimInv'
  BY <1>1 DEF BoxClosure
<1>2. ASSUME NEW p \in Prims, AllocPrimOp(p) PROVE PrimInv'
  BY <1>2 DEF AllocPrimOp
<1>3. ASSUME NEW p \in Prims, AllocPrimOpFails(p) PROVE PrimInv'
  BY <1>3 DEF AllocPrimOpFails
<1>4. ASSUME NEW p \in Prims, RegisterFinalizer(p) PROVE PrimInv'
  BY <1>4 DEF RegisterFinalizer
<1>5. ASSUME NEW p \in Prims, ClaimName(p) PROVE PrimInv'
  BY <1>5 DEF ClaimName
<1>6. ASSUME NEW p \in Prims, RefuseDuplicate(p) PROVE PrimInv'
  BY <1>6 DEF RefuseDuplicate
<1>7. ASSUME NEW p \in Prims, RegisterPrimOp(p) PROVE PrimInv'
  BY <1>7 DEF RegisterPrimOp
<1>8. ASSUME NEW p \in Prims, RegisterPrimOpFails(p) PROVE PrimInv'
  BY <1>8 DEF RegisterPrimOpFails
<1>9. ASSUME NEW p \in Prims, NEW s \in States, NEW v \in Values,
             AllocValue(p, s, v)
      PROVE  PrimInv'
  BY <1>9 DEF AllocValue, Unused
<1>10. ASSUME NEW p \in Prims, AllocValueFails(p) PROVE PrimInv'
  BY <1>10 DEF AllocValueFails
<1>11. ASSUME NEW p \in Prims, InitPrimOp(p) PROVE PrimInv'
  BY <1>11 DEF InitPrimOp
<1>12. ASSUME NEW p \in Prims, InitPrimOpFails(p) PROVE PrimInv'
  BY <1>12 DEF InitPrimOpFails
<1>13. ASSUME NEW p \in Prims, DropPrimOp(p) PROVE PrimInv'
  BY <1>13 DEF DropPrimOp
<1>14. ASSUME NEW p \in Prims, Collect(p) PROVE PrimInv'
  BY <1>14 DEF Collect, Reachable
<1>15. ASSUME NEW p \in Prims, Finalize(p) PROVE PrimInv'
  BY <1>15 DEF Finalize
<1>16. ASSUME NEW s \in States, BuildState(s) PROVE PrimInv'
  BY <1>16 DEF BuildState
<1>17. ASSUME NEW s \in States, DropState(s) PROVE PrimInv'
  BY <1>17 DEF DropState
<1>18. ASSUME NEW v \in Values, CloneValue(v) PROVE PrimInv'
  BY <1>18 DEF CloneValue, Wrapped
<1>19. ASSUME NEW v \in Values, DropValue(v) PROVE PrimInv'
  BY <1>19 DEF DropValue, Wrapped
<1>20. CASE UNCHANGED vars
  BY <1>20 DEF vars
<1> QED
  BY <1>1, <1>2, <1>3, <1>4, <1>5, <1>6, <1>7, <1>8, <1>9, <1>10, <1>11,
     <1>12, <1>13, <1>14, <1>15, <1>16, <1>17, <1>18, <1>19, <1>20, ZenonT(30)
     DEF Next, New, Register, IntoValue

THEOREM PrimInvariant == Spec => []PrimInv
BY PrimInvInit, PrimInvStep, PTL DEF Spec

-----------------------------------------------------------------------------
(* The safety properties.                                                  *)

\* A callable primop was registered, or a referenced value holds it.
LEMMA CallableIsKept ==
  ASSUME PrimInv, NEW p \in Prims, Callable(p)
  PROVE  /\ p \in registry \/ \E v \in Values : vref[v] > 0 /\ vprim[v] = p
         /\ phase[p] \in {"dropping", "gone"}
         /\ object[p] = "alive" /\ finalizer[p] /\ boxed[p] /\ frees[p] = 0
<1> USE DEF PrimInv, TypeOK, Phases, Unborn, Counted, Held, Recorded, Callable
<1>1. CASE \E s \in built : p \in builtins[s]
  <2>1. p \in registry /\ registered[p]
    BY <1>1
  <2>2. phase[p] \in {"dropping", "gone"}
    BY <2>1
  <2> QED
    BY <2>1, <2>2
<1>2. CASE \E v \in Values : vref[v] > 0 /\ vprim[v] = p
  BY <1>2
<1> QED
  BY <1>1, <1>2

\* The type invariant.
THEOREM TypeCorrect == Spec => []TypeOK
<1>1. PrimInv => TypeOK
  BY DEF PrimInv
<1> QED
  BY PrimInvariant, <1>1, PTL

\* The evaluator never enters a closure whose box was freed.
THEOREM ClosuresOutliveCalls == Spec => []NoUseAfterFree
<1>1. PrimInv => NoUseAfterFree
  <2> SUFFICES ASSUME PrimInv, NEW p \in Prims, Callable(p) \/ p \in registry
               PROVE  boxed[p] /\ frees[p] = 0
    BY DEF NoUseAfterFree
  <2>1. CASE Callable(p)
    BY <2>1, CallableIsKept
  <2>2. CASE p \in registry
    BY <2>2 DEF PrimInv, TypeOK, Phases, Unborn, Counted, Recorded
  <2> QED
    BY <2>1, <2>2
<1> QED
  BY PrimInvariant, <1>1, PTL

\* No box is freed twice.
THEOREM BoxesFreedOnce == Spec => []FreedOnce
<1>1. PrimInv => FreedOnce
  <2> SUFFICES ASSUME PrimInv, NEW p \in Prims
               PROVE  frees[p] <= 1 /\ (frees[p] = 1 => boxed[p])
    BY DEF FreedOnce
  <2>1. CASE phase[p] = "none"
    BY <2>1 DEF PrimInv, Unborn
  <2>2. CASE phase[p] # "none"
    <3>1. boxed[p] /\ frees[p] \in {0, 1}
      BY <2>2 DEF PrimInv, TypeOK, Phases, Unborn, Counted
    <3> QED
      BY <3>1
  <2> QED
    BY <2>1, <2>2
<1> QED
  BY PrimInvariant, <1>1, PTL

\* A closure nothing wants is collectable and has its finalizer.
THEOREM NothingOrphaned == Spec => []NoOrphanClosure
<1>1. PrimInv => NoOrphanClosure
  BY DEF PrimInv, TypeOK, Phases, Unborn, Counted, Held, Recorded,
         NoOrphanClosure, Wanted, InHand, Callable, Reachable
<1> QED
  BY PrimInvariant, <1>1, PTL

\* No two builtins share a name.
THEOREM BuiltinNamesUnique == Spec => []UniqueBuiltins
<1>1. PrimInv => UniqueBuiltins
  BY DEF PrimInv, TypeOK, NamesInv, Claimed, UniqueBuiltins
<1> QED
  BY PrimInvariant, <1>1, PTL

-----------------------------------------------------------------------------
(* The refinement of ClosureMemory.  A step of PrimOps moves at most one   *)
(* primop in the abstraction: it is created, discarded, released or freed. *)

MemMap    == [p \in Prims |-> MemoryOf(p)]
WantedSet == {p \in Prims : Wanted(p)}

\* Nothing but p moves.
OthersKeep(p) ==
  \A q \in Prims \ {p} :
    MemoryOf(q)' = MemoryOf(q) /\ (Wanted(q)' <=> Wanted(q))

\* The four abstract moves and the stutter.
LEMMA AbstractMove ==
  ASSUME NEW p \in Prims, OthersKeep(p),
         \/ /\ MemoryOf(p) = "none" /\ MemoryOf(p)' = "live"
            /\ Wanted(p)'
         \/ /\ MemoryOf(p) = "live" /\ MemoryOf(p)' = "freed"
            /\ ~Wanted(p)'
         \/ /\ MemoryOf(p) = "live" /\ MemoryOf(p)' = "live"
            /\ ~Wanted(p)'
         \/ /\ MemoryOf(p)' = MemoryOf(p)
            /\ Wanted(p)' <=> Wanted(p)
  PROVE  Memory!Next \/ UNCHANGED <<MemMap, WantedSet>>
<1> DEFINE Maps(m) == MemMap' = [MemMap EXCEPT ![p] = m]
<1>1. MemMap' = [MemMap EXCEPT ![p] = MemoryOf(p)']
  BY DEF MemMap, OthersKeep
<1>2. MemMap[p] = MemoryOf(p) /\ (p \in WantedSet <=> Wanted(p))
  BY DEF MemMap, WantedSet
<1>3. Wanted(p)' => WantedSet' = WantedSet \cup {p}
  BY DEF WantedSet, OthersKeep
<1>4. ~Wanted(p)' => WantedSet' = WantedSet \ {p}
  BY DEF WantedSet, OthersKeep
<1>5. CASE /\ MemoryOf(p) = "none" /\ MemoryOf(p)' = "live"
           /\ Wanted(p)'
  <2>1. Memory!Create(p)
    BY <1>1, <1>2, <1>3, <1>5 DEF Memory!Create, MemMap, WantedSet
  <2> QED
    BY <2>1 DEF Memory!Next
<1>6. CASE /\ MemoryOf(p) = "live" /\ MemoryOf(p)' = "freed"
           /\ ~Wanted(p)'
  <2>1. CASE Wanted(p)
    <3>1. Memory!Discard(p)
      BY <1>1, <1>2, <1>4, <1>6, <2>1 DEF Memory!Discard, MemMap, WantedSet
    <3> QED
      BY <3>1 DEF Memory!Next
  <2>2. CASE ~Wanted(p)
    <3>1. WantedSet' = WantedSet
      BY <1>4, <1>6, <1>2, <2>2
    <3>2. Memory!Free(p)
      BY <1>1, <1>2, <1>6, <2>2, <3>1 DEF Memory!Free, MemMap, WantedSet
    <3> QED
      BY <3>2 DEF Memory!Next
  <2> QED
    BY <2>1, <2>2
<1>7. CASE /\ MemoryOf(p) = "live" /\ MemoryOf(p)' = "live"
           /\ ~Wanted(p)'
  <2>1. MemMap' = MemMap
    BY <1>1, <1>2, <1>7 DEF MemMap
  <2>2. CASE Wanted(p)
    <3>1. Memory!Release(p)
      BY <1>2, <1>4, <1>7, <2>1, <2>2 DEF Memory!Release, MemMap, WantedSet
    <3> QED
      BY <3>1 DEF Memory!Next
  <2>3. CASE ~Wanted(p)
    BY <1>2, <1>4, <1>7, <2>1, <2>3
  <2> QED
    BY <2>2, <2>3
<1>8. CASE /\ MemoryOf(p)' = MemoryOf(p)
           /\ Wanted(p)' <=> Wanted(p)
  BY <1>8 DEF MemMap, WantedSet, OthersKeep
<1> QED
  BY <1>5, <1>6, <1>7, <1>8

LEMMA Kept ==
  ASSUME \A q \in Prims :
           MemoryOf(q)' = MemoryOf(q) /\ (Wanted(q)' <=> Wanted(q))
  PROVE  UNCHANGED <<MemMap, WantedSet>>
BY DEF MemMap, WantedSet

\* Only the handle, the registry, the builtins and the values decide what is
\* wanted: a state's builtins add nothing to the registry.
LEMMA WantedByRegistry ==
  ASSUME PrimInv, NEW p \in Prims
  PROVE  Wanted(p) <=> \/ InHand(p)
                       \/ p \in registry
                       \/ \E v \in Values : vref[v] > 0 /\ vprim[v] = p
BY DEF PrimInv, TypeOK, Recorded, Wanted, Callable

AbstractStep == Memory!Next \/ UNCHANGED <<MemMap, WantedSet>>

LEMMA MemoryStep ==
  PrimInv /\ [Next]_vars => [Memory!Next]_<<MemMap, WantedSet>>
<1> SUFFICES ASSUME PrimInv, [Next]_vars
             PROVE  AbstractStep
  BY DEF AbstractStep
<1> DEFINE HeldBy(p) == \E v \in Values : vref[v] > 0 /\ vprim[v] = p
<1>i. PrimInv'
  BY PrimInvStep
<1>w. \A p \in Prims : Wanted(p) <=> InHand(p) \/ p \in registry \/ HeldBy(p)
  BY WantedByRegistry
<1>x. \A p \in Prims :
        Wanted(p)' <=> InHand(p)' \/ p \in registry' \/ HeldBy(p)'
  <2>1. ASSUME NEW p \in Prims
        PROVE  Wanted(p)' <=> InHand(p)' \/ p \in registry' \/ HeldBy(p)'
    BY <1>i DEF PrimInv, TypeOK, Recorded, Wanted, Callable
  <2> QED
    BY <2>1
<1> USE DEF PrimInv, TypeOK, Phases, Unborn, Counted, Filling, Held, Recorded,
            Goto, MemoryOf, InHand, handleVars, closureVars, objectVars,
            globalVars, stateVars, valueVars
<1>k. ASSUME \A q \in Prims : /\ MemoryOf(q)' = MemoryOf(q)
                              /\ InHand(q)' <=> InHand(q)
                              /\ q \in registry' <=> q \in registry
                              /\ HeldBy(q)' <=> HeldBy(q)
      PROVE  AbstractStep
  BY <1>k, <1>w, <1>x, Kept DEF AbstractStep
<1>o. ASSUME NEW p \in Prims,
             \A q \in Prims \ {p} : /\ MemoryOf(q)' = MemoryOf(q)
                                    /\ InHand(q)' <=> InHand(q)
                                    /\ q \in registry' <=> q \in registry
                                    /\ HeldBy(q)' <=> HeldBy(q)
      PROVE  OthersKeep(p)
  BY <1>o, <1>w, <1>x DEF OthersKeep
<1>1. ASSUME NEW p \in Prims, NEW n \in Names, BoxClosure(p, n)
      PROVE  AbstractStep
  <2>1. OthersKeep(p)
    BY <1>1, <1>o, ZenonT(60) DEF BoxClosure
  <2>2. MemoryOf(p) = "none" /\ MemoryOf(p)' = "live" /\ Wanted(p)'
    BY <1>1, <1>x DEF BoxClosure
  <2> QED
    BY <2>1, <2>2, AbstractMove DEF AbstractStep
<1>2. ASSUME NEW p \in Prims, AllocPrimOp(p) PROVE AbstractStep
  BY <1>2, <1>k DEF AllocPrimOp
<1>3. ASSUME NEW p \in Prims, AllocPrimOpFails(p) PROVE AbstractStep
  <2>1. OthersKeep(p)
    BY <1>3, <1>o DEF AllocPrimOpFails
  <2>2. MemoryOf(p) = "live" /\ MemoryOf(p)' = "freed"
    BY <1>3 DEF AllocPrimOpFails
  <2>3. ~Wanted(p)'
    BY <1>3, <1>x DEF AllocPrimOpFails
  <2> QED
    BY <2>1, <2>2, <2>3, AbstractMove DEF AbstractStep
<1>4. ASSUME NEW p \in Prims, RegisterFinalizer(p) PROVE AbstractStep
  BY <1>4, <1>k DEF RegisterFinalizer
<1>5. ASSUME NEW p \in Prims, ClaimName(p) PROVE AbstractStep
  BY <1>5, <1>k DEF ClaimName
<1>6. ASSUME NEW p \in Prims, RefuseDuplicate(p) PROVE AbstractStep
  BY <1>6, <1>k DEF RefuseDuplicate
<1>7. ASSUME NEW p \in Prims, RegisterPrimOp(p) PROVE AbstractStep
  <2>1. OthersKeep(p)
    BY <1>7, <1>o DEF RegisterPrimOp
  <2>2. MemoryOf(p)' = MemoryOf(p) /\ Wanted(p)' /\ Wanted(p)
    BY <1>7, <1>w, <1>x DEF RegisterPrimOp
  <2> QED
    BY <2>1, <2>2, AbstractMove DEF AbstractStep
<1>8. ASSUME NEW p \in Prims, RegisterPrimOpFails(p) PROVE AbstractStep
  BY <1>8, <1>k DEF RegisterPrimOpFails
<1>9. ASSUME NEW p \in Prims, NEW s \in States, NEW v \in Values,
             AllocValue(p, s, v)
      PROVE  AbstractStep
  <2>1. \A q \in Prims : HeldBy(q)' <=> HeldBy(q)
    BY <1>9, PrimOpsAssumption DEF AllocValue, Unused
  <2> QED
    BY <1>9, <1>k, <2>1 DEF AllocValue
<1>10. ASSUME NEW p \in Prims, AllocValueFails(p) PROVE AbstractStep
  BY <1>10, <1>k DEF AllocValueFails
<1>11. ASSUME NEW p \in Prims, InitPrimOp(p) PROVE AbstractStep
  <2>1. \A q \in Prims \ {p} : HeldBy(q)' <=> HeldBy(q)
    BY <1>11, PrimOpsAssumption DEF InitPrimOp
  <2>2. OthersKeep(p)
    BY <1>11, <1>o, <2>1 DEF InitPrimOp
  <2>3. MemoryOf(p)' = MemoryOf(p) /\ Wanted(p)' /\ Wanted(p)
    BY <1>11, <1>w, <1>x DEF InitPrimOp
  <2> QED
    BY <2>2, <2>3, AbstractMove DEF AbstractStep
<1>12. ASSUME NEW p \in Prims, InitPrimOpFails(p) PROVE AbstractStep
  <2>1. \A q \in Prims : HeldBy(q)' <=> HeldBy(q)
    BY <1>12, PrimOpsAssumption DEF InitPrimOpFails
  <2> QED
    BY <1>12, <1>k, <2>1 DEF InitPrimOpFails
<1>13. ASSUME NEW p \in Prims, DropPrimOp(p) PROVE AbstractStep
  <2>1. OthersKeep(p)
    BY <1>13, <1>o DEF DropPrimOp
  <2>2. MemoryOf(p) = "live" /\ MemoryOf(p)' = "live" /\ Wanted(p)
    BY <1>13, <1>w DEF DropPrimOp
  <2> QED
    BY <2>1, <2>2, AbstractMove DEF AbstractStep
<1>14. ASSUME NEW p \in Prims, Collect(p) PROVE AbstractStep
  BY <1>14, <1>k DEF Collect
<1>15. ASSUME NEW p \in Prims, Finalize(p) PROVE AbstractStep
  <2>1. OthersKeep(p)
    BY <1>15, <1>o, ZenonT(60) DEF Finalize
  <2>2. MemoryOf(p) = "live" /\ MemoryOf(p)' = "freed"
    BY <1>15 DEF Finalize
  <2>3. ~Wanted(p)'
    BY <1>15, <1>x DEF Finalize
  <2> QED
    BY <2>1, <2>2, <2>3, AbstractMove DEF AbstractStep
<1>16. ASSUME NEW s \in States, BuildState(s) PROVE AbstractStep
  BY <1>16, <1>k DEF BuildState
<1>17. ASSUME NEW s \in States, DropState(s) PROVE AbstractStep
  BY <1>17, <1>k DEF DropState
<1>18. ASSUME NEW v \in Values, CloneValue(v) PROVE AbstractStep
  <2>1. \A q \in Prims : HeldBy(q)' <=> HeldBy(q)
    BY <1>18 DEF CloneValue, Wrapped
  <2> QED
    BY <1>18, <1>k, <2>1 DEF CloneValue
<1>19. ASSUME NEW v \in Values, DropValue(v) PROVE AbstractStep
  <2>1. \A q \in Prims : vprim[v] # q => (HeldBy(q)' <=> HeldBy(q))
    BY <1>19 DEF DropValue, Wrapped
  <2>2. CASE vprim[v] \notin Prims
    BY <1>19, <1>k, <2>1, <2>2 DEF DropValue
  <2>3. CASE vprim[v] \in Prims
    <3> PICK p \in Prims : p = vprim[v]
      BY <2>3
    <3>1. OthersKeep(p)
      BY <1>19, <1>o, <2>1 DEF DropValue
    <3>2. MemoryOf(p) = "live" /\ MemoryOf(p)' = "live" /\ Wanted(p)
      BY <1>19, <1>w DEF DropValue, Wrapped
    <3> QED
      BY <3>1, <3>2, AbstractMove DEF AbstractStep
  <2> QED
    BY <2>2, <2>3
<1>20. CASE UNCHANGED vars
  BY <1>20, <1>k DEF vars
<1> HIDE DEF PrimInv, TypeOK, Phases, Unborn, Counted, Filling, Held, Recorded,
             Goto, MemoryOf, InHand, handleVars, closureVars, objectVars,
             globalVars, stateVars, valueVars, HeldBy
<1>21. ASSUME NEW p \in Prims, New(p) \/ Register(p) \/ IntoValue(p)
       PROVE  AbstractStep
  BY <1>1, <1>2, <1>3, <1>4, <1>5, <1>6, <1>7, <1>8, <1>9, <1>10, <1>11,
     <1>12, <1>21 DEF New, Register, IntoValue
<1>22. CASE Next
  BY <1>13, <1>14, <1>15, <1>16, <1>17, <1>18, <1>19, <1>21, <1>22 DEF Next
<1> QED
  BY <1>20, <1>22

\* References, registry flag and finalizers implement the closure memory.
THEOREM MemoryImplemented == Spec => ImplementsMemory
<1>1. Init => Memory!Init
  <2> SUFFICES ASSUME Init PROVE Memory!Init
    OBVIOUS
  <2>1. \A p \in Prims : MemoryOf(p) = "none"
    BY DEF Init, MemoryOf
  <2>2. ASSUME NEW p \in Prims PROVE ~Wanted(p)
    BY DEF Init, Wanted, InHand, Callable
  <2> QED
    BY <2>1, <2>2 DEF Memory!Init
<1>2. PrimInv /\ [Next]_vars
        => [Memory!Next]_<<[p \in Prims |-> MemoryOf(p)],
                           {p \in Prims : Wanted(p)}>>
  BY MemoryStep DEF MemMap, WantedSet
<1> QED
  BY <1>1, <1>2, PrimInvariant, PTL DEF Spec, ImplementsMemory, Memory!Spec
=============================================================================
