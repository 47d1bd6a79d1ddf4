------------------------ MODULE ExternalValuesProofs ------------------------
(***************************************************************************)
(* Proofs about ExternalValues, for any numbers of payloads, types, values *)
(* and handles.  The invariant follows a box from make_external, which may *)
(* take it back as long as no external value has it, to the external value *)
(* that has it, which the handle leads to.                                 *)
(***************************************************************************)
EXTENDS ExternalValues, TLAPS

BoxInv ==
  /\ TypeOK
  /\ misread = {}
  /\ \A x \in Externals : content[x] \in Payloads => box[content[x]] = "boxed"
  /\ \A h \in Handles : ext_ptr[h] # None => content[ext_ptr[h]] \in Payloads
  /\ \A r \in refs :
       /\ ext_ptr[r.handle] # None
       /\ content[ext_ptr[r.handle]] = r.payload
       /\ TypeId[r.payload] = r.type
  /\ make.stage # "idle" =>
       make.payload \in Payloads /\ box[make.payload] = "boxed"
  /\ make.stage \in {"boxed", "allocated"} =>
       \A x \in Externals : content[x] # make.payload
  /\ make.stage = "created" =>
       make.ext \in Externals /\ content[make.ext] = make.payload

LEMMA BoxInvInit == Init => BoxInv
BY ExternalValuesAssumption DEF Init, BoxInv, TypeOK, Idle

LEMMA BoxInvStep == BoxInv /\ [Next]_vars => BoxInv'
<1> SUFFICES ASSUME BoxInv, [Next]_vars
             PROVE  BoxInv'
  OBVIOUS
<1> USE ExternalValuesAssumption
<1> USE DEF BoxInv, TypeOK, Idle, Refs
<1>1. ASSUME NEW p \in Payloads, Box(p)
      PROVE  BoxInv'
  BY <1>1, ZenonT(60) DEF Box
<1>2. CASE AllocValue
  BY <1>2 DEF AllocValue
<1>3. ASSUME NEW x \in Externals, Create(x)
      PROVE  BoxInv'
  BY <1>3, ZenonT(60) DEF Create
<1>4. CASE CreateFails
  BY <1>4 DEF CreateFails
<1>5. ASSUME NEW h \in Handles, InitExternal(h)
      PROVE  BoxInv'
  BY <1>5 DEF InitExternal
<1>6. ASSUME NEW h \in Handles, DropHandle(h)
      PROVE  BoxInv'
  BY <1>6 DEF DropHandle
<1>7. ASSUME NEW h \in Handles, NEW t \in Types, AsExternal(h, t)
      PROVE  BoxInv'
  BY <1>7 DEF AsExternal, Ours, Reads
<1>8. ASSUME NEW r \in refs, DropRef(r)
      PROVE  BoxInv'
  BY <1>8 DEF DropRef
<1>9. ASSUME NEW x \in Externals, Hold(x) \/ LetGo(x)
      PROVE  BoxInv'
  BY <1>9 DEF Hold, LetGo
<1>10. ASSUME NEW x \in Externals, Collect(x)
       PROVE  BoxInv'
  BY <1>10 DEF Collect, Reached
<1>11. ASSUME NEW x \in Externals, Callback(x)
       PROVE  BoxInv'
  BY <1>11 DEF Callback, Reached, Ours, Reads
<1>12. ASSUME NEW x \in Externals, NEW c \in {Null, Stranger},
              OtherExternal(x, c)
       PROVE  BoxInv'
  BY <1>12 DEF OtherExternal
<1>13. ASSUME NEW x \in Externals, NEW y \in Externals, Equal(x, y)
       PROVE  BoxInv'
  BY <1>13 DEF Equal, Reached, Ours, Reads
<1>14. CASE UNCHANGED vars
  BY <1>14 DEF vars
<1>15. QED
  BY <1>1, <1>2, <1>3, <1>4, <1>5, <1>6, <1>7, <1>8, <1>9, <1>10, <1>11,
     <1>12, <1>13, <1>14 DEF Next

\* Every variable keeps its type, for any numbers of everything.
THEOREM TypeCorrect == Spec => []TypeOK
<1>1. BoxInv => TypeOK
  BY DEF BoxInv
<1>2. QED BY <1>1, BoxInvInit, BoxInvStep, PTL DEF Spec

\* No code reads Rust data that was dropped or is of another type.
THEOREM PayloadsSound == Spec => []PayloadSound
<1>1. BoxInv => PayloadSound
  BY DEF BoxInv, PayloadSound, TypeOK, Refs, Reached, Ours
<1>2. QED BY <1>1, BoxInvInit, BoxInvStep, PTL DEF Spec

----------------------------------------------------------------------------
(* Ownership is implemented                                                *)

Boxed == {p \in Payloads : box[p] = "boxed"}
LiveExternals == {x \in Externals : content[x] # None}
Alive == Boxed \cup LiveExternals
Needs == [o \in Payloads \cup Externals |->
            IF o \in Externals THEN {content[o]} \cap Payloads ELSE {}]
Held == Reached \cup ({make.payload} \cap Payloads)
OwnershipVars == <<Alive, Needs, Held>>

\* The promise in the terms of the names above.
LEMMA NamesOwn ==
  ASSUME \/ /\ Held' \subseteq Held
            /\ Alive' = Alive /\ Needs' = Needs
         \/ \E o \in Payloads \cup Externals :
              /\ o \notin Alive /\ Alive' = Alive \cup {o}
              /\ o \in Held' /\ Held' \subseteq Held \cup {o}
              /\ Needs'[o] \subseteq Alive
              /\ Needs' = [Needs EXCEPT ![o] = Needs'[o]]
         \/ \E o \in Payloads \cup Externals :
              /\ o \in Alive /\ Alive' = Alive \ {o}
              /\ o \notin Held' /\ Held' \subseteq Held
              /\ \A x \in Alive : o \notin Needs[x]
              /\ Needs' = [Needs EXCEPT ![o] = {}]
  PROVE  Ownership!Next
BY DEF Ownership!Next, Ownership!GiveUp, Ownership!Acquire, Ownership!Dispose,
   Alive, Boxed, LiveExternals, Needs, Held

\* Nothing is made or freed.
LEMMA StillGivesUp ==
  ASSUME UNCHANGED <<box, content>>, Held' \subseteq Held
  PROVE  Ownership!Next
BY NamesOwn DEF Alive, Boxed, LiveExternals, Needs

\* What an external value needs follows the pointer it is given.
LEMMA NeedsFollow ==
  ASSUME NEW x \in Externals, NEW c,
         content \in [Externals -> Payloads \cup {Null, Stranger, None}],
         content' = [content EXCEPT ![x] = c]
  PROVE  /\ Needs' = [Needs EXCEPT ![x] = {c} \cap Payloads]
         /\ Needs'[x] = {c} \cap Payloads
<1>1. content'[x] = c /\ \A y \in Externals \ {x} : content'[y] = content[y]
  OBVIOUS
<1> QED
  BY <1>1 DEF Needs

LEMMA OwnershipStep ==
  BoxInv /\ [Next]_vars => [Ownership!Next]_OwnershipVars
<1> SUFFICES ASSUME BoxInv, [Next]_vars
             PROVE  [Ownership!Next]_OwnershipVars
  OBVIOUS
<1>t. TypeOK
  BY DEF BoxInv
<1> USE ExternalValuesAssumption
<1>1. ASSUME NEW p \in Payloads, Box(p)
      PROVE  Ownership!Next
  <2>1. /\ p \notin Alive /\ Alive' = Alive \cup {p}
        /\ p \notin Externals /\ Needs' = Needs /\ Needs[p] = {}
    BY <1>t, <1>1 DEF Box, Alive, Boxed, LiveExternals, Needs, TypeOK
  <2>2. make' = [stage |-> "boxed", payload |-> p, ext |-> None]
    BY <1>1 DEF Box, Idle
  <2>3. Held' = Reached \cup {p}
    BY <1>t, <1>1, <2>2 DEF Box, Held, Reached, Idle, TypeOK
  <2>4. /\ Held' \subseteq Held \cup {p}
        /\ Needs' = [Needs EXCEPT ![p] = Needs'[p]]
    BY <2>1, <2>3 DEF Held, Needs
  <2> QED
    BY <2>1, <2>3, <2>4, NamesOwn
<1>2. ASSUME AllocValue
      PROVE  Ownership!Next
  <2>1. UNCHANGED <<box, content, ext_ptr, held>>
    BY <1>2 DEF AllocValue
  <2>2. make'.payload \in {make.payload, None} /\ make'.ext \in {make.ext, None}
    BY <1>t, <1>2 DEF AllocValue, Idle, TypeOK
  <2>3. Held' \subseteq Held
    BY <1>t, <2>1, <2>2 DEF Held, Reached, TypeOK
  <2> QED
    BY <2>1, <2>3, StillGivesUp
<1>3. ASSUME NEW x \in Externals, Create(x)
      PROVE  Ownership!Next
  <2>1. /\ content' = [content EXCEPT ![x] = make.payload] /\ content[x] = None
        /\ make.payload \in Boxed /\ make.payload # None
        /\ make'.payload = make.payload /\ make'.ext = x
        /\ UNCHANGED <<box, ext_ptr, held>>
    BY <1>t, <1>3 DEF Create, BoxInv, TypeOK, Boxed
  <2>2. x \notin Alive /\ Alive' = Alive \cup {x} /\ make.payload \in Alive
    BY <1>t, <2>1 DEF Alive, Boxed, LiveExternals, TypeOK
  <2>3. x \in Held' /\ Held' \subseteq Held \cup {x}
    BY <1>t, <2>1 DEF Held, Reached, TypeOK
  <2>4. /\ Needs'[x] \subseteq Alive
        /\ Needs' = [Needs EXCEPT ![x] = Needs'[x]]
    <3>1. content \in [Externals -> Payloads \cup {Null, Stranger, None}]
      BY <1>t DEF TypeOK
    <3>2. /\ Needs' = [Needs EXCEPT ![x] = {make.payload} \cap Payloads]
          /\ Needs'[x] = {make.payload} \cap Payloads
      BY <2>1, <3>1, NeedsFollow
    <3> QED
      BY <2>2, <3>2
  <2> QED
    BY <2>2, <2>3, <2>4, NamesOwn
\* No external value has the box yet.
<1>4. ASSUME CreateFails
      PROVE  Ownership!Next
  <2>1. PICK p \in Payloads : p = make.payload
    BY <1>4 DEF CreateFails, BoxInv
  <2>2. /\ box[p] = "boxed" /\ box' = [box EXCEPT ![p] = "dropped"]
        /\ \A x \in Externals : content[x] # p
        /\ make' = Idle /\ UNCHANGED <<content, ext_ptr, held>>
    BY <1>4, <2>1 DEF CreateFails, BoxInv
  <2>3. p \in Alive /\ Alive' = Alive \ {p}
    BY <1>t, <2>2 DEF Alive, Boxed, LiveExternals, TypeOK
  <2>4. Held' \subseteq Held /\ p \notin Held'
    BY <1>t, <2>2 DEF Held, Reached, Idle, TypeOK
  <2>5. /\ \A x \in Alive : p \notin Needs[x]
        /\ Needs' = Needs /\ Needs = [Needs EXCEPT ![p] = {}]
    BY <2>2 DEF Alive, Boxed, LiveExternals, Needs
  <2> QED
    BY <2>3, <2>4, <2>5, NamesOwn
<1>5. ASSUME NEW h \in Handles, InitExternal(h)
      PROVE  Ownership!Next
  <2>1. /\ UNCHANGED <<box, content, held>> /\ make' = Idle
        /\ \/ ext_ptr' = [ext_ptr EXCEPT ![h] = make.ext]
           \/ ext_ptr' = ext_ptr
    BY <1>5 DEF InitExternal
  <2>2. \A g \in Handles : ext_ptr'[g] \in {ext_ptr[g], make.ext}
    BY <1>t, <2>1 DEF TypeOK
  <2>3. Held' \subseteq Held
    BY <1>t, <2>1, <2>2 DEF Held, Reached, Idle, TypeOK
  <2> QED
    BY <2>1, <2>3, StillGivesUp
<1>6. ASSUME NEW h \in Handles, DropHandle(h)
      PROVE  Ownership!Next
  <2>1. UNCHANGED <<box, content, held, make>>
    BY <1>6 DEF DropHandle
  <2>2. \A g \in Handles : ext_ptr'[g] \in {ext_ptr[g], None}
    BY <1>t, <1>6 DEF DropHandle, TypeOK
  <2>3. Held' \subseteq Held
    BY <1>t, <2>1, <2>2 DEF Held, Reached, TypeOK
  <2> QED
    BY <2>1, <2>3, StillGivesUp
<1>7. CASE UNCHANGED <<box, content, ext_ptr, held, make>>
  BY <1>7, StillGivesUp DEF Held, Reached
<1>8. ASSUME NEW x \in Externals, Hold(x) \/ LetGo(x)
      PROVE  Ownership!Next
  BY <1>8, StillGivesUp DEF Hold, LetGo, Held, Reached
<1>9. ASSUME NEW x \in Externals, NEW c \in {Null, Stranger},
             OtherExternal(x, c)
      PROVE  Ownership!Next
  <2>1. /\ content' = [content EXCEPT ![x] = c] /\ content[x] = None
        /\ c # None /\ c \notin Payloads /\ held' = held \cup {x}
        /\ UNCHANGED <<box, ext_ptr, make>>
    BY <1>9 DEF OtherExternal
  <2>2. x \notin Alive /\ Alive' = Alive \cup {x}
    BY <1>t, <2>1 DEF Alive, Boxed, LiveExternals, TypeOK
  <2>3. x \in Held' /\ Held' \subseteq Held \cup {x}
    BY <1>t, <2>1 DEF Held, Reached, TypeOK
  <2>4. /\ Needs'[x] \subseteq Alive
        /\ Needs' = [Needs EXCEPT ![x] = Needs'[x]]
    <3>1. content \in [Externals -> Payloads \cup {Null, Stranger, None}]
      BY <1>t DEF TypeOK
    <3>2. /\ Needs' = [Needs EXCEPT ![x] = {c} \cap Payloads]
          /\ Needs'[x] = {c} \cap Payloads
      BY <2>1, <3>1, NeedsFollow
    <3> QED
      BY <2>1, <3>2
  <2> QED
    BY <2>2, <2>3, <2>4, NamesOwn
<1>10. ASSUME NEW x \in Externals, Collect(x)
       PROVE  Ownership!Next
  <2>1. /\ content' = [content EXCEPT ![x] = None] /\ content[x] # None
        /\ x \notin Reached /\ UNCHANGED <<box, ext_ptr, held, make>>
    BY <1>10 DEF Collect
  <2>2. x \in Alive /\ Alive' = Alive \ {x}
    BY <1>t, <2>1 DEF Alive, Boxed, LiveExternals, TypeOK
  <2>3. x \notin Held' /\ Held' \subseteq Held
    BY <1>t, <2>1 DEF Held, Reached, TypeOK
  <2>4. Needs' = [Needs EXCEPT ![x] = {}]
    <3>1. content \in [Externals -> Payloads \cup {Null, Stranger, None}]
      BY <1>t DEF TypeOK
    <3>2. Needs' = [Needs EXCEPT ![x] = {None} \cap Payloads]
      BY <2>1, <3>1, NeedsFollow
    <3> QED
      BY <3>2
  <2>5. \A y \in Alive : x \notin Needs[y]
    BY DEF Needs, Alive, Boxed, LiveExternals
  <2> QED
    BY <2>2, <2>3, <2>4, <2>5, NamesOwn
<1> QED
  BY <1>1, <1>2, <1>3, <1>4, <1>5, <1>6, <1>7, <1>8, <1>9, <1>10
     DEF Next, AsExternal, DropRef, Callback, Equal, vars

\* For any numbers of payloads, values and handles, a box goes only while
\* nothing leads to it and an external value only when nothing holds it.
THEOREM OwnershipImplemented == Spec => ImplementsOwnership
<1>1. Init => Ownership!Init
  BY ExternalValuesAssumption DEF Init, Ownership!Init, Reached, Idle
<1>2. BoxInv /\ [Next]_vars
        => [Ownership!Next]_<<
             {p \in Payloads : box[p] = "boxed"}
               \cup {x \in Externals : content[x] # None},
             [o \in Payloads \cup Externals |->
                IF o \in Externals THEN {content[o]} \cap Payloads ELSE {}],
             Reached \cup ({make.payload} \cap Payloads)>>
  BY OwnershipStep
     DEF OwnershipVars, Alive, Boxed, LiveExternals, Needs, Held
<1> QED
  BY <1>1, <1>2, BoxInvInit, BoxInvStep, PTL
     DEF Spec, ImplementsOwnership, Ownership!Spec

=============================================================================
