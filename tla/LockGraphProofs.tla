-------------------------- MODULE LockGraphProofs --------------------------
(***************************************************************************)
(* Proofs about LockGraph, for lock files of any size and shape.  WalkInv  *)
(* says of a walk under way that every found key has its parsed node, and  *)
(* that an input of a found key leads to a found key or is on the list of  *)
(* a call that has not returned: when the last call returns the found keys *)
(* are closed under inputs.                                                *)
(***************************************************************************)
EXTENDS LockGraph, SequenceTheorems, FiniteSetTheorems, TLAPS

\* Reach is the least set that has r and is closed.
LEMMA ReachLeast ==
  ASSUME NEW U, NEW r \in U, NEW edges
  PROVE  /\ Reach(r, edges, U) \subseteq U
         /\ r \in Reach(r, edges, U)
         /\ Closed(Reach(r, edges, U), edges, U)
         /\ \A S \in SUBSET U : r \in S /\ Closed(S, edges, U)
              => Reach(r, edges, U) \subseteq S
BY DEF Reach, Closed

\* A parsed node has the inputs of its key.
LEMMA ParsedInputs ==
  ASSUME doc \in Exports, NEW k \in Named, NEW i \in Inputs
  PROVE  /\ k \in Keys /\ MadeFor[k] \in Nodes
         /\ Parsed[MadeFor[k]][i] = IF Items[k][i] \in Keys
                                    THEN MadeFor[Items[k][i]]
                                    ELSE Items[k][i]
<1>1. Named \subseteq Keys
  BY ReachLeast DEF Exports, Named
<1>2. MadeFor[k] \in Nodes
  BY <1>1, LockGraphAssumption
<1>3. (CHOOSE l \in Named : MadeFor[l] = MadeFor[k]) = k
  BY <1>1, LockGraphAssumption
<1>4. QED BY <1>1, <1>2, <1>3 DEF Parsed

\* What the parser makes has the type of a graph.
LEMMA ParsedTyped ==
  ASSUME doc \in Exports
  PROVE  Parsed \in Edges(Nodes)
<1>1. Named \subseteq Keys
  BY ReachLeast DEF Exports, Named
<1>2. Items \in [Keys -> [Inputs -> Keys \cup {Absent, Follows}]]
  BY DEF Exports, Items
<1>3. ASSUME NEW n \in Nodes, NEW i \in Inputs
      PROVE  Parsed[n][i] \in Nodes \cup {Absent, Follows}
  <2>1. CASE \E k \in Named : MadeFor[k] = n
    <3>1. PICK k \in Named : MadeFor[k] = n
      BY <2>1
    <3>2. Items[k][i] \in Keys \cup {Absent, Follows}
      BY <1>1, <1>2
    <3>3. QED BY <3>1, <3>2, ParsedInputs, LockGraphAssumption
  <2>2. CASE ~ \E k \in Named : MadeFor[k] = n
    BY <2>2 DEF Parsed
  <2>3. QED BY <2>1, <2>2
<1>4. Parsed \in [Nodes -> [Inputs -> Nodes \cup {Absent, Follows}]]
  <2>1. \A n \in Nodes : Parsed[n] = [i \in Inputs |-> Parsed[n][i]]
    BY DEF Parsed
  <2>2. Parsed = [n \in Nodes |-> Parsed[n]]
    BY DEF Parsed
  <2>3. QED BY <1>3, <2>1, <2>2
<1>5. QED BY <1>4 DEF Edges

----------------------------------------------------------------------------
\* What holds of the exported JSON, and of the parser on it.
GivenInv ==
  /\ phase = "idle" => source = None
  /\ phase \in {"given", "walking", "paths", "imported", "walkFailed"}
       => doc \in Exports
  /\ phase \in {"idle", "given"} => byKey = NoNodes /\ stack = <<>>
  /\ phase \in {"walking", "paths", "imported", "walkFailed"}
       => ParserAccepts /\ graph = Parsed

\* Every call of the stack st is for a found key.
FramesOf(st) ==
  \A j \in 1 .. Len(st) :
    /\ st[j].key \in Found
    /\ st[j].node = MadeFor[st[j].key]
    /\ \A i \in st[j].todo : doc.inputs[st[j].key][i] # Absent

\* What st has left to look at.
Waits(st, k, i) ==
  \E j \in 1 .. Len(st) : st[j].key = k /\ i \in st[j].todo

\* The inputs of found keys lead to K, or are waiting in st.
Covered(K, st) ==
  \A k \in Found, i \in Inputs :
    Items[k][i] \in K \/ Items[k][i] \notin Keys \/ Waits(st, k, i)

FoundInv ==
  Found \subseteq Named /\ Found \subseteq doc.nodes /\ doc.root \in Found

WalkInv ==
  /\ TypeOK /\ GivenInv
  /\ \A k \in Found : byKey[k] = MadeFor[k]
  /\ phase \in {"walking", "paths", "imported"} => FoundInv
  /\ phase = "walking" =>
       FramesOf(stack) /\ stack # <<>> /\ Covered(Found, stack)
  /\ phase = "walkFailed" => doc.root \notin doc.nodes
  /\ phase \in {"paths", "imported"} => Found = Named

LEMMA WalkInvInit == Init => WalkInv
BY LockGraphAssumption
   DEF Init, WalkInv, TypeOK, GivenInv, Found, NoNodes, NoPaths, Ended

\* The notions of the parser depend on the JSON alone.
LEMMA SameDoc ==
  ASSUME doc' = doc
  PROVE  /\ Items' = Items /\ Named' = Named /\ Parsed' = Parsed
         /\ ParserAccepts' = ParserAccepts
<1>1. Items' = Items
  BY DEF Items
<1>2. Named' = Named
  BY <1>1 DEF Named
<1>3. QED BY <1>1, <1>2 DEF Parsed, ParserAccepts

\* A call of collect_lock_file_nodes, from a stack that has everything in
\* order but for the inputs that lead to k.
LEMMA VisitKeeps ==
  ASSUME doc \in Exports, doc' = doc,
         byKey \in [Keys -> Nodes \cup {NoNode}],
         \A l \in Found : byKey[l] = MadeFor[l],
         Found \subseteq Named, Found \subseteq doc.nodes,
         NEW rest \in Seq(Frames), FramesOf(rest),
         NEW k \in Named, Covered(Found \cup {k}, rest),
         \/ k = doc.root /\ Found = {}
         \/ k \in doc.nodes /\ doc.root \in Found /\ rest # <<>>,
         Visit(rest, k, MadeFor[k])
  PROVE  /\ byKey' \in [Keys -> Nodes \cup {NoNode}]
         /\ stack' \in Seq(Frames)
         /\ \A l \in Found' : byKey'[l] = MadeFor[l]
         /\ phase' \in {"walking", "walkFailed"}
         /\ phase' = "walking" =>
              /\ FoundInv' /\ FramesOf(stack)' /\ stack' # <<>>
              /\ Covered(Found, stack)'
         /\ phase' = "walkFailed" => doc.root \notin doc.nodes
<1> DEFINE frame == [key |-> k, node |-> MadeFor[k],
                     todo |-> {i \in Inputs : doc.inputs[k][i] # Absent}]
<1>1. k \in Keys /\ MadeFor[k] \in Nodes /\ MadeFor[k] # NoNode
  BY ReachLeast, LockGraphAssumption DEF Exports, Named
<1>2. Items' = Items /\ Named' = Named
  BY SameDoc
<1>3. CASE byKey[k] # NoNode
  <2>1. byKey' = byKey /\ stack' = rest /\ phase' = "walking"
    BY <1>3 DEF Visit
  <2>2. k \in Found /\ Found' = Found
    BY <1>1, <1>3, <2>1 DEF Found
  <2>3. rest # <<>> /\ doc.root \in Found
    BY <2>2
  <2>4. FramesOf(stack)' /\ Covered(Found, stack)'
    BY <1>2, <2>1, <2>2 DEF FramesOf, Covered, Waits
  <2>5. QED BY <1>2, <2>1, <2>2, <2>3, <2>4 DEF FoundInv
<1>4. CASE byKey[k] = NoNode
  <2>1. byKey' = [byKey EXCEPT ![k] = MadeFor[k]]
    BY <1>4 DEF Visit
  <2>2. /\ byKey' \in [Keys -> Nodes \cup {NoNode}]
        /\ Found' = Found \cup {k}
        /\ \A l \in Found' : byKey'[l] = MadeFor[l]
    BY <1>1, <2>1 DEF Found
  <2>3. CASE k \notin doc.nodes
    BY <1>4, <2>2, <2>3 DEF Visit
  <2>4. CASE k \in doc.nodes
    <3>1. stack' = Append(rest, frame) /\ phase' = "walking"
      BY <1>4, <2>4 DEF Visit
    <3>2. frame \in Frames
      BY <1>1 DEF Frames
    <3>3. /\ stack' \in Seq(Frames) /\ stack' # <<>>
          /\ Len(stack') = Len(rest) + 1 /\ stack'[Len(rest) + 1] = frame
          /\ \A j \in 1 .. Len(rest) : stack'[j] = rest[j]
      BY <3>1, <3>2
    <3>4. Len(rest) \in Nat
      OBVIOUS
    <3>5. FramesOf(stack)'
      <4>1. ASSUME NEW j \in 1 .. Len(stack')
            PROVE  /\ stack'[j].key \in Found'
                   /\ stack'[j].node = MadeFor[stack'[j].key]
                   /\ \A i \in stack'[j].todo :
                        doc.inputs[stack'[j].key][i] # Absent
        <5>1. CASE j \in 1 .. Len(rest)
          BY <2>2, <3>3, <5>1 DEF FramesOf
        <5>2. CASE j = Len(rest) + 1
          BY <2>2, <3>3, <5>2
        <5>3. QED BY <3>3, <3>4, <5>1, <5>2
      <4>2. QED BY <4>1 DEF FramesOf
    <3>6. Covered(Found, stack)'
      <4>1. ASSUME NEW l \in Found', NEW i \in Inputs, Items[l][i] \in Keys
            PROVE  Items[l][i] \in Found' \/ Waits(stack', l, i)
        <5>1. CASE l \in Found
          <6>1. CASE Waits(rest, l, i)
            BY <3>3, <3>4, <6>1 DEF Waits
          <6>2. QED BY <2>2, <4>1, <5>1, <6>1 DEF Covered
        <5>2. CASE l = k
          <6>1. doc.inputs[k][i] # Absent
            BY <1>1, <2>4, <4>1, <5>2, LockGraphAssumption DEF Items
          <6>2. Len(stack') \in 1 .. Len(stack')
            BY <3>3, <3>4
          <6>3. QED BY <3>3, <5>2, <6>1, <6>2 DEF Waits
        <5>3. QED BY <2>2, <5>1, <5>2
      <4>2. QED BY <1>2, <4>1 DEF Covered, Waits
    <3>7. FoundInv'
      BY <1>2, <2>2, <2>4 DEF FoundInv
    <3>8. QED BY <2>2, <3>1, <3>3, <3>5, <3>6, <3>7
  <2>5. QED BY <2>3, <2>4
<1>5. QED BY <1>3, <1>4

\* The stack without the call that returns.
LEMMA BelowTyped ==
  ASSUME stack \in Seq(Frames), stack # <<>>
  PROVE  /\ Len(stack) \in Nat /\ Len(stack) >= 1
         /\ Below \in Seq(Frames) /\ Len(Below) = Len(stack) - 1
         /\ \A j \in 1 .. (Len(stack) - 1) : Below[j] = stack[j]
<1>1. Len(stack) \in Nat /\ Len(stack) >= 1
  OBVIOUS
<1>2. \A j \in 1 .. (Len(stack) - 1) : stack[j] \in Frames
  BY <1>1
<1>3. 1 \in Int /\ Len(stack) - 1 \in Int
  BY <1>1
<1>4. /\ SubSeq(stack, 1, Len(stack) - 1) \in Seq(Frames)
      /\ Len(SubSeq(stack, 1, Len(stack) - 1)) =
           IF 1 <= Len(stack) - 1 THEN Len(stack) - 1 - 1 + 1 ELSE 0
      /\ \A j \in 1 .. Len(stack) - 1 - 1 + 1 :
           SubSeq(stack, 1, Len(stack) - 1)[j] = stack[1 + j - 1]
  BY <1>2, <1>3, SubSeqProperties
<1>5. /\ Len(stack) - 1 - 1 + 1 = Len(stack) - 1
      /\ ~(1 <= Len(stack) - 1) => Len(stack) - 1 = 0
      /\ \A j \in 1 .. (Len(stack) - 1) : 1 + j - 1 = j
  BY <1>1
<1>6. \A j \in 1 .. (Len(stack) - 1) :
        SubSeq(stack, 1, Len(stack) - 1)[j] = stack[j]
  BY <1>4, <1>5
<1>7. QED BY <1>1, <1>4, <1>5, <1>6, Zenon DEF Below

\* What the export writes is JSON the import can read.
LEMMA WrittenTyped ==
  ASSUME NEW g \in LockedFlakes
  PROVE  Written(g) \in Exports
<1> DEFINE reached == Reach(Root, g.edges, Nodes)
           named == {KeyOf[n] : n \in reached}
           node(k) == CHOOSE n \in Nodes : KeyOf[n] = k
           input(v) == IF v \in Nodes THEN KeyOf[v] ELSE v
<1>1. reached \subseteq Nodes
  BY ReachLeast, LockGraphAssumption
<1>2. named \subseteq Keys /\ KeyOf[Root] \in Keys
  BY <1>1, LockGraphAssumption
<1>3. \A k \in named : node(k) \in Nodes
  BY <1>1
<1>4. g.edges \in [Nodes -> [Inputs -> Nodes \cup {Absent, Follows}]]
  BY DEF LockedFlakes, Edges
<1>5. \A v \in Nodes \cup {Absent, Follows} :
        input(v) \in Keys \cup {Absent, Follows}
  BY LockGraphAssumption
<1>6. Written(g).inputs \in [Keys -> [Inputs -> Keys \cup {Absent, Follows}]]
  <2>1. \A k \in Keys, i \in Inputs :
          (IF k \in named THEN input(g.edges[node(k)][i]) ELSE Absent)
            \in Keys \cup {Absent, Follows}
    <3> HIDE DEF node, input, named
    <3>1. ASSUME NEW k \in named, NEW i \in Inputs
          PROVE  input(g.edges[node(k)][i]) \in Keys \cup {Absent, Follows}
      <4>1. g.edges[node(k)][i] \in Nodes \cup {Absent, Follows}
        BY <1>3, <1>4
      <4>2. QED BY <4>1, <1>5
    <3>2. QED BY <3>1
  <2>2. QED BY <2>1 DEF Written
<1>7. Written(g).paths \in [Keys -> Paths \cup {NoPath}]
  <2>1. g.paths \in [Nodes -> Places \cup {NoPath}]
    BY DEF LockedFlakes
  <2>2. \A k \in Keys :
          (IF k \in named /\ g.paths[node(k)] # NoPath
           THEN g.paths[node(k)].path ELSE NoPath) \in Paths \cup {NoPath}
    BY <1>3, <2>1 DEF Places
  <2>3. QED BY <2>2 DEF Written
<1>8. QED BY <1>2, <1>6, <1>7 DEF Written, Exports

LEMMA PlacedTyped ==
  ASSUME doc \in Exports
  PROVE  Placed \in [Nodes -> Places \cup {NoPath}]
<1>1. ASSUME NEW n \in Nodes
      PROVE  Placed[n] \in Places \cup {NoPath}
  <2> DEFINE ks == {k \in Keys : byKey[k] = n /\ doc.paths[k] # NoPath}
  <2>1. ks # {} => doc.paths[CHOOSE k \in ks : TRUE] \in Paths
    BY DEF Exports
  <2>2. FS \in Accessors
    BY LockGraphAssumption
  <2>3. QED BY <2>1, <2>2 DEF Placed, Places
<1>2. QED BY <1>1 DEF Placed

LEMMA WalkInvStep == WalkInv /\ [Next]_vars => WalkInv'
<1> SUFFICES ASSUME WalkInv, [Next]_vars
             PROVE  WalkInv'
  OBVIOUS
<1> USE LockGraphAssumption
<1> USE DEF NoNodes
<1>1. CASE Export
  <2>1. PICK g \in Sources :
          /\ source' = g
          /\ \/ doc' = Written(g) /\ phase' = "given"
             \/ doc' = None /\ phase' = "refused"
    BY <1>1 DEF Export
  <2>2. g \in LockedFlakes /\ Written(g) \in Exports
    BY WrittenTyped
  <2>3. phase = "idle" /\ UNCHANGED <<graph, byKey, stack, paths>>
    BY <1>1 DEF Export, walkVars
  <2>4. QED
    BY <2>1, <2>2, <2>3 DEF WalkInv, TypeOK, GivenInv, Found, Ended
<1>2. CASE Receive
  BY <1>2 DEF Receive, walkVars, WalkInv, TypeOK, GivenInv, Found, Ended
<1>3. CASE Reject
  BY <1>3 DEF Reject, walkVars, WalkInv, TypeOK, GivenInv, Found, Ended
<1>4. CASE Parse
  <2>1. doc \in Exports /\ doc' = doc /\ byKey = NoNodes /\ stack = <<>>
    BY <1>4 DEF Parse, WalkInv, GivenInv
  <2>2. Found = {}
    BY <2>1 DEF Found, NoNodes
  <2>3. CASE ~ParserAccepts
    BY <1>4, <2>1, <2>3
       DEF Parse, walkVars, WalkInv, TypeOK, GivenInv, Found, Ended
  <2>4. CASE ParserAccepts
    <3>1. graph' = Parsed /\ Visit(<<>>, doc.root, MadeFor[doc.root])
      BY <1>4, <2>4 DEF Parse
    <3>2. doc.root \in Named
      BY <2>1, ReachLeast DEF Named, Exports
    <3>3. <<>> \in Seq(Frames) /\ FramesOf(<<>>)
      BY DEF FramesOf
    <3>4. /\ byKey' \in [Keys -> Nodes \cup {NoNode}]
          /\ stack' \in Seq(Frames)
          /\ \A l \in Found' : byKey'[l] = MadeFor[l]
          /\ phase' \in {"walking", "walkFailed"}
          /\ phase' = "walking" =>
               /\ FoundInv' /\ FramesOf(stack)' /\ stack' # <<>>
               /\ Covered(Found, stack)'
          /\ phase' = "walkFailed" => doc.root \notin doc.nodes
      BY <2>1, <2>2, <3>1, <3>2, <3>3, VisitKeeps
         DEF Covered, WalkInv, TypeOK
    <3>5. graph' = Parsed' /\ ParserAccepts' /\ Parsed \in Edges(Nodes)
      BY <2>1, <2>4, <3>1, SameDoc, ParsedTyped
    <3>6. UNCHANGED <<source, doc, paths>>
      BY <1>4 DEF Parse
    <3>7. TypeOK'
      BY <2>1, <3>1, <3>4, <3>5, <3>6 DEF WalkInv, TypeOK, Ended
    <3>8. GivenInv'
      BY <2>1, <3>4, <3>5, <3>6 DEF GivenInv
    <3>9. QED BY <2>1, <3>4, <3>7, <3>8 DEF WalkInv
  <2>5. QED BY <2>3, <2>4
<1>5. ASSUME NEW i \in Inputs, Look(i)
      PROVE  WalkInv'
  <2> DEFINE v == doc.inputs[Top.key][i]
             edge == graph[Top.node][i]
             rest == Append(Below, [Top EXCEPT !.todo = @ \ {i}])
  <2>1. /\ phase = "walking" /\ stack # <<>> /\ i \in Top.todo
        /\ UNCHANGED <<source, doc, graph, paths>>
    BY <1>5 DEF Look
  <2>2. /\ doc \in Exports /\ graph = Parsed /\ ParserAccepts
        /\ FoundInv /\ FramesOf(stack) /\ Covered(Found, stack)
        /\ stack \in Seq(Frames)
    BY <2>1 DEF WalkInv, GivenInv, TypeOK
  <2>3. Len(stack) \in Nat /\ Len(stack) >= 1
        /\ Top = stack[Len(stack)] /\ Top \in Frames
    BY <2>1, <2>2 DEF Top
  <2>4. /\ Top.key \in Found /\ Top.node = MadeFor[Top.key]
        /\ v # Absent
    BY <2>1, <2>2, <2>3 DEF FramesOf
  <2>5. /\ rest \in Seq(Frames) /\ Len(rest) = Len(stack) /\ rest # <<>>
        /\ \A j \in 1 .. Len(stack) :
             /\ rest[j].key = stack[j].key /\ rest[j].node = stack[j].node
             /\ rest[j].todo \subseteq stack[j].todo
             /\ rest[j].todo = IF j = Len(stack) THEN Top.todo \ {i}
                               ELSE stack[j].todo
    <3>1. Below \in Seq(Frames) /\ Len(Below) = Len(stack) - 1
          /\ \A j \in 1 .. (Len(stack) - 1) : Below[j] = stack[j]
      BY <2>1, <2>2, BelowTyped
    <3>2. [Top EXCEPT !.todo = @ \ {i}] \in Frames
      BY <2>3 DEF Frames
    <3>3. QED BY <2>3, <3>1, <3>2 DEF Frames
  <2>6. FramesOf(rest)
    BY <2>2, <2>5 DEF FramesOf
  <2>7. Items[Top.key][i] = v /\ Top.key \in Keys
    BY <2>2, <2>4 DEF FoundInv, Found, Items
  <2>8. \A k \in Found, j \in Inputs :
          Waits(stack, k, j) => Waits(rest, k, j) \/ (k = Top.key /\ j = i)
    BY <2>3, <2>5 DEF Waits
  <2>9. \A k \in Found, j \in Inputs :
          \/ Items[k][j] \in Found \cup {v} \/ Items[k][j] \notin Keys
          \/ Waits(rest, k, j)
    BY <2>2, <2>7, <2>8 DEF Covered
  <2>10. Top.key \in Named
    BY <2>2, <2>4 DEF FoundInv
  <2>11. edge = IF v \in Keys THEN MadeFor[v] ELSE v
    BY <2>2, <2>4, <2>7, <2>10, ParsedInputs
  <2>12. graph' = Parsed' /\ ParserAccepts' /\ Items' = Items
         /\ Named' = Named
    BY <2>1, <2>2, SameDoc
  <2>13. CASE v \notin Keys
    <3>1. stack' = rest /\ UNCHANGED <<phase, byKey>>
      BY <1>5, <2>13 DEF Look, Visit
    <3>2. Found' = Found /\ FramesOf(stack)' /\ Covered(Found, stack)'
      BY <2>1, <2>6, <2>7, <2>9, <2>12, <2>13, <3>1
         DEF Found, FramesOf, Covered, Waits
    <3>3. TypeOK' /\ GivenInv'
      BY <2>1, <2>2, <2>5, <2>12, <3>1 DEF WalkInv, TypeOK, GivenInv, Ended
    <3>4. FoundInv'
      BY <2>1, <2>2, <2>12, <3>2 DEF FoundInv
    <3>5. QED BY <2>1, <2>5, <3>1, <3>2, <3>3, <3>4 DEF WalkInv
  <2>14. CASE v \in Keys
    <3>1. edge = MadeFor[v] /\ edge \in Nodes
      BY <2>11, <2>14
    <3>2. Visit(rest, v, MadeFor[v])
      BY <1>5, <2>14, <3>1 DEF Look
    <3>3. v \in doc.nodes /\ v \in Named
      <4>1. v \in doc.nodes
        BY <2>2, <2>7, <2>10, <2>14 DEF ParserAccepts
      <4>2. Closed(Named, Items, Keys)
        BY <2>2, ReachLeast DEF Named, Exports
      <4>3. QED BY <2>7, <2>10, <2>14, <4>1, <4>2 DEF Closed
    <3>4. Covered(Found \cup {v}, rest)
      BY <2>9 DEF Covered
    <3>5. /\ byKey' \in [Keys -> Nodes \cup {NoNode}]
          /\ stack' \in Seq(Frames)
          /\ \A l \in Found' : byKey'[l] = MadeFor[l]
          /\ phase' \in {"walking", "walkFailed"}
          /\ phase' = "walking" =>
               /\ FoundInv' /\ FramesOf(stack)' /\ stack' # <<>>
               /\ Covered(Found, stack)'
          /\ phase' = "walkFailed" => doc.root \notin doc.nodes
      <4>1. /\ byKey \in [Keys -> Nodes \cup {NoNode}]
            /\ \A l \in Found : byKey[l] = MadeFor[l]
            /\ Found \subseteq Named /\ Found \subseteq doc.nodes
            /\ doc.root \in Found
        BY <2>2 DEF WalkInv, TypeOK, FoundInv
      <4>2. doc \in Exports /\ doc' = doc
        BY <2>1, <2>2
      <4>3. QED
        BY <2>5, <2>6, <3>2, <3>3, <3>4, <4>1, <4>2, VisitKeeps
    <3>6. TypeOK' /\ GivenInv'
      BY <2>1, <2>2, <2>12, <3>5 DEF WalkInv, TypeOK, GivenInv, Ended
    <3>7. QED BY <2>1, <3>5, <3>6 DEF WalkInv
  <2>15. QED BY <2>13, <2>14
<1>6. CASE Return
  <2>1. /\ phase = "walking" /\ stack # <<>> /\ Top.todo = {}
        /\ stack' = Below /\ UNCHANGED <<source, doc, graph, byKey, paths>>
        /\ phase' = IF Below = <<>> THEN "paths" ELSE "walking"
    BY <1>6 DEF Return
  <2>2. /\ doc \in Exports /\ graph = Parsed /\ ParserAccepts
        /\ FoundInv /\ FramesOf(stack) /\ Covered(Found, stack)
        /\ stack \in Seq(Frames)
    BY <2>1 DEF WalkInv, GivenInv, TypeOK
  <2>3. /\ Below \in Seq(Frames) /\ Len(Below) = Len(stack) - 1
        /\ Len(stack) \in Nat /\ Len(stack) >= 1
        /\ \A j \in 1 .. (Len(stack) - 1) : Below[j] = stack[j]
    BY <2>1, <2>2, BelowTyped
  <2>4. FramesOf(Below) /\ Covered(Found, Below)
    <3>1. FramesOf(Below)
      BY <2>2, <2>3 DEF FramesOf
    <3>2. \A k \in Found, i \in Inputs :
            Waits(stack, k, i) => Waits(Below, k, i)
      BY <2>1, <2>3 DEF Waits, Top
    <3>3. QED BY <2>2, <3>1, <3>2 DEF Covered
  <2>5. Items' = Items /\ Named' = Named /\ Parsed' = Parsed
        /\ ParserAccepts' = ParserAccepts /\ Found' = Found
    BY <2>1, SameDoc DEF Found
  <2>6. FramesOf(stack)' /\ Covered(Found, stack)' /\ FoundInv'
    BY <2>1, <2>2, <2>4, <2>5 DEF FramesOf, Covered, Waits, FoundInv
  <2>7. Below = <<>> => Found = Named
    <3>1. ASSUME Below = <<>>
          PROVE  Closed(Found, Items, Keys)
      BY <2>4, <3>1 DEF Covered, Waits, Closed
    <3>2. Found \in SUBSET Keys /\ doc.root \in Found /\ doc.root \in Keys
      BY <2>2 DEF Found, FoundInv
    <3>3. ASSUME Closed(Found, Items, Keys)
          PROVE  Named \subseteq Found
      BY <3>2, <3>3, ReachLeast DEF Named
    <3>4. QED BY <2>2, <3>1, <3>3 DEF FoundInv
  <2>8. TypeOK' /\ GivenInv'
    BY <2>1, <2>2, <2>3, <2>5 DEF WalkInv, TypeOK, GivenInv, Ended
  <2>9. QED BY <2>1, <2>5, <2>6, <2>7, <2>8 DEF WalkInv
<1>7. CASE ReadPaths
  <2>1. /\ phase = "paths" /\ UNCHANGED <<source, doc, graph, byKey, stack>>
        /\ phase' \in {"rejected", "imported"}
        /\ paths' \in {paths, Placed}
    BY <1>7 DEF ReadPaths, walkVars
  <2>2. doc \in Exports /\ Placed \in [Nodes -> Places \cup {NoPath}]
    BY <2>1, PlacedTyped DEF WalkInv, GivenInv
  <2>3. /\ Items' = Items /\ Named' = Named /\ Parsed' = Parsed
        /\ ParserAccepts' = ParserAccepts /\ Found' = Found
    BY <2>1, SameDoc DEF Found
  <2>4. TypeOK' /\ GivenInv'
    BY <2>1, <2>2, <2>3 DEF WalkInv, TypeOK, GivenInv, Ended
  <2>5. QED BY <2>1, <2>3, <2>4 DEF WalkInv, FoundInv
<1>8. CASE Again
  BY <1>8 DEF Again, WalkInv, TypeOK, GivenInv, Found, NoNodes, NoPaths,
              Ended
<1>9. CASE UNCHANGED vars
  <2>1. UNCHANGED <<phase, source, doc, graph, byKey, stack, paths>>
    BY <1>9 DEF vars, walkVars
  <2>2. /\ Items' = Items /\ Named' = Named /\ Parsed' = Parsed
        /\ ParserAccepts' = ParserAccepts /\ Found' = Found
    BY <2>1, SameDoc DEF Found
  <2>3. TypeOK' /\ GivenInv'
    BY <2>1, <2>2 DEF WalkInv, TypeOK, GivenInv
  <2>4. FoundInv' = FoundInv /\ FramesOf(stack)' = FramesOf(stack)
        /\ Covered(Found, stack)' = Covered(Found, stack)
    BY <2>1, <2>2 DEF FoundInv, FramesOf, Covered, Waits
  <2>5. QED BY <2>1, <2>2, <2>3, <2>4 DEF WalkInv
<1>10. QED
  BY <1>1, <1>2, <1>3, <1>4, <1>5, <1>6, <1>7, <1>8, <1>9
     DEF Next, Importing

\* Every variable keeps its type, for lock files of any size.
THEOREM TypeCorrect == Spec => []TypeOK
<1>1. WalkInv => TypeOK
  BY DEF WalkInv
<1>2. QED BY <1>1, WalkInvInit, WalkInvStep, PTL DEF Spec

\* The walk over the JSON and the parsed nodes stay in step and it finds
\* exactly the nodes that can be reached, whatever the graph.
THEOREM WalkCorrect == Spec => []WalkAgrees
<1>1. WalkInv => WalkAgrees
  BY DEF WalkInv, WalkAgrees
<1>2. QED BY <1>1, WalkInvInit, WalkInvStep, PTL DEF Spec

----------------------------------------------------------------------------
(* The recursion                                                           *)

LEMMA FoundFinite ==
  /\ IsFiniteSet(Found) /\ Cardinality(Found) \in Nat
  /\ Cardinality(Found) <= Cardinality(Keys)
  /\ \A k \in Keys \ Found : Cardinality(Found) < Cardinality(Keys)
<1>1. Found \in SUBSET Keys /\ IsFiniteSet(Keys)
  BY LockGraphAssumption DEF Found
<1>2. /\ IsFiniteSet(Found) /\ Cardinality(Found) <= Cardinality(Keys)
      /\ Cardinality(Found) = Cardinality(Keys) => Keys = Found
  BY <1>1, FS_Subset
<1>3. Cardinality(Found) \in Nat /\ Cardinality(Keys) \in Nat
  BY <1>1, <1>2, FS_CardinalityType
<1> QED
  BY <1>2, <1>3

\* A call of collect_lock_file_nodes returns at once, or finds its key.
LEMMA VisitFinds ==
  ASSUME byKey \in [Keys -> Nodes \cup {NoNode}], NEW rest \in Seq(Frames),
         NEW k \in Keys, NEW n \in Nodes, doc \in Exports, Visit(rest, k, n)
  PROVE  \/ Found' = Found /\ stack' = rest
         \/ /\ k \notin Found /\ Found' = Found \cup {k}
            /\ Len(stack') <= Len(rest) + 1
            /\ Cardinality(Found') = Cardinality(Found) + 1
<1>1. CASE byKey[k] # NoNode
  BY <1>1 DEF Visit, Found
<1>2. CASE byKey[k] = NoNode
  <2>1. k \notin Found /\ Found' = Found \cup {k}
    BY <1>2, LockGraphAssumption DEF Visit, Found
  <2>2. Len(stack') <= Len(rest) + 1
    <3> DEFINE frame == [key |-> k, node |-> n,
                         todo |-> {i \in Inputs : doc.inputs[k][i] # Absent}]
    <3>1. frame \in Frames
      BY DEF Frames
    <3>2. stack' = Append(rest, frame) \/ stack' = rest
      BY <1>2 DEF Visit
    <3> HIDE DEF frame
    <3> QED
      BY <3>1, <3>2, AppendProperties, LenProperties
  <2>3. Cardinality(Found') = Cardinality(Found) + 1
    BY <2>1, FoundFinite, FS_AddElement
  <2> QED
    BY <2>1, <2>2, <2>3
<1> QED
  BY <1>1, <1>2

\* A step of the loop: what is left for the calls that are on the stack.
LEMMA LookRest ==
  ASSUME WalkInv, NEW i \in Inputs, Look(i)
  PROVE  LET rest == Append(Below, [Top EXCEPT !.todo = @ \ {i}])
         IN /\ rest \in Seq(Frames) /\ rest # stack
            /\ Len(rest) = Len(stack)
            /\ \A j \in 1 .. Len(rest) :
                 /\ rest[j].key = stack[j].key
                 /\ rest[j].todo \subseteq stack[j].todo
<1> DEFINE left == [Top EXCEPT !.todo = @ \ {i}]
<1>1. stack \in Seq(Frames) /\ stack # <<>> /\ i \in Top.todo
  BY DEF Look, WalkInv, TypeOK
<1>2. /\ Below \in Seq(Frames) /\ Len(Below) = Len(stack) - 1
      /\ Len(stack) \in Nat /\ Len(stack) >= 1
      /\ \A j \in 1 .. (Len(stack) - 1) : Below[j] = stack[j]
  BY <1>1, BelowTyped
<1>3. Top = stack[Len(stack)] /\ Top \in Frames
  BY <1>1, <1>2 DEF Top
<1>4. /\ left \in Frames /\ left.key = Top.key
      /\ left.todo = Top.todo \ {i}
  BY <1>3 DEF Frames
<1> HIDE DEF left
<1> DEFINE rest == Append(Below, left)
<1>5. /\ rest \in Seq(Frames) /\ Len(rest) = Len(stack)
      /\ \A j \in 1 .. (Len(stack) - 1) : rest[j] = stack[j]
      /\ rest[Len(stack)] = left
  BY <1>2, <1>4, AppendProperties
<1> HIDE DEF rest
<1>6. \A j \in 1 .. Len(stack) :
        /\ rest[j].key = stack[j].key
        /\ rest[j].todo \subseteq stack[j].todo
  BY <1>2, <1>3, <1>4, <1>5
<1>7. rest # stack
  BY <1>1, <1>3, <1>4, <1>5
<1> QED
  BY <1>5, <1>6, <1>7 DEF rest, left

\* What a step of the walk does to the recursion.
LEMMA ImportDescends ==
  ASSUME WalkInv, Return \/ \E i \in Inputs : Look(i)
  PROVE  \/ phase' = "walkFailed" /\ UNCHANGED walkVars
         \/ /\ Found \subseteq Found' /\ Found' # Found
            /\ Len(stack') <= Len(stack) + 1
            /\ Cardinality(Found') = Cardinality(Found) + 1
         \/ Found' = Found /\ Shortens
<1>1. CASE Return
  <2>1. stack \in Seq(Frames) /\ stack # <<>>
    BY <1>1 DEF Return, WalkInv, TypeOK
  <2>2. stack' = Below /\ Found' = Found
    BY <1>1 DEF Return, Found
  <2> QED
    BY <2>1, <2>2, BelowTyped DEF Shortens
<1>2. ASSUME NEW i \in Inputs, Look(i)
      PROVE  \/ phase' = "walkFailed" /\ UNCHANGED walkVars
             \/ /\ Found \subseteq Found' /\ Found' # Found
                /\ Len(stack') <= Len(stack) + 1
                /\ Cardinality(Found') = Cardinality(Found) + 1
             \/ Found' = Found /\ Shortens
  <2> DEFINE v == doc.inputs[Top.key][i]
             edge == graph[Top.node][i]
             rest == Append(Below, [Top EXCEPT !.todo = @ \ {i}])
  <2>1. doc \in Exports /\ byKey \in [Keys -> Nodes \cup {NoNode}]
    BY <1>2 DEF Look, WalkInv, TypeOK, GivenInv
  <2>2. /\ rest \in Seq(Frames) /\ rest # stack /\ Len(rest) = Len(stack)
        /\ \A j \in 1 .. Len(rest) :
             /\ rest[j].key = stack[j].key
             /\ rest[j].todo \subseteq stack[j].todo
    BY <1>2, LookRest
  <2>3. \/ stack' = rest /\ Found' = Found
        \/ phase' = "walkFailed" /\ UNCHANGED walkVars
        \/ v \in Keys /\ edge \in Nodes /\ Visit(rest, v, edge)
    BY <1>2 DEF Look, Found
  <2> HIDE DEF v, edge, rest
  <2>4. ASSUME v \in Keys, edge \in Nodes, Visit(rest, v, edge)
        PROVE  \/ Found' = Found /\ stack' = rest
               \/ /\ Found \subseteq Found' /\ Found' # Found
                  /\ Len(stack') <= Len(stack) + 1
                  /\ Cardinality(Found') = Cardinality(Found) + 1
    <3>1. PICK k \in Keys, n \in Nodes : Visit(rest, k, n)
      BY <2>4
    <3>2. PICK r \in Seq(Frames) : r = rest
      BY <2>2
    <3>3. \/ Found' = Found /\ stack' = r
          \/ /\ k \notin Found /\ Found' = Found \cup {k}
             /\ Len(stack') <= Len(r) + 1
             /\ Cardinality(Found') = Cardinality(Found) + 1
      BY <2>1, <3>1, <3>2, VisitFinds
    <3> QED
      BY <2>2, <3>2, <3>3
  <2>5. Found' = Found /\ stack' = rest => Shortens
    BY <2>2 DEF Shortens
  <2> QED
    BY <2>3, <2>4, <2>5
<1> QED
  BY <1>1, <1>2

LEMMA DepthStep ==
  WalkInv /\ DepthBounded /\ [Next]_vars => DepthBounded'
<1> SUFFICES ASSUME WalkInv, DepthBounded, [Next]_vars
             PROVE  DepthBounded'
  OBVIOUS
<1>1. ASSUME UNCHANGED walkVars
      PROVE  DepthBounded'
  BY <1>1 DEF walkVars, DepthBounded, Found
<1>2. ASSUME Parse
      PROVE  DepthBounded'
  <2>1. /\ stack = <<>> /\ doc \in Exports
        /\ byKey \in [Keys -> Nodes \cup {NoNode}]
    BY <1>2 DEF Parse, WalkInv, GivenInv, TypeOK
  <2>2. CASE UNCHANGED walkVars
    BY <1>1, <2>2
  <2>3. CASE Visit(<<>>, doc.root, MadeFor[doc.root])
    <3>1. PICK k \in Keys, n \in Nodes : Visit(<<>>, k, n)
      BY <2>1, <2>3, LockGraphAssumption DEF Exports
    <3>2. <<>> \in Seq(Frames) /\ Len(<<>>) = 0
      OBVIOUS
    <3>3. \/ Found' = Found /\ stack' = <<>>
          \/ /\ Len(stack') <= 0 + 1
             /\ Cardinality(Found') = Cardinality(Found) + 1
      BY <2>1, <3>1, <3>2, VisitFinds
    <3>4. Len(stack') \in Nat
      BY <2>1, <3>1 DEF Visit
    <3> QED
      BY <3>2, <3>3, <3>4, FoundFinite DEF DepthBounded
  <2> QED
    BY <1>2, <2>2, <2>3 DEF Parse
<1>3. ASSUME Return \/ \E i \in Inputs : Look(i)
      PROVE  DepthBounded'
  <2>1. Len(stack) \in Nat /\ Len(stack') \in Nat
    BY WalkInvStep DEF WalkInv, TypeOK
  <2>2. CASE Found' = Found /\ Shortens
    BY <2>1, <2>2, FoundFinite DEF DepthBounded, Shortens
  <2>3. CASE /\ Len(stack') <= Len(stack) + 1
             /\ Cardinality(Found') = Cardinality(Found) + 1
    BY <2>1, <2>3, FoundFinite DEF DepthBounded
  <2> QED
    BY <1>1, <1>3, <2>2, <2>3, ImportDescends
<1>4. ASSUME Again
      PROVE  DepthBounded'
  <2>1. Len(stack') = 0 /\ Found' = {}
    BY <1>4 DEF Again, NoNodes, Found
  <2> QED
    BY <2>1, FS_EmptySet DEF DepthBounded
<1> QED
  BY <1>1, <1>2, <1>3, <1>4
     DEF Next, Importing, Export, Receive, Reject, ReadPaths, vars

\* The recursion over the JSON has at most one call per key it has found, in
\* a lock file of any size and with any cycles.
THEOREM RecursionBounded == Spec => []DepthBounded
<1>1. Init => DepthBounded
  <2> SUFFICES ASSUME Init PROVE DepthBounded
    OBVIOUS
  <2>1. Len(stack) = 0 /\ Found = {}
    BY DEF Init, NoNodes, Found
  <2> QED
    BY <2>1, FS_EmptySet DEF DepthBounded
<1> QED
  BY <1>1, DepthStep, WalkInvInit, WalkInvStep, PTL DEF Spec

\* Room on the C stack for one call per key is enough: while a key is still to
\* be found, MaxDepth stops no call.
THEOREM StackSuffices ==
  Spec => [](MaxDepth >= Cardinality(Keys) =>
               \A k \in Keys : byKey[k] = NoNode => Len(stack) < MaxDepth)
<1>1. ASSUME MaxDepth >= Cardinality(Keys), TypeOK, DepthBounded,
             NEW k \in Keys, byKey[k] = NoNode
      PROVE  Len(stack) < MaxDepth
  <2>1. k \notin Found /\ Len(stack) \in Nat
    BY <1>1 DEF Found, TypeOK
  <2>2. Cardinality(Keys) \in Nat /\ MaxDepth \in Nat
    BY LockGraphAssumption, FS_CardinalityType
  <2> QED
    BY <1>1, <2>1, <2>2, FoundFinite DEF DepthBounded
<1>2. TypeOK /\ DepthBounded
        => (MaxDepth >= Cardinality(Keys)
              => \A k \in Keys : byKey[k] = NoNode => Len(stack) < MaxDepth)
  BY <1>1
<1> QED
  BY <1>2, TypeCorrect, RecursionBounded, PTL

\* Every step of a walk makes progress: it finds a key, or shortens what the
\* calls on the stack have left.
THEOREM WalkMakesProgress == Spec => WalkDescends
<1>1. WalkInv /\ [Next]_vars
        => [phase = "walking" =>
              \/ phase' = "walkFailed"
              \/ Found \subseteq Found' /\ Found' # Found
              \/ Found' = Found /\ Shortens]_vars
  <2> SUFFICES ASSUME WalkInv, Next, phase = "walking"
               PROVE  \/ phase' = "walkFailed"
                      \/ Found \subseteq Found' /\ Found' # Found
                      \/ Found' = Found /\ Shortens
    OBVIOUS
  <2>1. Return \/ \E i \in Inputs : Look(i)
    BY DEF Next, Importing, Export, Receive, Reject, Parse, ReadPaths, Again,
       Ended
  <2> QED
    BY <2>1, ImportDescends
<1> QED
  BY <1>1, WalkInvInit, WalkInvStep, PTL DEF Spec, WalkDescends

----------------------------------------------------------------------------
(* The round trip                                                          *)

\* What the JSON says of a node that was exported.
LEMMA WrittenSays ==
  ASSUME NEW g \in LockedFlakes, doc = Written(g),
         NEW n \in Reach(Root, g.edges, Nodes)
  PROVE  /\ n \in Nodes /\ KeyOf[n] \in Keys /\ KeyOf[n] \in doc.nodes
         /\ doc.paths[KeyOf[n]] = IF g.paths[n] = NoPath THEN NoPath
                                  ELSE g.paths[n].path
         /\ \A i \in Inputs :
              Items[KeyOf[n]][i] = IF g.edges[n][i] \in Nodes
                                   THEN KeyOf[g.edges[n][i]]
                                   ELSE g.edges[n][i]
<1>1. n \in Nodes /\ KeyOf[n] \in Keys
  BY ReachLeast, LockGraphAssumption
<1>2. (CHOOSE m \in Nodes : KeyOf[m] = KeyOf[n]) = n
  BY <1>1, LockGraphAssumption
<1>3. KeyOf[n] \in doc.nodes
  BY DEF Written
<1>4. doc.paths[KeyOf[n]] = IF g.paths[n] = NoPath THEN NoPath
                            ELSE g.paths[n].path
  BY <1>1, <1>2, <1>3 DEF Written
<1>5. ASSUME NEW i \in Inputs
      PROVE  Items[KeyOf[n]][i] = IF g.edges[n][i] \in Nodes
                                  THEN KeyOf[g.edges[n][i]]
                                  ELSE g.edges[n][i]
  <2>1. Items[KeyOf[n]][i] = doc.inputs[KeyOf[n]][i]
    BY <1>1, <1>3 DEF Items
  <2>2. QED BY <1>1, <1>2, <2>1 DEF Written
<1>6. QED BY <1>1, <1>3, <1>4, <1>5

\* The JSON of an export names exactly the keys of the nodes that can be
\* reached, and Nix parses it.
LEMMA WrittenNamed ==
  ASSUME NEW g \in LockedFlakes, doc = Written(g)
  PROVE  /\ doc.root = KeyOf[Root] /\ doc.root \in doc.nodes
         /\ Root \in Reach(Root, g.edges, Nodes)
         /\ doc.nodes = {KeyOf[n] : n \in Reach(Root, g.edges, Nodes)}
         /\ Named = doc.nodes
         /\ ParserAccepts
<1> DEFINE reached == Reach(Root, g.edges, Nodes)
           named == {KeyOf[n] : n \in reached}
<1> USE LockGraphAssumption
<1>1. /\ reached \subseteq Nodes /\ Root \in reached
      /\ Closed(reached, g.edges, Nodes)
  BY ReachLeast
<1>2. doc.root = KeyOf[Root] /\ doc.nodes = named
  BY DEF Written
<1>3. doc.root \in Keys /\ named \subseteq Keys
  BY <1>1, <1>2
<1>4. ASSUME NEW n \in reached, NEW i \in Inputs,
             Items[KeyOf[n]][i] \in Keys
      PROVE  /\ g.edges[n][i] \in reached
             /\ Items[KeyOf[n]][i] = KeyOf[g.edges[n][i]]
             /\ Items[KeyOf[n]][i] # doc.root
  <2>1. /\ n \in Nodes
        /\ Items[KeyOf[n]][i] = IF g.edges[n][i] \in Nodes
                                THEN KeyOf[g.edges[n][i]]
                                ELSE g.edges[n][i]
    BY WrittenSays
  <2>2. g.edges[n][i] \in (Nodes \ {Root}) \cup {Absent, Follows}
    BY <2>1 DEF LockedFlakes, Edges
  <2>3. g.edges[n][i] \in Nodes \ {Root}
    BY <1>4, <2>1, <2>2
  <2>4. QED BY <1>1, <1>2, <2>1, <2>3 DEF Closed
<1>5. Named \subseteq named
  <2>1. Closed(named, Items, Keys)
    BY <1>4 DEF Closed
  <2>2. doc.root \in named
    BY <1>1, <1>2
  <2>3. QED BY <1>3, <2>1, <2>2, ReachLeast DEF Named
<1>6. named \subseteq Named
  <2> DEFINE S == {n \in Nodes : KeyOf[n] \in Named}
  <2>1. doc.root \in Named /\ Closed(Named, Items, Keys)
    BY <1>3, ReachLeast DEF Named
  <2>2. ASSUME NEW n \in S, NEW i \in Inputs, g.edges[n][i] \in Nodes
        PROVE  g.edges[n][i] \in S
    <3>1. n \in reached
      BY <1>1, <1>5
    <3>2. Items[KeyOf[n]][i] = KeyOf[g.edges[n][i]]
      BY <2>2, <3>1, WrittenSays
    <3>3. KeyOf[g.edges[n][i]] \in Keys /\ KeyOf[n] \in Named
      BY <2>2
    <3>4. QED BY <2>1, <2>2, <3>2, <3>3 DEF Closed
  <2>3. Root \in S /\ S \in SUBSET Nodes /\ Closed(S, g.edges, Nodes)
    BY <1>2, <2>1, <2>2 DEF Closed
  <2>4. reached \subseteq S
    BY <2>3, ReachLeast
  <2>5. QED BY <2>4
<1>7. ParserAccepts
  BY <1>1, <1>2, <1>4, <1>5 DEF ParserAccepts
<1>8. QED BY <1>1, <1>2, <1>5, <1>6, <1>7

\* The import reads what the export wrote.
TripInv ==
  source # None /\ phase # "refused" =>
    /\ doc = Written(source) /\ source \in LockedFlakes
    /\ phase # "walkFailed"
    /\ phase = "rejected" => source.paths[Root] = NoPath
    /\ phase = "imported" => paths = Placed

LEMMA TripInvStep ==
  WalkInv /\ WalkInv' /\ TripInv /\ [Next]_vars => TripInv'
<1> SUFFICES ASSUME WalkInv, WalkInv', TripInv, [Next]_vars,
                    source' # None, phase' # "refused"
             PROVE  /\ doc' = Written(source') /\ source' \in LockedFlakes
                    /\ phase' # "walkFailed"
                    /\ phase' = "rejected" => source'.paths[Root] = NoPath
                    /\ phase' = "imported" => paths' = Placed'
  BY DEF TripInv
<1> USE LockGraphAssumption
<1>1. CASE Export
  BY <1>1 DEF Export
<1>2. CASE Receive
  BY <1>2 DEF Receive, WalkInv, GivenInv
<1>3. CASE Reject
  BY <1>3 DEF Reject
<1>4. ASSUME phase \notin Ended, UNCHANGED <<source, doc, paths>>
      PROVE  /\ doc' = Written(source') /\ source' \in LockedFlakes
             /\ ParserAccepts /\ phase' # "walkFailed"
             /\ Named = doc.nodes
             /\ doc.root = KeyOf[Root] /\ Root \in Nodes
  <2>1. /\ doc = Written(source) /\ source \in LockedFlakes
        /\ doc' = doc /\ source' = source
    BY <1>4 DEF TripInv, Ended
  <2>2. /\ doc.root \in doc.nodes /\ ParserAccepts /\ Named = doc.nodes
        /\ doc.root = KeyOf[Root]
    BY <2>1, WrittenNamed
  <2>3. phase' # "walkFailed"
    BY <2>1, <2>2 DEF WalkInv
  <2>4. QED BY <2>1, <2>2, <2>3
<1>5. CASE Parse
  <2>1. phase \notin Ended /\ UNCHANGED <<source, doc, paths>>
    BY <1>5 DEF Parse, Ended
  <2>2. ParserAccepts
    BY <1>4, <2>1
  <2>3. phase' \notin {"rejected", "imported"}
    BY <1>5, <2>2 DEF Parse, Visit
  <2>4. QED BY <1>4, <2>1, <2>3
<1>6. ASSUME NEW i \in Inputs, Look(i)
      PROVE  /\ doc' = Written(source') /\ source' \in LockedFlakes
             /\ phase' # "walkFailed"
             /\ phase' \notin {"rejected", "imported"}
  <2>1. phase \notin Ended /\ UNCHANGED <<source, doc, paths>>
    BY <1>6 DEF Look, Ended
  <2>2. phase' \notin {"rejected", "imported"}
    BY <1>6 DEF Look, Visit
  <2>3. QED BY <1>4, <2>1, <2>2
<1>7. CASE Return
  <2>1. phase \notin Ended /\ UNCHANGED <<source, doc, paths>>
    BY <1>7 DEF Return, Ended
  <2>2. phase' \notin {"rejected", "imported"}
    BY <1>7 DEF Return
  <2>3. QED BY <1>4, <2>1, <2>2
<1>8. CASE ReadPaths
  <2>1. phase = "paths" /\ UNCHANGED <<source, doc, graph, byKey, stack>>
    BY <1>8 DEF ReadPaths, walkVars
  <2>2. doc = Written(source) /\ source \in LockedFlakes
    BY <2>1 DEF TripInv
  <2>3. /\ Found = doc.nodes /\ doc.root = KeyOf[Root]
        /\ doc.root \in doc.nodes /\ Root \in Nodes
        /\ Root \in Reach(Root, source.edges, Nodes)
    BY <2>1, <2>2, WrittenNamed DEF WalkInv
  <2>4. \A k \in Keys : doc.paths[k] # NoPath => byKey[k] # NoNode
    BY <2>2, <2>3 DEF Written, Found
  <2>5. /\ paths' = Placed
        /\ phase' = "rejected" => Placed[MadeFor[doc.root]] = NoPath
        /\ phase' \in {"rejected", "imported"}
    BY <1>8, <2>4 DEF ReadPaths
  <2>6. Placed' = Placed
    BY <2>1 DEF Placed
  <2>7. ASSUME Placed[MadeFor[doc.root]] = NoPath
        PROVE  source.paths[Root] = NoPath
    <3> DEFINE n == MadeFor[doc.root]
               ks == {k \in Keys : byKey[k] = n /\ doc.paths[k] # NoPath}
    <3>1. doc.root \in Keys /\ n \in Nodes /\ byKey[doc.root] = n
      BY <2>3 DEF Found, WalkInv
    <3>2. ks = {}
      <4>1. ASSUME ks # {}
            PROVE  Placed[n] \in Places
        <5>1. doc.paths[CHOOSE k \in ks : TRUE] \in Paths
          BY <2>1, <4>1 DEF WalkInv, GivenInv, Exports
        <5>2. QED BY <3>1, <4>1, <5>1 DEF Placed, Places
      <4>2. QED BY <2>7, <4>1
    <3>3. doc.paths[KeyOf[Root]] = NoPath
      BY <2>3, <3>1, <3>2
    <3>4. source.paths \in [Nodes -> Places \cup {NoPath}]
      BY <2>2 DEF LockedFlakes
    <3>5. source.paths[Root] # NoPath => source.paths[Root].path \in Paths
      BY <3>4 DEF Places
    <3>6. QED BY <2>2, <2>3, <3>3, <3>5, WrittenSays
  <2>8. QED BY <2>1, <2>2, <2>5, <2>6, <2>7
<1>9. CASE Again
  BY <1>9 DEF Again
<1>10. CASE UNCHANGED vars
  <2>1. Placed' = Placed
    BY <1>10 DEF vars, walkVars, Placed
  <2>2. QED BY <1>10, <2>1 DEF vars, walkVars, TripInv
<1>11. QED
  BY <1>1, <1>2, <1>3, <1>5, <1>6, <1>7, <1>8, <1>9, <1>10
     DEF Next, Importing

\* Whatever was exported, its import is rejected only for want of a root
\* path, and has the same edges and paths.
THEOREM RoundTripCorrect == Spec => []RoundTrip
<1>1. Init => TripInv
  BY DEF Init, TripInv
<1>2. ASSUME WalkInv, TripInv, source # None
      PROVE  RoundTrip
  <2> DEFINE reached == Reach(Root, source.edges, Nodes)
             copy(m) == MadeFor[KeyOf[m]]
  <2>1. ASSUME phase = "imported", NEW n \in reached
        PROVE  /\ \A i \in Inputs :
                    graph[copy(n)][i] =
                      IF source.edges[n][i] \in Nodes
                      THEN copy(source.edges[n][i]) ELSE source.edges[n][i]
               /\ paths[copy(n)] =
                    IF source.paths[n] = NoPath THEN NoPath
                    ELSE [accessor |-> FS, path |-> source.paths[n].path]
    <3>1. /\ doc = Written(source) /\ source \in LockedFlakes
          /\ doc \in Exports /\ graph = Parsed /\ paths = Placed
          /\ Found = Named /\ \A k \in Found : byKey[k] = MadeFor[k]
      BY <1>2, <2>1 DEF TripInv, WalkInv, GivenInv
    <3>2. /\ n \in Nodes /\ KeyOf[n] \in Named /\ KeyOf[n] \in Keys
          /\ copy(n) \in Nodes
      BY <2>1, <3>1, WrittenSays, WrittenNamed, LockGraphAssumption
    <3>3. ASSUME NEW i \in Inputs
          PROVE  graph[copy(n)][i] =
                   IF source.edges[n][i] \in Nodes
                   THEN copy(source.edges[n][i]) ELSE source.edges[n][i]
      <4>1. source.edges[n][i] \in Nodes \cup {Absent, Follows}
        BY <3>1, <3>2 DEF LockedFlakes, Edges
      <4>2. Items[KeyOf[n]][i] = IF source.edges[n][i] \in Nodes
                                 THEN KeyOf[source.edges[n][i]]
                                 ELSE source.edges[n][i]
        BY <2>1, <3>1, WrittenSays
      <4>3. graph[copy(n)][i] = IF Items[KeyOf[n]][i] \in Keys
                                THEN MadeFor[Items[KeyOf[n]][i]]
                                ELSE Items[KeyOf[n]][i]
        BY <3>1, <3>2, ParsedInputs
      <4>4. QED BY <4>1, <4>2, <4>3, LockGraphAssumption
    <3>4. paths[copy(n)] =
            IF source.paths[n] = NoPath THEN NoPath
            ELSE [accessor |-> FS, path |-> source.paths[n].path]
      <4> DEFINE ks == {k \in Keys : byKey[k] = copy(n)
                                       /\ doc.paths[k] # NoPath}
      <4>1. \A k \in Keys : byKey[k] = copy(n) => k = KeyOf[n]
        BY <3>1, <3>2, LockGraphAssumption DEF Found
      <4>2. byKey[KeyOf[n]] = copy(n)
        BY <3>1, <3>2
      <4>3. doc.paths[KeyOf[n]] = IF source.paths[n] = NoPath THEN NoPath
                                  ELSE source.paths[n].path
        BY <2>1, <3>1, WrittenSays
      <4>4. source.paths[n] # NoPath => source.paths[n].path # NoPath
        BY <3>1, <3>2, LockGraphAssumption DEF LockedFlakes, Places
      <4>5. CASE source.paths[n] = NoPath
        <5>1. ks = {}
          BY <4>1, <4>3, <4>5
        <5>2. QED BY <3>1, <3>2, <4>5, <5>1 DEF Placed
      <4>6. CASE source.paths[n] # NoPath
        <5>1. ks = {KeyOf[n]}
          BY <3>2, <4>1, <4>2, <4>3, <4>4, <4>6
        <5>2. (CHOOSE k \in ks : TRUE) = KeyOf[n]
          BY <5>1
        <5>3. QED BY <3>1, <3>2, <4>3, <4>6, <5>1, <5>2 DEF Placed
      <4>7. QED BY <4>5, <4>6
    <3>5. QED BY <3>3, <3>4
  <2>2. phase # "walkFailed"
    BY <1>2 DEF TripInv
  <2>3. phase = "rejected" => source.paths[Root] = NoPath
    BY <1>2 DEF TripInv
  <2>4. QED BY <2>1, <2>2, <2>3 DEF RoundTrip
<1>3. WalkInv /\ TripInv => RoundTrip
  BY <1>2 DEF RoundTrip
<1>4. QED
  BY <1>1, <1>3, WalkInvInit, WalkInvStep, TripInvStep, PTL DEF Spec

----------------------------------------------------------------------------
(* The paths of JSON from anywhere                                         *)

PathsInv ==
  phase = "imported" =>
    /\ paths = Placed
    /\ \A k \in Keys : doc.paths[k] # NoPath => k \in Found
    /\ paths[MadeFor[doc.root]] # NoPath

LEMMA PathsInvStep == WalkInv /\ PathsInv /\ [Next]_vars => PathsInv'
<1> SUFFICES ASSUME WalkInv, PathsInv, [Next]_vars, phase' = "imported"
             PROVE  /\ paths' = Placed'
                    /\ \A k \in Keys : doc'.paths[k] # NoPath => k \in Found'
                    /\ paths'[MadeFor[doc'.root]] # NoPath
  BY DEF PathsInv
<1>1. CASE ReadPaths
  <2>1. UNCHANGED <<doc, byKey>>
    BY <1>1 DEF ReadPaths, walkVars
  <2>2. Placed' = Placed /\ Found' = Found
    BY <2>1 DEF Placed, Found
  <2>3. /\ \A k \in Keys : doc.paths[k] # NoPath => byKey[k] # NoNode
        /\ paths' = Placed /\ Placed[MadeFor[doc.root]] # NoPath
    BY <1>1 DEF ReadPaths
  <2> QED
    BY <2>1, <2>2, <2>3 DEF Found
<1>2. CASE UNCHANGED vars
  <2>1. UNCHANGED <<phase, doc, byKey, paths>>
    BY <1>2 DEF vars, walkVars
  <2>2. Placed' = Placed /\ Found' = Found
    BY <2>1 DEF Placed, Found
  <2> QED
    BY <2>1, <2>2 DEF PathsInv
<1>3. CASE Export \/ Receive \/ Reject \/ Parse \/ Return \/ Again
  BY <1>3 DEF Export, Receive, Reject, Parse, Visit, Return, Again
<1>4. ASSUME NEW i \in Inputs, Look(i)
      PROVE  phase' # "imported"
  BY <1>4 DEF Look, Visit
<1> QED
  BY <1>1, <1>2, <1>3, <1>4 DEF Next, Importing

\* Whatever JSON is imported, each of its paths is at the node parsed for its
\* key, no other node has a path, and the root has one.
THEOREM PathsAreAccounted == Spec => []PathsAccounted
<1>1. Init => PathsInv
  BY DEF Init, PathsInv
<1>2. ASSUME WalkInv, PathsInv, phase = "imported"
      PROVE  PathsAccounted
  <2>1. /\ doc \in Exports /\ Found = Named /\ paths = Placed
        /\ \A k \in Found : byKey[k] = MadeFor[k]
        /\ \A k \in Keys : doc.paths[k] # NoPath => k \in Found
        /\ paths[MadeFor[doc.root]] # NoPath
    BY <1>2 DEF WalkInv, GivenInv, PathsInv
  <2>2. ASSUME NEW k \in Keys, doc.paths[k] # NoPath
        PROVE  /\ k \in Named
               /\ paths[MadeFor[k]] = [accessor |-> FS, path |-> doc.paths[k]]
    <3> DEFINE ks == {l \in Keys : byKey[l] = MadeFor[k]
                                     /\ doc.paths[l] # NoPath}
    <3>1. k \in Named /\ MadeFor[k] \in Nodes /\ byKey[k] = MadeFor[k]
      BY <2>1, <2>2, LockGraphAssumption
    <3>2. ks = {k}
      BY <2>1, <2>2, <3>1, LockGraphAssumption
    <3>3. (CHOOSE l \in ks : TRUE) = k
      BY <3>2
    <3> QED
      BY <2>1, <3>1, <3>2, <3>3 DEF Placed
  <2>3. ASSUME NEW n \in Nodes, paths[n] # NoPath
        PROVE  \E k \in Named : MadeFor[k] = n /\ doc.paths[k] # NoPath
    <3>1. PICK k \in Keys : byKey[k] = n /\ doc.paths[k] # NoPath
      BY <2>1, <2>3 DEF Placed
    <3> QED
      BY <2>1, <3>1
  <2> QED
    BY <2>1, <2>2, <2>3 DEF PathsAccounted
<1>3. WalkInv /\ PathsInv => PathsAccounted
  BY <1>2 DEF PathsAccounted
<1> QED
  BY <1>1, <1>3, WalkInvInit, WalkInvStep, PathsInvStep, PTL DEF Spec
=============================================================================
