----------------------------- MODULE LockGraph -----------------------------
(***************************************************************************)
(* Exporting a locked flake as JSON and importing it again                 *)
(* (nix-bindings-sys/src/wrappers/flake.cc).                               *)
(*                                                                         *)
(* A locked flake is a graph of nodes, which may have cycles, and a source *)
(* path beside some of the nodes.  The JSON names the nodes by keys.  The  *)
(* import lets Nix parse the lock file, which makes new nodes and forgets  *)
(* the keys, and finds the key of every node again by walking the JSON and *)
(* the new nodes in step.                                                  *)
(***************************************************************************)
EXTENDS Naturals, Sequences, FiniteSets

CONSTANTS
  Nodes, Keys, Inputs, Root,  \* Root is the root node of the locked flake
  Absent, Follows,            \* no such input; an input that follows another
  Paths, Accessors, FS,       \* a source path has an accessor and a path
  NoPath, NoNode, None,
  KeyOf,     \* the key the export gives a node
  MadeFor,   \* the node the parser of the import makes for a key
  Sources,   \* locked flakes the program may export
  Documents, \* JSON the program may import from elsewhere
  MaxDepth   \* bound: recursion that fits the C stack

Edges(S) == [Nodes -> [Inputs -> S \cup {Absent, Follows}]]
Places == [accessor : Accessors, path : Paths]

\* The root is not a locked node, so no input leads to it.
LockedFlakes ==
  [edges : Edges(Nodes \ {Root}), paths : [Nodes -> Places \cup {NoPath}]]

\* What the import reads of the JSON.
Exports ==
  [nodes : SUBSET Keys,
   root : Keys,
   inputs : [Keys -> [Inputs -> Keys \cup {Absent, Follows}]],
   paths : [Keys -> Paths \cup {NoPath}]]

ASSUME LockGraphAssumption ==
  /\ Root \in Nodes /\ FS \in Accessors
  /\ NoNode \notin Nodes /\ NoPath \notin Paths \cup Places
  /\ None \notin LockedFlakes \cup Exports
  /\ Absent # Follows
  /\ {Absent, Follows} \cap (Nodes \cup Keys) = {}
  /\ KeyOf \in [Nodes -> Keys] /\ MadeFor \in [Keys -> Nodes]
  /\ \A m, n \in Nodes : KeyOf[m] = KeyOf[n] => m = n
  /\ \A k, l \in Keys : MadeFor[k] = MadeFor[l] => k = l
  /\ Sources \subseteq LockedFlakes /\ Documents \subseteq Exports
  /\ IsFiniteSet(Keys) /\ MaxDepth \in Nat

VARIABLES
  phase,   \* where the program is, or how the last call ended
  source,  \* the locked flake doc was exported from
  doc,     \* the JSON given to the import
  graph,   \* edges of the nodes the parser made
  byKey,   \* nodes_by_key
  stack,   \* calls of collect_lock_file_nodes; todo: inputs to look at
  paths    \* node_paths

walkVars == <<byKey, stack>>
vars == <<phase, source, doc, graph, walkVars, paths>>

Frames == [key : Keys, node : Nodes, todo : SUBSET Inputs]
Ended == {"imported", "rejected", "walkFailed", "refused"}

TypeOK ==
  /\ phase \in {"idle", "given", "walking", "paths"} \cup Ended
  /\ source \in LockedFlakes \cup {None}
  /\ doc \in Exports \cup {None}
  /\ graph \in Edges(Nodes) \cup {None}
  /\ byKey \in [Keys -> Nodes \cup {NoNode}]
  /\ stack \in Seq(Frames)
  /\ paths \in [Nodes -> Places \cup {NoPath}]

NoNodes == [k \in Keys |-> NoNode]
NoPaths == [n \in Nodes |-> NoPath]

Init ==
  /\ phase = "idle"
  /\ source = None /\ doc = None /\ graph = None
  /\ byKey = NoNodes /\ stack = <<>>
  /\ paths = NoPaths

----------------------------------------------------------------------------
(* Nix's side                                                              *)

\* What can be reached from r along edges in U: what is in every set that
\* has r and is closed under the edges.
Closed(S, edges, U) ==
  \A x \in S, i \in Inputs : edges[x][i] \in U => edges[x][i] \in S

Reach(r, edges, U) ==
  LET closed == {S \in SUBSET U : r \in S /\ Closed(S, edges, U)}
  IN {x \in U : \A S \in closed : x \in S}

\* LockFile::toJSON: every node that can be reached gets a key.
Written(g) ==
  LET reached == Reach(Root, g.edges, Nodes)
      named == {KeyOf[n] : n \in reached}
      node(k) == CHOOSE n \in Nodes : KeyOf[n] = k
      input(v) == IF v \in Nodes THEN KeyOf[v] ELSE v
  IN [nodes |-> named,
      root |-> KeyOf[Root],
      inputs |-> [k \in Keys |-> [i \in Inputs |->
                    IF k \in named THEN input(g.edges[node(k)][i])
                    ELSE Absent]],
      paths |-> [k \in Keys |->
                   IF k \in named /\ g.paths[node(k)] # NoPath
                   THEN g.paths[node(k)].path ELSE NoPath]]

\* What the JSON says of the inputs; of a key it does not have, nothing.
Items ==
  [k \in Keys |-> [i \in Inputs |-> IF k \in doc.nodes
                                    THEN doc.inputs[k][i] ELSE Absent]]

Named == Reach(doc.root, Items, Keys)

\* The LockFile constructor throws when an input names a node that is not
\* there, or the root.  It does not mind a missing root node.
ParserAccepts ==
  \A k \in Named, i \in Inputs :
    Items[k][i] \in Keys => Items[k][i] \in doc.nodes \ {doc.root}

\* It makes one node per key, whichever input names it first.
Parsed ==
  LET named == Named
      items == Items
      key(n) == CHOOSE k \in named : MadeFor[k] = n
      edge(v) == IF v \in Keys THEN MadeFor[v] ELSE v
  IN [n \in Nodes |-> [i \in Inputs |->
        IF \E k \in named : MadeFor[k] = n THEN edge(items[key(n)][i])
        ELSE Absent]]

----------------------------------------------------------------------------
(* The wrappers                                                            *)

\* nix_locked_flake_export_json throws when a path belongs to a node that
\* got no key.  Of a source path only the path is written.
Export ==
  /\ phase = "idle"
  /\ \E g \in Sources :
       LET lost == {n \in Nodes \ Reach(Root, g.edges, Nodes) :
                      g.paths[n] # NoPath}
       IN /\ source' = g
          /\ \/ lost = {} /\ doc' = Written(g) /\ phase' = "given"
             \/ lost # {} /\ doc' = None /\ phase' = "refused"
  /\ UNCHANGED <<graph, walkVars, paths>>

\* JSON from elsewhere.
Receive ==
  /\ phase = "idle"
  /\ \E d \in Documents : doc' = d
  /\ phase' = "given"
  /\ UNCHANGED <<source, graph, walkVars, paths>>

\* Mutant: the recursion starts over at a key it has been at.
VisitAgain(rest, k, n) ==
  /\ byKey' = [byKey EXCEPT ![k] = n]
  /\ \/ /\ k \in doc.nodes /\ Len(stack) < MaxDepth
        /\ stack' = Append(rest, [key |-> k, node |-> n,
             todo |-> {i \in Inputs : doc.inputs[k][i] # Absent}])
        /\ phase' = "walking"
     \/ /\ k \notin doc.nodes
        /\ stack' = rest /\ phase' = "walkFailed"

\* Mutant: only keys whose calls have not returned are passed by.
VisitOffStack(rest, k, n) ==
  \/ /\ \E j \in 1 .. Len(rest) : rest[j].key = k
     /\ byKey' = byKey /\ stack' = rest
     /\ phase' = "walking"
  \/ /\ \A j \in 1 .. Len(rest) : rest[j].key # k
     /\ VisitAgain(rest, k, n)

\* collect_lock_file_nodes is called for k and n.
Visit(rest, k, n) ==
  \/ /\ byKey[k] # NoNode
     /\ byKey' = byKey /\ stack' = rest
     /\ phase' = "walking"
  \/ /\ byKey[k] = NoNode
     /\ byKey' = [byKey EXCEPT ![k] = n]
     /\ \/ /\ k \in doc.nodes /\ Len(stack) < MaxDepth
           /\ stack' = Append(rest, [key |-> k, node |-> n,
                todo |-> {i \in Inputs : doc.inputs[k][i] # Absent}])
           /\ phase' = "walking"
        \/ /\ k \notin doc.nodes
           /\ stack' = rest /\ phase' = "walkFailed"

\* The parts of the JSON that are not modelled may be malformed: the JSON
\* itself, the version, a locked input, a flake reference.
Reject ==
  /\ phase \in {"given", "paths"} /\ source = None
  /\ phase' = "rejected"
  /\ UNCHANGED <<source, doc, graph, walkVars, paths>>

Parse ==
  /\ phase = "given"
  /\ \/ /\ ParserAccepts
        /\ graph' = Parsed
        /\ Visit(<<>>, doc.root, MadeFor[doc.root])
     \/ /\ ~ParserAccepts
        /\ phase' = "rejected"
        /\ UNCHANGED <<graph, walkVars>>
  /\ UNCHANGED <<source, doc, paths>>

Top == stack[Len(stack)]
Below == SubSeq(stack, 1, Len(stack) - 1)

\* Mutant: an input that follows another is not skipped.
LookAtAll(i) ==
  LET v == doc.inputs[Top.key][i]
      edge == graph[Top.node][i]
      rest == Append(Below, [Top EXCEPT !.todo = @ \ {i}])
  IN /\ phase = "walking" /\ stack # <<>> /\ i \in Top.todo
     /\ \/ /\ edge \notin Nodes
           /\ phase' = "walkFailed" /\ UNCHANGED walkVars
        \/ edge \in Nodes /\ Visit(rest, v, edge)
     /\ UNCHANGED <<source, doc, graph, paths>>

\* Mutant: an input is off the list only when it is skipped.
LookForever(i) ==
  LET v == doc.inputs[Top.key][i]
      edge == graph[Top.node][i]
      rest == Append(Below, [Top EXCEPT !.todo = @ \ {i}])
  IN /\ phase = "walking" /\ stack # <<>> /\ i \in Top.todo
     /\ \/ /\ v \notin Keys
           /\ stack' = rest /\ UNCHANGED <<phase, byKey>>
        \/ /\ v \in Keys /\ edge \notin Nodes
           /\ phase' = "walkFailed" /\ UNCHANGED walkVars
        \/ v \in Keys /\ edge \in Nodes /\ Visit(stack, v, edge)
     /\ UNCHANGED <<source, doc, graph, paths>>

\* The loop over a node's inputs: what follows another input is skipped; the
\* node must have a locked node for the others.
Look(i) ==
  LET v == doc.inputs[Top.key][i]
      edge == graph[Top.node][i]
      rest == Append(Below, [Top EXCEPT !.todo = @ \ {i}])
  IN /\ phase = "walking" /\ stack # <<>> /\ i \in Top.todo
     /\ \/ /\ v \notin Keys
           /\ stack' = rest /\ UNCHANGED <<phase, byKey>>
        \/ /\ v \in Keys /\ edge \notin Nodes
           /\ phase' = "walkFailed" /\ UNCHANGED walkVars
        \/ v \in Keys /\ edge \in Nodes /\ Visit(rest, v, edge)
     /\ UNCHANGED <<source, doc, graph, paths>>

Return ==
  /\ phase = "walking" /\ stack # <<>> /\ Top.todo = {}
  /\ stack' = Below
  /\ phase' = IF Below = <<>> THEN "paths" ELSE "walking"
  /\ UNCHANGED <<source, doc, graph, byKey, paths>>

\* Mutant: the paths are kept as the JSON has them.
PlacedBare ==
  [n \in Nodes |->
     LET ks == {k \in Keys : byKey[k] = n /\ doc.paths[k] # NoPath}
     IN IF ks = {} THEN NoPath ELSE doc.paths[CHOOSE k \in ks : TRUE]]

\* The paths of doc, at the node of their key.
Placed ==
  [n \in Nodes |->
     LET ks == {k \in Keys : byKey[k] = n /\ doc.paths[k] # NoPath}
     IN IF ks = {} THEN NoPath
        ELSE [accessor |-> FS, path |-> doc.paths[CHOOSE k \in ks : TRUE]]]

\* Mutant: every node the walk has found must have a path.
ReadAllPaths ==
  /\ phase = "paths"
  /\ \/ /\ \E k \in Keys : (doc.paths[k] = NoPath) = (byKey[k] # NoNode)
        /\ phase' = "rejected" /\ UNCHANGED paths
     \/ /\ \A k \in Keys : (doc.paths[k] # NoPath) = (byKey[k] # NoNode)
        /\ paths' = Placed
        /\ phase' = "imported"
  /\ UNCHANGED <<source, doc, graph, walkVars>>

\* Mutant: a path of a key the walk has not found is passed by.
ReadKnownPaths ==
  /\ phase = "paths"
  /\ paths' = Placed
  /\ phase' = IF Placed[MadeFor[doc.root]] = NoPath
              THEN "rejected" ELSE "imported"
  /\ UNCHANGED <<source, doc, graph, walkVars>>

\* A path must belong to a node the walk has found, and the root have one.
ReadPaths ==
  /\ phase = "paths"
  /\ \/ /\ \E k \in Keys : doc.paths[k] # NoPath /\ byKey[k] = NoNode
        /\ phase' = "rejected" /\ UNCHANGED paths
     \/ /\ \A k \in Keys : doc.paths[k] # NoPath => byKey[k] # NoNode
        /\ paths' = Placed
        /\ phase' = IF Placed[MadeFor[doc.root]] = NoPath
                    THEN "rejected" ELSE "imported"
  /\ UNCHANGED <<source, doc, graph, walkVars>>

\* The call is over and the program does the next one.
Again ==
  /\ phase \in Ended
  /\ phase' = "idle"
  /\ source' = None /\ doc' = None /\ graph' = None
  /\ byKey' = NoNodes /\ stack' = <<>>
  /\ paths' = NoPaths

Importing == Parse \/ (\E i \in Inputs : Look(i)) \/ Return \/ ReadPaths

Next ==
  \/ Export
  \/ Receive
  \/ Reject
  \/ Importing
  \/ Again

\* The import is one call that runs by itself once it is entered.
Spec == Init /\ [][Next]_vars /\ WF_vars(Importing)

----------------------------------------------------------------------------
(* Properties                                                              *)

Found == {k \in Keys : byKey[k] # NoNode}

\* The walk over the JSON and over the parsed nodes stay in step: a key is
\* given the node the parser made for it, the walk never misses an input
\* (its own errors cannot happen but for a missing root), and in the end it
\* has been at every node that can be reached, cycles and shared ones too.
WalkAgrees ==
  /\ \A k \in Found : byKey[k] = MadeFor[k]
  /\ phase = "walkFailed" => doc.root \notin doc.nodes
  /\ phase \in {"paths", "imported"} => Found = Named

\* An exported locked flake is imported again unless its root has no path,
\* and what is imported has the edges and the paths of what was exported,
\* at the nodes that stand for the same ones; the paths are taken to be of
\* the file system.
RoundTrip ==
  source # None =>
    /\ phase # "walkFailed"
    /\ phase = "rejected" => source.paths[Root] = NoPath
    /\ phase = "imported" =>
         \A n \in Reach(Root, source.edges, Nodes) :
           LET copy(m) == MadeFor[KeyOf[m]]
           IN /\ \A i \in Inputs :
                   graph[copy(n)][i] =
                     IF source.edges[n][i] \in Nodes
                     THEN copy(source.edges[n][i]) ELSE source.edges[n][i]
              /\ paths[copy(n)] =
                   IF source.paths[n] = NoPath THEN NoPath
                   ELSE [accessor |-> FS, path |-> source.paths[n].path]

\* JSON from anywhere is imported only if its paths account for the nodes: each
\* is at the node Nix parsed for its key, which inputs lead to from the root,
\* and no path is without such a node; no other node has one, and the root has.
PathsAccounted ==
  phase = "imported" =>
    /\ \A k \in Keys :
         doc.paths[k] # NoPath =>
           /\ k \in Named
           /\ paths[MadeFor[k]] = [accessor |-> FS, path |-> doc.paths[k]]
    /\ \A n \in Nodes : paths[n] # NoPath =>
         \E k \in Named : MadeFor[k] = n /\ doc.paths[k] # NoPath
    /\ paths[MadeFor[doc.root]] # NoPath

\* The recursion is never deeper than there are keys it has found, whatever
\* cycles the JSON has: it needs stack for one call per key, and no more.
DepthBounded == Len(stack) <= Cardinality(Found)

\* The calls that stay on the stack keep at most what they had to look at, and
\* some of it or a call is gone.
Shortens ==
  /\ stack' # stack /\ Len(stack') <= Len(stack)
  /\ \A j \in 1 .. Len(stack') :
       /\ stack'[j].key = stack[j].key
       /\ stack'[j].todo \subseteq stack[j].todo

\* A step of the walk finds a key, or shortens what is left of it, or ends it:
\* however many inputs lead to a key, what it names is gone through once, and
\* with finitely many keys and inputs the walk cannot go on for ever.
WalkDescends ==
  [][phase = "walking" =>
       \/ phase' = "walkFailed"
       \/ Found \subseteq Found' /\ Found' # Found
       \/ Found' = Found /\ Shortens]_vars

\* An import comes to an end, also for a graph with cycles.
Ends == phase = "given" ~> phase \in Ended
=============================================================================
