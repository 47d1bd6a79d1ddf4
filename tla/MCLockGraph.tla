---------------------------- MODULE MCLockGraph ----------------------------
(* LockGraph on three nodes with two inputs each: every graph without an   *)
(* edge to the root is exported, and every graph at all is received.       *)
EXTENDS LockGraph, TLC

CONSTANTS k1, k2, k3, n1, n2, n3, p1, p2, p3, Mounted

MCKeyOf == n1 :> k1 @@ n2 :> k2 @@ n3 :> k3
MCMadeFor == k1 :> n2 @@ k2 :> n3 @@ k3 :> n1

At(a, p) == [accessor |-> a, path |-> p]

MCSources ==
  [edges : Edges(Nodes \ {Root}),
   paths : {n1 :> At(FS, p1) @@ n2 :> NoPath @@ n3 :> NoPath,
            n1 :> At(FS, p1) @@ n2 :> At(Mounted, p2) @@ n3 :> At(FS, p3),
            n1 :> NoPath @@ n2 :> At(FS, p2) @@ n3 :> NoPath}]

\* Lock files that lack a node say nothing of it.
MCDocuments ==
  {d \in [nodes : {{k1, k2, k3}, {k1, k2}, {k2, k3}}, root : {k1},
          inputs : [Keys -> [Inputs -> Keys \cup {Absent, Follows}]],
          paths : {k1 :> p1 @@ k2 :> p2 @@ k3 :> NoPath,
                   k1 :> NoPath @@ k2 :> p2 @@ k3 :> p3}] :
     \A k \in Keys \ d.nodes, i \in Inputs : d.inputs[k][i] = Absent}
=============================================================================
