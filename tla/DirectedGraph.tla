---------------------------- MODULE DirectedGraph ----------------------------
(***************************************************************************)
(* DirectedGraph of packages/core/src/execution-engine/partial-execution-   *)
(* utils: nodes and connections in the order they were added, which decides *)
(* the order in which the algorithms walk the graph.                        *)
(*                                                                         *)
(* A connection is a record [from, to, type, out, in]: the two nodes, "main"*)
(* or the type of a sub-node's connection, and the indexes of output, input.*)
(***************************************************************************)
EXTENDS Integers, Sequences, SequencesExt

EmptyGraph == [nodes |-> <<>>, conns |-> <<>>]

AddOnce(s, x) == IF Contains(s, x) THEN s ELSE Append(s, x)

HasNode(g, n) == n \in ToSet(g.nodes)
IsMain(c) == c.type = "main"

AddNode(g, n) == [g EXCEPT !.nodes = AddOnce(@, n)]

\* addNodes of both ends, then addConnection.
AddConnection(g, c) ==
  [nodes |-> AddOnce(AddOnce(g.nodes, c.from), c.to), conns |-> AddOnce(g.conns, c)]

\* The elements of s that are in T, in their order.
Where(s, T) ==
  LET found[i \in 0 .. Len(s)] ==
        IF i = 0 THEN <<>>
        ELSE IF s[i] \in T THEN Append(found[i - 1], s[i]) ELSE found[i - 1]
  IN found[Len(s)]

\* The elements of t, each added once, after those of s.
AddAll(s, t) ==
  LET added[i \in 0 .. Len(t)] == IF i = 0 THEN s ELSE AddOnce(added[i - 1], t[i])
  IN added[Len(t)]

\* addConnections.
AddConnections(g, cs) ==
  LET added[i \in 0 .. Len(cs)] == IF i = 0 THEN g ELSE AddConnection(added[i - 1], cs[i])
  IN added[Len(cs)]

From(g, ns) == {c \in ToSet(g.conns) : c.from \in ns}
Into(g, ns) == {c \in ToSet(g.conns) : c.to \in ns}
Main(g) == {c \in ToSet(g.conns) : IsMain(c)}

MainOf(g) == [g EXCEPT !.conns = Where(@, Main(g))]

GetDirectChildConnections(g, n) == Where(g.conns, From(g, {n}))
GetDirectParentConnections(g, n) == Where(g.conns, Into(g, {n}))

\* Each round goes one connection further. A new round finds a new child, so as
\* many rounds as there are connections find all.
GetChildren(g, n) ==
  LET children[k \in 0 .. Len(g.conns)] ==
        IF k = 0 THEN {} ELSE {c.to : c \in From(g, {n} \cup children[k - 1])}
  IN children[Len(g.conns)]

GetParentConnections(g, n) ==
  LET connections[k \in 0 .. Len(g.conns)] ==
        IF k = 0 THEN {} ELSE Into(g, {n} \cup {c.from : c \in connections[k - 1]})
  IN connections[Len(g.conns)]

\* Mutant of RemoveNode: the connections are not reconnected.
RemoveNodeOnly(g, n) ==
  [nodes |-> Where(g.nodes, ToSet(g.nodes) \ {n}),
   conns |-> Where(g.conns, ToSet(g.conns) \ (From(g, {n}) \cup Into(g, {n})))]

\* The connection that takes the place of c into and d out of a removed node.
Joined(c, d) == [c EXCEPT !.to = d.to, !.in = d.in]

\* removeNode with reconnectConnections: each main parent is connected to each
\* main child. What was connected to itself leaves connections from it behind.
RemoveNode(g, n) ==
  LET into == Where(g.conns, Into(g, {n}) \cap Main(g))
      outOf == Where(g.conns, From(g, {n}) \cap Main(g))
      kept == Where(g.conns, ToSet(g.conns) \ (From(g, {n}) \cup Into(g, {n})))
      joined[i \in 0 .. Len(into)] ==
        IF i = 0 THEN kept
        ELSE AddAll(joined[i - 1], [j \in DOMAIN outOf |-> Joined(into[i], outOf[j])])
  IN [nodes |-> Where(g.nodes, ToSet(g.nodes) \ {n}), conns |-> joined[Len(into)]]

-----------------------------------------------------------------------------
(* getStronglyConnectedComponents.                                          *)

Unvisited == -1

\* The low link of node n, now that its child was followed.
LowestLink(s, n, child) ==
  IF Contains(s.stack, child) /\ s.low[child] < s.low[n] THEN s.low[child] ELSE s.low[n]

\* Mutant of PopComponent: all nodes are popped.
PopEverything(s, n) == [s EXCEPT !.stack = <<>>, !.sccs = Append(@, ToSet(s.stack))]

\* Nodes are popped as long as their low link is the id of node n.
PopComponent(s, n) ==
  LET all == Len(s.stack)
      keep == Min({k \in 0 .. all : \A i \in k + 1 .. all : s.low[s.stack[i]] = s.ids[n]})
      scc == {s.stack[i] : i \in keep + 1 .. all}
  IN [s EXCEPT !.stack = SubSeq(@, 1, keep),
               !.sccs = IF scc = {} THEN @ ELSE Append(@, scc)]

\* What is known after some nodes N were visited, and a call of followNode: at a
\* node, with what is known before it.
Walk(N) ==
  [id : Nat, ids : [N -> Int], low : [N -> Int], stack : Seq(N), sccs : Seq(SUBSET N)]
FollowCall(g) == [node : ToSet(g.nodes), walk : Walk(ToSet(g.nodes))]

EnterNode(s, n) ==
  [s EXCEPT !.id = @ + 1, !.ids[n] = s.id, !.low[n] = s.id, !.stack = Append(@, n)]
LeaveNode(s, n) == IF s.low[n] = s.ids[n] THEN PopComponent(s, n) ELSE s

\* followNode; follow is what it returns for other calls. A node is visited once:
\* it gets an id, its children are followed, and it may complete a component.
FollowNode(g, call, follow) ==
  LET n == call.node
      outOf == GetDirectChildConnections(g, n)
      walked[i \in 0 .. Len(outOf)] ==
        IF i = 0 THEN EnterNode(call.walk, n)
        ELSE LET s == follow[[node |-> outOf[i].to, walk |-> walked[i - 1]]]
             IN [s EXCEPT !.low[n] = LowestLink(s, n, outOf[i].to)]
  IN IF call.walk.ids[n] # Unvisited THEN call.walk ELSE LeaveNode(walked[Len(outOf)], n)

GetStronglyConnectedComponents(g) ==
  LET follow[call \in FollowCall(g)] == FollowNode(g, call, follow)
      unvisited == [n \in ToSet(g.nodes) |-> Unvisited]
      walked[i \in 0 .. Len(g.nodes)] ==
        IF i = 0
        THEN [id |-> 0, ids |-> unvisited, low |-> unvisited, stack |-> <<>>, sccs |-> <<>>]
        ELSE follow[[node |-> g.nodes[i], walk |-> walked[i - 1]]]
  IN walked[Len(g.nodes)].sccs

-----------------------------------------------------------------------------
(* depthFirstSearch for the first node of a set.                            *)

NoNode == 0

DepthFirstSearch(g, from, wanted) ==
  LET N == ToSet(g.nodes)
      search[n \in N, s \in [seen : SUBSET N, found : N \cup {NoNode}]] ==
        LET child(t, c) == IF t.found # NoNode THEN t ELSE search[c.to, t]
            visited == [s EXCEPT !.seen = @ \cup {n}]
        IN IF n \in s.seen THEN s
           ELSE IF n \in wanted THEN [visited EXCEPT !.found = n]
           ELSE FoldLeft(child, visited, GetDirectChildConnections(g, n))
  IN search[from, [seen |-> {}, found |-> NoNode]].found
=============================================================================
