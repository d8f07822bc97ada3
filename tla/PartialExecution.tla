--------------------------- MODULE PartialExecution ---------------------------
(***************************************************************************)
(* What runPartialWorkflow2 prepares before it executes part of a workflow: *)
(* from the workflow, the data of the last run and the node to run to, it   *)
(* finds a trigger, the part of the graph that matters, the nodes to start  *)
(* from and the stack the engine begins with. One action per numbered step. *)
(*                                                                         *)
(* Run data is a function of the nodes that have some. Of a node's data it  *)
(* matters whether it holds an error, and which outputs carried items in    *)
(* any and in the last run.                                                 *)
(***************************************************************************)
EXTENDS DirectedGraph, FiniteSets

CONSTANTS
  Node,       \* numbered from 1
  Triggers,   \* nodes of the group trigger
  LoopNodes,  \* splitInBatches nodes
  Inputs      \* the workflows, run data and destinations to start from

Connection == [from : Node, to : Node, type : STRING, out : Nat, in : Nat]
Graph == [nodes : Seq(Node), conns : Seq(Connection)]

ASSUME PartialAssumption ==
  /\ IsFiniteSet(Node) /\ Node \subseteq Nat \ {NoNode}
  /\ Triggers \subseteq Node /\ LoopNodes \subseteq Node
  /\ \A i \in Inputs : i.graph \in Graph /\ i.destination \in Node

VARIABLES
  input,       \* the record of Inputs: graph, disabled, pinned, dirty, destination
  runData,
  stage,       \* the step reached
  trigger,
  graph,       \* the subgraph
  startNodes,  \* in the order they were added
  stack,       \* entries of nodeExecutionStack, in no order: node and the
               \* connections it gets data from
  waiting      \* waitingExecution: the same for incomplete groups with some data

vars == <<input, runData, stage, trigger, graph, startNodes, stack, waiting>>

Init ==
  \E i \in Inputs :
    /\ input = [graph |-> i.graph, disabled |-> i.disabled, pinned |-> i.pinned,
                dirty |-> i.dirty, destination |-> i.destination]
    /\ runData = i.runData
    /\ stage = "begin"
    /\ trigger = NoNode
    /\ graph = EmptyGraph
    /\ startNodes = <<>> /\ stack = {} /\ waiting = {}

HasData(rd, n) == n \in DOMAIN rd
Pinned(n) == n \in input.pinned

\* An error (a UserError or a failed assertion) ends the preparation.
Fails == stage' = "failed" /\ UNCHANGED <<trigger, graph, startNodes, stack, waiting, runData>>

-----------------------------------------------------------------------------
(* 1. Find the trigger.                                                     *)

\* workflow.getParentNodes: over main connections, disabled nodes included.
GetParentNodes(n) == {c.from : c \in GetParentConnections(MainOf(input.graph), n)} \ {n}

\* findTriggerForPartialExecution. Which of several equally good triggers
\* comes first (order, webhooks) is left open.
FindTriggerForPartialExecution ==
  LET d == input.destination
      parents == (GetParentNodes(d) \cap Triggers) \ input.disabled
      withData == {t \in parents : HasData(runData, t)}
      pinned == {t \in parents : Pinned(t)}
  IN IF d \in Triggers \ input.disabled THEN {d}
     ELSE IF withData # {} THEN withData
     ELSE IF pinned # {} THEN pinned ELSE parents

\* Without a trigger, a parent with run data takes its place.
FindTrigger ==
  LET found == FindTriggerForPartialExecution
      instead == {n \in GetParentNodes(input.destination) : HasData(runData, n)}
  IN /\ stage = "begin"
     /\ \/ /\ trigger' \in IF found # {} THEN found ELSE instead
           /\ stage' = "trigger"
           /\ UNCHANGED <<runData, graph, startNodes, stack, waiting>>
        \/ found \cup instead = {} /\ Fails
     /\ UNCHANGED input

-----------------------------------------------------------------------------
(* 2. Find the subgraph.                                                    *)

FilterDisabledNodes(g) ==
  LET off == Where(g.nodes, input.disabled)
      filtered[i \in 0 .. Len(off)] ==
        IF i = 0 THEN g ELSE RemoveNode(filtered[i - 1], off[i])
  IN filtered[Len(off)]

NotInGraph == [nodes |-> <<NoNode>>, conns |-> <<>>]

\* A call of findSubgraphRecursive: at a node, with what is kept so far and the
\* branch that leads from there to the destination.
SubgraphCall == [node : Node, kept : Graph, branch : Seq(Connection)]

\* Mutant of FindSubgraphRecursive: a branch that closes a loop is dropped.
FindSubgraphNoLoops(g, call, find) ==
  LET n == call.node
      into == Where(g.conns, Into(g, {n}) \cap Main(g))
      kept[i \in 0 .. Len(into)] ==
        IF i = 0 THEN call.kept
        ELSE LET before == kept[i - 1]
             IN IF before = NotInGraph THEN before
                ELSE find[[node |-> into[i].from, kept |-> before,
                           branch |-> Append(call.branch, into[i])]]
  IN IF n = trigger THEN AddConnections(AddNode(call.kept, n), call.branch)
     ELSE IF ~HasNode(g, n) THEN NotInGraph
     ELSE IF \E c \in ToSet(call.branch) : c.to = n THEN call.kept
     ELSE kept[Len(into)]

\* findSubgraphRecursive; find is what it returns for other calls. A node that
\* is not in the graph fails an assertion.
FindSubgraphRecursive(g, call, find) ==
  LET n == call.node
      visited == \E c \in ToSet(call.branch) : c.to = n
      into == Where(g.conns, Into(g, {n}) \cap Main(g))
      kept[i \in 0 .. Len(into)] ==
        IF i = 0 THEN call.kept
        ELSE LET before == kept[i - 1]
             IN IF before = NotInGraph THEN before
                ELSE find[[node |-> into[i].from, kept |-> before,
                           branch |-> Append(call.branch, into[i])]]
  IN IF n = trigger THEN AddConnections(AddNode(call.kept, n), call.branch)
     ELSE IF ~HasNode(g, n) THEN NotInGraph
     ELSE IF Into(g, {n}) = {} \/ (n = input.destination /\ visited) THEN call.kept
     ELSE IF visited THEN AddConnections(call.kept, call.branch)
     ELSE kept[Len(into)]

FindSubgraphFrom(g, destination) ==
  LET find[call \in SubgraphCall] == FindSubgraphRecursive(g, call, find)
  IN find[[node |-> destination, kept |-> EmptyGraph, branch |-> <<>>]]

\* The sub-nodes of all that is kept, and of what lies before it.
SubNodeConnections(g, ns) ==
  {c \in UNION {GetParentConnections(g, n) : n \in ns} : ~IsMain(c)}

AddSubNodes(g, kept) ==
  AddConnections(kept, Where(g.conns, SubNodeConnections(g, ToSet(kept.nodes))))

\* Mutant of Sound: nodes that are not in the graph do no harm.
SoundAnyway(g, ns) == TRUE

\* Above nodes ns the graph has no connection from a node that was removed.
Sound(g, ns) ==
  \A n \in ns : HasNode(g, n) /\ \A c \in GetParentConnections(g, n) : HasNode(g, c.from)

FindSubgraph ==
  LET filtered == FilterDisabledNodes(input.graph)
      kept == FindSubgraphFrom(filtered, input.destination)
  IN /\ stage = "trigger"
     /\ IF kept = NotInGraph \/ ~Sound(filtered, ToSet(kept.nodes)) THEN Fails
        ELSE /\ graph' = AddSubNodes(filtered, kept)
             /\ stage' = "subgraph"
             /\ UNCHANGED <<runData, trigger, startNodes, stack, waiting>>
     /\ UNCHANGED input

-----------------------------------------------------------------------------
(* 6. Clean run data (also done for dirty nodes in step 3).                 *)

\* Mutant of Outdated: only the nodes themselves.
OutdatedNodes(g, ns) == ns

\* What cleanRunData deletes for nodes ns: they, their children and sub-nodes.
Outdated(g, ns) ==
  LET below == ns \cup UNION {GetChildren(g, n) : n \in ns}
  IN below \cup {c.from : c \in SubNodeConnections(g, below)}

CleanRunData(rd, g, ns) ==
  Restrict(rd, {n \in DOMAIN rd : n \notin Outdated(g, ns) /\ HasNode(g, n)})

-----------------------------------------------------------------------------
(* 3. Find the start nodes.                                                 *)

IsDirty(rd, n) == IF HasData(rd, n) THEN rd[n].error ELSE ~Pinned(n)

\* A loop node whose last run left nothing at `done` starts the loop again;
\* without a loop, at its first output.
LoopUnfinished(rd, g, n) ==
  /\ n \in LoopNodes
  /\ HasData(rd, n) => (IF n \in GetChildren(g, n) THEN 0 ELSE 1) \notin rd[n].last

\* The nodes at which findStartNodesRecursive stops and finds a start node.
IsStart(rd, g, n) ==
  IsDirty(rd, n) \/ n = input.destination \/ LoopUnfinished(rd, g, n)

\* Only outputs that carried items, or pinned nodes, are followed.
HadItems(rd, c) == HasData(rd, c.from) /\ c.out \in rd[c.from].any
Carries(rd, c) == HadItems(rd, c) \/ Pinned(c.from)

\* A call of findStartNodesRecursive: at a node, with the start nodes found so
\* far and the nodes the branch came through.
StartCall == [node : Node, found : Seq(Node), seen : SUBSET Node]

\* Mutant of FindStartNodesRecursive: the search goes on behind a start node.
FindStartNodesOnward(rd, g, call, find) ==
  LET n == call.node
      outOf == Where(g.conns, {c \in From(g, {n}) : Carries(rd, c)})
      found[i \in 0 .. Len(outOf)] ==
        IF i = 0 THEN IF IsStart(rd, g, n) THEN AddOnce(call.found, n) ELSE call.found
        ELSE find[[node |-> outOf[i].to, found |-> found[i - 1], seen |-> call.seen \cup {n}]]
  IN IF n \in call.seen THEN call.found ELSE found[Len(outOf)]

\* findStartNodesRecursive; find is what it returns for other calls.
FindStartNodesRecursive(rd, g, call, find) ==
  LET n == call.node
      outOf == Where(g.conns, {c \in From(g, {n}) : Carries(rd, c)})
      found[i \in 0 .. Len(outOf)] ==
        IF i = 0 THEN call.found
        ELSE find[[node |-> outOf[i].to, found |-> found[i - 1], seen |-> call.seen \cup {n}]]
  IN IF IsStart(rd, g, n) THEN AddOnce(call.found, n)
     ELSE IF n \in call.seen THEN call.found ELSE found[Len(outOf)]

FindStartNodesFrom(rd, g, from) ==
  LET find[call \in StartCall] == FindStartNodesRecursive(rd, g, call, find)
  IN find[[node |-> from, found |-> <<>>, seen |-> {}]]

\* A trigger that is not in the subgraph fails an assertion when its children
\* are asked for, here or, if it is dirty, in step 6.
FindStartNodes ==
  LET rd == CleanRunData(runData, graph, {n \in input.dirty : HasNode(graph, n)})
  IN /\ stage = "subgraph"
     /\ IF ~HasNode(graph, trigger) /\ ~IsDirty(rd, trigger) THEN Fails
        ELSE /\ runData' = rd
             /\ startNodes' = FindStartNodesFrom(rd, graph, trigger)
             /\ stage' = "start"
             /\ UNCHANGED <<trigger, graph, stack, waiting>>
     /\ UNCHANGED input

-----------------------------------------------------------------------------
(* 4. and 5. Detect and handle cycles.                                      *)

Cycles == ToSet(GetStronglyConnectedComponents(graph))

\* The start node of a cycle takes the place of node n in the start nodes.
ToCycleStart(ns, n) ==
  LET cycle == CHOOSE c \in Cycles : n \in c
  IN IF \E c \in Cycles : n \in c
     THEN AddOnce(Where(ns, ToSet(ns) \ {n}), DepthFirstSearch(graph, trigger, cycle))
     ELSE ns

HandleCycles ==
  /\ stage = "start"
  /\ startNodes' = FoldLeft(ToCycleStart, startNodes, startNodes)
  /\ stage' = "cycles"
  /\ UNCHANGED <<input, runData, trigger, graph, stack, waiting>>

Clean ==
  /\ stage = "cycles"
  /\ IF \E n \in ToSet(startNodes) : ~HasNode(graph, n) THEN Fails
     ELSE /\ runData' = CleanRunData(runData, graph, ToSet(startNodes))
          /\ stage' = "clean"
          /\ UNCHANGED <<trigger, graph, startNodes, stack, waiting>>
  /\ UNCHANGED input

-----------------------------------------------------------------------------
(* 7. Recreate the execution stack.                                         *)

HasSourceData(c) == HasData(runData, c.from) \/ Pinned(c.from)

\* Mutant of FirstOf: those without data first.
FirstWithout(s, J) ==
  LET without == {j \in J : ~HasSourceData(s[j])}
      first == IF without # {} THEN without ELSE J
  IN Min({j \in first : \A k \in first : s[j].from <= s[k].from})

\* Of connections J of s into one input, those with data come first, then those
\* whose node has the lower name.
FirstOf(s, J) ==
  LET with == {j \in J : HasSourceData(s[j])}
      first == IF with # {} THEN with ELSE J
  IN Min({j \in first : \A k \in first : s[j].from <= s[k].from})

\* getSourceDataGroups, for the connections s into a node: a round adds the next
\* input's connection to the group or, where there is none, closes the group.
\* It takes a round for each connection and at most as many to close groups.
SourceDataGroups(s) ==
  LET all == {j \in DOMAIN s : HasSourceData(s[j]) \/ IsMain(s[j])}
      firstInput(J) == Min({s[j].in : j \in J})
      loop[k \in 0 .. 2 * Len(s)] ==
        IF k = 0
        THEN [groups |-> <<>>, group |-> <<>>, rest |-> all, in |-> firstInput(all)]
        ELSE LET l == loop[k - 1]
                 here == {j \in l.rest : s[j].in = l.in}
                 next == FirstOf(s, here)
             IN IF l.rest = {} THEN l
                ELSE IF here = {}
                THEN [l EXCEPT !.groups = Append(@, l.group), !.group = <<>>,
                               !.in = firstInput(l.rest)]
                ELSE [l EXCEPT !.group = Append(@, s[next]), !.rest = @ \ {next}, !.in = @ + 1]
      done == loop[2 * Len(s)]
  IN IF all = {} THEN <<>> ELSE Append(done.groups, done.group)

GetSourceDataGroups(n) == SourceDataGroups(GetDirectParentConnections(graph, n))

Complete(group) == \A c \in ToSet(group) : HasSourceData(c)

\* The entries of start node n on the stack: one without sources, or one for
\* each complete group.
StackOf(n) ==
  IF Into(graph, {n}) \cap Main(graph) = {} THEN {[node |-> n, from |-> {}]}
  ELSE {[node |-> n, from |-> ToSet(group)] :
          group \in {h \in ToSet(GetSourceDataGroups(n)) : Complete(h)}}

\* Incomplete groups wait with what they have, if they have anything.
WaitingOf(n) ==
  LET carried(group) == {c \in ToSet(group) : HadItems(runData, c)}
  IN {[node |-> n, from |-> carried(group)] : group \in
        {h \in ToSet(GetSourceDataGroups(n)) : ~Complete(h) /\ carried(h) # {}}}

\* An assertion says that no node of the graph is disabled.
RecreateNodeExecutionStack ==
  /\ stage = "clean"
  /\ IF ToSet(graph.nodes) \cap input.disabled # {} THEN Fails
     ELSE /\ stack' = UNION {StackOf(n) : n \in ToSet(startNodes)}
          /\ waiting' = UNION {WaitingOf(n) : n \in ToSet(startNodes)}
          /\ stage' = "ready"
          /\ UNCHANGED <<runData, trigger, graph, startNodes>>
  /\ UNCHANGED input

-----------------------------------------------------------------------------
Next ==
  \/ FindTrigger \/ FindSubgraph \/ FindStartNodes \/ HandleCycles \/ Clean
  \/ RecreateNodeExecutionStack

Spec == Init /\ [][Next]_vars

-----------------------------------------------------------------------------
(* Correctness properties.                                                  *)

\* The graph with connections cs only.
Along(g, cs) == [g EXCEPT !.conns = Where(@, cs)]

\* filterDisabledNodes leaves the ways between the other nodes as they were,
\* also past chains, branches and loops of disabled nodes.
BypassKeepsWays ==
  stage = "trigger" =>
    \A n \in Node \ input.disabled :
      GetChildren(MainOf(FilterDisabledNodes(input.graph)), n) \ input.disabled
        = GetChildren(MainOf(input.graph), n) \ input.disabled

\* "The graph needs to be free of disabled nodes" (recreateNodeExecutionStack):
\* that assertion never fails, though removing a node that is connected to itself
\* leaves connections of it behind and a disabled node may stand in for the
\* trigger.
NoDisabledNodes == ToSet(graph.nodes) \cap input.disabled = {}

\* "Find all nodes that can lead from the trigger to the destination node": no
\* connection on a walk from the trigger to the destination is lost, loops on
\* the way included, except back to the trigger and on from the destination.
SubgraphComplete ==
  stage = "subgraph" =>
    LET filtered == FilterDisabledNodes(input.graph)
        g == Along(filtered, {c \in Main(filtered) : c.from # input.destination /\ c.to # trigger})
    IN \A c \in ToSet(g.conns) :
         /\ c.from \in {trigger} \cup GetChildren(g, trigger)
         /\ input.destination \in {c.to} \cup GetChildren(g, c.to)
         => c \in ToSet(graph.conns)

\* The start nodes are "the earliest dirty nodes on every branch": exactly those
\* where a way from the trigger, along outputs that carried items, first meets
\* a node that has to run.
StartNodesAreEarliest ==
  stage = "start" =>
    LET starts(n) == IsStart(runData, graph, n)
        g == Along(graph, {c \in ToSet(graph.conns) : Carries(runData, c) /\ ~starts(c.from)})
    IN ToSet(startNodes) = {n \in {trigger} \cup GetChildren(g, trigger) : starts(n)}

\* A strongly connected component is a set of nodes that reach one another.
ComponentsAreConnected ==
  stage = "start" =>
    \A cycle \in Cycles : \A m, n \in cycle : m = n \/ n \in GetChildren(graph, m)

\* "prevents executing cycles partially": a start node on a cycle is the node
\* at which the walk from the trigger enters the cycle.
CyclesFromTheirStart ==
  stage = "cycles" =>
    \A n \in ToSet(startNodes) :
      LET cycle == {m \in GetChildren(graph, n) : n \in GetChildren(graph, m)}
      IN cycle = {} \/ n = DepthFirstSearch(graph, trigger, cycle)

\* No node is given data that this execution is about to replace: what comes
\* from run data was not made by a dirty node, a start node or below one.
SourcesAreFresh ==
  stage = "ready" =>
    \A e \in stack \cup waiting : \A c \in e.from :
      \/ Pinned(c.from)
      \/ \A n \in ToSet(startNodes) \cup (input.dirty \cap ToSet(graph.nodes)) :
           c.from # n /\ c.from \notin GetChildren(graph, n)

\* "as many complete sets of data" as there are: each connection into a start
\* node is used once, one per input, and one without data is used only when
\* those with data are used up.
GroupsAreGreedy ==
  stage = "clean" =>
    \A n \in ToSet(startNodes) :
      LET groups == GetSourceDataGroups(n)
      IN /\ \A c \in ToSet(GetDirectParentConnections(graph, n)) :
              IsMain(c) => Cardinality({i \in DOMAIN groups : Contains(groups[i], c)}) = 1
         /\ \A i, j \in DOMAIN groups : \A c \in ToSet(groups[i]), d \in ToSet(groups[j]) :
              /\ i = j /\ c.in = d.in => c = d
              /\ i < j /\ c.in = d.in /\ HasSourceData(d) => HasSourceData(c)
=============================================================================
