-------------------------- MODULE MCPartialExecution --------------------------
(***************************************************************************)
(* Small workflows for PartialExecution: node 1 is the trigger, the last    *)
(* node the destination and, when it has several, the one with two inputs.  *)
(***************************************************************************)
EXTENDS PartialExecution

CONSTANTS
  Fans,     \* which lists of children a node may have
  Marks     \* which nodes are disabled, pinned, dirty, sub-nodes

Final == Cardinality(Node)

\* Each child is on an output of its own.
Conns(n, children, subNodes) ==
  [i \in DOMAIN children |->
     [from |-> n, to |-> children[i], type |-> IF n \in subNodes THEN "ai" ELSE "main",
      out |-> i - 1,
      in |-> IF children[i] = Final THEN n % 2 ELSE 0]]

GraphOf(fan, subNodes) ==
  [nodes |-> [n \in 1 .. Final |-> n],
   conns |-> FlattenSeq([n \in 1 .. Final |-> Conns(n, fan[n], subNodes)])]

Ran(outs) == [error |-> FALSE, any |-> outs, last |-> outs]

\* Items at the first output only, items at both outputs, of which at the first
\* not in the last run, an error.
RunDataOf(kind) ==
  CASE kind = "first" -> Ran({0})
    [] kind = "both" -> Ran({0, 1})
    [] kind = "unfinished" -> [Ran({0, 1}) EXCEPT !.last = {1}]
    [] kind = "error" -> [Ran({0, 1}) EXCEPT !.error = TRUE]

Increasing == {<<>>, <<2>>, <<3>>, <<4>>, <<2, 3>>, <<2, 4>>, <<3, 4>>}

MCFans == {f \in [Node -> Increasing] : f[1] # <<>> /\ f[4] \in {<<>>, <<2>>, <<3>>}}

\* Loops 2 - 3 and 3 - 4 and ways on to node 5.
LoopFans ==
  {<<<<2>>, a, b, c, <<>>>> : a \in {<<3>>, <<3, 5>>}, b \in {<<2, 4>>, <<4, 2>>},
                            c \in {<<3>>, <<3, 5>>}}

Mark(disabled, pinned, dirty, subNodes) ==
  [disabled |-> disabled, pinned |-> pinned, dirty |-> dirty, subNodes |-> subNodes]

NoMarks == {Mark({}, {}, {}, {})}

MCMarks == NoMarks \cup
           {Mark({2}, {}, {}, {}), Mark({2, 3}, {3}, {}, {}), Mark({}, {2}, {}, {}),
            Mark({}, {}, {3}, {}), Mark({}, {}, {}, {3})}

MCInputs ==
  {[graph |-> GraphOf(f, m.subNodes), disabled |-> m.disabled, pinned |-> m.pinned, dirty |-> m.dirty,
    destination |-> Final,
    runData |-> [n \in {x \in Node : k[x] # "none"} |-> RunDataOf(k[n])]] :
     f \in Fans, m \in Marks,
     k \in {h \in [Node -> {"none", "first", "both", "unfinished", "error"}] :
              /\ h[1] \in {"none", "both"} /\ h[2] # "unfinished"
              /\ h[3] \in {"none", "both", "unfinished"} /\ h[Final] = "none"
              /\ \A n \in 4 .. Final - 1 : h[n] # "unfinished"}}
=============================================================================
