------------------------------ MODULE PaneTree ------------------------------
(***************************************************************************)
(* The pane tree of paneTree.ts: leaves that show a session or none, and   *)
(* splits of two subtrees with a ratio, here in tenths. The direction of a *)
(* split is left out. Every node has an id of its own.                     *)
(***************************************************************************)
EXTENDS Client, Integers

DEFAULT_RATIO == 5
RATIO_MIN == 1
RATIO_MAX == 9

leaf(id, sessionId) == [kind |-> "leaf", id |-> id, sessionId |-> sessionId]
splitNode(id, ratio, first, second) ==
    [kind |-> "split", id |-> id, ratio |-> ratio, first |-> first, second |-> second]

\* The nodes of a tree.
RECURSIVE Nodes(_)
Nodes(node) ==
    {node} \cup IF node.kind = "leaf" THEN {} ELSE Nodes(node.first) \cup Nodes(node.second)

Leaves(node) == {n \in Nodes(node) : n.kind = "leaf"}
Splits(node) == {n \in Nodes(node) : n.kind = "split"}

findLeaf(node, id) == \E n \in Leaves(node) : n.id = id

placedSessionIds(node) == {n.sessionId : n \in Leaves(node)} \ {Null}

RECURSIVE firstLeafId(_)
firstLeafId(node) == IF node.kind = "leaf" THEN node.id ELSE firstLeafId(node.first)

RECURSIVE replaceNode(_, _, _)
replaceNode(root, id, next) ==
    CASE root.id = id        -> next
      [] root.kind = "leaf"  -> root
      [] OTHER -> [root EXCEPT !.first = replaceNode(@, id, next),
                               !.second = replaceNode(@, id, next)]

\* Variant: a split that loses a grandchild goes with it.
RECURSIVE removeNodeAndSibling(_, _)
removeNodeAndSibling(root, id) ==
    CASE root.id = id        -> Null
      [] root.kind = "leaf"  -> root
      [] OTHER -> IF id \in {n.id : n \in Nodes(root.first)} THEN root.second
                  ELSE IF id \in {n.id : n \in Nodes(root.second)} THEN root.first
                  ELSE root

\* The sibling takes the place of the split it was in; Null when nothing is
\* left.
RECURSIVE removeNode(_, _)
removeNode(root, id) ==
    CASE root.id = id        -> Null
      [] root.kind = "leaf"  -> root
      [] OTHER ->
           LET first == removeNode(root.first, id)
               second == removeNode(root.second, id)
           IN  CASE first = Null  -> root.second
                 [] second = Null -> root.first
                 [] OTHER -> [root EXCEPT !.first = first, !.second = second]

setLeafSession(root, leafId, sessionId) ==
    IF findLeaf(root, leafId) THEN replaceNode(root, leafId, leaf(leafId, sessionId)) ELSE root

\* The split and the new leaf take the ids splitId and newId.
splitLeaf(root, leafId, splitId, newId) ==
    IF findLeaf(root, leafId)
    THEN LET target == CHOOSE n \in Leaves(root) : n.id = leafId
         IN  replaceNode(root, leafId,
                         splitNode(splitId, DEFAULT_RATIO, target, leaf(newId, Null)))
    ELSE root

Clamped(ratio) ==
    IF ratio < RATIO_MIN THEN RATIO_MIN ELSE IF ratio > RATIO_MAX THEN RATIO_MAX ELSE ratio

RECURSIVE setRatio(_, _, _)
setRatio(root, splitId, ratio) ==
    CASE root.kind = "leaf"   -> root
      [] root.id = splitId    -> [root EXCEPT !.ratio = Clamped(ratio)]
      [] OTHER -> [root EXCEPT !.first = setRatio(@, splitId, ratio),
                               !.second = setRatio(@, splitId, ratio)]

RECURSIVE removeSession(_, _)
removeSession(root, sessionId) ==
    IF root.kind = "leaf"
    THEN IF root.sessionId = sessionId THEN leaf(root.id, Null) ELSE root
    ELSE [root EXCEPT !.first = removeSession(@, sessionId),
                      !.second = removeSession(@, sessionId)]

\* The tree a stored blob stands for, Null when it is not one: a split that
\* lacks a child makes the whole blob unusable.
RECURSIVE parseLayout(_)
parseLayout(blob) ==
    CASE blob = Null         -> Null
      [] blob.kind = "leaf"  -> leaf(blob.id, blob.sessionId)
      [] blob.kind = "split" ->
           LET first == parseLayout(blob.first)
               second == parseLayout(blob.second)
           IN  IF Null \in {first, second} THEN Null
               ELSE splitNode(blob.id, blob.ratio, first, second)
      [] OTHER -> Null
=============================================================================
