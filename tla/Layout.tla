------------------------------- MODULE Layout -------------------------------
(***************************************************************************)
(* The layout tree of a tab: kmuxd/src/app/layout.rs over the wire type     *)
(* LayoutNode.  A leaf names a pane of the session by its index; a split    *)
(* has a direction, and a permille weight and a subtree for every child.    *)
(* The operators are the pure mutations the daemon applies under the        *)
(* `sessions` write lock.  Every one of them returns the tree it was given  *)
(* where the code returns `false` and leaves the tree alone.                *)
(***************************************************************************)
EXTENDS Integers, Sequences, SequencesExt, FiniteSets, FiniteSetsExt

Permille == 1000
MinRatio == 20
NoPane == -1

Leaf(p) == [kind |-> "leaf", pane |-> p]

Split(dir, ratios, children) ==
  [kind |-> "split", dir |-> dir, ratios |-> ratios, children |-> children]

RECURSIVE Leaves(_)
Leaves(node) ==
  IF node.kind = "leaf" THEN <<node.pane>>
  ELSE FlattenSeq([i \in DOMAIN node.children |-> Leaves(node.children[i])])

Total(ratios) == FoldSeq(LAMBDA r, acc : r + acc, 0, ratios)

\* The largest remainders, ties to the lower index, take the units that
\* flooring left over.
Normalize(ratios) ==
  LET n == Len(ratios)
      sum == Total(ratios)
      quota == [i \in 1..n |-> IF sum = 0 THEN Permille \div n
                               ELSE (ratios[i] * Permille) \div sum]
      rest == [i \in 1..n |-> IF sum = 0 THEN 0 ELSE (ratios[i] * Permille) % sum]
      leftover == Permille - Total(quota)
      Ahead(i) == {j \in 1..n : rest[j] > rest[i] \/ (rest[j] = rest[i] /\ j < i)}
  IN  [i \in 1..n |-> quota[i] + IF Cardinality(Ahead(i)) < leftover THEN 1 ELSE 0]

\* The position among `children` of the leaf of pane p, 0 when it is not there.
LeafAt(children, p) == SelectInSeq(children, LAMBDA c : c = Leaf(p))

\* The first child that is a split with the leaf of pane p below it, else 0.
SplitAbove(children, p) ==
  SelectInSeq(children, LAMBDA c : c.kind = "split" /\ p \in Range(Leaves(c)))

Beside(p, new, dir) == Split(dir, <<500, 500>>, <<Leaf(p), Leaf(new)>>)

RECURSIVE SplitInSplit(_, _, _, _)
SplitInSplit(node, from, new, dir) ==
  LET pos == LeafAt(node.children, from)
      sub == SplitAbove(node.children, from)
      half == node.ratios[pos] \div 2
  IN  CASE pos # 0 /\ node.dir = dir ->
             Split(dir,
                   Normalize(InsertAt([node.ratios EXCEPT ![pos] = @ - half], pos + 1, half)),
                   InsertAt(node.children, pos + 1, Leaf(new)))
        [] pos # 0 /\ node.dir # dir ->
             [node EXCEPT !.children[pos] = Beside(from, new, dir)]
        [] pos = 0 /\ sub # 0 ->
             [node EXCEPT !.children[sub] = SplitInSplit(@, from, new, dir)]
        [] OTHER -> node

SplitLeaf(root, from, new, dir) ==
  IF root.kind = "split" THEN SplitInSplit(root, from, new, dir)
  ELSE IF root.pane = from THEN Beside(from, new, dir)
  ELSE root

RECURSIVE RemoveInSplit(_, _)
RemoveInSplit(node, p) ==
  LET pos == LeafAt(node.children, p)
      sub == SplitAbove(node.children, p)
      kept == RemoveAt(node.children, pos)
  IN  CASE pos # 0 /\ Len(node.children) = 2 -> kept[1]
        [] pos # 0 /\ Len(node.children) # 2 ->
             Split(node.dir, Normalize(RemoveAt(node.ratios, pos)), kept)
        [] pos = 0 /\ sub # 0 -> [node EXCEPT !.children[sub] = RemoveInSplit(@, p)]
        [] OTHER -> node

\* The sole leaf is not removed: closing it closes the tab.
RemovePane(root, p) == IF root.kind = "leaf" THEN root ELSE RemoveInSplit(root, p)

RECURSIVE SetRatios(_, _, _)
SetRatios(root, path, ratios) ==
  IF root.kind = "leaf" THEN root
  ELSE IF path # <<>>
       THEN IF Head(path) + 1 \in DOMAIN root.children
            THEN [root EXCEPT !.children[Head(path) + 1] = SetRatios(@, Tail(path), ratios)]
            ELSE root
       ELSE IF Len(ratios) # Len(root.children) THEN root
       ELSE [root EXCEPT !.ratios =
               Normalize([i \in DOMAIN ratios |-> Max({ratios[i], MinRatio})])]

RECURSIVE RenameLeaf(_, _, _)
RenameLeaf(node, a, b) ==
  IF node.kind = "split"
  THEN [node EXCEPT !.children = [i \in DOMAIN @ |-> RenameLeaf(@[i], a, b)]]
  ELSE CASE node.pane = a -> Leaf(b)
         [] node.pane = b -> Leaf(a)
         [] OTHER -> node

Swap(root, a, b) ==
  IF a # b /\ {a, b} \subseteq Range(Leaves(root)) THEN RenameLeaf(root, a, b) ELSE root

\* The sibling that takes the focus when pane p is closed, from the tree before
\* the removal: the previous one, else the next; NoPane when there is none.
RECURSIVE NextFocusAfterRemoval(_, _)
NextFocusAfterRemoval(node, p) ==
  IF node.kind = "leaf" THEN NoPane
  ELSE LET pos == LeafAt(node.children, p)
           sub == SplitAbove(node.children, p)
       IN  CASE pos # 0 -> Head(Leaves(node.children[IF pos > 1 THEN pos - 1 ELSE pos + 1]))
             [] pos = 0 /\ sub # 0 -> NextFocusAfterRemoval(node.children[sub], p)
             [] OTHER -> NoPane

EvenSplit(leaves, dir) ==
  LET n == Len(leaves)
  IN  Split(dir, Normalize([i \in 1..n |-> Permille \div n]), [i \in 1..n |-> Leaf(leaves[i])])

MainSplit(leaves, outer, inner) ==
  Split(outer, <<500, 500>>,
        <<Leaf(Head(leaves)),
          IF Len(leaves) = 2 THEN Leaf(leaves[2]) ELSE EvenSplit(Tail(leaves), inner)>>)

Schemes == {"even_horizontal", "even_vertical", "main_vertical", "main_horizontal"}

ApplyScheme(leaves, scheme) ==
  IF leaves = <<>> THEN Leaf(0)
  ELSE IF Len(leaves) = 1 THEN Leaf(leaves[1])
  ELSE CASE scheme = "even_horizontal" -> EvenSplit(leaves, "h")
         [] scheme = "even_vertical" -> EvenSplit(leaves, "v")
         [] scheme = "main_vertical" -> MainSplit(leaves, "h", "v")
         [] scheme = "main_horizontal" -> MainSplit(leaves, "v", "h")

-----------------------------------------------------------------------------
\* What every tree the daemon holds or sends must be: a split has at least two
\* children, a weight for each of them, and weights that sum to 1000.
RECURSIVE WellFormed(_)
WellFormed(node) ==
  \/ node.kind = "leaf"
  \/ /\ Len(node.children) >= 2
     /\ Len(node.ratios) = Len(node.children)
     /\ Total(node.ratios) = Permille
     /\ \A i \in DOMAIN node.children : WellFormed(node.children[i])
=============================================================================
