------------------------------- MODULE AVLNodes -------------------------------
(***************************************************************************)
(* The algorithms on the nodes of an AVL tree, which avl_tree.cxx has for  *)
(* AVLTree and multi_avl_tree.cxx has again, word for word, for the key    *)
(* nodes of MultiAVLTree.  A node is named by its key: both trees hold at  *)
(* most one node per key.  A tree is a record of the pointers the nodes    *)
(* hold, so that a method is an operator from trees to trees, and the      *)
(* order in which it follows and writes pointers is kept.                  *)
(***************************************************************************)
EXTENDS Naturals, Integers, FiniteSets

CONSTANT Keys          \* keys, as numbers: the order of KeyValue

ASSUME KeysAreNumbers == Keys \subseteq Nat \ {0} /\ IsFiniteSet(Keys)

NULL == 0
Pointers == Keys \cup {NULL}

\* fault: a null pointer was dereferenced, and the program is gone
\* misjudged: a node was rotated as the balance of another node called for
Trees == [root : Pointers, left : [Keys -> Pointers], right : [Keys -> Pointers],
          parent : [Keys -> Pointers], depth : [Keys -> Nat],
          fault : BOOLEAN, misjudged : BOOLEAN]

EmptyTree == [root |-> NULL, left |-> [k \in Keys |-> NULL], right |-> [k \in Keys |-> NULL],
              parent |-> [k \in Keys |-> NULL], depth |-> [k \in Keys |-> 1],
              fault |-> FALSE, misjudged |-> FALSE]

\* A node as its constructor leaves it.
NewNode(t, k) == [t EXCEPT !.left[k] = NULL, !.right[k] = NULL,
                           !.parent[k] = NULL, !.depth[k] = 1]

\* A while loop over nodes.  A path has at most one node per key, and a loop is
\* at a node twice at most (the one under "Balancing", when it has rotated), so a
\* loop that is not at its end after that many rounds never is.
Rounds == 2 * Cardinality(Keys)
Iterate(step(_), start) ==
  LET after[i \in 0..Rounds] == IF i = 0 THEN start ELSE step(after[i - 1])
  IN  after[Rounds]

-----------------------------------------------------------------------------
(* Positions and measures *)

getPosition(t, n) ==
  IF t.parent[n] = NULL THEN "root"
  ELSE IF t.left[t.parent[n]] = n THEN "left"
  ELSE IF t.right[t.parent[n]] = n THEN "right"
  ELSE "root"

PutChild(t, position, p, n) ==
  CASE position = "left"  -> [t EXCEPT !.left[p] = n]
    [] position = "right" -> [t EXCEPT !.right[p] = n]
    [] OTHER              -> [t EXCEPT !.root = n]

SetParent(t, n, p) == IF n = NULL THEN t ELSE [t EXCEPT !.parent[n] = p]

depth(t, n) == IF n = NULL THEN 0 ELSE t.depth[n]

Larger(a, b) == IF a > b THEN a ELSE b

Measure_Difference(t, n) == [t EXCEPT !.depth[n] = 1 + depth(t, t.left[n]) - depth(t, t.right[n])]

Measure(t, n) == [t EXCEPT !.depth[n] = 1 + Larger(depth(t, t.left[n]), depth(t, t.right[n]))]

getBalance(t, n) == IF n = NULL THEN 0 ELSE depth(t, t.left[n]) - depth(t, t.right[n])

minKeyNode(t, n) ==
  LET least[m \in Keys] == IF t.left[m] = NULL THEN m ELSE least[t.left[m]]
  IN  IF n = NULL THEN NULL ELSE least[n]

maxKeyNode(t, n) ==
  LET greatest[m \in Keys] == IF t.right[m] = NULL THEN m ELSE greatest[t.right[m]]
  IN  IF n = NULL THEN NULL ELSE greatest[n]

-----------------------------------------------------------------------------
(* Rotations.  In rotateLeft the node that goes up is measured first, from   *)
(* the depth its new child had before.                                       *)

rotateRight(t, y) ==
  LET x  == t.left[y]
      T2 == t.right[x]
      measured == Measure(Measure([t EXCEPT !.right[x] = y, !.left[y] = T2], y), x)
      parents  == SetParent([measured EXCEPT !.parent[x] = t.parent[y], !.parent[y] = x], T2, y)
  IN  IF x = NULL THEN [t EXCEPT !.fault = TRUE]
      ELSE PutChild(parents, getPosition(t, y), t.parent[y], x)

rotateLeft(t, x) ==
  LET y  == t.right[x]
      T2 == t.left[y]
      measured == Measure(Measure([t EXCEPT !.left[y] = x, !.right[x] = T2], y), x)
      parents  == SetParent([measured EXCEPT !.parent[y] = t.parent[x], !.parent[x] = y], T2, x)
  IN  IF y = NULL THEN [t EXCEPT !.fault = TRUE]
      ELSE PutChild(parents, getPosition(t, x), t.parent[x], y)

-----------------------------------------------------------------------------
(* The loop that every insertion and extraction ends with, from node to the  *)
(* root.  Whether the left side is rotated once or twice is decided by the   *)
(* balance of the left child of the root.                                    *)

BalanceNode_Single(t, node) ==
  LET d == Measure(t, node)
  IN  CASE getBalance(d, node) > 1  -> rotateRight(d, node)
        [] getBalance(d, node) < -1 -> rotateLeft(d, node)
        [] OTHER                    -> d

BalanceNode(t, node) ==
  LET d == Measure(t, node)
      balance == getBalance(d, node)
      atRoot  == getBalance(d, d.left[d.root])
      atLeft  == getBalance(d, d.left[node])
      atRight == getBalance(d, d.right[node])
      judged  == [d EXCEPT !.misjudged = @ \/ (atRoot >= 0) # (atLeft >= 0)]
  IN  CASE balance > 1 /\ atRoot >= 0   -> rotateRight(judged, node)
        [] balance > 1 /\ atRoot < 0    -> rotateRight(rotateLeft(judged, d.left[node]), node)
        [] balance < -1 /\ atRight <= 0 -> rotateLeft(d, node)
        [] balance < -1 /\ atRight > 0  -> rotateLeft(rotateRight(d, d.right[node]), node)
        [] OTHER                        -> d

Balancing(t, start) ==
  LET step(s) == IF s.node = NULL \/ s.tree.fault THEN s
                 ELSE LET b == BalanceNode(s.tree, s.node)
                      IN  [tree |-> b, node |-> b.parent[s.node]]
  IN  Iterate(step, [tree |-> t, node |-> start]).tree

-----------------------------------------------------------------------------
(* Insertion of a new node, and the search for its place: the last node of   *)
(* the path, or the node that has the key.                                   *)

Place(t, key) ==
  LET down[m \in Keys] ==
        CASE key < m /\ t.left[m] # NULL  -> down[t.left[m]]
          [] key > m /\ t.right[m] # NULL -> down[t.right[m]]
          [] OTHER                        -> m
  IN  down[t.root]

Attach(t, key) ==
  LET place == Place(t, key)
      new   == NewNode(t, key)
  IN  IF t.root = NULL THEN [new EXCEPT !.root = key]
      ELSE LET linked == PutChild([new EXCEPT !.parent[key] = place],
                                  IF key < place THEN "left" ELSE "right", place, key)
           IN  Balancing(linked, place)

-----------------------------------------------------------------------------
(* Two nodes change places, and a node leaves the tree *)

Exchanged(f, a, b) == [f EXCEPT ![a] = f[b], ![b] = f[a]]

SwapWithChild(t, p, c) ==
  LET up == [t EXCEPT !.parent[c] = t.parent[p], !.parent[p] = c]
  IN  IF t.left[p] = c
      THEN [up EXCEPT !.left[c] = p, !.left[p] = t.left[c], !.right = Exchanged(@, p, c)]
      ELSE [up EXCEPT !.right[c] = p, !.right[p] = t.right[c], !.left = Exchanged(@, p, c)]

Adopt(t, n) == SetParent(SetParent(t, t.left[n], n), t.right[n], n)

swapPosition(t, a, b) ==
  LET moved ==
        CASE t.parent[a] = b -> [SwapWithChild(t, b, a) EXCEPT !.depth = Exchanged(@, a, b)]
          [] t.parent[b] = a -> SwapWithChild(t, a, b)
          [] OTHER -> [t EXCEPT !.parent = Exchanged(@, a, b), !.left = Exchanged(@, a, b),
                                !.right = Exchanged(@, a, b), !.depth = Exchanged(@, a, b)]
      adopted == Adopt(Adopt(moved, a), b)
      pinned  == PutChild(adopted, getPosition(t, b), adopted.parent[a], a)
  IN  PutChild(pinned, getPosition(t, a), pinned.parent[b], b)

unpin(t, n) ==
  [PutChild(t, getPosition(t, n), t.parent[n], NULL) EXCEPT !.parent[n] = NULL]

(* climb: AVLTree::extract(KeyValue) balances from the parent of a leaf; the *)
(* other three extractions balance nothing when the node was a leaf.         *)
Detach(t, n, climb) ==
  LET two  == t.left[n] # NULL /\ t.right[n] # NULL
      low  == IF two THEN swapPosition(t, n, minKeyNode(t, t.right[n])) ELSE t
      only == IF low.left[n] # NULL THEN low.left[n] ELSE low.right[n]
      out  == unpin(IF only = NULL THEN low ELSE swapPosition(low, n, only), n)
      start == IF only # NULL THEN only ELSE IF climb THEN low.parent[n] ELSE NULL
  IN  Balancing(out, start)

-----------------------------------------------------------------------------
(* Iteration, forward and backward: the successor of a node, or NULL *)

Ancestor_OneUp(t, n, side) == t.parent[t.parent[n]]

Ancestor(t, n, side) ==  \* the loop of ++ and --: up while on that side
  LET up[m \in Keys] ==
        IF t.parent[m] # NULL /\ getPosition(t, m) = side THEN up[t.parent[m]] ELSE t.parent[m]
  IN  up[t.parent[n]]

Successor(t, n) ==
  IF t.right[n] # NULL THEN minKeyNode(t, t.right[n])
  ELSE CASE getPosition(t, n) = "left"  -> t.parent[n]
         [] getPosition(t, n) = "right" -> Ancestor(t, n, "right")
         [] OTHER                       -> NULL

Predecessor(t, n) ==
  IF t.left[n] # NULL THEN maxKeyNode(t, t.left[n])
  ELSE CASE getPosition(t, n) = "right" -> t.parent[n]
         [] getPosition(t, n) = "left"  -> Ancestor(t, n, "left")
         [] OTHER                       -> NULL

-----------------------------------------------------------------------------
(* The descent of get, find and removeKey goes left for greater keys, too. *)
SearchLeft(t, key) ==
  LET down[m \in Pointers] == IF m = NULL \/ m = key THEN m ELSE down[t.left[m]]
  IN  down[t.root]

\* The descent of AVLTree::extract(KeyValue).
Search(t, key) ==
  LET down[m \in Pointers] == CASE m = NULL \/ m = key -> m
                                [] key < m             -> down[t.left[m]]
                                [] OTHER               -> down[t.right[m]]
  IN  down[t.root]

(* The walk of clear, in the order in which the nodes are destroyed. *)
ClearFrom(t, n) ==  \* the first node of the subtree of n to be destroyed
  LET low == minKeyNode(t, n) IN IF t.right[low] # NULL THEN t.right[low] ELSE low

ClearNext(t, n) ==
  LET p == t.parent[n]
  IN  IF p = NULL THEN NULL
      ELSE IF getPosition(t, n) = "left" /\ t.right[p] # NULL
           THEN ClearFrom(t, t.right[p]) ELSE p

Cleared(t) ==  \* the nodes that clear destroys
  LET step(s) == IF s.node = NULL THEN s
                 ELSE [node |-> ClearNext(t, s.node), gone |-> s.gone \cup {s.node}]
  IN  IF t.root = NULL THEN {}
      ELSE Iterate(step, [node |-> ClearFrom(t, t.root), gone |-> {}]).gone

-----------------------------------------------------------------------------
(* What a tree holds, and what makes it a search tree *)

Below(t, n) ==
  LET sub[m \in Pointers] == IF m = NULL THEN {} ELSE {m} \cup sub[t.left[m]] \cup sub[t.right[m]]
  IN  sub[n]

Contents(t) == Below(t, t.root)

Height(t, n) ==
  LET h[m \in Pointers] == IF m = NULL THEN 0 ELSE 1 + Larger(h[t.left[m]], h[t.right[m]])
  IN  h[n]

\* Nodes that cannot be reached any more are deleted, or leaked: their fields
\* are not read again, and a node inserted later is a new one.
Reachable(t) ==
  LET live(f, value) == [k \in Keys |-> IF k \in Contents(t) THEN f[k] ELSE value]
  IN  [t EXCEPT !.left = live(@, NULL), !.right = live(@, NULL),
                !.parent = live(@, NULL), !.depth = live(@, 1)]

BalancedAt(t, n) == Height(t, t.left[n]) - Height(t, t.right[n]) \in -1..1

\* The children of every node point back at it, and its left side has the
\* lower, its right side the greater keys.
SearchTree(t) ==
  /\ t.root # NULL => t.parent[t.root] = NULL
  /\ \A n \in Contents(t) :
       /\ \A c \in {t.left[n], t.right[n]} \ {NULL} : t.parent[c] = n
       /\ \A l \in Below(t, t.left[n]) : l < n
       /\ \A r \in Below(t, t.right[n]) : n < r

Least(S)    == IF S = {} THEN NULL ELSE CHOOSE k \in S : \A j \in S : k <= j
Greatest(S) == IF S = {} THEN NULL ELSE CHOOSE k \in S : \A j \in S : k >= j
Above(t, n) == Least({k \in Contents(t) : k > n})
Under(t, n) == Greatest({k \in Contents(t) : k < n})

\* From every node, ++ goes to the next greater key of the tree and -- to the
\* next lower one, and only from the last one out of the tree.
InOrder(t) ==
  \A n \in Contents(t) : Successor(t, n) = Above(t, n) /\ Predecessor(t, n) = Under(t, n)
=============================================================================
