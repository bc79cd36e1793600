-------------------------------- MODULE AVLTree --------------------------------
(***************************************************************************)
(* AVLTree: the nodes of avl_tree.cxx, under any order of insertions,      *)
(* extractions and clear.  kept is what a caller expects the tree to hold. *)
(* An iterator is a pointer to a node and has no other state, so what is   *)
(* said below of every node of the tree is said of an iterator that stands *)
(* there while other nodes come and go.                                    *)
(***************************************************************************)
EXTENDS AVLNodes

VARIABLES tree,    \* the nodes and the root
          kept,    \* keys inserted, and not extracted or cleared since
          byNode   \* whether the callers use extract(AVLNode*), which balances less

avlVars == <<tree, kept, byNode>>

AVLInit == tree = EmptyTree /\ kept = {} /\ byNode \in BOOLEAN

insert(key) ==  \* returns nullptr when the key is there
  /\ tree' = IF tree.root # NULL /\ Place(tree, key) = key THEN tree ELSE Attach(tree, key)
  /\ kept' = kept \cup {key}

extractKey_NoClimb(key) ==
  LET n == Search(tree, key)
  IN  /\ tree' = IF n = NULL THEN tree ELSE Reachable(Detach(tree, n, FALSE))
      /\ kept' = kept \ {key}

extractKey(key) ==  \* AVLTree::extract(KeyValue)
  LET n == Search(tree, key)
  IN  /\ tree' = IF n = NULL THEN tree ELSE Reachable(Detach(tree, n, TRUE))
      /\ kept' = kept \ {key}

extractNode(n) ==   \* AVLTree::extract(AVLNode*)
  /\ byNode /\ n \in Contents(tree)
  /\ tree' = Reachable(Detach(tree, n, FALSE))
  /\ kept' = kept \ {n}

clear == tree.root # NULL /\ tree' = EmptyTree /\ kept' = {}

AVLNext ==
  /\ ~tree.fault /\ UNCHANGED byNode
  /\ \/ \E key \in Keys : insert(key) \/ extractKey(key) \/ extractNode(key)
     \/ clear

AVLSpec == AVLInit /\ [][AVLNext]_avlVars

-----------------------------------------------------------------------------
(* After a null pointer was dereferenced (fault) there is no program to say  *)
(* anything of.                                                              *)

AVLTypeOK == tree \in Trees /\ kept \subseteq Keys /\ byNode \in BOOLEAN

\* Whatever was inserted, extracted and cleared before, and through all the
\* rotations and swaps: from any node, ++ and -- of the iterators go to the
\* next key and never leave the tree early or turn back.
IterationInOrder == ~tree.fault => SearchTree(tree) /\ InOrder(tree)

\* No call loses a node: what was put and not taken out is in the tree and
\* the descent of extract finds it.  That needs a balanced tree, because the
\* extraction of a node with one child drops the children of that child.
\* Callers of extract(AVLNode*) are not promised that, nor is anybody after the
\* loop under "Balancing" has rotated by the balance of another node.
NothingLost == ~byNode /\ ~tree.misjudged =>
                 Contents(tree) = kept /\ \A k \in kept : Search(tree, k) = k

\* As long as it looks at the node it rotates, the loop under "Balancing" follows
\* no null pointer and keeps every node balanced, by depths that are the heights;
\* clear, which relies on that, destroys every node.
KeptBalanced == ~byNode /\ ~tree.misjudged =>
                  /\ ~tree.fault
                  /\ \A n \in Contents(tree) : /\ BalancedAt(tree, n)
                                               /\ tree.depth[n] = Height(tree, n)
                  /\ Cleared(tree) = Contents(tree)

\* avl_tree.cxx:200 calls the loop "Balancing": after it every node is balanced.
AlwaysBalanced == ~tree.fault /\ ~byNode => \A n \in Contents(tree) : BalancedAt(tree, n)
=============================================================================
