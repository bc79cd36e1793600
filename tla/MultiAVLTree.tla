----------------------------- MODULE MultiAVLTree -----------------------------
(***************************************************************************)
(* MultiAVLTree: a tree of key nodes, each with a doubly linked list of    *)
(* the value nodes with that key (multi_avl_tree.cxx).  A value node is in *)
(* the tree at most once; listed has, for each key, the value nodes in the *)
(* order in which the calls put them.  Key nodes that an extraction cuts   *)
(* off can no longer be reached, nor their value nodes: Abandon takes both *)
(* out of the model, so that their names can be used again.                *)
(***************************************************************************)
EXTENDS AVLNodes, Sequences

CONSTANTS MultiKeys, Entries   \* keys used, and value nodes, as numbers

ASSUME EntriesAreNumbers == MultiKeys \subseteq Keys /\ Entries \subseteq Nat \ {0}

VARIABLES keyTree,  \* the key nodes
          chain,    \* the lists of the key nodes, and the pointers of the value nodes
          listed    \* [Keys -> Seq(Entries)]

multiVars == <<keyTree, chain, listed>>

EmptyChain == [first |-> [k \in Keys |-> NULL], last |-> [k \in Keys |-> NULL],
               size |-> [k \in Keys |-> 0],
               next |-> [e \in Entries |-> NULL], prev |-> [e \in Entries |-> NULL],
               key_node |-> [e \in Entries |-> NULL]]

MultiInit == keyTree = EmptyTree /\ chain = EmptyChain /\ listed = [k \in Keys |-> <<>>]

-----------------------------------------------------------------------------
(* The list of one key node *)

pushBack(c, k, e) ==
  IF c.first[k] = NULL
  THEN [c EXCEPT !.key_node[e] = k, !.first[k] = e, !.last[k] = e,
                 !.next[e] = NULL, !.prev[e] = NULL, !.size[k] = @ + 1]
  ELSE [c EXCEPT !.key_node[e] = k, !.prev[e] = c.last[k], !.next[c.last[k]] = e,
                 !.last[k] = e, !.size[k] = @ + 1]

pushFront_NoPrev(c, k, e) ==
  IF c.first[k] = NULL THEN pushBack(c, k, e)
  ELSE [c EXCEPT !.key_node[e] = k, !.next[e] = c.first[k], !.first[k] = e, !.size[k] = @ + 1]

pushFront(c, k, e) ==
  IF c.first[k] = NULL THEN pushBack(c, k, e)
  ELSE [c EXCEPT !.key_node[e] = k, !.next[e] = c.first[k], !.prev[c.first[k]] = e,
                 !.first[k] = e, !.size[k] = @ + 1]

Unlink(c, k, e) ==  \* AVLKeyNode::extract
  LET n == c.next[e]
      p == c.prev[e]
      ahead == IF n # NULL THEN [c EXCEPT !.prev[n] = p]
               ELSE IF e = c.last[k] THEN [c EXCEPT !.last[k] = p] ELSE c
      back  == IF p # NULL THEN [ahead EXCEPT !.next[p] = n]
               ELSE IF e = c.first[k] THEN [ahead EXCEPT !.first[k] = n] ELSE ahead
  IN  [back EXCEPT !.key_node[e] = NULL, !.next[e] = NULL, !.prev[e] = NULL, !.size[k] = @ - 1]

\* The fields of a key node outside the tree, and of its value nodes.
Abandon(c, t) ==
  LET out  == Keys \ Contents(t)
      gone == {e \in Entries : c.key_node[e] \in out}
      reset(f, S, value) == [x \in DOMAIN f |-> IF x \in S THEN value ELSE f[x]]
  IN  [first |-> reset(c.first, out, NULL), last |-> reset(c.last, out, NULL),
       size |-> reset(c.size, out, 0), next |-> reset(c.next, gone, NULL),
       prev |-> reset(c.prev, gone, NULL), key_node |-> reset(c.key_node, gone, NULL)]

Reach(t, c, order) ==
  /\ keyTree' = Reachable(t)
  /\ chain' = Abandon(c, t)
  /\ listed' = [k \in Keys |-> IF k \in Contents(t) THEN order[k] ELSE <<>>]

-----------------------------------------------------------------------------
(* The calls *)

insertValue(key, e, position) ==
  LET there == keyTree.root # NULL /\ Place(keyTree, key) = key
      put(c) == IF there /\ position = "front" THEN pushFront(c, key, e) ELSE pushBack(c, key, e)
  IN  /\ chain.key_node[e] = NULL
      /\ Reach(IF there THEN keyTree ELSE Attach(keyTree, key),
               put(chain),
               [listed EXCEPT ![key] = IF position = "front" THEN <<e>> \o @ ELSE Append(@, e)])

Where(s, e)   == CHOOSE i \in DOMAIN s : s[i] = e
Without(s, i) == [j \in 1 .. (Len(s) - 1) |-> IF j < i THEN s[j] ELSE s[j + 1]]

extractValue(e) ==  \* extract(Iterator), and extract(ReverseIterator)
  LET k == chain.key_node[e]
      c == Unlink(chain, k, e)
  IN  /\ k # NULL
      /\ Reach(IF c.size[k] > 0 THEN keyTree ELSE Detach(keyTree, k, FALSE), c,
               [listed EXCEPT ![k] = Without(@, Where(@, e))])

removeKey(key) ==   \* false when the descent does not meet the key
  LET n == SearchLeft(keyTree, key)
  IN  n # NULL /\ Reach(Detach(keyTree, n, FALSE), chain, listed)

clearAll == keyTree.root # NULL /\ Reach(EmptyTree, chain, listed)

MultiNext ==
  /\ ~keyTree.fault
  /\ \/ \E e \in Entries : \/ extractValue(e)
                           \/ \E k \in MultiKeys, position \in {"front", "back"} :
                                insertValue(k, e, position)
     \/ \E k \in MultiKeys : removeKey(k)
     \/ clearAll

MultiSpec == MultiInit /\ [][MultiNext]_multiVars

-----------------------------------------------------------------------------
(* Iterators stand at a value node *)

goToNextKey(e) == LET k == Successor(keyTree, chain.key_node[e])
                  IN  IF k = NULL THEN NULL ELSE chain.first[k]

goToPrevKey_First(e) == LET k == Predecessor(keyTree, chain.key_node[e])
                        IN  IF k = NULL THEN NULL ELSE chain.first[k]

goToPrevKey(e) == LET k == Predecessor(keyTree, chain.key_node[e])
                  IN  IF k = NULL THEN NULL ELSE chain.last[k]

Forward(e)  == IF chain.next[e] # NULL THEN chain.next[e] ELSE goToNextKey(e)

Backward(e) == IF chain.prev[e] # NULL THEN chain.prev[e] ELSE goToPrevKey(e)

\* ReverseIterator::operator++; the const one takes goToNextKey of the Iterator.
ReverseForward(e)  == IF chain.prev[e] # NULL THEN chain.prev[e] ELSE goToPrevKey(e)
ReverseBackward(e) == IF chain.next[e] # NULL THEN chain.next[e] ELSE goToNextKey(e)

find(key) == LET n == SearchLeft(keyTree, key) IN IF n = NULL THEN NULL ELSE chain.first[n]

-----------------------------------------------------------------------------
MultiTypeOK ==
  /\ keyTree \in Trees
  /\ chain \in [first : [Keys -> Entries \cup {NULL}], last : [Keys -> Entries \cup {NULL}],
                size : [Keys -> Nat], next : [Entries -> Entries \cup {NULL}],
                prev : [Entries -> Entries \cup {NULL}], key_node : [Entries -> Keys \cup {NULL}]]
  /\ listed \in [Keys -> Seq(Entries)]

\* Through any insertions at both ends and extractions, the list of each key
\* node is the list of what was put under the key, in both directions, and no
\* key node stays in the tree without a value.
ListsExact ==
  \A k \in Contents(keyTree) :
    LET s == listed[k]
    IN  /\ chain.size[k] = Len(s) /\ s # <<>>
        /\ chain.first[k] = s[1] /\ chain.last[k] = s[Len(s)]
        /\ \A i \in 1..Len(s) :
             /\ chain.key_node[s[i]] = k
             /\ chain.next[s[i]] = IF i = Len(s) THEN NULL ELSE s[i + 1]
             /\ chain.prev[s[i]] = IF i = 1 THEN NULL ELSE s[i - 1]

\* From any value node, the iterators walk the values of its key in the order
\* in which they were put and then those of the next key, in both directions,
\* and find, when it finds a key, stands at the first value of it.
WalksInOrder ==
  ~keyTree.fault =>
    /\ SearchTree(keyTree)
    /\ \A k \in Contents(keyTree) : \A i \in DOMAIN listed[k] :
         LET s == listed[k]
             up == Above(keyTree, k)
             down == Under(keyTree, k)
             ahead  == IF i < Len(s) THEN s[i + 1]
                       ELSE IF up # NULL THEN Head(listed[up]) ELSE NULL
             behind == IF i > 1 THEN s[i - 1]
                       ELSE IF down # NULL THEN listed[down][Len(listed[down])] ELSE NULL
         IN  /\ Forward(s[i]) = ahead   /\ ReverseBackward(s[i]) = ahead
             /\ Backward(s[i]) = behind /\ ReverseForward(s[i]) = behind
             /\ find(k) \in {NULL, s[1]}
=============================================================================
