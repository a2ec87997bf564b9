------------------------------ MODULE EhRbtree ------------------------------
(***************************************************************************)
(* The red-black tree (src/src/general/eh_rbtree.c): nodes with pointers   *)
(* to their children and to their parent, and a colour.  Adding links a    *)
(* leaf, deleting unlinks a node, and one step of the model is then one    *)
(* pass of the loop that restores the colours, where the code's mirrored   *)
(* branches are one branch with a side.                                    *)
(***************************************************************************)
EXTENDS Integers, FiniteSets, SequencesExt

CONSTANTS
  TreeNodes,  \* the nodes
  TreeKey,    \* the key of each node; nodes may have the same key
  TreeNil     \* NULL

ASSUME TreeAssumption == TreeNil \notin TreeNodes /\ \A n \in TreeNodes : TreeKey[n] \in Int

VARIABLES
  tree,          \* rb_node and the fields of the nodes; those of nodes outside are cleared
  treeLeftmost,  \* rb_leftmost
  treeFix,       \* the loop under way, with its variables node and parent
  treeOrder      \* history: the nodes in the order in which the tree is to hold them

treeVars == <<tree, treeLeftmost, treeFix, treeOrder>>

Sides == {"left", "right"}
Other(s) == IF s = "left" THEN "right" ELSE "left"

TreeLeaf == [s \in Sides |-> TreeNil]
TreeFixed == [loop |-> "none", node |-> TreeNil, parent |-> TreeNil]

TreeStart ==
  /\ tree = [root   |-> TreeNil,
             child  |-> [n \in TreeNodes |-> TreeLeaf],
             parent |-> [n \in TreeNodes |-> TreeNil],
             black  |-> [n \in TreeNodes |-> FALSE]]
  /\ treeLeftmost = TreeNil
  /\ treeFix = TreeFixed
  /\ treeOrder = << >>

TreeMembers == ToSet(treeOrder)

-----------------------------------------------------------------------------
\* rb_set_parent, rb_set_parent_color where the node is checked for NULL or cannot be NULL
SetParent(t, n, p) == IF n = TreeNil THEN t ELSE [t EXCEPT !.parent[n] = p]
SetParentColor(t, n, p, black) ==
  IF n = TreeNil THEN t ELSE [t EXCEPT !.parent[n] = p, !.black[n] = black]
SetChild(t, n, s, c) == [t EXCEPT !.child[n][s] = c]

\* __rb_change_child
ChangeChild(t, old, new, parent) ==
  IF parent = TreeNil
  THEN [t EXCEPT !.root = new]
  ELSE SetChild(t, parent, IF t.child[parent].left = old THEN "left" ELSE "right", new)

\* __rb_rotate_set_parents
RotateSetParents(t, old, new, black) ==
  ChangeChild(SetParentColor(SetParentColor(t, new, t.parent[old], t.black[old]), old, new, black),
              old, new, t.parent[old])

IsRed(t, n) == n # TreeNil /\ ~t.black[n]

\* eh_rb_last goes right, rb_left_most left: the last node on a side of a subtree.
TreeExtreme(n, s) ==
  LET down[x \in TreeNodes] == IF tree.child[x][s] = TreeNil THEN x ELSE down[tree.child[x][s]]
  IN  down[n]

\* eh_rb_next with side right, eh_rb_prev with side left
TreeBeside(n, s) ==
  LET up[x \in TreeNodes] ==
        IF tree.parent[x] # TreeNil /\ tree.child[tree.parent[x]][s] = x
        THEN up[tree.parent[x]] ELSE tree.parent[x]
  IN  IF tree.child[n][s] # TreeNil THEN TreeExtreme(tree.child[n][s], Other(s)) ELSE up[n]

-----------------------------------------------------------------------------
\* The descent of eh_rb_add: where a node goes, behind those with its key.
TreePlace(n) ==
  LET side(x)    == IF TreeKey[n] < TreeKey[x] THEN "left" ELSE "right"
      down[x \in TreeNodes] ==
        IF tree.child[x][side(x)] = TreeNil
        THEN [parent |-> x, side |-> side(x), leftmost |-> side(x) = "left"]
        ELSE [down[tree.child[x][side(x)]] EXCEPT !.leftmost = @ /\ side(x) = "left"]
  IN  down[tree.root]

\* rb_link_node and the fields the three ways of adding set, before the loop
TreeLink(n) ==
  /\ IF tree.root = TreeNil
     THEN /\ tree' = [tree EXCEPT !.root = n]
          /\ treeLeftmost' = n
          /\ treeFix' = [loop |-> "insert", node |-> n, parent |-> TreeNil]
     ELSE LET at == TreePlace(n)
          IN  /\ tree' = [tree EXCEPT !.child[at.parent][at.side] = n, !.parent[n] = at.parent]
              /\ treeLeftmost' = IF at.leftmost THEN n ELSE treeLeftmost
              /\ treeFix' = [loop |-> "insert", node |-> n, parent |-> at.parent]
  /\ LET before == Cardinality({x \in TreeMembers : TreeKey[x] <= TreeKey[n]})
     IN  treeOrder' = InsertAt(treeOrder, before + 1, n)

\* eh_rb_add
TreeAdd(n) ==
  /\ treeFix = TreeFixed
  /\ n \notin TreeMembers
  /\ TreeLink(n)

\* eh_rb_match_find: some node with the key, the first on the way down, or NULL
TreeMatch(key) ==
  LET down[x \in TreeNodes \cup {TreeNil}] ==
        IF x = TreeNil \/ TreeKey[x] = key THEN x
        ELSE down[tree.child[x][IF key < TreeKey[x] THEN "left" ELSE "right"]]
  IN  down[tree.root]

\* eh_rb_find_add, eh_rb_find_new_add: nothing is added where the key is found.
TreeFindAdd(n) ==
  /\ treeFix = TreeFixed
  /\ n \notin TreeMembers
  /\ TreeMatch(TreeKey[n]) = TreeNil
  /\ TreeLink(n)

\* Mutant: the rotation of an inner grandchild is forgotten.
InsertRotatedMutant(t, node, parent, gparent, s) ==
  LET o   == Other(s)
      tmp == t.child[parent][o]
      t3  == SetParentColor(SetChild(SetChild(t, gparent, s, tmp), parent, o, gparent), tmp, gparent, TRUE)
  IN  RotateSetParents(t3, gparent, parent, FALSE)

\* Case 3 of __rb_insert, after case 2 where the node is an inner grandchild
InsertRotated(t, node, parent, gparent, s) ==
  LET o     == Other(s)
      inner == node = t.child[parent][o]
      moved == t.child[node][s]
      t2    == IF inner
               THEN SetParentColor(SetParentColor(SetChild(SetChild(t, parent, o, moved), node, s, parent),
                                                  moved, parent, TRUE), parent, node, FALSE)
               ELSE t
      top   == IF inner THEN node ELSE parent
      tmp   == t2.child[top][o]
      t3    == SetParentColor(SetChild(SetChild(t2, gparent, s, tmp), top, o, gparent), tmp, gparent, TRUE)
  IN  RotateSetParents(t3, gparent, top, FALSE)

\* One pass of __rb_insert
TreeInsertPass ==
  LET node    == treeFix.node
      parent  == treeFix.parent
      gparent == tree.parent[parent]
      s       == IF parent # tree.child[gparent].right THEN "left" ELSE "right"
      uncle   == tree.child[gparent][Other(s)]
  IN  /\ treeFix.loop = "insert"
      /\ CASE parent = TreeNil -> tree' = SetParentColor(tree, node, TreeNil, TRUE) /\ treeFix' = TreeFixed
           [] parent # TreeNil /\ tree.black[parent] -> UNCHANGED tree /\ treeFix' = TreeFixed
           [] IsRed(tree, parent) /\ IsRed(tree, uncle) ->
                /\ tree' = [tree EXCEPT !.black[uncle] = TRUE, !.black[parent] = TRUE, !.black[gparent] = FALSE]
                /\ treeFix' = [treeFix EXCEPT !.node = gparent, !.parent = tree.parent[gparent]]
           [] OTHER -> tree' = InsertRotated(tree, node, parent, gparent, s) /\ treeFix' = TreeFixed
      /\ UNCHANGED <<treeLeftmost, treeOrder>>

-----------------------------------------------------------------------------
\* __rb_del, for a node with two children: the successor takes its place.
TreeReplaced(n) ==
  LET right     == tree.child[n].right
      successor == TreeExtreme(right, "left")
      near      == successor = right
      parent    == IF near THEN successor ELSE tree.parent[successor]
      child     == tree.child[successor].right
      t1        == IF near THEN tree
                   ELSE SetParent(SetChild(SetChild(tree, parent, "left", child), successor, "right", right),
                                  right, successor)
      t2        == SetParent(SetChild(t1, successor, "left", tree.child[n].left), tree.child[n].left, successor)
      t3        == ChangeChild(t2, n, successor, tree.parent[n])
      t4        == SetParentColor(t3, child, parent, TRUE)
  IN  [tree      |-> SetParentColor(t4, successor, tree.parent[n], tree.black[n]),
       rebalance |-> IF child = TreeNil /\ tree.black[successor] THEN parent ELSE TreeNil]

\* __rb_del, for a node with at most one child
TreeSpliced(n) ==
  LET child == IF tree.child[n].left = TreeNil THEN tree.child[n].right ELSE tree.child[n].left
  IN  [tree      |-> SetParentColor(ChangeChild(tree, n, child, tree.parent[n]),
                                    child, tree.parent[n], tree.black[n]),
       rebalance |-> IF child = TreeNil /\ tree.black[n] THEN tree.parent[n] ELSE TreeNil]

\* eh_rb_del, up to the loop
TreeDel(n) ==
  LET after == IF TreeNil \in Range(tree.child[n]) THEN TreeSpliced(n) ELSE TreeReplaced(n)
  IN  /\ treeFix = TreeFixed
      /\ n \in TreeMembers
      /\ tree' = [after.tree EXCEPT !.child[n] = TreeLeaf, !.parent[n] = TreeNil, !.black[n] = FALSE]
      /\ treeLeftmost' = IF treeLeftmost = n THEN TreeBeside(n, "right") ELSE treeLeftmost
      /\ treeFix' = IF after.rebalance = TreeNil THEN TreeFixed
                    ELSE [loop |-> "erase", node |-> TreeNil, parent |-> after.rebalance]
      /\ treeOrder' = SelectSeq(treeOrder, LAMBDA x : x # n)

\* Case 1 of ____rb_erase_color: the sibling is red, and goes up.
EraseRotated(t, parent, s) ==
  LET sibling == t.child[parent][Other(s)]
      tmp1    == t.child[sibling][s]
      t1      == SetChild(SetChild(t, parent, Other(s), tmp1), sibling, s, parent)
  IN  RotateSetParents(SetParentColor(t1, tmp1, parent, TRUE), parent, sibling, FALSE)

\* Case 4, after case 3 where only the sibling's inner child is red
EraseLast(t, parent, s) ==
  LET o     == Other(s)
      old   == t.child[parent][o]
      inner == t.child[old][s]
      turn  == ~IsRed(t, t.child[old][o])
      tmp   == t.child[inner][o]
      t3    == IF turn
               THEN SetParentColor(SetChild(SetChild(SetChild(t, old, s, tmp), inner, o, old), parent, o, inner),
                                   tmp, old, TRUE)
               ELSE t
      outer   == IF turn THEN old ELSE t.child[old][o]
      sibling == IF turn THEN inner ELSE old
      tmp2    == t3.child[sibling][s]
      t4      == SetChild(SetChild(t3, parent, o, tmp2), sibling, s, parent)
  IN  RotateSetParents(SetParent(SetParentColor(t4, outer, sibling, TRUE), tmp2, parent), parent, sibling, TRUE)

\* One pass of ____rb_erase_color
TreeErasePass ==
  LET parent  == treeFix.parent
      s       == IF treeFix.node # tree.child[parent].right THEN "left" ELSE "right"
      t       == IF IsRed(tree, tree.child[parent][Other(s)]) THEN EraseRotated(tree, parent, s) ELSE tree
      sibling == t.child[parent][Other(s)]
      up      == t.parent[parent]
  IN  /\ treeFix.loop = "erase"
      /\ IF \E side \in Sides : IsRed(t, t.child[sibling][side])
         THEN tree' = EraseLast(t, parent, s) /\ treeFix' = TreeFixed
         ELSE /\ tree' = [t EXCEPT !.black[sibling] = FALSE, !.black[parent] = TRUE]
              /\ treeFix' = IF t.black[parent] /\ up # TreeNil
                            THEN [treeFix EXCEPT !.node = parent, !.parent = up] ELSE TreeFixed
      /\ UNCHANGED <<treeLeftmost, treeOrder>>

TreeStepNext ==
  \/ \E n \in TreeNodes : TreeAdd(n)
  \/ \E n \in TreeNodes : TreeFindAdd(n)
  \/ TreeInsertPass
  \/ \E n \in TreeNodes : TreeDel(n)
  \/ TreeErasePass

TreeSpec == TreeStart /\ [][TreeStepNext]_treeVars

-----------------------------------------------------------------------------
\* eh_rb_find_first: the first in order of the nodes with the key
TreeFindFirst(key) ==
  LET down[x \in TreeNodes \cup {TreeNil}] ==
        IF x = TreeNil THEN TreeNil
        ELSE IF key > TreeKey[x] THEN down[tree.child[x].right]
        ELSE LET left == down[tree.child[x].left]
             IN  IF left = TreeNil /\ key = TreeKey[x] THEN x ELSE left
  IN  down[tree.root]

\* eh_rb_next_match
TreeNextMatch(key, n) ==
  LET next == TreeBeside(n, "right")
  IN  IF next # TreeNil /\ TreeKey[next] = key THEN next ELSE TreeNil

\* rb_left_deepest_node, rb_first_postorder, rb_next_postorder
TreeDeepest(n) ==
  LET down[x \in TreeNodes] ==
        IF tree.child[x].left # TreeNil THEN down[tree.child[x].left]
        ELSE IF tree.child[x].right # TreeNil THEN down[tree.child[x].right] ELSE x
  IN  down[n]
TreePostorderNext(n) ==
  LET parent == tree.parent[n]
  IN  IF parent # TreeNil /\ tree.child[parent].left = n /\ tree.child[parent].right # TreeNil
      THEN TreeDeepest(tree.child[parent].right) ELSE parent

\* The nodes a walk meets from one of them on, by one of the ways to the next one, and
\* the NULL that ends it.
TreeWalk(first, next) ==
  LET walk[k \in 1 .. Len(treeOrder) + 1] ==
        IF k = 1 THEN <<first>>
        ELSE IF Last(walk[k - 1]) = TreeNil THEN walk[k - 1]
        ELSE Append(walk[k - 1], next[Last(walk[k - 1])])
  IN  walk[Len(treeOrder) + 1]

\* The number of black nodes down from a node, -1 where two ways differ; below[n] of
\* the node the loop is at counts one more than it has.
TreeHeight(short) ==
  LET below[x \in TreeNodes \cup {TreeNil}] ==
        IF x = TreeNil THEN 0
        ELSE LET ways == {below[tree.child[x][s]]
                          + (IF x = treeFix.parent /\ tree.child[x][s] = treeFix.node /\ short THEN 1 ELSE 0)
                          : s \in Sides}
             IN  IF Cardinality(ways) # 1 \/ -1 \in ways THEN -1
                 ELSE (CHOOSE h \in ways : TRUE) + (IF tree.black[x] THEN 1 ELSE 0)
  IN  below[tree.root]

\* What the comments at the heads of the two loops say: during the first the only
\* fault is that the node and its parent may both be red, or that the node is a red
\* root; during the second only the ways through the node are one black node short.
\* Between the operations there is no fault.
TreeColours ==
  /\ TreeHeight(treeFix.loop = "erase") >= 0
  /\ treeFix.loop = "insert" => IsRed(tree, treeFix.node)
  /\ treeFix.loop = "erase" => ~IsRed(tree, treeFix.node)
  /\ \A n \in TreeMembers, s \in Sides :
       IsRed(tree, n) /\ IsRed(tree, tree.child[n][s]) =>
         treeFix.loop = "insert" /\ tree.child[n][s] = treeFix.node
  /\ IsRed(tree, tree.root) => treeFix.loop = "insert" /\ tree.root = treeFix.node

\* The pointers: at any time, in the loops as well, the tree holds its nodes in the
\* order of their keys, those with the same key in the order of their insertion; the
\* walks in both directions, after a key and from the leaves up, go by that order.
TreeOrdered ==
  IF treeOrder = << >>
  THEN tree.root = TreeNil /\ treeLeftmost = TreeNil
  ELSE /\ tree.parent[tree.root] = TreeNil
       /\ \A n \in TreeMembers, s \in Sides :
            tree.child[n][s] # TreeNil => tree.parent[tree.child[n][s]] = n
       /\ treeLeftmost = treeOrder[1]
       /\ TreeWalk(treeLeftmost, [n \in TreeMembers |-> TreeBeside(n, "right")])
            = Append(treeOrder, TreeNil)
       /\ TreeWalk(TreeExtreme(tree.root, "right"), [n \in TreeMembers |-> TreeBeside(n, "left")])
            = Append(Reverse(treeOrder), TreeNil)
       /\ LET post == TreeWalk(TreeDeepest(tree.root), [n \in TreeMembers |-> TreePostorderNext(n)])
          IN  /\ ToSet(post) = TreeMembers \cup {TreeNil}
              /\ Len(post) = Len(treeOrder) + 1
              /\ \A i, j \in 1 .. Len(treeOrder) : tree.parent[post[i]] = post[j] => i < j
       /\ \A n \in TreeNodes :
            LET key  == TreeKey[n]
                same == SelectSeq(treeOrder, LAMBDA x : TreeKey[x] = key)
            IN  IF same = << >> THEN TreeFindFirst(key) = TreeNil /\ TreeMatch(key) = TreeNil
                ELSE /\ TreeFindFirst(key) = same[1]
                     /\ TreeKey[TreeMatch(key)] = key
                     /\ \A i \in 1 .. Len(same) :
                          TreeNextMatch(key, same[i]) = IF i = Len(same) THEN TreeNil ELSE same[i + 1]

\* Whatever was added and deleted, __rb_insert and ____rb_erase_color have left a
\* red-black tree that eh_rb_find_first, eh_rb_next_match, eh_rb_next, eh_rb_prev,
\* rb_next_postorder and the cached first node read in the order of insertion
\* among equal keys.
TreeInv == TreeOrdered /\ TreeColours
=============================================================================
