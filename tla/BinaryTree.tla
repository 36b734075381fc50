----------------------------- MODULE BinaryTree ------------------------------
(* The binary search tree of module4 ex04. The recursive calls are one per   *)
(* step, over the stack of their frames; malloc may fail.                    *)
EXTENDS Integers, SequencesExt

CONSTANTS
    TreeNode,   \* the addresses malloc may return
    TreeKey,    \* what a uint32_t value may be
    NIL         \* the NULL pointer

ASSUME BinaryTreeAssumption == /\ IsFiniteSet(TreeNode) /\ NIL \notin TreeNode
                               /\ TreeKey \subseteq Nat

VARIABLES tree_heap,    \* the nodes not freed: address -> [value, left, right]
          root,         \* main's root
          tree_call,    \* the last call: function, argument, whether it returned
          at,           \* the root argument of the innermost call
          frames,       \* the frames outside it, innermost last
          found,        \* what the last search or find_min returned
          keys          \* history: the values whose insert got a node

treeVars == <<tree_heap, root, tree_call, at, frames, found, keys>>

Allocated == DOMAIN tree_heap
TreeIdle == tree_call.returned
InCall(f) == tree_call.fun = f /\ ~tree_call.returned

TreeInit == /\ tree_heap = <<>> /\ root = NIL /\ at = NIL /\ frames = <<>>
            /\ tree_call = [fun |-> "none", value |-> 0, returned |-> TRUE]
            /\ found = NIL /\ keys = {}

\* main calls bst_insert, bst_search, bst_find_min or bst_free on its root.
TreeCall(f, v) == /\ TreeIdle
                  /\ tree_call' = [fun |-> f, value |-> v, returned |-> FALSE]
                  /\ at' = root
                  /\ UNCHANGED <<tree_heap, root, frames, found, keys>>

TreeReturn == tree_call' = [tree_call EXCEPT !.returned = TRUE] /\ at' = NIL /\ frames' = <<>>

\* Mutant: the node's own value is not tested for equality.
HereNever(v) == FALSE
Here(v) == at # NIL /\ tree_heap[at].value = v
\* Mutant: a greater value goes left of a node without a left child.
SideOfGap(v, n) == IF v < n.value \/ n.left = NIL THEN "left" ELSE "right"
Side(v, n) == IF v < n.value THEN "left" ELSE "right"

\* Mutant: the recursive call is on the node itself.
DescendStuck == /\ InCall("insert") \/ InCall("search")
                /\ at # NIL /\ ~Here(tree_call.value)
                /\ UNCHANGED treeVars
\* The recursive call of bst_insert and bst_search on a child.
Descend == /\ InCall("insert") \/ InCall("search")
           /\ at # NIL /\ ~Here(tree_call.value)
           /\ at' = tree_heap[at][Side(tree_call.value, tree_heap[at])]
           /\ frames' = Append(frames, at)
           /\ UNCHANGED <<tree_heap, root, tree_call, found, keys>>

\* bst_create_node.
\* Mutant: a child pointer is left as malloc found it.
LeafUnset(v) == [value |-> v, left |-> NIL, right |-> "indeterminate"]
Leaf(v) == [value |-> v, left |-> NIL, right |-> NIL]
Planted(p, v) == [q \in Allocated \cup {p} |-> IF q = p THEN Leaf(v) ELSE tree_heap[q]]

\* The NULL child found is replaced by the new node as the calls return; every
\* frame outside stores the pointer it had.
InsertNew == /\ InCall("insert") /\ at = NIL
             /\ LET v == tree_call.value IN
                \E p \in TreeNode \ Allocated :
                    IF frames = <<>>
                    THEN tree_heap' = Planted(p, v) /\ root' = p
                    ELSE /\ tree_heap' = [Planted(p, v) EXCEPT
                               ![Last(frames)][Side(v, tree_heap[Last(frames)])] = p]
                         /\ UNCHANGED root
             /\ keys' = keys \cup {tree_call.value}
             /\ TreeReturn /\ UNCHANGED found

\* A value already there, or a failed malloc: NULL is stored where NULL was.
InsertNothing == /\ InCall("insert") /\ (at = NIL \/ Here(tree_call.value))
                 /\ TreeReturn /\ UNCHANGED <<tree_heap, root, found, keys>>

SearchEnd == /\ InCall("search") /\ (at = NIL \/ Here(tree_call.value))
             /\ found' = at
             /\ TreeReturn /\ UNCHANGED <<tree_heap, root, keys>>

bst_find_min == /\ InCall("find_min")
                /\ IF at # NIL /\ tree_heap[at].left # NIL
                   THEN at' = tree_heap[at].left /\ UNCHANGED <<tree_call, frames, found>>
                   ELSE found' = at /\ TreeReturn
                /\ UNCHANGED <<tree_heap, root, keys>>

\* bst_free: the frame of at is the innermost one; a frame on the stack waits
\* for its left child ("left") or its right one ("right").
Waiting(p, side) == [node |-> p, side |-> side]
Freed(p) == [q \in Allocated \ {p} |-> tree_heap[q]]

FreeDown == /\ InCall("free") /\ at # NIL
            /\ frames' = Append(frames, Waiting(at, "left"))
            /\ at' = tree_heap[at].left
            /\ UNCHANGED <<tree_heap, root, tree_call, found, keys>>

\* Mutant: a node is freed between its two subtrees.
FreeUpInorder ==
    /\ InCall("free") /\ at = NIL /\ frames # <<>>
    /\ LET top == Last(frames) IN
       IF top.side = "left"
       THEN /\ frames' = Append(Front(frames), Waiting(top.node, "right"))
            /\ at' = tree_heap[top.node].right
            /\ tree_heap' = Freed(top.node)
       ELSE frames' = Front(frames) /\ at' = NIL /\ UNCHANGED tree_heap
    /\ UNCHANGED <<root, tree_call, found, keys>>
\* A call on NULL, or that has freed its node, has returned to its frame.
FreeUp ==
    /\ InCall("free") /\ at = NIL /\ frames # <<>>
    /\ LET top == Last(frames) IN
       IF top.side = "left"
       THEN /\ frames' = Append(Front(frames), Waiting(top.node, "right"))
            /\ at' = tree_heap[top.node].right
            /\ UNCHANGED tree_heap
       ELSE frames' = Front(frames) /\ tree_heap' = Freed(top.node) /\ at' = NIL
    /\ UNCHANGED <<root, tree_call, found, keys>>

\* The outermost call has returned; main forgets the root.
FreeEnded == /\ InCall("free") /\ at = NIL /\ frames = <<>>
             /\ root' = NIL /\ found' = NIL /\ keys' = {}
             /\ TreeReturn /\ UNCHANGED tree_heap

TreeRun == \/ Descend \/ InsertNew \/ InsertNothing \/ SearchEnd \/ bst_find_min
           \/ FreeDown \/ FreeUp \/ FreeEnded
TreeNext == \/ \E f \in {"insert", "search"}, v \in TreeKey : TreeCall(f, v)
            \/ \E f \in {"find_min", "free"} : TreeCall(f, 0)
            \/ TreeRun

TreeFairness == WF_treeVars(TreeRun)
TreeSpec == TreeInit /\ [][TreeNext]_treeVars /\ TreeFairness

\* What bst_inorder prints and bst_height returns for each node.
bst_inorder[p \in Allocated \cup {NIL}] ==
    IF p = NIL THEN <<>>
    ELSE bst_inorder[tree_heap[p].left] \o <<tree_heap[p].value>> \o bst_inorder[tree_heap[p].right]

bst_height[p \in Allocated \cup {NIL}] ==
    IF p = NIL THEN 0
    ELSE LET left_h == bst_height[tree_heap[p].left]
             right_h == bst_height[tree_heap[p].right]
         IN 1 + IF left_h > right_h THEN left_h ELSE right_h

------------------------------------------------------------------------------
\* Type invariant.
TreeTypeOK == /\ Allocated \subseteq TreeNode
              /\ \A p \in Allocated :
                    tree_heap[p] \in [value : TreeKey, left : TreeNode \cup {NIL},
                                      right : TreeNode \cup {NIL}]
              /\ {root, at, found} \subseteq TreeNode \cup {NIL}

\* Between calls the inorder walk prints every inserted value once, in
\* increasing order, and each allocated node holds one of them: the order of
\* inserts and failed allocations shape the tree but never lose a subtree.
InorderSorted ==
    TreeIdle => LET out == bst_inorder[root] IN
                /\ \A k \in 1 .. Len(out) - 1 : out[k] < out[k + 1]
                /\ ToSet(out) = keys
                /\ Cardinality(Allocated) = Len(out)

\* The height is what its nodes need and allow: no more levels than nodes, no
\* more nodes than a full tree of that height has.
HeightFits == TreeIdle => /\ bst_height[root] <= Cardinality(keys)
                          /\ Cardinality(keys) < 2 ^ bst_height[root]

\* bst_search finds a value exactly when it was inserted, and bst_find_min the
\* least of all, although each looks at one path only.
LookupExact ==
    tree_call.returned =>
        /\ tree_call.fun = "search" =>
              /\ found # NIL <=> tree_call.value \in keys
              /\ found # NIL => tree_heap[found].value = tree_call.value
        /\ tree_call.fun = "find_min" =>
              /\ found # NIL <=> keys # {}
              /\ found # NIL => /\ tree_heap[found].value \in keys
                                /\ \A k \in keys : tree_heap[found].value <= k

\* The tree is well typed and ordered, as high as it needs, and its two lookups,
\* which follow one path each, find what is in it.
TreeIntact == TreeTypeOK /\ InorderSorted /\ HeightFits /\ LookupExact

\* bst_free never touches a node it has freed: every frame's node is allocated
\* until that frame itself frees it, and at the end nothing is left.
FreeInOrder == /\ InCall("free") => /\ at \in Allocated \cup {NIL}
                                      /\ \A k \in DOMAIN frames : frames[k].node \in Allocated
               /\ root = NIL => Allocated = {}

\* Every call returns.
TreeCallsReturn == []<>TreeIdle
==============================================================================
