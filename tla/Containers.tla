----------------------------- MODULE Containers -----------------------------
(***************************************************************************)
(* Two intrusive containers of the kernel, pointer by pointer: the AVL     *)
(* tree that holds regions and slabs (adt/avl_tree.hpp) and the doubly     *)
(* linked list (common/DoubleList.hpp).  Both are driven by every sequence *)
(* of operations on a few items and compared with a set and a sequence.    *)
(***************************************************************************)
EXTENDS Integers, SequencesExt

CONSTANTS AvlKey, ListItem

VARIABLES
    tree,    \* root and the left, right, parent and height of every node
    keys,    \* the keys the tree should hold
    dlist,   \* head, tail, count and every item's prev and next
    items    \* the sequence the list should be

containerVars == <<tree, keys, dlist, items>>

NoItem == 0
EmptyTree == [root |-> 0, left |-> [k \in AvlKey |-> 0], right |-> [k \in AvlKey |-> 0],
              parent |-> [k \in AvlKey |-> 0], height |-> [k \in AvlKey |-> 1]]
EmptyList == [head |-> NoItem, tail |-> NoItem, count |-> 0,
              prev |-> [i \in ListItem |-> NoItem], next |-> [i \in ListItem |-> NoItem]]

ContainersInit == tree = EmptyTree /\ keys = {} /\ dlist = EmptyList /\ items = <<>>

-----------------------------------------------------------------------------
(* AvlTree.                                                                *)
get_height(t, n) == IF n = 0 THEN 0 ELSE t.height[n]
Taller(a, b) == IF a > b THEN a ELSE b
update_height(t, n) ==
    [t EXCEPT !.height[n] = Taller(get_height(t, t.left[n]), get_height(t, t.right[n])) + 1]
get_balance(t, n) == IF n = 0 THEN 0 ELSE get_height(t, t.left[n]) - get_height(t, t.right[n])

SetParent(t, n, p) == IF n = 0 THEN t ELSE [t EXCEPT !.parent[n] = p]
replace_node(t, old, new) ==
    LET p == t.parent[old]
        linked == IF p = 0 THEN [t EXCEPT !.root = new]
                  ELSE IF t.left[p] = old THEN [t EXCEPT !.left[p] = new]
                  ELSE [t EXCEPT !.right[p] = new]
    IN  SetParent(linked, new, p)

rotate_right(t, y) ==
    LET x == t.left[y]  T2 == t.right[x]
        up == replace_node(t, y, x)
        turned == [up EXCEPT !.right[x] = y, !.parent[y] = x, !.left[y] = T2]
    IN  update_height(update_height(SetParent(turned, T2, y), y), x)
rotate_left(t, x) ==
    LET y == t.right[x]  T2 == t.left[y]
        up == replace_node(t, x, y)
        turned == [up EXCEPT !.left[y] = x, !.parent[x] = y, !.right[x] = T2]
    IN  update_height(update_height(SetParent(turned, T2, x), x), y)

(* One turn of rebalance: the node's height, and a single or double        *)
(* rotation that makes its place's new top the node to go on from.         *)
Rebalanced(t0, n) ==
    LET t == update_height(t0, n)  b == get_balance(t, n)
        left == IF get_balance(t, t.left[n]) < 0 THEN rotate_left(t, t.left[n]) ELSE t
        right == IF get_balance(t, t.right[n]) > 0 THEN rotate_right(t, t.right[n]) ELSE t
    IN  IF b > 1 THEN [tree |-> rotate_right(left, n), at |-> left.left[n]]
        ELSE IF b < -1 THEN [tree |-> rotate_left(right, n), at |-> right.right[n]]
        ELSE [tree |-> t, at |-> n]
RECURSIVE rebalance(_, _)
rebalance(t, n) ==
    IF n = 0 THEN t
    ELSE LET step == Rebalanced(t, n) IN rebalance(step.tree, step.tree.parent[step.at])

RECURSIVE Descend(_, _, _)
Descend(t, n, k) ==
    LET child == IF k < n THEN t.left[n] ELSE t.right[n]
    IN  IF child = 0 THEN n ELSE Descend(t, child, k)
insert(t, k) ==
    LET clean == [t EXCEPT !.left[k] = 0, !.right[k] = 0, !.parent[k] = 0, !.height[k] = 1]
        p == Descend(t, t.root, k)
        linked == IF k < p THEN [clean EXCEPT !.left[p] = k, !.parent[k] = p]
                           ELSE [clean EXCEPT !.right[p] = k, !.parent[k] = p]
    IN  IF t.root = 0 THEN [clean EXCEPT !.root = k] ELSE rebalance(linked, p)

RECURSIVE find_min(_, _)
find_min(t, n) == IF t.left[n] = 0 THEN n ELSE find_min(t, t.left[n])

(* Faulty variant: heights are brought up to date from the removed node's  *)
(* parent, not from where the successor was taken.                         *)
RebalanceStartParent(t, n, s) == IF t.parent[n] = 0 THEN s ELSE t.parent[n]
RebalanceStart(t, n, s) == IF t.parent[s] = n THEN s ELSE t.parent[s]
remove(t, n) ==
    LET child == IF t.left[n] # 0 THEN t.left[n] ELSE t.right[n]
        s == find_min(t, t.right[n])
        out == IF t.parent[s] = n THEN t
               ELSE LET r == replace_node(t, s, t.right[s])
                    IN  SetParent([r EXCEPT !.right[s] = r.right[n]], r.right[n], s)
        swapped == replace_node(out, n, s)
        whole == SetParent([swapped EXCEPT !.left[s] = swapped.left[n]], swapped.left[n], s)
    IN  IF t.left[n] = 0 \/ t.right[n] = 0
        THEN rebalance(replace_node(t, n, child), t.parent[n])
        ELSE rebalance(update_height(whole, s), RebalanceStart(t, n, s))

RECURSIVE findFrom(_, _, _)
findFrom(t, n, k) ==
    IF n = 0 \/ n = k THEN n ELSE findFrom(t, IF k < n THEN t.left[n] ELSE t.right[n], k)
RECURSIVE each(_, _)
each(t, n) == IF n = 0 THEN <<>> ELSE each(t, t.left[n]) \o <<n>> \o each(t, t.right[n])

(* Removed nodes keep stale links in the code; they are written again when *)
(* the node is inserted, and are cleared here.                             *)
Forgotten(t, k) ==
    [t EXCEPT !.left[k] = 0, !.right[k] = 0, !.parent[k] = 0, !.height[k] = 1]
InsertKey(k) == /\ k \notin keys /\ tree' = insert(tree, k) /\ keys' = keys \cup {k}
                /\ UNCHANGED <<dlist, items>>
RemoveKey(k) == /\ k \in keys /\ tree' = Forgotten(remove(tree, k), k) /\ keys' = keys \ {k}
                /\ UNCHANGED <<dlist, items>>

-----------------------------------------------------------------------------
(* DoubleList.                                                             *)
push_back(L, i) ==
    LET at == [L EXCEPT !.prev[i] = L.tail, !.next[i] = NoItem, !.tail = i, !.count = @ + 1]
    IN  IF L.tail # NoItem THEN [at EXCEPT !.next[L.tail] = i] ELSE [at EXCEPT !.head = i]
push_front(L, i) ==
    LET at == [L EXCEPT !.prev[i] = NoItem, !.next[i] = L.head, !.head = i, !.count = @ + 1]
    IN  IF L.head # NoItem THEN [at EXCEPT !.prev[L.head] = i] ELSE [at EXCEPT !.tail = i]
insert_before(L, pos, i) ==
    IF pos = NoItem THEN push_back(L, i)
    ELSE IF pos = L.head THEN push_front(L, i)
    ELSE [L EXCEPT !.prev[i] = L.prev[pos], !.next[i] = pos, !.next[L.prev[pos]] = i,
                   !.prev[pos] = i, !.count = @ + 1]
(* remove, and erase at an iterator.                                       *)
unlink(L, i) ==
    LET before == IF L.prev[i] # NoItem THEN [L EXCEPT !.next[L.prev[i]] = L.next[i]]
                  ELSE [L EXCEPT !.head = L.next[i]]
        after == IF L.next[i] # NoItem THEN [before EXCEPT !.prev[L.next[i]] = L.prev[i]]
                 ELSE [before EXCEPT !.tail = L.prev[i]]
    IN  [after EXCEPT !.prev[i] = NoItem, !.next[i] = NoItem, !.count = @ - 1]
pop_back(L) ==
    LET t == L.prev[L.tail]
        cut == IF t # NoItem THEN [L EXCEPT !.tail = t, !.next[t] = NoItem]
               ELSE [L EXCEPT !.tail = t, !.head = NoItem]
    IN  [cut EXCEPT !.prev[L.tail] = NoItem, !.next[L.tail] = NoItem, !.count = @ - 1]
pop_front(L) ==
    LET h == L.next[L.head]
        cut == IF h # NoItem THEN [L EXCEPT !.head = h, !.prev[h] = NoItem]
               ELSE [L EXCEPT !.head = h, !.tail = NoItem]
    IN  [cut EXCEPT !.prev[L.head] = NoItem, !.next[L.head] = NoItem, !.count = @ - 1]

ListStep ==
    /\ \/ \E i \in ListItem \ ToSet(items) :
            \/ dlist' = push_back(dlist, i) /\ items' = Append(items, i)
            \/ dlist' = push_front(dlist, i) /\ items' = <<i>> \o items
            \/ \E n \in 1..Len(items) :
                 dlist' = insert_before(dlist, items[n], i) /\ items' = InsertAt(items, n, i)
       \/ \E n \in 1..Len(items) : dlist' = unlink(dlist, items[n]) /\ items' = RemoveAt(items, n)
       \/ items # <<>> /\ dlist' = pop_back(dlist) /\ items' = Front(items)
       \/ items # <<>> /\ dlist' = pop_front(dlist) /\ items' = Tail(items)
    /\ UNCHANGED <<tree, keys>>

ContainersNext == (\E k \in AvlKey : InsertKey(k) \/ RemoveKey(k)) \/ ListStep
ContainersSpec == ContainersInit /\ [][ContainersNext]_containerVars

-----------------------------------------------------------------------------
(* Whatever was inserted and removed, the tree holds exactly those keys in *)
(* order, every parent link answers a child link, every height is true,    *)
(* and find reaches every key.                                             *)
TreeHoldsKeys ==
    /\ each(tree, tree.root) = SetToSortSeq(keys, LAMBDA a, b : a < b)
    /\ \A k \in keys :
         /\ findFrom(tree, tree.root, k) = k
         /\ tree.left[k] # 0 => tree.parent[tree.left[k]] = k
         /\ tree.right[k] # 0 => tree.parent[tree.right[k]] = k
    /\ tree.root # 0 => tree.parent[tree.root] = 0

(* No two subtrees of a node differ by more than one level: the depth of a *)
(* lookup grows with the logarithm of the number of regions.               *)
TreeBalanced ==
    \A k \in keys :
        /\ get_balance(tree, k) \in -1..1
        /\ tree.height[k] = Taller(get_height(tree, tree.left[k]), get_height(tree, tree.right[k])) + 1

(* The list's links spell the sequence, forwards and backwards.            *)
ListIsSequence ==
    /\ dlist.count = Len(items)
    /\ dlist.head = (IF items = <<>> THEN NoItem ELSE items[1])
    /\ dlist.tail = (IF items = <<>> THEN NoItem ELSE items[Len(items)])
    /\ \A n \in 1..Len(items) :
         /\ dlist.prev[items[n]] = (IF n = 1 THEN NoItem ELSE items[n - 1])
         /\ dlist.next[items[n]] = (IF n = Len(items) THEN NoItem ELSE items[n + 1])

-----------------------------------------------------------------------------
(***************************************************************************)
(* kstd::map (SDK/KStd/include/map.hpp): a red-black tree with a header    *)
(* node that stands for end(), whose parent is the root and whose children *)
(* are the first and last elements.  Nodes are keys; left and right are    *)
(* two sides so that mirrored code is written once.  Two maps, so that     *)
(* moving and swapping are seen.                                           *)
(***************************************************************************)
CONSTANTS MapKey, MapId      \* keys are positive numbers

VARIABLES rb,        \* map -> parent, child (side -> node -> node) and red
          contents   \* map -> the keys it should hold

rbVars == <<rb, contents>>

header == 0
null == -1
Left == 1
Right == 2
Other(side) == 3 - side
Nodes == MapKey \cup {header}

EmptyMap == [parent |-> [n \in Nodes |-> null],
             child |-> [side \in {Left, Right} |-> [n \in Nodes |-> IF n = header THEN header ELSE null]],
             red |-> [n \in Nodes |-> TRUE], size |-> 0]

RbInit == rb = [m \in MapId |-> EmptyMap] /\ contents = [m \in MapId |-> {}]

rbRootOf(t) == t.parent[header]
isRed(t, n) == n # null /\ t.red[n]

-----------------------------------------------------------------------------
RECURSIVE extreme(_, _, _)
(* __tree_min, __tree_max.                                                 *)
extreme(t, n, side) == IF t.child[side][n] = null THEN n ELSE extreme(t, t.child[side][n], side)

RECURSIVE climb(_, _, _)
climb(t, x, side) == IF x = t.child[side][t.parent[x]] THEN climb(t, t.parent[x], side) ELSE x
(* __tree_increment; the test at the end is for a root without a right     *)
(* child, whose climb ends at the header.                                  *)
increment(t, n) ==
    IF t.child[Right][n] # null THEN extreme(t, t.child[Right][n], Left)
    ELSE LET x == climb(t, n, Right)
         IN  IF t.child[Right][x] # t.parent[x] THEN t.parent[x] ELSE x
decrement(t, n) ==
    IF t.red[n] /\ t.parent[t.parent[n]] = n THEN t.child[Right][n]
    ELSE IF t.child[Left][n] # null THEN extreme(t, t.child[Left][n], Right)
    ELSE t.parent[climb(t, n, Left)]

RECURSIVE find_node(_, _, _)
find_node(t, n, k) ==
    IF n = null \/ n = k THEN n ELSE find_node(t, t.child[IF k < n THEN Left ELSE Right][n], k)
RECURSIVE lower_bound(_, _, _, _)
lower_bound(t, x, y, k) ==
    IF x = null THEN y
    ELSE IF ~(x < k) THEN lower_bound(t, t.child[Left][x], x, k)
    ELSE lower_bound(t, t.child[Right][x], y, k)
RECURSIVE upper_bound(_, _, _, _)
upper_bound(t, x, y, k) ==
    IF x = null THEN y
    ELSE IF k < x THEN upper_bound(t, t.child[Left][x], x, k)
    ELSE upper_bound(t, t.child[Right][x], y, k)

RECURSIVE leafFor(_, _, _)
leafFor(t, n, k) ==
    LET next == t.child[IF k < n THEN Left ELSE Right][n]
    IN  IF next = null THEN n ELSE leafFor(t, next, k)
(* __find_insert_unique_pos: the leaf to hang the key under, or the equal  *)
(* key found by stepping back from it.                                     *)
insert_pos(t, k) ==
    LET y == IF rbRootOf(t) = null THEN header ELSE leafFor(t, rbRootOf(t), k)
        comp == y = header \/ k < y
        first == y = t.child[Left][header]
        j == IF comp /\ ~first THEN decrement(t, y) ELSE y
    IN  IF comp /\ first THEN [parent |-> y, side |-> Left, existing |-> null]
        ELSE IF j < k THEN [parent |-> y, side |-> IF comp THEN Left ELSE Right, existing |-> null]
        ELSE [parent |-> null, side |-> Right, existing |-> j]

-----------------------------------------------------------------------------
(* __rotate_left (side = Left) and __rotate_right.                         *)
rotate(t, x, side) ==
    LET other == Other(side)  y == t.child[other][x]  inner == t.child[side][y]  p == t.parent[x]
        a == [t EXCEPT !.child[other][x] = inner, !.parent[y] = p]
        b == IF inner # null THEN [a EXCEPT !.parent[inner] = x] ELSE a
        c == IF x = rbRootOf(t) THEN [b EXCEPT !.parent[header] = y]
             ELSE IF x = t.child[side][p] THEN [b EXCEPT !.child[side][p] = y]
             ELSE [b EXCEPT !.child[other][p] = y]
    IN  [c EXCEPT !.child[side][y] = x, !.parent[x] = y]

RECURSIVE after_insert(_, _)
after_insert(t, x) ==
    LET p == t.parent[x]  g == t.parent[p]
        side == IF p = t.child[Left][g] THEN Left ELSE Right
        uncle == t.child[Other(side)][g]
        inner == x = t.child[Other(side)][p]
        turned == IF inner THEN rotate(t, p, side) ELSE t
        top == IF inner THEN x ELSE p
    IN  IF x = rbRootOf(t) \/ ~t.red[p] THEN [t EXCEPT !.red[rbRootOf(t)] = FALSE]
        ELSE IF isRed(t, uncle)
        THEN after_insert([t EXCEPT !.red[p] = FALSE, !.red[uncle] = FALSE, !.red[g] = TRUE], g)
        ELSE after_insert(rotate([turned EXCEPT !.red[top] = FALSE, !.red[g] = TRUE], g, Other(side)),
                          IF inner THEN p ELSE x)

NewNode(t, p, k) ==
    [t EXCEPT !.parent[k] = p, !.child[Left][k] = null, !.child[Right][k] = null,
              !.red[k] = TRUE, !.size = @ + 1]
insert_node(t, pos, k) ==
    LET p == pos.parent
        fresh == NewNode(t, p, k)
        linked == IF p = header
                  THEN [fresh EXCEPT !.parent[header] = k, !.child[Left][header] = k, !.child[Right][header] = k]
                  ELSE [fresh EXCEPT !.child[pos.side][p] = k,
                                     !.child[pos.side][header] = IF @ = p THEN k ELSE @]
    IN  after_insert(linked, k)

-----------------------------------------------------------------------------
(* The loop of __rebalance_for_erase: x, perhaps null, is short of a black *)
(* node under its parent.                                                  *)
RECURSIVE after_erase(_, _, _)
after_erase(t, x, p) ==
    LET side == IF x = t.child[Left][p] THEN Left ELSE Right
        other == Other(side)
        w0 == t.child[other][p]
        t1 == IF t.red[w0] THEN rotate([t EXCEPT !.red[w0] = FALSE, !.red[p] = TRUE], p, side) ELSE t
        w1 == t1.child[other][p]
        near == t1.child[side][w1]
        t2 == IF isRed(t1, t1.child[other][w1]) THEN t1
              ELSE rotate([t1 EXCEPT !.red[near] = FALSE, !.red[w1] = TRUE], w1, other)
        w2 == t2.child[other][p]
        t3 == [t2 EXCEPT !.red[w2] = t2.red[p], !.red[p] = FALSE,
                         !.red[t2.child[other][w2]] = FALSE]
    IN  IF x = rbRootOf(t) \/ isRed(t, x)
        THEN IF x = null THEN t ELSE [t EXCEPT !.red[x] = FALSE]
        ELSE IF ~isRed(t1, near) /\ ~isRed(t1, t1.child[other][w1])
        THEN after_erase([t1 EXCEPT !.red[w1] = TRUE], p, t1.parent[p])
        ELSE LET done == rotate(t3, p, side) IN IF x = null THEN done ELSE [done EXCEPT !.red[x] = FALSE]

Relink(t, z, n) ==
    IF rbRootOf(t) = z THEN [t EXCEPT !.parent[header] = n]
    ELSE IF t.child[Left][t.parent[z]] = z THEN [t EXCEPT !.child[Left][t.parent[z]] = n]
    ELSE [t EXCEPT !.child[Right][t.parent[z]] = n]
(* The header's first and last elements when z, with at most the child x,  *)
(* goes.                                                                   *)
RbEnds(t, z, x) ==
    LET end(side) == IF t.child[Other(side)][z] = null THEN t.parent[z] ELSE extreme(t, x, side)
    IN  [t EXCEPT !.child[Left][header] = IF @ = z THEN end(Left) ELSE @,
                  !.child[Right][header] = IF @ = z THEN end(Right) ELSE @]

ColoursSwapped(t, y, z) == [t EXCEPT !.red[y] = t.red[z], !.red[z] = t.red[y]]

erase_node(t, z) ==
    LET single == t.child[Left][z] = null \/ t.child[Right][z] = null
        y == IF single THEN z ELSE extreme(t, t.child[Right][z], Left)
        x == IF t.child[Left][y] = null THEN t.child[Right][y] ELSE t.child[Left][y]
        Adopt(s, n, p) == IF n = null THEN s ELSE [s EXCEPT !.parent[n] = p]
        direct == y = t.child[Right][z]
        a == [t EXCEPT !.parent[t.child[Left][z]] = y, !.child[Left][y] = t.child[Left][z]]
        b == IF direct THEN a
             ELSE [Adopt(a, x, t.parent[y]) EXCEPT !.child[Left][t.parent[y]] = x,
                     !.child[Right][y] = t.child[Right][z], !.parent[t.child[Right][z]] = y]
        c == [Relink(b, z, y) EXCEPT !.parent[y] = t.parent[z]]
        moved == ColoursSwapped(c, y, z)
        cut == RbEnds(Relink(Adopt(t, x, t.parent[z]), z, x), z, x)
        s == IF single THEN cut ELSE moved
        p == IF single THEN t.parent[z] ELSE IF direct THEN y ELSE t.parent[y]
    IN  IF s.red[z] THEN s ELSE after_erase(s, x, p)
Erased(t, z) ==
    LET s == erase_node(t, z)
    IN  [s EXCEPT !.size = @ - 1, !.parent[z] = null, !.child[Left][z] = null,
                  !.child[Right][z] = null, !.red[z] = TRUE]

(* __steal: the target takes the other's tree; the other becomes empty.    *)
Stolen(t) == IF t.size = 0 THEN EmptyMap ELSE [t EXCEPT !.parent[rbRootOf(t)] = header]

-----------------------------------------------------------------------------
map_insert(m, k) ==
    LET pos == insert_pos(rb[m], k)
    IN  /\ rb' = IF pos.existing # null THEN rb ELSE [rb EXCEPT ![m] = insert_node(@, pos, k)]
        /\ contents' = [contents EXCEPT ![m] = @ \cup {k}]
map_erase(m, k) ==
    LET n == find_node(rb[m], rbRootOf(rb[m]), k)
    IN  /\ rb' = IF n = null THEN rb ELSE [rb EXCEPT ![m] = Erased(@, n)]
        /\ contents' = [contents EXCEPT ![m] = @ \ {k}]
map_clear(m) == rb' = [rb EXCEPT ![m] = EmptyMap] /\ contents' = [contents EXCEPT ![m] = {}]
map_move(m, n) ==
    /\ m # n
    /\ rb' = [rb EXCEPT ![m] = Stolen(rb[n]), ![n] = EmptyMap]
    /\ contents' = [contents EXCEPT ![m] = contents[n], ![n] = {}]
map_swap(m, n) ==
    /\ m # n
    /\ rb' = [rb EXCEPT ![m] = Stolen(rb[n]), ![n] = Stolen(rb[m])]
    /\ contents' = [contents EXCEPT ![m] = contents[n], ![n] = contents[m]]

RbNext ==
    \E m \in MapId :
        \/ \E k \in MapKey : map_insert(m, k) \/ map_erase(m, k)
        \/ map_clear(m)
        \/ \E n \in MapId : map_move(m, n) \/ map_swap(m, n)
RbSpec == RbInit /\ [][RbNext]_rbVars

-----------------------------------------------------------------------------
RECURSIVE blackHeight(_, _)
blackHeight(t, n) ==
    IF n = null THEN 1
    ELSE LET l == blackHeight(t, t.child[Left][n])  r == blackHeight(t, t.child[Right][n])
         IN  IF l # r \/ l = 0 THEN 0 ELSE l + (IF t.red[n] THEN 0 ELSE 1)
(* No red node has a red child, the root is black, and every path has the  *)
(* same number of black nodes: a lookup stays logarithmic whatever was     *)
(* inserted and erased before.                                             *)
RedBlack ==
    \A m \in MapId : LET t == rb[m] IN
        /\ t.size # 0 => ~t.red[rbRootOf(t)] /\ blackHeight(t, rbRootOf(t)) > 0
        /\ \A k \in contents[m] : t.red[k] =>
             ~isRed(t, t.child[Left][k]) /\ ~isRed(t, t.child[Right][k])

RECURSIVE walk(_, _)
walk(t, n) == IF n = header THEN <<>> ELSE <<n>> \o walk(t, increment(t, n))
RECURSIVE walkBack(_, _, _)
walkBack(t, n, steps) ==
    IF steps = 0 THEN <<>> ELSE LET p == decrement(t, n) IN walkBack(t, p, steps - 1) \o <<p>>
(* From begin() to end(), and from end() back, the iterator meets exactly  *)
(* the keys the map should hold, in order; lookups find them and bounds    *)
(* are the neighbours.                                                     *)
IteratesInOrder ==
    \A m \in MapId : LET t == rb[m]  keysOf == contents[m]
                         sorted == SetToSortSeq(keysOf, LAMBDA a, b : a < b) IN
        /\ walk(t, t.child[Left][header]) = sorted
        /\ walkBack(t, header, t.size) = sorted
        /\ \A k \in MapKey :
             /\ find_node(t, rbRootOf(t), k) = IF k \in keysOf THEN k ELSE null
             /\ lower_bound(t, rbRootOf(t), header, k) \in {x \in keysOf : x >= k} \cup {header}
             /\ \A x \in keysOf : x >= k => lower_bound(t, rbRootOf(t), header, k) \in 1..x
             /\ \A x \in keysOf : x > k => upper_bound(t, rbRootOf(t), header, k) \in (k + 1)..x

(* The trees and lists of the kernel hold what was put into them, balanced *)
(* and in order.                                                           *)
ContainersSound ==
    /\ TreeHoldsKeys /\ TreeBalanced /\ ListIsSequence /\ RedBlack
    /\ IteratesInOrder
=============================================================================
