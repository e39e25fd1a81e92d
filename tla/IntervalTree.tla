---------------------------- MODULE IntervalTree ----------------------------
(***************************************************************************)
(* The IntervalTree of src/src/data_structures/interval_tree.cpp with its  *)
(* IntervalNode (src/unnamed/part_003): an AVL tree ordered by (low, high) *)
(* whose nodes carry the height and the max_high of their subtree.  The   *)
(* recursive helpers (insertRecursive, removeRecursive, the two           *)
(* findOverlappingRecursive, the rotations) are RECURSIVE operators on    *)
(* nested node records; a std::unique_ptr that holds nothing is Nil.      *)
(*                                                                         *)
(* insertRecursive passes its std::unique_ptr<Interval> parameter on by   *)
(* move (interval_tree.cpp:96-106), so once the recursive call returns,   *)
(* new_interval is empty.  Each balancing test reads new_interval->low    *)
(* when |balance| > 1 (lines 119-132).  That load through a null pointer  *)
(* is undefined behaviour; the outcome modelled is the one a load from    *)
(* address 0 gives a Linux process, a crash.  It is the result Crash.     *)
(*                                                                         *)
(* contents is the multiset of intervals the callers inserted and did not *)
(* remove: what the tree should hold according to spec.md section 4.2.    *)
(***************************************************************************)
EXTENDS Integers, Sequences, Bags

CONSTANTS
    Intervals,  \* the intervals callers insert and remove: [low, high, data_id]
    Points,     \* the ports and query bounds the queries are asked about
    MaxOps,     \* bound on the number of insert/remove calls
    Nil,        \* an empty std::unique_ptr<IntervalNode>
    Crash       \* the outcome of an insert that dereferences a null pointer

ASSUME MaxOps \in Nat /\ Nil # Crash

VARIABLES
    root,       \* IntervalTree::root
    contents,   \* the bag of intervals inserted and not removed
    crashed,    \* the process died in an insert
    opsLeft     \* calls still allowed

vars == <<root, contents, crashed, opsLeft>>

(***************************************************************************)
(* Node helpers.                                                           *)
(***************************************************************************)
\* IntervalNode(std::unique_ptr<Interval>): a leaf of height 1.
NewNode(iv) ==
    [interval |-> iv, max_high |-> iv.high, left |-> Nil, right |-> Nil, height |-> 1]

MaxOf(a, b) == IF a >= b THEN a ELSE b

\* A height convention off by one: an empty subtree counts as -1.
GetHeightFromMinusOne(n) == IF n = Nil THEN -1 ELSE n.height

GetHeight(n) == IF n = Nil THEN 0 ELSE n.height

UpdateNodeHeight(n) ==
    [n EXCEPT !.height = 1 + MaxOf(GetHeight(n.left), GetHeight(n.right))]

\* IntervalNode::updateMaxHigh: the own high and the children's max_high.
SubtreeMax(child, m) == IF child = Nil THEN m ELSE MaxOf(m, child.max_high)

UpdateMaxHigh(n) ==
    [n EXCEPT !.max_high = SubtreeMax(n.right, SubtreeMax(n.left, n.interval.high))]

GetBalanceFactor(n) ==
    IF n = Nil THEN 0 ELSE GetHeight(n.left) - GetHeight(n.right)

\* updateNodeHeight then updateMaxHigh, as every recursive step ends.
Refresh(n) == UpdateMaxHigh(UpdateNodeHeight(n))

RotateRight(y) ==
    LET x == y.left
    IN  Refresh([x EXCEPT !.right = Refresh([y EXCEPT !.left = x.right])])

\* rotateLeft that recomputes only the new subtree root, not x.
RotateLeftStale(x) ==
    LET y == x.right
    IN  Refresh([y EXCEPT !.left = [x EXCEPT !.right = y.left]])

RotateLeft(x) ==
    LET y == x.right
    IN  Refresh([y EXCEPT !.left = Refresh([x EXCEPT !.right = y.left])])

\* The BST order of both recursions: by low, then by high.
Less(a, b) == a.low < b.low \/ (a.low = b.low /\ a.high < b.high)

(***************************************************************************)
(* insertRecursive: equal (low, high) goes right.  After the recursive    *)
(* call the node is refreshed; if it is out of balance, the balancing     *)
(* tests dereference the moved-from new_interval, so the insert crashes.  *)
(***************************************************************************)
RECURSIVE InsertRecursive(_, _)
InsertRecursive(node, iv) ==
    IF node = Nil THEN NewNode(iv)
    ELSE LET toLeft == Less(iv, node.interval)
             sub    == InsertRecursive(IF toLeft THEN node.left ELSE node.right, iv)
             n      == Refresh(IF toLeft THEN [node EXCEPT !.left = sub]
                                         ELSE [node EXCEPT !.right = sub])
         IN  IF sub = Crash \/ GetBalanceFactor(n) \notin -1..1 THEN Crash ELSE n

RECURSIVE FindMin(_)
FindMin(n) == IF n.left = Nil THEN n ELSE FindMin(n.left)

\* The balancing tail of removeRecursive: LL, LR, RR, RL in the code's order.
Rebalance(n) ==
    LET b == GetBalanceFactor(n)
    IN  CASE b > 1  /\ GetBalanceFactor(n.left) >= 0  -> RotateRight(n)
          [] b > 1                                    -> RotateRight([n EXCEPT !.left = RotateLeft(n.left)])
          [] b < -1 /\ GetBalanceFactor(n.right) <= 0 -> RotateLeft(n)
          [] b < -1                                   -> RotateLeft([n EXCEPT !.right = RotateRight(n.right)])
          [] OTHER                                    -> n

(***************************************************************************)
(* removeRecursive: descend by (low, high).  At a node of the same range  *)
(* the data_id decides: if it differs the search stops there and nothing  *)
(* is removed (the branch at line 185).  A node with two children takes   *)
(* a copy of its in-order successor's interval, and the successor is      *)
(* then removed from the right subtree by the same search.                *)
(***************************************************************************)
RECURSIVE RemoveRecursive(_, _)
RemoveRecursive(node, t) ==
    IF node = Nil THEN Nil
    ELSE IF Less(t, node.interval)
         THEN Rebalance(Refresh([node EXCEPT !.left = RemoveRecursive(@, t)]))
    ELSE IF Less(node.interval, t)
         THEN Rebalance(Refresh([node EXCEPT !.right = RemoveRecursive(@, t)]))
    ELSE IF node.interval.data_id # t.data_id
         THEN Rebalance(Refresh(node))
    ELSE IF node.left = Nil THEN node.right
    ELSE IF node.right = Nil THEN node.left
    ELSE LET s == FindMin(node.right).interval
         IN  Rebalance(Refresh([node EXCEPT !.interval = s,
                                            !.right = RemoveRecursive(@, s)]))

(***************************************************************************)
(* The two findOverlappingRecursive, as the bag of intervals they push.   *)
(* The order of the result vector (node, left, right) is abstracted away. *)
(***************************************************************************)
Singleton(iv) == SetToBag({iv})

RECURSIVE FindPoint(_, _)
FindPoint(node, p) ==
    IF node = Nil THEN EmptyBag
    ELSE (IF node.interval.low <= p /\ p <= node.interval.high
          THEN Singleton(node.interval) ELSE EmptyBag)
         (+) (IF node.left # Nil /\ node.left.max_high >= p
              THEN FindPoint(node.left, p) ELSE EmptyBag)
         (+) (IF node.right # Nil
                 /\ \/ p >= node.interval.low
                    \/ node.right.max_high >= p /\ p > node.interval.high
              THEN FindPoint(node.right, p) ELSE EmptyBag)

RECURSIVE FindRange(_, _, _)

\* The right-subtree test with > for >=.
FindRangeStrictRight(node, ql, qh) ==
    IF node = Nil THEN EmptyBag
    ELSE (IF ql <= node.interval.high /\ qh >= node.interval.low
          THEN Singleton(node.interval) ELSE EmptyBag)
         (+) (IF node.left # Nil /\ node.left.max_high >= ql
              THEN FindRange(node.left, ql, qh) ELSE EmptyBag)
         (+) (IF node.right # Nil /\ qh > node.interval.low
              THEN FindRange(node.right, ql, qh) ELSE EmptyBag)

FindRange(node, ql, qh) ==
    IF node = Nil THEN EmptyBag
    ELSE (IF ql <= node.interval.high /\ qh >= node.interval.low
          THEN Singleton(node.interval) ELSE EmptyBag)
         (+) (IF node.left # Nil /\ node.left.max_high >= ql
              THEN FindRange(node.left, ql, qh) ELSE EmptyBag)
         (+) (IF node.right # Nil /\ qh >= node.interval.low
              THEN FindRange(node.right, ql, qh) ELSE EmptyBag)

\* The public findOverlappingIntervals(point) and (low, high).
FindOverlappingPoint(p) == FindPoint(root, p)

FindOverlappingRange(ql, qh) ==
    IF ql > qh THEN EmptyBag ELSE FindRange(root, ql, qh)

(***************************************************************************)
(* The specification.                                                      *)
(***************************************************************************)
RECURSIVE IsTree(_)
IsTree(n) ==
    \/ n = Nil
    \/ /\ DOMAIN n = {"interval", "max_high", "left", "right", "height"}
       /\ n.interval \in Intervals
       /\ n.max_high \in Int
       /\ n.height \in Nat \ {0}
       /\ IsTree(n.left) /\ IsTree(n.right)

TypeOK ==
    /\ IsTree(root)
    /\ IsABag(contents) /\ BagToSet(contents) \subseteq Intervals
    /\ crashed \in BOOLEAN
    /\ opsLeft \in 0..MaxOps

Init ==
    /\ root = Nil
    /\ contents = EmptyBag
    /\ crashed = FALSE
    /\ opsLeft = MaxOps

Call == ~crashed /\ opsLeft > 0 /\ opsLeft' = opsLeft - 1

\* insert(low, high, data_id): low > high is rejected with a warning.
Insert(iv) ==
    /\ Call
    /\ \/ iv.low > iv.high /\ UNCHANGED <<root, contents, crashed>>
       \/ /\ iv.low <= iv.high
          /\ LET r == InsertRecursive(root, iv)
             IN  IF r = Crash
                 THEN crashed' = TRUE /\ UNCHANGED <<root, contents>>
                 ELSE /\ root' = r
                      /\ contents' = contents (+) Singleton(iv)
                      /\ UNCHANGED crashed

\* remove(low, high, data_id): always returns true.
Remove(iv) ==
    /\ Call
    /\ root' = RemoveRecursive(root, iv)
    /\ contents' = contents (-) Singleton(iv)
    /\ UNCHANGED crashed

Next == \E iv \in Intervals : Insert(iv) \/ Remove(iv)

Spec == Init /\ [][Next]_vars

-----------------------------------------------------------------------------
(* Properties *)

RECURSIVE Subtrees(_)
Subtrees(n) == IF n = Nil THEN {} ELSE {n} \cup Subtrees(n.left) \cup Subtrees(n.right)

RECURSIVE InOrder(_)
InOrder(n) == IF n = Nil THEN <<>> ELSE InOrder(n.left) \o <<n.interval>> \o InOrder(n.right)

(***************************************************************************)
(* The tree stays an AVL interval tree through every insert and remove:   *)
(* the in-order walk is sorted by (low, high), every node's height and    *)
(* max_high are those of its subtree, and every balance factor is in      *)
(* -1..1.  Rotations in removeRecursive (and the successor copy of the    *)
(* two-child case) must recompute the rotated nodes, or a later query or  *)
(* rebalance works from stale fields.                                      *)
(***************************************************************************)
IsAVLIntervalTree ==
    LET s == InOrder(root)
    IN  /\ \A i \in 1..Len(s) - 1 : ~Less(s[i + 1], s[i])
        /\ \A n \in Subtrees(root) :
              /\ n = Refresh(n)
              /\ GetBalanceFactor(n) \in -1..1

(***************************************************************************)
(* Queries answer from what was inserted and not removed: for every port  *)
(* p, findOverlappingIntervals(p) returns exactly the stored intervals    *)
(* containing p, and for every query range exactly those overlapping it   *)
(* (nothing for low > high), as often as they were inserted (spec.md 4.2  *)
(* and section 8).  This fails when the pruning of a subtree is wrong, or *)
(* when remove takes out the wrong node or none.                          *)
(***************************************************************************)
Overlapping(ql, qh) ==
    [iv \in {x \in BagToSet(contents) : ql <= x.high /\ qh >= x.low} |-> contents[iv]]

QueriesMatchContents ==
    /\ \A p \in Points : FindOverlappingPoint(p) = Overlapping(p, p)
    /\ \A ql, qh \in Points :
          FindOverlappingRange(ql, qh) = IF ql > qh THEN EmptyBag ELSE Overlapping(ql, qh)

(***************************************************************************)
(* An insert of a valid interval returns normally: the unit tests insert  *)
(* three increasing intervals and then query them                          *)
(* (InsertMultipleNonOverlappingIntervals).  It fails on the first insert *)
(* that unbalances a node, where the moved-from new_interval is read.     *)
(***************************************************************************)
InsertNeverCrashes == ~crashed

=============================================================================
