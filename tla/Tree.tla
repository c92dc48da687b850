--------------------------------- MODULE Tree ---------------------------------
(****************************************************************************)
(* rbtree.c and pool.c: a red-black tree in the slots of a memory pool.     *)
(*                                                                          *)
(* A slot holds a node: its color, two links and a value.  The first word   *)
(* of a slot is the color while the slot is a node, and the link to the     *)
(* next free slot while it is free.  Slots are numbered in the order of     *)
(* their blocks.                                                            *)
(****************************************************************************)
EXTENDS Integers, Sequences, FiniteSets

CONSTANTS
    Items,      \* what may be put into the tree: records with a key
    None,       \* NULL, as what a call returns
    Dups,       \* what to do with an item whose key is in the tree already
    BlockSlots, \* cl_pool_block_slots
    MaxBlocks   \* bound: blocks allocated

ASSUME TreeAssumption ==
    /\ \A x \in Items : x.key \in Int
    /\ None \notin Items
    /\ Dups \subseteq {"reject", "allow", "replace"}
    /\ BlockSlots \in Nat \ {0} /\ MaxBlocks \in Nat

NULL  == 0
FROOT == -1   \* the fake root on the stack
LEFT  == 0
RIGHT == 1

Slots == 1 .. BlockSlots * MaxBlocks

VARIABLES
    mem,      \* mem[n]: what slot n holds
    head,     \* the first free slot
    blocks,   \* how many blocks are allocated
    root,     \* the root of the tree
    n_items,  \* how many items are in it
    result,   \* what the last call returned
    dup       \* how the tree was initialized

vars == <<mem, head, blocks, root, n_items, result, dup>>

Blank == [word |-> NULL, link |-> [d \in {LEFT, RIGHT} |-> NULL], value |-> None]

Init ==
    /\ mem = [n \in Slots |-> Blank]
    /\ head = NULL /\ blocks = 0
    /\ root = NULL /\ n_items = 0
    /\ result = None /\ dup \in Dups

-----------------------------------------------------------------------------
(* Nodes, in a heap h: the slots, and the fake root.                        *)

Opposite(d) == 1 - d
Direction(b) == IF b THEN RIGHT ELSE LEFT

IsRed(h, n) == n # NULL /\ h[n].word = "red"

Paint(h, n, color) == [h EXCEPT ![n].word = color]
Join(h, n, d, m)   == [h EXCEPT ![n].link[d] = m]

\* The heap with n below its child, and that child.
rotate_single(h, n, d) ==
    LET m == h[n].link[Opposite(d)]
    IN [heap |-> Paint(Paint(Join(Join(h, n, Opposite(d), h[m].link[d]), m, d, n),
                             n, "red"), m, "black"),
        top  |-> m]

rotate_double(h, n, d) ==
    LET r == rotate_single(h, h[n].link[Opposite(d)], Opposite(d))
    IN rotate_single(Join(r.heap, n, Opposite(d), r.top), n, d)

\* The heap at the start of a call, with the tree at the right of the fake root.
Heap == [n \in Slots \cup {FROOT} |->
            IF n = FROOT THEN [Blank EXCEPT !.word = "black", !.link[RIGHT] = root] ELSE mem[n]]

\* The tree of a heap; its root is black.
Finish(h) ==
    LET r == h[FROOT].link[RIGHT]
        g == IF r = NULL THEN h ELSE Paint(h, r, "black")
    IN root' = r /\ mem' = [n \in Slots |-> g[n]]

\* The node with that key that is found from n, or NULL.
RECURSIVE Lookup(_, _)
Lookup(n, key) ==
    IF n = NULL \/ mem[n].value.key = key THEN n
    ELSE Lookup(mem[n].link[Direction(mem[n].value.key < key)], key)

-----------------------------------------------------------------------------
(* The pool.                                                                *)

\* Slot n when its block is new: the slots of a block are linked.
InitSlot(n) == [Blank EXCEPT !.word = IF n % BlockSlots = 0 THEN NULL ELSE n + 1]

\* A block is added when no slot is free.
PoolAddBlock ==
    /\ blocks < MaxBlocks
    /\ blocks' = blocks + 1

\* The pool once a slot can be had: its slots, and the first free one.
Supplied ==
    IF head # NULL THEN [mem |-> mem, head |-> head]
    ELSE LET first == blocks * BlockSlots
         IN [mem  |-> [n \in Slots |-> IF n \in first + 1 .. first + BlockSlots
                                       THEN InitSlot(n) ELSE mem[n]],
             head |-> first + 1]

\* Mutant: a slot is released that is not linked to those that were free.
BugRelease(h, n) == Paint(h, n, NULL)

\* A released slot is the first free one.
Release(h, n) == Paint(h, n, head)

-----------------------------------------------------------------------------
(* Insertion, from the root downwards: q is the node that is reached, p, g  *)
(* and t are those above it.                                                *)

\* The balance at q: red children of a black node give it their color, and of two
\* red nodes in a row one is rotated away.
Balance(s, n) ==
    LET h == IF s.q = NULL THEN Join(s.h, s.p, s.dir, n)
             ELSE IF IsRed(s.h, s.h[s.q].link[LEFT]) /\ IsRed(s.h, s.h[s.q].link[RIGHT])
             THEN Paint(Paint(Paint(s.h, s.q, "red"), s.h[s.q].link[LEFT], "black"),
                        s.h[s.q].link[RIGHT], "black")
             ELSE s.h
        q == IF s.q = NULL THEN n ELSE s.q
        r == IF q = h[s.p].link[s.last] THEN rotate_single(h, s.g, Opposite(s.last))
             ELSE rotate_double(h, s.g, Opposite(s.last))
    IN IF IsRed(h, q) /\ IsRed(h, s.p)
       THEN [s EXCEPT !.q = q, !.h = Join(r.heap, s.t, Direction(h[s.t].link[RIGHT] = s.g), r.top)]
       ELSE [s EXCEPT !.q = q, !.h = h]

\* Mutant: equal keys are turned away from where a lookup would come.
BugBelow(x, y) == x.key > y.key

\* An item y comes to the right of x.
Below(x, y) == x.key < y.key

RECURSIVE Insert2(_, _)
Insert2(s, n) ==
    LET b == Balance(s, n)
        d == Direction(Below(b.h[b.q].value, b.h[n].value))
    IN IF b.q = n THEN b.h
       ELSE Insert2([h |-> b.h, t |-> IF b.g # NULL THEN b.g ELSE b.t, g |-> b.p, p |-> b.q,
                     q |-> b.h[b.q].link[d], dir |-> d, last |-> b.dir], n)

\* The heap with node n, which is red and has no links, in the tree.
Insert(h, n) ==
    IF root = NULL THEN Join(h, FROOT, RIGHT, n)
    ELSE Insert2([h |-> h, t |-> FROOT, g |-> NULL, p |-> NULL, q |-> root,
                  dir |-> LEFT, last |-> LEFT], n)

NewNode(x) == [Blank EXCEPT !.word = "red", !.value = x]

\* The item gets a node of its own.
AddNode(x) ==
    /\ IF head = NULL THEN PoolAddBlock ELSE UNCHANGED blocks
    /\ LET n == Supplied.head
           h == [m \in Slots \cup {FROOT} |->
                    IF m = FROOT THEN Heap[FROOT] ELSE IF m = n THEN NewNode(x)
                    ELSE Supplied.mem[m]]
       IN /\ Finish(Insert(h, n))
          /\ head' = Supplied.mem[n].word
    /\ n_items' = n_items + 1
    /\ result' = x
    /\ UNCHANGED dup

\* There is no slot for it, and no memory for a block.
AddFails(x) ==
    /\ head = NULL
    /\ result' = None
    /\ UNCHANGED <<mem, head, blocks, root, n_items, dup>>

AddReplaces(x, n) ==
    /\ mem' = [mem EXCEPT ![n].value = x]
    /\ result' = mem[n].value
    /\ UNCHANGED <<head, blocks, root, n_items, dup>>

AddRejected(n) ==
    /\ result' = mem[n].value
    /\ UNCHANGED <<mem, head, blocks, root, n_items, dup>>

\* The items in the tree.  The callers do not add one that is there.
RECURSIVE Nodes(_, _)
Nodes(n, depth) ==
    IF n = NULL \/ depth = 0 THEN {}
    ELSE {n} \cup Nodes(mem[n].link[LEFT], depth - 1) \cup Nodes(mem[n].link[RIGHT], depth - 1)

TreeNodes == Nodes(root, Cardinality(Slots))
InTree    == {mem[n].value : n \in TreeNodes}

Add(x) ==
    /\ x \notin InTree
    /\ LET n == IF dup = "allow" THEN NULL ELSE Lookup(root, x.key)
       IN \/ n = NULL /\ (AddNode(x) \/ AddFails(x))
          \/ n # NULL /\ dup = "replace" /\ AddReplaces(x, n)
          \/ n # NULL /\ dup = "reject" /\ AddRejected(n)

-----------------------------------------------------------------------------
(* Removal, from the root downwards: f is the last node found with the key, *)
(* and the node that is removed is the one reached in the end, which is     *)
(* made red on the way.                                                     *)

\* Mutant: the sibling keeps its color.
BugRecolored(h, q, p, s) == Paint(Paint(h, p, "black"), q, "red")

Recolored(h, q, p, s) == Paint(Paint(Paint(h, p, "black"), s, "red"), q, "red")

FixRemove(h, q, p, g, last) ==
    LET s == h[p].link[Opposite(last)]
        d == Direction(h[g].link[RIGHT] = p)
        r == IF IsRed(h, h[s].link[last]) THEN rotate_double(h, p, last)
             ELSE rotate_single(h, p, last)
        k == Join(r.heap, g, d, r.top)
    IN IF s = NULL THEN h
       ELSE IF ~IsRed(h, h[s].link[LEFT]) /\ ~IsRed(h, h[s].link[RIGHT])
       THEN Recolored(h, q, p, s)
       ELSE Paint(Paint(Paint(Paint(k, q, "red"), r.top, "red"),
                        k[r.top].link[LEFT], "black"), k[r.top].link[RIGHT], "black")

\* A step downwards, to q with d the next direction.
Descend(s, key) ==
    LET q == s.h[s.q].link[s.dir]
        x == s.h[q].value.key
        d == Direction(x < key)
        r == rotate_single(s.h, q, d)
        a == [s EXCEPT !.q = q, !.p = s.q, !.g = s.p, !.dir = d,
                       !.f = IF x = key THEN q ELSE s.f]
    IN IF IsRed(s.h, q) \/ IsRed(s.h, s.h[q].link[d]) THEN a
       ELSE IF IsRed(s.h, s.h[q].link[Opposite(d)])
       THEN [a EXCEPT !.h = Join(r.heap, s.q, s.dir, r.top), !.p = r.top]
       ELSE [a EXCEPT !.h = FixRemove(s.h, q, s.q, s.p, s.dir)]

RECURSIVE Descended(_, _)
Descended(s, key) ==
    IF s.h[s.q].link[s.dir] = NULL THEN s ELSE Descended(Descend(s, key), key)

\* Mutant: the item of the node that is found stays, and that of the node reached goes.
BugMoveValue(h, f, q) == h

MoveValue(h, f, q) == [h EXCEPT ![f].value = h[q].value]

Remove(x) ==
    /\ LET s == Descended([h |-> Heap, q |-> FROOT, p |-> NULL, g |-> NULL, f |-> NULL,
                           dir |-> RIGHT], x.key)
           h == Release(MoveValue(s.h, s.f, s.q), s.q)
           only == h[s.q].link[Direction(h[s.q].link[LEFT] = NULL)]
       IN IF root = NULL \/ s.f = NULL
          THEN /\ result' = None
               /\ IF root = NULL THEN UNCHANGED <<mem, root>> ELSE Finish(s.h)
               /\ UNCHANGED <<head, n_items>>
          ELSE /\ result' = s.h[s.f].value
               /\ Finish(Join(h, s.p, Direction(h[s.p].link[RIGHT] = s.q), only))
               /\ head' = s.q
               /\ n_items' = n_items - 1
    /\ UNCHANGED <<blocks, dup>>

-----------------------------------------------------------------------------
(* The other calls.                                                         *)

Get(x) ==
    /\ LET n == Lookup(root, x.key)
       IN result' = IF n = NULL THEN None ELSE mem[n].value
    /\ UNCHANGED <<mem, head, blocks, root, n_items, dup>>

RECURSIVE Leftmost(_)
Leftmost(n) == IF mem[n].link[LEFT] = NULL THEN n ELSE Leftmost(mem[n].link[LEFT])

Peek ==
    /\ result' = IF root = NULL THEN None ELSE mem[Leftmost(root)].value
    /\ UNCHANGED <<mem, head, blocks, root, n_items, dup>>

\* Every node is released, and the pool destroyed.
Clear ==
    /\ mem' = [n \in Slots |-> Blank]
    /\ head' = NULL /\ blocks' = 0
    /\ root' = NULL /\ n_items' = 0
    /\ result' = None
    /\ UNCHANGED dup

Next == \/ \E x \in Items : Add(x)
        \/ \E x \in Items : Remove(x)
        \/ \E x \in Items : Get(x)
        \/ Peek
        \/ Clear

Spec == Init /\ [][Next]_vars

-----------------------------------------------------------------------------
(* Properties.                                                              *)

RECURSIVE InOrder(_, _)
InOrder(n, depth) ==
    IF n = NULL \/ depth = 0 THEN << >>
    ELSE InOrder(mem[n].link[LEFT], depth - 1) \o <<mem[n].value>>
         \o InOrder(mem[n].link[RIGHT], depth - 1)

\* How many black nodes are below n on every way, or -1.
RECURSIVE BlackHeight(_, _)
BlackHeight(n, depth) ==
    IF n = NULL THEN 0
    ELSE IF depth = 0 THEN -1
    ELSE LET a == BlackHeight(mem[n].link[LEFT], depth - 1)
             b == BlackHeight(mem[n].link[RIGHT], depth - 1)
         IN IF a # b \/ a < 0 THEN -1
            ELSE IF mem[n].word = "black" THEN a + 1 ELSE a

\* The tree is balanced and in order after every call: the root is black, no red
\* node has a red child, every way down has as many black nodes, and no item has
\* one with a smaller key after it (cl_rbtree_insert2, cl_rbtree_remove2).
RedBlack ==
    /\ root # NULL => mem[root].word = "black"
    /\ \A n \in TreeNodes : IsRed(mem, n) => \A d \in {LEFT, RIGHT} : ~IsRed(mem, mem[n].link[d])
    /\ BlackHeight(root, Cardinality(Slots)) >= 0
    /\ LET s == InOrder(root, Cardinality(Slots))
       IN \A j \in 1 .. Len(s) - 1 : s[j].key <= s[j + 1].key

RECURSIVE FreeFrom(_, _)
FreeFrom(n, length) ==
    IF n \notin Slots \/ length = 0 THEN << >>
    ELSE <<n>> \o FreeFrom(mem[n].word, length - 1)

\* Every slot of the blocks is either a node of the tree or once in the list of
\* free slots, and there are as many nodes as items: none is lost, none is given
\* out twice, although a node is released while it is still linked into the tree
\* (cl_rbtree_remove2, cl_pool_alloc).
PoolSound ==
    LET free == FreeFrom(head, Cardinality(Slots) + 1)
    IN /\ Cardinality(TreeNodes) = n_items
       /\ {free[j] : j \in 1 .. Len(free)} \cup TreeNodes = 1 .. blocks * BlockSlots
       /\ Len(free) + n_items = blocks * BlockSlots

\* The tree is the collection that its callers take it for: an item stays until it
\* is taken out, a removal takes one item with the key if there is one, and the
\* first item is a least one (cl_rbtree_add, cl_rbtree_remove, cl_rbtree_peek).
Bag == INSTANCE OrderedBag WITH items <- InTree

BagSpec == Bag!Spec
==============================================================================
