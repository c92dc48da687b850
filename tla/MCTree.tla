-------------------------------- MODULE MCTree --------------------------------
(* Two pairs of the items have the same key.  The view is the tree without the *)
(* numbers of its slots, which are as good as any others.                      *)
EXTENDS Tree

I(key, id) == [key |-> key, id |-> id]

MCItems == {I(1, 1), I(2, 1), I(2, 2), I(3, 1), I(4, 1), I(4, 2), I(5, 1)}

MCDups == {"allow", "reject", "replace"}

RECURSIVE Shape(_, _)
Shape(n, depth) ==
    IF n = NULL \/ depth = 0 THEN << >>
    ELSE << mem[n].word, mem[n].value, Shape(mem[n].link[LEFT], depth - 1),
            Shape(mem[n].link[RIGHT], depth - 1) >>

MCView == << Shape(root, Cardinality(Slots)), Len(FreeFrom(head, Cardinality(Slots))),
             head = NULL, blocks, n_items, result, dup >>
==============================================================================
