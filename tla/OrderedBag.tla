------------------------------ MODULE OrderedBag ------------------------------
(****************************************************************************)
(* What clump.h promises of a red-black tree, for defer.c: a sorted         *)
(* collection of items, of which several may have the same key.  result is  *)
(* what the last call returned.                                             *)
(****************************************************************************)
EXTENDS Integers

CONSTANTS
    Items,   \* what may be put into the tree: records with a key
    None,    \* returned for nothing
    Dups     \* what to do with an item whose key is in the tree already

VARIABLES items, result, dup

vars == <<items, result, dup>>

Equal(x) == {y \in items : y.key = x.key}

Init == items = {} /\ result = None /\ dup \in Dups

\* The item is put in; or is turned away, or takes the place of another.
Add(x) ==
    /\ x \notin items
    /\ \/ /\ dup = "allow" \/ Equal(x) = {}
          /\ items' = items \cup {x} /\ result' = x
       \/ /\ dup = "reject" /\ \E y \in Equal(x) : result' = y
          /\ UNCHANGED items
       \/ /\ dup = "replace"
          /\ \E y \in Equal(x) : result' = y /\ items' = (items \ {y}) \cup {x}
    /\ UNCHANGED dup

\* There was no memory for it.
AddFails(x) == x \notin items /\ result' = None /\ UNCHANGED <<items, dup>>

\* Some item with that key is taken out.
Remove(x) ==
    /\ IF Equal(x) = {} THEN result' = None /\ UNCHANGED items
       ELSE \E y \in Equal(x) : result' = y /\ items' = items \ {y}
    /\ UNCHANGED dup

Get(x) ==
    /\ IF Equal(x) = {} THEN result' = None ELSE result' \in Equal(x)
    /\ UNCHANGED <<items, dup>>

\* Some item that none is before.
Peek ==
    /\ IF items = {} THEN result' = None
       ELSE \E y \in items : result' = y /\ \A z \in items : y.key <= z.key
    /\ UNCHANGED <<items, dup>>

Clear == items' = {} /\ result' = None /\ UNCHANGED dup

Next == \/ \E x \in Items : Add(x) \/ AddFails(x) \/ Remove(x) \/ Get(x)
        \/ Peek
        \/ Clear

Spec == Init /\ [][Next]_vars
==============================================================================
