------------------------------- MODULE CCReader -------------------------------
(****************************************************************************)
(* ccreader.c: the links from a reader to its writers.  Each has a range of *)
(* receivers and a shift; the packet is given to all writers, one after the *)
(* other, with its receiver changed in place.                               *)
(*                                                                          *)
(* A directive is a record of the numbers read from its range (none of "-", *)
(* one of "7", two of "1-8", the second negative), the shift, and how many  *)
(* receivers its writer has.                                                *)
(****************************************************************************)
EXTENDS Integers, Sequences, SequencesExt

MAX_CAMERA == 1024

ccnode_init(d) == [range_first |-> 1, range_last |-> MAX_CAMERA, shift |-> d.shift,
                   n_rcv |-> d.n_rcv]

ccnode_set_range(node, range) ==
    CASE Len(range) = 2 -> [node EXCEPT !.range_first = range[1], !.range_last = -range[2]]
      [] Len(range) = 1 -> [node EXCEPT !.range_first = range[1], !.range_last = range[1]]
      [] OTHER          -> node

\* The links of a reader with these directives: the last comes first.
Links(directives) ==
    Reverse([j \in 1 .. Len(directives) |->
                ccnode_set_range(ccnode_init(directives[j]), directives[j].range)])

\* The receiver of the reader's packet: the first of the last directive's range.
FirstCamera(directives) == Links(directives)[1].range_first

\* Mutant: there is always one before.
BugPreviousCamera(r) == r - 1

ccreader_previous_camera(r) == IF r > 0 THEN r - 1 ELSE r
ccreader_next_camera(r) == IF r < MAX_CAMERA THEN r + 1 ELSE r

\* The receiver for a link; 0 to drop the packet.
ccnode_get_receiver(node, r) ==
    IF r \notin node.range_first .. node.range_last \/ r + node.shift < 0 THEN 0
    ELSE r + node.shift

-----------------------------------------------------------------------------
(* Giving a packet for receiver r to every writer: w is the receiver it has *)
(* by then, and to whom it was written so far.                              *)

\* A writer takes the packet as it finds it (ccwriter_do_write).
ccwriter_do_write(w, k, node) ==
    IF w.receiver \in 1 .. node.n_rcv
    THEN [w EXCEPT !.written = Append(@, [link |-> k, receiver |-> w.receiver])]
    ELSE w

DoWriter(w, k, node, r) ==
    LET q == ccnode_get_receiver(node, r)
    IN IF q = 0 THEN w ELSE ccwriter_do_write([w EXCEPT !.receiver = q], k, node)

DoWriters(links, r) ==
    LET after[k \in 0 .. Len(links)] ==
            IF k = 0 THEN [receiver |-> r, written |-> << >>]
            ELSE DoWriter(after[k - 1], k, links[k], r)
    IN after[Len(links)]

\* Mutant: the packet keeps the receiver of the last writer.
BugDoWriters(links, r) == DoWriters(links, r)

\* What is left: the packet has its own receiver again.
ccreader_do_writers(links, r) == [DoWriters(links, r) EXCEPT !.receiver = r]
==============================================================================
