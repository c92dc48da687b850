-------------------------------- MODULE Buffer --------------------------------
(****************************************************************************)
(* buffer.c: the buffer of a channel, an array with an input and an output  *)
(* position.  A receive buffer is filled from a descriptor and consumed by  *)
(* the protocol decoders; a transmit buffer is appended to by the encoders  *)
(* and written to a descriptor.  Pointers are offsets from base.            *)
(****************************************************************************)
EXTENDS Integers, Sequences

CONSTANTS Size,   \* BUFFER_SIZE, end - base
          Bytes   \* the values of a byte

ASSUME BufferAssumption == Size \in Nat \ {0} /\ Bytes # {}

VARIABLES
    use,    \* "rx" or "tx": receive or transmit buffer, for good
    mem,    \* the memory from base to end
    pin,    \* input position
    pout,   \* output position
    stream  \* history: the bytes put in and neither taken out nor cleared

vars == <<use, mem, pin, pout, stream>>

Cells == 0 .. (Size - 1)

buffer_available == pin - pout
buffer_space     == Size - pin

\* The bytes from pout to pin.
Content == [i \in 1 .. (pin - pout) |-> mem[pout + i - 1]]

\* malloc leaves the memory as it finds it.
Init == /\ use \in {"rx", "tx"}
        /\ mem \in [Cells -> Bytes]
        /\ pin = 0
        /\ pout = 0
        /\ stream = <<>>

\* Bytes are stored from position at on.
Store(m, at, data) ==
    [i \in Cells |-> IF i \in at .. (at + Len(data) - 1)
                     THEN data[i - at + 1] ELSE m[i]]

\* Mutant: the positions are reset, the bytes not moved.
BugCompacted == mem

\* buffer_compact, as far as mem: what is available moves to base.
Compacted == [i \in Cells |-> IF i < buffer_available THEN mem[pout + i] ELSE mem[i]]

\* Between one byte and limit of them.
Some(limit) == UNION {[1 .. n -> Bytes] : n \in 1 .. limit}

\* buffer_read, with room after pin: the descriptor gives data.
ReadInPlace ==
    /\ buffer_space > 0
    /\ \E data \in Some(buffer_space) :
          /\ mem' = Store(mem, pin, data)
          /\ pin' = pin + Len(data)
          /\ stream' = stream \o data
    /\ UNCHANGED pout

\* Mutant: the output position stays behind in the compaction.
BugReadCompacted ==
    /\ buffer_space = 0
    /\ pout > 0
    /\ \E data \in Some(Size - buffer_available) :
          /\ mem' = Store(Compacted, buffer_available, data)
          /\ pin' = buffer_available + Len(data)
          /\ stream' = stream \o data
    /\ UNCHANGED pout

\* buffer_read with none, but some before pout.
ReadCompacted ==
    /\ buffer_space = 0
    /\ pout > 0
    /\ \E data \in Some(Size - buffer_available) :
          /\ mem' = Store(Compacted, buffer_available, data)
          /\ pin' = buffer_available + Len(data)
          /\ stream' = stream \o data
    /\ pout' = 0

\* buffer_read with no room, or when the descriptor gives nothing; the room is
\* looked for before the descriptor is read.
ReadNothing ==
    /\ buffer_space = 0
    /\ mem' = Compacted
    /\ pin' = buffer_available
    /\ pout' = 0
    /\ UNCHANGED stream

\* buffer_append, and the encoder that fills what it returns.  There is no
\* compaction, and a request that does not fit is refused.
AppendRefused(n) == buffer_space < n

BufferAppend(n) ==
    /\ ~AppendRefused(n)
    /\ \E data \in [1 .. n -> Bytes] :
          /\ mem' = Store(mem, pin, data)
          /\ stream' = stream \o data
    /\ pin' = pin + n
    /\ UNCHANGED pout

\* Mutant: an emptied buffer is left where it is.
BugConsume(n) ==
    /\ n <= buffer_available
    /\ pout' = pout + n /\ UNCHANGED pin
    /\ stream' = SubSeq(stream, n + 1, Len(stream))
    /\ UNCHANGED mem

\* buffer_consume: an emptied buffer starts again at base.
Consume(n) ==
    /\ n <= buffer_available
    /\ IF pout + n = pin
       THEN pout' = 0 /\ pin' = 0
       ELSE pout' = pout + n /\ UNCHANGED pin
    /\ stream' = SubSeq(stream, n + 1, Len(stream))
    /\ UNCHANGED mem

\* buffer_write: the descriptor takes some of what is available.
Write == \E n \in 1 .. buffer_available : Consume(n)

\* buffer_clear.
Clear == /\ pin' = 0
         /\ pout' = 0
         /\ stream' = <<>>
         /\ UNCHANGED mem

\* The buffer of a channel's input.
NextRx == \/ ReadInPlace
          \/ ReadCompacted
          \/ ReadNothing
          \/ \E n \in 1 .. buffer_available : Consume(n)
          \/ Clear

\* The buffer of a channel's output.
NextTx == \/ \E n \in 1 .. Size : BufferAppend(n)
          \/ Write
          \/ Clear

Next == /\ \/ use = "rx" /\ NextRx
           \/ use = "tx" /\ NextTx
        /\ UNCHANGED use

Spec == Init /\ [][Next]_vars

-----------------------------------------------------------------------------
(* Properties.                                                              *)

\* The positions stay in order inside the memory.
Positions == /\ mem \in [Cells -> Bytes]
             /\ pin \in 0 .. Size
             /\ pout \in 0 .. pin

\* Every variable has its type, and the positions what the assertions of
\* buffer_available, buffer_space and buffer_consume test.
TypeOK == use \in {"rx", "tx"} /\ Positions

\* What is between the positions is what was put in, in order, across every
\* mixture of fills, partial reads, compactions and clears (buffer_compact).
KeepsOrder == Content = stream

\* An empty buffer has all its room again, so that a message is refused by
\* buffer_append only while an earlier one has yet to be written.
EmptyHasRoom == buffer_available = 0 => buffer_space = Size
==============================================================================
