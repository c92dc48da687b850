----------------------------- MODULE BufferProofs -----------------------------
(****************************************************************************)
(* The buffer, for any size and any bytes, in both of its uses.             *)
(*                                                                          *)
(* OrderInv is KeepsOrder said of each byte, with the type of the history;  *)
(* together with Positions and EmptyHasRoom it is inductive.                   *)
(****************************************************************************)
EXTENDS Buffer, SequenceTheorems, TLAPS

OrderInv ==
    /\ stream \in Seq(Bytes)
    /\ Len(stream) = pin - pout
    /\ \A i \in 1 .. (pin - pout) : stream[i] = mem[pout + i - 1]

Inv == Positions /\ EmptyHasRoom /\ OrderInv

LEMMA OrderIsContent == Positions /\ OrderInv => KeepsOrder
<1> SUFFICES ASSUME Positions, OrderInv PROVE Content = stream
  BY DEF KeepsOrder
<1>1. stream = [i \in 1 .. Len(stream) |-> stream[i]]
  BY DEF OrderInv
<1> QED
  BY <1>1 DEF Content, Positions, OrderInv

LEMMA InitInv == Init => Inv
  BY BufferAssumption
     DEF Init, Inv, Positions, EmptyHasRoom, OrderInv, buffer_available,
         buffer_space

\* What is stored is found where it was stored, and the rest as it was.
LEMMA StoreEffect ==
    ASSUME NEW m \in [Cells -> Bytes], NEW at \in Nat, NEW data \in Seq(Bytes),
           at + Len(data) <= Size
    PROVE  /\ Store(m, at, data) \in [Cells -> Bytes]
           /\ \A i \in 1 .. Len(data) : Store(m, at, data)[at + i - 1] = data[i]
           /\ \A i \in Cells : i < at => Store(m, at, data)[i] = m[i]
<1>1. /\ Size \in Nat /\ Len(data) \in Nat
      /\ \A i \in 1 .. Len(data) : data[i] \in Bytes
  BY BufferAssumption
<1>2. ASSUME NEW i \in Cells
      PROVE  Store(m, at, data)[i] = IF i \in at .. (at + Len(data) - 1)
                                     THEN data[i - at + 1] ELSE m[i]
  BY DEF Store
<1>3. Store(m, at, data) = [i \in Cells |-> Store(m, at, data)[i]]
  BY DEF Store
<1>4. ASSUME NEW i \in Cells
      PROVE  Store(m, at, data)[i] \in Bytes
  <2>1. CASE i \in at .. (at + Len(data) - 1)
    <3>1. i - at + 1 \in 1 .. Len(data)
      BY <1>1, <2>1
    <3> QED
      BY <1>1, <1>2, <2>1, <3>1
  <2>2. CASE i \notin at .. (at + Len(data) - 1)
    BY <1>2, <2>2
  <2> QED
    BY <2>1, <2>2
<1>5. ASSUME NEW i \in 1 .. Len(data)
      PROVE  Store(m, at, data)[at + i - 1] = data[i]
  <2>1. /\ at + i - 1 \in Cells /\ at + i - 1 \in at .. (at + Len(data) - 1)
        /\ (at + i - 1) - at + 1 = i
    BY <1>1 DEF Cells
  <2> QED
    BY <1>2, <2>1
<1>6. ASSUME NEW i \in Cells, i < at
      PROVE  Store(m, at, data)[i] = m[i]
  BY <1>2, <1>6 DEF Cells
<1> QED
  BY <1>3, <1>4, <1>5, <1>6

LEMMA SomeEffect ==
    ASSUME NEW limit \in Nat, NEW data \in Some(limit)
    PROVE  data \in Seq(Bytes) /\ Len(data) \in 1 .. limit
<1>1. PICK n \in 1 .. limit : data \in [1 .. n -> Bytes]
  BY DEF Some
<1>2. data \in Seq(Bytes) /\ Len(data) = n
  BY <1>1, SeqDef
<1> QED
  BY <1>2

\* Data stored behind what is available, with the positions that follow.
LEMMA FillInv ==
    ASSUME Inv,
           NEW STATE m, m \in [Cells -> Bytes], NEW STATE at, at \in Nat,
           NEW STATE out, out \in Nat,
           at - out = buffer_available, out <= at,
           \A i \in 1 .. buffer_available : m[out + i - 1] = mem[pout + i - 1],
           NEW data \in Seq(Bytes), Len(data) >= 1, at + Len(data) <= Size,
           mem' = Store(m, at, data), pin' = at + Len(data), pout' = out,
           stream' = stream \o data
    PROVE  Inv'
<1>0. Size \in Nat \ {0} /\ pin \in 0 .. Size /\ pout \in 0 .. pin
  BY BufferAssumption DEF Inv, Positions
<1>1. stream \in Seq(Bytes) /\ Len(stream) = at - out
      /\ \A i \in 1 .. (at - out) : stream[i] = m[out + i - 1]
  BY <1>0 DEF Inv, OrderInv, buffer_available
<1>2. /\ mem' \in [Cells -> Bytes]
      /\ \A i \in 1 .. Len(data) : mem'[at + i - 1] = data[i]
      /\ \A i \in Cells : i < at => mem'[i] = m[i]
  BY StoreEffect
<1>3. Len(data) \in Nat
  OBVIOUS
<1>4. Positions'
  BY <1>0, <1>2, <1>3 DEF Positions
<1>5. EmptyHasRoom'
  BY <1>3 DEF EmptyHasRoom, buffer_available
<1>6. /\ stream' \in Seq(Bytes)
      /\ Len(stream') = (at - out) + Len(data)
      /\ \A i \in 1 .. Len(stream') :
            stream'[i] = IF i <= at - out THEN stream[i] ELSE data[i - (at - out)]
  <2>1. stream' = stream \o data
    OBVIOUS
  <2>2. /\ stream \o data \in Seq(Bytes)
        /\ Len(stream \o data) = Len(stream) + Len(data)
        /\ \A i \in 1 .. Len(stream) + Len(data) :
              (stream \o data)[i] = IF i <= Len(stream) THEN stream[i]
                                    ELSE data[i - Len(stream)]
    BY <1>1, ConcatProperties
  <2> QED
    BY <1>1, <2>1, <2>2
<1>7. ASSUME NEW i \in 1 .. (pin' - pout')
      PROVE  stream'[i] = mem'[pout' + i - 1]
  <2>1. i \in Int /\ at - out \in Int
    BY <1>3
  <2>2. i <= at - out \/ i > at - out
    BY <2>1
  <2>3. CASE i <= at - out
    <3>1. out + i - 1 \in Cells /\ out + i - 1 < at
      BY <1>0, <1>3, <2>3 DEF Cells
    <3>2. stream'[i] = m[out + i - 1]
      BY <1>1, <1>3, <1>6, <2>3
    <3> QED
      BY <1>2, <3>1, <3>2
  <2>4. CASE i > at - out
    <3> DEFINE j == i - (at - out)
    <3>1. j \in 1 .. Len(data) /\ out + i - 1 = at + j - 1
      BY <1>3, <2>4
    <3>2. stream'[i] = data[j]
      <4>1. i \in 1 .. Len(stream') /\ ~(i <= at - out)
        BY <1>3, <1>6, <2>4
      <4> QED
        BY <1>6, <4>1
    <3> QED
      BY <1>2, <3>1, <3>2
  <2> QED
    BY <2>3, <2>4, <2>2, Zenon
<1>8. OrderInv'
  BY <1>3, <1>6, <1>7 DEF OrderInv
<1> QED
  BY <1>4, <1>5, <1>8 DEF Inv

\* What is available moved to base.
LEMMA CompactedEffect ==
    ASSUME Inv
    PROVE  /\ Compacted \in [Cells -> Bytes]
           /\ \A i \in 1 .. buffer_available : Compacted[i - 1] = mem[pout + i - 1]
<1> DEFINE a == buffer_available
<1>1. /\ Size \in Nat \ {0} /\ pin \in 0 .. Size /\ pout \in 0 .. pin
      /\ mem \in [Cells -> Bytes] /\ a = pin - pout
  BY BufferAssumption DEF Inv, Positions, buffer_available
<1>2. Compacted = [i \in Cells |-> IF i < a THEN mem[pout + i] ELSE mem[i]]
  BY DEF Compacted
<1> HIDE DEF a
<1>3. ASSUME NEW i \in Cells
      PROVE  (IF i < a THEN mem[pout + i] ELSE mem[i]) \in Bytes
  BY <1>1 DEF Cells
<1>4. Compacted \in [Cells -> Bytes]
  BY <1>2, <1>3
<1>5. ASSUME NEW i \in 1 .. a
      PROVE  Compacted[i - 1] = mem[pout + i - 1]
  <2>1. i - 1 \in Cells /\ i - 1 < a /\ pout + (i - 1) = pout + i - 1
    BY <1>1 DEF Cells
  <2> QED
    BY <1>2, <2>1
<1> QED
  BY <1>4, <1>5 DEF a

LEMMA ConsumeInv ==
    ASSUME Inv, NEW n \in Nat, n >= 1, Consume(n)
    PROVE  Inv'
<1>0. /\ Size \in Nat \ {0} /\ pin \in 0 .. Size /\ pout \in 0 .. pin
      /\ mem \in [Cells -> Bytes]
      /\ stream \in Seq(Bytes) /\ Len(stream) = pin - pout
      /\ \A i \in 1 .. (pin - pout) : stream[i] = mem[pout + i - 1]
      /\ n <= pin - pout
  BY BufferAssumption DEF Inv, Positions, OrderInv, Consume, buffer_available
<1>1. stream' = SubSeq(stream, n + 1, Len(stream)) /\ mem' = mem
  BY DEF Consume
<1>2. /\ stream' \in Seq(Bytes)
      /\ Len(stream') = (pin - pout) - n
      /\ \A i \in 1 .. ((pin - pout) - n) : stream'[i] = stream[n + i]
  BY <1>0, <1>1, SubSeqProperties
<1>3. CASE pout + n = pin
  <2>1. pout' = 0 /\ pin' = 0
    BY <1>3 DEF Consume
  <2> QED
    BY <1>0, <1>1, <1>2, <1>3, <2>1
       DEF Inv, Positions, OrderInv, EmptyHasRoom, buffer_available, buffer_space
<1>4. CASE pout + n # pin
  <2>1. pout' = pout + n /\ pin' = pin
    BY <1>4 DEF Consume
  <2>2. Positions' /\ EmptyHasRoom'
    BY <1>0, <1>1, <1>4, <2>1 DEF Positions, EmptyHasRoom, buffer_available
  <2>3. ASSUME NEW i \in 1 .. (pin' - pout')
        PROVE  stream'[i] = mem'[pout' + i - 1]
    <3>1. i \in 1 .. ((pin - pout) - n) /\ n + i \in 1 .. (pin - pout)
          /\ pout' + i - 1 = pout + (n + i) - 1
      BY <1>0, <2>1
    <3> QED
      BY <1>0, <1>1, <1>2, <3>1
  <2> QED
    BY <1>0, <1>2, <2>1, <2>2, <2>3 DEF Inv, OrderInv
<1> QED
  BY <1>3, <1>4

LEMMA ClearInv == ASSUME Inv, Clear PROVE Inv'
  BY BufferAssumption
     DEF Inv, Clear, Positions, OrderInv, EmptyHasRoom, buffer_available,
         buffer_space

LEMMA ReadInv ==
    ASSUME Inv, ReadInPlace \/ ReadCompacted \/ ReadNothing
    PROVE  Inv'
<1>0. /\ Size \in Nat \ {0} /\ pin \in 0 .. Size /\ pout \in 0 .. pin
      /\ mem \in [Cells -> Bytes]
      /\ buffer_available \in Nat /\ buffer_space \in Nat
      /\ Size - buffer_available \in Nat
  BY BufferAssumption DEF Inv, Positions, buffer_available, buffer_space
<1>1. CASE ReadInPlace
  <2>1. PICK data \in Some(buffer_space) :
           /\ mem' = Store(mem, pin, data)
           /\ pin' = pin + Len(data)
           /\ stream' = stream \o data
    BY <1>1 DEF ReadInPlace
  <2>2. data \in Seq(Bytes) /\ Len(data) \in 1 .. buffer_space
    BY <1>0, SomeEffect
  <2>3. pin + Len(data) <= Size /\ Len(data) >= 1
    BY <1>0, <2>2 DEF buffer_space
  <2>4. pout' = pout
    BY <1>1 DEF ReadInPlace
  <2>5. /\ pin \in Nat /\ pout \in Nat /\ pout <= pin
        /\ pin - pout = buffer_available
        /\ \A i \in 1 .. buffer_available : mem[pout + i - 1] = mem[pout + i - 1]
    BY <1>0 DEF buffer_available
  <2> QED
    BY <1>0, <2>1, <2>2, <2>3, <2>4, <2>5, FillInv
<1>2. CASE ReadCompacted
  <2>1. PICK data \in Some(Size - buffer_available) :
           /\ mem' = Store(Compacted, buffer_available, data)
           /\ pin' = buffer_available + Len(data)
           /\ stream' = stream \o data
    BY <1>2 DEF ReadCompacted
  <2>2. data \in Seq(Bytes) /\ Len(data) \in 1 .. (Size - buffer_available)
    BY <1>0, SomeEffect
  <2>3. buffer_available + Len(data) <= Size /\ Len(data) >= 1
    BY <1>0, <2>2
  <2>4. pout' = 0
    BY <1>2 DEF ReadCompacted
  <2>5. \A i \in 1 .. buffer_available :
           Compacted[0 + i - 1] = mem[pout + i - 1]
    BY <1>0, CompactedEffect
  <2>6. Compacted \in [Cells -> Bytes]
    BY CompactedEffect
  <2>7. /\ buffer_available - 0 = buffer_available /\ 0 <= buffer_available
        /\ 0 \in Nat
    BY <1>0
  <2> QED
    BY <1>0, <2>1, <2>2, <2>3, <2>4, <2>5, <2>6, <2>7, FillInv
<1>3. CASE ReadNothing
  <2>1. /\ mem' = Compacted /\ pin' = buffer_available /\ pout' = 0
        /\ stream' = stream
    BY <1>3 DEF ReadNothing
  <2>2. /\ mem' \in [Cells -> Bytes]
        /\ \A i \in 1 .. buffer_available : mem'[i - 1] = mem[pout + i - 1]
    BY <2>1, CompactedEffect
  <2>3. Positions' /\ EmptyHasRoom'
    BY <1>0, <2>1, <2>2
       DEF Positions, EmptyHasRoom, buffer_available, buffer_space
  <2>4. OrderInv'
    BY <1>0, <2>1, <2>2 DEF Inv, OrderInv, buffer_available
  <2> QED
    BY <2>3, <2>4 DEF Inv
<1> QED
  BY <1>1, <1>2, <1>3

LEMMA AppendInv ==
    ASSUME Inv, NEW n \in 1 .. Size, BufferAppend(n)
    PROVE  Inv'
<1>0. /\ Size \in Nat \ {0} /\ pin \in 0 .. Size /\ pout \in 0 .. pin
      /\ mem \in [Cells -> Bytes]
  BY BufferAssumption DEF Inv, Positions
<1>1. PICK data \in [1 .. n -> Bytes] :
         mem' = Store(mem, pin, data) /\ stream' = stream \o data
  BY DEF BufferAppend
<1>2. data \in Seq(Bytes) /\ Len(data) = n
  BY <1>0, <1>1, SeqDef
<1>3. pin' = pin + Len(data) /\ pout' = pout /\ pin + Len(data) <= Size
  BY <1>0, <1>2 DEF BufferAppend, AppendRefused, buffer_space
<1>4. /\ pin \in Nat /\ pout \in Nat /\ pout <= pin /\ Len(data) >= 1
      /\ pin - pout = buffer_available
      /\ \A i \in 1 .. buffer_available : mem[pout + i - 1] = mem[pout + i - 1]
  BY <1>0, <1>2 DEF buffer_available
<1> QED
  BY <1>0, <1>1, <1>2, <1>3, <1>4, FillInv

LEMMA NextInv == Inv /\ [Next]_vars => Inv'
<1> SUFFICES ASSUME Inv, [Next]_vars PROVE Inv'
  OBVIOUS
<1>1. buffer_available \in Nat
  BY BufferAssumption DEF Inv, Positions, buffer_available
<1>2. CASE NextRx /\ UNCHANGED use
  BY <1>1, <1>2, ReadInv, ConsumeInv, ClearInv DEF NextRx
<1>3. CASE NextTx /\ UNCHANGED use
  BY <1>1, <1>3, AppendInv, ConsumeInv, ClearInv DEF NextTx, Write
<1>4. CASE UNCHANGED vars
  BY <1>4
     DEF vars, Inv, Positions, OrderInv, EmptyHasRoom, buffer_available,
         buffer_space
<1> QED
  BY <1>2, <1>3, <1>4 DEF Next

LEMMA InvAlways == Spec => [](Inv /\ use \in {"rx", "tx"})
<1>1. Init => use \in {"rx", "tx"}
  BY DEF Init
<1>2. use \in {"rx", "tx"} /\ [Next]_vars => (use \in {"rx", "tx"})'
  BY DEF Next, vars
<1> QED
  BY <1>1, <1>2, NextInv, InitInv, PTL DEF Spec

\* The positions stay in order, in a buffer of either use: the assertions of
\* buffer.c never fail.
THEOREM PositionsOrdered == Spec => []TypeOK
<1>1. Inv /\ use \in {"rx", "tx"} => TypeOK
  BY DEF Inv, TypeOK
<1> QED
  BY <1>1, InvAlways, PTL

\* No byte is lost, repeated or reordered between the two ends of a buffer.
THEOREM OrderKept == Spec => []KeepsOrder
<1>1. Inv => KeepsOrder
  BY OrderIsContent DEF Inv
<1> QED
  BY <1>1, InvAlways, PTL

\* An empty buffer takes any message up to its size.
THEOREM RoomWhenEmpty == Spec => []EmptyHasRoom
<1>1. Inv => EmptyHasRoom
  BY DEF Inv
<1> QED
  BY <1>1, InvAlways, PTL
==============================================================================
