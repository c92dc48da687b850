--------------------------- MODULE ManchesterProofs ---------------------------
(****************************************************************************)
(* What manchester.c keeps, for any receivers, packets, and number of       *)
(* messages, and whatever bytes the line loses: the codes of a message are  *)
(* decoded to what was encoded, and the reader finds its way back to the    *)
(* messages after a loss.                                                   *)
(****************************************************************************)
EXTENDS Manchester, SequenceTheorems, TLAPS

LEMMA Tables ==
    /\ DOMAIN PT = 0 .. 3 /\ DOMAIN LENS = 0 .. 7 /\ DOMAIN AUX = 0 .. 7
    /\ DOMAIN SPEED = 0 .. 7
BY DEF PT, LENS, AUX, SPEED, SPEED_FULL

LEMMA CodeInTable ==
    ASSUME NEW table, NEW f, f \in Codes(table)
    PROVE  Code(table, f) \in DOMAIN table
BY DEF Code, Codes

\* The bytes of a message: only the first has the flag.
LEMMA ByteRanges ==
    ASSUME NEW m \in Messages
    PROVE  /\ encode_message(m)[1] \in 128 .. 143
           /\ encode_message(m)[2] \in 0 .. 63
           /\ encode_message(m)[3] \in 0 .. 127
<1> DEFINE r == m.receiver - 1
<1>1. r \in 0 .. 1023 /\ m.cmd.extra \in 0 .. 7 /\ m.cmd.cmnd \in 0 .. 3
  BY DEF Messages, Commands, MANCHESTER_MAX_ADDRESS
<1> HIDE DEF r
<1>2. (r \div 64) % 16 \in 0 .. 15 /\ (r \div 32) % 2 \in 0 .. 1 /\ r % 32 \in 0 .. 31
  BY <1>1
<1>3. encode_message(m) = << 128 + ((r \div 64) % 16),
                             ((r \div 32) % 2) + 2 * m.cmd.extra + 16 * m.cmd.cmnd,
                             4 * (r % 32) + (IF m.cmd.pt THEN 2 ELSE 0) >>
  BY DEF encode_message, r, FLAG, PT_COMMAND
<1> QED
  BY <1>1, <1>2, <1>3

LEMMA FlagPlace ==
    ASSUME NEW m \in Messages, NEW q \in 1 .. SIZE_MSG
    PROVE  /\ encode_message(m)[q] \in 0 .. 255
           /\ encode_message(m)[q] >= FLAG <=> q = 1
<1>1. q = 1 \/ q = 2 \/ q = 3
  BY DEF SIZE_MSG
<1> QED
  BY <1>1, ByteRanges DEF FLAG

\* What is encoded in the three bytes of a message is decoded from them: the
\* receiver, all of 1 to 1024, and the command (encode_receiver and the
\* encode_..._function family against decode_receiver, decode_command,
\* pt_extra and is_pan_tilt_command).
THEOREM MessageRoundTrip ==
    ASSUME NEW m \in Messages
    PROVE  LET b == encode_message(m)
           IN /\ decode_receiver(b) = m.receiver
              /\ is_pan_tilt_command(b) = m.cmd.pt
              /\ decode_command(b) = m.cmd.cmnd
              /\ pt_extra(b) = m.cmd.extra
<1> DEFINE r == m.receiver - 1
           x == m.cmd.extra
           c == m.cmd.cmnd
           h == (r \div 64) % 16
           l == (r \div 32) % 2
           s == r % 32
           t == IF m.cmd.pt THEN 2 ELSE 0
<1>1. r \in 0 .. 1023 /\ x \in 0 .. 7 /\ c \in 0 .. 3 /\ m.cmd.pt \in BOOLEAN
      /\ m.receiver = r + 1
  BY DEF Messages, Commands, MANCHESTER_MAX_ADDRESS
<1>2. encode_message(m) = << 128 + h, l + 2 * x + 16 * c, 4 * s + t >>
  BY DEF encode_message, FLAG, PT_COMMAND
<1> HIDE DEF r, x, c
<1>3. r = 64 * h + 32 * l + s /\ h \in 0 .. 15 /\ l \in 0 .. 1 /\ s \in 0 .. 31
  BY <1>1, SMTT(30)
<1>4. t \in {0, 2} /\ (t = 2 <=> m.cmd.pt)
  BY <1>1
<1> HIDE DEF h, l, s, t
<1>5. decode_receiver(encode_message(m)) = m.receiver
  <2>1. (128 + h) % 16 = h
    BY <1>3
  <2>2. (l + 2 * x + 16 * c) % 2 = l
    BY <1>1, <1>3
  <2>3. ((4 * s + t) \div 4) % 32 = s
    BY <1>3, <1>4
  <2> QED
    BY <1>1, <1>2, <1>3, <2>1, <2>2, <2>3 DEF decode_receiver
<1>6. is_pan_tilt_command(encode_message(m)) = m.cmd.pt
  <2>1. ((4 * s + t) \div 2) % 2 = 1 <=> t = 2
    BY <1>3, <1>4
  <2> QED
    BY <1>1, <1>2, <1>4, <2>1 DEF is_pan_tilt_command
<1>7. decode_command(encode_message(m)) = c
  <2>1. ((l + 2 * x + 16 * c) \div 16) % 4 = c
    BY <1>1, <1>3
  <2> QED
    BY <1>2, <2>1 DEF decode_command
<1>8. pt_extra(encode_message(m)) = x
  <2>1. ((l + 2 * x + 16 * c) \div 2) % 8 = x
    BY <1>1, <1>3
  <2> QED
    BY <1>2, <2>1 DEF pt_extra
<1> QED
  BY <1>5, <1>6, <1>7, <1>8 DEF x, c

-----------------------------------------------------------------------------
(* The writer's messages.                                                   *)

LEMMA SpeedLevel ==
    ASSUME NEW s
    PROVE  manchester_encode_speed(s) \in 0 .. SPEED_FULL
BY DEF manchester_encode_speed, SPEED_FULL

LEMMA FunctionType ==
    ASSUME NEW modes
    PROVE  encode_function(modes) \in Seq(Commands)
<1>1. CASE modes \cap Codes(LENS) # {}
  <2> DEFINE f == CHOOSE f \in modes \cap Codes(LENS) : TRUE
  <2>1. f \in Codes(LENS)
    BY <1>1
  <2>2. Code(LENS, f) \in 0 .. 7
    BY <2>1, CodeInTable, Tables
  <2>3. [pt |-> FALSE, cmnd |-> EX_LENS, extra |-> Code(LENS, f)] \in Commands
    BY <2>2 DEF Commands, EX_LENS
  <2> QED
    BY <1>1, <2>3 DEF encode_function
<1>2. CASE modes \cap Codes(LENS) = {} /\ modes \cap Codes(AUX) # {}
  <2> DEFINE f == CHOOSE f \in modes \cap Codes(AUX) : TRUE
  <2>1. f \in Codes(AUX)
    BY <1>2
  <2>2. Code(AUX, f) \in 0 .. 7
    BY <2>1, CodeInTable, Tables
  <2>3. [pt |-> FALSE, cmnd |-> EX_AUX, extra |-> Code(AUX, f)] \in Commands
    BY <2>2 DEF Commands, EX_AUX
  <2> QED
    BY <1>2, <2>3 DEF encode_function
<1>3. CASE modes \cap Codes(LENS) = {} /\ modes \cap Codes(AUX) = {}
  BY <1>3 DEF encode_function
<1> QED
  BY <1>1, <1>2, <1>3

LEMMA PanTiltType ==
    ASSUME NEW modes, NEW s
    PROVE  encode_pan_tilt(modes, s) \in Seq(Commands)
<1>1. CASE /\ modes \cap Codes(PT) # {}
           /\ manchester_encode_speed(s) # SPEED_FULL
  <2> DEFINE f == CHOOSE f \in modes \cap Codes(PT) : TRUE
  <2>1. f \in Codes(PT)
    BY <1>1
  <2>2. Code(PT, f) \in 0 .. 3
    BY <2>1, CodeInTable, Tables
  <2>3. [pt |-> TRUE, cmnd |-> Code(PT, f), extra |-> manchester_encode_speed(s)]
            \in Commands
    BY <2>2, SpeedLevel DEF Commands, SPEED_FULL
  <2> QED
    BY <1>1, <2>3 DEF encode_pan_tilt
<1> QED
  BY <1>1, FunctionType DEF encode_pan_tilt

LEMMA PresetType ==
    ASSUME NEW p, p.preset \in Nat
    PROVE  encode_preset(p) \in Seq(Commands)
<1>1. CASE p.preset \in 1 .. 8
  <2>1. p.preset - 1 \in 0 .. 7
    BY <1>1
  <2>2. [pt |-> FALSE, extra |-> p.preset - 1,
         cmnd |-> IF ccpacket_get_preset_mode(p) = {"preset_recall"}
                  THEN EX_RECALL ELSE EX_STORE] \in Commands
    BY <2>1 DEF Commands, EX_RECALL, EX_STORE
  <2> QED
    BY <2>2 DEF encode_preset
<1> QED
  BY <1>1 DEF encode_preset

LEMMA WriteType ==
    ASSUME NEW p \in Packets
    PROVE  manchester_do_write(p) \in Seq(Commands)
<1> DEFINE pan  == IF p.pan # 0 THEN encode_pan_tilt(Get(p, "pan"), p.pan) ELSE << >>
           tilt == IF p.tilt # 0 THEN encode_pan_tilt(Get(p, "tilt"), p.tilt) ELSE << >>
           zoom == encode_function(Get(p, "zoom"))
           focus == encode_function(Get(p, "focus"))
           iris == encode_function(Get(p, "iris"))
           aux == encode_aux(p)
           preset == encode_preset(p)
<1>1. pan \in Seq(Commands) /\ tilt \in Seq(Commands)
  BY PanTiltType
<1>2. zoom \in Seq(Commands) /\ focus \in Seq(Commands) /\ iris \in Seq(Commands)
  BY FunctionType
<1>3. aux \in Seq(Commands)
  BY FunctionType DEF encode_aux
<1>4. preset \in Seq(Commands)
  BY PresetType, ManchesterAssumption
<1>5. manchester_do_write(p) = pan \o tilt \o zoom \o focus \o iris \o aux \o preset
  BY DEF manchester_do_write
<1> HIDE DEF pan, tilt, zoom, focus, iris, aux, preset
<1> QED
  BY <1>1, <1>2, <1>3, <1>4, <1>5

-----------------------------------------------------------------------------
(* The invariant of the line and its reader.                                *)

Unhurt(k) == k \in 1 .. Len(sent) /\ k \notin hurt

OnLine(i) == \E j \in 1 .. Len(line) : line[j] = i

\* The bytes are in the order in which they were sent.
Sorted == \A i, j \in 1 .. Len(line) : i < j => line[i] < line[j]

\* A byte of a whole message is on the line, or before all that is.
Suffix ==
    \A i \in 0 .. SIZE_MSG * Len(sent) - 1 :
        Unhurt(MessageOf(i)) => OnLine(i) \/ \A j \in 1 .. Len(line) : i < line[j]

\* A message that follows a whole one begins where the reader can see it.
WholeOrOwn ==
    \A k \in 1 .. Len(sent) :
        Unhurt(k) /\ (k > 1 => Unhurt(k - 1)) => k \in own \/ OnLine(3 * (k - 1))

IInv == TypeOK /\ Sorted /\ Suffix /\ WholeOrOwn

LEMMA ByteNumbers ==
    ASSUME NEW n \in Nat, NEW i \in 0 .. 3 * n - 1
    PROVE  /\ MessageOf(i) \in 1 .. n
           /\ PlaceOf(i) \in 1 .. 3
           /\ i = 3 * (MessageOf(i) - 1) + PlaceOf(i) - 1
BY DEF MessageOf, PlaceOf, SIZE_MSG

LEMMA MessageBytes ==
    ASSUME NEW k \in Nat \ {0}
    PROVE  /\ MessageOf(3 * (k - 1)) = k
           /\ MessageOf(3 * (k - 1) + 1) = k
           /\ MessageOf(3 * (k - 1) + 2) = k
           /\ PlaceOf(3 * (k - 1)) = 1
BY DEF MessageOf, PlaceOf, SIZE_MSG

\* A byte has the flag just when it is the first of its message.
LEMMA FlagFirst ==
    ASSUME TypeOK, NEW i \in Nat, i < 3 * Len(sent)
    PROVE  /\ Byte(i) \in 0 .. 255
           /\ Byte(i) >= FLAG <=> PlaceOf(i) = 1
<1>1. MessageOf(i) \in 1 .. Len(sent) /\ PlaceOf(i) \in 1 .. 3
  <2>1. Len(sent) \in Nat /\ i \in 0 .. 3 * Len(sent) - 1
    BY DEF TypeOK
  <2> QED
    BY <2>1, ByteNumbers
<1>2. sent[MessageOf(i)] \in Messages
  BY <1>1 DEF TypeOK
<1> QED
  BY <1>1, <1>2, FlagPlace DEF Byte, SIZE_MSG

LEMMA InitInv == Init => IInv
<1> SUFFICES ASSUME Init PROVE IInv
  OBVIOUS
<1>1. TypeOK
  <2>1. sent = << >> /\ line = << >> /\ Len(sent) = 0 /\ Len(line) = 0
    BY DEF Init
  <2>2. sent \in Seq(Messages) /\ line \in Seq(0 .. SIZE_MSG * Len(sent) - 1)
    BY <2>1
  <2>3. got \in 0 .. Len(line) /\ receiver \in 0 .. MANCHESTER_MAX_ADDRESS
    BY <2>1 DEF Init, MANCHESTER_MAX_ADDRESS
  <2>4. hurt = {} /\ own = {} /\ reading = FALSE
    BY DEF Init
  <2> QED
    BY <2>2, <2>3, <2>4 DEF TypeOK
<1> QED
  BY <1>1 DEF Init, IInv, Sorted, Suffix, WholeOrOwn, Unhurt, OnLine, SIZE_MSG

\* What is added behind a sequence comes after all of it.
LEMMA BytesBehind ==
    ASSUME NEW S, NEW s \in Seq(S), NEW t \in Seq(S)
    PROVE  /\ s \o t \in Seq(S) /\ Len(s \o t) = Len(s) + Len(t)
           /\ \A j \in 1 .. Len(s) : (s \o t)[j] = s[j]
           /\ \A j \in 1 .. Len(t) : (s \o t)[Len(s) + j] = t[j]
<1>1. Len(s) \in Nat /\ Len(t) \in Nat
  OBVIOUS
<1>2. /\ s \o t \in Seq(S) /\ Len(s \o t) = Len(s) + Len(t)
      /\ \A i \in 1 .. Len(s) + Len(t) :
            (s \o t)[i] = IF i <= Len(s) THEN s[i] ELSE t[i - Len(s)]
  BY ConcatProperties
<1>3. ASSUME NEW j \in 1 .. Len(s) PROVE (s \o t)[j] = s[j]
  BY <1>1, <1>2
<1>4. ASSUME NEW j \in 1 .. Len(t) PROVE (s \o t)[Len(s) + j] = t[j]
  <2>1. Len(s) + j \in 1 .. Len(s) + Len(t) /\ ~(Len(s) + j <= Len(s)) /\ (Len(s) + j) - Len(s) = j
    BY <1>1
  <2> QED
    BY <1>2, <2>1
<1> QED
  BY <1>2, <1>3, <1>4

\* The properties of the line are kept when bytes are added behind it.
LEMMA SendStep ==
    ASSUME IInv, NEW r \in Receivers, NEW p \in Packets, Send(r, p)
    PROVE  IInv'
<1> DEFINE cs == manchester_do_write(p)
           n  == Len(sent)
           c  == Len(cs)
           ms == [j \in 1 .. c |-> [receiver |-> r, cmd |-> cs[j]]]
           bs == [j \in 1 .. 3 * c |-> 3 * n + j - 1]
<1>1. cs \in Seq(Commands) /\ c \in Nat /\ n \in Nat
  BY WriteType DEF IInv, TypeOK
<1>2. sent' = sent \o ms /\ line' = line \o bs
      /\ UNCHANGED <<got, reading, receiver, pkt, hurt, own, done>>
  BY DEF Send, SIZE_MSG
<1>3. ms \in Seq(Messages) /\ Len(ms) = c
  <2>1. \A j \in 1 .. c : cs[j] \in Commands
    BY <1>1
  <2>2. r \in 1 .. MANCHESTER_MAX_ADDRESS
    BY ManchesterAssumption
  <2>3. \A j \in 1 .. c : [receiver |-> r, cmd |-> cs[j]] \in Messages
    BY <2>1, <2>2 DEF Messages
  <2> QED
    BY <1>1, <2>3
<1> HIDE DEF cs
<1>4. sent' \in Seq(Messages) /\ Len(sent') = n + c
  BY <1>1, <1>2, <1>3 DEF IInv, TypeOK
<1>5. bs \in Seq(0 .. 3 * (n + c) - 1) /\ Len(bs) = 3 * c
  BY <1>1
<1>6. /\ line \in Seq(0 .. 3 * n - 1)
      /\ Len(line) \in Nat
      /\ \A j \in 1 .. Len(line) : line[j] \in 0 .. 3 * n - 1
  BY DEF IInv, TypeOK, SIZE_MSG
<1>7. line \in Seq(0 .. 3 * (n + c) - 1)
  <2>1. 0 .. 3 * n - 1 \subseteq 0 .. 3 * (n + c) - 1
    BY <1>1
  <2> QED
    BY <1>6, <2>1
<1>8. /\ line' \in Seq(0 .. 3 * (n + c) - 1)
      /\ Len(line') = Len(line) + 3 * c
      /\ \A j \in 1 .. Len(line) : line'[j] = line[j]
      /\ \A j \in 1 .. 3 * c : line'[Len(line) + j] = 3 * n + j - 1
  <2> DEFINE S == 0 .. 3 * (n + c) - 1
  <2>1. \A j \in 1 .. 3 * c : bs[j] = 3 * n + j - 1
    OBVIOUS
  <2>2. line' = line \o bs /\ line \in Seq(S) /\ bs \in Seq(S) /\ Len(bs) = 3 * c
    BY <1>2, <1>5, <1>7
  <2> HIDE DEF S, c, n, bs
  <2>3. line \o bs \in Seq(S) /\ Len(line \o bs) = Len(line) + Len(bs)
    BY <2>2, BytesBehind
  <2>4. \A j \in 1 .. Len(line) : (line \o bs)[j] = line[j]
    BY <2>2, BytesBehind
  <2>5. \A j \in 1 .. Len(bs) : (line \o bs)[Len(line) + j] = bs[j]
    BY <2>2, BytesBehind
  <2> QED
    BY <2>1, <2>2, <2>3, <2>4, <2>5 DEF S
<1> HIDE DEF c, n, ms, bs
<1>9. TypeOK'
  <2>1. hurt' \subseteq 1 .. Len(sent') /\ own' \subseteq 1 .. Len(sent')
    BY <1>1, <1>2, <1>4 DEF IInv, TypeOK, n
  <2>2. got' \in 0 .. Len(line')
    BY <1>1, <1>2, <1>6, <1>8 DEF IInv, TypeOK
  <2> QED
    BY <1>2, <1>4, <1>8, <2>1, <2>2 DEF IInv, TypeOK, SIZE_MSG
<1>a. ASSUME NEW j \in 1 .. Len(line')
      PROVE  \/ j \in 1 .. Len(line) /\ line'[j] = line[j] /\ line[j] \in 0 .. 3 * n - 1
             \/ /\ j > Len(line) /\ j - Len(line) \in 1 .. 3 * c
                /\ line'[j] = 3 * n + (j - Len(line)) - 1
  <2>1. CASE j <= Len(line)
    BY <1>6, <1>8, <2>1
  <2>2. CASE j > Len(line)
    <3>1. j \in 1 .. Len(line) + 3 * c
      BY <1>8
    <3>2. j - Len(line) \in 1 .. 3 * c
      BY <1>1, <1>6, <2>2, <3>1
    <3>3. line'[Len(line) + (j - Len(line))] = 3 * n + (j - Len(line)) - 1
      BY <1>8, <3>2
    <3>4. Len(line) + (j - Len(line)) = j
      BY <1>6, <3>1
    <3> QED
      BY <2>2, <3>2, <3>3, <3>4
  <2> QED
    BY <1>6, <2>1, <2>2
<1>10. Sorted'
  <2> SUFFICES ASSUME NEW i \in 1 .. Len(line'), NEW j \in 1 .. Len(line'), i < j
               PROVE  line'[i] < line'[j]
    BY DEF Sorted
  <2>1. CASE j \in 1 .. Len(line)
    <3>1. i \in 1 .. Len(line)
      BY <1>6, <2>1
    <3>2. line[i] < line[j]
      BY <2>1, <3>1 DEF IInv, Sorted
    <3> QED
      BY <1>8, <2>1, <3>1, <3>2
  <2>2. CASE j > Len(line)
    <3>1. i \in Nat /\ j \in Nat
      BY <1>9 DEF TypeOK
    <3>2. line'[j] = 3 * n + (j - Len(line)) - 1
      BY <1>6, <1>a, <2>2, <3>1
    <3>3. line'[i] \in Nat /\ (line'[i] < 3 * n \/ line'[i] = 3 * n + (i - Len(line)) - 1)
      BY <1>1, <1>6, <1>a, <3>1, SMTT(30)
    <3> QED
      BY <1>1, <1>6, <2>2, <3>1, <3>2, <3>3
  <2> QED
    BY <1>6, <1>8, <2>1, <2>2
<1>11. \A i : OnLine(i) => OnLine(i)'
  BY <1>1, <1>6, <1>8 DEF OnLine
<1>12. \A i \in 3 * n .. 3 * (n + c) - 1 : OnLine(i)'
  <2> SUFFICES ASSUME NEW i \in 3 * n .. 3 * (n + c) - 1
               PROVE  OnLine(i)'
    OBVIOUS
  <2>1. i - 3 * n + 1 \in 1 .. 3 * c
    BY <1>1
  <2>2. line'[Len(line) + (i - 3 * n + 1)] = i
    <3>1. line'[Len(line) + (i - 3 * n + 1)] = 3 * n + (i - 3 * n + 1) - 1
      BY <1>8, <2>1
    <3> QED
      BY <1>1, <3>1
  <2>3. Len(line) + (i - 3 * n + 1) \in 1 .. Len(line')
    BY <1>1, <1>6, <1>8, <2>1
  <2> QED
    BY <2>2, <2>3 DEF OnLine
<1>13. Suffix'
  <2> SUFFICES ASSUME NEW i \in 0 .. 3 * (n + c) - 1, Unhurt(MessageOf(i))',
                      ~OnLine(i)'
               PROVE  \A j \in 1 .. Len(line') : i < line'[j]
    BY <1>4 DEF Suffix, SIZE_MSG, MessageOf
  <2>1. i \in 0 .. 3 * n - 1
    BY <1>1, <1>12
  <2>2. Unhurt(MessageOf(i))
    <3>1. MessageOf(i) \in 1 .. n
      BY <1>1, <2>1, ByteNumbers
    <3>2. MessageOf(i) \notin hurt
      BY <1>2 DEF Unhurt
    <3> QED
      BY <3>1, <3>2 DEF Unhurt, n
  <2>3. \A j \in 1 .. Len(line) : i < line[j]
    <3>1. i \in 0 .. SIZE_MSG * Len(sent) - 1
      BY <1>1, <2>1 DEF n, SIZE_MSG
    <3>2. ~OnLine(i)
      BY <1>11
    <3> QED
      BY <2>2, <3>1, <3>2 DEF IInv, Suffix
  <2> TAKE j \in 1 .. Len(line')
  <2>4. j \in Nat /\ i \in Nat /\ i < 3 * n
    BY <1>1, <1>9, <2>1 DEF TypeOK
  <2>5. CASE j \in 1 .. Len(line)
    BY <1>8, <2>3, <2>5
  <2>6. CASE j - Len(line) \in 1 .. 3 * c /\ line'[j] = 3 * n + (j - Len(line)) - 1
    <3>1. j - Len(line) >= 1 /\ j - Len(line) \in Nat
      BY <1>1, <2>6
    <3> QED
      BY <1>1, <2>4, <2>6, <3>1
  <2> QED
    BY <1>a, <2>5, <2>6
<1>14. WholeOrOwn'
  <2> SUFFICES ASSUME NEW k \in 1 .. n + c, Unhurt(k)', k > 1 => Unhurt(k - 1)'
               PROVE  k \in own' \/ OnLine(3 * (k - 1))'
    BY <1>4 DEF WholeOrOwn
  <2>1. CASE k <= n
    <3>1. k \in 1 .. Len(sent) /\ k \in Nat
      BY <1>1, <2>1 DEF n
    <3>2. Unhurt(k) /\ (k > 1 => Unhurt(k - 1))
      BY <1>1, <1>2, <2>1, <3>1 DEF Unhurt, n
    <3> QED
      BY <1>2, <1>11, <3>1, <3>2 DEF IInv, WholeOrOwn
  <2>2. CASE k > n
    BY <1>1, <1>12, <2>2
  <2> QED
    BY <1>1, <2>1, <2>2
<1> QED
  BY <1>9, <1>10, <1>13, <1>14 DEF IInv

-----------------------------------------------------------------------------
(* The line loses bytes, or the reader consumes them.                       *)

LEMMA LineFacts ==
    ASSUME IInv
    PROVE  /\ Len(sent) \in Nat /\ Len(line) \in Nat /\ got \in Nat /\ got <= Len(line)
           /\ \A j \in 1 .. Len(line) :
                  line[j] \in Nat /\ line[j] \in 0 .. 3 * Len(sent) - 1
           /\ \A i, j \in 1 .. Len(line) : i < j => line[i] < line[j]
<1>1. /\ Len(sent) \in Nat /\ Len(line) \in Nat
      /\ \A j \in 1 .. Len(line) : line[j] \in 0 .. 3 * Len(sent) - 1
  BY DEF IInv, TypeOK, SIZE_MSG
<1>2. got \in 0 .. Len(line)
  BY DEF IInv, TypeOK
<1> QED
  BY <1>1, <1>2 DEF IInv, Sorted

LEMMA LoseStep ==
    ASSUME IInv, NEW i \in 1 .. Len(line), Lose(i)
    PROVE  IInv'
<1> DEFINE n == Len(line)
           m == Len(sent)
<1>1. /\ m \in Nat /\ n \in Nat /\ got \in Nat
      /\ \A j \in 1 .. n : line[j] \in Nat /\ line[j] \in 0 .. 3 * m - 1
      /\ \A p, q \in 1 .. n : p < q => line[p] < line[q]
  BY LineFacts
<1>2. /\ line' = [j \in 1 .. n - 1 |-> IF j < i THEN line[j] ELSE line[j + 1]]
      /\ hurt' = hurt \cup {MessageOf(line[i])}
      /\ UNCHANGED <<sent, got, reading, receiver, pkt, own, asked, done>>
      /\ i > got
  BY DEF Lose
<1>3. i \in Nat /\ i \in 1 .. n
  BY <1>1
<1>s. SIZE_MSG * Len(sent) = 3 * m
  BY DEF SIZE_MSG
<1>m. MessageOf(line[i]) \in 1 .. m
  BY <1>1, <1>3, ByteNumbers
<1> HIDE DEF n, m
<1>4. \A j \in 1 .. n - 1 : line'[j] = (IF j < i THEN line[j] ELSE line[j + 1])
  BY <1>2
<1>5. /\ line' \in Seq(0 .. 3 * m - 1)
      /\ Len(line') = n - 1
  <2>1. \A j \in 1 .. n - 1 : (IF j < i THEN line[j] ELSE line[j + 1]) \in 0 .. 3 * m - 1
    BY <1>1, <1>3
  <2> QED
    BY <1>1, <1>2, <1>3, <2>1
<1>6. TypeOK'
  <2>1. got' \in 0 .. Len(line')
    BY <1>1, <1>2, <1>3, <1>5
  <2>2. hurt' \subseteq 1 .. Len(sent')
    BY <1>2, <1>m DEF IInv, TypeOK, m
  <2>3. line' \in Seq(0 .. SIZE_MSG * Len(sent') - 1)
    BY <1>2, <1>5, <1>s
  <2> QED
    BY <1>2, <2>1, <2>2, <2>3 DEF IInv, TypeOK
<1>7. Sorted'
  <2> SUFFICES ASSUME NEW p \in 1 .. Len(line'), NEW q \in 1 .. Len(line'), p < q
               PROVE  line'[p] < line'[q]
    BY DEF Sorted
  <2>1. p \in 1 .. n - 1 /\ q \in 1 .. n - 1 /\ p \in Nat /\ q \in Nat
    BY <1>1, <1>5
  <2>2. line'[p] = (IF p < i THEN line[p] ELSE line[p + 1])
        /\ line'[q] = (IF q < i THEN line[q] ELSE line[q + 1])
    BY <1>4, <2>1
  <2>3. CASE p < i /\ q < i
    BY <1>1, <2>1, <2>2, <2>3
  <2>4. CASE p < i /\ ~(q < i)
    BY <1>1, <1>3, <2>1, <2>2, <2>4
  <2>5. CASE ~(p < i) /\ ~(q < i)
    BY <1>1, <1>3, <2>1, <2>2, <2>5
  <2> QED
    BY <1>3, <2>1, <2>3, <2>4, <2>5
<1>8. ASSUME NEW x, OnLine(x), x # line[i]
      PROVE  OnLine(x)'
  <2>1. PICK j \in 1 .. n : line[j] = x
    BY <1>8 DEF OnLine, n
  <2>2. CASE j < i
    <3>1. j \in 1 .. n - 1
      BY <1>1, <1>3, <2>2
    <3> QED
      BY <1>4, <1>5, <2>1, <2>2, <3>1 DEF OnLine
  <2>3. CASE j > i
    <3>1. j - 1 \in 1 .. n - 1 /\ ~(j - 1 < i) /\ (j - 1) + 1 = j
      BY <1>1, <1>3, <2>3
    <3>2. line'[j - 1] = x
      BY <1>4, <2>1, <3>1
    <3> QED
      BY <1>5, <3>1, <3>2 DEF OnLine
  <2> QED
    BY <1>1, <1>3, <1>8, <2>1, <2>2, <2>3
<1>9. \A k : Unhurt(k)' => Unhurt(k) /\ k # MessageOf(line[i])
  BY <1>2 DEF Unhurt
<1>10. Suffix'
  <2> SUFFICES ASSUME NEW x \in 0 .. SIZE_MSG * Len(sent) - 1, Unhurt(MessageOf(x))',
                      ~OnLine(x)'
               PROVE  \A j \in 1 .. Len(line') : x < line'[j]
    BY <1>2 DEF Suffix, SIZE_MSG, MessageOf
  <2>1. Unhurt(MessageOf(x)) /\ x # line[i]
    BY <1>9
  <2>2. \A j \in 1 .. n : x < line[j]
    BY <1>8, <2>1 DEF IInv, Suffix, n
  <2> TAKE j \in 1 .. Len(line')
  <2>3. j \in 1 .. n - 1
    BY <1>5
  <2>4. j \in 1 .. n /\ j + 1 \in 1 .. n
    BY <1>1, <2>3
  <2> QED
    BY <1>4, <2>2, <2>3, <2>4
<1>11. WholeOrOwn'
  <2> SUFFICES ASSUME NEW k \in 1 .. Len(sent), Unhurt(k)', k > 1 => Unhurt(k - 1)',
                      k \notin own
               PROVE  OnLine(3 * (k - 1))'
    BY <1>2 DEF WholeOrOwn
  <2>1. OnLine(3 * (k - 1))
    BY <1>9 DEF IInv, WholeOrOwn
  <2>2. k \in Nat \ {0}
    BY <1>1 DEF m
  <2>3. 3 * (k - 1) # line[i]
    BY <1>9, <2>2, MessageBytes
  <2> QED
    BY <1>8, <2>1, <2>3
<1> QED
  BY <1>6, <1>7, <1>10, <1>11 DEF IInv

LEMMA CloseStep ==
    ASSUME IInv, Close
    PROVE  IInv'
<1>1. /\ line' = << >> /\ got' = 0
      /\ hurt' = hurt \cup {MessageOf(line[j]) : j \in 1 .. Len(line)}
      /\ UNCHANGED <<sent, reading, receiver, pkt, own, asked, done>>
  BY DEF Close
<1>2. Len(line') = 0 /\ line' \in Seq(0 .. SIZE_MSG * Len(sent') - 1)
  BY <1>1
<1>3. \A j \in 1 .. Len(line) : MessageOf(line[j]) \in 1 .. Len(sent)
  BY LineFacts, ByteNumbers
<1>4. hurt' \subseteq 1 .. Len(sent')
  BY <1>1, <1>3 DEF IInv, TypeOK
<1>5. TypeOK'
  BY <1>1, <1>2, <1>4 DEF IInv, TypeOK
<1>6. Sorted' /\ Suffix'
  BY <1>2 DEF Sorted, Suffix
<1>7. WholeOrOwn'
  <2> SUFFICES ASSUME NEW k \in 1 .. Len(sent), Unhurt(k)', k > 1 => Unhurt(k - 1)',
                      k \notin own
               PROVE  FALSE
    BY <1>1 DEF WholeOrOwn
  <2>1. OnLine(3 * (k - 1))
    BY <1>1 DEF IInv, WholeOrOwn, Unhurt
  <2>2. k \in Nat \ {0}
    BY LineFacts
  <2>3. PICK j \in 1 .. Len(line) : line[j] = 3 * (k - 1)
    BY <2>1 DEF OnLine
  <2>4. k = MessageOf(line[j])
    BY <2>2, <2>3, MessageBytes
  <2> QED
    BY <1>1, <2>4 DEF Unhurt
<1> QED
  BY <1>5, <1>6, <1>7 DEF IInv

\* What consuming the first n bytes keeps.
LEMMA ConsumeKeeps ==
    ASSUME IInv, NEW n \in 1 .. SIZE_MSG, got >= n, Consume(n), UNCHANGED <<sent, hurt>>
    PROVE  /\ line' \in Seq(0 .. SIZE_MSG * Len(sent') - 1)
           /\ got' \in 0 .. Len(line')
           /\ Sorted' /\ Suffix'
           /\ \A x : OnLine(x) => OnLine(x)' \/ \E j \in 1 .. n : line[j] = x
<1> DEFINE c == Len(line)
           m == Len(sent)
<1>1. /\ m \in Nat /\ c \in Nat /\ got \in Nat /\ got <= c
      /\ \A j \in 1 .. c : line[j] \in Nat /\ line[j] \in 0 .. 3 * m - 1
      /\ \A p, q \in 1 .. c : p < q => line[p] < line[q]
  BY LineFacts
<1>2. n \in Nat /\ n >= 1 /\ n <= c
  BY <1>1 DEF SIZE_MSG
<1>3. /\ line' = SubSeq(line, n + 1, c) /\ got' = got - n
      /\ SIZE_MSG * Len(sent') = 3 * m
  BY DEF Consume, SIZE_MSG
<1> HIDE DEF c, m
<1>4. /\ line' \in Seq(0 .. 3 * m - 1)
      /\ Len(line') = c - n
      /\ \A j \in 1 .. c - n : line'[j] = line[n + j]
  <2>1. n + 1 \in Int /\ c \in Int /\ n + 1 .. c \subseteq 1 .. c
    BY <1>1, <1>2
  <2>2. \A j \in n + 1 .. c : line[j] \in 0 .. 3 * m - 1
    BY <1>1, <2>1
  <2>3. /\ line' \in Seq(0 .. 3 * m - 1)
        /\ Len(line') = (IF n + 1 <= c THEN c - (n + 1) + 1 ELSE 0)
        /\ \A j \in 1 .. c - (n + 1) + 1 : line'[j] = line[(n + 1) + j - 1]
    BY <1>3, <2>1, <2>2, SubSeqProperties
  <2>4. Len(line') = c - n /\ c - (n + 1) + 1 = c - n
    BY <1>1, <1>2, <2>3
  <2>5. \A j \in 1 .. c - n : (n + 1) + j - 1 = n + j
    BY <1>1, <1>2
  <2> QED
    BY <2>3, <2>4, <2>5
<1>5. got' \in 0 .. Len(line')
  BY <1>1, <1>2, <1>3, <1>4
<1>6. \A j \in 1 .. Len(line') : j \in Nat /\ n + j \in 1 .. c /\ line'[j] = line[n + j]
  BY <1>1, <1>2, <1>4
<1>7. Sorted'
  <2> SUFFICES ASSUME NEW p \in 1 .. Len(line'), NEW q \in 1 .. Len(line'), p < q
               PROVE  line'[p] < line'[q]
    BY DEF Sorted
  <2>1. /\ n + p \in 1 .. c /\ n + q \in 1 .. c
        /\ line'[p] = line[n + p] /\ line'[q] = line[n + q]
    BY <1>6
  <2>2. n + p < n + q
    BY <1>2, <1>6
  <2> QED
    BY <1>1, <2>1, <2>2
<1>8. ASSUME NEW x, OnLine(x)
      PROVE  OnLine(x)' \/ \E j \in 1 .. n : line[j] = x
  <2>1. PICK j \in 1 .. c : line[j] = x
    BY <1>8 DEF OnLine, c
  <2>2. CASE j <= n
    BY <1>1, <2>1, <2>2
  <2>3. CASE j > n
    <3>1. j - n \in 1 .. Len(line') /\ n + (j - n) = j
      BY <1>1, <1>2, <1>4, <2>3
    <3>2. line'[j - n] = x
      BY <1>6, <2>1, <3>1
    <3> QED
      BY <3>1, <3>2 DEF OnLine
  <2> QED
    BY <1>1, <1>2, <2>2, <2>3
<1>9. Suffix'
  <2> SUFFICES ASSUME NEW x \in 0 .. SIZE_MSG * Len(sent) - 1, Unhurt(MessageOf(x)),
                      ~OnLine(x)'
               PROVE  \A j \in 1 .. Len(line') : x < line'[j]
    BY DEF Suffix, SIZE_MSG, MessageOf, Unhurt
  <2> TAKE j \in 1 .. Len(line')
  <2>1. n + j \in 1 .. c /\ line'[j] = line[n + j]
    BY <1>6
  <2>2. CASE \A q \in 1 .. c : x < line[q]
    BY <2>1, <2>2
  <2>3. CASE OnLine(x)
    <3>1. PICK q \in 1 .. n : line[q] = x
      BY <1>8, <2>3
    <3>2. q \in 1 .. c /\ q < n + j
      BY <1>1, <1>2, <1>6, <3>1
    <3> QED
      BY <1>1, <2>1, <3>1, <3>2
  <2> QED
    BY <2>2, <2>3 DEF IInv, Suffix, c
<1> QED
  BY <1>3, <1>4, <1>5, <1>7, <1>8, <1>9

\* A byte of the line that can begin a message is the first of one.
LEMMA HeadIsFirst ==
    ASSUME IInv, NEW j \in 1 .. Len(line)
    PROVE  /\ line[j] \in Nat /\ line[j] < 3 * Len(sent)
           /\ MessageOf(line[j]) \in 1 .. Len(sent)
           /\ Byte(line[j]) \in 0 .. 255
           /\ Byte(line[j]) >= FLAG <=> line[j] = 3 * (MessageOf(line[j]) - 1)
<1>1. line[j] \in Nat /\ line[j] \in 0 .. 3 * Len(sent) - 1 /\ Len(sent) \in Nat
  BY LineFacts
<1>2. line[j] < 3 * Len(sent)
  BY <1>1
<1>3. /\ MessageOf(line[j]) \in 1 .. Len(sent) /\ PlaceOf(line[j]) \in 1 .. 3
      /\ line[j] = 3 * (MessageOf(line[j]) - 1) + PlaceOf(line[j]) - 1
  BY <1>1, ByteNumbers
<1>4. Byte(line[j]) \in 0 .. 255 /\ (Byte(line[j]) >= FLAG <=> PlaceOf(line[j]) = 1)
  BY <1>1, <1>2, FlagFirst DEF IInv
<1>5. PlaceOf(line[j]) = 1 <=> line[j] = 3 * (MessageOf(line[j]) - 1)
  <2>1. MessageOf(line[j]) \in Nat /\ PlaceOf(line[j]) \in Nat
    BY <1>1, <1>3
  <2> QED
    BY <1>1, <1>3, <2>1
<1> QED
  BY <1>1, <1>2, <1>3, <1>4, <1>5

LEMMA UnexpectedStep ==
    ASSUME IInv, UnexpectedByte
    PROVE  IInv'
<1>1. /\ Byte(line[1]) < FLAG /\ Consume(1) /\ got >= 3
      /\ UNCHANGED <<sent, reading, receiver, pkt, hurt, own, asked, done>>
  BY DEF UnexpectedByte, Unexpected, SIZE_MSG
<1>2. Len(line) \in Nat /\ got \in Nat /\ got >= 1 /\ 1 \in 1 .. Len(line)
  BY <1>1, LineFacts
<1>3. /\ line' \in Seq(0 .. SIZE_MSG * Len(sent') - 1)
      /\ got' \in 0 .. Len(line')
      /\ Sorted' /\ Suffix'
      /\ \A x : OnLine(x) => OnLine(x)' \/ \E j \in 1 .. 1 : line[j] = x
  BY <1>1, <1>2, ConsumeKeeps DEF SIZE_MSG
<1>4. TypeOK'
  BY <1>1, <1>3 DEF IInv, TypeOK
<1>5. ~(Byte(line[1]) >= FLAG)
  <2>1. Byte(line[1]) \in 0 .. 255
    BY <1>2, HeadIsFirst
  <2> QED
    BY <1>1, <2>1 DEF FLAG
<1>6. WholeOrOwn'
  <2> SUFFICES ASSUME NEW k \in 1 .. Len(sent), Unhurt(k), k > 1 => Unhurt(k - 1),
                      k \notin own
               PROVE  OnLine(3 * (k - 1))'
    BY <1>1 DEF WholeOrOwn, Unhurt
  <2>1. PICK j \in 1 .. Len(line) : line[j] = 3 * (k - 1)
    BY DEF IInv, WholeOrOwn, OnLine
  <2>2. k \in Nat \ {0}
    BY LineFacts
  <2>3. MessageOf(line[j]) = k
    BY <2>1, <2>2, MessageBytes
  <2>4. Byte(line[j]) >= FLAG
    BY <2>1, <2>3, HeadIsFirst
  <2>5. OnLine(3 * (k - 1)) /\ line[1] # 3 * (k - 1)
    BY <1>5, <2>1, <2>4 DEF OnLine
  <2> QED
    BY <1>3, <2>5
<1> QED
  BY <1>3, <1>4, <1>6 DEF IInv

LEMMA ReceiverRange ==
    ASSUME NEW b, b[1] \in 0 .. 255, b[2] \in 0 .. 255, b[3] \in 0 .. 255
    PROVE  decode_receiver(b) \in 1 .. MANCHESTER_MAX_ADDRESS
<1>1. PICK h \in 0 .. 15 : h = b[1] % 16
  OBVIOUS
<1>2. PICK l \in 0 .. 1 : l = b[2] % 2
  OBVIOUS
<1>3. PICK s \in 0 .. 31 : s = (b[3] \div 4) % 32
  OBVIOUS
<1>4. decode_receiver(b) = 1 + 64 * h + 32 * l + s
  BY <1>1, <1>2, <1>3 DEF decode_receiver
<1>5. 1 + 64 * h + 32 * l + s \in 1 .. 1024
  OBVIOUS
<1> QED
  BY <1>4, <1>5 DEF MANCHESTER_MAX_ADDRESS

\* A byte of a whole message, not sent before the head of the line, is on it.
LEMMA AfterHead ==
    ASSUME IInv, NEW x \in Nat, x < 3 * Len(sent), Unhurt(MessageOf(x)),
           1 \in 1 .. Len(line), line[1] <= x
    PROVE  OnLine(x)
<1>1. line[1] \in Nat /\ Len(sent) \in Nat
  BY LineFacts
<1>2. x \in 0 .. SIZE_MSG * Len(sent) - 1
  BY <1>1 DEF SIZE_MSG
<1> QED
  BY <1>1, <1>2 DEF IInv, Suffix

\* A whole message whose first byte is the head is the first three bytes.
LEMMA HeadMessage ==
    ASSUME IInv, NEW k \in 1 .. Len(sent), Unhurt(k), got >= 3,
           line[1] = 3 * (k - 1)
    PROVE  line[2] = 3 * (k - 1) + 1 /\ line[3] = 3 * (k - 1) + 2
<1> DEFINE f == 3 * (k - 1)
<1>1. /\ Len(line) \in Nat /\ Len(line) >= 3 /\ Len(sent) \in Nat
      /\ \A j \in 1 .. Len(line) : line[j] \in Nat
      /\ \A i, j \in 1 .. Len(line) : i < j => line[i] < line[j]
  BY LineFacts
<1>2. 1 \in 1 .. Len(line) /\ 2 \in 1 .. Len(line) /\ 3 \in 1 .. Len(line)
  BY <1>1
<1>3. k \in Nat \ {0}
  BY <1>1
<1>4. /\ f \in Nat /\ f + 1 \in Nat /\ f + 1 < 3 * Len(sent)
      /\ f + 2 \in Nat /\ f + 2 < 3 * Len(sent)
  BY <1>1, <1>3
<1>5. MessageOf(f + 1) = k /\ MessageOf(f + 2) = k
  BY <1>3, MessageBytes
<1>6. line[1] = f
  OBVIOUS
<1> HIDE DEF f
<1>7. PICK p \in 1 .. Len(line) : line[p] = f + 1
  BY <1>2, <1>4, <1>5, <1>6, AfterHead, SMTT(30) DEF OnLine
<1>8. PICK q \in 1 .. Len(line) : line[q] = f + 2
  BY <1>2, <1>4, <1>5, <1>6, AfterHead DEF OnLine
<1>9. line[1] < line[2] /\ line[2] < line[3] /\ line[2] \in Nat /\ line[3] \in Nat
  BY <1>1, <1>2
<1>10. p \in Nat /\ q \in Nat /\ p >= 1 /\ q >= 1
  BY <1>1
<1>11. p = 2
  <2>1. p # 1
    BY <1>4, <1>6, <1>7
  <2>2. p > 2 => line[2] < f + 1
    BY <1>1, <1>2, <1>7, <1>10
  <2> QED
    BY <1>4, <1>6, <1>9, <1>10, <2>1, <2>2, SMTT(30)
<1>12. q = 3
  <2>1. q # 1 /\ q # 2
    BY <1>4, <1>6, <1>7, <1>8, <1>11
  <2>2. q > 3 => line[3] < f + 2
    BY <1>1, <1>2, <1>8, <1>10
  <2> QED
    BY <1>4, <1>7, <1>9, <1>10, <1>11, <2>1, <2>2
<1> QED
  BY <1>7, <1>8, <1>11, <1>12 DEF f

\* A message that follows a whole one does not begin in the second or third
\* byte of three that begin with a flag: those are bytes of the one before it.
LEMMA NotInside ==
    ASSUME IInv, NEW k \in 1 .. Len(sent), k > 1 => Unhurt(k - 1), got >= 3,
           Byte(line[1]) >= FLAG,
           NEW j \in 2 .. Len(line), line[j] = 3 * (k - 1)
    PROVE  j > 3
<1> DEFINE f == 3 * (k - 1)
           h == MessageOf(line[1])
<1>1. /\ Len(line) \in Nat /\ Len(line) >= 3 /\ Len(sent) \in Nat
      /\ \A i \in 1 .. Len(line) : line[i] \in Nat
      /\ \A p, q \in 1 .. Len(line) : p < q => line[p] < line[q]
  BY LineFacts
<1>2. 1 \in 1 .. Len(line) /\ j \in 1 .. Len(line) /\ j \in Nat /\ j > 1 /\ k \in Nat /\ k >= 1
      /\ k <= Len(sent)
  BY <1>1
<1>3. line[1] = 3 * (h - 1) /\ h \in 1 .. Len(sent)
  BY <1>2, HeadIsFirst
<1>4. h \in Nat /\ h >= 1 /\ 3 * (h - 1) < f
  <2>1. line[1] < line[j]
    BY <1>1, <1>2
  <2> QED
    BY <1>1, <1>3, <2>1
<1> HIDE DEF h
<1>5. k > 1 /\ 3 * (h - 1) <= f - 3
  BY <1>2, <1>4
<1>6. k - 1 \in Nat \ {0} /\ 3 * ((k - 1) - 1) = f - 3
  BY <1>2, <1>5
<1>7. MessageOf(f - 3 + 1) = k - 1 /\ MessageOf(f - 3 + 2) = k - 1
  BY <1>6, MessageBytes
<1>8. f \in Nat /\ f - 3 \in Nat /\ f < 3 * Len(sent)
  BY <1>1, <1>2, <1>5
<1>9. line[1] <= f - 3 /\ line[1] \in Nat /\ line[j] = f
  BY <1>1, <1>2, <1>3, <1>5
<1> HIDE DEF f
<1>10. PICK p \in 1 .. Len(line) : line[p] = f - 3 + 1
  <2>1. f - 3 + 1 \in Nat /\ f - 3 + 1 < 3 * Len(sent) /\ line[1] <= f - 3 + 1
    BY <1>1, <1>8, <1>9
  <2> QED
    BY <1>2, <1>5, <1>7, <2>1, AfterHead DEF OnLine
<1>11. PICK q \in 1 .. Len(line) : line[q] = f - 3 + 2
  <2>1. f - 3 + 2 \in Nat /\ f - 3 + 2 < 3 * Len(sent) /\ line[1] <= f - 3 + 2
    BY <1>1, <1>8, <1>9
  <2> QED
    BY <1>2, <1>5, <1>7, <2>1, AfterHead DEF OnLine
<1>12. \A a, b \in 1 .. Len(line) : line[a] < line[b] => a < b
  <2> TAKE a, b \in 1 .. Len(line)
  <2>1. a \in Nat /\ b \in Nat /\ line[a] \in Nat /\ line[b] \in Nat
    BY <1>1
  <2>2. b < a => line[b] < line[a]
    BY <1>1
  <2> QED
    BY <2>1, <2>2
<1>13. line[1] < line[p] /\ line[p] < line[q] /\ line[q] < line[j]
  BY <1>8, <1>9, <1>10, <1>11, SMTT(30)
<1>14. 1 < p /\ p < q /\ q < j
  BY <1>2, <1>12, <1>13
<1>15. p \in Nat /\ q \in Nat
  BY <1>1
<1> QED
  BY <1>2, <1>14, <1>15

LEMMA DecodeStep ==
    ASSUME IInv, manchester_decode_packet
    PROVE  IInv'
<1> DEFINE b == [j \in 1 .. SIZE_MSG |-> Byte(line[j])]
<1>1. /\ Byte(line[1]) >= FLAG /\ Consume(3) /\ got >= 3
      /\ receiver' = decode_receiver(b)
      /\ own' = own \cup {k \in 1 .. Len(sent) :
                             BytesOf(k) = {line[j] : j \in 1 .. SIZE_MSG}}
      /\ UNCHANGED <<sent, reading, hurt, asked>>
  BY DEF manchester_decode_packet, SIZE_MSG
<1>2. Len(line) \in Nat /\ Len(line) >= 3 /\ Len(sent) \in Nat
  BY <1>1, LineFacts
<1>3. 1 \in 1 .. Len(line) /\ 2 \in 1 .. Len(line) /\ 3 \in 1 .. Len(line)
  BY <1>2
<1>4. /\ line' \in Seq(0 .. SIZE_MSG * Len(sent') - 1)
      /\ got' \in 0 .. Len(line')
      /\ Sorted' /\ Suffix'
      /\ \A x : OnLine(x) => OnLine(x)' \/ \E j \in 1 .. 3 : line[j] = x
  BY <1>1, ConsumeKeeps DEF SIZE_MSG
<1>5. receiver' \in 0 .. MANCHESTER_MAX_ADDRESS
  <2>1. b[1] \in 0 .. 255 /\ b[2] \in 0 .. 255 /\ b[3] \in 0 .. 255
    BY <1>3, HeadIsFirst DEF SIZE_MSG
  <2>2. receiver' \in 1 .. MANCHESTER_MAX_ADDRESS
    BY <1>1, <2>1, ReceiverRange
  <2> QED
    BY <2>2 DEF MANCHESTER_MAX_ADDRESS
<1>6. TypeOK'
  BY <1>1, <1>4, <1>5 DEF IInv, TypeOK
<1>7. WholeOrOwn'
  <2> SUFFICES ASSUME NEW k \in 1 .. Len(sent), Unhurt(k), k > 1 => Unhurt(k - 1),
                      k \notin own'
               PROVE  OnLine(3 * (k - 1))'
    BY <1>1 DEF WholeOrOwn, Unhurt
  <2>1. k \notin own
    BY <1>1
  <2>2. OnLine(3 * (k - 1))
    BY <2>1 DEF IInv, WholeOrOwn
  <2>3. PICK q \in 1 .. Len(line) : line[q] = 3 * (k - 1)
    BY <2>2 DEF OnLine
  <2>4. q # 1
    <3> SUFFICES ASSUME q = 1 PROVE FALSE
      OBVIOUS
    <3>1. line[1] = 3 * (k - 1) /\ line[2] = 3 * (k - 1) + 1 /\ line[3] = 3 * (k - 1) + 2
      BY <1>1, <2>3, HeadMessage
    <3>2. {line[j] : j \in 1 .. SIZE_MSG} = {line[1], line[2], line[3]}
      <4>1. 1 .. SIZE_MSG = {1, 2, 3}
        BY DEF SIZE_MSG
      <4> QED
        BY <4>1
    <3>3. BytesOf(k) = {line[j] : j \in 1 .. SIZE_MSG}
      BY <3>1, <3>2 DEF BytesOf
    <3> QED
      BY <1>1, <3>3
  <2>5. q \in 2 .. Len(line)
    BY <1>2, <2>4
  <2>6. q > 3
    BY <1>1, <2>3, <2>5, NotInside
  <2>7. \A j \in 1 .. 3 : line[j] # 3 * (k - 1)
    <3> TAKE j \in 1 .. 3
    <3>1. j \in 1 .. Len(line) /\ j < q /\ q \in 1 .. Len(line)
      BY <1>2, <2>6
    <3>2. line[j] < line[q] /\ line[j] \in Nat
      BY <3>1, LineFacts
    <3>3. k \in Nat
      BY <1>2
    <3> QED
      BY <2>3, <3>2, <3>3
  <2> QED
    BY <1>4, <2>2, <2>7
<1> QED
  BY <1>4, <1>6, <1>7 DEF IInv

\* Bytes that arrive, and the end of the loop, move nothing on the line.
LEMMA QuietStep ==
    ASSUME IInv, got' \in 0 .. Len(line), reading' \in BOOLEAN,
           receiver' \in 0 .. MANCHESTER_MAX_ADDRESS,
           UNCHANGED <<sent, line, hurt, own>>
    PROVE  IInv'
<1>1. TypeOK'
  BY DEF IInv, TypeOK
<1> QED
  BY <1>1 DEF IInv, Sorted, Suffix, WholeOrOwn, Unhurt, OnLine

LEMMA NextInv == IInv /\ [Next]_vars => IInv'
<1> SUFFICES ASSUME IInv, [Next]_vars PROVE IInv'
  OBVIOUS
<1>1. ASSUME NEW r \in Receivers, NEW p \in Packets, Send(r, p) PROVE IInv'
  BY <1>1, SendStep
<1>2. ASSUME NEW i \in 1 .. Len(line), Lose(i) PROVE IInv'
  BY <1>2, LoseStep
<1>3. ASSUME NEW n \in 1 .. Len(line), Read(n) PROVE IInv'
  <2>1. got' \in 0 .. Len(line)
    <3>1. got' = got + n /\ got + n <= Len(line)
      BY <1>3 DEF Read
    <3> QED
      BY <3>1, LineFacts
  <2> QED
    BY <1>3, <2>1, QuietStep DEF Read, IInv, TypeOK
<1>4. CASE UnexpectedByte
  BY <1>4, UnexpectedStep
<1>5. CASE manchester_decode_packet
  BY <1>5, DecodeStep
<1>6. CASE Done
  <2>1. receiver' \in 0 .. MANCHESTER_MAX_ADDRESS
    <3>1. receiver' = 0 \/ receiver' = receiver
      BY <1>6 DEF Done
    <3>2. receiver \in 0 .. MANCHESTER_MAX_ADDRESS /\ 0 \in 0 .. MANCHESTER_MAX_ADDRESS
      BY DEF IInv, TypeOK, MANCHESTER_MAX_ADDRESS
    <3> QED
      BY <3>1, <3>2
  <2> QED
    BY <1>6, <2>1, QuietStep DEF Done, IInv, TypeOK
<1>7. CASE Close
  BY <1>7, CloseStep
<1>8. CASE UNCHANGED vars
  BY <1>8, QuietStep DEF vars, IInv, TypeOK
<1> QED
  BY <1>1, <1>2, <1>3, <1>4, <1>5, <1>6, <1>7, <1>8 DEF Next, Silence

LEMMA Invariance == Spec => []IInv
BY InitInv, NextInv, PTL DEF Spec

\* The reader's packet is always for a receiver the protocol can address, and
\* no more is counted as read than there is.
THEOREM TypeCorrect == Spec => []TypeOK
<1>1. IInv => TypeOK
  BY DEF IInv
<1> QED
  BY <1>1, Invariance, PTL

\* Whatever the line loses, and however the bytes are split over reads, a
\* message that lost nothing, after one that lost nothing, is whole on the line
\* until it is decoded from its own bytes (manchester_read_message).
THEOREM Resynchronised == Spec => []Resync
<1>1. IInv => Resync
  <2> SUFFICES ASSUME IInv, NEW k \in 1 .. Len(sent),
                      k \notin hurt, k > 1 => k - 1 \notin hurt, k \notin own,
                      NEW i \in BytesOf(k)
               PROVE  OnLine(i)
    BY DEF Resync, OnLine
  <2>1. Len(sent) \in Nat /\ k \in Nat \ {0} /\ k <= Len(sent)
    BY LineFacts
  <2>2. k > 1 => k - 1 \in 1 .. Len(sent)
    BY <2>1
  <2>3. Unhurt(k) /\ (k > 1 => Unhurt(k - 1))
    BY <2>2 DEF Unhurt
  <2>4. PICK q \in 1 .. Len(line) : line[q] = 3 * (k - 1)
    BY <2>3 DEF IInv, WholeOrOwn, OnLine
  <2>5. MessageOf(i) = k
    BY <2>1, MessageBytes DEF BytesOf
  <2>6. i \in Nat /\ i < 3 * Len(sent) /\ i >= line[q]
    BY <2>1, <2>4 DEF BytesOf
  <2>7. 1 \in 1 .. Len(line) /\ line[1] \in Nat /\ line[q] \in Nat /\ line[1] <= line[q]
    <3>1. Len(line) \in Nat /\ 1 \in 1 .. Len(line) /\ q \in Nat
      BY LineFacts
    <3>2. 1 < q => line[1] < line[q]
      BY <3>1, LineFacts
    <3>3. line[1] \in Nat /\ line[q] \in Nat
      BY <3>1, LineFacts
    <3> QED
      BY <3>1, <3>2, <3>3
  <2>8. line[1] <= i
    BY <2>6, <2>7
  <2> QED
    BY <2>3, <2>5, <2>6, <2>7, <2>8, AfterHead
<1> QED
  BY <1>1, Invariance, PTL

-----------------------------------------------------------------------------
(* Packets: a setter touches its own group.                                 *)

AllCases == UNION {Cases(g) : g \in Groups}

\* The packets a reader can hold.
Decoded == [flags : SUBSET AllCases, pan : 0 .. SPEED_MAX, tilt : 0 .. SPEED_MAX,
            preset : 0 .. 8]

\* What the flags of a packet have of a group is a mode.
Modes(p) == \A g \in Groups : p.flags \cap CC[g] \in {{}} \cup {{f} : f \in Cases(g)}

\* Packet q is p with mode f and value n in group g.
Told(p, q, g, f, n) ==
    /\ q \in Decoded /\ Modes(q)
    /\ Mode(q, g) = {f} /\ Value(q, g) = n
    /\ \A h \in Groups : h # g => Mode(q, h) = Mode(p, h) /\ Value(q, h) = Value(p, h)

LEMMA GroupsAre ==
    Groups = {"menu", "camera", "pan", "tilt", "preset", "zoom", "focus",
              "iris", "lens", "wiper", "ack"}
BY DEF Groups, CC

\* A group's flags are its own: the masks of ccpacket.h do not overlap.
LEMMA GroupsDisjoint ==
    \A g, h \in Groups : g # h => CC[g] \cap CC[h] = {}
<1> SUFFICES ASSUME NEW g \in Groups, NEW h \in Groups, g # h, NEW f,
                    f \in CC[g], f \in CC[h]
             PROVE  FALSE
  OBVIOUS
<1> QED
  BY GroupsAre, SMTT(30) DEF CC

\* A switch lets through a mode of its group or none.
LEMMA ValidIs ==
    ASSUME NEW g \in Groups, NEW m
    PROVE  /\ Valid(g, m) \in {{}} \cup {{f} : f \in Cases(g)}
           /\ Valid(g, m) \subseteq CC[g] /\ Valid(g, m) \subseteq AllCases
           /\ Valid(g, m) \subseteq m
BY DEF Valid, Cases, AllCases

LEMMA ValidOne ==
    ASSUME NEW g \in Groups, NEW f \in Cases(g)
    PROVE  Valid(g, {f}) = {f} /\ Valid(g, {}) = {}
BY DEF Valid, Cases

LEMMA GetIs ==
    ASSUME NEW p, Modes(p), NEW g \in Groups
    PROVE  Get(p, g) = p.flags \cap CC[g]
BY DEF Get, Valid, Modes

\* A mode is of its own group.
LEMMA ModeIs ==
    ASSUME NEW p, NEW g \in Groups
    PROVE  /\ Mode(p, g) \in {{}} \cup {{f} : f \in Cases(g)}
           /\ Mode(p, g) \subseteq CC[g]
<1>1. Get(p, g) \in {{}} \cup {{f} : f \in Cases(g)} /\ Get(p, g) \subseteq CC[g]
  BY ValidIs DEF Get
<1>2. CASE g = "preset"
  <2>1. /\ ccpacket_get_preset_mode(p) \in {{}} \cup {{f} : f \in Cases(g)}
        /\ ccpacket_get_preset_mode(p) \subseteq CC[g]
    BY <1>2, ValidIs DEF ccpacket_get_preset_mode, ccpacket_preset
  <2> QED
    BY <1>2, <2>1 DEF Mode
<1> QED
  BY <1>1, <1>2 DEF Mode

\* So a function is a mode of one group only.
LEMMA ModeOfOne ==
    ASSUME NEW p, NEW q, NEW g \in Groups, NEW h \in Groups, NEW f,
           Mode(p, g) = {f}, Mode(q, h) = {f}
    PROVE  g = h
<1>1. f \in CC[g] /\ f \in CC[h]
  BY ModeIs
<1> QED
  BY <1>1, GroupsDisjoint

\* The mode of a group is what the flags, and for a preset the number, say.
LEMMA ModeKept ==
    ASSUME NEW p, NEW q, Modes(p), Modes(q), NEW g \in Groups,
           q.flags \cap CC[g] = p.flags \cap CC[g], q.preset = p.preset \/ g # "preset"
    PROVE  Mode(q, g) = Mode(p, g)
<1>1. Get(q, g) = Get(p, g)
  BY GetIs
<1>2. g = "preset" => ccpacket_get_preset_mode(q) = ccpacket_get_preset_mode(p)
  BY <1>1 DEF ccpacket_get_preset_mode, ccpacket_preset, Get
<1> QED
  BY <1>1, <1>2 DEF Mode

\* Function f is what the flags of q have of group g; the rest is that of p.
Reflagged(p, q, g, f) == q.flags = {f} \cup (p.flags \ CC[g])

Replaced(p, q, g, f) ==
    /\ q.flags \cap CC[g] = {f}
    /\ \A h \in Groups : h # g => q.flags \cap CC[h] = p.flags \cap CC[h]

LEMMA ReplaceFlags ==
    ASSUME NEW p \in Decoded, Modes(p), NEW g \in Groups, NEW f \in Cases(g),
           NEW q \in Decoded, Reflagged(p, q, g, f)
    PROVE  Modes(q) /\ Replaced(p, q, g, f)
<1> USE DEF Reflagged, Replaced
<1>1. f \in CC[g]
  BY DEF Cases
<1>2. q.flags \cap CC[g] = {f}
  BY <1>1
<1>3. ASSUME NEW h \in Groups, h # g
      PROVE  q.flags \cap CC[h] = p.flags \cap CC[h]
  <2>1. CC[g] \cap CC[h] = {}
    BY <1>3, GroupsDisjoint
  <2> QED
    BY <1>1, <2>1
<1>4. Modes(q)
  BY <1>2, <1>3 DEF Modes
<1> QED
  BY <1>2, <1>3, <1>4

\* A lens, camera or wiper function is set.
LEMMA SetTells ==
    ASSUME NEW p \in Decoded, Modes(p), NEW g \in Groups, NEW f \in Cases(g),
           g \notin {"pan", "tilt", "preset"},
           NEW q, q = Set(p, g, {f})
    PROVE  Told(p, q, g, f, 0)
<1>1. q = [p EXCEPT !.flags = {f} \cup (p.flags \ CC[g])]
  BY ValidOne DEF Set
<1>2. f \in AllCases
  BY DEF AllCases
<1>3. /\ q \in Decoded /\ q.flags = {f} \cup (p.flags \ CC[g])
      /\ q.pan = p.pan /\ q.tilt = p.tilt /\ q.preset = p.preset
  BY <1>1, <1>2 DEF Decoded
<1>4. /\ Modes(q) /\ q.flags \cap CC[g] = {f}
      /\ \A h \in Groups : h # g => q.flags \cap CC[h] = p.flags \cap CC[h]
  <2>1. Reflagged(p, q, g, f)
    BY <1>3 DEF Reflagged
  <2> QED
    BY <1>3, <2>1, ReplaceFlags DEF Replaced
<1>5. Mode(q, g) = {f}
  BY <1>4, GetIs DEF Mode
<1>6. Value(q, g) = 0 /\ \A h : Value(q, h) = Value(p, h)
  BY <1>3 DEF Value
<1>7. \A h \in Groups : h # g => Mode(q, h) = Mode(p, h)
  BY <1>3, <1>4, ModeKept
<1> QED
  BY <1>3, <1>4, <1>5, <1>6, <1>7 DEF Told

\* A pan or a tilt is set, with its speed.
LEMMA PanTiltTells ==
    ASSUME NEW p \in Decoded, Modes(p), NEW g \in {"pan", "tilt"}, NEW f \in Cases(g),
           NEW s \in 0 .. SPEED_MAX, NEW q, q = decode_pan_tilt(p, f, s)
    PROVE  Told(p, q, g, f, s)
<1>1. "pan" \in Groups /\ "tilt" \in Groups /\ g \in Groups
  BY GroupsAre
<1>2. clamp_speed(s) = s
  BY PacketAssumption DEF clamp_speed
<1> DEFINE r == Set(p, g, {f})
<1>3. r = [p EXCEPT !.flags = {f} \cup (p.flags \ CC[g])]
  BY <1>1, ValidOne DEF Set
<1>4. f \in AllCases
  BY <1>1 DEF AllCases
<1>5. /\ r \in Decoded /\ r.flags = {f} \cup (p.flags \ CC[g])
      /\ r.pan = p.pan /\ r.tilt = p.tilt /\ r.preset = p.preset
  BY <1>3, <1>4 DEF Decoded
<1>6. q = IF g = "pan" THEN [r EXCEPT !.pan = s] ELSE [r EXCEPT !.tilt = s]
  <2>1. CC.pan = CC["pan"] /\ f \in CC[g]
    BY DEF Cases
  <2>2. CASE g = "pan"
    BY <1>2, <2>1, <2>2 DEF decode_pan_tilt, ccpacket_set_pan
  <2>3. CASE g = "tilt"
    <3>1. f \notin CC["pan"]
      BY <1>1, <2>1, <2>3, GroupsDisjoint
    <3> QED
      BY <2>1, <2>3, <3>1 DEF decode_pan_tilt, ccpacket_set_tilt
  <2> QED
    BY <2>2, <2>3
<1> HIDE DEF r
<1>7. /\ q \in Decoded /\ q.flags = {f} \cup (p.flags \ CC[g]) /\ q.preset = p.preset
      /\ q.pan  = IF g = "pan" THEN s ELSE p.pan
      /\ q.tilt = IF g = "tilt" THEN s ELSE p.tilt
  <2>1. CASE g = "pan"
    BY <1>5, <1>6, <2>1 DEF Decoded
  <2>2. CASE g = "tilt"
    BY <1>5, <1>6, <2>2 DEF Decoded
  <2> QED
    BY <2>1, <2>2
<1>8. /\ Modes(q) /\ q.flags \cap CC[g] = {f}
      /\ \A h \in Groups : h # g => q.flags \cap CC[h] = p.flags \cap CC[h]
  <2>1. Reflagged(p, q, g, f)
    BY <1>7 DEF Reflagged
  <2> QED
    BY <1>1, <1>7, <2>1, ReplaceFlags DEF Replaced
<1>9. Mode(q, g) = {f}
  BY <1>1, <1>8, GetIs DEF Mode
<1>10. Value(q, g) = s /\ \A h : h # g => Value(q, h) = Value(p, h)
  BY <1>7 DEF Value
<1>11. \A h \in Groups : h # g => Mode(q, h) = Mode(p, h)
  BY <1>7, <1>8, ModeKept
<1> QED
  BY <1>7, <1>8, <1>9, <1>10, <1>11 DEF Told

\* A preset is recalled or stored; its number is not in the range of the menu.
LEMMA PresetTells ==
    ASSUME NEW p \in Decoded, Modes(p), NEW f \in Cases("preset"),
           NEW n \in 1 .. 8, NEW q, q = ccpacket_set_preset(p, {f}, n)
    PROVE  Told(p, q, "preset", f, n)
<1>1. "preset" \in Groups /\ CC.preset = CC["preset"]
  BY GroupsAre
<1>2. MenuMode(n) = {} /\ ~(n <= 0)
  BY DEF MenuMode, MENU_OPEN_PRESET, MENU_ENTER_PRESET, MENU_CANCEL_PRESET
<1>3. ccpacket_preset({f}, n) = {f}
  BY <1>1, <1>2, ValidOne DEF ccpacket_preset
<1>4. q = [p EXCEPT !.flags = (p.flags \ CC["preset"]) \cup {f}, !.preset = n]
  BY <1>1, <1>2, <1>3 DEF ccpacket_set_preset, IsMenuPreset
<1>5. (p.flags \ CC["preset"]) \cup {f} \in SUBSET AllCases
  BY <1>1 DEF AllCases, Decoded
<1>6. /\ q \in Decoded /\ q.pan = p.pan /\ q.tilt = p.tilt /\ q.preset = n
      /\ q.flags = {f} \cup (p.flags \ CC["preset"])
  <2>1. PICK v \in SUBSET AllCases : v = (p.flags \ CC["preset"]) \cup {f}
    BY <1>5
  <2>2. q = [p EXCEPT !.flags = v, !.preset = n]
    BY <1>4, <2>1
  <2>3. /\ q \in Decoded /\ q.pan = p.pan /\ q.tilt = p.tilt /\ q.preset = n
        /\ q.flags = v
    <3>1. n \in 0 .. 8
      OBVIOUS
    <3> DEFINE t == [p EXCEPT !.flags = v]
    <3>2. t \in Decoded /\ t.pan = p.pan /\ t.tilt = p.tilt /\ t.flags = v
      BY DEF Decoded
    <3>3. q = [t EXCEPT !.preset = n]
      BY <2>2
    <3> HIDE DEF t
    <3> QED
      BY <3>1, <3>2, <3>3 DEF Decoded
  <2> QED
    BY <2>1, <2>3
<1>7. /\ Modes(q) /\ q.flags \cap CC["preset"] = {f}
      /\ \A h \in Groups : h # "preset" => q.flags \cap CC[h] = p.flags \cap CC[h]
  <2>1. PICK g \in Groups : g = "preset"
    BY <1>1
  <2>2. Reflagged(p, q, g, f) /\ f \in Cases(g)
    BY <1>6, <2>1 DEF Reflagged
  <2>3. /\ Modes(q) /\ q.flags \cap CC[g] = {f}
        /\ \A h \in Groups : h # g => q.flags \cap CC[h] = p.flags \cap CC[h]
    <3>1. Modes(q) /\ Replaced(p, q, g, f)
      BY <1>6, <2>2, ReplaceFlags
    <3> QED
      BY <3>1 DEF Replaced
  <2> QED
    BY <2>1, <2>3
<1>8. Mode(q, "preset") = {f}
  <2>1. Valid("preset", q.flags) = {f}
    BY <1>1, <1>7, GetIs DEF Get
  <2> QED
    BY <1>2, <1>6, <2>1 DEF Mode, ccpacket_get_preset_mode, ccpacket_preset
<1>9. Value(q, "preset") = n /\ \A h : h # "preset" => Value(q, h) = Value(p, h)
  BY <1>6 DEF Value
<1>10. \A h \in Groups : h # "preset" => Mode(q, h) = Mode(p, h)
  BY <1>7, ModeKept
<1> QED
  BY <1>6, <1>7, <1>8, <1>9, <1>10 DEF Told

-----------------------------------------------------------------------------
(* What a command says.                                                     *)

\* The function of a camera a command is for, and its speed or number.
Function(c) ==
    IF c.pt THEN PT[c.cmnd]
    ELSE CASE c.cmnd = EX_LENS   -> LENS[c.extra]
           [] c.cmnd = EX_AUX    -> AUX[c.extra]
           [] c.cmnd = EX_RECALL -> "preset_recall"
           [] c.cmnd = EX_STORE  -> "preset_store"

Number(c) ==
    IF c.pt THEN SPEED[c.extra]
    ELSE IF c.cmnd \in {EX_RECALL, EX_STORE} THEN c.extra + 1
    ELSE IF Function(c) \in CC["pan"] \cup CC["tilt"] THEN SPEED_MAX ELSE 0

LEMMA FunctionTells ==
    ASSUME NEW p \in Decoded, Modes(p), NEW g \in Groups \ {"preset"}, NEW f \in Cases(g),
           NEW q, q = decode_function(p, f)
    PROVE  Told(p, q, g, f, IF g \in {"pan", "tilt"} THEN SPEED_MAX ELSE 0)
<1>1. /\ f \in CC[g] /\ g \in Groups /\ "pan" \in Groups /\ "tilt" \in Groups
      /\ CC.pan = CC["pan"] /\ CC.tilt = CC["tilt"]
  BY GroupsAre DEF Cases
<1>2. CASE g \in {"pan", "tilt"}
  <2>1. SPEED_MAX \in 0 .. SPEED_MAX
    BY PacketAssumption
  <2>2. q = decode_pan_tilt(p, f, SPEED_MAX)
    BY <1>1, <1>2 DEF decode_function
  <2> QED
    BY <1>2, <2>1, <2>2, PanTiltTells
<1>3. CASE g \notin {"pan", "tilt"}
  <2>1. f \notin CC["pan"] /\ f \notin CC["tilt"]
    BY <1>1, <1>3, GroupsDisjoint
  <2>2. \A h \in Groups : f \in CC[h] <=> h = g
    BY <1>1, GroupsDisjoint
  <2>3. {h \in Groups : f \in CC[h]} = {g}
    BY <2>2
  <2>4. q = Set(p, g, {f})
    BY <1>1, <2>1, <2>3 DEF decode_function
  <2> QED
    BY <1>3, <2>4, SetTells
<1> QED
  BY <1>2, <1>3

\* The functions of the tables, and the group of each.
LEMMA TableFunctions ==
    /\ \A n \in 0 .. 3 : PT[n] \in Cases("tilt") \cup Cases("pan")
    /\ \A n \in 0 .. 7 : LENS[n] \notin CC["preset"] /\ LENS[n] # "pan_manual"
    /\ \A n \in 0 .. 7 : AUX[n] \notin CC["preset"] /\ AUX[n] # "pan_manual"
<1>1. PT[0] = "tilt_down" /\ PT[1] = "tilt_up" /\ PT[2] = "pan_left" /\ PT[3] = "pan_right"
  BY DEF PT
<1>2. /\ LENS[0] = "tilt_down" /\ LENS[1] = "iris_open" /\ LENS[2] = "focus_far"
      /\ LENS[3] = "zoom_in" /\ LENS[4] = "iris_close" /\ LENS[5] = "focus_near"
      /\ LENS[6] = "zoom_out" /\ LENS[7] = "pan_left"
  BY DEF LENS
<1>3. /\ AUX[0] = "tilt_up" /\ AUX[1] = "pan_right" /\ AUX[2] = "camera_off"
      /\ AUX[3] = "camera_on" /\ AUX[4] = "aux_2" /\ AUX[5] = "aux_5"
      /\ AUX[6] = "aux_3" /\ AUX[7] = "wiper_on"
  BY DEF AUX
<1>4. \A n \in 0 .. 3 : n = 0 \/ n = 1 \/ n = 2 \/ n = 3
  OBVIOUS
<1>5. \A n \in 0 .. 7 : n = 0 \/ n = 1 \/ n = 2 \/ n = 3 \/ n = 4 \/ n = 5 \/ n = 6 \/ n = 7
  OBVIOUS
<1>6. /\ CC["preset"] = {"preset_recall", "preset_store", "preset_clear"}
      /\ Cases("tilt") = {"tilt_up", "tilt_down"}
      /\ Cases("pan") = {"pan_left", "pan_right", "pan_auto"}
  BY DEF CC, Cases
<1>7. ASSUME NEW n \in 0 .. 3 PROVE PT[n] \in Cases("tilt") \cup Cases("pan")
  BY <1>1, <1>4, <1>6
<1>8. ASSUME NEW n \in 0 .. 7 PROVE LENS[n] \notin CC["preset"] /\ LENS[n] # "pan_manual"
  BY <1>2, <1>5, <1>6
<1>9. ASSUME NEW n \in 0 .. 7 PROVE AUX[n] \notin CC["preset"] /\ AUX[n] # "pan_manual"
  BY <1>3, <1>5, <1>6
<1> QED
  BY <1>7, <1>8, <1>9

LEMMA SpeedRange ==
    ASSUME NEW n \in 0 .. 7
    PROVE  /\ SPEED[n] \in 1 .. SPEED_MAX
           /\ n # 7 => SPEED[n] = 256 * (n + 1)
           /\ SPEED[7] = SPEED_MAX
<1>1. SPEED[n] = IF n = 7 THEN SPEED_MAX ELSE 256 * (n + 1)
  BY DEF SPEED, SPEED_FULL
<1>2. SPEED[7] = SPEED_MAX
  BY DEF SPEED, SPEED_FULL
<1>3. SPEED_MAX \in Nat /\ 256 * 7 < SPEED_MAX
  BY PacketAssumption, ManchesterAssumption DEF SPEED_FULL
<1> QED
  BY <1>1, <1>2, <1>3

\* What is decoded from the bytes of a message is what its command says, in its
\* own group, and nothing of another.
LEMMA CommandTells ==
    ASSUME NEW p \in Decoded, Modes(p), NEW m \in Messages, NEW g \in Groups,
           Function(m.cmd) \in CC[g],
           NEW b, \A j \in 1 .. SIZE_MSG : b[j] = encode_message(m)[j],
           NEW q, q = decode_packet(p, b)
    PROVE  Told(p, q, g, Function(m.cmd), Number(m.cmd))
<1> DEFINE c == m.cmd
<1>1. /\ c.pt \in BOOLEAN /\ c.cmnd \in 0 .. 3 /\ c.extra \in 0 .. 7
  BY DEF Messages, Commands
<1>2. is_pan_tilt_command(b) = c.pt /\ decode_command(b) = c.cmnd /\ pt_extra(b) = c.extra
  <2>1. b[1] = encode_message(m)[1] /\ b[2] = encode_message(m)[2] /\ b[3] = encode_message(m)[3]
    BY DEF SIZE_MSG
  <2>2. /\ is_pan_tilt_command(b) = is_pan_tilt_command(encode_message(m))
        /\ decode_command(b) = decode_command(encode_message(m))
        /\ pt_extra(b) = pt_extra(encode_message(m))
    BY <2>1 DEF is_pan_tilt_command, decode_command, pt_extra
  <2> QED
    BY <2>2, MessageRoundTrip
<1>3. q = IF c.pt THEN decode_pan_tilt(p, PT[c.cmnd], SPEED[c.extra])
                  ELSE decode_extended(p, c.cmnd, c.extra)
  BY <1>2 DEF decode_packet
<1>4. /\ "pan" \in Groups /\ "tilt" \in Groups /\ "preset" \in Groups
      /\ CC.preset = CC["preset"]
  BY GroupsAre
<1> HIDE DEF c
<1>5. CASE c.pt
  <2>1. Function(c) = PT[c.cmnd] /\ Number(c) = SPEED[c.extra]
    BY <1>5 DEF Function, Number
  <2>2. Function(c) \in Cases("tilt") \cup Cases("pan")
    BY <1>1, <2>1, TableFunctions
  <2>3. g \in {"pan", "tilt"} /\ Function(c) \in Cases(g)
    <3>1. Function(c) \in CC[g]
      BY DEF c
    <3> QED
      BY <1>4, <2>2, <3>1, GroupsDisjoint DEF Cases
  <2>4. SPEED[c.extra] \in 0 .. SPEED_MAX
    BY <1>1, SpeedRange
  <2>5. Told(p, q, g, Function(c), SPEED[c.extra])
    BY <1>3, <1>5, <2>1, <2>3, <2>4, PanTiltTells
  <2> QED
    BY <2>1, <2>5 DEF c
<1>6. CASE ~c.pt /\ c.cmnd \in {EX_LENS, EX_AUX}
  <2>1. /\ Function(c) \notin CC["preset"] /\ Function(c) # "pan_manual"
        /\ q = decode_function(p, Function(c))
        /\ c.cmnd \notin {EX_RECALL, EX_STORE}
    <3>1. CASE c.cmnd = EX_LENS
      <4>1. Function(c) = LENS[c.extra]
        BY <1>6, <3>1 DEF Function, EX_LENS, EX_AUX, EX_RECALL, EX_STORE
      <4>2. q = decode_function(p, LENS[c.extra])
        BY <1>3, <1>6, <3>1 DEF decode_extended, EX_LENS, EX_AUX, EX_RECALL, EX_STORE
      <4> QED
        BY <1>1, <3>1, <4>1, <4>2, TableFunctions DEF EX_LENS, EX_RECALL, EX_STORE
    <3>2. CASE c.cmnd = EX_AUX
      <4>1. Function(c) = AUX[c.extra]
        BY <1>6, <3>2 DEF Function, EX_LENS, EX_AUX, EX_RECALL, EX_STORE
      <4>2. q = decode_function(p, AUX[c.extra])
        BY <1>3, <1>6, <3>2 DEF decode_extended, EX_LENS, EX_AUX, EX_RECALL, EX_STORE
      <4> QED
        BY <1>1, <3>2, <4>1, <4>2, TableFunctions DEF EX_AUX, EX_RECALL, EX_STORE
    <3> QED
      BY <1>6, <3>1, <3>2
  <2>2. Function(c) \in CC[g]
    BY DEF c
  <2>3. g \in Groups \ {"preset"} /\ Function(c) \in Cases(g)
    BY <2>1, <2>2 DEF Cases
  <2>4. Told(p, q, g, Function(c), IF g \in {"pan", "tilt"} THEN SPEED_MAX ELSE 0)
    BY <2>1, <2>3, FunctionTells
  <2>5. Function(c) \in CC["pan"] \cup CC["tilt"] <=> g \in {"pan", "tilt"}
    BY <1>4, <2>2, GroupsDisjoint
  <2>6. Number(c) = IF g \in {"pan", "tilt"} THEN SPEED_MAX ELSE 0
    BY <1>6, <2>1, <2>5 DEF Number
  <2> QED
    BY <2>4, <2>6 DEF c
<1>7. CASE ~c.pt /\ c.cmnd \in {EX_RECALL, EX_STORE}
  <2> DEFINE f == IF c.cmnd = EX_RECALL THEN "preset_recall" ELSE "preset_store"
  <2>1. Function(c) = f /\ Number(c) = c.extra + 1 /\ c.extra + 1 \in 1 .. 8
    BY <1>1, <1>7 DEF Function, Number, EX_LENS, EX_AUX, EX_RECALL, EX_STORE
  <2>2. q = ccpacket_set_preset(p, {f}, c.extra + 1)
    BY <1>3, <1>7, SMTT(30) DEF decode_extended, EX_LENS, EX_AUX, EX_RECALL, EX_STORE
  <2>3. f \in Cases("preset") /\ f \in CC["preset"]
    BY DEF CC, Cases
  <2> HIDE DEF f
  <2>4. g = "preset"
    <3>1. f \in CC[g]
      BY <2>1 DEF c
    <3> QED
      BY <1>4, <2>3, <3>1, GroupsDisjoint
  <2>5. Told(p, q, "preset", f, c.extra + 1)
    BY <2>1, <2>2, <2>3, PresetTells
  <2> QED
    BY <2>1, <2>4, <2>5 DEF c
<1>8. c.cmnd \in {EX_LENS, EX_AUX} \/ c.cmnd \in {EX_RECALL, EX_STORE}
  BY <1>1 DEF EX_LENS, EX_AUX, EX_RECALL, EX_STORE
<1> QED
  BY <1>5, <1>6, <1>7, <1>8

-----------------------------------------------------------------------------
(* The commands of a packet say what is asked, each group once.             *)

\* The packet asks something of group g that the protocol can carry.
Asks(p, g) == Mode(p, g) # {} /\ Carried(p, g)

\* The number the packet asks for, as it is carried.
Asked(p, g) == IF g \in {"pan", "tilt"} THEN Rounded(Value(p, g)) ELSE Value(p, g)

\* Command c says what packet p asks of group g.
Said(c, p, g) == Asks(p, g) /\ Mode(p, g) = {Function(c)} /\ Number(c) = Asked(p, g)

\* The commands say what p asks of the groups gs, each once, and nothing else.
SaysAll(cs, p, gs) ==
    /\ cs \in Seq(Commands)
    /\ \A j \in 1 .. Len(cs) : \E g \in gs : Said(cs[j], p, g)
    /\ \A g \in gs : Asks(p, g) => \E j \in 1 .. Len(cs) : Said(cs[j], p, g)
    /\ \A i, j \in 1 .. Len(cs) : \A g \in gs : Said(cs[i], p, g) /\ Said(cs[j], p, g) => i = j

LEMMA SaysNothing ==
    ASSUME NEW p, NEW gs, \A g \in gs : ~Asks(p, g)
    PROVE  SaysAll(<< >>, p, gs)
BY DEF SaysAll

LEMMA SaysOne ==
    ASSUME NEW p, NEW gs, NEW g \in gs, NEW c \in Commands, Said(c, p, g),
           \A h \in gs : h # g => ~Asks(p, h)
    PROVE  SaysAll(<<c>>, p, gs)
<1> DEFINE cs == <<c>>
<1>1. cs \in Seq(Commands) /\ Len(cs) = 1 /\ cs[1] = c
  OBVIOUS
<1>2. 1 .. Len(cs) = {1}
  BY <1>1
<1> HIDE DEF cs
<1>3. \A h \in gs : Asks(p, h) => Said(cs[1], p, h)
  BY <1>1
<1>4. \A j \in 1 .. Len(cs) : \E h \in gs : Said(cs[j], p, h)
  BY <1>1, <1>2
<1>5. SaysAll(cs, p, gs)
  BY <1>1, <1>2, <1>3, <1>4 DEF SaysAll
<1> QED
  BY <1>5 DEF cs

\* Commands about groups that have none in common are put together.
LEMMA SaysBoth ==
    ASSUME NEW p, NEW gs \in SUBSET Groups, NEW hs \in SUBSET Groups, gs \cap hs = {},
           NEW cs, NEW ds, SaysAll(cs, p, gs), SaysAll(ds, p, hs)
    PROVE  SaysAll(cs \o ds, p, gs \cup hs)
<1> DEFINE es == cs \o ds
           c  == Len(cs)
           d  == Len(ds)
<1>1. /\ cs \in Seq(Commands) /\ ds \in Seq(Commands) /\ c \in Nat /\ d \in Nat
  BY DEF SaysAll
<1>2. /\ es \in Seq(Commands) /\ Len(es) = c + d
      /\ \A j \in 1 .. c : es[j] = cs[j]
      /\ \A j \in 1 .. d : es[c + j] = ds[j]
  BY <1>1, BytesBehind
<1>3. ASSUME NEW j \in 1 .. Len(es)
      PROVE  \/ j \in 1 .. c /\ es[j] = cs[j]
             \/ j - c \in 1 .. d /\ es[j] = ds[j - c]
  <2>1. CASE j <= c
    BY <1>1, <1>2, <2>1
  <2>2. CASE j > c
    <3>1. j - c \in 1 .. d /\ c + (j - c) = j
      BY <1>1, <1>2, <2>2
    <3> QED
      BY <1>2, <3>1
  <2> QED
    BY <1>1, <1>2, <2>1, <2>2
<1>4. \A a, b : \A g, h \in Groups : Said(a, p, g) /\ Said(a, p, h) => g = h
  BY ModeOfOne DEF Said
<1> HIDE DEF es, c, d
<1>5. ASSUME NEW j \in 1 .. Len(es)
      PROVE  \E g \in gs \cup hs : Said(es[j], p, g)
  <2>1. CASE j \in 1 .. c /\ es[j] = cs[j]
    BY <2>1 DEF SaysAll, c
  <2>2. CASE j - c \in 1 .. d /\ es[j] = ds[j - c]
    BY <2>2 DEF SaysAll, d
  <2> QED
    BY <1>3, <2>1, <2>2
<1>6. ASSUME NEW g \in gs \cup hs, Asks(p, g)
      PROVE  \E j \in 1 .. Len(es) : Said(es[j], p, g)
  <2>1. CASE g \in gs
    <3>1. PICK j \in 1 .. c : Said(cs[j], p, g)
      BY <1>6, <2>1 DEF SaysAll, c
    <3>2. j \in 1 .. Len(es) /\ es[j] = cs[j]
      BY <1>1, <1>2, <3>1
    <3> QED
      BY <3>1, <3>2
  <2>2. CASE g \in hs
    <3>1. PICK j \in 1 .. d : Said(ds[j], p, g)
      BY <1>6, <2>2 DEF SaysAll, d
    <3>2. c + j \in 1 .. Len(es) /\ es[c + j] = ds[j]
      BY <1>1, <1>2, <3>1
    <3> QED
      BY <3>1, <3>2
  <2> QED
    BY <2>1, <2>2
<1>7. ASSUME NEW i \in 1 .. Len(es), NEW j \in 1 .. Len(es), NEW g \in gs \cup hs,
             Said(es[i], p, g), Said(es[j], p, g)
      PROVE  i = j
  <2>1. \A k \in 1 .. c : Said(cs[k], p, g) => g \in gs
    <3> SUFFICES ASSUME NEW k \in 1 .. c, Said(cs[k], p, g) PROVE g \in gs
      OBVIOUS
    <3>1. PICK h \in gs : Said(cs[k], p, h)
      BY DEF SaysAll, c
    <3> QED
      BY <1>4, <3>1
  <2>2. \A k \in 1 .. d : Said(ds[k], p, g) => g \in hs
    <3> SUFFICES ASSUME NEW k \in 1 .. d, Said(ds[k], p, g) PROVE g \in hs
      OBVIOUS
    <3>1. PICK h \in hs : Said(ds[k], p, h)
      BY DEF SaysAll, d
    <3> QED
      BY <1>4, <3>1
  <2>3. CASE i \in 1 .. c /\ es[i] = cs[i] /\ j \in 1 .. c /\ es[j] = cs[j]
    BY <1>7, <2>1, <2>3 DEF SaysAll, c
  <2>4. CASE /\ i - c \in 1 .. d /\ es[i] = ds[i - c]
             /\ j - c \in 1 .. d /\ es[j] = ds[j - c]
    <3>1. g \in hs
      BY <1>7, <2>2, <2>4
    <3>2. i - c = j - c
      BY <1>7, <2>4, <3>1 DEF SaysAll, d
    <3> QED
      BY <1>1, <1>2, <3>2
  <2>5. ~(i \in 1 .. c /\ es[i] = cs[i] /\ j - c \in 1 .. d /\ es[j] = ds[j - c])
    BY <1>7, <2>1, <2>2
  <2>6. ~(j \in 1 .. c /\ es[j] = cs[j] /\ i - c \in 1 .. d /\ es[i] = ds[i - c])
    BY <1>7, <2>1, <2>2
  <2> QED
    BY <1>3, <2>3, <2>4, <2>5, <2>6
<1>8. SaysAll(es, p, gs \cup hs)
  BY <1>2, <1>5, <1>6, <1>7 DEF SaysAll
<1> QED
  BY <1>8 DEF es

LEMMA CodeIs ==
    ASSUME NEW table, NEW f, f \in Codes(table)
    PROVE  Code(table, f) \in DOMAIN table /\ table[Code(table, f)] = f
BY DEF Code, Codes

\* The functions that have a code.
LEMMA CodesAre ==
    /\ Codes(PT) = {"tilt_down", "tilt_up", "pan_left", "pan_right"}
    /\ Codes(LENS) = {"tilt_down", "iris_open", "focus_far", "zoom_in",
                      "iris_close", "focus_near", "zoom_out", "pan_left"}
    /\ Codes(AUX) = {"tilt_up", "pan_right", "camera_off", "camera_on",
                     "aux_2", "aux_5", "aux_3", "wiper_on"}
<1>1. 0 .. 3 = {0, 1, 2, 3} /\ 0 .. 7 = {0, 1, 2, 3, 4, 5, 6, 7}
  OBVIOUS
<1>2. Codes(PT) = {PT[0], PT[1], PT[2], PT[3]}
  BY <1>1, Tables DEF Codes
<1>3. Codes(LENS) = {LENS[0], LENS[1], LENS[2], LENS[3], LENS[4], LENS[5], LENS[6], LENS[7]}
  BY <1>1, Tables DEF Codes
<1>4. Codes(AUX) = {AUX[0], AUX[1], AUX[2], AUX[3], AUX[4], AUX[5], AUX[6], AUX[7]}
  BY <1>1, Tables DEF Codes
<1>5. PT[0] = "tilt_down" /\ PT[1] = "tilt_up" /\ PT[2] = "pan_left" /\ PT[3] = "pan_right"
  BY DEF PT
<1>6. /\ LENS[0] = "tilt_down" /\ LENS[1] = "iris_open" /\ LENS[2] = "focus_far"
      /\ LENS[3] = "zoom_in" /\ LENS[4] = "iris_close" /\ LENS[5] = "focus_near"
      /\ LENS[6] = "zoom_out" /\ LENS[7] = "pan_left"
  BY DEF LENS
<1>7. /\ AUX[0] = "tilt_up" /\ AUX[1] = "pan_right" /\ AUX[2] = "camera_off"
      /\ AUX[3] = "camera_on" /\ AUX[4] = "aux_2" /\ AUX[5] = "aux_5"
      /\ AUX[6] = "aux_3" /\ AUX[7] = "wiper_on"
  BY DEF AUX
<1> QED
  BY <1>2, <1>3, <1>4, <1>5, <1>6, <1>7

\* A function that has a code of its own becomes one command, others none.
LEMMA FunctionCommand ==
    ASSUME NEW f, f \in Codes(LENS) \cup Codes(AUX)
    PROVE  \E c \in Commands :
              /\ encode_function({f}) = <<c>>
              /\ Function(c) = f
              /\ Number(c) = IF f \in CC["pan"] \cup CC["tilt"] THEN SPEED_MAX ELSE 0
<1>1. CASE f \in Codes(LENS)
  <2> DEFINE c == [pt |-> FALSE, cmnd |-> EX_LENS, extra |-> Code(LENS, f)]
  <2>1. Code(LENS, f) \in 0 .. 7 /\ LENS[Code(LENS, f)] = f
    BY <1>1, CodeIs, Tables
  <2>2. c \in Commands /\ c.pt = FALSE /\ c.cmnd = EX_LENS /\ c.extra = Code(LENS, f)
    BY <2>1 DEF Commands, EX_LENS
  <2>3. {f} \cap Codes(LENS) # {} /\ (CHOOSE x \in {f} \cap Codes(LENS) : TRUE) = f
    BY <1>1
  <2>4. encode_function({f}) = <<c>>
    BY <2>3 DEF encode_function
  <2> HIDE DEF c
  <2>5. Function(c) = f
    BY <2>1, <2>2 DEF Function, EX_LENS, EX_AUX, EX_RECALL, EX_STORE
  <2>6. Number(c) = IF f \in CC["pan"] \cup CC["tilt"] THEN SPEED_MAX ELSE 0
    BY <2>2, <2>5 DEF Number, EX_LENS, EX_RECALL, EX_STORE
  <2> QED
    BY <2>2, <2>4, <2>5, <2>6
<1>2. CASE f \in Codes(AUX) /\ f \notin Codes(LENS)
  <2> DEFINE c == [pt |-> FALSE, cmnd |-> EX_AUX, extra |-> Code(AUX, f)]
  <2>1. Code(AUX, f) \in 0 .. 7 /\ AUX[Code(AUX, f)] = f
    BY <1>2, CodeIs, Tables
  <2>2. c \in Commands /\ c.pt = FALSE /\ c.cmnd = EX_AUX /\ c.extra = Code(AUX, f)
    BY <2>1 DEF Commands, EX_AUX
  <2>3. /\ ~({f} \cap Codes(LENS) # {}) /\ {f} \cap Codes(AUX) # {}
        /\ (CHOOSE x \in {f} \cap Codes(AUX) : TRUE) = f
    BY <1>2
  <2>4. encode_function({f}) = <<c>>
    BY <2>3 DEF encode_function
  <2> HIDE DEF c
  <2>5. Function(c) = f
    BY <2>1, <2>2 DEF Function, EX_LENS, EX_AUX, EX_RECALL, EX_STORE
  <2>6. Number(c) = IF f \in CC["pan"] \cup CC["tilt"] THEN SPEED_MAX ELSE 0
    BY <2>2, <2>5 DEF Number, EX_AUX, EX_RECALL, EX_STORE
  <2> QED
    BY <2>2, <2>4, <2>5, <2>6
<1> QED
  BY <1>1, <1>2

LEMMA NoCommand ==
    ASSUME NEW modes, modes \cap (Codes(LENS) \cup Codes(AUX)) = {}
    PROVE  encode_function(modes) = << >>
<1>1. modes \cap Codes(LENS) = {} /\ modes \cap Codes(AUX) = {}
  OBVIOUS
<1> QED
  BY <1>1 DEF encode_function

\* The level that a speed is encoded with is the one it is rounded up to.
LEMMA LevelIsRounded ==
    ASSUME NEW s \in 1 .. SPEED_MAX
    PROVE  /\ manchester_encode_speed(s) \in 0 .. 7
           /\ SPEED[manchester_encode_speed(s)] = Rounded(s)
<1> DEFINE n == manchester_encode_speed(s)
<1>1. n \in 0 .. 7
  BY SpeedLevel DEF SPEED_FULL
<1>2. /\ SPEED_MAX \in Nat /\ 1792 < SPEED_MAX
      /\ \A k \in 0 .. 6 : SPEED[k] = 256 * (k + 1)
      /\ SPEED[7] = SPEED_MAX
      /\ \A k \in 0 .. 7 : SPEED[k] \in Nat
  <2>1. SPEED_MAX \in Nat /\ 256 * 7 < SPEED_MAX
    BY PacketAssumption, ManchesterAssumption DEF SPEED_FULL
  <2>2. ASSUME NEW k \in 0 .. 6 PROVE SPEED[k] = 256 * (k + 1)
    BY SpeedRange
  <2>3. ASSUME NEW k \in 0 .. 7 PROVE SPEED[k] \in Nat
    <3>1. SPEED[k] \in 1 .. SPEED_MAX
      BY SpeedRange
    <3> QED
      BY <2>1, <3>1
  <2>4. SPEED[7] = SPEED_MAX
    <3>1. 7 \in 0 .. 7
      OBVIOUS
    <3> QED
      BY <3>1, SpeedRange
  <2> QED
    BY <2>1, <2>2, <2>3, <2>4
<1>3. s \in Nat /\ s >= 1 /\ s <= SPEED_MAX
  BY <1>2
<1>4. SPEED[n] >= s /\ \A k \in 0 .. 7 : k < n => SPEED[k] < s
  <2>1. CASE \E k \in 0 .. SPEED_FULL - 1 : SPEED[k] >= s
    <3> DEFINE w == (s - 1) \div 256
    <3>1. s <= 1792
      <4>1. PICK k \in 0 .. 6 : SPEED[k] >= s
        BY <2>1 DEF SPEED_FULL
      <4>2. SPEED[k] = 256 * (k + 1) /\ k \in Nat /\ k <= 6
        BY <1>2
      <4> QED
        BY <1>3, <4>1, <4>2
    <3>2. w \in 0 .. 6 /\ 256 * (w + 1) >= s /\ 256 * w < s
      BY <1>3, <3>1
    <3> HIDE DEF w
    <3>3. \A k \in 0 .. w - 1 : SPEED[k] < s
      <4> TAKE k \in 0 .. w - 1
      <4>1. k \in 0 .. 6 /\ k + 1 <= w
        BY <3>2
      <4>2. SPEED[k] = 256 * (k + 1) /\ 256 * (k + 1) <= 256 * w
        BY <1>2, <3>2, <4>1
      <4> QED
        BY <1>3, <3>2, <4>1, <4>2
    <3>4. SPEED[w] >= s
      BY <1>2, <3>2
    <3>5. \E k \in 0 .. 6 : SPEED[k] >= s /\ \A i \in 0 .. k - 1 : SPEED[i] < s
      BY <3>2, <3>3, <3>4
    <3>6. SPEED_FULL - 1 = 6
      BY DEF SPEED_FULL
    <3>7. n = CHOOSE k \in 0 .. 6 : SPEED[k] >= s /\ \A i \in 0 .. k - 1 : SPEED[i] < s
      BY <2>1, <3>6 DEF manchester_encode_speed
    <3>8. SPEED[n] >= s /\ n \in 0 .. 6 /\ \A i \in 0 .. n - 1 : SPEED[i] < s
      BY <3>5, <3>7
    <3> HIDE DEF n
    <3>9. \A k \in 0 .. 7 : k < n => k \in 0 .. n - 1
      BY <3>8
    <3> QED
      BY <3>8, <3>9
  <2>2. CASE ~\E k \in 0 .. SPEED_FULL - 1 : SPEED[k] >= s
    <3>1. n = 7
      BY <2>2 DEF manchester_encode_speed, SPEED_FULL
    <3>2. \A k \in 0 .. 7 : k < n => k \in 0 .. SPEED_FULL - 1
      BY <3>1 DEF SPEED_FULL
    <3>3. \A k \in 0 .. 7 : k < n => ~(SPEED[k] >= s)
      BY <2>2, <3>2
    <3>4. \A k \in 0 .. 7 : k < n => SPEED[k] < s
      BY <1>2, <1>3, <3>3
    <3> QED
      BY <1>2, <1>3, <3>1, <3>4
  <2> QED
    BY <2>1, <2>2
<1> HIDE DEF n
<1>5. Codes(SPEED) = {SPEED[k] : k \in 0 .. 7}
  BY Tables DEF Codes
<1>6. \A k, i \in 0 .. 7 : k <= i => SPEED[k] <= SPEED[i]
  <2> TAKE k, i \in 0 .. 7
  <2>1. k \in Nat /\ i \in Nat /\ k <= 7 /\ i <= 7
    OBVIOUS
  <2>2. CASE i = 7
    <3>1. CASE k = 7
      BY <1>2, <2>2, <3>1
    <3>2. CASE k # 7
      <4>1. k \in 0 .. 6
        BY <2>1, <3>2
      <4>2. SPEED[k] = 256 * (k + 1) /\ 256 * (k + 1) <= 1792
        BY <1>2, <2>1, <4>1
      <4> QED
        BY <1>2, <2>1, <2>2, <4>2
    <3> QED
      BY <3>1, <3>2
  <2>3. CASE i # 7 /\ k <= i
    <3>1. i \in 0 .. 6 /\ k \in 0 .. 6
      BY <2>1, <2>3
    <3>2. SPEED[i] = 256 * (i + 1) /\ SPEED[k] = 256 * (k + 1)
      BY <1>2, <3>1
    <3> QED
      BY <2>1, <2>3, <3>2
  <2> QED
    BY <2>2, <2>3
<1>7. \A l \in Codes(SPEED) : l \in Nat /\ (l >= s => l >= SPEED[n])
  <2> TAKE l \in Codes(SPEED)
  <2>1. PICK k \in 0 .. 7 : l = SPEED[k]
    BY <1>5
  <2>2. l \in Nat
    BY <1>2, <2>1
  <2>3. l >= s => k >= n
    BY <1>1, <1>3, <1>4, <2>1, <2>2
  <2>4. k >= n => SPEED[n] <= SPEED[k]
    BY <1>1, <1>6
  <2>5. SPEED[n] \in Nat
    BY <1>1, <1>2
  <2> QED
    BY <2>1, <2>2, <2>3, <2>4, <2>5
<1>8. SPEED[n] \in Codes(SPEED)
  BY <1>1, <1>5
<1> DEFINE v == SPEED[n]
           Best(l) == l >= s /\ \A k \in Codes(SPEED) : k >= s => k >= l
<1>9. v \in Codes(SPEED) /\ Best(v)
  BY <1>4, <1>7, <1>8
<1>10. \A l \in Codes(SPEED) : Best(l) => l = v
  <2> TAKE l \in Codes(SPEED)
  <2>1. Best(l) => v >= l /\ l >= v
    BY <1>9
  <2>2. v \in Nat /\ l \in Nat
    BY <1>7, <1>9
  <2> HIDE DEF v, Best
  <2> QED
    BY <2>1, <2>2
<1>11. Rounded(s) = CHOOSE l \in Codes(SPEED) : Best(l)
  BY DEF Rounded
<1> HIDE DEF v, Best
<1>12. Rounded(s) = v
  BY <1>9, <1>10, <1>11
<1> QED
  BY <1>1, <1>12 DEF v, n

\* A function with a code, and nothing else, is what is said of its group.
LEMMA FunctionSays ==
    ASSUME NEW p, NEW gs \in SUBSET (Groups \ {"pan", "tilt", "preset"}), NEW g \in gs,
           NEW f, Mode(p, g) = {f}, Carried(p, g), f \in Codes(LENS) \cup Codes(AUX),
           \A h \in gs : h # g => ~Asks(p, h)
    PROVE  SaysAll(encode_function({f}), p, gs)
<1>1. PICK c \in Commands :
          /\ encode_function({f}) = <<c>>
          /\ Function(c) = f
          /\ Number(c) = IF f \in CC["pan"] \cup CC["tilt"] THEN SPEED_MAX ELSE 0
  BY FunctionCommand
<1>2. f \notin CC["pan"] \cup CC["tilt"]
  <2>1. "pan" \in Groups /\ "tilt" \in Groups /\ g \in Groups /\ g \notin {"pan", "tilt"}
    BY GroupsAre
  <2>2. f \in CC[g]
    BY <2>1, ModeIs
  <2> QED
    BY <2>1, <2>2, GroupsDisjoint
<1>3. Asked(p, g) = 0
  BY DEF Asked, Value
<1>4. Said(c, p, g)
  BY <1>1, <1>2, <1>3 DEF Said, Asks
<1> QED
  BY <1>1, <1>4, SaysOne

\* encode_zoom, encode_focus and encode_iris.
LEMMA LensSays ==
    ASSUME NEW p, NEW g \in {"zoom", "focus", "iris"}
    PROVE  SaysAll(encode_function(Get(p, g)), p, {g})
<1>1. g \in Groups /\ {g} \in SUBSET (Groups \ {"pan", "tilt", "preset"})
  BY GroupsAre
<1>2. Mode(p, g) = Get(p, g)
  BY DEF Mode
<1>3. CASE Mode(p, g) = {}
  <2>1. encode_function(Get(p, g)) = << >>
    BY <1>2, <1>3, NoCommand
  <2>2. \A h \in {g} : ~Asks(p, h)
    BY <1>3 DEF Asks
  <2> QED
    BY <2>1, <2>2, SaysNothing
<1>4. CASE \E f \in Cases(g) : Mode(p, g) = {f}
  <2>1. PICK f \in Cases(g) : Mode(p, g) = {f}
    BY <1>4
  <2>2. f \in Codes(LENS) \/ f \in {"focus_auto", "iris_auto"}
    BY CodesAre DEF Cases, CC
  <2>3. CASE f \in {"focus_auto", "iris_auto"}
    <3>1. f \notin Codes(LENS) /\ f \notin Codes(AUX)
      BY <2>3, CodesAre
    <3>2. encode_function(Get(p, g)) = << >>
      BY <1>2, <2>1, <3>1, NoCommand
    <3>3. (g = "focus" /\ f = "focus_auto") \/ (g = "iris" /\ f = "iris_auto")
      BY <2>1, <2>3 DEF Cases, CC
    <3>4. ~Carried(p, g)
      BY <2>1, <3>3 DEF Carried
    <3>5. \A h \in {g} : ~Asks(p, h)
      BY <3>4 DEF Asks
    <3> QED
      BY <3>2, <3>5, SaysNothing
  <2>4. CASE f \notin {"focus_auto", "iris_auto"}
    <3>1. {f} # {"focus_auto"} /\ {f} # {"iris_auto"}
      BY <2>4
    <3>2. Carried(p, g)
      BY <2>1, <3>1 DEF Carried
    <3>3. \A h \in {g} : h # g => ~Asks(p, h)
      OBVIOUS
    <3>4. SaysAll(encode_function({f}), p, {g})
      BY <1>1, <2>1, <2>2, <2>4, <3>2, <3>3, FunctionSays
    <3> QED
      BY <1>2, <2>1, <3>4
  <2> QED
    BY <2>3, <2>4
<1> QED
  BY <1>1, <1>3, <1>4, ModeIs

\* encode_aux: the wiper is left out when the camera is switched.
LEMMA AuxSays ==
    ASSUME NEW p
    PROVE  SaysAll(encode_aux(p), p, {"camera", "wiper"})
<1> DEFINE gs == {"camera", "wiper"}
<1>1. /\ "camera" \in Groups /\ "wiper" \in Groups
      /\ gs \in SUBSET (Groups \ {"pan", "tilt", "preset"})
  BY GroupsAre
<1>2. Mode(p, "camera") = Get(p, "camera") /\ Mode(p, "wiper") = Get(p, "wiper")
  BY DEF Mode
<1>3. CASE Mode(p, "camera") # {}
  <2>1. PICK f \in Cases("camera") : Mode(p, "camera") = {f}
    BY <1>1, <1>3, ModeIs
  <2>2. encode_aux(p) = encode_function({f})
    BY <1>2, <1>3, <2>1 DEF encode_aux
  <2>3. f \in Codes(LENS) \cup Codes(AUX)
    BY CodesAre DEF Cases, CC
  <2>4. Carried(p, "camera") /\ ~Carried(p, "wiper")
    BY <1>3 DEF Carried
  <2>5. \A h \in gs : h # "camera" => ~Asks(p, h)
    BY <2>4 DEF Asks
  <2>6. SaysAll(encode_function({f}), p, gs)
    BY <1>1, <2>1, <2>3, <2>4, <2>5, FunctionSays
  <2> QED
    BY <2>2, <2>6
<1>4. CASE Mode(p, "camera") = {} /\ Mode(p, "wiper") = {"wiper_on"}
  <2>1. encode_aux(p) = encode_function({"wiper_on"})
    BY <1>2, <1>4 DEF encode_aux
  <2>2. "wiper_on" \in Codes(LENS) \cup Codes(AUX)
    BY CodesAre
  <2>3. Carried(p, "wiper")
    BY <1>4 DEF Carried
  <2>4. \A h \in gs : h # "wiper" => ~Asks(p, h)
    BY <1>4 DEF Asks
  <2>5. SaysAll(encode_function({"wiper_on"}), p, gs)
    BY <1>1, <1>4, <2>2, <2>3, <2>4, FunctionSays
  <2> QED
    BY <2>1, <2>5
<1>5. CASE Mode(p, "camera") = {} /\ Mode(p, "wiper") # {"wiper_on"}
  <2>1. Mode(p, "wiper") = {} \/ \E f \in Cases("wiper") : Mode(p, "wiper") = {f}
    BY <1>1, ModeIs
  <2>2. Cases("wiper") = {"wiper_on", "wiper_off"}
    BY DEF Cases, CC
  <2>3. Mode(p, "wiper") = {} \/ Mode(p, "wiper") = {"wiper_off"}
    BY <1>5, <2>1, <2>2
  <2>4. Mode(p, "wiper") \cap (Codes(LENS) \cup Codes(AUX)) = {}
    BY <2>3, CodesAre
  <2>5. encode_aux(p) = << >>
    BY <1>2, <1>5, <2>4, NoCommand DEF encode_aux
  <2>6. ~Carried(p, "wiper")
    BY <1>5 DEF Carried
  <2>7. \A h \in gs : ~Asks(p, h)
    BY <1>5, <2>6 DEF Asks
  <2> QED
    BY <2>5, <2>7, SaysNothing
<1> QED
  BY <1>3, <1>4, <1>5

\* encode_pan and encode_tilt, called when there is a speed.
LEMMA PanTiltSays ==
    ASSUME NEW p, NEW g \in {"pan", "tilt"}, NEW s \in 0 .. SPEED_MAX, Value(p, g) = s
    PROVE  SaysAll(IF s # 0 THEN encode_pan_tilt(Get(p, g), s) ELSE << >>, p, {g})
<1> DEFINE cs == IF s # 0 THEN encode_pan_tilt(Get(p, g), s) ELSE << >>
<1>1. g \in Groups
  BY GroupsAre
<1>2. Mode(p, g) = Get(p, g)
  BY DEF Mode
<1>3. Carried(p, g) <=> s # 0 /\ Mode(p, g) # {"pan_auto"}
  BY DEF Carried
<1>4. CASE s = 0 \/ Mode(p, g) = {} \/ Mode(p, g) = {"pan_auto"}
  <2>1. Get(p, g) \cap Codes(PT) = {} \/ s = 0
    BY <1>2, <1>4, CodesAre
  <2>2. cs = << >>
    BY <2>1 DEF encode_pan_tilt
  <2>3. \A h \in {g} : ~Asks(p, h)
    BY <1>3, <1>4 DEF Asks
  <2> QED
    BY <2>2, <2>3, SaysNothing
<1>5. CASE s # 0 /\ Mode(p, g) # {} /\ Mode(p, g) # {"pan_auto"}
  <2>1. PICK f \in Cases(g) : Mode(p, g) = {f}
    BY <1>1, <1>5, ModeIs
  <2>2. /\ f # "pan_auto" /\ f \in CC[g]
    BY <1>5, <2>1 DEF Cases
  <2>3. f \in Codes(PT) /\ f \in Codes(LENS) \cup Codes(AUX)
    BY <2>1, <2>2, CodesAre DEF Cases, CC
  <2>4. Asks(p, g) /\ Asked(p, g) = Rounded(s)
    BY <1>3, <1>5 DEF Asks, Asked
  <2>5. s \in 1 .. SPEED_MAX
    BY <1>5, PacketAssumption
  <2> DEFINE n == manchester_encode_speed(s)
  <2>6. n \in 0 .. 7 /\ SPEED[n] = Rounded(s)
    BY <2>5, LevelIsRounded
  <2>7. /\ Get(p, g) = {f} /\ ~({f} \cap Codes(PT) = {})
        /\ (CHOOSE x \in {f} \cap Codes(PT) : TRUE) = f
    BY <1>2, <2>1, <2>3
  <2>8. \A h \in {g} : h # g => ~Asks(p, h)
    OBVIOUS
  <2>9. CASE n = SPEED_FULL
    <3>1. cs = encode_function({f})
      BY <1>5, <2>7, <2>9 DEF encode_pan_tilt
    <3>2. PICK c \in Commands :
              /\ encode_function({f}) = <<c>>
              /\ Function(c) = f
              /\ Number(c) = IF f \in CC["pan"] \cup CC["tilt"] THEN SPEED_MAX ELSE 0
      BY <2>3, FunctionCommand
    <3>3. Number(c) = Rounded(s)
      <4>1. SPEED[n] = SPEED_MAX
        BY <2>6, <2>9, SpeedRange DEF SPEED_FULL
      <4>2. f \in CC["pan"] \cup CC["tilt"]
        BY <2>2
      <4> QED
        BY <2>6, <3>2, <4>1, <4>2
    <3>4. Said(c, p, g)
      BY <2>1, <2>4, <3>2, <3>3 DEF Said
    <3> QED
      BY <2>8, <3>1, <3>2, <3>4, SaysOne
  <2>10. CASE n # SPEED_FULL
    <3> DEFINE c == [pt |-> TRUE, cmnd |-> Code(PT, f), extra |-> n]
    <3>1. Code(PT, f) \in 0 .. 3 /\ PT[Code(PT, f)] = f
      BY <2>3, CodeIs, Tables
    <3>2. c \in Commands /\ c.pt = TRUE /\ c.cmnd = Code(PT, f) /\ c.extra = n
      BY <2>6, <3>1 DEF Commands
    <3>3. cs = <<c>>
      BY <1>5, <2>7, <2>10 DEF encode_pan_tilt
    <3> HIDE DEF c
    <3>4. Function(c) = f /\ Number(c) = Rounded(s)
      BY <2>6, <3>1, <3>2 DEF Function, Number
    <3>5. Said(c, p, g)
      BY <2>1, <2>4, <3>4 DEF Said
    <3> QED
      BY <2>8, <3>2, <3>3, <3>5, SaysOne
  <2> QED
    BY <2>9, <2>10
<1> QED
  BY <1>4, <1>5

LEMMA PresetSays ==
    ASSUME NEW p, p.preset \in Nat
    PROVE  SaysAll(encode_preset(p), p, {"preset"})
<1> DEFINE md == ccpacket_get_preset_mode(p)
<1>1. "preset" \in Groups /\ Mode(p, "preset") = md /\ Value(p, "preset") = p.preset
  BY GroupsAre DEF Mode, Value
<1>2. md \in {{}, {"preset_recall"}, {"preset_store"}, {"preset_clear"}}
  <2>1. Cases("preset") = {"preset_recall", "preset_store", "preset_clear"}
    BY DEF Cases, CC
  <2>2. md = {} \/ \E f \in Cases("preset") : md = {f}
    BY <1>1, ModeIs
  <2> QED
    BY <2>1, <2>2
<1>3. p.preset = 0 => md = {}
  BY DEF ccpacket_get_preset_mode, ccpacket_preset
<1>4. Carried(p, "preset") <=> md # {"preset_clear"} /\ p.preset <= 8
  BY <1>1 DEF Carried
<1> HIDE DEF md
<1>5. CASE p.preset \in 1 .. 8 /\ md \in {{"preset_recall"}, {"preset_store"}}
  <2>1. PICK f \in {"preset_recall", "preset_store"} : md = {f}
    BY <1>5
  <2> DEFINE c == [pt |-> FALSE, extra |-> p.preset - 1,
                   cmnd |-> IF md = {"preset_recall"} THEN EX_RECALL ELSE EX_STORE]
  <2>2. encode_preset(p) = <<c>>
    <3>1. md \cap {"preset_recall", "preset_store"} # {}
      BY <2>1
    <3> QED
      BY <1>5, <3>1 DEF encode_preset, md
  <2>3. /\ c \in Commands /\ c.pt = FALSE /\ c.extra = p.preset - 1
        /\ c.cmnd = IF f = "preset_recall" THEN EX_RECALL ELSE EX_STORE
    <3>1. p.preset - 1 \in 0 .. 7
      BY <1>5
    <3>2. md = {"preset_recall"} <=> f = "preset_recall"
      BY <2>1
    <3> QED
      BY <3>1, <3>2 DEF Commands, EX_RECALL, EX_STORE
  <2> HIDE DEF c
  <2>4. Function(c) = f
    BY <2>3 DEF Function, EX_LENS, EX_AUX, EX_RECALL, EX_STORE
  <2>5. Number(c) = p.preset
    BY <1>5, <2>3 DEF Number, EX_RECALL, EX_STORE
  <2>6. Asks(p, "preset")
    <3>1. {f} # {"preset_clear"} /\ {f} # {}
      OBVIOUS
    <3> QED
      BY <1>1, <1>4, <1>5, <2>1, <3>1 DEF Asks
  <2>7. Asked(p, "preset") = p.preset
    BY <1>1 DEF Asked
  <2>8. Said(c, p, "preset")
    BY <1>1, <2>1, <2>4, <2>5, <2>6, <2>7 DEF Said
  <2>9. \A h \in {"preset"} : h # "preset" => ~Asks(p, h)
    OBVIOUS
  <2> QED
    BY <2>2, <2>3, <2>8, <2>9, SaysOne
<1>6. CASE ~(p.preset \in 1 .. 8 /\ md \in {{"preset_recall"}, {"preset_store"}})
  <2>1. ~(p.preset \in 1 .. 8 /\ md \cap {"preset_recall", "preset_store"} # {})
    BY <1>2, <1>6
  <2>2. encode_preset(p) = << >>
    BY <2>1 DEF encode_preset, md
  <2>3. ~Asks(p, "preset")
    <3>1. CASE p.preset \in 1 .. 8
      BY <1>1, <1>2, <1>4, <1>6, <3>1 DEF Asks
    <3>2. CASE p.preset = 0
      BY <1>1, <1>3, <3>2 DEF Asks
    <3>3. CASE p.preset > 8
      BY <1>4, <3>3 DEF Asks
    <3> QED
      BY <3>1, <3>2, <3>3
  <2>4. \A h \in {"preset"} : ~Asks(p, h)
    BY <2>3
  <2> QED
    BY <2>2, <2>4, SaysNothing
<1> QED
  BY <1>5, <1>6

\* manchester_do_write: the commands of a packet say all that it asks and the
\* protocol can carry, each group once, and nothing else.
THEOREM WriteSays ==
    ASSUME NEW p \in Packets
    PROVE  SaysAll(manchester_do_write(p), p, Groups)
<1> DEFINE pan == IF p.pan # 0 THEN encode_pan_tilt(Get(p, "pan"), p.pan) ELSE << >>
           tilt == IF p.tilt # 0 THEN encode_pan_tilt(Get(p, "tilt"), p.tilt) ELSE << >>
           zoom == encode_function(Get(p, "zoom"))
           focus == encode_function(Get(p, "focus"))
           iris == encode_function(Get(p, "iris"))
           aux == encode_aux(p)
           preset == encode_preset(p)
<1>1. p.pan \in 0 .. SPEED_MAX /\ p.tilt \in 0 .. SPEED_MAX /\ p.preset \in Nat
  BY ManchesterAssumption
<1>2. Value(p, "pan") = p.pan /\ Value(p, "tilt") = p.tilt
  BY DEF Value
<1>3. SaysAll(pan, p, {"pan"}) /\ SaysAll(tilt, p, {"tilt"})
  BY <1>1, <1>2, PanTiltSays
<1>4. SaysAll(zoom, p, {"zoom"}) /\ SaysAll(focus, p, {"focus"}) /\ SaysAll(iris, p, {"iris"})
  BY LensSays
<1>5. SaysAll(aux, p, {"camera", "wiper"}) /\ SaysAll(preset, p, {"preset"})
  BY <1>1, AuxSays, PresetSays
<1>6. manchester_do_write(p) = pan \o tilt \o zoom \o focus \o iris \o aux \o preset
  BY DEF manchester_do_write
<1> HIDE DEF pan, tilt, zoom, focus, iris, aux, preset
<1>7. SaysAll(pan \o tilt, p, {"pan", "tilt"})
  <2>1. {"pan"} \cup {"tilt"} = {"pan", "tilt"} /\ {"pan"} \cap {"tilt"} = {}
        /\ {"pan"} \in SUBSET Groups /\ {"tilt"} \in SUBSET Groups
    BY GroupsAre
  <2> QED
    BY <1>3, <2>1, SaysBoth
<1>8. SaysAll(pan \o tilt \o zoom, p, {"pan", "tilt", "zoom"})
  <2> DEFINE gs == {"pan", "tilt"}
  <2>1. gs \cup {"zoom"} = {"pan", "tilt", "zoom"} /\ gs \cap {"zoom"} = {}
        /\ gs \in SUBSET Groups /\ {"zoom"} \in SUBSET Groups
    BY GroupsAre
  <2> QED
    BY <1>4, <1>7, <2>1, SaysBoth
<1>9. SaysAll(pan \o tilt \o zoom \o focus, p, {"pan", "tilt", "zoom", "focus"})
  <2> DEFINE gs == {"pan", "tilt", "zoom"}
  <2>1. gs \cup {"focus"} = {"pan", "tilt", "zoom", "focus"} /\ gs \cap {"focus"} = {}
        /\ gs \in SUBSET Groups /\ {"focus"} \in SUBSET Groups
    BY GroupsAre
  <2> QED
    BY <1>4, <1>8, <2>1, SaysBoth
<1>10. SaysAll(pan \o tilt \o zoom \o focus \o iris, p, {"pan", "tilt", "zoom", "focus", "iris"})
  <2> DEFINE gs == {"pan", "tilt", "zoom", "focus"}
  <2>1. gs \cup {"iris"} = {"pan", "tilt", "zoom", "focus", "iris"} /\ gs \cap {"iris"} = {}
        /\ gs \in SUBSET Groups /\ {"iris"} \in SUBSET Groups
    BY GroupsAre
  <2> QED
    BY <1>4, <1>9, <2>1, SaysBoth
<1> DEFINE five  == {"pan", "tilt", "zoom", "focus", "iris"}
           seven == five \cup {"camera", "wiper"}
<1>11. SaysAll(pan \o tilt \o zoom \o focus \o iris \o aux, p, seven)
  <2>1. five \cap {"camera", "wiper"} = {}
        /\ five \in SUBSET Groups /\ {"camera", "wiper"} \in SUBSET Groups
    BY GroupsAre
  <2> QED
    BY <1>5, <1>10, <2>1, SaysBoth
<1>12. SaysAll(manchester_do_write(p), p, seven \cup {"preset"})
  <2>1. seven \cap {"preset"} = {}
        /\ seven \in SUBSET Groups /\ {"preset"} \in SUBSET Groups
    BY GroupsAre
  <2> HIDE DEF seven
  <2>2. SaysAll((pan \o tilt \o zoom \o focus \o iris \o aux) \o preset, p, seven \cup {"preset"})
    BY <1>5, <1>11, <2>1, SaysBoth
  <2> QED
    BY <1>6, <2>2
<1>13. \A g \in Groups : g \in seven \cup {"preset"} \/ ~Asks(p, g)
  BY GroupsAre DEF Asks, Carried
<1>14. seven \cup {"preset"} \subseteq Groups
  BY GroupsAre
<1> HIDE DEF seven
<1>15. \A c : \A g \in Groups : Said(c, p, g) => g \in seven \cup {"preset"}
  BY <1>13 DEF Said
<1> QED
  BY <1>12, <1>13, <1>14, <1>15 DEF SaysAll

-----------------------------------------------------------------------------
(* What is given follows what is sent: for each group of each camera, the   *)
(* packets given stand in the order of some of the messages, and none of    *)
(* the messages heard comes after the one of the last of them.              *)

Packed == {p \in Decoded : Modes(p)}

Entries == [receiver : Receivers, pkt : Packed]

\* The packets ds, and the first n of the messages ms, for group g of camera r.
For(ds, r, g) == {i \in 1 .. Len(ds) : ds[i].receiver = r /\ Mode(ds[i].pkt, g) # {}}

To(ms, n, r, g) == {m \in 1 .. n : ms[m].receiver = r /\ Function(ms[m].cmd) \in CC[g]}

\* Packet p has in group g what command c says.
Has(p, c, g) == Mode(p, g) = {Function(c)} /\ Value(p, g) = Number(c)

Follows(h, ds, ms, n, r, g) ==
    /\ h \in [For(ds, r, g) -> To(ms, n, r, g)]
    /\ \A i, j \in For(ds, r, g) : i < j => h[i] < h[j]
    /\ \A i \in For(ds, r, g) : Has(ds[i].pkt, ms[h[i]].cmd, g)
    /\ \A m \in To(ms, n, r, g) : \E i \in For(ds, r, g) : m <= h[i]

\* The packets es are the packets ds after one more message m, for group g: its
\* command is merged into the last of them, or begins another.
Updated(ds, es, m, g) ==
    LET l == Len(es)
    IN /\ l >= 1 /\ (Len(ds) = l \/ Len(ds) = l - 1)
       /\ \A i \in 1 .. l - 1 : es[i] = ds[i]
       /\ es[l].receiver = m.receiver
       /\ Has(es[l].pkt, m.cmd, g)
       /\ Len(ds) = l => ds[l].receiver = m.receiver
       /\ \A k \in Groups : k # g =>
             IF Len(ds) = l THEN /\ Mode(es[l].pkt, k) = Mode(ds[l].pkt, k)
                                 /\ Value(es[l].pkt, k) = Value(ds[l].pkt, k)
                            ELSE Mode(es[l].pkt, k) = {}

\* More messages behind those heard change nothing.
LEMMA FollowsLonger ==
    ASSUME NEW ms, NEW ns, NEW n \in Nat, \A m \in 1 .. n : ns[m] = ms[m],
           NEW h, NEW ds, NEW r, NEW g, Follows(h, ds, ms, n, r, g)
    PROVE  Follows(h, ds, ns, n, r, g)
<1>1. To(ns, n, r, g) = To(ms, n, r, g)
  BY DEF To
<1>2. \A i \in For(ds, r, g) : h[i] \in 1 .. n
  BY DEF Follows, To
<1> QED
  BY <1>1, <1>2 DEF Follows

\* One more message is heard.
LEMMA FollowsNext ==
    ASSUME NEW ms, NEW n \in Nat, NEW r, NEW g \in Groups, NEW f \in Groups,
           Function(ms[n + 1].cmd) \in CC[f],
           NEW ds \in Seq(Entries), NEW es \in Seq(Entries), Updated(ds, es, ms[n + 1], f),
           NEW h, Follows(h, ds, ms, n, r, g)
    PROVE  \E e : Follows(e, es, ms, n + 1, r, g)
<1> DEFINE l == Len(es)
           M == ms[n + 1]
<1>1. l \in Nat /\ l >= 1 /\ Len(ds) \in Nat /\ (Len(ds) = l \/ Len(ds) = l - 1)
  BY DEF Updated
<1>2. /\ \A i \in 1 .. l - 1 : es[i] = ds[i]
      /\ es[l].receiver = M.receiver /\ Has(es[l].pkt, M.cmd, f)
      /\ Len(ds) = l => ds[l].receiver = M.receiver
  BY DEF Updated
<1>3. /\ h \in [For(ds, r, g) -> To(ms, n, r, g)]
      /\ \A i, j \in For(ds, r, g) : i < j => h[i] < h[j]
      /\ \A i \in For(ds, r, g) : Has(ds[i].pkt, ms[h[i]].cmd, g)
      /\ \A m \in To(ms, n, r, g) : \E i \in For(ds, r, g) : m <= h[i]
  BY DEF Follows
<1>4. /\ \A i \in For(es, r, g) : i = l \/ i \in 1 .. l - 1
      /\ \A i \in For(ds, r, g) : i = l \/ i \in 1 .. l - 1
  BY <1>1 DEF For
<1>5. \A i \in 1 .. l - 1 : i \in For(es, r, g) <=> i \in For(ds, r, g)
  <2> TAKE i \in 1 .. l - 1
  <2>1. i \in 1 .. Len(es) /\ i \in 1 .. Len(ds)
    BY <1>1
  <2>2. es[i] = ds[i]
    BY <1>2
  <2> QED
    BY <2>1, <2>2 DEF For
<1>6. \A m \in 1 .. n + 1 : m = n + 1 \/ m \in 1 .. n
  OBVIOUS
<1> HIDE DEF l
<1>7. CASE r = M.receiver /\ g = f
  <2>1. n + 1 \in To(ms, n + 1, r, g)
    BY <1>7 DEF To
  <2>2. \A m \in To(ms, n, r, g) : m \in To(ms, n + 1, r, g) /\ m \in Nat /\ m < n + 1
    BY DEF To
  <2>3. l \in For(es, r, g)
    <3>1. l \in 1 .. Len(es)
      BY <1>1 DEF l
    <3>2. Mode(es[l].pkt, g) # {} /\ es[l].receiver = r
      BY <1>2, <1>7 DEF Has
    <3> QED
      BY <3>1, <3>2 DEF For
  <2> DEFINE e == [i \in For(es, r, g) |-> IF i = l THEN n + 1 ELSE h[i]]
  <2>4. \A i \in For(es, r, g) : i # l => i \in For(ds, r, g) /\ es[i] = ds[i]
    BY <1>2, <1>4, <1>5
  <2>5. ASSUME NEW i \in For(es, r, g), i # l
        PROVE  /\ e[i] = h[i] /\ i \in For(ds, r, g) /\ h[i] \in To(ms, n, r, g)
               /\ h[i] \in Nat /\ h[i] < n + 1 /\ Has(es[i].pkt, ms[h[i]].cmd, g)
    <3>1. i \in For(ds, r, g) /\ es[i] = ds[i]
      BY <2>4, <2>5
    <3>2. h[i] \in To(ms, n, r, g)
      BY <1>3, <3>1
    <3>3. Has(es[i].pkt, ms[h[i]].cmd, g)
      BY <1>3, <3>1
    <3> QED
      BY <2>2, <2>5, <3>1, <3>2, <3>3
  <2>6. e[l] = n + 1
    BY <2>3
  <2>7. e \in [For(es, r, g) -> To(ms, n + 1, r, g)]
    BY <2>1, <2>2, <2>5
  <2>8. ASSUME NEW i \in For(es, r, g), NEW j \in For(es, r, g), i < j
        PROVE  e[i] < e[j]
    <3>1. i \in Nat /\ j \in Nat /\ i <= l /\ j <= l
      BY <1>1, <1>4
    <3>2. i # l
      BY <1>1, <2>8, <3>1
    <3>3. CASE j = l
      BY <2>5, <2>6, <3>2, <3>3
    <3>4. CASE j # l
      BY <1>3, <2>5, <2>8, <3>2, <3>4
    <3> QED
      BY <3>3, <3>4
  <2>9. ASSUME NEW i \in For(es, r, g) PROVE Has(es[i].pkt, ms[e[i]].cmd, g)
    <3>1. CASE i = l
      BY <1>2, <1>7, <2>6, <3>1
    <3>2. CASE i # l
      BY <2>5, <3>2
    <3> QED
      BY <3>1, <3>2
  <2>10. \A m \in To(ms, n + 1, r, g) : m <= e[l]
    BY <2>6 DEF To
  <2> HIDE DEF e
  <2>11. Follows(e, es, ms, n + 1, r, g)
    BY <2>3, <2>7, <2>8, <2>9, <2>10 DEF Follows
  <2> QED
    BY <2>11
<1>8. CASE ~(r = M.receiver /\ g = f)
  <2>1. n + 1 \notin To(ms, n + 1, r, g)
    <3>1. g # f => Function(M.cmd) \notin CC[g]
      BY GroupsDisjoint
    <3> QED
      BY <1>8, <3>1 DEF To
  <2>2. To(ms, n + 1, r, g) = To(ms, n, r, g)
    BY <1>6, <2>1 DEF To
  <2>3. ASSUME r = M.receiver, g # f, Len(ds) = l
        PROVE  /\ Mode(es[l].pkt, g) = Mode(ds[l].pkt, g)
               /\ Value(es[l].pkt, g) = Value(ds[l].pkt, g)
    BY <2>3 DEF Updated, l
  <2>4. ASSUME r = M.receiver, g # f, Len(ds) # l
        PROVE  Mode(es[l].pkt, g) = {}
    BY <2>4 DEF Updated, l
  <2>5. l \in For(es, r, g) <=> l \in For(ds, r, g)
    <3>1. l \in For(es, r, g) <=> r = M.receiver /\ Mode(es[l].pkt, g) # {}
      BY <1>1, <1>2 DEF For, l
    <3>2. l \in For(ds, r, g) <=> Len(ds) = l /\ r = M.receiver /\ Mode(ds[l].pkt, g) # {}
      BY <1>1, <1>2 DEF For
    <3> QED
      BY <1>8, <2>3, <2>4, <3>1, <3>2
  <2>6. For(es, r, g) = For(ds, r, g)
    <3>1. \A i \in For(es, r, g) : i \in For(ds, r, g)
      BY <1>4, <1>5, <2>5
    <3>2. \A i \in For(ds, r, g) : i \in For(es, r, g)
      BY <1>4, <1>5, <2>5
    <3> QED
      BY <3>1, <3>2
  <2>7. ASSUME NEW i \in For(es, r, g)
        PROVE  /\ Mode(es[i].pkt, g) = Mode(ds[i].pkt, g)
               /\ Value(es[i].pkt, g) = Value(ds[i].pkt, g)
    <3>1. CASE i # l
      BY <1>2, <1>4, <3>1
    <3>2. CASE i = l
      <4>1. r = M.receiver /\ Len(ds) = l
        <5>1. i \in For(ds, r, g)
          BY <2>6
        <5>2. l \in 1 .. Len(ds) /\ ds[l].receiver = r
          BY <3>2, <5>1 DEF For
        <5>3. Len(ds) = l
          BY <1>1, <5>2
        <5> QED
          BY <1>2, <5>2, <5>3
      <4> QED
        BY <1>8, <2>3, <3>2, <4>1
    <3> QED
      BY <3>1, <3>2
  <2>8. \A i \in For(es, r, g) : Has(es[i].pkt, ms[h[i]].cmd, g)
    BY <1>3, <2>6, <2>7 DEF Has
  <2>9. Follows(h, es, ms, n + 1, r, g)
    BY <1>3, <2>2, <2>6, <2>8 DEF Follows
  <2> QED
    BY <2>9
<1> QED
  BY <1>7, <1>8

-----------------------------------------------------------------------------
(* The invariant of the messages, and of a line that has lost nothing.      *)

\* The messages ms come from the packets asked as, in their order, as src says:
\* each from one that asks it, and all that a packet asks in one message.
Sources(src, ms, as) ==
    /\ src \in [1 .. Len(ms) -> 1 .. Len(as)]
    /\ \A i, j \in 1 .. Len(ms) : i <= j => src[i] <= src[j]
    /\ \A m \in 1 .. Len(ms) : /\ ms[m].receiver = as[src[m]].receiver
                               /\ \E g \in Groups : Said(ms[m].cmd, as[src[m]].pkt, g)
    /\ \A k \in 1 .. Len(as), g \in Groups : Asks(as[k].pkt, g) =>
          \E m \in 1 .. Len(ms) : src[m] = k /\ Said(ms[m].cmd, as[k].pkt, g)
    /\ \A i, j \in 1 .. Len(ms), g \in Groups :
          /\ src[i] = src[j]
          /\ Said(ms[i].cmd, as[src[i]].pkt, g)
          /\ Said(ms[j].cmd, as[src[j]].pkt, g)
          => i = j

Asking == [receiver : Receivers, pkt : Packets]

SourceInv ==
    /\ asked \in Seq(Asking)
    /\ \E src \in [1 .. Len(sent) -> 1 .. Len(asked)] : Sources(src, sent, asked)

\* The packets ds follow the first n of the messages ms.
Follow(ds, ms, n) ==
    \A r \in Receivers, g \in Groups :
        \E h \in [For(ds, r, g) -> To(ms, n, r, g)] : Follows(h, ds, ms, n, r, g)

\* How many messages the reader has decoded; the rest is on the line.
Heard == Len(sent) - (Len(line) \div 3)

Whole ==
    /\ Heard \in 0 .. Len(sent)
    /\ Len(line) = 3 * (Len(sent) - Heard)
    /\ \A j \in 1 .. Len(line) : line[j] = 3 * Heard + j - 1

HeardInv ==
    /\ Whole
    /\ done \in Seq(Entries)
    /\ receiver \in {0} \cup Receivers
    /\ pkt \in Packed
    /\ receiver # 0 /\ ~reading => got > 0
    /\ Follow(Given, sent, Heard)

OrderInv == IInv /\ SourceInv /\ (hurt = {} => HeardInv)

\* The messages ns are ms, and then the commands cs to receiver r.
SentNext(ms, ns, r, cs) ==
    /\ Len(ms) \in Nat /\ Len(ns) = Len(ms) + Len(cs)
    /\ \A j \in 1 .. Len(ms) : ns[j] = ms[j]
    /\ \A j \in 1 .. Len(cs) : ns[Len(ms) + j] = [receiver |-> r, cmd |-> cs[j]]

\* The packets bs are as, and then p for receiver r.
AskedNext(as, bs, r, p) ==
    /\ Len(as) \in Nat /\ Len(bs) = Len(as) + 1
    /\ \A k \in 1 .. Len(as) : bs[k] = as[k]
    /\ bs[Len(as) + 1] = [receiver |-> r, pkt |-> p]

\* One more packet is asked, and its commands are sent.
LEMMA SourcesNext ==
    ASSUME NEW ms, NEW as, NEW src, Sources(src, ms, as),
           NEW r, NEW p, NEW cs, SaysAll(cs, p, Groups),
           NEW ns, SentNext(ms, ns, r, cs), NEW bs, AskedNext(as, bs, r, p)
    PROVE  \E e \in [1 .. Len(ns) -> 1 .. Len(bs)] : Sources(e, ns, bs)
<1> DEFINE n == Len(ms)
           c == Len(cs)
           a == Len(as)
           e == [m \in 1 .. Len(ns) |-> IF m <= n THEN src[m] ELSE a + 1]
<1>1. n \in Nat /\ c \in Nat /\ a \in Nat /\ Len(ns) = n + c
  <2>1. cs \in Seq(Commands)
    BY DEF SaysAll
  <2>2. c \in Nat
    BY <2>1
  <2> QED
    BY <2>2 DEF SentNext, AskedNext
<1>2. Len(bs) = a + 1 /\ bs[a + 1] = [receiver |-> r, pkt |-> p]
      /\ \A k \in 1 .. a : bs[k] = as[k]
  BY DEF AskedNext
<1>3. /\ src \in [1 .. n -> 1 .. a]
      /\ \A i, j \in 1 .. n : i <= j => src[i] <= src[j]
      /\ \A m \in 1 .. n : /\ ms[m].receiver = as[src[m]].receiver
                           /\ \E g \in Groups : Said(ms[m].cmd, as[src[m]].pkt, g)
  BY DEF Sources
<1>4. /\ \A k \in 1 .. a, g \in Groups : Asks(as[k].pkt, g) =>
            \E m \in 1 .. n : src[m] = k /\ Said(ms[m].cmd, as[k].pkt, g)
      /\ \A i, j \in 1 .. n, g \in Groups :
            /\ src[i] = src[j]
            /\ Said(ms[i].cmd, as[src[i]].pkt, g)
            /\ Said(ms[j].cmd, as[src[j]].pkt, g)
            => i = j
  BY DEF Sources
<1>5. /\ \A j \in 1 .. c : \E g \in Groups : Said(cs[j], p, g)
      /\ \A g \in Groups : Asks(p, g) => \E j \in 1 .. c : Said(cs[j], p, g)
      /\ \A i, j \in 1 .. c : \A g \in Groups : Said(cs[i], p, g) /\ Said(cs[j], p, g) => i = j
  BY DEF SaysAll
<1> HIDE DEF n, c, a
<1>6. ASSUME NEW m \in 1 .. n
      PROVE  /\ m \in 1 .. Len(ns) /\ e[m] = src[m] /\ e[m] \in 1 .. a
             /\ ns[m] = ms[m] /\ bs[e[m]] = as[src[m]]
  <2>1. m \in 1 .. Len(ns) /\ m <= n /\ src[m] \in 1 .. a
    BY <1>1, <1>3
  <2>2. ns[m] = ms[m] /\ bs[src[m]] = as[src[m]]
    BY <1>2, <1>6, <2>1 DEF SentNext, n
  <2> QED
    BY <1>2, <2>1, <2>2
<1>7. ASSUME NEW m \in 1 .. Len(ns), ~(m <= n)
      PROVE  /\ e[m] = a + 1 /\ m - n \in 1 .. c /\ bs[e[m]].pkt = p /\ bs[e[m]].receiver = r
             /\ ns[m].cmd = cs[m - n] /\ ns[m].receiver = r
  <2>1. m - n \in 1 .. c /\ m = n + (m - n)
    BY <1>1, <1>7
  <2>2. ns[m] = [receiver |-> r, cmd |-> cs[m - n]]
    BY <2>1 DEF SentNext, n, c
  <2>3. e[m] = a + 1
    BY <1>7
  <2> QED
    BY <1>2, <2>1, <2>2, <2>3
<1>8. \A m \in 1 .. Len(ns) : m <= n => m \in 1 .. n
  BY <1>1
<1> HIDE DEF e
<1>9. e \in [1 .. Len(ns) -> 1 .. Len(bs)]
  <2>1. e = [m \in 1 .. Len(ns) |-> e[m]]
    BY DEF e
  <2>2. \A m \in 1 .. Len(ns) : e[m] \in 1 .. Len(bs)
    <3> TAKE m \in 1 .. Len(ns)
    <3>1. CASE m <= n
      <4>1. e[m] \in 1 .. a
        BY <1>6, <1>8, <3>1
      <4> QED
        BY <1>1, <1>2, <4>1
    <3>2. CASE ~(m <= n)
      <4>1. e[m] = a + 1
        BY <1>7, <3>2
      <4> QED
        BY <1>1, <1>2, <4>1
    <3> QED
      BY <3>1, <3>2
  <2> QED
    BY <2>1, <2>2
<1>10. ASSUME NEW i \in 1 .. Len(ns), NEW j \in 1 .. Len(ns), i <= j
       PROVE  e[i] <= e[j]
  <2>1. CASE j <= n
    <3>1. i \in 1 .. n /\ j \in 1 .. n
      BY <1>1, <1>10, <2>1
    <3> QED
      BY <1>3, <1>6, <1>10, <3>1
  <2>2. CASE ~(j <= n)
    <3>1. e[i] \in 1 .. a + 1
      BY <1>2, <1>9
    <3> QED
      BY <1>1, <1>7, <2>2, <3>1
  <2> QED
    BY <2>1, <2>2
<1>11. ASSUME NEW m \in 1 .. Len(ns)
       PROVE  /\ ns[m].receiver = bs[e[m]].receiver
              /\ \E g \in Groups : Said(ns[m].cmd, bs[e[m]].pkt, g)
  <2>1. CASE m <= n
    BY <1>3, <1>6, <1>8, <2>1
  <2>2. CASE ~(m <= n)
    BY <1>5, <1>7, <2>2
  <2> QED
    BY <2>1, <2>2
<1>12. ASSUME NEW k \in 1 .. Len(bs), NEW g \in Groups, Asks(bs[k].pkt, g)
       PROVE  \E m \in 1 .. Len(ns) : e[m] = k /\ Said(ns[m].cmd, bs[k].pkt, g)
  <2>1. CASE k \in 1 .. a
    <3>1. bs[k] = as[k]
      BY <1>2, <2>1
    <3>2. PICK m \in 1 .. n : src[m] = k /\ Said(ms[m].cmd, as[k].pkt, g)
      BY <1>4, <1>12, <2>1, <3>1
    <3> QED
      BY <1>6, <3>1, <3>2
  <2>2. CASE k = a + 1
    <3>1. bs[k].pkt = p
      BY <1>2, <2>2
    <3>2. PICK j \in 1 .. c : Said(cs[j], p, g)
      BY <1>5, <1>12, <3>1
    <3>3. n + j \in 1 .. Len(ns) /\ ~(n + j <= n) /\ (n + j) - n = j
      BY <1>1
    <3>4. e[n + j] = k /\ ns[n + j].cmd = cs[j]
      BY <1>7, <2>2, <3>3
    <3> QED
      BY <3>1, <3>2, <3>3, <3>4
  <2> QED
    BY <1>1, <1>2, <2>1, <2>2
<1>13. ASSUME NEW i \in 1 .. Len(ns), NEW j \in 1 .. Len(ns), NEW g \in Groups, e[i] = e[j],
              Said(ns[i].cmd, bs[e[i]].pkt, g), Said(ns[j].cmd, bs[e[j]].pkt, g)
       PROVE  i = j
  <2>1. CASE i <= n /\ j <= n
    <3>1. i \in 1 .. n /\ j \in 1 .. n
      BY <1>8, <2>1
    <3>2. /\ src[i] = src[j]
          /\ Said(ms[i].cmd, as[src[i]].pkt, g) /\ Said(ms[j].cmd, as[src[j]].pkt, g)
      BY <1>6, <1>13, <3>1
    <3> QED
      BY <1>4, <3>1, <3>2
  <2>2. CASE ~(i <= n) /\ ~(j <= n)
    <3>1. /\ i - n \in 1 .. c /\ j - n \in 1 .. c
          /\ Said(cs[i - n], p, g) /\ Said(cs[j - n], p, g)
      BY <1>7, <1>13, <2>2
    <3>2. i - n = j - n
      BY <1>5, <3>1
    <3> QED
      BY <1>1, <3>2
  <2>3. ASSUME NEW x \in 1 .. Len(ns), NEW y \in 1 .. Len(ns), x <= n, ~(y <= n)
        PROVE  e[x] # e[y]
    <3>1. e[x] \in 1 .. a
      BY <1>6, <1>8, <2>3
    <3>2. e[y] = a + 1
      BY <1>7, <2>3
    <3> QED
      BY <1>1, <3>1, <3>2
  <2> QED
    BY <1>13, <2>1, <2>2, <2>3
<1> QED
  BY <1>9, <1>10, <1>11, <1>12, <1>13, SMTT(30) DEF Sources

\* The first n messages of ms and of ns are the same.
Agree(ms, ns, n) == \A m \in 1 .. n : ns[m] = ms[m]

LEMMA FollowLonger ==
    ASSUME NEW ms, NEW ns, NEW n \in Nat, Agree(ms, ns, n), NEW ds, Follow(ds, ms, n)
    PROVE  Follow(ds, ns, n)
<1> SUFFICES ASSUME NEW r \in Receivers, NEW g \in Groups
             PROVE  \E h \in [For(ds, r, g) -> To(ns, n, r, g)] : Follows(h, ds, ns, n, r, g)
  BY DEF Follow
<1>1. PICK h : Follows(h, ds, ms, n, r, g)
  BY DEF Follow
<1>2. \A m \in 1 .. n : ns[m] = ms[m]
  BY DEF Agree
<1>3. Follows(h, ds, ns, n, r, g)
  BY <1>1, <1>2, FollowsLonger
<1> QED
  BY <1>3 DEF Follows

LEMMA FollowNext ==
    ASSUME NEW ms, NEW n \in Nat, NEW f \in Groups, Function(ms[n + 1].cmd) \in CC[f],
           NEW ds \in Seq(Entries), NEW es \in Seq(Entries), Updated(ds, es, ms[n + 1], f),
           Follow(ds, ms, n)
    PROVE  Follow(es, ms, n + 1)
<1> SUFFICES ASSUME NEW r \in Receivers, NEW g \in Groups
             PROVE  \E h \in [For(es, r, g) -> To(ms, n + 1, r, g)] :
                        Follows(h, es, ms, n + 1, r, g)
  BY DEF Follow
<1>1. PICK h : Follows(h, ds, ms, n, r, g)
  BY DEF Follow
<1>2. PICK e : Follows(e, es, ms, n + 1, r, g)
  BY <1>1, FollowsNext
<1> QED
  BY <1>2 DEF Follows

\* A message sent is for a receiver, and its function is of some group.
LEMMA SentIs ==
    ASSUME SourceInv, NEW m \in 1 .. Len(sent)
    PROVE  /\ sent[m].receiver \in Receivers
           /\ \E g \in Groups : Function(sent[m].cmd) \in CC[g]
<1>1. PICK src : Sources(src, sent, asked)
  BY DEF SourceInv
<1>2. src[m] \in 1 .. Len(asked) /\ sent[m].receiver = asked[src[m]].receiver
  BY <1>1 DEF Sources
<1>3. asked[src[m]] \in Asking
  BY <1>2 DEF SourceInv
<1>4. PICK g \in Groups : Said(sent[m].cmd, asked[src[m]].pkt, g)
  BY <1>1 DEF Sources
<1>5. Function(sent[m].cmd) \in CC[g]
  BY <1>4, ModeIs DEF Said
<1> QED
  BY <1>2, <1>3, <1>5 DEF Asking

\* The packets given, with the one that is held.
LEMMA GivenType ==
    ASSUME HeardInv
    PROVE  Given \in Seq(Entries)
<1>1. CASE receiver = 0
  BY <1>1 DEF Given, HeardInv
<1>2. CASE receiver # 0
  <2>1. [receiver |-> receiver, pkt |-> pkt] \in Entries
    BY <1>2 DEF HeardInv, Entries
  <2> QED
    BY <1>2, <2>1 DEF Given, HeardInv
<1> QED
  BY <1>1, <1>2

LEMMA ClearedIs ==
    /\ Cleared \in Packed
    /\ \A g \in Groups : Mode(Cleared, g) = {}
<1>1. Cleared \in Decoded /\ Cleared.flags = {} /\ Cleared.preset = 0
  BY PacketAssumption DEF Cleared, Decoded
<1>2. Modes(Cleared)
  BY <1>1 DEF Modes
<1>3. \A g \in Groups : Get(Cleared, g) = {}
  BY <1>1, <1>2, GetIs
<1>4. ccpacket_get_preset_mode(Cleared) = {}
  BY <1>1 DEF ccpacket_get_preset_mode, ccpacket_preset
<1>5. \A g \in Groups : Mode(Cleared, g) = {}
  BY <1>3, <1>4 DEF Mode
<1> QED
  BY <1>1, <1>2, <1>5 DEF Packed

\* On a line that lost nothing, the first three bytes are the next message.
LEMMA NextMessage ==
    ASSUME IInv, Whole, got >= 3, NEW b, b = [j \in 1 .. SIZE_MSG |-> Byte(line[j])]
    PROVE  /\ Heard + 1 \in 1 .. Len(sent)
           /\ Byte(line[1]) >= FLAG
           /\ \A j \in 1 .. SIZE_MSG : b[j] = encode_message(sent[Heard + 1])[j]
           /\ decode_receiver(b) = sent[Heard + 1].receiver
<1> DEFINE k == Heard + 1
<1>1. Len(line) \in Nat /\ Len(line) >= 3 /\ Len(sent) \in Nat
  BY LineFacts
<1>2. /\ Heard \in 0 .. Len(sent) /\ Len(line) = 3 * (Len(sent) - Heard)
      /\ \A j \in 1 .. Len(line) : line[j] = 3 * Heard + j - 1
  BY DEF Whole
<1> HIDE DEF k
<1>3. k \in 1 .. Len(sent) /\ k \in Nat \ {0} /\ Heard = k - 1 /\ k = Heard + 1
  BY <1>1, <1>2 DEF k
<1>4. line[1] = 3 * (k - 1) /\ line[2] = 3 * (k - 1) + 1 /\ line[3] = 3 * (k - 1) + 2
  BY <1>1, <1>2, <1>3
<1>5. MessageOf(line[1]) = k /\ MessageOf(line[2]) = k /\ MessageOf(line[3]) = k
  BY <1>3, <1>4, MessageBytes
<1>6. PlaceOf(line[1]) = 1 /\ PlaceOf(line[2]) = 2 /\ PlaceOf(line[3]) = 3
  BY <1>3, <1>4 DEF PlaceOf, SIZE_MSG
<1>7. Byte(line[1]) >= FLAG
  <2>1. 1 \in 1 .. Len(line)
    BY <1>1
  <2> QED
    BY <1>4, <1>5, <2>1, HeadIsFirst
<1>8. \A j \in 1 .. SIZE_MSG : Byte(line[j]) = encode_message(sent[k])[j]
  <2>1. 1 .. SIZE_MSG = {1, 2, 3}
    BY DEF SIZE_MSG
  <2> QED
    BY <1>5, <1>6, <2>1 DEF Byte
<1>9. b[1] = encode_message(sent[k])[1] /\ b[2] = encode_message(sent[k])[2]
      /\ b[3] = encode_message(sent[k])[3]
  BY <1>8 DEF SIZE_MSG
<1>10. sent[k] \in Messages
  BY <1>3 DEF IInv, TypeOK
<1>11. decode_receiver(b) = sent[k].receiver
  <2>1. decode_receiver(encode_message(sent[k])) = sent[k].receiver
    BY <1>10, MessageRoundTrip
  <2> QED
    BY <1>9, <2>1 DEF decode_receiver
<1> QED
  BY <1>3, <1>7, <1>8, <1>11

\* Once it is consumed, one more message is heard.
LEMMA WholeNext ==
    ASSUME IInv, Whole, got >= 3, Consume(3), UNCHANGED sent
    PROVE  Whole' /\ Heard' = Heard + 1
<1>1. Len(line) \in Nat /\ Len(line) >= 3 /\ Len(sent) \in Nat
      /\ line \in Seq(0 .. SIZE_MSG * Len(sent) - 1)
  BY LineFacts DEF IInv, TypeOK
<1>2. /\ Heard \in 0 .. Len(sent) /\ Len(line) = 3 * (Len(sent) - Heard)
      /\ \A j \in 1 .. Len(line) : line[j] = 3 * Heard + j - 1
  BY DEF Whole
<1>3. line' = SubSeq(line, 4, Len(line))
  BY DEF Consume
<1>4. /\ Len(line') = Len(line) - 3
      /\ \A j \in 1 .. Len(line) - 3 : line'[j] = line[j + 3]
  <2> DEFINE c == Len(line)
             S == 0 .. SIZE_MSG * Len(sent) - 1
  <2>1. 4 \in Int /\ c \in Int /\ 4 .. c \subseteq 1 .. c /\ c >= 3 /\ line \in Seq(S)
        /\ line' = SubSeq(line, 4, c)
    BY <1>1, <1>3
  <2> HIDE DEF S
  <2>2. \A j \in 4 .. c : line[j] \in S
    <3>1. \A j \in 1 .. Len(line) : line[j] \in S
      BY <2>1
    <3> QED
      BY <2>1, <3>1
  <2> HIDE DEF c
  <2>3. /\ Len(line') = (IF 4 <= c THEN c - 4 + 1 ELSE 0)
        /\ \A j \in 1 .. c - 4 + 1 : line'[j] = line[4 + j - 1]
    BY <2>1, <2>2, SubSeqProperties
  <2>4. \A j \in 1 .. c - 3 : j \in 1 .. c - 4 + 1 /\ 4 + j - 1 = j + 3
    BY <2>1
  <2>5. Len(line') = c - 3
    BY <2>1, <2>3
  <2> QED
    BY <2>3, <2>4, <2>5 DEF c
<1>5. Heard' = Len(sent) - (Len(line') \div 3)
  BY DEF Heard
<1>6. Len(line') = 3 * (Len(sent) - (Heard + 1))
  BY <1>1, <1>2, <1>4
<1>7. Heard' = Heard + 1 /\ Heard + 1 \in 0 .. Len(sent)
  <2> DEFINE d == Len(sent) - (Heard + 1)
  <2>1. d \in Nat /\ Len(line') = 3 * d
    BY <1>1, <1>2, <1>6
  <2> HIDE DEF d
  <2>2. (3 * d) \div 3 = d
    BY <2>1
  <2>3. Heard' = Len(sent) - d
    BY <1>5, <2>1, <2>2
  <2> QED
    BY <1>1, <1>2, <2>1, <2>3 DEF d
<1>8. \A j \in 1 .. Len(line') : line'[j] = 3 * (Heard + 1) + j - 1
  <2> TAKE j \in 1 .. Len(line')
  <2>1. j \in 1 .. Len(line) - 3 /\ j + 3 \in 1 .. Len(line)
    BY <1>1, <1>4
  <2>2. line'[j] = 3 * Heard + (j + 3) - 1
    BY <1>2, <1>4, <2>1
  <2> QED
    BY <1>1, <1>2, <2>1, <2>2
<1> QED
  BY <1>6, <1>7, <1>8 DEF Whole

\* The reader decodes the next message: its command is merged into the packet
\* held for its receiver, or the packet held is given and another begun.
LEMMA DecodeHeard ==
    ASSUME IInv, SourceInv, HeardInv, manchester_decode_packet
    PROVE  HeardInv'
<1> DEFINE b == [j \in 1 .. SIZE_MSG |-> Byte(line[j])]
           k == Heard + 1
           M == sent[k]
<1>1. /\ reading /\ got >= 3 /\ Consume(3)
      /\ IF receiver # decode_receiver(b)
         THEN done' = Given /\ pkt' = decode_packet(Cleared, b)
         ELSE done' = done /\ pkt' = decode_packet(pkt, b)
      /\ receiver' = decode_receiver(b)
      /\ UNCHANGED <<sent, reading, hurt, asked>>
  BY DEF manchester_decode_packet, SIZE_MSG, OtherReceiver
<1>2. Whole /\ Whole' /\ Heard' = k
  BY <1>1, WholeNext DEF HeardInv
<1>3. /\ k \in 1 .. Len(sent)
      /\ \A j \in 1 .. SIZE_MSG : b[j] = encode_message(M)[j]
      /\ decode_receiver(b) = M.receiver
  BY <1>1, <1>2, NextMessage
<1> HIDE DEF b, k
<1>4. M \in Messages /\ M.receiver \in Receivers
  BY <1>3, SentIs DEF IInv, TypeOK
<1>5. PICK f \in Groups : Function(M.cmd) \in CC[f]
  BY <1>3, SentIs
<1>6. receiver' = M.receiver /\ receiver' # 0
  <2>1. 0 \notin Receivers
    BY ManchesterAssumption
  <2> QED
    BY <1>1, <1>3, <1>4, <2>1
<1>7. ASSUME NEW p \in Packed, pkt' = decode_packet(p, b)
      PROVE  Told(p, pkt', f, Function(M.cmd), Number(M.cmd))
  <2>1. p \in Decoded /\ Modes(p)
    BY DEF Packed
  <2> QED
    BY <1>3, <1>4, <1>5, <1>7, <2>1, CommandTells
<1> DEFINE e == [receiver |-> receiver', pkt |-> pkt']
<1>8. ASSUME receiver # M.receiver
      PROVE  /\ done' \in Seq(Entries) /\ pkt' \in Packed
             /\ Given \in Seq(Entries) /\ Given' \in Seq(Entries)
             /\ Updated(Given, Given', M, f)
  <2>1. done' = Given /\ pkt' = decode_packet(Cleared, b)
    BY <1>1, <1>3, <1>8
  <2>2. Told(Cleared, pkt', f, Function(M.cmd), Number(M.cmd))
    BY <1>7, <2>1, ClearedIs
  <2>3. pkt' \in Packed
    BY <2>2 DEF Told, Packed
  <2>4. Given \in Seq(Entries)
    BY GivenType
  <2>5. e \in Entries
    BY <1>4, <1>6, <2>3 DEF Entries
  <2>6. Given' = Append(Given, e)
    BY <1>6, <2>1 DEF Given
  <2> DEFINE ds == Given
             es == Given'
  <2>7. /\ es \in Seq(Entries) /\ Len(es) = Len(ds) + 1 /\ Len(ds) \in Nat
        /\ \A i \in 1 .. Len(ds) : es[i] = ds[i]
        /\ es[Len(ds) + 1] = e
    <3> HIDE DEF ds, es, e
    <3>1. ds \in Seq(Entries) /\ es = Append(ds, e) /\ e \in Entries
      BY <2>4, <2>5, <2>6 DEF ds, es
    <3> QED
      BY <3>1
  <2> HIDE DEF ds, es
  <2>8. e.receiver = M.receiver /\ Has(e.pkt, M.cmd, f)
    BY <1>6, <2>2 DEF Told, Has
  <2>9. \A h \in Groups : h # f => Mode(e.pkt, h) = {}
    BY <2>2, ClearedIs DEF Told
  <2> HIDE DEF e
  <2>10. Updated(ds, es, M, f)
    BY <2>7, <2>8, <2>9 DEF Updated
  <2> QED
    BY <2>1, <2>3, <2>4, <2>7, <2>10 DEF ds, es
<1>9. ASSUME receiver = M.receiver
      PROVE  /\ done' \in Seq(Entries) /\ pkt' \in Packed
             /\ Given \in Seq(Entries) /\ Given' \in Seq(Entries)
             /\ Updated(Given, Given', M, f)
  <2>1. done' = done /\ pkt' = decode_packet(pkt, b) /\ pkt \in Packed
        /\ done \in Seq(Entries) /\ receiver # 0
    BY <1>1, <1>3, <1>6, <1>9 DEF HeardInv
  <2>2. Told(pkt, pkt', f, Function(M.cmd), Number(M.cmd))
    BY <1>7, <2>1
  <2>3. pkt' \in Packed
    BY <2>2 DEF Told, Packed
  <2> DEFINE d == [receiver |-> receiver, pkt |-> pkt]
             ds == Given
             es == Given'
  <2>4. d \in Entries /\ e \in Entries
    BY <1>4, <1>6, <1>9, <2>1, <2>3 DEF Entries
  <2>5. ds = Append(done, d) /\ es = Append(done, e)
    BY <1>6, <2>1 DEF Given
  <2>6. d.receiver = M.receiver /\ e.receiver = M.receiver /\ Has(e.pkt, M.cmd, f)
    BY <1>6, <1>9, <2>2 DEF Told, Has
  <2>7. \A h \in Groups : h # f =>
            Mode(e.pkt, h) = Mode(d.pkt, h) /\ Value(e.pkt, h) = Value(d.pkt, h)
    BY <2>2 DEF Told
  <2> DEFINE l == Len(done) + 1
  <2>8. Len(done) \in Nat
    BY <2>1
  <2> HIDE DEF d, e, ds, es
  <2>9. /\ ds \in Seq(Entries) /\ Len(ds) = l /\ ds[l] = d
        /\ \A i \in 1 .. l - 1 : ds[i] = done[i]
    BY <2>1, <2>4, <2>5
  <2>10. /\ es \in Seq(Entries) /\ Len(es) = l /\ es[l] = e
         /\ \A i \in 1 .. l - 1 : es[i] = done[i]
    BY <2>1, <2>4, <2>5
  <2> HIDE DEF l
  <2>11. l \in Nat /\ l >= 1
    BY <2>8 DEF l
  <2>12. Updated(ds, es, M, f)
    BY <2>6, <2>7, <2>9, <2>10, <2>11 DEF Updated
  <2> QED
    BY <2>1, <2>3, <2>9, <2>10, <2>12 DEF ds, es
<1>10. /\ done' \in Seq(Entries) /\ pkt' \in Packed
       /\ Given \in Seq(Entries) /\ Given' \in Seq(Entries)
       /\ Updated(Given, Given', M, f)
  BY <1>8, <1>9
<1>11. Follow(Given', sent, k)
  <2>1. Follow(Given, sent, Heard) /\ Heard \in Nat /\ k = Heard + 1
    BY <1>2 DEF HeardInv, Whole, k
  <2> QED
    BY <1>5, <1>10, <2>1, FollowNext
<1>12. Follow(Given, sent, Heard)'
  BY <1>1, <1>2, <1>11
<1>13. HeardInv'
  BY <1>1, <1>2, <1>4, <1>6, <1>10, <1>12 DEF HeardInv
<1> QED
  BY <1>13

\* Nothing is sent, asked or given.
LEMMA InitOrder == Init => OrderInv
<1> SUFFICES ASSUME Init PROVE OrderInv
  OBVIOUS
<1>1. /\ sent = << >> /\ line = << >> /\ asked = << >> /\ done = << >>
      /\ got = 0 /\ reading = FALSE /\ receiver = 0 /\ pkt = Cleared
  BY DEF Init
<1>2. Len(sent) = 0 /\ Len(line) = 0 /\ Len(asked) = 0 /\ Len(done) = 0
      /\ 1 .. Len(sent) = {} /\ 1 .. Len(asked) = {} /\ 1 .. Len(done) = {}
  BY <1>1
<1>3. SourceInv
  <2>1. asked \in Seq(Asking)
    BY <1>1, EmptySeq
  <2> DEFINE src == [m \in 1 .. Len(sent) |-> 1]
  <2>2. src \in [1 .. Len(sent) -> 1 .. Len(asked)]
    BY <1>2
  <2>3. Sources(src, sent, asked)
    BY <1>2, <2>2 DEF Sources
  <2> QED
    BY <2>1, <2>2, <2>3 DEF SourceInv
<1>4. Heard = 0 /\ Given = done
  BY <1>1, <1>2 DEF Heard, Given
<1>5. Whole
  BY <1>2, <1>4 DEF Whole
<1>6. Follow(Given, sent, Heard)
  <2> SUFFICES ASSUME NEW r \in Receivers, NEW g \in Groups
               PROVE  \E h \in [For(done, r, g) -> To(sent, 0, r, g)] :
                          Follows(h, done, sent, 0, r, g)
    BY <1>4 DEF Follow
  <2>1. For(done, r, g) = {} /\ To(sent, 0, r, g) = {}
    BY <1>2 DEF For, To
  <2> DEFINE h == [i \in For(done, r, g) |-> 0]
  <2>2. h \in [For(done, r, g) -> To(sent, 0, r, g)]
    BY <2>1
  <2>3. Follows(h, done, sent, 0, r, g)
    BY <2>1, <2>2 DEF Follows
  <2> QED
    BY <2>2, <2>3
<1>7. done \in Seq(Entries) /\ pkt \in Packed
  BY <1>1, EmptySeq, ClearedIs
<1>8. HeardInv
  BY <1>1, <1>5, <1>6, <1>7 DEF HeardInv
<1> QED
  BY <1>3, <1>8, InitInv DEF OrderInv

\* What is heard depends on the reader's packet, the messages and the line.
LEMMA HeardKept ==
    ASSUME HeardInv, UNCHANGED <<sent, line, receiver, pkt, done>>,
           receiver # 0 /\ ~reading' => got' > 0
    PROVE  HeardInv'
<1>1. Heard' = Heard /\ Given' = Given
  BY DEF Heard, Given
<1>2. Whole'
  BY <1>1 DEF HeardInv, Whole
<1>3. Follow(Given, sent, Heard)'
  BY <1>1 DEF HeardInv
<1> QED
  BY <1>2, <1>3 DEF HeardInv

\* The end of the loop: with nothing behind it, the packet held is given.
LEMMA DoneHeard ==
    ASSUME IInv, HeardInv, Done
    PROVE  HeardInv'
<1>1. CASE got = 0
  <2>1. /\ done' = Given /\ receiver' = 0 /\ pkt' = Cleared
        /\ UNCHANGED <<sent, line, got>>
    BY <1>1 DEF Done
  <2>2. Given' = Given /\ Heard' = Heard
    BY <2>1 DEF Given, Heard
  <2>3. done' \in Seq(Entries)
    BY <2>1, GivenType
  <2>4. Whole'
    BY <2>1, <2>2 DEF HeardInv, Whole
  <2>5. Follow(Given, sent, Heard)'
    BY <2>1, <2>2 DEF HeardInv
  <2> QED
    BY <2>1, <2>3, <2>4, <2>5, ClearedIs DEF HeardInv
<1>2. CASE got # 0
  <2>1. UNCHANGED <<sent, line, got, receiver, pkt, done>>
    BY <1>2 DEF Done
  <2>2. got' > 0
    BY <1>2, <2>1, LineFacts
  <2> QED
    BY <2>1, <2>2, HeardKept
<1> QED
  BY <1>1, <1>2

\* The messages of one more packet go behind all that is on the line.
LEMMA SendOrder ==
    ASSUME IInv, SourceInv, hurt = {} => HeardInv,
           NEW r \in Receivers, NEW p \in Packets, Send(r, p)
    PROVE  SourceInv' /\ (hurt' = {} => HeardInv')
<1> DEFINE cs == manchester_do_write(p)
           n  == Len(sent)
           c  == Len(cs)
           ms == [j \in 1 .. c |-> [receiver |-> r, cmd |-> cs[j]]]
           bs == [j \in 1 .. 3 * c |-> 3 * n + j - 1]
           a  == [receiver |-> r, pkt |-> p]
<1>1. cs \in Seq(Commands) /\ c \in Nat /\ n \in Nat
  BY WriteType DEF IInv, TypeOK
<1>2. /\ sent' = sent \o ms /\ line' = line \o bs /\ asked' = Append(asked, a)
      /\ UNCHANGED <<got, reading, receiver, pkt, hurt, own, done>>
  BY DEF Send, SIZE_MSG
<1>3. SaysAll(cs, p, Groups)
  BY WriteSays
<1> HIDE DEF cs
<1>4. ms \in Seq(Messages) /\ Len(ms) = c
  <2>1. \A j \in 1 .. c : cs[j] \in Commands
    BY <1>1
  <2>2. r \in 1 .. MANCHESTER_MAX_ADDRESS
    BY ManchesterAssumption
  <2>3. \A j \in 1 .. c : [receiver |-> r, cmd |-> cs[j]] \in Messages
    BY <2>1, <2>2 DEF Messages
  <2> QED
    BY <1>1, <2>3
<1>5. \A j \in 1 .. c : ms[j] = [receiver |-> r, cmd |-> cs[j]]
  OBVIOUS
<1>6. bs \in Seq(Nat) /\ Len(bs) = 3 * c /\ \A j \in 1 .. 3 * c : bs[j] = 3 * n + j - 1
  BY <1>1
<1>7. sent \in Seq(Messages) /\ line \in Seq(Nat) /\ Len(line) \in Nat
  <2> DEFINE S == 0 .. SIZE_MSG * Len(sent) - 1
  <2>1. \A x \in S : x \in Nat
    OBVIOUS
  <2>2. sent \in Seq(Messages) /\ line \in Seq(S) /\ Len(line) \in Nat
    BY LineFacts DEF IInv, TypeOK
  <2> HIDE DEF S
  <2>3. line \in Seq(Nat)
    BY <2>1, <2>2
  <2> QED
    BY <2>2, <2>3
<1> HIDE DEF ms, bs
<1>8. /\ Len(sent') = n + c
      /\ \A m \in 1 .. n : sent'[m] = sent[m]
      /\ \A j \in 1 .. c : sent'[n + j] = ms[j]
  <2>1. Len(sent \o ms) = Len(sent) + Len(ms)
    BY <1>4, <1>7, BytesBehind
  <2>2. \A j \in 1 .. Len(sent) : (sent \o ms)[j] = sent[j]
    BY <1>4, <1>7, BytesBehind
  <2>3. \A j \in 1 .. Len(ms) : (sent \o ms)[Len(sent) + j] = ms[j]
    BY <1>4, <1>7, BytesBehind
  <2> QED
    BY <1>2, <1>4, <2>1, <2>2, <2>3
<1>9. /\ Len(line') = Len(line) + 3 * c
      /\ \A j \in 1 .. Len(line) : line'[j] = line[j]
      /\ \A j \in 1 .. 3 * c : line'[Len(line) + j] = bs[j]
  <2>1. Len(line \o bs) = Len(line) + Len(bs)
    BY <1>6, <1>7, BytesBehind
  <2>2. \A j \in 1 .. Len(line) : (line \o bs)[j] = line[j]
    BY <1>6, <1>7, BytesBehind
  <2>3. \A j \in 1 .. Len(bs) : (line \o bs)[Len(line) + j] = bs[j]
    BY <1>6, <1>7, BytesBehind
  <2> QED
    BY <1>2, <1>6, <2>1, <2>2, <2>3
<1>10. SentNext(sent, sent', r, cs)
  BY <1>1, <1>5, <1>8 DEF SentNext
<1>11. a \in Asking /\ asked \in Seq(Asking)
  BY DEF Asking, SourceInv
<1> HIDE DEF a
<1>12. /\ asked' \in Seq(Asking) /\ Len(asked) \in Nat /\ Len(asked') = Len(asked) + 1
       /\ \A k \in 1 .. Len(asked) : asked'[k] = asked[k]
       /\ asked'[Len(asked) + 1] = a
  BY <1>2, <1>11
<1>13. AskedNext(asked, asked', r, p)
  BY <1>12 DEF AskedNext, a
<1>14. SourceInv'
  <2>1. PICK src : Sources(src, sent, asked)
    BY DEF SourceInv
  <2>2. \E e \in [1 .. Len(sent') -> 1 .. Len(asked')] : Sources(e, sent', asked')
    BY <1>3, <1>10, <1>13, <2>1, SourcesNext
  <2> QED
    BY <1>12, <2>2 DEF SourceInv
<1>15. ASSUME HeardInv PROVE HeardInv'
  <2>1. Heard \in 0 .. n /\ Len(line) = 3 * (n - Heard)
        /\ \A j \in 1 .. Len(line) : line[j] = 3 * Heard + j - 1
    BY <1>15 DEF HeardInv, Whole
  <2> DEFINE d == n + c - Heard
  <2>2. d \in Nat /\ Len(line') = 3 * d /\ Len(sent') - d = Heard /\ Heard \in Nat
    BY <1>1, <1>8, <1>9, <2>1
  <2> HIDE DEF d
  <2>3. Heard' = Heard
    <3>1. (3 * d) \div 3 = d
      BY <2>2
    <3>2. Heard' = Len(sent') - (Len(line') \div 3)
      BY DEF Heard
    <3> QED
      BY <2>2, <3>1, <3>2
  <2>4. \A j \in 1 .. Len(line') : line'[j] = 3 * Heard + j - 1
    <3> TAKE j \in 1 .. Len(line')
    <3>1. CASE j \in 1 .. Len(line)
      BY <1>9, <2>1, <3>1
    <3>2. CASE j \notin 1 .. Len(line)
      <4> DEFINE i == j - Len(line)
      <4>1. i \in 1 .. 3 * c /\ j = Len(line) + i
        BY <1>1, <1>7, <1>9, <3>2
      <4> HIDE DEF i
      <4>2. line'[j] = 3 * n + i - 1
        BY <1>6, <1>9, <4>1
      <4> QED
        BY <1>1, <2>1, <2>2, <4>1, <4>2
    <3> QED
      BY <3>1, <3>2
  <2>5. Whole'
    <3>1. Heard \in 0 .. Len(sent') /\ Len(line') = 3 * (Len(sent') - Heard)
      BY <1>1, <1>8, <1>9, <2>1
    <3> QED
      BY <2>3, <2>4, <3>1 DEF Whole
  <2>6. Given' = Given
    BY <1>2 DEF Given
  <2>7. Follow(Given, sent', Heard)
    <3>1. Agree(sent, sent', Heard)
      BY <1>1, <1>8, <2>1 DEF Agree
    <3> QED
      BY <1>15, <2>2, <3>1, FollowLonger DEF HeardInv
  <2>8. Follow(Given, sent, Heard)'
    BY <2>3, <2>6, <2>7
  <2> QED
    BY <1>2, <1>15, <2>5, <2>8 DEF HeardInv
<1> QED
  BY <1>2, <1>14, <1>15

LEMMA SourceKept ==
    ASSUME SourceInv, UNCHANGED <<sent, asked>>
    PROVE  SourceInv'
BY DEF SourceInv

LEMMA NextOrder == OrderInv /\ [Next]_vars => OrderInv'
<1> SUFFICES ASSUME OrderInv, [Next]_vars PROVE OrderInv'
  OBVIOUS
<1>1. IInv /\ SourceInv /\ (hurt = {} => HeardInv) /\ IInv'
  BY NextInv DEF OrderInv
<1> SUFFICES SourceInv' /\ (hurt' = {} => HeardInv')
  BY <1>1 DEF OrderInv
<1>2. ASSUME NEW r \in Receivers, NEW p \in Packets, Send(r, p)
      PROVE  SourceInv' /\ (hurt' = {} => HeardInv')
  BY <1>1, <1>2, SendOrder
<1>3. ASSUME NEW i \in 1 .. Len(line), Lose(i)
      PROVE  SourceInv' /\ (hurt' = {} => HeardInv')
  <2>1. UNCHANGED <<sent, asked>> /\ hurt' # {}
    BY <1>3 DEF Lose
  <2> QED
    BY <1>1, <2>1, SourceKept
<1>4. ASSUME NEW n \in 1 .. Len(line), Read(n)
      PROVE  SourceInv' /\ (hurt' = {} => HeardInv')
  <2>1. UNCHANGED <<sent, line, receiver, pkt, hurt, asked, done>> /\ reading'
    BY <1>4 DEF Read
  <2> QED
    BY <1>1, <2>1, SourceKept, HeardKept
<1>5. CASE UnexpectedByte
  <2>1. UNCHANGED <<sent, hurt, asked>> /\ got >= 3 /\ Byte(line[1]) < FLAG
    BY <1>5 DEF UnexpectedByte, SIZE_MSG
  <2>2. ASSUME HeardInv PROVE FALSE
    <3>1. Byte(line[1]) >= FLAG
      BY <1>1, <2>1, <2>2, NextMessage DEF HeardInv
    <3>2. 1 \in 1 .. Len(line)
      BY <1>1, <2>1, LineFacts
    <3>3. Byte(line[1]) \in 0 .. 255
      BY <1>1, <3>2, HeadIsFirst
    <3> QED
      BY <2>1, <3>1, <3>3 DEF FLAG
  <2> QED
    BY <1>1, <2>1, <2>2, SourceKept
<1>6. CASE manchester_decode_packet
  <2>1. UNCHANGED <<sent, hurt, asked>>
    BY <1>6 DEF manchester_decode_packet
  <2> QED
    BY <1>1, <1>6, <2>1, SourceKept, DecodeHeard
<1>7. CASE Done
  <2>1. UNCHANGED <<sent, hurt, asked>>
    BY <1>7 DEF Done
  <2> QED
    BY <1>1, <1>7, <2>1, SourceKept, DoneHeard
<1>8. CASE Close
  <2>1. /\ UNCHANGED <<sent, asked>> /\ line # << >>
        /\ hurt' = hurt \cup {MessageOf(line[j]) : j \in 1 .. Len(line)}
    BY <1>8 DEF Close
  <2>2. 1 \in 1 .. Len(line)
    <3>1. line \in Seq(0 .. SIZE_MSG * Len(sent) - 1)
      BY <1>1 DEF IInv, TypeOK
    <3> QED
      BY <2>1, <3>1
  <2>3. hurt' # {}
    BY <2>1, <2>2
  <2> QED
    BY <1>1, <2>1, <2>3, SourceKept
<1>9. CASE UNCHANGED vars
  <2>1. UNCHANGED <<sent, line, got, reading, receiver, pkt, hurt, asked, done>>
    BY <1>9 DEF vars
  <2>2. HeardInv => (receiver # 0 /\ ~reading' => got' > 0)
    BY <2>1 DEF HeardInv
  <2> QED
    BY <1>1, <2>1, <2>2, SourceKept, HeardKept
<1> QED
  BY <1>2, <1>3, <1>4, <1>5, <1>6, <1>7, <1>8, <1>9 DEF Next, Silence

LEMMA OrderInvariance == Spec => []OrderInv
BY InitOrder, NextOrder, PTL DEF Spec

\* A message for group g of camera r comes from a packet that asks it.
LEMMA AskedOf ==
    ASSUME SourceInv, NEW src, Sources(src, sent, asked), NEW r, NEW g \in Groups,
           NEW m \in 1 .. Len(sent), sent[m].receiver = r, Function(sent[m].cmd) \in CC[g]
    PROVE  src[m] \in AskedFor(r, g) /\ Said(sent[m].cmd, asked[src[m]].pkt, g)
<1>1. src[m] \in 1 .. Len(asked) /\ asked[src[m]].receiver = r
  BY DEF Sources
<1>2. PICK h \in Groups : Said(sent[m].cmd, asked[src[m]].pkt, h)
  BY DEF Sources
<1>3. Function(sent[m].cmd) \in CC[h]
  BY <1>2, ModeIs DEF Said
<1>4. h = g
  BY <1>3, GroupsDisjoint
<1> QED
  BY <1>1, <1>2, <1>4 DEF AskedFor, Said, Asks

\* What has the command of a message gives what its packet asks.
LEMMA HasGives ==
    ASSUME NEW d, NEW c, NEW a, NEW g, Has(d, c, g), Said(c, a, g)
    PROVE  Gives(d, a, g)
BY DEF Has, Said, Gives, Asked

\* The packets given come first, before the one that is held.
LEMMA DoneFirst ==
    ASSUME HeardInv, NEW r, NEW g
    PROVE  /\ DoneFor(r, g) \subseteq For(Given, r, g)
           /\ \A j \in DoneFor(r, g) : j \in Nat /\ Given[j] = done[j]
<1> DEFINE d == [receiver |-> receiver, pkt |-> pkt]
<1>1. done \in Seq(Entries) /\ Len(done) \in Nat
  BY DEF HeardInv
<1>2. \A j \in 1 .. Len(done) : j \in 1 .. Len(Given) /\ Given[j] = done[j]
  <2>1. CASE receiver = 0
    BY <2>1 DEF Given
  <2>2. CASE receiver # 0
    <3>1. d \in Entries /\ Given = Append(done, d)
      BY <2>2 DEF HeardInv, Entries, Given
    <3> HIDE DEF d
    <3> QED
      BY <1>1, <3>1
  <2> QED
    BY <2>1, <2>2
<1> QED
  BY <1>1, <1>2 DEF DoneFor, For

\* On a line that loses nothing, each camera is given what was asked of it, in
\* the order in which it was asked, and nothing else: whatever the packets, and
\* however their messages are split over reads (manchester_decode_packet).
THEOREM GivenAsAsked == Spec => []GivenInOrder
<1>1. OrderInv => GivenInOrder
  <2> SUFFICES ASSUME OrderInv, hurt = {} PROVE
          /\ \A j \in 1 .. Len(done) : done[j].receiver \in Receivers
          /\ \A r \in Receivers, g \in Groups :
                \E f \in [DoneFor(r, g) -> AskedFor(r, g)] :
                    /\ \A i, j \in DoneFor(r, g) : i < j => f[i] < f[j]
                    /\ \A j \in DoneFor(r, g) : Gives(done[j].pkt, asked[f[j]].pkt, g)
    BY DEF GivenInOrder
  <2>1. IInv /\ SourceInv /\ HeardInv
    BY DEF OrderInv
  <2>2. \A j \in 1 .. Len(done) : done[j].receiver \in Receivers
    <3>1. done \in Seq(Entries)
      BY <2>1 DEF HeardInv
    <3>2. \A j \in 1 .. Len(done) : done[j] \in Entries
      BY <3>1
    <3> QED
      BY <3>2 DEF Entries
  <2>3. ASSUME NEW r \in Receivers, NEW g \in Groups
        PROVE  \E f \in [DoneFor(r, g) -> AskedFor(r, g)] :
                    /\ \A i, j \in DoneFor(r, g) : i < j => f[i] < f[j]
                    /\ \A j \in DoneFor(r, g) : Gives(done[j].pkt, asked[f[j]].pkt, g)
    <3>1. PICK src : Sources(src, sent, asked)
      BY <2>1 DEF SourceInv
    <3>2. PICK h : Follows(h, Given, sent, Heard, r, g)
      BY <2>1 DEF HeardInv, Follow
    <3>3. ASSUME NEW j \in DoneFor(r, g)
          PROVE  /\ h[j] \in 1 .. Len(sent) /\ src[h[j]] \in AskedFor(r, g)
                 /\ Said(sent[h[j]].cmd, asked[src[h[j]]].pkt, g)
                 /\ Has(done[j].pkt, sent[h[j]].cmd, g)
      <4>1. j \in For(Given, r, g) /\ Given[j] = done[j]
        BY <2>1, <3>3, DoneFirst
      <4>2. h[j] \in To(sent, Heard, r, g) /\ Has(done[j].pkt, sent[h[j]].cmd, g)
        BY <3>2, <4>1 DEF Follows
      <4>3. /\ h[j] \in 1 .. Len(sent) /\ sent[h[j]].receiver = r
            /\ Function(sent[h[j]].cmd) \in CC[g]
        <5>1. Heard \in 0 .. Len(sent) /\ Len(sent) \in Nat
          BY <2>1, LineFacts DEF HeardInv, Whole
        <5> QED
          BY <4>2, <5>1 DEF To
      <4> QED
        BY <2>1, <3>1, <4>2, <4>3, AskedOf
    <3> DEFINE f == [j \in DoneFor(r, g) |-> src[h[j]]]
    <3>4. f \in [DoneFor(r, g) -> AskedFor(r, g)]
      BY <3>3
    <3>5. ASSUME NEW j \in DoneFor(r, g) PROVE Gives(done[j].pkt, asked[f[j]].pkt, g)
      BY <3>3, HasGives
    <3>6. ASSUME NEW i \in DoneFor(r, g), NEW j \in DoneFor(r, g), i < j
          PROVE  f[i] < f[j]
      <4>1. h[i] < h[j] /\ h[i] \in 1 .. Len(sent) /\ h[j] \in 1 .. Len(sent)
        <5>1. i \in For(Given, r, g) /\ j \in For(Given, r, g)
          BY <2>1, DoneFirst
        <5> QED
          BY <3>2, <3>3, <3>6, <5>1 DEF Follows
      <4>2. src[h[i]] <= src[h[j]] /\ src[h[i]] \in Nat /\ src[h[j]] \in Nat
        <5>1. h[i] <= h[j]
          BY <4>1
        <5>2. src[h[i]] <= src[h[j]]
          BY <3>1, <4>1, <5>1 DEF Sources
        <5> QED
          BY <3>3, <5>2 DEF AskedFor
      <4>3. src[h[i]] # src[h[j]]
        <5>1. src[h[i]] = src[h[j]] => h[i] = h[j]
          BY <3>1, <3>3, <4>1 DEF Sources
        <5> QED
          BY <4>1, <5>1
      <4> QED
        BY <4>2, <4>3
    <3> HIDE DEF f
    <3> QED
      BY <3>4, <3>5, <3>6
  <2> QED
    BY <2>2, <2>3
<1> QED
  BY <1>1, OrderInvariance, PTL

\* And once all of it has been read, the newest command of every group that the
\* protocol can carry has been given to its camera, and it is the last that was
\* (manchester_do_write, manchester_do_read).
THEOREM NothingNewerLost == Spec => []NewestGiven
<1>1. OrderInv => NewestGiven
  <2> SUFFICES ASSUME OrderInv, hurt = {}, line = << >>, ~reading,
                      NEW r \in Receivers, NEW g \in Groups, NEW k \in AskedFor(r, g),
                      \A i \in AskedFor(r, g) : i <= k
               PROVE  \E j \in DoneFor(r, g) : /\ \A i \in DoneFor(r, g) : i <= j
                                               /\ Gives(done[j].pkt, asked[k].pkt, g)
    BY DEF NewestGiven
  <2>1. IInv /\ SourceInv /\ HeardInv
    BY DEF OrderInv
  <2>2. Given = done /\ Heard = Len(sent) /\ Len(sent) \in Nat
    <3>1. Len(line) = 0 /\ Len(sent) \in Nat /\ got \in Nat /\ got <= Len(line)
      BY <2>1, LineFacts
    <3>2. receiver = 0
      BY <2>1, <3>1 DEF HeardInv
    <3> QED
      BY <3>1, <3>2 DEF Given, Heard
  <2>3. PICK src : Sources(src, sent, asked)
    BY <2>1 DEF SourceInv
  <2>4. PICK h : Follows(h, done, sent, Len(sent), r, g)
    BY <2>1, <2>2 DEF HeardInv, Follow
  <2>5. DoneFor(r, g) = For(done, r, g)
    BY DEF DoneFor, For
  <2>6. k \in 1 .. Len(asked) /\ asked[k].receiver = r /\ Asks(asked[k].pkt, g)
    BY DEF AskedFor, Asks
  <2>7. PICK m \in 1 .. Len(sent) : src[m] = k /\ Said(sent[m].cmd, asked[k].pkt, g)
    BY <2>3, <2>6 DEF Sources
  <2>8. sent[m].receiver = r /\ Function(sent[m].cmd) \in CC[g]
    <3>1. sent[m].receiver = r
      BY <2>3, <2>6, <2>7 DEF Sources
    <3>2. Function(sent[m].cmd) \in CC[g]
      BY <2>7, ModeIs DEF Said
    <3> QED
      BY <3>1, <3>2
  <2>9. m \in To(sent, Len(sent), r, g)
    BY <2>8 DEF To
  <2>10. ASSUME NEW j \in DoneFor(r, g), m <= h[j]
         PROVE  h[j] = m
    <3>1. h[j] \in To(sent, Len(sent), r, g)
      BY <2>4, <2>5 DEF Follows
    <3>2. /\ h[j] \in 1 .. Len(sent) /\ sent[h[j]].receiver = r
          /\ Function(sent[h[j]].cmd) \in CC[g]
      BY <3>1 DEF To
    <3>3. src[h[j]] \in AskedFor(r, g) /\ Said(sent[h[j]].cmd, asked[src[h[j]]].pkt, g)
      BY <2>1, <2>3, <3>2, AskedOf
    <3>4. k <= src[h[j]]
      BY <2>3, <2>7, <2>10, <3>2 DEF Sources
    <3>5. src[h[j]] <= k /\ src[h[j]] \in Nat /\ k \in Nat
      <4>1. src[h[j]] <= k
        BY <3>3
      <4> QED
        BY <2>6, <3>3, <4>1 DEF AskedFor
    <3>6. src[h[j]] = src[m]
      BY <2>7, <3>4, <3>5
    <3> QED
      BY <2>3, <2>7, <3>2, <3>3, <3>6 DEF Sources
  <2>11. PICK j \in DoneFor(r, g) : m <= h[j]
    BY <2>4, <2>5, <2>9 DEF Follows
  <2>12. h[j] = m
    BY <2>10, <2>11
  <2>13. Gives(done[j].pkt, asked[k].pkt, g)
    <3>1. Has(done[j].pkt, sent[m].cmd, g)
      BY <2>4, <2>5, <2>12 DEF Follows
    <3> QED
      BY <2>7, <3>1, HasGives
  <2>14. ASSUME NEW i \in DoneFor(r, g) PROVE i <= j
    <3> SUFFICES ASSUME j < i PROVE FALSE
      BY DEF DoneFor
    <3>1. h[j] < h[i]
      BY <2>4, <2>5 DEF Follows
    <3>2. h[i] \in Nat /\ m \in Nat
      BY <2>4, <2>5 DEF Follows, To
    <3>3. h[i] = m
      BY <2>10, <2>12, <3>1, <3>2
    <3> QED
      BY <2>12, <3>1, <3>2, <3>3
  <2> QED
    BY <2>13, <2>14
<1> QED
  BY <1>1, OrderInvariance, PTL

==============================================================================
