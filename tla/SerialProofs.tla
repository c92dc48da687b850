----------------------------- MODULE SerialProofs -----------------------------
(****************************************************************************)
(* The framed protocols, for any packets, receivers, losses and splits of   *)
(* the line: what is written are whole messages under their headers, and a  *)
(* message that no loss touches is decoded from its own bytes.              *)
(****************************************************************************)
EXTENDS Serial, TLAPS, SequenceTheorems, WellFoundedInduction

Codecs == {"pelco_d", "pelco_p", "vicon"}

\* The n octets of b from place i on are a message.
IsMessage(c, b, i, n) ==
    LET m(k) == [j \in 0 .. k - 1 |-> b[i + j]]
    IN IF c = "vicon"
       THEN /\ b[i] >= VICON_FLAG /\ is_command(m(SIZE_STATUS))
            /\ n = IF is_extended_command(m(SIZE_STATUS)) THEN SIZE_EXTENDED ELSE SIZE_COMMAND
       ELSE n = SIZE[c] /\ IsFrame(c, m(SIZE[c]))

LEMMA Sizes ==
    /\ SIZE_STATUS = 2 /\ SIZE_COMMAND = 6 /\ SIZE_EXTENDED = 10 /\ VICON_FLAG = 128
    /\ SIZE["pelco_d"] = 7 /\ SIZE["pelco_p"] = 8
    /\ SIZE.pelco_d = 7 /\ SIZE.pelco_p = 8
    /\ START["pelco_d"] = 255 /\ START["pelco_p"] = 160
    /\ HEADER_SZ = 12 /\ AUTH_SZ = 64 /\ BUFFER_SIZE = 256
BY DEF SIZE_STATUS, SIZE_COMMAND, SIZE_EXTENDED, VICON_FLAG, SIZE, START, HEADER_SZ,
       AUTH_SZ, BUFFER_SIZE

\* The same octets at another place are a message, too.
LEMMA SameMessage ==
    ASSUME NEW c \in Codecs, NEW b, NEW i \in Int, NEW n \in Nat, IsMessage(c, b, i, n),
           NEW d, NEW h \in Int, \A j \in 0 .. n - 1 : d[h + j] = b[i + j]
    PROVE  IsMessage(c, d, h, n)
<1>1. CASE c = "vicon"
    <2>1. n = 6 \/ n = 10
        BY <1>1, Sizes DEF IsMessage
    <2>2. [j \in 0 .. SIZE_STATUS - 1 |-> d[h + j]] = [j \in 0 .. SIZE_STATUS - 1 |-> b[i + j]]
        BY <2>1, Sizes
    <2>3. d[h] = b[i]
        <3>1. 0 \in 0 .. n - 1 /\ h + 0 = h /\ i + 0 = i
            BY <2>1
        <3>. QED
            BY <3>1
    <2>. QED
        BY <1>1, <2>2, <2>3 DEF IsMessage
<1>2. CASE c # "vicon"
    <2>1. n = SIZE[c]
        BY <1>2 DEF IsMessage
    <2>2. [j \in 0 .. SIZE[c] - 1 |-> d[h + j]] = [j \in 0 .. SIZE[c] - 1 |-> b[i + j]]
        BY <2>1
    <2>. QED
        BY <1>2, <2>1, <2>2 DEF IsMessage
<1>. QED
    BY <1>1, <1>2

LEMMA MessageSize ==
    ASSUME NEW c \in Codecs, NEW b, NEW i, NEW n, IsMessage(c, b, i, n)
    PROVE  n \in {6, 7, 8, 10} /\ (c # "vicon" => n = SIZE[c]) /\ n \in Nat
BY Sizes DEF IsMessage, Codecs

-----------------------------------------------------------------------------
(* The octets of the codecs.                                                *)

LEMMA OctetIs ==
    ASSUME NEW bits, NEW j
    PROVE  Octet(bits, j) \in 0 .. 255
BY DEF Octet

LEMMA XorIs ==
    ASSUME NEW m
    PROVE  Xor(m) \in 0 .. 255
<1> DEFINE sum(k) == (m[0] \div (2 ^ k)) + (m[1] \div (2 ^ k)) + (m[2] \div (2 ^ k))
                     + (m[3] \div (2 ^ k)) + (m[4] \div (2 ^ k)) + (m[5] \div (2 ^ k))
                     + (m[6] \div (2 ^ k))
           v(k) == IF sum(k) % 2 = 1 THEN 2 ^ k ELSE 0
<1>1. Xor(m) = v(0) + v(1) + v(2) + v(3) + v(4) + v(5) + v(6) + v(7)
    BY DEF Xor
<1>2. /\ v(0) \in {0, 1} /\ v(1) \in {0, 2} /\ v(2) \in {0, 4} /\ v(3) \in {0, 8}
      /\ v(4) \in {0, 16} /\ v(5) \in {0, 32} /\ v(6) \in {0, 64} /\ v(7) \in {0, 128}
    <2>1. /\ 2 ^ 0 = 1 /\ 2 ^ 1 = 2 /\ 2 ^ 2 = 4 /\ 2 ^ 3 = 8
          /\ 2 ^ 4 = 16 /\ 2 ^ 5 = 32 /\ 2 ^ 6 = 64 /\ 2 ^ 7 = 128
        OBVIOUS
    <2>2. \A k : v(k) \in {0, 2 ^ k}
        <3>. HIDE DEF sum
        <3>. QED
            OBVIOUS
    <2>. HIDE DEF v
    <2>3. v(0) \in {0, 1} /\ v(1) \in {0, 2}
        <3>1. v(0) \in {0, 2 ^ 0} /\ v(1) \in {0, 2 ^ 1}
            BY <2>2, Zenon
        <3>. QED
            BY <2>1, <3>1
    <2>4. v(2) \in {0, 4} /\ v(3) \in {0, 8}
        <3>1. v(2) \in {0, 2 ^ 2} /\ v(3) \in {0, 2 ^ 3}
            BY <2>2, Zenon
        <3>. QED
            BY <2>1, <3>1
    <2>5. v(4) \in {0, 16} /\ v(5) \in {0, 32}
        <3>1. v(4) \in {0, 2 ^ 4} /\ v(5) \in {0, 2 ^ 5}
            BY <2>2, Zenon
        <3>. QED
            BY <2>1, <3>1
    <2>6. v(6) \in {0, 64} /\ v(7) \in {0, 128}
        <3>1. v(6) \in {0, 2 ^ 6} /\ v(7) \in {0, 2 ^ 7}
            BY <2>2, Zenon
        <3>. QED
            BY <2>1, <3>1
    <2>. QED
        BY <2>3, <2>4, <2>5, <2>6
<1>. HIDE DEF v
<1>. QED
    BY <1>1, <1>2

LEMMA XorSame ==
    ASSUME NEW m, NEW w, \A j \in 0 .. 6 : m[j] = w[j]
    PROVE  Xor(m) = Xor(w)
BY DEF Xor

Framing(d, m) == IsFrame(d, m) /\ \A j \in 0 .. SIZE[d] - 1 : m[j] \in 0 .. 255

\* What is between the frame is a message.
LEMMA FrameIs ==
    ASSUME NEW d \in {"pelco_d", "pelco_p"}, NEW r \in 0 .. 255,
           NEW a \in 0 .. 255, NEW b \in 0 .. 255, NEW e \in 0 .. 255, NEW f \in 0 .. 255,
           NEW m, m = Frame(d, r, a, b, e, f)
    PROVE  Framing(d, m)
<1> DEFINE w == [j \in 0 .. 6 |-> <<START[d], r, a, b, e, f, ETX>>[j + 1]]
<1>1. /\ w[0] = START[d] /\ w[1] = r /\ w[2] = a /\ w[3] = b /\ w[4] = e /\ w[5] = f
      /\ w[6] = ETX
    OBVIOUS
<1>2. START[d] \in 0 .. 255 /\ ETX \in 0 .. 255 /\ SIZE[d] \in {7, 8}
      /\ (d = "pelco_p" => SIZE[d] = 8) /\ (d = "pelco_d" => SIZE[d] = 7)
    BY DEF START, ETX, SIZE
<1>3. m = [j \in 0 .. SIZE[d] - 1 |->
              IF j = SIZE[d] - 1 THEN calculate_checksum(d, w) ELSE w[j]]
    BY DEF Frame
<1> HIDE DEF w
<1>4. /\ m[SIZE[d] - 1] = calculate_checksum(d, w)
      /\ \A j \in 0 .. SIZE[d] - 2 : m[j] = w[j]
    BY <1>2, <1>3
<1>5. calculate_checksum(d, w) \in 0 .. 255
    <2>1. CASE d = "pelco_d"
        <3>1. w[1] + w[2] + w[3] + w[4] + w[5] \in Int
            BY <1>1
        <3>. QED
            BY <2>1, <3>1 DEF calculate_checksum
    <2>2. CASE d = "pelco_p"
        BY <2>2, XorIs DEF calculate_checksum
    <2>. QED
        BY <2>1, <2>2
<1>6. \A j \in 0 .. 6 : w[j] \in 0 .. 255
    <2>1. \A j \in 0 .. 6 : j = 0 \/ j = 1 \/ j = 2 \/ j = 3 \/ j = 4 \/ j = 5 \/ j = 6
        OBVIOUS
    <2>. QED
        BY <1>1, <1>2, <2>1, SMTT(30)
<1>7. \A j \in 0 .. SIZE[d] - 1 : m[j] \in 0 .. 255
    <2>1. \A j \in 0 .. SIZE[d] - 1 :
             j = SIZE[d] - 1 \/ (j \in 0 .. SIZE[d] - 2 /\ j \in 0 .. 6)
        BY <1>2
    <2>. QED
        BY <1>4, <1>5, <1>6, <2>1
<1>8. calculate_checksum(d, m) = calculate_checksum(d, w)
    <2>1. CASE d = "pelco_d"
        <3>1. m[1] = w[1] /\ m[2] = w[2] /\ m[3] = w[3] /\ m[4] = w[4] /\ m[5] = w[5]
            BY <1>2, <1>4, <2>1
        <3>. QED
            BY <2>1, <3>1 DEF calculate_checksum
    <2>2. CASE d = "pelco_p"
        <3>1. \A j \in 0 .. 6 : m[j] = w[j]
            BY <1>2, <1>4, <2>2
        <3>. QED
            BY <2>2, <3>1, XorSame DEF calculate_checksum
    <2>. QED
        BY <2>1, <2>2
<1>9. m[0] = START[d] /\ (d = "pelco_p" => m[6] = ETX)
    BY <1>1, <1>2, <1>4
<1>. QED
    BY <1>4, <1>7, <1>8, <1>9 DEF IsFrame, Framing

-----------------------------------------------------------------------------
(* The packets that are encoded.                                            *)

AllModes == UNION {CC[g] : g \in Groups}

PacketType == [flags : SUBSET AllModes, pan : 0 .. SPEED_MAX, tilt : 0 .. SPEED_MAX,
               preset : Nat]

LEMMA PacketsAre ==
    ASSUME NEW p \in Packets
    PROVE  p \in PacketType
BY SerialAssumption DEF PacketType, AllModes

LEMMA GroupNames ==
    /\ \A g \in {"menu", "camera", "pan", "tilt", "preset", "zoom", "focus", "iris",
                 "lens", "wiper", "ack"} : g \in Groups
    /\ CC.preset = CC["preset"]
BY DEF Groups, CC

LEMMA SetType ==
    ASSUME NEW p \in PacketType, NEW g \in Groups, NEW m
    PROVE  Set(p, g, m) \in PacketType
<1>1. Valid(g, m) \subseteq AllModes
    BY DEF Valid, AllModes
<1>. QED
    BY <1>1 DEF Set, PacketType

LEMMA SetPanType ==
    ASSUME NEW p \in PacketType, NEW m, NEW s \in 0 .. SPEED_MAX
    PROVE  ccpacket_set_pan(p, m, s) \in PacketType
<1>1. PICK q \in PacketType : q = Set(p, "pan", m)
    BY SetType, GroupNames
<1>2. clamp_speed(s) \in 0 .. SPEED_MAX
    BY PacketAssumption DEF clamp_speed
<1>3. ccpacket_set_pan(p, m, s) = [q EXCEPT !.pan = clamp_speed(s)]
    BY <1>1 DEF ccpacket_set_pan
<1>. QED
    BY <1>2, <1>3 DEF PacketType

Refilled(q, f, n) == [q EXCEPT !.flags = f, !.preset = n]

LEMMA RefilledType ==
    ASSUME NEW q \in PacketType, NEW f \in SUBSET AllModes, NEW n \in Nat
    PROVE  Refilled(q, f, n) \in PacketType
BY DEF PacketType, Refilled

LEMMA SetPresetType ==
    ASSUME NEW p \in PacketType, NEW m, NEW n \in Nat
    PROVE  ccpacket_set_preset(p, m, n) \in PacketType
<1>1. PICK f \in SUBSET AllModes : f = p.flags \ CC.preset
    BY DEF PacketType
<1>2. PICK v \in SUBSET AllModes : v = f \cup ccpacket_preset(m, n)
    <2>1. ccpacket_preset(m, n) \subseteq AllModes
        BY GroupNames DEF ccpacket_preset, Valid, AllModes
    <2>. QED
        BY <2>1
<1>3. CASE IsMenuPreset(m, n)
    <2>1. PICK q \in PacketType : q = Set(p, "menu", MenuMode(n))
        BY SetType, GroupNames
    <2>2. ccpacket_set_preset(p, m, n) = Refilled(q, f, 0)
        BY <1>1, <1>3, <2>1 DEF ccpacket_set_preset, Refilled
    <2>3. 0 \in Nat
        OBVIOUS
    <2>. QED
        BY <2>2, <2>3, RefilledType
<1>4. CASE ~IsMenuPreset(m, n)
    <2>1. ccpacket_set_preset(p, m, n) = Refilled(p, v, n)
        BY <1>1, <1>2, <1>4 DEF ccpacket_set_preset, Refilled
    <2>. QED
        BY <2>1, RefilledType
<1>. QED
    BY <1>3, <1>4

LEMMA AdjustType ==
    ASSUME NEW p \in PacketType
    PROVE  adjust_menu_commands(p) \in PacketType
<1>1. PELCO_PRESET_MENU_OPEN \in Nat
    BY DEF PELCO_PRESET_MENU_OPEN
<1>. QED
    BY <1>1, SetType, SetPresetType, GroupNames DEF adjust_menu_commands

LEMMA ViconAdjustType ==
    ASSUME NEW p \in PacketType
    PROVE  vicon_adjust_menu_commands(p) \in PacketType
<1>1. VICON_PRESET_MENU_OPEN \in Nat /\ 0 \in 0 .. SPEED_MAX
    BY PacketAssumption DEF VICON_PRESET_MENU_OPEN
<1>. QED
    BY <1>1, SetType, SetPanType, SetPresetType, GroupNames DEF vicon_adjust_menu_commands

-----------------------------------------------------------------------------
(* The messages of Pelco.                                                   *)

\* m is a message of codec c, n octets long, numbered from 0.
Encodes(c, m, n) ==
    /\ IsMessage(c, m, 0, n) /\ \A j \in 0 .. n - 1 : m[j] \in 0 .. 255
    /\ m = [j \in 0 .. n - 1 |-> m[j]]

LEMMA FrameEncodes ==
    ASSUME NEW d \in {"pelco_d", "pelco_p"}, NEW r \in 0 .. 255,
           NEW a \in 0 .. 255, NEW b \in 0 .. 255, NEW e \in 0 .. 255, NEW f \in 0 .. 255
    PROVE  Encodes(d, Frame(d, r, a, b, e, f), SIZE[d])
<1>1. PICK m : m = Frame(d, r, a, b, e, f)
    OBVIOUS
<1>2. IsFrame(d, m) /\ \A j \in 0 .. SIZE[d] - 1 : m[j] \in 0 .. 255
    <2>1. Framing(d, m)
        BY <1>1, FrameIs, ZenonT(30)
    <2>. QED
        BY <2>1 DEF Framing
<1>3. m = [j \in 0 .. SIZE[d] - 1 |-> m[j]]
    <2>1. DOMAIN m = 0 .. SIZE[d] - 1 /\ m = [j \in DOMAIN m |-> m[j]]
        BY <1>1 DEF Frame
    <2>. QED
        BY <2>1
<1>4. m = [j \in 0 .. SIZE[d] - 1 |-> m[0 + j]]
    <2>1. \A j \in 0 .. SIZE[d] - 1 : 0 + j = j
        BY Sizes
    <2>. QED
        BY <1>3, <2>1
<1>. QED
    BY <1>1, <1>2, <1>3, <1>4 DEF Encodes, IsMessage

LEMMA PelcoEncodes ==
    ASSUME NEW d \in {"pelco_d", "pelco_p"}, NEW r \in 0 .. 255, NEW q \in PacketType
    PROVE  /\ Encodes(d, encode_command(d, r, q), SIZE[d])
           /\ Encodes(d, encode_preset(d, r, q), SIZE[d])
           /\ Encodes(d, encode_wiper(d, r, q), SIZE[d])
<1>1. /\ q.pan \in Nat /\ q.tilt \in Nat /\ q.preset \in Nat /\ SPEED_MAX \in Nat
    BY PacketAssumption DEF PacketType
<1>2. \A s \in Nat : encode_speed(s) \in 0 .. 63
    BY DEF encode_speed, TURBO_SPEED
<1>3. encode_pan_speed(q.pan) \in 0 .. 64
    BY <1>1, <1>2 DEF encode_pan_speed, TURBO_SPEED
<1>4. Encodes(d, encode_command(d, r, q), SIZE[d])
    <2>1. \A x \in 0 .. 64 : x \in 0 .. 255
        OBVIOUS
    <2> DEFINE e == IF ccpacket_has_pan(q) /\ (IF ccpacket_has_pan(q)
                         THEN Get(q, "pan") \cap {"pan_left", "pan_right"} ELSE {}) = {}
                    THEN 0 ELSE encode_pan_speed(q.pan)
               f == IF (IF encode_speed(q.tilt) # 0 THEN Get(q, "tilt") ELSE {}) = {}
                    THEN 0 ELSE encode_speed(q.tilt)
    <2>2. e \in 0 .. 255
        BY <1>3, <2>1
    <2>3. f \in 0 .. 255
        BY <1>1, <1>2
    <2>4. PICK bits : encode_command(d, r, q) = Frame(d, r, Octet(bits, 2), Octet(bits, 3), e, f)
        BY DEF encode_command
    <2>5. PICK a \in 0 .. 255 : a = Octet(bits, 2)
        BY OctetIs
    <2>6. PICK b \in 0 .. 255 : b = Octet(bits, 3)
        BY OctetIs
    <2>7. PICK x \in 0 .. 255 : x = e
        BY <2>2
    <2>8. PICK y \in 0 .. 255 : y = f
        BY <2>3
    <2>. HIDE DEF e, f
    <2>9. encode_command(d, r, q) = Frame(d, r, a, b, x, y)
        BY <2>4, <2>5, <2>6, <2>7, <2>8
    <2>10. Encodes(d, Frame(d, r, a, b, x, y), SIZE[d])
        BY FrameEncodes, ZenonT(30)
    <2>. QED
        BY <2>9, <2>10
<1>5. ASSUME NEW x \in 1 .. 5, NEW n \in 0 .. 255
      PROVE  Encodes(d, Extended(d, r, x, n), SIZE[d])
    <2>1. 0 \in 0 .. 255 /\ 2 * x + 1 \in 0 .. 255
        OBVIOUS
    <2>. QED
        BY <2>1, FrameEncodes, ZenonT(30) DEF Extended
<1>6. /\ EX_STORE \in 1 .. 5 /\ EX_CLEAR \in 1 .. 5 /\ EX_RECALL \in 1 .. 5
      /\ EX_AUX_SET \in 1 .. 5 /\ EX_AUX_CLEAR \in 1 .. 5 /\ EX_AUX_WIPER \in 0 .. 255
    BY DEF EX_STORE, EX_CLEAR, EX_RECALL, EX_AUX_SET, EX_AUX_CLEAR, EX_AUX_WIPER
<1>7. q.preset % 256 \in 0 .. 255
    BY <1>1
<1>8. Encodes(d, encode_preset(d, r, q), SIZE[d])
    <2> DEFINE pm == ccpacket_get_preset_mode(q)
    <2>1. PICK x \in 1 .. 5 : x = CASE pm = {"preset_recall"} -> EX_RECALL
                                 [] pm = {"preset_store"}  -> EX_STORE
                                 [] OTHER                  -> EX_CLEAR
        <3>. HIDE DEF pm
        <3>. QED
            BY <1>6
    <2>2. encode_preset(d, r, q) = Extended(d, r, x, q.preset % 256)
        BY <2>1 DEF encode_preset
    <2>. QED
        BY <1>5, <1>7, <2>2
<1>9. Encodes(d, encode_wiper(d, r, q), SIZE[d])
    <2>1. PICK x \in 1 .. 5 :
             x = IF Get(q, "wiper") = {"wiper_on"} THEN EX_AUX_SET ELSE EX_AUX_CLEAR
        BY <1>6
    <2>2. encode_wiper(d, r, q) = Extended(d, r, x, EX_AUX_WIPER)
        BY <2>1 DEF encode_wiper
    <2>. QED
        BY <1>5, <1>6, <2>2
<1>. QED
    BY <1>4, <1>8, <1>9

-----------------------------------------------------------------------------
(* The messages of Vicon.                                                   *)

Functions == DOMAIN VICON_BIT

LEMMA BitIs ==
    ASSUME NEW f \in Functions
    PROVE  /\ VICON_BIT[f] \in 12 .. 52
           /\ VICON_BIT[f] # 15 /\ (VICON_BIT[f] \in 40 .. 47 => VICON_BIT[f] \in {45, 46})
           /\ VICON_BIT[f] \in 48 .. 52 => VICON_BIT[f] \in {48, 49, 52}
           /\ VICON_BIT[f] = 12 <=> f = "command"
           /\ VICON_BIT[f] = 14 <=> f = "extended"
BY DEF VICON_BIT, Functions

LEMMA Powers ==
    /\ 2 ^ 0 = 1 /\ 2 ^ 1 = 2 /\ 2 ^ 2 = 4 /\ 2 ^ 3 = 8
    /\ 2 ^ 4 = 16 /\ 2 ^ 5 = 32 /\ 2 ^ 6 = 64 /\ 2 ^ 7 = 128
OBVIOUS

LEMMA ViconOctets ==
    ASSUME NEW fs \in SUBSET Functions, NEW bits, bits = {VICON_BIT[f] : f \in fs}
    PROVE  /\ Octet(bits, 1) = (IF "command" \in fs THEN 16 ELSE 0)
                               + (IF 13 \in bits THEN 32 ELSE 0)
                               + (IF "extended" \in fs THEN 64 ELSE 0)
           /\ Octet(bits, 5) \in 0 .. 96 /\ Octet(bits, 6) \in 0 .. 19
           /\ Octet(bits, 7) = 0 /\ Octet(bits, 8) = 0 /\ Octet(bits, 9) = 0
<1>1. /\ \A b \in bits : /\ b \in 12 .. 52 /\ b # 15
                         /\ b \in 40 .. 47 => b \in {45, 46}
                         /\ b \in 48 .. 52 => b \in {48, 49, 52}
      /\ 12 \in bits <=> "command" \in fs
      /\ 14 \in bits <=> "extended" \in fs
    <2>1. "command" \in Functions /\ "extended" \in Functions
        BY DEF Functions, VICON_BIT
    <2>. QED
        BY <2>1, BitIs
<1>2. Octet(bits, 1) = (IF 12 \in bits THEN 16 ELSE 0) + (IF 13 \in bits THEN 32 ELSE 0)
                       + (IF 14 \in bits THEN 64 ELSE 0)
    <2>1. 8 \notin bits /\ 9 \notin bits /\ 10 \notin bits /\ 11 \notin bits /\ 15 \notin bits
        BY <1>1
    <2>. QED
        BY <2>1, Powers DEF Octet
<1>3. Octet(bits, 5) \in 0 .. 96
    <2>1. /\ 40 \notin bits /\ 41 \notin bits /\ 42 \notin bits /\ 43 \notin bits
          /\ 44 \notin bits /\ 47 \notin bits
        BY <1>1
    <2>. QED
        BY <2>1, Powers DEF Octet
<1>4. Octet(bits, 6) \in 0 .. 19
    <2>1. /\ 50 \notin bits /\ 51 \notin bits /\ 53 \notin bits /\ 54 \notin bits
          /\ 55 \notin bits
        BY <1>1
    <2>. QED
        BY <2>1, Powers DEF Octet
<1>5. Octet(bits, 7) = 0 /\ Octet(bits, 8) = 0 /\ Octet(bits, 9) = 0
    <2>1. \A b \in 56 .. 79 : b \notin bits
        BY <1>1
    <2>. QED
        BY <2>1 DEF Octet
<1>. QED
    BY <1>1, <1>2, <1>3, <1>4, <1>5

\* What may be added to the octets of the functions.
Addition(v) == \A j \in DOMAIN v : j \in 5 .. 9 /\ v[j] \in 0 .. 127 /\ (j = 5 => v[j] <= 15)

LEMMA ViconMessageIs ==
    ASSUME NEW n \in {6, 10}, NEW r \in 1 .. 255, NEW fs \in SUBSET Functions,
           "command" \in fs, "extended" \in fs <=> n = 10, NEW v, Addition(v)
    PROVE  LET m == vicon_message(n, r, fs, v)
           IN Encodes("vicon", m, n) /\ (is_extended_command(m) <=> n = 10)
<1>1. PICK bits : bits = {VICON_BIT[f] : f \in fs}
    OBVIOUS
<1>2. PICK m : m = vicon_message(n, r, fs, v)
    OBVIOUS
<1>3. \A j \in 0 .. n - 1 :
         m[j] = IF j = 0 THEN 128 + ((r \div 16) % 16)
                ELSE Octet(bits, j) + (IF j = 1 THEN r % 16
                                       ELSE IF j \in DOMAIN v THEN v[j] ELSE 0)
    BY <1>1, <1>2 DEF vicon_message, encode_receiver, VICON_FLAG
<1>4. m[0] \in 128 .. 143
    BY <1>3
<1>5. m[1] = Octet(bits, 1) + (r % 16)
    BY <1>3
<1>6. PICK a \in 0 .. 15 : a = r % 16
    OBVIOUS
<1>7. PICK b \in {0, 32} : b = IF 13 \in bits THEN 32 ELSE 0
    OBVIOUS
<1>8. PICK e \in {0, 64} : e = IF n = 10 THEN 64 ELSE 0
    OBVIOUS
<1>9. m[1] = 16 + b + e + a
    <2>1. Octet(bits, 1) = (IF "command" \in fs THEN 16 ELSE 0)
                           + (IF 13 \in bits THEN 32 ELSE 0)
                           + (IF "extended" \in fs THEN 64 ELSE 0)
        BY <1>1, ViconOctets
    <2>. QED
        BY <1>5, <1>6, <1>7, <1>8, <2>1
<1>10. (m[1] \div 16) % 2 = 1 /\ ((m[1] \div 64) % 2 = 1 <=> n = 10)
    <2>1. e = 0 => (m[1] \div 64) = 0
        BY <1>9
    <2>2. e = 64 => (m[1] \div 64) = 1
        BY <1>9
    <2>3. (m[1] \div 16) % 2 = 1
        BY <1>9
    <2>. QED
        BY <1>8, <2>1, <2>2, <2>3
<1>11. \A w : w[1] = m[1] => is_command(w) /\ (is_extended_command(w) <=> n = 10)
    <2>1. 12 \div 8 = 1 /\ 12 % 8 = 4 /\ 14 \div 8 = 1 /\ 14 % 8 = 6
        OBVIOUS
    <2>2. VICON_BIT["command"] = 12 /\ VICON_BIT["extended"] = 14
        BY DEF VICON_BIT
    <2>. QED
        BY <1>10, <2>1, <2>2, Powers DEF is_command, is_extended_command, is_set, bit_is_set
<1>12. ASSUME NEW j \in 0 .. n - 1
       PROVE  m[j] \in 0 .. 255
    <2>1. CASE j = 0
        BY <1>4, <2>1
    <2>2. CASE j = 1
        BY <1>9, <2>2
    <2>3. CASE j \in 2 .. 4
        <3>1. m[j] = Octet(bits, j) + 0
            BY <1>3, <2>3 DEF Addition
        <3>. QED
            BY <3>1, OctetIs
    <2>4. CASE j \in 5 .. 9
        <3>1. PICK w \in 0 .. 127 : (j = 5 => w <= 15) /\ w = IF j \in DOMAIN v THEN v[j] ELSE 0
            BY DEF Addition
        <3>2. m[j] = Octet(bits, j) + w
            BY <1>3, <2>4, <3>1
        <3>3. /\ Octet(bits, 5) \in 0 .. 96 /\ Octet(bits, 6) \in 0 .. 19
              /\ Octet(bits, 7) = 0 /\ Octet(bits, 8) = 0 /\ Octet(bits, 9) = 0
            BY <1>1, ViconOctets
        <3>4. j = 5 \/ j = 6 \/ j = 7 \/ j = 8 \/ j = 9
            BY <2>4
        <3>. QED
            BY <3>1, <3>2, <3>3, <3>4
    <2>. QED
        BY <2>1, <2>2, <2>3, <2>4
<1>13. IsMessage("vicon", m, 0, n)
    <2>1. PICK w : w = [j \in 0 .. SIZE_STATUS - 1 |-> m[0 + j]]
        OBVIOUS
    <2>2. w[1] = m[1]
        BY <2>1, Sizes
    <2>3. is_command(w) /\ (is_extended_command(w) <=> n = 10)
        BY <1>11, <2>2
    <2>. QED
        BY <1>4, <2>1, <2>3, Sizes DEF IsMessage
<1>14. m = [j \in 0 .. n - 1 |-> m[j]]
    BY <1>2 DEF vicon_message
<1>. QED
    BY <1>2, <1>11, <1>12, <1>13, <1>14 DEF Encodes

LEMMA FlagsIn ==
    ASSUME NEW q, NEW g \in Groups
    PROVE  Get(q, g) \subseteq CC[g]
BY DEF Get, Valid

\* The functions that a packet is encoded in.
LEMMA FunctionsIn ==
    ASSUME NEW q
    PROVE  /\ encode_pan_tilt(q) \subseteq Functions \ {"extended"}
           /\ vicon_encode_lens(q) \subseteq Functions \ {"extended"}
           /\ encode_toggles(q) \subseteq Functions \ {"extended"}
           /\ encode_aux(q) \subseteq Functions \ {"extended"}
           /\ vicon_encode_preset(q) \subseteq Functions \ {"extended"}
<1>1. /\ Get(q, "pan") \subseteq {"pan_left", "pan_right", "pan_auto", "pan_manual"}
      /\ Get(q, "tilt") \subseteq {"tilt_up", "tilt_down"}
      /\ Get(q, "iris") \subseteq {"iris_close", "iris_open", "iris_auto"}
      /\ Get(q, "focus") \subseteq {"focus_near", "focus_far", "focus_auto"}
      /\ Get(q, "zoom") \subseteq {"zoom_in", "zoom_out"}
      /\ Get(q, "ack") \subseteq {"ack_alarm"} /\ Get(q, "lens") \subseteq {"lens_speed"}
      /\ ccpacket_get_preset_mode(q) \subseteq {"preset_recall", "preset_store", "preset_clear"}
    <2>1. ccpacket_get_preset_mode(q) \subseteq CC["preset"]
        BY DEF ccpacket_get_preset_mode, ccpacket_preset, Valid
    <2>2. /\ CC["pan"] = {"pan_left", "pan_right", "pan_auto", "pan_manual"}
          /\ CC["tilt"] = {"tilt_up", "tilt_down"}
          /\ CC["iris"] = {"iris_close", "iris_open", "iris_auto"}
          /\ CC["focus"] = {"focus_near", "focus_far", "focus_auto"}
          /\ CC["zoom"] = {"zoom_in", "zoom_out"}
          /\ CC["ack"] = {"ack_alarm"} /\ CC["lens"] = {"lens_speed"}
          /\ CC["preset"] = {"preset_recall", "preset_store", "preset_clear"}
        BY DEF CC
    <2>3. \A g \in {"pan", "tilt", "iris", "focus", "zoom", "ack", "lens"} : Get(q, g) \subseteq CC[g]
        BY FlagsIn, GroupNames
    <2>. QED
        BY <2>1, <2>2, <2>3
<1>2. \A f \in {"pan_left", "pan_right", "pan_auto", "tilt_up", "tilt_down", "iris_close",
                "iris_open", "iris_auto", "focus_near", "focus_far", "zoom_in", "zoom_out",
                "ack_alarm", "lens_speed", "wiper_on", "preset_recall", "preset_store"} :
         f \in Functions \ {"extended"}
    BY DEF Functions, VICON_BIT
<1>3. encode_pan_tilt(q) \subseteq Functions \ {"extended"}
    BY <1>1, <1>2 DEF encode_pan_tilt
<1>4. vicon_encode_lens(q) \subseteq Functions \ {"extended"}
    BY <1>1, <1>2 DEF vicon_encode_lens
<1>5. encode_toggles(q) \subseteq Functions \ {"extended"}
    BY <1>1, <1>2 DEF encode_toggles
<1>6. encode_aux(q) \subseteq Functions \ {"extended"}
    BY <1>2 DEF encode_aux
<1>7. vicon_encode_preset(q) \subseteq Functions \ {"extended"}
    BY <1>1, <1>2 DEF vicon_encode_preset
<1>. QED
    BY <1>3, <1>4, <1>5, <1>6, <1>7

\* m is a message that Vicon's writer counts the octets of.
ViconEncodes(m) ==
    Encodes("vicon", m, IF is_extended_command(m) THEN SIZE_EXTENDED ELSE SIZE_COMMAND)

LEMMA AdditionsAre ==
    ASSUME NEW q \in PacketType
    PROVE  /\ Addition(Octets5(q))
           /\ Addition([j \in 5 .. 9 |-> IF j = 5 THEN q.preset % 16 ELSE encode_speeds(q)[j]])
           /\ Addition([j \in 7 .. 9 |-> <<q.preset, q.pan, q.tilt>>[j - 6] % 128])
<1>1. /\ q.pan \in Nat /\ q.tilt \in Nat /\ q.preset \in Nat
    BY PacketAssumption DEF PacketType
<1>2. q.preset % 16 \in 0 .. 15 /\ q.preset % 128 \in 0 .. 127
    BY <1>1
<1>3. /\ q.pan % 128 \in 0 .. 127 /\ q.tilt % 128 \in 0 .. 127
      /\ (q.pan \div 128) % 16 \in 0 .. 127 /\ (q.tilt \div 128) % 16 \in 0 .. 127
    BY <1>1
<1>4. Addition(Octets5(q))
    BY <1>2 DEF Addition, Octets5
<1>5. /\ encode_speeds(q)[6] \in 0 .. 127 /\ encode_speeds(q)[7] \in 0 .. 127
      /\ encode_speeds(q)[8] \in 0 .. 127 /\ encode_speeds(q)[9] \in 0 .. 127
    BY <1>3 DEF encode_speeds
<1>6. Addition([j \in 5 .. 9 |-> IF j = 5 THEN q.preset % 16 ELSE encode_speeds(q)[j]])
    BY <1>2, <1>5 DEF Addition
<1>7. Addition([j \in 7 .. 9 |-> <<q.preset, q.pan, q.tilt>>[j - 6] % 128])
    <2> DEFINE v == [j \in 7 .. 9 |-> <<q.preset, q.pan, q.tilt>>[j - 6] % 128]
    <2>1. /\ <<q.preset, q.pan, q.tilt>>[1] = q.preset
          /\ <<q.preset, q.pan, q.tilt>>[2] = q.pan
          /\ <<q.preset, q.pan, q.tilt>>[3] = q.tilt
        OBVIOUS
    <2>2. v[7] = q.preset % 128 /\ v[8] = q.pan % 128 /\ v[9] = q.tilt % 128
        <3>1. 7 - 6 = 1 /\ 8 - 6 = 2 /\ 9 - 6 = 3
            OBVIOUS
        <3>. QED
            BY <2>1, <3>1
    <2>3. DOMAIN v = 7 .. 9
        OBVIOUS
    <2>. HIDE DEF v
    <2>4. v[7] \in 0 .. 127 /\ v[8] \in 0 .. 127 /\ v[9] \in 0 .. 127
        BY <1>2, <1>3, <2>2
    <2>5. ASSUME NEW j \in DOMAIN v PROVE j \in 5 .. 9 /\ v[j] \in 0 .. 127 /\ (j = 5 => v[j] <= 15)
        <3>1. j = 7 \/ j = 8 \/ j = 9
            BY <2>3, <2>5
        <3>. QED
            BY <2>4, <3>1
    <2>6. Addition(v)
        BY <2>5, Zenon DEF Addition
    <2>. QED
        BY <2>6 DEF v
<1>. QED
    BY <1>4, <1>6, <1>7

LEMMA ViconWrites ==
    ASSUME NEW r \in 1 .. 255, NEW q \in PacketType
    PROVE  /\ ViconEncodes(encode_extended_preset(r, q))
           /\ ViconEncodes(encode_extended_speed(r, q))
           /\ ViconEncodes(vicon_encode_command(r, q))
<1>1. \A f \in {"command", "extended", "ex_request", "ex_store"} : f \in Functions
    BY DEF Functions, VICON_BIT
<1>2. ASSUME NEW n \in {6, 10}, NEW fs \in SUBSET Functions, "command" \in fs,
             "extended" \in fs <=> n = 10, NEW v, Addition(v), NEW m,
             m = vicon_message(n, r, fs, v)
      PROVE  ViconEncodes(m)
    <2>1. Encodes("vicon", m, n) /\ (is_extended_command(m) <=> n = 10)
        BY <1>2, ViconMessageIs
    <2>. QED
        BY <2>1, Sizes DEF ViconEncodes
<1>3. ViconEncodes(encode_extended_preset(r, q))
    <2>1. PICK fs : fs = {"command", "extended", "ex_request"} \cup vicon_encode_lens(q)
                \cup encode_toggles(q) \cup encode_aux(q)
                \cup (IF ccpacket_get_preset_mode(q) = {"preset_store"}
                      THEN {"ex_store"} ELSE {})
        OBVIOUS
    <2>2. fs \in SUBSET Functions /\ "command" \in fs /\ "extended" \in fs
        BY <1>1, <2>1, FunctionsIn
    <2>3. PICK v : v = [j \in 7 .. 9 |-> <<q.preset, q.pan, q.tilt>>[j - 6] % 128] /\ Addition(v)
        BY AdditionsAre
    <2>4. encode_extended_preset(r, q) = vicon_message(10, r, fs, v)
        BY <2>1, <2>3, Sizes DEF encode_extended_preset
    <2>. QED
        BY <1>2, <2>2, <2>3, <2>4
<1>4. ViconEncodes(encode_extended_speed(r, q))
    <2>1. PICK fs : fs = {"command", "extended"} \cup encode_pan_tilt(q) \cup vicon_encode_lens(q)
                \cup encode_toggles(q) \cup encode_aux(q) \cup vicon_encode_preset(q)
        OBVIOUS
    <2>2. fs \in SUBSET Functions /\ "command" \in fs /\ "extended" \in fs
        BY <1>1, <2>1, FunctionsIn
    <2>3. PICK v : /\ v = [j \in 5 .. 9 |-> IF j = 5 THEN q.preset % 16 ELSE encode_speeds(q)[j]]
                   /\ Addition(v)
        BY AdditionsAre
    <2>4. encode_extended_speed(r, q) = vicon_message(10, r, fs, v)
        BY <2>1, <2>3, Sizes DEF encode_extended_speed
    <2>. QED
        BY <1>2, <2>2, <2>3, <2>4
<1>5. ViconEncodes(vicon_encode_command(r, q))
    <2>1. PICK fs : fs = {"command"} \cup encode_pan_tilt(q) \cup vicon_encode_lens(q)
                \cup encode_toggles(q) \cup encode_aux(q) \cup vicon_encode_preset(q)
        OBVIOUS
    <2>2. fs \in SUBSET Functions /\ "command" \in fs /\ "extended" \notin fs
        BY <1>1, <2>1, FunctionsIn
    <2>3. PICK v : v = Octets5(q) /\ Addition(v)
        BY AdditionsAre
    <2>4. vicon_encode_command(r, q) = vicon_message(6, r, fs, v)
        BY <2>1, <2>3, Sizes DEF vicon_encode_command
    <2>. QED
        BY <1>2, <2>2, <2>3, <2>4
<1>. QED
    BY <1>3, <1>4, <1>5

-----------------------------------------------------------------------------
(* The pieces that a packet is written in.                                  *)

PieceSet == [octets : Seq(0 .. 255), needs : BOOLEAN, message : BOOLEAN]

\* A piece that is a message.
Whole(c, x) == x \in PieceSet /\ x.message /\ IsMessage(c, x.octets, 1, Len(x.octets))

OctetsAre(m, n) == \A j \in 0 .. n - 1 : m[j] \in 0 .. 255

\* o is the sequence of the n octets of m, which are numbered from 0.
Sequence(o, m, n) ==
    /\ o = [j \in 1 .. n |-> m[j - 1]]
    /\ o \in Seq(0 .. 255) /\ Len(o) = n /\ \A j \in 1 .. n : o[j] = m[j - 1]

LEMMA SequenceIs ==
    ASSUME NEW m, NEW n \in Nat, OctetsAre(m, n)
    PROVE  \E o : Sequence(o, m, n)
<1>1. PICK o : o = [j \in 1 .. n |-> m[j - 1]]
    OBVIOUS
<1>2. \A j \in 1 .. n : m[j - 1] \in 0 .. 255
    BY DEF OctetsAre
<1>3. o \in Seq(0 .. 255) /\ Len(o) = n /\ \A j \in 1 .. n : o[j] = m[j - 1]
    BY <1>1, <1>2
<1>. QED
    BY <1>1, <1>3 DEF Sequence

LEMMA WholeIs ==
    ASSUME NEW c \in Codecs, NEW m, NEW n \in Nat, Encodes(c, m, n)
    PROVE  Whole(c, Piece(m, n, FALSE, TRUE))
<1>1. PICK x : x = Piece(m, n, FALSE, TRUE)
    OBVIOUS
<1>2. OctetsAre(m, n)
    BY DEF Encodes, OctetsAre
<1>3. PICK o : Sequence(o, m, n)
    BY <1>2, SequenceIs
<1>4. x = [octets |-> o, needs |-> FALSE, message |-> TRUE]
    BY <1>1, <1>3 DEF Piece, Sequence
<1>5. \A j \in 0 .. n - 1 : o[1 + j] = m[0 + j]
    BY <1>3 DEF Sequence
<1>6. IsMessage(c, m, 0, n)
    BY DEF Encodes
<1>7. IsMessage(c, o, 1, n)
    BY <1>5, <1>6, SameMessage
<1>8. o \in Seq(0 .. 255) /\ Len(o) = n
    BY <1>3 DEF Sequence
<1>9. x \in PieceSet /\ x.message /\ x.octets = o
    BY <1>4, <1>8 DEF PieceSet
<1>. QED
    BY <1>1, <1>7, <1>8, <1>9 DEF Whole

\* The message that a piece is, its octets numbered from 0.
Said(x) == [j \in 0 .. Len(x.octets) - 1 |-> x.octets[j + 1]]

LEMMA SaidIs ==
    ASSUME NEW c, NEW m, NEW n \in Nat, Encodes(c, m, n)
    PROVE  Said(Piece(m, n, FALSE, TRUE)) = m
<1>1. PICK x : x = Piece(m, n, FALSE, TRUE)
    OBVIOUS
<1>2. OctetsAre(m, n)
    BY DEF Encodes, OctetsAre
<1>3. PICK o : Sequence(o, m, n)
    BY <1>2, SequenceIs
<1>4. x.octets = o /\ Len(o) = n
    BY <1>1, <1>3 DEF Piece, Sequence
<1>5. \A j \in 0 .. n - 1 : o[j + 1] = m[j]
    <2>1. \A j \in 0 .. n - 1 : j + 1 \in 1 .. n /\ (j + 1) - 1 = j
        OBVIOUS
    <2>. QED
        BY <1>3, <2>1 DEF Sequence
<1>6. Said(x) = [j \in 0 .. n - 1 |-> m[j]]
    BY <1>4, <1>5 DEF Said
<1>. QED
    BY <1>1, <1>6 DEF Encodes

\* These pieces are these messages.
Spells(s, ms) == Len(s) = Len(ms) /\ \A k \in 1 .. Len(ms) : Said(s[k]) = ms[k]

\* The messages that codec c has for a packet.
Wrote(c, r, p) == IF c = "vicon" THEN vicon_do_write(r, p) ELSE do_write(c, r, p)

\* Whole messages.
Messages(c, ms) == ms \in Seq(PieceSet) /\ \A k \in 1 .. Len(ms) : Whole(c, ms[k])

LEMMA EncodedIs ==
    ASSUME NEW c \in Codecs, NEW r \in Receivers, NEW p \in Packets
    PROVE  Messages(c, Encoded(c, r, p)) /\ Spells(Encoded(c, r, p), Wrote(c, r, p))
<1>1. p \in PacketType /\ r \in Nat
    BY PacketsAre, SerialAssumption
<1>2. ASSUME NEW ms, NEW ns, Len(ms) \in Nat,
             \A k \in 1 .. Len(ms) : ns[k] \in Nat /\ Encodes(c, ms[k], ns[k]),
             NEW s, s = [k \in 1 .. Len(ms) |-> Piece(ms[k], ns[k], FALSE, TRUE)]
      PROVE  Messages(c, s) /\ Spells(s, ms)
    <2>1. ASSUME NEW k \in 1 .. Len(ms)
          PROVE  /\ Whole(c, Piece(ms[k], ns[k], FALSE, TRUE))
                 /\ Said(Piece(ms[k], ns[k], FALSE, TRUE)) = ms[k]
        BY <1>2, WholeIs, SaidIs
    <2>2. \A k \in 1 .. Len(ms) : Whole(c, s[k])
        BY <1>2, <2>1
    <2>3. \A k \in 1 .. Len(ms) : s[k] \in PieceSet
        BY <2>2 DEF Whole
    <2>4. Len(ms) \in Nat /\ DOMAIN s = 1 .. Len(ms) /\ s = [k \in 1 .. Len(ms) |-> s[k]]
        BY <1>2
    <2>5. s \in Seq(PieceSet) /\ Len(s) = Len(ms)
        BY <2>3, <2>4
    <2>6. \A k \in 1 .. Len(ms) : Said(s[k]) = ms[k]
        BY <1>2, <2>1
    <2>. QED
        BY <2>2, <2>5, <2>6 DEF Messages, Spells
<1>3. CASE c = "vicon"
    <2> DEFINE n(m) == IF is_extended_command(m) THEN SIZE_EXTENDED ELSE SIZE_COMMAND
    <2>1. PICK q \in PacketType : q = vicon_adjust_menu_commands(p)
        BY <1>1, ViconAdjustType
    <2>2. PICK ms : ms = vicon_do_write(r, p)
        OBVIOUS
    <2>3. CASE r \notin 1 .. 255
        <3>1. ms = << >>
            BY <2>2, <2>3 DEF vicon_do_write, VICON_MAX_ADDRESS
        <3>2. Encoded(c, r, p) = << >>
            BY <1>3, <2>2, <3>1 DEF Encoded
        <3>3. Wrote(c, r, p) = << >>
            BY <1>3, <2>2, <3>1 DEF Wrote
        <3>. QED
            BY <3>2, <3>3 DEF Messages, Spells
    <2>4. CASE r \in 1 .. 255
        <3>1. PICK m : /\ ms = <<m>> /\ ViconEncodes(m)
            BY <2>1, <2>2, <2>4, ViconWrites DEF vicon_do_write, VICON_MAX_ADDRESS
        <3>2. n(m) \in Nat /\ Encodes(c, m, n(m))
            BY <1>3, <3>1, Sizes DEF ViconEncodes
        <3>3. Encoded(c, r, p) = [k \in 1 .. Len(ms) |-> Piece(ms[k], n(ms[k]), FALSE, TRUE)]
            BY <1>3, <2>2 DEF Encoded
        <3>. HIDE DEF n
        <3>4. PICK ns : ns = [k \in 1 .. Len(ms) |-> n(ms[k])]
            OBVIOUS
        <3>5. Len(ms) = 1 /\ ms[1] = m /\ Len(ms) \in Nat
            BY <3>1
        <3>6. \A k \in 1 .. Len(ms) : ns[k] \in Nat /\ Encodes(c, ms[k], ns[k])
            BY <3>2, <3>4, <3>5
        <3>7. PICK s : s = [k \in 1 .. Len(ms) |-> Piece(ms[k], ns[k], FALSE, TRUE)]
            OBVIOUS
        <3>8. Encoded(c, r, p) = s
            BY <3>3, <3>4, <3>7
        <3>9. Messages(c, s) /\ Spells(s, ms)
            BY <1>2, <3>5, <3>6, <3>7
        <3>10. Wrote(c, r, p) = ms
            BY <1>3, <2>2 DEF Wrote
        <3>. QED
            BY <3>8, <3>9, <3>10
    <2>. QED
        BY <2>3, <2>4
<1>4. CASE c # "vicon"
    <2>1. c \in {"pelco_d", "pelco_p"}
        BY <1>4 DEF Codecs
    <2>2. PICK q \in PacketType : q = adjust_menu_commands(p)
        BY <1>1, AdjustType
    <2>3. PICK ms : ms = do_write(c, r, p)
        OBVIOUS
    <2>4. Encoded(c, r, p) = [k \in 1 .. Len(ms) |-> Piece(ms[k], SIZE[c], FALSE, TRUE)]
        BY <1>4, <2>3 DEF Encoded
    <2>5. CASE r \notin 1 .. 254
        <3>1. ms = << >>
            BY <2>3, <2>5 DEF do_write, PELCO_MAX_ADDRESS
        <3>2. Wrote(c, r, p) = << >>
            BY <1>4, <2>3, <3>1 DEF Wrote
        <3>. QED
            BY <2>4, <3>1, <3>2 DEF Messages, Spells
    <2>6. CASE r \in 1 .. 254
        <3> DEFINE X == {encode_command(c, r, q), encode_preset(c, r, q), encode_wiper(c, r, q)}
        <3>1. /\ <<encode_command(c, r, q)>> \in Seq(X)
              /\ <<encode_preset(c, r, q)>> \in Seq(X)
              /\ <<encode_wiper(c, r, q)>> \in Seq(X)
              /\ << >> \in Seq(X)
            OBVIOUS
        <3>2. ms \in Seq(X)
            <4>1. PICK a \in Seq(X) : a = IF Commands(q) THEN <<encode_command(c, r, q)>> ELSE << >>
                BY <3>1
            <4>2. PICK b \in Seq(X) : b = IF ccpacket_get_preset_mode(q) # {}
                                          THEN <<encode_preset(c, r, q)>> ELSE << >>
                BY <3>1
            <4>3. PICK e \in Seq(X) : e = IF Get(q, "wiper") # {}
                                          THEN <<encode_wiper(c, r, q)>> ELSE << >>
                BY <3>1
            <4>. HIDE DEF X
            <4>4. ms = a \o b \o e
                BY <2>2, <2>3, <2>6, <4>1, <4>2, <4>3 DEF do_write, PELCO_MAX_ADDRESS
            <4>. QED
                BY <4>4
        <3>3. \A m \in X : SIZE[c] \in Nat /\ Encodes(c, m, SIZE[c])
            <4>1. r \in 0 .. 255 /\ SIZE[c] \in Nat
                BY <2>1, <2>6, Sizes
            <4>. QED
                BY <2>1, <4>1, PelcoEncodes
        <3>. HIDE DEF X
        <3>4. PICK ns : ns = [k \in 1 .. Len(ms) |-> SIZE[c]]
            OBVIOUS
        <3>5. Len(ms) \in Nat /\ \A k \in 1 .. Len(ms) : ms[k] \in X
            BY <3>2
        <3>6. \A k \in 1 .. Len(ms) : ns[k] \in Nat /\ Encodes(c, ms[k], ns[k])
            BY <3>3, <3>4, <3>5
        <3>7. Encoded(c, r, p) = [k \in 1 .. Len(ms) |-> Piece(ms[k], ns[k], FALSE, TRUE)]
            BY <2>4, <3>4
        <3>8. Wrote(c, r, p) = ms
            BY <1>4, <2>3 DEF Wrote
        <3>. QED
            BY <1>2, <3>5, <3>6, <3>7, <3>8
    <2>. QED
        BY <2>5, <2>6
<1>. QED
    BY <1>3, <1>4

-----------------------------------------------------------------------------
(* Induction along the numbers up to n, and the recursion that defines what *)
(* is appended and what is written.                                         *)

LEMMA Induction ==
    ASSUME NEW n \in Nat, NEW P, 0 \in P, \A k \in 1 .. n : k - 1 \in P => k \in P
    PROVE  \A k \in 0 .. n : k \in P
<1> DEFINE bad == {k \in 0 .. n : k \notin P}
<1>1. SUFFICES ASSUME bad # {} PROVE FALSE
    OBVIOUS
<1>2. bad \subseteq Nat
    OBVIOUS
<1>3. PICK k \in bad : \A j \in bad : ~(<<j, k>> \in OpToRel(<, Nat))
    <2>. HIDE DEF bad
    <2>. QED
        BY <1>1, <1>2, NatLessThanWellFounded, WFMin
<1>4. \A j \in bad : ~(j < k)
    BY <1>2, <1>3 DEF OpToRel
<1>5. k \in 0 .. n /\ k \notin P
    BY <1>3
<1>6. k \in 1 .. n /\ k - 1 \in 0 .. n /\ k - 1 < k
    BY <1>5
<1>7. k - 1 \notin bad
    BY <1>4, <1>6
<1>. QED
    BY <1>5, <1>6, <1>7

\* The recursion from x with step[k] as its k-th step is solved by f ...
Solves(f, n, S, x, step) ==
    /\ f \in [0 .. n -> S]
    /\ \A k \in 0 .. n : f[k] = IF k = 0 THEN x ELSE step[k][f[k - 1]]

\* ... and something does solve it.
LEMMA Recursion ==
    ASSUME NEW n \in Nat, NEW S, NEW x \in S, NEW step \in [1 .. n -> [S -> S]]
    PROVE  \E f : Solves(f, n, S, x, step)
<1> DEFINE P == {m \in 0 .. n : \E f : Solves(f, m, S, x, step)}
<1>1. 0 \in P
    <2>1. Solves([k \in 0 .. 0 |-> x], 0, S, x, step)
        BY DEF Solves
    <2>. QED
        BY <2>1
<1>2. ASSUME NEW m \in 1 .. n, m - 1 \in P
      PROVE  m \in P
    <2>1. PICK g : Solves(g, m - 1, S, x, step)
        BY <1>2
    <2>2. g[m - 1] \in S /\ step[m][g[m - 1]] \in S
        BY <2>1 DEF Solves
    <2> DEFINE h == [k \in 0 .. m |-> IF k = m THEN step[m][g[m - 1]] ELSE g[k]]
    <2>3. h \in [0 .. m -> S]
        BY <2>1, <2>2 DEF Solves
    <2>4. ASSUME NEW k \in 0 .. m
          PROVE  h[k] = IF k = 0 THEN x ELSE step[k][h[k - 1]]
        <3>1. CASE k = m
            BY <3>1
        <3>2. CASE k # m
            <4>1. k \in 0 .. m - 1 /\ h[k] = g[k] /\ (k # 0 => h[k - 1] = g[k - 1])
                BY <3>2
            <4>. QED
                BY <2>1, <4>1 DEF Solves
        <3>. QED
            BY <3>1, <3>2
    <2>5. Solves(h, m, S, x, step)
        BY <2>3, <2>4 DEF Solves
    <2>. HIDE DEF h
    <2>. QED
        BY <2>5
<1>3. n \in P
    <2>. HIDE DEF P
    <2>1. \A k \in 0 .. n : k \in P
        BY <1>1, <1>2, Induction
    <2>. QED
        BY <2>1
<1>. QED
    BY <1>3

-----------------------------------------------------------------------------
(* What is appended.                                                        *)

A1 == infinova_authenticate[1]
A2 == infinova_authenticate[2]
H1 == infinova_d_header[1]
H2 == infinova_d_header[2]

LEMMA HeadersAre ==
    /\ A1 \in PieceSet /\ A2 \in PieceSet /\ H1 \in PieceSet /\ H2 \in PieceSet
    /\ Len(A1.octets) = 12 /\ Len(A2.octets) = 66
    /\ Len(H1.octets) = 12 /\ Len(H2.octets) = 12
    /\ A1.needs = FALSE /\ A2.needs = TRUE /\ H1.needs = FALSE /\ H2.needs = TRUE
    /\ A1.message = FALSE /\ A2.message = FALSE /\ H1.message = FALSE /\ H2.message = FALSE
    /\ infinova_authenticate = <<A1, A2>> /\ infinova_d_header = <<H1, H2>>
<1>1. ASSUME NEW id \in 0 .. 255, NEW n \in 0 .. 255, NEW x, x = header(id, n)
      PROVE  x \in PieceSet /\ Len(x.octets) = 12 /\ x.needs = FALSE /\ x.message = FALSE
    <2>1. PICK m : m = [j \in 0 .. HEADER_SZ - 1 |->
              CASE j = 0 -> 73 [] j = 1 -> 78 [] j = 2 -> 70 [] j = 3 -> id
                [] j \in {5, 7} /\ id = MSG_ID_AUTH -> 1
                [] j = 11 -> n
                [] OTHER -> 0]
        OBVIOUS
    <2>2. OctetsAre(m, 12)
        <3>1. HEADER_SZ - 1 = 11 /\ 12 - 1 = 11
            BY Sizes
        <3>2. ASSUME NEW j \in 0 .. 11
              PROVE  m[j] \in 0 .. 255
            <4>1. m[j] = CASE j = 0 -> 73 [] j = 1 -> 78 [] j = 2 -> 70 [] j = 3 -> id
                           [] j \in {5, 7} /\ id = MSG_ID_AUTH -> 1
                           [] j = 11 -> n
                           [] OTHER -> 0
                BY <2>1, <3>1
            <4>. QED
                BY <4>1
        <3>. QED
            BY <3>1, <3>2 DEF OctetsAre
    <2>3. x = Piece(m, 12, FALSE, FALSE)
        BY <1>1, <2>1, Sizes DEF header
    <2>4. PICK o : Sequence(o, m, 12)
        BY <2>2, SequenceIs
    <2>5. x = [octets |-> o, needs |-> FALSE, message |-> FALSE]
        BY <2>3, <2>4 DEF Piece, Sequence
    <2>6. o \in Seq(0 .. 255) /\ Len(o) = 12
        BY <2>4 DEF Sequence
    <2>. QED
        BY <2>5, <2>6 DEF PieceSet
<1>2. A1 \in PieceSet /\ Len(A1.octets) = 12 /\ A1.needs = FALSE /\ A1.message = FALSE
    <2>1. A1 = header(1, 64)
        BY DEF A1, infinova_authenticate, MSG_ID_AUTH, AUTH_SZ
    <2>2. PICK id \in 0 .. 255, n \in 0 .. 255 : id = 1 /\ n = 64
        OBVIOUS
    <2>3. A1 = header(id, n)
        BY <2>1, <2>2
    <2>. QED
        BY <1>1, <2>3
<1>3. H1 \in PieceSet /\ Len(H1.octets) = 12 /\ H1.needs = FALSE /\ H1.message = FALSE
    <2>1. H1 = header(19, 19)
        BY Sizes DEF H1, infinova_d_header, MSG_ID_PTZ
    <2>2. 19 \in 0 .. 255
        OBVIOUS
    <2>. QED
        BY <1>1, <2>1, <2>2
<1>4. A2 \in PieceSet /\ Len(A2.octets) = 66 /\ A2.needs = TRUE /\ A2.message = FALSE
    <2>1. PICK m : m = [j \in 0 .. 65 |-> 0]
        OBVIOUS
    <2>2. A2 = Piece(m, 66, TRUE, FALSE)
        BY <2>1, Sizes DEF A2, infinova_authenticate
    <2>3. OctetsAre(m, 66)
        BY <2>1 DEF OctetsAre
    <2>4. PICK o : Sequence(o, m, 66)
        BY <2>3, SequenceIs
    <2>5. A2 = [octets |-> o, needs |-> TRUE, message |-> FALSE]
        BY <2>2, <2>4 DEF Piece, Sequence
    <2>6. o \in Seq(0 .. 255) /\ Len(o) = 66
        BY <2>4 DEF Sequence
    <2>. QED
        BY <2>5, <2>6 DEF PieceSet
<1>5. H2 \in PieceSet /\ Len(H2.octets) = 12 /\ H2.needs = TRUE /\ H2.message = FALSE
    <2>1. PICK m : m = [j \in 0 .. 11 |-> CASE j = 0 -> 1 [] j = 7 -> 7 [] OTHER -> 0]
        OBVIOUS
    <2>2. H2 = Piece(m, 12, TRUE, FALSE)
        BY <2>1, Sizes DEF H2, infinova_d_header
    <2>3. OctetsAre(m, 12)
        BY <2>1 DEF OctetsAre
    <2>4. PICK o : Sequence(o, m, 12)
        BY <2>3, SequenceIs
    <2>5. H2 = [octets |-> o, needs |-> TRUE, message |-> FALSE]
        BY <2>2, <2>4 DEF Piece, Sequence
    <2>6. o \in Seq(0 .. 255) /\ Len(o) = 12
        BY <2>4 DEF Sequence
    <2>. QED
        BY <2>5, <2>6 DEF PieceSet
<1>6. infinova_authenticate = <<A1, A2>> /\ infinova_d_header = <<H1, H2>>
    BY DEF A1, A2, H1, H2, infinova_authenticate, infinova_d_header
<1>. QED
    BY <1>2, <1>3, <1>4, <1>5, <1>6

\* The pieces, each message under the headers it needs.
UnderHeaders(ps) ==
    /\ ps \in Seq(PieceSet)
    /\ \A k \in 1 .. Len(ps) :
          ps[k].message =>
             /\ IsMessage(Codec, ps[k].octets, 1, Len(ps[k].octets))
             /\ proto = "infinova_d" => k > 2 /\ ps[k - 1] = H2 /\ ps[k - 2] = H1

\* Each message is not to be written without.
Bound(ps) == \A k \in 1 .. Len(ps) : proto = "infinova_d" /\ ps[k].message => ps[k].needs

WithAuthentication(ps) == Len(ps) > 1 /\ ps[1] = A1 /\ ps[2] = A2

AppendStates == [room : Int, kept : Seq(PieceSet), last : BOOLEAN]

\* One piece is appended, or not.
Tried(b, x) ==
    LET n == Len(x.octets)
    IN IF n <= b.room /\ (x.needs => b.last)
       THEN [room |-> b.room - n, kept |-> Append(b.kept, x), last |-> TRUE]
       ELSE [b EXCEPT !.last = FALSE]

Untried(room) == [room |-> room, kept |-> << >>, last |-> TRUE]

LEMMA TriedType ==
    ASSUME NEW b \in AppendStates, NEW x \in PieceSet
    PROVE  Tried(b, x) \in AppendStates
<1>1. PICK n \in Nat : n = Len(x.octets)
    BY DEF PieceSet
<1>2. PICK kept \in Seq(PieceSet) : kept = b.kept
    BY DEF AppendStates
<1>3. PICK grown \in Seq(PieceSet) : grown = Append(b.kept, x)
    BY <1>2, AppendProperties
<1>4. PICK room \in Int : room = b.room - n
    BY DEF AppendStates
<1>5. CASE n <= b.room /\ (x.needs => b.last)
    <2>1. Tried(b, x) = [room |-> room, kept |-> grown, last |-> TRUE]
        BY <1>1, <1>3, <1>4, <1>5 DEF Tried
    <2>. QED
        BY <2>1 DEF AppendStates
<1>6. CASE ~(n <= b.room /\ (x.needs => b.last))
    <2>1. Tried(b, x) = [b EXCEPT !.last = FALSE]
        BY <1>1, <1>6 DEF Tried
    <2>. QED
        BY <2>1 DEF AppendStates
<1>. QED
    BY <1>5, <1>6

LEMMA AppendedIs ==
    ASSUME NEW ps \in Seq(PieceSet), NEW room \in Int
    PROVE  \E f \in [0 .. Len(ps) -> AppendStates] :
              /\ f[0] = Untried(room) /\ Appended(ps, room) = f[Len(ps)].kept
              /\ \A k \in 1 .. Len(ps) : f[k] = Tried(f[k - 1], ps[k])
<1> DEFINE n == Len(ps)
           S == AppendStates
           start == Untried(room)
           step == [k \in 1 .. n |-> [b \in S |-> Tried(b, ps[k])]]
           F(g) == g = [k \in 0 .. n |-> IF k = 0 THEN start ELSE Tried(g[k - 1], ps[k])]
<1>1. n \in Nat /\ start \in S
    BY DEF Untried, AppendStates
<1>2. \A k \in 1 .. n, b \in S : Tried(b, ps[k]) \in S
    BY TriedType
<1>3. step \in [1 .. n -> [S -> S]]
    BY <1>2
<1>4. PICK g : Solves(g, n, S, start, step)
    <2>. HIDE DEF step, S, n, start
    <2>. QED
        BY <1>1, <1>3, Recursion
<1>5. ASSUME NEW k \in 0 .. n
      PROVE  g[k] = IF k = 0 THEN start ELSE Tried(g[k - 1], ps[k])
    <2>1. k # 0 => k \in 1 .. n /\ k - 1 \in 0 .. n /\ g[k - 1] \in S
        BY <1>1, <1>4 DEF Solves
    <2>2. g[k] = IF k = 0 THEN start ELSE step[k][g[k - 1]]
        BY <1>4 DEF Solves
    <2>. HIDE DEF S, start
    <2>. QED
        BY <2>1, <2>2
<1>6. F(g)
    BY <1>4, <1>5 DEF Solves
<1> DEFINE f == CHOOSE h : F(h)
<1>7. F(f)
    BY <1>6
<1>8. Appended(ps, room) = f[n].kept
    BY DEF Appended, Tried, Untried
<1>9. \A k \in 0 .. n : f[k] = IF k = 0 THEN start ELSE Tried(f[k - 1], ps[k])
    <2>. HIDE DEF f, start
    <2>. QED
        BY <1>7
<1>10. f[0] = start /\ \A k \in 1 .. n : f[k] = Tried(f[k - 1], ps[k])
    <2>. HIDE DEF f, start
    <2>. QED
        BY <1>1, <1>9
<1>11. f \in [0 .. n -> S]
    <2>1. DOMAIN f = 0 .. n /\ f = [k \in 0 .. n |-> f[k]]
        <3>. HIDE DEF f, start
        <3>. QED
            BY <1>7
    <2>2. 0 \in {k \in 0 .. n : f[k] \in S}
        <3>. HIDE DEF f, start, S
        <3>. QED
            BY <1>1, <1>10
    <2>3. ASSUME NEW k \in 1 .. n, k - 1 \in {i \in 0 .. n : f[i] \in S}
          PROVE  k \in {i \in 0 .. n : f[i] \in S}
        <3>. HIDE DEF f, start, S
        <3>1. f[k - 1] \in S
            BY <2>3
        <3>. QED
            BY <1>2, <1>10, <3>1
    <2>. HIDE DEF f, start, S
    <2>4. PICK P : P = {k \in 0 .. n : f[k] \in S}
        OBVIOUS
    <2>5. \A k \in 0 .. n : k \in P
        BY <1>1, <2>2, <2>3, <2>4, Induction
    <2>. QED
        BY <2>1, <2>4, <2>5
<1>. HIDE DEF f
<1>. QED
    BY <1>8, <1>10, <1>11

\* What is kept after k of the pieces.
KeptOf(ps, b, k) ==
    /\ UnderHeaders(b.kept)
    /\ b.last /\ k > 0 => Len(b.kept) > 0 /\ b.kept[Len(b.kept)] = ps[k]
    /\ b.last /\ k > 1 /\ ps[k].needs =>
          Len(b.kept) > 1 /\ b.kept[Len(b.kept) - 1] = ps[k - 1]

LEMMA TriedKeeps ==
    ASSUME NEW ps, UnderHeaders(ps), Bound(ps), NEW k \in 1 .. Len(ps),
           NEW b \in AppendStates, KeptOf(ps, b, k - 1)
    PROVE  KeptOf(ps, Tried(b, ps[k]), k)
<1>1. PICK s \in Seq(PieceSet) : s = b.kept
    BY DEF AppendStates
<1>2. Len(ps) \in Nat /\ k \in Nat /\ Len(s) \in Nat
    BY <1>1 DEF UnderHeaders
<1>3. PICK x \in PieceSet : x = ps[k]
    BY <1>2 DEF UnderHeaders
<1>4. PICK n \in Nat : n = Len(x.octets)
    BY <1>3 DEF PieceSet
<1>5. CASE n <= b.room /\ (x.needs => b.last)
    <2>1. PICK t \in Seq(PieceSet) : t = Append(s, x)
        BY <1>1, <1>3, AppendProperties
    <2>2. /\ Len(t) = Len(s) + 1 /\ t[Len(s) + 1] = x
          /\ \A i \in 1 .. Len(s) : t[i] = s[i]
        BY <2>1, AppendProperties
    <2>3. Tried(b, ps[k]).kept = t /\ Tried(b, ps[k]).last = TRUE
        BY <1>1, <1>3, <1>4, <1>5, <2>1 DEF Tried
    <2>4. k > 1 /\ x.needs => Len(s) > 0 /\ s[Len(s)] = ps[k - 1]
        BY <1>1, <1>2, <1>5 DEF KeptOf
    <2>5. k > 1 /\ x.needs => Len(t) > 1 /\ t[Len(t) - 1] = ps[k - 1]
        BY <1>2, <2>2, <2>4
    <2>6. ASSUME proto = "infinova_d", x.message
          PROVE  Len(s) > 1 /\ s[Len(s)] = H2 /\ s[Len(s) - 1] = H1
        <3>1. k > 2 /\ ps[k - 1] = H2 /\ ps[k - 2] = H1 /\ x.needs
            BY <1>2, <1>3, <2>6 DEF UnderHeaders, Bound
        <3>2. b.last /\ ps[k - 1].needs
            BY <1>5, <3>1, HeadersAre
        <3>3. Len(s) > 1 /\ s[Len(s) - 1] = ps[(k - 1) - 1]
            BY <1>1, <1>2, <3>1, <3>2 DEF KeptOf
        <3>4. (k - 1) - 1 = k - 2
            BY <1>2
        <3>. QED
            BY <2>4, <3>1, <3>3, <3>4
    <2>7. UnderHeaders(t)
        <3>1. ASSUME NEW i \in 1 .. Len(t), t[i].message
              PROVE  /\ IsMessage(Codec, t[i].octets, 1, Len(t[i].octets))
                     /\ proto = "infinova_d" => i > 2 /\ t[i - 1] = H2 /\ t[i - 2] = H1
            <4>1. CASE i \in 1 .. Len(s)
                <5>1. t[i] = s[i]
                    BY <2>2, <4>1
                <5>2. /\ IsMessage(Codec, s[i].octets, 1, Len(s[i].octets))
                      /\ proto = "infinova_d" => i > 2 /\ s[i - 1] = H2 /\ s[i - 2] = H1
                    BY <1>1, <3>1, <4>1, <5>1 DEF KeptOf, UnderHeaders
                <5>3. i > 2 => i - 1 \in 1 .. Len(s) /\ i - 2 \in 1 .. Len(s)
                    BY <4>1
                <5>. QED
                    BY <2>2, <5>1, <5>2, <5>3
            <4>2. CASE i = Len(s) + 1
                <5>1. t[i] = x
                    BY <2>2, <4>2
                <5>2. IsMessage(Codec, x.octets, 1, Len(x.octets))
                    BY <1>3, <3>1, <5>1 DEF UnderHeaders
                <5>3. ASSUME proto = "infinova_d"
                      PROVE  i > 2 /\ t[i - 1] = H2 /\ t[i - 2] = H1
                    <6>1. Len(s) > 1 /\ s[Len(s)] = H2 /\ s[Len(s) - 1] = H1
                        BY <2>6, <3>1, <5>1, <5>3
                    <6>2. i > 2 /\ i - 1 = Len(s) /\ i - 2 = Len(s) - 1
                        BY <1>2, <4>2, <6>1
                    <6>3. Len(s) \in 1 .. Len(s) /\ Len(s) - 1 \in 1 .. Len(s)
                        BY <1>2, <6>1
                    <6>. QED
                        BY <2>2, <6>1, <6>2, <6>3
                <5>. QED
                    BY <5>1, <5>2, <5>3
            <4>. QED
                BY <1>2, <2>2, <4>1, <4>2
        <3>. QED
            BY <3>1 DEF UnderHeaders
    <2>. QED
        BY <1>2, <1>3, <2>2, <2>3, <2>5, <2>7 DEF KeptOf
<1>6. CASE ~(n <= b.room /\ (x.needs => b.last))
    <2>1. Tried(b, ps[k]) = [b EXCEPT !.last = FALSE]
        BY <1>3, <1>4, <1>6 DEF Tried
    <2>2. Tried(b, ps[k]).kept = s /\ Tried(b, ps[k]).last = FALSE
        BY <1>1, <2>1 DEF AppendStates
    <2>. QED
        BY <1>1, <2>2 DEF KeptOf
<1>. QED
    BY <1>5, <1>6

\* The authentication is kept when there is room for it.
AuthenticationKept(b, k, room) ==
    /\ k = 0 => b = Untried(room)
    /\ k = 1 => b = [room |-> room - 12, kept |-> <<A1>>, last |-> TRUE]
    /\ k > 1 => WithAuthentication(b.kept)

LEMMA TriedAuthenticates ==
    ASSUME NEW ps \in Seq(PieceSet), WithAuthentication(ps), NEW k \in 1 .. Len(ps),
           NEW room \in Int, room >= 78,
           NEW b \in AppendStates, AuthenticationKept(b, k - 1, room)
    PROVE  AuthenticationKept(Tried(b, ps[k]), k, room)
<1>1. CASE k = 1
    <2>1. ps[k] = A1 /\ b = Untried(room)
        BY <1>1 DEF WithAuthentication, AuthenticationKept
    <2>2. Tried(b, ps[k]) = [room |-> room - 12, kept |-> Append(<< >>, A1), last |-> TRUE]
        BY <2>1, HeadersAre DEF Tried, Untried
    <2>3. Append(<< >>, A1) = <<A1>>
        OBVIOUS
    <2>. QED
        BY <1>1, <2>2, <2>3 DEF AuthenticationKept
<1>2. CASE k = 2
    <2>1. ps[k] = A2 /\ b = [room |-> room - 12, kept |-> <<A1>>, last |-> TRUE]
        BY <1>2 DEF WithAuthentication, AuthenticationKept
    <2>2. 66 <= room - 12
        OBVIOUS
    <2>3. b.room = room - 12 /\ b.kept = <<A1>> /\ b.last = TRUE
        BY <2>1
    <2>4. Tried(b, ps[k]).kept = Append(<<A1>>, A2)
        BY <2>1, <2>2, <2>3, HeadersAre DEF Tried
    <2>5. PICK s \in Seq(PieceSet) : s = <<A1>>
        <3>1. PICK x \in PieceSet : x = A1
            BY HeadersAre
        <3>2. <<x>> \in Seq(PieceSet)
            OBVIOUS
        <3>. QED
            BY <3>1, <3>2
    <2>6. PICK t : t = Append(s, A2)
        OBVIOUS
    <2>7. Len(t) = Len(s) + 1 /\ t[Len(s) + 1] = A2 /\ \A i \in 1 .. Len(s) : t[i] = s[i]
        BY <2>6, HeadersAre, AppendProperties
    <2>8. Len(s) = 1 /\ s[1] = A1
        BY <2>5
    <2>9. WithAuthentication(t)
        BY <2>7, <2>8 DEF WithAuthentication
    <2>10. WithAuthentication(Tried(b, ps[k]).kept)
        BY <2>4, <2>5, <2>6, <2>9
    <2>. QED
        BY <1>2, <2>10 DEF AuthenticationKept
<1>3. CASE k > 2
    <2>1. WithAuthentication(b.kept)
        BY <1>3 DEF AuthenticationKept
    <2>2. PICK s \in Seq(PieceSet) : s = b.kept
        BY DEF AppendStates
    <2>3. PICK x \in PieceSet : x = ps[k]
        OBVIOUS
    <2>4. PICK t : t = Tried(b, x).kept
        OBVIOUS
    <2>5. t = Append(s, x) \/ t = s
        BY <2>2, <2>4 DEF Tried, AppendStates
    <2>6. Len(s) \in Nat /\ Len(s) > 1
        BY <2>1, <2>2 DEF WithAuthentication
    <2>7. Len(t) >= Len(s) /\ t[1] = s[1] /\ t[2] = s[2]
        <3>1. CASE t = Append(s, x)
            <4>1. Len(t) = Len(s) + 1 /\ \A i \in 1 .. Len(s) : t[i] = s[i]
                BY <3>1, AppendProperties
            <4>2. 1 \in 1 .. Len(s) /\ 2 \in 1 .. Len(s)
                BY <2>6
            <4>. QED
                BY <2>6, <4>1, <4>2
        <3>. QED
            BY <2>5, <2>6, <3>1
    <2>8. WithAuthentication(t)
        <3>1. Len(t) > 1
            BY <2>5, <2>6, <2>7, AppendProperties
        <3>. QED
            BY <2>1, <2>2, <2>7, <3>1 DEF WithAuthentication
    <2>. QED
        BY <1>3, <2>3, <2>4, <2>8 DEF AuthenticationKept
<1>. QED
    BY <1>1, <1>2, <1>3

\* What is kept of pieces that are under their headers is under its headers, and
\* the authentication is kept when there is room for it.
LEMMA AppendedKeeps ==
    ASSUME NEW ps, UnderHeaders(ps), Bound(ps), NEW room \in Int
    PROVE  /\ UnderHeaders(Appended(ps, room))
           /\ WithAuthentication(ps) /\ room >= 78 => WithAuthentication(Appended(ps, room))
<1>1. ps \in Seq(PieceSet)
    BY DEF UnderHeaders
<1>2. PICK f \in [0 .. Len(ps) -> AppendStates] :
              /\ f[0] = Untried(room) /\ Appended(ps, room) = f[Len(ps)].kept
              /\ \A k \in 1 .. Len(ps) : f[k] = Tried(f[k - 1], ps[k])
    BY <1>1, AppendedIs
<1>3. PICK n \in Nat : n = Len(ps)
    BY <1>1
<1>4. UnderHeaders(Appended(ps, room))
    <2>1. PICK P : P = {k \in 0 .. n : KeptOf(ps, f[k], k)}
        OBVIOUS
    <2>2. 0 \in P
        <3>1. UnderHeaders(<< >>)
            BY DEF UnderHeaders
        <3>. QED
            BY <1>2, <2>1, <3>1 DEF KeptOf, Untried
    <2>3. ASSUME NEW k \in 1 .. n, k - 1 \in P
          PROVE  k \in P
        <3>1. KeptOf(ps, f[k - 1], k - 1) /\ f[k - 1] \in AppendStates
            BY <1>2, <1>3, <2>1, <2>3
        <3>2. KeptOf(ps, Tried(f[k - 1], ps[k]), k)
            BY <1>3, <3>1, TriedKeeps
        <3>. QED
            BY <1>2, <1>3, <2>1, <3>2
    <2>4. \A k \in 0 .. n : k \in P
        BY <2>2, <2>3, Induction
    <2>5. n \in P
        BY <2>4
    <2>. QED
        BY <1>2, <1>3, <2>1, <2>5 DEF KeptOf
<1>5. ASSUME WithAuthentication(ps), room >= 78
      PROVE  WithAuthentication(Appended(ps, room))
    <2>1. PICK P : P = {k \in 0 .. n : AuthenticationKept(f[k], k, room)}
        OBVIOUS
    <2>2. 0 \in P
        BY <1>2, <2>1 DEF AuthenticationKept
    <2>3. ASSUME NEW k \in 1 .. n, k - 1 \in P
          PROVE  k \in P
        <3>1. AuthenticationKept(f[k - 1], k - 1, room) /\ f[k - 1] \in AppendStates
            BY <1>2, <1>3, <2>1, <2>3
        <3>2. AuthenticationKept(Tried(f[k - 1], ps[k]), k, room)
            BY <1>1, <1>3, <1>5, <3>1, TriedAuthenticates
        <3>. QED
            BY <1>2, <1>3, <2>1, <3>2
    <2>4. \A k \in 0 .. n : k \in P
        BY <2>2, <2>3, Induction
    <2>5. n \in P
        BY <2>4
    <2>6. n > 1
        BY <1>3, <1>5 DEF WithAuthentication
    <2>. QED
        BY <1>2, <1>3, <2>1, <2>5, <2>6 DEF AuthenticationKept
<1>. QED
    BY <1>4, <1>5

LEMMA FramedIs ==
    ASSUME NEW x \in PieceSet, NEW f, f = infinova_d_header \o <<x>>
    PROVE  f[1] = H1 /\ f[2] = H2 /\ f[3] = x
<1>1. PICK a \in PieceSet, b \in PieceSet : a = H1 /\ b = H2
    BY HeadersAre
<1>2. infinova_d_header = <<a, b>>
    BY <1>1, HeadersAre
<1>3. f = <<a, b>> \o <<x>>
    BY <1>2
<1>. QED
    BY <1>1, <1>3, SMTT(30)

\* The pieces of messages are under their headers, and behind the authentication
\* on a connection that is new.
LEMMA PiecesAre ==
    ASSUME NEW ms, Messages(Codec, ms)
    PROVE  /\ UnderHeaders(Pieces(ms)) /\ Bound(Pieces(ms))
           /\ proto = "infinova_d" /\ ~open => WithAuthentication(Pieces(ms))
<1>1. CASE proto # "infinova_d"
    <2>1. Pieces(ms) = ms
        BY <1>1 DEF Pieces
    <2>. QED
        BY <1>1, <2>1 DEF UnderHeaders, Bound, Messages, Whole
<1>2. CASE proto = "infinova_d"
    <2> DEFINE framed(k) == infinova_d_header \o <<[ms[k] EXCEPT !.needs = TRUE]>>
    <2>1. PICK n \in Nat : n = Len(ms)
        BY DEF Messages
    <2>2. PICK t : t = [i \in 1 .. 3 * n |-> framed(((i - 1) \div 3) + 1)[((i - 1) % 3) + 1]]
        OBVIOUS
    <2>3. PICK a : a = Authentication
        OBVIOUS
    <2>4. Pieces(ms) = a \o t
        BY <1>2, <2>1, <2>2, <2>3 DEF Pieces
    <2>5. ASSUME NEW k \in 1 .. n
          PROVE  /\ framed(k)[1] = H1 /\ framed(k)[2] = H2
                 /\ framed(k)[3] \in PieceSet /\ framed(k)[3].needs
                 /\ framed(k)[3].message
                 /\ IsMessage(Codec, framed(k)[3].octets, 1, Len(framed(k)[3].octets))
        <3>1. PICK m \in PieceSet : m = ms[k]
            BY <2>1 DEF Messages
        <3>2. m.message /\ IsMessage(Codec, m.octets, 1, Len(m.octets))
            BY <2>1, <3>1 DEF Messages, Whole
        <3>3. PICK x : x = [m EXCEPT !.needs = TRUE]
            OBVIOUS
        <3>4. x \in PieceSet /\ x.needs /\ x.message /\ x.octets = m.octets
            BY <3>2, <3>3 DEF PieceSet
        <3>5. framed(k) = infinova_d_header \o <<x>>
            BY <3>1, <3>3
        <3>6. framed(k)[1] = H1 /\ framed(k)[2] = H2 /\ framed(k)[3] = x
            <4>. HIDE DEF framed
            <4>. QED
                BY <3>4, <3>5, FramedIs
        <3>. HIDE DEF framed
        <3>. QED
            BY <3>2, <3>4, <3>6
    <2>. HIDE DEF framed
    <2>6. ASSUME NEW i \in 1 .. 3 * n
          PROVE  /\ (i - 1) % 3 = 0 => t[i] = H1
                 /\ (i - 1) % 3 = 1 => t[i] = H2
                 /\ (i - 1) % 3 = 2 =>
                       /\ t[i] \in PieceSet /\ t[i].needs
                       /\ IsMessage(Codec, t[i].octets, 1, Len(t[i].octets))
        <3>1. PICK k \in 1 .. n : k = ((i - 1) \div 3) + 1
            OBVIOUS
        <3>2. t[i] = framed(k)[((i - 1) % 3) + 1]
            BY <2>2, <3>1
        <3>3. (i - 1) % 3 = 0 => t[i] = framed(k)[1]
            BY <3>2
        <3>4. (i - 1) % 3 = 1 => t[i] = framed(k)[2]
            BY <3>2
        <3>5. (i - 1) % 3 = 2 => t[i] = framed(k)[3]
            BY <3>2
        <3>. QED
            BY <2>5, <3>3, <3>4, <3>5
    <2>7. \A i \in 1 .. 3 * n : (i - 1) % 3 \in {0, 1, 2}
        OBVIOUS
    <2>8. t \in Seq(PieceSet) /\ Len(t) = 3 * n
        <3>1. ASSUME NEW i \in 1 .. 3 * n PROVE t[i] \in PieceSet
            BY <2>6, <2>7, HeadersAre
        <3>2. 3 * n \in Nat
            OBVIOUS
        <3>3. DOMAIN t = 1 .. 3 * n /\ t = [i \in 1 .. 3 * n |-> t[i]]
            BY <2>2
        <3>. QED
            BY <3>1, <3>2, <3>3
    <2>9. ASSUME NEW i \in 1 .. 3 * n, t[i].message
          PROVE  /\ IsMessage(Codec, t[i].octets, 1, Len(t[i].octets)) /\ t[i].needs
                 /\ i > 2 /\ t[i - 1] = H2 /\ t[i - 2] = H1
        <3>1. (i - 1) % 3 = 2
            BY <2>6, <2>7, <2>9, HeadersAre
        <3>2. i > 2 /\ ((i - 1) - 1) % 3 = 1 /\ ((i - 2) - 1) % 3 = 0
            BY <3>1
        <3>3. i - 1 \in 1 .. 3 * n /\ i - 2 \in 1 .. 3 * n
            BY <3>2
        <3>. QED
            BY <2>6, <3>1, <3>2, <3>3
    <2>10. /\ a \in Seq(PieceSet) /\ Len(a) \in {0, 2}
           /\ \A i \in 1 .. Len(a) : ~a[i].message
           /\ ~open => Len(a) = 2 /\ a[1] = A1 /\ a[2] = A2
        <3>1. CASE open
            BY <2>3, <3>1 DEF Authentication
        <3>2. CASE ~open
            <4>1. PICK x \in PieceSet, y \in PieceSet : x = A1 /\ y = A2
                BY HeadersAre
            <4>2. ~x.message /\ ~y.message
                BY <4>1, HeadersAre
            <4>3. a = <<x, y>>
                BY <2>3, <3>2, <4>1, HeadersAre DEF Authentication
            <4>. QED
                BY <4>1, <4>2, <4>3
        <3>. QED
            BY <3>1, <3>2
    <2>11. PICK ps : ps = a \o t
        OBVIOUS
    <2>12. /\ ps \in Seq(PieceSet) /\ Len(ps) = Len(a) + Len(t)
           /\ \A i \in 1 .. Len(a) + Len(t) : ps[i] = IF i <= Len(a) THEN a[i] ELSE t[i - Len(a)]
        BY <2>8, <2>10, <2>11, ConcatProperties
    <2>13. /\ Len(a) \in Nat /\ Len(t) \in Nat /\ Len(t) = 3 * n
           /\ Len(ps) = Len(a) + 3 * n
        BY <2>8, <2>10, <2>12
    <2>14. ASSUME NEW k \in 1 .. Len(ps), ps[k].message
           PROVE  /\ IsMessage(Codec, ps[k].octets, 1, Len(ps[k].octets)) /\ ps[k].needs
                  /\ k > 2 /\ ps[k - 1] = H2 /\ ps[k - 2] = H1
        <3>1. ~(k \in 1 .. Len(a))
            <4>1. ASSUME k \in 1 .. Len(a) PROVE FALSE
                <5>1. k \in 1 .. Len(a) + Len(t) /\ k <= Len(a)
                    BY <2>13, <4>1
                <5>2. ps[k] = a[k]
                    BY <2>12, <5>1
                <5>3. ~a[k].message
                    BY <2>10, <4>1
                <5>. QED
                    BY <2>14, <5>2, <5>3
            <4>. QED
                BY <4>1
        <3>2. PICK i \in 1 .. 3 * n : i = k - Len(a)
            BY <2>13, <3>1
        <3>3. ps[k] = t[i]
            BY <2>12, <2>13, <3>1, <3>2
        <3>4. /\ IsMessage(Codec, t[i].octets, 1, Len(t[i].octets)) /\ t[i].needs
              /\ i > 2 /\ t[i - 1] = H2 /\ t[i - 2] = H1
            BY <2>9, <2>14, <3>3
        <3>5. ps[k - 1] = t[i - 1] /\ ps[k - 2] = t[i - 2] /\ k > 2
            <4>1. /\ k - 1 \in 1 .. Len(a) + Len(t) /\ ~(k - 1 <= Len(a)) /\ k - 1 - Len(a) = i - 1
                  /\ k - 2 \in 1 .. Len(a) + Len(t) /\ ~(k - 2 <= Len(a)) /\ k - 2 - Len(a) = i - 2
              /\ k > 2
                BY <2>13, <3>2, <3>4
            <4>2. ps[k - 1] = t[k - 1 - Len(a)]
                BY <2>12, <4>1
            <4>3. ps[k - 2] = t[k - 2 - Len(a)]
                BY <2>12, <4>1
            <4>. QED
                BY <4>1, <4>2, <4>3
        <3>. QED
            BY <3>3, <3>4, <3>5
    <2>15. UnderHeaders(ps) /\ Bound(ps)
        BY <2>12, <2>14 DEF UnderHeaders, Bound
    <2>16. ~open => WithAuthentication(ps)
        <3>1. ASSUME ~open
              PROVE  Len(ps) > 1 /\ ps[1] = A1 /\ ps[2] = A2
            <4>1. /\ 1 \in 1 .. Len(a) + Len(t) /\ 1 <= Len(a)
                  /\ 2 \in 1 .. Len(a) + Len(t) /\ 2 <= Len(a) /\ Len(ps) > 1
                <5>1. Len(a) = 2
                    BY <2>10, <3>1
                <5>. QED
                    BY <2>13, <5>1
            <4>2. ps[1] = a[1] /\ ps[2] = a[2]
                BY <2>12, <4>1
            <4>. QED
                BY <2>10, <3>1, <4>1, <4>2
        <3>. QED
            BY <3>1 DEF WithAuthentication
    <2>. QED
        BY <2>4, <2>11, <2>15, <2>16
<1>. QED
    BY <1>1, <1>2

-----------------------------------------------------------------------------
(* What is written.                                                         *)

Octets == 0 .. 255

\* b goes on from a.
Longer(b, a) == Len(a) <= Len(b) /\ \A i \in 1 .. Len(a) : b[i] = a[i]

\* The octets o are in b, behind so many.
Holds(b, o, n) ==
    n \in Nat /\ n + Len(o) <= Len(b) /\ \A j \in 1 .. Len(o) : b[n + j] = o[j]

LEMMA HoldsLonger ==
    ASSUME NEW a \in Seq(Octets), NEW b \in Seq(Octets), Longer(b, a), NEW o \in Seq(Octets),
           NEW n, Holds(a, o, n)
    PROVE  Holds(b, o, n)
<1>1. n \in Nat /\ Len(o) \in Nat /\ Len(a) \in Nat /\ Len(b) \in Nat
    BY DEF Holds
<1>2. n + Len(o) <= Len(a) /\ Len(a) <= Len(b)
    BY DEF Holds, Longer
<1>3. \A j \in 1 .. Len(o) : n + j \in 1 .. Len(a)
    BY <1>1, <1>2
<1>4. \A j \in 1 .. Len(o) : b[n + j] = o[j]
    BY <1>3 DEF Holds, Longer
<1>. QED
    BY <1>1, <1>2, <1>4 DEF Holds

Spans(n) == [first : 1 .. n, last : 1 .. n]

\* The messages s in the bytes b.
WellSent(b, s) ==
    /\ s \in Seq(Spans(Len(b)))
    /\ \A k \in 1 .. Len(s) :
          /\ s[k].first <= s[k].last
          /\ IsMessage(Codec, b, s[k].first, s[k].last + 1 - s[k].first)
          /\ proto = "infinova_d" =>
                /\ Holds(b, H1.octets, s[k].first - 1 - 24)
                /\ Holds(b, H2.octets, s[k].first - 1 - 12)
    /\ \A k, m \in 1 .. Len(s) : k < m => s[k].last < s[m].first

LEMMA CodecIs == Codec \in Codecs
BY DEF Codec, Codecs

LEMMA WellSentLonger ==
    ASSUME NEW a \in Seq(Octets), NEW b \in Seq(Octets), Longer(b, a), NEW s, WellSent(a, s)
    PROVE  WellSent(b, s)
<1>1. PICK c \in Codecs : c = Codec
    BY CodecIs
<1>2. Len(a) \in Nat /\ Len(b) \in Nat /\ Len(a) <= Len(b)
    BY DEF Longer
<1>3. s \in Seq(Spans(Len(b)))
    <2>1. s \in Seq(Spans(Len(a)))
        BY DEF WellSent
    <2>2. Spans(Len(a)) \subseteq Spans(Len(b))
        BY <1>2 DEF Spans
    <2>. QED
        BY <2>1, <2>2
<1>4. ASSUME NEW k \in 1 .. Len(s)
      PROVE  /\ s[k].first <= s[k].last
             /\ IsMessage(c, b, s[k].first, s[k].last + 1 - s[k].first)
             /\ proto = "infinova_d" =>
                   /\ Holds(b, H1.octets, s[k].first - 1 - 24)
                   /\ Holds(b, H2.octets, s[k].first - 1 - 12)
    <2>1. PICK f \in 1 .. Len(a), l \in 1 .. Len(a) : f = s[k].first /\ l = s[k].last
        <3>1. s \in Seq(Spans(Len(a))) /\ Len(s) \in Nat
            BY DEF WellSent
        <3>2. s[k] \in Spans(Len(a))
            BY <3>1
        <3>. QED
            BY <3>2 DEF Spans
    <2>2. f <= l /\ IsMessage(c, a, f, l + 1 - f)
        BY <1>1, <2>1 DEF WellSent
    <2>3. PICK n \in Nat : n = l + 1 - f
        <3>1. f <= l /\ f \in Int /\ l \in Int
            BY <1>2, <2>2
        <3>. QED
            BY <3>1
    <2>4. \A j \in 0 .. n - 1 : f + j \in 1 .. Len(a)
        BY <1>2, <2>3
    <2>5. \A j \in 0 .. n - 1 : b[f + j] = a[f + j]
        BY <2>4 DEF Longer
    <2>6. IsMessage(c, b, f, n)
        <3>1. f \in Int /\ IsMessage(c, a, f, n)
            BY <2>2, <2>3
        <3>. QED
            BY <2>5, <3>1, SameMessage
    <2>7. ASSUME proto = "infinova_d"
          PROVE  Holds(b, H1.octets, f - 1 - 24) /\ Holds(b, H2.octets, f - 1 - 12)
        <3>1. Holds(a, H1.octets, f - 1 - 24) /\ Holds(a, H2.octets, f - 1 - 12)
            BY <2>1, <2>7 DEF WellSent
        <3>2. H1.octets \in Seq(Octets) /\ H2.octets \in Seq(Octets)
            BY HeadersAre DEF PieceSet, Octets
        <3>. QED
            BY <3>1, <3>2, HoldsLonger
    <2>. QED
        BY <2>1, <2>2, <2>3, <2>6, <2>7
<1>. QED
    BY <1>1, <1>3, <1>4 DEF WellSent

\* One message more.
LEMMA WellSentAppend ==
    ASSUME NEW b \in Seq(Octets), NEW s, WellSent(b, s), NEW r \in Spans(Len(b)),
           r.first <= r.last, IsMessage(Codec, b, r.first, r.last + 1 - r.first),
           proto = "infinova_d" => /\ Holds(b, H1.octets, r.first - 1 - 24)
                                   /\ Holds(b, H2.octets, r.first - 1 - 12),
           \A k \in 1 .. Len(s) : s[k].last < r.first
    PROVE  WellSent(b, Append(s, r))
<1>1. s \in Seq(Spans(Len(b))) /\ Len(s) \in Nat
    BY DEF WellSent
<1>2. PICK t : t = Append(s, r)
    OBVIOUS
<1>3. /\ t \in Seq(Spans(Len(b))) /\ Len(t) = Len(s) + 1 /\ t[Len(s) + 1] = r
      /\ \A k \in 1 .. Len(s) : t[k] = s[k]
    BY <1>1, <1>2, AppendProperties
<1>4. ASSUME NEW k \in 1 .. Len(t)
      PROVE  /\ t[k].first <= t[k].last
             /\ IsMessage(Codec, b, t[k].first, t[k].last + 1 - t[k].first)
             /\ proto = "infinova_d" =>
                   /\ Holds(b, H1.octets, t[k].first - 1 - 24)
                   /\ Holds(b, H2.octets, t[k].first - 1 - 12)
    <2>1. k \in 1 .. Len(s) \/ k = Len(s) + 1
        BY <1>1, <1>3
    <2>2. CASE k \in 1 .. Len(s)
        <3>1. t[k] = s[k]
            BY <1>3, <2>2
        <3>. QED
            BY <2>2, <3>1 DEF WellSent
    <2>3. CASE k = Len(s) + 1
        <3>1. t[k] = r
            BY <1>3, <2>3
        <3>. QED
            BY <3>1
    <2>. QED
        BY <2>1, <2>2, <2>3
<1>5. ASSUME NEW k \in 1 .. Len(t), NEW m \in 1 .. Len(t), k < m
      PROVE  t[k].last < t[m].first
    <2>1. k \in 1 .. Len(s) /\ t[k] = s[k]
        <3>1. k \in 1 .. Len(s)
            BY <1>1, <1>3, <1>5
        <3>. QED
            BY <1>3, <3>1
    <2>2. CASE m \in 1 .. Len(s)
        <3>1. t[m] = s[m]
            BY <1>3, <2>2
        <3>. QED
            BY <1>5, <2>1, <2>2, <3>1 DEF WellSent
    <2>3. CASE m \notin 1 .. Len(s)
        <3>1. m = Len(s) + 1
            BY <1>1, <1>3, <2>3
        <3>2. t[m] = r
            BY <1>3, <3>1
        <3>. QED
            BY <2>1, <3>2
    <2>. QED
        BY <2>2, <2>3
<1>. QED
    BY <1>2, <1>3, <1>4, <1>5 DEF WellSent

WriteStates == [bytes : Seq(Octets), sent : Seq([first : Nat, last : Nat])]

LEMMA WithIs ==
    ASSUME NEW w \in WriteStates, NEW x \in PieceSet
    PROVE  /\ With(w, x) \in WriteStates
           /\ With(w, x).bytes = w.bytes \o x.octets
           /\ With(w, x).sent = IF x.message
                                THEN Append(w.sent, [first |-> Len(w.bytes) + 1,
                                                     last |-> Len(w.bytes) + Len(x.octets)])
                                ELSE w.sent
<1>1. PICK b \in Seq(Octets), s \in Seq([first : Nat, last : Nat]) : b = w.bytes /\ s = w.sent
    BY DEF WriteStates
<1>2. PICK o \in Seq(Octets) : o = x.octets
    BY DEF PieceSet, Octets
<1>3. PICK e \in Seq(Octets) : e = b \o o
    BY ConcatProperties
<1>4. PICK r \in [first : Nat, last : Nat] :
         r = [first |-> Len(w.bytes) + 1, last |-> Len(w.bytes) + Len(x.octets)]
    <2>1. PICK f \in Nat, l \in Nat : f = Len(w.bytes) + 1 /\ l = Len(w.bytes) + Len(x.octets)
        <3>1. Len(w.bytes) \in Nat /\ Len(x.octets) \in Nat
            BY <1>1, <1>2
        <3>2. \A i, j \in Nat : i + 1 \in Nat /\ i + j \in Nat
            OBVIOUS
        <3>. QED
            BY <3>1, <3>2
    <2>2. [first |-> f, last |-> l] \in [first : Nat, last : Nat]
        OBVIOUS
    <2>. QED
        BY <2>1, <2>2
<1>5. PICK t \in Seq([first : Nat, last : Nat]) : t = IF x.message THEN Append(s, r) ELSE s
    BY AppendProperties
<1>6. With(w, x) = [bytes |-> e, sent |-> t]
    BY <1>1, <1>2, <1>3, <1>4, <1>5 DEF With
<1>. QED
    BY <1>1, <1>2, <1>3, <1>4, <1>5, <1>6 DEF WriteStates

\* What there is before more is written.
Written0 == [bytes |-> bytes, sent |-> sent]

LEMMA WrittenIs ==
    ASSUME NEW ps \in Seq(PieceSet), Written0 \in WriteStates
    PROVE  \E f \in [0 .. Len(ps) -> WriteStates] :
              /\ f[0] = Written0 /\ Written(ps) = f[Len(ps)]
              /\ \A k \in 1 .. Len(ps) : f[k] = With(f[k - 1], ps[k])
<1> DEFINE n == Len(ps)
           S == WriteStates
           start == Written0
           step == [k \in 1 .. n |-> [b \in S |-> With(b, ps[k])]]
           F(g) == g = [k \in 0 .. n |-> IF k = 0 THEN start ELSE With(g[k - 1], ps[k])]
<1>1. n \in Nat /\ start \in S
    OBVIOUS
<1>2. ASSUME NEW k \in 1 .. n, NEW b \in S
      PROVE  With(b, ps[k]) \in S
    <2>1. PICK x \in PieceSet : x = ps[k]
        OBVIOUS
    <2>. QED
        BY <2>1, WithIs
<1>3. step \in [1 .. n -> [S -> S]]
    BY <1>2
<1>4. PICK g : Solves(g, n, S, start, step)
    <2>. HIDE DEF step, S, n, start
    <2>. QED
        BY <1>1, <1>3, Recursion
<1>5. ASSUME NEW k \in 0 .. n
      PROVE  g[k] = IF k = 0 THEN start ELSE With(g[k - 1], ps[k])
    <2>1. k # 0 => k \in 1 .. n /\ k - 1 \in 0 .. n /\ g[k - 1] \in S
        BY <1>1, <1>4 DEF Solves
    <2>2. g[k] = IF k = 0 THEN start ELSE step[k][g[k - 1]]
        BY <1>4 DEF Solves
    <2>. HIDE DEF S, start
    <2>. QED
        BY <2>1, <2>2
<1>6. F(g)
    BY <1>4, <1>5 DEF Solves
<1> DEFINE f == CHOOSE h : F(h)
<1>7. F(f)
    BY <1>6
<1>8. Written(ps) = f[n]
    BY DEF Written, Written0
<1>9. \A k \in 0 .. n : f[k] = IF k = 0 THEN start ELSE With(f[k - 1], ps[k])
    <2>. HIDE DEF f, start
    <2>. QED
        BY <1>7
<1>10. f[0] = start /\ \A k \in 1 .. n : f[k] = With(f[k - 1], ps[k])
    <2>. HIDE DEF f, start
    <2>. QED
        BY <1>1, <1>9
<1>11. f \in [0 .. n -> S]
    <2>1. DOMAIN f = 0 .. n /\ f = [k \in 0 .. n |-> f[k]]
        <3>. HIDE DEF f, start
        <3>. QED
            BY <1>7
    <2>2. 0 \in {k \in 0 .. n : f[k] \in S}
        <3>. HIDE DEF f, start, S
        <3>. QED
            BY <1>1, <1>10
    <2>3. ASSUME NEW k \in 1 .. n, k - 1 \in {i \in 0 .. n : f[i] \in S}
          PROVE  k \in {i \in 0 .. n : f[i] \in S}
        <3>. HIDE DEF f, start, S
        <3>1. f[k - 1] \in S
            BY <2>3
        <3>. QED
            BY <1>2, <1>10, <3>1
    <2>. HIDE DEF f, start, S
    <2>4. PICK P : P = {k \in 0 .. n : f[k] \in S}
        OBVIOUS
    <2>5. \A k \in 0 .. n : k \in P
        BY <1>1, <2>2, <2>3, <2>4, Induction
    <2>. QED
        BY <2>1, <2>4, <2>5
<1>. HIDE DEF f
<1>. QED
    BY <1>8, <1>10, <1>11

\* The messages t go on from s, in what is behind n bytes.
LaterSent(t, s, n) ==
    /\ Len(s) <= Len(t)
    /\ \A k \in 1 .. Len(s) : t[k] = s[k]
    /\ \A k \in 1 .. Len(t) : k > Len(s) => t[k].first > n

\* What is written after k of the pieces.
WrittenOf(ps, w, k) ==
    /\ Longer(w.bytes, bytes) /\ WellSent(w.bytes, w.sent)
    /\ LaterSent(w.sent, sent, Len(bytes))
    /\ k > 0 => Holds(w.bytes, ps[k].octets, Len(w.bytes) - Len(ps[k].octets))
    /\ k > 1 => Holds(w.bytes, ps[k - 1].octets,
                      Len(w.bytes) - Len(ps[k].octets) - Len(ps[k - 1].octets))
    /\ WithAuthentication(ps) =>
          /\ k = 0 => Len(w.bytes) = Len(bytes)
          /\ k = 1 => Len(w.bytes) = Len(bytes) + 12
          /\ k > 0 => Holds(w.bytes, A1.octets, Len(bytes))
          /\ k > 1 => Holds(w.bytes, A2.octets, Len(bytes) + 12)

LEMMA WithWrites ==
    ASSUME NEW ps, UnderHeaders(ps), NEW k \in 1 .. Len(ps), bytes \in Seq(Octets),
           sent \in Seq([first : Nat, last : Nat]),
           NEW w \in WriteStates, WrittenOf(ps, w, k - 1)
    PROVE  WrittenOf(ps, With(w, ps[k]), k)
<1>1. PICK b \in Seq(Octets), s \in Seq([first : Nat, last : Nat]) : b = w.bytes /\ s = w.sent
    BY DEF WriteStates
<1>2. ps \in Seq(PieceSet) /\ k \in Nat
    BY DEF UnderHeaders
<1>3. PICK x \in PieceSet : x = ps[k]
    BY <1>2
<1>4. PICK o \in Seq(Octets) : o = x.octets
    BY DEF PieceSet, Octets
<1>5. PICK e \in Seq(Octets) : e = b \o o
    BY ConcatProperties
<1>6. Len(b) \in Nat /\ Len(o) \in Nat /\ Len(e) = Len(b) + Len(o) /\ Len(bytes) \in Nat
    BY <1>5, ConcatProperties
<1>7. \A i \in 1 .. Len(b) + Len(o) : e[i] = IF i <= Len(b) THEN b[i] ELSE o[i - Len(b)]
    BY <1>5, ConcatProperties
<1>8. Longer(e, b)
    BY <1>6, <1>7 DEF Longer
<1>9. Holds(e, o, Len(b))
    <2>1. ASSUME NEW j \in 1 .. Len(o) PROVE e[Len(b) + j] = o[j]
        <3>1. /\ Len(b) + j \in 1 .. Len(b) + Len(o) /\ ~(Len(b) + j <= Len(b))
              /\ (Len(b) + j) - Len(b) = j
            BY <1>6
        <3>. QED
            BY <1>7, <3>1
    <2>. QED
        BY <1>6, <2>1 DEF Holds
<1>10. Longer(e, bytes)
    <2>1. Longer(b, bytes)
        BY <1>1 DEF WrittenOf
    <2>. QED
        BY <1>6, <1>8, <2>1 DEF Longer
<1>11. PICK v : v = With(w, ps[k])
    OBVIOUS
<1>12. /\ v.bytes = e
       /\ v.sent = IF x.message THEN Append(s, [first |-> Len(b) + 1, last |-> Len(b) + Len(o)])
                   ELSE s
    BY <1>1, <1>3, <1>4, <1>5, <1>11, WithIs
<1>13. WellSent(e, s) /\ WellSent(b, s)
    BY <1>1, <1>8, WellSentLonger DEF WrittenOf
<1>14. k > 1 => Holds(e, ps[k - 1].octets, Len(e) - Len(o) - Len(ps[k - 1].octets))
    <2>1. ASSUME k > 1
          PROVE  Holds(e, ps[k - 1].octets, Len(e) - Len(o) - Len(ps[k - 1].octets))
        <3>1. PICK p \in Seq(Octets) : p = ps[k - 1].octets
            <4>1. k - 1 \in 1 .. Len(ps)
                BY <1>2, <2>1
            <4>2. ps[k - 1] \in PieceSet
                BY <1>2, <4>1
            <4>. QED
                BY <4>2 DEF PieceSet, Octets
        <3>2. Holds(b, p, Len(b) - Len(p))
            <4>1. k - 1 > 0
                BY <1>2, <2>1
            <4>. QED
                BY <1>1, <3>1, <4>1 DEF WrittenOf
        <3>3. Holds(e, p, Len(b) - Len(p))
            BY <1>8, <3>2, HoldsLonger
        <3>4. Len(b) - Len(p) = Len(e) - Len(o) - Len(p)
            BY <1>6, <3>1
        <3>. QED
            BY <3>1, <3>3, <3>4
    <2>. QED
        BY <2>1
<1>15. Len(e) - Len(o) = Len(b)
    BY <1>6
<1>16. ASSUME x.message
       PROVE  /\ IsMessage(Codec, e, Len(b) + 1, Len(o)) /\ Len(o) > 0
              /\ proto = "infinova_d" =>
                   Holds(e, H1.octets, Len(b) - 24) /\ Holds(e, H2.octets, Len(b) - 12)
    <2>1. IsMessage(Codec, o, 1, Len(o))
        BY <1>3, <1>4, <1>16 DEF UnderHeaders
    <2>2. ASSUME NEW j \in 0 .. Len(o) - 1
          PROVE  e[(Len(b) + 1) + j] = o[1 + j]
        <3>1. 1 + j \in 1 .. Len(o) /\ (Len(b) + 1) + j = Len(b) + (1 + j)
            BY <1>6
        <3>. QED
            BY <1>9, <3>1 DEF Holds
    <2>3. IsMessage(Codec, e, Len(b) + 1, Len(o))
        <3>1. 1 \in Int /\ Len(b) + 1 \in Int
            BY <1>6
        <3>. QED
            BY <1>6, <2>1, <2>2, <3>1, CodecIs, SameMessage
    <2>4. Len(o) > 0
        <3>1. Len(o) \in {6, 7, 8, 10}
            BY <2>1, CodecIs, MessageSize
        <3>2. \A n \in {6, 7, 8, 10} : n > 0
            OBVIOUS
        <3>. QED
            BY <3>1, <3>2
    <2>5. ASSUME proto = "infinova_d"
          PROVE  Holds(e, H1.octets, Len(b) - 24) /\ Holds(e, H2.octets, Len(b) - 12)
        <3>1. k > 2 /\ ps[k - 1] = H2 /\ ps[k - 2] = H1
            BY <1>3, <1>16, <2>5 DEF UnderHeaders
        <3>2. /\ Len(H1.octets) = 12 /\ Len(H2.octets) = 12
              /\ H1.octets \in Seq(Octets) /\ H2.octets \in Seq(Octets)
            BY HeadersAre DEF PieceSet, Octets
        <3>3. Holds(b, H2.octets, Len(b) - 12)
            BY <1>1, <1>2, <3>1, <3>2 DEF WrittenOf
        <3>4. Holds(b, H1.octets, Len(b) - 12 - 12)
            <4>1. k - 1 > 1 /\ (k - 1) - 1 = k - 2
                BY <1>2, <3>1
            <4>2. Holds(b, ps[k - 2].octets, Len(b) - Len(ps[k - 1].octets) - Len(ps[k - 2].octets))
                BY <1>1, <4>1 DEF WrittenOf
            <4>. QED
                BY <3>1, <3>2, <4>2
        <3>5. Len(b) - 12 - 12 = Len(b) - 24
            BY <1>6
        <3>. QED
            BY <1>8, <3>2, <3>3, <3>4, <3>5, HoldsLonger
    <2>. QED
        BY <2>3, <2>4, <2>5
<1>17. WellSent(e, v.sent) /\ LaterSent(v.sent, sent, Len(bytes))
    <2>1. LaterSent(s, sent, Len(bytes)) /\ Len(bytes) <= Len(b)
        BY <1>1 DEF WrittenOf, Longer
    <2>2. CASE ~x.message
        BY <1>12, <1>13, <2>1, <2>2
    <2>3. CASE x.message
        <3>1. PICK r : r = [first |-> Len(b) + 1, last |-> Len(b) + Len(o)]
            OBVIOUS
        <3>2. r.first = Len(b) + 1 /\ r.last = Len(b) + Len(o)
            BY <3>1
        <3>3. Len(o) > 0
            BY <1>16, <2>3
        <3>4. r \in Spans(Len(e)) /\ r.first <= r.last /\ r.last + 1 - r.first = Len(o)
              /\ r.first - 1 - 24 = Len(b) - 24 /\ r.first - 1 - 12 = Len(b) - 12
            <4>1. Len(b) + 1 \in 1 .. Len(e) /\ Len(b) + Len(o) \in 1 .. Len(e)
                BY <1>6, <3>3
            <4>2. r \in Spans(Len(e))
                BY <3>1, <4>1 DEF Spans
            <4>. QED
                BY <1>6, <3>2, <3>3, <4>2
        <3>5. ASSUME NEW i \in 1 .. Len(s) PROVE s[i].last < r.first
            <4>1. s \in Seq(Spans(Len(b)))
                BY <1>13 DEF WellSent
            <4>2. s[i] \in Spans(Len(b))
                BY <4>1
            <4>3. PICK l \in 1 .. Len(b) : l = s[i].last
                BY <4>2 DEF Spans
            <4>4. l < Len(b) + 1
                BY <1>6
            <4>. QED
                BY <3>2, <4>3, <4>4
        <3>6. v.sent = Append(s, r)
            BY <1>12, <2>3, <3>1
        <3>7. WellSent(e, Append(s, r))
            <4>1. IsMessage(Codec, e, r.first, r.last + 1 - r.first)
                BY <1>16, <2>3, <3>2, <3>4
            <4>2. proto = "infinova_d" => /\ Holds(e, H1.octets, r.first - 1 - 24)
                                          /\ Holds(e, H2.octets, r.first - 1 - 12)
                BY <1>16, <2>3, <3>4
            <4>. QED
                BY <1>13, <3>4, <3>5, <4>1, <4>2, WellSentAppend
        <3>8. PICK t : t = Append(s, r)
            OBVIOUS
        <3>9. /\ Len(t) = Len(s) + 1 /\ t[Len(s) + 1] = r
              /\ \A i \in 1 .. Len(s) : t[i] = s[i]
            <4>1. r \in [first : Nat, last : Nat]
                BY <1>6, <3>1
            <4>. QED
                BY <3>8, <4>1, AppendProperties
        <3>10. LaterSent(t, sent, Len(bytes))
            <4>1. Len(sent) \in Nat /\ Len(s) \in Nat /\ Len(sent) <= Len(s)
                BY <2>1 DEF LaterSent
            <4>2. \A i \in 1 .. Len(sent) : t[i] = sent[i]
                <5>1. ASSUME NEW i \in 1 .. Len(sent) PROVE t[i] = sent[i]
                    <6>1. i \in 1 .. Len(s)
                        BY <4>1
                    <6>2. s[i] = sent[i]
                        BY <2>1, <5>1 DEF LaterSent
                    <6>. QED
                        BY <3>9, <6>1, <6>2
                <5>. QED
                    BY <5>1
            <4>3. ASSUME NEW i \in 1 .. Len(t), i > Len(sent)
                  PROVE  t[i].first > Len(bytes)
                <5>1. CASE i \in 1 .. Len(s)
                    BY <2>1, <3>9, <4>3, <5>1 DEF LaterSent
                <5>2. CASE i \notin 1 .. Len(s)
                    <6>1. i = Len(s) + 1
                        BY <3>9, <4>1, <5>2, SMTT(30)
                    <6>2. Len(b) + 1 > Len(bytes)
                        BY <1>6, <2>1
                    <6>. QED
                        BY <3>2, <3>9, <6>1, <6>2
                <5>. QED
                    BY <5>1, <5>2
            <4>4. Len(sent) <= Len(t)
                BY <3>9, <4>1
            <4>. QED
                BY <4>2, <4>3, <4>4 DEF LaterSent
        <3>. QED
            BY <3>6, <3>7, <3>8, <3>10
    <2>. QED
        BY <2>2, <2>3
<1>18. ASSUME WithAuthentication(ps)
       PROVE  /\ k = 1 => Len(e) = Len(bytes) + 12
              /\ Holds(e, A1.octets, Len(bytes))
              /\ k > 1 => Holds(e, A2.octets, Len(bytes) + 12)
    <2>1. /\ A1.octets \in Seq(Octets) /\ A2.octets \in Seq(Octets)
          /\ Len(A1.octets) = 12 /\ Len(A2.octets) = 66
        BY HeadersAre DEF PieceSet, Octets
    <2>2. CASE k = 1
        <3>1. o = A1.octets /\ Len(b) = Len(bytes)
            BY <1>1, <1>3, <1>4, <1>18, <2>2 DEF WithAuthentication, WrittenOf
        <3>2. Len(e) = Len(bytes) + 12
            BY <1>6, <2>1, <3>1
        <3>3. Holds(e, A1.octets, Len(bytes))
            BY <1>9, <3>1
        <3>. QED
            BY <2>2, <3>2, <3>3
    <2>3. CASE k = 2
        <3>1. o = A2.octets /\ Len(b) = Len(bytes) + 12 /\ Holds(b, A1.octets, Len(bytes))
            BY <1>1, <1>3, <1>4, <1>18, <2>3 DEF WithAuthentication, WrittenOf
        <3>2. Holds(e, A1.octets, Len(bytes))
            BY <1>8, <2>1, <3>1, HoldsLonger
        <3>. QED
            BY <1>9, <2>3, <3>1, <3>2
    <2>4. CASE k > 2
        <3>1. Holds(b, A1.octets, Len(bytes)) /\ Holds(b, A2.octets, Len(bytes) + 12)
            BY <1>1, <1>2, <1>18, <2>4 DEF WrittenOf
        <3>. QED
            BY <1>8, <2>1, <2>4, <3>1, HoldsLonger
    <2>. QED
        BY <1>2, <2>2, <2>3, <2>4
<1>19. Holds(v.bytes, ps[k].octets, Len(v.bytes) - Len(ps[k].octets))
    BY <1>3, <1>4, <1>9, <1>12, <1>15
<1>20. k > 1 => Holds(v.bytes, ps[k - 1].octets,
                      Len(v.bytes) - Len(ps[k].octets) - Len(ps[k - 1].octets))
    BY <1>3, <1>4, <1>12, <1>14
<1>21. k # 0 /\ k > 0
    BY <1>2
<1>22. Longer(v.bytes, bytes)
    BY <1>10, <1>12
<1>23. WellSent(v.bytes, v.sent) /\ LaterSent(v.sent, sent, Len(bytes))
    BY <1>12, <1>17
<1>24. WithAuthentication(ps) =>
          /\ k = 1 => Len(v.bytes) = Len(bytes) + 12
          /\ Holds(v.bytes, A1.octets, Len(bytes))
          /\ k > 1 => Holds(v.bytes, A2.octets, Len(bytes) + 12)
    BY <1>12, <1>18
<1>25. WrittenOf(ps, v, k)
    BY <1>19, <1>20, <1>21, <1>22, <1>23, <1>24 DEF WrittenOf
<1>. QED
    BY <1>11, <1>25

\* What is written goes on from what there is, and is well sent.
LEMMA WrittenWell ==
    ASSUME bytes \in Seq(Octets), WellSent(bytes, sent), NEW ps, UnderHeaders(ps),
           NEW w, w = Written(ps)
    PROVE  /\ w.bytes \in Seq(Octets) /\ Longer(w.bytes, bytes)
           /\ WellSent(w.bytes, w.sent) /\ LaterSent(w.sent, sent, Len(bytes))
           /\ WithAuthentication(ps) => /\ Holds(w.bytes, A1.octets, Len(bytes))
                                        /\ Holds(w.bytes, A2.octets, Len(bytes) + 12)
<1>1. sent \in Seq([first : Nat, last : Nat])
    <2>1. sent \in Seq(Spans(Len(bytes)))
        BY DEF WellSent
    <2>2. PICK A, B : A = Spans(Len(bytes)) /\ B = [first : Nat, last : Nat]
        OBVIOUS
    <2>3. A \subseteq B
        BY <2>2 DEF Spans
    <2>4. sent \in Seq(A)
        BY <2>1, <2>2
    <2>5. sent \in Seq(B)
        BY <2>3, <2>4
    <2>. QED
        BY <2>2, <2>5
<1>2. Written0 \in WriteStates
    BY <1>1 DEF Written0, WriteStates
<1>3. ps \in Seq(PieceSet)
    BY DEF UnderHeaders
<1>4. PICK f \in [0 .. Len(ps) -> WriteStates] :
              /\ f[0] = Written0 /\ Written(ps) = f[Len(ps)]
              /\ \A k \in 1 .. Len(ps) : f[k] = With(f[k - 1], ps[k])
    BY <1>2, <1>3, WrittenIs
<1>5. PICK n \in Nat : n = Len(ps)
    BY <1>3
<1>6. PICK P : P = {k \in 0 .. n : WrittenOf(ps, f[k], k)}
    OBVIOUS
<1>7. 0 \in P
    <2>1. f[0].bytes = bytes /\ f[0].sent = sent
        BY <1>4 DEF Written0
    <2>2. Longer(bytes, bytes) /\ LaterSent(sent, sent, Len(bytes))
        <3>1. Len(bytes) \in Nat /\ Len(sent) \in Nat
            BY <1>1
        <3>. QED
            BY <3>1 DEF Longer, LaterSent
    <2>3. WrittenOf(ps, f[0], 0)
        BY <2>1, <2>2 DEF WrittenOf
    <2>. QED
        BY <1>6, <2>3
<1>8. ASSUME NEW k \in 1 .. n, k - 1 \in P
      PROVE  k \in P
    <2>1. f[k - 1] \in WriteStates /\ WrittenOf(ps, f[k - 1], k - 1)
        BY <1>5, <1>6, <1>8
    <2>2. WrittenOf(ps, With(f[k - 1], ps[k]), k)
        BY <1>1, <1>5, <2>1, WithWrites
    <2>. QED
        BY <1>4, <1>5, <1>6, <2>2
<1>9. \A k \in 0 .. n : k \in P
    BY <1>7, <1>8, Induction
<1>10. n \in P
    BY <1>9
<1>11. w \in WriteStates /\ WrittenOf(ps, w, n)
    BY <1>4, <1>5, <1>6, <1>10
<1>12. WithAuthentication(ps) => n > 1 /\ n > 0
    BY <1>5 DEF WithAuthentication
<1>. QED
    BY <1>11, <1>12 DEF WrittenOf, WriteStates

-----------------------------------------------------------------------------
(* The line.                                                                *)

Sorted(l) == \A i, j \in 1 .. Len(l) : i < j => l[i] < l[j]

OnLine(l, i) == \E j \in 1 .. Len(l) : l[j] = i

\* Of the bytes up to n, those that are not lost and not on the line are before it.
Ahead(l, n, h) ==
    \A i \in 1 .. n : i \in h \/ OnLine(l, i) \/ \A j \in 1 .. Len(l) : i < l[j]

Line(l, n, h) == l \in Seq(1 .. n) /\ Sorted(l) /\ Ahead(l, n, h)

AllOn(l, a, b) == \A i \in a .. b : OnLine(l, i)

At(l, p, x) == p \in 1 .. Len(l) /\ l[p] = x

\* Bytes that are all on the line follow one another.
LEMMA Contiguous ==
    ASSUME NEW l \in Seq(Nat), Sorted(l), NEW a \in Nat, NEW b \in Nat, a <= b,
           AllOn(l, a, b), NEW p \in Nat, At(l, p, a),
           NEW j \in Nat, j <= b - a, NEW q \in Nat, q = p + j, NEW x \in Nat, x = a + j
    PROVE  At(l, q, x)
<1>1. PICK n \in Nat : n = b - a
    OBVIOUS
<1>2. PICK P : P = {i \in 0 .. n : p + i \in 1 .. Len(l) /\ l[p + i] = a + i}
    OBVIOUS
<1>3. 0 \in P
    <2>1. p + 0 = p /\ a + 0 = a
        OBVIOUS
    <2>. QED
        BY <1>2, <2>1 DEF At
<1>4. ASSUME NEW i \in 1 .. n, i - 1 \in P
      PROVE  i \in P
    <2>1. p + (i - 1) \in 1 .. Len(l) /\ l[p + (i - 1)] = a + (i - 1)
        BY <1>2, <1>4
    <2>2. a + i \in a .. b
        BY <1>1
    <2>3. PICK g \in 1 .. Len(l) : l[g] = a + i
        BY <2>2 DEF AllOn, OnLine
    <2>4. PICK m \in 1 .. Len(l) : m = p + (i - 1)
        BY <2>1
    <2>5. l[m] = a + (i - 1) /\ p + i = m + 1
        BY <2>1, <2>4
    <2>6. m < g
        <3>1. ASSUME g < m PROVE FALSE
            <4>1. l[g] < l[m]
                BY <3>1 DEF Sorted
            <4>. QED
                BY <2>3, <2>5, <4>1
        <3>2. g # m
            BY <2>3, <2>5
        <3>. QED
            BY <3>1, <3>2
    <2>7. ~(m + 1 < g)
        <3>1. ASSUME m + 1 < g PROVE FALSE
            <4>1. m + 1 \in 1 .. Len(l) /\ m < m + 1
                BY <3>1
            <4>2. l[m] < l[m + 1] /\ l[m + 1] < l[g]
                BY <3>1, <4>1 DEF Sorted
            <4>3. PICK y \in Nat : y = l[m + 1]
                BY <4>1
            <4>. QED
                BY <2>3, <2>5, <4>2, <4>3
        <3>. QED
            BY <3>1
    <2>8. g = m + 1
        BY <2>6, <2>7
    <2>. QED
        BY <1>2, <2>3, <2>5, <2>8
<1>5. \A i \in 0 .. n : i \in P
    BY <1>3, <1>4, Induction
<1>6. j \in P
    BY <1>1, <1>5
<1>. QED
    BY <1>2, <1>6 DEF At

\* n bytes of the line, from the one at i on, and the line without them.
Burst(l, i, n) == {l[j] : j \in i .. i + n - 1}

Without(l, i, n) == [j \in 1 .. Len(l) - n |-> IF j < i THEN l[j] ELSE l[j + n]]

Lessened(l, t, m, g, n) ==
    /\ Line(t, m, g) /\ Len(t) = Len(l) - n
    /\ \A x \in 1 .. m : OnLine(l, x) => x \in g \/ OnLine(t, x)

\* What is lost of the line is hurt.
LEMMA LineLoses ==
    ASSUME NEW m \in Nat, NEW h, NEW l, Line(l, m, h), NEW i \in 1 .. Len(l), NEW n \in Nat,
           i + n - 1 <= Len(l), NEW t, t = Without(l, i, n),
           NEW g, g = h \cup Burst(l, i, n)
    PROVE  Lessened(l, t, m, g, n)
<1>1. l \in Seq(1 .. m) /\ Len(l) \in Nat
    BY DEF Line
<1>2. PICK k \in Nat : k = Len(l) - n
    BY <1>1
<1>3. \A j \in 1 .. k : (j < i => j \in 1 .. Len(l)) /\ (~(j < i) => j + n \in 1 .. Len(l))
    BY <1>1, <1>2
<1>4. \A j \in 1 .. k : t[j] = IF j < i THEN l[j] ELSE l[j + n]
    BY <1>2 DEF Without
<1>5. t \in Seq(1 .. m) /\ Len(t) = k
    <2>1. ASSUME NEW j \in 1 .. k PROVE t[j] \in 1 .. m
        <3>1. CASE j < i
            BY <1>1, <1>3, <1>4, <3>1, SMTT(30)
        <3>2. CASE ~(j < i)
            <4>1. PICK q \in 1 .. Len(l) : q = j + n
                BY <1>3, <3>2
            <4>2. l[q] \in 1 .. m
                BY <1>1
            <4>. QED
                BY <1>4, <3>2, <4>1, <4>2
        <3>. QED
            BY <3>1, <3>2
    <2>2. PICK f : f = [j \in 1 .. k |-> t[j]]
        OBVIOUS
    <2>3. f = t
        BY <1>2, <2>2 DEF Without
    <2>4. PICK S : S = 1 .. m
        OBVIOUS
    <2>5. f \in [1 .. k -> S]
        BY <2>1, <2>2, <2>4
    <2>6. f \in Seq(S)
        BY <2>5, SeqDef
    <2>7. Len(f) = k
        BY <2>2
    <2>. QED
        BY <2>3, <2>4, <2>6, <2>7
<1>6. Sorted(t)
    <2>1. ASSUME NEW a \in 1 .. k, NEW b \in 1 .. k, a < b PROVE t[a] < t[b]
        <3>1. CASE a < i /\ b < i
            BY <1>3, <1>4, <2>1, <3>1 DEF Line, Sorted
        <3>2. CASE a < i /\ ~(b < i)
            <4>1. a < b + n /\ a \in 1 .. Len(l) /\ b + n \in 1 .. Len(l)
                BY <1>3, <2>1, <3>2
            <4>2. l[a] < l[b + n]
                BY <4>1 DEF Line, Sorted
            <4>. QED
                BY <1>4, <3>2, <4>2
        <3>3. CASE ~(a < i)
            <4>1. a + n < b + n /\ ~(b < i)
                BY <2>1, <3>3
            <4>2. a + n \in 1 .. Len(l) /\ b + n \in 1 .. Len(l)
                BY <1>3, <3>3, <4>1
            <4>3. l[a + n] < l[b + n]
                BY <4>1, <4>2 DEF Line, Sorted
            <4>. QED
                BY <1>4, <3>3, <4>1, <4>3
        <3>. QED
            BY <2>1, <3>1, <3>2, <3>3
    <2>. QED
        BY <1>5, <2>1 DEF Sorted
<1>7. ASSUME NEW x \in 1 .. m, OnLine(l, x)
      PROVE  x \in g \/ OnLine(t, x)
    <2>1. PICK j \in 1 .. Len(l) : l[j] = x
        BY <1>7 DEF OnLine
    <2>2. CASE j < i
        <3>1. j \in 1 .. k /\ t[j] = x
            <4>1. j \in 1 .. k
                BY <1>1, <1>2, <2>2
            <4>. QED
                BY <1>4, <2>1, <2>2, <4>1
        <3>. QED
            BY <1>5, <3>1 DEF OnLine
    <2>3. CASE j \in i .. i + n - 1
        BY <2>1, <2>3 DEF Burst
    <2>4. CASE j > i + n - 1
        <3>1. j - n \in 1 .. k /\ ~(j - n < i) /\ (j - n) + n = j
            BY <1>1, <1>2, <2>4
        <3>2. t[j - n] = x
            BY <1>4, <2>1, <3>1
        <3>. QED
            BY <1>5, <3>1, <3>2 DEF OnLine
    <2>. QED
        BY <1>1, <2>2, <2>3, <2>4
<1>8. Ahead(t, m, g)
    <2>1. ASSUME NEW x \in 1 .. m
          PROVE  x \in g \/ OnLine(t, x) \/ \A j \in 1 .. Len(t) : x < t[j]
        <3>1. CASE x \in h \/ OnLine(l, x)
            BY <1>7, <3>1
        <3>2. CASE \A j \in 1 .. Len(l) : x < l[j]
            <4>1. \A j \in 1 .. k : x < t[j]
                BY <1>3, <1>4, <3>2
            <4>. QED
                BY <1>5, <4>1
        <3>. QED
            BY <3>1, <3>2 DEF Line, Ahead
    <2>. QED
        BY <2>1 DEF Ahead
<1>. QED
    BY <1>2, <1>5, <1>6, <1>7, <1>8 DEF Line, Lessened

Shortened(l, t, n, m, h) ==
    /\ Line(t, m, h) /\ Len(t) = Len(l) - n
    /\ \A j \in 1 .. Len(l) : j > n => OnLine(t, l[j])

\* The line without its first n bytes.
LEMMA LineConsumed ==
    ASSUME NEW m \in Nat, NEW h, NEW l, Line(l, m, h), NEW n \in 0 .. Len(l),
           NEW t, t = SubSeq(l, n + 1, Len(l))
    PROVE  Shortened(l, t, n, m, h)
<1>1. l \in Seq(1 .. m) /\ Len(l) \in Nat
    BY DEF Line
<1>2. n \in Nat /\ \E k \in Nat : k = Len(l) - n
    <2>1. PICK q \in Nat : q = Len(l)
        BY <1>1
    <2>2. n \in 0 .. q
        BY <2>1
    <2>3. n \in Nat /\ q - n \in Nat
        BY <2>2
    <2>. QED
        BY <2>1, <2>3
<1> PICK k \in Nat : k = Len(l) - n
    BY <1>2
<1>3. t \in Seq(1 .. m) /\ Len(t) = k /\ \A j \in 1 .. k : t[j] = l[n + j]
    <2>1. \A j \in n + 1 .. Len(l) : l[j] \in 1 .. m
        BY <1>1
    <2>2. n + 1 \in Int /\ Len(l) \in Int
        BY <1>1
    <2>3. /\ t \in Seq(1 .. m) /\ Len(t) = IF n + 1 <= Len(l) THEN Len(l) - (n + 1) + 1 ELSE 0
          /\ \A j \in 1 .. Len(l) - (n + 1) + 1 : t[j] = l[(n + 1) + j - 1]
        BY <2>1, <2>2, SubSeqProperties
    <2>4. /\ Len(l) - (n + 1) + 1 = k /\ (n + 1 <= Len(l) \/ k = 0)
          /\ \A j \in 1 .. k : (n + 1) + j - 1 = n + j
        BY <1>1, <1>2
    <2>. QED
        BY <2>3, <2>4
<1>4. \A j \in 1 .. k : n + j \in 1 .. Len(l)
    BY <1>1, <1>2
<1>5. Sorted(t)
    <2>1. ASSUME NEW a \in 1 .. k, NEW b \in 1 .. k, a < b PROVE t[a] < t[b]
        <3>1. n + a < n + b /\ n + a \in 1 .. Len(l) /\ n + b \in 1 .. Len(l)
            BY <1>4, <2>1
        <3>2. l[n + a] < l[n + b]
            BY <3>1 DEF Line, Sorted
        <3>. QED
            BY <1>3, <3>2
    <2>. QED
        BY <1>3, <2>1 DEF Sorted
<1>6. ASSUME NEW j \in 1 .. Len(l), j > n
      PROVE  OnLine(t, l[j])
    <2>1. j - n \in 1 .. k /\ n + (j - n) = j
        BY <1>1, <1>2, <1>6
    <2>2. t[j - n] = l[j]
        BY <1>3, <2>1
    <2>. QED
        BY <1>3, <2>1, <2>2 DEF OnLine
<1>7. Ahead(t, m, h)
    <2>1. ASSUME NEW x \in 1 .. m, x \notin h, ~OnLine(t, x), NEW j \in 1 .. k
          PROVE  x < t[j]
        <3>1. t[j] = l[n + j] /\ n + j \in 1 .. Len(l)
            BY <1>3, <1>4
        <3>2. CASE OnLine(l, x)
            <4>1. PICK i \in 1 .. Len(l) : l[i] = x
                BY <3>2 DEF OnLine
            <4>2. ~(i > n)
                BY <1>6, <2>1, <4>1
            <4>3. i < n + j
                BY <1>1, <4>2
            <4>4. l[i] < l[n + j]
                BY <3>1, <4>3 DEF Line, Sorted
            <4>. QED
                BY <3>1, <4>1, <4>4
        <3>3. CASE ~OnLine(l, x)
            BY <2>1, <3>1, <3>3 DEF Line, Ahead
        <3>. QED
            BY <3>2, <3>3
    <2>. QED
        BY <1>3, <2>1 DEF Ahead
<1>. QED
    BY <1>2, <1>3, <1>5, <1>6, <1>7 DEF Line, Shortened

Numbers(n, m) == [j \in 1 .. m - n |-> n + j]

Grown(l, t, n, m, h) ==
    /\ Line(t, m, h) /\ Len(t) = Len(l) + (m - n)
    /\ \A x \in 1 .. n : OnLine(l, x) => OnLine(t, x)
    /\ \A x \in n + 1 .. m : OnLine(t, x)

\* The line with the bytes behind n, up to m.
LEMMA LineGrows ==
    ASSUME NEW n \in Nat, NEW m \in Nat, n <= m, NEW h, NEW l, Line(l, n, h),
           NEW t, t = l \o Numbers(n, m)
    PROVE  Grown(l, t, n, m, h)
<1>1. l \in Seq(1 .. n) /\ Len(l) \in Nat
    BY DEF Line
<1>2. PICK k \in Nat : k = m - n
    OBVIOUS
<1>3. PICK u : u = [j \in 1 .. k |-> n + j] /\ u = Numbers(n, m)
    BY <1>2 DEF Numbers
<1>4. u \in Seq(1 .. m) /\ Len(u) = k /\ \A j \in 1 .. k : u[j] = n + j
    <2>1. \A j \in 1 .. k : n + j \in 1 .. m
        BY <1>2
    <2>. QED
        BY <1>3, <2>1
<1>5. l \in Seq(1 .. m)
    <2>1. 1 .. n \subseteq 1 .. m
        OBVIOUS
    <2>. QED
        BY <1>1, <2>1
<1>6. t = l \o u
    BY <1>2, <1>3
<1>7. /\ t \in Seq(1 .. m) /\ Len(t) = Len(l) + Len(u)
      /\ \A i \in 1 .. Len(l) + Len(u) : t[i] = IF i <= Len(l) THEN l[i] ELSE u[i - Len(l)]
    <2>1. PICK S : S = 1 .. m
        OBVIOUS
    <2>2. l \in Seq(S) /\ u \in Seq(S)
        BY <1>4, <1>5, <2>1
    <2>3. /\ t \in Seq(S) /\ Len(t) = Len(l) + Len(u)
          /\ \A i \in 1 .. Len(l) + Len(u) : t[i] = IF i <= Len(l) THEN l[i] ELSE u[i - Len(l)]
        BY <1>6, <2>2, ConcatProperties
    <2>. QED
        BY <2>1, <2>3
<1>8. Len(t) = Len(l) + k
    BY <1>4, <1>7
<1>9. ASSUME NEW i \in 1 .. Len(l)
      PROVE  i \in 1 .. Len(t) /\ t[i] = l[i] /\ t[i] \in 1 .. n
    <2>1. i \in 1 .. Len(l) + Len(u) /\ i <= Len(l) /\ i \in 1 .. Len(t)
        BY <1>1, <1>4, <1>8
    <2>. QED
        BY <1>1, <1>7, <2>1
<1>10. ASSUME NEW i \in 1 .. Len(t), i > Len(l)
       PROVE  t[i] = n + (i - Len(l)) /\ t[i] > n
    <2>1. i \in 1 .. Len(l) + Len(u) /\ ~(i <= Len(l)) /\ i - Len(l) \in 1 .. k
        BY <1>1, <1>4, <1>8, <1>10
    <2>2. t[i] = n + (i - Len(l))
        BY <1>4, <1>7, <2>1
    <2>. QED
        BY <2>1, <2>2
<1>11. Sorted(t)
    <2>1. ASSUME NEW a \in 1 .. Len(t), NEW b \in 1 .. Len(t), a < b PROVE t[a] < t[b]
        <3>1. CASE b <= Len(l)
            <4>1. a \in 1 .. Len(l) /\ b \in 1 .. Len(l)
                BY <1>1, <2>1, <3>1
            <4>2. l[a] < l[b]
                BY <2>1, <4>1 DEF Line, Sorted
            <4>. QED
                BY <1>9, <4>1, <4>2
        <3>2. CASE a <= Len(l) /\ b > Len(l)
            <4>1. t[a] \in 1 .. n /\ t[b] > n
                BY <1>1, <1>9, <1>10, <3>2
            <4>2. t[b] \in 1 .. m
                BY <1>7, SMTT(30)
            <4>. QED
                BY <4>1, <4>2
        <3>3. CASE a > Len(l)
            <4>1. b > Len(l)
                BY <1>1, <2>1, <3>3
            <4>2. t[a] = n + (a - Len(l)) /\ t[b] = n + (b - Len(l))
                BY <1>10, <3>3, <4>1
            <4>. QED
                BY <1>1, <2>1, <4>2
        <3>. QED
            BY <1>1, <3>1, <3>2, <3>3
    <2>. QED
        BY <2>1 DEF Sorted
<1>12. \A x \in 1 .. n : OnLine(l, x) => OnLine(t, x)
    BY <1>9 DEF OnLine
<1>13. ASSUME NEW x \in n + 1 .. m
       PROVE  OnLine(t, x)
    <2>1. PICK i \in 1 .. Len(t) : i = Len(l) + (x - n)
        <3>1. PICK q \in Nat : q = Len(l)
            BY <1>1
        <3>2. Len(t) = q + (m - n)
            BY <1>2, <1>8, <3>1
        <3>3. q + (x - n) \in 1 .. q + (m - n)
            OBVIOUS
        <3>. QED
            BY <3>1, <3>2, <3>3
    <2>2. i > Len(l) /\ n + (i - Len(l)) = x
        BY <1>1, <2>1
    <2>3. t[i] = x
        BY <1>10, <2>2
    <2>. QED
        BY <2>3 DEF OnLine
<1>14. Ahead(t, m, h)
    <2>1. ASSUME NEW x \in 1 .. m, x \notin h, ~OnLine(t, x), NEW j \in 1 .. Len(t)
          PROVE  x < t[j]
        <3>1. x \in 1 .. n
            BY <1>13, <2>1
        <3>2. CASE j \in 1 .. Len(l)
            <4>1. ~OnLine(l, x)
                BY <1>12, <2>1, <3>1
            <4>2. x < l[j]
                BY <2>1, <3>1, <3>2, <4>1 DEF Line, Ahead
            <4>. QED
                BY <1>9, <3>2, <4>2
        <3>3. CASE j \notin 1 .. Len(l)
            <4>1. t[j] > n
                BY <1>1, <1>10, <3>3
            <4>2. t[j] \in 1 .. m
                BY <1>7
            <4>. QED
                BY <3>1, <4>1, <4>2
        <3>. QED
            BY <3>2, <3>3
    <2>. QED
        BY <2>1 DEF Ahead
<1>. QED
    BY <1>2, <1>7, <1>8, <1>11, <1>12, <1>13, <1>14 DEF Line, Grown

-----------------------------------------------------------------------------
(* The inductive invariant.                                                 *)

\* The bytes before message k that a message could reach over.
Reach(s, k) == {i \in 1 .. s[k].first - 1 : i > s[k].first - MaxSize}

\* Message k, and what is before it, lost nothing and has no stray start.
CleanIn(b, s, h, k) ==
    /\ (Reach(s, k) \cup (s[k].first .. s[k].last)) \cap h = {}
    /\ \A i \in Reach(s, k) : IsStart(b[i]) => \E m \in 1 .. Len(s) : s[m].first = i

\* Message k is decoded, or on the line.
SafeIn(l, s, o, k) == k \in o \/ \A i \in s[k].first .. s[k].last : OnLine(l, i)

ResyncIn(b, s, h, l, o) == \A k \in 1 .. Len(s) : CleanIn(b, s, h, k) => SafeIn(l, s, o, k)

AuthenticatedIn(b, f) ==
    proto = "infinova_d" /\ Len(b) > f => Holds(b, A1.octets, f) /\ Holds(b, A2.octets, f + 12)

\* The state of a line, a writer and a reader that were not confused.
Sound(b, s, l, h, o, f, up) ==
    /\ b \in Seq(Octets) /\ f \in 0 .. Len(b) /\ h \subseteq 1 .. Len(b)
    /\ o \subseteq 1 .. Len(s)
    /\ WellSent(b, s) /\ Line(l, Len(b), h) /\ ResyncIn(b, s, h, l, o)
    /\ AuthenticatedIn(b, f)
    /\ Len(b) = f => ~up /\ l = << >>

Inv ==
    /\ proto \in Protocols /\ open \in BOOLEAN /\ reading \in BOOLEAN
    /\ got \in 0 .. Len(line)
    /\ Sound(bytes, sent, line, hurt, own, fresh, open)

LEMMA Prime ==
    ASSUME proto' = proto, Inv, open' \in BOOLEAN, reading' \in BOOLEAN,
           got' \in 0 .. Len(line'),
           Sound(bytes', sent', line', hurt', own', fresh', open')
    PROVE  Inv'
<1>1. Codec' = Codec /\ MaxSize' = MaxSize /\ \A v : IsStart(v)' <=> IsStart(v)
    BY DEF Codec, MaxSize, IsStart
<1>2. WellSent(bytes, sent)'
    <2>1. WellSent(bytes', sent')
        BY DEF Sound
    <2>. QED
        BY <1>1, <2>1 DEF WellSent
<1>3. ResyncIn(bytes, sent, hurt, line, own)'
    <2>1. ResyncIn(bytes', sent', hurt', line', own')
        BY DEF Sound
    <2>2. ASSUME NEW k
          PROVE  /\ CleanIn(bytes, sent, hurt, k)' <=> CleanIn(bytes', sent', hurt', k)
                 /\ SafeIn(line, sent, own, k)' <=> SafeIn(line', sent', own', k)
        <3>1. Reach(sent, k)' = Reach(sent', k)
            BY <1>1 DEF Reach
        <3>2. CleanIn(bytes, sent, hurt, k)' <=> CleanIn(bytes', sent', hurt', k)
            BY <1>1, <3>1 DEF CleanIn
        <3>3. SafeIn(line, sent, own, k)' <=> SafeIn(line', sent', own', k)
            BY DEF SafeIn
        <3>. QED
            BY <3>2, <3>3
    <2>. QED
        BY <2>1, <2>2 DEF ResyncIn
<1>4. AuthenticatedIn(bytes, fresh)'
    BY DEF Sound, AuthenticatedIn
<1>5. Sound(bytes, sent, line, hurt, own, fresh, open)'
    BY <1>2, <1>3, <1>4 DEF Sound
<1>. QED
    BY <1>5 DEF Inv

LEMMA InitInv == Init => Inv
<1> SUFFICES ASSUME Init PROVE Inv
    OBVIOUS
<1>1. WellSent(<< >>, << >>)
    BY DEF WellSent
<1>2. Line(<< >>, 0, {})
    BY DEF Line, Sorted, Ahead
<1>3. Sound(<< >>, << >>, << >>, {}, {}, 0, FALSE)
    BY <1>1, <1>2 DEF Sound, ResyncIn, AuthenticatedIn
<1>4. /\ bytes = << >> /\ sent = << >> /\ line = << >> /\ hurt = {} /\ own = {}
      /\ fresh = 0 /\ open = FALSE /\ reading = FALSE /\ proto \in Protocols
    BY DEF Init
<1>5. Sound(bytes, sent, line, hurt, own, fresh, open)
    BY <1>3, <1>4
<1>6. got = 0 /\ Len(line) = 0
    BY <1>4 DEF Init
<1>7. got \in 0 .. Len(line)
    <2>1. 0 \in 0 .. 0
        OBVIOUS
    <2>. QED
        BY <1>6, <2>1
<1>8. open \in BOOLEAN /\ reading \in BOOLEAN
    BY <1>4
<1>. QED
    BY <1>4, <1>5, <1>7, <1>8 DEF Inv

LEMMA SendKeeps ==
    ASSUME Inv, NEW job \in Jobs[Codec], NEW queued \in {0, Len(line) - got},
           Send(job, queued)
    PROVE  Inv'
<1>1. Messages(Codec, job.messages)
    <2>1. PICK c \in Codecs : c = Codec
        BY CodecIs
    <2>2. Jobs[c] = {[receiver |-> r, pkt |-> p, messages |-> Encoded(c, r, p)] :
                        r \in Receivers, p \in Packets}
        BY DEF Jobs, Codecs
    <2>3. PICK r \in Receivers, p \in Packets :
             job = [receiver |-> r, pkt |-> p, messages |-> Encoded(c, r, p)]
        BY <2>1, <2>2
    <2>4. job.messages = Encoded(c, r, p)
        BY <2>3
    <2>. QED
        BY <2>1, <2>4, EncodedIs
<1>2. PICK ps : ps = Pieces(job.messages)
    OBVIOUS
<1>3. PICK room : room = BUFFER_SIZE - queued
    OBVIOUS
<1>4. PICK kept : kept = Appended(ps, room)
    OBVIOUS
<1>5. PICK w : w = Written(kept)
    OBVIOUS
<1>6. /\ bytes' = w.bytes /\ sent' = w.sent
      /\ line' = line \o [j \in 1 .. Len(w.bytes) - Len(bytes) |-> Len(bytes) + j]
      /\ UNCHANGED <<proto, open, got, reading, fresh, hurt, own>>
      /\ open \/ queued = Len(line)
    BY <1>2, <1>3, <1>4, <1>5 DEF Send
<1>7. room \in Int /\ (queued = 0 => room = 256)
    <2>1. line \in Seq(1 .. Len(bytes))
        BY DEF Inv, Sound, Line
    <2>2. PICK n \in Nat : n = Len(line)
        BY <2>1
    <2>3. got \in Int
        BY <2>2 DEF Inv
    <2>4. queued \in Int
        BY <2>2, <2>3
    <2>. QED
        BY <1>3, <2>4, Sizes
<1>8. /\ UnderHeaders(kept)
      /\ WithAuthentication(ps) /\ room >= 78 => WithAuthentication(kept)
    BY <1>1, <1>2, <1>4, <1>7, PiecesAre, AppendedKeeps
<1>9. /\ bytes' \in Seq(Octets) /\ Longer(bytes', bytes)
      /\ WellSent(bytes', sent') /\ LaterSent(sent', sent, Len(bytes))
      /\ WithAuthentication(kept) => /\ Holds(bytes', A1.octets, Len(bytes))
                                     /\ Holds(bytes', A2.octets, Len(bytes) + 12)
    BY <1>5, <1>6, <1>8, WrittenWell DEF Inv, Sound
<1>10. PICK n \in Nat, m \in Nat : n = Len(bytes) /\ m = Len(bytes') /\ n <= m
    BY <1>9 DEF Inv, Sound, Longer
<1>11. /\ Line(line', m, hurt) /\ Len(line') = Len(line) + (m - n)
       /\ \A x \in 1 .. n : OnLine(line, x) => OnLine(line', x)
       /\ \A x \in n + 1 .. m : OnLine(line', x)
    <2>1. Line(line, n, hurt)
        BY <1>10 DEF Inv, Sound
    <2>2. line' = line \o [j \in 1 .. m - n |-> n + j]
        BY <1>6, <1>10
    <2>3. PICK t : t = line'
        OBVIOUS
    <2>4. t = line \o Numbers(n, m)
        BY <2>2, <2>3 DEF Numbers
    <2>5. Grown(line, t, n, m, hurt)
        BY <1>10, <2>1, <2>4, LineGrows
    <2>. QED
        BY <2>3, <2>5 DEF Grown
<1>12. ResyncIn(bytes', sent', hurt, line', own)
    <2>1. ASSUME NEW k \in 1 .. Len(sent'), CleanIn(bytes', sent', hurt, k)
          PROVE  SafeIn(line', sent', own, k)
        <3>1. PICK f \in 1 .. m, l \in 1 .. m : f = sent'[k].first /\ l = sent'[k].last /\ f <= l
            <4>1. sent' \in Seq(Spans(m))
                BY <1>9, <1>10 DEF WellSent
            <4>2. sent'[k] \in Spans(m)
                BY <4>1
            <4>3. sent'[k].first <= sent'[k].last
                BY <1>9 DEF WellSent
            <4>. QED
                BY <4>2, <4>3 DEF Spans
        <3>2. Len(sent) \in Nat /\ Len(sent) <= Len(sent')
            BY <1>9 DEF LaterSent, Inv, Sound, WellSent
        <3>3. CASE k > Len(sent)
            <4>1. f > n
                BY <1>9, <1>10, <3>1, <3>3 DEF LaterSent
            <4>2. \A i \in f .. l : i \in n + 1 .. m
                BY <4>1
            <4>. QED
                BY <1>11, <3>1, <4>2 DEF SafeIn
        <3>4. CASE ~(k > Len(sent))
            <4>1. k \in 1 .. Len(sent)
                BY <3>2, <3>4
            <4>2. sent'[k] = sent[k]
                BY <1>9, <4>1 DEF LaterSent
            <4>3. f \in 1 .. n /\ l \in 1 .. n
                <5>1. sent \in Seq(Spans(n))
                    BY <1>10 DEF Inv, Sound, WellSent
                <5>2. sent[k] \in Spans(n)
                    BY <4>1, <5>1
                <5>. QED
                    BY <3>1, <4>2, <5>2 DEF Spans
            <4>4. Reach(sent', k) = Reach(sent, k) /\ \A i \in Reach(sent, k) : i \in 1 .. n /\ i < f
                BY <3>1, <4>2, <4>3 DEF Reach
            <4>5. ASSUME NEW i \in Reach(sent, k), IsStart(bytes[i])
                  PROVE  \E j \in 1 .. Len(sent) : sent[j].first = i
                <5>1. bytes'[i] = bytes[i]
                    BY <1>9, <1>10, <4>4 DEF Longer
                <5>2. PICK j \in 1 .. Len(sent') : sent'[j].first = i
                    BY <2>1, <4>4, <4>5, <5>1 DEF CleanIn
                <5>3. ~(j > Len(sent))
                    <6>1. ASSUME j > Len(sent) PROVE FALSE
                        <7>1. i > n
                            BY <1>9, <1>10, <5>2, <6>1 DEF LaterSent
                        <7>. QED
                            BY <4>4, <7>1
                    <6>. QED
                        BY <6>1
                <5>4. j \in 1 .. Len(sent)
                    BY <3>2, <5>3
                <5>5. sent'[j] = sent[j]
                    BY <1>9, <5>4 DEF LaterSent
                <5>. QED
                    BY <5>2, <5>4, <5>5
            <4>6. CleanIn(bytes, sent, hurt, k)
                BY <2>1, <4>2, <4>4, <4>5 DEF CleanIn
            <4>7. SafeIn(line, sent, own, k)
                BY <4>1, <4>6 DEF Inv, Sound, ResyncIn
            <4>8. \A i \in f .. l : i \in 1 .. n
                BY <4>3
            <4>. QED
                BY <1>11, <3>1, <4>2, <4>7, <4>8 DEF SafeIn
        <3>. QED
            BY <3>3, <3>4
    <2>. QED
        BY <2>1 DEF ResyncIn
<1>13. fresh \in 0 .. n /\ (n = fresh => ~open /\ line = << >>)
    BY <1>10 DEF Inv, Sound
<1>14. AuthenticatedIn(bytes', fresh)
    <2>1. ASSUME proto = "infinova_d", m > fresh
          PROVE  Holds(bytes', A1.octets, fresh) /\ Holds(bytes', A2.octets, fresh + 12)
        <3>1. CASE n > fresh
            <4>1. Holds(bytes, A1.octets, fresh) /\ Holds(bytes, A2.octets, fresh + 12)
                BY <1>10, <2>1, <3>1 DEF Inv, Sound, AuthenticatedIn
            <4>2. A1.octets \in Seq(Octets) /\ A2.octets \in Seq(Octets) /\ bytes \in Seq(Octets)
                BY HeadersAre DEF PieceSet, Octets, Inv, Sound
            <4>. QED
                BY <1>9, <4>1, <4>2, HoldsLonger
        <3>2. CASE n = fresh
            <4>1. ~open /\ Len(line) = 0
                BY <1>13, <3>2
            <4>2. room >= 78
                BY <1>6, <1>7, <4>1
            <4>3. WithAuthentication(kept)
                BY <1>1, <1>2, <1>8, <2>1, <4>1, <4>2, PiecesAre
            <4>. QED
                BY <1>9, <1>10, <3>2, <4>3
        <3>. QED
            BY <1>13, <3>1, <3>2
    <2>. QED
        BY <1>10, <2>1 DEF AuthenticatedIn
<1>15. m = fresh => ~open /\ line' = << >>
    <2>1. ASSUME m = fresh
          PROVE  ~open /\ line' = << >>
        <3>1. n = fresh /\ m - n = 0
            BY <1>10, <1>13, <2>1
        <3>2. ~open /\ Len(line) = 0
            BY <1>13, <3>1
        <3>3. Len(line') = 0 /\ line' \in Seq(1 .. m)
            BY <1>11, <3>1, <3>2 DEF Line
        <3>. QED
            BY <3>2, <3>3
    <2>. QED
        BY <2>1
<1>16. hurt \subseteq 1 .. m /\ own \subseteq 1 .. Len(sent') /\ fresh \in 0 .. m
    <2>1. /\ hurt \subseteq 1 .. n /\ own \subseteq 1 .. Len(sent)
          /\ Len(sent) \in Nat /\ Len(sent') \in Nat /\ Len(sent) <= Len(sent')
        BY <1>9, <1>10 DEF Inv, Sound, LaterSent, WellSent
    <2>2. 1 .. n \subseteq 1 .. m /\ 1 .. Len(sent) \subseteq 1 .. Len(sent')
        BY <1>10, <2>1
    <2>. QED
        BY <1>10, <1>13, <2>1, <2>2
<1>17. Sound(bytes', sent', line', hurt', own', fresh', open')
    BY <1>6, <1>9, <1>10, <1>11, <1>12, <1>14, <1>15, <1>16 DEF Sound
<1>18. got \in 0 .. Len(line')
    <2>1. line \in Seq(1 .. n) /\ Len(line) \in Nat /\ got \in 0 .. Len(line)
        BY <1>10 DEF Inv, Sound, Line
    <2>. QED
        BY <1>10, <1>11, <2>1
<1>19. proto' = proto /\ open' \in BOOLEAN /\ reading' \in BOOLEAN /\ got' = got
    BY <1>6 DEF Inv
<1>. QED
    BY <1>17, <1>18, <1>19, Prime

-----------------------------------------------------------------------------
(* What begins the line.                                                    *)

Size(k) == sent[k].last + 1 - sent[k].first

\* The whole message m begins the line.
AtHead(m) ==
    /\ m \in 1 .. Len(sent)
    /\ \A j \in 1 .. Size(m) : j \in 1 .. Len(line) /\ line[j] = sent[m].first + j - 1

\* The message behind p - 1 bytes of the line is not reached by what is decoded
\* next, unless it is that.
Behind(k, p) ==
    \/ p > MaxSize
    \/ p > 1 /\ ~IsStart(bytes[line[1]])
    \/ AtHead(k)
    \/ \E m : AtHead(m) /\ Size(m) < p

LEMMA MaxSizes ==
    /\ Codec = "vicon" => MaxSize = 10
    /\ Codec # "vicon" => MaxSize = SIZE[Codec]
    /\ MaxSize \in {7, 8, 10} /\ MaxSize \in Nat
<1>1. Codec \in {"pelco_d", "pelco_p", "vicon"}
    BY CodecIs DEF Codecs
<1>. QED
    BY <1>1, Sizes DEF MaxSize

LEMMA SentIs ==
    ASSUME Inv, NEW k \in 1 .. Len(sent)
    PROVE  /\ sent[k].first \in 1 .. Len(bytes) /\ sent[k].last \in 1 .. Len(bytes)
           /\ sent[k].first <= sent[k].last /\ Size(k) \in Nat /\ Size(k) > 0
           /\ Len(bytes) \in Nat
<1>1. sent \in Seq(Spans(Len(bytes))) /\ sent[k].first <= sent[k].last /\ bytes \in Seq(Octets)
    BY DEF Inv, Sound, WellSent
<1>2. sent[k] \in Spans(Len(bytes))
    BY <1>1
<1>3. PICK n \in Nat : n = Len(bytes)
    BY <1>1
<1>4. PICK f \in 1 .. n, l \in 1 .. n : f = sent[k].first /\ l = sent[k].last
    BY <1>2, <1>3 DEF Spans
<1>5. l + 1 - f \in Nat /\ l + 1 - f > 0
    BY <1>1, <1>4
<1>. QED
    BY <1>1, <1>3, <1>4, <1>5 DEF Size

LEMMA LineIs ==
    ASSUME Inv
    PROVE  /\ line \in Seq(Nat) /\ Len(line) \in Nat /\ Sorted(line)
           /\ \A j \in 1 .. Len(line) : line[j] \in 1 .. Len(bytes)
           /\ Ahead(line, Len(bytes), hurt)
<1>1. line \in Seq(1 .. Len(bytes)) /\ Sorted(line) /\ Ahead(line, Len(bytes), hurt)
    BY DEF Inv, Sound, Line
<1>2. 1 .. Len(bytes) \subseteq Nat
    OBVIOUS
<1>3. line \in Seq(Nat)
    BY <1>1, <1>2
<1>. QED
    BY <1>1, <1>3

\* Bytes on the line that begin it are the message they were written in.
LEMMA HeadFrom ==
    ASSUME Inv, NEW m \in 1 .. Len(sent), Len(line) > 0, line[1] = sent[m].first,
           \A i \in sent[m].first .. sent[m].last : OnLine(line, i)
    PROVE  AtHead(m)
<1>1. PICK f \in Nat, l \in Nat : f = sent[m].first /\ l = sent[m].last /\ f <= l
    <2>1. PICK n \in Nat : n = Len(bytes)
        BY SentIs
    <2>2. sent[m].first \in 1 .. n /\ sent[m].last \in 1 .. n /\ sent[m].first <= sent[m].last
        BY <2>1, SentIs
    <2>. QED
        BY <2>2
<1>2. 1 \in 1 .. Len(line) /\ line \in Seq(Nat) /\ Sorted(line)
    BY LineIs
<1>3. ASSUME NEW j \in 1 .. Size(m)
      PROVE  j \in 1 .. Len(line) /\ line[j] = sent[m].first + j - 1
    <2>1. PICK i \in Nat : i = j - 1 /\ i <= l - f
        BY <1>1, <1>3 DEF Size
    <2>2. AllOn(line, f, l) /\ At(line, 1, f)
        BY <1>1, <1>2 DEF AllOn, At
    <2>3. PICK q \in Nat, x \in Nat : q = 1 + i /\ x = f + i
        OBVIOUS
    <2>4. At(line, q, x)
        BY <1>1, <1>2, <2>1, <2>2, <2>3, Contiguous
    <2>5. q = j /\ x = f + j - 1
        BY <1>1, <2>1, <2>3
    <2>. QED
        BY <1>1, <2>4, <2>5 DEF At
<1>. QED
    BY <1>3 DEF AtHead

LEMMA HeadIs ==
    ASSUME Inv, NEW k \in 1 .. Len(sent), CleanIn(bytes, sent, hurt, k), k \notin own
    PROVE  \E p \in 1 .. Len(line) : line[p] = sent[k].first /\ Behind(k, p)
<1>1. \A i \in sent[k].first .. sent[k].last : OnLine(line, i)
    BY DEF Inv, Sound, ResyncIn, SafeIn
<1>2. PICK n \in Nat : n = Len(bytes)
    BY SentIs
<1>3. PICK f \in 1 .. n, l \in 1 .. n : f = sent[k].first /\ l = sent[k].last /\ f <= l
    BY <1>2, SentIs
<1>4. f \in f .. l
    BY <1>3
<1>5. PICK p \in 1 .. Len(line) : line[p] = f
    BY <1>1, <1>3, <1>4 DEF OnLine
<1>6. line \in Seq(Nat) /\ Len(line) \in Nat /\ Sorted(line)
    BY LineIs
<1>7. 1 \in 1 .. Len(line)
    BY <1>5, <1>6
<1>8. PICK b \in 1 .. n : b = line[1]
    BY <1>2, <1>7, LineIs
<1>9. CASE p = 1
    <2>1. AtHead(k)
        BY <1>1, <1>3, <1>5, <1>6, <1>9, HeadFrom
    <2>. QED
        BY <1>3, <1>5, <2>1 DEF Behind
<1>10. CASE p > 1
    <2>1. b < f
        BY <1>5, <1>6, <1>7, <1>8, <1>10 DEF Sorted
    <2>2. ASSUME NEW i \in Reach(sent, k), i > b
          PROVE  OnLine(line, i)
        <3>1. i \notin hurt
            BY DEF CleanIn
        <3>2. i \in 1 .. n
            BY <1>3 DEF Reach
        <3>3. ~(i < b)
            BY <2>2, <3>2
        <3>. QED
            BY <1>2, <1>7, <1>8, <3>1, <3>2, <3>3, LineIs DEF Ahead
    <2>3. PICK z \in Nat : z = MaxSize /\ z \in {7, 8, 10}
        BY MaxSizes
    <2>4. \A i : i \in Reach(sent, k) <=> i \in 1 .. f - 1 /\ i > f - z
        BY <1>3, <2>3 DEF Reach
    <2>5. CASE b <= f - z
        <3>1. PICK a \in Nat : a = f - z + 1 /\ a > b /\ a <= f
            BY <2>3, <2>5
        <3>2. ASSUME NEW i \in a .. f
              PROVE  OnLine(line, i)
            <4>1. CASE i = f
                BY <1>1, <1>3, <1>4, <4>1
            <4>2. CASE i # f
                <5>1. i \in 1 .. f - 1 /\ i > f - z /\ i > b
                    BY <3>1, <4>2
                <5>. QED
                    BY <2>2, <2>4, <5>1
            <4>. QED
                BY <4>1, <4>2
        <3>3. PICK q \in 1 .. Len(line) : line[q] = a
            <4>1. a \in a .. f
                BY <3>1
            <4>. QED
                BY <3>2, <4>1 DEF OnLine
        <3>4. q > 1
            <4>1. q # 1
                BY <1>8, <3>1, <3>3
            <4>. QED
                BY <4>1
        <3>5. PICK j \in Nat : j = z - 1 /\ j <= f - a
            BY <2>3, <3>1
        <3>6. q + j \in 1 .. Len(line) /\ line[q + j] = a + j
            <4>1. f \in Nat /\ q \in Nat /\ AllOn(line, a, f) /\ At(line, q, a)
                BY <1>3, <1>6, <3>2, <3>3, SMTT(30) DEF AllOn, At
            <4>2. PICK x \in Nat, y \in Nat : x = q + j /\ y = a + j
                BY <4>1
            <4>3. At(line, x, y)
                BY <1>6, <3>1, <3>5, <4>1, <4>2, Contiguous
            <4>. QED
                BY <4>2, <4>3 DEF At
        <3>7. a + j = f
            BY <2>3, <3>1, <3>5
        <3>8. ~(p < q + j)
            <4>1. ASSUME p < q + j PROVE FALSE
                <5>1. line[p] < line[q + j]
                    BY <1>6, <3>6, <4>1 DEF Sorted
                <5>. QED
                    BY <1>5, <3>6, <3>7, <5>1
            <4>. QED
                BY <4>1
        <3>9. p > z
            BY <2>3, <3>4, <3>5, <3>8
        <3>. QED
            BY <1>3, <1>5, <2>3, <3>9 DEF Behind
    <2>6. CASE b > f - z /\ ~IsStart(bytes[line[1]])
        BY <1>3, <1>5, <1>10, <2>6 DEF Behind
    <2>7. CASE b > f - z /\ IsStart(bytes[line[1]])
        <3>1. b \in Reach(sent, k)
            BY <2>1, <2>4, <2>7
        <3>2. PICK m \in 1 .. Len(sent) : sent[m].first = b
            BY <1>8, <2>7, <3>1 DEF CleanIn
        <3>3. PICK e \in 1 .. n : e = sent[m].last /\ b <= e
            BY <1>2, <3>2, SentIs
        <3>4. e < f
            <4>1. m # k
                BY <1>3, <2>1, <3>2
            <4>2. k < m => l < b
                BY <1>3, <3>2 DEF Inv, Sound, WellSent
            <4>3. ~(k < m)
                BY <1>3, <2>1, <4>2
            <4>4. m < k
                BY <4>1, <4>3
            <4>. QED
                BY <1>3, <3>3, <4>4 DEF Inv, Sound, WellSent
        <3>5. ASSUME NEW i \in b .. e
              PROVE  OnLine(line, i)
            <4>1. CASE i = b
                BY <1>7, <1>8, <4>1 DEF OnLine
            <4>2. CASE i # b
                <5>1. i \in 1 .. f - 1 /\ i > f - z /\ i > b
                    BY <2>7, <3>4, <4>2
                <5>. QED
                    BY <2>2, <2>4, <5>1
            <4>. QED
                BY <4>1, <4>2
        <3>6. AtHead(m)
            BY <1>7, <1>8, <3>2, <3>3, <3>5, HeadFrom
        <3>7. Size(m) < p
            <4>1. ASSUME ~(Size(m) < p) PROVE FALSE
                <5>1. Size(m) = e + 1 - b
                    BY <3>2, <3>3 DEF Size
                <5>2. p \in 1 .. Size(m)
                    BY <4>1, <5>1
                <5>3. line[p] = b + p - 1
                    BY <3>2, <3>6, <5>2 DEF AtHead
                <5>4. b + p - 1 <= e
                    BY <5>1, <5>2
                <5>. QED
                    BY <1>5, <3>4, <5>3, <5>4
            <4>. QED
                BY <4>1
        <3>. QED
            BY <1>3, <1>5, <3>6, <3>7 DEF Behind
    <2>. QED
        BY <2>3, <2>5, <2>6, <2>7
<1>. QED
    BY <1>5, <1>9, <1>10

\* A message of the writer has its size and begins with a start octet.
LEMMA MessageIs ==
    ASSUME Inv, NEW k \in 1 .. Len(sent)
    PROVE  /\ IsMessage(Codec, bytes, sent[k].first, Size(k))
           /\ Size(k) \in {6, 7, 8, 10} /\ (Codec # "vicon" => Size(k) = SIZE[Codec])
           /\ Size(k) <= MaxSize
           /\ IsStart(bytes[sent[k].first])
<1>1. PICK c \in Codecs : c = Codec
    BY CodecIs
<1>2. IsMessage(c, bytes, sent[k].first, Size(k))
    BY <1>1 DEF Inv, Sound, WellSent, Size
<1>3. Size(k) \in {6, 7, 8, 10} /\ (c # "vicon" => Size(k) = SIZE[c])
    BY <1>2, MessageSize
<1>4. CASE c = "vicon"
    <2>1. Size(k) = 6 \/ Size(k) = 10
        BY <1>2, <1>4, Sizes DEF IsMessage
    <2>2. bytes[sent[k].first] >= 128
        BY <1>2, <1>4, Sizes DEF IsMessage
    <2>3. Size(k) <= MaxSize
        BY <1>1, <1>4, <2>1, MaxSizes
    <2>. QED
        BY <1>1, <1>2, <1>3, <1>4, <2>2, <2>3, Sizes DEF IsStart
<1>5. CASE c # "vicon"
    <2>1. Size(k) <= MaxSize
        BY <1>1, <1>3, <1>5, MaxSizes
    <2>2. PICK f \in Int : f = sent[k].first /\ f + 0 = f
        BY SentIs
    <2>3. bytes[f] = START[c]
        <3>1. IsFrame(c, [j \in 0 .. SIZE[c] - 1 |-> bytes[f + j]])
            BY <1>2, <1>5, <2>2 DEF IsMessage
        <3>2. 0 \in 0 .. SIZE[c] - 1
            BY <1>5, Sizes DEF Codecs
        <3>. QED
            BY <2>2, <3>1, <3>2 DEF IsFrame
    <2>. QED
        BY <1>1, <1>2, <1>3, <1>5, <2>1, <2>2, <2>3 DEF IsStart
<1>. QED
    BY <1>4, <1>5

\* The reader takes the message that begins the line for what it is.
LEMMA HeadMessage ==
    ASSUME Inv, NEW m, AtHead(m)
    PROVE  /\ Codec # "vicon" =>
                 Size(m) = SIZE[Codec] /\ IsFrame(Codec, Message(SIZE[Codec]))
           /\ Codec = "vicon" =>
                 /\ FirstOctet >= 128 /\ is_command(Message(SIZE_STATUS))
                 /\ CommandSize = Size(m)
<1>1. m \in 1 .. Len(sent)
    BY DEF AtHead
<1>2. PICK c \in Codecs : c = Codec
    BY CodecIs
<1>3. PICK f \in Int, n \in Nat : f = sent[m].first /\ n = Size(m)
    BY <1>1, SentIs
<1>4. n \in {6, 7, 8, 10} /\ (c # "vicon" => n = SIZE[c]) /\ IsMessage(c, bytes, f, n)
    BY <1>1, <1>2, <1>3, MessageIs
<1>5. PICK d : d = [q \in Int |-> bytes[line[q]]]
    OBVIOUS
<1>6. \A j \in 0 .. n - 1 : d[1 + j] = bytes[f + j]
    <2>1. ASSUME NEW j \in 0 .. n - 1 PROVE d[1 + j] = bytes[f + j]
        <3>1. PICK q \in 1 .. n : q = 1 + j
            OBVIOUS
        <3>2. line[q] = f + q - 1 /\ f + q - 1 = f + j
            BY <1>3, <3>1 DEF AtHead
        <3>3. d[q] = bytes[line[q]]
            BY <1>5
        <3>. QED
            BY <3>1, <3>2, <3>3
    <2>. QED
        BY <2>1
<1>7. IsMessage(c, d, 1, n)
    BY <1>4, <1>6, SameMessage
<1>8. ASSUME NEW k \in {2, 7, 8}
      PROVE  [j \in 0 .. k - 1 |-> d[1 + j]] = Message(k)
    <2>1. \A j \in 0 .. k - 1 : d[1 + j] = bytes[line[j + 1]]
        BY <1>5
    <2>. QED
        BY <2>1 DEF Message
<1>9. CASE c # "vicon"
    <2>1. PICK k \in {2, 7, 8} : k = SIZE[c]
        BY <1>9, Sizes DEF Codecs
    <2>2. IsFrame(c, [j \in 0 .. k - 1 |-> d[1 + j]])
        BY <1>7, <1>9, <2>1 DEF IsMessage
    <2>3. IsFrame(c, Message(k))
        BY <1>8, <2>2
    <2>. QED
        BY <1>2, <1>3, <1>4, <1>9, <2>1, <2>3
<1>10. CASE c = "vicon"
    <2>1. PICK k \in {2, 7, 8} : k = SIZE_STATUS
        BY Sizes
    <2>2. PICK a : a = [j \in 0 .. k - 1 |-> d[1 + j]]
        OBVIOUS
    <2>3. /\ d[1] >= VICON_FLAG /\ is_command(a)
          /\ n = IF is_extended_command(a) THEN SIZE_EXTENDED ELSE SIZE_COMMAND
        BY <1>7, <1>10, <2>1, <2>2 DEF IsMessage
    <2>4. a = Message(SIZE_STATUS)
        BY <1>8, <2>1, <2>2
    <2>5. FirstOctet >= 128
        BY <1>5, <2>3, Sizes DEF FirstOctet
    <2>6. CommandSize = Size(m)
        BY <1>3, <2>3, <2>4 DEF CommandSize
    <2>. QED
        BY <1>2, <1>10, <2>3, <2>4, <2>5, <2>6
<1>. QED
    BY <1>9, <1>10

\* What the reader may take from the line: all that is clean and not decoded by
\* this step is behind it.
Spared(n, o) ==
    \A k \in 1 .. Len(sent) :
        CleanIn(bytes, sent, hurt, k) /\ k \notin own =>
            k \in o \/ \E p \in 1 .. Len(line) : line[p] = sent[k].first /\ p > n

LEMMA Consumed ==
    ASSUME Inv, NEW n \in 0 .. Len(line), line' = SubSeq(line, n + 1, Len(line)),
           UNCHANGED <<proto, open, bytes, sent, hurt, fresh>>, reading' \in BOOLEAN,
           got' \in 0 .. Len(line) - n, own \subseteq own', own' \subseteq 1 .. Len(sent),
           Spared(n, own')
    PROVE  Inv'
<1>1. PICK b \in Nat : b = Len(bytes)
    BY DEF Inv, Sound
<1>2. PICK t : t = line'
    OBVIOUS
<1>3. Line(line, b, hurt) /\ line \in Seq(Nat) /\ Len(line) \in Nat
    BY <1>1, LineIs DEF Inv, Sound
<1>4. /\ Line(t, b, hurt) /\ Len(t) = Len(line) - n
      /\ \A j \in 1 .. Len(line) : j > n => OnLine(t, line[j])
    <2>1. Shortened(line, t, n, b, hurt)
        BY <1>2, <1>3, LineConsumed
    <2>. QED
        BY <2>1 DEF Shortened
<1>5. ASSUME NEW k \in 1 .. Len(sent), CleanIn(bytes, sent, hurt, k)
      PROVE  SafeIn(t, sent, own', k)
    <2>1. CASE k \in own'
        BY <2>1 DEF SafeIn
    <2>2. CASE k \notin own'
        <3>1. PICK p \in 1 .. Len(line) : line[p] = sent[k].first /\ p > n
            BY <1>5, <2>2 DEF Spared
        <3>2. \A i \in sent[k].first .. sent[k].last : OnLine(line, i)
            BY <1>5, <2>2 DEF Inv, Sound, ResyncIn, SafeIn
        <3>3. PICK f \in Nat, l \in Nat : f = sent[k].first /\ l = sent[k].last
            BY SentIs
        <3>4. ASSUME NEW i \in f .. l
              PROVE  OnLine(t, i)
            <4>1. PICK j \in 1 .. Len(line) : line[j] = i
                BY <3>2, <3>3 DEF OnLine
            <4>2. ~(j < p)
                <5>1. ASSUME j < p PROVE FALSE
                    <6>1. line[j] < line[p]
                        BY <1>3, <5>1 DEF Line, Sorted
                    <6>. QED
                        BY <3>1, <3>3, <4>1, <6>1
                <5>. QED
                    BY <5>1
            <4>3. j > n
                BY <1>3, <3>1, <4>2
            <4>. QED
                BY <1>4, <4>1, <4>3
        <3>. QED
            BY <3>3, <3>4 DEF SafeIn
    <2>. QED
        BY <2>1, <2>2
<1>6. ResyncIn(bytes, sent, hurt, t, own')
    BY <1>5 DEF ResyncIn
<1>7. b = fresh => ~open /\ t = << >>
    <2>1. ASSUME b = fresh PROVE ~open /\ t = << >>
        <3>1. ~open /\ line = << >>
            BY <1>1, <2>1 DEF Inv, Sound
        <3>2. Len(line) = 0
            BY <3>1
        <3>3. n = 0 /\ t \in Seq(1 .. b)
            BY <1>4, <3>2 DEF Line
        <3>4. Len(t) = 0
            BY <1>4, <3>2, <3>3
        <3>. QED
            BY <3>1, <3>3, <3>4
    <2>. QED
        BY <2>1
<1>8. Sound(bytes, sent, t, hurt, own', fresh, open)
    BY <1>1, <1>4, <1>6, <1>7 DEF Inv, Sound
<1>9. Sound(bytes', sent', line', hurt', own', fresh', open')
    BY <1>2, <1>8
<1>10. got' \in 0 .. Len(line')
    BY <1>2, <1>4
<1>11. proto' = proto /\ open' \in BOOLEAN
    BY DEF Inv
<1>. QED
    BY <1>9, <1>10, <1>11, Prime

-----------------------------------------------------------------------------
(* The reader.                                                              *)

LEMMA StarterIs ==
    ASSUME Codec # "vicon", NEW v
    PROVE  IsStart(v) <=> v = START[Codec]
BY DEF IsStart

LEMMA ViconStarterIs ==
    ASSUME Codec = "vicon", NEW v
    PROVE  IsStart(v) <=> v >= 128
BY Sizes DEF IsStart

\* Some bytes are dropped, and none of a message that is to be decoded.
LEMMA Dropped ==
    ASSUME Inv, NEW n \in Nat, n <= got, Drop(n), Spared(n, own)
    PROVE  Inv'
<1>1. /\ line' = SubSeq(line, n + 1, Len(line)) /\ got' = got - n
      /\ UNCHANGED <<proto, open, bytes, sent, hurt, fresh>>
      /\ reading' = reading /\ own' = own
    BY DEF Drop, Consume, reader_vars
<1>2. PICK q \in Nat : q = Len(line)
    BY LineIs
<1>3. got \in 0 .. q
    BY <1>2 DEF Inv
<1>4. n \in 0 .. Len(line) /\ got' \in 0 .. Len(line) - n
    BY <1>1, <1>2, <1>3
<1>5. reading' \in BOOLEAN /\ own' \subseteq 1 .. Len(sent) /\ own \subseteq own'
    BY <1>1 DEF Inv, Sound
<1>6. Spared(n, own')
    BY <1>1
<1>. QED
    BY <1>1, <1>4, <1>5, <1>6, Consumed

\* A message is given, and no part of another that is to be decoded.
LEMMA Given ==
    ASSUME Inv, NEW n \in Nat, n <= got, NEW packet, Give(n, packet), Spared(n, own')
    PROVE  Inv'
<1>1. /\ line' = SubSeq(line, n + 1, Len(line)) /\ got' = got - n
      /\ UNCHANGED <<proto, open, bytes, sent, hurt, fresh>> /\ reading' = reading
    BY DEF Give, Consume, reader_vars
<1>2. PICK q \in Nat : q = Len(line)
    BY LineIs
<1>3. got \in 0 .. q
    BY <1>2 DEF Inv
<1>4. n \in 0 .. Len(line) /\ got' \in 0 .. Len(line) - n
    BY <1>1, <1>2, <1>3
<1>5. reading' \in BOOLEAN /\ own' \subseteq 1 .. Len(sent) /\ own \subseteq own'
    BY <1>1 DEF Inv, Sound, Give
<1>. QED
    BY <1>1, <1>4, <1>5, Consumed

\* The message of n bytes that begins the line is decoded from its own bytes.
LEMMA HeadGiven ==
    ASSUME Inv, NEW n \in Nat, NEW packet, Give(n, packet), NEW k, AtHead(k), Size(k) = n
    PROVE  k \in own'
<1>1. k \in 1 .. Len(sent)
    BY DEF AtHead
<1>2. PICK f \in Int, l \in Int : f = sent[k].first /\ l = sent[k].last
    BY <1>1, SentIs
<1>3. l = f + n - 1
    BY <1>2 DEF Size
<1>4. \A j \in 1 .. n : line[j] = sent[k].first + j - 1
    BY DEF AtHead
<1>. QED
    BY <1>1, <1>2, <1>3, <1>4 DEF Give

\* Up to the next start, or all.
LEMMA GarbageIs ==
    ASSUME got \in Nat, got > 0
    PROVE  Garbage \in 1 .. got /\ \A j \in Starts : Garbage < j
<1>1. CASE Starts = {}
    BY <1>1 DEF Garbage
<1>2. CASE Starts # {}
    <2>1. Starts \subseteq Nat /\ \A j \in Starts : j \in 2 .. got
        BY DEF Starts
    <2>2. PICK q \in Starts : \A j \in Starts : ~(<<j, q>> \in OpToRel(<, Nat))
        BY <1>2, <2>1, NatLessThanWellFounded, WFMin
    <2>3. \A j \in Starts : ~(j < q)
        BY <2>1, <2>2 DEF OpToRel
    <2>4. q - 1 \in 1 .. got /\ (q - 1) + 1 = q
        BY <2>1
    <2>5. \A j \in Starts : q - 1 < j
        BY <2>1, <2>3
    <2>6. \E n \in 1 .. got : n + 1 \in Starts /\ \A j \in Starts : n < j
        BY <2>4, <2>5
    <2>. QED
        BY <1>2, <2>6 DEF Garbage
<1>. QED
    BY <1>1, <1>2

LEMMA GotIs ==
    ASSUME Inv
    PROVE  got \in Nat /\ got <= Len(line) /\ Len(line) \in Nat
<1>1. PICK q \in Nat : q = Len(line)
    BY LineIs
<1>2. got \in 0 .. q
    BY <1>1 DEF Inv
<1>. QED
    BY <1>1, <1>2

LEMMA DiscardKeeps ==
    ASSUME Inv, pelco_discard_garbage
    PROVE  Inv'
<1>1. /\ Codec \in Codecs /\ Codec # "vicon" /\ got >= SIZE[Codec]
      /\ ~IsFrame(Codec, Message(SIZE[Codec])) /\ Drop(Garbage)
    BY CodecIs DEF pelco_discard_garbage, pelco_reads
<1>2. got \in Nat /\ got <= Len(line) /\ Len(line) \in Nat
    BY GotIs
<1>3. got > 0
    BY <1>1, <1>2, Sizes DEF Codecs
<1>4. PICK n \in Nat : n = Garbage
    BY <1>2, <1>3, GarbageIs
<1>5. n <= got /\ \A j \in Starts : n < j
    BY <1>2, <1>3, <1>4, GarbageIs
<1>6. ASSUME NEW k \in 1 .. Len(sent), CleanIn(bytes, sent, hurt, k), k \notin own
      PROVE  \E p \in 1 .. Len(line) : line[p] = sent[k].first /\ p > n
    <2>1. PICK p \in 1 .. Len(line) : line[p] = sent[k].first /\ Behind(k, p)
        BY <1>6, HeadIs
    <2>2. CASE p = 1
        <3>1. ~(p > MaxSize) /\ ~(p > 1)
            BY <2>2, MaxSizes
        <3>2. ASSUME NEW m, AtHead(m) PROVE FALSE
            BY <1>1, <3>2, HeadMessage
        <3>. QED
            BY <2>1, <3>1, <3>2 DEF Behind
    <2>3. CASE p # 1 /\ p <= got
        <3>1. IsStart(bytes[line[p]])
            BY <2>1, MessageIs
        <3>2. p \in 2 .. got
            BY <1>2, <2>3
        <3>3. p \in Starts
            BY <1>1, <3>1, <3>2, StarterIs DEF Starts
        <3>4. p > n
            BY <1>5, <3>2, <3>3
        <3>. QED
            BY <2>1, <3>4
    <2>4. CASE p > got
        <3>1. p > n
            BY <1>2, <1>5, <2>4
        <3>. QED
            BY <2>1, <3>1
    <2>. QED
        BY <1>2, <2>2, <2>3, <2>4
<1>7. Spared(n, own)
    BY <1>6 DEF Spared
<1>. QED
    BY <1>1, <1>4, <1>5, <1>7, Dropped

LEMMA DecodeKeeps ==
    ASSUME Inv, pelco_decode_message
    PROVE  Inv'
<1>1. /\ Codec \in Codecs /\ Codec # "vicon" /\ got >= SIZE[Codec]
      /\ IsFrame(Codec, Message(SIZE[Codec]))
      /\ Give(SIZE[Codec], decode(Codec, Deadzone, Message(SIZE[Codec])))
    BY CodecIs DEF pelco_decode_message, pelco_reads
<1>2. PICK n \in Nat : n = SIZE[Codec] /\ n > 0 /\ n = MaxSize
    BY <1>1, Sizes, MaxSizes DEF Codecs
<1>3. PICK packet : packet = decode(Codec, Deadzone, Message(SIZE[Codec]))
    OBVIOUS
<1>4. n <= got /\ Give(n, packet)
    BY <1>1, <1>2, <1>3, GotIs
<1>5. IsStart(bytes[line[1]])
    <2>1. Message(n)[0] = START[Codec]
        BY <1>1, <1>2 DEF IsFrame
    <2>2. 0 \in 0 .. n - 1 /\ 0 + 1 = 1
        BY <1>2
    <2>3. Message(n)[0] = bytes[line[1]]
        BY <2>2 DEF Message
    <2>. QED
        BY <1>1, <2>1, <2>3, StarterIs
<1>6. ASSUME NEW k \in 1 .. Len(sent), CleanIn(bytes, sent, hurt, k), k \notin own
      PROVE  k \in own' \/ \E p \in 1 .. Len(line) : line[p] = sent[k].first /\ p > n
    <2>1. PICK p \in 1 .. Len(line) : line[p] = sent[k].first /\ Behind(k, p)
        BY <1>6, HeadIs
    <2>2. ASSUME NEW m, AtHead(m) PROVE Size(m) = n
        BY <1>1, <1>2, <2>2, HeadMessage
    <2>3. CASE AtHead(k)
        BY <1>4, <2>2, <2>3, HeadGiven
    <2>4. CASE ~AtHead(k)
        <3>1. p > n
            BY <1>2, <1>5, <2>1, <2>2, <2>4 DEF Behind
        <3>. QED
            BY <2>1, <3>1
    <2>. QED
        BY <2>3, <2>4
<1>7. Spared(n, own')
    BY <1>6 DEF Spared
<1>. QED
    BY <1>4, <1>7, Given

LEMMA UnexpectedKeeps ==
    ASSUME Inv, vicon_unexpected_byte
    PROVE  Inv'
<1>1. Codec = "vicon" /\ got >= 2 /\ ~(FirstOctet >= 128) /\ Drop(1)
    <2>1. Codec = "vicon" /\ got >= 2 /\ FirstOctet < 128 /\ Drop(1) /\ got \in Nat
        BY GotIs, Sizes DEF vicon_unexpected_byte, vicon_reads
    <2>2. FirstOctet \in 0 .. 255
        <3>1. Len(line) > 0
            BY <2>1, GotIs
        <3>2. PICK x \in 1 .. Len(bytes) : x = line[1]
            BY <3>1, LineIs
        <3>3. bytes \in Seq(Octets)
            BY DEF Inv, Sound
        <3>4. bytes[x] \in Octets
            BY <3>3
        <3>. QED
            BY <3>2, <3>4 DEF FirstOctet, Octets
    <2>. QED
        BY <2>1, <2>2
<1>2. ASSUME NEW m PROVE ~AtHead(m)
    BY <1>1, HeadMessage
<1>3. ASSUME NEW k \in 1 .. Len(sent), CleanIn(bytes, sent, hurt, k), k \notin own
      PROVE  \E p \in 1 .. Len(line) : line[p] = sent[k].first /\ p > 1
    <2>1. PICK p \in 1 .. Len(line) : line[p] = sent[k].first /\ Behind(k, p)
        BY <1>3, HeadIs
    <2>2. p > 1
        BY <1>1, <1>2, <2>1, MaxSizes DEF Behind
    <2>. QED
        BY <2>1, <2>2
<1>4. Spared(1, own)
    BY <1>3 DEF Spared
<1>5. 1 <= got
    BY <1>1, GotIs
<1>. QED
    BY <1>1, <1>4, <1>5, Dropped

LEMMA StatusKeeps ==
    ASSUME Inv, vicon_decode_status
    PROVE  Inv'
<1>1. /\ Codec = "vicon" /\ got >= 2 /\ FirstOctet >= 128 /\ ~is_command(Message(SIZE_STATUS))
      /\ Drop(2)
    BY Sizes DEF vicon_decode_status, vicon_reads
<1>2. ASSUME NEW m PROVE ~AtHead(m)
    BY <1>1, HeadMessage
<1>3. IsStart(bytes[line[1]])
    BY <1>1, ViconStarterIs DEF FirstOctet
<1>4. ASSUME NEW k \in 1 .. Len(sent), CleanIn(bytes, sent, hurt, k), k \notin own
      PROVE  \E p \in 1 .. Len(line) : line[p] = sent[k].first /\ p > 2
    <2>1. PICK p \in 1 .. Len(line) : line[p] = sent[k].first /\ Behind(k, p)
        BY <1>4, HeadIs
    <2>2. p > 2
        BY <1>1, <1>2, <1>3, <2>1, MaxSizes DEF Behind
    <2>. QED
        BY <2>1, <2>2
<1>5. Spared(2, own)
    BY <1>4 DEF Spared
<1>6. 2 <= got
    BY <1>1, GotIs
<1>. QED
    BY <1>1, <1>5, <1>6, Dropped

LEMMA CommandKeeps ==
    ASSUME Inv, vicon_decode_command
    PROVE  Inv'
<1>1. /\ Codec = "vicon" /\ FirstOctet >= 128 /\ got >= CommandSize
      /\ Give(CommandSize, vicon_decode(Message(CommandSize)))
    BY Sizes DEF vicon_decode_command, vicon_reads, ViconCommand
<1>2. PICK n \in Nat : n = CommandSize /\ n <= 10
    <2>1. CommandSize = 6 \/ CommandSize = 10
        BY Sizes DEF CommandSize
    <2>. QED
        BY <2>1
<1>3. PICK packet : packet = vicon_decode(Message(CommandSize))
    OBVIOUS
<1>4. n <= got /\ Give(n, packet)
    BY <1>1, <1>2, <1>3, GotIs
<1>5. IsStart(bytes[line[1]])
    BY <1>1, ViconStarterIs DEF FirstOctet
<1>6. ASSUME NEW k \in 1 .. Len(sent), CleanIn(bytes, sent, hurt, k), k \notin own
      PROVE  k \in own' \/ \E p \in 1 .. Len(line) : line[p] = sent[k].first /\ p > n
    <2>1. PICK p \in 1 .. Len(line) : line[p] = sent[k].first /\ Behind(k, p)
        BY <1>6, HeadIs
    <2>2. ASSUME NEW m, AtHead(m) PROVE Size(m) = n
        BY <1>1, <1>2, <2>2, HeadMessage
    <2>3. CASE AtHead(k)
        BY <1>4, <2>2, <2>3, HeadGiven
    <2>4. CASE ~AtHead(k)
        <3>1. MaxSize = 10
            BY <1>1, MaxSizes
        <3>2. p > n
            BY <1>2, <1>5, <2>1, <2>2, <2>4, <3>1 DEF Behind
        <3>. QED
            BY <2>1, <3>2
    <2>. QED
        BY <2>3, <2>4
<1>7. Spared(n, own')
    BY <1>6 DEF Spared
<1>. QED
    BY <1>4, <1>7, Given

-----------------------------------------------------------------------------
(* The line.                                                                *)

\* Nothing that the invariant is about changes but whether the line is open, and
\* what has arrived.
LEMMA Unmoved ==
    ASSUME Inv, UNCHANGED <<proto, bytes, line, sent, hurt, fresh, own>>,
           open' \in BOOLEAN, reading' \in BOOLEAN, got' \in 0 .. Len(line),
           open' => open \/ line # << >>
    PROVE  Inv'
<1>1. Len(bytes) = fresh => ~open' /\ line = << >>
    BY DEF Inv, Sound
<1>2. Sound(bytes, sent, line, hurt, own, fresh, open')
    BY <1>1 DEF Inv, Sound
<1>3. Sound(bytes', sent', line', hurt', own', fresh', open')
    BY <1>2
<1>4. got' \in 0 .. Len(line')
    OBVIOUS
<1>. QED
    BY <1>3, <1>4, Prime

LEMMA LoseKeeps ==
    ASSUME Inv, NEW i \in 1 .. Len(line), NEW n \in Bursts, Lose(i, n)
    PROVE  Inv'
<1>1. PICK b \in Nat : b = Len(bytes)
    BY DEF Inv, Sound
<1>2. n \in Nat /\ n > 0
    BY SerialAssumption
<1>3. PICK q \in Nat : q = Len(line)
    BY LineIs
<1>4. /\ i > got /\ i + n - 1 <= Len(line)
      /\ line' = [j \in 1 .. Len(line) - n |-> IF j < i THEN line[j] ELSE line[j + n]]
      /\ hurt' = hurt \cup {line[j] : j \in i .. i + n - 1}
      /\ UNCHANGED <<proto, open, bytes, got, reading, fresh, sent, own>>
    BY DEF Lose
<1>5. PICK t, h : t = line' /\ h = hurt'
    OBVIOUS
<1>6. t = Without(line, i, n) /\ h = hurt \cup Burst(line, i, n)
    BY <1>4, <1>5 DEF Without, Burst
<1>7. Line(line, b, hurt)
    BY <1>1 DEF Inv, Sound
<1>8. Lessened(line, t, b, h, n)
    BY <1>2, <1>4, <1>6, <1>7, LineLoses
<1>9. \A x \in 1 .. b : OnLine(line, x) => x \in h \/ OnLine(t, x)
    BY <1>8 DEF Lessened
<1>10. ASSUME NEW k \in 1 .. Len(sent), CleanIn(bytes, sent, h, k)
       PROVE  SafeIn(t, sent, own, k)
    <2>1. CleanIn(bytes, sent, hurt, k)
        BY <1>6, <1>10 DEF CleanIn
    <2>2. k \in own \/ \A x \in sent[k].first .. sent[k].last : OnLine(line, x)
        BY <2>1 DEF Inv, Sound, ResyncIn, SafeIn
    <2>3. PICK f \in 1 .. b, l \in 1 .. b : f = sent[k].first /\ l = sent[k].last
        BY <1>1, SentIs
    <2>4. \A x \in f .. l : x \in 1 .. b /\ x \notin h
        BY <1>10, <2>3 DEF CleanIn
    <2>. QED
        BY <1>9, <2>2, <2>3, <2>4 DEF SafeIn
<1>11. ResyncIn(bytes, sent, h, t, own)
    BY <1>10 DEF ResyncIn
<1>12. h \subseteq 1 .. b
    <2>1. \A j \in i .. i + n - 1 : j \in 1 .. Len(line)
        BY <1>2, <1>3, <1>4
    <2>2. Burst(line, i, n) \subseteq 1 .. b
        BY <1>1, <2>1, LineIs DEF Burst
    <2>3. hurt \subseteq 1 .. b
        BY <1>1 DEF Inv, Sound
    <2>. QED
        BY <1>6, <2>2, <2>3
<1>13. ~(b = fresh)
    <2>1. Len(line) # 0
        BY <1>3
    <2>. QED
        BY <1>1, <2>1 DEF Inv, Sound
<1>14. Sound(bytes, sent, t, h, own, fresh, open)
    BY <1>1, <1>8, <1>11, <1>12, <1>13 DEF Inv, Sound, Lessened
<1>15. Sound(bytes', sent', line', hurt', own', fresh', open')
    BY <1>4, <1>5, <1>14
<1>16. got' \in 0 .. Len(line')
    <2>1. got \in Nat
        BY GotIs
    <2>2. Len(t) = q - n /\ got <= q - n
        BY <1>2, <1>3, <1>4, <1>8, <2>1 DEF Lessened
    <2>3. got \in 0 .. q - n
        BY <1>2, <2>1, <2>2
    <2>4. got' = got /\ Len(line') = q - n
        BY <1>4, <1>5, <2>2
    <2>. QED
        BY <2>3, <2>4
<1>17. proto' = proto /\ open' \in BOOLEAN /\ reading' \in BOOLEAN
    BY <1>4 DEF Inv
<1>. QED
    BY <1>15, <1>16, <1>17, Prime

LEMMA CloseKeeps ==
    ASSUME Inv, Close
    PROVE  Inv'
<1>1. PICK b \in Nat : b = Len(bytes)
    BY DEF Inv, Sound
<1>2. /\ open' = FALSE /\ line' = << >> /\ got' = 0 /\ fresh' = Len(bytes)
      /\ hurt' = hurt \cup {line[j] : j \in 1 .. Len(line)}
      /\ UNCHANGED <<proto, bytes, reading, sent, own>>
    BY DEF Close
<1>3. PICK h : h = hurt'
    OBVIOUS
<1>4. \A x : x \in h <=> x \in hurt \/ OnLine(line, x)
    BY <1>2, <1>3 DEF OnLine
<1>5. h \subseteq 1 .. b
    <2>1. \A j \in 1 .. Len(line) : line[j] \in 1 .. b
        BY <1>1, LineIs
    <2>2. hurt \subseteq 1 .. b
        BY <1>1 DEF Inv, Sound
    <2>. QED
        BY <1>4, <2>1, <2>2 DEF OnLine
<1>6. Line(<< >>, b, h)
    BY DEF Line, Sorted, Ahead
<1>7. ASSUME NEW k \in 1 .. Len(sent), CleanIn(bytes, sent, h, k)
      PROVE  SafeIn(<< >>, sent, own, k)
    <2>1. CleanIn(bytes, sent, hurt, k)
        BY <1>4, <1>7 DEF CleanIn
    <2>2. k \in own \/ \A x \in sent[k].first .. sent[k].last : OnLine(line, x)
        BY <2>1 DEF Inv, Sound, ResyncIn, SafeIn
    <2>3. sent[k].first \in sent[k].first .. sent[k].last
        <3>1. PICK f \in 1 .. b, l \in 1 .. b : f = sent[k].first /\ l = sent[k].last /\ f <= l
            BY <1>1, SentIs
        <3>2. f \in f .. l
            BY <3>1
        <3>. QED
            BY <3>1, <3>2
    <2>4. sent[k].first \notin h
        BY <1>7, <2>3 DEF CleanIn
    <2>5. k \in own
        BY <1>4, <2>2, <2>3, <2>4
    <2>. QED
        BY <2>5 DEF SafeIn
<1>8. ResyncIn(bytes, sent, h, << >>, own)
    BY <1>7 DEF ResyncIn
<1>9. Sound(bytes, sent, << >>, h, own, b, FALSE)
    <2>1. b \in 0 .. Len(bytes)
        BY <1>1
    <2>2. AuthenticatedIn(bytes, b)
        BY <1>1 DEF AuthenticatedIn
    <2>. QED
        BY <1>1, <1>5, <1>6, <1>8, <2>1, <2>2 DEF Inv, Sound
<1>10. Sound(bytes', sent', line', hurt', own', fresh', open')
    BY <1>1, <1>2, <1>3, <1>9
<1>11. got' \in 0 .. Len(line')
    <2>1. Len(line') = 0
        BY <1>2
    <2>. QED
        BY <1>2, <2>1
<1>12. proto' = proto /\ open' \in BOOLEAN /\ reading' \in BOOLEAN
    BY <1>2 DEF Inv
<1>. QED
    BY <1>10, <1>11, <1>12, Prime

\* A step of any actor keeps the invariant.
LEMMA NextKeeps ==
    ASSUME Inv, [Next]_vars
    PROVE  Inv'
<1>1. got \in Nat /\ got <= Len(line) /\ Len(line) \in Nat
    BY GotIs
<1>2. ASSUME NEW job \in Jobs[Codec], NEW n \in {0, Len(line) - got}, Send(job, n)
      PROVE  Inv'
    BY <1>2, SendKeeps
<1>3. CASE Open
    <2>1. /\ UNCHANGED <<proto, bytes, line, sent, hurt, fresh, own>> /\ line # << >>
          /\ open' = TRUE /\ reading' = reading /\ got' = got
        BY <1>3 DEF Open
    <2>2. got' \in 0 .. Len(line) /\ reading' \in BOOLEAN
        BY <2>1 DEF Inv
    <2>. QED
        BY <2>1, <2>2, Unmoved
<1>4. ASSUME NEW i \in 1 .. Len(line), NEW n \in Bursts, Lose(i, n)
      PROVE  Inv'
    BY <1>4, LoseKeeps
<1>5. ASSUME NEW n \in Reads \cup {Len(line) - got}, Read(n)
      PROVE  Inv'
    <2>1. n \in Int
        BY <1>1, SerialAssumption
    <2>2. /\ UNCHANGED <<proto, open, bytes, line, sent, hurt, fresh, own>>
          /\ n > 0 /\ got + n <= Len(line) /\ got' = got + n /\ reading' = TRUE /\ open
        BY <1>5 DEF Read, reader_vars
    <2>3. got' \in 0 .. Len(line)
        BY <1>1, <2>1, <2>2
    <2>4. open' \in BOOLEAN /\ reading' \in BOOLEAN
        BY <2>2 DEF Inv
    <2>. QED
        BY <2>2, <2>3, <2>4, Unmoved
<1>6. CASE Done
    <2>1. UNCHANGED <<proto, open, bytes, line, sent, hurt, fresh, own, got>> /\ reading' = FALSE
        BY <1>6 DEF Done, reader_vars
    <2>2. got' \in 0 .. Len(line) /\ open' \in BOOLEAN /\ reading' \in BOOLEAN
        BY <2>1 DEF Inv
    <2>. QED
        BY <2>1, <2>2, Unmoved
<1>7. CASE UNCHANGED vars
    <2>1. UNCHANGED <<proto, open, bytes, line, sent, hurt, fresh, own, got, reading>>
        BY <1>7 DEF vars
    <2>2. got' \in 0 .. Len(line) /\ open' \in BOOLEAN /\ reading' \in BOOLEAN
        BY <2>1 DEF Inv
    <2>. QED
        BY <2>1, <2>2, Unmoved
<1>. QED
    BY <1>2, <1>3, <1>4, <1>5, <1>6, <1>7, DiscardKeeps, DecodeKeeps, UnexpectedKeeps,
       StatusKeeps, CommandKeeps, CloseKeeps DEF Next, Silence

LEMMA InvAlways == Spec => []Inv
<1>1. Inv /\ [Next]_vars => Inv'
    BY NextKeeps
<1>. QED
    BY <1>1, InitInv, PTL DEF Spec

-----------------------------------------------------------------------------
(* The theorems.                                                            *)

LEMMA InvTypes ==
    ASSUME Inv
    PROVE  TypeOK
<1>1. PICK n : n = Len(bytes)
    OBVIOUS
<1>2. line \in Seq(1 .. n) /\ sent \in Seq([first : 1 .. n, last : 1 .. n])
    BY <1>1 DEF Inv, Sound, Line, WellSent, Spans
<1>. QED
    BY <1>1, <1>2 DEF Inv, Sound, TypeOK, Octets

\* Everything has its type, for any packets, receivers, bursts and reads: no octet
\* is out of range, and nothing is read beyond what the line holds.
THEOREM TypeCorrect == Spec => []TypeOK
<1>1. Inv => TypeOK
    BY InvTypes
<1>. QED
    BY <1>1, InvAlways, PTL

\* However many bytes are lost, and wherever, and however the rest is split over
\* reads, a message that lost nothing and is not within reach of a loss or of a
\* stray start octet is on the line until it is decoded from its own bytes
\* (pelco_discard_garbage, vicon_decode_message).
THEOREM Resynchronised == Spec => []Resync
<1>1. ASSUME Inv
      PROVE  Resync
    <2>1. ASSUME NEW k \in 1 .. Len(sent), (Before(k) \cup Own(k)) \cap hurt = {},
                 \A i \in Before(k) : IsStart(bytes[i]) => \E m \in 1 .. Len(sent) : sent[m].first = i
          PROVE  \/ k \in own
                 \/ \A i \in Own(k) : \E j \in 1 .. Len(line) : line[j] = i
        <3>1. Before(k) = Reach(sent, k) /\ Own(k) = sent[k].first .. sent[k].last
            BY DEF Before, Reach, Own
        <3>2. CleanIn(bytes, sent, hurt, k)
            BY <2>1, <3>1 DEF CleanIn
        <3>3. ResyncIn(bytes, sent, hurt, line, own)
            BY <1>1 DEF Inv, Sound
        <3>4. SafeIn(line, sent, own, k)
            BY <3>2, <3>3 DEF ResyncIn
        <3>. QED
            BY <3>1, <3>4 DEF SafeIn, OnLine
    <2>. QED
        BY <2>1 DEF Resync
<1>. QED
    BY <1>1, InvAlways, PTL

\* The octets of b from a to m are those of o and of p.
Joined(b, a, m, o, p) == SubSeq(b, a, m) = o \o p

LEMMA HoldsBoth ==
    ASSUME NEW b \in Seq(Octets), NEW o \in Seq(Octets), NEW p \in Seq(Octets), NEW n \in Nat,
           Holds(b, o, n), NEW k \in Nat, k = n + Len(o), Holds(b, p, k),
           NEW m \in Int, m = k + Len(p), NEW a \in Int, a = n + 1
    PROVE  Joined(b, a, m, o, p)
<1>1. PICK x \in Nat, y \in Nat, z \in Nat : x = Len(o) /\ y = Len(p) /\ z = Len(b)
    OBVIOUS
<1>2. n + x <= z /\ k + y <= z /\ k = n + x /\ m = n + x + y
    BY <1>1 DEF Holds
<1>3. \A i \in a .. m : b[i] \in Octets
    BY <1>1, <1>2
<1>4. PICK s : s = SubSeq(b, a, m)
    OBVIOUS
<1>5. /\ s \in Seq(Octets) /\ Len(s) = IF a <= m THEN m - a + 1 ELSE 0
      /\ \A i \in 1 .. m - a + 1 : s[i] = b[a + i - 1]
    BY <1>3, <1>4, SubSeqProperties
<1>6. Len(s) = x + y /\ m - a + 1 = x + y
    BY <1>2, <1>5, SMTT(30)
<1>7. PICK t : t = o \o p
    OBVIOUS
<1>8. /\ t \in Seq(Octets) /\ Len(t) = Len(o) + Len(p)
      /\ \A i \in 1 .. Len(o) + Len(p) : t[i] = IF i <= Len(o) THEN o[i] ELSE p[i - Len(o)]
    BY <1>7, ConcatProperties
<1>9. ASSUME NEW i \in 1 .. x + y
      PROVE  s[i] = t[i]
    <2>1. s[i] = b[n + i]
        <3>1. a + i - 1 = n + i
            OBVIOUS
        <3>. QED
            BY <1>5, <1>6, <3>1
    <2>2. CASE i <= x
        <3>1. b[n + i] = o[i]
            BY <1>1, <2>2 DEF Holds
        <3>. QED
            BY <1>1, <1>8, <2>1, <2>2, <3>1
    <2>3. CASE ~(i <= x)
        <3>1. PICK j \in 1 .. y : j = i - x
            BY <2>3
        <3>2. b[k + j] = p[j]
            BY <1>1, <3>1 DEF Holds
        <3>3. k + j = n + i
            BY <1>2, <3>1, SMTT(30)
        <3>. QED
            BY <1>1, <1>8, <2>1, <2>3, <3>1, <3>2, <3>3
    <2>. QED
        BY <2>2, <2>3
<1>10. s = t
    BY <1>1, <1>5, <1>6, <1>8, <1>9, SeqEqual
<1>. QED
    BY <1>4, <1>7, <1>10 DEF Joined

LEMMA InvFrames ==
    ASSUME Inv
    PROVE  Framed
<1>1. bytes \in Seq(Octets) /\ Len(bytes) \in Nat
    BY DEF Inv, Sound
<1>2. /\ Len(A1.octets) = 12 /\ Len(A2.octets) = 66
      /\ Len(H1.octets) = 12 /\ Len(H2.octets) = 12
      /\ A1.octets \in Seq(Octets) /\ A2.octets \in Seq(Octets)
      /\ H1.octets \in Seq(Octets) /\ H2.octets \in Seq(Octets)
    BY HeadersAre DEF PieceSet, Octets
<1>3. ASSUME proto = "infinova_d", Len(bytes) > fresh
      PROVE  SubSeq(bytes, fresh + 1, fresh + HEADER_SZ + AUTH_SZ + 2) = A1.octets \o A2.octets
    <2>1. Holds(bytes, A1.octets, fresh) /\ Holds(bytes, A2.octets, fresh + 12) /\ fresh \in Nat
        BY <1>1, <1>3 DEF Inv, Sound, AuthenticatedIn
    <2>2. PICK a \in Int, k \in Nat, m \in Int : a = fresh + 1 /\ k = fresh + 12 /\ m = k + 66
        BY <2>1
    <2>3. SubSeq(bytes, a, m) = A1.octets \o A2.octets
        <3>1. PICK o, q : o = A1.octets /\ q = A2.octets
            OBVIOUS
        <3>2. /\ o \in Seq(Octets) /\ q \in Seq(Octets)
              /\ Holds(bytes, o, fresh) /\ Holds(bytes, q, k)
            BY <1>2, <2>1, <2>2, <3>1
        <3>3. k = fresh + Len(o) /\ m = k + Len(q)
            BY <1>2, <2>2, <3>1
        <3>4. Joined(bytes, a, m, o, q)
            BY <1>1, <2>1, <2>2, <3>2, <3>3, HoldsBoth
        <3>. QED
            BY <3>1, <3>4 DEF Joined
    <2>4. fresh + HEADER_SZ + AUTH_SZ + 2 = m
        BY <2>1, <2>2, Sizes
    <2>. QED
        BY <2>2, <2>3, <2>4
<1>4. ASSUME proto = "infinova_d", NEW i \in 1 .. Len(sent)
      PROVE  SubSeq(bytes, sent[i].first - (2 * HEADER_SZ), sent[i].first - 1)
             = H1.octets \o H2.octets
    <2>1. PICK f \in Nat : f = sent[i].first
        BY SentIs
    <2>2. Holds(bytes, H1.octets, f - 1 - 24) /\ Holds(bytes, H2.octets, f - 1 - 12)
        BY <1>4, <2>1 DEF Inv, Sound, WellSent
    <2>3. PICK n \in Nat, k \in Nat : n = f - 1 - 24 /\ k = f - 1 - 12
        BY <2>2 DEF Holds
    <2>4. PICK a \in Int, m \in Int : a = f - 24 /\ m = f - 1
        OBVIOUS
    <2>5. k = n + 12 /\ m = k + 12 /\ a = n + 1
        BY <2>3, <2>4
    <2>6. SubSeq(bytes, a, m) = H1.octets \o H2.octets
        <3>1. PICK o, q : o = H1.octets /\ q = H2.octets
            OBVIOUS
        <3>2. /\ o \in Seq(Octets) /\ q \in Seq(Octets)
              /\ Holds(bytes, o, n) /\ Holds(bytes, q, k)
            BY <1>2, <2>2, <2>3, <3>1
        <3>3. k = n + Len(o) /\ m = k + Len(q)
            BY <1>2, <2>5, <3>1
        <3>4. Joined(bytes, a, m, o, q)
            BY <1>1, <2>5, <3>2, <3>3, HoldsBoth
        <3>. QED
            BY <3>1, <3>4 DEF Joined
    <2>7. f - (2 * HEADER_SZ) = a
        BY <2>4, Sizes
    <2>. QED
        BY <2>1, <2>4, <2>6, <2>7
<1>. QED
    BY <1>3, <1>4 DEF Framed, A1, A2, H1, H2

\* Whatever did not fit in the writer's buffer, and however often the connection
\* was closed, a connection to a camera of Infinova starts with the
\* authentication, and each message in it has both headers before it
\* (infinova_d_do_write).
THEOREM FramesKept == Spec => []Framed
<1>1. Inv => Framed
    BY InvFrames
<1>. QED
    BY <1>1, InvAlways, PTL

-----------------------------------------------------------------------------
(* The bits of a message.                                                   *)

\* The eight bits of an octet.
LEMMA Bits ==
    ASSUME NEW a \in {0, 1}, NEW b \in {0, 1}, NEW c \in {0, 1}, NEW d \in {0, 1},
           NEW e \in {0, 1}, NEW f \in {0, 1}, NEW g \in {0, 1}, NEW h \in {0, 1},
           NEW x, x = a + 2 * b + 4 * c + 8 * d + 16 * e + 32 * f + 64 * g + 128 * h
    PROVE  /\ x % 2 = a /\ (x \div 2) % 2 = b /\ (x \div 4) % 2 = c /\ (x \div 8) % 2 = d
           /\ (x \div 16) % 2 = e /\ (x \div 32) % 2 = f /\ (x \div 64) % 2 = g
           /\ (x \div 128) % 2 = h
<1>1. x % 2 = a
    OBVIOUS
<1>2. (x \div 2) % 2 = b
    <2>1. x \div 2 = b + 2 * c + 4 * d + 8 * e + 16 * f + 32 * g + 64 * h
        OBVIOUS
    <2>. QED
        BY <2>1
<1>3. (x \div 4) % 2 = c
    <2>1. x \div 4 = c + 2 * d + 4 * e + 8 * f + 16 * g + 32 * h
        OBVIOUS
    <2>. QED
        BY <2>1
<1>4. (x \div 8) % 2 = d
    <2>1. x \div 8 = d + 2 * e + 4 * f + 8 * g + 16 * h
        OBVIOUS
    <2>. QED
        BY <2>1
<1>5. (x \div 16) % 2 = e
    <2>1. x \div 16 = e + 2 * f + 4 * g + 8 * h
        OBVIOUS
    <2>. QED
        BY <2>1
<1>6. (x \div 32) % 2 = f
    <2>1. x \div 32 = f + 2 * g + 4 * h
        OBVIOUS
    <2>. QED
        BY <2>1
<1>7. (x \div 64) % 2 = g
    <2>1. x \div 64 = g + 2 * h
        OBVIOUS
    <2>. QED
        BY <2>1
<1>8. (x \div 128) % 2 = h
    <2>1. x \div 128 = h
        OBVIOUS
    <2>. QED
        BY <2>1
<1>. QED
    BY <1>1, <1>2, <1>3, <1>4, <1>5, <1>6, <1>7, <1>8

\* Bit k of an octet, by its value.
BitOf(x, k) == (x \div (2 ^ k)) % 2 = 1

\* A bit of an octet is set if it was set, also with a number added in the low
\* half of an octet that has no bit set there.
LEMMA OctetBits ==
    ASSUME NEW bits, NEW j \in Nat, NEW v \in 0 .. 15,
           v # 0 => \A k \in 0 .. 3 : 8 * j + k \notin bits,
           NEW k \in 0 .. 7, v = 0 \/ k > 3
    PROVE  BitOf(Octet(bits, j) + v, k) <=> 8 * j + k \in bits
<1> DEFINE b(i) == IF 8 * j + i \in bits THEN 1 ELSE 0
<1>1. Octet(bits, j) = b(0) + 2 * b(1) + 4 * b(2) + 8 * b(3) + 16 * b(4) + 32 * b(5)
                       + 64 * b(6) + 128 * b(7)
    BY Powers DEF Octet
<1>2. \A i : b(i) \in {0, 1} /\ (b(i) = 1 <=> 8 * j + i \in bits)
    OBVIOUS
<1>3. PICK w \in {0, 1}, x \in {0, 1}, y \in {0, 1}, z \in {0, 1} :
         /\ b(0) + 2 * b(1) + 4 * b(2) + 8 * b(3) + v = w + 2 * x + 4 * y + 8 * z
         /\ v = 0 => w = b(0) /\ x = b(1) /\ y = b(2) /\ z = b(3)
    <2>. HIDE DEF b
    <2>1. CASE v = 0
        <3>1. b(0) \in {0, 1} /\ b(1) \in {0, 1} /\ b(2) \in {0, 1} /\ b(3) \in {0, 1}
            BY <1>2
        <3>. QED
            BY <2>1, <3>1
    <2>2. CASE v # 0
        <3>1. b(0) = 0 /\ b(1) = 0 /\ b(2) = 0 /\ b(3) = 0
            <4>1. \A i \in 0 .. 3 : b(i) = 0
                BY <1>2, <2>2
            <4>. QED
                BY <4>1
        <3>2. PICK w \in {0, 1}, x \in {0, 1}, y \in {0, 1}, z \in {0, 1} :
                 v = w + 2 * x + 4 * y + 8 * z
            <4>1. v \in 0 .. 15 => \E w, x, y, z \in {0, 1} : v = w + 2 * x + 4 * y + 8 * z
                <5>1. PICK w \in {0, 1} : w = v % 2
                    OBVIOUS
                <5>2. PICK x \in {0, 1} : x = (v \div 2) % 2
                    OBVIOUS
                <5>3. PICK y \in {0, 1} : y = (v \div 4) % 2
                    OBVIOUS
                <5>4. PICK z \in {0, 1} : z = (v \div 8) % 2
                    OBVIOUS
                <5>5. v = w + 2 * x + 4 * y + 8 * z
                    BY <5>1, <5>2, <5>3, <5>4
                <5>. QED
                    BY <5>5
            <4>. QED
                BY <4>1
        <3>. QED
            BY <2>2, <3>1, <3>2
    <2>. QED
        BY <2>1, <2>2
<1>4. PICK e \in {0, 1}, f \in {0, 1}, g \in {0, 1}, h \in {0, 1} :
         e = b(4) /\ f = b(5) /\ g = b(6) /\ h = b(7)
    BY <1>2
<1>5. PICK u : u = Octet(bits, j) + v
    OBVIOUS
<1>6. u = w + 2 * x + 4 * y + 8 * z + 16 * e + 32 * f + 64 * g + 128 * h
    <2>. HIDE DEF b
    <2>1. b(0) \in {0, 1} /\ b(1) \in {0, 1} /\ b(2) \in {0, 1} /\ b(3) \in {0, 1}
        BY <1>2
    <2>. QED
        BY <1>1, <1>3, <1>4, <1>5, <2>1
<1>7. /\ u % 2 = w /\ (u \div 2) % 2 = x /\ (u \div 4) % 2 = y /\ (u \div 8) % 2 = z
      /\ (u \div 16) % 2 = e /\ (u \div 32) % 2 = f /\ (u \div 64) % 2 = g
      /\ (u \div 128) % 2 = h
    BY <1>6, Bits
<1>8. /\ v = 0 => /\ BitOf(u, 0) <=> b(0) = 1
                  /\ BitOf(u, 1) <=> b(1) = 1
                  /\ BitOf(u, 2) <=> b(2) = 1
                  /\ BitOf(u, 3) <=> b(3) = 1
      /\ BitOf(u, 4) <=> b(4) = 1
      /\ BitOf(u, 5) <=> b(5) = 1
      /\ BitOf(u, 6) <=> b(6) = 1
      /\ BitOf(u, 7) <=> b(7) = 1
    <2>. HIDE DEF b
    <2>1. u \div 1 = u
        BY <1>6
    <2>2. /\ BitOf(u, 0) <=> u % 2 = 1
          /\ BitOf(u, 1) <=> (u \div 2) % 2 = 1
          /\ BitOf(u, 2) <=> (u \div 4) % 2 = 1
          /\ BitOf(u, 3) <=> (u \div 8) % 2 = 1
        BY <2>1, Powers DEF BitOf
    <2>3. /\ BitOf(u, 4) <=> (u \div 16) % 2 = 1
          /\ BitOf(u, 5) <=> (u \div 32) % 2 = 1
          /\ BitOf(u, 6) <=> (u \div 64) % 2 = 1
          /\ BitOf(u, 7) <=> (u \div 128) % 2 = 1
        BY Powers DEF BitOf
    <2>. HIDE DEF BitOf
    <2>. QED
        BY <1>3, <1>4, <1>7, <2>2, <2>3
<1>9. BitOf(u, k) <=> b(k) = 1
    <2>. HIDE DEF b
    <2>1. k = 0 \/ k = 1 \/ k = 2 \/ k = 3 \/ k = 4 \/ k = 5 \/ k = 6 \/ k = 7
        OBVIOUS
    <2>2. k > 3 => k \notin {0, 1, 2, 3}
        OBVIOUS
    <2>. QED
        BY <1>8, <2>1, <2>2
<1>. QED
    BY <1>2, <1>5, <1>9

-----------------------------------------------------------------------------
(* What the setters leave.                                                  *)

LEMMA GroupsAre ==
    Groups = {"menu", "camera", "pan", "tilt", "preset", "zoom", "focus",
              "iris", "lens", "wiper", "ack"}
BY DEF Groups, CC

\* A group's flags are its own.
LEMMA GroupsDisjoint ==
    \A g, h \in Groups : g # h => CC[g] \cap CC[h] = {}
<1> SUFFICES ASSUME NEW g \in Groups, NEW h \in Groups, g # h, NEW f,
                    f \in CC[g], f \in CC[h]
             PROVE  FALSE
    OBVIOUS
<1>. QED
    BY GroupsAre, SMTT(30) DEF CC

\* A switch lets through a mode of its group or none.
LEMMA ValidIs ==
    ASSUME NEW g, NEW m
    PROVE  /\ Valid(g, m) \subseteq CC[g] /\ Valid(g, Valid(g, m)) = Valid(g, m)
           /\ Valid(g, m) = {} \/ \E f \in Cases(g) : Valid(g, m) = {f}
           /\ Valid(g, {}) = {}
BY DEF Valid, Cases

LEMMA ValidOne ==
    ASSUME NEW g, NEW f \in Cases(g)
    PROVE  Valid(g, {f}) = {f}
BY DEF Valid, Cases

\* Packet q is p, but for the mode of group g, which is v.
Sets(p, q, g, v) ==
    /\ q \in PacketType
    /\ \A h \in Groups : Get(q, h) = IF h = g THEN v ELSE Get(p, h)

Same(p, q) == q.pan = p.pan /\ q.tilt = p.tilt /\ q.preset = p.preset

\* What the flags have of a group is what its getter sees.
LEMMA FlagsSet ==
    ASSUME NEW p \in PacketType, NEW q \in PacketType, NEW g \in Groups, NEW m,
           q.flags = Valid(g, m) \cup (p.flags \ CC[g])
    PROVE  Sets(p, q, g, Valid(g, m))
<1>1. Valid(g, m) \subseteq CC[g]
    BY ValidIs
<1>2. ASSUME NEW h \in Groups
      PROVE  Get(q, h) = IF h = g THEN Valid(g, m) ELSE Get(p, h)
    <2>1. CASE h = g
        <3>1. q.flags \cap CC[g] = Valid(g, m) \cap CC[g]
            BY <1>1
        <3>2. Valid(g, q.flags) = Valid(g, Valid(g, m))
            BY <3>1 DEF Valid
        <3>. QED
            BY <2>1, <3>2, ValidIs DEF Get
    <2>2. CASE h # g
        <3>1. CC[g] \cap CC[h] = {}
            BY <2>2, GroupsDisjoint
        <3>2. q.flags \cap CC[h] = p.flags \cap CC[h]
            BY <1>1, <3>1
        <3>. QED
            BY <2>2, <3>2 DEF Get, Valid
    <2>. QED
        BY <2>1, <2>2
<1>. QED
    BY <1>2 DEF Sets

LEMMA SetSets ==
    ASSUME NEW p \in PacketType, NEW g \in Groups, NEW m, NEW q, q = Set(p, g, m)
    PROVE  Sets(p, q, g, Valid(g, m)) /\ Same(p, q)
<1>1. q \in PacketType
    BY SetType
<1>2. q.flags = Valid(g, m) \cup (p.flags \ CC[g]) /\ Same(p, q)
    BY DEF Set, PacketType, Same
<1>. QED
    BY <1>1, <1>2, FlagsSet

LEMMA PanSets ==
    ASSUME NEW p \in PacketType, NEW m, NEW s \in 0 .. SPEED_MAX,
           NEW q, q = ccpacket_set_pan(p, m, s)
    PROVE  /\ Sets(p, q, "pan", Valid("pan", m))
           /\ q.pan = s /\ q.tilt = p.tilt /\ q.preset = p.preset
<1>1. PICK g \in Groups : g = "pan"
    BY GroupsAre
<1>2. PICK r \in PacketType : r = Set(p, g, m)
    BY SetType
<1>3. r.flags = Valid(g, m) \cup (p.flags \ CC[g]) /\ Same(p, r)
    BY <1>2 DEF Set, PacketType, Same
<1>4. clamp_speed(s) = s
    BY PacketAssumption DEF clamp_speed
<1>5. q = [r EXCEPT !.pan = s]
    BY <1>1, <1>2, <1>4 DEF ccpacket_set_pan
<1>6. q \in PacketType /\ q.flags = r.flags /\ q.pan = s /\ q.tilt = r.tilt /\ q.preset = r.preset
    BY <1>5 DEF PacketType
<1>7. Sets(p, q, g, Valid(g, m))
    BY <1>3, <1>6, FlagsSet
<1>. QED
    BY <1>1, <1>3, <1>6, <1>7 DEF Same

LEMMA TiltSets ==
    ASSUME NEW p \in PacketType, NEW m, NEW s \in 0 .. SPEED_MAX,
           NEW q, q = ccpacket_set_tilt(p, m, s)
    PROVE  /\ Sets(p, q, "tilt", Valid("tilt", m))
           /\ q.pan = p.pan /\ q.tilt = s /\ q.preset = p.preset
<1>1. PICK g \in Groups : g = "tilt"
    BY GroupsAre
<1>2. PICK r \in PacketType : r = Set(p, g, m)
    BY SetType
<1>3. r.flags = Valid(g, m) \cup (p.flags \ CC[g]) /\ Same(p, r)
    BY <1>2 DEF Set, PacketType, Same
<1>5. q = [r EXCEPT !.tilt = s]
    BY <1>1, <1>2 DEF ccpacket_set_tilt
<1>6. q \in PacketType /\ q.flags = r.flags /\ q.pan = r.pan /\ q.tilt = s /\ q.preset = r.preset
    BY <1>5 DEF PacketType
<1>7. Sets(p, q, g, Valid(g, m))
    BY <1>3, <1>6, FlagsSet
<1>. QED
    BY <1>1, <1>3, <1>6, <1>7 DEF Same

\* A preset, where none is set yet: number 0, and those of the menu to store,
\* leave none.
LEMMA PresetSets ==
    ASSUME NEW p \in PacketType, NEW f \in Cases("preset"), NEW n \in Nat,
           NEW q, q = ccpacket_set_preset(p, {f}, n)
    PROVE  /\ Sets(p, q, "preset", IF n = 0 \/ IsMenuPreset({f}, n) THEN {} ELSE {f})
           /\ q.pan = p.pan /\ q.tilt = p.tilt
           /\ n # 0 /\ ~IsMenuPreset({f}, n) => q.preset = n
<1>1. PICK g \in Groups : g = "preset" /\ CC.preset = CC[g]
    BY GroupsAre
<1>2. PICK m : m = IF n = 0 \/ IsMenuPreset({f}, n) THEN {} ELSE {f}
    OBVIOUS
<1>3. Valid(g, m) = m
    BY <1>1, <1>2, ValidOne, ValidIs
<1>4. q \in PacketType
    BY SetPresetType
<1>5. /\ q.flags = m \cup (p.flags \ CC[g]) /\ q.pan = p.pan /\ q.tilt = p.tilt
      /\ n # 0 /\ ~IsMenuPreset({f}, n) => q.preset = n
    <2>1. CASE IsMenuPreset({f}, n)
        <3>1. PICK r \in PacketType : r = Set(p, "menu", MenuMode(n))
            BY SetType, GroupNames
        <3>2. r.pan = p.pan /\ r.tilt = p.tilt
            BY <3>1 DEF Set, PacketType
        <3>3. q = [r EXCEPT !.flags = p.flags \ CC[g], !.preset = 0]
            BY <1>1, <2>1, <3>1 DEF ccpacket_set_preset
        <3>. QED
            BY <1>2, <2>1, <3>2, <3>3 DEF PacketType
    <2>2. CASE ~IsMenuPreset({f}, n)
        <3>1. ccpacket_preset({f}, n) = m
            BY <1>1, <1>2, <2>2, ValidOne DEF ccpacket_preset
        <3>2. q = [p EXCEPT !.flags = (p.flags \ CC[g]) \cup m, !.preset = n]
            BY <1>1, <2>2, <3>1 DEF ccpacket_set_preset
        <3>. QED
            BY <3>2 DEF PacketType
    <2>. QED
        BY <2>1, <2>2
<1>6. Sets(p, q, g, Valid(g, m))
    BY <1>3, <1>4, <1>5, FlagsSet
<1>. QED
    BY <1>1, <1>2, <1>3, <1>5, <1>6

LEMMA ClearedIs ==
    /\ Cleared \in PacketType /\ \A g : Get(Cleared, g) = {}
    /\ Cleared.pan = 0 /\ Cleared.tilt = 0 /\ Cleared.preset = 0
<1>1. Cleared \in PacketType
    BY PacketAssumption DEF Cleared, PacketType
<1>2. Cleared.flags = {}
    BY DEF Cleared
<1>. QED
    BY <1>1, <1>2, ValidIs DEF Get, Cleared

-----------------------------------------------------------------------------
(* What a message of Pelco tells.                                           *)

PelcoBits == 16 .. 31

LEMMA FrameFields ==
    ASSUME NEW d \in {"pelco_d", "pelco_p"}, NEW r, NEW a, NEW b, NEW e, NEW f,
           NEW m, m = Frame(d, r, a, b, e, f)
    PROVE  m[1] = r /\ m[2] = a /\ m[3] = b /\ m[4] = e /\ m[5] = f
<1> DEFINE w == [j \in 0 .. 6 |-> <<START[d], r, a, b, e, f, ETX>>[j + 1]]
<1>1. w[1] = r /\ w[2] = a /\ w[3] = b /\ w[4] = e /\ w[5] = f
    OBVIOUS
<1>2. m = [j \in 0 .. SIZE[d] - 1 |->
              IF j = SIZE[d] - 1 THEN calculate_checksum(d, w) ELSE w[j]]
    BY DEF Frame
<1>. HIDE DEF w
<1>3. SIZE[d] = 7 \/ SIZE[d] = 8
    BY Sizes
<1>. QED
    BY <1>1, <1>2, <1>3

\* The bits of the two octets of functions.
LEMMA FrameBits ==
    ASSUME NEW d \in {"pelco_d", "pelco_p"}, NEW r, NEW bits, NEW e, NEW f,
           NEW m, m = Frame(d, r, Octet(bits, 2), Octet(bits, 3), e, f),
           NEW n \in PelcoBits
    PROVE  bit_is_set(m, n) <=> n \in bits
<1>1. m[2] = Octet(bits, 2) /\ m[3] = Octet(bits, 3)
    BY FrameFields
<1>2. Octet(bits, 2) \in 0 .. 255 /\ Octet(bits, 3) \in 0 .. 255
    BY OctetIs
<1>3. CASE n \in 16 .. 23
    <2>1. PICK k \in 0 .. 7 : k = n - 16
        BY <1>3
    <2>2. n \div 8 = 2 /\ n % 8 = k /\ 8 * 2 + k = n
        BY <1>3, <2>1
    <2>3. BitOf(Octet(bits, 2) + 0, k) <=> 8 * 2 + k \in bits
        BY OctetBits
    <2>4. Octet(bits, 2) + 0 = m[2]
        BY <1>1, <1>2
    <2>. QED
        BY <2>2, <2>3, <2>4 DEF BitOf, bit_is_set
<1>4. CASE n \in 24 .. 31
    <2>1. PICK k \in 0 .. 7 : k = n - 24
        BY <1>4
    <2>2. n \div 8 = 3 /\ n % 8 = k /\ 8 * 3 + k = n
        BY <1>4, <2>1
    <2>3. BitOf(Octet(bits, 3) + 0, k) <=> 8 * 3 + k \in bits
        BY OctetBits
    <2>4. Octet(bits, 3) + 0 = m[3]
        BY <1>1, <1>2
    <2>. QED
        BY <2>2, <2>3, <2>4 DEF BitOf, bit_is_set
<1>. QED
    BY <1>3, <1>4 DEF PelcoBits

\* Each function has a bit of its own.
LEMMA PelcoBitIs ==
    ASSUME NEW d \in {"pelco_d", "pelco_p"}, NEW f \in DOMAIN BIT[d], NEW g \in DOMAIN BIT[d]
    PROVE  BIT[d][f] \in PelcoBits /\ (BIT[d][f] = BIT[d][g] => f = g)
<1>1. CASE d = "pelco_d"
    BY <1>1 DEF BIT, PelcoBits
<1>2. CASE d = "pelco_p"
    BY <1>2 DEF BIT, PelcoBits
<1>. QED
    BY <1>1, <1>2

\* A message with the bits of these functions has those functions.
Functional(d, m, fs) ==
    fs \subseteq DOMAIN BIT[d]
    /\ \A f \in DOMAIN BIT[d] : bit_is_set(m, BIT[d][f]) <=> f \in fs

LEMMA FrameFunctions ==
    ASSUME NEW d \in {"pelco_d", "pelco_p"}, NEW r, NEW fs \in SUBSET DOMAIN BIT[d],
           NEW bits, bits = {BIT[d][f] : f \in fs}, NEW e, NEW f,
           NEW m, m = Frame(d, r, Octet(bits, 2), Octet(bits, 3), e, f)
    PROVE  Functional(d, m, fs)
<1>1. ASSUME NEW g \in DOMAIN BIT[d]
      PROVE  bit_is_set(m, BIT[d][g]) <=> g \in fs
    <2>1. PICK n \in PelcoBits : n = BIT[d][g]
        BY PelcoBitIs
    <2>2. n \in bits <=> g \in fs
        BY <2>1, PelcoBitIs
    <2>. QED
        BY <2>1, <2>2, FrameBits
<1>. QED
    BY <1>1 DEF Functional

\* The first of two functions.
LEMMA FirstIs ==
    ASSUME NEW d, NEW m, NEW fs, Functional(d, m, fs),
           NEW f \in DOMAIN BIT[d], NEW g \in DOMAIN BIT[d]
    PROVE  First(d, m, <<f, g>>) = IF f \in fs THEN {f} ELSE IF g \in fs THEN {g} ELSE {}
<1> DEFINE on == {i \in 1 .. Len(<<f, g>>) : bit_is_set(m, BIT[d][<<f, g>>[i]])}
<1>1. on = (IF f \in fs THEN {1} ELSE {}) \cup (IF g \in fs THEN {2} ELSE {})
    <2>1. 1 .. Len(<<f, g>>) = {1, 2} /\ <<f, g>>[1] = f /\ <<f, g>>[2] = g
        OBVIOUS
    <2>2. /\ bit_is_set(m, BIT[d][f]) <=> f \in fs
          /\ bit_is_set(m, BIT[d][g]) <=> g \in fs
        BY DEF Functional
    <2>. QED
        BY <2>1, <2>2
<1>2. First(d, m, <<f, g>>) =
         IF on = {} THEN {} ELSE {<<f, g>>[CHOOSE i \in on : \A j \in on : i <= j]}
    BY DEF First
<1>. HIDE DEF on
<1>3. CASE f \in fs
    <2>1. \A i \in on : (\A j \in on : i <= j) => i = 1
        BY <1>1, <1>3
    <2>2. 1 \in on /\ \A j \in on : 1 <= j
        BY <1>1, <1>3
    <2>3. (CHOOSE i \in on : \A j \in on : i <= j) = 1
        BY <2>1, <2>2
    <2>. QED
        BY <1>2, <1>3, <2>2, <2>3
<1>4. CASE f \notin fs /\ g \in fs
    <2>1. on = {2}
        BY <1>1, <1>4
    <2>2. (CHOOSE i \in on : \A j \in on : i <= j) = 2
        BY <2>1
    <2>. QED
        BY <1>2, <1>4, <2>1, <2>2
<1>5. CASE f \notin fs /\ g \notin fs
    BY <1>1, <1>2, <1>5
<1>. QED
    BY <1>3, <1>4, <1>5

\* A mode is none or one of its group.
LEMMA ModeIs ==
    ASSUME NEW p, NEW g
    PROVE  Get(p, g) = {} \/ \E f \in Cases(g) : Get(p, g) = {f}
BY ValidIs DEF Get

-----------------------------------------------------------------------------
(* The levels of speed in Pelco.                                            *)

Levels(s, v) == v = encode_speed(s) \/ v = encode_pan_speed(s)

LEMMA LevelIs ==
    ASSUME NEW s \in 0 .. SPEED_MAX, NEW v, Levels(s, v)
    PROVE  /\ v \in 0 .. 64
           /\ 32 * v <= s + 16
           /\ v < 63 => s <= 32 * v + 15
           /\ v = 63 => s <= 2047
<1>0. s \in 0 .. 2047
    BY SerialAssumption
<1>1. PICK a \in 0 .. 63, b \in 0 .. 31, c \in 0 .. 1 :
         s = 32 * a + b /\ a = s \div 32 /\ b = s % 32 /\ c = b \div 16
    <2>1. PICK a \in 0 .. 63, b \in 0 .. 31 : s = 32 * a + b /\ a = s \div 32 /\ b = s % 32
        <3>1. PICK a, b : a = s \div 32 /\ b = s % 32
            OBVIOUS
        <3>2. s = 32 * a + b /\ a \in 0 .. 63 /\ b \in 0 .. 31
            BY <1>0, <3>1
        <3>. QED
            BY <3>1, <3>2
    <2>2. PICK c \in 0 .. 1 : c = b \div 16
        OBVIOUS
    <2>. QED
        BY <2>1, <2>2
<1>2. b < 16 + 16 * c /\ b >= 16 * c
    BY <1>1
<1>3. encode_speed(s) = IF a + c < 64 THEN a + c ELSE 63
    BY <1>1 DEF encode_speed, TURBO_SPEED
<1>4. v = encode_speed(s) \/ (v = 64 /\ s > 2039)
    BY SerialAssumption DEF Levels, encode_pan_speed, TURBO_SPEED
<1>6. CASE v = 64 /\ s > 2039
    <2>1. s + 16 >= 2056 /\ 32 * 64 = 2048
        BY <1>0, <1>6
    <2>. QED
        BY <1>6, <2>1
<1>7. CASE v = encode_speed(s)
    <2>1. CASE a + c < 64
        <3>1. v = a + c
            BY <1>3, <1>7, <2>1
        <3>2. 32 * (a + c) <= s + 16 /\ s <= 32 * (a + c) + 15 /\ a + c \in 0 .. 64
            BY <1>0, <1>1, <1>2, <2>1
        <3>3. a + c = 63 => s <= 2047
            BY <1>0
        <3>. QED
            BY <3>1, <3>2, <3>3
    <2>2. CASE a + c >= 64
        <3>0. ~(a + c < 64) /\ a = 63
            BY <1>1, <2>2
        <3>1. v = 63 /\ a = 63
            BY <1>3, <1>7, <3>0
        <3>. QED
            BY <1>0, <1>1, <3>1
    <2>. QED
        BY <1>1, <2>1, <2>2
<1>. QED
    BY <1>4, <1>6, <1>7

\* A level is decoded to a speed near the one that it was encoded from.
Nearby(dz, s, x) == x <= s + 16 /\ s <= x + (IF dz THEN 224 ELSE 32)

LEMMA SpeedNear ==
    ASSUME NEW dz \in BOOLEAN, NEW s \in 0 .. SPEED_MAX, NEW v, Levels(s, v),
           NEW x, x = decode_speed(dz, v)
    PROVE  x \in 0 .. SPEED_MAX /\ Nearby(dz, s, x)
<1>1. PICK n \in 0 .. 64 : /\ n = v /\ 32 * n <= s + 16
                           /\ n < 63 => s <= 32 * n + 15
                           /\ n = 63 => s <= 2047
    BY LevelIs
<1>2. SPEED_MAX = 2047 /\ s \in 0 .. 2047
    BY SerialAssumption
<1>3. CASE ~dz
    <2>1. x = IF 32 * n > 2047 THEN 2047 ELSE 32 * n
        BY <1>1, <1>2, <1>3 DEF decode_speed
    <2>. QED
        BY <1>1, <1>2, <1>3, <2>1 DEF Nearby
<1>4. CASE dz /\ n < 7
    <2>1. x = 0
        BY <1>1, <1>2, <1>4 DEF decode_speed
    <2>2. s <= 207 /\ 0 <= s + 16 /\ 0 \in 0 .. 2047
        BY <1>1, <1>2, <1>4
    <2>3. (IF dz THEN 224 ELSE 32) = 224
        BY <1>4
    <2>. QED
        BY <1>2, <2>1, <2>2, <2>3 DEF Nearby
<1>5. CASE dz /\ n >= 7
    <2>1. PICK y \in Nat : y = ((n - 6) * 2047) \div 58
        BY <1>5
    <2>2. 58 * y <= (n - 6) * 2047 /\ (n - 6) * 2047 < 58 * y + 58
        BY <1>5, <2>1
    <2>3. y <= 2047
        BY <2>2
    <2>4. x = y
        BY <1>1, <1>2, <1>5, <2>1, <2>3 DEF decode_speed
    <2>5. y <= s + 16 /\ s <= y + 224 /\ y \in 0 .. 2047
        BY <1>1, <1>2, <1>5, <2>2, <2>3
    <2>6. (IF dz THEN 224 ELSE 32) = 224
        BY <1>5
    <2>. QED
        BY <1>2, <2>4, <2>5, <2>6 DEF Nearby
<1>. QED
    BY <1>3, <1>4, <1>5

-----------------------------------------------------------------------------
(* The functions of a command of Pelco.                                     *)

MovesPan(p) == IF ccpacket_has_pan(p) THEN Get(p, "pan") \cap {"pan_left", "pan_right"} ELSE {}

MovesTilt(p) == IF encode_speed(p.tilt) # 0 THEN Get(p, "tilt") ELSE {}

MovesLens(p) == (Get(p, "iris") \cup Get(p, "focus") \cup Get(p, "zoom"))
                    \ {"iris_auto", "focus_auto"}

CommandFunctions(d, p) == MovesPan(p) \cup MovesTilt(p) \cup MovesLens(p) \cup encode_sense(d, p)

\* The first of two functions that is there.
Chosen(fs, f, g) == IF f \in fs THEN {f} ELSE IF g \in fs THEN {g} ELSE {}

LEMMA SenseIs ==
    ASSUME NEW d \in {"pelco_d", "pelco_p"}, NEW p
    PROVE  /\ encode_sense(d, p) \subseteq {"sense", "camera", "camera_on", "auto_pan"} \cap DOMAIN BIT[d]
           /\ "auto_pan" \in encode_sense(d, p) <=> Get(p, "pan") = {"pan_auto"}
           /\ d = "pelco_p" =>
                 /\ "camera" \in encode_sense(d, p) <=> Get(p, "camera") # {}
                 /\ "camera_on" \in encode_sense(d, p) <=> Get(p, "camera") = {"camera_on"}
           /\ d = "pelco_d" =>
                 /\ "sense" \in encode_sense(d, p) <=>
                       Get(p, "camera") = {"camera_on"} \/ Get(p, "pan") = {"pan_auto"}
                 /\ "camera" \in encode_sense(d, p) <=>
                       \/ Get(p, "camera") = {"camera_on"}
                       \/ Get(p, "camera") = {"camera_off"} /\ Get(p, "pan") # {"pan_auto"}
<1>1. Get(p, "camera") = {} \/ Get(p, "camera") = {"camera_on"} \/ Get(p, "camera") = {"camera_off"}
    <2>1. Cases("camera") = {"camera_on", "camera_off"}
        BY DEF Cases, CC
    <2>. QED
        BY <2>1, ModeIs
<1>2. Get(p, "pan") # {"pan_manual"}
    <2>1. "pan_manual" \notin Cases("pan")
        BY DEF Cases
    <2>2. Get(p, "pan") = {} \/ \E f \in Cases("pan") : Get(p, "pan") = {f}
        BY ModeIs
    <2>. QED
        BY <2>1, <2>2
<1>3. PICK c, a : c = Get(p, "camera") /\ a = Get(p, "pan")
    OBVIOUS
<1>4. CASE d = "pelco_p"
    <2>1. encode_sense(d, p) =
             (IF c = {"camera_on"} \/ c = {"camera_off"} THEN {"camera"} ELSE {})
             \cup (IF c = {"camera_on"} THEN {"camera_on"} ELSE {})
             \cup (IF a = {"pan_auto"} THEN {"auto_pan"} ELSE {})
        BY <1>3, <1>4 DEF encode_sense
    <2>2. {"camera", "camera_on", "auto_pan"} \subseteq DOMAIN BIT[d]
        BY <1>4 DEF BIT
    <2>. QED
        BY <1>1, <1>2, <1>3, <1>4, <2>1, <2>2
<1>5. CASE d = "pelco_d"
    <2>1. encode_sense(d, p) =
             IF c = {"camera_on"} \/ a = {"pan_auto"}
             THEN {"sense"} \cup (IF c = {"camera_on"} THEN {"camera"} ELSE {})
                  \cup (IF a = {"pan_auto"} THEN {"auto_pan"} ELSE {})
             ELSE (IF c = {"camera_off"} THEN {"camera"} ELSE {})
                  \cup (IF a = {"pan_manual"} THEN {"auto_pan"} ELSE {})
        BY <1>3, <1>5 DEF encode_sense
    <2>2. {"sense", "camera", "auto_pan"} \subseteq DOMAIN BIT[d]
        BY <1>5 DEF BIT
    <2>. QED
        BY <1>1, <1>2, <1>3, <1>5, <2>1, <2>2
<1>. QED
    BY <1>4, <1>5

LEMMA MovesAre ==
    ASSUME NEW p
    PROVE  /\ MovesPan(p) \in {{}, {"pan_left"}, {"pan_right"}}
           /\ MovesTilt(p) \in {{}, {"tilt_up"}, {"tilt_down"}}
           /\ Get(p, "iris") \in {{}, {"iris_open"}, {"iris_close"}, {"iris_auto"}}
           /\ Get(p, "focus") \in {{}, {"focus_near"}, {"focus_far"}, {"focus_auto"}}
           /\ Get(p, "zoom") \in {{}, {"zoom_in"}, {"zoom_out"}}
<1>1. /\ Cases("pan") = {"pan_left", "pan_right", "pan_auto"}
      /\ Cases("tilt") = {"tilt_up", "tilt_down"}
      /\ Cases("iris") = {"iris_open", "iris_close", "iris_auto"}
      /\ Cases("focus") = {"focus_near", "focus_far", "focus_auto"}
      /\ Cases("zoom") = {"zoom_in", "zoom_out"}
    BY DEF Cases, CC
<1>2. Get(p, "pan") \in {{}, {"pan_left"}, {"pan_right"}, {"pan_auto"}}
    BY <1>1, ModeIs
<1>3. Get(p, "tilt") \in {{}, {"tilt_up"}, {"tilt_down"}}
    BY <1>1, ModeIs
<1>4. MovesPan(p) \in {{}, {"pan_left"}, {"pan_right"}}
    BY <1>2 DEF MovesPan
<1>5. MovesTilt(p) \in {{}, {"tilt_up"}, {"tilt_down"}}
    BY <1>3 DEF MovesTilt
<1>6. Get(p, "iris") \in {{}, {"iris_open"}, {"iris_close"}, {"iris_auto"}}
    BY <1>1, ModeIs
<1>7. Get(p, "focus") \in {{}, {"focus_near"}, {"focus_far"}, {"focus_auto"}}
    BY <1>1, ModeIs
<1>8. Get(p, "zoom") \in {{}, {"zoom_in"}, {"zoom_out"}}
    BY <1>1, ModeIs
<1>. QED
    BY <1>4, <1>5, <1>6, <1>7, <1>8

LEMMA CommandFunctionsAre ==
    ASSUME NEW d \in {"pelco_d", "pelco_p"}, NEW p, NEW fs, fs = CommandFunctions(d, p)
    PROVE  /\ fs \subseteq DOMAIN BIT[d] /\ "extended" \notin fs
           /\ Chosen(fs, "pan_right", "pan_left") = MovesPan(p)
           /\ Chosen(fs, "tilt_up", "tilt_down") = MovesTilt(p)
           /\ Chosen(fs, "iris_open", "iris_close") = Get(p, "iris") \ {"iris_auto"}
           /\ Chosen(fs, "focus_near", "focus_far") = Get(p, "focus") \ {"focus_auto"}
           /\ Chosen(fs, "zoom_in", "zoom_out") = Get(p, "zoom")
           /\ \A f \in {"sense", "camera", "camera_on", "auto_pan"} :
                 f \in fs <=> f \in encode_sense(d, p)
<1>1. PICK a \in {{}, {"pan_left"}, {"pan_right"}} : a = MovesPan(p)
    BY MovesAre
<1>2. PICK b \in {{}, {"tilt_up"}, {"tilt_down"}} : b = MovesTilt(p)
    BY MovesAre
<1>3. PICK i \in {{}, {"iris_open"}, {"iris_close"}, {"iris_auto"}} : i = Get(p, "iris")
    BY MovesAre
<1>4. PICK o \in {{}, {"focus_near"}, {"focus_far"}, {"focus_auto"}} : o = Get(p, "focus")
    BY MovesAre
<1>5. PICK z \in {{}, {"zoom_in"}, {"zoom_out"}} : z = Get(p, "zoom")
    BY MovesAre
<1>6. PICK s : s = encode_sense(d, p) /\ s \subseteq {"sense", "camera", "camera_on", "auto_pan"}
                                              \cap DOMAIN BIT[d]
    BY SenseIs
<1>7. fs = a \cup b \cup ((i \cup o \cup z) \ {"iris_auto", "focus_auto"}) \cup s
    BY <1>1, <1>2, <1>3, <1>4, <1>5, <1>6 DEF CommandFunctions, MovesLens
<1>8. {"pan_left", "pan_right", "tilt_up", "tilt_down", "iris_open", "iris_close",
       "focus_near", "focus_far", "zoom_in", "zoom_out"} \subseteq DOMAIN BIT[d]
    <2>1. CASE d = "pelco_d"
        BY <2>1 DEF BIT
    <2>2. CASE d = "pelco_p"
        BY <2>2 DEF BIT
    <2>. QED
        BY <2>1, <2>2
<1>9. fs \subseteq DOMAIN BIT[d] /\ "extended" \notin fs
    BY <1>6, <1>7, <1>8
<1>10. Chosen(fs, "pan_right", "pan_left") = a
    BY <1>6, <1>7 DEF Chosen
<1>11. Chosen(fs, "tilt_up", "tilt_down") = b
    BY <1>6, <1>7 DEF Chosen
<1>12. Chosen(fs, "iris_open", "iris_close") = i \ {"iris_auto"}
    BY <1>6, <1>7 DEF Chosen
<1>13. Chosen(fs, "focus_near", "focus_far") = o \ {"focus_auto"}
    BY <1>6, <1>7 DEF Chosen
<1>14. Chosen(fs, "zoom_in", "zoom_out") = z
    BY <1>6, <1>7 DEF Chosen
<1>15. \A f \in {"sense", "camera", "camera_on", "auto_pan"} : f \in fs <=> f \in s
    BY <1>6, <1>7
<1>. QED
    BY <1>1, <1>2, <1>3, <1>4, <1>5, <1>6, <1>9, <1>10, <1>11, <1>12, <1>13, <1>14, <1>15

-----------------------------------------------------------------------------
(* What a command of Pelco gives.                                           *)

LEMMA ChosenIs ==
    ASSUME NEW d, NEW m, NEW fs, Functional(d, m, fs),
           NEW f \in DOMAIN BIT[d], NEW g \in DOMAIN BIT[d]
    PROVE  First(d, m, <<f, g>>) = Chosen(fs, f, g)
BY FirstIs DEF Chosen

\* A mode, or none, of a group that is not set yet.
LEMMA SetIfSets ==
    ASSUME NEW p \in PacketType, NEW g \in Groups, Get(p, g) = {},
           NEW v, v = {} \/ \E f \in Cases(g) : v = {f}, NEW q, q = SetIf(p, g, v)
    PROVE  Sets(p, q, g, v) /\ Same(p, q)
<1>1. CASE v = {}
    BY <1>1 DEF SetIf, Sets, Same
<1>2. CASE v # {}
    <2>1. q = Set(p, g, v) /\ Valid(g, v) = v
        BY <1>2, ValidOne DEF SetIf
    <2>. QED
        BY <2>1, SetSets
<1>. QED
    BY <1>1, <1>2

\* The pan that the bits for a direction give, and that for an automatic pan.
PanGiven(q, dz, p) ==
    IF MovesPan(p) = {} THEN Get(q, "pan") = {"pan_left"} /\ q.pan = 0
    ELSE Get(q, "pan") = MovesPan(p) /\ q.pan = decode_speed(dz, encode_pan_speed(p.pan))

AutoGiven(q, dz, p) ==
    IF Get(p, "pan") = {"pan_auto"} THEN Get(q, "pan") = {"pan_auto"} /\ q.pan = 0
    ELSE PanGiven(q, dz, p)

TiltGiven(q, dz, p) ==
    IF MovesTilt(p) = {} THEN Get(q, "tilt") = {"tilt_down"} /\ q.tilt = 0
    ELSE Get(q, "tilt") = MovesTilt(p) /\ q.tilt = decode_speed(dz, encode_speed(p.tilt))

LensGiven(q, p) ==
    /\ Get(q, "iris") = Get(p, "iris") \ {"iris_auto"}
    /\ Get(q, "focus") = Get(p, "focus") \ {"focus_auto"}
    /\ Get(q, "zoom") = Get(p, "zoom")

CameraGiven(q, d, p) ==
    Get(q, "camera") =
        IF d = "pelco_d" /\ Get(p, "camera") = {"camera_off"} /\ Get(p, "pan") = {"pan_auto"}
        THEN {} ELSE Get(p, "camera")

Ungiven(q, gs) == \A g \in gs : Get(q, g) = {}

\* A message that has these functions and speeds.
Commanded(d, m, fs, p) ==
    /\ Functional(d, m, fs) /\ fs = CommandFunctions(d, p)
    /\ MovesPan(p) # {} => m[4] = encode_pan_speed(p.pan)
    /\ MovesTilt(p) # {} => m[5] = encode_speed(p.tilt)

LEMMA Commanding ==
    ASSUME NEW d \in {"pelco_d", "pelco_p"}, NEW r, NEW p \in PacketType,
           NEW m, m = encode_command(d, r, p)
    PROVE  m[1] = r /\ \E fs : Commanded(d, m, fs, p)
<1>1. PICK fs : fs = CommandFunctions(d, p)
    OBVIOUS
<1>2. PICK bits : bits = {BIT[d][f] : f \in fs}
    OBVIOUS
<1>3. PICK e : e = IF ccpacket_has_pan(p) /\ MovesPan(p) = {} THEN 0 ELSE encode_pan_speed(p.pan)
    OBVIOUS
<1>4. PICK f : f = IF MovesTilt(p) = {} THEN 0 ELSE encode_speed(p.tilt)
    OBVIOUS
<1>5. m = Frame(d, r, Octet(bits, 2), Octet(bits, 3), e, f)
    BY <1>1, <1>2, <1>3, <1>4, Zenon
       DEF encode_command, CommandFunctions, MovesPan, MovesTilt, MovesLens
<1>6. m[1] = r /\ m[4] = e /\ m[5] = f
    BY <1>5, FrameFields
<1>7. fs \in SUBSET DOMAIN BIT[d]
    BY <1>1, CommandFunctionsAre
<1>8. Functional(d, m, fs)
    BY <1>2, <1>5, <1>7, FrameFunctions
<1>. QED
    BY <1>1, <1>3, <1>4, <1>6, <1>8 DEF Commanded

LEMMA PanDecoded ==
    ASSUME NEW d \in {"pelco_d", "pelco_p"}, NEW dz \in BOOLEAN, NEW p \in PacketType,
           NEW m, NEW fs, Commanded(d, m, fs, p),
           NEW x \in PacketType, NEW q, q = decode_pan(d, dz, x, m)
    PROVE  /\ q \in PacketType /\ PanGiven(q, dz, p)
           /\ q.tilt = x.tilt /\ \A g \in Groups \ {"pan"} : Get(q, g) = Get(x, g)
<1>1. Functional(d, m, fs) /\ fs = CommandFunctions(d, p)
    BY DEF Commanded
<1>2. "pan_right" \in DOMAIN BIT[d] /\ "pan_left" \in DOMAIN BIT[d]
    BY DEF BIT
<1>3. First(d, m, <<"pan_right", "pan_left">>) = MovesPan(p)
    BY <1>1, <1>2, ChosenIs, CommandFunctionsAre
<1>4. PICK f, s : f = (IF MovesPan(p) = {} THEN {"pan_left"} ELSE MovesPan(p))
                  /\ s = IF MovesPan(p) = {} THEN 0 ELSE decode_speed(dz, m[4])
    OBVIOUS
<1>5. q = ccpacket_set_pan(x, f, s)
    BY <1>3, <1>4 DEF decode_pan
<1>6. s \in 0 .. SPEED_MAX /\ (MovesPan(p) # {} => s = decode_speed(dz, encode_pan_speed(p.pan)))
    <2>1. CASE MovesPan(p) = {}
        BY <1>4, <2>1, PacketAssumption
    <2>2. CASE MovesPan(p) # {}
        <3>1. PICK a \in 0 .. SPEED_MAX : a = p.pan
            BY DEF PacketType
        <3>2. m[4] = encode_pan_speed(a) /\ s = decode_speed(dz, m[4])
            BY <1>4, <2>2, <3>1 DEF Commanded
        <3>. QED
            BY <3>1, <3>2, SpeedNear DEF Levels
    <2>. QED
        BY <2>1, <2>2
<1>7. f = {"pan_left"} \/ f = {"pan_right"}
    BY <1>4, MovesAre
<1>8. Valid("pan", f) = f
    <2>1. "pan_left" \in Cases("pan") /\ "pan_right" \in Cases("pan")
        BY DEF Cases, CC
    <2>. QED
        BY <1>7, <2>1, ValidOne
<1>9. Sets(x, q, "pan", f) /\ q.pan = s /\ q.tilt = x.tilt
    BY <1>5, <1>6, <1>8, PanSets
<1>10. "pan" \in Groups
    BY GroupNames
<1>11. q \in PacketType /\ Get(q, "pan") = f /\ \A g \in Groups \ {"pan"} : Get(q, g) = Get(x, g)
    BY <1>9, <1>10 DEF Sets
<1>. QED
    BY <1>4, <1>6, <1>9, <1>11 DEF PanGiven

LEMMA TiltDecoded ==
    ASSUME NEW d \in {"pelco_d", "pelco_p"}, NEW dz \in BOOLEAN, NEW p \in PacketType,
           NEW m, NEW fs, Commanded(d, m, fs, p),
           NEW x \in PacketType, NEW q, q = decode_tilt(d, dz, x, m)
    PROVE  /\ q \in PacketType /\ TiltGiven(q, dz, p)
           /\ q.pan = x.pan /\ \A g \in Groups \ {"tilt"} : Get(q, g) = Get(x, g)
<1>1. Functional(d, m, fs) /\ fs = CommandFunctions(d, p)
    BY DEF Commanded
<1>2. "tilt_up" \in DOMAIN BIT[d] /\ "tilt_down" \in DOMAIN BIT[d]
    BY DEF BIT
<1>3. First(d, m, <<"tilt_up", "tilt_down">>) = MovesTilt(p)
    BY <1>1, <1>2, ChosenIs, CommandFunctionsAre
<1>4. PICK f, s : f = (IF MovesTilt(p) = {} THEN {"tilt_down"} ELSE MovesTilt(p))
                  /\ s = IF MovesTilt(p) = {} THEN 0 ELSE decode_speed(dz, m[5])
    OBVIOUS
<1>5. q = ccpacket_set_tilt(x, f, s)
    BY <1>3, <1>4 DEF decode_tilt
<1>6. s \in 0 .. SPEED_MAX /\ (MovesTilt(p) # {} => s = decode_speed(dz, encode_speed(p.tilt)))
    <2>1. CASE MovesTilt(p) = {}
        BY <1>4, <2>1, PacketAssumption
    <2>2. CASE MovesTilt(p) # {}
        <3>1. PICK a \in 0 .. SPEED_MAX : a = p.tilt
            BY DEF PacketType
        <3>2. m[5] = encode_speed(a) /\ s = decode_speed(dz, m[5])
            BY <1>4, <2>2, <3>1 DEF Commanded
        <3>. QED
            BY <3>1, <3>2, SpeedNear DEF Levels
    <2>. QED
        BY <2>1, <2>2
<1>7. f = {"tilt_up"} \/ f = {"tilt_down"}
    BY <1>4, MovesAre
<1>8. Valid("tilt", f) = f
    <2>1. "tilt_up" \in Cases("tilt") /\ "tilt_down" \in Cases("tilt")
        BY DEF Cases, CC
    <2>. QED
        BY <1>7, <2>1, ValidOne
<1>9. Sets(x, q, "tilt", f) /\ q.tilt = s /\ q.pan = x.pan
    BY <1>5, <1>6, <1>8, TiltSets
<1>10. "tilt" \in Groups
    BY GroupNames
<1>11. q \in PacketType /\ Get(q, "tilt") = f /\ \A g \in Groups \ {"tilt"} : Get(q, g) = Get(x, g)
    BY <1>9, <1>10 DEF Sets
<1>. QED
    BY <1>4, <1>6, <1>9, <1>11 DEF TiltGiven

LEMMA LensDecoded ==
    ASSUME NEW d \in {"pelco_d", "pelco_p"}, NEW p \in PacketType,
           NEW m, NEW fs, Functional(d, m, fs), fs = CommandFunctions(d, p),
           NEW x \in PacketType, Ungiven(x, {"iris", "focus", "zoom"}),
           NEW q, q = decode_lens(d, x, m)
    PROVE  /\ q \in PacketType /\ LensGiven(q, p) /\ q.pan = x.pan /\ q.tilt = x.tilt
           /\ \A g \in Groups \ {"iris", "focus", "zoom"} : Get(q, g) = Get(x, g)
<1>1. PICK i, o, z : /\ i = First(d, m, <<"iris_open", "iris_close">>)
                     /\ o = First(d, m, <<"focus_near", "focus_far">>)
                     /\ z = First(d, m, <<"zoom_in", "zoom_out">>)
    OBVIOUS
<1>2. /\ {"iris_open", "iris_close", "focus_near", "focus_far", "zoom_in", "zoom_out"}
            \subseteq DOMAIN BIT[d]
    <2>1. CASE d = "pelco_d"
        BY <2>1 DEF BIT
    <2>2. CASE d = "pelco_p"
        BY <2>2 DEF BIT
    <2>. QED
        BY <2>1, <2>2
<1>3. i = Get(p, "iris") \ {"iris_auto"}
    BY <1>1, <1>2, ChosenIs, CommandFunctionsAre
<1>4. o = Get(p, "focus") \ {"focus_auto"}
    BY <1>1, <1>2, ChosenIs, CommandFunctionsAre
<1>5. z = Get(p, "zoom")
    BY <1>1, <1>2, ChosenIs, CommandFunctionsAre
<1>6. PICK a, b : a = SetIf(x, "iris", i) /\ b = SetIf(a, "focus", o)
    OBVIOUS
<1>7. q = SetIf(b, "zoom", z)
    BY <1>1, <1>6 DEF decode_lens
<1>8. {"iris", "focus", "zoom"} \subseteq Groups
    BY GroupNames
<1>9. Sets(x, a, "iris", i) /\ Same(x, a)
    <2>1. i = {} \/ \E f \in Cases("iris") : i = {f}
        BY <1>3, ModeIs
    <2>. QED
        BY <1>6, <1>8, <2>1, SetIfSets DEF Ungiven
<1>10. Sets(a, b, "focus", o) /\ Same(a, b)
    <2>1. o = {} \/ \E f \in Cases("focus") : o = {f}
        BY <1>4, ModeIs
    <2>2. a \in PacketType /\ Get(a, "focus") = {}
        BY <1>8, <1>9 DEF Sets, Ungiven
    <2>. QED
        BY <1>6, <1>8, <2>1, <2>2, SetIfSets
<1>11. Sets(b, q, "zoom", z) /\ Same(b, q)
    <2>1. z = {} \/ \E f \in Cases("zoom") : z = {f}
        BY <1>5, ModeIs
    <2>2. b \in PacketType /\ Get(b, "zoom") = {}
        BY <1>8, <1>9, <1>10 DEF Sets, Ungiven
    <2>. QED
        BY <1>7, <1>8, <2>1, <2>2, SetIfSets
<1>12. q \in PacketType /\ q.pan = x.pan /\ q.tilt = x.tilt
    BY <1>9, <1>10, <1>11 DEF Sets, Same
<1>13. Get(q, "iris") = i /\ Get(q, "focus") = o /\ Get(q, "zoom") = z
    BY <1>8, <1>9, <1>10, <1>11 DEF Sets
<1>14. \A g \in Groups \ {"iris", "focus", "zoom"} : Get(q, g) = Get(x, g)
    BY <1>9, <1>10, <1>11 DEF Sets
<1>. QED
    BY <1>3, <1>4, <1>5, <1>12, <1>13, <1>14 DEF LensGiven

LEMMA SenseDecoded ==
    ASSUME NEW d \in {"pelco_d", "pelco_p"}, NEW dz \in BOOLEAN, NEW p \in PacketType,
           NEW m, NEW fs, Functional(d, m, fs), fs = CommandFunctions(d, p),
           NEW x \in PacketType, Get(x, "camera") = {}, PanGiven(x, dz, p),
           NEW q, q = decode_sense(d, x, m)
    PROVE  /\ q \in PacketType /\ AutoGiven(q, dz, p) /\ CameraGiven(q, d, p)
           /\ q.tilt = x.tilt /\ \A g \in Groups \ {"pan", "camera"} : Get(q, g) = Get(x, g)
<1> DEFINE on(f) == f \in DOMAIN BIT[d] /\ bit_is_set(m, BIT[d][f])
<1>1. \A f \in {"sense", "camera", "camera_on", "auto_pan"} : on(f) <=> f \in encode_sense(d, p)
    <2>1. \A f \in DOMAIN BIT[d] : bit_is_set(m, BIT[d][f]) <=> f \in fs
        BY DEF Functional
    <2>2. \A f \in {"sense", "camera", "camera_on", "auto_pan"} : f \in fs <=> f \in encode_sense(d, p)
        BY CommandFunctionsAre
    <2>3. encode_sense(d, p) \subseteq DOMAIN BIT[d]
        BY SenseIs
    <2>. QED
        BY <2>1, <2>2, <2>3
<1>2. PICK w, a : /\ w = (IF on("camera")
                          THEN IF on("sense") \/ on("camera_on") THEN {"camera_on"} ELSE {"camera_off"}
                          ELSE {})
                  /\ a = IF d = "pelco_p" \/ on("sense") THEN {"pan_auto"} ELSE {"pan_manual"}
    OBVIOUS
<1>3. PICK y : y = SetIf(x, "camera", w)
    OBVIOUS
<1>4. q = IF on("auto_pan") THEN ccpacket_set_pan(y, a, 0) ELSE y
    BY <1>2, <1>3 DEF decode_sense
<1>. HIDE DEF on
<1>5. Get(p, "camera") = {} \/ Get(p, "camera") = {"camera_on"} \/ Get(p, "camera") = {"camera_off"}
    <2>1. Cases("camera") = {"camera_on", "camera_off"}
        BY DEF Cases, CC
    <2>. QED
        BY <2>1, ModeIs
<1>6. w = IF d = "pelco_d" /\ Get(p, "camera") = {"camera_off"} /\ Get(p, "pan") = {"pan_auto"}
          THEN {} ELSE Get(p, "camera")
    <2>1. CASE d = "pelco_p"
        <3>1. /\ on("camera") <=> Get(p, "camera") # {}
              /\ on("camera_on") <=> Get(p, "camera") = {"camera_on"}
            BY <1>1, <2>1, SenseIs
        <3>2. ~on("sense")
            <4>1. "sense" \notin DOMAIN BIT[d]
                BY <2>1 DEF BIT
            <4>. QED
                BY <4>1 DEF on
        <3>. QED
            BY <1>2, <1>5, <2>1, <3>1, <3>2
    <2>2. CASE d = "pelco_d"
        <3>1. /\ on("sense") <=> Get(p, "camera") = {"camera_on"} \/ Get(p, "pan") = {"pan_auto"}
              /\ on("camera") <=> \/ Get(p, "camera") = {"camera_on"}
                                  \/ Get(p, "camera") = {"camera_off"} /\ Get(p, "pan") # {"pan_auto"}
            BY <1>1, <2>2, SenseIs
        <3>2. ~on("camera_on")
            <4>1. "camera_on" \notin DOMAIN BIT[d]
                BY <2>2 DEF BIT
            <4>. QED
                BY <4>1 DEF on
        <3>. QED
            BY <1>2, <1>5, <2>2, <3>1, <3>2
    <2>. QED
        BY <2>1, <2>2
<1>7. {"camera", "pan"} \subseteq Groups
    BY GroupNames
<1>8. Sets(x, y, "camera", w) /\ Same(x, y)
    <2>1. w = {} \/ \E f \in Cases("camera") : w = {f}
        BY <1>6, ModeIs
    <2>. QED
        BY <1>3, <1>7, <2>1, SetIfSets
<1>9. y \in PacketType /\ Get(y, "camera") = w /\ y.tilt = x.tilt /\ y.pan = x.pan
      /\ \A g \in Groups \ {"camera"} : Get(y, g) = Get(x, g)
    BY <1>7, <1>8 DEF Sets, Same
<1>10. on("auto_pan") <=> Get(p, "pan") = {"pan_auto"}
    BY <1>1, SenseIs
<1>11. CASE on("auto_pan")
    <2>1. a = {"pan_auto"}
        <3>1. d = "pelco_d" => on("sense")
            BY <1>1, <1>10, <1>11, SenseIs
        <3>. QED
            BY <1>2, <3>1
    <2>2. Valid("pan", a) = a
        <3>1. "pan_auto" \in Cases("pan")
            BY DEF Cases, CC
        <3>. QED
            BY <2>1, <3>1, ValidOne
    <2>3. Sets(y, q, "pan", a) /\ q.pan = 0 /\ q.tilt = y.tilt
        <3>1. PICK s \in 0 .. SPEED_MAX : s = 0
            BY PacketAssumption
        <3>2. q = ccpacket_set_pan(y, a, s)
            BY <1>4, <1>11, <3>1
        <3>. QED
            BY <1>9, <2>2, <3>1, <3>2, PanSets
    <2>4. q \in PacketType /\ Get(q, "pan") = a /\ \A g \in Groups \ {"pan"} : Get(q, g) = Get(y, g)
        BY <1>7, <2>3 DEF Sets
    <2>5. Get(q, "camera") = w
        BY <1>7, <1>9, <2>4
    <2>. QED
        BY <1>6, <1>9, <1>10, <1>11, <2>1, <2>3, <2>4, <2>5 DEF AutoGiven, CameraGiven
<1>12. CASE ~on("auto_pan")
    <2>1. q = y
        BY <1>4, <1>12
    <2>2. Get(q, "pan") = Get(x, "pan") /\ q.pan = x.pan
        BY <1>7, <1>9, <2>1
    <2>3. AutoGiven(q, dz, p)
        BY <1>10, <1>12, <2>2 DEF AutoGiven, PanGiven
    <2>. QED
        BY <1>6, <1>9, <2>1, <2>3 DEF CameraGiven
<1>. QED
    BY <1>11, <1>12

CommandGiven(q, d, dz, p) ==
    /\ q \in PacketType
    /\ AutoGiven(q, dz, p) /\ TiltGiven(q, dz, p) /\ LensGiven(q, p) /\ CameraGiven(q, d, p)
    /\ Ungiven(q, {"menu", "preset", "lens", "wiper", "ack"})

LEMMA CommandDecoded ==
    ASSUME NEW d \in {"pelco_d", "pelco_p"}, NEW dz \in BOOLEAN, NEW r, NEW p \in PacketType,
           NEW m, m = encode_command(d, r, p), NEW q, q = decode(d, dz, m).pkt
    PROVE  decode(d, dz, m).receiver = r /\ CommandGiven(q, d, dz, p)
<1>1. m[1] = r
    BY Commanding
<1>2. PICK fs : Commanded(d, m, fs, p)
    BY Commanding
<1>3. Functional(d, m, fs) /\ fs = CommandFunctions(d, p)
    BY <1>2 DEF Commanded
<1>4. ~bit_is_set(m, BIT[d].extended)
    <2>1. "extended" \in DOMAIN BIT[d] /\ BIT[d].extended = BIT[d]["extended"]
        BY DEF BIT
    <2>2. "extended" \notin fs
        BY <1>3, CommandFunctionsAre
    <2>. QED
        BY <1>3, <2>1, <2>2 DEF Functional
<1>5. PICK a, b, c : /\ a = decode_pan(d, dz, Cleared, m)
                     /\ b = decode_tilt(d, dz, a, m)
                     /\ c = decode_lens(d, b, m)
    OBVIOUS
<1>6. decode(d, dz, m).receiver = r /\ q = decode_sense(d, c, m)
    BY <1>1, <1>4, <1>5 DEF decode
<1>7. Cleared \in PacketType /\ \A g : Get(Cleared, g) = {}
    BY ClearedIs
<1>8. a \in PacketType /\ PanGiven(a, dz, p) /\ \A g \in Groups \ {"pan"} : Get(a, g) = {}
    BY <1>2, <1>5, <1>7, PanDecoded
<1>9. /\ b \in PacketType /\ TiltGiven(b, dz, p) /\ b.pan = a.pan
      /\ \A g \in Groups \ {"tilt"} : Get(b, g) = Get(a, g)
    BY <1>2, <1>5, <1>8, TiltDecoded
<1>10. \A g \in Groups \ {"pan", "tilt"} : Get(b, g) = {}
    BY <1>8, <1>9
<1>11. {"menu", "camera", "pan", "tilt", "preset", "zoom", "focus", "iris", "lens", "wiper", "ack"}
          \subseteq Groups
    BY GroupNames
<1>12. PanGiven(b, dz, p)
    BY <1>8, <1>9, <1>11 DEF PanGiven
<1>13. /\ c \in PacketType /\ LensGiven(c, p) /\ c.pan = b.pan /\ c.tilt = b.tilt
       /\ \A g \in Groups \ {"iris", "focus", "zoom"} : Get(c, g) = Get(b, g)
    <2>1. Ungiven(b, {"iris", "focus", "zoom"})
        BY <1>10, <1>11 DEF Ungiven
    <2>. QED
        BY <1>3, <1>5, <1>9, <2>1, LensDecoded
<1>14. PanGiven(c, dz, p) /\ TiltGiven(c, dz, p) /\ Get(c, "camera") = {}
    <2>1. PanGiven(c, dz, p)
        BY <1>11, <1>12, <1>13 DEF PanGiven
    <2>2. TiltGiven(c, dz, p)
        BY <1>9, <1>11, <1>13 DEF TiltGiven
    <2>3. Get(c, "camera") = {}
        BY <1>10, <1>11, <1>13
    <2>. QED
        BY <2>1, <2>2, <2>3
<1>15. /\ q \in PacketType /\ AutoGiven(q, dz, p) /\ CameraGiven(q, d, p)
       /\ q.tilt = c.tilt /\ \A g \in Groups \ {"pan", "camera"} : Get(q, g) = Get(c, g)
    BY <1>3, <1>6, <1>13, <1>14, SenseDecoded
<1>16. TiltGiven(q, dz, p)
    BY <1>11, <1>14, <1>15 DEF TiltGiven
<1>17. LensGiven(q, p)
    BY <1>11, <1>13, <1>15 DEF LensGiven
<1>18. Ungiven(q, {"menu", "preset", "lens", "wiper", "ack"})
    BY <1>10, <1>11, <1>13, <1>15 DEF Ungiven
<1>. QED
    BY <1>6, <1>15, <1>16, <1>17, <1>18 DEF CommandGiven

-----------------------------------------------------------------------------
(* What a packet that was decoded says.                                     *)

\* A packet that can be asked for: nothing leaves a menu mode in one, or a speed
\* without a direction.
Askable(p) ==
    /\ p \in PacketType /\ Get(p, "menu") = {}
    /\ p.pan # 0 => Get(p, "pan") # {}
    /\ p.tilt # 0 => Get(p, "tilt") # {}

LEMMA PacketsAskable ==
    ASSUME NEW p \in Packets
    PROVE  Askable(p)
BY PacketsAre, SerialAssumption DEF Askable

\* What packet q says of group g is what p asks of it.
Answers(q, p, g) == Get(q, g) # {} => Fulfils(p, g, Entry(q, g))

\* Packet q says what p asks of the groups gs, and nothing else.
PacketSays(q, p, gs) ==
    \A g \in Groups : (Get(q, g) # {} <=> g \in gs /\ Carried(p, g)) /\ Answers(q, p, g)

\* The groups with nothing but a mode.
Plain == Groups \ {"pan", "tilt", "preset"}

LEMMA EntryIs ==
    ASSUME NEW p
    PROVE  /\ \A g \in Plain : Entry(p, g) = <<Get(p, g), 0>>
           /\ Entry(p, "pan") = Motion(Get(p, "pan"), p.pan)
           /\ Entry(p, "tilt") = Motion(Get(p, "tilt"), p.tilt)
           /\ Entry(p, "preset") = <<ccpacket_get_preset_mode(p), p.preset>>
BY DEF Entry, Plain

\* The same mode of a group that has nothing else.
LEMMA PlainAnswers ==
    ASSUME NEW p, NEW q, NEW g \in Plain, Get(q, g) # {} => Get(q, g) = Get(p, g)
    PROVE  Answers(q, p, g)
<1>1. Entry(p, g) = <<Get(p, g), 0>> /\ Entry(q, g) = <<Get(q, g), 0>>
    BY EntryIs
<1>2. g \notin {"pan", "tilt"} /\ g # "preset"
    BY DEF Plain
<1>. QED
    BY <1>1, <1>2 DEF Answers, Fulfils

LEMMA MotionIs ==
    ASSUME NEW m, NEW s
    PROVE  /\ m = {"pan_auto"} => Motion(m, s) = <<m, 0>>
           /\ m = {} \/ (s = 0 /\ m # {"pan_auto"}) => Motion(m, s) = Still
           /\ m # {} /\ s # 0 /\ m # {"pan_auto"} => Motion(m, s) = <<m, s>>
<1>1. {"pan_auto"} # {}
    OBVIOUS
<1>. QED
    BY <1>1 DEF Motion

LEMMA StillIs == Still[1] = {} /\ Still[2] = 0
BY DEF Still

LEMMA PanAnswers ==
    ASSUME NEW p, Askable(p), NEW q, AutoGiven(q, Deadzone, p), Codec # "vicon"
    PROVE  Get(q, "pan") # {} /\ Answers(q, p, "pan")
<1>1. PICK s \in 0 .. SPEED_MAX : s = p.pan
    BY DEF Askable, PacketType
<1>2. SPEED_MAX \in Nat
    BY PacketAssumption
<1>3. Deadzone \in BOOLEAN
    BY DEF Deadzone
<1>4. Near(0, 0)
    BY <1>3 DEF Near
<1>5. /\ Entry(p, "pan") = Motion(Get(p, "pan"), s)
      /\ Entry(q, "pan") = Motion(Get(q, "pan"), q.pan)
    BY <1>1, EntryIs
<1>6. Get(p, "pan") \in {{}, {"pan_left"}, {"pan_right"}, {"pan_auto"}}
    <2>1. Cases("pan") = {"pan_left", "pan_right", "pan_auto"}
        BY DEF Cases, CC
    <2>. QED
        BY <2>1, ModeIs
<1>7. {"pan_left"} # {"pan_auto"} /\ {"pan_right"} # {"pan_auto"} /\ {"pan_left"} # {}
      /\ {"pan_right"} # {} /\ {"pan_auto"} # {}
    OBVIOUS
<1>8. ASSUME NEW a, NEW e, Entry(p, "pan") = a, Entry(q, "pan") = e,
             e[1] = a[1] \/ e = Still, Near(a[2], e[2])
      PROVE  Answers(q, p, "pan")
    BY <1>8 DEF Answers, Fulfils
<1>9. CASE Get(p, "pan") = {"pan_auto"}
    <2>1. Get(q, "pan") = {"pan_auto"}
        BY <1>9 DEF AutoGiven
    <2>2. Entry(p, "pan") = <<{"pan_auto"}, 0>> /\ Entry(q, "pan") = <<{"pan_auto"}, 0>>
        BY <1>5, <1>9, <2>1, MotionIs
    <2>. QED
        BY <1>4, <1>7, <1>8, <2>1, <2>2
<1>10. CASE Get(p, "pan") # {"pan_auto"} /\ MovesPan(p) = {}
    <2>1. Get(q, "pan") = {"pan_left"} /\ q.pan = 0
        BY <1>10 DEF AutoGiven, PanGiven
    <2>2. Entry(q, "pan") = Still
        BY <1>5, <1>7, <2>1, MotionIs
    <2>3. Get(p, "pan") = {} \/ s = 0
        BY <1>1, <1>6, <1>10 DEF MovesPan, ccpacket_has_pan
    <2>4. Entry(p, "pan") = Still
        BY <1>5, <1>10, <2>3, MotionIs
    <2>. QED
        BY <1>4, <1>7, <1>8, <2>1, <2>2, <2>4, StillIs
<1>11. CASE Get(p, "pan") # {"pan_auto"} /\ MovesPan(p) # {}
    <2>1. Get(q, "pan") = MovesPan(p) /\ q.pan = decode_speed(Deadzone, encode_pan_speed(s))
        BY <1>1, <1>11 DEF AutoGiven, PanGiven
    <2>2. MovesPan(p) = Get(p, "pan") /\ s # 0
        BY <1>1, <1>6, <1>11 DEF MovesPan, ccpacket_has_pan
    <2>3. PICK x \in 0 .. SPEED_MAX : x = q.pan /\ Nearby(Deadzone, s, x)
        BY <1>3, <2>1, SpeedNear DEF Levels
    <2>4. Near(s, x)
        BY <2>3 DEF Near, Nearby
    <2>5. Entry(p, "pan") = <<Get(p, "pan"), s>>
        BY <1>5, <1>11, <2>2, MotionIs
    <2>6. CASE x = 0
        <3>1. Entry(q, "pan") = Still
            BY <1>5, <1>11, <2>1, <2>2, <2>3, <2>6, MotionIs
        <3>2. Answers(q, p, "pan")
            BY <1>8, <2>4, <2>5, <2>6, <3>1, StillIs
        <3>. QED
            BY <1>11, <2>1, <3>2
    <2>7. CASE x # 0
        <3>1. Entry(q, "pan") = <<Get(p, "pan"), x>>
            BY <1>5, <1>11, <2>1, <2>2, <2>3, <2>7, MotionIs
        <3>2. Answers(q, p, "pan")
            BY <1>8, <2>4, <2>5, <3>1
        <3>. QED
            BY <1>11, <2>1, <3>2
    <2>. QED
        BY <2>6, <2>7
<1>. QED
    BY <1>9, <1>10, <1>11

LEMMA TiltAnswers ==
    ASSUME NEW p, Askable(p), NEW q, TiltGiven(q, Deadzone, p), Codec # "vicon"
    PROVE  Get(q, "tilt") # {} /\ Answers(q, p, "tilt")
<1>1. PICK s \in 0 .. SPEED_MAX : s = p.tilt
    BY DEF Askable, PacketType
<1>2. SPEED_MAX \in Nat
    BY PacketAssumption
<1>3. Deadzone \in BOOLEAN
    BY DEF Deadzone
<1>5. /\ Entry(p, "tilt") = Motion(Get(p, "tilt"), s)
      /\ Entry(q, "tilt") = Motion(Get(q, "tilt"), q.tilt)
    BY <1>1, EntryIs
<1>6. Get(p, "tilt") \in {{}, {"tilt_up"}, {"tilt_down"}}
    <2>1. Cases("tilt") = {"tilt_up", "tilt_down"}
        BY DEF Cases, CC
    <2>. QED
        BY <2>1, ModeIs
<1>7. {"tilt_up"} # {"pan_auto"} /\ {"tilt_down"} # {"pan_auto"} /\ {"tilt_up"} # {}
      /\ {"tilt_down"} # {} /\ {} # {"pan_auto"}
    OBVIOUS
<1>8. ASSUME NEW a, NEW e, Entry(p, "tilt") = a, Entry(q, "tilt") = e,
             e[1] = a[1] \/ e = Still, Near(a[2], e[2])
      PROVE  Answers(q, p, "tilt")
    BY <1>8 DEF Answers, Fulfils
<1>10. CASE MovesTilt(p) = {}
    <2>1. Get(q, "tilt") = {"tilt_down"} /\ q.tilt = 0
        BY <1>10 DEF TiltGiven
    <2>2. Entry(q, "tilt") = Still
        BY <1>5, <1>7, <2>1, MotionIs
    <2>3. Get(p, "tilt") = {} \/ encode_speed(s) = 0
        BY <1>1, <1>10 DEF MovesTilt
    <2>4. PICK x \in 0 .. 15 : Entry(p, "tilt")[2] = x
        <3>1. CASE Get(p, "tilt") = {} \/ s = 0
            <4>1. Entry(p, "tilt") = Still
                BY <1>5, <1>6, <1>7, <3>1, MotionIs
            <4>. QED
                BY <4>1, StillIs
        <3>2. CASE Get(p, "tilt") # {} /\ s # 0
            <4>1. Entry(p, "tilt") = <<Get(p, "tilt"), s>>
                BY <1>5, <1>6, <1>7, <3>2, MotionIs
            <4>2. s \in 0 .. 15
                <5>1. Levels(s, 0)
                    BY <2>3, <3>2 DEF Levels
                <5>2. s <= 15
                    BY <5>1, LevelIs
                <5>. QED
                    BY <1>2, <5>2
            <4>. QED
                BY <4>1, <4>2
        <3>. QED
            BY <3>1, <3>2
    <2>5. Near(x, 0)
        BY <1>3 DEF Near
    <2>6. Answers(q, p, "tilt")
        BY <1>8, <2>2, <2>4, <2>5, StillIs
    <2>. QED
        BY <1>7, <2>1, <2>6
<1>11. CASE MovesTilt(p) # {}
    <2>1. Get(q, "tilt") = MovesTilt(p) /\ q.tilt = decode_speed(Deadzone, encode_speed(s))
        BY <1>1, <1>11 DEF TiltGiven
    <2>2. MovesTilt(p) = Get(p, "tilt") /\ s # 0
        <3>1. MovesTilt(p) = Get(p, "tilt") /\ encode_speed(s) # 0
            BY <1>1, <1>11 DEF MovesTilt
        <3>2. encode_speed(0) = 0
            BY DEF encode_speed, TURBO_SPEED
        <3>. QED
            BY <3>1, <3>2
    <2>3. PICK x \in 0 .. SPEED_MAX : x = q.tilt /\ Nearby(Deadzone, s, x)
        BY <1>3, <2>1, SpeedNear DEF Levels
    <2>4. Near(s, x)
        BY <2>3 DEF Near, Nearby
    <2>5. Entry(p, "tilt") = <<Get(p, "tilt"), s>>
        BY <1>5, <1>6, <1>7, <1>11, <2>2, MotionIs
    <2>6. CASE x = 0
        <3>1. Entry(q, "tilt") = Still
            BY <1>5, <1>6, <1>7, <2>1, <2>2, <2>3, <2>6, MotionIs
        <3>2. Answers(q, p, "tilt")
            BY <1>8, <2>4, <2>5, <2>6, <3>1, StillIs
        <3>. QED
            BY <1>11, <2>1, <3>2
    <2>7. CASE x # 0
        <3>1. Entry(q, "tilt") = <<Get(p, "tilt"), x>>
            BY <1>5, <1>6, <1>7, <1>11, <2>1, <2>2, <2>3, <2>7, MotionIs
        <3>2. Answers(q, p, "tilt")
            BY <1>8, <2>4, <2>5, <3>1
        <3>. QED
            BY <1>11, <2>1, <3>2
    <2>. QED
        BY <2>6, <2>7
<1>. QED
    BY <1>10, <1>11

\* The groups that a command is about, and the messages for a preset and the wiper.
CommandGroups == Groups \ {"preset", "wiper"}

LEMMA GroupsSplit ==
    ASSUME NEW g \in Groups
    PROVE  \/ g = "pan" \/ g = "tilt" \/ g = "preset" \/ g = "wiper" \/ g = "camera" \/ g = "iris"
           \/ g = "focus" \/ g = "zoom" \/ g = "menu" \/ g = "lens" \/ g = "ack"
BY GroupsAre

LEMMA PlainAre ==
    /\ {"wiper", "camera", "iris", "focus", "zoom", "menu", "lens", "ack"} \subseteq Plain
    /\ {"pan", "tilt", "camera", "iris", "focus", "zoom", "menu", "lens", "ack"} \subseteq CommandGroups
    /\ "preset" \notin CommandGroups /\ "wiper" \notin CommandGroups
BY GroupsAre DEF Plain, CommandGroups

\* What the codecs of Pelco carry.
LEMMA PelcoCarries ==
    ASSUME NEW p, Codec # "vicon"
    PROVE  /\ Carried(p, "pan") <=> Commands(p)
           /\ Carried(p, "tilt") <=> Commands(p)
           /\ Carried(p, "preset") <=> ccpacket_get_preset_mode(p) # {} /\ Numbered(p)
           /\ Carried(p, "camera") <=> Get(p, "camera") # {} /\ ~Masked(p)
           /\ ~Carried(p, "ack") /\ ~Carried(p, "lens")
           /\ \A g \in {"menu", "iris", "focus", "zoom", "wiper"} :
                 Carried(p, g) <=> Get(p, g) \notin {{}, {"focus_auto"}, {"iris_auto"}}
<1>1. ASSUME NEW g \in Plain
      PROVE  Entry(p, g)[1] = Get(p, g)
    <2>1. Entry(p, g) = <<Get(p, g), 0>>
        BY EntryIs
    <2>. QED
        BY <2>1
<1>2. Entry(p, "preset")[1] = ccpacket_get_preset_mode(p)
    <2>1. Entry(p, "preset") = <<ccpacket_get_preset_mode(p), p.preset>>
        BY EntryIs
    <2>. QED
        BY <2>1
<1>3. "camera" \in Plain /\ {"menu", "iris", "focus", "zoom", "wiper"} \subseteq Plain
    BY PlainAre
<1>4. /\ Carried(p, "pan") <=> Commands(p)
      /\ Carried(p, "tilt") <=> Commands(p)
    BY DEF Carried
<1>5. Carried(p, "preset") <=> ccpacket_get_preset_mode(p) # {} /\ Numbered(p)
    BY <1>2 DEF Carried
<1>6. Carried(p, "camera") <=> Get(p, "camera") # {} /\ ~Masked(p)
    BY <1>1, <1>3 DEF Carried
<1>7. ~Carried(p, "ack") /\ ~Carried(p, "lens")
    BY DEF Carried
<1>8. ASSUME NEW g \in {"menu", "iris", "focus", "zoom", "wiper"}
      PROVE  Carried(p, g) <=> Get(p, g) \notin {{}, {"focus_auto"}, {"iris_auto"}}
    BY <1>1, <1>3 DEF Carried
<1>. QED
    BY <1>4, <1>5, <1>6, <1>7, <1>8

LEMMA CommandSays ==
    ASSUME NEW p, Askable(p), Codec # "vicon", Commands(p),
           NEW q, CommandGiven(q, Codec, Deadzone, p)
    PROVE  PacketSays(q, p, CommandGroups)
<1>1. /\ AutoGiven(q, Deadzone, p) /\ TiltGiven(q, Deadzone, p) /\ LensGiven(q, p)
      /\ CameraGiven(q, Codec, p) /\ Ungiven(q, {"menu", "preset", "lens", "wiper", "ack"})
    BY DEF CommandGiven
<1>2. ASSUME NEW g \in {"preset", "wiper", "menu", "lens", "ack"}
      PROVE  (Get(q, g) # {} <=> g \in CommandGroups /\ Carried(p, g)) /\ Answers(q, p, g)
    <2>1. Get(q, g) = {}
        BY <1>1 DEF Ungiven
    <2>2. Get(p, "menu") = {}
        BY DEF Askable
    <2>. QED
        BY <2>1, <2>2, PlainAre, PelcoCarries DEF Answers
<1>3. (Get(q, "pan") # {} <=> "pan" \in CommandGroups /\ Carried(p, "pan")) /\ Answers(q, p, "pan")
    BY <1>1, PanAnswers, PlainAre, PelcoCarries
<1>4. (Get(q, "tilt") # {} <=> "tilt" \in CommandGroups /\ Carried(p, "tilt")) /\ Answers(q, p, "tilt")
    BY <1>1, TiltAnswers, PlainAre, PelcoCarries
<1>5. (Get(q, "camera") # {} <=> "camera" \in CommandGroups /\ Carried(p, "camera"))
      /\ Answers(q, p, "camera")
    <2>1. Get(q, "camera") = IF Masked(p) THEN {} ELSE Get(p, "camera")
        BY <1>1 DEF CameraGiven, Masked
    <2>2. Answers(q, p, "camera")
        BY <2>1, PlainAre, PlainAnswers
    <2>. QED
        BY <2>1, <2>2, PlainAre, PelcoCarries
<1>6. (Get(q, "iris") # {} <=> "iris" \in CommandGroups /\ Carried(p, "iris")) /\ Answers(q, p, "iris")
    <2>1. Get(q, "iris") = Get(p, "iris") \ {"iris_auto"}
        BY <1>1 DEF LensGiven
    <2>2. Get(p, "iris") \in {{}, {"iris_open"}, {"iris_close"}, {"iris_auto"}}
        BY MovesAre
    <2>3. Get(q, "iris") # {} => Get(q, "iris") = Get(p, "iris")
        BY <2>1, <2>2
    <2>4. Answers(q, p, "iris")
        BY <2>3, PlainAre, PlainAnswers
    <2>5. Carried(p, "iris") <=> Get(p, "iris") \notin {{}, {"focus_auto"}, {"iris_auto"}}
        BY PelcoCarries
    <2>. QED
        BY <2>1, <2>2, <2>4, <2>5, PlainAre
<1>7. (Get(q, "focus") # {} <=> "focus" \in CommandGroups /\ Carried(p, "focus")) /\ Answers(q, p, "focus")
    <2>1. Get(q, "focus") = Get(p, "focus") \ {"focus_auto"}
        BY <1>1 DEF LensGiven
    <2>2. Get(p, "focus") \in {{}, {"focus_near"}, {"focus_far"}, {"focus_auto"}}
        BY MovesAre
    <2>3. Get(q, "focus") # {} => Get(q, "focus") = Get(p, "focus")
        BY <2>1, <2>2
    <2>4. Answers(q, p, "focus")
        BY <2>3, PlainAre, PlainAnswers
    <2>5. Carried(p, "focus") <=> Get(p, "focus") \notin {{}, {"focus_auto"}, {"iris_auto"}}
        BY PelcoCarries
    <2>. QED
        BY <2>1, <2>2, <2>4, <2>5, PlainAre
<1>8. (Get(q, "zoom") # {} <=> "zoom" \in CommandGroups /\ Carried(p, "zoom")) /\ Answers(q, p, "zoom")
    <2>1. Get(q, "zoom") = Get(p, "zoom")
        BY <1>1 DEF LensGiven
    <2>2. Get(p, "zoom") \in {{}, {"zoom_in"}, {"zoom_out"}}
        BY MovesAre
    <2>4. Answers(q, p, "zoom")
        BY <2>1, PlainAre, PlainAnswers
    <2>5. Carried(p, "zoom") <=> Get(p, "zoom") \notin {{}, {"focus_auto"}, {"iris_auto"}}
        BY PelcoCarries
    <2>. QED
        BY <2>1, <2>2, <2>4, <2>5, PlainAre
<1>9. ASSUME NEW g \in Groups
      PROVE  (Get(q, g) # {} <=> g \in CommandGroups /\ Carried(p, g)) /\ Answers(q, p, g)
    BY <1>2, <1>3, <1>4, <1>5, <1>6, <1>7, <1>8, GroupsSplit
<1>. QED
    BY <1>9 DEF PacketSays

\* Without a command, nothing is asked that one could carry.
LEMMA NoCommand ==
    ASSUME NEW p, Askable(p), Codec # "vicon", ~Commands(p), NEW g \in CommandGroups
    PROVE  ~Carried(p, g)
<1>1. Get(p, "iris") = {} /\ Get(p, "focus") = {} /\ Get(p, "zoom") = {}
    BY DEF Commands, ccpacket_has_command
<1>2. Get(p, "camera") = {} /\ Get(p, "menu") = {}
    BY DEF Commands, ccpacket_has_power, Askable
<1>3. g \in Groups /\ g # "preset" /\ g # "wiper"
    BY DEF CommandGroups
<1>. QED
    BY <1>1, <1>2, <1>3, PelcoCarries, GroupsSplit

\* The messages for a preset and for the wiper.
Extends(d, dz, r, m, ex, n) ==
    /\ decode(d, dz, m) = [receiver |-> r, pkt |-> decode_extended(Cleared, m)]
    /\ (m[3] \div 2) % 32 = ex /\ m[5] = n

LEMMA ExtendedIs ==
    ASSUME NEW d \in {"pelco_d", "pelco_p"}, NEW dz, NEW r, NEW ex \in 1 .. 5, NEW n \in 0 .. 255,
           NEW m, m = Extended(d, r, ex, n)
    PROVE  Extends(d, dz, r, m, ex, n)
<1>1. m[1] = r /\ m[3] = 2 * ex + 1 /\ m[5] = n
    BY FrameFields DEF Extended
<1>2. BIT[d].extended = 24
    BY DEF BIT
<1>3. bit_is_set(m, 24)
    <2>1. 24 \div 8 = 3 /\ 24 % 8 = 0 /\ 2 ^ 0 = 1
        BY Powers
    <2>2. ((2 * ex + 1) \div 1) % 2 = 1
        OBVIOUS
    <2>. QED
        BY <1>1, <2>1, <2>2 DEF bit_is_set
<1>4. ((2 * ex + 1) \div 2) % 32 = ex
    OBVIOUS
<1>. QED
    BY <1>1, <1>2, <1>3, <1>4 DEF decode, Extends

\* A preset that is decoded as the number asked, in the bits it has.
PresetGiven(q, f, n) ==
    /\ Get(q, "preset") = IF n = 0 \/ IsMenuPreset({f}, n) THEN {} ELSE {f}
    /\ n # 0 /\ ~IsMenuPreset({f}, n) => q.preset = n

LEMMA PresetAnswers ==
    ASSUME NEW p, NEW f \in Cases("preset"), ccpacket_get_preset_mode(p) = {f},
           NEW n \in Nat, n = Number(p), NEW q, PresetGiven(q, f, n)
    PROVE  (Get(q, "preset") # {} <=> Numbered(p)) /\ Answers(q, p, "preset")
<1>1. Valid("preset", p.flags) = {f}
    BY DEF ccpacket_get_preset_mode, ccpacket_preset
<1>2. Valid("preset", {f}) = {f}
    BY ValidOne
<1>3. IsMenuPreset(p.flags, n) <=> IsMenuPreset({f}, n)
    BY <1>1, <1>2 DEF IsMenuPreset, ccpacket_preset
<1>4. Get(q, "preset") # {} <=> Numbered(p)
    BY <1>3 DEF Numbered, PresetGiven
<1>5. ASSUME Get(q, "preset") # {}
      PROVE  Entry(q, "preset") = <<{f}, n>>
    <2>1. n # 0 /\ Get(q, "preset") = {f} /\ q.preset = n
        BY <1>5 DEF PresetGiven
    <2>2. ccpacket_get_preset_mode(q) = {f}
        BY <2>1 DEF ccpacket_get_preset_mode, ccpacket_preset, Get
    <2>. QED
        BY <2>1, <2>2, EntryIs
<1>6. Entry(p, "preset")[1] = {f}
    <2>1. Entry(p, "preset") = <<ccpacket_get_preset_mode(p), p.preset>>
        BY EntryIs
    <2>. QED
        BY <2>1
<1>7. Answers(q, p, "preset")
    BY <1>5, <1>6 DEF Answers, Fulfils
<1>. QED
    BY <1>4, <1>7

LEMMA PresetModes ==
    ASSUME NEW p
    PROVE  /\ \/ ccpacket_get_preset_mode(p) = {}
              \/ \E f \in {"preset_recall", "preset_store", "preset_clear"} :
                    f \in Cases("preset") /\ ccpacket_get_preset_mode(p) = {f}
           /\ ccpacket_get_preset_mode(p) # {} => ccpacket_get_preset_mode(p) = Get(p, "preset")
<1>1. ccpacket_get_preset_mode(p) = {} \/ ccpacket_get_preset_mode(p) = Get(p, "preset")
    BY DEF ccpacket_get_preset_mode, ccpacket_preset, Get
<1>2. Get(p, "preset") = {} \/ \E f \in Cases("preset") : Get(p, "preset") = {f}
    BY ModeIs
<1>3. Cases("preset") = {"preset_recall", "preset_store", "preset_clear"}
    BY DEF Cases, CC
<1>. QED
    BY <1>1, <1>2, <1>3

LEMMA PresetSays ==
    ASSUME NEW p, Askable(p), Codec # "vicon", ccpacket_get_preset_mode(p) # {}, NEW r,
           NEW d \in {"pelco_d", "pelco_p"}, NEW dz,
           NEW m, m = encode_preset(d, r, p), NEW q, q = decode(d, dz, m).pkt
    PROVE  decode(d, dz, m).receiver = r /\ PacketSays(q, p, {"preset"})
<1>1. PICK f \in {"preset_recall", "preset_store", "preset_clear"} :
         f \in Cases("preset") /\ ccpacket_get_preset_mode(p) = {f}
    BY PresetModes
<1>2. PICK n \in 0 .. 255 : n = p.preset % 256 /\ n = Number(p)
    <2>1. p.preset \in Nat
        BY DEF Askable, PacketType
    <2>. QED
        BY <2>1 DEF Number
<1>3. PICK x \in 1 .. 5 : x = CASE f = "preset_recall" -> 3 [] f = "preset_store" -> 1 [] OTHER -> 2
    <2>1. CASE f = "preset_recall"
        BY <2>1
    <2>2. CASE f = "preset_store"
        BY <2>2
    <2>3. CASE f = "preset_clear"
        BY <2>3
    <2>. QED
        BY <2>1, <2>2, <2>3
<1>4. m = Extended(d, r, x, n)
    BY <1>1, <1>2, <1>3 DEF encode_preset, EX_RECALL, EX_STORE, EX_CLEAR
<1>5. /\ decode(d, dz, m) = [receiver |-> r, pkt |-> decode_extended(Cleared, m)]
      /\ (m[3] \div 2) % 32 = x /\ m[5] = n
    <2>1. Extends(d, dz, r, m, x, n)
        BY <1>4, ExtendedIs
    <2>. QED
        BY <2>1 DEF Extends
<1>6. q = ccpacket_set_preset(Cleared, {f}, n)
    <2>1. q = decode_extended(Cleared, m)
        BY <1>5
    <2>2. CASE f = "preset_recall"
        BY <1>3, <1>5, <2>1, <2>2
           DEF decode_extended, EX_RECALL, EX_STORE, EX_CLEAR, EX_AUX_SET, EX_AUX_CLEAR
    <2>3. CASE f = "preset_store"
        BY <1>3, <1>5, <2>1, <2>3
           DEF decode_extended, EX_RECALL, EX_STORE, EX_CLEAR, EX_AUX_SET, EX_AUX_CLEAR
    <2>4. CASE f = "preset_clear"
        BY <1>3, <1>5, <2>1, <2>4
           DEF decode_extended, EX_RECALL, EX_STORE, EX_CLEAR, EX_AUX_SET, EX_AUX_CLEAR
    <2>. QED
        BY <2>2, <2>3, <2>4
<1>7. /\ Sets(Cleared, q, "preset", IF n = 0 \/ IsMenuPreset({f}, n) THEN {} ELSE {f})
      /\ n # 0 /\ ~IsMenuPreset({f}, n) => q.preset = n
    BY <1>1, <1>6, ClearedIs, PresetSets
<1>8. PresetGiven(q, f, n) /\ \A g \in Groups \ {"preset"} : Get(q, g) = {}
    BY <1>7, ClearedIs, GroupNames DEF Sets, PresetGiven
<1>9. (Get(q, "preset") # {} <=> Carried(p, "preset")) /\ Answers(q, p, "preset")
    BY <1>1, <1>2, <1>8, PresetAnswers, PelcoCarries
<1>10. PacketSays(q, p, {"preset"})
    BY <1>8, <1>9 DEF PacketSays, Answers
<1>. QED
    BY <1>5, <1>10

LEMMA WiperSays ==
    ASSUME NEW p, Askable(p), Codec # "vicon", Get(p, "wiper") # {}, NEW r,
           NEW d \in {"pelco_d", "pelco_p"}, NEW dz,
           NEW m, m = encode_wiper(d, r, p), NEW q, q = decode(d, dz, m).pkt
    PROVE  decode(d, dz, m).receiver = r /\ PacketSays(q, p, {"wiper"})
<1>1. PICK f \in {"wiper_on", "wiper_off"} : f \in Cases("wiper") /\ Get(p, "wiper") = {f}
    <2>1. Cases("wiper") = {"wiper_on", "wiper_off"}
        BY DEF Cases, CC
    <2>. QED
        BY <2>1, ModeIs
<1>2. PICK x \in 1 .. 5 : x = IF f = "wiper_on" THEN 4 ELSE 5
    OBVIOUS
<1>3. m = Extended(d, r, x, 1)
    BY <1>1, <1>2 DEF encode_wiper, EX_AUX_SET, EX_AUX_CLEAR, EX_AUX_WIPER
<1>4. /\ decode(d, dz, m) = [receiver |-> r, pkt |-> decode_extended(Cleared, m)]
      /\ (m[3] \div 2) % 32 = x /\ m[5] = 1
    <2>1. PICK n \in 0 .. 255 : n = 1
        OBVIOUS
    <2>2. Extends(d, dz, r, m, x, n)
        BY <1>3, <2>1, ExtendedIs
    <2>. QED
        BY <2>1, <2>2 DEF Extends
<1>5. q = Set(Cleared, "wiper", {f})
    <2>1. q = decode_extended(Cleared, m)
        BY <1>4
    <2>2. CASE f = "wiper_on"
        BY <1>2, <1>4, <2>1, <2>2
           DEF decode_extended, EX_RECALL, EX_STORE, EX_CLEAR, EX_AUX_SET, EX_AUX_CLEAR, EX_AUX_WIPER
    <2>3. CASE f = "wiper_off"
        BY <1>2, <1>4, <2>1, <2>3
           DEF decode_extended, EX_RECALL, EX_STORE, EX_CLEAR, EX_AUX_SET, EX_AUX_CLEAR, EX_AUX_WIPER
    <2>. QED
        BY <2>2, <2>3
<1>6. Sets(Cleared, q, "wiper", {f})
    <2>1. PICK g \in Groups : g = "wiper"
        BY GroupNames
    <2>2. Valid(g, {f}) = {f}
        BY <1>1, <2>1, ValidOne
    <2>3. Cleared \in PacketType /\ q = Set(Cleared, g, {f})
        BY <1>5, <2>1, ClearedIs
    <2>4. Sets(Cleared, q, g, Valid(g, {f}))
        BY <2>3, SetSets
    <2>. QED
        BY <2>1, <2>2, <2>4
<1>7. Get(q, "wiper") = {f} /\ \A g \in Groups \ {"wiper"} : Get(q, g) = {}
    BY <1>6, ClearedIs, GroupNames DEF Sets
<1>8. Carried(p, "wiper") /\ Answers(q, p, "wiper")
    <2>1. Answers(q, p, "wiper")
        BY <1>1, <1>7, PlainAre, PlainAnswers
    <2>. QED
        BY <1>1, <2>1, PelcoCarries
<1>9. PacketSays(q, p, {"wiper"})
    BY <1>7, <1>8 DEF PacketSays, Answers
<1>. QED
    BY <1>4, <1>9

-----------------------------------------------------------------------------
(* The messages of a packet say what it asks, each function once.           *)

Decoded(m) == IF Codec = "vicon" THEN vicon_decode(m) ELSE decode(Codec, Deadzone, m)

Tells(m, g) == Get(Decoded(m).pkt, g) # {}

\* Message m says to receiver r what p asks of the groups gs, and nothing else.
MessageSays(m, r, p, gs) == Decoded(m).receiver = r /\ PacketSays(Decoded(m).pkt, p, gs)

\* Message m says to receiver r some of what p asks of the groups gs.
Truthful(m, r, p, gs) ==
    /\ Decoded(m).receiver = r
    /\ \A g \in Groups : Tells(m, g) => /\ g \in gs /\ Carried(p, g)
                                        /\ Fulfils(p, g, Entry(Decoded(m).pkt, g))

\* The messages say to receiver r what p asks of the groups gs, each once.
SaysAll(ms, r, p, gs) ==
    /\ \A j \in 1 .. Len(ms) : Truthful(ms[j], r, p, gs)
    /\ \A g \in gs : Carried(p, g) => \E j \in 1 .. Len(ms) : Tells(ms[j], g)
    /\ \A i, j \in 1 .. Len(ms) : \A g \in Groups : Tells(ms[i], g) /\ Tells(ms[j], g) => i = j

LEMMA SaysNothing ==
    ASSUME NEW r, NEW p, NEW gs, \A g \in gs : ~Carried(p, g)
    PROVE  SaysAll(<< >>, r, p, gs)
BY DEF SaysAll

LEMMA SaysOne ==
    ASSUME NEW r, NEW p, NEW gs \in SUBSET Groups, NEW m, MessageSays(m, r, p, gs)
    PROVE  SaysAll(<<m>>, r, p, gs)
<1> DEFINE ms == <<m>>
<1>1. Len(ms) = 1 /\ ms[1] = m
    OBVIOUS
<1>2. 1 .. Len(ms) = {1}
    BY <1>1
<1>. HIDE DEF ms
<1>3. Truthful(m, r, p, gs)
    BY DEF Truthful, MessageSays, PacketSays, Tells, Answers
<1>4. \A g \in gs : Carried(p, g) => Tells(m, g)
    BY DEF MessageSays, PacketSays, Tells
<1>5. SaysAll(ms, r, p, gs)
    BY <1>1, <1>2, <1>3, <1>4 DEF SaysAll
<1>. QED
    BY <1>5 DEF ms

\* Sequences put together.
LEMMA Concatenated ==
    ASSUME NEW S, NEW a \in Seq(S), NEW b \in Seq(S), NEW e, e = a \o b
    PROVE  /\ e \in Seq(S) /\ Len(e) = Len(a) + Len(b)
           /\ \A j \in 1 .. Len(a) : e[j] = a[j]
           /\ \A j \in 1 .. Len(b) : e[Len(a) + j] = b[j]
OBVIOUS

\* Messages about groups that have none in common are put together.
LEMMA SaysBoth ==
    ASSUME NEW r, NEW p, NEW gs \in SUBSET Groups, NEW hs \in SUBSET Groups, gs \cap hs = {},
           NEW S, NEW cs \in Seq(S), NEW ds \in Seq(S),
           SaysAll(cs, r, p, gs), SaysAll(ds, r, p, hs)
    PROVE  SaysAll(cs \o ds, r, p, gs \cup hs)
<1> DEFINE es == cs \o ds
           c  == Len(cs)
           d  == Len(ds)
<1>1. c \in Nat /\ d \in Nat
    OBVIOUS
<1>2. /\ Len(es) = c + d
      /\ \A j \in 1 .. c : es[j] = cs[j]
      /\ \A j \in 1 .. d : es[c + j] = ds[j]
    BY Concatenated
<1>. HIDE DEF es, c, d
<1>3. ASSUME NEW j \in 1 .. Len(es)
      PROVE  \/ j \in 1 .. c /\ es[j] = cs[j]
             \/ j - c \in 1 .. d /\ es[j] = ds[j - c]
    <2>1. CASE j <= c
        BY <1>1, <1>2, <2>1
    <2>2. CASE j > c
        <3>1. j - c \in 1 .. d /\ c + (j - c) = j
            BY <1>1, <1>2, <2>2
        <3>. QED
            BY <1>2, <3>1
    <2>. QED
        BY <1>1, <1>2, <2>1, <2>2
<1>4. /\ \A k \in 1 .. c : Truthful(cs[k], r, p, gs)
      /\ \A k \in 1 .. d : Truthful(ds[k], r, p, hs)
    BY DEF SaysAll, c, d
<1>5. ASSUME NEW j \in 1 .. Len(es)
      PROVE  Truthful(es[j], r, p, gs \cup hs)
    <2>1. Truthful(es[j], r, p, gs) \/ Truthful(es[j], r, p, hs)
        BY <1>3, <1>4
    <2>. QED
        BY <2>1 DEF Truthful
<1>6. ASSUME NEW g \in gs \cup hs, Carried(p, g)
      PROVE  \E j \in 1 .. Len(es) : Tells(es[j], g)
    <2>1. CASE g \in gs
        <3>1. PICK j \in 1 .. c : Tells(cs[j], g)
            BY <1>6, <2>1 DEF SaysAll, c
        <3>2. j \in 1 .. Len(es) /\ es[j] = cs[j]
            BY <1>1, <1>2, <3>1
        <3>. QED
            BY <3>1, <3>2
    <2>2. CASE g \in hs
        <3>1. PICK j \in 1 .. d : Tells(ds[j], g)
            BY <1>6, <2>2 DEF SaysAll, d
        <3>2. c + j \in 1 .. Len(es) /\ es[c + j] = ds[j]
            BY <1>1, <1>2, <3>1
        <3>. QED
            BY <3>1, <3>2
    <2>. QED
        BY <2>1, <2>2
<1>7. ASSUME NEW i \in 1 .. Len(es), NEW j \in 1 .. Len(es), NEW g \in Groups,
             Tells(es[i], g), Tells(es[j], g)
      PROVE  i = j
    <2>1. /\ \A k \in 1 .. c : Tells(cs[k], g) => g \in gs
          /\ \A k \in 1 .. d : Tells(ds[k], g) => g \in hs
        BY <1>4 DEF Truthful
    <2>2. CASE i \in 1 .. c /\ es[i] = cs[i] /\ j \in 1 .. c /\ es[j] = cs[j]
        BY <1>7, <2>2 DEF SaysAll, c
    <2>3. CASE /\ i - c \in 1 .. d /\ es[i] = ds[i - c]
               /\ j - c \in 1 .. d /\ es[j] = ds[j - c]
        <3>1. i - c = j - c
            BY <1>7, <2>3 DEF SaysAll, d
        <3>. QED
            BY <1>1, <1>2, <3>1
    <2>4. ~(i \in 1 .. c /\ es[i] = cs[i] /\ j - c \in 1 .. d /\ es[j] = ds[j - c])
        BY <1>7, <2>1
    <2>5. ~(j \in 1 .. c /\ es[j] = cs[j] /\ i - c \in 1 .. d /\ es[i] = ds[i - c])
        BY <1>7, <2>1
    <2>. QED
        BY <1>3, <2>2, <2>3, <2>4, <2>5
<1>8. SaysAll(es, r, p, gs \cup hs)
    BY <1>5, <1>6, <1>7 DEF SaysAll
<1>. QED
    BY <1>8 DEF es

LEMMA PelcoWrites ==
    ASSUME NEW r \in 1 .. PELCO_MAX_ADDRESS, NEW p, Askable(p), Codec # "vicon"
    PROVE  SaysAll(do_write(Codec, r, p), r, p, Groups)
<1>1. PICK d \in {"pelco_d", "pelco_p"} : d = Codec
    BY CodecIs DEF Codecs
<1>2. PICK dz \in BOOLEAN : dz = Deadzone
    BY DEF Deadzone
<1>3. adjust_menu_commands(p) = p
    BY DEF adjust_menu_commands, Askable
<1>4. PICK x, y, z : /\ x = encode_command(d, r, p)
                     /\ y = encode_preset(d, r, p)
                     /\ z = encode_wiper(d, r, p)
    OBVIOUS
<1>5. PICK a, b, e : /\ a = (IF Commands(p) THEN <<x>> ELSE << >>)
                     /\ b = (IF ccpacket_get_preset_mode(p) # {} THEN <<y>> ELSE << >>)
                     /\ e = (IF Get(p, "wiper") # {} THEN <<z>> ELSE << >>)
    OBVIOUS
<1>6. do_write(Codec, r, p) = a \o b \o e
    BY <1>1, <1>3, <1>4, <1>5 DEF do_write
<1> DEFINE X == {x, y, z}
<1>7. a \in Seq(X) /\ b \in Seq(X) /\ e \in Seq(X)
    <2>1. <<x>> \in Seq(X) /\ <<y>> \in Seq(X) /\ <<z>> \in Seq(X) /\ << >> \in Seq(X)
        OBVIOUS
    <2>. HIDE DEF X
    <2>. QED
        BY <1>5, <2>1
<1>. HIDE DEF X
<1>8. p \in PacketType
    BY DEF Askable
<1>9. SaysAll(a, r, p, CommandGroups)
    <2>1. CASE Commands(p)
        <3>1. PICK q : q = decode(d, dz, x).pkt
            OBVIOUS
        <3>2. decode(d, dz, x).receiver = r /\ CommandGiven(q, d, dz, p)
            BY <1>4, <1>8, <3>1, CommandDecoded
        <3>3. PacketSays(q, p, CommandGroups)
            BY <1>1, <1>2, <2>1, <3>2, CommandSays
        <3>4. MessageSays(x, r, p, CommandGroups)
            BY <1>1, <1>2, <3>1, <3>2, <3>3 DEF MessageSays, Decoded
        <3>5. CommandGroups \in SUBSET Groups
            BY DEF CommandGroups
        <3>. QED
            BY <1>5, <2>1, <3>4, <3>5, SaysOne
    <2>2. CASE ~Commands(p)
        <3>1. \A g \in CommandGroups : ~Carried(p, g)
            BY <2>2, NoCommand
        <3>. QED
            BY <1>5, <2>2, <3>1, SaysNothing
    <2>. QED
        BY <2>1, <2>2
<1>10. SaysAll(b, r, p, {"preset"})
    <2>1. CASE ccpacket_get_preset_mode(p) # {}
        <3>1. PICK q : q = decode(d, dz, y).pkt
            OBVIOUS
        <3>2. decode(d, dz, y).receiver = r /\ PacketSays(q, p, {"preset"})
            BY <1>4, <2>1, <3>1, PresetSays
        <3>4. MessageSays(y, r, p, {"preset"})
            BY <1>1, <1>2, <3>1, <3>2 DEF MessageSays, Decoded
        <3>. QED
            BY <1>5, <2>1, <3>4, SaysOne, GroupNames
    <2>2. CASE ccpacket_get_preset_mode(p) = {}
        <3>1. \A g \in {"preset"} : ~Carried(p, g)
            BY <2>2, PelcoCarries
        <3>. QED
            BY <1>5, <2>2, <3>1, SaysNothing
    <2>. QED
        BY <2>1, <2>2
<1>11. SaysAll(e, r, p, {"wiper"})
    <2>1. CASE Get(p, "wiper") # {}
        <3>1. PICK q : q = decode(d, dz, z).pkt
            OBVIOUS
        <3>2. decode(d, dz, z).receiver = r /\ PacketSays(q, p, {"wiper"})
            BY <1>4, <2>1, <3>1, WiperSays
        <3>4. MessageSays(z, r, p, {"wiper"})
            BY <1>1, <1>2, <3>1, <3>2 DEF MessageSays, Decoded
        <3>. QED
            BY <1>5, <2>1, <3>4, SaysOne, GroupNames
    <2>2. CASE Get(p, "wiper") = {}
        <3>1. \A g \in {"wiper"} : ~Carried(p, g)
            BY <2>2, PelcoCarries
        <3>. QED
            BY <1>5, <2>2, <3>1, SaysNothing
    <2>. QED
        BY <2>1, <2>2
<1>12. /\ CommandGroups \in SUBSET Groups /\ {"preset"} \in SUBSET Groups /\ {"wiper"} \in SUBSET Groups
       /\ CommandGroups \cap {"preset"} = {} /\ (CommandGroups \cup {"preset"}) \cap {"wiper"} = {}
       /\ (CommandGroups \cup {"preset"}) \cup {"wiper"} = Groups
    BY GroupNames DEF CommandGroups
<1>13. SaysAll(a \o b, r, p, CommandGroups \cup {"preset"})
    BY <1>7, <1>9, <1>10, <1>12, SaysBoth
<1>14. a \o b \in Seq(X)
    BY <1>7
<1>15. CommandGroups \cup {"preset"} \in SUBSET Groups
    BY <1>12
<1>16. SaysAll((a \o b) \o e, r, p, (CommandGroups \cup {"preset"}) \cup {"wiper"})
    BY <1>7, <1>11, <1>12, <1>13, <1>14, <1>15, SaysBoth
<1>. QED
    BY <1>6, <1>12, <1>16

-----------------------------------------------------------------------------
(* What a message of Vicon tells.                                           *)

\* What is added in the low half of an octet, where no function has its bit.
LEMMA OctetLow ==
    ASSUME NEW bits, NEW j \in Nat, NEW v \in 0 .. 15, \A k \in 0 .. 3 : 8 * j + k \notin bits
    PROVE  (Octet(bits, j) + v) % 16 = v
<1>1. /\ 8 * j + 0 \notin bits /\ 8 * j + 1 \notin bits /\ 8 * j + 2 \notin bits /\ 8 * j + 3 \notin bits
    <2>1. 0 \in 0 .. 3 /\ 1 \in 0 .. 3 /\ 2 \in 0 .. 3 /\ 3 \in 0 .. 3
        OBVIOUS
    <2>. QED
        BY <2>1
<1>2. PICK e \in {0, 1}, f \in {0, 1}, g \in {0, 1}, h \in {0, 1} :
         Octet(bits, j) = 16 * (e + 2 * f + 4 * g + 8 * h)
    <2>1. PICK e \in {0, 1}, f \in {0, 1}, g \in {0, 1}, h \in {0, 1} :
             /\ e = (IF 8 * j + 4 \in bits THEN 1 ELSE 0)
             /\ f = (IF 8 * j + 5 \in bits THEN 1 ELSE 0)
             /\ g = (IF 8 * j + 6 \in bits THEN 1 ELSE 0)
             /\ h = (IF 8 * j + 7 \in bits THEN 1 ELSE 0)
        OBVIOUS
    <2>. QED
        BY <1>1, <2>1, Powers DEF Octet
<1>3. PICK y \in Nat : y = e + 2 * f + 4 * g + 8 * h
    OBVIOUS
<1>4. (16 * y + v) % 16 = v
    OBVIOUS
<1>. QED
    BY <1>2, <1>3, <1>4

\* Of the functions, none has a bit in the low half of these octets.
LEMMA LowHalves ==
    ASSUME NEW fs \in SUBSET Functions, NEW bits, bits = {VICON_BIT[f] : f \in fs}
    PROVE  /\ \A j \in {1, 5} : \A k \in 0 .. 3 : 8 * j + k \notin bits
           /\ "ex_store" \notin fs /\ "ex_status" \notin fs => \A k \in 0 .. 3 : 8 * 6 + k \notin bits
<1>1. ASSUME NEW f \in fs
      PROVE  /\ VICON_BIT[f] \notin 8 .. 11 /\ VICON_BIT[f] \notin 40 .. 43
             /\ f # "ex_store" /\ f # "ex_status" => VICON_BIT[f] \notin 48 .. 51
    <2>1. f \in Functions
        OBVIOUS
    <2>. QED
        BY <2>1 DEF VICON_BIT, Functions
<1>. QED
    BY <1>1

LEMMA FunctionBits ==
    ASSUME NEW f \in Functions, NEW g \in Functions, VICON_BIT[f] = VICON_BIT[g]
    PROVE  f = g
BY DEF VICON_BIT, Functions

\* The functions whose bits an octet that something is added to may spoil.
Spoiled(v) == IF 6 \in DOMAIN v THEN {"ex_store", "ex_status"} ELSE {}

\* The functions of a message of so many octets.
InOctets(n) == IF n = 6 THEN Functions \ {"ex_store", "ex_status", "ex_request"} ELSE Functions

ViconFunctional(m, fs, gs) == \A f \in gs : is_set(m, f) <=> f \in fs

\* What is added to the octets of a message that has these functions.
Added(n, fs, v) ==
    /\ Addition(v)
    /\ 6 \in DOMAIN v => v[6] <= 15 /\ "ex_store" \notin fs /\ "ex_status" \notin fs

\* A message of n octets tells receiver r of these functions and additions.
ViconTold(m, n, r, fs, v) ==
    /\ decode_receiver(m) = r
    /\ ViconFunctional(m, fs, InOctets(n) \ Spoiled(v))
    /\ \A j \in DOMAIN v \cap {5, 6} : j < n => m[j] % 16 = v[j]
    /\ \A j \in DOMAIN v \cap (7 .. 9) : j < n => m[j] = v[j]

LEMMA ViconTells ==
    ASSUME NEW n \in {6, 10}, NEW r \in 1 .. 255, NEW fs \in SUBSET Functions,
           NEW v, Added(n, fs, v), NEW m, m = vicon_message(n, r, fs, v)
    PROVE  ViconTold(m, n, r, fs, v)
<1>1. PICK bits : bits = {VICON_BIT[f] : f \in fs}
    OBVIOUS
<1>2. \A j \in 0 .. n - 1 :
         m[j] = IF j = 0 THEN 128 + ((r \div 16) % 16)
                ELSE Octet(bits, j) + (IF j = 1 THEN r % 16
                                       ELSE IF j \in DOMAIN v THEN v[j] ELSE 0)
    BY <1>1 DEF vicon_message, encode_receiver, VICON_FLAG
<1>3. Addition(v)
    BY DEF Added
<1>4. /\ \A j \in {1, 5} : \A k \in 0 .. 3 : 8 * j + k \notin bits
      /\ "ex_store" \notin fs /\ "ex_status" \notin fs => \A k \in 0 .. 3 : 8 * 6 + k \notin bits
    BY <1>1, LowHalves
<1>5. PICK a \in 0 .. 15, b \in 0 .. 15 : a = r % 16 /\ b = (r \div 16) % 16 /\ r = 16 * b + a
    <2>1. PICK a, b : a = r % 16 /\ b = r \div 16
        OBVIOUS
    <2>2. a \in 0 .. 15 /\ b \in 0 .. 15 /\ r = 16 * b + a /\ b % 16 = b
        BY <2>1
    <2>. QED
        BY <2>1, <2>2
<1>6. m[1] = Octet(bits, 1) + a /\ m[0] = 128 + b
    BY <1>2, <1>5
<1>7. m[1] % 16 = a
    BY <1>4, <1>6, OctetLow
<1>8. decode_receiver(m) = r
    <2>1. (128 + b) % 16 = b
        OBVIOUS
    <2>. QED
        BY <1>5, <1>6, <1>7, <2>1 DEF decode_receiver
<1>9. ASSUME NEW f \in InOctets(n) \ Spoiled(v)
      PROVE  is_set(m, f) <=> f \in fs
    <2>1. f \in Functions
        BY DEF InOctets
    <2>2. PICK x \in 12 .. 52 : x = VICON_BIT[f]
        BY <2>1, BitIs
    <2>3. PICK j \in 1 .. 6, k \in 0 .. 7 : j = x \div 8 /\ k = x % 8 /\ 8 * j + k = x
        <3>1. PICK j, k : j = x \div 8 /\ k = x % 8
            OBVIOUS
        <3>2. j \in 1 .. 6 /\ k \in 0 .. 7 /\ 8 * j + k = x
            BY <3>1
        <3>. QED
            BY <3>1, <3>2
    <2>4. j < n
        <3>1. CASE n = 10
            BY <3>1
        <3>2. CASE n = 6
            <4>1. x < 48
                BY <2>2, <3>2 DEF InOctets, Functions, VICON_BIT
            <4>. QED
                BY <2>3, <3>2, <4>1
        <3>. QED
            BY <3>1, <3>2
    <2>5. PICK w \in 0 .. 15 : /\ m[j] = Octet(bits, j) + w
                               /\ w # 0 => /\ \A i \in 0 .. 3 : 8 * j + i \notin bits
                                           /\ k > 3
        <3>1. CASE j = 1
            <4>1. k > 3
                BY <2>3, <3>1
            <4>. QED
                BY <1>4, <1>6, <3>1, <4>1
        <3>2. CASE j \in 2 .. 4
            <4>1. j \notin DOMAIN v
                BY <1>3, <3>2 DEF Addition
            <4>2. m[j] = Octet(bits, j) + 0
                BY <1>2, <2>4, <3>2, <4>1
            <4>. QED
                BY <4>2
        <3>3. CASE j = 5
            <4>1. PICK w \in 0 .. 15 : w = IF j \in DOMAIN v THEN v[j] ELSE 0
                BY <1>3, <3>3 DEF Addition
            <4>2. m[j] = Octet(bits, j) + w
                BY <1>2, <2>4, <3>3, <4>1
            <4>3. k > 3
                <5>1. x \in {45, 46}
                    BY <2>1, <2>2, <2>3, <3>3, BitIs
                <5>. QED
                    BY <2>3, <5>1
            <4>. QED
                BY <1>4, <3>3, <4>2, <4>3
        <3>4. CASE j = 6
            <4>1. CASE 6 \in DOMAIN v
                <5>1. PICK w \in 0 .. 15 : w = v[6]
                    BY <1>3, <4>1 DEF Added, Addition
                <5>2. m[j] = Octet(bits, j) + w
                    BY <1>2, <2>4, <3>4, <4>1, <5>1
                <5>3. k > 3
                    <6>1. x \in {48, 49, 52}
                        <7>1. x = 48 + k
                            BY <2>3, <3>4
                        <7>2. x \in 48 .. 52
                            BY <7>1
                        <7>. QED
                            BY <2>1, <2>2, <7>2, BitIs
                    <6>2. f # "ex_store" /\ f # "ex_status"
                        BY <4>1 DEF Spoiled
                    <6>3. x # 48 /\ x # 49
                        BY <2>1, <2>2, <6>2 DEF VICON_BIT, Functions
                    <6>. QED
                        BY <2>3, <6>1, <6>3
                <5>. QED
                    BY <1>4, <3>4, <4>1, <5>2, <5>3 DEF Added
            <4>2. CASE 6 \notin DOMAIN v
                <5>1. m[j] = Octet(bits, j) + 0
                    BY <1>2, <2>4, <3>4, <4>2
                <5>. QED
                    BY <5>1
            <4>. QED
                BY <4>1, <4>2
        <3>. QED
            BY <3>1, <3>2, <3>3, <3>4
    <2>6. BitOf(m[j], k) <=> x \in bits
        <3>1. w = 0 \/ k > 3
            BY <2>5
        <3>. QED
            BY <2>3, <2>5, <3>1, OctetBits
    <2>7. x \in bits <=> f \in fs
        <3>1. x \in bits => f \in fs
            <4>. SUFFICES ASSUME x \in bits PROVE f \in fs
                OBVIOUS
            <4>1. PICK g \in fs : x = VICON_BIT[g]
                BY <1>1
            <4>. QED
                BY <2>1, <2>2, <4>1, FunctionBits
        <3>. QED
            BY <1>1, <2>2, <3>1
    <2>. QED
        BY <2>2, <2>3, <2>6, <2>7 DEF is_set, bit_is_set, BitOf
<1>10. ASSUME NEW j \in DOMAIN v \cap {5, 6}, j < n
       PROVE  m[j] % 16 = v[j]
    <2>1. PICK w \in 0 .. 15 : w = v[j]
        BY <1>3 DEF Added, Addition
    <2>2. m[j] = Octet(bits, j) + w
        BY <1>2, <1>10, <2>1
    <2>3. \A k \in 0 .. 3 : 8 * j + k \notin bits
        BY <1>4 DEF Added
    <2>4. j \in Nat
        OBVIOUS
    <2>. QED
        BY <2>1, <2>2, <2>3, <2>4, OctetLow
<1>11. ASSUME NEW j \in DOMAIN v \cap (7 .. 9), j < n
       PROVE  m[j] = v[j]
    <2>1. PICK w \in 0 .. 127 : w = v[j]
        BY <1>3 DEF Addition
    <2>2. m[j] = Octet(bits, j) + w
        BY <1>2, <1>11, <2>1
    <2>3. Octet(bits, 7) = 0 /\ Octet(bits, 8) = 0 /\ Octet(bits, 9) = 0
        BY <1>1, ViconOctets
    <2>4. j = 7 \/ j = 8 \/ j = 9
        OBVIOUS
    <2>. QED
        BY <2>1, <2>2, <2>3, <2>4
<1>. QED
    BY <1>8, <1>9, <1>10, <1>11 DEF ViconTold, ViconFunctional

-----------------------------------------------------------------------------
(* The packet of a message of Vicon.                                        *)

LEMMA SetEitherSets ==
    ASSUME NEW p \in PacketType, NEW g \in Groups, NEW f \in Cases(g), NEW h \in Cases(g),
           NEW m, NEW fs, is_set(m, f) <=> f \in fs, is_set(m, h) <=> h \in fs,
           NEW q, q = SetEither(p, m, g, f, h)
    PROVE  /\ Sets(p, q, g, IF Chosen(fs, f, h) = {} THEN Get(p, g) ELSE Chosen(fs, f, h))
           /\ Same(p, q)
<1>1. ASSUME NEW e \in Cases(g), q = Set(p, g, {e})
      PROVE  Sets(p, q, g, {e}) /\ Same(p, q)
    <2>1. Valid(g, {e}) = {e}
        BY ValidOne
    <2>. QED
        BY <1>1, <2>1, SetSets
<1>2. CASE f \in fs
    BY <1>1, <1>2 DEF SetEither, Chosen
<1>3. CASE f \notin fs /\ h \in fs
    BY <1>1, <1>3 DEF SetEither, Chosen
<1>4. CASE f \notin fs /\ h \notin fs
    <2>1. q = p
        BY <1>4 DEF SetEither
    <2>. QED
        BY <1>4, <2>1 DEF Sets, Same, Chosen
<1>. QED
    BY <1>2, <1>3, <1>4

\* The functions that decode_functions looks at.
Plainly == {"pan_right", "pan_left", "pan_auto", "tilt_up", "tilt_down", "iris_open", "iris_close",
            "iris_auto", "focus_near", "focus_far", "zoom_in", "zoom_out", "ack_alarm",
            "lens_speed", "wiper_on", "preset_recall", "preset_store"}

LEMMA PlainlyAre ==
    /\ \A f \in {"iris_open", "iris_close", "iris_auto"} : f \in Plainly /\ f \in Cases("iris")
    /\ \A f \in {"focus_near", "focus_far"} : f \in Plainly /\ f \in Cases("focus")
    /\ \A f \in {"zoom_in", "zoom_out"} : f \in Plainly /\ f \in Cases("zoom")
    /\ \A f \in {"pan_right", "pan_left", "pan_auto"} : f \in Plainly /\ f \in Cases("pan")
    /\ \A f \in {"tilt_up", "tilt_down"} : f \in Plainly /\ f \in Cases("tilt")
    /\ \A f \in {"preset_recall", "preset_store"} : f \in Plainly /\ f \in Cases("preset")
    /\ "ack_alarm" \in Plainly /\ "ack_alarm" \in Cases("ack")
    /\ "lens_speed" \in Plainly /\ "lens_speed" \in Cases("lens")
    /\ "wiper_on" \in Plainly /\ "wiper_on" \in Cases("wiper")
    /\ Plainly \subseteq InOctets(6) /\ Plainly \subseteq InOctets(10)
BY DEF Plainly, Cases, CC, InOctets, Functions, VICON_BIT

\* The direction, or another at no speed.
Directed(fs, f, g, h) == IF Chosen(fs, f, g) = {} THEN {h} ELSE Chosen(fs, f, g)

LEMMA ViconPanDecoded ==
    ASSUME NEW x \in PacketType, NEW m, NEW fs, ViconFunctional(m, fs, Plainly),
           NEW q, q = vicon_decode_pan(x, m)
    PROVE  /\ Sets(x, q, "pan", Directed(fs, "pan_right", "pan_left", "pan_left"))
           /\ q.pan = (IF Chosen(fs, "pan_right", "pan_left") = {} THEN 0 ELSE SPEED_MAX)
           /\ q.tilt = x.tilt
<1>1. /\ is_set(m, "pan_right") <=> "pan_right" \in fs
      /\ is_set(m, "pan_left") <=> "pan_left" \in fs
    BY PlainlyAre DEF ViconFunctional
<1>2. PICK s \in 0 .. SPEED_MAX :
         s = IF Chosen(fs, "pan_right", "pan_left") = {} THEN 0 ELSE SPEED_MAX
    BY PacketAssumption
<1>3. PICK f : f \in {"pan_right", "pan_left"}
               /\ {f} = Directed(fs, "pan_right", "pan_left", "pan_left")
    BY DEF Directed, Chosen
<1>4. q = ccpacket_set_pan(x, {f}, s)
    <2>1. CASE "pan_right" \in fs
        BY <1>1, <1>2, <1>3, <2>1 DEF vicon_decode_pan, Directed, Chosen
    <2>2. CASE "pan_right" \notin fs /\ "pan_left" \in fs
        BY <1>1, <1>2, <1>3, <2>2 DEF vicon_decode_pan, Directed, Chosen
    <2>3. CASE "pan_right" \notin fs /\ "pan_left" \notin fs
        BY <1>1, <1>2, <1>3, <2>3 DEF vicon_decode_pan, Directed, Chosen
    <2>. QED
        BY <2>1, <2>2, <2>3
<1>5. Valid("pan", {f}) = {f}
    BY <1>3, PlainlyAre, ValidOne
<1>. QED
    BY <1>2, <1>3, <1>4, <1>5, PanSets

LEMMA ViconTiltDecoded ==
    ASSUME NEW x \in PacketType, NEW m, NEW fs, ViconFunctional(m, fs, Plainly),
           NEW q, q = vicon_decode_tilt(x, m)
    PROVE  /\ Sets(x, q, "tilt", Directed(fs, "tilt_up", "tilt_down", "tilt_down"))
           /\ q.tilt = (IF Chosen(fs, "tilt_up", "tilt_down") = {} THEN 0 ELSE SPEED_MAX)
           /\ q.pan = x.pan
<1>1. /\ is_set(m, "tilt_up") <=> "tilt_up" \in fs
      /\ is_set(m, "tilt_down") <=> "tilt_down" \in fs
    BY PlainlyAre DEF ViconFunctional
<1>2. PICK s \in 0 .. SPEED_MAX :
         s = IF Chosen(fs, "tilt_up", "tilt_down") = {} THEN 0 ELSE SPEED_MAX
    BY PacketAssumption
<1>3. PICK f : f \in {"tilt_up", "tilt_down"}
               /\ {f} = Directed(fs, "tilt_up", "tilt_down", "tilt_down")
    BY DEF Directed, Chosen
<1>4. q = ccpacket_set_tilt(x, {f}, s)
    <2>1. CASE "tilt_up" \in fs
        BY <1>1, <1>2, <1>3, <2>1 DEF vicon_decode_tilt, Directed, Chosen
    <2>2. CASE "tilt_up" \notin fs /\ "tilt_down" \in fs
        BY <1>1, <1>2, <1>3, <2>2 DEF vicon_decode_tilt, Directed, Chosen
    <2>3. CASE "tilt_up" \notin fs /\ "tilt_down" \notin fs
        BY <1>1, <1>2, <1>3, <2>3 DEF vicon_decode_tilt, Directed, Chosen
    <2>. QED
        BY <2>1, <2>2, <2>3
<1>5. Valid("tilt", {f}) = {f}
    BY <1>3, PlainlyAre, ValidOne
<1>. QED
    BY <1>2, <1>3, <1>4, <1>5, TiltSets

LEMMA ViconLensDecoded ==
    ASSUME NEW x \in PacketType, Ungiven(x, {"iris", "focus", "zoom"}),
           NEW m, NEW fs, ViconFunctional(m, fs, Plainly), NEW q, q = vicon_decode_lens(x, m)
    PROVE  /\ q \in PacketType /\ q.pan = x.pan /\ q.tilt = x.tilt
           /\ Get(q, "iris") = Chosen(fs, "iris_open", "iris_close")
           /\ Get(q, "focus") = Chosen(fs, "focus_near", "focus_far")
           /\ Get(q, "zoom") = Chosen(fs, "zoom_in", "zoom_out")
           /\ \A g \in Groups \ {"iris", "focus", "zoom"} : Get(q, g) = Get(x, g)
<1>1. PICK a, b : /\ a = SetEither(x, m, "iris", "iris_open", "iris_close")
                  /\ b = SetEither(a, m, "focus", "focus_near", "focus_far")
    OBVIOUS
<1>2. q = SetEither(b, m, "zoom", "zoom_in", "zoom_out")
    BY <1>1 DEF vicon_decode_lens
<1>3. \A f \in Plainly : is_set(m, f) <=> f \in fs
    BY DEF ViconFunctional
<1>4. {"iris", "focus", "zoom"} \subseteq Groups
    BY GroupNames
<1>5. /\ Sets(x, a, "iris", IF Chosen(fs, "iris_open", "iris_close") = {} THEN Get(x, "iris")
                            ELSE Chosen(fs, "iris_open", "iris_close"))
      /\ Same(x, a)
    BY <1>1, <1>3, <1>4, PlainlyAre, SetEitherSets
<1>6. a \in PacketType
    BY <1>5 DEF Sets
<1>7. /\ Sets(a, b, "focus", IF Chosen(fs, "focus_near", "focus_far") = {} THEN Get(a, "focus")
                             ELSE Chosen(fs, "focus_near", "focus_far"))
      /\ Same(a, b)
    BY <1>1, <1>3, <1>4, <1>6, PlainlyAre, SetEitherSets
<1>8. b \in PacketType
    BY <1>7 DEF Sets
<1>9. /\ Sets(b, q, "zoom", IF Chosen(fs, "zoom_in", "zoom_out") = {} THEN Get(b, "zoom")
                            ELSE Chosen(fs, "zoom_in", "zoom_out"))
      /\ Same(b, q)
    BY <1>2, <1>3, <1>4, <1>8, PlainlyAre, SetEitherSets
<1>10. q \in PacketType /\ q.pan = x.pan /\ q.tilt = x.tilt
    BY <1>5, <1>7, <1>9 DEF Sets, Same
<1>11. Get(q, "iris") = Chosen(fs, "iris_open", "iris_close")
    BY <1>4, <1>5, <1>7, <1>9 DEF Sets, Ungiven
<1>12. Get(q, "focus") = Chosen(fs, "focus_near", "focus_far")
    BY <1>4, <1>5, <1>7, <1>9 DEF Sets, Ungiven
<1>13. Get(q, "zoom") = Chosen(fs, "zoom_in", "zoom_out")
    BY <1>4, <1>5, <1>7, <1>9 DEF Sets, Ungiven
<1>14. \A g \in Groups \ {"iris", "focus", "zoom"} : Get(q, g) = Get(x, g)
    BY <1>5, <1>7, <1>9 DEF Sets
<1>. QED
    BY <1>10, <1>11, <1>12, <1>13, <1>14

LEMMA TogglesDecoded ==
    ASSUME NEW x \in PacketType, Ungiven(x, {"ack", "lens"}),
           NEW m, NEW fs, ViconFunctional(m, fs, Plainly), NEW q, q = decode_toggles(x, m)
    PROVE  /\ q \in PacketType /\ q.tilt = x.tilt
           /\ Get(q, "pan") = (IF "pan_auto" \in fs THEN {"pan_auto"} ELSE Get(x, "pan"))
           /\ q.pan = (IF "pan_auto" \in fs THEN 0 ELSE x.pan)
           /\ Get(q, "iris") = (IF "iris_auto" \in fs THEN {"iris_auto"} ELSE Get(x, "iris"))
           /\ Get(q, "ack") = (IF "ack_alarm" \in fs THEN {"ack_alarm"} ELSE {})
           /\ Get(q, "lens") = (IF "lens_speed" \in fs THEN {"lens_speed"} ELSE {})
           /\ \A g \in Groups \ {"pan", "iris", "ack", "lens"} : Get(q, g) = Get(x, g)
<1>1. PICK a, b, c : /\ a = SetEither(x, m, "ack", "ack_alarm", "ack_alarm")
                     /\ b = SetEither(a, m, "iris", "iris_auto", "iris_auto")
                     /\ c = IF is_set(m, "pan_auto") THEN ccpacket_set_pan(b, {"pan_auto"}, 0) ELSE b
    OBVIOUS
<1>2. q = SetEither(c, m, "lens", "lens_speed", "lens_speed")
    BY <1>1 DEF decode_toggles
<1>3. \A f \in Plainly : is_set(m, f) <=> f \in fs
    BY DEF ViconFunctional
<1>4. {"ack", "iris", "pan", "lens"} \subseteq Groups
    BY GroupNames
<1>5. \A f : Chosen(fs, f, f) = IF f \in fs THEN {f} ELSE {}
    BY DEF Chosen
<1>6. /\ Sets(x, a, "ack", IF Chosen(fs, "ack_alarm", "ack_alarm") = {} THEN Get(x, "ack")
                           ELSE Chosen(fs, "ack_alarm", "ack_alarm"))
      /\ Same(x, a)
    BY <1>1, <1>3, <1>4, PlainlyAre, SetEitherSets
<1>7. /\ a \in PacketType /\ Get(a, "ack") = (IF "ack_alarm" \in fs THEN {"ack_alarm"} ELSE {})
      /\ a.pan = x.pan /\ a.tilt = x.tilt /\ \A g \in Groups \ {"ack"} : Get(a, g) = Get(x, g)
    BY <1>4, <1>5, <1>6 DEF Sets, Same, Ungiven
<1>8. /\ Sets(a, b, "iris", IF Chosen(fs, "iris_auto", "iris_auto") = {} THEN Get(a, "iris")
                            ELSE Chosen(fs, "iris_auto", "iris_auto"))
      /\ Same(a, b)
    BY <1>1, <1>3, <1>4, <1>7, PlainlyAre, SetEitherSets
<1>9. /\ b \in PacketType
      /\ Get(b, "iris") = (IF "iris_auto" \in fs THEN {"iris_auto"} ELSE Get(a, "iris"))
      /\ b.pan = a.pan /\ b.tilt = a.tilt /\ \A g \in Groups \ {"iris"} : Get(b, g) = Get(a, g)
    BY <1>4, <1>5, <1>8 DEF Sets, Same
<1>10. /\ c \in PacketType /\ c.tilt = b.tilt
       /\ Get(c, "pan") = (IF "pan_auto" \in fs THEN {"pan_auto"} ELSE Get(b, "pan"))
       /\ c.pan = (IF "pan_auto" \in fs THEN 0 ELSE b.pan)
       /\ \A g \in Groups \ {"pan"} : Get(c, g) = Get(b, g)
    <2>1. is_set(m, "pan_auto") <=> "pan_auto" \in fs
        BY <1>3, PlainlyAre
    <2>2. CASE "pan_auto" \in fs
        <3>1. PICK s \in 0 .. SPEED_MAX : s = 0
            BY PacketAssumption
        <3>2. c = ccpacket_set_pan(b, {"pan_auto"}, s)
            BY <1>1, <2>1, <2>2, <3>1
        <3>3. Valid("pan", {"pan_auto"}) = {"pan_auto"}
            BY PlainlyAre, ValidOne
        <3>4. Sets(b, c, "pan", {"pan_auto"}) /\ c.pan = 0 /\ c.tilt = b.tilt
            BY <1>9, <3>1, <3>2, <3>3, PanSets, SMTT(30)
        <3>. QED
            BY <1>4, <2>2, <3>4 DEF Sets
    <2>3. CASE "pan_auto" \notin fs
        <3>1. c = b
            BY <1>1, <2>1, <2>3
        <3>. QED
            BY <1>9, <2>3, <3>1
    <2>. QED
        BY <2>2, <2>3
<1>11. /\ Sets(c, q, "lens", IF Chosen(fs, "lens_speed", "lens_speed") = {} THEN Get(c, "lens")
                             ELSE Chosen(fs, "lens_speed", "lens_speed"))
       /\ Same(c, q)
    BY <1>2, <1>3, <1>4, <1>10, PlainlyAre, SetEitherSets
<1>12. Get(c, "lens") = {}
    BY <1>4, <1>7, <1>9, <1>10 DEF Ungiven
<1>13. /\ q \in PacketType /\ Get(q, "lens") = (IF "lens_speed" \in fs THEN {"lens_speed"} ELSE {})
       /\ q.pan = c.pan /\ q.tilt = c.tilt /\ \A g \in Groups \ {"lens"} : Get(q, g) = Get(c, g)
    BY <1>4, <1>5, <1>11, <1>12 DEF Sets, Same
<1>14. q.pan = (IF "pan_auto" \in fs THEN 0 ELSE x.pan) /\ q.tilt = x.tilt
    BY <1>7, <1>9, <1>10, <1>13
<1>15. Get(q, "pan") = IF "pan_auto" \in fs THEN {"pan_auto"} ELSE Get(x, "pan")
    BY <1>4, <1>7, <1>9, <1>10, <1>13
<1>16. Get(q, "iris") = IF "iris_auto" \in fs THEN {"iris_auto"} ELSE Get(x, "iris")
    BY <1>4, <1>7, <1>9, <1>10, <1>13
<1>17. Get(q, "ack") = IF "ack_alarm" \in fs THEN {"ack_alarm"} ELSE {}
    BY <1>4, <1>7, <1>9, <1>10, <1>13
<1>18. \A g \in Groups \ {"pan", "iris", "ack", "lens"} : Get(q, g) = Get(x, g)
    BY <1>7, <1>9, <1>10, <1>13
<1>. QED
    BY <1>13, <1>14, <1>15, <1>16, <1>17, <1>18

\* The packet has the preset of these functions, of number n.
PresetTold(q, fs, n) ==
    IF "preset_recall" \in fs THEN PresetGiven(q, "preset_recall", n)
    ELSE IF "preset_store" \in fs THEN PresetGiven(q, "preset_store", n)
    ELSE Get(q, "preset") = {}

\* Packet q is x with that preset.
MakesPreset(x, q, f, n) ==
    /\ q \in PacketType /\ q.pan = x.pan /\ q.tilt = x.tilt /\ PresetGiven(q, f, n)
    /\ \A g \in Groups \ {"preset"} : Get(q, g) = Get(x, g)

LEMMA GivesPreset ==
    ASSUME NEW x \in PacketType, Get(x, "preset") = {}, NEW f \in Cases("preset"), NEW n \in Nat,
           NEW q, q = ccpacket_set_preset(x, {f}, n)
    PROVE  MakesPreset(x, q, f, n)
<1>1. /\ Sets(x, q, "preset", IF n = 0 \/ IsMenuPreset({f}, n) THEN {} ELSE {f})
      /\ q.pan = x.pan /\ q.tilt = x.tilt
      /\ n # 0 /\ ~IsMenuPreset({f}, n) => q.preset = n
    BY PresetSets
<1>. QED
    BY <1>1, GroupNames DEF Sets, PresetGiven, MakesPreset

LEMMA PresetDecoded ==
    ASSUME NEW x \in PacketType, Get(x, "preset") = {},
           NEW m, NEW fs, ViconFunctional(m, fs, Plainly), NEW n, n = m[5] % 16,
           "preset_recall" \in fs \/ "preset_store" \in fs => n \in Nat,
           NEW q, q = decode_preset(x, m)
    PROVE  /\ q \in PacketType /\ q.pan = x.pan /\ q.tilt = x.tilt /\ PresetTold(q, fs, n)
           /\ \A g \in Groups \ {"preset"} : Get(q, g) = Get(x, g)
<1>1. /\ is_set(m, "preset_recall") <=> "preset_recall" \in fs
      /\ is_set(m, "preset_store") <=> "preset_store" \in fs
    BY PlainlyAre DEF ViconFunctional
<1>2. CASE "preset_recall" \in fs
    <2>1. q = ccpacket_set_preset(x, {"preset_recall"}, n) /\ n \in Nat
        BY <1>1, <1>2 DEF decode_preset
    <2>2. "preset_recall" \in Cases("preset")
        BY PlainlyAre
    <2>3. MakesPreset(x, q, "preset_recall", n)
        BY <2>1, <2>2, GivesPreset
    <2>. QED
        BY <1>2, <2>3 DEF PresetTold, MakesPreset
<1>3. CASE "preset_recall" \notin fs /\ "preset_store" \in fs
    <2>1. q = ccpacket_set_preset(x, {"preset_store"}, n) /\ n \in Nat
        BY <1>1, <1>3 DEF decode_preset
    <2>2. "preset_store" \in Cases("preset")
        BY PlainlyAre
    <2>3. MakesPreset(x, q, "preset_store", n)
        BY <2>1, <2>2, GivesPreset
    <2>. QED
        BY <1>3, <2>3 DEF PresetTold, MakesPreset
<1>4. CASE "preset_recall" \notin fs /\ "preset_store" \notin fs
    <2>1. q = x
        BY <1>1, <1>4 DEF decode_preset
    <2>. QED
        BY <1>4, <2>1 DEF PresetTold
<1>. QED
    BY <1>2, <1>3, <1>4

\* What the functions of a message say, but for the speeds that may follow them.
ModesGiven(q, fs) ==
    /\ Get(q, "pan") = IF "pan_auto" \in fs THEN {"pan_auto"}
                       ELSE Directed(fs, "pan_right", "pan_left", "pan_left")
    /\ Get(q, "tilt") = Directed(fs, "tilt_up", "tilt_down", "tilt_down")
    /\ Get(q, "iris") = IF "iris_auto" \in fs THEN {"iris_auto"}
                        ELSE Chosen(fs, "iris_open", "iris_close")
    /\ Get(q, "focus") = Chosen(fs, "focus_near", "focus_far")
    /\ Get(q, "zoom") = Chosen(fs, "zoom_in", "zoom_out")
    /\ Get(q, "ack") = IF "ack_alarm" \in fs THEN {"ack_alarm"} ELSE {}
    /\ Get(q, "lens") = IF "lens_speed" \in fs THEN {"lens_speed"} ELSE {}
    /\ Get(q, "wiper") = IF "wiper_on" \in fs THEN {"wiper_on"} ELSE {}
    /\ Ungiven(q, {"menu", "camera"})

FunctionsGiven(q, fs, n) ==
    /\ q \in PacketType /\ ModesGiven(q, fs) /\ PresetTold(q, fs, n)
    /\ Chosen(fs, "pan_right", "pan_left") = {} => q.pan = 0
    /\ Chosen(fs, "tilt_up", "tilt_down") = {} => q.tilt = 0

LEMMA FunctionsDecoded ==
    ASSUME NEW m, NEW fs, ViconFunctional(m, fs, Plainly), NEW n, n = m[5] % 16,
           "preset_recall" \in fs \/ "preset_store" \in fs => n \in Nat,
           NEW q, q = decode_functions(m)
    PROVE  FunctionsGiven(q, fs, n)
<1>1. PICK a, b, c, e, f : /\ a = vicon_decode_pan(Cleared, m)
                           /\ b = vicon_decode_tilt(a, m)
                           /\ c = vicon_decode_lens(b, m)
                           /\ e = decode_toggles(c, m)
                           /\ f = decode_aux(e, m)
    OBVIOUS
<1>2. q = decode_preset(f, m)
    BY <1>1 DEF decode_functions
<1>3. Cleared \in PacketType /\ \A g : Get(Cleared, g) = {}
    BY ClearedIs
<1>4. {"menu", "camera", "pan", "tilt", "preset", "zoom", "focus", "iris", "lens", "wiper", "ack"}
         \subseteq Groups
    BY GroupNames
<1>5. /\ a \in PacketType /\ Get(a, "pan") = Directed(fs, "pan_right", "pan_left", "pan_left")
      /\ Chosen(fs, "pan_right", "pan_left") = {} => a.pan = 0
      /\ \A g \in Groups \ {"pan"} : Get(a, g) = {}
    <2>1. /\ Sets(Cleared, a, "pan", Directed(fs, "pan_right", "pan_left", "pan_left"))
          /\ a.pan = (IF Chosen(fs, "pan_right", "pan_left") = {} THEN 0 ELSE SPEED_MAX)
        BY <1>1, <1>3, ViconPanDecoded
    <2>. QED
        BY <1>3, <1>4, <2>1 DEF Sets
<1>6. /\ b \in PacketType /\ Get(b, "tilt") = Directed(fs, "tilt_up", "tilt_down", "tilt_down")
      /\ Chosen(fs, "tilt_up", "tilt_down") = {} => b.tilt = 0
      /\ b.pan = a.pan /\ \A g \in Groups \ {"tilt"} : Get(b, g) = Get(a, g)
    <2>1. /\ Sets(a, b, "tilt", Directed(fs, "tilt_up", "tilt_down", "tilt_down"))
          /\ b.tilt = (IF Chosen(fs, "tilt_up", "tilt_down") = {} THEN 0 ELSE SPEED_MAX)
          /\ b.pan = a.pan
        BY <1>1, <1>5, ViconTiltDecoded
    <2>. QED
        BY <1>4, <2>1 DEF Sets
<1>7. \A g \in Groups \ {"pan", "tilt"} : Get(b, g) = {}
    BY <1>5, <1>6
<1>8. /\ c \in PacketType /\ c.pan = b.pan /\ c.tilt = b.tilt
      /\ Get(c, "iris") = Chosen(fs, "iris_open", "iris_close")
      /\ Get(c, "focus") = Chosen(fs, "focus_near", "focus_far")
      /\ Get(c, "zoom") = Chosen(fs, "zoom_in", "zoom_out")
      /\ \A g \in Groups \ {"iris", "focus", "zoom"} : Get(c, g) = Get(b, g)
    <2>1. Ungiven(b, {"iris", "focus", "zoom"})
        BY <1>4, <1>7 DEF Ungiven
    <2>. QED
        BY <1>1, <1>6, <2>1, ViconLensDecoded
<1>9. /\ e \in PacketType /\ e.tilt = c.tilt
      /\ Get(e, "pan") = (IF "pan_auto" \in fs THEN {"pan_auto"} ELSE Get(c, "pan"))
      /\ e.pan = (IF "pan_auto" \in fs THEN 0 ELSE c.pan)
      /\ Get(e, "iris") = (IF "iris_auto" \in fs THEN {"iris_auto"} ELSE Get(c, "iris"))
      /\ Get(e, "ack") = (IF "ack_alarm" \in fs THEN {"ack_alarm"} ELSE {})
      /\ Get(e, "lens") = (IF "lens_speed" \in fs THEN {"lens_speed"} ELSE {})
      /\ \A g \in Groups \ {"pan", "iris", "ack", "lens"} : Get(e, g) = Get(c, g)
    <2>1. Ungiven(c, {"ack", "lens"})
        BY <1>4, <1>7, <1>8 DEF Ungiven
    <2>. QED
        BY <1>1, <1>8, <2>1, TogglesDecoded
<1>10. /\ f \in PacketType /\ f.pan = e.pan /\ f.tilt = e.tilt
       /\ Get(f, "wiper") = (IF "wiper_on" \in fs THEN {"wiper_on"} ELSE {})
       /\ \A g \in Groups \ {"wiper"} : Get(f, g) = Get(e, g)
    <2>1. Get(e, "wiper") = {}
        BY <1>4, <1>7, <1>8, <1>9
    <2>2. is_set(m, "wiper_on") <=> "wiper_on" \in fs
        BY PlainlyAre DEF ViconFunctional
    <2>3. f = SetEither(e, m, "wiper", "wiper_on", "wiper_on")
        BY <1>1 DEF decode_aux
    <2>4. /\ Sets(e, f, "wiper", IF Chosen(fs, "wiper_on", "wiper_on") = {} THEN Get(e, "wiper")
                                 ELSE Chosen(fs, "wiper_on", "wiper_on"))
          /\ Same(e, f)
        BY <1>4, <1>9, <2>2, <2>3, PlainlyAre, SetEitherSets
    <2>5. Chosen(fs, "wiper_on", "wiper_on") = IF "wiper_on" \in fs THEN {"wiper_on"} ELSE {}
        BY DEF Chosen
    <2>. QED
        BY <1>4, <2>1, <2>4, <2>5 DEF Sets, Same
<1>11. /\ q \in PacketType /\ q.pan = f.pan /\ q.tilt = f.tilt /\ PresetTold(q, fs, n)
       /\ \A g \in Groups \ {"preset"} : Get(q, g) = Get(f, g)
    <2>1. Get(f, "preset") = {}
        BY <1>4, <1>7, <1>8, <1>9, <1>10
    <2>. QED
        BY <1>2, <1>10, <2>1, PresetDecoded
<1>12. /\ Chosen(fs, "pan_right", "pan_left") = {} => q.pan = 0
       /\ Chosen(fs, "tilt_up", "tilt_down") = {} => q.tilt = 0
    BY <1>5, <1>6, <1>8, <1>9, <1>10, <1>11
<1>13. /\ Get(q, "pan") = Get(e, "pan") /\ Get(q, "tilt") = Get(b, "tilt")
       /\ Get(q, "iris") = Get(e, "iris") /\ Get(q, "focus") = Get(c, "focus")
       /\ Get(q, "zoom") = Get(c, "zoom") /\ Get(q, "ack") = Get(e, "ack")
       /\ Get(q, "lens") = Get(e, "lens") /\ Get(q, "wiper") = Get(f, "wiper")
       /\ Get(q, "menu") = {} /\ Get(q, "camera") = {}
    BY <1>4, <1>7, <1>8, <1>9, <1>10, <1>11
<1>14. Get(c, "pan") = Directed(fs, "pan_right", "pan_left", "pan_left")
    BY <1>4, <1>5, <1>6, <1>8
<1>15. ModesGiven(q, fs)
    BY <1>6, <1>8, <1>9, <1>10, <1>13, <1>14 DEF ModesGiven, Ungiven
<1>. QED
    BY <1>11, <1>12, <1>15 DEF FunctionsGiven

-----------------------------------------------------------------------------
(* What the messages of a packet in Vicon give.                             *)

\* The modes of p, but for the directions, which are these functions.
GivesModes(q, p, move) ==
    /\ Get(q, "pan") = IF Get(p, "pan") = {"pan_auto"} THEN {"pan_auto"}
                       ELSE Directed(move, "pan_right", "pan_left", "pan_left")
    /\ Get(q, "tilt") = Directed(move, "tilt_up", "tilt_down", "tilt_down")
    /\ Get(q, "focus") = Get(p, "focus") \ {"focus_auto"}
    /\ \A g \in {"iris", "zoom", "ack", "lens"} : Get(q, g) = Get(p, g)
    /\ Get(q, "wiper") = Get(p, "wiper") \cap {"wiper_on"}
    /\ Ungiven(q, {"menu", "camera"})

LEMMA ModesSplit ==
    ASSUME NEW p
    PROVE  /\ Get(p, "pan") \in {{}, {"pan_left"}, {"pan_right"}, {"pan_auto"}}
           /\ Get(p, "tilt") \in {{}, {"tilt_up"}, {"tilt_down"}}
           /\ Get(p, "ack") \in {{}, {"ack_alarm"}} /\ Get(p, "lens") \in {{}, {"lens_speed"}}
           /\ Get(p, "wiper") \in {{}, {"wiper_on"}, {"wiper_off"}}
<1>1. /\ Cases("ack") = {"ack_alarm"} /\ Cases("lens") = {"lens_speed"}
      /\ Cases("wiper") = {"wiper_on", "wiper_off"}
      /\ Cases("pan") = {"pan_left", "pan_right", "pan_auto"}
      /\ Cases("tilt") = {"tilt_up", "tilt_down"}
    BY DEF Cases, CC
<1>2. Get(p, "pan") \in {{}, {"pan_left"}, {"pan_right"}, {"pan_auto"}}
    BY <1>1, ModeIs
<1>3. Get(p, "tilt") \in {{}, {"tilt_up"}, {"tilt_down"}}
    BY <1>1, ModeIs
<1>4. Get(p, "ack") \in {{}, {"ack_alarm"}}
    BY <1>1, ModeIs
<1>5. Get(p, "lens") \in {{}, {"lens_speed"}}
    BY <1>1, ModeIs
<1>6. Get(p, "wiper") \in {{}, {"wiper_on"}, {"wiper_off"}}
    BY <1>1, ModeIs
<1>. QED
    BY <1>2, <1>3, <1>4, <1>5, <1>6

\* Those modes, from functions with these directions and presets.
ModesOf(q, p, fs, move, pre) ==
    /\ GivesModes(q, p, move) /\ \A f \in {"preset_recall", "preset_store"} : f \in fs <=> f \in pre
    /\ Chosen(fs, "pan_right", "pan_left") = Chosen(move, "pan_right", "pan_left")
    /\ Chosen(fs, "tilt_up", "tilt_down") = Chosen(move, "tilt_up", "tilt_down")

LEMMA EncodesModes ==
    ASSUME NEW p,
           NEW more \in SUBSET {"command", "extended", "ex_request", "ex_store"},
           NEW move \in SUBSET {"pan_right", "pan_left", "tilt_up", "tilt_down"},
           NEW pre \in SUBSET {"preset_recall", "preset_store"},
           NEW fs, fs = more \cup move \cup vicon_encode_lens(p) \cup encode_toggles(p)
                        \cup encode_aux(p) \cup pre,
           NEW q, ModesGiven(q, fs)
    PROVE  ModesOf(q, p, fs, move, pre)
<1>1. PICK i \in {{}, {"iris_open"}, {"iris_close"}, {"iris_auto"}} : i = Get(p, "iris")
    BY MovesAre
<1>2. PICK o \in {{}, {"focus_near"}, {"focus_far"}, {"focus_auto"}} : o = Get(p, "focus")
    BY MovesAre
<1>3. PICK z \in {{}, {"zoom_in"}, {"zoom_out"}} : z = Get(p, "zoom")
    BY MovesAre
<1>4. PICK a \in {{}, {"ack_alarm"}} : a = Get(p, "ack")
    BY ModesSplit
<1>5. PICK l \in {{}, {"lens_speed"}} : l = Get(p, "lens")
    BY ModesSplit
<1>6. PICK w \in {{}, {"wiper_on"}, {"wiper_off"}} : w = Get(p, "wiper")
    BY ModesSplit
<1>7. PICK b \in {{}, {"pan_left"}, {"pan_right"}, {"pan_auto"}} : b = Get(p, "pan")
    BY ModesSplit
<1>8. PICK lens : lens = (i \cup o \cup z) \ {"iris_auto", "focus_auto"}
                  /\ lens = vicon_encode_lens(p)
    BY <1>1, <1>2, <1>3 DEF vicon_encode_lens
<1>9. PICK tog : tog = a \cup l \cup (i \cap {"iris_auto"}) \cup (b \cap {"pan_auto"})
                 /\ tog = encode_toggles(p)
    BY <1>1, <1>4, <1>5, <1>7 DEF encode_toggles
<1>10. PICK aux : aux = w \cap {"wiper_on"} /\ aux = encode_aux(p)
    BY <1>6 DEF encode_aux
<1>11. fs = more \cup move \cup lens \cup tog \cup aux \cup pre
    BY <1>8, <1>9, <1>10
<1>12. /\ lens \subseteq {"iris_open", "iris_close", "focus_near", "focus_far", "zoom_in", "zoom_out"}
       /\ tog \subseteq {"ack_alarm", "lens_speed", "iris_auto", "pan_auto"}
       /\ aux \subseteq {"wiper_on"}
    BY <1>8, <1>9, <1>10
<1>13. /\ \A f \in {"preset_recall", "preset_store"} : f \in fs <=> f \in pre
       /\ \A f \in {"pan_right", "pan_left", "tilt_up", "tilt_down"} : f \in fs <=> f \in move
    BY <1>11, <1>12
<1>14. \A f \in {"iris_open", "iris_close", "focus_near", "focus_far", "zoom_in", "zoom_out"} :
          f \in fs <=> f \in lens
    BY <1>11, <1>12
<1>15. \A f \in {"ack_alarm", "lens_speed", "iris_auto", "pan_auto"} : f \in fs <=> f \in tog
    BY <1>11, <1>12
<1>16. "wiper_on" \in fs <=> "wiper_on" \in aux
    BY <1>11, <1>12
<1>17. /\ Chosen(fs, "pan_right", "pan_left") = Chosen(move, "pan_right", "pan_left")
       /\ Chosen(fs, "tilt_up", "tilt_down") = Chosen(move, "tilt_up", "tilt_down")
    BY <1>13 DEF Chosen
<1>18. /\ Directed(fs, "pan_right", "pan_left", "pan_left") = Directed(move, "pan_right", "pan_left", "pan_left")
       /\ Directed(fs, "tilt_up", "tilt_down", "tilt_down") = Directed(move, "tilt_up", "tilt_down", "tilt_down")
    BY <1>17 DEF Directed
<1>19. "pan_auto" \in fs <=> b = {"pan_auto"}
    BY <1>9, <1>15
<1>20. Get(q, "iris") = i
    <2>1. Get(q, "iris") = IF "iris_auto" \in fs THEN {"iris_auto"}
                           ELSE Chosen(fs, "iris_open", "iris_close")
        BY DEF ModesGiven
    <2>2. /\ "iris_auto" \in fs <=> i = {"iris_auto"}
          /\ "iris_open" \in fs <=> i = {"iris_open"}
          /\ "iris_close" \in fs <=> i = {"iris_close"}
        BY <1>8, <1>9, <1>14, <1>15
    <2>3. Chosen(fs, "iris_open", "iris_close")
              = IF "iris_open" \in fs THEN {"iris_open"}
                ELSE IF "iris_close" \in fs THEN {"iris_close"} ELSE {}
        BY DEF Chosen
    <2>4. CASE i = {"iris_auto"}
        BY <2>1, <2>2, <2>4
    <2>5. CASE i = {"iris_open"}
        <3>1. "iris_open" \in fs /\ "iris_auto" \notin fs
            BY <2>2, <2>5
        <3>. QED
            BY <2>1, <2>3, <2>5, <3>1
    <2>6. CASE i = {"iris_close"}
        <3>1. "iris_close" \in fs /\ "iris_open" \notin fs /\ "iris_auto" \notin fs
            BY <2>2, <2>6
        <3>. QED
            BY <2>1, <2>3, <2>6, <3>1
    <2>7. CASE i = {}
        <3>1. "iris_close" \notin fs /\ "iris_open" \notin fs /\ "iris_auto" \notin fs
            BY <2>2, <2>7
        <3>. QED
            BY <2>1, <2>3, <2>7, <3>1
    <2>. QED
        BY <2>4, <2>5, <2>6, <2>7
<1>21. Get(q, "focus") = o \ {"focus_auto"}
    <2>1. Get(q, "focus") = Chosen(fs, "focus_near", "focus_far")
        BY DEF ModesGiven
    <2>2. /\ "focus_near" \in fs <=> o = {"focus_near"}
          /\ "focus_far" \in fs <=> o = {"focus_far"}
        BY <1>8, <1>14
    <2>. QED
        BY <2>1, <2>2 DEF Chosen
<1>22. Get(q, "zoom") = z
    <2>1. Get(q, "zoom") = Chosen(fs, "zoom_in", "zoom_out")
        BY DEF ModesGiven
    <2>2. /\ "zoom_in" \in fs <=> z = {"zoom_in"}
          /\ "zoom_out" \in fs <=> z = {"zoom_out"}
        BY <1>8, <1>14
    <2>. QED
        BY <2>1, <2>2 DEF Chosen
<1>23. Get(q, "ack") = a /\ Get(q, "lens") = l
    <2>1. /\ Get(q, "ack") = (IF "ack_alarm" \in fs THEN {"ack_alarm"} ELSE {})
          /\ Get(q, "lens") = (IF "lens_speed" \in fs THEN {"lens_speed"} ELSE {})
        BY DEF ModesGiven
    <2>2. /\ "ack_alarm" \in fs <=> a = {"ack_alarm"}
          /\ "lens_speed" \in fs <=> l = {"lens_speed"}
        BY <1>9, <1>15
    <2>. QED
        BY <2>1, <2>2
<1>24. Get(q, "wiper") = w \cap {"wiper_on"}
    <2>1. Get(q, "wiper") = (IF "wiper_on" \in fs THEN {"wiper_on"} ELSE {})
        BY DEF ModesGiven
    <2>. QED
        BY <1>10, <1>16, <2>1
<1>25. GivesModes(q, p, move)
    <2>1. /\ Get(q, "pan") = IF "pan_auto" \in fs THEN {"pan_auto"}
                             ELSE Directed(fs, "pan_right", "pan_left", "pan_left")
          /\ Get(q, "tilt") = Directed(fs, "tilt_up", "tilt_down", "tilt_down")
          /\ Ungiven(q, {"menu", "camera"})
        BY DEF ModesGiven
    <2>. QED
        BY <1>1, <1>2, <1>3, <1>4, <1>5, <1>6, <1>7, <1>18, <1>19, <1>20, <1>21, <1>22, <1>23,
           <1>24, <2>1 DEF GivesModes
<1>. QED
    BY <1>13, <1>17, <1>25 DEF ModesOf

\* What the codec of Vicon carries.
LEMMA ViconCarries ==
    ASSUME NEW p, Codec = "vicon"
    PROVE  /\ Carried(p, "pan") /\ Carried(p, "tilt") /\ ~Carried(p, "camera")
           /\ Carried(p, "preset") <=>
                 ccpacket_get_preset_mode(p) \notin {{}, {"preset_clear"}} /\ Numbered(p)
           /\ Carried(p, "wiper") <=> Get(p, "wiper") = {"wiper_on"}
           /\ \A g \in {"menu", "iris", "focus", "zoom", "lens", "ack"} :
                 Carried(p, g) <=> Get(p, g) \notin {{}, {"focus_auto"}}
<1>1. ASSUME NEW g \in Plain
      PROVE  Entry(p, g)[1] = Get(p, g)
    <2>1. Entry(p, g) = <<Get(p, g), 0>>
        BY EntryIs
    <2>. QED
        BY <2>1
<1>2. Entry(p, "preset")[1] = ccpacket_get_preset_mode(p)
    BY EntryIs
<1>3. Carried(p, "pan") /\ Carried(p, "tilt") /\ ~Carried(p, "camera")
    BY DEF Carried
<1>4. Carried(p, "preset") <=>
         ccpacket_get_preset_mode(p) \notin {{}, {"preset_clear"}} /\ Numbered(p)
    BY <1>2 DEF Carried
<1>5. Carried(p, "wiper") <=> Get(p, "wiper") = {"wiper_on"}
    BY <1>1, PlainAre DEF Carried
<1>6. ASSUME NEW g \in {"menu", "iris", "focus", "zoom", "lens", "ack"}
      PROVE  Carried(p, g) <=> Get(p, g) \notin {{}, {"focus_auto"}}
    BY <1>1, PlainAre DEF Carried
<1>. QED
    BY <1>3, <1>4, <1>5, <1>6

LEMMA ViconPlain ==
    ASSUME NEW p, Askable(p), Codec = "vicon", NEW q, NEW move, GivesModes(q, p, move),
           NEW g \in Plain
    PROVE  (Get(q, g) # {} <=> Carried(p, g)) /\ Answers(q, p, g)
<1>1. /\ Get(q, "focus") = Get(p, "focus") \ {"focus_auto"}
      /\ \A h \in {"iris", "zoom", "ack", "lens"} : Get(q, h) = Get(p, h)
      /\ Get(q, "wiper") = Get(p, "wiper") \cap {"wiper_on"}
      /\ Get(q, "menu") = {} /\ Get(q, "camera") = {}
    BY DEF GivesModes, Ungiven
<1>2. /\ Get(p, "menu") = {} /\ Get(p, "wiper") \in {{}, {"wiper_on"}, {"wiper_off"}}
      /\ Get(p, "focus") \in {{}, {"focus_near"}, {"focus_far"}, {"focus_auto"}}
      /\ Get(p, "iris") \in {{}, {"iris_open"}, {"iris_close"}, {"iris_auto"}}
      /\ Get(p, "zoom") \in {{}, {"zoom_in"}, {"zoom_out"}}
      /\ Get(p, "ack") \in {{}, {"ack_alarm"}} /\ Get(p, "lens") \in {{}, {"lens_speed"}}
    BY MovesAre, ModesSplit DEF Askable
<1>3. Get(q, g) # {} => Get(q, g) = Get(p, g)
    <2>1. CASE g \in {"iris", "zoom", "ack", "lens", "menu", "camera"}
        BY <1>1, <2>1
    <2>2. CASE g = "focus"
        BY <1>1, <1>2, <2>2
    <2>3. CASE g = "wiper"
        BY <1>1, <1>2, <2>3
    <2>. QED
        BY <2>1, <2>2, <2>3, GroupsSplit DEF Plain
<1>4. Get(q, g) # {} <=> Carried(p, g)
    <2>1. CASE g \in {"iris", "zoom", "ack", "lens", "menu"}
        <3>1. Carried(p, g) <=> Get(p, g) \notin {{}, {"focus_auto"}}
            BY <2>1, ViconCarries
        <3>2. Get(p, g) # {"focus_auto"}
            BY <1>2, <2>1
        <3>3. Get(q, g) = Get(p, g)
            BY <1>1, <1>2, <2>1
        <3>. QED
            BY <3>1, <3>2, <3>3
    <2>2. CASE g = "focus"
        BY <1>1, <1>2, <2>2, ViconCarries
    <2>3. CASE g = "wiper"
        BY <1>1, <1>2, <2>3, ViconCarries
    <2>4. CASE g = "camera"
        BY <1>1, <2>4, ViconCarries
    <2>. QED
        BY <2>1, <2>2, <2>3, <2>4, GroupsSplit DEF Plain
<1>. QED
    BY <1>3, <1>4, PlainAnswers

\* The motion of q is that of p.
SameMotion(q, p) == Entry(q, "pan") = Entry(p, "pan") /\ Entry(q, "tilt") = Entry(p, "tilt")

LEMMA ViconMotion ==
    ASSUME NEW p, Codec = "vicon", p \in PacketType, NEW q, NEW move, GivesModes(q, p, move),
           SameMotion(q, p) \/ (is_extended_preset(p) /\ p.pan + p.tilt > 0),
           NEW g \in {"pan", "tilt"}
    PROVE  Get(q, g) # {} /\ Carried(p, g) /\ Answers(q, p, g)
<1>1. Get(q, g) # {}
    <2>1. \A f, h, i : Directed(move, f, h, i) # {}
        BY DEF Directed
    <2>2. {"pan_auto"} # {}
        OBVIOUS
    <2>. QED
        BY <2>1, <2>2 DEF GivesModes
<1>2. Carried(p, g)
    BY ViconCarries
<1>3. Fulfils(p, g, Entry(q, g))
    <2>1. CASE is_extended_preset(p) /\ p.pan + p.tilt > 0
        BY <2>1 DEF Fulfils
    <2>2. CASE SameMotion(q, p)
        <3>1. Entry(q, g) = Entry(p, g)
            BY <2>2 DEF SameMotion
        <3>. QED
            BY <3>1 DEF Fulfils, Near
    <2>. QED
        BY <2>1, <2>2
<1>. QED
    BY <1>1, <1>2, <1>3 DEF Answers

LEMMA ViconSays ==
    ASSUME NEW p, Askable(p), Codec = "vicon", NEW q, NEW move, GivesModes(q, p, move),
           SameMotion(q, p) \/ (is_extended_preset(p) /\ p.pan + p.tilt > 0),
           Get(q, "preset") # {} <=> Carried(p, "preset"), Answers(q, p, "preset")
    PROVE  PacketSays(q, p, Groups)
<1>1. p \in PacketType
    BY DEF Askable
<1>2. ASSUME NEW g \in Groups
      PROVE  (Get(q, g) # {} <=> Carried(p, g)) /\ Answers(q, p, g)
    <2>1. CASE g \in {"pan", "tilt"}
        BY <1>1, <2>1, ViconMotion
    <2>2. CASE g \in Plain
        BY <2>2, ViconPlain
    <2>3. g \in Plain \/ g \in {"pan", "tilt"} \/ g = "preset"
        BY DEF Plain
    <2>. QED
        BY <2>1, <2>2, <2>3
<1>. QED
    BY <1>2 DEF PacketSays

\* What has the flags of q says the same modes.
LEMMA SameModes ==
    ASSUME NEW x, NEW q, q.flags = x.flags, NEW p, NEW move, GivesModes(x, p, move)
    PROVE  GivesModes(q, p, move)
<1>1. \A g : Get(q, g) = Get(x, g)
    BY DEF Get
<1>. QED
    BY <1>1 DEF GivesModes, Ungiven

LEMMA SamePan ==
    ASSUME NEW p, Askable(p), NEW q, q.pan = p.pan,
           NEW move, move = encode_pan_tilt(p), GivesModes(q, p, move)
    PROVE  Entry(q, "pan") = Entry(p, "pan")
<1>1. Entry(q, "pan") = Motion(Get(q, "pan"), q.pan) /\ Entry(p, "pan") = Motion(Get(p, "pan"), p.pan)
    BY EntryIs
<1>2. Get(p, "pan") \in {{}, {"pan_left"}, {"pan_right"}, {"pan_auto"}}
    BY ModesSplit
<1>3. Get(q, "pan") = IF Get(p, "pan") = {"pan_auto"} THEN {"pan_auto"}
                      ELSE Directed(move, "pan_right", "pan_left", "pan_left")
    BY DEF GivesModes
<1>4. Get(p, "tilt") \in {{}, {"tilt_up"}, {"tilt_down"}}
    BY ModesSplit
<1>5. CASE Get(p, "pan") = {"pan_auto"}
    BY <1>1, <1>3, <1>5
<1>6. CASE Get(p, "pan") # {"pan_auto"} /\ p.pan = 0
    <2>1. Get(q, "pan") # {"pan_auto"}
        BY <1>3, <1>6 DEF Directed, Chosen
    <2>. QED
        BY <1>1, <1>6, <2>1, MotionIs
<1>7. CASE Get(p, "pan") # {"pan_auto"} /\ p.pan # 0
    <2>1. ccpacket_has_pan(p) /\ Get(p, "pan") # {}
        BY <1>7 DEF Askable, ccpacket_has_pan
    <2>2. \A f \in {"pan_left", "pan_right"} : f \in move <=> f \in Get(p, "pan")
        BY <1>4, <2>1 DEF encode_pan_tilt
    <2>3. Get(q, "pan") = Get(p, "pan")
        BY <1>2, <1>3, <1>7, <2>1, <2>2 DEF Directed, Chosen
    <2>. QED
        BY <1>1, <2>3
<1>. QED
    BY <1>5, <1>6, <1>7

LEMMA SameTilt ==
    ASSUME NEW p, Askable(p), NEW q, q.tilt = p.tilt,
           NEW move, move = encode_pan_tilt(p), GivesModes(q, p, move)
    PROVE  Entry(q, "tilt") = Entry(p, "tilt")
<1>1. Entry(q, "tilt") = Motion(Get(q, "tilt"), q.tilt) /\ Entry(p, "tilt") = Motion(Get(p, "tilt"), p.tilt)
    BY EntryIs
<1>2. Get(p, "tilt") \in {{}, {"tilt_up"}, {"tilt_down"}}
    BY ModesSplit
<1>3. Get(q, "tilt") = Directed(move, "tilt_up", "tilt_down", "tilt_down")
    BY DEF GivesModes
<1>4. Get(p, "pan") \in {{}, {"pan_left"}, {"pan_right"}, {"pan_auto"}}
    BY ModesSplit
<1>5. Get(q, "tilt") # {"pan_auto"} /\ Get(p, "tilt") # {"pan_auto"}
    BY <1>2, <1>3 DEF Directed, Chosen
<1>6. CASE p.tilt = 0
    BY <1>1, <1>5, <1>6, MotionIs
<1>7. CASE p.tilt # 0
    <2>1. ccpacket_has_tilt(p) /\ Get(p, "tilt") # {}
        BY <1>7 DEF Askable, ccpacket_has_tilt
    <2>2. \A f \in {"tilt_up", "tilt_down"} : f \in move <=> f \in Get(p, "tilt")
        BY <1>4, <2>1 DEF encode_pan_tilt
    <2>3. Get(q, "tilt") = Get(p, "tilt")
        BY <1>2, <1>3, <2>1, <2>2 DEF Directed, Chosen
    <2>. QED
        BY <1>1, <2>3
<1>. QED
    BY <1>6, <1>7

\* The preset of a message that is not an extended preset.
LEMMA ViconPreset ==
    ASSUME NEW p, Askable(p), Codec = "vicon", ~is_extended_preset(p),
           NEW fs, \A f \in {"preset_recall", "preset_store"} : f \in fs <=> f \in vicon_encode_preset(p),
           NEW n, n = p.preset % 16, NEW q, PresetTold(q, fs, n)
    PROVE  (Get(q, "preset") # {} <=> Carried(p, "preset")) /\ Answers(q, p, "preset")
<1>1. p.preset \in Nat
    BY DEF Askable, PacketType
<1>2. CASE \E f \in {"preset_recall", "preset_store"} : ccpacket_get_preset_mode(p) = {f}
    <2>1. PICK f \in {"preset_recall", "preset_store"} : ccpacket_get_preset_mode(p) = {f}
        BY <1>2
    <2>2. f \in Cases("preset")
        BY <2>1, PlainlyAre
    <2>3. n = p.preset /\ n \in 0 .. 15 /\ n = Number(p)
        <3>1. ~(p.preset > 15)
            BY <2>1 DEF is_extended_preset
        <3>. QED
            BY <1>1, <3>1 DEF Number
    <2>4. PresetGiven(q, f, n)
        <3>1. vicon_encode_preset(p) = {f}
            BY <2>1 DEF vicon_encode_preset
        <3>2. \A h \in {"preset_recall", "preset_store"} : h \in fs <=> h = f
            BY <3>1
        <3>. QED
            BY <2>1, <3>2 DEF PresetTold
    <2>5. (Get(q, "preset") # {} <=> Numbered(p)) /\ Answers(q, p, "preset")
        BY <2>1, <2>2, <2>3, <2>4, PresetAnswers
    <2>6. ccpacket_get_preset_mode(p) \notin {{}, {"preset_clear"}}
        BY <2>1
    <2>. QED
        BY <2>5, <2>6, ViconCarries
<1>3. CASE ccpacket_get_preset_mode(p) \in {{}, {"preset_clear"}}
    <2>1. vicon_encode_preset(p) = {}
        BY <1>3 DEF vicon_encode_preset
    <2>2. Get(q, "preset") = {}
        BY <2>1 DEF PresetTold
    <2>. QED
        BY <1>3, <2>2, ViconCarries DEF Answers
<1>. QED
    BY <1>2, <1>3, PresetModes

\* Packet q, of the functions of message m, has the modes of p with the
\* directions in move, the preset in pre, and no speed without a direction.
ReadBack(m, q, p, fs, move, pre) ==
    /\ q \in PacketType /\ GivesModes(q, p, move) /\ PresetTold(q, fs, m[5] % 16)
    /\ move = {} => q.pan = 0 /\ q.tilt = 0
    /\ \A f \in {"preset_recall", "preset_store"} : f \in fs <=> f \in pre

LEMMA PresetsIn ==
    ASSUME NEW p, NEW f \in {"preset_recall", "preset_store", "ex_request", "ex_store", "ex_status"}
    PROVE  f \notin vicon_encode_lens(p) /\ f \notin encode_toggles(p) /\ f \notin encode_aux(p)
<1>1. /\ Get(p, "iris") \in {{}, {"iris_open"}, {"iris_close"}, {"iris_auto"}}
      /\ Get(p, "focus") \in {{}, {"focus_near"}, {"focus_far"}, {"focus_auto"}}
      /\ Get(p, "zoom") \in {{}, {"zoom_in"}, {"zoom_out"}}
    BY MovesAre
<1>2. f \notin vicon_encode_lens(p)
    BY <1>1 DEF vicon_encode_lens
<1>3. f \notin encode_toggles(p)
    BY <1>1, ModesSplit DEF encode_toggles
<1>4. f \notin encode_aux(p)
    BY DEF encode_aux
<1>. QED
    BY <1>2, <1>3, <1>4

LEMMA ViconReads ==
    ASSUME NEW p, NEW n \in {6, 10}, NEW r \in 1 .. 255,
           NEW more \in SUBSET {"command", "extended", "ex_request", "ex_store"},
           NEW move \in SUBSET {"pan_right", "pan_left", "tilt_up", "tilt_down"},
           NEW pre \in SUBSET {"preset_recall", "preset_store"},
           NEW fs \in SUBSET Functions,
           fs = more \cup move \cup vicon_encode_lens(p) \cup encode_toggles(p)
                \cup encode_aux(p) \cup pre,
           NEW v, Added(n, fs, v), pre = {} \/ 5 \in DOMAIN v,
           NEW m, m = vicon_message(n, r, fs, v), NEW q, q = decode_functions(m)
    PROVE  ViconTold(m, n, r, fs, v) /\ ReadBack(m, q, p, fs, move, pre)
<1>1. ViconTold(m, n, r, fs, v)
    BY ViconTells
<1>2. ViconFunctional(m, fs, Plainly)
    <2>1. Plainly \cap {"ex_store", "ex_status"} = {}
        BY DEF Plainly
    <2>2. Plainly \subseteq InOctets(n) \ Spoiled(v)
        BY <2>1, PlainlyAre DEF Spoiled
    <2>. QED
        BY <1>1, <2>2 DEF ViconTold, ViconFunctional
<1>3. \A f \in {"preset_recall", "preset_store"} : f \in fs <=> f \in pre
    BY PresetsIn
<1>4. PICK w : w = m[5] % 16
    OBVIOUS
<1>5. "preset_recall" \in fs \/ "preset_store" \in fs => w \in Nat
    <2>. SUFFICES ASSUME pre # {} PROVE w \in Nat
        BY <1>3
    <2>1. 5 \in DOMAIN v
        OBVIOUS
    <2>2. m[5] % 16 = v[5]
        <3>1. 5 \in DOMAIN v \cap {5, 6} /\ 5 < n
            BY <2>1
        <3>. QED
            BY <1>1, <3>1 DEF ViconTold
    <2>3. v[5] \in 0 .. 127
        BY <2>1 DEF Added, Addition
    <2>. QED
        BY <1>4, <2>2, <2>3
<1>6. FunctionsGiven(q, fs, w)
    BY <1>2, <1>4, <1>5, FunctionsDecoded
<1>7. ModesOf(q, p, fs, move, pre)
    <2>1. ModesGiven(q, fs)
        BY <1>6 DEF FunctionsGiven
    <2>. QED
        BY <2>1, EncodesModes
<1>8. move = {} => q.pan = 0 /\ q.tilt = 0
    BY <1>6, <1>7 DEF Chosen, FunctionsGiven, ModesOf
<1>. QED
    BY <1>1, <1>3, <1>4, <1>6, <1>7, <1>8 DEF ReadBack, FunctionsGiven, ModesOf

LEMMA MovesIn ==
    ASSUME NEW p
    PROVE  /\ encode_pan_tilt(p) \in SUBSET {"pan_right", "pan_left", "tilt_up", "tilt_down"}
           /\ vicon_encode_preset(p) \in SUBSET {"preset_recall", "preset_store"}
<1>1. encode_pan_tilt(p) \in SUBSET {"pan_right", "pan_left", "tilt_up", "tilt_down"}
    <2>1. Get(p, "tilt") \in {{}, {"tilt_up"}, {"tilt_down"}}
        BY ModesSplit
    <2>. QED
        BY <2>1 DEF encode_pan_tilt
<1>2. vicon_encode_preset(p) \in SUBSET {"preset_recall", "preset_store"}
    BY PresetModes DEF vicon_encode_preset
<1>. QED
    BY <1>1, <1>2

LEMMA ViconCommandSays ==
    ASSUME NEW r \in 1 .. 255, NEW p, Askable(p), Codec = "vicon",
           ~is_extended_preset(p), ~is_extended_speed(p), NEW m, m = vicon_encode_command(r, p)
    PROVE  MessageSays(m, r, p, Groups)
<1>1. PICK move : move = encode_pan_tilt(p)
    OBVIOUS
<1>2. PICK pre : pre = vicon_encode_preset(p)
    OBVIOUS
<1>3. PICK more : more = {"command"}
    OBVIOUS
<1>4. PICK fs : fs = more \cup move \cup vicon_encode_lens(p) \cup encode_toggles(p)
                     \cup encode_aux(p) \cup pre
    OBVIOUS
<1>5. "command" \in Functions
    BY DEF Functions, VICON_BIT
<1>6. fs \in SUBSET Functions /\ "extended" \notin fs
    BY <1>1, <1>2, <1>3, <1>4, <1>5, FunctionsIn
<1>7. p \in PacketType
    BY DEF Askable
<1>8. PICK v : v = Octets5(p) /\ Addition(v)
    BY <1>7, AdditionsAre
<1>9. DOMAIN v = {5} /\ v[5] = p.preset % 16
    BY <1>8 DEF Octets5
<1>10. Added(6, fs, v)
    BY <1>8, <1>9 DEF Added
<1>11. m = vicon_message(6, r, fs, v)
    BY <1>1, <1>2, <1>3, <1>4, <1>8, Sizes DEF vicon_encode_command
<1>12. PICK q : q = decode_functions(m)
    OBVIOUS
<1>13. /\ move \in SUBSET {"pan_right", "pan_left", "tilt_up", "tilt_down"}
       /\ pre \in SUBSET {"preset_recall", "preset_store"}
    BY <1>1, <1>2, MovesIn
<1>14. more \in SUBSET {"command", "extended", "ex_request", "ex_store"}
    BY <1>3
<1>15. ViconTold(m, 6, r, fs, v) /\ ReadBack(m, q, p, fs, move, pre)
    BY <1>4, <1>6, <1>9, <1>10, <1>11, <1>12, <1>13, <1>14, ViconReads
<1>16. m[5] % 16 = p.preset % 16 /\ decode_receiver(m) = r
    BY <1>9, <1>15 DEF ViconTold
<1>17. ~is_extended_command(m)
    <2>1. "extended" \in InOctets(6) \ Spoiled(v)
        BY <1>9 DEF InOctets, Spoiled, Functions, VICON_BIT
    <2>2. ~is_set(m, "extended")
        BY <1>6, <1>15, <2>1 DEF ViconTold, ViconFunctional
    <2>. QED
        BY <2>2 DEF is_extended_command
<1>18. Decoded(m) = [receiver |-> r, pkt |-> q]
    BY <1>12, <1>16, <1>17 DEF Decoded, vicon_decode
<1>19. p.pan = 0 /\ p.tilt = 0 /\ move = {}
    BY <1>1 DEF is_extended_speed, Askable, ccpacket_has_pan, ccpacket_has_tilt, encode_pan_tilt
<1>20. GivesModes(q, p, move) /\ q.pan = p.pan /\ q.tilt = p.tilt
    BY <1>15, <1>19 DEF ReadBack
<1>21. SameMotion(q, p)
    BY <1>1, <1>20, SamePan, SameTilt DEF SameMotion
<1>22. (Get(q, "preset") # {} <=> Carried(p, "preset")) /\ Answers(q, p, "preset")
    <2>1. PresetTold(q, fs, p.preset % 16)
        BY <1>15, <1>16 DEF ReadBack
    <2>2. \A f \in {"preset_recall", "preset_store"} : f \in fs <=> f \in vicon_encode_preset(p)
        BY <1>2, <1>15 DEF ReadBack
    <2>. QED
        BY <2>1, <2>2, ViconPreset
<1>23. PacketSays(q, p, Groups)
    BY <1>20, <1>21, <1>22, ViconSays
<1>. QED
    BY <1>18, <1>23 DEF MessageSays

LEMMA SpeedMax == SPEED_MAX = 2047
BY SerialAssumption

LEMMA HighBits ==
    ASSUME NEW s \in 0 .. SPEED_MAX
    PROVE  (s \div 128) % 16 \in 0 .. 15
<1>1. s \in 0 .. 2047
    BY SpeedMax
<1>2. PICK a : a = s \div 128
    OBVIOUS
<1>3. a \in 0 .. 15
    BY <1>1, <1>2
<1>4. a % 16 = a
    BY <1>3
<1>. QED
    BY <1>2, <1>3, <1>4

LEMMA SpeedIs ==
    ASSUME NEW s \in 0 .. SPEED_MAX
    PROVE  (128 * ((s \div 128) % 16)) + ((s % 128) % 128) = s
<1>1. s \in 0 .. 2047
    BY SpeedMax
<1>2. PICK a, b : a = s \div 128 /\ b = s % 128
    OBVIOUS
<1>3. a \in 0 .. 15 /\ b \in 0 .. 127 /\ s = 128 * a + b
    BY <1>1, <1>2
<1>4. a % 16 = a /\ b % 128 = b
    BY <1>3
<1>. QED
    BY <1>2, <1>3, <1>4

LEMMA ViconSpeedSays ==
    ASSUME NEW r \in 1 .. 255, NEW p, Askable(p), Codec = "vicon",
           ~is_extended_preset(p), NEW m, m = encode_extended_speed(r, p)
    PROVE  MessageSays(m, r, p, Groups)
<1>1. PICK move : move = encode_pan_tilt(p)
    OBVIOUS
<1>2. PICK pre : pre = vicon_encode_preset(p)
    OBVIOUS
<1>3. PICK more : more = {"command", "extended"}
    OBVIOUS
<1>4. PICK fs : fs = more \cup move \cup vicon_encode_lens(p) \cup encode_toggles(p)
                     \cup encode_aux(p) \cup pre
    OBVIOUS
<1>5. "command" \in Functions /\ "extended" \in Functions
    BY DEF Functions, VICON_BIT
<1>6. fs \in SUBSET Functions /\ "command" \in fs /\ "extended" \in fs
    BY <1>1, <1>2, <1>3, <1>4, <1>5, FunctionsIn
<1>7. p \in PacketType /\ p.pan \in 0 .. SPEED_MAX /\ p.tilt \in 0 .. SPEED_MAX
    BY DEF Askable, PacketType
<1>8. PICK v : v = [j \in 5 .. 9 |-> IF j = 5 THEN p.preset % 16 ELSE encode_speeds(p)[j]]
               /\ Addition(v)
    BY <1>7, AdditionsAre
<1>9. /\ DOMAIN v = 5 .. 9 /\ v[5] = p.preset % 16
      /\ v[6] = (p.pan \div 128) % 16 /\ v[7] = p.pan % 128
      /\ v[8] = (p.tilt \div 128) % 16 /\ v[9] = p.tilt % 128
    BY <1>8 DEF encode_speeds
<1>10. v[6] \in 0 .. 15 /\ v[8] \in 0 .. 15
    <2>1. (p.pan \div 128) % 16 \in 0 .. 15
        BY <1>7, HighBits
    <2>2. (p.tilt \div 128) % 16 \in 0 .. 15
        BY <1>7, HighBits
    <2>. QED
        BY <1>9, <2>1, <2>2, SMTT(30)
<1>11. /\ move \in SUBSET {"pan_right", "pan_left", "tilt_up", "tilt_down"}
       /\ pre \in SUBSET {"preset_recall", "preset_store"}
       /\ more \in SUBSET {"command", "extended", "ex_request", "ex_store"}
    BY <1>1, <1>2, <1>3, MovesIn
<1>12. "ex_store" \notin fs /\ "ex_status" \notin fs /\ "ex_request" \notin fs
    BY <1>3, <1>4, <1>11, PresetsIn
<1>13. Added(10, fs, v)
    BY <1>8, <1>10, <1>12 DEF Added
<1>14. m = vicon_message(10, r, fs, v)
    BY <1>1, <1>2, <1>3, <1>4, <1>8, Sizes DEF encode_extended_speed
<1>15. PICK x : x = decode_functions(m)
    OBVIOUS
<1>16. 5 \in DOMAIN v /\ 6 \in DOMAIN v /\ 7 \in DOMAIN v /\ 8 \in DOMAIN v /\ 9 \in DOMAIN v
    BY <1>9
<1>17. ViconTold(m, 10, r, fs, v) /\ ReadBack(m, x, p, fs, move, pre)
    BY <1>4, <1>6, <1>11, <1>13, <1>14, <1>15, <1>16, ViconReads
<1>18. /\ decode_receiver(m) = r /\ m[5] % 16 = v[5] /\ m[6] % 16 = v[6]
       /\ m[7] = v[7] /\ m[8] = v[8] /\ m[9] = v[9]
    BY <1>16, <1>17 DEF ViconTold
<1>19. is_extended_command(m) /\ ~is_set(m, "ex_request")
    <2>1. {"command", "extended", "ex_request"} \subseteq InOctets(10) \ Spoiled(v)
        BY DEF InOctets, Spoiled, Functions, VICON_BIT
    <2>2. is_set(m, "command") /\ is_set(m, "extended") /\ ~is_set(m, "ex_request")
        BY <1>6, <1>12, <1>17, <2>1 DEF ViconTold, ViconFunctional
    <2>. QED
        BY <2>2 DEF is_extended_command
<1>20. PICK q : q = set_speeds(x, p.pan, p.tilt)
    OBVIOUS
<1>21. Decoded(m) = [receiver |-> r, pkt |-> q]
    <2>1. (128 * (m[6] % 16)) + (m[7] % 128) = p.pan
        BY <1>7, <1>9, <1>18, SpeedIs
    <2>2. (128 * (m[8] % 16)) + (m[9] % 128) = p.tilt
        <3>1. m[8] % 16 = v[8]
            BY <1>10, <1>18
        <3>. QED
            BY <1>7, <1>9, <1>18, <3>1, SpeedIs
    <2>3. decode_ex_speed(x, m) = q
        BY <1>20, <2>1, <2>2 DEF decode_ex_speed
    <2>. QED
        BY <1>15, <1>18, <1>19, <2>3 DEF Decoded, vicon_decode
<1>22. q.flags = x.flags /\ q.preset = x.preset /\ q.pan = p.pan /\ q.tilt = p.tilt
    <2>1. clamp_speed(p.pan) = p.pan
        BY <1>7, PacketAssumption DEF clamp_speed
    <2>2. x \in PacketType
        BY <1>17 DEF ReadBack
    <2>. QED
        BY <1>20, <2>1, <2>2 DEF set_speeds, PacketType
<1>23. GivesModes(q, p, move)
    BY <1>17, <1>22, SameModes DEF ReadBack
<1>24. SameMotion(q, p)
    BY <1>1, <1>22, <1>23, SamePan, SameTilt DEF SameMotion
<1>25. (Get(q, "preset") # {} <=> Carried(p, "preset")) /\ Answers(q, p, "preset")
    <2>1. PresetTold(x, fs, p.preset % 16)
        BY <1>9, <1>17, <1>18 DEF ReadBack
    <2>2. \A f \in {"preset_recall", "preset_store"} : f \in fs <=> f \in vicon_encode_preset(p)
        BY <1>2, <1>17 DEF ReadBack
    <2>3. Get(q, "preset") = Get(x, "preset")
        BY <1>22 DEF Get
    <2>4. PresetTold(q, fs, p.preset % 16)
        BY <1>22, <2>1, <2>3 DEF PresetTold, PresetGiven
    <2>. QED
        BY <2>2, <2>4, ViconPreset
<1>26. PacketSays(q, p, Groups)
    BY <1>23, <1>24, <1>25, ViconSays
<1>. QED
    BY <1>21, <1>26 DEF MessageSays

LEMMA ViconPresetSays ==
    ASSUME NEW r \in 1 .. 255, NEW p, Askable(p), Codec = "vicon",
           is_extended_preset(p), NEW m, m = encode_extended_preset(r, p)
    PROVE  MessageSays(m, r, p, Groups)
<1>1. PICK f \in {"preset_recall", "preset_store"} : ccpacket_get_preset_mode(p) = {f}
    BY DEF is_extended_preset
<1>2. PICK more : more = {"command", "extended", "ex_request"}
                         \cup (IF f = "preset_store" THEN {"ex_store"} ELSE {})
    OBVIOUS
<1>3. PICK move, pre : move = {} /\ pre = {}
    OBVIOUS
<1>4. PICK fs : fs = more \cup move \cup vicon_encode_lens(p) \cup encode_toggles(p)
                     \cup encode_aux(p) \cup pre
    OBVIOUS
<1>5. /\ "command" \in Functions /\ "extended" \in Functions /\ "ex_request" \in Functions
      /\ "ex_store" \in Functions
    BY DEF Functions, VICON_BIT
<1>6. fs \in SUBSET Functions /\ "command" \in fs /\ "extended" \in fs /\ "ex_request" \in fs
    BY <1>2, <1>3, <1>4, <1>5, FunctionsIn
<1>7. p \in PacketType /\ p.pan \in 0 .. SPEED_MAX /\ p.tilt \in 0 .. SPEED_MAX /\ p.preset \in Nat
    BY DEF Askable, PacketType
<1>8. PICK v : v = [j \in 7 .. 9 |-> <<p.preset, p.pan, p.tilt>>[j - 6] % 128] /\ Addition(v)
    BY <1>7, AdditionsAre
<1>9. PICK n \in 0 .. 127, pan \in 0 .. 127, tilt \in 0 .. 127 :
         n = p.preset % 128 /\ pan = p.pan % 128 /\ tilt = p.tilt % 128
    <2>1. p.pan \in Nat /\ p.tilt \in Nat
        BY <1>7, PacketAssumption
    <2>2. \A s \in Nat : s % 128 \in 0 .. 127
        OBVIOUS
    <2>. QED
        BY <1>7, <2>1, <2>2, Zenon
<1>10. DOMAIN v = 7 .. 9 /\ v[7] = n /\ v[8] = pan /\ v[9] = tilt
    <2>1. 7 - 6 = 1 /\ 8 - 6 = 2 /\ 9 - 6 = 3
        OBVIOUS
    <2>. QED
        BY <1>8, <1>9, <2>1
<1>11. /\ move \in SUBSET {"pan_right", "pan_left", "tilt_up", "tilt_down"}
       /\ pre \in SUBSET {"preset_recall", "preset_store"}
       /\ more \in SUBSET {"command", "extended", "ex_request", "ex_store"}
    BY <1>2, <1>3
<1>12. /\ "ex_status" \notin fs /\ ("ex_store" \in fs <=> f = "preset_store")
       /\ "preset_recall" \notin fs /\ "preset_store" \notin fs
    BY <1>2, <1>3, <1>4, PresetsIn
<1>13. Added(10, fs, v)
    BY <1>8, <1>10 DEF Added
<1>14. m = vicon_message(10, r, fs, v)
    <2>1. (IF ccpacket_get_preset_mode(p) = {"preset_store"} THEN {"ex_store"} ELSE {})
             = IF f = "preset_store" THEN {"ex_store"} ELSE {}
        BY <1>1
    <2>2. fs = {"command", "extended", "ex_request"} \cup vicon_encode_lens(p)
                \cup encode_toggles(p) \cup encode_aux(p)
                \cup (IF f = "preset_store" THEN {"ex_store"} ELSE {})
        BY <1>2, <1>3, <1>4
    <2>. QED
        BY <1>8, <2>1, <2>2, Sizes DEF encode_extended_preset
<1>15. PICK x : x = decode_functions(m)
    OBVIOUS
<1>16. ViconTold(m, 10, r, fs, v) /\ ReadBack(m, x, p, fs, move, pre)
    BY <1>3, <1>4, <1>6, <1>11, <1>13, <1>14, <1>15, ViconReads
<1>17. decode_receiver(m) = r /\ m[7] = n /\ m[8] = pan /\ m[9] = tilt
    <2>1. 7 \in DOMAIN v /\ 8 \in DOMAIN v /\ 9 \in DOMAIN v
        BY <1>10
    <2>. QED
        BY <1>10, <1>16, <2>1 DEF ViconTold
<1>18. /\ is_extended_command(m) /\ is_set(m, "ex_request") /\ ~is_set(m, "ex_status")
       /\ is_set(m, "ex_store") <=> f = "preset_store"
    <2>1. {"command", "extended", "ex_request", "ex_status", "ex_store"} \subseteq InOctets(10) \ Spoiled(v)
        BY <1>10 DEF InOctets, Spoiled, Functions, VICON_BIT
    <2>2. \A g \in {"command", "extended", "ex_request", "ex_status", "ex_store"} :
             is_set(m, g) <=> g \in fs
        BY <1>16, <2>1 DEF ViconTold, ViconFunctional
    <2>3. is_set(m, "command") /\ is_set(m, "extended") /\ is_set(m, "ex_request")
        BY <1>6, <2>2
    <2>4. ~is_set(m, "ex_status") /\ (is_set(m, "ex_store") <=> f = "preset_store")
        BY <1>12, <2>2
    <2>. QED
        BY <2>3, <2>4 DEF is_extended_command
<1>19. PICK y : y = ccpacket_set_preset(x, {f}, n)
    OBVIOUS
<1>20. PICK q : q = set_speeds(y, pan, tilt)
    OBVIOUS
<1>21. Decoded(m) = [receiver |-> r, pkt |-> q]
    <2>1. m[7] % 128 = n /\ m[8] % 128 = pan /\ m[9] % 128 = tilt
        BY <1>17
    <2>2. (IF is_set(m, "ex_store") THEN {"preset_store"} ELSE {"preset_recall"}) = {f}
        BY <1>1, <1>18
    <2>3. decode_ex_preset(x, m) = q
        BY <1>19, <1>20, <2>1, <2>2 DEF decode_ex_preset
    <2>. QED
        BY <1>15, <1>17, <1>18, <2>3 DEF Decoded, vicon_decode
<1>22. /\ x \in PacketType /\ GivesModes(x, p, move)
       /\ PresetTold(x, fs, m[5] % 16)
    BY <1>16 DEF ReadBack
<1>23. MakesPreset(x, y, f, n)
    <2>1. Get(x, "preset") = {}
        BY <1>12, <1>22 DEF PresetTold
    <2>2. f \in Cases("preset") /\ n \in Nat
        BY <1>1, PlainlyAre
    <2>. QED
        BY <1>19, <1>22, <2>1, <2>2, GivesPreset
<1>24. /\ y \in PacketType /\ PresetGiven(y, f, n)
       /\ \A g \in Groups \ {"preset"} : Get(y, g) = Get(x, g)
    BY <1>23 DEF MakesPreset
<1>25. q.flags = y.flags /\ q.preset = y.preset /\ q.pan = pan /\ q.tilt = tilt
    <2>1. clamp_speed(pan) = pan
        BY SpeedMax DEF clamp_speed
    <2>. QED
        BY <1>20, <1>24, <2>1 DEF set_speeds, PacketType
<1>26. GivesModes(q, p, move)
    <2>1. \A g \in Groups \ {"preset"} : Get(q, g) = Get(x, g)
        BY <1>24, <1>25 DEF Get
    <2>. QED
        BY <1>22, <2>1, GroupNames DEF GivesModes, Ungiven
<1>27. (Get(q, "preset") # {} <=> Carried(p, "preset")) /\ Answers(q, p, "preset")
    <2>1. Get(q, "preset") = Get(y, "preset")
        BY <1>25 DEF Get
    <2>2. PresetGiven(q, f, n)
        BY <1>24, <1>25, <2>1 DEF PresetGiven
    <2>3. f \in Cases("preset") /\ n \in Nat /\ n = Number(p)
        BY <1>1, <1>9, PlainlyAre DEF Number
    <2>4. (Get(q, "preset") # {} <=> Numbered(p)) /\ Answers(q, p, "preset")
        BY <1>1, <2>2, <2>3, PresetAnswers
    <2>5. ccpacket_get_preset_mode(p) \notin {{}, {"preset_clear"}}
        BY <1>1
    <2>. QED
        BY <2>4, <2>5, ViconCarries
<1>28. SameMotion(q, p) \/ p.pan + p.tilt > 0
    <2>1. CASE p.pan = 0 /\ p.tilt = 0
        <3>1. q.pan = p.pan /\ q.tilt = p.tilt
            BY <1>9, <1>25, <2>1
        <3>2. move = encode_pan_tilt(p)
            BY <1>3, <2>1 DEF encode_pan_tilt, ccpacket_has_pan, ccpacket_has_tilt
        <3>. QED
            BY <1>26, <3>1, <3>2, SamePan, SameTilt DEF SameMotion
    <2>2. CASE ~(p.pan = 0 /\ p.tilt = 0)
        <3>1. PICK a \in Nat, b \in Nat : a = p.pan /\ b = p.tilt
            BY <1>7, PacketAssumption
        <3>. QED
            BY <2>2, <3>1
    <2>. QED
        BY <2>1, <2>2
<1>29. PacketSays(q, p, Groups)
    BY <1>26, <1>27, <1>28, ViconSays
<1>. QED
    BY <1>21, <1>29 DEF MessageSays

LEMMA ViconJob ==
    ASSUME NEW r \in 1 .. 255, NEW p, Askable(p), Codec = "vicon"
    PROVE  SaysAll(vicon_do_write(r, p), r, p, Groups)
<1>1. vicon_adjust_menu_commands(p) = p
    BY DEF vicon_adjust_menu_commands, Askable
<1>2. PICK m : m = IF is_extended_preset(p) THEN encode_extended_preset(r, p)
                   ELSE IF is_extended_speed(p) THEN encode_extended_speed(r, p)
                   ELSE vicon_encode_command(r, p)
    OBVIOUS
<1>3. vicon_do_write(r, p) = <<m>>
    BY <1>1, <1>2 DEF vicon_do_write, VICON_MAX_ADDRESS
<1>4. MessageSays(m, r, p, Groups)
    <2>1. CASE is_extended_preset(p)
        BY <1>2, <2>1, ViconPresetSays
    <2>2. CASE ~is_extended_preset(p) /\ is_extended_speed(p)
        BY <1>2, <2>2, ViconSpeedSays
    <2>3. CASE ~is_extended_preset(p) /\ ~is_extended_speed(p)
        BY <1>2, <2>3, ViconCommandSays
    <2>. QED
        BY <2>1, <2>2, <2>3
<1>. QED
    BY <1>3, <1>4, SaysOne

-----------------------------------------------------------------------------
(* What is written says what is asked.                                      *)

\* The messages t[i] for i in I say to receiver r what p asks, each once.
SaysOf(t, I, r, p) ==
    /\ \A i \in I : Truthful(t[i], r, p, Groups)
    /\ \A g \in Groups : Carried(p, g) => \E i \in I : Tells(t[i], g)
    /\ \A i, j \in I : \A g \in Groups : Tells(t[i], g) /\ Tells(t[j], g) => i = j

\* The messages t[i] for i in I are what is said to r of p, if it has an address.
Voices(t, I, r, p) == IF r \in 1 .. MaxAddress THEN SaysOf(t, I, r, p) ELSE I = {}

\* e numbers the messages u[j] for j in J as the messages t[i] for i in I.
Renames(e, u, J, t, I) ==
    /\ e \in [J -> I]
    /\ \A i, j \in J : e[i] = e[j] => i = j
    /\ \A i \in I : \E j \in J : e[j] = i
    /\ \A j \in J : u[j] = t[e[j]]

LEMMA VoicesRenamed ==
    ASSUME NEW t, NEW I, NEW u, NEW J, NEW e, Renames(e, u, J, t, I), NEW r, NEW p,
           Voices(t, I, r, p)
    PROVE  Voices(u, J, r, p)
<1>1. \A j \in J : e[j] \in I
    BY DEF Renames
<1>2. ASSUME SaysOf(t, I, r, p)
      PROVE  SaysOf(u, J, r, p)
    <2>1. \A j \in J : Truthful(u[j], r, p, Groups)
        BY <1>1, <1>2, Zenon DEF SaysOf, Renames
    <2>2. ASSUME NEW g \in Groups, Carried(p, g)
          PROVE  \E j \in J : Tells(u[j], g)
        <3>1. PICK i \in I : Tells(t[i], g)
            BY <1>2, <2>2, Zenon DEF SaysOf
        <3>2. PICK j \in J : e[j] = i
            BY Zenon DEF Renames
        <3>3. u[j] = t[i]
            BY <3>2, Zenon DEF Renames
        <3>. QED
            BY <3>1, <3>3, Zenon
    <2>3. ASSUME NEW i \in J, NEW j \in J, NEW g \in Groups, Tells(u[i], g), Tells(u[j], g)
          PROVE  i = j
        <3>1. u[i] = t[e[i]] /\ u[j] = t[e[j]]
            BY DEF Renames
        <3>2. e[i] = e[j]
            BY <1>1, <1>2, <2>3, <3>1, Zenon DEF SaysOf
        <3>. QED
            BY <3>2 DEF Renames
    <2>. QED
        BY <2>1, <2>2, <2>3, Zenon DEF SaysOf
<1>3. I = {} => J = {}
    BY <1>1
<1>. QED
    BY <1>2, <1>3 DEF Voices

\* What the pieces say, those that are messages.
Sayings(s) == [k \in 1 .. Len(s) |-> Said(s[k])]

LEMMA WroteSays ==
    ASSUME NEW r \in Nat, NEW p, Askable(p)
    PROVE  IF r \in 1 .. MaxAddress THEN SaysAll(Wrote(Codec, r, p), r, p, Groups)
                                    ELSE Len(Wrote(Codec, r, p)) = 0
<1>1. CASE Codec = "vicon"
    <2>1. MaxAddress = 255 /\ Wrote(Codec, r, p) = vicon_do_write(r, p)
        BY <1>1 DEF MaxAddress, VICON_MAX_ADDRESS, Wrote
    <2>2. ASSUME r \notin 1 .. 255
          PROVE  Len(vicon_do_write(r, p)) = 0
        BY <2>2 DEF vicon_do_write, VICON_MAX_ADDRESS
    <2>. QED
        BY <1>1, <2>1, <2>2, ViconJob
<1>2. CASE Codec # "vicon"
    <2>1. MaxAddress = PELCO_MAX_ADDRESS /\ Wrote(Codec, r, p) = do_write(Codec, r, p)
        BY <1>2 DEF MaxAddress, Wrote
    <2>2. ASSUME r \notin 1 .. PELCO_MAX_ADDRESS
          PROVE  Len(do_write(Codec, r, p)) = 0
        BY <2>2 DEF do_write, PELCO_MAX_ADDRESS
    <2>. QED
        BY <1>2, <2>1, <2>2, PelcoWrites
<1>. QED
    BY <1>1, <1>2

\* The messages of a packet say what it asks.
LEMMA JobIs ==
    ASSUME NEW r \in Receivers, NEW p \in Packets, NEW s, s = Encoded(Codec, r, p)
    PROVE  Voices(Sayings(s), 1 .. Len(s), r, p)
<1>1. PICK c \in Codecs : c = Codec
    BY CodecIs
<1>2. PICK ms : ms = Wrote(c, r, p)
    OBVIOUS
<1>3. Spells(s, ms)
    BY <1>1, <1>2, EncodedIs
<1>4. PICK t : t = Sayings(s)
    OBVIOUS
<1>5. Len(s) = Len(ms) /\ \A k \in 1 .. Len(s) : t[k] = ms[k]
    BY <1>3, <1>4 DEF Spells, Sayings
<1>6. r \in Nat /\ Askable(p)
    BY PacketsAskable, SerialAssumption
<1>7. IF r \in 1 .. MaxAddress THEN SaysAll(ms, r, p, Groups) ELSE Len(ms) = 0
    BY <1>1, <1>2, <1>6, WroteSays
<1>8. ASSUME SaysAll(ms, r, p, Groups)
      PROVE  SaysOf(t, 1 .. Len(s), r, p)
    <2>1. \A k \in 1 .. Len(s) : Truthful(t[k], r, p, Groups)
        BY <1>5, <1>8 DEF SaysAll
    <2>2. \A g \in Groups : Carried(p, g) => \E k \in 1 .. Len(s) : Tells(t[k], g)
        BY <1>5, <1>8 DEF SaysAll
    <2>3. \A i, j \in 1 .. Len(s) : \A g \in Groups : Tells(t[i], g) /\ Tells(t[j], g) => i = j
        BY <1>5, <1>8 DEF SaysAll
    <2>. QED
        BY <2>1, <2>2, <2>3 DEF SaysOf
<1>9. Len(ms) = 0 => 1 .. Len(s) = {}
    BY <1>5
<1>. QED
    BY <1>4, <1>7, <1>8, <1>9 DEF Voices

\* Of the first k pieces, no more than k are kept, and all if there are k.
KeptUpTo(ps, s, k) ==
    /\ s \in Seq(PieceSet) /\ Len(s) <= k
    /\ Len(s) = k => \A j \in 1 .. k : s[j] = ps[j]

\* When nothing is refused, everything is appended.
LEMMA AllAppended ==
    ASSUME NEW ps \in Seq(PieceSet), NEW room \in Int,
           ~(Len(Appended(ps, room)) < Len(ps))
    PROVE  Appended(ps, room) = ps
<1>1. PICK f \in [0 .. Len(ps) -> AppendStates] :
              /\ f[0] = Untried(room) /\ Appended(ps, room) = f[Len(ps)].kept
              /\ \A k \in 1 .. Len(ps) : f[k] = Tried(f[k - 1], ps[k])
    BY AppendedIs
<1>2. PICK n \in Nat : n = Len(ps)
    OBVIOUS
<1>3. PICK P : P = {k \in 0 .. n : KeptUpTo(ps, f[k].kept, k)}
    OBVIOUS
<1>4. 0 \in P
    <2>1. f[0].kept = << >>
        BY <1>1 DEF Untried
    <2>2. KeptUpTo(ps, << >>, 0)
        BY DEF KeptUpTo
    <2>. QED
        BY <1>3, <2>1, <2>2
<1>5. ASSUME NEW k \in 1 .. n, k - 1 \in P
      PROVE  k \in P
    <2>1. PICK b : b = f[k - 1]
        OBVIOUS
    <2>2. PICK s \in Seq(PieceSet) : s = b.kept
        BY <1>3, <1>5, <2>1 DEF KeptUpTo
    <2>3. /\ Len(s) \in Nat /\ Len(s) <= k - 1
          /\ Len(s) = k - 1 => \A j \in 1 .. k - 1 : s[j] = ps[j]
        BY <1>3, <1>5, <2>1, <2>2 DEF KeptUpTo
    <2>4. PICK x \in PieceSet : x = ps[k]
        BY <1>2
    <2>5. f[k] = Tried(b, x)
        BY <1>1, <1>2, <2>1, <2>4
    <2>6. f[k].kept = Append(s, x) \/ f[k].kept = s
        <3>1. b \in AppendStates
            <4>1. k - 1 \in 0 .. Len(ps)
                BY <1>2
            <4>. QED
                BY <1>1, <2>1, <4>1
        <3>2. [b EXCEPT !.last = FALSE].kept = b.kept
            BY <3>1 DEF AppendStates
        <3>. QED
            BY <2>2, <2>5, <3>2 DEF Tried
    <2>7. CASE f[k].kept = s
        <3>1. Len(s) <= k /\ Len(s) # k
            BY <2>3
        <3>2. KeptUpTo(ps, s, k)
            BY <3>1 DEF KeptUpTo
        <3>. QED
            BY <1>3, <2>7, <3>2
    <2>8. CASE f[k].kept = Append(s, x)
        <3>1. PICK t : t = Append(s, x)
            OBVIOUS
        <3>2. /\ t \in Seq(PieceSet) /\ Len(t) = Len(s) + 1 /\ t[Len(s) + 1] = x
              /\ \A j \in 1 .. Len(s) : t[j] = s[j]
            BY <3>1, AppendProperties
        <3>3. ASSUME Len(t) = k, NEW j \in 1 .. k
              PROVE  t[j] = ps[j]
            <4>1. Len(s) = k - 1
                BY <2>3, <3>2, <3>3
            <4>2. j \in 1 .. k - 1 \/ j = k
                OBVIOUS
            <4>. QED
                BY <2>3, <2>4, <3>2, <4>1, <4>2
        <3>4. KeptUpTo(ps, t, k)
            BY <2>3, <3>2, <3>3 DEF KeptUpTo
        <3>5. f[k].kept = t
            BY <2>8, <3>1
        <3>6. KeptUpTo(ps, f[k].kept, k) /\ k \in 0 .. n
            BY <3>4, <3>5
        <3>. QED
            BY <1>3, <3>6
    <2>. QED
        BY <2>6, <2>7, <2>8
<1>6. \A k \in 0 .. n : k \in P
    BY <1>4, <1>5, Induction
<1>7. PICK s : s = Appended(ps, room) /\ KeptUpTo(ps, s, n)
    BY <1>1, <1>2, <1>3, <1>6
<1>8. s \in Seq(PieceSet) /\ Len(s) = n /\ \A j \in 1 .. n : s[j] = ps[j]
    BY <1>2, <1>7 DEF KeptUpTo
<1>9. s = ps
    BY <1>2, <1>8
<1>. QED
    BY <1>7, <1>9

\* The numbers of the pieces that are messages, and what pieces say.
Spoken(ps) == {k \in 1 .. Len(ps) : ps[k].message}

\* Nothing but a header of Infinova is between messages; no octet of it is 255,
\* with which a message in Pelco D begins.
Silent(x) == proto = "infinova_d" /\ \A j \in 1 .. Len(x.octets) : x.octets[j] # 255

Filled(ps) == \A k \in 1 .. Len(ps) : ps[k].message \/ Silent(ps[k])

\* The octets of the message k of s, in the bytes b, numbered from 0.
Text(b, s, k) == [j \in 0 .. s[k].last - s[k].first |-> b[s[k].first + j]]

Texts(b, s) == [k \in 1 .. Len(s) |-> Text(b, s, k)]

InMessage(s, i) == \E m \in 1 .. Len(s) : s[m].first <= i /\ i <= s[m].last

\* There is nothing in b but messages and headers.
Covered(b, s) == \A i \in 1 .. Len(b) : InMessage(s, i) \/ (proto = "infinova_d" /\ b[i] # 255)

LEMMA TextLonger ==
    ASSUME NEW a \in Seq(Octets), NEW b \in Seq(Octets), Longer(b, a), NEW s, WellSent(a, s),
           NEW k \in 1 .. Len(s)
    PROVE  Text(b, s, k) = Text(a, s, k)
<1>1. s \in Seq(Spans(Len(a)))
    BY DEF WellSent
<1>2. s[k] \in Spans(Len(a))
    BY <1>1
<1>3. PICK n \in Nat : n = Len(a)
    OBVIOUS
<1>4. PICK f \in 1 .. n, l \in 1 .. n : f = s[k].first /\ l = s[k].last
    BY <1>2, <1>3 DEF Spans
<1>5. \A j \in 0 .. l - f : f + j \in 1 .. n
    BY <1>4, SMTT(30)
<1>6. \A j \in 0 .. l - f : b[f + j] = a[f + j]
    BY <1>3, <1>5 DEF Longer
<1>. QED
    BY <1>4, <1>6 DEF Text

LEMMA RenamesMore ==
    ASSUME NEW n \in Nat, NEW m \in Nat, n <= m, NEW e, NEW u, NEW t, NEW I,
           Renames(e, u, n + 1 .. m, t, I), NEW k, k \notin I,
           NEW v, \A i \in n + 1 .. m : v[i] = u[i], v[m + 1] = t[k]
    PROVE  \E f : Renames(f, v, n + 1 .. m + 1, t, I \cup {k})
<1> DEFINE f == [i \in n + 1 .. m + 1 |-> IF i = m + 1 THEN k ELSE e[i]]
<1>1. \A i \in n + 1 .. m : e[i] \in I
    BY DEF Renames
<1>2. \A i \in n + 1 .. m + 1 : i \in n + 1 .. m \/ i = m + 1
    OBVIOUS
<1>3. m + 1 \in n + 1 .. m + 1 /\ \A i \in n + 1 .. m : i \in n + 1 .. m + 1 /\ i # m + 1
    OBVIOUS
<1>4. f[m + 1] = k /\ \A i \in n + 1 .. m : f[i] = e[i]
    BY <1>3
<1>5. f \in [n + 1 .. m + 1 -> I \cup {k}]
    BY <1>1, <1>2
<1>. HIDE DEF f
<1>6. ASSUME NEW i \in n + 1 .. m + 1, NEW j \in n + 1 .. m + 1, f[i] = f[j]
      PROVE  i = j
    <2>1. CASE i = m + 1 /\ j = m + 1
        BY <2>1
    <2>2. CASE i \in n + 1 .. m /\ j \in n + 1 .. m
        BY <1>4, <1>6, <2>2 DEF Renames
    <2>3. CASE i = m + 1 /\ j \in n + 1 .. m
        BY <1>1, <1>4, <1>6, <2>3
    <2>4. CASE i \in n + 1 .. m /\ j = m + 1
        BY <1>1, <1>4, <1>6, <2>4
    <2>. QED
        BY <1>2, <2>1, <2>2, <2>3, <2>4
<1>7. ASSUME NEW x \in I \cup {k}
      PROVE  \E j \in n + 1 .. m + 1 : f[j] = x
    <2>1. CASE x = k
        BY <1>3, <1>4, <2>1
    <2>2. CASE x \in I
        <3>1. PICK j \in n + 1 .. m : e[j] = x
            BY <2>2 DEF Renames
        <3>. QED
            BY <1>3, <1>4, <3>1
    <2>. QED
        BY <2>1, <2>2
<1>8. ASSUME NEW j \in n + 1 .. m + 1
      PROVE  v[j] = t[f[j]]
    <2>1. CASE j = m + 1
        BY <1>4, <2>1
    <2>2. CASE j \in n + 1 .. m
        <3>1. u[j] = t[e[j]]
            BY <2>2 DEF Renames
        <3>. QED
            BY <1>4, <2>2, <3>1
    <2>. QED
        BY <1>2, <2>1, <2>2
<1>9. Renames(f, v, n + 1 .. m + 1, t, I \cup {k})
    BY <1>5, <1>6, <1>7, <1>8, Zenon DEF Renames
<1>. QED
    BY <1>9

\* The first k pieces that are messages.
SpokenUpTo(ps, k) == {j \in 1 .. k : ps[j].message}

\* What the messages say that are written after k of the pieces.
WroteOf(ps, w, k) ==
    /\ Covered(w.bytes, w.sent)
    /\ \E e : Renames(e, Texts(w.bytes, w.sent), Len(sent) + 1 .. Len(w.sent),
                      Sayings(ps), SpokenUpTo(ps, k))

\* e is b and then o.
Continues(e, b, o) ==
    /\ e \in Seq(Octets) /\ Len(e) = Len(b) + Len(o)
    /\ \A i \in 1 .. Len(e) : e[i] = IF i <= Len(b) THEN b[i] ELSE o[i - Len(b)]

\* The messages t are those of s, and perhaps the octets o behind n others.
Includes(t, s, o, n) ==
    /\ \A i : InMessage(s, i) => InMessage(t, i)
    /\ \/ \A i \in n + 1 .. n + Len(o) : InMessage(t, i)
       \/ proto = "infinova_d" /\ \A j \in 1 .. Len(o) : o[j] # 255

LEMMA CoveredMore ==
    ASSUME NEW b \in Seq(Octets), NEW s, NEW o \in Seq(Octets), NEW e, NEW t, Covered(b, s),
           Continues(e, b, o), Includes(t, s, o, Len(b))
    PROVE  Covered(e, t)
<1>1. /\ Len(b) \in Nat /\ Len(o) \in Nat /\ Len(e) \in Nat /\ Len(e) = Len(b) + Len(o)
      /\ \A i \in 1 .. Len(e) : e[i] = IF i <= Len(b) THEN b[i] ELSE o[i - Len(b)]
    BY DEF Continues
<1>2. ASSUME NEW i \in 1 .. Len(e)
      PROVE  InMessage(t, i) \/ (proto = "infinova_d" /\ e[i] # 255)
    <2>1. CASE i <= Len(b)
        <3>1. i \in 1 .. Len(b) /\ e[i] = b[i]
            BY <1>1, <2>1
        <3>. QED
            BY <3>1 DEF Covered, Includes
    <2>2. CASE ~(i <= Len(b))
        <3>1. /\ i \in Len(b) + 1 .. Len(b) + Len(o) /\ i - Len(b) \in 1 .. Len(o)
              /\ e[i] = o[i - Len(b)]
            BY <1>1, <2>2
        <3>. QED
            BY <3>1 DEF Includes
    <2>. QED
        BY <2>1, <2>2
<1>. QED
    BY <1>2 DEF Covered

LEMMA WithSays ==
    ASSUME NEW ps, UnderHeaders(ps), Filled(ps), NEW k \in 1 .. Len(ps), bytes \in Seq(Octets),
           sent \in Seq([first : Nat, last : Nat]), NEW w \in WriteStates,
           WrittenOf(ps, w, k - 1), WroteOf(ps, w, k - 1)
    PROVE  WroteOf(ps, With(w, ps[k]), k)
<1>1. PICK b \in Seq(Octets), s \in Seq([first : Nat, last : Nat]) : b = w.bytes /\ s = w.sent
    BY DEF WriteStates
<1>2. ps \in Seq(PieceSet) /\ k \in Nat /\ Len(ps) \in Nat
    BY DEF UnderHeaders
<1>3. PICK x \in PieceSet : x = ps[k]
    BY <1>2
<1>4. PICK o \in Seq(Octets) : o = x.octets
    BY DEF PieceSet, Octets
<1>5. PICK e \in Seq(Octets) : e = b \o o
    BY ConcatProperties
<1>6. Len(b) \in Nat /\ Len(o) \in Nat /\ Len(e) = Len(b) + Len(o) /\ Len(bytes) \in Nat
    BY <1>5, ConcatProperties
<1>7. \A i \in 1 .. Len(e) : e[i] = IF i <= Len(b) THEN b[i] ELSE o[i - Len(b)]
    BY <1>5, ConcatProperties
<1>8. Longer(e, b)
    BY <1>6, <1>7 DEF Longer
<1>9. WellSent(b, s) /\ LaterSent(s, sent, Len(bytes)) /\ Covered(b, s)
    BY <1>1 DEF WrittenOf, WroteOf
<1>10. PICK n \in Nat, m \in Nat : n = Len(sent) /\ m = Len(s) /\ n <= m
    BY <1>9 DEF LaterSent
<1>11. PICK g : Renames(g, Texts(b, s), n + 1 .. m, Sayings(ps), SpokenUpTo(ps, k - 1))
    BY <1>1, <1>10 DEF WroteOf
<1>12. PICK v : v = With(w, ps[k])
    OBVIOUS
<1>13. PICK r : r = [first |-> Len(b) + 1, last |-> Len(b) + Len(o)]
    OBVIOUS
<1>14. v.bytes = e /\ v.sent = IF x.message THEN Append(s, r) ELSE s
    BY <1>1, <1>3, <1>4, <1>5, <1>12, <1>13, WithIs
<1>15. \A i \in 1 .. m : Text(e, s, i) = Text(b, s, i)
    BY <1>8, <1>9, <1>10, TextLonger
<1>16. ASSUME ~x.message
       PROVE  WroteOf(ps, v, k)
    <2>1. proto = "infinova_d" /\ \A j \in 1 .. Len(o) : o[j] # 255
        BY <1>3, <1>4, <1>16 DEF Filled, Silent
    <2>2. Covered(e, s)
        <3>1. Includes(s, s, o, Len(b))
            BY <2>1 DEF Includes
        <3>2. Continues(e, b, o)
            BY <1>6, <1>7 DEF Continues
        <3>. QED
            BY <1>9, <3>1, <3>2, CoveredMore
    <2>3. Texts(e, s) = Texts(b, s)
        BY <1>10, <1>15 DEF Texts
    <2>4. SpokenUpTo(ps, k) = SpokenUpTo(ps, k - 1)
        BY <1>2, <1>3, <1>16 DEF SpokenUpTo
    <2>. QED
        BY <1>10, <1>11, <1>14, <1>16, <2>2, <2>3, <2>4 DEF WroteOf
<1>17. ASSUME x.message
       PROVE  WroteOf(ps, v, k)
    <2>1. r \in [first : Nat, last : Nat] /\ r.first = Len(b) + 1 /\ r.last = Len(b) + Len(o)
        BY <1>6, <1>13
    <2>2. PICK t : t = Append(s, r)
        OBVIOUS
    <2>3. /\ t \in Seq([first : Nat, last : Nat]) /\ Len(t) = m + 1 /\ t[m + 1] = r
          /\ \A i \in 1 .. m : t[i] = s[i]
        BY <1>10, <2>1, <2>2, AppendProperties
    <2>4. \A i : InMessage(s, i) => InMessage(t, i)
        <3>1. ASSUME NEW i, InMessage(s, i) PROVE InMessage(t, i)
            <4>1. PICK j \in 1 .. m : s[j].first <= i /\ i <= s[j].last
                BY <1>10, <3>1 DEF InMessage
            <4>2. j \in 1 .. Len(t) /\ t[j] = s[j]
                BY <2>3
            <4>. QED
                BY <4>1, <4>2 DEF InMessage
        <3>. QED
            BY <3>1
    <2>5. \A i \in Len(b) + 1 .. Len(b) + Len(o) : InMessage(t, i)
        <3>1. ASSUME NEW i \in Len(b) + 1 .. Len(b) + Len(o) PROVE InMessage(t, i)
            <4>1. m + 1 \in 1 .. Len(t) /\ t[m + 1].first <= i /\ i <= t[m + 1].last
                BY <1>6, <2>1, <2>3
            <4>. QED
                BY <4>1 DEF InMessage
        <3>. QED
            BY <3>1
    <2>6. Covered(e, t)
        <3>1. Includes(t, s, o, Len(b))
            BY <2>4, <2>5 DEF Includes
        <3>2. Continues(e, b, o)
            BY <1>6, <1>7 DEF Continues
        <3>. QED
            BY <1>9, <3>1, <3>2, CoveredMore
    <2>7. Text(e, t, m + 1) = Said(x)
        <3>1. t[m + 1].first = Len(b) + 1 /\ t[m + 1].last - t[m + 1].first = Len(o) - 1
            BY <1>6, <2>1, <2>3
        <3>2. ASSUME NEW j \in 0 .. Len(o) - 1
              PROVE  e[Len(b) + 1 + j] = o[j + 1]
            <4>1. PICK i : i = Len(b) + 1 + j
                OBVIOUS
            <4>2. i \in 1 .. Len(e) /\ ~(i <= Len(b)) /\ i - Len(b) = j + 1
                BY <1>6, <4>1
            <4>. QED
                BY <1>7, <4>1, <4>2
        <3>. QED
            BY <1>4, <3>1, <3>2 DEF Text, Said
    <2>8. \A i \in 1 .. m : Text(e, t, i) = Text(b, s, i)
        BY <1>15, <2>3 DEF Text
    <2>9. PICK a, u, z : a = Texts(e, t) /\ u = Texts(b, s) /\ z = Sayings(ps)
        OBVIOUS
    <2>10. \A i \in n + 1 .. m : a[i] = u[i]
        <3>1. \A i \in n + 1 .. m : i \in 1 .. m /\ i \in 1 .. Len(t)
            BY <2>3
        <3>. QED
            BY <1>10, <2>8, <2>9, <3>1 DEF Texts
    <2>11. a[m + 1] = z[k]
        <3>1. m + 1 \in 1 .. Len(t)
            BY <2>3
        <3>2. a[m + 1] = Text(e, t, m + 1)
            BY <2>9, <3>1 DEF Texts
        <3>3. z[k] = Said(x)
            BY <1>3, <2>9 DEF Sayings
        <3>. QED
            BY <2>7, <3>2, <3>3
    <2>12. PICK I : I = SpokenUpTo(ps, k - 1)
        OBVIOUS
    <2>13. k \notin I /\ SpokenUpTo(ps, k) = I \cup {k}
        BY <1>2, <1>3, <1>17, <2>12 DEF SpokenUpTo
    <2>14. Renames(g, u, n + 1 .. m, z, I)
        BY <1>11, <2>9, <2>12
    <2>15. PICK h : Renames(h, a, n + 1 .. m + 1, z, I \cup {k})
        BY <1>10, <2>10, <2>11, <2>13, <2>14, RenamesMore
    <2>16. Renames(h, Texts(v.bytes, v.sent), Len(sent) + 1 .. Len(v.sent),
                   Sayings(ps), SpokenUpTo(ps, k))
        BY <1>10, <1>14, <1>17, <2>2, <2>3, <2>9, <2>13, <2>15
    <2>17. Covered(v.bytes, v.sent)
        BY <1>14, <1>17, <2>2, <2>6
    <2>. QED
        BY <2>16, <2>17 DEF WroteOf
<1>. QED
    BY <1>12, <1>16, <1>17

\* What is written in these pieces says what they say, and nothing else.
LEMMA WrittenSays ==
    ASSUME bytes \in Seq(Octets), WellSent(bytes, sent), Covered(bytes, sent),
           NEW ps, UnderHeaders(ps), Filled(ps), NEW w, w = Written(ps)
    PROVE  /\ Covered(w.bytes, w.sent)
           /\ \E e : Renames(e, Texts(w.bytes, w.sent), Len(sent) + 1 .. Len(w.sent),
                             Sayings(ps), Spoken(ps))
<1>1. sent \in Seq([first : Nat, last : Nat])
    <2>1. sent \in Seq(Spans(Len(bytes)))
        BY DEF WellSent
    <2>2. PICK A, B : A = Spans(Len(bytes)) /\ B = [first : Nat, last : Nat]
        OBVIOUS
    <2>3. A \subseteq B
        BY <2>2 DEF Spans
    <2>4. sent \in Seq(A)
        BY <2>1, <2>2
    <2>5. sent \in Seq(B)
        BY <2>3, <2>4
    <2>. QED
        BY <2>2, <2>5
<1>2. Written0 \in WriteStates
    BY <1>1 DEF Written0, WriteStates
<1>3. ps \in Seq(PieceSet)
    BY DEF UnderHeaders
<1>4. PICK f \in [0 .. Len(ps) -> WriteStates] :
              /\ f[0] = Written0 /\ Written(ps) = f[Len(ps)]
              /\ \A k \in 1 .. Len(ps) : f[k] = With(f[k - 1], ps[k])
    BY <1>2, <1>3, WrittenIs
<1>5. PICK n \in Nat : n = Len(ps)
    BY <1>3
<1>6. PICK P : P = {k \in 0 .. n : WrittenOf(ps, f[k], k) /\ WroteOf(ps, f[k], k)}
    OBVIOUS
<1>7. 0 \in P
    <2>1. f[0].bytes = bytes /\ f[0].sent = sent
        BY <1>4 DEF Written0
    <2>2. Len(bytes) \in Nat /\ Len(sent) \in Nat
        BY <1>1
    <2>3. Longer(bytes, bytes) /\ LaterSent(sent, sent, Len(bytes))
        BY <2>2 DEF Longer, LaterSent
    <2>4. WrittenOf(ps, f[0], 0)
        BY <2>1, <2>3 DEF WrittenOf
    <2>5. PICK t, z : t = Texts(bytes, sent) /\ z = Sayings(ps)
        OBVIOUS
    <2>6. Len(sent) + 1 .. Len(sent) = {} /\ SpokenUpTo(ps, 0) = {}
        BY <2>2 DEF SpokenUpTo
    <2>7. Renames([i \in {} |-> i], t, {}, z, {})
        BY DEF Renames
    <2>8. WroteOf(ps, f[0], 0)
        BY <2>1, <2>5, <2>6, <2>7 DEF WroteOf
    <2>. QED
        BY <1>6, <2>4, <2>8
<1>8. ASSUME NEW k \in 1 .. n, k - 1 \in P
      PROVE  k \in P
    <2>1. /\ f[k - 1] \in WriteStates /\ WrittenOf(ps, f[k - 1], k - 1)
          /\ WroteOf(ps, f[k - 1], k - 1)
        BY <1>5, <1>6, <1>8
    <2>2. WrittenOf(ps, With(f[k - 1], ps[k]), k)
        BY <1>1, <1>5, <2>1, WithWrites
    <2>3. WroteOf(ps, With(f[k - 1], ps[k]), k)
        BY <1>1, <1>5, <2>1, WithSays
    <2>. QED
        BY <1>4, <1>5, <1>6, <2>2, <2>3
<1>9. \A k \in 0 .. n : k \in P
    BY <1>7, <1>8, Induction
<1>10. n \in P
    BY <1>9
<1>11. WroteOf(ps, w, n)
    BY <1>4, <1>5, <1>6, <1>10
<1>12. SpokenUpTo(ps, n) = Spoken(ps)
    BY <1>5 DEF SpokenUpTo, Spoken
<1>. QED
    BY <1>11, <1>12 DEF WroteOf

\* No octet of a header is 255.
Quiet(x) == \A j \in 1 .. Len(x.octets) : x.octets[j] # 255

LEMMA HeadersQuiet == Quiet(A1) /\ Quiet(A2) /\ Quiet(H1) /\ Quiet(H2)
<1>1. ASSUME NEW m, NEW n \in Nat, \A j \in 0 .. n - 1 : m[j] \in 0 .. 254, NEW b, NEW x,
             x = Piece(m, n, b, FALSE)
      PROVE  Quiet(x)
    <2>1. OctetsAre(m, n)
        <3>1. \A v \in 0 .. 254 : v \in 0 .. 255
            OBVIOUS
        <3>. QED
            BY <1>1, <3>1 DEF OctetsAre
    <2>2. PICK o : Sequence(o, m, n)
        BY <2>1, SequenceIs
    <2>3. x.octets = o /\ Len(o) = n
        BY <1>1, <2>2 DEF Piece, Sequence
    <2>4. ASSUME NEW j \in 1 .. n PROVE o[j] # 255
        <3>1. j - 1 \in 0 .. n - 1 /\ o[j] = m[j - 1]
            BY <2>2 DEF Sequence
        <3>2. o[j] \in 0 .. 254
            BY <1>1, <3>1
        <3>. QED
            BY <3>2
    <2>. QED
        BY <2>3, <2>4 DEF Quiet
<1>2. ASSUME NEW id \in 0 .. 254, NEW n \in 0 .. 254, NEW x, x = header(id, n)
      PROVE  Quiet(x)
    <2>1. PICK m : m = [j \in 0 .. HEADER_SZ - 1 |->
              CASE j = 0 -> 73 [] j = 1 -> 78 [] j = 2 -> 70 [] j = 3 -> id
                [] j \in {5, 7} /\ id = MSG_ID_AUTH -> 1
                [] j = 11 -> n
                [] OTHER -> 0]
        OBVIOUS
    <2>2. HEADER_SZ - 1 = 11 /\ 12 - 1 = 11
        BY Sizes
    <2>3. ASSUME NEW j \in 0 .. 11
          PROVE  m[j] \in 0 .. 254
        <3>1. m[j] = CASE j = 0 -> 73 [] j = 1 -> 78 [] j = 2 -> 70 [] j = 3 -> id
                       [] j \in {5, 7} /\ id = MSG_ID_AUTH -> 1
                       [] j = 11 -> n
                       [] OTHER -> 0
            BY <2>1, <2>2
        <3>. QED
            BY <3>1
    <2>4. x = Piece(m, 12, FALSE, FALSE)
        BY <1>2, <2>1, Sizes DEF header
    <2>. QED
        BY <1>1, <2>2, <2>3, <2>4
<1>3. Quiet(A1)
    <2>1. A1 = header(1, 64)
        BY DEF A1, infinova_authenticate, MSG_ID_AUTH, AUTH_SZ
    <2>2. 1 \in 0 .. 254 /\ 64 \in 0 .. 254
        OBVIOUS
    <2>. QED
        BY <1>2, <2>1, <2>2
<1>4. Quiet(H1)
    <2>1. H1 = header(19, 19)
        BY Sizes DEF H1, infinova_d_header, MSG_ID_PTZ
    <2>2. 19 \in 0 .. 254
        OBVIOUS
    <2>. QED
        BY <1>2, <2>1, <2>2
<1>5. Quiet(A2)
    <2>1. PICK m : m = [j \in 0 .. 65 |-> 0]
        OBVIOUS
    <2>2. A2 = Piece(m, 66, TRUE, FALSE)
        BY <2>1, Sizes DEF A2, infinova_authenticate
    <2>3. \A j \in 0 .. 66 - 1 : m[j] \in 0 .. 254
        BY <2>1
    <2>. QED
        BY <1>1, <2>2, <2>3
<1>6. Quiet(H2)
    <2>1. PICK m : m = [j \in 0 .. 11 |-> CASE j = 0 -> 1 [] j = 7 -> 7 [] OTHER -> 0]
        OBVIOUS
    <2>2. H2 = Piece(m, 12, TRUE, FALSE)
        BY <2>1, Sizes DEF H2, infinova_d_header
    <2>3. \A j \in 0 .. 12 - 1 : m[j] \in 0 .. 254
        BY <2>1
    <2>. QED
        BY <1>1, <2>2, <2>3
<1>. QED
    BY <1>3, <1>4, <1>5, <1>6

\* The pieces ps are the messages ms, each behind its two headers, behind n others.
Interleaved(ps, ms, n) ==
    /\ n \in Nat /\ ps \in Seq(PieceSet) /\ Len(ps) = n + 3 * Len(ms)
    /\ \A i \in 1 .. n : ps[i] \in {A1, A2}
    /\ \A k \in 1 .. Len(ms) :
          /\ ps[n + 3 * k - 2] = H1 /\ ps[n + 3 * k - 1] = H2
          /\ ps[n + 3 * k].message /\ Said(ps[n + 3 * k]) = Said(ms[k])

LEMMA PiecesInterleaved ==
    ASSUME NEW ms, Messages(Codec, ms), proto = "infinova_d"
    PROVE  \E n : Interleaved(Pieces(ms), ms, n)
<1> DEFINE framed(k) == infinova_d_header \o <<[ms[k] EXCEPT !.needs = TRUE]>>
<1>1. PICK n \in Nat : n = Len(ms)
    BY DEF Messages
<1>2. PICK t : t = [i \in 1 .. 3 * n |-> framed(((i - 1) \div 3) + 1)[((i - 1) % 3) + 1]]
    OBVIOUS
<1>3. PICK a : a = Authentication
    OBVIOUS
<1>4. PICK ps : ps = Pieces(ms) /\ ps = a \o t
    BY <1>1, <1>2, <1>3 DEF Pieces
<1>5. ASSUME NEW k \in 1 .. n
      PROVE  /\ framed(k)[1] = H1 /\ framed(k)[2] = H2
             /\ framed(k)[3] \in PieceSet /\ framed(k)[3].message
             /\ Said(framed(k)[3]) = Said(ms[k])
    <2>1. PICK m \in PieceSet : m = ms[k]
        BY <1>1 DEF Messages
    <2>2. m.message
        BY <1>1, <2>1 DEF Messages, Whole
    <2>3. PICK x : x = [m EXCEPT !.needs = TRUE]
        OBVIOUS
    <2>4. x \in PieceSet /\ x.message /\ x.octets = m.octets
        BY <2>2, <2>3 DEF PieceSet
    <2>5. framed(k) = infinova_d_header \o <<x>>
        BY <2>1, <2>3
    <2>6. framed(k)[1] = H1 /\ framed(k)[2] = H2 /\ framed(k)[3] = x
        <3>. HIDE DEF framed
        <3>. QED
            BY <2>4, <2>5, FramedIs
    <2>. HIDE DEF framed
    <2>7. Said(x) = Said(m)
        BY <2>4 DEF Said
    <2>. QED
        BY <2>1, <2>4, <2>6, <2>7
<1>. HIDE DEF framed
<1>6. ASSUME NEW k \in 1 .. n
      PROVE  /\ t[3 * k - 2] = H1 /\ t[3 * k - 1] = H2
             /\ t[3 * k] \in PieceSet /\ t[3 * k].message /\ Said(t[3 * k]) = Said(ms[k])
    <2>1. /\ 3 * k - 2 \in 1 .. 3 * n /\ ((3 * k - 2) - 1) \div 3 = k - 1
          /\ ((3 * k - 2) - 1) % 3 = 0
        OBVIOUS
    <2>2. /\ 3 * k - 1 \in 1 .. 3 * n /\ ((3 * k - 1) - 1) \div 3 = k - 1
          /\ ((3 * k - 1) - 1) % 3 = 1
        OBVIOUS
    <2>3. 3 * k \in 1 .. 3 * n /\ (3 * k - 1) \div 3 = k - 1 /\ (3 * k - 1) % 3 = 2
        OBVIOUS
    <2>4. ASSUME NEW i \in 1 .. 3 * n, NEW q \in 0 .. 2,
                 (i - 1) \div 3 = k - 1, (i - 1) % 3 = q
          PROVE  t[i] = framed(k)[q + 1]
        <3>1. t[i] = framed(((i - 1) \div 3) + 1)[((i - 1) % 3) + 1]
            BY <1>2
        <3>2. ((i - 1) \div 3) + 1 = k /\ ((i - 1) % 3) + 1 = q + 1
            BY <2>4
        <3>. QED
            BY <3>1, <3>2
    <2>5. t[3 * k - 2] = framed(k)[1]
        <3>1. 0 \in 0 .. 2 /\ 0 + 1 = 1
            OBVIOUS
        <3>. QED
            BY <2>1, <2>4, <3>1
    <2>6. t[3 * k - 1] = framed(k)[2]
        <3>1. 1 \in 0 .. 2 /\ 1 + 1 = 2
            OBVIOUS
        <3>. QED
            BY <2>2, <2>4, <3>1
    <2>7. t[3 * k] = framed(k)[3]
        <3>1. 2 \in 0 .. 2 /\ 2 + 1 = 3
            OBVIOUS
        <3>. QED
            BY <2>3, <2>4, <3>1
    <2>. QED
        BY <1>5, <2>5, <2>6, <2>7
<1>7. t \in Seq(PieceSet) /\ Len(t) = 3 * n
    <2>1. ASSUME NEW i \in 1 .. 3 * n PROVE t[i] \in PieceSet
        <3>1. \E k \in 1 .. n : i = 3 * k - 2 \/ i = 3 * k - 1 \/ i = 3 * k
            <4>1. ((i - 1) \div 3) + 1 \in 1 .. n
                OBVIOUS
            <4>2. LET k == ((i - 1) \div 3) + 1 IN i = 3 * k - 2 \/ i = 3 * k - 1 \/ i = 3 * k
                OBVIOUS
            <4>. QED
                BY <4>1, <4>2
        <3>. QED
            BY <1>6, <3>1, HeadersAre
    <2>2. 3 * n \in Nat
        OBVIOUS
    <2>3. DOMAIN t = 1 .. 3 * n /\ t = [i \in 1 .. 3 * n |-> t[i]]
        BY <1>2
    <2>. QED
        BY <2>1, <2>2, <2>3
<1>8. a \in Seq(PieceSet) /\ \A i \in 1 .. Len(a) : a[i] \in {A1, A2}
    <2>1. CASE open
        BY <1>3, <2>1 DEF Authentication
    <2>2. CASE ~open
        <3>1. PICK x \in PieceSet, y \in PieceSet : x = A1 /\ y = A2
            BY HeadersAre
        <3>2. a = <<x, y>>
            BY <1>3, <2>2, <3>1, HeadersAre DEF Authentication
        <3>. QED
            BY <3>1, <3>2
    <2>. QED
        BY <2>1, <2>2
<1>9. PICK z \in Nat : z = Len(a)
    BY <1>8
<1>10. /\ ps \in Seq(PieceSet) /\ Len(ps) = z + 3 * n
       /\ \A i \in 1 .. z : ps[i] = a[i]
       /\ \A i \in 1 .. 3 * n : ps[z + i] = t[i]
    <2>1. a \in Seq(PieceSet) /\ t \in Seq(PieceSet) /\ ps = a \o t
        BY <1>4, <1>7, <1>8
    <2>2. ps \in Seq(PieceSet) /\ Len(ps) = Len(a) + Len(t)
        BY <2>1, Concatenated
    <2>3. \A i \in 1 .. Len(a) : ps[i] = a[i]
        BY <2>1, Concatenated
    <2>4. \A i \in 1 .. Len(t) : ps[Len(a) + i] = t[i]
        BY <2>1, Concatenated
    <2>5. Len(a) = z /\ Len(t) = 3 * n
        BY <1>7, <1>9
    <2>. QED
        BY <2>2, <2>3, <2>4, <2>5
<1>11. ASSUME NEW k \in 1 .. n
       PROVE  /\ ps[z + 3 * k - 2] = H1 /\ ps[z + 3 * k - 1] = H2
              /\ ps[z + 3 * k].message /\ Said(ps[z + 3 * k]) = Said(ms[k])
    <2>1. /\ 3 * k - 2 \in 1 .. 3 * n /\ z + (3 * k - 2) = z + 3 * k - 2
          /\ 3 * k - 1 \in 1 .. 3 * n /\ z + (3 * k - 1) = z + 3 * k - 1
          /\ 3 * k \in 1 .. 3 * n
        OBVIOUS
    <2>2. ps[z + 3 * k - 2] = t[3 * k - 2] /\ ps[z + 3 * k - 1] = t[3 * k - 1]
        BY <1>10, <2>1
    <2>3. ps[z + 3 * k] = t[3 * k]
        BY <1>10, <2>1
    <2>. QED
        BY <1>6, <2>2, <2>3
<1>12. \A i \in 1 .. z : ps[i] \in {A1, A2}
    BY <1>8, <1>9, <1>10
<1>13. Interleaved(ps, ms, z)
    BY <1>1, <1>10, <1>11, <1>12 DEF Interleaved
<1>. QED
    BY <1>4, <1>13

\* Each of the interleaved pieces is one of four.
LEMMA InterleavedIs ==
    ASSUME NEW ps, NEW ms, Len(ms) \in Nat, NEW n, Interleaved(ps, ms, n), NEW i \in 1 .. Len(ps)
    PROVE  \/ ps[i] \in {A1, A2, H1, H2}
           \/ \E k \in 1 .. Len(ms) : i = n + 3 * k
<1>1. PICK m \in Nat : m = Len(ms)
    OBVIOUS
<1>2. n \in Nat /\ Len(ps) = n + 3 * m
    BY <1>1 DEF Interleaved
<1>3. CASE i \in 1 .. n
    BY <1>3 DEF Interleaved
<1>4. CASE i \notin 1 .. n
    <2>1. PICK j \in 1 .. 3 * m : i = n + j
        <3>1. i - n \in 1 .. 3 * m /\ i = n + (i - n)
            BY <1>2, <1>4
        <3>. QED
            BY <3>1
    <2>2. PICK k \in 1 .. m : j = 3 * k - 2 \/ j = 3 * k - 1 \/ j = 3 * k
        <3>1. ((j - 1) \div 3) + 1 \in 1 .. m
            BY <1>1
        <3>2. LET k == ((j - 1) \div 3) + 1 IN j = 3 * k - 2 \/ j = 3 * k - 1 \/ j = 3 * k
            BY <1>1
        <3>. QED
            BY <3>1, <3>2
    <2>3. CASE j = 3 * k - 2
        <3>1. i = n + 3 * k - 2
            BY <1>2, <2>1, <2>3
        <3>. QED
            BY <1>1, <3>1 DEF Interleaved
    <2>4. CASE j = 3 * k - 1
        <3>1. i = n + 3 * k - 1
            BY <1>2, <2>1, <2>4
        <3>. QED
            BY <1>1, <3>1 DEF Interleaved
    <2>5. CASE j = 3 * k
        BY <1>1, <2>1, <2>5
    <2>. QED
        BY <2>2, <2>3, <2>4, <2>5
<1>. QED
    BY <1>3, <1>4

\* The pieces of messages say what the messages say, and are filled with headers.
LEMMA PiecesSay ==
    ASSUME NEW ms, Messages(Codec, ms), NEW ps, ps = Pieces(ms)
    PROVE  /\ Filled(ps)
           /\ \E d : Renames(d, Sayings(ps), Spoken(ps), Sayings(ms), 1 .. Len(ms))
<1>1. PICK m \in Nat : m = Len(ms)
    BY DEF Messages
<1>2. PICK u, v : u = Sayings(ps) /\ v = Sayings(ms)
    OBVIOUS
<1>3. CASE proto # "infinova_d"
    <2>1. ps = ms
        BY <1>3 DEF Pieces
    <2>2. \A k \in 1 .. m : ps[k].message
        BY <1>1, <2>1 DEF Messages, Whole
    <2>3. Filled(ps)
        BY <1>1, <2>1, <2>2 DEF Filled
    <2>4. Spoken(ps) = 1 .. m /\ u = v
        BY <1>1, <1>2, <2>1, <2>2 DEF Spoken
    <2>5. Renames([i \in 1 .. m |-> i], u, 1 .. m, v, 1 .. m)
        BY <2>4 DEF Renames
    <2>. QED
        BY <1>1, <1>2, <2>3, <2>4, <2>5
<1>4. CASE proto = "infinova_d"
    <2>1. PICK n : Interleaved(ps, ms, n)
        BY <1>4, PiecesInterleaved
    <2>2. n \in Nat /\ ps \in Seq(PieceSet) /\ Len(ps) = n + 3 * m
        BY <1>1, <2>1 DEF Interleaved
    <2>3. ASSUME NEW k \in 1 .. m
          PROVE  n + 3 * k \in 1 .. Len(ps) /\ ps[n + 3 * k].message
                 /\ u[n + 3 * k] = v[k]
        <3>1. n + 3 * k \in 1 .. Len(ps)
            BY <2>2
        <3>2. ps[n + 3 * k].message /\ Said(ps[n + 3 * k]) = Said(ms[k])
            BY <1>1, <2>1 DEF Interleaved
        <3>3. u[n + 3 * k] = Said(ps[n + 3 * k])
            BY <1>2, <3>1 DEF Sayings
        <3>4. v[k] = Said(ms[k])
            BY <1>1, <1>2 DEF Sayings
        <3>. QED
            BY <3>1, <3>2, <3>3, <3>4
    <2>4. ASSUME NEW i \in 1 .. Len(ps)
          PROVE  \/ ~ps[i].message /\ Silent(ps[i])
                 \/ \E k \in 1 .. m : i = n + 3 * k
        <3>1. \/ ps[i] \in {A1, A2, H1, H2}
              \/ \E k \in 1 .. m : i = n + 3 * k
            BY <1>1, <2>1, InterleavedIs
        <3>2. CASE ps[i] \in {A1, A2, H1, H2}
            <4>1. ~ps[i].message
                BY <3>2, HeadersAre
            <4>2. Quiet(ps[i])
                BY <3>2, HeadersQuiet
            <4>. QED
                BY <1>4, <4>1, <4>2 DEF Quiet, Silent
        <3>. QED
            BY <3>1, <3>2
    <2>5. Filled(ps)
        <3>1. ASSUME NEW i \in 1 .. Len(ps) PROVE ps[i].message \/ Silent(ps[i])
            BY <2>3, <2>4
        <3>. QED
            BY <3>1 DEF Filled
    <2>6. ASSUME NEW i \in Spoken(ps)
          PROVE  \E k \in 1 .. m : i = n + 3 * k
        BY <2>4 DEF Spoken
    <2> DEFINE d == [i \in Spoken(ps) |-> CHOOSE k \in 1 .. m : i = n + 3 * k]
    <2>7. ASSUME NEW i \in Spoken(ps)
          PROVE  d[i] \in 1 .. m /\ i = n + 3 * d[i]
        BY <2>6
    <2>8. d \in [Spoken(ps) -> 1 .. m]
        BY <2>7
    <2>. HIDE DEF d
    <2>9. ASSUME NEW i \in Spoken(ps), NEW j \in Spoken(ps), d[i] = d[j]
          PROVE  i = j
        BY <2>7, <2>9
    <2>10. ASSUME NEW k \in 1 .. m
           PROVE  \E j \in Spoken(ps) : d[j] = k
        <3>1. PICK i \in Spoken(ps) : i = n + 3 * k
            BY <2>3 DEF Spoken
        <3>2. d[i] \in 1 .. m /\ n + 3 * d[i] = n + 3 * k
            BY <2>7, <3>1
        <3>3. d[i] = k
            BY <2>2, <3>2
        <3>. QED
            BY <3>3
    <2>11. ASSUME NEW i \in Spoken(ps)
           PROVE  u[i] = v[d[i]]
        BY <2>3, <2>7
    <2>12. Renames(d, u, Spoken(ps), v, 1 .. m)
        BY <2>8, <2>9, <2>10, <2>11, Zenon DEF Renames
    <2>. QED
        BY <1>1, <1>2, <2>5, <2>12
<1>. QED
    BY <1>3, <1>4

\* What the writer says of a packet when nothing is refused: the messages behind
\* those there were say it.
LEMMA SendSays ==
    ASSUME bytes \in Seq(Octets), WellSent(bytes, sent), Covered(bytes, sent),
           NEW r \in Receivers, NEW p \in Packets, NEW ps, ps = Pieces(Encoded(Codec, r, p)),
           NEW w, w = Written(ps)
    PROVE  /\ Covered(w.bytes, w.sent)
           /\ Voices(Texts(w.bytes, w.sent), Len(sent) + 1 .. Len(w.sent), r, p)
<1>1. PICK ms : ms = Encoded(Codec, r, p)
    OBVIOUS
<1>2. Messages(Codec, ms)
    BY <1>1, CodecIs, EncodedIs
<1>3. UnderHeaders(ps)
    BY <1>1, <1>2, PiecesAre
<1>4. Filled(ps)
    BY <1>1, <1>2, PiecesSay
<1>5. PICK d : Renames(d, Sayings(ps), Spoken(ps), Sayings(ms), 1 .. Len(ms))
    BY <1>1, <1>2, PiecesSay
<1>6. Covered(w.bytes, w.sent)
    BY <1>3, <1>4, WrittenSays
<1>7. PICK e : Renames(e, Texts(w.bytes, w.sent), Len(sent) + 1 .. Len(w.sent),
                       Sayings(ps), Spoken(ps))
    BY <1>3, <1>4, WrittenSays
<1>8. Voices(Sayings(ms), 1 .. Len(ms), r, p)
    BY <1>1, JobIs
<1>9. Voices(Sayings(ps), Spoken(ps), r, p)
    BY <1>5, <1>8, VoicesRenamed
<1>10. Voices(Texts(w.bytes, w.sent), Len(sent) + 1 .. Len(w.sent), r, p)
    BY <1>7, <1>9, VoicesRenamed
<1>. QED
    BY <1>6, <1>10

-----------------------------------------------------------------------------
(* What is asked, what is sent, and what is given.                          *)

AskedType == [receiver : Receivers, pkt : Packets]

\* f is the packet that each message is of: the messages of each packet say it.
SourceOf(f, b, s, a) ==
    /\ f \in [1 .. Len(s) -> 1 .. Len(a)]
    /\ \A i, j \in 1 .. Len(s) : i < j => f[i] <= f[j]
    /\ \A n \in 1 .. Len(a) :
          Voices(Texts(b, s), {k \in 1 .. Len(s) : f[k] = n}, a[n].receiver, a[n].pkt)

\* The line holds the last bytes written; the reader has decoded the first n
\* messages, which are before it, and the others are on it.
HeardTo(n, b, s, l, d) ==
    /\ n \in 0 .. Len(s)
    /\ d = [k \in 1 .. n |-> Decoded(Text(b, s, k))]
    /\ \A k \in 1 .. n : s[k].last <= Len(b) - Len(l)
    /\ \A k \in n + 1 .. Len(s) : s[k].first > Len(b) - Len(l)

LastOn(b, l) == \A j \in 1 .. Len(l) : l[j] = Len(b) - Len(l) + j

Heard(b, s, l, d) == LastOn(b, l) /\ \E n : HeardTo(n, b, s, l, d)

Faithful(b, s, l, h, d, a) ==
    /\ Covered(b, s)
    /\ \E f : SourceOf(f, b, s, a)
    /\ h = {} => Heard(b, s, l, d)

Told ==
    /\ asked \in Seq(AskedType)
    /\ refused \/ Faithful(bytes, sent, line, hurt, done, asked)

\* Of the variables, what a message says depends on the protocol alone.
LEMMA SaysPrime ==
    ASSUME proto' = proto, NEW m, NEW r, NEW p, NEW gs, NEW g
    PROVE  /\ Decoded(m)' = Decoded(m) /\ MaxAddress' = MaxAddress
           /\ Tells(m, g)' <=> Tells(m, g)
           /\ Carried(p, g)' <=> Carried(p, g)
           /\ Truthful(m, r, p, gs)' <=> Truthful(m, r, p, gs)
<1>1. Codec' = Codec /\ Deadzone' = Deadzone
    BY DEF Codec, Deadzone
<1>2. \A x : Decoded(x)' = Decoded(x)
    BY <1>1 DEF Decoded
<1>3. \A x, y : Tells(x, y)' <=> Tells(x, y)
    BY <1>2 DEF Tells
<1>4. \A x, y : Carried(x, y)' <=> Carried(x, y)
    BY <1>1 DEF Carried, Masked, Number, Numbered
<1>5. \A x, y : Near(x, y)' <=> Near(x, y)
    BY <1>1 DEF Near
<1>6. \A x, y, z : Fulfils(x, y, z)' <=> Fulfils(x, y, z)
    BY <1>1, <1>5 DEF Fulfils, Number
<1>7. Truthful(m, r, p, gs)' <=> Truthful(m, r, p, gs)
    BY <1>2, <1>3, <1>4, <1>6 DEF Truthful
<1>8. MaxAddress' = MaxAddress
    BY <1>1 DEF MaxAddress
<1>. QED
    BY <1>2, <1>3, <1>4, <1>7, <1>8

LEMMA ToldPrime ==
    ASSUME proto' = proto, asked' \in Seq(AskedType),
           refused' \/ Faithful(bytes', sent', line', hurt', done', asked')
    PROVE  Told'
<1>1. /\ \A m : Decoded(m)' = Decoded(m)
      /\ \A m, g : Tells(m, g)' <=> Tells(m, g)
      /\ \A p, g : Carried(p, g)' <=> Carried(p, g)
      /\ \A m, r, p, gs : Truthful(m, r, p, gs)' <=> Truthful(m, r, p, gs)
      /\ MaxAddress' = MaxAddress
    BY SaysPrime
<1>2. \A t, I, r, p : Voices(t, I, r, p)' <=> Voices(t, I, r, p)
    BY <1>1 DEF Voices, SaysOf
<1>3. (\E f : SourceOf(f, bytes, sent, asked))' <=> \E f : SourceOf(f, bytes', sent', asked')
    BY <1>2 DEF SourceOf, Texts, Text
<1>4. Heard(bytes, sent, line, done)' <=> Heard(bytes', sent', line', done')
    BY <1>1 DEF Heard, HeardTo, LastOn, Text
<1>5. Covered(bytes, sent)' <=> Covered(bytes', sent')
    BY DEF Covered, InMessage
<1>6. Faithful(bytes, sent, line, hurt, done, asked)'
      <=> Faithful(bytes', sent', line', hurt', done', asked')
    BY <1>3, <1>4, <1>5 DEF Faithful
<1>. QED
    BY <1>6 DEF Told, AskedType

LEMMA InitTold == Init => Told
<1> SUFFICES ASSUME Init PROVE Told
    OBVIOUS
<1>1. /\ bytes = << >> /\ sent = << >> /\ line = << >> /\ hurt = {} /\ done = << >>
      /\ asked = << >> /\ refused = FALSE
    BY DEF Init
<1>2. Covered(<< >>, << >>)
    BY DEF Covered
<1>3. SourceOf(<< >>, << >>, << >>, << >>)
    BY DEF SourceOf
<1>4. Heard(<< >>, << >>, << >>, << >>)
    <2>1. HeardTo(0, << >>, << >>, << >>, << >>)
        BY DEF HeardTo
    <2>. QED
        BY <2>1 DEF Heard, LastOn
<1>5. Faithful(<< >>, << >>, << >>, {}, << >>, << >>)
    BY <1>2, <1>3, <1>4 DEF Faithful
<1>. QED
    BY <1>1, <1>5 DEF Told

\* What there was keeps its source, and the messages behind it are of one packet more.
LEMMA SourceMore ==
    ASSUME NEW b \in Seq(Octets), NEW c \in Seq(Octets), Longer(c, b),
           NEW s, WellSent(b, s), NEW t, WellSent(c, t), LaterSent(t, s, Len(b)),
           NEW a \in Seq(AskedType), NEW x \in AskedType, NEW f, SourceOf(f, b, s, a),
           Voices(Texts(c, t), Len(s) + 1 .. Len(t), x.receiver, x.pkt)
    PROVE  \E g : SourceOf(g, c, t, Append(a, x))
<1>1. PICK n \in Nat, m \in Nat, q \in Nat : n = Len(s) /\ m = Len(t) /\ q = Len(a) /\ n <= m
    BY DEF WellSent, LaterSent
<1>2. PICK e : e = Append(a, x)
    OBVIOUS
<1>3. /\ e \in Seq(AskedType) /\ Len(e) = q + 1 /\ e[q + 1] = x
      /\ \A i \in 1 .. q : e[i] = a[i]
    BY <1>1, <1>2, AppendProperties
<1>4. ASSUME NEW k \in 1 .. n
      PROVE  k \in 1 .. m /\ f[k] \in 1 .. q /\ Texts(c, t)[k] = Texts(b, s)[k]
    <2>1. k \in 1 .. m /\ f[k] \in 1 .. q
        <3>1. f \in [1 .. n -> 1 .. q]
            BY <1>1 DEF SourceOf
        <3>2. f[k] \in 1 .. q
            BY <3>1
        <3>3. k \in 1 .. m
            BY <1>1
        <3>. QED
            BY <3>2, <3>3
    <2>2. Text(c, s, k) = Text(b, s, k)
        BY <1>1, TextLonger
    <2>3. t[k] = s[k]
        BY <1>1 DEF LaterSent
    <2>4. Text(c, t, k) = Text(b, s, k)
        BY <2>2, <2>3 DEF Text
    <2>. QED
        BY <1>1, <2>1, <2>4 DEF Texts
<1> DEFINE g == [k \in 1 .. m |-> IF k <= n THEN f[k] ELSE q + 1]
<1>5. ASSUME NEW k \in 1 .. m
      PROVE  \/ k \in 1 .. n /\ g[k] = f[k] /\ g[k] \in 1 .. q
             \/ k \in n + 1 .. m /\ g[k] = q + 1
    BY <1>4
<1>6. g \in [1 .. m -> 1 .. q + 1]
    BY <1>4
<1>. HIDE DEF g
<1>7. ASSUME NEW i \in 1 .. m, NEW j \in 1 .. m, i < j
      PROVE  g[i] <= g[j]
    <2>1. CASE j \in 1 .. n
        <3>1. i \in 1 .. n
            BY <1>7, <2>1
        <3>2. g[i] = f[i] /\ g[j] = f[j]
            BY <1>5, <2>1, <3>1
        <3>. QED
            BY <1>1, <1>7, <2>1, <3>1, <3>2 DEF SourceOf
    <2>2. CASE j \notin 1 .. n
        BY <1>5, <2>2
    <2>. QED
        BY <2>1, <2>2
<1>8. ASSUME NEW z \in 1 .. q + 1
      PROVE  Voices(Texts(c, t), {k \in 1 .. m : g[k] = z}, e[z].receiver, e[z].pkt)
    <2>1. CASE z = q + 1
        <3>1. {k \in 1 .. m : g[k] = z} = n + 1 .. m
            <4>1. \A k \in n + 1 .. m : k \in 1 .. m /\ k \notin 1 .. n
                OBVIOUS
            <4>2. q + 1 \notin 1 .. q
                OBVIOUS
            <4>3. \A k \in n + 1 .. m : k \in 1 .. m /\ g[k] = z
                BY <1>5, <2>1, <4>1
            <4>4. \A k \in 1 .. m : g[k] = z => k \in n + 1 .. m
                BY <1>5, <2>1, <4>2
            <4>. QED
                BY <4>3, <4>4
        <3>2. e[z] = x
            BY <1>3, <2>1
        <3>. QED
            BY <1>1, <3>1, <3>2
    <2>2. CASE z # q + 1
        <3>1. z \in 1 .. q /\ e[z] = a[z]
            BY <1>3, <2>2
        <3>2. PICK K : K = {k \in 1 .. n : f[k] = z}
            OBVIOUS
        <3>3. {k \in 1 .. m : g[k] = z} = K
            <4>1. \A k \in 1 .. n : k \in 1 .. m /\ g[k] = f[k]
                <5>1. \A k \in 1 .. n : k \in 1 .. m /\ k \notin n + 1 .. m
                    BY <1>1
                <5>. QED
                    BY <1>5, <5>1
            <4>2. \A k \in 1 .. m : g[k] = z => k \in 1 .. n
                BY <1>5, <2>2
            <4>. QED
                BY <3>2, <4>1, <4>2
        <3>4. PICK u, v : u = Texts(b, s) /\ v = Texts(c, t)
            OBVIOUS
        <3>5. \A k \in K : v[k] = u[k]
            BY <1>4, <3>2, <3>4
        <3>6. Renames([k \in K |-> k], v, K, u, K)
            BY <3>5 DEF Renames
        <3>7. Voices(u, K, a[z].receiver, a[z].pkt)
            BY <1>1, <3>1, <3>2, <3>4 DEF SourceOf
        <3>8. Voices(v, K, a[z].receiver, a[z].pkt)
            BY <3>6, <3>7, VoicesRenamed
        <3>. QED
            BY <3>1, <3>3, <3>4, <3>8
    <2>. QED
        BY <2>1, <2>2
<1>9. SourceOf(g, c, t, e)
    <2>1. g \in [1 .. Len(t) -> 1 .. Len(e)]
        BY <1>1, <1>3, <1>6
    <2>2. \A i, j \in 1 .. Len(t) : i < j => g[i] <= g[j]
        BY <1>1, <1>7
    <2>3. \A z \in 1 .. Len(e) :
             Voices(Texts(c, t), {k \in 1 .. Len(t) : g[k] = z}, e[z].receiver, e[z].pkt)
        BY <1>1, <1>3, <1>8
    <2>. QED
        BY <2>1, <2>2, <2>3 DEF SourceOf
<1>. QED
    BY <1>2, <1>9

\* The reader has heard what it had, when more is written and put on the line.
LEMMA HeardMore ==
    ASSUME NEW b \in Seq(Octets), NEW c \in Seq(Octets), Longer(c, b),
           NEW s, WellSent(b, s), NEW t, WellSent(c, t), LaterSent(t, s, Len(b)),
           NEW l, l \in Seq(Nat), NEW d, Heard(b, s, l, d), NEW e,
           e = l \o [j \in 1 .. Len(c) - Len(b) |-> Len(b) + j]
    PROVE  Heard(c, t, e, d)
<1>1. PICK n \in Nat, m \in Nat, q \in Nat : n = Len(b) /\ m = Len(c) /\ q = Len(l) /\ n <= m
    BY DEF Longer
<1>2. PICK x : x = [j \in 1 .. m - n |-> n + j]
    OBVIOUS
<1>3. x \in Seq(Nat) /\ Len(x) = m - n /\ \A j \in 1 .. m - n : x[j] = n + j
    <2>1. m - n \in Nat
        BY <1>1
    <2>2. \A j \in 1 .. m - n : n + j \in Nat
        OBVIOUS
    <2>. QED
        BY <1>2, <2>1, <2>2
<1>4. e = l \o x
    BY <1>1, <1>2
<1>5. Len(e) = q + (m - n)
    BY <1>1, <1>3, <1>4, Concatenated
<1>6. \A j \in 1 .. q : e[j] = l[j]
    BY <1>1, <1>3, <1>4, Concatenated
<1>7. \A j \in 1 .. m - n : e[q + j] = n + j
    <2>1. \A j \in 1 .. Len(x) : e[Len(l) + j] = x[j]
        BY <1>1, <1>3, <1>4, Concatenated
    <2>. QED
        BY <1>1, <1>3, <2>1
<1>8. m - Len(e) = n - q
    BY <1>1, <1>5
<1>9. LastOn(c, e)
    <2>1. ASSUME NEW j \in 1 .. Len(e) PROVE e[j] = n - q + j
        <3>1. CASE j \in 1 .. q
            BY <1>1, <1>6, <3>1 DEF Heard, LastOn
        <3>2. CASE j \notin 1 .. q
            <4>1. j - q \in 1 .. m - n /\ q + (j - q) = j
                BY <1>1, <1>5, <3>2
            <4>2. e[q + (j - q)] = n + (j - q)
                BY <1>7, <4>1
            <4>. QED
                BY <1>1, <4>1, <4>2
        <3>. QED
            BY <3>1, <3>2
    <2>. QED
        BY <1>1, <1>8, <2>1 DEF LastOn
<1>10. PICK k : HeardTo(k, b, s, l, d)
    BY DEF Heard
<1>11. PICK y \in Nat, z \in Nat : y = Len(s) /\ z = Len(t) /\ y <= z
    BY DEF WellSent, LaterSent
<1>12. k \in 0 .. y /\ k \in 0 .. z
    BY <1>10, <1>11 DEF HeardTo
<1>13. ASSUME NEW i \in 1 .. k
       PROVE  Text(c, t, i) = Text(b, s, i) /\ t[i] = s[i]
    <2>1. i \in 1 .. y
        BY <1>12
    <2>2. Text(c, s, i) = Text(b, s, i)
        BY <1>11, <2>1, TextLonger
    <2>3. t[i] = s[i]
        BY <1>11, <2>1 DEF LaterSent
    <2>. QED
        BY <2>2, <2>3 DEF Text
<1>14. ASSUME NEW i \in k + 1 .. z
       PROVE  t[i].first > n - q
    <2>1. CASE i \in k + 1 .. y
        <3>1. t[i] = s[i]
            <4>1. i \in 1 .. y
                BY <1>12, <2>1
            <4>. QED
                BY <1>11, <4>1 DEF LaterSent
        <3>2. s[i].first > n - q
            BY <1>1, <1>10, <1>11, <2>1 DEF HeardTo
        <3>. QED
            BY <3>1, <3>2
    <2>2. CASE i \notin k + 1 .. y
        <3>1. i \in 1 .. z /\ i > y
            BY <1>12, <2>2
        <3>2. t[i].first > n
            BY <1>1, <1>11, <3>1 DEF LaterSent
        <3>3. t[i].first \in Nat
            <4>1. t \in Seq(Spans(Len(c)))
                BY DEF WellSent
            <4>2. t[i] \in Spans(m)
                BY <1>1, <1>11, <3>1, <4>1
            <4>. QED
                BY <4>2 DEF Spans
        <3>. QED
            BY <1>1, <3>2, <3>3
    <2>. QED
        BY <2>1, <2>2
<1>15. HeardTo(k, c, t, e, d)
    <2>1. d = [i \in 1 .. k |-> Decoded(Text(c, t, i))]
        BY <1>10, <1>13 DEF HeardTo
    <2>2. \A i \in 1 .. k : t[i].last <= m - Len(e)
        BY <1>1, <1>8, <1>10, <1>13 DEF HeardTo
    <2>3. \A i \in k + 1 .. z : t[i].first > m - Len(e)
        BY <1>8, <1>14
    <2>. QED
        BY <1>1, <1>11, <1>12, <2>1, <2>2, <2>3 DEF HeardTo
<1>. QED
    BY <1>9, <1>15 DEF Heard

LEMMA SendTells ==
    ASSUME Inv, Told, NEW job \in Jobs[Codec], NEW queued \in {0, Len(line) - got},
           Send(job, queued)
    PROVE  Told'
<1>1. PICK r \in Receivers, p \in Packets :
         job = [receiver |-> r, pkt |-> p, messages |-> Encoded(Codec, r, p)]
    <2>1. PICK c \in Codecs : c = Codec
        BY CodecIs
    <2>2. Jobs[c] = {[receiver |-> r, pkt |-> p, messages |-> Encoded(c, r, p)] :
                        r \in Receivers, p \in Packets}
        BY DEF Jobs, Codecs
    <2>. QED
        BY <2>1, <2>2
<1>2. job.receiver = r /\ job.pkt = p /\ job.messages = Encoded(Codec, r, p)
    BY <1>1
<1>3. PICK ps : ps = Pieces(Encoded(Codec, r, p))
    OBVIOUS
<1>4. PICK room : room = BUFFER_SIZE - queued
    OBVIOUS
<1>5. PICK kept : kept = Appended(ps, room)
    OBVIOUS
<1>6. PICK w : w = Written(kept)
    OBVIOUS
<1>7. PICK x : x = [receiver |-> r, pkt |-> p]
    OBVIOUS
<1>8. /\ bytes' = w.bytes /\ sent' = w.sent
      /\ line' = line \o [j \in 1 .. Len(w.bytes) - Len(bytes) |-> Len(bytes) + j]
      /\ refused' = (refused \/ Len(kept) < Len(ps))
      /\ asked' = Append(asked, x)
      /\ UNCHANGED <<proto, hurt, done>>
    BY <1>2, <1>3, <1>4, <1>5, <1>6, <1>7 DEF Send
<1>9. x \in AskedType /\ x.receiver = r /\ x.pkt = p
    BY <1>7 DEF AskedType
<1>10. asked' \in Seq(AskedType)
    BY <1>8, <1>9, AppendProperties DEF Told
<1>11. CASE refused'
    BY <1>8, <1>10, <1>11, ToldPrime
<1>12. CASE ~refused'
    <2>1. ~refused /\ ~(Len(kept) < Len(ps))
        BY <1>8, <1>12
    <2>2. Messages(Codec, Encoded(Codec, r, p))
        BY CodecIs, EncodedIs
    <2>3. UnderHeaders(ps)
        BY <1>3, <2>2, PiecesAre
    <2>4. room \in Int
        <3>1. got \in Nat /\ Len(line) \in Nat
            BY GotIs
        <3>2. queued \in Int
            BY <3>1
        <3>. QED
            BY <1>4, <3>2, Sizes
    <2>5. kept = ps
        <3>1. ps \in Seq(PieceSet)
            BY <2>3 DEF UnderHeaders
        <3>. QED
            BY <1>5, <2>1, <2>4, <3>1, AllAppended
    <2>6. bytes \in Seq(Octets) /\ WellSent(bytes, sent) /\ line \in Seq(Nat)
        BY LineIs DEF Inv, Sound
    <2>7. Faithful(bytes, sent, line, hurt, done, asked) /\ asked \in Seq(AskedType)
        BY <2>1 DEF Told
    <2>8. PICK f : SourceOf(f, bytes, sent, asked)
        BY <2>7 DEF Faithful
    <2>9. Covered(bytes, sent)
        BY <2>7 DEF Faithful
    <2>10. PICK c, t : c = bytes' /\ t = sent'
        OBVIOUS
    <2>11. c = w.bytes /\ t = w.sent /\ w = Written(ps)
        BY <1>6, <1>8, <2>5, <2>10
    <2>12. /\ c \in Seq(Octets) /\ Longer(c, bytes)
           /\ WellSent(c, t) /\ LaterSent(t, sent, Len(bytes))
        BY <2>3, <2>6, <2>11, WrittenWell
    <2>13. Covered(c, t) /\ Voices(Texts(c, t), Len(sent) + 1 .. Len(t), r, p)
        BY <1>3, <2>6, <2>9, <2>11, SendSays
    <2>14. PICK g : SourceOf(g, c, t, Append(asked, x))
        BY <1>9, <2>6, <2>7, <2>8, <2>12, <2>13, SourceMore
    <2>15. ASSUME hurt = {}
           PROVE  Heard(c, t, line', done)
        <3>1. Heard(bytes, sent, line, done)
            BY <2>7, <2>15 DEF Faithful
        <3>2. line' = line \o [j \in 1 .. Len(c) - Len(bytes) |-> Len(bytes) + j]
            BY <1>8, <2>11
        <3>. QED
            BY <2>6, <2>12, <3>1, <3>2, HeardMore
    <2>16. Faithful(c, t, line', hurt, done, Append(asked, x))
        BY <2>13, <2>14, <2>15 DEF Faithful
    <2>17. Faithful(bytes', sent', line', hurt', done', asked')
        BY <1>8, <2>10, <2>16
    <2>. QED
        BY <1>8, <1>10, <2>17, ToldPrime
<1>. QED
    BY <1>11, <1>12

\* Nothing changes that is told of, but perhaps what is hurt, the line and what is done.
LEMMA StaysTold ==
    ASSUME Inv, Told, UNCHANGED <<proto, bytes, sent, refused, asked>>,
           hurt' = {} => hurt = {},
           hurt' = {} /\ Heard(bytes, sent, line, done) => Heard(bytes, sent, line', done')
    PROVE  Told'
<1>1. CASE refused
    BY <1>1, ToldPrime DEF Told
<1>2. CASE ~refused
    <2>1. Faithful(bytes, sent, line, hurt, done, asked)
        BY <1>2 DEF Told
    <2>2. Faithful(bytes, sent, line', hurt', done', asked)
        BY <2>1 DEF Faithful
    <2>3. Faithful(bytes', sent', line', hurt', done', asked')
        BY <2>2
    <2>. QED
        BY <2>3, ToldPrime DEF Told
<1>. QED
    BY <1>1, <1>2

LEMMA LoseTells ==
    ASSUME Inv, Told, NEW i \in 1 .. Len(line), NEW n \in Bursts, Lose(i, n)
    PROVE  Told'
<1>1. n \in Nat /\ n > 0
    BY SerialAssumption
<1>2. UNCHANGED <<proto, bytes, sent, refused, asked>>
    BY DEF Lose
<1>3. i \in i .. i + n - 1
    BY <1>1
<1>4. line[i] \in hurt'
    BY <1>3 DEF Lose
<1>. QED
    BY <1>2, <1>4, StaysTold

LEMMA CloseTells ==
    ASSUME Inv, Told, Close
    PROVE  Told'
<1>1. /\ UNCHANGED <<proto, bytes, sent, refused, asked, done>>
      /\ line' = << >> /\ hurt' = hurt \cup {line[j] : j \in 1 .. Len(line)}
    BY DEF Close
<1>2. hurt' = {} => line' = line
    <2>1. ASSUME hurt' = {} PROVE line = << >>
        <3>1. 1 \notin 1 .. Len(line)
            BY <1>1, <2>1
        <3>2. Len(line) = 0 /\ line \in Seq(Nat)
            BY <3>1, LineIs
        <3>. QED
            BY <3>2
    <2>. QED
        BY <1>1, <2>1
<1>. QED
    BY <1>1, <1>2, StaysTold

-----------------------------------------------------------------------------
(* What the reader takes.                                                   *)

\* On a line that lost nothing, the next message begins the line, or the first
\* byte on it is one of a header.
LEMMA NextBegins ==
    ASSUME Inv, Covered(bytes, sent), LastOn(bytes, line), NEW d, NEW n,
           HeardTo(n, bytes, sent, line, d), Len(line) > 0
    PROVE  \/ n < Len(sent) /\ AtHead(n + 1)
           \/ /\ proto = "infinova_d" /\ FirstOctet # 255
              /\ \A k \in 1 .. Len(sent) : sent[k].first # line[1]
<1>1. PICK b \in Nat, q \in Nat, z \in Nat : b = Len(bytes) /\ q = Len(line) /\ z = Len(sent)
    <2>1. Len(sent) \in Nat
        BY DEF Inv, Sound, WellSent
    <2>. QED
        BY <2>1, LineIs DEF Inv, Sound
<1>2. PICK h : h = b - q + 1
    OBVIOUS
<1>3. h = line[1] /\ h \in 1 .. b
    <2>1. 1 \in 1 .. q
        BY <1>1
    <2>2. line[1] = b - q + 1
        BY <1>1, <2>1 DEF LastOn
    <2>3. line[1] \in 1 .. b
        BY <1>1, <2>1, LineIs
    <2>. QED
        BY <1>2, <2>2, <2>3
<1>4. n \in 0 .. z
    BY <1>1 DEF HeardTo
<1>5. CASE InMessage(sent, h)
    <2>1. PICK m \in 1 .. z : sent[m].first <= h /\ h <= sent[m].last
        BY <1>1, <1>5 DEF InMessage
    <2>2. PICK f \in 1 .. b, l \in 1 .. b : f = sent[m].first /\ l = sent[m].last /\ f <= h /\ h <= l
        BY <1>1, <2>1, SentIs
    <2>3. ~(m <= n)
        <3>1. ASSUME m <= n PROVE FALSE
            <4>1. m \in 1 .. n
                BY <1>4, <2>1, <3>1
            <4>2. l <= b - q
                BY <1>1, <2>2, <4>1 DEF HeardTo
            <4>. QED
                BY <1>2, <2>2, <4>2
        <3>. QED
            BY <3>1
    <2>4. f > b - q
        <3>1. m \in n + 1 .. z
            BY <1>4, <2>1, <2>3
        <3>. QED
            BY <1>1, <2>2, <3>1 DEF HeardTo
    <2>5. f = h
        BY <1>2, <2>2, <2>4
    <2>6. m = n + 1
        <3>1. ASSUME m # n + 1 PROVE FALSE
            <4>1. n + 1 \in 1 .. z /\ n + 1 \in n + 1 .. z /\ n + 1 < m
                BY <1>4, <2>1, <2>3, <3>1
            <4>2. PICK x \in 1 .. b, y \in 1 .. b :
                     x = sent[n + 1].first /\ y = sent[n + 1].last /\ x <= y
                BY <1>1, <4>1, SentIs
            <4>3. y < f
                BY <1>1, <2>1, <2>2, <4>1, <4>2 DEF Inv, Sound, WellSent
            <4>4. x > b - q
                BY <1>1, <4>1, <4>2 DEF HeardTo
            <4>. QED
                BY <1>2, <2>5, <4>2, <4>3, <4>4
        <3>. QED
            BY <3>1
    <2>7. ASSUME NEW i \in f .. l PROVE OnLine(line, i)
        <3>1. i - (b - q) \in 1 .. q
            BY <1>2, <2>2, <2>5
        <3>2. line[i - (b - q)] = b - q + (i - (b - q))
            BY <1>1, <3>1 DEF LastOn
        <3>3. line[i - (b - q)] = i
            BY <3>2
        <3>. QED
            BY <1>1, <3>1, <3>3 DEF OnLine
    <2>8. AtHead(m)
        BY <1>1, <1>3, <2>1, <2>2, <2>5, <2>7, HeadFrom
    <2>. QED
        BY <1>1, <1>4, <2>1, <2>6, <2>8
<1>6. CASE ~InMessage(sent, h)
    <2>1. proto = "infinova_d" /\ bytes[h] # 255
        BY <1>1, <1>3, <1>6 DEF Covered
    <2>2. ASSUME NEW k \in 1 .. z PROVE sent[k].first # h
        <3>1. PICK f \in 1 .. b, l \in 1 .. b : f = sent[k].first /\ l = sent[k].last /\ f <= l
            BY <1>1, SentIs
        <3>2. ASSUME f = h PROVE FALSE
            <4>1. f <= h /\ h <= l
                BY <3>1, <3>2
            <4>. QED
                BY <1>1, <1>6, <3>1, <4>1 DEF InMessage
        <3>. QED
            BY <3>1, <3>2
    <2>. QED
        BY <1>1, <1>3, <2>1, <2>2 DEF FirstOctet
<1>. QED
    BY <1>5, <1>6

\* The last bytes written are on what is left of the line.
LEMMA LeftOnLine ==
    ASSUME NEW b, NEW m \in Nat, Len(b) = m, NEW l \in Seq(Nat), LastOn(b, l),
           NEW n \in Nat, n <= Len(l), NEW e, e = SubSeq(l, n + 1, Len(l))
    PROVE  Len(e) = Len(l) - n /\ LastOn(b, e)
<1>1. PICK q \in Nat : q = Len(l)
    OBVIOUS
<1>2. PICK z \in Nat : z = q - n
    <2>1. n <= q
        BY <1>1
    <2>2. q - n \in Nat
        BY <2>1
    <2>. QED
        BY <2>2
<1>3. n + 1 \in Nat /\ q \in Nat /\ (q + 1) - (n + 1) = z /\ e = SubSeq(l, n + 1, q)
    BY <1>1, <1>2
<1>4. Len(e) = z /\ \A j \in 1 .. z : e[j] = l[n + j]
    BY <1>1, <1>2, <1>3
<1>5. ASSUME NEW j \in 1 .. z
      PROVE  e[j] = m - z + j
    <2>1. n + j \in 1 .. q
        BY <1>2
    <2>2. l[n + j] = m - q + (n + j)
        BY <1>1, <2>1 DEF LastOn
    <2>3. m - q + (n + j) = m - z + j
        BY <1>2
    <2>. QED
        BY <1>4, <2>2, <2>3
<1>. QED
    BY <1>1, <1>2, <1>4, <1>5 DEF LastOn

LEMMA AppendedOne ==
    ASSUME NEW n \in Nat, NEW F, NEW d, d = [k \in 1 .. n |-> F[k]], NEW x, x = F[n + 1]
    PROVE  Append(d, x) = [k \in 1 .. n + 1 |-> F[k]]
<1>1. PICK S : S = {F[k] : k \in 1 .. n + 1}
    OBVIOUS
<1>2. d \in Seq(S) /\ Len(d) = n
    BY <1>1
<1>3. x \in S
    BY <1>1
<1>4. PICK e : e = Append(d, x)
    OBVIOUS
<1>5. /\ e \in Seq(S) /\ Len(e) = n + 1 /\ e[n + 1] = x
      /\ \A k \in 1 .. n : e[k] = d[k]
    BY <1>2, <1>3, <1>4, AppendProperties
<1>6. \A k \in 1 .. n + 1 : e[k] = F[k]
    BY <1>5
<1>7. e = [k \in 1 .. n + 1 |-> e[k]]
    BY <1>5
<1>. QED
    BY <1>4, <1>6, <1>7

\* The message that begins the line is decoded, and it is the next.
LEMMA GiveTells ==
    ASSUME Inv, Told, NEW n \in Nat, n > 0, n <= got, NEW packet, Give(n, packet),
           ~(proto = "infinova_d" /\ FirstOctet # 255),
           \A m : AtHead(m) => Size(m) = n, packet = Decoded(Message(n))
    PROVE  Told'
<1>1. /\ UNCHANGED <<proto, bytes, sent, hurt, refused, asked>>
      /\ line' = SubSeq(line, n + 1, Len(line)) /\ done' = Append(done, packet)
    BY DEF Give, Consume, reader_vars
<1>2. PICK b \in Nat, q \in Nat, z \in Nat : b = Len(bytes) /\ q = Len(line) /\ z = Len(sent)
    <2>1. Len(sent) \in Nat
        BY DEF Inv, Sound, WellSent
    <2>. QED
        BY <2>1, LineIs DEF Inv, Sound
<1>3. n <= q /\ q > 0
    BY <1>2, GotIs
<1>4. ASSUME hurt = {}, Heard(bytes, sent, line, done), Covered(bytes, sent)
      PROVE  Heard(bytes, sent, line', done')
    <2>1. PICK k : HeardTo(k, bytes, sent, line, done)
        BY <1>4 DEF Heard
    <2>2. LastOn(bytes, line)
        BY <1>4 DEF Heard
    <2>3. k < z /\ AtHead(k + 1)
        BY <1>2, <1>3, <1>4, <2>1, <2>2, NextBegins
    <2>4. k \in 0 .. z /\ k \in Nat
        BY <1>2, <2>1 DEF HeardTo
    <2>5. k + 1 \in 1 .. z
        BY <2>3, <2>4
    <2>6. PICK f \in 1 .. b, l \in 1 .. b :
             f = sent[k + 1].first /\ l = sent[k + 1].last /\ f <= l
        <3>1. PICK i \in 1 .. Len(sent) : i = k + 1
            BY <1>2, <2>5
        <3>2. /\ sent[i].first \in 1 .. b /\ sent[i].last \in 1 .. b
              /\ sent[i].first <= sent[i].last
            BY <1>2, SentIs
        <3>. QED
            BY <3>1, <3>2
    <2>7. l + 1 - f = n
        BY <2>3, <2>6 DEF Size
    <2>8. \A j \in 1 .. n : line[j] = f + j - 1
        BY <2>3, <2>6, <2>7 DEF AtHead, Size
    <2>9. f = b - q + 1
        <3>1. 1 \in 1 .. q /\ 1 \in 1 .. n
            BY <1>3
        <3>2. line[1] = b - q + 1
            BY <1>2, <2>2, <3>1 DEF LastOn
        <3>3. line[1] = f + 1 - 1
            BY <2>8, <3>1
        <3>. QED
            BY <3>2, <3>3
    <2>10. Text(bytes, sent, k + 1) = Message(n)
        <3>1. \A j \in 0 .. n - 1 : line[j + 1] = f + j
            <4>1. \A j \in 0 .. n - 1 : j + 1 \in 1 .. n /\ f + (j + 1) - 1 = f + j
                OBVIOUS
            <4>. QED
                BY <2>8, <4>1
        <3>2. l - f = n - 1
            BY <2>7
        <3>. QED
            BY <2>6, <3>1, <3>2 DEF Text, Message
    <2>11. done' = [i \in 1 .. k + 1 |-> Decoded(Text(bytes, sent, i))]
        <3>1. PICK F : F = [i \in 1 .. k + 1 |-> Decoded(Text(bytes, sent, i))]
            OBVIOUS
        <3>2. done = [i \in 1 .. k |-> F[i]]
            <4>1. \A i \in 1 .. k : i \in 1 .. k + 1
                BY <2>4
            <4>2. \A i \in 1 .. k : F[i] = Decoded(Text(bytes, sent, i))
                BY <3>1, <4>1
            <4>. QED
                BY <2>1, <4>2 DEF HeardTo
        <3>3. packet = F[k + 1]
            <4>1. k + 1 \in 1 .. k + 1
                BY <2>4
            <4>. QED
                BY <2>10, <3>1, <4>1
        <3>4. Append(done, packet) = [i \in 1 .. k + 1 |-> F[i]]
            BY <2>4, <3>2, <3>3, AppendedOne
        <3>. QED
            BY <1>1, <3>1, <3>4
    <2>12. PICK e : e = line'
        OBVIOUS
    <2>13. Len(e) = q - n /\ LastOn(bytes, e)
        BY <1>1, <1>2, <1>3, <2>2, <2>12, LeftOnLine, LineIs
    <2>14. b - Len(e) = l
        <3>1. Len(e) = q - n
            BY <2>13
        <3>2. b - (q - n) = l
            BY <1>3, <2>6, <2>7, <2>9
        <3>. QED
            BY <3>1, <3>2
    <2>15. ASSUME NEW i \in 1 .. k + 1
           PROVE  sent[i].last <= l
        <3>1. CASE i = k + 1
            BY <2>6, <3>1
        <3>2. CASE i # k + 1
            <4>1. i \in 1 .. k /\ i \in 1 .. z
                BY <2>4, <2>5, <3>2
            <4>2. sent[i].last <= b - q
                BY <1>2, <2>1, <4>1 DEF HeardTo
            <4>3. sent[i].last \in 1 .. b
                BY <1>2, <4>1, SentIs
            <4>. QED
                BY <2>6, <2>9, <4>2, <4>3
        <3>. QED
            BY <3>1, <3>2
    <2>16. ASSUME NEW i \in (k + 1) + 1 .. z
           PROVE  sent[i].first > l
        <3>1. i \in 1 .. z /\ k + 1 < i
            BY <2>4
        <3>2. sent[k + 1].last < sent[i].first
            BY <1>2, <2>5, <3>1 DEF Inv, Sound, WellSent
        <3>3. sent[i].first \in 1 .. b
            BY <1>2, <3>1, SentIs
        <3>. QED
            BY <2>6, <3>2, <3>3
    <2>17. k + 1 \in 0 .. z
        BY <2>4, <2>5
    <2>18. HeardTo(k + 1, bytes, sent, e, done')
        BY <1>2, <2>11, <2>14, <2>15, <2>16, <2>17 DEF HeardTo
    <2>. QED
        BY <2>12, <2>13, <2>18 DEF Heard
<1>5. CASE refused
    BY <1>1, <1>5, ToldPrime DEF Told
<1>6. CASE ~refused
    <2>1. Covered(bytes, sent)
        BY <1>6 DEF Told, Faithful
    <2>. QED
        BY <1>1, <1>4, <2>1, StaysTold
<1>. QED
    BY <1>5, <1>6

\* What is dropped is of a header, and no message begins in it.
LEMMA DropTells ==
    ASSUME Inv, Told, NEW n \in Nat, n > 0, n <= got, Drop(n), \A m : ~AtHead(m),
           proto = "infinova_d" =>
              \A p \in 2 .. n : \A k \in 1 .. Len(sent) : sent[k].first # line[p]
    PROVE  Told'
<1>1. /\ UNCHANGED <<proto, bytes, sent, hurt, refused, asked, done>>
      /\ line' = SubSeq(line, n + 1, Len(line))
    BY DEF Drop, Consume, reader_vars
<1>2. PICK b \in Nat, q \in Nat, z \in Nat : b = Len(bytes) /\ q = Len(line) /\ z = Len(sent)
    <2>1. Len(sent) \in Nat
        BY DEF Inv, Sound, WellSent
    <2>. QED
        BY <2>1, LineIs DEF Inv, Sound
<1>3. n <= q /\ q > 0
    BY <1>2, GotIs
<1>4. ASSUME hurt = {}, Heard(bytes, sent, line, done), Covered(bytes, sent)
      PROVE  Heard(bytes, sent, line', done')
    <2>1. PICK k : HeardTo(k, bytes, sent, line, done)
        BY <1>4 DEF Heard
    <2>2. LastOn(bytes, line)
        BY <1>4 DEF Heard
    <2>3. proto = "infinova_d" /\ \A i \in 1 .. z : sent[i].first # line[1]
        BY <1>2, <1>3, <1>4, <2>1, <2>2, NextBegins
    <2>4. k \in 0 .. z
        BY <1>2, <2>1 DEF HeardTo
    <2>5. PICK e : e = line'
        OBVIOUS
    <2>6. Len(e) = q - n /\ LastOn(bytes, e)
        BY <1>1, <1>2, <1>3, <2>2, <2>5, LeftOnLine, LineIs
    <2>7. ASSUME NEW i \in 1 .. k
          PROVE  sent[i].last <= b - Len(e)
        <3>1. sent[i].last <= b - q /\ i \in 1 .. z
            BY <1>2, <2>1, <2>4 DEF HeardTo
        <3>2. sent[i].last \in 1 .. b
            BY <1>2, <3>1, SentIs
        <3>. QED
            BY <2>6, <3>1, <3>2
    <2>8. ASSUME NEW i \in k + 1 .. z
          PROVE  sent[i].first > b - Len(e)
        <3>1. i \in 1 .. z
            BY <2>4
        <3>2. PICK f \in 1 .. b : f = sent[i].first
            BY <1>2, <3>1, SentIs
        <3>3. f > b - q
            BY <1>2, <2>1, <3>2 DEF HeardTo
        <3>4. ASSUME f <= b - q + n PROVE FALSE
            <4>1. PICK p \in 1 .. n : f = b - q + p
                <5>1. f - (b - q) \in 1 .. n /\ f = b - q + (f - (b - q))
                    BY <3>3, <3>4
                <5>. QED
                    BY <5>1
            <4>2. p \in 1 .. q
                BY <1>3
            <4>3. line[p] = f
                BY <1>2, <2>2, <4>1, <4>2 DEF LastOn
            <4>4. p = 1 \/ p \in 2 .. n
                OBVIOUS
            <4>. QED
                BY <1>2, <2>3, <3>1, <3>2, <4>3, <4>4
        <3>. QED
            BY <2>6, <3>2, <3>4
    <2>9. HeardTo(k, bytes, sent, e, done)
        BY <1>2, <2>1, <2>7, <2>8 DEF HeardTo
    <2>. QED
        BY <1>1, <2>5, <2>6, <2>9 DEF Heard
<1>5. CASE refused
    BY <1>1, <1>5, ToldPrime DEF Told
<1>6. CASE ~refused
    <2>1. Covered(bytes, sent)
        BY <1>6 DEF Told, Faithful
    <2>. QED
        BY <1>1, <1>4, <2>1, StaysTold
<1>. QED
    BY <1>5, <1>6

LEMMA CodecOf ==
    /\ proto = "infinova_d" => Codec = "pelco_d"
    /\ Codec = "pelco_d" => START[Codec] = 255
BY Sizes DEF Codec, START

LEMMA DiscardTells ==
    ASSUME Inv, Told, pelco_discard_garbage
    PROVE  Told'
<1>1. /\ Codec \in Codecs /\ Codec # "vicon" /\ got >= SIZE[Codec]
      /\ ~IsFrame(Codec, Message(SIZE[Codec])) /\ Drop(Garbage)
    BY CodecIs DEF pelco_discard_garbage, pelco_reads
<1>2. got \in Nat /\ got <= Len(line) /\ Len(line) \in Nat
    BY GotIs
<1>3. got > 0
    BY <1>1, <1>2, Sizes DEF Codecs
<1>4. PICK n \in Nat : n = Garbage
    BY <1>2, <1>3, GarbageIs
<1>5. n > 0 /\ n <= got /\ \A j \in Starts : n < j
    BY <1>2, <1>3, <1>4, GarbageIs
<1>6. \A m : ~AtHead(m)
    BY <1>1, HeadMessage
<1>7. ASSUME NEW p \in 2 .. n, NEW k \in 1 .. Len(sent), sent[k].first = line[p]
      PROVE  FALSE
    <2>1. IsStart(bytes[line[p]])
        BY <1>7, MessageIs
    <2>2. p \in 2 .. got /\ p \in Nat
        BY <1>2, <1>5
    <2>3. p \in Starts
        BY <1>1, <2>1, <2>2, StarterIs DEF Starts
    <2>. QED
        BY <1>5, <2>2, <2>3
<1>. QED
    BY <1>1, <1>4, <1>5, <1>6, <1>7, DropTells

LEMMA DecodeTells ==
    ASSUME Inv, Told, pelco_decode_message
    PROVE  Told'
<1>1. /\ Codec \in Codecs /\ Codec # "vicon" /\ got >= SIZE[Codec]
      /\ IsFrame(Codec, Message(SIZE[Codec]))
      /\ Give(SIZE[Codec], decode(Codec, Deadzone, Message(SIZE[Codec])))
    BY CodecIs DEF pelco_decode_message, pelco_reads
<1>2. PICK n \in Nat : n = SIZE[Codec] /\ n > 0
    BY <1>1, Sizes DEF Codecs
<1>3. PICK packet : packet = decode(Codec, Deadzone, Message(n))
    OBVIOUS
<1>4. n <= got /\ Give(n, packet)
    BY <1>1, <1>2, <1>3, GotIs
<1>5. FirstOctet = START[Codec]
    <2>1. Message(n)[0] = START[Codec]
        BY <1>1, <1>2 DEF IsFrame
    <2>2. 0 \in 0 .. n - 1 /\ 0 + 1 = 1
        BY <1>2
    <2>3. Message(n)[0] = bytes[line[1]]
        BY <2>2 DEF Message
    <2>. QED
        BY <2>1, <2>3 DEF FirstOctet
<1>6. ~(proto = "infinova_d" /\ FirstOctet # 255)
    BY <1>5, CodecOf
<1>7. \A m : AtHead(m) => Size(m) = n
    BY <1>1, <1>2, HeadMessage
<1>8. packet = Decoded(Message(n))
    BY <1>1, <1>3 DEF Decoded
<1>. QED
    BY <1>2, <1>4, <1>6, <1>7, <1>8, GiveTells

LEMMA UnexpectedTells ==
    ASSUME Inv, Told, vicon_unexpected_byte
    PROVE  Told'
<1>1. Codec = "vicon" /\ got >= 2 /\ ~(FirstOctet >= 128) /\ Drop(1)
    <2>1. Codec = "vicon" /\ got >= 2 /\ FirstOctet < 128 /\ Drop(1) /\ got \in Nat
        BY GotIs, Sizes DEF vicon_unexpected_byte, vicon_reads
    <2>2. FirstOctet \in 0 .. 255
        <3>1. Len(line) > 0
            BY <2>1, GotIs
        <3>2. PICK x \in 1 .. Len(bytes) : x = line[1]
            BY <3>1, LineIs
        <3>3. bytes \in Seq(Octets)
            BY DEF Inv, Sound
        <3>4. bytes[x] \in Octets
            BY <3>3
        <3>. QED
            BY <3>2, <3>4 DEF FirstOctet, Octets
    <2>. QED
        BY <2>1, <2>2
<1>2. \A m : ~AtHead(m)
    BY <1>1, HeadMessage
<1>3. proto # "infinova_d" /\ 1 <= got
    BY <1>1, CodecOf, GotIs
<1>. QED
    BY <1>1, <1>2, <1>3, DropTells

LEMMA StatusTells ==
    ASSUME Inv, Told, vicon_decode_status
    PROVE  Told'
<1>1. /\ Codec = "vicon" /\ got >= 2 /\ ~is_command(Message(SIZE_STATUS))
      /\ Drop(2)
    BY Sizes DEF vicon_decode_status, vicon_reads
<1>2. \A m : ~AtHead(m)
    BY <1>1, HeadMessage
<1>3. proto # "infinova_d" /\ 2 <= got
    BY <1>1, CodecOf, GotIs
<1>. QED
    BY <1>1, <1>2, <1>3, DropTells

LEMMA CommandTells ==
    ASSUME Inv, Told, vicon_decode_command
    PROVE  Told'
<1>1. /\ Codec = "vicon" /\ got >= CommandSize
      /\ Give(CommandSize, vicon_decode(Message(CommandSize)))
    BY DEF vicon_decode_command, vicon_reads
<1>2. PICK n \in Nat : n = CommandSize /\ n > 0
    <2>1. CommandSize = 6 \/ CommandSize = 10
        BY Sizes DEF CommandSize
    <2>. QED
        BY <2>1
<1>3. PICK packet : packet = vicon_decode(Message(n))
    OBVIOUS
<1>4. n <= got /\ Give(n, packet)
    BY <1>1, <1>2, <1>3, GotIs
<1>5. ~(proto = "infinova_d" /\ FirstOctet # 255)
    BY <1>1, CodecOf
<1>6. \A m : AtHead(m) => Size(m) = n
    BY <1>1, <1>2, HeadMessage
<1>7. packet = Decoded(Message(n))
    BY <1>1, <1>3 DEF Decoded
<1>. QED
    BY <1>2, <1>4, <1>5, <1>6, <1>7, GiveTells

LEMMA NextTells ==
    ASSUME Inv, Told, [Next]_vars
    PROVE  Told'
<1>1. ASSUME NEW job \in Jobs[Codec], NEW n \in {0, Len(line) - got}, Send(job, n)
      PROVE  Told'
    BY <1>1, SendTells
<1>2. ASSUME NEW i \in 1 .. Len(line), NEW n \in Bursts, Lose(i, n)
      PROVE  Told'
    BY <1>2, LoseTells
<1>3. ASSUME UNCHANGED <<proto, bytes, sent, refused, asked, hurt, line, done>>
      PROVE  Told'
    BY <1>3, StaysTold
<1>4. CASE Open
    BY <1>3, <1>4 DEF Open
<1>5. ASSUME NEW n \in Reads \cup {Len(line) - got}, Read(n)
      PROVE  Told'
    BY <1>3, <1>5 DEF Read, reader_vars
<1>6. CASE Done
    BY <1>3, <1>6 DEF Done, reader_vars
<1>7. CASE UNCHANGED vars
    BY <1>3, <1>7 DEF vars
<1>. QED
    BY <1>1, <1>2, <1>4, <1>5, <1>6, <1>7, DiscardTells, DecodeTells, UnexpectedTells,
       StatusTells, CommandTells, CloseTells DEF Next, Silence

LEMMA ToldAlways == Spec => [](Inv /\ Told)
<1>1. Inv /\ Told /\ [Next]_vars => Inv' /\ Told'
    BY NextKeeps, NextTells
<1>2. Init => Inv /\ Told
    BY InitInv, InitTold
<1>. QED
    BY <1>1, <1>2, PTL DEF Spec

\* What the reader has done, message by message.
LEMMA DoneIs ==
    ASSUME Inv, Told, ~refused, NEW f, SourceOf(f, bytes, sent, asked), NEW n,
           HeardTo(n, bytes, sent, line, done), NEW i \in 1 .. Len(sent),
           NEW m, m = Texts(bytes, sent)[i]
    PROVE  /\ f[i] \in 1 .. Len(asked)
           /\ asked[f[i]].receiver \in Receivers \cap (1 .. MaxAddress)
           /\ Truthful(m, asked[f[i]].receiver, asked[f[i]].pkt, Groups)
           /\ i <= n => i \in 1 .. Len(done) /\ done[i] = Decoded(m)
<1>1. asked \in Seq(AskedType)
    BY DEF Told
<1>2. f \in [1 .. Len(sent) -> 1 .. Len(asked)]
    BY DEF SourceOf
<1>3. f[i] \in 1 .. Len(asked)
    BY <1>2
<1>4. PICK a \in AskedType : a = asked[f[i]]
    BY <1>1, <1>3
<1>5. PICK K : K = {k \in 1 .. Len(sent) : f[k] = f[i]}
    OBVIOUS
<1>6. Voices(Texts(bytes, sent), K, a.receiver, a.pkt)
    BY <1>3, <1>4, <1>5 DEF SourceOf
<1>7. i \in K
    BY <1>5
<1>8. a.receiver \in 1 .. MaxAddress /\ SaysOf(Texts(bytes, sent), K, a.receiver, a.pkt)
    BY <1>6, <1>7 DEF Voices
<1>9. Truthful(m, a.receiver, a.pkt, Groups)
    BY <1>7, <1>8 DEF SaysOf
<1>10. a.receiver \in Receivers
    BY DEF AskedType
<1>11. ASSUME i <= n
       PROVE  i \in 1 .. Len(done) /\ done[i] = Decoded(m)
    <2>1. n \in Nat
        BY DEF HeardTo
    <2>2. i \in 1 .. n
        BY <1>11, <2>1
    <2>3. done = [k \in 1 .. n |-> Decoded(Text(bytes, sent, k))]
        BY DEF HeardTo
    <2>4. done[i] = Decoded(Text(bytes, sent, i))
        BY <2>2, <2>3
    <2>5. m = Text(bytes, sent, i)
        BY DEF Texts
    <2>6. Len(done) = n
        BY <2>1, <2>3
    <2>. QED
        BY <2>2, <2>4, <2>5, <2>6
<1>. QED
    BY <1>3, <1>4, <1>8, <1>9, <1>10, <1>11

LEMMA DoneLen ==
    ASSUME Inv, NEW n, HeardTo(n, bytes, sent, line, done)
    PROVE  n \in 0 .. Len(sent) /\ Len(sent) \in Nat /\ Len(done) = n
<1>1. Len(sent) \in Nat
    BY DEF Inv, Sound, WellSent
<1>2. n \in Nat /\ n \in 0 .. Len(sent)
    BY <1>1 DEF HeardTo
<1>3. done = [k \in 1 .. n |-> Decoded(Text(bytes, sent, k))]
    BY DEF HeardTo
<1>. QED
    BY <1>1, <1>2, <1>3

\* All that is asked of r in group g, before something that is done of it, or when
\* there is nothing on the line, is done.
LEMMA AllDone ==
    ASSUME Inv, Told, ~refused, NEW f, SourceOf(f, bytes, sent, asked), NEW n,
           HeardTo(n, bytes, sent, line, done),
           NEW r \in Receivers \cap (1 .. MaxAddress), NEW g \in Groups,
           NEW k \in AskedFor(r, g),
           line = << >> \/ \E j \in DoneFor(r, g) : k <= f[j]
    PROVE  \E j \in DoneFor(r, g) : f[j] = k
<1>1. n \in 0 .. Len(sent) /\ Len(sent) \in Nat /\ Len(done) = n
    BY DoneLen
<1>2. PICK t : t = Texts(bytes, sent)
    OBVIOUS
<1>3. PICK K : K = {i \in 1 .. Len(sent) : f[i] = k}
    OBVIOUS
<1>4. k \in 1 .. Len(asked) /\ asked[k].receiver = r /\ Carried(asked[k].pkt, g)
    BY DEF AskedFor
<1>5. Voices(t, K, r, asked[k].pkt)
    BY <1>2, <1>3, <1>4 DEF SourceOf
<1>6. r \in 1 .. MaxAddress
    OBVIOUS
<1>7. SaysOf(t, K, r, asked[k].pkt)
    BY <1>5, <1>6 DEF Voices
<1>8. PICK i \in K : Tells(t[i], g)
    BY <1>4, <1>7 DEF SaysOf
<1>9. i \in 1 .. Len(sent) /\ f[i] = k
    BY <1>3
<1>10. PICK m : m = t[i]
    OBVIOUS
<1>11. i <= n
    <2>1. CASE line = << >>
        <3>1. ASSUME ~(i <= n) PROVE FALSE
            <4>1. i \in n + 1 .. Len(sent)
                BY <1>1, <1>9, <3>1
            <4>2. sent[i].first > Len(bytes) - Len(line)
                BY <4>1 DEF HeardTo
            <4>3. PICK b \in Nat : b = Len(bytes)
                BY DEF Inv, Sound
            <4>4. sent[i].first \in 1 .. b
                BY <1>9, <4>3, SentIs
            <4>5. Len(line) = 0
                BY <2>1
            <4>. QED
                BY <4>2, <4>3, <4>4, <4>5
        <3>. QED
            BY <3>1
    <2>2. CASE \E j \in DoneFor(r, g) : k <= f[j]
        <3>1. PICK j \in DoneFor(r, g) : k <= f[j]
            BY <2>2
        <3>2. j \in 1 .. n /\ Get(done[j].pkt, g) # {}
            BY <1>1, <3>1 DEF DoneFor
        <3>3. j \in 1 .. Len(sent) /\ j <= n
            BY <1>1, <3>2
        <3>4. f[j] \in 1 .. Len(asked) /\ done[j] = Decoded(t[j])
            BY <1>2, <3>3, DoneIs
        <3>5. Tells(t[j], g)
            BY <3>2, <3>4 DEF Tells
        <3>6. ASSUME j < i PROVE FALSE
            <4>1. f[j] <= f[i]
                BY <1>9, <3>3, <3>6 DEF SourceOf
            <4>2. f[j] = k
                BY <1>4, <1>9, <3>1, <3>4, <4>1
            <4>3. j \in K
                BY <1>3, <3>3, <4>2
            <4>4. i = j
                BY <1>7, <1>8, <3>5, <4>3 DEF SaysOf
            <4>. QED
                BY <1>9, <3>6, <4>4
        <3>. QED
            BY <1>1, <1>9, <3>3, <3>6
    <2>. QED
        BY <2>1, <2>2
<1>12. Truthful(m, r, asked[k].pkt, Groups) /\ i \in 1 .. Len(done) /\ done[i] = Decoded(m)
    BY <1>2, <1>4, <1>9, <1>10, <1>11, DoneIs
<1>13. i \in DoneFor(r, g)
    <2>1. done[i].receiver = r
        BY <1>12 DEF Truthful
    <2>2. Get(done[i].pkt, g) # {}
        BY <1>8, <1>10, <1>12 DEF Tells
    <2>. QED
        BY <1>12, <2>1, <2>2 DEF DoneFor
<1>. QED
    BY <1>9, <1>13

\* What is done of r in group g was asked, and is what was asked.
LEMMA DoneAsAsked ==
    ASSUME Inv, Told, ~refused, NEW f, SourceOf(f, bytes, sent, asked), NEW n,
           HeardTo(n, bytes, sent, line, done), NEW r, NEW g \in Groups,
           NEW j \in DoneFor(r, g)
    PROVE  /\ f[j] \in AskedFor(r, g)
           /\ Fulfils(asked[f[j]].pkt, g, Entry(done[j].pkt, g))
           /\ j \in 1 .. Len(sent) /\ Tells(Texts(bytes, sent)[j], g)
<1>1. n \in 0 .. Len(sent) /\ Len(sent) \in Nat /\ Len(done) = n
    BY DoneLen
<1>2. PICK m : m = Texts(bytes, sent)[j]
    OBVIOUS
<1>3. j \in 1 .. n /\ done[j].receiver = r /\ Get(done[j].pkt, g) # {}
    BY <1>1 DEF DoneFor
<1>4. j \in 1 .. Len(sent) /\ j <= n
    BY <1>1, <1>3
<1>5. /\ f[j] \in 1 .. Len(asked) /\ done[j] = Decoded(m)
      /\ Truthful(m, asked[f[j]].receiver, asked[f[j]].pkt, Groups)
    BY <1>2, <1>4, DoneIs
<1>6. Tells(m, g)
    BY <1>3, <1>5 DEF Tells
<1>7. asked[f[j]].receiver = r
    BY <1>3, <1>5 DEF Truthful
<1>8. /\ Carried(asked[f[j]].pkt, g)
      /\ Fulfils(asked[f[j]].pkt, g, Entry(done[j].pkt, g))
    BY <1>5, <1>6 DEF Truthful
<1>9. f[j] \in AskedFor(r, g)
    BY <1>5, <1>7, <1>8 DEF AskedFor
<1>. QED
    BY <1>2, <1>4, <1>6, <1>8, <1>9

LEMMA InOrder ==
    ASSUME Inv, Told, ~refused, NEW f, SourceOf(f, bytes, sent, asked), NEW n,
           HeardTo(n, bytes, sent, line, done), NEW r, NEW g \in Groups,
           NEW i \in DoneFor(r, g), NEW j \in DoneFor(r, g), i < j
    PROVE  f[i] < f[j]
<1>1. PICK t : t = Texts(bytes, sent)
    OBVIOUS
<1>2. /\ i \in 1 .. Len(sent) /\ Tells(t[i], g) /\ f[i] \in AskedFor(r, g)
      /\ j \in 1 .. Len(sent) /\ Tells(t[j], g) /\ f[j] \in AskedFor(r, g)
    BY <1>1, DoneAsAsked
<1>3. f[i] \in Nat /\ f[j] \in Nat /\ f[i] \in 1 .. Len(asked)
    BY <1>2 DEF AskedFor
<1>4. f[i] <= f[j]
    BY <1>2 DEF SourceOf
<1>5. ASSUME f[i] = f[j] PROVE FALSE
    <2>1. PICK K : K = {k \in 1 .. Len(sent) : f[k] = f[i]}
        OBVIOUS
    <2>2. i \in K /\ j \in K
        BY <1>2, <1>5, <2>1
    <2>3. Voices(t, K, asked[f[i]].receiver, asked[f[i]].pkt)
        BY <1>1, <1>3, <2>1 DEF SourceOf
    <2>4. SaysOf(t, K, asked[f[i]].receiver, asked[f[i]].pkt)
        BY <2>2, <2>3 DEF Voices
    <2>5. i = j
        BY <1>2, <2>2, <2>4 DEF SaysOf
    <2>. QED
        BY <1>2, <2>5
<1>. QED
    BY <1>3, <1>4, <1>5

\* On a line that loses nothing, with room for all that is written, each camera is
\* given what the protocol carries of what was asked of it, function by function, in
\* order, once each, with nothing left out before it, and all of it once the line has
\* been read: for any packets and receivers, however they follow one another, and
\* however the bytes are split over reads (do_write, decode_message).
THEOREM AskedGiven == Spec => []GivenAsAsked
<1>1. ASSUME Inv, Told
      PROVE  GivenAsAsked
    <2>1. ASSUME hurt = {}, ~refused
          PROVE  /\ \A j \in 1 .. Len(done) : done[j].receiver \in Receivers \cap (1 .. MaxAddress)
                 /\ \A r \in Receivers \cap (1 .. MaxAddress), g \in Groups :
                       \E f \in [DoneFor(r, g) -> AskedFor(r, g)] :
                          /\ \A i, j \in DoneFor(r, g) : i < j => f[i] < f[j]
                          /\ \A j \in DoneFor(r, g) :
                                Fulfils(asked[f[j]].pkt, g, Entry(done[j].pkt, g))
                          /\ \A k \in AskedFor(r, g) :
                                line = << >> \/ (\E j \in DoneFor(r, g) : k <= f[j]) =>
                                   \E j \in DoneFor(r, g) : f[j] = k
        <3>1. Faithful(bytes, sent, line, hurt, done, asked)
            BY <1>1, <2>1 DEF Told
        <3>2. PICK f : SourceOf(f, bytes, sent, asked)
            BY <3>1 DEF Faithful
        <3>3. PICK n : HeardTo(n, bytes, sent, line, done)
            BY <2>1, <3>1 DEF Faithful, Heard
        <3>4. n \in 0 .. Len(sent) /\ Len(sent) \in Nat /\ Len(done) = n
            BY <1>1, <3>3, DoneLen
        <3>5. ASSUME NEW j \in 1 .. Len(done)
              PROVE  done[j].receiver \in Receivers \cap (1 .. MaxAddress)
            <4>1. PICK m : m = Texts(bytes, sent)[j]
                OBVIOUS
            <4>2. j \in 1 .. Len(sent) /\ j <= n
                BY <3>4
            <4>3. /\ asked[f[j]].receiver \in Receivers \cap (1 .. MaxAddress)
                  /\ Truthful(m, asked[f[j]].receiver, asked[f[j]].pkt, Groups)
                  /\ done[j] = Decoded(m)
                BY <1>1, <2>1, <3>2, <3>3, <4>1, <4>2, DoneIs
            <4>. QED
                BY <4>3 DEF Truthful
        <3>6. ASSUME NEW r \in Receivers \cap (1 .. MaxAddress), NEW g \in Groups
              PROVE  \E h \in [DoneFor(r, g) -> AskedFor(r, g)] :
                          /\ \A i, j \in DoneFor(r, g) : i < j => h[i] < h[j]
                          /\ \A j \in DoneFor(r, g) :
                                Fulfils(asked[h[j]].pkt, g, Entry(done[j].pkt, g))
                          /\ \A k \in AskedFor(r, g) :
                                line = << >> \/ (\E j \in DoneFor(r, g) : k <= h[j]) =>
                                   \E j \in DoneFor(r, g) : h[j] = k
            <4>1. PICK D, A : D = DoneFor(r, g) /\ A = AskedFor(r, g)
                OBVIOUS
            <4>2. \A j \in D : /\ f[j] \in A
                               /\ Fulfils(asked[f[j]].pkt, g, Entry(done[j].pkt, g))
                BY <1>1, <2>1, <3>2, <3>3, <4>1, DoneAsAsked
            <4>3. \A i, j \in D : i < j => f[i] < f[j]
                BY <1>1, <2>1, <3>2, <3>3, <4>1, InOrder
            <4>4. \A k \in A : line = << >> \/ (\E j \in D : k <= f[j]) => \E j \in D : f[j] = k
                BY <1>1, <2>1, <3>2, <3>3, <4>1, AllDone
            <4>5. PICK h \in [D -> A] : \A j \in D : h[j] = f[j]
                <5>1. [j \in D |-> f[j]] \in [D -> A]
                    BY <4>2
                <5>. QED
                    BY <5>1
            <4>6. /\ \A i, j \in D : i < j => h[i] < h[j]
                  /\ \A j \in D : Fulfils(asked[h[j]].pkt, g, Entry(done[j].pkt, g))
                  /\ \A k \in A : line = << >> \/ (\E j \in D : k <= h[j]) => \E j \in D : h[j] = k
                BY <4>2, <4>3, <4>4, <4>5
            <4>. QED
                BY <4>1, <4>5, <4>6
        <3>. QED
            BY <3>5, <3>6
    <2>. QED
        BY <2>1 DEF GivenAsAsked
<1>. QED
    BY <1>1, ToldAlways, PTL

==============================================================================
