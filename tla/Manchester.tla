------------------------------ MODULE Manchester ------------------------------
(****************************************************************************)
(* manchester.c: a writer that encodes packets as messages of three bytes,  *)
(* a serial line, and a reader that finds the messages in what arrives and  *)
(* decodes them into its packet.  Only the first byte of a message has its  *)
(* highest bit set; there is no checksum.                                   *)
(*                                                                          *)
(* The bytes on the line are numbered as they were sent, three to a         *)
(* message; a byte is its number, and what it holds follows from the        *)
(* message.  The line may lose bytes, and may be closed.                    *)
(****************************************************************************)
EXTENDS Packet, Sequences

CONSTANTS
    Receivers,   \* the receivers the writer is given packets for
    Packets,     \* the packets it is given
    MaxMessages  \* bound: packets encoded, and messages sent

MANCHESTER_MAX_ADDRESS == 1024
FLAG == 128
PT_COMMAND == 2
SIZE_MSG == 3
SPEED_FULL == 7

ASSUME ManchesterAssumption ==
    /\ Receivers \subseteq 1 .. MANCHESTER_MAX_ADDRESS
    /\ Packets \subseteq [flags : SUBSET UNION {CC[g] : g \in Groups},
                          pan : 0 .. SPEED_MAX, tilt : 0 .. SPEED_MAX, preset : Nat]
    /\ 256 * SPEED_FULL < SPEED_MAX
    /\ MaxMessages \in Nat

-----------------------------------------------------------------------------
(* The codes of commands.                                                   *)

\* The pan/tilt speeds.
SPEED == [n \in 0 .. SPEED_FULL |-> IF n = SPEED_FULL THEN SPEED_MAX ELSE 256 * (n + 1)]

\* enum pt_command_t
PT == [n \in 0 .. 3 |-> <<"tilt_down", "tilt_up", "pan_left", "pan_right">>[n + 1]]

\* enum ex_function_t
EX_LENS   == 0
EX_AUX    == 1
EX_RECALL == 2
EX_STORE  == 3

\* enum xl_lens_t; the first and last are the full speeds.
LENS == [n \in 0 .. 7 |->
            <<"tilt_down", "iris_open", "focus_far", "zoom_in",
              "iris_close", "focus_near", "zoom_out", "pan_left">>[n + 1]]

\* enum ex_aux_t, with the first two for the full speeds.
AUX == [n \in 0 .. 7 |->
           <<"tilt_up", "pan_right", "camera_off", "camera_on",
             "aux_2", "aux_5", "aux_3", "wiper_on">>[n + 1]]

Code(table, f) == CHOOSE n \in DOMAIN table : table[n] = f

Codes(table) == {table[n] : n \in DOMAIN table}

\* What a message says, but for its receiver.
Commands == [pt : BOOLEAN, cmnd : 0 .. 3, extra : 0 .. 7]

Messages == [receiver : 1 .. MANCHESTER_MAX_ADDRESS, cmd : Commands]

-----------------------------------------------------------------------------
(* The bytes of a message.                                                  *)

encode_message(m) ==
    LET r == m.receiver - 1
    IN << FLAG + ((r \div 64) % 16),
          ((r \div 32) % 2) + 2 * m.cmd.extra + 16 * m.cmd.cmnd,
          4 * (r % 32) + (IF m.cmd.pt THEN PT_COMMAND ELSE 0) >>

is_pan_tilt_command(b) == (b[3] \div 2) % 2 = 1

decode_receiver(b) == 1 + 64 * (b[1] % 16) + 32 * (b[2] % 2) + ((b[3] \div 4) % 32)

decode_command(b) == (b[2] \div 16) % 4

pt_extra(b) == (b[2] \div 2) % 8

-----------------------------------------------------------------------------
(* The packet of a message: what decode_packet does to packet p.            *)

decode_pan_tilt(p, f, s) == IF f \in CC.pan THEN ccpacket_set_pan(p, {f}, s)
                                            ELSE ccpacket_set_tilt(p, {f}, s)

\* decode_lens and decode_aux, of function f.
decode_function(p, f) ==
    IF f \in CC.pan \cup CC.tilt THEN decode_pan_tilt(p, f, SPEED_MAX)
    ELSE LET gs == {g \in Groups : f \in CC[g]}
         IN IF gs = {} THEN p ELSE Set(p, CHOOSE g \in gs : TRUE, {f})

decode_extended(p, c, x) ==
    CASE c = EX_LENS   -> decode_function(p, LENS[x])
      [] c = EX_AUX    -> decode_function(p, AUX[x])
      [] c = EX_RECALL -> ccpacket_set_preset(p, {"preset_recall"}, x + 1)
      [] c = EX_STORE  -> ccpacket_set_preset(p, {"preset_store"}, x + 1)

decode_packet(p, b) ==
    IF is_pan_tilt_command(b)
    THEN decode_pan_tilt(p, PT[decode_command(b)], SPEED[pt_extra(b)])
    ELSE decode_extended(p, decode_command(b), pt_extra(b))

-----------------------------------------------------------------------------
(* The messages of a packet.                                                *)

\* Mutant: a speed that is a level itself is rounded up too.
BugEncodeSpeed(s) == IF \E n \in 0 .. SPEED_FULL - 1 : SPEED[n] > s
                     THEN CHOOSE n \in 0 .. SPEED_FULL - 1 :
                             SPEED[n] > s /\ \A k \in 0 .. n - 1 : SPEED[k] <= s
                     ELSE SPEED_FULL

\* The lowest level that is not slower, or full speed.
manchester_encode_speed(s) ==
    IF \E n \in 0 .. SPEED_FULL - 1 : SPEED[n] >= s
    THEN CHOOSE n \in 0 .. SPEED_FULL - 1 :
            SPEED[n] >= s /\ \A k \in 0 .. n - 1 : SPEED[k] < s
    ELSE SPEED_FULL

\* Of a set of modes, those with a code are each encoded in a message.
encode_function(modes) ==
    IF modes \cap Codes(LENS) # {}
    THEN << [pt |-> FALSE, cmnd |-> EX_LENS,
             extra |-> Code(LENS, CHOOSE f \in modes \cap Codes(LENS) : TRUE)] >>
    ELSE IF modes \cap Codes(AUX) # {}
    THEN << [pt |-> FALSE, cmnd |-> EX_AUX,
             extra |-> Code(AUX, CHOOSE f \in modes \cap Codes(AUX) : TRUE)] >>
    ELSE << >>

\* encode_pan and encode_tilt, of a mode and its speed.
encode_pan_tilt(modes, s) ==
    IF modes \cap Codes(PT) = {} THEN << >>
    ELSE IF manchester_encode_speed(s) = SPEED_FULL THEN encode_function(modes)
    ELSE << [pt |-> TRUE, cmnd |-> Code(PT, CHOOSE f \in modes \cap Codes(PT) : TRUE),
             extra |-> manchester_encode_speed(s)] >>

encode_aux(p) == encode_function(IF Get(p, "camera") # {} THEN Get(p, "camera")
                                                          ELSE Get(p, "wiper"))

encode_preset(p) ==
    LET m == ccpacket_get_preset_mode(p)
    IN IF p.preset \in 1 .. 8 /\ m \cap {"preset_recall", "preset_store"} # {}
       THEN << [pt |-> FALSE, extra |-> p.preset - 1,
                cmnd |-> IF m = {"preset_recall"} THEN EX_RECALL ELSE EX_STORE] >>
       ELSE << >>

manchester_do_write(p) ==
    (IF p.pan # 0 THEN encode_pan_tilt(Get(p, "pan"), p.pan) ELSE << >>)
    \o (IF p.tilt # 0 THEN encode_pan_tilt(Get(p, "tilt"), p.tilt) ELSE << >>)
    \o encode_function(Get(p, "zoom"))
    \o encode_function(Get(p, "focus"))
    \o encode_function(Get(p, "iris"))
    \o encode_aux(p)
    \o encode_preset(p)

-----------------------------------------------------------------------------
VARIABLES
    sent,     \* the messages sent, in order: they give the bytes their values
    line,     \* the bytes sent, not lost, and not consumed by the reader
    got,      \* how many of them are in the reader's buffer
    reading,  \* manchester_do_read is in its loop
    receiver, \* the receiver in the reader's packet
    pkt,      \* the rest of that packet
    hurt,     \* history: the messages that lost a byte
    own,      \* history: the messages decoded from their own three bytes
    asked,    \* history: the packets the writer encoded
    done      \* history: the packets the reader gave to its writers

vars == <<sent, line, got, reading, receiver, pkt, hurt, own, asked, done>>

\* The message byte i belongs to, its place there, and what it holds.
MessageOf(i) == (i \div SIZE_MSG) + 1
PlaceOf(i)   == (i % SIZE_MSG) + 1
Byte(i)      == encode_message(sent[MessageOf(i)])[PlaceOf(i)]

\* The bytes of message k.
BytesOf(k) == {3 * (k - 1), 3 * (k - 1) + 1, 3 * (k - 1) + 2}

Init ==
    /\ sent = << >> /\ line = << >> /\ got = 0 /\ reading = FALSE
    /\ receiver = 0 /\ pkt = Cleared
    /\ hurt = {} /\ own = {} /\ asked = << >> /\ done = << >>

-----------------------------------------------------------------------------
(* The writer and the line.                                                 *)

\* manchester_do_write, with room for all of the messages.
Send(r, p) ==
    LET cs == manchester_do_write(p)
        n  == Len(sent)
    IN /\ n + Len(cs) <= MaxMessages /\ Len(asked) < MaxMessages
       /\ sent' = sent \o [j \in 1 .. Len(cs) |-> [receiver |-> r, cmd |-> cs[j]]]
       /\ line' = line \o [j \in 1 .. SIZE_MSG * Len(cs) |-> SIZE_MSG * n + j - 1]
       /\ asked' = Append(asked, [receiver |-> r, pkt |-> p])
       /\ UNCHANGED <<got, reading, receiver, pkt, hurt, own, done>>

\* A byte that has not reached the reader is lost.
Lose(i) ==
    /\ i > got
    /\ line' = [j \in 1 .. Len(line) - 1 |-> IF j < i THEN line[j] ELSE line[j + 1]]
    /\ hurt' = hurt \cup {MessageOf(line[i])}
    /\ UNCHANGED <<sent, got, reading, receiver, pkt, own, asked, done>>

\* The reader's channel is closed, with what it has read and what is to come.
\* The reader, and its packet, stay.
Close ==
    /\ ~reading
    /\ line # << >>
    /\ line' = << >> /\ got' = 0
    /\ hurt' = hurt \cup {MessageOf(line[j]) : j \in 1 .. Len(line)}
    /\ UNCHANGED <<sent, reading, receiver, pkt, own, asked, done>>

\* Nobody sends, and nothing arrives: the line may be silent for good.
Silence == ~reading /\ UNCHANGED vars

-----------------------------------------------------------------------------
(* The reader: manchester_do_read, one action for each pass of its loop.    *)
(* Once it has begun, nothing else is read or closed until it is done.      *)

\* n bytes arrive.
Read(n) ==
    /\ ~reading
    /\ got + n <= Len(line)
    /\ got' = got + n
    /\ reading' = TRUE
    /\ UNCHANGED <<sent, line, receiver, pkt, hurt, own, asked, done>>

\* Mutant: the bytes are gone, and counted still.
BugConsume(n) ==
    /\ line' = SubSeq(line, n + 1, Len(line))
    /\ got' = got

\* The first n bytes are consumed.
Consume(n) ==
    /\ line' = SubSeq(line, n + 1, Len(line))
    /\ got' = got - n

\* Mutant: a byte that cannot start a message takes the next two with it.
BugUnexpected == 3

\* How many bytes are dropped for one that cannot start a message.
Unexpected == 1

UnexpectedByte ==
    /\ reading /\ got >= SIZE_MSG
    /\ Byte(line[1]) < FLAG
    /\ Consume(Unexpected)
    /\ UNCHANGED <<sent, reading, receiver, pkt, hurt, own, asked, done>>

\* Mutant: the packet for another receiver is not given to the writers first.
BugOtherReceiver(r) == FALSE

\* The packet so far is for another receiver.
OtherReceiver(r) == receiver # r

\* The packet is given to the writers; for receiver 0 it is dropped there.
Given == IF receiver = 0 THEN done
         ELSE Append(done, [receiver |-> receiver, pkt |-> pkt])

manchester_decode_packet ==
    LET b == [j \in 1 .. SIZE_MSG |-> Byte(line[j])]
        r == decode_receiver(b)
    IN /\ reading /\ got >= SIZE_MSG
       /\ Byte(line[1]) >= FLAG
       /\ IF OtherReceiver(r)
          THEN done' = Given /\ pkt' = decode_packet(Cleared, b)
          ELSE done' = done /\ pkt' = decode_packet(pkt, b)
       /\ receiver' = r
       /\ Consume(SIZE_MSG)
       /\ own' = own \cup {k \in 1 .. Len(sent) : BytesOf(k) = {line[j] : j \in 1 .. SIZE_MSG}}
       /\ UNCHANGED <<sent, reading, hurt, asked>>

\* The loop is done.  A packet is not processed with part of a message after it.
Done ==
    /\ reading /\ got < SIZE_MSG
    /\ reading' = FALSE
    /\ IF got = 0 THEN done' = Given /\ receiver' = 0 /\ pkt' = Cleared
                  ELSE UNCHANGED <<done, receiver, pkt>>
    /\ UNCHANGED <<sent, line, got, hurt, own, asked>>

Next == \/ \E r \in Receivers, p \in Packets : Send(r, p)
        \/ \E i \in 1 .. Len(line) : Lose(i)
        \/ \E n \in 1 .. Len(line) : Read(n)
        \/ UnexpectedByte
        \/ manchester_decode_packet
        \/ Done
        \/ Close
        \/ Silence

Spec == Init /\ [][Next]_vars

-----------------------------------------------------------------------------
(* Properties.                                                              *)

\* Everything has its type.
TypeOK ==
    /\ sent \in Seq(Messages)
    /\ line \in Seq(0 .. SIZE_MSG * Len(sent) - 1)
    /\ got \in 0 .. Len(line)
    /\ reading \in BOOLEAN
    /\ receiver \in 0 .. MANCHESTER_MAX_ADDRESS
    /\ hurt \subseteq 1 .. Len(sent) /\ own \subseteq 1 .. Len(sent)

\* A lost byte spoils the message it belongs to and at most the one after it:
\* a message that lost nothing, after one that lost nothing, stays on the line
\* whole until it is decoded from its own bytes, wherever the reader stood when
\* it came, and however the bytes are split over reads
\* (manchester_read_message, manchester_do_read).
Resync ==
    \A k \in 1 .. Len(sent) :
        k \notin hurt /\ (k > 1 => k - 1 \notin hurt) =>
            \/ k \in own
            \/ \A i \in BytesOf(k) : \E j \in 1 .. Len(line) : line[j] = i

\* What the properties compare: the mode of a group, and its speed or number.
Mode(p, g) == IF g = "preset" THEN ccpacket_get_preset_mode(p) ELSE Get(p, g)

Value(p, g) == CASE g = "pan"    -> p.pan
                 [] g = "tilt"   -> p.tilt
                 [] g = "preset" -> p.preset
                 [] OTHER        -> 0

\* What the protocol has a code for.
Carried(p, g) ==
    CASE g \in {"pan", "tilt"}     -> Value(p, g) # 0 /\ Mode(p, g) # {"pan_auto"}
      [] g \in {"zoom", "camera"}  -> TRUE
      [] g = "focus"               -> Mode(p, g) # {"focus_auto"}
      [] g = "iris"                -> Mode(p, g) # {"iris_auto"}
      [] g = "wiper"               -> Mode(p, g) = {"wiper_on"} /\ Mode(p, "camera") = {}
      [] g = "preset"              -> Mode(p, g) # {"preset_clear"} /\ Value(p, g) <= 8
      [] OTHER                     -> FALSE

\* Speeds are carried as the next level up.
Rounded(s) == CHOOSE l \in Codes(SPEED) :
                  l >= s /\ \A k \in Codes(SPEED) : k >= s => k >= l

\* Packet d gives what packet a asks of group g.
Gives(d, a, g) ==
    /\ Mode(d, g) = Mode(a, g)
    /\ Value(d, g) = IF g \in {"pan", "tilt"} THEN Rounded(Value(a, g)) ELSE Value(a, g)

\* The packets asked, and those given, with a mode for group g of camera r.
AskedFor(r, g) == {k \in 1 .. Len(asked) : /\ asked[k].receiver = r
                                          /\ Mode(asked[k].pkt, g) # {}
                                          /\ Carried(asked[k].pkt, g)}

DoneFor(r, g) == {j \in 1 .. Len(done) : /\ done[j].receiver = r
                                        /\ Mode(done[j].pkt, g) # {}}

\* On a line that loses nothing, each camera is given what was asked of it, in
\* the order in which it was asked, and nothing else: in particular nothing
\* that was asked of the camera before it in the same read
\* (manchester_decode_packet).
GivenInOrder ==
    hurt = {} =>
        /\ \A j \in 1 .. Len(done) : done[j].receiver \in Receivers
        /\ \A r \in Receivers, g \in Groups :
              \E f \in [DoneFor(r, g) -> AskedFor(r, g)] :
                  /\ \A i, j \in DoneFor(r, g) : i < j => f[i] < f[j]
                  /\ \A j \in DoneFor(r, g) : Gives(done[j].pkt, asked[f[j]].pkt, g)

\* And once all of it has been read, the newest command of every group that
\* the protocol can carry has been given to its camera, with its speed rounded
\* up to a level: what is merged into one packet, and what is split over two
\* reads, is not lost (manchester_do_write, manchester_do_read).
NewestGiven ==
    hurt = {} /\ line = << >> /\ ~reading =>
        \A r \in Receivers, g \in Groups :
            \A k \in AskedFor(r, g) :
                (\A i \in AskedFor(r, g) : i <= k) =>
                    \E j \in DoneFor(r, g) : /\ \A i \in DoneFor(r, g) : i <= j
                                            /\ Gives(done[j].pkt, asked[k].pkt, g)
==============================================================================
