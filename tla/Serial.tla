-------------------------------- MODULE Serial --------------------------------
(****************************************************************************)
(* A writer of one of the framed protocols, a line, and a reader that finds *)
(* the messages in what arrives: pelco_d.c, pelco_p.c, vicon.c and          *)
(* infinova.c, whose messages are those of pelco_d.c under headers.         *)
(*                                                                          *)
(* Bytes are numbered as they were written.  The line is the writer's       *)
(* buffer, the cable and the reader's buffer together: the numbers of the   *)
(* bytes that are in any of them.  It may lose a burst of bytes, and may be *)
(* closed, which empties it.                                                *)
(****************************************************************************)
EXTENDS Pelco, Vicon

CONSTANTS
    Protocols,  \* the protocols the line is configured for
    Receivers,  \* the receivers the writer is given packets for
    Packets,    \* the packets it is given
    Bursts,     \* how many bytes may be lost at once
    Reads,      \* how many bytes may arrive at once, if not all of them
    MaxAsked,   \* bound: packets encoded
    MaxOctets,  \* bound: octets of messages written
    MaxLosses,  \* bound: bursts lost, and closes
    MaxCuts     \* bound: reads cut short

ASSUME SerialAssumption ==
    /\ Protocols \subseteq {"pelco_d", "pelco_p", "pelco_p7", "vicon", "infinova_d"}
    /\ Receivers \subseteq Nat
    /\ Packets \subseteq [flags : SUBSET UNION {CC[g] : g \in Groups},
                          pan : 0 .. SPEED_MAX, tilt : 0 .. SPEED_MAX, preset : Nat]
    /\ SPEED_MAX = 2047
    \* Nothing leaves a menu mode in a packet, or a speed without a direction.
    /\ \A p \in Packets : /\ Get(p, "menu") = {}
                          /\ p.pan # 0 => Get(p, "pan") # {}
                          /\ p.tilt # 0 => Get(p, "tilt") # {}
    /\ Bursts \subseteq Nat \ {0} /\ Reads \subseteq Nat
    /\ MaxAsked \in Nat /\ MaxOctets \in Nat /\ MaxLosses \in Nat /\ MaxCuts \in Nat

BUFFER_SIZE == 256  \* channel.c
HEADER_SZ == 12
AUTH_SZ == 64
MSG_ID_AUTH == 1
MSG_ID_PTZ == 19

VARIABLES
    proto,    \* the protocol, from the configuration
    open,     \* the line is open
    bytes,    \* history: the bytes written, which gives them their values
    line,     \* the bytes not lost, and not consumed by the reader
    got,      \* how many of them are in the reader's buffer
    reading,  \* the reader is in its loop
    fresh,    \* history: how many bytes were written before the last close
    sent,     \* history: where in bytes each message is
    hurt,     \* history: the bytes lost
    losses,   \* history: how often bytes were lost
    cuts,     \* history: how often a read brought less than all
    own,      \* history: the messages decoded from their own bytes
    refused,  \* history: something did not fit in the writer's buffer
    asked,    \* history: the packets the writer encoded
    done      \* history: the packets the reader gave to its writers

reader_vars == <<proto, open, bytes, fresh, sent, hurt, losses, refused, asked>>
vars == <<proto, open, bytes, line, got, reading, fresh, sent, hurt, losses, cuts, own,
          refused, asked, done>>

\* The codec the reader has; the dead zone is a flag of "pelco_p7".
Codec == CASE proto \in {"pelco_d", "infinova_d"} -> "pelco_d"
           [] proto \in {"pelco_p", "pelco_p7"}   -> "pelco_p"
           [] OTHER                               -> "vicon"

Deadzone == proto = "pelco_p7"

Init ==
    /\ proto \in Protocols /\ open = FALSE
    /\ bytes = << >> /\ line = << >> /\ got = 0 /\ reading = FALSE
    /\ fresh = 0 /\ sent = << >> /\ hurt = {} /\ losses = 0 /\ cuts = 0 /\ own = {} /\ refused = FALSE
    /\ asked = << >> /\ done = << >>

-----------------------------------------------------------------------------
(* The writer.  It appends piece after piece; some pieces are appended only *)
(* when the one before was, and some are messages.                          *)

Piece(octets, n, needs, message) ==
    [octets |-> [j \in 1 .. n |-> octets[j - 1]], needs |-> needs, message |-> message]

header(id, n) ==
    Piece([j \in 0 .. HEADER_SZ - 1 |->
              CASE j = 0 -> 73 [] j = 1 -> 78 [] j = 2 -> 70 [] j = 3 -> id
                [] j \in {5, 7} /\ id = MSG_ID_AUTH -> 1
                [] j = 11 -> n
                [] OTHER -> 0], HEADER_SZ, FALSE, FALSE)

infinova_authenticate ==
    << header(MSG_ID_AUTH, AUTH_SZ),
       Piece([j \in 0 .. AUTH_SZ + 1 |-> 0], AUTH_SZ + 2, TRUE, FALSE) >>

infinova_d_header ==
    << header(MSG_ID_PTZ, HEADER_SZ + SIZE.pelco_d),
       Piece([j \in 0 .. HEADER_SZ - 1 |->
                 CASE j = 0 -> 1 [] j = 7 -> SIZE.pelco_d [] OTHER -> 0],
             HEADER_SZ, TRUE, FALSE) >>

\* The messages of a packet for receiver r, in codec c.
Encoded(c, r, p) ==
    IF c = "vicon"
    THEN LET ms == vicon_do_write(r, p)
             n(m) == IF is_extended_command(m) THEN SIZE_EXTENDED ELSE SIZE_COMMAND
         IN [k \in 1 .. Len(ms) |-> Piece(ms[k], n(ms[k]), FALSE, TRUE)]
    ELSE LET ms == do_write(c, r, p)
         IN [k \in 1 .. Len(ms) |-> Piece(ms[k], SIZE[c], FALSE, TRUE)]

\* What the writer may be asked for in each codec: a packet for a receiver, with
\* its messages.
Jobs ==
    [c \in {"pelco_d", "pelco_p", "vicon"} |->
        {[receiver |-> r, pkt |-> p, messages |-> Encoded(c, r, p)] :
            r \in Receivers, p \in Packets}]

\* The number of octets in those and the messages written.
TotalOctets(ms) ==
    LET n == Len(sent)
        upto[k \in 0 .. n + Len(ms)] ==
            IF k = 0 THEN 0
            ELSE upto[k - 1] + (IF k <= n THEN sent[k].last + 1 - sent[k].first
                                          ELSE Len(ms[k - n].octets))
    IN upto[n + Len(ms)]

\* For a channel that is not open, yet.
Authentication == IF open THEN << >> ELSE infinova_authenticate

\* The pieces of these messages.
Pieces(ms) ==
    LET framed(k) == infinova_d_header \o <<[ms[k] EXCEPT !.needs = TRUE]>>
    IN IF proto # "infinova_d" THEN ms
       ELSE Authentication
            \o [i \in 1 .. 3 * Len(ms) |-> framed(((i - 1) \div 3) + 1)[((i - 1) % 3) + 1]]

\* Mutant: a piece is appended though the header before it was not.
BugAppended(ps, room) ==
    LET after[k \in 0 .. Len(ps)] ==
            IF k = 0 THEN [room |-> room, kept |-> << >>]
            ELSE LET b == after[k - 1]  n == Len(ps[k].octets)
                 IN IF n <= b.room
                    THEN [room |-> b.room - n, kept |-> Append(b.kept, ps[k])]
                    ELSE b
    IN after[Len(ps)].kept

\* The pieces that are appended (ccwriter_append) when there is room for so many
\* bytes: each that fits, and whose header, if it needs one, did.
Appended(ps, room) ==
    LET after[k \in 0 .. Len(ps)] ==
            IF k = 0 THEN [room |-> room, kept |-> << >>, last |-> TRUE]
            ELSE LET b == after[k - 1]  n == Len(ps[k].octets)
                 IN IF n <= b.room /\ (ps[k].needs => b.last)
                    THEN [room |-> b.room - n, kept |-> Append(b.kept, ps[k]), last |-> TRUE]
                    ELSE [b EXCEPT !.last = FALSE]
    IN after[Len(ps)].kept

\* One piece is written.
With(w, piece) ==
    LET n == Len(w.bytes)
    IN [bytes |-> w.bytes \o piece.octets,
        sent  |-> IF piece.message
                  THEN Append(w.sent, [first |-> n + 1, last |-> n + Len(piece.octets)])
                  ELSE w.sent]

\* The bytes, and the messages in them, after these pieces.
Written(ps) ==
    LET after[k \in 0 .. Len(ps)] ==
            IF k = 0 THEN [bytes |-> bytes, sent |-> sent] ELSE With(after[k - 1], ps[k])
    IN after[Len(ps)]

\* A packet is written when so many bytes are still in the writer's buffer.
Send(job, queued) ==
    LET ps   == Pieces(job.messages)
        kept == Appended(ps, BUFFER_SIZE - queued)
        w    == Written(kept)
    IN /\ ~reading
       /\ Len(asked) < MaxAsked /\ TotalOctets(job.messages) <= MaxOctets
       /\ queued <= BUFFER_SIZE
       /\ open \/ queued = Len(line)
       /\ bytes' = w.bytes /\ sent' = w.sent
       /\ line' = line \o [j \in 1 .. Len(w.bytes) - Len(bytes) |-> Len(bytes) + j]
       /\ refused' = (refused \/ Len(kept) < Len(ps))
       /\ asked' = Append(asked, [receiver |-> job.receiver, pkt |-> job.pkt])
       /\ UNCHANGED <<proto, open, got, reading, fresh, hurt, losses, cuts, own, done>>

-----------------------------------------------------------------------------
(* The line.                                                                *)

\* The poller opens the channel that has something to write.
Open ==
    /\ ~open /\ ~reading /\ line # << >>
    /\ open' = TRUE
    /\ UNCHANGED <<proto, bytes, line, got, reading, fresh, sent, hurt, losses, cuts, own,
                   refused, asked, done>>

\* n bytes on their way are lost; over TCP none are.
Lose(i, n) ==
    /\ ~reading /\ proto # "infinova_d" /\ losses < MaxLosses
    /\ i > got /\ i + n - 1 <= Len(line)
    /\ line' = [j \in 1 .. Len(line) - n |-> IF j < i THEN line[j] ELSE line[j + n]]
    /\ hurt' = hurt \cup {line[j] : j \in i .. i + n - 1}
    /\ losses' = losses + 1
    /\ UNCHANGED <<proto, open, bytes, got, reading, fresh, sent, cuts, own, refused,
                   asked, done>>

\* Both ends are closed, with what they hold.
Close ==
    /\ open /\ ~reading /\ losses < MaxLosses
    /\ open' = FALSE
    /\ line' = << >> /\ got' = 0 /\ fresh' = Len(bytes)
    /\ hurt' = hurt \cup {line[j] : j \in 1 .. Len(line)}
    /\ losses' = losses + 1
    /\ UNCHANGED <<proto, bytes, reading, sent, cuts, own, refused, asked, done>>

\* Nobody sends, and nothing arrives: the line may be silent for good.
Silence == ~reading /\ UNCHANGED vars

-----------------------------------------------------------------------------
(* The reader, one action for each pass of its loop.  The loop sees nothing *)
(* but the bytes it has got: what else may happen waits until it is done.   *)

\* n bytes arrive.
Read(n) ==
    /\ open /\ ~reading
    /\ n > 0 /\ got + n <= Len(line)
    /\ IF got + n = Len(line) THEN cuts' = cuts
                              ELSE cuts < MaxCuts /\ cuts' = cuts + 1
    /\ got' = got + n
    /\ reading' = TRUE
    /\ UNCHANGED <<line, own, done>> /\ UNCHANGED reader_vars

\* The first n bytes in the buffer, and the octet of the first.
Message(n) == [j \in 0 .. n - 1 |-> bytes[line[j + 1]]]
FirstOctet == bytes[line[1]]

\* Mutant: the bytes are gone, and counted still.
BugConsume(n) ==
    /\ line' = SubSeq(line, n + 1, Len(line))
    /\ got' = got

Consume(n) ==
    /\ line' = SubSeq(line, n + 1, Len(line))
    /\ got' = got - n

\* So many bytes are dropped.
Drop(n) == Consume(n) /\ UNCHANGED <<reading, cuts, own, done>> /\ UNCHANGED reader_vars

\* A message of n bytes is decoded, and its packet given to the writers.
Give(n, packet) ==
    /\ Consume(n)
    /\ own' = own \cup {k \in 1 .. Len(sent) :
                           /\ sent[k].last = sent[k].first + n - 1
                           /\ \A j \in 1 .. n : line[j] = sent[k].first + j - 1}
    /\ done' = Append(done, packet)
    /\ UNCHANGED <<reading, cuts>> /\ UNCHANGED reader_vars

\* The bytes in the buffer at which a message may start, but for the first.
Starts == {j \in 2 .. got : bytes[line[j]] = START[Codec]}

\* Mutant: a whole message's bytes are dropped.
BugGarbage == SIZE[Codec]

\* How many bytes pelco_discard_garbage drops: up to the next start, or all.
Garbage == IF Starts = {} THEN got
           ELSE CHOOSE n \in 1 .. got : n + 1 \in Starts /\ \A j \in Starts : n < j

pelco_reads == reading /\ Codec # "vicon" /\ got >= SIZE[Codec]

pelco_discard_garbage ==
    /\ pelco_reads
    /\ ~IsFrame(Codec, Message(SIZE[Codec]))
    /\ Drop(Garbage)

pelco_decode_message ==
    /\ pelco_reads
    /\ IsFrame(Codec, Message(SIZE[Codec]))
    /\ Give(SIZE[Codec], decode(Codec, Deadzone, Message(SIZE[Codec])))

vicon_reads == reading /\ Codec = "vicon" /\ got >= SIZE_STATUS

vicon_unexpected_byte ==
    /\ vicon_reads
    /\ FirstOctet < VICON_FLAG
    /\ Drop(1)

vicon_decode_status ==
    /\ vicon_reads
    /\ FirstOctet >= VICON_FLAG /\ ~is_command(Message(SIZE_STATUS))
    /\ Drop(SIZE_STATUS)

\* The size of the command that begins the buffer.
CommandSize == IF is_extended_command(Message(SIZE_STATUS))
               THEN SIZE_EXTENDED ELSE SIZE_COMMAND

ViconCommand == FirstOctet >= VICON_FLAG /\ is_command(Message(SIZE_STATUS))

vicon_decode_command ==
    /\ vicon_reads
    /\ ViconCommand /\ got >= CommandSize
    /\ Give(CommandSize, vicon_decode(Message(CommandSize)))

\* The loop is done: what is left is less than a message.
Done ==
    /\ reading
    /\ IF Codec # "vicon" THEN got < SIZE[Codec]
       ELSE \/ got < SIZE_STATUS
            \/ got >= SIZE_STATUS /\ ViconCommand /\ got < CommandSize
    /\ reading' = FALSE
    /\ UNCHANGED <<line, got, cuts, own, done>> /\ UNCHANGED reader_vars

Next == \/ \E job \in Jobs[Codec], n \in {0, Len(line) - got} : Send(job, n)
        \/ Open
        \/ \E i \in 1 .. Len(line), n \in Bursts : Lose(i, n)
        \/ \E n \in Reads \cup {Len(line) - got} : Read(n)
        \/ pelco_discard_garbage
        \/ pelco_decode_message
        \/ vicon_unexpected_byte
        \/ vicon_decode_status
        \/ vicon_decode_command
        \/ Done
        \/ Close
        \/ Silence

Spec == Init /\ [][Next]_vars

-----------------------------------------------------------------------------
(* Properties.                                                              *)

\* Everything has its type.
TypeOK ==
    /\ proto \in Protocols /\ open \in BOOLEAN
    /\ bytes \in Seq(0 .. 255)
    /\ line \in Seq(1 .. Len(bytes))
    /\ got \in 0 .. Len(line)
    /\ reading \in BOOLEAN
    /\ fresh \in 0 .. Len(bytes)
    /\ sent \in Seq([first : 1 .. Len(bytes), last : 1 .. Len(bytes)])
    /\ hurt \subseteq 1 .. Len(bytes)
    /\ own \subseteq 1 .. Len(sent)

IsStart(v) == IF Codec = "vicon" THEN v >= VICON_FLAG ELSE v = START[Codec]

MaxSize == IF Codec = "vicon" THEN SIZE_EXTENDED ELSE SIZE[Codec]

\* The bytes before message k that one message could reach over.
Before(k) == {i \in 1 .. sent[k].first - 1 : i > sent[k].first - MaxSize}

Own(k) == sent[k].first .. sent[k].last

\* A burst of lost bytes spoils no more than a message's length behind it: a
\* message that lost nothing, when the bytes before it that are within one
\* message's reach lost nothing either and hold no start octet but where a
\* message starts, stays on the line whole until it is decoded from its own
\* bytes, however the bytes are split over reads and whatever was taken for a
\* message before (pelco_discard_garbage, vicon_decode_message).
Resync ==
    \A k \in 1 .. Len(sent) :
        /\ (Before(k) \cup Own(k)) \cap hurt = {}
        /\ \A i \in Before(k) : IsStart(bytes[i]) => \E m \in 1 .. Len(sent) : sent[m].first = i
        => \/ k \in own
           \/ \A i \in Own(k) : \E j \in 1 .. Len(line) : line[j] = i

\* What the connection to a camera of Infinova starts with, and what each
\* message in it has before it, whatever did not fit in the buffer: the
\* authentication, and the two headers (infinova_d_do_write).
Framed ==
    proto = "infinova_d" =>
        /\ Len(bytes) > fresh =>
              LET ps == infinova_authenticate
              IN SubSeq(bytes, fresh + 1, fresh + HEADER_SZ + AUTH_SZ + 2)
                 = ps[1].octets \o ps[2].octets
        /\ \A k \in 1 .. Len(sent) :
              LET ps == infinova_d_header
              IN SubSeq(bytes, sent[k].first - (2 * HEADER_SZ), sent[k].first - 1)
                 = ps[1].octets \o ps[2].octets

-----------------------------------------------------------------------------
(* What arrives.  An entry is what is asked of one function of the camera:  *)
(* a mode, with its speed or number.                                        *)

Still == <<{}, 0>>

Motion(modes, s) == IF modes = {"pan_auto"} THEN <<modes, 0>>
                    ELSE IF modes = {} \/ s = 0 THEN Still ELSE <<modes, s>>

Entry(p, g) ==
    CASE g = "pan"    -> Motion(Get(p, g), p.pan)
      [] g = "tilt"   -> Motion(Get(p, g), p.tilt)
      [] g = "preset" -> <<ccpacket_get_preset_mode(p), p.preset>>
      [] OTHER        -> <<Get(p, g), 0>>

\* In Pelco D the bit for an automatic pan turns the camera's power on.
Masked(p) == /\ Codec = "pelco_d"
             /\ Get(p, "camera") = {"camera_off"} /\ Get(p, "pan") = {"pan_auto"}

\* The number of a preset, in the bits that the protocol has for it.  The reader
\* drops a preset of number 0, and one to store whose number stands for the menu.
Number(p) == p.preset % (IF Codec = "vicon" THEN 128 ELSE 256)

Numbered(p) == Number(p) # 0 /\ ~IsMenuPreset(p.flags, Number(p))

\* What the protocol has a message for.  Every message but for a preset or the
\* wiper says how to move.
Carried(p, g) ==
    LET m == Entry(p, g)[1]
    IN IF Codec = "vicon"
       THEN CASE g \in {"pan", "tilt"} -> TRUE
              [] g = "preset" -> m \notin {{}, {"preset_clear"}} /\ Numbered(p)
              [] g = "wiper"  -> m = {"wiper_on"}
              [] g = "camera" -> FALSE
              [] OTHER        -> m \notin {{}, {"focus_auto"}}
       ELSE CASE g \in {"pan", "tilt"} -> Commands(p)
              [] g = "preset" -> m # {} /\ Numbered(p)
              [] g = "camera" -> m # {} /\ ~Masked(p)
              [] g \in {"ack", "lens"} -> FALSE
              [] OTHER        -> m \notin {{}, {"focus_auto"}, {"iris_auto"}}

\* The speeds asked and given are as close as the protocol's levels; the dead
\* zone of the reader swallows the lowest.
Near(a, d) ==
    IF Codec = "vicon" THEN d = a
    ELSE d <= a + 16 /\ a <= d + (IF Deadzone THEN 224 ELSE 32)

\* A speed below the lowest level is none.  With a preset, Vicon carries a motion
\* as part of the preset, and not as the motion that was asked.
Fulfils(p, g, d) ==
    LET a == Entry(p, g)
    IN CASE g \in {"pan", "tilt"} ->
              \/ Codec = "vicon" /\ is_extended_preset(p) /\ p.pan + p.tilt > 0
              \/ (d[1] = a[1] \/ d = Still) /\ Near(a[2], d[2])
         [] g = "preset" -> d = <<a[1], Number(p)>>
         [] OTHER -> d = a

MaxAddress == IF Codec = "vicon" THEN VICON_MAX_ADDRESS ELSE PELCO_MAX_ADDRESS

\* The packets asked, and those given, that say something of group g of camera r.
AskedFor(r, g) == {k \in 1 .. Len(asked) : asked[k].receiver = r /\ Carried(asked[k].pkt, g)}

DoneFor(r, g) == {j \in 1 .. Len(done) : done[j].receiver = r /\ Get(done[j].pkt, g) # {}}

\* On a line that loses nothing, with room for all that is written, each camera
\* is given what was asked of it, function by function, in order, once each and
\* with nothing in between; and all of it once the line has been read.  In
\* particular a message has no part of another, and what is lost, because the
\* protocol cannot say it, is what Carried leaves out.
GivenAsAsked ==
    hurt = {} /\ ~refused =>
        /\ \A j \in 1 .. Len(done) : done[j].receiver \in Receivers \cap (1 .. MaxAddress)
        /\ \A r \in Receivers \cap (1 .. MaxAddress), g \in Groups :
              \E f \in [DoneFor(r, g) -> AskedFor(r, g)] :
                  /\ \A i, j \in DoneFor(r, g) : i < j => f[i] < f[j]
                  /\ \A j \in DoneFor(r, g) :
                        Fulfils(asked[f[j]].pkt, g, Entry(done[j].pkt, g))
                  /\ \A k \in AskedFor(r, g) :
                        line = << >> \/ (\E j \in DoneFor(r, g) : k <= f[j]) =>
                            \E j \in DoneFor(r, g) : f[j] = k
==============================================================================
