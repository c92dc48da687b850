-------------------------------- MODULE Vicon --------------------------------
(****************************************************************************)
(* vicon.c: the codec of the Vicon protocol.  A packet becomes one message, *)
(* of six octets, or of ten when it has speeds, the wiper or a high preset. *)
(* Only the first octet of a message has its highest bit set; there is no   *)
(* checksum.  A message of two octets, a status, is none of ours.           *)
(****************************************************************************)
EXTENDS Packet, BitArray

VICON_MAX_ADDRESS == 255
VICON_PRESET_MENU_OPEN == 94

VICON_FLAG == 128
SIZE_STATUS == 2
SIZE_COMMAND == 6
SIZE_EXTENDED == 10

\* enum vicon_bit_t, those that are used; the wiper is BIT_AUX_6.
VICON_BIT == [command |-> 12, ack_alarm |-> 13, extended |-> 14, iris_auto |-> 17,
        pan_auto |-> 18, tilt_down |-> 19, tilt_up |-> 20, pan_right |-> 21,
        pan_left |-> 22, lens_speed |-> 24, iris_close |-> 25, iris_open |-> 26,
        focus_near |-> 27, focus_far |-> 28, zoom_in |-> 29, zoom_out |-> 30,
        wiper_on |-> 33, preset_recall |-> 45, preset_store |-> 46,
        ex_store |-> 48, ex_status |-> 49, ex_request |-> 52]

is_set(m, f) == bit_is_set(m, VICON_BIT[f])

-----------------------------------------------------------------------------
(* The message of a packet.                                                 *)

encode_receiver(r) == <<VICON_FLAG + ((r \div 16) % 16), r % 16>>

\* The functions that are encoded for the modes of a packet.
encode_pan_tilt(p) ==
    (IF ccpacket_has_pan(p) THEN Get(p, "pan") \cap {"pan_left", "pan_right"} ELSE {})
    \cup (IF ccpacket_has_tilt(p) THEN Get(p, "tilt") ELSE {})

vicon_encode_lens(p) == (Get(p, "iris") \cup Get(p, "focus") \cup Get(p, "zoom"))
                      \ {"iris_auto", "focus_auto"}

encode_toggles(p) ==
    Get(p, "ack") \cup Get(p, "lens")
    \cup (Get(p, "iris") \cap {"iris_auto"}) \cup (Get(p, "pan") \cap {"pan_auto"})

encode_aux(p) == Get(p, "wiper") \cap {"wiper_on"}

vicon_encode_preset(p) == ccpacket_get_preset_mode(p) \ {"preset_clear"}

\* A message of n octets with these functions, and with octets of its own added.
vicon_message(n, r, fs, added) ==
    [j \in 0 .. n - 1 |->
        IF j = 0 THEN encode_receiver(r)[1]
        ELSE Octet({VICON_BIT[f] : f \in fs}, j)
             + (IF j = 1 THEN encode_receiver(r)[2]
                ELSE IF j \in DOMAIN added THEN added[j] ELSE 0)]

Octets5(p) == [j \in {5} |-> p.preset % 16]

vicon_encode_command(r, p) ==
    vicon_message(SIZE_COMMAND, r,
            {"command"} \cup encode_pan_tilt(p) \cup vicon_encode_lens(p) \cup encode_toggles(p)
                \cup encode_aux(p) \cup vicon_encode_preset(p),
            Octets5(p))

\* Mutant: the low octet of a speed takes eight bits.
BugSpeeds(p) ==
    [j \in 6 .. 9 |-> CASE j = 6 -> (p.pan \div 256) % 8
                        [] j = 7 -> p.pan % 256
                        [] j = 8 -> (p.tilt \div 256) % 8
                        [] j = 9 -> p.tilt % 256]

\* Eleven bits of each speed, four and seven to an octet.
encode_speeds(p) ==
    [j \in 6 .. 9 |-> CASE j = 6 -> (p.pan \div 128) % 16
                        [] j = 7 -> p.pan % 128
                        [] j = 8 -> (p.tilt \div 128) % 16
                        [] j = 9 -> p.tilt % 128]

encode_extended_speed(r, p) ==
    vicon_message(SIZE_EXTENDED, r,
            {"command", "extended"} \cup encode_pan_tilt(p) \cup vicon_encode_lens(p)
                \cup encode_toggles(p) \cup encode_aux(p) \cup vicon_encode_preset(p),
            [j \in 5 .. 9 |-> IF j = 5 THEN p.preset % 16 ELSE encode_speeds(p)[j]])

encode_extended_preset(r, p) ==
    vicon_message(SIZE_EXTENDED, r,
            {"command", "extended", "ex_request"} \cup vicon_encode_lens(p)
                \cup encode_toggles(p) \cup encode_aux(p)
                \cup (IF ccpacket_get_preset_mode(p) = {"preset_store"}
                      THEN {"ex_store"} ELSE {}),
            [j \in 7 .. 9 |-> <<p.preset, p.pan, p.tilt>>[j - 6] % 128])

is_extended_preset(p) ==
    /\ ccpacket_get_preset_mode(p) \in {{"preset_recall"}, {"preset_store"}}
    /\ p.preset > 15 \/ p.pan # 0 \/ p.tilt # 0

is_extended_speed(p) ==
    ccpacket_has_pan(p) \/ ccpacket_has_tilt(p) \/ Get(p, "wiper") # {}

vicon_adjust_menu_commands(p) ==
    CASE Get(p, "menu") = {"menu_open"} ->
            ccpacket_set_preset(p, {"preset_store"}, VICON_PRESET_MENU_OPEN)
      [] Get(p, "menu") = {"menu_enter"}  -> ccpacket_set_pan(p, {"pan_auto"}, 0)
      [] Get(p, "menu") = {"menu_cancel"} -> Set(p, "iris", {"iris_auto"})
      [] OTHER -> p

vicon_do_write(r, p) ==
    LET q == vicon_adjust_menu_commands(p)
    IN IF r \notin 1 .. VICON_MAX_ADDRESS THEN << >>
       ELSE << IF is_extended_preset(q) THEN encode_extended_preset(r, q)
               ELSE IF is_extended_speed(q) THEN encode_extended_speed(r, q)
               ELSE vicon_encode_command(r, q) >>

-----------------------------------------------------------------------------
(* The packet of a message.                                                 *)

is_command(m)          == is_set(m, "command")
is_extended_command(m) == is_set(m, "command") /\ is_set(m, "extended")

decode_receiver(m) == 16 * (m[0] % 16) + (m[1] % 16)

vicon_decode_pan(p, m) ==
    IF is_set(m, "pan_right")     THEN ccpacket_set_pan(p, {"pan_right"}, SPEED_MAX)
    ELSE IF is_set(m, "pan_left") THEN ccpacket_set_pan(p, {"pan_left"}, SPEED_MAX)
    ELSE ccpacket_set_pan(p, {"pan_left"}, 0)

vicon_decode_tilt(p, m) ==
    IF is_set(m, "tilt_up")        THEN ccpacket_set_tilt(p, {"tilt_up"}, SPEED_MAX)
    ELSE IF is_set(m, "tilt_down") THEN ccpacket_set_tilt(p, {"tilt_down"}, SPEED_MAX)
    ELSE ccpacket_set_tilt(p, {"tilt_down"}, 0)

\* Function f of group g, if its bit is set, or else h if that is.
SetEither(p, m, g, f, h) == IF is_set(m, f) THEN Set(p, g, {f})
                        ELSE IF is_set(m, h) THEN Set(p, g, {h}) ELSE p

vicon_decode_lens(p, m) ==
    SetEither(SetEither(SetEither(p, m, "iris", "iris_open", "iris_close"),
                m, "focus", "focus_near", "focus_far"),
          m, "zoom", "zoom_in", "zoom_out")

decode_toggles(p, m) ==
    LET q == SetEither(SetEither(p, m, "ack", "ack_alarm", "ack_alarm"),
                   m, "iris", "iris_auto", "iris_auto")
        a == IF is_set(m, "pan_auto") THEN ccpacket_set_pan(q, {"pan_auto"}, 0) ELSE q
    IN SetEither(a, m, "lens", "lens_speed", "lens_speed")

decode_aux(p, m) == SetEither(p, m, "wiper", "wiper_on", "wiper_on")

decode_preset(p, m) ==
    IF is_set(m, "preset_recall")
    THEN ccpacket_set_preset(p, {"preset_recall"}, m[5] % 16)
    ELSE IF is_set(m, "preset_store")
    THEN ccpacket_set_preset(p, {"preset_store"}, m[5] % 16) ELSE p

set_speeds(p, pan, tilt) == [p EXCEPT !.pan = clamp_speed(pan), !.tilt = tilt]

decode_ex_speed(p, m) ==
    set_speeds(p, (128 * (m[6] % 16)) + (m[7] % 128), (128 * (m[8] % 16)) + (m[9] % 128))

decode_ex_preset(p, m) ==
    LET f == IF is_set(m, "ex_store") THEN {"preset_store"} ELSE {"preset_recall"}
    IN set_speeds(ccpacket_set_preset(p, f, m[7] % 128), m[8] % 128, m[9] % 128)

\* What vicon_decode_command, and the first half of vicon_decode_extended, do.
decode_functions(m) ==
    decode_preset(decode_aux(decode_toggles(vicon_decode_lens(vicon_decode_tilt(
        vicon_decode_pan(Cleared, m), m), m), m), m), m)

\* The packet the reader gives its writers, which was cleared before.
vicon_decode(m) ==
    LET p == decode_functions(m)
    IN [receiver |-> decode_receiver(m),
        pkt |-> IF ~is_extended_command(m)   THEN p
                ELSE IF ~is_set(m, "ex_request") THEN decode_ex_speed(p, m)
                ELSE IF is_set(m, "ex_status")   THEN p
                ELSE decode_ex_preset(p, m)]
==============================================================================
