-------------------------------- MODULE Pelco --------------------------------
(****************************************************************************)
(* pelco_d.c and pelco_p.c: the codecs of the two Pelco protocols, which    *)
(* are one but for the frame of a message, the places of some bits, and the *)
(* way power is switched.  d is "pelco_d" or "pelco_p", a message an array  *)
(* of octets.  A packet becomes up to three messages, each of which is      *)
(* decoded into a packet of its own.                                        *)
(****************************************************************************)
EXTENDS Packet, BitArray, Sequences

\* The pan speeds just below the highest are the turbo speed.
ASSUME PelcoAssumption == SPEED_MAX >= 8

PELCO_MAX_ADDRESS == 254
TURBO_SPEED == 64
PELCO_PRESET_MENU_OPEN == 95

SIZE  == [pelco_d |-> 7, pelco_p |-> 8]
START == [pelco_d |-> 255, pelco_p |-> 160]  \* FLAG, STX
ETX   == 175

\* enum pelco_bit_t and enum pelco_p_bit_t; "camera" is BIT_CAMERA_ON_OFF.
BIT ==
    [pelco_d |-> [focus_near |-> 16, iris_open |-> 17, iris_close |-> 18,
                  camera |-> 19, auto_pan |-> 20, sense |-> 23,
                  extended |-> 24, pan_right |-> 25, pan_left |-> 26,
                  tilt_up |-> 27, tilt_down |-> 28, zoom_in |-> 29,
                  zoom_out |-> 30, focus_far |-> 31],
     pelco_p |-> [focus_far |-> 16, focus_near |-> 17, iris_open |-> 18,
                  iris_close |-> 19, camera |-> 20, auto_pan |-> 21,
                  camera_on |-> 22, extended |-> 24, pan_right |-> 25,
                  pan_left |-> 26, tilt_up |-> 27, tilt_down |-> 28,
                  zoom_in |-> 29, zoom_out |-> 30]]

\* enum extended_t, those that are used.
EX_STORE     == 1
EX_CLEAR     == 2
EX_RECALL    == 3
EX_AUX_SET   == 4
EX_AUX_CLEAR == 5

EX_AUX_WIPER == 1

-----------------------------------------------------------------------------
(* The frame.                                                               *)

calculate_checksum(d, m) ==
    IF d = "pelco_d" THEN (m[1] + m[2] + m[3] + m[4] + m[5]) % 256 ELSE Xor(m)

\* The message with these octets between its frame.
Frame(d, r, o2, o3, o4, o5) ==
    LET m == [j \in 0 .. 6 |-> <<START[d], r, o2, o3, o4, o5, ETX>>[j + 1]]
    IN [j \in 0 .. SIZE[d] - 1 |->
            IF j = SIZE[d] - 1 THEN calculate_checksum(d, m) ELSE m[j]]

\* A message the reader accepts.
IsFrame(d, m) ==
    /\ m[0] = START[d]
    /\ d = "pelco_p" => m[6] = ETX
    /\ calculate_checksum(d, m) = m[SIZE[d] - 1]

-----------------------------------------------------------------------------
(* The messages of a packet.                                                *)

\* The nearest level, below the one above all speeds.
encode_speed(s) == LET n == (s \div 32) + ((s % 32) \div 16)
                   IN IF n < TURBO_SPEED THEN n ELSE TURBO_SPEED - 1

encode_pan_speed(s) == IF s > SPEED_MAX - 8 THEN TURBO_SPEED ELSE encode_speed(s)

\* The bits for power and for a pan that is automatic.
encode_sense(d, p) ==
    LET on   == Get(p, "camera") = {"camera_on"}
        off  == Get(p, "camera") = {"camera_off"}
        auto == Get(p, "pan") = {"pan_auto"}
        Bits(b, f) == IF b THEN {f} ELSE {}
    IN IF d = "pelco_p"
       THEN Bits(on \/ off, "camera") \cup Bits(on, "camera_on") \cup Bits(auto, "auto_pan")
       ELSE IF on \/ auto
       THEN {"sense"} \cup Bits(on, "camera") \cup Bits(auto, "auto_pan")
       ELSE Bits(off, "camera") \cup Bits(Get(p, "pan") = {"pan_manual"}, "auto_pan")

encode_command(d, r, p) ==
    LET pan   == IF ccpacket_has_pan(p) THEN Get(p, "pan") \cap {"pan_left", "pan_right"} ELSE {}
        speed == encode_speed(p.tilt)
        tilt  == IF speed # 0 THEN Get(p, "tilt") ELSE {}
        lens  == (Get(p, "iris") \cup Get(p, "focus") \cup Get(p, "zoom"))
                     \ {"iris_auto", "focus_auto"}
        bits  == {BIT[d][f] : f \in pan \cup tilt \cup lens \cup encode_sense(d, p)}
    IN Frame(d, r, Octet(bits, 2), Octet(bits, 3),
             IF ccpacket_has_pan(p) /\ pan = {} THEN 0 ELSE encode_pan_speed(p.pan),
             IF tilt = {} THEN 0 ELSE speed)

Extended(d, r, ex, n) == Frame(d, r, 0, 2 * ex + 1, 0, n)

encode_preset(d, r, p) ==
    LET pm == ccpacket_get_preset_mode(p)
    IN Extended(d, r, CASE pm = {"preset_recall"} -> EX_RECALL
                        [] pm = {"preset_store"}  -> EX_STORE
                        [] OTHER                  -> EX_CLEAR, p.preset % 256)

encode_wiper(d, r, p) ==
    Extended(d, r, IF Get(p, "wiper") = {"wiper_on"} THEN EX_AUX_SET ELSE EX_AUX_CLEAR,
             EX_AUX_WIPER)

adjust_menu_commands(p) ==
    CASE Get(p, "menu") = {"menu_open"} ->
            ccpacket_set_preset(p, {"preset_store"}, PELCO_PRESET_MENU_OPEN)
      [] Get(p, "menu") = {"menu_enter"}  -> Set(p, "iris", {"iris_open"})
      [] Get(p, "menu") = {"menu_cancel"} -> Set(p, "iris", {"iris_close"})
      [] OTHER -> p

\* The packet needs a command message.
Commands(q) == ccpacket_has_command(q) \/ ccpacket_has_autopan(q) \/ ccpacket_has_power(q)

\* pelco_d_do_write_cb and pelco_p_do_write.
do_write(d, r, p) ==
    LET q == adjust_menu_commands(p)
        If(b, m) == IF b THEN <<m>> ELSE << >>
    IN IF r \notin 1 .. PELCO_MAX_ADDRESS THEN << >>
       ELSE If(Commands(q), encode_command(d, r, q))
            \o If(ccpacket_get_preset_mode(q) # {}, encode_preset(d, r, q))
            \o If(Get(q, "wiper") # {}, encode_wiper(d, r, q))

-----------------------------------------------------------------------------
(* The packet of a message.  dz: the reader skips a dead zone (PT_DEADZONE). *)

decode_speed(dz, v) ==
    LET s == IF ~dz THEN 32 * v
             ELSE IF v >= 7 THEN ((v - 6) * SPEED_MAX) \div 58
             ELSE 0
    IN IF s > SPEED_MAX THEN SPEED_MAX ELSE s

\* The first of the functions whose bit is set, if any.
First(d, m, fs) ==
    LET on == {i \in 1 .. Len(fs) : bit_is_set(m, BIT[d][fs[i]])}
    IN IF on = {} THEN {} ELSE {fs[CHOOSE i \in on : \A j \in on : i <= j]}

decode_pan(d, dz, p, m) ==
    LET f == First(d, m, <<"pan_right", "pan_left">>)
    IN IF f = {} THEN ccpacket_set_pan(p, {"pan_left"}, 0)
                 ELSE ccpacket_set_pan(p, f, decode_speed(dz, m[4]))

decode_tilt(d, dz, p, m) ==
    LET f == First(d, m, <<"tilt_up", "tilt_down">>)
    IN IF f = {} THEN ccpacket_set_tilt(p, {"tilt_down"}, 0)
                 ELSE ccpacket_set_tilt(p, f, decode_speed(dz, m[5]))

SetIf(p, g, f) == IF f = {} THEN p ELSE Set(p, g, f)

decode_lens(d, p, m) ==
    SetIf(SetIf(SetIf(p, "iris", First(d, m, <<"iris_open", "iris_close">>)),
                "focus", First(d, m, <<"focus_near", "focus_far">>)),
          "zoom", First(d, m, <<"zoom_in", "zoom_out">>))

decode_sense(d, p, m) ==
    LET on(f) == f \in DOMAIN BIT[d] /\ bit_is_set(m, BIT[d][f])
        power == IF on("sense") \/ on("camera_on") THEN {"camera_on"} ELSE {"camera_off"}
        auto  == IF d = "pelco_p" \/ on("sense") THEN {"pan_auto"} ELSE {"pan_manual"}
        q     == SetIf(p, "camera", IF on("camera") THEN power ELSE {})
    IN IF on("auto_pan") THEN ccpacket_set_pan(q, auto, 0) ELSE q

decode_extended(p, m) ==
    LET ex == (m[3] \div 2) % 32
        n  == m[5]
    IN CASE ex = EX_STORE  -> ccpacket_set_preset(p, {"preset_store"}, n)
         [] ex = EX_RECALL -> ccpacket_set_preset(p, {"preset_recall"}, n)
         [] ex = EX_CLEAR  -> ccpacket_set_preset(p, {"preset_clear"}, n)
         [] ex = EX_AUX_SET /\ n = EX_AUX_WIPER   -> Set(p, "wiper", {"wiper_on"})
         [] ex = EX_AUX_CLEAR /\ n = EX_AUX_WIPER -> Set(p, "wiper", {"wiper_off"})
         [] OTHER -> p

\* The packet the reader gives its writers, which was cleared before.
decode(d, dz, m) ==
    [receiver |-> m[1],
     pkt |-> IF bit_is_set(m, BIT[d].extended) THEN decode_extended(Cleared, m)
             ELSE decode_sense(d, decode_lens(d,
                    decode_tilt(d, dz, decode_pan(d, dz, Cleared, m), m), m), m)]
==============================================================================
