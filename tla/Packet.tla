-------------------------------- MODULE Packet --------------------------------
(****************************************************************************)
(* ccpacket.c: the protocol-neutral packet as a value.  Its modes share one *)
(* word of flags, in groups; a mode is read back through the same switch    *)
(* that it was set through.                                                 *)
(*                                                                          *)
(* A set of modes stands for a mask of flags.  The receiver and the time of *)
(* expiration are left to the modules that use them.                        *)
(****************************************************************************)
EXTENDS Integers

CONSTANT SPEED_MAX  \* the highest speed

ASSUME PacketAssumption == SPEED_MAX \in Nat

MENU_OPEN_PRESET   == 77
MENU_ENTER_PRESET  == 78
MENU_CANCEL_PRESET == 79

\* The groups of flags.
CC == [menu   |-> {"menu_open", "menu_enter", "menu_cancel"},
       camera |-> {"camera_on", "camera_off"},
       pan    |-> {"pan_left", "pan_right", "pan_auto", "pan_manual"},
       tilt   |-> {"tilt_up", "tilt_down"},
       preset |-> {"preset_recall", "preset_store", "preset_clear"},
       zoom   |-> {"zoom_in", "zoom_out"},
       focus  |-> {"focus_near", "focus_far", "focus_auto"},
       iris   |-> {"iris_close", "iris_open", "iris_auto"},
       lens   |-> {"lens_speed"},
       wiper  |-> {"wiper_on", "wiper_off"},
       ack    |-> {"ack_alarm"}]

Groups == DOMAIN CC

\* The modes the switch of a group lets through.
Cases(g) == CC[g] \ {"pan_manual"}

\* Mutant: the mask of the group, without the switch.
BugValid(g, m) == m \cap CC[g]

\* The valid mode of group g in the mask m, or none.
Valid(g, m) == LET bits == m \cap CC[g]
               IN IF \E f \in Cases(g) : bits = {f} THEN bits ELSE {}

\* ccpacket_clear
Cleared == [flags |-> {}, pan |-> 0, tilt |-> 0, preset |-> 0]

-----------------------------------------------------------------------------
(* The setters, as functions of a packet.                                   *)

\* Mutant: what the group held before is kept.
BugSet(p, g, m) == [p EXCEPT !.flags = Valid(g, m) \cup @]

Set(p, g, m) == [p EXCEPT !.flags = Valid(g, m) \cup (@ \ CC[g])]

clamp_speed(s) == IF s < 0 THEN 0 ELSE IF s > SPEED_MAX THEN SPEED_MAX ELSE s

ccpacket_set_pan(p, m, s)  == [Set(p, "pan", m) EXCEPT !.pan = clamp_speed(s)]
ccpacket_set_tilt(p, m, s) == [Set(p, "tilt", m) EXCEPT !.tilt = s]

\* The menu mode of a menu preset.
MenuMode(n) == CASE n = MENU_OPEN_PRESET   -> {"menu_open"}
                 [] n = MENU_ENTER_PRESET  -> {"menu_enter"}
                 [] n = MENU_CANCEL_PRESET -> {"menu_cancel"}
                 [] OTHER                  -> {}

\* The valid preset mode, of a number.
ccpacket_preset(m, n) == IF n <= 0 THEN {} ELSE Valid("preset", m)

IsMenuPreset(m, n) == ccpacket_preset(m, n) = {"preset_store"} /\ MenuMode(n) # {}

\* The flags are those from before the menu mode was set.
ccpacket_set_preset(p, m, n) ==
    LET flags == p.flags \ CC.preset
    IN IF IsMenuPreset(m, n)
       THEN [Set(p, "menu", MenuMode(n)) EXCEPT !.flags = flags, !.preset = 0]
       ELSE [p EXCEPT !.flags = flags \cup ccpacket_preset(m, n), !.preset = n]

-----------------------------------------------------------------------------
(* The getters and tests.                                                   *)

Get(p, g) == Valid(g, p.flags)

ccpacket_get_preset_mode(p) == ccpacket_preset(p.flags, p.preset)

\* Mutant: the wiper is forgotten.
BugIsStop(p) ==
    /\ p.pan = 0 /\ p.tilt = 0
    /\ Get(p, "pan") \notin {{"pan_auto"}, {"pan_manual"}}
    /\ ccpacket_get_preset_mode(p) = {}
    /\ \A g \in {"menu", "ack", "camera", "zoom", "focus", "iris"} : Get(p, g) = {}

ccpacket_is_stop(p) ==
    /\ p.pan = 0 /\ p.tilt = 0
    /\ Get(p, "pan") \notin {{"pan_auto"}, {"pan_manual"}}
    /\ ccpacket_get_preset_mode(p) = {}
    /\ \A g \in {"menu", "ack", "camera", "zoom", "focus", "iris", "wiper"} :
          Get(p, g) = {}

ccpacket_has_pan(p)  == Get(p, "pan") # {} /\ p.pan # 0
ccpacket_has_tilt(p) == Get(p, "tilt") # {} /\ p.tilt # 0

ccpacket_has_command(p) ==
    \E g \in {"pan", "tilt", "zoom", "focus", "iris"} : Get(p, g) # {}

ccpacket_has_autopan(p) == Get(p, "pan") \in {{"pan_auto"}, {"pan_manual"}}

ccpacket_has_power(p) == Get(p, "camera") # {}
==============================================================================
