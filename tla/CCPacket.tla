------------------------------- MODULE CCPacket -------------------------------
(****************************************************************************)
(* ccpacket.c as its callers use it: a reader fills in its packet while it  *)
(* decodes a message, gives it to the writers, and clears it.               *)
(*                                                                          *)
(* The writers' own changes of the packet (adjust_menu_commands) ask for a  *)
(* menu mode first, which no packet ever has (CCPacketProofs, NoMenu).       *)
(****************************************************************************)
EXTENDS Pelco, Vicon

CONSTANTS
    Receivers,  \* the receivers whose messages are looked at
    Speeds,     \* the speeds the decoders find
    Numbers,    \* the preset numbers they find
    MaxCalls    \* bound: setters called on a packet before it is cleared

ASSUME CCPacketAssumption ==
    /\ Receivers \subseteq Nat
    /\ Speeds \subseteq 0 .. SPEED_MAX
    /\ Numbers \subseteq Nat
    /\ MaxCalls \in Nat

\* Those with nothing but a mode to set.
PlainGroups == Groups \ {"menu", "pan", "tilt", "preset"}

VARIABLES
    pkt,    \* the packet
    asked,  \* history: the mode last asked for in each group
    calls   \* history: the setters called since the packet was cleared

vars == <<pkt, asked, calls>>

Nothing == [g \in Groups |-> {}]

-----------------------------------------------------------------------------
(* A decoder at work on the packet of its reader.                           *)

Init == pkt = Cleared /\ asked = Nothing /\ calls = 0

\* A mask a decoder passes: one mode of the group, or none.
Masks(g) == {{}} \cup {{f} : f \in CC[g]}

Call == calls < MaxCalls /\ calls' = calls + 1

SetMode(g, m) ==
    /\ Call
    /\ pkt' = Set(pkt, g, m)
    /\ asked' = [asked EXCEPT ![g] = m]

SetPan(m, s) ==
    /\ Call
    /\ pkt' = ccpacket_set_pan(pkt, m, s)
    /\ asked' = [asked EXCEPT !.pan = m]

SetTilt(m, s) ==
    /\ Call
    /\ pkt' = ccpacket_set_tilt(pkt, m, s)
    /\ asked' = [asked EXCEPT !.tilt = m]

\* ccpacket_set_pan_speed and ccpacket_set_tilt_speed, as vicon calls them.
SetSpeeds(s, t) ==
    /\ Call
    /\ pkt' = [pkt EXCEPT !.pan = clamp_speed(s), !.tilt = t]
    /\ UNCHANGED asked

\* Storing a menu preset asks for the menu, and for no preset.
SetPreset(m, n) ==
    /\ Call
    /\ pkt' = ccpacket_set_preset(pkt, m, n)
    /\ asked' = IF IsMenuPreset(m, n)
                THEN [asked EXCEPT !.menu = MenuMode(n), !.preset = {}]
                ELSE [asked EXCEPT !.preset = IF n > 0 THEN m ELSE {}]

\* ccpacket_clear, when the writers have had the packet.
Clear == pkt' = Cleared /\ asked' = Nothing /\ calls' = 0

Next == \/ \E g \in PlainGroups : \E m \in Masks(g) : SetMode(g, m)
        \/ \E m \in Masks("pan"), s \in Speeds : SetPan(m, s)
        \/ \E m \in Masks("tilt"), s \in Speeds : SetTilt(m, s)
        \/ \E s, t \in Speeds : SetSpeeds(s, t)
        \/ \E m \in Masks("preset"), n \in Numbers : SetPreset(m, n)
        \/ Clear

Spec == Init /\ [][Next]_vars

-----------------------------------------------------------------------------
(* Properties.                                                              *)

\* The packet has its type: no flag is set that no getter returns, and never
\* two of a group, which would make its getter return none.
TypeOK ==
    /\ pkt \in [flags : SUBSET UNION {Cases(g) : g \in Groups},
                pan : 0 .. SPEED_MAX, tilt : 0 .. SPEED_MAX, preset : Nat]
    /\ \A g \in Groups : \A e, f \in pkt.flags \cap CC[g] : e = f
    /\ DOMAIN asked = Groups /\ \A g \in Groups : asked[g] \in Masks(g)
    /\ calls \in 0 .. MaxCalls

\* Every getter returns what was last set in its group, whatever was set in
\* the other groups since; a manual pan, which ccpacket_pan leaves out, is none.
\* The mode of the menu, which ccpacket_set_preset writes over, is never kept:
\* NoMenu of CCPacketProofs (ccpacket_set_pan to ccpacket_set_ack).
KeepsAsked ==
    /\ \A g \in Groups \ {"menu", "preset"} :
          Get(pkt, g) = asked[g] \ {"pan_manual"}
    /\ ccpacket_get_preset_mode(pkt) = asked.preset

\* Nothing was asked for, or no more than a pan or a tilt, and nothing moves.
NothingAsked ==
    /\ pkt.pan = 0 /\ pkt.tilt = 0
    /\ asked.pan \notin {{"pan_auto"}, {"pan_manual"}}
    /\ \A g \in Groups \ {"pan", "tilt"} : asked[g] = {}

\* The writers repeat what counts as a stop (ccwriter_check_deferred).  What they
\* then write twice tells a Pelco camera to do nothing, and a Vicon camera nothing
\* but to toggle the speed of its lens, if that was asked for: the lens is not
\* looked at, and is toggled back, although vicon.c has it among its "toggle
\* functions".  A packet that asks for nothing does count as a stop
\* (ccpacket_is_stop, against pelco_d_do_write_cb, pelco_p_do_write and
\* vicon_do_write).
StopsAreIdle ==
    /\ ccpacket_is_stop(pkt) =>
          \A r \in Receivers :
             /\ \A d \in {"pelco_d", "pelco_p"} :
                   do_write(d, r, pkt) \in {<< >>, << Frame(d, r, 0, 0, 0, 0) >>}
             /\ vicon_do_write(r, pkt) \in
                   {<< >>, << vicon_message(SIZE_COMMAND, r, {"command"} \cup asked.lens,
                                            Octets5(pkt)) >>}
    /\ NothingAsked => ccpacket_is_stop(pkt)
==============================================================================
