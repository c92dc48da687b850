----------------------------- MODULE CCPacketProofs -----------------------------
(****************************************************************************)
(* What every packet keeps, for all speeds, preset numbers and numbers of   *)
(* calls.  The groups of flags are disjoint, so that a setter touches its   *)
(* own group only; all else follows from that.  To the properties the       *)
(* inductive invariant adds that no flag of the menu is ever set.           *)
(****************************************************************************)
EXTENDS CCPacket, TLAPS

AllCases == UNION {Cases(g) : g \in Groups}

\* No two modes.
Single(v) == \A e, f \in v : e = f

\* The part of TypeOK that is about the flags.
FlagsOK(fs) == /\ fs \subseteq AllCases
               /\ \A g \in Groups : Single(fs \cap CC[g])
               /\ fs \cap CC.menu = {}

PacketType == [flags : SUBSET AllCases,
               pan : 0 .. SPEED_MAX, tilt : 0 .. SPEED_MAX, preset : Nat]

Inv == /\ pkt \in PacketType /\ FlagsOK(pkt.flags)
       /\ DOMAIN asked = Groups /\ \A g \in Groups : asked[g] \in Masks(g)
       /\ calls \in 0 .. MaxCalls
       /\ KeepsAsked

-----------------------------------------------------------------------------
(* The groups.                                                              *)

LEMMA GroupsAre ==
    Groups = {"menu", "camera", "pan", "tilt", "preset", "zoom", "focus",
              "iris", "lens", "wiper", "ack"}
  BY DEF Groups, CC

\* A group's flags are its own: the masks of ccpacket.h do not overlap.
LEMMA GroupsDisjoint ==
    \A g, h \in Groups : g # h => CC[g] \cap CC[h] = {}
<1> SUFFICES ASSUME NEW g \in Groups, NEW h \in Groups, g # h, NEW f,
                    f \in CC[g], f \in CC[h]
             PROVE  FALSE
  OBVIOUS
<1> QED
  BY GroupsAre, SMTT(30) DEF CC

\* What a switch lets through.
LEMMA ValidFacts ==
    ASSUME NEW g \in Groups, NEW m
    PROVE  /\ Valid(g, m) \subseteq Cases(g) /\ Valid(g, m) \subseteq CC[g]
           /\ Single(Valid(g, m))
           /\ Valid(g, Valid(g, m)) = Valid(g, m)
           /\ \A k : k \cap CC[g] = m \cap CC[g] => Valid(g, k) = Valid(g, m)
<1>1. Cases(g) \subseteq CC[g]
  BY DEF Cases
<1>2. CASE \E f \in Cases(g) : m \cap CC[g] = {f}
  BY <1>1, <1>2 DEF Valid, Single
<1>3. CASE ~\E f \in Cases(g) : m \cap CC[g] = {f}
  BY <1>1, <1>3 DEF Valid, Single
<1> QED
  BY <1>2, <1>3

\* A mask of one mode passes as it is, but for a manual pan.
LEMMA ValidMask ==
    ASSUME NEW g \in Groups, NEW m \in Masks(g)
    PROVE  Valid(g, m) = m \ {"pan_manual"}
<1>1. CASE m = {}
  BY <1>1 DEF Valid
<1>2. CASE \E f \in CC[g] : m = {f}
  BY <1>2 DEF Valid, Cases
<1> QED
  BY <1>1, <1>2 DEF Masks

\* A setter of group g, which writes v, is seen by the getter of g alone.
LEMMA SetterLocal ==
    ASSUME NEW g \in Groups \ {"menu"}, NEW fs, FlagsOK(fs),
           NEW v \in SUBSET Cases(g), Single(v),
           NEW new, new = v \cup (fs \ CC[g])
    PROVE  /\ FlagsOK(new)
           /\ new \cap CC[g] = v
           /\ \A h \in Groups : h # g => new \cap CC[h] = fs \cap CC[h]
<1>1. v \subseteq CC[g] /\ v \subseteq AllCases
  BY DEF Cases, AllCases
<1>2. new \cap CC[g] = v
  BY <1>1
<1>3. ASSUME NEW h \in Groups, h # g
      PROVE  new \cap CC[h] = fs \cap CC[h]
  BY <1>1, <1>3, GroupsDisjoint
<1>4. "menu" \in Groups
  BY GroupsAre
<1>5. new \subseteq AllCases
  BY <1>1 DEF FlagsOK
<1>6. \A h \in Groups : Single(new \cap CC[h])
  BY <1>2, <1>3 DEF FlagsOK
<1>7. new \cap CC["menu"] = {}
  BY <1>3, <1>4 DEF FlagsOK
<1> QED
  BY <1>2, <1>3, <1>5, <1>6, <1>7 DEF FlagsOK

-----------------------------------------------------------------------------
(* The steps.                                                               *)

LEMMA InitInv == Init => Inv
<1> SUFFICES ASSUME Init PROVE Inv
  OBVIOUS
<1>1. /\ pkt = Cleared /\ asked = Nothing /\ calls = 0
      /\ SPEED_MAX \in Nat /\ MaxCalls \in Nat
  BY CCPacketAssumption, PacketAssumption DEF Init
<1>2. pkt \in PacketType /\ pkt.flags = {} /\ pkt.preset = 0
  BY <1>1 DEF Cleared, PacketType
<1>3. \A g \in Groups : asked[g] = {} /\ Valid(g, {}) = {}
  BY <1>1 DEF Nothing, Valid
<1>4. DOMAIN asked = Groups /\ "preset" \in Groups
  BY <1>1, GroupsAre DEF Nothing
<1>5. KeepsAsked
  BY <1>2, <1>3, <1>4
     DEF KeepsAsked, Get, ccpacket_get_preset_mode, ccpacket_preset
<1>6. FlagsOK(pkt.flags)
  BY <1>2 DEF FlagsOK, Single
<1> QED
  BY <1>1, <1>2, <1>3, <1>4, <1>5, <1>6 DEF Inv, Masks

\* A setter of a group other than menu and preset.
LEMMA ModeInv ==
    ASSUME Inv, NEW g \in Groups \ {"menu", "preset"}, NEW m \in Masks(g),
           pkt' \in PacketType,
           pkt'.flags = Valid(g, m) \cup (pkt.flags \ CC[g]),
           pkt'.preset = pkt.preset,
           asked' = [asked EXCEPT ![g] = m], calls' \in 0 .. MaxCalls
    PROVE  Inv'
<1>1. /\ FlagsOK(pkt.flags) /\ KeepsAsked /\ DOMAIN asked = Groups
      /\ \A h \in Groups : asked[h] \in Masks(h)
  BY DEF Inv
<1>2. /\ FlagsOK(pkt'.flags)
      /\ pkt'.flags \cap CC[g] = Valid(g, m)
      /\ \A h \in Groups : h # g => pkt'.flags \cap CC[h] = pkt.flags \cap CC[h]
  <2>1. Valid(g, m) \in SUBSET Cases(g) /\ Single(Valid(g, m))
    BY ValidFacts
  <2>2. g \in Groups \ {"menu"}
    OBVIOUS
  <2> QED
    BY <1>1, <2>1, <2>2, SetterLocal, SMTT(30)
<1>3. Get(pkt', g) = m \ {"pan_manual"}
  <2>1. Valid(g, m) \cap CC[g] = Valid(g, m)
    BY ValidFacts
  <2>2. Valid(g, pkt'.flags) = Valid(g, Valid(g, m))
    BY <1>2, <2>1, ValidFacts
  <2> QED
    BY <2>2, ValidFacts, ValidMask DEF Get
<1>4. ASSUME NEW h \in Groups, h # g
      PROVE  Get(pkt', h) = Get(pkt, h)
  BY <1>2, <1>4, ValidFacts DEF Get
<1>5. "preset" \in Groups /\ "preset" # g
  BY GroupsAre
<1>6. ccpacket_get_preset_mode(pkt') = ccpacket_get_preset_mode(pkt)
  BY <1>4, <1>5 DEF ccpacket_get_preset_mode, ccpacket_preset, Get
<1>7. /\ asked'[g] = m /\ DOMAIN asked' = Groups
      /\ \A h \in Groups : h # g => asked'[h] = asked[h]
  BY <1>1
<1>8. asked'.preset = asked.preset
  BY <1>5, <1>7
<1>9. KeepsAsked'
  BY <1>1, <1>3, <1>4, <1>6, <1>7, <1>8 DEF KeepsAsked
<1> QED
  BY <1>1, <1>2, <1>7, <1>9 DEF Inv

\* The speeds alone are changed.
LEMMA SpeedsInv ==
    ASSUME Inv, pkt' \in PacketType, pkt'.flags = pkt.flags,
           pkt'.preset = pkt.preset, UNCHANGED asked, calls' \in 0 .. MaxCalls
    PROVE  Inv'
<1>1. \A g \in Groups : Get(pkt', g) = Get(pkt, g)
  BY DEF Get
<1>2. ccpacket_get_preset_mode(pkt') = ccpacket_get_preset_mode(pkt)
  BY DEF ccpacket_get_preset_mode
<1>3. KeepsAsked'
  BY <1>1, <1>2 DEF Inv, KeepsAsked
<1> QED
  BY <1>3 DEF Inv

\* The preset, of which v is the mode that the packet gets.
LEMMA PresetInv ==
    ASSUME Inv, NEW v \in SUBSET Cases("preset"), Single(v),
           pkt' \in PacketType,
           pkt'.flags = v \cup (pkt.flags \ CC["preset"]),
           ccpacket_get_preset_mode(pkt') = asked'["preset"],
           DOMAIN asked' = Groups, \A g \in Groups : asked'[g] \in Masks(g),
           \A g \in Groups \ {"menu", "preset"} : asked'[g] = asked[g],
           calls' \in 0 .. MaxCalls
    PROVE  Inv'
<1>1. "preset" \in Groups \ {"menu"} /\ FlagsOK(pkt.flags)
  BY GroupsAre DEF Inv
<1>2. /\ FlagsOK(pkt'.flags)
      /\ \A h \in Groups :
            h # "preset" => pkt'.flags \cap CC[h] = pkt.flags \cap CC[h]
  BY <1>1, SetterLocal, SMTT(30)
<1>3. \A g \in Groups \ {"menu", "preset"} : Get(pkt', g) = Get(pkt, g)
  BY <1>2, ValidFacts DEF Get
<1>4. KeepsAsked'
  BY <1>3 DEF Inv, KeepsAsked
<1> QED
  BY <1>2, <1>4 DEF Inv

LEMMA ClampedSpeed ==
    ASSUME NEW s \in Speeds
    PROVE  clamp_speed(s) \in 0 .. SPEED_MAX /\ s \in 0 .. SPEED_MAX
BY CCPacketAssumption, PacketAssumption DEF clamp_speed

\* The clause of ccpacket_set_preset that stores no preset.
LEMMA MenuPresetInv ==
    ASSUME Inv, NEW m \in Masks("preset"), NEW n \in Numbers,
           SetPreset(m, n), IsMenuPreset(m, n)
    PROVE  Inv'
<1>1. /\ pkt' = ccpacket_set_preset(pkt, m, n)
      /\ asked' = [asked EXCEPT !.menu = MenuMode(n), !.preset = {}]
      /\ calls' = calls + 1 /\ calls < MaxCalls
  BY DEF SetPreset, Call
<1>2. pkt \in PacketType /\ DOMAIN asked = Groups /\ calls' \in 0 .. MaxCalls
  BY <1>1, CCPacketAssumption, PacketAssumption DEF Inv
<1>3. /\ pkt' \in PacketType
      /\ pkt'.flags = {} \cup (pkt.flags \ CC["preset"])
      /\ pkt'.preset = 0
  BY <1>1, <1>2 DEF PacketType, ccpacket_set_preset, Set
<1>4. {"menu", "preset"} \subseteq Groups
  BY GroupsAre
<1>5. /\ DOMAIN asked' = Groups
      /\ asked'["preset"] = {} /\ asked'["menu"] = MenuMode(n)
      /\ \A g \in Groups \ {"menu", "preset"} : asked'[g] = asked[g]
  BY <1>1, <1>2, <1>4
<1>6. MenuMode(n) \in Masks("menu") /\ {} \in Masks("preset")
  BY DEF MenuMode, Masks, CC
<1>7. \A g \in Groups : asked'[g] \in Masks(g)
  BY <1>5, <1>6 DEF Inv
<1>8. ccpacket_get_preset_mode(pkt') = asked'["preset"]
  BY <1>3, <1>5 DEF ccpacket_get_preset_mode, ccpacket_preset
<1>9. {} \in SUBSET Cases("preset") /\ Single({})
  BY DEF Single
<1> QED
  BY <1>2, <1>3, <1>5, <1>7, <1>8, <1>9, PresetInv

\* A preset that is none of the menu's, or none at all.
LEMMA PlainPresetInv ==
    ASSUME Inv, NEW m \in Masks("preset"), NEW n \in Numbers,
           SetPreset(m, n), ~IsMenuPreset(m, n)
    PROVE  Inv'
<1> DEFINE v == ccpacket_preset(m, n)
<1>1. /\ pkt' = ccpacket_set_preset(pkt, m, n)
      /\ asked' = [asked EXCEPT !.preset = IF n > 0 THEN m ELSE {}]
      /\ calls' = calls + 1 /\ calls < MaxCalls
  BY DEF SetPreset, Call
<1>2. pkt \in PacketType /\ DOMAIN asked = Groups /\ calls' \in 0 .. MaxCalls
      /\ n \in Nat
  BY <1>1, CCPacketAssumption, PacketAssumption DEF Inv
<1>3. "preset" \in Groups
  BY GroupsAre
<1>4. v \in SUBSET Cases("preset") /\ Single(v)
  BY <1>3, ValidFacts DEF ccpacket_preset, Single
<1>5. v \in SUBSET AllCases
  BY <1>3, <1>4 DEF AllCases
<1>6. /\ pkt'.flags = v \cup (pkt.flags \ CC["preset"])
      /\ pkt'.preset = n
      /\ pkt' \in PacketType
  <2>1. pkt' = [pkt EXCEPT !.flags = (pkt.flags \ CC["preset"]) \cup v,
                           !.preset = n]
    BY <1>1 DEF ccpacket_set_preset
  <2> HIDE DEF v
  <2> QED
    BY <2>1, <1>2, <1>5 DEF PacketType
<1>7. /\ DOMAIN asked' = Groups
      /\ asked'["preset"] = IF n > 0 THEN m ELSE {}
      /\ \A g \in Groups \ {"menu", "preset"} : asked'[g] = asked[g]
      /\ \A g \in Groups \ {"preset"} : asked'[g] = asked[g]
  BY <1>1, <1>2, <1>3
<1>8. \A g \in Groups : asked'[g] \in Masks(g)
  BY <1>7 DEF Inv, Masks
<1>9. ccpacket_get_preset_mode(pkt') = asked'["preset"]
  <2>1. "pan_manual" \notin CC["preset"]
    BY DEF CC
  <2>2. Valid("preset", m) = m
    BY <1>3, <2>1, ValidMask DEF Masks
  <2>3. pkt'.flags \cap CC["preset"] = v
    BY <1>4, <1>6 DEF Cases
  <2>4. CASE n > 0
    <3>1. v = m /\ m \cap CC["preset"] = m
      BY <1>2, <2>2, <2>4 DEF ccpacket_preset, Masks
    <3>2. Valid("preset", pkt'.flags) = m
      BY <1>3, <2>2, <2>3, <3>1, ValidFacts
    <3>3. ccpacket_preset(pkt'.flags, n) = m
      BY <1>2, <2>4, <3>2 DEF ccpacket_preset
    <3>4. pkt'.preset = n /\ asked'["preset"] = m
      BY <1>6, <1>7, <2>4
    <3> QED
      BY <3>3, <3>4 DEF ccpacket_get_preset_mode
  <2>5. CASE ~(n > 0)
    BY <1>2, <1>6, <1>7, <2>5 DEF ccpacket_get_preset_mode, ccpacket_preset
  <2> QED
    BY <2>4, <2>5
<1> HIDE DEF v
<1> QED
  BY <1>2, <1>4, <1>6, <1>7, <1>8, <1>9, PresetInv

\* Every step keeps the invariant.
LEMMA NextInv == Inv /\ [Next]_vars => Inv'
<1> SUFFICES ASSUME Inv, [Next]_vars PROVE Inv'
  OBVIOUS
<1>1. /\ pkt \in PacketType /\ SPEED_MAX \in Nat /\ MaxCalls \in Nat
      /\ calls \in 0 .. MaxCalls
  BY CCPacketAssumption, PacketAssumption DEF Inv
<1>2. {"pan", "tilt", "preset"} \subseteq Groups
  BY GroupsAre
<1>3. ASSUME NEW g \in Groups, NEW m
      PROVE  Valid(g, m) \cup (pkt.flags \ CC[g]) \in SUBSET AllCases
  BY <1>1, ValidFacts DEF AllCases, PacketType
<1>4. ASSUME NEW g \in PlainGroups, NEW m \in Masks(g), SetMode(g, m)
      PROVE  Inv'
  <2>1. g \in Groups \ {"menu", "preset"}
    BY DEF PlainGroups
  <2>2. /\ pkt' \in PacketType /\ pkt'.preset = pkt.preset
        /\ pkt'.flags = Valid(g, m) \cup (pkt.flags \ CC[g])
        /\ asked' = [asked EXCEPT ![g] = m] /\ calls' \in 0 .. MaxCalls
    BY <1>1, <1>3, <1>4, <2>1 DEF SetMode, Call, Set, PacketType
  <2> QED
    BY <2>1, <2>2, ModeInv
<1>5. ASSUME NEW m \in Masks("pan"), NEW s \in Speeds, SetPan(m, s)
      PROVE  Inv'
  <2> DEFINE fs == Valid("pan", m) \cup (pkt.flags \ CC["pan"])
             sp == clamp_speed(s)
  <2>1. fs \in SUBSET AllCases /\ sp \in 0 .. SPEED_MAX
    BY <1>2, <1>3, ClampedSpeed
  <2>2. /\ pkt' = [[pkt EXCEPT !.flags = fs] EXCEPT !.pan = sp]
        /\ asked' = [asked EXCEPT !["pan"] = m]
        /\ calls' = calls + 1 /\ calls < MaxCalls
    BY <1>5 DEF SetPan, ccpacket_set_pan, Set, Call
  <2>3. calls' \in 0 .. MaxCalls
    BY <1>1, <2>2
  <2>4. pkt' \in PacketType /\ pkt'.preset = pkt.preset /\ pkt'.flags = fs
    <3> HIDE DEF fs, sp
    <3> QED
      BY <1>1, <2>1, <2>2 DEF PacketType
  <2> QED
    BY <1>2, <2>2, <2>3, <2>4, ModeInv
<1>6. ASSUME NEW m \in Masks("tilt"), NEW s \in Speeds, SetTilt(m, s)
      PROVE  Inv'
  <2> DEFINE fs == Valid("tilt", m) \cup (pkt.flags \ CC["tilt"])
             sp == s
  <2>1. fs \in SUBSET AllCases /\ sp \in 0 .. SPEED_MAX
    BY <1>2, <1>3, ClampedSpeed
  <2>2. /\ pkt' = [[pkt EXCEPT !.flags = fs] EXCEPT !.tilt = sp]
        /\ asked' = [asked EXCEPT !["tilt"] = m]
        /\ calls' = calls + 1 /\ calls < MaxCalls
    BY <1>6 DEF SetTilt, ccpacket_set_tilt, Set, Call
  <2>3. calls' \in 0 .. MaxCalls
    BY <1>1, <2>2
  <2>4. pkt' \in PacketType /\ pkt'.preset = pkt.preset /\ pkt'.flags = fs
    <3> HIDE DEF fs, sp
    <3> QED
      BY <1>1, <2>1, <2>2 DEF PacketType
  <2> QED
    BY <1>2, <2>2, <2>3, <2>4, ModeInv
<1>7. ASSUME NEW s \in Speeds, NEW t \in Speeds, SetSpeeds(s, t)
      PROVE  Inv'
  <2> DEFINE sp == clamp_speed(s)
  <2>1. sp \in 0 .. SPEED_MAX /\ t \in 0 .. SPEED_MAX
    BY ClampedSpeed
  <2>2. /\ pkt' = [pkt EXCEPT !.pan = sp, !.tilt = t] /\ UNCHANGED asked
        /\ calls' = calls + 1 /\ calls < MaxCalls
    BY <1>7 DEF SetSpeeds, Call
  <2>3. calls' \in 0 .. MaxCalls
    BY <1>1, <2>2
  <2>4. /\ pkt' \in PacketType /\ pkt'.preset = pkt.preset
        /\ pkt'.flags = pkt.flags
    <3> HIDE DEF sp
    <3> QED
      BY <1>1, <2>1, <2>2 DEF PacketType
  <2> QED
    BY <2>2, <2>3, <2>4, SpeedsInv
<1>8. ASSUME NEW m \in Masks("preset"), NEW n \in Numbers, SetPreset(m, n)
      PROVE  Inv'
  BY <1>8, MenuPresetInv, PlainPresetInv
<1>9. CASE Clear
  <2>1. Init'
    BY <1>9 DEF Clear, Init
  <2> QED
    BY <2>1, InitInv, PTL
<1>10. CASE UNCHANGED vars
  BY <1>10 DEF vars, Inv, KeepsAsked, Get, ccpacket_get_preset_mode
<1> QED
  BY <1>4, <1>5, <1>6, <1>7, <1>8, <1>9, <1>10 DEF Next

-----------------------------------------------------------------------------
(* The theorems.                                                            *)

LEMMA Invariance == Spec => []Inv
BY InitInv, NextInv, PTL DEF Spec

\* A packet has its type whatever the decoders set: no flag without a getter
\* that returns it, and never two of a group (ccpacket.c, the setters).
THEOREM TypeCorrect == Spec => []TypeOK
<1>1. Inv => TypeOK
  BY DEF Inv, TypeOK, FlagsOK, Single, PacketType, AllCases
<1> QED
  BY <1>1, Invariance, PTL

\* Every getter returns what was last set in its group: the setters of a
\* shared word do not disturb each other (ccpacket_set_pan to
\* ccpacket_set_ack, ccpacket_set_preset).
THEOREM AskedKept == Spec => []KeepsAsked
<1>1. Inv => KeepsAsked
  BY DEF Inv
<1> QED
  BY <1>1, Invariance, PTL

\* The getters of a packet that counts as a stop: none of them has a function
\* that the encoders would write.
StopGets(p) ==
    /\ p.pan = 0 /\ p.tilt = 0
    /\ Get(p, "pan") \notin {{"pan_auto"}, {"pan_manual"}}
    /\ ccpacket_get_preset_mode(p) = {}
    /\ \A g \in {"menu", "ack", "camera", "zoom", "focus", "iris", "wiper"} :
          Get(p, g) = {}

LEMMA NoBits == \A j \in Int : Octet({}, j) = 0
BY DEF Octet

LEMMA PelcoStop ==
    ASSUME NEW p, StopGets(p), NEW r \in Nat, NEW d \in {"pelco_d", "pelco_p"}
    PROVE  do_write(d, r, p) \in {<< >>, << Frame(d, r, 0, 0, 0, 0) >>}
<1>1. /\ p.pan = 0 /\ p.tilt = 0
      /\ Get(p, "menu") = {} /\ Get(p, "camera") = {} /\ Get(p, "wiper") = {}
      /\ Get(p, "zoom") = {} /\ Get(p, "focus") = {} /\ Get(p, "iris") = {}
      /\ Get(p, "pan") # {"pan_auto"} /\ Get(p, "pan") # {"pan_manual"}
      /\ ccpacket_get_preset_mode(p) = {}
  BY DEF StopGets
<1>2. adjust_menu_commands(p) = p
  BY <1>1 DEF adjust_menu_commands
<1>3. ~ccpacket_has_pan(p) /\ encode_speed(p.tilt) = 0
  BY <1>1 DEF ccpacket_has_pan, encode_speed, TURBO_SPEED
<1>4. encode_pan_speed(p.pan) = 0
  BY <1>1, PelcoAssumption, PacketAssumption
     DEF encode_pan_speed, encode_speed, TURBO_SPEED
<1>5. encode_sense(d, p) = {}
  BY <1>1 DEF encode_sense
<1>6. encode_command(d, r, p) = Frame(d, r, Octet({}, 2), Octet({}, 3), 0, 0)
  BY <1>1, <1>3, <1>4, <1>5 DEF encode_command
<1>7. Octet({}, 2) = 0 /\ Octet({}, 3) = 0
  BY NoBits
<1>8. encode_command(d, r, p) = Frame(d, r, 0, 0, 0, 0)
  BY <1>6, <1>7
<1>9. do_write(d, r, p) \in {<< >>, << encode_command(d, r, p) >>}
  <2>1. PICK m : m = encode_command(d, r, p)
    OBVIOUS
  <2>2. /\ << >> \o << >> \o << >> = << >>
        /\ << m >> \o << >> \o << >> = << m >>
    BY SMT
  <2>3. CASE r \notin 1 .. PELCO_MAX_ADDRESS
    BY <1>2, <2>3 DEF do_write
  <2>4. CASE r \in 1 .. PELCO_MAX_ADDRESS
    <3>1. do_write(d, r, p) = (IF Commands(p) THEN << m >> ELSE << >>)
                              \o << >> \o << >>
      BY <1>1, <1>2, <2>1, <2>4, Zenon DEF do_write
    <3>2. CASE Commands(p)
      BY <2>1, <2>2, <3>1, <3>2
    <3>3. CASE ~Commands(p)
      BY <2>2, <3>1, <3>3
    <3> QED
      BY <3>2, <3>3
  <2> QED
    BY <2>3, <2>4
<1> QED
  BY <1>8, <1>9

LEMMA ViconStop ==
    ASSUME NEW p, StopGets(p), NEW r \in Nat
    PROVE  vicon_do_write(r, p) \in
              {<< >>, << vicon_message(SIZE_COMMAND, r, {"command"} \cup Get(p, "lens"),
                                       Octets5(p)) >>}
<1>1. /\ p.pan = 0 /\ p.tilt = 0
      /\ Get(p, "menu") = {} /\ Get(p, "ack") = {} /\ Get(p, "wiper") = {}
      /\ Get(p, "zoom") = {} /\ Get(p, "focus") = {} /\ Get(p, "iris") = {}
      /\ ccpacket_get_preset_mode(p) = {}
  BY DEF StopGets
<1>2. vicon_adjust_menu_commands(p) = p
  BY <1>1 DEF vicon_adjust_menu_commands
<1>3. ~ccpacket_has_pan(p) /\ ~ccpacket_has_tilt(p)
  BY <1>1 DEF ccpacket_has_pan, ccpacket_has_tilt
<1>4. ~is_extended_preset(p) /\ ~is_extended_speed(p)
  BY <1>1, <1>3 DEF is_extended_preset, is_extended_speed
<1>5. Get(p, "pan") \cap {"pan_auto"} = {}
  <2>1. "pan" \in Groups
    BY GroupsAre
  <2>2. Get(p, "pan") = {} \/ \E f : Get(p, "pan") = {f}
    BY <2>1 DEF Get, Valid
  <2> QED
    BY <2>2 DEF StopGets
<1>6. /\ encode_pan_tilt(p) = {} /\ vicon_encode_lens(p) = {}
      /\ encode_toggles(p) = Get(p, "lens")
      /\ encode_aux(p) = {} /\ vicon_encode_preset(p) = {}
  BY <1>1, <1>3, <1>5
     DEF encode_pan_tilt, vicon_encode_lens, encode_toggles, encode_aux,
         vicon_encode_preset
<1>7. vicon_encode_command(r, p)
         = vicon_message(SIZE_COMMAND, r, {"command"} \cup Get(p, "lens"), Octets5(p))
  <2>1. {"command"} \cup encode_pan_tilt(p) \cup vicon_encode_lens(p)
           \cup encode_toggles(p) \cup encode_aux(p) \cup vicon_encode_preset(p)
        = {"command"} \cup Get(p, "lens")
    BY <1>6
  <2> QED
    BY <2>1 DEF vicon_encode_command
<1> QED
  BY <1>2, <1>4, <1>7 DEF vicon_do_write

\* What counts as a stop, and so is written again, tells a camera of either
\* protocol to do nothing but to toggle the speed of its lens; and a packet that
\* asks for nothing counts as a stop (ccpacket_is_stop, the encoders).
THEOREM RepeatedIsIdle == Spec => []StopsAreIdle
<1>1. ASSUME Inv PROVE StopsAreIdle
  <2>1. /\ KeepsAsked /\ \A g \in Groups : asked[g] \in Masks(g)
        /\ pkt.flags \cap CC["menu"] = {}
    BY <1>1 DEF Inv, FlagsOK
  <2>2. Get(pkt, "menu") = {}
    BY <2>1 DEF Get, Valid
  <2>3. Get(pkt, "lens") = asked["lens"]
    <3>1. "lens" \in Groups \ {"menu", "preset"} /\ "pan_manual" \notin CC["lens"]
      BY GroupsAre DEF CC
    <3>2. asked["lens"] = {} \/ \E f \in CC["lens"] : asked["lens"] = {f}
      BY <2>1, <3>1 DEF Masks
    <3>3. asked["lens"] \ {"pan_manual"} = asked["lens"]
      BY <3>1, <3>2
    <3> QED
      BY <2>1, <3>1, <3>3 DEF KeepsAsked
  <2>4. ccpacket_is_stop(pkt) <=> StopGets(pkt)
    BY DEF ccpacket_is_stop, StopGets
  <2>5. ASSUME ccpacket_is_stop(pkt), NEW r \in Receivers
        PROVE  /\ \A d \in {"pelco_d", "pelco_p"} :
                     do_write(d, r, pkt) \in {<< >>, << Frame(d, r, 0, 0, 0, 0) >>}
               /\ vicon_do_write(r, pkt) \in
                     {<< >>, << vicon_message(SIZE_COMMAND, r,
                                   {"command"} \cup asked["lens"], Octets5(pkt)) >>}
    <3>1. StopGets(pkt) /\ r \in Nat
      BY <2>4, <2>5, CCPacketAssumption
    <3>2. \A d \in {"pelco_d", "pelco_p"} :
             do_write(d, r, pkt) \in {<< >>, << Frame(d, r, 0, 0, 0, 0) >>}
      BY <3>1, PelcoStop
    <3>3. vicon_do_write(r, pkt) \in
             {<< >>, << vicon_message(SIZE_COMMAND, r, {"command"} \cup Get(pkt, "lens"),
                                      Octets5(pkt)) >>}
      BY <3>1, ViconStop
    <3> QED
      BY <2>3, <3>2, <3>3
  <2>6. NothingAsked => StopGets(pkt)
    <3> SUFFICES ASSUME NothingAsked PROVE StopGets(pkt)
      OBVIOUS
    <3>1. /\ pkt.pan = 0 /\ pkt.tilt = 0
          /\ asked["pan"] # {"pan_auto"} /\ asked["pan"] # {"pan_manual"}
          /\ \A g \in Groups \ {"pan", "tilt"} : asked[g] = {}
      BY DEF NothingAsked
    <3>2. Get(pkt, "pan") = asked["pan"] \ {"pan_manual"} /\ "pan" \in Groups
      BY <2>1, GroupsAre DEF KeepsAsked
    <3>3. asked["pan"] = {} \/ \E f \in CC["pan"] : asked["pan"] = {f}
      BY <2>1, <3>2 DEF Masks
    <3>4. Get(pkt, "pan") \notin {{"pan_auto"}, {"pan_manual"}}
      BY <3>1, <3>2, <3>3
    <3>5. ccpacket_get_preset_mode(pkt) = {}
      BY <2>1, <3>1, GroupsAre DEF KeepsAsked
    <3>6. ASSUME NEW g \in {"menu", "ack", "camera", "zoom", "focus", "iris", "wiper"}
          PROVE  Get(pkt, g) = {}
      <4>1. CASE g = "menu"
        BY <2>2, <4>1
      <4>2. CASE g # "menu"
        <5>1. g \in Groups \ {"menu", "preset", "pan", "tilt"}
          BY <4>2, GroupsAre
        <5>2. Get(pkt, g) = asked[g] \ {"pan_manual"} /\ asked[g] = {}
          BY <2>1, <3>1, <5>1 DEF KeepsAsked
        <5> QED
          BY <5>2
      <4> QED
        BY <4>1, <4>2
    <3> QED
      BY <3>1, <3>4, <3>5, <3>6 DEF StopGets
  <2> QED
    BY <2>4, <2>5, <2>6 DEF StopsAreIdle
<1> QED
  BY <1>1, Invariance, PTL

\* No packet ever has a mode of the menu, whatever presets are stored and
\* recalled: the one that ccpacket_menu_preset sets is overwritten by
\* ccpacket_set_preset with the flags from before.
THEOREM NoMenu == Spec => [](Get(pkt, "menu") = {})
<1>1. ASSUME Inv PROVE Get(pkt, "menu") = {}
  <2>1. pkt.flags \cap CC["menu"] = {}
    BY <1>1 DEF Inv, FlagsOK
  <2> QED
    BY <2>1 DEF Get, Valid
<1> QED
  BY <1>1, Invariance, PTL
================================================================================
