---------------------------- MODULE JoystickProofs ----------------------------
(****************************************************************************)
(* What a joystick keeps, for all positions, buttons and directives: the    *)
(* events that are not yet read and the packet that is kept say together    *)
(* how the stick stands and what a held button began.                       *)
(****************************************************************************)
EXTENDS Joystick, TLAPS, FiniteSetTheorems, SequenceTheorems, WellFoundedInduction

AllCases == UNION {Cases(g) : g \in Groups}

Packets == [flags : SUBSET AllCases, pan : 0 .. SPEED_MAX, tilt : 0 .. SPEED_MAX,
            preset : 0 .. 4]

\* What the flags of a packet have of a group is a mode.
Modes(p) == \A g \in Groups : p.flags \cap CC[g] \in {{}} \cup {{f} : f \in Cases(g)}

\* Two packets are alike, but for some groups.
Alike(p, q, others) ==
    /\ q.pan = p.pan /\ q.tilt = p.tilt
    /\ \A g \in Groups \ others : q.flags \cap CC[g] = p.flags \cap CC[g]

-----------------------------------------------------------------------------
(* Induction along the numbers up to n, and the recursion that defines the  *)
(* packet after each event, the camera, and what is written.                *)

LEMMA Induction ==
    ASSUME NEW n \in Nat, NEW P, 0 \in P, \A k \in 1 .. n : k - 1 \in P => k \in P
    PROVE  \A k \in 0 .. n : k \in P
<1> DEFINE bad == {k \in 0 .. n : k \notin P}
<1>1. SUFFICES ASSUME bad # {} PROVE FALSE
    OBVIOUS
<1>2. bad \subseteq Nat
    OBVIOUS
<1>3. PICK k \in bad : \A j \in bad : ~(<<j, k>> \in OpToRel(<, Nat))
    <2>. HIDE DEF bad
    <2>. QED
        BY <1>1, <1>2, NatLessThanWellFounded, WFMin
<1>4. \A j \in bad : ~(j < k)
    BY <1>2, <1>3 DEF OpToRel
<1>5. k \in 0 .. n /\ k \notin P
    BY <1>3
<1>6. k \in 1 .. n /\ k - 1 \in 0 .. n /\ k - 1 < k
    BY <1>5
<1>7. k - 1 \notin bad
    BY <1>4, <1>6
<1>. QED
    BY <1>5, <1>6, <1>7

\* The recursion from x with step[k] as its k-th step is solved by f ...
Solves(f, n, S, x, step) ==
    /\ f \in [0 .. n -> S]
    /\ \A k \in 0 .. n : f[k] = IF k = 0 THEN x ELSE step[k][f[k - 1]]

\* ... and something does solve it.
LEMMA Recursion ==
    ASSUME NEW n \in Nat, NEW S, NEW x \in S, NEW step \in [1 .. n -> [S -> S]]
    PROVE  \E f : Solves(f, n, S, x, step)
<1> DEFINE P == {m \in 0 .. n : \E f : Solves(f, m, S, x, step)}
<1>1. 0 \in P
    <2>1. Solves([k \in 0 .. 0 |-> x], 0, S, x, step)
        BY DEF Solves
    <2>. QED
        BY <2>1
<1>2. ASSUME NEW m \in 1 .. n, m - 1 \in P
      PROVE  m \in P
    <2>1. PICK g : Solves(g, m - 1, S, x, step)
        BY <1>2
    <2>2. g[m - 1] \in S /\ step[m][g[m - 1]] \in S
        BY <2>1 DEF Solves
    <2> DEFINE h == [k \in 0 .. m |-> IF k = m THEN step[m][g[m - 1]] ELSE g[k]]
    <2>3. h \in [0 .. m -> S]
        BY <2>1, <2>2 DEF Solves
    <2>4. ASSUME NEW k \in 0 .. m
          PROVE  h[k] = IF k = 0 THEN x ELSE step[k][h[k - 1]]
        <3>1. CASE k = m
            BY <3>1
        <3>2. CASE k # m
            <4>1. k \in 0 .. m - 1 /\ h[k] = g[k] /\ (k # 0 => h[k - 1] = g[k - 1])
                BY <3>2
            <4>. QED
                BY <2>1, <4>1 DEF Solves
        <3>. QED
            BY <3>1, <3>2
    <2>5. Solves(h, m, S, x, step)
        BY <2>3, <2>4 DEF Solves
    <2>. HIDE DEF h
    <2>. QED
        BY <2>5
<1>3. n \in P
    <2>. HIDE DEF P
    <2>1. \A k \in 0 .. n : k \in P
        BY <1>1, <1>2, Induction
    <2>. QED
        BY <2>1
<1>. QED
    BY <1>3

-----------------------------------------------------------------------------
(* Packets: a setter touches its own group.                                 *)

LEMMA GroupsAre ==
    Groups = {"menu", "camera", "pan", "tilt", "preset", "zoom", "focus",
              "iris", "lens", "wiper", "ack"}
BY DEF Groups, CC

\* A group's flags are its own: the masks of ccpacket.h do not overlap.
LEMMA GroupsDisjoint ==
    \A g, h \in Groups : g # h => CC[g] \cap CC[h] = {}
<1> SUFFICES ASSUME NEW g \in Groups, NEW h \in Groups, g # h, NEW f,
                    f \in CC[g], f \in CC[h]
             PROVE  FALSE
    OBVIOUS
<1>. QED
    BY GroupsAre, SMTT(30) DEF CC

\* A switch lets through a mode of its group or none.
LEMMA ValidIs ==
    ASSUME NEW g \in Groups, NEW m
    PROVE  /\ Valid(g, m) \in {{}} \cup {{f} : f \in Cases(g)}
           /\ Valid(g, m) \subseteq CC[g] /\ Valid(g, m) \subseteq AllCases
           /\ Valid(g, m) \subseteq m
BY DEF Valid, Cases, AllCases

LEMMA ValidOne ==
    ASSUME NEW g \in Groups, NEW f \in Cases(g)
    PROVE  Valid(g, {f}) = {f} /\ Valid(g, {}) = {}
BY DEF Valid, Cases

LEMMA GetIs ==
    ASSUME NEW p, Modes(p), NEW g \in Groups
    PROVE  Get(p, g) = p.flags \cap CC[g]
BY DEF Get, Valid, Modes

\* In packet q, v is what group g has, and the others have what they have in p.
Replaced(p, q, g, v) ==
    /\ q.flags \cap CC[g] = v
    /\ \A h \in Groups : h # g => q.flags \cap CC[h] = p.flags \cap CC[h]

\* What is set in a group is in that group and no other.
LEMMA Replace ==
    ASSUME NEW p \in Packets, Modes(p), NEW g \in Groups,
           NEW v, v \in {{}} \cup {{f} : f \in Cases(g)},
           NEW q \in Packets, q.flags = v \cup (p.flags \ CC[g])
    PROVE  Modes(q) /\ Replaced(p, q, g, v)
<1>1. v \subseteq CC[g]
    BY DEF Cases
<1>2. q.flags \cap CC[g] = v
    BY <1>1
<1>3. ASSUME NEW h \in Groups, h # g
      PROVE  q.flags \cap CC[h] = p.flags \cap CC[h]
    <2>1. CC[g] \cap CC[h] = {}
        BY <1>3, GroupsDisjoint
    <2>. QED
        BY <1>1, <2>1
<1>4. Modes(q)
    BY <1>2, <1>3 DEF Modes
<1>. QED
    BY <1>2, <1>3, <1>4 DEF Replaced

LEMMA GetReplaced ==
    ASSUME NEW p, NEW q, Modes(p), Modes(q), NEW g \in Groups, NEW v, Replaced(p, q, g, v)
    PROVE  /\ Get(q, g) = v
           /\ \A h \in Groups : h # g => Get(q, h) = Get(p, h)
<1>1. Get(q, g) = v
    BY GetIs DEF Replaced
<1>2. ASSUME NEW h \in Groups, h # g PROVE Get(q, h) = Get(p, h)
    <2>1. Get(q, h) = q.flags \cap CC[h] /\ Get(p, h) = p.flags \cap CC[h]
        BY GetIs
    <2>. QED
        BY <1>2, <2>1 DEF Replaced
<1>. QED
    BY <1>1, <1>2

LEMMA SetIs ==
    ASSUME NEW p \in Packets, Modes(p), NEW g \in Groups, NEW m
    PROVE  /\ Set(p, g, m) \in Packets /\ Modes(Set(p, g, m))
           /\ Set(p, g, m).preset = p.preset
           /\ Alike(p, Set(p, g, m), {g})
           /\ Set(p, g, m).flags \cap CC[g] = Valid(g, m)
<1> DEFINE q == Set(p, g, m)
<1>1. /\ q \in Packets /\ q.flags = Valid(g, m) \cup (p.flags \ CC[g])
      /\ q.pan = p.pan /\ q.tilt = p.tilt /\ q.preset = p.preset
    BY ValidIs DEF Set, Packets
<1>2. /\ Modes(q) /\ q.flags \cap CC[g] = Valid(g, m)
      /\ \A h \in Groups : h # g => q.flags \cap CC[h] = p.flags \cap CC[h]
    <2>1. PICK v \in {{}} \cup {{f} : f \in Cases(g)} : v = Valid(g, m)
        BY ValidIs
    <2>2. q.flags = v \cup (p.flags \ CC[g])
        BY <1>1, <2>1
    <2>. HIDE DEF q
    <2>3. Modes(q) /\ Replaced(p, q, g, v)
        BY <1>1, <2>1, <2>2, Replace
    <2>. QED
        BY <2>1, <2>3 DEF Replaced
<1>. QED
    BY <1>1, <1>2 DEF Alike

LEMMA SetPanIs ==
    ASSUME NEW p \in Packets, Modes(p), NEW f \in Cases("pan"), NEW s \in 0 .. SPEED_MAX,
           NEW q, q = ccpacket_set_pan(p, {f}, s)
    PROVE  /\ q \in Packets /\ Modes(q) /\ q.preset = p.preset
           /\ q.pan = s /\ q.tilt = p.tilt /\ Replaced(p, q, "pan", {f})
<1> DEFINE r == Set(p, "pan", {f})
<1>1. "pan" \in Groups
    BY GroupsAre
<1>2. /\ r \in Packets /\ Modes(r) /\ r.preset = p.preset
      /\ r.tilt = p.tilt /\ r.flags \cap CC["pan"] = {f}
      /\ \A h \in Groups : h # "pan" => r.flags \cap CC[h] = p.flags \cap CC[h]
    BY <1>1, SetIs, ValidOne DEF Alike
<1>3. clamp_speed(s) = s
    BY PacketAssumption DEF clamp_speed
<1>4. q = [r EXCEPT !.pan = s]
    BY <1>3 DEF ccpacket_set_pan
<1>5. /\ q \in Packets /\ q.flags = r.flags /\ q.pan = s /\ q.tilt = r.tilt
      /\ q.preset = r.preset
    <2>. HIDE DEF r
    <2>. QED
        BY <1>2, <1>4 DEF Packets
<1>. QED
    BY <1>2, <1>5 DEF Modes, Replaced

LEMMA SetTiltIs ==
    ASSUME NEW p \in Packets, Modes(p), NEW f \in Cases("tilt"), NEW s \in 0 .. SPEED_MAX,
           NEW q, q = ccpacket_set_tilt(p, {f}, s)
    PROVE  /\ q \in Packets /\ Modes(q) /\ q.preset = p.preset
           /\ q.tilt = s /\ q.pan = p.pan /\ Replaced(p, q, "tilt", {f})
<1> DEFINE r == Set(p, "tilt", {f})
<1>1. "tilt" \in Groups
    BY GroupsAre
<1>2. /\ r \in Packets /\ Modes(r) /\ r.preset = p.preset
      /\ r.pan = p.pan /\ r.flags \cap CC["tilt"] = {f}
      /\ \A h \in Groups : h # "tilt" => r.flags \cap CC[h] = p.flags \cap CC[h]
    BY <1>1, SetIs, ValidOne DEF Alike
<1>4. q = [r EXCEPT !.tilt = s]
    BY DEF ccpacket_set_tilt
<1>5. /\ q \in Packets /\ q.flags = r.flags /\ q.tilt = s /\ q.pan = r.pan
      /\ q.preset = r.preset
    <2>. HIDE DEF r
    <2>. QED
        BY <1>2, <1>4 DEF Packets
<1>. QED
    BY <1>2, <1>5 DEF Modes, Replaced

\* A preset that is not in the range of the menu.
LEMMA SetPresetIs ==
    ASSUME NEW p \in Packets, Modes(p), NEW n \in 0 .. 4, NEW m,
           NEW q, q = ccpacket_set_preset(p, m, n)
    PROVE  /\ q \in Packets /\ Modes(q) /\ q.preset = n /\ Alike(p, q, {"preset"})
           /\ q.flags \cap CC["preset"] = ccpacket_preset(m, n)
<1>1. "preset" \in Groups /\ CC.preset = CC["preset"]
    BY GroupsAre
<1>2. MenuMode(n) = {}
    BY DEF MenuMode, MENU_OPEN_PRESET, MENU_ENTER_PRESET, MENU_CANCEL_PRESET
<1>3. q = [p EXCEPT !.flags = (p.flags \ CC.preset) \cup ccpacket_preset(m, n), !.preset = n]
    BY <1>2 DEF ccpacket_set_preset, IsMenuPreset
<1>4. /\ ccpacket_preset(m, n) \in {{}} \cup {{f} : f \in Cases("preset")}
      /\ ccpacket_preset(m, n) \subseteq AllCases
    BY <1>1, ValidIs DEF ccpacket_preset
<1>5. /\ q \in Packets /\ q.pan = p.pan /\ q.tilt = p.tilt /\ q.preset = n
      /\ q.flags = ccpacket_preset(m, n) \cup (p.flags \ CC["preset"])
    BY <1>1, <1>3, <1>4 DEF Packets
<1>6. PICK v \in {{}} \cup {{f} : f \in Cases("preset")} : v = ccpacket_preset(m, n)
    BY <1>4
<1>7. q.flags = v \cup (p.flags \ CC["preset"])
    BY <1>5, <1>6
<1>8. Modes(q) /\ Replaced(p, q, "preset", v)
    BY <1>1, <1>5, <1>6, <1>7, Replace
<1>. QED
    BY <1>5, <1>6, <1>8 DEF Alike, Replaced

-----------------------------------------------------------------------------
(* What one event does.                                                     *)

Readers == [receiver : 0 .. MAX_CAMERA, pkt : Packets, ready : BOOLEAN]

AxisEvents   == [type : {"axis"}, number : Axes, value : Positions, initial : BOOLEAN]
ButtonEvents == [type : {"button"}, number : Range(Buttons), value : {0, 1},
                 initial : BOOLEAN]
UserEvents   == AxisEvents \cup ButtonEvents

\* The event is of axis a; of a button that sets group g while it is held.
IsAxis(e, a) == e.type = "axis" /\ e.number = a
IsHeld(e, g) == /\ e.type = "button" /\ ~e.initial /\ e.number \in DOMAIN BUTTON
                /\ BUTTON[e.number].group = g

\* The groups that buttons set.
HeldGroups == {"focus", "iris", "wiper", "camera"}

\* The packet says that axis a stands at v.
Shows(p, a, v) ==
    /\ a = "pan"  => Asks("pan", v, Get(p, "pan"), p.pan)
    /\ a = "tilt" => Asks("tilt", v, Get(p, "tilt"), p.tilt)
    /\ a = "zoom" => Get(p, "zoom") = SignMode("zoom", v)

HasPan(p) == p.flags \cap CC["pan"] # {}

PresetFree(p) == p.preset = 0 /\ p.flags \cap CC["preset"] = {}

\* A packet that says of the stick what another does.
LEMMA ShowsAlike ==
    ASSUME NEW p, NEW q, Modes(p), Modes(q), NEW others, Alike(p, q, others),
           others \cap Axes = {}
    PROVE  /\ \A a, v : Shows(p, a, v) => Shows(q, a, v)
           /\ HasPan(p) => HasPan(q)
<1>1. \A g \in Axes : g \in Groups /\ g \notin others
    BY GroupsAre DEF Axes
<1>2. \A g \in Axes : q.flags \cap CC[g] = p.flags \cap CC[g]
    BY <1>1 DEF Alike
<1>3. \A g \in Axes : Get(q, g) = Get(p, g)
    BY <1>1, <1>2, GetIs
<1>. QED
    BY <1>2, <1>3 DEF Shows, HasPan, Alike, Axes

LEMMA Products ==
    ASSUME NEW x \in Nat, NEW y \in Nat, NEW s \in Nat, x <= y
    PROVE  x * s \in Nat /\ x * s <= y * s
<1>1. PICK d \in Nat : y = x + d
    <2>1. y - x \in Nat /\ y = x + (y - x)
        OBVIOUS
    <2>. QED
        BY <2>1
<1>2. y * s = x * s + d * s
    BY <1>1
<1>3. x * s \in Nat /\ d * s \in Nat
    BY <1>1
<1>. QED
    BY <1>2, <1>3

LEMMA PositionIs ==
    ASSUME NEW v \in Positions
    PROVE  /\ v \in Int /\ -JSPEED_MAX <= v /\ v <= JSPEED_MAX
           /\ JSPEED_MAX = 32767
<1>1. JSPEED_MAX = 32767
    BY DEF JSPEED_MAX
<1>2. Positions \subseteq -JSPEED_MAX .. JSPEED_MAX
    BY JoystickAssumption
<1>3. JSPEED_MAX \in Int
    BY <1>1
<1>4. v \in Int /\ -JSPEED_MAX <= v /\ v <= JSPEED_MAX
    BY <1>2, <1>3
<1>. QED
    BY <1>1, <1>4

\* remap_int: the product is at most the highest speed.
LEMMA RemapIs ==
    ASSUME NEW v \in Positions
    PROVE  /\ remap_speed(v) \in 0 .. SPEED_MAX
           /\ \A a, m : (remap_speed(v) > 0 => m = SignMode(a, v))
                            => Asks(a, v, m, remap_speed(v))
           /\ remap_speed(v) > 0 => v # 0
<1> DEFINE d == Abs(v) * SPEED_MAX
<1>1. /\ v \in Int /\ -JSPEED_MAX <= v /\ v <= JSPEED_MAX
      /\ JSPEED_MAX = 32767 /\ SPEED_MAX \in Nat
    BY PositionIs, PacketAssumption
<1>2. Abs(v) \in Nat /\ Abs(v) <= JSPEED_MAX /\ (v = 0 => Abs(v) = 0)
    <2>1. CASE v < 0
        BY <1>1, <2>1 DEF Abs
    <2>2. CASE v > 0
        BY <1>1, <2>2 DEF Abs
    <2>3. CASE v = 0
        BY <1>1, <2>3 DEF Abs
    <2>. QED
        BY <1>1, <2>1, <2>2, <2>3
<1>3. d \in Nat /\ d <= JSPEED_MAX * SPEED_MAX /\ (v = 0 => d = 0)
    <2>1. PICK x \in Nat : x = Abs(v) /\ x <= JSPEED_MAX
        BY <1>2
    <2>2. x * SPEED_MAX \in Nat /\ x * SPEED_MAX <= JSPEED_MAX * SPEED_MAX
        BY <1>1, <2>1, Products
    <2>3. v = 0 => x * SPEED_MAX = 0
        BY <1>1, <1>2, <2>1
    <2>. QED
        BY <2>1, <2>2, <2>3
<1>4. remap_speed(v) = d \div JSPEED_MAX
    BY DEF remap_speed
<1>5. /\ remap_speed(v) \in Nat /\ remap_speed(v) <= SPEED_MAX
      /\ remap_speed(v) * JSPEED_MAX <= d /\ d < (remap_speed(v) + 1) * JSPEED_MAX
      /\ v = 0 => remap_speed(v) = 0
    <2>. HIDE DEF d
    <2>. QED
        BY <1>1, <1>3, <1>4
<1>. QED
    BY <1>1, <1>5 DEF Asks

LEMMA ModeIs ==
    ASSUME NEW v \in Positions
    PROVE  /\ \E f \in Cases("pan") : Mode("pan", v) = {f}
           /\ \E f \in Cases("tilt") : Mode("tilt", v) = {f}
           /\ Mode("zoom", v) = SignMode("zoom", v)
           /\ Valid("zoom", SignMode("zoom", v)) = SignMode("zoom", v)
           /\ \A a \in Axes : v # 0 => Mode(a, v) = SignMode(a, v)
<1>1. v \in Int /\ (v < 0 \/ v > 0 \/ v = 0)
    BY PositionIs
<1>2. \A a \in Axes : v # 0 => Mode(a, v) = SignMode(a, v)
    BY DEF Mode
<1>3. Mode("zoom", v) = SignMode("zoom", v)
    BY DEF Mode
<1>4. \E f \in Cases("pan") : Mode("pan", v) = {f}
    BY <1>1 DEF Mode, SignMode, Cases, CC
<1>5. \E f \in Cases("tilt") : Mode("tilt", v) = {f}
    BY <1>1 DEF Mode, SignMode, Cases, CC
<1>6. SignMode("zoom", v) \in {{}, {"zoom_in"}, {"zoom_out"}}
    BY <1>1 DEF SignMode
<1>7. "zoom_in" \in Cases("zoom") /\ "zoom_out" \in Cases("zoom") /\ "zoom" \in Groups
    BY GroupsAre DEF Cases, CC
<1>8. Valid("zoom", SignMode("zoom", v)) = SignMode("zoom", v)
    BY <1>6, <1>7, ValidOne
<1>. QED
    BY <1>2, <1>3, <1>4, <1>5, <1>8

LEMMA NoPresetIs ==
    ASSUME NEW p \in Packets, Modes(p), NEW q, q = NoPreset(p)
    PROVE  q \in Packets /\ Modes(q) /\ PresetFree(q) /\ Alike(p, q, {"preset"})
<1>1. q = ccpacket_set_preset(p, {}, 0) /\ ccpacket_preset({}, 0) = {} /\ 0 \in 0 .. 4
    BY DEF NoPreset, ccpacket_preset
<1>. QED
    BY <1>1, SetPresetIs DEF PresetFree

\* Nothing is lost by clearing what is not there.
LEMMA NoPresetSame ==
    ASSUME NEW p \in Packets, Modes(p), PresetFree(p)
    PROVE  NoPreset(p) = p
<1>1. CC.preset = CC["preset"] /\ p.flags \ CC["preset"] = p.flags /\ p.preset = 0
    BY DEF PresetFree
<1>2. ccpacket_preset({}, 0) = {} /\ ~IsMenuPreset({}, 0)
    BY DEF ccpacket_preset, IsMenuPreset
<1>3. NoPreset(p) = [p EXCEPT !.flags = p.flags, !.preset = 0]
    BY <1>1, <1>2 DEF NoPreset, ccpacket_set_preset
<1>. QED
    BY <1>1, <1>3 DEF Packets

\* An axis: its motion is what is asked of it, and the others go on; the preset is cleared.
LEMMA AxisStep ==
    ASSUME NEW p \in Packets, Modes(p), NEW a \in Axes, NEW v \in Positions,
           NEW q, q = decode_pan_tilt_zoom(p, a, v)
    PROVE  /\ q \in Packets /\ Modes(q) /\ PresetFree(q)
           /\ a = "pan" \/ HasPan(p) => HasPan(q)
           /\ Shows(q, a, v)
           /\ \A b \in Axes : \A w : b # a /\ Shows(p, b, w) => Shows(q, b, w)
           /\ \A g \in HeldGroups : q.flags \cap CC[g] = p.flags \cap CC[g]
<1>0. /\ "pan" \in Groups /\ "tilt" \in Groups /\ "zoom" \in Groups /\ "preset" \in Groups
      /\ HeldGroups \subseteq Groups \ {"pan", "tilt", "zoom", "preset"}
      /\ {"preset"} \cap Axes = {}
    BY GroupsAre DEF HeldGroups, Axes
<1>1. ASSUME NEW r \in Packets, Modes(r), q = NoPreset(r),
             a = "pan" \/ HasPan(p) => HasPan(r),
             Shows(r, a, v), \A b \in Axes : \A w : b # a /\ Shows(p, b, w) => Shows(r, b, w),
             \A g \in HeldGroups : r.flags \cap CC[g] = p.flags \cap CC[g]
      PROVE  /\ q \in Packets /\ Modes(q) /\ PresetFree(q)
             /\ a = "pan" \/ HasPan(p) => HasPan(q)
             /\ Shows(q, a, v)
             /\ \A b \in Axes : \A w : b # a /\ Shows(p, b, w) => Shows(q, b, w)
             /\ \A g \in HeldGroups : q.flags \cap CC[g] = p.flags \cap CC[g]
    <2>1. q \in Packets /\ Modes(q) /\ PresetFree(q) /\ Alike(r, q, {"preset"})
        BY <1>1, NoPresetIs
    <2>2. (\A b, w : Shows(r, b, w) => Shows(q, b, w)) /\ (HasPan(r) => HasPan(q))
        BY <1>0, <1>1, <2>1, ShowsAlike
    <2>3. \A g \in HeldGroups : q.flags \cap CC[g] = r.flags \cap CC[g]
        BY <1>0, <2>1 DEF Alike
    <2>. QED
        BY <1>1, <2>1, <2>2, <2>3
<1>2. /\ remap_speed(v) \in 0 .. SPEED_MAX
      /\ \A m : (remap_speed(v) > 0 => m = SignMode(a, v)) => Asks(a, v, m, remap_speed(v))
      /\ remap_speed(v) > 0 => v # 0
    BY RemapIs
<1>3. remap_speed(v) > 0 => Mode(a, v) = SignMode(a, v)
    BY <1>2, ModeIs
<1>4. CASE a = "pan"
    <2> DEFINE r == ccpacket_set_pan(p, Mode(a, v), remap_speed(v))
    <2>1. PICK f \in Cases("pan") : Mode(a, v) = {f}
        BY <1>4, ModeIs
    <2>2. /\ r \in Packets /\ Modes(r) /\ r.pan = remap_speed(v) /\ r.tilt = p.tilt
          /\ Replaced(p, r, "pan", Mode(a, v))
        BY <1>2, <2>1, SetPanIs
    <2>3. q = NoPreset(r)
        BY <1>4 DEF decode_pan_tilt_zoom
    <2>. HIDE DEF r
    <2>4. HasPan(r)
        BY <2>1, <2>2 DEF HasPan, Replaced
    <2>5. /\ Get(r, "pan") = Mode(a, v) /\ Get(r, "tilt") = Get(p, "tilt")
          /\ Get(r, "zoom") = Get(p, "zoom")
        BY <1>0, <2>2, GetReplaced
    <2>6. Shows(r, a, v)
        BY <1>2, <1>3, <1>4, <2>2, <2>5 DEF Shows
    <2>7. \A b \in Axes : \A w : b # a /\ Shows(p, b, w) => Shows(r, b, w)
        BY <1>4, <2>2, <2>5 DEF Shows
    <2>8. \A g \in HeldGroups : r.flags \cap CC[g] = p.flags \cap CC[g]
        BY <1>0, <2>2 DEF Replaced
    <2>. QED
        BY <1>1, <2>2, <2>3, <2>4, <2>6, <2>7, <2>8
<1>5. CASE a = "tilt"
    <2> DEFINE r == ccpacket_set_tilt(p, Mode(a, v), remap_speed(v))
    <2>1. PICK f \in Cases("tilt") : Mode(a, v) = {f}
        BY <1>5, ModeIs
    <2>2. /\ r \in Packets /\ Modes(r) /\ r.tilt = remap_speed(v) /\ r.pan = p.pan
          /\ Replaced(p, r, "tilt", Mode(a, v))
        BY <1>2, <2>1, SetTiltIs
    <2>3. q = NoPreset(r)
        BY <1>5 DEF decode_pan_tilt_zoom
    <2>. HIDE DEF r
    <2>4. HasPan(p) => HasPan(r)
        BY <1>0, <2>2 DEF HasPan, Replaced
    <2>5. /\ Get(r, "tilt") = Mode(a, v) /\ Get(r, "pan") = Get(p, "pan")
          /\ Get(r, "zoom") = Get(p, "zoom")
        BY <1>0, <2>2, GetReplaced
    <2>6. Shows(r, a, v)
        BY <1>2, <1>3, <1>5, <2>2, <2>5 DEF Shows
    <2>7. \A b \in Axes : \A w : b # a /\ Shows(p, b, w) => Shows(r, b, w)
        BY <1>5, <2>2, <2>5 DEF Shows
    <2>8. \A g \in HeldGroups : r.flags \cap CC[g] = p.flags \cap CC[g]
        BY <1>0, <2>2 DEF Replaced
    <2>. QED
        BY <1>1, <1>5, <2>2, <2>3, <2>4, <2>6, <2>7, <2>8
<1>6. CASE a = "zoom"
    <2> DEFINE r == Set(p, "zoom", Mode(a, v))
    <2>1. Valid("zoom", Mode(a, v)) = SignMode("zoom", v)
        BY <1>6, ModeIs
    <2>2. /\ r \in Packets /\ Modes(r) /\ Alike(p, r, {"zoom"})
          /\ r.flags \cap CC["zoom"] = SignMode("zoom", v)
        BY <1>0, <2>1, SetIs, ZenonT(30)
    <2>3. q = NoPreset(r)
        BY <1>6 DEF decode_pan_tilt_zoom
    <2>. HIDE DEF r
    <2>4. r.pan = p.pan /\ r.tilt = p.tilt /\ Replaced(p, r, "zoom", SignMode("zoom", v))
        BY <2>2 DEF Alike, Replaced
    <2>5. HasPan(p) => HasPan(r)
        BY <1>0, <2>4 DEF HasPan, Replaced
    <2>6. /\ Get(r, "zoom") = SignMode("zoom", v) /\ Get(r, "pan") = Get(p, "pan")
          /\ Get(r, "tilt") = Get(p, "tilt")
        BY <1>0, <2>2, <2>4, GetReplaced
    <2>7. Shows(r, a, v)
        BY <1>6, <2>6 DEF Shows
    <2>8. \A b \in Axes : \A w : b # a /\ Shows(p, b, w) => Shows(r, b, w)
        BY <1>6, <2>4, <2>6 DEF Shows
    <2>9. \A g \in HeldGroups : r.flags \cap CC[g] = p.flags \cap CC[g]
        BY <1>0, <2>4 DEF Replaced
    <2>. QED
        BY <1>1, <1>6, <2>2, <2>3, <2>5, <2>7, <2>8, <2>9
<1>. QED
    BY <1>4, <1>5, <1>6 DEF Axes

\* The buttons that set something while they are held.
LEMMA ButtonIs ==
    /\ DOMAIN BUTTON = 0 .. 5
    /\ HeldGroups \subseteq Groups \ {"pan", "tilt", "zoom", "preset"}
    /\ \A b \in DOMAIN BUTTON : /\ BUTTON[b].group \in HeldGroups
                                /\ \E f \in Cases(BUTTON[b].group) : BUTTON[b].mode = {f}
<1>1. DOMAIN BUTTON = 0 .. 5
    BY DEF BUTTON
<1>2. HeldGroups \subseteq Groups \ {"pan", "tilt", "zoom", "preset"}
    BY GroupsAre DEF HeldGroups
<1>3. ASSUME NEW b \in 0 .. 5
      PROVE  /\ BUTTON[b].group \in HeldGroups
             /\ \E f \in Cases(BUTTON[b].group) : BUTTON[b].mode = {f}
    <2>1. b = 0 \/ b = 1 \/ b = 2 \/ b = 3 \/ b = 4 \/ b = 5
        OBVIOUS
    <2>2. CASE b = 0
        BY <2>2 DEF BUTTON, HeldGroups, Cases, CC
    <2>3. CASE b = 1
        BY <2>3 DEF BUTTON, HeldGroups, Cases, CC
    <2>4. CASE b = 2
        BY <2>4 DEF BUTTON, HeldGroups, Cases, CC
    <2>5. CASE b = 3
        BY <2>5 DEF BUTTON, HeldGroups, Cases, CC
    <2>6. CASE b = 4
        BY <2>6 DEF BUTTON, HeldGroups, Cases, CC
    <2>7. CASE b = 5
        BY <2>7 DEF BUTTON, HeldGroups, Cases, CC
    <2>. QED
        BY <2>1, <2>2, <2>3, <2>4, <2>5, <2>6, <2>7
<1>. QED
    BY <1>1, <1>2, <1>3

\* A button that sets something while it is held: the other groups go on.
LEMMA HeldStep ==
    ASSUME NEW r \in Readers, Modes(r.pkt), NEW b \in DOMAIN BUTTON, NEW pressed \in BOOLEAN,
           NEW q, q = decode_held_button(r, b, pressed)
    PROVE  /\ q \in Readers /\ Modes(q.pkt) /\ q.ready /\ q.receiver = r.receiver
           /\ Alike(r.pkt, q.pkt, {BUTTON[b].group}) /\ q.pkt.preset = r.pkt.preset
           /\ ~pressed => q.pkt.flags \cap CC[BUTTON[b].group] = {}
<1> DEFINE g == BUTTON[b].group
           m == IF pressed THEN BUTTON[b].mode ELSE {}
<1>1. g \in Groups
    BY ButtonIs
<1>2. q = [receiver |-> r.receiver, pkt |-> Set(r.pkt, g, m), ready |-> TRUE]
    BY DEF decode_held_button, Ready
<1>3. r.pkt \in Packets
    BY DEF Readers
<1>4. /\ Set(r.pkt, g, m) \in Packets /\ Modes(Set(r.pkt, g, m))
      /\ Set(r.pkt, g, m).preset = r.pkt.preset
      /\ Alike(r.pkt, Set(r.pkt, g, m), {g})
      /\ Set(r.pkt, g, m).flags \cap CC[g] = Valid(g, m)
    <2>. HIDE DEF g, m
    <2>. QED
        BY <1>1, <1>3, SetIs
<1>5. ~pressed => Valid(g, m) = {}
    BY DEF Valid
<1>. QED
    BY <1>2, <1>4, <1>5 DEF Readers

\* The flag that asks for a preset.
PresetFlag(pressed) == IF pressed THEN "preset_recall" ELSE "preset_store"

\* The packet asks for preset n with that flag.
AsksFor(p, n, f) == p.preset = n /\ p.flags \cap CC["preset"] = {f}

\* A button of a preset asks for it, or clears what was asked.
LEMMA PresetStep ==
    ASSUME NEW r \in Readers, Modes(r.pkt), NEW n \in 1 .. 4, NEW pressed \in BOOLEAN,
           NEW q, q = decode_preset_button(r, n, pressed)
    PROVE  /\ q \in Readers /\ Modes(q.pkt) /\ q.receiver = r.receiver
           /\ Alike(r.pkt, q.pkt, {"preset"})
           /\ \/ q.ready = r.ready /\ PresetFree(q.pkt) /\ q.pkt = NoPreset(r.pkt)
              \/ q.ready /\ AsksFor(q.pkt, n, PresetFlag(pressed))
<1> DEFINE m == {PresetFlag(pressed)}
           p == ccpacket_set_preset(r.pkt, m, n)
<1>1. r.pkt \in Packets /\ n \in 0 .. 4 /\ n > 0
    BY DEF Readers
<1>2. ccpacket_preset(m, n) = m
    <2>1. /\ "preset" \in Groups /\ "preset_recall" \in Cases("preset")
          /\ "preset_store" \in Cases("preset")
        BY GroupsAre DEF Cases, CC
    <2>2. PICK f \in Cases("preset") : m = {f}
        BY <2>1 DEF PresetFlag
    <2>3. Valid("preset", {f}) = {f}
        BY <2>1, ValidOne
    <2>. QED
        BY <1>1, <2>2, <2>3 DEF ccpacket_preset
<1>3. /\ p \in Packets /\ Modes(p) /\ p.preset = n /\ Alike(r.pkt, p, {"preset"})
      /\ p.flags \cap CC["preset"] = m
    <2>. HIDE DEF m
    <2>. QED
        BY <1>1, <1>2, SetPresetIs
<1>4. CASE q = Ready(r, p)
    <2>. HIDE DEF p
    <2>1. q = [receiver |-> r.receiver, pkt |-> p, ready |-> TRUE]
        BY <1>4 DEF Ready
    <2>2. q \in Readers /\ q.receiver = r.receiver /\ q.pkt = p /\ q.ready = TRUE
        BY <1>3, <2>1 DEF Readers
    <2>3. p.flags \cap CC["preset"] = {PresetFlag(pressed)}
        BY <1>3
    <2>. QED
        BY <1>3, <2>2, <2>3 DEF AsksFor
<1>5. CASE q = Nothing(r)
    <2>1. /\ NoPreset(r.pkt) \in Packets /\ Modes(NoPreset(r.pkt))
          /\ PresetFree(NoPreset(r.pkt)) /\ Alike(r.pkt, NoPreset(r.pkt), {"preset"})
        BY <1>1, NoPresetIs
    <2>2. /\ q \in Readers /\ q.pkt = NoPreset(r.pkt) /\ q.ready = r.ready
          /\ q.receiver = r.receiver
        BY <1>5, <2>1 DEF Nothing, Readers
    <2>. QED
        BY <2>1, <2>2
<1>. QED
    BY <1>4, <1>5 DEF decode_preset_button, PresetFlag

\* Any other button clears the preset; two of them choose the camera.
LEMMA OtherStep ==
    ASSUME NEW r \in Readers, Modes(r.pkt), NEW b, NEW pressed \in BOOLEAN,
           b \notin DOMAIN BUTTON, b \notin JBUTTON_PRESETS,
           NEW q, q = decode_button(r, b, pressed)
    PROVE  /\ q \in Readers /\ Modes(q.pkt) /\ Alike(r.pkt, q.pkt, {"preset"})
           /\ q.ready = r.ready /\ PresetFree(q.pkt) /\ q.pkt = NoPreset(r.pkt)
           /\ q.receiver = IF b = JBUTTON_PREVIOUS /\ pressed
                           THEN ccreader_previous_camera(r.receiver)
                           ELSE IF b = JBUTTON_NEXT /\ pressed
                           THEN ccreader_next_camera(r.receiver)
                           ELSE r.receiver
<1> DEFINE c == IF b = JBUTTON_PREVIOUS /\ pressed
                THEN ccreader_previous_camera(r.receiver)
                ELSE IF b = JBUTTON_NEXT /\ pressed
                THEN ccreader_next_camera(r.receiver)
                ELSE r.receiver
<1>1. r.pkt \in Packets /\ r.receiver \in 0 .. MAX_CAMERA /\ MAX_CAMERA \in Nat
    BY DEF Readers, MAX_CAMERA
<1>2. /\ NoPreset(r.pkt) \in Packets /\ Modes(NoPreset(r.pkt))
      /\ PresetFree(NoPreset(r.pkt)) /\ Alike(r.pkt, NoPreset(r.pkt), {"preset"})
    BY <1>1, NoPresetIs
<1>3. c \in 0 .. MAX_CAMERA
    BY <1>1 DEF ccreader_previous_camera, ccreader_next_camera
<1>4. q = [receiver |-> c, pkt |-> NoPreset(r.pkt), ready |-> r.ready]
    BY DEF decode_button, Nothing, Readers
<1>5. q \in Readers
    <2>. HIDE DEF c
    <2>. QED
        BY <1>2, <1>3, <1>4 DEF Readers
<1>. QED
    BY <1>2, <1>4, <1>5

\* The camera that an event chooses after camera c.
ChosenBy(e, c) ==
    IF IsPress(e, JBUTTON_PREVIOUS) /\ c > 0 THEN c - 1
    ELSE IF IsPress(e, JBUTTON_NEXT) /\ c < MAX_CAMERA THEN c + 1
    ELSE c

\* The flag that asks for a preset, when a button of one is pressed or released.
AsksPreset(value) == IF value = 1 THEN "preset_recall" ELSE "preset_store"

\* After event e the packet in q asks for the preset of the event.
IsAsked(e, q) ==
    /\ e.type = "button" /\ ~e.initial /\ e.number = q.preset + 5
    /\ e.number \in JBUTTON_PRESETS
    /\ q.flags \cap CC["preset"] = {AsksPreset(e.value)}

\* What event e makes of the reader r.
Step(r, e, q) ==
    /\ q \in Readers /\ Modes(q.pkt)
    /\ r.ready => q.ready
    /\ ~q.ready /\ PresetFree(r.pkt) => q.pkt = r.pkt
    /\ q.receiver = ChosenBy(e, r.receiver)
    /\ HasPan(r.pkt) \/ IsAxis(e, "pan") => HasPan(q.pkt)
    /\ e.type = "button" /\ e.initial => q = r

StepAxes(r, e, q) ==
    \A a \in Axes :
        /\ IsAxis(e, a) => q.ready /\ Shows(q.pkt, a, e.value)
        /\ ~IsAxis(e, a) => \A w : Shows(r.pkt, a, w) => Shows(q.pkt, a, w)

StepGroups(r, e, q) ==
    \A g \in HeldGroups :
        /\ IsHeld(e, g) /\ e.value = 0 => q.pkt.flags \cap CC[g] = {}
        /\ ~IsHeld(e, g) => q.pkt.flags \cap CC[g] = r.pkt.flags \cap CC[g]

StepPreset(r, e, q) ==
    \/ PresetFree(q.pkt)
    \/ IsAsked(e, q.pkt)
    \/ /\ e.type # "axis" /\ q.pkt.preset = r.pkt.preset
       /\ q.pkt.flags \cap CC["preset"] = r.pkt.flags \cap CC["preset"]

LEMMA EventStep ==
    ASSUME NEW r \in Readers, Modes(r.pkt), NEW e \in UserEvents,
           NEW q, q = joystick_decode_event(r, e)
    PROVE  Step(r, e, q) /\ StepAxes(r, e, q) /\ StepGroups(r, e, q) /\ StepPreset(r, e, q)
<1>0. r.pkt \in Packets /\ r.receiver \in 0 .. MAX_CAMERA /\ r.ready \in BOOLEAN
    BY DEF Readers
<1>1. CASE e \in AxisEvents
    <2>1. /\ e.type = "axis" /\ e.number \in Axes /\ e.value \in Positions
          /\ "axis" # "button"
        BY <1>1 DEF AxisEvents
    <2> DEFINE p == decode_pan_tilt_zoom(r.pkt, e.number, e.value)
    <2>2. q = [receiver |-> r.receiver, pkt |-> p, ready |-> TRUE]
        BY <2>1 DEF joystick_decode_event, Ready
    <2>3. /\ p \in Packets /\ Modes(p) /\ PresetFree(p)
          /\ e.number = "pan" \/ HasPan(r.pkt) => HasPan(p)
          /\ Shows(p, e.number, e.value)
          /\ \A b \in Axes : \A w : b # e.number /\ Shows(r.pkt, b, w) => Shows(p, b, w)
          /\ \A g \in HeldGroups : p.flags \cap CC[g] = r.pkt.flags \cap CC[g]
        BY <1>0, <2>1, AxisStep
    <2>. HIDE DEF p
    <2>4. q \in Readers /\ q.pkt = p /\ q.ready = TRUE /\ q.receiver = r.receiver
        BY <1>0, <2>2, <2>3 DEF Readers
    <2>5. ChosenBy(e, r.receiver) = r.receiver
        BY <2>1 DEF ChosenBy, IsPress
    <2>6. Step(r, e, q)
        BY <2>1, <2>3, <2>4, <2>5 DEF Step, IsAxis
    <2>7. StepAxes(r, e, q)
        BY <2>1, <2>3, <2>4 DEF StepAxes, IsAxis
    <2>8. StepGroups(r, e, q)
        BY <2>1, <2>3, <2>4 DEF StepGroups, IsHeld
    <2>. QED
        BY <2>3, <2>4, <2>6, <2>7, <2>8 DEF StepPreset
<1>2. CASE e \in ButtonEvents /\ e.initial
    <2>1. e.type = "button" /\ e.initial = TRUE /\ "button" # "axis"
        BY <1>2 DEF ButtonEvents
    <2>2. q = r
        BY <2>1 DEF joystick_decode_event
    <2>3. ChosenBy(e, r.receiver) = r.receiver
        BY <2>1 DEF ChosenBy, IsPress
    <2>4. Step(r, e, q)
        BY <1>0, <2>1, <2>2, <2>3 DEF Step, IsAxis
    <2>5. StepAxes(r, e, q) /\ StepGroups(r, e, q) /\ StepPreset(r, e, q)
        BY <2>1, <2>2 DEF StepAxes, StepGroups, StepPreset, IsAxis, IsHeld
    <2>. QED
        BY <2>4, <2>5
<1>3. CASE e \in ButtonEvents /\ ~e.initial
    <2>1. /\ e.type = "button" /\ e.initial = FALSE /\ "button" # "axis"
          /\ e.value \in {0, 1} /\ (e.value # 0) \in BOOLEAN
          /\ (e.value # 0) = (e.value = 1)
        BY <1>3 DEF ButtonEvents
    <2>0. PICK pressed \in BOOLEAN : /\ pressed = (e.value # 0)
                                     /\ pressed <=> e.value = 1
                                     /\ ~pressed <=> e.value = 0
        BY <2>1
    <2>2. q = decode_button(r, e.number, pressed)
        BY <2>0, <2>1 DEF joystick_decode_event
    <2>3. \A a : ~IsAxis(e, a)
        BY <2>1 DEF IsAxis
    <2>4. DOMAIN BUTTON = 0 .. 5 /\ JBUTTON_PRESETS = 6 .. 9
          /\ JBUTTON_PREVIOUS = 10 /\ JBUTTON_NEXT = 11
        BY ButtonIs DEF JBUTTON_PRESETS, JBUTTON_PREVIOUS, JBUTTON_NEXT
    <2>5. ASSUME NEW others, others \cap Axes = {}, q \in Readers, Modes(q.pkt),
                 Alike(r.pkt, q.pkt, others)
          PROVE  StepAxes(r, e, q) /\ (HasPan(r.pkt) => HasPan(q.pkt))
        BY <2>3, <2>5, ShowsAlike DEF StepAxes
    <2>6. CASE e.number \in DOMAIN BUTTON
        <3> DEFINE g == BUTTON[e.number].group
        <3>1. q = decode_held_button(r, e.number, pressed)
            BY <2>2, <2>6 DEF decode_button
        <3>2. /\ q \in Readers /\ Modes(q.pkt) /\ q.ready /\ q.receiver = r.receiver
              /\ Alike(r.pkt, q.pkt, {g}) /\ q.pkt.preset = r.pkt.preset
              /\ e.value = 0 => q.pkt.flags \cap CC[g] = {}
            <4>1. PICK b \in DOMAIN BUTTON : b = e.number
                BY <2>6
            <4>. q = decode_held_button(r, b, pressed)
                BY <3>1, <4>1
            <4>2. /\ q \in Readers /\ Modes(q.pkt) /\ q.ready /\ q.receiver = r.receiver
                  /\ Alike(r.pkt, q.pkt, {BUTTON[b].group}) /\ q.pkt.preset = r.pkt.preset
                  /\ ~pressed => q.pkt.flags \cap CC[BUTTON[b].group] = {}
                BY HeldStep
            <4>. QED
                BY <2>0, <4>1, <4>2
        <3>3. g \in HeldGroups /\ {g} \cap Axes = {}
            BY <2>6, ButtonIs DEF Axes
        <3>4. StepAxes(r, e, q) /\ (HasPan(r.pkt) => HasPan(q.pkt))
            BY <2>5, <3>2, <3>3
        <3>5. ChosenBy(e, r.receiver) = r.receiver
            BY <2>4, <2>6 DEF ChosenBy, IsPress
        <3>6. Step(r, e, q)
            BY <2>1, <2>3, <3>2, <3>4, <3>5 DEF Step
        <3>7. StepGroups(r, e, q)
            <4>1. \A h \in HeldGroups : h # g => q.pkt.flags \cap CC[h] = r.pkt.flags \cap CC[h]
                BY <3>2, ButtonIs DEF Alike
            <4>2. IsHeld(e, g)
                BY <2>1, <2>6 DEF IsHeld
            <4>. QED
                BY <3>2, <4>1, <4>2 DEF StepGroups, IsHeld
        <3>8. StepPreset(r, e, q)
            <4>1. "preset" \in Groups /\ "preset" # g
                BY <3>3, GroupsAre DEF HeldGroups
            <4>. QED
                BY <2>1, <3>2, <4>1 DEF StepPreset, Alike
        <3>. QED
            BY <3>4, <3>6, <3>7, <3>8
    <2>7. ASSUME q \in Readers, Modes(q.pkt), Alike(r.pkt, q.pkt, {"preset"}),
                 e.number \notin DOMAIN BUTTON
          PROVE  /\ StepAxes(r, e, q) /\ (HasPan(r.pkt) => HasPan(q.pkt))
                 /\ StepGroups(r, e, q)
        <3>1. {"preset"} \cap Axes = {}
            BY DEF Axes
        <3>2. StepGroups(r, e, q)
            BY <2>7, ButtonIs DEF StepGroups, IsHeld, Alike
        <3>. QED
            BY <2>5, <2>7, <3>1, <3>2
    <2>8. CASE e.number \in JBUTTON_PRESETS
        <3>1. /\ q = decode_preset_button(r, e.number - 5, pressed)
              /\ e.number - 5 \in 1 .. 4 /\ e.number \notin DOMAIN BUTTON
            BY <2>2, <2>4, <2>8 DEF decode_button
        <3>2. /\ q \in Readers /\ Modes(q.pkt) /\ q.receiver = r.receiver
              /\ Alike(r.pkt, q.pkt, {"preset"})
              /\ \/ q.ready = r.ready /\ PresetFree(q.pkt) /\ q.pkt = NoPreset(r.pkt)
                 \/ /\ q.ready /\ q.pkt.preset = e.number - 5
                    /\ q.pkt.flags \cap CC["preset"] = {AsksPreset(e.value)}
            <4>1. PICK n \in 1 .. 4 : n = e.number - 5
                BY <3>1
            <4>. q = decode_preset_button(r, n, pressed)
                BY <3>1, <4>1
            <4>2. /\ q \in Readers /\ Modes(q.pkt) /\ q.receiver = r.receiver
                  /\ Alike(r.pkt, q.pkt, {"preset"})
                  /\ \/ q.ready = r.ready /\ PresetFree(q.pkt) /\ q.pkt = NoPreset(r.pkt)
                     \/ q.ready /\ AsksFor(q.pkt, n, PresetFlag(pressed))
                BY PresetStep
            <4>3. PresetFlag(pressed) = AsksPreset(e.value)
                BY <2>0 DEF AsksPreset, PresetFlag
            <4>. QED
                BY <4>1, <4>2, <4>3 DEF AsksFor
        <3>3. /\ StepAxes(r, e, q) /\ (HasPan(r.pkt) => HasPan(q.pkt))
              /\ StepGroups(r, e, q)
            BY <2>7, <3>1, <3>2
        <3>4. ChosenBy(e, r.receiver) = r.receiver
            BY <2>4, <2>8 DEF ChosenBy, IsPress
        <3>5. Step(r, e, q)
            BY <1>0, <2>1, <2>3, <3>2, <3>3, <3>4, NoPresetSame DEF Step
        <3>6. StepPreset(r, e, q)
            BY <2>1, <2>4, <2>8, <3>2 DEF StepPreset, IsAsked
        <3>. QED
            BY <3>3, <3>5, <3>6
    <2>9. CASE e.number \notin DOMAIN BUTTON /\ e.number \notin JBUTTON_PRESETS
        <3>1. /\ q \in Readers /\ Modes(q.pkt) /\ Alike(r.pkt, q.pkt, {"preset"})
              /\ q.ready = r.ready /\ PresetFree(q.pkt) /\ q.pkt = NoPreset(r.pkt)
              /\ q.receiver = IF e.number = JBUTTON_PREVIOUS /\ pressed
                              THEN ccreader_previous_camera(r.receiver)
                              ELSE IF e.number = JBUTTON_NEXT /\ pressed
                              THEN ccreader_next_camera(r.receiver)
                              ELSE r.receiver
            BY <2>2, <2>9, OtherStep
        <3>2. q.receiver = ChosenBy(e, r.receiver)
            BY <2>0, <2>1, <2>4, <3>1
            DEF ChosenBy, IsPress, ccreader_previous_camera, ccreader_next_camera
        <3>3. /\ StepAxes(r, e, q) /\ (HasPan(r.pkt) => HasPan(q.pkt))
              /\ StepGroups(r, e, q)
            BY <2>7, <2>9, <3>1
        <3>4. Step(r, e, q)
            BY <1>0, <2>1, <2>3, <3>1, <3>2, <3>3, NoPresetSame DEF Step
        <3>. QED
            BY <3>1, <3>3, <3>4 DEF StepPreset
    <2>. QED
        BY <2>6, <2>8, <2>9
<1>. QED
    BY <1>1, <1>2, <1>3 DEF UserEvents

-----------------------------------------------------------------------------
(* What the events of one read do.                                          *)

Start == [receiver |-> rdr.receiver, pkt |-> rdr.pkt, ready |-> FALSE]

\* f has the reader after each of the first n events.
Run(f, n) ==
    /\ f[0] = Start
    /\ \A k \in 1 .. n : f[k] = joystick_decode_event(f[k - 1], queue[k])

\* The readers that there can be, and those in a read.
Sound == {r \in Readers : Modes(r.pkt)}

BaseInv ==
    /\ queue \in Seq(UserEvents)
    /\ rdr \in [receiver : 0 .. MAX_CAMERA, pkt : Packets]
    /\ Modes(rdr.pkt) /\ PresetFree(rdr.pkt)
    /\ chosen = rdr.receiver

LEMMA StartIs ==
    ASSUME BaseInv
    PROVE  Start \in Sound
BY DEF BaseInv, Start, Sound, Readers

\* The recursion of joystick_do_read has a solution.
LEMMA DecodedIs ==
    ASSUME BaseInv, NEW n \in 0 .. Len(queue)
    PROVE  \E f : Run(f, n) /\ Decoded(n) = f[n]
<1> DEFINE step == [k \in 1 .. n |-> [r \in Sound |-> joystick_decode_event(r, queue[k])]]
           F(g) == g = [k \in 0 .. n |-> IF k = 0 THEN Start
                                         ELSE joystick_decode_event(g[k - 1], queue[k])]
<1>1. \A k \in 1 .. n : queue[k] \in UserEvents
    BY DEF BaseInv
<1>2. \A r \in Sound, e \in UserEvents : joystick_decode_event(r, e) \in Sound
    BY EventStep DEF Sound, Step
<1>3. step \in [1 .. n -> [Sound -> Sound]]
    BY <1>1, <1>2
<1>4. PICK g : Solves(g, n, Sound, Start, step)
    <2>1. Start \in Sound /\ n \in Nat
        BY StartIs DEF BaseInv
    <2>. HIDE DEF step
    <2>. QED
        BY <1>3, <2>1, Recursion
<1>5. ASSUME NEW k \in 0 .. n
      PROVE  g[k] = IF k = 0 THEN Start ELSE joystick_decode_event(g[k - 1], queue[k])
    <2>1. k # 0 => k \in 1 .. n /\ k - 1 \in 0 .. n /\ g[k - 1] \in Sound
        BY <1>4 DEF Solves, BaseInv
    <2>2. g[k] = IF k = 0 THEN Start ELSE step[k][g[k - 1]]
        BY <1>4 DEF Solves
    <2>. QED
        BY <2>1, <2>2
<1>6. F(g)
    BY <1>4, <1>5 DEF Solves
<1> DEFINE f == CHOOSE h : F(h)
<1>7. F(f)
    BY <1>6
<1>8. Decoded(n) = f[n]
    BY DEF Decoded, Start
<1>9. \A k \in 0 .. n : f[k] = IF k = 0 THEN Start
                               ELSE joystick_decode_event(f[k - 1], queue[k])
    <2>. HIDE DEF f
    <2>. QED
        BY <1>7
<1>10. Run(f, n)
    <2>. HIDE DEF f
    <2>. QED
        BY <1>9 DEF Run
<1>. QED
    BY <1>8, <1>10

\* So has the one of the cameras that the events choose.
LEMMA ChosenIs ==
    ASSUME BaseInv, NEW es \in Seq(UserEvents)
    PROVE  \E f \in [0 .. Len(es) -> 0 .. MAX_CAMERA] :
              /\ f[0] = chosen /\ Chosen(es) = f[Len(es)]
              /\ \A k \in 1 .. Len(es) : f[k] = ChosenBy(es[k], f[k - 1])
<1> DEFINE n == Len(es)
           S == 0 .. MAX_CAMERA
           step == [k \in 1 .. n |-> [c \in S |-> ChosenBy(es[k], c)]]
           F(g) == g = [k \in 0 .. n |-> IF k = 0 THEN chosen ELSE ChosenBy(es[k], g[k - 1])]
<1>1. MAX_CAMERA \in Nat /\ n \in Nat
    BY DEF MAX_CAMERA
<1>2. chosen \in S
    BY DEF BaseInv
<1>3. \A e, c : c \in S => ChosenBy(e, c) \in S
    BY <1>1 DEF ChosenBy
<1>4. step \in [1 .. n -> [S -> S]]
    BY <1>3
<1>5. PICK g : Solves(g, n, S, chosen, step)
    <2>. HIDE DEF step, S, n
    <2>. QED
        BY <1>1, <1>2, <1>4, Recursion
<1>6. ASSUME NEW k \in 0 .. n
      PROVE  g[k] = IF k = 0 THEN chosen ELSE ChosenBy(es[k], g[k - 1])
    <2>1. k # 0 => k \in 1 .. n /\ k - 1 \in 0 .. n /\ g[k - 1] \in S
        BY <1>1, <1>5 DEF Solves
    <2>2. g[k] = IF k = 0 THEN chosen ELSE step[k][g[k - 1]]
        BY <1>5 DEF Solves
    <2>. HIDE DEF S
    <2>. QED
        BY <2>1, <2>2
<1>7. F(g)
    BY <1>5, <1>6 DEF Solves
<1> DEFINE f == CHOOSE h : F(h)
<1>8. F(f)
    BY <1>7
<1>9. Chosen(es) = f[n]
    BY DEF Chosen, ChosenBy
<1>10. /\ \A k \in 0 .. n : f[k] = IF k = 0 THEN chosen ELSE ChosenBy(es[k], f[k - 1])
       /\ DOMAIN f = 0 .. n /\ f = [k \in 0 .. n |-> f[k]]
    <2>. HIDE DEF f
    <2>. QED
        BY <1>8
<1>11. \A k \in 0 .. n : f[k] \in S
    <2> DEFINE P == {k \in 0 .. n : f[k] \in S}
    <2>1. 0 \in P
        BY <1>1, <1>2, <1>10
    <2>2. ASSUME NEW k \in 1 .. n, k - 1 \in P PROVE k \in P
        <3>1. f[k - 1] \in S /\ k \in 0 .. n /\ k # 0
            BY <2>2
        <3>2. f[k] = ChosenBy(es[k], f[k - 1])
            BY <1>10, <3>1
        <3>. HIDE DEF f, S
        <3>. QED
            BY <1>3, <3>1, <3>2
    <2>. HIDE DEF P
    <2>3. \A k \in 0 .. n : k \in P
        BY <1>1, <2>1, <2>2, Induction
    <2>. QED
        BY <2>3 DEF P
<1>12. f \in [0 .. n -> 0 .. MAX_CAMERA]
    <2>. HIDE DEF f
    <2>. QED
        BY <1>10, <1>11
<1>13. f[0] = chosen /\ \A k \in 1 .. n : f[k] = ChosenBy(es[k], f[k - 1])
    <2>. HIDE DEF f
    <2>. QED
        BY <1>1, <1>10
<1>. HIDE DEF f
<1>. QED
    BY <1>9, <1>12, <1>13

\* Every reader of a read is sound and follows from the one before.
LEMMA RunSteps ==
    ASSUME BaseInv, NEW n \in 0 .. Len(queue), NEW f, Run(f, n)
    PROVE  /\ \A k \in 0 .. n : f[k] \in Readers /\ Modes(f[k].pkt)
           /\ \A k \in 1 .. n :
                 /\ queue[k] \in UserEvents
                 /\ Step(f[k - 1], queue[k], f[k]) /\ StepAxes(f[k - 1], queue[k], f[k])
                 /\ StepGroups(f[k - 1], queue[k], f[k])
                 /\ StepPreset(f[k - 1], queue[k], f[k])
<1> DEFINE P == {k \in 0 .. n : f[k] \in Readers /\ Modes(f[k].pkt)}
<1>1. n \in Nat /\ \A k \in 1 .. n : queue[k] \in UserEvents
    BY DEF BaseInv
<1>2. ASSUME NEW k \in 1 .. n, f[k - 1] \in Readers, Modes(f[k - 1].pkt)
      PROVE  /\ Step(f[k - 1], queue[k], f[k]) /\ StepAxes(f[k - 1], queue[k], f[k])
             /\ StepGroups(f[k - 1], queue[k], f[k])
             /\ StepPreset(f[k - 1], queue[k], f[k])
    <2>1. f[k] = joystick_decode_event(f[k - 1], queue[k]) /\ queue[k] \in UserEvents
        BY <1>1 DEF Run
    <2>. QED
        BY <1>2, <2>1, EventStep
<1>3. 0 \in P
    BY <1>1, StartIs DEF Run, Sound
<1>4. ASSUME NEW k \in 1 .. n, k - 1 \in P
      PROVE  k \in P
    BY <1>2, <1>4 DEF Step
<1>5. \A k \in 0 .. n : k \in P
    <2>. HIDE DEF P
    <2>. QED
        BY <1>1, <1>3, <1>4, Induction
<1>6. \A k \in 1 .. n : k - 1 \in 0 .. n
    BY <1>1
<1>. QED
    BY <1>1, <1>2, <1>5, <1>6

\* Until something is ready the packet stays; an axis makes it ready.
LEMMA RunReady ==
    ASSUME BaseInv, NEW n \in 0 .. Len(queue), NEW f, Run(f, n)
    PROVE  /\ ~f[n].ready => f[n].pkt = rdr.pkt
           /\ (\E i \in 1 .. n, a \in Axes : IsAxis(queue[i], a)) => f[n].ready
           /\ (\A i \in 1 .. n : queue[i].type = "button" /\ queue[i].initial) => f[n] = Start
<1> DEFINE P == {k \in 0 .. n :
                   /\ ~f[k].ready => f[k].pkt = rdr.pkt
                   /\ (\E i \in 1 .. k, a \in Axes : IsAxis(queue[i], a)) => f[k].ready
                   /\ (\A i \in 1 .. k : queue[i].type = "button" /\ queue[i].initial)
                         => f[k] = Start}
<1>1. n \in Nat
    BY DEF BaseInv
<1>2. 0 \in P
    BY <1>1 DEF Run, Start
<1>3. ASSUME NEW k \in 1 .. n, k - 1 \in P
      PROVE  k \in P
    <2>1. /\ Step(f[k - 1], queue[k], f[k]) /\ StepAxes(f[k - 1], queue[k], f[k])
          /\ PresetFree(rdr.pkt)
        BY RunSteps DEF BaseInv
    <2>2. \A i \in 1 .. k : i = k \/ i \in 1 .. k - 1
        BY <1>1
    <2>3. \A i \in 1 .. k - 1 : i \in 1 .. k
        BY <1>1
    <2>4. ~f[k].ready => f[k].pkt = rdr.pkt
        BY <1>3, <2>1 DEF Step
    <2>5. (\E i \in 1 .. k, a \in Axes : IsAxis(queue[i], a)) => f[k].ready
        BY <1>3, <2>1, <2>2 DEF Step, StepAxes
    <2>6. (\A i \in 1 .. k : queue[i].type = "button" /\ queue[i].initial) => f[k] = Start
        BY <1>1, <1>3, <2>1, <2>3 DEF Step
    <2>. QED
        BY <2>4, <2>5, <2>6
<1>4. \A k \in 0 .. n : k \in P
    <2>. HIDE DEF P
    <2>. QED
        BY <1>1, <1>2, <1>3, Induction
<1>5. n \in P
    <2>. HIDE DEF P
    <2>. QED
        BY <1>1, <1>4
<1>. QED
    BY <1>5

\* Of the first n events in q, i is the last of axis a.
LastAxis(q, i, a, n) == IsAxis(q[i], a) /\ \A j \in i + 1 .. n : ~IsAxis(q[j], a)

\* The last event of an axis counts, or else the packet that was kept.
LEMMA RunAxes ==
    ASSUME BaseInv, NEW n \in 0 .. Len(queue), NEW f, Run(f, n), NEW a \in Axes
    PROVE  /\ \A i \in 1 .. n : LastAxis(queue, i, a, n) => Shows(f[n].pkt, a, queue[i].value)
           /\ (\A i \in 1 .. n : ~IsAxis(queue[i], a))
                 => \A v : Shows(rdr.pkt, a, v) => Shows(f[n].pkt, a, v)
           /\ HasPan(rdr.pkt) => HasPan(f[n].pkt)
           /\ \A i \in 1 .. n : IsAxis(queue[i], "pan") => HasPan(f[n].pkt)
<1> DEFINE P == {k \in 0 .. n :
                   /\ \A i \in 1 .. k : LastAxis(queue, i, a, k) => Shows(f[k].pkt, a, queue[i].value)
                   /\ (\A i \in 1 .. k : ~IsAxis(queue[i], a))
                         => \A v : Shows(rdr.pkt, a, v) => Shows(f[k].pkt, a, v)
                   /\ HasPan(rdr.pkt) => HasPan(f[k].pkt)
                   /\ \A i \in 1 .. k : IsAxis(queue[i], "pan") => HasPan(f[k].pkt)}
<1>1. n \in Nat
    BY DEF BaseInv
<1>2. 0 \in P
    BY <1>1 DEF Run, Start
<1>3. ASSUME NEW k \in 1 .. n, k - 1 \in P
      PROVE  k \in P
    <2>1. Step(f[k - 1], queue[k], f[k]) /\ StepAxes(f[k - 1], queue[k], f[k])
        BY RunSteps
    <2>2. \A i \in 1 .. k : i = k \/ i \in 1 .. k - 1
        BY <1>1
    <2>3. \A i \in 1 .. k - 1 : i \in 1 .. k
        BY <1>1
    <2>4. ASSUME NEW i \in 1 .. k, LastAxis(queue, i, a, k)
          PROVE  Shows(f[k].pkt, a, queue[i].value)
        <3>1. CASE i = k
            BY <2>1, <2>4, <3>1 DEF StepAxes, LastAxis
        <3>2. CASE i # k
            <4>1. i \in 1 .. k - 1 /\ k \in i + 1 .. k
                  /\ \A j \in i + 1 .. k - 1 : j \in i + 1 .. k
                BY <1>1, <3>2
            <4>2. LastAxis(queue, i, a, k - 1) /\ ~IsAxis(queue[k], a)
                BY <2>4, <4>1 DEF LastAxis
            <4>3. Shows(f[k - 1].pkt, a, queue[i].value)
                BY <1>3, <4>1, <4>2
            <4>. QED
                BY <2>1, <4>2, <4>3 DEF StepAxes
        <3>. QED
            BY <3>1, <3>2
    <2>5. ASSUME \A i \in 1 .. k : ~IsAxis(queue[i], a), NEW v, Shows(rdr.pkt, a, v)
          PROVE  Shows(f[k].pkt, a, v)
        <3>1. k \in 1 .. k /\ \A i \in 1 .. k - 1 : ~IsAxis(queue[i], a)
            BY <1>1, <2>3, <2>5
        <3>2. Shows(f[k - 1].pkt, a, v)
            BY <1>3, <2>5, <3>1
        <3>. QED
            BY <2>1, <2>5, <3>1, <3>2 DEF StepAxes
    <2>6. HasPan(rdr.pkt) => HasPan(f[k].pkt)
        BY <1>3, <2>1 DEF Step
    <2>7. \A i \in 1 .. k : IsAxis(queue[i], "pan") => HasPan(f[k].pkt)
        BY <1>3, <2>1, <2>2 DEF Step
    <2>. QED
        BY <2>4, <2>5, <2>6, <2>7
<1>4. \A k \in 0 .. n : k \in P
    <2>. HIDE DEF P
    <2>. QED
        BY <1>1, <1>2, <1>3, Induction
<1>5. n \in P
    <2>. HIDE DEF P
    <2>. QED
        BY <1>1, <1>4
<1>. QED
    BY <1>5

\* Of the first n events in q, i is the last of a button of group g.
LastHeld(q, i, g, n) == IsHeld(q[i], g) /\ \A j \in i + 1 .. n : ~IsHeld(q[j], g)

\* So it is with the buttons.
LEMMA RunGroups ==
    ASSUME BaseInv, NEW n \in 0 .. Len(queue), NEW f, Run(f, n), NEW g \in HeldGroups
    PROVE  /\ \A i \in 1 .. n : LastHeld(queue, i, g, n) /\ queue[i].value = 0
                                    => f[n].pkt.flags \cap CC[g] = {}
           /\ (\A i \in 1 .. n : ~IsHeld(queue[i], g))
                 => f[n].pkt.flags \cap CC[g] = rdr.pkt.flags \cap CC[g]
<1> DEFINE P == {k \in 0 .. n :
                   /\ \A i \in 1 .. k : LastHeld(queue, i, g, k) /\ queue[i].value = 0
                                            => f[k].pkt.flags \cap CC[g] = {}
                   /\ (\A i \in 1 .. k : ~IsHeld(queue[i], g))
                         => f[k].pkt.flags \cap CC[g] = rdr.pkt.flags \cap CC[g]}
<1>1. n \in Nat
    BY DEF BaseInv
<1>2. 0 \in P
    BY <1>1 DEF Run, Start
<1>3. ASSUME NEW k \in 1 .. n, k - 1 \in P
      PROVE  k \in P
    <2>1. StepGroups(f[k - 1], queue[k], f[k])
        BY RunSteps
    <2>2. \A i \in 1 .. k : i = k \/ i \in 1 .. k - 1
        BY <1>1
    <2>3. \A i \in 1 .. k - 1 : i \in 1 .. k
        BY <1>1
    <2>4. ASSUME NEW i \in 1 .. k, LastHeld(queue, i, g, k), queue[i].value = 0
          PROVE  f[k].pkt.flags \cap CC[g] = {}
        <3>1. CASE i = k
            BY <2>1, <2>4, <3>1 DEF StepGroups, LastHeld
        <3>2. CASE i # k
            <4>1. i \in 1 .. k - 1 /\ k \in i + 1 .. k
                  /\ \A j \in i + 1 .. k - 1 : j \in i + 1 .. k
                BY <1>1, <3>2
            <4>2. LastHeld(queue, i, g, k - 1) /\ ~IsHeld(queue[k], g)
                BY <2>4, <4>1 DEF LastHeld
            <4>3. f[k - 1].pkt.flags \cap CC[g] = {}
                BY <1>3, <2>4, <4>1, <4>2
            <4>. QED
                BY <2>1, <4>2, <4>3 DEF StepGroups
        <3>. QED
            BY <3>1, <3>2
    <2>5. ASSUME \A i \in 1 .. k : ~IsHeld(queue[i], g)
          PROVE  f[k].pkt.flags \cap CC[g] = rdr.pkt.flags \cap CC[g]
        <3>1. k \in 1 .. k /\ \A i \in 1 .. k - 1 : ~IsHeld(queue[i], g)
            BY <1>1, <2>3, <2>5
        <3>2. f[k - 1].pkt.flags \cap CC[g] = rdr.pkt.flags \cap CC[g]
            BY <1>3, <3>1
        <3>. QED
            BY <2>1, <2>5, <3>1, <3>2 DEF StepGroups
    <2>. QED
        BY <2>4, <2>5
<1>4. \A k \in 0 .. n : k \in P
    <2>. HIDE DEF P
    <2>. QED
        BY <1>1, <1>2, <1>3, Induction
<1>5. n \in P
    <2>. HIDE DEF P
    <2>. QED
        BY <1>1, <1>4
<1>. QED
    BY <1>5

\* A preset is asked for by an event that no movement follows.
LEMMA RunPreset ==
    ASSUME BaseInv, NEW n \in 0 .. Len(queue), NEW f, Run(f, n)
    PROVE  \/ PresetFree(f[n].pkt)
           \/ \E i \in 1 .. n : /\ IsAsked(queue[i], f[n].pkt)
                                /\ \A j \in i + 1 .. n : queue[j].type # "axis"
<1> DEFINE P == {k \in 0 .. n :
                   \/ PresetFree(f[k].pkt)
                   \/ \E i \in 1 .. k : /\ IsAsked(queue[i], f[k].pkt)
                                        /\ \A j \in i + 1 .. k : queue[j].type # "axis"}
<1>1. n \in Nat
    BY DEF BaseInv
<1>2. 0 \in P
    BY <1>1 DEF Run, Start, BaseInv
<1>3. ASSUME NEW k \in 1 .. n, k - 1 \in P
      PROVE  k \in P
    <2>1. StepPreset(f[k - 1], queue[k], f[k])
        BY RunSteps
    <2>2. CASE PresetFree(f[k].pkt)
        BY <2>2
    <2>3. CASE IsAsked(queue[k], f[k].pkt)
        <3>1. k \in 1 .. k /\ k + 1 .. k = {}
            BY <1>1
        <3>. QED
            BY <2>3, <3>1
    <2>4. CASE /\ queue[k].type # "axis" /\ f[k].pkt.preset = f[k - 1].pkt.preset
               /\ f[k].pkt.flags \cap CC["preset"] = f[k - 1].pkt.flags \cap CC["preset"]
        <3>1. CASE PresetFree(f[k - 1].pkt)
            BY <2>4, <3>1 DEF PresetFree
        <3>2. ASSUME NEW i \in 1 .. k - 1, IsAsked(queue[i], f[k - 1].pkt),
                     \A j \in i + 1 .. k - 1 : queue[j].type # "axis"
              PROVE  k \in P
            <4>1. i \in 1 .. k /\ \A j \in i + 1 .. k : j = k \/ j \in i + 1 .. k - 1
                BY <1>1
            <4>2. IsAsked(queue[i], f[k].pkt)
                BY <2>4, <3>2 DEF IsAsked
            <4>. QED
                BY <2>4, <3>2, <4>1, <4>2
        <3>. QED
            BY <1>3, <3>1, <3>2
    <2>. QED
        BY <2>1, <2>2, <2>3, <2>4 DEF StepPreset
<1>4. \A k \in 0 .. n : k \in P
    <2>. HIDE DEF P
    <2>. QED
        BY <1>1, <1>2, <1>3, Induction
<1>5. n \in P
    <2>. HIDE DEF P
    <2>. QED
        BY <1>1, <1>4
<1>. QED
    BY <1>5

\* The packet is for the camera that the events choose.
LEMMA RunReceiver ==
    ASSUME BaseInv, NEW n \in 0 .. Len(queue), NEW f, Run(f, n),
           NEW es \in Seq(UserEvents), Len(es) = n, \A k \in 1 .. n : es[k] = queue[k]
    PROVE  f[n].receiver = Chosen(es) /\ Chosen(es) \in 0 .. MAX_CAMERA
<1>1. PICK g \in [0 .. Len(es) -> 0 .. MAX_CAMERA] :
            /\ g[0] = chosen /\ Chosen(es) = g[Len(es)]
            /\ \A k \in 1 .. Len(es) : g[k] = ChosenBy(es[k], g[k - 1])
    BY ChosenIs
<1> DEFINE P == {k \in 0 .. n : f[k].receiver = g[k]}
<1>2. n \in Nat
    BY DEF BaseInv
<1>3. 0 \in P
    BY <1>1, <1>2 DEF Run, Start, BaseInv
<1>4. ASSUME NEW k \in 1 .. n, k - 1 \in P
      PROVE  k \in P
    <2>1. f[k].receiver = ChosenBy(queue[k], f[k - 1].receiver)
        BY RunSteps DEF Step
    <2>2. g[k] = ChosenBy(queue[k], g[k - 1])
        BY <1>1
    <2>. QED
        BY <1>4, <2>1, <2>2
<1>5. \A k \in 0 .. n : k \in P
    <2>. HIDE DEF P
    <2>. QED
        BY <1>2, <1>3, <1>4, Induction
<1>6. n \in P
    <2>. HIDE DEF P
    <2>. QED
        BY <1>2, <1>5
<1>. QED
    BY <1>1, <1>2, <1>6

-----------------------------------------------------------------------------
(* What is given to the writers.                                            *)

Nodes == [range_first : Int, range_last : Int, shift : Int, n_rcv : Nat]

LEMMA NodesAre == nodes \in Seq(Nodes)
<1> DEFINE D == [range : Seq(Int), shift : Int, n_rcv : Nat]
           node(d) == ccnode_set_range(ccnode_init(d), d.range)
<1>1. Directives \in Seq(D) /\ Len(Directives) \in Nat
    BY JoystickAssumption
<1>2. ASSUME NEW d \in D PROVE node(d) \in Nodes
    <2> DEFINE b == ccnode_init(d)
    <2>1. b \in Nodes
        BY DEF ccnode_init, Nodes, MAX_CAMERA
    <2>2. /\ d.range \in Seq(Int)
          /\ Len(d.range) = 2 => d.range[1] \in Int /\ -d.range[2] \in Int
          /\ Len(d.range) = 1 => d.range[1] \in Int
        OBVIOUS
    <2>. HIDE DEF b
    <2>3. ccnode_set_range(b, d.range) \in Nodes
        BY <2>1, <2>2 DEF ccnode_set_range, Nodes
    <2>. QED
        BY <2>3 DEF b
<1> DEFINE ns == [j \in 1 .. Len(Directives) |-> node(Directives[j])]
<1>3. ns \in Seq(Nodes) /\ Len(ns) = Len(Directives)
    <2>1. \A d \in D : node(d) \in Nodes
        BY <1>2
    <2>. HIDE DEF node, D
    <2>2. \A j \in 1 .. Len(Directives) : Directives[j] \in D
        BY <1>1
    <2>3. \A j \in 1 .. Len(Directives) : node(Directives[j]) \in Nodes
        BY <2>1, <2>2
    <2>. QED
        BY <1>1, <2>3
<1>4. nodes = Reverse(ns)
    BY DEF nodes, Links
<1>. HIDE DEF ns
<1>. QED
    BY <1>3, <1>4 DEF Reverse

\* Link j is due a packet for camera c, with that receiver.
IsDue(c, j) == /\ c \in nodes[j].range_first .. nodes[j].range_last
               /\ c + nodes[j].shift \in 1 .. nodes[j].n_rcv
Dued(c, j) == [link |-> j, receiver |-> c + nodes[j].shift]

DueTo(c, k) == {Dued(c, j) : j \in {i \in 1 .. k : IsDue(c, i)}}

Writings == [receiver : Int, written : Seq([link : Nat, receiver : Int])]

\* What one link adds.
Adds(c, k, w, v) ==
    v.written = IF IsDue(c, k) THEN Append(w.written, Dued(c, k)) ELSE w.written

LEMMA WriterStep ==
    ASSUME NEW c \in Int, NEW w \in Writings, NEW k \in 1 .. Len(nodes),
           NEW v, v = DoWriter(w, k, nodes[k], c)
    PROVE  v \in Writings /\ Adds(c, k, w, v)
<1> DEFINE q == ccnode_get_receiver(nodes[k], c)
           x == [w EXCEPT !.receiver = q]
<1>1. nodes[k] \in Nodes /\ k \in Nat
    BY NodesAre
<1>2. /\ nodes[k].range_first \in Int /\ nodes[k].range_last \in Int
      /\ nodes[k].shift \in Int /\ nodes[k].n_rcv \in Nat
    BY <1>1 DEF Nodes
<1>3. /\ q \in Int
      /\ IsDue(c, k) <=> q # 0 /\ q \in 1 .. nodes[k].n_rcv
      /\ IsDue(c, k) => q = c + nodes[k].shift
    BY <1>2 DEF ccnode_get_receiver, IsDue
<1>. HIDE DEF q
<1>4. x \in Writings /\ x.receiver = q /\ x.written = w.written
    BY <1>3 DEF Writings
<1>5. v = IF q = 0 THEN w ELSE ccwriter_do_write(x, k, nodes[k])
    BY DEF DoWriter, q
<1>. HIDE DEF x
<1>6. CASE IsDue(c, k)
    <2>1. v = [x EXCEPT !.written = Append(x.written, [link |-> k, receiver |-> q])]
        BY <1>3, <1>4, <1>5, <1>6 DEF ccwriter_do_write
    <2>2. [link |-> k, receiver |-> q] = Dued(c, k)
        BY <1>3, <1>6 DEF Dued
    <2>3. [link |-> k, receiver |-> q] \in [link : Nat, receiver : Int]
        BY <1>1, <1>3
    <2>4. PICK R : R = [link : Nat, receiver : Int]
        OBVIOUS
    <2>5. PICK e \in R : e = [link |-> k, receiver |-> q]
        BY <2>3, <2>4
    <2>6. x \in [receiver : Int, written : Seq(R)]
        BY <1>4, <2>4 DEF Writings
    <2>7. v = [x EXCEPT !.written = Append(x.written, e)]
        BY <2>1, <2>5
    <2>8. v \in [receiver : Int, written : Seq(R)] /\ v.written = Append(x.written, e)
        <3>1. PICK y \in Seq(R) : y = x.written
            BY <2>6
        <3>2. Append(y, e) \in Seq(R)
            OBVIOUS
        <3>3. PICK z \in Seq(R) : z = Append(y, e)
            BY <3>2
        <3>4. v = [x EXCEPT !.written = z]
            BY <2>7, <3>1, <3>3
        <3>5. v \in [receiver : Int, written : Seq(R)] /\ v.written = z
            BY <2>6, <3>4
        <3>. QED
            BY <3>1, <3>3, <3>5
    <2>. QED
        BY <1>4, <1>6, <2>2, <2>4, <2>5, <2>8 DEF Writings, Adds
<1>7. CASE ~IsDue(c, k)
    <2>1. v = w \/ v = x
        BY <1>3, <1>4, <1>5, <1>7 DEF ccwriter_do_write
    <2>. QED
        BY <1>4, <1>7, <2>1 DEF Adds
<1>. QED
    BY <1>6, <1>7

\* Everything due is written once.
LEMMA WrittenIsDue ==
    ASSUME NEW c \in Int
    PROVE  /\ Range(ccreader_do_writers(nodes, c).written) = Due(c)
           /\ Len(ccreader_do_writers(nodes, c).written) = Cardinality(Due(c))
           /\ ccreader_do_writers(nodes, c).receiver = c
<1> DEFINE n == Len(nodes)
           s == [receiver |-> c, written |-> << >>]
           step == [k \in 1 .. n |-> [w \in Writings |-> DoWriter(w, k, nodes[k], c)]]
           F(g) == g = [k \in 0 .. n |-> IF k = 0 THEN s
                                         ELSE DoWriter(g[k - 1], k, nodes[k], c)]
<1>1. n \in Nat /\ s \in Writings
    BY NodesAre DEF Writings
<1>2. step \in [1 .. n -> [Writings -> Writings]]
    BY WriterStep
<1>3. PICK g : Solves(g, n, Writings, s, step)
    <2>. HIDE DEF step, s, n
    <2>. QED
        BY <1>1, <1>2, Recursion
<1>4. ASSUME NEW k \in 0 .. n
      PROVE  g[k] = IF k = 0 THEN s ELSE DoWriter(g[k - 1], k, nodes[k], c)
    <2>1. k # 0 => k \in 1 .. n /\ k - 1 \in 0 .. n /\ g[k - 1] \in Writings
        BY <1>1, <1>3 DEF Solves
    <2>2. g[k] = IF k = 0 THEN s ELSE step[k][g[k - 1]]
        BY <1>3 DEF Solves
    <2>. QED
        BY <2>1, <2>2
<1>5. F(g)
    BY <1>3, <1>4 DEF Solves
<1> DEFINE f == CHOOSE h : F(h)
<1>6. F(f)
    BY <1>5
<1>7. DoWriters(nodes, c) = f[n]
    BY DEF DoWriters
<1>8. f[0] = s /\ \A k \in 1 .. n : f[k] = DoWriter(f[k - 1], k, nodes[k], c)
    <2>. HIDE DEF f
    <2>1. \A k \in 0 .. n : f[k] = IF k = 0 THEN s ELSE DoWriter(f[k - 1], k, nodes[k], c)
        BY <1>6
    <2>2. 0 \in 0 .. n /\ \A k \in 1 .. n : k \in 0 .. n /\ k # 0
        BY <1>1
    <2>. QED
        BY <2>1, <2>2
<1>. HIDE DEF f, F
<1> DEFINE W(k) == /\ f[k] \in Writings /\ Range(f[k].written) = DueTo(c, k)
                   /\ IsFiniteSet(DueTo(c, k))
                   /\ Len(f[k].written) = Cardinality(DueTo(c, k))
           P == {k \in 0 .. n : W(k)}
<1>9. 0 \in P
    <2>1. DueTo(c, 0) = {}
        BY DEF DueTo
    <2>2. f[0] \in Writings /\ f[0].written = << >>
        BY <1>1, <1>8
    <2>3. Range(<< >>) = {} /\ Len(<< >>) = 0
        BY DEF Range
    <2>4. IsFiniteSet({}) /\ Cardinality({}) = 0
        BY FS_EmptySet
    <2>5. W(0)
        BY <2>1, <2>2, <2>3, <2>4, Zenon
    <2>. HIDE DEF W
    <2>. QED
        BY <1>1, <2>5
<1>10. ASSUME NEW k \in 1 .. n, k - 1 \in P
       PROVE  k \in P
    <2> DEFINE w == f[k - 1]
               d == Dued(c, k)
    <2>1. f[k] = DoWriter(w, k, nodes[k], c) /\ w \in Writings
        BY <1>8, <1>10
    <2>2. /\ f[k] \in Writings
          /\ f[k].written = IF IsDue(c, k) THEN Append(w.written, d) ELSE w.written
        <3>. HIDE DEF w
        <3>1. f[k] \in Writings /\ Adds(c, k, w, f[k])
            BY <2>1, WriterStep
        <3>. QED
            BY <3>1 DEF Adds
    <2>3. \A i \in 1 .. k : i = k \/ i \in 1 .. k - 1
        BY <1>1
    <2>4. k \in 1 .. k /\ \A i \in 1 .. k - 1 : i \in 1 .. k /\ i # k
        BY <1>1
    <2>5. CASE IsDue(c, k)
        <3>1. DueTo(c, k) = DueTo(c, k - 1) \cup {d}
            BY <2>3, <2>4, <2>5 DEF DueTo
        <3>2. d \notin DueTo(c, k - 1)
            <4>1. \A i \in 1 .. k - 1 : Dued(c, i).link # Dued(c, k).link
                BY <2>4 DEF Dued
            <4>. QED
                BY <4>1 DEF DueTo
        <3>3. /\ IsFiniteSet(DueTo(c, k))
              /\ Cardinality(DueTo(c, k)) = Cardinality(DueTo(c, k - 1)) + 1
            BY <1>10, <3>1, <3>2, FS_AddElement
        <3>4. w.written \in Seq([link : Nat, receiver : Int])
            BY <2>1 DEF Writings
        <3>5. /\ Len(Append(w.written, d)) = Len(w.written) + 1
              /\ Range(Append(w.written, d)) = Range(w.written) \cup {d}
            <4>1. PICK x : x = w.written /\ x \in Seq([link : Nat, receiver : Int])
                BY <3>4
            <4>2. /\ Len(Append(x, d)) = Len(x) + 1 /\ Len(x) \in Nat
                  /\ DOMAIN x = 1 .. Len(x) /\ DOMAIN Append(x, d) = 1 .. Len(x) + 1
                  /\ Append(x, d)[Len(x) + 1] = d
                  /\ \A i \in 1 .. Len(x) : Append(x, d)[i] = x[i]
                BY <4>1
            <4>3. Range(Append(x, d)) = Range(x) \cup {d}
                <5>1. \A i \in 1 .. Len(x) + 1 : i = Len(x) + 1 \/ i \in 1 .. Len(x)
                    BY <4>2
                <5>2. Len(x) + 1 \in 1 .. Len(x) + 1
                      /\ \A i \in 1 .. Len(x) : i \in 1 .. Len(x) + 1
                    BY <4>2
                <5>. HIDE DEF d
                <5>. QED
                    BY <4>2, <5>1, <5>2 DEF Range
            <4>. QED
                BY <4>1, <4>2, <4>3
        <3>6. f[k].written = Append(w.written, d)
            BY <2>2, <2>5
        <3>. HIDE DEF d
        <3>7. Range(f[k].written) = DueTo(c, k)
            BY <1>10, <3>1, <3>5, <3>6
        <3>8. Len(f[k].written) = Cardinality(DueTo(c, k))
            BY <1>10, <3>3, <3>5, <3>6
        <3>9. W(k)
            BY <2>2, <3>3, <3>7, <3>8
        <3>. HIDE DEF W
        <3>. QED
            BY <1>1, <3>9
    <2>6. CASE ~IsDue(c, k)
        <3>1. DueTo(c, k) = DueTo(c, k - 1)
            BY <2>3, <2>4, <2>6 DEF DueTo
        <3>. QED
            BY <1>10, <2>2, <2>6, <3>1
    <2>. QED
        BY <2>5, <2>6
<1>11. \A k \in 0 .. n : k \in P
    <2>. HIDE DEF P
    <2>. QED
        BY <1>1, <1>9, <1>10, Induction
<1>12. n \in P
    <2>. HIDE DEF P
    <2>. QED
        BY <1>1, <1>11
<1>13. Due(c) = DueTo(c, n)
    BY DEF Due, DueTo, Dued, IsDue
<1>14. /\ ccreader_do_writers(nodes, c).written = f[n].written
       /\ ccreader_do_writers(nodes, c).receiver = c
    <2>1. ccreader_do_writers(nodes, c) = [f[n] EXCEPT !.receiver = c] /\ f[n] \in Writings
        BY <1>7, <1>12 DEF ccreader_do_writers
    <2>. QED
        BY <2>1 DEF Writings
<1>. QED
    BY <1>12, <1>13, <1>14

-----------------------------------------------------------------------------
(* The inductive invariant.                                                 *)

\* The events in q, or else the packet p, say that axis a stands at v.
AxisSays(q, a, v, p) ==
    \/ \E i \in 1 .. Len(q) : LastAxis(q, i, a, Len(q)) /\ q[i].value = v
    \/ (\A i \in 1 .. Len(q) : ~IsAxis(q[i], a)) /\ Shows(p, a, v)

\* The events in q, or else the packet p, say that nothing of group g goes on, or a
\* button of it is held.
GroupSays(q, g, h, p) ==
    \/ \E i \in 1 .. Len(q) : /\ LastHeld(q, i, g, Len(q))
                              /\ q[i].value = 0 \/ q[i].number \in h
    \/ /\ \A i \in 1 .. Len(q) : ~IsHeld(q[i], g)
       /\ \/ p.flags \cap CC[g] = {}
          \/ \E b \in h \cap DOMAIN BUTTON : BUTTON[b].group = g

\* The first event in q that counts is of the pan.
PanFirst(q) ==
    \E i \in 1 .. Len(q) :
        /\ IsAxis(q[i], "pan")
        /\ \A j \in 1 .. i - 1 : q[j].type = "button" /\ q[j].initial

\* What was given last, and packet p is kept of it.
Given(g, p) ==
    /\ g.pkt \in Packets /\ Modes(g.pkt) /\ HasPan(g.pkt) /\ p = NoPreset(g.pkt)
    /\ Range(g.written) = Due(g.chosen) /\ Len(g.written) = Cardinality(Due(g.chosen))
    /\ LET mode == ccpacket_get_preset_mode(g.pkt)
       IN mode # {} => Button(g.pkt.preset + 5, mode = {"preset_recall"}) \in g.presets

StateInv == /\ open \in BOOLEAN /\ stick \in [Axes -> Positions] /\ held \subseteq Range(Buttons)
            /\ closes \in Nat
LastInv  == \/ last = << >> /\ rdr.pkt = Cleared
            \/ \E g : last = <<g>> /\ Given(g, rdr.pkt)
PanInv   == open /\ last = << >> => PanFirst(queue)
AxesInv  == open => \A a \in Axes : AxisSays(queue, a, stick[a], rdr.pkt)
HeldInv  == closes = 0 => IF open THEN \A g \in HeldGroups : GroupSays(queue, g, held, rdr.pkt)
                          ELSE last = << >>

Inv == BaseInv /\ StateInv /\ LastInv /\ PanInv /\ AxesInv /\ HeldInv

LEMMA ClearedIs == Cleared \in Packets /\ Modes(Cleared) /\ PresetFree(Cleared)
BY PacketAssumption DEF Cleared, Packets, Modes, PresetFree

LEMMA InitInv == Init => Inv
<1> SUFFICES ASSUME Init PROVE Inv
    OBVIOUS
<1>1. /\ open = FALSE /\ stick = [a \in Axes |-> 0] /\ held = {} /\ queue = << >>
      /\ rdr = [receiver |-> FirstCamera(Directives), pkt |-> Cleared]
      /\ last = << >> /\ chosen = FirstCamera(Directives) /\ closes = 0
    BY DEF Init
<1>2. FirstCamera(Directives) \in 0 .. MAX_CAMERA /\ 0 \in Positions
    BY JoystickAssumption
<1>3. BaseInv
    BY <1>1, <1>2, ClearedIs DEF BaseInv
<1>4. StateInv /\ LastInv /\ PanInv /\ AxesInv /\ HeldInv
    BY <1>1, <1>2 DEF StateInv, LastInv, PanInv, AxesInv, HeldInv
<1>. QED
    BY <1>3, <1>4 DEF Inv

-----------------------------------------------------------------------------
(* An event that is queued.                                                 *)

LEMMA Appended ==
    ASSUME NEW q \in Seq(UserEvents), NEW e \in UserEvents, NEW r, r = Append(q, e)
    PROVE  /\ r \in Seq(UserEvents) /\ Len(q) \in Nat /\ Len(r) = Len(q) + 1
           /\ r[Len(q) + 1] = e /\ \A i \in 1 .. Len(q) : r[i] = q[i]
OBVIOUS

LEMMA AppendAxis ==
    ASSUME NEW q \in Seq(UserEvents), NEW e \in UserEvents, NEW a, NEW v, NEW p
    PROVE  /\ IsAxis(e, a) /\ e.value = v => AxisSays(Append(q, e), a, v, p)
           /\ ~IsAxis(e, a) /\ AxisSays(q, a, v, p) => AxisSays(Append(q, e), a, v, p)
<1>1. PICK r : r = Append(q, e)
    OBVIOUS
<1>2. PICK n \in Nat : n = Len(q)
    OBVIOUS
<1>3. /\ Len(r) = n + 1 /\ r[n + 1] = e /\ \A i \in 1 .. n : r[i] = q[i]
    BY <1>1, <1>2, Appended
<1>4. /\ n + 1 \in 1 .. n + 1 /\ n + 1 + 1 .. n + 1 = {}
      /\ \A i \in 1 .. n + 1 : i = n + 1 \/ i \in 1 .. n
      /\ \A i \in 1 .. n : /\ i \in 1 .. n + 1
                           /\ \A j \in i + 1 .. n + 1 : j = n + 1 \/ j \in i + 1 .. n
                           /\ \A j \in i + 1 .. n : j \in 1 .. n
    OBVIOUS
<1>5. ASSUME IsAxis(e, a), e.value = v
      PROVE  AxisSays(r, a, v, p)
    BY <1>3, <1>4, <1>5 DEF AxisSays, LastAxis
<1>6. ASSUME ~IsAxis(e, a), NEW i \in 1 .. n, LastAxis(q, i, a, n), q[i].value = v
      PROVE  AxisSays(r, a, v, p)
    <2>1. LastAxis(r, i, a, n + 1)
        BY <1>3, <1>4, <1>6 DEF LastAxis
    <2>. QED
        BY <1>3, <1>4, <1>6, <2>1 DEF AxisSays
<1>7. ASSUME ~IsAxis(e, a), \A i \in 1 .. n : ~IsAxis(q[i], a), Shows(p, a, v)
      PROVE  AxisSays(r, a, v, p)
    BY <1>3, <1>4, <1>7 DEF AxisSays
<1>. QED
    BY <1>1, <1>2, <1>5, <1>6, <1>7 DEF AxisSays

LEMMA AppendHeld ==
    ASSUME NEW q \in Seq(UserEvents), NEW e \in UserEvents, NEW g, NEW h, NEW p
    PROVE  /\ IsHeld(e, g) /\ (e.value = 0 \/ e.number \in h) => GroupSays(Append(q, e), g, h, p)
           /\ ~IsHeld(e, g) /\ GroupSays(q, g, h, p) => GroupSays(Append(q, e), g, h, p)
<1>1. PICK r : r = Append(q, e)
    OBVIOUS
<1>2. PICK n \in Nat : n = Len(q)
    OBVIOUS
<1>3. /\ Len(r) = n + 1 /\ r[n + 1] = e /\ \A i \in 1 .. n : r[i] = q[i]
    BY <1>1, <1>2, Appended
<1>4. /\ n + 1 \in 1 .. n + 1 /\ n + 1 + 1 .. n + 1 = {}
      /\ \A i \in 1 .. n + 1 : i = n + 1 \/ i \in 1 .. n
      /\ \A i \in 1 .. n : /\ i \in 1 .. n + 1
                           /\ \A j \in i + 1 .. n + 1 : j = n + 1 \/ j \in i + 1 .. n
                           /\ \A j \in i + 1 .. n : j \in 1 .. n
    OBVIOUS
<1>5. ASSUME IsHeld(e, g), e.value = 0 \/ e.number \in h
      PROVE  GroupSays(r, g, h, p)
    BY <1>3, <1>4, <1>5 DEF GroupSays, LastHeld
<1>6. ASSUME ~IsHeld(e, g), NEW i \in 1 .. n, LastHeld(q, i, g, n),
             q[i].value = 0 \/ q[i].number \in h
      PROVE  GroupSays(r, g, h, p)
    <2>1. LastHeld(r, i, g, n + 1)
        BY <1>3, <1>4, <1>6 DEF LastHeld
    <2>. QED
        BY <1>3, <1>4, <1>6, <2>1 DEF GroupSays
<1>7. ASSUME ~IsHeld(e, g), \A i \in 1 .. n : ~IsHeld(q[i], g),
             \/ p.flags \cap CC[g] = {}
             \/ \E b \in h \cap DOMAIN BUTTON : BUTTON[b].group = g
      PROVE  GroupSays(r, g, h, p)
    BY <1>3, <1>4, <1>7 DEF GroupSays
<1>. QED
    BY <1>1, <1>2, <1>5, <1>6, <1>7 DEF GroupSays

LEMMA AppendPan ==
    ASSUME NEW q \in Seq(UserEvents), NEW e \in UserEvents, PanFirst(q)
    PROVE  PanFirst(Append(q, e))
<1>1. PICK r : r = Append(q, e)
    OBVIOUS
<1>2. Len(q) \in Nat /\ Len(r) = Len(q) + 1 /\ \A i \in 1 .. Len(q) : r[i] = q[i]
    BY <1>1, Appended
<1>3. PICK i \in 1 .. Len(q) :
            /\ IsAxis(q[i], "pan")
            /\ \A j \in 1 .. i - 1 : q[j].type = "button" /\ q[j].initial
    BY DEF PanFirst
<1>4. i \in 1 .. Len(r) /\ \A j \in 1 .. i - 1 : j \in 1 .. Len(q)
    BY <1>2
<1>. QED
    BY <1>1, <1>2, <1>3, <1>4 DEF PanFirst

\* The user's events, and what they are of.
LEMMA EventsAre ==
    /\ \A a \in Axes, v \in Positions :
          LET e == Axis(a, v)
          IN /\ e \in UserEvents /\ e.value = v /\ \A b : IsAxis(e, b) <=> b = a
             /\ \A g : ~IsHeld(e, g)
    /\ \A b \in Range(Buttons), d \in BOOLEAN :
          LET e == Button(b, d)
          IN /\ e \in UserEvents /\ e.number = b /\ (~d => e.value = 0)
             /\ \A a : ~IsAxis(e, a)
             /\ \A g : IsHeld(e, g) => b \in DOMAIN BUTTON /\ BUTTON[b].group = g
<1>1. ASSUME NEW a \in Axes, NEW v \in Positions, NEW e, e = Axis(a, v)
      PROVE  /\ e \in UserEvents /\ e.value = v /\ \A b : IsAxis(e, b) <=> b = a
             /\ \A g : ~IsHeld(e, g)
    <2>1. e = [type |-> "axis", number |-> a, value |-> v, initial |-> FALSE]
        BY <1>1 DEF Axis
    <2>2. e \in AxisEvents
        BY <2>1 DEF AxisEvents
    <2>. QED
        BY <2>1, <2>2 DEF UserEvents, IsAxis, IsHeld
<1>2. ASSUME NEW b \in Range(Buttons), NEW d \in BOOLEAN, NEW e, e = Button(b, d)
      PROVE  /\ e \in UserEvents /\ e.number = b /\ (~d => e.value = 0)
             /\ \A a : ~IsAxis(e, a)
             /\ \A g : IsHeld(e, g) => b \in DOMAIN BUTTON /\ BUTTON[b].group = g
    <2>1. PICK w \in {0, 1} : w = IF d THEN 1 ELSE 0
        OBVIOUS
    <2>2. e = [type |-> "button", number |-> b, value |-> w, initial |-> FALSE]
        BY <1>2, <2>1 DEF Button
    <2>3. e \in ButtonEvents
        BY <2>2 DEF ButtonEvents
    <2>4. ~d => w = 0
        BY <2>1
    <2>. QED
        BY <2>2, <2>3, <2>4 DEF UserEvents, IsAxis, IsHeld
<1>. QED
    BY <1>1, <1>2

\* The event e, as one that says how a device stands when it is opened.
AsInitial(e) == [e EXCEPT !.initial = TRUE]

LEMMA InitialEventIs ==
    /\ \A b \in Range(Buttons), d \in BOOLEAN :
          LET e == AsInitial(Button(b, d))
          IN /\ e \in UserEvents /\ e.type = "button" /\ e.initial
             /\ \A a : ~IsAxis(e, a)
             /\ \A g : ~IsHeld(e, g)
    /\ \A a \in Axes, v \in Positions :
          LET e == AsInitial(Axis(a, v))
          IN /\ e \in UserEvents /\ e.value = v /\ \A b : IsAxis(e, b) <=> b = a
             /\ \A g : ~IsHeld(e, g)
<1>1. ASSUME NEW b \in Range(Buttons), NEW d \in BOOLEAN, NEW e, e = AsInitial(Button(b, d))
      PROVE  /\ e \in UserEvents /\ e.type = "button" /\ e.initial
             /\ \A a : ~IsAxis(e, a)
             /\ \A g : ~IsHeld(e, g)
    <2>1. PICK w \in {0, 1} : w = IF d THEN 1 ELSE 0
        OBVIOUS
    <2>2. Button(b, d) = [type |-> "button", number |-> b, value |-> w, initial |-> FALSE]
        BY <2>1 DEF Button
    <2>3. e = [type |-> "button", number |-> b, value |-> w, initial |-> TRUE]
        <3>1. PICK x \in ButtonEvents :
                    x = [type |-> "button", number |-> b, value |-> w, initial |-> FALSE]
            BY DEF ButtonEvents
        <3>2. e = [x EXCEPT !.initial = TRUE]
            BY <1>1, <2>2, <3>1 DEF AsInitial
        <3>. QED
            BY <3>1, <3>2 DEF ButtonEvents
    <2>4. e \in ButtonEvents
        BY <2>3 DEF ButtonEvents
    <2>. QED
        BY <2>3, <2>4 DEF UserEvents, IsAxis, IsHeld
<1>2. ASSUME NEW a \in Axes, NEW v \in Positions, NEW e, e = AsInitial(Axis(a, v))
      PROVE  /\ e \in UserEvents /\ e.value = v /\ \A b : IsAxis(e, b) <=> b = a
             /\ \A g : ~IsHeld(e, g)
    <2>1. Axis(a, v) = [type |-> "axis", number |-> a, value |-> v, initial |-> FALSE]
        BY DEF Axis
    <2>2. e = [type |-> "axis", number |-> a, value |-> v, initial |-> TRUE]
        <3>1. PICK x \in AxisEvents :
                    x = [type |-> "axis", number |-> a, value |-> v, initial |-> FALSE]
            BY DEF AxisEvents
        <3>2. e = [x EXCEPT !.initial = TRUE]
            BY <1>2, <2>1, <3>1 DEF AsInitial
        <3>. QED
            BY <3>1, <3>2 DEF AxisEvents
    <2>3. e \in AxisEvents
        BY <2>2 DEF AxisEvents
    <2>. QED
        BY <2>2, <2>3 DEF UserEvents, IsAxis, IsHeld
<1>. QED
    BY <1>1, <1>2

LEMMA Joined ==
    ASSUME NEW S, NEW x \in Seq(S), NEW y \in Seq(S), NEW r, r = x \o y
    PROVE  /\ r \in Seq(S) /\ Len(r) = Len(x) + Len(y)
           /\ \A j \in 1 .. Len(x) : r[j] = x[j]
           /\ \A j \in 1 .. Len(y) : r[Len(x) + j] = y[j]
OBVIOUS

\* When the device is opened its events say how the stick stands, the pan first.
LEMMA InitialIs ==
    ASSUME StateInv, NEW q, q = InitialEvents
    PROVE  /\ q \in Seq(UserEvents) /\ PanFirst(q)
           /\ \A a \in Axes : \A p : AxisSays(q, a, stick[a], p)
           /\ \A i \in 1 .. Len(q) : \A g : ~IsHeld(q[i], g)
<1> DEFINE n == Len(Buttons)
           bs == [j \in 1 .. n |-> AsInitial(Button(Buttons[j], Buttons[j] \in held))]
           pan == AsInitial(Axis("pan", stick["pan"]))
           tilt == AsInitial(Axis("tilt", stick["tilt"]))
           zoom == AsInitial(Axis("zoom", stick["zoom"]))
<1>1. n \in Nat /\ Axes = {"pan", "tilt", "zoom"} /\ \A a \in Axes : stick[a] \in Positions
    BY JoystickAssumption DEF StateInv, Axes
<1>2. /\ \A j \in 1 .. n : /\ bs[j] \in UserEvents /\ bs[j].type = "button" /\ bs[j].initial
                           /\ \A a : ~IsAxis(bs[j], a)
                           /\ \A g : ~IsHeld(bs[j], g)
    <2>1. \A j \in 1 .. n : Buttons[j] \in Range(Buttons) /\ (Buttons[j] \in held) \in BOOLEAN
        BY JoystickAssumption DEF Range
    <2>2. ASSUME NEW j \in 1 .. n
          PROVE  /\ bs[j] \in UserEvents /\ bs[j].type = "button" /\ bs[j].initial
                 /\ \A a : ~IsAxis(bs[j], a)
                 /\ \A g : ~IsHeld(bs[j], g)
        <3>1. PICK b \in Range(Buttons), d \in BOOLEAN : bs[j] = AsInitial(Button(b, d))
            BY <2>1
        <3>. QED
            BY <3>1, InitialEventIs
    <2>. QED
        BY <2>2
<1>3. /\ pan \in UserEvents /\ pan.value = stick["pan"] /\ \A b : IsAxis(pan, b) <=> b = "pan"
      /\ \A g : ~IsHeld(pan, g)
    BY <1>1, InitialEventIs
<1>4. /\ tilt \in UserEvents /\ tilt.value = stick["tilt"]
      /\ \A b : IsAxis(tilt, b) <=> b = "tilt"
      /\ \A g : ~IsHeld(tilt, g)
    BY <1>1, InitialEventIs
<1>5. /\ zoom \in UserEvents /\ zoom.value = stick["zoom"]
      /\ \A b : IsAxis(zoom, b) <=> b = "zoom"
      /\ \A g : ~IsHeld(zoom, g)
    BY <1>1, InitialEventIs
<1>6. q = bs \o <<pan, tilt, zoom>>
    BY DEF InitialEvents, AsInitial
<1>7. bs \in Seq(UserEvents) /\ Len(bs) = n
    <2>. HIDE DEF n
    <2>. QED
        BY <1>1, <1>2
<1> HIDE DEF bs, pan, tilt, zoom, n
<1>8. /\ q \in Seq(UserEvents) /\ Len(q) = n + 3
      /\ \A j \in 1 .. n : q[j] = bs[j]
      /\ q[n + 1] = pan /\ q[n + 2] = tilt /\ q[n + 3] = zoom
    <2>1. <<pan, tilt, zoom>> \in Seq(UserEvents)
        BY <1>3, <1>4, <1>5
    <2>2. PICK z : z = <<pan, tilt, zoom>>
        OBVIOUS
    <2>3. z \in Seq(UserEvents) /\ Len(z) = 3 /\ z[1] = pan /\ z[2] = tilt /\ z[3] = zoom
        BY <2>1, <2>2
    <2>4. q = bs \o z
        BY <1>6, <2>2
    <2>5. /\ q \in Seq(UserEvents) /\ Len(q) = Len(bs) + Len(z)
          /\ \A j \in 1 .. Len(bs) : q[j] = bs[j]
          /\ \A j \in 1 .. Len(z) : q[Len(bs) + j] = z[j]
        <3>1. PICK x \in Seq(UserEvents) : x = bs
            BY <1>7
        <3>2. PICK y \in Seq(UserEvents) : y = z
            BY <2>3
        <3>3. q = x \o y
            BY <2>4, <3>1, <3>2
        <3>. QED
            BY <3>1, <3>2, <3>3, Joined
    <2>6. 1 \in 1 .. 3 /\ 2 \in 1 .. 3 /\ 3 \in 1 .. 3
        OBVIOUS
    <2>7. q[n + 1] = z[1] /\ q[n + 2] = z[2] /\ q[n + 3] = z[3]
        BY <1>7, <2>3, <2>5, <2>6
    <2>. QED
        BY <1>7, <2>3, <2>5, <2>7
<1>9. \A i \in 1 .. n + 3 : i \in 1 .. n \/ i = n + 1 \/ i = n + 2 \/ i = n + 3
    BY <1>1
<1>10. \A i \in 1 .. Len(q) : \A g : ~IsHeld(q[i], g)
    BY <1>2, <1>3, <1>4, <1>5, <1>8, <1>9
<1>11. PanFirst(q)
    <2>1. n + 1 \in 1 .. n + 3
        BY <1>1
    <2>2. PICK i : i = n + 1
        OBVIOUS
    <2>3. i \in 1 .. Len(q) /\ IsAxis(q[i], "pan")
        BY <1>3, <1>8, <2>1, <2>2
    <2>4. \A j \in 1 .. i - 1 : j \in 1 .. n
        BY <1>1, <2>2
    <2>5. ASSUME NEW j \in 1 .. i - 1
          PROVE  q[j].type = "button" /\ q[j].initial
        <3>1. j \in 1 .. n
            BY <2>4
        <3>2. q[j] = bs[j]
            BY <1>8, <3>1
        <3>3. bs[j].type = "button" /\ bs[j].initial
            BY <1>2, <3>1
        <3>. QED
            BY <3>2, <3>3
    <2>. QED
        BY <2>3, <2>5 DEF PanFirst
<1>12. ASSUME NEW p PROVE AxisSays(q, "pan", stick["pan"], p)
    <2>1. n + 1 \in 1 .. n + 3 /\ \A j \in n + 1 + 1 .. n + 3 : j = n + 2 \/ j = n + 3
        BY <1>1
    <2>2. LastAxis(q, n + 1, "pan", n + 3)
        BY <1>3, <1>4, <1>5, <1>8, <2>1 DEF LastAxis
    <2>. QED
        BY <1>3, <1>8, <2>1, <2>2 DEF AxisSays
<1>13. ASSUME NEW p PROVE AxisSays(q, "tilt", stick["tilt"], p)
    <2>1. n + 2 \in 1 .. n + 3 /\ \A j \in n + 2 + 1 .. n + 3 : j = n + 3
        BY <1>1
    <2>2. LastAxis(q, n + 2, "tilt", n + 3)
        BY <1>4, <1>5, <1>8, <2>1 DEF LastAxis
    <2>. QED
        BY <1>4, <1>8, <2>1, <2>2 DEF AxisSays
<1>14. ASSUME NEW p PROVE AxisSays(q, "zoom", stick["zoom"], p)
    <2>1. n + 3 \in 1 .. n + 3 /\ n + 3 + 1 .. n + 3 = {}
        BY <1>1
    <2>2. LastAxis(q, n + 3, "zoom", n + 3)
        BY <1>5, <1>8, <2>1 DEF LastAxis
    <2>. QED
        BY <1>5, <1>8, <2>1, <2>2 DEF AxisSays
<1>. QED
    BY <1>1, <1>8, <1>10, <1>11, <1>12, <1>13, <1>14

-----------------------------------------------------------------------------
(* Every action preserves the invariant.                                    *)

\* What the user does comes after what is queued; nothing is given by it.
LEMMA UserStep ==
    ASSUME Inv, NEW e \in UserEvents, Event(e)
    PROVE  BaseInv' /\ LastInv' /\ PanInv'
<1>1. /\ queue' = IF open THEN Append(queue, e) ELSE queue
      /\ open' = open /\ rdr' = rdr /\ last' = last /\ chosen' = chosen
    BY DEF Event
<1>2. BaseInv /\ LastInv /\ PanInv /\ open \in BOOLEAN
    BY DEF Inv, StateInv
<1>3. queue' \in Seq(UserEvents)
    BY <1>1, <1>2 DEF BaseInv
<1>4. BaseInv'
    BY <1>1, <1>2, <1>3 DEF BaseInv
<1>5. LastInv'
    BY <1>1, <1>2 DEF LastInv, Given
<1>6. ASSUME open, last = << >> PROVE PanFirst(queue')
    <2>1. PanFirst(queue) /\ queue \in Seq(UserEvents)
        BY <1>2, <1>6 DEF PanInv, BaseInv
    <2>. QED
        BY <1>1, <1>6, <2>1, AppendPan
<1>7. PanInv'
    BY <1>1, <1>6 DEF PanInv
<1>. QED
    BY <1>4, <1>5, <1>7

LEMMA MoveInv ==
    ASSUME Inv, NEW a \in Axes, NEW v \in Positions, Move(a, v)
    PROVE  Inv'
<1> DEFINE e == Axis(a, v)
<1>1. /\ stick' = [stick EXCEPT ![a] = v] /\ held' = held /\ Event(e)
      /\ queue' = IF open THEN Append(queue, e) ELSE queue
      /\ open' = open /\ rdr' = rdr /\ last' = last /\ closes' = closes
    BY DEF Move, Event
<1>2. /\ e \in UserEvents /\ e.value = v /\ \A b : IsAxis(e, b) <=> b = a
      /\ \A g : ~IsHeld(e, g)
    BY EventsAre
<1> HIDE DEF e
<1>3. StateInv /\ BaseInv /\ AxesInv /\ HeldInv /\ queue \in Seq(UserEvents)
    BY DEF Inv, BaseInv
<1>4. BaseInv' /\ LastInv' /\ PanInv'
    BY <1>1, <1>2, UserStep
<1>5. StateInv' /\ stick'[a] = v /\ \A b \in Axes : b # a => stick'[b] = stick[b]
    BY <1>1, <1>3 DEF StateInv
<1>6. AxesInv'
    <2>1. ASSUME open, NEW b \in Axes
          PROVE  AxisSays(Append(queue, e), b, stick'[b], rdr.pkt)
        <3>1. CASE b = a
            BY <1>2, <1>3, <1>5, <3>1, AppendAxis
        <3>2. CASE b # a
            <4>1. AxisSays(queue, b, stick'[b], rdr.pkt) /\ ~IsAxis(e, b)
                BY <1>2, <1>3, <1>5, <2>1, <3>2 DEF AxesInv
            <4>. QED
                BY <1>2, <1>3, <4>1, AppendAxis
        <3>. QED
            BY <3>1, <3>2
    <2>. QED
        BY <1>1, <2>1 DEF AxesInv
<1>7. HeldInv'
    <2>1. ASSUME closes = 0, open, NEW g \in HeldGroups
          PROVE  GroupSays(Append(queue, e), g, held, rdr.pkt)
        <3>1. GroupSays(queue, g, held, rdr.pkt)
            BY <1>3, <2>1 DEF HeldInv
        <3>. QED
            BY <1>2, <1>3, <3>1, AppendHeld
    <2>. QED
        BY <1>1, <1>3, <2>1 DEF HeldInv
<1>. QED
    BY <1>4, <1>5, <1>6, <1>7 DEF Inv

\* A button that is not of group g does not matter to it.
LEMMA HeldElse ==
    ASSUME NEW q, NEW g, NEW h, NEW i, NEW p, GroupSays(q, g, h, p),
           \A b \in DOMAIN BUTTON : BUTTON[b].group = g /\ b \in h => b \in i
    PROVE  GroupSays(q, g, i, p)
<1>1. ASSUME NEW j \in 1 .. Len(q), LastHeld(q, j, g, Len(q)), q[j].number \in h
      PROVE  q[j].number \in i
    BY <1>1 DEF LastHeld, IsHeld
<1>2. ASSUME NEW b \in h \cap DOMAIN BUTTON, BUTTON[b].group = g
      PROVE  b \in i \cap DOMAIN BUTTON
    BY <1>2
<1>. QED
    BY <1>1, <1>2 DEF GroupSays

LEMMA PressInv ==
    ASSUME Inv, NEW b \in Range(Buttons), Press(b)
    PROVE  Inv'
<1> DEFINE e == Button(b, TRUE)
<1>1. /\ stick' = stick /\ held' = held \cup {b} /\ Event(e)
      /\ queue' = IF open THEN Append(queue, e) ELSE queue
      /\ open' = open /\ rdr' = rdr /\ last' = last /\ closes' = closes
    BY DEF Press, Event
<1>2. /\ e \in UserEvents /\ e.number = b /\ \A a : ~IsAxis(e, a)
      /\ \A g : IsHeld(e, g) => b \in DOMAIN BUTTON /\ BUTTON[b].group = g
    BY EventsAre
<1> HIDE DEF e
<1>3. StateInv /\ BaseInv /\ AxesInv /\ HeldInv /\ queue \in Seq(UserEvents)
    BY DEF Inv, BaseInv
<1>4. BaseInv' /\ LastInv' /\ PanInv'
    BY <1>1, <1>2, UserStep
<1>5. StateInv'
    BY <1>1, <1>3 DEF StateInv
<1>6. AxesInv'
    <2>1. ASSUME open, NEW a \in Axes
          PROVE  AxisSays(Append(queue, e), a, stick[a], rdr.pkt)
        <3>1. AxisSays(queue, a, stick[a], rdr.pkt)
            BY <1>3, <2>1 DEF AxesInv
        <3>. QED
            BY <1>2, <1>3, <3>1, AppendAxis
    <2>. QED
        BY <1>1, <2>1 DEF AxesInv
<1>7. HeldInv'
    <2>1. ASSUME closes = 0, open, NEW g \in HeldGroups
          PROVE  GroupSays(Append(queue, e), g, held \cup {b}, rdr.pkt)
        <3>1. GroupSays(queue, g, held, rdr.pkt)
            BY <1>3, <2>1 DEF HeldInv
        <3>2. GroupSays(queue, g, held \cup {b}, rdr.pkt)
            BY <3>1, HeldElse
        <3>. QED
            BY <1>2, <1>3, <3>2, AppendHeld
    <2>. QED
        BY <1>1, <1>3, <2>1 DEF HeldInv
<1>. QED
    BY <1>4, <1>5, <1>6, <1>7 DEF Inv

\* Once a button is released nothing of its group goes on.
LEMMA ReleaseInv ==
    ASSUME Inv, NEW b \in Range(Buttons), Release(b)
    PROVE  Inv'
<1> DEFINE e == Button(b, FALSE)
<1>1. /\ stick' = stick /\ held' = held \ {b} /\ Event(e)
      /\ queue' = IF open THEN Append(queue, e) ELSE queue
      /\ open' = open /\ rdr' = rdr /\ last' = last /\ closes' = closes
    BY DEF Release, Event
<1>2. /\ e \in UserEvents /\ e.number = b /\ e.value = 0 /\ \A a : ~IsAxis(e, a)
      /\ \A g : b \in DOMAIN BUTTON /\ BUTTON[b].group = g => IsHeld(e, g)
    <2>1. e.type = "button" /\ e.number = b /\ ~e.initial
        BY DEF Button
    <2>2. e \in UserEvents /\ e.value = 0 /\ \A a : ~IsAxis(e, a)
        BY EventsAre
    <2>. QED
        BY <2>1, <2>2 DEF IsHeld
<1> HIDE DEF e
<1>3. StateInv /\ BaseInv /\ AxesInv /\ HeldInv /\ queue \in Seq(UserEvents)
    BY DEF Inv, BaseInv
<1>4. BaseInv' /\ LastInv' /\ PanInv'
    BY <1>1, <1>2, UserStep
<1>5. StateInv'
    BY <1>1, <1>3 DEF StateInv
<1>6. AxesInv'
    <2>1. ASSUME open, NEW a \in Axes
          PROVE  AxisSays(Append(queue, e), a, stick[a], rdr.pkt)
        <3>1. AxisSays(queue, a, stick[a], rdr.pkt)
            BY <1>3, <2>1 DEF AxesInv
        <3>. QED
            BY <1>2, <1>3, <3>1, AppendAxis
    <2>. QED
        BY <1>1, <2>1 DEF AxesInv
<1>7. HeldInv'
    <2>1. ASSUME closes = 0, open, NEW g \in HeldGroups
          PROVE  GroupSays(Append(queue, e), g, held \ {b}, rdr.pkt)
        <3>1. GroupSays(queue, g, held, rdr.pkt)
            BY <1>3, <2>1 DEF HeldInv
        <3>2. CASE IsHeld(e, g)
            BY <1>2, <1>3, <3>2, AppendHeld
        <3>3. CASE ~IsHeld(e, g)
            <4>1. ~(b \in DOMAIN BUTTON /\ BUTTON[b].group = g)
                BY <1>2, <3>3
            <4>2. GroupSays(queue, g, held \ {b}, rdr.pkt)
                BY <3>1, <4>1, HeldElse
            <4>. QED
                BY <1>2, <1>3, <3>3, <4>2, AppendHeld
        <3>. QED
            BY <3>2, <3>3
    <2>. QED
        BY <1>1, <1>3, <2>1 DEF HeldInv
<1>. QED
    BY <1>4, <1>5, <1>6, <1>7 DEF Inv

LEMMA OpenInv ==
    ASSUME Inv, Open
    PROVE  Inv'
<1>1. /\ ~open /\ open' = TRUE /\ queue' = InitialEvents /\ stick' = stick /\ held' = held
      /\ rdr' = rdr /\ last' = last /\ chosen' = chosen /\ closes' = closes
    BY DEF Open
<1>2. StateInv /\ BaseInv /\ LastInv /\ HeldInv
    BY DEF Inv
<1>3. PICK q : q = InitialEvents
    OBVIOUS
<1>4. /\ q \in Seq(UserEvents) /\ PanFirst(q)
      /\ \A a \in Axes : \A p : AxisSays(q, a, stick[a], p)
      /\ \A i \in 1 .. Len(q) : \A g : ~IsHeld(q[i], g)
    BY <1>2, <1>3, InitialIs
<1>5. BaseInv' /\ StateInv' /\ LastInv'
    BY <1>1, <1>2, <1>3, <1>4 DEF BaseInv, StateInv, LastInv, Given
<1>6. PanInv' /\ AxesInv'
    BY <1>1, <1>3, <1>4 DEF PanInv, AxesInv
<1>7. HeldInv'
    <2>1. ASSUME closes = 0, NEW g \in HeldGroups
          PROVE  GroupSays(q, g, held, rdr.pkt)
        <3>1. rdr.pkt = Cleared
            BY <1>1, <1>2, <2>1 DEF HeldInv, LastInv
        <3>2. rdr.pkt.flags \cap CC[g] = {}
            BY <3>1 DEF Cleared
        <3>. QED
            BY <1>4, <3>2 DEF GroupSays
    <2>. QED
        BY <1>1, <1>3, <2>1 DEF HeldInv
<1>. QED
    BY <1>5, <1>6, <1>7 DEF Inv

LEMMA CloseInv ==
    ASSUME Inv, Close
    PROVE  Inv'
<1>1. /\ open' = FALSE /\ queue' = << >> /\ closes' = closes + 1
      /\ stick' = stick /\ held' = held /\ rdr' = rdr /\ last' = last /\ chosen' = chosen
    BY DEF Close
<1>2. StateInv /\ BaseInv /\ LastInv
    BY DEF Inv
<1>3. BaseInv' /\ LastInv'
    BY <1>1, <1>2 DEF BaseInv, LastInv, Given
<1>4. closes' \in Nat /\ closes' # 0
    <2>1. closes \in Nat /\ closes' = closes + 1
        BY <1>1, <1>2 DEF StateInv
    <2>. QED
        BY <2>1
<1>5. StateInv'
    BY <1>1, <1>2, <1>4 DEF StateInv
<1>6. PanInv' /\ AxesInv' /\ HeldInv'
    BY <1>1, <1>4 DEF PanInv, AxesInv, HeldInv
<1>. QED
    BY <1>3, <1>5, <1>6 DEF Inv

\* The events that a read of n leaves.
LEMMA RestIs ==
    ASSUME NEW q \in Seq(UserEvents), NEW n \in 1 .. Len(q),
           NEW s, s = SubSeq(q, n + 1, Len(q))
    PROVE  /\ s \in Seq(UserEvents) /\ Len(q) \in Nat /\ Len(s) = Len(q) - n
           /\ \A i \in 1 .. Len(q) - n : s[i] = q[n + i]
BY SubSeqProperties

\* Those that it takes.
LEMMA TakenIs ==
    ASSUME NEW q \in Seq(UserEvents), NEW n \in 1 .. Len(q), NEW s, s = SubSeq(q, 1, n)
    PROVE  s \in Seq(UserEvents) /\ Len(s) = n /\ \A i \in 1 .. n : s[i] = q[i]
BY SubSeqProperties

\* What n events say of an axis is in the packet they leave, and the rest stays.
LEMMA AxisRest ==
    ASSUME NEW q \in Seq(UserEvents), NEW n \in 1 .. Len(q),
           NEW s, s = SubSeq(q, n + 1, Len(q)),
           NEW a, NEW v, NEW p, AxisSays(q, a, v, p),
           NEW r, \A i \in 1 .. n : LastAxis(q, i, a, n) => Shows(r, a, q[i].value),
           (\A i \in 1 .. n : ~IsAxis(q[i], a)) /\ Shows(p, a, v) => Shows(r, a, v)
    PROVE  AxisSays(s, a, v, r)
<1>1. PICK l \in Nat : l = Len(q) /\ n \in 1 .. l
    OBVIOUS
<1>2. Len(s) = l - n /\ \A i \in 1 .. l - n : s[i] = q[n + i]
    BY <1>1, RestIs
<1>3. /\ l - n \in Nat
      /\ \A i \in 1 .. l - n : n + i \in 1 .. l
      /\ \A i \in 1 .. n : i \in 1 .. l /\ \A j \in i + 1 .. n : j \in i + 1 .. l
    BY <1>1
<1>4. ASSUME NEW i \in 1 .. l, LastAxis(q, i, a, l), q[i].value = v
      PROVE  AxisSays(s, a, v, r)
    <2>1. CASE i \in 1 .. n
        <3>1. LastAxis(q, i, a, n)
            BY <1>3, <1>4, <2>1 DEF LastAxis
        <3>2. \A j \in 1 .. l - n : n + j \in i + 1 .. l
            BY <1>1, <2>1
        <3>3. \A j \in 1 .. l - n : ~IsAxis(s[j], a)
            BY <1>2, <1>4, <3>2 DEF LastAxis
        <3>. QED
            BY <1>2, <1>4, <2>1, <3>1, <3>3 DEF AxisSays
    <2>2. CASE i \notin 1 .. n
        <3>1. PICK k \in 1 .. l - n : i = n + k
            <4>1. i - n \in 1 .. l - n /\ i = n + (i - n)
                BY <1>1, <2>2
            <4>. QED
                BY <4>1
        <3>2. \A j \in k + 1 .. l - n : n + j \in i + 1 .. l /\ j \in 1 .. l - n
            BY <1>1, <3>1
        <3>3. LastAxis(s, k, a, l - n)
            BY <1>2, <1>4, <3>1, <3>2 DEF LastAxis
        <3>. QED
            BY <1>2, <1>4, <3>1, <3>3 DEF AxisSays
    <2>. QED
        BY <2>1, <2>2
<1>5. ASSUME \A i \in 1 .. l : ~IsAxis(q[i], a), Shows(p, a, v)
      PROVE  AxisSays(s, a, v, r)
    BY <1>2, <1>3, <1>5 DEF AxisSays
<1>. QED
    BY <1>1, <1>4, <1>5 DEF AxisSays

\* After the first n events in q, packet r says of group g what they say, or else p.
Carried(q, n, g, p, r) ==
    /\ \A i \in 1 .. n : LastHeld(q, i, g, n) /\ q[i].value = 0 => r.flags \cap CC[g] = {}
    /\ (\A i \in 1 .. n : ~IsHeld(q[i], g)) => r.flags \cap CC[g] = p.flags \cap CC[g]

\* So it is with the buttons.
LEMMA GroupRest ==
    ASSUME NEW q \in Seq(UserEvents), NEW n \in 1 .. Len(q),
           NEW s, s = SubSeq(q, n + 1, Len(q)),
           NEW g, NEW h, NEW p, GroupSays(q, g, h, p),
           NEW r, Carried(q, n, g, p, r)
    PROVE  GroupSays(s, g, h, r)
<1>1. PICK l \in Nat : l = Len(q) /\ n \in 1 .. l
    OBVIOUS
<1>2. Len(s) = l - n /\ \A i \in 1 .. l - n : s[i] = q[n + i]
    BY <1>1, RestIs
<1>3. /\ l - n \in Nat
      /\ \A i \in 1 .. l - n : n + i \in 1 .. l
      /\ \A i \in 1 .. n : i \in 1 .. l /\ \A j \in i + 1 .. n : j \in i + 1 .. l
    BY <1>1
<1>4. ASSUME NEW i \in 1 .. l, LastHeld(q, i, g, l), q[i].value = 0 \/ q[i].number \in h
      PROVE  GroupSays(s, g, h, r)
    <2>1. CASE i \in 1 .. n
        <3>1. LastHeld(q, i, g, n)
            BY <1>3, <1>4, <2>1 DEF LastHeld
        <3>2. \A j \in 1 .. l - n : n + j \in i + 1 .. l
            BY <1>1, <2>1
        <3>3. \A j \in 1 .. l - n : ~IsHeld(s[j], g)
            BY <1>2, <1>4, <3>2 DEF LastHeld
        <3>4. r.flags \cap CC[g] = {} \/ \E b \in h \cap DOMAIN BUTTON : BUTTON[b].group = g
            BY <1>4, <2>1, <3>1 DEF LastHeld, IsHeld, Carried
        <3>. QED
            BY <1>2, <3>3, <3>4 DEF GroupSays
    <2>2. CASE i \notin 1 .. n
        <3>1. PICK k \in 1 .. l - n : i = n + k
            <4>1. i - n \in 1 .. l - n /\ i = n + (i - n)
                BY <1>1, <2>2
            <4>. QED
                BY <4>1
        <3>2. \A j \in k + 1 .. l - n : n + j \in i + 1 .. l /\ j \in 1 .. l - n
            BY <1>1, <3>1
        <3>3. LastHeld(s, k, g, l - n)
            BY <1>2, <1>4, <3>1, <3>2 DEF LastHeld
        <3>. QED
            BY <1>2, <1>4, <3>1, <3>3 DEF GroupSays
    <2>. QED
        BY <2>1, <2>2
<1>5. ASSUME \A i \in 1 .. l : ~IsHeld(q[i], g),
             \/ p.flags \cap CC[g] = {}
             \/ \E b \in h \cap DOMAIN BUTTON : BUTTON[b].group = g
      PROVE  GroupSays(s, g, h, r)
    BY <1>1, <1>2, <1>3, <1>5 DEF GroupSays, Carried
<1>. QED
    BY <1>1, <1>4, <1>5 DEF GroupSays

\* The packet is given if anything is ready; it is then one that shows the pan.
LEMMA GivenIs ==
    ASSUME Inv, open, NEW n \in 1 .. Len(queue), NEW f, Run(f, n), f[n].ready,
           NEW g, g = [pkt |-> f[n].pkt,
                       written |-> ccreader_do_writers(nodes, f[n].receiver).written,
                       chosen |-> Chosen(SubSeq(queue, 1, n)),
                       presets |-> Presets(SubSeq(queue, 1, n))]
    PROVE  Given(g, NoPreset(f[n].pkt))
<1>1. /\ BaseInv /\ LastInv /\ PanInv /\ queue \in Seq(UserEvents) /\ n \in 0 .. Len(queue)
      /\ Len(queue) \in Nat
    BY DEF Inv, BaseInv
<1>2. PICK es \in Seq(UserEvents) :
            es = SubSeq(queue, 1, n) /\ Len(es) = n /\ \A k \in 1 .. n : es[k] = queue[k]
    BY <1>1, TakenIs, ZenonT(30)
<1>3. g.pkt \in Packets /\ Modes(g.pkt)
    <2>1. f[n] \in Readers /\ Modes(f[n].pkt) /\ n \in 0 .. n
        BY <1>1, RunSteps
    <2>. QED
        BY <2>1 DEF Readers
<1>4. f[n].receiver = g.chosen /\ g.chosen \in Int
    <2>1. f[n].receiver = Chosen(es) /\ Chosen(es) \in 0 .. MAX_CAMERA
        BY <1>1, <1>2, RunReceiver
    <2>2. MAX_CAMERA \in Int
        BY DEF MAX_CAMERA
    <2>. QED
        BY <1>2, <2>1, <2>2
<1>5. Range(g.written) = Due(g.chosen) /\ Len(g.written) = Cardinality(Due(g.chosen))
    BY <1>4, WrittenIsDue
<1>6. HasPan(g.pkt)
    <2>1. CASE last = << >>
        <3>1. PICK i \in 1 .. Len(queue) :
                    /\ IsAxis(queue[i], "pan")
                    /\ \A j \in 1 .. i - 1 : queue[j].type = "button" /\ queue[j].initial
            BY <1>1, <2>1 DEF PanInv, PanFirst
        <3>2. CASE i \in 1 .. n
            BY <1>1, <3>1, <3>2, RunAxes DEF Axes
        <3>3. CASE i \notin 1 .. n
            <4>1. \A j \in 1 .. n : j \in 1 .. i - 1
                BY <1>1, <3>3
            <4>2. f[n] = Start
                BY <1>1, <3>1, <4>1, RunReady
            <4>. QED
                BY <4>2 DEF Start
        <3>. QED
            BY <3>2, <3>3
    <2>2. ASSUME NEW x, last = <<x>>, Given(x, rdr.pkt)
          PROVE  HasPan(g.pkt)
        <3>1. Alike(x.pkt, rdr.pkt, {"preset"}) /\ Modes(rdr.pkt)
            BY <2>2, NoPresetIs DEF Given
        <3>2. HasPan(rdr.pkt)
            BY <2>2, <3>1, ShowsAlike DEF Given, Axes
        <3>. QED
            BY <1>1, <3>2, RunAxes DEF Axes
    <2>. QED
        BY <1>1, <2>1, <2>2 DEF LastInv
<1>7. ASSUME ccpacket_get_preset_mode(g.pkt) # {}
      PROVE  Button(g.pkt.preset + 5, ccpacket_get_preset_mode(g.pkt) = {"preset_recall"})
                \in g.presets
    <2>1. ccpacket_get_preset_mode(g.pkt) = g.pkt.flags \cap CC["preset"]
        <3>1. ccpacket_get_preset_mode(g.pkt) = Get(g.pkt, "preset") /\ "preset" \in Groups
            BY <1>7, GroupsAre DEF ccpacket_get_preset_mode, ccpacket_preset, Get
        <3>. QED
            BY <1>3, <3>1, GetIs
    <2>2. ~PresetFree(f[n].pkt)
        BY <1>7, <2>1 DEF PresetFree
    <2>3. PICK i \in 1 .. n : /\ IsAsked(queue[i], f[n].pkt)
                              /\ \A j \in i + 1 .. n : queue[j].type # "axis"
        BY <1>1, <2>2, RunPreset
    <2>4. es[i] = queue[i] /\ es[i] \in UserEvents
        BY <1>2, <2>3
    <2>5. PICK e \in UserEvents : e = es[i] /\ IsAsked(e, g.pkt)
        BY <2>3, <2>4
    <2>6. e \in Presets(es)
        <3>1. i \in 1 .. Len(es) /\ DOMAIN es = 1 .. Len(es)
            BY <1>2
        <3>2. e \in Range(es)
            BY <2>5, <3>1 DEF Range
        <3>3. \A j \in i + 1 .. Len(es) : j \in 1 .. n
            BY <1>1, <1>2
        <3>4. \A j \in i + 1 .. Len(es) : es[j].type # "axis"
            BY <1>2, <2>3, <3>3
        <3>5. e.type = "button" /\ e.number \in JBUTTON_PRESETS
            BY <2>5 DEF IsAsked
        <3>. QED
            BY <2>5, <3>1, <3>2, <3>4, <3>5 DEF Presets
    <2>7. e = Button(g.pkt.preset + 5, ccpacket_get_preset_mode(g.pkt) = {"preset_recall"})
        <3>1. /\ e.type = "button" /\ ~e.initial /\ e.number = g.pkt.preset + 5
              /\ ccpacket_get_preset_mode(g.pkt) = {AsksPreset(e.value)}
            BY <2>1, <2>5 DEF IsAsked
        <3>2. e \in ButtonEvents /\ e.initial = FALSE /\ e.value \in {0, 1}
            BY <2>5, <3>1 DEF UserEvents, AxisEvents, ButtonEvents
        <3>3. e.value = 1 <=> ccpacket_get_preset_mode(g.pkt) = {"preset_recall"}
            BY <3>1 DEF AsksPreset
        <3>4. PICK pressed \in BOOLEAN :
                    pressed <=> ccpacket_get_preset_mode(g.pkt) = {"preset_recall"}
            OBVIOUS
        <3>5. e.value = IF pressed THEN 1 ELSE 0
            BY <3>2, <3>3, <3>4
        <3>6. e = Button(e.number, pressed)
            BY <3>1, <3>2, <3>5 DEF Button, ButtonEvents
        <3>7. pressed = (ccpacket_get_preset_mode(g.pkt) = {"preset_recall"})
            BY <3>4
        <3>. QED
            BY <3>1, <3>6, <3>7
    <2>. QED
        BY <1>2, <2>6, <2>7
<1>. QED
    BY <1>3, <1>5, <1>6, <1>7 DEF Given

\* A read: what it took is in the packet that is kept, what it left is still queued.
LEMMA ReadInv ==
    ASSUME Inv, NEW n \in 1 .. Len(queue), Read(n)
    PROVE  Inv'
<1>1. /\ BaseInv /\ StateInv /\ LastInv /\ PanInv /\ AxesInv /\ HeldInv
      /\ queue \in Seq(UserEvents) /\ n \in 0 .. Len(queue) /\ Len(queue) \in Nat
    BY DEF Inv, BaseInv
<1>2. PICK f : Run(f, n) /\ Decoded(n) = f[n]
    BY <1>1, DecodedIs
<1>3. PICK p : p = NoPreset(f[n].pkt)
    OBVIOUS
<1>4. PICK es \in Seq(UserEvents) :
            es = SubSeq(queue, 1, n) /\ Len(es) = n /\ \A k \in 1 .. n : es[k] = queue[k]
    <2>1. PICK es : es = SubSeq(queue, 1, n)
        OBVIOUS
    <2>2. es \in Seq(UserEvents) /\ Len(es) = n /\ \A k \in 1 .. n : es[k] = queue[k]
        BY <1>1, <2>1, TakenIs
    <2>. QED
        BY <2>1, <2>2
<1>5. PICK s \in Seq(UserEvents) :
            /\ s = SubSeq(queue, n + 1, Len(queue)) /\ Len(s) = Len(queue) - n
            /\ \A i \in 1 .. Len(queue) - n : s[i] = queue[n + i]
    <2>1. PICK s : s = SubSeq(queue, n + 1, Len(queue))
        OBVIOUS
    <2>2. /\ s \in Seq(UserEvents) /\ Len(s) = Len(queue) - n
          /\ \A i \in 1 .. Len(queue) - n : s[i] = queue[n + i]
        BY <1>1, <2>1, RestIs
    <2>. QED
        BY <2>1, <2>2
<1>6. f[n] \in Readers /\ f[n].pkt \in Packets /\ Modes(f[n].pkt)
    <2>1. f[n] \in Readers /\ Modes(f[n].pkt) /\ n \in 0 .. n
        BY <1>1, <1>2, RunSteps
    <2>. QED
        BY <2>1 DEF Readers
<1>7. p \in Packets /\ Modes(p) /\ PresetFree(p) /\ Alike(f[n].pkt, p, {"preset"})
    BY <1>3, <1>6, NoPresetIs
<1>8. f[n].receiver = Chosen(es) /\ Chosen(es) \in 0 .. MAX_CAMERA /\ Chosen(es) \in Int
    <2>1. f[n].receiver = Chosen(es) /\ Chosen(es) \in 0 .. MAX_CAMERA
        BY <1>1, <1>2, <1>4, RunReceiver
    <2>2. MAX_CAMERA \in Int
        BY DEF MAX_CAMERA
    <2>. QED
        BY <2>1, <2>2
<1>9. ccreader_do_writers(nodes, f[n].receiver).receiver = f[n].receiver
    BY <1>8, WrittenIsDue
<1>10. /\ open /\ open' = open /\ stick' = stick /\ held' = held /\ closes' = closes
       /\ queue' = s /\ chosen' = Chosen(es)
       /\ rdr' = [receiver |-> f[n].receiver, pkt |-> p]
    BY <1>2, <1>3, <1>4, <1>5, <1>9 DEF Read, AfterRead
<1>11. /\ f[n].ready => last' = << [pkt |-> f[n].pkt,
                                   written |-> ccreader_do_writers(nodes, f[n].receiver).written,
                                   chosen |-> Chosen(SubSeq(queue, 1, n)),
                                   presets |-> Presets(SubSeq(queue, 1, n))] >>
       /\ ~f[n].ready => last' = last
    BY <1>2 DEF Read
<1>12. ~f[n].ready => p = rdr.pkt
    <2>1. ~f[n].ready => f[n].pkt = rdr.pkt
        BY <1>1, <1>2, RunReady
    <2>2. NoPreset(rdr.pkt) = rdr.pkt
        BY <1>1, NoPresetSame DEF BaseInv
    <2>. QED
        BY <1>3, <2>1, <2>2
<1>13. rdr'.pkt = p /\ rdr'.receiver = Chosen(es)
    BY <1>8, <1>10
<1>14. BaseInv'
    <2>1. rdr' \in [receiver : 0 .. MAX_CAMERA, pkt : Packets]
        BY <1>7, <1>8, <1>10
    <2>. QED
        BY <1>5, <1>7, <1>10, <1>13, <2>1 DEF BaseInv
<1>15. StateInv'
    BY <1>1, <1>10 DEF StateInv
<1>16. LastInv'
    <2>1. CASE f[n].ready
        <3>1. PICK g : g = [pkt |-> f[n].pkt,
                            written |-> ccreader_do_writers(nodes, f[n].receiver).written,
                            chosen |-> Chosen(SubSeq(queue, 1, n)),
                            presets |-> Presets(SubSeq(queue, 1, n))]
            OBVIOUS
        <3>2. Given(g, p)
            BY <1>2, <1>3, <1>10, <2>1, <3>1, GivenIs
        <3>3. last' = <<g>>
            BY <1>11, <2>1, <3>1
        <3>. QED
            BY <1>13, <3>2, <3>3 DEF LastInv
    <2>2. CASE ~f[n].ready
        <3>1. last' = last /\ rdr'.pkt = rdr.pkt
            BY <1>11, <1>12, <1>13, <2>2
        <3>. QED
            BY <1>1, <3>1 DEF LastInv
    <2>. QED
        BY <2>1, <2>2
<1>17. PanInv'
    <2>1. ASSUME last' = << >>
          PROVE  PanFirst(s)
        <3>1. ~f[n].ready /\ last = << >>
            BY <1>11, <2>1
        <3>2. PICK i \in 1 .. Len(queue) :
                    /\ IsAxis(queue[i], "pan")
                    /\ \A j \in 1 .. i - 1 : queue[j].type = "button" /\ queue[j].initial
            BY <1>1, <1>10, <3>1 DEF PanInv, PanFirst
        <3>3. i \notin 1 .. n
            BY <1>1, <1>2, <3>1, <3>2, RunReady DEF Axes
        <3>4. PICK k \in 1 .. Len(s) : i = n + k
            <4>1. i - n \in 1 .. Len(queue) - n /\ i = n + (i - n)
                BY <1>1, <3>3
            <4>. QED
                BY <1>5, <4>1
        <3>5. IsAxis(s[k], "pan")
            BY <1>5, <3>2, <3>4
        <3>6. ASSUME NEW j \in 1 .. k - 1
              PROVE  s[j].type = "button" /\ s[j].initial
            <4>1. n + j \in 1 .. i - 1 /\ j \in 1 .. Len(queue) - n
                BY <1>1, <1>5, <3>4
            <4>2. s[j] = queue[n + j]
                BY <1>5, <4>1
            <4>. QED
                BY <3>2, <4>1, <4>2
        <3>. QED
            BY <3>5, <3>6 DEF PanFirst
    <2>. QED
        BY <1>10, <2>1 DEF PanInv
<1>18. AxesInv'
    <2>1. ASSUME NEW a \in Axes
          PROVE  AxisSays(s, a, stick[a], p)
        <3>1. AxisSays(queue, a, stick[a], rdr.pkt)
            BY <1>1, <1>10 DEF AxesInv
        <3>2. \A v : Shows(f[n].pkt, a, v) => Shows(p, a, v)
            BY <1>6, <1>7, ShowsAlike DEF Axes
        <3>3. /\ \A i \in 1 .. n : LastAxis(queue, i, a, n) => Shows(p, a, queue[i].value)
              /\ (\A i \in 1 .. n : ~IsAxis(queue[i], a)) /\ Shows(rdr.pkt, a, stick[a])
                    => Shows(p, a, stick[a])
            BY <1>1, <1>2, <3>2, RunAxes
        <3>. QED
            BY <1>1, <1>5, <3>1, <3>3, AxisRest
    <2>. QED
        BY <1>10, <1>13, <2>1 DEF AxesInv
<1>19. HeldInv'
    <2>1. ASSUME closes = 0, NEW g \in HeldGroups
          PROVE  GroupSays(s, g, held, p)
        <3>1. GroupSays(queue, g, held, rdr.pkt)
            BY <1>1, <1>10, <2>1 DEF HeldInv
        <3>2. p.flags \cap CC[g] = f[n].pkt.flags \cap CC[g]
            BY <1>7, ButtonIs DEF Alike
        <3>3. Carried(queue, n, g, rdr.pkt, p)
            BY <1>1, <1>2, <3>2, RunGroups DEF Carried
        <3>4. s = SubSeq(queue, n + 1, Len(queue)) /\ queue \in Seq(UserEvents)
            BY <1>1, <1>5
        <3>. QED
            BY <3>1, <3>3, <3>4, GroupRest
    <2>. QED
        BY <1>10, <1>13, <2>1 DEF HeldInv
<1>. QED
    BY <1>14, <1>15, <1>16, <1>17, <1>18, <1>19 DEF Inv

LEMMA SameInv == Inv /\ UNCHANGED vars => Inv'
BY DEF Inv, BaseInv, StateInv, LastInv, Given, PanInv, AxesInv, HeldInv, vars

LEMMA NextInv == Inv /\ [Next]_vars => Inv'
<1> SUFFICES ASSUME Inv, [Next]_vars
             PROVE  Inv'
    OBVIOUS
<1>1. ASSUME NEW a \in Axes, NEW v \in Positions, Move(a, v) PROVE Inv'
    BY <1>1, MoveInv
<1>2. ASSUME NEW b \in Range(Buttons), Press(b) PROVE Inv'
    BY <1>2, PressInv
<1>3. ASSUME NEW b \in Range(Buttons), Release(b) PROVE Inv'
    BY <1>3, ReleaseInv
<1>4. CASE Open
    BY <1>4, OpenInv
<1>5. CASE Close
    BY <1>5, CloseInv
<1>6. ASSUME NEW n \in 1 .. Len(queue), Read(n) PROVE Inv'
    BY <1>6, ReadInv
<1>7. CASE UNCHANGED vars
    BY <1>7, SameInv
<1>. QED
    BY <1>1, <1>2, <1>3, <1>4, <1>5, <1>6, <1>7 DEF Next, Silence

LEMMA Invariance == Spec => []Inv
<1>1. Inv /\ [Next]_vars => Inv'
    BY NextInv
<1>2. Init => Inv
    BY InitInv
<1>. QED
    BY <1>1, <1>2, PTL DEF Spec

-----------------------------------------------------------------------------
(* What no event of a joystick asks for.                                    *)

\* The packet has no mode of these groups, and its pan is not automatic.
PlainGroups == {"menu", "ack", "lens"}

Plain(p) == /\ \A g \in PlainGroups : p.flags \cap CC[g] = {}
            /\ "pan_auto" \notin p.flags \cap CC["pan"]

LEMMA PlainAlike ==
    ASSUME NEW p, NEW q, NEW others, Plain(p), Alike(p, q, others),
           others \cap (PlainGroups \cup {"pan"}) = {}
    PROVE  Plain(q)
<1>1. PlainGroups \cup {"pan"} \subseteq Groups \ others
    BY GroupsAre DEF PlainGroups
<1>. QED
    BY <1>1 DEF Plain, Alike

\* An axis sets the pan to one side, the tilt or the zoom.
LEMMA PlainAxis ==
    ASSUME NEW p \in Packets, Modes(p), Plain(p), NEW a \in Axes, NEW v \in Positions
    PROVE  Plain(decode_pan_tilt_zoom(p, a, v))
<1>1. /\ PlainGroups \cup {"pan"} \subseteq Groups \ {"tilt", "zoom", "preset"}
      /\ "pan" \notin PlainGroups /\ "zoom" \in Groups
    BY GroupsAre DEF PlainGroups
<1>2. remap_speed(v) \in 0 .. SPEED_MAX
    BY RemapIs
<1>3. ASSUME NEW r \in Packets, Modes(r), Plain(r) PROVE Plain(NoPreset(r))
    <2>1. Alike(r, NoPreset(r), {"preset"})
        BY <1>3, NoPresetIs
    <2>. QED
        BY <1>1, <1>3, <2>1, PlainAlike
<1>4. CASE a = "pan"
    <2>1. PICK f \in Cases("pan") : Mode("pan", v) = {f}
        BY ModeIs
    <2>2. f # "pan_auto"
        <3>1. Mode("pan", v) \in {{"pan_left"}, {"pan_right"}}
            BY PositionIs DEF Mode, SignMode
        <3>. QED
            BY <2>1, <3>1
    <2>3. PICK r : r = ccpacket_set_pan(p, {f}, remap_speed(v))
        OBVIOUS
    <2>4. r \in Packets /\ Modes(r) /\ Replaced(p, r, "pan", {f})
        BY <1>2, <2>3, SetPanIs
    <2>5. Plain(r)
        BY <1>1, <2>2, <2>4 DEF Plain, Replaced
    <2>6. decode_pan_tilt_zoom(p, a, v) = NoPreset(r)
        BY <1>4, <2>1, <2>3 DEF decode_pan_tilt_zoom
    <2>. QED
        BY <1>3, <2>4, <2>5, <2>6
<1>5. CASE a = "tilt"
    <2>1. PICK f \in Cases("tilt") : Mode("tilt", v) = {f}
        BY ModeIs
    <2>2. PICK r : r = ccpacket_set_tilt(p, {f}, remap_speed(v))
        OBVIOUS
    <2>3. r \in Packets /\ Modes(r) /\ Replaced(p, r, "tilt", {f})
        BY <1>2, <2>2, SetTiltIs
    <2>4. Plain(r)
        BY <1>1, <2>3 DEF Plain, Replaced
    <2>5. decode_pan_tilt_zoom(p, a, v) = NoPreset(r)
        BY <1>5, <2>1, <2>2 DEF decode_pan_tilt_zoom
    <2>. QED
        BY <1>3, <2>3, <2>4, <2>5
<1>6. CASE a = "zoom"
    <2>1. PICK r : r = Set(p, "zoom", Mode("zoom", v))
        OBVIOUS
    <2>2. r \in Packets /\ Modes(r) /\ Alike(p, r, {"zoom"})
        BY <1>1, <2>1, SetIs
    <2>3. Plain(r)
        BY <1>1, <2>2, PlainAlike
    <2>4. decode_pan_tilt_zoom(p, a, v) = NoPreset(r)
        BY <1>6, <2>1 DEF decode_pan_tilt_zoom
    <2>. QED
        BY <1>3, <2>2, <2>3, <2>4
<1>. QED
    BY <1>4, <1>5, <1>6 DEF Axes

LEMMA PlainButton ==
    ASSUME NEW r \in Readers, Modes(r.pkt), Plain(r.pkt), NEW b, NEW pressed \in BOOLEAN
    PROVE  Plain(decode_button(r, b, pressed).pkt)
<1>1. PICK q : q = decode_button(r, b, pressed)
    OBVIOUS
<1>2. HeldGroups \cap (PlainGroups \cup {"pan"}) = {} /\ "preset" \notin PlainGroups
    BY DEF HeldGroups, PlainGroups
<1>3. CASE b \in DOMAIN BUTTON
    <2>1. q = decode_held_button(r, b, pressed)
        BY <1>1, <1>3 DEF decode_button
    <2>2. Alike(r.pkt, q.pkt, {BUTTON[b].group}) /\ BUTTON[b].group \in HeldGroups
        BY <1>3, <2>1, HeldStep, ButtonIs
    <2>. QED
        BY <1>1, <1>2, <2>2, PlainAlike
<1>4. CASE b \notin DOMAIN BUTTON /\ b \in JBUTTON_PRESETS
    <2>1. q = decode_preset_button(r, b - 5, pressed) /\ b - 5 \in 1 .. 4
        BY <1>1, <1>4 DEF decode_button, JBUTTON_PRESETS
    <2>2. Alike(r.pkt, q.pkt, {"preset"})
        BY <2>1, PresetStep
    <2>. QED
        BY <1>1, <1>2, <2>2, PlainAlike
<1>5. CASE b \notin DOMAIN BUTTON /\ b \notin JBUTTON_PRESETS
    <2>1. Alike(r.pkt, q.pkt, {"preset"})
        BY <1>1, <1>5, OtherStep
    <2>. QED
        BY <1>1, <1>2, <2>1, PlainAlike
<1>. QED
    BY <1>3, <1>4, <1>5

LEMMA PlainEvent ==
    ASSUME NEW r \in Readers, Modes(r.pkt), Plain(r.pkt), NEW e \in UserEvents
    PROVE  Plain(joystick_decode_event(r, e).pkt)
<1>1. CASE e \in AxisEvents
    <2>1. /\ e.type = "axis" /\ e.number \in Axes /\ e.value \in Positions
          /\ r.pkt \in Packets
        BY <1>1 DEF AxisEvents, Readers
    <2>2. joystick_decode_event(r, e).pkt = decode_pan_tilt_zoom(r.pkt, e.number, e.value)
        BY <2>1 DEF joystick_decode_event, Ready
    <2>. QED
        BY <2>1, <2>2, PlainAxis
<1>2. CASE e \in ButtonEvents
    <2>1. e.type # "axis"
        BY <1>2 DEF ButtonEvents
    <2>2. PICK pressed \in BOOLEAN : pressed = (e.value # 0)
        OBVIOUS
    <2>3. joystick_decode_event(r, e)
             = IF ~e.initial THEN decode_button(r, e.number, pressed) ELSE r
        BY <2>1, <2>2 DEF joystick_decode_event
    <2>. QED
        BY <2>3, PlainButton
<1>. QED
    BY <1>1, <1>2 DEF UserEvents

PlainInv == Plain(rdr.pkt)

LEMMA PlainRead ==
    ASSUME Inv, PlainInv, NEW n \in 1 .. Len(queue), Read(n)
    PROVE  PlainInv'
<1>1. BaseInv /\ n \in Nat /\ n \in 0 .. Len(queue)
    BY DEF Inv, BaseInv
<1>2. PICK f : Run(f, n) /\ Decoded(n) = f[n]
    BY <1>1, DecodedIs
<1>3. /\ \A k \in 0 .. n : f[k] \in Readers /\ Modes(f[k].pkt)
      /\ \A k \in 1 .. n : queue[k] \in UserEvents
    BY <1>1, <1>2, RunSteps
<1> DEFINE P == {k \in 0 .. n : Plain(f[k].pkt)}
<1>4. 0 \in P
    BY <1>1, <1>2 DEF Run, Start, PlainInv
<1>5. ASSUME NEW k \in 1 .. n, k - 1 \in P PROVE k \in P
    <2>1. k - 1 \in 0 .. n /\ k \in 0 .. n /\ Plain(f[k - 1].pkt)
        BY <1>5
    <2>2. f[k] = joystick_decode_event(f[k - 1], queue[k])
        BY <1>2 DEF Run
    <2>. QED
        BY <1>3, <2>1, <2>2, PlainEvent
<1>6. Plain(f[n].pkt) /\ f[n].pkt \in Packets /\ Modes(f[n].pkt)
    <2>1. n \in P
        <3>. HIDE DEF P
        <3>. QED
            BY <1>1, <1>4, <1>5, Induction
    <2>2. f[n] \in Readers /\ Modes(f[n].pkt)
        BY <1>1, <1>3
    <2>. QED
        BY <2>1, <2>2 DEF Readers
<1>7. rdr'.pkt = NoPreset(f[n].pkt)
    BY <1>2 DEF Read, AfterRead
<1>8. Alike(f[n].pkt, rdr'.pkt, {"preset"})
    BY <1>6, <1>7, NoPresetIs
<1>9. {"preset"} \cap (PlainGroups \cup {"pan"}) = {}
    BY DEF PlainGroups
<1>. QED
    BY <1>6, <1>8, <1>9, PlainAlike DEF PlainInv

LEMMA PlainNext == Inv /\ PlainInv /\ [Next]_vars => PlainInv'
<1> SUFFICES ASSUME Inv, PlainInv, [Next]_vars
             PROVE  PlainInv'
    OBVIOUS
<1>1. ASSUME NEW a \in Axes, NEW v \in Positions, Move(a, v) PROVE PlainInv'
    BY <1>1 DEF Move, Event, PlainInv
<1>2. ASSUME NEW b \in Range(Buttons), Press(b) PROVE PlainInv'
    BY <1>2 DEF Press, Event, PlainInv
<1>3. ASSUME NEW b \in Range(Buttons), Release(b) PROVE PlainInv'
    BY <1>3 DEF Release, Event, PlainInv
<1>4. CASE Open
    BY <1>4 DEF Open, PlainInv
<1>5. CASE Close
    BY <1>5 DEF Close, PlainInv
<1>6. ASSUME NEW n \in 1 .. Len(queue), Read(n) PROVE PlainInv'
    BY <1>6, PlainRead
<1>7. CASE UNCHANGED vars
    BY <1>7 DEF vars, PlainInv
<1>. QED
    BY <1>1, <1>2, <1>3, <1>4, <1>5, <1>6, <1>7 DEF Next, Silence

LEMMA PlainInvariance == Spec => []PlainInv
<1>1. Init => PlainInv
    BY DEF Init, Cleared, PlainInv, Plain
<1>. QED
    BY <1>1, PlainNext, Invariance, PTL DEF Spec

-----------------------------------------------------------------------------
(* What follows from it.                                                    *)

\* What was given last says of the stick, and of the groups, what is kept of it.
LEMMA LastIs ==
    ASSUME Inv, NEW g, last = <<g>>, Given(g, rdr.pkt)
    PROVE  /\ last[1] = g /\ Len(last) = 1
           /\ g.pkt \in Packets /\ Modes(g.pkt)
           /\ \A a \in Axes : \A v : Shows(rdr.pkt, a, v) => Shows(g.pkt, a, v)
           /\ \A h \in HeldGroups : Get(g.pkt, h) = rdr.pkt.flags \cap CC[h]
<1>1. g.pkt \in Packets /\ Modes(g.pkt) /\ Modes(rdr.pkt)
    BY DEF Given, Inv, BaseInv
<1>2. Alike(g.pkt, rdr.pkt, {"preset"})
    BY <1>1, NoPresetIs DEF Given
<1>3. Alike(rdr.pkt, g.pkt, {"preset"})
    BY <1>2 DEF Alike
<1>4. \A a \in Axes : \A v : Shows(rdr.pkt, a, v) => Shows(g.pkt, a, v)
    BY <1>1, <1>3, ShowsAlike DEF Axes
<1>5. ASSUME NEW h \in HeldGroups
      PROVE  Get(g.pkt, h) = rdr.pkt.flags \cap CC[h]
    <2>1. h \in Groups \ {"preset"}
        BY ButtonIs
    <2>2. Get(g.pkt, h) = g.pkt.flags \cap CC[h]
        BY <1>1, <2>1, GetIs
    <2>. QED
        BY <1>3, <2>1, <2>2 DEF Alike
<1>. QED
    BY <1>1, <1>4, <1>5

\* The reader's packet and the one given always have their types: the speeds are in
\* range although only the pan's setter clamps (decode_pan_tilt_zoom, remap_int).
THEOREM TypeCorrect == Spec => []TypeOK
<1>1. ASSUME NEW p \in Packets, Modes(p)
      PROVE  IsPacket(p)
    BY <1>1 DEF IsPacket, Packets, Modes
<1>2. Inv => TypeOK
    <2>. SUFFICES ASSUME Inv PROVE TypeOK
        OBVIOUS
    <2>1. BaseInv /\ StateInv /\ LastInv
        BY DEF Inv
    <2>2. Len(last) \in {0, 1} /\ \A j \in 1 .. Len(last) : IsPacket(last[j].pkt)
        <3>1. CASE last = << >>
            BY <3>1
        <3>2. ASSUME NEW g, last = <<g>>, Given(g, rdr.pkt)
              PROVE  Len(last) = 1 /\ IsPacket(last[1].pkt)
            BY <1>1, <3>2, LastIs
        <3>. QED
            BY <2>1, <3>1, <3>2 DEF LastInv
    <2>3. IsPacket(rdr.pkt)
        BY <1>1, <2>1 DEF BaseInv
    <2>. QED
        BY <2>1, <2>2, <2>3 DEF TypeOK, BaseInv, StateInv
<1>. QED
    BY <1>2, Invariance, PTL

\* However the events are spread over reads, and after the device was unplugged, the
\* packet given last says how the stick stands once all are read (joystick_do_read).
THEOREM StickIsObeyed == Spec => []StickObeyed
<1>1. Inv => StickObeyed
    <2>. SUFFICES ASSUME Inv, open, queue = << >>
                  PROVE  /\ last # << >>
                         /\ LET p == last[1].pkt
                            IN /\ Asks("pan", stick["pan"], Get(p, "pan"), p.pan)
                               /\ Asks("tilt", stick["tilt"], Get(p, "tilt"), p.tilt)
                               /\ Get(p, "zoom") = SignMode("zoom", stick["zoom"])
        BY DEF StickObeyed
    <2>1. LastInv /\ PanInv /\ AxesInv
        BY DEF Inv
    <2>2. last # << >>
        BY <2>1 DEF PanInv, PanFirst
    <2>3. PICK g : last = <<g>> /\ Given(g, rdr.pkt)
        BY <2>1, <2>2 DEF LastInv
    <2>4. \A a \in Axes : Shows(rdr.pkt, a, stick[a])
        BY <2>1 DEF AxesInv, AxisSays
    <2>5. last[1] = g /\ \A a \in Axes : Shows(g.pkt, a, stick[a])
        BY <2>3, <2>4, LastIs
    <2>. QED
        BY <2>2, <2>5 DEF Shows, Axes
<1>. QED
    BY <1>1, Invariance, PTL

-----------------------------------------------------------------------------
(* What the encoders make of a packet that is given.                        *)

LEMMA NoBits == \A j \in Int : Octet({}, j) = 0
BY DEF Octet

\* The packet asks for nothing but a preset.
Idle(p) ==
    /\ p.pan = 0 /\ p.tilt = 0 /\ p.preset \in 0 .. 4 /\ Get(p, "pan") # {"pan_auto"}
    /\ Get(p, "pan") \cap {"pan_auto"} = {} /\ Get(p, "pan") # {"pan_manual"}
    /\ Get(p, "menu") = {} /\ Get(p, "camera") = {} /\ Get(p, "wiper") = {}
    /\ Get(p, "zoom") = {} /\ Get(p, "focus") = {} /\ Get(p, "iris") = {}
    /\ Get(p, "ack") = {} /\ Get(p, "lens") = {}

LEMMA FirstOf ==
    ASSUME NEW m, NEW x, NEW y, NEW b \in BOOLEAN, NEW c \in BOOLEAN
    PROVE  LET s == << m >> \o (IF b THEN << x >> ELSE << >>) \o (IF c THEN << y >> ELSE << >>)
           IN s # << >> /\ s[1] = m
OBVIOUS

\* A packet with a mode of pan and none of the menu has a command message in Pelco.
LEMMA PelcoCommand ==
    ASSUME NEW p, Get(p, "menu") = {}, Get(p, "pan") # {},
           NEW r \in 1 .. PELCO_MAX_ADDRESS, NEW d
    PROVE  do_write(d, r, p) # << >> /\ do_write(d, r, p)[1] = encode_command(d, r, p)
<1>1. adjust_menu_commands(p) = p
    BY DEF adjust_menu_commands
<1>2. Commands(p)
    BY DEF Commands, ccpacket_has_command
<1>3. PICK m, x, y : /\ m = encode_command(d, r, p) /\ x = encode_preset(d, r, p)
                     /\ y = encode_wiper(d, r, p)
    OBVIOUS
<1>4. PICK b \in BOOLEAN, c \in BOOLEAN : /\ b = (ccpacket_get_preset_mode(p) # {})
                                          /\ c = (Get(p, "wiper") # {})
    OBVIOUS
<1>5. do_write(d, r, p) = << m >> \o (IF b THEN << x >> ELSE << >>)
                                  \o (IF c THEN << y >> ELSE << >>)
    BY <1>1, <1>2, <1>3, <1>4, Zenon DEF do_write
<1>. QED
    BY <1>3, <1>5, FirstOf

LEMMA PelcoIdle ==
    ASSUME NEW p, Idle(p), NEW r, NEW d \in {"pelco_d", "pelco_p"}
    PROVE  encode_command(d, r, p) = Frame(d, r, 0, 0, 0, 0)
<1>1. ~ccpacket_has_pan(p) /\ encode_speed(p.tilt) = 0
    BY DEF Idle, ccpacket_has_pan, encode_speed, TURBO_SPEED
<1>2. encode_pan_speed(p.pan) = 0
    BY PelcoAssumption, PacketAssumption DEF Idle, encode_pan_speed, encode_speed, TURBO_SPEED
<1>3. encode_sense(d, p) = {}
    BY DEF Idle, encode_sense
<1>4. encode_command(d, r, p) = Frame(d, r, Octet({}, 2), Octet({}, 3), 0, 0)
    BY <1>1, <1>2, <1>3 DEF Idle, encode_command
<1>. QED
    BY <1>4, NoBits

LEMMA ViconIdle ==
    ASSUME NEW p, Idle(p), NEW r \in 1 .. VICON_MAX_ADDRESS
    PROVE  vicon_do_write(r, p) = << vicon_message(SIZE_COMMAND, r,
                                       {"command"} \cup vicon_encode_preset(p), Octets5(p)) >>
<1>1. vicon_adjust_menu_commands(p) = p
    BY DEF Idle, vicon_adjust_menu_commands
<1>2. ~ccpacket_has_pan(p) /\ ~ccpacket_has_tilt(p)
    BY DEF Idle, ccpacket_has_pan, ccpacket_has_tilt
<1>3. ~is_extended_speed(p)
    BY <1>2 DEF Idle, is_extended_speed
<1>4. ~is_extended_preset(p)
    <2>1. ~(p.preset > 15)
        BY DEF Idle
    <2>. QED
        BY <2>1 DEF Idle, is_extended_preset
<1>5. {"command"} \cup encode_pan_tilt(p) \cup vicon_encode_lens(p)
         \cup encode_toggles(p) \cup encode_aux(p) \cup vicon_encode_preset(p)
      = {"command"} \cup vicon_encode_preset(p)
    BY <1>2 DEF Idle, encode_pan_tilt, vicon_encode_lens, encode_toggles, encode_aux
<1>. QED
    BY <1>1, <1>3, <1>4, <1>5 DEF vicon_do_write, vicon_encode_command

\* Over a link of Pelco a packet is always a message, and over one of Pelco or Vicon it
\* is a stop once the stick is let go, the buttons released and all is read, as long as
\* the device stays open (decode_pan_mode, the encoders).
THEOREM StopsAreSent == Spec => []StopsSent
<1>1. Inv /\ PlainInv => StopsSent
    <2>. SUFFICES ASSUME Inv, PlainInv, NEW j \in 1 .. Len(last),
                         NEW w \in Range(last[j].written)
                  PROVE  LET p == last[j].pkt  n_rcv == nodes[w.link].n_rcv
                         IN /\ n_rcv = PELCO_MAX_ADDRESS =>
                                  \A d \in {"pelco_d", "pelco_p"} :
                                     LET ms == do_write(d, w.receiver, p)
                                     IN /\ ms # << >>
                                        /\ AtRest => ms[1] = Frame(d, w.receiver, 0, 0, 0, 0)
                            /\ n_rcv = VICON_MAX_ADDRESS /\ AtRest =>
                                  vicon_do_write(w.receiver, p) =
                                     << vicon_message(SIZE_COMMAND, w.receiver,
                                          {"command"} \cup vicon_encode_preset(p), Octets5(p)) >>
        BY DEF StopsSent
    <2>1. PICK g : last = <<g>> /\ Given(g, rdr.pkt)
        BY DEF Inv, LastInv
    <2>2. /\ last[j] = g /\ last[1] = g /\ g.pkt \in Packets /\ Modes(g.pkt) /\ HasPan(g.pkt)
          /\ w \in Due(g.chosen)
        BY <2>1, LastIs DEF Given
    <2>3. w.receiver \in 1 .. nodes[w.link].n_rcv
        BY <2>2 DEF Due
    <2>4. Plain(g.pkt)
        <3>1. Alike(g.pkt, rdr.pkt, {"preset"})
            BY <2>1, <2>2, NoPresetIs DEF Given
        <3>2. Alike(rdr.pkt, g.pkt, {"preset"})
            BY <3>1 DEF Alike
        <3>3. {"preset"} \cap (PlainGroups \cup {"pan"}) = {}
            BY DEF PlainGroups
        <3>. QED
            BY <3>2, <3>3, PlainAlike DEF PlainInv
    <2>5. /\ Get(g.pkt, "menu") = {} /\ Get(g.pkt, "ack") = {} /\ Get(g.pkt, "lens") = {}
          /\ Get(g.pkt, "pan") # {} /\ "pan_auto" \notin Get(g.pkt, "pan")
        BY <2>2, <2>4, GroupsAre, GetIs DEF Plain, PlainGroups, HasPan
    <2>6. ASSUME AtRest PROVE Idle(g.pkt)
        <3>1. /\ open /\ closes = 0 /\ queue = << >> /\ \A a \in Axes : stick[a] = 0
              /\ held \cap DOMAIN BUTTON = {}
            BY <2>6 DEF AtRest
        <3>2. /\ \A a \in Axes : Shows(rdr.pkt, a, 0)
              /\ \A h \in HeldGroups : rdr.pkt.flags \cap CC[h] = {}
            <4>1. AxesInv /\ HeldInv
                BY DEF Inv
            <4>2. \A a \in Axes : AxisSays(<< >>, a, 0, rdr.pkt)
                BY <3>1, <4>1 DEF AxesInv
            <4>3. \A h \in HeldGroups : GroupSays(<< >>, h, held, rdr.pkt)
                BY <3>1, <4>1 DEF HeldInv
            <4>. QED
                BY <3>1, <4>2, <4>3 DEF AxisSays, GroupSays
        <3>3. /\ \A a \in Axes : Shows(g.pkt, a, 0)
              /\ \A h \in HeldGroups : Get(g.pkt, h) = {}
            BY <2>1, <3>2, LastIs
        <3>4. /\ Asks("pan", 0, Get(g.pkt, "pan"), g.pkt.pan)
              /\ Asks("tilt", 0, Get(g.pkt, "tilt"), g.pkt.tilt)
              /\ Get(g.pkt, "zoom") = {}
            BY <3>3 DEF Shows, Axes, SignMode
        <3>5. /\ g.pkt.pan \in Nat /\ g.pkt.tilt \in Nat /\ g.pkt.preset \in 0 .. 4
              /\ JSPEED_MAX = 32767 /\ Abs(0) = 0
            <4>1. /\ g.pkt.pan \in 0 .. SPEED_MAX /\ g.pkt.tilt \in 0 .. SPEED_MAX
                  /\ g.pkt.preset \in 0 .. 4
                BY <2>2 DEF Packets
            <4>2. Abs(0) = 0
                BY DEF Abs
            <4>. QED
                BY <4>1, <4>2, PacketAssumption DEF JSPEED_MAX
        <3>6. g.pkt.pan = 0 /\ g.pkt.tilt = 0
            <4>1. ASSUME NEW s \in Nat, s * JSPEED_MAX <= Abs(0) * SPEED_MAX
                  PROVE  s = 0
                <5>1. Abs(0) * SPEED_MAX = 0
                    BY <3>5, PacketAssumption
                <5>2. s * 32767 <= 0
                    BY <4>1, <5>1, <3>5
                <5>. QED
                    BY <5>2
            <4>2. /\ g.pkt.pan * JSPEED_MAX <= Abs(0) * SPEED_MAX
                  /\ g.pkt.tilt * JSPEED_MAX <= Abs(0) * SPEED_MAX
                BY <3>4 DEF Asks
            <4>3. g.pkt.pan = 0
                BY <4>1, <4>2, <3>5
            <4>. QED
                BY <4>1, <4>2, <4>3, <3>5
        <3>7. /\ Get(g.pkt, "pan") # {"pan_manual"}
              /\ Get(g.pkt, "pan") \in {{}} \cup {{f} : f \in Cases("pan")}
            BY ValidIs, GroupsAre DEF Get, Cases
        <3>. QED
            BY <2>5, <3>3, <3>4, <3>5, <3>6, <3>7 DEF Idle, HeldGroups
    <2>7. ASSUME nodes[w.link].n_rcv = PELCO_MAX_ADDRESS, NEW d \in {"pelco_d", "pelco_p"}
          PROVE  /\ do_write(d, w.receiver, g.pkt) # << >>
                 /\ AtRest => do_write(d, w.receiver, g.pkt)[1] = Frame(d, w.receiver, 0, 0, 0, 0)
        BY <2>3, <2>5, <2>6, <2>7, PelcoCommand, PelcoIdle
    <2>8. ASSUME nodes[w.link].n_rcv = VICON_MAX_ADDRESS, AtRest
          PROVE  vicon_do_write(w.receiver, g.pkt) =
                    << vicon_message(SIZE_COMMAND, w.receiver,
                                     {"command"} \cup vicon_encode_preset(g.pkt), Octets5(g.pkt)) >>
        BY <2>3, <2>6, <2>8, ViconIdle
    <2>. QED
        BY <2>2, <2>7, <2>8
<1>. QED
    BY <1>1, Invariance, PlainInvariance, PTL

\* A packet is written once over every link that the chosen camera is due to, and
\* over no other, with that link's shift (ccreader_do_writers, ccnode_get_receiver).
THEOREM PacketsAreRouted == Spec => []Routed
<1>1. Inv => Routed
    <2>. SUFFICES ASSUME Inv, NEW j \in 1 .. Len(last)
                  PROVE  /\ Range(last[j].written) = Due(last[j].chosen)
                         /\ Len(last[j].written) = Cardinality(Due(last[j].chosen))
        BY DEF Routed
    <2>1. PICK g : last = <<g>> /\ Given(g, rdr.pkt)
        BY DEF Inv, LastInv
    <2>2. last[j] = g
        BY <2>1, LastIs
    <2>. QED
        BY <2>1, <2>2 DEF Given
<1>. QED
    BY <1>1, Invariance, PTL

\* Until the device is unplugged, nothing goes on of what a button began once no such
\* button is held and all is read (decode_button).
THEOREM NothingStaysOn == Spec => []NothingRunsOn
<1>1. Inv => NothingRunsOn
    <2>. SUFFICES ASSUME Inv, open, closes = 0, queue = << >>,
                         held \cap DOMAIN BUTTON = {}, NEW b \in DOMAIN BUTTON
                  PROVE  Get(last[1].pkt, BUTTON[b].group) = {}
        BY DEF NothingRunsOn
    <2>1. LastInv /\ PanInv /\ HeldInv
        BY DEF Inv
    <2>2. PICK g : last = <<g>> /\ Given(g, rdr.pkt)
        BY <2>1 DEF LastInv, PanInv, PanFirst
    <2>3. PICK h \in HeldGroups : h = BUTTON[b].group
        BY ButtonIs
    <2>4. GroupSays(<< >>, h, held, rdr.pkt)
        BY <2>1 DEF HeldInv
    <2>5. rdr.pkt.flags \cap CC[h] = {}
        BY <2>4 DEF GroupSays
    <2>6. last[1] = g /\ Get(g.pkt, h) = rdr.pkt.flags \cap CC[h]
        BY <2>2, LastIs
    <2>. QED
        BY <2>3, <2>5, <2>6
<1>. QED
    BY <1>1, Invariance, PTL

\* A preset is recalled or stored only for the press or release that asks for it in the
\* same read, and never again with what is given later (joystick_do_read clears it).
THEOREM PresetsAreAsked == Spec => []PresetsAsked
<1>1. Inv => PresetsAsked
    <2>. SUFFICES ASSUME Inv, NEW j \in 1 .. Len(last)
                  PROVE  LET p == last[j].pkt  mode == ccpacket_get_preset_mode(p)
                         IN mode # {} => Button(p.preset + 5, mode = {"preset_recall"})
                                            \in last[j].presets
        BY DEF PresetsAsked
    <2>1. PICK g : last = <<g>> /\ Given(g, rdr.pkt)
        BY DEF Inv, LastInv
    <2>2. last[j] = g
        BY <2>1, LastIs
    <2>. QED
        BY <2>1, <2>2 DEF Given
<1>. QED
    BY <1>1, Invariance, PTL

==============================================================================
