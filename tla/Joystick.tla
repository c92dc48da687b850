------------------------------- MODULE Joystick -------------------------------
(****************************************************************************)
(* joystick.c: a reader whose packet is kept from one read to the next, so  *)
(* that it says how the stick stands; the driver that queues its events;    *)
(* and the links to the writers (CCReader), among whose cameras two buttons *)
(* choose.                                                                  *)
(****************************************************************************)
EXTENDS CCReader, Pelco, Vicon

CONSTANTS
    Positions,   \* where an axis may stand
    Buttons,     \* the buttons that are used, in their order
    Directives,  \* the directives whose input is the joystick, in their order
    MaxEvents,   \* bound: events of the user
    MaxCloses,   \* bound: times the device is unplugged
    MaxCuts      \* bound: reads that do not bring all events

JSPEED_MAX == 32767

ASSUME JoystickAssumption ==
    /\ Positions \subseteq -JSPEED_MAX .. JSPEED_MAX /\ 0 \in Positions
    /\ Buttons \in Seq(Nat)
    /\ Directives \in Seq([range : Seq(Int), shift : Int, n_rcv : Nat])
    /\ Len(Directives) > 0 /\ FirstCamera(Directives) \in 0 .. MAX_CAMERA
    /\ MaxEvents \in Nat /\ MaxCloses \in Nat /\ MaxCuts \in Nat

Axes == {"pan", "tilt", "zoom"}

\* The group and mode of the buttons that set one while they are held.
BUTTON == [b \in 0 .. 5 |-> <<[group |-> "focus", mode |-> {"focus_near"}],
                             [group |-> "focus", mode |-> {"focus_far"}],
                             [group |-> "iris",  mode |-> {"iris_close"}],
                             [group |-> "iris",  mode |-> {"iris_open"}],
                             [group |-> "wiper", mode |-> {"wiper_on"}],
                             [group |-> "camera", mode |-> {"camera_on"}]>>[b + 1]]
JBUTTON_PRESETS  == 6 .. 9
JBUTTON_PREVIOUS == 10
JBUTTON_NEXT     == 11

VARIABLES
    open,     \* the device is open
    stick,    \* where each axis stands
    held,     \* the buttons that are held
    queue,    \* the events not read
    rdr,      \* the reader: the receiver and the packet it keeps
    last,     \* history: what was given to the writers last, if anything
    chosen,   \* history: the camera chosen by the events read
    cuts,     \* history: the reads that did not bring all events
    events,   \* history: the number of the user's events
    closes    \* history: the number of closes

vars == <<open, stick, held, queue, rdr, last, chosen, cuts, events, closes>>

nodes == Links(Directives)

Init ==
    /\ open = FALSE
    /\ stick = [a \in Axes |-> 0] /\ held = {} /\ queue = << >>
    /\ rdr = [receiver |-> FirstCamera(Directives), pkt |-> Cleared]
    /\ last = << >>
    /\ chosen = FirstCamera(Directives)
    /\ cuts = 0 /\ events = 0 /\ closes = 0

-----------------------------------------------------------------------------
(* The device and its user.                                                 *)

Axis(a, v)      == [type |-> "axis", number |-> a, value |-> v, initial |-> FALSE]
Button(b, down) == [type |-> "button", number |-> b, value |-> IF down THEN 1 ELSE 0,
                    initial |-> FALSE]

\* The events that say how a device stands when it is opened: buttons, then axes.
InitialEvents ==
    LET initial(e) == [e EXCEPT !.initial = TRUE]
    IN [j \in 1 .. Len(Buttons) |-> initial(Button(Buttons[j], Buttons[j] \in held))]
       \o << initial(Axis("pan", stick["pan"])), initial(Axis("tilt", stick["tilt"])),
             initial(Axis("zoom", stick["zoom"])) >>

\* The user does something, and the driver queues it if the device is open.
Event(e) ==
    /\ events < MaxEvents /\ events' = events + 1
    /\ queue' = IF open THEN Append(queue, e) ELSE queue
    /\ UNCHANGED <<open, rdr, last, chosen, cuts, closes>>

Move(a, v) ==
    /\ v # stick[a]
    /\ stick' = [stick EXCEPT ![a] = v]
    /\ Event(Axis(a, v)) /\ UNCHANGED held

Press(b) ==
    /\ b \notin held
    /\ held' = held \cup {b}
    /\ Event(Button(b, TRUE)) /\ UNCHANGED stick

Release(b) ==
    /\ b \in held
    /\ held' = held \ {b}
    /\ Event(Button(b, FALSE)) /\ UNCHANGED stick

\* The poller opens the channel, which has a reader, whenever it is closed.
Open ==
    /\ ~open
    /\ open' = TRUE
    /\ queue' = InitialEvents
    /\ UNCHANGED <<stick, held, rdr, last, chosen, cuts, events, closes>>

\* The device is unplugged: what it had queued is gone, the reader stays.
Close ==
    /\ open /\ closes < MaxCloses
    /\ open' = FALSE
    /\ queue' = << >>
    /\ closes' = closes + 1
    /\ UNCHANGED <<stick, held, rdr, last, chosen, cuts, events>>

\* Nobody touches the joystick.
Silence == UNCHANGED vars

-----------------------------------------------------------------------------
(* Decoding an event: r is the reader and whether there is something to     *)
(* give to the writers.                                                     *)

Abs(v) == IF v < 0 THEN -v ELSE v

remap_speed(v) == (Abs(v) * SPEED_MAX) \div JSPEED_MAX

\* The mode of an axis at v.
SignMode(a, v) ==
    CASE v < 0 -> [pan |-> {"pan_left"}, tilt |-> {"tilt_up"}, zoom |-> {"zoom_out"}][a]
      [] v > 0 -> [pan |-> {"pan_right"}, tilt |-> {"tilt_down"}, zoom |-> {"zoom_in"}][a]
      [] OTHER -> {}

\* Pan and tilt have a mode at rest, too.
Mode(a, v) == IF v = 0 /\ a = "pan" THEN {"pan_left"}
              ELSE IF v = 0 /\ a = "tilt" THEN {"tilt_down"} ELSE SignMode(a, v)

NoPreset(p) == ccpacket_set_preset(p, {}, 0)

decode_pan_tilt_zoom(p, a, v) ==
    NoPreset(CASE a = "pan"  -> ccpacket_set_pan(p, Mode(a, v), remap_speed(v))
               [] a = "tilt" -> ccpacket_set_tilt(p, Mode(a, v), remap_speed(v))
               [] a = "zoom" -> Set(p, "zoom", Mode(a, v)))

moved_since_pressed(p) == ccpacket_get_preset_mode(p) # {"preset_recall"}

\* A packet for the writers, and one that is not.
Ready(r, p)  == [receiver |-> r.receiver, pkt |-> p, ready |-> TRUE]
Nothing(r)   == [r EXCEPT !.pkt = NoPreset(@)]

decode_preset_button(r, n, pressed) ==
    IF pressed THEN Ready(r, ccpacket_set_preset(r.pkt, {"preset_recall"}, n))
    ELSE IF moved_since_pressed(r.pkt)
    THEN Ready(r, ccpacket_set_preset(r.pkt, {"preset_store"}, n))
    ELSE Nothing(r)

\* Mutant: there is nothing to give when a button is released.
BugHeldButton(r, b, pressed) ==
    [Ready(r, Set(r.pkt, BUTTON[b].group, IF pressed THEN BUTTON[b].mode ELSE {}))
        EXCEPT !.ready = pressed \/ r.ready]

decode_held_button(r, b, pressed) ==
    Ready(r, Set(r.pkt, BUTTON[b].group, IF pressed THEN BUTTON[b].mode ELSE {}))

decode_button(r, b, pressed) ==
    IF b \in DOMAIN BUTTON THEN decode_held_button(r, b, pressed)
    ELSE IF b \in JBUTTON_PRESETS THEN decode_preset_button(r, b - 5, pressed)
    ELSE IF b = JBUTTON_PREVIOUS /\ pressed
    THEN [Nothing(r) EXCEPT !.receiver = ccreader_previous_camera(@)]
    ELSE IF b = JBUTTON_NEXT /\ pressed
    THEN [Nothing(r) EXCEPT !.receiver = ccreader_next_camera(@)]
    ELSE Nothing(r)

\* Mutant: no event counts that says how the device stands.
BugDecodeEvent(r, e) ==
    IF e.initial THEN r
    ELSE IF e.type = "axis" THEN Ready(r, decode_pan_tilt_zoom(r.pkt, e.number, e.value))
    ELSE decode_button(r, e.number, e.value # 0)

joystick_decode_event(r, e) ==
    IF e.type = "axis" THEN Ready(r, decode_pan_tilt_zoom(r.pkt, e.number, e.value))
    ELSE IF ~e.initial THEN decode_button(r, e.number, e.value # 0)
    ELSE r

\* The reader after the first n events of the queue.
Decoded(n) ==
    LET after[k \in 0 .. n] ==
            IF k = 0 THEN [receiver |-> rdr.receiver, pkt |-> rdr.pkt, ready |-> FALSE]
            ELSE joystick_decode_event(after[k - 1], queue[k])
    IN after[n]

\* Mutant: the preset is left in the packet.
BugAfterRead(receiver, p) == [receiver |-> receiver, pkt |-> p]

\* The reader when everything that was read is decoded and given.
AfterRead(receiver, p) == [receiver |-> receiver, pkt |-> NoPreset(p)]

IsPress(e, b) == e.type = "button" /\ e.number = b /\ ~e.initial /\ e.value = 1

\* What the events say: the camera they choose, ...
Chosen(es) ==
    LET after[k \in 0 .. Len(es)] ==
            IF k = 0 THEN chosen
            ELSE LET c == after[k - 1]
                 IN IF IsPress(es[k], JBUTTON_PREVIOUS) /\ c > 0 THEN c - 1
                    ELSE IF IsPress(es[k], JBUTTON_NEXT) /\ c < MAX_CAMERA THEN c + 1
                    ELSE c
    IN after[Len(es)]

\* ... and the presses and releases of presets that no movement follows.
Presets(es) == {e \in Range(es) :
                  /\ e.type = "button" /\ e.number \in JBUTTON_PRESETS
                  /\ \E i \in 1 .. Len(es) : /\ es[i] = e
                                             /\ \A k \in i + 1 .. Len(es) : es[k].type # "axis"}

\* n events are read: the packet they leave is given once for all of them.
Read(n) ==
    LET r  == Decoded(n)
        w  == ccreader_do_writers(nodes, r.receiver)
        es == SubSeq(queue, 1, n)
    IN /\ open /\ n \in 1 .. Len(queue)
       /\ IF n = Len(queue) THEN UNCHANGED cuts ELSE cuts < MaxCuts /\ cuts' = cuts + 1
       /\ queue' = SubSeq(queue, n + 1, Len(queue))
       /\ IF r.ready
          THEN /\ last' = << [pkt |-> r.pkt, written |-> w.written, chosen |-> Chosen(es),
                              presets |-> Presets(es)] >>
               /\ rdr' = AfterRead(w.receiver, r.pkt)
          ELSE /\ rdr' = AfterRead(r.receiver, r.pkt)
               /\ UNCHANGED last
       /\ chosen' = Chosen(es)
       /\ UNCHANGED <<open, stick, held, events, closes>>

Next == \/ \E a \in Axes, v \in Positions : Move(a, v)
        \/ \E b \in Range(Buttons) : Press(b)
        \/ \E b \in Range(Buttons) : Release(b)
        \/ Open
        \/ Close
        \/ \E n \in 1 .. Len(queue) : Read(n)
        \/ Silence

Spec == Init /\ [][Next]_vars

-----------------------------------------------------------------------------
(* Properties.                                                              *)

IsPacket(p) ==
    /\ \A g \in Groups : p.flags \cap CC[g] \in {{}} \cup {{f} : f \in Cases(g)}
    /\ p.pan \in 0 .. SPEED_MAX /\ p.tilt \in 0 .. SPEED_MAX
    /\ p.preset \in 0 .. 4

\* Everything has its type; in particular the speeds are speeds, although only
\* that of the pan is clamped by its setter (decode_pan_tilt_zoom).
TypeOK ==
    /\ open \in BOOLEAN
    /\ stick \in [Axes -> Positions] /\ held \subseteq Range(Buttons)
    /\ rdr.receiver \in 0 .. MAX_CAMERA /\ IsPacket(rdr.pkt)
    /\ Len(last) \in {0, 1} /\ \A j \in 1 .. Len(last) : IsPacket(last[j].pkt)
    /\ chosen \in 0 .. MAX_CAMERA

\* The motion that a stick at v asks of an axis, at that speed.
Asks(a, v, mode, speed) ==
    /\ speed * JSPEED_MAX <= Abs(v) * SPEED_MAX
    /\ Abs(v) * SPEED_MAX < (speed + 1) * JSPEED_MAX
    /\ speed > 0 => mode = SignMode(a, v)

\* When every event has been read, the packet that was given last says how the
\* stick stands, however the events were spread over reads, after the stick was
\* moved while the device was unplugged, and whatever buttons were used since
\* (joystick_do_read keeps the packet).
StickObeyed ==
    open /\ queue = << >> =>
        /\ last # << >>
        /\ LET p == last[1].pkt
           IN /\ Asks("pan", stick["pan"], Get(p, "pan"), p.pan)
              /\ Asks("tilt", stick["tilt"], Get(p, "tilt"), p.tilt)
              /\ Get(p, "zoom") = SignMode("zoom", stick["zoom"])

\* The stick is let go, no button is held, and every event has been read.
AtRest == /\ open /\ closes = 0 /\ queue = << >>
          /\ \A a \in Axes : stick[a] = 0
          /\ held \cap DOMAIN BUTTON = {}

\* Over a link with a writer of Pelco D, Pelco P or Infinova every packet given is a
\* message, and over one of Vicon, which always makes one, too; and as long as the
\* device stays open the message is a stop once all is at rest and read, whatever
\* the events before it began, but for a preset that is asked for with it
\* (decode_pan_mode, pelco_d_do_write_cb, pelco_p_do_write, vicon_do_write).  A
\* link is known by its number of receivers.  Nothing is said of Manchester, which
\* has no message for a stop (manchester_do_write): its cameras time out.
StopsSent ==
    \A j \in 1 .. Len(last) : \A w \in Range(last[j].written) :
        LET p == last[j].pkt  n_rcv == nodes[w.link].n_rcv
        IN /\ n_rcv = PELCO_MAX_ADDRESS =>
                 \A d \in {"pelco_d", "pelco_p"} :
                    LET ms == do_write(d, w.receiver, p)
                    IN /\ ms # << >>
                       /\ AtRest => ms[1] = Frame(d, w.receiver, 0, 0, 0, 0)
           /\ n_rcv = VICON_MAX_ADDRESS /\ AtRest =>
                 vicon_do_write(w.receiver, p) =
                    << vicon_message(SIZE_COMMAND, w.receiver,
                                     {"command"} \cup vicon_encode_preset(p), Octets5(p)) >>

\* The writers a packet for camera c is due to, with the receiver of each.
Due(c) == {[link |-> k, receiver |-> c + nodes[k].shift] :
              k \in {j \in 1 .. Len(nodes) :
                        /\ c \in nodes[j].range_first .. nodes[j].range_last
                        /\ c + nodes[j].shift \in 1 .. nodes[j].n_rcv}}

\* A packet goes to the camera chosen by the buttons, once over every link that
\* has it in its range, shifted for that link alone (ccreader_do_writers).
Routed ==
    \A j \in 1 .. Len(last) :
        /\ Range(last[j].written) = Due(last[j].chosen)
        /\ Len(last[j].written) = Cardinality(Due(last[j].chosen))

\* As long as the device stays open, nothing that a button began goes on when no
\* button is held and every event has been read (decode_button).
NothingRunsOn ==
    open /\ closes = 0 /\ queue = << >> /\ held \cap DOMAIN BUTTON = {} =>
        \A b \in DOMAIN BUTTON : Get(last[1].pkt, BUTTON[b].group) = {}

\* A preset is recalled only for a press, and stored only for a release, read with
\* no movement after it in the same read: never again with what is given later
\* (joystick_do_read clears it in the packet it keeps).
PresetsAsked ==
    \A j \in 1 .. Len(last) :
        LET p == last[j].pkt  mode == ccpacket_get_preset_mode(p)
        IN mode # {} => Button(p.preset + 5, mode = {"preset_recall"}) \in last[j].presets
==============================================================================
