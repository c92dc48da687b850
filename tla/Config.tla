-------------------------------- MODULE Config --------------------------------
(****************************************************************************)
(* config.c: what the lines of a configuration file make.  A line is the    *)
(* number of its fields and, with five or more, a directive: the protocols  *)
(* and ports of an input and of an output.  A port is its name, its         *)
(* service, the protocol flags in front of it, and whether it is a serial   *)
(* port.  The ranges and shifts are in CCReader.                            *)
(*                                                                          *)
(* The list of channels is kept in the order in which they were made, the   *)
(* reverse of that in the code.                                             *)
(****************************************************************************)
EXTENDS Integers, Sequences, FiniteSetsExt, SequencesExt

None == "none"   \* NULL

\* ccreader_set_protocol: the function of an unknown protocol is left as it was.
ReadProtocols == {"joystick", "manchester", "pelco_d", "pelco_p", "pelco_p7", "vicon"}

do_read(protocol) == IF protocol \in ReadProtocols THEN protocol ELSE "unset"

\* ccwriter_set_protocol: how many receivers a writer has.
WriteProtocols ==
    [manchester |-> 1024, infinova_d |-> 254, pelco_d |-> 254, pelco_p |-> 254,
     vicon |-> 255, axis |-> 1]

n_rcv(protocol) ==
    IF protocol \in DOMAIN WriteProtocols THEN WriteProtocols[protocol] ELSE 0

config_init == [chns |-> << >>, n_channels |-> 0, writers |-> << >>]

\* Mutant: the direction tells the channels of a serial port apart.
BugChannelFlags(port) == {"UDP", "TCP", "LISTEN"}

\* The flags in which a channel of the port differs from others: a serial port is
\* read and written on one channel.
channel_flags(port) == {"UDP", "TCP"} \cup IF port.sport THEN {} ELSE {"LISTEN"}

channel_matches(chn, port, flags) ==
    /\ chn.port.name = port.name /\ chn.port.service = port.service
    /\ chn.flags \cap channel_flags(port) = flags \cap channel_flags(port)

channel_init(port, flags) ==
    [port |-> port, flags |-> flags, reader |-> None, links |-> << >>]

\* The channels that may be had for the port.
Matching(cf, port, flags) ==
    {c \in DOMAIN cf.chns : channel_matches(cf.chns[c], port, flags)}

\* The configuration with a channel for the port, and which that is.
config_get_channel(cf, port, direction) ==
    LET flags == port.flags \cup direction
        found == Matching(cf, port, flags)
    IN IF found # {} THEN [cfg |-> cf, at |-> Max(found)]
       ELSE [cfg |-> [cf EXCEPT !.chns = Append(@, channel_init(port, flags)),
                                 !.n_channels = @ + 1],
             at  |-> Len(cf.chns) + 1]

\* The first directive that names an input makes the reader.
SetReader(cf, c, protocol) ==
    IF cf.chns[c].reader = None
    THEN [cf EXCEPT !.chns[c].reader = do_read(protocol)]
    ELSE cf

\* ccwriter_init: an axis camera must answer.
AddWriter(cf, c, protocol) ==
    [cf EXCEPT !.writers = Append(@, [chn |-> c, n_rcv |-> n_rcv(protocol)]),
                !.chns[c].flags = @ \cup IF protocol = "axis" THEN {"RESP_REQUIRED"} ELSE {}]

\* Every directive makes a writer of its own, linked first to the reader.
config_directive(cf, d) ==
    LET in  == config_get_channel(cf, d.port_in, {"LISTEN"})
        out == config_get_channel(SetReader(in.cfg, in.at, d.protocol_in), d.port_out, {})
        w   == AddWriter(out.cfg, out.at, d.protocol_out)
    IN [w EXCEPT !.chns[in.at].links = <<Len(w.writers)>> \o @]

\* A line without fields is skipped; one with some, but too few, ends the reading.
config_scan_directive(s, line) ==
    IF ~s.ok \/ line.fields <= 0 THEN s
    ELSE IF line.fields >= 5 THEN [s EXCEPT !.cfg = config_directive(@, line.directive)]
    ELSE [s EXCEPT !.ok = FALSE]

\* What reading the lines makes of a new configuration, and whether it is taken.
config_read(lines) ==
    LET after[k \in 0 .. Len(lines)] ==
            IF k = 0 THEN [ok |-> TRUE, cfg |-> config_init]
            ELSE config_scan_directive(after[k - 1], lines[k])
        s == after[Len(lines)]
    IN [s EXCEPT !.ok = @ /\ s.cfg.n_channels > 0]

\* config_cede_channels: what is left of the configuration.
Ceded(cf) == [cf EXCEPT !.n_channels = 0, !.chns = << >>]
==============================================================================
