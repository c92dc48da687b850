------------------------------- MODULE MCDaemon -------------------------------
(* Two serial ports, each an input and an output, a port of the network in both *)
(* directions, an unknown protocol, and files that are empty or end in a bad    *)
(* line after a good one.                                                       *)
EXTENDS Daemon

MCInodes == {1, 2}

Serial(name) == [name |-> name, service |-> "9600", flags |-> {}, sport |-> TRUE]
Net(flags)   == [name |-> "host", service |-> "80", flags |-> flags, sport |-> FALSE]

Line(protocol_in, port_in, protocol_out, port_out) ==
    [fields |-> 6, directive |-> [protocol_in |-> protocol_in, port_in |-> port_in,
                                  protocol_out |-> protocol_out, port_out |-> port_out]]

BadLine == [fields |-> 2]
Comment == [fields |-> 0]

MCContents ==
    << << >>,
      << Line("vicon", Serial("a"), "manchester", Serial("b")), BadLine >>,
      << Line("vicon", Serial("a"), "manchester", Serial("b")), Comment,
         Line("pelco_d", Serial("b"), "vicon", Serial("a")) >>,
      << Line("pelco_p", Net({}), "axis", Net({})),
         Line("smoke", Net({"UDP"}), "pelco_q", Serial("a")),
         Line("pelco_d", Net({}), "pelco_d", Net({})) >> >>
==============================================================================
