------------------------------- MODULE MCSerial -------------------------------
(* One receiver has the number that starts a message of Pelco P.  The packets *)
(* are: both speeds at their limits with the lens; a diagonal; a stop; every  *)
(* function that is a message of its own; and a preset while moving, whose    *)
(* number has more bits than a message, and for Vicon nothing but those.      *)
EXTENDS Serial

MCProtocols == {"pelco_d", "pelco_p", "pelco_p7", "vicon", "infinova_d"}

MCReceivers == {1, 160}

P(flags, pan, tilt, preset) ==
    [flags |-> flags, pan |-> pan, tilt |-> tilt, preset |-> preset]

MCPackets ==
    { P({"pan_left", "tilt_down", "zoom_in", "iris_auto", "wiper_off"}, 2047, 1000, 0),
      P({"pan_left", "tilt_down", "lens_speed"}, 0, 0, 0),
      P({"preset_store", "wiper_on", "camera_on", "pan_auto"}, 0, 0, 8),
      P({"pan_right", "tilt_up", "preset_recall", "focus_near", "camera_off", "ack_alarm"},
        300, 15, 384) }

MCBursts == {1, 8}

MCReads == {5}
==============================================================================
