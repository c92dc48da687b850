----------------------------- MODULE MCManchester -----------------------------
(* Two receivers that differ in all three bytes, and packets of one to three *)
(* messages: the slowest and the full speed, a speed that is a level, what a *)
(* message can say and what it cannot.                                       *)
EXTENDS Manchester

MCReceivers == {1, 1006}

P(flags, pan, tilt, preset) ==
    [flags |-> flags, pan |-> pan, tilt |-> tilt, preset |-> preset]

MCPackets ==
    { P({"pan_left", "zoom_in"}, 2047, 0, 0),
      P({"pan_right", "tilt_up", "focus_auto"}, 256, 1793, 0),
      P({"tilt_down", "iris_close", "wiper_on"}, 0, 1, 0),
      P({"preset_store", "camera_on", "wiper_on", "pan_auto"}, 0, 0, 8),
      P({"preset_recall", "zoom_out", "lens_speed"}, 0, 0, 9) }
==============================================================================
