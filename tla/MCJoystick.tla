------------------------------ MODULE MCJoystick ------------------------------
(* Full deflection, none, and one below the lowest speed; a button of a lens, *)
(* one of a toggle, a preset, and both that choose the camera.  The links     *)
(* overlap, shift either way, drop what a shift leaves below 1 or a writer    *)
(* has no receiver for, and have an empty range.                              *)
EXTENDS Joystick

MCPositions == {-32767, 0, 10}

MCButtons == <<1, 4, 6, 10, 11>>

D(range, shift, n_rcv) == [range |-> range, shift |-> shift, n_rcv |-> n_rcv]

MCDirectives ==
    << D(<<1, -2>>, 256, 1024), D(<< >>, 0, 254), D(<<2>>, -2, 254), D(<<3, -1>>, 0, 254),
       D(<<1, -1024>>, 254, 255), D(<<1, -9>>, 3, 255) >>
==============================================================================
