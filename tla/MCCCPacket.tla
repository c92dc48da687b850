------------------------------ MODULE MCCCPacket ------------------------------
(* Two speeds; no preset, an ordinary preset and two of the menu's; the     *)
(* first and the last receiver of Pelco, and the last of Vicon.             *)
EXTENDS CCPacket
MCReceivers == {1, 254, 255}
MCSpeeds  == {0, 9}
MCNumbers == {0, 1, 77, 79}
==============================================================================
