-------------------------- MODULE MCSettingsDialogs --------------------------
(* Two devices, a computer with one serial port, and a server's port.      *)
EXTENDS SettingsDialogs

MCSerialPorts == {"COM1"}
MCPortNames == {"P1", "P2", "text", "Port1"}
MCUnits == {1, 2}
MCGarbage == {0, 7}
=============================================================================
