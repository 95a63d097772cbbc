------------------------------ MODULE MCDevices ------------------------------
(* A small instance of Devices for TLC.                                    *)
EXTENDS Devices

CONSTANTS p1, x1, y1
==============================================================================
