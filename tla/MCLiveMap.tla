------------------------------ MODULE MCLiveMap ------------------------------
(* Instances of LiveMap for TLC. *)
EXTENDS LiveMap, TLC

\* Beyond both ends of what handleControl allows.
AnySlider == -1..(MaxDrivers + 1)
===============================================================================
