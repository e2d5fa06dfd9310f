------------------------------- MODULE MCTimedIO -------------------------------
(* Buffers of two bytes, two lines and a part of a third to read, and      *)
(* writes that fit into the buffer, fill it, and exceed it.                *)
EXTENDS TimedIO

MCText == <<"a", "b", "n", "n", "d">>
================================================================================
