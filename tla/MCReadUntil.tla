---------------------------- MODULE MCReadUntil -----------------------------
(* Instance of ReadUntil for TLC: streams over the two bytes of a line     *)
(* end, and delimiters that overlap with themselves and with each other.   *)
EXTENDS ReadUntil

CONSTANTS CR, LF

MCDelimiters == {<<CR, LF>>, <<CR, LF, CR, LF>>}
MCLimits == {-1, 2}
=============================================================================
