------------------------------ MODULE MCLayout ------------------------------
(***************************************************************************)
(* The layout and its text, with bytes of eight values and digits of       *)
(* three.  Contexts takes each field at its ends and on both sides of a    *)
(* byte boundary.                                                          *)
(***************************************************************************)
EXTENDS TextForm

MCTimestamps == {0, Byte-1, Byte, Byte*Byte - 1, TsLimit - Byte, TsLimit-1}
MCHighs == {0, SixBits-1, SixBits, HighLimit-1}
MCLows == {0, Byte-1, Byte, TsLimit, LowLimit-1}

MCContexts ==
  [last_timestamp_ms : MCTimestamps,
   rand_a_high       : {0, RandALimit-1},
   counter_high      : MCHighs,
   counter_low       : MCLows]

=============================================================================
