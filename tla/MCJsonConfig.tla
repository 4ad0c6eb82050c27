---------------------------- MODULE MCJsonConfig ----------------------------
(* JsonConfig with small limits, for TLC.  A stray write leaves a count     *)
(* before, in and behind the arrays.                                        *)
EXTENDS JsonConfig

MCStrayCounts == {-1, 0, 1, 3}
=============================================================================
