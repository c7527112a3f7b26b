------------------------------ MODULE MCFramer ------------------------------
(* Framer instantiated for TLC: three PDUs of 16 and 20 bytes, chunks of   *)
(* up to 24 bytes, so a chunk can end inside a length prefix, inside a    *)
(* header, or carry the tail of one PDU together with the next.           *)
EXTENDS Framer

WellFormedLengths == {16, 20}

(* The SMSC may also write a header whose command_length is 0.           *)
MalformedLengths == {0, 16}
=============================================================================
