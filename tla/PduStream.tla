------------------------------ MODULE PduStream ------------------------------
(***************************************************************************)
(* What inbound framing promises (spec 4.2 and the framing law of spec     *)
(* 8): the SMSC writes whole PDUs, and the ESME receives exactly those     *)
(* PDUs, one at a time, in the order written, each of them eventually --   *)
(* however the transport splits or merges the bytes.  Here a PDU is an     *)
(* opaque value; how it is split into bytes and framed again is the        *)
(* business of the implementation.                                         *)
(***************************************************************************)
EXTENDS Naturals, Sequences

CONSTANT Pdu   \* the PDUs the SMSC may write

VARIABLES
    written,   \* the PDUs the SMSC wrote, oldest first
    delivered  \* the PDUs handed to the ESME, oldest first

streamVars == <<written, delivered>>

Init == written = <<>> /\ delivered = <<>>

(* The SMSC writes one PDU.                                               *)
Write == \E p \in Pdu : written' = Append(written, p) /\ UNCHANGED delivered

(* The oldest PDU written and not yet handed over is handed over.         *)
Deliver ==
    /\ Len(delivered) < Len(written)
    /\ delivered' = Append(delivered, written[Len(delivered) + 1])
    /\ UNCHANGED written

(* A PDU written is not held back forever.                                *)
Spec == Init /\ [][Write \/ Deliver]_streamVars /\ WF_streamVars(Deliver)
=============================================================================
