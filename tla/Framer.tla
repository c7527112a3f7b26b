------------------------------- MODULE Framer -------------------------------
(***************************************************************************)
(* The inbound byte framing of EsmeTransceiver (client.py): dataReceived  *)
(* appends whatever chunk TCP delivers to self.datastream and then calls  *)
(* pop_data until it returns None, putting every frame on the PDU queue.  *)
(* pop_data cuts a frame only when 16 bytes (a whole header) are buffered *)
(* and command_length bytes are available; command_length is the first   *)
(* four bytes read big-endian.                                            *)
(*                                                                         *)
(* A byte is a number in 0..255.  The SMSC writes whole PDUs to its end   *)
(* of the connection; TCP hands them over in chunks of any size.  The     *)
(* body bytes of the i-th PDU are all i, so a frame shows which PDU it    *)
(* came from.                                                             *)
(***************************************************************************)
EXTENDS Naturals, Sequences

CONSTANTS
    Lengths,    \* command_length values the SMSC may put in a header
    MaxPdus,    \* bound: PDUs the SMSC writes
    MaxChunk,   \* bound: largest chunk one dataReceived call gets
    MaxFrames   \* bound: frames put on the queue (a loop that does not
                \* consume bytes would put frames forever)

ASSUME Lengths \subseteq Nat /\ MaxPdus \in Nat /\ MaxChunk \in Nat \ {0}
ASSUME MaxFrames \in Nat /\ MaxPdus < 256

HeaderLen == 16   \* pop_data waits for len(self.datastream) >= 16

VARIABLES
    datastream, \* self.datastream
    looping,    \* dataReceived is running its pop_data loop
    frames,     \* what was put on self._pdu_queue, in order
    sent,       \* ghost: command_length of each PDU the SMSC wrote
    inflight    \* bytes the SMSC wrote that TCP has not delivered yet

vars == <<datastream, looping, frames, sent, inflight>>

(* The four header bytes of command_length, big-endian.                  *)
Encode(n) == << (n \div 16777216) % 256, (n \div 65536) % 256, (n \div 256) % 256, n % 256 >>

(* The i-th PDU on the wire: its length prefix, then the rest of its      *)
(* bytes.  A header always has 16 bytes, whatever command_length claims.  *)
PduBytes(i, len) ==
    Encode(len) \o [j \in 1..((IF len < HeaderLen THEN HeaderLen ELSE len) - 4) |-> i]

Last(s) == s[Len(s)]
Front(s) == SubSeq(s, 1, Len(s) - 1)

(* int(binascii.b2a_hex(s), 16): the bytes of s as a big-endian number.  *)
RECURSIVE B2aHexInt(_)
B2aHexInt(s) == IF s = <<>> THEN 0 ELSE B2aHexInt(Front(s)) * 256 + Last(s)

(* Python's s[a:b] for 0 <= a.                                           *)
Slice(s, a, b) == SubSeq(s, a + 1, IF b < Len(s) THEN b ELSE Len(s))

(* pop_data, line 124: command_length read from the first four bytes.    *)
CommandLength(ds) == B2aHexInt(Slice(ds, 0, 4))

Init ==
    /\ datastream = <<>>
    /\ looping = FALSE
    /\ frames = <<>>
    /\ sent = <<>>
    /\ inflight = <<>>

(* The SMSC writes one whole PDU to the connection.                      *)
SmscSend ==
    /\ Len(sent) < MaxPdus
    /\ \E len \in Lengths :
          /\ sent' = Append(sent, len)
          /\ inflight' = inflight \o PduBytes(Len(sent) + 1, len)
    /\ UNCHANGED <<datastream, looping, frames>>

(* dataReceived, lines 184-185: `self.datastream += data`, then the first *)
(* pop_data call.  TCP delivers the oldest k bytes not yet delivered.    *)
DataReceived ==
    /\ ~looping
    /\ \E k \in 1..MaxChunk :
          /\ k <= Len(inflight)
          /\ datastream' = datastream \o SubSeq(inflight, 1, k)
          /\ inflight' = SubSeq(inflight, k + 1, Len(inflight))
    /\ looping' = TRUE
    /\ UNCHANGED <<frames, sent>>

(* Mutant of Complete: the length check of line 125 dropped, so a frame *)
(* is cut from whatever is buffered.                                      *)
CompleteNoLengthCheck(ds) == Len(ds) >= HeaderLen

(* pop_data, lines 123-125: a frame is returned (not None) when a whole   *)
(* header and command_length bytes are buffered.                          *)
Complete(ds) == Len(ds) >= HeaderLen /\ Len(ds) >= CommandLength(ds)

(* pop_data, lines 126-127: the frame, and the buffer without it.         *)
Frame(ds) == Slice(ds, 0, CommandLength(ds))
Rest(ds) == Slice(ds, CommandLength(ds), Len(ds))

(* Mutant of PopData: `if` in place of `while` -- dataReceived puts at    *)
(* most one frame and returns.                                            *)
PopDataOnce ==
    /\ looping
    /\ Len(frames) < MaxFrames
    /\ frames' = IF Complete(datastream) THEN Append(frames, Frame(datastream)) ELSE frames
    /\ datastream' = IF Complete(datastream) THEN Rest(datastream) ELSE datastream
    /\ looping' = FALSE
    /\ UNCHANGED <<sent, inflight>>

(* dataReceived, lines 186-188: while pop_data returned a frame, put it   *)
(* on the queue and call pop_data again.                                  *)
PopData ==
    /\ looping
    /\ Len(frames) < MaxFrames
    /\ IF Complete(datastream)
       THEN /\ frames' = Append(frames, Frame(datastream))
            /\ datastream' = Rest(datastream)
            /\ UNCHANGED looping
       ELSE /\ looping' = FALSE
            /\ UNCHANGED <<frames, datastream>>
    /\ UNCHANGED <<sent, inflight>>

Next == SmscSend \/ DataReceived \/ PopData

(* TCP delivers what was written, and the loop in dataReceived runs on    *)
(* the reactor thread until it returns.  The SMSC need not write.        *)
Fairness == WF_vars(DataReceived) /\ WF_vars(PopData)

Spec == Init /\ [][Next]_vars /\ Fairness

-----------------------------------------------------------------------------
(* Spec 4.2 and the framing law of spec 8: however TCP splits the bytes,  *)
(* the i-th frame dataReceived puts on the queue is exactly the i-th PDU  *)
(* the SMSC wrote -- no PDU is cut short, merged, skipped or repeated.    *)
FramesArePdus ==
    \A i \in 1..Len(frames) : i <= Len(sent) /\ frames[i] = PduBytes(i, sent[i])

(* The dataReceived loop implements the in-order PDU stream of spec 4.2  *)
(* and 8 (module PduStream): mapped onto the PDUs the SMSC wrote and the  *)
(* frames on the queue, every step of the loop either hands over the next *)
(* PDU whole or hands over nothing, and a PDU written is eventually handed *)
(* over even when it arrived in one chunk together with others.           *)
WirePdus == {PduBytes(i, len) : i \in 1..MaxPdus, len \in Lengths}
Written == [i \in 1..Len(sent) |-> PduBytes(i, sent[i])]
Stream == INSTANCE PduStream WITH Pdu <- WirePdus, written <- Written, delivered <- frames
ImplementsPduStream == Stream!Spec
=============================================================================
