--------------------------- MODULE SubmitPipeline ---------------------------
(***************************************************************************)
(* What submit_sm (client.py) puts into the submit_sm PDUs it sends: the  *)
(* choice between one PDU and a SAR or UDH multipart split of 130-byte    *)
(* segments, the segment headers, the message_payload switch of           *)
(* send_long_messages and the USSD options of update_ussd_pdu.            *)
(*                                                                         *)
(* EsmeSession models the control of the same code (the state check, the *)
(* await on each sequence number, the connection lost in between, the     *)
(* unacked ledger); here the session stays bound and one call runs to     *)
(* its end or its exception.  A message is the interval of byte          *)
(* positions 1..len; a segment is a sub-interval, so slicing is what it   *)
(* does and a concatenation can be checked without storing bytes.        *)
(***************************************************************************)
EXTENDS Naturals, Sequences, Bitwise

CONSTANTS
    MsgLengths,    \* len(short_message) of the calls explored
    SessionInfos,  \* session_info arguments: hex digit strings, <<>> = None
    RefNums,       \* values randint(1, 255) may return
    MaxCalls       \* bound: submit_sm calls explored

ASSUME RefNums \subseteq 1..255 /\ MaxCalls \in Nat

GsmMaxSmsBytes == 140                  \* GSM_MAX_SMS_BYTES, line 19
PayloadLength == GsmMaxSmsBytes - 10   \* lines 384, 411
NoneSI == <<>>                         \* session_info=None

Inputs == [len : MsgLengths, type : {"sms", "ussd"}, cont : BOOLEAN, si : SessionInfos]

VARIABLES
    config,   \* send_multipart_sar, send_multipart_udh, send_long_messages
    pc,       \* the submit_sm call: "idle", "running", "returned", "raised"
    input,    \* the arguments of the current call
    mode,     \* "single", "sar" or "udh"
    split,    \* split_msg: the segments still to submit, as intervals
    ref,      \* ref_num
    total,    \* len(split_msg)
    i,        \* segments submitted so far (the enumerate index)
    sent,     \* the submit_sm PDUs of the current call, in order
    calls

vars == <<config, pc, input, mode, split, ref, total, i, sent, calls>>

-----------------------------------------------------------------------------
(* Hex strings as digit sequences, most significant first.               *)
RECURSIVE ParseHex(_)
ParseHex(d) == IF d = <<>> THEN 0 ELSE ParseHex(SubSeq(d, 1, Len(d) - 1)) * 16 + d[Len(d)]

RECURSIVE HexDigits(_)
HexDigits(v) == IF v < 16 THEN <<v>> ELSE HexDigits(v \div 16) \o <<v % 16>>

(* "%04x" % v: the hex digits of v, zero-padded to at least four.        *)
Format04x(v) ==
    LET d == HexDigits(v) IN
    IF Len(d) >= 4 THEN d ELSE [k \in 1..(4 - Len(d)) |-> 0] \o d

(* Mutant of UssdSessionInfo: the end-of-session increment applied when   *)
(* the session continues.                                                 *)
UssdSessionInfoInverted(si, cont) ==
    Format04x(ParseHex(IF si = NoneSI THEN <<0, 0, 0, 0>> ELSE si) + (IF cont THEN 1 ELSE 0))

(* update_ussd_pdu, lines 22-28: its_session_info.                        *)
UssdSessionInfo(si, cont) ==
    Format04x(ParseHex(IF si = NoneSI THEN <<0, 0, 0, 0>> ELSE si) + (IF cont THEN 0 ELSE 1))

Segment(lo, hi, k, len) ==
    <<lo + (k - 1) * len, IF lo + k * len - 1 < hi THEN lo + k * len - 1 ELSE hi>>

(* Mutant of Split: chunks of GSM_MAX_SMS_BYTES, with no room left for   *)
(* the header.                                                            *)
SplitNoReserve(lo, hi) ==
    [k \in 1..((hi - lo + GsmMaxSmsBytes) \div GsmMaxSmsBytes) |-> Segment(lo, hi, k, GsmMaxSmsBytes)]

(* The split loops of lines 385-387 and 412-414: `while message:` take   *)
(* message[:130] and keep message[130:], so the k-th chunk is the k-th    *)
(* run of 130 bytes and the last one holds the rest.                      *)
Split(lo, hi) ==
    [k \in 1..((hi - lo + PayloadLength) \div PayloadLength) |-> Segment(lo, hi, k, PayloadLength)]

(* chr(n): a one-byte string, or ValueError above 255.                   *)
ChrOk(n) == n \in 0..255

Size(seg) == seg[2] - seg[1] + 1

(* Mutant of UdhChrOk: chr is not applied to len(split_msg), so only     *)
(* the segment number can raise.                                          *)
UdhChrOkNoTotal(k) == ChrOk(ref) /\ ChrOk(k + 1)

(* Line 425: chr(ref_num), chr(len(split_msg)), chr(i + 1) for the UDH    *)
(* of the segment with index k, all three evaluated before it is sent.    *)
UdhChrOk(k) == ChrOk(ref) /\ ChrOk(total) /\ ChrOk(k + 1)

(* _submit_sm, lines 348-370, for a segment with the given user data     *)
(* header and SAR parameters: the PDU it sends (the sequence number and   *)
(* push_unacked are EsmeSession's).                                      *)
SubmitPdu(seg, udh, sar) ==
    [body |-> seg, udh |-> udh, esm |-> IF udh = <<>> THEN 0 ELSE 64, sar |-> sar,
     ussd |-> IF input.type = "ussd" THEN <<UssdSessionInfo(input.si, input.cont)>> ELSE <<>>,
     payload |-> config.long /\ Len(udh) + Size(seg) > 254]

-----------------------------------------------------------------------------
Init ==
    /\ config \in [sar : BOOLEAN, udh : BOOLEAN, long : BOOLEAN]
    /\ pc = "idle"
    /\ input = CHOOSE x \in Inputs : TRUE
    /\ mode = "single"
    /\ split = <<>>
    /\ ref = 0
    /\ total = 0
    /\ i = 0
    /\ sent = <<>>
    /\ calls = 0

(* submit_sm, lines 313-345, up to the first yield: the branch on the     *)
(* length and the configuration; in a multipart branch the split and      *)
(* randint of _submit_multipart_sar / _udh (lines 380-388, 407-415).      *)
SubmitSm ==
    /\ pc # "running"
    /\ calls < MaxCalls
    /\ \E in \in Inputs, r \in RefNums :
          LET m == IF in.len > GsmMaxSmsBytes /\ config.sar THEN "sar"
                   ELSE IF in.len > GsmMaxSmsBytes /\ config.udh THEN "udh"
                   ELSE "single"
          IN /\ input' = in
             /\ mode' = m
             /\ split' = IF m = "single" THEN << <<1, in.len>> >> ELSE Split(1, in.len)
             /\ total' = Len(IF m = "single" THEN << <<1, in.len>> >> ELSE Split(1, in.len))
             /\ ref' = IF m = "single" THEN 0 ELSE r
    /\ pc' = "running"
    /\ i' = 0
    /\ sent' = <<>>
    /\ calls' = calls + 1
    /\ UNCHANGED config

(* Mutant of SarParams: segment_seqnum set to i instead of i + 1.        *)
SarParamsFromZero(k) == [ref |-> ref, total |-> total, seqnum |-> k]

(* Lines 392-396: the sar_params of the segment with index k.            *)
SarParams(k) == [ref |-> ref, total |-> total, seqnum |-> k + 1]

(* One iteration of the loop of the branch taken: build the segment's     *)
(* parameters, then `yield self._submit_sm(...)`.  The UDH loop      *)
(* calls chr on ref_num, len(split_msg) and i + 1 first (line 424-425).  *)
SubmitSegment ==
    /\ pc = "running"
    /\ split # <<>>
    /\ IF mode = "udh" /\ ~UdhChrOk(i)
       THEN /\ pc' = "raised"
            /\ UNCHANGED <<split, i, sent>>
       ELSE /\ sent' = Append(sent,
                  CASE mode = "single" -> SubmitPdu(Head(split), <<>>, <<>>)
                    [] mode = "sar"    -> SubmitPdu(Head(split), <<>>, <<SarParams(i)>>)
                    [] mode = "udh"    -> SubmitPdu(Head(split), <<5, 0, 3, ref, total, i + 1>>, <<>>))
            /\ split' = Tail(split)
            /\ i' = i + 1
            /\ pc' = IF Tail(split) = <<>> THEN "returned" ELSE "running"
    /\ UNCHANGED <<config, input, mode, ref, total, calls>>

Next == SubmitSm \/ SubmitSegment

Spec == Init /\ [][Next]_vars

-----------------------------------------------------------------------------
(* The least n with n * d >= m.                                          *)
Ceiling(m, d) == CHOOSE n \in 0..m : n * d >= m /\ (n = 0 \/ (n - 1) * d < m)

Multipart == input.len > GsmMaxSmsBytes /\ (config.sar \/ config.udh)

(* Spec 8 (SAR law) and spec 4.6: a call that returns has sent the whole  *)
(* message once, in order: ceil(len / 130) segments of at most 130 bytes  *)
(* when it was split, else one PDU, whose bodies concatenate to it.       *)
Reassembles ==
    pc = "returned" =>
        /\ Len(sent) = IF Multipart THEN Ceiling(input.len, PayloadLength) ELSE 1
        /\ sent[1].body[1] = 1 /\ sent[Len(sent)].body[2] = input.len
        /\ \A k \in 1..(Len(sent) - 1) : sent[k + 1].body[1] = sent[k].body[2] + 1
        /\ \A k \in 1..Len(sent) : Multipart => Size(sent[k].body) <= PayloadLength

(* The reference number, segment count and segment number a PDU carries, *)
(* from its SAR parameters or from bytes 4-6 of its user data header.     *)
Header(p) ==
    IF p.sar # <<>> THEN <<p.sar[1].ref, p.sar[1].total, p.sar[1].seqnum>>
    ELSE SubSeq(p.udh, 4, 6)

(* Spec 4.6.1, 4.6.2 and scenarios 3 and 4: the segments of a returned    *)
(* multipart call share one reference number in 1..255, each states the   *)
(* number of PDUs actually sent, and the k-th PDU sent says it is         *)
(* segment k; UDH segments start with 05 00 03 and set esm_class 0x40.   *)
SegmentHeaders ==
    (pc = "returned" /\ mode # "single") =>
        \A k \in 1..Len(sent) :
            /\ Header(sent[k]) = <<Header(sent[1])[1], Len(sent), k>>
            /\ Header(sent[k])[1] \in 1..255
            /\ mode = "udh" => SubSeq(sent[k].udh, 1, 3) = <<5, 0, 3>> /\ sent[k].esm = 64

(* The USSD law of spec 8: every PDU of a USSD call carries               *)
(* its_session_info = "%04x" % (int(s, 16) | 1) when the session ends and *)
(* s unchanged when it continues -- four hex digits -- for a session_info *)
(* s (default "0000") whose low bit is unset.                             *)
UssdEndOfSession ==
    \A k \in 1..Len(sent) :
        input.type = "ussd" =>
            LET s == ParseHex(IF input.si = NoneSI THEN <<0, 0, 0, 0>> ELSE input.si)
            IN sent[k].ussd = <<Format04x(IF input.cont THEN s ELSE s | 1)>>
               /\ Len(sent[k].ussd[1]) = 4

(* A submit_sm that raises (the ValueError of chr for a UDH message of    *)
(* more than 255 segments) raises before it writes its first segment: the *)
(* SMSC never gets the start of a concatenated message whose other        *)
(* segments will not follow, and no ledger entry is pushed for it.        *)
NoPartialSubmit == pc = "raised" => sent = <<>>
=============================================================================
