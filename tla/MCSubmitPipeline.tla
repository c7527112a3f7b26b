-------------------------- MODULE MCSubmitPipeline --------------------------
(* SubmitPipeline instantiated for TLC.                                    *)
EXTENDS SubmitPipeline

(* Lengths on both sides of every boundary of the code: the 140-byte      *)
(* multipart threshold, one and two full 130-byte segments, the 254-byte  *)
(* message_payload threshold, and 256 segments (33 151 bytes), one more   *)
(* than a UDH header byte can count.                                      *)
MCMsgLengths == {0, 140, 141, 260, 261, 33151}

(* session_info: None, "0000", "0102" and "fffe" -- hex strings whose    *)
(* low bit is unset, as the USSD law of spec 8 requires.                  *)
MCSessionInfos == {<<>>, <<0, 0, 0, 0>>, <<0, 1, 0, 2>>, <<15, 15, 15, 14>>}
=============================================================================
