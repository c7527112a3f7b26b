----------------------------- MODULE EsmeSession -----------------------------
(***************************************************************************)
(* One EsmeTransceiver / EsmeTransmitter / EsmeReceiver protocol instance  *)
(* (client.py) on one connection to an SMSC: the bind lifecycle, the bind *)
(* timeout, the enquire_link LoopingCall, the in-order PDU queue and its   *)
(* handlers, submit_sm (single and multipart) and the Redis "unacked"     *)
(* ledger.                                                                *)
(*                                                                         *)
(* Twisted runs everything on one thread.  A coroutine (inlineCallbacks)  *)
(* suspends at each `yield` on a Redis reply or a callback; one action    *)
(* below is one reactor event together with the code that runs up to the *)
(* next suspension.  Redis executes commands in the order they are issued *)
(* on the client's single connection, so a command takes effect in the    *)
(* step that issues it.  When the queue consumer is idle and a PDU is put *)
(* on the DeferredQueue, the consumer runs at once; Dispatch therefore    *)
(* has priority over every other event (see Ready).                       *)
(*                                                                         *)
(* Sequence numbers are abstracted away here (SeqAllocator models them);  *)
(* so is byte framing (one DataReceived delivers one whole PDU).  The     *)
(* link check is the LoopingCall self.lc_enquire refers to; the ticks of  *)
(* one it no longer refers to are left out (they only write a PDU).       *)
(***************************************************************************)
EXTENDS Naturals, Sequences

CONSTANTS
    Role,         \* "TRX", "TX" or "RX": which protocol class is built
    Conformant,   \* does the SMSC answer only what was sent, and only once?
    MaxPdus,      \* bound: PDUs the SMSC sends on this connection
    MaxSubmits,   \* bound: submit_sm calls made by the transport above
    MaxSegments,  \* bound: segments of one (multipart) submit_sm
    HandlersMayFail, \* may an await inside a handler fail (a Redis error,
                     \* a callback or a processor that raises)?
    SeqMayFail      \* may the INCR of get_next_seq fail (a Redis error) in
                    \* connectionMade or in a link-check tick?

ASSUME Role \in {"TRX", "TX", "RX"} /\ Conformant \in BOOLEAN
ASSUME MaxPdus \in Nat /\ MaxSubmits \in Nat /\ MaxSegments \in Nat \ {0}
ASSUME HandlersMayFail \in BOOLEAN /\ SeqMayFail \in BOOLEAN

States == {"CLOSED", "OPEN", "BOUND_TX", "BOUND_RX", "BOUND_TRX"}
Bound == {"BOUND_TX", "BOUND_RX", "BOUND_TRX"}

(* BIND_PDU / CONNECTED_STATE of each class, and the bound state each     *)
(* handle_bind_*_resp method sets.                                        *)
BindRespOf == [TRX |-> "bind_transceiver_resp", TX |-> "bind_transmitter_resp",
               RX |-> "bind_receiver_resp"]
ConnectedState == [TRX |-> "BOUND_TRX", TX |-> "BOUND_TX", RX |-> "BOUND_RX"][Role]
BoundBy == [bind_transceiver_resp |-> "BOUND_TRX", bind_transmitter_resp |-> "BOUND_TX",
            bind_receiver_resp |-> "BOUND_RX"]
(* EsmeTransmitter and EsmeReceiver inherit handle_bind_transceiver_resp. *)
BindHandlers == {"bind_transceiver_resp", BindRespOf[Role]}

Commands == {"bind_transceiver_resp", "bind_transmitter_resp", "bind_receiver_resp",
             "unbind", "enquire_link", "enquire_link_resp", "submit_sm_resp",
             "deliver_sm", "generic_nack"}
Pdus == [cmd : Commands, ok : BOOLEAN]

VARIABLES
    state,        \* self.state
    conn,         \* transport: "idle" (not yet connected), "up", "closing"
                  \* (loseConnection called), "lost" (connectionLost ran)
    cm,           \* connectionMade coroutine: "none", "seq" (awaiting
                  \* get_next_seq), "done", "failed" (its await raised)
    loseConn,     \* self._lose_conn: "none", "armed", or "fired" (a
                  \* DelayedCall that already ran but is still referenced)
    loops,        \* enquire_link LoopingCalls running
    lcTracked,    \* self.lc_enquire refers to a running LoopingCall
    enq,          \* its tick: "none", "wait" (for the interval) or "seq"
                  \* (enquire_link awaiting get_next_seq)
    inq,          \* self._pdu_queue
    consumer,     \* _process_pdu_queue: "idle", "submit_resp" or "deliver"
                  \* (suspended in a handler), "dead" (its loop raised)
    sub,          \* the submit_sm coroutine: [pc: "idle" | "seq", left: segments]
    query,        \* the query_sm coroutine: "idle" or "seq"
    unacked,      \* LLEN of the Redis list "unacked"
    smscPending,  \* submit_sm PDUs the SMSC received and has not answered
    bindSent,     \* the bind PDU reached the SMSC
    bindAnswered, \* the SMSC has sent its bind response
    connectCalls, \* esme_callbacks.connect invocations
    disconnectCalls, \* esme_callbacks.disconnect invocations
    lostSubmits,  \* submit_sm PDUs written after the transport went away
    unbound,      \* ghost: handle_unbind has run
    tickFailed,   \* ghost: a link-check tick has failed
    pdus,         \* PDUs the SMSC has sent
    submits       \* submit_sm and query_sm calls made

vars == <<state, conn, cm, loseConn, loops, lcTracked, enq, inq, consumer, sub, query,
          unacked, smscPending, bindSent, bindAnswered, connectCalls, disconnectCalls,
          lostSubmits, unbound, tickFailed, pdus, submits>>

Init ==
    /\ state = "CLOSED"
    /\ conn = "idle"
    /\ cm = "none"
    /\ loseConn = "none"
    /\ loops = 0
    /\ lcTracked = FALSE
    /\ enq = "none"
    /\ inq = <<>>
    /\ consumer = "idle"
    /\ sub = [pc |-> "idle", left |-> 0]
    /\ query = "idle"
    /\ unacked = 0
    /\ smscPending = 0
    /\ bindSent = FALSE
    /\ bindAnswered = FALSE
    /\ connectCalls = 0
    /\ disconnectCalls = 0
    /\ lostSubmits = 0
    /\ unbound = FALSE
    /\ tickFailed = FALSE
    /\ pdus = 0
    /\ submits = 0

(* The consumer is waiting on the DeferredQueue and a PDU is on it.      *)
Ready == consumer = "idle" /\ inq # <<>>

(* Mutant of ConsumerRunsFirst: the consumer is scheduled as a later      *)
(* reactor event instead of running inside the put.                       *)
ConsumerRunsLater == FALSE

(* DeferredQueue.put fires the consumer's waiting Deferred, so a ready    *)
(* consumer runs before the reactor delivers any other event.             *)
ConsumerRunsFirst == Ready

(* transport.write: a disconnecting transport still flushes what is       *)
(* written; once the connection is lost writes are dropped.              *)
Delivered == conn \in {"up", "closing"}

(* transport.loseConnection: a no-op once closing or closed.              *)
LoseConnection == IF conn = "up" THEN "closing" ELSE conn

(* cancel_drop_connection_call, lines 213-216: cancel and forget an armed *)
(* bind timeout.  A DelayedCall that already ran cannot be cancelled: the *)
(* .cancel() raises AlreadyCalled (see StartEnquireLink, ConnectionLost). *)
CancelDropConnectionCall == loseConn' = IF loseConn = "armed" THEN "none" ELSE loseConn

(* Mutant of EnquireLink: BOUND_TRX left out of the list of bound states. *)
EnquireLinkMissingTrx(st) == IF st \in {"BOUND_TX", "BOUND_RX"} THEN "seq" ELSE "wait"

(* enquire_link, line 433-434: the tick of the link check in state st.   *)
(* In a bound state it issues the INCR of get_next_seq and suspends;     *)
(* otherwise it returns 0 and the LoopingCall waits for the next interval.*)
EnquireLink(st) == IF st \in Bound THEN "seq" ELSE "wait"

(* pop_unacked, lines 309-311: LPOP "unacked", a no-op on an empty list.  *)
LPop(n) == IF n > 0 THEN n - 1 ELSE 0

-----------------------------------------------------------------------------
(* connectionMade, lines 152-155: state OPEN, then `yield get_next_seq()`. *)
ConnectionMade ==
    /\ ~ConsumerRunsFirst
    /\ conn = "idle"
    /\ conn' = "up"
    /\ state' = "OPEN"
    /\ cm' = "seq"
    /\ UNCHANGED <<loseConn, loops, lcTracked, inq, consumer, sub, unacked, smscPending,
                   bindSent, bindAnswered, connectCalls, disconnectCalls, lostSubmits,
                   pdus, submits, enq, query, unbound, tickFailed>>

(* connectionMade, lines 156-159, once the sequence number arrives: send  *)
(* the bind PDU, then schedule_lose_connection (161-164) arms the bind    *)
(* timeout -- whatever happened to the transport during the wait.         *)
ConnectionMadeSeq ==
    /\ ~ConsumerRunsFirst
    /\ cm = "seq"
    /\ cm' = "done"
    /\ bindSent' = Delivered
    /\ loseConn' = "armed"
    /\ UNCHANGED <<state, conn, loops, lcTracked, inq, consumer, sub, unacked, smscPending,
                   bindAnswered, connectCalls, disconnectCalls, lostSubmits, pdus, submits, enq, query, unbound, tickFailed>>

(* connectionMade, line 155: the INCR of get_next_seq fails.  The        *)
(* coroutine's Deferred fails, which Twisted ignores: no bind PDU is sent *)
(* and schedule_lose_connection is never reached, so no bind timeout is    *)
(* armed; the state stays OPEN.                                           *)
ConnectionMadeFails ==
    /\ ~ConsumerRunsFirst
    /\ SeqMayFail
    /\ cm = "seq"
    /\ cm' = "failed"
    /\ UNCHANGED <<state, conn, loseConn, loops, lcTracked, inq, consumer, sub, unacked,
                   smscPending, bindSent, bindAnswered, connectCalls, disconnectCalls,
                   lostSubmits, pdus, submits, enq, query, unbound, tickFailed>>

(* Mutant of LoseUnboundConnection: the reference is cleared but the     *)
(* transport is never closed.                                             *)
LoseUnboundConnectionNoClose ==
    /\ ~ConsumerRunsFirst
    /\ loseConn = "armed"
    /\ loseConn' = IF state # ConnectedState THEN "none" ELSE "fired"
    /\ UNCHANGED <<state, conn, cm, loops, lcTracked, inq, consumer, sub, unacked, smscPending,
                   bindSent, bindAnswered, connectCalls, disconnectCalls, lostSubmits,
                   pdus, submits, enq, query, unbound, tickFailed>>

(* lose_unbound_connection, lines 166-174: the bind timeout fires.  If   *)
(* the session is not in CONNECTED_STATE the reference is cleared and the *)
(* transport closed; otherwise the fired DelayedCall stays referenced.    *)
LoseUnboundConnection ==
    /\ ~ConsumerRunsFirst
    /\ loseConn = "armed"
    /\ IF state # ConnectedState
         THEN loseConn' = "none" /\ conn' = LoseConnection
         ELSE loseConn' = "fired" /\ conn' = conn
    /\ UNCHANGED <<state, cm, loops, lcTracked, inq, consumer, sub, unacked, smscPending,
                   bindSent, bindAnswered, connectCalls, disconnectCalls, lostSubmits,
                   pdus, submits, enq, query, unbound, tickFailed>>

(* LoopingCall.stop: a tick waiting for its interval is cancelled; one   *)
(* in flight runs to its end and is not rescheduled.                      *)
StoppedTick == IF lcTracked /\ enq = "wait" THEN "none" ELSE enq

(* Mutant of StopEnquireLink: the `.running` test is dropped.            *)
StopEnquireLinkUnchecked ==
    /\ loops' = loops - 1
    /\ lcTracked' = FALSE
    /\ enq' = StoppedTick

(* stop_enquire_link, lines 206-211: stops only the LoopingCall that      *)
(* self.lc_enquire refers to, without waiting for a tick in flight (the   *)
(* `yield lc_enquire.deferred` is not awaited by connectionLost).         *)
StopEnquireLink ==
    /\ loops' = IF lcTracked THEN loops - 1 ELSE loops
    /\ lcTracked' = FALSE
    /\ enq' = StoppedTick

(* connectionLost, lines 176-181.  cancel_drop_connection_call (213-216)  *)
(* calls .cancel() on the referenced DelayedCall; on one that already ran *)
(* Twisted raises AlreadyCalled, and the disconnect callback after it is  *)
(* never reached.  A drop by the network is possible whenever the         *)
(* transport is up; after loseConnection it is certain.                   *)
ConnectionLost ==
    /\ ~ConsumerRunsFirst
    /\ conn \in {"up", "closing"}
    /\ conn' = "lost"
    /\ state' = "CLOSED"
    /\ StopEnquireLink
    /\ CancelDropConnectionCall
    /\ disconnectCalls' = IF loseConn = "fired" THEN disconnectCalls ELSE disconnectCalls + 1
    /\ UNCHANGED <<cm, inq, consumer, sub, unacked, smscPending, bindSent, bindAnswered,
                   connectCalls, lostSubmits, pdus, submits, query, unbound, tickFailed>>

-----------------------------------------------------------------------------
(* The SMSC.  A conformant SMSC answers the bind once, answers only the   *)
(* submit_sm PDUs it received, and sends requests (deliver_sm,            *)
(* enquire_link, unbind) with status ESME_ROK once the bind is answered.  *)
(* A non-conformant one may send any PDU with any status.                 *)
SmscMaySend(p) ==
    \/ ~Conformant
    \/ /\ p.cmd = BindRespOf[Role]
       /\ bindSent /\ ~bindAnswered
    \/ /\ p.cmd = "submit_sm_resp"
       /\ smscPending > 0
    \/ /\ p.cmd \in {"deliver_sm", "enquire_link", "unbind"}
       /\ p.ok /\ bindAnswered

(* dataReceived, lines 183-188: a whole PDU is framed and put on the      *)
(* queue.  Once loseConnection has been called the transport stops        *)
(* reading.                                                               *)
DataReceived ==
    /\ ~ConsumerRunsFirst
    /\ conn = "up"
    /\ pdus < MaxPdus
    /\ \E p \in Pdus :
         /\ SmscMaySend(p)
         /\ inq' = Append(inq, p)
         /\ bindAnswered' = (bindAnswered \/ p.cmd \in DOMAIN BoundBy)
         /\ smscPending' = IF p.cmd = "submit_sm_resp" /\ smscPending > 0
                             THEN smscPending - 1 ELSE smscPending
    /\ pdus' = pdus + 1
    /\ UNCHANGED <<state, conn, cm, loseConn, loops, lcTracked, consumer, sub, unacked,
                   bindSent, connectCalls, disconnectCalls, lostSubmits, submits, enq, query, unbound, tickFailed>>

-----------------------------------------------------------------------------
(* The handlers, run by Dispatch on the PDU at the head of the queue.     *)
(* Each leaves inq to Dispatch.                                           *)

(* start_enquire_link, lines 199-203: a new LoopingCall replaces the one  *)
(* self.lc_enquire referred to (which keeps running if it was); start()   *)
(* calls enquire_link at once, in the bound state just set.  Then         *)
(* cancel_drop_connection_call, then the connect callback.  Cancelling a  *)
(* DelayedCall that already ran raises AlreadyCalled: the handler fails,  *)
(* and with it the `yield self.handle_data(data)` of _process_pdu_queue.  *)
StartEnquireLink ==
    /\ loops' = loops + 1
    /\ lcTracked' = TRUE
    /\ enq' = EnquireLink(state')
    /\ CancelDropConnectionCall
    /\ IF loseConn = "fired"
         THEN consumer' = "dead" /\ connectCalls' = connectCalls
         ELSE consumer' = consumer /\ connectCalls' = connectCalls + 1

(* handle_bind_transceiver_resp (224-229), handle_bind_transmitter_resp   *)
(* (459-463), handle_bind_receiver_resp (471-475).  A bind response the  *)
(* class has no handler for goes to _command_handler_not_found.          *)
HandleBindResp(p) ==
    /\ p.cmd \in DOMAIN BoundBy
    /\ IF p.cmd \in BindHandlers /\ p.ok
         THEN state' = BoundBy[p.cmd] /\ StartEnquireLink
         ELSE UNCHANGED <<state, loops, lcTracked, loseConn, consumer, connectCalls, enq>>
    /\ UNCHANGED <<conn, cm, sub, unacked, smscPending, bindSent, bindAnswered,
                   disconnectCalls, lostSubmits, pdus, submits, query, unbound, tickFailed>>

(* handle_unbind, lines 219-222: answer with unbind_resp, then close.     *)
(* The state is left as it is until connectionLost.                       *)
HandleUnbind(p) ==
    /\ p.cmd = "unbind"
    /\ conn' = LoseConnection
    /\ unbound' = TRUE
    /\ UNCHANGED <<state, cm, loseConn, loops, lcTracked, consumer, sub, unacked,
                   smscPending, bindSent, bindAnswered, connectCalls, disconnectCalls,
                   lostSubmits, pdus, submits, enq, query, tickFailed>>

(* handle_enquire_link (285-292) answers an OK enquire_link with an       *)
(* enquire_link_resp; handle_enquire_link_resp (294-298) only logs;      *)
(* _command_handler_not_found (148-149) logs anything else.  None of     *)
(* them changes the session.                                              *)
HandleLogOnly(p) ==
    /\ p.cmd \in {"enquire_link", "enquire_link_resp", "generic_nack"}
    /\ UNCHANGED <<state, conn, cm, loseConn, loops, lcTracked, consumer, sub, unacked,
                   smscPending, bindSent, bindAnswered, connectCalls, disconnectCalls,
                   lostSubmits, pdus, submits, enq, query, unbound, tickFailed>>

(* handle_submit_sm_resp, line 233: pop_unacked issues its LPOP, and the *)
(* handler waits for the reply, LLEN and the submit_sm_resp callback.    *)
HandleSubmitSmResp(p) ==
    /\ p.cmd = "submit_sm_resp"
    /\ unacked' = LPop(unacked)
    /\ consumer' = "submit_resp"
    /\ UNCHANGED <<state, conn, cm, loseConn, loops, lcTracked, sub, smscPending,
                   bindSent, bindAnswered, connectCalls, disconnectCalls, lostSubmits,
                   pdus, submits, enq, query, unbound, tickFailed>>

(* handle_deliver_sm, lines 243-259: dropped unless the state is         *)
(* BOUND_RX or BOUND_TRX and the status ESME_ROK; otherwise the          *)
(* deliver_sm_resp is sent at once and the handler waits on the delivery *)
(* report processor.                                                      *)
HandleDeliverSm(p) ==
    /\ p.cmd = "deliver_sm"
    /\ consumer' = IF state \in {"BOUND_RX", "BOUND_TRX"} /\ p.ok
                     THEN "deliver" ELSE consumer
    /\ UNCHANGED <<state, conn, cm, loseConn, loops, lcTracked, sub, unacked,
                   smscPending, bindSent, bindAnswered, connectCalls, disconnectCalls,
                   lostSubmits, pdus, submits, enq, query, unbound, tickFailed>>

(* _process_pdu_queue (142-146) takes the next PDU and handle_data        *)
(* (131-139) routes it to handle_<command_id>.                            *)
Dispatch ==
    /\ Ready
    /\ inq' = Tail(inq)
    /\ LET p == Head(inq) IN
         \/ HandleBindResp(p)
         \/ HandleUnbind(p)
         \/ HandleLogOnly(p)
         \/ HandleSubmitSmResp(p)
         \/ HandleDeliverSm(p)

(* handle_submit_sm_resp, lines 234-240: the LPOP and LLEN replies are   *)
(* in, the submit_sm_resp callback returns, and the consumer takes the   *)
(* next PDU.                                                              *)
SubmitSmRespDone ==
    /\ consumer = "submit_resp"
    /\ consumer' = "idle"
    /\ UNCHANGED <<state, conn, cm, loseConn, loops, lcTracked, inq, sub, unacked,
                   smscPending, bindSent, bindAnswered, connectCalls, disconnectCalls,
                   lostSubmits, pdus, submits, enq, query, unbound, tickFailed>>

(* handle_deliver_sm, lines 259-283: the PDU is offered in turn to the   *)
(* delivery report, multipart, USSD, content-report and short message    *)
(* processors, the first that takes it ending the handler; those are     *)
(* external and keep no session state.                                    *)
DeliverSmDone ==
    /\ consumer = "deliver"
    /\ consumer' = "idle"
    /\ UNCHANGED <<state, conn, cm, loseConn, loops, lcTracked, inq, sub, unacked,
                   smscPending, bindSent, bindAnswered, connectCalls, disconnectCalls,
                   lostSubmits, pdus, submits, enq, query, unbound, tickFailed>>

-----------------------------------------------------------------------------
(* The number of segments a message goes out as: one for a message of at *)
(* most 140 bytes (or with neither multipart option), otherwise one per   *)
(* 130-byte chunk cut by _submit_multipart_sar / _udh (lines 382-385).   *)
Segments == 1..MaxSegments

(* submit_sm, lines 314-345: refused unless BOUND_TX or BOUND_TRX (then  *)
(* it returns 0); otherwise a message of more than 140 bytes is split    *)
(* into 130-byte segments (_submit_multipart_sar / _udh, 373-429) when   *)
(* either option is set, and each segment goes through _submit_sm.  The  *)
(* message is abstracted to its number of segments; the state is checked *)
(* only here, before the first `yield get_next_seq()`.                   *)
SubmitSm ==
    /\ ~ConsumerRunsFirst
    /\ sub.pc = "idle"
    /\ submits < MaxSubmits
    /\ submits' = submits + 1
    /\ IF state \in {"BOUND_TX", "BOUND_TRX"}
         THEN \E n \in Segments : sub' = [pc |-> "seq", left |-> n]
         ELSE sub' = sub
    /\ UNCHANGED <<state, conn, cm, loseConn, loops, lcTracked, inq, consumer, unacked,
                   smscPending, bindSent, bindAnswered, connectCalls, disconnectCalls,
                   lostSubmits, pdus, enq, query, unbound, tickFailed>>

(* Mutant of SubmitSmSeq: the LPUSH on "unacked" is left out.            *)
SubmitSmSeqNoPush ==
    /\ ~ConsumerRunsFirst
    /\ sub.pc = "seq"
    /\ smscPending' = IF Delivered THEN smscPending + 1 ELSE smscPending
    /\ lostSubmits' = IF Delivered THEN lostSubmits ELSE lostSubmits + 1
    /\ unacked' = unacked
    /\ sub' = IF sub.left > 1 THEN [sub EXCEPT !.left = @ - 1]
                              ELSE [pc |-> "idle", left |-> 0]
    /\ UNCHANGED <<state, conn, cm, loseConn, loops, lcTracked, inq, consumer, bindSent,
                   bindAnswered, connectCalls, disconnectCalls, pdus, submits, enq, query,
                   unbound, tickFailed>>

(* _submit_sm, lines 349-370, once its sequence number arrives: build    *)
(* and send the submit_sm, then push_unacked (304-306) issues LPUSH      *)
(* "unacked" in the same reactor turn.  The multipart loops (388-397 and *)
(* 415-428) then start the next segment, without looking at the state.  *)
SubmitSmSeq ==
    /\ ~ConsumerRunsFirst
    /\ sub.pc = "seq"
    /\ smscPending' = IF Delivered THEN smscPending + 1 ELSE smscPending
    /\ lostSubmits' = IF Delivered THEN lostSubmits ELSE lostSubmits + 1
    /\ unacked' = unacked + 1
    /\ sub' = IF sub.left > 1 THEN [sub EXCEPT !.left = @ - 1]
                              ELSE [pc |-> "idle", left |-> 0]
    /\ UNCHANGED <<state, conn, cm, loseConn, loops, lcTracked, inq, consumer, bindSent,
                   bindAnswered, connectCalls, disconnectCalls, pdus, submits, enq, query,
                   unbound, tickFailed>>

-----------------------------------------------------------------------------

(* The LoopingCall's interval elapses and it calls enquire_link.         *)
EnquireLinkTick ==
    /\ ~ConsumerRunsFirst
    /\ lcTracked /\ enq = "wait"
    /\ enq' = EnquireLink(state)
    /\ UNCHANGED <<state, conn, cm, loseConn, loops, lcTracked, inq, consumer, sub, query,
                   unacked, smscPending, bindSent, bindAnswered, connectCalls,
                   disconnectCalls, lostSubmits, unbound, tickFailed, pdus, submits>>

(* Mutant of EnquireLinkSeq: the next tick is scheduled even when the    *)
(* LoopingCall was stopped while this one was in flight.                  *)
EnquireLinkSeqReschedules ==
    /\ ~ConsumerRunsFirst
    /\ enq = "seq"
    /\ enq' = "wait"
    /\ UNCHANGED <<state, conn, cm, loseConn, loops, lcTracked, inq, consumer, sub, query,
                   unacked, smscPending, bindSent, bindAnswered, connectCalls,
                   disconnectCalls, lostSubmits, unbound, tickFailed, pdus, submits>>

(* enquire_link, lines 435-438, once the sequence number arrives: the     *)
(* enquire_link is written whatever the state is now, and the LoopingCall *)
(* schedules the next tick unless it was stopped meanwhile.  The SMSC's   *)
(* enquire_link_resp is only logged (294-298) and is not modelled.        *)
EnquireLinkSeq ==
    /\ ~ConsumerRunsFirst
    /\ enq = "seq"
    /\ enq' = IF lcTracked THEN "wait" ELSE "none"
    /\ UNCHANGED <<state, conn, cm, loseConn, loops, lcTracked, inq, consumer, sub, query,
                   unacked, smscPending, bindSent, bindAnswered, connectCalls,
                   disconnectCalls, lostSubmits, unbound, tickFailed, pdus, submits>>

(* query_sm, lines 442-444: in BOUND_TX or BOUND_TRX issue the INCR of    *)
(* get_next_seq and suspend; otherwise return 0.                          *)
QuerySm ==
    /\ ~ConsumerRunsFirst
    /\ query = "idle"
    /\ submits < MaxSubmits
    /\ submits' = submits + 1
    /\ query' = IF state \in {"BOUND_TX", "BOUND_TRX"} THEN "seq" ELSE "idle"
    /\ UNCHANGED <<state, conn, cm, loseConn, loops, lcTracked, enq, inq, consumer, sub,
                   unacked, smscPending, bindSent, bindAnswered, connectCalls,
                   disconnectCalls, lostSubmits, unbound, tickFailed, pdus>>

(* query_sm, lines 445-450: write the query_sm and return.  Its answer   *)
(* goes to _command_handler_not_found (DataReceived's generic PDUs).     *)
QuerySmSeq ==
    /\ ~ConsumerRunsFirst
    /\ query = "seq"
    /\ query' = "idle"
    /\ UNCHANGED <<state, conn, cm, loseConn, loops, lcTracked, enq, inq, consumer, sub,
                   unacked, smscPending, bindSent, bindAnswered, connectCalls,
                   disconnectCalls, lostSubmits, unbound, tickFailed, pdus, submits>>

(* The INCR of the tick's get_next_seq (line 434) fails.  enquire_link's  *)
(* Deferred fails, and the LoopingCall sets running to False and fails    *)
(* its own Deferred, which nothing waits on: no next tick is scheduled,   *)
(* and self.lc_enquire refers to a LoopingCall that no longer runs, so    *)
(* stop_enquire_link (208) leaves it alone.  A tick of a LoopingCall      *)
(* already stopped fails into a Deferred already taken: nothing changes   *)
(* but the tick.                                                          *)
EnquireLinkFails ==
    /\ ~ConsumerRunsFirst
    /\ SeqMayFail
    /\ enq = "seq"
    /\ enq' = "none"
    /\ loops' = IF lcTracked THEN loops - 1 ELSE loops
    /\ lcTracked' = FALSE
    /\ tickFailed' = TRUE
    /\ UNCHANGED <<state, conn, cm, loseConn, inq, consumer, sub, query, unacked,
                   smscPending, bindSent, bindAnswered, connectCalls, disconnectCalls,
                   lostSubmits, unbound, pdus, submits>>

(* A handler's await fails: the LPOP, LLEN or submit_sm_resp callback of *)
(* handle_submit_sm_resp, or a processor of handle_deliver_sm (after the  *)
(* deliver_sm_resp went out).  Neither handle_data (131-139) nor          *)
(* _process_pdu_queue (142-146) catches it: the loop's Deferred fails and *)
(* nothing takes PDUs off the queue again, so one failure is the last.   *)
HandlerFails ==
    /\ consumer \in {"submit_resp", "deliver"}
    /\ HandlersMayFail
    /\ consumer' = "dead"
    /\ UNCHANGED <<state, conn, cm, loseConn, loops, lcTracked, inq, sub, unacked,
                   smscPending, bindSent, bindAnswered, connectCalls, disconnectCalls,
                   lostSubmits, pdus, submits, enq, query, unbound, tickFailed>>

-----------------------------------------------------------------------------
Next ==
    \/ ConnectionMade
    \/ ConnectionMadeSeq
    \/ ConnectionMadeFails
    \/ LoseUnboundConnection
    \/ ConnectionLost
    \/ DataReceived
    \/ Dispatch
    \/ SubmitSmRespDone
    \/ DeliverSmDone
    \/ HandlerFails
    \/ SubmitSm
    \/ SubmitSmSeq
    \/ EnquireLinkTick
    \/ EnquireLinkSeq
    \/ EnquireLinkFails
    \/ QuerySm
    \/ QuerySmSeq

(* Redis replies, timers and a connection the code itself closes all     *)
(* come eventually; the SMSC, the network and the callers above need not *)
(* do anything.                                                           *)
Fairness ==
    /\ WF_vars(ConnectionMadeSeq)
    /\ WF_vars(LoseUnboundConnection)
    /\ WF_vars(ConnectionLost /\ conn = "closing")
    /\ WF_vars(Dispatch)
    /\ WF_vars(SubmitSmRespDone)
    /\ WF_vars(DeliverSmDone)
    /\ WF_vars(SubmitSmSeq)
    /\ WF_vars(EnquireLinkTick)
    /\ WF_vars(EnquireLinkSeq)
    /\ WF_vars(QuerySmSeq)

Spec == Init /\ [][Next]_vars

FairSpec == Spec /\ Fairness

-----------------------------------------------------------------------------
TypeOK ==
    /\ state \in States
    /\ conn \in {"idle", "up", "closing", "lost"}
    /\ cm \in {"none", "seq", "done", "failed"}
    /\ loseConn \in {"none", "armed", "fired"}
    /\ loops \in Nat /\ lcTracked \in BOOLEAN /\ enq \in {"none", "wait", "seq"}
    /\ query \in {"idle", "seq"} /\ unbound \in BOOLEAN /\ tickFailed \in BOOLEAN
    /\ inq \in Seq(Pdus)
    /\ consumer \in {"idle", "submit_resp", "deliver", "dead"}
    /\ sub \in [pc : {"idle", "seq"}, left : 0..MaxSegments]
    /\ unacked \in Nat /\ smscPending \in Nat /\ lostSubmits \in Nat
    /\ bindSent \in BOOLEAN /\ bindAnswered \in BOOLEAN
    /\ connectCalls \in Nat /\ disconnectCalls \in Nat
    /\ pdus \in 0..MaxPdus /\ submits \in 0..MaxSubmits

IsSubmitResp(p) == p.cmd = "submit_sm_resp"

(* The "unacked" ledger never undercounts: every submit_sm the SMSC holds *)
(* unanswered, and every submit_sm_resp still queued, has its entry --   *)
(* the LPUSH of _submit_sm is never overtaken by the LPOP of             *)
(* handle_submit_sm_resp, for any segment of a multipart submit.          *)
LedgerCoversInFlight ==
    unacked >= smscPending + Len(SelectSeq(inq, IsSubmitResp))

(* The connect callback runs at most once per connection, and never after *)
(* the disconnect callback (start_enquire_link against connectionLost).  *)
ConnectOnceBeforeDisconnect ==
    [][connectCalls' > connectCalls => connectCalls = 0 /\ disconnectCalls = 0]_connectCalls

(* Spec section 5: stop the link-check loop on transport loss.  Once     *)
(* connectionLost has run, no enquire_link LoopingCall is left running   *)
(* and no tick waits for its interval: a tick that was awaiting its       *)
(* sequence number when stop_enquire_link ran (connectionLost does not    *)
(* wait for it) ends without scheduling another.                          *)
LoopStoppedAfterLoss == conn = "lost" => loops = 0 /\ enq # "wait"

(* Spec section 4.1: a session that does not reach its bound state drops *)
(* the connection -- OPEN does not last forever -- once connectionMade    *)
(* has sent the bind and armed the bind timeout.  The one way out is the  *)
(* Redis error of ConnectionMadeFails: then no timer is armed and only    *)
(* the network or the SMSC can end the session.                           *)
BindResolves == state = "OPEN" ~> (state # "OPEN" \/ cm = "failed")

(* Spec section 8: after transport loss no timer remains armed.          *)
NoTimerAfterLoss == conn = "lost" => loseConn = "none"

(* Spec section 5: on transport loss pending outbound work is abandoned: *)
(* no submit_sm is written, nor pushed on the ledger, after the loss.    *)
NoSubmitAfterLoss == lostSubmits = 0

(* Spec sections 5 and 8: every transport loss invokes the disconnect    *)
(* callback, exactly once.                                                *)
DisconnectOnLoss == conn = "lost" => disconnectCalls = 1

(* Spec sections 4.3 and 7: every PDU put on the queue is eventually      *)
(* handled -- a failure while handling one is absorbed and logged, and    *)
(* the dispatch loop of _process_pdu_queue goes on with the next PDU.     *)
QueueServed == inq # <<>> ~> inq = <<>>

(* Spec sections 4.1 and 8: after a successful bind the state is the      *)
(* bound state of the session's role (CONNECTED_STATE), whatever bind     *)
(* response handler ran.                                                  *)
BoundAsRole == state \in Bound => state = ConnectedState

(* Spec section 4.1: the link-check loop fires while the state is any     *)
(* BOUND_*: a session that stays bound on a live connection writes        *)
(* enquire_link PDUs again and again -- the LoopingCall started by the    *)
(* bind response handler is not lost or stopped while the session lives.  *)
(* A tick whose get_next_seq fails ends the link check for good (line    *)
(* 434; nothing restarts it), so this is stated for sessions in which no  *)
(* tick failed.                                                           *)
LinkCheckRuns ==
    <>[](state \in Bound /\ conn = "up" /\ ~tickFailed) => []<><<EnquireLinkSeq>>_vars

(* Spec sections 4.1 and 4.6: an unbind moves the session to UNBINDING,   *)
(* where submit_sm fails with NOT_BOUND: no submit_sm call made after     *)
(* handle_unbind has run goes on to send its segments.                    *)
SubmitRefusedAfterUnbind == [][unbound => ~(sub.pc = "idle" /\ sub'.pc = "seq")]_<<unbound, sub>>
=============================================================================
