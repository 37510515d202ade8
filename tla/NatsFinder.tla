----------------------------- MODULE NatsFinder -----------------------------
(***************************************************************************)
(* The NATS client of internal/transport/nats/nats.go: calls of            *)
(* FindMessageInStream that run concurrently in test steps, the callback   *)
(* goroutine of each subscription, and Close.                              *)
(*                                                                         *)
(* A message is its sequence number in the stream.  The server delivers a  *)
(* subscription from number 1 on and may deliver again what the callback   *)
(* has not acknowledged.  The tests of the subject, the decoding and the   *)
(* filter of a call are one predicate: Wanted[f].                          *)
(*                                                                         *)
(* A definition named X_Something is X with one plausible slip; it is used *)
(* only to show that the properties notice that slip.                      *)
(***************************************************************************)
EXTENDS Integers, Sequences, FiniteSets

CONSTANTS Finders,
          Wanted,         \* Wanted[f]: sequence numbers f is looking for
          ChanCap,        \* capacity of msgCh, 100 in the code
          MaxSeq,         \* bound: messages in the stream
          MaxRedeliver    \* bound: redeliveries by the server

SeqNo == 1 .. MaxSeq
None == 0

ASSUME FinderAssumption == Wanted \in [Finders -> SUBSET SeqNo]
ASSUME BoundAssumption == /\ ChanCap \in Nat \ {0}
                          /\ MaxSeq \in Nat
                          /\ MaxRedeliver \in Nat

VARIABLES
    stream,        \* messages in the stream so far (external)
    redelivered,   \* redeliveries so far (external)
    delivered,     \* delivered[f]: messages the server has sent to f
    active,        \* active[f]: the subscription exists
    callback,      \* callback[f]: the message the callback is sending, or None
    msgCh,
    pc,            \* "idle", "subscribed", "search", "leaving", "returned",
                   \* or "refused": returned without a subscription
    expired,
    result,
    subs,          \* n.subs
    wg,            \* the counter of n.wg
    cancelled,     \* n.ctx is done
    closePc,       \* "open", "waiting", "waited", "closed"
    joinedLate     \* history: calls that joined wg after Close had cancelled

server == <<stream, redelivered>>
call == <<pc, expired, result>>
client == <<subs, wg, cancelled, closePc>>
vars == <<server, delivered, active, callback, msgCh, call, client, joinedLate>>

Init ==
    /\ stream = 0
    /\ redelivered = 0
    /\ delivered = [f \in Finders |-> 0]
    /\ active = [f \in Finders |-> FALSE]
    /\ callback = [f \in Finders |-> None]
    /\ msgCh = [f \in Finders |-> << >>]
    /\ pc = [f \in Finders |-> "idle"]
    /\ expired = [f \in Finders |-> FALSE]
    /\ result = [f \in Finders |-> None]
    /\ subs = {}
    /\ wg = 0
    /\ cancelled = FALSE
    /\ closePc = "open"
    /\ joinedLate = {}

-----------------------------------------------------------------------------
(* The server and the library (external). *)

Publish ==
    /\ stream < MaxSeq
    /\ stream' = stream + 1
    /\ UNCHANGED <<redelivered, delivered, active, callback, msgCh, call, client, joinedLate>>

\* The callback of f is called with the next message of the stream.
Deliver(f) ==
    /\ active[f]
    /\ callback[f] = None
    /\ delivered[f] < stream
    /\ delivered' = [delivered EXCEPT ![f] = @ + 1]
    /\ callback' = [callback EXCEPT ![f] = delivered[f] + 1]
    /\ UNCHANGED <<server, active, msgCh, call, client, joinedLate>>

\* The acknowledgement was late: the callback is called with a message again.
Redeliver(f) ==
    /\ active[f]
    /\ callback[f] = None
    /\ redelivered < MaxRedeliver
    /\ redelivered' = redelivered + 1
    /\ \E m \in 1 .. delivered[f] : callback' = [callback EXCEPT ![f] = m]
    /\ UNCHANGED <<stream, delivered, active, msgCh, call, client, joinedLate>>

-----------------------------------------------------------------------------
(* The callback: msgCh <- msg, with nothing else to wait for. *)

CallbackSend(f) ==
    /\ callback[f] # None
    /\ Len(msgCh[f]) < ChanCap
    /\ msgCh' = [msgCh EXCEPT ![f] = Append(@, callback[f])]
    /\ callback' = [callback EXCEPT ![f] = None]
    /\ UNCHANGED <<server, delivered, active, call, client, joinedLate>>

-----------------------------------------------------------------------------
(* FindMessageInStream. *)

\* Where the server starts to deliver: nats.DeliverAll(), StartSequence(1).
StartAfter_New == stream
StartAfter == 0

\* subscribeWithDeliverAll
Subscribe(f) ==
    /\ pc[f] = "idle"
    /\ closePc # "closed"
    /\ delivered' = [delivered EXCEPT ![f] = StartAfter]
    /\ active' = [active EXCEPT ![f] = TRUE]
    /\ subs' = subs \cup {f}
    /\ pc' = [pc EXCEPT ![f] = "subscribed"]
    /\ UNCHANGED <<server, callback, msgCh, expired, result,
                   wg, cancelled, closePc, joinedLate>>

\* js.Subscribe returns an error: the connection is closed, or the server
\* refuses (no such stream, a bad subject, no answer in time).  The call
\* returns nil before it has joined the wait group.
SubscribeFails(f) ==
    /\ pc[f] = "idle"
    /\ pc' = [pc EXCEPT ![f] = "refused"]
    /\ UNCHANGED <<server, delivered, active, callback, msgCh, expired, result, client, joinedLate>>

\* n.wg.Add(1)
Join == wg' = wg + 1

Enter(f) ==
    /\ pc[f] = "subscribed"
    /\ Join
    /\ joinedLate' = IF cancelled THEN joinedLate \cup {f} ELSE joinedLate
    /\ pc' = [pc EXCEPT ![f] = "search"]
    /\ UNCHANGED <<server, delivered, active, callback, msgCh, expired, result,
                   subs, cancelled, closePc>>

\* The timer of context.WithTimeout fires.
Expire(f) ==
    /\ pc[f] = "search"
    /\ ~expired[f]
    /\ expired' = [expired EXCEPT ![f] = TRUE]
    /\ UNCHANGED <<server, delivered, active, callback, msgCh, pc, result, client, joinedLate>>

\* case <-ctx.Done(), which may win although a message is ready.
TimeIsOver_Timer(f) == expired[f]
TimeIsOver(f) == expired[f] \/ cancelled

GiveUp(f) ==
    /\ pc[f] = "search"
    /\ TimeIsOver(f)
    /\ pc' = [pc EXCEPT ![f] = "leaving"]
    /\ UNCHANGED <<server, delivered, active, callback, msgCh, expired, result, client, joinedLate>>

\* continue, after a message that fails a test.
GoOn_Return(f) == pc' = [pc EXCEPT ![f] = "leaving"]
GoOn(f) == UNCHANGED pc

\* case msg := <-msgCh: all tests pass and the call returns it, or it is
\* dropped.
Receive(f) ==
    /\ pc[f] = "search"
    /\ msgCh[f] # << >>
    /\ msgCh' = [msgCh EXCEPT ![f] = Tail(@)]
    /\ IF Head(msgCh[f]) \in Wanted[f]
       THEN /\ result' = [result EXCEPT ![f] = Head(msgCh[f])]
            /\ pc' = [pc EXCEPT ![f] = "leaving"]
       ELSE GoOn(f) /\ UNCHANGED result
    /\ UNCHANGED <<server, delivered, active, callback, expired, client, joinedLate>>

\* n.wg.Done()
Part == wg' = wg - 1

\* The deferred calls, last first: cancel, Unsubscribe, Done.
Leave(f) ==
    /\ pc[f] = "leaving"
    /\ active' = [active EXCEPT ![f] = FALSE]
    /\ Part
    /\ pc' = [pc EXCEPT ![f] = "returned"]
    /\ UNCHANGED <<server, delivered, callback, msgCh, expired, result,
                   subs, cancelled, closePc, joinedLate>>

-----------------------------------------------------------------------------
(* Close. *)

CloseCancel ==
    /\ closePc = "open"
    /\ cancelled' = TRUE
    /\ closePc' = "waiting"
    /\ UNCHANGED <<server, delivered, active, callback, msgCh, call, subs, wg, joinedLate>>

\* n.wg.Wait() returns.
WaitIsOver_Now == TRUE
WaitIsOver == wg = 0

CloseWait ==
    /\ closePc = "waiting"
    /\ WaitIsOver
    /\ closePc' = "waited"
    /\ UNCHANGED <<server, delivered, active, callback, msgCh, call, subs, wg, cancelled, joinedLate>>

\* Every subscription is ended, then the connection.
CloseConn ==
    /\ closePc = "waited"
    /\ active' = [f \in Finders |-> FALSE]
    /\ closePc' = "closed"
    /\ UNCHANGED <<server, delivered, callback, msgCh, call, subs, wg, cancelled, joinedLate>>

-----------------------------------------------------------------------------

CloseStep == CloseWait \/ CloseConn
CallStep(f) == Enter(f) \/ GiveUp(f) \/ Receive(f) \/ Leave(f)

Next ==
    \/ Publish
    \/ \E f \in Finders : \/ Deliver(f) \/ Redeliver(f) \/ CallbackSend(f)
                          \/ Subscribe(f) \/ SubscribeFails(f) \/ Expire(f) \/ CallStep(f)
    \/ CloseCancel \/ CloseStep

Spec == Init /\ [][Next]_vars

\* Goroutines keep running and the library delivers what the server has; no
\* timer is counted on.
FairSpec ==
    /\ Spec
    /\ \A f \in Finders : /\ WF_vars(CallStep(f)) /\ WF_vars(CallbackSend(f))
                          /\ WF_vars(Deliver(f))
    /\ WF_vars(CloseStep)

-----------------------------------------------------------------------------

Inside == {f \in Finders : pc[f] \in {"search", "leaving"}}

\* A call returns the earliest message of the stream that it wants, although
\* a late acknowledgement makes the server send messages again, out of order;
\* it comes back empty only when its time is over, Close has begun, or its
\* subscription was refused (nats.go:91-95, 107-109) - and then nobody sends to
\* it, and Close neither waits for it nor has a subscription of it to end.
AnswerHasReason ==
    \A f \in Finders :
        /\ result[f] # None => \A m \in Wanted[f] : m >= result[f]
        /\ pc[f] \in {"leaving", "returned", "refused"} /\ result[f] = None =>
              \/ expired[f] \/ cancelled
              \/ pc[f] = "refused" /\ f \notin subs /\ ~active[f] /\ callback[f] = None

\* Close ends the connection only when no call is left that joined the wait
\* group before Close began (nats.go:98-99, 163-166).  A call that joins
\* later is not waited for: wg.Add comes after the subscription.
CloseWaitsForCalls ==
    closePc = "closed" => Inside \subseteq joinedLate

\* Close returns: the calls it waits for are ended by the context it cancels,
\* not by their timers.
CloseReturns == closePc = "waiting" ~> closePc = "closed"

\* A message a call wants is found once it is in the stream, unless the call
\* ran out of time or Close came, although the channel is small and the
\* callback has to wait for room.
MatchIsFound ==
    \A f \in Finders :
        (pc[f] = "search" /\ \E m \in Wanted[f] : m <= stream)
            ~> (result[f] # None \/ expired[f] \/ cancelled)
=============================================================================
