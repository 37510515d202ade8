---------------------------- MODULE KafkaConsumer ----------------------------
(***************************************************************************)
(* The Kafka client of internal/transport/kafka/kafka.go while one         *)
(* instance of it is in use.  The goroutines are, per topic, the one       *)
(* running readMessages; per call of FindMessageByFilter, the test step    *)
(* that waits (a finder) and the goroutine SubscribeToTopic starts to      *)
(* replay the buffered messages; and the one that runs close.              *)
(*                                                                         *)
(* Each finder is one call of FindMessageByFilter, so it also names its    *)
(* subscriber.  A message is its position in the topic.  What runs under   *)
(* k.mu has no blocking operation and is one step; channel operations and  *)
(* everything outside the lock interleave.  subscriber.Close is one step:  *)
(* a sender that sees only part of it behaves as one that saw all or none. *)
(*                                                                         *)
(* A definition named X_Something is X with one plausible slip; it is used *)
(* only to show that the properties notice that slip.                      *)
(***************************************************************************)
EXTENDS Integers, SequencesExt

CONSTANTS Topics,
          Finders,
          TopicOf,       \* TopicOf[f]: GetTopic() of the type f looks for
          Wanted,        \* Wanted[f]: messages that parse and pass f's filter
          BufferSize,    \* slots of the ring buffer of a topic
          ChanCap,       \* capacity of a subscriber's channel, 100 in the code
          MaxOffset,     \* bound: messages produced per topic
          MaxFaults,     \* bound: failed reads
          MayClose       \* whether the last reference may be released

Offset == 1 .. MaxOffset
NoMsg == 0

ASSUME BoundsAssumption ==
    /\ BufferSize \in Nat \ {0}
    /\ ChanCap \in Nat \ {0}
    /\ MaxOffset \in Nat
    /\ MaxFaults \in Nat
    /\ MayClose \in BOOLEAN
ASSUME FinderAssumption ==
    /\ TopicOf \in [Finders -> Topics]
    /\ Wanted \in [Finders -> SUBSET Offset]

VARIABLES
    \* the broker (external)
    fetched,           \* fetched[t]: messages handed to the reader, or lost
    faults,            \* failed reads so far
    \* readMessages, one goroutine per topic
    readerPc, readerMsg, readerSubs,
    \* the Kafka struct
    bufferedMessages,  \* ring buffer of a topic: see RingBuffer.tla
    subscribers,       \* subscribers[t]: finders, in order of subscription
    cancelled,         \* k.ctx is done
    closed,            \* k.subscribers is nil
    \* struct subscriber
    ch, subClosed,
    \* the goroutine of SubscribeToTopic
    replayPc, replay,
    \* FindMessageByFilter
    finderPc, expired, result,
    \* the process has died of a send on a closed channel
    crashed,
    \* history
    added,             \* added[t]: messages put in the buffer of t
    got,               \* got[f]: messages f took from its channel
    mark               \* mark[f]: the last message buffered when f subscribed

broker == <<fetched, faults>>
reader == <<readerPc, readerMsg, readerSubs>>
table == <<bufferedMessages, subscribers>>
lifecycle == <<cancelled, closed>>
channels == <<ch, subClosed>>
replayer == <<replayPc, replay>>
finder == <<finderPc, expired, result>>
history == <<added, got, mark>>
vars == <<broker, reader, table, lifecycle, channels, replayer, finder, crashed, history>>

-----------------------------------------------------------------------------
\* The last n elements of s.
LastN(s, n) == IF Len(s) <= n THEN s ELSE SubSeq(s, Len(s) - n + 1, Len(s))

\* RingBuffer.Add, as ImplementsBoundedLog in KafkaConsumerProofs shows it to
\* behave.
RingAdd_OneLess(w, m) == LastN(Append(w, m), BufferSize - 1)
RingAdd(w, m) == LastN(Append(w, m), BufferSize)

\* What SubscribeToTopic copies for its goroutine.
Snapshot_NewestFirst(t) == Reverse(bufferedMessages[t])
Snapshot(t) == bufferedMessages[t]

\* append(subs[:i], subs[i+1:]...)
Cut_Before(subs, i) == RemoveAt(subs, IF i = 1 THEN 1 ELSE i - 1)
Cut(subs, i) == RemoveAt(subs, i)

\* A send on the channel of f can proceed.
HasRoom(f) == ~subClosed[f] /\ Len(ch[f]) < ChanCap

\* A send puts its message at the end of the channel.
Push(f, m) == ch' = [ch EXCEPT ![f] = Append(@, m)]

\* What remains of a snapshot once its first message is sent.
Rest_Skip(s) == IF Len(s) > 1 THEN Tail(Tail(s)) ELSE << >>
Rest(s) == Tail(s)

\* The message parses and passes the filter.
Matches(f, m) == m \in Wanted[f]

\* ctx of FindMessageByFilter is done.
TimeIsOver_CancelOnly(f) == cancelled
TimeIsOver(f) == expired[f] \/ cancelled

\* The context given to ReadMessage is done.
ReadCtxDone_Never == FALSE
ReadCtxDone == cancelled

\* case <-sub.done is ready.
Done_Missing(f) == FALSE
Done(f) == subClosed[f]

\* What close finds in the table.
InTable(f) == \E t \in Topics : f \in ToSet(subscribers[t])

\* close has cancelled the context before it takes the lock.
CancelledFirst_No == MayClose
CancelledFirst == cancelled

Init ==
    /\ fetched = [t \in Topics |-> 0]
    /\ faults = 0
    /\ readerPc = [t \in Topics |-> "top"]
    /\ readerMsg = [t \in Topics |-> NoMsg]
    /\ readerSubs = [t \in Topics |-> << >>]
    /\ bufferedMessages = [t \in Topics |-> << >>]
    /\ subscribers = [t \in Topics |-> << >>]
    /\ cancelled = FALSE
    /\ closed = FALSE
    /\ ch = [f \in Finders |-> << >>]
    /\ subClosed = [f \in Finders |-> FALSE]
    /\ replayPc = [f \in Finders |-> "none"]
    /\ replay = [f \in Finders |-> << >>]
    /\ finderPc = [f \in Finders |-> "idle"]
    /\ expired = [f \in Finders |-> FALSE]
    /\ result = [f \in Finders |-> NoMsg]
    /\ crashed = FALSE
    /\ added = [t \in Topics |-> << >>]
    /\ got = [f \in Finders |-> << >>]
    /\ mark = [f \in Finders |-> NoMsg]

-----------------------------------------------------------------------------
(* readMessages. *)

\* The select at the top of the loop.
ReaderTop(t) ==
    /\ readerPc[t] = "top"
    /\ readerPc' = [readerPc EXCEPT ![t] = IF cancelled THEN "stopped" ELSE "reading"]
    /\ UNCHANGED <<broker, readerMsg, readerSubs, table, lifecycle, channels,
                   replayer, finder, crashed, history>>

\* ReadMessage returns the next message, whenever there is one; it may do so
\* even though the context has been cancelled meanwhile.
ReadMessage(t) ==
    /\ readerPc[t] = "reading"
    /\ fetched[t] < MaxOffset
    /\ fetched' = [fetched EXCEPT ![t] = @ + 1]
    /\ readerMsg' = [readerMsg EXCEPT ![t] = fetched[t] + 1]
    /\ readerPc' = [readerPc EXCEPT ![t] = "got"]
    /\ UNCHANGED <<faults, readerSubs, table, lifecycle, channels, replayer, finder,
                   crashed, history>>

\* ReadMessage fails: nothing was fetched, or a message was and committing
\* its offset failed, so that it is never seen.  The loop sleeps and goes on.
ReadError(t) ==
    /\ readerPc[t] = "reading"
    /\ ~cancelled
    /\ faults < MaxFaults
    /\ faults' = faults + 1
    /\ \/ UNCHANGED fetched
       \/ /\ fetched[t] < MaxOffset
          /\ fetched' = [fetched EXCEPT ![t] = @ + 1]
    /\ readerPc' = [readerPc EXCEPT ![t] = "top"]
    /\ UNCHANGED <<readerMsg, readerSubs, table, lifecycle, channels, replayer,
                   finder, crashed, history>>

\* ReadMessage fails because the context is done.
ReadCancelled(t) ==
    /\ readerPc[t] = "reading"
    /\ ReadCtxDone
    /\ readerPc' = [readerPc EXCEPT ![t] = "stopped"]
    /\ UNCHANGED <<broker, readerMsg, readerSubs, table, lifecycle, channels,
                   replayer, finder, crashed, history>>

\* Under k.mu: the message enters the ring buffer and the subscribers of this
\* moment are copied.
BufferMessage(t) ==
    /\ readerPc[t] = "got"
    /\ bufferedMessages' = [bufferedMessages EXCEPT ![t] = RingAdd(@, readerMsg[t])]
    /\ readerSubs' = [readerSubs EXCEPT ![t] = subscribers[t]]
    /\ readerPc' = [readerPc EXCEPT ![t] = "deliver"]
    /\ added' = [added EXCEPT ![t] = Append(@, readerMsg[t])]
    /\ UNCHANGED <<broker, readerMsg, subscribers, lifecycle, channels, replayer,
                   finder, crashed, got, mark>>

\* The next subscriber of the copy: the head of the for loop and the test of
\* sub.closed.
NextSubscriber(t) ==
    /\ readerPc[t] = "deliver"
    /\ IF readerSubs[t] = << >>
       THEN /\ readerPc' = [readerPc EXCEPT ![t] = "top"]
            /\ readerMsg' = [readerMsg EXCEPT ![t] = NoMsg]
            /\ UNCHANGED readerSubs
       ELSE /\ IF subClosed[Head(readerSubs[t])]
               THEN /\ readerSubs' = [readerSubs EXCEPT ![t] = Tail(@)]
                    /\ UNCHANGED readerPc
               ELSE /\ readerPc' = [readerPc EXCEPT ![t] = "select"]
                    /\ UNCHANGED readerSubs
            /\ UNCHANGED readerMsg
    /\ UNCHANGED <<broker, table, lifecycle, channels, replayer, finder, crashed, history>>

Delivered(t) ==
    /\ readerSubs' = [readerSubs EXCEPT ![t] = Tail(@)]
    /\ readerPc' = [readerPc EXCEPT ![t] = "deliver"]
    /\ UNCHANGED readerMsg

\* case sub.ch <- msg
ReaderSend(t) ==
    /\ readerPc[t] \in {"select", "blocked"}
    /\ HasRoom(Head(readerSubs[t]))
    /\ Push(Head(readerSubs[t]), readerMsg[t])
    /\ Delivered(t)
    /\ UNCHANGED <<broker, table, lifecycle, subClosed, replayer, finder, crashed, history>>

\* case <-sub.done
ReaderDone(t) ==
    /\ readerPc[t] \in {"select", "blocked"}
    /\ Done(Head(readerSubs[t]))
    /\ Delivered(t)
    /\ UNCHANGED <<broker, table, lifecycle, channels, replayer, finder, crashed, history>>

\* case <-k.ctx.Done(): the rest of the copy gets nothing.
ReaderStop(t) ==
    /\ readerPc[t] \in {"select", "blocked"}
    /\ cancelled
    /\ readerPc' = [readerPc EXCEPT ![t] = "stopped"]
    /\ readerMsg' = [readerMsg EXCEPT ![t] = NoMsg]
    /\ readerSubs' = [readerSubs EXCEPT ![t] = << >>]
    /\ UNCHANGED <<broker, table, lifecycle, channels, replayer, finder, crashed, history>>

\* No case is ready.  A sender that already waits is woken by the close of
\* done, which comes before the close of ch; only a sender that enters its
\* select after both finds the closed channel ready, and may pick it.
ReaderBlock(t) ==
    /\ readerPc[t] = "select"
    /\ ~HasRoom(Head(readerSubs[t])) /\ ~subClosed[Head(readerSubs[t])] /\ ~cancelled
    /\ readerPc' = [readerPc EXCEPT ![t] = "blocked"]
    /\ UNCHANGED <<broker, readerMsg, readerSubs, table, lifecycle, channels,
                   replayer, finder, crashed, history>>

\* The subscriber was closed after the test of sub.closed and the select
\* picks the send: the process panics.
ReaderPanic(t) ==
    /\ readerPc[t] = "select"
    /\ subClosed[Head(readerSubs[t])]
    /\ crashed' = TRUE
    /\ UNCHANGED <<broker, reader, table, lifecycle, channels, replayer, finder, history>>

-----------------------------------------------------------------------------
(* The goroutine that SubscribeToTopic starts. *)

\* case sub.ch <- msg
ReplaySend(f) ==
    /\ replayPc[f] \in {"select", "blocked"}
    /\ replay[f] # << >>
    /\ HasRoom(f)
    /\ Push(f, Head(replay[f]))
    /\ replay' = [replay EXCEPT ![f] = Rest(@)]
    /\ replayPc' = [replayPc EXCEPT ![f] = "select"]
    /\ UNCHANGED <<broker, reader, table, lifecycle, subClosed, finder, crashed, history>>

\* The loop is over, or case <-sub.done.
ReplayEnd(f) ==
    /\ \/ replayPc[f] = "select" /\ replay[f] = << >>
       \/ replayPc[f] \in {"select", "blocked"} /\ Done(f)
    /\ replayPc' = [replayPc EXCEPT ![f] = "ended"]
    /\ replay' = [replay EXCEPT ![f] = << >>]
    /\ UNCHANGED <<broker, reader, table, lifecycle, channels, finder, crashed, history>>

ReplayBlock(f) ==
    /\ replayPc[f] = "select"
    /\ replay[f] # << >>
    /\ ~HasRoom(f) /\ ~subClosed[f]
    /\ replayPc' = [replayPc EXCEPT ![f] = "blocked"]
    /\ UNCHANGED <<broker, reader, table, lifecycle, channels, replay, finder, crashed, history>>

\* The finder has left and the select picks the send on its closed channel.
ReplayPanic(f) ==
    /\ replayPc[f] = "select"
    /\ replay[f] # << >>
    /\ subClosed[f]
    /\ crashed' = TRUE
    /\ UNCHANGED <<broker, reader, table, lifecycle, channels, replayer, finder, history>>

-----------------------------------------------------------------------------
(* FindMessageByFilter. *)

\* SubscribeToTopic, under k.mu: snapshot of the buffer, entry in the table.
Subscribe(f) ==
    LET t == TopicOf[f] IN
    /\ finderPc[f] = "idle"
    /\ ~closed
    /\ subscribers' = [subscribers EXCEPT ![t] = Append(@, f)]
    /\ replay' = [replay EXCEPT ![f] = Snapshot(t)]
    /\ replayPc' = [replayPc EXCEPT ![f] = "select"]
    /\ finderPc' = [finderPc EXCEPT ![f] = "search"]
    /\ mark' = [mark EXCEPT ![f] = IF added[t] = << >> THEN NoMsg ELSE Last(added[t])]
    /\ UNCHANGED <<broker, reader, bufferedMessages, lifecycle, channels, expired, result,
                   crashed, added, got>>

\* After close the table is a nil map: the assignment panics in the caller,
\* whose deferred unlock runs.
SubscribeClosed(f) ==
    /\ finderPc[f] = "idle"
    /\ closed
    /\ finderPc' = [finderPc EXCEPT ![f] = "failed"]
    /\ UNCHANGED <<broker, reader, table, lifecycle, channels, replayer, expired, result,
                   crashed, history>>

\* case msg := <-ch: a message that does not parse or pass the filter is
\* dropped, one that does is the answer.
Receive(f) ==
    /\ finderPc[f] = "search"
    /\ ch[f] # << >>
    /\ LET m == Head(ch[f]) IN
       /\ ch' = [ch EXCEPT ![f] = Tail(@)]
       /\ got' = [got EXCEPT ![f] = Append(@, m)]
       /\ IF Matches(f, m)
          THEN /\ result' = [result EXCEPT ![f] = m]
               /\ finderPc' = [finderPc EXCEPT ![f] = "leaving"]
          ELSE UNCHANGED <<result, finderPc>>
    /\ UNCHANGED <<broker, reader, table, lifecycle, subClosed, replayer, expired, crashed,
                   added, mark>>

\* case msg, ok := <-ch with !ok: closed and drained.
ReceiveClosed(f) ==
    /\ finderPc[f] = "search"
    /\ ch[f] = << >> /\ subClosed[f]
    /\ finderPc' = [finderPc EXCEPT ![f] = "leaving"]
    /\ UNCHANGED <<broker, reader, table, lifecycle, channels, replayer, expired, result,
                   crashed, history>>

\* The timer of context.WithTimeout fires.
Expire(f) ==
    /\ finderPc[f] = "search"
    /\ ~expired[f]
    /\ expired' = [expired EXCEPT ![f] = TRUE]
    /\ UNCHANGED <<broker, reader, table, lifecycle, channels, replayer, finderPc, result,
                   crashed, history>>

\* case <-ctx.Done(), which may win although a message is ready.
GiveUp(f) ==
    /\ finderPc[f] = "search"
    /\ TimeIsOver(f)
    /\ finderPc' = [finderPc EXCEPT ![f] = "leaving"]
    /\ UNCHANGED <<broker, reader, table, lifecycle, channels, replayer, expired, result,
                   crashed, history>>

\* The deferred Unsubscribe, under k.mu: find the channel in the table, close
\* the subscriber, take it out.  After close there is nothing to find.
Unsubscribe(f) ==
    /\ finderPc[f] = "leaving"
    /\ \/ \E t \in Topics : \E i \in DOMAIN subscribers[t] :
             /\ subscribers[t][i] = f
             /\ subClosed' = [subClosed EXCEPT ![f] = TRUE]
             /\ subscribers' = [subscribers EXCEPT ![t] = Cut(@, i)]
       \/ /\ ~InTable(f)
          /\ UNCHANGED <<subClosed, subscribers>>
    /\ finderPc' = [finderPc EXCEPT ![f] = "done"]
    /\ UNCHANGED <<broker, reader, bufferedMessages, lifecycle, ch, replayer, expired, result,
                   crashed, history>>

-----------------------------------------------------------------------------
(* close, called by CloseInstance for the last reference. *)

Cancel ==
    /\ MayClose
    /\ ~cancelled
    /\ cancelled' = TRUE
    /\ UNCHANGED <<broker, reader, table, closed, channels, replayer, finder, crashed, history>>

\* Under k.mu: every subscriber is closed and the table becomes nil.  Closing
\* the readers, which follows, meets goroutines that the context has already
\* stopped and changes nothing here.
CloseSubscribers ==
    /\ CancelledFirst
    /\ ~closed
    /\ closed' = TRUE
    /\ subClosed' = [f \in Finders |-> subClosed[f] \/ InTable(f)]
    /\ subscribers' = [t \in Topics |-> << >>]
    /\ UNCHANGED <<broker, reader, bufferedMessages, cancelled, ch, replayer, finder, crashed, history>>

-----------------------------------------------------------------------------

\* What readMessages does without waiting for the broker.
ReaderStep(t) ==
    \/ ReaderTop(t) \/ ReadCancelled(t)
    \/ BufferMessage(t) \/ NextSubscriber(t)
    \/ ReaderSend(t) \/ ReaderDone(t) \/ ReaderStop(t) \/ ReaderBlock(t) \/ ReaderPanic(t)

ReplayStep(f) == ReplaySend(f) \/ ReplayEnd(f) \/ ReplayBlock(f) \/ ReplayPanic(f)

\* What a call of FindMessageByFilter does once it has been made.
FinderStep(f) == Receive(f) \/ ReceiveClosed(f) \/ GiveUp(f) \/ Unsubscribe(f)

Next ==
    /\ ~crashed
    /\ \/ \E t \in Topics : ReadMessage(t) \/ ReadError(t) \/ ReaderStep(t)
       \/ \E f \in Finders : \/ Subscribe(f) \/ SubscribeClosed(f)
                             \/ Expire(f) \/ FinderStep(f) \/ ReplayStep(f)
       \/ Cancel \/ CloseSubscribers

\* Nothing is left to do: a reader waits for the broker or has stopped, every
\* replay is over and every call has returned.
Quiescent ==
    \/ crashed
    \/ /\ \A t \in Topics : readerPc[t] \in {"reading", "stopped"}
       /\ \A f \in Finders : replayPc[f] \in {"none", "ended"}
       /\ \A f \in Finders : finderPc[f] \in {"done", "failed"}

Terminated == Quiescent /\ UNCHANGED vars

Spec == Init /\ [][Next \/ Terminated]_vars

\* Goroutines keep running; no timer is counted on, a test need not make its
\* call, the broker need not deliver, nobody need release the
\* instance, but close, once begun, goes on.
Fairness ==
    /\ \A t \in Topics : WF_vars(~crashed /\ ReaderStep(t))
    /\ \A f \in Finders : /\ WF_vars(~crashed /\ ReplayStep(f))
                          /\ WF_vars(~crashed /\ FinderStep(f))
    /\ WF_vars(~crashed /\ CloseSubscribers)

FairSpec == Spec /\ Fairness

-----------------------------------------------------------------------------
\* f has subscribed and not yet unsubscribed.
Active(f) == finderPc[f] \in {"search", "leaving"}

\* The message the reader of f's topic still has to deliver to f.
InFlight(f) == LET t == TopicOf[f] IN
               IF f \in ToSet(readerSubs[t]) THEN <<readerMsg[t]>> ELSE << >>

\* Everything on its way to f, as far as it has come.
OnTheWay(f) == got[f] \o ch[f] \o replay[f] \o InFlight(f)

\* The variables keep their types; the channel its capacity, and the window
\* its size.
TypeOK ==
    /\ fetched \in [Topics -> 0 .. MaxOffset]
    /\ faults \in 0 .. MaxFaults
    /\ readerPc \in [Topics -> {"top", "reading", "got", "deliver", "select", "blocked", "stopped"}]
    /\ readerMsg \in [Topics -> 0 .. MaxOffset]
    /\ readerSubs \in [Topics -> Seq(Finders)]
    /\ bufferedMessages \in [Topics -> Seq(Offset)]
    /\ \A t \in Topics : Len(bufferedMessages[t]) <= BufferSize
    /\ subscribers \in [Topics -> Seq(Finders)]
    /\ cancelled \in BOOLEAN /\ closed \in BOOLEAN /\ crashed \in BOOLEAN
    /\ ch \in [Finders -> Seq(Offset)]
    /\ \A f \in Finders : Len(ch[f]) <= ChanCap
    /\ subClosed \in [Finders -> BOOLEAN]
    /\ replayPc \in [Finders -> {"none", "select", "blocked", "ended"}]
    /\ replay \in [Finders -> Seq(Offset)]
    /\ finderPc \in [Finders -> {"idle", "search", "leaving", "done", "failed"}]
    /\ expired \in [Finders -> BOOLEAN]
    /\ result \in [Finders -> 0 .. MaxOffset]
    /\ added \in [Topics -> Seq(Offset)]
    /\ got \in [Finders -> Seq(Offset)]
    /\ mark \in [Finders -> 0 .. MaxOffset]

\* The table holds exactly the open subscriptions of calls that have not
\* returned, each once: Unsubscribe, which looks a channel up among the
\* subscribers of every topic and cuts the slice in place, leaks none and
\* never removes another call's entry (kafka.go:325-338).
TableIsExact ==
    \A t \in Topics :
        /\ IsInjective(subscribers[t])
        /\ ToSet(subscribers[t]) =
             {f \in Finders : TopicOf[f] = t /\ Active(f) /\ ~subClosed[f]}

\* No message is on its way to a finder twice, although one may be both in
\* the snapshot that is replayed and near the live stream (kafka.go:304-323
\* against 247-251).
NoDuplicates == \A f \in Finders : IsInjective(OnTheWay(f))

\* Among the messages that were buffered before f subscribed, and among those
\* that came later, f gets the older first.  Nothing is said of a replayed
\* message against a live one: two goroutines send them.
InOrder ==
    \A f \in Finders :
        LET q == got[f] \o ch[f]
            live(i) == q[i] > mark[f]
        IN \A i, j \in DOMAIN q : i < j /\ (live(i) <=> live(j)) => q[i] < q[j]

\* A call that has decided answers with the first match among what it took
\* from its channel, or comes back empty because its time was over or the
\* consumer was cancelled, and for no other reason (kafka.go:281-299): no
\* other call's Unsubscribe ends its search.
AnswerHasReason ==
    \A f \in Finders : finderPc[f] \in {"leaving", "done"} =>
        IF result[f] = NoMsg
        THEN /\ ToSet(got[f]) \cap Wanted[f] = {}
             /\ expired[f] \/ cancelled
        ELSE /\ got[f] # << >> /\ result[f] = Last(got[f])
             /\ ToSet(got[f]) \cap Wanted[f] = {result[f]}

-----------------------------------------------------------------------------
\* The messages promised to f that it has not taken.
Owed(f) == IF Active(f) THEN ToSet(ch[f]) \cup ToSet(replay[f]) \cup ToSet(InFlight(f))
                        ELSE {}

Feed == INSTANCE TopicFeed WITH
            Messages <- Offset,
            Size <- BufferSize,
            log <- added,
            open <- {f \in Finders : Active(f) /\ ~subClosed[f]},
            owed <- [f \in Finders |-> Owed(f)],
            taken <- [f \in Finders |-> ToSet(got[f])],
            live <- ~cancelled

\* Snapshot, live stream, replay goroutine and channel together give every
\* call the last BufferSize messages and all later ones, each exactly once:
\* no gap and no overlap between the snapshot and the live stream, nothing
\* lost while the subscription is open and the consumer runs.
DeliversExactlyOnce == Feed!Spec

-----------------------------------------------------------------------------
\* No goroutine is stuck: the reader of a topic always comes back to reading,
\* although a subscriber has left with a full channel (kafka.go:259) or the
\* context ends (kafka.go:260), and the goroutine that replays the snapshot
\* ends, also when its finder leaves before it received all of it
\* (kafka.go:316).
NoGoroutineIsStuck ==
    /\ \A t \in Topics :
          readerPc[t] = "got" ~> (readerPc[t] \in {"top", "reading", "stopped"} \/ crashed)
    /\ \A f \in Finders : replayPc[f] = "select" ~> (replayPc[f] = "ended" \/ crashed)

\* A call of FindMessageByFilter returns once its time is over.
CallReturns ==
    \A f \in Finders : Active(f) /\ expired[f] ~> (finderPc[f] = "done" \/ crashed)

\* A call to which a matching message was promised finds one unless its time
\* is over, the consumer is cancelled or the process dies.
MatchIsFound ==
    \A f \in Finders :
        (Active(f) /\ Owed(f) \cap Wanted[f] # {})
            ~> (result[f] # NoMsg \/ expired[f] \/ cancelled \/ crashed)

\* After close every reader goroutine ends and no call is left waiting.
CloseEndsAll ==
    cancelled ~> (\/ crashed
                  \/ /\ \A t \in Topics : readerPc[t] = "stopped"
                     /\ \A f \in Finders : ~Active(f) /\ replayPc[f] \in {"none", "ended"})

\* What the test steps assert (create_veryfied_player.go:81-82): a call whose
\* message has arrived finds it.
MatchIsAlwaysFound ==
    \A f \in Finders :
        (Active(f) /\ Owed(f) \cap Wanted[f] # {}) ~> (result[f] # NoMsg \/ expired[f])
=============================================================================
