------------------------------ MODULE TopicFeed ------------------------------
(***************************************************************************)
(* What the Kafka client promises to the tests that wait for a message,    *)
(* without goroutines, channels or locks.  Every topic is a log.  A finder *)
(* that opens a subscription is owed the last Size messages of its topic   *)
(* and every message that comes later, each exactly once, in no promised   *)
(* order.  What is still owed may be lost only once the subscription is    *)
(* shut or the consumer is no longer live.                                 *)
(***************************************************************************)
EXTENDS Integers, Sequences

CONSTANTS Topics,
          Finders,
          TopicOf,     \* the topic of the message type a finder looks for
          Messages,
          Size         \* how many earlier messages a new subscription gets

VARIABLES log,         \* log[t]: the messages of topic t, oldest first
          open,        \* the finders whose subscription is open
          owed,        \* owed[f]: messages f was promised and has not taken
          taken,       \* taken[f]: messages f has taken
          live         \* FALSE once the consumer was cancelled

feedVars == <<log, open, owed, taken, live>>

Recent(t) == LET n == Len(log[t]) IN
             {log[t][i] : i \in {j \in 1 .. n : j > n - Size}}

Init ==
    /\ log = [t \in Topics |-> << >>]
    /\ open = {}
    /\ owed = [f \in Finders |-> {}]
    /\ taken = [f \in Finders |-> {}]
    /\ live = TRUE

\* A message of topic t is promised, in one step, to every open subscription.
Publish(t, m) ==
    /\ log' = [log EXCEPT ![t] = Append(@, m)]
    /\ owed' = [f \in Finders |->
                  IF f \in open /\ TopicOf[f] = t THEN owed[f] \cup {m} ELSE owed[f]]
    /\ UNCHANGED <<open, taken, live>>

Open(f) ==
    /\ f \notin open
    /\ taken[f] = {} /\ owed[f] = {}
    /\ open' = open \cup {f}
    /\ owed' = [owed EXCEPT ![f] = Recent(TopicOf[f])]
    /\ UNCHANGED <<log, taken, live>>

\* Taking a message discharges it: it can never be taken again.
Take(f, m) ==
    /\ m \in owed[f]
    /\ owed' = [owed EXCEPT ![f] = @ \ {m}]
    /\ taken' = [taken EXCEPT ![f] = @ \cup {m}]
    /\ UNCHANGED <<log, open, live>>

\* Subscriptions are shut, the consumer is cancelled, or what nobody is
\* waiting for any more is dropped.
Release ==
    /\ open' \subseteq open
    /\ live' => live
    /\ \A f \in Finders : \/ owed'[f] = owed[f]
                          \/ (f \notin open' \/ ~live') /\ owed'[f] \subseteq owed[f]
    /\ DOMAIN owed' = Finders
    /\ UNCHANGED <<log, taken>>

Next ==
    \/ \E t \in Topics, m \in Messages : Publish(t, m)
    \/ \E f \in Finders : Open(f)
    \/ \E f \in Finders, m \in Messages : Take(f, m)
    \/ Release

Spec == Init /\ [][Next]_feedVars
=============================================================================
