-------------------------------- MODULE XApp --------------------------------
(***************************************************************************)
(* Subscriptions of an xApp (ric/xApps/python/lib/xAppBase.py) and its     *)
(* three threads.  The thread of the start function subscribes; a thread   *)
(* of the HTTP server handles the responses of the subscription manager    *)
(* and replaces the key of the subscription by the E2EventInstanceId; the  *)
(* main thread receives indications and runs the signal handler, which     *)
(* stops the xApp.  A step is what a thread does between two points at     *)
(* which another may run: a REST call, or one access to my_subscriptions.  *)
(***************************************************************************)
EXTENDS Naturals, FiniteSets

CONSTANTS Subscriptions,  \* what the start function subscribes to
          MaxSignals      \* bound: exit signals

VARIABLES
  my_subscriptions,  \* keys: [by |-> "SubscriptionId" or "E2EventInstanceId", sub |-> s]
  manager,           \* external: state of each subscription at the subscription manager
  responses,         \* external: responses on their way to the HTTP server
  todo,              \* the start function has still to subscribe to these
  granted,           \* the id subscribe() has got and not yet stored
  popped,            \* what the response callback has popped and not yet stored
  main,              \* main thread: "run", "unsubscribe", "close", "exit" or "raised"
  visited, size,     \* the iterator of unsubscribe_all
  served,            \* the HTTP server runs
  running, rmr_open, \* running, and whether the RMR client is open
  called,            \* subscriptions whose callback_func has been called
  signals            \* used part of MaxSignals

app == <<my_subscriptions, todo, granted, popped>>
iterator == <<visited, size>>
service == <<served, running, rmr_open>>
vars == <<app, manager, responses, main, iterator, service, called, signals>>

Key(by, sub) == [by |-> by, sub |-> sub]
BySubscriptionId(sub) == Key("SubscriptionId", sub)
ByE2EventInstanceId(sub) == Key("E2EventInstanceId", sub)

Init ==
  /\ my_subscriptions = {} /\ manager = [s \in Subscriptions |-> "none"] /\ responses = {}
  /\ todo = Subscriptions /\ granted = {} /\ popped = {}
  /\ main = "run" /\ visited = {} /\ size = 0
  /\ served = TRUE /\ running = TRUE /\ rmr_open = TRUE
  /\ called = {} /\ signals = 0

Alive == main # "exit"

(***************************************************************************)
(* The thread of the start function: subscribe                             *)
(***************************************************************************)
SubscribeRequest ==
  /\ Alive /\ granted = {}
  /\ \E sub \in todo :
       /\ todo' = todo \ {sub} /\ granted' = {sub}
       /\ manager' = [manager EXCEPT ![sub] = "active"]
       /\ responses' = responses \cup {sub}
  /\ UNCHANGED <<my_subscriptions, popped, main, iterator, service, called, signals>>

SubscribeStore ==
  /\ Alive /\ granted # {}
  /\ my_subscriptions' = my_subscriptions \cup {BySubscriptionId(sub) : sub \in granted}
  /\ granted' = {}
  /\ UNCHANGED <<manager, responses, todo, popped, main, iterator, service, called, signals>>

(***************************************************************************)
(* The HTTP server: _subscription_response_callback                        *)
(***************************************************************************)
ResponsePop ==
  /\ Alive /\ served /\ popped = {}
  /\ \E sub \in responses :
       /\ responses' = responses \ {sub}
       /\ popped' = {sub} \cap {s \in Subscriptions : BySubscriptionId(s) \in my_subscriptions}
       /\ my_subscriptions' = my_subscriptions \ {BySubscriptionId(sub)}
  /\ UNCHANGED <<manager, todo, granted, main, iterator, service, called, signals>>

ResponseStore ==
  /\ Alive /\ popped # {}
  /\ my_subscriptions' = my_subscriptions \cup {ByE2EventInstanceId(sub) : sub \in popped}
  /\ popped' = {}
  /\ UNCHANGED <<manager, responses, todo, granted, main, iterator, service, called, signals>>

(***************************************************************************)
(* The main thread: _run, and stop when it handles a signal                *)
(***************************************************************************)
\* An indication of a subscription whose key has not been replaced is dropped.
RunIndication ==
  /\ main = "run" /\ running /\ rmr_open
  /\ \E sub \in Subscriptions :
       /\ manager[sub] = "active" /\ ByE2EventInstanceId(sub) \in my_subscriptions
       /\ called' = called \cup {sub}
  /\ UNCHANGED <<app, manager, responses, main, iterator, service, signals>>

\* A signal that interrupts the handler itself is left out.
SignalHandler ==
  /\ main = "run" /\ signals < MaxSignals
  /\ signals' = signals + 1
  /\ main' = "unsubscribe" /\ visited' = {} /\ size' = Cardinality(my_subscriptions)
  /\ UNCHANGED <<app, manager, responses, service, called>>

\* One round of unsubscribe_all.  A key stored meanwhile comes after the others.
UnsubscribeNext ==
  /\ main = "unsubscribe" /\ Cardinality(my_subscriptions) = size
  /\ \E key \in my_subscriptions \ visited :
       /\ visited' = visited \cup {key}
       /\ manager' = [manager EXCEPT ![key.sub] = "deleted"]
  /\ UNCHANGED <<app, responses, main, size, service, called, signals>>

\* "dictionary changed size during iteration": in its try blocks _run ignores
\* the exception and goes on, elsewhere it ends the main thread.
UnsubscribeRaises ==
  /\ main = "unsubscribe" /\ Cardinality(my_subscriptions) # size
  /\ main' \in {"run", "raised"}
  /\ UNCHANGED <<app, manager, responses, iterator, service, called, signals>>

UnsubscribeEnds ==
  /\ main = "unsubscribe" /\ Cardinality(my_subscriptions) = size
  /\ my_subscriptions \subseteq visited
  /\ main' = "close"
  /\ served' = FALSE /\ rmr_open' = FALSE /\ running' = FALSE
  /\ UNCHANGED <<app, manager, responses, iterator, called, signals>>

\* xapp_thread.join and sys.exit
Exit ==
  /\ main = "close" /\ todo = {} /\ granted = {}
  /\ main' = "exit"
  /\ UNCHANGED <<app, manager, responses, iterator, service, called, signals>>

Next ==
  \/ SubscribeRequest \/ SubscribeStore \/ ResponsePop \/ ResponseStore
  \/ RunIndication \/ SignalHandler
  \/ UnsubscribeNext \/ UnsubscribeRaises \/ UnsubscribeEnds \/ Exit

Spec == Init /\ [][Next]_vars

\* simple_xapp.py:122: "xApp will unsubscribe all active subscriptions at exit."
UnsubscribedAtExit == main = "exit" => \A sub \in Subscriptions : manager[sub] # "active"
=============================================================================
