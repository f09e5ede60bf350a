------------------------------- MODULE AmEvt -------------------------------
(***************************************************************************)
(* The event table of dvb/am_adp/am_evt/am_evt.c: threads subscribe and    *)
(* unsubscribe callbacks, device threads signal events.  The hash buckets  *)
(* are independent (an event type has one bucket), so the model is one     *)
(* bucket, which holds several events.                                     *)
(*                                                                         *)
(* rwlock is held across steps only by AM_EVT_Signal, for reading, while   *)
(* it walks the list and calls; every other critical section is one step.  *)
(* Callbacks call no AM_EVT function, as the comments at line 192 demand.  *)
(***************************************************************************)
EXTENDS Integers, Sequences, SequencesExt

CONSTANTS
  Subscribers,  \* threads that subscribe and unsubscribe
  Signallers,   \* threads that signal
  Nodes,        \* cells that malloc may return
  NULL,
  Events,       \* (dev_no, event_type) pairs of the bucket
  Cbs, Datas    \* callback functions and user data

ASSUME ThreadAssumption == Subscribers \cap Signallers = {}
ASSUME NodeAssumption == NULL \notin Nodes

Threads == Subscribers \cup Signallers
Keys    == [event : Events, cb : Cbs, data : Datas]

VARIABLES
  events,  \* the bucket's list of nodes, head first
  node,    \* what is stored in each node
  live,    \* nodes that are allocated
  pc,      \* what each thread is about to do
  evt,     \* each thread's node: to insert, to free, or the one it visits
  what,    \* AM_EVT_Signal: the event that is signalled
  called,  \* ghost: the nodes that the current AM_EVT_Signal has called
  owner,   \* ghost: the thread that subscribed a listed node
  last     \* ghost: the key that a thread's AM_EVT_Subscribe succeeded for

vars == <<events, node, live, pc, evt, what, called, owner, last>>

\* The list, its nodes and the threads' positions have the kinds of value the C
\* declarations give them.
TypeOK ==
  /\ events \in Seq(Nodes)
  /\ node \in [Nodes -> Keys]
  /\ live \subseteq Nodes
  /\ pc \in [Threads -> {"idle", "insert", "free", "walk", "incb"}]
  /\ \A t \in Subscribers : pc[t] \in {"idle", "insert", "free"}
  /\ \A s \in Signallers : pc[s] \in {"idle", "walk", "incb"}
  /\ evt \in [Threads -> Nodes \cup {NULL}]
  /\ what \in [Signallers -> Events]
  /\ called \in [Signallers -> SUBSET Nodes]
  /\ owner \in [Nodes -> Subscribers \cup {NULL}]
  /\ last \in [Subscribers -> {{}} \cup {{k} : k \in Keys}]

Init ==
  /\ events = <<>>
  /\ node \in {[n \in Nodes |-> k] : k \in Keys}
  /\ live = {}
  /\ pc = [t \in Threads |-> "idle"]
  /\ evt = [t \in Threads |-> NULL]
  /\ what \in {[s \in Signallers |-> e] : e \in Events}
  /\ called = [s \in Signallers |-> {}]
  /\ owner = [n \in Nodes |-> NULL]
  /\ last = [t \in Subscribers |-> {}]

Listed == ToSet(events)

\* Mutant: a writer does not wait for readers.
WriteLockAlways == TRUE

\* pthread_rwlock_wrlock is granted while no AM_EVT_Signal holds the lock.
WriteLock == \A s \in Signallers : pc[s] = "idle"

-----------------------------------------------------------------------------
(* AM_EVT_Subscribe.                                                       *)

\* Mutant: the event is not compared.
SameCbAnyEvent(n, k) == node[n].cb = k.cb

\* The filter for repeated subscriptions does not look at the data.
SameCb(n, k) == node[n].event = k.event /\ node[n].cb = k.cb

FilterRepeated(t, k) ==
  /\ pc[t] = "idle"
  /\ \E n \in Listed : SameCb(n, k)
  /\ last' = [last EXCEPT ![t] = {k}]
  /\ UNCHANGED <<events, node, live, pc, evt, what, called, owner>>

Malloc == Nodes \ live

\* malloc, between the two critical sections; if it fails nothing changes.
AllocateEvent(t, k) ==
  /\ pc[t] = "idle"
  /\ ~\E n \in Listed : SameCb(n, k)
  /\ \E n \in Malloc :
       /\ live' = live \cup {n}
       /\ node' = [node EXCEPT ![n] = k]
       /\ evt' = [evt EXCEPT ![t] = n]
  /\ pc' = [pc EXCEPT ![t] = "insert"]
  /\ last' = [last EXCEPT ![t] = {}]
  /\ UNCHANGED <<events, what, called, owner>>

InsertEvent(t) ==
  /\ pc[t] = "insert"
  /\ WriteLock
  /\ events' = <<evt[t]>> \o events
  /\ owner' = [owner EXCEPT ![evt[t]] = t]
  /\ last' = [last EXCEPT ![t] = {node[evt[t]]}]
  /\ evt' = [evt EXCEPT ![t] = NULL]
  /\ pc' = [pc EXCEPT ![t] = "idle"]
  /\ UNCHANGED <<node, live, what, called>>

-----------------------------------------------------------------------------
(* AM_EVT_Unsubscribe.                                                     *)

\* The first node with exactly this key is unlinked; if there is none the
\* call returns an error and changes nothing.
AM_EVT_Unsubscribe(t, k) ==
  /\ pc[t] = "idle"
  /\ WriteLock
  /\ \E i \in DOMAIN events :
       /\ node[events[i]] = k
       /\ \A j \in 1 .. i - 1 : node[events[j]] # k
       /\ events' = RemoveAt(events, i)
       /\ evt' = [evt EXCEPT ![t] = events[i]]
       /\ owner' = [owner EXCEPT ![events[i]] = NULL]
  /\ pc' = [pc EXCEPT ![t] = "free"]
  /\ last' = [u \in Subscribers |->
                {j \in last[u] : j.event # k.event \/ j.cb # k.cb}]
  /\ UNCHANGED <<node, live, what, called>>

Free(n) == live' = live \ {n}

\* The node is freed after the lock is released.
FreeEvent(t) ==
  /\ pc[t] = "free"
  /\ Free(evt[t])
  /\ evt' = [evt EXCEPT ![t] = NULL]
  /\ pc' = [pc EXCEPT ![t] = "idle"]
  /\ UNCHANGED <<events, node, what, called, owner, last>>

-----------------------------------------------------------------------------
(* AM_EVT_Signal.                                                          *)

First == IF events = <<>> THEN NULL ELSE Head(events)

\* Mutants: the walk ends after one node; the walk does not advance.
FollowingNone(n) == NULL
FollowingSelf(n) == n

\* evt->next; a node that has left the list has no successor to rely on.
Following(n) ==
  LET i == SelectInSeq(events, LAMBDA m : m = n)
  IN  IF i \in 1..Len(events) - 1 THEN events[i + 1] ELSE NULL

SignalBegins(s, e) ==
  /\ pc[s] = "idle"
  /\ what' = [what EXCEPT ![s] = e]
  /\ evt' = [evt EXCEPT ![s] = First]
  /\ called' = [called EXCEPT ![s] = {}]
  /\ pc' = [pc EXCEPT ![s] = "walk"]
  /\ UNCHANGED <<events, node, live, owner, last>>

SignalVisits(s) ==
  /\ pc[s] = "walk"
  /\ evt[s] # NULL
  /\ \/ /\ node[evt[s]].event = what[s]
        /\ pc' = [pc EXCEPT ![s] = "incb"]
        /\ called' = [called EXCEPT ![s] = @ \cup {evt[s]}]
        /\ UNCHANGED evt
     \/ /\ node[evt[s]].event # what[s]
        /\ evt' = [evt EXCEPT ![s] = Following(evt[s])]
        /\ UNCHANGED <<pc, called>>
  /\ UNCHANGED <<events, node, live, what, owner, last>>

CallbackReturns(s) ==
  /\ pc[s] = "incb"
  /\ pc' = [pc EXCEPT ![s] = "walk"]
  /\ evt' = [evt EXCEPT ![s] = Following(evt[s])]
  /\ UNCHANGED <<events, node, live, what, called, owner, last>>

SignalReturns(s) ==
  /\ pc[s] = "walk"
  /\ evt[s] = NULL
  /\ pc' = [pc EXCEPT ![s] = "idle"]
  /\ called' = [called EXCEPT ![s] = {}]
  /\ UNCHANGED <<events, node, live, evt, what, owner, last>>

AM_EVT_Signal(s) == SignalVisits(s) \/ CallbackReturns(s) \/ SignalReturns(s)

-----------------------------------------------------------------------------
Next ==
  \/ \E t \in Subscribers :
       \/ InsertEvent(t) \/ FreeEvent(t)
       \/ \E k \in Keys :
            FilterRepeated(t, k) \/ AllocateEvent(t, k) \/ AM_EVT_Unsubscribe(t, k)
  \/ \E s \in Signallers :
       \/ AM_EVT_Signal(s)
       \/ \E e \in Events : SignalBegins(s, e)

Spec == Init /\ [][Next]_vars

\* Threads are scheduled and callbacks return; the lock is granted to a writer
\* that finds it free again and again.
Fairness ==
  /\ \A s \in Signallers : WF_vars(AM_EVT_Signal(s))
  /\ \A t \in Subscribers : SF_vars(InsertEvent(t)) /\ WF_vars(FreeEvent(t))

FairSpec == Spec /\ Fairness

-----------------------------------------------------------------------------
(* Properties.                                                             *)

\* A thread inside AM_EVT_Signal stands on a node that is linked: evt->next and
\* the callback's data are never read from memory that AM_EVT_Unsubscribe freed,
\* and a callback whose AM_EVT_Unsubscribe has returned does not run.
WalkerOnList ==
  \A s \in Signallers : pc[s] \in {"walk", "incb"} => evt[s] \in Listed \cup {NULL}

\* Every allocated node is linked once or in the hands of one thread.
NodesAccounted ==
  /\ live = Listed \cup {evt[t] : t \in {u \in Subscribers : pc[u] # "idle"}}
  /\ IsInjective(events)
  /\ \A t \in Subscribers : pc[t] # "idle" => evt[t] \notin Listed

\* When AM_EVT_Signal returns it has called every subscriber of its event.
SignalReachesAll ==
  [][\A s \in Signallers : pc[s] = "walk" /\ pc'[s] = "idle" =>
        called[s] = {n \in Listed : node[n].event = what[s]}]_vars

\* A callback that is listed twice for an event, or about to be, was subscribed
\* by two threads: the filter of AM_EVT_Subscribe looks in one critical section
\* for what another inserts, but a thread's own subscriptions, one after the other,
\* are never repeated, whatever the others do in between.
RepeatsFromRaces ==
  /\ \A m, n \in Listed :
       node[m].event = node[n].event /\ node[m].cb = node[n].cb /\ owner[m] = owner[n]
         => m = n
  /\ \A t \in Subscribers : pc[t] = "insert" =>
       \A n \in Listed :
         node[n].event = node[evt[t]].event /\ node[n].cb = node[evt[t]].cb
           => owner[n] # t

\* A callback for which AM_EVT_Subscribe returned success is registered for the
\* event, by this call or by the one that made it filter, until somebody
\* unsubscribes the callback from the event.
SubscribeTakesEffect ==
  \A t \in Subscribers : \A k \in last[t] :
    \E n \in Listed : node[n].event = k.event /\ node[n].cb = k.cb

\* The filter of AM_EVT_Subscribe, with its stale search and its blindness to the
\* data, never drops a callback that is not registered and lets a repetition
\* through only if two threads subscribe it.
SubscriptionsKept == RepeatsFromRaces /\ SubscribeTakesEffect

\* What the comment at line 86 promises, and what a client with several data may
\* expect; both fail with two subscribing threads or two data.
NoDuplicates ==
  \A m, n \in Listed :
    node[m].event = node[n].event /\ node[m].cb = node[n].cb => m = n

SubscribedWithData ==
  \A t \in Subscribers : \A k \in last[t] : \E n \in Listed : node[n] = k

\* No node is used after it was freed, and none is lost: neither by a walk nor
\* by the threads that link, unlink and free.
NodesSafe == WalkerOnList /\ NodesAccounted

\* Parts of the inductive invariant.  No two threads have the same node in hand.
HandsInv ==
  \A t \in Subscribers : pc[t] # "idle" =>
    /\ evt[t] \in Nodes
    /\ \A u \in Subscribers : pc[u] # "idle" /\ evt[u] = evt[t] => u = t

\* The i-th node of the list, NULL behind the last.
At(i) == IF i <= Len(events) THEN events[i] ELSE NULL

\* A walk stands at the i-th position and has called the subscribers of its event
\* up to there.
WalkAt(s, i) ==
  /\ evt[s] = At(i)
  /\ pc[s] = "incb" => i <= Len(events) /\ node[evt[s]].event = what[s]
  /\ \A n \in Nodes :
       n \in called[s] <=>
         \E j \in 1 .. Len(events) :
           /\ events[j] = n /\ node[n].event = what[s]
           /\ j < i \/ (j = i /\ pc[s] = "incb")

WalkInv ==
  \A s \in Signallers : pc[s] # "idle" => \E i \in 1 .. Len(events) + 1 : WalkAt(s, i)

IInv == TypeOK /\ NodesSafe /\ HandsInv /\ WalkInv

\* Two threads are inside AM_EVT_Signal, with the lock held for reading.
Overlap == \E r, s \in Signallers : r # s /\ pc[r] # "idle" /\ pc[s] # "idle"

\* A subscription in progress is completed unless walks overlap again and again,
\* so that readers keep the lock from the writer.
SubscribeCompletes ==
  \A t \in Subscribers : <>[](pc[t] = "insert") => []<>Overlap

\* AM_EVT_Signal returns.
SignalCompletes == \A s \in Signallers : pc[s] = "walk" ~> pc[s] = "idle"

\* A subscriber gets the write lock although walks hold the read lock over
\* their callbacks, unless readers relieve each other for ever, and a walk ends
\* although the list changes between walks.
CallsReturn == SubscribeCompletes /\ SignalCompletes
=============================================================================
