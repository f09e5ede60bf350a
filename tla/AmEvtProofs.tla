----------------------------- MODULE AmEvtProofs -----------------------------
(***************************************************************************)
(* Theorems about AmEvt for any number of threads, nodes and events.       *)
(***************************************************************************)
EXTENDS AmEvt, SequenceTheorems, TLAPS

-----------------------------------------------------------------------------
(* Lists.                                                                  *)

\* Unlinking the i-th element moves those behind it up.
LEMMA RemoveAtIs ==
  ASSUME NEW S, NEW s \in Seq(S), NEW i \in 1 .. Len(s)
  PROVE  /\ RemoveAt(s, i) \in Seq(S)
         /\ Len(RemoveAt(s, i)) = Len(s) - 1
         /\ \A j \in 1 .. Len(s) - 1 :
              RemoveAt(s, i)[j] = IF j < i THEN s[j] ELSE s[j + 1]
<1> DEFINE a == SubSeq(s, 1, i - 1)
           b == SubSeq(s, i + 1, Len(s))
<1>0. Len(s) \in Nat /\ i \in Nat /\ i <= Len(s) /\ i >= 1
  BY LenProperties
<1>1. /\ a \in Seq(S) /\ Len(a) = i - 1
      /\ \A j \in 1 .. i - 1 : a[j] = s[j]
  <2>1. 1 \in 1 .. Len(s) + 1 /\ i - 1 \in 0 .. Len(s)
    BY <1>0
  <2> QED BY <1>0, <2>1, SubSeqProperties
<1>2. /\ b \in Seq(S) /\ Len(b) = Len(s) - i
      /\ \A j \in 1 .. Len(s) - i : b[j] = s[i + j]
  <2>1. i + 1 \in 1 .. Len(s) + 1 /\ Len(s) \in i .. Len(s)
    BY <1>0
  <2> QED BY <1>0, <2>1, SubSeqProperties
<1> HIDE DEF a, b
<1>3. /\ a \o b \in Seq(S) /\ Len(a \o b) = Len(a) + Len(b)
      /\ \A j \in 1 .. Len(a) + Len(b) :
           (a \o b)[j] = IF j <= Len(a) THEN a[j] ELSE b[j - Len(a)]
  BY <1>1, <1>2, ConcatProperties
<1>4. RemoveAt(s, i) = a \o b
  BY DEF RemoveAt, a, b
<1>5. ASSUME NEW j \in 1 .. Len(s) - 1
      PROVE  (a \o b)[j] = IF j < i THEN s[j] ELSE s[j + 1]
  <2>1. CASE j < i
    BY <1>0, <1>1, <1>2, <1>3, <2>1
  <2>2. CASE ~(j < i)
    <3>1. j - (i - 1) \in 1 .. Len(s) - i /\ i + (j - (i - 1)) = j + 1
      BY <1>0, <2>2
    <3>2. (a \o b)[j] = b[j - (i - 1)]
      BY <1>0, <1>1, <1>2, <1>3, <2>2
    <3> QED BY <1>2, <2>2, <3>1, <3>2
  <2> QED BY <2>1, <2>2
<1>6. Len(a) + Len(b) = Len(s) - 1
  BY <1>0, <1>1, <1>2
<1>7. \A j \in 1 .. Len(s) - 1 : (a \o b)[j] = IF j < i THEN s[j] ELSE s[j + 1]
  BY <1>5
<1> QED BY <1>3, <1>4, <1>6, <1>7

\* From a list without repetitions an element disappears and nothing else.
LEMMA RemoveAtSet ==
  ASSUME NEW S, NEW s \in Seq(S), IsInjective(s), NEW i \in 1 .. Len(s)
  PROVE  /\ ToSet(RemoveAt(s, i)) = ToSet(s) \ {s[i]}
         /\ IsInjective(RemoveAt(s, i))
<1> DEFINE r == RemoveAt(s, i)
<1>0. Len(s) \in Nat /\ DOMAIN s = 1 .. Len(s)
  BY LenProperties
<1>1. /\ r \in Seq(S) /\ Len(r) = Len(s) - 1
      /\ \A j \in 1 .. Len(s) - 1 : r[j] = IF j < i THEN s[j] ELSE s[j + 1]
  BY RemoveAtIs
<1>2. DOMAIN r = 1 .. Len(s) - 1
  BY <1>1, LenProperties
<1> HIDE DEF r
<1>3. \A j, k \in 1 .. Len(s) : s[j] = s[k] => j = k
  BY <1>0 DEF IsInjective
<1>4. ASSUME NEW j \in 1 .. Len(s) - 1 PROVE r[j] \in ToSet(s) \ {s[i]}
  <2>1. j \in 1 .. Len(s) /\ j + 1 \in 1 .. Len(s)
    BY <1>0
  <2> QED BY <1>0, <1>1, <1>3, <2>1, SMTT(30) DEF ToSet
<1>5. ASSUME NEW x \in ToSet(s), x # s[i] PROVE \E j \in 1 .. Len(s) - 1 : r[j] = x
  <2>1. PICK k \in 1 .. Len(s) : s[k] = x
    BY <1>0 DEF ToSet
  <2>2. CASE k < i
    BY <1>0, <1>1, <2>1, <2>2
  <2>3. CASE k > i
    <3>1. k - 1 \in 1 .. Len(s) - 1 /\ ~(k - 1 < i) /\ (k - 1) + 1 = k
      BY <1>0, <2>3
    <3> QED BY <1>1, <2>1, <3>1
  <2> QED BY <1>5, <2>1, <2>2, <2>3
<1>6. IsInjective(r)
  <2> SUFFICES ASSUME NEW j \in 1 .. Len(s) - 1, NEW k \in 1 .. Len(s) - 1, r[j] = r[k]
               PROVE  j = k
    BY <1>2 DEF IsInjective
  <2>1. /\ j \in 1 .. Len(s) /\ j + 1 \in 1 .. Len(s)
        /\ k \in 1 .. Len(s) /\ k + 1 \in 1 .. Len(s)
    BY <1>0
  <2> QED BY <1>1, <1>3, <2>1
<1> QED BY <1>2, <1>4, <1>5, <1>6 DEF ToSet, r

\* Linking a new element in front.
LEMMA ConsSet ==
  ASSUME NEW S, NEW s \in Seq(S), IsInjective(s), NEW e \in S, e \notin ToSet(s)
  PROVE  /\ <<e>> \o s \in Seq(S)
         /\ ToSet(<<e>> \o s) = ToSet(s) \cup {e}
         /\ IsInjective(<<e>> \o s)
<1> DEFINE r == <<e>> \o s
<1>0. Len(s) \in Nat /\ DOMAIN s = 1 .. Len(s)
  BY LenProperties
<1>1. /\ r \in Seq(S) /\ Len(r) = 1 + Len(s)
      /\ \A j \in 1 .. 1 + Len(s) : r[j] = IF j = 1 THEN e ELSE s[j - 1]
  <2>1. <<e>> \in Seq(S) /\ Len(<<e>>) = 1 /\ <<e>>[1] = e
    OBVIOUS
  <2>2. /\ r \in Seq(S) /\ Len(r) = 1 + Len(s)
        /\ \A j \in 1 .. 1 + Len(s) : r[j] = IF j <= 1 THEN <<e>>[j] ELSE s[j - 1]
    BY <2>1, ConcatProperties
  <2> HIDE DEF r
  <2> QED BY <1>0, <2>1, <2>2
<1>2. DOMAIN r = 1 .. 1 + Len(s)
  BY <1>1, LenProperties
<1> HIDE DEF r
<1>3. ASSUME NEW j \in 1 .. 1 + Len(s)
      PROVE  \/ j = 1 /\ r[j] = e
             \/ j - 1 \in 1 .. Len(s) /\ r[j] = s[j - 1]
  <2>1. r[j] = IF j = 1 THEN e ELSE s[j - 1]
    BY <1>1
  <2>2. j # 1 => j - 1 \in 1 .. Len(s)
    BY <1>0
  <2> QED BY <2>1, <2>2
<1>4. ToSet(r) \subseteq ToSet(s) \cup {e}
  BY <1>0, <1>2, <1>3 DEF ToSet
<1>5. ToSet(s) \cup {e} \subseteq ToSet(r)
  <2>1. 1 \in 1 .. 1 + Len(s) /\ r[1] = e
    BY <1>0, <1>1
  <2>2. ASSUME NEW j \in 1 .. Len(s) PROVE j + 1 \in 1 .. 1 + Len(s) /\ r[j + 1] = s[j]
    BY <1>0, <1>1
  <2> QED BY <1>0, <1>2, <2>1, <2>2 DEF ToSet
<1>6. IsInjective(r)
  <2> SUFFICES ASSUME NEW j \in 1 .. 1 + Len(s), NEW k \in 1 .. 1 + Len(s), r[j] = r[k]
               PROVE  j = k
    BY <1>2 DEF IsInjective
  <2>1. \A m \in 1 .. Len(s) : s[m] # e
    BY <1>0 DEF ToSet
  <2>2. \A m, n \in 1 .. Len(s) : s[m] = s[n] => m = n
    BY <1>0 DEF IsInjective
  <2>3. /\ \/ j = 1 /\ r[j] = e
           \/ j - 1 \in 1 .. Len(s) /\ r[j] = s[j - 1]
        /\ \/ k = 1 /\ r[k] = e
           \/ k - 1 \in 1 .. Len(s) /\ r[k] = s[k - 1]
    BY <1>3
  <2>4. CASE j = 1 \/ k = 1
    BY <2>1, <2>3, <2>4
  <2>5. CASE j # 1 /\ k # 1
    <3>1. j - 1 = k - 1
      BY <2>2, <2>3, <2>5
    <3> QED BY <1>0, <3>1
  <2> QED BY <2>4, <2>5
<1> QED BY <1>1, <1>4, <1>5, <1>6 DEF r

\* evt->next of a linked node.
LEMMA FollowingIs ==
  ASSUME events \in Seq(Nodes), IsInjective(events), NEW i \in 1 .. Len(events)
  PROVE  Following(events[i]) = At(i + 1)
<1> DEFINE I == {j \in 1 .. Len(events) : events[j] = events[i]}
<1>0. Len(events) \in Nat /\ DOMAIN events = 1 .. Len(events)
  BY LenProperties
<1>1. I = {i}
  BY <1>0 DEF IsInjective
<1>2. Min(I) = i
  BY <1>0, <1>1 DEF Min
<1>3. SelectInSeq(events, LAMBDA m : m = events[i]) = i
  BY <1>1, <1>2 DEF SelectInSeq
<1> QED BY <1>0, <1>3 DEF Following, At

-----------------------------------------------------------------------------
(* The inductive invariant: one lemma per part, with one step per action.  *)

\* The disjuncts of Next.
LEMMA NextCases ==
  ASSUME [Next]_vars
  PROVE  \/ \E t \in Subscribers : InsertEvent(t) \/ FreeEvent(t)
         \/ \E t \in Subscribers, k \in Keys :
              FilterRepeated(t, k) \/ AllocateEvent(t, k) \/ AM_EVT_Unsubscribe(t, k)
         \/ \E s \in Signallers :
              SignalVisits(s) \/ CallbackReturns(s) \/ SignalReturns(s)
         \/ \E s \in Signallers, e \in Events : SignalBegins(s, e)
         \/ UNCHANGED vars
  BY DEF Next, AM_EVT_Signal

\* A walk begins at the first position.
LEMMA FirstIs ==
  ASSUME events \in Seq(Nodes)
  PROVE  First = At(1) /\ First \in Nodes \cup {NULL}
<1>1. Len(events) \in Nat /\ (events = <<>> <=> Len(events) = 0)
  BY LenProperties, EmptySeq
<1> QED BY <1>1 DEF First, At

\* A position of the list holds a node, the one behind the last holds none.
LEMMA AtType ==
  ASSUME events \in Seq(Nodes), NEW i \in 1 .. Len(events) + 1
  PROVE  /\ At(i) \in Nodes \cup {NULL}
         /\ i <= Len(events) => At(i) = events[i] /\ At(i) \in Listed
         /\ i > Len(events) => At(i) = NULL
<1>1. Len(events) \in Nat /\ DOMAIN events = 1 .. Len(events)
  BY LenProperties
<1>2. i <= Len(events) => i \in 1 .. Len(events)
  BY <1>1
<1> QED BY <1>1, <1>2 DEF At, Listed, ToSet

\* The node behind the one a walk stands on.
LEMMA FollowingType ==
  ASSUME TypeOK, IsInjective(events), NEW s \in Signallers, pc[s] # "idle",
         evt[s] \in Listed
  PROVE  Following(evt[s]) \in Listed \cup {NULL} /\ Following(evt[s]) \in Nodes \cup {NULL}
<1>1. events \in Seq(Nodes)
  BY DEF TypeOK
<1>2. Len(events) \in Nat /\ DOMAIN events = 1 .. Len(events)
  BY <1>1, LenProperties
<1>3. PICK i \in 1 .. Len(events) : events[i] = evt[s]
  BY <1>2 DEF Listed, ToSet
<1>4. Following(evt[s]) = At(i + 1) /\ i + 1 \in 1 .. Len(events) + 1
  BY <1>1, <1>2, <1>3, FollowingIs
<1> QED BY <1>1, <1>2, <1>4, AtType

\* A walk that visits a node, or is in its callback, stands in the list.
LEMMA VisitedListed ==
  ASSUME IInv, NEW s \in Signallers,
         pc[s] = "incb" \/ (pc[s] = "walk" /\ evt[s] # NULL)
  PROVE  evt[s] \in Listed
<1>1. CASE pc[s] = "walk" /\ evt[s] # NULL
  BY <1>1 DEF IInv, NodesSafe, WalkerOnList
<1>2. CASE pc[s] = "incb"
  <2>1. PICK i \in 1 .. Len(events) + 1 : evt[s] = At(i) /\ i <= Len(events)
    BY <1>2 DEF IInv, WalkInv, WalkAt
  <2> QED BY <2>1, AtType DEF IInv, TypeOK
<1> QED BY <1>1, <1>2

\* Unlinking: the list loses the node that the thread takes in hand.
LEMMA UnlinkStep ==
  ASSUME IInv, NEW t \in Subscribers, NEW k \in Keys, AM_EVT_Unsubscribe(t, k)
  PROVE  \E n \in Listed :
           /\ node[n] = k
           /\ evt' = [evt EXCEPT ![t] = n] /\ owner' = [owner EXCEPT ![n] = NULL]
           /\ events' \in Seq(Nodes) /\ IsInjective(events')
           /\ Listed' = Listed \ {n}
<1>1. events \in Seq(Nodes) /\ IsInjective(events)
  BY DEF IInv, TypeOK, NodesSafe, NodesAccounted
<1>2. DOMAIN events = 1 .. Len(events)
  BY <1>1, LenProperties
<1>3. PICK i \in 1 .. Len(events) :
        /\ node[events[i]] = k
        /\ events' = RemoveAt(events, i)
        /\ evt' = [evt EXCEPT ![t] = events[i]]
        /\ owner' = [owner EXCEPT ![events[i]] = NULL]
  BY <1>2 DEF AM_EVT_Unsubscribe
<1>4. events' \in Seq(Nodes)
  BY <1>1, <1>3, RemoveAtIs
<1>5. IsInjective(events') /\ Listed' = Listed \ {events[i]}
  BY <1>1, <1>3, RemoveAtSet DEF Listed
<1>6. events[i] \in Listed
  BY <1>2 DEF Listed, ToSet
<1> QED BY <1>3, <1>4, <1>5, <1>6

\* Linking: the list gains the node that the thread has in hand.
LEMMA LinkStep ==
  ASSUME IInv, NEW t \in Subscribers, InsertEvent(t)
  PROVE  /\ evt[t] \in Nodes /\ evt[t] \notin Listed
         /\ events' \in Seq(Nodes) /\ IsInjective(events')
         /\ Listed' = Listed \cup {evt[t]}
<1>1. events \in Seq(Nodes) /\ IsInjective(events)
  BY DEF IInv, TypeOK, NodesSafe, NodesAccounted
<1>2. evt[t] \in Nodes /\ evt[t] \notin Listed
  BY DEF IInv, HandsInv, NodesSafe, NodesAccounted, InsertEvent
<1>3. events' = <<evt[t]>> \o events
  BY DEF InsertEvent
<1> QED BY <1>1, <1>2, <1>3, ConsSet DEF Listed

\* The listed nodes are cells.
LEMMA ListedNodes ==
  ASSUME TypeOK
  PROVE  Listed \subseteq Nodes
<1>1. DOMAIN events = 1 .. Len(events) /\ events \in Seq(Nodes)
  BY LenProperties DEF TypeOK
<1> QED BY <1>1 DEF Listed, ToSet

\* Types.
LEMMA TypeStep ==
  ASSUME IInv, [Next]_vars
  PROVE  TypeOK'
<1>t. TypeOK
  BY DEF IInv
<1>s. Subscribers \subseteq Threads /\ Signallers \subseteq Threads
  BY DEF Threads
<1>u. \A t \in Subscribers : t \notin Signallers
  BY ThreadAssumption
<1>1. ASSUME NEW t \in Subscribers, InsertEvent(t) PROVE TypeOK'
  <2>1. events' \in Seq(Nodes) /\ evt[t] \in Nodes
    BY <1>1, LinkStep
  <2>2. last' \in [Subscribers -> {{}} \cup {{k} : k \in Keys}]
    BY <1>1, <1>t, <2>1 DEF InsertEvent, TypeOK
  <2>3. evt' \in [Threads -> Nodes \cup {NULL}]
    BY <1>1, <1>t DEF InsertEvent, TypeOK
  <2>4. owner' \in [Nodes -> Subscribers \cup {NULL}]
    BY <1>1, <1>t DEF InsertEvent, TypeOK
  <2> QED BY <1>1, <1>t, <1>s, <1>u, <2>1, <2>2, <2>3, <2>4 DEF InsertEvent, TypeOK
<1>2. ASSUME NEW t \in Subscribers, FreeEvent(t) PROVE TypeOK'
  BY <1>2, <1>t, <1>s, <1>u DEF FreeEvent, Free, TypeOK
<1>3. ASSUME NEW t \in Subscribers, NEW k \in Keys, FilterRepeated(t, k) PROVE TypeOK'
  BY <1>3, <1>t DEF FilterRepeated, TypeOK
<1>4. ASSUME NEW t \in Subscribers, NEW k \in Keys, AllocateEvent(t, k) PROVE TypeOK'
  <2>1. PICK n \in Nodes : /\ live' = live \cup {n}
                           /\ node' = [node EXCEPT ![n] = k]
                           /\ evt' = [evt EXCEPT ![t] = n]
    BY <1>4 DEF AllocateEvent, Malloc
  <2>2. /\ live' \subseteq Nodes /\ node' \in [Nodes -> Keys]
        /\ evt' \in [Threads -> Nodes \cup {NULL}]
    BY <1>t, <2>1 DEF TypeOK
  <2> QED BY <1>4, <1>t, <1>s, <1>u, <2>2 DEF AllocateEvent, TypeOK
<1>5. ASSUME NEW t \in Subscribers, NEW k \in Keys, AM_EVT_Unsubscribe(t, k) PROVE TypeOK'
  <2>1. PICK n \in Listed : /\ evt' = [evt EXCEPT ![t] = n] /\ events' \in Seq(Nodes)
                            /\ owner' = [owner EXCEPT ![n] = NULL]
    BY <1>5, UnlinkStep
  <2>2. evt' \in [Threads -> Nodes \cup {NULL}]
    BY <1>t, <2>1, ListedNodes DEF TypeOK
  <2>3. last' \in [Subscribers -> {{}} \cup {{j} : j \in Keys}]
    <3>1. last' = [u \in Subscribers |-> {j \in last[u] : j.event # k.event \/ j.cb # k.cb}]
      BY <1>5 DEF AM_EVT_Unsubscribe
    <3>2. ASSUME NEW u \in Subscribers
          PROVE  {j \in last[u] : j.event # k.event \/ j.cb # k.cb} \in {{}} \cup {{j} : j \in Keys}
      <4>1. last[u] = {} \/ \E j \in Keys : last[u] = {j}
        BY <1>t DEF TypeOK
      <4>2. CASE last[u] = {}
        BY <4>2
      <4>3. ASSUME NEW j \in Keys, last[u] = {j}
            PROVE  {i \in last[u] : i.event # k.event \/ i.cb # k.cb} \in {{}} \cup {{i} : i \in Keys}
        BY <4>3
      <4> QED BY <4>1, <4>2, <4>3
    <3> QED BY <3>1, <3>2
  <2>5. owner' \in [Nodes -> Subscribers \cup {NULL}]
    BY <1>t, <2>1 DEF TypeOK
  <2>4. /\ node' = node /\ live' = live /\ what' = what /\ called' = called
        /\ pc' = [pc EXCEPT ![t] = "free"]
    BY <1>5 DEF AM_EVT_Unsubscribe
  <2> QED BY <1>t, <1>s, <1>u, <2>1, <2>2, <2>3, <2>4, <2>5 DEF TypeOK
<1>6. ASSUME NEW s \in Signallers, SignalVisits(s) PROVE TypeOK'
  <2>1. evt[s] \in Listed /\ evt[s] \in Nodes
    BY <1>6, <1>t, VisitedListed, ListedNodes DEF SignalVisits
  <2>2. Following(evt[s]) \in Nodes \cup {NULL}
    BY <1>6, <1>t, <2>1, FollowingType DEF SignalVisits, IInv, NodesSafe, NodesAccounted
  <2>3. evt' \in [Threads -> Nodes \cup {NULL}]
    BY <1>6, <1>t, <2>2 DEF SignalVisits, TypeOK
  <2>4. called' \in [Signallers -> SUBSET Nodes]
    <3>1. called' = called \/ called' = [called EXCEPT ![s] = called[s] \cup {evt[s]}]
      BY <1>6 DEF SignalVisits
    <3>2. called \in [Signallers -> SUBSET Nodes]
      BY <1>t DEF TypeOK
    <3> QED BY <2>1, <3>1, <3>2
  <2>5. /\ events' = events /\ node' = node /\ live' = live /\ what' = what
        /\ owner' = owner /\ last' = last
        /\ pc' = pc \/ pc' = [pc EXCEPT ![s] = "incb"]
    BY <1>6 DEF SignalVisits
  <2> QED BY <1>t, <1>s, <1>u, <2>3, <2>4, <2>5 DEF TypeOK
<1>7. ASSUME NEW s \in Signallers, CallbackReturns(s) PROVE TypeOK'
  <2>1. evt[s] \in Listed
    BY <1>7, VisitedListed DEF CallbackReturns
  <2>2. Following(evt[s]) \in Nodes \cup {NULL}
    BY <1>7, <1>t, <2>1, FollowingType DEF CallbackReturns, IInv, NodesSafe, NodesAccounted
  <2>3. evt' \in [Threads -> Nodes \cup {NULL}]
    BY <1>7, <1>t, <2>2 DEF CallbackReturns, TypeOK
  <2> QED BY <1>7, <1>t, <1>s, <1>u, <2>3 DEF CallbackReturns, TypeOK
<1>8. ASSUME NEW s \in Signallers, SignalReturns(s) PROVE TypeOK'
  BY <1>8, <1>t, <1>s, <1>u DEF SignalReturns, TypeOK
<1>9. ASSUME NEW s \in Signallers, NEW e \in Events, SignalBegins(s, e) PROVE TypeOK'
  <2>1. First \in Nodes \cup {NULL}
    BY <1>t, FirstIs DEF TypeOK
  <2>2. evt' \in [Threads -> Nodes \cup {NULL}]
    BY <1>9, <1>t, <2>1 DEF SignalBegins, TypeOK
  <2> QED BY <1>9, <1>t, <1>s, <1>u, <2>2 DEF SignalBegins, TypeOK
<1>10. CASE UNCHANGED vars
  BY <1>10, <1>t DEF vars, TypeOK
<1> QED BY <1>1, <1>2, <1>3, <1>4, <1>5, <1>6, <1>7, <1>8, <1>9, <1>10, NextCases

\* Every node is linked or in one hand, and walks stay in the list.
LEMMA NodesStep ==
  ASSUME IInv, [Next]_vars
  PROVE  NodesSafe' /\ HandsInv'
<1>t. TypeOK
  BY DEF IInv
<1>i. WalkerOnList /\ NodesAccounted /\ HandsInv
  BY DEF IInv, NodesSafe
<1>s. Subscribers \subseteq Threads /\ Signallers \subseteq Threads
  BY DEF Threads
<1>u. \A t \in Subscribers : t \notin Signallers
  BY ThreadAssumption
<1>p. /\ pc \in [Threads -> {"idle", "insert", "free", "walk", "incb"}]
      /\ evt \in [Threads -> Nodes \cup {NULL}]
  BY <1>t DEF TypeOK
<1> USE DEF NodesSafe
<1>1. ASSUME NEW t \in Subscribers, InsertEvent(t) PROVE NodesSafe' /\ HandsInv'
  <2>1. /\ evt[t] \in Nodes /\ evt[t] \notin Listed /\ IsInjective(events')
        /\ Listed' = Listed \cup {evt[t]}
    BY <1>1, LinkStep
  <2>2. /\ pc[t] = "insert" /\ live' = live
        /\ pc' = [pc EXCEPT ![t] = "idle"] /\ evt' = [evt EXCEPT ![t] = NULL]
        /\ \A s \in Signallers : pc[s] = "idle"
    BY <1>1 DEF InsertEvent, WriteLock
  <2>3. /\ \A u \in Threads \ {t} : pc'[u] = pc[u] /\ evt'[u] = evt[u]
        /\ pc'[t] = "idle"
    BY <1>p, <1>s, <2>2
  <2>4. WalkerOnList'
    BY <1>s, <1>u, <2>2, <2>3 DEF WalkerOnList
  <2>5. HandsInv'
    BY <1>i, <1>s, <2>3 DEF HandsInv
  <2>6. live' = Listed' \cup {evt'[u] : u \in {v \in Subscribers : pc'[v] # "idle"}}
    <3>1. live = Listed \cup {evt[u] : u \in {v \in Subscribers : pc[v] # "idle"}}
      BY <1>i DEF NodesAccounted
    <3>2. {v \in Subscribers : pc[v] # "idle"} = {v \in Subscribers : pc'[v] # "idle"} \cup {t}
      BY <1>s, <2>2, <2>3
    <3>3. \A u \in {v \in Subscribers : pc'[v] # "idle"} : evt'[u] = evt[u]
      BY <1>s, <2>3
    <3> QED BY <2>1, <2>2, <3>1, <3>2, <3>3
  <2>7. \A u \in Subscribers : pc'[u] # "idle" => evt'[u] \notin Listed'
    <3>1. \A u \in Subscribers : pc'[u] # "idle" => u # t /\ evt'[u] = evt[u] /\ pc[u] # "idle"
      BY <1>s, <2>3
    <3> QED BY <1>i, <2>1, <2>2, <3>1 DEF HandsInv, NodesAccounted
  <2> QED BY <2>1, <2>4, <2>5, <2>6, <2>7 DEF NodesAccounted
<1>2. ASSUME NEW t \in Subscribers, FreeEvent(t) PROVE NodesSafe' /\ HandsInv'
  <2>2. /\ pc[t] = "free" /\ live' = live \ {evt[t]} /\ events' = events /\ Listed' = Listed
        /\ pc' = [pc EXCEPT ![t] = "idle"] /\ evt' = [evt EXCEPT ![t] = NULL]
    BY <1>2 DEF FreeEvent, Free, Listed
  <2>3. /\ \A u \in Threads \ {t} : pc'[u] = pc[u] /\ evt'[u] = evt[u]
        /\ pc'[t] = "idle"
    BY <1>p, <1>s, <2>2
  <2>4. WalkerOnList'
    BY <1>i, <1>s, <1>u, <2>2, <2>3 DEF WalkerOnList
  <2>5. HandsInv'
    BY <1>i, <1>s, <2>3 DEF HandsInv
  <2>6. live' = Listed' \cup {evt'[u] : u \in {v \in Subscribers : pc'[v] # "idle"}}
    <3>1. live = Listed \cup {evt[u] : u \in {v \in Subscribers : pc[v] # "idle"}}
      BY <1>i DEF NodesAccounted
    <3>2. {v \in Subscribers : pc[v] # "idle"} = {v \in Subscribers : pc'[v] # "idle"} \cup {t}
      BY <1>s, <2>2, <2>3
    <3>3. \A u \in {v \in Subscribers : pc'[v] # "idle"} : evt'[u] = evt[u] /\ evt[u] # evt[t]
      BY <1>i, <1>s, <2>2, <2>3 DEF HandsInv
    <3>4. evt[t] \notin Listed
      BY <1>i, <2>2 DEF NodesAccounted
    <3> QED BY <2>2, <3>1, <3>2, <3>3, <3>4
  <2>7. \A u \in Subscribers : pc'[u] # "idle" => evt'[u] \notin Listed'
    BY <1>i, <1>s, <2>2, <2>3 DEF NodesAccounted
  <2> QED BY <1>i, <2>2, <2>4, <2>5, <2>6, <2>7 DEF NodesAccounted
<1>3. ASSUME NEW t \in Subscribers, NEW k \in Keys, FilterRepeated(t, k)
      PROVE  NodesSafe' /\ HandsInv'
  BY <1>3, <1>i DEF FilterRepeated, WalkerOnList, NodesAccounted, HandsInv, Listed
<1>4. ASSUME NEW t \in Subscribers, NEW k \in Keys, AllocateEvent(t, k)
      PROVE  NodesSafe' /\ HandsInv'
  <2>1. PICK n \in Nodes : /\ n \notin live
                           /\ live' = live \cup {n}
                           /\ evt' = [evt EXCEPT ![t] = n]
    BY <1>4 DEF AllocateEvent, Malloc
  <2>2. /\ pc[t] = "idle" /\ events' = events /\ Listed' = Listed
        /\ pc' = [pc EXCEPT ![t] = "insert"]
    BY <1>4 DEF AllocateEvent, Listed
  <2>3. /\ \A u \in Threads \ {t} : pc'[u] = pc[u] /\ evt'[u] = evt[u]
        /\ pc'[t] = "insert" /\ evt'[t] = n
    BY <1>p, <1>s, <2>1, <2>2
  <2>l. live = Listed \cup {evt[u] : u \in {v \in Subscribers : pc[v] # "idle"}}
    BY <1>i DEF NodesAccounted
  <2>n. n \notin Listed /\ \A u \in Subscribers : pc[u] # "idle" => evt[u] # n
    BY <2>1, <2>l
  <2>4. WalkerOnList'
    BY <1>i, <1>s, <1>u, <2>2, <2>3 DEF WalkerOnList
  <2>5. HandsInv'
    BY <1>i, <1>s, <2>3, <2>n DEF HandsInv
  <2>6. live' = Listed' \cup {evt'[u] : u \in {v \in Subscribers : pc'[v] # "idle"}}
    <3>2. {v \in Subscribers : pc'[v] # "idle"} = {v \in Subscribers : pc[v] # "idle"} \cup {t}
      BY <1>s, <2>2, <2>3
    <3>3. \A u \in {v \in Subscribers : pc[v] # "idle"} : evt'[u] = evt[u]
      BY <1>s, <2>2, <2>3
    <3> QED BY <2>1, <2>2, <2>3, <2>l, <3>2, <3>3
  <2>7. \A u \in Subscribers : pc'[u] # "idle" => evt'[u] \notin Listed'
    BY <1>i, <1>s, <2>2, <2>3, <2>n DEF NodesAccounted
  <2> QED BY <1>i, <2>2, <2>4, <2>5, <2>6, <2>7 DEF NodesAccounted
<1>5. ASSUME NEW t \in Subscribers, NEW k \in Keys, AM_EVT_Unsubscribe(t, k)
      PROVE  NodesSafe' /\ HandsInv'
  <2>1. PICK n \in Listed : /\ evt' = [evt EXCEPT ![t] = n]
                            /\ IsInjective(events') /\ Listed' = Listed \ {n}
    BY <1>5, UnlinkStep
  <2>2. /\ pc[t] = "idle" /\ live' = live /\ pc' = [pc EXCEPT ![t] = "free"]
        /\ \A s \in Signallers : pc[s] = "idle"
    BY <1>5 DEF AM_EVT_Unsubscribe, WriteLock
  <2>3. /\ \A u \in Threads \ {t} : pc'[u] = pc[u] /\ evt'[u] = evt[u]
        /\ pc'[t] = "free" /\ evt'[t] = n
    BY <1>p, <1>s, <2>1, <2>2
  <2>n. n \in Nodes /\ \A u \in Subscribers : pc[u] # "idle" => evt[u] # n
    BY <1>i, <1>t, ListedNodes DEF NodesAccounted
  <2>4. WalkerOnList'
    BY <1>s, <1>u, <2>2, <2>3 DEF WalkerOnList
  <2>5. HandsInv'
    BY <1>i, <1>s, <2>3, <2>n DEF HandsInv
  <2>6. live' = Listed' \cup {evt'[u] : u \in {v \in Subscribers : pc'[v] # "idle"}}
    <3>1. live = Listed \cup {evt[u] : u \in {v \in Subscribers : pc[v] # "idle"}}
      BY <1>i DEF NodesAccounted
    <3>2. {v \in Subscribers : pc'[v] # "idle"} = {v \in Subscribers : pc[v] # "idle"} \cup {t}
      BY <1>s, <2>2, <2>3
    <3>3. \A u \in {v \in Subscribers : pc[v] # "idle"} : evt'[u] = evt[u]
      BY <1>s, <2>2, <2>3
    <3> QED BY <2>1, <2>2, <2>3, <3>1, <3>2, <3>3
  <2>7. \A u \in Subscribers : pc'[u] # "idle" => evt'[u] \notin Listed'
    BY <1>i, <1>s, <2>1, <2>2, <2>3 DEF NodesAccounted
  <2> QED BY <2>1, <2>4, <2>5, <2>6, <2>7 DEF NodesAccounted
\* A step of a walk moves its own position only.
<1>w. ASSUME NEW s \in Signallers,
             \A u \in Threads \ {s} : pc'[u] = pc[u] /\ evt'[u] = evt[u],
             events' = events, live' = live,
             evt'[s] \in Listed \cup {NULL} \/ pc'[s] = "idle"
      PROVE  NodesSafe' /\ HandsInv'
  <2>1. Listed' = Listed
    BY <1>w DEF Listed
  <2>2. \A u \in Subscribers : pc'[u] = pc[u] /\ evt'[u] = evt[u]
    BY <1>w, <1>s, <1>u
  <2>3. WalkerOnList'
    BY <1>i, <1>s, <1>w, <2>1 DEF WalkerOnList
  <2>4. HandsInv'
    BY <1>i, <2>2 DEF HandsInv
  <2>5. live' = Listed' \cup {evt'[u] : u \in {v \in Subscribers : pc'[v] # "idle"}}
    <3>1. live = Listed \cup {evt[u] : u \in {v \in Subscribers : pc[v] # "idle"}}
      BY <1>i DEF NodesAccounted
    <3>2. {v \in Subscribers : pc'[v] # "idle"} = {v \in Subscribers : pc[v] # "idle"}
      BY <2>2
    <3> QED BY <1>w, <2>1, <2>2, <3>1, <3>2
  <2>6. \A u \in Subscribers : pc'[u] # "idle" => evt'[u] \notin Listed'
    BY <1>i, <2>1, <2>2 DEF NodesAccounted
  <2> QED BY <1>i, <1>w, <2>3, <2>4, <2>5, <2>6 DEF NodesAccounted
<1>6. ASSUME NEW s \in Signallers, SignalVisits(s) PROVE NodesSafe' /\ HandsInv'
  <2>1. evt[s] \in Listed
    BY <1>6, VisitedListed DEF SignalVisits
  <2>2. Following(evt[s]) \in Listed \cup {NULL}
    BY <1>6, <1>t, <1>i, <2>1, FollowingType DEF SignalVisits, NodesAccounted
  <2>3. evt'[s] \in Listed \cup {NULL}
    BY <1>6, <1>p, <1>s, <2>1, <2>2 DEF SignalVisits
  <2>4. \A u \in Threads \ {s} : pc'[u] = pc[u] /\ evt'[u] = evt[u]
    BY <1>6, <1>p, <1>s DEF SignalVisits
  <2>5. events' = events /\ live' = live
    BY <1>6 DEF SignalVisits
  <2> QED BY <1>w, <2>3, <2>4, <2>5
<1>7. ASSUME NEW s \in Signallers, CallbackReturns(s) PROVE NodesSafe' /\ HandsInv'
  <2>1. evt[s] \in Listed
    BY <1>7, VisitedListed DEF CallbackReturns
  <2>2. Following(evt[s]) \in Listed \cup {NULL}
    BY <1>7, <1>t, <1>i, <2>1, FollowingType DEF CallbackReturns, NodesAccounted
  <2>3. evt'[s] \in Listed \cup {NULL}
    BY <1>7, <1>p, <1>s, <2>1, <2>2 DEF CallbackReturns
  <2>4. \A u \in Threads \ {s} : pc'[u] = pc[u] /\ evt'[u] = evt[u]
    BY <1>7, <1>p, <1>s DEF CallbackReturns
  <2>5. events' = events /\ live' = live
    BY <1>7 DEF CallbackReturns
  <2> QED BY <1>w, <2>3, <2>4, <2>5
<1>8. ASSUME NEW s \in Signallers, SignalReturns(s) PROVE NodesSafe' /\ HandsInv'
  <2>1. /\ \A u \in Threads \ {s} : pc'[u] = pc[u] /\ evt'[u] = evt[u]
        /\ pc'[s] = "idle" /\ events' = events /\ live' = live
    BY <1>8, <1>p, <1>s DEF SignalReturns
  <2> QED BY <1>w, <2>1
<1>9. ASSUME NEW s \in Signallers, NEW e \in Events, SignalBegins(s, e)
      PROVE  NodesSafe' /\ HandsInv'
  <2>1. First \in Listed \cup {NULL}
    <3>1. events \in Seq(Nodes) /\ Len(events) \in Nat
      BY <1>t, LenProperties DEF TypeOK
    <3>2. First = At(1) /\ 1 \in 1 .. Len(events) + 1
      BY <3>1, FirstIs
    <3> QED BY <3>1, <3>2, AtType
  <2>2. /\ \A u \in Threads \ {s} : pc'[u] = pc[u] /\ evt'[u] = evt[u]
        /\ evt'[s] = First /\ events' = events /\ live' = live
    BY <1>9, <1>p, <1>s DEF SignalBegins
  <2> QED BY <1>w, <2>1, <2>2
<1>10. CASE UNCHANGED vars
  BY <1>10, <1>i DEF vars, WalkerOnList, NodesAccounted, HandsInv, Listed
<1> QED BY <1>1, <1>2, <1>3, <1>4, <1>5, <1>6, <1>7, <1>8, <1>9, <1>10, NextCases

\* A walk keeps its place while others work on nodes that are not linked.
LEMMA WalkFrame ==
  ASSUME TypeOK, NEW s \in Signallers, NEW i \in 1 .. Len(events) + 1, WalkAt(s, i),
         events' = events, \A n \in Listed : node'[n] = node[n],
         pc'[s] = pc[s], evt'[s] = evt[s], what'[s] = what[s], called'[s] = called[s]
  PROVE  WalkAt(s, i)'
<1>1. events \in Seq(Nodes) /\ DOMAIN events = 1 .. Len(events) /\ Len(events) \in Nat
  BY LenProperties DEF TypeOK
<1>2. \A j \in 1 .. Len(events) : node'[events[j]] = node[events[j]]
  BY <1>1 DEF Listed, ToSet
<1>3. At(i)' = At(i)
  BY DEF At
<1>4. pc[s] = "incb" => i <= Len(events) /\ node'[evt[s]].event = what[s]
  <2> SUFFICES ASSUME pc[s] = "incb"
               PROVE  i <= Len(events) /\ node'[evt[s]].event = what[s]
    OBVIOUS
  <2>1. i <= Len(events) /\ node[evt[s]].event = what[s] /\ evt[s] = At(i)
    BY DEF WalkAt
  <2>2. evt[s] = events[i] /\ i \in 1 .. Len(events)
    BY <1>1, <2>1 DEF At
  <2> QED BY <1>2, <2>1, <2>2
<1>5. ASSUME NEW n \in Nodes
      PROVE  n \in called[s] <=>
               \E j \in 1 .. Len(events) :
                 /\ events[j] = n /\ node'[n].event = what[s]
                 /\ j < i \/ (j = i /\ pc[s] = "incb")
  BY <1>2 DEF WalkAt
<1> QED BY <1>3, <1>4, <1>5 DEF WalkAt

\* A walk that calls or passes the node at position i.
LEMMA WalkVisit ==
  ASSUME IInv, NEW s \in Signallers, pc[s] = "walk", NEW i \in 1 .. Len(events),
         WalkAt(s, i), events' = events, node' = node, what' = what, evt' = evt,
         node[evt[s]].event = what[s], pc'[s] = "incb",
         called'[s] = called[s] \cup {evt[s]}
  PROVE  WalkAt(s, i)'
<1>1. events \in Seq(Nodes) /\ DOMAIN events = 1 .. Len(events) /\ Len(events) \in Nat
  BY LenProperties DEF IInv, TypeOK
<1>2. evt[s] = events[i] /\ At(i)' = At(i) /\ evt[s] = At(i)
  BY <1>1 DEF WalkAt, At
<1>3. \A j \in 1 .. Len(events) : events[j] = events[i] => j = i
  BY <1>1 DEF IInv, NodesSafe, NodesAccounted, IsInjective
<1>4. ASSUME NEW n \in Nodes
      PROVE  n \in called'[s] <=>
               \E j \in 1 .. Len(events) :
                 /\ events[j] = n /\ node[n].event = what[s]
                 /\ j < i \/ j = i
  <2>1. n \in called[s] <=>
          \E j \in 1 .. Len(events) :
            /\ events[j] = n /\ node[n].event = what[s]
            /\ j < i
    BY DEF WalkAt
  <2>2. n \in called'[s] <=> n \in called[s] \/ n = events[i]
    BY <1>2
  <2>3. CASE n = events[i]
    BY <1>2, <2>2, <2>3
  <2>4. CASE n # events[i]
    BY <2>1, <2>2, <2>4
  <2> QED BY <2>3, <2>4
<1>5. i <= Len(events)
  BY <1>1
<1> QED BY <1>2, <1>4, <1>5 DEF WalkAt

\* A walk that goes on to the next node has dealt with the one at position i.
LEMMA WalkOn ==
  ASSUME IInv, NEW s \in Signallers, NEW i \in 1 .. Len(events), WalkAt(s, i),
         pc[s] = "incb" \/ node[evt[s]].event # what[s], pc[s] \in {"walk", "incb"},
         events' = events, node' = node, what' = what, called' = called,
         evt'[s] = Following(evt[s]), pc'[s] = "walk"
  PROVE  WalkAt(s, i + 1)' /\ i + 1 \in 1 .. Len(events) + 1
<1>1. /\ events \in Seq(Nodes) /\ DOMAIN events = 1 .. Len(events) /\ Len(events) \in Nat
      /\ IsInjective(events)
  BY LenProperties DEF IInv, TypeOK, NodesSafe, NodesAccounted
<1>2. evt[s] = events[i]
  BY <1>1 DEF WalkAt, At
<1>3. evt'[s] = At(i + 1) /\ At(i + 1)' = At(i + 1)
  BY <1>1, <1>2, FollowingIs DEF At
<1>4. i + 1 \in 1 .. Len(events) + 1
  BY <1>1
<1>5. \A j \in 1 .. Len(events) : j < i + 1 <=> j < i \/ j = i
  BY <1>1
<1>6. ASSUME NEW n \in Nodes
      PROVE  n \in called[s] <=>
               \E j \in 1 .. Len(events) :
                 /\ events[j] = n /\ node[n].event = what[s]
                 /\ j < i + 1
  <2>1. n \in called[s] <=>
          \E j \in 1 .. Len(events) :
            /\ events[j] = n /\ node[n].event = what[s]
            /\ j < i \/ (j = i /\ pc[s] = "incb")
    BY DEF WalkAt
  <2>2. CASE pc[s] = "incb"
    BY <1>5, <2>1, <2>2
  <2>3. CASE pc[s] # "incb"
    <3>1. node[events[i]].event # what[s]
      BY <1>2, <2>3
    <3> QED BY <1>5, <2>1, <2>3, <3>1
  <2> QED BY <2>2, <2>3
<1> QED BY <1>3, <1>4, <1>6 DEF WalkAt

\* A walk begins with nothing called.
LEMMA WalkBegins ==
  ASSUME TypeOK, NEW s \in Signallers, events' = events, evt'[s] = First,
         called'[s] = {}, pc'[s] = "walk"
  PROVE  WalkAt(s, 1)' /\ 1 \in 1 .. Len(events) + 1
<1>1. events \in Seq(Nodes) /\ Len(events) \in Nat
  BY LenProperties DEF TypeOK
<1>2. evt'[s] = At(1) /\ At(1)' = At(1)
  BY <1>1, FirstIs DEF At
<1>3. \A j \in 1 .. Len(events) : ~(j < 1)
  BY <1>1
<1> QED BY <1>1, <1>2, <1>3 DEF WalkAt

\* Where the walks are.
LEMMA WalkStep ==
  ASSUME IInv, [Next]_vars
  PROVE  WalkInv'
<1>t. TypeOK
  BY DEF IInv
<1>i. WalkInv
  BY DEF IInv
<1>s. Subscribers \subseteq Threads /\ Signallers \subseteq Threads
  BY DEF Threads
<1>u. \A t \in Subscribers : t \notin Signallers
  BY ThreadAssumption
<1>p. /\ pc \in [Threads -> {"idle", "insert", "free", "walk", "incb"}]
      /\ evt \in [Threads -> Nodes \cup {NULL}]
      /\ called \in [Signallers -> SUBSET Nodes]
      /\ what \in [Signallers -> Events]
  BY <1>t DEF TypeOK
\* The walks that do not move.
<1>f. ASSUME events' = events, \A n \in Listed : node'[n] = node[n],
             NEW s \in Signallers, pc'[s] # "idle",
             pc'[s] = pc[s], evt'[s] = evt[s], what'[s] = what[s], called'[s] = called[s]
      PROVE  \E i \in 1 .. Len(events') + 1 : WalkAt(s, i)'
  <2>1. PICK i \in 1 .. Len(events) + 1 : WalkAt(s, i)
    BY <1>f, <1>i DEF WalkInv
  <2> QED BY <1>f, <1>t, <2>1, WalkFrame
<1>1. ASSUME NEW t \in Subscribers, InsertEvent(t) PROVE WalkInv'
  <2>1. \A s \in Signallers : pc[s] = "idle" /\ pc'[s] = pc[s]
    BY <1>1, <1>p, <1>s, <1>u DEF InsertEvent, WriteLock
  <2> QED BY <2>1 DEF WalkInv
<1>2. ASSUME NEW t \in Subscribers, FreeEvent(t) PROVE WalkInv'
  <2>1. \A s \in Signallers : pc'[s] = pc[s] /\ evt'[s] = evt[s]
    BY <1>2, <1>p, <1>s, <1>u DEF FreeEvent
  <2>2. events' = events /\ node' = node /\ what' = what /\ called' = called
    BY <1>2 DEF FreeEvent
  <2> QED BY <1>f, <2>1, <2>2 DEF WalkInv
<1>3. ASSUME NEW t \in Subscribers, NEW k \in Keys, FilterRepeated(t, k) PROVE WalkInv'
  <2>1. /\ events' = events /\ node' = node /\ what' = what /\ called' = called
        /\ pc' = pc /\ evt' = evt
    BY <1>3 DEF FilterRepeated
  <2> QED BY <1>f, <2>1 DEF WalkInv
<1>4. ASSUME NEW t \in Subscribers, NEW k \in Keys, AllocateEvent(t, k) PROVE WalkInv'
  <2>1. PICK n \in Nodes \ live : node' = [node EXCEPT ![n] = k] /\ evt' = [evt EXCEPT ![t] = n]
    BY <1>4 DEF AllocateEvent, Malloc
  <2>2. \A m \in Listed : node'[m] = node[m]
    <3>1. Listed \subseteq live
      BY DEF IInv, NodesSafe, NodesAccounted
    <3> QED BY <1>t, <2>1, <3>1, ListedNodes DEF TypeOK
  <2>3. \A s \in Signallers : pc'[s] = pc[s] /\ evt'[s] = evt[s]
    BY <1>4, <1>p, <1>s, <1>u, <2>1 DEF AllocateEvent
  <2>4. events' = events /\ what' = what /\ called' = called
    BY <1>4 DEF AllocateEvent
  <2> QED BY <1>f, <2>2, <2>3, <2>4 DEF WalkInv
<1>5. ASSUME NEW t \in Subscribers, NEW k \in Keys, AM_EVT_Unsubscribe(t, k) PROVE WalkInv'
  <2>1. \A s \in Signallers : pc[s] = "idle" /\ pc'[s] = pc[s]
    BY <1>5, <1>p, <1>s, <1>u DEF AM_EVT_Unsubscribe, WriteLock
  <2> QED BY <2>1 DEF WalkInv
\* A walk that moves, and the others.
<1>w. ASSUME NEW s \in Signallers, events' = events, node' = node,
             \A u \in Signallers \ {s} : /\ pc'[u] = pc[u] /\ evt'[u] = evt[u]
                                         /\ what'[u] = what[u] /\ called'[u] = called[u],
             pc'[s] # "idle" => \E i \in 1 .. Len(events) + 1 : WalkAt(s, i)'
      PROVE  WalkInv'
  <2> SUFFICES ASSUME NEW u \in Signallers, pc'[u] # "idle"
               PROVE  \E i \in 1 .. Len(events') + 1 : WalkAt(u, i)'
    BY DEF WalkInv
  <2>1. CASE u = s
    BY <1>w, <2>1
  <2>2. CASE u # s
    BY <1>f, <1>w, <2>2
  <2> QED BY <2>1, <2>2
\* The position of a walk that stands on a node.
<1>v. ASSUME NEW s \in Signallers, pc[s] = "incb" \/ (pc[s] = "walk" /\ evt[s] # NULL)
      PROVE  \E i \in 1 .. Len(events) : WalkAt(s, i)
  <2>1. PICK i \in 1 .. Len(events) + 1 : WalkAt(s, i)
    BY <1>v, <1>i DEF WalkInv
  <2>2. events \in Seq(Nodes) /\ Len(events) \in Nat
    BY <1>t, LenProperties DEF TypeOK
  <2>3. evt[s] # NULL
    BY <1>v, <1>t, VisitedListed, ListedNodes, NodeAssumption
  <2>4. i <= Len(events)
    BY <2>1, <2>2, <2>3, AtType DEF WalkAt
  <2>5. i \in 1 .. Len(events)
    BY <2>2, <2>4
  <2> QED BY <2>1, <2>5
<1>6. ASSUME NEW s \in Signallers, SignalVisits(s) PROVE WalkInv'
  <2>1. PICK i \in 1 .. Len(events) : WalkAt(s, i)
    BY <1>6, <1>v DEF SignalVisits
  <2>2. events' = events /\ node' = node /\ what' = what
    BY <1>6 DEF SignalVisits
  <2>3. \A u \in Signallers \ {s} : /\ pc'[u] = pc[u] /\ evt'[u] = evt[u]
                                    /\ what'[u] = what[u] /\ called'[u] = called[u]
    BY <1>6, <1>p, <1>s DEF SignalVisits
  <2>4. CASE node[evt[s]].event = what[s]
    <3>1. evt' = evt /\ pc'[s] = "incb" /\ called'[s] = called[s] \cup {evt[s]}
      BY <1>6, <1>p, <1>s, <2>4 DEF SignalVisits
    <3>2. WalkAt(s, i)'
      BY <1>6, <2>1, <2>2, <2>4, <3>1, WalkVisit DEF SignalVisits
    <3>3. i \in 1 .. Len(events) + 1
      BY <1>t, LenProperties DEF TypeOK
    <3> QED BY <1>w, <2>2, <2>3, <3>2, <3>3
  <2>5. CASE node[evt[s]].event # what[s]
    <3>1. pc'[s] = "walk" /\ called' = called /\ evt'[s] = Following(evt[s])
      BY <1>6, <1>p, <1>s, <2>5 DEF SignalVisits
    <3>2. WalkAt(s, i + 1)' /\ i + 1 \in 1 .. Len(events) + 1
      BY <1>6, <2>1, <2>2, <2>5, <3>1, WalkOn DEF SignalVisits
    <3> QED BY <1>w, <2>2, <2>3, <3>2
  <2> QED BY <2>4, <2>5
<1>7. ASSUME NEW s \in Signallers, CallbackReturns(s) PROVE WalkInv'
  <2>1. PICK i \in 1 .. Len(events) : WalkAt(s, i)
    BY <1>7, <1>v DEF CallbackReturns
  <2>2. events' = events /\ node' = node /\ what' = what /\ called' = called /\ pc[s] = "incb"
    BY <1>7 DEF CallbackReturns
  <2>3. \A u \in Signallers \ {s} : /\ pc'[u] = pc[u] /\ evt'[u] = evt[u]
                                    /\ what'[u] = what[u] /\ called'[u] = called[u]
    BY <1>7, <1>p, <1>s DEF CallbackReturns
  <2>4. pc'[s] = "walk" /\ evt'[s] = Following(evt[s])
    BY <1>7, <1>p, <1>s DEF CallbackReturns
  <2>5. WalkAt(s, i + 1)' /\ i + 1 \in 1 .. Len(events) + 1
    BY <2>1, <2>2, <2>4, WalkOn
  <2> QED BY <1>w, <2>2, <2>3, <2>5
<1>8. ASSUME NEW s \in Signallers, SignalReturns(s) PROVE WalkInv'
  <2>1. /\ \A u \in Signallers \ {s} : /\ pc'[u] = pc[u] /\ evt'[u] = evt[u]
                                       /\ what'[u] = what[u] /\ called'[u] = called[u]
        /\ pc'[s] = "idle" /\ events' = events /\ node' = node
    BY <1>8, <1>p, <1>s DEF SignalReturns
  <2> QED BY <1>w, <2>1
<1>9. ASSUME NEW s \in Signallers, NEW e \in Events, SignalBegins(s, e) PROVE WalkInv'
  <2>1. /\ \A u \in Signallers \ {s} : /\ pc'[u] = pc[u] /\ evt'[u] = evt[u]
                                       /\ what'[u] = what[u] /\ called'[u] = called[u]
        /\ events' = events /\ node' = node
    BY <1>9, <1>p, <1>s DEF SignalBegins
  <2>2. evt'[s] = First /\ called'[s] = {} /\ pc'[s] = "walk"
    BY <1>9, <1>p, <1>s DEF SignalBegins
  <2>3. WalkAt(s, 1)' /\ 1 \in 1 .. Len(events) + 1
    BY <1>t, <2>1, <2>2, WalkBegins
  <2> QED BY <1>w, <2>1, <2>3
<1>10. CASE UNCHANGED vars
  BY <1>10, <1>f DEF vars, WalkInv
<1> QED BY <1>1, <1>2, <1>3, <1>4, <1>5, <1>6, <1>7, <1>8, <1>9, <1>10, NextCases

\* The nodes that are linked keep their keys as long as they are linked.
LEMMA KeysStep ==
  ASSUME IInv, [Next]_vars
  PROVE  \A n \in Listed : node'[n] = node[n]
<1>1. ASSUME NEW t \in Subscribers, NEW k \in Keys, AllocateEvent(t, k)
      PROVE  \A n \in Listed : node'[n] = node[n]
  <2>1. PICK n \in Nodes \ live : node' = [node EXCEPT ![n] = k]
    BY <1>1 DEF AllocateEvent, Malloc
  <2>2. Listed \subseteq live /\ Listed \subseteq Nodes
    BY ListedNodes DEF IInv, NodesSafe, NodesAccounted
  <2> QED BY <2>1, <2>2 DEF IInv, TypeOK
<1>2. \/ \E t \in Subscribers, k \in Keys : AllocateEvent(t, k)
      \/ node' = node
  <2>1. ASSUME NEW t \in Subscribers, InsertEvent(t) \/ FreeEvent(t) PROVE node' = node
    BY <2>1 DEF InsertEvent, FreeEvent
  <2>2. ASSUME NEW t \in Subscribers, NEW k \in Keys,
               FilterRepeated(t, k) \/ AM_EVT_Unsubscribe(t, k)
        PROVE  node' = node
    BY <2>2 DEF FilterRepeated, AM_EVT_Unsubscribe
  <2>3. ASSUME NEW s \in Signallers,
               SignalVisits(s) \/ CallbackReturns(s) \/ SignalReturns(s)
        PROVE  node' = node
    BY <2>3 DEF SignalVisits, CallbackReturns, SignalReturns
  <2>4. ASSUME NEW s \in Signallers, NEW e \in Events, SignalBegins(s, e) PROVE node' = node
    BY <2>4 DEF SignalBegins
  <2>5. CASE UNCHANGED vars
    BY <2>5 DEF vars
  <2> QED BY <2>1, <2>2, <2>3, <2>4, <2>5, NextCases
<1> QED BY <1>1, <1>2

\* What a thread is about to insert is not in the list with its name on it.
LEMMA RepeatsStep ==
  ASSUME IInv, RepeatsFromRaces, [Next]_vars
  PROVE  RepeatsFromRaces'
<1>t. TypeOK
  BY DEF IInv
<1>p. /\ pc \in [Threads -> {"idle", "insert", "free", "walk", "incb"}]
      /\ owner \in [Nodes -> Subscribers \cup {NULL}]
      /\ Listed \subseteq Nodes
  BY <1>t, ListedNodes DEF TypeOK
<1>s. Subscribers \subseteq Threads /\ Signallers \subseteq Threads
  BY DEF Threads
<1>u. \A t \in Subscribers : t \notin Signallers
  BY ThreadAssumption
\* Steps that link nothing and allocate nothing.
<1>f. ASSUME Listed' \subseteq Listed, node' = node,
             \A n \in Listed' : owner'[n] = owner[n],
             \A u \in Subscribers : pc'[u] = "insert" => pc[u] = "insert" /\ evt'[u] = evt[u]
      PROVE  RepeatsFromRaces'
  BY <1>f DEF RepeatsFromRaces
<1>1. ASSUME NEW t \in Subscribers, InsertEvent(t) PROVE RepeatsFromRaces'
  <2>1. Listed' = Listed \cup {evt[t]} /\ evt[t] \in Nodes /\ evt[t] \notin Listed
    BY <1>1, LinkStep
  <2>2. /\ pc[t] = "insert" /\ node' = node
        /\ \A u \in Subscribers : pc'[u] = "insert" =>
             u # t /\ pc[u] = "insert" /\ evt'[u] = evt[u]
    BY <1>1, <1>t, <1>p, <1>s DEF InsertEvent, TypeOK
  <2>3. /\ \A n \in Listed : owner'[n] = owner[n]
        /\ owner'[evt[t]] = t
    BY <1>1, <1>p, <2>1 DEF InsertEvent
  <2>4. \A n \in Listed :
          node[n].event = node[evt[t]].event /\ node[n].cb = node[evt[t]].cb => owner[n] # t
    BY <2>2 DEF RepeatsFromRaces
  <2>5. ASSUME NEW m \in Listed', NEW n \in Listed', node'[m].event = node'[n].event,
               node'[m].cb = node'[n].cb, owner'[m] = owner'[n]
        PROVE  m = n
    <3>1. CASE m \in Listed /\ n \in Listed
      BY <2>2, <2>3, <2>5, <3>1 DEF RepeatsFromRaces
    <3>2. CASE m = evt[t] /\ n \in Listed
      BY <2>2, <2>3, <2>4, <2>5, <3>2
    <3>3. CASE n = evt[t] /\ m \in Listed
      BY <2>2, <2>3, <2>4, <2>5, <3>3
    <3> QED BY <2>1, <3>1, <3>2, <3>3
  <2>6. ASSUME NEW u \in Subscribers, pc'[u] = "insert", NEW n \in Listed',
               node'[n].event = node'[evt'[u]].event, node'[n].cb = node'[evt'[u]].cb
        PROVE  owner'[n] # u
    <3>1. u # t /\ pc[u] = "insert" /\ evt'[u] = evt[u]
      BY <2>2, <2>6
    <3>2. CASE n \in Listed
      BY <2>2, <2>3, <2>6, <3>1, <3>2 DEF RepeatsFromRaces
    <3>3. CASE n = evt[t]
      BY <2>3, <3>1, <3>3
    <3> QED BY <2>1, <3>2, <3>3
  <2> QED BY <2>5, <2>6 DEF RepeatsFromRaces
<1>2. ASSUME NEW t \in Subscribers, FreeEvent(t) PROVE RepeatsFromRaces'
  <2>1. \A u \in Subscribers : pc'[u] = "insert" => pc[u] = "insert" /\ evt'[u] = evt[u]
    BY <1>2, <1>t, <1>p, <1>s DEF FreeEvent, TypeOK
  <2>2. Listed' = Listed /\ node' = node /\ owner' = owner
    BY <1>2 DEF FreeEvent, Listed
  <2> QED BY <1>f, <2>1, <2>2
<1>3. ASSUME NEW t \in Subscribers, NEW k \in Keys, FilterRepeated(t, k)
      PROVE  RepeatsFromRaces'
  <2>1. Listed' = Listed /\ node' = node /\ pc' = pc /\ evt' = evt /\ owner' = owner
    BY <1>3 DEF FilterRepeated, Listed
  <2> QED BY <1>f, <2>1
<1>4. ASSUME NEW t \in Subscribers, NEW k \in Keys, AllocateEvent(t, k)
      PROVE  RepeatsFromRaces'
  <2>1. PICK n \in Nodes \ live : node' = [node EXCEPT ![n] = k] /\ evt' = [evt EXCEPT ![t] = n]
    BY <1>4 DEF AllocateEvent, Malloc
  <2>2. /\ \A m \in Listed : ~(node[m].event = k.event /\ node[m].cb = k.cb)
        /\ pc' = [pc EXCEPT ![t] = "insert"] /\ Listed' = Listed /\ owner' = owner
    BY <1>4 DEF AllocateEvent, SameCb, Listed
  <2>3. \A m \in Listed : node'[m] = node[m]
    BY KeysStep
  <2>4. /\ evt'[t] = n /\ node'[n] = k
        /\ \A m \in Nodes \ {n} : node'[m] = node[m]
    BY <1>t, <1>s, <2>1 DEF TypeOK
  <2>5. ASSUME NEW u \in Subscribers, pc'[u] = "insert", NEW m \in Listed,
               node'[m].event = node'[evt'[u]].event, node'[m].cb = node'[evt'[u]].cb
        PROVE  owner[m] # u
    <3>1. CASE u = t
      BY <2>2, <2>3, <2>4, <2>5, <3>1
    <3>2. CASE u # t
      <4>1. pc[u] = "insert" /\ evt'[u] = evt[u]
        BY <1>t, <1>p, <1>s, <2>1, <2>2, <2>5, <3>2 DEF TypeOK
      <4>2. evt[u] \in live /\ evt[u] \in Nodes
        BY <4>1 DEF IInv, HandsInv, NodesSafe, NodesAccounted
      <4>3. node'[evt'[u]] = node[evt[u]]
        BY <2>1, <2>4, <4>1, <4>2
      <4> QED BY <2>3, <2>5, <4>1, <4>3 DEF RepeatsFromRaces
    <3> QED BY <3>1, <3>2
  <2> QED BY <2>2, <2>3, <2>5 DEF RepeatsFromRaces
<1>5. ASSUME NEW t \in Subscribers, NEW k \in Keys, AM_EVT_Unsubscribe(t, k)
      PROVE  RepeatsFromRaces'
  <2>1. PICK n \in Listed : /\ evt' = [evt EXCEPT ![t] = n] /\ Listed' = Listed \ {n}
                            /\ owner' = [owner EXCEPT ![n] = NULL]
    BY <1>5, UnlinkStep
  <2>2. pc' = [pc EXCEPT ![t] = "free"] /\ node' = node
    BY <1>5 DEF AM_EVT_Unsubscribe
  <2>3. \A u \in Subscribers : pc'[u] = "insert" => pc[u] = "insert" /\ evt'[u] = evt[u]
    BY <1>t, <1>p, <1>s, <2>1, <2>2 DEF TypeOK
  <2>4. \A m \in Listed' : owner'[m] = owner[m]
    BY <1>p, <2>1
  <2> QED BY <1>f, <2>1, <2>2, <2>3, <2>4
<1>6. ASSUME NEW s \in Signallers,
             SignalVisits(s) \/ CallbackReturns(s) \/ SignalReturns(s)
      PROVE  RepeatsFromRaces'
  <2>1. Listed' = Listed /\ node' = node /\ owner' = owner
    BY <1>6 DEF SignalVisits, CallbackReturns, SignalReturns, Listed
  <2>2. \A u \in Subscribers : pc'[u] = pc[u] /\ evt'[u] = evt[u]
    BY <1>6, <1>t, <1>s, <1>u DEF SignalVisits, CallbackReturns, SignalReturns, TypeOK
  <2> QED BY <1>f, <2>1, <2>2
<1>7. ASSUME NEW s \in Signallers, NEW e \in Events, SignalBegins(s, e)
      PROVE  RepeatsFromRaces'
  <2>1. Listed' = Listed /\ node' = node /\ owner' = owner
    BY <1>7 DEF SignalBegins, Listed
  <2>2. \A u \in Subscribers : pc'[u] = pc[u] /\ evt'[u] = evt[u]
    BY <1>7, <1>t, <1>s, <1>u DEF SignalBegins, TypeOK
  <2> QED BY <1>f, <2>1, <2>2
<1>8. CASE UNCHANGED vars
  <2>1. Listed' = Listed /\ node' = node /\ pc' = pc /\ evt' = evt /\ owner' = owner
    BY <1>8 DEF vars, Listed
  <2> QED BY <1>f, <2>1
<1> QED BY <1>1, <1>2, <1>3, <1>4, <1>5, <1>6, <1>7, <1>8, NextCases

\* A callback whose AM_EVT_Subscribe succeeded leaves the list only with an
\* AM_EVT_Unsubscribe of it.
LEMMA EffectStep ==
  ASSUME IInv, SubscribeTakesEffect, [Next]_vars
  PROVE  SubscribeTakesEffect'
<1>t. TypeOK
  BY DEF IInv
<1>l. last \in [Subscribers -> {{}} \cup {{k} : k \in Keys}]
  BY <1>t DEF TypeOK
<1>k. \A n \in Listed : node'[n] = node[n]
  BY KeysStep
<1>f. ASSUME Listed \subseteq Listed', last' = last PROVE SubscribeTakesEffect'
  BY <1>f, <1>k DEF SubscribeTakesEffect
<1>1. ASSUME NEW t \in Subscribers, InsertEvent(t) PROVE SubscribeTakesEffect'
  <2>1. Listed' = Listed \cup {evt[t]}
    BY <1>1, LinkStep
  <2>2. node' = node /\ last' = [last EXCEPT ![t] = {node[evt[t]]}]
    BY <1>1 DEF InsertEvent
  <2>3. \A u \in Subscribers : \A k \in last'[u] : k = node[evt[t]] \/ k \in last[u]
    BY <1>l, <2>2
  <2> QED BY <2>1, <2>2, <2>3 DEF SubscribeTakesEffect
<1>2. ASSUME NEW t \in Subscribers, FreeEvent(t) PROVE SubscribeTakesEffect'
  BY <1>2, <1>f DEF FreeEvent, Listed
<1>3. ASSUME NEW t \in Subscribers, NEW k \in Keys, FilterRepeated(t, k)
      PROVE  SubscribeTakesEffect'
  <2>1. PICK n \in Listed : node[n].event = k.event /\ node[n].cb = k.cb
    BY <1>3 DEF FilterRepeated, SameCb
  <2>4. Listed' = Listed /\ last' = [last EXCEPT ![t] = {k}]
    BY <1>3 DEF FilterRepeated, Listed
  <2>5. \A u \in Subscribers : \A j \in last'[u] : j = k \/ j \in last[u]
    BY <1>l, <2>4
  <2> QED BY <1>k, <2>1, <2>4, <2>5 DEF SubscribeTakesEffect
<1>4. ASSUME NEW t \in Subscribers, NEW k \in Keys, AllocateEvent(t, k)
      PROVE  SubscribeTakesEffect'
  <2>1. Listed' = Listed /\ last' = [last EXCEPT ![t] = {}]
    BY <1>4 DEF AllocateEvent, Listed
  <2>2. \A u \in Subscribers : \A j \in last'[u] : j \in last[u]
    BY <1>l, <2>1
  <2> QED BY <1>k, <2>1, <2>2 DEF SubscribeTakesEffect
<1>5. ASSUME NEW t \in Subscribers, NEW k \in Keys, AM_EVT_Unsubscribe(t, k)
      PROVE  SubscribeTakesEffect'
  <2>1. PICK n \in Listed : node[n] = k /\ Listed' = Listed \ {n}
    BY <1>5, UnlinkStep
  <2>2. last' = [u \in Subscribers |-> {j \in last[u] : j.event # k.event \/ j.cb # k.cb}]
    BY <1>5 DEF AM_EVT_Unsubscribe
  <2>3. ASSUME NEW u \in Subscribers, NEW j \in last'[u]
        PROVE  j \in last[u] /\ (j.event # k.event \/ j.cb # k.cb)
    BY <2>2, <2>3
  <2>4. ASSUME NEW u \in Subscribers, NEW j \in last'[u]
        PROVE  \E m \in Listed' : node'[m].event = j.event /\ node'[m].cb = j.cb
    <3>1. j \in last[u] /\ (j.event # k.event \/ j.cb # k.cb)
      BY <2>3
    <3>2. PICK m \in Listed : node[m].event = j.event /\ node[m].cb = j.cb
      BY <3>1 DEF SubscribeTakesEffect
    <3>3. m # n
      BY <2>1, <3>1, <3>2
    <3> QED BY <1>k, <2>1, <3>2, <3>3
  <2> QED BY <2>4 DEF SubscribeTakesEffect
<1>6. ASSUME NEW s \in Signallers,
             SignalVisits(s) \/ CallbackReturns(s) \/ SignalReturns(s)
      PROVE  SubscribeTakesEffect'
  BY <1>6, <1>f DEF SignalVisits, CallbackReturns, SignalReturns, Listed
<1>7. ASSUME NEW s \in Signallers, NEW e \in Events, SignalBegins(s, e)
      PROVE  SubscribeTakesEffect'
  BY <1>7, <1>f DEF SignalBegins, Listed
<1>8. CASE UNCHANGED vars
  BY <1>8, <1>f DEF vars, Listed
<1> QED BY <1>1, <1>2, <1>3, <1>4, <1>5, <1>6, <1>7, <1>8, NextCases

-----------------------------------------------------------------------------
(* The theorems.                                                           *)

\* The list is empty at first.
LEMMA InitListed ==
  ASSUME Init
  PROVE  events \in Seq(Nodes) /\ Listed = {} /\ IsInjective(events) /\ Len(events) = 0
<1>1. events = <<>>
  BY DEF Init
<1>2. events \in Seq(Nodes) /\ Len(events) = 0
  BY <1>1
<1>3. DOMAIN events = {}
  BY <1>2, LenProperties
<1> QED BY <1>2, <1>3 DEF Listed, ToSet, IsInjective

\* Nodes are linked or in one hand, and every walk has called the subscribers of
\* its event up to where it stands: the inductive invariant.
THEOREM Invariance == Spec => []IInv
<1>1. Init => TypeOK
  <2> SUFFICES ASSUME Init PROVE TypeOK
    OBVIOUS
  <2>1. events \in Seq(Nodes)
    BY InitListed
  <2>2. node \in [Nodes -> Keys] /\ live \subseteq Nodes
    BY DEF Init
  <2>3. Subscribers \subseteq Threads /\ Signallers \subseteq Threads
    BY DEF Threads
  <2>4. /\ pc \in [Threads -> {"idle", "insert", "free", "walk", "incb"}]
        /\ \A t \in Threads : pc[t] = "idle"
        /\ evt \in [Threads -> Nodes \cup {NULL}]
    BY DEF Init
  <2>5. /\ what \in [Signallers -> Events] /\ called \in [Signallers -> SUBSET Nodes]
        /\ owner \in [Nodes -> Subscribers \cup {NULL}]
        /\ last \in [Subscribers -> {{}} \cup {{k} : k \in Keys}]
    BY DEF Init
  <2> QED BY <2>1, <2>2, <2>3, <2>4, <2>5 DEF TypeOK
<1>2. Init => NodesSafe /\ HandsInv /\ WalkInv
  <2> SUFFICES ASSUME Init PROVE NodesSafe /\ HandsInv /\ WalkInv
    OBVIOUS
  <2>1. \A t \in Threads : pc[t] = "idle"
    BY DEF Init
  <2>2. /\ \A t \in Subscribers : pc[t] = "idle"
        /\ \A s \in Signallers : pc[s] = "idle"
    BY <2>1 DEF Threads
  <2>3. live = {} /\ Listed = {} /\ IsInjective(events)
    BY InitListed DEF Init
  <2> QED BY <2>2, <2>3 DEF NodesSafe, WalkerOnList, NodesAccounted, HandsInv, WalkInv
<1>3. IInv /\ [Next]_vars => IInv'
  BY TypeStep, NodesStep, WalkStep DEF IInv
<1> QED BY <1>1, <1>2, <1>3, PTL DEF Spec, IInv

\* The list, the nodes and the threads' positions keep their types.
THEOREM TypeCorrect == Spec => []TypeOK
<1>1. IInv => TypeOK
  BY DEF IInv
<1> QED BY <1>1, Invariance, PTL

\* No node of the table is used after AM_EVT_Unsubscribe freed it, and none is
\* lost, for any number of threads, events and callbacks.
THEOREM NodesCorrect == Spec => []NodesSafe
<1>1. IInv => NodesSafe
  BY DEF IInv
<1> QED BY <1>1, Invariance, PTL

\* When AM_EVT_Signal returns it has called every subscriber of its event.
THEOREM SignalCorrect == Spec => SignalReachesAll
<1>1. ASSUME IInv, [Next]_vars, NEW s \in Signallers, pc[s] = "walk", pc'[s] = "idle"
      PROVE  called[s] = {n \in Listed : node[n].event = what[s]}
  <2>p. /\ pc \in [Threads -> {"idle", "insert", "free", "walk", "incb"}]
        /\ Subscribers \subseteq Threads /\ Signallers \subseteq Threads
        /\ \A t \in Subscribers : t \notin Signallers
    BY <1>1, ThreadAssumption DEF IInv, TypeOK, Threads
  <2>1. evt[s] = NULL
    <3>1. ASSUME NEW t \in Subscribers, InsertEvent(t) \/ FreeEvent(t) PROVE FALSE
      BY <1>1, <2>p, <3>1 DEF InsertEvent, FreeEvent
    <3>2. ASSUME NEW t \in Subscribers, NEW k \in Keys,
                 FilterRepeated(t, k) \/ AllocateEvent(t, k) \/ AM_EVT_Unsubscribe(t, k)
          PROVE  FALSE
      BY <1>1, <2>p, <3>2 DEF FilterRepeated, AllocateEvent, AM_EVT_Unsubscribe
    <3>3. ASSUME NEW u \in Signallers, SignalVisits(u) \/ CallbackReturns(u) PROVE FALSE
      BY <1>1, <2>p, <3>3 DEF SignalVisits, CallbackReturns
    <3>4. ASSUME NEW u \in Signallers, NEW e \in Events, SignalBegins(u, e) PROVE FALSE
      BY <1>1, <2>p, <3>4 DEF SignalBegins
    <3>5. ASSUME NEW u \in Signallers, SignalReturns(u) PROVE evt[s] = NULL
      BY <1>1, <2>p, <3>5 DEF SignalReturns
    <3>6. CASE UNCHANGED vars
      BY <1>1, <3>6 DEF vars
    <3> QED BY <1>1, <3>1, <3>2, <3>3, <3>4, <3>5, <3>6, NextCases
  <2>2. PICK i \in 1 .. Len(events) + 1 : WalkAt(s, i)
    BY <1>1 DEF IInv, WalkInv
  <2>3. events \in Seq(Nodes) /\ Len(events) \in Nat /\ DOMAIN events = 1 .. Len(events)
    BY <1>1, LenProperties DEF IInv, TypeOK
  <2>4. i > Len(events)
    <3>1. i <= Len(events) => At(i) \in Listed
      BY <2>3, AtType
    <3>2. NULL \notin Listed
      BY <1>1, ListedNodes, NodeAssumption DEF IInv
    <3> QED BY <2>1, <2>2, <2>3, <3>1, <3>2 DEF WalkAt
  <2>5. \A j \in 1 .. Len(events) : j < i
    BY <2>3, <2>4
  <2>6. called[s] \subseteq Nodes /\ Listed \subseteq Nodes
    BY <1>1, ListedNodes DEF IInv, TypeOK
  <2>7. \A n \in Nodes : n \in Listed <=> \E j \in 1 .. Len(events) : events[j] = n
    BY <2>3 DEF Listed, ToSet
  <2>8. \A n \in Nodes : n \in called[s] <=> n \in Listed /\ node[n].event = what[s]
    BY <1>1, <2>2, <2>5, <2>7 DEF WalkAt
  <2> QED BY <2>6, <2>8
<1>2. IInv /\ [Next]_vars =>
        \A s \in Signallers : pc[s] = "walk" /\ pc'[s] = "idle" =>
          called[s] = {n \in Listed : node[n].event = what[s]}
  BY <1>1
<1> QED BY <1>2, Invariance, PTL DEF Spec, SignalReachesAll

\* For any number of threads, callbacks and data: a thread's own subscriptions are
\* never repeated in the list, whatever the others do between its search and its
\* insertion, so that a repetition takes two threads.
THEOREM RepeatsCorrect == Spec => []RepeatsFromRaces
<1>1. Init => RepeatsFromRaces
  <2> SUFFICES ASSUME Init PROVE RepeatsFromRaces
    OBVIOUS
  <2>1. \A t \in Subscribers : pc[t] = "idle"
    BY DEF Init, Threads
  <2> QED BY <2>1, InitListed DEF RepeatsFromRaces
<1>2. IInv /\ RepeatsFromRaces /\ [Next]_vars => RepeatsFromRaces'
  BY RepeatsStep
<1> QED BY <1>1, <1>2, Invariance, PTL DEF Spec

\* The filter of AM_EVT_Subscribe, with its stale search and its blindness to the
\* data, drops no callback that is not registered, and repeats one only if two
\* threads subscribe it.
THEOREM SubscriptionsCorrect == Spec => []SubscriptionsKept
<1>1. Init => SubscribeTakesEffect
  BY DEF Init, SubscribeTakesEffect
<1>2. IInv /\ SubscribeTakesEffect /\ [Next]_vars => SubscribeTakesEffect'
  BY EffectStep
<1>3. RepeatsFromRaces /\ SubscribeTakesEffect => SubscriptionsKept
  BY DEF SubscriptionsKept
<1> QED BY <1>1, <1>2, <1>3, RepeatsCorrect, Invariance, PTL DEF Spec
=============================================================================
