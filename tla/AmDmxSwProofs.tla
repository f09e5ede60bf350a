---------------------------- MODULE AmDmxSwProofs ----------------------------
(***************************************************************************)
(* Theorems about AmDmxSw for any number of filters, channels and pids,    *)
(* any sections and any size of packets.                                   *)
(***************************************************************************)
EXTENDS AmDmxSw, SequenceTheorems, FiniteSetTheorems, TLAPS

-----------------------------------------------------------------------------
(* Numbers and sets.                                                       *)

\* A set of natural numbers has a least element.
LEMMA NatMin ==
  ASSUME NEW T \in SUBSET Nat, T # {}
  PROVE  \E x \in T : \A y \in T : x <= y
<1> DEFINE R == OpToRel(<, Nat)
<1>1. IsWellFoundedOn(R, Nat)
  BY NatLessThanWellFounded
<1> HIDE DEF R
<1>2. PICK x \in T : \A y \in T : ~(<<y, x>> \in R)
  BY <1>1, WFMin
<1>3. ASSUME NEW y \in T PROVE x <= y
  <2>1. R = {ss \in Nat \X Nat : ss[1] < ss[2]}
    BY DEF R, OpToRel
  <2>2. ~(<<y, x>> \in R)
    BY <1>2
  <2>3. ~(y < x)
    BY <2>1, <2>2
  <2> QED BY <2>3
<1> QED BY <1>3

\* The loops of the driver take the first entry of a table.
LEMMA LeastIs ==
  ASSUME NEW T \in SUBSET Nat, T # {}
  PROVE  Least(T) \in T /\ \A y \in T : Least(T) <= y
<1>1. \E x \in T : \A y \in T : x <= y
  BY NatMin
<1> QED BY <1>1 DEF Least

\* The tables of filters and channels are finite and start at one.
LEMMA Numbers ==
  /\ Filters \subseteq Nat /\ Channels \subseteq Nat
  /\ 0 \notin Filters /\ 0 \notin Channels
  /\ IsFiniteSet(Filters) /\ Cardinality(Filters) = FilterCount
<1>1. FilterCount \in Nat /\ ChannelCount \in Nat
  BY CountAssumption
<1>2. IsFiniteSet(Filters) /\ Cardinality(Filters) = IF 1 > FilterCount THEN 0
                                                     ELSE FilterCount - 1 + 1
  BY <1>1, FS_Interval DEF Filters
<1>3. Cardinality(Filters) = FilterCount
  BY <1>1, <1>2
<1> QED BY <1>1, <1>2, <1>3 DEF Filters, Channels

\* The disjuncts of Next.
LEMMA NextCases ==
  ASSUME [Next]_vars
  PROVE  \/ \E f \in Filters :
              \/ AllocFilter(f) \/ SetSecFilter(f) \/ StartFilter(f)
              \/ StopFilter(f) \/ FreeFilter(f) \/ Sync(f)
         \/ \E p \in Pids : PacketArrives(p) \/ PacketLost(p)
         \/ ParseBeforeStart \/ ParseSection \/ CallbackReturns \/ PacketDone
         \/ UNCHANGED vars
  BY DEF Next, Thread, Client

\* dvr_find_channel: a used channel of the pid, or an unused one if there is none.
LEMMA FoundChannel ==
  ASSUME NEW pid, NEW c \in FindChannel(pid)
  PROVE  /\ c \in Channels
         /\ \/ channel[c].used > 0 /\ channel[c].pid = pid
            \/ /\ channel[c].used = 0
               /\ ~\E d \in Channels : channel[d].used > 0 /\ channel[d].pid = pid
<1> DEFINE same == {d \in Channels : channel[d].used > 0 /\ channel[d].pid = pid}
           idle == {d \in Channels : channel[d].used = 0}
<1>1. same \in SUBSET Nat /\ idle \in SUBSET Nat
  BY Numbers
<1>2. CASE same # {}
  <2>1. c = Least(same)
    BY <1>2 DEF FindChannel
  <2>2. Least(same) \in same
    <3> HIDE DEF same
    <3> QED BY <1>1, <1>2, LeastIs
  <2> QED BY <2>1, <2>2
<1>3. CASE same = {}
  <2>1. idle # {} /\ c = Least(idle)
    BY <1>3 DEF FindChannel
  <2>2. Least(idle) \in idle
    <3> HIDE DEF idle
    <3> QED BY <1>1, <2>1, LeastIs
  <2> QED BY <1>3, <2>1, <2>2
<1> QED BY <1>2, <1>3

-----------------------------------------------------------------------------
(* Filters.                                                                *)

FilterRec == [used : BOOLEAN, enable : BOOLEAN, pid : Pids \cup {NoPid},
              tables : TableSets \cup {{}}, chan : Channels \cup {0}]

\* One filter changes.
LEMMA FilterChange ==
  ASSUME FilterInv, NEW f \in Filters, NEW x \in FilterRec,
         filter' = [filter EXCEPT ![f] = x],
         x.enable => x.used /\ x.pid # NoPid /\ x.chan \in Channels
  PROVE  /\ FilterInv' /\ filter'[f] = x
         /\ \A g \in Filters : g # f => filter'[g] = filter[g]
<1>1. filter \in [Filters -> FilterRec]
  BY DEF FilterInv, FilterRec
<1>2. filter' \in [Filters -> FilterRec] /\ filter'[f] = x
      /\ \A g \in Filters : g # f => filter'[g] = filter[g]
  BY <1>1
<1> QED BY <1>2 DEF FilterInv, FilterRec

\* What a client's call does to its filter.
LEMMA FilterCalls ==
  ASSUME FilterInv, NEW f \in Filters,
         \/ AllocFilter(f) \/ SetSecFilter(f) \/ StartFilter(f)
         \/ StopFilter(f) \/ FreeFilter(f) \/ Sync(f)
  PROVE  /\ FilterInv'
         /\ \A g \in Filters : g # f => filter'[g] = filter[g]
<1>0. filter \in [Filters -> FilterRec] /\ filter[f] \in FilterRec
  BY DEF FilterInv, FilterRec
<1>1. CASE AllocFilter(f)
  <2> DEFINE x == [filter[f] EXCEPT !.used = TRUE, !.pid = NoPid]
  <2>1. filter' = [filter EXCEPT ![f] = x]
    BY <1>0, <1>1 DEF AllocFilter
  <2>2. x \in FilterRec /\ x.enable = filter[f].enable
    BY <1>0 DEF FilterRec
  <2>3. ~filter[f].enable
    BY <1>1 DEF AllocFilter, FilterInv
  <2> HIDE DEF x
  <2> QED BY <2>1, <2>2, <2>3, FilterChange
<1>2. CASE SetSecFilter(f)
  <2>1. PICK pid \in Pids, tables \in TableSets :
          filter' = [filter EXCEPT ![f].enable = FALSE, ![f].pid = pid, ![f].tables = tables]
    BY <1>2 DEF SetSecFilter
  <2> DEFINE x == [filter[f] EXCEPT !.enable = FALSE, !.pid = pid, !.tables = tables]
  <2>2. filter' = [filter EXCEPT ![f] = x]
    BY <1>0, <2>1
  <2>3. x \in FilterRec /\ x.enable = FALSE
    BY <1>0 DEF FilterRec
  <2> HIDE DEF x
  <2> QED BY <2>2, <2>3, FilterChange
<1>3. CASE StartFilter(f)
  <2>1. PICK c \in FindChannel(filter[f].pid) :
          filter' = [filter EXCEPT ![f].enable = TRUE, ![f].chan = c]
    BY <1>3 DEF StartFilter
  <2>2. c \in Channels
    BY FoundChannel
  <2> DEFINE x == [filter[f] EXCEPT !.enable = TRUE, !.chan = c]
  <2>3. filter' = [filter EXCEPT ![f] = x]
    BY <1>0, <2>1
  <2>4. x \in FilterRec /\ x.used = filter[f].used /\ x.pid = filter[f].pid /\ x.chan = c
    BY <1>0, <2>2 DEF FilterRec
  <2>5. filter[f].used /\ filter[f].pid # NoPid
    BY <1>3 DEF StartFilter
  <2> HIDE DEF x
  <2> QED BY <2>2, <2>3, <2>4, <2>5, FilterChange
<1>4. CASE StopFilter(f)
  <2> DEFINE x == [filter[f] EXCEPT !.enable = FALSE]
  <2>1. filter' = [filter EXCEPT ![f] = x]
    BY <1>0, <1>4 DEF StopFilter
  <2>2. x \in FilterRec /\ x.enable = FALSE
    BY <1>0 DEF FilterRec
  <2> HIDE DEF x
  <2> QED BY <2>1, <2>2, FilterChange
<1>5. CASE FreeFilter(f)
  <2> DEFINE x == [filter[f] EXCEPT !.enable = FALSE, !.used = FALSE]
  <2>1. filter' = [filter EXCEPT ![f] = x]
    BY <1>0, <1>5 DEF FreeFilter
  <2>2. x \in FilterRec /\ x.enable = FALSE
    BY <1>0 DEF FilterRec
  <2> HIDE DEF x
  <2> QED BY <2>1, <2>2, FilterChange
<1>6. CASE Sync(f)
  BY <1>6 DEF Sync, FilterInv
<1> QED BY <1>1, <1>2, <1>3, <1>4, <1>5, <1>6

-----------------------------------------------------------------------------
(* Channels: use counts and taps.                                          *)

ChannelRec == [used : Nat, pid : Pids \cup {NoPid}, buf : Seq(ByteSet)]
Typed == channel \in [Channels -> ChannelRec]
On(c) == {f \in Filters : filter[f].enable /\ filter[f].chan = c}

\* A channel is used more or less often.
LEMMA CountChange ==
  ASSUME NEW r \in ChannelRec, NEW n \in Nat
  PROVE  LET x == [r EXCEPT !.used = n]
         IN  x \in ChannelRec /\ x.used = n /\ x.pid = r.pid /\ x.buf = r.buf
<1> DEFINE B == Seq(ByteSet)
           P == Pids \cup {NoPid}
<1>1. r \in [used : Nat, pid : P, buf : B]
  BY DEF ChannelRec
<1>2. ChannelRec = [used : Nat, pid : P, buf : B]
  BY DEF ChannelRec
<1> HIDE DEF B, P
<1> QED BY <1>1, <1>2

\* The set of running filters of a channel is finite.
LEMMA OnFinite ==
  ASSUME NEW c
  PROVE  IsFiniteSet(On(c)) /\ Cardinality(On(c)) \in Nat /\ Cardinality(On(c)) <= FilterCount
<1>1. On(c) \subseteq Filters
  BY DEF On
<1>2. IsFiniteSet(Filters) /\ Cardinality(Filters) = FilterCount
  BY Numbers
<1>3. IsFiniteSet(On(c)) /\ Cardinality(On(c)) <= Cardinality(Filters)
  BY <1>1, <1>2, FS_Subset
<1>4. Cardinality(On(c)) \in Nat
  BY <1>3, FS_CardinalityType
<1> QED BY <1>2, <1>3, <1>4

\* A channel is used exactly if a filter runs on it.
LEMMA UsedOn ==
  ASSUME ChannelRefs, NEW c \in Channels
  PROVE  channel[c].used = Cardinality(On(c)) /\ (channel[c].used = 0 <=> On(c) = {})
<1>1. channel[c].used = Cardinality(On(c))
  BY DEF ChannelRefs, On
<1> QED BY <1>1, OnFinite, FS_EmptySet

\* A filter that runs is one of its channel's.
LEMMA RunsOn ==
  ASSUME FilterInv, ChannelRefs, NEW f \in Filters, filter[f].enable
  PROVE  filter[f].chan \in Channels /\ channel[filter[f].chan].used \in Nat \ {0}
<1>1. filter[f].chan \in Channels
  BY DEF FilterInv
<1>2. f \in On(filter[f].chan)
  BY DEF On
<1> QED BY <1>1, <1>2, UsedOn, OnFinite

\* dvr_enable_filter with enable = 0: one channel is used once less.
LEMMA Released ==
  ASSUME FilterInv, Typed, ChannelRefs, NEW f \in Filters,
         channel' = Release(f), FilterInv', ~filter'[f].enable,
         \A g \in Filters : g # f => filter'[g] = filter[g]
  PROVE  /\ Typed' /\ ChannelRefs'
         /\ \A c \in Channels : /\ channel'[c].buf = channel[c].buf
                                /\ channel'[c].pid = channel[c].pid
                                /\ channel'[c].used > 0 => channel[c].used > 0
<1>1. CASE ~filter[f].enable
  <2>1. channel' = channel
    BY <1>1 DEF Release
  <2>2. \A c \in Channels : On(c)' = On(c)
    BY <1>1 DEF On
  <2>3. \A c \in Channels : channel'[c].used = Cardinality(On(c)')
    BY <2>1, <2>2, UsedOn
  <2>4. \A g \in Filters : filter'[g].enable => g # f
    OBVIOUS
  <2>5. \A g \in Filters : filter'[g].enable => channel'[filter'[g].chan].pid = filter'[g].pid
    BY <2>1, <2>4 DEF ChannelRefs
  <2>6. \A c, d \in Channels :
          channel'[c].used > 0 /\ channel'[d].used > 0 /\ channel'[c].pid = channel'[d].pid
            => c = d
    BY <2>1 DEF ChannelRefs
  <2>7. Typed' /\ \A c \in Channels : /\ channel'[c].buf = channel[c].buf
                                      /\ channel'[c].pid = channel[c].pid
                                      /\ channel'[c].used > 0 => channel[c].used > 0
    BY <2>1 DEF Typed
  <2>8. ChannelRefs'
    BY <2>3, <2>5, <2>6 DEF ChannelRefs, On
  <2> QED BY <2>7, <2>8
<1>2. CASE filter[f].enable
  <2>1. PICK d : d = filter[f].chan
    OBVIOUS
  <2>2. d \in Channels /\ channel[d].used \in Nat \ {0}
    BY <1>2, <2>1, RunsOn
  <2>3. channel' = [channel EXCEPT ![d].used = @ - 1]
    BY <1>2, <2>1 DEF Release
  <2>4. /\ \A c \in Channels : c # d => channel'[c] = channel[c]
        /\ channel'[d] = [channel[d] EXCEPT !.used = channel[d].used - 1]
    BY <2>2, <2>3 DEF Typed
  <2>5. channel'[d].used = channel[d].used - 1 /\ channel'[d].pid = channel[d].pid
        /\ channel'[d].buf = channel[d].buf /\ channel'[d] \in ChannelRec
    <3>1. channel[d] \in ChannelRec /\ channel[d].used - 1 \in Nat
      BY <2>2 DEF Typed
    <3> QED BY <2>4, <3>1, CountChange
  <2>6. Typed'
    BY <2>2, <2>3, <2>5 DEF Typed
  <2>7. \A c \in Channels : c # d => On(c)' = On(c)
    BY <2>1 DEF On
  <2>8. On(d)' = On(d) \ {f} /\ f \in On(d)
    BY <1>2, <2>1 DEF On
  <2>9. Cardinality(On(d)') = Cardinality(On(d)) - 1
    <3>1. IsFiniteSet(On(d))
      BY OnFinite
    <3> QED BY <2>8, <3>1, FS_RemoveElement
  <2>10. \A c \in Channels : channel'[c].used = Cardinality(On(c)')
    BY <2>2, <2>4, <2>5, <2>7, <2>9, UsedOn
  <2>11. \A g \in Filters : filter'[g].enable => channel'[filter'[g].chan].pid = filter'[g].pid
    <3> SUFFICES ASSUME NEW g \in Filters, filter'[g].enable
                 PROVE  channel'[filter'[g].chan].pid = filter'[g].pid
      OBVIOUS
    <3>1. g # f /\ filter'[g] = filter[g]
      OBVIOUS
    <3>2. channel[filter[g].chan].pid = filter[g].pid /\ filter[g].chan \in Channels
      BY <3>1 DEF ChannelRefs, FilterInv
    <3> QED BY <2>2, <2>4, <2>5, <3>1, <3>2, ZenonT(30)
  <2>12. \A c \in Channels : /\ channel'[c].buf = channel[c].buf
                             /\ channel'[c].pid = channel[c].pid
                             /\ channel'[c].used > 0 => channel[c].used > 0
    <3>1. channel[d].used > 0
      BY <2>2
    <3> QED BY <2>4, <2>5, <3>1
  <2>13. \A c, e \in Channels :
           channel'[c].used > 0 /\ channel'[e].used > 0 /\ channel'[c].pid = channel'[e].pid
             => c = e
    BY <2>12 DEF ChannelRefs
  <2>14. ChannelRefs'
    BY <2>10, <2>11, <2>13 DEF ChannelRefs, On
  <2> QED BY <2>6, <2>12, <2>14
<1> QED BY <1>1, <1>2

\* dvr_enable_filter leaves a tap for every used channel whose tap opens, and no other.
LEMMA Retapped ==
  ASSUME TapsExact, Retap(channel, channel'), Typed, Typed',
         \A c \in Channels : channel[c].used > 0 => channel'[c].pid = channel[c].pid
  PROVE  TapsExact'
<1>1. CASE \E c \in Channels : (channel[c].used = 0) # (channel'[c].used = 0)
  <2>1. failed' \in SUBSET UsedPids(channel') /\ taps' = UsedPids(channel') \ failed'
    BY <1>1 DEF Retap, OpenTaps
  <2> QED BY <2>1 DEF TapsExact, UsedPids
<1>2. CASE ~ \E c \in Channels : (channel[c].used = 0) # (channel'[c].used = 0)
  <2>1. \A c \in Channels : channel[c].used \in Nat /\ channel'[c].used \in Nat
    BY DEF Typed, ChannelRec
  <2>2. \A c \in Channels : channel[c].used > 0 <=> channel'[c].used > 0
    BY <1>2, <2>1
  <2>3. UsedPids(channel') = UsedPids(channel)
    BY <2>2 DEF UsedPids
  <2>4. taps' = taps /\ failed' = failed
    BY <1>2 DEF Retap
  <2> QED BY <2>3, <2>4 DEF TapsExact, UsedPids
<1> QED BY <1>1, <1>2

\* dvr_enable_filter with enable = 1: one channel is used once more.
LEMMA Started ==
  ASSUME FilterInv, Typed, ChannelRefs, NEW f \in Filters, StartFilter(f), FilterInv',
         \A g \in Filters : g # f => filter'[g] = filter[g]
  PROVE  /\ Typed' /\ ChannelRefs'
         /\ \E c \in Channels :
              /\ \/ channel[c].used > 0 /\ channel[c].pid = filter[f].pid
                 \/ /\ channel[c].used = 0
                    /\ ~\E d \in Channels : channel[d].used > 0 /\ channel[d].pid = filter[f].pid
              /\ channel'[c].used = channel[c].used + 1
              /\ channel'[c].pid = filter[f].pid /\ channel'[c].buf = channel[c].buf
              /\ \A d \in Channels : d # c => channel'[d] = channel[d]
              /\ due' = [due EXCEPT ![c] = IF channel[c].used = 0 THEN {} ELSE @]
              /\ own' = (own /\ (c = ch => channel[c].used > 0))
              /\ IF channel[c].used > 0 THEN UNCHANGED next
                 ELSE \E x \in Positions : next' = [next EXCEPT ![filter[f].pid] = x]
<1>1. PICK c \in FindChannel(filter[f].pid) :
       /\ channel' =
            [channel EXCEPT
               ![c].used = @ + 1,
               ![c].pid  = IF channel[c].used = 0 THEN filter[f].pid ELSE @]
       /\ filter' = [filter EXCEPT ![f].enable = TRUE, ![f].chan = c]
       /\ due' = [due EXCEPT ![c] = IF channel[c].used = 0 THEN {} ELSE @]
       /\ own' = (own /\ (c = ch => channel[c].used > 0))
       /\ IF channel[c].used > 0 THEN UNCHANGED next
          ELSE \E x \in Positions : next' = [next EXCEPT ![filter[f].pid] = x]
  BY DEF StartFilter
<1>2. /\ c \in Channels
      /\ \/ channel[c].used > 0 /\ channel[c].pid = filter[f].pid
         \/ /\ channel[c].used = 0
            /\ ~\E d \in Channels : channel[d].used > 0 /\ channel[d].pid = filter[f].pid
  BY FoundChannel
<1>3. channel[c] \in ChannelRec /\ channel[c].used \in Nat
  BY <1>2 DEF Typed, ChannelRec
<1>4. filter[f].pid \in Pids \cup {NoPid} /\ ~filter[f].enable
  BY DEF FilterInv, StartFilter
<1>5. PICK x : x = [channel[c] EXCEPT !.used = channel[c].used + 1, !.pid = filter[f].pid]
  OBVIOUS
<1>6. channel' = [channel EXCEPT ![c] = x]
  <2>1. PICK q : q = IF channel[c].used = 0 THEN filter[f].pid ELSE channel[c].pid
    OBVIOUS
  <2>2. q = filter[f].pid
    BY <1>2, <2>1
  <2>3. channel' = [channel EXCEPT ![c].used = @ + 1, ![c].pid = q]
    <3>1. channel' = [channel EXCEPT
                        ![c].used = channel[c].used + 1,
                        ![c].pid  = IF channel[c].used = 0 THEN filter[f].pid
                                    ELSE channel[c].pid]
      BY <1>1
    <3> QED BY <2>1, <3>1
  <2> QED BY <1>2, <1>5, <2>2, <2>3 DEF Typed
<1>7. x \in ChannelRec /\ x.used = channel[c].used + 1 /\ x.pid = filter[f].pid
      /\ x.buf = channel[c].buf
  <2>1. channel[c].used + 1 \in Nat
    BY <1>3
  <2>2. PICK r, q, n : r = channel[c] /\ q = filter[f].pid /\ n = channel[c].used + 1
    OBVIOUS
  <2>3. r \in ChannelRec /\ q \in Pids \cup {NoPid} /\ n \in Nat
    BY <1>3, <1>4, <2>1, <2>2
  <2>4. x = [r EXCEPT !.used = n, !.pid = q]
    BY <1>5, <2>2
  <2>5. x \in ChannelRec /\ x.used = n /\ x.pid = q /\ x.buf = r.buf
    <3> DEFINE B == Seq(ByteSet)
               P == Pids \cup {NoPid}
    <3>1. r \in [used : Nat, pid : P, buf : B] /\ q \in P
      BY <2>3 DEF ChannelRec
    <3>2. ChannelRec = [used : Nat, pid : P, buf : B]
      BY DEF ChannelRec
    <3> HIDE DEF B, P
    <3> QED BY <2>3, <2>4, <3>1, <3>2
  <2> QED BY <2>2, <2>5
<1>8. Typed' /\ channel'[c] = x /\ \A d \in Channels : d # c => channel'[d] = channel[d]
  BY <1>2, <1>6, <1>7 DEF Typed
<1>9. filter'[f].enable /\ filter'[f].chan = c /\ filter'[f].pid = filter[f].pid
  BY <1>1 DEF FilterInv
<1>10. \A d \in Channels : d # c => On(d)' = On(d)
  BY <1>4, <1>9 DEF On
<1>11. On(c)' = On(c) \cup {f} /\ f \notin On(c)
  BY <1>4, <1>9 DEF On
<1>12. Cardinality(On(c)') = Cardinality(On(c)) + 1
  <2>1. IsFiniteSet(On(c))
    BY OnFinite
  <2> QED BY <1>11, <2>1, FS_AddElement
<1>13. \A d \in Channels : channel'[d].used = Cardinality(On(d)')
  BY <1>2, <1>7, <1>8, <1>10, <1>12, UsedOn
<1>14. \A g \in Filters : filter'[g].enable => channel'[filter'[g].chan].pid = filter'[g].pid
  <2> SUFFICES ASSUME NEW g \in Filters, filter'[g].enable
               PROVE  channel'[filter'[g].chan].pid = filter'[g].pid
    OBVIOUS
  <2>1. CASE g = f
    BY <1>7, <1>8, <1>9, <2>1
  <2>2. CASE g # f
    <3>1. filter'[g] = filter[g] /\ filter[g].enable
      BY <2>2
    <3>2. filter[g].chan \in Channels /\ channel[filter[g].chan].used \in Nat \ {0}
      BY <3>1, RunsOn
    <3>3. channel[filter[g].chan].pid = filter[g].pid
      BY <3>1 DEF ChannelRefs
    <3>4. CASE filter[g].chan = c
      BY <1>2, <1>7, <1>8, <3>1, <3>2, <3>3, <3>4
    <3> QED BY <1>8, <3>1, <3>2, <3>3, <3>4
  <2> QED BY <2>1, <2>2
<1>15. \A d, e \in Channels :
         channel'[d].used > 0 /\ channel'[e].used > 0 /\ channel'[d].pid = channel'[e].pid
           => d = e
  <2>1. ASSUME NEW d \in Channels, d # c, channel'[d].used > 0,
               channel'[d].pid = channel'[c].pid
        PROVE  FALSE
    <3>1. channel[d].used > 0 /\ channel[d].pid = filter[f].pid
      BY <1>7, <1>8, <2>1
    <3> QED BY <1>2, <2>1, <3>1 DEF ChannelRefs
  <2>2. ASSUME NEW d \in Channels, NEW e \in Channels, d # c, e # c,
               channel'[d].used > 0, channel'[e].used > 0, channel'[d].pid = channel'[e].pid
        PROVE  d = e
    BY <1>8, <2>2 DEF ChannelRefs
  <2> QED BY <2>1, <2>2
<1>16. ChannelRefs'
  BY <1>13, <1>14, <1>15 DEF ChannelRefs, On
<1>17. channel'[c].used = channel[c].used + 1 /\ channel'[c].pid = filter[f].pid
       /\ channel'[c].buf = channel[c].buf
  BY <1>7, <1>8
<1> QED BY <1>1, <1>2, <1>8, <1>16, <1>17

-----------------------------------------------------------------------------
(* Bytes and places.                                                       *)

\* What a place is.
LEMMA PlacesAre ==
  /\ \A s, k : <<s, k>> \in Places <=> s \in Sections /\ k \in 1 .. Lengths[s]
  /\ \A x \in Places : /\ x = <<x[1], x[2]>> /\ x[1] \in Sections /\ x[2] \in 1 .. Lengths[x[1]]
                       /\ x[2] \in Nat \ {0}
  /\ \A s \in Sections : Lengths[s] \in Nat /\ Lengths[s] >= 3
<1>1. \A s \in Sections : Lengths[s] \in Nat /\ Lengths[s] >= 3
  BY LengthAssumption DEF Sections
<1>2. \A s, k : <<s, k>> \in Places <=> s \in Sections /\ k \in 1 .. Lengths[s]
  BY DEF Places
<1>3. ASSUME NEW x \in Places
      PROVE  /\ x = <<x[1], x[2]>> /\ x[1] \in Sections /\ x[2] \in 1 .. Lengths[x[1]]
             /\ x[2] \in Nat \ {0}
  <2>1. PICK s \in Sections : x \in {s} \X (1 .. Lengths[s])
    BY DEF Places
  <2>2. PICK k \in 1 .. Lengths[s] : x = <<s, k>>
    BY <2>1
  <2>3. k \in Nat \ {0}
    BY <1>1
  <2> QED BY <2>2, <2>3
<1> QED BY <1>1, <1>2, <1>3

\* Sections follow each other cyclically.
LEMMA AfterIs ==
  ASSUME NEW s \in Sections
  PROVE  After(s) \in Sections /\ <<After(s), 1>> \in Places
<1>1. PICK L : L = Len(Lengths)
  OBVIOUS
<1>2. L \in Nat /\ L > 1 /\ Sections = 1 .. L
  BY <1>1, LengthAssumption, LenProperties DEF Sections
<1>3. s % L \in 0 .. (L - 1)
  BY <1>2
<1>4. After(s) \in Sections
  BY <1>1, <1>2, <1>3 DEF After
<1>5. Lengths[After(s)] \in Nat /\ Lengths[After(s)] >= 3
  BY <1>4, PlacesAre
<1>6. 1 \in 1 .. Lengths[After(s)]
  BY <1>5
<1> QED BY <1>4, <1>6, PlacesAre

\* The place behind a byte is a place.
LEMMA SuccPlace ==
  ASSUME NEW x \in Places
  PROVE  Succ(x) \in Places
<1>1. x[1] \in Sections /\ x[2] \in 1 .. Lengths[x[1]] /\ Lengths[x[1]] \in Nat
  BY PlacesAre
<1>2. CASE x[2] < Lengths[x[1]]
  <2>1. x[2] + 1 \in 1 .. Lengths[x[1]]
    BY <1>1, <1>2
  <2>2. <<x[1], x[2] + 1>> \in Places
    BY <1>1, <2>1, PlacesAre
  <2> QED BY <1>2, <2>2 DEF Succ
<1>3. CASE ~(x[2] < Lengths[x[1]])
  BY <1>1, <1>3, AfterIs DEF Succ
<1> QED BY <1>2, <1>3

\* The bytes of a section from a place to its end.
LEMMA BytesAre ==
  ASSUME NEW p \in Pids, NEW s, NEW k, <<s, k>> \in Places
  PROVE  /\ Bytes(p, s, k) \in Seq(ByteSet)
         /\ Len(Bytes(p, s, k)) = Lengths[s] - k + 1
         /\ Len(Bytes(p, s, k)) \in Nat \ {0}
         /\ \A j \in 1 .. Len(Bytes(p, s, k)) : Bytes(p, s, k)[j] = <<p, s, k + j - 1>>
         /\ Flow(p, Bytes(p, s, k), <<s, k>>, <<After(s), 1>>)
<1>1. s \in Sections /\ k \in 1 .. Lengths[s] /\ Lengths[s] \in Nat
  BY PlacesAre
<1>2. PICK L : L = Lengths[s] - k + 1
  OBVIOUS
<1>3. L \in Nat \ {0}
  BY <1>1, <1>2
<1>4. PICK w : w = Bytes(p, s, k)
  OBVIOUS
<1>5. w = [j \in 1 .. L |-> <<p, s, k + j - 1>>]
  BY <1>2, <1>4 DEF Bytes
<1>6. \A j \in 1 .. L : k + j - 1 \in Nat \ {0} /\ k + j - 1 \in 1 .. Lengths[s]
  BY <1>1, <1>2, <1>3
<1>7. \A j \in 1 .. L : <<p, s, k + j - 1>> \in ByteSet
  BY <1>1, <1>6 DEF ByteSet
<1>8. w \in [1 .. L -> ByteSet] /\ \A j \in 1 .. L : w[j] = <<p, s, k + j - 1>>
  BY <1>5, <1>7
<1>9. w \in Seq(ByteSet) /\ Len(w) = L
  <2>1. w \in Seq(ByteSet)
    BY <1>3, <1>8, SeqDef
  <2>2. DOMAIN w = 1 .. L /\ DOMAIN w = 1 .. Len(w) /\ Len(w) \in Nat
    BY <1>8, <2>1, LenProperties
  <2> QED BY <1>3, <2>1, <2>2
<1>10. \A i \in 1 .. L : PlaceAt(w, <<After(s), 1>>, i) = <<s, k + i - 1>>
  BY <1>3, <1>8, <1>9 DEF PlaceAt
<1>11. PlaceAt(w, <<After(s), 1>>, 1) = <<s, k>>
  <2>1. 1 \in 1 .. L /\ k + 1 - 1 = k
    BY <1>1, <1>3
  <2> QED BY <1>10, <2>1
<1>12. ASSUME NEW i \in 1 .. L
       PROVE  /\ w[i][1] = p /\ w[i] # Stuffing
              /\ PlaceAt(w, <<After(s), 1>>, i) \in Places
              /\ PlaceAt(w, <<After(s), 1>>, i + 1) = Succ(PlaceAt(w, <<After(s), 1>>, i))
  <2>1. w[i][1] = p /\ w[i] # Stuffing
    BY <1>8, PidAssumption DEF Stuffing
  <2>2. <<s, k + i - 1>> \in Places
    BY <1>1, <1>6, PlacesAre
  <2>3. CASE i < L
    <3>1. i + 1 \in 1 .. L /\ k + i - 1 < Lengths[s] /\ k + (i + 1) - 1 = (k + i - 1) + 1
      BY <1>1, <1>2, <1>3, <2>3
    <3>2. PlaceAt(w, <<After(s), 1>>, i + 1) = <<s, (k + i - 1) + 1>>
      BY <1>10, <3>1
    <3> QED BY <1>10, <2>1, <2>2, <3>1, <3>2 DEF Succ
  <2>4. CASE i = L
    <3>1. ~(i + 1 <= L) /\ ~(k + i - 1 < Lengths[s])
      BY <1>1, <1>2, <1>3, <2>4
    <3>2. PlaceAt(w, <<After(s), 1>>, i + 1) = <<After(s), 1>>
      BY <1>9, <3>1 DEF PlaceAt
    <3> QED BY <1>10, <2>1, <2>2, <3>1, <3>2 DEF Succ
  <2> QED BY <1>3, <2>3, <2>4
<1>13. Flow(p, w, <<s, k>>, <<After(s), 1>>)
  BY <1>1, <1>9, <1>11, <1>12, AfterIs DEF Flow
<1> QED BY <1>2, <1>3, <1>4, <1>8, <1>9, <1>13

\* Bytes that go on where others end.
LEMMA FlowConcat ==
  ASSUME NEW p, NEW v \in Seq(ByteSet), NEW w \in Seq(ByteSet), NEW a, NEW b, NEW e,
         Flow(p, v, a, b), Flow(p, w, b, e)
  PROVE  v \o w \in Seq(ByteSet) /\ Len(v \o w) = Len(v) + Len(w) /\ Flow(p, v \o w, a, e)
<1>1. PICK z : z = v \o w
  OBVIOUS
<1>2. /\ z \in Seq(ByteSet) /\ Len(z) = Len(v) + Len(w)
      /\ \A i \in 1 .. Len(v) + Len(w) : z[i] = IF i <= Len(v) THEN v[i] ELSE w[i - Len(v)]
  BY <1>1, ConcatProperties
<1>3. Len(v) \in Nat /\ Len(w) \in Nat
  BY LenProperties
<1>4. ASSUME NEW i \in 1 .. (Len(v) + 1)
      PROVE  PlaceAt(z, e, i) = PlaceAt(v, b, i)
  <2>1. CASE i <= Len(v)
    BY <1>2, <1>3, <2>1 DEF PlaceAt
  <2>2. CASE i = Len(v) + 1 /\ Len(w) > 0
    <3>1. z[i] = w[1]
      BY <1>2, <1>3, <2>2
    <3>2. PlaceAt(z, e, i) = <<w[1][2], w[1][3]>>
      BY <1>2, <1>3, <2>2, <3>1 DEF PlaceAt
    <3>3. PlaceAt(w, e, 1) = <<w[1][2], w[1][3]>>
      BY <1>3, <2>2 DEF PlaceAt
    <3>4. PlaceAt(w, e, 1) = b
      BY DEF Flow
    <3>5. PlaceAt(v, b, i) = b
      BY <1>3, <2>2 DEF PlaceAt
    <3> QED BY <3>2, <3>3, <3>4, <3>5
  <2>3. CASE i = Len(v) + 1 /\ Len(w) = 0
    <3>1. PlaceAt(z, e, i) = e
      BY <1>2, <1>3, <2>3 DEF PlaceAt
    <3>2. PlaceAt(w, e, 1) = e
      BY <1>3, <2>3 DEF PlaceAt
    <3> QED BY <1>3, <2>3, <3>1, <3>2 DEF Flow, PlaceAt
  <2> QED BY <1>3, <2>1, <2>2, <2>3
<1>5. ASSUME NEW i \in 1 .. (Len(w) + 1)
      PROVE  PlaceAt(z, e, Len(v) + i) = PlaceAt(w, e, i)
  <2>1. CASE i <= Len(w)
    <3>1. PICK m : m = Len(v) + i
      OBVIOUS
    <3>2. m \in 1 .. Len(v) + Len(w) /\ ~(m <= Len(v)) /\ m - Len(v) = i /\ m <= Len(z)
      BY <1>2, <1>3, <2>1, <3>1
    <3>3. z[m] = w[i]
      BY <1>2, <3>2
    <3> QED BY <2>1, <3>1, <3>2, <3>3 DEF PlaceAt
  <2>2. CASE i = Len(w) + 1
    BY <1>2, <1>3, <2>2 DEF PlaceAt
  <2> QED BY <1>3, <2>1, <2>2
<1>6. ASSUME NEW i \in 1 .. Len(z)
      PROVE  /\ z[i][1] = p /\ z[i] # Stuffing
             /\ PlaceAt(z, e, i) \in Places
             /\ PlaceAt(z, e, i + 1) = Succ(PlaceAt(z, e, i))
  <2>1. CASE i <= Len(v)
    <3>1. i \in 1 .. Len(v) /\ i \in 1 .. (Len(v) + 1) /\ i + 1 \in 1 .. (Len(v) + 1)
      BY <1>2, <1>3, <2>1
    <3>2. z[i] = v[i]
      BY <1>2, <2>1
    <3> QED BY <1>4, <3>1, <3>2 DEF Flow
  <2>2. CASE ~(i <= Len(v))
    <3>1. PICK j : j = i - Len(v)
      OBVIOUS
    <3>2. j \in 1 .. Len(w) /\ j \in 1 .. (Len(w) + 1) /\ j + 1 \in 1 .. (Len(w) + 1)
          /\ Len(v) + j = i /\ Len(v) + (j + 1) = i + 1
      BY <1>2, <1>3, <2>2, <3>1
    <3>3. z[i] = w[j]
      BY <1>2, <2>2, <3>1
    <3>4. PlaceAt(z, e, i) = PlaceAt(w, e, j) /\ PlaceAt(z, e, i + 1) = PlaceAt(w, e, j + 1)
      BY <1>5, <3>2
    <3> QED BY <3>2, <3>3, <3>4 DEF Flow
  <2> QED BY <2>1, <2>2
<1>7. PlaceAt(z, e, 1) = a
  <2>1. 1 \in 1 .. (Len(v) + 1)
    BY <1>3
  <2> QED BY <1>4, <2>1 DEF Flow
<1>8. Flow(p, z, a, e)
  BY <1>6, <1>7 DEF Flow
<1> QED BY <1>1, <1>2, <1>8

\* The two parts of a sequence of bytes.
LEMMA Parts ==
  ASSUME NEW w \in Seq(ByteSet), NEW m \in 0 .. Len(w)
  PROVE  /\ SubSeq(w, 1, m) \in Seq(ByteSet) /\ Len(SubSeq(w, 1, m)) = m
         /\ \A i \in 1 .. m : SubSeq(w, 1, m)[i] = w[i]
         /\ SubSeq(w, m + 1, Len(w)) \in Seq(ByteSet)
         /\ Len(SubSeq(w, m + 1, Len(w))) = Len(w) - m
         /\ \A i \in 1 .. (Len(w) - m) : SubSeq(w, m + 1, Len(w))[i] = w[m + i]
<1>1. Len(w) \in Nat /\ \A i \in 1 .. Len(w) : w[i] \in ByteSet
  BY LenProperties, ElementOfSeq
<1>2. m \in Int /\ 1 \in Int /\ m + 1 \in Int /\ Len(w) \in Int
  BY <1>1
<1>3. (\A i \in 1 .. m : w[i] \in ByteSet) /\ (\A i \in (m + 1) .. Len(w) : w[i] \in ByteSet)
  BY <1>1
<1>4. /\ SubSeq(w, 1, m) \in Seq(ByteSet)
      /\ Len(SubSeq(w, 1, m)) = IF 1 <= m THEN m - 1 + 1 ELSE 0
      /\ \A i \in 1 .. m - 1 + 1 : SubSeq(w, 1, m)[i] = w[1 + i - 1]
  BY <1>2, <1>3, SubSeqProperties
<1>5. /\ SubSeq(w, m + 1, Len(w)) \in Seq(ByteSet)
      /\ Len(SubSeq(w, m + 1, Len(w))) = IF m + 1 <= Len(w) THEN Len(w) - (m + 1) + 1 ELSE 0
      /\ \A i \in 1 .. Len(w) - (m + 1) + 1 : SubSeq(w, m + 1, Len(w))[i] = w[m + 1 + i - 1]
  BY <1>2, <1>3, SubSeqProperties
<1>6. Len(SubSeq(w, 1, m)) = m /\ m - 1 + 1 = m /\ \A i \in 1 .. m : 1 + i - 1 = i
  BY <1>1, <1>4
<1>7. /\ Len(SubSeq(w, m + 1, Len(w))) = Len(w) - m /\ Len(w) - (m + 1) + 1 = Len(w) - m
      /\ \A i \in 1 .. (Len(w) - m) : m + 1 + i - 1 = m + i
  BY <1>1, <1>5
<1>8. \A i \in 1 .. m : SubSeq(w, 1, m)[i] = w[i]
  BY <1>4, <1>6
<1>9. \A i \in 1 .. (Len(w) - m) : SubSeq(w, m + 1, Len(w))[i] = w[m + i]
  BY <1>5, <1>7
<1> QED BY <1>4, <1>5, <1>6, <1>7, <1>8, <1>9

\* The parts of bytes that follow each other.
LEMMA FlowParts ==
  ASSUME NEW p, NEW w \in Seq(ByteSet), NEW a, NEW e, Flow(p, w, a, e),
         NEW m \in 0 .. Len(w)
  PROVE  /\ PlaceAt(w, e, m + 1) \in Places
         /\ Flow(p, SubSeq(w, 1, m), a, PlaceAt(w, e, m + 1))
         /\ Flow(p, SubSeq(w, m + 1, Len(w)), PlaceAt(w, e, m + 1), e)
<1>1. PICK u, v, b : u = SubSeq(w, 1, m) /\ v = SubSeq(w, m + 1, Len(w)) /\ b = PlaceAt(w, e, m + 1)
  OBVIOUS
<1>2. /\ u \in Seq(ByteSet) /\ Len(u) = m /\ \A i \in 1 .. m : u[i] = w[i]
      /\ v \in Seq(ByteSet) /\ Len(v) = Len(w) - m /\ \A i \in 1 .. (Len(w) - m) : v[i] = w[m + i]
  BY <1>1, Parts
<1>3. Len(w) \in Nat
  BY LenProperties
<1>4. b \in Places
  <2>1. CASE m = Len(w)
    BY <1>1, <1>3, <2>1 DEF PlaceAt, Flow
  <2>2. CASE m # Len(w)
    <3>1. m + 1 \in 1 .. Len(w)
      BY <1>3, <2>2
    <3> QED BY <1>1, <3>1 DEF Flow
  <2> QED BY <2>1, <2>2
<1>5. ASSUME NEW i \in 1 .. (m + 1) PROVE PlaceAt(u, b, i) = PlaceAt(w, e, i)
  <2>0. m \in Nat /\ m <= Len(w)
    BY <1>3
  <2>1. CASE i = m + 1
    <3>1. ~(i <= Len(u))
      BY <1>2, <2>0, <2>1
    <3> QED BY <1>1, <2>1, <3>1 DEF PlaceAt
  <2>2. CASE i # m + 1
    <3>1. i \in 1 .. m /\ i <= Len(w) /\ i <= m
      BY <1>3, <2>0, <2>2
    <3> QED BY <1>2, <3>1 DEF PlaceAt
  <2> QED BY <2>1, <2>2
<1>6. ASSUME NEW i \in 1 .. (Len(w) - m + 1) PROVE PlaceAt(v, e, i) = PlaceAt(w, e, m + i)
  <2>1. CASE i = Len(w) - m + 1
    <3>1. ~(i <= Len(v)) /\ ~(m + i <= Len(w))
      BY <1>2, <1>3, <2>1
    <3> QED BY <3>1 DEF PlaceAt
  <2>2. CASE i # Len(w) - m + 1
    <3>0. m \in Nat /\ i \in Nat /\ 1 <= i /\ i <= Len(w) - m + 1
      BY <1>3
    <3>1. i \in 1 .. (Len(w) - m) /\ m + i <= Len(w) /\ i <= Len(v)
      BY <1>2, <1>3, <2>2, <3>0
    <3> QED BY <1>2, <3>1 DEF PlaceAt
  <2> QED BY <2>1, <2>2
<1>7. Flow(p, u, a, b)
  <2>1. PlaceAt(u, b, 1) = a
    <3>1. 1 \in 1 .. (m + 1)
      BY <1>3
    <3> QED BY <1>5, <3>1 DEF Flow
  <2>2. ASSUME NEW i \in 1 .. Len(u)
        PROVE  /\ u[i][1] = p /\ u[i] # Stuffing
               /\ PlaceAt(u, b, i) \in Places
               /\ PlaceAt(u, b, i + 1) = Succ(PlaceAt(u, b, i))
    <3>1. i \in 1 .. m /\ i \in 1 .. (m + 1) /\ i + 1 \in 1 .. (m + 1) /\ i \in 1 .. Len(w)
      BY <1>2, <1>3
    <3>2. PlaceAt(u, b, i) = PlaceAt(w, e, i) /\ PlaceAt(u, b, i + 1) = PlaceAt(w, e, i + 1)
          /\ u[i] = w[i]
      BY <1>2, <1>5, <3>1
    <3> QED BY <3>1, <3>2 DEF Flow
  <2> QED BY <1>4, <2>1, <2>2 DEF Flow
<1>8. Flow(p, v, b, e)
  <2>1. PlaceAt(v, e, 1) = b
    <3>1. 1 \in 1 .. (Len(w) - m + 1)
      BY <1>3
    <3> QED BY <1>1, <1>6, <3>1
  <2>2. ASSUME NEW i \in 1 .. Len(v)
        PROVE  /\ v[i][1] = p /\ v[i] # Stuffing
               /\ PlaceAt(v, e, i) \in Places
               /\ PlaceAt(v, e, i + 1) = Succ(PlaceAt(v, e, i))
    <3>1. /\ i \in 1 .. (Len(w) - m) /\ i \in 1 .. (Len(w) - m + 1)
          /\ i + 1 \in 1 .. (Len(w) - m + 1) /\ m + i \in 1 .. Len(w)
          /\ m + (i + 1) = (m + i) + 1
      BY <1>2, <1>3
    <3>2. /\ PlaceAt(v, e, i) = PlaceAt(w, e, m + i) /\ v[i] = w[m + i]
          /\ PlaceAt(v, e, i + 1) = PlaceAt(w, e, (m + i) + 1)
      BY <1>2, <1>6, <3>1
    <3> QED BY <3>1, <3>2 DEF Flow
  <2>3. e \in Places
    BY DEF Flow
  <2> QED BY <2>1, <2>2, <2>3 DEF Flow
<1> QED BY <1>1, <1>4, <1>7, <1>8

\* What a pid can send follows each other and ends where a section does.
LEMMA RunIs ==
  ASSUME NEW p \in Pids, next[p] \in Places, NEW n \in 0 .. 2
  PROVE  /\ Run(p, n) \in Seq(ByteSet) /\ Len(Run(p, n)) \in Nat \ {0}
         /\ \E s \in Sections : Flow(p, Run(p, n), next[p], <<s, 1>>)
<1>1. PICK s, k : s = next[p][1] /\ k = next[p][2]
  OBVIOUS
<1>2. next[p] = <<s, k>> /\ s \in Sections
  BY <1>1, PlacesAre
<1>3. PICK u, v, w : u = Bytes(p, s, k) /\ v = Bytes(p, After(s), 1)
                     /\ w = Bytes(p, After(After(s)), 1)
  OBVIOUS
<1>4. /\ After(s) \in Sections /\ <<After(s), 1>> \in Places
      /\ After(After(s)) \in Sections /\ <<After(After(s)), 1>> \in Places
      /\ After(After(After(s))) \in Sections
  BY <1>2, AfterIs
<1>5. u \in Seq(ByteSet) /\ Len(u) \in Nat \ {0} /\ Flow(p, u, next[p], <<After(s), 1>>)
  BY <1>2, <1>3, BytesAre
<1>6. v \in Seq(ByteSet) /\ Len(v) \in Nat \ {0}
      /\ Flow(p, v, <<After(s), 1>>, <<After(After(s)), 1>>)
  BY <1>3, <1>4, BytesAre
<1>7. w \in Seq(ByteSet) /\ Len(w) \in Nat \ {0}
      /\ Flow(p, w, <<After(After(s)), 1>>, <<After(After(After(s))), 1>>)
  BY <1>3, <1>4, BytesAre
<1>8. u \o v \in Seq(ByteSet) /\ Len(u \o v) = Len(u) + Len(v)
      /\ Flow(p, u \o v, next[p], <<After(After(s)), 1>>)
  BY <1>5, <1>6, FlowConcat
<1>9. (u \o v) \o w \in Seq(ByteSet) /\ Len((u \o v) \o w) = Len(u \o v) + Len(w)
      /\ Flow(p, (u \o v) \o w, next[p], <<After(After(After(s))), 1>>)
  BY <1>7, <1>8, FlowConcat
<1> DEFINE Fine(r) == /\ r \in Seq(ByteSet) /\ Len(r) \in Nat \ {0}
                      /\ \E t \in Sections : Flow(p, r, next[p], <<t, 1>>)
<1>10. Fine(u)
  BY <1>4, <1>5
<1>11. Fine(u \o v)
  <2>1. Len(u \o v) \in Nat \ {0}
    BY <1>5, <1>6, <1>8
  <2> QED BY <1>4, <1>8, <2>1
<1>12. Fine((u \o v) \o w)
  <2>1. Len((u \o v) \o w) \in Nat \ {0}
    <3>1. Len(u \o v) \in Nat \ {0}
      BY <1>5, <1>6, <1>8
    <3> QED BY <1>7, <1>9, <3>1
  <2> QED BY <1>4, <1>9, <2>1
<1>13. Run(p, 0) = u
  BY <1>1, <1>3 DEF Run
<1>14. Run(p, 1) = u \o v
  <2>1. Run(p, 1) = Bytes(p, next[p][1], next[p][2]) \o Bytes(p, After(next[p][1]), 1)
    BY SMT DEF Run
  <2> QED BY <1>1, <1>3, <2>1
<1>15. Run(p, 2) = (u \o v) \o w
  <2>1. Run(p, 2) = Bytes(p, next[p][1], next[p][2]) \o Bytes(p, After(next[p][1]), 1)
                      \o Bytes(p, After(After(next[p][1])), 1)
    BY SMT DEF Run
  <2> QED BY <1>1, <1>3, <2>1
<1> HIDE DEF Fine
<1>16. Fine(Run(p, 0)) /\ Fine(Run(p, 1)) /\ Fine(Run(p, 2))
  BY <1>10, <1>11, <1>12, <1>13, <1>14, <1>15
<1>17. n = 0 \/ n = 1 \/ n = 2
  OBVIOUS
<1>18. Fine(Run(p, n))
  BY <1>16, <1>17
<1> QED BY <1>18 DEF Fine

\* Places after the last byte.
LEMMA FlowEnd ==
  ASSUME NEW p, NEW w \in Seq(ByteSet), NEW a, NEW e, Flow(p, w, a, e), Len(w) > 0
  PROVE  NextByte(w) = e
<1>1. PICK m : m = Len(w)
  OBVIOUS
<1>2. m \in Nat \ {0} /\ m \in 1 .. Len(w) /\ ~(m + 1 <= m)
  BY <1>1, LenProperties
<1>3. PlaceAt(w, e, m) = <<w[m][2], w[m][3]>> /\ PlaceAt(w, e, m + 1) = e
  BY <1>1, <1>2 DEF PlaceAt
<1>4. e = Succ(<<w[m][2], w[m][3]>>)
  BY <1>2, <1>3 DEF Flow
<1> QED BY <1>1, <1>4 DEF NextByte, Last, Succ

\* What is in a packet: bytes that go on where its pid was, with stuffing only
\* after the end of a section.
LEMMA PacketIs ==
  ASSUME NEW p \in Pids, next[p] \in Places, NEW x \in Packets(p)
  PROVE  /\ x.taken \in Seq(ByteSet) /\ Len(x.taken) \in Nat \ {0}
         /\ x.pad \in Seq(ByteSet) /\ \A i \in 1 .. Len(x.pad) : x.pad[i] = Stuffing
         /\ Flow(p, x.taken, next[p], NextByte(x.taken))
         /\ Len(x.pad) > 0 => NextByte(x.taken)[2] = 1
         /\ x.start <=> Starts(x.taken) # {}
         /\ ~SplitHeaders => \A i \in Starts(x.taken) : i + 2 <= Len(x.taken)
<1>1. PICK n \in 0 .. 2 :
        LET run   == Run(p, n)
            start == Starts(run) # {}
            room  == IF start THEN Payload - 1 ELSE Payload
            taken == IF Len(run) <= room THEN run ELSE SubSeq(run, 1, room)
        IN  /\ x = [start |-> start, taken |-> taken, run |-> run,
                    pad   |-> [i \in 1 .. (room - Len(taken)) |-> Stuffing]]
            /\ x.start => \E i \in Starts(x.run) : i <= Len(x.taken)
            /\ \A i \in Starts(x.run) :
                 /\ i <= Len(x.taken)
                 /\ ~SplitHeaders => i + 2 <= Len(x.taken)
  BY DEF Packets
<1>2. PICK run : run = Run(p, n)
  OBVIOUS
<1>3. PICK start : start = (Starts(run) # {})
  OBVIOUS
<1>4. PICK room : room = IF start THEN Payload - 1 ELSE Payload
  OBVIOUS
<1>5. PICK taken : taken = IF Len(run) <= room THEN run ELSE SubSeq(run, 1, room)
  OBVIOUS
<1>6. PICK pad : pad = [i \in 1 .. (room - Len(taken)) |-> Stuffing]
  OBVIOUS
<1>7. /\ x = [start |-> start, taken |-> taken, run |-> run, pad |-> pad]
      /\ x.start => \E i \in Starts(x.run) : i <= Len(x.taken)
      /\ \A i \in Starts(x.run) :
           /\ i <= Len(x.taken)
           /\ ~SplitHeaders => i + 2 <= Len(x.taken)
  BY <1>1, <1>2, <1>3, <1>4, <1>5, <1>6
<1>8. x.start = start /\ x.taken = taken /\ x.run = run /\ x.pad = pad
  BY <1>7
<1>9. /\ start => \E i \in Starts(run) : i <= Len(taken)
      /\ \A i \in Starts(run) : ~SplitHeaders => i + 2 <= Len(taken)
  BY <1>7, <1>8
<1>10. run \in Seq(ByteSet) /\ Len(run) \in Nat \ {0}
  BY <1>2, RunIs
<1>11. PICK t \in Sections : Flow(p, run, next[p], <<t, 1>>)
  BY <1>2, RunIs
<1>12. room \in Nat /\ room > 2
  BY <1>4, LengthAssumption
<1>13. PICK m : m = IF Len(run) <= room THEN Len(run) ELSE room
  OBVIOUS
<1>14. m \in 0 .. Len(run) /\ m \in Nat \ {0} /\ m <= room
  BY <1>10, <1>12, <1>13
<1>15. taken = SubSeq(run, 1, m)
  BY <1>5, <1>10, <1>13, SubSeqFull
<1>16. taken \in Seq(ByteSet) /\ Len(taken) = m /\ \A i \in 1 .. m : taken[i] = run[i]
  BY <1>10, <1>14, <1>15, Parts
<1>17. Flow(p, taken, next[p], PlaceAt(run, <<t, 1>>, m + 1))
  BY <1>10, <1>11, <1>14, <1>15, FlowParts
<1>18. NextByte(taken) = PlaceAt(run, <<t, 1>>, m + 1)
  BY <1>14, <1>16, <1>17, FlowEnd
<1>19. pad \in Seq(ByteSet) /\ Len(pad) = room - m /\ \A i \in 1 .. Len(pad) : pad[i] = Stuffing
  <2>1. PICK k : k = room - m
    OBVIOUS
  <2>2. k \in Nat
    BY <1>12, <1>14, <2>1
  <2>3. pad = [i \in 1 .. k |-> Stuffing] /\ Stuffing \in ByteSet
    BY <1>6, <1>16, <2>1 DEF ByteSet
  <2>4. pad \in [1 .. k -> ByteSet] /\ \A i \in 1 .. k : pad[i] = Stuffing
    BY <2>3
  <2>5. pad \in Seq(ByteSet)
    BY <2>2, <2>4, SeqDef
  <2>6. Len(pad) = k
    <3>1. DOMAIN pad = 1 .. k /\ DOMAIN pad = 1 .. Len(pad) /\ Len(pad) \in Nat
      BY <2>4, <2>5, LenProperties
    <3> QED BY <2>2, <3>1
  <2> QED BY <2>1, <2>4, <2>5, <2>6
<1>20. ASSUME Len(pad) > 0 PROVE NextByte(taken)[2] = 1
  <2>1. ~(m + 1 <= Len(run))
    BY <1>10, <1>12, <1>13, <1>14, <1>19, <1>20
  <2>2. PlaceAt(run, <<t, 1>>, m + 1) = <<t, 1>>
    BY <2>1 DEF PlaceAt
  <2> QED BY <1>18, <2>2
<1>21. DOMAIN run = 1 .. Len(run) /\ DOMAIN taken = 1 .. m
  BY <1>10, <1>16, LenProperties
<1>22. \A i \in Starts(taken) : i \in Starts(run)
  <2>1. \A i \in 1 .. m : i \in 1 .. Len(run)
    BY <1>10, <1>14
  <2> QED BY <1>16, <1>21, <2>1 DEF Starts
<1>23. start <=> Starts(taken) # {}
  <2>1. ASSUME start PROVE Starts(taken) # {}
    <3>1. PICK i \in Starts(run) : i <= Len(taken)
      BY <1>9, <2>1
    <3>2. i \in 1 .. Len(run) /\ run[i][3] = 1
      BY <1>21 DEF Starts
    <3>3. i \in 1 .. m
      BY <1>10, <1>14, <1>16, <3>1, <3>2
    <3> QED BY <1>16, <1>21, <3>2, <3>3 DEF Starts
  <2>2. ASSUME Starts(taken) # {} PROVE start
    BY <1>3, <1>22, <2>2
  <2>3. start \in BOOLEAN
    BY <1>3
  <2> QED BY <2>1, <2>2, <2>3
<1>24. ~SplitHeaders => \A i \in Starts(taken) : i + 2 <= Len(taken)
  BY <1>9, <1>22
<1> QED BY <1>8, <1>14, <1>16, <1>17, <1>18, <1>19, <1>20, <1>23, <1>24

-----------------------------------------------------------------------------
(* check_sec.                                                              *)

\* Only the second and the third byte say how long a section is.
LEMMA SectionLengthIs ==
  ASSUME garbage \in Garbage, NEW b \in Seq(ByteSet), Len(b) >= 3
  PROVE  /\ SectionLength(b) \in ToSet(Lengths) \cup Garbage
         /\ SectionLength(b) \in Nat /\ SectionLength(b) >= 3
         /\ \A d : d[2] = b[2] /\ d[3] = b[3] => SectionLength(d) = SectionLength(b)
<1>1. \A d : d[2] = b[2] /\ d[3] = b[3] => SectionLength(d) = SectionLength(b)
  BY DEF SectionLength
<1>2. CASE b[2][3] = 2 /\ b[3] = <<b[2][1], b[2][2], 3>>
  <2>1. Len(b) \in Nat
    BY LenProperties
  <2>2. 2 \in 1 .. Len(b)
    BY <2>1
  <2>3. b[2] \in ByteSet
    BY <2>2, ElementOfSeq
  <2>4. b[2] # Stuffing
    BY <1>2 DEF Stuffing
  <2>5. b[2][2] \in Sections
    BY <2>3, <2>4 DEF ByteSet
  <2>6. SectionLength(b) = Lengths[b[2][2]]
    BY <1>2 DEF SectionLength
  <2>7. Lengths[b[2][2]] \in Nat /\ Lengths[b[2][2]] >= 3
    BY <2>5, PlacesAre
  <2>8. Lengths[b[2][2]] \in ToSet(Lengths)
    BY <2>5 DEF ToSet, Sections
  <2> QED BY <1>1, <2>6, <2>7, <2>8
<1>3. CASE ~(b[2][3] = 2 /\ b[3] = <<b[2][1], b[2][2], 3>>)
  <2>1. SectionLength(b) = garbage
    BY <1>3 DEF SectionLength
  <2> QED BY <1>1, <2>1, LengthAssumption
<1> QED BY <1>2, <1>3

\* What a channel holds: nothing, or a header and no more than it announces.
Held(b) == b = <<>> \/ (3 <= Len(b) /\ Len(b) <= SectionLength(b))

\* What check_sec leaves and how much of the data it takes.
LEMMA CheckSecIs ==
  ASSUME garbage \in Garbage, NEW c, channel[c].buf \in Seq(ByteSet), Held(channel[c].buf),
         NEW data \in Seq(ByteSet)
  PROVE  LET r   == CheckSec(c, data)
             all == channel[c].buf \o data
         IN  /\ r.buf \in Seq(ByteSet) /\ Held(r.buf)
             /\ r.ret \in Nat /\ r.ret <= Len(data)
             /\ all \in Seq(ByteSet) /\ Len(all) = Len(channel[c].buf) + Len(data)
             /\ Len(all) < 3 =>
                  channel[c].buf = <<>> /\ r.buf = <<>> /\ r.ret = Len(data) /\ ~r.done
             /\ Len(all) >= 3 =>
                  /\ r.done <=> SectionLength(all) <= Len(all)
                  /\ Len(r.buf) = IF r.done THEN SectionLength(all) ELSE Len(all)
                  /\ r.buf = SubSeq(all, 1, Len(r.buf)) /\ Len(r.buf) <= Len(all)
                  /\ r.ret = Len(r.buf) - Len(channel[c].buf) /\ Len(r.buf) >= 3
<1>1. PICK b, r, all : b = channel[c].buf /\ r = CheckSec(c, data) /\ all = channel[c].buf \o data
  OBVIOUS
<1>2. b \in Seq(ByteSet) /\ Held(b) /\ all = b \o data
  BY <1>1
<1>3. /\ all \in Seq(ByteSet) /\ Len(all) = Len(b) + Len(data)
      /\ \A i \in 1 .. Len(b) + Len(data) : all[i] = IF i <= Len(b) THEN b[i] ELSE data[i - Len(b)]
  BY <1>2, ConcatProperties
<1>4. Len(b) \in Nat /\ Len(data) \in Nat /\ Len(all) \in Nat
  BY <1>2, <1>3, LenProperties
<1>5. b = <<>> => Len(b) = 0
  BY EmptySeq
<1>6. CASE Len(all) < 3
  <2>1. b = <<>>
    BY <1>2, <1>3, <1>4, <1>6 DEF Held
  <2>2. r = [buf |-> b, ret |-> Len(data), done |-> FALSE]
    BY <1>1, <1>6 DEF CheckSec
  <2>3. r.buf = b /\ r.ret = Len(data) /\ r.done = FALSE
    BY <2>2
  <2> QED BY <1>1, <1>2, <1>3, <1>4, <1>6, <2>1, <2>3
<1>7. CASE ~(Len(all) < 3)
  <2>1. PICK slen : slen = SectionLength(all)
    OBVIOUS
  <2>2. slen \in Nat /\ slen >= 3
    BY <1>3, <1>4, <1>7, <2>1, SectionLengthIs
  <2>3. PICK size : size = IF slen < Len(all) THEN slen ELSE Len(all)
    OBVIOUS
  <2>4. size \in 0 .. Len(all) /\ size \in Nat /\ size >= 3 /\ size <= slen
    BY <1>4, <1>7, <2>2, <2>3
  <2>5. r = [buf |-> SubSeq(all, 1, size), ret |-> size - Len(b), done |-> slen <= Len(all)]
    <3>1. CheckSec(c, data) = [buf |-> SubSeq(all, 1, size), ret |-> size - Len(b),
                               done |-> slen <= Len(all)]
      BY <1>1, <1>7, <2>1, <2>3 DEF CheckSec
    <3> QED BY <1>1, <3>1
  <2>6. PICK w : w = SubSeq(all, 1, size)
    OBVIOUS
  <2>7. r.buf = w /\ r.ret = size - Len(b) /\ r.done = (slen <= Len(all))
    BY <2>5, <2>6
  <2>8. w \in Seq(ByteSet) /\ Len(w) = size /\ \A i \in 1 .. size : w[i] = all[i]
    BY <1>3, <2>4, <2>6, Parts
  <2>9. w[2] = all[2] /\ w[3] = all[3]
    BY <2>4, <2>8
  <2>10. SectionLength(w) = slen
    BY <1>3, <1>4, <1>7, <2>1, <2>9, SectionLengthIs, SMTT(30)
  <2>11. Held(w)
    BY <2>4, <2>8, <2>10 DEF Held
  <2>12. size >= Len(b)
    <3>1. CASE b = <<>>
      BY <1>4, <1>5, <2>4, <3>1
    <3>2. CASE 3 <= Len(b) /\ Len(b) <= SectionLength(b)
      <4>1. b[2] = all[2] /\ b[3] = all[3]
        BY <1>3, <1>4, <3>2
      <4>2. SectionLength(b) = slen
        BY <1>3, <1>4, <1>7, <2>1, <4>1, SectionLengthIs
      <4> QED BY <1>3, <1>4, <2>2, <2>3, <3>2, <4>2
    <3> QED BY <1>2, <3>1, <3>2 DEF Held
  <2>13. r.ret \in Nat /\ r.ret <= Len(data)
    BY <1>3, <1>4, <2>4, <2>7, <2>12
  <2>14. r.done <=> slen <= Len(all)
    BY <2>7
  <2>15. Len(r.buf) = IF r.done THEN slen ELSE Len(all)
    <3>1. Len(r.buf) = size
      BY <2>7, <2>8
    <3>2. size = IF slen <= Len(all) THEN slen ELSE Len(all)
      BY <1>4, <2>2, <2>3
    <3> QED BY <2>14, <3>1, <3>2
  <2>16. r.buf = SubSeq(all, 1, Len(r.buf)) /\ Len(r.buf) <= Len(all)
    BY <1>4, <2>4, <2>6, <2>7, <2>8
  <2>17. r.ret = Len(r.buf) - Len(b) /\ Len(r.buf) >= 3
    BY <2>4, <2>7, <2>8
  <2>18. r.buf \in Seq(ByteSet) /\ Held(r.buf)
    BY <2>7, <2>8, <2>11
  <2> QED BY <1>1, <1>3, <1>7, <2>1, <2>13, <2>14, <2>15, <2>16, <2>17, <2>18
<1> QED BY <1>6, <1>7

\* What a channel has collected changes.
LEMMA BufSet ==
  ASSUME Typed, ch \in Channels, NEW b \in Seq(ByteSet), channel' = [channel EXCEPT ![ch].buf = b]
  PROVE  /\ Typed' /\ \A d \in Channels : d # ch => channel'[d] = channel[d]
         /\ channel'[ch].used = channel[ch].used /\ channel'[ch].pid = channel[ch].pid
         /\ channel'[ch].buf = b
<1>1. channel[ch] \in ChannelRec
  BY DEF Typed
<1>2. /\ \A d \in Channels : d # ch => channel'[d] = channel[d]
      /\ channel'[ch] = [channel[ch] EXCEPT !.buf = b]
  BY DEF Typed
<1>3. channel'[ch].used = channel[ch].used /\ channel'[ch].pid = channel[ch].pid
      /\ channel'[ch].buf = b /\ channel'[ch] \in ChannelRec
  <2>1. PICK x, y : x = channel[ch] /\ y = channel'[ch]
    OBVIOUS
  <2>2. x \in ChannelRec /\ y = [x EXCEPT !.buf = b]
    BY <1>1, <1>2, <2>1
  <2>3. y \in ChannelRec /\ y.used = x.used /\ y.pid = x.pid /\ y.buf = b
    <3> DEFINE B == Seq(ByteSet)
               P == Pids \cup {NoPid}
    <3>1. x \in [used : Nat, pid : P, buf : B] /\ b \in B
      BY <2>2 DEF ChannelRec
    <3>2. ChannelRec = [used : Nat, pid : P, buf : B]
      BY DEF ChannelRec
    <3> HIDE DEF B, P
    <3> QED BY <2>2, <3>1, <3>2
  <2> QED BY <2>1, <2>3
<1>4. Typed'
  <2>1. channel' = [channel EXCEPT ![ch] = channel'[ch]]
    BY <1>2 DEF Typed
  <2> QED BY <1>3, <2>1 DEF Typed
<1> QED BY <1>2, <1>3, <1>4

\* check_sec's choice of the filter to call.
LEMMA Collected ==
  ASSUME Typed, ch \in Channels, NEW r, NEW empty, r.buf \in Seq(ByteSet), Collect(r, empty)
  PROVE  /\ Typed' /\ \A d \in Channels : d # ch => channel'[d] = channel[d]
         /\ channel'[ch].used = channel[ch].used /\ channel'[ch].pid = channel[ch].pid
         /\ \/ /\ r.done /\ channel'[ch].buf = r.buf /\ pc' = "incb" /\ cbf' \in Filters
            \/ /\ channel'[ch].buf = IF r.done \/ empty THEN <<>> ELSE r.buf
               /\ pc' = "loop" /\ cbf' = cbf
<1>1. PICK b : /\ b \in Seq(ByteSet) /\ channel' = [channel EXCEPT ![ch].buf = b]
               /\ \/ r.done /\ b = r.buf /\ pc' = "incb" /\ cbf' = Least(Matching(ch, r.buf))
                     /\ Matching(ch, r.buf) # {}
                  \/ b = (IF r.done \/ empty THEN <<>> ELSE r.buf) /\ pc' = "loop" /\ cbf' = cbf
  <2>1. CASE r.done /\ Matching(ch, r.buf) # {}
    BY <2>1 DEF Collect
  <2>2. CASE ~(r.done /\ Matching(ch, r.buf) # {})
    <3>1. PICK b : b = IF r.done \/ empty THEN <<>> ELSE r.buf
      OBVIOUS
    <3>2. b \in Seq(ByteSet)
      BY <3>1, EmptySeq
    <3>3. channel' = [channel EXCEPT ![ch].buf = b] /\ pc' = "loop" /\ cbf' = cbf
      BY <2>2, <3>1 DEF Collect
    <3> QED BY <3>1, <3>2, <3>3
  <2> QED BY <2>1, <2>2
<1>2. /\ Typed' /\ \A d \in Channels : d # ch => channel'[d] = channel[d]
      /\ channel'[ch].used = channel[ch].used /\ channel'[ch].pid = channel[ch].pid
      /\ channel'[ch].buf = b
  BY <1>1, BufSet
<1>3. Matching(ch, r.buf) # {} => Least(Matching(ch, r.buf)) \in Filters
  <2>1. Matching(ch, r.buf) \in SUBSET Nat /\ Matching(ch, r.buf) \subseteq Filters
    BY Numbers DEF Matching
  <2> QED BY <2>1, LeastIs
<1> QED BY <1>1, <1>2, <1>3

-----------------------------------------------------------------------------
(* The tables and the bytes: an inductive invariant.                       *)

StructInv == FilterInv /\ BytesInv /\ ParserInv /\ ChannelsExact

\* The parts of BytesInv.
LEMMA BytesInvIs ==
  BytesInv <=> /\ Typed /\ \A c \in Channels : Held(channel[c].buf)
               /\ head \in Seq(ByteSet) /\ rest \in Seq(ByteSet)
               /\ garbage \in Garbage
               /\ next \in [Pids -> Places]
  BY DEF BytesInv, Typed, ChannelRec, Held

\* The same after a step.
LEMMA BytesInvNext ==
  ASSUME Typed', \A c \in Channels : Held(channel[c].buf)',
         head' \in Seq(ByteSet), rest' \in Seq(ByteSet),
         garbage' \in Garbage, next' \in [Pids -> Places]
  PROVE  BytesInv'
  BY DEF BytesInv, Typed, ChannelRec, Held

\* What the tables say of each other does not depend on what is collected.
LEMMA SameTables ==
  ASSUME FilterInv, ChannelsExact, UNCHANGED <<filter, taps, failed>>,
         \A d \in Channels : channel'[d].used = channel[d].used /\ channel'[d].pid = channel[d].pid
  PROVE  ChannelsExact'
<1>1. UsedPids(channel)' = UsedPids(channel)
  BY DEF UsedPids
<1>2. \A c \in Channels : channel'[c].used =
        Cardinality({f \in Filters : filter'[f].enable /\ filter'[f].chan = c})
  BY DEF ChannelsExact, ChannelRefs
<1>3. \A f \in Filters : filter'[f].enable => channel'[filter'[f].chan].pid = filter'[f].pid
  BY DEF ChannelsExact, ChannelRefs, FilterInv
<1>4. \A c, d \in Channels :
        channel'[c].used > 0 /\ channel'[d].used > 0 /\ channel'[c].pid = channel'[d].pid
          => c = d
  BY DEF ChannelsExact, ChannelRefs
<1> QED BY <1>1, <1>2, <1>3, <1>4 DEF ChannelsExact, ChannelRefs, TapsExact

\* What a client's call does to the channels.
LEMMA ChannelCalls ==
  ASSUME FilterInv, Typed, ChannelsExact, NEW f \in Filters,
         \/ AllocFilter(f) \/ SetSecFilter(f) \/ StartFilter(f)
         \/ StopFilter(f) \/ FreeFilter(f) \/ Sync(f)
  PROVE  /\ Typed' /\ ChannelsExact'
         /\ \A c \in Channels : channel'[c].buf = channel[c].buf
<1>1. FilterInv' /\ \A g \in Filters : g # f => filter'[g] = filter[g]
  BY FilterCalls
<1>2. ChannelRefs /\ TapsExact
  BY DEF ChannelsExact
<1>3. CASE Sync(f)
  <2>1. UNCHANGED <<filter, taps, failed>> /\ channel' = channel
    BY <1>3 DEF Sync
  <2>2. ChannelsExact'
    BY <2>1, SameTables
  <2> QED BY <2>1, <2>2 DEF Typed
<1>4. CASE AllocFilter(f)
  <2>1. filter'[f].enable = filter[f].enable /\ channel' = channel
        /\ taps' = taps /\ failed' = failed
    BY <1>4 DEF AllocFilter, FilterInv
  <2>2. ~filter[f].enable
    BY <1>4 DEF AllocFilter, FilterInv
  <2>3. channel' = Release(f) /\ ~filter'[f].enable
    BY <2>1, <2>2 DEF Release
  <2>4. Typed' /\ ChannelRefs'
    BY <1>1, <1>2, <2>3, Released
  <2>5. TapsExact'
    BY <1>2, <2>1 DEF TapsExact, UsedPids
  <2> QED BY <2>1, <2>4, <2>5 DEF ChannelsExact
<1>5. CASE SetSecFilter(f) \/ StopFilter(f) \/ FreeFilter(f)
  <2>1. channel' = Release(f) /\ Retap(channel, channel')
    BY <1>5 DEF SetSecFilter, StopFilter, FreeFilter
  <2>2. ~filter'[f].enable
    <3>1. filter \in [Filters -> FilterRec]
      BY DEF FilterInv, FilterRec
    <3>2. CASE SetSecFilter(f)
      <4>1. PICK pid \in Pids, tables \in TableSets :
              filter' = [filter EXCEPT ![f].enable = FALSE, ![f].pid = pid,
                                       ![f].tables = tables]
        BY <3>2 DEF SetSecFilter
      <4> QED BY <3>1, <4>1 DEF FilterRec
    <3>3. CASE StopFilter(f)
      BY <3>1, <3>3 DEF StopFilter, FilterRec
    <3>4. CASE FreeFilter(f)
      BY <3>1, <3>4 DEF FreeFilter, FilterRec
    <3> QED BY <1>5, <3>2, <3>3, <3>4
  <2>3. /\ Typed' /\ ChannelRefs'
        /\ \A c \in Channels : /\ channel'[c].buf = channel[c].buf
                               /\ channel'[c].pid = channel[c].pid
    BY <1>1, <1>2, <2>1, <2>2, Released
  <2>4. TapsExact'
    BY <1>2, <2>1, <2>3, Retapped
  <2> QED BY <2>3, <2>4 DEF ChannelsExact
<1>6. CASE StartFilter(f)
  <2>1. /\ Typed' /\ ChannelRefs'
        /\ \E c \in Channels :
             /\ \/ channel[c].used > 0 /\ channel[c].pid = filter[f].pid
                \/ channel[c].used = 0
             /\ channel'[c].pid = filter[f].pid /\ channel'[c].buf = channel[c].buf
             /\ \A d \in Channels : d # c => channel'[d] = channel[d]
    BY <1>1, <1>2, <1>6, Started
  <2>2. \A c \in Channels : /\ channel'[c].buf = channel[c].buf
                            /\ channel[c].used > 0 => channel'[c].pid = channel[c].pid
    BY <2>1
  <2>3. Retap(channel, channel')
    BY <1>6 DEF StartFilter
  <2>4. TapsExact'
    BY <1>2, <2>1, <2>2, <2>3, Retapped
  <2> QED BY <2>1, <2>2, <2>4 DEF ChannelsExact
<1> QED BY <1>3, <1>4, <1>5, <1>6

\* Where the pids are after a client's call.
LEMMA NextCalls ==
  ASSUME FilterInv, NEW f \in Filters, next \in [Pids -> Places],
         \/ AllocFilter(f) \/ SetSecFilter(f) \/ StartFilter(f)
         \/ StopFilter(f) \/ FreeFilter(f) \/ Sync(f)
  PROVE  next' \in [Pids -> Places]
<1>1. CASE AllocFilter(f) \/ Sync(f)
  BY <1>1 DEF AllocFilter, Sync
<1>2. CASE SetSecFilter(f) \/ StopFilter(f) \/ FreeFilter(f)
  <2>1. next' = Listened(channel')
    BY <1>2 DEF SetSecFilter, StopFilter, FreeFilter
  <2>2. <<1, 1>> \in Places
    <3>1. 1 \in Sections
      BY LengthAssumption, LenProperties DEF Sections
    <3>2. Lengths[1] \in Nat /\ Lengths[1] >= 3
      BY <3>1, PlacesAre
    <3>3. 1 \in 1 .. Lengths[1]
      BY <3>2
    <3> QED BY <3>1, <3>3, PlacesAre
  <2> QED BY <2>1, <2>2 DEF Listened
<1>3. CASE StartFilter(f)
  <2>1. filter[f].pid \in Pids
    BY <1>3 DEF StartFilter, FilterInv
  <2>2. \/ next' = next
        \/ \E x \in Positions : next' = [next EXCEPT ![filter[f].pid] = x]
    BY <1>3 DEF StartFilter
  <2> QED BY <2>1, <2>2 DEF Positions
<1> QED BY <1>1, <1>2, <1>3

\* A packet arrives.
LEMMA ArrivesIs ==
  ASSUME Typed, next \in [Pids -> Places], NEW p \in Pids, PacketArrives(p)
  PROVE  /\ ch' \in Channels /\ channel[ch'].used > 0 /\ channel[ch'].pid = p
         /\ \E x \in Packets(p) : \E k \in 0 .. Len(x.taken) :
              /\ k = (IF x.start THEN Least(Starts(x.taken)) - 1 ELSE 0)
              /\ x.start => /\ k + 1 \in Starts(x.taken) /\ k + 1 \in 1 .. Len(x.taken)
                            /\ \A i \in Starts(x.taken) : k + 1 <= i
              /\ next' = [next EXCEPT ![p] = NextByte(x.taken)]
              /\ head' = SubSeq(x.taken, 1, k) /\ head' \in Seq(ByteSet) /\ Len(head') = k
              /\ rest' = SubSeq(x.taken, k + 1, Len(x.taken)) \o x.pad
              /\ rest' \in Seq(ByteSet)
              /\ pc' = IF x.start THEN "pointer" ELSE "loop"
<1> DEFINE wanted == {c \in Channels : channel[c].used > 0 /\ channel[c].pid = p}
<1>1. wanted # {} /\ ch' = Least(wanted)
  BY DEF PacketArrives
<1>2. wanted \in SUBSET Nat
  BY Numbers
<1>3. ch' \in wanted
  <2> HIDE DEF wanted
  <2> QED BY <1>1, <1>2, LeastIs
<1>4. PICK x \in Packets(p) :
        LET pointer == IF x.start THEN Least(Starts(x.taken)) - 1 ELSE 0
        IN  /\ next' = [next EXCEPT ![p] = NextByte(x.taken)]
            /\ head' = SubSeq(x.taken, 1, pointer)
            /\ rest' = SubSeq(x.taken, pointer + 1, Len(x.taken)) \o x.pad
            /\ pc' = IF x.start THEN "pointer" ELSE "loop"
  BY DEF PacketArrives
<1>5. PICK k : k = IF x.start THEN Least(Starts(x.taken)) - 1 ELSE 0
  OBVIOUS
<1>6. PICK w : w = x.taken
  OBVIOUS
<1>7. /\ w \in Seq(ByteSet) /\ Len(w) \in Nat \ {0} /\ x.pad \in Seq(ByteSet)
      /\ x.start <=> Starts(w) # {}
  BY <1>6, PacketIs
<1>8. Starts(w) \in SUBSET Nat /\ Starts(w) \subseteq 1 .. Len(w)
  BY <1>7, LenProperties DEF Starts
<1>9. ASSUME x.start
      PROVE  k + 1 \in Starts(w) /\ k + 1 \in 1 .. Len(w) /\ \A i \in Starts(w) : k + 1 <= i
  <2>1. PICK l : l = Least(Starts(w))
    OBVIOUS
  <2>2. l \in Starts(w) /\ \A i \in Starts(w) : l <= i
    BY <1>7, <1>8, <1>9, <2>1, LeastIs
  <2>3. k + 1 = l
    BY <1>5, <1>6, <1>8, <1>9, <2>1, <2>2
  <2> QED BY <1>8, <2>2, <2>3
<1>10. k \in 0 .. Len(w)
  <2>1. CASE x.start
    <3>1. PICK l : l = Least(Starts(w))
      OBVIOUS
    <3>2. l \in Starts(w)
      BY <1>7, <1>8, <2>1, <3>1, LeastIs
    <3> QED BY <1>5, <1>6, <1>7, <1>8, <2>1, <3>1, <3>2
  <2>2. CASE ~x.start
    BY <1>5, <1>7, <2>2
  <2> QED BY <2>1, <2>2
<1>11. /\ next' = [next EXCEPT ![p] = NextByte(w)]
       /\ head' = SubSeq(w, 1, k)
       /\ rest' = SubSeq(w, k + 1, Len(w)) \o x.pad
       /\ pc' = IF x.start THEN "pointer" ELSE "loop"
  BY <1>4, <1>5, <1>6
<1>12. head' \in Seq(ByteSet) /\ Len(head') = k /\ SubSeq(w, k + 1, Len(w)) \in Seq(ByteSet)
  BY <1>7, <1>10, <1>11, Parts
<1>13. rest' \in Seq(ByteSet)
  BY <1>7, <1>11, <1>12, ConcatProperties
<1> QED BY <1>3, <1>5, <1>6, <1>9, <1>10, <1>11, <1>12, <1>13

\* The tables agree and the bytes are typed at first.
LEMMA StructInit ==
  ASSUME Init
  PROVE  StructInv
<1>1. FilterInv
  BY DEF Init, FilterInv
<1>2. <<>> \in Seq(ByteSet)
  BY EmptySeq
<1>3. Typed /\ \A c \in Channels : channel[c].used = 0 /\ channel[c].buf = <<>>
  BY <1>2 DEF Init, Typed, ChannelRec
<1>4. <<1, 1>> \in Places
  <2>1. 1 \in Sections
    BY LengthAssumption, LenProperties DEF Sections
  <2>2. Lengths[1] \in Nat /\ Lengths[1] >= 3
    BY <2>1, PlacesAre
  <2>3. 1 \in 1 .. Lengths[1]
    BY <2>2
  <2> QED BY <2>1, <2>3, PlacesAre
<1>5. BytesInv
  <2>1. \A c \in Channels : Held(channel[c].buf)
    BY <1>3 DEF Held
  <2>2. head \in Seq(ByteSet) /\ rest \in Seq(ByteSet) /\ garbage \in Garbage
        /\ next \in [Pids -> Places]
    BY <1>2, <1>4 DEF Init
  <2> QED BY <1>3, <2>1, <2>2, BytesInvIs
<1>6. ParserInv
  BY Numbers DEF Init, ParserInv
<1>7. ChannelRefs
  <2>1. \A c \in Channels : {f \in Filters : filter[f].enable /\ filter[f].chan = c} = {}
    BY DEF Init
  <2>2. \A f \in Filters : ~filter[f].enable
    BY DEF Init
  <2>3. \A c \in Channels :
          Cardinality({f \in Filters : filter[f].enable /\ filter[f].chan = c}) = 0
    BY <2>1, FS_EmptySet
  <2> QED BY <1>3, <2>2, <2>3 DEF ChannelRefs
<1>8. TapsExact
  <2>1. UsedPids(channel) = {}
    BY <1>3 DEF UsedPids
  <2> QED BY <2>1 DEF Init, TapsExact
<1> QED BY <1>1, <1>5, <1>6, <1>7, <1>8 DEF StructInv, ChannelsExact

\* Every step keeps the tables exact and the bytes typed.
LEMMA StructStep ==
  ASSUME StructInv, [Next]_vars
  PROVE  StructInv'
<1>1. FilterInv /\ BytesInv /\ ParserInv /\ ChannelsExact
  BY DEF StructInv
<1>2. /\ Typed /\ \A c \in Channels : Held(channel[c].buf)
      /\ head \in Seq(ByteSet) /\ rest \in Seq(ByteSet)
      /\ garbage \in Garbage /\ next \in [Pids -> Places]
  BY <1>1, BytesInvIs
<1>3. ASSUME garbage' = garbage, NEW b, Held(b)
      PROVE  Held(b)'
  BY <1>3 DEF Held, SectionLength
<1>4. CASE \E f \in Filters :
              \/ AllocFilter(f) \/ SetSecFilter(f) \/ StartFilter(f)
              \/ StopFilter(f) \/ FreeFilter(f) \/ Sync(f)
  <2>1. PICK f \in Filters : \/ AllocFilter(f) \/ SetSecFilter(f) \/ StartFilter(f)
                             \/ StopFilter(f) \/ FreeFilter(f) \/ Sync(f)
    BY <1>4
  <2>2. FilterInv'
    BY <1>1, <2>1, FilterCalls
  <2>3. Typed' /\ ChannelsExact' /\ \A c \in Channels : channel'[c].buf = channel[c].buf
    BY <1>1, <1>2, <2>1, ChannelCalls
  <2>4. next' \in [Pids -> Places]
    BY <1>1, <1>2, <2>1, NextCalls
  <2>5. UNCHANGED parser /\ garbage' = garbage
    BY <2>1 DEF AllocFilter, SetSecFilter, StartFilter, StopFilter, FreeFilter, Sync
  <2>6. \A c \in Channels : Held(channel[c].buf)'
    BY <1>2, <1>3, <2>3, <2>5 DEF Held
  <2>7. BytesInv'
    BY <1>2, <2>3, <2>4, <2>5, <2>6, BytesInvNext DEF parser
  <2>8. ParserInv'
    BY <1>1, <2>5 DEF parser, ParserInv
  <2> QED BY <2>2, <2>3, <2>7, <2>8 DEF StructInv
<1>5. CASE \E p \in Pids : PacketArrives(p)
  <2>1. PICK p \in Pids : PacketArrives(p)
    BY <1>5
  <2>2. UNCHANGED <<filter, channel, taps, failed, cbf, garbage>> /\ pc = "poll"
    BY <2>1 DEF PacketArrives
  <2>3. ch' \in Channels
    BY <1>2, <2>1, ArrivesIs
  <2>4. PICK x \in Packets(p) :
          /\ next' = [next EXCEPT ![p] = NextByte(x.taken)]
          /\ head' \in Seq(ByteSet) /\ rest' \in Seq(ByteSet)
          /\ pc' = IF x.start THEN "pointer" ELSE "loop"
    BY <1>2, <2>1, ArrivesIs
  <2>5. NextByte(x.taken) \in Places
    BY <1>2, PacketIs DEF Flow
  <2>6. next' \in [Pids -> Places]
    BY <1>2, <2>4, <2>5
  <2>7. Typed' /\ \A c \in Channels : Held(channel[c].buf)'
    BY <1>2, <1>3, <2>2 DEF Held, Typed
  <2>8. BytesInv'
    BY <1>2, <2>2, <2>4, <2>6, <2>7, BytesInvNext
  <2>9. ParserInv'
    BY <1>1, <2>2, <2>3, <2>4 DEF ParserInv
  <2>10. FilterInv' /\ ChannelsExact'
    BY <1>1, <2>2, SameTables DEF FilterInv
  <2> QED BY <2>8, <2>9, <2>10 DEF StructInv
<1>6. CASE \E p \in Pids : PacketLost(p)
  <2>1. PICK p \in Pids : PacketLost(p)
    BY <1>6
  <2>2. UNCHANGED <<filter, channel, taps, failed, garbage, parser>>
    BY <2>1 DEF PacketLost
  <2>3. next' \in [Pids -> Places]
    BY <1>2, <2>1 DEF PacketLost, Positions
  <2>4. Typed' /\ \A c \in Channels : Held(channel[c].buf)'
    BY <1>2, <1>3, <2>2 DEF Held, Typed
  <2>5. BytesInv'
    BY <1>2, <2>2, <2>3, <2>4, BytesInvNext DEF parser
  <2>6. ParserInv'
    BY <1>1, <2>2 DEF ParserInv, parser
  <2>7. FilterInv' /\ ChannelsExact'
    BY <1>1, <2>2, SameTables DEF FilterInv
  <2> QED BY <2>5, <2>6, <2>7 DEF StructInv
<1>7. ASSUME NEW data \in Seq(ByteSet), NEW empty, pc \in {"pointer", "loop"},
             Collect(CheckSec(ch, data), empty), UNCHANGED <<filter, taps, failed, ch, next, garbage>>,
             head' \in Seq(ByteSet), rest' \in Seq(ByteSet)
      PROVE  StructInv'
  <2>1. PICK r : r = CheckSec(ch, data)
    OBVIOUS
  <2>2. ch \in Channels /\ cbf = 0
    BY <1>1, <1>7 DEF ParserInv
  <2>3. channel[ch].buf \in Seq(ByteSet) /\ Held(channel[ch].buf)
    BY <1>2, <2>2 DEF Typed, ChannelRec
  <2>4. r.buf \in Seq(ByteSet) /\ Held(r.buf)
    BY <1>2, <1>7, <2>1, <2>3, CheckSecIs
  <2>5. /\ Typed' /\ \A d \in Channels : d # ch => channel'[d] = channel[d]
        /\ channel'[ch].used = channel[ch].used /\ channel'[ch].pid = channel[ch].pid
        /\ channel'[ch].buf = r.buf \/ channel'[ch].buf = <<>>
        /\ (pc' = "incb" /\ cbf' \in Filters) \/ (pc' = "loop" /\ cbf' = cbf)
    BY <1>2, <1>7, <2>1, <2>2, <2>4, Collected
  <2>6. Held(<<>>)
    BY DEF Held
  <2>7. \A c \in Channels : Held(channel'[c].buf)
    BY <1>2, <2>4, <2>5, <2>6
  <2>8. \A c \in Channels : Held(channel[c].buf)'
    BY <1>7, <2>7 DEF Held, SectionLength
  <2>9. BytesInv'
    BY <1>2, <1>7, <2>5, <2>8, BytesInvNext
  <2>10. ParserInv'
    BY <1>1, <1>7, <2>2, <2>5, Numbers DEF ParserInv
  <2>11. FilterInv' /\ ChannelsExact'
    BY <1>1, <1>7, <2>5, SameTables DEF FilterInv
  <2> QED BY <2>9, <2>10, <2>11 DEF StructInv
<1>8. CASE ParseBeforeStart
  <2>1. /\ pc = "pointer" /\ Collect(CheckSec(ch, head), EmptyAtStart)
        /\ UNCHANGED <<filter, taps, failed, ch, head, rest, next, garbage>>
    BY <1>8 DEF ParseBeforeStart
  <2> QED BY <1>2, <1>7, <2>1
<1>9. CASE ParseSection
  <2>1. /\ pc = "loop" /\ Collect(CheckSec(ch, rest), FALSE)
        /\ UNCHANGED <<filter, taps, failed, ch, next, garbage>> /\ head' = <<>>
        /\ rest' = SubSeq(rest, CheckSec(ch, rest).ret + 1, Len(rest))
    BY <1>9 DEF ParseSection
  <2>2. channel[ch].buf \in Seq(ByteSet) /\ Held(channel[ch].buf)
    BY <1>1, <1>2, <2>1 DEF Typed, ChannelRec, ParserInv
  <2>3. PICK m : m = CheckSec(ch, rest).ret
    OBVIOUS
  <2>4. m \in Nat /\ m <= Len(rest) /\ Len(rest) \in Nat
    BY <1>2, <2>2, <2>3, CheckSecIs, LenProperties
  <2>5. m \in 0 .. Len(rest)
    BY <2>4
  <2>6. rest' \in Seq(ByteSet)
    BY <1>2, <2>1, <2>3, <2>5, Parts
  <2>7. head' \in Seq(ByteSet)
    BY <2>1, EmptySeq
  <2>8. PICK empty : empty = FALSE
    OBVIOUS
  <2>9. Collect(CheckSec(ch, rest), empty)
    BY <2>1, <2>8
  <2>10. pc \in {"pointer", "loop"} /\ UNCHANGED <<filter, taps, failed, ch, next, garbage>>
    BY <2>1
  <2> QED BY <1>2, <1>7, <2>6, <2>7, <2>9, <2>10
<1>10. CASE CallbackReturns
  <2>1. /\ pc = "incb" /\ pc' = "loop" /\ cbf' = 0
        /\ channel' = [channel EXCEPT ![ch].buf = <<>>]
        /\ UNCHANGED <<filter, taps, failed, ch, head, rest, next, garbage>>
    BY <1>10 DEF CallbackReturns
  <2>2. ch \in Channels /\ <<>> \in Seq(ByteSet)
    BY <1>1, <2>1, EmptySeq DEF ParserInv
  <2>3. /\ Typed' /\ \A d \in Channels : d # ch => channel'[d] = channel[d]
        /\ channel'[ch].used = channel[ch].used /\ channel'[ch].pid = channel[ch].pid
        /\ channel'[ch].buf = <<>>
    BY <1>2, <2>1, <2>2, BufSet
  <2>4. \A c \in Channels : Held(channel'[c].buf)
    BY <1>2, <2>3 DEF Held
  <2>5. \A c \in Channels : Held(channel[c].buf)'
    BY <2>1, <2>4 DEF Held, SectionLength
  <2>6. BytesInv'
    BY <1>2, <2>1, <2>3, <2>5, BytesInvNext
  <2>7. ParserInv'
    BY <2>1, <2>2 DEF ParserInv
  <2>8. FilterInv' /\ ChannelsExact'
    BY <1>1, <2>1, <2>3, SameTables DEF FilterInv
  <2> QED BY <2>6, <2>7, <2>8 DEF StructInv
<1>11. CASE PacketDone
  <2>1. /\ pc = "loop" /\ pc' = "poll" /\ ch' = 0 /\ head' = <<>> /\ rest' = <<>>
        /\ UNCHANGED <<filter, channel, taps, failed, cbf, next, garbage>>
    BY <1>11 DEF PacketDone
  <2>2. Typed' /\ \A c \in Channels : Held(channel[c].buf)'
    BY <1>2, <1>3, <2>1 DEF Held, Typed
  <2>3. BytesInv'
    BY <1>2, <2>1, <2>2, BytesInvNext, EmptySeq
  <2>4. ParserInv'
    BY <1>1, <2>1 DEF ParserInv
  <2>5. FilterInv' /\ ChannelsExact'
    BY <1>1, <2>1, SameTables DEF FilterInv
  <2> QED BY <2>3, <2>4, <2>5 DEF StructInv
<1>12. CASE UNCHANGED vars
  <2>1. FilterInv' /\ ParserInv' /\ ChannelsExact'
    BY <1>1, <1>12, SameTables DEF vars, FilterInv, ParserInv
  <2>2. BytesInv'
    BY <1>1, <1>12 DEF vars, BytesInv, SectionLength
  <2> QED BY <2>1, <2>2 DEF StructInv
<1> QED BY <1>4, <1>5, <1>6, <1>8, <1>9, <1>10, <1>11, <1>12, NextCases

\* The invariant holds in every reachable state, whatever filters are set, started
\* and stopped between packets and while callbacks run.
THEOREM Invariance == Spec => []StructInv
<1>1. Init => StructInv
  BY StructInit
<1>2. StructInv /\ [Next]_vars => StructInv'
  BY StructStep
<1> QED BY <1>1, <1>2, PTL DEF Spec

\* Filters, channels and the parser of the software demux have the values their
\* declarations allow, and no channel collects more than a section may have.
THEOREM TypeCorrect == Spec => []TypeOK
<1>1. StructInv => TypeOK
  <2> SUFFICES ASSUME StructInv PROVE TypeOK
    OBVIOUS
  <2>1. FilterInv /\ BytesInv /\ ParserInv /\ ChannelsExact
    BY DEF StructInv
  <2>2. \A f \in Filters :
          /\ {filter[f].used, filter[f].enable} \subseteq BOOLEAN
          /\ filter[f].pid \in Pids \cup {NoPid}
          /\ filter[f].chan \in Channels \cup {0}
    <3>1. \A f \in Filters : filter[f].used \in BOOLEAN /\ filter[f].enable \in BOOLEAN
      BY <2>1 DEF FilterInv
    <3> QED BY <2>1, <3>1 DEF FilterInv
  <2>3. ASSUME NEW c \in Channels
        PROVE  /\ channel[c].used \in 0 .. FilterCount
               /\ \E n \in ToSet(Lengths) \cup Garbage : Len(channel[c].buf) <= n
    <3>1. channel[c].used = Cardinality(On(c))
      BY <2>1, UsedOn DEF ChannelsExact
    <3>2. channel[c].used \in 0 .. FilterCount
      BY <3>1, OnFinite, CountAssumption
    <3>3. Held(channel[c].buf) /\ channel[c].buf \in Seq(ByteSet) /\ garbage \in Garbage
      BY <2>1, BytesInvIs DEF Typed, ChannelRec
    <3>4. CASE channel[c].buf = <<>>
      <4>1. Len(channel[c].buf) = 0
        BY <3>4, EmptySeq
      <4>2. garbage \in Nat
        BY <3>3, LengthAssumption
      <4> QED BY <3>2, <3>3, <4>1, <4>2
    <3>5. CASE 3 <= Len(channel[c].buf) /\ Len(channel[c].buf) <= SectionLength(channel[c].buf)
      <4>1. Len(channel[c].buf) >= 3
        BY <3>3, <3>5, LenProperties
      <4>2. SectionLength(channel[c].buf) \in ToSet(Lengths) \cup Garbage
        BY <3>3, <4>1, SectionLengthIs
      <4> QED BY <3>2, <3>5, <4>2
    <3> QED BY <3>3, <3>4, <3>5 DEF Held
  <2>4. taps \subseteq Pids
    <3>1. ASSUME NEW c \in Channels, channel[c].used > 0 PROVE channel[c].pid \in Pids
      <4>1. channel[c].used = Cardinality(On(c)) /\ (channel[c].used = 0 <=> On(c) = {})
        BY <2>1, UsedOn DEF ChannelsExact
      <4>2. channel[c].used # 0
        BY <3>1
      <4>3. PICK f \in Filters : filter[f].enable /\ filter[f].chan = c
        BY <4>1, <4>2 DEF On
      <4> QED BY <2>1, <4>3 DEF ChannelsExact, ChannelRefs, FilterInv
    <3> QED BY <2>1, <3>1 DEF ChannelsExact, TapsExact, UsedPids
  <2>5. /\ pc \in {"poll", "pointer", "loop", "incb"}
        /\ ch \in Channels \cup {0} /\ cbf \in Filters \cup {0}
        /\ (pc = "incb") = (cbf # 0)
    BY <2>1 DEF ParserInv
  <2> QED BY <2>2, <2>3, <2>4, <2>5 DEF TypeOK
<1> QED BY <1>1, Invariance, PTL

\* The use count of a channel is the number of filters that run on it, a pid has one
\* channel, and exactly the pids of used channels are recorded, after every sequence
\* of dvr_find_channel and dvr_enable_filter.
THEOREM ChannelsCorrect == Spec => []ChannelsExact
<1>1. StructInv => ChannelsExact
  BY DEF StructInv
<1> QED BY <1>1, Invariance, PTL

-----------------------------------------------------------------------------
(* Whole sections, when headers are not split.                             *)

\* Within a section, bytes that follow each other are numbered.
LEMMA FlowStays ==
  ASSUME NEW p, NEW w \in Seq(ByteSet), NEW a \in Places, NEW e, Flow(p, w, a, e)
  PROVE  LET q == Lengths[a[1]] - a[2] + 1
         IN  /\ \A i \in 1 .. (Len(w) + 1) :
                  i <= q => PlaceAt(w, e, i) = <<a[1], a[2] + i - 1>>
             /\ \A i \in 1 .. Len(w) : i <= q => w[i] = <<p, a[1], a[2] + i - 1>>
             /\ q <= Len(w) => PlaceAt(w, e, q + 1) = <<After(a[1]), 1>>
<1>0. PICK s, k : s = a[1] /\ k = a[2]
  OBVIOUS
<1>1. PICK L, q : L = Lengths[s] /\ q = Lengths[s] - k + 1
  OBVIOUS
<1>2. s \in Sections /\ L \in Nat /\ k \in 1 .. L /\ q = L - k + 1 /\ q \in Nat \ {0}
  BY <1>0, <1>1, PlacesAre
<1>3. Len(w) \in Nat
  BY LenProperties
<1>4. PlaceAt(w, e, 1) = <<s, k>>
  BY <1>0, PlacesAre DEF Flow
<1> DEFINE T == {i \in 1 .. (Len(w) + 1) : i <= q /\ PlaceAt(w, e, i) # <<s, k + i - 1>>}
<1>5. T = {}
  <2>1. SUFFICES ASSUME T # {} PROVE FALSE
    OBVIOUS
  <2>2. T \in SUBSET Nat
    BY <1>3
  <2>3. PICK i \in T : \A j \in T : i <= j
    <3> HIDE DEF T
    <3> QED BY <2>1, <2>2, NatMin
  <2>4. i \in Nat /\ i >= 1 /\ i <= Len(w) + 1 /\ i <= q /\ PlaceAt(w, e, i) # <<s, k + i - 1>>
    BY <1>3, <2>3
  <2>5. i # 1
    <3>1. k + 1 - 1 = k
      BY <1>2
    <3> QED BY <1>4, <2>4, <3>1
  <2>6. PICK h : h = i - 1
    OBVIOUS
  <2>7. h \in 1 .. (Len(w) + 1) /\ h \in 1 .. Len(w) /\ h <= q /\ ~(i <= h) /\ h + 1 = i
    BY <1>2, <1>3, <2>4, <2>5, <2>6
  <2>8. h \notin T
    <3> HIDE DEF T
    <3> QED BY <2>3, <2>7
  <2>9. PlaceAt(w, e, h) = <<s, k + h - 1>>
    BY <2>7, <2>8
  <2>10. PlaceAt(w, e, i) = Succ(<<s, k + h - 1>>)
    BY <2>7, <2>9 DEF Flow
  <2>11. k + h - 1 < L /\ (k + h - 1) + 1 = k + i - 1
    BY <1>2, <2>4, <2>7
  <2>12. Succ(<<s, k + h - 1>>) = <<s, k + i - 1>>
    BY <1>1, <2>11 DEF Succ
  <2> QED BY <2>4, <2>10, <2>12
<1>6. \A i \in 1 .. (Len(w) + 1) : i <= q => PlaceAt(w, e, i) = <<s, k + i - 1>>
  BY <1>5
<1>7. ASSUME NEW i \in 1 .. Len(w), i <= q
      PROVE  w[i] = <<p, s, k + i - 1>>
  <2>1. i \in 1 .. (Len(w) + 1) /\ i <= Len(w)
    BY <1>3
  <2>2. <<w[i][2], w[i][3]>> = <<s, k + i - 1>>
    BY <1>6, <1>7, <2>1 DEF PlaceAt
  <2>3. w[i] \in ByteSet /\ w[i] # Stuffing /\ w[i][1] = p
    BY ElementOfSeq DEF Flow
  <2>4. w[i] = <<w[i][1], w[i][2], w[i][3]>>
    BY <2>3 DEF ByteSet
  <2>5. w[i][2] = s /\ w[i][3] = k + i - 1
    BY <2>2
  <2> QED BY <2>3, <2>4, <2>5
<1>8. ASSUME q <= Len(w) PROVE PlaceAt(w, e, q + 1) = <<After(s), 1>>
  <2>1. q \in 1 .. Len(w) /\ q \in 1 .. (Len(w) + 1)
    BY <1>2, <1>3, <1>8
  <2>2. PlaceAt(w, e, q) = <<s, k + q - 1>> /\ k + q - 1 = L
    BY <1>2, <1>6, <2>1
  <2>3. PlaceAt(w, e, q + 1) = Succ(<<s, L>>)
    BY <2>1, <2>2 DEF Flow
  <2>4. ~(L < L)
    BY <1>2
  <2> QED BY <1>1, <2>3, <2>4 DEF Succ
<1> QED BY <1>0, <1>1, <1>6, <1>7, <1>8

\* What a channel has of a section.
LEMMA PartIs ==
  ASSUME NEW p \in Pids, NEW s \in Sections, NEW k \in Nat
  PROVE  /\ Part(p, s, k) \in Seq(ByteSet) /\ Len(Part(p, s, k)) = k
         /\ \A j \in 1 .. k : Part(p, s, k)[j] = <<p, s, j>>
         /\ Part(p, s, 0) = <<>>
         /\ Part(p, s, Lengths[s]) = Bytes(p, s, 1)
<1>1. PICK w : w = Part(p, s, k)
  OBVIOUS
<1>2. \A j \in 1 .. k : <<p, s, j>> \in ByteSet
  BY DEF ByteSet
<1>3. w \in [1 .. k -> ByteSet] /\ \A j \in 1 .. k : w[j] = <<p, s, j>>
  BY <1>1, <1>2 DEF Part
<1>4. w \in Seq(ByteSet)
  BY <1>3, SeqDef
<1>5. Len(w) = k
  <2>1. DOMAIN w = 1 .. k /\ DOMAIN w = 1 .. Len(w) /\ Len(w) \in Nat
    BY <1>3, <1>4, LenProperties
  <2> QED BY <2>1
<1>6. Part(p, s, 0) = <<>>
  BY DEF Part
<1>7. Part(p, s, Lengths[s]) = Bytes(p, s, 1)
  <2>1. Lengths[s] \in Nat
    BY PlacesAre
  <2>2. Lengths[s] - 1 + 1 = Lengths[s] /\ \A j \in 1 .. Lengths[s] : 1 + j - 1 = j
    BY <2>1
  <2> QED BY <2>2 DEF Part, Bytes
<1> QED BY <1>1, <1>3, <1>4, <1>5, <1>6, <1>7

\* A part of a section, continued.
LEMMA PartGrows ==
  ASSUME NEW p \in Pids, NEW s \in Sections, NEW k \in Nat, NEW m \in Nat,
         NEW w \in Seq(ByteSet), m <= Len(w),
         \A i \in 1 .. m : w[i] = <<p, s, k + i>>
  PROVE  SubSeq(Part(p, s, k) \o w, 1, k + m) = Part(p, s, k + m)
<1>1. PICK u, v, z : u = Part(p, s, k) /\ v = Part(p, s, k + m) /\ z = Part(p, s, k) \o w
  OBVIOUS
<1>2. k + m \in Nat
  OBVIOUS
<1>3. u \in Seq(ByteSet) /\ Len(u) = k /\ \A j \in 1 .. k : u[j] = <<p, s, j>>
  BY <1>1, PartIs
<1>4. v \in Seq(ByteSet) /\ Len(v) = k + m /\ \A j \in 1 .. (k + m) : v[j] = <<p, s, j>>
  BY <1>1, <1>2, PartIs
<1>5. /\ z \in Seq(ByteSet) /\ Len(z) = Len(u) + Len(w)
      /\ \A i \in 1 .. Len(u) + Len(w) : z[i] = IF i <= Len(u) THEN u[i] ELSE w[i - Len(u)]
  BY <1>1, <1>3, ConcatProperties
<1>6. Len(w) \in Nat
  BY LenProperties
<1>7. k + m \in 0 .. Len(z)
  BY <1>2, <1>3, <1>5, <1>6
<1>8. PICK x : x = SubSeq(z, 1, k + m)
  OBVIOUS
<1>9. x \in Seq(ByteSet) /\ Len(x) = k + m /\ \A i \in 1 .. (k + m) : x[i] = z[i]
  BY <1>5, <1>7, <1>8, Parts
<1>10. ASSUME NEW i \in 1 .. (k + m) PROVE x[i] = v[i]
  <2>1. i \in 1 .. Len(u) + Len(w)
    BY <1>3, <1>6
  <2>2. CASE i <= k
    <3>1. i \in 1 .. k
      BY <2>2
    <3>2. z[i] = u[i]
      BY <1>3, <1>5, <2>1, <2>2
    <3> QED BY <1>3, <1>4, <1>9, <3>1, <3>2
  <2>3. CASE ~(i <= k)
    <3>1. PICK j : j = i - k
      OBVIOUS
    <3>2. j \in 1 .. m /\ k + j = i
      BY <2>3, <3>1
    <3>3. z[i] = w[j]
      BY <1>3, <1>5, <2>1, <2>3, <3>1
    <3> QED BY <1>4, <1>9, <3>2, <3>3
  <2> QED BY <2>2, <2>3
<1>11. x = v
  BY <1>4, <1>9, <1>10, SeqEqual
<1> QED BY <1>1, <1>8, <1>11

\* check_sec on a channel that has the first bytes of a section and is given the
\* bytes that follow: it takes the section's bytes, and no more.
LEMMA Assembles ==
  ASSUME garbage \in Garbage, NEW c, channel[c].buf \in Seq(ByteSet), Held(channel[c].buf),
         NEW p \in Pids, NEW a \in Places, a[2] \notin {2, 3},
         channel[c].buf = Part(p, a[1], a[2] - 1),
         NEW data \in Seq(ByteSet), NEW w \in Seq(ByteSet), NEW e, Flow(p, w, a, e),
         Len(w) > 0, Len(w) <= Len(data), \A i \in 1 .. Len(w) : data[i] = w[i],
         \A i \in 1 .. Len(w) : w[i][3] = 1 => i + 2 <= Len(w),
         Lengths[a[1]] - a[2] + 1 <= Len(w) \/ Len(w) = Len(data)
  PROVE  LET r == CheckSec(c, data)
             q == Lengths[a[1]] - a[2] + 1
         IN  /\ q <= Len(w) => r.done /\ r.buf = Bytes(p, a[1], 1) /\ r.ret = q
             /\ Len(w) < q => /\ ~r.done /\ r.buf = Part(p, a[1], a[2] - 1 + Len(w))
                              /\ r.ret = Len(data)
<1>0. PICK s, k : s = a[1] /\ k = a[2]
  OBVIOUS
<1>1. PICK L, q, b, r, all : L = Lengths[s] /\ q = Lengths[s] - k + 1 /\ b = channel[c].buf
                             /\ r = CheckSec(c, data) /\ all = channel[c].buf \o data
  OBVIOUS
<1>2. s \in Sections /\ L \in Nat /\ L >= 3 /\ k \in 1 .. L /\ k \in Nat \ {0}
      /\ q = L - k + 1 /\ q \in Nat \ {0} /\ k - 1 \in Nat
  BY <1>0, <1>1, PlacesAre, SMTT(30)
<1>3. Len(w) \in Nat \ {0} /\ Len(data) \in Nat
  BY LenProperties
<1>4. b = Part(p, s, k - 1) /\ b \in Seq(ByteSet) /\ Len(b) = k - 1
      /\ \A j \in 1 .. (k - 1) : b[j] = <<p, s, j>>
  <2>1. PICK K : K = k - 1
    OBVIOUS
  <2>2. K \in Nat /\ s \in Sections
    BY <1>2, <2>1
  <2>3. Part(p, s, K) \in Seq(ByteSet) /\ Len(Part(p, s, K)) = K
        /\ \A j \in 1 .. K : Part(p, s, K)[j] = <<p, s, j>>
    BY <2>2, PartIs
  <2>4. b = Part(p, s, K)
    BY <1>0, <1>1, <2>1
  <2> QED BY <2>1, <2>3, <2>4
<1>5. /\ all \in Seq(ByteSet) /\ Len(all) = (k - 1) + Len(data)
      /\ \A i \in 1 .. Len(b) + Len(data) : all[i] = IF i <= Len(b) THEN b[i] ELSE data[i - Len(b)]
  <2>1. all = b \o data
    BY <1>1
  <2>2. /\ b \o data \in Seq(ByteSet) /\ Len(b \o data) = Len(b) + Len(data)
        /\ \A i \in 1 .. Len(b) + Len(data) :
             (b \o data)[i] = IF i <= Len(b) THEN b[i] ELSE data[i - Len(b)]
    BY <1>4, ConcatProperties
  <2> QED BY <1>4, <2>1, <2>2
<1>6. \A i \in 1 .. Len(w) : i <= q => w[i] = <<p, s, k + i - 1>>
  <2>1. \A i \in 1 .. Len(w) :
          i <= Lengths[a[1]] - a[2] + 1 => w[i] = <<p, a[1], a[2] + i - 1>>
    BY FlowStays
  <2> QED BY <1>0, <1>1, <2>1
<1>7. PICK m : m = IF q <= Len(w) THEN q ELSE Len(w)
  OBVIOUS
<1>8. m \in Nat \ {0} /\ m <= q /\ m <= Len(w) /\ m <= Len(data)
  BY <1>2, <1>3, <1>7
<1>9. \A i \in 1 .. m : data[i] = <<p, s, (k - 1) + i>>
  <2> SUFFICES ASSUME NEW i \in 1 .. m PROVE data[i] = <<p, s, (k - 1) + i>>
    OBVIOUS
  <2>1. i \in 1 .. Len(w) /\ i <= q /\ k + i - 1 = (k - 1) + i
    BY <1>2, <1>3, <1>8
  <2> QED BY <1>6, <2>1
<1>10. SubSeq(all, 1, (k - 1) + m) = Part(p, s, (k - 1) + m)
  <2>1. PICK K : K = k - 1
    OBVIOUS
  <2>2. K \in Nat /\ m \in Nat /\ s \in Sections /\ m <= Len(data)
    BY <1>2, <1>8, <2>1
  <2>3. \A i \in 1 .. m : data[i] = <<p, s, K + i>>
    BY <1>9, <2>1
  <2>4. SubSeq(Part(p, s, K) \o data, 1, K + m) = Part(p, s, K + m)
    BY <2>2, <2>3, PartGrows
  <2>5. all = Part(p, s, K) \o data
    BY <1>1, <1>4, <2>1
  <2> QED BY <2>1, <2>4, <2>5
<1>11. 3 <= (k - 1) + m
  <2>0. k \notin {2, 3}
    BY <1>0
  <2>1. CASE k = 1
    <3>1. 1 \in 1 .. Len(w) /\ 1 <= q
      BY <1>2, <1>3
    <3>2. w[1] = <<p, s, k + 1 - 1>>
      BY <1>6, <3>1
    <3>3. w[1][3] = 1
      BY <2>1, <3>2
    <3>4. 1 + 2 <= Len(w)
      BY <3>1, <3>3
    <3> QED BY <1>2, <1>3, <1>7, <2>1, <3>4
  <2>2. CASE k # 1
    <3>1. k - 1 >= 3
      BY <1>2, <2>0, <2>2
    <3> QED BY <1>2, <1>8, <3>1
  <2> QED BY <2>1, <2>2
<1>12. all[2] = <<p, s, 2>> /\ all[3] = <<p, s, 3>>
  <2>1. PICK t : t = (k - 1) + m
    OBVIOUS
  <2>2. t \in Nat /\ 2 \in 1 .. t /\ 3 \in 1 .. t /\ t \in 0 .. Len(all)
    BY <1>2, <1>3, <1>5, <1>8, <1>11, <2>1
  <2>3. \A i \in 1 .. t : SubSeq(all, 1, t)[i] = all[i]
    BY <1>5, <2>2, Parts
  <2>4. \A i \in 1 .. t : Part(p, s, t)[i] = <<p, s, i>>
    BY <1>2, <2>2, PartIs
  <2> QED BY <1>10, <2>1, <2>2, <2>3, <2>4
<1>13. SectionLength(all) = L
  <2>1. all[2][1] = p /\ all[2][2] = s /\ all[2][3] = 2
    BY <1>12
  <2>2. all[3] = <<all[2][1], all[2][2], 3>>
    BY <1>12, <2>1
  <2>3. SectionLength(all) = Lengths[all[2][2]]
    BY <2>1, <2>2 DEF SectionLength
  <2> QED BY <1>1, <2>1, <2>3
<1>14. Len(all) >= 3 /\ Len(all) \in Nat
  BY <1>2, <1>3, <1>5, <1>8, <1>11
<1>15. /\ r.done <=> L <= Len(all)
       /\ Len(r.buf) = IF r.done THEN L ELSE Len(all)
       /\ r.buf = SubSeq(all, 1, Len(r.buf))
       /\ r.ret = Len(r.buf) - (k - 1)
  <2>1. LET rr == CheckSec(c, data)
            al == channel[c].buf \o data
        IN  /\ rr.buf \in Seq(ByteSet) /\ Held(rr.buf)
            /\ rr.ret \in Nat /\ rr.ret <= Len(data)
            /\ al \in Seq(ByteSet) /\ Len(al) = Len(channel[c].buf) + Len(data)
            /\ Len(al) < 3 =>
                 channel[c].buf = <<>> /\ rr.buf = <<>> /\ rr.ret = Len(data) /\ ~rr.done
            /\ Len(al) >= 3 =>
                 /\ rr.done <=> SectionLength(al) <= Len(al)
                 /\ Len(rr.buf) = IF rr.done THEN SectionLength(al) ELSE Len(al)
                 /\ rr.buf = SubSeq(al, 1, Len(rr.buf)) /\ Len(rr.buf) <= Len(al)
                 /\ rr.ret = Len(rr.buf) - Len(channel[c].buf) /\ Len(rr.buf) >= 3
    BY CheckSecIs, Zenon
  <2>2. Len(all) >= 3 =>
              /\ r.done <=> SectionLength(all) <= Len(all)
              /\ Len(r.buf) = IF r.done THEN SectionLength(all) ELSE Len(all)
              /\ r.buf = SubSeq(all, 1, Len(r.buf))
              /\ r.ret = Len(r.buf) - Len(b)
    BY <1>1, <2>1
  <2> QED BY <1>4, <1>13, <1>14, <2>2
<1>16. ASSUME q <= Len(w) PROVE r.done /\ r.buf = Bytes(p, s, 1) /\ r.ret = q
  <2>1. (k - 1) + m = L /\ L <= Len(all) /\ L - (k - 1) = q
    BY <1>2, <1>3, <1>5, <1>7, <1>16
  <2>2. r.done /\ Len(r.buf) = L /\ r.ret = q
    BY <1>15, <2>1
  <2>3. r.buf = Part(p, s, L)
    BY <1>10, <1>15, <2>1, <2>2
  <2>4. Part(p, s, L) = Bytes(p, s, 1)
    BY <1>1, <1>2, PartIs
  <2> QED BY <2>2, <2>3, <2>4
<1>17. ASSUME Len(w) < q
       PROVE  ~r.done /\ r.buf = Part(p, s, k - 1 + Len(w)) /\ r.ret = Len(data)
  <2>1. Len(w) = Len(data) /\ m = Len(w)
    BY <1>0, <1>1, <1>2, <1>3, <1>7, <1>17
  <2>2. Len(all) = (k - 1) + m /\ ~(L <= Len(all)) /\ Len(all) - (k - 1) = Len(data)
    BY <1>2, <1>3, <1>5, <1>17, <2>1
  <2>3. ~r.done /\ Len(r.buf) = Len(all) /\ r.ret = Len(data)
    BY <1>15, <2>2
  <2>4. r.buf = Part(p, s, (k - 1) + m)
    BY <1>10, <1>15, <2>2, <2>3
  <2> QED BY <2>1, <2>3, <2>4
<1> QED BY <1>0, <1>1, <1>16, <1>17

\* Bytes that start in no header and cut none off end in none.
LEMMA HeaderWhole ==
  ASSUME NEW p, NEW w \in Seq(ByteSet), NEW a, NEW e, Flow(p, w, a, e), Len(w) > 0,
         a[2] \notin {2, 3},
         \A i \in 1 .. Len(w) : w[i][3] = 1 => i + 2 <= Len(w)
  PROVE  e[2] \notin {2, 3}
<1>1. PICK m : m = Len(w)
  OBVIOUS
<1>2. m \in Nat \ {0} /\ m \in 1 .. m /\ ~(m + 1 <= m)
  BY <1>1, LenProperties
<1>3. PlaceAt(w, e, m + 1) = e /\ PlaceAt(w, e, m) = <<w[m][2], w[m][3]>>
  BY <1>1, <1>2 DEF PlaceAt
<1>4. e = Succ(<<w[m][2], w[m][3]>>) /\ <<w[m][2], w[m][3]>> \in Places
  BY <1>1, <1>2, <1>3 DEF Flow
<1>5. w[m][3] \in Nat \ {0} /\ (e[2] = 1 \/ e[2] = w[m][3] + 1)
  <2>1. w[m][3] \in Nat \ {0}
    BY <1>4, PlacesAre
  <2> QED BY <1>4, <2>1 DEF Succ
<1>6. w[m][3] # 1
  BY <1>1, <1>2
<1>7. w[m][3] # 2
  <2>1. SUFFICES ASSUME w[m][3] = 2 PROVE FALSE
    OBVIOUS
  <2>2. CASE m = 1
    <3>1. PlaceAt(w, e, 1) = a
      BY DEF Flow
    <3>2. a[2] = 2
      BY <1>3, <2>1, <2>2, <3>1
    <3> QED BY <3>2
  <2>3. CASE m # 1
    <3>1. PICK h : h = m - 1
      OBVIOUS
    <3>2. h \in Nat \ {0} /\ h \in 1 .. m /\ h <= m /\ h + 1 = m /\ ~(h + 2 <= m)
      BY <1>2, <2>3, <3>1
    <3>3. PlaceAt(w, e, h) = <<w[h][2], w[h][3]>>
      BY <1>1, <3>2 DEF PlaceAt
    <3>4. <<w[m][2], w[m][3]>> = Succ(<<w[h][2], w[h][3]>>) /\ <<w[h][2], w[h][3]>> \in Places
      BY <1>1, <1>3, <3>2, <3>3 DEF Flow
    <3>5. w[h][3] \in Nat \ {0}
      BY <3>4, PlacesAre
    <3>6. w[m][3] = 1 \/ w[m][3] = w[h][3] + 1
      BY <3>4, <3>5 DEF Succ
    <3>7. w[h][3] = 1
      BY <2>1, <3>5, <3>6
    <3> QED BY <1>1, <3>2, <3>7
  <2> QED BY <2>2, <2>3
<1> QED BY <1>5, <1>6, <1>7

\* What is left of a packet: bytes from place a to place e, and n bytes of stuffing.
Tape(z, p, n, a, e) ==
  /\ \A i \in (Len(z) - n + 1) .. Len(z) : z[i] = Stuffing
  /\ Flow(p, SubSeq(z, 1, Len(z) - n), a, e)
  /\ n > 0 => e[2] = 1
  /\ \A i \in 1 .. (Len(z) - n) : z[i][3] = 1 => i + 2 <= Len(z) - n

\* What RestIs says of the rest of a packet.
LEMMA TapeIs ==
  ASSUME NEW z \in Seq(ByteSet), NEW n \in 0 .. Len(z), NEW p, NEW a, NEW e
  PROVE  LET w == SubSeq(z, 1, Len(z) - n)
         IN  /\ Tape(z, p, n, a, e) <=>
                  /\ \A i \in (Len(z) - n + 1) .. Len(z) : z[i] = Stuffing
                  /\ Flow(p, w, a, e)
                  /\ n > 0 => e[2] = 1
                  /\ \A i \in 1 .. Len(w) : w[i][3] = 1 => i + 2 <= Len(w)
             /\ w # <<>> <=> Len(z) - n > 0
<1>1. PICK m : m = Len(z) - n
  OBVIOUS
<1>2. PICK w : w = SubSeq(z, 1, m)
  OBVIOUS
<1>3. Len(z) \in Nat /\ m \in 0 .. Len(z) /\ m \in Nat
  BY <1>1, LenProperties
<1>4. w \in Seq(ByteSet) /\ Len(w) = m /\ \A i \in 1 .. m : w[i] = z[i]
  BY <1>2, <1>3, Parts
<1>5. w # <<>> <=> m > 0
  BY <1>3, <1>4, EmptySeq
<1>6. (\A i \in 1 .. Len(w) : w[i][3] = 1 => i + 2 <= Len(w))
        <=> (\A i \in 1 .. m : z[i][3] = 1 => i + 2 <= m)
  BY <1>4
<1>7. Tape(z, p, n, a, e) <=>
        /\ \A i \in (m + 1) .. Len(z) : z[i] = Stuffing
        /\ Flow(p, w, a, e)
        /\ n > 0 => e[2] = 1
        /\ \A i \in 1 .. m : z[i][3] = 1 => i + 2 <= m
  BY <1>1, <1>2 DEF Tape
<1> QED BY <1>1, <1>2, <1>5, <1>6, <1>7

\* The rest of the packet is such a tape.
LEMMA RestTape ==
  ASSUME rest \in Seq(ByteSet), NEW n \in 0 .. Len(rest), NEW a, NEW e
  PROVE  RestIs(n, a, e) <=> Tape(rest, channel[ch].pid, n, a, e) /\ (first => Len(rest) - n > 0)
<1>1. PICK z, p : z = rest /\ p = channel[ch].pid
  OBVIOUS
<1>2. LET w == SubSeq(z, 1, Len(z) - n)
      IN  RestIs(n, a, e) <=>
            /\ \A i \in (Len(z) - n + 1) .. Len(z) : z[i] = Stuffing
            /\ Flow(p, w, a, e)
            /\ n > 0 => e[2] = 1
            /\ \A i \in 1 .. Len(w) : w[i][3] = 1 => i + 2 <= Len(w)
            /\ first => w # <<>>
  BY <1>1 DEF RestIs
<1>3. z \in Seq(ByteSet) /\ n \in 0 .. Len(z)
  BY <1>1
<1> QED BY <1>1, <1>2, <1>3, TapeIs

\* The same after a step.
LEMMA RestTapeNext ==
  ASSUME rest' \in Seq(ByteSet), NEW n \in 0 .. Len(rest'), NEW a, NEW e,
         Tape(rest', channel'[ch'].pid, n, a, e), first' => Len(rest') - n > 0
  PROVE  RestIs(n, a, e)'
<1>1. PICK z, p : z = rest' /\ p = channel'[ch'].pid
  OBVIOUS
<1>2. LET w == SubSeq(z, 1, Len(z) - n)
      IN  RestIs(n, a, e)' <=>
            /\ \A i \in (Len(z) - n + 1) .. Len(z) : z[i] = Stuffing
            /\ Flow(p, w, a, e)
            /\ n > 0 => e[2] = 1
            /\ \A i \in 1 .. Len(w) : w[i][3] = 1 => i + 2 <= Len(w)
            /\ first' => w # <<>>
  BY <1>1 DEF RestIs, Flow, PlaceAt
<1>3. z \in Seq(ByteSet) /\ n \in 0 .. Len(z) /\ Tape(z, p, n, a, e)
      /\ (first' => Len(z) - n > 0)
  BY <1>1
<1> QED BY <1>2, <1>3, TapeIs

\* The parser takes m bytes.
LEMMA TapeCut ==
  ASSUME NEW z \in Seq(ByteSet), NEW n \in 0 .. Len(z), NEW p, NEW a, NEW e, Tape(z, p, n, a, e),
         NEW m \in 0 .. Len(z)
  PROVE  LET v == SubSeq(z, m + 1, Len(z))
             w == SubSeq(z, 1, Len(z) - n)
         IN  /\ v \in Seq(ByteSet) /\ Len(v) = Len(z) - m
             /\ m <= Len(z) - n => /\ PlaceAt(w, e, m + 1) \in Places /\ n \in 0 .. Len(v)
                                   /\ Tape(v, p, n, PlaceAt(w, e, m + 1), e)
             /\ Len(z) - n < m => Len(z) - m \in 0 .. Len(v) /\ Tape(v, p, Len(z) - m, e, e)
<1>1. PICK v, w, k : v = SubSeq(z, m + 1, Len(z)) /\ w = SubSeq(z, 1, Len(z) - n) /\ k = Len(z) - n
  OBVIOUS
<1>2. Len(z) \in Nat /\ k \in 0 .. Len(z) /\ k \in Nat /\ m \in Nat /\ n \in Nat /\ n = Len(z) - k
      /\ w = SubSeq(z, 1, k)
  BY <1>1, LenProperties
<1>3. v \in Seq(ByteSet) /\ Len(v) = Len(z) - m /\ \A i \in 1 .. (Len(z) - m) : v[i] = z[m + i]
  BY <1>1, Parts
<1>4. w \in Seq(ByteSet) /\ Len(w) = k /\ \A i \in 1 .. k : w[i] = z[i]
  BY <1>2, Parts
<1>5. /\ \A i \in (k + 1) .. Len(z) : z[i] = Stuffing
      /\ Flow(p, w, a, e) /\ (n > 0 => e[2] = 1)
      /\ \A i \in 1 .. k : z[i][3] = 1 => i + 2 <= k
  BY <1>1 DEF Tape
<1>6. ASSUME m <= k
      PROVE  /\ PlaceAt(w, e, m + 1) \in Places /\ n \in 0 .. Len(v)
             /\ Tape(v, p, n, PlaceAt(w, e, m + 1), e)
  <2>1. m \in 0 .. Len(w)
    BY <1>2, <1>4, <1>6
  <2>2. PICK x, b : x = SubSeq(w, m + 1, Len(w)) /\ b = PlaceAt(w, e, m + 1)
    OBVIOUS
  <2>3. b \in Places /\ Flow(p, x, b, e)
    BY <1>4, <1>5, <2>1, <2>2, FlowParts
  <2>4. x \in Seq(ByteSet) /\ Len(x) = k - m /\ \A i \in 1 .. (k - m) : x[i] = w[m + i]
    BY <1>4, <2>1, <2>2, Parts
  <2>5. PICK y, l : y = SubSeq(v, 1, Len(v) - n) /\ l = Len(v) - n
    OBVIOUS
  <2>6. l = k - m /\ l \in 0 .. Len(v) /\ l \in Nat /\ n \in 0 .. Len(v) /\ y = SubSeq(v, 1, l)
    <3>1. PICK j : j = Len(z) /\ j \in Nat
      BY <1>2
    <3>2. Len(v) = j - m /\ n = j - k /\ k \in 0 .. j
      BY <1>2, <1>3, <3>1
    <3>3. l = k - m
      BY <1>2, <2>5, <3>1, <3>2
    <3>4. l \in 0 .. (j - m) /\ l \in Nat /\ n \in 0 .. (j - m)
      BY <1>2, <1>6, <3>1, <3>2, <3>3
    <3> QED BY <2>5, <3>2, <3>3, <3>4
  <2>7. y \in Seq(ByteSet) /\ Len(y) = l /\ \A i \in 1 .. l : y[i] = v[i]
    BY <1>3, <2>6, Parts
  <2>8. \A i \in 1 .. l : v[i] = z[m + i] /\ x[i] = w[m + i] /\ w[m + i] = z[m + i]
    <3> SUFFICES ASSUME NEW i \in 1 .. l
                 PROVE  v[i] = z[m + i] /\ x[i] = w[m + i] /\ w[m + i] = z[m + i]
      OBVIOUS
    <3>1. i \in 1 .. (Len(z) - m) /\ i \in 1 .. (k - m) /\ m + i \in 1 .. k
      BY <1>2, <1>6, <2>6
    <3> QED BY <1>3, <1>4, <2>4, <3>1
  <2>9. x = y
    <3>1. Len(x) = Len(y) /\ \A i \in 1 .. Len(x) : x[i] = y[i]
      BY <2>4, <2>6, <2>7, <2>8
    <3> QED BY <2>4, <2>7, <3>1, SeqEqual
  <2>10. \A i \in (l + 1) .. Len(v) : v[i] = Stuffing
    <3> SUFFICES ASSUME NEW i \in (l + 1) .. Len(v) PROVE v[i] = Stuffing
      OBVIOUS
    <3>1. i \in 1 .. (Len(z) - m) /\ m + i \in (k + 1) .. Len(z)
      BY <1>2, <1>3, <2>6
    <3> QED BY <1>3, <1>5, <3>1
  <2>11. \A i \in 1 .. l : v[i][3] = 1 => i + 2 <= l
    <3> SUFFICES ASSUME NEW i \in 1 .. l, v[i][3] = 1 PROVE i + 2 <= l
      OBVIOUS
    <3>1. z[m + i][3] = 1 /\ m + i \in 1 .. k
      BY <1>2, <1>6, <2>6, <2>8
    <3>2. (m + i) + 2 <= k
      BY <1>5, <3>1
    <3> QED BY <1>2, <2>6, <3>2
  <2> QED BY <1>5, <2>2, <2>3, <2>5, <2>6, <2>9, <2>10, <2>11 DEF Tape
<1>7. ASSUME k < m
      PROVE  Len(z) - m \in 0 .. Len(v) /\ Tape(v, p, Len(z) - m, e, e)
  <2>1. PICK l : l = Len(z) - m
    OBVIOUS
  <2>2. l \in Nat /\ Len(v) = l /\ l \in 0 .. Len(v) /\ Len(v) - l = 0
    BY <1>2, <1>3, <2>1
  <2>3. ASSUME NEW i \in (Len(v) - l + 1) .. Len(v) PROVE v[i] = Stuffing
    <3>1. i \in 1 .. (Len(z) - m) /\ m + i \in (k + 1) .. Len(z)
      BY <1>2, <1>3, <1>7, <2>1, <2>2
    <3> QED BY <1>3, <1>5, <3>1
  <2>4. PICK y : y = SubSeq(v, 1, Len(v) - l)
    OBVIOUS
  <2>5. Len(y) = 0
    <3>1. 0 \in 0 .. Len(v)
      BY <2>2
    <3> QED BY <1>3, <2>2, <2>4, <3>1, Parts
  <2>6. e \in Places
    BY <1>5 DEF Flow
  <2>7. Flow(p, y, e, e)
    BY <2>5, <2>6 DEF Flow, PlaceAt
  <2>8. l > 0 => e[2] = 1
    <3>1. n > 0
      BY <1>2, <1>7
    <3> QED BY <1>5, <3>1
  <2>9. \A i \in 1 .. (Len(v) - l) : v[i][3] = 1 => i + 2 <= Len(v) - l
    BY <2>2
  <2> QED BY <2>1, <2>2, <2>3, <2>4, <2>7, <2>8, <2>9 DEF Tape
<1> QED BY <1>1, <1>3, <1>6, <1>7

\* A used channel is for a pid.
LEMMA UsedPid ==
  ASSUME StructInv, NEW c \in Channels, channel[c].used > 0
  PROVE  channel[c].pid \in Pids
<1>1. channel[c].used = Cardinality(On(c)) /\ (channel[c].used = 0 <=> On(c) = {})
  BY UsedOn DEF StructInv, ChannelsExact
<1>2. channel[c].used # 0
  OBVIOUS
<1>3. PICK f \in Filters : filter[f].enable /\ filter[f].chan = c
  BY <1>1, <1>2 DEF On
<1> QED BY <1>3 DEF StructInv, ChannelsExact, ChannelRefs, FilterInv

\* What a client's call leaves of a channel, or that it was taken anew.
Kept(d) ==
  /\ channel'[d].buf = channel[d].buf /\ channel'[d].pid = channel[d].pid /\ due'[d] = due[d]
  /\ channel'[d].used > 0 =>
       channel[d].used > 0 /\ next'[channel[d].pid] = next[channel[d].pid]
  /\ d = ch => own' = own
Fresh(d) == due'[d] = {} /\ (d = ch => ~own')

\* Every channel is kept by a client's call or taken anew.
LEMMA CallsKeep ==
  ASSUME StructInv, OutsideInv, ~SplitHeaders, NEW f \in Filters,
         \/ AllocFilter(f) \/ SetSecFilter(f) \/ StartFilter(f)
         \/ StopFilter(f) \/ FreeFilter(f) \/ Sync(f)
  PROVE  /\ UNCHANGED parser /\ DOMAIN due' = Channels /\ own' \in BOOLEAN
         /\ \A p \in Pids : next'[p][2] \notin {2, 3}
         /\ \A d \in Channels : Kept(d) \/ Fresh(d)
<1>1. UNCHANGED parser
  BY DEF AllocFilter, SetSecFilter, StartFilter, StopFilter, FreeFilter, Sync
<1>2. FilterInv /\ Typed /\ ChannelsExact /\ ChannelRefs /\ next \in [Pids -> Places]
  BY BytesInvIs DEF StructInv, ChannelsExact
<1>3. DOMAIN due = Channels /\ own \in BOOLEAN /\ \A p \in Pids : next[p][2] \notin {2, 3}
  BY DEF OutsideInv
<1>4. FilterInv' /\ \A g \in Filters : g # f => filter'[g] = filter[g]
  BY <1>2, FilterCalls
<1>5. CASE AllocFilter(f) \/ Sync(f)
  <2>1. UNCHANGED <<channel, due, next, own>>
    BY <1>5 DEF AllocFilter, Sync
  <2> QED BY <1>1, <1>3, <2>1 DEF Kept
<1>6. CASE SetSecFilter(f) \/ StopFilter(f) \/ FreeFilter(f)
  <2>1. channel' = Release(f) /\ next' = Listened(channel') /\ UNCHANGED <<due, own>>
    BY <1>6 DEF SetSecFilter, StopFilter, FreeFilter
  <2>2. ~filter'[f].enable
    <3>1. filter \in [Filters -> FilterRec]
      BY <1>2 DEF FilterInv, FilterRec
    <3>2. CASE SetSecFilter(f)
      <4>1. PICK pid \in Pids, tables \in TableSets :
              filter' = [filter EXCEPT ![f].enable = FALSE, ![f].pid = pid,
                                       ![f].tables = tables]
        BY <3>2 DEF SetSecFilter
      <4> QED BY <3>1, <4>1 DEF FilterRec
    <3>3. CASE StopFilter(f)
      BY <3>1, <3>3 DEF StopFilter, FilterRec
    <3>4. CASE FreeFilter(f)
      BY <3>1, <3>4 DEF FreeFilter, FilterRec
    <3> QED BY <1>6, <3>2, <3>3, <3>4
  <2>3. \A c \in Channels : /\ channel'[c].buf = channel[c].buf
                            /\ channel'[c].pid = channel[c].pid
                            /\ channel'[c].used > 0 => channel[c].used > 0
    BY <1>2, <1>4, <2>1, <2>2, Released
  <2>4. \A p \in Pids : next'[p] = next[p] \/ next'[p] = <<1, 1>>
    BY <2>1 DEF Listened
  <2>5. \A p \in Pids : next'[p][2] \notin {2, 3}
    BY <1>3, <2>4
  <2>6. ASSUME NEW d \in Channels, channel'[d].used > 0
        PROVE  next'[channel[d].pid] = next[channel[d].pid]
    <3>1. channel[d].pid \in Pids
      BY <2>3, <2>6, UsedPid
    <3>2. channel[d].pid \in UsedPids(channel')
      BY <2>3, <2>6 DEF UsedPids
    <3> QED BY <2>1, <3>1, <3>2 DEF Listened
  <2>7. \A d \in Channels : Kept(d)
    BY <2>1, <2>3, <2>6 DEF Kept
  <2> QED BY <1>1, <1>3, <2>1, <2>5, <2>7
<1>7. CASE StartFilter(f)
  <2>1. PICK c \in Channels :
              /\ \/ channel[c].used > 0 /\ channel[c].pid = filter[f].pid
                 \/ /\ channel[c].used = 0
                    /\ ~\E d \in Channels : channel[d].used > 0 /\ channel[d].pid = filter[f].pid
              /\ channel'[c].used = channel[c].used + 1
              /\ channel'[c].pid = filter[f].pid /\ channel'[c].buf = channel[c].buf
              /\ \A d \in Channels : d # c => channel'[d] = channel[d]
              /\ due' = [due EXCEPT ![c] = IF channel[c].used = 0 THEN {} ELSE @]
              /\ own' = (own /\ (c = ch => channel[c].used > 0))
              /\ IF channel[c].used > 0 THEN UNCHANGED next
                 ELSE \E x \in Positions : next' = [next EXCEPT ![filter[f].pid] = x]
    BY <1>2, <1>4, <1>7, Started
  <2>2. DOMAIN due' = Channels /\ \A d \in Channels : d # c => due'[d] = due[d]
    BY <1>3, <2>1
  <2>3. due'[c] = IF channel[c].used = 0 THEN {} ELSE due[c]
    BY <1>3, <2>1
  <2>4. filter[f].pid \in Pids
    BY <1>2, <1>7 DEF StartFilter, FilterInv
  <2>5. own \in BOOLEAN /\ own' \in BOOLEAN
    BY <1>3, <2>1
  <2>6. CASE channel[c].used > 0
    <3>1. next' = next /\ own' = own
      BY <2>1, <2>5, <2>6
    <3>2. \A d \in Channels : Kept(d)
      BY <2>1, <2>2, <2>3, <2>6, <3>1 DEF Kept
    <3> QED BY <1>1, <1>3, <2>2, <3>1, <3>2
  <2>7. CASE ~(channel[c].used > 0)
    <3>1. PICK x \in Positions : next' = [next EXCEPT ![filter[f].pid] = x]
      BY <2>1, <2>7
    <3>2. channel[c].used = 0 /\ ~(channel[c].used > 0)
      BY <2>1, <2>7
    <3>3. x[2] \notin {2, 3}
      BY DEF Positions
    <3>4. \A p \in Pids : next'[p] = IF p = filter[f].pid THEN x ELSE next[p]
      BY <1>2, <2>4, <3>1
    <3>5. \A p \in Pids : next'[p][2] \notin {2, 3}
      BY <1>3, <3>3, <3>4
    <3>6. Fresh(c)
      BY <2>1, <2>3, <3>2 DEF Fresh
    <3>7. ASSUME NEW d \in Channels, d # c PROVE Kept(d)
      <4>1. channel'[d] = channel[d] /\ due'[d] = due[d]
        BY <2>1, <2>2, <3>7
      <4>2. d = ch => own' = own
        BY <2>1, <2>5, <3>7
      <4>3. ASSUME channel[d].used > 0 PROVE next'[channel[d].pid] = next[channel[d].pid]
        <5>1. channel[d].pid \in Pids
          BY <4>3, UsedPid
        <5>2. channel[d].pid # filter[f].pid
          BY <2>1, <2>7, <4>3
        <5> QED BY <3>4, <5>1, <5>2
      <4> QED BY <4>1, <4>2, <4>3 DEF Kept
    <3> QED BY <1>1, <2>2, <2>5, <3>5, <3>6, <3>7
  <2> QED BY <2>6, <2>7
<1> QED BY <1>5, <1>6, <1>7

\* The parser's part of the invariant depends on the channel of the packet only.
LEMMA SameInside ==
  ASSUME InsideInv, UNCHANGED parser, own' = own,
         channel'[ch].buf = channel[ch].buf, channel'[ch].pid = channel[ch].pid,
         due'[ch] = due[ch],
         channel'[ch].used > 0 =>
           channel[ch].used > 0 /\ next'[channel[ch].pid] = next[channel[ch].pid]
  PROVE  InsideInv'
<1>1. SUFFICES ASSUME pc # "poll", own
               PROVE  InsideInv'
  BY DEF InsideInv, parser
<1>2. UNCHANGED <<pc, ch, head, rest, first>>
  BY DEF parser
<1>3. PICK n \in 0 .. Len(rest), a \in Places, e \in Places :
        /\ RestIs(n, a, e)
        /\ e[2] \notin {2, 3} /\ (channel[ch].used > 0 => next[channel[ch].pid] = e)
        /\ pc = "pointer" =>
             /\ first /\ a[2] = 1
             /\ \A i \in 1 .. Len(head) : head[i][3] # 1
             /\ \E h \in Places :
                  /\ Flow(channel[ch].pid, head, h, a)
                  /\ due[ch] # {} => UpTo(ch, h)
        /\ pc = "incb" /\ first => a[2] = 1
        /\ pc = "incb" /\ due[ch] # {} =>
             \E s \in Sections : Complete(ch, s) /\ (~first => a = <<After(s), 1>>)
        /\ pc = "loop" /\ due[ch] # {} => UpTo(ch, a)
  BY <1>1 DEF InsideInv
<1>4. RestIs(n, a, e)'
  BY <1>2, <1>3 DEF RestIs
<1>5. ASSUME NEW x, UpTo(ch, x) PROVE UpTo(ch, x)'
  BY <1>2, <1>5 DEF UpTo
<1>6. ASSUME NEW s, Complete(ch, s) PROVE Complete(ch, s)'
  BY <1>2, <1>6 DEF Complete
<1>7. ASSUME pc = "pointer"
      PROVE  /\ first' /\ a[2] = 1
             /\ \A i \in 1 .. Len(head') : head'[i][3] # 1
             /\ \E h \in Places :
                  /\ Flow(channel[ch].pid, head, h, a)'
                  /\ due'[ch'] # {} => UpTo(ch, h)'
  <2>1. PICK h \in Places : /\ Flow(channel[ch].pid, head, h, a)
                            /\ due[ch] # {} => UpTo(ch, h)
    BY <1>3, <1>7
  <2>2. Flow(channel[ch].pid, head, h, a)'
    BY <1>2, <2>1 DEF Flow, PlaceAt
  <2>3. due'[ch'] # {} => UpTo(ch, h)'
    BY <1>2, <1>5, <2>1
  <2> QED BY <1>2, <1>3, <1>7, <2>2, <2>3
<1>8. pc' = "incb" /\ due'[ch'] # {} =>
        \E s \in Sections : Complete(ch, s)' /\ (~first' => a = <<After(s), 1>>)
  BY <1>2, <1>3, <1>6
<1>9. pc' = "loop" /\ due'[ch'] # {} => UpTo(ch, a)'
  BY <1>2, <1>3, <1>5
<1>10. channel'[ch'].used > 0 => next'[channel'[ch'].pid] = e
  BY <1>2, <1>3
<1>11. pc' = "incb" /\ first' => a[2] = 1
  BY <1>2, <1>3
<1>12. pc' = "pointer" => pc = "pointer"
  BY <1>2
<1>13. n \in 0 .. Len(rest') /\ own'
  BY <1>1, <1>2
<1> QED BY <1>1, <1>3, <1>4, <1>7, <1>8, <1>9, <1>10, <1>11, <1>12, <1>13 DEF InsideInv

\* A client's call keeps the invariant.
LEMMA CallSteps ==
  ASSUME StructInv, OutsideInv, InsideInv, ~SplitHeaders, NEW f \in Filters,
         \/ AllocFilter(f) \/ SetSecFilter(f) \/ StartFilter(f)
         \/ StopFilter(f) \/ FreeFilter(f) \/ Sync(f)
  PROVE  OutsideInv' /\ InsideInv'
<1>1. /\ UNCHANGED parser /\ DOMAIN due' = Channels /\ own' \in BOOLEAN
      /\ \A p \in Pids : next'[p][2] \notin {2, 3}
      /\ \A d \in Channels : Kept(d) \/ Fresh(d)
  BY CallsKeep
<1>2. pc' = pc /\ ch' = ch
  BY <1>1 DEF parser
<1>3. ASSUME NEW c \in Channels, channel'[c].used > 0, due'[c] # {}, pc' = "poll" \/ c # ch'
      PROVE  UpTo(c, next[channel[c].pid])'
  <2>1. Kept(c)
    BY <1>1, <1>3 DEF Fresh
  <2>2. UpTo(c, next[channel[c].pid])
    BY <1>2, <1>3, <2>1 DEF OutsideInv, Kept
  <2> QED BY <1>3, <2>1, <2>2 DEF UpTo, Kept
<1>4. OutsideInv'
  BY <1>1, <1>3 DEF OutsideInv
<1>5. CASE pc = "poll"
  BY <1>2, <1>4, <1>5 DEF InsideInv
<1>6. CASE pc # "poll"
  <2>1. ch \in Channels
    BY <1>6 DEF StructInv, ParserInv
  <2>2. CASE Kept(ch)
    BY <1>1, <1>4, <2>2, SameInside DEF Kept
  <2>3. CASE Fresh(ch)
    BY <1>2, <1>4, <2>3 DEF Fresh, InsideInv
  <2> QED BY <1>1, <2>1, <2>2, <2>3
<1> QED BY <1>4, <1>5, <1>6

\* A new packet: its channel is where its pid was before.
LEMMA ArriveSteps ==
  ASSUME StructInv, OutsideInv, ~SplitHeaders, NEW p \in Pids, PacketArrives(p)
  PROVE  OutsideInv' /\ InsideInv'
<1>1. Typed /\ ChannelRefs /\ next \in [Pids -> Places]
  BY BytesInvIs DEF StructInv, ChannelsExact
<1>2. pc = "poll" /\ first' = TRUE /\ own' = TRUE /\ channel' = channel /\ due' = due
  BY DEF PacketArrives
<1>3. ch' \in Channels /\ channel[ch'].used > 0 /\ channel[ch'].pid = p
  BY <1>1, ArrivesIs
<1>4. PICK x \in Packets(p) : \E k \in 0 .. Len(x.taken) :
        /\ k = (IF x.start THEN Least(Starts(x.taken)) - 1 ELSE 0)
        /\ x.start => /\ k + 1 \in Starts(x.taken) /\ k + 1 \in 1 .. Len(x.taken)
                      /\ \A i \in Starts(x.taken) : k + 1 <= i
        /\ next' = [next EXCEPT ![p] = NextByte(x.taken)]
        /\ head' = SubSeq(x.taken, 1, k) /\ head' \in Seq(ByteSet) /\ Len(head') = k
        /\ rest' = SubSeq(x.taken, k + 1, Len(x.taken)) \o x.pad
        /\ rest' \in Seq(ByteSet)
        /\ pc' = IF x.start THEN "pointer" ELSE "loop"
  BY <1>1, ArrivesIs
<1>40. PICK k \in 0 .. Len(x.taken) :
        /\ k = (IF x.start THEN Least(Starts(x.taken)) - 1 ELSE 0)
        /\ x.start => /\ k + 1 \in Starts(x.taken) /\ k + 1 \in 1 .. Len(x.taken)
                      /\ \A i \in Starts(x.taken) : k + 1 <= i
        /\ next' = [next EXCEPT ![p] = NextByte(x.taken)]
        /\ head' = SubSeq(x.taken, 1, k) /\ head' \in Seq(ByteSet) /\ Len(head') = k
        /\ rest' = SubSeq(x.taken, k + 1, Len(x.taken)) \o x.pad
        /\ rest' \in Seq(ByteSet)
        /\ pc' = IF x.start THEN "pointer" ELSE "loop"
  BY <1>4
<1>5. PICK w, pad, e : w = x.taken /\ pad = x.pad /\ e = NextByte(x.taken)
  OBVIOUS
<1>6. /\ w \in Seq(ByteSet) /\ Len(w) \in Nat \ {0}
      /\ pad \in Seq(ByteSet) /\ \A i \in 1 .. Len(pad) : pad[i] = Stuffing
      /\ Flow(p, w, next[p], e)
      /\ Len(pad) > 0 => e[2] = 1
      /\ x.start <=> Starts(w) # {}
      /\ \A i \in Starts(w) : i + 2 <= Len(w)
  BY <1>1, <1>5, PacketIs
<1>7. DOMAIN w = 1 .. Len(w)
  BY <1>6, LenProperties
<1>8. \A i \in 1 .. Len(w) : w[i][3] = 1 => i \in Starts(w) /\ i + 2 <= Len(w)
  BY <1>6, <1>7 DEF Starts
<1>9. next[p][2] \notin {2, 3} /\ next[p] \in Places
  BY <1>1 DEF OutsideInv
<1>10. e[2] \notin {2, 3} /\ e \in Places
  <2>1. e[2] \notin {2, 3}
    BY <1>6, <1>8, <1>9, HeaderWhole
  <2> QED BY <1>6, <2>1 DEF Flow
<1>11. \A q \in Pids : next'[q] = IF q = p THEN e ELSE next[q]
  BY <1>1, <1>40, <1>5
<1>12. OutsideInv'
  <2>1. \A q \in Pids : next'[q][2] \notin {2, 3}
    BY <1>10, <1>11 DEF OutsideInv
  <2>2. ASSUME NEW c \in Channels, channel'[c].used > 0, due'[c] # {}, pc' = "poll" \/ c # ch'
        PROVE  UpTo(c, next[channel[c].pid])'
    <3>1. c # ch'
      BY <1>40, <2>2
    <3>2. channel[c].pid # p /\ channel[c].pid \in Pids
      BY <1>1, <1>2, <1>3, <2>2, <3>1, UsedPid DEF ChannelRefs
    <3>3. UpTo(c, next[channel[c].pid])
      BY <1>2, <2>2 DEF OutsideInv
    <3>4. next'[channel'[c].pid] = next[channel[c].pid]
      BY <1>2, <1>11, <3>2
    <3> QED BY <1>2, <3>3, <3>4 DEF UpTo
  <2>3. DOMAIN due' = Channels /\ own' \in BOOLEAN
    BY <1>2 DEF OutsideInv
  <2> QED BY <2>1, <2>2, <2>3 DEF OutsideInv
<1>13. PICK u, v, a, n : /\ u = SubSeq(w, 1, k) /\ v = SubSeq(w, k + 1, Len(w))
                         /\ a = PlaceAt(w, e, k + 1) /\ n = Len(pad)
  OBVIOUS
<1>14. /\ k \in 0 .. Len(w) /\ k \in Nat
       /\ u \in Seq(ByteSet) /\ Len(u) = k /\ \A i \in 1 .. k : u[i] = w[i]
       /\ v \in Seq(ByteSet) /\ Len(v) = Len(w) - k /\ \A i \in 1 .. (Len(w) - k) : v[i] = w[k + i]
  <2>1. k \in 0 .. Len(w)
    BY <1>40, <1>5
  <2>2. k \in Nat
    BY <1>6, <2>1
  <2> QED BY <1>6, <1>13, <2>1, <2>2, Parts, SMTT(30)
<1>15. a \in Places /\ Flow(p, u, next[p], a) /\ Flow(p, v, a, e)
  BY <1>6, <1>13, <1>14, FlowParts
<1>16. head' = u /\ rest' = v \o pad
  BY <1>40, <1>5, <1>13
<1>17. PICK z : z = v \o pad
  OBVIOUS
<1>18. /\ z \in Seq(ByteSet) /\ Len(z) = Len(v) + n /\ n \in Nat /\ Len(v) \in Nat
       /\ \A i \in 1 .. Len(v) + Len(pad) : z[i] = IF i <= Len(v) THEN v[i] ELSE pad[i - Len(v)]
  <2>1. Len(pad) \in Nat /\ Len(v) \in Nat
    BY <1>6, <1>14, LenProperties
  <2>2. /\ v \o pad \in Seq(ByteSet) /\ Len(v \o pad) = Len(v) + Len(pad)
        /\ \A i \in 1 .. Len(v) + Len(pad) :
             (v \o pad)[i] = IF i <= Len(v) THEN v[i] ELSE pad[i - Len(v)]
    <3>1. v \in Seq(ByteSet) /\ pad \in Seq(ByteSet)
      BY <1>6, <1>14
    <3> QED BY <3>1, ConcatProperties
  <2> QED BY <1>13, <1>17, <2>1, <2>2
<1>19. Len(v) > 0
  <2>1. CASE x.start
    BY <1>40, <1>5, <1>6, <1>14, <2>1
  <2>2. CASE ~x.start
    BY <1>40, <1>6, <1>14, <2>2
  <2> QED BY <2>1, <2>2
<1>20. Tape(z, p, n, a, e) /\ n \in 0 .. Len(z) /\ Len(z) - n > 0
  <2>1. Len(z) - n = Len(v) /\ Len(v) \in 0 .. Len(z) /\ n \in 0 .. Len(z)
    BY <1>18
  <2>2. ASSUME NEW i \in (Len(v) + 1) .. Len(z) PROVE z[i] = Stuffing
    <3>1. i \in 1 .. Len(v) + Len(pad) /\ ~(i <= Len(v)) /\ i - Len(v) \in 1 .. Len(pad)
      BY <1>13, <1>18
    <3> QED BY <1>6, <1>18, <3>1
  <2>3. PICK y : y = SubSeq(z, 1, Len(v))
    OBVIOUS
  <2>4. y \in Seq(ByteSet) /\ Len(y) = Len(v) /\ \A i \in 1 .. Len(v) : y[i] = z[i]
    BY <1>18, <2>1, <2>3, Parts
  <2>5. \A i \in 1 .. Len(v) : z[i] = v[i]
    <3> SUFFICES ASSUME NEW i \in 1 .. Len(v) PROVE z[i] = v[i]
      OBVIOUS
    <3>1. Len(pad) \in Nat /\ Len(v) \in Nat
      BY <1>13, <1>18
    <3>2. i \in 1 .. Len(v) + Len(pad) /\ i <= Len(v)
      BY <3>1
    <3> QED BY <1>18, <3>2
  <2>6. y = v
    BY <1>14, <2>4, <2>5, SeqEqual
  <2>7. ASSUME NEW i \in 1 .. Len(v), z[i][3] = 1 PROVE i + 2 <= Len(v)
    <3>1. w[k + i][3] = 1 /\ k + i \in 1 .. Len(w)
      BY <1>6, <1>14, <2>5, <2>7
    <3>2. (k + i) + 2 <= Len(w)
      BY <1>8, <3>1
    <3> QED BY <1>6, <1>14, <3>2
  <2> QED BY <1>6, <1>13, <1>15, <1>19, <2>1, <2>2, <2>3, <2>6, <2>7 DEF Tape
<1>21. rest' = z /\ channel'[ch'].pid = p
  BY <1>2, <1>3, <1>16, <1>17
<1>22. RestIs(n, a, e)' /\ n \in 0 .. Len(rest')
  BY <1>18, <1>20, <1>21, RestTapeNext
<1>23. next'[channel'[ch'].pid] = e
  BY <1>11, <1>21
<1>h. PICK h : h = next[p]
  OBVIOUS
<1>24. ASSUME due'[ch'] # {} PROVE UpTo(ch, h)'
  <2>1. PICK c : c = ch'
    OBVIOUS
  <2>2. UpTo(c, h)
    BY <1>2, <1>3, <1>24, <1>h, <2>1 DEF OutsideInv
  <2> QED BY <1>2, <2>1, <2>2 DEF UpTo
<1>25. CASE x.start
  <2>1. pc' = "pointer" /\ k + 1 \in Starts(w) /\ k + 1 \in 1 .. Len(w)
        /\ \A i \in Starts(w) : k + 1 <= i
    BY <1>40, <1>5, <1>25
  <2>2. a[2] = 1
    <3>1. w[k + 1][3] = 1 /\ k + 1 <= Len(w)
      BY <1>6, <2>1 DEF Starts
    <3> QED BY <1>13, <3>1 DEF PlaceAt
  <2>3. ASSUME NEW i \in 1 .. Len(head') PROVE head'[i][3] # 1
    <3>1. i \in 1 .. k /\ i \in 1 .. Len(w) /\ ~(k + 1 <= i)
      BY <1>6, <1>14, <1>16
    <3>2. head'[i] = w[i]
      BY <1>14, <1>16, <3>1
    <3> QED BY <1>8, <2>1, <3>1, <3>2
  <2>4. Flow(channel[ch].pid, head, h, a)'
    <3>1. Flow(channel'[ch'].pid, head', h, a)
      BY <1>15, <1>16, <1>21, <1>h
    <3> QED BY <3>1 DEF Flow, PlaceAt
  <2>5. h \in Places
    BY <1>9, <1>h
  <2>6. /\ first' /\ a[2] = 1
        /\ \A i \in 1 .. Len(head') : head'[i][3] # 1
        /\ \E g \in Places :
             /\ Flow(channel[ch].pid, head, g, a)'
             /\ due'[ch'] # {} => UpTo(ch, g)'
    BY <1>2, <1>24, <2>2, <2>3, <2>4, <2>5
  <2> QED BY <1>2, <1>10, <1>12, <1>15, <1>22, <1>23, <2>1, <2>6 DEF InsideInv
<1>26. CASE ~x.start
  <2>1. pc' = "loop" /\ k = 0
    BY <1>40, <1>26
  <2>2. a = h
    BY <1>6, <1>13, <1>h, <2>1 DEF Flow
  <2>3. due'[ch'] # {} => UpTo(ch, a)'
    BY <1>24, <2>2
  <2> QED BY <1>2, <1>10, <1>12, <1>15, <1>22, <1>23, <2>1, <2>3 DEF InsideInv
<1> QED BY <1>25, <1>26

\* Packets are lost: nothing is claimed of the channel until the next section start.
LEMMA LostSteps ==
  ASSUME StructInv, OutsideInv, ~SplitHeaders, NEW p \in Pids, PacketLost(p)
  PROVE  OutsideInv' /\ InsideInv'
<1>1. pc = "poll" /\ UNCHANGED <<channel, parser, own>>
  BY DEF PacketLost
<1>2. pc' = "poll" /\ ch' = ch
  BY <1>1 DEF parser
<1>3. PICK x \in Positions : next' = [next EXCEPT ![p] = x]
  BY DEF PacketLost
<1>4. due' = [c \in Channels |-> IF channel[c].pid = p THEN {} ELSE due[c]]
  BY DEF PacketLost
<1>5. next \in [Pids -> Places]
  BY BytesInvIs DEF StructInv
<1>6. \A q \in Pids : next'[q] = IF q = p THEN x ELSE next[q]
  BY <1>3, <1>5
<1>7. \A q \in Pids : next'[q][2] \notin {2, 3}
  BY <1>6 DEF OutsideInv, Positions
<1>8. ASSUME NEW c \in Channels, channel'[c].used > 0, due'[c] # {}
      PROVE  UpTo(c, next[channel[c].pid])'
  <2>1. channel[c].pid # p /\ due'[c] = due[c]
    BY <1>4, <1>8
  <2>2. channel[c].pid \in Pids
    BY <1>1, <1>8, UsedPid
  <2>3. UpTo(c, next[channel[c].pid])
    BY <1>1, <1>8, <2>1 DEF OutsideInv
  <2>4. next'[channel'[c].pid] = next[channel[c].pid]
    BY <1>1, <1>6, <2>1, <2>2
  <2> QED BY <1>1, <2>1, <2>3, <2>4 DEF UpTo
<1>9. DOMAIN due' = Channels /\ own' \in BOOLEAN
  BY <1>1, <1>4 DEF OutsideInv
<1> QED BY <1>2, <1>7, <1>8, <1>9 DEF OutsideInv, InsideInv

\* The parser disturbs no other channel.
LEMMA OutsideKept ==
  ASSUME OutsideInv, pc # "poll", pc' # "poll", UNCHANGED <<ch, next, own>>,
         DOMAIN due' = DOMAIN due,
         \A d \in Channels : d # ch => channel'[d] = channel[d] /\ due'[d] = due[d]
  PROVE  OutsideInv'
<1>1. ASSUME NEW c \in Channels, channel'[c].used > 0, due'[c] # {}, pc' = "poll" \/ c # ch'
      PROVE  UpTo(c, next[channel[c].pid])'
  <2>1. c # ch /\ channel'[c] = channel[c] /\ due'[c] = due[c]
    BY <1>1
  <2>2. UpTo(c, next[channel[c].pid])
    BY <1>1, <2>1 DEF OutsideInv
  <2> QED BY <2>1, <2>2 DEF UpTo
<1> QED BY <1>1 DEF OutsideInv

\* The ghost after a section.
LEMMA DueIs ==
  ASSUME own \in BOOLEAN, NEW complete
  PROVE  /\ ~own => Due(complete) = {}
         /\ own /\ pc = "pointer" => Due(complete) = {rest[1][2]}
         /\ own /\ pc = "loop" /\ complete => Due(complete) = {After(s) : s \in due[ch]}
         /\ own /\ pc = "loop" /\ ~complete => Due(complete) = due[ch]
  BY DEF Due

\* Bytes of a flow are of its pid.
LEMMA FlowPid ==
  ASSUME NEW p, NEW w \in Seq(ByteSet), NEW a, NEW e, Flow(p, w, a, e), Len(w) > 0
  PROVE  p \in Pids /\ a = <<w[1][2], w[1][3]>>
<1>1. Len(w) \in Nat
  BY LenProperties
<1>2. 1 \in 1 .. Len(w) /\ 1 <= Len(w)
  BY <1>1
<1>3. w[1] \in ByteSet /\ w[1] # Stuffing /\ w[1][1] = p
  BY <1>2, ElementOfSeq DEF Flow
<1>4. p \in Pids
  BY <1>3 DEF ByteSet
<1>5. PlaceAt(w, e, 1) = a
  BY DEF Flow
<1> QED BY <1>2, <1>4, <1>5 DEF PlaceAt

\* Bytes that follow each other and stop before a section start end a section.
LEMMA FlowReaches ==
  ASSUME NEW p, NEW w \in Seq(ByteSet), NEW a \in Places, NEW e, Flow(p, w, a, e),
         Len(w) > 0, e[2] = 1
  PROVE  Lengths[a[1]] - a[2] + 1 <= Len(w)
<1>1. PICK q : q = Lengths[a[1]] - a[2] + 1
  OBVIOUS
<1>2. q \in Nat /\ a[2] \in Nat \ {0} /\ Len(w) \in Nat
  BY <1>1, PlacesAre, LenProperties
<1>3. SUFFICES ASSUME Len(w) < q PROVE FALSE
  BY <1>1, <1>2
<1>4. Len(w) + 1 \in 1 .. (Len(w) + 1) /\ Len(w) + 1 <= Lengths[a[1]] - a[2] + 1
  BY <1>1, <1>2, <1>3
<1>5. \A i \in 1 .. (Len(w) + 1) :
        i <= Lengths[a[1]] - a[2] + 1 => PlaceAt(w, e, i) = <<a[1], a[2] + i - 1>>
  BY FlowStays
<1>6. PlaceAt(w, e, Len(w) + 1) = <<a[1], a[2] + (Len(w) + 1) - 1>>
  BY <1>4, <1>5
<1>7. PlaceAt(w, e, Len(w) + 1) = e
  BY <1>2 DEF PlaceAt
<1>8. e[2] = a[2] + (Len(w) + 1) - 1
  BY <1>6, <1>7
<1> QED BY <1>2, <1>8

\* At the start that the pointer field gives, a channel that has followed its pid has
\* just been given the end of its section.
LEMMA PointerWhole ==
  ASSUME StructInv, ch \in Channels, NEW a \in Places, a[2] = 1,
         \A i \in 1 .. Len(head) : head[i][3] # 1,
         NEW h \in Places, Flow(channel[ch].pid, head, h, a), UpTo(ch, h),
         CheckSec(ch, head).done
  PROVE  CheckSec(ch, head).buf = Bytes(channel[ch].pid, h[1], 1)
<1>1. /\ channel[ch].buf \in Seq(ByteSet) /\ Held(channel[ch].buf)
      /\ garbage \in Garbage /\ head \in Seq(ByteSet)
  BY BytesInvIs DEF StructInv, Typed, ChannelRec
<1>2. PICK p, w : p = channel[ch].pid /\ w = head
  OBVIOUS
<1>3. w \in Seq(ByteSet) /\ Flow(p, w, h, a) /\ Len(w) \in Nat
  BY <1>1, <1>2, LenProperties
<1>4. h[2] \notin {2, 3} /\ channel[ch].buf = Part(p, h[1], h[2] - 1)
  BY <1>2 DEF UpTo
<1>5. Len(w) > 0
  <2>1. SUFFICES ASSUME Len(w) = 0 PROVE FALSE
    BY <1>3
  <2>2. h = a
    BY <1>3, <2>1 DEF Flow, PlaceAt
  <2>3. channel[ch].buf = <<>>
    <3>1. h[2] - 1 = 0
      BY <2>2
    <3>2. Part(p, h[1], 0) = <<>>
      BY DEF Part
    <3> QED BY <1>4, <3>1, <3>2
  <2>4. Len(channel[ch].buf) = 0
    BY <2>3, EmptySeq
  <2>5. Len(channel[ch].buf \o head) = 0 /\ Len(channel[ch].buf \o head) < 3
    BY <1>1, <1>2, <2>1, <2>4, ConcatProperties
  <2>6. ~CheckSec(ch, head).done
    BY <1>1, <2>5, CheckSecIs
  <2> QED BY <2>6
<1>6. p \in Pids /\ h = <<w[1][2], w[1][3]>>
  BY <1>3, <1>5, FlowPid
<1>7. PICK q : q = Lengths[h[1]] - h[2] + 1
  OBVIOUS
<1>8. q \in Nat /\ h[2] \in Nat \ {0}
  BY <1>7, PlacesAre
<1>9. q <= Len(w)
  <2>1. w \in Seq(ByteSet) /\ Flow(p, w, h, a) /\ Len(w) > 0
    BY <1>3, <1>5
  <2> QED BY <1>7, <2>1, FlowReaches
<1>10. \A i \in 1 .. Len(w) : w[i][3] = 1 => i + 2 <= Len(w)
  BY <1>2
<1>11. CheckSec(ch, w).buf = Bytes(p, h[1], 1)
  <2>1. \A i \in 1 .. Len(w) : w[i] = w[i]
    OBVIOUS
  <2>2. Len(w) <= Len(w)
    BY <1>3
  <2>3. channel[ch].buf \in Seq(ByteSet) /\ Held(channel[ch].buf) /\ garbage \in Garbage
    BY <1>1
  <2>4. Lengths[h[1]] - h[2] + 1 <= Len(w)
    BY <1>7, <1>9
  <2>5. w \in Seq(ByteSet) /\ Flow(p, w, h, a)
    BY <1>3
  <2>6. p \in Pids
    BY <1>6
  <2> QED BY <1>4, <1>5, <1>10, <2>1, <2>2, <2>3, <2>4, <2>5, <2>6, Assembles
<1> QED BY <1>2, <1>11

\* The parser goes on in what is left of the packet.
LEMMA InsideNext ==
  ASSUME own', pc' \in {"loop", "incb"}, NEW n \in 0 .. Len(rest'), NEW a \in Places,
         NEW e \in Places, RestIs(n, a, e)', e[2] \notin {2, 3},
         channel'[ch'].used > 0 => next'[channel'[ch'].pid] = e,
         pc' = "incb" /\ first' => a[2] = 1,
         pc' = "incb" /\ due'[ch'] # {} =>
           \E s \in Sections : Complete(ch, s)' /\ (~first' => a = <<After(s), 1>>),
         pc' = "loop" /\ due'[ch'] # {} => UpTo(ch, a)'
  PROVE  InsideInv'
  BY DEF InsideInv

\* What is left of the packet, when nothing is taken of it.
LEMMA RestKept ==
  ASSUME NEW n, NEW a, NEW e, RestIs(n, a, e), UNCHANGED <<ch, rest, first>>,
         channel'[ch].pid = channel[ch].pid
  PROVE  RestIs(n, a, e)'
  BY DEF RestIs, Flow, PlaceAt

\* Until something is taken of it, the rest starts with a section's byte.
LEMMA RestFirst ==
  ASSUME rest \in Seq(ByteSet), NEW n \in 0 .. Len(rest), NEW a, NEW e, RestIs(n, a, e), first
  PROVE  a = <<rest[1][2], rest[1][3]>>
<1>1. PICK z, p, m : z = rest /\ p = channel[ch].pid /\ m = Len(rest) - n
  OBVIOUS
<1>2. Tape(rest, channel[ch].pid, n, a, e) /\ Len(rest) - n > 0
  BY RestTape
<1>3. z \in Seq(ByteSet) /\ Len(z) \in Nat /\ m \in 0 .. Len(z) /\ m > 0
  BY <1>1, <1>2, LenProperties
<1>4. /\ SubSeq(z, 1, m) \in Seq(ByteSet) /\ Len(SubSeq(z, 1, m)) = m
      /\ \A i \in 1 .. m : SubSeq(z, 1, m)[i] = z[i]
  BY <1>3, Parts
<1>5. SubSeq(z, 1, m)[1] = z[1]
  BY <1>3, <1>4
<1>6. Flow(p, SubSeq(z, 1, m), a, e)
  BY <1>1, <1>2 DEF Tape
<1>7. PICK w : w = SubSeq(z, 1, m)
  OBVIOUS
<1>8. w \in Seq(ByteSet) /\ Len(w) > 0 /\ Flow(p, w, a, e)
  BY <1>3, <1>4, <1>6, <1>7
<1>9. a = <<w[1][2], w[1][3]>>
  BY <1>8, FlowPid
<1> QED BY <1>1, <1>5, <1>7, <1>9

\* What the parser's channel knows: the bytes it holds, and the packet's.
LEMMA ParserKnows ==
  ASSUME StructInv, pc # "poll"
  PROVE  /\ ch \in Channels /\ Typed /\ channel[ch].buf \in Seq(ByteSet)
         /\ Held(channel[ch].buf) /\ garbage \in Garbage
         /\ head \in Seq(ByteSet) /\ rest \in Seq(ByteSet)
<1>1. ch \in Channels
  BY DEF StructInv, ParserInv
<1>2. /\ Typed /\ Held(channel[ch].buf) /\ garbage \in Garbage
      /\ head \in Seq(ByteSet) /\ rest \in Seq(ByteSet)
  BY <1>1, BytesInvIs DEF StructInv
<1>3. channel[ch].buf \in Seq(ByteSet)
  BY <1>1, <1>2 DEF Typed, ChannelRec
<1> QED BY <1>1, <1>2, <1>3

\* parse_sec up to the first section start: the channel gets the end of its section, or
\* is emptied.
LEMMA BeforeSteps ==
  ASSUME StructInv, OutsideInv, InsideInv, ParseBeforeStart
  PROVE  OutsideInv' /\ InsideInv'
<1>1. pc = "pointer" /\ UNCHANGED <<ch, head, rest, first, own, next, garbage>>
  BY DEF ParseBeforeStart
<1>2. /\ ch \in Channels /\ Typed /\ channel[ch].buf \in Seq(ByteSet)
      /\ Held(channel[ch].buf) /\ garbage \in Garbage
      /\ head \in Seq(ByteSet) /\ rest \in Seq(ByteSet)
  BY <1>1, ParserKnows
<1>3. PICK r, empty : r = CheckSec(ch, head) /\ empty = TRUE
  OBVIOUS
<1>4. Collect(r, empty)
  BY <1>3 DEF ParseBeforeStart, EmptyAtStart
<1>5. r.buf \in Seq(ByteSet)
  BY <1>2, <1>3, CheckSecIs
<1>6. /\ \A d \in Channels : d # ch => channel'[d] = channel[d]
      /\ channel'[ch].used = channel[ch].used /\ channel'[ch].pid = channel[ch].pid
      /\ \/ r.done /\ channel'[ch].buf = r.buf /\ pc' = "incb"
         \/ /\ channel'[ch].buf = IF r.done \/ empty THEN <<>> ELSE r.buf
            /\ pc' = "loop"
  BY <1>2, <1>4, <1>5, Collected
<1>7. due' = [due EXCEPT ![ch] = IF pc' = "incb" THEN @ ELSE Due(r.done)]
  BY <1>3 DEF ParseBeforeStart
<1>8. DOMAIN due = Channels /\ own \in BOOLEAN
  BY DEF OutsideInv
<1>9. /\ DOMAIN due' = DOMAIN due /\ \A d \in Channels : d # ch => due'[d] = due[d]
      /\ due'[ch] = IF pc' = "incb" THEN due[ch] ELSE Due(r.done)
  BY <1>2, <1>7, <1>8
<1>10. pc' \in {"loop", "incb"} /\ pc # "poll" /\ pc' # "poll"
  BY <1>1, <1>6
<1>11. OutsideInv'
  BY <1>1, <1>6, <1>9, <1>10, OutsideKept
<1>12. CASE ~own
  <2>1. due[ch] = {} /\ Due(r.done) = {}
    BY <1>8, <1>10, <1>12, DueIs DEF InsideInv
  <2>2. due'[ch'] = {} /\ ~own'
    BY <1>1, <1>9, <1>12, <2>1
  <2> QED BY <1>11, <2>2 DEF InsideInv
<1>13. CASE own
  <2>1. PICK n \in 0 .. Len(rest), a \in Places, e \in Places :
          /\ RestIs(n, a, e) /\ first /\ a[2] = 1
          /\ e[2] \notin {2, 3} /\ (channel[ch].used > 0 => next[channel[ch].pid] = e)
          /\ \A i \in 1 .. Len(head) : head[i][3] # 1
          /\ \E h \in Places :
               /\ Flow(channel[ch].pid, head, h, a)
               /\ due[ch] # {} => UpTo(ch, h)
    BY <1>1, <1>10, <1>13 DEF InsideInv
  <2>2. PICK h \in Places : /\ Flow(channel[ch].pid, head, h, a)
                            /\ due[ch] # {} => UpTo(ch, h)
    BY <2>1
  <2>3. RestIs(n, a, e)'
    BY <1>1, <1>6, <2>1, RestKept
  <2>4. n \in 0 .. Len(rest') /\ first' /\ own'
    BY <1>1, <1>13, <2>1
  <2>5. channel'[ch'].used > 0 => next'[channel'[ch'].pid] = e
    BY <1>1, <1>6, <2>1
  <2>6. ASSUME pc' = "incb", due'[ch'] # {}
        PROVE  \E s \in Sections : Complete(ch, s)' /\ (~first' => a = <<After(s), 1>>)
    <3>1. due[ch] # {} /\ due'[ch] = due[ch] /\ r.done /\ channel'[ch].buf = r.buf
      BY <1>1, <1>6, <1>9, <2>6
    <3>2. UpTo(ch, h)
      BY <2>2, <3>1
    <3>3. CheckSec(ch, head).buf = Bytes(channel[ch].pid, h[1], 1)
      BY <1>2, <1>3, <2>1, <2>2, <3>1, <3>2, PointerWhole
    <3>4. due[ch] = {h[1]}
      BY <3>2 DEF UpTo
    <3>5. h[1] \in Sections
      BY PlacesAre
    <3>6. Complete(ch, h[1])'
      BY <1>1, <1>3, <1>6, <3>1, <3>3, <3>4 DEF Complete, Bytes
    <3> QED BY <2>4, <3>5, <3>6
  <2>7. ASSUME pc' = "loop", due'[ch'] # {}
        PROVE  UpTo(ch, a)'
    <3>1. channel'[ch].buf = <<>> /\ due'[ch] = Due(r.done)
      BY <1>3, <1>6, <1>9, <2>7
    <3>2. Due(r.done) = {rest[1][2]}
      BY <1>1, <1>8, <1>13, DueIs
    <3>3. a = <<rest[1][2], rest[1][3]>>
      BY <1>2, <2>1, RestFirst
    <3>4. due'[ch] = {a[1]}
      BY <3>1, <3>2, <3>3
    <3>5. Part(channel'[ch].pid, a[1], a[2] - 1) = <<>>
      BY <2>1 DEF Part
    <3> QED BY <1>1, <2>1, <3>1, <3>4, <3>5 DEF UpTo, Part
  <2>8. InsideInv'
    BY <1>10, <2>1, <2>3, <2>4, <2>5, <2>6, <2>7, InsideNext
  <2> QED BY <1>11, <2>8
<1> QED BY <1>8, <1>12, <1>13

\* The callback returns: the channel is emptied and waits for the next section.
LEMMA ReturnSteps ==
  ASSUME StructInv, OutsideInv, InsideInv, CallbackReturns
  PROVE  OutsideInv' /\ InsideInv'
<1>1. pc = "incb" /\ pc' = "loop" /\ UNCHANGED <<ch, head, rest, first, own, next, garbage>>
  BY DEF CallbackReturns
<1>2. ch \in Channels /\ Typed /\ rest \in Seq(ByteSet)
  BY <1>1, ParserKnows
<1>3. PICK b : b = <<>>
  OBVIOUS
<1>4. b \in Seq(ByteSet) /\ channel' = [channel EXCEPT ![ch].buf = b]
  BY <1>3, EmptySeq DEF CallbackReturns
<1>5. /\ \A d \in Channels : d # ch => channel'[d] = channel[d]
      /\ channel'[ch].used = channel[ch].used /\ channel'[ch].pid = channel[ch].pid
      /\ channel'[ch].buf = b
  BY <1>2, <1>4, BufSet
<1>6. DOMAIN due = Channels /\ own \in BOOLEAN
  BY DEF OutsideInv
<1>7. /\ DOMAIN due' = DOMAIN due /\ \A d \in Channels : d # ch => due'[d] = due[d]
      /\ ~own => due'[ch] = {}
      /\ own /\ first => due'[ch] = {rest[1][2]}
      /\ own /\ ~first => due'[ch] = {After(s) : s \in due[ch]}
  BY <1>2, <1>6 DEF CallbackReturns
<1>8. OutsideInv'
  BY <1>1, <1>5, <1>7, OutsideKept
<1>9. CASE ~own
  <2>1. due'[ch'] = {} /\ ~own'
    BY <1>1, <1>7, <1>9
  <2> QED BY <1>8, <2>1 DEF InsideInv
<1>10. CASE own
  <2>1. PICK n \in 0 .. Len(rest), a \in Places, e \in Places :
          /\ RestIs(n, a, e)
          /\ e[2] \notin {2, 3} /\ (channel[ch].used > 0 => next[channel[ch].pid] = e)
          /\ first => a[2] = 1
          /\ due[ch] # {} => \E s \in Sections : Complete(ch, s) /\ (~first => a = <<After(s), 1>>)
    BY <1>1, <1>10 DEF InsideInv
  <2>2. RestIs(n, a, e)'
    BY <1>1, <1>5, <2>1, RestKept
  <2>3. n \in 0 .. Len(rest') /\ own' /\ pc' \in {"loop", "incb"}
    BY <1>1, <1>10, <2>1
  <2>4. channel'[ch'].used > 0 => next'[channel'[ch'].pid] = e
    BY <1>1, <1>5, <2>1
  <2>5. ASSUME due'[ch'] # {}
        PROVE  UpTo(ch, a)'
    <3>1. a[2] = 1 /\ due'[ch] = {a[1]}
      <4>1. CASE first
        <5>1. a = <<rest[1][2], rest[1][3]>>
          BY <1>2, <2>1, <4>1, RestFirst
        <5> QED BY <1>7, <1>10, <2>1, <4>1, <5>1
      <4>2. CASE ~first
        <5>1. due[ch] # {}
          BY <1>1, <1>7, <1>10, <2>5, <4>2
        <5>2. PICK s \in Sections : Complete(ch, s) /\ a = <<After(s), 1>>
          BY <2>1, <4>2, <5>1
        <5>3. due[ch] = {s}
          BY <5>2 DEF Complete
        <5> QED BY <1>7, <1>10, <4>2, <5>2, <5>3
      <4> QED BY <4>1, <4>2
    <3>2. Part(channel'[ch].pid, a[1], a[2] - 1) = <<>>
      BY <3>1 DEF Part
    <3> QED BY <1>1, <1>3, <1>5, <3>1, <3>2 DEF UpTo, Part
  <2>6. InsideInv'
    BY <1>1, <2>1, <2>2, <2>3, <2>4, <2>5, InsideNext
  <2> QED BY <1>8, <2>6
<1> QED BY <1>6, <1>9, <1>10

\* At the end of the packet no byte of a section is left.
LEMMA RestOver ==
  ASSUME rest \in Seq(ByteSet), ~MoreSections, NEW n \in 0 .. Len(rest), NEW a, NEW e,
         RestIs(n, a, e)
  PROVE  a = e
<1>1. PICK z, p, m : z = rest /\ p = channel[ch].pid /\ m = Len(rest) - n
  OBVIOUS
<1>2. Tape(rest, channel[ch].pid, n, a, e) /\ (first => Len(rest) - n > 0)
  BY RestTape
<1>3. z \in Seq(ByteSet) /\ Len(z) \in Nat /\ m \in 0 .. Len(z)
  BY <1>1, LenProperties
<1>4. /\ SubSeq(z, 1, m) \in Seq(ByteSet) /\ Len(SubSeq(z, 1, m)) = m
      /\ \A i \in 1 .. m : SubSeq(z, 1, m)[i] = z[i]
  BY <1>3, Parts
<1>5. Flow(p, SubSeq(z, 1, m), a, e)
  BY <1>1, <1>2 DEF Tape
<1>6. m = 0
  <2>1. SUFFICES ASSUME m > 0 PROVE FALSE
    BY <1>3
  <2>2. z # <<>> /\ 1 \in 1 .. m
    BY <1>3, <2>1, EmptySeq
  <2>3. Head(rest) = Stuffing
    BY <1>1, <2>2 DEF MoreSections
  <2>4. SubSeq(z, 1, m)[1] = Stuffing
    BY <1>1, <1>3, <1>4, <2>2, <2>3
  <2> QED BY <1>4, <1>5, <2>2, <2>4 DEF Flow
<1>7. PICK w : w = SubSeq(z, 1, m)
  OBVIOUS
<1>8. Len(w) = 0 /\ Flow(p, w, a, e)
  BY <1>4, <1>5, <1>6, <1>7
<1> QED BY <1>8 DEF Flow, PlaceAt

\* The packet is done: the channel is where its pid is.
LEMMA DoneSteps ==
  ASSUME StructInv, OutsideInv, InsideInv, PacketDone
  PROVE  OutsideInv' /\ InsideInv'
<1>1. /\ pc = "loop" /\ pc' = "poll" /\ ~MoreSections /\ own'
      /\ UNCHANGED <<channel, next, due>>
  BY DEF PacketDone
<1>2. ch \in Channels /\ rest \in Seq(ByteSet)
  BY <1>1, ParserKnows
<1>3. ASSUME NEW c \in Channels, channel[c].used > 0, due[c] # {}
      PROVE  UpTo(c, next[channel[c].pid])
  <2>1. CASE c # ch
    BY <1>3, <2>1 DEF OutsideInv
  <2>2. CASE c = ch
    <3>1. own
      BY <1>1, <1>3, <2>2 DEF InsideInv
    <3>2. PICK n \in 0 .. Len(rest), a \in Places, e \in Places :
            RestIs(n, a, e) /\ next[channel[ch].pid] = e /\ UpTo(ch, a)
      BY <1>1, <1>3, <2>2, <3>1 DEF InsideInv
    <3>3. a = e
      BY <1>1, <1>2, <3>2, RestOver
    <3> QED BY <2>2, <3>2, <3>3
  <2> QED BY <2>1, <2>2
<1>4. ASSUME NEW c \in Channels, channel'[c].used > 0, due'[c] # {}
      PROVE  UpTo(c, next[channel[c].pid])'
  <2>1. UpTo(c, next[channel[c].pid])
    BY <1>1, <1>3, <1>4
  <2> QED BY <1>1, <2>1 DEF UpTo
<1>5. DOMAIN due' = Channels /\ own' \in BOOLEAN /\ \A p \in Pids : next'[p][2] \notin {2, 3}
  BY <1>1 DEF OutsideInv
<1> QED BY <1>1, <1>4, <1>5 DEF OutsideInv, InsideInv

\* Bytes that follow each other and stop inside a section.
LEMMA FlowInside ==
  ASSUME NEW p, NEW w \in Seq(ByteSet), NEW a \in Places, NEW e, Flow(p, w, a, e),
         Len(w) < Lengths[a[1]] - a[2] + 1
  PROVE  e = <<a[1], a[2] + Len(w)>>
<1>1. PICK q : q = Lengths[a[1]] - a[2] + 1
  OBVIOUS
<1>2. q \in Nat /\ a[2] \in Nat \ {0} /\ Len(w) \in Nat
  BY <1>1, PlacesAre, LenProperties
<1>3. Len(w) + 1 \in 1 .. (Len(w) + 1) /\ Len(w) + 1 <= Lengths[a[1]] - a[2] + 1
  BY <1>1, <1>2
<1>4. \A i \in 1 .. (Len(w) + 1) :
        i <= Lengths[a[1]] - a[2] + 1 => PlaceAt(w, e, i) = <<a[1], a[2] + i - 1>>
  BY FlowStays
<1>5. PlaceAt(w, e, Len(w) + 1) = <<a[1], a[2] + (Len(w) + 1) - 1>>
  BY <1>3, <1>4
<1>6. PlaceAt(w, e, Len(w) + 1) = e
  BY <1>2 DEF PlaceAt
<1>7. a[2] + (Len(w) + 1) - 1 = a[2] + Len(w)
  BY <1>2
<1> QED BY <1>5, <1>6, <1>7

\* Bytes that follow each other and go on behind a section.
LEMMA FlowBehind ==
  ASSUME NEW p, NEW w \in Seq(ByteSet), NEW a \in Places, NEW e, Flow(p, w, a, e),
         Lengths[a[1]] - a[2] + 1 <= Len(w)
  PROVE  PlaceAt(w, e, Lengths[a[1]] - a[2] + 1 + 1) = <<After(a[1]), 1>>
  BY FlowStays

\* As long as the loop goes on, bytes of sections are left.
LEMMA RestMore ==
  ASSUME rest \in Seq(ByteSet), MoreSections, NEW n \in 0 .. Len(rest), NEW a, NEW e,
         RestIs(n, a, e)
  PROVE  Len(rest) - n > 0
<1>1. Tape(rest, channel[ch].pid, n, a, e) /\ (first => Len(rest) - n > 0)
  BY RestTape
<1>2. Len(rest) \in Nat
  BY LenProperties
<1>3. SUFFICES ASSUME n = Len(rest) PROVE FALSE
  BY <1>2
<1>4. rest # <<>> /\ ~first /\ Head(rest) # Stuffing
  BY <1>1, <1>2, <1>3 DEF MoreSections
<1>5. Len(rest) > 0
  BY <1>2, <1>4, EmptySeq
<1>6. 1 \in (Len(rest) - n + 1) .. Len(rest)
  BY <1>2, <1>3, <1>5
<1>7. rest[1] = Stuffing
  BY <1>1, <1>6 DEF Tape
<1> QED BY <1>4, <1>7

\* check_sec on the rest of a packet: the section is whole and the rest is behind it, or
\* the packet ends inside the section.
LEMMA SectionTaken ==
  ASSUME NEW c, channel[c].buf \in Seq(ByteSet), Held(channel[c].buf), garbage \in Garbage,
         NEW z \in Seq(ByteSet), NEW n \in 0 .. Len(z), NEW p, NEW a \in Places, NEW e \in Places,
         Tape(z, p, n, a, e), Len(z) - n > 0, a[2] \notin {2, 3},
         channel[c].buf = Part(p, a[1], a[2] - 1)
  PROVE  LET r == CheckSec(c, z)
             v == SubSeq(z, r.ret + 1, Len(z))
         IN  \/ /\ r.done /\ r.buf = Bytes(p, a[1], 1) /\ n \in 0 .. Len(v)
                /\ Tape(v, p, n, <<After(a[1]), 1>>, e)
             \/ /\ ~r.done /\ e[1] = a[1] /\ r.buf = Part(p, a[1], e[2] - 1)
                /\ 0 \in 0 .. Len(v) /\ Tape(v, p, 0, e, e)
<1>1. PICK m, w : m = Len(z) - n /\ w = SubSeq(z, 1, Len(z) - n)
  OBVIOUS
<1>2. PICK q, r, v : /\ q = Lengths[a[1]] - a[2] + 1 /\ r = CheckSec(c, z)
                     /\ v = SubSeq(z, r.ret + 1, Len(z))
  OBVIOUS
<1>3. Len(z) \in Nat /\ m \in 0 .. Len(z) /\ m > 0
  BY <1>1, LenProperties
<1>4. /\ SubSeq(z, 1, m) \in Seq(ByteSet) /\ Len(SubSeq(z, 1, m)) = m
      /\ \A i \in 1 .. m : SubSeq(z, 1, m)[i] = z[i]
  BY <1>3, Parts
<1>5. /\ w \in Seq(ByteSet) /\ Len(w) = m /\ Len(w) > 0 /\ Len(w) <= Len(z)
      /\ \A i \in 1 .. Len(w) : z[i] = w[i]
  BY <1>1, <1>3, <1>4
<1>6. /\ Flow(p, w, a, e) /\ (n > 0 => e[2] = 1)
      /\ \A i \in 1 .. Len(w) : w[i][3] = 1 => i + 2 <= Len(w)
  BY <1>1, <1>5 DEF Tape
<1>7. p \in Pids
  BY <1>5, <1>6, FlowPid
<1>8. q \in Nat /\ q > 0 /\ a[2] \in Nat \ {0}
  BY <1>2, PlacesAre
<1>9. e[2] = 1 => q <= Len(w)
  BY <1>2, <1>5, <1>6, FlowReaches
<1>10. Lengths[a[1]] - a[2] + 1 <= Len(w) \/ Len(w) = Len(z)
  BY <1>1, <1>2, <1>3, <1>5, <1>6, <1>9
<1>11. /\ q <= Len(w) => r.done /\ r.buf = Bytes(p, a[1], 1) /\ r.ret = q
       /\ Len(w) < q => /\ ~r.done /\ r.buf = Part(p, a[1], a[2] - 1 + Len(w))
                        /\ r.ret = Len(z)
  <2>1. LET x == CheckSec(c, z)
            o == Lengths[a[1]] - a[2] + 1
        IN  /\ o <= Len(w) => x.done /\ x.buf = Bytes(p, a[1], 1) /\ x.ret = o
            /\ Len(w) < o => /\ ~x.done /\ x.buf = Part(p, a[1], a[2] - 1 + Len(w))
                             /\ x.ret = Len(z)
    BY <1>5, <1>6, <1>7, <1>10, Assembles
  <2> QED BY <1>2, <2>1
<1>12. CASE q <= Len(w)
  <2>1. q \in 0 .. Len(z) /\ q <= Len(z) - n
    BY <1>1, <1>3, <1>5, <1>8, <1>12
  <2>2. /\ n \in 0 .. Len(SubSeq(z, q + 1, Len(z)))
        /\ Tape(SubSeq(z, q + 1, Len(z)), p, n, PlaceAt(SubSeq(z, 1, Len(z) - n), e, q + 1), e)
    BY <2>1, TapeCut
  <2>3. PlaceAt(w, e, q + 1) = <<After(a[1]), 1>>
    BY <1>2, <1>5, <1>6, <1>12, FlowBehind
  <2>4. v = SubSeq(z, q + 1, Len(z))
    BY <1>2, <1>11, <1>12
  <2> QED BY <1>1, <1>2, <1>11, <1>12, <2>2, <2>3, <2>4
<1>13. CASE Len(w) < q
  <2>1. n = 0 /\ Len(w) = Len(z)
    BY <1>1, <1>2, <1>3, <1>5, <1>6, <1>8, <1>9, <1>13
  <2>2. Len(z) \in 0 .. Len(z) /\ Len(z) <= Len(z) - n
    BY <1>3, <2>1
  <2>3. /\ n \in 0 .. Len(SubSeq(z, Len(z) + 1, Len(z)))
        /\ Tape(SubSeq(z, Len(z) + 1, Len(z)), p, n,
                PlaceAt(SubSeq(z, 1, Len(z) - n), e, Len(z) + 1), e)
    BY <2>2, TapeCut
  <2>4. PlaceAt(w, e, Len(z) + 1) = e
    BY <1>3, <2>1 DEF PlaceAt
  <2>5. e = <<a[1], a[2] + Len(w)>>
    BY <1>2, <1>5, <1>6, <1>13, FlowInside
  <2>6. a[2] - 1 + Len(w) = e[2] - 1
    BY <1>3, <1>5, <1>8, <2>5
  <2>7. v = SubSeq(z, Len(z) + 1, Len(z))
    BY <1>2, <1>11, <1>13
  <2>8. ~r.done /\ e[1] = a[1] /\ r.buf = Part(p, a[1], e[2] - 1)
    BY <1>11, <1>13, <2>5, <2>6
  <2>9. 0 \in 0 .. Len(v) /\ Tape(v, p, 0, e, e)
    BY <1>1, <2>1, <2>3, <2>4, <2>7
  <2> QED BY <1>2, <2>8, <2>9
<1>14. q <= Len(w) \/ Len(w) < q
  <2>1. q \in Nat /\ Len(w) \in Nat
    BY <1>3, <1>5, <1>8
  <2> QED BY <2>1
<1> QED BY <1>12, <1>13, <1>14

\* Without a section to follow, check_sec leaves of the packet what it leaves.
LEMMA TapeLeft ==
  ASSUME NEW z \in Seq(ByteSet), NEW n \in 0 .. Len(z), NEW p, NEW a \in Places, NEW e \in Places,
         Tape(z, p, n, a, e), NEW m \in 0 .. Len(z)
  PROVE  LET v == SubSeq(z, m + 1, Len(z))
         IN  v \in Seq(ByteSet) /\ \E k \in 0 .. Len(v), b \in Places : Tape(v, p, k, b, e)
<1>1. PICK v, b : v = SubSeq(z, m + 1, Len(z)) /\ b = PlaceAt(SubSeq(z, 1, Len(z) - n), e, m + 1)
  OBVIOUS
<1>2. /\ v \in Seq(ByteSet)
      /\ m <= Len(z) - n => b \in Places /\ n \in 0 .. Len(v) /\ Tape(v, p, n, b, e)
      /\ Len(z) - n < m => Len(z) - m \in 0 .. Len(v) /\ Tape(v, p, Len(z) - m, e, e)
  BY <1>1, TapeCut
<1>3. m <= Len(z) - n \/ Len(z) - n < m
  <2>1. Len(z) \in Nat
    BY LenProperties
  <2> QED BY <2>1
<1>4. \E k \in 0 .. Len(v), d \in Places : Tape(v, p, k, d, e)
  BY <1>2, <1>3
<1> QED BY <1>1, <1>2, <1>4

\* One section in parse_sec's loop.
LEMMA SectionSteps ==
  ASSUME StructInv, OutsideInv, InsideInv, ParseSection
  PROVE  OutsideInv' /\ InsideInv'
<1>1. pc = "loop" /\ MoreSections /\ ~first' /\ UNCHANGED <<ch, own, next, garbage>>
  BY DEF ParseSection
<1>2. /\ ch \in Channels /\ Typed /\ channel[ch].buf \in Seq(ByteSet)
      /\ Held(channel[ch].buf) /\ garbage \in Garbage /\ rest \in Seq(ByteSet)
  BY <1>1, ParserKnows
<1>3. PICK r, empty, p : r = CheckSec(ch, rest) /\ empty = FALSE /\ p = channel[ch].pid
  OBVIOUS
<1>4. Collect(r, empty)
  BY <1>3 DEF ParseSection
<1>5. r.buf \in Seq(ByteSet) /\ r.ret \in Nat /\ r.ret <= Len(rest)
  BY <1>2, <1>3, CheckSecIs
<1>6. /\ \A d \in Channels : d # ch => channel'[d] = channel[d]
      /\ channel'[ch].used = channel[ch].used /\ channel'[ch].pid = channel[ch].pid
      /\ \/ r.done /\ channel'[ch].buf = r.buf /\ pc' = "incb"
         \/ /\ channel'[ch].buf = IF r.done \/ empty THEN <<>> ELSE r.buf
            /\ pc' = "loop"
  BY <1>2, <1>4, <1>5, Collected
<1>7. /\ due' = [due EXCEPT ![ch] = IF pc' = "incb" THEN @ ELSE Due(r.done)]
      /\ rest' = SubSeq(rest, r.ret + 1, Len(rest))
  BY <1>3 DEF ParseSection
<1>8. DOMAIN due = Channels /\ own \in BOOLEAN
  BY DEF OutsideInv
<1>9. /\ DOMAIN due' = DOMAIN due /\ \A d \in Channels : d # ch => due'[d] = due[d]
      /\ due'[ch] = IF pc' = "incb" THEN due[ch] ELSE Due(r.done)
  BY <1>2, <1>7, <1>8
<1>10. pc' \in {"loop", "incb"} /\ pc # "poll" /\ pc' # "poll"
  BY <1>1, <1>6
<1>11. OutsideInv'
  BY <1>1, <1>6, <1>9, <1>10, OutsideKept
<1>12. CASE ~own
  <2>1. due[ch] = {} /\ Due(r.done) = {}
    BY <1>8, <1>10, <1>12, DueIs DEF InsideInv
  <2>2. due'[ch'] = {} /\ ~own'
    BY <1>1, <1>9, <1>12, <2>1
  <2> QED BY <1>11, <2>2 DEF InsideInv
<1>13. CASE own
  <2>1. PICK n \in 0 .. Len(rest), a \in Places, e \in Places :
          /\ RestIs(n, a, e)
          /\ e[2] \notin {2, 3} /\ (channel[ch].used > 0 => next[channel[ch].pid] = e)
          /\ due[ch] # {} => UpTo(ch, a)
    BY <1>1, <1>13 DEF InsideInv
  <2>2. PICK z, v : z = rest /\ v = rest'
    OBVIOUS
  <2>3. z \in Seq(ByteSet) /\ n \in 0 .. Len(z) /\ v = SubSeq(z, r.ret + 1, Len(z))
    BY <1>2, <1>7, <2>2
  <2>4. r.ret \in 0 .. Len(z)
    <3>1. Len(z) \in Nat
      BY <2>3, LenProperties
    <3> QED BY <1>5, <2>2, <3>1
  <2>5. Tape(z, p, n, a, e)
    BY <1>2, <1>3, <2>1, <2>2, RestTape
  <2>6. channel'[ch'].used > 0 => next'[channel'[ch'].pid] = e
    BY <1>1, <1>6, <2>1
  <2>7. v \in Seq(ByteSet) /\ \E k \in 0 .. Len(v), b \in Places : Tape(v, p, k, b, e)
    BY <2>3, <2>4, <2>5, TapeLeft
  <2>8. channel'[ch'].pid = p
    BY <1>1, <1>3, <1>6
  <2>9. ASSUME NEW k \in 0 .. Len(v), NEW b \in Places, Tape(v, p, k, b, e)
        PROVE  k \in 0 .. Len(rest') /\ RestIs(k, b, e)'
    <3>1. /\ rest' \in Seq(ByteSet) /\ k \in 0 .. Len(rest')
          /\ Tape(rest', channel'[ch'].pid, k, b, e)
      BY <2>2, <2>7, <2>8, <2>9
    <3> QED BY <1>1, <3>1, RestTapeNext
  <2>10. CASE due[ch] = {}
    <3>1. Due(r.done) = {}
      BY <1>1, <1>8, <1>13, <2>10 DEF Due
    <3>2. due'[ch'] = {}
      BY <1>1, <1>9, <2>10, <3>1
    <3>3. PICK k \in 0 .. Len(v), b \in Places : Tape(v, p, k, b, e)
      BY <2>7
    <3>4. k \in 0 .. Len(rest') /\ RestIs(k, b, e)' /\ own'
      BY <1>1, <1>13, <2>9, <3>3
    <3>5. InsideInv'
      BY <1>1, <1>10, <2>1, <2>6, <3>2, <3>4, InsideNext
    <3> QED BY <1>11, <3>5
  <2>11. CASE due[ch] # {}
    <3>1. /\ a[2] \notin {2, 3} /\ due[ch] = {a[1]}
          /\ channel[ch].buf = Part(p, a[1], a[2] - 1)
      BY <1>3, <2>1, <2>11 DEF UpTo
    <3>2. Len(z) - n > 0
      BY <1>1, <1>2, <2>1, <2>2, RestMore
    <3>3. \/ /\ r.done /\ r.buf = Bytes(p, a[1], 1) /\ n \in 0 .. Len(v)
             /\ Tape(v, p, n, <<After(a[1]), 1>>, e)
          \/ /\ ~r.done /\ e[1] = a[1] /\ r.buf = Part(p, a[1], e[2] - 1)
             /\ 0 \in 0 .. Len(v) /\ Tape(v, p, 0, e, e)
      <4>1. r = CheckSec(ch, z)
        BY <1>3, <2>2
      <4>2. LET x == CheckSec(ch, z)
                y == SubSeq(z, x.ret + 1, Len(z))
            IN  \/ /\ x.done /\ x.buf = Bytes(p, a[1], 1) /\ n \in 0 .. Len(y)
                   /\ Tape(y, p, n, <<After(a[1]), 1>>, e)
                \/ /\ ~x.done /\ e[1] = a[1] /\ x.buf = Part(p, a[1], e[2] - 1)
                   /\ 0 \in 0 .. Len(y) /\ Tape(y, p, 0, e, e)
        BY <1>2, <2>3, <2>5, <3>1, <3>2, SectionTaken
      <4> QED BY <2>3, <4>1, <4>2
    <3>4. a[1] \in Sections /\ After(a[1]) \in Sections /\ <<After(a[1]), 1>> \in Places
      BY PlacesAre, AfterIs
    <3>5. CASE /\ r.done /\ r.buf = Bytes(p, a[1], 1) /\ n \in 0 .. Len(v)
               /\ Tape(v, p, n, <<After(a[1]), 1>>, e)
      <4>1. PICK b \in Places : b = <<After(a[1]), 1>>
        BY <3>4
      <4>2. n \in 0 .. Len(rest') /\ RestIs(n, b, e)' /\ own'
        BY <1>1, <1>13, <2>9, <3>5, <4>1
      <4>3. ASSUME pc' = "incb"
            PROVE  \E s \in Sections : Complete(ch, s)' /\ (~first' => b = <<After(s), 1>>)
        <5>1. due'[ch] = {a[1]} /\ channel'[ch].buf = r.buf
          BY <1>6, <1>9, <3>1, <4>3
        <5>2. Complete(ch, a[1])'
          BY <1>1, <2>8, <3>5, <5>1 DEF Complete, Bytes
        <5> QED BY <3>4, <4>1, <5>2
      <4>4. ASSUME pc' = "loop"
            PROVE  UpTo(ch, b)'
        <5>1. channel'[ch].buf = <<>> /\ due'[ch] = Due(r.done)
          BY <1>6, <1>9, <3>5, <4>4
        <5>2. Due(r.done) = {After(s) : s \in due[ch]}
          BY <1>1, <1>8, <1>13, <3>5, DueIs
        <5>3. due'[ch] = {b[1]} /\ b[2] = 1
          BY <3>1, <4>1, <5>1, <5>2
        <5>4. Part(channel'[ch].pid, b[1], b[2] - 1) = <<>>
          BY <5>3 DEF Part
        <5> QED BY <1>1, <5>1, <5>3, <5>4 DEF UpTo, Part
      <4>5. InsideInv'
        BY <1>1, <1>10, <2>1, <2>6, <4>2, <4>3, <4>4, InsideNext
      <4> QED BY <1>11, <4>5
    <3>6. CASE /\ ~r.done /\ e[1] = a[1] /\ r.buf = Part(p, a[1], e[2] - 1)
               /\ 0 \in 0 .. Len(v) /\ Tape(v, p, 0, e, e)
      <4>1. 0 \in 0 .. Len(rest') /\ RestIs(0, e, e)' /\ own'
        BY <1>1, <1>13, <2>9, <3>6
      <4>2. pc' = "loop" /\ channel'[ch].buf = r.buf /\ due'[ch] = Due(r.done)
        BY <1>3, <1>6, <1>9, <3>6
      <4>3. Due(r.done) = due[ch]
        BY <1>1, <1>8, <1>13, <3>6, DueIs
      <4>4. UpTo(ch, e)'
        BY <1>1, <2>1, <2>8, <3>1, <3>6, <4>2, <4>3 DEF UpTo, Part
      <4>5. InsideInv'
        BY <1>1, <1>10, <2>1, <2>6, <4>1, <4>2, <4>4, InsideNext
      <4> QED BY <1>11, <4>5
    <3> QED BY <3>3, <3>5, <3>6
  <2> QED BY <2>10, <2>11
<1> QED BY <1>8, <1>12, <1>13

\* A step that changes nothing.
LEMMA StillSteps ==
  ASSUME OutsideInv, InsideInv, UNCHANGED vars
  PROVE  OutsideInv' /\ InsideInv'
<1>1. UNCHANGED <<channel, parser, own, next, due>>
  BY DEF vars, parser
<1>2. UNCHANGED <<pc, ch>>
  BY <1>1 DEF parser
<1>3. ASSUME NEW c \in Channels, channel'[c].used > 0, due'[c] # {}, pc' = "poll" \/ c # ch'
      PROVE  UpTo(c, next[channel[c].pid])'
  <2>1. UpTo(c, next[channel[c].pid])
    BY <1>1, <1>2, <1>3 DEF OutsideInv
  <2> QED BY <1>1, <2>1 DEF UpTo
<1>4. DOMAIN due' = Channels /\ own' \in BOOLEAN /\ \A p \in Pids : next'[p][2] \notin {2, 3}
  BY <1>1 DEF OutsideInv
<1>5. OutsideInv'
  BY <1>3, <1>4 DEF OutsideInv
<1>6. InsideInv'
  BY <1>1, SameInside
<1> QED BY <1>5, <1>6

\* Nothing is due at first.
LEMMA SectionsInit ==
  ASSUME Init
  PROVE  OutsideInv /\ InsideInv
<1>1. /\ due = [c \in Channels |-> {}] /\ own = TRUE /\ pc = "poll"
      /\ next = [p \in Pids |-> <<1, 1>>]
  BY DEF Init
<1>2. DOMAIN due = Channels /\ own \in BOOLEAN /\ \A c \in Channels : due[c] = {}
  BY <1>1
<1>3. \A p \in Pids : next[p][2] \notin {2, 3}
  BY <1>1
<1> QED BY <1>1, <1>2, <1>3 DEF OutsideInv, InsideInv

\* The inductive invariant: the tables are exact, channels are where their pids are
\* between packets, and the parser's channel where the parser is.
SecInv == StructInv /\ OutsideInv /\ InsideInv

\* Once a channel has seen a section start, check_sec hands to the callbacks the
\* sections of its pid, whole, in order and without a gap, as long as no header is
\* split over two packets.
THEOREM SectionsCorrect ==
  ASSUME ~SplitHeaders
  PROVE  Spec => []SectionsWhole
<1>1. Init => SecInv
  BY StructInit, SectionsInit DEF SecInv
<1>2. SecInv /\ [Next]_vars => SecInv'
  <2> SUFFICES ASSUME SecInv, [Next]_vars
               PROVE  SecInv'
    OBVIOUS
  <2>1. StructInv /\ OutsideInv /\ InsideInv
    BY DEF SecInv
  <2>2. StructInv'
    BY <2>1, StructStep
  <2>3. CASE \E f \in Filters :
                \/ AllocFilter(f) \/ SetSecFilter(f) \/ StartFilter(f)
                \/ StopFilter(f) \/ FreeFilter(f) \/ Sync(f)
    BY <2>1, <2>2, <2>3, CallSteps DEF SecInv
  <2>4. CASE \E p \in Pids : PacketArrives(p)
    BY <2>1, <2>2, <2>4, ArriveSteps DEF SecInv
  <2>5. CASE \E p \in Pids : PacketLost(p)
    BY <2>1, <2>2, <2>5, LostSteps DEF SecInv
  <2>6. CASE ParseBeforeStart
    BY <2>1, <2>2, <2>6, BeforeSteps DEF SecInv
  <2>7. CASE ParseSection
    BY <2>1, <2>2, <2>7, SectionSteps DEF SecInv
  <2>8. CASE CallbackReturns
    BY <2>1, <2>2, <2>8, ReturnSteps DEF SecInv
  <2>9. CASE PacketDone
    BY <2>1, <2>2, <2>9, DoneSteps DEF SecInv
  <2>10. CASE UNCHANGED vars
    BY <2>1, <2>2, <2>10, StillSteps DEF SecInv
  <2> QED BY <2>3, <2>4, <2>5, <2>6, <2>7, <2>8, <2>9, <2>10, NextCases
<1>3. SecInv => SectionsWhole
  <2>1. ASSUME SecInv, pc = "incb", own, due[ch] # {}
        PROVE  \E s \in due[ch] : channel[ch].buf = Bytes(channel[ch].pid, s, 1)
    <3>1. PICK s \in Sections : Complete(ch, s)
      BY <2>1 DEF SecInv, InsideInv
    <3> QED BY <3>1 DEF Complete
  <2> QED BY <2>1 DEF SectionsWhole
<1> QED BY <1>1, <1>2, <1>3, PTL DEF Spec
=============================================================================
