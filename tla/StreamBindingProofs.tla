------------------------ MODULE StreamBindingProofs ------------------------
(***************************************************************************)
(* Heartbeats go to the item that was asked for last, and the map of the   *)
(* streams does not grow with the log: for every number of clients, names, *)
(* items and lines.                                                        *)
(***************************************************************************)
EXTENDS StreamBinding, PlayRecorderProofs

(* Line i is filed under key k; it is the last of those. *)
FiledUnder(i, k) ==
    \/ k = DeviceKey(read[i].device)
    \/ read[i].device # Unknown /\ k = AddressKey(read[i].ip)
LastUnder(i, k) ==
    /\ i \in DOMAIN read /\ FiledUnder(i, k)
    /\ \A j \in DOMAIN read : FiledUnder(j, k) => j =< i
StreamOf(i) == [item |-> read[i].item, device |-> read[i].device, seenAt |-> read[i].seenAt]

(* Lines are read in the order of the clock. *)
ReadInv ==
    /\ Len(read) =< MaxStreams
    /\ \A i \in DOMAIN read : read[i].seenAt =< now
    /\ \A i, j \in DOMAIN read : i =< j => read[i].seenAt =< read[j].seenAt

(* The map, against the lines: a key holds its last line, unless nothing was
   filed under it for the time of reclaiming. *)
MapInv ==
    \A k \in StreamKeys :
        /\ k \in DOMAIN activeStreams =>
             \E i \in DOMAIN read : LastUnder(i, k) /\ activeStreams[k] = StreamOf(i)
        /\ k \notin DOMAIN activeStreams =>
             \/ \A i \in DOMAIN read : ~FiledUnder(i, k)
             \/ \E i \in DOMAIN read : LastUnder(i, k) /\ now - read[i].seenAt > StaleAfter

(* What the last sweep left. *)
SweepInv ==
    /\ lastPrune =< now
    /\ \A k \in DOMAIN activeStreams : lastPrune - activeStreams[k].seenAt =< StaleAfter

ToldInv ==
    /\ BoundToLatest /\ NameBelongs
    /\ \A b \in told :
         /\ b.after =< Len(read)
         /\ OwnLines(b) # {} => Max(OwnLines(b)) \in OwnLines(b)
         /\ NearLines(b) # {} => Max(NearLines(b)) \in NearLines(b)

BindInv == PlayInv /\ BindTypeOK /\ ReadInv /\ MapInv /\ SweepInv /\ ToldInv

-----------------------------------------------------------------------------
(* Max finds the largest line. *)
LEMMA MaxLaw ==
    ASSUME NEW S \in SUBSET Int, NEW m \in S, \A i \in S : i =< m
    PROVE  Max(S) = m
<1> DEFINE P(x) == x \in S /\ \A y \in S : x >= y
<1>1. P(m)
  OBVIOUS
<1>2. \A x : P(x) => x = m
  OBVIOUS
<1>3. Max(S) = CHOOSE x : P(x)
  BY DEF Max
<1>4. P(CHOOSE x : P(x))
  BY <1>1
<1> QED
  BY <1>2, <1>3, <1>4

(* Numbers that are compared. *)
LEMMA NumbersLaw ==
    ASSUME BindTypeOK
    PROVE  /\ Times \subseteq Nat /\ now \in Nat /\ lastPrune \in Int
           /\ BindingWindow \in Nat /\ StaleAfter \in Nat /\ PruneInterval \in Nat \ {0}
           /\ BindingWindow < StaleAfter
           /\ Len(read) \in Nat /\ DOMAIN read = 1 .. Len(read)
           /\ \A i \in DOMAIN read :
                /\ read[i].item \in Items /\ read[i].device \in Names /\ read[i].ip \in Addresses
                /\ read[i].seenAt \in Times
           /\ \A k \in DOMAIN activeStreams :
                /\ k \in StreamKeys /\ activeStreams[k] \in Streams /\ activeStreams[k].seenAt \in Times
                /\ activeStreams[k].item \in Items /\ activeStreams[k].device \in Names
<1>1. /\ Times \subseteq Nat /\ now \in Nat /\ lastPrune \in Int
      /\ BindingWindow \in Nat /\ StaleAfter \in Nat /\ PruneInterval \in Nat \ {0}
      /\ BindingWindow < StaleAfter
  BY StaleAssumption, PlayBoundAssumption DEF BindTypeOK, Times, Never
<1>2. /\ Len(read) \in Nat /\ DOMAIN read = 1 .. Len(read)
      /\ \A i \in DOMAIN read : read[i] \in [item : Items, device : Names, ip : Addresses, seenAt : Times]
  <2> DEFINE L == [item : Items, device : Names, ip : Addresses, seenAt : Times]
  <2>1. read \in Seq(L)
    BY DEF BindTypeOK
  <2> HIDE DEF L
  <2>2. Len(read) \in Nat /\ DOMAIN read = 1 .. Len(read) /\ \A i \in DOMAIN read : read[i] \in L
    BY <2>1
  <2> QED
    BY <2>2 DEF L
<1>3. \A k \in DOMAIN activeStreams : k \in StreamKeys /\ activeStreams[k] \in Streams
  BY DEF BindTypeOK
<1> QED
  BY <1>1, <1>2, <1>3 DEF Streams

(* The keys are what they say. *)
LEMMA KeysLaw ==
    ASSUME NEW d, NEW e
    PROVE  /\ DeviceKey(d) = DeviceKey(e) <=> d = e
           /\ AddressKey(d) = AddressKey(e) <=> d = e
           /\ DeviceKey(d) # AddressKey(e)
BY DEF DeviceKey, AddressKey

(* The lines of a device, and those of a named device at an address. *)
LEMMA FiledLaw ==
    ASSUME NEW i, NEW d, NEW a
    PROVE  /\ FiledUnder(i, DeviceKey(d)) <=> read[i].device = d
           /\ FiledUnder(i, AddressKey(a)) <=> read[i].device # Unknown /\ read[i].ip = a
BY KeysLaw DEF FiledUnder

(* The sweep, on any map that agrees with the lines. *)
LEMMA SweepLaw ==
    ASSUME NEW streams, NEW clock \in Times, now = clock, BindTypeOK, lastPrune =< now,
           DOMAIN streams \subseteq StreamKeys, streams \in [DOMAIN streams -> Streams],
           \A k \in DOMAIN streams : lastPrune - streams[k].seenAt =< StaleAfter,
           PruneStreamsMaybe(streams)
    PROVE  /\ DOMAIN activeStreams' \subseteq DOMAIN streams
           /\ activeStreams' \in [DOMAIN activeStreams' -> Streams]
           /\ lastPrune' \in Times \cup {Never} /\ lastPrune' =< now
           /\ \A k \in DOMAIN activeStreams' :
                /\ activeStreams'[k] = streams[k]
                /\ lastPrune' - activeStreams'[k].seenAt =< StaleAfter
                /\ now - activeStreams'[k].seenAt < StaleAfter + PruneInterval
           /\ \A k \in DOMAIN streams \ DOMAIN activeStreams' : now - streams[k].seenAt > StaleAfter
<1>1. /\ now \in Nat /\ lastPrune \in Int /\ StaleAfter \in Nat /\ PruneInterval \in Nat \ {0}
      /\ lastPrune \in Times \cup {Never} /\ now \in Times
      /\ \A k \in DOMAIN streams : streams[k] \in Streams /\ streams[k].seenAt \in Nat
  BY NumbersLaw DEF Streams, BindTypeOK
<1>2. CASE now - lastPrune >= PruneInterval
  <2> DEFINE K == {k \in DOMAIN streams : now - streams[k].seenAt =< StaleAfter}
  <2>1. lastPrune' = now /\ activeStreams' = [k \in K |-> streams[k]]
    BY <1>2 DEF PruneStreamsMaybe, Kept, Restrict
  <2> QED
    BY <1>1, <2>1
<1>3. CASE ~(now - lastPrune >= PruneInterval)
  <2>1. lastPrune' = lastPrune /\ activeStreams' = streams
    BY <1>3 DEF PruneStreamsMaybe
  <2> QED
    BY <1>1, <1>3, <2>1
<1> QED
  BY <1>2, <1>3

(* What is found for a heartbeat: the last line of its device, or, if that was
   reclaimed or never there, of its address. *)
LEMMA FoundLaw ==
    ASSUME BindTypeOK, MapInv, NEW d \in Names, NEW a \in Addresses
    PROVE  \/ \E i \in DOMAIN read : LastUnder(i, DeviceKey(d)) /\ Found(d, a) = {StreamOf(i)}
           \/ /\ \/ \A i \in DOMAIN read : ~FiledUnder(i, DeviceKey(d))
                 \/ \E i \in DOMAIN read : LastUnder(i, DeviceKey(d)) /\ now - read[i].seenAt > StaleAfter
              /\ \/ \E i \in DOMAIN read : LastUnder(i, AddressKey(a)) /\ Found(d, a) = {StreamOf(i)}
                 \/ /\ Found(d, a) = {}
                    /\ \/ \A i \in DOMAIN read : ~FiledUnder(i, AddressKey(a))
                       \/ \E i \in DOMAIN read : LastUnder(i, AddressKey(a)) /\ now - read[i].seenAt > StaleAfter
<1>1. DeviceKey(d) \in StreamKeys /\ AddressKey(a) \in StreamKeys
  BY DEF StreamKeys
<1>2. CASE DeviceKey(d) \in DOMAIN activeStreams
  <2>1. Found(d, a) = {activeStreams[DeviceKey(d)]}
    BY <1>2 DEF Found
  <2> QED
    BY <1>1, <1>2, <2>1 DEF MapInv
<1>3. CASE DeviceKey(d) \notin DOMAIN activeStreams
  <2>1. Found(d, a) = {activeStreams[k] : k \in DOMAIN activeStreams \cap {AddressKey(a)}}
    BY <1>3 DEF Found
  <2>2. \/ \A i \in DOMAIN read : ~FiledUnder(i, DeviceKey(d))
        \/ \E i \in DOMAIN read : LastUnder(i, DeviceKey(d)) /\ now - read[i].seenAt > StaleAfter
    BY <1>1, <1>3 DEF MapInv
  <2>3. CASE AddressKey(a) \in DOMAIN activeStreams
    <3>1. Found(d, a) = {activeStreams[AddressKey(a)]}
      BY <2>1, <2>3
    <3> QED
      BY <1>1, <2>2, <2>3, <3>1 DEF MapInv
  <2>4. CASE AddressKey(a) \notin DOMAIN activeStreams
    <3>1. Found(d, a) = {}
      BY <2>1, <2>4
    <3>2. \/ \A i \in DOMAIN read : ~FiledUnder(i, AddressKey(a))
          \/ \E i \in DOMAIN read : LastUnder(i, AddressKey(a)) /\ now - read[i].seenAt > StaleAfter
      BY <1>1, <2>4 DEF MapInv
    <3> QED
      BY <2>2, <3>1, <3>2
  <2> QED
    BY <2>3, <2>4
<1> QED
  BY <1>2, <1>3

(* The item and the name that follow from it. *)
LEMMA ChosenLaw ==
    ASSUME NEW d, NEW a, NEW s, Found(d, a) = {s}
    PROVE  /\ ItemFor(d, a) = IF now - s.seenAt =< BindingWindow THEN s.item ELSE Session
           /\ NameFor(d, a) = IF d = Unknown /\ s.device # Unknown THEN s.device ELSE d
<1>1. CASE now - s.seenAt =< BindingWindow
  <2>1. {x \in Found(d, a) : now - x.seenAt =< BindingWindow} = {s}
    BY <1>1
  <2>2. (CHOOSE x \in {s} : TRUE) = s
    OBVIOUS
  <2> QED
    BY <1>1, <2>1, <2>2 DEF ItemFor, NameFor
<1>2. CASE ~(now - s.seenAt =< BindingWindow)
  <2>1. {x \in Found(d, a) : now - x.seenAt =< BindingWindow} = {}
    BY <1>2
  <2> QED
    BY <1>2, <2>1 DEF ItemFor, NameFor
<1> QED
  BY <1>1, <1>2

-----------------------------------------------------------------------------
(* What was said of a heartbeat stays true while lines are added. *)
LEMMA ToldLaw ==
    ASSUME BindTypeOK, ToldInv, NEW n \in Nat, n = Len(read), told' = told,
           Len(read') >= n, DOMAIN read' = 1 .. Len(read'), Len(read') \in Nat,
           \A j \in 1 .. n : read'[j] = read[j]
    PROVE  ToldInv'
<1>1. ASSUME NEW b \in told
      PROVE  /\ OwnLines(b)' = OwnLines(b) /\ NearLines(b)' = NearLines(b)
             /\ \A i \in OwnLines(b) : read'[i] = read[i]
             /\ \A i \in NearLines(b) : read'[i] = read[i]
             /\ b.after =< Len(read')
  <2>1. PICK m \in Nat : m = b.after /\ m =< n
    BY DEF ToldInv, BindTypeOK
  <2>2. \A i \in 1 .. m : read'[i] = read[i]
    BY <2>1
  <2> QED
    BY <2>1, <2>2 DEF OwnLines, NearLines
<1>2. ASSUME NEW b \in told
      PROVE  /\ Bindable(b, OwnLines(b))' <=> Bindable(b, OwnLines(b))
             /\ Bindable(b, NearLines(b))' <=> Bindable(b, NearLines(b))
             /\ OwnLines(b) # {} => read'[Max(OwnLines(b))] = read[Max(OwnLines(b))]
             /\ NearLines(b) # {} => read'[Max(NearLines(b))] = read[Max(NearLines(b))]
             /\ OwnLines(b) # {} => Max(OwnLines(b)) \in OwnLines(b)
             /\ NearLines(b) # {} => Max(NearLines(b)) \in NearLines(b)
  <2>1. /\ OwnLines(b) # {} => Max(OwnLines(b)) \in OwnLines(b)
        /\ NearLines(b) # {} => Max(NearLines(b)) \in NearLines(b)
    BY DEF ToldInv
  <2>2. /\ OwnLines(b) # {} => read'[Max(OwnLines(b))] = read[Max(OwnLines(b))]
        /\ NearLines(b) # {} => read'[Max(NearLines(b))] = read[Max(NearLines(b))]
    BY <1>1, <2>1
  <2> QED
    BY <1>1, <2>1, <2>2 DEF Bindable
<1>3. BoundToLatest'
  <2> SUFFICES ASSUME NEW b \in told
               PROVE  /\ b.device # Unknown /\ Bindable(b, OwnLines(b))' =>
                           b.item = read'[Max(OwnLines(b)')].item
                      /\ b.device # Unknown /\ b.item # Session /\ ~Bindable(b, OwnLines(b))' =>
                           /\ Bindable(b, NearLines(b))'
                           /\ b.item = read'[Max(NearLines(b)')].item
                           /\ \A i \in OwnLines(b)' : b.at - read'[i].seenAt > StaleAfter
                      /\ OwnLines(b)' = {} =>
                           b.item = IF Bindable(b, NearLines(b))' THEN read'[Max(NearLines(b)')].item
                                    ELSE Session
    BY DEF BoundToLatest
  <2>1. /\ b.device # Unknown /\ Bindable(b, OwnLines(b)) => b.item = read[Max(OwnLines(b))].item
        /\ b.device # Unknown /\ b.item # Session /\ ~Bindable(b, OwnLines(b)) =>
             /\ Bindable(b, NearLines(b))
             /\ b.item = read[Max(NearLines(b))].item
             /\ \A i \in OwnLines(b) : b.at - read[i].seenAt > StaleAfter
        /\ OwnLines(b) = {} =>
             b.item = IF Bindable(b, NearLines(b)) THEN read[Max(NearLines(b))].item ELSE Session
    BY DEF ToldInv, BoundToLatest
  <2>2. /\ Bindable(b, OwnLines(b)) => OwnLines(b) # {}
        /\ Bindable(b, NearLines(b)) => NearLines(b) # {}
    BY DEF Bindable
  <2> QED
    BY <1>1, <1>2, <2>1, <2>2
<1>4. NameBelongs'
  BY <1>1, <1>2 DEF ToldInv, NameBelongs
<1> QED
  BY <1>1, <1>2, <1>3, <1>4 DEF ToldInv

(* A line of a stream comes last under its keys, and changes no other. *)
LEMMA StreamLaw ==
    ASSUME BindInv, NEW d \in Names, NEW a \in Addresses, NEW i \in Items, StreamLine(d, a, i)
    PROVE  BindInv'
<1> DEFINE line == [item |-> i, device |-> d, ip |-> a, seenAt |-> now]
           stream == [item |-> i, device |-> d, seenAt |-> now]
           filed == {DeviceKey(d)} \cup (IF d = Unknown THEN {} ELSE {AddressKey(a)})
           streams == Remembered(d, a, stream)
<1>0. PICK n \in Nat : n = Len(read)
  BY NumbersLaw DEF BindInv
<1>1. /\ BindTypeOK /\ PlayInv /\ ReadInv /\ MapInv /\ SweepInv /\ ToldInv
      /\ now \in Times /\ now \in Nat /\ n \in Nat /\ StaleAfter \in Nat
      /\ lastPrune =< now
  BY <1>0, NumbersLaw DEF BindInv, BindTypeOK, SweepInv
<1>2. /\ n < MaxStreams /\ read' = Append(read, line) /\ PruneStreamsMaybe(streams)
      /\ now' = now /\ told' = told /\ playVars' = playVars
  BY <1>0 DEF StreamLine
<1>3. /\ Len(read') = n + 1 /\ DOMAIN read' = 1 .. n + 1 /\ DOMAIN read = 1 .. n
      /\ read'[n + 1] = line /\ \A j \in 1 .. n : read'[j] = read[j]
      /\ read' \in Seq([item : Items, device : Names, ip : Addresses, seenAt : Times])
  <2> DEFINE L == [item : Items, device : Names, ip : Addresses, seenAt : Times]
  <2>1. read \in Seq(L) /\ line \in L
    BY <1>1 DEF BindTypeOK
  <2> HIDE DEF L, line
  <2>2. /\ Len(read') = n + 1 /\ DOMAIN read' = 1 .. n + 1 /\ DOMAIN read = 1 .. n
        /\ read'[n + 1] = line /\ \A j \in 1 .. n : read'[j] = read[j]
        /\ read' \in Seq(L)
    BY <1>0, <1>2, <2>1
  <2> QED
    BY <2>2 DEF L
<1>4. /\ \A j \in 1 .. n + 1 : j \in 1 .. n \/ j = n + 1
      /\ \A j \in 1 .. n : j \in 1 .. n + 1 /\ j =< n + 1
      /\ n + 1 \in 1 .. n + 1 /\ n + 1 =< n + 1
  BY <1>1
<1>5. /\ DOMAIN streams = DOMAIN activeStreams \cup filed
      /\ \A k \in DOMAIN streams : streams[k] = IF k \in filed THEN stream ELSE activeStreams[k]
      /\ filed \subseteq StreamKeys /\ stream \in Streams
      /\ DOMAIN streams \subseteq StreamKeys /\ streams \in [DOMAIN streams -> Streams]
      /\ \A k \in DOMAIN streams : lastPrune - streams[k].seenAt =< StaleAfter
  <2>1. stream \in Streams /\ filed \subseteq StreamKeys
    BY <1>1 DEF Streams, StreamKeys
  <2>2. streams = [k \in DOMAIN activeStreams \cup filed |->
                      IF k \in filed THEN stream ELSE activeStreams[k]]
    BY DEF Remembered
  <2>3. \A k \in DOMAIN activeStreams :
          k \in StreamKeys /\ activeStreams[k] \in Streams /\ lastPrune - activeStreams[k].seenAt =< StaleAfter
    BY <1>1, NumbersLaw DEF SweepInv
  <2>4. lastPrune - now =< StaleAfter
    BY <1>1, NumbersLaw
  <2> HIDE DEF filed, streams
  <2> QED
    BY <2>1, <2>2, <2>3, <2>4
<1> HIDE DEF streams
<1>6. /\ DOMAIN activeStreams' \subseteq DOMAIN streams
      /\ activeStreams' \in [DOMAIN activeStreams' -> Streams]
      /\ lastPrune' \in Times \cup {Never} /\ lastPrune' =< now
      /\ \A k \in DOMAIN activeStreams' :
           /\ activeStreams'[k] = streams[k]
           /\ lastPrune' - activeStreams'[k].seenAt =< StaleAfter
      /\ \A k \in DOMAIN streams \ DOMAIN activeStreams' : now - streams[k].seenAt > StaleAfter
  BY <1>1, <1>2, <1>5, SweepLaw
<1>7. filed \subseteq DOMAIN activeStreams'
  <2>1. ASSUME NEW k \in filed, k \notin DOMAIN activeStreams'
        PROVE  FALSE
    <3>1. now - now > StaleAfter
      BY <1>5, <1>6, <2>1
    <3> QED
      BY <1>1, <3>1
  <2> QED
    BY <2>1
<1>8. ReadInv'
  <2>1. /\ n + 1 =< MaxStreams
        /\ \A j \in 1 .. n : read[j].seenAt =< now
        /\ \A j, l \in 1 .. n : j =< l => read[j].seenAt =< read[l].seenAt
    BY <1>0, <1>1, <1>2, <1>3, StaleAssumption DEF ReadInv
  <2>2. read'[n + 1].seenAt = now
    BY <1>3
  <2>3. \A j \in 1 .. n + 1 : read'[j].seenAt =< now
    BY <1>1, <1>4, <1>3, <2>1, <2>2
  <2>4. ASSUME NEW j \in 1 .. n + 1, NEW l \in 1 .. n + 1, j =< l
        PROVE  read'[j].seenAt =< read'[l].seenAt
    <3>1. CASE l = n + 1
      BY <2>2, <2>3, <3>1
    <3>2. CASE l # n + 1
      <4>1. j \in 1 .. n /\ l \in 1 .. n
        BY <1>1, <2>4, <3>2
      <4> QED
        BY <1>3, <2>1, <2>4, <4>1
    <3> QED
      BY <3>1, <3>2
  <2> QED
    BY <1>2, <1>3, <2>1, <2>3, <2>4 DEF ReadInv
<1>9. SweepInv'
  BY <1>2, <1>6 DEF SweepInv
<1>10. ASSUME NEW k \in StreamKeys
      PROVE  /\ \A j \in 1 .. n : FiledUnder(j, k)' <=> FiledUnder(j, k)
             /\ FiledUnder(n + 1, k)' <=> k \in filed
             /\ \A j \in 1 .. n : StreamOf(j)' = StreamOf(j)
             /\ StreamOf(n + 1)' = stream
  <2>1. \A j \in 1 .. n : (FiledUnder(j, k)' <=> FiledUnder(j, k)) /\ StreamOf(j)' = StreamOf(j)
    BY <1>3 DEF FiledUnder, StreamOf
  <2>2. FiledUnder(n + 1, k)' <=> k = DeviceKey(d) \/ (d # Unknown /\ k = AddressKey(a))
    BY <1>3 DEF FiledUnder
  <2>3. StreamOf(n + 1)' = stream
    BY <1>3 DEF StreamOf
  <2> QED
    BY <2>1, <2>2, <2>3
<1> HIDE DEF filed, stream
<1>11. MapInv'
  <2> SUFFICES ASSUME NEW k \in StreamKeys
               PROVE  /\ k \in DOMAIN activeStreams' =>
                           \E j \in DOMAIN read' : LastUnder(j, k)' /\ activeStreams'[k] = StreamOf(j)'
                      /\ k \notin DOMAIN activeStreams' =>
                           \/ \A j \in DOMAIN read' : ~FiledUnder(j, k)'
                           \/ \E j \in DOMAIN read' : LastUnder(j, k)' /\ now - read'[j].seenAt > StaleAfter
    BY <1>2 DEF MapInv
  <2>1. CASE k \in filed
    <3>1. n + 1 \in DOMAIN read' /\ LastUnder(n + 1, k)'
      BY <1>3, <1>4, <1>10, <2>1 DEF LastUnder
    <3>2. activeStreams'[k] = StreamOf(n + 1)' /\ k \in DOMAIN activeStreams'
      BY <1>5, <1>6, <1>7, <1>10, <2>1
    <3> QED
      BY <3>1, <3>2
  <2>2. CASE k \notin filed
    <3>1. \A j \in 1 .. n : LastUnder(j, k)' <=> LastUnder(j, k)
      BY <1>3, <1>4, <1>10, <2>2 DEF LastUnder
    <3>2. 1 .. n \subseteq DOMAIN read'
      BY <1>1, <1>3
    <3>3. CASE k \in DOMAIN activeStreams
      <4>1. PICK j \in 1 .. n : LastUnder(j, k) /\ activeStreams[k] = StreamOf(j)
        BY <1>1, <1>3, <3>3 DEF MapInv
      <4>2. LastUnder(j, k)' /\ activeStreams[k] = StreamOf(j)' /\ j \in DOMAIN read'
        BY <1>10, <3>1, <3>2, <4>1
      <4>3. CASE k \in DOMAIN activeStreams'
        <5>1. activeStreams'[k] = activeStreams[k]
          BY <1>5, <1>6, <2>2, <4>3
        <5> QED
          BY <4>2, <4>3, <5>1
      <4>4. CASE k \notin DOMAIN activeStreams'
        <5>1. now - activeStreams[k].seenAt > StaleAfter
          BY <1>5, <1>6, <2>2, <3>3, <4>4
        <5>2. activeStreams[k].seenAt = read'[j].seenAt
          BY <4>2 DEF StreamOf
        <5> QED
          BY <4>2, <4>4, <5>1, <5>2
      <4> QED
        BY <4>3, <4>4
    <3>4. CASE k \notin DOMAIN activeStreams
      <4>1. k \notin DOMAIN activeStreams'
        BY <1>5, <1>6, <2>2, <3>4
      <4>2. CASE \A j \in 1 .. n : ~FiledUnder(j, k)
        <5>1. \A j \in DOMAIN read' : ~FiledUnder(j, k)'
          BY <1>3, <1>4, <1>10, <2>2, <4>2
        <5> QED
          BY <4>1, <5>1
      <4>3. CASE \E j \in 1 .. n : LastUnder(j, k) /\ now - read[j].seenAt > StaleAfter
        <5>1. PICK j \in 1 .. n : LastUnder(j, k) /\ now - read[j].seenAt > StaleAfter
          BY <4>3
        <5>2. LastUnder(j, k)' /\ now - read'[j].seenAt > StaleAfter /\ j \in DOMAIN read'
          BY <1>3, <3>1, <3>2, <5>1
        <5> QED
          BY <4>1, <5>2
      <4> QED
        BY <1>1, <1>3, <3>4, <4>2, <4>3 DEF MapInv
    <3> QED
      BY <3>3, <3>4
  <2> QED
    BY <2>1, <2>2
<1>12. ToldInv'
  BY <1>0, <1>1, <1>2, <1>3, ToldLaw
<1>13. BindTypeOK' /\ PlayInv'
  <2>1. PlayInv'
    BY <1>1, <1>2, PlayStep
  <2>2. BindTypeOK'
    BY <1>1, <1>2, <1>3, <1>5, <1>6, <2>1 DEF BindTypeOK, PlayInv
  <2> QED
    BY <2>1, <2>2
<1> QED
  BY <1>8, <1>9, <1>11, <1>12, <1>13 DEF BindInv

(* The sweep alone, or nothing. *)
LEMMA QuietMapLaw ==
    ASSUME BindTypeOK, ReadInv, MapInv, SweepInv, UNCHANGED <<now, read>>,
           PruneStreamsMaybe(activeStreams) \/ UNCHANGED <<activeStreams, lastPrune>>
    PROVE  /\ ReadInv' /\ MapInv' /\ SweepInv'
           /\ DOMAIN activeStreams' \subseteq StreamKeys
           /\ activeStreams' \in [DOMAIN activeStreams' -> Streams]
           /\ lastPrune' \in Times \cup {Never}
<1>1. ReadInv'
  BY DEF ReadInv
<1>2. \A k, i : /\ (LastUnder(i, k)' <=> LastUnder(i, k)) /\ (FiledUnder(i, k)' <=> FiledUnder(i, k))
              /\ StreamOf(i)' = StreamOf(i)
  BY DEF LastUnder, FiledUnder, StreamOf
<1>3. CASE UNCHANGED <<activeStreams, lastPrune>>
  <2>1. MapInv'
    BY <1>2, <1>3 DEF MapInv
  <2> QED
    BY <1>1, <1>3, <2>1 DEF SweepInv, BindTypeOK
<1>4. CASE PruneStreamsMaybe(activeStreams)
  <2>1. /\ DOMAIN activeStreams \subseteq StreamKeys /\ activeStreams \in [DOMAIN activeStreams -> Streams]
        /\ lastPrune =< now /\ now \in Times
        /\ \A k \in DOMAIN activeStreams : lastPrune - activeStreams[k].seenAt =< StaleAfter
    BY DEF BindTypeOK, SweepInv
  <2>2. /\ DOMAIN activeStreams' \subseteq DOMAIN activeStreams
        /\ activeStreams' \in [DOMAIN activeStreams' -> Streams]
        /\ lastPrune' \in Times \cup {Never} /\ lastPrune' =< now
        /\ \A k \in DOMAIN activeStreams' :
             /\ activeStreams'[k] = activeStreams[k]
             /\ lastPrune' - activeStreams'[k].seenAt =< StaleAfter
        /\ \A k \in DOMAIN activeStreams \ DOMAIN activeStreams' :
             now - activeStreams[k].seenAt > StaleAfter
    BY <1>4, <2>1, SweepLaw
  <2>3. SweepInv'
    BY <2>2 DEF SweepInv
  <2>4. MapInv'
    <3> SUFFICES ASSUME NEW k \in StreamKeys
                 PROVE  /\ k \in DOMAIN activeStreams' =>
                             \E i \in DOMAIN read : LastUnder(i, k) /\ activeStreams'[k] = StreamOf(i)
                        /\ k \notin DOMAIN activeStreams' =>
                             \/ \A i \in DOMAIN read : ~FiledUnder(i, k)
                             \/ \E i \in DOMAIN read : LastUnder(i, k) /\ now - read[i].seenAt > StaleAfter
      BY <1>2 DEF MapInv
    <3>1. CASE k \in DOMAIN activeStreams
      <4>1. PICK i \in DOMAIN read : LastUnder(i, k) /\ activeStreams[k] = StreamOf(i)
        BY <3>1 DEF MapInv
      <4>2. activeStreams[k].seenAt = read[i].seenAt
        BY <4>1 DEF StreamOf
      <4>3. CASE k \in DOMAIN activeStreams'
        BY <2>2, <4>1, <4>3
      <4>4. CASE k \notin DOMAIN activeStreams'
        BY <2>2, <3>1, <4>1, <4>2, <4>4
      <4> QED
        BY <4>3, <4>4
    <3>2. CASE k \notin DOMAIN activeStreams
      BY <2>2, <3>2 DEF MapInv
    <3> QED
      BY <3>1, <3>2
  <2> QED
    BY <1>1, <2>1, <2>2, <2>3, <2>4
<1> QED
  BY <1>3, <1>4

(* The last lines before a heartbeat that is read now. *)
LEMMA LastLineLaw ==
    ASSUME BindTypeOK, NEW b, b.after = Len(read), b.device \in Names, b.ip \in Addresses
    PROVE  /\ \A i \in DOMAIN read : LastUnder(i, DeviceKey(b.device)) =>
                i \in OwnLines(b) /\ Max(OwnLines(b)) = i
           /\ \A i \in DOMAIN read : LastUnder(i, AddressKey(b.ip)) =>
                i \in NearLines(b) /\ Max(NearLines(b)) = i
           /\ OwnLines(b) # {} => \E i \in DOMAIN read : FiledUnder(i, DeviceKey(b.device))
           /\ NearLines(b) # {} => \E i \in DOMAIN read : FiledUnder(i, AddressKey(b.ip))
<1>1. /\ OwnLines(b) = {i \in DOMAIN read : FiledUnder(i, DeviceKey(b.device))}
      /\ NearLines(b) = {i \in DOMAIN read : FiledUnder(i, AddressKey(b.ip))}
  BY NumbersLaw, FiledLaw DEF OwnLines, NearLines
<1>2. DOMAIN read \subseteq Int
  BY NumbersLaw
<1>3. ASSUME NEW i \in DOMAIN read, LastUnder(i, DeviceKey(b.device))
      PROVE  i \in OwnLines(b) /\ Max(OwnLines(b)) = i
  <2>1. i \in OwnLines(b) /\ OwnLines(b) \in SUBSET Int /\ \A j \in OwnLines(b) : j =< i
    BY <1>1, <1>2, <1>3 DEF LastUnder
  <2> QED
    BY <2>1, MaxLaw
<1>4. ASSUME NEW i \in DOMAIN read, LastUnder(i, AddressKey(b.ip))
      PROVE  i \in NearLines(b) /\ Max(NearLines(b)) = i
  <2>1. i \in NearLines(b) /\ NearLines(b) \in SUBSET Int /\ \A j \in NearLines(b) : j =< i
    BY <1>1, <1>2, <1>4 DEF LastUnder
  <2> QED
    BY <2>1, MaxLaw
<1> QED
  BY <1>1, <1>3, <1>4

(* What is said of a heartbeat when it is read. *)
LEMMA SaidLaw ==
    ASSUME BindInv, NEW d \in Names, NEW a \in Addresses, read' = read,
           told' = {[item |-> ItemFor(d, a), device |-> d, shown |-> NameFor(d, a),
                     ip |-> a, at |-> now, after |-> Len(read)]}
    PROVE  /\ ToldInv' /\ ItemFor(d, a) \in Contents /\ NameFor(d, a) \in Names
<1>0. BindTypeOK /\ ReadInv /\ MapInv
  BY DEF BindInv
<1>1. PICK b : b = [item |-> ItemFor(d, a), device |-> d, shown |-> NameFor(d, a),
                    ip |-> a, at |-> now, after |-> Len(read)]
  OBVIOUS
<1>2. /\ b.item = ItemFor(d, a) /\ b.device = d /\ b.shown = NameFor(d, a) /\ b.ip = a
      /\ b.at = now /\ b.after = Len(read) /\ told' = {b}
  BY <1>1
<1>3. /\ now \in Nat /\ BindingWindow \in Nat /\ StaleAfter \in Nat /\ BindingWindow < StaleAfter
      /\ \A i \in DOMAIN read :
           /\ read[i].item \in Items /\ read[i].device \in Names
           /\ read[i].seenAt \in Nat
  BY <1>0, NumbersLaw
<1>4. /\ \A i \in DOMAIN read : LastUnder(i, DeviceKey(d)) => i \in OwnLines(b) /\ Max(OwnLines(b)) = i
      /\ \A i \in DOMAIN read : LastUnder(i, AddressKey(a)) => i \in NearLines(b) /\ Max(NearLines(b)) = i
      /\ OwnLines(b) # {} => \E i \in DOMAIN read : FiledUnder(i, DeviceKey(d))
      /\ NearLines(b) # {} => \E i \in DOMAIN read : FiledUnder(i, AddressKey(a))
  BY <1>0, <1>2, LastLineLaw
<1>5. /\ OwnLines(b) # {} => Max(OwnLines(b)) \in OwnLines(b)
      /\ NearLines(b) # {} => Max(NearLines(b)) \in NearLines(b)
  <2>1. \A k \in StreamKeys :
          \/ \A i \in DOMAIN read : ~FiledUnder(i, k)
          \/ \E i \in DOMAIN read : LastUnder(i, k)
    BY <1>0 DEF MapInv
  <2>2. DeviceKey(d) \in StreamKeys /\ AddressKey(a) \in StreamKeys
    BY DEF StreamKeys
  <2> QED
    BY <1>4, <2>1, <2>2
<1> DEFINE Said ==
      /\ Bindable(b, OwnLines(b)) => b.item = read[Max(OwnLines(b))].item
      /\ b.item # Session /\ ~Bindable(b, OwnLines(b)) =>
           /\ Bindable(b, NearLines(b))
           /\ b.item = read[Max(NearLines(b))].item
           /\ \A i \in OwnLines(b) : b.at - read[i].seenAt > StaleAfter
      /\ OwnLines(b) = {} =>
           b.item = IF Bindable(b, NearLines(b)) THEN read[Max(NearLines(b))].item ELSE Session
      /\ b.shown # b.device =>
           /\ b.device = Unknown
           /\ NearLines(b) # {}
           /\ b.shown = read[Max(NearLines(b))].device
      /\ b.item \in Contents /\ b.shown \in Names
<1>6. Said
  <2>1. CASE \E i \in DOMAIN read : LastUnder(i, DeviceKey(d)) /\ Found(d, a) = {StreamOf(i)}
    <3>1. PICK i \in DOMAIN read : LastUnder(i, DeviceKey(d)) /\ Found(d, a) = {StreamOf(i)}
      BY <2>1
    <3>2. i \in OwnLines(b) /\ Max(OwnLines(b)) = i
      BY <1>4, <3>1
    <3>3. read[i].device = d
      BY <3>1, FiledLaw DEF LastUnder
    <3>4. /\ ItemFor(d, a) = IF now - read[i].seenAt =< BindingWindow THEN read[i].item ELSE Session
          /\ NameFor(d, a) = d
      <4>1. PICK s : /\ Found(d, a) = {s} /\ s.item = read[i].item /\ s.device = d
                     /\ s.seenAt = read[i].seenAt
        <5>1. PICK s : s = StreamOf(i)
          OBVIOUS
        <5> QED
          BY <3>1, <3>3, <5>1 DEF StreamOf
      <4>2. /\ ItemFor(d, a) = IF now - s.seenAt =< BindingWindow THEN s.item ELSE Session
            /\ NameFor(d, a) = IF d = Unknown /\ s.device # Unknown THEN s.device ELSE d
        BY <4>1, ChosenLaw
      <4> QED
        BY <4>1, <4>2
    <3>5. Bindable(b, OwnLines(b)) <=> now - read[i].seenAt =< BindingWindow
      BY <1>2, <3>2 DEF Bindable
    <3> QED
      BY <1>2, <1>3, <3>2, <3>4, <3>5 DEF Contents
  <2>2. CASE /\ \/ \A i \in DOMAIN read : ~FiledUnder(i, DeviceKey(d))
                \/ \E i \in DOMAIN read : LastUnder(i, DeviceKey(d)) /\ now - read[i].seenAt > StaleAfter
             /\ \/ \E i \in DOMAIN read : LastUnder(i, AddressKey(a)) /\ Found(d, a) = {StreamOf(i)}
                \/ /\ Found(d, a) = {}
                   /\ \/ \A i \in DOMAIN read : ~FiledUnder(i, AddressKey(a))
                      \/ \E i \in DOMAIN read : LastUnder(i, AddressKey(a)) /\ now - read[i].seenAt > StaleAfter
    <3>1. \A j \in OwnLines(b) : now - read[j].seenAt > StaleAfter
      <4>1. CASE \A i \in DOMAIN read : ~FiledUnder(i, DeviceKey(d))
        BY <1>4, <4>1
      <4>2. CASE \E i \in DOMAIN read : LastUnder(i, DeviceKey(d)) /\ now - read[i].seenAt > StaleAfter
        <5>1. PICK i \in DOMAIN read : LastUnder(i, DeviceKey(d)) /\ now - read[i].seenAt > StaleAfter
          BY <4>2
        <5>2. ASSUME NEW j \in OwnLines(b)
              PROVE  j \in DOMAIN read /\ j =< i
          <6>1. j \in DOMAIN read /\ FiledUnder(j, DeviceKey(d))
            BY <1>0, <1>2, NumbersLaw, FiledLaw DEF OwnLines
          <6> QED
            BY <5>1, <6>1 DEF LastUnder
        <5>3. \A j \in OwnLines(b) : j \in DOMAIN read /\ read[j].seenAt =< read[i].seenAt
          BY <1>0, <5>2 DEF ReadInv
        <5> QED
          BY <1>3, <5>1, <5>3
      <4> QED
        BY <2>2, <4>1, <4>2
    <3>2. ~Bindable(b, OwnLines(b))
      <4> SUFFICES ASSUME OwnLines(b) # {}, now - read[Max(OwnLines(b))].seenAt =< BindingWindow
                   PROVE  FALSE
        BY <1>2 DEF Bindable
      <4>1. PICK m \in OwnLines(b) : m = Max(OwnLines(b))
        BY <1>5
      <4>2. m \in DOMAIN read
        BY <1>0, <1>2, NumbersLaw DEF OwnLines
      <4> QED
        BY <1>3, <3>1, <4>1, <4>2
    <3>3. CASE \E i \in DOMAIN read : LastUnder(i, AddressKey(a)) /\ Found(d, a) = {StreamOf(i)}
      <4>1. PICK i \in DOMAIN read : LastUnder(i, AddressKey(a)) /\ Found(d, a) = {StreamOf(i)}
        BY <3>3
      <4>2. i \in NearLines(b) /\ Max(NearLines(b)) = i
        BY <1>4, <4>1
      <4>3. /\ ItemFor(d, a) = IF now - read[i].seenAt =< BindingWindow THEN read[i].item ELSE Session
            /\ NameFor(d, a) = IF d = Unknown /\ read[i].device # Unknown THEN read[i].device ELSE d
        <5>1. PICK s : /\ Found(d, a) = {s} /\ s.item = read[i].item /\ s.device = read[i].device
                       /\ s.seenAt = read[i].seenAt
          <6>1. PICK s : s = StreamOf(i)
            OBVIOUS
          <6> QED
            BY <4>1, <6>1 DEF StreamOf
        <5>2. /\ ItemFor(d, a) = IF now - s.seenAt =< BindingWindow THEN s.item ELSE Session
              /\ NameFor(d, a) = IF d = Unknown /\ s.device # Unknown THEN s.device ELSE d
          BY <5>1, ChosenLaw
        <5> QED
          BY <5>1, <5>2
      <4>4. Bindable(b, NearLines(b)) <=> now - read[i].seenAt =< BindingWindow
        BY <1>2, <4>2 DEF Bindable
      <4> QED
        BY <1>2, <1>3, <3>1, <3>2, <4>2, <4>3, <4>4 DEF Contents
    <3>4. CASE /\ Found(d, a) = {}
               /\ \/ \A i \in DOMAIN read : ~FiledUnder(i, AddressKey(a))
                  \/ \E i \in DOMAIN read : LastUnder(i, AddressKey(a)) /\ now - read[i].seenAt > StaleAfter
      <4>1. ItemFor(d, a) = Session /\ NameFor(d, a) = d
        BY <3>4 DEF ItemFor, NameFor
      <4>2. ~Bindable(b, NearLines(b))
        <5>1. CASE \A i \in DOMAIN read : ~FiledUnder(i, AddressKey(a))
          BY <1>4, <5>1 DEF Bindable
        <5>2. CASE \E i \in DOMAIN read : LastUnder(i, AddressKey(a)) /\ now - read[i].seenAt > StaleAfter
          BY <1>2, <1>3, <1>4, <5>2 DEF Bindable
        <5> QED
          BY <3>4, <5>1, <5>2
      <4> QED
        BY <1>2, <3>2, <4>1, <4>2 DEF Contents
    <3> QED
      BY <2>2, <3>3, <3>4
  <2> QED
    BY <1>0, <2>1, <2>2, FoundLaw
<1>7. ToldInv'
  <2>1. /\ OwnLines(b)' = OwnLines(b) /\ NearLines(b)' = NearLines(b)
        /\ (Bindable(b, OwnLines(b))' <=> Bindable(b, OwnLines(b)))
        /\ (Bindable(b, NearLines(b))' <=> Bindable(b, NearLines(b)))
    BY DEF OwnLines, NearLines, Bindable
  <2>2. BoundToLatest'
    BY <1>2, <1>6, <2>1 DEF BoundToLatest
  <2>3. NameBelongs'
    BY <1>2, <1>6, <2>1 DEF NameBelongs
  <2>4. b.after =< Len(read')
    BY <1>0, <1>2, NumbersLaw
  <2> QED
    BY <1>2, <1>5, <2>1, <2>2, <2>3, <2>4 DEF ToldInv
<1> QED
  BY <1>2, <1>6, <1>7

(* A heartbeat, up to the insert of its play. *)
LEMMA HeartbeatLaw ==
    ASSUME BindInv, NEW d \in Names, NEW a \in Addresses, NEW at \in Times, HeartbeatLine(d, a, at)
    PROVE  BindInv'
<1> DEFINE b == [item |-> ItemFor(d, a), device |-> d, shown |-> NameFor(d, a),
                 ip |-> a, at |-> now, after |-> Len(read)]
<1>1. /\ now' = now /\ read' = read /\ told' = {b}
      /\ PruneStreamsMaybe(activeStreams) \/ UNCHANGED <<activeStreams, lastPrune>>
      /\ Renew(<<a, ItemFor(d, a)>>, at) \/ Claim(<<a, ItemFor(d, a)>>, at)
  BY DEF HeartbeatLine
<1>2. ToldInv' /\ ItemFor(d, a) \in Contents /\ NameFor(d, a) \in Names
  BY <1>1, SaidLaw
<1>3. <<a, ItemFor(d, a)>> \in Keys
  BY <1>2, KeyAssumption
<1>4. PlayInv'
  <2>1. [Next]_playVars
    BY <1>1, <1>3 DEF Next, RecordPlay
  <2> QED
    BY <2>1, PlayStep DEF BindInv
<1>5. /\ ReadInv' /\ MapInv' /\ SweepInv'
      /\ DOMAIN activeStreams' \subseteq StreamKeys
      /\ activeStreams' \in [DOMAIN activeStreams' -> Streams]
      /\ lastPrune' \in Times \cup {Never}
  BY <1>1, QuietMapLaw DEF BindInv
<1>6. b \in [item : Contents, device : Names, shown : Names, ip : Addresses, at : Times, after : 0 .. MaxStreams]
  <2>1. Len(read) \in 0 .. MaxStreams /\ now \in Times
    BY NumbersLaw, StaleAssumption DEF BindInv, ReadInv, BindTypeOK
  <2> QED
    BY <1>2, <2>1
<1>7. BindTypeOK'
  <2> HIDE DEF b
  <2>1. TypeOK'
    BY <1>4 DEF PlayInv
  <2>2. now' \in Times /\ read' \in Seq([item : Items, device : Names, ip : Addresses, seenAt : Times])
    BY <1>1 DEF BindInv, BindTypeOK
  <2>3. told' \subseteq [item : Contents, device : Names, shown : Names,
                       ip : Addresses, at : Times, after : 0 .. MaxStreams]
    BY <1>1, <1>6
  <2> QED
    BY <1>5, <2>1, <2>2, <2>3 DEF BindTypeOK
<1> QED
  BY <1>2, <1>4, <1>5, <1>7 DEF BindInv

(* The end of a heartbeat, or a line that is neither. *)
LEMMA LineEndLaw ==
    ASSUME BindInv, RecordPlayReturns \/ OtherLine
    PROVE  BindInv'
<1>1. /\ now' = now /\ read' = read /\ told' = told /\ PruneStreamsMaybe(activeStreams)
      /\ Insert \/ InsertFails \/ UNCHANGED playVars
  BY DEF RecordPlayReturns, OtherLine
<1>2. PlayInv'
  <2>1. [Next]_playVars
    BY <1>1 DEF Next, RecordPlay
  <2> QED
    BY <2>1, PlayStep DEF BindInv
<1>3. /\ ReadInv' /\ MapInv' /\ SweepInv'
      /\ DOMAIN activeStreams' \subseteq StreamKeys
      /\ activeStreams' \in [DOMAIN activeStreams' -> Streams]
      /\ lastPrune' \in Times \cup {Never}
  BY <1>1, QuietMapLaw DEF BindInv
<1>4. BindTypeOK'
  BY <1>1, <1>2, <1>3 DEF BindInv, BindTypeOK, PlayInv
<1>5. ToldInv'
  <2>1. PICK n \in Nat : n = Len(read)
    BY NumbersLaw DEF BindInv
  <2>2. Len(read') >= n /\ DOMAIN read' = 1 .. Len(read') /\ Len(read') \in Nat
    BY <1>1, <2>1, NumbersLaw DEF BindInv
  <2> QED
    BY <1>1, <2>1, <2>2, ToldLaw DEF BindInv
<1> QED
  BY <1>2, <1>3, <1>4, <1>5 DEF BindInv

(* Time, and the end of a life. *)
LEMMA TickLaw ==
    ASSUME BindInv, Tick
    PROVE  BindInv'
<1>1. /\ now < MaxTime /\ now' = now + 1 /\ playVars' = playVars
      /\ activeStreams' = activeStreams /\ lastPrune' = lastPrune /\ read' = read /\ told' = told
  BY DEF Tick
<1>2. /\ now \in Nat /\ now' \in Times /\ lastPrune \in Int /\ StaleAfter \in Nat
      /\ \A i \in DOMAIN read : read[i].seenAt \in Nat
  BY <1>1, NumbersLaw, PlayBoundAssumption DEF BindInv, Times
<1>3. PlayInv' /\ BindTypeOK'
  <2>1. PlayInv'
    BY <1>1, PlayStep DEF BindInv
  <2> QED
    BY <1>1, <1>2, <2>1 DEF BindInv, BindTypeOK, PlayInv
<1>4. ReadInv' /\ SweepInv'
  BY <1>1, <1>2 DEF BindInv, ReadInv, SweepInv
<1>5. MapInv'
  <2>1. \A k, i : /\ (LastUnder(i, k)' <=> LastUnder(i, k)) /\ (FiledUnder(i, k)' <=> FiledUnder(i, k))
                /\ StreamOf(i)' = StreamOf(i)
    BY <1>1 DEF LastUnder, FiledUnder, StreamOf
  <2>2. \A i \in DOMAIN read : now - read[i].seenAt > StaleAfter => now' - read'[i].seenAt > StaleAfter
    BY <1>1, <1>2
  <2> QED
    BY <1>1, <2>1, <2>2 DEF BindInv, MapInv
<1>6. ToldInv'
  <2>1. PICK n \in Nat : n = Len(read)
    BY NumbersLaw DEF BindInv
  <2>2. Len(read') >= n /\ DOMAIN read' = 1 .. Len(read') /\ Len(read') \in Nat
    BY <1>1, <2>1, NumbersLaw DEF BindInv
  <2> QED
    BY <1>1, <2>1, <2>2, ToldLaw DEF BindInv
<1> QED
  BY <1>3, <1>4, <1>5, <1>6 DEF BindInv

(* A map without streams, and no line read. *)
LEMMA FreshLaw ==
    ASSUME activeStreams = NoStreams, lastPrune = Never, read = <<>>, told = {}, now \in Times, PlayInv
    PROVE  BindInv
<1>1. /\ DOMAIN activeStreams = {} /\ DOMAIN read = {} /\ Len(read) = 0
      /\ now \in Nat /\ Never =< now /\ MaxStreams \in Nat
  BY StaleAssumption, PlayBoundAssumption DEF NoStreams, Never, Times
<1>2. activeStreams \in [DOMAIN activeStreams -> Streams]
  BY DEF NoStreams
<1>3. BindTypeOK
  BY <1>1, <1>2 DEF BindTypeOK, PlayInv
<1>4. ReadInv /\ MapInv /\ SweepInv
  BY <1>1 DEF ReadInv, MapInv, SweepInv
<1>5. ToldInv
  BY DEF ToldInv, BoundToLatest, NameBelongs
<1> QED
  BY <1>3, <1>4, <1>5 DEF BindInv

-----------------------------------------------------------------------------
(* Every step keeps the map, what was said of the last heartbeat, and the
   debounce of the recorder. *)
THEOREM BindInvariant == BindSpec => []BindInv
<1>1. BindInit => BindInv
  <2> SUFFICES ASSUME BindInit PROVE BindInv
    OBVIOUS
  <2>1. PlayInv /\ now \in Times
    BY PlayInit, PlayBoundAssumption DEF BindInit, Times
  <2> QED
    BY <2>1, FreshLaw DEF BindInit
<1>2. BindInv /\ [BindNext]_bindVars => BindInv'
  <2> SUFFICES ASSUME BindInv, [BindNext]_bindVars
               PROVE  BindInv'
    OBVIOUS
  <2>1. CASE \E d \in Names, a \in Addresses, i \in Items : StreamLine(d, a, i)
    BY <2>1, StreamLaw
  <2>2. CASE \E d \in Names, a \in Addresses, at \in Times : HeartbeatLine(d, a, at)
    BY <2>2, HeartbeatLaw
  <2>3. CASE RecordPlayReturns \/ OtherLine
    BY <2>3, LineEndLaw
  <2>4. CASE TailerDies
    <3>1. PlayInv'
      BY <2>4, RestartStep DEF BindInv, TailerDies
    <3>2. /\ activeStreams' = NoStreams /\ lastPrune' = Never /\ read' = <<>> /\ told' = {}
          /\ now' \in Times
      BY <2>4 DEF TailerDies, BindInv, BindTypeOK
    <3>3. BindTypeOK' /\ ReadInv' /\ MapInv' /\ SweepInv'
      <4>1. /\ DOMAIN activeStreams' = {} /\ DOMAIN read' = {} /\ Len(read') = 0
            /\ now' \in Nat /\ Never =< now' /\ MaxStreams \in Nat
        BY <3>2, StaleAssumption, PlayBoundAssumption DEF NoStreams, Never, Times
      <4>2. activeStreams' \in [DOMAIN activeStreams' -> Streams]
        BY <3>2 DEF NoStreams
      <4> QED
        BY <3>1, <3>2, <4>1, <4>2 DEF BindTypeOK, PlayInv, ReadInv, MapInv, SweepInv
    <3>4. ToldInv'
      BY <3>2 DEF ToldInv, BoundToLatest, NameBelongs
    <3> QED
      BY <3>1, <3>3, <3>4 DEF BindInv
  <2>5. CASE Tick
    BY <2>5, TickLaw
  <2>6. CASE UNCHANGED bindVars
    <3>1. PlayInv'
      BY <2>6, PlayStep DEF bindVars, BindInv
    <3>2. /\ now' = now /\ read' = read /\ told' = told
          /\ activeStreams' = activeStreams /\ lastPrune' = lastPrune
      BY <2>6 DEF bindVars
    <3>3. ReadInv' /\ MapInv' /\ SweepInv'
      BY <3>2, QuietMapLaw DEF BindInv
    <3>4. BindTypeOK'
      BY <3>1, <3>2 DEF BindInv, BindTypeOK, PlayInv
    <3>5. ToldInv'
      <4>1. PICK n \in Nat : n = Len(read)
        BY NumbersLaw DEF BindInv
      <4>2. Len(read') >= n /\ DOMAIN read' = 1 .. Len(read') /\ Len(read') \in Nat
        BY <3>2, <4>1, NumbersLaw DEF BindInv
      <4> QED
        BY <3>2, <4>1, <4>2, ToldLaw DEF BindInv
    <3> QED
      BY <3>1, <3>3, <3>4, <3>5 DEF BindInv
  <2> QED
    BY <2>1, <2>2, <2>3, <2>4, <2>5, <2>6 DEF BindNext
<1> QED
  BY <1>1, <1>2, PTL DEF BindSpec

(* Every variable keeps its type. *)
THEOREM BindTypes == BindSpec => []BindTypeOK
BY BindInvariant, PTL DEF BindInv

(* A heartbeat with a device name is counted for the item that device asked for
   last, if anything in the window; one whose name no line carried, for the item
   its address asked for last. *)
THEOREM HeartbeatsBound == BindSpec => []BoundToLatest
BY BindInvariant, PTL DEF BindInv, ToldInv

(* The name a play is stored with is one that belongs to it. *)
THEOREM NamesBelong == BindSpec => []NameBelongs
BY BindInvariant, PTL DEF BindInv, ToldInv

(* The tailer with its stream map is a user of the recorder: whatever lines it reads,
   each of its steps is one that the recorder allows with keys of its own, or
   leaves the recorder alone. *)
THEOREM TailerDrivesRecorder == BindSpec => Spec
<1>1. BindInit => Init
  BY DEF BindInit
<1>2. BindInv /\ [BindNext]_bindVars => [Next]_playVars
  <2> SUFFICES ASSUME BindInv, [BindNext]_bindVars
               PROVE  [Next]_playVars
    OBVIOUS
  <2>1. CASE \E d \in Names, a \in Addresses, at \in Times : HeartbeatLine(d, a, at)
    <3>1. PICK d \in Names, a \in Addresses, at \in Times : HeartbeatLine(d, a, at)
      BY <2>1
    <3>2. Renew(<<a, ItemFor(d, a)>>, at) \/ Claim(<<a, ItemFor(d, a)>>, at)
      BY <3>1 DEF HeartbeatLine
    <3>3. read' = read /\ told' = {[item |-> ItemFor(d, a), device |-> d, shown |-> NameFor(d, a),
                                    ip |-> a, at |-> now, after |-> Len(read)]}
      BY <3>1 DEF HeartbeatLine
    <3>4. <<a, ItemFor(d, a)>> \in Keys
      BY <3>3, SaidLaw, KeyAssumption
    <3> QED
      BY <3>2, <3>4 DEF Next, RecordPlay
  <2>2. CASE \/ \E d \in Names, a \in Addresses, i \in Items : StreamLine(d, a, i)
             \/ RecordPlayReturns \/ OtherLine
    BY <2>2 DEF StreamLine, RecordPlayReturns, OtherLine, Next, RecordPlay
  <2>3. CASE TailerDies \/ Tick \/ UNCHANGED bindVars
    BY <2>3 DEF TailerDies, Tick, bindVars, Next
  <2> QED
    BY <2>1, <2>2, <2>3 DEF BindNext
<1> QED
  BY <1>1, <1>2, BindInvariant, PTL DEF BindSpec, Spec

(* So what is true of any recorder is true of the one the tailer drives: with the
   keys it computes, a viewing counts once and no heartbeat is left uncounted. *)
THEOREM TailerCountsViewings ==
    ASSUME 2 * Jitter < Window
    PROVE  BindSpec => [](OneRowPerViewing /\ EveryBeatCounted)
<1>1. Spec => []OneRowPerViewing
  BY ViewingsCountOnce
<1>2. Spec => []EveryBeatCounted
  BY BeatsAreCounted
<1> QED
  BY <1>1, <1>2, TailerDrivesRecorder, PTL

(* The tailer feeds the recorder such that its debounce holds: two plays of a
   client and an item lie a window apart. *)
THEOREM TailerKeepsDebounce == BindSpec => []PlaysApart
<1>1. BindInv => PlaysApart
  BY DEF BindInv, PlayInv, ApartInv, PlaysApart, Plays, Ever
<1> QED
  BY <1>1, BindInvariant, PTL

(* Who asked for something within the window is shown with it. *)
THEOREM ViewersAreShown == BindSpec => []ViewerIsShown
<1>1. BindInv => ViewerIsShown
  <2> SUFFICES ASSUME BindInv, NEW d \in {read[i].device : i \in DOMAIN read},
                      now - read[Max({i \in DOMAIN read : read[i].device = d})].seenAt =< BindingWindow
               PROVE  \E s \in ActiveSessions :
                         /\ s.device = d /\ s.active
                         /\ s.item = read[Max({i \in DOMAIN read : read[i].device = d})].item
    BY DEF ViewerIsShown
  <2> DEFINE own == {i \in DOMAIN read : read[i].device = d}
  <2>1. DeviceKey(d) \in StreamKeys /\ d \in Names
    BY NumbersLaw DEF BindInv, StreamKeys
  <2>2. PICK i \in DOMAIN read :
          /\ LastUnder(i, DeviceKey(d))
          /\ \/ DeviceKey(d) \in DOMAIN activeStreams /\ activeStreams[DeviceKey(d)] = StreamOf(i)
             \/ now - read[i].seenAt > StaleAfter
    <3>1. \E j \in DOMAIN read : FiledUnder(j, DeviceKey(d))
      BY FiledLaw
    <3> QED
      BY <2>1, <3>1 DEF BindInv, MapInv
  <2>3. Max(own) = i /\ read[i].device = d
    <3>1. own \in SUBSET Int
      BY NumbersLaw DEF BindInv
    <3>2. i \in own /\ \A j \in own : j =< i
      BY <2>2, FiledLaw DEF LastUnder
    <3> QED
      BY <3>1, <3>2, MaxLaw
  <2> HIDE DEF own
  <2>4. now - read[i].seenAt =< BindingWindow
    BY <2>3 DEF own
  <2>5. DeviceKey(d) \in DOMAIN activeStreams /\ activeStreams[DeviceKey(d)] = StreamOf(i)
    <3>1. /\ now \in Nat /\ read[i].seenAt \in Nat /\ BindingWindow \in Nat /\ StaleAfter \in Nat
          /\ BindingWindow < StaleAfter
      BY NumbersLaw DEF BindInv
    <3> QED
      BY <2>2, <2>4, <3>1
  <2>6. [device |-> read[i].device, item |-> read[i].item, seenAt |-> read[i].seenAt,
         active |-> now - read[i].seenAt =< BindingWindow] \in ActiveSessions
    BY <2>5 DEF ActiveSessions, StreamOf
  <2> QED
    BY <2>3, <2>4, <2>6 DEF own
<1> QED
  BY <1>1, BindInvariant, PTL

(* The map does not grow with the log. *)
THEOREM OldStreamsGo == BindSpec => StreamsReclaimed
<1> DEFINE Law ==
      pc' = "idle" /\ now' = now =>
        \A k \in DOMAIN activeStreams' :
           now - activeStreams'[k].seenAt < StaleAfter + PruneInterval
<1>1. BindInv /\ BindInv' /\ [BindNext]_bindVars => [Law]_bindVars
  <2> SUFFICES ASSUME BindInv, BindNext, pc' = "idle", now' = now
               PROVE  Law
    OBVIOUS
  <2>0. /\ now \in Nat /\ lastPrune \in Int /\ StaleAfter \in Nat /\ PruneInterval \in Nat \ {0}
        /\ lastPrune =< now /\ BindTypeOK /\ now \in Times
        /\ DOMAIN activeStreams \subseteq StreamKeys /\ activeStreams \in [DOMAIN activeStreams -> Streams]
        /\ \A k \in DOMAIN activeStreams : lastPrune - activeStreams[k].seenAt =< StaleAfter
    BY NumbersLaw DEF BindInv, SweepInv, BindTypeOK
  <2>1. ASSUME PruneStreamsMaybe(activeStreams)
        PROVE  Law
    BY <2>0, <2>1, SweepLaw
  <2>2. ASSUME NEW d \in Names, NEW a \in Addresses, NEW i \in Items, StreamLine(d, a, i)
        PROVE  Law
    <3> DEFINE stream == [item |-> i, device |-> d, seenAt |-> now]
               filed == {DeviceKey(d)} \cup (IF d = Unknown THEN {} ELSE {AddressKey(a)})
               streams == Remembered(d, a, stream)
    <3>1. stream \in Streams /\ filed \subseteq StreamKeys /\ stream.seenAt = now
      BY <2>0 DEF Streams, StreamKeys
    <3>2. streams = [k \in DOMAIN activeStreams \cup filed |->
                        IF k \in filed THEN stream ELSE activeStreams[k]]
      BY DEF Remembered
    <3>3. lastPrune - now =< StaleAfter
      BY <2>0
    <3>4. PruneStreamsMaybe(streams)
      BY <2>2 DEF StreamLine
    <3> HIDE DEF stream, filed, streams
    <3>5. /\ DOMAIN streams \subseteq StreamKeys /\ streams \in [DOMAIN streams -> Streams]
          /\ \A k \in DOMAIN streams : lastPrune - streams[k].seenAt =< StaleAfter
      BY <2>0, <3>1, <3>2, <3>3
    <3> QED
      BY <2>0, <3>4, <3>5, SweepLaw
  <2>3. ASSUME NEW d \in Names, NEW a \in Addresses, NEW at \in Times, HeartbeatLine(d, a, at)
        PROVE  Law
    <3>1. PruneStreamsMaybe(activeStreams) \/ Claim(<<a, ItemFor(d, a)>>, at)
      BY <2>3 DEF HeartbeatLine
    <3> QED
      BY <2>1, <3>1 DEF Claim
  <2>4. CASE TailerDies
    BY <2>4 DEF TailerDies, NoStreams
  <2>5. CASE Tick
    BY <2>0, <2>5 DEF Tick
  <2>6. CASE RecordPlayReturns \/ OtherLine
    BY <2>1, <2>6 DEF RecordPlayReturns, OtherLine
  <2> QED
    BY <2>2, <2>3, <2>4, <2>5, <2>6 DEF BindNext
<1> QED
  BY <1>1, BindInvariant, PTL DEF BindSpec, StreamsReclaimed
====
