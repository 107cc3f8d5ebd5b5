--------------------------- MODULE StreamBinding ---------------------------
(***************************************************************************)
(* Which item a heartbeat is counted for.  A heartbeat line names no item; *)
(* the tailer remembers the last media request of each device and of each  *)
(* address, by the time it read the line, and looks the heartbeat up       *)
(* there before it calls RecordPlay.  Streams nobody asks for any more are *)
(* reclaimed now and then, after any line.  One goroutine does all this,   *)
(* but time passes while RecordPlay waits for the database.                *)
(*                                                                         *)
(* One upstream: its name ends every key of both maps, so upstreams do not *)
(* meet.                                                                   *)
(***************************************************************************)
EXTENDS PlayRecorder, Sequences, FiniteSetsExt

CONSTANTS
    Addresses,      \* of clients
    Devices,        \* device names, as requests carry them
    Unknown,        \* "未知设备", the name of a request that carries none
    Items,          \* what is watched
    Session,        \* the item of a heartbeat that has no stream
    BindingWindow,  \* streamBindingWindow
    StaleAfter,     \* streamStaleAfter
    PruneInterval,  \* pruneInterval
    MaxLag,         \* bound: how late a heartbeat is read
    MaxStreams      \* bound: how many stream lines one life reads

Names == Devices \cup {Unknown}
Contents == Items \cup {Session}

ASSUME NameAssumption == Unknown \notin Devices /\ Session \notin Items
ASSUME KeyAssumption == Keys = Addresses \X Contents
ASSUME StaleAssumption ==
    /\ BindingWindow \in Nat /\ StaleAfter \in Nat /\ PruneInterval \in Nat \ {0}
    /\ BindingWindow < StaleAfter /\ StaleAfter < Window
    /\ MaxLag \in Nat /\ MaxStreams \in Nat

DeviceKey(d) == <<"device", d>>
AddressKey(a) == <<"address", a>>
StreamKeys == {DeviceKey(d) : d \in Names} \cup {AddressKey(a) : a \in Addresses}

VARIABLES
    now,            \* the clock of the tailer
    activeStreams,  \* the map of that name
    lastPrune,      \* when it was last swept
    read,           \* history: the stream lines of this life, in order
    told            \* history: the last heartbeat, as RecordPlay was told

bindVars == <<playVars, now, activeStreams, lastPrune, read, told>>

Streams == [item : Items, device : Names, seenAt : Times]
Never == -PruneInterval
NoStreams == [k \in {} |-> 0]

BindTypeOK ==
    /\ TypeOK
    /\ now \in Times
    /\ DOMAIN activeStreams \subseteq StreamKeys
    /\ activeStreams \in [DOMAIN activeStreams -> Streams]
    /\ lastPrune \in Times \cup {Never}
    /\ read \in Seq([item : Items, device : Names, ip : Addresses, seenAt : Times])
    /\ told \subseteq [item : Contents, device : Names, shown : Names,
                       ip : Addresses, at : Times, after : 0 .. MaxStreams]

BindInit ==
    /\ Init
    /\ now = 0
    /\ activeStreams = NoStreams
    /\ lastPrune = Never
    /\ read = <<>>
    /\ told = {}

-----------------------------------------------------------------------------
(* pruneStreamsMaybe, the end of every line that passes the filters. *)

Kept(streams) ==
    Restrict(streams, {k \in DOMAIN streams : now - streams[k].seenAt =< StaleAfter})

(* Mutant: the sweep is postponed by each line. *)
PruneStreamsPostponed(streams) ==
    /\ lastPrune' = now
    /\ activeStreams' = IF now - lastPrune < PruneInterval THEN streams ELSE Kept(streams)

(* Mutant: the sweep takes the interval for the age. *)
PruneStreamsEarly(streams) ==
    /\ lastPrune' = now
    /\ activeStreams' = Restrict(streams, {k \in DOMAIN streams : 2 * (now - streams[k].seenAt) < PruneInterval})

(* Mutant: what is stale is marked instead of deleted. *)
PruneStreamsMarking(streams) ==
    /\ lastPrune' = now
    /\ activeStreams' = [k \in DOMAIN streams |->
                            IF k \in DOMAIN Kept(streams) THEN streams[k]
                            ELSE [streams[k] EXCEPT !.seenAt = Never]]

PruneStreamsMaybe(streams) ==
    LET due == now - lastPrune >= PruneInterval
    IN  /\ lastPrune' = IF due THEN now ELSE lastPrune
        /\ activeStreams' = IF due THEN Kept(streams) ELSE streams

-----------------------------------------------------------------------------
(* The lines. *)

(* rememberStream: under the device, and under the address unless the device is
   unknown. *)
Remembered(d, a, stream) ==
    LET filed == {DeviceKey(d)} \cup (IF d = Unknown THEN {} ELSE {AddressKey(a)})
    IN  [k \in DOMAIN activeStreams \cup filed |->
            IF k \in filed THEN stream ELSE activeStreams[k]]

StreamLine(d, a, i) ==
    LET stream == [item |-> i, device |-> d, seenAt |-> now]
    IN  /\ pc = "idle"
        /\ Len(read) < MaxStreams
        /\ read' = Append(read, [item |-> i, device |-> d, ip |-> a, seenAt |-> now])
        /\ PruneStreamsMaybe(Remembered(d, a, stream))
        /\ UNCHANGED <<playVars, now, told>>

(* Mutant: the address is asked before the device. *)
FoundByAddress(d, a) ==
    {activeStreams[k] : k \in DOMAIN activeStreams \cap
        {IF AddressKey(a) \in DOMAIN activeStreams THEN AddressKey(a) ELSE DeviceKey(d)}}

(* The stream recordHeartbeat finds, if any: that of the device, whatever its
   age; only if there is none, that of the address. *)
Found(d, a) ==
    {activeStreams[k] : k \in DOMAIN activeStreams \cap
        {IF DeviceKey(d) \in DOMAIN activeStreams THEN DeviceKey(d) ELSE AddressKey(a)}}

ItemFor(d, a) ==
    LET fresh == {s \in Found(d, a) : now - s.seenAt =< BindingWindow}
    IN  IF fresh = {} THEN Session ELSE (CHOOSE s \in fresh : TRUE).item

(* Mutant: the name of the stream replaces any name. *)
NameForAny(d, a) ==
    LET named == {s \in Found(d, a) : s.device # Unknown}
    IN  IF named # {} THEN (CHOOSE s \in named : TRUE).device ELSE d

NameFor(d, a) ==
    LET named == {s \in Found(d, a) : s.device # Unknown}
    IN  IF d = Unknown /\ named # {} THEN (CHOOSE s \in named : TRUE).device ELSE d

(* recordHeartbeat and the call of RecordPlay up to its insert; the sweep comes
   when RecordPlay returns, which after a claim is later. *)
HeartbeatLine(d, a, at) ==
    /\ now - MaxLag =< at /\ at =< now
    /\ told' = {[item |-> ItemFor(d, a), device |-> d, shown |-> NameFor(d, a),
                 ip |-> a, at |-> now, after |-> Len(read)]}
    /\ \/ /\ Renew(<<a, ItemFor(d, a)>>, at)
          /\ PruneStreamsMaybe(activeStreams)
       \/ /\ Claim(<<a, ItemFor(d, a)>>, at)
          /\ UNCHANGED <<activeStreams, lastPrune>>
    /\ UNCHANGED <<now, read>>

RecordPlayReturns ==
    /\ Insert \/ InsertFails
    /\ PruneStreamsMaybe(activeStreams)
    /\ UNCHANGED <<now, read, told>>

(* A line that is neither: it only gives the sweep its turn. *)
OtherLine ==
    /\ pc = "idle"
    /\ PruneStreamsMaybe(activeStreams)
    /\ UNCHANGED <<playVars, now, read, told>>

TailerDies ==
    /\ Restart
    /\ activeStreams' = NoStreams
    /\ lastPrune' = Never
    /\ read' = <<>>
    /\ told' = {}
    /\ UNCHANGED now

Tick ==
    /\ now < MaxTime
    /\ now' = now + 1
    /\ UNCHANGED <<playVars, activeStreams, lastPrune, read, told>>

BindNext ==
    \/ \E d \in Names, a \in Addresses, i \in Items : StreamLine(d, a, i)
    \/ \E d \in Names, a \in Addresses, at \in Times : HeartbeatLine(d, a, at)
    \/ RecordPlayReturns
    \/ OtherLine
    \/ TailerDies
    \/ Tick

BindSpec == BindInit /\ [][BindNext]_bindVars

(* What ActiveSessions shows, each stream once. *)
ActiveSessions ==
    {[device |-> s.device, item |-> s.item, seenAt |-> s.seenAt,
      active |-> now - s.seenAt =< BindingWindow] :
        s \in {activeStreams[k] : k \in DOMAIN activeStreams}}

-----------------------------------------------------------------------------
(* Properties. *)

(* The stream lines read before a heartbeat by its device; and from its address
   by a device with a name. *)
OwnLines(b) == {i \in 1 .. b.after : read[i].device = b.device}
NearLines(b) == {i \in 1 .. b.after : read[i].ip = b.ip /\ read[i].device # Unknown}

Bindable(b, lines) ==
    lines # {} /\ b.at - read[Max(lines)].seenAt =< BindingWindow

(* recordHeartbeat, against the lines themselves: the heartbeat of a named device
   goes to the last item that device asked for in the window, and nothing the
   sweep reclaimed or another device did may change that; only a device that was
   silent for the time of reclaiming can get an item of its address.  Where no
   line carried the name of the heartbeat, the address alone decides: so it is
   for a nameless one as long as nobody else asks without a name. *)
BoundToLatest ==
    \A b \in told :
        /\ b.device # Unknown /\ Bindable(b, OwnLines(b)) => b.item = read[Max(OwnLines(b))].item
        /\ b.device # Unknown /\ b.item # Session /\ ~Bindable(b, OwnLines(b)) =>
             /\ Bindable(b, NearLines(b))
             /\ b.item = read[Max(NearLines(b))].item
             /\ \A i \in OwnLines(b) : b.at - read[i].seenAt > StaleAfter
        /\ OwnLines(b) = {} =>
             b.item = IF Bindable(b, NearLines(b)) THEN read[Max(NearLines(b))].item ELSE Session

(* The name a play is stored with: its own, or that of the last device at its
   address, never that of a device seen elsewhere. *)
NameBelongs ==
    \A b \in told : b.shown # b.device =>
        /\ b.device = Unknown
        /\ NearLines(b) # {}
        /\ b.shown = read[Max(NearLines(b))].device

(* The map does not grow with the log: after any line nothing in it is older
   than the time of reclaiming and one interval. *)
StreamsReclaimed ==
    [][pc' = "idle" /\ now' = now =>
         \A k \in DOMAIN activeStreams' :
            now - activeStreams'[k].seenAt < StaleAfter + PruneInterval]_bindVars

(* "Two minutes with a media request count as active" (README.md:16): the
   dashboard shows what each device last asked for as long as the window
   lasts.  All who ask without a name are one device to it. *)
ViewerIsShown ==
    \A d \in {read[i].device : i \in DOMAIN read} :
        LET last == read[Max({i \in DOMAIN read : read[i].device = d})]
        IN  now - last.seenAt =< BindingWindow =>
              \E s \in ActiveSessions :
                 s.device = d /\ s.item = last.item /\ s.active

(* "Watching one thing without a pause counts once, long videos are not counted
   again" (README.md:13): with one client that has one thing to watch, a play
   counted for it is followed by another only after heartbeats were a window
   apart. *)
OnlyViewer == Cardinality(Addresses \X Names \X Items) = 1

Paused(from, to) ==
    LET beats == {b.at : b \in heard}
    IN  \E b \in beats : from =< b /\ b < to /\ (\A c \in beats : b < c /\ c =< to => c - b >= Window)

LongVideoCountsOnce ==
    OnlyViewer => \A p, q \in rows :
        p.life = q.life /\ p.id < q.id /\ p.key[2] \in Items => Paused(p.at, q.at)
====
