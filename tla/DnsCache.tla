----------------------------- MODULE DnsCache -----------------------------
(***************************************************************************)
(* The name cache of internal/proxyguard.  A request reads the clock, asks *)
(* the cache under a mutex, resolves the name without it when there is no  *)
(* valid entry, and files the answer in a second critical section, dated   *)
(* by the first reading of the clock.  Only answers all of whose addresses *)
(* are public are filed, and only those are dialled.  At its limit the     *)
(* cache is swept, and takes nothing when that does not help.              *)
(*                                                                         *)
(* Time is kept as distances from now, as in LoginLimiter.                 *)
(***************************************************************************)
EXTENDS Integers, FiniteSets, Functions

CONSTANTS
    Requests,     \* goroutines that serve a request
    Hosts,        \* host names
    DnsCacheTTL,
    DnsCacheMax,
    MaxLookup     \* from the arrival of a request to its dialling, at most

ASSUME DnsAssumption ==
    /\ DnsCacheTTL \in Nat /\ MaxLookup \in Nat /\ MaxLookup < DnsCacheTTL
    /\ DnsCacheMax \in Nat

VARIABLES
    request,    \* of each request: its step, its host, the age of its clock reading,
                \* and of the answer it has
    dnsCache    \* of each host: the time left, and (history) the age of the answer

dnsVars == <<request, dnsCache>>

NoEntries == [x \in {} |-> 0]
Gone == -MaxLookup    \* of an entry: expired, whoever asks
OldAnswer == DnsCacheTTL + 2 * MaxLookup

Entries == [left : Gone .. DnsCacheTTL, age : 0 .. OldAnswer]
Serving ==
    [pc : {"check", "lookup", "store", "dial"}, host : Hosts,
     stamp : 0 .. MaxLookup, age : 0 .. OldAnswer]

DnsTypeOK ==
    /\ DOMAIN request \subseteq Requests
    /\ request \in [DOMAIN request -> Serving]
    /\ DOMAIN dnsCache \subseteq Hosts
    /\ dnsCache \in [DOMAIN dnsCache -> Entries]
    /\ Cardinality(DOMAIN dnsCache) =< DnsCacheMax

DnsInit == request = NoEntries /\ dnsCache = NoEntries

Serves(g, step) == g \in DOMAIN request /\ request[g].pc = step
Set(map, x, value) == [y \in DOMAIN map \cup {x} |-> IF y = x THEN value ELSE map[y]]
Leave(g) == request' = Restrict(request, DOMAIN request \ {g})

ValidAt(entry, s) == entry.left > -s

-----------------------------------------------------------------------------
(* resolvePublicUpstream. *)

Accept(g, host) ==
    /\ g \notin DOMAIN request
    /\ request' = Set(request, g, [pc |-> "check", host |-> host, stamp |-> 0, age |-> 0])
    /\ UNCHANGED dnsCache

(* Mutant: a hit makes the entry last longer. *)
HitRenewing(g) ==
    LET host == request[g].host
    IN  /\ Serves(g, "check")
        /\ host \in DOMAIN dnsCache /\ ValidAt(dnsCache[host], request[g].stamp)
        /\ request' = [request EXCEPT ![g].pc = "dial", ![g].age = dnsCache[host].age]
        /\ dnsCache' = [dnsCache EXCEPT ![host].left = DnsCacheTTL - request[g].stamp]

Hit(g) ==
    LET host == request[g].host
    IN  /\ Serves(g, "check")
        /\ host \in DOMAIN dnsCache /\ ValidAt(dnsCache[host], request[g].stamp)
        /\ request' = [request EXCEPT ![g].pc = "dial", ![g].age = dnsCache[host].age]
        /\ UNCHANGED dnsCache

Miss(g) ==
    LET host == request[g].host
    IN  /\ Serves(g, "check")
        /\ host \in DOMAIN dnsCache => ~ValidAt(dnsCache[host], request[g].stamp)
        /\ request' = [request EXCEPT ![g].pc = "lookup"]
        /\ UNCHANGED dnsCache

(* LookupIP answers, and every address is public. *)
Resolved(g) ==
    /\ Serves(g, "lookup")
    /\ request' = [request EXCEPT ![g].pc = "store", ![g].age = 0]
    /\ UNCHANGED dnsCache

(* It fails, takes too long or finds nothing: 502; or some address is blocked:
   403. *)
Refused(g) ==
    /\ Serves(g, "lookup")
    /\ Leave(g)
    /\ UNCHANGED dnsCache

(* Mutant: no sweep. *)
SweptNever(s) == dnsCache

(* The sweep at the limit, by the same reading of the clock. *)
Swept(s) ==
    IF Cardinality(DOMAIN dnsCache) >= DnsCacheMax
    THEN Restrict(dnsCache, {x \in DOMAIN dnsCache : ValidAt(dnsCache[x], s)})
    ELSE dnsCache

(* Mutant: one more than the limit is taken. *)
StoreBeyond(g) ==
    LET swept == Swept(request[g].stamp)
        entry == [left |-> DnsCacheTTL - request[g].stamp, age |-> request[g].age]
    IN  /\ Serves(g, "store")
        /\ dnsCache' = IF Cardinality(DOMAIN swept) =< DnsCacheMax
                       THEN Set(swept, request[g].host, entry) ELSE swept
        /\ request' = [request EXCEPT ![g].pc = "dial"]

Store(g) ==
    LET swept == Swept(request[g].stamp)
        entry == [left |-> DnsCacheTTL - request[g].stamp, age |-> request[g].age]
    IN  /\ Serves(g, "store")
        /\ dnsCache' = IF Cardinality(DOMAIN swept) < DnsCacheMax
                       THEN Set(swept, request[g].host, entry) ELSE swept
        /\ request' = [request EXCEPT ![g].pc = "dial"]

(* dialPinnedAddress: the address of the answer, whatever the name resolves to
   by now. *)
Dial(g) ==
    /\ Serves(g, "dial")
    /\ Leave(g)
    /\ UNCHANGED dnsCache

DnsRestart == request' = NoEntries /\ dnsCache' = NoEntries

(* The lookup is cut off after 8 s, an entry lasts 60 s. *)
DnsTick ==
    /\ \A g \in DOMAIN request : request[g].stamp < MaxLookup
    /\ request' = [g \in DOMAIN request |->
         [request[g] EXCEPT !.stamp = @ + 1, !.age = IF @ = OldAnswer THEN @ ELSE @ + 1]]
    /\ dnsCache' = [x \in DOMAIN dnsCache |->
         [left |-> IF dnsCache[x].left = Gone THEN Gone ELSE dnsCache[x].left - 1,
          age |-> IF dnsCache[x].age = OldAnswer THEN OldAnswer ELSE dnsCache[x].age + 1]]

Resolve(g) ==
    Hit(g) \/ Miss(g) \/ Resolved(g) \/ Refused(g) \/ Store(g) \/ Dial(g)

DnsNext ==
    \/ \E g \in Requests : (\E host \in Hosts : Accept(g, host)) \/ Resolve(g)
    \/ DnsRestart
    \/ DnsTick

DnsSpec == DnsInit /\ [][DnsNext]_dnsVars

-----------------------------------------------------------------------------
(* Properties. *)

(* An address is dialled only while its answer is young: a lifetime of the
   cache and the time of one request, however many requests renew, overtake and
   sweep meanwhile. *)
DialsFreshAnswer ==
    \A g \in DOMAIN request : Serves(g, "dial") =>
        request[g].age < DnsCacheTTL + MaxLookup

(* The cache at its limit: what is valid is never pushed out, and a request that
   resolved its name is only turned away by entries that were valid when it
   came, so a full cache is no dead end. *)
CacheAtLimit ==
    [][/\ \A x \in DOMAIN dnsCache \ DOMAIN dnsCache' : dnsCache[x].left > 0 => DnsRestart
       /\ \A g \in DOMAIN request \cap DOMAIN request' :
            request[g].pc = "store" /\ request'[g].pc = "dial" =>
                \/ request[g].host \in DOMAIN dnsCache'
                \/ \A x \in DOMAIN dnsCache' : ValidAt(dnsCache[x], request[g].stamp)]_dnsVars
====
