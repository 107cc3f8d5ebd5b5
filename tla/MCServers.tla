----------------------------- MODULE MCServers -----------------------------
(* What the two HTTP servers of the process do beside the statistics: the
   login limiter, the session map and the trend of the API server, and the name
   cache of the proxy guard, on small instances.  The four share no state and
   no lock, so an initial choice says which of them a behaviour is about. *)
EXTENDS LoginLimiter, WebSessions, DnsCache, TrendQuery

CONSTANTS h1, h2, c1, c2, t1, t2, n1, n2, n3

VARIABLE part

Quiet(others) == part' = part /\ UNCHANGED others

ServersInit ==
    /\ part \in {"limiter", "sessions", "cache", "trend"}
    /\ LoginInit /\ SessionInit /\ DnsInit /\ TrendInit
    /\ part # "trend" => stored = {}

ServersNext ==
    \/ part = "limiter" /\ LoginNext /\ Quiet(<<sessionVars, dnsVars, trendVars>>)
    \/ part = "sessions" /\ SessionNext /\ Quiet(<<loginVars, dnsVars, trendVars>>)
    \/ part = "cache" /\ DnsNext /\ Quiet(<<loginVars, sessionVars, trendVars>>)
    \/ part = "trend" /\ TrendNext /\ Quiet(<<loginVars, sessionVars, dnsVars>>)

serversVars == <<loginVars, sessionVars, dnsVars, trendVars, part>>

ServersSpec ==
    /\ ServersInit /\ [][ServersNext]_serversVars
    /\ part = "limiter" => LoginFairness

(* The variables of all four keep their types, and the cache its limit. *)
ServersTypeOK == LoginTypeOK /\ SessionTypeOK /\ DnsTypeOK /\ TrendTypeOK
====
