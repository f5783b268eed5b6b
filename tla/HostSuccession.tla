---------------------------- MODULE HostSuccession ---------------------------
(***************************************************************************)
(* What host migration promises a session, with no messages or timers: the *)
(* session has at most one live host, a new one is elected only when the   *)
(* old one is gone, nobody is elected twice, and as long as somebody is    *)
(* left there is a host again.                                             *)
(***************************************************************************)
EXTENDS FiniteSets

CONSTANTS Node, FirstHost

VARIABLES
    live,    \* nodes whose process runs
    hosts,   \* live nodes that act as host
    elected  \* nodes that ever took the role

svars == <<live, hosts, elected>>

SInit == live = Node /\ hosts = {FirstHost} /\ elected = {FirstHost}

Fail(n) ==
    /\ n \in live
    /\ live' = live \ {n}
    /\ hosts' = hosts \ {n}
    /\ UNCHANGED elected

Elect(n) ==
    /\ hosts = {} /\ n \in live \ elected
    /\ hosts' = {n}
    /\ elected' = elected \cup {n}
    /\ UNCHANGED live

SNext == \E n \in Node : Fail(n) \/ Elect(n)

SSafety == SInit /\ [][SNext]_svars

SSpec == SSafety /\ WF_svars(\E n \in Node : Elect(n))
=============================================================================
