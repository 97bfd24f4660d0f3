-------------------------- MODULE DataPlaneServer ---------------------------
(***************************************************************************)
(* The accept, count and stop protocol of tunnel/server.go, which          *)
(* transport/tcp_proxy_server.go follows line by line: one accept loop, a  *)
(* goroutine for each connection, a counter under a mutex, a wait group,   *)
(* and Stop, which may be called at any time, but once.                    *)
(*                                                                         *)
(* The connection handler is the user's: a module that has one says what   *)
(* a connection does between Spawn and HandlerReturns.                     *)
(***************************************************************************)
EXTENDS Naturals, FiniteSets

CONSTANTS Conns, MaxConnections

ASSUME MaxConnectionsAssumption == MaxConnections \in Nat \ {0}

VARIABLES
    listener,     \* s.listener: none, open or closed
    stopChan,     \* closed
    loop,         \* where the accept loop is
    conn,         \* where each connection is
    activeConns,
    wg,           \* the wait group's counter
    stopPC        \* where Stop is

serverVars == <<listener, stopChan, loop, conn, activeConns, wg, stopPC>>

ServerInit ==
    /\ listener = "none" /\ stopChan = FALSE /\ loop = "off"
    /\ conn = [c \in Conns |-> "new"]
    /\ activeConns = 0 /\ wg = 0
    /\ stopPC = "off"

(* Connection c goes on to state s.                                        *)
Becomes(c, s) == conn' = [conn EXCEPT ![c] = s]

(* Start does not look at stopChan: after a Stop it listens all the same.  *)
Start ==
    /\ loop = "off" /\ loop' = "accept" /\ listener' = "open"
    /\ UNCHANGED <<stopChan, conn, activeConns, wg, stopPC>>

Accept(c) ==
    /\ loop = "accept" /\ listener = "open" /\ conn[c] = "new"
    /\ loop' = "check" /\ Becomes(c, "accepted")
    /\ UNCHANGED <<listener, stopChan, activeConns, wg, stopPC>>

AcceptError ==
    /\ loop = "accept"
    /\ loop' = IF stopChan THEN "over" ELSE "accept"
    /\ UNCHANGED <<listener, stopChan, conn, activeConns, wg, stopPC>>

AtLimit == activeConns >= MaxConnections

Admit(c) ==
    /\ conn[c] = "accepted" /\ ~AtLimit
    /\ activeConns' = activeConns + 1 /\ Becomes(c, "counted") /\ loop' = "spawn"
    /\ UNCHANGED <<listener, stopChan, wg, stopPC>>

(* Variant: the wait group is entered before the limit is looked at, and   *)
(* not left.                                                               *)
RefuseEntered(c) ==
    /\ conn[c] = "accepted" /\ AtLimit
    /\ Becomes(c, "refused") /\ loop' = "accept" /\ wg' = wg + 1
    /\ UNCHANGED <<listener, stopChan, activeConns, stopPC>>

Refuse(c) ==
    /\ conn[c] = "accepted" /\ AtLimit
    /\ Becomes(c, "refused") /\ loop' = "accept"
    /\ UNCHANGED <<listener, stopChan, activeConns, wg, stopPC>>

Spawn(c) ==
    /\ conn[c] = "counted"
    /\ wg' = wg + 1 /\ Becomes(c, "running") /\ loop' = "accept"
    /\ UNCHANGED <<listener, stopChan, activeConns, stopPC>>

HandlerReturns(c) ==
    /\ conn[c] = "running" /\ Becomes(c, "returned")
    /\ UNCHANGED <<listener, stopChan, loop, activeConns, wg, stopPC>>

Uncount(c) ==
    /\ conn[c] = "returned" /\ Becomes(c, "uncounted")
    /\ activeConns' = activeConns - 1
    /\ UNCHANGED <<listener, stopChan, loop, wg, stopPC>>

WgDone(c) ==
    /\ conn[c] = "uncounted" /\ Becomes(c, "done")
    /\ wg' = wg - 1
    /\ UNCHANGED <<listener, stopChan, loop, activeConns, stopPC>>

StopClose ==
    /\ stopPC = "off" /\ stopPC' = "closed" /\ stopChan' = TRUE
    /\ UNCHANGED <<listener, loop, conn, activeConns, wg>>

StopListener ==
    /\ stopPC = "closed" /\ stopPC' = "waiting"
    /\ listener' = IF listener = "open" THEN "closed" ELSE listener
    /\ UNCHANGED <<stopChan, loop, conn, activeConns, wg>>

StopWait ==
    /\ stopPC = "waiting" /\ wg = 0 /\ stopPC' = "done"
    /\ UNCHANGED <<listener, stopChan, loop, conn, activeConns, wg>>

AcceptLoop ==
    \/ Start \/ AcceptError
    \/ \E c \in Conns : Accept(c) \/ Admit(c) \/ Refuse(c) \/ Spawn(c)

Unwind(c) == Uncount(c) \/ WgDone(c)

Stop == StopClose \/ StopListener \/ StopWait

ServerTypeOK ==
    /\ listener \in {"none", "open", "closed"} /\ stopChan \in BOOLEAN
    /\ loop \in {"off", "accept", "check", "spawn", "over"}
    /\ conn \in [Conns -> {"new", "accepted", "refused", "counted", "running",
                           "returned", "uncounted", "done"}]
    /\ activeConns \in 0 .. MaxConnections /\ wg \in Nat
    /\ stopPC \in {"off", "closed", "waiting", "done"}
=============================================================================
