-------------------------- MODULE RabbitConnection --------------------------
(***************************************************************************)
(* The AMQP connection one process shares between its goroutines: a        *)
(* pointer to a connection and a mutex (src/shared/infrastructure/broker/  *)
(* rabbitmq/connection.go).  Channel() locks the mutex, dials again when   *)
(* the connection is closed, backing off for as long as the broker is      *)
(* away without giving up the mutex, and opens a channel, which fails when *)
(* the connection was lost after it was looked at.                         *)
(*                                                                         *)
(* The actions change the variables below only; a module that models the   *)
(* goroutines conjoins them with steps of its own.                         *)
(***************************************************************************)
EXTENDS Naturals

CONSTANTS
    Goroutines,     \* callers of Channel()
    MaxOutages      \* bound: how often the broker drops the connections

ASSUME ConnectionAssumption == /\ "free" \notin Goroutines
                               /\ MaxOutages \in Nat

VARIABLES
    broker,     \* "up" or "down"; what it stores survives
    conn,       \* what IsClosed() says of the connection c.conn points to
    links,      \* connections of this process the broker holds open
    mutex,      \* the goroutine that holds c.mu, or "free"
    call,       \* where each goroutine is in Channel(), "none" outside
    outages     \* outages so far (bounded)

connVars == <<broker, conn, links, mutex, call, outages>>

ConnTypeOK ==
    /\ broker \in {"up", "down"}
    /\ conn \in {"open", "closed"}
    /\ links \in Nat
    /\ mutex \in Goroutines \cup {"free"}
    /\ call \in [Goroutines -> {"none", "locks", "dials", "opens"}]
    /\ outages \in 0..MaxOutages

\* NewConnection dials once and fails when the broker is away.
ConnInit ==
    /\ broker = "up" /\ conn = "open" /\ links = 1
    /\ mutex = "free" /\ call = [g \in Goroutines |-> "none"]
    /\ outages = 0

-----------------------------------------------------------------------------
\* g calls Channel() and waits for the mutex.
Ask(g) ==
    /\ call[g] = "none"
    /\ call' = [call EXCEPT ![g] = "locks"]
    /\ UNCHANGED <<broker, conn, links, mutex, outages>>

\* Mutant of Lock: the connection is looked at without the mutex.
LockUnguarded(g) ==
    /\ call[g] = "locks"
    /\ mutex' = g
    /\ call' = [call EXCEPT ![g] = IF conn = "open" THEN "opens" ELSE "dials"]
    /\ UNCHANGED <<broker, conn, links, outages>>

\* Under the mutex g looks at the connection.
Lock(g) ==
    /\ call[g] = "locks" /\ mutex = "free"
    /\ mutex' = g
    /\ call' = [call EXCEPT ![g] = IF conn = "open" THEN "opens" ELSE "dials"]
    /\ UNCHANGED <<broker, conn, links, outages>>

\* reconnect: the attempts that fail change nothing, and keep the mutex.
Dial(g) ==
    /\ call[g] = "dials" /\ broker = "up"
    /\ conn' = "open"
    /\ links' = links + 1
    /\ call' = [call EXCEPT ![g] = "opens"]
    /\ UNCHANGED <<broker, mutex, outages>>

Unlock(g) ==
    /\ call' = [call EXCEPT ![g] = "none"]
    /\ mutex' = "free"
    /\ UNCHANGED <<broker, conn, links, outages>>

Opened(g)      == call[g] = "opens" /\ conn = "open" /\ Unlock(g)
OpenFailed(g)  == call[g] = "opens" /\ conn = "closed" /\ Unlock(g)

-----------------------------------------------------------------------------
\* The broker, or the network, drops every connection; the broker may stay away.
Outage ==
    /\ broker = "up" /\ outages < MaxOutages
    /\ \E b \in {"up", "down"} : broker' = b
    /\ conn' = "closed" /\ links' = 0
    /\ outages' = outages + 1
    /\ UNCHANGED <<mutex, call>>

BrokerReturns ==
    /\ broker = "down"
    /\ broker' = "up"
    /\ UNCHANGED <<conn, links, mutex, call, outages>>

\* The process ends: cleanup closes the connection, or the kernel does.
ConnEnds ==
    /\ conn' = "closed" /\ links' = 0 /\ mutex' = "free"
    /\ call' = [g \in Goroutines |-> "none"]
    /\ UNCHANGED <<broker, outages>>

\* A new process dials before it starts any goroutine.
ConnStarts ==
    /\ broker = "up"
    /\ conn' = "open" /\ links' = 1
    /\ UNCHANGED <<broker, mutex, call, outages>>

-----------------------------------------------------------------------------
(* The process never holds two connections: the goroutine that dials is    *)
(* the only one to have found the old one closed, for it looks under the   *)
(* mutex (a second connection would leak: nothing points to the first).    *)
OneConnection ==
    /\ links <= 1
    /\ conn = "open" <=> links = 1

(* What makes it so: who is past the lock holds it, alone, and who dials   *)
(* does so because there is no connection.                                 *)
ConnInv ==
    /\ ConnTypeOK
    /\ OneConnection
    /\ \A g \in Goroutines :
          /\ call[g] \in {"dials", "opens"} => mutex = g
          /\ call[g] = "dials" => conn = "closed"
=============================================================================
