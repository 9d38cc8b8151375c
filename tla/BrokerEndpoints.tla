--------------------------- MODULE BrokerEndpoints ---------------------------
(***************************************************************************)
(* The endpoint root of sf_broker.py: one directory per session with the   *)
(* socket cred.sock in it, made by the broker of that session's mission    *)
(* (_ensure_listener), removed with it (_drop_listener), left behind when  *)
(* the broker dies, and swept by every broker that starts                  *)
(* (_sweep_stale_endpoints).  Several brokers share the root: each mission *)
(* worker has its own process.                                             *)
(***************************************************************************)
EXTENDS Naturals, FiniteSets

CONSTANTS
  Rooms,        \* the sessions
  Brokers,      \* the broker processes
  HostOf,       \* the broker each session belongs to
  MaxDeaths     \* how many brokers die, a bound

ASSUME EndpointsAssumption ==
  HostOf \in [Rooms -> Brokers] /\ MaxDeaths \in Nat

VARIABLES
  dir,          \* the session directories that exist
  sock,         \* what is at cred.sock: "none", "dead", "bound", "live"
  making,       \* how far _ensure_listener is: "none", "mkdir", "bound", "live"
  life,         \* the brokers: "new", "sweeping", "up", "dead"
  toSweep,      \* the directories a starting broker still has to look at
  refused,      \* the one it found refusing, if any: a set of at most one
  deaths

epVars == <<dir, sock, making, life, toSweep, refused, deaths>>

EpTypeOK ==
  /\ dir \subseteq Rooms
  /\ sock \in [Rooms -> {"none", "dead", "bound", "live"}]
  /\ making \in [Rooms -> {"none", "mkdir", "bound", "live"}]
  /\ life \in [Brokers -> {"new", "sweeping", "up", "dead"}]
  /\ {toSweep, refused} \subseteq [Brokers -> SUBSET Rooms]
  /\ deaths \in 0..MaxDeaths

\* Brokers that start on a root in which earlier ones may have died.
EpInit ==
  /\ dir \in SUBSET Rooms
  /\ sock \in [Rooms -> {"none", "dead"}]
  /\ \A s \in Rooms : sock[s] = "dead" => s \in dir
  /\ making = [s \in Rooms |-> "none"]
  /\ life = [b \in Brokers |-> "new"]
  /\ toSweep = [b \in Brokers |-> {}] /\ refused = [b \in Brokers |-> {}]
  /\ deaths = 0

BeginSweep(b) ==
  /\ life[b] = "new"
  /\ life' = [life EXCEPT ![b] = "sweeping"]
  /\ toSweep' = [toSweep EXCEPT ![b] = dir]
  /\ UNCHANGED <<dir, sock, making, refused, deaths>>

\* connect() to the socket of one directory: only a refusal makes it ours.  A
\* socket that is bound and does not listen yet refuses like a dead one.
Probe(b, s) ==
  /\ life[b] = "sweeping" /\ s \in toSweep[b] /\ refused[b] = {}
  /\ toSweep' = [toSweep EXCEPT ![b] = @ \ {s}]
  /\ refused' = [refused EXCEPT ![b] =
       IF s \in dir /\ sock[s] \in {"dead", "bound"} THEN {s} ELSE {}]
  /\ UNCHANGED <<dir, sock, making, life, deaths>>

\* unlink and rmdir of what is at the path by then.
Sweep(b, s) ==
  /\ s \in refused[b]
  /\ refused' = [refused EXCEPT ![b] = {}]
  /\ sock' = [sock EXCEPT ![s] = "none"]
  /\ dir' = dir \ {s}
  /\ UNCHANGED <<making, life, toSweep, deaths>>

EndSweep(b) ==
  /\ life[b] = "sweeping" /\ toSweep[b] = {} /\ refused[b] = {}
  /\ life' = [life EXCEPT ![b] = "up"]
  /\ UNCHANGED <<dir, sock, making, toSweep, refused, deaths>>

\* _ensure_listener: the directory, then whatever was at the path unlinked and
\* the socket bound, then listen.  A directory swept in between fails the bind.
MakeDirectory(s) ==
  /\ life[HostOf[s]] = "up" /\ making[s] = "none"
  /\ making' = [making EXCEPT ![s] = "mkdir"]
  /\ dir' = dir \cup {s}
  /\ UNCHANGED <<sock, life, toSweep, refused, deaths>>

Bind(s) ==
  /\ making[s] = "mkdir"
  /\ IF s \in dir
     THEN /\ making' = [making EXCEPT ![s] = "bound"]
          /\ sock' = [sock EXCEPT ![s] = "bound"]
     ELSE making' = [making EXCEPT ![s] = "none"] /\ UNCHANGED sock
  /\ UNCHANGED <<dir, life, toSweep, refused, deaths>>

Listen(s) ==
  /\ making[s] = "bound"
  /\ making' = [making EXCEPT ![s] = "live"]
  /\ sock' = [sock EXCEPT ![s] = IF @ = "bound" THEN "live" ELSE @]
  /\ UNCHANGED <<dir, life, toSweep, refused, deaths>>

\* _drop_listener
Drop(s) ==
  /\ making[s] = "live"
  /\ making' = [making EXCEPT ![s] = "none"]
  /\ sock' = [sock EXCEPT ![s] = "none"]
  /\ dir' = dir \ {s}
  /\ UNCHANGED <<life, toSweep, refused, deaths>>

\* The process ends without close(): nothing answers at its sockets any more.
BrokerDies(b) ==
  /\ life[b] # "dead" /\ deaths < MaxDeaths
  /\ deaths' = deaths + 1
  /\ life' = [life EXCEPT ![b] = "dead"]
  /\ making' = [s \in Rooms |-> IF HostOf[s] = b THEN "none" ELSE making[s]]
  /\ sock' = [s \in Rooms |->
       IF HostOf[s] = b /\ sock[s] # "none" THEN "dead" ELSE sock[s]]
  /\ toSweep' = [toSweep EXCEPT ![b] = {}]
  /\ refused' = [refused EXCEPT ![b] = {}]
  /\ UNCHANGED dir

BrokerRestarts(b) ==
  /\ life[b] = "dead"
  /\ life' = [life EXCEPT ![b] = "new"]
  /\ UNCHANGED <<dir, sock, making, toSweep, refused, deaths>>

EpNext ==
  \/ \E b \in Brokers : \/ BeginSweep(b) \/ EndSweep(b)
                        \/ BrokerDies(b) \/ BrokerRestarts(b)
                        \/ \E s \in Rooms : Probe(b, s) \/ Sweep(b, s)
  \/ \E s \in Rooms : MakeDirectory(s) \/ Bind(s) \/ Listen(s) \/ Drop(s)

EpSpec == EpInit /\ [][EpNext]_epVars

\* "A LIVE endpoint is left strictly alone -- another mission's broker may be
\* running" (sf_broker.py:1262): while a broker listens for a session, its
\* socket is where the sandbox was told to look.
LiveEndpointsStay == \A s \in Rooms : making[s] = "live" => sock[s] = "live"
=============================================================================
