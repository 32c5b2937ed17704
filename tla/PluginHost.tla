----------------------------- MODULE PluginHost -----------------------------
(***************************************************************************)
(* The Plugin Host's supervisor of one Backend Plugin                      *)
(* (internal/pluginhost/host.go) over the processes that the SDK's client  *)
(* starts and kills (sdk/plugin/client).  Each Backend Plugin has a        *)
(* supervisor and a process of its own, and they share nothing.  How long  *)
(* a backoff lasts is left out.                                            *)
(***************************************************************************)
EXTENDS Naturals, FiniteSets

CONSTANTS
  NoClient,     \* p.client is nil
  MaxLaunches   \* bound: processes started

ASSUME HostAssumption == MaxLaunches \in Nat /\ NoClient \notin Nat

VARIABLES
  sup,       \* where the supervisor's run stands
  state,     \* p.state
  client,    \* p.client: the number of its process
  launched,  \* how many processes were started; the last one is the current one
  alive,     \* processes that run
  exited,    \* what waitExit returned
  ctxDone    \* Start's context is done

hostVars == <<sup, state, client, launched, alive, exited, ctxDone>>

HostTypeOK ==
  /\ sup \in {"launch", "handshake", "up", "kill", "clear", "wait", "done"}
  /\ state \in {"starting", "running", "restarting", "stopped", "refused"}
  /\ launched \in 0 .. MaxLaunches /\ client \in 1 .. launched \cup {NoClient}
  /\ alive \subseteq 1 .. launched /\ exited \in BOOLEAN /\ ctxDone \in BOOLEAN

HostInit ==
  /\ sup = "launch" /\ state = "starting" /\ client = NoClient
  /\ launched = 0 /\ alive = {} /\ exited = FALSE /\ ctxDone = FALSE

\* The server stops.
Cancel ==
  /\ ~ctxDone /\ ctxDone' = TRUE
  /\ UNCHANGED <<sup, state, client, launched, alive, exited>>

\* A process ends by itself.
ProcessExits(p) ==
  /\ p \in alive /\ alive' = alive \ {p}
  /\ UNCHANGED <<sup, state, client, launched, exited, ctxDone>>

\* openVerified finds another binary than the pinned one, or the process cannot be
\* started.
LaunchFails ==
  /\ sup = "launch" /\ sup' = "wait" /\ state' = "restarting"
  /\ UNCHANGED <<client, launched, alive, exited, ctxDone>>

\* client.Start up to the process.  It does not look at the context.
Spawn ==
  /\ sup = "launch" /\ launched < MaxLaunches
  /\ sup' = "handshake" /\ launched' = launched + 1 /\ alive' = alive \cup {launched + 1}
  /\ UNCHANGED <<state, client, exited, ctxDone>>

\* (Faulty variants are named Bad...: each is a slip this code could have, and a
\* property of a module that extends this one rejects it.)

\* The process that did not answer is left to itself.
BadHandshakeFails ==
  /\ sup = "handshake" /\ sup' = "wait" /\ state' = "restarting"
  /\ UNCHANGED <<client, launched, alive, exited, ctxDone>>

\* dispense: no handshake, no capabilities, or malformed ones, within StartTimeout.
HandshakeFails ==
  /\ sup = "handshake" /\ sup' = "wait" /\ state' = "restarting"
  /\ alive' = alive \ {launched}
  /\ UNCHANGED <<client, launched, exited, ctxDone>>

\* The plugin's FIPS 140-3 mode does not cover the server's (Covers).  The deferred
\* function of run leaves this state alone.
Refuse ==
  /\ sup = "handshake" /\ launched \in alive
  /\ sup' = "done" /\ state' = "refused" /\ alive' = alive \ {launched}
  /\ UNCHANGED <<client, launched, exited, ctxDone>>

Publish ==
  /\ sup = "handshake" /\ sup' = "up" /\ state' = "running" /\ client' = launched
  /\ UNCHANGED <<launched, alive, exited, ctxDone>>

\* A plugin that is gone is noticed only when the server stops.
BadExitSeen ==
  /\ sup = "up" /\ launched \notin alive /\ ctxDone /\ sup' = "kill" /\ exited' = TRUE
  /\ UNCHANGED <<state, client, launched, alive, ctxDone>>

\* waitExit: the poll finds the process gone, or the context is done.
ExitSeen ==
  /\ sup = "up" /\ launched \notin alive /\ sup' = "kill" /\ exited' = TRUE
  /\ UNCHANGED <<state, client, launched, alive, ctxDone>>

Stopping ==
  /\ sup = "up" /\ ctxDone /\ sup' = "kill" /\ exited' = FALSE
  /\ UNCHANGED <<state, client, launched, alive, ctxDone>>

\* Kill only waits.
BadKill ==
  /\ sup = "kill" /\ launched \notin alive /\ sup' = "clear"
  /\ UNCHANGED <<state, client, launched, alive, exited, ctxDone>>

\* c.Kill waits for the process's end.  Calls can still find the client.
Kill ==
  /\ sup = "kill" /\ sup' = "clear" /\ alive' = alive \ {launched}
  /\ UNCHANGED <<state, client, launched, exited, ctxDone>>

Clear ==
  /\ sup = "clear" /\ client' = NoClient
  /\ sup' = IF exited THEN "wait" ELSE "done"
  /\ state' = IF exited THEN "restarting" ELSE "stopped"
  /\ UNCHANGED <<launched, alive, exited, ctxDone>>

\* The backoff is over, or the context is done.
Relaunch ==
  /\ sup = "wait" /\ ~ctxDone /\ sup' = "launch" /\ state' = "starting"
  /\ UNCHANGED <<client, launched, alive, exited, ctxDone>>

Stop ==
  /\ sup = "wait" /\ ctxDone /\ sup' = "done" /\ state' = "stopped"
  /\ UNCHANGED <<client, launched, alive, exited, ctxDone>>

HostNext ==
  \/ Cancel \/ LaunchFails \/ Spawn \/ HandshakeFails \/ Refuse \/ Publish
  \/ ExitSeen \/ Stopping \/ Kill \/ Clear \/ Relaunch \/ Stop
  \/ \E p \in alive : ProcessExits(p)

\* The supervisor runs; a launch that can succeed does in the end.
HostFairness ==
  /\ WF_hostVars(LaunchFails \/ Spawn) /\ WF_hostVars(HandshakeFails \/ Refuse \/ Publish)
  /\ WF_hostVars(ExitSeen) /\ WF_hostVars(Stopping) /\ WF_hostVars(Kill) /\ WF_hostVars(Clear)
  /\ WF_hostVars(Relaunch \/ Stop)

-----------------------------------------------------------------------------
\* One process at a time, none left behind when Wait returns, and none that the
\* Operator is told is stopped or refused.
NoProcessLeft ==
  /\ Cardinality(alive) <= 1
  /\ state \in {"stopped", "refused", "restarting"} => alive = {} /\ client = NoClient
  /\ sup = "done" <=> state \in {"stopped", "refused"}

\* Wait returns after the context is done, whatever the plugin does.
WaitReturns == ctxDone ~> (sup = "done")

\* A plugin that is gone is noticed: its client does not stay in place.
DeadIsReplaced == \A p \in 1 .. MaxLaunches : (client = p /\ p \notin alive) ~> (client # p)

\* The supervisor acts on what happens to it, however its steps and the plugin's mix.
SupervisorActs == WaitReturns /\ DeadIsReplaced
=============================================================================
