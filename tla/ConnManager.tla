----------------------------- MODULE ConnManager -----------------------------
(***************************************************************************)
(* The control plane's registry of connected agents                        *)
(* (internal/agent/connmanager.go) and the life of the Connect RPC that    *)
(* maintains it (internal/agent/server.go).                                *)
(*                                                                         *)
(* Every Connect call runs in its own goroutine and is identified by its   *)
(* stream.  It learns the agent's id from the first message it receives,   *)
(* and each registry call it then makes (GetState, Register, SetStream)    *)
(* takes the registry's mutex separately, so calls of two Connect          *)
(* goroutines for the same agent (an old stream whose loss has not been    *)
(* noticed yet, and the agent's new one) interleave at these points.       *)
(*                                                                         *)
(* Abstracted: LastSeen, Resources and Status (always "online" once an     *)
(* entry exists: no code writes another value), so a heartbeat on a bound  *)
(* stream is a stuttering step: ConnManager.Heartbeat does nothing for an  *)
(* agent that has no entry, and refreshes LastSeen for one that has.       *)
(***************************************************************************)
EXTENDS Naturals, FiniteSets

CONSTANTS
    Agents,     \* agent ids (the server UUIDs the installer passes as --id)
    Streams,    \* Connect RPCs
    NoStream,   \* ConnState.stream == nil
    Absent,     \* the agent has no entry in ConnManager.agents
    NoAgent     \* the empty id: the stream has not been opened by anyone

ASSUME ConstantsDistinct ==
    /\ NoStream \notin Streams
    /\ Absent \notin Streams \cup {NoStream}
    /\ NoAgent \notin Agents

VARIABLES
    entry,      \* ConnManager.agents: Absent, or the stream field of ConnState
    issued,     \* ids handed out by the Register RPC
    owner,      \* the agent at the other end of a stream
    net,        \* the transport: "unused", "open" or "broken"
    bound,      \* Connect's local agentID # ""
    pc,         \* where the Connect goroutine of a stream is
    linked      \* servers whose agent_id column has been set

vars == <<entry, issued, owner, net, bound, pc, linked>>

PcValues == {"none", "recv", "register", "setstream", "ended"}

(* Type correctness: the registry maps agents to nothing, a nil stream or a
   stream, and the goroutines are at one of the points modelled. *)
TypeOK ==
    /\ entry \in [Agents -> Streams \cup {NoStream, Absent}]
    /\ issued \in SUBSET Agents
    /\ owner \in [Streams -> Agents \cup {NoAgent}]
    /\ net \in [Streams -> {"unused", "open", "broken"}]
    /\ bound \in [Streams -> BOOLEAN]
    /\ pc \in [Streams -> PcValues]
    /\ linked \in SUBSET Agents

Init ==
    /\ entry = [a \in Agents |-> Absent]
    /\ issued = {}
    /\ owner = [s \in Streams |-> NoAgent]
    /\ net = [s \in Streams |-> "unused"]
    /\ bound = [s \in Streams |-> FALSE]
    /\ pc = [s \in Streams |-> "none"]
    /\ linked = {}

-----------------------------------------------------------------------------
(* ConnManager's own operations, as functions of the registry. *)

Register(m, a) == [m EXCEPT ![a] = NoStream]

\* Bug: only entries that never got a stream are removed.
DisconnectIdleOnly(m, a) == IF m[a] = NoStream THEN [m EXCEPT ![a] = Absent] ELSE m

Disconnect(m, a) == [m EXCEPT ![a] = Absent]

SetStream(m, a, s) == IF m[a] = Absent THEN m ELSE [m EXCEPT ![a] = s]

(* SendToAgent fails without an entry or a stream; on a broken stream the
   message is refused or lost, so only an open one delivers. *)
SendToAgent(m, a) == m[a] \in Streams /\ net[m[a]] = "open"

-----------------------------------------------------------------------------
(* The agent: ConnectWithRetry opens a new stream only after receiveLoop has
   returned with an error on the previous one. *)
ConnectWithRetry(a, s) ==
    /\ net[s] = "unused"
    /\ \A t \in Streams : owner[t] = a => net[t] = "broken"
    /\ owner' = [owner EXCEPT ![s] = a]
    /\ net' = [net EXCEPT ![s] = "open"]
    /\ pc' = [pc EXCEPT ![s] = "recv"]
    /\ UNCHANGED <<entry, issued, bound, linked>>

(* The transport fails, or the agent restarts: the agent sees it at once, the
   control plane only at a later Recv. *)
StreamBreaks(s) ==
    /\ net[s] = "open"
    /\ net' = [net EXCEPT ![s] = "broken"]
    /\ UNCHANGED <<entry, issued, owner, bound, pc, linked>>

(* The Register RPC issues a fresh UUID and creates an entry for it. *)
RegisterRPC(a) ==
    /\ a \notin issued
    /\ \A s \in Streams : owner[s] # a
    /\ issued' = issued \cup {a}
    /\ entry' = Register(entry, a)
    /\ UNCHANGED <<owner, net, bound, pc, linked>>

\* Bug: the agent is expected to have called the Register RPC.
FirstMessageNoRegister(s) ==
    /\ pc[s] = "recv" /\ ~bound[s]
    /\ bound' = [bound EXCEPT ![s] = TRUE]
    /\ pc' = [pc EXCEPT ![s] = "setstream"]
    /\ UNCHANGED <<entry, issued, owner, net, linked>>

(* Connect receives the first message of a stream (the agent sends a
   ResourceReport as soon as it is connected; a Heartbeat takes the same
   path): agentID is set and GetState tells whether to Register.  A message
   already received is processed even when the transport has failed since. *)
FirstMessage(s) ==
    /\ pc[s] = "recv" /\ ~bound[s]
    /\ bound' = [bound EXCEPT ![s] = TRUE]
    /\ pc' = [pc EXCEPT ![s] = IF entry[owner[s]] = Absent THEN "register"
                               ELSE "setstream"]
    /\ UNCHANGED <<entry, issued, owner, net, linked>>

\* Bug: Register is called before agentID is set, so the entry is the empty id's.
ConnectRegisterUnnamed(s) ==
    /\ pc[s] = "register"
    /\ entry' = [a \in Agents \cup {NoAgent} |-> IF a = NoAgent THEN NoStream ELSE entry[a]]
    /\ pc' = [pc EXCEPT ![s] = "setstream"]
    /\ UNCHANGED <<issued, owner, net, bound, linked>>

ConnectRegister(s) ==
    /\ pc[s] = "register"
    /\ entry' = Register(entry, owner[s])
    /\ pc' = [pc EXCEPT ![s] = "setstream"]
    /\ UNCHANGED <<issued, owner, net, bound, linked>>

(* SetStream, linkAgentToServer and the Heartbeat that follows. *)
ConnectSetStream(s) ==
    /\ pc[s] = "setstream"
    /\ entry' = SetStream(entry, owner[s], s)
    /\ linked' = linked \cup {owner[s]}
    /\ pc' = [pc EXCEPT ![s] = "recv"]
    /\ UNCHANGED <<issued, owner, net, bound>>

\* Bug: the deferred Disconnect is missing.
ConnectReturnsNoDisconnect(s) ==
    /\ pc[s] = "recv" /\ net[s] = "broken"
    /\ pc' = [pc EXCEPT ![s] = "ended"]
    /\ UNCHANGED <<entry, issued, owner, net, bound, linked>>

(* Recv returns an error: Connect returns, and its deferred function removes
   the entry of the agent it was bound to, whichever stream the entry holds. *)
ConnectReturns(s) ==
    /\ pc[s] = "recv" /\ net[s] = "broken"
    /\ entry' = IF bound[s] THEN Disconnect(entry, owner[s]) ELSE entry
    /\ pc' = [pc EXCEPT ![s] = "ended"]
    /\ UNCHANGED <<issued, owner, net, bound, linked>>

Next ==
    \/ \E a \in Agents, s \in Streams : ConnectWithRetry(a, s)
    \/ \E a \in Agents : RegisterRPC(a)
    \/ \E s \in Streams :
          \/ StreamBreaks(s)
          \/ FirstMessage(s)
          \/ ConnectRegister(s)
          \/ ConnectSetStream(s)
          \/ ConnectReturns(s)

(* A goroutine that can run is scheduled; agents, the network and callers of
   the Register RPC owe nothing. *)
Fairness ==
    \A s \in Streams :
        /\ WF_vars(FirstMessage(s))
        /\ WF_vars(ConnectRegister(s))
        /\ WF_vars(ConnectSetStream(s))
        /\ WF_vars(ConnectReturns(s))

Spec == Init /\ [][Next]_vars

FairSpec == Spec /\ Fairness

-----------------------------------------------------------------------------
Serving(s) == pc[s] \in {"recv", "register", "setstream"}

(* An entry never outlives the Connect calls of its agent: whatever the
   interleaving of an old and a new stream, once every Connect bound to an
   agent has returned, a dispatch to that agent fails at once instead of being
   queued on a stream nobody reads.  Ids issued by the Register RPC have an
   entry before they have a stream. *)
NoGhostEntry ==
    \A a \in Agents :
        entry[a] # Absent =>
            \/ a \in issued
            \/ \E s \in Streams : owner[s] = a /\ bound[s] /\ Serving(s)

(* The registry never hands SendToAgent a stream whose Connect has returned
   (gRPC forbids using it), nor the stream of another agent. *)
NoDanglingStream ==
    \A a \in Agents :
        entry[a] \in Streams => owner[entry[a]] = a /\ Serving(entry[a])

(* An agent that connects when no Connect of an earlier stream of its own is
   left becomes reachable, unless its transport fails again: the ordinary
   reconnection works. *)
CleanConnectReachable ==
    \A a \in Agents, s \in Streams :
        (/\ owner[s] = a /\ net[s] = "open" /\ ~bound[s]
         /\ \A t \in Streams \ {s} : owner[t] = a => pc[t] = "ended")
        ~> (SendToAgent(entry, a) \/ net[s] = "broken")
=============================================================================
