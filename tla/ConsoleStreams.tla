--------------------------- MODULE ConsoleStreams ---------------------------
(***************************************************************************)
(* The consoles that follow a run of the control plane over an EventSource: *)
(* of apps/web-v2 ProvisionConsole, in the dialog that creates a database   *)
(* ("dialog") and on the database's page ("detail"), and LogStream, in the  *)
(* dialog with a build's log ("build"); of apps/web ProvisionConsole        *)
(* ("webDialog") and LogViewer, with a build's log ("webBuild").            *)
(*                                                                          *)
(* The run emits events 1..MaxEvents and a last one that ends it.  Each is  *)
(* appended to a row and published on a Redis channel, which reaches only   *)
(* the handlers that have subscribed.  A handler reads the row first and    *)
(* subscribes afterwards.  The network, or the server's write timeout when  *)
(* something is written late, may cut a connection; nothing cuts one on     *)
(* which nothing is written, as the handlers send no heartbeat.  When a     *)
(* stream ends the browser connects again by itself, unless it was refused  *)
(* or the component has closed it, which those of apps/web do on any error. *)
(*                                                                          *)
(* Abstracted: what the events say, the frames that only say "connected",   *)
(* the order in which a console shows its lines, and LogStream's limit of   *)
(* 5000 lines.                                                              *)
(***************************************************************************)
EXTENDS Naturals, Sequences, FiniteSets

CONSTANTS
    Feeds,      \* which of the five consoles are under study
    MaxEvents,  \* bound: the events before the last one
    Lossy       \* a statement or a PUBLISH of the run may fail

ASSUME FeedsAssumption == Feeds \subseteq {"dialog", "detail", "build", "webDialog", "webBuild"}
ASSUME BoundAssumption == MaxEvents \in Nat
ASSUME LossyAssumption == Lossy \in BOOLEAN

Last   == MaxEvents + 1
Events == 1..Last

VARIABLES
    feed,       \* the console, chosen once
    run,        \* the run: "running", ended "ok" or with "error", or "lost" with its process
    saved,      \* the row's status says how the run has ended
    prod,       \* the event that the run emits next, and whether half of that is done
    log,        \* the events appended to the row
    conn,       \* the EventSource: "off", "asking", "read", "open", "ending", "dead"
    snap,       \* the row as the handler has read it
    wire,       \* the frames between the handler and the browser
    mounted,    \* the component is mounted
    status,     \* its status
    shown       \* how often it shows each event, up to "more than once"

vars == <<feed, run, saved, prod, log, conn, snap, wire, mounted, status, shown>>

runVars  == <<run, saved, prod, log>>
pageVars == <<mounted, status, shown>>

IsBuild  == feed \in {"build", "webBuild"}
Finished == run \in {"ok", "error"}

\* es.onerror of apps/web closes the EventSource.
GivesUp == feed \in {"webDialog", "webBuild"}

\* What the row's status says: "running" stands for provisioning, cloning and building.
Row == IF saved THEN run ELSE "running"

\* A frame carries an event, and an outcome if it is the terminal one.
Frame(k, outcome) == [ev |-> k, end |-> outcome]
Frames   == [ev : Events, end : {"none", "ok", "error"}]
Statuses == {"connecting", "streaming", "success", "failed", "idle"}

TypeOK ==
    /\ feed \in Feeds
    /\ run \in {"running", "ok", "error", "lost"}
    /\ saved \in BOOLEAN
    /\ prod \in [at : Events \cup {Last + 1}, half : BOOLEAN]
    /\ log \subseteq Events
    /\ conn \in {"off", "asking", "read", "open", "ending", "dead"}
    /\ snap \in [run : {"running", "ok", "error"}, log : SUBSET Events]
    /\ wire \in Seq(Frames)
    /\ mounted \in BOOLEAN /\ status \in Statuses
    /\ shown \in [Events -> 0..2]

Init ==
    /\ feed \in Feeds
    /\ run = "running" /\ saved = FALSE /\ prod = [at |-> 1, half |-> FALSE] /\ log = {}
    /\ conn = "off" /\ snap = [run |-> "running", log |-> {}] /\ wire = <<>>
    /\ mounted = FALSE /\ status = "idle" /\ shown = [k \in Events |-> 0]

(********************************* the run *********************************)

\* The run ends: its status goes to the row, unless the statement fails, before its last
\* event is emitted.  A build, or a run that has failed, goes on with the last event.
Finish ==
    /\ run = "running" /\ ~prod.half
    /\ run' \in {"ok", "error"} /\ saved' \in BOOLEAN /\ (Lossy \/ saved')
    /\ prod' = IF IsBuild \/ run' = "error" THEN [at |-> Last, half |-> FALSE] ELSE prod
    /\ UNCHANGED <<feed, log, conn, snap, wire, pageVars>>

\* The process ends, or the run's context expires: nothing more is written.
RunLost ==
    /\ run = "running"
    /\ run' = "lost"
    /\ UNCHANGED <<feed, saved, prod, log, conn, snap, wire, pageVars>>

CanEmit == IF prod.at = Last THEN Finished ELSE run # "lost" /\ prod.at < Last

\* publishProvision persists first, handleBuildOutput publishes first.
Halfway(first) == prod.half # first
Emitted(first) ==
    prod' = IF first THEN [prod EXCEPT !.half = TRUE] ELSE [at |-> prod.at + 1, half |-> FALSE]

\* The row gets the event, unless the statement fails; "__done__" is not logged.
Persist ==
    /\ CanEmit /\ Halfway(~IsBuild)
    /\ \/ log' = log \cup (IF IsBuild /\ prod.at = Last THEN {} ELSE {prod.at})
       \/ Lossy /\ log' = log
    /\ Emitted(~IsBuild)
    /\ UNCHANGED <<feed, run, saved, conn, snap, wire, pageVars>>

\* Subscribers get the event, unless Redis fails; "__done__" ends the handler.
Publish ==
    /\ CanEmit /\ Halfway(IsBuild)
    /\ \/ (Lossy \/ conn # "open") /\ UNCHANGED <<conn, wire>>
       \/ /\ conn = "open"
          /\ wire' = IF IsBuild /\ prod.at = Last
                     THEN wire
                     ELSE Append(wire, Frame(prod.at, IF prod.at = Last THEN run ELSE "none"))
          /\ conn' = IF IsBuild /\ prod.at = Last THEN "ending" ELSE conn
    /\ Emitted(IsBuild)
    /\ UNCHANGED <<feed, run, saved, log, snap, pageVars>>

(******************************* the handler *******************************)

HandlerReads ==
    /\ conn = "asking"
    /\ conn' = "read"
    /\ snap' = [run |-> Row, log |-> log]
    /\ UNCHANGED <<feed, runVars, wire, pageVars>>

\* The log of the row, line by line.
InOrder(S) ==
    LET n  == Cardinality(S)
        ks == CHOOSE f \in [1..n -> S] : \A i, j \in 1..n : i < j => f[i] < f[j]
    IN  [i \in 1..n |-> Frame(ks[i], "none")]

\* Mutants: the handler says nothing of a finished run; or only that it has finished.
NoProvisionGreeting == <<>>
GoodProvisionGreeting == IF snap.run \in {"ok", "error"} THEN <<Frame(Last, "ok")>> ELSE <<>>

\* StreamProvisionLogs replays nothing, but says how a finished run has ended.
ProvisionGreeting ==
    IF snap.run \in {"ok", "error"} THEN <<Frame(Last, snap.run)>> ELSE <<>>

\* Mutant: a subscriber gets what is published from now on.
NoBuildGreeting == <<>>

\* StreamLogs replays the log.
BuildGreeting == InOrder(snap.log)

HandlerSubscribes ==
    /\ conn = "read"
    /\ wire' = IF IsBuild THEN BuildGreeting ELSE ProvisionGreeting
    /\ conn' = IF snap.run \in {"ok", "error"} THEN "ending" ELSE "open"
    /\ UNCHANGED <<feed, runVars, snap, pageVars>>

(******************************* the browser *******************************)

\* Mutant: an interruption is an outcome.
OnErrorGivesUp == status' = "error"

\* es.onerror: the browser will connect again.
OnError == status' = IF status = "streaming" THEN "connecting" ELSE status

\* The stream has ended: the browser asks for it again, unless onerror has closed it.
Reconnect == IF GivesUp THEN "dead" ELSE "asking"

\* The handler has returned: the browser sees the end of the stream after its frames.
StreamEnds ==
    /\ conn = "ending" /\ wire = <<>>
    /\ conn' = Reconnect
    /\ OnError
    /\ UNCHANGED <<feed, runVars, snap, wire, mounted, shown>>

\* The network, or the write timeout, cuts the connection: what is on the wire is lost.
Cut ==
    /\ conn \in {"read", "open", "ending"}
    /\ conn' = Reconnect /\ wire' = <<>>
    /\ OnError
    /\ UNCHANGED <<feed, runVars, snap, mounted, shown>>

\* An answer other than 200 closes an EventSource for good.
Refused ==
    /\ conn = "asking"
    /\ conn' = "dead"
    /\ OnError
    /\ UNCHANGED <<feed, runVars, snap, wire, mounted, shown>>

\* es.onopen, whenever the first frame arrives.
Opened(s) == IF s = "connecting" THEN "streaming" ELSE s

\* Mutant: what is already there is added again.
AddEventAgain(k) == shown' = [shown EXCEPT ![k] = IF @ = 2 THEN 2 ELSE @ + 1]

\* LogStream adds a line whenever it comes, and so do the consoles of apps/web;
\* ProvisionConsole of apps/web-v2 does not add an event that it already has.
LogStream(k) == [shown EXCEPT ![k] = IF @ = 2 THEN 2 ELSE @ + 1]
AddEvent(k) == shown' = IF IsBuild \/ GivesUp THEN LogStream(k) ELSE [shown EXCEPT ![k] = 1]

\* es.onmessage: a terminal event sets the status and closes the EventSource.
Deliver(k) ==
    /\ wire # <<>> /\ Head(wire).ev = k
    /\ AddEvent(k)
    /\ IF Head(wire).end = "none"
       THEN /\ status' = Opened(status)
            /\ wire' = Tail(wire) /\ conn' = conn
       ELSE /\ status' = IF Head(wire).end = "ok" THEN "success" ELSE "failed"
            /\ wire' = <<>> /\ conn' = "off"
    /\ UNCHANGED <<feed, runVars, snap, mounted>>

\* initialStatus, and the effect that connects.  The page of a database starts with the
\* events of the row and is live while the row says that it is being provisioned.
Mount ==
    /\ ~mounted
    /\ mounted' = TRUE
    /\ shown' = [k \in Events |-> IF feed = "detail" /\ k \in log THEN 1 ELSE 0]
    /\ status' = IF feed = "detail" /\ Last \in log
                 THEN (IF run = "ok" THEN "success" ELSE "failed")
                 ELSE IF feed = "detail" /\ saved THEN "idle" ELSE "connecting"
    /\ conn' = IF status' = "connecting" THEN "asking" ELSE "off"
    /\ UNCHANGED <<feed, runVars, snap, wire>>

\* The page's poll finds the run finished: live is false, the effect's cleanup closes
\* the EventSource, and the status stays what it was.
NoLongerLive ==
    /\ feed = "detail" /\ mounted /\ saved /\ conn # "off"
    /\ conn' = "off" /\ wire' = <<>>
    /\ UNCHANGED <<feed, runVars, snap, pageVars>>

Unmount ==
    /\ mounted
    /\ mounted' = FALSE /\ conn' = "off" /\ wire' = <<>>
    /\ status' = "idle" /\ shown' = [k \in Events |-> 0]
    /\ UNCHANGED <<feed, runVars, snap>>

Next ==
    \/ Finish \/ RunLost \/ Persist \/ Publish
    \/ HandlerReads \/ HandlerSubscribes \/ StreamEnds \/ Cut \/ Refused
    \/ \E k \in Events : Deliver(k)
    \/ Mount \/ NoLongerLive \/ Unmount

\* What the run has begun to emit it emits; a handler runs; a stream that has ended is seen
\* to have ended; and one that is asked for again and again sometimes lives long enough for
\* each of its first frames to arrive.  Nothing says that an idle stream is ever cut.
Fairness ==
    /\ WF_vars(Persist) /\ WF_vars(Publish) /\ WF_vars(StreamEnds)
    /\ SF_vars(HandlerReads) /\ SF_vars(HandlerSubscribes)
    /\ \A k \in Events : SF_vars(Deliver(k))

Spec == Init /\ [][Next]_vars
FairSpec == Spec /\ Fairness

(******************************** properties *******************************)

\* An event that was stamped when it was persisted is in a provision console once,
\* although it can come with the page, live, and after every reconnection; and a console
\* that does not reconnect needs no such care, as what the handler replays and what it
\* passes on do not overlap.  (LogStream is not among them: it shows all again.)
NoEventTwice == feed # "build" => \A k \in Events : shown[k] <= 1

\* The outcome a provision console shows is the outcome of the run, whichever of the
\* three ways it has heard of it.
EndsLikeTheRun ==
    /\ status = "success" => run = "ok"
    /\ status = "failed" => run = "error"

\* A dialog that asks for its stream, for the first time or after any number of cuts, when
\* the row says that the run has ended, learns how it has ended: from the handler's greeting,
\* as no event will tell it any more.
ConsoleEnds ==
    (feed \in {"dialog", "webDialog"} /\ mounted /\ saved /\ conn = "asking")
        ~> (status \in {"success", "failed"} \/ ~mounted \/ conn = "dead")

\* A line that is in the build's log when a console asks for the stream, or when the stream
\* that a reconnecting console was on has ended, is shown in the end, however often the
\* connection was cut and whatever was published while no handler was subscribed.
LogComplete ==
    \A k \in Events :
        (IsBuild /\ mounted /\ k \in log
            /\ (conn = "asking" \/ (feed = "build" /\ conn = "ending")))
            ~> (shown[k] > 0 \/ ~mounted \/ conn = "dead")

\* "If the database is already in a terminal state (running/error) by the time the client
\* connects, emit a synthetic terminal event so the UI doesn't hang waiting for events that
\* already fired": once the row says how the run has ended, the dialog that follows it
\* hears of it, whenever in the handler's work that happened.
NeverHangs ==
    (feed = "dialog" /\ mounted /\ saved)
        ~> (status \in {"success", "failed"} \/ ~mounted \/ conn = "dead")
=============================================================================
