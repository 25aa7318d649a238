--------------------------- MODULE GatewaySession ---------------------------
(***************************************************************************)
(* One session of the Upbit WebSocket gateway: GatewayWebSocketSession of  *)
(* websocket_session.py and the relay loop of main.py that drives it.      *)
(*                                                                         *)
(* The tasks are asyncio's: the relay, which handles one control at a      *)
(* time, and a reader for each upstream connection, which reconnects by    *)
(* itself when its connection is lost.  An action is what a task does from *)
(* one await to the next.  The reader of connection c is called c.         *)
(***************************************************************************)
EXTENDS Integers

CONSTANTS
    Connections,    \* upstream connections
    SessionBounds,  \* bounds: connections a behaviour opens, what its client asks for
    Endpoints,      \* streams of the catalog
    VisibilityOf,   \* [Endpoints -> visibility]
    Client,         \* controls the client sends once connected
    Retries,        \* length of _auto_reconnect's delays
    MaxFrames,      \* bound: frames forwarded in a behaviour
    Relay, None

Visibilities == {"public", "private"}

Control == {"connect", "subscribe", "pause", "unsubscribe", "reconnect", "list"}

Tasks == Connections \cup {Relay}

ASSUME SessionConstants ==
    /\ VisibilityOf \in [Endpoints -> Visibilities]
    /\ Client \subseteq Control
    /\ SessionBounds \subseteq [connections : SUBSET Connections, controls : Nat,
                               visibilities : SUBSET Visibilities]
    /\ Retries \in Nat \ {0} /\ MaxFrames \in Nat
    /\ Relay \notin Connections \cup {None} /\ None \notin Connections

VARIABLES
    generation,     \* _generation
    closed,         \* _closed
    paused,         \* _paused
    visibility,     \* _visibility
    subscriptions,  \* _subscriptions: the streams wanted
    upstream,       \* _upstream
    readerTask,     \* _reader_task
    connectionId,   \* _connection_id
    sequence,       \* _sequence
    conn,           \* the upstream connections
    task,           \* where each task is, and its local variables
    down,           \* the downstream socket is gone
    asks,           \* the controls the client may still send, and its visibilities
    frame           \* history: the last frame forwarded

wanted == <<closed, paused, visibility, subscriptions>>
link == <<generation, upstream, readerTask>>
label == <<connectionId, sequence, frame>>
sessionVars == <<wanted, link, label, conn, task, down, asks>>

-----------------------------------------------------------------------------
\* Local variables of a task: its generation, the connection it handles, the
\* visibility it connects with, the subscriptions it sends, what it does once
\* the old upstream is gone, whether it resubscribes, and its failed retries.
At(pc) == [pc |-> pc, gen |-> 0, conn |-> None, visibility |-> None, sends |-> {},
           next |-> "connect", resubscribe |-> FALSE, tries |-> 0]

SessionInit ==
    /\ generation = 0 /\ closed = FALSE /\ paused = FALSE /\ visibility = None
    /\ subscriptions = {} /\ upstream = None /\ readerTask = None
    /\ connectionId = None /\ sequence = 0
    /\ task = [t \in Tasks |-> At(IF t = Relay THEN "receive" ELSE "none")]
    /\ down = FALSE /\ frame = None
    /\ \E b \in SessionBounds :
         /\ asks = [left |-> b.controls, visibilities |-> b.visibilities]
         /\ conn = [c \in Connections |->
                      [state |-> IF c \in b.connections THEN "unused" ELSE "closed",
                       visibility |-> None, subs |-> {}]]

\* Where a task goes when it has nothing left to do.
Rest(t) == IF t = Relay THEN "receive" ELSE "done"

\* Mutant: the relay goes on after close.
OverReceives(t) == Rest(t)

\* Where close leaves its caller: the relay's loop is over.
Over(t) == IF t = Relay THEN "over" ELSE "done"

-----------------------------------------------------------------------------
(* _dispose_upstream, from _replace_upstream or close.                     *)

\* A reader that has not ended.
Alive(r) == task[r].pc \in {"reading", "announce", "backoff", "giveup"}

\* The task's next await once the old upstream is closed.
Opening(me, seen) ==
    IF me.next = "connect"
    THEN [me EXCEPT !.pc = "connecting", !.conn = None, !.visibility = seen]
    ELSE At(me.next)

\* The current upstream is taken out of the session and closed.
Detach(t, me, seen) ==
    /\ upstream' = None
    /\ task' = [task EXCEPT ![t] = IF upstream = None THEN Opening(me, seen)
                                   ELSE [me EXCEPT !.pc = "closing", !.conn = upstream]]

\* A new generation; the reader is cancelled and awaited, unless it is the
\* task itself.
Dispose(t, me, seen) ==
    LET r == readerTask
        mine == [me EXCEPT !.gen = generation + 1] IN
    /\ generation' = generation + 1
    /\ readerTask' = None
    /\ IF r \notin {None, t} /\ Alive(r)
       THEN /\ task' = [task EXCEPT ![r].pc = "cancelled",
                                    ![t] = [mine EXCEPT !.pc = "joining", !.conn = r]]
            /\ UNCHANGED upstream
       ELSE Detach(t, mine, seen)

Replace(t, resubscribe, seen) ==
    Dispose(t, [task[t] EXCEPT !.next = "connect", !.resubscribe = resubscribe], seen)

\* close: only the first call does anything.
Close(t) ==
    IF closed
    THEN /\ task' = [task EXCEPT ![t] = At(Over(t))]
         /\ UNCHANGED <<closed, subscriptions, link>>
    ELSE /\ closed' = TRUE
         /\ Dispose(t, [task[t] EXCEPT !.next = Over(t)], visibility)
         /\ subscriptions' = IF task'[t].pc = Over(t) THEN {} ELSE subscriptions

\* A cancelled reader ends at its await.
EndCancelled(r) ==
    /\ task[r].pc = "cancelled"
    /\ task' = [task EXCEPT ![r] = At("done")]
    /\ UNCHANGED <<wanted, link, label, conn, down, asks>>

Join(t) ==
    /\ task[t].pc = "joining"
    /\ task[task[t].conn].pc = "done"
    /\ Detach(t, task[t], visibility)
    /\ subscriptions' = IF task[t].next # "connect" /\ upstream = None THEN {}
                        ELSE subscriptions
    /\ UNCHANGED <<closed, paused, visibility, generation, readerTask, label, conn, down,
                   asks>>

\* The old upstream is closed; close then clears the subscriptions.
CloseOld(t) ==
    /\ task[t].pc = "closing"
    /\ conn' = [conn EXCEPT ![task[t].conn].state = "closed"]
    /\ task' = [task EXCEPT ![t] = Opening(task[t], visibility)]
    /\ subscriptions' = IF task[t].next = "connect" THEN subscriptions ELSE {}
    /\ UNCHANGED <<closed, paused, visibility, link, label, down, asks>>

-----------------------------------------------------------------------------
(* _replace_upstream, from the connector on.                               *)

\* An exception in a replacement or a send: handle reports it, _auto_reconnect
\* takes the session's generation for its own and tries again.
Failed(t) ==
    IF t = Relay THEN [task[t] EXCEPT !.pc = "notify"]
    ELSE [task[t] EXCEPT !.tries = @ + 1, !.gen = generation,
             !.pc = IF task[t].tries + 1 = Retries THEN "giveup"
                    ELSE IF closed THEN "done" ELSE "announce"]

\* The reader of connection c is created, and the client told.
Spawned(t, c) ==
    [task EXCEPT ![t].pc = "notify", ![c] = [At("reading") EXCEPT !.gen = task[t].gen]]

\* The wanted subscriptions are sent on a new connection.
Resubscribing(t) == task[t].resubscribe /\ subscriptions # {}

\* Mutant: the session keeps the id of its first connection.
SameId(c) ==
    /\ connectionId' = IF connectionId = None THEN c ELSE connectionId
    /\ sequence' = 0

\* A new connection has an id of its own and counts its frames from one.
Relabel(c) ==
    /\ connectionId' = c
    /\ sequence' = 0

\* The connector answers.  The limiter of a new connection is unused, so that
\* the subscription request is written at once and only its end awaited.
OpenUpstream(t) ==
    /\ task[t].pc = "connecting"
    /\ \E c \in Connections :
        /\ conn[c].state = "unused"
        /\ conn' = [conn EXCEPT ![c] =
             [state |-> "open", visibility |-> task[t].visibility,
              subs |-> IF Resubscribing(t) THEN subscriptions ELSE {}]]
        /\ upstream' = c
        /\ Relabel(c)
        /\ IF Resubscribing(t)
           THEN /\ task' = [task EXCEPT ![t].pc = "resubscribing", ![t].conn = c]
                /\ UNCHANGED readerTask
           ELSE /\ task' = Spawned(t, c)
                /\ readerTask' = c
    /\ UNCHANGED <<wanted, generation, frame, down, asks>>

\* No credentials, or the connector raises.
OpenFails(t) ==
    /\ task[t].pc = "connecting"
    /\ task' = [task EXCEPT ![t] = Failed(t)]
    /\ UNCHANGED <<wanted, link, label, conn, down, asks>>

\* The connection takes the subscription request: the reader starts.
Resubscribe(t) ==
    LET c == task[t].conn IN
    /\ task[t].pc = "resubscribing"
    /\ conn[c].state = "open"
    /\ task' = Spawned(t, c)
    /\ readerTask' = c
    /\ UNCHANGED <<wanted, generation, upstream, label, conn, down, asks>>

\* A control's request, which the limiter may have delayed.
Send(t) ==
    LET c == task[t].conn IN
    /\ task[t].pc = "sending"
    /\ conn[c].state = "open"
    /\ conn' = [conn EXCEPT ![c].subs = task[t].sends]
    /\ task' = [task EXCEPT ![t].pc = "notify"]
    /\ UNCHANGED <<wanted, link, label, down, asks>>

\* The connection was lost or closed meanwhile.
SendFails(t) ==
    /\ task[t].pc \in {"resubscribing", "sending"}
    /\ task' = [task EXCEPT ![t] = Failed(t)]
    /\ UNCHANGED <<wanted, link, label, conn, down, asks>>

\* The event at the end of a control or a replacement.
Notify(t) ==
    /\ task[t].pc = "notify"
    /\ \/ /\ down
          /\ Close(t)
       \/ /\ ~down
          /\ task' = [task EXCEPT ![t] = At(Rest(t))]
          /\ UNCHANGED <<closed, subscriptions, link>>
    /\ UNCHANGED <<paused, visibility, label, conn, down, asks>>

\* The reconnecting event: the relay then replaces the upstream, a reader
\* waits first.
Announce(t) ==
    /\ task[t].pc = "announce"
    /\ \/ down /\ Close(t)
       \/ /\ ~down /\ t = Relay
          /\ Replace(t, TRUE, visibility)
          /\ UNCHANGED <<closed, subscriptions>>
       \/ /\ ~down /\ t # Relay
          /\ task' = [task EXCEPT ![t].pc = "backoff"]
          /\ UNCHANGED <<closed, subscriptions, link>>
    /\ UNCHANGED <<paused, visibility, label, conn, down, asks>>

-----------------------------------------------------------------------------
(* The relay and its controls.                                             *)

\* handle, past its checks: a control of this kind, with the relay's next pc.
Handle(kind, me) ==
    /\ task[Relay].pc = "receive"
    /\ ~down /\ ~closed
    /\ asks.left > 0
    /\ kind \in Client
    /\ asks' = [asks EXCEPT !.left = @ - 1]
    /\ task' = [task EXCEPT ![Relay] = me]

\* connect: the client's first control, or a new one on a live session.
ConnectControl(v) ==
    /\ task[Relay].pc = "receive"
    /\ ~down /\ ~closed
    /\ visibility = None \/ ("connect" \in Client /\ asks.left > 0)
    /\ asks' = IF visibility = None THEN asks ELSE [asks EXCEPT !.left = @ - 1]
    /\ visibility' = v
    /\ subscriptions' = {}
    /\ paused' = FALSE
    /\ Replace(Relay, FALSE, v)
    /\ UNCHANGED <<closed, label, conn, down>>

\* Mutant: only the new subscription is sent.
SnapshotOfOne(e) == {e}

\* The whole of the wanted subscriptions is sent again.
Snapshot(e) == subscriptions \cup {e}

Subscribe(e) ==
    /\ upstream # None
    /\ VisibilityOf[e] = visibility
    /\ subscriptions' = subscriptions \cup {e}
    /\ Handle("subscribe", [task[Relay] EXCEPT !.pc = "sending", !.conn = upstream,
                                               !.sends = Snapshot(e)])
    /\ UNCHANGED <<closed, paused, visibility, link, label, conn, down>>

PauseControl(b) ==
    /\ upstream # None
    /\ paused' = b
    /\ Handle("pause", [task[Relay] EXCEPT !.pc = "notify"])
    /\ UNCHANGED <<closed, visibility, subscriptions, link, label, conn, down>>

Unsubscribe(e) ==
    /\ upstream # None
    /\ e \in subscriptions
    /\ subscriptions' = subscriptions \ {e}
    /\ Handle("unsubscribe", [task[Relay] EXCEPT !.pc = "announce"])
    /\ UNCHANGED <<closed, paused, visibility, link, label, conn, down>>

Reconnect ==
    /\ upstream # None
    /\ Handle("reconnect", [task[Relay] EXCEPT !.pc = "announce"])
    /\ UNCHANGED <<wanted, link, label, conn, down>>

\* LIST_SUBSCRIPTIONS changes nothing upstream.
List ==
    /\ upstream # None
    /\ Handle("list", [task[Relay] EXCEPT !.pc = "sending", !.conn = upstream,
                                          !.sends = conn[upstream].subs])
    /\ UNCHANGED <<wanted, link, label, conn, down>>

\* The relay's finally.
HangUp ==
    /\ task[Relay].pc = "receive"
    /\ down
    /\ Close(Relay)
    /\ UNCHANGED <<paused, visibility, label, conn, down, asks>>

-----------------------------------------------------------------------------
(* _read_upstream and _auto_reconnect.                                     *)

\* A frame is forwarded with the session's label, or the client is gone.
Forward(r) ==
    /\ task[r].pc = "reading"
    /\ conn[r].state = "open"
    /\ ~paused
    /\ sequence < MaxFrames
    /\ sequence' = sequence + 1
    /\ \/ /\ ~down
          /\ frame' = [from |-> r, id |-> connectionId, visibility |-> visibility,
                       seq |-> sequence + 1]
          /\ UNCHANGED <<closed, subscriptions, link, task>>
       \/ /\ down
          /\ Close(r)
          /\ UNCHANGED frame
    /\ UNCHANGED <<paused, visibility, connectionId, conn, down, asks>>

\* The reader still serves the session.
StillServes(r) == task[r].gen = generation /\ ~closed

\* The connection ended, by the exchange or by another task.
EndRead(r) ==
    /\ task[r].pc = "reading"
    /\ conn[r].state \in {"lost", "closed"}
    /\ task' = [task EXCEPT ![r] = IF StillServes(r) THEN [@ EXCEPT !.pc = "announce"]
                                   ELSE At("done")]
    /\ UNCHANGED <<wanted, link, label, conn, down, asks>>

\* The delay is over.
Wake(r) ==
    /\ task[r].pc = "backoff"
    /\ \/ StillServes(r) /\ Replace(r, TRUE, visibility)
       \/ ~StillServes(r) /\ task' = [task EXCEPT ![r] = At("done")] /\ UNCHANGED link
    /\ UNCHANGED <<wanted, label, conn, down, asks>>

\* The retries are used up: the session is closed.
GiveUp(r) ==
    /\ task[r].pc = "giveup"
    /\ Close(r)
    /\ UNCHANGED <<paused, visibility, label, conn, down, asks>>

-----------------------------------------------------------------------------
(* The exchange and the client.                                            *)

Lose(c) ==
    /\ conn[c].state = "open"
    /\ conn' = [conn EXCEPT ![c].state = "lost"]
    /\ UNCHANGED <<wanted, link, label, task, down, asks>>

Disconnect ==
    /\ ~down
    /\ down' = TRUE
    /\ UNCHANGED <<wanted, link, label, conn, task, asks>>

-----------------------------------------------------------------------------
\* What a task does by itself.
TaskStep(t) ==
    \/ Join(t) \/ CloseOld(t)
    \/ OpenUpstream(t) \/ OpenFails(t) \/ Resubscribe(t) \/ Send(t) \/ SendFails(t)
    \/ Notify(t) \/ Announce(t)

Read(r) == EndCancelled(r) \/ EndRead(r) \/ Wake(r) \/ GiveUp(r)

Ask ==
    \/ \E v \in asks.visibilities : ConnectControl(v)
    \/ \E e \in Endpoints : Subscribe(e) \/ Unsubscribe(e)
    \/ \E b \in BOOLEAN : PauseControl(b)
    \/ Reconnect \/ List

SessionNext ==
    \/ \E t \in Tasks : TaskStep(t)
    \/ \E r \in Connections : Read(r) \/ Forward(r) \/ Lose(r)
    \/ Ask \/ HangUp \/ Disconnect

SessionSpec == SessionInit /\ [][SessionNext]_sessionVars

\* The event loop runs every task that can go on: awaits of a close, a
\* connection, a send or a delay end.
FairSession ==
    /\ SessionSpec
    /\ \A t \in Tasks : WF_sessionVars(TaskStep(t))
    /\ \A r \in Connections : WF_sessionVars(Read(r))
    /\ WF_sessionVars(HangUp)

-----------------------------------------------------------------------------
(* Properties                                                              *)

\* What the browser tells frames apart by: a frame read from the session's
\* upstream carries that connection's id, and its visibility unless a newer
\* replacement is under way; and no two frames carry the same id and sequence,
\* whichever readers they came from.
FrameLabels ==
    [][frame' # frame =>
         /\ frame'.from = upstream =>
              /\ frame'.id = upstream
              /\ StillServes(upstream) => frame'.visibility = conn[upstream].visibility
         /\ frame # None /\ frame'.id = frame.id => frame'.seq > frame.seq]_sessionVars

\* The exchange replaces a connection's subscriptions by the ones it is sent:
\* no send takes away a stream that is subscribed and still wanted.
NothingDropped ==
    [][\A c \in Connections :
         upstream = c => conn[c].subs \cap subscriptions \subseteq conn'[c].subs]_sessionVars

\* A client that goes away ends the session and the relay's loop, whatever the
\* relay, the reader and a replacement were waiting for.
DisconnectCloses == down ~> closed /\ task[Relay].pc = "over"
=============================================================================
