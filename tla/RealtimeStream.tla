-------------------------- MODULE RealtimeStream --------------------------
(***************************************************************************)
(* The realtime collection worker: realtime_stream_worker.py and the       *)
(* methods of postgres_repository.py it stores sessions, frames and        *)
(* connection-quality verdicts with.                                       *)
(*                                                                         *)
(* Time is counted in half minutes, so a tick is the start of a minute or  *)
(* its middle.  A channel is <<market, data type>>; a collection target    *)
(* desires it or not, and every change of mind raises the generation (the  *)
(* data foundation writes both).  A trade is its sequential id: trade i of *)
(* a market happened at tape[m][i].  Only trades carry data; a frame of    *)
(* another type is a receipt with trade 0.  The exchange delivers what a   *)
(* connection subscribed to in order, on connecting the last trade first.  *)
(***************************************************************************)
EXTENDS Integers, Sequences, FiniteSets, FiniteSetsExt, SequencesExt

CONSTANTS
    Markets, Types,
    Bounds          \* the bounds to choose from, one record for each setting

ASSUME StreamAssumption ==
    /\ "trade_event" \in Types
    /\ IsFiniteSet(Markets) /\ IsFiniteSet(Types)
    /\ \A b \in Bounds : b.tick \in Nat

Channels == Markets \X Types
All == "all"            \* market_id IS NULL: every market of the session's scope

VARIABLES
    bound,      \* the setting: bound.tick and .sessions are the most there are,
                \* .types the data types desired at first, .tape is when the trades of a market happen, .facts what the
                \* candle writer writes, .workers who works the queue, .extras
                \* how many crashes, faults, lapses and changes of desire there are,
                \* .faulty where: in the "stream", the "desires", the "queue"
    now,
    tape,       \* per market, when its trades happened (the exchange)
    wire,       \* the channel and trade of every frame under way
    desires,    \* collection_subscription_desires, per channel
    sessions,   \* realtime_connection_sessions, in order of connection
    verdicts,   \* realtime_connection_quality_intervals, in id order
    receipts,   \* source_receipts
    trades,     \* trade_events, in id order
    w,          \* the worker: its place in the loop, the plan and the buffer
    received,   \* history: every frame handed to RealtimeStreamBuffer.apply
    extras

streamVars ==
    <<bound, now, tape, wire, desires, sessions, verdicts, receipts, trades, w, received>>

Floor(t) == t \div 2
Ceil(t) == (t + 1) \div 2
Max2(a, b) == IF a > b THEN a ELSE b
Min2(a, b) == IF a < b THEN a ELSE b

NoPlan == [on |-> {}, gens |-> [c \in Channels |-> 0]]
Idle == [pc |-> "idle", plan |-> NoPlan, conn |-> 0, buffer |-> <<>>, seq |-> 0, failed |-> FALSE]

Spend(who) == who \in bound.faulty /\ extras < bound.extras /\ extras' = extras + 1

StreamInit ==
    /\ bound \in Bounds
    /\ now = 0
    /\ tape = [m \in Markets |-> <<>>]
    /\ wire = <<>>
    /\ desires = [c \in Channels |-> [on |-> c[2] \in bound.types, gen |-> 1, applied |-> 0, conn |-> 0]]
    /\ sessions = <<>>
    /\ verdicts = <<>>
    /\ receipts = {}
    /\ trades = <<>>
    /\ w = Idle
    /\ received = {}

-----------------------------------------------------------------------------
(* Sessions and verdicts.                                                  *)

\* open_realtime_connection_session takes the markets and the types apart:
\* the scope it stores is their product.
Scope(on) == {c[1] : c \in on} \X {c[2] : c \in on}
InScope(s, m, d) == <<m, d>> \in sessions[s].scope
ScopeTypes(s) == SetToSeq({c[2] : c \in sessions[s].scope})

Verdict(s, m, d, from, to, quality, reason, at) ==
    [conn |-> s, market |-> m, type |-> d, from |-> from, to |-> to,
     quality |-> quality, reason |-> reason, at |-> at]

\* ON CONFLICT (connection_id, fingerprint) DO NOTHING
SameFingerprint(a, b) == [a EXCEPT !.at = 0] = [b EXCEPT !.at = 0]
InsertVerdict(vs, v) ==
    IF \E i \in DOMAIN vs : SameFingerprint(vs[i], v) THEN vs ELSE Append(vs, v)
InsertVerdicts(vs, new) == FoldLeft(InsertVerdict, vs, new)

\* The session whose end a reconnection gap of a channel is measured from.
GapSessions(m, d) ==
    {s \in DOMAIN sessions :
        sessions[s].status = "failed" /\ sessions[s].ended < now /\ InScope(s, m, d)}
LastGapSession(m, d) ==
    CHOOSE s \in GapSessions(m, d) :
        \A o \in GapSessions(m, d) : sessions[o].ended <= sessions[s].ended

GapVerdicts(on) ==
    LET from(c) == Floor(sessions[LastGapSession(c[1], c[2])].ended)
        gaps == {c \in Scope(on) : GapSessions(c[1], c[2]) # {} /\ from(c) < Ceil(now)}
        verdict(c) == Verdict(LastGapSession(c[1], c[2]), c[1], c[2], from(c), Ceil(now),
                              "missing", "reconnection_gap", now)
    IN [i \in DOMAIN SetToSeq(gaps) |-> verdict(SetToSeq(gaps)[i])]

Ends(vs, s, d, qualities) ==
    {vs[i].to : i \in {j \in DOMAIN vs :
        vs[j].conn = s /\ vs[j].type = d /\ vs[j].quality \in qualities}}

\* The minutes complete once a frame was received at a tick.
\* Mutant: the minute the frame arrived in counts as complete.
CompletedWithLast(t) == Floor(t) + 1
CompletedThrough(t) == Floor(t)

\* _record_realtime_session_progress, before the frames of the flush are stored
ProgressVerdicts(vs, s, last) ==
    LET first == Ceil(sessions[s].connected)
        start(d) == Max(Ends(vs, s, d, {"available"}) \cup {first})
        minutes(d) ==
            [k \in 1..Max2(0, CompletedThrough(last) - start(d)) |->
                Verdict(s, All, d, start(d) + k - 1, start(d) + k,
                        "available", "continuous_connection", last)]
    IN FlattenSeq([i \in DOMAIN ScopeTypes(s) |-> minutes(ScopeTypes(s)[i])])

\* close_realtime_connection_session: what the session leaves of a data type
CloseType(s, failed, vs, d) ==
    LET c == sessions[s].connected
        unverified(from, to) ==
            Verdict(s, All, d, from, to, "unverified", IF failed THEN "failed" ELSE "partial", now)
        one == IF c % 2 = 1 /\ c < now
               THEN InsertVerdict(vs, unverified(Floor(c), Ceil(Min2(2 * Ceil(c), now))))
               ELSE vs
        ends == Ends(one, s, d, {"available", "unverified", "missing"})
        latest == IF ends = {} THEN Ceil(c) ELSE Max(ends)
        missing == Max2(Ceil(c), latest)
        two == IF failed /\ missing < Floor(now)
               THEN InsertVerdict(one,
                       Verdict(s, All, d, missing, Floor(now), "missing", "failed", now))
               ELSE one
        partial == Max({c, 2 * Floor(now), 2 * latest})
    IN IF partial < now THEN InsertVerdict(two, unverified(Floor(partial), Ceil(now))) ELSE two

\* One data type after the other
CloseVerdicts(vs, s, failed) ==
    FoldLeft(LAMBDA acc, d : CloseType(s, failed, acc, d), vs, ScopeTypes(s))

-----------------------------------------------------------------------------
(* record_realtime_source_frames: one transaction for a buffer.            *)

ReceiptOf(s, f) == [conn |-> s, seq |-> f.seq, channel |-> f.channel, trade |-> f.trade, at |-> f.at]

\* ON CONFLICT (connection_id, frame_sequence) skips the frame altogether, and
\* ON CONFLICT (instrument_id, source, sequential_id) the trade it carries.
InsertFrame(s, acc, f) ==
    LET known == \E i \in DOMAIN acc : acc[i].market = f.channel[1] /\ acc[i].trade = f.trade
    IN IF f.trade = 0 \/ known \/ ReceiptOf(s, f) \in receipts
       THEN acc
       ELSE Append(acc, [market |-> f.channel[1], trade |-> f.trade,
                         bucket |-> Floor(tape[f.channel[1]][f.trade]), at |-> f.at])

RecordFrames ==
    LET s == w.conn
        frames == w.buffer
    IN IF frames = <<>>
       THEN UNCHANGED <<verdicts, receipts, trades>>
       ELSE /\ verdicts' = InsertVerdicts(verdicts, ProgressVerdicts(verdicts, s, Last(frames).at))
            /\ receipts' = receipts \cup {ReceiptOf(s, frames[i]) : i \in DOMAIN frames}
            /\ trades' = FoldLeft(LAMBDA acc, f : InsertFrame(s, acc, f), trades, frames)

-----------------------------------------------------------------------------
(* The worker.                                                             *)

\* load_subscription_plan; an empty plan opens no connection
LoadPlan ==
    LET on == {c \in Channels : desires[c].on}
        plan == [on |-> on, gens |-> [c \in Channels |-> desires[c].gen]]
    IN /\ w.pc = "idle" /\ Len(sessions) < bound.sessions
       /\ w' = [Idle EXCEPT !.pc = IF on = {} THEN "off" ELSE "open", !.plan = plan]
       /\ UNCHANGED <<bound, now, tape, wire, desires, sessions, verdicts, receipts, trades, received, extras>>

\* mark_collection_subscription_desires_applied: only a desire that is still
\* of the generation the plan was read at.
\* Mutant: the generation is not compared, the current one is stored.
MarkWithoutCheck(plan, s) ==
    [c \in Channels |-> [desires[c] EXCEPT !.applied = desires[c].gen, !.conn = s]]
MarkApplied(plan, s) ==
    [c \in Channels |->
        IF plan.gens[c] = desires[c].gen
        THEN [desires[c] EXCEPT !.applied = desires[c].gen, !.conn = s]
        ELSE desires[c]]

ApplyEmptyPlan ==
    /\ w.pc = "off"
    /\ desires' = MarkApplied(w.plan, 0)
    /\ w' = Idle
    /\ UNCHANGED <<bound, now, tape, wire, sessions, verdicts, receipts, trades, received, extras>>

\* The session begins, by the clock, before the socket is connected.
OpenSession ==
    /\ w.pc = "open"
    /\ sessions' = Append(sessions,
           [on |-> w.plan.on, scope |-> Scope(w.plan.on), connected |-> now,
            status |-> "active", ended |-> 0])
    /\ verdicts' = InsertVerdicts(verdicts, GapVerdicts(w.plan.on))
    /\ w' = [w EXCEPT !.pc = "connect", !.conn = Len(sessions) + 1]
    /\ UNCHANGED <<bound, now, tape, wire, desires, receipts, trades, received, extras>>

Subscribed == IF w.pc = "stream" THEN w.plan.on ELSE {}

\* The handshake, the subscription and on_connected; the exchange answers
\* with the last trade of every market asked for.
Connect ==
    LET asked == {m \in Markets : <<m, "trade_event">> \in w.plan.on /\ tape[m] # <<>>}
    IN /\ w.pc = "connect"
       /\ desires' = MarkApplied(w.plan, w.conn)
       /\ wire' = SetToSeq({[channel |-> <<m, "trade_event">>, trade |-> Len(tape[m])] : m \in asked})
       /\ w' = [w EXCEPT !.pc = "stream"]
       /\ UNCHANGED <<bound, now, tape, sessions, verdicts, receipts, trades, received, extras>>

\* RealtimeStreamBuffer.apply; the interval since the last flush may be over
Buffer(channel, trade) ==
    LET f == [seq |-> w.seq + 1, channel |-> channel, trade |-> trade, at |-> now]
    IN /\ \E pc \in {"stream", "flush"} :
              w' = [w EXCEPT !.pc = pc, !.seq = f.seq, !.buffer = Append(w.buffer, f)]
       /\ received' = received \cup {ReceiptOf(w.conn, f)}
       /\ UNCHANGED <<bound, now, tape, desires, sessions, verdicts, receipts, trades>>

ReceiveTrade ==
    /\ w.pc = "stream" /\ wire # <<>>
    /\ Buffer(Head(wire).channel, Head(wire).trade)
    /\ wire' = Tail(wire)
    /\ UNCHANGED extras

ReceiveOther(c) ==
    /\ w.pc = "stream" /\ wire = <<>> /\ c \in w.plan.on /\ c[2] # "trade_event"
    /\ Spend("stream")
    /\ Buffer(c, 0)
    /\ UNCHANGED wire

Flush ==
    /\ w.pc = "flush"
    /\ RecordFrames
    /\ w' = [w EXCEPT !.pc = "stream", !.buffer = <<>>]
    /\ UNCHANGED <<bound, now, tape, wire, desires, sessions, received, extras>>

\* A flush that raises: rolled back, or committed with the answer lost.  The
\* buffer keeps its frames for the flush of the finally block.
FlushFails ==
    /\ w.pc = "flush"
    /\ Spend("stream")
    /\ RecordFrames \/ UNCHANGED <<verdicts, receipts, trades>>
    /\ wire' = <<>>
    /\ w' = [w EXCEPT !.pc = "finish", !.failed = TRUE]
    /\ UNCHANGED <<bound, now, tape, desires, sessions, received>>

\* The lifetime of the subscription is over.
StreamEnds ==
    /\ w.pc = "stream"
    /\ wire' = <<>>
    /\ w' = [w EXCEPT !.pc = "finish"]
    /\ UNCHANGED <<bound, now, tape, desires, sessions, verdicts, receipts, trades, received, extras>>

\* The connection cannot be made, or breaks.
StreamFails ==
    /\ w.pc \in {"connect", "stream"}
    /\ Spend("stream")
    /\ wire' = <<>>
    /\ w' = [w EXCEPT !.pc = "finish", !.failed = TRUE]
    /\ UNCHANGED <<bound, now, tape, desires, sessions, verdicts, receipts, trades, received>>

\* The last flush, then the purge of expired order books (not modelled)
FinalFlush ==
    /\ w.pc = "finish"
    /\ RecordFrames
    /\ w' = [w EXCEPT !.pc = "close", !.buffer = <<>>]
    /\ UNCHANGED <<bound, now, tape, wire, desires, sessions, received, extras>>

FinalFlushFails ==
    /\ w.pc = "finish"
    /\ Spend("stream")
    /\ RecordFrames \/ UNCHANGED <<verdicts, receipts, trades>>
    /\ w' = [w EXCEPT !.pc = "close", !.failed = TRUE, !.buffer = <<>>]
    /\ UNCHANGED <<bound, now, tape, wire, desires, sessions, received>>

\* A failure is raised again after it: the process ends and is restarted.
CloseSession ==
    /\ w.pc = "close"
    /\ verdicts' = CloseVerdicts(verdicts, w.conn, w.failed)
    /\ sessions' = [sessions EXCEPT ![w.conn].ended = now,
                       ![w.conn].status = IF w.failed THEN "failed" ELSE "closed"]
    /\ w' = Idle
    /\ UNCHANGED <<bound, now, tape, wire, desires, receipts, trades, received, extras>>

\* The process is killed, or the closing transaction fails: the session stays
\* active.
Crash ==
    /\ w.pc # "idle"
    /\ Spend("stream")
    /\ wire' = <<>>
    /\ w' = Idle
    /\ UNCHANGED <<bound, now, tape, desires, sessions, verdicts, receipts, trades, received>>

-----------------------------------------------------------------------------
(* The surroundings.                                                       *)

\* The exchange: a trade happens, and is sent to whoever subscribed.
Happen(m) ==
    /\ Len(tape[m]) < Len(bound.tape) /\ bound.tape[Len(tape[m]) + 1] = now
    /\ tape' = [tape EXCEPT ![m] = Append(@, now)]
    /\ wire' = IF <<m, "trade_event">> \in Subscribed
               THEN Append(wire, [channel |-> <<m, "trade_event">>, trade |-> Len(tape[m]) + 1])
               ELSE wire
    /\ UNCHANGED <<bound, now, desires, sessions, verdicts, receipts, trades, w, received, extras>>

\* The data foundation changes its mind about a target.
ChangeDesire(c) ==
    /\ c[2] \in bound.types /\ Spend("desires")
    /\ desires' = [desires EXCEPT ![c].on = ~@, ![c].gen = @ + 1]
    /\ UNCHANGED <<bound, now, tape, wire, sessions, verdicts, receipts, trades, w, received>>

Tick ==
    /\ now < bound.tick
    /\ \A m \in Markets : \A i \in DOMAIN bound.tape : bound.tape[i] <= now => i <= Len(tape[m])
    /\ now' = now + 1
    /\ UNCHANGED <<bound, tape, wire, desires, sessions, verdicts, receipts, trades, w, received, extras>>

StreamNext ==
    \/ LoadPlan \/ ApplyEmptyPlan \/ OpenSession \/ Connect
    \/ ReceiveTrade \/ Flush \/ FlushFails \/ StreamEnds \/ StreamFails
    \/ FinalFlush \/ FinalFlushFails \/ CloseSession \/ Crash \/ Tick
    \/ \E m \in Markets : Happen(m)
    \/ \E c \in Channels : ReceiveOther(c) \/ ChangeDesire(c)

-----------------------------------------------------------------------------
(* Properties.                                                             *)

\* Does the latest verdict on a minute of a channel call it available?  The
\* order is the one readers use: detected_at, then id.
Covers(i, m, d, k) ==
    LET v == verdicts[i]
    IN /\ v.type = d /\ v.from <= k /\ k < v.to
       /\ v.market = m \/ (v.market = All /\ InScope(v.conn, m, d))

\* A minute a session calls available holds every frame the session received
\* in it, whatever crashes, failed flushes and retries of a flush went on:
\* the verdict is written with the frames, never ahead of them.
AvailableKeepsItsFrames ==
    \A i \in DOMAIN verdicts : \A f \in received :
        /\ verdicts[i].quality = "available"
        /\ f.conn = verdicts[i].conn /\ f.channel[2] = verdicts[i].type
        /\ Floor(f.at) = verdicts[i].from
        => f \in receipts

\* A desire that is applied at its current generation names a connection whose
\* subscription has the channel exactly when it is desired, however often the
\* desire changed between reading the plan and connecting.
AppliedIsSubscribed ==
    \A c \in Channels :
        desires[c].applied = desires[c].gen =>
            desires[c].on = (desires[c].conn # 0 /\ c \in sessions[desires[c].conn].on)

\* What the record of the microstructure work calls "immutable evidence of
\* fully connected intervals": a minute that a session held throughout, after
\* the minute an earlier one failed in, is not reported as a reconnection gap.
GapsAreGaps ==
    \A i \in DOMAIN verdicts : \A m \in Markets : \A k \in 0..Floor(bound.tick) :
        ~ /\ verdicts[i].reason = "reconnection_gap" /\ verdicts[i].from < k /\ Covers(i, m, verdicts[i].type, k)
          /\ \E j \in DOMAIN verdicts :
                verdicts[j].quality = "available" /\ Covers(j, m, verdicts[i].type, k)
=============================================================================
