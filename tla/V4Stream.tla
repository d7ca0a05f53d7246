-------------------------------- MODULE V4Stream --------------------------------
(***************************************************************************)
(* The event streams of the V4 sessions (dexsession/v4session.go): a       *)
(* goroutine polls D, turns what D reports into events and sends them on a *)
(* bounded channel; a caller ranges over the channel, may stop, may cancel *)
(* and may close the session.  which is "swap" (ReadStream of the swap     *)
(* session), "route" (of the route session) or "quote" (StreamQuotes).     *)
(***************************************************************************)
EXTENDS Integers, Sequences

CONSTANTS
    Kinds,      \* the streams to run, a subset of {"swap", "route", "quote"}
    Cap,        \* capacity of the channel (4 and 8 in the code)
    Hops        \* hops of the route

ASSUME StreamAssumption ==
    Kinds \subseteq {"swap", "route", "quote"} /\ Cap \in Nat \ {0} /\ Hops \in Nat \ {0}

VARIABLES
    which, venue,           \* the stream, and the phase of the action on D
    truthful,               \* fixed per behaviour: the venue reports what D did
    spc, todo, after,       \* the goroutine: where it is, the events it is about
                            \* to send and where it goes then
    imported, lastHop,      \* its locals emittedImported and lastHop
    ch, log,                \* the channel; history: what was sent
    sctx, scap, ranging     \* not cancelled, not closed, the caller still ranges

stream == <<spc, todo, after, imported, lastHop>>
caller == <<sctx, scap, ranging>>
streamVars == <<which, venue, truthful, stream, ch, log, caller>>

\* An event: its type and, for a route, its hop.
Event(t, h) == [type |-> t, hop |-> h]
Terminal == {"D_EXPORT_READY", "REFUND_READY", "ERROR"}
\* The phases of D: matching is hop 0 of a route of one hop.
Phase(n, h) == [name |-> n, hop |-> h]
Decided == {"committed", "refunded", "rejected"}
Events == [type : {"D_IMPORTED", "MATCHED", "HOP_STARTED", "HOP_FILLED", "QUOTE"} \cup Terminal,
           hop : 0 .. Hops - 1]

\* Every variable has its type.
StreamTypeOK ==
    /\ which \in Kinds /\ truthful \in BOOLEAN
    /\ venue \in [name : {"pending", "matching"} \cup Decided, hop : 0 .. Hops - 1]
    /\ spc \in {"idle", "head", "emit", "sleep", "closed"}
    /\ after \in {"sleep", "closed"} /\ todo \in Seq(Events) /\ Len(todo) <= 2
    /\ imported \in BOOLEAN /\ lastHop \in -1 .. Hops - 1
    /\ ch \in Seq(Events) /\ Len(ch) <= Cap /\ log \in Seq(Events)
    /\ caller \in BOOLEAN \X BOOLEAN \X BOOLEAN

StreamInit ==
    /\ which \in Kinds /\ truthful \in BOOLEAN /\ venue = Phase("pending", 0)
    /\ spc = "idle" /\ todo = <<>> /\ after = "sleep"
    /\ imported = FALSE /\ lastHop = -1
    /\ ch = <<>> /\ log = <<>> /\ sctx = TRUE /\ scap = TRUE /\ ranging = TRUE

-------------------------------------------------------------------------------
\* ReadStream and StreamQuotes: a revoked capability is one error event on a
\* closed channel; otherwise the goroutine starts.
Refused == ch' = <<Event("ERROR", 0)>> /\ log' = ch' /\ spc' = "closed"
Start == spc' = "head" /\ UNCHANGED <<ch, log>>
ReadStream ==
    /\ which = "swap" /\ spc = "idle" /\ IF scap THEN Start ELSE Refused
    /\ UNCHANGED <<which, truthful, venue, todo, after, imported, lastHop, caller>>
RouteReadStream ==
    /\ which = "route" /\ spc = "idle" /\ IF scap THEN Start ELSE Refused
    /\ UNCHANGED <<which, truthful, venue, todo, after, imported, lastHop, caller>>
StreamQuotes ==
    /\ which = "quote" /\ spc = "idle" /\ IF scap THEN Start ELSE Refused
    /\ UNCHANGED <<which, truthful, venue, todo, after, imported, lastHop, caller>>

\* The goroutine sends evs one by one and then goes to next.
Emitting(evs, next) == spc' = "emit" /\ todo' = evs /\ after' = next
EndsWith(ev) == Emitting(<<ev>>, "closed") /\ UNCHANGED <<imported, lastHop>>
Waits == spc' = "sleep" /\ UNCHANGED <<todo, after, imported, lastHop>>

\* What streamEvents makes of a polled phase.
swapPhase(p) ==
    CASE p.name = "matching" ->
            /\ Emitting(IF imported THEN <<Event("MATCHED", 0)>>
                        ELSE <<Event("D_IMPORTED", 0), Event("MATCHED", 0)>>, "sleep")
            /\ imported' = TRUE /\ UNCHANGED lastHop
      [] p.name = "committed" -> EndsWith(Event("D_EXPORT_READY", 0))
      [] p.name = "rejected" -> EndsWith(Event("ERROR", 0))
      [] OTHER -> Waits

\* MUTANT of routePhase: lastHop starts counting at the first hop.
SkipFirst(p) ==
    CASE p.name = "matching" ->
            /\ Emitting(IF p.hop > lastHop + 1
                          THEN <<Event("HOP_STARTED", p.hop), Event("HOP_FILLED", p.hop)>>
                          ELSE <<Event("HOP_FILLED", p.hop)>>, "sleep")
            /\ lastHop' = p.hop /\ UNCHANGED imported
      [] p.name = "committed" -> EndsWith(Event("D_EXPORT_READY", 0))
      [] p.name = "refunded" -> EndsWith(Event("REFUND_READY", 0))
      [] p.name = "rejected" -> EndsWith(Event("ERROR", 0))
      [] OTHER -> Waits

\* What streamRoute makes of a polled phase.
routePhase(p) ==
    CASE p.name = "matching" ->
            /\ Emitting(IF p.hop > lastHop
                          THEN <<Event("HOP_STARTED", p.hop), Event("HOP_FILLED", p.hop)>>
                          ELSE <<Event("HOP_FILLED", p.hop)>>, "sleep")
            /\ lastHop' = IF p.hop > lastHop THEN p.hop ELSE lastHop
            /\ UNCHANGED imported
      [] p.name = "committed" -> EndsWith(Event("D_EXPORT_READY", 0))
      [] p.name = "refunded" -> EndsWith(Event("REFUND_READY", 0))
      [] p.name = "rejected" -> EndsWith(Event("ERROR", 0))
      [] OTHER -> Waits

\* The head of the loops: a cancelled context ends the stream; a failed poll is
\* an error event, and the last; a server without a status answers "unknown",
\* one whose view is old an earlier hop, and one that lies anything.  The route's
\* Poll asks the capability.
Polled ==
    IF ~truthful THEN {Phase(n, h) : n \in {"matching"} \cup Decided, h \in 0 .. Hops - 1}
    ELSE IF which = "route" /\ venue.name = "matching"
      THEN {Phase("matching", h) : h \in 0 .. venue.hop} ELSE {venue}
streamEvents ==
    /\ which = "swap" /\ spc = "head"
    /\ \/ ~sctx /\ spc' = "closed" /\ UNCHANGED <<todo, after, imported, lastHop>>
       \/ sctx /\ EndsWith(Event("ERROR", 0))
       \/ sctx /\ \E p \in Polled \cup {Phase("pending", 0)} : swapPhase(p)
    /\ UNCHANGED <<which, truthful, venue, ch, log, caller>>
streamRoute ==
    /\ which = "route" /\ spc = "head"
    /\ \/ ~sctx /\ spc' = "closed" /\ UNCHANGED <<todo, after, imported, lastHop>>
       \/ sctx /\ EndsWith(Event("ERROR", 0))
       \/ sctx /\ scap /\ \E p \in Polled \cup {Phase("pending", 0)} : routePhase(p)
    /\ UNCHANGED <<which, truthful, venue, ch, log, caller>>
quoteLoop ==
    /\ which = "quote" /\ spc = "head"
    /\ \/ EndsWith(Event("ERROR", 0))
       \/ /\ sctx /\ Emitting(<<Event("QUOTE", 0)>>, "sleep")
          /\ UNCHANGED <<imported, lastHop>>
    /\ UNCHANGED <<which, truthful, venue, ch, log, caller>>

Was(e) == \E j \in 1 .. Len(log) : log[j] = e

\* The events that every poll may repeat are logged the first time only.
Logged(e) ==
    IF e.type \in {"MATCHED", "HOP_FILLED", "QUOTE"} /\ Was(e)
      THEN log ELSE Append(log, e)

\* MUTANT of emit: a plain send, deaf to the context.
PlainSend ==
    /\ spc = "emit" /\ Len(ch) < Cap
    /\ ch' = Append(ch, Head(todo)) /\ todo' = Tail(todo)
    /\ spc' = IF Len(todo) = 1 THEN after ELSE "emit"
    /\ log' = Logged(Head(todo))
    /\ UNCHANGED <<which, truthful, venue, after, imported, lastHop, caller>>

\* emit: the send if the channel has room, or the end of the stream if the
\* context is done; select takes either when both are ready.
emit ==
    /\ spc = "emit"
    /\ \/ /\ Len(ch) < Cap
          /\ ch' = Append(ch, Head(todo)) /\ todo' = Tail(todo)
          /\ spc' = IF Len(todo) = 1 THEN after ELSE "emit"
          /\ log' = Logged(Head(todo))
       \/ ~sctx /\ spc' = "closed" /\ UNCHANGED <<ch, todo, log>>
    /\ UNCHANGED <<which, truthful, venue, after, imported, lastHop, caller>>

sleepCtx ==
    /\ spc = "sleep"
    /\ \/ spc' = "head"
       \/ ~sctx /\ spc' = "closed"
    /\ UNCHANGED <<which, truthful, venue, todo, after, imported, lastHop, ch, log, caller>>

-------------------------------------------------------------------------------
\* The caller takes an event, stops ranging, cancels, or closes the session.
Receive ==
    /\ ranging /\ ch # <<>> /\ ch' = Tail(ch)
    /\ UNCHANGED <<which, truthful, venue, stream, log, caller>>
Abandon ==
    /\ ranging /\ ranging' = FALSE
    /\ UNCHANGED <<which, truthful, venue, stream, ch, log, sctx, scap>>
StreamCancel ==
    /\ sctx /\ sctx' = FALSE
    /\ UNCHANGED <<which, truthful, venue, stream, ch, log, scap, ranging>>
StreamClose ==
    /\ scap /\ scap' = FALSE
    /\ UNCHANGED <<which, truthful, venue, stream, ch, log, sctx, ranging>>

\* D matches, moves to the next hop and decides; only a route is refunded.
DStep ==
    /\ which # "quote" /\ venue.name \notin Decided
    /\ venue' \in {Phase(n, 0) : n \in IF which = "route" THEN Decided
                                   ELSE Decided \ {"refunded"}}
              \cup (IF venue.name = "pending" THEN {Phase("matching", 0)} ELSE {})
              \cup (IF which = "route" /\ venue.name = "matching" /\ venue.hop < Hops - 1
                      THEN {Phase("matching", venue.hop + 1)} ELSE {})
    /\ UNCHANGED <<which, truthful, stream, ch, log, caller>>

Goroutine == streamEvents \/ streamRoute \/ quoteLoop \/ emit \/ sleepCtx
StreamNext == \/ ReadStream \/ RouteReadStream \/ StreamQuotes \/ Goroutine
              \/ Receive \/ Abandon \/ StreamCancel \/ StreamClose \/ DStep

\* The goroutine runs and a caller that ranges receives; nobody has to cancel.
StreamSpec == /\ StreamInit /\ [][StreamNext]_streamVars
              /\ WF_streamVars(Goroutine) /\ WF_streamVars(Receive)

-------------------------------------------------------------------------------
Before(i, e) == \E j \in 1 .. i - 1 : log[j] = e

\* Whatever the venue reports, a caller that takes the events as they come sees
\* a lifecycle: no match before the import, no hop started twice or after a later
\* one, and no fill of a hop past the last one started (streamEvents,
\* streamRoute), although polls repeat, fail, skip hops and come back with old
\* views.  A hop that was skipped and is then reported after all is filled
\* without having been started.
InOrder ==
    \A i \in DOMAIN log :
        /\ log[i].type = "MATCHED" => Before(i, Event("D_IMPORTED", 0))
        /\ log[i].type = "HOP_FILLED" =>
             \E h \in log[i].hop .. Hops - 1 : Before(i, Event("HOP_STARTED", h))
        /\ log[i].type = "HOP_STARTED" =>
             \A j \in 1 .. i - 1 : log[j].type = "HOP_STARTED" => log[j].hop < log[i].hop

\* An outcome is reported once and nothing follows it, and with a truthful venue
\* it is the one D decided: the loops return after a terminal event
\* (streamEvents, streamRoute).
OutcomeIsLast ==
    \A i \in DOMAIN log : log[i].type \in Terminal =>
        /\ i = Len(log) /\ spc = "closed"
        /\ truthful /\ log[i].type = "D_EXPORT_READY" => venue.name = "committed"
        /\ truthful /\ log[i].type = "REFUND_READY" => venue.name = "refunded"

\* Both, of a stream whose variables have their types.
StreamInOrder == StreamTypeOK /\ InOrder /\ OutcomeIsLast

\* A cancelled stream ends, wherever its goroutine was: in a poll, asleep, or
\* blocked on a channel nobody drains (emit).
CancelCloses == (spc # "idle" /\ ~sctx) ~> spc = "closed"
================================================================================
