------------------------------- MODULE V4Session -------------------------------
(***************************************************************************)
(* The scoped sessions of dexsession/v4session.go: each holds a capability *)
(* for one action, drives the client session's operations through it and   *)
(* is retired by Close, which may come at any moment of the flow.          *)
(*                                                                         *)
(* Kinds: "v4swap" is V4SwapSession.Run; "v4route", "v4lp", "v4collect"    *)
(* and "v4state" are callers that use the session's methods one by one and *)
(* may hand them a promise of another session.                             *)
(***************************************************************************)
EXTENDS DexSession

\* An Open: refused for the request, or a capability minted for bits.
mint(f, bits, refused) ==
    /\ cap[f].st = None
    /\ IF refused THEN cap' = [cap EXCEPT ![f].st = "refused"]
                  ELSE \E rng \in BOOLEAN : issue(f, bits, rng)
    /\ UNCHANGED <<fixed, tasks, wire, sent, ctx, late, dchain>>

OpenSwap(f) ==
    /\ kind(f) = "v4swap"
    /\ mint(f, {"intent", "watch", "settlement"}, ~req(f).known)
OpenRoute(f) ==
    /\ kind(f) = "v4route"
    /\ mint(f, {"intent", "watch", "settlement"}, ~req(f).known)
OpenModifyLiquidity(f) ==
    /\ kind(f) = "v4lp"
    /\ mint(f, {"intent", "watch"}, req(f).delta <= 0 \/ ~req(f).known)
openRemoval(f) ==
    /\ kind(f) = "v4collect"
    /\ mint(f, {"intent", "watch", "settlement"}, req(f).delta >= 0 \/ ~req(f).known)
OpenState(f) ==
    /\ kind(f) = "v4state"
    /\ mint(f, {"quote"}, ~req(f).known)

Opened(f) == cap[f].st \in {"live", "revoked"}

\* Close of every session kind.
Close(f) == Revoke(f)

\* MUTANT of authorizeSelf: the bits cached in the capability, not the table.
CachedBits(f, need) == need \subseteq cap[f].bits

\* authorizeSelf: the class of operation at the session of record; the scope is
\* the capability's own.
authorizeSelf(f, need) == checkGrant(f, need)

\* The guard in front of NotifyIntent and ImportSettlement: a value of another
\* intent is refused.
inScope(f, v) == v.id = req(f).id

-------------------------------------------------------------------------------
(* The methods.  Each asks the capability when it is called; the stage it     *)
(* starts may run much later.                                                *)

\* A caller of f hands over its own promise of stage d, or one of another session.
Given(f, d) == {h \in {<<f, d>>} : pc[h] # None} \cup {<<Other, d>>}
Method(f, k, s, gate, deps) ==
    /\ kind(f) = k /\ Opened(f)
    /\ \E d \in deps : Spawn(<<f, s>>, gate, d)

\* V4SwapSession, driven by Run.
WritePrepareIntent(f) == authorizeSelf(f, {"intent"}) /\ requireGrant({"intent"})
WriteNotifyCToDExport(f) == authorizeSelf(f, {"intent"})
OnExportReady(f) == authorizeSelf(f, {"watch"})
WritePrepareCSettlement(f) == authorizeSelf(f, {"settlement"})
Run(f) ==
    /\ kind(f) = "v4swap" /\ Opened(f)
    /\ Advance(f, << <<"intent", None>>, <<"watch", "intent">>, <<"committed", "watch">>,
                     <<"settle", "committed">>, <<"quote", None>> >>,
               LAMBDA s : CASE s = "intent" -> WritePrepareIntent(f)
                            [] s = "watch" -> WriteNotifyCToDExport(f)
                            [] s = "committed" -> TRUE
                            [] s = "settle" -> WritePrepareCSettlement(f)
                            [] s = "quote" -> requireGrant({"quote"}))

\* V4RouteSession.
RouteWritePrepareIntent(f) ==
    Method(f, "v4route", "intent", authorizeSelf(f, {"intent"}), {NoDep})
RouteWriteNotify(f) ==
    Method(f, "v4route", "watch", authorizeSelf(f, {"intent"}), Given(f, "intent"))
OnFinalExport(f) ==
    /\ prom[<<f, "watch">>].st = "ok"
    /\ Method(f, "v4route", "committed", authorizeSelf(f, {"watch"}), {<<f, "watch">>})
RouteWritePrepareCSettlement(f) ==
    Method(f, "v4route", "settle", authorizeSelf(f, {"settlement"}), Given(f, "committed"))

\* V4LiquiditySession.
WritePrepareCommit(f) ==
    Method(f, "v4lp", "intent", authorizeSelf(f, {"intent"}), {NoDep})
LiquidityWriteNotify(f) ==
    Method(f, "v4lp", "watch", authorizeSelf(f, {"intent"}), Given(f, "intent"))

\* V4CollectSession.
WriteRequest(f) ==
    Method(f, "v4collect", "intent", authorizeSelf(f, {"intent"}), {NoDep})
WriteNotify(f) ==
    Method(f, "v4collect", "watch", authorizeSelf(f, {"intent"}), Given(f, "intent"))
CollectOnExportReady(f) ==
    /\ prom[<<f, "watch">>].st = "ok"
    /\ Method(f, "v4collect", "committed",
              authorizeSelf(f, {"watch"}) /\ requireGrant({"watch"}), {<<f, "watch">>})
CollectWritePrepareCSettlement(f) ==
    Method(f, "v4collect", "settle", authorizeSelf(f, {"settlement"}), Given(f, "committed"))

\* V4StateSession.
ReadQuote(f) ==
    Method(f, "v4state", "quote",
           authorizeSelf(f, {"quote"}) /\ requireGrant({"quote"}), {NoDep})

\* prepareRouteLocal and the goroutines of WritePrepareCommit and WriteRequest:
\* no estimate is asked for.
prepareRouteLocal(f) ==
    /\ At(f, "intent", "run") /\ Quiet
    /\ Resolve(<<f, "intent">>,
               IF kind(f) = "v4route" /\ req(f).amount = 0 THEN Failed
               ELSE Ok(Value(req(f).id, None, FALSE)))

\* The continuation of the route's notify has no gate of the client session.
RouteNotified(f) ==
    LET h == <<f, "watch">> IN
    /\ At(f, "watch", "run")
    /\ IF inScope(f, Arg(h)) THEN Call(h, "notify", Arg(h))
                             ELSE Resolve(h, Failed) /\ Quiet

\* RouteWatch.Poll asks the capability, at every poll.
RoutePollGate(f) == authorizeSelf(f, {"watch"})
streamUntilFinal(f) == streamUntilCommitted(f, RoutePollGate(f))

\* The goroutines of each kind of session.
Stage(f) ==
    \/ /\ kind(f) = "v4swap"
       /\ prepareLocal(f) \/ OnCommitted(f, OnExportReady(f))
    \/ /\ kind(f) \in {"v4route", "v4lp", "v4collect"} /\ prepareRouteLocal(f)
    \/ /\ kind(f) = "v4route"
       /\ RouteNotified(f) \/ OnCommitted(f, TRUE) \/ streamUntilFinal(f)
    \/ kind(f) = "v4collect" /\ OnCommitted(f, TRUE)
    \/ /\ kind(f) \in {"v4swap", "v4lp", "v4collect"}
       /\ \/ NotifyIntent(f, inScope(f, Arg(<<f, "watch">>)))
          \/ streamUntilCommitted(f, PollGate)
    \/ /\ kind(f) \in {"v4swap", "v4route", "v4collect"}
       /\ ImportSettlement(f, inScope(f, Arg(<<f, "settle">>)))

Open(f) == OpenSwap(f) \/ OpenRoute(f) \/ OpenModifyLiquidity(f)
             \/ openRemoval(f) \/ OpenState(f)
Caller(f) ==
    \/ Run(f)
    \/ RouteWritePrepareIntent(f) \/ RouteWriteNotify(f) \/ OnFinalExport(f)
    \/ RouteWritePrepareCSettlement(f)
    \/ WritePrepareCommit(f) \/ LiquidityWriteNotify(f)
    \/ WriteRequest(f) \/ WriteNotify(f) \/ CollectOnExportReady(f)
    \/ CollectWritePrepareCSettlement(f) \/ ReadQuote(f)

Next ==
    \/ Goroutines \/ Environment
    \/ \E f \in Flows : Flow(f) \/ Open(f) \/ Close(f) \/ Caller(f) \/ Stage(f)

\* A goroutine that can step does, and a Call ends at the latest with the
\* connection or the context.  Nothing makes D produce a block, the server
\* answer, the wallet sign or a caller cancel.
Work(h) ==
    /\ pc[h] \notin {None, "done"}
    /\ \/ thenAsync(h) \/ CallFails(h)
       \/ pc[h] \in {"run", "loop"}
            /\ (Quote(h[1]) \/ Flow(h[1]) \/ Stage(h[1])) /\ pc'[h] # pc[h]
Fairness == \A h \in Handles : WF_vars(Work(h))
Spec == Init /\ [][Next]_vars /\ Fairness

-------------------------------------------------------------------------------
\* A promise of a committed export names the intent its watch tracks, whatever
\* the status named ("the caller only ever asked about THIS intent", watch.go);
\* and if the venue is honest it is true, although the watch may have polled
\* through any number of phases and failures: D exported an object for the very
\* intent (streamUntilCommitted, streamUntilFinal).  Of a venue that is not,
\* nothing more holds: it makes the watch commit to any reference.
CommittedIsReal ==
    \A f \in Flows :
        LET p == prom[<<f, "committed">>]
            w == prom[<<f, "watch">>] IN
        p.st = "ok" =>
            /\ w.st = "ok" /\ p.v.id = w.v.id
            /\ honest => dphase[p.v.tx] \in Exported /\ p.v.id = p.v.tx

\* A session notifies D of its own intent only, and a scoped session imports the
\* settlement of its own intent only: neither its caller, with a promise of
\* another session, nor the venue, with a watch or a reference of another intent,
\* makes it do otherwise (the scope guards of v4session.go).  The pipelines of
\* pipeline.go have no such guard and rest on the venue.
ScopedCalls ==
    \A m \in sent :
        \/ m.type = "notify"
        \/ m.type = "import" /\ (honest \/ kind(m.f) \notin {"swap", "sender"})
        => m.id = req(m.f).id

\* With a sender, D is told of an intent only after its C->D object exists: the
\* notify waits for the sender, and does not happen when the sender fails
\* (pipeline.go).
NotifiedIsFunded ==
    \A m \in sent : m.type = "notify" /\ kind(m.f) = "sender" => m.id \in funded

\* No request leaves a session whose bootstrap grant does not cover it,
\* whichever method, chain or capability led there (requireGrant).
Needs(t) == CASE t = "quote" -> "quote" [] t = "notify" -> "intent"
              [] t = "poll" -> "watch" [] t = "import" -> "settlement"
WithinGrant == \A m \in sent : Needs(m.type) \in grant

\* Every variable has its type, and what the capability discipline promises of
\* every call sent: it is inside the scope of the session that sent it and under
\* the grant of the connection.
CallsAreAuthorized == TypeOK /\ ScopedCalls /\ WithinGrant

\* Closing a V4SwapSession while Run has not begun to watch stops the settlement:
\* no import is ever sent, although the settlement stage was authorized when
\* Run built it (OnExportReady asks the capability again).
CloseStopsSettlement ==
    \A f \in Flows :
        kind(f) = "v4swap" /\ cap[f].st = "revoked" /\ f \notin late =>
            ~\E m \in sent : m.f = f /\ m.type \in {"poll", "import"}

\* Once its context is cancelled, every goroutine of a flow ends and resolves
\* its promise, wherever it was: awaiting, calling or between two polls.
CancelResolves ==
    []<>(\A h \in Handles : h[1] \in ctx /\ pc[h] # None => prom[h].st # "pending")
================================================================================
