------------------------------- MODULE DexSession -------------------------------
(***************************************************************************)
(* The client session of dexsession/: promises chained by thenAsync, the   *)
(* five operations, the watch that polls until D commits, the server's     *)
(* handlers over its Venue, and the table of capability grants.            *)
(*                                                                         *)
(* A flow is one caller with one request and one context.  It invokes its  *)
(* stages in program order without waiting; every stage is a promise and   *)
(* the goroutine that fulfils it, named by the pair <<flow, stage>>.  D is *)
(* reduced to the phase of each intent; the C transaction the user signs   *)
(* puts the intent in funded.  Module V4Session adds the scoped sessions.  *)
(* The venue behind the server may be honest or not: a reference it hands  *)
(* out is a pointer which the chain judges (watch.go).                     *)
(***************************************************************************)
EXTENDS Integers, Sequences, FiniteSets

CONSTANTS
    Flows,      \* callers, each with one flow
    Requests,   \* records [id, amount, known, delta]: id is what DeriveIntentID
                \* makes of the request; known: the session has its market
    Grants,     \* what Bootstrap may grant
    Setups      \* functions from Flows to records [kind, req]: the flows and
                \* sessions that run together

Stages == {"quote", "intent", "funded", "watch", "committed", "settle"}
Handles == Flows \X Stages
\* A session of somebody else, whose promises a caller may hand to its own.
Other == "other"
Promises == Handles \cup {<<Other, s>> : s \in Stages}
Intents == {r.id : r \in Requests}
None == "none"
NoDep == <<>>

\* capability.go: the operation classes; admin is granted separately.
AuthorityPublic == {"quote", "intent", "watch", "settlement"}

ASSUME DexAssumption ==
    /\ Setups \subseteq [Flows -> [kind : STRING, req : Requests]]
    /\ Other \notin Flows

VARIABLES
    flow,       \* fixed per behaviour: a member of Setups
    grant,      \* fixed per behaviour: what Bootstrap granted
    honest,     \* fixed per behaviour: the venue reports what D did
    prom,       \* the promise of each stage
    pc,         \* its goroutine: None, "await", "run", "loop", "call" or "done"
    dep,        \* the promise it awaits, or NoDep
    wire,       \* requests at the server
    sent,       \* history: the requests ever sent, by flow, type and intent
    ctx,        \* flows whose context is cancelled
    cap,        \* per flow: its capability in the grant table
    late,       \* history: flows closed when their watch already ran
    funded,     \* intents whose C->D object exists on C
    dphase      \* per intent: what D has done with it

fixed == <<flow, grant, honest>>
tasks == <<prom, pc, dep>>
dchain == <<funded, dphase>>
vars == <<fixed, tasks, wire, sent, ctx, cap, late, dchain>>

kind(f) == flow[f].kind
req(f) == flow[f].req

Pending == [st |-> "pending"]
Failed == [st |-> "err"]
Lost == [st |-> "lost"]
Ok(v) == [st |-> "ok", v |-> v]
\* A value that flows through the pipeline: an intent or watch (tx = None), a
\* DExportRef (tx is the D transaction), a settlement (data: it has calldata).
Value(i, t, d) == [id |-> i, tx |-> t, data |-> d]

\* Every variable has its type.
TypeOK ==
    /\ flow \in Setups /\ grant \in Grants /\ honest \in BOOLEAN
    /\ \A h \in Promises :
        /\ prom[h].st \in {"pending", "ok", "err"}
        /\ prom[h].st = "ok" => prom[h].v.id \in Intents
        /\ pc[h] \in {None, "await", "run", "loop", "call", "done"}
        /\ dep[h] \in Promises \cup {NoDep}
    /\ ctx \in SUBSET Flows /\ late \in SUBSET Flows
    /\ cap \in [Flows -> [st : {None, "refused", "live", "revoked"},
                         bits : SUBSET AuthorityPublic]]
    /\ funded \in SUBSET Intents
    /\ dphase \in [Intents -> {"unknown", "pending", "matching", "committed",
                               "refunded", "rejected"}]

\* NewSession and Bootstrap: no promise, an empty grant table, any grant.
Init ==
    /\ flow \in Setups /\ grant \in Grants /\ honest \in BOOLEAN
    /\ prom = [h \in Promises |-> Pending] /\ pc = [h \in Promises |-> None]
    /\ dep = [h \in Promises |-> NoDep]
    /\ wire = {} /\ sent = {} /\ ctx = {} /\ late = {}
    /\ cap = [f \in Flows |-> [st |-> None, bits |-> {}]]
    /\ funded = {} /\ dphase = [i \in Intents |-> "unknown"]

-------------------------------------------------------------------------------
(* Promises *)

\* Promise.fulfil: the first result wins.
fulfil(h, r) ==
    prom' = IF prom[h].st = "pending" THEN [prom EXCEPT ![h] = r] ELSE prom

\* The goroutine of stage h fulfils its promise and ends.
Resolve(h, r) ==
    /\ fulfil(h, r)
    /\ pc' = [pc EXCEPT ![h] = "done"]
    /\ UNCHANGED <<fixed, dep, sent, ctx, cap, late, funded>>

Goto(h, l) ==
    /\ pc' = [pc EXCEPT ![h] = l]
    /\ UNCHANGED <<fixed, prom, dep, sent, ctx, cap, late, funded>>

Quiet == UNCHANGED <<wire, dphase>>

\* The results Await may return now: the promise's, and the context's error.
Await(d, f) ==
    (IF prom[d].st = "pending" THEN {} ELSE {prom[d]})
        \cup (IF f \in ctx THEN {Failed} ELSE {})

\* thenAsync: wait for the dependency; an error goes straight to the result.
thenAsync(h) ==
    /\ pc[h] = "await" /\ Quiet
    /\ \E r \in Await(dep[h], h[1]) :
        IF r = Failed THEN Resolve(h, r) ELSE Goto(h, "run")

\* What thenAsync hands to fn.
Arg(h) == prom[dep[h]].v

\* A method that returns the promise of stage h: gate is the outcome of its
\* check, d the promise it will wait for or NoDep.
Spawn(h, gate, d) ==
    /\ pc[h] = None
    /\ IF gate
        THEN /\ pc' = [pc EXCEPT ![h] = IF d = NoDep THEN "run" ELSE "await"]
             /\ UNCHANGED prom
        ELSE /\ pc' = [pc EXCEPT ![h] = "done"] /\ fulfil(h, Failed)
    /\ dep' = [dep EXCEPT ![h] = d]
    /\ UNCHANGED <<fixed, sent, ctx, cap, late, funded>> /\ Quiet

-------------------------------------------------------------------------------
(* Authority *)

\* MUTANT of requireGrant: any authority will do.
SomeGrant(need) == grant # {}

requireGrant(need) == need \subseteq grant

\* issue: a capability for bits within the grant, registered under a fresh
\* token; rng is FALSE when newToken leaves the token zero.
issue(f, bits, rng) ==
    cap' = [cap EXCEPT ![f] = IF bits \subseteq grant /\ rng
                                THEN [st |-> "live", bits |-> bits]
                                ELSE [st |-> "refused", bits |-> {}]]

\* capCore.authorize through checkGrant: the table of record decides.
checkGrant(f, need) == cap[f].st = "live" /\ need \subseteq cap[f].bits

\* Revoke, and whether it hit a session whose watch already ran.
Revoke(f) ==
    /\ cap[f].st = "live"
    /\ cap' = [cap EXCEPT ![f].st = "revoked"]
    /\ late' = IF pc[<<f, "committed">>] \in {None, "await", "run"}
                 THEN late ELSE late \cup {f}
    /\ UNCHANGED <<fixed, tasks, wire, sent, ctx, dchain>>

-------------------------------------------------------------------------------
(* Calls *)

\* conn.Call: the request goes out and the goroutine waits.
Call(h, type, v) ==
    /\ pc' = [pc EXCEPT ![h] = "call"]
    /\ wire' = wire \cup {[h |-> h, type |-> type, v |-> v]}
    /\ sent' = sent \cup {[f |-> h[1], type |-> type, id |-> v.id]}
    /\ UNCHANGED <<fixed, prom, dep, ctx, cap, late, dchain>>

\* Call returns an error: the peer is gone or the context is done.  A read left
\* at the server changes nothing there and is dropped with its caller.
CallFails(h) ==
    /\ pc[h] = "call"
    /\ Resolve(h, Failed)
    /\ wire' = {m \in wire : m.h # h \/ m.type = "notify"} /\ UNCHANGED dphase

At(f, s, l) == pc[<<f, s>>] = l

\* Quote and GetState: one read, resolved with whatever comes back; the round
\* trip is one step, for nothing at the server depends on it.
Quote(f) ==
    LET h == <<f, "quote">> IN
    /\ At(f, "quote", "run")
    /\ pc' = [pc EXCEPT ![h] = "done"]
    /\ \E r \in {Ok(Value(req(f).id, None, FALSE)), Failed} : fulfil(h, r)
    /\ sent' = sent \cup {[f |-> f, type |-> "quote", id |-> req(f).id]}
    /\ UNCHANGED <<fixed, dep, ctx, cap, late, funded>> /\ Quiet

\* prepareLocal: refuse, or build the calldata from the request alone; the
\* estimate is asked for if the session may quote, and its failure is ignored.
prepareLocal(f) ==
    LET h == <<f, "intent">> IN
    /\ At(f, "intent", "run")
    /\ pc' = [pc EXCEPT ![h] = "done"]
    /\ IF req(f).amount = 0 \/ ~req(f).known
        THEN fulfil(h, Failed) /\ UNCHANGED sent
        ELSE /\ fulfil(h, Ok(Value(req(f).id, None, FALSE)))
             /\ sent' = IF requireGrant({"quote"})
                          THEN sent \cup {[f |-> f, type |-> "quote", id |-> req(f).id]}
                          ELSE sent
    /\ UNCHANGED <<fixed, dep, ctx, cap, late, funded>> /\ Quiet

\* The sender of SwapFlowWithSender signs and submits the C transaction.
Fund(f) ==
    LET h == <<f, "funded">> IN
    /\ At(f, "funded", "run") /\ Quiet
    /\ \/ /\ funded' = funded \cup {Arg(h).id}
          /\ fulfil(h, Ok(Arg(h))) /\ pc' = [pc EXCEPT ![h] = "done"]
          /\ UNCHANGED <<fixed, dep, sent, ctx, cap, late>>
       \/ Resolve(h, Failed)

\* MUTANT of NotifyIntent: it notifies as soon as its goroutine runs.
EagerNotify(f, own) ==
    LET h == <<f, "watch">> IN
    /\ pc[h] \in {"await", "run"}
    /\ Call(h, "notify", Value(req(f).id, None, FALSE))

\* NotifyIntent, once the intent is there; own is the test a scoped session puts
\* in front of it.
NotifyIntent(f, own) ==
    LET h == <<f, "watch">> IN
    /\ At(f, "watch", "run")
    /\ IF own /\ requireGrant({"intent"}) THEN Call(h, "notify", Arg(h))
                                          ELSE Resolve(h, Failed) /\ Quiet

\* OnCommitted, once the watch is there: own is the check of the session whose
\* method calls it.
OnCommitted(f, own) ==
    /\ At(f, "committed", "run") /\ Quiet
    /\ IF own /\ requireGrant({"watch"}) THEN Goto(<<f, "committed">>, "loop")
                                         ELSE Resolve(<<f, "committed">>, Failed)

\* streamUntilCommitted, the head of the loop: the context, then Poll, whose
\* check is own.
streamUntilCommitted(f, own) ==
    LET h == <<f, "committed">> IN
    /\ At(f, "committed", "loop")
    /\ IF f \notin ctx /\ own THEN Call(h, "poll", Arg(h))
                              ELSE Resolve(h, Failed) /\ Quiet

\* ImportSettlement, once the reference is there.
ImportSettlement(f, own) ==
    LET h == <<f, "settle">> IN
    /\ At(f, "settle", "run")
    /\ IF own /\ requireGrant({"settlement"}) THEN Call(h, "import", Arg(h))
                                              ELSE Resolve(h, Failed) /\ Quiet

-------------------------------------------------------------------------------
(* The server.  A venue error becomes an answer, never an error: a watch on   *)
(* the same intent, an unknown phase, a result without calldata.              *)

\* The request leaves the wire; its caller is told a, or is not (it has given
\* up, or the answer is lost).
Answer(m, then) ==
    /\ wire' = wire \ {m}
    /\ IF pc[m.h] = "call" /\ then # Lost
         THEN IF then = Pending THEN Goto(m.h, "loop") ELSE Resolve(m.h, then)
         ELSE UNCHANGED <<fixed, tasks, sent, ctx, cap, late, funded>>

\* The intent of the watch that NotifyIntent makes of the answer: the one the
\* answer names; a RouteWatch has its session's own.
Watched(m) == IF honest \/ kind(m.h[1]) = "v4route" THEN {m.v.id} ELSE Intents

\* The venue records the intent, or cannot; both answer with an id.
ServeNotify(m) ==
    /\ m.type = "notify"
    /\ \/ /\ dphase[m.v.id] = "unknown"
          /\ dphase' = [dphase EXCEPT ![m.v.id] = "pending"]
       \/ UNCHANGED dphase
    /\ \E a \in {Ok([m.v EXCEPT !.id = i]) : i \in Watched(m)} \cup {Lost} : Answer(m, a)

\* The phases in which D has exported an object.
Exported == {"committed", "refunded"}

\* What a venue may report of intent i: what D did with it, the transaction of
\* the export included, or that it has no view; and anything if it is not honest.
Status(p, t) == [phase |-> p, tx |-> t]
Reports(i) ==
    IF honest THEN {Status(dphase[i], i), Status("unknown", None)}
    ELSE {Status("committed", t) : t \in Intents \cup {None}}
           \cup {Status("rejected", None), Status("unknown", None)}

\* MUTANT of readStatus: a matching intent counts as committed.
MatchedStatus(f, i, s) ==
    IF s.phase \in {"matching", "committed"} THEN Ok(Value(i, s.tx, FALSE))
    ELSE IF s.phase = "rejected" THEN Failed ELSE Pending

\* What status s makes of f's watch of intent i: the reference, bound to the
\* intent of the watch; the rejection; or another round.  A route's watch takes
\* the refund's reference too.
readStatus(f, i, s) ==
    CASE s.phase = "committed" \/ (s.phase = "refunded" /\ kind(f) = "v4route") ->
            Ok(Value(i, s.tx, FALSE))
      [] s.phase = "rejected" -> Failed
      [] OTHER -> Pending

\* A poll answers with the venue's status.
ServePoll(m) ==
    /\ m.type = "poll" /\ UNCHANGED dphase
    /\ \E s \in Reports(m.v.id) : Answer(m, readStatus(m.h[1], m.v.id, s))

\* An import answers with calldata, for an object D has exported if the venue is
\* honest, or without; the object it names is the one of the reference.
ServeImport(m) ==
    /\ m.type = "import" /\ UNCHANGED dphase
    /\ \E d \in BOOLEAN :
        /\ d /\ honest => m.v.tx \in Intents /\ dphase[m.v.tx] \in Exported
        /\ Answer(m, Ok([m.v EXCEPT !.data = d]))

-------------------------------------------------------------------------------
(* The flows *)

\* The caller of f makes the next call of program, which lists each stage with
\* the stage whose promise it takes.
Advance(f, program, gate(_)) ==
    \E k \in DOMAIN program :
        LET s == program[k][1]
            d == program[k][2] IN
        /\ \A j \in 1 .. k - 1 : ~At(f, program[j][1], None)
        /\ Spawn(<<f, s>>, gate(s), IF d = None THEN NoDep ELSE <<f, d>>)

\* Quote and PrepareSwapIntent check the grant when called, the rest later.
FlowGate(s) == s \in {"quote", "intent"} => requireGrant({s})

SwapFlow(f) ==
    /\ kind(f) = "swap"
    /\ Advance(f, << <<"quote", None>>, <<"intent", None>>, <<"watch", "intent">>,
                     <<"committed", "watch">>, <<"settle", "committed">> >>, FlowGate)
SwapFlowWithSender(f) ==
    /\ kind(f) = "sender"
    /\ Advance(f, << <<"quote", None>>, <<"intent", None>>, <<"funded", "intent">>,
                     <<"watch", "funded">>, <<"committed", "watch">>,
                     <<"settle", "committed">> >>, FlowGate)

\* IntentWatch.Poll asks for the bootstrap grant.
PollGate == requireGrant({"watch"})

Flow(f) ==
    \/ SwapFlow(f) \/ SwapFlowWithSender(f)
    \/ /\ kind(f) \in {"swap", "sender"}
       /\ \/ prepareLocal(f) \/ Fund(f)
          \/ NotifyIntent(f, TRUE) \/ ImportSettlement(f, TRUE)
          \/ OnCommitted(f, TRUE) \/ streamUntilCommitted(f, PollGate)

-------------------------------------------------------------------------------
(* The rest of the world *)

Cancel(f) ==
    /\ f \notin ctx /\ ctx' = ctx \cup {f}
    /\ UNCHANGED <<fixed, tasks, wire, sent, cap, late, dchain>>

\* The wallet of a flow without a sender signs what it was handed.
UserSigns(f) ==
    /\ kind(f) # "sender"
    /\ prom[<<f, "intent">>].st = "ok"
    /\ prom[<<f, "intent">>].v.id \notin funded
    /\ funded' = funded \cup {prom[<<f, "intent">>].v.id}
    /\ UNCHANGED <<fixed, tasks, wire, sent, ctx, cap, late, dphase>>

\* A D block imports a funded intent, commits its export, or rejects it; a route
\* that fails is refunded by an export too.
DBlock(i) ==
    /\ \/ dphase[i] \in {"unknown", "pending"} /\ i \in funded
            /\ dphase' = [dphase EXCEPT ![i] = "matching"]
       \/ dphase[i] = "matching" /\ dphase' = [dphase EXCEPT ![i] = "committed"]
       \/ /\ dphase[i] = "matching" /\ dphase' = [dphase EXCEPT ![i] = "refunded"]
          /\ \E f \in Flows : kind(f) = "v4route" /\ req(f).id = i
       \/ dphase[i] \in {"pending", "matching"}
            /\ dphase' = [dphase EXCEPT ![i] = "rejected"]
    /\ UNCHANGED <<fixed, tasks, wire, sent, ctx, cap, late, funded>>

\* The steps of the goroutines and of the server that both layers share.
Goroutines ==
    \/ \E h \in Handles : thenAsync(h) \/ CallFails(h)
    \/ \E f \in Flows : Quote(f)
    \/ \E m \in wire : ServeNotify(m) \/ ServePoll(m) \/ ServeImport(m)

\* The other session's promise of stage s resolves, to some intent.
OtherResolves(s) ==
    /\ prom[<<Other, s>>] = Pending /\ Quiet
    /\ \E h \in Handles : dep[h] = <<Other, s>>
    /\ \E i \in Intents : Resolve(<<Other, s>>, Ok(Value(i, i, FALSE)))

Environment ==
    \/ \E s \in Stages : OtherResolves(s)
    \/ \E f \in Flows : Cancel(f) \/ UserSigns(f)
    \/ \E i \in Intents : DBlock(i)
================================================================================
