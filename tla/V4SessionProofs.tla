---------------------------- MODULE V4SessionProofs ----------------------------
(***************************************************************************)
(* Proofs about the client sessions of dexsession (client.go, pipeline.go, *)
(* capability.go, v4session.go), for any flows, requests and grants.       *)
(*                                                                         *)
(* Inv says what a promise that resolved is worth (Kept), which promise a  *)
(* stage takes and that it runs only once it has it (Tasks, Wired), and    *)
(* what was asked of the capability before a stage started (Gated); the    *)
(* safety of the calls (OnWire, Calls, Stopped) rests on these.  The many  *)
(* operations do a few things to that state: NormalStep shows that each is *)
(* one of the steps of Normal, and the rest is proved of those.            *)
(***************************************************************************)
EXTENDS V4Session, V4Stream, TLAPS

\* Leaves go to Zenon; the ones that need arithmetic or sequences name SMT.
USE Zenon

\* What a promise resolves to, where a goroutine is, and the phases of D.
Values == [id : Intents, tx : Intents \cup {None}, data : BOOLEAN]
Place == {None, "await", "run", "loop", "call", "done"}
Phases == {"unknown", "pending", "matching", "committed", "refunded", "rejected"}

PromType == \A h \in Promises : \/ prom[h] \in {Pending, Failed}
                                \/ \E v \in Values : prom[h] = Ok(v)

\* The stage whose goroutine sends a request of each type.
StageOf(t) == CASE t = "notify" -> "watch" [] t = "poll" -> "committed"
                [] t = "import" -> "settle" [] t = "quote" -> "quote"
Message == [h : Handles, type : {"notify", "poll", "import"}, v : Values]
Request == [f : Flows, type : {"quote", "notify", "poll", "import"}, id : Intents]

TaskType ==
    /\ prom = [h \in Promises |-> prom[h]] /\ PromType
    /\ pc \in [Promises -> Place]
    /\ dep \in [Promises -> Promises \cup {NoDep}]
CallType ==
    /\ wire \subseteq Message /\ \A m \in wire : m.h[2] = StageOf(m.type)
    /\ sent \subseteq Request
WorldType ==
    /\ flow \in Setups /\ grant \in Grants /\ honest \in BOOLEAN
    /\ ctx \in SUBSET Flows /\ late \in SUBSET Flows
    /\ cap \in [Flows -> [st : {None, "refused", "live", "revoked"},
                         bits : SUBSET AuthorityPublic]]
    /\ funded \in SUBSET Intents /\ dphase \in [Intents -> Phases]
Types == TaskType /\ CallType /\ WorldType

\* A flow whose stages only take promises of its own.
Closed(f) == kind(f) \in {"swap", "sender", "v4swap"}

\* The stages that name the intent themselves; the others take the venue's word.
Local(s) == s \in {"quote", "intent", "funded"}

\* What a promise that resolved with v says.
Sound(h, v) ==
    /\ Closed(h[1]) /\ (honest \/ Local(h[2])) => v.id = req(h[1]).id
    /\ honest /\ h[2] = "committed" => v.id = v.tx /\ dphase[v.tx] \in Exported
    /\ h[2] = "funded" => v.id \in funded
Kept == \A h \in Handles : prom[h].st = "ok" => Sound(h, prom[h].v)

\* A reference is bound to the intent of the watch it was polled for.
Bound ==
    \A h \in Handles : prom[h].st = "ok" /\ h[2] = "committed" =>
        pc[h] # None /\ prom[dep[h]].st = "ok" /\ prom[h].v.id = Arg(h).id

\* A goroutine ends when it resolves its promise, and runs once it has its argument.
Tasks ==
    \A h \in Handles :
        /\ pc[h] # "done" => prom[h] = Pending
        /\ pc[h] \in {"run", "loop", "call"} /\ dep[h] # NoDep => prom[dep[h]].st = "ok"

\* Which promise a stage takes.
Takes(h, d) ==
    /\ d = NoDep <=> h[2] \in {"quote", "intent"}
    /\ Closed(h[1]) /\ d # NoDep =>
          /\ d \in Handles /\ d[1] = h[1]
          /\ kind(h[1]) = "sender" /\ h[2] = "watch" => d[2] = "funded"
          /\ h[2] \in {"funded", "watch"} => Local(d[2])
          /\ h[2] = "settle" => d[2] = "committed"
    /\ h[2] = "committed" => d = <<h[1], "watch">>
Wired == \A h \in Handles : pc[h] # None => Takes(h, dep[h])

\* What was asked before a stage started.
Asked(h) ==
    /\ h[2] = "quote" => "quote" \in grant
    /\ h[2] = "watch" /\ kind(h[1]) = "v4route" => "intent" \in grant
Gated ==
    /\ \A f \in Flows : cap[f].bits \subseteq grant
    /\ \A h \in Handles : pc[h] \notin {None, "done"} => Asked(h)

\* What was sent.
OnWire ==
    \A m \in wire :
        /\ Closed(m.h[1]) /\ (honest \/ m.type = "notify") => m.v.id = req(m.h[1]).id
        /\ m.type = "poll" =>
              pc[m.h] # None /\ prom[dep[m.h]].st = "ok" /\ m.v = Arg(m.h)
Calls == ScopedCalls /\ WithinGrant /\ NotifiedIsFunded

\* A swap session that watches, and one that was closed before it did.
Stopped ==
    \A f \in Flows : kind(f) = "v4swap" =>
        LET h == <<f, "committed">>
            quiet == ~\E m \in sent : m.f = f /\ m.type \in {"poll", "import"} IN
        /\ pc[h] \in {None, "await", "run"} => quiet
        /\ cap[f].st = "revoked" /\ f \notin late =>
              quiet /\ pc[h] \notin {"loop", "call"} /\ prom[h].st # "ok"

Inv == Types /\ Kept /\ Bound /\ Tasks /\ Wired /\ Gated /\ OnWire /\ Calls /\ Stopped

-------------------------------------------------------------------------------
\* Promises by the flow and the stage they belong to.
LEMMA Pairs ==
    /\ \A f \in Flows, s \in Stages : /\ <<f, s>> \in Handles /\ <<f, s>> \in Promises
                                      /\ <<f, s>> # NoDep
                                      /\ <<f, s>>[1] = f /\ <<f, s>>[2] = s
    /\ \A h \in Handles : /\ h \in Promises /\ h = <<h[1], h[2]>>
                          /\ h[1] \in Flows /\ h[2] \in Stages
    /\ \A s \in Stages : <<Other, s>> \in Promises \ Handles
    /\ NoDep \notin Promises
  BY SMT, DexAssumption DEF DexAssumption, Promises, Handles, NoDep

LEMMA StageNames == Stages = {"quote", "intent", "funded", "watch", "committed", "settle"}
  BY DEF Stages

\* The three kinds of results.
LEMMA Results ==
    /\ \A v : Ok(v).st = "ok" /\ Ok(v).v = v /\ Ok(v) # Failed /\ Ok(v) # Pending
              /\ Ok(v) # Lost
    /\ Pending.st = "pending" /\ Failed.st = "err" /\ Failed # Pending
    /\ Failed # Lost /\ Pending # Lost
  BY SMT DEF Ok, Pending, Failed, Lost

LEMMA ValueType ==
    /\ \A i \in Intents, t \in Intents \cup {None}, d \in BOOLEAN :
          /\ Value(i, t, d) \in Values
          /\ Value(i, t, d).id = i /\ Value(i, t, d).tx = t
    /\ \A v \in Values : v.id \in Intents
    /\ \A v \in Values, d \in BOOLEAN :
          [v EXCEPT !.data = d] \in Values /\ [v EXCEPT !.data = d].id = v.id
    /\ \A v \in Values, i \in Intents :
          [v EXCEPT !.id = i] \in Values /\ [v EXCEPT !.id = i].id = i
  BY SMT DEF Values, Value

LEMMA RequestIds == ASSUME flow \in Setups, NEW f \in Flows PROVE req(f).id \in Intents
  BY SMT, DexAssumption DEF DexAssumption, req, Intents

LEMMA OkResult ==
    ASSUME Inv, NEW h \in Promises, prom[h].st = "ok" PROVE \E v \in Values : prom[h] = Ok(v)
  BY Results DEF Inv, Types, TaskType, PromType

\* What a stage that runs was handed.
LEMMA Handed ==
    ASSUME Inv, NEW h \in Handles, pc[h] \in {"run", "loop", "call"},
           h[2] \notin {"quote", "intent"}
    PROVE  /\ Arg(h) \in Values
           /\ Closed(h[1]) /\ (honest \/ h[2] \in {"funded", "watch"}) =>
                 Arg(h).id = req(h[1]).id
           /\ kind(h[1]) = "sender" /\ h[2] = "watch" => Arg(h).id \in funded
           /\ Closed(h[1]) /\ h[2] = "settle" => prom[<<h[1], "committed">>].st = "ok"
<1>1. dep[h] # NoDep /\ pc[h] # None /\ h \in Promises
  BY Pairs DEF Inv, Wired, Takes, None
<1>2. dep[h] \in Promises /\ prom[dep[h]].st = "ok"
  BY <1>1 DEF Inv, Tasks, Types, TaskType
<1>3. PICK v \in Values : prom[dep[h]] = Ok(v)
  BY <1>2, OkResult
<1>4. Arg(h) = v
  BY <1>3, Results DEF Arg
<1>5. ASSUME Closed(h[1])
      PROVE  /\ dep[h] \in Handles /\ dep[h][1] = h[1] /\ Sound(dep[h], v)
             /\ kind(h[1]) = "sender" /\ h[2] = "watch" => dep[h][2] = "funded"
             /\ h[2] \in {"funded", "watch"} => Local(dep[h][2])
             /\ h[2] = "settle" => dep[h][2] = "committed"
  <2>1. /\ dep[h] \in Handles /\ dep[h][1] = h[1]
        /\ kind(h[1]) = "sender" /\ h[2] = "watch" => dep[h][2] = "funded"
        /\ h[2] \in {"funded", "watch"} => Local(dep[h][2])
        /\ h[2] = "settle" => dep[h][2] = "committed"
    BY <1>1, <1>5 DEF Inv, Wired, Takes
  <2>2. Sound(dep[h], v)
    BY <1>2, <1>3, <2>1, Results DEF Inv, Kept
  <2> QED
    BY <2>1, <2>2
<1>6. Closed(h[1]) /\ (honest \/ h[2] \in {"funded", "watch"}) => v.id = req(h[1]).id
  BY <1>5 DEF Sound
<1>7. kind(h[1]) = "sender" /\ h[2] = "watch" => v.id \in funded
  BY <1>5 DEF Sound, Closed
<1>8. Closed(h[1]) /\ h[2] = "settle" => dep[h] = <<h[1], "committed">>
  BY SMT, <1>5, Pairs
<1> QED
  BY <1>2, <1>3, <1>4, <1>6, <1>7, <1>8

-------------------------------------------------------------------------------
\* The steps by what they do to the promises and the calls.

\* A method starts stage h.
Starts(h) ==
    \E d \in Promises \cup {NoDep}, gate \in BOOLEAN :
        Spawn(h, gate, d) /\ Takes(h, d) /\ (gate => Asked(h))
\* The goroutine of stage h ends with result r; it may have asked for a quote.
Ends(h, r) ==
    /\ pc[h] \notin {None, "done"}
    /\ fulfil(h, r) /\ pc' = [pc EXCEPT ![h] = "done"]
    /\ r = Failed \/ \E v \in Values : r = Ok(v) /\ Sound(h, v)'
    /\ r # Failed /\ h[2] = "committed" => pc[h] = "call" /\ r.v.id = Arg(h).id
    /\ \A m \in sent' : m \in sent \/ ("quote" \in grant /\ \E f \in Flows :
                            m = [f |-> f, type |-> "quote", id |-> req(f).id])
    /\ wire' \subseteq wire /\ UNCHANGED <<dep, cap, late>>
\* It goes on: the argument is there, or another round of the watch begins.
Moves(h, l) ==
    /\ pc' = [pc EXCEPT ![h] = l]
    /\ \/ pc[h] = "await" /\ l = "run" /\ (dep[h] # NoDep => prom[dep[h]].st = "ok")
       \/ pc[h] = "run" /\ l = "loop" /\ (kind(h[1]) = "v4swap" => cap[h[1]].st = "live")
       \/ pc[h] = "call" /\ l = "loop"
    /\ wire' \subseteq wire /\ UNCHANGED <<prom, dep, sent, cap, late>>
\* It sends a request.
Asks(h, type) ==
    /\ pc[h] = IF type = "poll" THEN "loop" ELSE "run"
    /\ Call(h, type, Arg(h)) /\ h[2] = StageOf(type) /\ Needs(type) \in grant
    /\ type = "notify" => Closed(h[1]) \/ Arg(h).id = req(h[1]).id
    /\ type = "import" => kind(h[1]) \in {"swap", "sender"} \/ Arg(h).id = req(h[1]).id
\* A session is opened.
Opens(f) ==
    /\ cap[f].st = None
    /\ \E st \in {"refused", "live"}, bits \in SUBSET (grant \cap AuthorityPublic) :
          cap' = [cap EXCEPT ![f] = [st |-> st, bits |-> bits]]
    /\ UNCHANGED <<tasks, wire, sent, late>>
Others(s) ==
    /\ \E v \in Values : fulfil(<<Other, s>>, Ok(v))
    /\ pc' = [pc EXCEPT ![<<Other, s>>] = "done"]
    /\ UNCHANGED <<dep, wire, sent, cap, late>>
Rests == UNCHANGED <<tasks, sent, cap, late>> /\ wire' \subseteq wire

\* What D, the wallets and the contexts do meanwhile.
Grows ==
    /\ UNCHANGED fixed
    /\ funded \subseteq funded' /\ funded' \in SUBSET Intents
    /\ dphase' \in [Intents -> Phases]
    /\ \A i \in Intents : dphase[i] \in Exported => dphase'[i] = dphase[i]
    /\ ctx' \in SUBSET Flows

Normal ==
    \/ \E h \in Handles :
        \/ Starts(h) \/ \E r : Ends(h, r)
        \/ \E l \in {"run", "loop"} : Moves(h, l)
        \/ \E type \in {"notify", "poll", "import"} : Asks(h, type)
    \/ \E f \in Flows : Opens(f) \/ Revoke(f)
    \/ \E s \in Stages : Others(s)
    \/ Rests

\* The calls of the pipelines, in program order.
LEMMA SwapFlowCalls ==
    ASSUME NEW f \in Flows, SwapFlow(f)
    PROVE  \/ \E s \in {"quote", "intent"} : Spawn(<<f, s>>, FlowGate(s), NoDep)
           \/ Spawn(<<f, "watch">>, FlowGate("watch"), <<f, "intent">>)
           \/ Spawn(<<f, "committed">>, FlowGate("committed"), <<f, "watch">>)
           \/ Spawn(<<f, "settle">>, FlowGate("settle"), <<f, "committed">>)
<1> DEFINE P == << <<"quote", None>>, <<"intent", None>>, <<"watch", "intent">>,
                   <<"committed", "watch">>, <<"settle", "committed">> >>
<1>1. PICK k \in DOMAIN P : Spawn(<<f, P[k][1]>>, FlowGate(P[k][1]),
                                  IF P[k][2] = None THEN NoDep ELSE <<f, P[k][2]>>)
  BY DEF SwapFlow, Advance
<1>2. k \in 1 .. 5
  BY SMT
<1>3. k \in {1, 2, 3, 4, 5}
  BY SMT, <1>2
<1> QED
  BY SMT, <1>1, <1>3 DEF None

LEMMA SenderFlowCalls ==
    ASSUME NEW f \in Flows, SwapFlowWithSender(f)
    PROVE  \/ \E s \in {"quote", "intent"} : Spawn(<<f, s>>, FlowGate(s), NoDep)
           \/ Spawn(<<f, "funded">>, FlowGate("funded"), <<f, "intent">>)
           \/ Spawn(<<f, "watch">>, FlowGate("watch"), <<f, "funded">>)
           \/ Spawn(<<f, "committed">>, FlowGate("committed"), <<f, "watch">>)
           \/ Spawn(<<f, "settle">>, FlowGate("settle"), <<f, "committed">>)
<1> DEFINE P == << <<"quote", None>>, <<"intent", None>>, <<"funded", "intent">>,
                   <<"watch", "funded">>, <<"committed", "watch">>,
                   <<"settle", "committed">> >>
<1>1. PICK k \in DOMAIN P : Spawn(<<f, P[k][1]>>, FlowGate(P[k][1]),
                                  IF P[k][2] = None THEN NoDep ELSE <<f, P[k][2]>>)
  BY DEF SwapFlowWithSender, Advance
<1>2. k \in 1 .. 6
  BY SMT
<1>3. k \in {1, 2, 3, 4, 5, 6}
  BY SMT, <1>2
<1> QED
  BY SMT, <1>1, <1>3 DEF None

LEMMA RunCalls ==
    ASSUME NEW f \in Flows, Run(f)
    PROVE  \/ Spawn(<<f, "quote">>, requireGrant({"quote"}), NoDep)
           \/ Spawn(<<f, "intent">>, WritePrepareIntent(f), NoDep)
           \/ Spawn(<<f, "watch">>, WriteNotifyCToDExport(f), <<f, "intent">>)
           \/ Spawn(<<f, "committed">>, TRUE, <<f, "watch">>)
           \/ Spawn(<<f, "settle">>, WritePrepareCSettlement(f), <<f, "committed">>)
<1> DEFINE P == << <<"intent", None>>, <<"watch", "intent">>, <<"committed", "watch">>,
                   <<"settle", "committed">>, <<"quote", None>> >>
           gate(s) == CASE s = "intent" -> WritePrepareIntent(f)
                        [] s = "watch" -> WriteNotifyCToDExport(f)
                        [] s = "committed" -> TRUE
                        [] s = "settle" -> WritePrepareCSettlement(f)
                        [] s = "quote" -> requireGrant({"quote"})
<1>1. PICK k \in DOMAIN P : Spawn(<<f, P[k][1]>>, gate(P[k][1]),
                                  IF P[k][2] = None THEN NoDep ELSE <<f, P[k][2]>>)
  BY DEF Run, Advance
<1>2. k \in 1 .. 5
  BY SMT
<1>3. k \in {1, 2, 3, 4, 5}
  BY SMT, <1>2
<1>4. /\ gate("intent") = WritePrepareIntent(f)
      /\ gate("watch") = WriteNotifyCToDExport(f)
      /\ gate("committed") = TRUE
      /\ gate("settle") = WritePrepareCSettlement(f)
      /\ gate("quote") = requireGrant({"quote"})
  OBVIOUS
<1> HIDE DEF gate
<1>5. \/ Spawn(<<f, "quote">>, gate("quote"), NoDep)
      \/ Spawn(<<f, "intent">>, gate("intent"), NoDep)
      \/ Spawn(<<f, "watch">>, gate("watch"), <<f, "intent">>)
      \/ Spawn(<<f, "committed">>, gate("committed"), <<f, "watch">>)
      \/ Spawn(<<f, "settle">>, gate("settle"), <<f, "committed">>)
  BY SMT, <1>1, <1>3 DEF None
<1> QED
  BY <1>4, <1>5

\* The calls of a pipeline start its stages on promises of its own.
LEMMA PipelineStarts ==
    ASSUME NEW f \in Flows, SwapFlow(f) \/ SwapFlowWithSender(f) \/ Run(f)
    PROVE  \E s \in Stages : Starts(<<f, s>>)
<1>0. ASSUME NEW s \in Stages, NEW gate \in BOOLEAN, NEW d \in Promises \cup {NoDep},
             Spawn(<<f, s>>, gate, d), Takes(<<f, s>>, d), gate => Asked(<<f, s>>)
      PROVE  \E t \in Stages : Starts(<<f, t>>)
  BY <1>0 DEF Starts
<1>1. kind(f) \in {"swap", "sender", "v4swap"}
  BY DEF SwapFlow, SwapFlowWithSender, Run
<1>2. /\ \A s \in {"quote", "intent"} : Takes(<<f, s>>, NoDep)
      /\ \A s \in Stages \ {"quote"} : Asked(<<f, s>>)
      /\ "quote" \in grant => Asked(<<f, "quote">>)
  BY <1>1, Pairs, StageNames DEF Takes, Asked
<1>3. /\ kind(f) # "sender" => Takes(<<f, "watch">>, <<f, "intent">>)
      /\ Takes(<<f, "funded">>, <<f, "intent">>)
      /\ Takes(<<f, "watch">>, <<f, "funded">>)
      /\ Takes(<<f, "committed">>, <<f, "watch">>)
      /\ Takes(<<f, "settle">>, <<f, "committed">>)
  <2>1. \A s \in Stages : /\ <<f, s>> \in Handles /\ <<f, s>> # NoDep
                           /\ <<f, s>>[1] = f /\ <<f, s>>[2] = s
    BY Pairs
  <2> QED
    BY <2>1, StageNames DEF Takes, Local
<1>4. \A s \in Stages : <<f, s>> \in Promises
  BY Pairs
<1>5. /\ \A s : FlowGate(s) \in BOOLEAN
      /\ requireGrant({"quote"}) \in BOOLEAN /\ WritePrepareIntent(f) \in BOOLEAN
      /\ WriteNotifyCToDExport(f) \in BOOLEAN /\ WritePrepareCSettlement(f) \in BOOLEAN
  BY DEF FlowGate, requireGrant, WritePrepareIntent, WriteNotifyCToDExport,
         WritePrepareCSettlement, authorizeSelf, checkGrant
<1>6. (FlowGate("quote") => "quote" \in grant) /\ (requireGrant({"quote"}) => "quote" \in grant)
  BY DEF FlowGate, requireGrant
<1>7. CASE SwapFlow(f)
  <2>1. kind(f) # "sender"
    BY <1>7 DEF SwapFlow
  <2> QED
    BY <1>0, <1>2, <1>3, <1>4, <1>5, <1>6, <1>7, <2>1, SwapFlowCalls, StageNames
<1>8. CASE SwapFlowWithSender(f)
  BY <1>0, <1>2, <1>3, <1>4, <1>5, <1>6, <1>8, SenderFlowCalls, StageNames
<1>9. CASE Run(f)
  <2>1. kind(f) # "sender"
    BY <1>9 DEF Run
  <2> QED
    BY <1>0, <1>2, <1>3, <1>4, <1>5, <1>6, <1>9, <2>1, RunCalls, StageNames
<1> QED
  BY <1>7, <1>8, <1>9

\* The methods of the other sessions take the promises their caller hands them.
LEMMA MethodStarts ==
    ASSUME NEW f \in Flows, NEW k \in {"v4route", "v4lp", "v4collect", "v4state"},
           NEW s \in Stages, NEW gate \in BOOLEAN, NEW deps, Method(f, k, s, gate, deps),
           deps \subseteq IF s \in {"quote", "intent"} THEN {NoDep}
                          ELSE IF s = "committed" THEN {<<f, "watch">>} ELSE Promises,
           gate => Asked(<<f, s>>)
    PROVE  \E t \in Stages : Starts(<<f, t>>)
<1>1. PICK d \in deps : Spawn(<<f, s>>, gate, d)
  BY DEF Method
<1>2. s = "committed" => d = <<f, "watch">>
  BY SMT
<1>3. <<f, "watch">> \in Promises /\ NoDep \notin Promises
  BY Pairs, StageNames
<1>4. d \in Promises \cup {NoDep} /\ (d = NoDep <=> s \in {"quote", "intent"})
  BY SMT, <1>3
<1>5. Takes(<<f, s>>, d)
  BY <1>2, <1>4, Pairs DEF Takes, Closed, Method
<1> QED
  BY <1>1, <1>4, <1>5 DEF Starts

LEMMA CallerStarts ==
    ASSUME Inv, NEW f \in Flows, Caller(f) PROVE \E s \in Stages : Starts(<<f, s>>)
<1>1. \A need \in SUBSET AuthorityPublic :
        /\ authorizeSelf(f, need) \in BOOLEAN /\ requireGrant(need) \in BOOLEAN
        /\ authorizeSelf(f, need) => need \subseteq grant
  <2>1. cap[f].bits \subseteq grant
    BY DEF Inv, Gated
  <2> QED
    BY <2>1 DEF authorizeSelf, checkGrant, requireGrant
<1>2. {"quote"} \in SUBSET AuthorityPublic /\ {"intent"} \in SUBSET AuthorityPublic
      /\ {"watch"} \in SUBSET AuthorityPublic /\ {"settlement"} \in SUBSET AuthorityPublic
  BY DEF AuthorityPublic
<1>3. /\ \A s \in Stages \ {"quote", "watch"} : Asked(<<f, s>>)
      /\ authorizeSelf(f, {"quote"}) => Asked(<<f, "quote">>)
      /\ authorizeSelf(f, {"intent"}) => Asked(<<f, "watch">>)
  BY <1>1, <1>2, Pairs, StageNames DEF Asked
<1>4. \A s \in Stages : Given(f, s) \subseteq Promises /\ {<<f, s>>} \subseteq Promises
  BY SMT, Pairs DEF Given
<1>5. RouteWritePrepareIntent(f) \/ RouteWriteNotify(f) \/ OnFinalExport(f)
        \/ RouteWritePrepareCSettlement(f) => \E s \in Stages : Starts(<<f, s>>)
  BY <1>1, <1>2, <1>3, <1>4, MethodStarts, StageNames
     DEF RouteWritePrepareIntent, RouteWriteNotify, OnFinalExport,
         RouteWritePrepareCSettlement
<1>6. WritePrepareCommit(f) \/ LiquidityWriteNotify(f) \/ ReadQuote(f)
        => \E s \in Stages : Starts(<<f, s>>)
  BY <1>1, <1>2, <1>3, <1>4, MethodStarts, StageNames
     DEF WritePrepareCommit, LiquidityWriteNotify, ReadQuote
<1>7. WriteRequest(f) \/ WriteNotify(f) \/ CollectOnExportReady(f)
        \/ CollectWritePrepareCSettlement(f) => \E s \in Stages : Starts(<<f, s>>)
  BY ZenonT(60), <1>1, <1>2, <1>3, <1>4, MethodStarts, StageNames
     DEF WriteRequest, WriteNotify, CollectOnExportReady, CollectWritePrepareCSettlement
<1> QED
  BY <1>5, <1>6, <1>7, PipelineStarts DEF Caller

-------------------------------------------------------------------------------
\* What a result must satisfy after the step that delivers it.
LEMMA SoundAfter ==
    ASSUME UNCHANGED fixed, NEW h, NEW v,
           Closed(h[1]) /\ (honest \/ Local(h[2])) => v.id = req(h[1]).id,
           honest /\ h[2] = "committed" => v.id = v.tx /\ dphase'[v.tx] \in Exported,
           h[2] = "funded" => v.id \in funded'
    PROVE  Sound(h, v)'
<1>1. honest' => honest
  BY SMT DEF fixed
<1> QED
  BY <1>1 DEF Sound, Closed, kind, req, fixed

LEMMA ResolveEnds ==
    ASSUME NEW h \in Handles, pc[h] \notin {None, "done"}, NEW r, Resolve(h, r),
           r = Failed \/ \E v \in Values : r = Ok(v) /\ Sound(h, v)',
           r # Failed /\ h[2] = "committed" => pc[h] = "call" /\ r.v.id = Arg(h).id,
           wire' \subseteq wire
    PROVE  Ends(h, r)
  BY DEF Resolve, Ends

\* The server answers: the goroutine ends, polls again, or does not hear of it.
LEMMA AnswerStep ==
    ASSUME Inv, NEW m \in wire, NEW a, Answer(m, a),
           \/ a \in {Pending, Lost, Failed}
           \/ \E v \in Values : /\ a = Ok(v) /\ Sound(m.h, v)'
                                /\ m.h[2] = "committed" => v.id = Arg(m.h).id
    PROVE  Rests \/ Moves(m.h, "loop") \/ Ends(m.h, a)
<1>1. m.h \in Handles /\ wire' \subseteq wire
  BY DEF Inv, Types, CallType, Message, Answer
<1>2. CASE pc[m.h] = "call" /\ a = Pending
  BY <1>1, <1>2, Results DEF Answer, Goto, Moves
<1>3. CASE pc[m.h] = "call" /\ a # Lost /\ a # Pending
  BY <1>1, <1>3, ResolveEnds, Results DEF Answer, None
<1>4. CASE pc[m.h] # "call" \/ a = Lost
  BY <1>1, <1>4 DEF Answer, Rests, tasks
<1> QED
  BY <1>2, <1>3, <1>4

\* A request on the wire.
LEMMA OnTheWire ==
    ASSUME Inv, NEW m \in wire
    PROVE  /\ m.h \in Handles /\ m.v \in Values /\ m.h[2] = StageOf(m.type)
           /\ Closed(m.h[1]) /\ (honest \/ m.type = "notify") => m.v.id = req(m.h[1]).id
           /\ m.type = "poll" => m.v = Arg(m.h)
  BY DEF Inv, Types, CallType, Message, OnWire

LEMMA ServerStep ==
    ASSUME Inv, NEW m \in wire, ServeNotify(m) \/ ServePoll(m) \/ ServeImport(m)
    PROVE  Normal
<1>0. UNCHANGED fixed
  <2>1. ASSUME NEW a, Answer(m, a) PROVE UNCHANGED fixed
    BY <2>1 DEF Answer, Goto, Resolve
  <2> QED
    BY <2>1 DEF ServeNotify, ServePoll, ServeImport
<1>1. ASSUME NEW a, Answer(m, a),
             \/ a \in {Pending, Lost, Failed}
             \/ \E v \in Values : /\ a = Ok(v) /\ Sound(m.h, v)'
                                  /\ m.h[2] = "committed" => v.id = Arg(m.h).id
      PROVE  Normal
  BY <1>1, AnswerStep, OnTheWire DEF Normal
<1>2. CASE ServeNotify(m)
  <2>1. m.h[2] = "watch" /\ m.type = "notify"
    BY <1>2, OnTheWire DEF ServeNotify, StageOf
  <2>2. ASSUME NEW i \in Watched(m)
        PROVE  [m.v EXCEPT !.id = i] \in Values /\ Sound(m.h, [m.v EXCEPT !.id = i])'
    <3>1. i \in Intents /\ (honest => i = m.v.id)
      BY OnTheWire, ValueType DEF Watched
    <3>2. PICK v \in Values : v = [m.v EXCEPT !.id = i] /\ v.id = i
      BY <3>1, OnTheWire, ValueType
    <3>3. Closed(m.h[1]) /\ (honest \/ Local(m.h[2])) => v.id = req(m.h[1]).id
      BY <2>1, <3>1, <3>2, OnTheWire DEF Local
    <3>4. Sound(m.h, v)'
      BY <1>0, <2>1, <3>3, SoundAfter
    <3> QED
      BY <3>2, <3>4
  <2>3. PICK a \in {Ok([m.v EXCEPT !.id = i]) : i \in Watched(m)} \cup {Lost} : Answer(m, a)
    BY <1>2 DEF ServeNotify
  <2> QED
    BY <1>1, <2>1, <2>2, <2>3
<1>3. CASE ServePoll(m)
  <2>1. PICK i \in Intents : i = m.v.id /\ i = Arg(m.h).id
    BY <1>3, OnTheWire, ValueType DEF ServePoll
  <2>2. m.h[2] = "committed" /\ dphase' = dphase
    BY <1>3, OnTheWire DEF ServePoll, StageOf
  <2>3. PICK s \in Reports(i) : Answer(m, readStatus(m.h[1], i, s))
    BY <1>3, <2>1 DEF ServePoll
  <2>4. /\ s.tx \in Intents \cup {None}
        /\ honest => s.phase \notin Exported \/ (s.tx = i /\ dphase[i] \in Exported)
    BY SMT, <2>1 DEF Reports, Status, Exported
  <2>5. PICK v \in Values : v = Value(i, s.tx, FALSE) /\ v.id = i /\ v.tx = s.tx
    BY <2>4, ValueType
  <2>6. \/ readStatus(m.h[1], i, s) \in {Failed, Pending}
        \/ s.phase \in Exported /\ readStatus(m.h[1], i, s) = Ok(v)
    BY <2>5 DEF readStatus, Exported
  <2>7. ASSUME s.phase \in Exported PROVE Sound(m.h, v)'
    <3>1. Closed(m.h[1]) /\ (honest \/ Local(m.h[2])) => v.id = req(m.h[1]).id
      BY <2>1, <2>2, <2>5, OnTheWire DEF Local
    <3>2. honest => v.id = v.tx /\ dphase'[v.tx] \in Exported
      BY <2>2, <2>4, <2>5, <2>7
    <3> QED
      BY <1>0, <2>2, <3>1, <3>2, SoundAfter
  <2> QED
    BY <1>1, <2>1, <2>3, <2>5, <2>6, <2>7
<1>4. CASE ServeImport(m)
  <2>1. PICK d \in BOOLEAN : Answer(m, Ok([m.v EXCEPT !.data = d]))
    BY <1>4 DEF ServeImport
  <2>2. Sound(m.h, [m.v EXCEPT !.data = d])'
    <3>1. m.h[2] = "settle"
      BY <1>4, OnTheWire DEF ServeImport, StageOf
    <3>2. [m.v EXCEPT !.data = d].id = m.v.id
      BY OnTheWire, ValueType
    <3> QED
      BY <1>0, <3>1, <3>2, OnTheWire, SoundAfter DEF Local
  <2>3. m.h[2] # "committed"
    BY <1>4, OnTheWire DEF ServeImport, StageOf
  <2> QED
    BY <1>1, <2>1, <2>2, <2>3, OnTheWire, ValueType
<1> QED
  BY <1>2, <1>3, <1>4

\* The goroutines that await or lose a call.
LEMMA AwaitStep ==
    ASSUME Inv, NEW h \in Handles, thenAsync(h) \/ CallFails(h) PROVE Normal
<1>1. CASE CallFails(h)
  <2>1. Ends(h, Failed)
    BY <1>1, ResolveEnds DEF CallFails, None
  <2> QED
    BY <2>1 DEF Normal
<1>2. CASE thenAsync(h)
  <2>1. PICK r \in Await(dep[h], h[1]) :
            IF r = Failed THEN Resolve(h, r) ELSE Goto(h, "run")
    BY <1>2 DEF thenAsync
  <2>2. pc[h] = "await" /\ wire' \subseteq wire
    BY <1>2 DEF thenAsync, Quiet
  <2>3. CASE r = Failed
    BY <2>1, <2>2, <2>3, ResolveEnds DEF Normal, None
  <2>4. CASE r # Failed
    <3>1. prom[dep[h]].st # "pending" /\ prom[dep[h]] # Failed
      BY <2>4 DEF Await
    <3>2. dep[h] # NoDep => prom[dep[h]].st = "ok"
      <4>1. dep[h] \in Promises \cup {NoDep} /\ PromType
        BY Pairs DEF Inv, Types, TaskType
      <4> QED
        BY <3>1, <4>1, Results DEF PromType
    <3>3. Moves(h, "run")
      BY <2>1, <2>2, <2>4, <3>2 DEF Moves, Goto
    <3> QED
      BY <3>3 DEF Normal
  <2> QED
    BY <2>3, <2>4
<1> QED
  BY <1>1, <1>2

\* The stages that do not wait for the server.
LEMMA LocalStep ==
    ASSUME Inv, NEW f \in Flows,
           Quote(f) \/ prepareLocal(f) \/ prepareRouteLocal(f) \/ Fund(f)
    PROVE  Normal
<1>0. UNCHANGED fixed /\ req(f).id \in Intents /\ wire' \subseteq wire
  <2>1. Quote(f) \/ prepareLocal(f) => UNCHANGED fixed /\ wire' \subseteq wire
    BY DEF Quote, prepareLocal, Quiet
  <2>2. Fund(f) \/ prepareRouteLocal(f) => UNCHANGED fixed /\ wire' \subseteq wire
    BY DEF Fund, prepareRouteLocal, Quiet, Resolve
  <2> QED
    BY <2>1, <2>2, RequestIds DEF Inv, Types, WorldType
<1>1. PICK w \in Values : w = Value(req(f).id, None, FALSE) /\ w.id = req(f).id
  BY ZenonT(60), <1>0, ValueType
<1>10. \A s \in {"quote", "intent"} : Sound(<<f, s>>, w)'
  <2>1. \A s \in {"quote", "intent"} : <<f, s>>[1] = f /\ <<f, s>>[2] = s
    BY StageNames, Pairs
  <2> QED
    BY <1>0, <1>1, <2>1, SoundAfter
<1>2. <<f, "quote">> \in Handles /\ <<f, "intent">> \in Handles /\ <<f, "funded">> \in Handles
  BY Pairs, StageNames
<1>3. CASE Quote(f)
  <2>1. PICK r \in {Ok(w), Failed} : fulfil(<<f, "quote">>, r)
    BY <1>1, <1>3 DEF Quote
  <2>2. "quote" \in grant
    <3>1. PICK h \in Handles : h = <<f, "quote">> /\ h[2] = "quote" /\ pc[h] = "run"
      BY <1>2, <1>3, Pairs, StageNames DEF Quote, At
    <3> QED
      BY <3>1 DEF None, Inv, Gated, Asked
  <2>3. Ends(<<f, "quote">>, r)
    BY <1>0, <1>10, <1>3, <2>1, <2>2 DEF Quote, At, None, Ends
  <2> QED
    BY <1>2, <2>3 DEF Normal
<1>4. CASE prepareLocal(f)
  <2>1. PICK r \in {Ok(w), Failed} : fulfil(<<f, "intent">>, r)
    BY <1>1, <1>4 DEF prepareLocal
  <2>2. Ends(<<f, "intent">>, r)
    BY <1>0, <1>10, <1>4, <2>1 DEF prepareLocal, At, None, Ends, requireGrant
  <2> QED
    BY <1>2, <2>2 DEF Normal
<1>5. CASE prepareRouteLocal(f)
  <2>1. PICK r \in {Ok(w), Failed} : Resolve(<<f, "intent">>, r)
    BY <1>1, <1>5 DEF prepareRouteLocal
  <2>2. Ends(<<f, "intent">>, r)
    BY <1>0, <1>10, <1>2, <1>5, <2>1, ResolveEnds DEF prepareRouteLocal, At, None
  <2> QED
    BY <1>2, <2>2 DEF Normal
<1>6. CASE Fund(f)
  <2> DEFINE h == <<f, "funded">>
  <2>1. pc[h] = "run" /\ h \in Handles /\ h[1] = f /\ h[2] = "funded"
    BY <1>2, <1>6, Pairs, StageNames DEF Fund, At
  <2>2. PICK v \in Values : v = Arg(h) /\ (Closed(f) => v.id = req(f).id)
    BY <2>1, Handed
  <2>3. CASE Resolve(h, Failed)
    BY <1>0, <2>1, <2>3, ResolveEnds DEF Normal, None
  <2>4. CASE ~Resolve(h, Failed)
    <3>1. /\ funded' = funded \cup {v.id} /\ fulfil(h, Ok(v))
          /\ pc' = [pc EXCEPT ![h] = "done"] /\ UNCHANGED <<dep, sent, cap, late>>
      BY <1>6, <2>2, <2>4 DEF Fund
    <3> HIDE DEF h
    <3>2. Sound(h, v)'
      BY <1>0, <2>1, <2>2, <3>1, SoundAfter
    <3>3. Ends(h, Ok(v))
      BY <1>0, <2>1, <3>1, <3>2 DEF Ends, None
    <3> QED
      BY <2>1, <3>3 DEF Normal
  <2> QED
    BY <2>3, <2>4
<1> QED
  BY <1>3, <1>4, <1>5, <1>6

\* The stages that call the server, or fail their check.
LEMMA StageStep ==
    ASSUME Inv, NEW f \in Flows, NEW own \in BOOLEAN,
           \/ NotifyIntent(f, own) /\ (own => Closed(f) \/ inScope(f, Arg(<<f, "watch">>)))
           \/ RouteNotified(f) /\ kind(f) = "v4route"
           \/ OnCommitted(f, own) /\ (kind(f) = "v4swap" /\ own => cap[f].st = "live")
           \/ streamUntilCommitted(f, own) /\ (own => "watch" \in grant)
           \/ /\ ImportSettlement(f, own)
              /\ own => kind(f) \in {"swap", "sender"} \/ inScope(f, Arg(<<f, "settle">>))
    PROVE  Normal
<1>0. \A s \in Stages : <<f, s>> \in Handles /\ <<f, s>>[1] = f /\ <<f, s>>[2] = s
  BY Pairs
<1>1. ASSUME NEW h \in Handles, pc[h] \in {"run", "loop"}, Resolve(h, Failed), Quiet
      PROVE  Normal
  <2>1. Ends(h, Failed)
    BY <1>1, ResolveEnds DEF Quiet, None
  <2> QED
    BY <2>1 DEF Normal
<1>2. ASSUME NEW h \in Handles, NEW type \in {"notify", "poll", "import"}, Asks(h, type)
      PROVE  Normal
  BY <1>2 DEF Normal
<1>3. CASE NotifyIntent(f, own) /\ (own => Closed(f) \/ inScope(f, Arg(<<f, "watch">>)))
  <2>1. CASE own /\ requireGrant({"intent"})
    <3>1. "intent" \in grant /\ Call(<<f, "watch">>, "notify", Arg(<<f, "watch">>))
      BY <1>3, <2>1 DEF NotifyIntent, requireGrant
    <3>2. Asks(<<f, "watch">>, "notify")
      BY <1>0, <1>3, <2>1, <3>1, StageNames
         DEF Asks, NotifyIntent, At, StageOf, Needs, inScope
    <3> QED
      BY <1>0, <1>2, <3>2, StageNames
  <2>2. CASE ~(own /\ requireGrant({"intent"}))
    BY <1>0, <1>1, <1>3, <2>2, StageNames DEF NotifyIntent, At
  <2> QED
    BY <2>1, <2>2
<1>4. CASE RouteNotified(f) /\ kind(f) = "v4route"
  <2>1. CASE inScope(f, Arg(<<f, "watch">>))
    <3>1. "intent" \in grant
      BY <1>0, <1>4, StageNames DEF RouteNotified, At, None, Inv, Gated, Asked
    <3>2. Asks(<<f, "watch">>, "notify")
      BY <1>0, <1>4, <2>1, <3>1, StageNames
         DEF Asks, RouteNotified, At, StageOf, Needs, inScope
    <3> QED
      BY <1>0, <1>2, <3>2, StageNames
  <2>2. CASE ~inScope(f, Arg(<<f, "watch">>))
    BY <1>0, <1>1, <1>4, <2>2, StageNames DEF RouteNotified, At
  <2> QED
    BY <2>1, <2>2
<1>5. CASE OnCommitted(f, own) /\ (kind(f) = "v4swap" /\ own => cap[f].st = "live")
  <2>1. CASE own /\ requireGrant({"watch"})
    <3>1. Moves(<<f, "committed">>, "loop")
      BY <1>0, <1>5, <2>1, StageNames DEF OnCommitted, At, Goto, Moves, Quiet
    <3> QED
      BY <1>0, <3>1, StageNames DEF Normal
  <2>2. CASE ~(own /\ requireGrant({"watch"}))
    BY <1>0, <1>1, <1>5, <2>2, StageNames DEF OnCommitted, At
  <2> QED
    BY <2>1, <2>2
<1>6. CASE streamUntilCommitted(f, own) /\ (own => "watch" \in grant)
  <2>1. CASE f \notin ctx /\ own
    <3>1. Asks(<<f, "committed">>, "poll")
      BY <1>0, <1>6, <2>1, StageNames DEF Asks, streamUntilCommitted, At, StageOf, Needs
    <3> QED
      BY <1>0, <1>2, <3>1, StageNames
  <2>2. CASE ~(f \notin ctx /\ own)
    BY <1>0, <1>1, <1>6, <2>2, StageNames DEF streamUntilCommitted, At
  <2> QED
    BY <2>1, <2>2
<1>7. CASE /\ ImportSettlement(f, own)
           /\ own => kind(f) \in {"swap", "sender"} \/ inScope(f, Arg(<<f, "settle">>))
  <2>1. CASE own /\ requireGrant({"settlement"})
    <3>1. "settlement" \in grant /\ Call(<<f, "settle">>, "import", Arg(<<f, "settle">>))
      BY <1>7, <2>1 DEF ImportSettlement, requireGrant
    <3>2. Asks(<<f, "settle">>, "import")
      BY <1>0, <1>7, <2>1, <3>1, StageNames
         DEF Asks, ImportSettlement, At, StageOf, Needs, inScope
    <3> QED
      BY <1>0, <1>2, <3>2, StageNames
  <2>2. CASE ~(own /\ requireGrant({"settlement"}))
    BY <1>0, <1>1, <1>7, <2>2, StageNames DEF ImportSettlement, At
  <2> QED
    BY <2>1, <2>2
<1> QED
  BY <1>3, <1>4, <1>5, <1>6, <1>7

\* The capability checks as they are made: a poll of a route asks the grant table,
\* whose entries are within the grant.
LEMMA Checks ==
    ASSUME Inv, NEW f \in Flows
    PROVE  /\ PollGate \in BOOLEAN /\ (PollGate => "watch" \in grant)
           /\ RoutePollGate(f) \in BOOLEAN /\ (RoutePollGate(f) => "watch" \in grant)
           /\ OnExportReady(f) \in BOOLEAN /\ (OnExportReady(f) => cap[f].st = "live")
           /\ \A v : inScope(f, v) \in BOOLEAN
<1>1. cap[f].bits \subseteq grant
  BY DEF Inv, Gated
<1> QED
  BY <1>1 DEF PollGate, RoutePollGate, OnExportReady, requireGrant, authorizeSelf,
              checkGrant, inScope

\* The goroutines of the pipelines and of the scoped sessions.
LEMMA GoroutineStep == ASSUME Inv, NEW f \in Flows, Flow(f) \/ Stage(f) PROVE Normal
<1>1. CASE Flow(f)
  <2>2. CASE SwapFlow(f) \/ SwapFlowWithSender(f)
    BY <2>2, PipelineStarts, Pairs DEF Normal
  <2>3. CASE ~(SwapFlow(f) \/ SwapFlowWithSender(f))
    <3>1. kind(f) \in {"swap", "sender"}
      BY <1>1, <2>3 DEF Flow
    <3>2. Closed(f) /\ kind(f) # "v4swap"
      BY <3>1 DEF Closed
    <3> QED
      BY <1>1, <2>3, <3>1, <3>2, LocalStep, StageStep, Checks DEF Flow
  <2> QED
    BY <2>2, <2>3
<1>2. CASE Stage(f)
  BY <1>2, LocalStep, StageStep, Checks DEF Stage, streamUntilFinal
<1> QED
  BY <1>1, <1>2

\* Open and Close.
LEMMA CapStep == ASSUME Inv, NEW f \in Flows, Open(f) \/ Close(f) PROVE Normal
<1>1. CASE Close(f)
  BY <1>1 DEF Close, Normal
<1>2. ASSUME NEW bits \in SUBSET AuthorityPublic, NEW refused \in BOOLEAN,
             mint(f, bits, refused)
      PROVE  Opens(f)
  <2>1. /\ cap \in [Flows -> [st : {None, "refused", "live", "revoked"},
                              bits : SUBSET AuthorityPublic]]
        /\ cap[f].bits \subseteq grant
    BY DEF Inv, Types, WorldType, Gated
  <2>2. cap[f].st = None /\ UNCHANGED <<tasks, wire, sent, late>>
    BY <1>2 DEF mint
  <2>3. CASE refused
    <3>1. cap' = [cap EXCEPT ![f] = [st |-> "refused", bits |-> cap[f].bits]]
      BY SMT, <1>2, <2>1, <2>3 DEF mint
    <3>2. cap[f].bits \in SUBSET (grant \cap AuthorityPublic)
      BY SMT, <2>1
    <3> QED
      BY <2>2, <3>1, <3>2 DEF Opens
  <2>4. CASE ~refused
    BY <1>2, <2>2, <2>4 DEF mint, issue, Opens
  <2> QED
    BY <2>3, <2>4
<1>3. CASE Open(f)
  <2>1. /\ {"intent", "watch", "settlement"} \in SUBSET AuthorityPublic
        /\ {"intent", "watch"} \in SUBSET AuthorityPublic
        /\ {"quote"} \in SUBSET AuthorityPublic
    BY DEF AuthorityPublic
  <2>2. \E bits \in SUBSET AuthorityPublic : \E refused \in BOOLEAN : mint(f, bits, refused)
    BY <1>3, <2>1
       DEF Open, OpenSwap, OpenRoute, OpenModifyLiquidity, openRemoval, OpenState
  <2>3. PICK bits \in SUBSET AuthorityPublic, refused \in BOOLEAN : mint(f, bits, refused)
    BY <2>2 DEF mint
  <2> QED
    BY <1>2, <2>3 DEF Normal
<1> QED
  BY <1>1, <1>3

\* The environment.
LEMMA EnvironmentStep == ASSUME Inv, Environment \/ UNCHANGED vars PROVE Normal
<1>1. ASSUME NEW s \in Stages, OtherResolves(s) PROVE Normal
  <2>1. PICK i \in Intents : Resolve(<<Other, s>>, Ok(Value(i, i, FALSE))) /\ Quiet
    BY <1>1 DEF OtherResolves
  <2>2. Value(i, i, FALSE) \in Values
    BY ValueType
  <2>3. Others(s)
    BY <2>1, <2>2 DEF Others, Resolve, Quiet
  <2> QED
    BY <2>3 DEF Normal
<1>2. ASSUME NEW f \in Flows, Cancel(f) \/ UserSigns(f) PROVE Rests
  BY <1>2 DEF Cancel, UserSigns, Rests
<1>3. ASSUME NEW i \in Intents, DBlock(i) PROVE Rests
  BY <1>3 DEF DBlock, Rests
<1>4. UNCHANGED vars => Rests
  BY DEF vars, Rests
<1> QED
  BY <1>1, <1>2, <1>3, <1>4 DEF Environment, Normal

LEMMA NormalStep == ASSUME Inv, [Next]_vars PROVE Normal
<1>1. CASE Goroutines
  BY <1>1, AwaitStep, LocalStep, ServerStep DEF Goroutines
<1>2. ASSUME NEW f \in Flows, Caller(f) PROVE Normal
  BY <1>2, CallerStarts, Pairs DEF Normal
<1> QED
  BY <1>1, <1>2, GoroutineStep, CapStep, EnvironmentStep DEF Next

\* What is funded stays funded, and what D committed stays committed.
LEMMA GrowsStep == ASSUME Inv, [Next]_vars PROVE Grows
<1> DEFINE Same == UNCHANGED <<flow, grant, honest, funded, dphase>> /\ ctx' = ctx
<1>0. funded \in SUBSET Intents /\ dphase \in [Intents -> Phases] /\ ctx \in SUBSET Flows
  BY DEF Inv, Types, WorldType
<1>1. Same => Grows
  BY <1>0 DEF Grows, fixed
<1>2. /\ \A h, gate, d : Spawn(h, gate, d) => Same
      /\ \A h, r : Resolve(h, r) /\ Quiet => Same
      /\ \A h, l : Goto(h, l) /\ Quiet => Same
      /\ \A h, type, v : Call(h, type, v) => Same
  <2>1. \A h, gate, d : Spawn(h, gate, d) => Same
    BY DEF Spawn, Quiet, fixed
  <2>2. \A h, r : Resolve(h, r) /\ Quiet => Same
    BY DEF Resolve, Quiet, fixed
  <2>3. \A h, l : Goto(h, l) /\ Quiet => Same
    BY DEF Goto, Quiet, fixed
  <2>4. \A h, type, v : Call(h, type, v) => Same
    BY DEF Call, fixed, dchain
  <2> QED
    BY <2>1, <2>2, <2>3, <2>4
<1>3. ASSUME NEW f \in Flows, Caller(f) \/ SwapFlow(f) \/ SwapFlowWithSender(f) PROVE Same
  <2>1. PICK s : Starts(<<f, s>>)
    BY <1>3, CallerStarts, PipelineStarts
  <2> QED
    BY <1>2, <2>1 DEF Starts
<1>4. ASSUME NEW f \in Flows, NEW own,
             \/ NotifyIntent(f, own) \/ RouteNotified(f) \/ OnCommitted(f, own)
             \/ streamUntilCommitted(f, own) \/ ImportSettlement(f, own)
      PROVE  Same
  <2>1. NotifyIntent(f, own) \/ RouteNotified(f) => Same
    BY <1>2 DEF NotifyIntent, RouteNotified
  <2>2. OnCommitted(f, own) \/ streamUntilCommitted(f, own) => Same
    BY <1>2 DEF OnCommitted, streamUntilCommitted
  <2>3. ImportSettlement(f, own) => Same
    BY <1>2 DEF ImportSettlement
  <2> QED
    BY <1>4, <2>1, <2>2, <2>3
<1>5. ASSUME NEW f \in Flows, Quote(f) \/ prepareLocal(f) \/ prepareRouteLocal(f) PROVE Same
  BY <1>2, <1>5 DEF Quote, prepareLocal, prepareRouteLocal, Quiet, fixed
<1>6. ASSUME NEW f \in Flows, Fund(f) PROVE Grows
  <2> DEFINE h == <<f, "funded">>
  <2>1. pc[h] = "run" /\ h \in Handles /\ h[2] = "funded"
    BY <1>6, Pairs, StageNames DEF Fund, At
  <2>2. Arg(h).id \in Intents
    BY <2>1, Handed, ValueType
  <2>3. \/ Same
        \/ /\ funded' = funded \cup {Arg(h).id}
           /\ UNCHANGED <<flow, grant, honest, dphase>> /\ ctx' = ctx
    BY <1>2, <1>6 DEF Fund, Quiet, fixed
  <2> QED
    BY <1>0, <1>1, <2>2, <2>3 DEF Grows, fixed
<1>7. ASSUME NEW f \in Flows, Flow(f) \/ Stage(f) PROVE Grows
  BY <1>1, <1>3, <1>4, <1>5, <1>6, <1>7 DEF Flow, Stage, streamUntilFinal
<1>8. ASSUME NEW f \in Flows, Open(f) \/ Close(f) PROVE Same
  <2>1. \A bits, refused : mint(f, bits, refused) => Same
    BY DEF mint, fixed, dchain
  <2>2. Close(f) => Same
    BY DEF Close, Revoke, fixed, dchain
  <2> QED
    BY <1>8, <2>1, <2>2
       DEF Open, OpenSwap, OpenRoute, OpenModifyLiquidity, openRemoval, OpenState
<1>9. ASSUME NEW m \in wire, ServeNotify(m) \/ ServePoll(m) \/ ServeImport(m) PROVE Grows
  <2>1. \A a : Answer(m, a) => UNCHANGED <<flow, grant, honest, funded>> /\ ctx' = ctx
    BY DEF Answer, Goto, Resolve, fixed
  <2>2. UNCHANGED <<flow, grant, honest, funded>> /\ ctx' = ctx
    BY <1>9, <2>1 DEF ServeNotify, ServePoll, ServeImport
  <2>3. \/ dphase' = dphase
        \/ dphase[m.v.id] = "unknown" /\ dphase' = [dphase EXCEPT ![m.v.id] = "pending"]
    BY <1>9 DEF ServeNotify, ServePoll, ServeImport
  <2> QED
    BY <1>0, <1>1, <2>2, <2>3 DEF Grows, fixed, Phases, Exported
<1>10. ASSUME NEW h \in Handles, thenAsync(h) \/ CallFails(h) PROVE Same
  BY <1>2, <1>10 DEF thenAsync, CallFails, Resolve, fixed
<1>11. ASSUME NEW f \in Flows, Cancel(f) \/ UserSigns(f) PROVE Grows
  <2>1. CASE Cancel(f)
    BY <1>0, <2>1 DEF Cancel, Grows, dchain
  <2>2. CASE UserSigns(f)
    <3>1. prom[<<f, "intent">>].v.id \in Intents
      <4>1. PICK h \in Promises : h = <<f, "intent">> /\ prom[h].st = "ok"
        BY <2>2, Pairs, StageNames DEF UserSigns
      <4>2. PICK v \in Values : prom[h] = Ok(v)
        BY <4>1, OkResult
      <4>3. prom[h].v = v /\ v.id \in Intents
        BY ZenonT(60), <4>2, Results, ValueType
      <4> QED
        BY <4>1, <4>3
    <3> QED
      BY <1>0, <2>2, <3>1 DEF UserSigns, Grows, fixed
  <2> QED
    BY <1>11, <2>1, <2>2
<1>12. ASSUME NEW i \in Intents, DBlock(i) PROVE Grows
  <2>1. PICK p \in Phases : dphase[i] \notin Exported /\ dphase' = [dphase EXCEPT ![i] = p]
    BY <1>12 DEF DBlock, Phases, Exported
  <2> QED
    BY <1>0, <1>12, <2>1 DEF DBlock, Grows
<1>13. ASSUME NEW s \in Stages, OtherResolves(s) PROVE Same
  BY <1>2, <1>13 DEF OtherResolves
<1>14. UNCHANGED vars => Same
  BY DEF vars, fixed, dchain
<1> QED
  BY <1>1, <1>3, <1>5, <1>7, <1>8, <1>9, <1>10, <1>11, <1>12, <1>13, <1>14
     DEF Next, Goroutines, Environment

-------------------------------------------------------------------------------
\* A promise is fulfilled once.
LEMMA FulfilOnce ==
    ASSUME Inv, NEW h \in Promises, NEW r, fulfil(h, r),
           r = Failed \/ \E v \in Values : r = Ok(v)
    PROVE  /\ prom' = [x \in Promises |-> prom'[x]] /\ PromType'
           /\ \A x \in Promises : x # h => prom'[x] = prom[x]
           /\ prom'[h] = IF prom[h] = Pending THEN r ELSE prom[h]
<1>1. prom = [x \in Promises |-> prom[x]] /\ PromType
  BY DEF Inv, Types, TaskType
<1>2. prom[h].st = "pending" <=> prom[h] = Pending
  BY <1>1, Results DEF PromType
<1>3. CASE prom[h] = Pending
  <2>1. prom' = [prom EXCEPT ![h] = r]
    BY <1>2, <1>3 DEF fulfil
  <2>2. /\ prom' = [x \in Promises |-> prom'[x]]
        /\ \A x \in Promises : prom'[x] = IF x = h THEN r ELSE prom[x]
    BY SMT, <1>1, <2>1
  <2>3. PromType'
    BY <1>1, <1>2, <2>2 DEF PromType
  <2> QED
    BY <1>3, <2>2, <2>3
<1>4. CASE prom[h] # Pending
  <2>1. prom' = prom
    BY <1>2, <1>4 DEF fulfil
  <2> QED
    BY <1>1, <1>4, <2>1 DEF PromType
<1> QED
  BY <1>3, <1>4

\* The effect of a step on promises, goroutines and what they wait for: at most
\* one promise moves, and a result stays.
LEMMA OneMoves ==
    ASSUME Inv, Normal
    PROVE  /\ TaskType'
           /\ \A x \in Promises : prom[x] # Pending => prom'[x] = prom[x]
           /\ \A x \in Promises : dep'[x] = dep[x] \/ (x \in Handles /\ pc[x] = None)
<1>0. /\ prom = [x \in Promises |-> prom[x]] /\ PromType /\ pc \in [Promises -> Place]
      /\ dep \in [Promises -> Promises \cup {NoDep}]
  BY DEF Inv, Types, TaskType
<1>1. ASSUME prom' = prom, dep' = dep, pc' = pc
      PROVE  /\ TaskType' /\ \A x \in Promises : prom'[x] = prom[x] /\ dep'[x] = dep[x]
  BY <1>0, <1>1 DEF TaskType, PromType
<1>2. ASSUME NEW h \in Promises, NEW r, fulfil(h, r), NEW l \in Place,
             r = Failed \/ \E v \in Values : r = Ok(v), pc' = [pc EXCEPT ![h] = l],
             dep' \in [Promises -> Promises \cup {NoDep}]
      PROVE  TaskType' /\ \A x \in Promises : prom[x] # Pending => prom'[x] = prom[x]
  <2>1. /\ prom' = [x \in Promises |-> prom'[x]] /\ PromType'
        /\ \A x \in Promises : prom[x] # Pending => prom'[x] = prom[x]
    BY <1>2, FulfilOnce
  <2>2. pc' \in [Promises -> Place]
    BY <1>0, <1>2
  <2> QED
    BY <1>2, <2>1, <2>2 DEF TaskType
<1>3. ASSUME NEW h \in Promises, NEW l \in Place, pc' = [pc EXCEPT ![h] = l], prom' = prom,
             dep' \in [Promises -> Promises \cup {NoDep}]
      PROVE  TaskType' /\ \A x \in Promises : prom'[x] = prom[x]
  <2>1. prom' = [x \in Promises |-> prom'[x]] /\ PromType'
    BY <1>0, <1>3 DEF PromType
  <2>2. pc' \in [Promises -> Place]
    BY <1>0, <1>3
  <2> QED
    BY <1>3, <2>1, <2>2 DEF TaskType
<1>4. /\ {"await", "run", "loop", "call", "done"} \subseteq Place
      /\ \A h \in Handles : h \in Promises
  BY Pairs DEF Place
<1>5. ASSUME NEW h \in Handles, Starts(h) 
      PROVE  /\ TaskType' /\ \A x \in Promises : prom[x] # Pending => prom'[x] = prom[x]
             /\ \A x \in Promises : dep'[x] = dep[x] \/ (x \in Handles /\ pc[x] = None)
  <2>1. PICK d \in Promises \cup {NoDep}, gate \in BOOLEAN : Spawn(h, gate, d)
    BY <1>5 DEF Starts
  <2>2. /\ dep' \in [Promises -> Promises \cup {NoDep}]
        /\ \A x \in Promises : dep'[x] = dep[x] \/ (x \in Handles /\ pc[x] = None)
    BY <1>0, <1>5, <2>1 DEF Spawn
  <2>3. CASE gate
    <3>1. prom' = prom /\ \E l \in {"run", "await"} : pc' = [pc EXCEPT ![h] = l]
      BY <2>1, <2>3 DEF Spawn
    <3>2. TaskType' /\ \A x \in Promises : prom'[x] = prom[x]
      BY <1>3, <1>4, <2>2, <3>1
    <3> QED
      BY <2>2, <3>2
  <2>4. CASE ~gate
    <3>1. fulfil(h, Failed) /\ pc' = [pc EXCEPT ![h] = "done"]
      BY <2>1, <2>4 DEF Spawn
    <3> QED
      BY <1>2, <1>4, <2>2, <3>1
  <2> QED
    BY <2>3, <2>4
<1>6. ASSUME NEW h \in Handles, NEW r, Ends(h, r)
      PROVE  /\ TaskType' /\ \A x \in Promises : prom[x] # Pending => prom'[x] = prom[x]
             /\ dep' = dep
  <2>1. dep' = dep /\ dep' \in [Promises -> Promises \cup {NoDep}]
    BY <1>0, <1>6 DEF Ends
  <2>2. r = Failed \/ \E v \in Values : r = Ok(v)
    BY <1>6 DEF Ends
  <2>3. fulfil(h, r) /\ pc' = [pc EXCEPT ![h] = "done"]
    BY <1>6 DEF Ends
  <2> QED
    BY <1>2, <1>4, <2>1, <2>2, <2>3
<1>7. ASSUME NEW h \in Handles,
             \/ \E l \in {"run", "loop"} : Moves(h, l)
             \/ \E type \in {"notify", "poll", "import"} : Asks(h, type)
      PROVE  /\ TaskType' /\ \A x \in Promises : prom'[x] = prom[x]
             /\ dep' = dep
  <2>1. prom' = prom /\ dep' = dep /\ \E l \in {"run", "loop", "call"} : pc' = [pc EXCEPT ![h] = l]
    BY <1>7 DEF Moves, Asks, Call
  <2>2. dep' \in [Promises -> Promises \cup {NoDep}]
    BY <1>0, <2>1
  <2> QED
    BY <1>3, <1>4, <2>1, <2>2
<1>8. ASSUME NEW s \in Stages, Others(s)
      PROVE  /\ TaskType' /\ \A x \in Promises : prom[x] # Pending => prom'[x] = prom[x]
             /\ dep' = dep
  <2>1. PICK r : fulfil(<<Other, s>>, r) /\ \E v \in Values : r = Ok(v)
    BY <1>8 DEF Others
  <2>2. dep' = dep /\ pc' = [pc EXCEPT ![<<Other, s>>] = "done"]
    BY <1>8 DEF Others
  <2>3. <<Other, s>> \in Promises /\ dep' \in [Promises -> Promises \cup {NoDep}]
    BY <1>0, <2>2, Pairs
  <2> QED
    BY <1>2, <1>4, <2>1, <2>2, <2>3
<1>9. (\E f \in Flows : Opens(f) \/ Revoke(f)) \/ Rests
        => prom' = prom /\ dep' = dep /\ pc' = pc
  BY DEF Opens, Revoke, Rests, tasks
<1> QED
  BY <1>1, <1>5, <1>6, <1>7, <1>8, <1>9 DEF Normal

\* What a step may do to one stage: nothing, start it, end it, or move it on.
StageMove(x) ==
    \/ pc'[x] = pc[x] /\ prom'[x] = prom[x] /\ dep'[x] = dep[x]
    \/ /\ pc[x] = None /\ pc'[x] \in {"run", "await", "done"} /\ Takes(x, dep'[x])
       /\ pc'[x] # "done" => prom'[x] = prom[x] /\ Asked(x)
       /\ pc'[x] = "run" => dep'[x] = NoDep
       /\ pc'[x] = "done" => prom'[x] = Failed
    \/ /\ pc[x] \notin {None, "done"} /\ pc'[x] = "done" /\ dep'[x] = dep[x]
       /\ prom'[x] = Failed \/ \E v \in Values : prom'[x] = Ok(v) /\ Sound(x, v)'
       /\ prom'[x] # Failed /\ x[2] = "committed" =>
             pc[x] = "call" /\ prom'[x].v.id = Arg(x).id
    \/ /\ prom'[x] = prom[x] /\ dep'[x] = dep[x]
       /\ \/ /\ pc[x] = "await" /\ pc'[x] = "run"
             /\ dep[x] # NoDep => prom[dep[x]].st = "ok"
          \/ /\ pc[x] = "run" /\ pc'[x] = "loop"
             /\ kind(x[1]) = "v4swap" => cap[x[1]].st = "live"
          \/ pc[x] = "call" /\ pc'[x] = "loop"
          \/ pc[x] \in {"run", "loop"} /\ pc'[x] = "call"
             /\ (pc[x] = "run" => x[2] # "committed")

LEMMA StageMoves == ASSUME Inv, Normal, NEW x \in Handles PROVE StageMove(x)
<1>0. /\ prom = [y \in Promises |-> prom[y]] /\ PromType /\ pc \in [Promises -> Place]
      /\ dep \in [Promises -> Promises \cup {NoDep}] /\ x \in Promises
      /\ \A h \in Handles : h \in Promises
      /\ pc[x] # "done" => prom[x] = Pending
  BY Pairs DEF Inv, Types, TaskType, Tasks
<1>1. ASSUME NEW h \in Handles, Starts(h) PROVE StageMove(x)
  <2>1. PICK d \in Promises \cup {NoDep}, gate \in BOOLEAN :
            Spawn(h, gate, d) /\ Takes(h, d) /\ (gate => Asked(h))
    BY <1>1 DEF Starts
  <2>2. pc[h] = None /\ dep' = [dep EXCEPT ![h] = d] /\ pc[h] # "done"
    BY <2>1 DEF Spawn, None
  <2>3. CASE gate
    <3>1. prom' = prom /\ pc' = [pc EXCEPT ![h] = IF d = NoDep THEN "run" ELSE "await"]
      BY <2>1, <2>3 DEF Spawn
    <3>2. x = h => pc'[x] \in {"run", "await"} /\ (pc'[x] = "run" => d = NoDep)
      BY <1>0, <3>1
    <3>3. dep'[x] = IF x = h THEN d ELSE dep[x]
      BY <1>0, <2>2
    <3> QED
      BY <1>0, <2>1, <2>2, <2>3, <3>1, <3>2, <3>3 DEF StageMove
  <2>4. CASE ~gate
    <3>1. fulfil(h, Failed) /\ pc' = [pc EXCEPT ![h] = "done"]
      BY <2>1, <2>4 DEF Spawn
    <3>2. prom'[x] = IF x = h THEN Failed ELSE prom[x]
      BY <1>0, <2>2, <3>1, FulfilOnce
    <3>3. dep'[x] = IF x = h THEN d ELSE dep[x]
      BY <1>0, <2>2
    <3> QED
      BY <1>0, <2>1, <2>2, <3>1, <3>2, <3>3 DEF StageMove
  <2> QED
    BY <2>3, <2>4
<1>2. ASSUME NEW h \in Handles, NEW r, Ends(h, r) PROVE StageMove(x)
  <2>1. /\ fulfil(h, r) /\ pc' = [pc EXCEPT ![h] = "done"] /\ dep' = dep
        /\ pc[h] \notin {None, "done"}
        /\ r = Failed \/ \E v \in Values : r = Ok(v) /\ Sound(h, v)'
        /\ r # Failed /\ h[2] = "committed" => pc[h] = "call" /\ r.v.id = Arg(h).id
    BY <1>2 DEF Ends
  <2>2. prom'[x] = IF x = h THEN r ELSE prom[x]
    BY <1>0, <2>1, FulfilOnce
  <2>3. pc'[x] = IF x = h THEN "done" ELSE pc[x]
    BY <1>0, <2>1
  <2> QED
    BY <2>1, <2>2, <2>3 DEF StageMove
<1>3. ASSUME NEW h \in Handles, NEW l \in {"run", "loop"}, Moves(h, l) PROVE StageMove(x)
  <2>1. pc'[x] = IF x = h THEN l ELSE pc[x]
    BY <1>0, <1>3 DEF Moves
  <2> QED
    BY <1>3, <2>1 DEF Moves, StageMove
<1>4. ASSUME NEW h \in Handles, NEW type \in {"notify", "poll", "import"}, Asks(h, type)
      PROVE  StageMove(x)
  <2>1. pc'[x] = IF x = h THEN "call" ELSE pc[x]
    BY <1>0, <1>4 DEF Asks, Call
  <2>2. pc[h] \in {"run", "loop"} /\ (pc[h] = "run" => h[2] # "committed")
    BY <1>4 DEF Asks, StageOf
  <2>3. prom' = prom /\ dep' = dep
    BY <1>4 DEF Asks, Call
  <2> QED
    BY <2>1, <2>2, <2>3 DEF StageMove
<1>5. ASSUME NEW s \in Stages, Others(s) PROVE StageMove(x)
  <2>1. PICK r : fulfil(<<Other, s>>, r) /\ \E v \in Values : r = Ok(v)
    BY <1>5 DEF Others
  <2>2. <<Other, s>> \in Promises /\ x # <<Other, s>>
    BY ZenonT(60), Pairs
  <2>3. prom'[x] = prom[x]
    BY <1>0, <2>1, <2>2, FulfilOnce
  <2>4. pc'[x] = pc[x] /\ dep' = dep
    BY <1>0, <1>5, <2>2 DEF Others
  <2> QED
    BY <2>3, <2>4 DEF StageMove
<1>6. (\E f \in Flows : Opens(f) \/ Revoke(f)) \/ Rests => StageMove(x)
  BY DEF Opens, Revoke, Rests, tasks, StageMove
<1> QED
  BY <1>1, <1>2, <1>3, <1>4, <1>5, <1>6 DEF Normal

\* What depends on the flows and the grant alone, or on what only grows.
LEMMA Stays ==
    ASSUME Grows, NEW h \in Handles
    PROVE  /\ Closed(h[1])' = Closed(h[1]) /\ req(h[1])' = req(h[1])
           /\ kind(h[1])' = kind(h[1]) /\ Asked(h)' = Asked(h)
           /\ \A d : Takes(h, d)' = Takes(h, d)
           /\ \A v \in Values : Sound(h, v) => Sound(h, v)'
<1>1. flow' = flow /\ grant' = grant /\ (honest' => honest)
  BY SMT DEF Grows, fixed
<1>2. Closed(h[1])' = Closed(h[1]) /\ req(h[1])' = req(h[1]) /\ kind(h[1])' = kind(h[1])
  BY <1>1 DEF Closed, kind, req
<1>3. Asked(h)' = Asked(h) /\ \A d : Takes(h, d)' = Takes(h, d)
  BY <1>1 DEF Asked, Takes, Closed, kind
<1>4. ASSUME NEW v \in Values, Sound(h, v) PROVE Sound(h, v)'
  <2>1. honest' /\ h[2] = "committed" => v.id = v.tx /\ dphase'[v.tx] \in Exported
    BY <1>1, <1>4, ValueType DEF Sound, Grows
  <2>2. h[2] = "funded" => v.id \in funded'
    BY <1>4 DEF Sound, Grows
  <2>3. Closed(h[1])' /\ (honest' \/ Local(h[2])) => v.id = req(h[1])'.id
    BY <1>1, <1>2, <1>4 DEF Sound
  <2> QED
    BY <2>1, <2>2, <2>3 DEF Sound
<1> QED
  BY <1>2, <1>3, <1>4

LEMMA TasksStep ==
    ASSUME Inv, Normal, Grows PROVE Tasks' /\ Wired' /\ Kept'
<1> SUFFICES ASSUME NEW h \in Handles
             PROVE  /\ pc'[h] # "done" => prom'[h] = Pending
                    /\ pc'[h] \in {"run", "loop", "call"} /\ dep'[h] # NoDep
                          => prom'[dep'[h]].st = "ok"
                    /\ pc'[h] # None => Takes(h, dep'[h])
                    /\ prom'[h].st = "ok" => Sound(h, prom[h].v)'
  <2>1. ASSUME \A h \in Handles : pc'[h] # None => Takes(h, dep'[h]) PROVE Wired'
    BY <2>1, Stays DEF Wired
  <2> QED
    BY <2>1 DEF Tasks, Kept
<1>0. /\ StageMove(h) /\ h \in Promises /\ TaskType'
      /\ pc[h] # "done" => prom[h] = Pending
      /\ pc[h] \in {"run", "loop", "call"} /\ dep[h] # NoDep => prom[dep[h]].st = "ok"
      /\ pc[h] # None => Takes(h, dep[h])
      /\ prom[h].st = "ok" => Sound(h, prom[h].v)
  BY StageMoves, OneMoves, Pairs DEF Inv, Tasks, Wired, Kept
<1>1. pc'[h] # "done" => prom'[h] = Pending
  BY <1>0 DEF StageMove, None
<1>2. pc'[h] # None => Takes(h, dep'[h])
  BY <1>0 DEF StageMove, None
<1>3. ASSUME pc'[h] \in {"run", "loop", "call"}, dep'[h] # NoDep
      PROVE  prom'[dep'[h]].st = "ok"
  <2>1. dep'[h] = dep[h] /\ prom[dep[h]].st = "ok"
    BY <1>0, <1>3 DEF StageMove, None
  <2>2. dep[h] \in Promises /\ prom[dep[h]] # Pending
    BY <1>0, <1>3, <2>1, Results DEF Inv, Types, TaskType
  <2> QED
    BY <2>1, <2>2, OneMoves
<1>4. ASSUME prom'[h].st = "ok" PROVE Sound(h, prom[h].v)'
  <2>1. CASE prom'[h] = prom[h]
    <3>1. PICK v \in Values : prom[h] = Ok(v)
      BY <1>0, <1>4, <2>1, OkResult
    <3>2. Sound(h, v) /\ prom'[h].v = v
      BY <1>0, <1>4, <2>1, <3>1, Results
    <3>3. Sound(h, v)'
      BY <3>2, Stays
    <3> QED
      BY <3>2, <3>3 DEF Sound
  <2>2. CASE prom'[h] # prom[h]
    <3>1. PICK v \in Values : prom'[h] = Ok(v) /\ Sound(h, v)'
      BY <1>0, <1>4, <2>2, Results DEF StageMove
    <3>2. prom'[h].v = v
      BY <3>1, Results
    <3> QED
      BY <3>1, <3>2 DEF Sound
  <2> QED
    BY <2>1, <2>2
<1> QED
  BY <1>1, <1>2, <1>3, <1>4

\* A value that a stage took stays.
LEMMA ArgStays ==
    ASSUME Inv, Normal, NEW h \in Handles, pc[h] # None, prom[dep[h]].st = "ok",
           h[2] = "committed"
    PROVE  pc'[h] # None /\ prom'[dep'[h]].st = "ok" /\ Arg(h)' = Arg(h)
<1>1. h \in Promises /\ dep[h] # NoDep /\ dep[h] \in Promises
  <2>1. h \in Promises /\ h[2] \notin {"quote", "intent"}
    BY Pairs
  <2>2. dep[h] # NoDep
    BY <2>1 DEF Inv, Wired, Takes
  <2> QED
    BY <2>1, <2>2 DEF Inv, Types, TaskType
<1>2. dep'[h] = dep[h] /\ prom[dep[h]] # Pending
  BY <1>1, OneMoves, Results
<1>3. prom'[dep[h]] = prom[dep[h]]
  BY <1>1, <1>2, OneMoves
<1>4. pc'[h] # None
  BY StageMoves DEF StageMove, None
<1> QED
  BY <1>2, <1>3, <1>4 DEF Arg

LEMMA BoundStep == ASSUME Inv, Normal PROVE Bound'
<1> SUFFICES ASSUME NEW h \in Handles, prom'[h].st = "ok", h[2] = "committed"
             PROVE  pc'[h] # None /\ prom'[dep'[h]].st = "ok" /\ prom'[h].v.id = Arg(h)'.id
  BY DEF Bound
<1>1. StageMove(h) /\ (pc[h] # "done" => prom[h] = Pending)
  BY StageMoves DEF Inv, Tasks
<1>2. CASE prom'[h] = prom[h]
  <2>1. pc[h] # None /\ prom[dep[h]].st = "ok" /\ prom[h].v.id = Arg(h).id
    BY <1>2 DEF Inv, Bound
  <2> QED
    BY <1>2, <2>1, ArgStays
<1>3. CASE prom'[h] # prom[h]
  <2>1. pc[h] = "call" /\ prom'[h].v.id = Arg(h).id
    BY <1>1, <1>3, Results DEF StageMove
  <2>2. pc[h] # None /\ prom[dep[h]].st = "ok"
    <3>1. dep[h] # NoDep
      BY <2>1 DEF Inv, Wired, Takes, None
    <3> QED
      BY <2>1, <3>1 DEF Inv, Tasks, None
  <2> QED
    BY <2>1, <2>2, ArgStays
<1> QED
  BY <1>2, <1>3

\* Where a request that was sent came from.
LEMMA SentFrom ==
    ASSUME Inv, Normal, NEW m \in sent'
    PROVE  \/ m \in sent
           \/ /\ "quote" \in grant
              /\ \E f \in Flows : m = [f |-> f, type |-> "quote", id |-> req(f).id]
           \/ \E h \in Handles, type \in {"notify", "poll", "import"} :
                 Asks(h, type) /\ m = [f |-> h[1], type |-> type, id |-> Arg(h).id]
<1>1. ASSUME NEW h \in Handles, Starts(h) PROVE m \in sent
  BY <1>1 DEF Starts, Spawn
<1>2. ASSUME NEW h \in Handles, NEW r, Ends(h, r)
      PROVE  \/ m \in sent
             \/ /\ "quote" \in grant
                /\ \E f \in Flows : m = [f |-> f, type |-> "quote", id |-> req(f).id]
  BY <1>2 DEF Ends
<1>3. ASSUME NEW h \in Handles, NEW l \in {"run", "loop"}, Moves(h, l) PROVE m \in sent
  BY <1>3 DEF Moves
<1>4. ASSUME NEW h \in Handles, NEW type \in {"notify", "poll", "import"}, Asks(h, type)
      PROVE  m \in sent \/ m = [f |-> h[1], type |-> type, id |-> Arg(h).id]
  BY <1>4 DEF Asks, Call
<1>5. ASSUME NEW s \in Stages, Others(s) PROVE m \in sent
  BY <1>5 DEF Others
<1>6. (\E f \in Flows : Opens(f) \/ Revoke(f)) \/ Rests => m \in sent
  BY DEF Opens, Revoke, Rests
<1> QED
  BY <1>1, <1>2, <1>3, <1>4, <1>5, <1>6 DEF Normal

\* What the arguments of a request are.
LEMMA AskedFor ==
    ASSUME Inv, NEW h \in Handles, NEW type \in {"notify", "poll", "import"}, Asks(h, type)
    PROVE  /\ h[1] \in Flows /\ h[2] = StageOf(type) /\ Arg(h) \in Values
           /\ Closed(h[1]) /\ (honest \/ type = "notify") => Arg(h).id = req(h[1]).id
           /\ type = "notify" => Arg(h).id = req(h[1]).id
           /\ type = "import" /\ (honest \/ kind(h[1]) \notin {"swap", "sender"}) =>
                 Arg(h).id = req(h[1]).id
           /\ type = "notify" /\ kind(h[1]) = "sender" => Arg(h).id \in funded
           /\ type = "import" /\ Closed(h[1]) => prom[<<h[1], "committed">>].st = "ok"
           /\ Needs(type) \in grant
           /\ type = "poll" => pc[h] = "loop" /\ prom[dep[h]].st = "ok"
<1>1. h[2] = StageOf(type) /\ h[2] \notin {"quote", "intent"} /\ h[1] \in Flows
      /\ pc[h] \in {"run", "loop", "call"} /\ Needs(type) \in grant
      /\ (type = "poll" => pc[h] = "loop")
      /\ (type = "notify" => Closed(h[1]) \/ Arg(h).id = req(h[1]).id)
      /\ (type = "import" => kind(h[1]) \in {"swap", "sender"} \/ Arg(h).id = req(h[1]).id)
  BY Pairs DEF Asks, StageOf
<1>2. (type = "notify" => h[2] = "watch") /\ (type = "import" => h[2] = "settle")
  BY <1>1 DEF StageOf
<1>3. /\ Arg(h) \in Values
      /\ Closed(h[1]) /\ (honest \/ h[2] \in {"funded", "watch"}) =>
            Arg(h).id = req(h[1]).id
      /\ kind(h[1]) = "sender" /\ h[2] = "watch" => Arg(h).id \in funded
      /\ Closed(h[1]) /\ h[2] = "settle" => prom[<<h[1], "committed">>].st = "ok"
  BY <1>1, Handed
<1>4. type = "poll" => prom[dep[h]].st = "ok"
  <2>1. type = "poll" => h[2] = "committed" /\ dep[h] # NoDep
    BY <1>1 DEF StageOf, Inv, Wired, Takes, None
  <2> QED
    BY <1>1, <2>1 DEF Inv, Tasks
<1>5. kind(h[1]) \in {"swap", "sender"} => Closed(h[1])
  BY DEF Closed
<1> QED
  BY <1>1, <1>2, <1>3, <1>4, <1>5

LEMMA CallsStep ==
    ASSUME Inv, Normal, Grows PROVE sent' \subseteq Request /\ Calls'
<1>0. /\ flow' = flow /\ grant' = grant /\ flow \in Setups /\ funded \subseteq funded'
      /\ sent \subseteq Request
      /\ \A f : req(f)' = req(f) /\ kind(f)' = kind(f)
  BY DEF Grows, fixed, Inv, Types, WorldType, CallType, req, kind
<1>00. honest' => honest
  BY SMT DEF Grows, fixed
<1> DEFINE Scoped(m) == m.type = "import" /\ (honest \/ kind(m.f) \notin {"swap", "sender"})
<1> SUFFICES ASSUME NEW m \in sent'
             PROVE  /\ m \in Request
                    /\ m.type = "notify" \/ Scoped(m) => m.id = req(m.f).id
                    /\ Needs(m.type) \in grant
                    /\ m.type = "notify" /\ kind(m.f) = "sender" => m.id \in funded'
  BY <1>0, <1>00 DEF Calls, ScopedCalls, WithinGrant, NotifiedIsFunded
<1>1. CASE m \in sent
  BY <1>0, <1>1 DEF Inv, Calls, ScopedCalls, WithinGrant, NotifiedIsFunded
<1>2. ASSUME "quote" \in grant,
             NEW f \in Flows, m = [f |-> f, type |-> "quote", id |-> req(f).id]
      PROVE  /\ m \in Request /\ m.type = "quote" /\ Needs(m.type) \in grant
  <2>1. req(f).id \in Intents
    BY <1>0, RequestIds
  <2>2. m \in Request /\ m.type = "quote"
    BY SMT, <1>2, <2>1 DEF Request
  <2> QED
    BY <1>2, <2>2 DEF Needs
<1>3. ASSUME NEW h \in Handles, NEW type \in {"notify", "poll", "import"}, Asks(h, type),
             m = [f |-> h[1], type |-> type, id |-> Arg(h).id]
      PROVE  /\ m \in Request
             /\ m.type = "notify" \/ Scoped(m) => m.id = req(m.f).id
             /\ Needs(m.type) \in grant
             /\ m.type = "notify" /\ kind(m.f) = "sender" => m.id \in funded'
  <2>1. m.f = h[1] /\ m.type = type /\ m.id = Arg(h).id
    BY SMT, <1>3
  <2>2. h[1] \in Flows /\ Arg(h).id \in Intents
    BY ZenonT(60), <1>3, AskedFor, ValueType
  <2>3. m \in Request
    BY SMT, <1>3, <2>2 DEF Request
  <2>4. /\ type = "notify" => Arg(h).id = req(h[1]).id
        /\ type = "import" /\ (honest \/ kind(h[1]) \notin {"swap", "sender"}) =>
              Arg(h).id = req(h[1]).id
        /\ Needs(type) \in grant
        /\ type = "notify" /\ kind(h[1]) = "sender" => Arg(h).id \in funded
    BY <1>3, AskedFor
  <2> QED
    BY <1>0, <2>1, <2>3, <2>4
<1> QED
  BY ZenonT(60), <1>1, <1>2, <1>3, SentFrom

LEMMA WireStep ==
    ASSUME Inv, Normal, Grows
    PROVE  /\ wire' \subseteq Message /\ \A m \in wire' : m.h[2] = StageOf(m.type)
           /\ OnWire'
<1>0. \A f : Closed(f)' = Closed(f) /\ req(f)' = req(f)
  BY DEF Grows, fixed, Closed, req, kind
<1>00. honest' => honest
  BY SMT DEF Grows, fixed
<1> DEFINE Scoped(m) == Closed(m.h[1]) /\ (honest \/ m.type = "notify")
           Polls(m) == pc[m.h] # None /\ prom[dep[m.h]].st = "ok" /\ m.v = Arg(m.h)
<1>01. ASSUME NEW m \in Message, m.h[2] = StageOf(m.type), m.type = "poll", Polls(m)
       PROVE  pc'[m.h] # None /\ prom'[dep'[m.h]].st = "ok" /\ m.v = Arg(m.h)'
  <2>1. m.h \in Handles /\ m.h[2] = "committed"
    BY <1>01 DEF Message, StageOf
  <2> QED
    BY <1>01, <2>1, ArgStays
<1> SUFFICES ASSUME NEW m \in wire'
             PROVE  /\ m \in Message /\ m.h[2] = StageOf(m.type)
                    /\ Scoped(m) => m.v.id = req(m.h[1]).id
                    /\ m.type = "poll" => Polls(m)
  BY <1>0, <1>00, <1>01 DEF OnWire
<1>1. CASE m \in wire
  BY <1>1 DEF Inv, Types, CallType, OnWire
<1>2. ASSUME NEW h \in Handles, NEW type \in {"notify", "poll", "import"}, Asks(h, type),
             m = [h |-> h, type |-> type, v |-> Arg(h)]
      PROVE  /\ m \in Message /\ m.h[2] = StageOf(m.type)
             /\ Scoped(m) => m.v.id = req(m.h[1]).id
             /\ m.type = "poll" => Polls(m)
  <2>1. m.h = h /\ m.type = type /\ m.v = Arg(h)
    BY SMT, <1>2
  <2>2. Arg(h) \in Values
    BY <1>2, AskedFor
  <2>3. m \in Message
    BY SMT, <1>2, <2>2 DEF Message
  <2>4. /\ h[2] = StageOf(type)
        /\ Closed(h[1]) /\ (honest \/ type = "notify") => Arg(h).id = req(h[1]).id
        /\ type = "poll" => pc[h] # None /\ prom[dep[h]].st = "ok"
    BY <1>2, AskedFor DEF None
  <2> QED
    BY <2>1, <2>3, <2>4
<1>3. ASSUME NEW h \in Handles, NEW type \in {"notify", "poll", "import"}, Asks(h, type)
      PROVE  m \in wire \/ m = [h |-> h, type |-> type, v |-> Arg(h)]
  BY <1>3 DEF Asks, Call
<1>4. ASSUME NEW h \in Handles, Starts(h) PROVE m \in wire
  BY <1>4 DEF Starts, Spawn, Quiet
<1>5. ASSUME NEW h \in Handles, NEW r, Ends(h, r) PROVE m \in wire
  BY <1>5 DEF Ends
<1>6. ASSUME NEW h \in Handles, NEW l \in {"run", "loop"}, Moves(h, l) PROVE m \in wire
  BY <1>6 DEF Moves
<1>7. ASSUME NEW s \in Stages, Others(s) PROVE m \in wire
  BY <1>7 DEF Others
<1>8. (\E f \in Flows : Opens(f) \/ Revoke(f)) \/ Rests => m \in wire
  BY DEF Opens, Revoke, Rests
<1> QED
  BY <1>1, <1>2, <1>3, <1>4, <1>5, <1>6, <1>7, <1>8 DEF Normal

\* What a step does to the capability of one session.
LEMMA CapMoves ==
    ASSUME Inv, Normal
    PROVE  /\ late' \in SUBSET Flows /\ late \subseteq late'
           /\ cap' \in [Flows -> [st : {None, "refused", "live", "revoked"},
                                  bits : SUBSET AuthorityPublic]]
           /\ \A f \in Flows :
                 \/ cap'[f] = cap[f]
                 \/ cap'[f].st \in {"refused", "live"} /\ cap'[f].bits \subseteq grant
                 \/ Revoke(f) /\ cap'[f].bits \subseteq grant
<1> DEFINE Caps == [st : {None, "refused", "live", "revoked"}, bits : SUBSET AuthorityPublic]
<1>0. /\ late \in SUBSET Flows /\ cap \in [Flows -> Caps]
      /\ \A f \in Flows : cap[f].bits \subseteq grant /\ cap[f].bits \in SUBSET AuthorityPublic
  <2>1. late \in SUBSET Flows /\ cap \in [Flows -> Caps]
    BY DEF Inv, Types, WorldType
  <2>2. \A f \in Flows : cap[f].bits \in SUBSET AuthorityPublic
    BY SMT, <2>1
  <2> QED
    BY <2>1, <2>2 DEF Inv, Gated
<1> HIDE DEF Caps
<1>1. ASSUME NEW f \in Flows, Opens(f)
      PROVE  /\ late' = late /\ cap' \in [Flows -> Caps]
             /\ \A g \in Flows : \/ cap'[g] = cap[g]
                                 \/ /\ cap'[g].st \in {"refused", "live"}
                                    /\ cap'[g].bits \subseteq grant
  <2>1. PICK st \in {"refused", "live"}, bits \in SUBSET (grant \cap AuthorityPublic) :
            cap' = [cap EXCEPT ![f] = [st |-> st, bits |-> bits]]
    BY <1>1 DEF Opens
  <2>2. PICK c : c = [st |-> st, bits |-> bits]
    OBVIOUS
  <2>3. c \in Caps /\ c.st = st /\ c.bits = bits
    BY SMT, <2>2 DEF Caps
  <2>4. cap' \in [Flows -> Caps] /\ \A g \in Flows : cap'[g] = IF g = f THEN c ELSE cap[g]
    BY <1>0, <2>1, <2>2, <2>3
  <2> QED
    BY <1>1, <2>3, <2>4 DEF Opens
<1>2. ASSUME NEW f \in Flows, Revoke(f)
      PROVE  /\ late' \in SUBSET Flows /\ late \subseteq late' /\ cap' \in [Flows -> Caps]
             /\ cap'[f].bits \subseteq grant
             /\ \A g \in Flows : g # f => cap'[g] = cap[g]
  <2>1. PICK c : c = [cap[f] EXCEPT !.st = "revoked"]
    OBVIOUS
  <2>2. c \in Caps /\ c.bits = cap[f].bits
    BY SMT, <1>0, <2>1 DEF Caps
  <2>3. cap' = [cap EXCEPT ![f] = c]
    BY SMT, <1>2, <2>1 DEF Revoke
  <2>4. cap' \in [Flows -> Caps] /\ \A g \in Flows : cap'[g] = IF g = f THEN c ELSE cap[g]
    BY <1>0, <2>2, <2>3
  <2>5. late' \in SUBSET Flows /\ late \subseteq late'
    BY <1>0, <1>2 DEF Revoke
  <2> QED
    BY <1>0, <2>2, <2>4, <2>5
<1>3. \/ \E f \in Flows : Opens(f) \/ Revoke(f)
      \/ cap' = cap /\ late' = late
  BY ZenonT(60) DEF Normal, Starts, Spawn, Ends, Moves, Asks, Call, Others, Rests
<1> QED
  BY <1>0, <1>1, <1>2, <1>3 DEF Caps

LEMMA WorldStep ==
    ASSUME Inv, Normal, Grows PROVE WorldType' /\ Gated'
<1>0. flow' = flow /\ grant' = grant
  BY DEF Grows, fixed
<1>1. WorldType'
  <2>1. flow' \in Setups /\ grant' \in Grants /\ honest' \in BOOLEAN
    BY SMT, <1>0 DEF Inv, Types, WorldType, Grows, fixed
  <2> QED
    BY <2>1, CapMoves DEF WorldType, Grows
<1>2. ASSUME NEW f \in Flows PROVE cap'[f].bits \subseteq grant'
  BY <1>0, CapMoves DEF Inv, Gated
<1>3. ASSUME NEW h \in Handles, pc'[h] \notin {None, "done"} PROVE Asked(h)'
  <2>1. StageMove(h) /\ Asked(h)' = Asked(h)
    BY StageMoves, Stays
  <2>2. pc[h] \notin {None, "done"} => Asked(h)
    BY DEF Inv, Gated
  <2> QED
    BY <1>3, <2>1, <2>2 DEF StageMove, None
<1> QED
  BY <1>1, <1>2, <1>3 DEF Gated

LEMMA StoppedStep ==
    ASSUME Inv, Normal, Grows PROVE Stopped'
<1> DEFINE quiet(f) == ~\E m \in sent : m.f = f /\ m.type \in {"poll", "import"}
<1>0. \A f : kind(f)' = kind(f)
  BY DEF Grows, fixed, kind
<1> SUFFICES ASSUME NEW f \in Flows, kind(f) = "v4swap",
                    NEW h \in Handles, h = <<f, "committed">>
             PROVE  /\ pc'[h] \in {None, "await", "run"} => quiet(f)'
                    /\ cap'[f].st = "revoked" /\ f \notin late' =>
                          quiet(f)' /\ pc'[h] \notin {"loop", "call"} /\ prom'[h].st # "ok"
  <2>1. \A f \in Flows : <<f, "committed">> \in Handles
    BY Pairs, StageNames
  <2> QED
    BY <1>0, <2>1 DEF Stopped
<1>1. /\ pc[h] \in {None, "await", "run"} => quiet(f)
      /\ cap[f].st = "revoked" /\ f \notin late =>
            quiet(f) /\ pc[h] \notin {"loop", "call"} /\ prom[h].st # "ok"
  BY DEF Inv, Stopped
<1>2. /\ StageMove(h) /\ h[1] = f /\ h[2] = "committed" /\ h \in Promises
      /\ prom[h].st = "ok" => pc[h] = "done"
  BY Pairs, StageNames, StageMoves, Results DEF Inv, Tasks
\* A request of the settlement needs the watch to have begun.
<1>3. ASSUME quiet(f), pc[h] # "loop", prom[h].st # "ok" PROVE quiet(f)'
  <2> SUFFICES ASSUME NEW m \in sent', m.f = f, m.type \in {"poll", "import"} PROVE FALSE
    OBVIOUS
  <2>1. m \notin sent
    BY <1>3
  <2>2. ASSUME NEW g \in Flows, m = [f |-> g, type |-> "quote", id |-> req(g).id] PROVE FALSE
    <3>1. m.type = "quote"
      BY SMT, <2>2
    <3> QED
      BY <3>1
  <2>3. ASSUME NEW x \in Handles, NEW type \in {"notify", "poll", "import"}, Asks(x, type),
               m = [f |-> x[1], type |-> type, id |-> Arg(x).id]
        PROVE  FALSE
    <3>1. x[1] = f /\ type = m.type
      BY SMT, <2>3
    <3>2. x[2] = StageOf(type) /\ Closed(x[1])
      BY <2>3, <3>1, AskedFor DEF Closed
    <3>3. CASE type = "poll"
      <4>1. x[2] = "committed" /\ pc[x] = "loop"
        BY <2>3, <3>2, <3>3, AskedFor DEF StageOf
      <4>2. x = h
        BY SMT, <3>1, <4>1, Pairs
      <4> QED
        BY <1>3, <4>1, <4>2
    <3>4. CASE type = "import"
      BY ZenonT(60), <1>3, <2>3, <3>1, <3>2, <3>4, AskedFor
    <3> QED
      BY <3>1, <3>3, <3>4
  <2>4. \/ m \in sent
        \/ \E g \in Flows : m = [f |-> g, type |-> "quote", id |-> req(g).id]
        \/ \E x \in Handles, type \in {"notify", "poll", "import"} :
              Asks(x, type) /\ m = [f |-> x[1], type |-> type, id |-> Arg(x).id]
    BY SentFrom
  <2> QED
    BY <2>1, <2>2, <2>3, <2>4
<1> HIDE DEF quiet
<1>4. ASSUME pc'[h] \in {None, "await", "run"} PROVE quiet(f)'
  <2>1. pc[h] \in {None, "await", "run"}
    BY <1>2, <1>4 DEF StageMove, None
  <2>2. pc[h] \notin {"loop", "done"}
    BY <2>1 DEF None
  <2> QED
    BY <1>1, <1>2, <1>3, <2>1, <2>2
<1>5. ASSUME cap'[f].st = "revoked", f \notin late'
      PROVE  quiet(f)' /\ pc'[h] \notin {"loop", "call"} /\ prom'[h].st # "ok"
  <2>1. f \notin late /\ (cap'[f] = cap[f] \/ Revoke(f))
    BY <1>5, CapMoves
  <2>2. CASE cap'[f] = cap[f]
    <3>1. cap[f].st = "revoked" /\ cap[f].st # "live"
      BY <1>5, <2>2
    <3>2. quiet(f) /\ pc[h] \notin {"loop", "call"} /\ prom[h].st # "ok"
      BY <1>1, <2>1, <3>1
    <3>3. quiet(f)'
      BY <1>3, <3>2
    <3>4. pc'[h] \notin {"loop", "call"}
      BY <1>2, <3>1, <3>2 DEF StageMove, None
    <3>5. prom'[h].st # "ok"
      BY <1>2, <3>2, Results DEF StageMove
    <3> QED
      BY <3>3, <3>4, <3>5
  <2>3. CASE Revoke(f)
    <3>1. pc[h] \in {None, "await", "run"} /\ pc' = pc /\ prom' = prom
      BY <1>5, <2>3 DEF Revoke, tasks
    <3>2. pc[h] \notin {"loop", "call", "done"}
      BY <3>1 DEF None
    <3> QED
      BY <1>1, <1>2, <1>3, <3>1, <3>2
  <2> QED
    BY <2>1, <2>2, <2>3
<1> QED
  BY <1>4, <1>5

-------------------------------------------------------------------------------
LEMMA InitInv == Init => Inv
<1> SUFFICES ASSUME Init PROVE Inv
  OBVIOUS
<1>1. \A h \in Promises : prom[h] = Pending /\ pc[h] = None /\ dep[h] = NoDep
  BY DEF Init
<1>2. \A h \in Handles : prom[h] = Pending /\ pc[h] = None /\ prom[h].st # "ok"
  BY <1>1, Pairs, Results
<1>3. \A f \in Flows : cap[f] = [st |-> None, bits |-> {}]
  BY DEF Init
<1>4. \A f \in Flows : cap[f].st = None /\ cap[f].bits = {}
  BY SMT, <1>3
<1>5. TaskType
  <2>1. prom = [h \in Promises |-> prom[h]] /\ PromType
    BY <1>1 DEF Init, PromType
  <2>2. pc \in [Promises -> Place] /\ dep \in [Promises -> Promises \cup {NoDep}]
    BY DEF Init, Place
  <2> QED
    BY <2>1, <2>2 DEF TaskType
<1>6. cap \in [Flows -> [st : {None, "refused", "live", "revoked"},
                         bits : SUBSET AuthorityPublic]]
  BY SMT DEF Init
<1>7. WorldType /\ CallType
  BY <1>6 DEF Init, WorldType, CallType, Phases
<1>8. Kept /\ Bound /\ Tasks /\ Wired
  BY <1>2 DEF Kept, Bound, Tasks, Wired, None
<1>9. Gated /\ OnWire /\ Calls
  BY <1>2, <1>4 DEF Gated, OnWire, Calls, ScopedCalls, WithinGrant, NotifiedIsFunded, Init
<1>10. Stopped
  BY <1>4 DEF Stopped, Init, None
<1> QED
  BY <1>5, <1>7, <1>8, <1>9, <1>10 DEF Inv, Types

LEMMA NextInv == Inv /\ [Next]_vars => Inv'
<1> SUFFICES ASSUME Inv, [Next]_vars PROVE Inv'
  OBVIOUS
<1>1. Normal /\ Grows
  BY NormalStep, GrowsStep
<1>2. TaskType'
  BY <1>1, OneMoves
<1>3. CallType' /\ Calls' /\ OnWire'
  BY <1>1, CallsStep, WireStep DEF CallType
<1>4. WorldType' /\ Gated'
  BY <1>1, WorldStep
<1> QED
  BY <1>1, <1>2, <1>3, <1>4, TasksStep, BoundStep, StoppedStep DEF Inv, Types

\* The invariant holds in every behaviour of the client: any flows, requests and
\* grants, any interleaving of goroutines, closes, cancellations and answers.
THEOREM DexInvariant == Spec => []Inv
  BY InitInv, NextInv, PTL DEF Spec

\* What the promise of a committed export is worth: for any venue it names the
\* intent the watch tracks, and for an honest one D exported an object of that
\* intent (streamUntilCommitted, streamUntilFinal).
THEOREM Committed == Spec => []CommittedIsReal
<1>1. Inv => CommittedIsReal
  <2> SUFFICES ASSUME Inv, NEW f \in Flows, NEW h \in Handles, h = <<f, "committed">>,
                      prom[h].st = "ok"
               PROVE  /\ prom[<<f, "watch">>].st = "ok"
                      /\ prom[h].v.id = prom[<<f, "watch">>].v.id
                      /\ honest => dphase[prom[h].v.tx] \in Exported
                                   /\ prom[h].v.id = prom[h].v.tx
    <3>1. \A f \in Flows : <<f, "committed">> \in Handles
      BY Pairs, StageNames
    <3> QED
      BY <3>1 DEF CommittedIsReal
  <2>1. h[1] = f /\ h[2] = "committed"
    BY Pairs, StageNames
  <2>2. pc[h] # None /\ prom[dep[h]].st = "ok" /\ prom[h].v.id = prom[dep[h]].v.id
    BY <2>1 DEF Inv, Bound, Arg
  <2>3. dep[h] = <<f, "watch">>
    BY <2>1, <2>2 DEF Inv, Wired, Takes
  <2>4. honest => dphase[prom[h].v.tx] \in Exported /\ prom[h].v.id = prom[h].v.tx
    BY <2>1 DEF Inv, Kept, Sound
  <2> QED
    BY <2>2, <2>3, <2>4
<1> QED
  BY <1>1, DexInvariant, PTL

\* What the capability discipline of v4session.go promises: every call a session
\* sends is inside its scope and under the grant of its connection.
THEOREM Authorized == Spec => []CallsAreAuthorized
<1>1. Inv => TypeOK
  <2> SUFFICES ASSUME Inv PROVE TypeOK
    OBVIOUS
  <2>1. ASSUME NEW h \in Promises
        PROVE  /\ prom[h].st \in {"pending", "ok", "err"}
               /\ prom[h].st = "ok" => prom[h].v.id \in Intents
    <3>1. prom[h] \in {Pending, Failed} \/ \E v \in Values : prom[h] = Ok(v)
      BY DEF Inv, Types, TaskType, PromType
    <3>2. CASE prom[h] \in {Pending, Failed}
      BY <3>2, Results
    <3>3. ASSUME NEW v \in Values, prom[h] = Ok(v)
          PROVE  prom[h].st = "ok" /\ prom[h].v.id \in Intents
      <4>1. prom[h].st = "ok" /\ prom[h].v = v
        BY <3>3, Results
      <4>2. v.id \in Intents
        BY ValueType
      <4> QED
        BY <4>1, <4>2
    <3> QED
      BY <3>1, <3>2, <3>3
  <2>2. ASSUME NEW h \in Promises
        PROVE  pc[h] \in Place /\ dep[h] \in Promises \cup {NoDep}
    BY DEF Inv, Types, TaskType
  <2>3. WorldType
    BY DEF Inv, Types
  <2> QED
    BY <2>1, <2>2, <2>3 DEF TypeOK, WorldType, Place, Phases
<1>2. Inv => CallsAreAuthorized
  BY <1>1 DEF Inv, Calls, CallsAreAuthorized
<1> QED
  BY <1>2, DexInvariant, PTL

\* SwapFlowWithSender notifies D of funded intents only.
THEOREM Notified == Spec => []NotifiedIsFunded
<1>1. Inv => NotifiedIsFunded
  BY DEF Inv, Calls
<1> QED
  BY <1>1, DexInvariant, PTL

\* Close of a V4SwapSession that has not begun to watch stops its settlement.
THEOREM Stops == Spec => []CloseStopsSettlement
<1>1. Inv => CloseStopsSettlement
  BY DEF Inv, Stopped, CloseStopsSettlement
<1> QED
  BY <1>1, DexInvariant, PTL

-------------------------------------------------------------------------------
(* The event streams *)

Started(h) == Event("HOP_STARTED", h)
Import == Event("D_IMPORTED", 0)

\* What the loop's locals say was sent.
Reported ==
    /\ imported => Was(Import)
    /\ lastHop >= 0 => Was(Started(lastHop))

\* The hops started so far are at most lastHop.
Below(b) == \A i \in 1 .. Len(log) : log[i].type = "HOP_STARTED" => log[i].hop < b

\* What the goroutine is about to send.
Final(e) ==
    /\ todo = <<e>> /\ after = "closed" /\ e.type \in Terminal
    /\ truthful /\ e.type = "D_EXPORT_READY" => venue.name = "committed"
    /\ truthful /\ e.type = "REFUND_READY" => venue.name = "refunded"
FirstMatch ==
    /\ todo = <<Import, Event("MATCHED", 0)>> /\ imported
    /\ lastHop >= 0 => Was(Started(lastHop))
FirstFill ==
    /\ todo = <<Started(lastHop), Event("HOP_FILLED", lastHop)>>
    /\ Below(lastHop) /\ lastHop >= 0 /\ (imported => Was(Import))
Again ==
    /\ Reported
    /\ \/ todo = <<Event("QUOTE", 0)>>
       \/ todo = <<Event("MATCHED", 0)>> /\ imported
       \/ \E h \in 0 .. lastHop : todo = <<Event("HOP_FILLED", h)>>
Sending ==
    \/ \E e \in Events : Final(e)
    \/ after = "sleep" /\ (FirstMatch \/ FirstFill \/ Again)

StreamInv ==
    /\ StreamTypeOK /\ InOrder /\ OutcomeIsLast
    /\ Below(lastHop + 1)
    /\ spc = "emit" => Sending
    /\ spc \in {"idle", "head", "sleep"} => todo = <<>> /\ Reported
    /\ spc \in {"idle"} => log = <<>> /\ ch = <<>>

LEMMA StreamInitInv == StreamInit => StreamInv
<1> SUFFICES ASSUME StreamInit PROVE StreamInv
  OBVIOUS
<1> USE StreamAssumption
<1>1. StreamTypeOK
  <2>1. venue \in [name : {"pending", "matching"} \cup Decided, hop : 0 .. Hops - 1]
    BY SMT DEF StreamInit, Phase
  <2>2. lastHop \in -1 .. Hops - 1 /\ Len(todo) <= 2 /\ Len(ch) <= Cap
    BY SMT DEF StreamInit
  <2>3. todo \in Seq(Events) /\ ch \in Seq(Events) /\ log \in Seq(Events)
    BY SMT DEF StreamInit
  <2>4. caller \in BOOLEAN \X BOOLEAN \X BOOLEAN
    BY DEF StreamInit, caller
  <2> QED BY <2>1, <2>2, <2>3, <2>4 DEF StreamInit, StreamTypeOK
<1>2. InOrder /\ OutcomeIsLast /\ Below(lastHop + 1)
  BY SMT DEF StreamInit, InOrder, OutcomeIsLast, Below
<1>3. Reported
  BY SMT DEF StreamInit, Reported
<1> QED BY <1>1, <1>2, <1>3 DEF StreamInit, StreamInv

\* Events, and the sequences the loops send.
LEMMA EventTypes ==
    /\ \A h \in 0 .. Hops - 1 : Started(h) \in Events /\ Event("HOP_FILLED", h) \in Events
    /\ Import \in Events /\ \A t \in {"MATCHED", "QUOTE"} \cup Terminal : Event(t, 0) \in Events
BY SMT, StreamAssumption DEF Started, Import, Event, Events

LEMMA Short ==
    ASSUME NEW x \in Events, NEW y \in Events
    PROVE  /\ <<x>> \in Seq(Events) /\ Len(<<x>>) = 1 /\ Head(<<x>>) = x /\ Tail(<<x>>) = <<>>
           /\ <<x, y>> \in Seq(Events) /\ Len(<<x, y>>) = 2
           /\ Head(<<x, y>>) = x /\ Tail(<<x, y>>) = <<y>>
BY SMT

\* What one more entry changes of the log.
LEMMA LogGrows ==
    ASSUME log \in Seq(Events), NEW e \in Events, log' = Append(log, e)
    PROVE  /\ log' \in Seq(Events) /\ Len(log) \in Nat /\ Len(log') = Len(log) + 1
           /\ log'[Len(log) + 1] = e
           /\ \A i \in 1 .. Len(log) : log'[i] = log[i]
           /\ \A i \in 1 .. Len(log') : i = Len(log) + 1 \/ i \in 1 .. Len(log)
           /\ \A x : Was(x) => Was(x)'
           /\ Was(e)'
<1>1. /\ log' \in Seq(Events) /\ Len(log) \in Nat /\ Len(log') = Len(log) + 1
      /\ log'[Len(log) + 1] = e
      /\ \A i \in 1 .. Len(log) : log'[i] = log[i]
  BY SMT
<1>2. /\ \A i \in 1 .. Len(log') : i = Len(log) + 1 \/ i \in 1 .. Len(log)
      /\ \A i \in 1 .. Len(log) : i \in 1 .. Len(log')
      /\ Len(log) + 1 \in 1 .. Len(log')
  BY SMT, <1>1
<1>3. Was(e)' /\ \A x : Was(x) => Was(x)'
  BY <1>1, <1>2 DEF Was
<1> QED BY <1>1, <1>2, <1>3

LEMMA BelowGrows ==
    ASSUME log \in Seq(Events), NEW e \in Events, log' = Append(log, e), NEW b,
           Below(b), e.type = "HOP_STARTED" => e.hop < b
    PROVE  Below(b)'
BY LogGrows DEF Below

\* An entry that is in order where it comes keeps the log in order.
LEMMA OrderGrows ==
    ASSUME log \in Seq(Events), NEW e \in Events, log' = Append(log, e), InOrder,
           e.type = "MATCHED" => Was(Import),
           e.type = "HOP_FILLED" => \E h \in e.hop .. Hops - 1 : Was(Started(h)),
           e.type = "HOP_STARTED" => Below(e.hop)
    PROVE  InOrder'
<1>1. /\ Len(log) \in Nat /\ Len(log') = Len(log) + 1 /\ log'[Len(log) + 1] = e
      /\ \A i \in 1 .. Len(log) : log'[i] = log[i]
      /\ \A i \in 1 .. Len(log') : i = Len(log) + 1 \/ i \in 1 .. Len(log)
      /\ DOMAIN log = 1 .. Len(log) /\ DOMAIN log' = 1 .. Len(log')
  <2>1. DOMAIN log = 1 .. Len(log) /\ DOMAIN log' = 1 .. Len(log')
    BY SMT, LogGrows
  <2> QED BY <2>1, LogGrows
<1>2. \A i \in 1 .. Len(log) : \A j \in 1 .. i - 1 : log'[j] = log[j]
  BY SMT, <1>1
<1>3. \A i \in 1 .. Len(log) : \A x : Before(i, x) => \E j \in 1 .. i - 1 : log'[j] = x
  BY <1>2 DEF Before
<1>4. \A j : j \in 1 .. (Len(log) + 1) - 1 <=> j \in 1 .. Len(log)
  BY SMT, <1>1
<1>5. \A x : Was(x) => \E j \in 1 .. (Len(log) + 1) - 1 : log'[j] = x
  BY <1>1, <1>4 DEF Was
<1>6. ASSUME NEW i \in 1 .. Len(log') PROVE
        /\ log'[i].type = "MATCHED" => \E j \in 1 .. i - 1 : log'[j] = Event("D_IMPORTED", 0)
        /\ log'[i].type = "HOP_FILLED" => \E h \in log'[i].hop .. Hops - 1 :
             \E j \in 1 .. i - 1 : log'[j] = Event("HOP_STARTED", h)
        /\ log'[i].type = "HOP_STARTED" =>
             \A j \in 1 .. i - 1 : log'[j].type = "HOP_STARTED" => log'[j].hop < log'[i].hop
  <2>1. CASE i = Len(log) + 1
    <3>1. log'[i] = e
      BY <1>1, <2>1
    <3>2. e.type = "MATCHED" => \E j \in 1 .. i - 1 : log'[j] = Event("D_IMPORTED", 0)
      BY <1>5, <2>1 DEF Import
    <3>3. e.type = "HOP_FILLED" => \E h \in e.hop .. Hops - 1 :
             \E j \in 1 .. i - 1 : log'[j] = Event("HOP_STARTED", h)
      BY <1>5, <2>1 DEF Started
    <3>4. e.type = "HOP_STARTED" =>
             \A j \in 1 .. i - 1 : log'[j].type = "HOP_STARTED" => log'[j].hop < e.hop
      BY <1>1, <1>4, <2>1 DEF Below
    <3> QED BY <3>1, <3>2, <3>3, <3>4
  <2>2. CASE i \in 1 .. Len(log)
    <3>1. log'[i] = log[i]
      BY <1>1, <2>2
    <3>2. log[i].type = "MATCHED" => \E j \in 1 .. i - 1 : log'[j] = Event("D_IMPORTED", 0)
      BY <1>1, <1>3, <2>2 DEF InOrder
    <3>3. log[i].type = "HOP_FILLED" => \E h \in log[i].hop .. Hops - 1 :
             \E j \in 1 .. i - 1 : log'[j] = Event("HOP_STARTED", h)
      <4> SUFFICES ASSUME log[i].type = "HOP_FILLED"
                   PROVE  \E h \in log[i].hop .. Hops - 1 :
                             \E j \in 1 .. i - 1 : log'[j] = Event("HOP_STARTED", h)
        OBVIOUS
      <4>1. PICK h \in log[i].hop .. Hops - 1 : Before(i, Event("HOP_STARTED", h))
        BY <1>1, <2>2 DEF InOrder
      <4> QED BY <1>3, <2>2, <4>1
    <3>4. log[i].type = "HOP_STARTED" =>
             \A j \in 1 .. i - 1 : log'[j].type = "HOP_STARTED" => log'[j].hop < log[i].hop
      BY <1>1, <1>2, <2>2 DEF InOrder
    <3> QED BY <3>1, <3>2, <3>3, <3>4
  <2> QED BY <1>1, <2>1, <2>2
<1> QED BY <1>1, <1>6 DEF InOrder, Before

\* While the goroutine runs, no outcome has been reported.
LEMMA NoOutcomeYet ==
    ASSUME StreamInv, spc # "closed"
    PROVE  \A i \in 1 .. Len(log) : log[i].type \notin Terminal
<1>1. DOMAIN log = 1 .. Len(log)
  BY SMT DEF StreamInv, StreamTypeOK
<1> QED BY <1>1 DEF StreamInv, OutcomeIsLast

LEMMA OutcomeGrows ==
    ASSUME StreamInv, spc # "closed", NEW e \in Events, log' = Append(log, e),
           venue' = venue, truthful' = truthful, e.type \in Terminal => spc' = "closed",
           truthful /\ e.type = "D_EXPORT_READY" => venue.name = "committed",
           truthful /\ e.type = "REFUND_READY" => venue.name = "refunded"
    PROVE  OutcomeIsLast'
<1>1. log \in Seq(Events)
  BY DEF StreamInv, StreamTypeOK
<1>2. /\ Len(log') = Len(log) + 1 /\ log'[Len(log) + 1] = e
      /\ \A i \in 1 .. Len(log) : log'[i] = log[i]
      /\ \A i \in 1 .. Len(log') : i = Len(log) + 1 \/ i \in 1 .. Len(log)
      /\ DOMAIN log' = 1 .. Len(log')
  <2>1. log' \in Seq(Events)
    BY <1>1, LogGrows
  <2>2. DOMAIN log' = 1 .. Len(log')
    BY SMT, <2>1
  <2> QED BY <1>1, <2>2, LogGrows
<1> QED BY <1>2, NoOutcomeYet DEF OutcomeIsLast

\* The log, and what depends on it alone, when a step leaves it.
LEMMA LogStays ==
    ASSUME log' = log
    PROVE  /\ InOrder <=> InOrder'
           /\ \A x : Was(x) <=> Was(x)'
           /\ \A b : Below(b) <=> Below(b)'
BY DEF InOrder, Before, Was, Below

\* The caller's steps, and D's: the goroutine and the log stay, and an outcome
\* once reported is the one D decided.
LEMMA CallerKeeps ==
    ASSUME StreamInv, UNCHANGED <<which, truthful, stream, log>>,
           \/ venue' = venue
           \/ /\ venue.name \notin Decided
              /\ venue' \in [name : {"pending", "matching"} \cup Decided, hop : 0 .. Hops - 1],
           ch' \in Seq(Events), Len(ch') <= Len(ch), caller' \in BOOLEAN \X BOOLEAN \X BOOLEAN
    PROVE  StreamInv'
<1>1. UNCHANGED <<which, truthful, spc, todo, after, imported, lastHop, log>>
  BY DEF stream
<1>2. StreamTypeOK'
  <2>1. Len(ch') <= Cap
    <3>1. Len(ch') \in Nat /\ Len(ch) \in Nat /\ Len(ch) <= Cap /\ Cap \in Nat
      BY SMT, StreamAssumption DEF StreamInv, StreamTypeOK
    <3> QED BY SMT, <3>1
  <2> QED BY <1>1, <2>1 DEF StreamInv, StreamTypeOK
<1>3. InOrder' /\ Below(lastHop + 1)'
  BY <1>1 DEF StreamInv, InOrder, Before, Below
<1>0. (truthful' => truthful) /\ (venue.name \in Decided => venue' = venue)
  <2>1. truthful' => truthful
    BY SMT, <1>1
  <2> QED BY <2>1
<1>4. OutcomeIsLast'
  BY <1>0, <1>1 DEF StreamInv, OutcomeIsLast, Decided
<1>5. Reported' <=> Reported
  BY <1>1 DEF Reported, Was, Started, Import
<1>6. spc' = "emit" => Sending'
  <2> SUFFICES ASSUME spc = "emit" PROVE Sending'
    BY <1>1
  <2>1. ASSUME NEW e \in Events, Final(e) PROVE Sending'
    BY <1>0, <1>1, <2>1 DEF Sending, Final, Decided
  <2>2. FirstMatch => FirstMatch'
    BY <1>1 DEF FirstMatch, Was, Started, Import
  <2>3. FirstFill => FirstFill'
    BY <1>1 DEF FirstFill, Was, Started, Import, Below
  <2>4. Again => Again'
    BY <1>1, <1>5 DEF Again
  <2> QED BY <1>1, <2>1, <2>2, <2>3, <2>4 DEF Sending, StreamInv
<1>7. spc' \in {"idle", "head", "sleep"} => todo' = <<>> /\ Reported'
  BY <1>1, <1>5 DEF StreamInv
<1>8. spc' \in {"idle"} => log' = <<>> /\ ch' = <<>>
  <2> SUFFICES ASSUME spc = "idle" PROVE log = <<>> /\ ch' = <<>>
    BY <1>1
  <2>1. log = <<>> /\ ch = <<>>
    BY DEF StreamInv
  <2>2. ch' = <<>>
    BY SMT, <2>1
  <2> QED BY <2>1, <2>2
<1> QED BY <1>2, <1>3, <1>4, <1>6, <1>7, <1>8 DEF StreamInv

LEMMA CallerStep ==
    ASSUME StreamInv, Receive \/ Abandon \/ StreamCancel \/ StreamClose \/ DStep
    PROVE  StreamInv'
<1>1. /\ ch \in Seq(Events) /\ Len(ch) <= Len(ch)
      /\ sctx \in BOOLEAN /\ scap \in BOOLEAN /\ ranging \in BOOLEAN
  <2>1. ch \in Seq(Events) /\ Len(ch) <= Len(ch)
    BY SMT DEF StreamInv, StreamTypeOK
  <2>2. caller \in BOOLEAN \X BOOLEAN \X BOOLEAN
    BY DEF StreamInv, StreamTypeOK
  <2> QED BY <2>1, <2>2 DEF caller
<1>2. CASE Receive
  <2>1. ch' \in Seq(Events) /\ Len(ch') <= Len(ch)
    BY SMT, <1>1, <1>2 DEF Receive
  <2> QED BY <1>2, <2>1, CallerKeeps DEF Receive, StreamInv, StreamTypeOK
<1>3. CASE Abandon
  <2>1. caller' \in BOOLEAN \X BOOLEAN \X BOOLEAN
    BY <1>1, <1>3 DEF Abandon, caller
  <2> QED BY <1>1, <1>3, <2>1, CallerKeeps DEF Abandon
<1>4. CASE StreamCancel
  <2>1. caller' \in BOOLEAN \X BOOLEAN \X BOOLEAN
    BY <1>1, <1>4 DEF StreamCancel, caller
  <2> QED BY <1>1, <1>4, <2>1, CallerKeeps DEF StreamCancel
<1>5. CASE StreamClose
  <2>1. caller' \in BOOLEAN \X BOOLEAN \X BOOLEAN
    BY <1>1, <1>5 DEF StreamClose, caller
  <2> QED BY <1>1, <1>5, <2>1, CallerKeeps DEF StreamClose
<1>6. CASE DStep
  <2>1. venue' \in [name : {"pending", "matching"} \cup Decided, hop : 0 .. Hops - 1]
    <3>1. \A n \in Decided : Phase(n, 0) \in [name : {"pending", "matching"} \cup Decided, hop : 0 .. Hops - 1]
      BY SMT, StreamAssumption DEF Phase
    <3>2. Phase("matching", 0) \in [name : {"pending", "matching"} \cup Decided, hop : 0 .. Hops - 1]
      BY SMT, StreamAssumption DEF Phase
    <3>3. venue.hop < Hops - 1 => Phase("matching", venue.hop + 1)
                                    \in [name : {"pending", "matching"} \cup Decided, hop : 0 .. Hops - 1]
      BY SMT, StreamAssumption DEF Phase, StreamInv, StreamTypeOK
    <3> QED BY <1>6, <3>1, <3>2, <3>3 DEF DStep
  <2>2. caller' = caller /\ caller \in BOOLEAN \X BOOLEAN \X BOOLEAN
    BY <1>6 DEF DStep, StreamInv, StreamTypeOK
  <2> QED BY <1>1, <1>6, <2>1, <2>2, CallerKeeps DEF DStep
<1> QED BY <1>2, <1>3, <1>4, <1>5, <1>6

\* A stream begins, or is refused with one error on a closed channel.
LEMMA BeginKeeps ==
    ASSUME StreamInv, ReadStream \/ RouteReadStream \/ StreamQuotes
    PROVE  StreamInv'
<1> USE StreamAssumption
<1>1. /\ spc = "idle" /\ UNCHANGED <<which, truthful, venue, todo, after, imported, lastHop, caller>>
      /\ (Start \/ Refused)
  BY DEF ReadStream, RouteReadStream, StreamQuotes
<1>2. todo = <<>> /\ Reported /\ log = <<>> /\ ch = <<>>
  BY <1>1 DEF StreamInv
<1>3. CASE Start
  <2>1. spc' = "head" /\ UNCHANGED <<ch, log>>
    BY <1>3 DEF Start
  <2>2. StreamTypeOK'
    BY <1>1, <2>1 DEF StreamInv, StreamTypeOK
  <2>3. InOrder' /\ Below(lastHop + 1)'
    BY <1>1, <2>1 DEF StreamInv, InOrder, Before, Below
  <2>4. Reported'
    BY <1>1, <1>2, <2>1 DEF Reported, Was, Started, Import
  <2>5. OutcomeIsLast'
    BY SMT, <1>2, <2>1 DEF OutcomeIsLast
  <2> QED BY <1>1, <1>2, <2>1, <2>2, <2>3, <2>4, <2>5 DEF StreamInv
<1>4. CASE Refused
  <2> DEFINE e == Event("ERROR", 0)
  <2>1. spc' = "closed" /\ ch' = <<e>> /\ log' = <<e>> /\ e \in Events /\ e.type = "ERROR"
    <3>1. e \in Events
      BY EventTypes DEF Terminal
    <3>2. e.type = "ERROR"
      BY DEF Event
    <3> QED BY <1>4, <3>1, <3>2 DEF Refused
  <2> HIDE DEF e
  <2>2. ch' \in Seq(Events) /\ log' \in Seq(Events) /\ Len(ch') <= Cap
    BY SMT, <2>1
  <2>3. StreamTypeOK'
    BY <1>1, <2>1, <2>2 DEF StreamInv, StreamTypeOK
  <2>4. DOMAIN log' = {1} /\ log'[1] = e /\ Len(log') = 1 /\ \A i \in 1 .. Len(log') : i = 1
    BY SMT, <2>1
  <2>5. InOrder' /\ Below(lastHop + 1)' /\ OutcomeIsLast'
    BY <2>1, <2>4 DEF InOrder, Below, OutcomeIsLast
  <2> QED BY <2>1, <2>3, <2>5 DEF StreamInv
<1> QED BY <1>1, <1>3, <1>4

LEMMA Looser ==
    ASSUME NEW a \in Int, NEW b \in Int, NEW n \in Int, a <= b, n < a + 1
    PROVE  n < b + 1
BY SMT

\* What a step of the loop's head leaves to be shown: it sends nothing itself.
LEMMA HeadKeeps ==
    ASSUME StreamInv, UNCHANGED <<which, truthful, venue, ch, log, caller>>,
           spc' \in {"emit", "sleep", "head", "closed"}, after' \in {"sleep", "closed"},
           todo' \in Seq(Events), Len(todo') <= 2, imported' \in BOOLEAN,
           lastHop' \in -1 .. Hops - 1, lastHop <= lastHop',
           spc # "closed",
           spc' = "emit" => Sending',
           spc' \in {"head", "sleep"} => todo' = <<>> /\ Reported'
    PROVE  StreamInv'
<1>1. StreamTypeOK'
  BY DEF StreamInv, StreamTypeOK
<1>2. InOrder'
  BY DEF StreamInv, InOrder, Before
<1>3. Below(lastHop + 1)'
  <2>1. lastHop \in Int /\ lastHop' \in Int
    BY SMT, StreamAssumption DEF StreamInv, StreamTypeOK
  <2>2. ASSUME NEW n \in Int, n < lastHop + 1 PROVE n < lastHop' + 1
    BY <2>1, <2>2, Looser
  <2>3. log \in Seq(Events)
    BY DEF StreamInv, StreamTypeOK
  <2>4. \A i \in 1 .. Len(log) : log[i] \in Events
    BY SMT, <2>3
  <2>5. \A x \in Events : x.hop \in 0 .. Hops - 1
    BY SMT DEF Events
  <2>6. \A n \in 0 .. Hops - 1 : n \in Int
    BY SMT, StreamAssumption
  <2> QED BY <2>2, <2>4, <2>5, <2>6 DEF StreamInv, Below
<1>4. OutcomeIsLast'
  <2>1. DOMAIN log' = 1 .. Len(log)
    BY SMT DEF StreamInv, StreamTypeOK
  <2> QED BY <2>1, NoOutcomeYet DEF OutcomeIsLast
<1> QED BY <1>1, <1>2, <1>3, <1>4 DEF StreamInv

\* The loop of a stream sends a last event,
LEMMA EndsKeeps ==
    ASSUME StreamInv, spc = "head", UNCHANGED <<which, truthful, venue, ch, log, caller>>,
           NEW e \in Events, e.type \in Terminal, EndsWith(e),
           truthful /\ e.type = "D_EXPORT_READY" => venue.name = "committed",
           truthful /\ e.type = "REFUND_READY" => venue.name = "refunded"
    PROVE  StreamInv'
<1>1. spc' = "emit" /\ todo' = <<e>> /\ after' = "closed" /\ UNCHANGED <<imported, lastHop>>
  BY DEF EndsWith, Emitting
<1>2. Sending'
  BY <1>1 DEF Sending, Final
<1>3. todo' \in Seq(Events) /\ Len(todo') <= 2
  BY SMT, <1>1
<1>4. /\ lastHop' \in -1 .. Hops - 1 /\ lastHop <= lastHop' /\ imported' \in BOOLEAN
  BY SMT, <1>1, StreamAssumption DEF StreamInv, StreamTypeOK
<1> QED BY <1>1, <1>2, <1>3, <1>4, HeadKeeps

\* or waits, or ends because its context is done,
LEMMA WaitsKeeps ==
    ASSUME StreamInv, spc \in {"head", "sleep"}, UNCHANGED <<which, truthful, venue, ch, log, caller>>,
           UNCHANGED <<todo, after, imported, lastHop>>, spc' \in {"sleep", "head", "closed"}
    PROVE  StreamInv'
<1>1. /\ lastHop' \in -1 .. Hops - 1 /\ lastHop <= lastHop' /\ imported' \in BOOLEAN
  BY SMT, StreamAssumption DEF StreamInv, StreamTypeOK
<1>2. todo' \in Seq(Events) /\ Len(todo') <= 2 /\ after' \in {"sleep", "closed"}
  BY DEF StreamInv, StreamTypeOK
<1>3. todo' = <<>> /\ Reported'
  BY DEF StreamInv, Reported, Was, Started, Import
<1> QED BY <1>1, <1>2, <1>3, HeadKeeps

\* or reports a match,
LEMMA MatchKeeps ==
    ASSUME StreamInv, spc = "head", UNCHANGED <<which, truthful, venue, ch, log, caller>>,
           Emitting(IF imported THEN <<Event("MATCHED", 0)>>
                    ELSE <<Event("D_IMPORTED", 0), Event("MATCHED", 0)>>, "sleep"),
           imported' = TRUE, lastHop' = lastHop
    PROVE  StreamInv'
<1> DEFINE m == Event("MATCHED", 0)
<1>1. m \in Events /\ Import \in Events /\ Import = Event("D_IMPORTED", 0)
  BY EventTypes DEF Import
<1>2. Reported
  BY DEF StreamInv
<1>3. /\ lastHop' \in -1 .. Hops - 1 /\ lastHop <= lastHop'
  BY SMT, StreamAssumption DEF StreamInv, StreamTypeOK
<1>4. spc' = "emit" /\ after' = "sleep" /\ imported'
  BY DEF Emitting
<1>5. CASE imported
  <2>1. todo' = <<m>>
    BY <1>5 DEF Emitting
  <2>2. todo' \in Seq(Events) /\ Len(todo') <= 2
    BY SMT, <1>1, <2>1
  <2>3. Reported'
    BY <1>2, <1>5 DEF Reported, Was, Started, Import
  <2>4. Sending'
    BY <1>4, <2>1, <2>3 DEF Sending, Again
  <2> QED BY <1>3, <1>4, <2>2, <2>4, HeadKeeps
<1>6. CASE ~imported
  <2>1. todo' = <<Import, m>>
    BY <1>1, <1>6 DEF Emitting
  <2>2. todo' \in Seq(Events) /\ Len(todo') <= 2
    BY SMT, <1>1, <2>1
  <2>3. lastHop' >= 0 => Was(Started(lastHop))'
    BY <1>2 DEF Reported, Was, Started
  <2>4. Sending'
    BY <1>4, <2>1, <2>3 DEF Sending, FirstMatch, Import
  <2> QED BY <1>3, <1>4, <2>2, <2>4, HeadKeeps
<1> QED BY <1>5, <1>6 DEF StreamInv, StreamTypeOK

\* or a fill, of a hop it starts unless it has started it or a later one.
LEMMA FillKeeps ==
    ASSUME StreamInv, spc = "head", UNCHANGED <<which, truthful, venue, ch, log, caller>>,
           NEW h \in 0 .. Hops - 1,
           Emitting(IF h > lastHop
                      THEN <<Event("HOP_STARTED", h), Event("HOP_FILLED", h)>>
                      ELSE <<Event("HOP_FILLED", h)>>, "sleep"),
           lastHop' = IF h > lastHop THEN h ELSE lastHop, imported' = imported
    PROVE  StreamInv'
<1> DEFINE f == Event("HOP_FILLED", h)
<1>1. f \in Events /\ Started(h) \in Events
  BY EventTypes
<1>2. Reported /\ Below(lastHop + 1) /\ imported \in BOOLEAN
  BY DEF StreamInv, StreamTypeOK
<1>3. /\ lastHop \in -1 .. Hops - 1 /\ h \in Int /\ lastHop \in Int /\ h >= 0
      /\ lastHop' \in -1 .. Hops - 1 /\ lastHop <= lastHop'
  BY SMT, StreamAssumption DEF StreamInv, StreamTypeOK
<1>4. spc' = "emit" /\ after' = "sleep"
  BY DEF Emitting
<1>5. CASE h > lastHop
  <2>1. todo' = <<Started(h), f>> /\ lastHop' = h
    BY <1>5 DEF Emitting, Started
  <2>2. todo' \in Seq(Events) /\ Len(todo') <= 2
    BY SMT, <1>1, <2>1
  <2>3. \A i \in 1 .. Len(log) : log[i].type = "HOP_STARTED" => log[i].hop < h
    <3>1. \A i \in 1 .. Len(log) : log[i] \in Events
      BY SMT DEF StreamInv, StreamTypeOK
    <3>2. \A x \in Events : x.hop \in 0 .. Hops - 1
      BY SMT DEF Events
    <3>3. \A n \in 0 .. Hops - 1 : n < lastHop + 1 => n < h
      BY SMT, <1>3, <1>5, StreamAssumption
    <3> QED BY <1>2, <3>1, <3>2, <3>3 DEF Below
  <2>4. Below(lastHop)'
    BY <2>1, <2>3 DEF Below
  <2>5. todo' = <<Started(lastHop), Event("HOP_FILLED", lastHop)>>'
    BY <2>1 DEF Started, Event
  <2>6. lastHop' >= 0 /\ (imported' => Was(Import)')
    BY <1>2, <1>3, <2>1 DEF Reported, Was, Import
  <2>7. Sending'
    BY <1>4, <2>4, <2>5, <2>6 DEF Sending, FirstFill
  <2> QED BY <1>2, <1>3, <1>4, <2>2, <2>7, HeadKeeps
<1>6. CASE ~(h > lastHop)
  <2>1. todo' = <<f>> /\ lastHop' = lastHop
    BY <1>6 DEF Emitting
  <2>2. todo' \in Seq(Events) /\ Len(todo') <= 2
    BY SMT, <1>1, <2>1
  <2>3. h \in 0 .. lastHop'
    BY SMT, <1>3, <1>6, <2>1
  <2>4. Reported'
    BY <1>2, <2>1 DEF Reported, Was, Started, Import
  <2>5. Sending'
    BY <1>4, <2>1, <2>3, <2>4 DEF Sending, Again
  <2> QED BY <1>2, <1>3, <1>4, <2>2, <2>5, HeadKeeps
<1> QED BY <1>5, <1>6

\* What the loops can learn of D.
LEMMA PolledPhases ==
    ASSUME StreamInv, NEW p \in Polled \cup {Phase("pending", 0)}
    PROVE  /\ p.hop \in 0 .. Hops - 1 /\ p.name \in {"pending", "matching"} \cup Decided
           /\ truthful /\ p.name \in Decided => venue.name = p.name
<1>1. /\ venue.hop \in 0 .. Hops - 1 /\ venue.name \in {"pending", "matching"} \cup Decided
  BY SMT DEF StreamInv, StreamTypeOK
<1>2. CASE p = Phase("pending", 0)
  <2>1. p.name = "pending" /\ p.hop = 0
    BY <1>2 DEF Phase
  <2>2. 0 \in 0 .. Hops - 1
    BY SMT, StreamAssumption
  <2> QED BY <2>1, <2>2 DEF Decided
<1>3. CASE p = venue
  BY <1>1, <1>3
<1>4. ASSUME NEW h \in 0 .. venue.hop, p = Phase("matching", h)
      PROVE  p.hop \in 0 .. Hops - 1 /\ p.name = "matching"
  <2>1. p.hop = h /\ p.name = "matching"
    BY <1>4 DEF Phase
  <2>2. h \in 0 .. Hops - 1
    BY SMT, <1>1, StreamAssumption
  <2> QED BY <2>1, <2>2
<1>5. ASSUME NEW n \in {"matching"} \cup Decided, NEW h \in 0 .. Hops - 1, p = Phase(n, h)
      PROVE  p.hop \in 0 .. Hops - 1 /\ p.name \in {"matching"} \cup Decided
  BY <1>5 DEF Phase
<1>6. \/ p = Phase("pending", 0) \/ p = venue
      \/ \E h \in 0 .. venue.hop : p = Phase("matching", h)
      \/ /\ ~truthful
         /\ \E n \in {"matching"} \cup Decided, h \in 0 .. Hops - 1 : p = Phase(n, h)
  <2>1. CASE truthful
    BY SMT, <2>1 DEF Polled
  <2>2. CASE ~truthful
    BY SMT, <2>2 DEF Polled
  <2> QED BY <2>1, <2>2
<1> QED BY <1>2, <1>3, <1>4, <1>5, <1>6 DEF Decided

\* The terminal events.
LEMMA TerminalEvents ==
    \A t \in Terminal : Event(t, 0) \in Events /\ Event(t, 0).type = t
<1>1. \A t : Event(t, 0).type = t
  BY DEF Event
<1> QED BY <1>1, EventTypes

\* The three loops.
LEMMA LoopKeeps ==
    ASSUME StreamInv, streamEvents \/ streamRoute \/ quoteLoop
    PROVE  StreamInv'
<1>1. spc = "head" /\ UNCHANGED <<which, truthful, venue, ch, log, caller>>
  BY DEF streamEvents, streamRoute, quoteLoop
<1>2. ASSUME spc' = "closed", UNCHANGED <<todo, after, imported, lastHop>> PROVE StreamInv'
  BY <1>1, <1>2, WaitsKeeps
<1>3. ASSUME EndsWith(Event("ERROR", 0)) PROVE StreamInv'
  BY <1>1, <1>3, EndsKeeps, TerminalEvents DEF Terminal
<1>4. ASSUME Waits PROVE StreamInv'
  BY <1>1, <1>4, WaitsKeeps DEF Waits
<1>5. ASSUME truthful => venue.name = "committed", EndsWith(Event("D_EXPORT_READY", 0)) PROVE StreamInv'
  BY <1>1, <1>5, EndsKeeps, TerminalEvents DEF Terminal
<1>6. ASSUME truthful => venue.name = "refunded", EndsWith(Event("REFUND_READY", 0)) PROVE StreamInv'
  BY <1>1, <1>6, EndsKeeps, TerminalEvents DEF Terminal
<1>7. ASSUME NEW p \in Polled \cup {Phase("pending", 0)}, swapPhase(p) PROVE StreamInv'
  <2>1. truthful /\ p.name \in Decided => venue.name = p.name
    BY PolledPhases
  <2>2. CASE p.name = "matching"
    BY <1>1, <1>7, <2>2, MatchKeeps DEF swapPhase
  <2>3. CASE p.name = "committed"
    BY <1>5, <1>7, <2>1, <2>3 DEF swapPhase, Decided
  <2>4. CASE p.name = "rejected"
    BY <1>3, <1>7, <2>4 DEF swapPhase
  <2>5. CASE p.name \notin {"matching", "committed", "rejected"}
    BY <1>4, <1>7, <2>5 DEF swapPhase
  <2> QED BY <2>2, <2>3, <2>4, <2>5
<1>8. ASSUME NEW p \in Polled \cup {Phase("pending", 0)}, routePhase(p) PROVE StreamInv'
  <2>1. (truthful /\ p.name \in Decided => venue.name = p.name) /\ p.hop \in 0 .. Hops - 1
    BY PolledPhases
  <2>2. CASE p.name = "matching"
    <3>1. PICK h : h = p.hop
      OBVIOUS
    <3>2. /\ Emitting(IF h > lastHop
                        THEN <<Event("HOP_STARTED", h), Event("HOP_FILLED", h)>>
                        ELSE <<Event("HOP_FILLED", h)>>, "sleep")
          /\ lastHop' = IF h > lastHop THEN h ELSE lastHop
          /\ imported' = imported
      BY <1>8, <2>2, <3>1 DEF routePhase, Emitting
    <3> QED BY <1>1, <2>1, <3>1, <3>2, FillKeeps
  <2>3. CASE p.name = "committed"
    BY <1>5, <1>8, <2>1, <2>3 DEF routePhase, Decided
  <2>4. CASE p.name = "refunded"
    BY <1>6, <1>8, <2>1, <2>4 DEF routePhase, Decided
  <2>5. CASE p.name = "rejected"
    BY <1>3, <1>8, <2>5 DEF routePhase
  <2>6. CASE p.name \notin {"matching", "committed", "refunded", "rejected"}
    BY <1>4, <1>8, <2>6 DEF routePhase
  <2> QED BY <2>2, <2>3, <2>4, <2>5, <2>6
<1>9. ASSUME Emitting(<<Event("QUOTE", 0)>>, "sleep"), UNCHANGED <<imported, lastHop>>
      PROVE  StreamInv'
  <2> DEFINE q == Event("QUOTE", 0)
  <2>1. q \in Events /\ Reported
    BY <1>1, EventTypes DEF StreamInv
  <2>2. spc' = "emit" /\ after' = "sleep" /\ todo' = <<q>>
    BY <1>9 DEF Emitting
  <2>3. todo' \in Seq(Events) /\ Len(todo') <= 2
    BY SMT, <2>1, <2>2
  <2>4. /\ lastHop' \in -1 .. Hops - 1 /\ lastHop <= lastHop' /\ imported' \in BOOLEAN
    BY SMT, <1>9, StreamAssumption DEF StreamInv, StreamTypeOK
  <2>5. Reported'
    BY <1>1, <1>9, <2>1 DEF Reported, Was, Started, Import
  <2>6. Sending'
    BY <2>2, <2>5 DEF Sending, Again
  <2> QED BY <1>1, <2>2, <2>3, <2>4, <2>6, HeadKeeps
<1> QED BY <1>2, <1>3, <1>7, <1>8, <1>9 DEF streamEvents, streamRoute, quoteLoop

\* What a send takes from todo, and what it leaves there.
Sends(e) ==
    /\ e.type \in Terminal => spc' = "closed"
    /\ truthful /\ e.type = "D_EXPORT_READY" => venue.name = "committed"
    /\ truthful /\ e.type = "REFUND_READY" => venue.name = "refunded"
    /\ e.type = "MATCHED" => Was(Import)
    /\ e.type = "HOP_FILLED" => \E h \in e.hop .. Hops - 1 : Was(Started(h))
    /\ e.type = "HOP_STARTED" => Below(e.hop) /\ e.hop < lastHop + 1

\* A send of e that is in place.
LEMMA SendKeeps ==
    ASSUME StreamInv, spc = "emit", Len(ch) < Cap, NEW e \in Events, Sends(e),
           UNCHANGED <<which, truthful, venue, after, imported, lastHop, caller>>,
           ch' = Append(ch, e), log' = Logged(e),
           todo' \in Seq(Events), Len(todo') <= 2,
           spc' \in {"emit", "sleep", "closed"},
           spc' = "emit" => Sending',
           spc' = "sleep" => todo' = <<>> /\ Reported'
    PROVE  StreamInv'
<1> USE StreamAssumption
<1>1. log \in Seq(Events) /\ InOrder /\ Below(lastHop + 1)
  BY DEF StreamInv, StreamTypeOK
<1>2. ch' \in Seq(Events) /\ Len(ch') <= Cap
  <2>1. ch \in Seq(Events)
    BY DEF StreamInv, StreamTypeOK
  <2> QED BY SMT, <2>1
<1>3. CASE log' = log
  <2>1. StreamTypeOK'
    BY <1>2, <1>3 DEF StreamInv, StreamTypeOK
  <2>2. InOrder' /\ Below(lastHop + 1)'
    BY <1>1, <1>3 DEF InOrder, Before, Below
  <2>3. OutcomeIsLast'
    <3>1. DOMAIN log' = 1 .. Len(log)
      BY SMT, <1>1, <1>3
    <3> QED BY <1>3, <3>1, NoOutcomeYet DEF OutcomeIsLast
  <2> QED BY <2>1, <2>2, <2>3 DEF StreamInv
<1>4. CASE log' = Append(log, e)
  <2>1. log' \in Seq(Events)
    BY <1>1, <1>4, LogGrows
  <2>2. StreamTypeOK'
    BY <1>2, <2>1 DEF StreamInv, StreamTypeOK
  <2>3. InOrder'
    BY <1>1, <1>4, OrderGrows DEF Sends
  <2>4. Below(lastHop + 1)'
    <3>1. PICK b : b = lastHop + 1
      OBVIOUS
    <3>2. Below(b) /\ (e.type = "HOP_STARTED" => e.hop < b)
      BY <1>1, <3>1 DEF Sends, Below
    <3>3. Below(b)'
      BY <1>1, <1>4, <3>2, BelowGrows
    <3> QED BY <3>1, <3>3 DEF Below
  <2>5. OutcomeIsLast'
    BY <1>4, OutcomeGrows DEF Sends
  <2> QED BY <2>2, <2>3, <2>4, <2>5 DEF StreamInv
<1> QED BY <1>3, <1>4 DEF Logged

\* The log only grows, and what was reported stays so.
LEMMA StaysReported ==
    ASSUME log \in Seq(Events), NEW e \in Events, log' = Logged(e)
    PROVE  /\ \A x : Was(x) => Was(x)'
           /\ e.type \in {"D_IMPORTED", "HOP_STARTED"} => Was(e)'
           /\ UNCHANGED <<imported, lastHop>> /\ Reported => Reported'
<1>1. log' = log \/ log' = Append(log, e)
  BY DEF Logged
<1>2. \A x : Was(x) => Was(x)'
  <2>1. CASE log' = log
    BY <2>1 DEF Was
  <2>2. CASE log' = Append(log, e)
    BY <2>2, LogGrows
  <2> QED BY <1>1, <2>1, <2>2
<1>3. ASSUME e.type \in {"D_IMPORTED", "HOP_STARTED"} PROVE Was(e)'
  <2>1. log' = Append(log, e)
    BY <1>3 DEF Logged
  <2> QED BY <2>1, LogGrows
<1>4. ASSUME UNCHANGED <<imported, lastHop>>, Reported PROVE Reported'
  <2>1. imported' => Was(Import)'
    BY <1>2, <1>4 DEF Reported, Import, Event
  <2>2. ASSUME lastHop >= 0 PROVE Was(Started(lastHop))'
    <3>1. PICK x : x = Started(lastHop)
      OBVIOUS
    <3>2. Was(x)
      BY <1>4, <2>2, <3>1 DEF Reported
    <3>3. Was(x)' /\ x = Started(lastHop)'
      BY <1>2, <1>4, <3>1, <3>2 DEF Started, Event
    <3> QED BY <3>3 DEF Was
  <2> QED BY <1>4, <2>1, <2>2 DEF Reported
<1> QED BY <1>2, <1>3, <1>4

LEMMA EmitKeeps ==
    ASSUME StreamInv, emit
    PROVE  StreamInv'
<1> USE StreamAssumption
<1>1. /\ spc = "emit" /\ UNCHANGED <<which, truthful, venue, after, imported, lastHop, caller>>
      /\ Sending /\ log \in Seq(Events) /\ imported \in BOOLEAN
      /\ lastHop \in -1 .. Hops - 1 /\ lastHop \in Int /\ lastHop < lastHop + 1
  <2>1. lastHop \in -1 .. Hops - 1
    BY DEF StreamInv, StreamTypeOK
  <2>2. lastHop \in Int /\ lastHop < lastHop + 1
    BY SMT, <2>1
  <2> QED BY <2>1, <2>2 DEF emit, StreamInv, StreamTypeOK
<1>2. CASE spc' = "closed" /\ UNCHANGED <<ch, todo, log>>
  <2>1. todo' \in Seq(Events) /\ Len(todo') <= 2 /\ after' \in {"sleep", "closed"}
    BY <1>1, <1>2 DEF StreamInv, StreamTypeOK
  <2>2. lastHop <= lastHop'
    BY SMT, <1>1
  <2> QED BY <1>1, <1>2, <2>1, <2>2, HeadKeeps
<1>3. ASSUME Len(ch) < Cap, ch' = Append(ch, Head(todo)), todo' = Tail(todo),
             spc' = IF Len(todo) = 1 THEN after ELSE "emit", log' = Logged(Head(todo))
      PROVE  StreamInv'
  <2>0. \A t, h : Event(t, h).type = t /\ Event(t, h).hop = h
    BY DEF Event
  <2>1. <<>> \in Seq(Events) /\ Len(<<>>) <= 2
    BY SMT
  <2>2. ASSUME NEW e \in Events, Final(e) PROVE StreamInv'
    <3>1. Head(todo) = e /\ Tail(todo) = <<>> /\ Len(todo) = 1
      BY <2>2, Short DEF Final
    <3>2. spc' = "closed" /\ todo' = <<>> /\ ch' = Append(ch, e) /\ log' = Logged(e)
      BY <1>3, <2>2, <3>1 DEF Final
    <3>3. Sends(e)
      BY <2>2, <3>2 DEF Final, Sends, Terminal
    <3> QED BY <1>1, <1>3, <2>1, <3>2, <3>3, SendKeeps
  <2>3. CASE after = "sleep" /\ FirstMatch
    <3> DEFINE m == Event("MATCHED", 0)
    <3>1. Import \in Events /\ m \in Events /\ Import.type = "D_IMPORTED"
      BY <2>0, EventTypes DEF Import
    <3>2. Head(todo) = Import /\ Tail(todo) = <<m>> /\ Len(todo) = 2 /\ Len(todo) # 1
      BY SMT, <2>3, <3>1, Short DEF FirstMatch
    <3>3. spc' = "emit" /\ todo' = <<m>> /\ ch' = Append(ch, Import) /\ log' = Logged(Import)
      BY <1>3, <3>2
    <3>4. Sends(Import)
      BY <3>1 DEF Sends, Terminal
    <3>5. Reported'
      <4>1. \A x : Was(x) => Was(x)'
        BY <1>1, <3>1, <3>3, StaysReported
      <4>2. PICK x : x = Import
        OBVIOUS
      <4>3. x \in Events /\ x.type = "D_IMPORTED" /\ log' = Logged(x)
        BY <3>1, <3>3, <4>2
      <4>4. Was(x)'
        BY <1>1, <4>3, StaysReported
      <4>5. Was(Import)'
        BY <4>2, <4>4 DEF Import, Was, Event
      <4>6. ASSUME lastHop >= 0 PROVE Was(Started(lastHop))'
        <5>1. PICK y : y = Started(lastHop)
          OBVIOUS
        <5>2. Was(y)'
          BY <2>3, <4>1, <4>6, <5>1 DEF FirstMatch
        <5> QED BY <1>1, <5>1, <5>2 DEF Started, Event, Was
      <4> QED BY <1>1, <4>5, <4>6 DEF Reported
    <3>6. Sending'
      BY <1>1, <2>3, <3>3, <3>5 DEF Sending, Again, FirstMatch
    <3>7. todo' \in Seq(Events) /\ Len(todo') <= 2
      BY SMT, <3>1, <3>3
    <3> QED BY <1>1, <1>3, <3>1, <3>3, <3>4, <3>6, <3>7, SendKeeps
  <2>4. CASE after = "sleep" /\ FirstFill
    <3>1. PICK e : e = Started(lastHop)
      OBVIOUS
    <3>2. PICK f : f = Event("HOP_FILLED", lastHop)
      OBVIOUS
    <3>3. lastHop \in 0 .. Hops - 1 /\ lastHop \in 0 .. lastHop
      BY SMT, <1>1, <2>4 DEF FirstFill
    <3>4. e \in Events /\ f \in Events /\ e.type = "HOP_STARTED" /\ e.hop = lastHop
      BY <2>0, <3>1, <3>2, <3>3, EventTypes DEF Started
    <3>5. Head(todo) = e /\ Tail(todo) = <<f>> /\ Len(todo) = 2 /\ Len(todo) # 1
      BY SMT, <2>4, <3>1, <3>2, <3>4, Short DEF FirstFill
    <3>6. spc' = "emit" /\ todo' = <<f>> /\ ch' = Append(ch, e) /\ log' = Logged(e)
      BY <1>3, <3>5
    <3>7. Sends(e)
      BY <1>1, <2>4, <3>4 DEF Sends, Terminal, FirstFill
    <3>8. Reported'
      <4>1. Was(e)' /\ \A x : Was(x) => Was(x)'
        BY <1>1, <3>4, <3>6, StaysReported
      <4>2. Was(Started(lastHop))'
        BY <1>1, <3>1, <4>1 DEF Started, Event, Was
      <4>3. imported' => Was(Import)'
        BY <1>1, <2>4, <4>1 DEF FirstFill, Import, Event
      <4> QED BY <4>2, <4>3 DEF Reported
    <3>9. Sending'
      <4>1. \E h \in 0 .. lastHop' : todo' = <<Event("HOP_FILLED", h)>>
        BY <1>1, <3>2, <3>3, <3>6
      <4> QED BY <1>1, <2>4, <3>8, <4>1 DEF Sending, Again
    <3>10. todo' \in Seq(Events) /\ Len(todo') <= 2
      BY SMT, <3>4, <3>6
    <3> QED BY <1>1, <1>3, <3>4, <3>6, <3>7, <3>9, <3>10, SendKeeps
  <2>5. CASE after = "sleep" /\ Again
    <3>1. ASSUME NEW e \in Events, todo = <<e>>, Sends(e) PROVE StreamInv'
      <4>1. Head(todo) = e /\ Tail(todo) = <<>> /\ Len(todo) = 1
        BY <3>1, Short
      <4>2. spc' = "sleep" /\ todo' = <<>> /\ ch' = Append(ch, e) /\ log' = Logged(e)
        BY <1>3, <2>5, <4>1
      <4>3. Reported'
        BY <1>1, <2>5, <4>2, StaysReported DEF Again
      <4> QED BY <1>1, <1>3, <2>1, <3>1, <4>2, <4>3, SendKeeps
    <3>2. CASE todo = <<Event("QUOTE", 0)>>
      <4>1. Sends(Event("QUOTE", 0)) /\ Event("QUOTE", 0) \in Events
        BY <2>0, EventTypes DEF Sends, Terminal
      <4> QED BY <3>1, <3>2, <4>1
    <3>3. CASE todo = <<Event("MATCHED", 0)>> /\ imported
      <4>1. Was(Import)
        BY <2>5, <3>3 DEF Again, Reported
      <4>2. Sends(Event("MATCHED", 0)) /\ Event("MATCHED", 0) \in Events
        BY ZenonT(60), <2>0, <4>1, EventTypes DEF Sends, Terminal
      <4> QED BY <3>1, <3>3, <4>2
    <3>4. ASSUME NEW h \in 0 .. lastHop, todo = <<Event("HOP_FILLED", h)>> PROVE StreamInv'
      <4>1. h \in 0 .. Hops - 1 /\ lastHop >= 0 /\ lastHop \in h .. Hops - 1
        BY SMT, <1>1
      <4>2. Was(Started(lastHop))
        BY <2>5, <4>1 DEF Again, Reported
      <4>3. Sends(Event("HOP_FILLED", h)) /\ Event("HOP_FILLED", h) \in Events
        BY ZenonT(60), <2>0, <4>1, <4>2, EventTypes DEF Sends, Terminal
      <4> QED BY <3>1, <3>4, <4>3
    <3> QED BY <2>5, <3>2, <3>3, <3>4 DEF Again
  <2> QED BY <1>1, <2>2, <2>3, <2>4, <2>5 DEF Sending
<1> QED BY <1>2, <1>3 DEF emit

LEMMA StreamStepInv ==
    ASSUME StreamInv, [StreamNext]_streamVars
    PROVE  StreamInv'
<1>1. CASE UNCHANGED streamVars
  <2>1. Len(ch') <= Len(ch) /\ ch' \in Seq(Events)
    BY SMT, <1>1 DEF StreamInv, StreamTypeOK, streamVars
  <2>2. caller' \in BOOLEAN \X BOOLEAN \X BOOLEAN
    BY <1>1 DEF StreamInv, StreamTypeOK, streamVars
  <2> QED BY <1>1, <2>1, <2>2, CallerKeeps DEF streamVars
<1>2. CASE sleepCtx
  BY <1>2, WaitsKeeps DEF sleepCtx
<1> QED BY <1>1, <1>2, BeginKeeps, LoopKeeps, EmitKeeps, CallerStep DEF StreamNext, Goroutine

\* Whatever the venue reports and however polls repeat, fail, skip hops and come
\* back with old views, hops start in order, none is filled past the last one
\* started, and an outcome comes once and last, the one D decided if the venue is
\* truthful: for every number of hops and every capacity of the channel.
THEOREM StreamsInOrder == StreamSpec => []StreamInOrder
<1>1. StreamInv => StreamInOrder
  BY DEF StreamInv, StreamInOrder
<1> QED BY <1>1, StreamInitInv, StreamStepInv, PTL DEF StreamSpec
================================================================================
