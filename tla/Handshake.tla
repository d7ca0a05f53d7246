------------------------------- MODULE Handshake -------------------------------
(***************************************************************************)
(* The ZAP-PQ handshake (handshake/initiator.go, responder.go, psk.go,     *)
(* transcript.go, kdf.go, identity.go, frames.go): one client "A" and one  *)
(* server "S" over several connections, full and resumed, on a network     *)
(* that loses connections, damages frames and delivers an old flight on a  *)
(* new connection.  Keys, hashes and signatures are the terms they are     *)
(* computed from: equal terms, equal bytes.                                *)
(***************************************************************************)
EXTENDS Integers, Sequences, FiniteSets

CONSTANTS
    Conns,          \* connections, numbered as they are dialled
    Setups,         \* functions from Conns to records [mode, suite, pin]
    Strict,         \* the server's profile is StrictPQ or FIPS
    AcceptedSuites, \* the server's list, possibly empty
    Lifetime,       \* PSKLifetimeSec
    Window,         \* ReplayWindowNS
    MaxTime, MaxFaults

ASSUME HandshakeConstants ==
    /\ Lifetime \in Nat \ {0} /\ Window \in Nat \ {0} /\ MaxTime \in Nat
    /\ MaxFaults \in Nat /\ Strict \in BOOLEAN

Nil == <<>>        \* a frame, session or psk that is not there
Anyone == "any"     \* no pinned identity
SuiteX25519MLKEM == 1
Classical == 0      \* PQModeClassicalPermitted

VARIABLES
    cfg,            \* per connection: what the initiator offers and pins
    ini, rsp,       \* per connection: pc and the frames seen so far
    toR, toI,       \* frames in flight
    si, sr,         \* the sessions Run returned
    ticket,         \* the ClientPSK the caller kept
    store, seen,    \* the server's PSKStore and its replay cache
    now, faults

wires == <<toR, toI>>
server == <<store, seen>>
env == <<now, faults>>
vars == <<cfg, ini, rsp, wires, si, sr, ticket, server, env>>

-------------------------------------------------------------------------------
(* Frames.  dmg says what the network changed: nothing, the ephemeral key or  *)
(* another field; a damaged frame may also fail to decode.                    *)

Frame(t, v) == [type |-> t, v |-> v, dmg |-> "no"]
HelloFrame(c) == Frame("HELLO", [rand |-> c, ts |-> now, id |-> "A",
    mode |-> cfg[c].mode, suite |-> cfg[c].suite, schemes |-> {cfg[c].suite}])
KEMInitFrame(c) == Frame("KEM_INIT", [eph |-> <<"I", c>>])
KEMReplyFrame(c) == Frame("KEM_REPLY", [eph |-> <<"R", c>>, ct |-> c, pk |-> "S"])
AuthFrame(role, sig) == Frame("AUTH", [role |-> role, sig |-> sig])
HelloPSKFrame(c, t) == Frame("HELLO_PSK", [rand |-> c, ts |-> now,
    mode |-> cfg[c].mode, suite |-> cfg[c].suite, psk |-> t.psk, eph |-> <<"I", c>>])
AlertFrame == Frame("ALERT", [code |-> Nil])
\* readFrame: a frame that decodes, or an error.
Decodes(f) == IF f.dmg = "no" THEN {TRUE} ELSE BOOLEAN
\* The ephemeral key a frame carries.
Eph(f) == IF f.dmg = "eph" THEN <<"damaged", f.v.eph>> ELSE f.v.eph

-------------------------------------------------------------------------------
(* Transcript, key schedule, signatures *)

AbsorbHello(suite, hello) == <<"ZAP-PQ-v1", suite, hello>>
AbsorbKEM(h0, init, reply) == <<h0, init, reply>>
FinishFull(h1, pkI, pkR, schemes) == <<h1, pkI, pkR, schemes>>

\* MUTANT of FinishPSK: the hello is not in the hash.
FinishEphOnly(h0, eph) == eph
FinishPSK(h0, eph) == <<h0, eph>>

ECDH(x, y) == {x, y}
\* Decapsulation of what was encapsulated to another key yields another secret.
Encapsulate(init, c) == <<Eph(init), c>>
Decapsulate(c, reply) ==
    IF reply.dmg = "no" THEN <<KEMInitFrame(c).v.eph, reply.v.ct>> ELSE <<"rejected", c>>

\* Both derivations extract with the transcript as salt, and expand one key per
\* direction and the resumption psk.
DeriveSession(h2, x, m) == [salt |-> h2, ikm |-> <<"ML-KEM", x, m>>]

DeriveResumed(h2, x, psk) == [salt |-> h2, ikm |-> <<"resumption", x, psk>>]
ResumptionPSK(prk) == [prk |-> prk]

signInput(h2, role, suite) == <<"ZAP-PQ-v1", suite, h2, role>>
Sign(id, h2, role, suite) == [by |-> id, over |-> signInput(h2, role, suite)]

\* MUTANT of VerifyAuth: the key is right, what it signed is not looked at.
KeyOnly(id, h2, role, suite, f) == f.dmg = "no" /\ f.v.sig.by = id
VerifyAuth(id, h2, role, suite, f) ==
    f.dmg = "no" /\ f.v.sig = Sign(id, h2, role, suite)

MakeClientPSK(prk, peer) ==
    [psk |-> ResumptionPSK(prk), peer |-> peer, until |-> now + Lifetime]
\* newSession: keys by direction, and for the initiator the psk to come back with;
\* from is the psk the session was resumed from.
newSession(role, peer, suite, prk, from) ==
    [peer |-> peer, suite |-> suite, from |-> from,
     send |-> <<prk, role>>, recv |-> <<prk, IF role = "I" THEN "R" ELSE "I">>,
     psk |-> IF role = "I" THEN MakeClientPSK(prk, peer) ELSE Nil]

-------------------------------------------------------------------------------
(* The server's stores *)

Issue(entries, prk, client) ==
    {e \in entries : e.psk # ResumptionPSK(prk)}
        \cup {[psk |-> ResumptionPSK(prk), client |-> client, expires |-> now + Lifetime]}

Redeemable(psk) == {e \in store : e.psk = psk /\ now <= e.expires}

\* MUTANT of Redeem: the entry stays.
RedeemKeeps(psk) == store
\* Redeem takes the entry out, valid or expired, whatever becomes of the handshake.
Redeem(psk) == {e \in store : e.psk # psk}

Sweep ==
    /\ \E e \in store : now > e.expires
    /\ store' = {e \in store : now <= e.expires}
    /\ UNCHANGED <<cfg, ini, rsp, wires, si, sr, ticket, seen, env>>

CheckTimestamp(ts) == now - ts \in -Window .. Window

\* The cache after SeenOrAdd; that it keeps a key for the window is shown in
\* ReplayCache.
SeenOrAdd(k) == seen \cup {k}

acceptsSuite(s) ==
    s = SuiteX25519MLKEM /\ (AcceptedSuites = {} \/ s \in AcceptedSuites)

-------------------------------------------------------------------------------
\* The secret of a session before the first connection.
Earlier == DeriveSession(<<>>, {}, <<>>)

\* The client may come with the psk of an earlier session.
Init ==
    /\ cfg \in Setups
    /\ ini = [c \in Conns |-> [pc |-> "idle", hello |-> Nil, init |-> Nil, reply |-> Nil]]
    /\ rsp = [c \in Conns |-> [pc |-> "hello", hello |-> Nil, init |-> Nil, h2 |-> Nil]]
    /\ toR = [c \in Conns |-> <<>>] /\ toI = [c \in Conns |-> <<>>]
    /\ si = [c \in Conns |-> Nil] /\ sr = [c \in Conns |-> Nil]
    /\ now = 0
    /\ \/ ticket = Nil /\ store = {}
       \/ /\ ticket = MakeClientPSK(Earlier, "S") /\ store = Issue({}, Earlier, "A")
    /\ seen = {} /\ faults = 0

Session(s) == s # Nil
\* Every variable has its type; a session exists exactly where Run returned one.
TypeOK ==
    /\ \A c \in Conns :
        /\ ini[c].pc \in {"idle", "reply", "auth", "resume", "done", "failed"}
        /\ rsp[c].pc \in {"hello", "kem", "auth", "done", "failed"}
        /\ Session(si[c]) <=> ini[c].pc = "done"
        /\ Session(sr[c]) <=> rsp[c].pc = "done"
        /\ Len(toR[c]) <= 4 /\ Len(toI[c]) <= 3
    /\ now \in 0 .. MaxTime /\ faults \in 0 .. MaxFaults

\* The initiator ends with an error; alert says whether it tells the peer.
InitFails(c, alert) ==
    /\ ini' = [ini EXCEPT ![c].pc = "failed"]
    /\ toR' = IF alert THEN [toR EXCEPT ![c] = Append(@, AlertFrame)] ELSE toR
    /\ toI' = [toI EXCEPT ![c] = Tail(@)]
    /\ UNCHANGED <<cfg, rsp, si, sr, ticket, server, env>>
RespFails(c, alert) ==
    /\ rsp' = [rsp EXCEPT ![c].pc = "failed"]
    /\ toI' = IF alert THEN [toI EXCEPT ![c] = Append(@, AlertFrame)] ELSE toI
    /\ toR' = [toR EXCEPT ![c] = Tail(@)]
    /\ UNCHANGED <<cfg, ini, si, sr, ticket, env>>

-------------------------------------------------------------------------------
(* The initiator *)

Dialled(c) == ini[c].pc = "idle" /\ \A d \in Conns : d < c => ini[d].pc # "idle"

\* Run up to the first read: a suite it cannot speak is refused before anything
\* is sent; a psk that has not expired is resumed.
InitRun(c) ==
    /\ Dialled(c)
    /\ LET full == <<HelloFrame(c), KEMInitFrame(c)>>
           psk == <<HelloPSKFrame(c, ticket)>> IN
       IF cfg[c].suite # SuiteX25519MLKEM
         THEN ini' = [ini EXCEPT ![c].pc = "failed"] /\ UNCHANGED toR
       ELSE IF ticket # Nil /\ ticket.until > now
         THEN /\ ini' = [ini EXCEPT ![c].pc = "resume", ![c].hello = psk[1],
                                    ![c].reply = ticket]
              /\ toR' = [toR EXCEPT ![c] = psk]
       ELSE /\ ini' = [ini EXCEPT ![c].pc = "reply", ![c].hello = full[1],
                                  ![c].init = full[2]]
            /\ toR' = [toR EXCEPT ![c] = full]
    /\ UNCHANGED <<cfg, rsp, toI, si, sr, ticket, server, env>>

\* runFull, KEM_REPLY: an alert or another frame ends the run quietly, a bad
\* reply or an identity that is not the pinned one with an alert.
InitReply(c) ==
    /\ ini[c].pc = "reply" /\ toI[c] # <<>>
    /\ LET f == Head(toI[c]) IN
       IF f.type # "KEM_REPLY" THEN InitFails(c, FALSE)
       ELSE \E ok \in Decodes(f) :
            IF ~ok \/ cfg[c].pin \notin {Anyone, f.v.pk} THEN InitFails(c, TRUE)
            ELSE /\ ini' = [ini EXCEPT ![c].pc = "auth", ![c].reply = f]
                 /\ toI' = [toI EXCEPT ![c] = Tail(@)]
                 /\ UNCHANGED <<cfg, rsp, toR, si, sr, ticket, server, env>>

\* The transcript of a full handshake, from one side's frames.
H2(hello, init, reply) ==
    FinishFull(AbsorbKEM(AbsorbHello(hello.v.suite, hello), init, reply),
               hello.v.id, reply.v.pk, hello.v.schemes)

\* runFull, the responder's AUTH: verify, sign and send ours, derive, return.
InitAuth(c) ==
    /\ ini[c].pc = "auth" /\ toI[c] # <<>>
    /\ LET f == Head(toI[c])
           reply == ini[c].reply
           suite == cfg[c].suite
           h2 == H2(ini[c].hello, ini[c].init, reply)
           prk == DeriveSession(h2, ECDH(<<"I", c>>, Eph(reply)), Decapsulate(c, reply)) IN
       IF f.type # "AUTH" THEN InitFails(c, FALSE)
       ELSE IF f.v.role # "R" \/ ~VerifyAuth(reply.v.pk, h2, "R", suite, f)
         THEN InitFails(c, TRUE)
       ELSE /\ ini' = [ini EXCEPT ![c].pc = "done"]
            /\ si' = [si EXCEPT ![c] = newSession("I", reply.v.pk, suite, prk, Nil)]
            /\ toR' = [toR EXCEPT ![c] = Append(@, AuthFrame("I", Sign("A", h2, "I", suite)))]
            /\ toI' = [toI EXCEPT ![c] = Tail(@)]
            /\ UNCHANGED <<cfg, rsp, sr, ticket, server, env>>

\* runResume, the 32-byte reply: derive and return; the peer is the one the psk
\* was made with.
InitResume(c) ==
    /\ ini[c].pc = "resume" /\ toI[c] # <<>>
    /\ LET f == Head(toI[c])
           t == ini[c].reply
           prk == DeriveResumed(FinishPSK(AbsorbHello(cfg[c].suite, ini[c].hello), Eph(f)),
                                ECDH(<<"I", c>>, Eph(f)), t.psk) IN
       IF f.type = "ALERT" THEN InitFails(c, FALSE)
       ELSE \E ok \in Decodes(f) :
            IF ~ok \/ f.type # "KEM_REPLY" THEN InitFails(c, TRUE)
            ELSE /\ ini' = [ini EXCEPT ![c].pc = "done", ![c].reply = f]
                 /\ si' = [si EXCEPT ![c] =
                             newSession("I", t.peer, cfg[c].suite, prk, t.psk)]
                 /\ toI' = [toI EXCEPT ![c] = Tail(@)]
                 /\ UNCHANGED <<cfg, rsp, toR, sr, ticket, server, env>>

-------------------------------------------------------------------------------
(* The responder *)

\* The suite, and the downgrade defence of the strict profiles.  An initiator offers
\* [Suite] unless told otherwise, so that the checks of offered_schemes (it has the
\* suite, and under a strict profile known ones only) add nothing for its hellos; a
\* damaged one may fail them, as in Decodes.  The responder has a replay cache and
\* a psk store; without them it takes every hello as new, and knows no psk.
Refuses(v) == ~acceptsSuite(v.suite) \/ (Strict /\ v.mode = Classical)

\* Run and runFull up to KEM_INIT: decode, suite, downgrade, timestamp, replay,
\* and the binding of client_id to the key, in this order.
RespHello(c) ==
    /\ rsp[c].pc = "hello" /\ toR[c] # <<>> /\ Head(toR[c]).type = "HELLO"
    /\ LET f == Head(toR[c])
           k == [of |-> [id |-> f.v.id], rand |-> f.v.rand, dmg |-> f.dmg] IN
       \E ok \in Decodes(f), bound \in Decodes(f) :
            IF ~ok \/ Refuses(f.v) \/ ~CheckTimestamp(f.v.ts) \/ k \in seen
              THEN RespFails(c, TRUE) /\ UNCHANGED server
            ELSE /\ seen' = SeenOrAdd(k) /\ UNCHANGED store
                 /\ IF ~bound THEN RespFails(c, TRUE)
                    ELSE /\ rsp' = [rsp EXCEPT ![c].pc = "kem", ![c].hello = f]
                         /\ toR' = [toR EXCEPT ![c] = Tail(@)]
                         /\ UNCHANGED <<cfg, ini, toI, si, sr, ticket, env>>

\* runFull, KEM_INIT: encapsulate, reply, sign the transcript and send AUTH.
RespKEM(c) ==
    /\ rsp[c].pc = "kem" /\ toR[c] # <<>>
    /\ LET f == Head(toR[c])
           hello == rsp[c].hello
           h2 == H2(hello, f, KEMReplyFrame(c)) IN
       IF f.type # "KEM_INIT" THEN RespFails(c, FALSE)
       ELSE \E ok \in Decodes(f) :
            IF ~ok THEN RespFails(c, TRUE)
            ELSE /\ rsp' = [rsp EXCEPT ![c].pc = "auth", ![c].init = f, ![c].h2 = h2]
                 /\ toI' = [toI EXCEPT ![c] = @ \o <<KEMReplyFrame(c),
                              AuthFrame("R", Sign("S", h2, "R", hello.v.suite))>>]
                 /\ toR' = [toR EXCEPT ![c] = Tail(@)]
                 /\ UNCHANGED <<cfg, ini, si, sr, ticket, env>>
    /\ UNCHANGED server

\* runFull, the initiator's AUTH: verify, derive, issue the psk, return.
RespAuth(c) ==
    /\ rsp[c].pc = "auth" /\ toR[c] # <<>>
    /\ LET f == Head(toR[c])
           hello == rsp[c].hello
           prk == DeriveSession(rsp[c].h2, ECDH(<<"R", c>>, Eph(rsp[c].init)),
                                Encapsulate(rsp[c].init, c)) IN
       IF f.type # "AUTH" THEN RespFails(c, FALSE) /\ UNCHANGED server
       ELSE IF f.v.role # "I" \/ ~VerifyAuth(hello.v.id, rsp[c].h2, "I", hello.v.suite, f)
         THEN RespFails(c, TRUE) /\ UNCHANGED server
       ELSE /\ rsp' = [rsp EXCEPT ![c].pc = "done"]
            /\ store' = Issue(store, prk, hello.v.id) /\ UNCHANGED seen
            /\ sr' = [sr EXCEPT ![c] = newSession("R", hello.v.id, hello.v.suite, prk, Nil)]
            /\ toR' = [toR EXCEPT ![c] = Tail(@)]
            /\ UNCHANGED <<cfg, ini, toI, si, ticket, env>>

\* A write fails only when the peer has gone.
Writes(peer) == IF peer.pc = "failed" THEN BOOLEAN ELSE {TRUE}

\* runResume: the gates of a full hello under the psk's own key, then Redeem; the
\* reply is sent, the next psk issued and the session returned in one go.
RespResume(c) ==
    /\ rsp[c].pc = "hello" /\ toR[c] # <<>> /\ Head(toR[c]).type = "HELLO_PSK"
    /\ LET f == Head(toR[c])
           k == [of |-> f.v.psk, rand |-> f.v.rand, dmg |-> f.dmg]
           h2 == FinishPSK(AbsorbHello(f.v.suite, f), <<"R", c>>)
           prk == DeriveResumed(h2, ECDH(<<"R", c>>, Eph(f)), f.v.psk) IN
       \E ok \in Decodes(f), known \in Decodes(f), wrote \in Writes(ini[c]) :
            IF ~ok \/ Refuses(f.v) \/ ~CheckTimestamp(f.v.ts) \/ k \in seen
              THEN RespFails(c, TRUE) /\ UNCHANGED server
            ELSE /\ seen' = SeenOrAdd(k)
                 /\ IF ~known \/ Redeemable(f.v.psk) = {}
                    THEN /\ RespFails(c, TRUE)
                         /\ store' = IF known THEN Redeem(f.v.psk) ELSE store
                    ELSE IF ~wrote
                    THEN RespFails(c, FALSE) /\ store' = Redeem(f.v.psk)
                    ELSE LET e == CHOOSE x \in Redeemable(f.v.psk) : TRUE IN
                         /\ rsp' = [rsp EXCEPT ![c].pc = "done", ![c].hello = f]
                         /\ store' = Issue(Redeem(f.v.psk), prk, e.client)
                         /\ sr' = [sr EXCEPT ![c] =
                                     newSession("R", e.client, f.v.suite, prk, f.v.psk)]
                         /\ toI' = [toI EXCEPT ![c] =
                                     Append(@, Frame("KEM_REPLY", [eph |-> <<"R", c>>]))]
                         /\ toR' = [toR EXCEPT ![c] = Tail(@)]
                         /\ UNCHANGED <<cfg, ini, si, ticket, env>>

\* Run: any other first frame.
RespOther(c) ==
    /\ rsp[c].pc = "hello" /\ toR[c] # <<>>
    /\ Head(toR[c]).type \notin {"HELLO", "HELLO_PSK"}
    /\ RespFails(c, Head(toR[c]).type # "ALERT") /\ UNCHANGED server

-------------------------------------------------------------------------------
(* The network and the callers *)

Waiting(p) == p.pc \notin {"idle", "done", "failed"}

\* MUTANT of ReadFails: without a deadline only a closed connection ends a read.
OnlyEOF(c) ==
    /\ UNCHANGED <<cfg, wires, si, sr, ticket, server, env>>
    /\ \/ /\ Waiting(ini[c]) /\ toI[c] = <<>> /\ rsp[c].pc = "failed"
          /\ ini' = [ini EXCEPT ![c].pc = "failed"] /\ UNCHANGED rsp
       \/ /\ Waiting(rsp[c]) /\ toR[c] = <<>> /\ ini[c].pc = "failed" /\ toI[c] = <<>>
          /\ rsp' = [rsp EXCEPT ![c].pc = "failed"] /\ UNCHANGED ini

\* A read ends without a frame: the deadline Run set, or a lost connection.
ReadFails(c) ==
    /\ UNCHANGED <<cfg, wires, si, sr, ticket, server, env>>
    /\ \/ /\ Waiting(ini[c]) /\ toI[c] = <<>>
          /\ ini' = [ini EXCEPT ![c].pc = "failed"] /\ UNCHANGED rsp
       \/ /\ Waiting(rsp[c]) /\ toR[c] = <<>> /\ ini[c].pc # "idle"
          /\ rsp' = [rsp EXCEPT ![c].pc = "failed"] /\ UNCHANGED ini

Damage(c) ==
    /\ faults < MaxFaults /\ faults' = faults + 1
    /\ \E d \in {"eph", "field"} :
        \/ /\ toR[c] # <<>> /\ toI' = toI
           /\ d = "eph" => "eph" \in DOMAIN Head(toR[c]).v
           /\ toR' = [toR EXCEPT ![c][1].dmg = d]
        \/ /\ toI[c] # <<>> /\ toR' = toR
           /\ d = "eph" => "eph" \in DOMAIN Head(toI[c]).v
           /\ toI' = [toI EXCEPT ![c][1].dmg = d]
    /\ UNCHANGED <<cfg, ini, rsp, si, sr, ticket, server, now>>

\* What the initiator of d first sent, or what followed its hello, arrives once
\* more, on connection c.
Redeliver(c, d) ==
    /\ Dialled(c) /\ ini[d].hello # Nil /\ faults < MaxFaults
    /\ faults' = faults + 1 /\ ini' = [ini EXCEPT ![c].pc = "failed"]
    /\ \E flight \in IF ini[d].init = Nil THEN {<<ini[d].hello>>}
                     ELSE {<<ini[d].hello, ini[d].init>>, <<ini[d].init>>} :
          toR' = [toR EXCEPT ![c] = flight]
    /\ UNCHANGED <<cfg, rsp, toI, si, sr, ticket, server, now>>

\* The caller keeps the psk of a session for the next Run, or drops it.
KeepTicket(c) ==
    /\ Session(si[c])
    /\ ticket # si[c].psk /\ ticket' = si[c].psk
    /\ UNCHANGED <<cfg, ini, rsp, wires, si, sr, server, env>>
DropTicket ==
    /\ ticket # Nil /\ ticket' = Nil
    /\ UNCHANGED <<cfg, ini, rsp, wires, si, sr, server, env>>

Tick ==
    /\ now < MaxTime /\ now' = now + 1
    /\ UNCHANGED <<cfg, ini, rsp, wires, si, sr, ticket, server, faults>>

Initiator(c) == InitRun(c) \/ InitReply(c) \/ InitAuth(c) \/ InitResume(c)
Responder(c) == RespHello(c) \/ RespKEM(c) \/ RespAuth(c) \/ RespResume(c) \/ RespOther(c)
Next ==
    \/ \E c \in Conns : \/ Initiator(c) \/ Responder(c) \/ ReadFails(c)
                        \/ Damage(c) \/ KeepTicket(c)
                        \/ \E d \in Conns : Redeliver(c, d)
    \/ DropTicket \/ Sweep \/ Tick

\* A side that can read does, and a read that gets nothing meets its deadline.
Fairness == \A c \in Conns :
    WF_vars(InitReply(c) \/ InitAuth(c) \/ InitResume(c) \/ Responder(c) \/ ReadFails(c))
Spec == Init /\ [][Next]_vars /\ Fairness

-------------------------------------------------------------------------------
\* Mirrored keys: what one side sends with, the other receives with.
Mirrored(s, t) == s.send = t.recv /\ s.recv = t.send

\* When the server's full handshake returns, the client's on the same connection
\* has returned too, with the same keys and suite, each with the other's verified
\* identity, and within the client's pin and the server's policy; damaged frames,
\* alerts and failures in between notwithstanding (runFull on both sides).
FullAgreement ==
    \A c \in Conns : Session(sr[c]) /\ sr[c].from = Nil =>
        /\ Session(si[c]) /\ Mirrored(si[c], sr[c]) /\ si[c].suite = sr[c].suite
        /\ si[c].peer = "S" /\ sr[c].peer = "A" /\ cfg[c].pin \in {Anyone, "S"}
        /\ acceptsSuite(sr[c].suite) /\ (Strict => cfg[c].mode # Classical)

\* A resumed handshake exchanges no AUTH: both sides may return although a frame
\* was damaged.  Then, and only then, their keys differ, so that the first record
\* is refused (FinishPSK, DeriveResumed).
ResumedKeysTellDamage ==
    \A c \in Conns : Session(sr[c]) /\ Session(si[c]) /\ sr[c].from # Nil =>
        (Mirrored(si[c], sr[c]) <=>
            rsp[c].hello = ini[c].hello /\ Eph(ini[c].reply) = <<"R", c>>)

\* A psk opens one session at most, on either side, however many connections
\* offer it and whether or not the handshakes it is offered in succeed (Redeem);
\* and no two sessions have a key in common.
PSKSingleUse ==
    \A c, d \in Conns : c # d =>
        /\ Session(sr[c]) /\ Session(sr[d]) =>
            sr[c].send # sr[d].send /\ (sr[c].from # Nil => sr[c].from # sr[d].from)
        /\ Session(si[c]) /\ Session(si[d]) =>
            si[c].send # si[d].send /\ (si[c].from # Nil => si[c].from # si[d].from)

\* One hello opens one handshake at most at the server, even when it arrives on
\* two connections (ReplayCache before any key operation).
HelloAcceptedOnce ==
    \A c, d \in Conns : c # d /\ rsp[c].hello # Nil => rsp[c].hello # rsp[d].hello

\* The type invariant, and what is accepted is accepted once: a psk on either
\* side, and a hello at the server (PSKSingleUse, HelloAcceptedOnce).
AcceptedOnce == TypeOK /\ PSKSingleUse /\ HelloAcceptedOnce

\* Every handshake that was begun ends, on both sides, whatever the peer does
\* (the deadline of HandshakeTimeoutSec).
HandshakeEnds == \A c \in Conns :
    (ini[c].pc # "idle") ~> (~Waiting(ini[c]) /\ ~Waiting(rsp[c]))
================================================================================
