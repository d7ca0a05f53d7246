---------------------------- MODULE HandshakeProofs ----------------------------
(***************************************************************************)
(* Proofs about Handshake: for any number of connections, faults and       *)
(* ticks, any setups and any lists of suites,                              *)
(*   - FullAgreement: a full handshake that returned at the server has     *)
(*     returned at the client with the same keys, suite and identities;    *)
(*   - ResumedKeysTellDamage: a resumed one has the same keys on both      *)
(*     sides exactly when nothing was damaged;                             *)
(*   - AcceptedOnce: a psk opens one session, a hello one handshake.       *)
(* The inductive invariant says for each connection what the frames in     *)
(* flight were made of (FromClient, FromServer), what each side's run      *)
(* knows when it has got so far (Client, Server), and for the server what  *)
(* its stores hold (Stores).                                               *)
(***************************************************************************)
EXTENDS Handshake, TLAPS

\* Leaves go to Zenon; the ones that need arithmetic or sequences name SMT.
USE Zenon

-------------------------------------------------------------------------------
(* The inductive invariant.                                                    *)

\* The elements of a sequence, and what makes it one.
In(s) == {s[i] : i \in 1 .. Len(s)}
IsSeq(s) == s \in Seq(In(s))

IsFrame(f) == DOMAIN f = {"type", "v", "dmg"}

\* The functions and the records have their domains.
Domains ==
    /\ DOMAIN ini = Conns /\ DOMAIN rsp = Conns /\ DOMAIN toR = Conns
    /\ DOMAIN toI = Conns /\ DOMAIN si = Conns /\ DOMAIN sr = Conns
    /\ \A c \in Conns : /\ DOMAIN ini[c] = {"pc", "hello", "init", "reply"}
                        /\ DOMAIN rsp[c] = {"pc", "hello", "init", "h2"}

\* What a connection has in flight grows with the steps of its two runs.
Bounded(c) ==
    /\ IsSeq(toR[c]) /\ IsSeq(toI[c])
    /\ ini[c].pc = "idle" =>
          /\ toR[c] = <<>> /\ toI[c] = <<>> /\ rsp[c].pc = "hello"
          /\ ini[c].hello = Nil /\ ini[c].init = Nil
    /\ ini[c].pc \in {"reply", "auth", "resume"} => Len(toR[c]) <= 2
    /\ Len(toR[c]) <= 3
    /\ rsp[c].pc \in {"hello", "kem"} => toI[c] = <<>>
    /\ rsp[c].pc = "auth" => Len(toI[c]) <= 2
    /\ Len(toI[c]) <= 3

\* What the initiator of c began with: a full handshake or a resumption.
FullHello(c) ==
    /\ ini[c].hello = Frame("HELLO", [rand |-> c, ts |-> ini[c].hello.v.ts, id |-> "A",
          mode |-> cfg[c].mode, suite |-> cfg[c].suite, schemes |-> {cfg[c].suite}])
    /\ ini[c].init = KEMInitFrame(c)
PSKHello(c) ==
    /\ ini[c].hello = Frame("HELLO_PSK", [rand |-> c, ts |-> ini[c].hello.v.ts,
          mode |-> cfg[c].mode, suite |-> cfg[c].suite, psk |-> ini[c].hello.v.psk,
          eph |-> <<"I", c>>])
    /\ ini[c].hello.v.psk # Nil /\ ini[c].init = Nil

\* The transcript and the secret of each side's run.
InitH2(c) == H2(ini[c].hello, ini[c].init, ini[c].reply)
FullSecret(c) ==
    DeriveSession(InitH2(c), ECDH(<<"I", c>>, Eph(ini[c].reply)),
                  Decapsulate(c, ini[c].reply))
PSKSecret(c) ==
    DeriveResumed(FinishPSK(AbsorbHello(cfg[c].suite, ini[c].hello), Eph(ini[c].reply)),
                  ECDH(<<"I", c>>, Eph(ini[c].reply)), ini[c].hello.v.psk)
RespFullSecret(c) ==
    DeriveSession(rsp[c].h2, ECDH(<<"R", c>>, Eph(rsp[c].init)),
                  Encapsulate(rsp[c].init, c))
RespPSKSecret(c) ==
    DeriveResumed(FinishPSK(AbsorbHello(rsp[c].hello.v.suite, rsp[c].hello), <<"R", c>>),
                  ECDH(<<"R", c>>, Eph(rsp[c].hello)), rsp[c].hello.v.psk)

\* A session with the keys of a secret, seen from one side.
Keyed(s, role, prk) ==
    s.send = <<prk, role>> /\ s.recv = <<prk, IF role = "I" THEN "R" ELSE "I">>

\* The client offered what the server read, unless the client's run is over.
Offered(c, P) == ini[c].pc = "failed" \/ P

\* What the server knows once it has passed the gates of a full hello, once it
\* has signed the transcript, and once it has resumed.
Passed(c) ==
    /\ rsp[c].hello.type = "HELLO" /\ rsp[c].hello.v.id = "A" /\ ~Refuses(rsp[c].hello.v)
    /\ Offered(c, FullHello(c))
Signed(c) ==
    /\ Passed(c) /\ rsp[c].pc \notin {"hello", "kem"}
    /\ rsp[c].h2 = H2(rsp[c].hello, rsp[c].init, KEMReplyFrame(c))
Resumed(c) ==
    /\ Session(sr[c]) /\ sr[c].from # Nil /\ sr[c].from = rsp[c].hello.v.psk
    /\ rsp[c].hello.type = "HELLO_PSK"
    /\ Offered(c, PSKHello(c) /\ sr[c].from = ini[c].hello.v.psk)

\* The client's session: a full one was verified against the server's signature,
\* a resumed one follows the server's.
ClientFull(c) ==
    /\ FullHello(c) /\ Signed(c) /\ rsp[c].h2 = InitH2(c)
    /\ Keyed(si[c], "I", FullSecret(c)) /\ si[c].from = Nil
    /\ si[c].suite = cfg[c].suite /\ si[c].peer = ini[c].reply.v.pk
    /\ cfg[c].pin \in {Anyone, ini[c].reply.v.pk}
ClientPSK(c) ==
    /\ PSKHello(c) /\ Resumed(c)
    /\ Keyed(si[c], "I", PSKSecret(c)) /\ si[c].from = ini[c].hello.v.psk
Client(c) ==
    /\ ini[c].pc \in {"idle", "reply", "auth", "resume", "done", "failed"}
    /\ (ini[c].hello = Nil /\ ini[c].init = Nil) \/ FullHello(c) \/ PSKHello(c)
    /\ ini[c].pc \in {"reply", "auth"} => FullHello(c)
    /\ ini[c].pc = "auth" => cfg[c].pin \in {Anyone, ini[c].reply.v.pk}
    /\ ini[c].pc = "resume" => PSKHello(c) /\ ini[c].reply.psk = ini[c].hello.v.psk
    /\ Session(si[c]) <=> ini[c].pc = "done"
    /\ ini[c].pc = "done" => (ClientFull(c) \/ ClientPSK(c)) /\ si[c].psk.psk # Nil

\* The server's session: a full one was verified against the client's signature.
ServerFull(c) ==
    /\ ini[c].pc = "done" /\ ClientFull(c)
    /\ Keyed(sr[c], "R", RespFullSecret(c)) /\ sr[c].from = Nil
    /\ sr[c].suite = rsp[c].hello.v.suite /\ sr[c].peer = "A"
ServerPSK(c) == Resumed(c) /\ Keyed(sr[c], "R", RespPSKSecret(c))
Server(c) ==
    /\ rsp[c].pc \in {"hello", "kem", "auth", "done", "failed"}
    /\ rsp[c].pc = "kem" => Passed(c)
    /\ rsp[c].pc = "auth" => Signed(c)
    /\ Session(sr[c]) <=> rsp[c].pc = "done"
    /\ rsp[c].pc = "done" => ServerFull(c) \/ ServerPSK(c)

\* The frames in flight, to the server and to the client.
FromClient(c, f) ==
    /\ IsFrame(f)
    /\ f.type = "HELLO" => f.v.id = "A" /\ Offered(c, FullHello(c))
    /\ f.type = "HELLO_PSK" =>
          f.v.psk # Nil /\ Offered(c, PSKHello(c) /\ f.v.psk = ini[c].hello.v.psk)
    /\ f.type = "AUTH" =>
          /\ ini[c].pc = "done" /\ ClientFull(c)
          /\ f.v.sig = Sign("A", InitH2(c), "I", cfg[c].suite)
FromServer(c, f) ==
    /\ IsFrame(f)
    /\ f.type = "KEM_REPLY" /\ ini[c].pc = "resume" => Resumed(c)
    /\ f.type = "AUTH" =>
          Signed(c) /\ f.v.sig = Sign("S", rsp[c].h2, "R", rsp[c].hello.v.suite)
Flights(c) ==
    /\ \A f \in In(toR[c]) : FromClient(c, f)
    /\ \A f \in In(toI[c]) : FromServer(c, f)

\* A psk the server has issued, and the key a hello has in the replay cache.
Issued(p) ==
    p = ResumptionPSK(Earlier)
    \/ \E c \in Conns : Session(sr[c]) /\ p = ResumptionPSK(sr[c].send[1])
KeyOf(f) == [of |-> IF f.type = "HELLO" THEN [id |-> f.v.id] ELSE f.v.psk,
             rand |-> f.v.rand, dmg |-> f.dmg]

\* What has been read is in the cache, what has been redeemed was issued once
\* and is not in the store.
Remembered == \A c \in Conns : rsp[c].hello # Nil => KeyOf(rsp[c].hello) \in seen
Redeemed(p) == Issued(p) /\ \A e \in store : e.psk # p
Stores ==
    /\ \A e \in store : Issued(e.psk)
    /\ \A c \in Conns : Session(sr[c]) /\ sr[c].from # Nil => Redeemed(sr[c].from)
    /\ \A c, d \in Conns : Session(sr[c]) /\ Session(sr[d]) /\ sr[c].from # Nil /\ c # d =>
          sr[c].from # sr[d].from
Ticket == ticket # Nil => ticket.psk # Nil
Times == now \in 0 .. MaxTime /\ faults \in 0 .. MaxFaults

Local(c) == Bounded(c) /\ Client(c) /\ Server(c) /\ Flights(c)
Inv == /\ Domains /\ Times /\ Ticket /\ Remembered /\ HelloAcceptedOnce /\ Stores
       /\ \A c \in Conns : Local(c)

-------------------------------------------------------------------------------
(* Sequences.                                                                  *)

LEMMA SeqIn ==
    ASSUME NEW S, NEW s \in Seq(S)
    PROVE  IsSeq(s) /\ In(s) \subseteq S /\ Len(s) \in Nat
  BY SMT DEF IsSeq, In

LEMMA SeqHead ==
    ASSUME NEW s, IsSeq(s), s # <<>>
    PROVE  /\ Head(s) \in In(s) /\ IsSeq(Tail(s)) /\ In(Tail(s)) \subseteq In(s)
           /\ Len(s) \in Nat /\ Len(s) >= 1 /\ Len(Tail(s)) = Len(s) - 1
<1>1. PICK S : S = In(s) /\ s \in Seq(S)
  BY DEF IsSeq
<1>2. /\ Len(s) \in Nat /\ Len(s) >= 1 /\ Head(s) \in S /\ Tail(s) \in Seq(S)
      /\ Len(Tail(s)) = Len(s) - 1
  BY SMT, <1>1
<1> QED
  BY <1>1, <1>2, SeqIn

LEMMA SeqAppend ==
    ASSUME NEW s, IsSeq(s), NEW f
    PROVE  /\ IsSeq(Append(s, f)) /\ In(Append(s, f)) \subseteq In(s) \cup {f}
           /\ Len(s) \in Nat /\ Len(Append(s, f)) = Len(s) + 1
<1>1. PICK S : S = In(s) \cup {f} /\ s \in Seq(S) /\ f \in S
  <2>1. PICK S : S = In(s) \cup {f}
    OBVIOUS
  <2>2. s \in Seq(S)
    BY SMT, <2>1 DEF IsSeq
  <2> QED
    BY <2>1, <2>2
<1>2. Append(s, f) \in Seq(S) /\ Len(s) \in Nat /\ Len(Append(s, f)) = Len(s) + 1
  BY SMT, <1>1
<1> QED
  BY <1>1, <1>2, SeqIn

\* The first frame is damaged.
Marks(s, f, v) == v = [s EXCEPT ![1] = f]
LEMMA SeqDamage ==
    ASSUME NEW s, IsSeq(s), s # <<>>, NEW f, NEW v, Marks(s, f, v)
    PROVE  /\ IsSeq(v) /\ In(v) \subseteq In(s) \cup {f} /\ Len(v) = Len(s)
           /\ s[1] \in In(s)
<1>1. PICK S : S = In(s) \cup {f} /\ s \in Seq(S) /\ f \in S
  <2>1. PICK S : S = In(s) \cup {f}
    OBVIOUS
  <2>2. s \in Seq(S)
    BY SMT, <2>1 DEF IsSeq
  <2> QED
    BY <2>1, <2>2
<1>2. Len(s) \in Nat /\ Len(s) >= 1
  BY SMT, <1>1
<1>3. v \in Seq(S) /\ Len(v) = Len(s)
  BY SMT, <1>1, <1>2 DEF Marks
<1>4. s[1] \in In(s)
  BY SMT, <1>1, <1>2 DEF In
<1> QED
  BY <1>1, <1>3, <1>4, SeqIn

\* The same of the bounds on what is in flight.
LEMMA Taken ==
    ASSUME NEW s, IsSeq(s), s # <<>>
    PROVE  /\ IsSeq(Tail(s)) /\ In(Tail(s)) \subseteq In(s)
           /\ Len(s) <= 3 => Len(Tail(s)) <= 2 /\ Len(Tail(s)) <= 3
           /\ Len(s) <= 2 => Len(Tail(s)) <= 2
<1>1. IsSeq(Tail(s)) /\ In(Tail(s)) \subseteq In(s) /\ Len(s) \in Nat /\ Len(Tail(s)) = Len(s) - 1
  BY SeqHead
<1> QED
  BY SMT, <1>1

LEMMA Added ==
    ASSUME NEW s, IsSeq(s), NEW f
    PROVE  /\ IsSeq(Append(s, f)) /\ In(Append(s, f)) \subseteq In(s) \cup {f}
           /\ Len(s) <= 2 => Len(s) <= 3 /\ Len(Append(s, f)) <= 3
<1>1. IsSeq(Append(s, f)) /\ In(Append(s, f)) \subseteq In(s) \cup {f} /\ Len(s) \in Nat
      /\ Len(Append(s, f)) = Len(s) + 1
  BY SeqAppend
<1> QED
  BY SMT, <1>1

LEMMA SeqShort ==
    /\ IsSeq(<<>>) /\ In(<<>>) = {} /\ Len(<<>>) = 0
    /\ \A f : IsSeq(<<f>>) /\ In(<<f>>) = {f} /\ Len(<<f>>) = 1
    /\ \A f, g : IsSeq(<<f, g>>) /\ In(<<f, g>>) \subseteq {f, g} /\ Len(<<f, g>>) = 2
               /\ <<>> \o <<f, g>> = <<f, g>>
<1>1. ASSUME NEW f, NEW g PROVE <<f, g>> \in Seq({f, g}) /\ <<f>> \in Seq({f})
  BY SMT
<1>2. ASSUME NEW f, NEW g PROVE IsSeq(<<f, g>>) /\ In(<<f, g>>) \subseteq {f, g} /\ IsSeq(<<f>>)
  <2>1. PICK S, T, s, t : S = {f, g} /\ T = {f} /\ s = <<f, g>> /\ t = <<f>>
    OBVIOUS
  <2>2. s \in Seq(S) /\ t \in Seq(T)
    BY <1>1, <2>1
  <2>3. IsSeq(s) /\ In(s) \subseteq S /\ IsSeq(t)
    BY <2>2, SeqIn
  <2> QED
    BY <2>1, <2>3
<1>3. \A f, g : Len(<<f, g>>) = 2 /\ <<>> \o <<f, g>> = <<f, g>> /\ Len(<<f>>) = 1
  BY SMT
<1>4. \A f : In(<<f>>) = {f}
  BY SMT DEF In
<1>5. IsSeq(<<>>) /\ In(<<>>) = {} /\ Len(<<>>) = 0
  BY SMT DEF IsSeq, In
<1> QED
  BY <1>2, <1>3, <1>4, <1>5

-------------------------------------------------------------------------------
(* Terms.                                                                      *)

LEMMA NotNil ==
    /\ \A t, v : Frame(t, v) # Nil /\ IsFrame(Frame(t, v))
    /\ \A f : IsFrame(f) => f # Nil
    /\ \A prk : ResumptionPSK(prk) # Nil
    /\ \A prk, peer : MakeClientPSK(prk, peer) # Nil /\ MakeClientPSK(prk, peer).psk # Nil
    /\ \A role, peer, suite, prk, from : newSession(role, peer, suite, prk, from) # Nil
<1>1. \A t, v : Frame(t, v) # Nil
  BY SMT DEF Frame, Nil
<1>2. \A t, v : IsFrame(Frame(t, v))
  BY SMT DEF Frame, IsFrame
<1>3. \A f : IsFrame(f) => f # Nil
  BY SMT DEF IsFrame, Nil
<1>4. \A prk : ResumptionPSK(prk) # Nil
  BY SMT DEF ResumptionPSK, Nil
<1>5. \A prk, peer : MakeClientPSK(prk, peer) # Nil
  BY SMT DEF MakeClientPSK, Nil
<1>6. \A prk, peer : MakeClientPSK(prk, peer).psk # Nil
  BY <1>4 DEF MakeClientPSK
<1>7. \A role, peer, suite, prk, from : newSession(role, peer, suite, prk, from) # Nil
  BY SMT DEF newSession, Nil
<1> QED
  BY <1>1, <1>2, <1>3, <1>4, <1>5, <1>6, <1>7

LEMMA Fields == \A t, v : Frame(t, v).type = t /\ Frame(t, v).v = v /\ Frame(t, v).dmg = "no"
  BY DEF Frame

\* A transcript tells its frames apart, a signature what it is over.
LEMMA H2Inj ==
    ASSUME NEW h, NEW i, NEW r, NEW g, NEW j, NEW q, H2(h, i, r) = H2(g, j, q)
    PROVE  h = g /\ i = j /\ r = q
  BY SMT DEF H2, FinishFull, AbsorbKEM, AbsorbHello

LEMMA SignInj ==
    ASSUME NEW a, NEW h, NEW r, NEW s, NEW b, NEW g, NEW q, NEW t,
           Sign(a, h, r, s) = Sign(b, g, q, t)
    PROVE  a = b /\ h = g /\ r = q /\ s = t
<1>1. signInput(h, r, s) = signInput(g, q, t) /\ a = b
  BY DEF Sign
<1> QED
  BY SMT, <1>1 DEF signInput

LEMMA SessionOf ==
    ASSUME NEW role \in {"I", "R"}, NEW peer, NEW suite, NEW prk, NEW from, NEW s,
           s = newSession(role, peer, suite, prk, from)
    PROVE  /\ Session(s) /\ Keyed(s, role, prk) /\ s.peer = peer /\ s.suite = suite
           /\ s.from = from /\ (role = "I" => s.psk.psk # Nil)
<1>1. Session(s)
  BY NotNil DEF Session
<1>2. Keyed(s, role, prk) /\ s.peer = peer /\ s.suite = suite /\ s.from = from
  BY DEF newSession, Keyed
<1>3. role = "I" => s.psk.psk # Nil
  BY NotNil DEF newSession
<1> QED
  BY <1>1, <1>2, <1>3

\* A hello that was sent is a frame of its kind.
LEMMA Hellos ==
    ASSUME NEW c \in Conns
    PROVE  /\ FullHello(c) =>
                /\ IsFrame(ini[c].hello) /\ ini[c].hello.type = "HELLO" /\ ini[c].hello.v.id = "A"
                /\ IsFrame(ini[c].init) /\ ini[c].init.type = "KEM_INIT"
           /\ PSKHello(c) =>
                /\ IsFrame(ini[c].hello) /\ ini[c].hello.type = "HELLO_PSK"
                /\ ini[c].hello.v.psk # Nil /\ ini[c].init = Nil
<1>1. ASSUME FullHello(c)
      PROVE  /\ IsFrame(ini[c].hello) /\ ini[c].hello.type = "HELLO" /\ ini[c].hello.v.id = "A"
             /\ IsFrame(ini[c].init) /\ ini[c].init.type = "KEM_INIT"
  <2>0. PICK t : t = ini[c].hello.v.ts
    OBVIOUS
  <2>1. PICK v : v.id = "A" /\ ini[c].hello = Frame("HELLO", v)
    <3>1. PICK v : v = [rand |-> c, ts |-> t, id |-> "A", mode |-> cfg[c].mode,
                        suite |-> cfg[c].suite, schemes |-> {cfg[c].suite}]
      OBVIOUS
    <3>2. v.id = "A"
      BY <3>1
    <3>3. ini[c].hello = Frame("HELLO", v)
      BY <1>1, <2>0, <3>1 DEF FullHello
    <3> QED
      BY <3>2, <3>3
  <2>2. ini[c].init = Frame("KEM_INIT", [eph |-> <<"I", c>>])
    BY <1>1 DEF FullHello, KEMInitFrame
  <2>3. IsFrame(ini[c].hello) /\ IsFrame(ini[c].init)
    BY <2>1, <2>2, NotNil
  <2>4. ini[c].hello.type = "HELLO" /\ ini[c].hello.v = v /\ ini[c].init.type = "KEM_INIT"
    BY SMT, <2>1, <2>2, Fields
  <2> QED
    BY <2>1, <2>3, <2>4
<1>2. ASSUME PSKHello(c)
      PROVE  /\ IsFrame(ini[c].hello) /\ ini[c].hello.type = "HELLO_PSK"
             /\ ini[c].hello.v.psk # Nil /\ ini[c].init = Nil
  <2>0. PICK v : v = [rand |-> c, ts |-> ini[c].hello.v.ts, mode |-> cfg[c].mode,
                      suite |-> cfg[c].suite, psk |-> ini[c].hello.v.psk, eph |-> <<"I", c>>]
    OBVIOUS
  <2>1. ini[c].hello = Frame("HELLO_PSK", v)
    BY <1>2, <2>0 DEF PSKHello
  <2>2. IsFrame(ini[c].hello)
    BY <2>1, NotNil
  <2>3. ini[c].hello.type = "HELLO_PSK"
    BY <2>1, Fields
  <2>4. ini[c].hello.v.psk # Nil /\ ini[c].init = Nil
    BY <1>2 DEF PSKHello
  <2> QED
    BY <2>2, <2>3, <2>4
<1> QED
  BY <1>1, <1>2

LEMMA Kinds == ASSUME NEW c \in Conns PROVE ~(FullHello(c) /\ PSKHello(c))
  BY Hellos

-------------------------------------------------------------------------------
(* Updates.                                                                    *)

IniNow(c, p, h, i, r) ==
    /\ DOMAIN ini' = Conns /\ DOMAIN ini'[c] = {"pc", "hello", "init", "reply"}
    /\ ini'[c].pc = p /\ ini'[c].hello = h /\ ini'[c].init = i /\ ini'[c].reply = r
    /\ \A d \in Conns : d # c => ini'[d] = ini[d]
RspNow(c, p, h, i, t) ==
    /\ DOMAIN rsp' = Conns /\ DOMAIN rsp'[c] = {"pc", "hello", "init", "h2"}
    /\ rsp'[c].pc = p /\ rsp'[c].hello = h /\ rsp'[c].init = i /\ rsp'[c].h2 = t
    /\ \A d \in Conns : d # c => rsp'[d] = rsp[d]

LEMMA IniUpdates ==
    ASSUME Domains, NEW c \in Conns
    PROVE  /\ \A p : ini' = [ini EXCEPT ![c].pc = p] =>
                IniNow(c, p, ini[c].hello, ini[c].init, ini[c].reply)
           /\ \A p, r : ini' = [ini EXCEPT ![c].pc = p, ![c].reply = r] =>
                IniNow(c, p, ini[c].hello, ini[c].init, r)
           /\ \A p, h, r : ini' = [ini EXCEPT ![c].pc = p, ![c].hello = h, ![c].reply = r] =>
                IniNow(c, p, h, ini[c].init, r)
           /\ \A p, h, i : ini' = [ini EXCEPT ![c].pc = p, ![c].hello = h, ![c].init = i] =>
                IniNow(c, p, h, i, ini[c].reply)
<1> USE DEF Domains, IniNow
<1>1. ASSUME NEW p, ini' = [ini EXCEPT ![c].pc = p]
      PROVE  IniNow(c, p, ini[c].hello, ini[c].init, ini[c].reply)
  BY SMT, <1>1
<1>2. ASSUME NEW p, NEW r, ini' = [ini EXCEPT ![c].pc = p, ![c].reply = r]
      PROVE  IniNow(c, p, ini[c].hello, ini[c].init, r)
  BY SMT, <1>2
<1>3. ASSUME NEW p, NEW h, NEW r,
             ini' = [ini EXCEPT ![c].pc = p, ![c].hello = h, ![c].reply = r]
      PROVE  IniNow(c, p, h, ini[c].init, r)
  BY SMT, <1>3
<1>4. ASSUME NEW p, NEW h, NEW i,
             ini' = [ini EXCEPT ![c].pc = p, ![c].hello = h, ![c].init = i]
      PROVE  IniNow(c, p, h, i, ini[c].reply)
  BY SMT, <1>4
<1> HIDE DEF Domains, IniNow
<1> QED
  BY <1>1, <1>2, <1>3, <1>4

LEMMA RspUpdates ==
    ASSUME Domains, NEW c \in Conns
    PROVE  /\ \A p : rsp' = [rsp EXCEPT ![c].pc = p] =>
                RspNow(c, p, rsp[c].hello, rsp[c].init, rsp[c].h2)
           /\ \A p, h : rsp' = [rsp EXCEPT ![c].pc = p, ![c].hello = h] =>
                RspNow(c, p, h, rsp[c].init, rsp[c].h2)
           /\ \A p, i, t : rsp' = [rsp EXCEPT ![c].pc = p, ![c].init = i, ![c].h2 = t] =>
                RspNow(c, p, rsp[c].hello, i, t)
<1> USE DEF Domains, RspNow
<1>1. ASSUME NEW p, rsp' = [rsp EXCEPT ![c].pc = p]
      PROVE  RspNow(c, p, rsp[c].hello, rsp[c].init, rsp[c].h2)
  BY SMT, <1>1
<1>2. ASSUME NEW p, NEW h, rsp' = [rsp EXCEPT ![c].pc = p, ![c].hello = h]
      PROVE  RspNow(c, p, h, rsp[c].init, rsp[c].h2)
  BY SMT, <1>2
<1>3. ASSUME NEW p, NEW i, NEW t,
             rsp' = [rsp EXCEPT ![c].pc = p, ![c].init = i, ![c].h2 = t]
      PROVE  RspNow(c, p, rsp[c].hello, i, t)
  BY SMT, <1>3
<1> HIDE DEF Domains, RspNow
<1> QED
  BY <1>1, <1>2, <1>3

\* One connection's entry of the wires or of the sessions changes.
Sets(f, g, c, v) ==
    /\ DOMAIN g = Conns /\ g[c] = v
    /\ \A d \in Conns : d # c => g[d] = f[d]

LEMMA Setting ==
    ASSUME NEW f, DOMAIN f = Conns, NEW c \in Conns, NEW v
    PROVE  Sets(f, [f EXCEPT ![c] = v], c, v)
  BY DEF Sets

-------------------------------------------------------------------------------
(* What a step leaves as it is.                                                *)

\* A run goes forward: what it has read or sent, and a session, do not change.
Progress(c) ==
    /\ cfg' = cfg
    /\ ini'[c].hello = ini[c].hello /\ ini'[c].init = ini[c].init
    /\ ini[c].pc = "failed" => ini'[c].pc = "failed"
    /\ ini[c].pc = "done" =>
          ini'[c].pc = "done" /\ ini'[c].reply = ini[c].reply /\ si'[c] = si[c]
    /\ rsp[c].pc # "hello" => rsp'[c].hello = rsp[c].hello
    /\ rsp[c].pc \notin {"hello", "kem"} =>
          /\ rsp'[c].pc \notin {"hello", "kem"}
          /\ rsp'[c].init = rsp[c].init /\ rsp'[c].h2 = rsp[c].h2
    /\ rsp[c].pc = "done" => rsp'[c].pc = "done" /\ sr'[c] = sr[c]

LEMMA HelloStays ==
    ASSUME NEW c \in Conns, Progress(c)
    PROVE  /\ FullHello(c)' <=> FullHello(c)
           /\ PSKHello(c)' <=> PSKHello(c)
<1>1. ini'[c].hello = ini[c].hello /\ ini'[c].init = ini[c].init /\ cfg' = cfg
  BY DEF Progress
<1>2. FullHello(c)' <=> FullHello(c)
  BY <1>1 DEF FullHello, KEMInitFrame, Frame
<1>3. PSKHello(c)' <=> PSKHello(c)
  BY <1>1 DEF PSKHello, Frame
<1> QED
  BY <1>2, <1>3

LEMMA PassedStays ==
    ASSUME NEW c \in Conns, Progress(c), Passed(c), rsp[c].pc # "hello"
    PROVE  Passed(c)'
<1>1. rsp'[c].hello = rsp[c].hello /\ (ini[c].pc = "failed" => ini'[c].pc = "failed")
  BY DEF Progress
<1>2. (~Refuses(rsp[c].hello.v))' <=> ~Refuses(rsp[c].hello.v)
  BY <1>1 DEF Refuses, acceptsSuite
<1> QED
  BY <1>1, <1>2, HelloStays DEF Passed, Offered

LEMMA SignedStays ==
    ASSUME NEW c \in Conns, Progress(c), Signed(c)
    PROVE  Signed(c)'
<1>1. Passed(c) /\ rsp[c].pc \notin {"hello", "kem"}
      /\ rsp[c].h2 = H2(rsp[c].hello, rsp[c].init, KEMReplyFrame(c))
  BY DEF Signed
<1>2. /\ rsp'[c].pc \notin {"hello", "kem"} /\ rsp'[c].hello = rsp[c].hello
      /\ rsp'[c].init = rsp[c].init /\ rsp'[c].h2 = rsp[c].h2
  BY <1>1 DEF Progress
<1>3. H2(rsp[c].hello, rsp[c].init, KEMReplyFrame(c))'
      = H2(rsp[c].hello, rsp[c].init, KEMReplyFrame(c))
  BY <1>2 DEF H2, KEMReplyFrame, Frame, FinishFull, AbsorbKEM, AbsorbHello
<1>4. Passed(c)'
  BY <1>1, PassedStays
<1> QED
  BY <1>1, <1>2, <1>3, <1>4 DEF Signed

LEMMA ResumedStays ==
    ASSUME NEW c \in Conns, Server(c), Progress(c), Resumed(c)
    PROVE  Resumed(c)'
<1>1. rsp[c].pc = "done"
  BY DEF Server, Resumed
<1>2. /\ rsp'[c].hello = rsp[c].hello /\ sr'[c] = sr[c]
      /\ ini'[c].hello = ini[c].hello /\ (ini[c].pc = "failed" => ini'[c].pc = "failed")
  BY <1>1 DEF Progress
<1> QED
  BY <1>2, HelloStays DEF Resumed, Offered, Session

LEMMA SecretStays ==
    ASSUME NEW c \in Conns, Progress(c)
    PROVE  /\ ini'[c].reply = ini[c].reply =>
                /\ InitH2(c)' = InitH2(c)
                /\ FullSecret(c)' = FullSecret(c) /\ PSKSecret(c)' = PSKSecret(c)
           /\ rsp[c].pc \notin {"hello", "kem"} =>
                RespFullSecret(c)' = RespFullSecret(c) /\ RespPSKSecret(c)' = RespPSKSecret(c)
<1>1. ini'[c].hello = ini[c].hello /\ ini'[c].init = ini[c].init /\ cfg' = cfg
  BY DEF Progress
<1>2. ASSUME ini'[c].reply = ini[c].reply
      PROVE  /\ InitH2(c)' = InitH2(c)
             /\ FullSecret(c)' = FullSecret(c) /\ PSKSecret(c)' = PSKSecret(c)
  <2>1. InitH2(c)' = InitH2(c)
    BY <1>1, <1>2 DEF InitH2, H2, FinishFull, AbsorbKEM, AbsorbHello
  <2>2. FullSecret(c)' = FullSecret(c)
    BY <1>2, <2>1 DEF FullSecret, DeriveSession, ECDH, Eph, Decapsulate, KEMInitFrame, Frame
  <2>3. PSKSecret(c)' = PSKSecret(c)
    BY <1>1, <1>2 DEF PSKSecret, DeriveResumed, ECDH, Eph, FinishPSK, AbsorbHello
  <2> QED
    BY <2>1, <2>2, <2>3
<1>3. ASSUME rsp[c].pc \notin {"hello", "kem"}
      PROVE  RespFullSecret(c)' = RespFullSecret(c) /\ RespPSKSecret(c)' = RespPSKSecret(c)
  <2>1. /\ rsp'[c].hello = rsp[c].hello
        /\ rsp'[c].init = rsp[c].init /\ rsp'[c].h2 = rsp[c].h2
    BY <1>3 DEF Progress
  <2>2. RespFullSecret(c)' = RespFullSecret(c)
    BY <2>1 DEF RespFullSecret, DeriveSession, ECDH, Eph, Encapsulate
  <2>3. RespPSKSecret(c)' = RespPSKSecret(c)
    BY <2>1 DEF RespPSKSecret, DeriveResumed, ECDH, Eph, FinishPSK, AbsorbHello
  <2> QED
    BY <2>2, <2>3
<1> QED
  BY <1>2, <1>3

LEMMA ClientStays ==
    ASSUME NEW c \in Conns, Server(c), Progress(c), ini[c].pc = "done"
    PROVE  (ClientFull(c) => ClientFull(c)') /\ (ClientPSK(c) => ClientPSK(c)')
<1>1. /\ ini'[c].reply = ini[c].reply /\ si'[c] = si[c] /\ ini'[c].hello = ini[c].hello
      /\ cfg' = cfg
  BY DEF Progress
<1>2. /\ InitH2(c)' = InitH2(c) /\ FullSecret(c)' = FullSecret(c)
      /\ PSKSecret(c)' = PSKSecret(c)
  BY <1>1, SecretStays
<1>3. /\ Keyed(si[c], "I", FullSecret(c))' <=> Keyed(si[c], "I", FullSecret(c))
      /\ Keyed(si[c], "I", PSKSecret(c))' <=> Keyed(si[c], "I", PSKSecret(c))
  BY <1>1, <1>2 DEF Keyed
<1>4. ASSUME ClientFull(c) PROVE ClientFull(c)'
  <2>1. Signed(c) /\ FullHello(c) /\ rsp[c].h2 = InitH2(c) /\ Keyed(si[c], "I", FullSecret(c))
    BY <1>4 DEF ClientFull
  <2>2. rsp'[c].h2 = rsp[c].h2
    BY <2>1 DEF Signed, Progress
  <2>3. FullHello(c)' /\ Signed(c)' /\ (rsp[c].h2 = InitH2(c))'
        /\ Keyed(si[c], "I", FullSecret(c))'
    BY <1>2, <1>3, <2>1, <2>2, HelloStays, SignedStays
  <2>4. (/\ si[c].from = Nil /\ si[c].suite = cfg[c].suite /\ si[c].peer = ini[c].reply.v.pk
         /\ cfg[c].pin \in {Anyone, ini[c].reply.v.pk})'
    BY <1>1, <1>4 DEF ClientFull
  <2> QED
    BY <2>3, <2>4 DEF ClientFull
<1>5. ASSUME ClientPSK(c) PROVE ClientPSK(c)'
  <2>1. PSKHello(c)' /\ Resumed(c)'
    BY <1>5, HelloStays, ResumedStays DEF ClientPSK
  <2>2. Keyed(si[c], "I", PSKSecret(c))' /\ (si[c].from = ini[c].hello.v.psk)'
    BY <1>1, <1>3, <1>5 DEF ClientPSK
  <2> QED
    BY <2>1, <2>2 DEF ClientPSK
<1> QED
  BY <1>4, <1>5

LEMMA ServerStays ==
    ASSUME NEW c \in Conns, Server(c), Progress(c), rsp[c].pc = "done"
    PROVE  (ServerFull(c) \/ ServerPSK(c))'
<1>1. sr'[c] = sr[c] /\ rsp'[c].hello = rsp[c].hello
  BY DEF Progress
<1>2. /\ RespFullSecret(c)' = RespFullSecret(c) /\ RespPSKSecret(c)' = RespPSKSecret(c)
  BY SecretStays
<1>3. CASE ServerFull(c)
  <2>1. ini'[c].pc = "done" /\ ClientFull(c)'
    BY <1>3, ClientStays DEF ServerFull, Progress
  <2>2. Keyed(sr[c], "R", RespFullSecret(c))' <=> Keyed(sr[c], "R", RespFullSecret(c))
    BY <1>1, <1>2 DEF Keyed
  <2>3. (/\ sr[c].from = Nil /\ sr[c].suite = rsp[c].hello.v.suite /\ sr[c].peer = "A")'
    BY <1>1, <1>3 DEF ServerFull
  <2> QED
    BY <1>3, <2>1, <2>2, <2>3 DEF ServerFull
<1>4. CASE ServerPSK(c)
  <2>1. Keyed(sr[c], "R", RespPSKSecret(c))' <=> Keyed(sr[c], "R", RespPSKSecret(c))
    BY <1>1, <1>2 DEF Keyed
  <2> QED
    BY <1>4, <2>1, ResumedStays DEF ServerPSK
<1> QED
  BY <1>3, <1>4 DEF Server

\* A frame in flight stays what it is.
LEMMA FrameStays ==
    ASSUME NEW c \in Conns, Server(c), Progress(c), NEW f
    PROVE  /\ FromClient(c, f) => FromClient(c, f)'
           /\ FromServer(c, f) /\ (ini'[c].pc = "resume" => ini[c].pc = "resume") =>
                FromServer(c, f)'
<1>1. /\ ini'[c].hello = ini[c].hello /\ cfg' = cfg
      /\ ini[c].pc = "failed" => ini'[c].pc = "failed"
  BY DEF Progress
<1>2. ASSUME FromClient(c, f) PROVE FromClient(c, f)'
  <2>1. f.type = "HELLO" => f.v.id = "A" /\ Offered(c, FullHello(c))'
    BY <1>1, <1>2, HelloStays DEF FromClient, Offered
  <2>2. f.type = "HELLO_PSK" =>
          f.v.psk # Nil /\ Offered(c, PSKHello(c) /\ f.v.psk = ini[c].hello.v.psk)'
    BY <1>1, <1>2, HelloStays DEF FromClient, Offered
  <2>3. ASSUME f.type = "AUTH"
        PROVE  (/\ ini[c].pc = "done" /\ ClientFull(c)
                /\ f.v.sig = Sign("A", InitH2(c), "I", cfg[c].suite))'
    <3>1. ini[c].pc = "done" /\ ClientFull(c) /\ f.v.sig = Sign("A", InitH2(c), "I", cfg[c].suite)
      BY <1>2, <2>3 DEF FromClient
    <3>2. ini'[c].pc = "done" /\ InitH2(c)' = InitH2(c)
      BY <3>1, SecretStays DEF Progress
    <3> QED
      BY <1>1, <3>1, <3>2, ClientStays DEF Sign, signInput
  <2> QED
    BY <1>2, <2>1, <2>2, <2>3 DEF FromClient
<1>3. ASSUME FromServer(c, f), ini'[c].pc = "resume" => ini[c].pc = "resume"
      PROVE  FromServer(c, f)'
  <2>1. (f.type = "KEM_REPLY" /\ ini[c].pc = "resume" => Resumed(c))'
    BY <1>3, ResumedStays DEF FromServer
  <2>2. ASSUME f.type = "AUTH"
        PROVE  Signed(c)' /\ (f.v.sig = Sign("S", rsp[c].h2, "R", rsp[c].hello.v.suite))'
    <3>1. Signed(c) /\ f.v.sig = Sign("S", rsp[c].h2, "R", rsp[c].hello.v.suite)
      BY <1>3, <2>2 DEF FromServer
    <3>2. rsp'[c].h2 = rsp[c].h2 /\ rsp'[c].hello = rsp[c].hello
      BY <3>1 DEF Signed, Progress
    <3> QED
      BY <3>1, <3>2, SignedStays DEF Sign, signInput
  <2> QED
    BY <1>3, <2>1, <2>2 DEF FromServer
<1> QED
  BY <1>2, <1>3

LEMMA FlightsGo ==
    ASSUME NEW c \in Conns, Server(c), Progress(c), Flights(c),
           ini'[c].pc = "resume" => ini[c].pc = "resume",
           \A f \in In(toR'[c]) : f \in In(toR[c]) \/ FromClient(c, f)',
           \A f \in In(toI'[c]) : f \in In(toI[c]) \/ FromServer(c, f)'
    PROVE  Flights(c)'
<1>1. \A f \in In(toR'[c]) : FromClient(c, f)'
  BY FrameStays DEF Flights
<1>2. \A f \in In(toI'[c]) : FromServer(c, f)'
  BY FrameStays DEF Flights
<1>3. In(toR[c])' = In(toR'[c]) /\ In(toI[c])' = In(toI'[c])
  BY DEF In
<1> QED
  BY <1>1, <1>2, <1>3 DEF Flights

\* The client's run stays where it is, or fails.
LEMMA ClientKept ==
    ASSUME NEW c \in Conns, Server(c), Progress(c), Client(c),
           ini'[c].pc = ini[c].pc, ini'[c].reply = ini[c].reply, si'[c] = si[c]
    PROVE  Client(c)'
<1>1. ini'[c].hello = ini[c].hello /\ ini'[c].init = ini[c].init /\ cfg' = cfg
  BY DEF Progress
<1>2. ((ini[c].hello = Nil /\ ini[c].init = Nil) \/ FullHello(c) \/ PSKHello(c))'
  BY <1>1, HelloStays DEF Client
<1>3. ini'[c].pc = "done" => (ClientFull(c) \/ ClientPSK(c))' /\ si'[c].psk.psk # Nil
  BY ClientStays DEF Client
<1>4. /\ ini'[c].pc \in {"reply", "auth"} => FullHello(c)'
      /\ ini'[c].pc = "auth" => cfg'[c].pin \in {Anyone, ini'[c].reply.v.pk}
      /\ ini'[c].pc = "resume" => PSKHello(c)' /\ ini'[c].reply.psk = ini'[c].hello.v.psk
  BY <1>1, HelloStays DEF Client
<1>5. Session(si[c])' <=> ini'[c].pc = "done"
  BY DEF Client, Session
<1> QED
  BY <1>2, <1>3, <1>4, <1>5 DEF Client

LEMMA ClientFails ==
    ASSUME NEW c \in Conns, Progress(c), Client(c), ini[c].pc # "done",
           ini'[c].pc = "failed", si'[c] = si[c]
    PROVE  Client(c)'
<1>1. ini'[c].hello = ini[c].hello /\ ini'[c].init = ini[c].init
  BY DEF Progress
<1>2. ((ini[c].hello = Nil /\ ini[c].init = Nil) \/ FullHello(c) \/ PSKHello(c))'
  BY <1>1, HelloStays DEF Client
<1>3. ~Session(si[c])'
  BY DEF Client, Session
<1> QED
  BY <1>2, <1>3 DEF Client

\* So does the server's.
LEMMA ServerKept ==
    ASSUME NEW c \in Conns, Progress(c), Server(c),
           rsp'[c].pc = rsp[c].pc, sr'[c] = sr[c]
    PROVE  Server(c)'
<1>1. rsp'[c].pc = "kem" => Passed(c)'
  BY PassedStays DEF Server
<1>2. rsp'[c].pc = "auth" => Signed(c)'
  BY SignedStays DEF Server
<1>3. rsp'[c].pc = "done" => (ServerFull(c) \/ ServerPSK(c))'
  BY ServerStays
<1>4. Session(sr[c])' <=> rsp'[c].pc = "done"
  BY DEF Server, Session
<1> QED
  BY <1>1, <1>2, <1>3, <1>4 DEF Server

LEMMA ServerFails ==
    ASSUME NEW c \in Conns, Server(c), rsp[c].pc # "done",
           rsp'[c].pc = "failed", sr'[c] = sr[c]
    PROVE  Server(c)'
<1>1. ~Session(sr[c])'
  BY DEF Server, Session
<1> QED
  BY <1>1 DEF Server

\* A connection that takes no part in a step.
Same(c) ==
    /\ cfg' = cfg /\ ini'[c] = ini[c] /\ rsp'[c] = rsp[c] /\ toR'[c] = toR[c]
    /\ toI'[c] = toI[c] /\ si'[c] = si[c] /\ sr'[c] = sr[c]

LEMMA SameLocal == ASSUME NEW c \in Conns, Local(c), Same(c) PROVE Local(c)'
<1>1. Progress(c)
  BY DEF Same, Progress
<1>2. Client(c)' /\ Server(c)'
  BY <1>1, ClientKept, ServerKept DEF Local, Same
<1>3. Flights(c)'
  BY <1>1, FlightsGo DEF Local, Same
<1>4. Bounded(c)'
  BY ZenonT(60) DEF Local, Same, Bounded, IsSeq, In
<1> QED
  BY <1>2, <1>3, <1>4 DEF Local

-------------------------------------------------------------------------------
(* The steps of one connection.                                                *)

\* A step of connection c keeps what holds of c, and leaves the others alone.
Others(c) == \A d \in Conns : d # c => Same(d)
Keeps(c) == Domains' /\ Others(c) /\ Local(c)'

LEMMA EntryOf ==
    ASSUME Domains, NEW c \in Conns, cfg' = cfg,
           ini' = ini \/ \E p, h, i, r : IniNow(c, p, h, i, r),
           rsp' = rsp \/ \E p, h, i, t : RspNow(c, p, h, i, t),
           toR' = toR \/ \E v : Sets(toR, toR', c, v),
           toI' = toI \/ \E v : Sets(toI, toI', c, v),
           si' = si \/ \E v : Sets(si, si', c, v),
           sr' = sr \/ \E v : Sets(sr, sr', c, v)
    PROVE  Domains' /\ Others(c)
<1>1. /\ DOMAIN ini' = Conns /\ DOMAIN ini'[c] = {"pc", "hello", "init", "reply"}
      /\ \A d \in Conns : d # c => ini'[d] = ini[d]
  BY DEF Domains, IniNow
<1>2. /\ DOMAIN rsp' = Conns /\ DOMAIN rsp'[c] = {"pc", "hello", "init", "h2"}
      /\ \A d \in Conns : d # c => rsp'[d] = rsp[d]
  BY DEF Domains, RspNow
<1>3. DOMAIN toR' = Conns /\ \A d \in Conns : d # c => toR'[d] = toR[d]
  BY DEF Domains, Sets
<1>4. DOMAIN toI' = Conns /\ \A d \in Conns : d # c => toI'[d] = toI[d]
  BY DEF Domains, Sets
<1>5. DOMAIN si' = Conns /\ \A d \in Conns : d # c => si'[d] = si[d]
  BY DEF Domains, Sets
<1>6. DOMAIN sr' = Conns /\ \A d \in Conns : d # c => sr'[d] = sr[d]
  BY DEF Domains, Sets
<1>7. Domains'
  <2>1. \A d \in Conns : /\ DOMAIN ini'[d] = {"pc", "hello", "init", "reply"}
                         /\ DOMAIN rsp'[d] = {"pc", "hello", "init", "h2"}
    BY <1>1, <1>2 DEF Domains
  <2> QED
    BY <1>1, <1>2, <1>3, <1>4, <1>5, <1>6, <2>1 DEF Domains
<1> QED
  BY <1>1, <1>2, <1>3, <1>4, <1>5, <1>6, <1>7 DEF Others, Same

LEMMA AlertOK ==
    ASSUME NEW c \in Conns PROVE FromClient(c, AlertFrame)' /\ FromServer(c, AlertFrame)'
<1>1. IsFrame(AlertFrame) /\ AlertFrame.type = "ALERT"
  BY NotNil, Fields DEF AlertFrame
<1>2. AlertFrame' = AlertFrame
  BY DEF AlertFrame, Frame, Nil
<1> QED
  BY <1>1, <1>2 DEF FromClient, FromServer

\* The initiator ends with an error.
LEMMA InitFailsKeeps ==
    ASSUME Inv, NEW c \in Conns, ini[c].pc \in {"reply", "auth", "resume"}, toI[c] # <<>>,
           NEW alert \in BOOLEAN, InitFails(c, alert)
    PROVE  Keeps(c)
<1>0. Domains /\ Local(c)
  BY DEF Inv
<1>1. IniNow(c, "failed", ini[c].hello, ini[c].init, ini[c].reply)
  BY <1>0, IniUpdates DEF InitFails
<1>2. Sets(toI, toI', c, Tail(toI[c]))
  BY <1>0, Setting DEF InitFails, Domains
<1>3. toR' = toR \/ Sets(toR, toR', c, Append(toR[c], AlertFrame))
  BY <1>0, Setting DEF InitFails, Domains
<1>4. cfg' = cfg /\ rsp' = rsp /\ si' = si /\ sr' = sr
  BY DEF InitFails
<1>5. Domains' /\ Others(c)
  BY <1>0, <1>1, <1>2, <1>3, <1>4, EntryOf
<1>6. Progress(c)
  BY <1>1, <1>4 DEF Progress, IniNow
<1>7. Client(c)' /\ Server(c)'
  BY <1>0, <1>1, <1>4, <1>6, ClientFails, ServerKept DEF Local, IniNow
<1>8. /\ IsSeq(toI[c]) /\ IsSeq(toR[c]) /\ toI'[c] = Tail(toI[c])
      /\ toR'[c] = toR[c] \/ toR'[c] = Append(toR[c], AlertFrame)
  BY <1>0, <1>2, <1>3 DEF Local, Bounded, Sets
<1>9. Flights(c)'
  <2>1. \A f \in In(toR'[c]) : f \in In(toR[c]) \/ FromClient(c, f)'
    <3>1. In(Append(toR[c], AlertFrame)) \subseteq In(toR[c]) \cup {AlertFrame}
      BY <1>8, SeqAppend
    <3>2. \A f \in In(toR'[c]) : f \in In(toR[c]) \/ f = AlertFrame
      BY <1>8, <3>1
    <3> QED
      BY <3>2, AlertOK
  <2>2. \A f \in In(toI'[c]) : f \in In(toI[c])
    BY <1>8, SeqHead
  <2> QED
    BY <1>0, <1>1, <1>6, <2>1, <2>2, FlightsGo DEF Local, IniNow
<1>10. Bounded(c)'
  <2>1. IsSeq(toR'[c]) /\ Len(toR'[c]) <= 3
    <3>1. Len(toR[c]) <= 2
      BY <1>0 DEF Local, Bounded
    <3> QED
      BY ZenonT(60), <1>8, <3>1, Added
  <2>2. IsSeq(toI'[c]) /\ Len(toI'[c]) <= 2 /\ Len(toI'[c]) <= 3
    <3>1. Len(toI[c]) <= 3
      BY <1>0 DEF Local, Bounded
    <3> QED
      BY <1>8, <3>1, Taken
  <2>3. rsp[c].pc \notin {"hello", "kem"}
    BY <1>0 DEF Local, Bounded
  <2> QED
    BY <1>1, <1>4, <2>1, <2>2, <2>3 DEF Bounded, IniNow
<1> QED
  BY <1>5, <1>7, <1>9, <1>10 DEF Keeps, Local

\* The responder ends with an error.
LEMMA RespFailsKeeps ==
    ASSUME Inv, NEW c \in Conns, rsp[c].pc \in {"hello", "kem", "auth"}, toR[c] # <<>>,
           NEW alert \in BOOLEAN, RespFails(c, alert)
    PROVE  Keeps(c)
<1>0. Domains /\ Local(c)
  BY DEF Inv
<1>1. RspNow(c, "failed", rsp[c].hello, rsp[c].init, rsp[c].h2)
  BY <1>0, RspUpdates DEF RespFails
<1>2. Sets(toR, toR', c, Tail(toR[c]))
  BY <1>0, Setting DEF RespFails, Domains
<1>3. toI' = toI \/ Sets(toI, toI', c, Append(toI[c], AlertFrame))
  BY <1>0, Setting DEF RespFails, Domains
<1>4. cfg' = cfg /\ ini' = ini /\ si' = si /\ sr' = sr
  BY DEF RespFails
<1>5. Domains' /\ Others(c)
  BY <1>0, <1>1, <1>2, <1>3, <1>4, EntryOf
<1>6. Progress(c)
  BY <1>1, <1>4 DEF Progress, RspNow
<1>7. Client(c)' /\ Server(c)'
  BY <1>0, <1>1, <1>4, <1>6, ClientKept, ServerFails DEF Local, RspNow
<1>8. /\ IsSeq(toI[c]) /\ IsSeq(toR[c]) /\ toR'[c] = Tail(toR[c])
      /\ toI'[c] = toI[c] \/ toI'[c] = Append(toI[c], AlertFrame)
  BY <1>0, <1>2, <1>3 DEF Local, Bounded, Sets
<1>9. Flights(c)'
  <2>1. \A f \in In(toI'[c]) : f \in In(toI[c]) \/ FromServer(c, f)'
    <3>1. In(Append(toI[c], AlertFrame)) \subseteq In(toI[c]) \cup {AlertFrame}
      BY <1>8, SeqAppend
    <3>2. \A f \in In(toI'[c]) : f \in In(toI[c]) \/ f = AlertFrame
      BY <1>8, <3>1
    <3> QED
      BY <3>2, AlertOK
  <2>2. \A f \in In(toR'[c]) : f \in In(toR[c])
    BY <1>8, SeqHead
  <2> QED
    BY <1>0, <1>4, <1>6, <2>1, <2>2, FlightsGo DEF Local
<1>10. Bounded(c)'
  <2>1. IsSeq(toI'[c]) /\ Len(toI'[c]) <= 3
    <3>1. toI[c] = <<>> \/ Len(toI[c]) <= 2
      BY <1>0 DEF Local, Bounded
    <3>2. Len(toI[c]) <= 2
      BY SMT, <3>1
    <3> QED
      BY ZenonT(60), <1>8, <3>2, Added
  <2>2. /\ IsSeq(toR'[c]) /\ Len(toR'[c]) <= 3
        /\ ini[c].pc \in {"reply", "auth", "resume"} => Len(toR'[c]) <= 2
    <3>1. Len(toR[c]) <= 3
      BY <1>0 DEF Local, Bounded
    <3> QED
      BY <1>8, <3>1, Taken
  <2>3. ini[c].pc # "idle"
    BY <1>0 DEF Local, Bounded
  <2> QED
    BY <1>1, <1>4, <2>1, <2>2, <2>3 DEF Bounded, RspNow
<1> QED
  BY <1>5, <1>7, <1>9, <1>10 DEF Keeps, Local

\* A connection is dialled: nothing has happened on it yet.
LEMMA StartKeeps ==
    ASSUME Inv, NEW c \in Conns, ini[c].pc = "idle",
           cfg' = cfg, rsp' = rsp, toI' = toI, si' = si, sr' = sr,
           NEW p \in {"reply", "resume", "failed"}, NEW h, NEW i, NEW r, IniNow(c, p, h, i, r),
           toR' = toR \/ \E v : Sets(toR, toR', c, v),
           IsSeq(toR'[c]), Len(toR'[c]) <= 2, Len(toR'[c]) <= 3,
           \A f \in In(toR'[c]) : FromClient(c, f)',
           (h = Nil /\ i = Nil) \/ FullHello(c)' \/ PSKHello(c)',
           p = "reply" => FullHello(c)',
           p = "resume" => PSKHello(c)' /\ r.psk = h.v.psk
    PROVE  Keeps(c)
<1>0. Domains /\ Local(c)
  BY DEF Inv
<1>1. Domains' /\ Others(c)
  BY <1>0, EntryOf
<1>2. toI[c] = <<>> /\ rsp[c].pc = "hello" /\ ~Session(si[c]) /\ ~Session(sr[c])
  BY <1>0 DEF Local, Bounded, Client, Server
<1>3. Server(c)'
  BY <1>2 DEF Server, Session
<1>4. ini'[c].pc = p /\ ini'[c].hello = h /\ ini'[c].init = i /\ ini'[c].reply = r
  BY DEF IniNow
<1>5. Client(c)'
  BY <1>2, <1>4 DEF Client, Session
<1>6. Flights(c)'
  <2>1. In(toI'[c]) = {}
    BY <1>2, SeqShort
  <2>2. In(toR[c])' = In(toR'[c]) /\ In(toI[c])' = In(toI'[c])
    BY DEF In
  <2> QED
    BY <2>1, <2>2 DEF Flights
<1>7. Bounded(c)'
  <2>1. IsSeq(<<>>) /\ Len(<<>>) <= 3
    BY SMT, SeqShort
  <2> QED
    BY <1>2, <1>4, <2>1 DEF Bounded
<1> QED
  BY <1>1, <1>3, <1>5, <1>6, <1>7 DEF Keeps, Local

\* The frames of a hello are of its kind.
LEMMA OffersFull ==
    ASSUME NEW c \in Conns, NEW p, NEW r, NEW h, NEW i,
           h = HelloFrame(c), i = KEMInitFrame(c), IniNow(c, p, h, i, r), cfg' = cfg
    PROVE  FullHello(c)' /\ FromClient(c, h)' /\ FromClient(c, i)'
<1>1. ini'[c].hello = h /\ ini'[c].init = i
  BY DEF IniNow
<1>2. PICK t : t = now
  OBVIOUS
<1>3. PICK v : v = [rand |-> c, ts |-> t, id |-> "A", mode |-> cfg[c].mode,
                    suite |-> cfg[c].suite, schemes |-> {cfg[c].suite}]
  OBVIOUS
<1>4. h = Frame("HELLO", v)
  BY <1>2, <1>3 DEF HelloFrame
<1>5. h.type = "HELLO" /\ h.v = v
  BY SMTT(30), <1>4, Fields
<1>6. IsFrame(h) /\ v.id = "A" /\ v.ts = t
  BY <1>3, <1>4, NotNil
<1>7. FullHello(c)'
  <2>1. h = Frame("HELLO", [rand |-> c, ts |-> h.v.ts, id |-> "A", mode |-> cfg[c].mode,
                            suite |-> cfg[c].suite, schemes |-> {cfg[c].suite}])
    BY <1>3, <1>4, <1>5, <1>6
  <2>2. i = KEMInitFrame(c)
    OBVIOUS
  <2> QED
    BY <1>1, <2>1, <2>2 DEF FullHello, KEMInitFrame, Frame
<1>8. IsFrame(i) /\ i.type = "KEM_INIT"
  <2>1. i = Frame("KEM_INIT", [eph |-> <<"I", c>>])
    BY DEF KEMInitFrame
  <2> QED
    BY SMT, <2>1, NotNil, Fields
<1>9. FromClient(c, h)'
  BY <1>5, <1>6, <1>7 DEF FromClient, Offered
<1>10. FromClient(c, i)'
  BY <1>8 DEF FromClient
<1> QED
  BY <1>7, <1>9, <1>10

LEMMA OffersPSK ==
    ASSUME NEW c \in Conns, NEW p, NEW r, NEW h, ticket # Nil, Ticket, ini[c].init = Nil,
           h = HelloPSKFrame(c, ticket), IniNow(c, p, h, ini[c].init, r), cfg' = cfg
    PROVE  PSKHello(c)' /\ FromClient(c, h)' /\ h.v.psk = ticket.psk
<1>1. ini'[c].hello = h /\ ini'[c].init = Nil
  BY DEF IniNow
<1>2. PICK t, k : t = now /\ k = ticket.psk /\ k # Nil
  BY DEF Ticket
<1>3. PICK v : v = [rand |-> c, ts |-> t, mode |-> cfg[c].mode, suite |-> cfg[c].suite,
                    psk |-> k, eph |-> <<"I", c>>]
  OBVIOUS
<1>4. h = Frame("HELLO_PSK", v)
  BY <1>2, <1>3 DEF HelloPSKFrame
<1>5. h.type = "HELLO_PSK" /\ h.v = v
  BY SMT, <1>4, Fields
<1>6. IsFrame(h) /\ v.psk = k /\ v.ts = t
  BY <1>3, <1>4, NotNil
<1>7. PSKHello(c)'
  <2>1. h = Frame("HELLO_PSK", [rand |-> c, ts |-> h.v.ts, mode |-> cfg[c].mode,
                                suite |-> cfg[c].suite, psk |-> h.v.psk, eph |-> <<"I", c>>])
    BY <1>3, <1>4, <1>5, <1>6
  <2>2. h.v.psk # Nil
    BY <1>2, <1>5, <1>6
  <2> QED
    BY <1>1, <2>1, <2>2 DEF PSKHello, Frame
<1>8. FromClient(c, h)'
  BY <1>1, <1>2, <1>5, <1>6, <1>7 DEF FromClient, Offered
<1> QED
  BY <1>2, <1>5, <1>6, <1>7, <1>8

LEMMA InitRunKeeps == ASSUME Inv, NEW c \in Conns, InitRun(c) PROVE Keeps(c)
<1>0. Domains /\ Local(c) /\ Ticket /\ ini[c].pc = "idle"
  BY DEF Inv, InitRun, Dialled
<1>1. cfg' = cfg /\ rsp' = rsp /\ toI' = toI /\ si' = si /\ sr' = sr
  BY DEF InitRun
<1>2. toR[c] = <<>> /\ ini[c].hello = Nil /\ ini[c].init = Nil
  BY <1>0 DEF Local, Bounded
<1>3. CASE cfg[c].suite # SuiteX25519MLKEM
  <2>1. ini' = [ini EXCEPT ![c].pc = "failed"] /\ toR' = toR
    BY <1>3 DEF InitRun
  <2>2. IniNow(c, "failed", ini[c].hello, ini[c].init, ini[c].reply)
    BY <1>0, <2>1, IniUpdates
  <2>3. IsSeq(toR'[c]) /\ Len(toR'[c]) <= 2 /\ Len(toR'[c]) <= 3 /\ In(toR'[c]) = {}
    BY SMT, <1>2, <2>1, SeqShort
  <2> QED
    BY <1>0, <1>1, <1>2, <2>1, <2>2, <2>3, StartKeeps
<1>4. CASE cfg[c].suite = SuiteX25519MLKEM /\ ticket # Nil /\ ticket.until > now
  <2>0. PICK h : h = HelloPSKFrame(c, ticket)
    OBVIOUS
  <2>1. /\ ini' = [ini EXCEPT ![c].pc = "resume", ![c].hello = <<h>>[1], ![c].reply = ticket]
        /\ toR' = [toR EXCEPT ![c] = <<h>>]
    BY <1>4, <2>0 DEF InitRun
  <2>2. <<h>>[1] = h
    OBVIOUS
  <2>3. IniNow(c, "resume", h, ini[c].init, ticket) /\ Sets(toR, toR', c, <<h>>)
    BY <1>0, <2>1, <2>2, IniUpdates, Setting DEF Domains
  <2>4. PSKHello(c)' /\ FromClient(c, h)' /\ ticket.psk = h.v.psk
    BY <1>0, <1>1, <1>2, <1>4, <2>0, <2>3, OffersPSK
  <2>5. toR'[c] = <<h>>
    BY <2>3 DEF Sets
  <2>6. IsSeq(toR'[c]) /\ Len(toR'[c]) <= 2 /\ Len(toR'[c]) <= 3 /\ In(toR'[c]) = {h}
    BY SMT, <2>5, SeqShort
  <2> QED
    BY <1>0, <1>1, <2>3, <2>4, <2>6, StartKeeps
<1>5. CASE cfg[c].suite = SuiteX25519MLKEM /\ ~(ticket # Nil /\ ticket.until > now)
  <2>0. PICK h, i : h = HelloFrame(c) /\ i = KEMInitFrame(c)
    OBVIOUS
  <2>1. /\ ini' = [ini EXCEPT ![c].pc = "reply", ![c].hello = <<h, i>>[1],
                              ![c].init = <<h, i>>[2]]
        /\ toR' = [toR EXCEPT ![c] = <<h, i>>]
    BY <1>5, <2>0 DEF InitRun
  <2>2. <<h, i>>[1] = h /\ <<h, i>>[2] = i
    OBVIOUS
  <2>3. IniNow(c, "reply", h, i, ini[c].reply) /\ Sets(toR, toR', c, <<h, i>>)
    BY <1>0, <2>1, <2>2, IniUpdates, Setting DEF Domains
  <2>4. FullHello(c)' /\ FromClient(c, h)' /\ FromClient(c, i)'
    BY <1>1, <2>0, <2>3, OffersFull
  <2>5. toR'[c] = <<h, i>>
    BY <2>3 DEF Sets
  <2>6. IsSeq(toR'[c]) /\ Len(toR'[c]) <= 2 /\ Len(toR'[c]) <= 3 /\ In(toR'[c]) \subseteq {h, i}
    BY SMT, <2>5, SeqShort
  <2> QED
    BY <1>0, <1>1, <2>3, <2>4, <2>6, StartKeeps
<1> QED
  BY <1>3, <1>4, <1>5

\* The initiator goes on: it took a frame and may have sent one.
LEMMA ClientMoves ==
    ASSUME Inv, NEW c \in Conns, ini[c].pc \in {"reply", "auth", "resume"}, toI[c] # <<>>,
           cfg' = cfg, rsp' = rsp, sr' = sr, Sets(toI, toI', c, Tail(toI[c])),
           NEW p \in {"auth", "done"}, NEW r, IniNow(c, p, ini[c].hello, ini[c].init, r),
           si' = si \/ \E v : Sets(si, si', c, v),
           p = "auth" => toR' = toR,
           NEW g, toR' = toR \/ (Sets(toR, toR', c, Append(toR[c], g)) /\ FromClient(c, g)'),
           Client(c)'
    PROVE  Keeps(c)
<1>0. Domains /\ Local(c)
  BY DEF Inv
<1>5. Domains' /\ Others(c)
  BY <1>0, EntryOf
<1>6. Progress(c)
  BY DEF Progress, IniNow
<1>7. Server(c)'
  BY <1>0, <1>6, ServerKept DEF Local
<1>8. /\ IsSeq(toI[c]) /\ IsSeq(toR[c]) /\ toI'[c] = Tail(toI[c])
      /\ toR'[c] = toR[c] \/ (p # "auth" /\ toR'[c] = Append(toR[c], g) /\ FromClient(c, g)')
  BY <1>0 DEF Local, Bounded, Sets
<1>9. Flights(c)'
  <2>1. \A f \in In(toR'[c]) : f \in In(toR[c]) \/ FromClient(c, f)'
    <3>1. In(Append(toR[c], g)) \subseteq In(toR[c]) \cup {g}
      BY <1>8, SeqAppend
    <3> QED
      BY <1>8, <3>1
  <2>2. \A f \in In(toI'[c]) : f \in In(toI[c])
    BY <1>8, SeqHead
  <2> QED
    BY <1>0, <1>6, <2>1, <2>2, FlightsGo DEF Local, IniNow
<1>10. Bounded(c)'
  <2>1. IsSeq(toR'[c]) /\ Len(toR'[c]) <= 3 /\ (p = "auth" => Len(toR'[c]) <= 2)
    <3>1. Len(toR[c]) <= 2
      BY <1>0 DEF Local, Bounded
    <3>2. Len(toR[c]) <= 3 /\ IsSeq(Append(toR[c], g)) /\ Len(Append(toR[c], g)) <= 3
      BY <1>8, <3>1, Added
    <3> QED
      BY <1>8, <3>1, <3>2
  <2>2. IsSeq(toI'[c]) /\ Len(toI'[c]) <= 2 /\ Len(toI'[c]) <= 3
    <3>1. Len(toI[c]) <= 3
      BY <1>0 DEF Local, Bounded
    <3> QED
      BY <1>8, <3>1, Taken
  <2>3. rsp[c].pc \notin {"hello", "kem"}
    BY <1>0 DEF Local, Bounded
  <2> QED
    BY <2>1, <2>2, <2>3 DEF Bounded, IniNow
<1> QED
  BY <1>5, <1>7, <1>9, <1>10 DEF Keeps, Local

LEMMA InitReplyKeeps == ASSUME Inv, NEW c \in Conns, InitReply(c) PROVE Keeps(c)
<1>0. Domains /\ Local(c) /\ ini[c].pc = "reply" /\ toI[c] # <<>>
  BY DEF Inv, InitReply
<1>1. PICK f : f = Head(toI[c])
  OBVIOUS
<1>2. CASE \E alert \in BOOLEAN : InitFails(c, alert)
  BY <1>0, <1>2, InitFailsKeeps
<1>3. CASE /\ cfg[c].pin \in {Anyone, f.v.pk}
           /\ ini' = [ini EXCEPT ![c].pc = "auth", ![c].reply = f]
           /\ toI' = [toI EXCEPT ![c] = Tail(@)]
           /\ UNCHANGED <<cfg, rsp, toR, si, sr, ticket, server, env>>
  <2>1. IniNow(c, "auth", ini[c].hello, ini[c].init, f) /\ Sets(toI, toI', c, Tail(toI[c]))
    BY <1>0, <1>3, IniUpdates, Setting DEF Domains
  <2>2. Progress(c)
    BY <1>0, <1>3, <2>1 DEF Progress, IniNow
  <2>3. FullHello(c)' /\ ~Session(si[c])'
    BY <1>0, <1>3, <2>2, HelloStays DEF Local, Client, Session
  <2>4. Client(c)'
    BY <1>3, <2>1, <2>3 DEF Client, IniNow
  <2> QED
    BY <1>0, <1>3, <2>1, <2>4, ClientMoves
<1> QED
  BY <1>1, <1>2, <1>3 DEF InitReply

LEMMA InitAuthKeeps == ASSUME Inv, NEW c \in Conns, InitAuth(c) PROVE Keeps(c)
<1>0. Domains /\ Local(c) /\ ini[c].pc = "auth" /\ toI[c] # <<>>
  BY DEF Inv, InitAuth
<1>1. PICK f : f = Head(toI[c])
  OBVIOUS
<1>2. PICK h2, suite, pk, prk :
        /\ h2 = InitH2(c) /\ suite = cfg[c].suite /\ pk = ini[c].reply.v.pk
        /\ prk = FullSecret(c)
  OBVIOUS
<1>3. CASE \E alert \in BOOLEAN : InitFails(c, alert)
  BY <1>0, <1>3, InitFailsKeeps
<1>4. CASE /\ f.type = "AUTH" /\ VerifyAuth(pk, h2, "R", suite, f)
           /\ ini' = [ini EXCEPT ![c].pc = "done"]
           /\ si' = [si EXCEPT ![c] = newSession("I", pk, suite, prk, Nil)]
           /\ toR' = [toR EXCEPT ![c] = Append(@, AuthFrame("I", Sign("A", h2, "I", suite)))]
           /\ toI' = [toI EXCEPT ![c] = Tail(@)]
           /\ UNCHANGED <<cfg, rsp, sr, ticket, server, env>>
  <2>1. /\ IniNow(c, "done", ini[c].hello, ini[c].init, ini[c].reply)
        /\ Sets(toI, toI', c, Tail(toI[c]))
        /\ Sets(toR, toR', c, Append(toR[c], AuthFrame("I", Sign("A", h2, "I", suite))))
        /\ Sets(si, si', c, newSession("I", pk, suite, prk, Nil))
    BY <1>0, <1>4, IniUpdates, Setting DEF Domains
  <2>2. Progress(c)
    BY <1>0, <1>4, <2>1 DEF Progress, IniNow
  <2>3. FullHello(c) /\ cfg[c].pin \in {Anyone, pk}
    BY <1>0, <1>2 DEF Local, Client
  <2>4. Signed(c) /\ f.v.sig = Sign("S", rsp[c].h2, "R", rsp[c].hello.v.suite)
    <3>1. f \in In(toI[c])
      BY <1>0, <1>1, SeqHead DEF Local, Bounded
    <3> QED
      BY <1>0, <1>4, <3>1 DEF Local, Flights, FromServer
  <2>5. rsp[c].h2 = h2
    <3>1. Sign("S", rsp[c].h2, "R", rsp[c].hello.v.suite) = Sign(pk, h2, "R", suite)
      BY <1>4, <2>4 DEF VerifyAuth
    <3> QED
      BY SMT, <3>1, SignInj
  <2>6. PICK s : /\ si'[c] = s /\ Session(s) /\ Keyed(s, "I", prk) /\ s.peer = pk
                 /\ s.suite = suite /\ s.from = Nil /\ s.psk.psk # Nil
    <3>0. PICK role \in {"I", "R"} : role = "I"
      OBVIOUS
    <3>1. PICK s : s = newSession(role, pk, suite, prk, Nil)
      OBVIOUS
    <3>2. si'[c] = s
      BY <2>1, <3>0, <3>1 DEF Sets
    <3>3. /\ Session(s) /\ Keyed(s, role, prk) /\ s.peer = pk /\ s.suite = suite
          /\ s.from = Nil /\ (role = "I" => s.psk.psk # Nil)
      BY SMT, <3>1, SessionOf
    <3> QED
      BY <3>0, <3>2, <3>3
  <2>7. InitH2(c)' = h2 /\ FullSecret(c)' = prk /\ ini'[c].reply.v.pk = pk /\ cfg' = cfg
    BY <1>2, <1>4, <2>1, <2>2, SecretStays DEF IniNow
  <2>8. FullHello(c)' /\ Signed(c)' /\ rsp'[c].h2 = h2
    BY <1>4, <2>2, <2>3, <2>4, <2>5, HelloStays, SignedStays
  <2>9. ClientFull(c)'
    <3>1. Keyed(si[c], "I", FullSecret(c))'
      BY <2>6, <2>7 DEF Keyed
    <3> QED
      BY <1>2, <2>3, <2>6, <2>7, <2>8, <3>1 DEF ClientFull
  <2>10. Client(c)'
    BY <2>1, <2>6, <2>8, <2>9 DEF Client, IniNow, Session
  <2>11. PICK g : g = AuthFrame("I", Sign("A", h2, "I", suite))
    OBVIOUS
  <2>12. FromClient(c, g)'
    <3>1. IsFrame(g) /\ g.type = "AUTH" /\ g.v.sig = Sign("A", h2, "I", suite)
      BY SMTT(30), <2>11, NotNil, Fields DEF AuthFrame
    <3>2. Sign("A", InitH2(c), "I", cfg[c].suite)' = Sign("A", h2, "I", suite)
      BY <1>2, <2>7 DEF Sign, signInput
    <3> QED
      BY ZenonT(60), <2>1, <2>9, <3>1, <3>2 DEF FromClient, IniNow
  <2> QED
    BY <1>0, <1>4, <2>1, <2>10, <2>11, <2>12, ClientMoves
<1> QED
  BY <1>1, <1>2, <1>3, <1>4 DEF InitAuth, InitH2, FullSecret

LEMMA InitResumeKeeps == ASSUME Inv, NEW c \in Conns, InitResume(c) PROVE Keeps(c)
<1>0. Domains /\ Local(c) /\ ini[c].pc = "resume" /\ toI[c] # <<>>
  BY DEF Inv, InitResume
<1>1. PICK f : f = Head(toI[c])
  OBVIOUS
<1>2. PICK k, suite, peer, prk :
        /\ k = ini[c].hello.v.psk /\ suite = cfg[c].suite /\ peer = ini[c].reply.peer
        /\ prk = DeriveResumed(FinishPSK(AbsorbHello(suite, ini[c].hello), Eph(f)),
                               ECDH(<<"I", c>>, Eph(f)), k)
  OBVIOUS
<1>3. PSKHello(c) /\ ini[c].reply.psk = k
  BY <1>0, <1>2 DEF Local, Client
<1>4. CASE \E alert \in BOOLEAN : InitFails(c, alert)
  BY <1>0, <1>4, InitFailsKeeps
<1>5. CASE /\ f.type = "KEM_REPLY"
           /\ ini' = [ini EXCEPT ![c].pc = "done", ![c].reply = f]
           /\ si' = [si EXCEPT ![c] = newSession("I", peer, suite, prk, k)]
           /\ toI' = [toI EXCEPT ![c] = Tail(@)]
           /\ UNCHANGED <<cfg, rsp, toR, sr, ticket, server, env>>
  <2>1. /\ IniNow(c, "done", ini[c].hello, ini[c].init, f)
        /\ Sets(toI, toI', c, Tail(toI[c]))
        /\ Sets(si, si', c, newSession("I", peer, suite, prk, k))
    BY <1>0, <1>5, IniUpdates, Setting DEF Domains
  <2>2. Progress(c)
    BY <1>0, <1>5, <2>1 DEF Progress, IniNow
  <2>3. Resumed(c)
    <3>1. f \in In(toI[c])
      BY <1>0, <1>1, SeqHead DEF Local, Bounded
    <3> QED
      BY <1>0, <1>5, <3>1 DEF Local, Flights, FromServer
  <2>4. PSKHello(c)' /\ Resumed(c)'
    BY <1>0, <1>3, <2>2, <2>3, HelloStays, ResumedStays DEF Local
  <2>5. PICK s : /\ si'[c] = s /\ Session(s) /\ Keyed(s, "I", prk)
                 /\ s.from = k /\ s.psk.psk # Nil
    <3>0. PICK role \in {"I", "R"} : role = "I"
      OBVIOUS
    <3>1. PICK s : s = newSession(role, peer, suite, prk, k)
      OBVIOUS
    <3>2. si'[c] = s
      BY <2>1, <3>0, <3>1 DEF Sets
    <3>3. Session(s) /\ Keyed(s, role, prk) /\ s.from = k /\ (role = "I" => s.psk.psk # Nil)
      BY SMT, <3>1, SessionOf
    <3> QED
      BY <3>0, <3>2, <3>3
  <2>6. ini'[c].reply = f /\ ini'[c].hello = ini[c].hello /\ cfg' = cfg /\ ini'[c].pc = "done"
    BY <1>5, <2>1 DEF IniNow
  <2>7. PSKSecret(c)' = prk /\ ini'[c].hello.v.psk = k
    BY <1>2, <2>6 DEF PSKSecret, DeriveResumed, ECDH, Eph, FinishPSK, AbsorbHello
  <2>8. ClientPSK(c)'
    <3>1. Keyed(si[c], "I", PSKSecret(c))'
      BY <2>5, <2>7 DEF Keyed
    <3> QED
      BY <2>4, <2>5, <2>7, <3>1 DEF ClientPSK
  <2>9. Client(c)'
    BY <2>4, <2>5, <2>6, <2>8 DEF Client, Session
  <2> QED
    BY <1>0, <1>5, <2>1, <2>9, ClientMoves
<1> QED
  <2>1. prk = DeriveResumed(FinishPSK(AbsorbHello(cfg[c].suite, ini[c].hello), Eph(f)),
                            ECDH(<<"I", c>>, Eph(f)), ini[c].reply.psk)
    BY <1>2, <1>3
  <2> QED
    BY <1>1, <1>2, <1>3, <1>4, <1>5, <2>1 DEF InitResume

\* A read ends without a frame.
LEMMA ReadFailsKeeps == ASSUME Inv, NEW c \in Conns, ReadFails(c) PROVE Keeps(c)
<1>0. Domains /\ Local(c)
  BY DEF Inv
<1>1. cfg' = cfg /\ toR' = toR /\ toI' = toI /\ si' = si /\ sr' = sr
  BY DEF ReadFails, wires
<1>2. CASE Waiting(ini[c]) /\ ini' = [ini EXCEPT ![c].pc = "failed"] /\ rsp' = rsp
  <2>1. IniNow(c, "failed", ini[c].hello, ini[c].init, ini[c].reply)
    BY <1>0, <1>2, IniUpdates
  <2>2. Domains' /\ Others(c)
    BY <1>0, <1>1, <1>2, <2>1, EntryOf
  <2>3. Progress(c) /\ ini[c].pc # "done" /\ ini'[c].pc = "failed"
    BY <1>1, <1>2, <2>1 DEF Progress, IniNow, Waiting
  <2>4. Client(c)' /\ Server(c)'
    BY <1>0, <1>1, <1>2, <2>3, ClientFails, ServerKept DEF Local
  <2>5. Flights(c)'
    BY <1>0, <1>1, <2>3, FlightsGo DEF Local
  <2>6. Bounded(c)'
    BY <1>0, <1>1, <1>2, <2>3 DEF Local, Bounded
  <2> QED
    BY <2>2, <2>4, <2>5, <2>6 DEF Keeps, Local
<1>3. CASE Waiting(rsp[c]) /\ rsp' = [rsp EXCEPT ![c].pc = "failed"] /\ ini' = ini
           /\ ini[c].pc # "idle"
  <2>1. RspNow(c, "failed", rsp[c].hello, rsp[c].init, rsp[c].h2)
    BY <1>0, <1>3, RspUpdates
  <2>2. Domains' /\ Others(c)
    BY <1>0, <1>1, <1>3, <2>1, EntryOf
  <2>3. Progress(c) /\ rsp[c].pc # "done" /\ rsp'[c].pc = "failed"
    BY <1>1, <1>3, <2>1 DEF Progress, RspNow, Waiting
  <2>4. Client(c)' /\ Server(c)'
    BY <1>0, <1>1, <1>3, <2>3, ClientKept, ServerFails DEF Local
  <2>5. Flights(c)'
    BY <1>0, <1>1, <1>3, <2>3, FlightsGo DEF Local
  <2>6. Bounded(c)'
    BY <1>0, <1>1, <1>3, <2>3 DEF Local, Bounded
  <2> QED
    BY <2>2, <2>4, <2>5, <2>6 DEF Keeps, Local
<1> QED
  BY <1>2, <1>3 DEF ReadFails

\* The network damages the first frame in flight.
LEMMA DamagedFrame ==
    ASSUME NEW f, NEW d, IsFrame(f), NEW g, g = [f EXCEPT !.dmg = d]
    PROVE  /\ IsFrame(g)
           /\ \A c \in Conns : /\ FromClient(c, f) => FromClient(c, g)
                               /\ FromServer(c, f) => FromServer(c, g)
<1>1. IsFrame(g) /\ g.type = f.type /\ g.v = f.v
  BY SMT DEF IsFrame
<1> QED
  BY <1>1 DEF FromClient, FromServer

LEMMA DamageKeeps == ASSUME Inv, NEW c \in Conns, Damage(c) PROVE Keeps(c)
<1>0. Domains /\ Local(c)
  BY DEF Inv
<1>1. cfg' = cfg /\ ini' = ini /\ rsp' = rsp /\ si' = si /\ sr' = sr
  BY DEF Damage
<1>2. Progress(c)
  BY <1>1 DEF Progress
<1>3. Client(c)' /\ Server(c)'
  BY ZenonT(60), <1>0, <1>1, <1>2, ClientKept, ServerKept DEF Local
<1>4. CASE \E d : toR[c] # <<>> /\ toI' = toI /\ toR' = [toR EXCEPT ![c][1].dmg = d]
  <2>1. PICK d : toR[c] # <<>> /\ toI' = toI /\ toR' = [toR EXCEPT ![c][1].dmg = d]
    BY <1>4
  <2>2. PICK f, s : f = toR[c][1] /\ s = toR[c] /\ s # <<>> /\ IsSeq(s)
    BY <1>0, <2>1 DEF Local, Bounded
  <2>3. PICK g : g = [f EXCEPT !.dmg = d]
    OBVIOUS
  <2>4. Sets(toR, toR', c, [s EXCEPT ![1] = g])
    <3>1. toR' = [toR EXCEPT ![c] = [s EXCEPT ![1] = g]]
      BY SMT, <2>1, <2>2, <2>3
    <3> QED
      BY <1>0, <3>1, Setting DEF Domains
  <2>5. PICK v : v = [s EXCEPT ![1] = g] /\ Sets(toR, toR', c, v) /\ toR'[c] = v
    BY <2>4 DEF Sets
  <2>6. IsSeq(v) /\ In(v) \subseteq In(s) \cup {g} /\ Len(v) = Len(s) /\ f \in In(s)
    <3>1. s[1] = f /\ Marks(s, g, v) /\ IsSeq(s) /\ s # <<>>
      BY <2>2, <2>5 DEF Marks
    <3> QED
      BY <3>1, SeqDamage
  <2>7. FromClient(c, g)'
    <3>1. FromClient(c, f)
      BY <1>0, <2>2, <2>6 DEF Local, Flights
    <3>2. FromClient(c, g)
      <4>1. IsFrame(f)
        BY <3>1 DEF FromClient
      <4> QED
        BY <2>3, <3>1, <4>1, DamagedFrame
    <3> QED
      BY <1>0, <1>2, <3>2, FrameStays DEF Local
  <2>8. Flights(c)'
    BY ZenonT(60), <1>0, <1>1, <1>2, <2>1, <2>2, <2>5, <2>6, <2>7, FlightsGo DEF Local
  <2>9. Bounded(c)'
    BY <1>0, <1>1, <2>1, <2>2, <2>5, <2>6 DEF Local, Bounded
  <2>10. Domains' /\ Others(c)
    BY ZenonT(60), <1>0, <1>1, <2>1, <2>5, EntryOf
  <2> QED
    BY <1>3, <2>8, <2>9, <2>10 DEF Keeps, Local
<1>5. CASE \E d : toI[c] # <<>> /\ toR' = toR /\ toI' = [toI EXCEPT ![c][1].dmg = d]
  <2>1. PICK d : toI[c] # <<>> /\ toR' = toR /\ toI' = [toI EXCEPT ![c][1].dmg = d]
    BY <1>5
  <2>2. PICK f, s : f = toI[c][1] /\ s = toI[c] /\ s # <<>> /\ IsSeq(s)
    BY <1>0, <2>1 DEF Local, Bounded
  <2>3. PICK g : g = [f EXCEPT !.dmg = d]
    OBVIOUS
  <2>4. Sets(toI, toI', c, [s EXCEPT ![1] = g])
    <3>1. toI' = [toI EXCEPT ![c] = [s EXCEPT ![1] = g]]
      BY SMT, <2>1, <2>2, <2>3
    <3> QED
      BY ZenonT(60), <1>0, <3>1, Setting DEF Domains
  <2>5. PICK v : v = [s EXCEPT ![1] = g] /\ Sets(toI, toI', c, v) /\ toI'[c] = v
    BY <2>4 DEF Sets
  <2>6. IsSeq(v) /\ In(v) \subseteq In(s) \cup {g} /\ Len(v) = Len(s) /\ f \in In(s)
    <3>1. s[1] = f /\ Marks(s, g, v) /\ IsSeq(s) /\ s # <<>>
      BY <2>2, <2>5 DEF Marks
    <3> QED
      BY <3>1, SeqDamage
  <2>7. FromServer(c, g)'
    <3>1. FromServer(c, f)
      BY <1>0, <2>2, <2>6 DEF Local, Flights
    <3>2. FromServer(c, g)
      <4>1. IsFrame(f)
        BY <3>1 DEF FromServer
      <4> QED
        BY <2>3, <3>1, <4>1, DamagedFrame
    <3> QED
      BY <1>0, <1>1, <1>2, <3>2, FrameStays DEF Local
  <2>8. Flights(c)'
    BY ZenonT(60), <1>0, <1>1, <1>2, <2>1, <2>2, <2>5, <2>6, <2>7, FlightsGo DEF Local
  <2>9. Bounded(c)'
    BY <1>0, <1>1, <2>1, <2>2, <2>5, <2>6 DEF Local, Bounded
  <2>10. Domains' /\ Others(c)
    BY <1>0, <1>1, <2>1, <2>5, EntryOf
  <2> QED
    BY <1>3, <2>8, <2>9, <2>10 DEF Keeps, Local
<1> QED
  BY <1>4, <1>5 DEF Damage

\* An old flight arrives on a new connection.
LEMMA RedeliverKeeps ==
    ASSUME Inv, NEW c \in Conns, NEW d \in Conns, Redeliver(c, d) PROVE Keeps(c)
<1>0. Domains /\ ini[c].pc = "idle" /\ Local(c) /\ Local(d) /\ ini[d].hello # Nil
  BY DEF Inv, Redeliver, Dialled
<1>1. cfg' = cfg /\ rsp' = rsp /\ toI' = toI /\ si' = si /\ sr' = sr
      /\ ini' = [ini EXCEPT ![c].pc = "failed"]
  BY DEF Redeliver
<1>2. PICK h, i : h = ini[d].hello /\ i = ini[d].init
  OBVIOUS
<1>3. PICK v : /\ v = <<h>> \/ (i # Nil /\ v \in {<<i>>, <<h, i>>})
               /\ toR' = [toR EXCEPT ![c] = v]
  <2>1. CASE i = Nil
    BY <1>2, <2>1 DEF Redeliver
  <2>2. CASE i # Nil
    <3>1. \E v \in {<<h, i>>, <<i>>} : toR' = [toR EXCEPT ![c] = v]
      BY <1>2, <2>2 DEF Redeliver
    <3> QED
      BY <2>2, <3>1
  <2> QED
    BY <2>1, <2>2
<1>4. IniNow(c, "failed", ini[c].hello, ini[c].init, ini[c].reply) /\ Sets(toR, toR', c, v)
  BY <1>0, <1>1, <1>3, IniUpdates, Setting DEF Domains
<1>5. toR'[c] = v /\ ini'[c].pc = "failed"
  BY <1>4 DEF Sets, IniNow
<1>6. /\ IsFrame(h) /\ h.type \in {"HELLO", "HELLO_PSK"}
      /\ h.type = "HELLO" => h.v.id = "A"
      /\ h.type = "HELLO_PSK" => h.v.psk # Nil
      /\ i # Nil => IsFrame(i) /\ i.type = "KEM_INIT"
  BY <1>0, <1>2, Hellos DEF Local, Client
<1>7. FromClient(c, h)' /\ (i # Nil => FromClient(c, i)')
  BY <1>5, <1>6 DEF FromClient, Offered
<1>8. /\ IsSeq(v) /\ Len(v) <= 2 /\ Len(v) <= 3
      /\ In(v) \subseteq {h, i} /\ (i \in In(v) /\ i # h => i # Nil)
  <2>1. CASE v = <<h>>
    BY SMT, <2>1, SeqShort
  <2>2. CASE v = <<i>> /\ i # Nil
    BY SMT, <2>2, SeqShort
  <2>3. CASE v = <<h, i>> /\ i # Nil
    BY SMT, <2>3, SeqShort
  <2> QED
    BY <1>3, <2>1, <2>2, <2>3
<1>9. \A f \in In(toR'[c]) : FromClient(c, f)'
  BY <1>5, <1>7, <1>8
<1>10. ini[c].hello = Nil /\ ini[c].init = Nil
  BY <1>0 DEF Local, Bounded
<1> QED
  BY <1>0, <1>1, <1>4, <1>5, <1>8, <1>9, <1>10, StartKeeps

\* The responder goes on: it took a frame and may have sent some.
LEMMA ServerMoves ==
    ASSUME Inv, NEW c \in Conns, rsp[c].pc \in {"hello", "kem", "auth"}, toR[c] # <<>>,
           cfg' = cfg, ini' = ini, si' = si, Sets(toR, toR', c, Tail(toR[c])),
           NEW p \in {"kem", "auth", "done"}, NEW h, NEW i, NEW t, RspNow(c, p, h, i, t),
           rsp[c].pc # "hello" => h = rsp[c].hello,
           rsp[c].pc = "auth" => p = "done" /\ i = rsp[c].init /\ t = rsp[c].h2,
           sr' = sr \/ \E v : Sets(sr, sr', c, v),
           toI' = toI \/ \E v : Sets(toI, toI', c, v),
           IsSeq(toI'[c]), Len(toI'[c]) <= 3,
           p = "kem" => toI'[c] = <<>>, p = "auth" => Len(toI'[c]) <= 2,
           \A f \in In(toI'[c]) : f \in In(toI[c]) \/ FromServer(c, f)',
           Server(c)'
    PROVE  Keeps(c)
<1>0. Domains /\ Local(c)
  BY DEF Inv
<1>1. rsp'[c].pc = p /\ rsp'[c].hello = h /\ rsp'[c].init = i /\ rsp'[c].h2 = t
  BY DEF RspNow
<1>2. Domains' /\ Others(c)
  BY <1>0, EntryOf
<1>3. Progress(c)
  BY <1>1 DEF Progress
<1>4. Client(c)'
  BY <1>0, <1>3, ClientKept DEF Local
<1>5. IsSeq(toR[c]) /\ toR'[c] = Tail(toR[c])
  BY <1>0 DEF Local, Bounded, Sets
<1>6. Flights(c)'
  <2>1. \A f \in In(toR'[c]) : f \in In(toR[c])
    BY <1>5, SeqHead
  <2> QED
    BY <1>0, <1>3, <2>1, FlightsGo DEF Local
<1>7. Bounded(c)'
  <2>1. /\ IsSeq(toR'[c]) /\ Len(toR'[c]) <= 3
        /\ ini[c].pc \in {"reply", "auth", "resume"} => Len(toR'[c]) <= 2
    <3>1. Len(toR[c]) <= 3
      BY <1>0 DEF Local, Bounded
    <3> QED
      BY <1>5, <3>1, Taken
  <2>2. ini[c].pc # "idle"
    BY <1>0 DEF Local, Bounded
  <2> QED
    BY <1>1, <2>1, <2>2 DEF Bounded
<1> QED
  BY <1>2, <1>4, <1>6, <1>7 DEF Keeps, Local

\* The first frame of the queue is one the client sent.
LEMMA FirstFrame ==
    ASSUME Inv, NEW c \in Conns, toR[c] # <<>>
    PROVE  FromClient(c, Head(toR[c])) /\ IsFrame(Head(toR[c])) /\ Head(toR[c]) # Nil
<1>1. Head(toR[c]) \in In(toR[c]) /\ \A f \in In(toR[c]) : FromClient(c, f)
  BY SeqHead DEF Inv, Local, Bounded, Flights
<1>2. FromClient(c, Head(toR[c])) /\ IsFrame(Head(toR[c]))
  BY <1>1 DEF FromClient
<1> QED
  BY <1>2, NotNil

LEMMA RespHelloKeeps == ASSUME Inv, NEW c \in Conns, RespHello(c) PROVE Keeps(c)
<1>0. Domains /\ Local(c) /\ rsp[c].pc = "hello" /\ toR[c] # <<>>
  BY DEF Inv, RespHello
<1>1. PICK f : f = Head(toR[c]) /\ f.type = "HELLO" /\ FromClient(c, f)
  BY FirstFrame DEF RespHello
<1>2. CASE \E alert \in BOOLEAN : RespFails(c, alert)
  BY <1>0, <1>2, RespFailsKeeps
<1>3. CASE /\ ~Refuses(f.v)
           /\ rsp' = [rsp EXCEPT ![c].pc = "kem", ![c].hello = f]
           /\ toR' = [toR EXCEPT ![c] = Tail(@)]
           /\ UNCHANGED <<cfg, ini, toI, si, sr, ticket, env>>
  <2>1. RspNow(c, "kem", f, rsp[c].init, rsp[c].h2) /\ Sets(toR, toR', c, Tail(toR[c]))
    BY <1>0, <1>3, RspUpdates, Setting DEF Domains
  <2>2. rsp'[c].pc = "kem" /\ rsp'[c].hello = f /\ Progress(c)
    BY <1>0, <1>3, <2>1 DEF RspNow, Progress
  <2>3. f.v.id = "A" /\ Offered(c, FullHello(c))'
    BY <1>1, <1>3, <2>2, HelloStays DEF FromClient, Offered
  <2>4. Passed(c)'
    BY <1>1, <1>3, <2>2, <2>3 DEF Passed, Refuses, acceptsSuite
  <2>5. Server(c)'
    BY <1>0, <1>3, <2>2, <2>4 DEF Local, Server, Session
  <2>6. toI[c] = <<>> /\ IsSeq(<<>>) /\ Len(<<>>) <= 3
    BY SMT, <1>0, SeqShort DEF Local, Bounded
  <2> QED
    BY <1>0, <1>3, <2>1, <2>5, <2>6, ServerMoves
<1> QED
  BY <1>1, <1>2, <1>3 DEF RespHello

LEMMA RespKEMKeeps == ASSUME Inv, NEW c \in Conns, RespKEM(c) PROVE Keeps(c)
<1>0. Domains /\ Local(c) /\ rsp[c].pc = "kem" /\ toR[c] # <<>>
  BY DEF Inv, RespKEM
<1>1. PICK f, h, t : f = Head(toR[c]) /\ h = rsp[c].hello /\ t = H2(h, f, KEMReplyFrame(c))
  OBVIOUS
<1>2. PICK r, a : r = KEMReplyFrame(c) /\ a = AuthFrame("R", Sign("S", t, "R", h.v.suite))
  OBVIOUS
<1>3. CASE \E alert \in BOOLEAN : RespFails(c, alert)
  BY <1>0, <1>3, RespFailsKeeps
<1>4. CASE /\ rsp' = [rsp EXCEPT ![c].pc = "auth", ![c].init = f, ![c].h2 = t]
           /\ toI' = [toI EXCEPT ![c] = @ \o <<r, a>>]
           /\ toR' = [toR EXCEPT ![c] = Tail(@)]
           /\ UNCHANGED <<cfg, ini, si, sr, ticket, env>>
  <2>1. RspNow(c, "auth", h, f, t) /\ Sets(toR, toR', c, Tail(toR[c]))
        /\ Sets(toI, toI', c, toI[c] \o <<r, a>>)
    BY <1>0, <1>1, <1>4, RspUpdates, Setting DEF Domains
  <2>2. /\ rsp'[c].pc = "auth" /\ rsp'[c].hello = h /\ rsp'[c].init = f /\ rsp'[c].h2 = t
        /\ Progress(c)
    BY ZenonT(60), <1>0, <1>1, <1>4, <2>1 DEF RspNow, Progress
  <2>3. Passed(c) /\ Passed(c)'
    BY <1>0, <2>2, PassedStays DEF Local, Server
  <2>4. Signed(c)'
    BY <1>1, <2>2, <2>3 DEF Signed, H2, KEMReplyFrame, Frame, FinishFull, AbsorbKEM, AbsorbHello
  <2>5. Server(c)'
    BY <1>0, <1>4, <2>2, <2>4 DEF Local, Server, Session
  <2>6. toI'[c] = <<r, a>>
    <3>1. toI[c] = <<>>
      BY <1>0 DEF Local, Bounded
    <3>2. toI'[c] = toI[c] \o <<r, a>>
      BY <2>1 DEF Sets
    <3> QED
      BY SMT, <3>1, <3>2
  <2>7. IsSeq(toI'[c]) /\ Len(toI'[c]) <= 3 /\ Len(toI'[c]) <= 2 /\ In(toI'[c]) \subseteq {r, a}
    BY SMT, <2>6, SeqShort
  <2>8. FromServer(c, r)'
    <3>1. IsFrame(r) /\ r.type = "KEM_REPLY"
      BY SMTT(30), <1>2, NotNil, Fields DEF KEMReplyFrame
    <3>2. ini'[c].pc # "resume"
      BY <1>0, <1>4, <2>3, Kinds DEF Local, Client, Passed, Offered
    <3> QED
      BY <3>1, <3>2 DEF FromServer
  <2>9. FromServer(c, a)'
    <3>1. IsFrame(a) /\ a.type = "AUTH" /\ a.v.sig = Sign("S", t, "R", h.v.suite)
      BY SMT, <1>2, NotNil, Fields DEF AuthFrame
    <3>2. Sign("S", rsp[c].h2, "R", rsp[c].hello.v.suite)' = Sign("S", t, "R", h.v.suite)
      BY <2>2 DEF Sign, signInput
    <3> QED
      BY ZenonT(60), <2>4, <3>1, <3>2 DEF FromServer
  <2> QED
    BY ZenonT(60), <1>0, <1>1, <1>4, <2>1, <2>5, <2>7, <2>8, <2>9, ServerMoves
<1> QED
  BY <1>1, <1>2, <1>3, <1>4 DEF RespKEM

\* The responder's last step: a full handshake was verified, or a psk redeemed.
AuthDone(c) ==
    /\ rsp[c].pc = "auth" /\ toR[c] # <<>> /\ Head(toR[c]).type = "AUTH"
    /\ VerifyAuth(rsp[c].hello.v.id, rsp[c].h2, "I", rsp[c].hello.v.suite, Head(toR[c]))
    /\ rsp' = [rsp EXCEPT ![c].pc = "done"]
    /\ store' = Issue(store, RespFullSecret(c), rsp[c].hello.v.id) /\ UNCHANGED seen
    /\ sr' = [sr EXCEPT ![c] = newSession("R", rsp[c].hello.v.id, rsp[c].hello.v.suite,
                                          RespFullSecret(c), Nil)]
    /\ toR' = [toR EXCEPT ![c] = Tail(@)]
    /\ UNCHANGED <<cfg, ini, toI, si, ticket, env>>
ResumeSecret(c, f) ==
    DeriveResumed(FinishPSK(AbsorbHello(f.v.suite, f), <<"R", c>>),
                  ECDH(<<"R", c>>, Eph(f)), f.v.psk)
ResumeDone(c, f, client) ==
    /\ rsp[c].pc = "hello" /\ toR[c] # <<>> /\ f = Head(toR[c]) /\ f.type = "HELLO_PSK"
    /\ [of |-> f.v.psk, rand |-> f.v.rand, dmg |-> f.dmg] \notin seen
    /\ seen' = SeenOrAdd([of |-> f.v.psk, rand |-> f.v.rand, dmg |-> f.dmg])
    /\ Redeemable(f.v.psk) # {}
    /\ rsp' = [rsp EXCEPT ![c].pc = "done", ![c].hello = f]
    /\ store' = Issue(Redeem(f.v.psk), ResumeSecret(c, f), client)
    /\ sr' = [sr EXCEPT ![c] =
                newSession("R", client, f.v.suite, ResumeSecret(c, f), f.v.psk)]
    /\ toI' = [toI EXCEPT ![c] = Append(@, Frame("KEM_REPLY", [eph |-> <<"R", c>>]))]
    /\ toR' = [toR EXCEPT ![c] = Tail(@)]
    /\ UNCHANGED <<cfg, ini, si, ticket, env>>

LEMMA RespAuthCases ==
    ASSUME NEW c \in Conns, RespAuth(c)
    PROVE  (\E alert \in BOOLEAN : RespFails(c, alert) /\ UNCHANGED server) \/ AuthDone(c)
  BY DEF RespAuth, AuthDone, RespFullSecret

LEMMA RespResumeCases ==
    ASSUME NEW c \in Conns, RespResume(c)
    PROVE  \/ \E alert \in BOOLEAN :
                RespFails(c, alert) /\ seen \subseteq seen' /\ store' \subseteq store
           \/ \E f, client : ResumeDone(c, f, client)
<1>1. PICK f, k, prk : /\ f = Head(toR[c]) /\ prk = ResumeSecret(c, f)
                       /\ k = [of |-> f.v.psk, rand |-> f.v.rand, dmg |-> f.dmg]
  OBVIOUS
<1>2. Redeem(f.v.psk) \subseteq store /\ seen \subseteq SeenOrAdd(k)
  BY DEF Redeem, SeenOrAdd
<1>3. CASE k \in seen
  BY <1>1, <1>3 DEF RespResume, server, ResumeSecret
<1>4. CASE k \notin seen
  BY <1>1, <1>2, <1>4 DEF RespResume, ResumeDone, server, ResumeSecret
<1> QED
  BY <1>3, <1>4

LEMMA RespAuthKeeps == ASSUME Inv, NEW c \in Conns, RespAuth(c) PROVE Keeps(c)
<1>0. Domains /\ Local(c) /\ rsp[c].pc = "auth" /\ toR[c] # <<>>
  BY DEF Inv, RespAuth
<1>1. PICK f, h, prk : f = Head(toR[c]) /\ h = rsp[c].hello /\ prk = RespFullSecret(c)
  OBVIOUS
<1>2. CASE \E alert \in BOOLEAN : RespFails(c, alert)
  BY <1>0, <1>2, RespFailsKeeps
<1>3. CASE AuthDone(c)
  <2>1. /\ RspNow(c, "done", h, rsp[c].init, rsp[c].h2)
        /\ Sets(toR, toR', c, Tail(toR[c]))
        /\ Sets(sr, sr', c, newSession("R", h.v.id, h.v.suite, prk, Nil))
    BY <1>0, <1>1, <1>3, RspUpdates, Setting DEF Domains, AuthDone
  <2>2. /\ rsp'[c].pc = "done" /\ rsp'[c].hello = h /\ cfg' = cfg /\ ini' = ini /\ si' = si
        /\ toI' = toI
    BY <1>3, <2>1 DEF RspNow, AuthDone
  <2>3. Progress(c)
    BY <1>0, <1>1, <2>1, <2>2 DEF Progress, RspNow
  <2>4. f.type = "AUTH" /\ FromClient(c, f)
    BY <1>1, <1>3, FirstFrame DEF AuthDone
  <2>5. ini[c].pc = "done" /\ ClientFull(c)
    BY <2>4 DEF FromClient
  <2>6. ClientFull(c)' /\ h.v.id = "A"
    BY ZenonT(60), <1>0, <1>1, <2>3, <2>5, ClientStays DEF Local, Server, Signed, Passed
  <2>7. PICK s : /\ sr'[c] = s /\ Session(s) /\ Keyed(s, "R", prk) /\ s.peer = "A"
                 /\ s.suite = h.v.suite /\ s.from = Nil
    <3>0. PICK role \in {"I", "R"} : role = "R"
      OBVIOUS
    <3>1. PICK s : s = newSession(role, h.v.id, h.v.suite, prk, Nil)
      OBVIOUS
    <3>2. sr'[c] = s
      BY <2>1, <3>0, <3>1 DEF Sets
    <3>3. /\ Session(s) /\ Keyed(s, role, prk) /\ s.peer = h.v.id /\ s.suite = h.v.suite
          /\ s.from = Nil
      BY SMT, <3>1, SessionOf
    <3> QED
      BY <2>6, <3>0, <3>2, <3>3
  <2>8. RespFullSecret(c)' = prk
    BY <1>0, <1>1, <2>3, SecretStays
  <2>9. ServerFull(c)'
    <3>1. Keyed(sr[c], "R", RespFullSecret(c))'
      BY <2>7, <2>8 DEF Keyed
    <3> QED
      BY <2>2, <2>5, <2>6, <2>7, <3>1 DEF ServerFull
  <2>10. Server(c)'
    BY <2>2, <2>7, <2>9 DEF Server, Session
  <2>11. IsSeq(toI[c]) /\ Len(toI[c]) <= 3
    BY <1>0 DEF Local, Bounded
  <2> QED
    BY <1>0, <1>1, <2>1, <2>2, <2>10, <2>11, ServerMoves
<1> QED
  BY <1>2, <1>3, RespAuthCases

LEMMA RespResumeKeeps == ASSUME Inv, NEW c \in Conns, RespResume(c) PROVE Keeps(c)
<1>0. Domains /\ Local(c) /\ rsp[c].pc = "hello" /\ toR[c] # <<>>
  BY DEF Inv, RespResume
<1>1. CASE \E alert \in BOOLEAN : RespFails(c, alert)
  BY <1>0, <1>1, RespFailsKeeps
<1>2. ASSUME NEW f, NEW client, ResumeDone(c, f, client) PROVE Keeps(c)
  <2>1. PICK prk, k, r : /\ prk = ResumeSecret(c, f) /\ k = f.v.psk
                         /\ r = Frame("KEM_REPLY", [eph |-> <<"R", c>>])
    OBVIOUS
  <2>2. /\ RspNow(c, "done", f, rsp[c].init, rsp[c].h2)
        /\ Sets(toR, toR', c, Tail(toR[c])) /\ Sets(toI, toI', c, Append(toI[c], r))
        /\ Sets(sr, sr', c, newSession("R", client, f.v.suite, prk, k))
    BY <1>0, <1>2, <2>1, RspUpdates, Setting DEF Domains, ResumeDone
  <2>3. rsp'[c].pc = "done" /\ rsp'[c].hello = f /\ cfg' = cfg /\ ini' = ini /\ si' = si
    BY <1>2, <2>2 DEF RspNow, ResumeDone
  <2>4. Progress(c)
    BY <1>0, <2>3 DEF Progress
  <2>5. f.type = "HELLO_PSK" /\ k # Nil /\ Offered(c, PSKHello(c) /\ k = ini[c].hello.v.psk)
    <3>1. f.type = "HELLO_PSK" /\ FromClient(c, f)
      BY <1>2, FirstFrame DEF ResumeDone
    <3> QED
      BY <2>1, <3>1 DEF FromClient, Offered
  <2>6. PICK s : sr'[c] = s /\ Session(s) /\ Keyed(s, "R", prk) /\ s.from = k
    <3>0. PICK role \in {"I", "R"} : role = "R"
      OBVIOUS
    <3>1. PICK s : s = newSession(role, client, f.v.suite, prk, k)
      OBVIOUS
    <3>2. sr'[c] = s
      BY <2>2, <3>0, <3>1 DEF Sets
    <3>3. Session(s) /\ Keyed(s, role, prk) /\ s.from = k
      BY SMT, <3>1, SessionOf
    <3> QED
      BY <3>0, <3>2, <3>3
  <2>7. Resumed(c)'
    BY <2>1, <2>3, <2>4, <2>5, <2>6, HelloStays DEF Resumed, Offered, Session
  <2>8. ServerPSK(c)'
    <3>1. RespPSKSecret(c)' = prk
      BY <2>1, <2>3 DEF RespPSKSecret, ResumeSecret, DeriveResumed, ECDH, Eph, FinishPSK, AbsorbHello
    <3>2. Keyed(sr[c], "R", RespPSKSecret(c))'
      BY <2>6, <3>1 DEF Keyed
    <3> QED
      BY <2>7, <3>2 DEF ServerPSK
  <2>9. Server(c)'
    BY <2>3, <2>6, <2>8 DEF Server, Session
  <2>10. FromServer(c, r)'
    <3>1. IsFrame(r) /\ r.type = "KEM_REPLY"
      BY SMTT(30), <2>1, NotNil, Fields
    <3> QED
      BY <2>7, <3>1 DEF FromServer
  <2>11. IsSeq(toI'[c]) /\ Len(toI'[c]) <= 3 /\ In(toI'[c]) \subseteq In(toI[c]) \cup {r}
    <3>1. IsSeq(toI[c]) /\ toI'[c] = Append(toI[c], r)
      BY <1>0, <2>2 DEF Local, Bounded, Sets
    <3>2. toI[c] = <<>>
      BY <1>0 DEF Local, Bounded
    <3>3. Len(toI[c]) <= 2
      BY SMT, <3>2
    <3>4. /\ IsSeq(Append(toI[c], r)) /\ In(Append(toI[c], r)) \subseteq In(toI[c]) \cup {r}
          /\ Len(Append(toI[c], r)) <= 3
      BY SMTT(30), <3>1, <3>3, Added
    <3> QED
      BY SMT, <3>1, <3>4
  <2> QED
    BY ZenonT(60), <1>0, <2>2, <2>3, <2>9, <2>10, <2>11, ServerMoves
<1> QED
  BY <1>1, <1>2, RespResumeCases

LEMMA RespOtherKeeps == ASSUME Inv, NEW c \in Conns, RespOther(c) PROVE Keeps(c)
<1>1. rsp[c].pc = "hello" /\ toR[c] # <<>> /\ \E alert \in BOOLEAN : RespFails(c, alert)
  BY DEF RespOther
<1> QED
  BY <1>1, RespFailsKeeps

-------------------------------------------------------------------------------
(* Every step keeps what holds of each connection.                             *)

LEMMA KeepsAll == ASSUME Inv, NEW c \in Conns, Keeps(c) PROVE Domains' /\ \A d \in Conns : Local(d)'
<1>1. ASSUME NEW d \in Conns, d # c PROVE Local(d)'
  BY <1>1, SameLocal DEF Keeps, Others, Inv
<1> QED
  BY <1>1 DEF Keeps

LEMMA SameAll ==
    ASSUME Inv, UNCHANGED <<cfg, ini, rsp, wires, si, sr>>
    PROVE  Domains' /\ \A d \in Conns : Local(d)'
<1>1. ASSUME NEW d \in Conns PROVE Local(d)'
  <2>1. Local(d) /\ Same(d)
    BY DEF Inv, Same, wires
  <2> QED
    BY <2>1, SameLocal
<1>2. Domains'
  BY DEF Inv, Domains, wires
<1> QED
  BY <1>1, <1>2

LEMMA LocalStep ==
    ASSUME Inv, [Next]_vars PROVE Domains' /\ \A d \in Conns : Local(d)'
<1>1. ASSUME NEW c \in Conns, Initiator(c) PROVE Domains' /\ \A d \in Conns : Local(d)'
  BY ZenonT(60), <1>1, InitRunKeeps, InitReplyKeeps, InitAuthKeeps, InitResumeKeeps, KeepsAll DEF Initiator
<1>2. ASSUME NEW c \in Conns, Responder(c) PROVE Domains' /\ \A d \in Conns : Local(d)'
  BY ZenonT(60), <1>2, RespHelloKeeps, RespKEMKeeps, RespAuthKeeps, RespResumeKeeps, RespOtherKeeps, KeepsAll
     DEF Responder
<1>3. ASSUME NEW c \in Conns, ReadFails(c) \/ Damage(c) \/ \E d \in Conns : Redeliver(c, d)
      PROVE  Domains' /\ \A d \in Conns : Local(d)'
  BY <1>3, ReadFailsKeeps, DamageKeeps, RedeliverKeeps, KeepsAll
<1>4. ASSUME (\E c \in Conns : KeepTicket(c)) \/ DropTicket \/ Sweep \/ Tick \/ UNCHANGED vars
      PROVE  Domains' /\ \A d \in Conns : Local(d)'
  <2>1. UNCHANGED <<cfg, ini, rsp, wires, si, sr>>
    BY <1>4 DEF KeepTicket, DropTicket, Sweep, Tick, vars
  <2> QED
    BY <2>1, SameAll
<1> QED
  BY ZenonT(60), <1>1, <1>2, <1>3, <1>4 DEF Next

-------------------------------------------------------------------------------
(* Secrets tell the connection they were derived on.                           *)

FullAt(c, prk) == \E h, i, x, m : prk = DeriveSession(H2(h, i, KEMReplyFrame(c)), x, m)
ResumedAt(c, prk) == \E h, x, k : prk = DeriveResumed(FinishPSK(h, <<"R", c>>), x, k)
SecretAt(c, prk) == FullAt(c, prk) \/ ResumedAt(c, prk)

LEMMA DeriveInj ==
    /\ \A h, x, m, g, y, n : DeriveSession(h, x, m) = DeriveSession(g, y, n) => h = g
    /\ \A h, x, m, g, y, n : DeriveResumed(h, x, m) = DeriveResumed(g, y, n) => h = g
    /\ \A h, x, m, g, y, n : DeriveSession(h, x, m) # DeriveResumed(g, y, n)
<1>1. \A h, x, m, g, y, n : DeriveSession(h, x, m) = DeriveSession(g, y, n) => h = g
  BY SMT DEF DeriveSession
<1>2. \A h, x, m, g, y, n : DeriveResumed(h, x, m) = DeriveResumed(g, y, n) => h = g
  BY SMT DEF DeriveResumed
<1>3. ASSUME NEW h, NEW x, NEW m, NEW g, NEW y, NEW n, DeriveSession(h, x, m) = DeriveResumed(g, y, n)
      PROVE  FALSE
  <2>1. <<"ML-KEM", x, m>> = <<"resumption", y, n>>
    BY SMT, <1>3 DEF DeriveSession, DeriveResumed
  <2> QED
    BY SMT, <2>1
<1> QED
  BY <1>1, <1>2, <1>3

LEMMA SecretsApart ==
    ASSUME NEW c, NEW d, NEW prk, SecretAt(c, prk)
    PROVE  prk # Earlier /\ (SecretAt(d, prk) => c = d)
<1>1. ASSUME NEW h, NEW i, NEW r PROVE H2(h, i, r) # <<>>
  BY SMT DEF H2, FinishFull
<1>2. prk # Earlier
  BY <1>1, DeriveInj DEF SecretAt, FullAt, ResumedAt, Earlier
<1>3. ASSUME FullAt(c, prk), FullAt(d, prk) PROVE c = d
  <2>1. PICK h, i, x, m : prk = DeriveSession(H2(h, i, KEMReplyFrame(c)), x, m)
    BY <1>3 DEF FullAt
  <2>2. PICK g, j, y, n : prk = DeriveSession(H2(g, j, KEMReplyFrame(d)), y, n)
    BY <1>3 DEF FullAt
  <2>3. H2(h, i, KEMReplyFrame(c)) = H2(g, j, KEMReplyFrame(d))
    BY <2>1, <2>2, DeriveInj
  <2>4. KEMReplyFrame(c) = KEMReplyFrame(d)
    BY SMTT(30), <2>3, H2Inj
  <2> QED
    BY SMT, <2>4 DEF KEMReplyFrame, Frame
<1>4. ASSUME ResumedAt(c, prk), ResumedAt(d, prk) PROVE c = d
  <2>1. PICK h, x, k : prk = DeriveResumed(FinishPSK(h, <<"R", c>>), x, k)
    BY <1>4 DEF ResumedAt
  <2>2. PICK g, y, l : prk = DeriveResumed(FinishPSK(g, <<"R", d>>), y, l)
    BY <1>4 DEF ResumedAt
  <2>3. FinishPSK(h, <<"R", c>>) = FinishPSK(g, <<"R", d>>)
    BY <2>1, <2>2, DeriveInj
  <2>4. <<"R", c>> = <<"R", d>>
    BY SMT, <2>3 DEF FinishPSK
  <2> QED
    BY SMT, <2>4
<1>5. ASSUME NEW a, NEW b, FullAt(a, prk), ResumedAt(b, prk) PROVE FALSE
  BY <1>5, DeriveInj DEF FullAt, ResumedAt
<1> QED
  BY <1>2, <1>3, <1>4, <1>5 DEF SecretAt

\* The secret of a server's session was derived on its connection.
LEMMA ServerSecret ==
    ASSUME NEW c \in Conns, Server(c), Session(sr[c])
    PROVE  /\ SecretAt(c, sr[c].send[1])
           /\ sr[c].send = <<sr[c].send[1], "R">>
<1>1. ServerFull(c) \/ ServerPSK(c)
  BY DEF Server
<1>2. CASE ServerFull(c)
  <2>1. sr[c].send = <<RespFullSecret(c), "R">> /\ Signed(c)
    BY <1>2 DEF ServerFull, ClientFull, Keyed
  <2>2. FullAt(c, RespFullSecret(c))
    BY <2>1 DEF Signed, RespFullSecret, FullAt
  <2>3. sr[c].send[1] = RespFullSecret(c)
    BY SMT, <2>1
  <2> QED
    BY <2>1, <2>2, <2>3 DEF SecretAt
<1>3. CASE ServerPSK(c)
  <2>1. sr[c].send = <<RespPSKSecret(c), "R">>
    BY <1>3 DEF ServerPSK, Keyed
  <2>2. ResumedAt(c, RespPSKSecret(c))
    BY DEF RespPSKSecret, ResumedAt
  <2>3. sr[c].send[1] = RespPSKSecret(c)
    BY SMT, <2>1
  <2> QED
    BY <2>1, <2>2, <2>3 DEF SecretAt
<1> QED
  BY <1>1, <1>2, <1>3

-------------------------------------------------------------------------------
(* The server's replay cache and its psk store.                                *)

\* Most steps accept nothing: no hello, no session, nothing new in the store.
Accepts == Remembered /\ HelloAcceptedOnce /\ Stores
Quiet ==
    /\ \A c \in Conns : rsp'[c].hello = rsp[c].hello
    /\ sr' = sr /\ seen \subseteq seen' /\ store' \subseteq store

LEMMA QuietStays == ASSUME Accepts, Quiet PROVE Accepts'
<1>1. Remembered'
  <2>1. ASSUME NEW c \in Conns, rsp'[c].hello # Nil PROVE KeyOf(rsp[c].hello)' \in seen'
    <3>1. rsp'[c].hello = rsp[c].hello /\ KeyOf(rsp[c].hello)' = KeyOf(rsp[c].hello)
      BY DEF Quiet, KeyOf
    <3> QED
      BY <2>1, <3>1 DEF Accepts, Quiet, Remembered, Nil
  <2> QED
    BY <2>1 DEF Remembered, Nil
<1>2. HelloAcceptedOnce'
  BY ZenonT(60) DEF Accepts, Quiet, HelloAcceptedOnce, Nil
<1>3. Stores'
  <2>1. sr' = sr /\ \A e \in store' : e \in store
    BY DEF Quiet
  <2>2. ASSUME NEW p PROVE Issued(p)' <=> Issued(p)
    BY <2>1 DEF Issued, Session, ResumptionPSK, Earlier, DeriveSession, Nil
  <2>3. \A e \in store' : Issued(e.psk)'
    <3>1. ASSUME NEW e, e \in store' PROVE Issued(e.psk)'
      <4>1. PICK p : p = e.psk
        OBVIOUS
      <4>2. Issued(p)
        BY <2>1, <3>1, <4>1 DEF Accepts, Stores
      <4> QED
        BY <2>2, <4>1, <4>2
    <3> QED
      BY <3>1
  <2>4. ASSUME NEW c \in Conns, Session(sr[c]), sr[c].from # Nil PROVE Redeemed(sr[c].from)'
    <3>1. PICK p : p = sr[c].from
      OBVIOUS
    <3>2. Redeemed(p)
      BY <2>4, <3>1 DEF Accepts, Stores
    <3>3. Issued(p)' /\ \A e \in store' : e.psk # p
      BY <2>1, <2>2, <3>2 DEF Redeemed
    <3> QED
      BY <2>1, <3>1, <3>3 DEF Redeemed
  <2>5. \A c, d \in Conns : Session(sr[c]) /\ Session(sr[d]) /\ sr[c].from # Nil /\ c # d =>
          sr[c].from # sr[d].from
    BY DEF Accepts, Stores
  <2> QED
    BY <2>1, <2>3, <2>4, <2>5 DEF Stores, Session, Nil
<1> QED
  BY <1>1, <1>2, <1>3 DEF Accepts

\* A hello is read whose key was not in the cache.
Reads(c, f, k) ==
    /\ f # Nil /\ k = KeyOf(f) /\ k \notin seen /\ seen' = seen \cup {k}
    /\ rsp'[c].hello = f /\ \A d \in Conns : d # c => rsp'[d].hello = rsp[d].hello

LEMMA ReadOnce ==
    ASSUME Accepts, NEW c \in Conns, NEW f, NEW k, Reads(c, f, k)
    PROVE  Remembered' /\ HelloAcceptedOnce'
<1>1. ASSUME NEW d \in Conns, d # c
      PROVE  /\ rsp'[d].hello = rsp[d].hello
             /\ rsp[d].hello # Nil => rsp[d].hello # f /\ KeyOf(rsp[d].hello) \in seen'
  <2>1. rsp[d].hello # Nil => KeyOf(rsp[d].hello) \in seen
    BY DEF Accepts, Remembered
  <2> QED
    BY <1>1, <2>1 DEF Reads
<1>2. rsp'[c].hello = f /\ f # Nil /\ KeyOf(f) \in seen'
  BY DEF Reads
<1>3. Remembered'
  <2>1. ASSUME NEW d \in Conns, rsp'[d].hello # Nil PROVE KeyOf(rsp[d].hello)' \in seen'
    <3>1. CASE d = c
      <4>1. KeyOf(rsp[c].hello)' = KeyOf(f)
        BY <1>2 DEF KeyOf
      <4> QED
        BY <1>2, <3>1, <4>1
    <3>2. CASE d # c
      <4>1. rsp'[d].hello = rsp[d].hello /\ KeyOf(rsp[d].hello)' = KeyOf(rsp[d].hello)
        BY <1>1, <3>2 DEF KeyOf
      <4> QED
        BY <1>1, <2>1, <3>2, <4>1
    <3> QED
      BY <3>1, <3>2
  <2> QED
    BY <2>1 DEF Remembered, Nil
<1>4. HelloAcceptedOnce'
  <2>1. ASSUME NEW a \in Conns, NEW b \in Conns, a # b, rsp'[a].hello # Nil
        PROVE  rsp'[a].hello # rsp'[b].hello
    <3>1. CASE a = c
      BY <1>1, <1>2, <2>1, <3>1
    <3>2. CASE b = c
      BY <1>1, <1>2, <2>1, <3>2
    <3>3. CASE a # c /\ b # c
      BY <1>1, <2>1, <3>3 DEF Accepts, HelloAcceptedOnce
    <3> QED
      BY <3>1, <3>2, <3>3
  <2> QED
    BY <2>1 DEF HelloAcceptedOnce, Nil
<1> QED
  BY <1>3, <1>4

\* The server returns a session and issues the psk of its secret; S is what the
\* redemption has left of the store.
LEMMA Issues ==
    ASSUME Inv, NEW c \in Conns, ~Session(sr[c]), NEW prk, SecretAt(c, prk),
           NEW s, Sets(sr, sr', c, s), Session(s), s.send[1] = prk,
           NEW S, S \subseteq store, NEW client, store' = Issue(S, prk, client),
           s.from # Nil => (\E e \in store : e.psk = s.from) /\ \A e \in S : e.psk # s.from
    PROVE  Stores'
<1>1. PICK p : p = ResumptionPSK(prk)
  OBVIOUS
<1>2. \A e \in store' : e \in S \/ e.psk = p
  BY SMT, <1>1 DEF Issue
<1>3. sr'[c] = s /\ \A d \in Conns : Session(sr[d]) => d # c /\ sr'[d] = sr[d]
  <2>1. sr'[c] = s /\ \A d \in Conns : d # c => sr'[d] = sr[d]
    BY DEF Sets
  <2>2. ASSUME NEW d \in Conns, Session(sr[d]) PROVE d # c
    BY <2>2
  <2> QED
    BY <2>1, <2>2
<1>4. ASSUME NEW q, Issued(q) PROVE Issued(q)' /\ q # p
  <2>1. CASE q = ResumptionPSK(Earlier)
    <3>1. prk # Earlier
      BY SecretsApart
    <3>2. q # p
      BY SMTT(30), <1>1, <2>1, <3>1 DEF ResumptionPSK
    <3> QED
      BY <2>1, <3>2 DEF Issued, Earlier, DeriveSession, ResumptionPSK
  <2>2. CASE \E d \in Conns : Session(sr[d]) /\ q = ResumptionPSK(sr[d].send[1])
    <3>1. PICK d \in Conns : Session(sr[d]) /\ q = ResumptionPSK(sr[d].send[1])
      BY <2>2
    <3>2. PICK r : r = sr[d].send[1]
      OBVIOUS
    <3>3. SecretAt(d, r) /\ d # c
      BY <1>3, <3>1, <3>2, ServerSecret DEF Inv, Local
    <3>4. r # prk
      BY <3>3, SecretsApart
    <3>5. q # p
      BY SMTT(30), <1>1, <3>1, <3>2, <3>4 DEF ResumptionPSK
    <3>6. Session(sr[d])' /\ q = ResumptionPSK(sr[d].send[1])'
      BY <1>3, <3>1 DEF Session, Nil, ResumptionPSK
    <3> QED
      BY <3>5, <3>6 DEF Issued
  <2> QED
    BY <1>4, <2>1, <2>2 DEF Issued
<1>5. Issued(p)'
  BY <1>1, <1>3 DEF Issued, Session, Nil, ResumptionPSK
<1>6. \A e \in store' : Issued(e.psk)'
  <2>1. ASSUME NEW e, e \in store' PROVE Issued(e.psk)'
    <3>1. PICK q : q = e.psk
      OBVIOUS
    <3>2. e \in S => Issued(q)
      BY <3>1 DEF Inv, Stores
    <3>3. Issued(q)'
      BY ZenonT(60), <1>2, <1>4, <1>5, <2>1, <3>1, <3>2
    <3> QED
      BY <3>1, <3>3
  <2> QED
    BY <2>1
<1>7. ASSUME NEW q, Issued(q), \A e \in S : e.psk # q PROVE Redeemed(q)'
  <2>1. Issued(q)' /\ q # p
    BY <1>4, <1>7
  <2> QED
    BY <1>2, <1>7, <2>1 DEF Redeemed
<1>8. ASSUME s.from # Nil PROVE Issued(s.from) /\ \A e \in S : e.psk # s.from
  BY <1>8 DEF Inv, Stores
<1>9. ASSUME NEW d \in Conns, Session(sr[d]), sr[d].from # Nil
      PROVE  Issued(sr[d].from) /\ \A e \in store : e.psk # sr[d].from
  BY <1>9 DEF Inv, Stores, Redeemed
<1>10. ASSUME NEW d \in Conns, Session(sr'[d]), sr'[d].from # Nil PROVE Redeemed(sr[d].from)'
  <2>1. PICK q : q = sr'[d].from
    OBVIOUS
  <2>2. CASE d = c
    <3>1. Issued(q) /\ \A e \in S : e.psk # q
      BY ZenonT(60), <1>3, <1>8, <1>10, <2>1, <2>2
    <3> QED
      BY <1>7, <2>1, <3>1
  <2>3. CASE d # c
    <3>1. sr'[d] = sr[d]
      BY <2>3 DEF Sets
    <3>2. Issued(q) /\ \A e \in S : e.psk # q
      BY <1>9, <1>10, <2>1, <3>1
    <3> QED
      BY <1>7, <2>1, <3>2
  <2> QED
    BY <2>2, <2>3
<1>11. ASSUME NEW a \in Conns, NEW b \in Conns, Session(sr'[a]), Session(sr'[b]),
              sr'[a].from # Nil, a # b
       PROVE  sr'[a].from # sr'[b].from
  <2>0. ASSUME NEW d \in Conns, Session(sr[d]), s.from # Nil PROVE s.from # sr[d].from
    BY <1>9, <2>0
  <2>1. \A d \in Conns : d # c => sr'[d] = sr[d]
    BY DEF Sets
  <2>2. CASE a = c
    BY <1>3, <1>11, <2>0, <2>1, <2>2
  <2>3. CASE b = c
    <3>1. sr'[a] = sr[a] /\ Session(sr[a])
      BY <1>11, <2>1, <2>3
    <3> QED
      BY <1>3, <1>11, <2>0, <2>3, <3>1
  <2>4. CASE a # c /\ b # c
    <3>1. sr'[a] = sr[a] /\ sr'[b] = sr[b] /\ Session(sr[a]) /\ Session(sr[b])
      BY <1>11, <2>1, <2>4
    <3> QED
      BY <1>11, <3>1 DEF Inv, Stores
  <2> QED
    BY <2>2, <2>3, <2>4
<1> QED
  BY <1>6, <1>10, <1>11 DEF Stores, Session, Nil

LEMMA AcceptsStep == ASSUME Inv, [Next]_vars PROVE Accepts'
<1>0. Accepts /\ Domains
  BY DEF Inv, Accepts
<1>1. ASSUME NEW c \in Conns, NEW alert \in BOOLEAN, RespFails(c, alert),
             seen \subseteq seen', store' \subseteq store
      PROVE  Quiet
  <2>1. RspNow(c, "failed", rsp[c].hello, rsp[c].init, rsp[c].h2) /\ sr' = sr
    BY <1>0, <1>1, RspUpdates DEF RespFails
  <2> QED
    BY <1>1, <2>1 DEF Quiet, RspNow
<1>2. ASSUME NEW c \in Conns, RespHello(c) PROVE Accepts'
  <2>1. PICK f, k : /\ f = Head(toR[c]) /\ toR[c] # <<>> /\ f.type = "HELLO"
                    /\ k = [of |-> [id |-> f.v.id], rand |-> f.v.rand, dmg |-> f.dmg]
    BY <1>2 DEF RespHello
  <2>2. seen \subseteq seen' /\ store' = store
    BY <1>2, <2>1 DEF RespHello, SeenOrAdd, server
  <2>3. CASE \E alert \in BOOLEAN : RespFails(c, alert)
    BY ZenonT(60), <1>0, <1>1, <2>2, <2>3, QuietStays
  <2>4. CASE /\ k \notin seen /\ seen' = SeenOrAdd(k) /\ sr' = sr
             /\ rsp' = [rsp EXCEPT ![c].pc = "kem", ![c].hello = f]
    <3>1. RspNow(c, "kem", f, rsp[c].init, rsp[c].h2)
      BY <1>0, <2>4, RspUpdates
    <3>2. f # Nil /\ k = KeyOf(f)
      BY <2>1, FirstFrame DEF KeyOf
    <3>3. Reads(c, f, k)
      BY <2>4, <3>1, <3>2 DEF Reads, RspNow, SeenOrAdd
    <3>4. Remembered' /\ HelloAcceptedOnce'
      BY <1>0, <3>3, ReadOnce
    <3>5. Stores'
      BY <1>0, <2>2, <2>4 DEF Accepts, Stores, Redeemed, Issued, Session, ResumptionPSK, Earlier,
                              DeriveSession, Nil
    <3> QED
      BY <3>4, <3>5 DEF Accepts
  <2> QED
    BY <1>2, <2>1, <2>3, <2>4 DEF RespHello
<1>3. ASSUME NEW c \in Conns, RespKEM(c) \/ RespOther(c) PROVE Accepts'
  <2>1. seen \subseteq seen' /\ store' \subseteq store
    BY <1>3 DEF RespKEM, RespOther, server
  <2>2. CASE \E alert \in BOOLEAN : RespFails(c, alert)
    BY <1>0, <1>1, <2>1, <2>2, QuietStays
  <2>3. CASE \E i, t : rsp' = [rsp EXCEPT ![c].pc = "auth", ![c].init = i, ![c].h2 = t] /\ sr' = sr
    <3>1. PICK i, t : RspNow(c, "auth", rsp[c].hello, i, t)
      BY ZenonT(60), <1>0, <2>3, RspUpdates
    <3>2. Quiet
      BY ZenonT(60), <2>1, <2>3, <3>1 DEF Quiet, RspNow
    <3> QED
      BY <1>0, <3>2, QuietStays
  <2> QED
    BY <1>3, <2>2, <2>3 DEF RespKEM, RespOther
<1>4. ASSUME NEW c \in Conns, RespAuth(c) PROVE Accepts'
  <2>1. CASE \E alert \in BOOLEAN : RespFails(c, alert) /\ UNCHANGED server
    <3>1. seen \subseteq seen' /\ store' \subseteq store
      BY <2>1 DEF server
    <3> QED
      BY ZenonT(60), <1>0, <1>1, <2>1, <3>1, QuietStays
  <2>2. CASE AuthDone(c)
    <3>1. PICK h, prk : h = rsp[c].hello /\ prk = RespFullSecret(c)
      OBVIOUS
    <3>2. /\ RspNow(c, "done", h, rsp[c].init, rsp[c].h2)
          /\ Sets(sr, sr', c, newSession("R", h.v.id, h.v.suite, prk, Nil))
          /\ rsp[c].pc = "auth" /\ seen' = seen /\ store' = Issue(store, prk, h.v.id)
      BY ZenonT(60), <1>0, <2>2, <3>1, RspUpdates, Setting DEF Domains, AuthDone
    <3>3. Signed(c) /\ ~Session(sr[c])
      BY <3>2 DEF Inv, Local, Server
    <3>4. SecretAt(c, prk)
      BY <3>1, <3>3 DEF SecretAt, FullAt, Signed, RespFullSecret
    <3>5. PICK s : Sets(sr, sr', c, s) /\ Session(s) /\ s.send[1] = prk /\ s.from = Nil
      <4>0. PICK role \in {"I", "R"} : role = "R"
        OBVIOUS
      <4>1. PICK s : s = newSession(role, h.v.id, h.v.suite, prk, Nil)
        OBVIOUS
      <4>2. Sets(sr, sr', c, s)
        BY ZenonT(60), <3>2, <4>0, <4>1
      <4>3. Session(s) /\ s.send = <<prk, role>> /\ s.from = Nil
        BY SMTT(30), <4>1, SessionOf DEF Keyed
      <4>4. s.send[1] = prk
        BY SMT, <4>3
      <4> QED
        BY <4>2, <4>3, <4>4
    <3>6. Stores'
      BY ZenonT(60), <3>2, <3>3, <3>4, <3>5, Issues
    <3>7. Remembered'
      <4>1. ASSUME NEW d \in Conns PROVE rsp'[d].hello = rsp[d].hello
        BY <3>1, <3>2 DEF RspNow
      <4>2. ASSUME NEW d \in Conns PROVE KeyOf(rsp[d].hello)' = KeyOf(rsp[d].hello)
        BY <4>1 DEF KeyOf
      <4> QED
        BY <1>0, <3>2, <4>1, <4>2 DEF Accepts, Remembered, Nil
    <3>8. HelloAcceptedOnce'
      <4>1. ASSUME NEW d \in Conns PROVE rsp'[d].hello = rsp[d].hello
        BY <3>1, <3>2 DEF RspNow
      <4> QED
        BY <1>0, <4>1 DEF Accepts, HelloAcceptedOnce, Nil
    <3> QED
      BY <3>6, <3>7, <3>8 DEF Accepts
  <2> QED
    BY <1>4, <2>1, <2>2, RespAuthCases
<1>5. ASSUME NEW c \in Conns, RespResume(c) PROVE Accepts'
  <2>1. CASE \E alert \in BOOLEAN :
               RespFails(c, alert) /\ seen \subseteq seen' /\ store' \subseteq store
    BY ZenonT(60), <1>0, <1>1, <2>1, QuietStays
  <2>2. ASSUME NEW f, NEW client, ResumeDone(c, f, client) PROVE Accepts'
    <3>1. PICK prk, p, k : /\ prk = ResumeSecret(c, f) /\ p = f.v.psk
                           /\ k = [of |-> f.v.psk, rand |-> f.v.rand, dmg |-> f.dmg]
      OBVIOUS
    <3>2. /\ RspNow(c, "done", f, rsp[c].init, rsp[c].h2)
          /\ Sets(sr, sr', c, newSession("R", client, f.v.suite, prk, p))
          /\ store' = Issue(Redeem(p), prk, client) /\ Redeemable(p) # {}
      BY <1>0, <2>2, <3>1, RspUpdates, Setting DEF Domains, ResumeDone
    <3>3. /\ rsp[c].pc = "hello" /\ f = Head(toR[c]) /\ toR[c] # <<>> /\ f.type = "HELLO_PSK"
          /\ k \notin seen /\ seen' = seen \cup {k}
      BY <2>2, <3>1 DEF ResumeDone, SeenOrAdd
    <3>4. f # Nil /\ k = KeyOf(f)
      BY <3>1, <3>3, FirstFrame DEF KeyOf
    <3>5. Reads(c, f, k)
      BY ZenonT(60), <3>2, <3>3, <3>4 DEF Reads, RspNow
    <3>6. Remembered' /\ HelloAcceptedOnce'
      BY <1>0, <3>5, ReadOnce
    <3>7. SecretAt(c, prk)
      BY <3>1 DEF SecretAt, ResumedAt, ResumeSecret
    <3>8. ~Session(sr[c])
      BY <3>3 DEF Inv, Local, Server
    <3>9. PICK s : Sets(sr, sr', c, s) /\ Session(s) /\ s.send[1] = prk /\ s.from = p
      <4>0. PICK role \in {"I", "R"} : role = "R"
        OBVIOUS
      <4>1. PICK s : s = newSession(role, client, f.v.suite, prk, p)
        OBVIOUS
      <4>2. Sets(sr, sr', c, s)
        BY <3>2, <4>0, <4>1
      <4>3. Session(s) /\ s.send = <<prk, role>> /\ s.from = p
        BY SMTT(30), <4>1, SessionOf DEF Keyed
      <4>4. s.send[1] = prk
        BY SMT, <4>3
      <4> QED
        BY <4>2, <4>3, <4>4
    <3>10. PICK S : S = Redeem(p)
      OBVIOUS
    <3>11. S \subseteq store /\ (\E e \in store : e.psk = p) /\ \A e \in S : e.psk # p
      BY <3>2, <3>10 DEF Redeem, Redeemable
    <3>12. Stores'
      BY ZenonT(60), <3>2, <3>7, <3>8, <3>9, <3>10, <3>11, Issues
    <3> QED
      BY <3>6, <3>12 DEF Accepts
  <2> QED
    BY <1>5, <2>1, <2>2, RespResumeCases
<1>6. ASSUME rsp' = rsp, sr' = sr, seen' = seen, store' \subseteq store PROVE Accepts'
  BY <1>0, <1>6, QuietStays DEF Quiet
<1>7. ASSUME NEW c \in Conns, Initiator(c) PROVE rsp' = rsp /\ sr' = sr /\ UNCHANGED server
  BY <1>7 DEF Initiator, InitRun, InitReply, InitAuth, InitResume, InitFails
<1>8. ASSUME NEW c \in Conns, ReadFails(c) PROVE Accepts'
  <2>1. sr' = sr /\ seen' = seen /\ store' = store
    BY <1>8 DEF ReadFails, server
  <2>2. CASE rsp' = rsp
    BY ZenonT(60), <1>6, <2>1, <2>2
  <2>3. CASE rsp' = [rsp EXCEPT ![c].pc = "failed"]
    <3>1. RspNow(c, "failed", rsp[c].hello, rsp[c].init, rsp[c].h2)
      BY <1>0, <2>3, RspUpdates
    <3>2. Quiet
      BY <2>1, <3>1 DEF Quiet, RspNow
    <3> QED
      BY <1>0, <3>2, QuietStays
  <2> QED
    BY <1>8, <2>2, <2>3 DEF ReadFails
<1>9. ASSUME NEW c \in Conns, Damage(c) \/ KeepTicket(c) \/ \E d \in Conns : Redeliver(c, d)
      PROVE  rsp' = rsp /\ sr' = sr /\ UNCHANGED server
  BY <1>9 DEF Damage, KeepTicket, Redeliver
<1>10. ASSUME DropTicket \/ Tick \/ UNCHANGED vars
       PROVE  rsp' = rsp /\ sr' = sr /\ UNCHANGED server
  BY <1>10 DEF DropTicket, Tick, vars, server
<1>11. ASSUME Sweep PROVE Accepts'
  <2>1. rsp' = rsp /\ sr' = sr /\ seen' = seen /\ store' \subseteq store
    BY <1>11 DEF Sweep
  <2> QED
    BY <1>6, <2>1
<1>12. ASSUME rsp' = rsp, sr' = sr, UNCHANGED server PROVE Accepts'
  BY <1>6, <1>12 DEF server
<1> QED
  BY ZenonT(60), <1>2, <1>3, <1>4, <1>5, <1>7, <1>8, <1>9, <1>10, <1>11, <1>12 DEF Next, Responder

LEMMA TicketStep == ASSUME Inv, [Next]_vars PROVE Ticket'
<1>1. CASE ticket' = ticket \/ ticket' = Nil
  BY <1>1 DEF Inv, Ticket, Nil
<1>2. ASSUME NEW c \in Conns, KeepTicket(c) PROVE Ticket'
  <2>1. si[c].psk.psk # Nil /\ ticket' = si[c].psk
    BY <1>2 DEF KeepTicket, Inv, Local, Client
  <2> QED
    BY <2>1 DEF Ticket, Nil
<1>3. ASSUME NEW c \in Conns, Initiator(c) PROVE ticket' = ticket
  BY <1>3 DEF Initiator, InitRun, InitReply, InitAuth, InitResume, InitFails
<1>4. ASSUME NEW c \in Conns, Responder(c) PROVE ticket' = ticket
  BY <1>4 DEF Responder, RespHello, RespKEM, RespAuth, RespResume, RespOther, RespFails
<1>5. ASSUME NEW c \in Conns, ReadFails(c) \/ Damage(c) \/ \E d \in Conns : Redeliver(c, d)
      PROVE  ticket' = ticket
  BY <1>5 DEF ReadFails, Damage, Redeliver
<1>6. ASSUME DropTicket \/ Sweep \/ Tick \/ UNCHANGED vars PROVE ticket' = ticket \/ ticket' = Nil
  BY <1>6 DEF DropTicket, Sweep, Tick, vars
<1> QED
  BY ZenonT(60), <1>1, <1>2, <1>3, <1>4, <1>5, <1>6 DEF Next

LEMMA TimesStep == ASSUME Inv, [Next]_vars PROVE Times'
<1>0. now \in 0 .. MaxTime /\ faults \in 0 .. MaxFaults /\ MaxTime \in Nat /\ MaxFaults \in Nat
  BY HandshakeConstants DEF Inv, Times
<1>1. CASE now' = now /\ faults' = faults
  BY <1>0, <1>1 DEF Times
<1>2. CASE now < MaxTime /\ now' = now + 1 /\ faults' = faults
  BY SMTT(30), <1>0, <1>2 DEF Times
<1>3. CASE now' = now /\ faults < MaxFaults /\ faults' = faults + 1
  BY SMTT(30), <1>0, <1>3 DEF Times
<1>4. ASSUME NEW c \in Conns, Initiator(c) PROVE now' = now /\ faults' = faults
  BY <1>4 DEF Initiator, InitRun, InitReply, InitAuth, InitResume, InitFails, env
<1>5. ASSUME NEW c \in Conns, Responder(c) PROVE now' = now /\ faults' = faults
  BY <1>5 DEF Responder, RespHello, RespKEM, RespAuth, RespResume, RespOther, RespFails, env
<1>6. ASSUME NEW c \in Conns, ReadFails(c) \/ KeepTicket(c) PROVE now' = now /\ faults' = faults
  BY <1>6 DEF ReadFails, KeepTicket, env
<1>7. ASSUME NEW c \in Conns, Damage(c) \/ \E d \in Conns : Redeliver(c, d)
      PROVE  now' = now /\ faults < MaxFaults /\ faults' = faults + 1
  BY <1>7 DEF Damage, Redeliver
<1>8. ASSUME DropTicket \/ Sweep \/ UNCHANGED vars PROVE now' = now /\ faults' = faults
  BY <1>8 DEF DropTicket, Sweep, vars, env
<1>9. ASSUME Tick PROVE now < MaxTime /\ now' = now + 1 /\ faults' = faults
  BY <1>9 DEF Tick
<1> QED
  BY ZenonT(60), <1>1, <1>2, <1>3, <1>4, <1>5, <1>6, <1>7, <1>8, <1>9 DEF Next

LEMMA NextInv == Inv /\ [Next]_vars => Inv'
<1> SUFFICES ASSUME Inv, [Next]_vars PROVE Inv'
  OBVIOUS
<1>1. Domains' /\ \A c \in Conns : Local(c)'
  BY LocalStep
<1>2. Remembered' /\ HelloAcceptedOnce' /\ Stores'
  BY AcceptsStep DEF Accepts
<1>3. Ticket' /\ Times'
  BY TicketStep, TimesStep
<1> QED
  BY <1>1, <1>2, <1>3 DEF Inv

LEMMA InitInv == Init => Inv
<1> SUFFICES ASSUME Init PROVE Inv
  OBVIOUS
<1>1. Domains
  BY SMT DEF Init, Domains
<1>2. \A c \in Conns : /\ ini[c].pc = "idle" /\ ini[c].hello = Nil /\ ini[c].init = Nil
                       /\ rsp[c].pc = "hello" /\ rsp[c].hello = Nil
                       /\ toR[c] = <<>> /\ toI[c] = <<>> /\ si[c] = Nil /\ sr[c] = Nil
  BY DEF Init
<1>3. ASSUME NEW c \in Conns PROVE Local(c)
  <2>1. Bounded(c) /\ Flights(c)
    <3>1. IsSeq(toR[c]) /\ IsSeq(toI[c]) /\ In(toR[c]) = {} /\ In(toI[c]) = {}
      BY SMTT(30), <1>2, SeqShort
    <3>2. Len(toR[c]) <= 2 /\ Len(toR[c]) <= 3 /\ Len(toI[c]) <= 2 /\ Len(toI[c]) <= 3
      BY SMTT(30), <1>2, SeqShort
    <3> QED
      BY <1>2, <3>1, <3>2 DEF Bounded, Flights
  <2>2. Client(c) /\ Server(c)
    BY <1>2 DEF Client, Server, Session
  <2> QED
    BY <2>1, <2>2 DEF Local
<1>4. Remembered /\ HelloAcceptedOnce
  BY <1>2 DEF Remembered, HelloAcceptedOnce
<1>5. Stores
  <2>1. \A e \in store : e.psk = ResumptionPSK(Earlier)
    BY SMT DEF Init, Issue
  <2> QED
    BY ZenonT(60), <1>2, <2>1 DEF Stores, Issued, Session
<1>6. Ticket
  BY ZenonT(60), NotNil DEF Init, Ticket
<1>7. Times
  BY SMT, HandshakeConstants DEF Init, Times
<1> QED
  BY ZenonT(60), <1>1, <1>3, <1>4, <1>5, <1>6, <1>7 DEF Inv

-------------------------------------------------------------------------------
(* The theorems.                                                               *)

\* The invariant the other theorems rest on: where the frames in flight come
\* from, what each side's Run knows, what the server's stores hold.
THEOREM HandshakeInvariant == Spec => []Inv
<1>1. Init => Inv
  BY InitInv
<1>2. Inv /\ [Next]_vars => Inv'
  BY NextInv
<1> QED
  BY <1>1, <1>2, PTL DEF Spec

LEMMA InvFullAgreement == Inv => FullAgreement
<1> SUFFICES ASSUME Inv, NEW c \in Conns, Session(sr[c]), sr[c].from = Nil
             PROVE  /\ Session(si[c]) /\ Mirrored(si[c], sr[c]) /\ si[c].suite = sr[c].suite
                    /\ si[c].peer = "S" /\ sr[c].peer = "A" /\ cfg[c].pin \in {Anyone, "S"}
                    /\ acceptsSuite(sr[c].suite) /\ (Strict => cfg[c].mode # Classical)
  BY DEF FullAgreement
<1>1. ServerFull(c) /\ ini[c].pc = "done" /\ ClientFull(c) /\ Session(si[c])
  BY DEF Inv, Local, Server, Client, ServerFull, ServerPSK, Resumed
<1>2. PICK h, i, r : h = rsp[c].hello /\ i = rsp[c].init /\ r = KEMReplyFrame(c)
  OBVIOUS
<1>3. ini[c].hello = h /\ ini[c].init = i /\ ini[c].reply = r
  <2>1. H2(h, i, r) = H2(ini[c].hello, ini[c].init, ini[c].reply)
    BY <1>1, <1>2 DEF ClientFull, Signed, InitH2
  <2> QED
    BY SMT, <2>1, H2Inj
<1>4. i = KEMInitFrame(c) /\ h.v.suite = cfg[c].suite /\ h.v.mode = cfg[c].mode
  <2>1. FullHello(c)
    BY <1>1 DEF ClientFull
  <2>2. PICK t : t = ini[c].hello.v.ts
    OBVIOUS
  <2>3. PICK v : v = [rand |-> c, ts |-> t, id |-> "A", mode |-> cfg[c].mode,
                      suite |-> cfg[c].suite, schemes |-> {cfg[c].suite}]
    OBVIOUS
  <2>4. v.suite = cfg[c].suite /\ v.mode = cfg[c].mode
    BY <2>3
  <2>5. h = Frame("HELLO", v) /\ i = KEMInitFrame(c)
    BY ZenonT(60), <1>3, <2>1, <2>2, <2>3 DEF FullHello
  <2>6. h.v = v
    BY <2>5, Fields
  <2> QED
    BY <2>4, <2>5, <2>6
<1>5. Eph(r) = <<"R", c>> /\ r.dmg = "no" /\ r.v.ct = c /\ r.v.pk = "S"
  BY <1>2 DEF Eph, KEMReplyFrame, Frame
<1>6. Eph(i) = <<"I", c>>
  BY <1>4 DEF Eph, KEMInitFrame, Frame
<1>7. FullSecret(c) = RespFullSecret(c)
  <2>1. Decapsulate(c, r) = <<<<"I", c>>, c>> /\ Encapsulate(i, c) = <<<<"I", c>>, c>>
    BY <1>5, <1>6 DEF Decapsulate, Encapsulate, KEMInitFrame, Frame
  <2>2. ECDH(<<"I", c>>, Eph(r)) = ECDH(<<"R", c>>, Eph(i))
    BY <1>5, <1>6 DEF ECDH
  <2>3. rsp[c].h2 = InitH2(c)
    BY <1>1 DEF ClientFull
  <2> QED
    BY ZenonT(60), <1>2, <1>3, <2>1, <2>2, <2>3 DEF FullSecret, RespFullSecret
<1>8. Mirrored(si[c], sr[c])
  BY <1>1, <1>7 DEF ServerFull, ClientFull, Keyed, Mirrored
<1>9. si[c].suite = sr[c].suite /\ si[c].peer = "S" /\ sr[c].peer = "A" /\ sr[c].suite = h.v.suite
      /\ cfg[c].pin \in {Anyone, "S"}
  BY ZenonT(60), <1>1, <1>2, <1>3, <1>4, <1>5 DEF ServerFull, ClientFull
<1>10. ~Refuses(h.v)
  BY <1>1, <1>2 DEF ClientFull, Signed, Passed
<1> QED
  BY ZenonT(60), <1>1, <1>4, <1>8, <1>9, <1>10 DEF Refuses

\* Full handshakes agree (runFull on both sides): whatever frames are damaged,
\* lost or delivered again, in any number of connections.
THEOREM Agreement == Spec => []FullAgreement
  BY HandshakeInvariant, InvFullAgreement, PTL

LEMMA InvResumedKeys == Inv => ResumedKeysTellDamage
<1> SUFFICES ASSUME Inv, NEW c \in Conns, Session(sr[c]), Session(si[c]), sr[c].from # Nil
             PROVE  Mirrored(si[c], sr[c]) <=>
                       rsp[c].hello = ini[c].hello /\ Eph(ini[c].reply) = <<"R", c>>
  BY DEF ResumedKeysTellDamage
<1>1. ServerPSK(c) /\ Resumed(c)
  BY DEF Inv, Local, Server, ServerFull, ServerPSK
<1>2. ClientPSK(c)
  <2>1. ClientFull(c) \/ ClientPSK(c)
    BY DEF Inv, Local, Client
  <2>2. ~ClientFull(c)
    BY <1>1 DEF ClientFull, Signed, Passed, Resumed
  <2> QED
    BY <2>1, <2>2
<1>3. PICK h, g, e, p, q : /\ h = ini[c].hello /\ g = rsp[c].hello /\ e = Eph(ini[c].reply)
                           /\ p = PSKSecret(c) /\ q = RespPSKSecret(c)
  OBVIOUS
<1>4. Mirrored(si[c], sr[c]) <=> p = q
  <2>1. /\ si[c].send = <<p, "I">> /\ si[c].recv = <<p, "R">>
        /\ sr[c].send = <<q, "R">> /\ sr[c].recv = <<q, "I">>
    BY <1>1, <1>2, <1>3 DEF ServerPSK, ClientPSK, Keyed
  <2> QED
    BY SMTT(30), <2>1 DEF Mirrored
<1>5. ASSUME p = q PROVE g = h /\ e = <<"R", c>>
  <2>1. FinishPSK(AbsorbHello(cfg[c].suite, h), e)
        = FinishPSK(AbsorbHello(g.v.suite, g), <<"R", c>>)
    BY <1>3, <1>5, DeriveInj DEF PSKSecret, RespPSKSecret
  <2> QED
    BY SMTT(30), <2>1 DEF FinishPSK, AbsorbHello
<1>6. ASSUME g = h, e = <<"R", c>> PROVE p = q
  <2>1. PSKHello(c)
    BY <1>2 DEF ClientPSK
  <2>2. PICK t, k : t = h.v.ts /\ k = h.v.psk
    OBVIOUS
  <2>3. PICK v : v = [rand |-> c, ts |-> t, mode |-> cfg[c].mode, suite |-> cfg[c].suite,
                      psk |-> k, eph |-> <<"I", c>>]
    OBVIOUS
  <2>4. h = Frame("HELLO_PSK", v)
    BY <1>3, <2>1, <2>2, <2>3 DEF PSKHello
  <2>5. h.v = v /\ h.dmg = "no"
    BY <2>4, Fields
  <2>6. h.v.suite = cfg[c].suite /\ h.v.eph = <<"I", c>>
    <3>1. v.suite = cfg[c].suite /\ v.eph = <<"I", c>>
      BY <2>3
    <3> QED
      BY <2>5, <3>1
  <2>7. Eph(g) = <<"I", c>> /\ g.v.suite = cfg[c].suite
    BY <1>6, <2>5, <2>6 DEF Eph
  <2>8. ECDH(<<"I", c>>, e) = ECDH(<<"R", c>>, Eph(g))
    BY ZenonT(60), <1>6, <2>7 DEF ECDH
  <2> QED
    BY ZenonT(60), <1>3, <1>6, <2>7, <2>8 DEF PSKSecret, RespPSKSecret
<1> QED
  BY ZenonT(60), <1>3, <1>4, <1>5, <1>6

\* A resumed handshake that returned on both sides has the same keys exactly when
\* neither its hello nor its reply was damaged (FinishPSK, DeriveResumed).
THEOREM ResumedKeys == Spec => []ResumedKeysTellDamage
  BY HandshakeInvariant, InvResumedKeys, PTL

\* A secret of the client contains its hello, and that names the connection.
ClientAt(h, prk) ==
    \/ \E i, r, x, m : prk = DeriveSession(H2(h, i, r), x, m)
    \/ \E s, e, x, k : prk = DeriveResumed(FinishPSK(AbsorbHello(s, h), e), x, k)

LEMMA ClientAtInj ==
    ASSUME NEW h, NEW g, NEW prk, ClientAt(h, prk), ClientAt(g, prk) PROVE h = g
<1>1. CASE \E i, r, x, m : prk = DeriveSession(H2(h, i, r), x, m)
  <2>1. PICK i, r, x, m : prk = DeriveSession(H2(h, i, r), x, m)
    BY <1>1
  <2>2. PICK j, q, y, n : prk = DeriveSession(H2(g, j, q), y, n)
    BY <2>1, DeriveInj DEF ClientAt
  <2>3. H2(h, i, r) = H2(g, j, q)
    BY <2>1, <2>2, DeriveInj
  <2> QED
    BY SMT, <2>3, H2Inj
<1>2. CASE \E s, e, x, k : prk = DeriveResumed(FinishPSK(AbsorbHello(s, h), e), x, k)
  <2>1. PICK s, e, x, k : prk = DeriveResumed(FinishPSK(AbsorbHello(s, h), e), x, k)
    BY <1>2
  <2>2. PICK t, f, y, l : prk = DeriveResumed(FinishPSK(AbsorbHello(t, g), f), y, l)
    BY <2>1, DeriveInj DEF ClientAt
  <2>3. FinishPSK(AbsorbHello(s, h), e) = FinishPSK(AbsorbHello(t, g), f)
    BY <2>1, <2>2, DeriveInj
  <2> QED
    BY SMT, <2>3 DEF FinishPSK, AbsorbHello
<1> QED
  BY <1>1, <1>2 DEF ClientAt

LEMMA ClientSecret ==
    ASSUME NEW c \in Conns, Client(c), Session(si[c])
    PROVE  /\ ini[c].hello.v.rand = c
           /\ \E prk : si[c].send = <<prk, "I">> /\ ClientAt(ini[c].hello, prk)
<1>1. ClientFull(c) \/ ClientPSK(c)
  BY DEF Client
<1>2. CASE ClientFull(c)
  <2>1. PICK t : t = ini[c].hello.v.ts
    OBVIOUS
  <2>2. PICK v : v = [rand |-> c, ts |-> t, id |-> "A", mode |-> cfg[c].mode,
                      suite |-> cfg[c].suite, schemes |-> {cfg[c].suite}]
    OBVIOUS
  <2>3. ini[c].hello = Frame("HELLO", v)
    BY ZenonT(60), <1>2, <2>1, <2>2 DEF ClientFull, FullHello
  <2>4. v.rand = c /\ ini[c].hello.v = v
    BY SMTT(30), <2>2, <2>3, Fields
  <2>5. si[c].send = <<FullSecret(c), "I">>
    BY <1>2 DEF ClientFull, Keyed
  <2>6. ClientAt(ini[c].hello, FullSecret(c))
    BY DEF ClientAt, FullSecret, InitH2
  <2> QED
    BY <2>4, <2>5, <2>6
<1>3. CASE ClientPSK(c)
  <2>1. PICK t, k : t = ini[c].hello.v.ts /\ k = ini[c].hello.v.psk
    OBVIOUS
  <2>2. PICK v : v = [rand |-> c, ts |-> t, mode |-> cfg[c].mode, suite |-> cfg[c].suite,
                      psk |-> k, eph |-> <<"I", c>>]
    OBVIOUS
  <2>3. ini[c].hello = Frame("HELLO_PSK", v)
    BY ZenonT(60), <1>3, <2>1, <2>2 DEF ClientPSK, PSKHello
  <2>4. v.rand = c /\ ini[c].hello.v = v
    BY SMTT(30), <2>2, <2>3, Fields
  <2>5. si[c].send = <<PSKSecret(c), "I">>
    BY <1>3 DEF ClientPSK, Keyed
  <2>6. ClientAt(ini[c].hello, PSKSecret(c))
    BY DEF ClientAt, PSKSecret
  <2> QED
    BY <2>4, <2>5, <2>6
<1> QED
  BY <1>1, <1>2, <1>3

LEMMA ClientKeysApart ==
    ASSUME Inv, NEW c \in Conns, NEW d \in Conns, c # d, Session(si[c]), Session(si[d])
    PROVE  si[c].send # si[d].send
<1>1. Client(c) /\ Client(d)
  BY DEF Inv, Local
<1>2. ini[c].hello.v.rand = c /\ ini[d].hello.v.rand = d
  BY <1>1, ClientSecret
<1>3. PICK p : si[c].send = <<p, "I">> /\ ClientAt(ini[c].hello, p)
  BY <1>1, ClientSecret
<1>4. PICK q : si[d].send = <<q, "I">> /\ ClientAt(ini[d].hello, q)
  BY <1>1, ClientSecret
<1>5. p # q
  BY <1>2, <1>3, <1>4, ClientAtInj
<1> QED
  BY SMTT(30), <1>3, <1>4, <1>5

LEMMA InvAcceptedOnce == Inv => AcceptedOnce
<1> SUFFICES ASSUME Inv PROVE AcceptedOnce
  OBVIOUS
<1>1. TypeOK
  <2>1. ASSUME NEW c \in Conns
        PROVE  /\ ini[c].pc \in {"idle", "reply", "auth", "resume", "done", "failed"}
               /\ rsp[c].pc \in {"hello", "kem", "auth", "done", "failed"}
               /\ Session(si[c]) <=> ini[c].pc = "done"
               /\ Session(sr[c]) <=> rsp[c].pc = "done"
    BY DEF Inv, Local, Client, Server
  <2>2. ASSUME NEW c \in Conns PROVE Len(toR[c]) <= 4 /\ Len(toI[c]) <= 3
    <3>1. IsSeq(toR[c]) /\ Len(toR[c]) <= 3 /\ Len(toI[c]) <= 3
      BY DEF Inv, Local, Bounded
    <3> QED
      BY SMT, <3>1 DEF IsSeq
  <2> QED
    BY <2>1, <2>2 DEF TypeOK, Inv, Times
<1>2. PSKSingleUse
  <2> SUFFICES ASSUME NEW c \in Conns, NEW d \in Conns, c # d
               PROVE  /\ Session(sr[c]) /\ Session(sr[d]) =>
                            /\ sr[c].send # sr[d].send
                            /\ sr[c].from # Nil => sr[c].from # sr[d].from
                      /\ Session(si[c]) /\ Session(si[d]) =>
                            /\ si[c].send # si[d].send
                            /\ si[c].from # Nil => si[c].from # si[d].from
    BY DEF PSKSingleUse
  <2>1. ASSUME Session(sr[c]), Session(sr[d]) PROVE sr[c].send # sr[d].send
    <3>1. SecretAt(c, sr[c].send[1]) /\ SecretAt(d, sr[d].send[1])
      BY <2>1, ServerSecret DEF Inv, Local
    <3> QED
      BY <3>1, SecretsApart
  <2>2. ASSUME Session(sr[c]), Session(sr[d]), sr[c].from # Nil PROVE sr[c].from # sr[d].from
    BY <2>2 DEF Inv, Stores
  <2>3. ASSUME NEW b \in Conns, Session(si[b]), si[b].from # Nil
        PROVE  Session(sr[b]) /\ sr[b].from = si[b].from
    <3>1. ClientPSK(b) /\ ini[b].pc = "done"
      BY <2>3 DEF Inv, Local, Client, ClientFull
    <3> QED
      BY <3>1 DEF ClientPSK, Resumed, Offered
  <2>4. ASSUME Session(si[c]), Session(si[d]), si[c].from # Nil PROVE si[c].from # si[d].from
    <3>1. CASE si[d].from = Nil
      BY <2>4, <3>1
    <3>2. CASE si[d].from # Nil
      BY ZenonT(60), <2>2, <2>3, <2>4, <3>2
    <3> QED
      BY <3>1, <3>2
  <2> QED
    BY ZenonT(60), <2>1, <2>2, <2>4, ClientKeysApart
<1> QED
  BY <1>1, <1>2 DEF Inv, AcceptedOnce

\* Every variable keeps its type, a psk opens one session at most and no two
\* sessions share a key, and a hello opens one handshake (Redeem, the replay cache).
THEOREM Once == Spec => []AcceptedOnce
  BY HandshakeInvariant, InvAcceptedOnce, PTL
================================================================================
