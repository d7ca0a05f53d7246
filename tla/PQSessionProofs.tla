--------------------------- MODULE PQSessionProofs ----------------------------
(***************************************************************************)
(* Proofs about the record layer of module PQSession, for any number of    *)
(* sending goroutines, any caps and any number of damaged frames.  First   *)
(* what the mutexes and the closed flag protect (Mutexes, Room, Closing);  *)
(* then what is sealed and what is on the wire (Ordered and Authentic),    *)
(* and Accepted, which is kept because a frame that Recv takes was sealed  *)
(* after the last one it returned.  A second invariant, Undisturbed, is    *)
(* about frames that are neither damaged nor torn: those in flight lead    *)
(* from the receiver to the sender.                                        *)
(*                                                                         *)
(* The inductive invariant has one part per mechanism of the code:         *)
(*   Mutexes   a goroutine inside Send, Rekey or Recv holds its mutex;     *)
(*   Closing   keys are wiped only after the closed flag is up, and a key  *)
(*             that is not wiped is the one of the current epoch;          *)
(*   Room      a Send that is about to seal has a counter below the cap;   *)
(*   Ordered   (key, counter) grows with every frame written whole, and    *)
(*             with it the payload's position;                             *)
(*   Authentic a frame on the wire that is intact is one that was sealed;  *)
(*   Accepted  the last payload Recv returned was sealed no later than     *)
(*             where the receiver's epoch and counter stand.               *)
(***************************************************************************)
EXTENDS PQSession, SequenceTheorems, TLAPS

\* Leaves go to Zenon; the ones that need arithmetic or sequences name SMT.
USE Zenon

Mutexes ==
    /\ \A t \in Sender : spc[t] # "idle" => sendMu[EndOf(t)] = t
    /\ \A e \in End : rpc[e] # "idle" => recvMu[e] = "receiver"

\* Nobody inside Send, Rekey or Recv is at an end whose keys have been wiped.
LiveKeys ==
    /\ \A t \in Sender : spc[t] # "idle" => sendKey[EndOf(t)] # Zero
    /\ \A e \in End : rpc[e] # "idle" => recvKey[e] # Zero

Closing ==
    /\ \A e \in End :
          /\ closed[e] <=> cpc[e] # 0
          /\ sendKey[e] = Zero => closed[e]
          /\ recvKey[e] = Zero => closed[e]
          /\ sendKey[e] # Zero => sendKey[e] = sendEpoch[e]
          /\ recvKey[e] # Zero => recvKey[e] = recvEpoch[e]
    /\ LiveKeys

Room ==
    \A t \in Sender :
        /\ spc[t] = "sealing" => sendCounter[EndOf(t)] + 1 < FrameCap
        /\ spc[t] # "idle" /\ scall[t] = "Send" => sent[EndOf(t)] < MaxSend
        /\ spc[t] = "sealing" => scall[t] = "Send"

\* a was sealed before b, by key and counter.
Before(a, b) == a.key < b.key \/ (a.key = b.key /\ a.ctr < b.ctr)

\* What was sealed and written whole.
Whole(e) == {a \in sealed[e] : a.payload # 0}

Ordered ==
    \A e \in End :
        /\ \A a \in Whole(e) :
              /\ a.payload <= sent[e]
              /\ a.key <= sendEpoch[e]
              /\ a.key = sendEpoch[e] => a.ctr < sendCounter[e]
        /\ \A a, b \in Whole(e) : a = b \/ Before(a, b) \/ Before(b, a)
        /\ \A a, b \in Whole(e) : Before(a, b) => a.payload < b.payload

\* A frame that the end e may have put on the wire, or that the network made
\* of one.
GoodFrame(e) ==
    {f \in Frame : f.type = "data" /\ f.intact =>
        /\ f.epoch = f.key
        /\ [key |-> f.key, ctr |-> f.ctr, payload |-> f.payload] \in sealed[e]}

Authentic == \A e \in End : wire[e] \in Seq(GoodFrame(e))

LastGot(e) == got[e][Len(got[e])]

Accepted ==
    \A e \in End : got[e] # <<>> =>
        \E a \in Whole(Peer(e)) :
            /\ a.payload = LastGot(e)
            /\ \/ a.key < recvEpoch[e]
               \/ /\ a.key = recvEpoch[e]
                  /\ recvHave[e]
                  /\ a.ctr <= recvCounter[e]

Inv == TypeOK /\ Mutexes /\ Closing /\ Room /\ Ordered /\ Authentic /\ Accepted

-------------------------------------------------------------------------------
\* The sequences the network and the sockets make of a sequence over S are
\* sequences over S.
LEMMA SeqClosed ==
    ASSUME NEW S, NEW s \in Seq(S)
    PROVE  /\ \A x \in S : Append(s, x) \in Seq(S)
           /\ s # <<>> => Head(s) \in S /\ Tail(s) \in Seq(S)
           /\ \A k \in 0 .. Len(s) : SubSeq(s, 1, k) \in Seq(S)
           /\ \A i \in 1 .. Len(s) :
                 /\ s[i] \in S
                 /\ SubSeq(s, 1, i - 1) \o SubSeq(s, i + 1, Len(s)) \in Seq(S)
                 /\ SubSeq(s, 1, i) \o SubSeq(s, i, Len(s)) \in Seq(S)
           /\ \A i \in 1 .. Len(s) : \A x \in S : [s EXCEPT ![i] = x] \in Seq(S)
           /\ \A i \in 1 .. Len(s) - 1 :
                 [s EXCEPT ![i] = s[i + 1], ![i + 1] = s[i]] \in Seq(S)
<1>1. /\ \A x \in S : Append(s, x) \in Seq(S)
      /\ s # <<>> => Head(s) \in S /\ Tail(s) \in Seq(S)
  BY AppendProperties, HeadTailProperties
<1>2. \A i \in 1 .. Len(s) : s[i] \in S
  BY ElementOfSeq
<1>3. \A m, n \in Int : m >= 1 /\ n <= Len(s) => SubSeq(s, m, n) \in Seq(S)
  BY SMT, <1>2, LenProperties
<1>4. \A k \in 0 .. Len(s) : SubSeq(s, 1, k) \in Seq(S)
  BY SMT, <1>3, LenProperties
<1>5. \A i \in 1 .. Len(s) :
         /\ SubSeq(s, 1, i - 1) \o SubSeq(s, i + 1, Len(s)) \in Seq(S)
         /\ SubSeq(s, 1, i) \o SubSeq(s, i, Len(s)) \in Seq(S)
  BY SMT, <1>3, LenProperties, ConcatProperties
<1>6. \A i \in 1 .. Len(s) : \A x \in S : [s EXCEPT ![i] = x] \in Seq(S)
  BY ExceptSeq
<1>7. \A i \in 1 .. Len(s) - 1 :
         [s EXCEPT ![i] = s[i + 1], ![i + 1] = s[i]] \in Seq(S)
  <2> SUFFICES ASSUME NEW i \in 1 .. Len(s) - 1
               PROVE  [s EXCEPT ![i] = s[i + 1], ![i + 1] = s[i]] \in Seq(S)
    OBVIOUS
  <2>1. i \in 1 .. Len(s) /\ i + 1 \in 1 .. Len(s)
    BY SMT, LenProperties
  <2>2. s[i] \in S /\ s[i + 1] \in S
    BY <1>2, <2>1
  <2>3. [s EXCEPT ![i] = s[i + 1]] \in Seq(S) /\ Len([s EXCEPT ![i] = s[i + 1]]) = Len(s)
    BY SMT, <2>1, <2>2, ExceptSeq
  <2> QED
    BY <2>1, <2>2, <2>3, ExceptSeq
<1> QED
  BY <1>1, <1>2, <1>4, <1>5, <1>6, <1>7

\* A sequence of one element, and the rest of a sequence.
LEMMA OneFrame ==
    ASSUME NEW S, NEW x \in S
    PROVE  <<x>> \in Seq(S)
BY SMT

LEMMA SeqRest ==
    ASSUME NEW S, NEW s \in Seq(S), NEW n \in 2 .. Len(s)
    PROVE  SubSeq(s, n + 1, Len(s)) \in Seq(S)
<1>1. \A i \in 1 .. Len(s) : s[i] \in S
  BY ElementOfSeq
<1> QED
  BY SMT, <1>1, LenProperties

\* The two ends.
LEMMA Ends ==
    /\ \A t : EndOf(t) \in End
    /\ \A e \in End : Peer(e) \in End /\ Peer(e) # e /\ Peer(Peer(e)) = e
BY DEF End, EndOf, Peer

\* The frames a session writes.
LEMMA FrameTypes ==
    /\ Rekey \in Frame /\ Rekey.type = "rekey"
    /\ Alert \in Frame /\ Alert.type = "alert"
    /\ Torn \in Frame /\ Torn.type = "torn"
    /\ \A c \in 0 .. FrameCap :
          Garbled(c) \in Frame /\ Garbled(c).type = "data" /\ ~Garbled(c).intact
    /\ \A f \in Frame : f.type = "data" => f \in DataFrame
<1>1. \A c \in 0 .. FrameCap : Garbled(c) \in DataFrame
  BY SMT, SessionAssumption DEF Garbled, DataFrame
<1>2. \A f \in Frame : f.type = "data" => f \in DataFrame
  BY SMT DEF Frame, Rekey, Alert, Torn
<1> QED
  BY <1>1, <1>2 DEF Frame, Rekey, Alert, Torn, Garbled

\* The DATA frame a sealing goroutine is about to write is well formed.
LEMMA DataTyped ==
    ASSUME TypeOK, Closing, Room, NEW t \in Sender, spc[t] = "sealing"
    PROVE  LET e == EndOf(t) IN
           /\ Data(e) \in DataFrame
           /\ sendKey[e] = sendEpoch[e]
           /\ sendEpoch[e] \in 0 .. EpochMax
           /\ sendCounter[e] \in 0 .. FrameCap - 2
           /\ sent[e] + 1 \in 1 .. MaxSend
           /\ \A p \in 0 .. MaxSend :
                 [key |-> sendKey[e], ctr |-> sendCounter[e], payload |-> p] \in Sealing
<1> DEFINE e == EndOf(t)
<1>1. e \in End
  BY Ends
<1>2. sendKey[e] = sendEpoch[e] /\ sendEpoch[e] \in 0 .. EpochMax
  BY <1>1 DEF TypeOK, Closing, LiveKeys
<1>3. sendCounter[e] \in 0 .. FrameCap - 2 /\ sent[e] + 1 \in 1 .. MaxSend
  <2>1. sendCounter[e] \in 0 .. FrameCap - 1 /\ sent[e] \in 0 .. MaxSend
    BY <1>1 DEF TypeOK
  <2>2. sendCounter[e] + 1 < FrameCap /\ sent[e] < MaxSend
    BY DEF Room
  <2> QED
    BY SMT, <2>1, <2>2, SessionAssumption
<1>4. Data(e) \in DataFrame
  BY SMT, <1>2, <1>3, SessionAssumption DEF Data, DataFrame
<1>5. ASSUME NEW p \in 0 .. MaxSend
      PROVE  [key |-> sendKey[e], ctr |-> sendCounter[e], payload |-> p] \in Sealing
  BY SMT, <1>2, <1>3, SessionAssumption DEF Sealing
<1> QED
  BY <1>2, <1>3, <1>4, <1>5

\* A session fresh from the handshake satisfies the invariant.
LEMMA InitInv == Init => Inv
<1> SUFFICES ASSUME Init PROVE Inv
  OBVIOUS
<1> USE SessionAssumption, Ends
<1>1. TypeOK
  BY SMT DEF Init, TypeOK, Zero, NoOne
<1>2. Mutexes /\ Closing /\ Room
  BY SMT DEF Init, Mutexes, Closing, Room, LiveKeys, Zero
<1>3. Ordered /\ Accepted
  BY DEF Init, Ordered, Accepted, Whole
<1>4. Authentic
  BY EmptySeq DEF Init, Authentic
<1> QED
  BY <1>1, <1>2, <1>3, <1>4 DEF Inv


\* G[e] holds the frames in flight from each end e, all that a session may
\* write in this step and all that the network may make of a member.
Carries(G) ==
    /\ \A e \in End : /\ G[e] \subseteq Frame
                      /\ Rekey \in G[e] /\ Alert \in G[e] /\ Torn \in G[e]
                      /\ \A c \in 0 .. FrameCap : Garbled(c) \in G[e]
                      /\ wire[e] \in Seq(G[e])
    /\ \A t \in Sender : SealWrite(t) => Data(EndOf(t)) \in G[EndOf(t)]

Alterable(G) ==
    \A e \in End : \A f \in G[e] : \A c \in 0 .. FrameCap :
        f.type = "data" => [f EXCEPT !.ctr = c, !.intact = FALSE] \in G[e]

\* What every step does to the frames in flight: they stay in such sets.
LEMMA WireStep ==
    ASSUME Inv, [Next]_vars, NEW G, Carries(G), Alterable(G)
    PROVE  /\ wire' = [e \in End |-> wire'[e]]
           /\ \A e \in End : wire'[e] \in Seq(G[e])
<1> DEFINE Good == /\ wire' = [e \in End |-> wire'[e]]
                   /\ \A e \in End : wire'[e] \in Seq(G[e])
<1> SUFFICES Good
  OBVIOUS
<1> USE Ends
<1>1. DOMAIN wire = End /\ wire = [e \in End |-> wire[e]]
  BY DEF Inv, TypeOK
<1>2. ASSUME NEW e \in End, NEW s \in Seq(G[e]), wire' = [wire EXCEPT ![e] = s]
      PROVE  Good
  BY <1>1, <1>2 DEF Carries
<1> HIDE DEF Good
<1>3. ASSUME NEW e \in End, NEW f \in G[e], Written(e, f)
      PROVE  Good
  <2>1. Append(wire[e], f) \in Seq(G[e])
    BY AppendProperties DEF Carries
  <2> QED
    BY <1>2, <1>3, <2>1 DEF Written
<1>4. ASSUME NEW e \in End, FrameReady(e), Consume(e)
      PROVE  Good
  <2>1. Tail(wire[Peer(e)]) \in Seq(G[Peer(e)])
    BY <1>4, HeadTailProperties DEF FrameReady, Carries
  <2> QED
    BY <1>2, <1>4, <2>1 DEF Consume
<1>5. ASSUME NEW t \in Sender, SealWrite(t)
      PROVE  Good
  BY <1>3, <1>5 DEF SealWrite, Carries
<1>6. ASSUME NEW t \in Sender, RekeyWrite(t)
      PROVE  Good
  BY <1>3, <1>6 DEF RekeyWrite, Carries
<1>7. CASE UNCHANGED wire
  BY <1>1, <1>7 DEF Good, Carries
<1>8. ASSUME NEW e \in End, AlertWrite(e)
      PROVE  Good
  BY <1>3, <1>7, <1>8 DEF AlertWrite, Carries
<1>9. ASSUME NEW e \in End, CloseConn(e)
      PROVE  Good
  <2>1. PICK k \in 0 .. Len(wire[e]) :
           wire' = [wire EXCEPT ![e] = SubSeq(@, 1, k), ![Peer(e)] = <<>>]
    BY <1>9 DEF CloseConn
  <2>2. SubSeq(wire[e], 1, k) \in Seq(G[e]) /\ <<>> \in Seq(G[Peer(e)])
    BY SeqClosed, EmptySeq DEF Carries
  <2> QED
    BY <1>1, <2>1, <2>2 DEF Good, Carries
<1>10. ASSUME NEW e \in End, NEW s \in Seq(G[e]), Damage(e, s)
      PROVE  Good
  BY <1>2, <1>10 DEF Damage
<1>11. ASSUME NEW e \in End, Lose(e) \/ Repeat(e) \/ Exchange(e)
      PROVE  Good
  <2>1. wire[e] \in Seq(G[e])
    BY DEF Carries
  <2>2. PICK s : s \in Seq(G[e]) /\ Damage(e, s)
    <3>1. CASE Lose(e)
      BY <2>1, <3>1, SeqClosed DEF Lose
    <3>2. CASE Repeat(e)
      BY <2>1, <3>2, SeqClosed DEF Repeat
    <3>3. CASE Exchange(e)
      BY <2>1, <3>3, SeqClosed DEF Exchange
    <3> QED
      BY <1>11, <3>1, <3>2, <3>3
  <2> QED
    BY <1>10, <2>2
<1>12. ASSUME NEW e \in End, Alter(e)
       PROVE  Good
  <2>1. PICK i \in 1 .. Len(wire[e]), c \in 0 .. FrameCap :
           /\ wire[e][i].type = "data"
           /\ Damage(e, [wire[e] EXCEPT ![i] = [@ EXCEPT !.ctr = c, !.intact = FALSE]])
    BY <1>12 DEF Alter
  <2>2. wire[e][i] \in G[e]
    BY SeqClosed DEF Carries
  <2>3. [wire[e][i] EXCEPT !.ctr = c, !.intact = FALSE] \in G[e]
    BY <2>1, <2>2 DEF Alterable
  <2>4. [wire[e] EXCEPT ![i] = [wire[e][i] EXCEPT !.ctr = c, !.intact = FALSE]]
           \in Seq(G[e])
    BY SMTT(60), <2>3, ExceptSeq DEF Carries
  <2> QED
    BY <1>10, <2>1, <2>4
<1>13. ASSUME NEW t \in Sender, \/ SendBegin(t) \/ RekeyBegin(t) \/ SenderStep(t)
                               \/ SendDeadline(t)
       PROVE  Good
  <2>1. CASE SendDeadline(t)
    <3>1. Written(EndOf(t), Torn) \/ UNCHANGED wire
      BY <2>1 DEF SendDeadline, PartWritten
    <3> QED
      BY <1>3, <1>7, <3>1 DEF Carries
  <2> QED
    BY <1>5, <1>6, <1>7, <1>13, <2>1
       DEF SenderStep, SendBegin, RekeyBegin, RekeyFail, SealFail
<1>17. ASSUME NEW e \in End, AlertDeadline(e)
       PROVE  Good
  BY <1>3, <1>7, <1>17 DEF AlertDeadline, PartWritten, Carries
<1>18. ASSUME NEW e \in End, Misread(e)
       PROVE  Good
  <2> DEFINE w == wire[Peer(e)]
  <2>1. PICK n \in 2 .. Len(w), rest \in {<<>>, <<Torn>>},
             f \in {Garbled(c) : c \in 0 .. FrameCap} \cup {Rekey, Alert} :
           wire' = [wire EXCEPT ![Peer(e)] = <<f>> \o rest \o SubSeq(w, n + 1, Len(w))]
    BY <1>18 DEF Misread
  <2>2. w \in Seq(G[Peer(e)]) /\ f \in G[Peer(e)] /\ Torn \in G[Peer(e)]
    BY DEF Carries
  <2> HIDE DEF w
  <2>3. <<f>> \in Seq(G[Peer(e)]) /\ rest \in Seq(G[Peer(e)])
    BY <2>2, EmptySeq, OneFrame
  <2>4. SubSeq(w, n + 1, Len(w)) \in Seq(G[Peer(e)])
    BY <2>2, SeqRest
  <2>5. <<f>> \o rest \o SubSeq(w, n + 1, Len(w)) \in Seq(G[Peer(e)])
    BY <2>3, <2>4, ConcatProperties
  <2> QED
    BY <1>2, <2>1, <2>5
<1>14. ASSUME NEW e \in End, RecvBegin(e) \/ ReceiverStep(e)
       PROVE  Good
  <2>1. ASSUME RecvBegin(e) \/ RecvIOError(e) PROVE Good
    BY <1>7, <2>1 DEF RecvBegin, RecvIOError
  <2>2. ASSUME RecvData(e) \/ RecvRekey(e) \/ RecvAlert(e) PROVE Good
    BY <1>4, <2>2 DEF RecvData, RecvRekey, RecvAlert
  <2>3. ASSUME NEW r, RecvRejects(e, r) PROVE Good
    BY <1>4, <2>3 DEF RecvRejects
  <2>4. ASSUME \/ RecvNonceViolation(e) \/ RecvAuthFailed(e)
               \/ RecvEpochExhausted(e)
        PROVE  Good
    BY <2>3, <2>4
       DEF RecvNonceViolation, RecvAuthFailed, RecvEpochExhausted
  <2> QED
    BY <1>8, <1>14, <2>1, <2>2, <2>4 DEF ReceiverStep
<1>15. ASSUME NEW e \in End, CloseBegin(e) \/ CloserStep(e)
       PROVE  Good
  BY <1>7, <1>9, <1>15 DEF CloserStep, CloseBegin, CloseSend, CloseRecv
<1>16. CASE UNCHANGED vars
  BY <1>7, <1>16 DEF vars
<1> QED
  BY <1>11, <1>12, <1>13, <1>14, <1>15, <1>16, <1>17, <1>18 DEF Next

\* Every step keeps the types.
LEMMA TypeStep == Inv /\ [Next]_vars => TypeOK'
<1> SUFFICES ASSUME Inv, [Next]_vars PROVE TypeOK'
  OBVIOUS
<1> USE SessionAssumption, Ends DEF sendVars, recvVars, histVars, Zero, NoOne
<1>0. TypeOK /\ Mutexes /\ Closing /\ Room
  BY DEF Inv
<1>W. wire' \in [End -> Seq(Frame)]
  <2> DEFINE G == [e \in End |-> Frame]
  <2>1. \A t \in Sender : SealWrite(t) => Data(EndOf(t)) \in Frame
    BY <1>0, DataTyped DEF SealWrite, Frame
  <2>2. \A f \in Frame : \A c \in 0 .. FrameCap :
           f.type = "data" => [f EXCEPT !.ctr = c, !.intact = FALSE] \in Frame
    BY FrameTypes DEF DataFrame, Frame
  <2>3. \A e \in End : /\ G[e] = Frame
                       /\ wire[e] \in Seq(G[e])
                       /\ Rekey \in G[e] /\ Alert \in G[e] /\ Torn \in G[e]
                       /\ \A c \in 0 .. FrameCap : Garbled(c) \in G[e]
    BY ZenonT(60), <1>0, FrameTypes DEF TypeOK
  <2> HIDE DEF G
  <2>4. Carries(G)
    BY SMT, <2>1, <2>3 DEF Carries
  <2>5. Alterable(G)
    BY <2>2, <2>3 DEF Alterable
  <2> QED
    BY <2>3, <2>4, <2>5, WireStep
<1>S. ASSUME NEW t \in Sender, NEW p \in 0 .. MaxSend, spc[t] = "sealing",
             Sealed(EndOf(t), p)
      PROVE  sealed' \in [End -> SUBSET Sealing]
  <2> DEFINE new == [key |-> sendKey[EndOf(t)], ctr |-> sendCounter[EndOf(t)],
                     payload |-> p]
  <2>1. new \in Sealing
    BY <1>0, <1>S, DataTyped
  <2>2. sealed' = [sealed EXCEPT ![EndOf(t)] = sealed[EndOf(t)] \cup {new}]
    BY <1>S DEF Sealed
  <2> HIDE DEF new
  <2> QED
    BY ZenonT(60), <1>0, <2>1, <2>2 DEF TypeOK
<1>1. ASSUME NEW t \in Sender, SendBegin(t) PROVE TypeOK'
  BY ZenonT(60), <1>0, <1>W, <1>1 DEF SendBegin, LockSend, TypeOK
<1>2. ASSUME NEW t \in Sender, RekeyBegin(t) PROVE TypeOK'
  BY <1>0, <1>W, <1>2 DEF RekeyBegin, LockSend, TypeOK
<1>3. ASSUME NEW t \in Sender, RekeyFail(t) PROVE TypeOK'
  BY <1>0, <1>W, <1>3 DEF RekeyFail, Unlock, TypeOK
<1>4. ASSUME NEW t \in Sender, SealFail(t) PROVE TypeOK'
  <2>1. sealed' \in [End -> SUBSET Sealing]
    <3>1. 0 \in 0 .. MaxSend
      BY SMT
    <3> QED
      BY <1>4, <1>S, <3>1 DEF SealFail
  <2> QED
    BY <1>0, <1>W, <1>4, <2>1 DEF SealFail, Unlock, TypeOK
<1>5. ASSUME NEW t \in Sender, RekeyWrite(t) PROVE TypeOK'
  <2> DEFINE e == EndOf(t)
  <2>1. /\ sendKey[e] + 1 \in 0 .. EpochMax
        /\ sendEpoch[e] + 1 \in 0 .. EpochMax
        /\ 0 \in 0 .. FrameCap - 1
    <3>1. e \in End /\ sendKey[e] # Zero /\ sendEpoch[e] < EpochMax
      BY <1>0, <1>5 DEF RekeyWrite, EpochLeft, Closing, LiveKeys
    <3>2. sendKey[e] = sendEpoch[e] /\ sendEpoch[e] \in 0 .. EpochMax
      BY <1>0, <3>1 DEF Closing, TypeOK
    <3> QED
      BY SMT, <3>1, <3>2
  <2>2. /\ sendKey' \in [End -> {Zero} \cup 0 .. EpochMax]
        /\ sendEpoch' \in [End -> 0 .. EpochMax]
        /\ sendCounter' \in [End -> 0 .. FrameCap - 1]
    BY <1>0, <1>5, <2>1 DEF RekeyWrite, Ratchet, TypeOK
  <2>3. /\ spc' \in [Sender -> {"idle", "rekeying", "sealing"}]
        /\ sendMu' \in [End -> Sender \cup {NoOne}]
    BY ZenonT(60), <1>0, <1>5 DEF RekeyWrite, Unlock, TypeOK
  <2> QED
    BY <1>0, <1>W, <1>5, <2>2, <2>3 DEF RekeyWrite, TypeOK
<1>6. ASSUME NEW t \in Sender, SealWrite(t) PROVE TypeOK'
  <2> DEFINE e == EndOf(t)
  <2>1. /\ sendKey[e] \in 0 .. EpochMax
        /\ sendCounter[e] \in 0 .. FrameCap - 2
        /\ sent[e] + 1 \in 1 .. MaxSend
    BY <1>0, <1>6, DataTyped DEF SealWrite
  <2>2. /\ sendCounter' \in [End -> 0 .. FrameCap - 1]
        /\ sent' \in [End -> 0 .. MaxSend]
    <3>1. /\ sendCounter' = [sendCounter EXCEPT ![e] = sendCounter[e] + 1]
          /\ sent' = [sent EXCEPT ![e] = sent[e] + 1]
      BY <1>6 DEF SealWrite
    <3>2. /\ sendCounter \in [End -> 0 .. FrameCap - 1]
          /\ sent \in [End -> 0 .. MaxSend]
      BY <1>0 DEF TypeOK
    <3>3. /\ sendCounter[e] + 1 \in 0 .. FrameCap - 1
          /\ sent[e] + 1 \in 0 .. MaxSend
      BY SMT, <2>1
    <3> QED
      BY <3>1, <3>2, <3>3
  <2>3. sealed' \in [End -> SUBSET Sealing]
    <3>1. sent[e] + 1 \in 0 .. MaxSend
      BY SMT, <2>1
    <3> QED
      BY <1>6, <1>S, <3>1 DEF SealWrite
  <2> QED
    BY <1>0, <1>W, <1>6, <2>2, <2>3 DEF SealWrite, Unlock, TypeOK
<1>7. ASSUME NEW e \in End, RecvData(e) PROVE TypeOK'
  <2> DEFINE f == NextFrame(e)
  <2>1. f \in DataFrame
    <3>1. wire[Peer(e)] \in Seq(Frame) /\ wire[Peer(e)] # <<>>
      BY ZenonT(60), <1>0, <1>7 DEF RecvData, FrameReady, TypeOK
    <3>2. Head(wire[Peer(e)]) \in Frame
      BY <3>1, HeadTailProperties
    <3> QED
      BY <1>7, <3>2, FrameTypes DEF RecvData, NextFrame
  <2>2. f.ctr \in 0 .. FrameCap - 1 /\ f.payload \in 1 .. MaxSend
    <3>1. f.ctr \in 0 .. FrameCap /\ f.payload \in 1 .. MaxSend
      BY <2>1 DEF DataFrame
    <3>2. ~(f.ctr >= FrameCap)
      BY <1>7 DEF RecvData, NonceViolation
    <3> QED
      BY SMT, <3>1, <3>2
  <2>3. recvCounter' \in [End -> 0 .. FrameCap - 1]
    BY <1>0, <1>7, <2>2 DEF RecvData, TypeOK
  <2>4. got' \in [End -> Seq(1 .. MaxSend)]
    <3>1. Append(got[e], f.payload) \in Seq(1 .. MaxSend)
      BY <1>0, <2>2, AppendProperties DEF TypeOK
    <3> QED
      BY <1>0, <1>7, <3>1 DEF RecvData, TypeOK
  <2> QED
    BY <1>0, <1>W, <1>7, <2>3, <2>4 DEF RecvData, RecvReturns, TypeOK
<1>8. ASSUME NEW e \in End, RecvBegin(e) PROVE TypeOK'
  BY <1>0, <1>W, <1>8 DEF RecvBegin, TypeOK
<1>9. ASSUME NEW e \in End, RecvNonceViolation(e) PROVE TypeOK'
  BY <1>0, <1>W, <1>9 DEF RecvNonceViolation, RecvRejects, TypeOK
<1>10. ASSUME NEW e \in End, RecvAuthFailed(e) PROVE TypeOK'
  BY <1>0, <1>W, <1>10 DEF RecvAuthFailed, RecvRejects, TypeOK
<1>11. ASSUME NEW e \in End, RecvEpochExhausted(e) PROVE TypeOK'
  BY <1>0, <1>W, <1>11 DEF RecvEpochExhausted, RecvRejects, TypeOK
<1>12. ASSUME NEW e \in End, RecvAlert(e) PROVE TypeOK'
  BY <1>0, <1>W, <1>12 DEF RecvAlert, RecvFails, RecvReturns, TypeOK
<1>13. ASSUME NEW e \in End, RecvIOError(e) PROVE TypeOK'
  BY <1>0, <1>W, <1>13 DEF RecvIOError, RecvFails, RecvReturns, TypeOK
<1>14. ASSUME NEW e \in End, AlertWrite(e) PROVE TypeOK'
  BY <1>0, <1>W, <1>14 DEF AlertWrite, RecvReturns, TypeOK
<1>15. ASSUME NEW e \in End, CloseBegin(e) PROVE TypeOK'
  <2>1. cpc' \in [End -> 0 .. 4]
    BY SMT, <1>0, <1>15 DEF CloseBegin, TypeOK
  <2> QED
    BY ZenonT(60), <1>0, <1>W, <1>15, <2>1 DEF CloseBegin, TypeOK
<1>16. ASSUME NEW e \in End, RecvRekey(e) PROVE TypeOK'
  <2>1. /\ recvKey[e] + 1 \in 0 .. EpochMax
        /\ recvEpoch[e] + 1 \in 0 .. EpochMax
        /\ 0 \in 0 .. FrameCap - 1
    <3>1. recvKey[e] # Zero /\ recvEpoch[e] < EpochMax
      BY <1>0, <1>16
         DEF RecvRekey, FrameReady, EpochLeft, Closing, LiveKeys
    <3>2. recvKey[e] = recvEpoch[e] /\ recvEpoch[e] \in 0 .. EpochMax
      BY ZenonT(60), <1>0, <3>1 DEF Closing, TypeOK
    <3> QED
      BY SMT, <3>1, <3>2
  <2>2. /\ recvKey' \in [End -> {Zero} \cup 0 .. EpochMax]
        /\ recvEpoch' \in [End -> 0 .. EpochMax]
        /\ recvCounter' \in [End -> 0 .. FrameCap - 1]
        /\ recvHave' \in [End -> BOOLEAN]
    BY <1>0, <1>16, <2>1 DEF RecvRekey, Ratchet, HaveAfterRekey, TypeOK
  <2> QED
    BY ZenonT(60), <1>0, <1>W, <1>16, <2>2 DEF RecvRekey, TypeOK
<1>17. ASSUME NEW e \in End, CloseConn(e) PROVE TypeOK'
  <2>1. cpc' \in [End -> 0 .. 4]
    <3>1. cpc[e] \in 1 .. 3 /\ cpc' = [cpc EXCEPT ![e] = cpc[e] + 1]
      BY <1>17 DEF CloseConn, ClosingAt, CloseAdvances
    <3>2. cpc[e] + 1 \in 0 .. 4
      BY SMT, <3>1
    <3> QED
      BY <1>0, <3>1, <3>2 DEF TypeOK
  <2> QED
    BY ZenonT(60), <1>0, <1>W, <1>17, <2>1 DEF CloseConn, TypeOK
<1>18. ASSUME NEW e \in End, CloseSend(e) PROVE TypeOK'
  <2>1. cpc' \in [End -> 0 .. 4]
    <3>1. cpc[e] \in 1 .. 3 /\ cpc' = [cpc EXCEPT ![e] = cpc[e] + 1]
      BY <1>18 DEF CloseSend, ClosingAt, CloseAdvances
    <3>2. cpc[e] + 1 \in 0 .. 4
      BY SMT, <3>1
    <3> QED
      BY <1>0, <3>1, <3>2 DEF TypeOK
  <2> QED
    BY ZenonT(60), <1>0, <1>W, <1>18, <2>1 DEF CloseSend, TypeOK
<1>19. ASSUME NEW e \in End, CloseRecv(e) PROVE TypeOK'
  <2>1. cpc' \in [End -> 0 .. 4]
    <3>1. cpc[e] \in 1 .. 3 /\ cpc' = [cpc EXCEPT ![e] = cpc[e] + 1]
      BY <1>19 DEF CloseRecv, ClosingAt, CloseAdvances
    <3>2. cpc[e] + 1 \in 0 .. 4
      BY SMT, <3>1
    <3> QED
      BY <1>0, <3>1, <3>2 DEF TypeOK
  <2> QED
    BY ZenonT(60), <1>0, <1>W, <1>19, <2>1 DEF CloseRecv, TypeOK
<1>20. ASSUME NEW e \in End, Lose(e) \/ Repeat(e) \/ Exchange(e) \/ Alter(e)
      PROVE  TypeOK'
  <2>1. PICK s : Damage(e, s)
    BY <1>20 DEF Lose, Repeat, Exchange, Alter
  <2>2. faults' \in 0 .. MaxFaults
    BY SMTT(60), <1>0, <2>1 DEF Damage, TypeOK
  <2> QED
    BY ZenonT(60), <1>0, <1>W, <2>1, <2>2 DEF Damage, TypeOK
<1>21. CASE UNCHANGED vars
  BY <1>0, <1>21 DEF vars, TypeOK
<1>22. ASSUME NEW t \in Sender, SendDeadline(t) PROVE TypeOK'
  <2>1. sealed' \in [End -> SUBSET Sealing]
    <3>1. 0 \in 0 .. MaxSend
      BY SMT
    <3>2. UNCHANGED sealed \/ (spc[t] = "sealing" /\ Sealed(EndOf(t), 0))
      BY <1>22 DEF SendDeadline
    <3>3. UNCHANGED sealed => sealed' \in [End -> SUBSET Sealing]
      BY <1>0 DEF TypeOK
    <3> QED
      BY <1>S, <3>1, <3>2, <3>3
  <2>2. faults' \in 0 .. MaxFaults
    BY SMT, <1>0, <1>22 DEF SendDeadline, TypeOK
  <2> QED
    BY <1>0, <1>W, <1>22, <2>1, <2>2 DEF SendDeadline, Unlock, TypeOK
<1>23. ASSUME NEW e \in End, AlertDeadline(e) PROVE TypeOK'
  BY <1>0, <1>W, <1>23 DEF AlertDeadline, RecvReturns, TypeOK
<1>24. ASSUME NEW e \in End, Misread(e) PROVE TypeOK'
  BY <1>0, <1>W, <1>24 DEF Misread, TypeOK
<1> QED
  BY ZenonT(60), <1>1, <1>2, <1>3, <1>4, <1>5, <1>6, <1>7, <1>8, <1>9, <1>10, <1>11,
     <1>12, <1>13, <1>14, <1>15, <1>16, <1>17, <1>18, <1>19, <1>20,
     <1>21, <1>22, <1>23, <1>24
     DEF Next, SenderStep, ReceiverStep, CloserStep

-------------------------------------------------------------------------------
\* What a refused frame leaves alone.
LEMMA RejectEffect ==
    ASSUME NEW e \in End, \/ RecvNonceViolation(e) \/ RecvAuthFailed(e)
                          \/ RecvEpochExhausted(e)
    PROVE  /\ UNCHANGED <<spc, scall, sendMu, sendCounter, sent, recvMu>>
           /\ UNCHANGED <<sendKey, sendEpoch, recvKey, recvEpoch, closed, cpc>>
           /\ rpc[e] = "reading" /\ rpc' = [rpc EXCEPT ![e] = "alerting"]
<1>1. FrameReady(e) /\ \E error : RecvRejects(e, error)
  BY DEF RecvNonceViolation, RecvAuthFailed, RecvEpochExhausted
<1> QED
  BY <1>1 DEF FrameReady, RecvRejects, sendVars, recvVars

\* Who holds which mutex, and what a sending goroutine may rely on once it
\* has it: no other goroutine of its end moves the counter or the stream.
LEMMA MutexStep == Inv /\ [Next]_vars => Mutexes' /\ Room'
<1> SUFFICES ASSUME Inv, [Next]_vars PROVE Mutexes' /\ Room'
  OBVIOUS
<1> USE SessionAssumption, Ends DEF Mutexes, Room
<1>0. /\ spc \in [Sender -> {"idle", "rekeying", "sealing"}]
      /\ scall \in [Sender -> {"Send", "Rekey"}]
      /\ sendMu \in [End -> Sender \cup {NoOne}] /\ NoOne \notin Sender
      /\ sendCounter \in [End -> 0 .. FrameCap - 1]
      /\ sent \in [End -> 0 .. MaxSend]
      /\ rpc \in [End -> {"idle", "reading", "alerting"}]
      /\ recvMu \in [End -> {"receiver", NoOne}]
  BY DEF Inv, TypeOK, Sender, NoOne
<1>1. Mutexes /\ Room
  BY DEF Inv
<1>2. ASSUME NEW t \in Sender, SendBegin(t) \/ RekeyBegin(t)
      PROVE  Mutexes' /\ Room'
  BY SMTT(60), <1>0, <1>1, <1>2
     DEF SendBegin, RekeyBegin, LockSend, CounterAtCap, sendVars, histVars
<1>3. ASSUME NEW t \in Sender, RekeyFail(t) \/ SealFail(t) \/ SendDeadline(t)
      PROVE  Mutexes' /\ Room'
  <2>1. /\ Unlock(t) /\ spc[t] # "idle"
        /\ UNCHANGED <<sendCounter, scall, rpc, recvMu, sent>>
    BY <1>3 DEF RekeyFail, SealFail, SendDeadline, sendVars, histVars
  <2> QED
    BY SMT, <1>0, <1>1, <2>1 DEF Unlock
<1>4. ASSUME NEW t \in Sender, RekeyWrite(t)
      PROVE  Mutexes' /\ Room'
  <2>1. Mutexes'
    BY SMTT(60), <1>0, <1>1, <1>4 DEF RekeyWrite, Unlock
  <2>2. Room'
    BY SMT, <1>0, <1>1, <1>4 DEF RekeyWrite, Unlock, histVars
  <2> QED
    BY <2>1, <2>2
<1>5. ASSUME NEW t \in Sender, SealWrite(t)
      PROVE  Mutexes' /\ Room'
  <2>1. Mutexes'
    BY <1>0, <1>1, <1>5 DEF SealWrite, Unlock
  <2>2. \A u \in Sender : spc'[u] # "idle" => spc'[u] = spc[u] /\ EndOf(u) # EndOf(t)
    BY <1>0, <1>1, <1>5 DEF SealWrite, Unlock
  <2>3. \A u \in Sender : EndOf(u) # EndOf(t) =>
           sendCounter'[EndOf(u)] = sendCounter[EndOf(u)] /\ sent'[EndOf(u)] = sent[EndOf(u)]
    BY <1>0, <1>5 DEF SealWrite
  <2>4. scall' = scall
    BY <1>5 DEF SealWrite
  <2> QED
    BY SMT, <1>1, <2>1, <2>2, <2>3, <2>4
<1>6. ASSUME NEW e \in End, RecvBegin(e)
      PROVE  Mutexes' /\ Room'
  BY ZenonT(60), <1>0, <1>1, <1>6 DEF RecvBegin, sendVars, histVars
<1>7. ASSUME NEW e \in End, \/ RecvData(e) \/ RecvAlert(e) \/ RecvIOError(e)
                            \/ AlertWrite(e) \/ AlertDeadline(e)
      PROVE  Mutexes' /\ Room'
  <2>1. /\ UNCHANGED <<spc, scall, sendMu, sendCounter, sent>>
        /\ rpc' = [rpc EXCEPT ![e] = "idle"]
        /\ recvMu' = [recvMu EXCEPT ![e] = NoOne]
    <3>1. CASE RecvData(e)
      BY <3>1 DEF RecvData, RecvReturns, sendVars
    <3>2. CASE RecvAlert(e)
      BY <3>2 DEF RecvAlert, RecvFails, RecvReturns, sendVars
    <3>3. CASE RecvIOError(e)
      BY <3>3 DEF RecvIOError, RecvFails, RecvReturns, sendVars
    <3>4. CASE AlertWrite(e) \/ AlertDeadline(e)
      BY <3>4 DEF AlertWrite, AlertDeadline, RecvReturns, sendVars, histVars
    <3> QED
      BY <1>7, <3>1, <3>2, <3>3, <3>4
  <2> QED
    BY <1>0, <1>1, <2>1
<1>8. ASSUME NEW e \in End, \/ RecvNonceViolation(e) \/ RecvAuthFailed(e)
                            \/ RecvEpochExhausted(e)
      PROVE  Mutexes' /\ Room'
  <2>1. /\ UNCHANGED <<spc, scall, sendMu, sendCounter, sent, recvMu>>
        /\ rpc[e] = "reading" /\ rpc' = [rpc EXCEPT ![e] = "alerting"]
    BY <1>8, RejectEffect
  <2> QED
    BY ZenonT(60), <1>0, <1>1, <2>1
<1>9. CASE UNCHANGED <<spc, scall, sendMu, sendCounter, sent, rpc, recvMu>>
  BY <1>1, <1>9
<1> QED
  BY ZenonT(60), <1>2, <1>3, <1>4, <1>5, <1>6, <1>7, <1>8, <1>9
     DEF Next, SenderStep, ReceiverStep, CloserStep, vars, sendVars, histVars,
         RecvRekey, Misread, CloseBegin, CloseConn, CloseSend, CloseRecv,
         Lose, Repeat, Exchange, Alter, Damage

\* Keys are wiped behind the closed flag and under the mutex, so whoever holds
\* the mutex works with a live key, the one of the current epoch.
LEMMA ClosingStep == Inv /\ [Next]_vars => Closing'
<1> SUFFICES ASSUME Inv, [Next]_vars PROVE Closing'
  OBVIOUS
<1> USE SessionAssumption, Ends DEF Closing, LiveKeys
<1>0. /\ spc \in [Sender -> {"idle", "rekeying", "sealing"}]
      /\ sendMu \in [End -> Sender \cup {NoOne}] /\ NoOne \notin Sender
      /\ NoOne # "receiver"
      /\ rpc \in [End -> {"idle", "reading", "alerting"}]
      /\ recvMu \in [End -> {"receiver", NoOne}]
      /\ closed \in [End -> BOOLEAN] /\ cpc \in [End -> 0 .. 4]
      /\ sendKey \in [End -> {-1} \cup 0 .. EpochMax]
      /\ recvKey \in [End -> {-1} \cup 0 .. EpochMax]
      /\ sendEpoch \in [End -> 0 .. EpochMax]
      /\ recvEpoch \in [End -> 0 .. EpochMax]
      /\ Zero = -1
  BY DEF Inv, TypeOK, Sender, NoOne, Zero
<1>1. Mutexes /\ Closing
  BY DEF Inv
<1>2. ASSUME NEW t \in Sender, SendBegin(t) \/ RekeyBegin(t)
      PROVE  Closing'
  BY SMTT(60), <1>0, <1>1, <1>2
     DEF SendBegin, RekeyBegin, LockSend, sendVars, recvVars
<1>3. ASSUME NEW t \in Sender, \/ RekeyFail(t) \/ SealFail(t) \/ SealWrite(t)
                              \/ SendDeadline(t)
      PROVE  Closing'
  <2>1. /\ Unlock(t)
        /\ UNCHANGED <<sendKey, sendEpoch, recvKey, recvEpoch, closed, rpc, cpc>>
    BY <1>3 DEF RekeyFail, SealFail, SealWrite, SendDeadline, sendVars, recvVars
  <2> QED
    BY SMT, <1>0, <1>1, <2>1 DEF Unlock
<1>4. ASSUME NEW t \in Sender, RekeyWrite(t)
      PROVE  Closing'
  <2> DEFINE e == EndOf(t)
  <2>1. /\ e \in End /\ sendKey[e] \in 0 .. EpochMax /\ sendKey[e] = sendEpoch[e]
        /\ spc[t] # "idle"
    BY <1>0, <1>1, <1>4 DEF RekeyWrite
  <2>2. /\ sendKey' = [sendKey EXCEPT ![e] = sendKey[e] + 1]
        /\ sendEpoch' = [sendEpoch EXCEPT ![e] = sendEpoch[e] + 1]
        /\ UNCHANGED <<recvVars, closed, cpc, rpc>>
        /\ \A u \in Sender : spc'[u] # "idle" => spc[u] # "idle"
    BY <1>0, <1>4, <2>1 DEF RekeyWrite, Ratchet, Unlock
  <2> HIDE DEF e
  <2>3. \A d \in End : sendKey'[d] = Zero => sendKey[d] = Zero
    BY SMT, <1>0, <2>1, <2>2
  <2>4. \A d \in End : sendKey'[d] # Zero => sendKey'[d] = sendEpoch'[d]
    BY <1>0, <1>1, <2>1, <2>2
  <2> QED
    BY <1>0, <1>1, <2>2, <2>3, <2>4 DEF recvVars
<1>5. ASSUME NEW e \in End, RecvBegin(e)
      PROVE  Closing'
  BY <1>0, <1>1, <1>5 DEF RecvBegin, sendVars, recvVars
<1>6. ASSUME NEW e \in End, \/ RecvData(e) \/ RecvAlert(e) \/ RecvIOError(e)
                            \/ AlertWrite(e) \/ AlertDeadline(e)
      PROVE  Closing'
  <2>1. /\ UNCHANGED <<spc, sendKey, sendEpoch, recvKey, recvEpoch, closed, cpc>>
        /\ rpc' = [rpc EXCEPT ![e] = "idle"]
    <3>1. CASE RecvData(e)
      BY <3>1 DEF RecvData, RecvReturns, sendVars
    <3>2. CASE RecvAlert(e)
      BY <3>2 DEF RecvAlert, RecvFails, RecvReturns, sendVars, recvVars
    <3>3. CASE RecvIOError(e)
      BY <3>3 DEF RecvIOError, RecvFails, RecvReturns, sendVars, recvVars
    <3>4. CASE AlertWrite(e) \/ AlertDeadline(e)
      BY <3>4 DEF AlertWrite, AlertDeadline, RecvReturns, sendVars, recvVars
    <3> QED
      BY <1>6, <3>1, <3>2, <3>3, <3>4
  <2> QED
    BY <1>0, <1>1, <2>1
<1>7. ASSUME NEW e \in End, \/ RecvNonceViolation(e) \/ RecvAuthFailed(e)
                            \/ RecvEpochExhausted(e)
      PROVE  Closing'
  <2>1. /\ UNCHANGED <<spc, sendKey, sendEpoch, recvKey, recvEpoch, closed, cpc>>
        /\ rpc[e] = "reading" /\ rpc' = [rpc EXCEPT ![e] = "alerting"]
    BY <1>7, RejectEffect
  <2> QED
    BY <1>0, <1>1, <2>1
<1>8. ASSUME NEW e \in End, RecvRekey(e)
      PROVE  Closing'
  <2>1. recvKey[e] \in 0 .. EpochMax /\ recvKey[e] = recvEpoch[e]
    BY <1>0, <1>1, <1>8 DEF RecvRekey, FrameReady
  <2>2. /\ recvKey' = [recvKey EXCEPT ![e] = recvKey[e] + 1]
        /\ recvEpoch' = [recvEpoch EXCEPT ![e] = recvEpoch[e] + 1]
        /\ UNCHANGED <<sendVars, closed, cpc, spc, rpc>>
    BY <1>8 DEF RecvRekey, Ratchet
  <2>3. \A d \in End : recvKey'[d] = Zero => recvKey[d] = Zero
    BY SMT, <1>0, <2>1, <2>2
  <2>4. \A d \in End : recvKey'[d] # Zero => recvKey'[d] = recvEpoch'[d]
    BY ZenonT(60), <1>0, <1>1, <2>1, <2>2
  <2> QED
    BY <1>0, <1>1, <2>2, <2>3, <2>4 DEF sendVars
<1>9. ASSUME NEW e \in End, CloseBegin(e)
      PROVE  Closing'
  BY SMT, <1>0, <1>1, <1>9 DEF CloseBegin, sendVars, recvVars
<1>10. ASSUME NEW e \in End, CloserStep(e)
      PROVE  Closing'
  <2>1. /\ cpc[e] \in 1 .. 3 /\ cpc' = [cpc EXCEPT ![e] = cpc[e] + 1]
        /\ UNCHANGED <<closed, sendEpoch, recvEpoch, spc, rpc>>
    BY <1>10 DEF CloserStep, CloseConn, CloseSend, CloseRecv, ClosingAt,
                 CloseAdvances, sendVars, recvVars
  <2>2. \A d \in End : closed'[d] <=> cpc'[d] # 0
    BY SMT, <1>0, <1>1, <2>1
  <2>3. closed[e]
    BY SMTT(60), <1>1, <2>1
  <2>4. CASE CloseConn(e)
    BY SMTT(60), <1>0, <1>1, <2>1, <2>2, <2>4 DEF CloseConn, sendVars, recvVars
  <2>5. CASE CloseSend(e)
    BY SMTT(60), <1>0, <1>1, <2>1, <2>2, <2>3, <2>5 DEF CloseSend, Mutexes, recvVars
  <2>6. CASE CloseRecv(e)
    BY SMT, <1>0, <1>1, <2>1, <2>2, <2>3, <2>6 DEF CloseRecv, Mutexes, sendVars
  <2> QED
    BY <1>10, <2>4, <2>5, <2>6 DEF CloserStep
<1>11. CASE UNCHANGED <<spc, rpc, closed, cpc, sendVars, recvVars>>
  BY <1>1, <1>11 DEF sendVars, recvVars
<1> QED
  BY ZenonT(60), <1>2, <1>3, <1>4, <1>5, <1>6, <1>7, <1>8, <1>9, <1>10, <1>11
     DEF Next, SenderStep, ReceiverStep, Misread, vars,
         Lose, Repeat, Exchange, Alter, Damage

-------------------------------------------------------------------------------
\* A write that fails under way leaves nothing but a torn frame.
LEMMA TornEffect ==
    ASSUME TypeOK, NEW t \in Sender, SealFail(t) \/ SendDeadline(t)
    PROVE  /\ UNCHANGED <<open, sendKey, sendEpoch, sendCounter, sent>>
           /\ UNCHANGED <<got, errs, rpc, recvKey, recvEpoch, recvCounter, recvHave>>
           /\ \A d \in End : sealed[d] \subseteq sealed'[d] /\ Whole(d)' = Whole(d)
<1> DEFINE e == EndOf(t)
           new == [key |-> sendKey[e], ctr |-> sendCounter[e], payload |-> 0]
<1>1. UNCHANGED sealed \/ sealed' = [sealed EXCEPT ![e] = sealed[e] \cup {new}]
  BY DEF SealFail, SendDeadline, Sealed
<1>2. new.payload = 0 /\ e \in End /\ DOMAIN sealed = End
  BY Ends DEF TypeOK
<1> HIDE DEF new, e
<1>3. \A d \in End : \/ sealed'[d] = sealed[d]
                     \/ sealed'[d] = sealed[d] \cup {new}
  BY <1>1, <1>2
<1>4. \A d \in End : sealed[d] \subseteq sealed'[d] /\ Whole(d)' = Whole(d)
  BY <1>2, <1>3 DEF Whole
<1> QED
  BY <1>4 DEF SealFail, SendDeadline, sendVars, recvVars

\* What a goroutine seals comes after all that was sealed before it.
LEMMA OrderedStep == Inv /\ [Next]_vars => Ordered'
<1> SUFFICES ASSUME Inv, [Next]_vars PROVE Ordered'
  OBVIOUS
<1> USE SessionAssumption, Ends
<1>0. /\ sealed \in [End -> SUBSET Sealing]
      /\ sendEpoch \in [End -> 0 .. EpochMax]
      /\ sendCounter \in [End -> 0 .. FrameCap - 1]
      /\ sent \in [End -> 0 .. MaxSend]
  BY DEF Inv, TypeOK
<1>1. Ordered
  BY DEF Inv
<1>2. \A e \in End : \A a \in Whole(e) :
         a.key \in Nat /\ a.ctr \in Nat /\ a.payload \in Nat
  BY SMT, <1>0 DEF Sealing, Whole
<1>3. ASSUME NEW t \in Sender, SealWrite(t) PROVE Ordered'
  <2> DEFINE e == EndOf(t)
             new == [key |-> sendKey[e], ctr |-> sendCounter[e],
                     payload |-> sent[e] + 1]
  <2>1. /\ e \in End /\ sendKey[e] = sendEpoch[e]
        /\ sendEpoch[e] \in Nat /\ sendCounter[e] \in Nat /\ sent[e] \in Nat
    BY SMT, <1>0, <1>3, DataTyped DEF SealWrite, Inv
  <2>2. /\ sealed' = [sealed EXCEPT ![e] = sealed[e] \cup {new}]
        /\ sent' = [sent EXCEPT ![e] = sent[e] + 1]
        /\ sendCounter' = [sendCounter EXCEPT ![e] = sendCounter[e] + 1]
        /\ sendEpoch' = sendEpoch
    BY <1>3 DEF SealWrite, Sealed
  <2>3. /\ new.key = sendEpoch[e] /\ new.ctr = sendCounter[e]
        /\ new.payload = sent[e] + 1
    BY <2>1
  <2> HIDE DEF new, e
  <2>4. \A a \in Whole(e) : Before(a, new) /\ ~Before(new, a) /\ a.payload < new.payload
    BY SMT, <1>1, <1>2, <2>1, <2>3 DEF Ordered, Before
  <2>5. ~Before(new, new)
    BY SMT, <2>1, <2>3 DEF Before
  <2>6. ASSUME NEW d \in End, d # e
        PROVE  /\ Whole(d)' = Whole(d) /\ sent'[d] = sent[d]
               /\ sendCounter'[d] = sendCounter[d] /\ sendEpoch'[d] = sendEpoch[d]
    BY <1>0, <2>2, <2>6 DEF Whole
  <2>7. /\ Whole(e)' = Whole(e) \cup {new} /\ sent'[e] = sent[e] + 1
        /\ sendCounter'[e] = sendCounter[e] + 1 /\ sendEpoch'[e] = sendEpoch[e]
    <3>1. sealed'[e] = sealed[e] \cup {new} /\ new.payload # 0
      BY SMT, <1>0, <2>1, <2>2, <2>3
    <3>2. Whole(e)' = Whole(e) \cup {new}
      BY <3>1 DEF Whole
    <3> QED
      BY <1>0, <2>1, <2>2, <3>2
  <2>8. ASSUME NEW a \in Whole(e)'
        PROVE  /\ a.payload <= sent'[e]
               /\ a.key <= sendEpoch'[e]
               /\ a.key = sendEpoch'[e] => a.ctr < sendCounter'[e]
    BY SMT, <1>1, <1>2, <2>1, <2>3, <2>7 DEF Ordered
  <2>9. ASSUME NEW a \in Whole(e)', NEW b \in Whole(e)'
        PROVE  /\ a = b \/ Before(a, b) \/ Before(b, a)
               /\ Before(a, b) => a.payload < b.payload
    BY ZenonT(60), <1>1, <2>1, <2>4, <2>5, <2>7 DEF Ordered
  <2> QED
    BY ZenonT(60), <1>1, <2>6, <2>8, <2>9 DEF Ordered
<1>4. ASSUME NEW t \in Sender, RekeyWrite(t) PROVE Ordered'
  <2> DEFINE e == EndOf(t)
  <2>1. /\ sendEpoch' = [sendEpoch EXCEPT ![e] = sendEpoch[e] + 1]
        /\ sendCounter' = [sendCounter EXCEPT ![e] = 0]
        /\ UNCHANGED <<sealed, sent>>
    BY <1>4 DEF RekeyWrite, histVars
  <2>2. ASSUME NEW d \in End, NEW a \in Whole(d)
        PROVE  /\ a.key <= sendEpoch'[d]
               /\ a.key = sendEpoch'[d] => a.ctr < sendCounter'[d]
    <3>1. /\ a.key <= sendEpoch[d]
          /\ a.key = sendEpoch[d] => a.ctr < sendCounter[d]
          /\ sendEpoch[d] \in Nat /\ a.key \in Nat
      BY SMT, <1>0, <1>1, <1>2 DEF Ordered
    <3> QED
      BY SMT, <1>0, <2>1, <3>1
  <2> QED
    BY <1>1, <2>1, <2>2 DEF Ordered, Whole
<1>5. CASE UNCHANGED <<sealed, sent, sendEpoch, sendCounter>>
  BY ZenonT(60), <1>1, <1>5 DEF Ordered, Whole
<1>6. ASSUME NEW t \in Sender, SealFail(t) \/ SendDeadline(t) PROVE Ordered'
  <2>1. /\ UNCHANGED <<sent, sendEpoch, sendCounter>>
        /\ \A d \in End : Whole(d)' = Whole(d)
    BY <1>6, TornEffect DEF Inv
  <2> QED
    BY ZenonT(60), <1>1, <2>1 DEF Ordered
<1> QED
  BY ZenonT(60), <1>3, <1>4, <1>5, <1>6
     DEF Next, SenderStep, ReceiverStep, CloserStep, vars, sendVars, histVars,
         SendBegin, RekeyBegin, RekeyFail, RecvBegin, RecvData,
         RecvNonceViolation, RecvAuthFailed, RecvRekey, RecvEpochExhausted,
         RecvAlert, RecvIOError, AlertWrite, AlertDeadline, Misread, RecvRejects, RecvFails,
         CloseBegin, CloseConn, CloseSend, CloseRecv,
         Lose, Repeat, Exchange, Alter, Damage

\* What was sealed is never forgotten.
LEMMA SealedGrows ==
    Inv /\ [Next]_vars =>
        \A e \in End : sealed[e] \subseteq sealed'[e] /\ Whole(e) \subseteq Whole(e)'
<1> SUFFICES ASSUME Inv, [Next]_vars
             PROVE  \A e \in End : sealed[e] \subseteq sealed'[e] /\ Whole(e) \subseteq Whole(e)'
  OBVIOUS
<1>1. sealed \in [End -> SUBSET Sealing]
  BY DEF Inv, TypeOK
<1>2. ASSUME NEW t \in Sender, SealWrite(t)
      PROVE  \A e \in End : sealed[e] \subseteq sealed'[e] /\ Whole(e) \subseteq Whole(e)'
  BY <1>1, <1>2, Ends DEF SealWrite, Sealed, Whole
<1>3. CASE UNCHANGED sealed
  BY <1>3 DEF Whole
<1>4. ASSUME NEW t \in Sender, SealFail(t) \/ SendDeadline(t)
      PROVE  \A e \in End : sealed[e] \subseteq sealed'[e] /\ Whole(e) \subseteq Whole(e)'
  BY <1>4, TornEffect DEF Inv
<1> QED
  BY ZenonT(60), <1>2, <1>3, <1>4
     DEF Next, SenderStep, ReceiverStep, CloserStep, vars, histVars,
         SendBegin, RekeyBegin, RekeyWrite, RekeyFail, RecvBegin,
         RecvData, RecvNonceViolation, RecvAuthFailed, RecvRekey,
         RecvEpochExhausted, RecvAlert, RecvIOError, AlertWrite, AlertDeadline, Misread, RecvRejects,
         RecvFails, CloseBegin, CloseConn, CloseSend, CloseRecv,
         Lose, Repeat, Exchange, Alter, Damage

\* A sequence over a set is one over a larger set.
LEMMA SeqWidens ==
    ASSUME NEW S, NEW T, S \subseteq T, NEW s \in Seq(S)
    PROVE  s \in Seq(T)
  BY SMT

\* Whatever the network does, an intact frame is one that was sealed.
LEMMA AuthenticStep == Inv /\ [Next]_vars => Authentic'
<1> SUFFICES ASSUME Inv, [Next]_vars PROVE Authentic'
  OBVIOUS
<1> DEFINE sealing(f) == [key |-> f.key, ctr |-> f.ctr, payload |-> f.payload]
           Fine(e) == {f \in Frame : f.type = "data" /\ f.intact =>
                          f.epoch = f.key /\ sealing(f) \in sealed'[e]}
           G == [e \in End |-> Fine(e)]
<1> USE SessionAssumption, Ends
<1>1. ASSUME NEW e \in End
      PROVE  /\ G[e] = Fine(e) /\ G[e] \subseteq Frame
             /\ Rekey \in G[e] /\ Alert \in G[e] /\ Torn \in G[e]
             /\ \A c \in 0 .. FrameCap : Garbled(c) \in G[e]
             /\ GoodFrame(e) \subseteq G[e]
  BY SealedGrows, FrameTypes DEF GoodFrame
<1>2. \A e \in End : wire[e] \in Seq(G[e])
  <2> SUFFICES ASSUME NEW e \in End PROVE wire[e] \in Seq(G[e])
    OBVIOUS
  <2>1. wire[e] \in Seq(GoodFrame(e))
    BY DEF Inv, Authentic
  <2>2. GoodFrame(e) \subseteq G[e]
    BY <1>1
  <2> HIDE DEF G
  <2> QED
    BY <2>1, <2>2, SeqWidens
<1>3. ASSUME NEW t \in Sender, SealWrite(t)
      PROVE  Data(EndOf(t)) \in G[EndOf(t)]
  <2> DEFINE e == EndOf(t)
  <2>1. Data(e) \in Frame /\ sendKey[e] = sendEpoch[e]
    BY <1>3, DataTyped DEF SealWrite, Inv, Frame
  <2>2. [key |-> sendKey[e], ctr |-> sendCounter[e], payload |-> sent[e] + 1]
           \in sealed'[e]
    BY <1>3 DEF SealWrite, Sealed, Inv, TypeOK
  <2>3. Data(e).epoch = Data(e).key /\ sealing(Data(e)) \in sealed'[e]
    BY <2>1, <2>2 DEF Data
  <2> QED
    BY <2>1, <2>3
<1>4. ASSUME NEW e \in End, NEW f \in G[e], NEW c \in 0 .. FrameCap,
             f.type = "data"
      PROVE  [f EXCEPT !.ctr = c, !.intact = FALSE] \in G[e]
  <2>1. f \in DataFrame
    BY <1>1, <1>4, FrameTypes
  <2>2. /\ [f EXCEPT !.ctr = c, !.intact = FALSE] \in Frame
        /\ [f EXCEPT !.ctr = c, !.intact = FALSE].intact = FALSE
    BY <2>1 DEF DataFrame, Frame
  <2> QED
    BY <2>2
<1>5. \A e \in End : G[e] = GoodFrame(e)'
  BY DEF GoodFrame
<1> HIDE DEF G
<1>6. Carries(G) /\ Alterable(G)
  BY <1>1, <1>2, <1>3, <1>4 DEF Carries, Alterable
<1>7. \A e \in End : wire'[e] \in Seq(G[e])
  BY <1>6, WireStep
<1> QED
  BY <1>5, <1>7 DEF Authentic

-------------------------------------------------------------------------------
\* A frame that Recv accepts was sealed by the peer, after the last payload
\* that Recv returned.
LEMMA AcceptedFrame ==
    ASSUME Inv, NEW e \in End, RecvData(e)
    PROVE  LET f == NextFrame(e)
               a == [key |-> f.key, ctr |-> f.ctr, payload |-> f.payload]
           IN  /\ f \in DataFrame
               /\ a \in Whole(Peer(e))
               /\ f.key = recvEpoch[e]
               /\ f.payload <= sent[Peer(e)]
               /\ got[e] # <<>> => LastGot(e) < f.payload
<1> DEFINE f == NextFrame(e)
           a == [key |-> f.key, ctr |-> f.ctr, payload |-> f.payload]
<1> USE SessionAssumption, Ends
<1>1. f \in GoodFrame(Peer(e))
  <2>1. wire[Peer(e)] \in Seq(GoodFrame(Peer(e))) /\ wire[Peer(e)] # <<>>
    BY DEF Inv, Authentic, RecvData, FrameReady
  <2> QED
    BY <2>1, HeadTailProperties DEF NextFrame
<1>2. f \in DataFrame
  BY <1>1, FrameTypes DEF GoodFrame, RecvData
<1>3. /\ f.type = "data" /\ f.intact /\ f.key = recvKey[e]
      /\ ~(recvHave[e] /\ f.ctr <= recvCounter[e])
  BY DEF RecvData, Opens, NonceViolation, StaleCounter
<1>4. a \in Whole(Peer(e))
  <2>1. a \in sealed[Peer(e)]
    BY <1>1, <1>3 DEF GoodFrame
  <2>2. f.payload # 0
    BY SMT, <1>2 DEF DataFrame
  <2> QED
    BY <2>1, <2>2 DEF Whole
<1>5. f.key = recvEpoch[e]
  <2>1. recvKey[e] # Zero
    BY DEF Inv, Closing, LiveKeys, RecvData, FrameReady
  <2> QED
    BY <1>3, <2>1 DEF Inv, Closing
<1>6. a.key = f.key /\ a.ctr = f.ctr /\ a.payload = f.payload
  OBVIOUS
<1> HIDE DEF a, f
<1>7. f.payload <= sent[Peer(e)]
  BY <1>4, <1>6 DEF Inv, Ordered
<1>8. ASSUME got[e] # <<>> PROVE LastGot(e) < f.payload
  <2>1. PICK b \in Whole(Peer(e)) :
           /\ b.payload = LastGot(e)
           /\ \/ b.key < recvEpoch[e]
              \/ b.key = recvEpoch[e] /\ recvHave[e] /\ b.ctr <= recvCounter[e]
    BY <1>8 DEF Inv, Accepted
  <2>2. /\ b.ctr \in Nat /\ recvCounter[e] \in Nat /\ f.ctr \in Nat
    BY SMTT(60), <1>2 DEF Inv, TypeOK, Sealing, Whole, DataFrame
  <2>3. Before(b, a)
    BY SMT, <1>3, <1>5, <1>6, <2>1, <2>2 DEF Before
  <2> QED
    BY ZenonT(60), <1>4, <1>6, <2>1, <2>3 DEF Inv, Ordered
<1> QED
  BY <1>2, <1>4, <1>5, <1>7, <1>8 DEF a, f

\* The last payload returned stays behind the receiver's epoch and counter.
LEMMA AcceptedStep == Inv /\ [Next]_vars => Accepted'
<1> SUFFICES ASSUME Inv, [Next]_vars PROVE Accepted'
  OBVIOUS
<1> USE SessionAssumption, Ends
<1>0. /\ sealed \in [End -> SUBSET Sealing]
      /\ recvEpoch \in [End -> 0 .. EpochMax]
      /\ recvCounter \in [End -> 0 .. FrameCap - 1]
      /\ recvHave \in [End -> BOOLEAN]
      /\ got \in [End -> Seq(1 .. MaxSend)]
  BY DEF Inv, TypeOK
<1>1. Accepted /\ \A e \in End : Whole(e) \subseteq Whole(e)'
  BY SealedGrows DEF Inv
<1>2. ASSUME NEW e \in End, RecvData(e) PROVE Accepted'
  <2> DEFINE f == NextFrame(e)
             a == [key |-> f.key, ctr |-> f.ctr, payload |-> f.payload]
  <2>1. /\ a \in Whole(Peer(e))' /\ a.payload = f.payload
        /\ a.key = recvEpoch[e] /\ a.ctr = f.ctr
        /\ f.ctr \in Nat /\ f.payload \in 1 .. MaxSend
    BY SMTT(60), <1>1, <1>2, AcceptedFrame DEF DataFrame
  <2>2. /\ recvCounter' = [recvCounter EXCEPT ![e] = f.ctr]
        /\ recvHave' = [recvHave EXCEPT ![e] = TRUE]
        /\ got' = [got EXCEPT ![e] = Append(got[e], f.payload)]
        /\ UNCHANGED <<recvEpoch>>
    BY <1>2 DEF RecvData
  <2> HIDE DEF a, f
  <2>3. LastGot(e)' = f.payload
    <3>1. got'[e] = Append(got[e], f.payload)
      BY <1>0, <2>2
    <3> QED
      BY SMT, <1>0, <2>1, <3>1, AppendProperties DEF LastGot
  <2>4. \E b \in Whole(Peer(e))' :
           /\ b.payload = LastGot(e)'
           /\ b.key = recvEpoch'[e] /\ recvHave'[e] /\ b.ctr <= recvCounter'[e]
    BY SMTT(60), <1>0, <2>1, <2>2, <2>3
  <2>5. ASSUME NEW d \in End, d # e
        PROVE  /\ got'[d] = got[d] /\ recvEpoch'[d] = recvEpoch[d]
               /\ recvHave'[d] = recvHave[d] /\ recvCounter'[d] = recvCounter[d]
    BY <1>0, <2>2, <2>5
  <2> QED
    BY SMT, <1>1, <2>4, <2>5 DEF Accepted, LastGot
<1>3. ASSUME NEW e \in End, RecvRekey(e) PROVE Accepted'
  <2>1. /\ recvEpoch' = [recvEpoch EXCEPT ![e] = recvEpoch[e] + 1]
        /\ recvCounter' = [recvCounter EXCEPT ![e] = 0]
        /\ recvHave' = [recvHave EXCEPT ![e] = FALSE]
        /\ UNCHANGED <<got, sealed>>
    BY <1>3 DEF RecvRekey, HaveAfterRekey, histVars
  <2>2. ASSUME NEW d \in End, got[d] # <<>>
        PROVE  \E b \in Whole(Peer(d)) :
                  /\ b.payload = LastGot(d)
                  /\ \/ b.key < recvEpoch'[d]
                     \/ /\ b.key = recvEpoch'[d]
                        /\ recvHave'[d] /\ b.ctr <= recvCounter'[d]
    <3>1. PICK b \in Whole(Peer(d)) :
             /\ b.payload = LastGot(d)
             /\ \/ b.key < recvEpoch[d]
                \/ b.key = recvEpoch[d] /\ recvHave[d] /\ b.ctr <= recvCounter[d]
      BY <1>1, <2>2 DEF Accepted
    <3>2. b.key \in Nat /\ recvEpoch[d] \in Nat
      BY SMT, <1>0 DEF Sealing, Whole
    <3>3. CASE d = e
      BY SMTT(60), <1>0, <2>1, <3>1, <3>2, <3>3
    <3>4. CASE d # e
      BY <1>0, <2>1, <3>1, <3>4
    <3> QED
      BY <3>3, <3>4
  <2> QED
    BY <2>1, <2>2 DEF Accepted, LastGot, Whole
<1>4. CASE UNCHANGED <<got, recvCounter, recvHave, recvEpoch>>
  BY <1>1, <1>4 DEF Accepted, LastGot
<1> QED
  BY ZenonT(60), <1>2, <1>3, <1>4
     DEF Next, SenderStep, ReceiverStep, CloserStep, vars, histVars, recvVars,
         SendBegin, RekeyBegin, RekeyWrite, RekeyFail, SealWrite, SealFail,
         RecvBegin, RecvNonceViolation, RecvAuthFailed, RecvEpochExhausted,
         RecvAlert, RecvIOError, AlertWrite, AlertDeadline,
         Misread, SendDeadline, RecvRejects, RecvFails,
         CloseBegin, CloseConn, CloseSend, CloseRecv,
         Lose, Repeat, Exchange, Alter, Damage

-------------------------------------------------------------------------------
\* The invariant is inductive.
LEMMA PQInvariant == Spec => []Inv
<1>1. Inv /\ [Next]_vars => Inv'
  BY TypeStep, MutexStep, ClosingStep, OrderedStep, AuthenticStep, AcceptedStep
     DEF Inv
<1> QED
  BY InitInv, <1>1, PTL DEF Spec

\* Every variable of the two sessions keeps its type: in particular the frame
\* counter stays below RekeyFrameCap and the epoch within its byte.
THEOREM PQTypeOK == Spec => []TypeOK
<1>1. Inv => TypeOK
  BY DEF Inv
<1> QED
  BY PQInvariant, <1>1, PTL

\* Of the frames Send seals under one key and counter at most one is written
\* whole, however many goroutines send and rekey and whatever fails in between;
\* the others are torn, by a write that failed and left its counter to the next.
THEOREM PQOneFramePerNonce == Spec => []OneFramePerNonce
<1>1. Inv => OneFramePerNonce
  <2> SUFFICES ASSUME Inv, NEW e \in End, NEW a \in sealed[e],
                      NEW b \in sealed[e], a.key = b.key, a.ctr = b.ctr
               PROVE  a = b \/ a.payload = 0 \/ b.payload = 0
    BY DEF OneFramePerNonce
  <2>1. a.key \in Nat /\ a.ctr \in Nat
    BY SMT DEF Inv, TypeOK, Sealing
  <2>2. ~Before(a, b) /\ ~Before(b, a)
    BY SMT, <2>1 DEF Before
  <2> QED
    BY <2>2 DEF Inv, Ordered, Whole
<1> QED
  BY PQInvariant, <1>1, PTL

\* A goroutine inside Send, Rekey or Recv never meets a wiped key.
THEOREM PQKeysHeldAreLive == Spec => []KeysHeldAreLive
<1>1. Inv => KeysHeldAreLive
  <2> SUFFICES ASSUME Inv PROVE KeysHeldAreLive
    OBVIOUS
  <2>1. \A t \in Sender : EndOf(t) \in End
    BY DEF EndOf, End
  <2>2. "receiver" # NoOne
    BY DEF NoOne
  <2>3. TypeOK /\ LiveKeys /\ Mutexes
    BY DEF Inv, Closing
  <2> QED
    BY <2>1, <2>2, <2>3 DEF LiveKeys, Mutexes, KeysHeldAreLive
<1> QED
  BY PQInvariant, <1>1, PTL

\* What a step does to one direction: it sends, delivers, or leaves it alone.
LEMMA StreamStep ==
    ASSUME Inv, [Next]_vars, NEW e \in End
    PROVE  \/ /\ sent[e] < MaxSend /\ sent'[e] = sent[e] + 1
              /\ got'[Peer(e)] = got[Peer(e)]
           \/ /\ sent'[e] = sent[e]
              /\ \E p \in 1 .. MaxSend :
                    /\ p <= sent[e]
                    /\ got[Peer(e)] # <<>> => LastGot(Peer(e)) < p
                    /\ got'[Peer(e)] = Append(got[Peer(e)], p)
           \/ sent'[e] = sent[e] /\ got'[Peer(e)] = got[Peer(e)]
<1> USE SessionAssumption, Ends
<1>0. sent \in [End -> 0 .. MaxSend] /\ got \in [End -> Seq(1 .. MaxSend)]
  BY DEF Inv, TypeOK
<1>1. ASSUME NEW t \in Sender, SealWrite(t), EndOf(t) = e
      PROVE  /\ sent[e] < MaxSend /\ sent'[e] = sent[e] + 1
             /\ got'[Peer(e)] = got[Peer(e)]
  <2>1. sent[e] + 1 \in 1 .. MaxSend
    BY <1>1, DataTyped DEF SealWrite, Inv
  <2>2. sent' = [sent EXCEPT ![e] = sent[e] + 1] /\ got' = got
    BY <1>1 DEF SealWrite
  <2>3. sent[e] \in 0 .. MaxSend /\ sent[e] < MaxSend
    BY SMT, <1>0, <2>1
  <2> QED
    BY <1>0, <2>2, <2>3
<1>2. ASSUME NEW t \in Sender, SealWrite(t), EndOf(t) # e
      PROVE  sent'[e] = sent[e] /\ got'[Peer(e)] = got[Peer(e)]
  BY <1>0, <1>2 DEF SealWrite
<1>3. ASSUME RecvData(Peer(e))
      PROVE  /\ sent'[e] = sent[e]
             /\ \E p \in 1 .. MaxSend :
                    /\ p <= sent[e]
                    /\ got[Peer(e)] # <<>> => LastGot(Peer(e)) < p
                    /\ got'[Peer(e)] = Append(got[Peer(e)], p)
  <2> DEFINE p == NextFrame(Peer(e)).payload
  <2>1. /\ p \in 1 .. MaxSend /\ p <= sent[e]
        /\ got[Peer(e)] # <<>> => LastGot(Peer(e)) < p
    BY <1>3, AcceptedFrame DEF DataFrame
  <2>2. got'[Peer(e)] = Append(got[Peer(e)], p) /\ sent' = sent
    BY <1>0, <1>3 DEF RecvData
  <2> QED
    BY <2>1, <2>2
<1>4. ASSUME NEW d \in End, RecvData(d), d # Peer(e)
      PROVE  sent'[e] = sent[e] /\ got'[Peer(e)] = got[Peer(e)]
  BY <1>0, <1>4 DEF RecvData
<1>5. CASE UNCHANGED <<sent, got>>
  BY <1>5
<1> QED
  BY ZenonT(60), <1>1, <1>2, <1>3, <1>4, <1>5
     DEF Next, SenderStep, ReceiverStep, CloserStep, vars, histVars,
         SendBegin, RekeyBegin, RekeyWrite, RekeyFail, SealFail, RecvBegin,
         RecvNonceViolation, RecvAuthFailed, RecvRekey, RecvEpochExhausted,
         RecvAlert, RecvIOError, AlertWrite, AlertDeadline,
         Misread, SendDeadline, RecvRejects, RecvFails,
         CloseBegin, CloseConn, CloseSend, CloseRecv,
         Lose, Repeat, Exchange, Alter, Damage

\* The last element of a sequence.
LEMMA LastInSeq ==
    ASSUME NEW S, NEW s \in Seq(S), s # <<>>
    PROVE  s[Len(s)] \in S
<1>1. Len(s) \in 1 .. Len(s)
  BY SMT, LenProperties, EmptySeq
<1> QED
  BY <1>1, ElementOfSeq

\* Both directions of a session implement SecureStream, whatever the network
\* does to the frames: in order, nothing twice, nothing altered or invented.
THEOREM PQStreams == Spec => Streams
<1>1. Init => IStream!Init /\ RStream!Init
  BY Ends DEF Init, IStream!Init, RStream!Init, End
<1>2. Inv /\ [Next]_vars => [IStream!Next]_<<sent["I"], got["R"]>>
  <2> SUFFICES ASSUME Inv, [Next]_vars
               PROVE  [IStream!Next]_<<sent["I"], got["R"]>>
    OBVIOUS
  <2>1. "I" \in End /\ "R" \in End /\ Peer("I") = "R"
    BY DEF End, Peer
  <2>2. sent["I"] \in 0 .. MaxSend /\ got["R"] \in Seq(1 .. MaxSend)
    BY <2>1 DEF Inv, TypeOK
  <2>3. got["R"] # <<>> => LastGot("R") \in 1 .. MaxSend
    BY <2>2, LastInSeq DEF LastGot
  <2>4. CASE /\ sent["I"] < MaxSend /\ sent'["I"] = sent["I"] + 1
             /\ got'["R"] = got["R"]
    BY <2>4 DEF IStream!Next, IStream!Send
  <2>5. ASSUME sent'["I"] = sent["I"],
               NEW p \in 1 .. MaxSend, p <= sent["I"],
               got["R"] # <<>> => LastGot("R") < p,
               got'["R"] = Append(got["R"], p)
        PROVE  IStream!Next
    <3>1. p \in IStream!Last + 1 .. sent["I"]
      BY SMT, <2>2, <2>3, <2>5, SessionAssumption DEF IStream!Last, LastGot
    <3> QED
      BY <2>5, <3>1 DEF IStream!Next, IStream!Deliver
  <2> QED
    BY <2>1, <2>4, <2>5, StreamStep
<1>3. Inv /\ [Next]_vars => [RStream!Next]_<<sent["R"], got["I"]>>
  <2> SUFFICES ASSUME Inv, [Next]_vars
               PROVE  [RStream!Next]_<<sent["R"], got["I"]>>
    OBVIOUS
  <2>1. "I" \in End /\ "R" \in End /\ Peer("R") = "I"
    BY DEF End, Peer
  <2>2. sent["R"] \in 0 .. MaxSend /\ got["I"] \in Seq(1 .. MaxSend)
    BY <2>1 DEF Inv, TypeOK
  <2>3. got["I"] # <<>> => LastGot("I") \in 1 .. MaxSend
    BY <2>2, LastInSeq DEF LastGot
  <2>4. CASE /\ sent["R"] < MaxSend /\ sent'["R"] = sent["R"] + 1
             /\ got'["I"] = got["I"]
    BY <2>4 DEF RStream!Next, RStream!Send
  <2>5. ASSUME sent'["R"] = sent["R"],
               NEW p \in 1 .. MaxSend, p <= sent["R"],
               got["I"] # <<>> => LastGot("I") < p,
               got'["I"] = Append(got["I"], p)
        PROVE  RStream!Next
    <3>1. p \in RStream!Last + 1 .. sent["R"]
      BY SMT, <2>2, <2>3, <2>5, SessionAssumption DEF RStream!Last, LastGot
    <3> QED
      BY <2>5, <3>1 DEF RStream!Next, RStream!Deliver
  <2> QED
    BY <2>1, <2>4, <2>5, StreamStep
<1> QED
  BY <1>1, <1>2, <1>3, PQInvariant, PTL
     DEF Spec, Streams, IStream!Spec, RStream!Spec

-------------------------------------------------------------------------------
(***************************************************************************)
(* Frames neither damaged nor torn.  Where a direction stands is an epoch, *)
(* the counter that comes next and the payloads so far.  The frames in     *)
(* flight lead from where the receiver stands, one place per frame, to     *)
(* where the sender stands (to some earlier place, once the sender has     *)
(* closed and its last frames are lost).  The places in between are not in *)
(* the state: a REKEY frame does not say which epoch it begins.            *)
(***************************************************************************)
Place == Nat \X Nat \X Nat

Sending(e) == <<sendEpoch[e], sendCounter[e], sent[e]>>
Receiving(e) ==
    <<recvEpoch[e], IF recvHave[e] THEN recvCounter[e] + 1 ELSE 0, Len(got[e])>>

\* The frame f is the one that is due at a, and b is the place after it.
Leads(a, f, b) ==
    \/ /\ f.type = "data" /\ f.intact
       /\ f.key = a[1] /\ f.epoch = a[1] /\ f.ctr = a[2] /\ f.payload = a[3] + 1
       /\ a[2] < FrameCap
       /\ b = <<a[1], a[2] + 1, a[3] + 1>>
    \/ /\ f.type = "rekey"
       /\ a[1] < EpochMax
       /\ b = <<a[1] + 1, 0, a[3]>>

\* The frames of w lead through the places of m.
Follows(m, w) ==
    /\ Len(m) = Len(w) + 1
    /\ \A i \in 1 .. Len(w) : Leads(m[i], w[i], m[i + 1])

Linked(e) ==
    \E m \in Seq(Place) :
        /\ Follows(m, wire[e])
        /\ m[1] = Receiving(Peer(e))
        /\ open[e] => m[Len(m)] = Sending(e)

InStep(e) ==
    /\ rpc[e] # "alerting"
    /\ errs[e] \subseteq {"io"}
    /\ \A i \in 1 .. Len(got[e]) : got[e][i] = i
    /\ open[Peer(e)] => Linked(e)

Undisturbed == faults = 0 => \A e \in End : InStep(e)

\* A frame more, a frame less, and the last frames lost.
LEMMA FollowsMore ==
    ASSUME NEW m \in Seq(Place), NEW w \in Seq(Frame), Follows(m, w),
           NEW f \in Frame, NEW b \in Place, Leads(m[Len(m)], f, b)
    PROVE  \E n \in Seq(Place) : /\ Follows(n, Append(w, f))
                                 /\ n[1] = m[1] /\ n[Len(n)] = b
<1> DEFINE n == Append(m, b)
           v == Append(w, f)
<1>1. /\ Len(w) \in Nat /\ Len(m) = Len(w) + 1
      /\ \A i \in 1 .. Len(w) : Leads(m[i], w[i], m[i + 1])
  BY LenProperties DEF Follows
<1>2. /\ n \in Seq(Place) /\ Len(n) = Len(m) + 1 /\ n[Len(m) + 1] = b
      /\ \A i \in 1 .. Len(m) : n[i] = m[i]
  BY SMT, AppendProperties
<1>3. /\ v \in Seq(Frame) /\ Len(v) = Len(w) + 1 /\ v[Len(w) + 1] = f
      /\ \A i \in 1 .. Len(w) : v[i] = w[i]
  BY SMT, AppendProperties
<1> HIDE DEF n, v
<1>4. ASSUME NEW i \in 1 .. Len(v) PROVE Leads(n[i], v[i], n[i + 1])
  <2>1. CASE i = Len(w) + 1
    <3>1. n[i] = m[Len(m)] /\ v[i] = f /\ n[i + 1] = b
      BY SMTT(30), <1>1, <1>2, <1>3, <2>1
    <3> QED
      BY <3>1
  <2>2. CASE i # Len(w) + 1
    <3>1. /\ i \in 1 .. Len(w)
          /\ n[i] = m[i] /\ v[i] = w[i] /\ n[i + 1] = m[i + 1]
      BY SMTT(30), <1>1, <1>2, <1>3, <2>2
    <3> QED
      BY <1>1, <3>1
  <2> QED
    BY <2>1, <2>2
<1>5. Follows(n, v) /\ n[1] = m[1] /\ n[Len(n)] = b
  BY SMT, <1>1, <1>2, <1>3, <1>4 DEF Follows
<1> QED
  BY <1>2, <1>5 DEF v

LEMMA FollowsLess ==
    ASSUME NEW m \in Seq(Place), NEW w \in Seq(Frame), Follows(m, w), w # <<>>
    PROVE  \E n \in Seq(Place) : /\ Leads(m[1], Head(w), n[1])
                                 /\ Follows(n, Tail(w))
                                 /\ n[Len(n)] = m[Len(m)]
<1> DEFINE n == Tail(m)
           v == Tail(w)
<1>1. /\ Len(w) \in Nat \ {0} /\ Len(m) = Len(w) + 1
      /\ \A i \in 1 .. Len(w) : Leads(m[i], w[i], m[i + 1])
  BY SMT, LenProperties, EmptySeq DEF Follows
<1>2. /\ n \in Seq(Place) /\ Len(n) = Len(m) - 1
      /\ \A i \in 1 .. Len(m) - 1 : n[i] = m[i + 1]
  BY SMT, <1>1, HeadTailProperties
<1>3. /\ v \in Seq(Frame) /\ Len(v) = Len(w) - 1 /\ Head(w) = w[1]
      /\ \A i \in 1 .. Len(w) - 1 : v[i] = w[i + 1]
  BY SMT, <1>1, HeadTailProperties
<1> HIDE DEF n, v
<1>4. ASSUME NEW i \in 1 .. Len(v) PROVE Leads(n[i], v[i], n[i + 1])
  <2>1. /\ i + 1 \in 1 .. Len(w)
        /\ n[i] = m[i + 1] /\ v[i] = w[i + 1] /\ n[i + 1] = m[(i + 1) + 1]
    BY SMTT(30), <1>1, <1>2, <1>3
  <2> QED
    BY <1>1, <2>1
<1>5. Follows(n, v) /\ n[Len(n)] = m[Len(m)]
  BY SMTT(30), <1>1, <1>2, <1>3, <1>4 DEF Follows
<1>6. 1 \in 1 .. Len(w) /\ n[1] = m[1 + 1]
  BY SMT, <1>1, <1>2
<1>7. Leads(m[1], Head(w), n[1])
  BY <1>1, <1>3, <1>6
<1> QED
  BY <1>2, <1>5, <1>7 DEF v

LEMMA FollowsPart ==
    ASSUME NEW m \in Seq(Place), NEW w \in Seq(Frame), Follows(m, w),
           NEW k \in 0 .. Len(w)
    PROVE  \E n \in Seq(Place) : Follows(n, SubSeq(w, 1, k)) /\ n[1] = m[1]
<1> DEFINE n == SubSeq(m, 1, k + 1)
           v == SubSeq(w, 1, k)
<1>1. /\ Len(w) \in Nat /\ Len(m) = Len(w) + 1
      /\ \A i \in 1 .. Len(w) : Leads(m[i], w[i], m[i + 1])
  BY LenProperties DEF Follows
<1>2. n \in Seq(Place) /\ v \in Seq(Frame)
  <2>1. k + 1 \in 0 .. Len(m)
    BY SMT, <1>1
  <2> QED
    BY <2>1, SeqClosed
<1>3. Len(n) = k + 1 /\ \A i \in 1 .. k + 1 : n[i] = m[i]
  BY SMT, <1>1
<1>4. Len(v) = k /\ \A i \in 1 .. k : v[i] = w[i]
  BY SMT, <1>1
<1> HIDE DEF n, v
<1>5. ASSUME NEW i \in 1 .. Len(v) PROVE Leads(n[i], v[i], n[i + 1])
  <2>1. /\ i \in 1 .. Len(w)
        /\ n[i] = m[i] /\ v[i] = w[i] /\ n[i + 1] = m[i + 1]
    BY SMT, <1>1, <1>3, <1>4
  <2> QED
    BY <1>1, <2>1
<1>6. Follows(n, v) /\ n[1] = m[1]
  BY SMT, <1>1, <1>3, <1>4, <1>5 DEF Follows
<1> QED
  BY <1>2, <1>6 DEF v

\* There are no other ends.
LEMMA TwoEnds == \A d, e \in End : d = e \/ d = Peer(e)
BY SMT DEF End, Peer

\* A direction whose frames and ends a step leaves alone stays in step.
LEMMA InStepStays ==
    ASSUME NEW e \in End, InStep(e),
           rpc'[e] # "alerting", errs'[e] \subseteq {"io"}, got'[e] = got[e],
           wire'[e] = wire[e], Receiving(Peer(e))' = Receiving(Peer(e)),
           open'[Peer(e)] => open[Peer(e)],
           open'[e] => open[e] /\ Sending(e)' = Sending(e)
    PROVE  InStep(e)'
<1>1. Linked(e) => Linked(e)'
  BY DEF Linked
<1> QED
  BY <1>1 DEF InStep

\* The frame that Recv takes next is the one that is due.
LEMMA FrameDue ==
    ASSUME Inv, NEW e \in End, InStep(Peer(e)), FrameReady(e)
    PROVE  \E n \in Seq(Place) :
              /\ Leads(Receiving(e), NextFrame(e), n[1])
              /\ Follows(n, Tail(wire[Peer(e)]))
              /\ open[Peer(e)] => n[Len(n)] = Sending(Peer(e))
<1>1. Peer(e) \in End /\ Peer(Peer(e)) = e /\ open[e] /\ wire[Peer(e)] # <<>>
  BY Ends DEF FrameReady
<1>2. PICK m \in Seq(Place) : /\ Follows(m, wire[Peer(e)])
                              /\ m[1] = Receiving(e)
                              /\ open[Peer(e)] => m[Len(m)] = Sending(Peer(e))
  BY <1>1 DEF InStep, Linked
<1>3. wire[Peer(e)] \in Seq(Frame)
  BY <1>1 DEF Inv, TypeOK
<1>4. PICK n \in Seq(Place) : /\ Leads(m[1], Head(wire[Peer(e)]), n[1])
                              /\ Follows(n, Tail(wire[Peer(e)]))
                              /\ n[Len(n)] = m[Len(m)]
  BY <1>1, <1>2, <1>3, FollowsLess
<1> QED
  BY <1>2, <1>4 DEF NextFrame

\* A frame that is due passes every test of Recv.
LEMMA NotRefused ==
    ASSUME Inv, NEW e \in End, FrameReady(e), NEW b,
           Leads(Receiving(e), NextFrame(e), b)
    PROVE  /\ ~RecvNonceViolation(e) /\ ~RecvAuthFailed(e)
           /\ ~RecvEpochExhausted(e) /\ ~RecvAlert(e)
<1> DEFINE f == NextFrame(e)
<1>1. /\ recvEpoch[e] \in Nat /\ recvCounter[e] \in Nat
      /\ recvKey[e] = recvEpoch[e]
  BY SMT DEF Inv, TypeOK, Closing, LiveKeys, FrameReady
<1>2. CASE f.type = "data"
  <2>1. /\ f.intact /\ f.key = recvEpoch[e] /\ f.epoch = recvEpoch[e]
        /\ f.ctr = (IF recvHave[e] THEN recvCounter[e] + 1 ELSE 0)
        /\ f.ctr < FrameCap
    BY SMT, <1>2 DEF Leads, Receiving
  <2>2. ~StaleCounter(e, f) /\ ~(f.ctr >= FrameCap)
    BY SMT, <1>1, <2>1, SessionAssumption DEF StaleCounter
  <2>3. ~NonceViolation(e, f) /\ Opens(e, f)
    BY <1>1, <2>1, <2>2 DEF NonceViolation, Opens
  <2> QED
    BY ZenonT(60), <1>2, <2>3
       DEF RecvNonceViolation, RecvAuthFailed, RecvEpochExhausted, RecvAlert
<1>3. CASE f.type = "rekey"
  <2>1. EpochLeft(recvEpoch[e])
    BY SMTT(30), <1>3 DEF Leads, Receiving, EpochLeft
  <2> QED
    BY <1>3, <2>1
       DEF RecvNonceViolation, RecvAuthFailed, RecvEpochExhausted, RecvAlert
<1> QED
  BY <1>2, <1>3 DEF Leads

\* Send and Rekey write the frame that is due at their end.
LEMMA WritesInStep ==
    ASSUME Inv, NEW t \in Sender, \A e \in End : InStep(e),
           SealWrite(t) \/ RekeyWrite(t)
    PROVE  \A e \in End : InStep(e)'
<1> USE SessionAssumption, Ends
<1> DEFINE e == EndOf(t)
<1>1. PICK f \in Frame, b \in Place :
         /\ wire' = [wire EXCEPT ![e] = Append(wire[e], f)]
         /\ Leads(Sending(e), f, b)
         /\ Sending(e)' = b
         /\ Sending(Peer(e))' = Sending(Peer(e))
  <2>1. /\ sendEpoch \in [End -> 0 .. EpochMax] /\ sent \in [End -> 0 .. MaxSend]
        /\ sendCounter \in [End -> 0 .. FrameCap - 1]
    BY DEF Inv, TypeOK
  <2>2. CASE SealWrite(t)
    <3> DEFINE b == <<sendEpoch[e], sendCounter[e] + 1, sent[e] + 1>>
    <3>1. /\ Data(e) \in Frame /\ sendKey[e] = sendEpoch[e]
      BY <2>2, DataTyped DEF SealWrite, Inv, Frame
    <3>2. /\ wire' = [wire EXCEPT ![e] = Append(wire[e], Data(e))]
          /\ sent' = [sent EXCEPT ![e] = sent[e] + 1]
          /\ sendCounter' = [sendCounter EXCEPT ![e] = sendCounter[e] + 1]
          /\ sendEpoch' = sendEpoch
      BY <2>2 DEF SealWrite, Written
    <3>3. Leads(Sending(e), Data(e), b)
      BY SMT, <2>1, <3>1 DEF Leads, Sending, Data
    <3>4. b \in Place
      BY SMT, <2>1 DEF Place
    <3>5. Sending(e)' = b /\ Sending(Peer(e))' = Sending(Peer(e))
      BY <2>1, <3>2 DEF Sending
    <3> QED
      BY <3>1, <3>2, <3>3, <3>4, <3>5
  <2>3. CASE RekeyWrite(t)
    <3> DEFINE b == <<sendEpoch[e] + 1, 0, sent[e]>>
    <3>1. Rekey \in Frame /\ Rekey.type = "rekey" /\ sendEpoch[e] < EpochMax
      BY <2>3, FrameTypes DEF RekeyWrite, EpochLeft
    <3>2. /\ wire' = [wire EXCEPT ![e] = Append(wire[e], Rekey)]
          /\ sendEpoch' = [sendEpoch EXCEPT ![e] = sendEpoch[e] + 1]
          /\ sendCounter' = [sendCounter EXCEPT ![e] = 0]
          /\ sent' = sent
      BY <2>3 DEF RekeyWrite, Written, histVars
    <3>3. Leads(Sending(e), Rekey, b)
      BY SMT, <3>1 DEF Leads, Sending
    <3>4. b \in Place
      BY SMT, <2>1 DEF Place
    <3>5. Sending(e)' = b /\ Sending(Peer(e))' = Sending(Peer(e))
      BY <2>1, <3>2 DEF Sending
    <3> QED
      BY <3>1, <3>2, <3>3, <3>4, <3>5
  <2> QED
    BY <2>2, <2>3
<1>2. /\ open[e] /\ e \in End /\ DOMAIN wire = End /\ wire[e] \in Seq(Frame)
      /\ UNCHANGED <<open, recvCounter, recvHave, recvEpoch, rpc, got, errs>>
  BY DEF SealWrite, RekeyWrite, CanWrite, recvVars, histVars, Inv, TypeOK
<1>3. wire'[e] = Append(wire[e], f) /\ wire'[Peer(e)] = wire[Peer(e)]
  BY <1>1, <1>2
<1>4. \A d \in End : Receiving(d)' = Receiving(d)
  BY <1>2 DEF Receiving
<1> HIDE DEF e
<1>5. InStep(Peer(e))'
  <2>1. Peer(e) \in End /\ Peer(Peer(e)) = e
    BY <1>2
  <2>2. InStep(Peer(e)) /\ rpc[Peer(e)] # "alerting" /\ errs[Peer(e)] \subseteq {"io"}
    BY <2>1 DEF InStep
  <2> QED
    BY <1>1, <1>2, <1>3, <1>4, <2>1, <2>2, InStepStays
<1>6. ASSUME Linked(e) PROVE Linked(e)'
  <2>1. PICK m \in Seq(Place) : /\ Follows(m, wire[e])
                                /\ m[1] = Receiving(Peer(e))
                                /\ m[Len(m)] = Sending(e)
    BY <1>2, <1>6 DEF Linked
  <2>2. Leads(m[Len(m)], f, b) /\ wire[e] \in Seq(Frame)
    BY <1>1, <1>2, <2>1
  <2>3. PICK n \in Seq(Place) : /\ Follows(n, Append(wire[e], f))
                                /\ n[1] = m[1] /\ n[Len(n)] = b
    BY SMT, <2>1, <2>2, FollowsMore
  <2> QED
    BY <1>1, <1>2, <1>3, <1>4, <2>1, <2>3 DEF Linked
<1>7. InStep(e)'
  <2>1. InStep(e)
    BY <1>2
  <2> QED
    BY <1>2, <1>6, <2>1 DEF InStep
<1> QED
  BY SMTT(30), <1>2, <1>5, <1>7, TwoEnds

\* Recv moves on by the frame it takes.
LEMMA ReadsInStep ==
    ASSUME Inv, NEW e \in End, \A d \in End : InStep(d),
           RecvData(e) \/ RecvRekey(e)
    PROVE  \A d \in End : InStep(d)'
<1>0. /\ Peer(e) \in End /\ Peer(e) # e /\ Peer(Peer(e)) = e
      /\ InStep(e) /\ InStep(Peer(e)) /\ FrameReady(e)
  BY Ends DEF RecvData, RecvRekey
<1> DEFINE f == NextFrame(e)
<1>1. PICK n \in Seq(Place) : /\ Leads(Receiving(e), f, n[1])
                              /\ Follows(n, Tail(wire[Peer(e)]))
                              /\ open[Peer(e)] => n[Len(n)] = Sending(Peer(e))
  BY <1>0, FrameDue
<1>2. /\ recvEpoch \in [End -> 0 .. EpochMax] /\ recvCounter \in [End -> 0 .. FrameCap - 1]
      /\ recvHave \in [End -> BOOLEAN] /\ got \in [End -> Seq(1 .. MaxSend)]
      /\ rpc \in [End -> {"idle", "reading", "alerting"}] /\ DOMAIN wire = End
  BY DEF Inv, TypeOK
<1>3. /\ wire' = [wire EXCEPT ![Peer(e)] = Tail(wire[Peer(e)])]
      /\ UNCHANGED <<open, errs, sendEpoch, sendCounter, sent>>
  BY DEF RecvData, RecvRekey, Consume, sendVars, histVars
<1>4. wire'[Peer(e)] = Tail(wire[Peer(e)]) /\ wire'[e] = wire[e]
  BY <1>0, <1>2, <1>3
<1>5. \A d \in End : Sending(d)' = Sending(d) /\ rpc'[d] # "alerting"
  <2>1. \A d \in End : rpc[d] # "alerting"
    BY DEF InStep
  <2>2. rpc' = rpc \/ rpc' = [rpc EXCEPT ![e] = "idle"]
    BY DEF RecvData, RecvRekey, RecvReturns
  <2>3. \A d \in End : rpc'[d] # "alerting"
    BY <1>2, <2>1, <2>2
  <2> QED
    BY <1>3, <2>3 DEF Sending
<1>6. /\ Receiving(e)' = n[1]
      /\ Receiving(Peer(e))' = Receiving(Peer(e))
      /\ got'[Peer(e)] = got[Peer(e)]
      /\ \A i \in 1 .. Len(got'[e]) : got'[e][i] = i
  <2>0. \A i \in 1 .. Len(got[e]) : got[e][i] = i
    BY <1>0 DEF InStep
  <2>1. CASE RecvData(e)
    <3>1. /\ f.type = "data"
          /\ recvCounter' = [recvCounter EXCEPT ![e] = f.ctr]
          /\ recvHave' = [recvHave EXCEPT ![e] = TRUE]
          /\ got' = [got EXCEPT ![e] = Append(got[e], f.payload)]
          /\ recvEpoch' = recvEpoch
      BY ZenonT(60), <2>1 DEF RecvData
    <3>2. /\ n[1] = <<recvEpoch[e], f.ctr + 1, Len(got[e]) + 1>>
          /\ f.payload = Len(got[e]) + 1
      BY SMT, <1>1, <3>1 DEF Leads, Receiving
    <3>3. f.payload \in 1 .. MaxSend
      BY <2>1, AcceptedFrame DEF DataFrame
    <3> HIDE DEF f
    <3>4. /\ got'[e] = Append(got[e], f.payload) /\ got'[Peer(e)] = got[Peer(e)]
          /\ recvHave'[e] = TRUE /\ recvCounter'[e] = f.ctr
      BY <1>0, <1>2, <3>1
    <3>5. /\ Len(got'[e]) = Len(got[e]) + 1
          /\ \A i \in 1 .. Len(got'[e]) : got'[e][i] = i
      BY SMTT(30), <1>2, <2>0, <3>2, <3>3, <3>4, AppendProperties
    <3>6. Receiving(e)' = n[1]
      BY <3>1, <3>2, <3>4, <3>5 DEF Receiving
    <3>7. ASSUME NEW d \in End, d # e PROVE Receiving(d)' = Receiving(d)
      <4>1. /\ got'[d] = got[d] /\ recvHave'[d] = recvHave[d]
            /\ recvCounter'[d] = recvCounter[d] /\ recvEpoch'[d] = recvEpoch[d]
        BY <1>2, <3>1, <3>7
      <4> QED
        BY <4>1 DEF Receiving
    <3> QED
      BY <1>0, <3>4, <3>5, <3>6, <3>7
  <2>2. CASE RecvRekey(e)
    <3>1. /\ f.type = "rekey"
          /\ recvEpoch' = [recvEpoch EXCEPT ![e] = recvEpoch[e] + 1]
          /\ recvCounter' = [recvCounter EXCEPT ![e] = 0]
          /\ recvHave' = [recvHave EXCEPT ![e] = FALSE]
          /\ got' = got
      BY ZenonT(60), <2>2 DEF RecvRekey, HaveAfterRekey, histVars
    <3>2. n[1] = <<recvEpoch[e] + 1, 0, Len(got[e])>>
      BY SMT, <1>1, <3>1 DEF Leads, Receiving
    <3>3. recvEpoch'[e] = recvEpoch[e] + 1 /\ recvHave'[e] = FALSE
      BY <1>0, <1>2, <3>1
    <3>4. Receiving(e)' = n[1]
      BY <3>1, <3>2, <3>3 DEF Receiving
    <3>5. ASSUME NEW d \in End, d # e PROVE Receiving(d)' = Receiving(d)
      <4>1. /\ got'[d] = got[d] /\ recvHave'[d] = recvHave[d]
            /\ recvCounter'[d] = recvCounter[d] /\ recvEpoch'[d] = recvEpoch[d]
        BY <1>2, <3>1, <3>5
      <4> QED
        BY <4>1 DEF Receiving
    <3> QED
      BY <1>0, <2>0, <3>1, <3>4, <3>5
  <2> QED
    BY <2>1, <2>2
<1>7. InStep(Peer(e))'
  <2>1. Linked(Peer(e))'
    BY <1>0, <1>1, <1>3, <1>4, <1>5, <1>6 DEF Linked
  <2> QED
    BY <1>0, <1>3, <1>5, <1>6, <2>1 DEF InStep
<1>8. InStep(e)'
  <2>1. Linked(e) => Linked(e)'
    BY <1>3, <1>4, <1>5, <1>6 DEF Linked
  <2> QED
    BY <1>0, <1>3, <1>5, <1>6, <2>1 DEF InStep
<1> QED
  BY SMT, <1>7, <1>8, TwoEnds

\* Close drops frames from the end of its own direction; nobody reads the
\* other one any more.
LEMMA CloseInStep ==
    ASSUME Inv, NEW e \in End, \A d \in End : InStep(d), CloseConn(e)
    PROVE  \A d \in End : InStep(d)'
<1>0. /\ Peer(e) \in End /\ Peer(e) # e /\ Peer(Peer(e)) = e
      /\ InStep(e) /\ InStep(Peer(e))
  BY Ends
<1>1. PICK k \in 0 .. Len(wire[e]) :
         wire' = [wire EXCEPT ![e] = SubSeq(wire[e], 1, k), ![Peer(e)] = <<>>]
  BY DEF CloseConn
<1>2. /\ open' = [open EXCEPT ![e] = FALSE] /\ UNCHANGED <<rpc, errs, got>>
      /\ UNCHANGED <<recvEpoch, recvCounter, recvHave>>
  BY DEF CloseConn, recvVars, histVars
<1>3. /\ DOMAIN wire = End /\ DOMAIN open = End /\ wire[e] \in Seq(Frame)
  BY DEF Inv, TypeOK
<1>4. /\ wire'[e] = SubSeq(wire[e], 1, k)
      /\ ~open'[e] /\ open'[Peer(e)] = open[Peer(e)]
  BY <1>0, <1>1, <1>2, <1>3
<1>5. ASSUME Linked(e) PROVE Linked(e)'
  <2>1. PICK m \in Seq(Place) : Follows(m, wire[e]) /\ m[1] = Receiving(Peer(e))
    BY <1>5 DEF Linked
  <2>2. PICK n \in Seq(Place) : Follows(n, SubSeq(wire[e], 1, k)) /\ n[1] = m[1]
    BY <1>3, <2>1, FollowsPart
  <2>3. Receiving(Peer(e))' = Receiving(Peer(e))
    BY <1>2 DEF Receiving
  <2> QED
    BY <1>4, <2>1, <2>2, <2>3 DEF Linked
<1>6. InStep(e)'
  BY <1>0, <1>2, <1>4, <1>5 DEF InStep
<1>7. InStep(Peer(e))'
  BY <1>0, <1>2, <1>4 DEF InStep
<1> QED
  BY SMT, <1>6, <1>7, TwoEnds

\* While nothing is damaged or torn, every step leaves both directions in step.
LEMMA UndisturbedStep == Inv /\ Undisturbed /\ [Next]_vars => Undisturbed'
<1> SUFFICES ASSUME Inv, Undisturbed, [Next]_vars, faults' = 0
             PROVE  \A e \in End : InStep(e)'
  BY DEF Undisturbed
<1>0. \A e \in End : ~(Lose(e) \/ Repeat(e) \/ Exchange(e) \/ Alter(e))
  <2>1. faults + 1 # 0
    BY SMT, SessionAssumption DEF Inv, TypeOK
  <2>2. \A e \in End : \A s : ~Damage(e, s)
    BY ZenonT(60), <2>1 DEF Damage
  <2> QED
    BY <2>2 DEF Lose, Repeat, Exchange, Alter
<1>D. \A t \in Sender : SendDeadline(t) => UNCHANGED <<wire, faults>>
  <2>1. faults + 1 # 0
    BY SMT, SessionAssumption DEF Inv, TypeOK
  <2> QED
    BY <2>1 DEF SendDeadline
<1>1. faults = 0
  BY ZenonT(60), <1>0, <1>D DEF Next, SenderStep, ReceiverStep, CloserStep, vars, histVars,
         SendBegin, RekeyBegin, RekeyWrite, RekeyFail, SealWrite, SealFail,
         RecvBegin, RecvData, RecvRekey, RecvNonceViolation, RecvAuthFailed,
         RecvEpochExhausted, RecvAlert, RecvIOError, AlertWrite, AlertDeadline,
         Misread, RecvRejects,
         RecvFails, CloseBegin, CloseConn, CloseSend, CloseRecv
<1>2. \A e \in End : InStep(e)
  BY <1>1 DEF Undisturbed
<1>3. \A e \in End : rpc[e] # "alerting" /\ errs[e] \subseteq {"io"}
  BY <1>2 DEF InStep
<1>4. ASSUME UNCHANGED <<wire, open, sendCounter, sendEpoch, sent>>,
             UNCHANGED <<recvCounter, recvHave, recvEpoch, got>>,
             \A e \in End : rpc'[e] # "alerting" /\ errs'[e] \subseteq {"io"}
      PROVE  \A e \in End : InStep(e)'
  <2>1. \A e \in End : Sending(e)' = Sending(e) /\ Receiving(e)' = Receiving(e)
    BY <1>4 DEF Sending, Receiving
  <2> QED
    BY <1>2, <1>4, <2>1, Ends, InStepStays
<1>5. ASSUME NEW e \in End, FrameReady(e)
      PROVE  /\ ~RecvNonceViolation(e) /\ ~RecvAuthFailed(e)
             /\ ~RecvEpochExhausted(e) /\ ~RecvAlert(e)
  BY <1>2, <1>5, Ends, FrameDue, NotRefused
<1>6. ASSUME NEW t \in Sender, \/ SendBegin(t) \/ RekeyBegin(t) \/ SenderStep(t)
                              \/ SendDeadline(t)
      PROVE  \A e \in End : InStep(e)'
  <2>1. CASE SealWrite(t) \/ RekeyWrite(t)
    BY <1>2, <2>1, WritesInStep
  <2>2. CASE SendBegin(t) \/ RekeyBegin(t) \/ RekeyFail(t) \/ SealFail(t)
    BY <1>3, <1>4, <2>2
       DEF SendBegin, RekeyBegin, RekeyFail, SealFail, sendVars, recvVars, histVars
  <2>3. CASE SendDeadline(t)
    BY <1>3, <1>4, <1>D, <2>3 DEF SendDeadline, sendVars, recvVars, histVars
  <2> QED
    BY <1>6, <2>1, <2>2, <2>3 DEF SenderStep
<1>7. ASSUME NEW e \in End, \/ RecvBegin(e) \/ ReceiverStep(e)
                            \/ AlertDeadline(e) \/ Misread(e)
      PROVE  \A d \in End : InStep(d)'
  <2>0. /\ rpc \in [End -> {"idle", "reading", "alerting"}]
        /\ errs \in [End -> SUBSET {"nonce_violation", "auth_failed",
                                    "epoch_exhausted", "alert", "io"}]
    BY DEF Inv, TypeOK
  <2>1. CASE RecvData(e) \/ RecvRekey(e)
    BY <1>2, <2>1, ReadsInStep
  <2>2. CASE RecvBegin(e)
    <3>1. \A d \in End : rpc'[d] # "alerting"
      BY <1>3, <2>0, <2>2 DEF RecvBegin
    <3> QED
      BY <1>3, <1>4, <2>2, <3>1 DEF RecvBegin, sendVars, recvVars, histVars
  <2>3. CASE RecvIOError(e)
    <3>1. /\ rpc' = [rpc EXCEPT ![e] = "idle"]
          /\ errs' = [errs EXCEPT ![e] = errs[e] \cup {"io"}]
          /\ UNCHANGED <<wire, open, sendVars, recvVars, sent, got>>
      BY <2>3 DEF RecvIOError, RecvFails, RecvReturns
    <3>2. \A d \in End : rpc'[d] # "alerting" /\ errs'[d] \subseteq {"io"}
      BY <1>3, <2>0, <3>1
    <3> QED
      BY <1>4, <3>1, <3>2 DEF sendVars, recvVars
  <2>4. ~AlertWrite(e) /\ ~AlertDeadline(e)
    BY <1>3 DEF AlertWrite, AlertDeadline
  <2>6. ~Misread(e)
    <3>1. FrameReady(e) => NextFrame(e) # Torn
      BY <1>2, Ends, FrameDue, FrameTypes DEF Leads
    <3> QED
      BY <3>1 DEF Misread
  <2>5. ~RecvNonceViolation(e) /\ ~RecvAuthFailed(e)
        /\ ~RecvEpochExhausted(e) /\ ~RecvAlert(e)
    BY <1>5 DEF RecvNonceViolation, RecvAuthFailed, RecvEpochExhausted, RecvAlert
  <2> QED
    BY <1>7, <2>1, <2>2, <2>3, <2>4, <2>5, <2>6 DEF ReceiverStep
<1>8. ASSUME NEW e \in End, CloseBegin(e) \/ CloserStep(e)
      PROVE  \A d \in End : InStep(d)'
  <2>1. CASE CloseConn(e)
    BY <1>2, <2>1, CloseInStep
  <2>2. CASE CloseBegin(e) \/ CloseSend(e) \/ CloseRecv(e)
    BY <1>3, <1>4, <2>2
       DEF CloseBegin, CloseSend, CloseRecv, sendVars, recvVars, histVars
  <2> QED
    BY <1>8, <2>1, <2>2 DEF CloserStep
<1>9. CASE UNCHANGED vars
  BY <1>3, <1>4, <1>9 DEF vars, sendVars, recvVars, histVars
<1> QED
  BY <1>0, <1>6, <1>7, <1>8, <1>9 DEF Next

\* After the handshake nothing is in flight and both ends stand at 0.
LEMMA InitUndisturbed == Init => Undisturbed
<1> SUFFICES ASSUME Init, NEW e \in End PROVE InStep(e)
  BY DEF Undisturbed
<1> USE Ends
<1> DEFINE m == <<Sending(e)>>
<1>2. wire[e] = <<>> /\ Receiving(Peer(e)) = Sending(e) /\ Sending(e) \in Place
  BY SMTT(30) DEF Init, Sending, Receiving, Place
<1>3. m \in Seq(Place) /\ Follows(m, wire[e]) /\ m[1] = Sending(e) /\ m[Len(m)] = Sending(e)
  BY SMT, <1>2 DEF Follows
<1>4. Linked(e)
  BY <1>2, <1>3 DEF Linked
<1>5. got[e] = <<>> /\ errs[e] = {} /\ rpc[e] = "idle"
  BY DEF Init
<1> QED
  BY SMT, <1>4, <1>5 DEF InStep

\* While no frame is damaged or torn, Recv refuses none, however the sends,
\* the rekeys and the closes interleave: it fails only with an error of the
\* connection, and has returned exactly the first payloads sent.
THEOREM PQReliable == Spec => []UndisturbedIsReliable
<1>1. Init => Inv /\ Undisturbed
  BY InitInv, InitUndisturbed
<1>2. Undisturbed => UndisturbedIsReliable
  BY DEF Undisturbed, InStep, UndisturbedIsReliable
<1> QED
  BY <1>1, <1>2, PQInvariant, UndisturbedStep, PTL DEF Spec
================================================================================
