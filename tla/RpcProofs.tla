------------------------------- MODULE RpcProofs -------------------------------
(***************************************************************************)
(* Request/response correlation, for any calls, any number of request ids  *)
(* and any capacity of the wire: a connection implements AtMostOnceCall,   *)
(* and conn.pending holds exactly the calls in progress.                   *)
(*                                                                         *)
(* Both rest on ids that are told apart.  reqID is a uint32 that wraps, so *)
(* nothing in the code keeps an id from being given a second time.  What   *)
(* the correlation needs is IdsApart: no call in progress shares its id    *)
(* with another one, or with an answer that is still on its way.  The      *)
(* first 2^32 calls of each end satisfy it.                                *)
(***************************************************************************)
EXTENDS Rpc, TLAPS

\* Leaves go to Zenon; the ones that need arithmetic or sequences name SMT.
USE Zenon

\* The calls with an entry in conn.pending, and those that have been written.
Live(c) == phase[c] \in {"writing", "waiting", "cancelled"}
Sent(c) == phase[c] \notin {"idle", "writing"}

\* An answer to c is on its way back.
Answering(c) ==
    \E k \in 1 .. Len(wire[Peer(EndOf(c))]) :
        LET f == wire[Peer(EndOf(c))][k] IN f.flag = "resp" /\ f.call = c

IdsApart ==
    \A c, d \in Call :
        (c # d /\ EndOf(c) = EndOf(d) /\ Live(c) /\ (Live(d) \/ Answering(d)))
            => id[c] # id[d]

\* The entries of conn.pending and the calls in progress.
Entries ==
    /\ \A e \in End, i \in Id : pending[e][i] # None =>
          /\ EndOf(pending[e][i]) = e
          /\ id[pending[e][i]] = i
          /\ Live(pending[e][i])
    /\ \A c \in Call : Live(c) => pending[EndOf(c)][id[c]] = c

\* The frames on the wire.  A request is there before its handler starts.
FrameOK(e, f) ==
    /\ Sent(f.call) /\ f.id = id[f.call]
    /\ f.flag = "req" => EndOf(f.call) = e /\ ran[f.call] = "none"
    /\ f.flag = "resp" => EndOf(f.call) = Peer(e) /\ ran[f.call] = "replied"
Frames == \A e \in End : \A k \in 1 .. Len(wire[e]) : FrameOK(e, wire[e][k])

\* A request is on the wire once.
OneRequest ==
    \A e \in End : \A k, m \in 1 .. Len(wire[e]) :
        (k # m /\ wire[e][k].flag = "req" /\ wire[e][m].flag = "req")
            => wire[e][k].call # wire[e][m].call

\* A call that has not been written has not run.
NotYetRun == \A c \in Call : ~Sent(c) => ran[c] = "none"

\* The request in a receive loop's hands.
Busy(e) == loop[e] \in {"handling", "replying"}
InHand ==
    \A e \in End : Busy(e) =>
        /\ EndOf(cur[e].call) = Peer(e)
        /\ Sent(cur[e].call) /\ cur[e].id = id[cur[e].call]
        /\ ran[cur[e].call] = IF loop[e] = "handling" THEN "running" ELSE "replied"

\* What is in a call's channel is the answer to that call.
Channels == \A c \in Call : chan[c] # None => chan[c] = c /\ ran[c] = "replied"

Correlated == Entries /\ Frames /\ OneRequest /\ NotYetRun /\ InHand /\ Channels

\* The ids an end has given out, while it has given out at most all of them.
Count ==
    \A e \in End : issued[e] <= IdSpace =>
        /\ reqID[e] = IF issued[e] < IdSpace THEN issued[e] ELSE 0
        /\ \A c \in Call : (EndOf(c) = e /\ phase[c] # "idle") =>
              /\ issued[e] < IdSpace => id[c] \in 1 .. issued[e]
              /\ \A d \in Call : (EndOf(d) = e /\ phase[d] # "idle" /\ d # c)
                                    => id[d] # id[c]

-------------------------------------------------------------------------------
\* The two ends of the connection.
LEMMA Ends ==
    /\ \A e \in End : Peer(e) \in End /\ Peer(e) # e /\ Peer(Peer(e)) = e
    /\ \A c \in Call : EndOf(c) \in End
    /\ None \notin Call
  BY RpcAssumption DEF RpcAssumption, End, Peer, EndOf, Call

\* reqID++ at the width of the counter.
LEMMA ModSucc ==
    ASSUME NEW n \in Nat \ {0}, NEW x \in 0 .. n - 1
    PROVE  /\ (x + 1) % n \in 0 .. n - 1
           /\ x + 1 < n => (x + 1) % n = x + 1
           /\ x + 1 = n => (x + 1) % n = 0
  BY SMT

LEMMA NextIDs == ASSUME reqID \in [End -> Id], NEW e \in End PROVE NextID(e) \in Id
  BY ModSucc, RpcAssumption DEF RpcAssumption, NextID, Id

-------------------------------------------------------------------------------
\* The steps by what they do to the calls, the loops and the wire; what they do
\* to up, expired and inner matters to nothing below.
Begins(c) == Begin(c) /\ UNCHANGED <<wire, chan, answer, loop, cur, ran>>
Goes(c) ==
    /\ Live(c) /\ \E p \in {"waiting", "cancelled"} : phase' = [phase EXCEPT ![c] = p]
    /\ UNCHANGED <<wire, reqID, issued, pending, id, chan, answer, loop, cur, ran>>
Fails(c) ==
    /\ Live(c) /\ phase' = [phase EXCEPT ![c] = "failed"]
    /\ pending' = Forget(c)
    /\ UNCHANGED <<wire, reqID, issued, id, chan, answer, loop, cur, ran>>
Rests ==
    /\ wire' = wire \/ wire' = [e \in End |-> <<>>]
    /\ UNCHANGED <<callVars, chan, loop, cur, ran>>

LEMMA Steps ==
    ASSUME [Next]_vars
    PROVE  \/ \E c \in Call : \/ Begins(c) \/ CallWrite(c) \/ Goes(c) \/ Fails(c)
                              \/ CallReturn(c)
           \/ \E e \in End : LoopStep(e)
           \/ Rests
<1>1. \A c \in Call : CallBegin(c) => Begins(c)
  BY DEF CallBegin, Begins
<1>2. \A e \in End : HandlerCalls(e) => \E c \in Call : Begins(c)
  BY DEF HandlerCalls, Begins
<1>3. \A c \in Call : CallWriteLost(c) \/ CallCancel(c) => Goes(c)
  BY DEF CallWriteLost, CallCancel, Goes, Live
<1>4. \A c \in Call : CallWriteFails(c) \/ CallFail(c) => Fails(c)
  BY DEF CallWriteFails, CallFail, Fails, Live
<1>5. \A c \in Call : Expire(c) => Rests
  BY DEF Expire, Rests
<1>6. Drop \/ UNCHANGED vars => Rests
  BY DEF Drop, vars, callVars, Rests
<1> QED
  BY <1>1, <1>2, <1>3, <1>4, <1>5, <1>6 DEF Next, CallStep

\* A receive loop leaves the calls alone.
LEMMA LoopKeeps == ASSUME NEW e \in End, LoopStep(e) PROVE UNCHANGED callVars
<1>1. ReadResponse(e) \/ ReadRequest(e) => UNCHANGED callVars
  BY DEF ReadResponse, ReadRequest
<1>2. HandlerReplies(e) \/ HandlerSilent(e) => UNCHANGED callVars
  BY DEF HandlerReplies, HandlerSilent
<1>3. ReplyWrite(e) \/ LoopEnds(e) => UNCHANGED callVars
  BY DEF ReplyWrite, LoopEnds
<1> QED
  BY <1>1, <1>2, <1>3 DEF LoopStep

-------------------------------------------------------------------------------
\* The types, by what uses them.
PhaseType == phase \in [Call -> {"idle", "writing", "waiting", "cancelled"} \cup Done]
IdType == reqID \in [End -> Id] /\ issued \in [End -> Nat] /\ id \in [Call -> Id]
PendingType == pending \in [End -> [Id -> Call \cup {None}]]
ChanType == chan \in [Call -> Call \cup {None}] /\ answer \in [Call -> Call \cup {None}]
WireType == wire \in [End -> Seq(Frame)]
LoopType ==
    /\ loop \in [End -> {"reading", "handling", "replying", "ended"}]
    /\ cur \in [End -> Frame \cup {None}]
    /\ \A e \in End : Busy(e) => cur[e] \in Frame
RanType == ran \in [Call -> {"none", "running", "replied", "silent"}]

Types == /\ PhaseType /\ IdType /\ PendingType /\ ChanType /\ WireType /\ LoopType /\ RanType

\* A call's own steps.
LEMMA BeginTypes ==
    ASSUME Types, NEW c \in Call, Begin(c) PROVE PhaseType' /\ IdType' /\ PendingType'
<1> DEFINE e == EndOf(c)
           i == NextID(e)
<1>0. PhaseType /\ IdType /\ PendingType
  BY DEF Types
<1>1. e \in End /\ i \in Id
  BY <1>0, Ends, NextIDs DEF IdType
<1> HIDE DEF i, e
<1>2. /\ reqID' = [reqID EXCEPT ![e] = i] /\ issued' = [issued EXCEPT ![e] = @ + 1]
      /\ pending' = [pending EXCEPT ![e][i] = c] /\ id' = [id EXCEPT ![c] = i]
      /\ phase' = [phase EXCEPT ![c] = "writing"]
  BY DEF Begin, i, e
<1>3. PhaseType'
  BY <1>0, <1>2 DEF PhaseType
<1>4. IdType'
  BY SMT, <1>0, <1>1, <1>2 DEF IdType
<1>5. PendingType'
  BY <1>0, <1>1, <1>2 DEF PendingType
<1> QED
  BY <1>3, <1>4, <1>5

LEMMA ForgetTypes == ASSUME Types, NEW c \in Call, pending' = Forget(c) PROVE PendingType'
  BY Ends DEF Types, PendingType, Forget

\* The wire.
LEMMA WriteTypes ==
    ASSUME Types, NEW e \in End, NEW f \in Frame, Written(e, f) PROVE WireType'
<1>1. WireType /\ Append(wire[e], f) \in Seq(Frame)
  BY SMT DEF Types, WireType
<1> QED
  BY <1>1 DEF WireType, Written

LEMMA TakeTypes ==
    ASSUME Types, NEW e \in End, wire[Peer(e)] # <<>>, Take(e)
    PROVE  WireType' /\ Head(wire[Peer(e)]) \in Frame /\ Head(wire[Peer(e)]).call \in Call
<1>1. WireType /\ Peer(e) \in End
  BY Ends DEF Types
<1>2. Tail(wire[Peer(e)]) \in Seq(Frame) /\ Head(wire[Peer(e)]) \in Frame
  BY SMT, <1>1 DEF WireType
<1> QED
  BY <1>1, <1>2 DEF WireType, Take, Frame

\* Every variable keeps its type.
LEMMA TypeStep == ASSUME Types, [Next]_vars PROVE Types'
<1>0. PhaseType /\ IdType /\ PendingType /\ ChanType /\ WireType /\ LoopType /\ RanType
  BY DEF Types
<1>1. UNCHANGED callVars => PhaseType' /\ IdType' /\ PendingType'
  BY <1>0 DEF callVars, PhaseType, IdType, PendingType
<1>2. /\ UNCHANGED <<chan, answer>> => ChanType'
      /\ UNCHANGED wire => WireType'
      /\ UNCHANGED <<loop, cur>> => LoopType'
      /\ UNCHANGED ran => RanType'
  BY <1>0 DEF ChanType, WireType, LoopType, Busy, RanType
<1>3. ASSUME NEW c \in Call, Begins(c) PROVE Types'
  BY <1>2, <1>3, BeginTypes DEF Begins, Types
<1>4. ASSUME NEW c \in Call, NEW p \in {"waiting", "cancelled"} \cup Done,
             phase' = [phase EXCEPT ![c] = p]
      PROVE  PhaseType'
  BY <1>0, <1>4 DEF PhaseType
<1>5. ASSUME UNCHANGED <<reqID, issued, id>> PROVE IdType'
  BY <1>0, <1>5 DEF IdType
<1>6. ASSUME NEW c \in Call, CallWrite(c) PROVE Types'
  <2>1. EndOf(c) \in End /\ [flag |-> "req", id |-> id[c], call |-> c] \in Frame
    BY <1>0, Ends DEF IdType, Frame
  <2>2. WireType'
    BY <1>6, <2>1, WriteTypes DEF CallWrite
  <2>3. PendingType'
    BY <1>0, <1>6 DEF CallWrite, PendingType
  <2> QED
    BY <1>2, <1>4, <1>5, <1>6, <2>2, <2>3 DEF CallWrite, Types
<1>7. ASSUME NEW c \in Call, Goes(c) PROVE Types'
  <2>1. PendingType'
    BY <1>0, <1>7 DEF Goes, PendingType
  <2> QED
    BY <1>2, <1>4, <1>5, <1>7, <2>1 DEF Goes, Types
<1>8. ASSUME NEW c \in Call, Fails(c) PROVE Types'
  BY <1>2, <1>4, <1>5, <1>8, ForgetTypes DEF Fails, Types, Done
<1>9. ASSUME NEW c \in Call, CallReturn(c) PROVE Types'
  <2>1. ChanType'
    BY <1>0, <1>9 DEF CallReturn, ChanType
  <2> QED
    BY <1>2, <1>4, <1>5, <1>9, <2>1, ForgetTypes DEF CallReturn, Types, Done
<1>10. CASE Rests
  <2>1. <<>> \in Seq(Frame)
    BY SMT
  <2>2. WireType'
    BY <1>0, <1>10, <2>1 DEF Rests, WireType
  <2> QED
    BY <1>1, <1>2, <1>10, <2>2 DEF Rests, Types, callVars
<1>11. ASSUME NEW e \in End, ReadResponse(e) PROVE Types'
  <2>1. wire[Peer(e)] # <<>> /\ Take(e)
    BY <1>11 DEF ReadResponse, Ready
  <2>2. PICK d \in Call : d = Head(wire[Peer(e)]).call
    BY <2>1, TakeTypes
  <2>3. ChanType'
    BY <1>0, <1>11, <2>2 DEF ReadResponse, ChanType, callVars
  <2> QED
    BY <1>1, <1>2, <1>11, <2>1, <2>3, TakeTypes DEF ReadResponse, Types
<1>12. ASSUME NEW e \in End, ReadRequest(e) PROVE Types'
  <2>1. wire[Peer(e)] # <<>> /\ Take(e) /\ UNCHANGED <<callVars, chan, answer>>
    BY <1>12 DEF ReadRequest, Ready, callVars
  <2>2. PICK f \in Frame : f = Head(wire[Peer(e)]) /\ f.call \in Call
    BY <2>1, TakeTypes
  <2>3. \/ UNCHANGED <<loop, cur, ran>>
        \/ /\ loop' = [loop EXCEPT ![e] = "handling"] /\ cur' = [cur EXCEPT ![e] = f]
           /\ ran' = [ran EXCEPT ![f.call] = "running"]
    BY <1>12, <2>2 DEF ReadRequest
  <2>4. LoopType'
    BY ZenonT(60), <1>0, <2>3 DEF LoopType, Busy
  <2>5. RanType'
    BY <1>0, <2>2, <2>3 DEF RanType
  <2> QED
    BY <1>1, <1>2, <2>1, <2>4, <2>5, TakeTypes DEF Types
<1>13. ASSUME NEW e \in End, HandlerReplies(e) \/ HandlerSilent(e) PROVE Types'
  <2>1. LoopType'
    BY <1>0, <1>13 DEF HandlerReplies, HandlerSilent, HandlerFree, LoopType, Busy
  <2>2. RanType'
    BY <1>0, <1>13 DEF HandlerReplies, HandlerSilent, RanType
  <2>3. UNCHANGED <<callVars, chan, answer, wire>>
    BY <1>13 DEF HandlerReplies, HandlerSilent, callVars
  <2> QED
    BY <1>1, <1>2, <2>1, <2>2, <2>3 DEF Types
<1>14. ASSUME NEW e \in End, ReplyWrite(e) PROVE Types'
  <2>1. cur[e] \in Frame
    BY <1>0, <1>14 DEF LoopType, Busy, ReplyWrite
  <2>2. [flag |-> "resp", id |-> cur[e].id, call |-> cur[e].call] \in Frame
    BY <2>1 DEF Frame
  <2>3. WireType'
    BY <1>14, <2>2, WriteTypes DEF ReplyWrite, ReplyID
  <2>4. LoopType'
    BY <1>0, <1>14 DEF ReplyWrite, LoopType, Busy
  <2> QED
    BY <1>1, <1>2, <1>14, <2>3, <2>4 DEF ReplyWrite, Types, callVars
<1>15. ASSUME NEW e \in End, LoopEnds(e) PROVE Types'
  <2>1. LoopType'
    BY <1>0, <1>15 DEF LoopEnds, LoopType, Busy
  <2> QED
    BY <1>1, <1>2, <1>15, <2>1 DEF LoopEnds, Types, callVars
<1> QED
  BY <1>3, <1>6, <1>7, <1>8, <1>9, <1>10, <1>11, <1>12, <1>13, <1>14, <1>15, Steps
     DEF LoopStep

-------------------------------------------------------------------------------
\* A call that has been written stays written, and keeps its id from its first
\* step on.
LEMMA Stable ==
    ASSUME Types, [Next]_vars, NEW c \in Call
    PROVE  /\ Sent(c) => Sent(c)'
           /\ phase[c] # "idle" => phase'[c] # "idle" /\ id'[c] = id[c]
<1> DEFINE Goal == /\ Sent(c) => Sent(c)'
                   /\ phase[c] # "idle" => phase'[c] # "idle" /\ id'[c] = id[c]
<1>0. PhaseType /\ id \in [Call -> Id]
  BY DEF Types, IdType
<1>1. ASSUME NEW d \in Call, Begins(d) PROVE Goal
  BY <1>0, <1>1 DEF PhaseType, Begins, Begin, Sent
<1>2. ASSUME NEW d \in Call, NEW p \in {"waiting", "cancelled"} \cup Done,
             phase' = [phase EXCEPT ![d] = p], id' = id
      PROVE  Goal
  BY <1>0, <1>2 DEF PhaseType, Sent, Done
<1>3. ASSUME NEW d \in Call, CallWrite(d) \/ CallReturn(d) PROVE Goal
  BY <1>2, <1>3 DEF CallWrite, CallReturn, Done
<1>4. ASSUME NEW d \in Call, Goes(d) \/ Fails(d) PROVE Goal
  BY <1>2, <1>4 DEF Goes, Fails, Done
<1>5. ASSUME UNCHANGED callVars PROVE Goal
  BY <1>5 DEF callVars, Sent
<1> QED
  BY <1>1, <1>3, <1>4, <1>5, Steps, LoopKeeps DEF Rests

\* What the frames say stays true, while no handler moves that has a request or
\* an answer on the wire.
LEMMA FramesKept ==
    ASSUME Types, [Next]_vars, NEW e \in End, NEW f \in Frame,
           FrameOK(e, f), ran'[f.call] = ran[f.call]
    PROVE  FrameOK(e, f)'
<1>1. f.call \in Call
  BY DEF Frame
<1>2. Sent(f.call)' /\ id'[f.call] = id[f.call]
  BY <1>1, Stable DEF FrameOK, Sent
<1> QED
  BY <1>2 DEF FrameOK

\* Where the frames of the next state come from.
LEMMA OnWire ==
    ASSUME Types, NEW e \in End
    PROVE  wire[e] \in Seq(Frame) /\ \A k \in 1 .. Len(wire[e]) : wire[e][k] \in Frame
  BY SMT DEF Types, WireType

LEMMA AfterWrite ==
    ASSUME Types, NEW e \in End, NEW d \in End, NEW f \in Frame, Written(d, f),
           NEW k \in 1 .. Len(wire'[e])
    PROVE  \/ k \in 1 .. Len(wire[e]) /\ wire'[e][k] = wire[e][k]
           \/ e = d /\ k = Len(wire[e]) + 1 /\ wire'[e][k] = f
<1>1. wire \in [End -> Seq(Frame)] /\ wire[e] \in Seq(Frame)
  BY DEF Types, WireType
<1>2. wire'[e] = IF e = d THEN Append(wire[e], f) ELSE wire[e]
  BY <1>1 DEF Written
<1> QED
  BY SMT, <1>1, <1>2

LEMMA AfterTake ==
    ASSUME Types, NEW e \in End, NEW d \in End, wire[Peer(d)] # <<>>, Take(d),
           NEW k \in 1 .. Len(wire'[e])
    PROVE  \/ e # Peer(d) /\ k \in 1 .. Len(wire[e]) /\ wire'[e][k] = wire[e][k]
           \/ e = Peer(d) /\ k + 1 \in 1 .. Len(wire[e]) /\ wire'[e][k] = wire[e][k + 1]
<1>1. wire \in [End -> Seq(Frame)] /\ wire[e] \in Seq(Frame)
  BY DEF Types, WireType
<1>2. wire'[e] = IF e = Peer(d) THEN Tail(wire[e]) ELSE wire[e]
  BY <1>1, Ends DEF Take
<1> QED
  BY SMT, <1>1, <1>2

LEMMA FirstFrame ==
    ASSUME Types, NEW e \in End, wire[e] # <<>>
    PROVE  Head(wire[e]) = wire[e][1] /\ 1 \in 1 .. Len(wire[e]) /\ wire[e][1] \in Frame
  BY SMT DEF Types, WireType

\* A handler that moves has no frame on the wire.
LEMMA FramesStep ==
    ASSUME Types, Types', Correlated, [Next]_vars
    PROVE  Frames' /\ OneRequest'
<1> DEFINE Old(e, f) == FrameOK(e, f) /\ ran'[f.call] = ran[f.call]
<1>0. Frames /\ OneRequest /\ NotYetRun /\ InHand
  BY DEF Correlated
<1>1. \A e \in End : /\ wire[e] \in Seq(Frame) /\ wire'[e] \in Seq(Frame)
                     /\ \A k \in 1 .. Len(wire[e]) :
                           wire[e][k] \in Frame /\ FrameOK(e, wire[e][k])
                     /\ \A k \in 1 .. Len(wire'[e]) : wire'[e][k] \in Frame
  <2>1. wire \in [End -> Seq(Frame)] /\ wire' \in [End -> Seq(Frame)]
    BY DEF Types, WireType
  <2> QED
    BY SMT, <1>0, <2>1 DEF Frames
<1>2. ASSUME \A e \in End : \A k \in 1 .. Len(wire'[e]) :
                \E f \in Frame : f = wire'[e][k] /\ (Old(e, f) \/ FrameOK(e, f)')
      PROVE  Frames'
  <2> SUFFICES ASSUME NEW e \in End, NEW k \in 1 .. Len(wire'[e])
               PROVE  FrameOK(e, wire[e][k])'
    BY DEF Frames
  <2>1. PICK f \in Frame : f = wire'[e][k] /\ (Old(e, f) \/ FrameOK(e, f)')
    BY <1>2
  <2>2. FrameOK(e, f)'
    BY <2>1, FramesKept
  <2> QED
    BY <2>1, <2>2 DEF FrameOK, Sent
<1> HIDE DEF Old
<1>3. ASSUME wire' = wire \/ wire' = [e \in End |-> <<>>], ran' = ran
      PROVE  Frames' /\ OneRequest'
  <2>1. CASE wire' = wire
    BY SMT, <1>0, <1>1, <1>2, <1>3, <2>1 DEF OneRequest, Old
  <2>2. CASE wire' = [e \in End |-> <<>>]
    BY SMT, <1>2, <2>2 DEF OneRequest, Frames
  <2> QED
    BY <1>3, <2>1, <2>2
<1>4. ASSUME NEW c \in Call, CallWrite(c) PROVE Frames' /\ OneRequest'
  <2> DEFINE d == EndOf(c)
  <2>0. d \in End /\ [flag |-> "req", id |-> id[c], call |-> c] \in Frame
    BY Ends DEF Types, IdType, Frame
  <2>1. PICK f \in Frame : f = [flag |-> "req", id |-> id[c], call |-> c]
    BY <2>0
  <2>2. Written(d, f) /\ ran' = ran /\ id' = id
    BY <1>4, <2>1 DEF CallWrite
  <2>3. ~Sent(c) /\ Sent(c)' /\ FrameOK(d, f)'
    <3>1. ~Sent(c) /\ Sent(c)' /\ ran[c] = "none"
      BY <1>0, <1>4 DEF CallWrite, Sent, Types, PhaseType, NotYetRun
    <3> QED
      BY <2>1, <2>2, <3>1 DEF FrameOK
  <2> HIDE DEF d
  <2>4. \A e \in End : \A k \in 1 .. Len(wire'[e]) :
           \/ k \in 1 .. Len(wire[e]) /\ wire'[e][k] = wire[e][k]
           \/ e = d /\ k = Len(wire[e]) + 1 /\ wire'[e][k] = f
    BY <2>0, <2>2, AfterWrite
  <2>5. Frames'
    <3>1. \A e \in End : \A k \in 1 .. Len(wire[e]) : Old(e, wire[e][k])
      BY <1>1, <2>2 DEF Old
    <3>2. \A e \in End : \A k \in 1 .. Len(wire'[e]) :
             \E g \in Frame : g = wire'[e][k] /\ (Old(e, g) \/ FrameOK(e, g)')
      <4> TAKE e \in End
      <4> TAKE k \in 1 .. Len(wire'[e])
      <4>1. CASE k \in 1 .. Len(wire[e]) /\ wire'[e][k] = wire[e][k]
        BY <1>1, <3>1, <4>1
      <4>2. CASE e = d /\ wire'[e][k] = f
        BY <2>1, <2>3, <4>2
      <4> QED
        BY <2>4, <4>1, <4>2
    <3> QED
      BY <1>2, <3>2
  <2>6. OneRequest'
    <3>1. \A k \in 1 .. Len(wire[d]) : wire[d][k].call # c
      BY <1>1, <2>0, <2>3 DEF FrameOK
    <3> SUFFICES ASSUME NEW e \in End, NEW k \in 1 .. Len(wire'[e]),
                        NEW m \in 1 .. Len(wire'[e]), k # m,
                        wire'[e][k].flag = "req", wire'[e][m].flag = "req"
                 PROVE  wire'[e][k].call # wire'[e][m].call
      BY DEF OneRequest
    <3>2. \/ k \in 1 .. Len(wire[e]) /\ wire'[e][k] = wire[e][k]
          \/ e = d /\ k = Len(wire[e]) + 1 /\ wire'[e][k] = f
      BY <2>4
    <3>3. \/ m \in 1 .. Len(wire[e]) /\ wire'[e][m] = wire[e][m]
          \/ e = d /\ m = Len(wire[e]) + 1 /\ wire'[e][m] = f
      BY <2>4
    <3> QED
      BY SMTT(60), <1>0, <2>1, <3>1, <3>2, <3>3 DEF OneRequest
  <2> QED
    BY <2>5, <2>6
<1>5. ASSUME NEW d \in End, wire[Peer(d)] # <<>>, Take(d),
             \A e \in End : \A k \in 1 .. Len(wire[e]) :
                (e = Peer(d) => k # 1) => ran'[wire[e][k].call] = ran[wire[e][k].call]
      PROVE  Frames' /\ OneRequest'
  <2>1. \A e \in End : \A k \in 1 .. Len(wire'[e]) :
           \/ e # Peer(d) /\ k \in 1 .. Len(wire[e]) /\ wire'[e][k] = wire[e][k]
           \/ e = Peer(d) /\ k + 1 \in 1 .. Len(wire[e]) /\ wire'[e][k] = wire[e][k + 1]
    BY <1>5, AfterTake
  <2>2. \A e \in End : \A k \in 1 .. Len(wire'[e]) :
           \E f \in Frame : f = wire'[e][k] /\ Old(e, f)
    <3> TAKE e \in End
    <3> TAKE k \in 1 .. Len(wire'[e])
    <3>1. CASE e # Peer(d) /\ k \in 1 .. Len(wire[e]) /\ wire'[e][k] = wire[e][k]
      BY <1>1, <1>5, <3>1 DEF Old
    <3>2. CASE e = Peer(d) /\ k + 1 \in 1 .. Len(wire[e]) /\ wire'[e][k] = wire[e][k + 1]
      BY SMT, <1>1, <1>5, <3>2 DEF Old
    <3> QED
      BY <2>1, <3>1, <3>2
  <2>3. OneRequest'
    <3> SUFFICES ASSUME NEW e \in End, NEW k \in 1 .. Len(wire'[e]),
                        NEW m \in 1 .. Len(wire'[e]), k # m,
                        wire'[e][k].flag = "req", wire'[e][m].flag = "req"
                 PROVE  wire'[e][k].call # wire'[e][m].call
      BY DEF OneRequest
    <3>1. CASE e # Peer(d)
      BY SMTT(60), <1>0, <2>1, <3>1 DEF OneRequest
    <3>2. CASE e = Peer(d)
      <4>1. /\ k + 1 \in 1 .. Len(wire[e]) /\ wire'[e][k] = wire[e][k + 1]
            /\ m + 1 \in 1 .. Len(wire[e]) /\ wire'[e][m] = wire[e][m + 1]
        BY <2>1, <3>2
      <4>2. k + 1 # m + 1
        BY SMT
      <4> QED
        BY <1>0, <4>1, <4>2 DEF OneRequest
    <3> QED
      BY <3>1, <3>2
  <2> QED
    BY <1>2, <2>2, <2>3
<1>6. ASSUME NEW d \in End, ReadResponse(d) PROVE Frames' /\ OneRequest'
  BY <1>5, <1>6 DEF ReadResponse, Ready
<1>7. ASSUME NEW d \in End, ReadRequest(d) PROVE Frames' /\ OneRequest'
  <2>1. wire[Peer(d)] # <<>> /\ Take(d) /\ Head(wire[Peer(d)]).flag = "req"
    BY <1>7 DEF ReadRequest, Ready
  <2>2. Head(wire[Peer(d)]) = wire[Peer(d)][1] /\ 1 \in 1 .. Len(wire[Peer(d)])
    BY <2>1, FirstFrame, Ends
  <2> DEFINE g == wire[Peer(d)][1].call
  <2>3. g \in Call /\ ran[g] = "none" /\ EndOf(g) = Peer(d)
    BY SMT, <1>1, <2>1, <2>2, Ends DEF FrameOK, Frame
  <2>4. ran' = ran \/ ran' = [ran EXCEPT ![g] = "running"]
    BY <1>7, <2>2 DEF ReadRequest
  <2> HIDE DEF g
  <2>5. ASSUME NEW e \in End, NEW k \in 1 .. Len(wire[e]), e = Peer(d) => k # 1
        PROVE  wire[e][k].call # g /\ wire[e][k].call \in Call
    <3>1. wire[e][k] \in Frame /\ FrameOK(e, wire[e][k])
      BY <1>1
    <3>2. wire[e][k].flag \in {"req", "resp"} /\ wire[e][k].call \in Call
      BY <3>1 DEF Frame
    <3>3. CASE wire[e][k].flag = "resp"
      BY <2>3, <3>1, <3>2, <3>3 DEF FrameOK
    <3>4. CASE wire[e][k].flag = "req" /\ e # Peer(d)
      BY <2>3, <3>1, <3>2, <3>4 DEF FrameOK
    <3>5. CASE wire[e][k].flag = "req" /\ e = Peer(d)
      BY <1>0, <2>1, <2>2, <2>5, <3>2, <3>5 DEF OneRequest, g
    <3> QED
      BY <3>2, <3>3, <3>4, <3>5
  <2>6. \A e \in End : \A k \in 1 .. Len(wire[e]) :
           (e = Peer(d) => k # 1) => ran'[wire[e][k].call] = ran[wire[e][k].call]
    BY ZenonT(60), <2>3, <2>4, <2>5 DEF Types, RanType
  <2> QED
    BY <1>5, <2>1, <2>6
<1>8. ASSUME NEW d \in End, HandlerReplies(d) \/ HandlerSilent(d)
      PROVE  Frames' /\ OneRequest'
  <2> DEFINE g == cur[d].call
  <2>1. wire' = wire /\ loop[d] = "handling"
    BY <1>8 DEF HandlerReplies, HandlerSilent, HandlerFree
  <2>2. ran[g] = "running"
    BY <1>0, <2>1 DEF InHand, Busy
  <2>3. \E how \in {"replied", "silent"} : ran' = [ran EXCEPT ![g] = how]
    BY <1>8 DEF HandlerReplies, HandlerSilent
  <2> HIDE DEF g
  <2>4. ASSUME NEW e \in End, NEW k \in 1 .. Len(wire[e])
        PROVE  wire[e][k].call # g /\ wire[e][k].call \in Call
    BY <1>1, <2>2 DEF FrameOK, Frame
  <2>5. \A e \in End : \A k \in 1 .. Len(wire[e]) : Old(e, wire[e][k])
    BY <1>1, <2>3, <2>4 DEF Old, Types, RanType
  <2> QED
    BY SMT, <1>0, <1>1, <1>2, <2>1, <2>5 DEF OneRequest
<1>9. ASSUME NEW d \in End, ReplyWrite(d) PROVE Frames' /\ OneRequest'
  <2> DEFINE f == [flag |-> "resp", id |-> cur[d].id, call |-> cur[d].call]
  <2>1. /\ cur[d] \in Frame /\ ran[cur[d].call] = "replied"
        /\ EndOf(cur[d].call) = Peer(d) /\ Sent(cur[d].call)
        /\ cur[d].id = id[cur[d].call]
    BY <1>0, <1>9 DEF InHand, Busy, ReplyWrite, Types, LoopType
  <2>2. f \in Frame /\ f.flag = "resp" /\ FrameOK(d, f)
    BY <2>1 DEF Frame, FrameOK
  <2>3. Written(d, f) /\ ran' = ran
    BY <1>9 DEF ReplyWrite, ReplyID
  <2> HIDE DEF f
  <2>4. \A e \in End : \A k \in 1 .. Len(wire'[e]) :
           \/ k \in 1 .. Len(wire[e]) /\ wire'[e][k] = wire[e][k]
           \/ e = d /\ k = Len(wire[e]) + 1 /\ wire'[e][k] = f
    BY <2>2, <2>3, AfterWrite
  <2>5. Frames'
    <3>1. \A e \in End : \A k \in 1 .. Len(wire[e]) : Old(e, wire[e][k])
      BY <1>1, <2>3 DEF Old
    <3>2. Old(d, f)
      BY <2>2, <2>3 DEF Old
    <3> QED
      BY ZenonT(60), <1>1, <1>2, <2>2, <2>4, <3>1, <3>2
  <2>6. OneRequest'
    <3> SUFFICES ASSUME NEW e \in End, NEW k \in 1 .. Len(wire'[e]),
                        NEW m \in 1 .. Len(wire'[e]), k # m,
                        wire'[e][k].flag = "req", wire'[e][m].flag = "req"
                 PROVE  wire'[e][k].call # wire'[e][m].call
      BY DEF OneRequest
    <3>1. /\ k \in 1 .. Len(wire[e]) /\ wire'[e][k] = wire[e][k]
          /\ m \in 1 .. Len(wire[e]) /\ wire'[e][m] = wire[e][m]
      BY <1>1, <2>2, <2>4
    <3> QED
      BY <1>0, <3>1 DEF OneRequest
  <2> QED
    BY <2>5, <2>6
<1>10. ASSUME NEW c \in Call, Begins(c) \/ Goes(c) \/ Fails(c) \/ CallReturn(c)
       PROVE  wire' = wire /\ ran' = ran
  BY <1>10 DEF Begins, Goes, Fails, CallReturn
<1>11. ASSUME NEW e \in End, LoopEnds(e) PROVE wire' = wire /\ ran' = ran
  BY <1>11 DEF LoopEnds
<1>12. CASE Rests
  BY <1>3, <1>12 DEF Rests
<1> QED
  BY <1>3, <1>4, <1>6, <1>7, <1>8, <1>9, <1>10, <1>11, <1>12, Steps DEF LoopStep

\* Handlers run for calls that have been written, and only a loop's own handler
\* moves.
LEMMA RanStep ==
    ASSUME Types, Correlated, [Next]_vars, NEW c \in Call, ran'[c] # ran[c]
    PROVE  /\ Sent(c)
           /\ \E e \in End :
                 /\ EndOf(c) = Peer(e)
                 /\ \/ ran[c] = "none" /\ loop[e] = "reading" /\ ReadRequest(e)
                    \/ /\ ran[c] = "running" /\ loop[e] = "handling" /\ cur[e].call = c
                       /\ HandlerReplies(e) \/ HandlerSilent(e)
<1>1. ASSUME NEW e \in End, ReadRequest(e)
      PROVE  Sent(c) /\ EndOf(c) = Peer(e) /\ ran[c] = "none" /\ loop[e] = "reading"
  <2>1. wire[Peer(e)] # <<>> /\ Head(wire[Peer(e)]).flag = "req" /\ loop[e] = "reading"
    BY <1>1 DEF ReadRequest, Ready
  <2>2. /\ Head(wire[Peer(e)]) = wire[Peer(e)][1] /\ 1 \in 1 .. Len(wire[Peer(e)])
        /\ wire[Peer(e)][1].call \in Call
    BY <2>1, FirstFrame, Ends DEF Frame
  <2>3. FrameOK(Peer(e), wire[Peer(e)][1])
    BY <2>2, Ends DEF Correlated, Frames
  <2>4. ran' = ran \/ ran' = [ran EXCEPT ![Head(wire[Peer(e)]).call] = "running"]
    BY <1>1 DEF ReadRequest
  <2>5. c = wire[Peer(e)][1].call
    BY <2>2, <2>4 DEF Types, RanType
  <2> QED
    BY <2>1, <2>2, <2>3, <2>5 DEF FrameOK
<1>2. ASSUME NEW e \in End, HandlerReplies(e) \/ HandlerSilent(e)
      PROVE  /\ Sent(c) /\ EndOf(c) = Peer(e)
             /\ ran[c] = "running" /\ loop[e] = "handling" /\ cur[e].call = c
  <2>1. loop[e] = "handling" /\ cur[e].call = c
    BY <1>2 DEF HandlerReplies, HandlerSilent, HandlerFree, Types, RanType
  <2> QED
    BY <2>1 DEF Correlated, InHand, Busy
<1>3. ASSUME NEW d \in Call,
             Begins(d) \/ CallWrite(d) \/ Goes(d) \/ Fails(d) \/ CallReturn(d)
      PROVE  ran' = ran
  BY <1>3 DEF Begins, CallWrite, Goes, Fails, CallReturn
<1>4. ASSUME NEW e \in End, ReadResponse(e) \/ ReplyWrite(e) \/ LoopEnds(e)
      PROVE  ran' = ran
  BY <1>4 DEF ReadResponse, ReplyWrite, LoopEnds
<1>5. Rests => ran' = ran
  BY DEF Rests
<1> QED
  BY <1>1, <1>2, <1>3, <1>4, <1>5, Steps DEF LoopStep

LEMMA NotYetRunStep ==
    ASSUME Types, Correlated, [Next]_vars PROVE NotYetRun'
<1> SUFFICES ASSUME NEW c \in Call, ~Sent(c)' PROVE ran'[c] = "none"
  BY DEF NotYetRun
<1>1. ~Sent(c)
  BY Stable
<1> QED
  BY SMT, <1>1, RanStep DEF Correlated, NotYetRun

\* What lies in a channel is the answer to its call: the entry that the id of an
\* answer leads to is the entry of the call it answers.
LEMMA ChannelsStep ==
    ASSUME Types, Correlated, IdsApart, [Next]_vars PROVE Channels'
<1>1. ASSUME NEW c \in Call, chan'[c] = chan[c], chan[c] # None
      PROVE  chan'[c] = c /\ ran'[c] = "replied"
  BY SMT, <1>1, RanStep DEF Correlated, Channels
<1>2. ASSUME NEW e \in End, ReadResponse(e) PROVE Channels'
  <2> DEFINE f == Head(wire[Peer(e)])
             a == pending[e][f.id]
  <2>1. /\ f \in Frame /\ f.flag = "resp" /\ f.call \in Call /\ f.id \in Id
        /\ FrameOK(Peer(e), f)
        /\ 1 \in 1 .. Len(wire[Peer(e)]) /\ f = wire[Peer(e)][1]
    <3>1. wire[Peer(e)] # <<>> /\ f.flag = "resp"
      BY <1>2 DEF ReadResponse, Ready
    <3>2. f \in Frame /\ 1 \in 1 .. Len(wire[Peer(e)]) /\ f = wire[Peer(e)][1]
      BY <3>1, FirstFrame, Ends
    <3>3. FrameOK(Peer(e), f)
      BY <3>2, Ends DEF Correlated, Frames
    <3> QED
      BY <3>1, <3>2, <3>3 DEF Frame
  <2>2. /\ EndOf(f.call) = e /\ f.id = id[f.call] /\ ran[f.call] = "replied"
        /\ Answering(f.call)
    BY ZenonT(60), <2>1, Ends DEF FrameOK, Answering
  <2>3. chan' = [d \in Call |-> IF d = Awaited(e, f) THEN f.call ELSE chan[d]]
        /\ ran' = ran
    BY <1>2 DEF ReadResponse
  <2> HIDE DEF f
  <2>4. Awaited(e, f) \in {a, None}
    BY DEF Awaited
  <2>5. ASSUME a \in Call PROVE a = f.call
    <3>1. EndOf(a) = e /\ id[a] = f.id /\ Live(a)
      BY SMT, <2>1, <2>5, Ends DEF Correlated, Entries
    <3> QED
      BY ZenonT(60), <2>1, <2>2, <2>5, <3>1 DEF IdsApart
  <2>6. ASSUME NEW c \in Call, chan'[c] # None PROVE chan'[c] = c /\ ran'[c] = "replied"
    <3>1. CASE c = Awaited(e, f)
      BY <2>1, <2>2, <2>3, <2>4, <2>5, <3>1, Ends
    <3>2. CASE c # Awaited(e, f)
      BY <1>1, <2>3, <2>6, <3>2
    <3> QED
      BY <3>1, <3>2
  <2> QED
    BY <2>6 DEF Channels
<1>3. ASSUME NEW d \in Call, CallReturn(d) PROVE Channels'
  <2>1. \A c \in Call : chan'[c] = chan[c] \/ chan'[c] = None
    BY <1>3 DEF CallReturn, Types, ChanType
  <2> QED
    BY <1>1, <2>1 DEF Channels
<1>4. ASSUME chan' = chan PROVE Channels'
  BY <1>1, <1>4 DEF Channels
<1>5. ASSUME NEW d \in Call, Begins(d) \/ CallWrite(d) \/ Goes(d) \/ Fails(d)
      PROVE  chan' = chan
  BY <1>5 DEF Begins, CallWrite, Goes, Fails
<1>6. ASSUME NEW e \in End,
             ReadRequest(e) \/ HandlerReplies(e) \/ HandlerSilent(e) \/ ReplyWrite(e)
               \/ LoopEnds(e)
      PROVE  chan' = chan
  BY <1>6 DEF ReadRequest, HandlerReplies, HandlerSilent, ReplyWrite, LoopEnds
<1>7. Rests => chan' = chan
  BY DEF Rests
<1> QED
  BY <1>2, <1>3, <1>4, <1>5, <1>6, <1>7, Steps DEF LoopStep

\* The request in hand is the one its loop read, until the loop is done with it.
LEMMA InHandStep ==
    ASSUME Types, Types', Correlated, [Next]_vars PROVE InHand'
<1> DEFINE Good(e) ==
      Busy(e) => /\ EndOf(cur[e].call) = Peer(e)
                 /\ Sent(cur[e].call) /\ cur[e].id = id[cur[e].call]
                 /\ ran[cur[e].call] = IF loop[e] = "handling" THEN "running" ELSE "replied"
<1>0. ASSUME NEW e \in End, HandlerReplies(e) \/ HandlerSilent(e)
      PROVE  loop'[e] \in {"replying", "reading"} /\ loop[e] = "handling"
  BY <1>0 DEF HandlerReplies, HandlerSilent, HandlerFree, Types, LoopType
<1>1. ASSUME NEW e \in End, Busy(e), cur'[e] = cur[e], loop'[e] = loop[e]
      PROVE  Good(e)'
  <2>1. PICK f \in Frame : f = cur[e]
    BY <1>1 DEF Types, LoopType
  <2>2. /\ f.call \in Call /\ EndOf(f.call) = Peer(e) /\ Sent(f.call)
        /\ f.id = id[f.call]
        /\ ran[f.call] = IF loop[e] = "handling" THEN "running" ELSE "replied"
    BY <1>1, <2>1 DEF Correlated, InHand, Frame
  <2>3. Sent(f.call)' /\ id'[f.call] = id[f.call]
    BY <2>2, Stable DEF Sent
  <2>4. ran'[f.call] = ran[f.call]
    <3>1. \A d \in End : Peer(d) = Peer(e) => d = e
      BY SMT DEF End, Peer
    <3> QED
      BY SMT, <1>0, <1>1, <2>2, <3>1, RanStep DEF Busy
  <2> QED
    BY <1>1, <2>1, <2>2, <2>3, <2>4 DEF Busy, Sent
<1>2. ASSUME NEW d \in End, ReadRequest(d), loop'[d] = "handling" PROVE Good(d)'
  <2>1. wire[Peer(d)] # <<>> /\ Head(wire[Peer(d)]).flag = "req" /\ loop[d] = "reading"
    BY <1>2 DEF ReadRequest, Ready
  <2>2. PICK f \in Frame : f = Head(wire[Peer(d)]) /\ FrameOK(Peer(d), f)
    BY <2>1, FirstFrame, Ends DEF Correlated, Frames
  <2>3. cur'[d] = f /\ ran'[f.call] = "running"
    BY SMT, <1>2, <2>1, <2>2 DEF ReadRequest, Types, LoopType, RanType, Frame
  <2>4. f.call \in Call /\ EndOf(f.call) = Peer(d) /\ Sent(f.call) /\ f.id = id[f.call]
    BY <2>1, <2>2 DEF FrameOK, Frame
  <2>5. Sent(f.call)' /\ id'[f.call] = id[f.call]
    BY <2>4, Stable DEF Sent
  <2> QED
    BY <1>2, <2>3, <2>4, <2>5 DEF Busy, Sent
<1>3. ASSUME NEW d \in End, HandlerReplies(d) PROVE Good(d)'
  <2>1. PICK f \in Frame : f = cur[d]
    BY <1>3 DEF HandlerReplies, HandlerFree, Types, LoopType, Busy
  <2>2. /\ f.call \in Call /\ EndOf(f.call) = Peer(d) /\ Sent(f.call)
        /\ f.id = id[f.call]
    BY <1>3, <2>1 DEF HandlerReplies, HandlerFree, Correlated, InHand, Busy, Frame
  <2>3. Sent(f.call)' /\ id'[f.call] = id[f.call]
    BY <2>2, Stable DEF Sent
  <2>4. cur'[d] = f /\ loop'[d] = "replying" /\ ran'[f.call] = "replied"
    BY ZenonT(60), <1>3, <2>1, <2>2 DEF HandlerReplies, Types, LoopType, RanType
  <2> QED
    BY <2>2, <2>3, <2>4 DEF Busy, Sent
<1>4. ASSUME NEW e \in End, Busy(e)' PROVE Good(e)'
  <2>1. CASE cur'[e] = cur[e] /\ loop'[e] = loop[e]
    BY <1>1, <1>4, <2>1 DEF Busy
  <2>2. ASSUME NEW d \in End, LoopStep(d), d # e
        PROVE  cur'[e] = cur[e] /\ loop'[e] = loop[e]
    BY <2>2 DEF LoopStep, ReadResponse, ReadRequest, HandlerReplies, HandlerSilent,
                ReplyWrite, LoopEnds, Types, LoopType
  <2>3. CASE LoopStep(e)
    <3>1. CASE ReadResponse(e)
      BY <2>1, <3>1 DEF ReadResponse
    <3>2. CASE ReadRequest(e)
      <4>1. UNCHANGED <<loop, cur>> \/ loop' = [loop EXCEPT ![e] = "handling"]
        BY <3>2 DEF ReadRequest
      <4>2. UNCHANGED <<loop, cur>> \/ loop'[e] = "handling"
        BY <4>1 DEF Types, LoopType
      <4> QED
        BY <1>2, <2>1, <3>2, <4>2
    <3>3. CASE HandlerReplies(e)
      BY <1>3, <3>3
    <3>4. CASE HandlerSilent(e) \/ ReplyWrite(e) \/ LoopEnds(e)
      BY <1>4, <3>4 DEF HandlerSilent, ReplyWrite, LoopEnds, Busy, Types, LoopType
    <3> QED
      BY <2>3, <3>1, <3>2, <3>3, <3>4 DEF LoopStep
  <2>4. ASSUME NEW c \in Call,
               Begins(c) \/ CallWrite(c) \/ Goes(c) \/ Fails(c) \/ CallReturn(c)
        PROVE  cur' = cur /\ loop' = loop
    BY <2>4 DEF Begins, CallWrite, Goes, Fails, CallReturn
  <2>5. Rests => cur' = cur /\ loop' = loop
    BY DEF Rests
  <2> QED
    BY <2>1, <2>2, <2>3, <2>4, <2>5, Steps
<1> QED
  BY <1>4 DEF InHand, Busy

\* Entries come and go with their calls.
LEMMA EntriesStep ==
    ASSUME Types, Types', Correlated, IdsApart', [Next]_vars PROVE Entries'
<1>0. PhaseType /\ IdType /\ PendingType /\ Entries
  BY DEF Types, Correlated
<1>1. /\ \A e \in End, i \in Id : pending[e][i] \in Call \cup {None}
      /\ \A c \in Call : id[c] \in Id /\ EndOf(c) \in End
  BY <1>0, Ends DEF IdType, PendingType
<1>2. ASSUME NEW c \in Call, Begin(c) PROVE Entries'
  <2> DEFINE e == EndOf(c)
             i == NextID(e)
  <2>1. e \in End /\ i \in Id
    BY <1>0, Ends, NextIDs DEF IdType
  <2>2. /\ phase[c] = "idle" /\ phase'[c] = "writing"
        /\ id'[c] = i
        /\ \A d \in Call : d # c => phase'[d] = phase[d] /\ id'[d] = id[d]
    BY <1>0, <1>2 DEF Begin, PhaseType, IdType
  <2>3. \A n \in End, j \in Id :
           pending'[n][j] = IF n = e /\ j = i THEN c ELSE pending[n][j]
    <3>1. pending' = [pending EXCEPT ![e][i] = c]
      BY <1>2 DEF Begin
    <3> HIDE DEF e, i
    <3> QED
      BY <1>0, <2>1, <3>1 DEF PendingType
  <2>4. ASSUME NEW n \in End, NEW j \in Id, pending'[n][j] # None
        PROVE  /\ EndOf(pending'[n][j]) = n /\ id'[pending'[n][j]] = j
               /\ phase'[pending'[n][j]] \in {"writing", "waiting", "cancelled"}
    <3>1. CASE n = e /\ j = i
      BY <2>2, <2>3, <3>1
    <3>2. CASE ~(n = e /\ j = i)
      <4>1. pending'[n][j] = pending[n][j] /\ pending[n][j] \in Call
        BY <1>1, <2>3, <2>4, <3>2
      <4> HIDE DEF e, i
      <4> QED
        BY SMT, <1>0, <2>2, <2>4, <4>1 DEF Entries, Live
    <3> QED
      BY <3>1, <3>2
  <2>5. ASSUME NEW d \in Call, phase'[d] \in {"writing", "waiting", "cancelled"}
        PROVE  pending'[EndOf(d)][id'[d]] = d
    <3>1. CASE d = c
      BY <2>1, <2>2, <2>3, <3>1
    <3>2. CASE d # c
      <4>1. id'[d] = id[d] /\ pending[EndOf(d)][id[d]] = d
        BY <1>0, <2>2, <2>5, <3>2 DEF Entries, Live
      <4>2. ~(EndOf(d) = e /\ id'[d] = i)
        BY <2>2, <2>5, <3>2 DEF IdsApart, Live
      <4> HIDE DEF e, i
      <4> QED
        BY SMT, <1>1, <2>3, <4>1, <4>2
    <3> QED
      BY <3>1, <3>2
  <2> QED
    BY <2>4, <2>5 DEF Entries, Live
<1>3. ASSUME NEW c \in Call, Live(c), phase' = [phase EXCEPT ![c] = phase'[c]],
             ~Live(c)', pending' = Forget(c), id' = id
      PROVE  Entries'
  <2>1. \A n \in End, j \in Id :
           pending'[n][j] = IF n = EndOf(c) /\ j = id[c] THEN None ELSE pending[n][j]
    BY <1>0, <1>1, <1>3 DEF Forget, PendingType
  <2>2. \A d \in Call : d # c => phase'[d] = phase[d]
    BY <1>0, <1>3 DEF PhaseType
  <2>3. pending[EndOf(c)][id[c]] = c
    BY <1>0, <1>3 DEF Entries
  <2> QED
    BY SMT, <1>0, <1>1, <1>3, <2>1, <2>2, <2>3 DEF Entries, Live
<1>4. ASSUME \A c \in Call : Live(c)' <=> Live(c), pending' = pending, id' = id
      PROVE  Entries'
  BY SMT, <1>0, <1>1, <1>4 DEF Entries
<1>5. ASSUME NEW c \in Call, Fails(c) \/ CallReturn(c) PROVE Entries'
  <2>1. PICK p \in Done : phase' = [phase EXCEPT ![c] = p]
    BY <1>5 DEF Fails, CallReturn, Done
  <2>2. Live(c) /\ phase' = [phase EXCEPT ![c] = phase'[c]] /\ ~Live(c)'
    BY <1>0, <1>5, <2>1 DEF Fails, CallReturn, Live, PhaseType, Done
  <2>3. pending' = Forget(c) /\ id' = id
    BY <1>5 DEF Fails, CallReturn
  <2> QED
    BY <1>3, <2>2, <2>3
<1>6. ASSUME NEW c \in Call, CallWrite(c) \/ Goes(c) PROVE Entries'
  <2>1. \A d \in Call : Live(d)' <=> Live(d)
    BY <1>0, <1>6 DEF CallWrite, Goes, Live, PhaseType
  <2> QED
    BY <1>4, <1>6, <2>1 DEF CallWrite, Goes
<1>7. ASSUME UNCHANGED callVars PROVE Entries'
  BY <1>4, <1>7 DEF Live, callVars
<1> QED
  BY <1>2, <1>5, <1>6, <1>7, Steps, LoopKeeps DEF Begins, Rests

-------------------------------------------------------------------------------
\* While an end has given out each id at most once, its calls are told apart.
LEMMA CountStep == ASSUME Types, Types', Count, [Next]_vars PROVE Count'
<1>0. IdType /\ PhaseType /\ IdSpace \in Nat \ {0}
  BY RpcAssumption DEF Types, RpcAssumption
<1>1. ASSUME NEW c \in Call, Begin(c) PROVE Count'
  <2> DEFINE b == EndOf(c)
             i == NextID(b)
  <2>1. /\ b \in End /\ i \in Id /\ reqID[b] \in Id /\ issued[b] \in Nat
        /\ \A e \in End : issued[e] \in Nat
    BY <1>0, Ends, NextIDs DEF IdType
  <2>2. /\ reqID'[b] = i /\ issued'[b] = issued[b] + 1 /\ id'[c] = i
        /\ phase[c] = "idle"
        /\ \A d \in Call : d # c => phase'[d] = phase[d] /\ id'[d] = id[d]
        /\ \A e \in End : e # b => reqID'[e] = reqID[e] /\ issued'[e] = issued[e]
    BY <1>0, <1>1, <2>1 DEF Begin, IdType, PhaseType
  <2>3. issued[b] < IdSpace =>
           /\ reqID[b] = issued[b]
           /\ i = IF issued[b] + 1 < IdSpace THEN issued[b] + 1 ELSE 0
    <3>1. issued[b] < IdSpace => reqID[b] = issued[b]
      BY SMT, <1>0, <2>1 DEF Count
    <3>2. /\ reqID[b] + 1 < IdSpace => i = reqID[b] + 1
          /\ reqID[b] + 1 = IdSpace => i = 0
      BY <1>0, <2>1, ModSucc DEF NextID, Id
    <3> HIDE DEF b, i
    <3> QED
      BY SMT, <1>0, <2>1, <3>1, <3>2
  <2> SUFFICES ASSUME NEW e \in End, issued'[e] <= IdSpace
               PROVE  /\ reqID'[e] = IF issued'[e] < IdSpace THEN issued'[e] ELSE 0
                      /\ \A x \in Call : (EndOf(x) = e /\ phase'[x] # "idle") =>
                            /\ issued'[e] < IdSpace => id'[x] \in 1 .. issued'[e]
                            /\ \A y \in Call :
                                  (EndOf(y) = e /\ phase'[y] # "idle" /\ y # x)
                                     => id'[y] # id'[x]
    BY DEF Count
  <2>4. CASE e # b
    BY SMT, <2>2, <2>4 DEF Count
  <2>5. CASE e = b
    <3>1. issued[b] < IdSpace
      BY SMT, <1>0, <2>1, <2>2, <2>5
    <3>2. ASSUME NEW x \in Call, EndOf(x) = b, phase[x] # "idle"
          PROVE  /\ id[x] \in 1 .. issued[b]
                 /\ \A y \in Call : (EndOf(y) = b /\ phase[y] # "idle" /\ y # x)
                                         => id[y] # id[x]
      BY SMT, <1>0, <2>1, <3>1, <3>2 DEF Count
    <3>3. ASSUME NEW x \in Call, EndOf(x) = b, phase[x] # "idle"
          PROVE  x # c /\ id[x] # i
      BY SMT, <1>0, <2>1, <2>2, <2>3, <3>1, <3>2, <3>3
    <3> HIDE DEF b, i
    <3>4. reqID'[e] = IF issued'[e] < IdSpace THEN issued'[e] ELSE 0
      BY <1>0, <2>1, <2>2, <2>3, <2>5, <3>1
    <3>5. ASSUME NEW x \in Call, EndOf(x) = e, phase'[x] # "idle", issued'[e] < IdSpace
          PROVE  id'[x] \in 1 .. issued'[e]
      BY SMT, <1>0, <2>1, <2>2, <2>3, <2>5, <3>1, <3>2, <3>5
    <3>6. ASSUME NEW x \in Call, EndOf(x) = e, phase'[x] # "idle",
                 NEW y \in Call, EndOf(y) = e, phase'[y] # "idle", y # x
          PROVE  id'[y] # id'[x]
      BY SMT, <2>2, <2>5, <3>2, <3>3, <3>6
    <3> QED
      BY <3>4, <3>5, <3>6
  <2> QED
    BY <2>4, <2>5
<1>2. ASSUME \A c \in Call : phase'[c] # "idle" <=> phase[c] # "idle",
             UNCHANGED <<reqID, issued, id>>
      PROVE  Count'
  BY <1>2 DEF Count
<1>3. ASSUME NEW c \in Call, Live(c), NEW p \in {"waiting", "cancelled"} \cup Done,
             phase' = [phase EXCEPT ![c] = p], UNCHANGED <<reqID, issued, id>>
      PROVE  Count'
  BY <1>0, <1>2, <1>3 DEF PhaseType, Live, Done
<1>4. ASSUME NEW c \in Call, CallWrite(c) \/ Goes(c) \/ Fails(c) \/ CallReturn(c)
      PROVE  Count'
  BY <1>3, <1>4 DEF CallWrite, Goes, Fails, CallReturn, Live, Done
<1>5. ASSUME UNCHANGED callVars PROVE Count'
  BY <1>2, <1>5 DEF callVars
<1> QED
  BY <1>1, <1>4, <1>5, Steps, LoopKeeps DEF Begins, Rests

LEMMA Apart == ASSUME Types, Count, FewCalls, Frames PROVE IdsApart
<1> SUFFICES ASSUME NEW c \in Call, NEW d \in Call, c # d, EndOf(c) = EndOf(d),
                    Live(c), Live(d) \/ Answering(d)
             PROVE  id[c] # id[d]
  BY DEF IdsApart
<1>1. phase[c] # "idle" /\ phase[d] # "idle"
  BY SMT, Ends DEF Live, Answering, Frames, FrameOK, Sent
<1> QED
  BY <1>1, Ends DEF Count, FewCalls

LEMMA FewBefore == ASSUME Types, FewCalls', [Next]_vars PROVE FewCalls
<1>0. issued \in [End -> Nat] /\ IdSpace \in Nat
  BY RpcAssumption DEF Types, IdType, RpcAssumption
<1>1. ASSUME NEW c \in Call, Begins(c), NEW e \in End
      PROVE  issued'[e] \in {issued[e], issued[e] + 1}
  BY <1>0, <1>1, Ends DEF Begins, Begin
<1>2. ASSUME NEW c \in Call, CallWrite(c) \/ Goes(c) \/ Fails(c) \/ CallReturn(c)
      PROVE  issued' = issued
  BY <1>2 DEF CallWrite, Goes, Fails, CallReturn
<1>3. UNCHANGED callVars => issued' = issued
  BY DEF callVars
<1>4. \A e \in End : issued'[e] \in {issued[e], issued[e] + 1}
  BY <1>1, <1>2, <1>3, Steps, LoopKeeps DEF Rests
<1> QED
  BY SMT, <1>0, <1>4 DEF FewCalls

-------------------------------------------------------------------------------
\* The variables that no step above depends on.
OtherTypes ==
    up \in BOOLEAN /\ expired \in SUBSET Call /\ inner \in [End -> Call \cup {None}]

LEMMA OtherStep == OtherTypes /\ [Next]_vars => OtherTypes'
<1> SUFFICES ASSUME OtherTypes, [Next]_vars PROVE OtherTypes'
  OBVIOUS
<1>1. ASSUME NEW c \in Call, CallStep(c) PROVE UNCHANGED <<up, expired, inner>>
  <2>1. CallWrite(c) \/ CallWriteLost(c) \/ CallWriteFails(c) => UNCHANGED <<up, expired, inner>>
    BY DEF CallWrite, CallWriteLost, CallWriteFails
  <2>2. CallReturn(c) \/ CallCancel(c) \/ CallFail(c) => UNCHANGED <<up, expired, inner>>
    BY DEF CallReturn, CallCancel, CallFail
  <2> QED
    BY <1>1, <2>1, <2>2 DEF CallStep
<1>2. ASSUME NEW c \in Call, CallBegin(c) \/ Expire(c) PROVE OtherTypes'
  BY <1>2 DEF CallBegin, Expire, OtherTypes
<1>3. ASSUME NEW e \in End, LoopStep(e)
      PROVE  UNCHANGED <<up, expired>> /\ inner' \in {inner, [inner EXCEPT ![e] = None]}
  <2>1. ReadResponse(e) \/ ReadRequest(e) => UNCHANGED <<up, expired, inner>>
    BY DEF ReadResponse, ReadRequest
  <2>2. ReplyWrite(e) \/ LoopEnds(e) => UNCHANGED <<up, expired, inner>>
    BY DEF ReplyWrite, LoopEnds
  <2>3. HandlerReplies(e) \/ HandlerSilent(e)
          => UNCHANGED <<up, expired>> /\ inner' = [inner EXCEPT ![e] = None]
    BY DEF HandlerReplies, HandlerSilent
  <2> QED
    BY <1>3, <2>1, <2>2, <2>3 DEF LoopStep
<1>4. ASSUME NEW e \in End, HandlerCalls(e) PROVE OtherTypes'
  BY <1>4 DEF HandlerCalls, OtherTypes
<1>5. Drop \/ UNCHANGED vars => UNCHANGED <<expired, inner>> /\ up' \in {up, FALSE}
  BY DEF Drop, vars
<1> QED
  BY <1>1, <1>2, <1>3, <1>4, <1>5 DEF Next, OtherTypes

Inv == Types /\ OtherTypes /\ Count /\ (FewCalls => Correlated)

\* Initially nothing is on its way.
LEMMA InitInv == Init => Types /\ OtherTypes /\ Count /\ Correlated
<1> SUFFICES ASSUME Init PROVE Types /\ OtherTypes /\ Count /\ Correlated
  OBVIOUS
<1>1. 0 \in Id /\ IdSpace \in Nat \ {0} /\ <<>> \in Seq(Frame)
  BY SMT, RpcAssumption DEF RpcAssumption, Id
<1>2. PhaseType /\ IdType /\ PendingType /\ ChanType
  BY <1>1 DEF Init, PhaseType, IdType, PendingType, ChanType
<1>3. WireType /\ LoopType /\ RanType /\ OtherTypes
  BY <1>1 DEF Init, WireType, LoopType, Busy, RanType, OtherTypes
<1>4. Count
  BY <1>1 DEF Init, Count
<1>5. Entries /\ Frames /\ OneRequest
  BY SMT DEF Init, Entries, Frames, OneRequest, Live
<1>6. NotYetRun /\ InHand /\ Channels
  BY DEF Init, NotYetRun, InHand, Busy, Channels
<1> QED
  BY <1>2, <1>3, <1>4, <1>5, <1>6 DEF Types, Correlated

\* The inductive invariant: what tells ids apart is the count of the ids given out.
THEOREM Invariant == Spec => []Inv
<1>1. Init => Inv
  BY InitInv DEF Inv
<1>2. Inv /\ [Next]_vars => Inv'
  <2> SUFFICES ASSUME Inv, [Next]_vars PROVE Inv'
    OBVIOUS
  <2>1. Types /\ Types' /\ Count /\ Count' /\ OtherTypes'
    BY TypeStep, CountStep, OtherStep DEF Inv
  <2>2. ASSUME FewCalls' PROVE Correlated'
    <3>1. FewCalls /\ Correlated
      BY <2>1, <2>2, FewBefore DEF Inv
    <3>2. Frames' /\ OneRequest' /\ NotYetRun' /\ InHand'
      BY <2>1, <3>1, FramesStep, NotYetRunStep, InHandStep
    <3>3. IdsApart /\ IdsApart'
      <4>1. IdsApart
        BY <2>1, <3>1, Apart DEF Correlated
      <4>2. (Types /\ Count /\ FewCalls /\ Frames => IdsApart)'
        BY Apart, PTL
      <4> QED
        BY <2>1, <2>2, <3>2, <4>1, <4>2
    <3> QED
      BY <2>1, <3>1, <3>2, <3>3, EntriesStep, ChannelsStep DEF Correlated
  <2> QED
    BY <2>1, <2>2 DEF Inv
<1> QED
  BY <1>1, <1>2, PTL DEF Spec

\* conn.pending holds exactly the calls in progress, whatever calls, handlers,
\* cancellations and a lost connection do, while no id is given twice.
THEOREM PendingLive == Spec => []PendingIsLive
<1>1. Inv => PendingIsLive
  <2> SUFFICES ASSUME Inv, FewCalls, NEW c \in Call
               PROVE  Live(c) <=> \E i \in Id : pending[EndOf(c)][i] = c
    <3>1. Inv => TypeOK
      BY DEF Inv, Types, OtherTypes, PhaseType, IdType, PendingType, ChanType, WireType,
             LoopType, RanType, TypeOK
    <3> QED
      BY <3>1 DEF Live, PendingIsLive
  <2>1. Entries /\ EndOf(c) \in End /\ id[c] \in Id /\ c # None
    BY Ends DEF Inv, Types, IdType, Correlated
  <2> QED
    BY SMT, <2>1 DEF Entries
<1> QED
  BY <1>1, Invariant, PTL

-------------------------------------------------------------------------------
\* The outcome of a call, in either state of a step.
LEMMA OutcomeOf ==
    /\ outcomes \in [Call -> {"none", "running"} \cup Done]
    /\ \A c \in Call : /\ phase[c] = "idle" => outcomes[c] = "none"
                       /\ Live(c) => outcomes[c] = "running"
                       /\ outcomes[c] = "none" => phase[c] = "idle"
  BY DEF outcomes, Outcome, Done, Live

LEMMA OutcomeKept ==
    ASSUME \A c \in Call : phase'[c] = phase[c] \/ (Live(c) /\ Live(c)')
    PROVE  outcomes' = outcomes
  BY DEF outcomes, Outcome, Live, Done

LEMMA OutcomeMoved ==
    ASSUME PhaseType, NEW c \in Call, NEW p, phase' = [phase EXCEPT ![c] = p],
           p \in {"writing", "returned", "failed"}
    PROVE  outcomes' = [outcomes EXCEPT ![c] = IF p = "writing" THEN "running" ELSE p]
  BY DEF PhaseType, outcomes, Outcome, Done

\* Every step of the connection is a step of AtMostOnceCall, or none.
LEMMA ContractStep ==
    ASSUME Types, Correlated, [Next]_vars
    PROVE  [Contract!Next]_<<outcomes, ran, answer>>
<1> DEFINE Goal == [Contract!Next]_<<outcomes, ran, answer>>
<1>0. PhaseType
  BY DEF Types
<1>1. ASSUME NEW c \in Call, Begins(c) PROVE Goal
  <2>1. outcomes[c] = "none" /\ outcomes' = [outcomes EXCEPT ![c] = "running"]
    BY <1>0, <1>1, OutcomeMoved, OutcomeOf DEF Begins, Begin
  <2> QED
    BY <1>1, <2>1 DEF Begins, Contract!Next, Contract!Issue
<1>2. ASSUME NEW c \in Call, Fails(c) PROVE Goal
  <2>1. outcomes[c] = "running" /\ outcomes' = [outcomes EXCEPT ![c] = "failed"]
    BY <1>0, <1>2, OutcomeMoved, OutcomeOf DEF Fails
  <2> QED
    BY <1>2, <2>1 DEF Fails, Contract!Next, Contract!Fail
<1>3. ASSUME NEW c \in Call, CallReturn(c) PROVE Goal
  <2>1. outcomes[c] = "running" /\ outcomes' = [outcomes EXCEPT ![c] = "returned"]
    BY <1>0, <1>3, OutcomeMoved, OutcomeOf DEF CallReturn, Live
  <2>2. chan[c] = c /\ ran[c] = "replied"
    BY <1>3 DEF CallReturn, Correlated, Channels
  <2> QED
    BY <1>3, <2>1, <2>2 DEF CallReturn, Contract!Next, Contract!Return
<1>4. ASSUME NEW e \in End, ReadRequest(e) PROVE Goal
  <2>1. outcomes' = outcomes /\ answer' = answer
    BY <1>4, OutcomeKept DEF ReadRequest, callVars
  <2>2. wire[Peer(e)] # <<>> /\ Head(wire[Peer(e)]).flag = "req"
    BY <1>4 DEF ReadRequest, Ready
  <2>3. PICK c \in Call : c = Head(wire[Peer(e)]).call /\ Sent(c) /\ ran[c] = "none"
    BY SMT, <2>2, FirstFrame, Ends DEF Correlated, Frames, FrameOK, Frame
  <2>4. ran' = ran \/ ran' = [ran EXCEPT ![c] = "running"]
    BY <1>4, <2>3 DEF ReadRequest
  <2>5. outcomes[c] # "none"
    BY <2>3, OutcomeOf DEF Sent
  <2> QED
    BY <2>1, <2>3, <2>4, <2>5 DEF Contract!Next, Contract!Run
<1>5. ASSUME NEW e \in End, HandlerReplies(e) \/ HandlerSilent(e) PROVE Goal
  <2>1. outcomes' = outcomes /\ answer' = answer
    BY <1>5, OutcomeKept DEF HandlerReplies, HandlerSilent, callVars
  <2>2. PICK c \in Call : c = cur[e].call /\ ran[c] = "running"
    BY <1>5 DEF HandlerReplies, HandlerSilent, HandlerFree, Correlated, InHand, Busy,
                Types, LoopType, Frame
  <2>3. PICK how \in {"replied", "silent"} : ran' = [ran EXCEPT ![c] = how]
    BY <1>5, <2>2 DEF HandlerReplies, HandlerSilent
  <2> QED
    BY <2>1, <2>2, <2>3 DEF Contract!Next, Contract!Finish
<1>6. ASSUME \A c \in Call : phase'[c] = phase[c] \/ (Live(c) /\ Live(c)'),
             UNCHANGED <<ran, answer>>
      PROVE  Goal
  BY <1>6, OutcomeKept
<1>7. ASSUME NEW c \in Call, CallWrite(c) \/ Goes(c) PROVE Goal
  <2>1. \A d \in Call : phase'[d] = phase[d] \/ (Live(d) /\ Live(d)')
    BY <1>0, <1>7 DEF CallWrite, Goes, Live, PhaseType
  <2> QED
    BY <1>6, <1>7, <2>1 DEF CallWrite, Goes
<1>8. ASSUME UNCHANGED callVars, ran' = ran PROVE Goal
  BY <1>6, <1>8 DEF callVars
<1>9. ASSUME NEW e \in End, ReadResponse(e) \/ ReplyWrite(e) \/ LoopEnds(e) PROVE Goal
  BY <1>8, <1>9 DEF ReadResponse, ReplyWrite, LoopEnds
<1>10. CASE Rests
  BY <1>8, <1>10 DEF Rests
<1> QED
  BY <1>1, <1>2, <1>3, <1>4, <1>5, <1>7, <1>9, <1>10, Steps DEF LoopStep

\* A connection implements AtMostOnceCall for as long as its ids are told apart,
\* however often they wrap: a handler runs at most once per call, and a call
\* returns the answer to that very call or nothing.
THEOREM AtMostOnceApart == Spec /\ []IdsApart => AtMostOnce
<1>1. Init => Types /\ Correlated /\ Contract!Init
  <2> SUFFICES ASSUME Init PROVE Contract!Init
    BY InitInv
  <2>1. outcomes = [c \in Call |-> "none"]
    BY OutcomeOf DEF Init
  <2> QED
    BY <2>1 DEF Init, Contract!Init
<1>2. /\ Types /\ Correlated /\ IdsApart /\ IdsApart' /\ [Next]_vars
         => Types' /\ Correlated'
  BY TypeStep, FramesStep, NotYetRunStep, InHandStep, EntriesStep, ChannelsStep
     DEF Correlated
<1>3. Types /\ Correlated /\ [Next]_vars => [Contract!Next]_<<outcomes, ran, answer>>
  BY ContractStep
<1> QED
  BY <1>1, <1>2, <1>3, PTL DEF Spec, AtMostOnce, Contract!Spec

\* In particular for the first 2^32 calls of each end.
THEOREM AtMostOnceFew == Spec /\ []FewCalls => AtMostOnce
<1>1. Inv /\ FewCalls => IdsApart
  BY Apart DEF Inv, Correlated
<1> QED
  BY <1>1, Invariant, AtMostOnceApart, PTL
================================================================================
