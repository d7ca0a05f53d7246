---------------------------------- MODULE Rpc ----------------------------------
(***************************************************************************)
(* Request/response correlation over one connection of node.go: Call, and  *)
(* the correlated half of dispatchLoop and of getOrConnect's receive loop. *)
(* The two nodes "A" and "B" call each other over the same connection; a   *)
(* call is one invocation of Node.Call, with a goroutine of its own.       *)
(*                                                                         *)
(* A frame is written whole or not at all (conn.mu is held, so writers do  *)
(* not mix) and waits while the socket buffers are full.  Handlers run     *)
(* inline in the receive loop: while one runs, or its reply waits to be    *)
(* written, the loop reads nothing.  A handler may itself call the peer.   *)
(*                                                                         *)
(* reqID++ and the entry in conn.pending are one step: nothing can look    *)
(* the id up before the request is written.  That reqID is a uint32 is     *)
(* kept: ids wrap at IdSpace.                                              *)
(***************************************************************************)
EXTENDS Naturals, Sequences

CONSTANTS
    ACall, BCall,   \* the calls that A and B make
    Outbound,       \* ends whose loop is the one getOrConnect starts
    Outcomes,       \* what handlers may do: "reply", "nil" or "error"; "unknown"
                    \* when the type has no handler
    Nesting,        \* handlers may call the peer
    Expiring,       \* the calls whose ctx may end
    MayDrop,        \* the connection may go down
    IdSpace,        \* 2^32: the number of request ids
    WireCap,        \* frames the socket buffers of one direction hold
    None

ASSUME RpcAssumption ==
    /\ ACall \cap BCall = {} /\ None \notin ACall \cup BCall
    /\ Outbound \subseteq {"A", "B"}
    /\ Outcomes \subseteq {"reply", "nil", "error", "unknown"}
    /\ Nesting \in BOOLEAN /\ MayDrop \in BOOLEAN
    /\ Expiring \subseteq ACall \cup BCall
    /\ IdSpace \in Nat \ {0} /\ WireCap \in Nat \ {0}

End == {"A", "B"}
Peer(e) == IF e = "A" THEN "B" ELSE "A"
Call == ACall \cup BCall
EndOf(c) == IF c \in ACall THEN "A" ELSE "B"
Id == 0 .. IdSpace - 1

VARIABLES
    up,         \* the connection is up
    wire,       \* per end: the frames it wrote that the peer has not read
    reqID,      \* per end: conn.reqID
    issued,     \* per end, history: calls that got an id
    pending,    \* per end and id: the call waiting for it, or None
    phase,      \* per call: "idle", "writing", "waiting", "cancelled" (ctx.Done
                \* was taken, the entry is still there), "returned", "failed"
    id,         \* per call: its request id
    chan,       \* per call: the answer in its channel, or None
    answer,     \* per call: the answer it returned, or None
    expired,    \* calls whose ctx has ended
    loop,       \* per end: "reading", "handling", "replying" or "ended"
    cur,        \* per end: the request frame in hand, or None
    inner,      \* per end: the call its handler is waiting for, or None
    ran         \* per call, history: how far its handler got

vars == <<up, wire, reqID, issued, pending, phase, id, chan, answer, expired,
          loop, cur, inner, ran>>
callVars == <<reqID, issued, pending, phase, id, answer>>

Frame == [flag : {"req", "resp"}, id : Id, call : Call]
Done == {"returned", "failed"}

\* Every variable has its type.
TypeOK ==
    /\ up \in BOOLEAN
    /\ wire \in [End -> Seq(Frame)]
    /\ reqID \in [End -> Id] /\ issued \in [End -> Nat]
    /\ pending \in [End -> [Id -> Call \cup {None}]]
    /\ phase \in [Call -> {"idle", "writing", "waiting", "cancelled"} \cup Done]
    /\ id \in [Call -> Id]
    /\ chan \in [Call -> Call \cup {None}] /\ answer \in [Call -> Call \cup {None}]
    /\ expired \in SUBSET Call
    /\ loop \in [End -> {"reading", "handling", "replying", "ended"}]
    /\ cur \in [End -> Frame \cup {None}]
    /\ inner \in [End -> Call \cup {None}]
    /\ ran \in [Call -> {"none", "running", "replied", "silent"}]

\* A registered connection, both loops running.
Init ==
    /\ up = TRUE
    /\ wire = [e \in End |-> <<>>]
    /\ reqID = [e \in End |-> 0] /\ issued = [e \in End |-> 0]
    /\ pending = [e \in End |-> [i \in Id |-> None]]
    /\ phase = [c \in Call |-> "idle"]
    /\ id = [c \in Call |-> 0]
    /\ chan = [c \in Call |-> None] /\ answer = [c \in Call |-> None]
    /\ expired = {}
    /\ loop = [e \in End |-> "reading"]
    /\ cur = [e \in End |-> None] /\ inner = [e \in End |-> None]
    /\ ran = [c \in Call |-> "none"]

-------------------------------------------------------------------------------
CanWrite(e) == up /\ Len(wire[e]) < WireCap
Written(e, f) == wire' = [wire EXCEPT ![e] = Append(@, f)]

\* conn.reqID++ under reqIDMu, at the width of a uint32.
NextID(e) == (reqID[e] + 1) % IdSpace

\* Call up to its write.
Begin(c) ==
    LET e == EndOf(c)
        i == NextID(e) IN
    /\ phase[c] = "idle"
    /\ reqID' = [reqID EXCEPT ![e] = i]
    /\ issued' = [issued EXCEPT ![e] = @ + 1]
    /\ id' = [id EXCEPT ![c] = i]
    /\ pending' = [pending EXCEPT ![e][i] = c]
    /\ phase' = [phase EXCEPT ![c] = "writing"]

CallBegin(c) ==
    /\ Begin(c)
    /\ UNCHANGED <<up, wire, chan, answer, expired, loop, cur, inner, ran>>

\* writeCorrelated(reqID, ReqFlagReq).
CallWrite(c) ==
    /\ phase[c] = "writing"
    /\ CanWrite(EndOf(c))
    /\ Written(EndOf(c), [flag |-> "req", id |-> id[c], call |-> c])
    /\ phase' = [phase EXCEPT ![c] = "waiting"]
    /\ UNCHANGED <<up, reqID, issued, pending, id, chan, answer, expired, loop,
                   cur, inner, ran>>

\* The peer is gone but this end has not noticed: the kernel takes the frame.
CallWriteLost(c) ==
    /\ phase[c] = "writing" /\ ~up
    /\ phase' = [phase EXCEPT ![c] = "waiting"]
    /\ UNCHANGED <<up, wire, reqID, issued, pending, id, chan, answer, expired,
                   loop, cur, inner, ran>>

\* MUTANT of Forget: the deferred delete is forgotten.
ForgetNothing(c) == pending

\* The deferred delete(conn.pending, reqID).
Forget(c) == [pending EXCEPT ![EndOf(c)][id[c]] = None]

\* The write failed.
CallWriteFails(c) ==
    /\ phase[c] = "writing" /\ ~up
    /\ phase' = [phase EXCEPT ![c] = "failed"]
    /\ pending' = Forget(c)
    /\ UNCHANGED <<up, wire, reqID, issued, id, chan, answer, expired, loop,
                   cur, inner, ran>>

\* select: the response.
CallReturn(c) ==
    /\ phase[c] = "waiting" /\ chan[c] # None
    /\ phase' = [phase EXCEPT ![c] = "returned"]
    /\ answer' = [answer EXCEPT ![c] = chan[c]]
    /\ chan' = [chan EXCEPT ![c] = None]
    /\ pending' = Forget(c)
    /\ UNCHANGED <<up, wire, reqID, issued, id, expired, loop, cur, inner, ran>>

\* The caller's ctx ends, at any time.
Expire(c) ==
    /\ c \in Expiring \ expired
    /\ phase[c] \notin Done
    /\ expired' = expired \cup {c}
    /\ UNCHANGED <<up, wire, callVars, chan, loop, cur, inner, ran>>

\* MUTANT of CtxDone: the select has no ctx.Done case.
CtxIgnored(c) == FALSE

CtxDone(c) == c \in expired

\* select: ctx.Done ...
CallCancel(c) ==
    /\ phase[c] = "waiting" /\ CtxDone(c)
    /\ phase' = [phase EXCEPT ![c] = "cancelled"]
    /\ UNCHANGED <<up, wire, reqID, issued, pending, id, chan, answer, expired,
                   loop, cur, inner, ran>>

\* ... and the deferred delete on the way out.
CallFail(c) ==
    /\ phase[c] = "cancelled"
    /\ phase' = [phase EXCEPT ![c] = "failed"]
    /\ pending' = Forget(c)
    /\ UNCHANGED <<up, wire, reqID, issued, id, chan, answer, expired, loop,
                   cur, inner, ran>>

-------------------------------------------------------------------------------
\* The receive loop of e takes the next frame.
Ready(e, flag) ==
    /\ up /\ loop[e] = "reading"
    /\ wire[Peer(e)] # <<>> /\ Head(wire[Peer(e)]).flag = flag
Take(e) == wire' = [wire EXCEPT ![Peer(e)] = Tail(@)]

\* MUTANT of Awaited: whoever waits gets the answer.
AnyoneAwaits(e, f) ==
    IF \E c \in Call : EndOf(c) = e /\ phase[c] = "waiting" /\ chan[c] = None
    THEN CHOOSE c \in Call : EndOf(c) = e /\ phase[c] = "waiting" /\ chan[c] = None
    ELSE None

\* The call waiting for the response f, if its channel has room.
Awaited(e, f) ==
    LET c == pending[e][f.id]
    IN  IF c # None /\ chan[c] = None THEN c ELSE None

\* ReqFlagResp: into the channel, or dropped (and its buffer released).
ReadResponse(e) ==
    LET f == Head(wire[Peer(e)])
        c == Awaited(e, f) IN
    /\ Ready(e, "resp")
    /\ Take(e)
    /\ chan' = [d \in Call |-> IF d = c THEN f.call ELSE chan[d]]
    /\ UNCHANGED <<up, callVars, expired, loop, cur, inner, ran>>

\* Only dispatchLoop knows requests: getOrConnect's loop takes the frame for
\* an uncorrelated message, which does not parse, and drops it.
Serves(e) == e \notin Outbound

\* ReqFlagReq: look the handler up and run it, or drop the request.
ReadRequest(e) ==
    LET f == Head(wire[Peer(e)]) IN
    /\ Ready(e, "req")
    /\ Take(e)
    /\ \/ /\ ~Serves(e) \/ "unknown" \in Outcomes
          /\ UNCHANGED <<loop, cur, ran>>
       \/ /\ Serves(e) /\ Outcomes # {"unknown"}
          /\ loop' = [loop EXCEPT ![e] = "handling"]
          /\ cur' = [cur EXCEPT ![e] = f]
          /\ ran' = [ran EXCEPT ![f.call] = "running"]
    /\ UNCHANGED <<up, callVars, chan, expired, inner>>

\* The handler calls the peer over this connection.
HandlerCalls(e) ==
    /\ Nesting
    /\ loop[e] = "handling" /\ inner[e] = None
    /\ \E c \in Call : /\ EndOf(c) = e
                       /\ Begin(c)
                       /\ inner' = [inner EXCEPT ![e] = c]
    /\ UNCHANGED <<up, wire, chan, answer, expired, loop, cur, ran>>

HandlerFree(e) == loop[e] = "handling" /\ (inner[e] # None => phase[inner[e]] \in Done)

\* The handler returns a response.
HandlerReplies(e) ==
    /\ HandlerFree(e) /\ "reply" \in Outcomes
    /\ loop' = [loop EXCEPT ![e] = "replying"]
    /\ inner' = [inner EXCEPT ![e] = None]
    /\ ran' = [ran EXCEPT ![cur[e].call] = "replied"]
    /\ UNCHANGED <<up, wire, callVars, chan, expired, cur>>

\* It returns nil, an error, or panics (safeHandle): nothing is written.
HandlerSilent(e) ==
    /\ HandlerFree(e) /\ Outcomes \cap {"nil", "error"} # {}
    /\ loop' = [loop EXCEPT ![e] = "reading"]
    /\ cur' = [cur EXCEPT ![e] = None]
    /\ inner' = [inner EXCEPT ![e] = None]
    /\ ran' = [ran EXCEPT ![cur[e].call] = "silent"]
    /\ UNCHANGED <<up, wire, callVars, chan, expired>>

\* MUTANT of ReplyID: the response carries the responder's own counter.
OwnCounter(e) == reqID[e]

\* The response repeats the id of its request.
ReplyID(e) == cur[e].id

\* writeCorrelated(reqID, ReqFlagResp).
ReplyWrite(e) ==
    /\ loop[e] = "replying"
    /\ CanWrite(e)
    /\ Written(e, [flag |-> "resp", id |-> ReplyID(e), call |-> cur[e].call])
    /\ loop' = [loop EXCEPT ![e] = "reading"]
    /\ cur' = [cur EXCEPT ![e] = None]
    /\ UNCHANGED <<up, callVars, chan, expired, inner, ran>>

\* The connection is down: the read or the reply fails and the loop returns.
LoopEnds(e) ==
    /\ ~up /\ loop[e] \in {"reading", "replying"}
    /\ loop' = [loop EXCEPT ![e] = "ended"]
    /\ cur' = [cur EXCEPT ![e] = None]
    /\ UNCHANGED <<up, wire, callVars, chan, expired, inner, ran>>

\* The connection goes down (either side closed it, or the network did).
Drop ==
    /\ MayDrop /\ up
    /\ up' = FALSE
    /\ wire' = [e \in End |-> <<>>]
    /\ UNCHANGED <<callVars, chan, expired, loop, cur, inner, ran>>

-------------------------------------------------------------------------------
CallStep(c) == \/ CallWrite(c) \/ CallWriteLost(c) \/ CallWriteFails(c) \/ CallReturn(c)
               \/ CallCancel(c) \/ CallFail(c)
LoopStep(e) == \/ ReadResponse(e) \/ ReadRequest(e) \/ HandlerReplies(e)
               \/ HandlerSilent(e) \/ ReplyWrite(e) \/ LoopEnds(e)

Next ==
    \/ \E c \in Call : CallBegin(c) \/ CallStep(c) \/ Expire(c)
    \/ \E e \in End : LoopStep(e) \/ HandlerCalls(e)
    \/ Drop

\* Calls and receive loops run on, and handlers return.  Nobody has to call,
\* and no ctx has to end.
Fairness ==
    /\ \A c \in Call : WF_vars(CallStep(c))
    /\ \A e \in End : WF_vars(LoopStep(e))

Spec == Init /\ [][Next]_vars
FairSpec == Spec /\ Fairness

-------------------------------------------------------------------------------
\* The connection implements AtMostOnceCall, as long as no id is given twice:
\* late answers, cancelled calls, nested calls and a connection that goes down
\* never make a handler run twice or a call return another call's answer.
Outcome(c) == CASE phase[c] = "idle" -> "none"
                [] phase[c] \in Done -> phase[c]
                [] OTHER -> "running"
outcomes == [c \in Call |-> Outcome(c)]
Contract == INSTANCE AtMostOnceCall WITH outcome <- outcomes, handler <- ran
AtMostOnce == Contract!Spec

\* No id has been given twice.
FewCalls == \A e \in End : issued[e] <= IdSpace

\* conn.pending holds exactly the calls in progress, as long as no id is given
\* twice: an answer that comes too late finds nobody, and a call that waits can
\* be found.  Every variable has its type.
PendingIsLive ==
    /\ TypeOK
    /\ FewCalls => \A c \in Call :
                      phase[c] \in {"writing", "waiting", "cancelled"} <=>
                          \E i \in Id : pending[EndOf(c)][i] = c

\* Every call ends once its ctx has: Client.Call "Respects the client-level
\* CallTimeout in addition to ctx".  (It does not: see TimeoutOrParked.)
TimeoutRespected ==
    \A c \in Call :
        (c \in expired /\ phase[c] # "idle") ~> (phase[c] \in Done)

\* The write of the request waits for room.  Call looks at its ctx only in the
\* select that follows.
Parked(c) == phase[c] = "writing" /\ up /\ ~CanWrite(EndOf(c))

\* Nothing else holds a call whose ctx has ended: not the answer, however late or
\* lost, not a handler that never returns, not a connection that went down.  There
\* is always a later time when all such calls have ended, but for parked ones.
TimeoutOrParked ==
    []<>(\A c \in expired : phase[c] \in Done \cup {"idle"} \/ Parked(c))

\* A call whose handler replies gets its answer, while the connection stays up
\* and its own ctx lasts: there is always a later time when no such call waits.
Answered ==
    []<>(\A c \in Call : phase[c] \in {"writing", "waiting"} => c \in expired \/ ~up)

\* A ProcedureHandler returns an error "to signal failure; the client side
\* observes the err on its Call".
ErrorObserved ==
    \A c \in Call : (ran[c] = "silent") ~> (phase[c] \in Done)
===============================================================================
