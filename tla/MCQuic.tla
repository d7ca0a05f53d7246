--------------------------------- MODULE MCQuic ---------------------------------
(***************************************************************************)
(* The QUIC transport for TLC: in every behaviour one of its two parts     *)
(* runs, the nodes (QuicNode) or one connection's control stream           *)
(* (QuicConn), chosen in the initial state.                                *)
(***************************************************************************)
EXTENDS QuicNode, QuicConn, TLC

CONSTANTS n1, n2, n3, k1, k2, w1, w2

MCConn == 1 .. 2
MCFrom == (k1 :> n1) @@ (k2 :> n2)
MCTo == (k1 :> n2) @@ (k2 :> n1)
\* n1's listed address is still its own; n2's has been taken over by n3.
MCListed == [n \in {n1, n2, n3} |-> IF n = n2 THEN n3 ELSE n]
MCDirect == {<<n1, n2>>}
MCSendAt == [e \in End |-> IF e = "d" THEN Writers ELSE {}]

VARIABLE part
allVars == <<vars, connVars, part>>

MCInit == Init /\ ConnInit /\ part \in {"nodes", "conn"}
MCNext ==
    \/ part = "nodes" /\ Next /\ UNCHANGED <<connVars, part>>
    \/ part = "conn" /\ ConnNext /\ UNCHANGED <<vars, part>>

NodeStep(A) == part = "nodes" /\ A /\ UNCHANGED <<connVars, part>>
ConnPart(A) == part = "conn" /\ A /\ UNCHANGED <<vars, part>>

\* The goroutines run, handlers return and dials end; nobody need call, dial,
\* fail, cancel or stop anything.  (A connection and an end take finitely many
\* steps, so fairness of each as a whole is that of every goroutine in it.)
ConnRuns(c) == \/ DialReturns(c) \/ DialFails(c) \/ onAcceptedTransportConn(c)
               \/ \E x \in End : ServeEnds(c, x)
Fairness ==
    /\ \A c \in Conn : WF_allVars(NodeStep(ConnRuns(c)))
    /\ \A k \in Call : WF_allVars(NodeStep(CallStep(k)))
    /\ \A n \in Stopping : WF_allVars(NodeStep(StopWipe(n)))
    /\ \A e \in End : WF_allVars(ConnPart(LoopStep(e) \/ Drained(e) \/ PeerGone(e)))

MCSpec == MCInit /\ [][MCNext]_allVars /\ Fairness

-------------------------------------------------------------------------------
\* Every call over QUIC returns, handler errors included, and closing one end of
\* a connection ends both (see QuicNode and QuicConn).
QuicEnds == CallEnds /\ CloseEndsBoth
===============================================================================
