-------------------------------- MODULE QuicNode --------------------------------
(***************************************************************************)
(* Nodes over QUIC (node_quic.go, quic/client.go, quic/server.go,          *)
(* quic/factory.go): the table of transports, dialling and accepting with  *)
(* the identity handshake, the read loop of every connection, Stop, and    *)
(* Call, each on a stream of its own.                                      *)
(*                                                                         *)
(* A connection c has two ends, side[c]["d"] at the dialler and            *)
(* side[c]["l"] at the listener.  What its control stream carries is in    *)
(* module QuicConn.                                                        *)
(***************************************************************************)
EXTENDS Naturals, FiniteSets

CONSTANTS
    Node, Conn, Call, None,
    From, To,       \* per call: the node that makes it, the peer it is for
    Listed,         \* per node: who answers at the address discovery has for it
    Direct,         \* pairs <<n, m>>: n may ConnectDirect to m's address
    Handled,        \* calls whose message type has a handler
    Expiring,       \* calls whose ctx may end
    Stopping        \* nodes that may be stopped

ASSUME QuicAssumption ==
    /\ From \in [Call -> Node] /\ To \in [Call -> Node]
    /\ Listed \in [Node -> Node \cup {None}]
    /\ None \notin Node \cup Conn \cup Call

VARIABLES
    table,              \* n.transports: per node and peer, a connection or None
    side, ends,         \* per connection: its two ends, the nodes they are at
    for,                \* per connection: the call that dials it, or None
    shaken, dead,       \* the listener wrote its identity; QUIC lost the connection
    accepting, stop,    \* per node: the accept loop runs; how far Stop is
    call, on,           \* per call: how far it is, the connection it uses
    ran, reply, answer  \* per call: its handler, its reply is on the stream, and
                        \* what the call returned

conns == <<table, side, ends, for, shaken, dead>>
calls == <<call, on, ran, reply, answer>>
vars == <<conns, calls, accepting, stop>>

End == {"d", "l"}
Other(x) == IF x = "d" THEN "l" ELSE "d"
At(c, x) == ends[c][x]
Done == {"returned", "failed"}

\* Every variable has its type.
QuicNodeTypeOK ==
    /\ table \in [Node -> [Node -> Conn \cup {None}]]
    /\ side \in [Conn -> [End -> {"unused", "queued", "open", "serving", "late", "closing", "closed"}]]
    /\ ends \in [Conn -> [End -> Node \cup {None}]] /\ for \in [Conn -> Call \cup {None}]
    /\ shaken \in [Conn -> BOOLEAN] /\ dead \in [Conn -> BOOLEAN]
    /\ accepting \in [Node -> BOOLEAN] /\ stop \in [Node -> {"no", "cancelled", "done"}]
    /\ call \in [Call -> {"idle", "connect", "open", "waiting", "panicked"} \cup Done]
    /\ on \in [Call -> Conn \cup {None}] /\ answer \in [Call -> Call \cup {None}]
    /\ ran \in [Call -> {"none", "running", "replied", "silent"}]
    /\ reply \in [Call -> {"none", "sent", "closed"}]

\* startQUIC: the listener is bound and the accept loop runs.
Init ==
    /\ table = [n \in Node |-> [p \in Node |-> None]]
    /\ side = [c \in Conn |-> [x \in End |-> "unused"]]
    /\ ends = [c \in Conn |-> [x \in End |-> None]] /\ for = [c \in Conn |-> None]
    /\ shaken = [c \in Conn |-> FALSE] /\ dead = [c \in Conn |-> FALSE]
    /\ accepting = [n \in Node |-> TRUE] /\ stop = [n \in Node |-> "no"]
    /\ call = [k \in Call |-> "idle"] /\ on = [k \in Call |-> None]
    /\ ran = [k \in Call |-> "none"] /\ reply = [k \in Call |-> "none"]
    /\ answer = [k \in Call |-> None]

Gone(c, x) == side[c][x] \in {"closing", "closed"}
Alive(c) == ~dead[c] /\ \A x \in End : ~Gone(c, x)

-------------------------------------------------------------------------------
\* The QUIC dial itself: it reaches m's socket whether or not m still accepts,
\* and queues at its listener until the listener is closed.
Dial(c, n, m, k) ==
    /\ side[c]["d"] = "unused"
    /\ \A e \in Conn : side[e]["d"] = "unused" => c <= e
    /\ ends' = [ends EXCEPT ![c] = [x \in End |-> IF x = "d" THEN n ELSE m]]
    /\ for' = [for EXCEPT ![c] = k]
    /\ side' = [side EXCEPT ![c] = [x \in End |-> IF x = "d" THEN "open" ELSE
                                       IF stop[m] = "no" THEN "queued" ELSE "closed"]]
    /\ UNCHANGED <<table, shaken, dead>>

\* quicConnectDirect.
ConnectDirect(c, n, m) ==
    /\ <<n, m>> \in Direct /\ stop[n] = "no" /\ Dial(c, n, m, None)
    /\ UNCHANGED <<calls, accepting, stop>>

\* Server.Accept, up to the server's half of the identity exchange.  Accepting
\* and the exchange are one after the other, for one connection at a time.
Accept(c) ==
    /\ side[c]["l"] = "queued" /\ accepting[At(c, "l")] /\ ~Gone(c, "d") /\ ~dead[c]
    /\ side' = [side EXCEPT ![c]["l"] = "open"]
    /\ shaken' = [shaken EXCEPT ![c] = TRUE]
    /\ UNCHANGED <<table, ends, for, dead, calls, accepting, stop>>

\* The exchange fails, or the dialler has given up: Accept returns an error and
\* the factory's accept loop returns with it.
AcceptFails(c) ==
    /\ side[c]["l"] = "queued" /\ accepting[At(c, "l")]
    /\ side' = [side EXCEPT ![c]["l"] = "closed"]
    /\ accepting' = [accepting EXCEPT ![At(c, "l")] = FALSE]
    /\ UNCHANGED <<table, ends, for, shaken, dead, calls, stop>>

\* A connection enters n's table and gets its read loop, unless the peer has one:
\* then the newcomer is closed.  The loop looks at n.ctx before it blocks in Recv
\* and no more: it is "late" when it finds it cancelled.
Enter(c, x, n, p) ==
    IF table[n][p] = None
      THEN /\ table' = [table EXCEPT ![n][p] = c]
           /\ side' = [side EXCEPT ![c][x] = IF stop[n] = "no" THEN "serving" ELSE "late"]
      ELSE side' = [side EXCEPT ![c][x] = "closed"] /\ UNCHANGED table

\* onAcceptedTransportConn.
onAcceptedTransportConn(c) ==
    /\ side[c]["l"] = "open" /\ Enter(c, "l", At(c, "l"), At(c, "d"))
    /\ UNCHANGED <<ends, for, shaken, dead, calls, accepting, stop>>

\* getOrConnectQUIC compares the identity it was given with the one it wants.
Expected(c) == for[c] # None => At(c, "l") = To[for[c]]

\* Dial returned a connection: enter it, and let the call use whichever the
\* table has.  The table is keyed by the peer wanted, or the identity learned.
\* Stop may have come between the dial's return and this.
DialReturns(c) ==
    LET n == At(c, "d")
        k == for[c]
        p == IF k = None THEN At(c, "l") ELSE To[k] IN
    /\ side[c]["d"] = "open" /\ shaken[c]
    /\ IF Expected(c) THEN Enter(c, "d", n, p)
       ELSE side' = [side EXCEPT ![c]["d"] = "closed"] /\ UNCHANGED table
    /\ IF k = None \/ call[k] # "connect" THEN UNCHANGED <<call, on>>
       ELSE /\ call' = [call EXCEPT ![k] = IF Expected(c) THEN "open" ELSE "failed"]
            /\ on' = [on EXCEPT ![k] = IF Expected(c) THEN table'[n][p] ELSE None]
    /\ UNCHANGED <<ends, for, shaken, dead, ran, reply, answer, accepting, stop>>

\* The dial fails: a timeout (dialCtx, handshakeTimeout), a refusal, or Stop.
DialFails(c) ==
    LET k == for[c] IN
    /\ side[c]["d"] = "open"
    /\ side' = [side EXCEPT ![c]["d"] = "closed"]
    /\ call' = [j \in Call |-> IF j = k /\ call[j] = "connect" THEN "failed" ELSE call[j]]
    /\ UNCHANGED <<table, ends, for, shaken, dead, on, ran, reply, answer, accepting, stop>>

\* MUTANT of Remove: the entry is left behind.
LeaveEntry(c, n) == table

\* The deferred delete, of this connection only.
Remove(c, n) == [table EXCEPT ![n] = [p \in Node |-> IF @[p] = c THEN None ELSE @[p]]]

\* serveTransportConn ends: the peer or this node closed the connection, QUIC
\* lost it, or the node had been stopped before the loop began.
ServeEnds(c, x) ==
    /\ side[c][x] = "late" \/ (side[c][x] \in {"serving", "closing"} /\ ~Alive(c))
    /\ table' = Remove(c, At(c, x))
    /\ side' = [side EXCEPT ![c][x] = "closed"]
    /\ UNCHANGED <<ends, for, shaken, dead, calls, accepting, stop>>

\* Stop: cancel, then close the listener and the client's socket.
StopCancel(n) ==
    /\ n \in Stopping /\ stop[n] = "no"
    /\ stop' = [stop EXCEPT ![n] = "cancelled"]
    /\ accepting' = [accepting EXCEPT ![n] = FALSE]
    /\ side' = [c \in Conn |-> IF At(c, "l") = n /\ side[c]["l"] = "queued"
                               THEN [side[c] EXCEPT !["l"] = "closed"] ELSE side[c]]
    /\ dead' = [c \in Conn |-> dead[c] \/ At(c, "d") = n]
    /\ UNCHANGED <<table, ends, for, shaken, calls>>

\* MUTANT of Wipe: Stop forgets the map but closes nothing.
WipeOnly(n) == side

\* Stop: close every connection of the table ...
Wipe(n) ==
    [c \in Conn |-> [x \in End |->
        IF At(c, x) = n /\ (\E p \in Node : table[n][p] = c) THEN "closing" ELSE side[c][x]]]

\* ... and empty it.
StopWipe(n) ==
    /\ stop[n] = "cancelled"
    /\ stop' = [stop EXCEPT ![n] = "done"]
    /\ side' = Wipe(n)
    /\ table' = [table EXCEPT ![n] = [p \in Node |-> None]]
    /\ UNCHANGED <<ends, for, shaken, dead, calls, accepting>>

-------------------------------------------------------------------------------
\* quicCall: use the table, or dial the address discovery has; without either, or
\* after Stop, the call goes on with no connection and comes to nothing.
quicCall(k) ==
    LET n == From[k]
        p == To[k] IN
    /\ call[k] = "idle"
    /\ \/ /\ table[n][p] # None
          /\ call' = [call EXCEPT ![k] = "open"] /\ on' = [on EXCEPT ![k] = table[n][p]]
          /\ UNCHANGED conns
       \/ /\ table[n][p] = None /\ Listed[p] # None /\ stop[n] = "no"
          /\ \E c \in Conn : Dial(c, n, Listed[p], k)
          /\ call' = [call EXCEPT ![k] = "connect"] /\ UNCHANGED on
       \/ /\ table[n][p] = None /\ (Listed[p] = None \/ stop[n] # "no")
          /\ call' = [call EXCEPT ![k] = "open"] /\ UNCHANGED <<conns, on>>
    /\ UNCHANGED <<ran, reply, answer, accepting, stop>>

\* The call returns an error; only one that was waiting leaves a stream behind.
Fails(k) ==
    /\ call' = [call EXCEPT ![k] = "failed"]
    /\ on' = [on EXCEPT ![k] = IF call[k] = "waiting" THEN @ ELSE None]
    /\ UNCHANGED <<conns, ran, reply, answer, accepting, stop>>

\* The end of call k's connection at the caller, and at the peer.
Near(k) == IF At(on[k], "d") = From[k] THEN "d" ELSE "l"
Far(k) == Other(Near(k))

\* OpenCallStream and WriteFrame(req).
OpenCallStream(k) ==
    /\ call[k] = "open" /\ on[k] # None
    /\ ~Gone(on[k], Near(k)) /\ ~dead[on[k]]
    /\ call' = [call EXCEPT ![k] = "waiting"]
    /\ UNCHANGED <<conns, on, ran, reply, answer, accepting, stop>>
Usable(k) == on[k] # None /\ Alive(on[k])
OpenFails(k) == call[k] = "open" /\ ~Usable(k) /\ Fails(k)

\* After Stop the client has no transport left to dial with (c.tr is nil), and
\* client.dial does not look: the caller panics, or gets the error of a closed
\* transport if it read c.tr, which no lock guards there, in time.
DialPanics(k) ==
    /\ call[k] = "open" /\ on[k] = None /\ Listed[To[k]] # None /\ stop[From[k]] # "no"
    /\ call' = [call EXCEPT ![k] = "panicked"]
    /\ UNCHANGED <<conns, on, ran, reply, answer, accepting, stop>>

\* MUTANT of Fresh: the stream is handed to a second goroutine.
Again(k) == ran[k] \in {"none", "replied"}

\* AcceptCallStream yields each stream once.
Fresh(k) == ran[k] = "none" /\ reply[k] = "none"

\* acceptCallStreams and handleCallStream, up to the handler: a request without
\* a handler, or one that does not parse, only closes the stream.
handleCallStream(k) ==
    /\ on[k] # None /\ call[k] \in {"waiting"} \cup Done /\ Fresh(k)
    /\ side[on[k]][Far(k)] = "serving" /\ ~dead[on[k]] /\ stop[At(on[k], Far(k))] = "no"
    /\ \/ k \in Handled /\ ran' = [ran EXCEPT ![k] = "running"] /\ UNCHANGED reply
       \/ k \notin Handled /\ reply' = [reply EXCEPT ![k] = "closed"] /\ UNCHANGED ran
    /\ UNCHANGED <<conns, call, on, answer, accepting, stop>>

\* MUTANT of Silenced: as over TCP, the stream stays open after an error.
StaysOpen(k) == reply[k]

\* The handler failed, panicked or had no answer: the deferred stream.Close.
Silenced(k) == "closed"

\* The handler is done: the response is written and the stream closed, or it is
\* only closed.  A connection that is going down may lose the response.
HandlerDone(k) ==
    /\ ran[k] = "running"
    /\ \/ /\ ran' = [ran EXCEPT ![k] = "replied"]
          /\ \/ reply' = [reply EXCEPT ![k] = "sent"]
             \/ ~Alive(on[k]) /\ reply' = [reply EXCEPT ![k] = "closed"]
       \/ ran' = [ran EXCEPT ![k] = "silent"] /\ reply' = [reply EXCEPT ![k] = Silenced(k)]
    /\ UNCHANGED <<conns, call, on, answer, accepting, stop>>

\* quicCallStream: the response, EOF, a lost connection, or ctx.
CallReturns(k) ==
    /\ call[k] = "waiting" /\ reply[k] = "sent" /\ ~dead[on[k]]
    /\ call' = [call EXCEPT ![k] = "returned"] /\ answer' = [answer EXCEPT ![k] = k]
    /\ UNCHANGED <<conns, on, ran, reply, accepting, stop>>
CallEOF(k) == call[k] = "waiting" /\ (reply[k] = "closed" \/ ~Usable(k)) /\ Fails(k)
CallCancelled(k) == k \in Expiring /\ call[k] \in {"connect", "open", "waiting"} /\ Fails(k)

-------------------------------------------------------------------------------
ConnStep(c) == \/ Accept(c) \/ AcceptFails(c) \/ onAcceptedTransportConn(c)
               \/ DialReturns(c) \/ DialFails(c) \/ \E x \in End : ServeEnds(c, x)
CallStep(k) == \/ OpenCallStream(k) \/ OpenFails(k) \/ DialPanics(k)
               \/ handleCallStream(k) \/ HandlerDone(k) \/ CallReturns(k) \/ CallEOF(k)

Next ==
    \/ \E c \in Conn : ConnStep(c) \/ \E n, m \in Node : ConnectDirect(c, n, m)
    \/ \E n \in Node : StopCancel(n) \/ StopWipe(n)
    \/ \E k \in Call : quicCall(k) \/ CallStep(k) \/ CallCancelled(k)
Spec == Init /\ [][Next]_vars

-------------------------------------------------------------------------------
\* Over QUIC too, a call runs its handler at most once and returns only the
\* handler's answer to it: Call promises the same whatever the transport.
outcomes == [k \in Call |-> CASE call[k] = "idle" -> "none" [] call[k] \in Done -> call[k]
                              [] OTHER -> "running"]
Contract == INSTANCE AtMostOnceCall WITH outcome <- outcomes, handler <- ran
QuicAtMostOnce == Contract!Spec

\* The table and the read loops agree: an entry is served, and until Stop has
\* emptied the table a served connection can be found in it.
TableServes ==
    /\ \A n, p \in Node :
         table[n][p] # None =>
            \E x \in End : At(table[n][p], x) = n /\ side[table[n][p]][x] \in {"serving", "late"}
    /\ \A c \in Conn, x \in End :
         side[c][x] = "serving" /\ stop[At(c, x)] # "done" => \E p \in Node : table[At(c, x)][p] = c

\* A handler runs only at the node the call is for, though the address that
\* discovery has for it may be another node's by now.
RightPeer == \A k \in Call : ran[k] # "none" => At(on[k], Far(k)) = To[k]

\* Every variable has its type, and what the table of transports says: an entry
\* is served, and its connection is to the peer it is under.
TableIsTrue == QuicNodeTypeOK /\ TableServes /\ RightPeer

\* Every call ends, without a timeout of its own: a handler that fails closes
\* the stream, and a connection that goes down ends its streams.  Only one that a
\* stopped node would have to dial for may panic instead.
CallEnds ==
    \A k \in Call : call[k] # "idle" ~>
        call[k] \in Done \/ (call[k] = "panicked" /\ stop[From[k]] # "no")

\* After Stop, every connection of the node is closed and its table stays empty,
\* those included that were being accepted or dialled meanwhile.
StopCleans ==
    \A n \in Node : stop[n] = "done" ~>
        [](/\ \A p \in Node : table[n][p] = None
           /\ \A c \in Conn, x \in End : At(c, x) = n => side[c][x] = "closed")
===============================================================================
