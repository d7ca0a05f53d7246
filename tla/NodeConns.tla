------------------------------- MODULE NodeConns -------------------------------
(***************************************************************************)
(* The connection table of a ZAP node (Node.conns of node.go) over the TCP *)
(* transport: how connections are dialled, shaken hands on, registered and *)
(* torn down, by goroutines that share only the table and its mutex.       *)
(*                                                                         *)
(* A connection has two sides, each owned by one goroutine of one node:    *)
(* the dialler's (ConnectDirectID or getOrConnect) and the acceptor's      *)
(* (handleConn).  The goroutine holds connsMu for the length of one step   *)
(* at most, so every step here is one critical section or one operation    *)
(* on the socket.  Frames after the handshake only make the read loop turn *)
(* (FrameHandled); what they carry is the subject of module Rpc.           *)
(*                                                                         *)
(* A dial of getOrConnect may reach a node other than the one it wants:    *)
(* discovery's address can be stale ("want" differs from "to").            *)
(***************************************************************************)
EXTENDS Naturals, FiniteSets

CONSTANTS
    Node,
    Direct,     \* pairs <<n, p>>: n calls ConnectDirect with p's address
    Lookup,     \* triples <<n, p, q>>: n's Send or Call to p looks p up and
                \* finds q's address (q = p unless discovery is stale)
    Lost,       \* pairs <<n, p>>: n's discovery may report p lost
    Stops,      \* nodes that may be stopped
    Sock,       \* connections; each is dialled at most once
    MaxBreaks,  \* bound on connections that the network breaks
    NoConn

ASSUME ConnsAssumption ==
    /\ Direct \subseteq Node \X Node
    /\ Lookup \subseteq Node \X Node \X Node
    /\ Lost \subseteq Node \X Node /\ Stops \subseteq Node
    /\ \A d \in Direct : d[1] # d[2]
    /\ \A l \in Lookup : l[1] # l[2] /\ l[1] # l[3]
    /\ MaxBreaks \in Nat
    /\ NoConn \notin Sock \X {"dial", "accept"}
    /\ NoConn \notin Node

Side == Sock \X {"dial", "accept"}
Dial(s)   == <<s, "dial">>
Accept(s) == <<s, "accept">>
Remote(x) == IF x[2] = "dial" THEN Accept(x[1]) ELSE Dial(x[1])

VARIABLES
    from, to,   \* per connection: dialling and accepting node, NoConn before
    want,       \* per connection: the peer the dialler must find, NoConn if any
    pc,         \* per side: where its goroutine is
    shut,       \* per side: its end of the socket is closed
    hello,      \* per side: its handshake message is on the wire
    broken,     \* connections the network has broken
    conns,      \* per node and peer: the side registered, or NoConn
    stopped     \* per node: "no", "cancelled" (cancel and listener closed),
                \* "wiped" (table emptied)

connVars == <<from, to, want, pc, shut, hello, broken, conns, stopped>>

\* The node that runs a side, and the node it talks to.
Owner(x) == IF x[2] = "dial" THEN from[x[1]] ELSE to[x[1]]
PeerOf(x)  == IF x[2] = "dial" THEN to[x[1]] ELSE from[x[1]]

\* Where a goroutine can be.  "looking" is the check of n.ctx at the head of
\* the read loop, "reading" the read, "leaving" after the deferred delete.
Handshaking == {"dialled", "waiting", "backlog", "accepted", "replying", "replied"}
Looping     == {"looking", "reading"}
Place       == {"unused", "leaving", "done"} \cup Handshaking \cup Looping

\* Every variable has its type.
ConnsTyped ==
    /\ from \in [Sock -> Node \cup {NoConn}] /\ to \in [Sock -> Node \cup {NoConn}]
    /\ want \in [Sock -> Node \cup {NoConn}]
    /\ pc \in [Side -> Place]
    /\ shut \in [Side -> BOOLEAN] /\ hello \in [Side -> BOOLEAN]
    /\ broken \in SUBSET Sock
    /\ conns \in [Node -> [Node -> Side \cup {NoConn}]]
    /\ stopped \in [Node -> {"no", "cancelled", "wiped"}]

\* NewNode and Start on every node.
ConnsInit ==
    /\ from = [s \in Sock |-> NoConn] /\ to = [s \in Sock |-> NoConn]
    /\ want = [s \in Sock |-> NoConn]
    /\ pc = [x \in Side |-> "unused"]
    /\ shut = [x \in Side |-> FALSE] /\ hello = [x \in Side |-> FALSE]
    /\ broken = {}
    /\ conns = [n \in Node |-> [p \in Node |-> NoConn]]
    /\ stopped = [n \in Node |-> "no"]

-------------------------------------------------------------------------------
\* Steps that many operations share.
Goto(x, place) == pc' = [pc EXCEPT ![x] = place]
Close(x)       == shut' = [shut EXCEPT ![x] = TRUE]
Known(n, p)    == conns[n][p] # NoConn

Set(n, p, x)   == conns' = [conns EXCEPT ![n][p] = x]

\* MUTANT of Failed: closing a connection does not end the read it blocks in.
OnlyBroken(x) == x[1] \in broken

\* Reading or writing fails: this end is closed, or the network broke it.  The
\* remote end's close ends a read once what it had written is consumed.
Failed(x) == shut[x] \/ x[1] \in broken

\* The kernel completes a dial as long as the listener is open.
Connects(s, n, q) ==
    /\ pc[Dial(s)] = "unused"
    /\ stopped[q] = "no"
    /\ from' = [from EXCEPT ![s] = n] /\ to' = [to EXCEPT ![s] = q]
    /\ pc' = [pc EXCEPT ![Dial(s)] = "dialled", ![Accept(s)] = "backlog"]
    /\ UNCHANGED <<shut, hello, broken, conns, stopped>>

\* ConnectDirectID (also from handlePeerEvent): dials whatever is in the table.
ConnectDirect(s) == \E d \in Direct :
    /\ Connects(s, d[1], d[2])
    /\ UNCHANGED want

\* getOrConnect: returns the table's connection if there is one, else looks
\* the peer up and dials.
GetOrConnect(s) == \E l \in Lookup :
    /\ ~Known(l[1], l[2])
    /\ Connects(s, l[1], l[3])
    /\ want' = [want EXCEPT ![s] = l[2]]

\* The dialler writes its handshake, or fails to and closes.
WriteHandshake(s) ==
    /\ pc[Dial(s)] = "dialled"
    /\ \/ /\ ~Failed(Dial(s))
          /\ hello' = [hello EXCEPT ![Dial(s)] = TRUE]
          /\ Goto(Dial(s), "waiting")
          /\ UNCHANGED shut
       \/ /\ Failed(Dial(s)) \/ shut[Accept(s)]
          /\ Close(Dial(s)) /\ Goto(Dial(s), "done")
          /\ UNCHANGED hello
    /\ UNCHANGED <<from, to, want, broken, conns, stopped>>

\* The dialler's answer from the wire: an error, or the peer's handshake.
DialFails(s) ==
    /\ pc[Dial(s)] = "waiting"
    /\ s \in broken \/ (shut[Accept(s)] /\ ~hello[Accept(s)])
    /\ Close(Dial(s)) /\ Goto(Dial(s), "done")
    /\ UNCHANGED <<from, to, want, hello, broken, conns, stopped>>

\* MUTANT of Duplicate: the table is not consulted before registering.
NeverDuplicate(n, p) == FALSE

\* A connection to that peer is in the table already.
Duplicate(n, p) == Known(n, p)

\* The handshake arrives: not the peer that was looked up, a duplicate, or
\* the connection is registered and its read loop starts.
DialRegisters(s) ==
    LET x == Dial(s) IN
    /\ pc[x] = "waiting"
    /\ hello[Accept(s)]
    /\ \/ /\ want[s] \notin {NoConn, to[s]}
          /\ Close(x) /\ Goto(x, "done")
          /\ UNCHANGED conns
       \/ /\ want[s] \in {NoConn, to[s]}
          /\ Duplicate(from[s], to[s])
          /\ Close(x) /\ Goto(x, "done")
          /\ UNCHANGED conns
       \/ /\ want[s] \in {NoConn, to[s]}
          /\ ~Duplicate(from[s], to[s])
          /\ Set(from[s], to[s], x) /\ Goto(x, "looking")
          /\ UNCHANGED shut
    /\ UNCHANGED <<from, to, want, hello, broken, stopped>>

-------------------------------------------------------------------------------
\* acceptLoop takes the connection, or the closed listener resets it.
AcceptConn(s) ==
    /\ pc[Accept(s)] = "backlog"
    /\ \/ /\ stopped[to[s]] = "no"
          /\ Goto(Accept(s), "accepted")
          /\ UNCHANGED shut
       \/ /\ stopped[to[s]] # "no"
          /\ Close(Accept(s)) /\ Goto(Accept(s), "done")
    /\ UNCHANGED <<from, to, want, hello, broken, conns, stopped>>

\* handleConn reads the handshake and looks for a duplicate before it answers.
ReadHandshake(s) ==
    /\ pc[Accept(s)] = "accepted"
    /\ hello[Dial(s)]
    /\ \/ /\ Known(to[s], from[s])
          /\ Goto(Accept(s), "leaving")
       \/ /\ ~Known(to[s], from[s])
          /\ Goto(Accept(s), "replying")
    /\ UNCHANGED <<from, to, want, shut, hello, broken, conns, stopped>>

\* The read fails, or its deadline of 10 s passes.
HandshakeFails(s) ==
    /\ pc[Accept(s)] = "accepted"
    /\ Goto(Accept(s), "leaving")
    /\ UNCHANGED <<from, to, want, shut, hello, broken, conns, stopped>>

\* It answers with its own handshake.
ReplyHandshake(s) ==
    /\ pc[Accept(s)] = "replying"
    /\ \/ /\ s \notin broken
          /\ hello' = [hello EXCEPT ![Accept(s)] = TRUE]
          /\ Goto(Accept(s), "replied")
       \/ /\ s \in broken \/ shut[Dial(s)]
          /\ Goto(Accept(s), "leaving")
          /\ UNCHANGED hello
    /\ UNCHANGED <<from, to, want, shut, broken, conns, stopped>>

\* It looks again, and registers the connection or gives it up.
AcceptRegisters(s) ==
    LET x == Accept(s) IN
    /\ pc[x] = "replied"
    /\ \/ /\ Duplicate(to[s], from[s])
          /\ Goto(x, "leaving")
          /\ UNCHANGED conns
       \/ /\ ~Duplicate(to[s], from[s])
          /\ Set(to[s], from[s], x) /\ Goto(x, "looking")
    /\ UNCHANGED <<from, to, want, shut, hello, broken, stopped>>

-------------------------------------------------------------------------------
\* MUTANT of Unregister: the deferred delete is forgotten.
KeepEntry(x) == UNCHANGED conns

\* The deferred delete: only if the entry is still this connection.
Unregister(x) ==
    IF conns[Owner(x)][PeerOf(x)] = x
    THEN Set(Owner(x), PeerOf(x), NoConn)
    ELSE UNCHANGED conns

\* The loop's head looks at n.ctx.
LoopHead(x) ==
    /\ pc[x] = "looking"
    /\ \/ /\ stopped[Owner(x)] = "no"
          /\ Goto(x, "reading")
          /\ UNCHANGED conns
       \/ /\ stopped[Owner(x)] # "no"
          /\ Goto(x, "leaving")
          /\ Unregister(x)
    /\ UNCHANGED <<from, to, want, shut, hello, broken, stopped>>

\* A frame was read and handled.
FrameHandled(x) ==
    /\ pc[x] = "reading" /\ ~Failed(x)
    /\ pc[Remote(x)] \in Looping
    /\ Goto(x, "looking")
    /\ UNCHANGED <<from, to, want, shut, hello, broken, conns, stopped>>

\* The read fails: closed here, closed there, or broken.
ReadFails(x) ==
    /\ pc[x] = "reading"
    /\ Failed(x) \/ shut[Remote(x)]
    /\ Goto(x, "leaving")
    /\ Unregister(x)
    /\ UNCHANGED <<from, to, want, shut, hello, broken, stopped>>

\* MUTANT of Leave: the deferred Close is forgotten.
LeaveOpen(x) ==
    /\ pc[x] = "leaving"
    /\ Goto(x, "done")
    /\ UNCHANGED <<from, to, want, shut, hello, broken, conns, stopped>>

\* netConn.Close(), the last deferred call.
Leave(x) ==
    /\ pc[x] = "leaving"
    /\ Close(x) /\ Goto(x, "done")
    /\ UNCHANGED <<from, to, want, hello, broken, conns, stopped>>

\* closeOnStop: the context's AfterFunc closes the socket of a read loop.
ClosedOnStop(x) == pc[x] \in Looping /\ stopped[Owner(x)] # "no"

CloseOnStop(x) ==
    /\ ClosedOnStop(x)
    /\ ~shut[x]
    /\ Close(x)
    /\ UNCHANGED <<from, to, want, pc, hello, broken, conns, stopped>>

-------------------------------------------------------------------------------
\* The sockets after conn.conn.Close() on the entry for p.
ShutByLost(n, p) == [shut EXCEPT ![conns[n][p]] = TRUE]

\* handlePeerEvent, peer lost: close the connection and forget it.
PeerLost(n, p) ==
    /\ Known(n, p)
    /\ shut' = ShutByLost(n, p)
    /\ Set(n, p, NoConn)
    /\ UNCHANGED <<from, to, want, pc, hello, broken, stopped>>

\* Stop: cancel and close the listener, ...
StopCancel(n) ==
    /\ stopped[n] = "no"
    /\ stopped' = [stopped EXCEPT ![n] = "cancelled"]
    /\ UNCHANGED <<from, to, want, pc, shut, hello, broken, conns>>

\* ... then close every connection of the table and empty it.
StopWipe(n) ==
    /\ stopped[n] = "cancelled"
    /\ stopped' = [stopped EXCEPT ![n] = "wiped"]
    /\ shut' = [x \in Side |-> shut[x] \/ \E p \in Node : conns[n][p] = x]
    /\ conns' = [conns EXCEPT ![n] = [p \in Node |-> NoConn]]
    /\ UNCHANGED <<from, to, want, pc, hello, broken>>

\* The network breaks a connection.
Break(s) ==
    /\ Cardinality(broken) < MaxBreaks
    /\ pc[Dial(s)] # "unused"
    /\ broken' = broken \cup {s}
    /\ UNCHANGED <<from, to, want, pc, shut, hello, conns, stopped>>

-------------------------------------------------------------------------------
DialStep(s)   == WriteHandshake(s) \/ DialFails(s) \/ DialRegisters(s)
AcceptStep(s) == \/ AcceptConn(s) \/ ReadHandshake(s) \/ HandshakeFails(s)
                 \/ ReplyHandshake(s) \/ AcceptRegisters(s)
ReadLoopStep(x)   == LoopHead(x) \/ ReadFails(x) \/ Leave(x)

ConnsNext ==
    \/ \E s \in Sock : \/ ConnectDirect(s) \/ GetOrConnect(s)
                       \/ DialStep(s) \/ AcceptStep(s) \/ Break(s)
    \/ \E x \in Side : ReadLoopStep(x) \/ FrameHandled(x) \/ CloseOnStop(x)
    \/ \E n \in Stops : StopCancel(n) \/ StopWipe(n)
    \/ \E l \in Lost : PeerLost(l[1], l[2])

\* The two goroutines of a connection run, the runtime runs AfterFuncs, and a
\* Stop that was begun goes on.  Nobody has to dial, send a frame or stop.
ConnsFairness ==
    /\ \A s \in Sock : /\ WF_connVars(DialStep(s) \/ ReadLoopStep(Dial(s)))
                      /\ WF_connVars(AcceptStep(s) \/ ReadLoopStep(Accept(s)))
    /\ \A x \in Side : WF_connVars(CloseOnStop(x))
    /\ \A n \in Stops : WF_connVars(StopWipe(n))

ConnsSpec == ConnsInit /\ [][ConnsNext]_connVars
ConnsFairSpec == ConnsSpec /\ ConnsFairness

-------------------------------------------------------------------------------
\* An entry of the table always has its read loop: a Send or Call that finds
\* it never gets a connection nobody reads from or will ever remove.
EntryHasLoop ==
    \A n, p \in Node : Known(n, p) =>
        LET x == conns[n][p]
        IN  pc[x] \in Looping /\ Owner(x) = n /\ PeerOf(x) = p

\* One live connection per peer: a read loop whose connection is not the one
\* in the table has had its socket closed, so it is about to end.
OneLiveConn ==
    \A x \in Side :
        pc[x] \in Looping => conns[Owner(x)][PeerOf(x)] = x \/ shut[x]

\* Stop is final: from some point on the table is empty and no goroutine of
\* the node is left, whatever was being dialled or accepted when it was called.
StopDrains ==
    \A n \in Stops :
        (stopped[n] = "cancelled") ~>
            [](/\ \A p \in Node : ~Known(n, p)
               /\ \A x \in Side : Owner(x) = n => pc[x] = "done")

Registered(x) == Owner(x) # NoConn /\ conns[Owner(x)][PeerOf(x)] = x

\* A connection that only one of its nodes has in its table, because the other
\* rejected, lost or dropped it, or is not that far yet, does not stay so: a
\* node does not go on sending into a connection its peer has given up.
HalfOpenHeals ==
    []<>(\A s \in Sock : Registered(Dial(s)) <=> Registered(Accept(s)))
===============================================================================
