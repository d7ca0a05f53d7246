--------------------------- MODULE NodeConnsProofs ----------------------------
(***************************************************************************)
(* Proofs about the connection table of module NodeConns, for any number   *)
(* of nodes and connections, any pattern of dialling, losing and stopping. *)
(*                                                                         *)
(* The two properties of the table need each other: that a new entry does  *)
(* not leave an older read loop behind follows from the older one being    *)
(* closed when it is not in the table (OneLiveConn), and that the deferred *)
(* delete takes away the right entry from the entry's owner being its loop *)
(* (EntryHasLoop).  Dialled adds that the nodes of a connection are fixed  *)
(* from the dial on.                                                       *)
(*                                                                         *)
(* The last part is about the pooled buffers the nodes' dispatch loops     *)
(* read into (module BufPool): every use of a slab is a reference, and its *)
(* uses are one connection's, so the last release is that of the last use. *)
(***************************************************************************)
EXTENDS NodeConns, BufPool, TLAPS

\* Leaves go to Zenon; the ones that need arithmetic or sequences name SMT.
USE Zenon

Dialled ==
    \A s \in Sock :
        /\ pc[Dial(s)] = "unused" <=> pc[Accept(s)] = "unused"
        /\ pc[Dial(s)] # "unused" => from[s] \in Node /\ to[s] \in Node

Inv == ConnsTyped /\ Dialled /\ EntryHasLoop /\ OneLiveConn

-------------------------------------------------------------------------------
\* The sides of a connection.
LEMMA Sides ==
    /\ \A s \in Sock : /\ Dial(s) \in Side /\ Accept(s) \in Side
                       /\ Dial(s) # Accept(s)
                       /\ Dial(s)[1] = s /\ Dial(s)[2] = "dial"
                       /\ Accept(s)[1] = s /\ Accept(s)[2] = "accept"
    /\ \A x \in Side : /\ x[1] \in Sock
                       /\ x = Dial(x[1]) \/ x = Accept(x[1])
    /\ NoConn \notin Side
BY SMT, ConnsAssumption DEF Side, Dial, Accept

\* The places of a goroutine that the proofs tell apart.
LEMMA Places ==
    /\ Looping \subseteq Place /\ Handshaking \subseteq Place
    /\ "looking" \in Looping /\ "reading" \in Looping
    /\ {"unused", "leaving", "done"} \cap Looping = {}
    /\ Handshaking \cap Looping = {}
    /\ {"unused", "leaving", "done"} \subseteq Place
    /\ {"dialled", "waiting", "backlog", "accepted", "replying", "replied"}
          \subseteq Handshaking
BY DEF Looping, Handshaking, Place

\* Freshly started nodes satisfy the invariant.
LEMMA InitInv == ConnsInit => Inv
<1> SUFFICES ASSUME ConnsInit PROVE Inv
  OBVIOUS
<1>1. ConnsTyped
  BY Places DEF ConnsInit, ConnsTyped
<1>2. Dialled
  BY Sides DEF ConnsInit, Dialled
<1>3. EntryHasLoop /\ OneLiveConn
  BY Places DEF ConnsInit, EntryHasLoop, OneLiveConn, Known
<1> QED
  BY <1>1, <1>2, <1>3 DEF Inv

\* A side in its read loop belongs to a dialled connection of two nodes.
LEMMA LoopOwned ==
    ASSUME Inv, NEW x \in Side, pc[x] # "unused"
    PROVE  Owner(x) \in Node /\ PeerOf(x) \in Node
BY ZenonT(60), Sides DEF Inv, Dialled, Owner, PeerOf

\* The elementary effects keep the types.
LEMMA Effects ==
    ASSUME ConnsTyped
    PROVE  /\ \A x \in Side, place \in Place :
                 Goto(x, place) => pc' \in [Side -> Place]
           /\ \A x \in Side : Close(x) => shut' \in [Side -> BOOLEAN]
           /\ \A n, p \in Node, x \in Side \cup {NoConn} :
                 Set(n, p, x) => conns' \in [Node -> [Node -> Side \cup {NoConn}]]
<1>1. ASSUME NEW n \in Node, NEW p \in Node, NEW x \in Side \cup {NoConn}, Set(n, p, x)
      PROVE  conns' \in [Node -> [Node -> Side \cup {NoConn}]]
  <2>1. [conns[n] EXCEPT ![p] = x] \in [Node -> Side \cup {NoConn}]
    BY DEF ConnsTyped
  <2>2. conns' = [conns EXCEPT ![n] = [conns[n] EXCEPT ![p] = x]]
    BY <1>1 DEF Set
  <2> QED
    BY <2>1, <2>2 DEF ConnsTyped
<1>2. \A x \in Side, place \in Place : Goto(x, place) => pc' \in [Side -> Place]
  BY DEF ConnsTyped, Goto
<1>3. \A x \in Side : Close(x) => shut' \in [Side -> BOOLEAN]
  BY DEF ConnsTyped, Close
<1> QED
  BY <1>1, <1>2, <1>3

\* Every step keeps the types.
LEMMA TypeStep == Inv /\ [ConnsNext]_connVars => ConnsTyped'
<1> SUFFICES ASSUME Inv, [ConnsNext]_connVars PROVE ConnsTyped'
  OBVIOUS
<1>0. ConnsTyped /\ Dialled
  BY DEF Inv
<1>P. /\ {"unused", "leaving", "done", "looking", "reading", "dialled",
          "waiting", "backlog", "accepted", "replying", "replied"} \subseteq Place
  BY DEF Place, Looping, Handshaking
<1>1. ASSUME NEW s \in Sock, ConnectDirect(s) \/ GetOrConnect(s)
      PROVE  ConnsTyped'
  <2>1. PICK n \in Node, q \in Node, w \in Node \cup {NoConn} :
           Connects(s, n, q) /\ (want' = want \/ want' = [want EXCEPT ![s] = w])
    BY <1>1, ConnsAssumption DEF ConnectDirect, GetOrConnect
  <2>2. pc' \in [Side -> Place]
    BY <1>0, <1>P, <2>1, Sides DEF Connects, ConnsTyped
  <2> QED
    BY <1>0, <2>1, <2>2 DEF Connects, ConnsTyped
<1>2. ASSUME NEW s \in Sock, WriteHandshake(s) \/ DialFails(s)
      PROVE  ConnsTyped'
  <2>1. pc' \in [Side -> Place] /\ shut' \in [Side -> BOOLEAN]
    BY SMT, <1>0, <1>P, <1>2, Effects, Sides DEF WriteHandshake, DialFails, ConnsTyped
  <2>2. hello' \in [Side -> BOOLEAN]
    BY ZenonT(60), <1>0, <1>2, Sides DEF WriteHandshake, DialFails, ConnsTyped
  <2> QED
    BY <1>0, <1>2, <2>1, <2>2 DEF WriteHandshake, DialFails, ConnsTyped
<1>3. ASSUME NEW s \in Sock, DialRegisters(s)
      PROVE  ConnsTyped'
  <2>1. from[s] \in Node /\ to[s] \in Node /\ Dial(s) \in Side
    BY <1>0, <1>3, Sides DEF DialRegisters, Dialled
  <2>2. pc' \in [Side -> Place] /\ shut' \in [Side -> BOOLEAN]
    BY <1>0, <1>P, <1>3, <2>1, Effects DEF DialRegisters, ConnsTyped
  <2>3. conns' \in [Node -> [Node -> Side \cup {NoConn}]]
    BY <1>0, <1>3, <2>1, Effects DEF DialRegisters, Duplicate, ConnsTyped
  <2> QED
    BY <1>0, <1>3, <2>2, <2>3 DEF DialRegisters, ConnsTyped
<1>4. ASSUME NEW s \in Sock, AcceptConn(s) \/ HandshakeFails(s) \/ ReplyHandshake(s)
      PROVE  ConnsTyped'
  <2>1. pc' \in [Side -> Place] /\ shut' \in [Side -> BOOLEAN]
    BY <1>0, <1>P, <1>4, Effects, Sides
       DEF AcceptConn, HandshakeFails, ReplyHandshake, ConnsTyped
  <2>2. hello' \in [Side -> BOOLEAN]
    BY ZenonT(60), <1>0, <1>4, Sides DEF AcceptConn, HandshakeFails, ReplyHandshake, ConnsTyped
  <2> QED
    BY <1>0, <1>4, <2>1, <2>2
       DEF AcceptConn, HandshakeFails, ReplyHandshake, ConnsTyped
<1>5. ASSUME NEW s \in Sock, ReadHandshake(s) \/ AcceptRegisters(s)
      PROVE  ConnsTyped'
  <2>1. from[s] \in Node /\ to[s] \in Node /\ Accept(s) \in Side
    BY <1>0, <1>5, Sides DEF ReadHandshake, AcceptRegisters, Dialled
  <2>2. pc' \in [Side -> Place]
    BY <1>0, <1>P, <1>5, <2>1, Effects DEF ReadHandshake, AcceptRegisters
  <2>3. conns' \in [Node -> [Node -> Side \cup {NoConn}]]
    BY <1>0, <1>5, <2>1, Effects
       DEF ReadHandshake, AcceptRegisters, Duplicate, ConnsTyped
  <2> QED
    BY <1>0, <1>5, <2>2, <2>3 DEF ReadHandshake, AcceptRegisters, ConnsTyped
<1>6. ASSUME NEW s \in Sock, Break(s)
      PROVE  ConnsTyped'
  BY <1>0, <1>6 DEF Break, ConnsTyped
<1>7. ASSUME NEW x \in Side, LoopHead(x) \/ ReadFails(x)
      PROVE  ConnsTyped'
  <2>1. Owner(x) \in Node /\ PeerOf(x) \in Node
    BY <1>7, LoopOwned DEF LoopHead, ReadFails
  <2>2. pc' \in [Side -> Place]
    BY <1>0, <1>P, <1>7, Effects DEF LoopHead, ReadFails
  <2>3. conns' \in [Node -> [Node -> Side \cup {NoConn}]]
    BY <1>0, <1>7, <2>1, Effects DEF LoopHead, ReadFails, Unregister, ConnsTyped
  <2> QED
    BY <1>0, <1>7, <2>2, <2>3 DEF LoopHead, ReadFails, ConnsTyped
<1>8. ASSUME NEW x \in Side, Leave(x) \/ FrameHandled(x) \/ CloseOnStop(x)
      PROVE  ConnsTyped'
  <2>1. pc' \in [Side -> Place] /\ shut' \in [Side -> BOOLEAN]
    BY <1>0, <1>P, <1>8, Effects DEF Leave, FrameHandled, CloseOnStop, ConnsTyped
  <2> QED
    BY <1>0, <1>8, <2>1 DEF Leave, FrameHandled, CloseOnStop, ConnsTyped
<1>9. ASSUME NEW n \in Node, NEW p \in Node, PeerLost(n, p)
      PROVE  ConnsTyped'
  <2>1. conns' \in [Node -> [Node -> Side \cup {NoConn}]]
    BY <1>0, <1>9, Effects DEF PeerLost
  <2>2. shut' \in [Side -> BOOLEAN]
    BY <1>0, <1>9 DEF PeerLost, ShutByLost, ConnsTyped
  <2> QED
    BY <1>0, <1>9, <2>1, <2>2 DEF PeerLost, ConnsTyped
<1>10. ASSUME NEW n \in Node, StopCancel(n) \/ StopWipe(n)
      PROVE  ConnsTyped'
  <2>1. stopped' \in [Node -> {"no", "cancelled", "wiped"}]
    BY <1>0, <1>10 DEF StopCancel, StopWipe, ConnsTyped
  <2>2. CASE StopCancel(n)
    BY <1>0, <2>1, <2>2 DEF StopCancel, ConnsTyped
  <2>3. CASE StopWipe(n)
    <3>1. shut' \in [Side -> BOOLEAN]
      BY <1>0, <2>3 DEF StopWipe, ConnsTyped
    <3>2. [p \in Node |-> NoConn] \in [Node -> Side \cup {NoConn}]
      OBVIOUS
    <3>3. conns' \in [Node -> [Node -> Side \cup {NoConn}]]
      BY <1>0, <2>3, <3>2 DEF StopWipe, ConnsTyped
    <3> QED
      BY <1>0, <2>1, <2>3, <3>1, <3>3 DEF StopWipe, ConnsTyped
  <2> QED
    BY <1>10, <2>2, <2>3
<1>11. CASE UNCHANGED connVars
  BY <1>0, <1>11 DEF connVars, ConnsTyped
<1>12. \A l \in Lost : l[1] \in Node /\ l[2] \in Node
  BY ConnsAssumption
<1> QED
  BY <1>1, <1>2, <1>3, <1>4, <1>5, <1>6, <1>7, <1>8, <1>9, <1>10, <1>11, <1>12,
     ConnsAssumption
     DEF ConnsNext, DialStep, AcceptStep, ReadLoopStep

\* The nodes of a dialled connection are fixed, and no end reopens.
LEMMA Stable ==
    ASSUME Inv, [ConnsNext]_connVars
    PROVE  /\ Dialled'
           /\ \A x \in Side : pc[x] # "unused" =>
                 /\ Owner(x)' = Owner(x) /\ PeerOf(x)' = PeerOf(x)
                 /\ pc'[x] # "unused"
           /\ \A x \in Side : shut[x] => shut'[x]
<1> DEFINE Same == from' = from /\ to' = to
           Used == \A x \in Side : pc'[x] = "unused" <=> pc[x] = "unused"
           Kept == \A x \in Side : shut[x] => shut'[x]
<1>0. ConnsTyped /\ Dialled
  BY DEF Inv
<1>1. ASSUME Same, Used
      PROVE  /\ Dialled'
             /\ \A x \in Side : pc[x] # "unused" =>
                   /\ Owner(x)' = Owner(x) /\ PeerOf(x)' = PeerOf(x)
                   /\ pc'[x] # "unused"
  BY SMT, <1>0, <1>1, Sides DEF Dialled, Owner, PeerOf
<1>2. ASSUME NEW x \in Side, NEW place, place # "unused", pc[x] # "unused",
             Goto(x, place)
      PROVE  Used
  BY <1>0, <1>2 DEF Goto, ConnsTyped
<1>3. ASSUME NEW x \in Side, Close(x) PROVE Kept
  BY <1>0, <1>3 DEF Close, ConnsTyped
<1>4. ASSUME NEW s \in Sock, ConnectDirect(s) \/ GetOrConnect(s)
      PROVE  /\ Dialled' /\ Kept
             /\ \A x \in Side : pc[x] # "unused" =>
                   /\ Owner(x)' = Owner(x) /\ PeerOf(x)' = PeerOf(x)
                   /\ pc'[x] # "unused"
  <2>1. PICK n \in Node, q \in Node : Connects(s, n, q)
    BY <1>4, ConnsAssumption DEF ConnectDirect, GetOrConnect
  <2>2. /\ pc[Dial(s)] = "unused" /\ pc[Accept(s)] = "unused"
        /\ pc'[Dial(s)] = "dialled" /\ pc'[Accept(s)] = "backlog"
        /\ from'[s] = n /\ to'[s] = q
    BY SMT, <1>0, <2>1, Sides DEF Connects, ConnsTyped, Dialled
  <2>3. \A t \in Sock : t # s => /\ from'[t] = from[t] /\ to'[t] = to[t]
                                 /\ pc'[Dial(t)] = pc[Dial(t)]
                                 /\ pc'[Accept(t)] = pc[Accept(t)]
    BY SMT, <1>0, <2>1, Sides DEF Connects, ConnsTyped
  <2>4. Dialled'
    BY <1>0, <2>2, <2>3 DEF Dialled
  <2>5. Kept
    BY <2>1 DEF Connects
  <2>6. \A x \in Side : pc[x] # "unused" => x[1] \in Sock /\ x[1] # s
    BY SMT, <2>2, Sides
  <2> QED
    BY SMT, <2>3, <2>4, <2>5, <2>6, Sides DEF Owner, PeerOf
<1>5. ASSUME NEW s \in Sock, DialStep(s)
      PROVE  Same /\ Used /\ Kept
  <2>1. Same
    BY <1>5 DEF DialStep, WriteHandshake, DialFails, DialRegisters
  <2>2. Used
    BY <1>2, <1>5, Sides DEF DialStep, WriteHandshake, DialFails, DialRegisters
  <2>3. Kept
    BY <1>3, <1>5, Sides DEF DialStep, WriteHandshake, DialFails, DialRegisters
  <2> QED
    BY <2>1, <2>2, <2>3
<1>6. ASSUME NEW s \in Sock, AcceptStep(s)
      PROVE  Same /\ Used /\ Kept
  <2>1. Same
    BY <1>6 DEF AcceptStep, AcceptConn, ReadHandshake, HandshakeFails,
                ReplyHandshake, AcceptRegisters
  <2>2. Used
    BY <1>2, <1>6, Sides
       DEF AcceptStep, AcceptConn, ReadHandshake, HandshakeFails,
           ReplyHandshake, AcceptRegisters
  <2>3. Kept
    BY <1>3, <1>6, Sides
       DEF AcceptStep, AcceptConn, ReadHandshake, HandshakeFails,
           ReplyHandshake, AcceptRegisters
  <2> QED
    BY <2>1, <2>2, <2>3
<1>7. ASSUME NEW x \in Side, ReadLoopStep(x) \/ FrameHandled(x) \/ CloseOnStop(x)
      PROVE  Same /\ Used /\ Kept
  <2>1. Same
    BY <1>7 DEF ReadLoopStep, LoopHead, ReadFails, Leave, FrameHandled, CloseOnStop
  <2>2. Used
    BY <1>2, <1>7 DEF ReadLoopStep, LoopHead, ReadFails, Leave, FrameHandled, CloseOnStop
  <2>3. Kept
    BY <1>3, <1>7 DEF ReadLoopStep, LoopHead, ReadFails, Leave, FrameHandled, CloseOnStop
  <2> QED
    BY <2>1, <2>2, <2>3
<1>8. ASSUME NEW s \in Sock, Break(s) PROVE Same /\ Used /\ Kept
  BY <1>8 DEF Break
<1>9. ASSUME NEW n \in Node, StopCancel(n) \/ StopWipe(n)
      PROVE  Same /\ Used /\ Kept
  BY <1>0, <1>9 DEF StopCancel, StopWipe, ConnsTyped
<1>10. ASSUME NEW n \in Node, NEW p \in Node, PeerLost(n, p)
       PROVE  Same /\ Used /\ Kept
  BY <1>0, <1>10 DEF PeerLost, ShutByLost, ConnsTyped
<1>11. CASE UNCHANGED connVars
  <2>1. Same /\ Used /\ Kept
    BY <1>11 DEF connVars
  <2> QED
    BY <1>1, <2>1
<1>12. /\ \A l \in Lost : l[1] \in Node /\ l[2] \in Node
       /\ \A n \in Stops : n \in Node
  BY ConnsAssumption
<1> HIDE DEF Same, Used
<1>13. CASE ConnsNext
  <2>1. \/ \E s \in Sock : ConnectDirect(s) \/ GetOrConnect(s)
        \/ Same /\ Used /\ Kept
    BY <1>5, <1>6, <1>7, <1>8, <1>9, <1>10, <1>12, <1>13 DEF ConnsNext
  <2> QED
    BY <1>1, <1>4, <2>1
<1> QED
  BY <1>11, <1>13

-------------------------------------------------------------------------------
\* The table and the read loops.  A step leaves both as they are, registers a
\* connection where there was none, ends a loop and removes its own entry, or
\* removes entries and closes their connections.
LEMMA TableStep == Inv /\ [ConnsNext]_connVars => EntryHasLoop' /\ OneLiveConn'
<1> SUFFICES ASSUME Inv, [ConnsNext]_connVars PROVE EntryHasLoop' /\ OneLiveConn'
  OBVIOUS
<1> DEFINE Table == EntryHasLoop' /\ OneLiveConn'
           OnlyMoves(x) == \A y \in Side : y # x => pc'[y] = pc[y]
<1>0. ConnsTyped /\ Dialled /\ EntryHasLoop /\ OneLiveConn
  BY DEF Inv
<1>1. /\ \A x \in Side : pc[x] \in Looping =>
            /\ Owner(x) \in Node /\ PeerOf(x) \in Node
            /\ Owner(x)' = Owner(x) /\ PeerOf(x)' = PeerOf(x)
      /\ \A x \in Side : shut[x] => shut'[x]
  BY Stable, LoopOwned, Places
<1>2. \A n, p \in Node : conns[n][p] # NoConn => conns[n][p] \in Side
  BY SMT, <1>0 DEF ConnsTyped
<1>3. ASSUME conns' = conns,
             \A x \in Side : pc'[x] \in Looping <=> pc[x] \in Looping
      PROVE  Table
  BY <1>0, <1>1, <1>2, <1>3 DEF EntryHasLoop, OneLiveConn, Known
<1>4. ASSUME NEW x \in Side, OnlyMoves(x), pc[x] \notin Looping,
             pc'[x] \in Looping, pc[x] # "unused",
             conns[Owner(x)][PeerOf(x)] = NoConn,
             Set(Owner(x), PeerOf(x), x)
      PROVE  Table
  <2>1. /\ Owner(x) \in Node /\ PeerOf(x) \in Node
        /\ Owner(x)' = Owner(x) /\ PeerOf(x)' = PeerOf(x)
    BY <1>4, Stable, LoopOwned
  <2>2. /\ conns'[Owner(x)][PeerOf(x)] = x
        /\ \A n, p \in Node : <<n, p>> # <<Owner(x), PeerOf(x)>> =>
              conns'[n][p] = conns[n][p]
    BY <1>0, <1>4, <2>1 DEF Set, ConnsTyped
  <2>3. EntryHasLoop'
    BY SMT, <1>0, <1>1, <1>2, <1>4, <2>1, <2>2 DEF EntryHasLoop, Known
  <2>4. ASSUME NEW y \in Side, pc'[y] \in Looping, y # x
        PROVE  conns'[Owner(y)'][PeerOf(y)'] = y \/ shut'[y]
    <3>1. /\ pc[y] \in Looping /\ Owner(y) \in Node /\ PeerOf(y) \in Node
          /\ Owner(y)' = Owner(y) /\ PeerOf(y)' = PeerOf(y)
      BY <1>1, <1>4, <2>4
    <3>2. conns[Owner(y)][PeerOf(y)] = y \/ shut[y]
      BY <1>0, <3>1 DEF OneLiveConn
    <3> QED
      BY SMT, <1>1, <1>4, <2>2, <3>1, <3>2, Sides
  <2> QED
    BY <2>1, <2>2, <2>3, <2>4 DEF OneLiveConn
<1>5. ASSUME NEW x \in Side, OnlyMoves(x), pc[x] \in Looping,
             pc'[x] \notin Looping, Unregister(x)
      PROVE  Table
  <2>1. /\ Owner(x) \in Node /\ PeerOf(x) \in Node
    BY <1>1, <1>5
  <2>2. \A n, p \in Node :
           \/ conns'[n][p] = conns[n][p] /\ conns[n][p] # x
           \/ conns'[n][p] = NoConn /\ conns[n][p] = x
    <3>1. \A n, p \in Node : conns[n][p] = x => n = Owner(x) /\ p = PeerOf(x)
      BY SMT, <1>0, Sides DEF EntryHasLoop, Known
    <3>2. CASE conns[Owner(x)][PeerOf(x)] = x
      BY SMTT(60), <1>0, <1>5, <2>1, <3>1, <3>2 DEF Unregister, Set, ConnsTyped
    <3>3. CASE conns[Owner(x)][PeerOf(x)] # x
      BY <1>5, <3>1, <3>3 DEF Unregister
    <3> QED
      BY <3>2, <3>3
  <2>3. EntryHasLoop'
    BY SMT, <1>0, <1>1, <1>2, <1>5, <2>2 DEF EntryHasLoop, Known
  <2>4. OneLiveConn'
    BY SMT, <1>0, <1>1, <1>5, <2>2 DEF OneLiveConn
  <2> QED
    BY <2>3, <2>4
<1>6. ASSUME pc' = pc,
             \A n, p \in Node :
                \/ conns'[n][p] = conns[n][p]
                \/ conns'[n][p] = NoConn /\ (conns[n][p] # NoConn => shut'[conns[n][p]])
      PROVE  Table
  <2>1. EntryHasLoop'
    BY SMT, <1>0, <1>1, <1>2, <1>6 DEF EntryHasLoop, Known
  <2>2. OneLiveConn'
    BY SMT, <1>0, <1>1, <1>6, Sides DEF OneLiveConn
  <2> QED
    BY <2>1, <2>2
<1> HIDE DEF Table
<1>7. ASSUME NEW x \in Side, NEW place, Goto(x, place)
      PROVE  /\ OnlyMoves(x) /\ pc'[x] = place
             /\ (place \in Looping <=> pc[x] \in Looping) =>
                   \A y \in Side : pc'[y] \in Looping <=> pc[y] \in Looping
  BY <1>0, <1>7 DEF Goto, ConnsTyped
<1> HIDE DEF OnlyMoves
<1>8. ASSUME NEW s \in Sock, ConnectDirect(s) \/ GetOrConnect(s) PROVE Table
  <2>1. PICK n, q : Connects(s, n, q)
    BY <1>8 DEF ConnectDirect, GetOrConnect
  <2>2. \A x \in Side : pc'[x] \in Looping <=> pc[x] \in Looping
    BY SMTT(60), <1>0, <2>1, Sides, Places DEF Connects, ConnsTyped, Dialled
  <2> QED
    BY <1>3, <2>1, <2>2 DEF Connects
<1>9. ASSUME NEW s \in Sock, DialStep(s) PROVE Table
  <2>1. CASE WriteHandshake(s) \/ DialFails(s)
    BY SMT, <1>3, <1>7, <2>1, Sides, Places DEF WriteHandshake, DialFails
  <2>2. CASE DialRegisters(s)
    <3>1. /\ Dial(s) \in Side /\ pc[Dial(s)] = "waiting"
          /\ Owner(Dial(s)) = from[s] /\ PeerOf(Dial(s)) = to[s]
      BY <2>2, Sides DEF DialRegisters, Owner, PeerOf
    <3>2. CASE Goto(Dial(s), "done") /\ conns' = conns
      BY <1>3, <1>7, <3>1, <3>2, Places
    <3>3. CASE /\ Goto(Dial(s), "looking") /\ Set(from[s], to[s], Dial(s))
               /\ ~Duplicate(from[s], to[s])
      BY SMT, <1>4, <1>7, <3>1, <3>3, Places DEF Duplicate, Known
    <3> QED
      BY <2>2, <3>2, <3>3 DEF DialRegisters
  <2> QED
    BY <1>9, <2>1, <2>2 DEF DialStep
<1>10. ASSUME NEW s \in Sock, AcceptStep(s) PROVE Table
  <2>0. Accept(s) \in Side /\ Owner(Accept(s)) = to[s] /\ PeerOf(Accept(s)) = from[s]
    BY Sides DEF Owner, PeerOf
  <2>1. CASE AcceptConn(s) \/ ReadHandshake(s) \/ HandshakeFails(s)
    BY SMT, <1>3, <1>7, <2>0, <2>1, Places
       DEF AcceptConn, ReadHandshake, HandshakeFails
  <2>2. CASE ReplyHandshake(s)
    BY ZenonT(60), <1>3, <1>7, <2>0, <2>2, Places DEF ReplyHandshake
  <2>3. CASE AcceptRegisters(s)
    <3>1. CASE Goto(Accept(s), "leaving") /\ conns' = conns
      BY <1>3, <1>7, <2>0, <2>3, <3>1, Places DEF AcceptRegisters
    <3>2. CASE /\ Goto(Accept(s), "looking") /\ Set(to[s], from[s], Accept(s))
               /\ ~Duplicate(to[s], from[s])
      BY SMT, <1>4, <1>7, <2>0, <2>3, <3>2, Places DEF AcceptRegisters, Duplicate, Known
    <3> QED
      BY <2>3, <3>1, <3>2 DEF AcceptRegisters
  <2> QED
    BY <1>10, <2>1, <2>2, <2>3 DEF AcceptStep
<1>11. ASSUME NEW x \in Side, ReadLoopStep(x) \/ FrameHandled(x) \/ CloseOnStop(x)
       PROVE  Table
  <2>1. CASE LoopHead(x)
    BY <1>3, <1>5, <1>7, <2>1, Places DEF LoopHead
  <2>2. CASE ReadFails(x)
    BY <1>5, <1>7, <2>2, Places DEF ReadFails
  <2>3. CASE Leave(x)
    BY <1>3, <1>7, <2>3, Places DEF Leave
  <2>4. CASE FrameHandled(x)
    BY <1>3, <1>7, <2>4, Places DEF FrameHandled
  <2>5. CASE CloseOnStop(x)
    BY <1>3, <2>5 DEF CloseOnStop
  <2> QED
    BY <1>11, <2>1, <2>2, <2>3, <2>4, <2>5 DEF ReadLoopStep
<1>12. ASSUME NEW n \in Node, NEW p \in Node, PeerLost(n, p) PROVE Table
  <2>1. conns[n][p] \in Side /\ shut'[conns[n][p]]
    BY <1>0, <1>2, <1>12 DEF PeerLost, ShutByLost, Known, ConnsTyped
  <2>2. \A m, q \in Node : \/ conns'[m][q] = conns[m][q]
                           \/ m = n /\ q = p /\ conns'[m][q] = NoConn
    BY <1>0, <1>12 DEF PeerLost, Set, ConnsTyped
  <2>3. pc' = pc
    BY <1>12 DEF PeerLost
  <2> QED
    BY <1>6, <2>1, <2>2, <2>3
<1>13. ASSUME NEW n \in Node, StopCancel(n) \/ StopWipe(n) PROVE Table
  <2>1. CASE StopCancel(n)
    BY <1>3, <2>1 DEF StopCancel
  <2>2. CASE StopWipe(n)
    <3>1. \A p \in Node : /\ conns'[n][p] = NoConn
                          /\ conns[n][p] # NoConn => shut'[conns[n][p]]
      BY <1>0, <1>2, <2>2 DEF StopWipe, ConnsTyped
    <3>2. \A m, p \in Node : m # n => conns'[m][p] = conns[m][p]
      BY <1>0, <2>2 DEF StopWipe, ConnsTyped
    <3>3. pc' = pc
      BY <2>2 DEF StopWipe
    <3> QED
      BY ZenonT(60), <1>6, <3>1, <3>2, <3>3
  <2> QED
    BY <1>13, <2>1, <2>2
<1>14. ASSUME NEW s \in Sock, Break(s) PROVE Table
  BY <1>3, <1>14 DEF Break
<1>15. CASE UNCHANGED connVars
  BY <1>3, <1>15 DEF connVars, Table
<1>16. /\ \A l \in Lost : l[1] \in Node /\ l[2] \in Node
       /\ \A n \in Stops : n \in Node
  BY ConnsAssumption
<1>17. CASE ConnsNext
  BY <1>8, <1>9, <1>10, <1>11, <1>12, <1>13, <1>14, <1>16, <1>17
     DEF ConnsNext, Table
<1> QED
  BY <1>15, <1>17

\* The invariant is inductive.
LEMMA ConnsInvariant == ConnsSpec => []Inv
<1>1. Inv /\ [ConnsNext]_connVars => Inv'
  BY TypeStep, Stable, TableStep DEF Inv
<1> QED
  BY InitInv, <1>1, PTL DEF ConnsSpec

\* Every variable keeps its type.
THEOREM ConnsTypeOK == ConnsSpec => []ConnsTyped
<1>1. Inv => ConnsTyped
  BY DEF Inv
<1> QED
  BY ConnsInvariant, <1>1, PTL

\* Whatever getOrConnect finds in the table has a goroutine that reads from it
\* and will take it out again.
THEOREM ConnsEntryHasLoop == ConnsSpec => []EntryHasLoop
<1>1. Inv => EntryHasLoop
  BY DEF Inv
<1> QED
  BY ConnsInvariant, <1>1, PTL

\* However dials, accepts, losses and stops interleave, a node has at most one
\* connection per peer that is neither closed nor closing.
THEOREM ConnsOneLiveConn == ConnsSpec => []OneLiveConn
<1>1. Inv => OneLiveConn
  BY DEF Inv
<1> QED
  BY ConnsInvariant, <1>1, PTL

-------------------------------------------------------------------------------
(* The pooled read buffers of module BufPool. *)

\* The references that loop l, its channel and its caller account for on slab s;
\* between attachToMessage and the delivery the loop has two.
Uses(l, s) ==
    (IF hold[l].slab = s THEN IF stage[l] = "deliver" THEN 2 ELSE 1 ELSE 0)
      + (IF chan[l].slab = s THEN 1 ELSE 0)
      + (IF got[l].slab = s THEN 1 ELSE 0)

\* The types, with what a loop's place says of its hold.
PoolTypes ==
    LET Held == [slab : Slab, frame : Nat \ {0}] \cup {Nothing} IN
    /\ frames \in Nat
    /\ content \in [Slab -> Nat] /\ refs \in [Slab -> Nat] /\ pool \in [Slab -> {0, 1}]
    /\ stage \in [Loop -> {"idle", "request", "response", "deliver", "drop"}]
    /\ hold \in [Loop -> Held] /\ chan \in [Loop -> Held] /\ got \in [Loop -> Held]
    /\ \A l \in Loop : hold[l] = Nothing <=> stage[l] = "idle"

\* No slab has fewer references than uses ...
Covered == \A l \in Loop, s \in Slab : Uses(l, s) <= refs[s]
\* ... its uses are one connection's ...
OneUser == \A l, m \in Loop, s \in Slab : Uses(l, s) > 0 /\ Uses(m, s) > 0 => l = m
\* ... while it has references it is not pooled ...
OutOfPool == \A s \in Slab : refs[s] > 0 => pool[s] = 0 /\ content[s] > 0
\* ... and what is held is what it contains.
Intact ==
    \A l \in Loop : \A h \in {hold[l], chan[l], got[l]} :
        h # Nothing => content[h.slab] = h.frame

PoolInv == PoolTypes /\ Covered /\ OneUser /\ OutOfPool /\ Intact

\* An empty pool satisfies the invariant.
LEMMA PoolInitInv == PoolInit => PoolInv
BY SMT, PoolAssumption
   DEF PoolInit, PoolInv, PoolTypes, Covered, OneUser, OutOfPool, Intact, Uses, Nothing

\* Whatever is held counts as a use.
LEMMA HeldIsUsed ==
    ASSUME PoolTypes, NEW l \in Loop
    PROVE  /\ \A s \in Slab : Uses(l, s) \in Nat
           /\ \A h \in {hold[l], chan[l], got[l]} :
                 h # Nothing => h.slab \in Slab /\ Uses(l, h.slab) > 0
BY SMT, PoolAssumption DEF PoolTypes, Uses, Nothing

\* Giving up a use together with its reference keeps a slab's books: the last
\* release pools it, when nothing uses it any more.
LEMMA ReleaseKeeps ==
    ASSUME PoolInv, PoolTypes', NEW l \in Loop, NEW s \in Slab, release(s), content' = content,
           Uses(l, s) > 0,
           \A m \in Loop, t \in Slab :
               Uses(m, t)' = IF m = l /\ t = s THEN Uses(m, t) - 1 ELSE Uses(m, t)
    PROVE  Covered' /\ OneUser' /\ OutOfPool'
<1>1. /\ \A m \in Loop, t \in Slab : Uses(m, t) \in Nat
      /\ refs \in [Slab -> Nat] /\ pool \in [Slab -> {0, 1}]
  BY HeldIsUsed DEF PoolInv, PoolTypes
<1>2. Covered' /\ OneUser'
  BY SMT, <1>1 DEF PoolInv, Covered, OneUser, release
<1>3. OutOfPool'
  BY SMT, <1>1 DEF PoolInv, OutOfPool, release
<1> QED BY <1>2, <1>3

\* Every read of a frame keeps the invariant: the slab it fills is in nobody's
\* hands.
LEMMA ReadKeepsPool ==
    ASSUME PoolInv, NEW l \in Loop, NEW s \in Slab,
           NEW k \in {"request", "response", "torn"}, readMessageRawPooled(l, s, k)
    PROVE  PoolInv'
<1> USE PoolAssumption
<1>1. refs[s] = 0 /\ \A m \in Loop : Uses(m, s) = 0
  <2>1. refs[s] = 0
    BY SMT DEF PoolInv, PoolTypes, OutOfPool, readMessageRawPooled, getBuf
  <2> QED BY SMT, <2>1, HeldIsUsed DEF PoolInv, Covered
<1>2. \A m \in Loop : \A h \in {hold[m], chan[m], got[m]} :
         h # Nothing => h.slab \in Slab /\ h.slab # s
  BY SMT, <1>1, HeldIsUsed DEF PoolInv
<1>3. /\ frames \in Nat /\ frames' = frames + 1 /\ chan' = chan /\ got' = got
      /\ content' = [content EXCEPT ![s] = frames + 1]
  BY DEF readMessageRawPooled, PoolInv, PoolTypes
<1>4. CASE k = "torn"
  <2>1. /\ refs' = [refs EXCEPT ![s] = 0] /\ pool' = [pool EXCEPT ![s] = IF @ > 0 THEN @ ELSE 1]
        /\ hold' = hold /\ stage' = stage
    BY <1>4 DEF readMessageRawPooled
  <2>2. PoolTypes'
    BY SMT, <1>3, <2>1 DEF PoolInv, PoolTypes, Nothing
  <2>3. \A m \in Loop, t \in Slab : Uses(m, t)' = Uses(m, t)
    BY <1>3, <2>1 DEF Uses
  <2>4. Covered' /\ OneUser'
    BY SMT, <1>1, <2>1, <2>3 DEF PoolInv, PoolTypes, Covered, OneUser
  <2>5. OutOfPool'
    BY SMT, <1>3, <2>1 DEF PoolInv, PoolTypes, OutOfPool
  <2>6. Intact'
    BY SMT, <1>2, <1>3, <2>1 DEF PoolInv, PoolTypes, Intact
  <2> QED BY <2>2, <2>4, <2>5, <2>6 DEF PoolInv
<1>5. CASE k # "torn"
  <2> DEFINE new == [slab |-> s, frame |-> frames + 1]
  <2>1. /\ stage[l] = "idle" /\ stage' = [stage EXCEPT ![l] = k] /\ hold' = [hold EXCEPT ![l] = new]
        /\ refs' = [refs EXCEPT ![s] = 1] /\ pool' = [pool EXCEPT ![s] = IF @ > 0 THEN @ - 1 ELSE 0]
    BY <1>5 DEF readMessageRawPooled
  <2>2. PoolTypes'
    BY SMT, <1>3, <1>5, <2>1 DEF PoolInv, PoolTypes, Nothing
  <2>3. \A m \in Loop, t \in Slab :
           Uses(m, t)' = IF m = l /\ t = s THEN 1 ELSE Uses(m, t)
    BY SMT, <1>1, <1>3, <1>5, <2>1 DEF PoolInv, PoolTypes, Uses, Nothing
  <2>4. Covered' /\ OneUser'
    BY SMT, <1>1, <2>1, <2>3 DEF PoolInv, PoolTypes, Covered, OneUser
  <2>5. OutOfPool'
    BY SMT, <1>3, <2>1 DEF PoolInv, PoolTypes, OutOfPool
  <2>6. Intact'
    BY SMT, <1>2, <1>3, <2>1 DEF PoolInv, PoolTypes, Intact
  <2> QED BY <2>2, <2>4, <2>5, <2>6 DEF PoolInv
<1> QED BY <1>4, <1>5

\* Every step of a loop or a caller keeps it too.
LEMMA PoolStepInv == PoolInv /\ [PoolNext]_poolVars => PoolInv'
<1> SUFFICES ASSUME PoolInv, [PoolNext]_poolVars PROVE PoolInv'
  OBVIOUS
<1> USE PoolAssumption
<1>1. ASSUME NEW l \in Loop, Retain(l) PROVE PoolInv'
  <2> DEFINE s == hold[l].slab
  <2>1. /\ refs' = [refs EXCEPT ![s] = @ + 1] /\ stage' = [stage EXCEPT ![l] = "deliver"]
        /\ stage[l] = "response"
        /\ content' = content /\ pool' = pool /\ hold' = hold /\ chan' = chan /\ got' = got
        /\ frames' = frames
    BY <1>1 DEF Retain, retain
  <2>2. s \in Slab /\ Uses(l, s) > 0
    BY <2>1, HeldIsUsed DEF PoolInv, PoolTypes
  <2>3. PoolTypes'
    BY SMT, <2>1, <2>2 DEF PoolInv, PoolTypes, Nothing
  <2>4. \A m \in Loop, t \in Slab :
           Uses(m, t)' = IF m = l /\ t = s THEN Uses(m, t) + 1 ELSE Uses(m, t)
    BY SMT, <2>1 DEF Uses, PoolInv, PoolTypes
  <2>5. Covered' /\ OneUser'
    BY SMT, <2>1, <2>2, <2>4, HeldIsUsed DEF PoolInv, PoolTypes, Covered, OneUser
  <2>6. OutOfPool' /\ Intact'
    BY SMT, <2>1, <2>2, HeldIsUsed DEF PoolInv, PoolTypes, Covered, OutOfPool, Intact
  <2> QED BY <2>3, <2>5, <2>6 DEF PoolInv
<1>2. ASSUME NEW l \in Loop, Deliver(l) PROVE PoolInv'
  <2> DEFINE s == hold[l].slab
  <2>1. /\ stage' = [stage EXCEPT ![l] = "drop"] /\ stage[l] = "deliver"
        /\ content' = content /\ hold' = hold /\ got' = got /\ frames' = frames
    BY <1>2 DEF Deliver
  <2>2. s \in Slab /\ hold[l] # Nothing /\ Uses(l, s) > 0
    BY <2>1, HeldIsUsed DEF PoolInv, PoolTypes
  <2>3. CASE chan[l] = Nothing /\ chan' = [chan EXCEPT ![l] = hold[l]] /\ UNCHANGED <<refs, pool>>
    <3>1. PoolTypes'
      BY SMT, <2>1, <2>3 DEF PoolInv, PoolTypes, Nothing
    <3>2. \A m \in Loop, t \in Slab : Uses(m, t)' = Uses(m, t)
      BY SMT, <2>1, <2>3 DEF Uses, PoolInv, PoolTypes, Nothing
    <3>3. Covered' /\ OneUser' /\ OutOfPool'
      BY <2>1, <2>3, <3>2 DEF PoolInv, Covered, OneUser, OutOfPool
    <3>4. Intact'
      BY SMT, <2>1, <2>2, <2>3 DEF PoolInv, PoolTypes, Intact
    <3> QED BY <3>1, <3>3, <3>4 DEF PoolInv
  <2>4. CASE release(s) /\ UNCHANGED chan
    <3>1. PoolTypes'
      BY SMT, <2>1, <2>2, <2>4, HeldIsUsed DEF PoolInv, PoolTypes, Covered, OutOfPool, release
    <3>2. \A m \in Loop, t \in Slab :
             Uses(m, t)' = IF m = l /\ t = s THEN Uses(m, t) - 1 ELSE Uses(m, t)
      BY SMT, <2>1, <2>4 DEF Uses, PoolInv, PoolTypes, Nothing
    <3>3. Covered' /\ OneUser' /\ OutOfPool'
      BY <2>1, <2>2, <2>4, <3>1, <3>2, ReleaseKeeps
    <3>4. Intact'
      BY <2>1, <2>4 DEF PoolInv, Intact
    <3> QED BY <3>1, <3>3, <3>4 DEF PoolInv
  <2> QED BY <1>2, <2>3, <2>4 DEF Deliver
<1>3. ASSUME NEW l \in Loop, Drop(l) PROVE PoolInv'
  <2> DEFINE s == hold[l].slab
  <2>1. /\ release(s) /\ hold' = [hold EXCEPT ![l] = Nothing]
        /\ stage' = [stage EXCEPT ![l] = "idle"] /\ stage[l] \in {"drop", "request"}
        /\ content' = content /\ chan' = chan /\ got' = got /\ frames' = frames
    BY <1>3 DEF Drop
  <2>2. s \in Slab /\ hold[l] # Nothing /\ Uses(l, s) > 0
    BY <2>1, HeldIsUsed DEF PoolInv, PoolTypes
  <2>3. PoolTypes'
    BY SMT, <2>1, <2>2, HeldIsUsed DEF PoolInv, PoolTypes, Covered, OutOfPool, release, Nothing
  <2>4. \A m \in Loop, t \in Slab :
           Uses(m, t)' = IF m = l /\ t = s THEN Uses(m, t) - 1 ELSE Uses(m, t)
    BY SMT, <2>1 DEF Uses, PoolInv, PoolTypes, Nothing
  <2>5. Covered' /\ OneUser' /\ OutOfPool'
    BY <2>1, <2>2, <2>3, <2>4, ReleaseKeeps
  <2>6. Intact'
    BY SMT, <2>1 DEF PoolInv, PoolTypes, Intact
  <2> QED BY <2>3, <2>5, <2>6 DEF PoolInv
<1>4. ASSUME NEW l \in Loop, Release(l) PROVE PoolInv'
  <2> DEFINE s == got[l].slab
  <2>1. /\ release(s) /\ got' = [got EXCEPT ![l] = Nothing]
        /\ stage' = stage
        /\ content' = content /\ hold' = hold /\ chan' = chan /\ frames' = frames
    BY <1>4 DEF Release
  <2>2. s \in Slab /\ got[l] # Nothing /\ Uses(l, s) > 0
    BY <1>4, HeldIsUsed DEF PoolInv, Release
  <2>3. PoolTypes'
    BY SMT, <2>1, <2>2, HeldIsUsed DEF PoolInv, PoolTypes, Covered, OutOfPool, release, Nothing
  <2>4. \A m \in Loop, t \in Slab :
           Uses(m, t)' = IF m = l /\ t = s THEN Uses(m, t) - 1 ELSE Uses(m, t)
    BY SMT, <2>1 DEF Uses, PoolInv, PoolTypes, Nothing
  <2>5. Covered' /\ OneUser' /\ OutOfPool'
    BY <2>1, <2>2, <2>3, <2>4, ReleaseKeeps
  <2>6. Intact'
    BY SMT, <2>1 DEF PoolInv, PoolTypes, Intact
  <2> QED BY <2>3, <2>5, <2>6 DEF PoolInv
<1>5. ASSUME NEW l \in Loop, CallStarts(l) PROVE PoolInv'
  <2>1. PoolTypes'
    BY SMT, <1>5 DEF CallStarts, PoolInv, PoolTypes
  <2>2. \A m \in Loop, t \in Slab : Uses(m, t)' <= Uses(m, t) /\ Uses(m, t)' \in Nat
    BY SMT, <1>5 DEF CallStarts, Uses, PoolInv, PoolTypes, Nothing
  <2>3. Covered' /\ OneUser' /\ OutOfPool'
    <3>1. \A m \in Loop, t \in Slab : Uses(m, t) \in Nat /\ refs[t] \in Nat
      BY HeldIsUsed DEF PoolInv, PoolTypes
    <3>2. refs' = refs /\ pool' = pool /\ content' = content
      BY <1>5 DEF CallStarts
    <3>3. Covered'
      BY SMT, <2>2, <3>1, <3>2 DEF PoolInv, Covered
    <3>4. OneUser'
      BY SMT, <2>2, <3>1 DEF PoolInv, OneUser
    <3> QED BY <3>2, <3>3, <3>4 DEF PoolInv, OutOfPool
  <2>4. Intact'
    BY SMT, <1>5 DEF CallStarts, PoolInv, PoolTypes, Intact
  <2> QED BY <2>1, <2>3, <2>4 DEF PoolInv
<1>6. ASSUME NEW l \in Loop, CallTakes(l) PROVE PoolInv'
  <2>1. PoolTypes'
    BY SMT, <1>6 DEF CallTakes, PoolInv, PoolTypes
  <2>2. \A m \in Loop, t \in Slab : Uses(m, t)' <= Uses(m, t) /\ Uses(m, t)' \in Nat
    BY SMT, <1>6 DEF CallTakes, Uses, PoolInv, PoolTypes, Nothing
  <2>3. Covered' /\ OneUser' /\ OutOfPool'
    <3>1. \A m \in Loop, t \in Slab : Uses(m, t) \in Nat /\ refs[t] \in Nat
      BY HeldIsUsed DEF PoolInv, PoolTypes
    <3>2. refs' = refs /\ pool' = pool /\ content' = content
      BY <1>6 DEF CallTakes
    <3>3. Covered'
      BY SMT, <2>2, <3>1, <3>2 DEF PoolInv, Covered
    <3>4. OneUser'
      BY SMT, <2>2, <3>1 DEF PoolInv, OneUser
    <3> QED BY <3>2, <3>3, <3>4 DEF PoolInv, OutOfPool
  <2>4. Intact'
    BY SMT, <1>6 DEF CallTakes, PoolInv, PoolTypes, Intact
  <2> QED BY <2>1, <2>3, <2>4 DEF PoolInv
<1>7. CASE UNCHANGED <<frames, content, refs, pool, stage, hold, chan, got>>
  <2>1. \A m \in Loop, t \in Slab : Uses(m, t)' = Uses(m, t)
    BY <1>7 DEF Uses
  <2>2. PoolTypes' /\ OutOfPool' /\ Intact'
    BY SMT, <1>7 DEF PoolInv, PoolTypes, OutOfPool, Intact
  <2> QED BY <1>7, <2>1, <2>2 DEF PoolInv, Covered, OneUser
<1> QED
  BY <1>1, <1>2, <1>3, <1>4, <1>5, <1>6, <1>7, ReadKeepsPool
     DEF PoolNext, CallGivesUp, poolVars

\* A frame that a dispatch loop, a channel or a Call still holds is intact in its
\* slab, and no slab is pooled twice (bufRef.retain and release): for any number
\* of connections, slabs and frames.
THEOREM PoolHeldIsIntact == PoolSpec => []HeldIsIntact
<1>1. PoolInv => HeldIsIntact
  BY SMT, HeldIsUsed
     DEF PoolInv, PoolTypes, Covered, OutOfPool, Intact, HeldIsIntact
<1> QED BY <1>1, PoolInitInv, PoolStepInv, PTL DEF PoolSpec
===============================================================================
