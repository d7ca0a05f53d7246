---------------------------- MODULE QuicNodeProofs ----------------------------
(***************************************************************************)
(* Nodes over QUIC, for any nodes, connections and calls: the table of     *)
(* transports tells the truth, and Call implements AtMostOnceCall.         *)
(*                                                                         *)
(* Everything rests on where a connection in a table leads (Placed): it    *)
(* was entered under the peer at its other end, and only such connections  *)
(* are handed to calls (Leads).                                            *)
(*                                                                         *)
(* And one connection's control stream (QuicConn), for any goroutines that *)
(* send on it: what one end wrote is made of frames (Outgoing), and what   *)
(* the other end has read of it decides what its handlers were given       *)
(* (Incoming).                                                             *)
(***************************************************************************)
EXTENDS QuicNode, QuicConn, Integers, TLAPS

\* Leaves go to Zenon; the ones that need arithmetic or sequences name SMT.
USE Zenon

Served(c, x) == side[c][x] \in {"serving", "late"}
\* End x of connection c is at n, and the other one at p.
Joins(c, x, n, p) == At(c, x) = n /\ At(c, Other(x)) = p

\* A connection that was dialled has its ends, the dialler's at the caller.
HasEnds(c) ==
    /\ side[c]["d"] = "unused" => side[c]["l"] = "unused"
    /\ side[c]["d"] # "unused" => \A x \in End : At(c, x) \in Node
    /\ side[c]["d"] # "unused" /\ for[c] # None => At(c, "d") = From[for[c]]
Dialled == \A c \in Conn : HasEnds(c)

\* A connection in a table is served, and leads to the peer it is under.
Placed ==
    \A n, p \in Node, c \in Conn : table[n][p] = c =>
        \E x \in End : Joins(c, x, n, p) /\ Served(c, x)

\* A served connection is in its node's table until Stop has emptied it.  Of a
\* connection from a node to itself one end is.
InTable(c, x) ==
    /\ side[c][x] = "closing" => stop[At(c, x)] = "done"
    /\ Served(c, x) /\ stop[At(c, x)] # "done" =>
          /\ table[At(c, x)][At(c, Other(x))] = c
          /\ At(c, "d") = At(c, "l") => ~Served(c, Other(x))
Found == \A c \in Conn, x \in End : InTable(c, x)

\* The connection of a call leads to its peer.
Leads ==
    \A k \in Call : on[k] # None =>
        /\ side[on[k]]["d"] # "unused"
        /\ \E x \in End : Joins(on[k], x, From[k], To[k])

\* A handler runs for a call that was sent, and answers after it ran.
Answered(k) ==
    /\ ran[k] # "none" \/ call[k] = "waiting" =>
          call[k] \in {"waiting"} \cup Done /\ on[k] # None
    /\ reply[k] = "sent" => ran[k] = "replied"
Handlers == \A k \in Call : Answered(k)

Inv == QuicNodeTypeOK /\ Dialled /\ Placed /\ Found /\ Leads /\ Handlers

-------------------------------------------------------------------------------
(* The steps by what they do to the connections and to the calls.             *)

States == {"unused", "queued", "open", "serving", "late", "closing", "closed"}
SideType == [Conn -> [End -> States]]

\* Nothing is served or dialled: ends are accepted or given up.
Rests ==
    /\ UNCHANGED <<table, ends, for>>
    /\ \A c \in Conn, x \in End :
          \/ side'[c][x] = side[c][x]
          \/ side[c][x] \in {"queued", "open"} /\ side'[c][x] \in {"open", "closed"}
    /\ \A n \in Node : stop'[n] = "done" <=> stop[n] = "done"
Dials(c) ==
    /\ \E n, m \in Node, k \in Call \cup {None} :
          Dial(c, n, m, k) /\ (k # None => n = From[k])
    /\ UNCHANGED stop
Enters(c, x) ==
    /\ side[c][x] = "open" /\ table[At(c, x)][At(c, Other(x))] = None
    /\ Enter(c, x, At(c, x), At(c, Other(x)))
    /\ UNCHANGED <<ends, for, stop>>

Connects ==
    \/ Rests
    \/ \E c \in Conn : Dials(c) \/ \E x \in End : Enters(c, x) \/ ServeEnds(c, x)
    \/ \E n \in Node : StopWipe(n)
\* A call gets the connection its table has for the peer, or none.
Hands == \A k \in Call : on'[k] \in {on[k], None, table'[From[k]][To[k]]}

LEMMA Ends == "d" \in End /\ "l" \in End /\ (\A x \in End : x = "d" \/ x = "l")
              /\ Other("d") = "l" /\ Other("l") = "d"
              /\ \A x \in End : Other(x) \in End /\ Other(Other(x)) = x /\ Other(x) # x
  BY DEF End, Other

\* One end changes, and no other.
Sets(c, x, s) == side' = [side EXCEPT ![c][x] = s]
OnlyEnd(c, x, s) ==
    /\ side' \in SideType
    /\ \A e \in Conn, y \in End : side'[e][y] = IF e = c /\ y = x THEN s ELSE side[e][y]

LEMMA OneEnd ==
    ASSUME side \in SideType, NEW c \in Conn, NEW x \in End, NEW s \in States, Sets(c, x, s)
    PROVE  OnlyEnd(c, x, s)
<1>1. side[c] \in [End -> States]
  BY DEF SideType
<1>2. PICK g : g = [side[c] EXCEPT ![x] = s]
  OBVIOUS
<1>3. g \in [End -> States] /\ \A y \in End : g[y] = IF y = x THEN s ELSE side[c][y]
  BY <1>1, <1>2
<1>4. side' = [side EXCEPT ![c] = g]
  BY SMT, <1>2 DEF Sets
<1>5. side' \in SideType /\ \A e \in Conn : side'[e] = IF e = c THEN g ELSE side[e]
  BY <1>3, <1>4 DEF SideType
<1>6. ASSUME NEW e \in Conn, NEW y \in End
      PROVE  side'[e][y] = IF e = c /\ y = x THEN s ELSE side[e][y]
  <2>1. CASE e = c
    BY SMT, <1>3, <1>5, <2>1
  <2>2. CASE e # c
    BY SMT, <1>5, <2>2
  <2> QED
    BY <2>1, <2>2
<1> QED
  BY <1>5, <1>6 DEF OnlyEnd

LEMMA OneEntry ==
    ASSUME table \in [Node -> [Node -> Conn \cup {None}]], NEW n \in Node, NEW p \in Node,
           NEW c \in Conn, table' = [table EXCEPT ![n][p] = c]
    PROVE  /\ table' \in [Node -> [Node -> Conn \cup {None}]]
           /\ \A m, q \in Node :
                 table'[m][q] = IF m = n /\ q = p THEN c ELSE table[m][q]
<1>1. table[n] \in [Node -> Conn \cup {None}]
  OBVIOUS
<1>2. PICK g : g = [table[n] EXCEPT ![p] = c]
  OBVIOUS
<1>3. /\ g \in [Node -> Conn \cup {None}]
      /\ \A q \in Node : g[q] = IF q = p THEN c ELSE table[n][q]
  BY <1>1, <1>2
<1>4. table' = [table EXCEPT ![n] = g]
  BY SMT, <1>2
<1>5. /\ table' \in [Node -> [Node -> Conn \cup {None}]]
      /\ \A m \in Node : table'[m] = IF m = n THEN g ELSE table[m]
  BY <1>3, <1>4
<1> QED
  BY <1>3, <1>5

\* The states of the ends and the ends themselves, by the step.
LEMMA DialStep ==
    ASSUME QuicNodeTypeOK, NEW c \in Conn, NEW n \in Node, NEW m \in Node,
           NEW k \in Call \cup {None}, Dial(c, n, m, k)
    PROVE  /\ side' \in SideType /\ ends' \in [Conn -> [End -> Node \cup {None}]]
           /\ for' \in [Conn -> Call \cup {None}] /\ for'[c] = k
           /\ ends'[c]["d"] = n /\ ends'[c]["l"] = m
           /\ side'[c]["d"] = "open" /\ side'[c]["l"] \in {"queued", "closed"}
           /\ side[c]["d"] = "unused"
           /\ \A e \in Conn : e # c => /\ side'[e] = side[e] /\ ends'[e] = ends[e]
                                       /\ for'[e] = for[e]
<1>1. PICK g : g = [x \in End |-> IF x = "d" THEN n ELSE m]
  OBVIOUS
<1>2. g \in [End -> Node \cup {None}] /\ g["d"] = n /\ g["l"] = m
  BY <1>1, Ends
<1>3. PICK h : h = [x \in End |-> IF x = "d" THEN "open" ELSE
                                    IF stop[m] = "no" THEN "queued" ELSE "closed"]
  OBVIOUS
<1>4. h \in [End -> States] /\ h["d"] = "open" /\ h["l"] \in {"queued", "closed"}
  BY <1>3, Ends DEF States
<1>5. /\ side \in [Conn -> [End -> States]] /\ ends \in [Conn -> [End -> Node \cup {None}]]
      /\ for \in [Conn -> Call \cup {None}]
  BY DEF QuicNodeTypeOK, States
<1>6. /\ side' = [side EXCEPT ![c] = h] /\ ends' = [ends EXCEPT ![c] = g]
      /\ for' = [for EXCEPT ![c] = k] /\ side[c]["d"] = "unused"
  BY <1>1, <1>3 DEF Dial
<1> QED
  BY <1>2, <1>4, <1>5, <1>6 DEF SideType

\* A connection that enters the table, and one that is refused.
LEMMA EnterStep ==
    ASSUME QuicNodeTypeOK, NEW c \in Conn, NEW x \in End, NEW n \in Node, NEW p \in Node,
           Enter(c, x, n, p)
    PROVE  /\ side' \in SideType /\ table' \in [Node -> [Node -> Conn \cup {None}]]
           /\ table'[n][p] # None /\ (table[n][p] # None => table' = table)
           /\ \A m, q \in Node :
                 table'[m][q] = IF m = n /\ q = p /\ table[n][p] = None THEN c ELSE table[m][q]
           /\ table[n][p] = None => side'[c][x] \in {"serving", "late"}
           /\ table[n][p] # None => side'[c][x] = "closed"
           /\ \A e \in Conn, y \in End : (e # c \/ y # x) => side'[e][y] = side[e][y]
<1>0. /\ side \in SideType /\ table \in [Node -> [Node -> Conn \cup {None}]]
      /\ c # None
  BY QuicAssumption DEF QuicNodeTypeOK, SideType, States, QuicAssumption
<1>1. CASE table[n][p] = None
  <2>1. PICK s \in {"serving", "late"} : side' = [side EXCEPT ![c][x] = s]
    BY <1>1 DEF Enter
  <2>2. s \in States /\ table' = [table EXCEPT ![n][p] = c]
    BY <1>1 DEF States, Enter
  <2>3. /\ side' \in SideType
        /\ \A e \in Conn, y \in End :
              side'[e][y] = IF e = c /\ y = x THEN s ELSE side[e][y]
    <3>1. Sets(c, x, s)
      BY <1>0, <2>1, <2>2 DEF Sets
    <3>2. OnlyEnd(c, x, s)
      BY <3>1, <1>0, <2>1, <2>2, OneEnd
    <3> QED
      BY <3>2 DEF OnlyEnd
  <2>4. /\ table' \in [Node -> [Node -> Conn \cup {None}]]
        /\ \A m, q \in Node : table'[m][q] = IF m = n /\ q = p THEN c ELSE table[m][q]
    BY SMT, <1>0, <2>2, OneEntry
  <2>5. side'[c][x] = s /\ table'[n][p] = c
    BY <2>3, <2>4
  <2>6. \A e \in Conn, y \in End : (e # c \/ y # x) => side'[e][y] = side[e][y]
    BY <2>3
  <2> QED
    BY <1>0, <1>1, <2>3, <2>4, <2>5, <2>6
<1>2. CASE table[n][p] # None
  <2>1. side' = [side EXCEPT ![c][x] = "closed"] /\ table' = table /\ "closed" \in States
    BY <1>2 DEF Enter, States
  <2>2. /\ side' \in SideType
        /\ \A e \in Conn, y \in End :
              side'[e][y] = IF e = c /\ y = x THEN "closed" ELSE side[e][y]
    <3>1. Sets(c, x, "closed")
      BY <1>0, <2>1 DEF Sets
    <3>2. OnlyEnd(c, x, "closed")
      BY <3>1, <1>0, <2>1, OneEnd
    <3> QED
      BY <3>2 DEF OnlyEnd
  <2>3. side'[c][x] = "closed"
    BY <2>2
  <2>4. \A e \in Conn, y \in End : (e # c \/ y # x) => side'[e][y] = side[e][y]
    BY <2>2
  <2> QED
    BY <1>0, <1>2, <2>1, <2>2, <2>3, <2>4
<1> QED
  BY <1>1, <1>2

\* What a served connection that ends leaves in the table.
LEMMA LeaveStep ==
    ASSUME QuicNodeTypeOK, Dialled, NEW c \in Conn, NEW x \in End, ServeEnds(c, x)
    PROVE  /\ side' \in SideType /\ table' \in [Node -> [Node -> Conn \cup {None}]]
           /\ At(c, x) \in Node /\ side[c][x] \in {"late", "serving", "closing"}
           /\ side'[c][x] = "closed"
           /\ \A e \in Conn, y \in End : (e # c \/ y # x) => side'[e][y] = side[e][y]
           /\ \A m, q \in Node :
                 table'[m][q] = IF m = At(c, x) /\ table[m][q] = c THEN None ELSE table[m][q]
<1>0. /\ side \in SideType /\ table \in [Node -> [Node -> Conn \cup {None}]]
  BY DEF QuicNodeTypeOK, SideType, States
<1>1. side[c][x] \in {"late", "serving", "closing"} /\ table' = Remove(c, At(c, x))
      /\ side' = [side EXCEPT ![c][x] = "closed"] /\ "closed" \in States
  BY DEF ServeEnds, States
<1>2. /\ side' \in SideType
      /\ \A e \in Conn, y \in End :
            side'[e][y] = IF e = c /\ y = x THEN "closed" ELSE side[e][y]
  <2>1. Sets(c, x, "closed")
    BY <1>0, <1>1 DEF Sets
  <2>2. OnlyEnd(c, x, "closed")
    BY <2>1, <1>0, <1>1, OneEnd
  <2> QED
    BY <2>2 DEF OnlyEnd
<1>3. At(c, x) \in Node
  <2>1. side[c]["d"] # "unused"
    BY <1>1, Ends DEF Dialled, HasEnds
  <2> QED
    BY <2>1 DEF Dialled, HasEnds
<1>4. PICK n \in Node : n = At(c, x)
  BY <1>3
<1>5. PICK g : g = [p \in Node |-> IF table[n][p] = c THEN None ELSE table[n][p]]
  OBVIOUS
<1>6. table' = [table EXCEPT ![n] = g]
  BY SMT, <1>0, <1>1, <1>4, <1>5 DEF Remove
<1>7. /\ g \in [Node -> Conn \cup {None}]
      /\ \A q \in Node : g[q] = IF table[n][q] = c THEN None ELSE table[n][q]
  BY <1>0, <1>5
<1>8. /\ table' \in [Node -> [Node -> Conn \cup {None}]]
      /\ \A m \in Node : table'[m] = IF m = n THEN g ELSE table[m]
  BY <1>0, <1>6, <1>7
<1>9. ASSUME NEW m \in Node, NEW q \in Node
      PROVE  table'[m][q] = IF m = At(c, x) /\ table[m][q] = c THEN None ELSE table[m][q]
  BY <1>4, <1>7, <1>8
<1>10. side'[c][x] = "closed"
  BY <1>2
<1>11. \A e \in Conn, y \in End : (e # c \/ y # x) => side'[e][y] = side[e][y]
  BY <1>2
<1> QED
  BY <1>1, <1>2, <1>3, <1>8, <1>9, <1>10, <1>11

\* Stop closes what its node's table has.
LEMMA WipeStep ==
    ASSUME QuicNodeTypeOK, NEW n \in Node, StopWipe(n)
    PROVE  /\ side' \in SideType /\ table' \in [Node -> [Node -> Conn \cup {None}]]
           /\ stop' \in [Node -> {"no", "cancelled", "done"}]
           /\ \A m \in Node : stop'[m] = IF m = n THEN "done" ELSE stop[m]
           /\ \A m, q \in Node : table'[m][q] = IF m = n THEN None ELSE table[m][q]
           /\ \A c \in Conn, x \in End :
                 \/ side'[c][x] = side[c][x]
                 \/ /\ side'[c][x] = "closing" /\ At(c, x) = n
                    /\ \E p \in Node : table[n][p] = c
           /\ \A c \in Conn, x \in End, p \in Node :
                 At(c, x) = n /\ table[n][p] = c => side'[c][x] = "closing"
<1>0. /\ side \in SideType /\ table \in [Node -> [Node -> Conn \cup {None}]]
      /\ stop \in [Node -> {"no", "cancelled", "done"}]
  BY DEF QuicNodeTypeOK, SideType, States
<1> DEFINE w(c, x) == IF At(c, x) = n /\ (\E p \in Node : table[n][p] = c)
                      THEN "closing" ELSE side[c][x]
<1>1. side' = [c \in Conn |-> [x \in End |-> w(c, x)]]
  BY DEF StopWipe, Wipe
<1>2. \A c \in Conn, x \in End : w(c, x) \in States
  BY <1>0 DEF SideType, States
<1>3. \A c \in Conn, x \in End : side'[c][x] = w(c, x)
  BY <1>1
<1>4. side' \in SideType
  <2> HIDE DEF w
  <2> QED
    BY <1>1, <1>2 DEF SideType
<1>5. PICK g : g = [p \in Node |-> None]
  OBVIOUS
<1>6. g \in [Node -> Conn \cup {None}] /\ \A q \in Node : g[q] = None
  BY <1>5
<1>7. table' = [table EXCEPT ![n] = g] /\ stop' = [stop EXCEPT ![n] = "done"]
  BY <1>5 DEF StopWipe
<1>8. /\ table' \in [Node -> [Node -> Conn \cup {None}]]
      /\ \A m \in Node : table'[m] = IF m = n THEN g ELSE table[m]
  BY <1>0, <1>6, <1>7
<1>9. /\ stop' \in [Node -> {"no", "cancelled", "done"}]
      /\ \A m \in Node : stop'[m] = IF m = n THEN "done" ELSE stop[m]
  BY <1>0, <1>7
<1> QED
  BY ZenonT(60), <1>3, <1>4, <1>6, <1>8, <1>9

-------------------------------------------------------------------------------
\* What the steps have in common, by the kind of step: accepting, entering, dialling,
\* ending and the calls.
Steps == QuicNodeTypeOK' /\ Connects /\ Hands

CallType ==
    /\ call \in [Call -> {"idle", "connect", "open", "waiting", "panicked"} \cup Done]
    /\ on \in [Call -> Conn \cup {None}] /\ answer \in [Call -> Call \cup {None}]
    /\ ran \in [Call -> {"none", "running", "replied", "silent"}]
    /\ reply \in [Call -> {"none", "sent", "closed"}]
NodeType ==
    /\ shaken \in [Conn -> BOOLEAN] /\ dead \in [Conn -> BOOLEAN]
    /\ accepting \in [Node -> BOOLEAN]
ConnType ==
    /\ table \in [Node -> [Node -> Conn \cup {None}]] /\ side \in SideType
    /\ ends \in [Conn -> [End -> Node \cup {None}]] /\ for \in [Conn -> Call \cup {None}]
    /\ stop \in [Node -> {"no", "cancelled", "done"}]

LEMMA TypeParts ==
    /\ QuicNodeTypeOK <=> CallType /\ NodeType /\ ConnType
    /\ QuicNodeTypeOK' <=> CallType' /\ NodeType' /\ ConnType'
  BY DEF QuicNodeTypeOK, CallType, NodeType, ConnType, SideType, States

LEMMA KeepsCalls == ASSUME UNCHANGED calls PROVE Hands /\ (CallType => CallType')
  BY DEF calls, Hands, CallType

LEMMA AcceptSteps ==
    ASSUME Inv, NEW c \in Conn, Accept(c) \/ AcceptFails(c) PROVE Steps
<1>1. CallType /\ NodeType /\ ConnType
  BY TypeParts DEF Inv
<1>0. PICK x \in End : x = "l"
  BY Ends
<1>2. PICK s \in {"open", "closed"} : /\ side' = [side EXCEPT ![c][x] = s]
                                      /\ side[c][x] = "queued"
  BY <1>0 DEF Accept, AcceptFails
<1>3. s \in States /\ side \in SideType
  BY <1>1 DEF States, ConnType
<1>4. /\ side' \in SideType
      /\ \A e \in Conn, y \in End :
            side'[e][y] = IF e = c /\ y = x THEN s ELSE side[e][y]
  <2>1. Sets(c, x, s)
    BY <1>2, <1>3 DEF Sets
  <2>2. OnlyEnd(c, x, s)
    BY <2>1, <1>2, <1>3, OneEnd
  <2> QED
    BY <2>2 DEF OnlyEnd
<1>5. UNCHANGED <<table, ends, for, stop, calls>>
  BY DEF Accept, AcceptFails
<1>6. Rests
  BY ZenonT(60), <1>2, <1>4, <1>5 DEF Rests
<1>7. NodeType'
  BY <1>1 DEF Accept, AcceptFails, NodeType
<1> QED
  BY <1>1, <1>4, <1>5, <1>6, <1>7, KeepsCalls, TypeParts DEF Steps, Connects, ConnType, calls

LEMMA AcceptedSteps ==
    ASSUME Inv, NEW c \in Conn, onAcceptedTransportConn(c) PROVE Steps
<1>1. CallType /\ NodeType /\ ConnType /\ QuicNodeTypeOK
  BY TypeParts DEF Inv
<1>2. /\ side[c]["l"] = "open" /\ Enter(c, "l", At(c, "l"), At(c, "d"))
      /\ UNCHANGED <<ends, for, shaken, dead, calls, accepting, stop>>
  BY DEF onAcceptedTransportConn
<1>3. "l" \in End /\ "d" \in End /\ Other("l") = "d" /\ At(c, "l") \in Node /\ At(c, "d") \in Node
  BY <1>2, Ends DEF Inv, Dialled, HasEnds
<1>0. PICK x \in End, n \in Node, p \in Node :
        /\ x = "l" /\ n = At(c, x) /\ p = At(c, Other(x)) /\ Enter(c, x, n, p)
  BY <1>2, <1>3
<1>4. /\ side' \in SideType /\ table' \in [Node -> [Node -> Conn \cup {None}]]
      /\ table[n][p] # None =>
            /\ table' = table /\ side'[c][x] = "closed"
            /\ \A e \in Conn, y \in End : (e # c \/ y # x) => side'[e][y] = side[e][y]
  BY SMT, <1>0, <1>1, EnterStep
<1>5. Connects
  <2>1. CASE table[n][p] = None
    BY <1>0, <1>2, <2>1 DEF Connects, Enters
  <2>2. CASE table[n][p] # None
    <3>1. Rests
      BY <1>0, <1>2, <1>4, <2>2 DEF Rests
    <3> QED
      BY <3>1 DEF Connects
  <2> QED
    BY <2>1, <2>2
<1>6. ConnType' /\ NodeType' /\ CallType' /\ Hands
  BY <1>1, <1>2, <1>4, KeepsCalls DEF ConnType, NodeType
<1> QED
  BY <1>5, <1>6, TypeParts DEF Steps

LEMMA DialReturnsSteps ==
    ASSUME Inv, NEW c \in Conn, DialReturns(c) PROVE Steps
<1>1. CallType /\ NodeType /\ ConnType /\ QuicNodeTypeOK /\ Dialled
  BY TypeParts DEF Inv
<1>2. /\ side[c]["d"] = "open"
      /\ UNCHANGED <<ends, for, shaken, dead, ran, reply, answer, accepting, stop>>
  BY DEF DialReturns
<1>3. /\ "l" \in End /\ "d" \in End /\ Other("d") = "l"
      /\ At(c, "l") \in Node /\ At(c, "d") \in Node /\ for[c] \in Call \cup {None}
      /\ for[c] # None => for[c] \in Call /\ At(c, "d") = From[for[c]]
  BY ZenonT(60), <1>1, <1>2, Ends DEF Dialled, HasEnds, ConnType
<1>0. PICK x \in End : x = "d" /\ side[c][x] = "open" /\ Other(x) = "l"
  BY <1>2, <1>3
<1>4. PICK n, k, p :
        /\ n \in Node /\ k \in Call \cup {None}
        /\ n = At(c, "d") /\ k = for[c] /\ p = IF k = None THEN At(c, "l") ELSE To[k]
  BY <1>3
<1>5. /\ IF Expected(c) THEN Enter(c, x, n, p)
         ELSE side' = [side EXCEPT ![c][x] = "closed"] /\ UNCHANGED table
      /\ IF k = None \/ call[k] # "connect" THEN UNCHANGED <<call, on>>
         ELSE /\ call' = [call EXCEPT ![k] = IF Expected(c) THEN "open" ELSE "failed"]
              /\ on' = [on EXCEPT ![k] = IF Expected(c) THEN table'[n][p] ELSE None]
  BY <1>0, <1>4 DEF DialReturns
<1>6. Expected(c) => p = At(c, "l")
  BY <1>4 DEF Expected
<1>7. /\ ConnType' /\ Connects
      /\ Expected(c) => table'[n][p] \in Conn \cup {None}
  <2>1. CASE Expected(c)
    <3>1. p \in Node /\ p = At(c, "l") /\ Enter(c, x, n, p)
      BY <1>3, <1>5, <1>6, <2>1
    <3>2. /\ side' \in SideType /\ table' \in [Node -> [Node -> Conn \cup {None}]]
          /\ table[n][p] # None =>
                /\ table' = table /\ side'[c][x] = "closed"
                /\ \A e \in Conn, y \in End : (e # c \/ y # x) => side'[e][y] = side[e][y]
      BY SMT, <1>1, <1>3, <1>4, <3>1, EnterStep
    <3>3. Connects
      <4>1. CASE table[n][p] = None
        BY <1>0, <1>2, <1>4, <3>1, <4>1 DEF Connects, Enters
      <4>2. CASE table[n][p] # None
        <5>1. Rests
          BY <1>0, <1>2, <3>2, <4>2 DEF Rests
        <5> QED
          BY <5>1 DEF Connects
      <4> QED
        BY <4>1, <4>2
    <3>4. ConnType'
      BY <1>1, <1>2, <3>2 DEF ConnType
    <3> QED
      BY <1>4, <3>1, <3>2, <3>3, <3>4
  <2>2. CASE ~Expected(c)
    <3>1. side' = [side EXCEPT ![c][x] = "closed"] /\ table' = table
      BY <1>5, <2>2
    <3>4. "closed" \in States /\ side \in SideType
      BY <1>1 DEF States, ConnType
    <3>2. /\ side' \in SideType
          /\ \A e \in Conn, y \in End :
                side'[e][y] = IF e = c /\ y = x THEN "closed" ELSE side[e][y]
      <4>1. Sets(c, x, "closed")
        BY <3>1, <3>4 DEF Sets
      <4>2. OnlyEnd(c, x, "closed")
        BY <4>1, <3>1, <3>4, OneEnd
      <4> QED
        BY <4>2 DEF OnlyEnd
    <3>3. Rests
      BY ZenonT(60), <1>0, <1>2, <3>1, <3>2 DEF Rests
    <3> QED
      BY <1>1, <1>2, <2>2, <3>1, <3>2, <3>3 DEF ConnType, Connects
  <2> QED
    BY <2>1, <2>2
<1>8. CallType' /\ Hands
  <2>1. CASE k = None \/ call[k] # "connect"
    BY <1>1, <1>2, <1>5, <2>1, KeepsCalls DEF calls
  <2>2. CASE k # None /\ call[k] = "connect"
    <3>1. k \in Call /\ n = From[k] /\ p = To[k]
      BY <1>3, <1>4, <2>2
    <3>2. PICK s \in {"open", "failed"}, o \in Conn \cup {None} :
            /\ call' = [call EXCEPT ![k] = s] /\ on' = [on EXCEPT ![k] = o]
            /\ o \in {table'[n][p], None}
      BY <1>5, <1>7, <2>2
    <3>3. CallType'
      BY <1>1, <1>2, <3>2 DEF CallType, Done
    <3>4. Hands
      BY <1>1, <3>1, <3>2 DEF Hands, CallType
    <3> QED
      BY <3>3, <3>4
  <2> QED
    BY <2>1, <2>2
<1>9. NodeType'
  BY <1>1, <1>2 DEF NodeType
<1> QED
  BY <1>7, <1>8, <1>9, TypeParts DEF Steps

LEMMA DialFailsSteps ==
    ASSUME Inv, NEW c \in Conn, DialFails(c) PROVE Steps
<1>1. CallType /\ NodeType /\ ConnType
  BY TypeParts DEF Inv
<1>2. PICK x \in End : side' = [side EXCEPT ![c][x] = "closed"] /\ side[c][x] = "open"
  BY Ends DEF DialFails
<1>3. "closed" \in States /\ side \in SideType
  BY <1>1 DEF States, ConnType
<1>4. /\ side' \in SideType
      /\ \A e \in Conn, y \in End :
            side'[e][y] = IF e = c /\ y = x THEN "closed" ELSE side[e][y]
  <2>1. Sets(c, x, "closed")
    BY <1>2, <1>3 DEF Sets
  <2>2. OnlyEnd(c, x, "closed")
    BY <2>1, <1>2, <1>3, OneEnd
  <2> QED
    BY <2>2 DEF OnlyEnd
<1>5. UNCHANGED <<table, ends, for, shaken, dead, on, ran, reply, answer, accepting, stop>>
  BY DEF DialFails
<1>6. Rests /\ ConnType' /\ NodeType'
  <2>1. ASSUME NEW e \in Conn, NEW y \in End, side'[e][y] # side[e][y]
        PROVE  side[e][y] = "open" /\ side'[e][y] = "closed"
    <3>1. side[c][x] = "open"
      BY <1>2
    <3> QED
      BY <1>4, <2>1, <3>1
  <2>2. Rests
    BY <1>5, <2>1 DEF Rests
  <2> QED
    BY <1>1, <1>4, <1>5, <2>2 DEF ConnType, NodeType
<1>7. call' \in [Call -> {"idle", "connect", "open", "waiting", "panicked"} \cup Done]
  BY <1>1 DEF DialFails, CallType, Done
<1>8. CallType' /\ Hands
  BY <1>1, <1>5, <1>7 DEF CallType, Hands
<1> QED
  BY <1>6, <1>8, TypeParts DEF Steps, Connects

LEMMA ServeEndsSteps ==
    ASSUME Inv, NEW c \in Conn, NEW x \in End, ServeEnds(c, x) PROVE Steps
<1>1. CallType /\ NodeType /\ ConnType /\ QuicNodeTypeOK /\ Dialled
  BY TypeParts DEF Inv
<1>2. side' \in SideType /\ table' \in [Node -> [Node -> Conn \cup {None}]]
  BY <1>1, LeaveStep
<1>3. UNCHANGED <<ends, for, shaken, dead, calls, accepting, stop>>
  BY DEF ServeEnds
<1> QED
  BY <1>1, <1>2, <1>3, KeepsCalls, TypeParts
     DEF Steps, Connects, ConnType, NodeType

\* A dial, by ConnectDirect or by a call.
LEMMA DialSteps ==
    ASSUME Inv, NEW c \in Conn, NEW n \in Node, NEW m \in Node, NEW k \in Call \cup {None},
           Dial(c, n, m, k), k # None => n = From[k], UNCHANGED <<accepting, stop>>
    PROVE  ConnType' /\ NodeType' /\ Connects
<1>1. NodeType /\ ConnType /\ QuicNodeTypeOK
  BY TypeParts DEF Inv
<1>2. /\ side' \in SideType /\ ends' \in [Conn -> [End -> Node \cup {None}]]
      /\ for' \in [Conn -> Call \cup {None}]
  BY <1>1, DialStep
<1>3. UNCHANGED <<table, shaken, dead>>
  BY DEF Dial
<1>4. Dials(c)
  BY DEF Dials
<1> QED
  BY <1>1, <1>2, <1>3, <1>4 DEF ConnType, NodeType, Connects

LEMMA StopSteps ==
    ASSUME Inv, NEW n \in Node, StopCancel(n) \/ StopWipe(n) PROVE Steps
<1>1. CallType /\ NodeType /\ ConnType /\ QuicNodeTypeOK
  BY TypeParts DEF Inv
<1>2. CASE StopCancel(n)
  <2>1. UNCHANGED <<table, ends, for, shaken, calls>> /\ stop[n] = "no"
    BY <1>2 DEF StopCancel
  <2>2. /\ stop' \in [Node -> {"no", "cancelled", "done"}]
        /\ \A m \in Node : stop'[m] = IF m = n THEN "cancelled" ELSE stop[m]
    BY <1>1, <1>2 DEF StopCancel, ConnType
  <2>3. NodeType'
    BY <1>1, <1>2 DEF StopCancel, NodeType
  <2> DEFINE w(c) == IF At(c, "l") = n /\ side[c]["l"] = "queued"
                     THEN [side[c] EXCEPT !["l"] = "closed"] ELSE side[c]
  <2>4. ASSUME NEW c \in Conn
        PROVE  /\ w(c) \in [End -> States]
               /\ \A x \in End : \/ w(c)[x] = side[c][x]
                                 \/ side[c][x] = "queued" /\ w(c)[x] = "closed"
    <3>1. PICK f : f = side[c] /\ f \in [End -> States]
      BY <1>1 DEF ConnType, SideType
    <3>2. PICK g : g = [f EXCEPT !["l"] = "closed"]
      OBVIOUS
    <3>3. g \in [End -> States] /\ \A x \in End : g[x] = IF x = "l" THEN "closed" ELSE f[x]
      BY <3>1, <3>2 DEF States
    <3>4. w(c) = IF At(c, "l") = n /\ f["l"] = "queued" THEN g ELSE f
      BY <3>1, <3>2
    <3> HIDE DEF w
    <3> QED
      BY <3>1, <3>3, <3>4
  <2>5. side' = [c \in Conn |-> w(c)]
    BY <1>2 DEF StopCancel
  <2> HIDE DEF w
  <2>6. /\ side' \in SideType
        /\ \A c \in Conn, x \in End : \/ side'[c][x] = side[c][x]
                                      \/ side[c][x] = "queued" /\ side'[c][x] = "closed"
    BY <2>4, <2>5 DEF SideType
  <2>7. \A m \in Node : stop'[m] = "done" <=> stop[m] = "done"
    BY <2>1, <2>2
  <2>8. Rests /\ ConnType'
    BY <1>1, <2>1, <2>2, <2>6, <2>7 DEF Rests, ConnType
  <2> QED
    BY <1>1, <2>1, <2>3, <2>8, KeepsCalls, TypeParts DEF Steps, Connects
<1>3. CASE StopWipe(n)
  <2>1. /\ side' \in SideType /\ table' \in [Node -> [Node -> Conn \cup {None}]]
        /\ stop' \in [Node -> {"no", "cancelled", "done"}]
    BY <1>1, <1>3, WipeStep
  <2>2. UNCHANGED <<ends, for, shaken, dead, calls, accepting>>
    BY <1>3 DEF StopWipe
  <2> QED
    BY <1>1, <1>3, <2>1, <2>2, KeepsCalls, TypeParts
       DEF Steps, Connects, ConnType, NodeType
<1> QED
  BY <1>2, <1>3

\* Steps of a call that leave the connections alone.
LEMMA CallSteps ==
    ASSUME Inv, NEW k \in Call, UNCHANGED <<conns, accepting, stop>>, CallType',
           \E o \in {on[k], None, table[From[k]][To[k]]} : on' = [on EXCEPT ![k] = o]
    PROVE  Steps
<1>1. NodeType /\ ConnType /\ CallType
  BY TypeParts DEF Inv
<1>2. UNCHANGED <<table, side, ends, for, shaken, dead, accepting, stop>>
  BY DEF conns
<1>3. Rests /\ NodeType' /\ ConnType'
  BY <1>1, <1>2 DEF Rests, NodeType, ConnType
<1>4. Hands
  BY <1>1, <1>2 DEF Hands, CallType
<1> QED
  BY <1>3, <1>4, TypeParts DEF Steps, Connects

LEMMA FailsSteps ==
    ASSUME Inv, NEW k \in Call, Fails(k) PROVE Steps
<1>1. CallType
  BY TypeParts DEF Inv
<1>2. PICK o \in {on[k], None} : on' = [on EXCEPT ![k] = o]
  <2>1. CASE call[k] = "waiting"
    BY <2>1 DEF Fails
  <2>2. CASE call[k] # "waiting"
    BY <2>2 DEF Fails
  <2> QED
    BY <2>1, <2>2
<1>3. CallType'
  BY ZenonT(60), <1>1, <1>2 DEF Fails, CallType, Done
<1> QED
  BY <1>2, <1>3, CallSteps DEF Fails

LEMMA AnswerSteps ==
    ASSUME Inv, NEW k \in Call,
           \/ OpenCallStream(k) \/ DialPanics(k)
           \/ handleCallStream(k) \/ HandlerDone(k) \/ CallReturns(k)
    PROVE  Steps
<1>1. CallType
  BY TypeParts DEF Inv
<1>2. CASE OpenCallStream(k)
  <2>1. CallType'
    BY <1>1, <1>2 DEF OpenCallStream, CallType
  <2> QED
    BY <1>1, <1>2, <2>1, CallSteps DEF OpenCallStream, CallType
<1>3. CASE handleCallStream(k)
  <2>1. CallType'
    BY <1>1, <1>3 DEF handleCallStream, CallType
  <2> QED
    BY ZenonT(60), <1>1, <1>3, <2>1, CallSteps DEF handleCallStream, CallType
<1>4. CASE HandlerDone(k)
  <2>1. CallType'
    BY <1>1, <1>4 DEF HandlerDone, CallType, Silenced
  <2> QED
    BY ZenonT(60), <1>1, <1>4, <2>1, CallSteps DEF HandlerDone, CallType
<1>5. CASE CallReturns(k)
  <2>1. CallType'
    BY <1>1, <1>5 DEF CallReturns, CallType, Done
  <2> QED
    BY <1>1, <1>5, <2>1, CallSteps DEF CallReturns, CallType
<1>6. CASE DialPanics(k)
  <2>1. CallType'
    BY <1>1, <1>6 DEF DialPanics, CallType
  <2> QED
    BY <1>1, <1>6, <2>1, CallSteps DEF DialPanics, CallType
<1> QED
  BY <1>2, <1>3, <1>4, <1>5, <1>6

LEMMA QuicCallSteps ==
    ASSUME Inv, NEW k \in Call, quicCall(k) PROVE Steps
<1>1. CallType /\ ConnType
  BY TypeParts DEF Inv
<1>2. PICK n \in Node, p \in Node : n = From[k] /\ p = To[k]
  BY QuicAssumption DEF QuicAssumption
<1>3. table[n][p] \in Conn \cup {None} /\ UNCHANGED <<ran, reply, answer, accepting, stop>>
  BY ZenonT(60), <1>1 DEF ConnType, quicCall
<1>4. CASE /\ call' = [call EXCEPT ![k] = "open"] /\ on' = [on EXCEPT ![k] = table[n][p]]
           /\ UNCHANGED conns
  <2>1. CallType'
    BY <1>1, <1>3, <1>4 DEF CallType
  <2> QED
    BY <1>2, <1>3, <1>4, <2>1, CallSteps
<1>5. CASE call' = [call EXCEPT ![k] = "open"] /\ UNCHANGED <<conns, on>>
  <2>1. CallType'
    BY <1>1, <1>3, <1>5 DEF CallType
  <2>2. on' = [on EXCEPT ![k] = on[k]]
    BY <1>1, <1>5 DEF CallType
  <2> QED
    BY <1>3, <1>5, <2>1, <2>2, CallSteps
<1>6. CASE /\ Listed[p] # None /\ \E c \in Conn : Dial(c, n, Listed[p], k)
           /\ call' = [call EXCEPT ![k] = "connect"] /\ UNCHANGED on
  <2>1. CallType' /\ Hands
    BY <1>1, <1>3, <1>6 DEF CallType, Hands
  <2>2. PICK m \in Node : m = Listed[p]
    BY <1>6, QuicAssumption DEF QuicAssumption
  <2>3. PICK c \in Conn : Dial(c, n, m, k)
    BY <1>6, <2>2
  <2>4. ConnType' /\ NodeType' /\ Connects
    BY <1>2, <1>3, <2>3, DialSteps
  <2> QED
    BY <2>1, <2>4, TypeParts DEF Steps
<1> QED
  BY <1>2, <1>4, <1>5, <1>6 DEF quicCall

\* Every step keeps the types, does one of these things to the connections, and
\* hands to a call what its table has.
LEMMA StepForms ==
    ASSUME Inv, [Next]_vars PROVE Steps
<1>1. ASSUME NEW c \in Conn, NEW n \in Node, NEW m \in Node, ConnectDirect(c, n, m)
      PROVE  Steps
  <2>1. Dial(c, n, m, None) /\ UNCHANGED <<calls, accepting, stop>>
    BY <1>1 DEF ConnectDirect
  <2>2. ConnType' /\ NodeType' /\ Connects
    BY <2>1, DialSteps
  <2>3. CallType' /\ Hands
    BY <2>1, KeepsCalls, TypeParts DEF Inv
  <2> QED
    BY <2>2, <2>3, TypeParts DEF Steps
<1>2. CASE UNCHANGED vars
  <2>1. CallType /\ NodeType /\ ConnType
    BY TypeParts DEF Inv
  <2>2. CallType' /\ NodeType' /\ ConnType' /\ Hands /\ Rests
    BY <1>2, <2>1 DEF vars, conns, calls, CallType, NodeType, ConnType, Hands, Rests
  <2> QED
    BY <2>2, TypeParts DEF Steps, Connects
<1>3. ASSUME NEW k \in Call, CallStep(k) \/ CallCancelled(k) PROVE Steps
  BY <1>3, FailsSteps, AnswerSteps DEF CallStep, CallCancelled, OpenFails, CallEOF
<1>4. ASSUME NEW c \in Conn, ConnStep(c) PROVE Steps
  BY <1>4, AcceptSteps, AcceptedSteps, DialReturnsSteps, DialFailsSteps, ServeEndsSteps
     DEF ConnStep
<1> QED
  BY <1>1, <1>2, <1>3, <1>4, StopSteps, QuicCallSteps DEF Next

-------------------------------------------------------------------------------
\* What a table entry says of its connection.
LEMMA EntryOf ==
    ASSUME Inv, NEW n \in Node, NEW p \in Node, NEW c \in Conn, table[n][p] = c
    PROVE  /\ \E x \in End : Joins(c, x, n, p) /\ Served(c, x)
           /\ side[c]["d"] # "unused"
<1>1. PICK x \in End : Joins(c, x, n, p) /\ Served(c, x)
  BY DEF Inv, Placed
<1>2. side[c]["d"] # "unused"
  BY <1>1, Ends DEF Served, Inv, Dialled, HasEnds
<1> QED
  BY <1>1, <1>2

LEMMA RestsInv ==
    ASSUME Inv, Rests PROVE Dialled' /\ Placed' /\ Found'
<1>0. /\ table' = table /\ ends' = ends /\ for' = for
      /\ \A c, x : At(c, x)' = At(c, x)
      /\ \A c, x, n, p : (Joins(c, x, n, p)' <=> Joins(c, x, n, p))
  BY DEF Rests, At, Joins
<1>1. ASSUME NEW c \in Conn, NEW x \in End
      PROVE  /\ Served(c, x)' <=> Served(c, x)
             /\ side'[c][x] = "unused" <=> side[c][x] = "unused"
             /\ side'[c][x] = "closing" <=> side[c][x] = "closing"
  <2>1. \/ side'[c][x] = side[c][x]
        \/ side[c][x] \in {"queued", "open"} /\ side'[c][x] \in {"open", "closed"}
    BY DEF Rests
  <2> QED
    BY <2>1 DEF Served
<1>2. ASSUME NEW c \in Conn PROVE HasEnds(c)'
  <2>1. HasEnds(c)
    BY DEF Inv, Dialled
  <2>2. /\ side'[c]["d"] = "unused" <=> side[c]["d"] = "unused"
        /\ side'[c]["l"] = "unused" <=> side[c]["l"] = "unused"
    BY <1>1, Ends
  <2> QED
    BY <1>0, <2>1, <2>2 DEF HasEnds
<1>3. Placed'
  BY <1>0, <1>1 DEF Inv, Placed
<1>4. ASSUME NEW c \in Conn, NEW x \in End PROVE InTable(c, x)'
  <2>1. InTable(c, x) /\ HasEnds(c)
    BY DEF Inv, Found, Dialled
  <2>2. side[c][x] # "unused" => At(c, x) \in Node
    BY <2>1, Ends DEF HasEnds
  <2>3. At(c, x) \in Node => (stop'[At(c, x)] = "done" <=> stop[At(c, x)] = "done")
    BY DEF Rests
  <2>4. Served(c, x) \/ side[c][x] = "closing" => side[c][x] # "unused"
    BY DEF Served
  <2>5. Other(x) \in End /\ (Served(c, Other(x))' <=> Served(c, Other(x)))
    BY <1>1, Ends
  <2> QED
    BY <1>0, <1>1, <2>1, <2>2, <2>3, <2>4, <2>5 DEF InTable
<1> QED
  BY <1>2, <1>3, <1>4 DEF Dialled, Found

LEMMA DialsInv ==
    ASSUME Inv, NEW c \in Conn, Dials(c) PROVE Dialled' /\ Placed' /\ Found'
<1>1. PICK n \in Node, m \in Node, k \in Call \cup {None} :
         Dial(c, n, m, k) /\ (k # None => n = From[k])
  BY DEF Dials
<1>2. /\ for'[c] = k /\ ends'[c]["d"] = n /\ ends'[c]["l"] = m
      /\ side'[c]["d"] = "open" /\ side'[c]["l"] \in {"queued", "closed"}
      /\ side[c]["d"] = "unused"
      /\ \A e \in Conn : e # c => side'[e] = side[e] /\ ends'[e] = ends[e] /\ for'[e] = for[e]
  <2>1. QuicNodeTypeOK
    BY DEF Inv
  <2> QED
    BY <1>1, <2>1, DialStep
<1>3. table' = table /\ stop' = stop
  BY <1>1 DEF Dial, Dials
<1>4. /\ \A x \in End : At(c, x)' \in Node /\ ~Served(c, x)' /\ side'[c][x] # "closing"
      /\ \A e \in Conn : \A x : e # c => At(e, x)' = At(e, x) /\ (Served(e, x)' <=> Served(e, x))
  BY <1>2, Ends DEF At, Served
<1>5. ASSUME NEW e \in Conn PROVE HasEnds(e)'
  <2>1. CASE e = c
    BY <1>1, <1>2, <1>4, <2>1 DEF At, HasEnds
  <2>2. CASE e # c
    <3>1. HasEnds(e)
      BY DEF Inv, Dialled
    <3> QED
      BY <1>2, <1>4, <2>2, <3>1 DEF HasEnds
  <2> QED
    BY <2>1, <2>2
<1>6. ASSUME NEW p \in Node, NEW q \in Node, NEW e \in Conn, table[p][q] = e
      PROVE  \E x \in End : (Joins(e, x, p, q) /\ Served(e, x))'
  <2>1. e # c
    BY <1>2, <1>6, EntryOf
  <2>2. PICK x \in End : Joins(e, x, p, q) /\ Served(e, x)
    BY <1>6, EntryOf
  <2> QED
    BY <1>4, <2>1, <2>2 DEF Joins
<1>7. ASSUME NEW e \in Conn, NEW x \in End PROVE InTable(e, x)'
  <2>1. CASE e = c
    BY <1>4, <2>1 DEF InTable
  <2>2. CASE e # c
    <3>1. InTable(e, x) /\ side'[e] = side[e]
      BY <1>2, <2>2 DEF Inv, Found
    <3> QED
      BY <1>3, <1>4, <2>2, <3>1 DEF InTable
  <2> QED
    BY <2>1, <2>2
<1> QED
  BY <1>3, <1>5, <1>6, <1>7 DEF Dialled, Placed, Found

LEMMA EntersInv ==
    ASSUME Inv, NEW c \in Conn, NEW x \in End, Enters(c, x)
    PROVE  Dialled' /\ Placed' /\ Found'
<1>1. /\ side[c][x] = "open" /\ table[At(c, x)][At(c, Other(x))] = None
      /\ Enter(c, x, At(c, x), At(c, Other(x))) /\ ends' = ends /\ for' = for /\ stop' = stop
  BY DEF Enters
<1>2. side[c]["d"] # "unused" /\ At(c, x) \in Node /\ At(c, Other(x)) \in Node
  BY <1>1, Ends DEF Inv, Dialled, HasEnds
<1>3. PICK n \in Node, p \in Node : n = At(c, x) /\ p = At(c, Other(x))
  BY <1>2
<1>4. /\ side'[c][x] \in {"serving", "late"}
      /\ \A m, q \in Node : table'[m][q] = IF m = n /\ q = p THEN c ELSE table[m][q]
      /\ \A e \in Conn, y \in End : (e # c \/ y # x) => side'[e][y] = side[e][y]
  <2>1. QuicNodeTypeOK /\ table[n][p] = None /\ Enter(c, x, n, p)
    BY <1>1, <1>3 DEF Inv
  <2> QED
    BY SMT, <2>1, EnterStep
<1>5. /\ \A e, y : At(e, y)' = At(e, y) /\ \A m, q : Joins(e, y, m, q)' <=> Joins(e, y, m, q)
      /\ Served(c, x)' /\ ~Served(c, x) /\ side'[c][x] # "closing" /\ side'[c][x] # "unused"
      /\ \A e \in Conn, y \in End : (e # c \/ y # x) => (Served(e, y)' <=> Served(e, y))
  BY <1>1, <1>4 DEF At, Joins, Served
<1>6. ASSUME NEW e \in Conn PROVE HasEnds(e)'
  <2>1. HasEnds(e) /\ (e = c => side[e]["d"] # "unused")
    BY <1>2 DEF Inv, Dialled
  <2>2. ASSUME NEW y \in End PROVE (e = c /\ y = x) \/ side'[e][y] = side[e][y]
    BY <1>4
  <2>3. /\ side'[e]["d"] = "unused" => side[e]["d"] = "unused" /\ side'[e]["l"] = side[e]["l"]
        /\ side'[e]["d"] # "unused" => side[e]["d"] # "unused"
    BY <1>4, <1>5, <2>1, <2>2, Ends
  <2> QED
    BY <1>1, <1>5, <2>1, <2>3 DEF HasEnds
<1>7. ASSUME NEW m \in Node, NEW q \in Node, NEW e \in Conn, table'[m][q] = e
      PROVE  \E y \in End : (Joins(e, y, m, q) /\ Served(e, y))'
  <2>1. CASE m = n /\ q = p
    <3>1. e = c /\ Joins(c, x, m, q)
      BY <1>3, <1>4, <1>7, <2>1 DEF Joins
    <3> QED
      BY <1>5, <3>1
  <2>2. CASE ~(m = n /\ q = p)
    <3>1. PICK y \in End : Joins(e, y, m, q) /\ Served(e, y)
      BY <1>4, <1>7, <2>2, EntryOf
    <3>2. e # c \/ y # x
      BY <1>5, <3>1
    <3> QED
      BY <1>5, <3>1, <3>2
  <2> QED
    BY <2>1, <2>2
<1>8. ASSUME NEW e \in Conn, NEW y \in End PROVE InTable(e, y)'
  <2>0. InTable(e, y) /\ Other(x) \in End /\ Other(Other(x)) = x /\ c # None
    BY Ends, QuicAssumption DEF Inv, Found, QuicAssumption
  \* The two ends are not served at the same node.
  <2>1. At(c, "d") = At(c, "l") /\ stop[n] # "done" => ~Served(c, Other(x))
    <3>1. InTable(c, Other(x))
      BY <2>0 DEF Inv, Found
    <3>2. At(c, "d") = At(c, "l") => n = p
      BY <1>3, Ends
    <3> QED
      BY <1>1, <1>3, <2>0, <3>1, <3>2 DEF InTable
  <2>2. CASE e = c /\ y = x
    <3>1. table'[At(c, x)][At(c, Other(x))] = c
      BY <1>3, <1>4
    <3>2. At(c, "d") = At(c, "l") /\ stop[n] # "done" => ~Served(c, Other(x))'
      BY <1>5, <2>0, <2>1, Ends
    <3> QED
      BY <1>1, <1>3, <1>5, <2>2, <3>1, <3>2 DEF InTable
  <2>3. CASE e # c \/ y # x
    <3>1. Served(e, y) \/ side[e][y] = "closing" => At(e, y) \in Node /\ At(e, Other(y)) \in Node
      <4>1. Served(e, y) \/ side[e][y] = "closing" => side[e]["d"] # "unused"
        BY Ends DEF Served, Inv, Dialled, HasEnds
      <4> QED
        BY <4>1, Ends DEF Inv, Dialled, HasEnds
    <3>2. ASSUME Served(e, y), stop[At(e, y)] # "done"
          PROVE  table'[At(e, y)][At(e, Other(y))] = e
      <4>1. table[At(e, y)][At(e, Other(y))] = e /\ e # None
        BY <2>0, <3>2, QuicAssumption DEF InTable, QuicAssumption
      <4>2. ~(At(e, y) = n /\ At(e, Other(y)) = p)
        BY <1>1, <1>3, <4>1
      <4> QED
        BY <1>4, <3>1, <3>2, <4>1, <4>2
    <3>3. ASSUME Served(e, y), stop[At(e, y)] # "done", At(e, "d") = At(e, "l")
          PROVE  ~Served(e, Other(y))'
      <4>1. ~Served(e, Other(y)) /\ Other(y) \in End
        BY <2>0, <3>3, Ends DEF InTable
      <4>2. CASE e # c \/ Other(y) # x
        BY <1>5, <4>1, <4>2
      <4>3. CASE e = c /\ Other(y) = x
        <5>1. y = Other(x) /\ At(e, y) = n
          BY <1>3, <3>3, <4>3, Ends
        <5> QED
          BY <2>1, <3>3, <4>3, <5>1
      <4> QED
        BY <4>2, <4>3
    <3> QED
      BY <1>1, <1>4, <1>5, <2>0, <2>3, <3>2, <3>3 DEF InTable
  <2> QED
    BY <2>2, <2>3
<1> QED
  BY <1>6, <1>7, <1>8 DEF Dialled, Placed, Found

LEMMA LeavesInv ==
    ASSUME Inv, NEW c \in Conn, NEW x \in End, ServeEnds(c, x)
    PROVE  Dialled' /\ Placed' /\ Found'
<1>1. ends' = ends /\ for' = for /\ stop' = stop
  BY DEF ServeEnds
<1>2. /\ At(c, x) \in Node /\ side[c][x] \in {"late", "serving", "closing"}
      /\ side'[c][x] = "closed"
      /\ \A e \in Conn, y \in End : (e # c \/ y # x) => side'[e][y] = side[e][y]
      /\ \A m, q \in Node :
            table'[m][q] = IF m = At(c, x) /\ table[m][q] = c THEN None ELSE table[m][q]
  BY ZenonT(60), LeaveStep DEF Inv
<1>3. /\ \A e, y : At(e, y)' = At(e, y) /\ \A m, q : Joins(e, y, m, q)' <=> Joins(e, y, m, q)
      /\ ~Served(c, x)' /\ side'[c][x] # "closing" /\ side'[c][x] # "unused"
      /\ \A e \in Conn, y \in End : (e # c \/ y # x) => (Served(e, y)' <=> Served(e, y))
  BY <1>1, <1>2 DEF At, Joins, Served
<1>4. side[c]["d"] # "unused"
  BY <1>2, Ends DEF Inv, Dialled, HasEnds
<1>5. ASSUME NEW e \in Conn PROVE HasEnds(e)'
  <2>1. HasEnds(e) /\ (e = c => side[e]["d"] # "unused")
    BY <1>4 DEF Inv, Dialled
  <2>2. /\ side'[e]["d"] = "unused" => side[e]["d"] = "unused" /\ side'[e]["l"] = side[e]["l"]
        /\ side'[e]["d"] # "unused" => side[e]["d"] # "unused"
    BY <1>2, <1>3, <2>1, Ends
  <2> QED
    BY <1>1, <1>3, <2>1, <2>2 DEF HasEnds
<1>6. ASSUME NEW m \in Node, NEW q \in Node, NEW e \in Conn, table'[m][q] = e
      PROVE  \E y \in End : (Joins(e, y, m, q) /\ Served(e, y))'
  <2>0. e # None
    BY QuicAssumption DEF QuicAssumption
  <2>1. table[m][q] = e /\ ~(m = At(c, x) /\ e = c)
    BY ZenonT(60), <1>2, <1>6, <2>0
  <2>2. PICK y \in End : Joins(e, y, m, q) /\ Served(e, y)
    BY <2>1, EntryOf
  <2>3. e # c \/ y # x
    BY <2>1, <2>2 DEF Joins
  <2> QED
    BY <1>3, <2>2, <2>3
<1>7. ASSUME NEW e \in Conn, NEW y \in End PROVE InTable(e, y)'
  <2>1. CASE e = c /\ y = x
    BY <1>3, <2>1 DEF InTable
  <2>2. CASE e # c \/ y # x
    <3>0. InTable(e, y) /\ Other(y) \in End
      BY Ends DEF Inv, Found
    <3>1. ASSUME Served(e, y), stop[At(e, y)] # "done"
          PROVE  table'[At(e, y)][At(e, Other(y))] = e
      <4>1. table[At(e, y)][At(e, Other(y))] = e
        BY <3>0, <3>1 DEF InTable
      <4>2. At(e, y) \in Node /\ At(e, Other(y)) \in Node
        BY <3>1, Ends DEF Served, Inv, Dialled, HasEnds
      <4>3. ~(At(e, y) = At(c, x) /\ e = c)
        <5> SUFFICES ASSUME At(e, y) = At(c, x), e = c PROVE FALSE
          OBVIOUS
        <5>1. x = Other(y) /\ At(e, "d") = At(e, "l")
          BY <2>2, Ends
        <5>2. ~Served(c, x)
          BY <3>0, <3>1, <5>1 DEF InTable
        <5>3. side[c][x] = "closing" /\ InTable(c, x)
          BY <1>2, <5>2 DEF Served, Inv, Found
        <5> QED
          BY <3>1, <5>3 DEF InTable
      <4> QED
        BY <1>2, <4>1, <4>2, <4>3
    <3>2. ASSUME Served(e, y), stop[At(e, y)] # "done", At(e, "d") = At(e, "l")
          PROVE  ~Served(e, Other(y))'
      BY <1>3, <3>0, <3>2 DEF InTable
    <3> QED
      BY <1>1, <1>2, <1>3, <2>2, <3>0, <3>1, <3>2 DEF InTable
  <2> QED
    BY <2>1, <2>2
<1> QED
  BY <1>5, <1>6, <1>7 DEF Dialled, Placed, Found

LEMMA WipeInv ==
    ASSUME Inv, NEW n \in Node, StopWipe(n) PROVE Dialled' /\ Placed' /\ Found'
<1>0. QuicNodeTypeOK
  BY DEF Inv
<1>1. /\ \A m \in Node : m # n => stop'[m] = stop[m]
      /\ stop'[n] = "done"
  <2>1. \A m \in Node : stop'[m] = IF m = n THEN "done" ELSE stop[m]
    BY <1>0, WipeStep
  <2> QED
    BY <2>1
<1>8. \A m, q \in Node : table'[m][q] = IF m = n THEN None ELSE table[m][q]
  BY <1>0, WipeStep
<1>9. \A c \in Conn, x \in End :
        \/ side'[c][x] = side[c][x]
        \/ /\ side'[c][x] = "closing" /\ At(c, x) = n
           /\ \E p \in Node : table[n][p] = c
  BY <1>0, WipeStep
<1>2. ends' = ends /\ for' = for
  BY DEF StopWipe
<1>3. \A e, y : At(e, y)' = At(e, y) /\ \A m, q : Joins(e, y, m, q)' <=> Joins(e, y, m, q)
  BY <1>2 DEF At, Joins
<1>4. ASSUME NEW c \in Conn, NEW x \in End, side'[c][x] # side[c][x]
      PROVE  side'[c][x] = "closing" /\ At(c, x) = n /\ side[c]["d"] # "unused"
  <2>1. side'[c][x] = "closing" /\ At(c, x) = n /\ \E p \in Node : table[n][p] = c
    BY <1>4, <1>9
  <2> QED
    BY <2>1, EntryOf
<1>5. ASSUME NEW c \in Conn PROVE HasEnds(c)'
  <2>1. HasEnds(c) /\ "d" \in End /\ "l" \in End
    BY Ends DEF Inv, Dialled
  <2>2. side'[c]["d"] = "unused" <=> side[c]["d"] = "unused"
    BY <1>4, <2>1
  <2>3. side'[c]["d"] = "unused" => side'[c]["l"] = side[c]["l"]
    BY <1>4, <2>1, <2>2
  <2> QED
    BY <1>2, <1>3, <2>1, <2>2, <2>3 DEF HasEnds
<1>6. ASSUME NEW m \in Node, NEW q \in Node, NEW e \in Conn, table'[m][q] = e
      PROVE  \E y \in End : (Joins(e, y, m, q) /\ Served(e, y))'
  <2>0. e # None
    BY QuicAssumption DEF QuicAssumption
  <2>1. table[m][q] = e /\ m # n
    BY <1>6, <1>8, <2>0
  <2>2. PICK y \in End : Joins(e, y, m, q) /\ Served(e, y)
    BY <2>1, EntryOf
  <2>3. side'[e][y] = side[e][y]
    BY <1>4, <2>1, <2>2 DEF Joins
  <2> QED
    BY <1>3, <2>2, <2>3 DEF Served
<1>7. ASSUME NEW c \in Conn, NEW x \in End PROVE InTable(c, x)'
  <2>0. InTable(c, x) /\ Other(x) \in End
    BY Ends DEF Inv, Found
  <2>1. ASSUME side'[c][x] = "closing" PROVE stop'[At(c, x)] = "done"
    <3>1. CASE side'[c][x] = side[c][x]
      <4>1. stop[At(c, x)] = "done" /\ At(c, x) \in Node
        BY <2>0, <2>1, <3>1, Ends DEF InTable, Inv, Dialled, HasEnds
      <4> QED
        BY <1>1, <4>1
    <3>2. CASE side'[c][x] # side[c][x]
      BY <1>1, <1>4, <3>2
    <3> QED
      BY <3>1, <3>2
  <2>2. ASSUME Served(c, x)', stop'[At(c, x)] # "done"
        PROVE  /\ table'[At(c, x)][At(c, Other(x))] = c
               /\ At(c, "d") = At(c, "l") => ~Served(c, Other(x))'
    <3>1. Served(c, x)
      BY <1>4, <2>2 DEF Served
    <3>2. At(c, x) \in Node /\ At(c, Other(x)) \in Node
      BY <3>1, Ends DEF Served, Inv, Dialled, HasEnds
    <3>3. At(c, x) # n /\ stop[At(c, x)] # "done"
      BY <1>1, <2>2, <3>2
    <3>4. Served(c, Other(x))' => Served(c, Other(x))
      BY <1>4, <2>0 DEF Served
    <3> QED
      BY <1>8, <2>0, <3>1, <3>2, <3>3, <3>4 DEF InTable
  <2> QED
    BY <1>3, <2>1, <2>2 DEF InTable
<1> QED
  BY <1>5, <1>6, <1>7 DEF Dialled, Placed, Found

LEMMA ConnsStep == ASSUME Inv, Connects PROVE Dialled' /\ Placed' /\ Found'
  BY RestsInv, DialsInv, EntersInv, LeavesInv, WipeInv DEF Connects

\* A connection that was dialled keeps its ends.
LEMMA EndsStay ==
    ASSUME Inv, Connects, NEW c \in Conn, side[c]["d"] # "unused"
    PROVE  side'[c]["d"] # "unused" /\ ends'[c] = ends[c]
<1>0. "d" \in End /\ QuicNodeTypeOK /\ Dialled
  BY Ends DEF Inv
<1>1. CASE Rests
  BY <1>0, <1>1 DEF Rests
<1>2. ASSUME NEW e \in Conn, Dials(e) PROVE side'[c]["d"] # "unused" /\ ends'[c] = ends[c]
  <2>1. PICK n \in Node, m \in Node, k \in Call \cup {None} : Dial(e, n, m, k)
    BY <1>2 DEF Dials
  <2>2. /\ side[e]["d"] = "unused"
        /\ \A g \in Conn : g # e => side'[g] = side[g] /\ ends'[g] = ends[g]
    BY ZenonT(60), <1>0, <2>1, DialStep
  <2> QED
    BY <2>2
<1>3. ASSUME NEW e \in Conn, NEW x \in End, Enters(e, x)
      PROVE  side'[c]["d"] # "unused" /\ ends'[c] = ends[c]
  <2>1. At(e, x) \in Node /\ At(e, Other(x)) \in Node
    BY <1>3, Ends DEF Enters, Inv, Dialled, HasEnds
  <2>2. PICK n \in Node, p \in Node : Enter(e, x, n, p) /\ table[n][p] = None
    BY <1>3, <2>1 DEF Enters
  <2>3. /\ side'[e][x] \in {"serving", "late"}
        /\ \A g \in Conn, y \in End : (g # e \/ y # x) => side'[g][y] = side[g][y]
    BY SMT, <1>0, <2>2, EnterStep
  <2> QED
    BY <1>0, <1>3, <2>3 DEF Enters
<1>4. ASSUME NEW e \in Conn, NEW x \in End, ServeEnds(e, x)
      PROVE  side'[c]["d"] # "unused" /\ ends'[c] = ends[c]
  <2>1. /\ side'[e][x] = "closed"
        /\ \A g \in Conn, y \in End : (g # e \/ y # x) => side'[g][y] = side[g][y]
    BY ZenonT(60), <1>0, <1>4, LeaveStep
  <2> QED
    BY <1>0, <1>4, <2>1 DEF ServeEnds
<1>5. ASSUME NEW n \in Node, StopWipe(n)
      PROVE  side'[c]["d"] # "unused" /\ ends'[c] = ends[c]
  <2>1. \A g \in Conn, y \in End : side'[g][y] = side[g][y] \/ side'[g][y] = "closing"
    BY SMT, <1>0, <1>5, WipeStep
  <2> QED
    BY <1>0, <1>5, <2>1 DEF StopWipe
<1> QED
  BY <1>1, <1>2, <1>3, <1>4, <1>5 DEF Connects

LEMMA LeadsStep == ASSUME Inv, Steps PROVE Leads'
<1> SUFFICES ASSUME NEW k \in Call, NEW c \in Conn, on'[k] = c
             PROVE  side'[c]["d"] # "unused" /\ \E x \in End : Joins(c, x, From[k], To[k])'
  BY DEF Leads, Steps, QuicNodeTypeOK
<1>0. From[k] \in Node /\ To[k] \in Node /\ c # None
  BY QuicAssumption DEF QuicAssumption
<1>1. CASE on[k] = c
  <2>1. PICK x \in End : Joins(c, x, From[k], To[k]) /\ side[c]["d"] # "unused"
    BY <1>0, <1>1 DEF Inv, Leads
  <2>2. side'[c]["d"] # "unused" /\ ends'[c] = ends[c]
    BY <2>1, EndsStay DEF Steps
  <2> QED
    BY <2>1, <2>2 DEF Joins, At
<1>2. CASE table'[From[k]][To[k]] = c
  <2>1. Placed' /\ Dialled'
    BY ConnsStep DEF Steps
  <2>2. PICK x \in End : (Joins(c, x, From[k], To[k]) /\ Served(c, x))'
    BY <1>0, <1>2, <2>1 DEF Placed
  <2>3. side'[c]["d"] # "unused"
    BY <2>1, <2>2, Ends DEF Served, Dialled, HasEnds
  <2> QED
    BY <2>2, <2>3
<1> QED
  BY <1>0, <1>1, <1>2 DEF Steps, Hands

-------------------------------------------------------------------------------
(* The steps by what they do to the calls.                                    *)

\* A call goes on before its request is written, or fails or panics there.
Proceeds(k) ==
    /\ call[k] \in {"idle", "connect", "open"}
    /\ \E s \in {"connect", "open", "waiting", "failed", "panicked"}, o \in Conn \cup {None} :
          /\ call' = [call EXCEPT ![k] = s] /\ on' = [on EXCEPT ![k] = o]
          /\ call[k] = "idle" => s \in {"connect", "open"}
          /\ s = "waiting" => o # None
    /\ UNCHANGED <<ran, reply, answer>>
\* A call that waits fails.
GivesUp(k) ==
    /\ call[k] = "waiting" /\ call' = [call EXCEPT ![k] = "failed"]
    /\ UNCHANGED <<on, ran, reply, answer>>
Moves ==
    \/ UNCHANGED calls
    \/ \E k \in Call : \/ Proceeds(k) \/ GivesUp(k)
                       \/ handleCallStream(k) \/ HandlerDone(k) \/ CallReturns(k)

LEMMA FailsMoves ==
    ASSUME Inv, NEW k \in Call, call[k] \in {"connect", "open", "waiting"}, Fails(k)
    PROVE  Moves
<1>1. CallType
  BY TypeParts DEF Inv
<1>2. CASE call[k] = "waiting"
  <2>1. on' = [on EXCEPT ![k] = on[k]]
    BY <1>2 DEF Fails
  <2>2. on' = on
    BY <1>1, <2>1 DEF CallType
  <2> QED
    BY <1>2, <2>2 DEF Fails, Moves, GivesUp
<1>3. CASE call[k] # "waiting"
  <2>1. on' = [on EXCEPT ![k] = None]
    BY <1>3 DEF Fails
  <2>2. Proceeds(k)
    BY <1>3, <2>1 DEF Fails, Proceeds
  <2> QED
    BY <2>2 DEF Moves
<1> QED
  BY <1>2, <1>3

LEMMA DialMoves ==
    ASSUME Inv, Steps, NEW c \in Conn, DialReturns(c) \/ DialFails(c) PROVE Moves
<1>1. CallType /\ CallType' /\ for[c] \in Call \cup {None}
  BY TypeParts DEF Inv, Steps, ConnType
<1>2. CASE DialReturns(c)
  <2>1. PICK k \in Call \cup {None} : k = for[c]
    BY <1>1
  <2>2. CASE k = None \/ call[k] # "connect"
    BY <1>2, <2>1, <2>2 DEF DialReturns, Moves, calls
  <2>3. CASE k # None /\ call[k] = "connect"
    <3>1. PICK s, o :
             s \in {"open", "failed"} /\ call' = [call EXCEPT ![k] = s] /\ on' = [on EXCEPT ![k] = o]
      BY <1>2, <2>1, <2>3 DEF DialReturns
    <3>2. k \in Call /\ on'[k] = o
      BY <1>1, <2>3, <3>1 DEF CallType
    <3>3. o \in Conn \cup {None}
      BY <1>1, <3>2 DEF CallType
    <3>4. Proceeds(k)
      BY <1>2, <2>3, <3>1, <3>3 DEF DialReturns, Proceeds
    <3> QED
      BY <3>2, <3>4 DEF Moves
  <2> QED
    BY <2>2, <2>3
<1>3. CASE DialFails(c)
  <2>1. /\ call' = [j \in Call |-> IF j = for[c] /\ call[j] = "connect" THEN "failed" ELSE call[j]]
        /\ UNCHANGED <<on, ran, reply, answer>>
    BY <1>3 DEF DialFails
  <2>2. CASE for[c] \in Call /\ call[for[c]] = "connect"
    <3>1. PICK k \in Call : k = for[c] /\ call[k] = "connect"
      BY <2>2
    <3>2. call' = [call EXCEPT ![k] = "failed"]
      BY <1>1, <2>1, <3>1 DEF CallType
    <3>3. on[k] \in Conn \cup {None} /\ on' = [on EXCEPT ![k] = on[k]]
      BY <1>1, <2>1 DEF CallType
    <3>4. Proceeds(k)
      BY <2>1, <3>1, <3>2, <3>3 DEF Proceeds
    <3> QED
      BY <3>4 DEF Moves
  <2>3. CASE ~(for[c] \in Call /\ call[for[c]] = "connect")
    <3>1. call' = call
      BY <1>1, <2>1, <2>3 DEF CallType
    <3> QED
      BY <2>1, <3>1 DEF Moves, calls
  <2> QED
    BY <2>2, <2>3
<1> QED
  BY <1>2, <1>3

LEMMA CallForms == ASSUME Inv, [Next]_vars PROVE Moves
<1>0. CallType /\ Steps
  BY StepForms, TypeParts DEF Inv
<1>1. ASSUME NEW k \in Call, quicCall(k) PROVE Moves
  <2>1. /\ call[k] = "idle" /\ UNCHANGED <<ran, reply, answer>>
        /\ \E s \in {"open", "connect"} : call' = [call EXCEPT ![k] = s]
    BY <1>1 DEF quicCall
  <2>2. PICK o : on' = [on EXCEPT ![k] = o]
    <3>1. on' = on => on' = [on EXCEPT ![k] = on[k]]
      BY <1>0 DEF CallType
    <3> QED
      BY <1>1, <3>1 DEF quicCall
  <2>3. o \in Conn \cup {None}
    <3>1. CallType' /\ on'[k] = o
      BY <1>0, <2>2, TypeParts DEF CallType, Steps
    <3> QED
      BY <3>1 DEF CallType
  <2>4. Proceeds(k)
    BY <2>1, <2>2, <2>3 DEF Proceeds
  <2> QED
    BY <2>4 DEF Moves
<1>2. ASSUME NEW k \in Call, OpenCallStream(k) PROVE Moves
  <2>1. on[k] \in Conn \cup {None} /\ on' = [on EXCEPT ![k] = on[k]] /\ on[k] # None
    BY <1>0, <1>2 DEF CallType, OpenCallStream
  <2>2. Proceeds(k)
    BY <1>2, <2>1 DEF OpenCallStream, Proceeds
  <2> QED
    BY <2>2 DEF Moves
<1>9. ASSUME NEW k \in Call, DialPanics(k) PROVE Moves
  <2>1. on[k] \in Conn \cup {None} /\ on' = [on EXCEPT ![k] = on[k]]
    BY <1>0, <1>9 DEF CallType, DialPanics
  <2>2. Proceeds(k)
    BY <1>9, <2>1 DEF DialPanics, Proceeds
  <2> QED
    BY <2>2 DEF Moves
<1>3. ASSUME NEW k \in Call, OpenFails(k) \/ CallEOF(k) \/ CallCancelled(k) PROVE Moves
  BY <1>3, FailsMoves DEF OpenFails, CallEOF, CallCancelled
<1>4. ASSUME NEW k \in Call, CallStep(k) \/ CallCancelled(k) PROVE Moves
  BY <1>2, <1>3, <1>4, <1>9 DEF CallStep, Moves
<1>5. ASSUME NEW c \in Conn, ConnStep(c) PROVE Moves
  BY <1>0, <1>5, DialMoves
     DEF ConnStep, Accept, AcceptFails, onAcceptedTransportConn, ServeEnds, Moves
<1>6. ASSUME NEW n \in Node, StopCancel(n) \/ StopWipe(n) PROVE Moves
  BY <1>6 DEF StopCancel, StopWipe, Moves
<1>7. ASSUME NEW c \in Conn, NEW n \in Node, NEW m \in Node, ConnectDirect(c, n, m) PROVE Moves
  BY <1>7 DEF ConnectDirect, Moves
<1>8. UNCHANGED vars => Moves
  BY DEF vars, Moves
<1> QED
  BY <1>1, <1>4, <1>5, <1>6, <1>7, <1>8 DEF Next

LEMMA HandlersStep == ASSUME Inv, Moves PROVE Handlers'
<1>0. CallType
  BY TypeParts DEF Inv
<1> SUFFICES ASSUME NEW j \in Call PROVE Answered(j)'
  BY DEF Handlers
<1>1. Answered(j)
  BY DEF Inv, Handlers
<1>2. CASE UNCHANGED calls
  BY <1>1, <1>2 DEF calls, Answered
<1>3. ASSUME NEW k \in Call, Proceeds(k) PROVE Answered(j)'
  <2>1. PICK s \in {"connect", "open", "waiting", "failed", "panicked"}, o \in Conn \cup {None} :
          /\ call' = [call EXCEPT ![k] = s] /\ on' = [on EXCEPT ![k] = o]
          /\ s = "waiting" => o # None
    BY <1>3 DEF Proceeds
  <2>2. call'[j] = (IF j = k THEN s ELSE call[j]) /\ on'[j] = IF j = k THEN o ELSE on[j]
    BY <1>0, <2>1 DEF CallType
  <2>3. call[k] \notin {"waiting"} \cup Done /\ ran' = ran /\ reply' = reply
    BY <1>3 DEF Proceeds, Done
  <2> QED
    BY <1>1, <2>1, <2>2, <2>3 DEF Answered
<1>4. ASSUME NEW k \in Call, GivesUp(k) PROVE Answered(j)'
  <2>1. call'[j] = IF j = k THEN "failed" ELSE call[j]
    BY <1>0, <1>4 DEF GivesUp, CallType
  <2> QED
    BY <1>1, <1>4, <2>1 DEF GivesUp, Answered, Done
<1>5. ASSUME NEW k \in Call, handleCallStream(k) PROVE Answered(j)'
  <2>1. CASE j = k
    <3>1. on[k] # None /\ call[k] \in {"waiting"} \cup Done /\ reply[k] = "none"
          /\ UNCHANGED <<call, on>> /\ reply'[k] # "sent"
      BY <1>0, <1>5 DEF handleCallStream, Fresh, CallType
    <3> QED
      BY <2>1, <3>1 DEF Answered
  <2>2. CASE j # k
    <3>1. ran'[j] = ran[j] /\ reply'[j] = reply[j] /\ UNCHANGED <<call, on>>
      BY <1>0, <1>5, <2>2 DEF handleCallStream, CallType
    <3> QED
      BY <1>1, <3>1 DEF Answered
  <2> QED
    BY <2>1, <2>2
<1>6. ASSUME NEW k \in Call, HandlerDone(k) PROVE Answered(j)'
  <2>1. CASE j = k
    <3>1. ran[k] # "none" /\ UNCHANGED <<call, on>> /\ (reply'[k] = "sent" => ran'[k] = "replied")
      BY <1>0, <1>6 DEF HandlerDone, CallType, Silenced
    <3> QED
      BY <1>1, <2>1, <3>1 DEF Answered
  <2>2. CASE j # k
    <3>1. ran'[j] = ran[j] /\ reply'[j] = reply[j] /\ UNCHANGED <<call, on>>
      BY <1>0, <1>6, <2>2 DEF HandlerDone, CallType
    <3> QED
      BY <1>1, <3>1 DEF Answered
  <2> QED
    BY <2>1, <2>2
<1>7. ASSUME NEW k \in Call, CallReturns(k) PROVE Answered(j)'
  <2>1. call'[j] = IF j = k THEN "returned" ELSE call[j]
    BY <1>0, <1>7 DEF CallReturns, CallType
  <2> QED
    BY <1>1, <1>7, <2>1 DEF CallReturns, Answered, Done
<1> QED
  BY <1>2, <1>3, <1>4, <1>5, <1>6, <1>7 DEF Moves

LEMMA InitInv == Init => Inv
<1> SUFFICES ASSUME Init PROVE Inv
  OBVIOUS
<1>1. QuicNodeTypeOK
  BY DEF Init, QuicNodeTypeOK
<1>2. /\ \A c \in Conn, x \in End : side[c][x] = "unused"
      /\ \A n, p \in Node : table[n][p] = None
  BY DEF Init
<1>3. Dialled /\ Found
  BY ZenonT(60), <1>2, Ends DEF Dialled, HasEnds, Found, InTable, Served
<1>4. Placed
  BY <1>2, QuicAssumption DEF Placed, QuicAssumption
<1>5. Leads /\ Handlers
  BY DEF Init, Leads, Handlers, Answered
<1> QED
  BY <1>1, <1>3, <1>4, <1>5 DEF Inv

LEMMA NextInv == Inv /\ [Next]_vars => Inv'
<1> SUFFICES ASSUME Inv, [Next]_vars PROVE Inv'
  OBVIOUS
<1>1. Steps /\ Moves
  BY StepForms, CallForms
<1>2. QuicNodeTypeOK' /\ Dialled' /\ Placed' /\ Found'
  BY <1>1, ConnsStep DEF Steps
<1> QED
  BY <1>1, <1>2, LeadsStep, HandlersStep DEF Inv

\* The invariant holds in every behaviour of nodes over QUIC.
THEOREM QuicInvariant == Spec => []Inv
  BY InitInv, NextInv, PTL DEF Spec

\* n.transports tells the truth, whatever dials, accepts, losses and Stop do: an
\* entry is served and leads to its peer, a served connection can be found, and a
\* handler runs at the peer the call was for only.
THEOREM TableTrue == Spec => []TableIsTrue
<1> SUFFICES Inv => TableIsTrue
  BY QuicInvariant, PTL
<1> SUFFICES ASSUME Inv PROVE TableIsTrue
  OBVIOUS
<1>1. ASSUME NEW n \in Node, NEW p \in Node, table[n][p] # None
      PROVE  \E x \in End : At(table[n][p], x) = n
                            /\ side[table[n][p]][x] \in {"serving", "late"}
  <2>0. table \in [Node -> [Node -> Conn \cup {None}]]
    BY DEF Inv, QuicNodeTypeOK
  <2>1. PICK c \in Conn : c = table[n][p]
    BY <1>1, <2>0
  <2>2. PICK x \in End : Joins(c, x, n, p) /\ Served(c, x)
    BY <2>1, EntryOf
  <2> QED
    BY <2>1, <2>2 DEF Joins, Served
<1>2. ASSUME NEW c \in Conn, NEW x \in End, side[c][x] = "serving", stop[At(c, x)] # "done"
      PROVE  \E p \in Node : table[At(c, x)][p] = c
  <2>1. At(c, Other(x)) \in Node
    BY <1>2, Ends DEF Inv, Dialled, HasEnds
  <2>2. table[At(c, x)][At(c, Other(x))] = c
    BY <1>2 DEF Inv, Found, InTable, Served
  <2> QED
    BY <2>1, <2>2
<1>3. ASSUME NEW k \in Call, ran[k] # "none" PROVE At(on[k], Far(k)) = To[k]
  <2>1. on[k] # None
    BY <1>3 DEF Inv, Handlers, Answered
  <2>2. PICK x \in End : At(on[k], x) = From[k] /\ At(on[k], Other(x)) = To[k]
    BY <2>1 DEF Inv, Leads, Joins
  <2>3. CASE x = "d"
    BY <2>2, <2>3, Ends DEF Far, Near
  <2>4. CASE x = "l"
    <3>1. At(on[k], "l") = From[k] /\ At(on[k], "d") = To[k]
      BY <2>2, <2>4, Ends
    <3>2. CASE At(on[k], "d") = From[k]
      BY <3>1, <3>2, Ends DEF Far, Near
    <3>3. CASE At(on[k], "d") # From[k]
      BY <3>1, <3>3, Ends DEF Far, Near
    <3> QED
      BY <3>2, <3>3
  <2> QED
    BY <2>3, <2>4, Ends
<1> QED
  BY <1>1, <1>2, <1>3 DEF TableIsTrue, TableServes, RightPeer, Inv

-------------------------------------------------------------------------------
(* QuicNode implements AtMostOnceCall.                                         *)

\* A call that has neither returned nor failed; one that panicked never will.
Begun == {"connect", "open", "waiting", "panicked"}

\* The outcome of a call, in either state of a step.
LEMMA OutcomeOf ==
    /\ outcomes \in [Call -> {"none", "running"} \cup Done]
    /\ \A k \in Call : /\ call[k] = "idle" <=> outcomes[k] = "none"
                       /\ call[k] \in Begun => outcomes[k] = "running" /\ call[k] \notin Done
  BY DEF outcomes, Done, Begun

LEMMA OutcomeKept ==
    ASSUME \A k \in Call : \/ call'[k] = call[k]
                           \/ {call[k], call'[k]} \subseteq Begun
    PROVE  outcomes' = outcomes
  BY DEF outcomes, Done, Begun

LEMMA OutcomeMoved ==
    ASSUME CallType, NEW k \in Call, NEW s, call' = [call EXCEPT ![k] = s],
           s \in Begun \cup Done
    PROVE  outcomes' = [outcomes EXCEPT ![k] = IF s \in Done THEN s ELSE "running"]
  BY DEF CallType, outcomes, Done, Begun

\* Every step of the nodes is a step of AtMostOnceCall, or none.
LEMMA ContractStep ==
    ASSUME Inv, Moves
    PROVE  [Contract!Next]_<<outcomes, ran, answer>>
<1> DEFINE Goal == [Contract!Next]_<<outcomes, ran, answer>>
<1>0. CallType
  BY TypeParts DEF Inv
<1>1. CASE UNCHANGED calls
  BY <1>1, OutcomeKept DEF calls
<1>2. ASSUME NEW k \in Call, Proceeds(k) PROVE Goal
  <2>1. PICK s \in {"connect", "open", "waiting", "failed", "panicked"} :
          /\ call' = [call EXCEPT ![k] = s]
          /\ call[k] = "idle" => s \in {"connect", "open"}
    BY <1>2 DEF Proceeds
  <2>2. ran' = ran /\ answer' = answer /\ call[k] \in {"idle", "connect", "open"}
    BY <1>2 DEF Proceeds
  <2>3. CASE call[k] = "idle"
    <3>1. outcomes[k] = "none" /\ outcomes' = [outcomes EXCEPT ![k] = "running"]
      BY <1>0, <2>1, <2>3, OutcomeMoved, OutcomeOf DEF Done, Begun
    <3> QED
      BY <2>2, <3>1 DEF Contract!Next, Contract!Issue
  <2>4. CASE call[k] # "idle" /\ s = "failed"
    <3>1. outcomes[k] = "running" /\ outcomes' = [outcomes EXCEPT ![k] = "failed"]
      BY <1>0, <2>1, <2>2, <2>4, OutcomeMoved, OutcomeOf DEF Done, Begun
    <3> QED
      BY <2>2, <3>1 DEF Contract!Next, Contract!Fail
  <2>5. CASE call[k] # "idle" /\ s # "failed"
    <3>1. \A j \in Call : \/ call'[j] = call[j]
                          \/ {call[j], call'[j]} \subseteq Begun
      BY <1>0, <2>1, <2>2, <2>5 DEF CallType, Begun
    <3> QED
      BY <2>2, <3>1, OutcomeKept
  <2> QED
    BY <2>3, <2>4, <2>5
<1>3. ASSUME NEW k \in Call, GivesUp(k) PROVE Goal
  <2>1. outcomes[k] = "running" /\ outcomes' = [outcomes EXCEPT ![k] = "failed"]
    BY <1>0, <1>3, OutcomeMoved, OutcomeOf DEF GivesUp, Done, Begun
  <2> QED
    BY <1>3, <2>1 DEF GivesUp, Contract!Next, Contract!Fail
<1>4. ASSUME NEW k \in Call, handleCallStream(k) PROVE Goal
  <2>1. outcomes' = outcomes /\ answer' = answer
    BY <1>4, OutcomeKept DEF handleCallStream
  <2>2. ran[k] = "none" /\ call[k] # "idle"
    BY <1>4 DEF handleCallStream, Fresh, Done
  <2>3. outcomes[k] # "none"
    BY <2>2, OutcomeOf
  <2>4. ran' = ran \/ ran' = [ran EXCEPT ![k] = "running"]
    BY <1>4 DEF handleCallStream
  <2> QED
    BY <2>1, <2>2, <2>3, <2>4 DEF Contract!Next, Contract!Run
<1>5. ASSUME NEW k \in Call, HandlerDone(k) PROVE Goal
  <2>1. outcomes' = outcomes /\ answer' = answer
    BY <1>5, OutcomeKept DEF HandlerDone
  <2>2. PICK how \in {"replied", "silent"} : ran' = [ran EXCEPT ![k] = how]
    BY <1>5 DEF HandlerDone
  <2>3. ran[k] = "running"
    BY <1>5 DEF HandlerDone
  <2> QED
    BY <2>1, <2>2, <2>3 DEF Contract!Next, Contract!Finish
<1>6. ASSUME NEW k \in Call, CallReturns(k) PROVE Goal
  <2>1. outcomes[k] = "running" /\ outcomes' = [outcomes EXCEPT ![k] = "returned"]
    BY <1>0, <1>6, OutcomeMoved, OutcomeOf DEF CallReturns, Done, Begun
  <2>2. ran[k] = "replied"
    BY <1>6 DEF CallReturns, Inv, Handlers, Answered
  <2> QED
    BY <1>6, <2>1, <2>2 DEF CallReturns, Contract!Next, Contract!Return
<1> QED
  BY <1>1, <1>2, <1>3, <1>4, <1>5, <1>6 DEF Moves

\* Over QUIC, whatever dials, lost connections, cancellations and Stop do, a call
\* runs its handler at most once and returns that handler's answer or nothing.
THEOREM OverQuic == Spec => QuicAtMostOnce
<1>1. Init => Contract!Init
  <2> SUFFICES ASSUME Init PROVE Contract!Init
    OBVIOUS
  <2>1. outcomes = [k \in Call |-> "none"]
    BY OutcomeOf DEF Init
  <2> QED
    BY <2>1 DEF Init, Contract!Init
<1>2. Inv /\ [Next]_vars => [Contract!Next]_<<outcomes, ran, answer>>
  BY CallForms, ContractStep
<1> QED
  BY <1>1, <1>2, QuicInvariant, PTL DEF Spec, QuicAtMostOnce, Contract!Spec

-------------------------------------------------------------------------------
\* The control stream of one connection (QuicConn).  How much of what end e wrote
\* has been read, by the loop or by the drain at the other end.
Read(e) == Len(written[e]) - Len(pipe[e])

\* A Send between its two writes holds ctrlMu.
Writing(e) == \A w \in Writers : send[e][w] \in {"length", "body"} => ctrlMu[e] = w

\* A goroutine's frame is written once.
Once(e) ==
    /\ \A i \in DOMAIN sent[e] : send[e][sent[e][i]] = "sent"
    /\ \A i, j \in DOMAIN sent[e] : sent[e][i] = sent[e][j] => i = j

\* The stream is made of the frames that were written whole and, at its end, of
\* the length of one that is being written or will never be.
Whole(e) ==
    \A j \in DOMAIN sent[e] : /\ written[e][2 * j - 1] = <<"length", sent[e][j]>>
                              /\ written[e][2 * j] = <<"body", sent[e][j]>>
Dangling(e) ==
    /\ Len(written[e]) \in {2 * Len(sent[e]), 2 * Len(sent[e]) + 1}
    /\ Len(written[e]) # 2 * Len(sent[e]) => written[e][2 * Len(sent[e]) + 1][1] = "length"
    /\ \A w \in Writers : send[e][w] = "body" =>
          /\ Len(written[e]) = 2 * Len(sent[e]) + 1
          /\ written[e][2 * Len(sent[e]) + 1] = <<"length", w>>
    /\ Len(written[e]) # 2 * Len(sent[e]) /\ up[e] /\ ~fin[e] =>
          \E w \in Writers : send[e][w] = "body"

\* What has not been read is the rest of what was written.
Unread(e) ==
    /\ Len(pipe[e]) <= Len(written[e])
    /\ \A i \in DOMAIN pipe[e] : pipe[e][i] = written[e][Read(e) + i]

\* What the handlers at e were given are frames that have been read whole, in
\* their order.
Handed(e) ==
    LET o == sent[Across(e)] IN
    /\ \A i \in DOMAIN got[e] : \E j \in DOMAIN o : o[j] = got[e][i] /\ 2 * j <= Read(Across(e))
    /\ \A i, j \in DOMAIN got[e], m, n \in DOMAIN o :
           i < j /\ o[m] = got[e][i] /\ o[n] = got[e][j] => m < n

\* Until e closes its loop alone reads, and keeps in step with the frames.
InStep(e) ==
    ~closed[e] =>
        LET o == sent[Across(e)] IN
        /\ closing[e] = "no" /\ ~fin[e] /\ by[e] = "nobody"
        /\ Len(got[e]) <= Len(o) /\ \A i \in DOMAIN got[e] : got[e][i] = o[i]
        /\ recv[e] # "body" => Read(Across(e)) = 2 * Len(got[e])
        /\ recv[e] = "body" => /\ Read(Across(e)) = 2 * Len(got[e]) + 1
                               /\ held[e] = written[Across(e)][2 * Len(got[e]) + 1][2]

\* A loop that closed its end while the connection was up had read up to the
\* peer's FIN, as had a drain that ended with EOF.
Flushed(e) ==
    /\ by[e] = "loop" /\ fin[e] =>
          recv[e] = "ended" /\ fin[Across(e)] /\ got[e] = sent[Across(e)]
    /\ drained[e] = "eof" => fin[Across(e)]

\* The sender's and the receiver's half of the invariant.
Outgoing(e) == Writing(e) /\ Once(e) /\ Whole(e) /\ Dangling(e)
Incoming(e) == Handed(e) /\ InStep(e) /\ Flushed(e)
ConnInv == QuicConnTypeOK /\ \A e \in Side : Outgoing(e) /\ Unread(e) /\ Incoming(e)

LEMMA Sides ==
    \A e \in Side : /\ Across(e) \in Side /\ Across(Across(e)) = e /\ Across(e) # e
                    /\ \A x \in Side : x = e \/ x = Across(e)
  BY DEF Side, Across

LEMMA SeqFacts ==
    ASSUME NEW S, NEW q \in Seq(S)
    PROVE  Len(q) \in Nat /\ DOMAIN q = 1 .. Len(q) /\ \A i \in 1 .. Len(q) : q[i] \in S
  BY SMT

LEMMA AppendFacts ==
    ASSUME NEW S, NEW q \in Seq(S), NEW v \in S
    PROVE  /\ Append(q, v) \in Seq(S) /\ Len(Append(q, v)) = Len(q) + 1
           /\ Append(q, v)[Len(q) + 1] = v
           /\ \A i \in 1 .. Len(q) : Append(q, v)[i] = q[i]
  BY SMT

LEMMA TailFacts ==
    ASSUME NEW S, NEW q \in Seq(S), q # <<>>
    PROVE  /\ Tail(q) \in Seq(S) /\ Len(q) >= 1 /\ Len(Tail(q)) = Len(q) - 1 /\ Head(q) = q[1]
           /\ \A i \in 1 .. Len(q) - 1 : Tail(q)[i] = q[i + 1]
  BY SMT

LEMMA ConnInitTyped == ConnInit => QuicConnTypeOK
  <1>1. \A S : <<>> \in Seq(S)
    BY SMT
  <1> QED
    BY <1>1, SMT DEF ConnInit, QuicConnTypeOK

\* The types of the numbers and pieces the proofs speak of.
LEMMA Measured ==
    ASSUME QuicConnTypeOK, NEW e \in Side
    PROVE  /\ Len(written[e]) \in Nat /\ Len(pipe[e]) \in Nat /\ Len(sent[e]) \in Nat
           /\ Len(got[e]) \in Nat /\ Read(e) \in Int
           /\ DOMAIN sent[e] = 1 .. Len(sent[e]) /\ DOMAIN got[e] = 1 .. Len(got[e])
           /\ DOMAIN pipe[e] = 1 .. Len(pipe[e])
           /\ \A i \in 1 .. Len(sent[e]) : sent[e][i] \in Writers
           /\ \A i \in 1 .. Len(written[e]) : written[e][i] \in Piece
           /\ sent[e] \in Seq(Writers) /\ got[e] \in Seq(Writers)
           /\ written[e] \in Seq(Piece) /\ pipe[e] \in Seq(Piece)
  <1>1. /\ sent[e] \in Seq(Writers) /\ got[e] \in Seq(Writers)
        /\ written[e] \in Seq(Piece) /\ pipe[e] \in Seq(Piece)
    BY SMT DEF QuicConnTypeOK
  <1>2. Len(written[e]) \in Nat /\ Len(pipe[e]) \in Nat
    BY <1>1, SeqFacts
  <1>3. Read(e) \in Int
    BY <1>2, SMT DEF Read
  <1> QED
    BY <1>1, <1>2, <1>3, SeqFacts

LEMMA TakeFacts ==
    ASSUME QuicConnTypeOK, NEW e \in Side, Unread(Across(e)), Ready(e), Take(e),
           UNCHANGED written
    PROVE  /\ pipe' \in [Side -> Seq(Piece)] /\ pipe'[e] = pipe[e]
           /\ Next1(e) = written[Across(e)][Read(Across(e)) + 1] /\ Next1(e) \in Piece
           /\ Read(Across(e))' = Read(Across(e)) + 1
           /\ 0 <= Read(Across(e)) /\ Read(Across(e)) + 1 <= Len(written[Across(e)])
           /\ Unread(Across(e))'
  <1>0. PICK s : s = Across(e)
    OBVIOUS
  <1>1. s \in Side /\ s # e
    BY <1>0, Sides
  <1>2. PICK q : q = pipe[s]
    OBVIOUS
  <1>3. q \in Seq(Piece) /\ q # <<>> /\ Len(q) \in Nat /\ DOMAIN q = 1 .. Len(q)
    BY <1>0, <1>1, <1>2, Measured DEF Ready
  <1>4. /\ Tail(q) \in Seq(Piece) /\ Len(q) >= 1 /\ Len(Tail(q)) = Len(q) - 1 /\ Head(q) = q[1]
        /\ \A i \in 1 .. Len(q) - 1 : Tail(q)[i] = q[i + 1]
    BY <1>3, TailFacts
  <1>5. pipe' = [pipe EXCEPT ![s] = Tail(q)]
    BY <1>0, <1>2 DEF Take
  <1>6. pipe' \in [Side -> Seq(Piece)] /\ pipe'[e] = pipe[e] /\ pipe'[s] = Tail(q)
    BY <1>1, <1>4, <1>5, SMT DEF QuicConnTypeOK
  <1>7. PICK W : W = written[s]
    OBVIOUS
  <1>8. Len(W) \in Nat /\ Len(q) <= Len(W) /\ (\A i \in 1 .. Len(q) : q[i] = W[Len(W) - Len(q) + i])
        /\ (\A i \in 1 .. Len(W) : W[i] \in Piece)
    BY <1>0, <1>1, <1>2, <1>3, <1>7, Measured DEF Unread, Read
  <1>9. Read(s) = Len(W) - Len(q) /\ written'[s] = W /\ Read(s)' = Len(W) - (Len(q) - 1)
    BY <1>2, <1>4, <1>6, <1>7 DEF Read
  <1>10. Next1(e) = q[1]
    BY <1>0, <1>2, <1>4 DEF Next1
  <1>11. q[1] = W[Len(W) - Len(q) + 1] /\ W[Len(W) - Len(q) + 1] \in Piece
    BY <1>3, <1>4, <1>8, SMT
  <1>12. Read(s)' = Read(s) + 1 /\ 0 <= Read(s) /\ Read(s) + 1 <= Len(W)
    BY <1>3, <1>4, <1>8, <1>9, SMT
  <1>13. DOMAIN Tail(q) = 1 .. Len(q) - 1
    BY <1>4, SeqFacts
  <1>14. \A i \in 1 .. Len(q) - 1 : Tail(q)[i] = W[(Len(W) - (Len(q) - 1)) + i]
    <2> TAKE i \in 1 .. Len(q) - 1
    <2>1. i + 1 \in 1 .. Len(q) /\ (Len(W) - (Len(q) - 1)) + i = Len(W) - Len(q) + (i + 1)
      BY <1>3, <1>8, SMT
    <2> QED
      BY <2>1, <1>4, <1>8
  <1>15. Len(q) - 1 <= Len(W)
    BY <1>3, <1>8, SMT
  <1>16. Unread(s)'
    BY <1>4, <1>6, <1>9, <1>13, <1>14, <1>15 DEF Unread
  <1> QED
    BY <1>0, <1>6, <1>7, <1>9, <1>10, <1>11, <1>12, <1>16

LEMMA OutgoingKept ==
    ASSUME NEW x \in Side, UNCHANGED <<ctrlMu, send, written, sent>>, Outgoing(x),
           up'[x] /\ ~fin'[x] => up[x] /\ ~fin[x]
    PROVE  Outgoing(x)'
  BY DEF Outgoing, Writing, Once, Whole, Dangling

\* send[e][w] becomes v and nothing else of send changes.
LEMMA SendSet ==
    ASSUME QuicConnTypeOK, NEW e \in Side, NEW w \in Writers, NEW v,
           send' = [send EXCEPT ![e][w] = v]
    PROVE  /\ send'[e][w] = v
           /\ \A u \in Writers : u # w => send'[e][u] = send[e][u]
           /\ \A x \in Side : x # e => send'[x] = send[x]
  BY SMT DEF QuicConnTypeOK

\* A step of Send that writes nothing.
LEMMA NothingWritten ==
    ASSUME QuicConnTypeOK, NEW e \in Side, NEW w \in Writers, NEW v,
           send' = [send EXCEPT ![e][w] = v], v # "body", send[e][w] # "sent",
           send[e][w] = "body" => ~(up[e] /\ ~fin[e]),
           UNCHANGED <<written, sent, up, fin>>,
           NEW x \in Side, Outgoing(x), Writing(x)'
    PROVE  Outgoing(x)'
  <1>1. /\ send'[e][w] = v
        /\ \A u \in Writers : u # w => send'[e][u] = send[e][u]
        /\ \A y \in Side : y # e => send'[y] = send[y]
    BY SendSet
  <1>2. CASE x # e
    <2>1. send'[x] = send[x]
      BY <1>1, <1>2
    <2> QED
      BY <2>1 DEF Outgoing, Once, Whole, Dangling
  <1>3. CASE x = e
    <2>1. Once(e)'
      <3>1. \A i \in DOMAIN sent[e] : sent[e][i] \in Writers /\ send[e][sent[e][i]] = "sent"
        BY <1>3, Measured DEF Outgoing, Once
      <3>2. \A i \in DOMAIN sent[e] : send'[e][sent[e][i]] = "sent"
        BY <1>1, <3>1
      <3> QED
        BY <3>2, <1>3 DEF Outgoing, Once
    <2>2. Whole(e)'
      BY <1>3 DEF Outgoing, Whole
    <2>3. \A u \in Writers : send'[e][u] = "body" => send[e][u] = "body"
      BY <1>1
    <2>4. \A u \in Writers : send[e][u] = "body" /\ up[e] /\ ~fin[e] => send'[e][u] = "body"
      BY <1>1
    <2>5. Dangling(e)'
      BY <2>3, <2>4, <1>3 DEF Outgoing, Dangling
    <2> QED
      BY <2>1, <2>2, <2>5, <1>3 DEF Outgoing
  <1> QED
    BY <1>2, <1>3

\* An end other than the one that writes.
LEMMA OutgoingAcross ==
    ASSUME NEW x \in Side, Outgoing(x), send'[x] = send[x], ctrlMu'[x] = ctrlMu[x],
           written'[x] = written[x], sent'[x] = sent[x], up'[x] = up[x], fin'[x] = fin[x]
    PROVE  Outgoing(x)'
  BY ZenonT(60) DEF Outgoing, Writing, Once, Whole, Dangling

\* writeFrame's first write.
LEMMA LengthWritten ==
    ASSUME QuicConnTypeOK, NEW e \in Side, NEW w \in Writers, Outgoing(e),
           send[e][w] = "length", up[e], ~fin[e], UNCHANGED <<up, fin>>,
           send' = [send EXCEPT ![e][w] = "body"], sent'[e] = sent[e],
           written'[e] = Append(written[e], <<"length", w>>), ctrlMu'[e] = w
    PROVE  Outgoing(e)'
  <1>1. /\ send'[e][w] = "body"
        /\ \A u \in Writers : u # w => send'[e][u] = send[e][u]
    BY SMT DEF QuicConnTypeOK
  <1>2. \A u \in Writers : u # w => send[e][u] \notin {"length", "body"}
    BY DEF Outgoing, Writing
  <1>3. Writing(e)'
    BY <1>1, <1>2 DEF Writing
  <1>4. Once(e)'
    <2>1. \A i \in DOMAIN sent[e] : sent[e][i] \in Writers /\ send[e][sent[e][i]] = "sent"
      BY Measured DEF Outgoing, Once
    <2>2. \A i \in DOMAIN sent[e] : send'[e][sent[e][i]] = "sent"
      BY <1>1, <2>1
    <2> QED
      BY <2>2 DEF Outgoing, Once
  <1>5. \A u \in Writers : send[e][u] # "body"
    BY <1>2
  <1>6. PICK W, k, v : W = written[e] /\ k = Len(sent[e]) /\ v = <<"length", w>>
    OBVIOUS
  <1>7. k \in Nat /\ Len(W) = 2 * k /\ W \in Seq(Piece) /\ v \in Piece
    BY <1>5, <1>6, Measured DEF Outgoing, Dangling, Piece
  <1>8. /\ Len(written'[e]) = 2 * k + 1 /\ written'[e][2 * k + 1] = v
        /\ \A i \in 1 .. 2 * k : written'[e][i] = W[i]
    <2>1. written'[e] = Append(W, v)
      BY <1>6
    <2>2. /\ Len(Append(W, v)) = Len(W) + 1 /\ Append(W, v)[Len(W) + 1] = v
          /\ \A i \in 1 .. Len(W) : Append(W, v)[i] = W[i]
      BY <1>7, AppendFacts, SMT
    <2> QED
      BY <2>1, <2>2, <1>7
  <1>9. DOMAIN sent[e] = 1 .. k
    BY <1>6, Measured
  <1>10. \A j \in 1 .. k : 2 * j - 1 \in 1 .. 2 * k /\ 2 * j \in 1 .. 2 * k
    BY <1>7, SMTT(30)
  <1>11. Whole(e)'
    BY ZenonT(60), <1>6, <1>8, <1>9, <1>10 DEF Outgoing, Whole
  <1>12. v[1] = "length" /\ 2 * k + 1 # 2 * k
    BY <1>6, <1>7, SMT
  <1>13. \A u \in Writers : send'[e][u] = "body" => u = w
    BY <1>1, <1>5
  <1>14. Dangling(e)'
    BY ZenonT(60), <1>1, <1>6, <1>8, <1>12, <1>13 DEF Dangling
  <1> QED
    BY <1>3, <1>4, <1>11, <1>14 DEF Outgoing

\* writeFrame's second write.
LEMMA BodyWritten ==
    ASSUME QuicConnTypeOK, NEW e \in Side, NEW w \in Writers, Outgoing(e),
           send[e][w] = "body", UNCHANGED <<up, fin>>,
           send' = [send EXCEPT ![e][w] = "sent"], sent'[e] = Append(sent[e], w),
           written'[e] = Append(written[e], <<"body", w>>)
    PROVE  Outgoing(e)'
  <1>1. /\ send'[e][w] = "sent"
        /\ \A u \in Writers : u # w => send'[e][u] = send[e][u]
    BY SMT DEF QuicConnTypeOK
  <1>2. \A u \in Writers : u # w => send[e][u] \notin {"length", "body"}
    BY DEF Outgoing, Writing
  <1>3. \A u \in Writers : send'[e][u] \notin {"length", "body"}
    BY <1>1, <1>2
  <1>4. Writing(e)'
    BY <1>3 DEF Writing
  <1>5. PICK W, F, k, v : W = written[e] /\ F = sent[e] /\ k = Len(F) /\ v = <<"body", w>>
    OBVIOUS
  <1>6. /\ k \in Nat /\ Len(W) = 2 * k + 1 /\ W \in Seq(Piece) /\ v \in Piece
        /\ F \in Seq(Writers) /\ DOMAIN F = 1 .. k /\ W[2 * k + 1] = <<"length", w>>
        /\ \A i \in 1 .. k : F[i] \in Writers
    BY <1>5, Measured DEF Outgoing, Dangling, Piece
  <1>7. PICK W2, F2 : W2 = Append(W, v) /\ F2 = Append(F, w)
    OBVIOUS
  <1>8. /\ Len(W2) = Len(W) + 1 /\ W2[Len(W) + 1] = v
        /\ \A i \in 1 .. Len(W) : W2[i] = W[i]
    BY <1>6, <1>7, AppendFacts, SMTT(30)
  <1>9. /\ F2 \in Seq(Writers) /\ Len(F2) = k + 1 /\ F2[k + 1] = w
        /\ \A i \in 1 .. k : F2[i] = F[i]
    BY <1>5, <1>6, <1>7, AppendFacts, SMT
  <1>10. DOMAIN F2 = 1 .. k + 1
    BY <1>9, SeqFacts
  <1>11. written'[e] = W2 /\ sent'[e] = F2
    BY <1>5, <1>7
  <1>12. \A i \in 1 .. k + 1 : i = k + 1 \/ i \in 1 .. k
    BY <1>6, SMT
  <1>13. \A i \in 1 .. k : send[e][F[i]] = "sent"
    BY <1>5, <1>6 DEF Outgoing, Once
  <1>14. \A i \in 1 .. k : F[i] # w /\ send'[e][F[i]] = "sent"
    BY <1>1, <1>6, <1>13
  <1>15. Once(e)'
    <2>1. \A i \in 1 .. k + 1 : send'[e][F2[i]] = "sent"
      BY ZenonT(60), <1>1, <1>9, <1>12, <1>14
    <2>2. \A i, j \in 1 .. k : F[i] = F[j] => i = j
      BY <1>5, <1>6 DEF Outgoing, Once
    <2>3. \A i, j \in 1 .. k + 1 : F2[i] = F2[j] => i = j
      BY <2>2, <1>9, <1>12, <1>14, SMT
    <2> QED
      BY <2>1, <2>3, <1>10, <1>11 DEF Once
  <1>16. Whole(e)'
    <2>1. \A j \in 1 .. k : W[2 * j - 1] = <<"length", F[j]>> /\ W[2 * j] = <<"body", F[j]>>
      BY <1>5, <1>6 DEF Outgoing, Whole
    <2>2. \A j \in 1 .. k : 2 * j - 1 \in 1 .. Len(W) /\ 2 * j \in 1 .. Len(W)
      BY <1>6, SMTT(30)
    <2>3. \A j \in 1 .. k : W2[2 * j - 1] = <<"length", F2[j]>> /\ W2[2 * j] = <<"body", F2[j]>>
      BY <2>1, <2>2, <1>8, <1>9
    <2>4. 2 * (k + 1) - 1 = 2 * k + 1 /\ 2 * (k + 1) = Len(W) + 1 /\ 2 * k + 1 \in 1 .. Len(W)
      BY <1>6, SMT
    <2>5. W2[2 * (k + 1) - 1] = <<"length", w>> /\ W2[2 * (k + 1)] = <<"body", w>>
      BY <2>4, <1>5, <1>6, <1>8
    <2>6. \A j \in 1 .. k + 1 : W2[2 * j - 1] = <<"length", F2[j]>> /\ W2[2 * j] = <<"body", F2[j]>>
      BY <2>3, <2>5, <1>9, <1>12
    <2> QED
      BY <2>6, <1>10, <1>11 DEF Whole
  <1>17. Len(W2) = 2 * Len(F2)
    BY <1>6, <1>8, <1>9, SMTT(30)
  <1>18. Dangling(e)'
    BY <1>3, <1>11, <1>17 DEF Dangling
  <1> QED
    BY <1>4, <1>15, <1>16, <1>18 DEF Outgoing

\* What is written is read later.
LEMMA Appended ==
    ASSUME QuicConnTypeOK, NEW e \in Side, Unread(e), NEW v \in Piece,
           pipe'[e] = Append(pipe[e], v), written'[e] = Append(written[e], v)
    PROVE  Unread(e)' /\ Read(e)' = Read(e)
           /\ \A i \in 1 .. Len(written[e]) : written'[e][i] = written[e][i]
  <1>1. PICK W, q : W = written[e] /\ q = pipe[e]
    OBVIOUS
  <1>2. /\ W \in Seq(Piece) /\ q \in Seq(Piece) /\ Len(W) \in Nat /\ Len(q) \in Nat
        /\ DOMAIN q = 1 .. Len(q) /\ Len(q) <= Len(W)
        /\ \A i \in 1 .. Len(q) : q[i] = W[Len(W) - Len(q) + i]
    BY <1>1, Measured DEF Unread, Read
  <1>3. PICK W2, q2 : W2 = Append(W, v) /\ q2 = Append(q, v)
    OBVIOUS
  <1>4. /\ Len(W2) = Len(W) + 1 /\ W2[Len(W) + 1] = v
        /\ \A i \in 1 .. Len(W) : W2[i] = W[i]
    BY <1>2, <1>3, AppendFacts, SMT
  <1>5. /\ q2 \in Seq(Piece) /\ Len(q2) = Len(q) + 1 /\ q2[Len(q) + 1] = v
        /\ \A i \in 1 .. Len(q) : q2[i] = q[i]
    BY <1>2, <1>3, AppendFacts, SMT
  <1>6. DOMAIN q2 = 1 .. Len(q) + 1
    BY <1>5, SeqFacts
  <1>7. written'[e] = W2 /\ pipe'[e] = q2
    BY <1>1, <1>3
  <1>8. Len(W2) - Len(q2) = Len(W) - Len(q) /\ Len(q2) <= Len(W2)
    BY <1>2, <1>4, <1>5, SMT
  <1>9. \A i \in 1 .. Len(q) + 1 : q2[i] = W2[Len(W2) - Len(q2) + i]
    <2> TAKE i \in 1 .. Len(q) + 1
    <2>1. CASE i = Len(q) + 1
      <3>1. Len(W) - Len(q) + (Len(q) + 1) = Len(W) + 1
        BY <1>2, SMT
      <3> QED
        BY <3>1, <2>1, <1>4, <1>5, <1>8
    <2>2. CASE i # Len(q) + 1
      <3>1. i \in 1 .. Len(q) /\ Len(W) - Len(q) + i \in 1 .. Len(W)
        BY <2>2, <1>2, SMT
      <3> QED
        BY <3>1, <1>2, <1>4, <1>5, <1>8
    <2> QED
      BY <2>1, <2>2
  <1>10. Unread(e)'
    BY <1>6, <1>7, <1>8, <1>9 DEF Unread, Read
  <1>11. Read(e)' = Len(W2) - Len(q2) /\ Read(e) = Len(W) - Len(q)
    BY <1>1, <1>7 DEF Read
  <1> QED
    BY <1>1, <1>4, <1>7, <1>8, <1>10, <1>11

\* Odd pieces of a stream are lengths, even ones the bodies that belong to them.
LEMMA OddIsLength ==
    ASSUME QuicConnTypeOK, NEW e \in Side, Outgoing(e), NEW j \in Nat,
           2 * j + 1 <= Len(written[e])
    PROVE  written[e][2 * j + 1][1] = "length" /\ j <= Len(sent[e])
           /\ (j < Len(sent[e]) => written[e][2 * j + 1][2] = sent[e][j + 1])
  <1>1. Len(sent[e]) \in Nat /\ Len(written[e]) \in Nat /\ DOMAIN sent[e] = 1 .. Len(sent[e])
    BY Measured
  <1>2. /\ Len(written[e]) \in {2 * Len(sent[e]), 2 * Len(sent[e]) + 1}
        /\ Len(written[e]) # 2 * Len(sent[e]) => written[e][2 * Len(sent[e]) + 1][1] = "length"
    BY DEF Outgoing, Dangling
  <1>3. j <= Len(sent[e])
    BY <1>1, <1>2, SMT
  <1>4. CASE j = Len(sent[e])
    <2>1. Len(written[e]) # 2 * Len(sent[e]) /\ ~(j < Len(sent[e]))
      BY <1>1, <1>4, SMT
    <2> QED
      BY <2>1, <1>2, <1>3, <1>4
  <1>5. CASE j # Len(sent[e])
    <2>1. j + 1 \in DOMAIN sent[e] /\ 2 * (j + 1) - 1 = 2 * j + 1
      BY <1>1, <1>3, <1>5, SMT
    <2>2. written[e][2 * j + 1] = <<"length", sent[e][j + 1]>>
      BY <2>1 DEF Outgoing, Whole
    <2> QED
      BY <2>2, <1>3, SMT
  <1> QED
    BY <1>4, <1>5

LEMMA EvenIsBody ==
    ASSUME QuicConnTypeOK, NEW e \in Side, Outgoing(e), NEW j \in Nat \ {0},
           2 * j <= Len(written[e])
    PROVE  j \in DOMAIN sent[e] /\ written[e][2 * j] = <<"body", sent[e][j]>>
  <1>1. Len(sent[e]) \in Nat /\ Len(written[e]) \in Nat /\ DOMAIN sent[e] = 1 .. Len(sent[e])
    BY Measured
  <1>2. Len(written[e]) \in {2 * Len(sent[e]), 2 * Len(sent[e]) + 1}
    BY DEF Outgoing, Dangling
  <1>3. j \in DOMAIN sent[e]
    BY <1>1, <1>2, SMT
  <1> QED
    BY <1>3 DEF Outgoing, Whole

LEMMA Parity == \A n \in Nat \ {0} : (\E j \in Nat : n = 2 * j + 1) \/ (\E j \in Nat \ {0} : n = 2 * j)
  <1> TAKE n \in Nat \ {0}
  <1>1. PICK j : j = n \div 2
    OBVIOUS
  <1>2. j \in Nat /\ (n = 2 * j \/ n = 2 * j + 1)
    BY <1>1, SMT
  <1>3. n = 2 * j => j # 0
    BY SMT
  <1> QED
    BY <1>2, <1>3

LEMMA BodyIsOfAFrame ==
    ASSUME QuicConnTypeOK, NEW e \in Side, Outgoing(e), NEW i \in 1 .. Len(written[e]),
           NEW w, written[e][i] = <<"body", w>>
    PROVE  \E j \in DOMAIN sent[e] : i = 2 * j /\ sent[e][j] = w
  <1>1. Len(written[e]) \in Nat
    BY Measured
  <1>2. i \in Nat \ {0} /\ i <= Len(written[e])
    BY <1>1, SMT
  <1>3. CASE \E j \in Nat : i = 2 * j + 1
    <2>1. written[e][i][1] = "length"
      BY ZenonT(60), <1>2, <1>3, OddIsLength
    <2> QED
      BY <2>1, SMT
  <1>4. CASE \E j \in Nat \ {0} : i = 2 * j
    <2>1. PICK j \in Nat \ {0} : i = 2 * j
      BY <1>4
    <2>2. j \in DOMAIN sent[e] /\ written[e][2 * j] = <<"body", sent[e][j]>>
      BY <2>1, <1>2, EvenIsBody
    <2>3. sent[e][j] = w
      BY <2>1, <2>2, SMT
    <2> QED
      BY <2>1, <2>2, <2>3
  <1> QED
    BY <1>2, <1>3, <1>4, Parity

\* Handlers were given no more than before, and no less has been read.
LEMMA HandedOn ==
    ASSUME NEW x \in Side, Handed(x), got'[x] = got[x], sent'[Across(x)] = sent[Across(x)],
           DOMAIN sent[Across(x)] \subseteq Int, Read(Across(x)) \in Int, Read(Across(x))' \in Int,
           Read(Across(x)) <= Read(Across(x))'
    PROVE  Handed(x)'
  <1>1. \A j \in DOMAIN sent[Across(x)] :
            2 * j <= Read(Across(x)) => 2 * j <= Read(Across(x))'
    BY SMT
  <1> QED
    BY <1>1 DEF Handed

\* Nothing that an end's receiver is about has changed.
LEMMA IncomingKept ==
    ASSUME NEW x \in Side, Incoming(x), got'[x] = got[x], sent'[Across(x)] = sent[Across(x)],
           written'[Across(x)] = written[Across(x)], Read(Across(x))' = Read(Across(x)),
           closed'[x] = closed[x], closing'[x] = closing[x], by'[x] = by[x],
           recv'[x] = recv[x], held'[x] = held[x], drained'[x] = drained[x],
           fin'[x] = fin[x], fin'[Across(x)] = fin[Across(x)]
    PROVE  Incoming(x)'
  <1>1. Handed(x)'
    BY ZenonT(60) DEF Incoming, Handed
  <1>2. InStep(x)'
    BY DEF Incoming, InStep
  <1>3. Flushed(x)'
    BY DEF Incoming, Flushed
  <1> QED
    BY <1>1, <1>2, <1>3 DEF Incoming

\* The peer writes.
LEMMA PeerWrites ==
    ASSUME QuicConnTypeOK, NEW x \in Side, NEW o \in Side, o = Across(x),
           Incoming(x), Unread(o), Outgoing(o), ~fin[o],
           \A i \in 1 .. Len(written[o]) : written'[o][i] = written[o][i], Read(o)' = Read(o),
           sent'[o] = sent[o] \/
               \E w \in Writers : send[o][w] # "sent" /\ sent'[o] = Append(sent[o], w),
           got'[x] = got[x], closed'[x] = closed[x], closing'[x] = closing[x], by'[x] = by[x],
           recv'[x] = recv[x], held'[x] = held[x], drained'[x] = drained[x],
           fin'[x] = fin[x], fin'[o] = fin[o]
    PROVE  Incoming(x)'
  <1>1. PICK F, F2, G : F = sent[o] /\ F2 = sent'[o] /\ G = got[x]
    OBVIOUS
  <1>2. /\ F \in Seq(Writers) /\ Len(F) \in Nat /\ DOMAIN F = 1 .. Len(F)
        /\ Len(G) \in Nat /\ DOMAIN G = 1 .. Len(G)
    BY <1>1, Measured
  \* The new frame, if any, was given to no handler.
  <1>3. /\ Len(F2) \in Nat /\ Len(F) <= Len(F2) /\ DOMAIN F2 = 1 .. Len(F2)
        /\ \A j \in DOMAIN F : j \in DOMAIN F2 /\ F2[j] = F[j]
        /\ \A j \in DOMAIN F2 : j \in DOMAIN F \/ \A i \in DOMAIN F : F2[j] # F[i]
    <2>1. CASE F2 = F
      <3>1. Len(F) <= Len(F)
        BY <1>2, SMT
      <3> QED
        BY <3>1, <2>1, <1>2
    <2>2. CASE F2 # F
      <3>1. PICK w \in Writers : send[o][w] # "sent" /\ F2 = Append(F, w)
        BY <2>2, <1>1
      <3>2. /\ F2 \in Seq(Writers) /\ Len(F2) = Len(F) + 1 /\ F2[Len(F) + 1] = w
            /\ \A i \in 1 .. Len(F) : F2[i] = F[i]
        BY <3>1, <1>2, AppendFacts, SMT
      <3>3. DOMAIN F2 = 1 .. Len(F2)
        BY <3>2, SeqFacts
      <3>4. /\ Len(F2) \in Nat /\ Len(F) <= Len(F2) /\ 1 .. Len(F) \subseteq 1 .. Len(F2)
            /\ \A j \in 1 .. Len(F2) : j \in 1 .. Len(F) \/ j = Len(F) + 1
        BY <3>2, <1>2, SMT
      <3>5. \A i \in DOMAIN F : F[i] # w
        BY ZenonT(60), <3>1, <1>1 DEF Outgoing, Once
      <3> QED
        BY <3>2, <3>3, <3>4, <3>5, <1>2
    <2> QED
      BY <2>1, <2>2
  <1>4. Handed(x)'
    <2>1. \A i \in DOMAIN G : \E j \in DOMAIN F : F[j] = G[i] /\ 2 * j <= Read(o)
      BY <1>1 DEF Incoming, Handed
    <2>2. \A i \in DOMAIN G : \E j \in DOMAIN F2 : F2[j] = G[i] /\ 2 * j <= Read(o)
      BY ZenonT(60), <2>1, <1>3
    <2>3. \A i \in DOMAIN G, m \in DOMAIN F2 : F2[m] = G[i] => m \in DOMAIN F /\ F[m] = G[i]
      BY <2>1, <1>3, SMT
    <2>4. \A i, j \in DOMAIN G, m, n \in DOMAIN F :
              i < j /\ F[m] = G[i] /\ F[n] = G[j] => m < n
      BY <1>1, SMTT(30) DEF Incoming, Handed
    <2>5. \A i, j \in DOMAIN G, m, n \in DOMAIN F2 :
              i < j /\ F2[m] = G[i] /\ F2[n] = G[j] => m < n
      BY <2>3, <2>4, SMT
    <2> QED
      BY <2>2, <2>5, <1>1, SMT DEF Handed
  <1>5. InStep(x)'
    <2>1. SUFFICES ASSUME ~closed[x] PROVE InStep(x)'
      BY DEF InStep
    <2>2. /\ closing[x] = "no" /\ ~fin[x] /\ by[x] = "nobody"
          /\ Len(G) <= Len(F) /\ \A i \in DOMAIN G : G[i] = F[i]
          /\ recv[x] # "body" => Read(o) = 2 * Len(G)
          /\ recv[x] = "body" => /\ Read(o) = 2 * Len(G) + 1
                                 /\ held[x] = written[o][2 * Len(G) + 1][2]
      BY <2>1, <1>1 DEF Incoming, InStep
    <2>3. Len(G) <= Len(F2) /\ \A i \in DOMAIN G : i \in DOMAIN F
      BY <2>2, <1>2, <1>3, SMTT(30)
    <2>4. \A i \in DOMAIN G : G[i] = F2[i]
      BY <2>2, <2>3, <1>3
    <2>5. Len(written[o]) \in Nat /\ Len(pipe[o]) \in Nat /\ Read(o) = Len(written[o]) - Len(pipe[o])
      BY Measured DEF Read
    <2>6. ASSUME recv[x] = "body" PROVE 2 * Len(G) + 1 \in 1 .. Len(written[o])
      <3>1. PICK g, a, b : g = Len(G) /\ a = Len(written[o]) /\ b = Len(pipe[o])
        OBVIOUS
      <3>2. a - b = 2 * g + 1
        BY <2>2, <2>5, <2>6, <3>1
      <3>3. a \in Nat /\ b \in Nat /\ g \in Nat
        BY ZenonT(60), <2>5, <1>2, <3>1
      <3>4. 2 * g + 1 \in 1 .. a
        BY <3>2, <3>3, SMT
      <3> QED
        BY <3>1, <3>4
    <2>7. recv[x] = "body" => held[x] = written'[o][2 * Len(G) + 1][2]
      BY <2>2, <2>6
    <2> QED
      BY ZenonT(60), <2>2, <2>3, <2>4, <2>7, <1>1 DEF InStep
  <1>6. Flushed(x)'
    BY DEF Incoming, Flushed
  <1> QED
    BY <1>4, <1>5, <1>6 DEF Incoming

\* Read throws away what arrives, while e is closing.
LEMMA DrainReads ==
    ASSUME QuicConnTypeOK, NEW e \in Side, Unread(Across(e)), Incoming(e),
           Discard(e)
    PROVE  Incoming(e)'
  <1>1. /\ Read(Across(e))' = Read(Across(e)) + 1
    BY TakeFacts DEF Discard, frames
  <1>2. Across(e) \in Side
    BY Sides
  <1>3. Read(Across(e)) \in Int /\ DOMAIN sent[Across(e)] \subseteq Int
    BY <1>2, Measured, SMTT(30)
  <1>4. Read(Across(e)) <= Read(Across(e))' /\ Read(Across(e))' \in Int
    BY <1>1, <1>3, SMT
  <1>5. Handed(e)'
    BY <1>3, <1>4, HandedOn DEF Incoming, Discard, frames
  <1>6. closed[e] /\ closed'[e] = closed[e]
    BY SMT DEF Discard, Incoming, InStep, link
  <1>7. InStep(e)'
    BY <1>6 DEF InStep
  <1>8. Flushed(e)'
    BY DEF Flushed, Incoming, Discard, frames, loop, close
  <1> QED
    BY <1>5, <1>7, <1>8 DEF Incoming

\* The loop reads a length.
LEMMA LengthRead ==
    ASSUME QuicConnTypeOK, NEW e \in Side, NEW s \in Side, s = Across(e), Unread(s), Outgoing(s),
           Incoming(e), ReadLength(e)
    PROVE  Incoming(e)'
  <1>1. /\ Read(s)' = Read(s) + 1 /\ 0 <= Read(s) /\ Read(s) + 1 <= Len(written[s])
        /\ Next1(e) = written[s][Read(s) + 1]
    BY TakeFacts DEF ReadLength, frames
  <1>2. /\ Read(s) \in Int /\ DOMAIN sent[s] \subseteq Int /\ Len(got[e]) \in Nat
        /\ Len(written[s]) \in Nat
    BY Measured, SMTT(30)
  <1>3. Read(s) <= Read(s)' /\ Read(s)' \in Int
    BY <1>1, <1>2, SMTT(30)
  <1>4. /\ UNCHANGED <<closed, written, sent, got, fin, closing, drained, by>>
        /\ recv[e] = "length" /\ recv'[e] = "body"
        /\ held'[e] = IF Next1(e)[1] = "length" THEN Next1(e)[2] ELSE Nobody
    BY SMT DEF ReadLength, QuicConnTypeOK, frames, link, close
  <1>5. Handed(e)'
    BY <1>2, <1>3, <1>4, HandedOn DEF Incoming
  <1>6. InStep(e)'
    <2>1. SUFFICES ASSUME ~closed[e] PROVE InStep(e)'
      BY <1>4 DEF InStep
    <2>2. /\ closing[e] = "no" /\ ~fin[e] /\ by[e] = "nobody"
          /\ Len(got[e]) <= Len(sent[s]) /\ \A i \in DOMAIN got[e] : got[e][i] = sent[s][i]
          /\ recv[e] # "body" => Read(s) = 2 * Len(got[e])
      BY <2>1 DEF Incoming, InStep
    <2>3. Read(s) = 2 * Len(got[e])
      BY <2>2, <1>4
    <2>4. 2 * Len(got[e]) + 1 <= Len(written[s])
      BY <2>3, <1>1
    <2>5. written[s][2 * Len(got[e]) + 1][1] = "length"
      BY <2>4, <1>2, OddIsLength
    <2>6. held'[e] = written[s][2 * Len(got[e]) + 1][2] /\ Read(s)' = 2 * Len(got[e]) + 1
      BY <2>3, <2>5, <1>1, <1>4
    <2> QED
      BY <2>2, <2>6, <1>4 DEF InStep
  <1>7. Flushed(e)'
    BY <1>4 DEF Flushed, Incoming
  <1> QED
    BY <1>5, <1>6, <1>7 DEF Incoming

\* The loop reads a body, and gives the handler the frame if it parses: one that
\* was sent after all the handlers have seen.
LEMMA BodyRead ==
    ASSUME QuicConnTypeOK, NEW e \in Side, NEW s \in Side, s = Across(e), Unread(s), Outgoing(s),
           Incoming(e), ReadBody(e)
    PROVE  Incoming(e)'
  <1>0. PICK F, G, n, W : F = sent[s] /\ G = got[e] /\ n = Read(s) /\ W = written[s]
    OBVIOUS
  <1>1. /\ Read(s)' = n + 1 /\ 0 <= n /\ n + 1 <= Len(W)
        /\ Next1(e) = W[n + 1] /\ Next1(e) \in Piece
    BY ZenonT(60), <1>0, TakeFacts DEF ReadBody
  <1>2. /\ n \in Int /\ DOMAIN F = 1 .. Len(F) /\ Len(F) \in Nat /\ Len(G) \in Nat
        /\ DOMAIN G = 1 .. Len(G) /\ Len(W) \in Nat /\ G \in Seq(Writers)
    BY <1>0, Measured, SMTT(30)
  <1>3. /\ UNCHANGED <<closed, written, sent, fin, closing, drained, by>>
        /\ recv[e] = "body" /\ recv'[e] = "recv"
        /\ got'[e] = IF Parse(e) THEN Append(G, Next1(e)[2]) ELSE G
    BY <1>0, SMT DEF ReadBody, QuicConnTypeOK, link, close
  <1>4. Flushed(e)'
    BY <1>3 DEF Flushed, Incoming
  <1>5. /\ n <= n + 1 /\ n + 1 \in 1 .. Len(W) /\ DOMAIN F \subseteq Int /\ n + 1 \in Int
    BY <1>1, <1>2, SMT
  <1>6. ASSUME ~closed[e]
        PROVE  /\ n = 2 * Len(G) + 1 /\ Parse(e)
               /\ closing[e] = "no" /\ ~fin[e] /\ by[e] = "nobody"
               /\ Len(G) + 1 \in DOMAIN F /\ Next1(e) = <<"body", F[Len(G) + 1]>>
               /\ Len(G) <= Len(F) /\ \A i \in DOMAIN G : G[i] = F[i]
    <2>1. /\ closing[e] = "no" /\ ~fin[e] /\ by[e] = "nobody"
          /\ Len(G) <= Len(F) /\ \A i \in DOMAIN G : G[i] = F[i]
          /\ n = 2 * Len(G) + 1 /\ held[e] = W[2 * Len(G) + 1][2]
      BY <1>0, <1>3, <1>6 DEF Incoming, InStep
    <2>2. n + 1 = 2 * (Len(G) + 1) /\ Len(G) + 1 \in Nat \ {0}
      BY <2>1, <1>2, SMT
    <2>3. Len(G) + 1 \in DOMAIN F /\ W[n + 1] = <<"body", F[Len(G) + 1]>>
      BY ZenonT(60), <2>2, <1>0, <1>1, EvenIsBody
    <2>4. 2 * Len(G) + 1 <= Len(W) /\ Len(G) < Len(F)
      BY <2>1, <2>3, <1>1, <1>2, SMTT(30)
    <2>5. W[2 * Len(G) + 1][2] = F[Len(G) + 1]
      BY <2>4, <1>0, <1>2, OddIsLength
    <2> QED
      BY <2>1, <2>3, <2>5, <1>1 DEF Parse
  <1>7. CASE Parse(e)
    <2>1. PICK w \in Writers : Next1(e) = <<"body", w>> /\ Next1(e)[2] = w
      BY <1>1, <1>7, SMT DEF Parse, Piece
    <2>2. PICK k \in DOMAIN F : n + 1 = 2 * k /\ F[k] = w
      <3>1. PICK i : i = n + 1
        OBVIOUS
      <3>2. i \in 1 .. Len(written[s]) /\ written[s][i] = <<"body", w>>
        BY ZenonT(60), <3>1, <2>1, <1>0, <1>1, <1>5
      <3>3. \E k \in DOMAIN sent[s] : i = 2 * k /\ sent[s][k] = w
        BY <3>2, BodyIsOfAFrame, SMT
      <3> QED
        BY <3>1, <3>3, <1>0
    <2>3. PICK H : H = got'[e]
      OBVIOUS
    <2>4. /\ H \in Seq(Writers) /\ Len(H) = Len(G) + 1 /\ H[Len(G) + 1] = w
          /\ \A i \in 1 .. Len(G) : H[i] = G[i]
      BY <2>1, <2>3, <1>2, <1>3, <1>7, AppendFacts, SMTT(30)
    <2>5. DOMAIN H = 1 .. Len(H)
      BY <2>4, SeqFacts
    <2>6. \A i \in DOMAIN H : i = Len(G) + 1 \/ (i \in DOMAIN G /\ H[i] = G[i] /\ i < Len(G) + 1)
      BY <2>4, <2>5, <1>2, SMTT(30)
    <2>7. \A i \in DOMAIN G : \E j \in DOMAIN F : F[j] = G[i] /\ 2 * j <= n
      BY <1>0, SMT DEF Incoming, Handed
    <2>8. \A i \in DOMAIN H : \E j \in DOMAIN F : F[j] = H[i] /\ 2 * j <= n + 1
      <3>1. \A j \in DOMAIN F : 2 * j <= n => 2 * j <= n + 1
        BY <1>2, SMT
      <3>2. 2 * k <= n + 1
        BY <2>2, <1>5, SMT
      <3> QED
        BY ZenonT(60), <3>1, <3>2, <2>2, <2>4, <2>6, <2>7
    <2>9. \A i, j \in DOMAIN H, l, m \in DOMAIN F :
              i < j /\ F[l] = H[i] /\ F[m] = H[j] => l < m
      <3> SUFFICES ASSUME NEW i \in DOMAIN H, NEW j \in DOMAIN H, NEW l \in DOMAIN F,
                          NEW m \in DOMAIN F, i < j, F[l] = H[i], F[m] = H[j]
                   PROVE  l < m
        OBVIOUS
      <3>1. i \in DOMAIN G /\ H[i] = G[i]
        BY <2>4, <2>5, <2>6, <1>2, SMTT(30)
      <3>2. CASE j = Len(G) + 1
        <4>1. \A a, b \in DOMAIN F : F[a] = F[b] => a = b
          BY <1>0 DEF Outgoing, Once
        <4>2. m = k /\ 2 * l <= n
          BY ZenonT(60), <4>1, <3>1, <3>2, <2>2, <2>4, <2>7
        <4> QED
          BY <4>2, <2>2, <1>2, SMTT(30)
      <3>3. CASE j # Len(G) + 1
        <4>1. j \in DOMAIN G /\ H[j] = G[j]
          BY ZenonT(60), <3>3, <2>6
        <4> QED
          BY <4>1, <3>1, <1>0, SMTT(30) DEF Incoming, Handed
      <3> QED
        BY <3>2, <3>3
    <2>10. Handed(e)'
      BY <2>3, <2>8, <2>9, <1>0, <1>1, <1>3, SMTT(30) DEF Handed
    <2>11. InStep(e)'
      <3>1. SUFFICES ASSUME ~closed[e] PROVE InStep(e)'
        BY <1>3 DEF InStep
      <3>2. /\ n = 2 * Len(G) + 1 /\ closing[e] = "no" /\ ~fin[e] /\ by[e] = "nobody"
            /\ Len(G) + 1 \in DOMAIN F /\ Next1(e) = <<"body", F[Len(G) + 1]>>
            /\ Len(G) <= Len(F) /\ \A i \in DOMAIN G : G[i] = F[i]
        BY ZenonT(60), <3>1, <1>6
      <3>3. w = F[Len(G) + 1]
        BY <3>2, <2>1, SMTT(30)
      <3>4. \A i \in DOMAIN H : H[i] = F[i]
        BY ZenonT(60), <3>2, <3>3, <2>4, <2>6
      <3>5. n + 1 = 2 * Len(H) /\ Len(H) <= Len(F)
        BY <3>2, <2>4, <1>2, SMTT(30)
      <3> QED
        BY ZenonT(60), <3>2, <3>4, <3>5, <2>3, <1>0, <1>1, <1>3 DEF InStep
    <2> QED
      BY ZenonT(60), <2>10, <2>11, <1>4 DEF Incoming
  <1>8. CASE ~Parse(e)
    <2>1. closed[e]
      BY <1>6, <1>8
    <2>2. InStep(e)'
      BY <2>1, <1>3 DEF InStep
    <2>3. Handed(e)'
      BY <1>0, <1>1, <1>2, <1>3, <1>5, <1>8, HandedOn DEF Incoming
    <2> QED
      BY <2>2, <2>3, <1>4 DEF Incoming
  <1> QED
    BY <1>7, <1>8

\* The loop calls Recv.
LEMMA RecvKeeps ==
    ASSUME QuicConnTypeOK, NEW e \in Side, Incoming(e), Recv(e)
    PROVE  Incoming(e)'
  <1>1. /\ UNCHANGED <<closed, written, sent, got, held, fin, pipe, closing, drained, by>>
        /\ recv[e] = "recv" /\ recv'[e] = IF closed[e] THEN "ended" ELSE "length"
    BY SMT DEF Recv, QuicConnTypeOK, link, wire, frames, close
  <1>2. UNCHANGED Read(Across(e))
    BY <1>1 DEF Read
  <1>3. Handed(e)'
    BY ZenonT(60), <1>1, <1>2 DEF Incoming, Handed
  <1>4. InStep(e)'
    BY <1>1, <1>2 DEF Incoming, InStep
  <1>5. Flushed(e)'
    BY <1>1 DEF Incoming, Flushed
  <1> QED
    BY <1>3, <1>4, <1>5 DEF Incoming

\* A loop that is in step, and has read all there is, has handed every frame over.
LEMMA AllHanded ==
    ASSUME QuicConnTypeOK, NEW e \in Side, NEW s \in Side, s = Across(e), Outgoing(s),
           Incoming(e), ~closed[e], pipe[s] = <<>>
    PROVE  got[e] = sent[s]
  <1>1. PICK F, G, W : F = sent[s] /\ G = got[e] /\ W = written[s]
    OBVIOUS
  <1>2. /\ Len(F) \in Nat /\ Len(G) \in Nat /\ Len(W) \in Nat
        /\ F \in Seq(Writers) /\ G \in Seq(Writers) /\ DOMAIN G = 1 .. Len(G)
    BY <1>1, Measured
  <1>3. Read(s) = Len(W)
    <2>1. Len(pipe[s]) = 0
      BY SMT
    <2> QED
      BY <2>1, <1>1, <1>2, SMTT(30) DEF Read
  <1>4. Len(W) = 2 * Len(F) \/ Len(W) = 2 * Len(F) + 1
    BY <1>1 DEF Outgoing, Dangling
  <1>5. /\ Len(W) = 2 * Len(G) \/ Len(W) = 2 * Len(G) + 1
        /\ \A i \in DOMAIN G : G[i] = F[i]
    BY <1>1, <1>3 DEF Incoming, InStep
  <1>6. Len(F) = Len(G)
    BY <1>2, <1>4, <1>5, SMT
  <1> QED
    BY <1>1, <1>2, <1>5, <1>6, SMTT(30)

\* The end is closed, by its loop (ReadEnds) or by a caller (Close).
LEMMA ClosesKeeps ==
    ASSUME QuicConnTypeOK, NEW e \in Side, NEW s \in Side, s = Across(e), Outgoing(s),
           NEW who \in {"loop", "caller"}, Incoming(e), Incoming(s), Closes(e, who),
           UNCHANGED <<pipe, written, sent, got>>,
           who = "loop" => Ended(e) /\ recv'[e] = "ended", who = "caller" => ~closed[e],
           recv'[s] = recv[s], held'[s] = held[s]
    PROVE  Incoming(e)' /\ Incoming(s)'
  <1>1. e = Across(s) /\ e # s
    BY Sides
  <1>2. UNCHANGED Read(e) /\ UNCHANGED Read(s)
    BY DEF Read
  <1>3. Handed(e)' /\ Handed(s)'
    <2>1. Handed(e)'
      BY <1>2, SMTT(30) DEF Incoming, Handed
    <2>2. Handed(s)'
      BY <1>1, <1>2, SMT DEF Incoming, Handed
    <2> QED
      BY ZenonT(60), <2>1, <2>2
  <1>4. CASE closed[e]
    <2>1. UNCHANGED <<closed, fin, closing, drained, by>> /\ who = "loop"
      BY <1>4 DEF Closes, close
    <2>2. Incoming(s)'
      BY <2>1, <1>1, <1>2, IncomingKept
    <2>3. InStep(e)'
      BY <2>1, <1>4 DEF InStep
    <2>4. Flushed(e)'
      BY <2>1 DEF Flushed, Incoming
    <2> QED
      BY <2>2, <2>3, <2>4, <1>3 DEF Incoming
  <1>5. CASE ~closed[e]
    <2>1. /\ closed'[e] = TRUE /\ closed'[s] = closed[s]
          /\ fin'[e] = up[e] /\ fin'[s] = fin[s]
          /\ closing'[s] = closing[s] /\ drained' = drained
          /\ by'[e] = who /\ by'[s] = by[s]
      BY <1>1, <1>5, SMT DEF Closes, QuicConnTypeOK
    <2>2. ~fin[e]
      BY <1>5 DEF Incoming, InStep
    <2>3. InStep(e)' /\ InStep(s)'
      BY ZenonT(60), <2>1, <1>1, <1>2 DEF Incoming, InStep
    <2>4. Flushed(s)'
      BY <2>1, <2>2, <1>1 DEF Incoming, Flushed
    <2>5. Flushed(e)'
      <3>1. CASE who = "caller" \/ ~up[e]
        BY <3>1, <2>1 DEF Incoming, Flushed
      <3>2. CASE who = "loop" /\ up[e]
        <4>1. pipe[s] = <<>> /\ fin[s]
          BY <3>2 DEF Ended
        <4>2. got[e] = sent[s]
          BY <4>1, <1>5, AllHanded
        <4> QED
          BY <4>1, <4>2, <3>2, <2>1 DEF Incoming, Flushed
      <3> QED
        BY <3>1, <3>2
    <2> QED
      BY ZenonT(60), <2>3, <2>4, <2>5, <1>3 DEF Incoming
  <1> QED
    BY <1>4, <1>5

\* The drain ends.
LEMMA DrainedKeeps ==
    ASSUME QuicConnTypeOK, NEW e \in Side, Incoming(e), Drained(e)
    PROVE  Incoming(e)'
  <1>1. PICK how \in DrainEnds(e) : drained' = [drained EXCEPT ![e] = how]
    BY DEF Drained
  <1>2. drained'[e] = how /\ closing[e] = "drain"
    BY <1>1, SMT DEF QuicConnTypeOK, Drained
  <1>3. UNCHANGED <<closed, pipe, fin, written, sent, got, recv, held, by>>
    BY DEF Drained, wire, frames, loop
  <1>4. UNCHANGED Read(Across(e))
    BY <1>3 DEF Read
  <1>5. Handed(e)'
    BY ZenonT(60), <1>3, <1>4 DEF Incoming, Handed
  <1>6. closed[e]
    BY <1>2, SMT DEF Incoming, InStep
  <1>7. InStep(e)'
    BY <1>3, <1>6 DEF InStep
  <1>8. how = "eof" => fin[Across(e)]
    BY <1>1, SMT DEF DrainEnds, Ended
  <1>9. Flushed(e)'
    BY <1>2, <1>3, <1>8 DEF Incoming, Flushed
  <1> QED
    BY <1>5, <1>7, <1>9 DEF Incoming

LEMMA ConnInitInv == ConnInit => ConnInv
  <1> SUFFICES ASSUME ConnInit PROVE ConnInv
    OBVIOUS
  <1>1. QuicConnTypeOK
    BY ConnInitTyped
  <1>2. ASSUME NEW e \in Side PROVE Outgoing(e) /\ Unread(e) /\ Incoming(e)
    <2>1. Across(e) \in Side
      BY Sides
    <2>2. \A x \in Side : /\ written[x] = <<>> /\ sent[x] = <<>> /\ got[x] = <<>> /\ pipe[x] = <<>>
                          /\ ~fin[x] /\ recv[x] = "recv" /\ closing[x] = "no"
                          /\ by[x] = "nobody" /\ drained[x] = "no"
                          /\ \A w \in Writers : send[x][w] = "idle"
      BY SMT DEF ConnInit
    <2>3. Len(<<>>) = 0 /\ DOMAIN <<>> = {}
      BY SMT
    <2>4. Read(e) = 0 /\ Read(Across(e)) = 0 /\ 0 <= 0 /\ 2 * 0 = 0
      BY <2>1, <2>2, <2>3, SMTT(30) DEF Read
    <2>5. Writing(e) /\ Once(e) /\ Whole(e)
      BY <2>2, <2>3, SMTT(30) DEF Writing, Once, Whole
    <2>6. Dangling(e)
      BY <2>2, <2>3, <2>4, SMTT(30) DEF Dangling
    <2>7. Unread(e)
      BY <2>2, <2>3, <2>4, SMTT(30) DEF Unread
    <2>8. Handed(e) /\ Flushed(e)
      BY <2>2, <2>3, SMT DEF Handed, Flushed
    <2>9. InStep(e)
      BY <2>1, <2>2, <2>3, <2>4 DEF InStep
    <2> QED
      BY <2>5, <2>6, <2>7, <2>8, <2>9 DEF Outgoing, Incoming
  <1> QED
    BY <1>1, <1>2 DEF ConnInv

\* Send and Lock write nothing and read nothing.
LEMMA SendKeeps ==
    ASSUME ConnInv, NEW e \in Side, NEW w \in Writers, Send(e, w) \/ Lock(e, w)
    PROVE  ConnInv'
  <1>1. PICK v \in {"failed", "checked", "length"} : send' = [send EXCEPT ![e][w] = v]
    BY SMT DEF Send, Lock
  <1>2. UNCHANGED <<closed, up, pipe, fin, written, sent, got, recv, held, closing, drained, by>>
    BY DEF Send, Lock, link, wire, frames, loop, close
  <1>3. QuicConnTypeOK
    BY DEF ConnInv
  <1>4. QuicConnTypeOK'
    <2>1. send' \in [Side -> [Writers -> {"idle", "checked", "length", "body", "sent", "failed"}]]
      BY <1>1, <1>3, SMTT(30) DEF QuicConnTypeOK
    <2>2. ctrlMu' \in [Side -> Writers \cup {Nobody}]
      <3>1. ctrlMu' = ctrlMu \/ ctrlMu' = [ctrlMu EXCEPT ![e] = w]
        BY DEF Send, Lock
      <3>2. ctrlMu \in [Side -> Writers \cup {Nobody}]
        BY <1>3 DEF QuicConnTypeOK
      <3> QED
        BY <3>1, <3>2, SMT
    <2> QED
      BY ZenonT(60), <2>1, <2>2, <1>2, <1>3 DEF QuicConnTypeOK
  <1>5. send[e][w] \in {"idle", "checked"}
    BY DEF Send, Lock
  <1>6. ASSUME NEW x \in Side PROVE Outgoing(x)' /\ Unread(x)' /\ Incoming(x)'
    <2>1. Outgoing(x) /\ Unread(x) /\ Incoming(x)
      BY <1>6 DEF ConnInv
    <2>2. /\ send'[e][w] = v
          /\ \A u \in Writers : u # w => send'[e][u] = send[e][u]
          /\ \A y \in Side : y # e => send'[y] = send[y]
      BY <1>1, <1>3, SendSet
    <2>3. Writing(x)'
      <3>1. CASE Send(e, w)
        <4>1. v # "length" /\ ctrlMu' = ctrlMu
          BY <3>1, <1>1, <2>2, <1>3, SMTT(30) DEF Send, QuicConnTypeOK
        <4> QED
          BY <4>1, <2>1, <2>2 DEF Outgoing, Writing
      <3>2. CASE Lock(e, w)
        <4>1. /\ ctrlMu[e] = Nobody /\ ctrlMu'[e] = w
              /\ \A y \in Side : y # e => ctrlMu'[y] = ctrlMu[y]
          BY <3>2, <1>3, SMT DEF Lock, QuicConnTypeOK
        <4>2. \A u \in Writers : u # Nobody
          BY ConnAssumption
        <4> QED
          BY ZenonT(60), <4>1, <4>2, <2>1, <2>2 DEF Outgoing, Writing
      <3> QED
        BY <3>1, <3>2
    <2>4. Outgoing(x)'
      <3>1. v # "body" /\ send[e][w] # "sent" /\ send[e][w] # "body"
        BY <1>1, <1>5
      <3> QED
        BY <3>1, <2>1, <2>3, <1>1, <1>2, <1>3, NothingWritten
    <2>5. UNCHANGED Read(x) /\ UNCHANGED Read(Across(x))
      BY <1>2 DEF Read
    <2>6. Unread(x)'
      BY <2>1, <2>5, <1>2 DEF Unread
    <2>7. Incoming(x)'
      BY <2>1, <2>5, <1>2, IncomingKept
    <2> QED
      BY <2>4, <2>6, <2>7
  <1> QED
    BY <1>4, <1>6 DEF ConnInv

\* writeFrame writes half a frame, or fails and leaves the stream alone.
LEMMA writeFrameKeeps ==
    ASSUME ConnInv, NEW e \in Side, NEW w \in Writers, writeFrame(e, w)
    PROVE  ConnInv'
  <1>1. QuicConnTypeOK /\ Outgoing(e) /\ Unread(e)
    BY DEF ConnInv
  <1>2. UNCHANGED <<closed, up, fin, got, recv, held, closing, drained, by>>
    BY DEF writeFrame, link, loop, close
  <1>3. PICK h : h = send[e][w] /\ h \in {"length", "body"}
    BY DEF writeFrame
  <1>4. PICK s \in Side : s = Across(e) /\ e = Across(s) /\ s # e
    BY Sides
  <1>5. Outgoing(s) /\ Unread(s) /\ Incoming(s) /\ Incoming(e)
    BY DEF ConnInv
  <1>6. \A x \in Side : x = e \/ x = s
    BY <1>4, Sides
  <1>7. PICK b : b = send'[e][w]
    OBVIOUS
  <1>8. ctrlMu' = [ctrlMu EXCEPT ![e] = IF b = "body" THEN w ELSE Nobody]
    BY <1>7 DEF writeFrame
  <1>9. /\ ctrlMu' \in [Side -> Writers \cup {Nobody}] /\ ctrlMu'[s] = ctrlMu[s]
        /\ ctrlMu'[e] = IF b = "body" THEN w ELSE Nobody
    <2>1. ctrlMu \in [Side -> Writers \cup {Nobody}]
      BY <1>1 DEF QuicConnTypeOK
    <2> QED
      BY <2>1, <1>4, <1>8, SMT
  <1>10. CASE up[e] /\ ~fin[e]
    <2>1. PICK n : n = IF h = "length" THEN "body" ELSE "sent"
      OBVIOUS
    <2>2. PICK v \in Piece : v = <<h, w>>
      BY <1>3 DEF Piece
    <2>3. /\ pipe' = [pipe EXCEPT ![e] = Append(@, v)]
          /\ written' = [written EXCEPT ![e] = Append(@, v)]
          /\ sent' = [sent EXCEPT ![e] = IF h = "body" THEN Append(@, w) ELSE @]
          /\ send' = [send EXCEPT ![e][w] = n]
      BY <1>3, <1>10, <2>1, <2>2, SMTT(30) DEF writeFrame
    <2>4. /\ pipe'[e] = Append(pipe[e], v) /\ pipe'[s] = pipe[s]
          /\ written'[e] = Append(written[e], v) /\ written'[s] = written[s]
          /\ sent'[e] = (IF h = "body" THEN Append(sent[e], w) ELSE sent[e]) /\ sent'[s] = sent[s]
          /\ send'[s] = send[s] /\ send'[e][w] = n
      BY <2>3, <1>1, <1>4, SMTT(30) DEF QuicConnTypeOK
    <2>5. /\ pipe[e] \in Seq(Piece) /\ written[e] \in Seq(Piece) /\ sent[e] \in Seq(Writers)
      BY <1>1, Measured
    <2>6. Append(pipe[e], v) \in Seq(Piece) /\ Append(written[e], v) \in Seq(Piece)
          /\ Append(sent[e], w) \in Seq(Writers)
      BY <2>5, AppendFacts, SMT
    <2>7. QuicConnTypeOK'
      <3>1. pipe' \in [Side -> Seq(Piece)] /\ written' \in [Side -> Seq(Piece)]
        BY <2>3, <2>6, <1>1, SMTT(30) DEF QuicConnTypeOK
      <3>2. sent' \in [Side -> Seq(Writers)]
        BY <2>3, <2>6, <1>1, SMTT(30) DEF QuicConnTypeOK
      <3>3. send' \in [Side -> [Writers -> {"idle", "checked", "length", "body", "sent", "failed"}]]
        BY <2>1, <2>3, <1>1, SMTT(30) DEF QuicConnTypeOK
      <3> QED
        BY ZenonT(60), <3>1, <3>2, <3>3, <1>1, <1>2, <1>9 DEF QuicConnTypeOK
    <2>8. Outgoing(e)'
      <3>1. CASE h = "length"
        <4>1. n = "body" /\ b = "body" /\ v = <<"length", w>>
          BY <3>1, <2>1, <2>2, <2>4, <1>7
        <4>2. ctrlMu'[e] = w /\ sent'[e] = sent[e] /\ written'[e] = Append(written[e], <<"length", w>>)
          BY <4>1, <3>1, <2>4, <1>9
        <4> QED
          BY ZenonT(60), <4>1, <4>2, <3>1, <2>3, <1>1, <1>2, <1>3, <1>10, LengthWritten
      <3>2. CASE h = "body"
        <4>1. n = "sent" /\ v = <<"body", w>>
          BY <3>2, <2>1, <2>2
        <4>2. sent'[e] = Append(sent[e], w) /\ written'[e] = Append(written[e], <<"body", w>>)
          BY <4>1, <3>2, <2>4
        <4> QED
          BY ZenonT(60), <4>1, <4>2, <3>2, <2>3, <1>1, <1>2, <1>3, BodyWritten
      <3> QED
        BY <3>1, <3>2, <1>3
    <2>9. Outgoing(s)'
      BY ZenonT(60), <2>4, <1>2, <1>5, <1>9, OutgoingAcross
    <2>10. /\ Unread(e)' /\ Read(e)' = Read(e)
           /\ \A i \in 1 .. Len(written[e]) : written'[e][i] = written[e][i]
      BY <2>4, <1>1, Appended, SMTT(30)
    <2>11. Unread(s)' /\ Read(s)' = Read(s)
      BY <2>4, <1>5 DEF Unread, Read
    <2>12. Incoming(e)'
      BY ZenonT(60), <2>4, <2>11, <1>2, <1>4, <1>5, IncomingKept
    <2>13. sent'[e] = sent[e] \/
               \E u \in Writers : send[e][u] # "sent" /\ sent'[e] = Append(sent[e], u)
      BY <2>4, <1>3
    <2>14. Incoming(s)'
      BY ZenonT(60), <2>10, <2>13, <1>1, <1>2, <1>4, <1>5, <1>10, PeerWrites
    <2> QED
      BY ZenonT(60), <2>7, <2>8, <2>9, <2>10, <2>11, <2>12, <2>14, <1>6 DEF ConnInv
  <1>11. CASE ~(up[e] /\ ~fin[e])
    <2>1. send' = [send EXCEPT ![e][w] = "failed"] /\ UNCHANGED <<pipe, written, sent>>
      BY <1>11 DEF writeFrame
    <2>2. QuicConnTypeOK'
      <3>1. send' \in [Side -> [Writers -> {"idle", "checked", "length", "body", "sent", "failed"}]]
        BY <2>1, <1>1, SMTT(30) DEF QuicConnTypeOK
      <3> QED
        BY ZenonT(60), <3>1, <2>1, <1>1, <1>2, <1>9 DEF QuicConnTypeOK
    <2>3. ASSUME NEW x \in Side PROVE Outgoing(x)' /\ Unread(x)' /\ Incoming(x)'
      <3>1. Outgoing(x) /\ Unread(x) /\ Incoming(x)
        BY ZenonT(60), <2>3 DEF ConnInv
      <3>2. /\ send'[e][w] = "failed"
            /\ \A u \in Writers : u # w => send'[e][u] = send[e][u]
            /\ \A y \in Side : y # e => send'[y] = send[y]
        BY <2>1, <1>1, SMTT(30) DEF QuicConnTypeOK
      <3>3. \A u \in Writers : u # w => send[e][u] \notin {"length", "body"}
        BY <1>1, <1>3 DEF Outgoing, Writing
      <3>4. Writing(x)'
        BY <3>1, <3>2, <3>3, <1>6, <1>9 DEF Outgoing, Writing
      <3>5. send[e][w] # "sent" /\ (send[e][w] = "body" => ~(up[e] /\ ~fin[e]))
        BY <1>3, <1>11
      <3>6. Outgoing(x)'
        <4>1. PICK v : v = "failed" /\ v # "body" /\ send' = [send EXCEPT ![e][w] = v]
          BY <2>1
        <4> QED
          BY ZenonT(60), <4>1, <3>1, <3>4, <3>5, <2>1, <1>1, <1>2, NothingWritten
      <3>7. UNCHANGED Read(x) /\ UNCHANGED Read(Across(x))
        BY <2>1 DEF Read
      <3>8. Unread(x)'
        BY <3>1, <3>7, <2>1 DEF Unread
      <3>9. Incoming(x)'
        BY ZenonT(60), <3>1, <3>7, <2>1, <1>2, IncomingKept
      <3> QED
        BY <3>6, <3>8, <3>9
    <2> QED
      BY <2>2, <2>3 DEF ConnInv
  <1> QED
    BY <1>10, <1>11

\* The other actions leave what was sent alone, and no connection comes up again.
LEMMA OutgoingStays ==
    ASSUME ConnInv, UNCHANGED <<ctrlMu, send, written, sent>>,
           \A x \in Side : up'[x] /\ ~fin'[x] => up[x] /\ ~fin[x]
    PROVE  \A x \in Side : Outgoing(x)'
  <1> TAKE x \in Side
  <1> QED
    BY OutgoingKept DEF ConnInv

\* A read at e takes the next piece of what the other end wrote.
LEMMA ReadsKeep ==
    ASSUME ConnInv, NEW e \in Side, Ready(e), Take(e), Incoming(e)', QuicConnTypeOK',
           UNCHANGED <<closed, up, ctrlMu, send, fin, written, sent, closing, drained, by>>,
           got'[Across(e)] = got[Across(e)], recv'[Across(e)] = recv[Across(e)],
           held'[Across(e)] = held[Across(e)]
    PROVE  ConnInv'
  <1>1. PICK s \in Side : s = Across(e) /\ e = Across(s) /\ \A x \in Side : x = e \/ x = s
    BY Sides
  <1>2. QuicConnTypeOK /\ Unread(s) /\ Unread(e) /\ Incoming(s)
    BY DEF ConnInv
  <1>3. pipe'[e] = pipe[e] /\ Unread(s)'
    BY <1>1, <1>2, TakeFacts
  <1>4. Unread(e)' /\ Read(e)' = Read(e)
    BY <1>2, <1>3 DEF Unread, Read
  <1>5. Incoming(s)'
    BY <1>1, <1>2, <1>4, IncomingKept
  <1>6. \A x \in Side : Outgoing(x)'
    BY OutgoingStays
  <1> QED
    BY <1>1, <1>3, <1>4, <1>5, <1>6 DEF ConnInv

LEMMA TakeTyped ==
    ASSUME QuicConnTypeOK, NEW e \in Side, Ready(e), Take(e)
    PROVE  pipe' \in [Side -> Seq(Piece)] /\ Next1(e) \in Piece
  <1>1. PICK s \in Side : s = Across(e)
    BY Sides
  <1>2. PICK q \in Seq(Piece) : q = pipe[s] /\ q # <<>>
    BY <1>1, Measured DEF Ready
  <1>3. Tail(q) \in Seq(Piece) /\ Head(q) \in Piece
    BY <1>2, SMT
  <1>4. pipe' = [pipe EXCEPT ![s] = Tail(q)] /\ Next1(e) = Head(q)
    BY <1>1, <1>2 DEF Take, Next1
  <1>5. pipe \in [Side -> Seq(Piece)]
    BY DEF QuicConnTypeOK
  <1> QED
    BY <1>3, <1>4, <1>5, SMT

LEMMA LoopReads ==
    ASSUME ConnInv, NEW e \in Side, ReadLength(e) \/ ReadBody(e) \/ Discard(e)
    PROVE  ConnInv'
  <1>1. PICK s \in Side : s = Across(e) /\ s # e
    BY Sides
  <1>2. QuicConnTypeOK /\ Unread(s) /\ Outgoing(s) /\ Incoming(e)
    BY DEF ConnInv
  <1>3. Ready(e) /\ Take(e)
    BY DEF ReadLength, ReadBody, Discard
  <1>4. UNCHANGED <<closed, up, ctrlMu, send, fin, written, sent, closing, drained, by>>
    BY DEF ReadLength, ReadBody, Discard, link, frames, close
  <1>5. pipe' \in [Side -> Seq(Piece)] /\ Next1(e) \in Piece
    BY <1>2, <1>3, TakeTyped
  <1>6. PICK v \in Writers : v = Next1(e)[2]
    BY <1>5, SMT DEF Piece
  <1>7. /\ recv \in [Side -> {"recv", "length", "body", "ended"}]
        /\ held \in [Side -> Writers \cup {Nobody}] /\ got \in [Side -> Seq(Writers)]
    BY <1>2 DEF QuicConnTypeOK
  <1>8. got[e] \in Seq(Writers) /\ Append(got[e], v) \in Seq(Writers)
    BY <1>7, SMT
  <1>9. /\ recv' \in [Side -> {"recv", "length", "body", "ended"}] /\ recv'[s] = recv[s]
        /\ held' \in [Side -> Writers \cup {Nobody}] /\ held'[s] = held[s]
        /\ got' \in [Side -> Seq(Writers)] /\ got'[s] = got[s]
    <2>1. CASE ReadLength(e)
      <3>1. /\ recv' = [recv EXCEPT ![e] = "body"] /\ got' = got
            /\ held' = [held EXCEPT ![e] = v] \/ held' = [held EXCEPT ![e] = Nobody]
        BY <2>1, <1>6 DEF ReadLength, frames
      <3> QED
        BY <3>1, <1>1, <1>7, SMTT(30)
    <2>2. CASE ReadBody(e)
      <3>1. /\ recv' = [recv EXCEPT ![e] = "recv"] /\ held' = [held EXCEPT ![e] = Nobody]
            /\ got' = [got EXCEPT ![e] = Append(got[e], v)] \/ got' = [got EXCEPT ![e] = got[e]]
        BY <2>2, <1>6 DEF ReadBody
      <3>2. /\ recv' \in [Side -> {"recv", "length", "body", "ended"}] /\ recv'[s] = recv[s]
            /\ held' \in [Side -> Writers \cup {Nobody}] /\ held'[s] = held[s]
        BY <3>1, <1>1, <1>7, SMTT(30)
      <3>3. PICK g \in Seq(Writers) : got' = [got EXCEPT ![e] = g]
        BY <3>1, <1>8
      <3>4. got' \in [Side -> Seq(Writers)] /\ got'[s] = got[s]
        BY <3>3, <1>1, <1>7, SMTT(30)
      <3> QED
        BY <3>2, <3>4
    <2>3. CASE Discard(e)
      BY <2>3, <1>7 DEF Discard, loop, frames
    <2> QED
      BY ZenonT(60), <2>1, <2>2, <2>3
  <1>10. QuicConnTypeOK'
    BY <1>2, <1>4, <1>5, <1>9 DEF QuicConnTypeOK
  <1>11. Incoming(e)'
    BY <1>1, <1>2, LengthRead, BodyRead, DrainReads
  <1> QED
    BY ZenonT(60), <1>1, <1>3, <1>4, <1>9, <1>10, <1>11, ReadsKeep

LEMMA RecvStep ==
    ASSUME ConnInv, NEW e \in Side, Recv(e)
    PROVE  ConnInv'
  <1>1. PICK s \in Side : s = Across(e) /\ s # e /\ \A x \in Side : x = e \/ x = s
    BY Sides
  <1>2. QuicConnTypeOK /\ Incoming(e) /\ Incoming(s) /\ Unread(e) /\ Unread(s)
    BY DEF ConnInv
  <1>3. UNCHANGED <<closed, up, ctrlMu, send, pipe, fin, written, sent, got, held, closing, drained, by>>
    BY DEF Recv, link, wire, frames, close
  <1>4. recv' \in [Side -> {"recv", "length", "body", "ended"}] /\ recv'[s] = recv[s]
    BY <1>1, <1>2, SMTT(30) DEF Recv, QuicConnTypeOK
  <1>5. QuicConnTypeOK'
    BY <1>2, <1>3, <1>4 DEF QuicConnTypeOK
  <1>6. \A x : UNCHANGED Read(x)
    BY <1>3 DEF Read
  <1>7. Unread(e)' /\ Unread(s)'
    BY <1>2, <1>3, <1>6 DEF Unread
  <1>8. Incoming(e)'
    BY <1>2, RecvKeeps
  <1>9. Incoming(s)'
    BY <1>2, <1>3, <1>4, <1>6, IncomingKept
  <1>10. \A x \in Side : Outgoing(x)'
    BY <1>3, OutgoingStays
  <1> QED
    BY <1>1, <1>5, <1>7, <1>8, <1>9, <1>10 DEF ConnInv

\* The loop ends, or a caller closes.
LEMMA CloseStep ==
    ASSUME ConnInv, NEW e \in Side, ReadEnds(e) \/ Close(e)
    PROVE  ConnInv'
  <1>1. PICK s \in Side : s = Across(e) /\ s # e /\ \A x \in Side : x = e \/ x = s
    BY Sides
  <1>2. /\ QuicConnTypeOK /\ Outgoing(s) /\ Incoming(e) /\ Incoming(s) /\ Unread(e) /\ Unread(s)
    BY DEF ConnInv
  <1>3. UNCHANGED <<up, ctrlMu, send, pipe, written, sent, got>>
    BY DEF ReadEnds, Close, frames
  <1>4. PICK who \in {"loop", "caller"} :
            /\ Closes(e, who) /\ (who = "loop" => ReadEnds(e)) /\ (who = "caller" => Close(e))
    BY DEF ReadEnds, Close
  <1>5. /\ recv' \in [Side -> {"recv", "length", "body", "ended"}] /\ recv'[s] = recv[s]
        /\ held' \in [Side -> Writers \cup {Nobody}] /\ held'[s] = held[s]
        /\ who = "loop" => recv'[e] = "ended"
    <2>1. /\ recv \in [Side -> {"recv", "length", "body", "ended"}]
          /\ held \in [Side -> Writers \cup {Nobody}]
      BY <1>2 DEF QuicConnTypeOK
    <2>2. CASE who = "loop"
      BY <2>1, <2>2, <1>1, <1>4, SMTT(30) DEF ReadEnds
    <2>3. CASE who = "caller"
      BY <2>1, <2>3, <1>1, <1>4 DEF Close, loop
    <2> QED
      BY <2>2, <2>3, <1>4
  <1>6. /\ closed' \in [Side -> BOOLEAN] /\ fin' \in [Side -> BOOLEAN]
        /\ closing' \in [Side -> {"no", "drain", "done"}]
        /\ drained' \in [Side -> {"no", "eof", "error", "timeout"}]
        /\ by' \in [Side -> {"nobody", "caller", "loop"}]
        /\ \A x \in Side : up[x] /\ ~fin'[x] => ~fin[x]
    <2>1. CASE closed[e]
      BY ZenonT(60), <2>1, <1>2, <1>4 DEF Closes, close, QuicConnTypeOK
    <2>2. CASE ~closed[e]
      <3>1. /\ closed' = [closed EXCEPT ![e] = TRUE]
            /\ fin' = [fin EXCEPT ![e] = up[e]]
            /\ closing' = [closing EXCEPT ![e] = "drain"]
            /\ by' = [by EXCEPT ![e] = who] /\ drained' = drained
        BY <2>2, <1>4 DEF Closes
      <3>2. /\ closed \in [Side -> BOOLEAN] /\ fin \in [Side -> BOOLEAN] /\ up \in [Side -> BOOLEAN]
            /\ closing \in [Side -> {"no", "drain", "done"}]
            /\ drained \in [Side -> {"no", "eof", "error", "timeout"}]
            /\ by \in [Side -> {"nobody", "caller", "loop"}]
        BY <1>2 DEF QuicConnTypeOK
      <3>3. /\ closed' \in [Side -> BOOLEAN] /\ fin' \in [Side -> BOOLEAN]
            /\ closing' \in [Side -> {"no", "drain", "done"}]
        BY <3>1, <3>2, SMTT(30)
      <3>4. by' \in [Side -> {"nobody", "caller", "loop"}]
        BY <3>1, <3>2, SMTT(30)
      <3>5. \A x \in Side : up[x] /\ ~fin'[x] => ~fin[x]
        BY <3>1, <3>2, SMT
      <3> QED
        BY <3>1, <3>2, <3>3, <3>4, <3>5
    <2> QED
      BY <2>1, <2>2
  <1>7. QuicConnTypeOK'
    BY <1>2, <1>3, <1>5, <1>6 DEF QuicConnTypeOK
  <1>8. \A x : UNCHANGED Read(x)
    BY <1>3 DEF Read
  <1>9. Unread(e)' /\ Unread(s)'
    BY <1>2, <1>3, <1>8 DEF Unread
  <1>10. (who = "loop" => Ended(e)) /\ (who = "caller" => ~closed[e])
    BY <1>4 DEF ReadEnds, Close
  <1>11. Incoming(e)' /\ Incoming(s)'
    BY ZenonT(60), <1>1, <1>2, <1>3, <1>4, <1>5, <1>10, ClosesKeeps
  <1>12. \A x \in Side : Outgoing(x)'
    BY <1>3, <1>6, OutgoingStays
  <1> QED
    BY <1>1, <1>7, <1>9, <1>11, <1>12 DEF ConnInv

\* The drain ends, or the connection goes down.
LEMMA DownStep ==
    ASSUME ConnInv, NEW e \in Side, Drained(e) \/ PeerGone(e) \/ IdleTimeout(e)
    PROVE  ConnInv'
  <1>1. PICK s \in Side : s = Across(e) /\ s # e /\ \A x \in Side : x = e \/ x = s
    BY Sides
  <1>2. QuicConnTypeOK /\ Incoming(e) /\ Incoming(s) /\ Unread(e) /\ Unread(s)
    BY DEF ConnInv
  <1>3. UNCHANGED <<closed, ctrlMu, send, pipe, fin, written, sent, got, recv, held, by>>
    BY DEF Drained, PeerGone, IdleTimeout, wire, frames, loop, close
  <1>4. up' = [up EXCEPT ![e] = FALSE]
    BY DEF Drained, PeerGone, IdleTimeout
  <1>5. up' \in [Side -> BOOLEAN] /\ \A x \in Side : up'[x] => up[x]
    <2>1. up \in [Side -> BOOLEAN]
      BY <1>2 DEF QuicConnTypeOK
    <2> QED
      BY <2>1, <1>4, SMTT(30)
  <1>6. \A x \in Side : Outgoing(x)'
    BY <1>3, <1>5, OutgoingStays
  <1>7. \A x : UNCHANGED Read(x)
    BY <1>3 DEF Read
  <1>8. Unread(e)' /\ Unread(s)'
    BY <1>2, <1>3, <1>7 DEF Unread
  <1>9. /\ closing' \in [Side -> {"no", "drain", "done"}] /\ closing'[s] = closing[s]
        /\ drained' \in [Side -> {"no", "eof", "error", "timeout"}] /\ drained'[s] = drained[s]
    <2>1. /\ closing \in [Side -> {"no", "drain", "done"}]
          /\ drained \in [Side -> {"no", "eof", "error", "timeout"}]
      BY <1>2 DEF QuicConnTypeOK
    <2>2. CASE Drained(e)
      <3>1. PICK how \in {"eof", "error", "timeout"} : drained' = [drained EXCEPT ![e] = how]
        <4>1. DrainEnds(e) \subseteq {"eof", "error", "timeout"}
          BY DEF DrainEnds
        <4> QED
          BY <4>1, <2>2 DEF Drained
      <3>2. closing' = [closing EXCEPT ![e] = "done"]
        BY <2>2 DEF Drained
      <3> QED
        BY <3>1, <3>2, <2>1, <1>1, SMTT(30)
    <2>3. CASE PeerGone(e) \/ IdleTimeout(e)
      BY <2>1, <2>3 DEF PeerGone, IdleTimeout, close
    <2> QED
      BY <2>2, <2>3
  <1>10. QuicConnTypeOK'
    BY <1>2, <1>3, <1>5, <1>9 DEF QuicConnTypeOK
  <1>11. Incoming(s)'
    BY <1>2, <1>3, <1>7, <1>9, IncomingKept
  <1>12. Incoming(e)'
    <2>1. CASE Drained(e)
      BY <2>1, <1>2, DrainedKeeps
    <2>2. CASE PeerGone(e) \/ IdleTimeout(e)
      <3>1. UNCHANGED <<closing, drained>>
        BY <2>2 DEF PeerGone, IdleTimeout, close
      <3> QED
        BY <3>1, <1>2, <1>3, <1>7, IncomingKept
    <2> QED
      BY <2>1, <2>2
  <1> QED
    BY ZenonT(60), <1>1, <1>6, <1>8, <1>10, <1>11, <1>12 DEF ConnInv

LEMMA ConnIdle ==
    ASSUME ConnInv, UNCHANGED connVars
    PROVE  ConnInv'
  <1>1. UNCHANGED <<closed, up, ctrlMu, send, pipe, fin, written, sent, got, recv, held,
                    closing, drained, by>>
    BY DEF connVars, link, wire, frames, loop, close
  <1>2. QuicConnTypeOK'
    BY <1>1 DEF ConnInv, QuicConnTypeOK
  <1>3. \A x : UNCHANGED Read(x)
    BY <1>1 DEF Read
  <1>4. ASSUME NEW x \in Side PROVE Outgoing(x)' /\ Unread(x)' /\ Incoming(x)'
    <2>1. Outgoing(x) /\ Unread(x) /\ Incoming(x)
      BY <1>4 DEF ConnInv
    <2>2. Outgoing(x)'
      BY <2>1, <1>1, OutgoingKept
    <2>3. Unread(x)'
      BY <2>1, <1>1, <1>3 DEF Unread
    <2>4. Incoming(x)'
      BY ZenonT(60), <2>1, <1>1, <1>3, IncomingKept
    <2> QED
      BY <2>2, <2>3, <2>4
  <1> QED
    BY <1>2, <1>4 DEF ConnInv

\* What is sent over a connection's control stream comes out whole and in order.
THEOREM ConnInvariant == ConnSpec => []ConnInv
  <1>1. ConnInit => ConnInv
    BY ConnInitInv
  <1>2. ConnInv /\ [ConnNext]_connVars => ConnInv'
    <2> SUFFICES ASSUME ConnInv, [ConnNext]_connVars PROVE ConnInv'
      OBVIOUS
    <2>1. CASE UNCHANGED connVars
      BY <2>1, ConnIdle
    <2>2. CASE ConnNext
      <3>1. PICK e \in Side :
                \/ LoopStep(e) \/ Drained(e) \/ Discard(e)
                \/ Close(e) \/ PeerGone(e) \/ IdleTimeout(e)
                \/ \E w \in SendAt[e] : Send(e, w) \/ SendStep(e, w)
        BY <2>2 DEF ConnNext
      <3>2. CASE \E w \in SendAt[e] : Send(e, w) \/ SendStep(e, w)
        <4>1. PICK w \in SendAt[e] : Send(e, w) \/ Lock(e, w) \/ writeFrame(e, w)
          BY <3>2 DEF SendStep
        <4>2. w \in Writers
          BY <4>1, ConnAssumption, SMT
        <4> QED
          BY <4>1, <4>2, SendKeeps, writeFrameKeeps
      <3>3. CASE LoopStep(e)
        BY <3>3, RecvStep, LoopReads, CloseStep DEF LoopStep
      <3>4. CASE Discard(e)
        BY <3>4, LoopReads
      <3>5. CASE Close(e)
        BY <3>5, CloseStep
      <3>6. CASE Drained(e) \/ PeerGone(e) \/ IdleTimeout(e)
        BY <3>6, DownStep
      <3> QED
        BY ZenonT(60), <3>1, <3>2, <3>3, <3>4, <3>5, <3>6
    <2> QED
      BY <2>1, <2>2
  <1> QED
    BY <1>1, <1>2, PTL DEF ConnSpec

\* For any goroutines that send at either end, and though a Close reads the control
\* stream next to the read loop: handlers are given whole frames, each once and in
\* the order of the writes, all of them while their end is open; and a Close that
\* drained to the peer's EOF has lost none, unless the peer closed on its own.
THEOREM FramesDoArrive == ConnSpec => []FramesArrive
  <1>1. ConnInv => FramesArrive
    <2> SUFFICES ASSUME ConnInv PROVE FramesArrive
      OBVIOUS
    <2>1. WholeFrames
      <3> SUFFICES ASSUME NEW e \in Side
                   PROVE  LET o == sent[Across(e)] IN
                          /\ \A i \in DOMAIN got[e] : \E j \in DOMAIN o : o[j] = got[e][i]
                          /\ \A i, j \in DOMAIN got[e], m, n \in DOMAIN o :
                                 i < j /\ o[m] = got[e][i] /\ o[n] = got[e][j] => m < n
                          /\ ~closed[e] =>
                                 Len(got[e]) <= Len(o) /\ \A i \in DOMAIN got[e] : got[e][i] = o[i]
        BY DEF WholeFrames
      <3>1. Handed(e) /\ InStep(e)
        BY DEF ConnInv, Incoming
      <3>2. ~closed[e] => /\ Len(got[e]) <= Len(sent[Across(e)])
                          /\ \A i \in DOMAIN got[e] : got[e][i] = sent[Across(e)][i]
        BY <3>1 DEF InStep
      <3> QED
        BY <3>1, <3>2 DEF Handed
    <2>2. DrainDelivers
      <3> SUFFICES ASSUME NEW e \in Side, drained[e] = "eof", by[Across(e)] = "loop"
                   PROVE  got[Across(e)] = sent[e]
        BY DEF DrainDelivers
      <3>1. Across(e) \in Side /\ Across(Across(e)) = e
        BY Sides
      <3>2. Flushed(e) /\ Flushed(Across(e))
        BY <3>1 DEF ConnInv, Incoming
      <3> QED
        BY <3>1, <3>2 DEF Flushed
    <2> QED
      BY <2>1, <2>2 DEF FramesArrive, ConnInv
  <1> QED
    BY <1>1, ConnInvariant, PTL
================================================================================
