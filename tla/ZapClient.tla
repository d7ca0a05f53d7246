-------------------------------- MODULE ZapClient --------------------------------
(***************************************************************************)
(* Package zapclient over a node: Connect starts a node and a discovery    *)
(* and waits for peers, Call picks a peer round robin, resolves its        *)
(* address to the NodeID its handshake gave, and sends the procedure's     *)
(* opcode; a Server registers procedures by opcode and asks its verifier   *)
(* before a handler runs.                                                  *)
(*                                                                         *)
(* Opcodes have eight bits, so procedures collide.  The node's connection  *)
(* table is reduced to the NodeIDs the client is connected to (conns).     *)
(***************************************************************************)
EXTENDS Naturals, Sequences

CONSTANTS
    Procedure,   \* procedure names
    Opcode,      \* ProcedureOpcode of each
    Server,      \* servers, by NodeID
    Peers,       \* the static peers: a sequence of addresses
    Allowed,     \* the procedures the verifiers allow this client to call
    Call,        \* calls; each is made once
    Asks,        \* the procedure each call asks for
    MinPeers,    \* o.MinPeers
    MaxLosses,   \* bound on the connections lost
    Unset

Address == {Peers[k] : k \in DOMAIN Peers}

ASSUME ClientAssumption ==
    /\ Asks \in [Call -> Procedure] /\ Peers \in Seq(Address)
    /\ Unset \notin Procedure \cup Server
    /\ MaxLosses \in Nat

VARIABLES
    client,      \* "new", "starting", "waiting", "ready", "failed" or "closed"
    node, disc,  \* whether the client's node and its discovery run
    found,       \* disc.PeerCount()
    picked,      \* RoundRobinPicker.next
    addrID,      \* address -> NodeID, or Unset
    conns,       \* NodeIDs the client's node has a connection to
    at,          \* the server that listens at an address, or Unset
    been,        \* the servers that have listened at an address
    losses,      \* connections lost so far
    procedures,  \* per server: opcode -> procedure, or Unset
    procNames,   \* per server: the names Register has accepted
    pc,          \* per call: "idle", "picked", "dialled", "sent", "ran", "error"
    peer,        \* per call: the address picked, or Unset
    target,      \* per call: the NodeID it is addressed to, or Unset
    ran          \* per call: <<server, procedure>> its handler ran as, or Unset

world == <<at, been, losses>>
clientVars == <<client, node, disc, found, picked, addrID, conns, world,
                procedures, procNames, pc, peer, target, ran>>

Codes == {Opcode[p] : p \in Procedure}
calls == <<pc, peer, target, ran>>
server == <<procedures, procNames>>
life == <<client, node, disc, found>>

\* Every variable has its type.
ClientTypeOK ==
    /\ client \in {"new", "starting", "waiting", "ready", "failed", "closed"}
    /\ node \in BOOLEAN /\ disc \in BOOLEAN
    /\ found \in 0 .. Len(Peers) /\ picked \in Nat
    /\ addrID \in [Address -> Server \cup {Unset}]
    /\ conns \subseteq Server
    /\ at \in [Address -> Server \cup {Unset}]
    /\ been \in [Address -> SUBSET Server]
    /\ losses \in 0 .. MaxLosses
    /\ procedures \in [Server -> [Codes -> Procedure \cup {Unset}]]
    /\ procNames \in [Server -> SUBSET Procedure]
    /\ pc \in [Call -> {"idle", "picked", "dialled", "sent", "ran", "error"}]
    /\ peer \in [Call -> Address \cup {Unset}]
    /\ target \in [Call -> Server \cup {Unset}]
    /\ ran \in [Call -> (Server \X Procedure) \cup {Unset}]

ClientInit ==
    /\ client = "new" /\ node = FALSE /\ disc = FALSE /\ found = 0 /\ picked = 0
    /\ addrID = [a \in Address |-> Unset]
    /\ conns = {}
    /\ at \in [Address -> Server]
    /\ been = [a \in Address |-> {at[a]}]
    /\ losses = 0
    /\ procedures = [s \in Server |-> [o \in Codes |-> Unset]]
    /\ procNames = [s \in Server |-> {}]
    /\ pc = [c \in Call |-> "idle"]
    /\ peer = [c \in Call |-> Unset]
    /\ target = [c \in Call |-> Unset]
    /\ ran = [c \in Call |-> Unset]

--------------------------------------------------------------------------------
(* Servers *)

\* MUTANT of Collides: only the same name is a collision.
SameName(s, p) == procedures[s][Opcode[p]] = p

Collides(s, p) == procedures[s][Opcode[p]] # Unset

\* A collision is refused and changes nothing.
RegisterProcedure(s, p) ==
    /\ ~Collides(s, p)
    /\ procedures' = [procedures EXCEPT ![s][Opcode[p]] = p]
    /\ procNames' = [procNames EXCEPT ![s] = @ \cup {p}]
    /\ UNCHANGED <<life, picked, addrID, conns, world, calls>>

--------------------------------------------------------------------------------
(* Connect and Close *)

\* Connect starts the client's node; if that fails, nothing runs.
StartNode ==
    /\ client = "new"
    /\ \/ client' = "starting" /\ node' = TRUE
       \/ client' = "failed" /\ UNCHANGED node
    /\ UNCHANGED <<disc, found, picked, addrID, conns, world, server, calls>>

\* ... then the discovery it was given (a static one cannot fail).
StartDiscovery ==
    /\ client = "starting"
    /\ \/ client' = "waiting" /\ disc' = TRUE /\ UNCHANGED node
       \/ client' = "failed" /\ node' = FALSE /\ UNCHANGED disc
    /\ UNCHANGED <<found, picked, addrID, conns, world, server, calls>>

Discover ==
    /\ disc /\ found < Len(Peers)
    /\ found' = found + 1
    /\ UNCHANGED <<client, node, disc, picked, addrID, conns, world, server,
                   calls>>

\* waitForPeers: enough peers are known ...
Ready ==
    /\ client = "waiting" /\ found >= MinPeers
    /\ client' = "ready"
    /\ UNCHANGED <<node, disc, found, picked, addrID, conns, world, server,
                   calls>>

\* stopDisc() and n.Stop()
StopAll == disc' = FALSE /\ node' = FALSE

\* ... or DiscoverTimeout ends first.
DiscoverTimeout ==
    /\ client = "waiting" /\ found < MinPeers
    /\ client' = "failed"
    /\ StopAll
    /\ conns' = {}
    /\ UNCHANGED <<found, picked, addrID, world, server, calls>>

\* The second Close returns at once.
Close ==
    /\ client = "ready"
    /\ client' = "closed"
    /\ StopAll
    /\ conns' = {}
    /\ UNCHANGED <<found, picked, addrID, world, server, calls>>

--------------------------------------------------------------------------------
(* Calls *)

Returns(c, outcome) == pc' = [pc EXCEPT ![c] = outcome]

\* Pick is an atomic counter over the peers found so far.
Pick(c) ==
    /\ client \in {"ready", "closed"} /\ pc[c] = "idle"
    /\ IF found = 0
       THEN Returns(c, "error") /\ UNCHANGED <<picked, peer>>
       ELSE /\ Returns(c, "picked")
            /\ peer' = [peer EXCEPT ![c] = Peers[(picked % found) + 1]]
            /\ picked' = picked + 1
    /\ UNCHANGED <<life, addrID, conns, world, server, target, ran>>

\* A known address is not dialled again, whether or not its connection lasts.
Memoized(c) ==
    /\ pc[c] = "picked" /\ addrID[peer[c]] # Unset
    /\ Returns(c, "sent")
    /\ target' = [target EXCEPT ![c] = addrID[peer[c]]]
    /\ UNCHANGED <<life, picked, addrID, conns, world, server, peer, ran>>

\* ConnectDirectID, between the two times dialMu is held: it registers the
\* connection without a look at whether the node has been stopped.
Dial(c) ==
    /\ pc[c] = "picked" /\ addrID[peer[c]] = Unset
    /\ IF at[peer[c]] = Unset
       THEN Returns(c, "error") /\ UNCHANGED <<conns, target>>
       ELSE /\ Returns(c, "dialled")
            /\ target' = [target EXCEPT ![c] = at[peer[c]]]
            /\ conns' = conns \cup {at[peer[c]]}
    /\ UNCHANGED <<life, picked, addrID, world, server, peer, ran>>

Memoize(c) ==
    /\ pc[c] = "dialled"
    /\ addrID' = [addrID EXCEPT ![peer[c]] = target[c]]
    /\ Returns(c, "sent")
    /\ UNCHANGED <<life, picked, conns, world, server, peer, target, ran>>

\* The opcode the message is tagged with, and the procedure it stands for there.
Selected(c) == procedures[target[c]][Opcode[Asks[c]]]

Verify(c) == Selected(c) \in Allowed

\* node.Call and the server's dispatch.  A NodeID the node has no connection to
\* is an error: a client with a discovery of its own has none in its node.
Dispatch(c) ==
    /\ pc[c] = "sent"
    /\ IF target[c] \in conns /\ Selected(c) # Unset /\ Verify(c)
       THEN /\ Returns(c, "ran")
            /\ ran' = [ran EXCEPT ![c] = <<target[c], Selected(c)>>]
       ELSE Returns(c, "error") /\ UNCHANGED ran
    /\ UNCHANGED <<life, picked, addrID, conns, world, server, peer, target>>

\* A server goes away, and another one, or nobody, takes its address.
Lose(a) ==
    /\ losses < MaxLosses /\ at[a] # Unset
    /\ losses' = losses + 1
    /\ conns' = conns \ {at[a]}
    /\ \E s \in {Unset} \cup Server :
           /\ s # at[a]
           /\ at' = [at EXCEPT ![a] = s]
           /\ been' = [been EXCEPT ![a] = @ \cup ({s} \ {Unset})]
    /\ UNCHANGED <<life, picked, addrID, server, calls>>

\* MUTANT of Drop: Stop does not wake a loop, which ends with its peer.
DropWithPeer(s) ==
    /\ ~node /\ s \in conns /\ \A a \in Address : at[a] # s
    /\ conns' = conns \ {s}
    /\ UNCHANGED <<life, picked, addrID, world, server, calls>>

\* The loop of a connection registered after Stop finds the context done, closes
\* the connection and takes it out of the table.
Drop(s) ==
    /\ ~node /\ s \in conns
    /\ conns' = conns \ {s}
    /\ UNCHANGED <<life, picked, addrID, world, server, calls>>

--------------------------------------------------------------------------------

CallStep(c) == Pick(c) \/ Memoized(c) \/ Dial(c) \/ Memoize(c) \/ Dispatch(c)

ClientNext ==
    \/ \E s \in Server, p \in Procedure : RegisterProcedure(s, p)
    \/ StartNode \/ StartDiscovery \/ Discover \/ Ready \/ DiscoverTimeout \/ Close
    \/ \E c \in Call : CallStep(c)
    \/ \E a \in Address : Lose(a)
    \/ \E s \in Server : Drop(s)

\* A loop whose context is done ends.
ClientSpec ==
    /\ ClientInit /\ [][ClientNext]_clientVars
    /\ \A s \in Server : WF_clientVars(Drop(s))

\* No call runs a procedure the verifier would refuse, and where the server has
\* the procedure that was asked for it is the one that ran: a colliding opcode
\* is refused at registration, not routed to the wrong handler.  It ran at a
\* server that has listened at the address picked for it: a memo may be stale,
\* but neither a concurrent dial nor a server's move makes it another address's.
RunsOwnProcedure ==
    \A c \in Call : ran[c] # Unset =>
        /\ ran[c][2] \in Allowed
        /\ Opcode[ran[c][2]] = Opcode[Asks[c]]
        /\ Asks[c] \in procNames[ran[c][1]] => ran[c][2] = Asks[c]
        /\ ran[c][1] \in been[peer[c]]

\* A Connect that fails at any of its steps, and a Close, leave nothing behind in
\* the end: neither the node nor the discovery, nor a connection that a Call in
\* flight dials and registers when Stop has already emptied the table.
NothingLeaks == []<>(client \in {"failed", "closed"} => ~node /\ ~disc /\ conns = {})
================================================================================
