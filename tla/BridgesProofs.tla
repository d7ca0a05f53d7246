----------------------------- MODULE BridgesProofs -----------------------------
(***************************************************************************)
(* Proofs about the three parts that lie on top of a node (modules Router, *)
(* Forward and ZapClient), for any interfaces, requests and procedures.    *)
(*                                                                         *)
(* Forward: a frame on a connection of the gateway carries the headers the *)
(* ingress let through, and one on a backend's connection the identity the *)
(* gate gave it, so what a handler is given and what a client gets back    *)
(* are determined by the request alone, whichever connections are lost.    *)
(* ZapClient: a slot of a server's table is filled once, by a procedure    *)
(* with that opcode; what a memo or a call names as the server of an       *)
(* address has listened there.                                             *)
(* Router: the table is sorted but for the newcomer, which costs less than *)
(* all it has passed; a Send walks interfaces in order as long as no store *)
(* falls into what it walks, and none does among the first three.          *)
(***************************************************************************)
EXTENDS Router, Forward, ZapClient, SequenceTheorems, TLAPS

\* Leaves go to Zenon; the ones that need arithmetic or sequences name SMT.
USE Zenon

-------------------------------------------------------------------------------
(* HTTP forwarding *)

\* The requests the gate lets through, and what Serve answers them.
Passed(r) == Token[r] \notin {"bad", "error"}
Earned(r) ==
    IF Line[r] = "invalid" THEN "400" ELSE IF Kind[r] = "stream" THEN "501" ELSE "200"

\* The frames of an ingress, and those of the gateway.
Stripped ==
    {[req |-> r, id |-> Claimed(r), headers |-> stripClientIdentity(Headers[r])] :
        r \in Request}
Admitted ==
    {[req |-> r, id |-> Identity(r), headers |-> stripClientIdentity(Headers[r])] :
        r \in {q \in Request : Passed(q)}}

ForwardTypes ==
    /\ trip \in [Request -> {"idle", "waiting", "answered", "failed"}]
    /\ relaying \in [Ingress -> Request \cup {Nil}]
    /\ serving \in [Backend -> Request \cup {Nil}]
    /\ reply \in [Request -> Statuses \cup {Nil}]
    /\ answer \in [Request -> Statuses \cup {Nil}]
    /\ linked \subseteq Backend /\ lost \subseteq Request /\ cuts \in 0 .. MaxCuts
    /\ toGateway \in [Ingress -> Seq(Stripped)]
    /\ toBackend \in [Backend -> Seq(Admitted)]
    /\ seen \in [Request -> {Nil} \cup
                      {[id |-> Identity(r),
                        headers |-> Headers[r] \ (IdentityHeaders \cup {"malformed"})] :
                          r \in Request}]

\* A request that is being relayed or served has passed; what its handler saw
\* and what it was answered are its own.
Own ==
    /\ \A i \in Ingress : relaying[i] # Nil => Passed(relaying[i])
    /\ \A b \in Backend :
          serving[b] # Nil => Passed(serving[b]) /\ Line[serving[b]] = "valid"
    /\ \A r \in Request :
          /\ seen[r] # Nil =>
                /\ Passed(r)
                /\ seen[r] = [id |-> Identity(r),
                              headers |-> Headers[r] \ (IdentityHeaders \cup {"malformed"})]
          /\ reply[r] # Nil => Passed(r) /\ reply[r] = Earned(r)
          /\ answer[r] # Nil => answer[r] = IF Token[r] = "bad" THEN "401" ELSE Earned(r)

ForwardInv == ForwardTypes /\ Own

\* Before anything is sent the invariant holds.
LEMMA ForwardInitInv == ForwardInit => ForwardInv
<1> SUFFICES ASSUME ForwardInit PROVE ForwardInv
  OBVIOUS
<1>1. ForwardTypes
  BY SMT, ForwardAssumption DEF ForwardInit, ForwardTypes
<1> QED BY <1>1 DEF ForwardInit, ForwardInv, Own

\* The head of a connection and what is left of it.
LEMMA Queue ==
    ASSUME NEW S, NEW q \in Seq(S), q # <<>>
    PROVE  Head(q) \in S /\ Tail(q) \in Seq(S)
BY SMT

\* What the frames carry.
LEMMA Frames ==
    /\ \A r \in Request : requestToForward(r) \in Stripped
    /\ \A f \in Stripped : f.req \in Request
    /\ \A f \in Stripped : Passed(f.req) => Gate(f) \in Admitted
    /\ \A f \in Admitted :
          /\ f.req \in Request /\ Passed(f.req)
          /\ HandlerSees(f) = [id |-> Identity(f.req),
                               headers |-> Headers[f.req] \ (IdentityHeaders \cup {"malformed"})]
<1>1. \A r \in Request : requestToForward(r) \in Stripped
  BY SMT DEF requestToForward, Stripped
<1>2. \A f \in Stripped : f.req \in Request
  BY SMT DEF Stripped
<1>3. ASSUME NEW f \in Stripped, Passed(f.req) PROVE Gate(f) \in Admitted
  <2>1. PICK r \in Request :
           f = [req |-> r, id |-> Claimed(r), headers |-> stripClientIdentity(Headers[r])]
    BY DEF Stripped
  <2>2. Gate(f) = [req |-> r, id |-> Identity(r), headers |-> stripClientIdentity(Headers[r])]
    BY SMT, <2>1 DEF Gate, Identity
  <2> QED BY SMT, <1>3, <2>1, <2>2 DEF Admitted
<1>4. ASSUME NEW f \in Admitted
      PROVE  /\ f.req \in Request /\ Passed(f.req) /\ f.id = Identity(f.req)
             /\ f.headers = Headers[f.req] \ IdentityHeaders
  BY SMT DEF Admitted, stripClientIdentity
<1>5. \A hs : ((hs \ IdentityHeaders) \ {"malformed"}) \ IdentityHeaders
                 = hs \ (IdentityHeaders \cup {"malformed"})
  OBVIOUS
<1>6. ASSUME NEW f \in Admitted
      PROVE HandlerSees(f) = [id |-> Identity(f.req),
                              headers |-> Headers[f.req] \ (IdentityHeaders \cup {"malformed"})]
  BY <1>4, <1>5 DEF HandlerSees, stripClientIdentity, validHeaders
<1> QED BY <1>1, <1>2, <1>3, <1>4, <1>6

\* Every step of the ingress, the gateway and the backends keeps the invariant.
LEMMA ForwardStepInv == ForwardInv /\ [ForwardNext]_forwardVars => ForwardInv'
<1> SUFFICES ASSUME ForwardInv, [ForwardNext]_forwardVars PROVE ForwardInv'
  OBVIOUS
<1> USE ForwardAssumption
<1> USE DEF ForwardInv, ForwardTypes, links
<1>1. ASSUME NEW r \in Request, RoundTrip(r) PROVE ForwardInv'
  <2>1. requestToForward(r) \in Stripped /\ From[r] \in Ingress
    BY Frames DEF Ingress
  <2>2. toGateway' \in [Ingress -> Seq(Stripped)]
    BY SMT, <1>1, <2>1 DEF RoundTrip
  <2>3. trip' \in [Request -> {"idle", "waiting", "answered", "failed"}]
    BY <1>1 DEF RoundTrip
  <2> QED BY <1>1, <2>2, <2>3 DEF RoundTrip, Own
<1>2. ASSUME NEW r \in Request, BodyFails(r) \/ GiveUp(r) PROVE ForwardInv'
  <2>1. trip' \in [Request -> {"idle", "waiting", "answered", "failed"}]
    BY <1>2 DEF BodyFails, GiveUp
  <2> QED BY ZenonT(60), <1>2, <2>1 DEF BodyFails, GiveUp, Own
<1>3. ASSUME NEW i \in Ingress, Taken(i)
      PROVE  /\ Head(toGateway[i]) \in Stripped /\ toGateway' \in [Ingress -> Seq(Stripped)]
             /\ Head(toGateway[i]).req \in Request
  <2>1. Head(toGateway[i]) \in Stripped /\ Tail(toGateway[i]) \in Seq(Stripped)
    BY <1>3, Queue DEF Taken
  <2> QED BY <1>3, <2>1, Frames DEF Taken
<1>4. ASSUME NEW i \in Ingress, RelayFails(i) PROVE ForwardInv'
  BY <1>3, <1>4 DEF RelayFails, Own
<1>5. ASSUME NEW r \in Request, NEW st \in Statuses, Returned(r, st),
             st = IF Token[r] = "bad" THEN "401" ELSE Earned(r)
      PROVE  /\ trip' \in [Request -> {"idle", "waiting", "answered", "failed"}]
             /\ answer' \in [Request -> Statuses \cup {Nil}]
             /\ \A q \in Request : answer'[q] # Nil =>
                   answer'[q] = IF Token[q] = "bad" THEN "401" ELSE Earned(q)
  <2>1. CASE trip[r] = "waiting"
    <3>1. /\ trip' = [trip EXCEPT ![r] = "answered"] /\ answer' = [answer EXCEPT ![r] = st]
      BY <1>5, <2>1 DEF Returned
    <3>2. ASSUME NEW q \in Request, answer'[q] # Nil
          PROVE  answer'[q] = IF Token[q] = "bad" THEN "401" ELSE Earned(q)
      <4>1. CASE q = r
        BY <1>5, <3>1, <4>1
      <4>2. CASE q # r
        <5>1. answer'[q] = answer[q]
          BY <3>1, <4>2
        <5> QED BY <3>2, <5>1 DEF Own
      <4> QED BY <4>1, <4>2
    <3> QED BY <3>1, <3>2
  <2>2. CASE trip[r] # "waiting"
    BY <1>5, <2>2 DEF Returned, Own
  <2> QED BY <2>1, <2>2
<1>6. ASSUME NEW i \in Ingress, RelayDenies(i) PROVE ForwardInv'
  <2> DEFINE f == Head(toGateway[i])
  <2>1. /\ toGateway' \in [Ingress -> Seq(Stripped)] /\ f.req \in Request
        /\ Token[f.req] = "bad" /\ Returned(f.req, "401")
    BY <1>3, <1>6 DEF RelayDenies, Denies
  <2>2. /\ trip' \in [Request -> {"idle", "waiting", "answered", "failed"}]
        /\ answer' \in [Request -> Statuses \cup {Nil}]
        /\ \A q \in Request : answer'[q] # Nil =>
              answer'[q] = IF Token[q] = "bad" THEN "401" ELSE Earned(q)
    BY <1>5, <2>1 DEF Statuses
  <2> QED BY <1>6, <2>1, <2>2 DEF RelayDenies, Own
<1>7. ASSUME NEW i \in Ingress, Relay(i) PROVE ForwardInv'
  <2> DEFINE f == Head(toGateway[i])
  <2>1. /\ toGateway' \in [Ingress -> Seq(Stripped)] /\ f \in Stripped /\ f.req \in Request
        /\ Passed(f.req)
        /\ toBackend' = [toBackend EXCEPT ![PickPeer[f.req]] = Append(@, Gate(f))]
        /\ relaying' = [relaying EXCEPT ![i] = f.req]
    BY <1>3, <1>7 DEF Relay, Denies, Unanswered, Passed
  <2>2. Gate(f) \in Admitted
    BY <2>1, Frames
  <2> HIDE DEF f
  <2>3. toBackend' \in [Backend -> Seq(Admitted)]
    <3> DEFINE b == PickPeer[f.req]
               g == Gate(f)
    <3>1. \A c \in Backend : Append(toBackend[c], g) \in Seq(Admitted)
      BY SMT, <2>2
    <3> HIDE DEF b, g
    <3> QED BY <2>1, <3>1 DEF b, g
  <2>4. relaying' \in [Ingress -> Request \cup {Nil}]
    BY <2>1
  <2>5. \A j \in Ingress : relaying'[j] # Nil => Passed(relaying'[j])
    BY <2>1 DEF Own
  <2>6. linked' \subseteq Backend
    <3>1. PickPeer[f.req] # Nil /\ linked' = linked \cup {PickPeer[f.req]}
      BY <1>7 DEF Relay, Denies, Unanswered, f
    <3>2. PickPeer[f.req] \in Backend
      BY <2>1, <3>1
    <3> QED BY <3>1, <3>2
  <2> QED BY <1>7, <2>1, <2>3, <2>4, <2>5, <2>6 DEF Relay, Own
<1>8. ASSUME NEW i \in Ingress, RelayReturns(i) PROVE ForwardInv'
  <2> DEFINE r == relaying[i]
  <2>1. r \in Request /\ Passed(r) /\ reply[r] # Nil
    BY <1>8 DEF RelayReturns, Own
  <2>2. reply[r] \in Statuses /\ reply[r] = IF Token[r] = "bad" THEN "401" ELSE Earned(r)
    BY <2>1 DEF Own, Passed
  <2>3. /\ trip' \in [Request -> {"idle", "waiting", "answered", "failed"}]
        /\ answer' \in [Request -> Statuses \cup {Nil}]
        /\ \A q \in Request : answer'[q] # Nil =>
              answer'[q] = IF Token[q] = "bad" THEN "401" ELSE Earned(q)
    BY <1>5, <1>8, <2>1, <2>2 DEF RelayReturns
  <2>4. /\ relaying' \in [Ingress -> Request \cup {Nil}]
        /\ \A j \in Ingress : relaying'[j] # Nil => Passed(relaying'[j])
    BY <1>8 DEF RelayReturns, Own
  <2> QED BY <1>8, <2>3, <2>4 DEF RelayReturns, Own
<1>9. ASSUME NEW b \in Backend, toBackend[b] # <<>>, toBackend' = [toBackend EXCEPT ![b] = Tail(@)]
      PROVE  /\ Head(toBackend[b]) \in Admitted /\ toBackend' \in [Backend -> Seq(Admitted)]
             /\ Head(toBackend[b]).req \in Request /\ Passed(Head(toBackend[b]).req)
  <2>1. Head(toBackend[b]) \in Admitted /\ Tail(toBackend[b]) \in Seq(Admitted)
    BY <1>9, Queue
  <2> QED BY <1>9, <2>1, Frames
<1>10. ASSUME NEW b \in Backend, ServeBegin(b) PROVE ForwardInv'
  <2> DEFINE f == Head(toBackend[b])
             saw == [id |-> Identity(f.req),
                     headers |-> Headers[f.req] \ (IdentityHeaders \cup {"malformed"})]
  <2>1. /\ toBackend' \in [Backend -> Seq(Admitted)] /\ f \in Admitted
        /\ f.req \in Request /\ Passed(f.req) /\ Line[f.req] = "valid"
        /\ serving' = [serving EXCEPT ![b] = f.req]
        /\ seen' = [seen EXCEPT ![f.req] = HandlerSees(f)]
    BY <1>9, <1>10 DEF ServeBegin, validForwardLine
  <2>2. HandlerSees(f) = saw
    BY <2>1, Frames
  <2>3. saw \in {[id |-> Identity(r),
                  headers |-> Headers[r] \ (IdentityHeaders \cup {"malformed"})] : r \in Request}
    BY <2>1
  <2>4. seen' \in [Request -> {Nil} \cup
                      {[id |-> Identity(r),
                        headers |-> Headers[r] \ (IdentityHeaders \cup {"malformed"})] :
                          r \in Request}]
    BY <2>1, <2>2, <2>3
  <2>5. \A q \in Request : seen'[q] # Nil =>
           /\ Passed(q)
           /\ seen'[q] = [id |-> Identity(q),
                          headers |-> Headers[q] \ (IdentityHeaders \cup {"malformed"})]
    BY <2>1, <2>2 DEF Own
  <2>6. /\ serving' \in [Backend -> Request \cup {Nil}]
        /\ \A c \in Backend :
              serving'[c] # Nil => Passed(serving'[c]) /\ Line[serving'[c]] = "valid"
    BY <2>1 DEF Own
  <2> QED BY <1>10, <2>1, <2>4, <2>5, <2>6 DEF ServeBegin, Own
<1>11. ASSUME NEW r \in Request, NEW st, st = Nil \/ (Passed(r) /\ st = Earned(r)),
              reply' = [reply EXCEPT ![r] = st]
       PROVE  /\ reply' \in [Request -> Statuses \cup {Nil}]
              /\ \A q \in Request : reply'[q] # Nil => Passed(q) /\ reply'[q] = Earned(q)
  <2>1. Earned(r) \in Statuses
    BY DEF Earned, Statuses
  <2> QED BY <1>11, <2>1 DEF Own
<1>12. ASSUME NEW b \in Backend, ServeRejects(b) PROVE ForwardInv'
  <2> DEFINE f == Head(toBackend[b])
  <2>1. /\ toBackend' \in [Backend -> Seq(Admitted)] /\ f.req \in Request /\ Passed(f.req)
        /\ Line[f.req] = "invalid" /\ reply' = [reply EXCEPT ![f.req] = "400"]
    BY <1>9, <1>12 DEF ServeRejects, validForwardLine
  <2>2. Earned(f.req) = "400"
    BY <2>1 DEF Earned
  <2>3. /\ reply' \in [Request -> Statuses \cup {Nil}]
        /\ \A q \in Request : reply'[q] # Nil => Passed(q) /\ reply'[q] = Earned(q)
    BY <1>11, <2>1, <2>2
  <2> QED BY <1>12, <2>1, <2>3 DEF ServeRejects, Own
<1>13. ASSUME NEW b \in Backend, ServeEnd(b) PROVE ForwardInv'
  <2> DEFINE r == serving[b]
             st == IF Kind[r] = "panic" THEN Nil ELSE Status(r)
  <2>1. r \in Request /\ Passed(r) /\ Line[r] = "valid"
    BY <1>13 DEF ServeEnd, Own
  <2>2. st = Nil \/ (Passed(r) /\ st = Earned(r))
    BY <2>1 DEF Status, isStreamingResponse, Earned
  <2>3. /\ reply' \in [Request -> Statuses \cup {Nil}]
        /\ \A q \in Request : reply'[q] # Nil => Passed(q) /\ reply'[q] = Earned(q)
    BY <1>11, <1>13, <2>1, <2>2 DEF ServeEnd
  <2>4. /\ serving' \in [Backend -> Request \cup {Nil}]
        /\ \A c \in Backend :
              serving'[c] # Nil => Passed(serving'[c]) /\ Line[serving'[c]] = "valid"
    BY <1>13 DEF ServeEnd, Own
  <2> QED BY <1>13, <2>3, <2>4 DEF ServeEnd, Own
<1>15. ASSUME NEW i \in Ingress, RelayUnreachable(i) PROVE ForwardInv'
  <2>1. /\ toGateway' \in [Ingress -> Seq(Stripped)]
        /\ lost' = lost \cup {Head(toGateway[i]).req} /\ Head(toGateway[i]).req \in Request
    BY <1>3, <1>15 DEF RelayUnreachable
  <2>2. lost' \subseteq Request
    BY <2>1
  <2> QED BY <1>15, <2>1, <2>2 DEF RelayUnreachable, Own
<1>16. ASSUME NEW b \in Backend, CutBackend(b) PROVE ForwardInv'
  <2>1. /\ linked' \subseteq Backend /\ lost' \subseteq Request
    BY <1>16 DEF CutBackend, Calling
  <2>2. cuts' \in 0 .. MaxCuts
    BY SMT, <1>16 DEF CutBackend
  <2>3. toBackend' \in [Backend -> Seq(Admitted)]
    BY SMT, <1>16 DEF CutBackend
  <2>4. /\ serving' \in [Backend -> Request \cup {Nil}]
        /\ \A c \in Backend :
              serving'[c] # Nil => Passed(serving'[c]) /\ Line[serving'[c]] = "valid"
    BY <1>16 DEF CutBackend, Own
  <2>5. reply' = [r \in Request |-> IF r \in Calling(b) THEN Nil ELSE reply[r]]
    BY <1>16 DEF CutBackend
  <2>6. /\ reply' \in [Request -> Statuses \cup {Nil}]
        /\ \A q \in Request : reply'[q] # Nil => Passed(q) /\ reply'[q] = Earned(q)
    BY <2>5 DEF Own
  <2> QED BY <1>16, <2>1, <2>2, <2>3, <2>4, <2>6 DEF CutBackend, Own
<1>14. CASE UNCHANGED forwardVars
  BY <1>14 DEF forwardVars, Own
<1> QED
  BY <1>1, <1>2, <1>4, <1>6, <1>7, <1>8, <1>10, <1>12, <1>13, <1>14, <1>15, <1>16
     DEF ForwardNext, AtGateway, AtBackend

\* The variables of HTTP forwarding keep their types: a connection carries
\* envelopes only, and a handler is given an identity and headers of known classes.
THEOREM ForwardTyped == ForwardSpec => []ForwardTypeOK
<1>1. ASSUME NEW r \in Request
      PROVE  /\ Claimed(r) \in Identities /\ Identity(r) \in Identities
             /\ \A hs : Headers[r] \ hs \subseteq HeaderClasses
  BY ForwardAssumption DEF Claimed, Identity, Identities
<1>2. Stripped \subseteq Frame /\ Admitted \subseteq Frame
  BY SMT, <1>1 DEF Stripped, Admitted, Frame, stripClientIdentity
<1>3. ASSUME ForwardInv PROVE ForwardTypeOK
  <2> USE DEF ForwardInv, ForwardTypes
  <2>1. toGateway \in [Ingress -> Seq(Frame)] /\ toBackend \in [Backend -> Seq(Frame)]
    BY SMT, <1>2, <1>3
  <2>2. seen \in [Request -> [id : Identities, headers : SUBSET HeaderClasses] \cup {Nil}]
    BY SMT, <1>1, <1>3
  <2> QED BY <1>3, <2>1, <2>2 DEF ForwardTypeOK
<1> QED BY <1>3, ForwardInitInv, ForwardStepInv, PTL DEF ForwardSpec

\* For any requests, ingress nodes and backends, a handler behind Relay runs only
\* for requests the gate let through, with the identity of the token, or the one
\* the ingress found if the gate names none, and no header by which the client
\* names itself; and a client gets the status its own request earned, whatever
\* else the gateway is relaying and whichever connections to backends are lost.
THEOREM GateDecided == ForwardSpec => []GateDecides
<1>1. ForwardInv => GateDecides
  <2> SUFFICES ASSUME ForwardInv, NEW r \in Request
               PROVE  /\ seen[r] # Nil =>
                            /\ Token[r] \notin {"bad", "error"}
                            /\ seen[r].id = Identity(r)
                            /\ seen[r].headers \cap (IdentityHeaders \cup {"malformed"}) = {}
                            /\ ("auth" \in Headers[r]) => ("auth" \in seen[r].headers)
                      /\ answer[r] # Nil =>
                            answer[r] = IF Token[r] = "bad" THEN "401"
                                        ELSE IF Line[r] = "invalid" THEN "400"
                                        ELSE IF Kind[r] = "stream" THEN "501" ELSE "200"
    BY DEF GateDecides
  <2>1. seen[r] # Nil =>
          /\ Passed(r) /\ seen[r].id = Identity(r)
          /\ seen[r].headers = Headers[r] \ (IdentityHeaders \cup {"malformed"})
    <3> SUFFICES ASSUME seen[r] # Nil
                 PROVE  /\ Passed(r) /\ seen[r].id = Identity(r)
                        /\ seen[r].headers = Headers[r] \ (IdentityHeaders \cup {"malformed"})
      OBVIOUS
    <3> DEFINE h == Headers[r] \ (IdentityHeaders \cup {"malformed"})
    <3>1. Passed(r) /\ seen[r] = [id |-> Identity(r), headers |-> h]
      BY DEF ForwardInv, Own
    <3> HIDE DEF h
    <3>2. seen[r].id = Identity(r) /\ seen[r].headers = h
      BY SMT, <3>1
    <3> QED BY <3>1, <3>2 DEF h
  <2>2. "auth" \notin IdentityHeaders \cup {"malformed"}
    BY DEF IdentityHeaders
  <2> QED BY <2>1, <2>2 DEF ForwardInv, Own, Passed, Earned
<1> QED BY <1>1, ForwardInitInv, ForwardStepInv, PTL DEF ForwardSpec

-------------------------------------------------------------------------------
(* zapclient *)

\* A slot holds a procedure of its opcode, and the one registered there; what
\* ran is what the slot of the opcode asked for holds, and allowed.
Slots ==
    /\ \A s \in Server, o \in Codes :
          procedures[s][o] # Unset => Opcode[procedures[s][o]] = o
    /\ \A s \in Server, p \in Procedure : p \in procNames[s] => procedures[s][Opcode[p]] = p
    /\ \A c \in Call : ran[c] # Unset =>
          /\ ran[c][2] \in Allowed
          /\ procedures[ran[c][1]][Opcode[Asks[c]]] = ran[c][2]

\* A server that listens at an address, that a memo names for it or that a call is
\* addressed to has listened at the address; what a call ran at is its target.
Addressed ==
    /\ \A a \in Address : /\ at[a] # Unset => at[a] \in been[a]
                          /\ addrID[a] # Unset => addrID[a] \in been[a]
    /\ \A c \in Call :
          /\ pc[c] \in {"picked", "dialled", "sent", "ran"} => peer[c] \in Address
          /\ pc[c] \in {"dialled", "sent", "ran"} => target[c] \in been[peer[c]]
          /\ ran[c] # Unset => pc[c] = "ran" /\ ran[c][1] = target[c]

ClientInv == ClientTypeOK /\ Slots /\ Addressed

\* The static peers are a list of addresses.
LEMMA PeerList ==
    Len(Peers) \in Nat /\ \A k \in 1 .. Len(Peers) : Peers[k] \in Address
<1>1. Peers \in Seq(Address)
  BY ClientAssumption
<1> QED BY SMT, <1>1

\* A new client and servers without procedures satisfy the invariant.
LEMMA ClientInitInv == ClientInit => ClientInv
<1> SUFFICES ASSUME ClientInit PROVE ClientInv
  OBVIOUS
<1> USE ClientAssumption
<1>1. 0 \in 0 .. Len(Peers) /\ 0 \in Nat /\ 0 \in 0 .. MaxLosses
  BY PeerList, SMT
<1>2. been \in [Address -> SUBSET Server] /\ \A x \in Address : at[x] \in been[x]
  BY SMT DEF ClientInit
<1>3. ClientTypeOK
  BY <1>1, <1>2 DEF ClientInit, ClientTypeOK
<1>4. Slots
  BY DEF ClientInit, Slots
<1>5. Addressed
  BY <1>2 DEF ClientInit, Addressed
<1> QED BY <1>3, <1>4, <1>5 DEF ClientInv

\* A collision is refused, so Register fills a slot once and what ran stays what
\* its slot holds.
LEMMA RegisterKeeps ==
    ASSUME ClientInv, NEW s \in Server, NEW p \in Procedure, RegisterProcedure(s, p)
    PROVE  ClientTypeOK' /\ Slots'
<1> USE ClientAssumption
<1> DEFINE o == Opcode[p]
<1>1. /\ o \in Codes /\ procedures[s][o] = Unset
      /\ procedures' = [procedures EXCEPT ![s][o] = p]
      /\ procNames' = [procNames EXCEPT ![s] = @ \cup {p}]
  BY DEF RegisterProcedure, Collides, Codes
<1>2. /\ procedures' \in [Server -> [Codes -> Procedure \cup {Unset}]]
      /\ procNames' \in [Server -> SUBSET Procedure]
  BY SMT, <1>1 DEF ClientInv, ClientTypeOK
<1>3. ClientTypeOK'
  BY <1>2 DEF RegisterProcedure, life, world, calls, ClientInv, ClientTypeOK
<1>4. /\ procedures'[s][o] = p
      /\ \A q \in Server, x \in Codes :
            ~(q = s /\ x = o) => procedures'[q][x] = procedures[q][x]
  BY SMT, <1>1 DEF ClientInv, ClientTypeOK
<1>5. \A q \in Server, x \in Codes : procedures'[q][x] # Unset => Opcode[procedures'[q][x]] = x
  <2> TAKE q \in Server, x \in Codes
  <2>1. CASE q = s /\ x = o
    BY <1>4, <2>1
  <2>2. CASE ~(q = s /\ x = o)
    <3>1. procedures'[q][x] = procedures[q][x]
      BY <1>4, <2>2
    <3> QED BY ZenonT(60), <3>1 DEF ClientInv, Slots
  <2> QED BY <2>1, <2>2
<1>6. \A q \in Server, r \in Procedure : r \in procNames'[q] => procedures'[q][Opcode[r]] = r
  <2> SUFFICES ASSUME NEW q \in Server, NEW r \in Procedure, r \in procNames'[q]
               PROVE  procedures'[q][Opcode[r]] = r
    OBVIOUS
  <2>1. Opcode[r] \in Codes
    BY DEF Codes
  <2>2. CASE r \in procNames[q]
    <3>1. procedures[q][Opcode[r]] = r /\ r # Unset
      BY <2>2 DEF ClientInv, Slots
    <3> QED BY <1>1, <1>4, <2>1, <3>1
  <2>3. CASE r \notin procNames[q]
    <3>1. q = s /\ r = p
      BY <1>1, <2>3 DEF ClientInv, ClientTypeOK
    <3> QED BY <1>4, <2>1, <3>1
  <2> QED BY <2>2, <2>3
<1>7. ran' = ran
  BY DEF RegisterProcedure, calls
<1>8. ASSUME NEW c \in Call, ran[c] # Unset
      PROVE  /\ ran[c][2] \in Allowed
             /\ procedures'[ran[c][1]][Opcode[Asks[c]]] = ran[c][2]
  <2>1. /\ ran[c][1] \in Server /\ ran[c][2] \in Procedure
        /\ Opcode[Asks[c]] \in Codes
    BY SMT, <1>8 DEF ClientInv, ClientTypeOK, Codes
  <2>2. /\ ran[c][2] \in Allowed /\ ran[c][2] # Unset
        /\ procedures[ran[c][1]][Opcode[Asks[c]]] = ran[c][2]
    BY <1>8, <2>1 DEF ClientInv, Slots
  <2> QED BY <1>1, <1>4, <2>1, <2>2
<1>9. Slots'
  BY <1>5, <1>6, <1>7, <1>8 DEF Slots
<1> QED BY <1>3, <1>9

\* What no call and no registration touches keeps it.
LEMMA LifeKeeps ==
    ASSUME ClientInv,
           StartNode \/ StartDiscovery \/ Discover \/ Ready \/ DiscoverTimeout \/ Close
    PROVE  ClientTypeOK' /\ Slots'
<1>1. UNCHANGED <<picked, addrID, at, been, losses, procedures, procNames, pc, peer, target, ran>>
  BY DEF StartNode, StartDiscovery, Discover, Ready, DiscoverTimeout, Close, server, calls, world
<1>2. Slots'
  BY <1>1 DEF ClientInv, Slots
<1>3. /\ client' \in {"new", "starting", "waiting", "ready", "failed", "closed"}
      /\ node' \in BOOLEAN /\ disc' \in BOOLEAN /\ conns' \subseteq Server
  BY DEF ClientInv, ClientTypeOK, StartNode, StartDiscovery, Discover, Ready,
         DiscoverTimeout, Close, StopAll
<1>4. found' \in 0 .. Len(Peers)
  BY SMT, PeerList
     DEF ClientInv, ClientTypeOK, StartNode, StartDiscovery, Discover, Ready,
         DiscoverTimeout, Close
<1>5. ClientTypeOK'
  BY <1>1, <1>3, <1>4 DEF ClientInv, ClientTypeOK
<1> QED BY <1>2, <1>5

\* Every step of a call keeps it.
LEMMA CallKeeps ==
    ASSUME ClientInv, NEW c \in Call, CallStep(c)
    PROVE  ClientTypeOK' /\ Slots'
<1> USE ClientAssumption
<1>1. /\ UNCHANGED <<client, node, disc, found, at, been, losses, procedures, procNames>>
  BY DEF CallStep, Pick, Memoized, Dial, Memoize, Dispatch, life, server, world
<1>2. CASE Pick(c)
  <2>1. UNCHANGED <<addrID, conns, target, ran>>
    BY <1>2 DEF Pick
  <2>2. CASE found = 0
    <3>1. pc' = [pc EXCEPT ![c] = "error"] /\ UNCHANGED <<picked, peer>>
      BY <1>2, <2>2 DEF Pick, Returns
    <3> QED BY <1>1, <2>1, <3>1 DEF ClientInv, ClientTypeOK, Slots
  <2>3. CASE found # 0
    <3>1. Peers[(picked % found) + 1] \in Address
      <4>1. (picked % found) + 1 \in 1 .. Len(Peers)
        BY SMT, <2>3, PeerList DEF ClientInv, ClientTypeOK
      <4> QED BY <4>1, PeerList
    <3>2. /\ pc' = [pc EXCEPT ![c] = "picked"]
          /\ peer' = [peer EXCEPT ![c] = Peers[(picked % found) + 1]]
          /\ picked' = picked + 1
      BY <1>2, <2>3 DEF Pick, Returns
    <3>3. picked' \in Nat
      BY SMT, <3>2 DEF ClientInv, ClientTypeOK
    <3>4. peer' \in [Call -> Address \cup {Unset}]
      BY <3>1, <3>2 DEF ClientInv, ClientTypeOK
    <3> QED BY <1>1, <2>1, <3>2, <3>3, <3>4 DEF ClientInv, ClientTypeOK, Slots
  <2> QED BY <2>2, <2>3
<1>3. CASE Memoized(c)
  <2>1. /\ pc' = [pc EXCEPT ![c] = "sent"] /\ target' = [target EXCEPT ![c] = addrID[peer[c]]]
        /\ UNCHANGED <<picked, addrID, conns, peer, ran>>
    BY <1>3 DEF Memoized, Returns
  <2>2. addrID[peer[c]] \in Server \cup {Unset}
    BY <1>3 DEF Memoized, ClientInv, ClientTypeOK, Addressed
  <2> QED BY <1>1, <2>1, <2>2 DEF ClientInv, ClientTypeOK, Slots
<1>4. CASE Dial(c)
  <2>1. at[peer[c]] \in Server \cup {Unset} /\ UNCHANGED <<picked, addrID, peer, ran>>
    BY <1>4 DEF Dial, ClientInv, ClientTypeOK, Addressed
  <2>2. CASE at[peer[c]] = Unset
    <3>1. pc' = [pc EXCEPT ![c] = "error"] /\ conns' = conns /\ target' = target
      BY <1>4, <2>2 DEF Dial, Returns
    <3> QED BY <1>1, <2>1, <3>1 DEF ClientInv, ClientTypeOK, Slots
  <2>3. CASE at[peer[c]] # Unset
    <3> DEFINE s == at[peer[c]]
    <3>1. /\ s \in Server
          /\ pc' = [pc EXCEPT ![c] = "dialled"] /\ target' = [target EXCEPT ![c] = s]
          /\ conns' = conns \cup {s}
      BY <1>4, <2>1, <2>3 DEF Dial, Returns
    <3> HIDE DEF s
    <3> QED BY <1>1, <2>1, <3>1 DEF ClientInv, ClientTypeOK, Slots
  <2> QED BY <2>2, <2>3
<1>5. CASE Memoize(c)
  <2>1. /\ pc' = [pc EXCEPT ![c] = "sent"] /\ addrID' = [addrID EXCEPT ![peer[c]] = target[c]]
        /\ UNCHANGED <<picked, conns, peer, target, ran>>
    BY <1>5 DEF Memoize, Returns
  <2>2. addrID' \in [Address -> Server \cup {Unset}]
    BY <2>1 DEF ClientInv, ClientTypeOK
  <2> QED BY <1>1, <2>1, <2>2 DEF ClientInv, ClientTypeOK, Slots
<1>6. CASE Dispatch(c)
  <2>1. UNCHANGED <<picked, addrID, conns, peer, target>>
    BY <1>6 DEF Dispatch
  <2>2. pc' = [pc EXCEPT ![c] = "ran"] \/ pc' = [pc EXCEPT ![c] = "error"]
    BY <1>6 DEF Dispatch, Returns
  <2>3. pc' \in [Call -> {"idle", "picked", "dialled", "sent", "ran", "error"}]
    BY <2>2 DEF ClientInv, ClientTypeOK
  <2>4. CASE ran' = ran
    BY <1>1, <2>1, <2>3, <2>4 DEF ClientInv, ClientTypeOK, Slots
  <2>5. CASE ran' # ran
    <3> DEFINE s == target[c]
               p == procedures[s][Opcode[Asks[c]]]
    <3>1. /\ s \in conns /\ p # Unset /\ p \in Allowed
          /\ ran' = [ran EXCEPT ![c] = <<s, p>>]
      BY <1>6, <2>5 DEF Dispatch, Selected, Verify
    <3>2. s \in Server /\ p \in Procedure
      <4>1. s \in Server /\ Opcode[Asks[c]] \in Codes
        BY <3>1 DEF ClientInv, ClientTypeOK, Codes
      <4>2. procedures \in [Server -> [Codes -> Procedure \cup {Unset}]]
        BY DEF ClientInv, ClientTypeOK
      <4>3. procedures[s] \in [Codes -> Procedure \cup {Unset}]
        BY <4>1, <4>2
      <4>4. procedures[s][Opcode[Asks[c]]] \in Procedure \cup {Unset}
        BY <4>1, <4>3
      <4> QED BY <3>1, <4>1, <4>4
    <3> HIDE DEF s, p
    <3>3. /\ ran'[c] = <<s, p>> /\ <<s, p>> \in Server \X Procedure
          /\ ran'[c][1] = s /\ ran'[c][2] = p
      BY SMT, <3>1, <3>2 DEF ClientInv, ClientTypeOK
    <3>4. ran' \in [Call -> (Server \X Procedure) \cup {Unset}]
      BY <3>1, <3>3 DEF ClientInv, ClientTypeOK
    <3>5. ClientTypeOK'
      BY <1>1, <2>1, <2>3, <3>4 DEF ClientInv, ClientTypeOK
    <3>6. \A d \in Call : d # c => ran'[d] = ran[d]
      BY <3>1 DEF ClientInv, ClientTypeOK
    <3>7. \A d \in Call : ran'[d] # Unset =>
             /\ ran'[d][2] \in Allowed
             /\ procedures'[ran'[d][1]][Opcode[Asks[d]]] = ran'[d][2]
      <4> TAKE d \in Call
      <4>1. CASE d = c
        BY <1>1, <3>1, <3>3, <4>1 DEF p
      <4>2. CASE d # c
        BY <1>1, <3>6, <4>2 DEF ClientInv, Slots
      <4> QED BY <4>1, <4>2
    <3>8. Slots'
      BY <1>1, <3>7 DEF ClientInv, Slots
    <3> QED BY <3>5, <3>8
  <2> QED BY <2>4, <2>5
<1> QED BY <1>2, <1>3, <1>4, <1>5, <1>6 DEF CallStep

\* A call that has been made keeps what it was addressed to.
LEMMA CallAddressed ==
    ASSUME ClientInv, NEW c \in Call, CallStep(c)
    PROVE  Addressed'
<1>0. \A a \in Address : addrID[a] # Unset => addrID[a] \in been[a]
  BY DEF ClientInv, Addressed
<1>1. UNCHANGED <<at, been>>
  BY DEF CallStep, Pick, Memoized, Dial, Memoize, Dispatch, world
<1>2. ASSUME NEW d \in Call, d # c
      PROVE  pc'[d] = pc[d] /\ peer'[d] = peer[d] /\ target'[d] = target[d] /\ ran'[d] = ran[d]
  <2>1. /\ peer' = peer \/ \E x : peer' = [peer EXCEPT ![c] = x]
        /\ target' = target \/ \E x : target' = [target EXCEPT ![c] = x]
        /\ ran' = ran \/ \E x : ran' = [ran EXCEPT ![c] = x]
        /\ \E x : pc' = [pc EXCEPT ![c] = x]
    BY DEF CallStep, Pick, Memoized, Dial, Memoize, Dispatch, Returns
  <2>2. ASSUME NEW S, NEW g \in [Call -> S], NEW h, h = g \/ \E x : h = [g EXCEPT ![c] = x]
        PROVE  h[d] = g[d]
    BY <1>2, <2>2
  <2>3. peer'[d] = peer[d] /\ target'[d] = target[d]
    BY <2>1, <2>2 DEF ClientInv, ClientTypeOK
  <2>4. ran'[d] = ran[d]
    BY <2>1, <2>2 DEF ClientInv, ClientTypeOK
  <2>5. pc'[d] = pc[d]
    BY <1>2, <2>1 DEF ClientInv, ClientTypeOK
  <2> QED BY <2>3, <2>4, <2>5
<1> USE DEF ClientInv, ClientTypeOK
<1>3. ASSUME \A a \in Address : addrID'[a] # Unset => addrID'[a] \in been[a],
             pc'[c] \in {"picked", "dialled", "sent", "ran"} => peer'[c] \in Address,
             pc'[c] \in {"dialled", "sent", "ran"} => target'[c] \in been[peer'[c]],
             ran'[c] # Unset => pc'[c] = "ran" /\ ran'[c][1] = target'[c]
      PROVE  Addressed'
  <2>1. ASSUME NEW d \in Call, d # c
        PROVE  /\ pc'[d] \in {"picked", "dialled", "sent", "ran"} => peer'[d] \in Address
               /\ pc'[d] \in {"dialled", "sent", "ran"} => target'[d] \in been[peer'[d]]
               /\ ran'[d] # Unset => pc'[d] = "ran" /\ ran'[d][1] = target'[d]
    BY <1>2, <2>1 DEF Addressed
  <2> HIDE DEF ClientInv, ClientTypeOK
  <2>2. \A a \in Address : at[a] # Unset => at[a] \in been[a]
    BY DEF ClientInv, Addressed
  <2> QED BY <1>1, <1>3, <2>1, <2>2 DEF Addressed
<1> HIDE DEF ClientInv, ClientTypeOK
<1>4. CASE Pick(c)
  <2>1. UNCHANGED <<addrID, ran>> /\ pc[c] = "idle"
    BY <1>4 DEF Pick
  <2>2. ran'[c] = Unset
    BY <2>1 DEF ClientInv, Addressed
  <2>3. CASE found = 0
    <3>1. pc'[c] = "error"
      BY <1>4, <2>3 DEF Pick, Returns, ClientInv, ClientTypeOK
    <3> QED BY <1>0, <1>3, <2>1, <2>2, <3>1
  <2>4. CASE found # 0
    <3>1. (picked % found) + 1 \in 1 .. Len(Peers)
      BY SMT, <2>4, PeerList DEF ClientInv, ClientTypeOK
    <3>2. pc'[c] = "picked" /\ peer'[c] = Peers[(picked % found) + 1]
      BY <1>4, <2>4 DEF Pick, Returns, ClientInv, ClientTypeOK
    <3> QED BY <1>0, <1>3, <2>1, <2>2, <3>1, <3>2, PeerList
  <2> QED BY <2>3, <2>4
<1>5. CASE Memoized(c)
  <2>1. /\ UNCHANGED <<addrID, peer, ran>> /\ pc[c] = "picked" /\ pc'[c] = "sent"
        /\ addrID[peer[c]] # Unset /\ target'[c] = addrID[peer[c]]
    BY <1>5 DEF Memoized, Returns, ClientInv, ClientTypeOK
  <2>2. peer[c] \in Address /\ ran[c] = Unset
    BY <2>1 DEF ClientInv, Addressed
  <2>3. addrID[peer[c]] \in been[peer[c]]
    BY <1>0, <2>1, <2>2
  <2> QED BY <1>0, <1>3, <2>1, <2>2, <2>3
<1>6. CASE Dial(c)
  <2>1. UNCHANGED <<addrID, peer, ran>> /\ pc[c] = "picked"
    BY <1>6 DEF Dial
  <2>2. peer[c] \in Address /\ ran[c] = Unset
    BY <2>1 DEF ClientInv, Addressed
  <2>3. pc'[c] = "error" \/ (pc'[c] = "dialled" /\ at[peer[c]] # Unset /\ target'[c] = at[peer[c]])
    BY <1>6 DEF Dial, Returns, ClientInv, ClientTypeOK
  <2>4. at[peer[c]] # Unset => at[peer[c]] \in been[peer[c]]
    BY <2>2 DEF ClientInv, Addressed
  <2> QED BY <1>0, <1>3, <2>1, <2>2, <2>3, <2>4
<1>7. CASE Memoize(c)
  <2>1. /\ UNCHANGED <<peer, target, ran>> /\ pc[c] = "dialled" /\ pc'[c] = "sent"
        /\ addrID' = [addrID EXCEPT ![peer[c]] = target[c]]
    BY <1>7 DEF Memoize, Returns, ClientInv, ClientTypeOK
  <2>2. peer[c] \in Address /\ ran[c] = Unset /\ target[c] \in been[peer[c]]
    BY <2>1 DEF ClientInv, Addressed
  <2>3. \A a \in Address : addrID'[a] # Unset => addrID'[a] \in been[a]
    BY <1>0, <2>1, <2>2 DEF ClientInv, ClientTypeOK
  <2> QED BY <1>3, <2>1, <2>2, <2>3
<1>8. CASE Dispatch(c)
  <2>1. UNCHANGED <<addrID, peer, target>> /\ pc[c] = "sent"
    BY <1>8 DEF Dispatch
  <2>2. peer[c] \in Address /\ ran[c] = Unset /\ target[c] \in been[peer[c]]
    BY <2>1 DEF ClientInv, Addressed
  <2>3. \/ pc'[c] = "error" /\ ran'[c] = Unset
        \/ pc'[c] = "ran" /\ ran'[c] = <<target[c], Selected(c)>>
    BY <1>8, <2>2 DEF Dispatch, Returns, ClientInv, ClientTypeOK
  <2>4. ran'[c] # Unset => pc'[c] = "ran" /\ ran'[c][1] = target'[c]
    BY SMT, <2>1, <2>3
  <2> QED BY <1>0, <1>3, <2>1, <2>2, <2>3, <2>4
<1> QED BY <1>4, <1>5, <1>6, <1>7, <1>8 DEF CallStep

\* Every step keeps the invariant.
LEMMA ClientStepInv == ClientInv /\ [ClientNext]_clientVars => ClientInv'
<1> SUFFICES ASSUME ClientInv, [ClientNext]_clientVars PROVE ClientInv'
  OBVIOUS
<1>1. ASSUME NEW a \in Address, Lose(a) PROVE ClientInv'
  <2>1. PICK s \in {Unset} \cup Server :
           /\ at' = [at EXCEPT ![a] = s]
           /\ been' = [been EXCEPT ![a] = @ \cup ({s} \ {Unset})]
    BY <1>1 DEF Lose
  <2>2. /\ UNCHANGED <<client, node, disc, found, picked, addrID, procedures, procNames, pc,
                       peer, target, ran>>
        /\ conns' \subseteq conns
    BY <1>1 DEF Lose, life, server, calls
  <2>3. losses' \in 0 .. MaxLosses
    BY SMT, <1>1, ClientAssumption DEF Lose, ClientInv, ClientTypeOK
  <2>4. at' \in [Address -> Server \cup {Unset}] /\ been' \in [Address -> SUBSET Server]
    BY SMT, <2>1 DEF ClientInv, ClientTypeOK
  <2>5. ClientTypeOK'
    BY <2>2, <2>3, <2>4 DEF ClientInv, ClientTypeOK
  <2>6. Slots'
    BY <2>2 DEF ClientInv, Slots
  <2>7. /\ \A x \in Address : been[x] \subseteq been'[x]
        /\ \A x \in Address : at'[x] # Unset => at'[x] = at[x] \/ at'[x] \in been'[x]
    BY SMT, <2>1 DEF ClientInv, ClientTypeOK
  <2>8. Addressed'
    BY <2>2, <2>7 DEF ClientInv, Addressed
  <2> QED BY <2>5, <2>6, <2>8 DEF ClientInv
<1>2. ASSUME UNCHANGED <<at, been, addrID, calls>> PROVE Addressed'
  BY <1>2 DEF ClientInv, Addressed, calls
<1>3. ASSUME NEW s \in Server, Drop(s) PROVE ClientInv'
  <2>1. UNCHANGED <<at, been, addrID, calls>>
    BY <1>3 DEF Drop, world
  <2>2. ClientTypeOK' /\ Slots'
    BY <1>3 DEF Drop, life, world, server, calls, ClientInv, ClientTypeOK, Slots
  <2> QED BY <1>2, <2>1, <2>2 DEF ClientInv
<1>4. ASSUME NEW s \in Server, NEW p \in Procedure, RegisterProcedure(s, p) PROVE ClientInv'
  <2>1. UNCHANGED <<at, been, addrID, calls>>
    BY <1>4 DEF RegisterProcedure, world
  <2> QED BY <1>2, <1>4, <2>1, RegisterKeeps DEF ClientInv
<1>5. ASSUME StartNode \/ StartDiscovery \/ Discover \/ Ready \/ DiscoverTimeout \/ Close
      PROVE  ClientInv'
  <2>1. UNCHANGED <<at, been, addrID, calls>>
    BY <1>5 DEF StartNode, StartDiscovery, Discover, Ready, DiscoverTimeout, Close, world
  <2> QED BY <1>2, <1>5, <2>1, LifeKeeps DEF ClientInv
<1>6. ASSUME NEW c \in Call, CallStep(c) PROVE ClientInv'
  BY <1>6, CallKeeps, CallAddressed DEF ClientInv
<1>7. CASE UNCHANGED clientVars
  BY <1>2, <1>7 DEF clientVars, world, calls, ClientInv, ClientTypeOK, Slots
<1> QED BY <1>1, <1>3, <1>4, <1>5, <1>6, <1>7 DEF ClientNext

\* The variables of the client and its servers keep their types.
THEOREM ClientTyped == ClientSpec => []ClientTypeOK
<1>1. ClientInv => ClientTypeOK
  BY DEF ClientInv
<1> QED BY <1>1, ClientInitInv, ClientStepInv, PTL DEF ClientSpec

\* For any procedures and opcodes, servers and calls: no call runs a procedure the
\* verifier refuses, and a server that has the procedure asked for (Register) runs
\* that one, although opcodes have eight bits; and it runs at a server that has
\* listened at the address picked for the call, although addresses change hands,
\* memos go stale and calls dial concurrently.
THEOREM OwnProcedure == ClientSpec => []RunsOwnProcedure
<1>1. ClientInv => RunsOwnProcedure
  <2> SUFFICES ASSUME ClientInv, NEW c \in Call, ran[c] # Unset
               PROVE  /\ ran[c][2] \in Allowed
                      /\ Opcode[ran[c][2]] = Opcode[Asks[c]]
                      /\ Asks[c] \in procNames[ran[c][1]] => ran[c][2] = Asks[c]
                      /\ ran[c][1] \in been[peer[c]]
    BY DEF RunsOwnProcedure
  <2>1. /\ ran[c][1] \in Server /\ ran[c][2] \in Procedure /\ Asks[c] \in Procedure
        /\ Opcode[Asks[c]] \in Codes
    BY SMT, ClientAssumption DEF ClientInv, ClientTypeOK, Codes
  <2>2. ran[c][2] # Unset
    BY <2>1, ClientAssumption
  <2>3. ran[c][1] \in been[peer[c]]
    BY DEF ClientInv, Addressed
  <2> QED BY ZenonT(60), <2>1, <2>2, <2>3 DEF ClientInv, Slots
<1> QED BY <1>1, ClientInitInv, ClientStepInv, PTL DEF ClientSpec

-------------------------------------------------------------------------------
(* The router *)

\* The newcomer's place while Register sorts, and the interface at a place; the
\* one a swap has in hand lies where its second store will put it.
Newcomer == IF tmp = None THEN sorting ELSE sorting - 1
Item(k) == IF tmp # None /\ k = sorting - 1 THEN tmp ELSE Slot(k)

\* The slice lies in the last array and the lock is held while it is sorted.
TableTypes ==
    /\ arrays \in Seq(Seq(Iface \cup {None})) /\ arrays # <<>>
    /\ order \in Seq(Iface) /\ len = Len(order) /\ len <= Len(arrays[Current])
    /\ sorting \in 0 .. len /\ tmp \in Iface \cup {None}
    /\ tmp # None => sorting > 1

\* Nobody is lost; those that were there are in order; the newcomer, the last to
\* be registered, costs less than all it has passed.
Insertion ==
    /\ \A k \in 1 .. len : Item(k) \in Registered
    /\ \A i \in Registered : \E k \in 1 .. len : Item(k) = i
    /\ \A a, b \in 1 .. len :
          a < b /\ a # Newcomer /\ b # Newcomer => Precedes(Item(a), Item(b))
    /\ sorting > 0 =>
          /\ Item(Newcomer) = order[len]
          /\ \A b \in Newcomer + 1 .. len : Cost[order[len]] < Cost[Item(b)]
          /\ \A a \in 1 .. len : a # Newcomer =>
                \E k \in 1 .. len - 1 : order[k] = Item(a)

RouterInv == TableTypes /\ Insertion

\* An empty table satisfies the invariant.
LEMMA RouterInitInv == Init => RouterInv
<1> SUFFICES ASSUME Init PROVE RouterInv
  OBVIOUS
<1>1. /\ arrays = << <<>> >> /\ order = <<>> /\ len = 0 /\ sorting = 0 /\ tmp = None
  BY DEF Init
<1>2. TableTypes
  BY SMT, <1>1 DEF TableTypes, Current
<1>3. Registered = {} /\ 1 .. len = {}
  BY SMT, <1>1 DEF Registered
<1> QED BY <1>1, <1>2, <1>3, SMT DEF RouterInv, Insertion

\* The last array, and what a store into it changes.
LEMMA CurrentArray ==
    ASSUME TableTypes
    PROVE  /\ Current \in 1 .. Len(arrays) /\ len \in Nat
           /\ arrays[Current] \in Seq(Iface \cup {None})
           /\ \A k \in 1 .. len : k \in DOMAIN arrays[Current] /\ Slot(k) \in Iface \cup {None}
<1>1. /\ Current \in 1 .. Len(arrays) /\ len \in Nat
      /\ arrays[Current] \in Seq(Iface \cup {None})
  BY SMT DEF TableTypes, Current
<1> QED BY SMT, <1>1 DEF TableTypes, Slot

LEMMA StoreInto ==
    ASSUME TableTypes, NEW k \in 1 .. Len(arrays[Current]), NEW i \in Iface \cup {None},
           Store(k, i)
    PROVE  /\ arrays' \in Seq(Seq(Iface \cup {None})) /\ Len(arrays') = Len(arrays)
           /\ Current' = Current /\ Len(arrays'[Current]) = Len(arrays[Current])
           /\ \A x \in 1 .. Len(arrays[Current]) : Slot(x)' = IF x = k THEN i ELSE Slot(x)
<1> DEFINE c == Current
           new == [arrays[c] EXCEPT ![k] = i]
<1>1. /\ c \in 1 .. Len(arrays) /\ k \in 1 .. Len(arrays[c])
      /\ arrays[c] \in Seq(Iface \cup {None}) /\ arrays \in Seq(Seq(Iface \cup {None}))
  BY CurrentArray DEF TableTypes
<1>2. arrays' = [arrays EXCEPT ![c] = new]
  BY DEF Store
<1> HIDE DEF c
<1>3. /\ new \in Seq(Iface \cup {None}) /\ Len(new) = Len(arrays[c])
      /\ \A x \in 1 .. Len(arrays[c]) : new[x] = IF x = k THEN i ELSE arrays[c][x]
  BY SMT, <1>1
<1> HIDE DEF new
<1>4. arrays' \in Seq(Seq(Iface \cup {None})) /\ Len(arrays') = Len(arrays) /\ arrays'[c] = new
  BY SMT, <1>1, <1>2, <1>3
<1>5. Current' = c
  BY <1>4 DEF Current, c
<1> QED BY <1>3, <1>4, <1>5 DEF Slot, c

\* Registering a newcomer keeps the order of the others.
LEMMA PrecedesKept ==
    ASSUME order \in Seq(Iface), NEW x \in Iface, order' = Append(order, x)
    PROVE  \A i, j : Precedes(i, j) => Precedes(i, j)'
<1> SUFFICES ASSUME NEW i, NEW j, Precedes(i, j) PROVE Precedes(i, j)'
  OBVIOUS
<1>1. /\ Len(order') = Len(order) + 1 /\ Len(order) \in Nat
      /\ \A k \in 1 .. Len(order) : order'[k] = order[k]
  BY SMT
<1>2. CASE Cost[i] < Cost[j]
  BY <1>2 DEF Precedes
<1>3. ASSUME Cost[i] = Cost[j], NEW a \in 1 .. Len(order), NEW b \in 1 .. Len(order),
             a < b, order[a] = i, order[b] = j
      PROVE  Precedes(i, j)'
  <2>1. a \in 1 .. Len(order') /\ b \in 1 .. Len(order')
    BY SMT, <1>1
  <2> QED BY <1>1, <1>3, <2>1 DEF Precedes
<1> QED BY <1>2, <1>3 DEF Precedes

\* What Register begins with: the newcomer is last, the others are as they were.
LEMMA RegisterKeepsTable ==
    ASSUME RouterInv, NEW i \in Iface, Register(i)
    PROVE  RouterInv'
<1> USE RouterAssumption
<1> DEFINE cap == Len(arrays[Current])
           T == Iface \cup {None}
<1>1. /\ arrays \in Seq(Seq(T)) /\ Current \in 1 .. Len(arrays) /\ arrays[Current] \in Seq(T)
      /\ order \in Seq(Iface) /\ len = Len(order) /\ len <= cap /\ len \in Nat /\ cap \in Nat
      /\ \A k \in 1 .. len : k \in DOMAIN arrays[Current] /\ Slot(k) \in T
  BY SMTT(30), CurrentArray DEF RouterInv, TableTypes
<1>2. /\ sorting = 0 /\ tmp = None /\ tmp' = None /\ len' = len + 1
      /\ order' = Append(order, i) /\ sorting' = len + 1
  BY SMT DEF Register, RouterInv, TableTypes
<1>3. /\ arrays' \in Seq(Seq(T)) /\ arrays' # <<>> /\ len + 1 <= Len(arrays'[Current'])
      /\ \A k \in 1 .. len + 1 : Slot(k)' = IF k = len + 1 THEN i ELSE Slot(k)
  <2>1. CASE len < cap /\ Store(len + 1, i)
    <3>1. len + 1 \in 1 .. cap
      BY SMT, <1>1, <2>1
    <3>2. /\ arrays' \in Seq(Seq(T)) /\ Len(arrays') = Len(arrays)
          /\ Current' = Current /\ Len(arrays'[Current]) = cap
          /\ \A x \in 1 .. cap : Slot(x)' = IF x = len + 1 THEN i ELSE Slot(x)
      BY <2>1, <3>1, StoreInto DEF RouterInv
    <3>3. arrays' # <<>>
      BY SMT, <1>1, <3>2
    <3>4. \A k \in 1 .. len + 1 : k \in 1 .. cap
      BY SMTT(30), <1>1, <3>1
    <3>5. len + 1 <= Len(arrays'[Current'])
      BY SMT, <1>1, <3>1, <3>2
    <3> QED BY <3>2, <3>3, <3>4, <3>5
  <2>2. CASE /\ len = cap
             /\ arrays' = Append(arrays, [k \in 1 .. Grown(cap) |->
                             IF k <= len THEN Slot(k)
                             ELSE IF k = len + 1 THEN i ELSE None])
    <3> DEFINE new == [k \in 1 .. Grown(cap) |->
                          IF k <= len THEN Slot(k) ELSE IF k = len + 1 THEN i ELSE None]
    <3>1. Grown(cap) \in Nat /\ len + 1 <= Grown(cap)
      BY SMTT(30), <1>1, <2>2 DEF Grown
    <3>2. \A k \in 1 .. Grown(cap) : new[k] \in T
      BY SMT, <1>1
    <3>3. new \in Seq(T) /\ Len(new) = Grown(cap)
      BY SMT, <3>1, <3>2
    <3>4. \A k \in 1 .. len + 1 : new[k] = IF k = len + 1 THEN i ELSE Slot(k)
      BY SMTT(30), <1>1, <3>1
    <3> HIDE DEF new
    <3>5. arrays' = Append(arrays, new)
      BY <2>2 DEF new
    <3> HIDE DEF T
    <3>6. /\ arrays' \in Seq(Seq(T)) /\ Len(arrays') = Len(arrays) + 1
          /\ arrays'[Len(arrays) + 1] = new
      BY SMT, <1>1, <3>3, <3>5
    <3>7. arrays' # <<>>
      BY SMT, <1>1, <3>6
    <3>8. Current' = Len(arrays) + 1
      BY <3>6 DEF Current
    <3>9. \A k : Slot(k)' = new[k]
      BY <3>6, <3>8 DEF Slot
    <3> QED BY <3>1, <3>3, <3>4, <3>6, <3>7, <3>8, <3>9
  <2> QED BY <2>1, <2>2 DEF Register
<1>4. /\ order' \in Seq(Iface) /\ Len(order') = len + 1 /\ order'[len + 1] = i
      /\ \A k \in 1 .. len : order'[k] = order[k]
  BY SMT, <1>1, <1>2
<1>16. len \in Nat /\ len = Len(order) /\ Len(order') = len + 1 /\ len' = len + 1
  BY <1>1, <1>2, <1>4
<1>5. TableTypes'
  BY SMT, <1>1, <1>2, <1>3, <1>4 DEF TableTypes
<1>6. /\ Newcomer' = len + 1 /\ \A k : Item(k)' = Slot(k)' /\ Item(k) = Slot(k)
  BY <1>2 DEF Newcomer, Item
<1>7. Registered' = Registered \cup {i}
  <2>1. \A k : k \in 1 .. Len(order') <=> k \in 1 .. Len(order) \/ k = len + 1
    <3> SUFFICES ASSUME NEW k
                 PROVE  k \in 1 .. len + 1 <=> k \in 1 .. len \/ k = len + 1
      BY <1>16
    <3> QED BY SMT, <1>16
  <2> QED BY <1>1, <1>4, <2>1 DEF Registered
<1>8. \A k \in 1 .. len' : k = len + 1 \/ (k \in 1 .. len /\ k # len + 1)
  <2> SUFFICES ASSUME NEW k \in 1 .. len + 1
               PROVE  k = len + 1 \/ (k \in 1 .. len /\ k # len + 1)
    BY <1>16
  <2> QED BY SMT, <1>16
<1>9. /\ len + 1 \in 1 .. len'
      /\ \A k \in 1 .. len : k \in 1 .. len' /\ k # len + 1
      /\ \A k \in 1 .. len' : k \in 1 .. len + 1
  BY SMTT(30), <1>1, <1>2
<1>0. /\ \A k : k = len + 1 => Item(k)' = i
      /\ \A k \in 1 .. len : Item(k)' = Slot(k) /\ Slot(k) \in Registered
      /\ \A j \in Registered : \E k \in 1 .. len : Slot(k) = j
  BY <1>3, <1>6, <1>9 DEF RouterInv, Insertion
<1>10. \A k \in 1 .. len' : Item(k)' \in Registered'
  BY <1>0, <1>7, <1>8
<1>11. \A j \in Registered' : \E k \in 1 .. len' : Item(k)' = j
  BY <1>0, <1>7, <1>9
<1>12. \A a, b \in 1 .. len' :
          a < b /\ a # Newcomer' /\ b # Newcomer' => Precedes(Item(a), Item(b))'
  <2> SUFFICES ASSUME NEW a \in 1 .. len', NEW b \in 1 .. len',
                      a < b, a # Newcomer', b # Newcomer'
               PROVE  Precedes(Item(a), Item(b))'
    OBVIOUS
  <2>1. a \in 1 .. len /\ b \in 1 .. len /\ a # Newcomer /\ b # Newcomer
    <3>1. Newcomer = 0
      BY <1>2 DEF Newcomer
    <3>2. a \in 1 .. len /\ b \in 1 .. len
      BY <1>6, <1>8
    <3> QED BY SMT, <1>16, <3>1, <3>2
  <2>2. Precedes(Slot(a), Slot(b))
    BY <1>6, <2>1 DEF RouterInv, Insertion
  <2>3. Item(a)' = Slot(a) /\ Item(b)' = Slot(b)
    BY <1>0, <2>1
  <2>4. PICK x, y : x = Slot(a) /\ y = Slot(b)
    OBVIOUS
  <2>5. Precedes(x, y)
    BY <2>2, <2>4 DEF Precedes
  <2>6. Precedes(x, y)'
    BY <1>1, <1>2, <2>5, PrecedesKept
  <2> QED BY <2>3, <2>4, <2>6 DEF Precedes
<1>13. \A b \in Newcomer' + 1 .. len' : FALSE
  BY SMT, <1>1, <1>2, <1>6
<1>14. \A a \in 1 .. len' : a # Newcomer' => \E k \in 1 .. len' - 1 : order'[k] = Item(a)'
  <2> SUFFICES ASSUME NEW a \in 1 .. len PROVE \E k \in 1 .. len : order'[k] = Item(a)'
    <3>1. 1 .. len' - 1 = 1 .. len
      BY SMT, <1>16
    <3> QED BY <1>6, <1>8, <3>1
  <2>1. Slot(a) \in Registered /\ Item(a)' = Slot(a)
    BY <1>0
  <2> QED BY <1>1, <1>4, <2>1 DEF Registered
<1>15. Item(Newcomer)' = order'[len']
  BY <1>0, <1>2, <1>4, <1>6 DEF Item
<1> QED BY <1>5, <1>10, <1>11, <1>12, <1>13, <1>14, <1>15 DEF RouterInv, Insertion

\* A swap's first store takes the newcomer in hand and its left neighbour to the
\* right: between them, the newcomer has passed it.
LEMMA SwapFirstKeepsTable ==
    ASSUME RouterInv, SwapFirst
    PROVE  RouterInv'
<1> USE RouterAssumption
<1> DEFINE T == Iface \cup {None}
           p == sorting
<1>1. /\ p \in 2 .. len /\ p - 1 \in 1 .. len /\ p - 1 # p /\ tmp = None
      /\ len \in Nat /\ order \in Seq(Iface) /\ len = Len(order)
      /\ Cost[Slot(p)] < Cost[Slot(p - 1)]
  BY SMT DEF SwapFirst, MustSwap, Less, RouterInv, TableTypes
<1>2. /\ tmp' = Slot(p) /\ Store(p, Slot(p - 1))
      /\ len' = len /\ order' = order /\ sorting' = p
  BY DEF SwapFirst
<1>3. /\ Newcomer = p /\ \A k : Item(k) = Slot(k)
  BY <1>1 DEF Newcomer, Item
<1>4. /\ Slot(p) = order[len] /\ \A b \in p + 1 .. len : Cost[order[len]] < Cost[Slot(b)]
      /\ \A a \in 1 .. len : a # p => \E k \in 1 .. len - 1 : order[k] = Slot(a)
      /\ \A a, b \in 1 .. len : a < b /\ a # p /\ b # p => Precedes(Slot(a), Slot(b))
      /\ \A k \in 1 .. len : Slot(k) \in Registered
      /\ \A i \in Registered : \E k \in 1 .. len : Slot(k) = i
  <2>1. sorting > 0 /\ p \in 1 .. len
    BY SMT, <1>1
  <2> QED BY <1>3, <2>1 DEF RouterInv, Insertion
<1>5. Registered \subseteq Iface /\ Registered' = Registered
  <2>1. \A k \in 1 .. Len(order) : order[k] \in Iface
    BY SMT, <1>1
  <2> QED BY <1>2, <2>1 DEF Registered
<1>6. /\ Current \in 1 .. Len(arrays) /\ arrays[Current] \in Seq(T) /\ len <= Len(arrays[Current])
      /\ \A k \in 1 .. len : k \in 1 .. Len(arrays[Current])
  BY SMTT(30), <1>1, CurrentArray DEF RouterInv, TableTypes
<1>7. /\ p \in 1 .. len /\ p \in 1 .. Len(arrays[Current])
      /\ Slot(p - 1) \in T /\ Slot(p) \in Iface
  <2>1. p \in 1 .. len
    BY SMT, <1>1
  <2> QED BY <1>1, <1>4, <1>5, <1>6, <2>1
<1>8. /\ arrays' \in Seq(Seq(T)) /\ Len(arrays') = Len(arrays) /\ Current' = Current
      /\ Len(arrays'[Current]) = Len(arrays[Current])
      /\ \A x \in 1 .. Len(arrays[Current]) : Slot(x)' = IF x = p THEN Slot(p - 1) ELSE Slot(x)
  BY <1>2, <1>7, StoreInto DEF RouterInv
<1>9. tmp' # None
  BY <1>2, <1>7
<1>10. TableTypes'
  <2>1. arrays' # <<>>
    BY SMT, <1>6, <1>8
  <2>2. sorting' \in 0 .. len' /\ sorting' > 1
    BY SMT, <1>1, <1>2
  <2>3. len' <= Len(arrays'[Current'])
    BY <1>2, <1>6, <1>8
  <2> QED BY <1>1, <1>2, <1>7, <1>8, <2>1, <2>2, <2>3 DEF TableTypes
<1>11. /\ Newcomer' = p - 1
       /\ \A k \in 1 .. len :
             Item(k)' = IF k = p - 1 THEN Slot(p) ELSE IF k = p THEN Slot(p - 1) ELSE Slot(k)
  BY <1>2, <1>6, <1>8, <1>9 DEF Newcomer, Item
<1> DEFINE Was(k) == IF k = p - 1 THEN p ELSE IF k = p THEN p - 1 ELSE k
<1>12. \A k \in 1 .. len : Was(k) \in 1 .. len /\ Item(k)' = Slot(Was(k)) /\ Was(Was(k)) = k
  BY <1>1, <1>7, <1>11
<1>13. \A k \in 1 .. len : k # p - 1 <=> Was(k) # p
  BY <1>1
<1>14. \A a, b \in 1 .. len : a < b /\ a # p - 1 /\ b # p - 1 => Was(a) < Was(b)
  BY SMTT(30), <1>1
<1> HIDE DEF Was
<1>15. \A k \in 1 .. len' : Item(k)' \in Registered'
  BY <1>2, <1>4, <1>5, <1>12
<1>16. \A i \in Registered' : \E k \in 1 .. len' : Item(k)' = i
  <2> SUFFICES ASSUME NEW i \in Registered PROVE \E k \in 1 .. len : Item(k)' = i
    BY <1>2, <1>5
  <2>1. PICK k \in 1 .. len : Slot(k) = i
    BY <1>4
  <2>2. PICK x : x = Was(k)
    OBVIOUS
  <2>3. x \in 1 .. len /\ Item(x)' = Slot(Was(x)) /\ Was(x) = k
    BY <1>12, <2>2
  <2> QED BY <2>1, <2>3
<1>17. \A a, b \in 1 .. len' :
          a < b /\ a # Newcomer' /\ b # Newcomer' => Precedes(Item(a), Item(b))'
  <2> SUFFICES ASSUME NEW a \in 1 .. len, NEW b \in 1 .. len, a < b, a # p - 1, b # p - 1
               PROVE  Precedes(Item(a), Item(b))'
    BY <1>2, <1>11
  <2>1. Precedes(Slot(Was(a)), Slot(Was(b)))
    BY <1>4, <1>12, <1>13, <1>14
  <2> QED BY <1>2, <1>12, <2>1 DEF Precedes
<1>18. Item(Newcomer)' = order'[len']
  BY <1>1, <1>2, <1>4, <1>11 DEF Item
<1>19. \A b \in Newcomer' + 1 .. len' : Cost[order'[len']] < Cost[Item(b)']
  <2> SUFFICES ASSUME NEW b \in p .. len PROVE Cost[order[len]] < Cost[Item(b)']
    <3>1. Newcomer' + 1 = p
      BY SMT, <1>1, <1>11
    <3> QED BY <1>2, <3>1
  <2>1. CASE b = p
    BY <1>1, <1>4, <1>7, <1>11, <2>1
  <2>2. CASE b # p
    <3>1. b \in p + 1 .. len /\ b \in 1 .. len /\ b # p - 1
      BY SMT, <1>1, <2>2
    <3> QED BY <1>4, <1>11, <2>2, <3>1
  <2> QED BY <2>1, <2>2
<1>20. \A a \in 1 .. len' : a # Newcomer' => \E k \in 1 .. len' - 1 : order'[k] = Item(a)'
  <2> SUFFICES ASSUME NEW a \in 1 .. len, a # p - 1
               PROVE  \E k \in 1 .. len - 1 : order[k] = Item(a)'
    BY <1>2, <1>11
  <2>1. Was(a) \in 1 .. len /\ Was(a) # p /\ Item(a)' = Slot(Was(a))
    BY <1>12, <1>13
  <2> QED BY <1>4, <2>1
<1> QED BY <1>10, <1>15, <1>16, <1>17, <1>18, <1>19, <1>20 DEF RouterInv, Insertion

\* A swap's second store only puts down what was in hand.
LEMMA SwapSecondKeepsTable ==
    ASSUME RouterInv, SwapSecond
    PROVE  RouterInv'
<1> USE RouterAssumption
<1> DEFINE T == Iface \cup {None}
           p == sorting
<1>1. /\ p \in 2 .. len /\ p - 1 \in 1 .. len /\ p > 0 /\ tmp \in Iface /\ tmp # None
      /\ len \in Nat /\ order \in Seq(Iface) /\ len = Len(order)
  BY SMT DEF SwapSecond, RouterInv, TableTypes
<1>2. /\ tmp' = None /\ Store(p - 1, tmp)
      /\ len' = len /\ order' = order /\ sorting' = p - 1 /\ sorting' > 0
  <2>1. p - 1 > 0
    BY SMT, <1>1
  <2> QED BY <2>1 DEF SwapSecond
<1>3. /\ Current \in 1 .. Len(arrays) /\ len <= Len(arrays[Current])
      /\ \A k \in 1 .. len : k \in 1 .. Len(arrays[Current])
  <2>1. /\ Current \in 1 .. Len(arrays) /\ arrays[Current] \in Seq(T) /\ len <= Len(arrays[Current])
    BY CurrentArray DEF RouterInv, TableTypes
  <2>2. Len(arrays[Current]) \in Nat
    BY SMT, <2>1
  <2> QED BY SMTT(30), <1>1, <2>1, <2>2
<1>4. p - 1 \in 1 .. Len(arrays[Current]) /\ tmp \in T
  BY <1>1, <1>3
<1>5. /\ arrays' \in Seq(Seq(T)) /\ Len(arrays') = Len(arrays) /\ Current' = Current
      /\ Len(arrays'[Current]) = Len(arrays[Current])
      /\ \A x \in 1 .. Len(arrays[Current]) : Slot(x)' = IF x = p - 1 THEN tmp ELSE Slot(x)
  BY <1>2, <1>4, StoreInto DEF RouterInv
<1>6. Newcomer' = Newcomer /\ \A k \in 1 .. len : Item(k)' = Item(k)
  BY <1>1, <1>2, <1>3, <1>5 DEF Newcomer, Item
<1>7. Newcomer \in 1 .. len /\ Newcomer + 1 \in 2 .. len
  BY SMT, <1>1 DEF Newcomer
<1>8. \A b \in Newcomer + 1 .. len : b \in 1 .. len
  BY SMT, <1>1, <1>7
<1>9. TableTypes'
  <2>1. arrays' # <<>>
    BY SMT, <1>3, <1>5
  <2>2. sorting' \in 0 .. len'
    BY SMT, <1>1, <1>2
  <2>3. len' <= Len(arrays'[Current'])
    BY <1>2, <1>3, <1>5
  <2> QED BY <1>1, <1>2, <1>5, <2>1, <2>2, <2>3 DEF TableTypes
<1>10. Registered' = Registered
  BY <1>2 DEF Registered
<1>11. \A k \in 1 .. len' : Item(k)' \in Registered'
  BY <1>2, <1>6, <1>10 DEF RouterInv, Insertion
<1>12. \A i \in Registered' : \E k \in 1 .. len' : Item(k)' = i
  BY <1>2, <1>6, <1>10 DEF RouterInv, Insertion
<1>13. \A a, b \in 1 .. len' :
          a < b /\ a # Newcomer' /\ b # Newcomer' => Precedes(Item(a), Item(b))'
  <2> SUFFICES ASSUME NEW a \in 1 .. len, NEW b \in 1 .. len,
                      a < b, a # Newcomer, b # Newcomer
               PROVE  Precedes(Item(a), Item(b))'
    BY <1>2, <1>6
  <2>1. Precedes(Item(a), Item(b))
    BY DEF RouterInv, Insertion
  <2> QED BY <1>2, <1>6, <2>1 DEF Precedes
<1>14. Item(Newcomer)' = order'[len']
  <2>1. Item(Newcomer) = order[len]
    BY <1>1 DEF RouterInv, Insertion
  <2>2. PICK k : k = Newcomer /\ k \in 1 .. len
    BY <1>7
  <2>3. Item(k)' = Item(k) /\ Item(k) = order[len] /\ k = Newcomer'
    BY <1>6, <2>1, <2>2 DEF Item
  <2> QED BY <1>2, <2>3 DEF Item
<1>15. \A b \in Newcomer' + 1 .. len' : Cost[order'[len']] < Cost[Item(b)']
  BY <1>1, <1>2, <1>6, <1>8 DEF RouterInv, Insertion
<1>16. \A a \in 1 .. len' : a # Newcomer' => \E k \in 1 .. len' - 1 : order'[k] = Item(a)'
  <2>1. \A a \in 1 .. len : a # Newcomer => \E k \in 1 .. len - 1 : order[k] = Item(a)
    BY <1>1 DEF RouterInv, Insertion
  <2> QED BY <1>2, <1>6, <2>1
<1> QED BY <1>9, <1>11, <1>12, <1>13, <1>14, <1>15, <1>16 DEF RouterInv, Insertion

\* The newcomer has come to rest: it precedes those it passed, and the last it
\* met, which costs no more and was registered earlier, precedes it.
LEMMA RegisterDoneKeepsTable ==
    ASSUME RouterInv, RegisterDone
    PROVE  RouterInv'
<1> USE RouterAssumption
<1> DEFINE p == sorting
<1>1. /\ p \in 1 .. len /\ p > 0 /\ tmp = None /\ ~MustSwap
      /\ len \in Nat /\ order \in Seq(Iface) /\ len = Len(order)
  BY SMT DEF RegisterDone, RouterInv, TableTypes
<1>2. /\ tmp' = None /\ sorting' = 0 /\ UNCHANGED <<arrays, len, order>>
  BY <1>1 DEF RegisterDone
<1>3. /\ Newcomer = p /\ Newcomer' = 0 /\ Registered' = Registered
      /\ \A k : Item(k) = Slot(k) /\ Item(k)' = Slot(k)
  BY <1>1, <1>2 DEF Newcomer, Item, Registered, Slot, Current
<1>4. /\ Slot(p) = order[len] /\ \A b \in p + 1 .. len : Cost[order[len]] < Cost[Slot(b)]
      /\ \A a \in 1 .. len : a # p => \E k \in 1 .. len - 1 : order[k] = Slot(a)
      /\ \A a, b \in 1 .. len : a < b /\ a # p /\ b # p => Precedes(Slot(a), Slot(b))
      /\ \A k \in 1 .. len : Slot(k) \in Registered
      /\ \A i \in Registered : \E k \in 1 .. len : Slot(k) = i
  BY <1>1, <1>3 DEF RouterInv, Insertion
<1>5. \A k \in 1 .. len : Slot(k) \in Iface /\ Cost[Slot(k)] \in Nat
  <2>1. \A k \in 1 .. Len(order) : order[k] \in Iface
    BY SMT, <1>1
  <2>2. \A k \in 1 .. len : Slot(k) \in Iface
    <3> SUFFICES ASSUME NEW k \in 1 .. len PROVE Slot(k) \in Iface
      OBVIOUS
    <3>1. Slot(k) \in Registered
      BY <1>4
    <3> QED BY <2>1, <3>1 DEF Registered
  <2> QED BY SMT, <2>2
<1>6. \A a \in 1 .. len : a < p => Precedes(Slot(a), Slot(p))
  <2> SUFFICES ASSUME NEW a \in 1 .. len, a < p PROVE Precedes(Slot(a), Slot(p))
    OBVIOUS
  <2>1. a # p /\ p > 1 /\ p - 1 \in 1 .. len /\ p - 1 # p /\ (a = p - 1 \/ a < p - 1)
    BY SMT, <1>1
  <2>2. ~(Cost[Slot(p)] < Cost[Slot(p - 1)])
    BY <1>1, <2>1 DEF MustSwap, Less
  <2>3. Cost[Slot(a)] <= Cost[Slot(p - 1)]
    <3>1. CASE a = p - 1
      BY SMT, <1>5, <3>1
    <3>2. CASE a < p - 1
      <4>1. Precedes(Slot(a), Slot(p - 1))
        BY <1>4, <2>1, <3>2
      <4> QED BY SMT, <1>5, <2>1, <4>1 DEF Precedes
    <3> QED BY <2>1, <3>1, <3>2
  <2>4. Cost[Slot(a)] < Cost[Slot(p)] \/ Cost[Slot(a)] = Cost[Slot(p)]
    BY SMTT(30), <1>1, <1>5, <2>1, <2>2, <2>3
  <2>5. PICK k \in 1 .. len - 1 : order[k] = Slot(a)
    BY <1>4, <2>1
  <2>6. k \in 1 .. Len(order) /\ len \in 1 .. Len(order) /\ k < len
    BY SMT, <1>1
  <2> QED BY <1>4, <2>4, <2>5, <2>6 DEF Precedes
<1>7. \A b \in 1 .. len : p < b => Precedes(Slot(p), Slot(b))
  <2> SUFFICES ASSUME NEW b \in 1 .. len, p < b PROVE Precedes(Slot(p), Slot(b))
    OBVIOUS
  <2>1. b \in p + 1 .. len
    BY SMT, <1>1
  <2> QED BY <1>4, <2>1 DEF Precedes
<1>8. \A a, b \in 1 .. len : a < b => Precedes(Slot(a), Slot(b))
  BY <1>4, <1>6, <1>7
<1>9. TableTypes'
  BY SMT, <1>1, <1>2 DEF TableTypes, RouterInv, Current
<1>10. \A a, b \in 1 .. len' : a < b => Precedes(Item(a), Item(b))'
  <2> SUFFICES ASSUME NEW a \in 1 .. len, NEW b \in 1 .. len, a < b
               PROVE  Precedes(Item(a), Item(b))'
    BY <1>2
  <2>1. Precedes(Slot(a), Slot(b))
    BY <1>8
  <2> QED BY <1>2, <1>3, <2>1 DEF Precedes
<1>11. ~(sorting' > 0)
  BY SMT, <1>2
<1> QED BY <1>2, <1>3, <1>4, <1>9, <1>10, <1>11 DEF RouterInv, Insertion

\* No other step touches the table.
LEMMA TableUntouched ==
    ASSUME RouterInv, UNCHANGED table
    PROVE  RouterInv'
<1>1. UNCHANGED <<arrays, len, order, sorting, tmp>>
  BY DEF table
<1>2. /\ Current' = Current /\ Newcomer' = Newcomer /\ Registered' = Registered
      /\ \A k : Item(k)' = Item(k) /\ Slot(k)' = Slot(k)
  BY <1>1 DEF Current, Newcomer, Registered, Item, Slot
<1>3. TableTypes'
  BY <1>1, <1>2 DEF TableTypes, RouterInv
<1>4. \A a, b : Precedes(Item(a), Item(b))' <=> Precedes(Item(a), Item(b))
  BY <1>1, <1>2 DEF Precedes
<1>5. Item(Newcomer)' = Item(Newcomer)
  BY <1>1, <1>2 DEF Item
<1>6. Insertion'
  BY <1>1, <1>2, <1>4, <1>5 DEF Insertion, RouterInv
<1> QED BY <1>3, <1>6 DEF RouterInv

LEMMA RouterStepInv ==
    ASSUME RouterInv, [Next]_vars
    PROVE  RouterInv'
<1>1. CASE UNCHANGED vars
  BY <1>1, TableUntouched DEF vars, table
<1>2. ASSUME NEW i \in Iface, Flap(i) PROVE RouterInv'
  BY <1>2, TableUntouched DEF Flap
<1>3. ASSUME NEW s \in Sender, Snapshot(s) \/ Scan(s) \/ NoRoute(s) \/ Deliver(s)
      PROVE  RouterInv'
  BY <1>3, TableUntouched DEF Snapshot, Scan, NoRoute, Deliver
<1> QED BY <1>1, <1>2, <1>3, RegisterKeepsTable, SwapFirstKeepsTable,
           SwapSecondKeepsTable, RegisterDoneKeepsTable DEF Next

\* The table when no Register is in progress.
LEMMA AtRest ==
    ASSUME RouterInv, sorting = 0
    PROVE  /\ {Slot(k) : k \in 1 .. len} = Registered
           /\ \A a, b \in 1 .. len : a < b => Precedes(Slot(a), Slot(b))
<1>1. len \in Nat /\ tmp = None
  BY SMT DEF RouterInv, TableTypes
<1>2. Newcomer = 0 /\ \A k : Item(k) = Slot(k)
  BY <1>1 DEF Newcomer, Item
<1>3. \A k \in 1 .. len : k # 0
  BY SMT, <1>1
<1> QED BY <1>2, <1>3 DEF RouterInv, Insertion

\* Whatever is registered, in whatever order and at whatever cost, the table at
\* rest holds every interface, sorted by cost, ties in the order of registration.
THEOREM RouterSorted == Spec => []SortedStable
<1>1. RouterInv => SortedStable
  BY AtRest DEF SortedStable
<1> QED BY <1>1, RouterInitInv, RouterStepInv, PTL DEF Spec

-------------------------------------------------------------------------------
(* Sends *)

\* No store falls into the part of an array that a Send is walking: what Send,
\* which gives up the lock before it walks, takes for granted.
WalkUndisturbed ==
    \A s \in Sender : phase[s] = "scanning" =>
        \A k \in 1 .. last[s] : arrays'[arr[s]][k] = arrays[arr[s]][k]

SenderTypes ==
    /\ reach \in SUBSET Iface /\ flaps \in 0 .. MaxFlaps
    /\ phase \in [Sender -> {"idle", "scanning", "chosen", "noroute",
                             "delivered", "error"}]
    /\ arr \in [Sender -> 1 .. Len(arrays)] /\ last \in [Sender -> Nat]
    /\ pos \in [Sender -> Nat \ {0}]
    /\ \A s \in Sender : last[s] <= Len(arrays[arr[s]]) /\ pos[s] <= last[s] + 1
    /\ chosen \in [Sender -> Iface \cup {None}]
    /\ always \in [Sender -> SUBSET Iface]

\* Nobody is registered twice.
OnceOnly == \A a, b \in 1 .. Len(order) : order[a] = order[b] => a = b

\* Before the walk there is nothing, and nobody is chosen during it.
Unchosen(s) ==
    /\ phase[s] = "idle" => pos[s] = 1
    /\ phase[s] \in {"idle", "scanning", "noroute"} => chosen[s] = None
    /\ phase[s] = "idle" => always[s] = {}
    /\ phase[s] = "noroute" => always[s] = {}

\* A Send under way walks interfaces in order; those it must not miss are ahead.
Walking(s) ==
    phase[s] = "scanning" =>
        /\ \A k \in 1 .. last[s] : arrays[arr[s]][k] \in Registered
        /\ \A a, b \in 1 .. last[s] :
              a < b => Precedes(arrays[arr[s]][a], arrays[arr[s]][b])
        /\ always[s] \subseteq reach
        /\ \A i \in always[s] : \E k \in pos[s] .. last[s] : arrays[arr[s]][k] = i

\* What it took precedes every one it could have taken or is that one.
TookBest(s) ==
    chosen[s] # None =>
        /\ chosen[s] \in Registered
        /\ \A i \in always[s] : i = chosen[s] \/ Precedes(chosen[s], i)

SendInv == SenderTypes /\ OnceOnly /\ \A s \in Sender : Unchosen(s) /\ Walking(s) /\ TookBest(s)

LEMMA SendInitInv == Init => SendInv
<1> SUFFICES ASSUME Init PROVE SendInv
  OBVIOUS
<1> USE RouterAssumption
<1>1. SenderTypes
  BY SMT DEF Init, SenderTypes
<1>2. OnceOnly
  BY SMT DEF Init, OnceOnly
<1>3. ASSUME NEW s \in Sender PROVE Unchosen(s) /\ Walking(s) /\ TookBest(s)
  BY DEF Init, Unchosen, Walking, TookBest
<1> QED BY <1>1, <1>2, <1>3 DEF SendInv

\* Of two interfaces only one precedes the other.
LEMMA OneWay ==
    ASSUME OnceOnly, NEW i \in Iface, NEW j \in Iface, Precedes(i, j)
    PROVE  i # j /\ ~Precedes(j, i)
<1> USE RouterAssumption
<1>1. Cost[i] \in Nat /\ Cost[j] \in Nat
  BY SMT
<1>2. CASE Cost[i] < Cost[j]
  <2>1. ~(Cost[j] < Cost[i]) /\ Cost[i] # Cost[j]
    BY SMT, <1>1, <1>2
  <2> QED BY <2>1 DEF Precedes
<1>3. ASSUME Cost[i] = Cost[j], NEW a \in 1 .. Len(order), NEW b \in 1 .. Len(order),
             a < b, order[a] = i, order[b] = j
      PROVE  i # j /\ ~Precedes(j, i)
  <2>1. ~(Cost[j] < Cost[i])
    BY SMT, <1>1, <1>3
  <2>2. a # b /\ ~(b < a)
    BY SMT, <1>3
  <2>3. ~\E x, y \in 1 .. Len(order) : x < y /\ order[x] = j /\ order[y] = i
    BY <1>3, <2>2 DEF OnceOnly
  <2>4. i # j
    BY <1>3, <2>2 DEF OnceOnly
  <2> QED BY <2>1, <2>3, <2>4 DEF Precedes
<1> QED BY <1>2, <1>3 DEF Precedes

\* Arrays are only ever added, and none changes its length.
ArraysStay ==
    /\ Len(arrays) <= Len(arrays')
    /\ \A c \in 1 .. Len(arrays) : c \in 1 .. Len(arrays') /\ Len(arrays'[c]) = Len(arrays[c])

LEMMA StoreStays ==
    ASSUME TableTypes, NEW k \in 1 .. Len(arrays[Current]), NEW i \in Iface \cup {None},
           Store(k, i)
    PROVE  ArraysStay
<1>1. /\ Len(arrays') = Len(arrays) /\ Len(arrays'[Current]) = Len(arrays[Current])
      /\ arrays \in Seq(Seq(Iface \cup {None}))
  BY StoreInto DEF TableTypes
<1>2. \A c \in 1 .. Len(arrays) : c # Current => arrays'[c] = arrays[c]
  BY SMT, <1>1 DEF Store
<1>3. Len(arrays) <= Len(arrays')
  BY SMT, <1>1
<1>4. ASSUME NEW c \in 1 .. Len(arrays)
      PROVE  c \in 1 .. Len(arrays') /\ Len(arrays'[c]) = Len(arrays[c])
  <2>1. CASE c = Current
    BY <1>1, <2>1
  <2>2. CASE c # Current
    BY <1>1, <1>2, <2>2
  <2> QED BY <2>1, <2>2
<1> QED BY <1>3, <1>4 DEF ArraysStay

LEMMA RegisterStays ==
    ASSUME RouterInv, NEW i \in Iface, Register(i)
    PROVE  ArraysStay
<1> DEFINE cap == Len(arrays[Current])
           T == Iface \cup {None}
<1>1. arrays \in Seq(Seq(T)) /\ len \in Nat /\ Current \in 1 .. Len(arrays) /\ cap \in Nat
  <2>1. arrays[Current] \in Seq(T)
    BY CurrentArray DEF RouterInv
  <2>2. cap \in Nat
    BY SMT, <2>1
  <2> QED BY <2>2, CurrentArray DEF RouterInv, TableTypes
<1>2. CASE len < cap /\ Store(len + 1, i)
  <2>1. len + 1 \in 1 .. cap
    BY SMT, <1>1, <1>2
  <2> QED BY <1>2, <2>1, StoreStays DEF RouterInv
<1>3. ASSUME NEW new, arrays' = Append(arrays, new) PROVE ArraysStay
  <2>1. Len(arrays') = Len(arrays) + 1 /\ Len(arrays) \in Nat
    BY SMT, <1>1, <1>3
  <2>2. \A c \in 1 .. Len(arrays) : arrays'[c] = arrays[c]
    BY SMT, <1>1, <1>3
  <2>3. Len(arrays) <= Len(arrays') /\ \A c \in 1 .. Len(arrays) : c \in 1 .. Len(arrays')
    BY SMT, <2>1
  <2> QED BY <2>2, <2>3 DEF ArraysStay
<1> QED BY <1>2, <1>3 DEF Register

LEMMA SwapStays ==
    ASSUME RouterInv, SwapFirst \/ SwapSecond \/ RegisterDone
    PROVE  ArraysStay
<1>1. /\ len \in Nat /\ arrays[Current] \in Seq(Iface \cup {None})
      /\ len <= Len(arrays[Current]) /\ sorting \in 0 .. len /\ tmp \in Iface \cup {None}
      /\ \A k \in 1 .. len : Slot(k) \in Iface \cup {None}
      /\ tmp # None => sorting > 1
  BY CurrentArray DEF RouterInv, TableTypes
<1>2. CASE SwapFirst
  <2>1. sorting > 1
    BY <1>2 DEF SwapFirst, MustSwap
  <2>2. sorting - 1 \in 1 .. len /\ sorting \in 1 .. Len(arrays[Current])
    BY SMT, <1>1, <2>1
  <2> QED BY <1>1, <1>2, <2>2, StoreStays DEF SwapFirst, RouterInv
<1>3. CASE SwapSecond
  <2>1. sorting > 1
    BY <1>1, <1>3 DEF SwapSecond
  <2>2. sorting - 1 \in 1 .. Len(arrays[Current])
    BY SMT, <1>1, <2>1
  <2> QED BY <1>1, <1>3, <2>2, StoreStays DEF SwapSecond, RouterInv
<1>4. CASE RegisterDone
  <2>1. arrays' = arrays /\ Len(arrays) <= Len(arrays)
    BY SMT, <1>4 DEF RegisterDone, RouterInv, TableTypes
  <2> QED BY <2>1 DEF ArraysStay
<1> QED BY <1>2, <1>3, <1>4

\* A registration keeps what is known of those registered.
LEMMA OrderGrows ==
    ASSUME order \in Seq(Iface), OnceOnly, NEW x \in Iface \ Registered,
           order' = Append(order, x)
    PROVE  OnceOnly' /\ Registered \subseteq Registered'
<1>1. /\ Len(order') = Len(order) + 1 /\ Len(order) \in Nat /\ order'[Len(order) + 1] = x
      /\ \A k \in 1 .. Len(order) : order'[k] = order[k]
  BY SMT
<1>2. \A k \in 1 .. Len(order') : k = Len(order) + 1 \/ k \in 1 .. Len(order)
  BY SMT, <1>1
<1>3. \A k \in 1 .. Len(order) : k \in 1 .. Len(order') /\ order[k] # x
  <2>1. \A k \in 1 .. Len(order) : k \in 1 .. Len(order')
    BY SMT, <1>1
  <2> QED BY <2>1 DEF Registered
<1>4. OnceOnly'
  <2> SUFFICES ASSUME NEW a \in 1 .. Len(order'), NEW b \in 1 .. Len(order'),
                      order'[a] = order'[b]
               PROVE  a = b
    BY DEF OnceOnly
  <2>1. CASE a \in 1 .. Len(order) /\ b \in 1 .. Len(order)
    BY <1>1, <2>1 DEF OnceOnly
  <2>2. CASE a = Len(order) + 1 /\ b \in 1 .. Len(order)
    BY <1>1, <1>3, <2>2
  <2>3. CASE b = Len(order) + 1 /\ a \in 1 .. Len(order)
    BY <1>1, <1>3, <2>3
  <2> QED BY <1>2, <2>1, <2>2, <2>3
<1>5. Registered \subseteq Registered'
  BY <1>1, <1>3 DEF Registered
<1> QED BY <1>4, <1>5

\* A step of Register that stores nothing into an array being walked leaves every
\* Send as it is.
LEMMA TableKeepsSends ==
    ASSUME RouterInv, SendInv, WalkUndisturbed, ArraysStay,
           UNCHANGED <<reach, flaps, phase, arr, last, pos, chosen, always>>,
           order' = order \/ \E x \in Iface \ Registered : order' = Append(order, x)
    PROVE  SendInv'
<1>1. /\ OnceOnly' /\ Registered \subseteq Registered'
      /\ \A i, j : Precedes(i, j) => Precedes(i, j)'
  <2>1. CASE order' = order
    BY <2>1 DEF OnceOnly, Registered, Precedes, SendInv
  <2>2. CASE \E x \in Iface \ Registered : order' = Append(order, x)
    BY <2>2, OrderGrows, PrecedesKept DEF RouterInv, TableTypes, SendInv
  <2> QED BY <2>1, <2>2
<1>2. SenderTypes'
  <2>1. \A s \in Sender : arr[s] \in 1 .. Len(arrays)
    BY DEF SendInv, SenderTypes
  <2>2. \A s \in Sender : arr[s] \in 1 .. Len(arrays') /\ Len(arrays'[arr[s]]) = Len(arrays[arr[s]])
    BY <2>1 DEF ArraysStay
  <2>3. arr' \in [Sender -> 1 .. Len(arrays')]
    BY SMT, <2>2 DEF SendInv, SenderTypes
  <2> QED BY <2>2, <2>3 DEF SendInv, SenderTypes
<1>3. ASSUME NEW s \in Sender PROVE Unchosen(s)'
  BY DEF SendInv, Unchosen
<1>4. ASSUME NEW s \in Sender PROVE Walking(s)'
  <2> SUFFICES ASSUME phase[s] = "scanning" PROVE Walking(s)'
    BY DEF Walking
  <2> DEFINE A == arrays[arr[s]]
             B == arrays'[arr[s]]
  <2>1. \A k \in 1 .. last[s] : B[k] = A[k]
    BY DEF WalkUndisturbed
  <2>2. /\ \A k \in 1 .. last[s] : A[k] \in Registered
        /\ \A a, b \in 1 .. last[s] : a < b => Precedes(A[a], A[b])
        /\ always[s] \subseteq reach
        /\ \A i \in always[s] : \E k \in pos[s] .. last[s] : A[k] = i
    BY DEF SendInv, Walking
  <2>3. \A k \in pos[s] .. last[s] : k \in 1 .. last[s]
    <3>1. pos[s] \in Nat \ {0} /\ last[s] \in Nat
      BY DEF SendInv, SenderTypes
    <3> QED BY SMT, <3>1
  <2> HIDE DEF A, B
  <2>4. \A k \in 1 .. last[s] : B[k] \in Registered'
    BY <1>1, <2>1, <2>2
  <2>5. \A a, b \in 1 .. last[s] : a < b => Precedes(A[a], A[b]) /\ B[a] = A[a] /\ B[b] = A[b]
    BY <2>1, <2>2
  <2>6. ASSUME NEW a \in 1 .. last[s], NEW b \in 1 .. last[s], a < b
        PROVE  \E x, y : x = B[a] /\ y = B[b] /\ Precedes(x, y)'
    <3>1. PICK x, y : x = A[a] /\ y = A[b]
      OBVIOUS
    <3>2. Precedes(A[a], A[b])
      BY <2>2, <2>6
    <3>4. Precedes(x, y)
      BY <3>1, <3>2
    <3>3. Precedes(x, y)'
      BY <1>1, <3>4
    <3> QED BY <2>1, <2>6, <3>1, <3>3
  <2>7. \A i \in always[s] : \E k \in pos[s] .. last[s] : B[k] = i
    BY <2>1, <2>2, <2>3
  <2>8. B = arrays'[arr'[s]] /\ last' = last /\ pos' = pos /\ always' = always /\ reach' = reach
    BY DEF B
  <2>9. \A a, b \in 1 .. last'[s] : a < b => Precedes(arrays[arr[s]][a], arrays[arr[s]][b])'
    <3> SUFFICES ASSUME NEW a \in 1 .. last[s], NEW b \in 1 .. last[s], a < b
                 PROVE  Precedes(arrays[arr[s]][a], arrays[arr[s]][b])'
      BY <2>8
    <3>1. PICK x, y : x = B[a] /\ y = B[b] /\ Precedes(x, y)'
      BY <2>6
    <3> QED BY <2>8, <3>1 DEF Precedes
  <2> QED BY <2>2, <2>4, <2>7, <2>8, <2>9 DEF Walking
<1>5. ASSUME NEW s \in Sender PROVE TookBest(s)'
  <2> SUFFICES ASSUME chosen[s] # None
               PROVE  /\ chosen[s] \in Registered'
                      /\ \A i \in always[s] : i = chosen[s] \/ Precedes(chosen[s], i)'
    BY DEF TookBest
  <2>1. /\ chosen[s] \in Registered
        /\ \A i \in always[s] : i = chosen[s] \/ Precedes(chosen[s], i)
    BY DEF SendInv, TookBest
  <2>2. ASSUME NEW i \in always[s], Precedes(chosen[s], i) PROVE Precedes(chosen[s], i)'
    <3>1. PICK x : x = chosen[s]
      OBVIOUS
    <3>2. Precedes(x, i)
      BY <2>2, <3>1 DEF Precedes
    <3>3. Precedes(x, i)'
      BY <1>1, <3>2
    <3> QED BY <3>1, <3>3 DEF Precedes
  <2> QED BY <1>1, <2>1, <2>2 DEF Precedes
<1> QED BY <1>1, <1>2, <1>3, <1>4, <1>5 DEF SendInv

\* A Send that is not the one that moves stays as it is.
LEMMA OthersKeep ==
    ASSUME SendInv, NEW t \in Sender, UNCHANGED <<arrays, order, reach>>,
           phase'[t] = phase[t], arr'[t] = arr[t], last'[t] = last[t], pos'[t] = pos[t],
           chosen'[t] = chosen[t], always'[t] = always[t]
    PROVE  Unchosen(t)' /\ Walking(t)' /\ TookBest(t)'
<1>1. Unchosen(t) /\ Walking(t) /\ TookBest(t) /\ Registered' = Registered
  BY DEF SendInv, Registered
<1>2. Unchosen(t)'
  BY <1>1 DEF Unchosen
<1>3. TookBest(t)'
  BY SMTT(30), <1>1 DEF TookBest, Precedes
<1>4. Walking(t)'
  BY SMT, <1>1 DEF Walking, Precedes
<1> QED BY <1>2, <1>3, <1>4

\* The steps of a Send.
LEMMA SnapshotKeeps ==
    ASSUME RouterInv, SendInv, NEW s \in Sender, Snapshot(s)
    PROVE  SendInv'
<1>1. /\ phase[s] = "idle" /\ sorting = 0 /\ UNCHANGED <<table, reach, flaps, pos, chosen>>
      /\ phase' = [phase EXCEPT ![s] = "scanning"]
      /\ arr' = [arr EXCEPT ![s] = Current] /\ last' = [last EXCEPT ![s] = len]
      /\ always' = [always EXCEPT ![s] = Registered \cap reach]
  BY DEF Snapshot
<1>2. UNCHANGED <<arrays, order>> /\ Registered' = Registered
  BY <1>1 DEF table, Registered
<1>3. SenderTypes
  BY DEF SendInv
<1>4. /\ phase'[s] = "scanning" /\ arr'[s] = Current /\ last'[s] = len
      /\ always'[s] = Registered \cap reach
      /\ \A t \in Sender : t # s => /\ phase'[t] = phase[t] /\ arr'[t] = arr[t]
                                    /\ last'[t] = last[t] /\ always'[t] = always[t]
  BY SMT, <1>1, <1>3 DEF SenderTypes
<1>5. Current \in 1 .. Len(arrays) /\ len \in Nat /\ len <= Len(arrays[Current])
  BY CurrentArray DEF RouterInv, TableTypes
<1>6. chosen[s] = None /\ pos[s] = 1
  BY <1>1 DEF SendInv, Unchosen
<1>7. SenderTypes'
  <2>1. /\ reach' \in SUBSET Iface /\ flaps' \in 0 .. MaxFlaps /\ pos' \in [Sender -> Nat \ {0}]
        /\ chosen' \in [Sender -> Iface \cup {None}]
    BY <1>1, <1>3 DEF SenderTypes
  <2>2. /\ phase' \in [Sender -> {"idle", "scanning", "chosen", "noroute", "delivered", "error"}]
        /\ arr' \in [Sender -> 1 .. Len(arrays')] /\ last' \in [Sender -> Nat]
        /\ always' \in [Sender -> SUBSET Iface]
    BY SMT, <1>1, <1>2, <1>3, <1>5 DEF SenderTypes
  <2>3. ASSUME NEW t \in Sender
        PROVE  last'[t] <= Len(arrays'[arr'[t]]) /\ pos'[t] <= last'[t] + 1
    <3>1. CASE t = s
      <4>1. 1 <= len + 1
        BY SMT, <1>5
      <4> QED BY <1>1, <1>2, <1>4, <1>5, <1>6, <3>1, <4>1
    <3>2. CASE t # s
      BY <1>1, <1>2, <1>3, <1>4, <3>2 DEF SenderTypes
    <3> QED BY <3>1, <3>2
  <2> QED BY <2>1, <2>2, <2>3 DEF SenderTypes
<1>8. ASSUME NEW t \in Sender PROVE Unchosen(t)' /\ Walking(t)' /\ TookBest(t)'
  <2>1. CASE t # s
    BY <1>1, <1>2, <1>4, <2>1, OthersKeep
  <2>2. CASE t = s
    <3>1. Unchosen(s)' /\ TookBest(s)'
      BY <1>1, <1>4, <1>6 DEF Unchosen, TookBest
    <3>2. /\ \A k \in 1 .. len : Slot(k) \in Registered
          /\ \A i \in Registered : \E k \in 1 .. len : Slot(k) = i
          /\ \A a, b \in 1 .. len : a < b => Precedes(Slot(a), Slot(b))
      BY <1>1, AtRest
    <3>3. \A k : Slot(k) = arrays'[arr'[s]][k]
      BY <1>2, <1>4 DEF Slot
    <3>4. \A k \in 1 .. last'[s] : arrays'[arr'[s]][k] \in Registered'
      BY <1>2, <1>4, <3>2, <3>3
    <3>5. \A a, b \in 1 .. last'[s] : a < b => Precedes(arrays[arr[s]][a], arrays[arr[s]][b])'
      <4> SUFFICES ASSUME NEW a \in 1 .. len, NEW b \in 1 .. len, a < b
                   PROVE  Precedes(arrays[arr[s]][a], arrays[arr[s]][b])'
        BY <1>4
      <4>1. Precedes(Slot(a), Slot(b))
        BY <3>2
      <4>2. Slot(a) = arrays'[arr'[s]][a] /\ Slot(b) = arrays'[arr'[s]][b]
        BY <3>3
      <4> HIDE DEF Slot
      <4> QED BY <1>2, <4>1, <4>2 DEF Precedes
    <3>6. \A i \in always'[s] : \E k \in pos'[s] .. last'[s] : arrays'[arr'[s]][k] = i
      BY <1>1, <1>4, <1>6, <3>2, <3>3
    <3>7. always'[s] \subseteq reach'
      BY <1>1, <1>4
    <3> QED BY <2>2, <3>1, <3>4, <3>5, <3>6, <3>7 DEF Walking
  <2> QED BY <2>1, <2>2
<1>9. OnceOnly'
  BY <1>2 DEF OnceOnly, SendInv
<1> QED BY <1>7, <1>8, <1>9 DEF SendInv

LEMMA ScanKeeps ==
    ASSUME RouterInv, SendInv, NEW s \in Sender, Scan(s)
    PROVE  SendInv'
<1> USE RouterAssumption
<1> DEFINE A == arrays[arr[s]]
           i == A[pos[s]]
<1>1. /\ phase[s] = "scanning" /\ ~(pos[s] > last[s])
      /\ UNCHANGED <<arrays, order, reach, flaps, arr, last, always>>
  BY DEF Scan, AtEnd, table
<1>2. SenderTypes
  BY DEF SendInv
<1>3. /\ pos[s] \in 1 .. last[s] /\ pos[s] \in Nat \ {0} /\ last[s] \in Nat
  <2>1. pos[s] \in Nat \ {0} /\ last[s] \in Nat
    BY <1>2 DEF SenderTypes
  <2> QED BY SMT, <1>1, <2>1
<1>4. /\ \A k \in 1 .. last[s] : A[k] \in Registered
      /\ \A a, b \in 1 .. last[s] : a < b => Precedes(A[a], A[b])
      /\ always[s] \subseteq reach
      /\ \A j \in always[s] : \E k \in pos[s] .. last[s] : A[k] = j
  BY <1>1 DEF SendInv, Walking
<1>5. Registered \subseteq Iface /\ i \in Iface /\ i \in Registered /\ Registered' = Registered
  <2>1. \A k \in 1 .. Len(order) : order[k] \in Iface
    BY SMT DEF RouterInv, TableTypes
  <2>2. Registered \subseteq Iface
    BY <2>1 DEF Registered
  <2>3. Registered' = Registered
    BY <1>1 DEF Registered
  <2> QED BY <1>3, <1>4, <2>2, <2>3
<1>6. OnceOnly'
  BY <1>1 DEF OnceOnly, SendInv
<1>7. CASE /\ i \in reach
           /\ phase' = [phase EXCEPT ![s] = "chosen"]
           /\ chosen' = [chosen EXCEPT ![s] = i]
           /\ UNCHANGED pos
  <2> HIDE DEF i
  <2>1. /\ phase'[s] = "chosen" /\ chosen'[s] = i
        /\ \A t \in Sender : t # s => phase'[t] = phase[t] /\ chosen'[t] = chosen[t]
    BY SMTT(30), <1>2, <1>7 DEF SenderTypes
  <2>2. /\ phase' \in [Sender -> {"idle", "scanning", "chosen", "noroute", "delivered", "error"}]
        /\ chosen' \in [Sender -> Iface \cup {None}]
    BY SMTT(30), <1>2, <1>5, <1>7 DEF SenderTypes
  <2>3. SenderTypes'
    BY <1>1, <1>2, <1>7, <2>2 DEF SenderTypes
  <2>4. ASSUME NEW j \in always[s] PROVE j = i \/ Precedes(i, j)
    <3>1. PICK k \in pos[s] .. last[s] : A[k] = j
      BY ZenonT(60), <1>4
    <3>2. k \in 1 .. last[s] /\ (k = pos[s] \/ pos[s] < k)
      BY SMT, <1>3
    <3>3. CASE k = pos[s]
      BY <3>1, <3>3 DEF i
    <3>4. CASE pos[s] < k
      <4>1. Precedes(A[pos[s]], A[k])
        BY <1>3, <1>4, <3>2, <3>4
      <4> QED BY <3>1, <4>1 DEF i
    <3> QED BY <3>2, <3>3, <3>4
  <2>5. Unchosen(s)' /\ Walking(s)' /\ TookBest(s)'
    <3>1. Unchosen(s)' /\ Walking(s)'
      BY ZenonT(60), <2>1 DEF Unchosen, Walking
    <3>2. \A j \in always'[s] : chosen'[s] = j \/ Precedes(chosen[s], j)'
      BY SMT, <1>1, <2>1, <2>4 DEF Precedes
    <3> QED BY <1>1, <1>5, <2>1, <3>1, <3>2 DEF TookBest
  <2>6. \A t \in Sender : t # s => Unchosen(t)' /\ Walking(t)' /\ TookBest(t)'
    BY <1>1, <1>7, <2>1, OthersKeep
  <2> QED BY <1>6, <2>3, <2>5, <2>6 DEF SendInv
<1>8. CASE /\ i \notin reach
           /\ pos' = [pos EXCEPT ![s] = @ + 1]
           /\ UNCHANGED <<phase, chosen>>
  <2>1. /\ pos'[s] = pos[s] + 1 /\ \A t \in Sender : t # s => pos'[t] = pos[t]
        /\ pos' \in [Sender -> Nat \ {0}]
    BY SMT, <1>2, <1>8 DEF SenderTypes
  <2>2. SenderTypes'
    <3>1. pos'[s] <= last[s] + 1
      BY SMT, <1>3, <2>1
    <3>2. ASSUME NEW t \in Sender
          PROVE  last[t] <= Len(arrays[arr[t]]) /\ pos'[t] <= last[t] + 1
      BY <1>2, <2>1, <3>1 DEF SenderTypes
    <3> QED BY ZenonT(60), <1>1, <1>2, <1>8, <2>1, <3>2 DEF SenderTypes
  <2>3. ASSUME NEW j \in always[s] PROVE \E k \in pos[s] + 1 .. last[s] : A[k] = j
    <3>1. PICK k \in pos[s] .. last[s] : A[k] = j
      BY <1>4
    <3>2. k # pos[s]
      BY ZenonT(60), <1>4, <1>8, <3>1
    <3>3. k \in pos[s] + 1 .. last[s]
      BY SMT, <1>3, <3>2
    <3> QED BY <3>1, <3>3
  <2>4. Unchosen(s)' /\ TookBest(s)'
    BY <1>1, <1>8 DEF SendInv, Unchosen, TookBest
  <2>5. Walking(s)'
    <3>1. \A a, b \in 1 .. last'[s] : a < b => Precedes(arrays[arr[s]][a], arrays[arr[s]][b])'
      BY SMT, <1>1, <1>4 DEF Precedes
    <3> QED BY ZenonT(60), <1>1, <1>4, <1>5, <2>1, <2>3, <3>1 DEF Walking
  <2>6. \A t \in Sender : t # s => Unchosen(t)' /\ Walking(t)' /\ TookBest(t)'
    BY <1>1, <1>8, <2>1, OthersKeep
  <2> QED BY ZenonT(60), <1>6, <2>2, <2>4, <2>5, <2>6 DEF SendInv
<1> QED BY <1>7, <1>8 DEF Scan

LEMMA EndKeeps ==
    ASSUME SendInv, NEW s \in Sender, NoRoute(s) \/ Deliver(s)
    PROVE  SendInv'
<1>1. UNCHANGED <<arrays, order, reach, flaps, arr, last, pos, chosen, always>>
  BY DEF NoRoute, Deliver, table
<1>2. /\ \A t \in Sender : t # s => phase'[t] = phase[t]
      /\ phase' \in [Sender -> {"idle", "scanning", "chosen", "noroute", "delivered", "error"}]
  <2>1. phase' = [phase EXCEPT ![s] = "noroute"]
        \/ phase' = [phase EXCEPT ![s] = "delivered"]
        \/ phase' = [phase EXCEPT ![s] = "error"]
    BY DEF NoRoute, Deliver
  <2>2. phase \in [Sender -> {"idle", "scanning", "chosen", "noroute", "delivered", "error"}]
    BY DEF SendInv, SenderTypes
  <2> QED BY SMT, <2>1, <2>2
<1>3. SenderTypes' /\ OnceOnly'
  BY <1>1, <1>2 DEF SendInv, SenderTypes, OnceOnly
<1>4. \A t \in Sender : t # s => Unchosen(t)' /\ Walking(t)' /\ TookBest(t)'
  BY <1>1, <1>2, OthersKeep
<1>5. Registered' = Registered /\ TookBest(s)
  BY ZenonT(60), <1>1 DEF Registered, SendInv
<1>6. TookBest(s)'
  BY SMT, <1>1, <1>5 DEF TookBest, Precedes
<1>7. CASE NoRoute(s)
  <2>1. phase'[s] = "noroute" /\ phase[s] = "scanning" /\ pos[s] > last[s]
    BY SMTT(30), <1>7 DEF NoRoute, AtEnd, SendInv, SenderTypes
  <2>2. \A k \in pos[s] .. last[s] : FALSE
    <3>1. pos[s] \in Nat \ {0} /\ last[s] \in Nat
      BY DEF SendInv, SenderTypes
    <3> QED BY SMT, <2>1, <3>1
  <2>3. always[s] = {} /\ chosen[s] = None
    BY <2>1, <2>2 DEF SendInv, Walking, Unchosen
  <2>4. Unchosen(s)' /\ Walking(s)'
    BY ZenonT(60), <1>1, <2>1, <2>3 DEF Unchosen, Walking
  <2> QED BY ZenonT(60), <1>3, <1>4, <1>6, <2>4 DEF SendInv
<1>8. CASE Deliver(s)
  <2>1. phase'[s] \in {"delivered", "error"}
    BY SMT, <1>8 DEF Deliver, SendInv, SenderTypes
  <2>2. Unchosen(s)' /\ Walking(s)'
    BY <2>1 DEF Unchosen, Walking
  <2> QED BY ZenonT(60), <1>3, <1>4, <1>6, <2>2 DEF SendInv
<1> QED BY <1>7, <1>8

LEMMA FlapKeeps ==
    ASSUME SendInv, NEW i \in Iface, Flap(i)
    PROVE  SendInv'
<1> USE RouterAssumption
<1>1. UNCHANGED <<arrays, order, phase, arr, last, pos, chosen>>
  BY DEF Flap, table
<1>2. \A s \in Sender : always'[s] = IF phase[s] = "scanning" THEN always[s] \ {i} ELSE always[s]
  BY DEF Flap
<1>3. always' \in [Sender -> SUBSET Iface]
  BY SMT DEF Flap, SendInv, SenderTypes
<1>4. \A j \in reach : j # i => j \in reach'
  BY DEF Flap
<1>5. SenderTypes' /\ OnceOnly'
  <2>1. reach' \in SUBSET Iface
    BY DEF Flap, SendInv, SenderTypes
  <2>2. flaps' \in 0 .. MaxFlaps
    BY SMT DEF Flap, SendInv, SenderTypes
  <2> QED BY <1>1, <1>3, <2>1, <2>2 DEF SendInv, SenderTypes, OnceOnly
<1>6. ASSUME NEW s \in Sender PROVE Unchosen(s)' /\ Walking(s)' /\ TookBest(s)'
  <2>1. Unchosen(s) /\ Walking(s) /\ TookBest(s) /\ Registered' = Registered
    BY <1>1 DEF SendInv, Registered
  <2>2. always'[s] \subseteq always[s] /\ (phase[s] = "scanning" => i \notin always'[s])
    BY <1>2
  <2>3. Unchosen(s)'
    BY ZenonT(60), <1>1, <2>1, <2>2 DEF Unchosen
  <2>4. TookBest(s)'
    BY SMTT(30), <1>1, <2>1, <2>2 DEF TookBest, Precedes
  <2>5. Walking(s)'
    <3>1. phase[s] = "scanning" => always'[s] \subseteq reach'
      BY <1>4, <2>1, <2>2 DEF Walking
    <3>2. PICK A, m, p : A = arrays[arr[s]] /\ m = last[s] /\ p = pos[s]
      OBVIOUS
    <3>3. arrays'[arr'[s]] = A /\ last'[s] = m /\ pos'[s] = p /\ phase'[s] = phase[s]
      BY <1>1, <3>2
    <3>4. phase[s] = "scanning" =>
              /\ \A k \in 1 .. m : A[k] \in Registered
              /\ \A a, b \in 1 .. m : a < b => Precedes(A[a], A[b])
              /\ \A j \in always[s] : \E k \in p .. m : A[k] = j
      BY <2>1, <3>2 DEF Walking
    <3>5. \A x, y : Precedes(x, y)' <=> Precedes(x, y)
      BY <1>1 DEF Precedes
    <3>6. phase[s] = "scanning" => \A j \in always'[s] : \E k \in p .. m : A[k] = j
      BY <2>2, <3>4
    <3> QED BY ZenonT(60), <2>1, <3>1, <3>3, <3>4, <3>5, <3>6 DEF Walking
  <2> QED BY <2>3, <2>4, <2>5
<1> QED BY <1>5, <1>6 DEF SendInv

LEMMA SendStepInv ==
    ASSUME RouterInv, SendInv, [Next /\ WalkUndisturbed]_vars
    PROVE  SendInv'
<1>1. CASE UNCHANGED vars
  <2>1. \A t \in Sender : Unchosen(t)' /\ Walking(t)' /\ TookBest(t)'
    BY <1>1, OthersKeep DEF vars
  <2>2. SenderTypes' /\ OnceOnly'
    BY <1>1 DEF vars, SendInv, SenderTypes, OnceOnly
  <2> QED BY <2>1, <2>2 DEF SendInv
<1>2. ASSUME NEW i \in Iface, Register(i), WalkUndisturbed PROVE SendInv'
  BY <1>2, RegisterStays, TableKeepsSends DEF Register
<1>3. ASSUME SwapFirst \/ SwapSecond \/ RegisterDone, WalkUndisturbed PROVE SendInv'
  BY <1>3, SwapStays, TableKeepsSends DEF SwapFirst, SwapSecond, RegisterDone
<1> QED BY <1>1, <1>2, <1>3, SnapshotKeeps, ScanKeeps, EndKeeps, FlapKeeps DEF Next

\* As long as no Register stores into the array a Send is walking, the slices lie
\* within their arrays, the table is sorted and every Send takes the cheapest
\* interface that stays reachable: the walk without the lock is the only way to
\* lose it (the run of four interfaces does).
THEOREM BestUnlessDisturbed ==
    Spec /\ [][WalkUndisturbed]_vars => []RouteIsBest
<1>1. RouterInv /\ SendInv => RouteIsBest
  <2> SUFFICES ASSUME RouterInv, SendInv PROVE RouteIsBest
    OBVIOUS
  <2>1. TypeOK
    BY DEF TypeOK, RouterInv, TableTypes, Current, SendInv, SenderTypes
  <2>2. SortedStable
    BY AtRest DEF SortedStable
  <2>3. ASSUME NEW s \in Sender, chosen[s] # None, NEW i \in always[s]
        PROVE  ~Precedes(i, chosen[s])
    <3>1. i \in Iface /\ chosen[s] \in Iface /\ OnceOnly
      BY <2>3 DEF SendInv, SenderTypes
    <3>2. i = chosen[s] \/ Precedes(chosen[s], i)
      BY <2>3 DEF SendInv, TookBest
    <3>3. PICK x : x = chosen[s]
      OBVIOUS
    <3>4. x \in Iface /\ (i = x \/ Precedes(x, i))
      BY <3>1, <3>2, <3>3
    <3>5. ~Precedes(i, x)
      BY <3>1, <3>4, OneWay
    <3> QED BY <3>3, <3>5
  <2> QED BY <2>1, <2>2, <2>3 DEF RouteIsBest, CheapestReachable, SendInv, Unchosen
<1>2. Init => RouterInv /\ SendInv
  BY RouterInitInv, SendInitInv
<1>3. RouterInv /\ SendInv /\ [Next]_vars /\ [WalkUndisturbed]_vars
         => (RouterInv /\ SendInv)'
  BY RouterStepInv, SendStepInv
<1> QED BY <1>1, <1>2, <1>3, PTL DEF Spec

-------------------------------------------------------------------------------
(* Up to three interfaces *)

\* No more than three interfaces are registered.
FewRegistered == len <= 3

\* The array is full until the third comes, for which append makes room for four;
\* nobody walks the array a Register is sorting.
Alone ==
    /\ FewRegistered => Len(arrays[Current]) = IF len = 3 THEN 4 ELSE len
    /\ \A s \in Sender : phase[s] = "scanning" /\ arr[s] = Current => sorting = 0

LEMMA RegisterAlone ==
    ASSUME RouterInv, SendInv, Alone, FewRegistered', NEW i \in Iface, Register(i)
    PROVE  Alone' /\ WalkUndisturbed
<1> DEFINE T == Iface \cup {None}
<1>1. PICK A, n, cap : A = arrays /\ n = Len(A) /\ cap = Len(A[n])
  OBVIOUS
<1>2. A \in Seq(Seq(T)) /\ n \in Nat \ {0} /\ A[n] \in Seq(T) /\ cap \in Nat /\ len \in Nat
  <2>1. A \in Seq(Seq(T)) /\ A # <<>> /\ len \in Nat
    BY <1>1, CurrentArray DEF RouterInv, TableTypes
  <2>2. n \in Nat \ {0}
    BY SMT, <1>1, <2>1
  <2>3. A[n] \in Seq(T)
    BY SMT, <1>1, <2>1, <2>2
  <2> QED BY SMT, <1>1, <2>1, <2>2, <2>3
<1>3. len' = len + 1 /\ len' <= 3
  BY DEF Register, FewRegistered
<1>4. len <= 3 /\ len # 3
  BY SMT, <1>2, <1>3
<1>5. cap = len
  BY <1>1, <1>4 DEF Alone, FewRegistered, Current
<1>6. ~(len < cap)
  BY SMT, <1>2, <1>5
<1>7. PICK new : /\ new = [k \in 1 .. Grown(cap) |->
                              IF k <= len THEN Slot(k) ELSE IF k = len + 1 THEN i ELSE None]
                 /\ arrays' = Append(A, new)
  BY <1>1, <1>6 DEF Register, Current
<1>8. Grown(cap) \in Nat /\ Grown(cap) = IF len + 1 = 3 THEN 4 ELSE len + 1
  BY SMTT(30), <1>2, <1>3, <1>5 DEF Grown
<1>9. Len(new) = Grown(cap)
  BY SMTT(30), <1>7, <1>8
<1>10. Len(arrays') = n + 1 /\ arrays'[n + 1] = new /\ \A c \in 1 .. n : arrays'[c] = A[c]
  BY SMTT(30), <1>1, <1>2, <1>7
<1>11. \A s \in Sender : arr[s] \in 1 .. n
  BY SMT, <1>1 DEF SendInv, SenderTypes
<1>12. \A s \in Sender : arr[s] # n + 1
  BY SMT, <1>2, <1>11
<1>13. phase' = phase /\ arr' = arr
  BY DEF Register
<1>14. Alone'
  BY <1>3, <1>8, <1>9, <1>10, <1>12, <1>13 DEF Alone, Current
<1>15. WalkUndisturbed
  BY <1>1, <1>10, <1>11 DEF WalkUndisturbed
<1> QED BY <1>14, <1>15

LEMMA SwapAlone ==
    ASSUME RouterInv, SendInv, Alone, SwapFirst \/ SwapSecond
    PROVE  Alone' /\ WalkUndisturbed
<1> DEFINE T == Iface \cup {None}
<1>1. PICK A, n : A = arrays /\ n = Len(A)
  OBVIOUS
<1>2. A \in Seq(Seq(T)) /\ n \in Nat \ {0} /\ A[n] \in Seq(T)
  <2>1. A \in Seq(Seq(T)) /\ A # <<>>
    BY <1>1 DEF RouterInv, TableTypes
  <2>2. n \in Nat \ {0}
    BY SMT, <1>1, <2>1
  <2> QED BY SMT, <1>1, <2>1, <2>2
<1>3. PICK k, i : arrays' = [A EXCEPT ![n][k] = i]
  BY <1>1 DEF SwapFirst, SwapSecond, Store, Current
<1>4. sorting # 0
  <2>1. sorting > 1
    BY DEF SwapFirst, SwapSecond, MustSwap, RouterInv, TableTypes
  <2> QED BY SMT, <2>1
<1>5. Len(arrays') = n /\ Len(arrays'[n]) = Len(A[n]) /\ \A c \in 1 .. n : c # n => arrays'[c] = A[c]
  BY SMT, <1>1, <1>2, <1>3
<1>6. \A s \in Sender : arr[s] \in 1 .. n /\ (phase[s] = "scanning" => arr[s] # n)
  BY <1>1, <1>4 DEF SendInv, SenderTypes, Alone, Current
<1>7. UNCHANGED <<len, phase, arr>>
  BY DEF SwapFirst, SwapSecond
<1>8. Alone'
  BY <1>1, <1>5, <1>6, <1>7 DEF Alone, Current, FewRegistered
<1>9. WalkUndisturbed
  BY <1>1, <1>5, <1>6 DEF WalkUndisturbed
<1> QED BY <1>8, <1>9

LEMMA OthersAlone ==
    ASSUME Alone, UNCHANGED <<arrays, len>>,
           sorting' = sorting \/ sorting' = 0,
           \A s \in Sender : \/ phase'[s] = "scanning" => phase[s] = "scanning" /\ arr'[s] = arr[s]
                             \/ sorting' = 0
    PROVE  Alone' /\ WalkUndisturbed
BY DEF Alone, WalkUndisturbed, Current, FewRegistered

LEMMA AloneStep ==
    ASSUME RouterInv, SendInv, Alone, FewRegistered', [Next]_vars
    PROVE  Alone' /\ [WalkUndisturbed]_vars
<1>1. CASE UNCHANGED vars
  BY <1>1, OthersAlone DEF vars
<1>2. ASSUME NEW i \in Iface, Register(i) PROVE Alone' /\ WalkUndisturbed
  BY <1>2, RegisterAlone
<1>3. ASSUME NEW i \in Iface, Flap(i) PROVE Alone' /\ WalkUndisturbed
  BY <1>3, OthersAlone DEF Flap, table
<1>4. CASE RegisterDone
  BY <1>4, OthersAlone DEF RegisterDone
<1>5. ASSUME NEW s \in Sender, Snapshot(s) PROVE Alone' /\ WalkUndisturbed
  BY <1>5, OthersAlone DEF Snapshot, table
<1>6. ASSUME NEW s \in Sender, Scan(s) \/ NoRoute(s) \/ Deliver(s)
      PROVE  Alone' /\ WalkUndisturbed
  <2>1. phase \in [Sender -> {"idle", "scanning", "chosen", "noroute", "delivered", "error"}]
    BY DEF SendInv, SenderTypes
  <2>2. UNCHANGED <<arrays, len, sorting, arr>>
    BY <1>6 DEF Scan, NoRoute, Deliver, table
  <2>3. phase' = phase \/ \E p \in {"chosen", "noroute", "delivered", "error"} :
                               phase' = [phase EXCEPT ![s] = p]
    BY <1>6 DEF Scan, NoRoute, Deliver
  <2>4. \A t \in Sender : phase'[t] = "scanning" => phase[t] = "scanning"
    BY SMT, <2>1, <2>3
  <2> QED BY <2>2, <2>4, OthersAlone
<1> QED BY <1>1, <1>2, <1>3, <1>4, <1>5, <1>6, SwapAlone DEF Next

\* Each of the first three registrations moves the table to a new array, which no
\* Send walks yet: up to three interfaces, a Send takes the cheapest one that stays
\* reachable, whatever Register it overlaps with.
THEOREM BestOfThree == Spec /\ []FewRegistered => []RouteIsBest
<1>1. Init => Alone
  BY SMT DEF Init, Alone, Current, FewRegistered
<1>2. Init => RouterInv /\ SendInv
  BY RouterInitInv, SendInitInv
<1>3. RouterInv /\ SendInv /\ Alone /\ FewRegistered' /\ [Next]_vars
         => (RouterInv /\ SendInv /\ Alone)' /\ [WalkUndisturbed]_vars
  BY AloneStep, RouterStepInv, SendStepInv
<1>4. Spec /\ []FewRegistered => [][WalkUndisturbed]_vars
  BY <1>1, <1>2, <1>3, PTL DEF Spec
<1> QED BY <1>4, BestUnlessDisturbed, PTL
================================================================================
