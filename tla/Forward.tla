--------------------------------- MODULE Forward ---------------------------------
(***************************************************************************)
(* HTTP over ZAP, package forward: an ingress node turns an HTTP request   *)
(* into a Forward (Forwarder.RoundTrip), the gateway runs its gate on the  *)
(* envelope and calls a backend with the identity the gate established     *)
(* (Relay), the backend serves the request through its http.Handler        *)
(* (Serve).  Handlers run in the receive loop of the connection a request  *)
(* came in on, so the gateway relays one request of an ingress at a time   *)
(* and a backend serves one request of the gateway at a time.              *)
(*                                                                         *)
(* A call is correlated and at most once (module Rpc): an answer reaches   *)
(* its caller if that still waits.  A connection to a backend may be lost: *)
(* what is on it goes, and the calls over it go on waiting.  Headers are   *)
(* kept by class, an identity by whose it is.                              *)
(***************************************************************************)
EXTENDS Naturals, Sequences, FiniteSets

CONSTANTS
    Request,    \* HTTP requests; each is sent once
    MaxSent,    \* bound on how many of them are sent
    From,       \* the ingress node a request enters at
    Headers,    \* the classes of header a request carries
    Line,       \* "valid" or "invalid": its method and path
    Token,      \* whose JWT it carries; "none": the gate lets it pass without;
                \* "bad": the gate denies it; "error": the gate fails
    Backend,    \* backend nodes
    PickPeer,   \* the backend the PeerPicker names for its path, or Nil
    Kind,       \* what the backend's handler does: "plain", "stream", "panic" or
                \* "endless", if it does not return
    MaxCuts,    \* bound on the connections to backends that are lost
    Nil

\* Headers that name an identity: the ones the edge sets, the older ones the
\* contract also strips, and cookies.
Ingress == {From[r] : r \in Request}
HeaderClasses == {"edge", "legacy", "cookie", "auth", "plain", "malformed"}
IdentityHeaders == {"edge", "legacy", "cookie"}

ASSUME ForwardAssumption ==
    /\ Line \in [Request -> {"valid", "invalid"}] /\ Nil \notin Request
    /\ Headers \in [Request -> SUBSET HeaderClasses]
    /\ PickPeer \in [Request -> Backend \cup {Nil}]
    /\ MaxCuts \in Nat

VARIABLES
    trip,       \* per request: "idle", "waiting", "answered" or "failed"
    toGateway,  \* per ingress: the Forwards on its connection, in order
    relaying,   \* per ingress: the request its loop at the gateway handles, or Nil
    toBackend,  \* per backend: the Forwards on the gateway's connection
    serving,    \* per backend: the request its loop handles, or Nil
    reply,      \* per request: the backend's answer the gateway's Call awaits
    seen,       \* per request: what the backend's handler was given, or Nil
    answer,     \* per request: the status RoundTrip returned, or Nil
    linked,     \* the backends the gateway has a connection to
    lost,       \* the requests whose call lost its connection, or found none
    cuts        \* connections lost so far

links == <<linked, lost, cuts>>
forwardVars == <<trip, toGateway, relaying, toBackend, serving, reply, seen, answer, links>>

Statuses == {"200", "400", "401", "501"}
Identities == {"client", "nobody"} \cup {Token[r] : r \in Request}
Frame == [req : Request, id : Identities, headers : SUBSET HeaderClasses]

\* Every variable has its type.
ForwardTypeOK ==
    /\ trip \in [Request -> {"idle", "waiting", "answered", "failed"}]
    /\ toGateway \in [Ingress -> Seq(Frame)]
    /\ relaying \in [Ingress -> Request \cup {Nil}]
    /\ toBackend \in [Backend -> Seq(Frame)]
    /\ serving \in [Backend -> Request \cup {Nil}]
    /\ reply \in [Request -> Statuses \cup {Nil}]
    /\ seen \in [Request -> [id : Identities, headers : SUBSET HeaderClasses] \cup {Nil}]
    /\ answer \in [Request -> Statuses \cup {Nil}]
    /\ linked \subseteq Backend /\ lost \subseteq Request /\ cuts \in 0 .. MaxCuts

ForwardInit ==
    /\ trip = [r \in Request |-> "idle"]
    /\ toGateway = [i \in Ingress |-> <<>>]
    /\ relaying = [i \in Ingress |-> Nil]
    /\ toBackend = [b \in Backend |-> <<>>]
    /\ serving = [b \in Backend |-> Nil]
    /\ reply = [r \in Request |-> Nil]
    /\ seen = [r \in Request |-> Nil]
    /\ answer = [r \in Request |-> Nil]
    /\ linked = {} /\ lost = {} /\ cuts = 0

--------------------------------------------------------------------------------
(* The ingress *)

\* MUTANT of stripClientIdentity: only the four headers of the contract go.
StripOwnFour(hs) == hs \ {"edge"}

stripClientIdentity(hs) == hs \ IdentityHeaders

\* The identity of the X-* headers becomes the typed one; "client" is whatever
\* the request said of itself.
Claimed(r) == IF "edge" \in Headers[r] THEN "client" ELSE "nobody"

requestToForward(r) ==
    [req |-> r, id |-> Claimed(r), headers |-> stripClientIdentity(Headers[r])]

MaySend == Cardinality({r \in Request : trip[r] # "idle"}) < MaxSent

RoundTrip(r) ==
    /\ trip[r] = "idle" /\ MaySend
    /\ trip' = [trip EXCEPT ![r] = "waiting"]
    /\ toGateway' = [toGateway EXCEPT ![From[r]] = Append(@, requestToForward(r))]
    /\ UNCHANGED <<links, relaying, toBackend, serving, reply, seen, answer>>

\* The body cannot be read: the request is not sent.
BodyFails(r) ==
    /\ trip[r] = "idle" /\ MaySend
    /\ trip' = [trip EXCEPT ![r] = "failed"]
    /\ UNCHANGED <<links, toGateway, relaying, toBackend, serving, reply, seen, answer>>

\* The request's context ends while RoundTrip waits.
GiveUp(r) ==
    /\ trip[r] = "waiting"
    /\ trip' = [trip EXCEPT ![r] = "failed"]
    /\ UNCHANGED <<links, toGateway, relaying, toBackend, serving, reply, seen, answer>>

\* An answer that comes back: RoundTrip returns it, if it still waits.
Returned(r, status) ==
    IF trip[r] = "waiting"
    THEN /\ trip' = [trip EXCEPT ![r] = "answered"]
         /\ answer' = [answer EXCEPT ![r] = status]
    ELSE UNCHANGED <<trip, answer>>

--------------------------------------------------------------------------------
(* The gateway *)

\* The gate establishes the identity of the token, or lets the request pass
\* without one: then the envelope keeps what it said.
Gate(f) == IF Token[f.req] = "none" THEN f ELSE [f EXCEPT !.id = Token[f.req]]

Identity(r) == IF Token[r] = "none" THEN Claimed(r) ELSE Token[r]

Denies(f) == Token[f.req] = "bad"

\* The gate fails, or the PeerPicker names a node the gateway cannot reach:
\* the handler returns an error, which the receive loop logs and drops.
Unanswered(f) ==
    \/ Token[f.req] = "error"
    \/ ~Denies(f) /\ PickPeer[f.req] = Nil

Taken(i) ==
    /\ relaying[i] = Nil /\ toGateway[i] # <<>>
    /\ toGateway' = [toGateway EXCEPT ![i] = Tail(@)]

RelayFails(i) ==
    /\ Taken(i)
    /\ Unanswered(Head(toGateway[i]))
    /\ UNCHANGED <<links, trip, relaying, toBackend, serving, reply, seen, answer>>

RelayDenies(i) ==
    /\ Taken(i)
    /\ LET f == Head(toGateway[i]) IN
       /\ ~Unanswered(f) /\ Denies(f)
       /\ Returned(f.req, "401")
    /\ UNCHANGED <<links, relaying, toBackend, serving, reply, seen>>

\* getOrConnect finds no connection and makes none: an error as well.
RelayUnreachable(i) ==
    /\ Taken(i)
    /\ LET f == Head(toGateway[i]) IN
       /\ ~Unanswered(f) /\ ~Denies(f) /\ PickPeer[f.req] \notin linked
       /\ lost' = lost \cup {f.req}
    /\ UNCHANGED <<trip, relaying, toBackend, serving, reply, seen, answer, linked, cuts>>

\* Relay holds the receive loop in its Call until the backend has answered: the
\* handler's context is the node's, and has no deadline.
Relay(i) ==
    /\ Taken(i)
    /\ LET f == Head(toGateway[i]) IN
       /\ ~Unanswered(f) /\ ~Denies(f)
       /\ toBackend' = [toBackend EXCEPT ![PickPeer[f.req]] = Append(@, Gate(f))]
       /\ relaying' = [relaying EXCEPT ![i] = f.req]
       /\ linked' = linked \cup {PickPeer[f.req]}
    /\ UNCHANGED <<trip, serving, reply, seen, answer, lost, cuts>>

\* The backend's answer goes back as it came.
RelayReturns(i) ==
    /\ relaying[i] # Nil /\ reply[relaying[i]] # Nil
    /\ Returned(relaying[i], reply[relaying[i]])
    /\ relaying' = [relaying EXCEPT ![i] = Nil]
    /\ UNCHANGED <<links, toGateway, toBackend, serving, reply, seen>>

\* The calls over the gateway's connection to a backend.
Calling(b) == {r \in Request : PickPeer[r] = b /\ \E i \in Ingress : relaying[i] = r}

\* That connection is lost, with the requests and the answers on it; the answer
\* of a handler that runs is lost as well.  Call selects on its answer and its
\* context only, so those that wait are not told.
CutBackend(b) ==
    /\ b \in linked /\ cuts < MaxCuts
    /\ linked' = linked \ {b} /\ cuts' = cuts + 1
    /\ lost' = lost \cup Calling(b)
    /\ toBackend' = [toBackend EXCEPT ![b] = <<>>]
    /\ serving' = [serving EXCEPT ![b] = Nil]
    /\ reply' = [r \in Request |-> IF r \in Calling(b) THEN Nil ELSE reply[r]]
    /\ UNCHANGED <<trip, toGateway, relaying, seen, answer>>

--------------------------------------------------------------------------------
(* The backend *)

validForwardLine(f) == Line[f.req] = "valid"

\* Names that are no token, and values with a line break, are left out.
validHeaders(hs) == hs \ {"malformed"}

\* What the http.Handler is given.
HandlerSees(f) == [id |-> f.id, headers |-> stripClientIdentity(validHeaders(f.headers))]

ServeBegin(b) ==
    /\ serving[b] = Nil /\ toBackend[b] # <<>>
    /\ LET f == Head(toBackend[b]) IN
       /\ validForwardLine(f)
       /\ serving' = [serving EXCEPT ![b] = f.req]
       /\ seen' = [seen EXCEPT ![f.req] = HandlerSees(f)]
    /\ toBackend' = [toBackend EXCEPT ![b] = Tail(@)]
    /\ UNCHANGED <<links, trip, toGateway, relaying, reply, answer>>

ServeRejects(b) ==
    /\ serving[b] = Nil /\ toBackend[b] # <<>>
    /\ LET f == Head(toBackend[b]) IN
       /\ ~validForwardLine(f)
       /\ reply' = [reply EXCEPT ![f.req] = "400"]
    /\ toBackend' = [toBackend EXCEPT ![b] = Tail(@)]
    /\ UNCHANGED <<links, trip, toGateway, relaying, serving, seen, answer>>

isStreamingResponse(r) == Kind[r] = "stream"

\* MUTANT of Status: a streamed response is left to its stream.
StatusOfStream(r) == IF isStreamingResponse(r) THEN Nil ELSE "200"

Status(r) == IF isStreamingResponse(r) THEN "501" ELSE "200"

\* A panic is recovered by the receive loop, which writes no answer.  What a
\* handler wrote is looked at when it has returned, streams included.
ServeEnd(b) ==
    /\ serving[b] # Nil /\ Kind[serving[b]] # "endless"
    /\ reply' = [reply EXCEPT ![serving[b]] =
                    IF Kind[serving[b]] = "panic" THEN Nil ELSE Status(serving[b])]
    /\ serving' = [serving EXCEPT ![b] = Nil]
    /\ UNCHANGED <<links, trip, toGateway, relaying, toBackend, seen, answer>>

--------------------------------------------------------------------------------

AtGateway(i) ==
    RelayFails(i) \/ RelayDenies(i) \/ RelayUnreachable(i) \/ Relay(i) \/ RelayReturns(i)
AtBackend(b) == ServeBegin(b) \/ ServeRejects(b) \/ ServeEnd(b)

ForwardNext ==
    \/ \E r \in Request : RoundTrip(r) \/ BodyFails(r) \/ GiveUp(r)
    \/ \E i \in Ingress : AtGateway(i)
    \/ \E b \in Backend : AtBackend(b) \/ CutBackend(b)

\* The receive loops run, and handlers that are not endless return.
ForwardFairness ==
    /\ \A i \in Ingress : WF_forwardVars(AtGateway(i))
    /\ \A b \in Backend : WF_forwardVars(AtBackend(b))

ForwardSpec == ForwardInit /\ [][ForwardNext]_forwardVars /\ ForwardFairness

--------------------------------------------------------------------------------

\* Only the gate lets a request through, and the identity it names is the one a
\* handler sees: a backend's handler runs for no request the gate refused or
\* failed on, it sees the identity of the token and no header by which the client
\* names itself, and the status a client gets is the one its own request earned,
\* whatever was lost or given up meanwhile.  Where the gate names none, the
\* handler sees the identity the ingress found in the X-* headers.
GateDecides ==
    \A r \in Request :
        /\ seen[r] # Nil =>
               /\ Token[r] \notin {"bad", "error"}
               /\ seen[r].id = Identity(r)
               /\ seen[r].headers \cap (IdentityHeaders \cup {"malformed"}) = {}
               /\ ("auth" \in Headers[r]) => ("auth" \in seen[r].headers)
        /\ answer[r] # Nil =>
               answer[r] = IF Token[r] = "bad" THEN "401"
                           ELSE IF Line[r] = "invalid" THEN "400"
                           ELSE IF Kind[r] = "stream" THEN "501" ELSE "200"

\* A call that waits for an answer nobody will write: its connection was lost, or
\* the handler has panicked.
Abandoned(r) ==
    \/ r \in lost
    \/ Kind[r] = "panic" /\ seen[r] # Nil /\ serving[PickPeer[r]] # r

\* The backend's loop is with a handler that does not return.
Occupied(b) == serving[b] # Nil /\ Kind[serving[b]] = "endless"

\* The gateway's receive loop for an ingress waits for ever.
Held(i) == relaying[i] # Nil /\ (Abandoned(relaying[i]) \/ Occupied(PickPeer[relaying[i]]))

\* A request has been answered or given up and no loop is with it; or it never
\* will: the gate fails on it, its path leads nowhere, its connection was lost or
\* could not be made, or the loop that has it is held.
Settled(r) ==
    \/ trip[r] # "waiting" /\ relaying[From[r]] # r
    \/ Token[r] = "error"
    \/ Token[r] # "bad" /\ PickPeer[r] = Nil
    \/ r \in lost /\ relaying[From[r]] # r
    \/ Held(From[r])

\* What the gateway relays comes back, and its loop for an ingress does not stay
\* with a request, a streamed response that ends included (501, serve.go), except
\* where Held says so: Relay's Call has no deadline and is not told when the
\* backend's connection goes, its handler panics or does not return, and every
\* later request of that ingress then waits behind it.
ForwardSettles == []<>(\A r \in Request : Settled(r))
================================================================================
