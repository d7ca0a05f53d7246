-------------------------------- MODULE MCBridges --------------------------------
(***************************************************************************)
(* Three components that lie on top of a node and do not share state, in   *)
(* one model: the locality router, HTTP forwarding and zapclient.  A       *)
(* behaviour is one of a single part; the others stay in their initial     *)
(* state.                                                                  *)
(***************************************************************************)
EXTENDS Router, Forward, ZapClient, TLC

CONSTANTS i1, i2, i3

\* A tie, and one interface cheaper than the rest.
TiedCost == [i \in {i1, i2, i3} |-> IF i = i1 THEN 0 ELSE 10]

VARIABLE part   \* "router", "forward" or "client"

routerVars == vars
allVars == <<part, routerVars, forwardVars, clientVars>>

\* Requests through three ingress nodes: one with every class of header, one
\* whose token is bad, one the gate passes without a token, one answered by a
\* stream, one the gate fails on, one with a malformed line, one to nowhere, one
\* whose handler panics, one whose handler does not return.
Requests == {"full", "bad", "public", "stream", "gatefails", "badline", "nowhere",
             "panics", "endless"}
FromOf == [r \in Requests |->
              IF r \in {"full", "bad", "endless"} THEN "in1"
              ELSE IF r \in {"stream", "gatefails", "badline"} THEN "in2" ELSE "in3"]
HeadersOf == [r \in Requests |->
                 IF r = "full" THEN {"edge", "legacy", "cookie", "auth", "plain", "malformed"}
                 ELSE IF r \in {"bad", "public"} THEN {"edge", "auth"} ELSE {"auth"}]
LineOf == [r \in Requests |-> IF r = "badline" THEN "invalid" ELSE "valid"]
TokenOf == [r \in Requests |-> IF r = "bad" THEN "bad"
                               ELSE IF r = "gatefails" THEN "error"
                               ELSE IF r = "public" THEN "none"
                               ELSE IF r = "full" THEN "alice" ELSE "bob"]
PickOf == [r \in Requests |-> IF r = "nowhere" THEN Nil ELSE "base"]
KindOf == [r \in Requests |-> IF r = "stream" THEN "stream"
                              ELSE IF r = "endless" THEN "endless"
                              ELSE IF r = "panics" THEN "panic" ELSE "plain"]

\* Two servers, two static addresses; "get" and "put" have the same opcode.
OpcodeOf == [p \in {"get", "put"} |-> 1]
AsksOf == [c \in {"c1", "c2"} |-> IF c = "c1" THEN "get" ELSE "put"]

StaticPeers == <<"host1", "host2">>

MCInit ==
    /\ part \in {"router", "forward", "client"}
    /\ Init /\ ForwardInit /\ ClientInit
    /\ part # "router" => reach = {}
    /\ part # "client" => at = [a \in {"host1", "host2"} |-> "s1"]

MCNext ==
    \/ part = "router" /\ Next /\ UNCHANGED <<part, forwardVars, clientVars>>
    \/ part = "forward" /\ ForwardNext /\ UNCHANGED <<part, routerVars, clientVars>>
    \/ part = "client" /\ ClientNext /\ UNCHANGED <<part, routerVars, forwardVars>>

OtherThanForward == <<part, routerVars, clientVars>>
OtherThanClient == <<part, routerVars, forwardVars>>

MCSpec ==
    /\ MCInit /\ [][MCNext]_allVars
    /\ \A i \in Ingress :
           WF_allVars(part = "forward" /\ AtGateway(i) /\ UNCHANGED OtherThanForward)
    /\ \A b \in Backend :
           WF_allVars(part = "forward" /\ AtBackend(b) /\ UNCHANGED OtherThanForward)
    /\ \A s \in Server :
           WF_allVars(part = "client" /\ Drop(s) /\ UNCHANGED OtherThanClient)
================================================================================
