\* The router with three interfaces and two senders, nine kinds of requests,
\* and a client that makes two calls.
CONSTANTS
    None = None
    i1 = i1
    i2 = i2
    i3 = i3
    Iface = {i1, i2, i3}
    Cost <- TiedCost
    Sender = {a, b}
    MaxFlaps = 1
    Nil = Nil
    Request <- Requests
    MaxSent = 3
    From <- FromOf
    Headers <- HeadersOf
    Line <- LineOf
    Token <- TokenOf
    Backend = {"base"}
    PickPeer <- PickOf
    Kind <- KindOf
    MaxCuts = 1
    Unset = Unset
    Procedure = {"get", "put"}
    Opcode <- OpcodeOf
    Server = {"s1", "s2"}
    Peers <- StaticPeers
    Allowed = {"get"}
    Call = {"c1", "c2"}
    Asks <- AsksOf
    MinPeers = 2
    MaxLosses = 1
SPECIFICATION MCSpec
INVARIANTS
    RouteIsBest
    GateDecides
    RunsOwnProcedure
PROPERTIES
    ForwardSettles
    NothingLeaks
CHECK_DEADLOCK FALSE
