--------------------------------- MODULE MCDex ---------------------------------
(* Model-checking instance of the DEX sessions.  A behaviour is one part's:     *)
(* V4Session with one flow of every kind, requests that are accepted and        *)
(* refused, under full and partial grants; or V4Stream with every stream.       *)
EXTENDS V4Session, V4Stream, TLC

CONSTANTS a, i1, i2

VARIABLE part

Request(i, n, k, x) == [id |-> i, amount |-> n, known |-> k, delta |-> x]
Good(k) == Request(i1, 1, TRUE, IF k = "v4lp" THEN 1 ELSE -1)
SomeRequests == {Request(i1, 1, TRUE, 1), Request(i1, 1, TRUE, -1),
                 Request(i1, 0, TRUE, -1), Request(i1, 1, FALSE, -1),
                 Request(i2, 1, TRUE, 0)}
SomeGrants == {AuthorityPublic, {"quote", "intent"}, {"intent", "watch", "settlement"}}
SomeSetups ==
    LET All == {"swap", "sender", "v4swap", "v4route", "v4lp", "v4collect", "v4state"}
        Odd == {"swap", "v4route"} \X {Request(i1, 0, TRUE, -1)}
                 \cup {"swap", "v4swap"} \X {Request(i1, 1, FALSE, -1)}
                 \cup {"v4lp", "v4collect"} \X {Request(i2, 1, TRUE, 0)}
    IN  {[f \in Flows |-> [kind |-> k, req |-> Good(k)]] : k \in All}
          \cup {[f \in Flows |-> [kind |-> o[1], req |-> o[2]]] : o \in Odd}

sessionVars == <<flow, grant, honest, prom, pc, dep, wire, sent, ctx, cap, late, funded, dphase>>
mcVars == <<part, sessionVars, streamVars>>

Session(A) == part = "session" /\ A /\ UNCHANGED <<part, streamVars>>
Stream(A) == part = "stream" /\ A /\ UNCHANGED <<part, sessionVars>>

MCInit ==
    /\ part \in {"session", "stream"}
    /\ Init /\ StreamInit
    /\ part = "session" =>
         /\ which = "quote" /\ truthful
         /\ ~honest => grant = AuthorityPublic
    /\ part = "stream" =>
         /\ grant = AuthorityPublic /\ honest
         /\ flow = [f \in Flows |-> [kind |-> "swap", req |-> Good("swap")]]

MCNext == Session(Next) \/ Stream(StreamNext)

\* The fairness of either specification.
MCSpec ==
    /\ MCInit /\ [][MCNext]_mcVars
    /\ \A h \in Handles : WF_mcVars(Session(Work(h)))
    /\ WF_mcVars(Stream(Goroutine)) /\ WF_mcVars(Stream(Receive))

\* Cancelling a context ends what waits under it: the promises of the sessions
\* (Await, streamUntilCommitted) and the goroutines of the streams (emit,
\* sleepCtx), blocked sends included.
CancelEnds == CancelResolves /\ CancelCloses
================================================================================
