-------------------------------- MODULE MCNode --------------------------------
(***************************************************************************)
(* Model-checking instances of a TCP node: its connection table            *)
(* (NodeConns), and the calls over one of its connections (Rpc).  A        *)
(* behaviour is one part's.  "conns": node n1 has the lower ID.  "any":    *)
(* the constants of the configuration, where handlers may do everything;   *)
(* "replying": they reply and call nobody, and one ctx may end.            *)
(***************************************************************************)
EXTENDS NodeConns, Rpc

CONSTANTS n1, n2, n3, a1

VARIABLE part

\* n1 learns of n2 by discovery and dials; n2 dials n1 when it has to send.
LowerDials  == {<<n1, n2>>}
HigherSends == {<<n2, n1, n1>>}
\* n1 also sends to n3, whose last known address is now n2's.
StaleToo    == HigherSends \cup {<<n1, n3, n2>>}

\* Discovery reports n2 lost at n1.
LostAtLower == {<<n1, n2>>}

Replying == INSTANCE Rpc WITH
                Outcomes <- {"reply"}, Nesting <- FALSE, Expiring <- {a1}

rpcVars == <<up, wire, reqID, issued, pending, phase, id, chan, answer, expired,
             loop, cur, inner, ran>>
mcVars == <<part, connVars, rpcVars>>

MCInit ==
    /\ part \in {"conns", "any", "replying"}
    /\ ConnsInit /\ Init

InConns(A)    == part = "conns" /\ A /\ UNCHANGED <<part, rpcVars>>
InAny(A)      == part = "any" /\ A /\ UNCHANGED <<part, connVars>>
InReplying(A) == part = "replying" /\ A /\ UNCHANGED <<part, connVars>>

MCNext == InConns(ConnsNext) \/ InAny(Next) \/ InReplying(Replying!Next)

\* The fairness of NodeConns and of Rpc, each in its parts.
MCSpec ==
    /\ MCInit /\ [][MCNext]_mcVars
    /\ \A s \in Sock :
          /\ WF_mcVars(InConns(DialStep(s) \/ ReadLoopStep(Dial(s))))
          /\ WF_mcVars(InConns(AcceptStep(s) \/ ReadLoopStep(Accept(s))))
    /\ \A x \in Side : WF_mcVars(InConns(CloseOnStop(x)))
    /\ \A n \in Stops : WF_mcVars(InConns(StopWipe(n)))
    /\ \A c \in Call : WF_mcVars(InAny(CallStep(c)) \/ InReplying(Replying!CallStep(c)))
    /\ \A e \in End : WF_mcVars(InAny(LoopStep(e)) \/ InReplying(Replying!LoopStep(e)))

\* See Rpc: a call whose handler replies gets its answer.
MCAnswered == (part = "replying") => Answered
===============================================================================
