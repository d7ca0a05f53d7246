------------------------------ MODULE MCPQSession ------------------------------
(***************************************************************************)
(* Model-checking instances of PQSession.  The constants of the            *)
(* configuration are those of the "faults" part, where two goroutines of   *)
(* one side send over a network that damages a frame, or tear one; in the  *)
(* "close" part they send and rekey into a buffer of one frame, so that    *)
(* DATA and REKEY writes wait for room, and either side may close.         *)
(* The "replay" part is ReplayCache, the gate a HELLO passes before there  *)
(* is a session.  A behaviour is one part's.                               *)
(***************************************************************************)
EXTENDS PQSession, ReplayLimits

CONSTANTS s1, s2

VARIABLES part, clock, frozenAt, pc, hello, now

R == INSTANCE ReplayCache

replayVars == <<clock, stamp, active, frozen, frozenAt, pc, hello, now, admits>>

Tight == INSTANCE PQSession WITH
            ISender <- {s1, s2}, RSender <- {}, FrameCap <- 2, EpochMax <- 1,
            WireCap <- 1, MaxSend <- 2, MaxFaults <- 0

pqVars == <<wire, open, sendKey, sendCounter, sendEpoch, recvKey, recvCounter,
            recvHave, recvEpoch, closed, sendMu, recvMu, spc, scall, rpc, cpc,
            sent, got, sealed, errs, faults>>

mcVars == <<part, pqVars, replayVars>>

MCInit ==
    /\ \/ part \in {"faults", "replay"} /\ Init
       \/ part = "close" /\ Tight!Init
    /\ R!Init /\ (part # "replay" => \A k \in Key : stamp[k] = 0)

Closing(A) == part = "close" /\ A /\ UNCHANGED <<part, replayVars>>

MCNext ==
    \/ part = "faults" /\ Next /\ UNCHANGED <<part, replayVars>>
    \/ Closing(Tight!Next)
    \/ part = "replay" /\ R!Next /\ UNCHANGED <<part, pqVars>>

\* The fairness of PQSession, for the part that closes.
MCSpec ==
    /\ MCInit /\ [][MCNext]_mcVars
    /\ \A t \in {s1, s2} : WF_mcVars(Closing(Tight!SenderStep(t)))
    /\ \A e \in End : WF_mcVars(Closing(Tight!ReceiverStep(e)))
                    /\ WF_mcVars(Closing(Tight!CloserStep(e)))

\* Close returns and frees every parked call (PQSession): a Recv with nothing to
\* read, and a Send or Rekey whose write waits for room while another waits for
\* the mutex.
MCCloseReturns == (part = "close") => Tight!CloseReturns
================================================================================
