------------------------------- MODULE PQSession -------------------------------
(***************************************************************************)
(* The record layer of ZAP-PQ-v1 after the handshake: handshake/session.go *)
(* with writeFrame, readFrame and writeAlertFor of handshake/frames.go.    *)
(* Two Sessions, the initiator "I" and the responder "R", share one        *)
(* connection.  Each may have several goroutines in Send or Rekey, one in  *)
(* Recv and one in Close, all running concurrently.                        *)
(*                                                                         *)
(* A key is the number of ratchet steps that led to it (Ratchet is a hash: *)
(* different counts, different keys); Zero is a wiped key, whose AEAD is   *)
(* nil.  Key and salt change together, so the pair (key, counter) stands   *)
(* for the AEAD nonce under its key.  A ciphertext opens exactly under the *)
(* key, counter and epoch it was sealed with, unless it was altered.       *)
(*                                                                         *)
(* writeFrame is ONE Write of the connection, so frames never interleave;  *)
(* a write waits while the socket buffer is full and a read while it is    *)
(* empty, and closing the connection ends both.  A write deadline, which   *)
(* conn_pq.go forwards to the connection, may end a write when part of the *)
(* frame is out: a torn frame.  The reader takes the bytes it misses from  *)
(* the frames behind it, and its framing is lost until by chance it fits.  *)
(*                                                                         *)
(* The bytes and time thresholds of needsRekeyLocked may be reached at any *)
(* Send; only the frame counter is kept.  A payload is its position among  *)
(* the payloads of its direction whose frame was written whole.            *)
(***************************************************************************)
EXTENDS Naturals, Integers, Sequences, FiniteSets

CONSTANTS
    ISender, RSender,   \* goroutines that call Send and Rekey on each side
    FrameCap,           \* RekeyFrameCap: counters of one epoch stay below it
    EpochMax,           \* 0xFF: the last epoch
    WireCap,            \* frames the socket buffers of one direction hold
    MaxSend,            \* bound on the payloads of one direction
    MaxFaults           \* bound on the frames damaged or torn

ASSUME SessionAssumption ==
    /\ FrameCap \in Nat /\ FrameCap >= 2
    /\ EpochMax \in Nat
    /\ WireCap \in Nat \ {0}
    /\ MaxSend \in Nat \ {0}
    /\ MaxFaults \in Nat
    /\ ISender \cap RSender = {}
    /\ "nobody" \notin ISender \cup RSender

End == {"I", "R"}
Peer(e) == IF e = "I" THEN "R" ELSE "I"
Sender == ISender \cup RSender
EndOf(t) == IF t \in ISender THEN "I" ELSE "R"
Zero == -1
NoOne == "nobody"

VARIABLES
    wire,       \* per end: the frames it wrote that the peer has not read
    open,       \* per end: its half of the connection is not closed
    sendKey, sendCounter, sendEpoch,
    recvKey, recvCounter, recvHave, recvEpoch,
    closed,     \* the atomic flag
    sendMu,     \* the sender that holds the mutex, or nobody
    recvMu,     \* "receiver" while a Recv holds the mutex, or nobody
    spc,        \* per sender: "idle", "rekeying" (REKEY to be written),
                \* "sealing" (DATA to be written); the mutex is held
    scall,      \* per sender: which call is running, "Send" or "Rekey"
    rpc,        \* per end: Recv is "idle", "reading" or "alerting"
    cpc,        \* per end: 0 before Close, then the step of ClosePlan it is at
    sent,       \* per end: payloads put on the wire so far
    got,        \* per end: payloads its Recv has returned
    sealed,     \* per end, history: what was sealed and written, under which
                \* nonce; payload 0 where the write failed under way
    errs,       \* per end, history: the errors its Recv has returned
    faults      \* frames damaged, or torn by a Send, so far

sendVars == <<sendKey, sendCounter, sendEpoch>>
recvVars == <<recvKey, recvCounter, recvHave, recvEpoch>>
histVars == <<sent, got, sealed, errs>>
vars == <<wire, open, sendVars, recvVars, closed, sendMu, recvMu,
          spc, scall, rpc, cpc, histVars, faults>>

Data(e) == [type |-> "data", key |-> sendKey[e], ctr |-> sendCounter[e],
            epoch |-> sendEpoch[e], payload |-> sent[e] + 1, intact |-> TRUE]
Rekey == [type |-> "rekey"]
Alert == [type |-> "alert"]
Torn == [type |-> "torn"]

DataFrame == [type : {"data"}, key : 0 .. EpochMax, ctr : 0 .. FrameCap,
              epoch : 0 .. EpochMax, payload : 1 .. MaxSend, intact : BOOLEAN]
Frame == DataFrame \cup {Rekey, Alert, Torn}

\* What the sender's history keeps of a DATA frame.
Sealing == [key : 0 .. EpochMax, ctr : 0 .. FrameCap - 1, payload : 0 .. MaxSend]
Sealed(e, payload) ==
    sealed' = [sealed EXCEPT ![e] = @ \cup
        {[key |-> sendKey[e], ctr |-> sendCounter[e], payload |-> payload]}]

\* MUTANT of ClosePlan: the mutexes first, as the comment on Close warns.
LockBeforeClose == <<"send", "recv", "conn">>

\* The order in which Close works: unblock parked I/O first, then take each
\* mutex to wipe the keys behind it.
ClosePlan == <<"conn", "send", "recv">>

\* Every variable has its type.
TypeOK ==
    /\ wire \in [End -> Seq(Frame)]
    /\ open \in [End -> BOOLEAN] /\ closed \in [End -> BOOLEAN]
    /\ sendKey \in [End -> {Zero} \cup 0 .. EpochMax]
    /\ recvKey \in [End -> {Zero} \cup 0 .. EpochMax]
    /\ sendCounter \in [End -> 0 .. FrameCap - 1]
    /\ recvCounter \in [End -> 0 .. FrameCap - 1]
    /\ sendEpoch \in [End -> 0 .. EpochMax]
    /\ recvEpoch \in [End -> 0 .. EpochMax]
    /\ recvHave \in [End -> BOOLEAN]
    /\ sendMu \in [End -> Sender \cup {NoOne}]
    /\ recvMu \in [End -> {"receiver", NoOne}]
    /\ spc \in [Sender -> {"idle", "rekeying", "sealing"}]
    /\ scall \in [Sender -> {"Send", "Rekey"}]
    /\ rpc \in [End -> {"idle", "reading", "alerting"}]
    /\ cpc \in [End -> 0 .. 4]
    /\ sent \in [End -> 0 .. MaxSend]
    /\ got \in [End -> Seq(1 .. MaxSend)]
    /\ sealed \in [End -> SUBSET Sealing]
    /\ errs \in [End -> SUBSET {"nonce_violation", "auth_failed",
                               "epoch_exhausted", "alert", "io"}]
    /\ faults \in 0 .. MaxFaults

\* newSession on both sides of a finished handshake: the keys of a direction
\* agree, counters and epochs start at 0.
Init ==
    /\ wire = [e \in End |-> <<>>]
    /\ open = [e \in End |-> TRUE]
    /\ sendKey = [e \in End |-> 0] /\ recvKey = [e \in End |-> 0]
    /\ sendCounter = [e \in End |-> 0] /\ recvCounter = [e \in End |-> 0]
    /\ sendEpoch = [e \in End |-> 0] /\ recvEpoch = [e \in End |-> 0]
    /\ recvHave = [e \in End |-> FALSE]
    /\ closed = [e \in End |-> FALSE]
    /\ sendMu = [e \in End |-> NoOne] /\ recvMu = [e \in End |-> NoOne]
    /\ spc = [t \in Sender |-> "idle"]
    /\ scall = [t \in Sender |-> "Send"]
    /\ rpc = [e \in End |-> "idle"]
    /\ cpc = [e \in End |-> 0]
    /\ sent = [e \in End |-> 0]
    /\ got = [e \in End |-> <<>>]
    /\ sealed = [e \in End |-> {}]
    /\ errs = [e \in End |-> {}]
    /\ faults = 0

-------------------------------------------------------------------------------
\* The connection.  A write to a peer that has closed may still succeed.
CanWrite(e)  == open[e] /\ Len(wire[e]) < WireCap
WriteFails(e) == ~open[e] \/ ~open[Peer(e)]
Written(e, f) == wire' = [wire EXCEPT ![e] = Append(@, f)]

Unlock(t) ==
    /\ sendMu' = [sendMu EXCEPT ![EndOf(t)] = NoOne]
    /\ spc' = [spc EXCEPT ![t] = "idle"]

\* MUTANT of LockSend: the closed flag is not looked at under the mutex.
LockSendUnchecked(t) ==
    /\ spc[t] = "idle"
    /\ sendMu[EndOf(t)] = NoOne
    /\ sendMu' = [sendMu EXCEPT ![EndOf(t)] = t]

\* Lock sendMu and look at the closed flag.  A closed session refuses the
\* call: the mutex is released again and nothing has changed.
LockSend(t) ==
    /\ spc[t] = "idle"
    /\ sendMu[EndOf(t)] = NoOne
    /\ ~closed[EndOf(t)]
    /\ sendMu' = [sendMu EXCEPT ![EndOf(t)] = t]

\* needsRekeyLocked: the counter has reached the cap (or, at any time, one of
\* the other two thresholds has).
CounterAtCap(e) == sendCounter[e] + 1 >= FrameCap

\* Send up to its first write.
SendBegin(t) ==
    /\ sent[EndOf(t)] < MaxSend
    /\ LockSend(t)
    /\ scall' = [scall EXCEPT ![t] = "Send"]
    /\ \/ spc' = [spc EXCEPT ![t] = "rekeying"]
       \/ /\ ~CounterAtCap(EndOf(t))
          /\ spc' = [spc EXCEPT ![t] = "sealing"]
    /\ UNCHANGED <<wire, open, sendVars, recvVars, closed, recvMu, rpc, cpc,
                   histVars, faults>>

\* Rekey up to its write.
RekeyBegin(t) ==
    /\ LockSend(t)
    /\ scall' = [scall EXCEPT ![t] = "Rekey"]
    /\ spc' = [spc EXCEPT ![t] = "rekeying"]
    /\ UNCHANGED <<wire, open, sendVars, recvVars, closed, recvMu, rpc, cpc,
                   histVars, faults>>

\* MUTANT of Ratchet: the new key is derived and not stored.
RatchetNotStored(key) == key

\* sendEpoch == 0xFF: the session must not be rekeyed any more.
EpochLeft(epoch) == epoch < EpochMax
\* Ratchet(key, epoch): the next key of the direction.
Ratchet(key) == key + 1

\* rekeyLocalLocked: write REKEY, then ratchet.  A Send goes on to its DATA,
\* or finds its payload too large for a frame (without a rekey before it, such
\* a Send changes nothing).
RekeyWrite(t) ==
    LET e == EndOf(t) IN
    /\ spc[t] = "rekeying"
    /\ EpochLeft(sendEpoch[e])
    /\ CanWrite(e)
    /\ Written(e, Rekey)
    /\ sendKey' = [sendKey EXCEPT ![e] = Ratchet(@)]
    /\ sendEpoch' = [sendEpoch EXCEPT ![e] = @ + 1]
    /\ sendCounter' = [sendCounter EXCEPT ![e] = 0]
    /\ \/ /\ scall[t] = "Send"
          /\ spc' = [spc EXCEPT ![t] = "sealing"]
          /\ UNCHANGED sendMu
       \/ Unlock(t)
    /\ UNCHANGED <<open, recvVars, closed, recvMu, scall, rpc, cpc, histVars,
                   faults>>

\* ErrEpochExhausted, or the write failed: the call returns, nothing changed.
RekeyFail(t) ==
    /\ spc[t] = "rekeying"
    /\ ~EpochLeft(sendEpoch[EndOf(t)]) \/ WriteFails(EndOf(t))
    /\ Unlock(t)
    /\ UNCHANGED <<wire, open, sendVars, recvVars, closed, recvMu, scall, rpc,
                   cpc, histVars, faults>>

\* Seal and write the DATA frame, then count it.
SealWrite(t) ==
    LET e == EndOf(t) IN
    /\ spc[t] = "sealing"
    /\ CanWrite(e)
    /\ Written(e, Data(e))
    /\ Sealed(e, sent[e] + 1)
    /\ sent' = [sent EXCEPT ![e] = @ + 1]
    /\ sendCounter' = [sendCounter EXCEPT ![e] = @ + 1]
    /\ Unlock(t)
    /\ UNCHANGED <<open, sendKey, sendEpoch, recvVars, closed, recvMu, scall,
                   rpc, cpc, got, errs, faults>>

\* The connection is gone and with it the write of what was sealed: the counter
\* stays, the caller is told.
SealFail(t) ==
    /\ spc[t] = "sealing"
    /\ WriteFails(EndOf(t))
    /\ Sealed(EndOf(t), 0)
    /\ Unlock(t)
    /\ UNCHANGED <<wire, open, sendVars, recvVars, closed, recvMu, scall, rpc,
                   cpc, sent, got, errs, faults>>

\* A deadline ends a write: before anything was written, or, where the buffers
\* had room for a part of the frame only, with that part on the wire.
PartWritten(e) == open[e] /\ Written(e, Torn)

\* The same errors as RekeyFail's and SealFail's: key, epoch and counter stay.
SendDeadline(t) ==
    LET e == EndOf(t) IN
    /\ spc[t] # "idle"
    /\ \/ UNCHANGED <<wire, faults, sealed>>
       \/ /\ PartWritten(e) /\ ~CanWrite(e)
          /\ faults < MaxFaults /\ faults' = faults + 1
          /\ \/ spc[t] = "rekeying" /\ UNCHANGED sealed
             \/ spc[t] = "sealing" /\ Sealed(e, 0)
    /\ Unlock(t)
    /\ UNCHANGED <<open, sendVars, recvVars, closed, recvMu, scall, rpc, cpc,
                   sent, got, errs>>

-------------------------------------------------------------------------------
\* Recv locks recvMu and looks at the closed flag.
RecvBegin(e) ==
    /\ rpc[e] = "idle"
    /\ recvMu[e] = NoOne
    /\ ~closed[e]
    /\ recvMu' = [recvMu EXCEPT ![e] = "receiver"]
    /\ rpc' = [rpc EXCEPT ![e] = "reading"]
    /\ UNCHANGED <<wire, open, sendVars, recvVars, closed, sendMu, spc, scall,
                   cpc, histVars, faults>>

\* readFrame takes the next frame off the connection.
FrameReady(e) == rpc[e] = "reading" /\ open[e] /\ wire[Peer(e)] # <<>>
NextFrame(e)  == Head(wire[Peer(e)])
WholeFrame(e) == wire[Peer(e)] # <<>> /\ NextFrame(e) # Torn
Consume(e)    == wire' = [wire EXCEPT ![Peer(e)] = Tail(@)]

RecvReturns(e) ==
    /\ rpc' = [rpc EXCEPT ![e] = "idle"]
    /\ recvMu' = [recvMu EXCEPT ![e] = NoOne]

\* MUTANT of StaleCounter: a counter may come twice.
StaleUnlessEqual(e, f) == recvHave[e] /\ f.ctr < recvCounter[e]

\* d.NonceCounter <= s.recvCounter: not strictly greater than the last.
StaleCounter(e, f) == recvHave[e] /\ f.ctr <= recvCounter[e]

NonceViolation(e, f) == StaleCounter(e, f) \/ f.ctr >= FrameCap

\* recvAEAD.Open under the current key, the frame's counter and the epoch.
Opens(e, f) == f.intact /\ f.key = recvKey[e] /\ f.epoch = recvEpoch[e]

\* handleDataLocked on a frame that passes every test.
RecvData(e) ==
    LET f == NextFrame(e) IN
    /\ FrameReady(e)
    /\ f.type = "data"
    /\ ~NonceViolation(e, f)
    /\ Opens(e, f)
    /\ Consume(e)
    /\ recvCounter' = [recvCounter EXCEPT ![e] = f.ctr]
    /\ recvHave' = [recvHave EXCEPT ![e] = TRUE]
    /\ got' = [got EXCEPT ![e] = Append(@, f.payload)]
    /\ RecvReturns(e)
    /\ UNCHANGED <<open, sendVars, recvKey, recvEpoch, closed, sendMu, spc,
                   scall, cpc, sent, sealed, errs, faults>>

\* The errors that Recv answers with an ALERT before it returns them.
RecvRejects(e, error) ==
    /\ FrameReady(e)
    /\ Consume(e)
    /\ errs' = [errs EXCEPT ![e] = @ \cup {error}]
    /\ rpc' = [rpc EXCEPT ![e] = "alerting"]
    /\ UNCHANGED <<open, sendVars, recvVars, closed, sendMu, recvMu, spc,
                   scall, cpc, sent, got, sealed, faults>>

RecvNonceViolation(e) ==
    /\ FrameReady(e) /\ NextFrame(e).type = "data"
    /\ NonceViolation(e, NextFrame(e))
    /\ RecvRejects(e, "nonce_violation")

RecvAuthFailed(e) ==
    /\ FrameReady(e) /\ NextFrame(e).type = "data"
    /\ ~NonceViolation(e, NextFrame(e))
    /\ ~Opens(e, NextFrame(e))
    /\ RecvRejects(e, "auth_failed")

RecvEpochExhausted(e) ==
    /\ FrameReady(e) /\ NextFrame(e).type = "rekey"
    /\ ~EpochLeft(recvEpoch[e])
    /\ RecvRejects(e, "epoch_exhausted")

\* writeAlertFor; its own failure is ignored.
AlertWrite(e) ==
    /\ rpc[e] = "alerting"
    /\ \/ CanWrite(e) /\ Written(e, Alert)
       \/ WriteFails(e) /\ UNCHANGED wire
    /\ RecvReturns(e)
    /\ UNCHANGED <<open, sendVars, recvVars, closed, sendMu, spc, scall, cpc,
                   histVars, faults>>

\* A deadline ends the write, whether or not there is room for a whole frame.  (An
\* alert answers a fault, so its being torn is not counted as one.)
AlertDeadline(e) ==
    /\ rpc[e] = "alerting"
    /\ UNCHANGED wire \/ PartWritten(e)
    /\ RecvReturns(e)
    /\ UNCHANGED <<open, sendVars, recvVars, closed, sendMu, spc, scall, cpc,
                   histVars, faults>>

\* MUTANT of HaveAfterRekey: the counter of the old epoch is still compared.
HaveKept(have) == have

\* s.recvHave = false: the new epoch counts from 0 again.
HaveAfterRekey(have) == FALSE

\* rekeyRemoteLocked, and Recv goes on reading.
RecvRekey(e) ==
    /\ FrameReady(e) /\ NextFrame(e).type = "rekey"
    /\ EpochLeft(recvEpoch[e])
    /\ Consume(e)
    /\ recvKey' = [recvKey EXCEPT ![e] = Ratchet(@)]
    /\ recvEpoch' = [recvEpoch EXCEPT ![e] = @ + 1]
    /\ recvCounter' = [recvCounter EXCEPT ![e] = 0]
    /\ recvHave' = [recvHave EXCEPT ![e] = HaveAfterRekey(@)]
    /\ UNCHANGED <<open, sendVars, closed, sendMu, recvMu, spc, scall, rpc,
                   cpc, histVars, faults>>

\* An ALERT of the peer, or an error of the connection, ends the call.
RecvFails(e, error) ==
    /\ errs' = [errs EXCEPT ![e] = @ \cup {error}]
    /\ RecvReturns(e)
    /\ UNCHANGED <<open, sendVars, recvVars, closed, sendMu, spc, scall, cpc,
                   sent, got, sealed, faults>>

RecvAlert(e) ==
    /\ FrameReady(e) /\ NextFrame(e).type = "alert"
    /\ Consume(e)
    /\ RecvFails(e, "alert")

RecvIOError(e) ==
    /\ rpc[e] = "reading"
    /\ ~open[e] \/ (~open[Peer(e)] /\ ~WholeFrame(e))
    /\ UNCHANGED wire
    /\ RecvFails(e, "io")

\* readFrame at a torn frame fills it up from what follows: the outcome may be
\* any frame but an intact DATA, and what follows it may be torn again.  (A frame
\* that does not decode is refused as an altered one is.)
Garbled(c) == [type |-> "data", key |-> 0, ctr |-> c, epoch |-> 0, payload |-> 1,
               intact |-> FALSE]
Misread(e) ==
    LET w == wire[Peer(e)] IN
    /\ FrameReady(e) /\ NextFrame(e) = Torn
    /\ \E n \in 2 .. Len(w), f \in {Garbled(c) : c \in 0 .. FrameCap} \cup {Rekey, Alert},
          rest \in {<<>>, <<Torn>>} :
          wire' = [wire EXCEPT ![Peer(e)] = <<f>> \o rest \o SubSeq(w, n + 1, Len(w))]
    /\ UNCHANGED <<open, sendVars, recvVars, closed, sendMu, recvMu, spc, scall,
                   rpc, cpc, histVars, faults>>

-------------------------------------------------------------------------------
\* Close wins the CompareAndSwap; later calls return at once.
CloseBegin(e) ==
    /\ ~closed[e]
    /\ closed' = [closed EXCEPT ![e] = TRUE]
    /\ cpc' = [cpc EXCEPT ![e] = 1]
    /\ UNCHANGED <<wire, open, sendVars, recvVars, sendMu, recvMu, spc, scall,
                   rpc, histVars, faults>>

ClosingAt(e, step) == cpc[e] \in 1 .. 3 /\ ClosePlan[cpc[e]] = step
CloseAdvances(e)   == cpc' = [cpc EXCEPT ![e] = @ + 1]

\* closer.Close().  What this end had not read is gone, and frames it wrote
\* last may never arrive (a reset overtakes them).
CloseConn(e) ==
    /\ ClosingAt(e, "conn")
    /\ CloseAdvances(e)
    /\ open' = [open EXCEPT ![e] = FALSE]
    /\ \E kept \in 0 .. Len(wire[e]) :
          wire' = [wire EXCEPT ![e] = SubSeq(@, 1, kept), ![Peer(e)] = <<>>]
    /\ UNCHANGED <<sendVars, recvVars, closed, sendMu, recvMu, spc, scall, rpc,
                   histVars, faults>>

\* Under sendMu: wipe the key and the salt, drop the AEAD.
CloseSend(e) ==
    /\ ClosingAt(e, "send")
    /\ sendMu[e] = NoOne
    /\ CloseAdvances(e)
    /\ sendKey' = [sendKey EXCEPT ![e] = Zero]
    /\ UNCHANGED <<wire, open, sendCounter, sendEpoch, recvVars, closed, sendMu,
                   recvMu, spc, scall, rpc, histVars, faults>>

\* The same under recvMu.
CloseRecv(e) ==
    /\ ClosingAt(e, "recv")
    /\ recvMu[e] = NoOne
    /\ CloseAdvances(e)
    /\ recvKey' = [recvKey EXCEPT ![e] = Zero]
    /\ UNCHANGED <<wire, open, sendVars, recvCounter, recvHave, recvEpoch,
                   closed, sendMu, recvMu, spc, scall, rpc, histVars, faults>>

-------------------------------------------------------------------------------
\* What the network may do to the frames an end has written: lose one, repeat
\* one, exchange two, or alter a DATA frame (its counter included).
Damage(e, frames) ==
    /\ faults < MaxFaults
    /\ faults' = faults + 1
    /\ wire' = [wire EXCEPT ![e] = frames]
    /\ UNCHANGED <<open, sendVars, recvVars, closed, sendMu, recvMu, spc, scall,
                   rpc, cpc, histVars>>

Lose(e) == \E i \in 1 .. Len(wire[e]) :
    Damage(e, SubSeq(wire[e], 1, i - 1) \o SubSeq(wire[e], i + 1, Len(wire[e])))

Repeat(e) == \E i \in 1 .. Len(wire[e]) :
    Damage(e, SubSeq(wire[e], 1, i) \o SubSeq(wire[e], i, Len(wire[e])))

Exchange(e) == \E i \in 1 .. Len(wire[e]) - 1 :
    Damage(e, [wire[e] EXCEPT ![i] = wire[e][i + 1], ![i + 1] = wire[e][i]])

Alter(e) == \E i \in 1 .. Len(wire[e]), c \in 0 .. FrameCap :
    /\ wire[e][i].type = "data"
    /\ Damage(e, [wire[e] EXCEPT ![i] = [@ EXCEPT !.ctr = c, !.intact = FALSE]])

-------------------------------------------------------------------------------
SenderStep(t) == RekeyWrite(t) \/ RekeyFail(t) \/ SealWrite(t) \/ SealFail(t)

ReceiverStep(e) ==
    \/ RecvData(e) \/ RecvNonceViolation(e) \/ RecvAuthFailed(e)
    \/ RecvRekey(e) \/ RecvEpochExhausted(e) \/ RecvAlert(e)
    \/ RecvIOError(e) \/ AlertWrite(e)

CloserStep(e) == CloseConn(e) \/ CloseSend(e) \/ CloseRecv(e)

Next ==
    \/ \E t \in Sender : SendBegin(t) \/ RekeyBegin(t) \/ SenderStep(t) \/ SendDeadline(t)
    \/ \E e \in End : \/ RecvBegin(e) \/ ReceiverStep(e) \/ AlertDeadline(e) \/ Misread(e)
                       \/ CloseBegin(e) \/ CloserStep(e)
                       \/ Lose(e) \/ Repeat(e) \/ Exchange(e) \/ Alter(e)

\* Goroutines that are inside a call run on; nobody is obliged to make one, to
\* set a deadline or to send what completes a torn frame.
Fairness ==
    /\ \A t \in Sender : WF_vars(SenderStep(t))
    /\ \A e \in End : WF_vars(ReceiverStep(e)) /\ WF_vars(CloserStep(e))

Spec == Init /\ [][Next]_vars
FairSpec == Spec /\ Fairness

-------------------------------------------------------------------------------
\* Of all the frames Send seals under one key and counter, one at most is written
\* whole, though the counter restarts at every rekey and several goroutines send.
\* More is not promised: a Send whose write fails under way keeps its counter
\* (session.go:178), and the next one seals under it again.
OneFramePerNonce ==
    \A e \in End : \A a, b \in sealed[e] :
        a.key = b.key /\ a.ctr = b.ctr => a = b \/ a.payload = 0 \/ b.payload = 0

\* Each direction implements SecureStream, whatever the network does to the
\* frames: Recv returns payloads in the order sent, none twice, none altered,
\* across rekeys.
IStream == INSTANCE SecureStream WITH sent <- sent["I"], got <- got["R"]
RStream == INSTANCE SecureStream WITH sent <- sent["R"], got <- got["I"]
Streams == IStream!Spec /\ RStream!Spec

\* While no frame is damaged or torn, rekeying is invisible: the two
\* ends' epochs never come apart, so no frame is refused, and what Recv has
\* returned is exactly a prefix of what was sent.
UndisturbedIsReliable ==
    faults = 0 =>
        \A e \in End :
            /\ errs[e] \subseteq {"io"}
            /\ \A i \in 1 .. Len(got[e]) : got[e][i] = i

\* Every variable has its type, and Close is a hard barrier: a goroutine inside
\* Send, Rekey or Recv holds the mutex of its direction, and the keys there have
\* not been wiped (a wiped AEAD is nil).
KeysHeldAreLive ==
    /\ TypeOK
    /\ \A t \in Sender : spc[t] # "idle" => \E e \in End : sendMu[e] = t /\ sendKey[e] # Zero
    /\ \A e \in End : rpc[e] # "idle" => recvMu[e] # NoOne /\ recvKey[e] # Zero

\* Close returns, and so does every call that was parked on the connection
\* when it was made: closing the connection first is what unblocks them.
CloseReturns ==
    \A e \in End :
        (cpc[e] = 1) ~> (/\ cpc[e] = 4
                         /\ rpc[e] = "idle"
                         /\ \A t \in Sender : EndOf(t) = e => spc[t] = "idle")
===============================================================================
