-------------------------------- MODULE QuicConn --------------------------------
(***************************************************************************)
(* The control stream of one QUIC connection (quic/conn.go), with the read *)
(* loop that node_quic.go runs at each end: Send, Recv and the graceful    *)
(* Close.  The ends are "d" (the dialler) and "l" (the listener).  QUIC    *)
(* delivers a stream's bytes in order; what has not been read when the     *)
(* connection goes down is lost.                                           *)
(*                                                                         *)
(* writeFrame makes two writes, the length and the body, so the stream     *)
(* carries pairs <<"length", w>>, <<"body", w>>, where w is the goroutine  *)
(* that sent the frame.  Close reads the stream too, next to the read      *)
(* loop, and may take either half of a frame from under it.                *)
(***************************************************************************)
EXTENDS Naturals, Sequences

CONSTANTS
    Writers, SendAt,    \* goroutines that Send one frame, and at which end
    Fragile, Nobody     \* the ends whose idle timeout may strike

Side == {"d", "l"}

ASSUME ConnAssumption ==
    SendAt \in [Side -> SUBSET Writers] /\ Nobody \notin Writers

Across(e) == IF e = "d" THEN "l" ELSE "d"
Piece == {"length", "body"} \X Writers

VARIABLES
    closed, up,         \* per end: Conn.closed; the connection as this end sees it
    ctrlMu, send,       \* per end: who holds ctrlMu; per goroutine: its Send
    pipe, fin,          \* per end: bytes written and not read, and the FIN after them
    written, sent, got, \* history: all that was written; frames written whole;
                        \* messages given to a handler
    recv, held,         \* per end: the read loop, the frame whose length it has read
    closing, drained, by    \* per end: its Close, how the drain ended, who closed

link == <<closed, up>>
wire == <<pipe, fin>>
loop == <<recv, held>>
close == <<closing, drained, by>>
frames == <<written, sent, got>>
connVars == <<link, ctrlMu, send, wire, frames, loop, close>>

\* Every variable has its type.
QuicConnTypeOK ==
    /\ closed \in [Side -> BOOLEAN] /\ up \in [Side -> BOOLEAN] /\ fin \in [Side -> BOOLEAN]
    /\ ctrlMu \in [Side -> Writers \cup {Nobody}]
    /\ send \in [Side -> [Writers -> {"idle", "checked", "length", "body", "sent", "failed"}]]
    /\ pipe \in [Side -> Seq(Piece)] /\ written \in [Side -> Seq(Piece)]
    /\ sent \in [Side -> Seq(Writers)] /\ got \in [Side -> Seq(Writers)]
    /\ held \in [Side -> Writers \cup {Nobody}]
    /\ recv \in [Side -> {"recv", "length", "body", "ended"}]
    /\ closing \in [Side -> {"no", "drain", "done"}]
    /\ drained \in [Side -> {"no", "eof", "error", "timeout"}]
    /\ by \in [Side -> {"nobody", "caller", "loop"}]

ConnInit ==
    /\ closed = [e \in Side |-> FALSE] /\ up = [e \in Side |-> TRUE]
    /\ ctrlMu = [e \in Side |-> Nobody] /\ send = [e \in Side |-> [w \in Writers |-> "idle"]]
    /\ pipe = [e \in Side |-> <<>>] /\ fin = [e \in Side |-> FALSE]
    /\ written = [e \in Side |-> <<>>] /\ sent = [e \in Side |-> <<>>] /\ got = [e \in Side |-> <<>>]
    /\ recv = [e \in Side |-> "recv"] /\ held = [e \in Side |-> Nobody]
    /\ closing = [e \in Side |-> "no"] /\ drained = [e \in Side |-> "no"]
    /\ by = [e \in Side |-> "nobody"]

-------------------------------------------------------------------------------
\* Send: the closed flag is looked at before the lock is taken ...
Send(e, w) ==
    /\ send[e][w] = "idle"
    /\ send' = [send EXCEPT ![e][w] = IF closed[e] THEN "failed" ELSE "checked"]
    /\ UNCHANGED <<link, ctrlMu, wire, frames, loop, close>>
Lock(e, w) ==
    /\ send[e][w] = "checked" /\ ctrlMu[e] = Nobody
    /\ ctrlMu' = [ctrlMu EXCEPT ![e] = w]
    /\ send' = [send EXCEPT ![e][w] = "length"]
    /\ UNCHANGED <<link, wire, frames, loop, close>>

\* ... and writeFrame's two writes follow, each of which fails once the stream
\* is half-closed or the connection is gone.
writeFrame(e, w) ==
    /\ send[e][w] \in {"length", "body"}
    /\ IF up[e] /\ ~fin[e]
         THEN /\ pipe' = [pipe EXCEPT ![e] = Append(@, <<send[e][w], w>>)]
              /\ written' = [written EXCEPT ![e] = Append(@, <<send[e][w], w>>)]
              /\ sent' = [sent EXCEPT ![e] = IF send[e][w] = "body" THEN Append(@, w) ELSE @]
              /\ send' = [send EXCEPT ![e][w] = IF @ = "length" THEN "body" ELSE "sent"]
         ELSE send' = [send EXCEPT ![e][w] = "failed"] /\ UNCHANGED <<pipe, written, sent>>
    /\ ctrlMu' = [ctrlMu EXCEPT ![e] = IF send'[e][w] = "body" THEN w ELSE Nobody]
    /\ UNCHANGED <<link, fin, got, loop, close>>

-------------------------------------------------------------------------------
\* Close, up to its drain: the compare-and-swap, which only one caller wins, and
\* the half-close of the control stream.  (What others do between the two they
\* could as well do before or after both.)
Closes(e, who) ==
    IF closed[e] THEN UNCHANGED <<closed, fin, close>>
    ELSE /\ closed' = [closed EXCEPT ![e] = TRUE]
         /\ fin' = [fin EXCEPT ![e] = up[e]]
         /\ closing' = [closing EXCEPT ![e] = "drain"]
         /\ by' = [by EXCEPT ![e] = who] /\ UNCHANGED drained

\* The read loop of serveTransportConn calls Recv, and ends when this end has
\* been closed.
Recv(e) ==
    /\ recv[e] = "recv"
    /\ recv' = [recv EXCEPT ![e] = IF closed[e] THEN "ended" ELSE "length"]
    /\ UNCHANGED <<link, ctrlMu, send, wire, frames, held, close>>

Ready(e) == up[e] /\ pipe[Across(e)] # <<>>
Next1(e) == Head(pipe[Across(e)])
Take(e) == pipe' = [pipe EXCEPT ![Across(e)] = Tail(@)]

\* The reader gets EOF or an error.
Ended(e) == ~up[e] \/ (pipe[Across(e)] = <<>> /\ fin[Across(e)])

\* readFrame, the length: bytes of a body are a length nothing comes of.
ReadLength(e) ==
    /\ recv[e] = "length" /\ Ready(e) /\ Take(e)
    /\ recv' = [recv EXCEPT ![e] = "body"]
    /\ held' = [held EXCEPT ![e] = IF Next1(e)[1] = "length" THEN Next1(e)[2] ELSE Nobody]
    /\ UNCHANGED <<link, ctrlMu, send, fin, frames, close>>

\* MUTANT of Parse: whatever was read is a message.
ParseAny(e) == TRUE

\* Parse finds the magic at the start of the bytes read only when they are the
\* body that belongs to the length.
Parse(e) == Next1(e) = <<"body", held[e]>>

\* readFrame, the body; a frame that parses goes to the handler.
ReadBody(e) ==
    /\ recv[e] = "body" /\ Ready(e) /\ Take(e)
    /\ got' = [got EXCEPT ![e] = IF Parse(e) THEN Append(@, Next1(e)[2]) ELSE @]
    /\ recv' = [recv EXCEPT ![e] = "recv"] /\ held' = [held EXCEPT ![e] = Nobody]
    /\ UNCHANGED <<link, ctrlMu, send, fin, written, sent, close>>

\* EOF, in the middle of a frame or not, or an error: the loop returns, and
\* closes the connection on its way out.
ReadEnds(e) ==
    /\ recv[e] \in {"length", "body"} /\ Ended(e) /\ Closes(e, "loop")
    /\ recv' = [recv EXCEPT ![e] = "ended"] /\ held' = [held EXCEPT ![e] = Nobody]
    /\ UNCHANGED <<up, ctrlMu, send, pipe, frames>>

\* Stop, a duplicate or a caller closes it.
Close(e) ==
    /\ ~closed[e] /\ Closes(e, "caller")
    /\ UNCHANGED <<up, ctrlMu, send, pipe, frames, loop>>

\* io.Copy throws away what arrives ...
Discard(e) ==
    /\ closing[e] = "drain" /\ Ready(e) /\ Take(e)
    /\ UNCHANGED <<link, ctrlMu, send, fin, frames, loop, close>>

\* ... until the peer's EOF, an error, or the timeout; then CloseWithError, of
\* which the peer hears later.
DrainEnds(e) ==
    {"timeout"} \cup IF Ended(e) THEN {IF up[e] THEN "eof" ELSE "error"} ELSE {}
Drained(e) ==
    /\ closing[e] = "drain"
    /\ \E how \in DrainEnds(e) : drained' = [drained EXCEPT ![e] = how]
    /\ closing' = [closing EXCEPT ![e] = "done"]
    /\ up' = [up EXCEPT ![e] = FALSE]
    /\ UNCHANGED <<closed, ctrlMu, send, wire, frames, loop, by>>
PeerGone(e) ==
    /\ up[e] /\ ~up[Across(e)]
    /\ up' = [up EXCEPT ![e] = FALSE]
    /\ UNCHANGED <<closed, ctrlMu, send, wire, frames, loop, close>>

\* The network fails: one end gives the connection up after its idle timeout.
IdleTimeout(e) ==
    /\ e \in Fragile /\ up[e] /\ up[Across(e)]
    /\ up' = [up EXCEPT ![e] = FALSE]
    /\ UNCHANGED <<closed, ctrlMu, send, wire, frames, loop, close>>

-------------------------------------------------------------------------------
SendStep(e, w) == Lock(e, w) \/ writeFrame(e, w)
LoopStep(e) == Recv(e) \/ ReadLength(e) \/ ReadBody(e) \/ ReadEnds(e)

ConnNext == \E e \in Side :
    \/ LoopStep(e) \/ Drained(e) \/ Discard(e)
    \/ Close(e) \/ PeerGone(e) \/ IdleTimeout(e)
    \/ \E w \in SendAt[e] : Send(e, w) \/ SendStep(e, w)

ConnSpec == ConnInit /\ [][ConnNext]_connVars

-------------------------------------------------------------------------------
\* Handlers see whole frames only, each at most once and in the order they were
\* written, though Close reads the stream from under the read loop; and while
\* this end has not closed, they see them all: "Frames are read in the same
\* order they were sent."
WholeFrames ==
    \A e \in Side :
        LET o == sent[Across(e)] IN
        /\ \A i \in DOMAIN got[e] : \E j \in DOMAIN o : o[j] = got[e][i]
        /\ \A i, j \in DOMAIN got[e], m, n \in DOMAIN o :
               i < j /\ o[m] = got[e][i] /\ o[n] = got[e][j] => m < n
        /\ ~closed[e] => Len(got[e]) <= Len(o) /\ \A i \in DOMAIN got[e] : got[e][i] = o[i]

\* A Close whose drain ended with the peer's EOF has flushed: every frame that
\* was sent reached the peer's handler, unless the peer was itself closing.
DrainDelivers ==
    \A e \in Side :
        drained[e] = "eof" /\ by[Across(e)] = "loop" => got[Across(e)] = sent[e]

\* The variables have their types, handlers see the whole frames of a control
\* stream, in the order sent, and a Close that drained to the peer's EOF lost none.
FramesArrive == QuicConnTypeOK /\ WholeFrames /\ DrainDelivers

\* Closing one end ends both: Close returns, whatever the peer does, and both
\* read loops end.
CloseEndsBoth ==
    \A e \in Side : closed[e] ~>
        \A x \in Side : closing[x] = "done" /\ recv[x] = "ended" /\ ~up[x]
===============================================================================
