------------------------------ MODULE BufPool ------------------------------
(***************************************************************************)
(* The pooled read buffers (bufpool.go) under the dispatch loops of        *)
(* node.go and the Call sites that take responses from them.               *)
(*                                                                         *)
(* A loop reads a frame into a slab it gets with one reference.  A request *)
(* is handled in place and released; a response is retained once more,     *)
(* pushed on the waiting Call's channel, and the loop drops its own hold.  *)
(* The slab goes back to the pool with the last reference, and the next    *)
(* frame of any loop may overwrite it.  A slab and its bufRef header live  *)
(* together here; a frame above the largest class is not pooled at all and *)
(* is left to the garbage collector, as is a slab nobody releases.         *)
(***************************************************************************)
EXTENDS Integers

CONSTANTS Loop,         \* one dispatch loop and one caller per connection
          Slab,
          MaxFrames,    \* bound on the frames read
          NoSlab

ASSUME PoolAssumption == NoSlab \notin Slab /\ MaxFrames \in Nat

VARIABLES frames,       \* frames read so far
          content,      \* the frame each slab holds
          refs,         \* its reference count
          pool,         \* how often the pool has it
          stage, hold,  \* a loop's place, and [slab, frame] it works on
          caller,       \* its caller: "out" or "waiting"
          chan, got     \* the response in the channel; the one the Call holds

poolVars == <<frames, content, refs, pool, stage, hold, caller, chan, got>>

Nothing == [slab |-> NoSlab, frame |-> 0]

PoolInit ==
    /\ frames = 0
    /\ content = [s \in Slab |-> 0]
    /\ refs = [s \in Slab |-> 0]
    /\ pool = [s \in Slab |-> 0]
    /\ stage = [l \in Loop |-> "idle"]
    /\ hold = [l \in Loop |-> Nothing]
    /\ caller = [l \in Loop |-> "out"]
    /\ chan = [l \in Loop |-> Nothing]
    /\ got = [l \in Loop |-> Nothing]

\* sync.Pool.Get: a pooled slab, or a new one.
getBuf(s) == pool[s] > 0 \/ (refs[s] = 0 /\ content[s] = 0)

retain(s) == refs' = [refs EXCEPT ![s] = @ + 1]

release(s) ==
    /\ refs' = [refs EXCEPT ![s] = @ - 1]
    /\ pool' = [pool EXCEPT ![s] = IF refs[s] = 1 THEN @ + 1 ELSE @]

\* readMessageRawPooled: a slab with one reference, filled from the
\* connection; what kind of frame it is shows in its bytes.  If the
\* connection ends inside the frame the slab is released at once.
readMessageRawPooled(l, s, kind) ==
    /\ stage[l] = "idle" /\ frames < MaxFrames /\ getBuf(s)
    /\ frames' = frames + 1
    /\ content' = [content EXCEPT ![s] = frames + 1]
    /\ \/ /\ kind = "torn"
          /\ refs' = [refs EXCEPT ![s] = 0]
          /\ pool' = [pool EXCEPT ![s] = IF @ > 0 THEN @ ELSE 1]
          /\ UNCHANGED <<stage, hold>>
       \/ /\ kind # "torn"
          /\ refs' = [refs EXCEPT ![s] = 1]
          /\ pool' = [pool EXCEPT ![s] = IF @ > 0 THEN @ - 1 ELSE 0]
          /\ stage' = [stage EXCEPT ![l] = kind]
          /\ hold' = [hold EXCEPT ![l] = [slab |-> s, frame |-> frames + 1]]
    /\ UNCHANGED <<caller, chan, got>>

\* MUTANT of Retain: the message is handed on without a reference of its own.
HandOver(l) ==
    /\ stage[l] = "response"
    /\ stage' = [stage EXCEPT ![l] = "deliver"]
    /\ UNCHANGED <<frames, content, refs, pool, hold, caller, chan, got>>

\* attachToMessage and ref.retain().
Retain(l) ==
    /\ stage[l] = "response"
    /\ retain(hold[l].slab)
    /\ stage' = [stage EXCEPT ![l] = "deliver"]
    /\ UNCHANGED <<frames, content, pool, hold, caller, chan, got>>

\* Under pendMu: onto the channel of the Call that waits, if it has room;
\* otherwise msg.Release() drops the reference again.
Deliver(l) ==
    /\ stage[l] = "deliver"
    /\ stage' = [stage EXCEPT ![l] = "drop"]
    /\ \/ /\ caller[l] = "waiting" /\ chan[l] = Nothing
          /\ chan' = [chan EXCEPT ![l] = hold[l]]
          /\ UNCHANGED <<refs, pool>>
       \/ /\ caller[l] # "waiting" \/ chan[l] # Nothing
          /\ release(hold[l].slab)
          /\ UNCHANGED chan
    /\ UNCHANGED <<frames, content, hold, caller, got>>

\* The loop's own ref.release(), after a response as after a request: the
\* handler has returned and its answer, if any, has been written.
Drop(l) ==
    /\ stage[l] \in {"drop", "request"}
    /\ release(hold[l].slab)
    /\ stage' = [stage EXCEPT ![l] = "idle"]
    /\ hold' = [hold EXCEPT ![l] = Nothing]
    /\ UNCHANGED <<frames, content, caller, chan, got>>

\* A Call registers its channel; it has a new one, so what an earlier Call
\* left unread in its own is lost to the collector.
CallStarts(l) ==
    /\ caller[l] = "out" /\ got[l] = Nothing
    /\ caller' = [caller EXCEPT ![l] = "waiting"]
    /\ chan' = [chan EXCEPT ![l] = Nothing]
    /\ UNCHANGED <<frames, content, refs, pool, stage, hold, got>>

CallTakes(l) ==
    /\ caller[l] = "waiting" /\ chan[l] # Nothing
    /\ caller' = [caller EXCEPT ![l] = "out"]
    /\ got' = [got EXCEPT ![l] = chan[l]]
    /\ chan' = [chan EXCEPT ![l] = Nothing]
    /\ UNCHANGED <<frames, content, refs, pool, stage, hold>>

CallGivesUp(l) ==
    /\ caller[l] = "waiting"
    /\ caller' = [caller EXCEPT ![l] = "out"]
    /\ UNCHANGED <<frames, content, refs, pool, stage, hold, chan, got>>

\* Message.Release by whoever has the response; it forgets the slab, so a
\* second Release of the same message does nothing.
Release(l) ==
    /\ got[l] # Nothing
    /\ release(got[l].slab)
    /\ got' = [got EXCEPT ![l] = Nothing]
    /\ UNCHANGED <<frames, content, stage, hold, caller, chan>>

PoolNext ==
    \E l \in Loop :
        \/ \E s \in Slab, k \in {"request", "response", "torn"} :
             readMessageRawPooled(l, s, k)
        \/ Retain(l)
        \/ Deliver(l)
        \/ Drop(l)
        \/ CallStarts(l)
        \/ CallTakes(l)
        \/ CallGivesUp(l)
        \/ Release(l)

PoolSpec == PoolInit /\ [][PoolNext]_poolVars

\* A frame that a loop, a channel or a Call still holds is intact in its
\* slab: nothing gave the slab back to the pool, where another loop's frame
\* would overwrite it, while someone could read it; and no slab is pooled
\* twice, which would give it to two loops at once.
HeldIsIntact ==
    /\ \A l \in Loop : \A h \in {hold[l], chan[l], got[l]} :
         h # Nothing => content[h.slab] = h.frame /\ pool[h.slab] = 0
    /\ \A s \in Slab : pool[s] <= 1 /\ refs[s] >= 0
=============================================================================
