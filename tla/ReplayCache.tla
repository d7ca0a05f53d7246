------------------------------ MODULE ReplayCache ------------------------------
(***************************************************************************)
(* The responder's replay gate: handshake/replay.go, as runFull in         *)
(* handshake/responder.go uses it.  Every connection runs its handshake in *)
(* a goroutine of its own (a Worker), and all of them share one cache.     *)
(*                                                                         *)
(* A key stands for one HELLO: its (client_id, client_random) pair, which  *)
(* the cache remembers, and its timestamp_ns, which is stamp[key].  A      *)
(* HELLO may be presented any number of times, by any connection.          *)
(*                                                                         *)
(* SeenOrAdd reads the clock BEFORE it takes the mutex, so the reading it  *)
(* works with can be arbitrarily old by the time the locked part runs: the *)
(* reading and the locked part are two steps.                              *)
(*                                                                         *)
(* The clock is the one c.now() reads.  It never goes back (Go compares    *)
(* monotonic readings); that the wall-clock reading of CheckTimestamp does *)
(* not step against it is an assumption of the model.                      *)
(***************************************************************************)
EXTENDS ReplayLimits

VARIABLES
    clock,      \* what c.now() returns
    frozenAt,   \* when the current generation started
    pc,         \* per worker: "idle", "checked" (timestamp accepted) or
                \* "locking" (clock read, mutex not yet held)
    hello,      \* per worker: the HELLO it handles
    now         \* per worker: SeenOrAdd's reading of the clock

cache == <<active, frozen, frozenAt>>
vars  == <<clock, stamp, active, frozen, frozenAt, pc, hello, now, admits>>

Admission == [read : 0 .. MaxTime, at : 0 .. MaxTime]

\* Every variable has its type.
TypeOK ==
    /\ clock \in 0 .. MaxTime
    /\ stamp \in [Key -> 0 .. MaxTime]
    /\ active \in SUBSET Key
    /\ frozen \in SUBSET Key
    /\ frozenAt \in 0 .. MaxTime
    /\ pc \in [Worker -> {"idle", "checked", "locking"}]
    /\ hello \in [Worker -> Key \cup {None}]
    /\ now \in [Worker -> 0 .. MaxTime]
    /\ admits \in [Key -> Seq(Admission)]

\* NewReplayCache: both generations empty, the first one starts now.
Init ==
    /\ clock = 0
    /\ stamp \in [Key -> 0 .. MaxTime]
    /\ active = {}
    /\ frozen = {}
    /\ frozenAt = 0
    /\ pc = [w \in Worker |-> "idle"]
    /\ hello = [w \in Worker |-> None]
    /\ now = [w \in Worker |-> 0]
    /\ admits = [k \in Key |-> <<>>]

Tick ==
    /\ clock < MaxTime
    /\ clock' = clock + 1
    /\ UNCHANGED <<stamp, active, frozen, frozenAt, pc, hello, now, admits>>

\* MUTANT of InWindow: only a HELLO that is too old is refused.
OneSidedWindow(ts, t) == t - ts <= Window

\* |timestamp - now| <= window.  No timestamp near the limits of int64 is
\* presented here: the difference and its negation do not wrap.
InWindow(ts, t) == ts - t <= Window /\ t - ts <= Window

\* A worker receives HELLO k and its timestamp passes.  (A HELLO whose
\* timestamp does not pass is refused and leaves no trace.)
CheckTimestamp(w, k) ==
    /\ pc[w] = "idle"
    /\ InWindow(stamp[k], clock)
    /\ pc' = [pc EXCEPT ![w] = "checked"]
    /\ hello' = [hello EXCEPT ![w] = k]
    /\ UNCHANGED <<clock, stamp, cache, now, admits>>

\* now := c.now(), before the mutex.
ReadClock(w) ==
    /\ pc[w] = "checked"
    /\ now' = [now EXCEPT ![w] = clock]
    /\ pc' = [pc EXCEPT ![w] = "locking"]
    /\ UNCHANGED <<clock, stamp, cache, hello, admits>>

\* now.Sub(c.frozenAt) >= c.ttl: the frozen generation has served its time.
Expired(t) == t - frozenAt >= TTL

\* MUTANT of the flip: it drops the active generation with the frozen one.
FlipDropsActive(t) == IF Expired(t) THEN {} ELSE frozen

\* What the two generations and the start time are after the generation
\* flip, if it is due at reading t.
FlippedFrozen(t)   == IF Expired(t) THEN active ELSE frozen
FlippedActive(t)   == IF Expired(t) THEN {} ELSE active
FlippedFrozenAt(t) == IF Expired(t) THEN t ELSE frozenAt

\* MUTANT of Full: one entry too many.
FullOffByOne(t) == Cardinality(FlippedActive(t)) > MaxLen

\* len(c.active) >= c.maxLen: fail closed rather than evict.
Full(t) == Cardinality(FlippedActive(t)) >= MaxLen

\* The locked part of SeenOrAdd: flip, probe both generations, refuse when
\* the active one is full, else remember the key.
SeenOrAdd(w) ==
    LET k    == hello[w]
        t    == now[w]
        seen == \/ k \in FlippedFrozen(t)
                \/ k \in FlippedActive(t)
                \/ Full(t)
    IN  /\ pc[w] = "locking"
        /\ pc' = [pc EXCEPT ![w] = "idle"]
        /\ frozen' = FlippedFrozen(t)
        /\ frozenAt' = FlippedFrozenAt(t)
        /\ \/ /\ seen
              /\ active' = FlippedActive(t)
              /\ UNCHANGED admits
           \/ /\ ~seen
              /\ active' = FlippedActive(t) \cup {k}
              /\ admits' = [admits EXCEPT
                              ![k] = Append(@, [read |-> t, at |-> clock])]
        /\ hello' = [hello EXCEPT ![w] = None]
        /\ now' = [now EXCEPT ![w] = 0]
        /\ UNCHANGED <<clock, stamp>>

\* Sweep reads the clock under the mutex, so it is one step.
Sweep ==
    /\ Expired(clock)
    /\ frozen' = active
    /\ active' = {}
    /\ frozenAt' = clock
    /\ UNCHANGED <<clock, stamp, pc, hello, now, admits>>

Next ==
    \/ Tick
    \/ Sweep
    \/ \E w \in Worker :
          \/ \E k \in Key : CheckTimestamp(w, k)
          \/ ReadClock(w)
          \/ SeenOrAdd(w)

Spec == Init /\ [][Next]_vars
===============================================================================
