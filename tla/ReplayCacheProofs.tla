--------------------------- MODULE ReplayCacheProofs ---------------------------
(***************************************************************************)
(* Proofs about the replay gate of module ReplayCache, for any set of      *)
(* HELLOs and workers, any cap, any clock bound and any TTL and window with *)
(* TTL >= 2 * Window.                                                      *)
(*                                                                         *)
(* RememberedForTTL is not inductive: it speaks of admissions and not of   *)
(* the generations that make the cache remember them.  Retention says      *)
(* where the last admission of a HELLO is kept, in terms of the reading n  *)
(* it was made with: in the active generation, which began less than a TTL *)
(* before n; or in the frozen one, which was frozen after n; or nowhere,   *)
(* and then the current generation began more than a TTL after n.  It      *)
(* survives stale readings because a flip only ever moves frozenAt forward *)
(* by a TTL or more.                                                       *)
(***************************************************************************)
EXTENDS ReplayCache, FiniteSetTheorems, TLAPS

\* Leaves go to Zenon; the ones that need arithmetic or sequences name SMT.
USE Zenon

LastRead(k) == admits[k][Len(admits[k])].read

\* Readings lie in the past, and a worker that is past CheckTimestamp
\* handles a HELLO whose window had begun.
Readings ==
    /\ frozenAt <= clock
    /\ \A w \in Worker :
          /\ now[w] <= clock
          /\ pc[w] # "idle" => hello[w] \in Key
          /\ pc[w] = "checked" => clock >= stamp[hello[w]] - Window
          /\ pc[w] = "locking" => now[w] >= stamp[hello[w]] - Window
    /\ \A k \in Key : \A i \in 1 .. Len(admits[k]) :
          admits[k][i].read >= stamp[k] - Window

\* Where the cache keeps the last admission of a HELLO.
Retention ==
    \A k \in Key : admits[k] # <<>> =>
        \/ k \in active /\ LastRead(k) < frozenAt + TTL
        \/ k \in frozen /\ LastRead(k) < frozenAt
        \/ LastRead(k) + TTL < frozenAt

IndInv == TypeOK /\ Readings /\ Retention /\ RememberedForTTL

-------------------------------------------------------------------------------
\* The flip that SeenOrAdd makes at reading t leaves every variable of the
\* cache in its type, moves the start of the generation only forward, and
\* keeps what the cache knows of every HELLO.
LEMMA FlipRetains ==
    ASSUME TypeOK, Retention, NEW t \in 0 .. MaxTime, NEW k \in Key,
           admits[k] # <<>>
    PROVE  \/ k \in FlippedActive(t) /\ LastRead(k) < FlippedFrozenAt(t) + TTL
           \/ k \in FlippedFrozen(t) /\ LastRead(k) < FlippedFrozenAt(t)
           \/ LastRead(k) + TTL < FlippedFrozenAt(t)
<1>1. LastRead(k) \in Nat /\ frozenAt \in Nat /\ t \in Nat /\ TTL \in Nat
  <2>1. admits[k] \in Seq(Admission) /\ Len(admits[k]) \in 1 .. Len(admits[k])
    BY SMT DEF TypeOK
  <2>2. admits[k][Len(admits[k])] \in Admission
    BY SMT, <2>1
  <2> QED
    BY SMT, <2>2, ReplayAssumption DEF LastRead, Admission, TypeOK
<1>2. \/ k \in active /\ LastRead(k) < frozenAt + TTL
      \/ k \in frozen /\ LastRead(k) < frozenAt
      \/ LastRead(k) + TTL < frozenAt
  BY DEF Retention
<1> QED
  BY SMT, <1>1, <1>2 DEF FlippedActive, FlippedFrozen, FlippedFrozenAt, Expired

\* The invariant holds initially.
LEMMA InitIndInv == Init => IndInv
<1> SUFFICES ASSUME Init PROVE IndInv
  OBVIOUS
<1>1. TypeOK
  BY SMT, ReplayAssumption DEF Init, TypeOK
<1>2. Readings
  BY SMT, ReplayAssumption DEF Init, Readings
<1>3. Retention /\ RememberedForTTL
  BY SMT DEF Init, Retention, RememberedForTTL
<1> QED
  BY <1>1, <1>2, <1>3 DEF IndInv

\* Every step of every worker preserves it.
LEMMA NextIndInv == IndInv /\ [Next]_vars => IndInv'
<1> SUFFICES ASSUME IndInv, [Next]_vars PROVE IndInv'
  OBVIOUS
<1> USE ReplayAssumption
<1> USE DEF IndInv
<1>1. CASE Tick
  <2>1. TypeOK'
    BY SMT, <1>1 DEF Tick, TypeOK
  <2>2. Readings'
    BY SMT, <1>1 DEF Tick, TypeOK, Readings
  <2>3. Retention' /\ RememberedForTTL'
    BY <1>1 DEF Tick, Retention, RememberedForTTL, LastRead
  <2> QED
    BY <2>1, <2>2, <2>3
<1>2. CASE Sweep
  <2>1. TypeOK'
    BY <1>2 DEF Sweep, TypeOK
  <2>2. Readings'
    BY SMT, <1>2 DEF Sweep, TypeOK, Readings
  <2>3. Retention'
    <3> SUFFICES ASSUME NEW k \in Key, admits[k] # <<>>
                 PROVE  \/ k \in active' /\ LastRead(k) < frozenAt' + TTL
                        \/ k \in frozen' /\ LastRead(k) < frozenAt'
                        \/ LastRead(k) + TTL < frozenAt'
      BY <1>2 DEF Sweep, Retention, LastRead
    <3>1. clock \in 0 .. MaxTime
      BY DEF TypeOK
    <3> QED
      BY <1>2, <3>1, FlipRetains
         DEF Sweep, FlippedActive, FlippedFrozen, FlippedFrozenAt
  <2>4. RememberedForTTL'
    BY <1>2 DEF Sweep, RememberedForTTL
  <2> QED
    BY <2>1, <2>2, <2>3, <2>4
<1>3. ASSUME NEW w \in Worker, NEW k \in Key, CheckTimestamp(w, k)
      PROVE  IndInv'
  <2>1. TypeOK'
    BY <1>3 DEF CheckTimestamp, cache, TypeOK
  <2>2. Readings'
    BY SMT, <1>3 DEF CheckTimestamp, cache, TypeOK, Readings, InWindow
  <2>3. Retention' /\ RememberedForTTL'
    BY <1>3 DEF CheckTimestamp, cache, Retention, RememberedForTTL, LastRead
  <2> QED
    BY <2>1, <2>2, <2>3
<1>4. ASSUME NEW w \in Worker, ReadClock(w)
      PROVE  IndInv'
  <2>1. TypeOK'
    BY <1>4 DEF ReadClock, cache, TypeOK
  <2>2. Readings'
    BY SMTT(60), <1>4 DEF ReadClock, cache, TypeOK, Readings
  <2>3. Retention' /\ RememberedForTTL'
    BY <1>4 DEF ReadClock, cache, Retention, RememberedForTTL, LastRead
  <2> QED
    BY <2>1, <2>2, <2>3
<1>5. ASSUME NEW w \in Worker, SeenOrAdd(w)
      PROVE  IndInv'
  <2> DEFINE h == hello[w]
             t == now[w]
             adm == [read |-> t, at |-> clock]
  <2>1. /\ h \in Key
        /\ t \in 0 .. MaxTime
        /\ t <= clock
        /\ t >= stamp[h] - Window
        /\ adm \in Admission
    BY <1>5 DEF SeenOrAdd, Readings, TypeOK, Admission
  <2>2. /\ frozenAt' = FlippedFrozenAt(t)
        /\ frozenAt' \in 0 .. MaxTime
        /\ frozenAt' <= clock
        /\ t < frozenAt' + TTL
    BY SMT, <1>5, <2>1 DEF SeenOrAdd, FlippedFrozenAt, Expired, Readings, TypeOK
  <2>3. /\ frozen' = FlippedFrozen(t)
        /\ FlippedActive(t) \subseteq active'
        /\ active' \subseteq FlippedActive(t) \cup {h}
    BY <1>5 DEF SeenOrAdd
  <2>4. CASE UNCHANGED admits
    <3>1. TypeOK'
      BY SMTT(60), <1>5, <2>1, <2>2, <2>3, <2>4
         DEF SeenOrAdd, TypeOK, FlippedFrozen, FlippedActive
    <3>2. Readings'
      BY SMT, <1>5, <2>2, <2>4 DEF SeenOrAdd, Readings, TypeOK
    <3>3. Retention'
      BY <2>1, <2>2, <2>3, <2>4, FlipRetains DEF Retention, LastRead
    <3>4. RememberedForTTL'
      BY <2>4 DEF RememberedForTTL
    <3> QED
      BY <3>1, <3>2, <3>3, <3>4
  <2>5. CASE /\ h \notin FlippedFrozen(t)
             /\ h \notin FlippedActive(t)
             /\ active' = FlippedActive(t) \cup {h}
             /\ admits' = [admits EXCEPT ![h] = Append(@, adm)]
    <3>1. /\ admits[h] \in Seq(Admission)
          /\ admits'[h] = Append(admits[h], adm)
          /\ \A k \in Key \ {h} : admits'[k] = admits[k]
      BY <2>1, <2>5 DEF TypeOK
    <3>2. /\ admits'[h] \in Seq(Admission)
          /\ Len(admits'[h]) = Len(admits[h]) + 1
          /\ Len(admits[h]) \in Nat
          /\ admits'[h][Len(admits[h]) + 1] = adm
          /\ \A i \in 1 .. Len(admits[h]) : admits'[h][i] = admits[h][i]
      BY SMT, <2>1, <3>1
    <3>3. TypeOK'
      <4>1. admits' \in [Key -> Seq(Admission)]
        BY <2>5, <3>1, <3>2 DEF TypeOK
      <4> QED
        BY SMTT(60), <1>5, <2>1, <2>2, <2>3, <4>1
           DEF SeenOrAdd, TypeOK, FlippedFrozen, FlippedActive
    <3>4. Readings'
      <4>1. \A k \in Key : \A i \in 1 .. Len(admits'[k]) :
                admits'[k][i].read >= stamp[k] - Window
        <5> SUFFICES ASSUME NEW k \in Key, NEW i \in 1 .. Len(admits'[k])
                     PROVE  admits'[k][i].read >= stamp[k] - Window
          OBVIOUS
        <5>1. CASE k # h
          BY <3>1, <5>1 DEF Readings
        <5>2. CASE k = h /\ i \in 1 .. Len(admits[h])
          BY <3>2, <5>2 DEF Readings
        <5>3. CASE k = h /\ i = Len(admits[h]) + 1
          BY SMTT(60), <2>1, <3>2, <5>3
        <5> QED
          BY SMT, <3>2, <5>1, <5>2, <5>3
      <4> QED
        BY SMT, <1>5, <2>2, <4>1 DEF SeenOrAdd, Readings, TypeOK
    <3>5. Retention'
      <4> SUFFICES ASSUME NEW k \in Key, admits'[k] # <<>>
                   PROVE  \/ k \in active' /\ LastRead(k)' < frozenAt' + TTL
                          \/ k \in frozen' /\ LastRead(k)' < frozenAt'
                          \/ LastRead(k)' + TTL < frozenAt'
        BY DEF Retention
      <4>1. CASE k = h
        BY SMT, <2>1, <2>2, <2>5, <3>2, <4>1 DEF LastRead
      <4>2. CASE k # h
        BY <2>1, <2>2, <2>3, <3>1, <4>2, FlipRetains DEF LastRead
      <4> QED
        BY <4>1, <4>2
    <3>6. RememberedForTTL'
      <4> SUFFICES ASSUME NEW k \in Key, NEW i \in 1 .. Len(admits'[k]) - 1
                   PROVE  admits'[k][i + 1].at > admits'[k][i].read + TTL
        BY DEF RememberedForTTL
      <4>1. CASE k # h
        BY <3>1, <4>1 DEF RememberedForTTL
      <4>2. CASE k = h /\ i \in 1 .. Len(admits[h]) - 1
        <5>1. i \in 1 .. Len(admits[h]) /\ i + 1 \in 1 .. Len(admits[h])
          BY SMT, <3>2, <4>2
        <5>2. admits'[h][i] = admits[h][i] /\ admits'[h][i + 1] = admits[h][i + 1]
          BY <3>2, <5>1
        <5>3. admits[h][i + 1].at > admits[h][i].read + TTL
          BY <2>1, <4>2 DEF RememberedForTTL
        <5> QED
          BY <4>2, <5>2, <5>3
      <4>3. CASE k = h /\ i = Len(admits[h])
        <5>1. admits[h] # <<>> /\ i \in 1 .. Len(admits[h])
          BY SMT, <3>1, <3>2, <4>3
        <5>2. LastRead(h) + TTL < FlippedFrozenAt(t)
          BY <2>1, <2>2, <2>5, <5>1, FlipRetains
        <5>3. admits[h][i] \in Admission
          BY SMT, <3>1, <5>1
        <5>4. admits'[h][i] = admits[h][i] /\ admits'[h][i + 1] = adm
          BY <3>2, <4>3, <5>1
        <5>5. admits[h][i].read \in Nat /\ admits[h][i].read + TTL < frozenAt'
          BY SMT, <2>2, <4>3, <5>2, <5>3 DEF LastRead, Admission
        <5>6. clock \in Nat /\ frozenAt' \in Nat /\ frozenAt' <= clock
          BY SMT, <2>2 DEF TypeOK
        <5>7. adm.at = clock
          OBVIOUS
        <5>8. clock > admits[h][i].read + TTL
          BY SMTT(60), <5>5, <5>6
        <5> QED
          BY <4>3, <5>4, <5>7, <5>8
      <4>4. ASSUME k = h
            PROVE  i \in 1 .. Len(admits[h]) - 1 \/ i = Len(admits[h])
        BY SMT, <3>2, <4>4
      <4> QED
        BY <4>1, <4>2, <4>3, <4>4
    <3> QED
      BY <3>3, <3>4, <3>5, <3>6
  <2> QED
    BY <1>5, <2>4, <2>5 DEF SeenOrAdd
<1>6. CASE UNCHANGED vars
  BY <1>6 DEF vars, TypeOK, Readings, Retention, RememberedForTTL, LastRead
<1> QED
  BY <1>1, <1>2, <1>3, <1>4, <1>5, <1>6 DEF Next

-------------------------------------------------------------------------------
\* Every reachable state has its type.
THEOREM ReplayTypeOK == Spec => []TypeOK
<1>1. IndInv => TypeOK
  BY DEF IndInv
<1> QED
  BY <1>1, InitIndInv, NextIndInv, PTL DEF Spec

\* SeenOrAdd remembers every HELLO it admits for more than a TTL from the
\* clock reading it admitted it with, whatever the callers' delays.
THEOREM ReplayRemembers == Spec => []RememberedForTTL
<1>1. IndInv => RememberedForTTL
  BY DEF IndInv
<1> QED
  BY <1>1, InitIndInv, NextIndInv, PTL DEF Spec

\* CheckTimestamp and SeenOrAdd together: runFull readmits a HELLO only in a
\* worker that reached the cache after the HELLO's window had closed.  This is
\* where the two constants of the handshake (TTL = 2 * Window) are needed.
THEOREM ReplayWindow == Spec => []ReadmittedOnlyAfterWindow
<1>1. IndInv => ReadmittedOnlyAfterWindow
  <2> SUFFICES ASSUME IndInv, NEW k \in Key, NEW i \in 2 .. Len(admits[k])
               PROVE  admits[k][i].at > stamp[k] + Window
    BY DEF ReadmittedOnlyAfterWindow
  <2>1. admits[k] \in Seq(Admission) /\ stamp[k] \in Nat
    BY SMT DEF IndInv, TypeOK
  <2>2. i - 1 \in 1 .. Len(admits[k]) - 1 /\ i - 1 \in 1 .. Len(admits[k])
    BY SMT, <2>1
  <2>3. admits[k][i - 1] \in Admission /\ admits[k][i] \in Admission
    BY SMT, <2>1, <2>2
  <2>4. admits[k][i - 1].read >= stamp[k] - Window
    BY <2>2 DEF IndInv, Readings
  <2>5. admits[k][(i - 1) + 1].at > admits[k][i - 1].read + TTL
    BY <2>2 DEF IndInv, RememberedForTTL
  <2>6. admits[k][i].at > admits[k][i - 1].read + TTL
    <3>1. (i - 1) + 1 = i
      BY SMT
    <3> QED
      BY <2>5, <3>1
  <2>7. admits[k][i - 1].read \in Nat /\ admits[k][i].at \in Nat
    BY SMT, <2>3 DEF Admission
  <2>8. ASSUME NEW r \in Nat, NEW a \in Nat, NEW s \in Nat,
               r >= s - Window, a > r + TTL
        PROVE  a > s + Window
    BY SMT, <2>8, ReplayAssumption, TTLCoversWindow
  <2> QED
    BY <2>1, <2>4, <2>6, <2>7, <2>8
<1> QED
  BY <1>1, InitIndInv, NextIndInv, PTL DEF Spec

\* Neither generation grows past the cap, so the cache never holds more than
\* two times maxLen entries.
THEOREM ReplayBounded == Spec => []GenerationsBounded
<1> USE ReplayAssumption
<1> DEFINE Bounded == /\ active \in SUBSET Key
                      /\ frozen \in SUBSET Key
                      /\ GenerationsBounded
<1>1. Init => Bounded
  BY SMT, FS_EmptySet DEF Init, GenerationsBounded
<1>2. Bounded /\ IndInv /\ [Next]_vars => Bounded'
  <2> SUFFICES ASSUME Bounded, IndInv, [Next]_vars PROVE Bounded'
    OBVIOUS
  <2>1. CASE Sweep
    BY SMT, <2>1, FS_EmptySet DEF Sweep, GenerationsBounded
  <2>2. ASSUME NEW w \in Worker, SeenOrAdd(w)
        PROVE  Bounded'
    <3> DEFINE t == now[w]
               h == hello[w]
    <3>1. h \in Key
      BY <2>2 DEF SeenOrAdd, IndInv, Readings
    <3>2. /\ FlippedFrozen(t) \in SUBSET Key
          /\ Cardinality(FlippedFrozen(t)) <= MaxLen
      BY DEF FlippedFrozen, GenerationsBounded
    <3>3. /\ FlippedActive(t) \in SUBSET Key
          /\ Cardinality(FlippedActive(t)) <= MaxLen
      BY SMT, FS_EmptySet DEF FlippedActive, GenerationsBounded
    <3>4. IsFiniteSet(FlippedActive(t))
      BY <3>3, FS_Subset
    <3>5. CASE active' = FlippedActive(t)
      BY <2>2, <3>2, <3>3, <3>5 DEF SeenOrAdd, GenerationsBounded
    <3>6. CASE ~Full(t) /\ active' = FlippedActive(t) \cup {h}
      <4>1. Cardinality(FlippedActive(t)) \in Nat
        BY <3>4, FS_CardinalityType
      <4>2. Cardinality(FlippedActive(t)) < MaxLen
        BY SMT, <3>6, <4>1 DEF Full
      <4>3. Cardinality(active') <= Cardinality(FlippedActive(t)) + 1
        <5>1. \/ Cardinality(active') = Cardinality(FlippedActive(t))
              \/ Cardinality(active') = Cardinality(FlippedActive(t)) + 1
          BY <3>4, <3>6, FS_AddElement
        <5> QED
          BY SMT, <4>1, <5>1
      <4>4. IsFiniteSet(active')
        BY <3>4, <3>6, FS_AddElement
      <4>5. Cardinality(active') \in Nat
        BY <4>4, FS_CardinalityType
      <4> QED
        BY SMT, <2>2, <3>1, <3>2, <3>3, <3>6, <4>1, <4>2, <4>3, <4>5
           DEF SeenOrAdd, GenerationsBounded
    <3> QED
      BY <2>2, <3>5, <3>6 DEF SeenOrAdd
  <2>3. CASE UNCHANGED cache
    BY <2>3 DEF cache, GenerationsBounded
  <2> QED
    BY <2>1, <2>2, <2>3 DEF Next, Tick, CheckTimestamp, ReadClock, vars, cache
<1>3. Bounded => GenerationsBounded
  OBVIOUS
<1> QED
  BY <1>1, <1>2, <1>3, InitIndInv, NextIndInv, PTL DEF Spec
===============================================================================
