--------------------------------- MODULE Router ---------------------------------
(***************************************************************************)
(* The locality router of router.go: Register keeps the interfaces sorted  *)
(* by cost, Send walks them and takes the first that can reach the         *)
(* destination.  Send copies the slice header under the lock and walks the *)
(* slice without it, so what it reads depends on which backing array the   *)
(* header points to: append writes in place while the array has room and   *)
(* moves to a new one when it is full.  Both are modelled.                 *)
(*                                                                         *)
(* One destination is enough: reach is the set of interfaces whose         *)
(* CanReach holds for it now.  It changes at any time (InProcessInterface  *)
(* .Register, peers that come and go).                                     *)
(***************************************************************************)
EXTENDS Naturals, Sequences

CONSTANTS
    Iface,      \* interfaces; each is registered at most once
    Cost,       \* Cost() of each
    Sender,     \* goroutines in Send; each sends once
    MaxFlaps,   \* bound on the changes of reach
    None

ASSUME RouterAssumption ==
    Cost \in [Iface -> Nat] /\ MaxFlaps \in Nat /\ None \notin Iface

VARIABLES
    arrays,     \* the backing arrays so far; t.ifaces lies in the last
    len,        \* len(t.ifaces)
    order,      \* history: the interfaces in the order of their registration
    sorting,    \* 0, or the place the newcomer has reached; t.mu is held
    tmp,        \* the element a swap has in hand, or None
    reach,      \* interfaces that can reach the destination now
    flaps,      \* changes of reach so far
    phase,      \* per sender: "idle", "scanning", "chosen", "noroute",
                \* "delivered" or "error"
    arr, last,  \* per sender: the slice it walks
    pos,        \* per sender: the place it looks at next
    chosen,     \* per sender: the interface it took, or None
    always      \* history, per sender: the interfaces registered before its
                \* Send that could reach the destination all along

table == <<arrays, len, order, sorting, tmp>>
vars == <<arrays, len, order, sorting, tmp, reach, flaps, phase, arr, last, pos,
          chosen, always>>

Registered == {order[k] : k \in 1 .. Len(order)}

\* Every variable has its type, and no slice reaches past its backing array.
TypeOK ==
    /\ arrays \in Seq(Seq(Iface \cup {None})) /\ arrays # <<>>
    /\ order \in Seq(Iface) /\ len = Len(order)
    /\ len <= Len(arrays[Len(arrays)])
    /\ sorting \in 0 .. len /\ tmp \in Iface \cup {None}
    /\ reach \in SUBSET Iface /\ flaps \in 0 .. MaxFlaps
    /\ phase \in [Sender -> {"idle", "scanning", "chosen", "noroute",
                             "delivered", "error"}]
    /\ arr \in [Sender -> 1 .. Len(arrays)] /\ last \in [Sender -> Nat]
    /\ pos \in [Sender -> Nat \ {0}]
    /\ \A s \in Sender : last[s] <= Len(arrays[arr[s]]) /\ pos[s] <= last[s] + 1
    /\ chosen \in [Sender -> Iface \cup {None}]
    /\ always \in [Sender -> SUBSET Iface]

\* NewRouter: a nil slice.
Init ==
    /\ arrays = << <<>> >> /\ len = 0 /\ order = <<>>
    /\ sorting = 0 /\ tmp = None
    /\ reach \in SUBSET Iface /\ flaps = 0
    /\ phase = [s \in Sender |-> "idle"]
    /\ arr = [s \in Sender |-> 1] /\ last = [s \in Sender |-> 0]
    /\ pos = [s \in Sender |-> 1]
    /\ chosen = [s \in Sender |-> None]
    /\ always = [s \in Sender |-> {}]

-------------------------------------------------------------------------------
Current == Len(arrays)
Slot(k) == arrays[Current][k]
Store(k, i) == arrays' = [arrays EXCEPT ![Current][k] = i]

\* The capacity append gives a full slice: it doubles, from 1.
Grown(cap) == IF cap = 0 THEN 1 ELSE 2 * cap

\* Register takes the lock and appends.
Register(i) ==
    LET cap == Len(arrays[Current]) IN
    /\ sorting = 0
    /\ i \notin Registered
    /\ \/ /\ len < cap
          /\ Store(len + 1, i)
       \/ /\ len = cap
          /\ arrays' = Append(arrays, [k \in 1 .. Grown(cap) |->
                           IF k <= len THEN Slot(k)
                           ELSE IF k = len + 1 THEN i ELSE None])
    /\ len' = len + 1
    /\ order' = Append(order, i)
    /\ sorting' = len + 1
    /\ UNCHANGED <<tmp, reach, flaps, phase, arr, last, pos, chosen, always>>

\* MUTANT of Less: a newcomer passes those of equal cost.
LessOrEqual(i, j) == Cost[i] <= Cost[j]

\* The comparison Register sorts by.
Less(i, j) == Cost[i] < Cost[j]

MustSwap == sorting > 1 /\ tmp = None /\ Less(Slot(sorting), Slot(sorting - 1))

\* sort.SliceStable on a slice sorted but for its last element: the newcomer
\* changes places with its left neighbour while it costs less.  A swap is two
\* stores.
SwapFirst ==
    /\ MustSwap
    /\ tmp' = Slot(sorting)
    /\ Store(sorting, Slot(sorting - 1))
    /\ UNCHANGED <<len, order, sorting, reach, flaps, phase, arr, last, pos,
                   chosen, always>>

SwapSecond ==
    /\ tmp # None
    /\ Store(sorting - 1, tmp)
    /\ tmp' = None
    /\ sorting' = sorting - 1
    /\ UNCHANGED <<len, order, reach, flaps, phase, arr, last, pos, chosen,
                   always>>

\* Sorted: the lock is released.
RegisterDone ==
    /\ sorting > 0 /\ tmp = None /\ ~MustSwap
    /\ sorting' = 0
    /\ UNCHANGED <<arrays, len, order, tmp, reach, flaps, phase, arr, last, pos,
                   chosen, always>>

-------------------------------------------------------------------------------
\* Send copies the slice header under the read lock ...
Snapshot(s) ==
    /\ phase[s] = "idle" /\ sorting = 0
    /\ phase' = [phase EXCEPT ![s] = "scanning"]
    /\ arr' = [arr EXCEPT ![s] = Current]
    /\ last' = [last EXCEPT ![s] = len]
    /\ always' = [always EXCEPT ![s] = Registered \cap reach]
    /\ UNCHANGED <<table, reach, flaps, pos, chosen>>

\* The walk is over.
AtEnd(s) == pos[s] > last[s]

\* ... looks at the next interface ...
Scan(s) ==
    LET i == arrays[arr[s]][pos[s]] IN
    /\ phase[s] = "scanning" /\ ~AtEnd(s)
    /\ \/ /\ i \in reach
          /\ phase' = [phase EXCEPT ![s] = "chosen"]
          /\ chosen' = [chosen EXCEPT ![s] = i]
          /\ UNCHANGED pos
       \/ /\ i \notin reach
          /\ pos' = [pos EXCEPT ![s] = @ + 1]
          /\ UNCHANGED <<phase, chosen>>
    /\ UNCHANGED <<table, reach, flaps, arr, last, always>>

\* ... and gives up, ErrNoRoute, at the end.
NoRoute(s) ==
    /\ phase[s] = "scanning" /\ AtEnd(s)
    /\ phase' = [phase EXCEPT ![s] = "noroute"]
    /\ UNCHANGED <<table, reach, flaps, arr, last, pos, chosen, always>>

\* Deliver on the interface it took: an error if it cannot reach any more.
Deliver(s) ==
    /\ phase[s] = "chosen"
    /\ phase' = [phase EXCEPT ![s] =
                    IF chosen[s] \in reach THEN "delivered" ELSE "error"]
    /\ UNCHANGED <<table, reach, flaps, arr, last, pos, chosen, always>>

\* A local handler is registered or a peer connects; or the reverse.
Flap(i) ==
    /\ flaps < MaxFlaps
    /\ flaps' = flaps + 1
    /\ reach' = IF i \in reach THEN reach \ {i} ELSE reach \cup {i}
    /\ always' = [s \in Sender |-> IF phase[s] = "scanning" THEN always[s] \ {i}
                                                            ELSE always[s]]
    /\ UNCHANGED <<table, phase, arr, last, pos, chosen>>

Next ==
    \/ \E i \in Iface : Register(i) \/ Flap(i)
    \/ SwapFirst \/ SwapSecond \/ RegisterDone
    \/ \E s \in Sender : Snapshot(s) \/ Scan(s) \/ NoRoute(s) \/ Deliver(s)

Spec == Init /\ [][Next]_vars

-------------------------------------------------------------------------------
\* i comes before j: it costs less, or as much and was registered earlier.
Precedes(i, j) ==
    \/ Cost[i] < Cost[j]
    \/ /\ Cost[i] = Cost[j]
       /\ \E a, b \in 1 .. Len(order) : a < b /\ order[a] = i /\ order[b] = j

\* Register keeps "the set sorted ascending by Cost" and "Ties keep registration
\* order", and loses nobody, whichever array the slice has moved to.
SortedStable ==
    sorting = 0 =>
        /\ {Slot(k) : k \in 1 .. len} = Registered
        /\ \A a, b \in 1 .. len : a < b => Precedes(Slot(a), Slot(b))

\* "Send routes payload to dst over the cheapest interface that can reach it",
\* and "ErrNoRoute is returned when no registered interface can reach the
\* destination": of the interfaces registered before the Send that could reach
\* the destination all along, none comes before the one Send took, and there is
\* none when it found no route.
CheapestReachable ==
    \A s \in Sender :
        /\ chosen[s] # None => \A i \in always[s] : ~Precedes(i, chosen[s])
        /\ phase[s] = "noroute" => always[s] = {}

\* The router is right: slices lie within their arrays, the table is sorted with
\* ties in the order registered, and a Send takes the cheapest interface that
\* stays reachable.
RouteIsBest == TypeOK /\ SortedStable /\ CheapestReachable
===============================================================================
