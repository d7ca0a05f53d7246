----------------------------- MODULE ReplayLimits -----------------------------
(* The sets and limits of the replay gate (ReplayCache), what the gate needs *)
(* of them, and what it promises of its generations and its admissions.      *)
EXTENDS Integers, Sequences, FiniteSets

CONSTANTS
    Key,        \* the HELLOs that are presented
    Worker,     \* the responder's handshake goroutines
    TTL,        \* ReplayCacheTTLSec: the length of a generation
    Window,     \* ReplayWindowNS: how far a timestamp may be off
    MaxLen,     \* the entry cap of one generation
    MaxTime,    \* bound on the clock
    None        \* a worker between two handshakes handles no HELLO

ASSUME ReplayAssumption ==
    /\ TTL \in Nat \ {0}
    /\ Window \in Nat
    /\ MaxLen \in Nat
    /\ MaxTime \in Nat
    /\ IsFiniteSet(Key)
    /\ None \notin Key

\* The two constants of the handshake fit together: an entry outlives the
\* window of the HELLO it stands for (30 s each way against 60 s).
ASSUME TTLCoversWindow == TTL >= 2 * Window

VARIABLES
    stamp,      \* timestamp_ns of each HELLO (never changes)
    active,     \* the generation new entries land in
    frozen,     \* the previous generation
    admits      \* history: per HELLO, the admissions so far, each with the
                \* clock reading it used and the time its locked part ran

-------------------------------------------------------------------------------
\* "Any (id, rand) tuple is remembered for AT LEAST ttl seconds after its
\* first appearance": when SeenOrAdd admits a HELLO again, more than a TTL has
\* passed since the clock reading of the admission before, however long
\* either call waited between its reading and the mutex.
RememberedForTTL ==
    \A k \in Key : \A i \in 1 .. Len(admits[k]) - 1 :
        admits[k][i + 1].at > admits[k][i].read + TTL

\* The timestamp window and the cache close the gate together: runFull lets
\* one HELLO through a second time only in a worker that reached the cache
\* after the HELLO's window had closed (it was held up after CheckTimestamp).
ReadmittedOnlyAfterWindow ==
    \A k \in Key : \A i \in 2 .. Len(admits[k]) :
        admits[k][i].at > stamp[k] + Window

\* "Memory bound: 2x maxLen entries": neither generation exceeds the cap, and
\* the flips never merge them.
GenerationsBounded ==
    /\ Cardinality(active) <= MaxLen
    /\ Cardinality(frozen) <= MaxLen
===============================================================================
