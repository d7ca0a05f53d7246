------------------------------- MODULE MCWire -------------------------------
(* Instances of Wire: the repository's layouts and one that mixes them; and *)
(* of BufPool, whose frames are these messages.  A behaviour is one part's. *)
EXTENDS Wire, BufPool

VARIABLE part

allVars == <<vars, poolVars, part>>

MCInit ==
    /\ part \in {"wire", "pool"}
    /\ Init /\ PoolInit
    /\ part = "pool" => lay = IntentWatchRef /\ pattern = "zero" /\ flags = <<>>

MCNext ==
    \/ part = "wire" /\ Next /\ UNCHANGED <<poolVars, part>>
    \/ part = "pool" /\ PoolNext /\ UNCHANGED <<vars, part>>

MCSpec == MCInit /\ [][MCNext]_allVars

\* The builder's cursor stays inside its buffer, and every reader inside the
\* message it was given, and what it reaches by a pointer behind the header,
\* whatever one word of it holds (see Wire).
MCStaysInside == TypeOK /\ StaysInside

\* A parent whose nested object and lists of objects have tails of their own,
\* and fields that are set after them.
Family ==
    Layout(37, <<Fixed(0, 1), Var(1), Nested(9, Inner), ListNested(13, Child),
                 Fixed(21, 8), ListOf(29, BatchItem)>>)

MCMessages ==
    {Forward, Response, Push, QuoteRequest, QuoteResult, StateRequest,
     StateResult, PreparedIntent, SwapIntentRequest, DExportRef, IntentStatus,
     IntentWatchRef, WatchPollRequest, SettlementResult, RouteRequest,
     RouteStatus, RouteWatchPoll, NodeIDHandshake, TransactionSchema,
     BlockHeaderSchema, LogSchema, AdvanceTime, Batch, BatchItem, BatchTx,
     Inner, Outer, Child, Parent, QuasarCert, ZKVMUTXO,
     LightClientBlockHeaderRequest, Family}

MCPatterns == {"zero", "ones", "mixed"}

MCFlagChoices == {<<>>, <<0, 49>>}

\* 0, -1, one past the message's end on either side, and the extremes.
MCWords ==
    {LE(n, 4) : n \in {-24, -16, -1, 0, 1, 4, 8, 40, 300}}
        \cup {<<255, 255, 255, 127>>, <<0, 0, 0, 128>>}

\* A list whose element size is no multiple of the alignment.
Entry == Layout(12, <<Fixed(0, 8), Fixed(8, 4)>>)

OddList == {Layout(17, <<Fixed(0, 1), Fixed(1, 8), ListOf(9, Entry)>>)}
=============================================================================
