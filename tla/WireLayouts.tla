---------------------------- MODULE WireLayouts ----------------------------
(***************************************************************************)
(* The objects this repository puts on the wire, as tables: for each one   *)
(* the size its StartObject reserves and its fields in the order the       *)
(* builder sets them.  A table is read off the offset constants, the build *)
(* function and the read function together; Wire interprets it.            *)
(*                                                                         *)
(* A leaf is a fixed-width value stored in place (an integer, a boolean,   *)
(* an id, an address: here its little-endian bytes) or variable bytes,     *)
(* stored in the tail behind an 8-byte {relOffset, length} cell.  Three    *)
(* further kinds belong to the typed layer of v1/.                         *)
(***************************************************************************)
EXTENDS Integers, Sequences, SequencesExt

Fixed(at, width) == [kind |-> "fixed", at |-> at, width |-> width]

Bool(at) == [kind |-> "bool", at |-> at, width |-> 1]

Var(at) == [kind |-> "bytes", at |-> at, width |-> 8]

Nested(at, elem) == [kind |-> "nested", at |-> at, width |-> 4, elem |-> elem]

ListOf(at, elem) == [kind |-> "list", at |-> at, width |-> 8, elem |-> elem]

ListNested(at, elem) ==
    [kind |-> "listNested", at |-> at, width |-> 8, elem |-> elem]

Layout(size, fields) == [size |-> size, fields |-> fields]

(***************************************************************************)
(* forward/: the HTTP envelopes between a gateway and its backends.        *)
(***************************************************************************)
Forward ==
    Layout(72, <<Bool(0), Fixed(8, 8), Var(16), Var(24), Var(32), Var(40),
                 Var(48), Var(56), Var(64)>>)

Response == Layout(24, <<Fixed(0, 4), Var(8), Var(16)>>)

Push == Layout(24, <<Var(0), Var(8), Var(16)>>)

(***************************************************************************)
(* dexsession/: requests, results and pointers of the trading session.     *)
(***************************************************************************)
QuoteRequest == Layout(48, <<Fixed(0, 32), Fixed(32, 8), Bool(40)>>)

QuoteResult ==
    Layout(64, <<Fixed(0, 32), Fixed(32, 8), Fixed(40, 8), Fixed(48, 8),
                 Bool(56)>>)

StateRequest ==
    Layout(124, <<Fixed(0, 1), Fixed(8, 32), Fixed(40, 20), Fixed(60, 32),
                  Fixed(92, 32)>>)

StateResult ==
    Layout(80, <<Fixed(0, 1), Bool(1), Bool(2), Fixed(8, 8), Fixed(16, 32),
                 Fixed(48, 32)>>)

PreparedIntent ==
    Layout(252, <<Fixed(0, 20), Fixed(20, 32), Fixed(52, 8), Fixed(60, 8),
                  Fixed(68, 32), Fixed(100, 32), Fixed(132, 20),
                  Fixed(152, 20), Fixed(172, 32), Fixed(204, 32), Var(236),
                  Var(244)>>)

SwapIntentRequest ==
    Layout(228, <<Fixed(0, 4), Fixed(8, 8), Fixed(16, 8), Fixed(24, 8),
                  Fixed(32, 8), Fixed(40, 32), Fixed(72, 32), Fixed(104, 20),
                  Fixed(124, 32), Fixed(156, 20), Fixed(176, 32),
                  Fixed(208, 20)>>)

DExportRef ==
    Layout(104, <<Fixed(0, 4), Fixed(8, 32), Fixed(40, 32), Fixed(72, 32)>>)

IntentStatus ==
    Layout(120, <<Fixed(0, 1), Fixed(4, 4), Fixed(8, 32), Fixed(40, 32),
                  Fixed(72, 32), Fixed(104, 8), Var(112)>>)

IntentWatchRef == Layout(32, <<Fixed(0, 32)>>)

WatchPollRequest == Layout(32, <<Fixed(0, 32)>>)

SettlementResult ==
    Layout(100, <<Fixed(0, 1), Fixed(8, 20), Fixed(28, 32), Fixed(60, 32),
                  Var(92)>>)

RouteRequest ==
    Layout(204, <<Fixed(0, 4), Fixed(4, 4), Fixed(8, 4), Fixed(16, 8),
                  Fixed(24, 8), Fixed(32, 8), Fixed(40, 32), Fixed(72, 32),
                  Fixed(104, 20), Fixed(124, 32), Fixed(156, 20),
                  Fixed(176, 20), Var(196)>>)

RouteStatus ==
    Layout(136, <<Fixed(0, 1), Fixed(4, 4), Fixed(8, 4), Fixed(12, 4),
                  Fixed(16, 8), Fixed(24, 8), Fixed(32, 32), Fixed(64, 32),
                  Fixed(96, 32), Var(128)>>)

RouteWatchPoll == Layout(32, <<Fixed(0, 32)>>)

(***************************************************************************)
(* node_codec.go: a node's name, sixty bytes in place and their number.    *)
(***************************************************************************)
NodeIDHandshake == Layout(64, <<Fixed(0, 60), Fixed(60, 4)>>)

(***************************************************************************)
(* schema.go: a StructBuilder gives its fields their offsets in the order  *)
(* they are added, each aligned as its method aligns it.                   *)
(***************************************************************************)
Struct == Layout(0, <<>>)

StructAlign(at, n) == ((at + n - 1) \div n) * n

Add(sb, n, field) ==
    LET at == StructAlign(sb.size, n) IN
    Layout(at + field.width, Append(sb.fields, [field EXCEPT !.at = at]))

Build(fields) ==
    LET sb == FoldLeft(LAMBDA b, f : Add(b, f[1], f[2]), Struct, fields)
    IN  Layout(StructAlign(sb.size, 8), sb.fields)

\* The methods of StructBuilder, as <<alignment, field>>.
AddUint(width) == <<width, Fixed(0, width)>>

AddBool == <<1, Bool(0)>>

AddBytes == <<4, Var(0)>>

AddList(elem) == <<4, ListOf(0, elem)>>

\* evm.go adds byte arrays, which need no alignment.
AddRaw(size) == <<1, Fixed(0, size)>>

AddAddress == AddRaw(20)

AddHash == AddRaw(32)

AddSignature == AddRaw(65)

Hash == Layout(32, <<Fixed(0, 32)>>)

TransactionSchema ==
    Build(<<AddHash, AddUint(8), AddAddress, AddAddress, AddBytes, AddBytes,
            AddUint(8), AddBytes, AddUint(8), AddSignature>>)

BlockHeaderSchema ==
    Build(<<AddHash, AddHash, AddAddress, AddHash, AddHash, AddHash, AddBytes,
            AddUint(8), AddUint(8), AddUint(8), AddUint(8), AddUint(8),
            AddBytes, AddHash, AddUint(8)>>)

LogSchema ==
    Build(<<AddAddress, AddList(Hash), AddBytes, AddUint(8), AddHash,
            AddUint(4), AddHash, AddUint(4), AddBool>>)

(***************************************************************************)
(* v1/examples/: two typed schemas; the byte at 0 is the kind tag that     *)
(* startBuild writes and Wrap compares.                                    *)
(***************************************************************************)
AdvanceTime == Layout(9, <<Fixed(0, 1), Fixed(1, 8)>>)

Item == Layout(16, <<Fixed(0, 8), Fixed(8, 8)>>)

Batch == Layout(17, <<Fixed(0, 1), Fixed(1, 8), ListOf(9, Item)>>)

(***************************************************************************)
(* v1/codegen/testpkg/: what the generator emits for its schemas.          *)
(***************************************************************************)
BatchItem == Layout(16, <<Fixed(0, 8), Fixed(8, 8)>>)

BatchTx == Layout(17, <<Fixed(0, 1), Fixed(1, 8), ListOf(9, BatchItem)>>)

Inner == Layout(16, <<Fixed(0, 8), Var(8)>>)

Outer == Layout(13, <<Fixed(0, 1), Fixed(1, 8), Nested(9, Inner)>>)

Child == Layout(16, <<Fixed(0, 8), Var(8)>>)

Parent == Layout(17, <<Fixed(0, 1), Fixed(1, 8), ListNested(9, Child)>>)

QuasarCert ==
    Layout(72, <<Fixed(0, 1), Fixed(8, 8), Fixed(16, 8), Fixed(24, 4),
                 Fixed(32, 4), Fixed(36, 4), Fixed(40, 4), Fixed(44, 4),
                 Fixed(48, 4), Fixed(52, 4), Fixed(56, 4), Fixed(60, 4),
                 Fixed(64, 4), Fixed(68, 4)>>)

ZKVMUTXO ==
    Layout(72, <<Fixed(0, 1), Fixed(4, 4), Fixed(8, 8), Fixed(48, 4),
                 Fixed(52, 4), Fixed(56, 4), Fixed(60, 4), Fixed(64, 4),
                 Fixed(68, 4), Fixed(16, 32)>>)

LightClientBlockHeaderRequest ==
    Layout(51, <<Fixed(0, 1), Fixed(1, 1), Fixed(2, 4), Fixed(6, 8),
                 Fixed(46, 1), Fixed(47, 4), Fixed(14, 32)>>)
=============================================================================
