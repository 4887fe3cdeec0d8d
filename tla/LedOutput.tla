----------------------------- MODULE LedOutput -----------------------------
(***************************************************************************)
(* The output of one chain of addressable LEDs (ports/esp32/               *)
(* modaddressable*.c): the list of fixtures that Python extends, the DMA   *)
(* buffer that recompute_chain sizes and divides among the fixtures, and   *)
(* the periodic timer callback, a task of its own, that composes every     *)
(* fixture's layers into the buffer and hands it to the SPI driver.        *)
(* Nothing guards what the two share, so their steps interleave.           *)
(*                                                                         *)
(* Colours are left out: a composed fixture is the range of bytes that the *)
(* callback writes.  A buffer is named by a number that is never used      *)
(* again, so an access to a freed one is seen; at most MaxBuffers of them  *)
(* are allocated.  A NULL pointer that is followed restarts the chip; what *)
(* a write to freed memory destroys is not followed further.               *)
(***************************************************************************)
EXTENDS Integers, Sequences, FiniteSets

CONSTANTS
    Fixtures,       \* the fixture objects the program makes
    Leds,           \* how many LEDs each has
    ProtocolOf,     \* the protocol each was made for
    NoFixture,      \* the fixture field of a node that was just linked
    MaxChain,       \* bound on the nodes of the chain
    MaxBuffers      \* bound on the allocations of DMA memory

\* The entries of modadd_protocols: bytes per LED, and what precedes and
\* follows the data of the LEDs.
modadd_protocols ==
    [apa102 |-> [bpl |-> 4, leading |-> 4, trailing_rate |-> 16],
     ws2812 |-> [bpl |-> 3, leading |-> 5, trailing_rate |-> 0]]

Protocols == DOMAIN modadd_protocols

ASSUME LedAssumption ==
    /\ Leds \in [Fixtures -> Nat \ {0}]
    /\ ProtocolOf \in [Fixtures -> Protocols]
    /\ NoFixture \notin Fixtures
    /\ MaxChain \in Nat /\ MaxBuffers \in Nat

VARIABLES
    chain,      \* the fixture field of every node of the list
    protocol,   \* ctrl->output.protocol; NoProtocol until the program sets it
    inited,     \* ctrl->output.is_initialized
    layered,    \* the fixtures that have a layer node
    hollow,     \* those whose newest layer node has no layer yet
    out,        \* out_data of every fixture: a buffer and an offset, or Null
    linked,     \* the fixtures whose ctrl field is set
    data,       \* ctrl->fixture_ctrl.data: a buffer, or 0
    data_len,   \* ctrl->fixture_ctrl.data_len
    cap,        \* the bytes of every buffer allocated so far
    freed,      \* the buffers that were given back
    timer,      \* the periodic timer is running
    pc,         \* the call that the program is inside of
    arg,        \* its fixture, or its place in the chain
    cb,         \* where the timer's callback is
    at,         \* the node it is at
    dst,        \* where it writes
    tx,         \* the transfer it prepares: a buffer and a length
    sending,    \* the transfers the SPI driver has not finished
    risks       \* what the program did that the code leaves unguarded (see Risk)

program == <<chain, protocol, inited, layered, hollow, out, linked, data, data_len,
             cap, freed, timer, pc, arg>>
callback == <<cb, at, dst, tx, sending>>
vars == <<program, callback, risks>>

NoProtocol == "unknown"
Null == [buf |-> 0, off |-> 0]
NoTransfer == [buf |-> 0, len |-> 0]

Init ==
    /\ chain = <<>>
    /\ protocol = NoProtocol
    /\ inited = FALSE
    /\ layered = {} /\ hollow = {}
    /\ out = [f \in Fixtures |-> Null]
    /\ linked = {}
    /\ data = 0 /\ data_len = 0
    /\ cap = <<>> /\ freed = {}
    /\ timer = FALSE
    /\ pc = "idle" /\ arg = 0
    /\ cb = "idle" /\ at = 0 /\ dst = Null /\ tx = NoTransfer
    /\ sending = <<>>
    /\ risks = {}

\* Nothing reads the chain or its buffer but the program.
Quiet == ~timer /\ cb = "idle" /\ sending = <<>>

\* Noted until the chip restarts: what the code neither forbids nor guards.
Risk(risky, what) == risks' = IF risky THEN risks \cup {what} ELSE risks

-----------------------------------------------------------------------------
(* Fixtures and layers                                                      *)

\* addressable.controller(id, protocol).
SetProtocol(p) ==
    /\ pc = "idle"
    /\ protocol' = p
    /\ Risk(data # 0 /\ p # protocol, "protocol")
    /\ UNCHANGED <<chain, inited, layered, hollow, out, linked, data, data_len, cap, freed,
                   timer, pc, arg, callback>>

\* add_fixture: the new node is in the list before it has its fixture.
AppendNode(f) ==
    /\ pc = "idle"
    /\ protocol = ProtocolOf[f]
    /\ Len(chain) < MaxChain
    /\ chain' = Append(chain, NoFixture)
    /\ pc' = "append" /\ arg' = f
    /\ UNCHANGED <<protocol, inited, layered, hollow, out, linked, data, data_len, cap, freed,
                   timer, callback, risks>>

AppendFixture ==
    /\ pc = "append"
    /\ chain' = [chain EXCEPT ![Len(chain)] = arg]
    /\ pc' = "idle" /\ arg' = 0
    /\ UNCHANGED <<protocol, inited, layered, hollow, out, linked, data, data_len, cap, freed,
                   timer, callback, risks>>

\* add_layer, for the first and for every later layer, links a node the same
\* way, but the composer does not look whether it has its layer.
AddLayerNode(f) ==
    /\ pc = "idle"
    /\ layered' = layered \cup {f}
    /\ hollow' = {f}
    /\ pc' = "layer"
    /\ UNCHANGED <<chain, protocol, inited, out, linked, data, data_len, cap, freed, timer,
                   arg, callback, risks>>

AddLayer ==
    /\ pc = "layer"
    /\ hollow' = {}
    /\ pc' = "idle"
    /\ UNCHANGED <<chain, protocol, inited, layered, out, linked, data, data_len, cap, freed,
                   timer, arg, callback, risks>>

-----------------------------------------------------------------------------
(* modadd_ctrl_recompute_fixtures                                           *)

\* How many LEDs the first n nodes have.
LedsUpTo(n) == Cardinality(UNION {{i} \X (1 .. Leds[chain[i]]) : i \in 1 .. n})

total_leds == LedsUpTo(Len(chain))

Protocol == modadd_protocols[protocol]

startup_bytes == Protocol.leading

shutdown_bytes(leds) ==
    IF Protocol.trailing_rate = 0 THEN 0 ELSE leds \div Protocol.trailing_rate

\* The bytes that a chain of so many LEDs needs.
LengthFor(leds) == leds * Protocol.bpl + startup_bytes + shutdown_bytes(leds)

length_required == LengthFor(total_leds)

\* The old buffer is given back only when it is too small.
Outgrown == data # 0 /\ data_len < length_required

\* Mutant of RecomputeFree: the old buffer is always given back.
RecomputeFreeAlways ==
    /\ pc = "idle"
    /\ protocol # NoProtocol
    /\ \A i \in DOMAIN chain : ProtocolOf[chain[i]] = protocol
    /\ freed' = IF data # 0 THEN freed \cup {data} ELSE freed
    /\ pc' = IF Outgrown THEN "grow" ELSE "alloc"
    /\ Risk(Outgrown /\ ~Quiet, "grown")
    /\ UNCHANGED <<chain, protocol, inited, layered, hollow, out, linked, data, data_len,
                   cap, timer, arg, callback>>

\* The chain is of one protocol: the old buffer may go.
RecomputeFree ==
    /\ pc = "idle"
    /\ protocol # NoProtocol
    /\ \A i \in DOMAIN chain : ProtocolOf[chain[i]] = protocol
    /\ freed' = IF Outgrown THEN freed \cup {data} ELSE freed
    /\ pc' = IF Outgrown THEN "grow" ELSE "alloc"
    /\ Risk(Outgrown /\ ~Quiet, "grown")
    /\ UNCHANGED <<chain, protocol, inited, layered, hollow, out, linked, data, data_len,
                   cap, timer, arg, callback>>

\* Mutant of RecomputeAlloc: the length is stored before the buffer is there.
RecomputeAllocLate ==
    /\ pc \in {"grow", "alloc"}
    /\ Len(cap) < MaxBuffers
    /\ IF data_len # length_required
       THEN data_len' = length_required /\ UNCHANGED <<cap, data, pc>>
       ELSE /\ cap' = Append(cap, length_required)
            /\ data' = Len(cap) + 1
            /\ pc' = "length"
            /\ UNCHANGED data_len
    /\ UNCHANGED <<chain, protocol, inited, layered, hollow, out, linked, freed, timer, arg,
                   callback, risks>>

\* The new buffer, and then ...
RecomputeAlloc ==
    /\ pc \in {"grow", "alloc"}
    /\ Len(cap) < MaxBuffers
    /\ cap' = Append(cap, length_required)
    /\ data' = Len(cap) + 1
    /\ pc' = "length"
    /\ UNCHANGED <<chain, protocol, inited, layered, hollow, out, linked, data_len, freed,
                   timer, arg, callback, risks>>

\* ... its length.
RecomputeLength ==
    /\ pc = "length"
    /\ data_len' = length_required
    /\ pc' = "out" /\ arg' = 1
    /\ UNCHANGED <<chain, protocol, inited, layered, hollow, out, linked, data, cap, freed,
                   timer, callback, risks>>

\* There is no memory: data and the fixtures keep the old buffer, freed or not.
RecomputeFails ==
    /\ pc \in {"grow", "alloc"}
    /\ pc' = "idle"
    /\ Risk(pc = "grow", "failed")
    /\ UNCHANGED <<chain, protocol, inited, layered, hollow, out, linked, data, data_len,
                   cap, freed, timer, arg, callback>>

\* Mutant of OffsetOf: a fixture starts one byte late.
OffsetLate(i) == startup_bytes + LedsUpTo(i - 1) * Protocol.bpl + 1

\* Where the data of the node at i starts.
OffsetOf(i) == startup_bytes + LedsUpTo(i - 1) * Protocol.bpl

\* Every fixture gets its part of the buffer ...
RecomputeOut ==
    /\ pc = "out"
    /\ arg \in DOMAIN chain
    /\ out' = [out EXCEPT ![chain[arg]] = [buf |-> data, off |-> OffsetOf(arg)]]
    /\ pc' = "ctrl"
    /\ UNCHANGED <<chain, protocol, inited, layered, hollow, linked, data, data_len, cap, freed,
                   timer, arg, callback, risks>>

\* Mutant of RecomputeCtrl: the first fixture is not linked to its controller.
RecomputeCtrlLate ==
    /\ pc = "ctrl"
    /\ linked' = IF arg = 1 THEN linked ELSE linked \cup {chain[arg]}
    /\ pc' = "out" /\ arg' = arg + 1
    /\ UNCHANGED <<chain, protocol, inited, layered, hollow, out, data, data_len, cap, freed,
                   timer, callback, risks>>

\* ... and then its controller.
RecomputeCtrl ==
    /\ pc = "ctrl"
    /\ linked' = linked \cup {chain[arg]}
    /\ pc' = "out" /\ arg' = arg + 1
    /\ UNCHANGED <<chain, protocol, inited, layered, hollow, out, data, data_len, cap, freed,
                   timer, callback, risks>>

RecomputeDone ==
    /\ pc = "out"
    /\ arg = Len(chain) + 1
    /\ pc' = "idle" /\ arg' = 0
    /\ UNCHANGED <<chain, protocol, inited, layered, hollow, out, linked, data, data_len,
                   cap, freed, timer, callback, risks>>

-----------------------------------------------------------------------------
(* The timer and its callback                                               *)

\* controller.start: the output is initialised if it can be, and then the
\* timer is started; if it runs already the call raises, and it runs on.
Start ==
    /\ pc = "idle"
    /\ inited' = (inited \/ protocol = "apa102")
    /\ timer' = TRUE
    /\ UNCHANGED <<chain, protocol, layered, hollow, out, linked, data, data_len, cap, freed, pc,
                   arg, callback, risks>>

\* timer.stop; a callback that has begun goes on.
Stop ==
    /\ pc = "idle"
    /\ timer
    /\ timer' = FALSE
    /\ UNCHANGED <<chain, protocol, inited, layered, hollow, out, linked, data, data_len,
                   cap, freed, pc, arg, callback, risks>>

\* The period is over: addressable_layer_compose starts at the head.
Fire ==
    /\ timer
    /\ cb = "idle"
    /\ IF chain = <<>> \/ data = 0 \/ data_len = 0
       THEN cb' = "output" /\ at' = 0
       ELSE cb' = "compose" /\ at' = 1
    /\ UNCHANGED <<program, dst, tx, sending, risks>>

\* The nodes whose fixture the callback does not leave alone.
Composed == {i \in DOMAIN chain :
    chain[i] # NoFixture /\ chain[i] \in layered /\ out[chain[i]] # Null}

\* Mutant of Skip: the loop goes on without taking the next node.
SkipForgetsNext ==
    /\ cb = "compose"
    /\ at \in DOMAIN chain \ Composed
    /\ UNCHANGED <<program, at, cb, dst, tx, sending, risks>>

Skip ==
    /\ cb = "compose"
    /\ at \in DOMAIN chain \ Composed
    /\ at' = at + 1
    /\ UNCHANGED <<program, cb, dst, tx, sending, risks>>

\* The tests are passed, and the layers are mixed.
Compose ==
    /\ cb = "compose"
    /\ at \in Composed
    /\ cb' = "layers"
    /\ UNCHANGED <<program, at, dst, tx, sending, risks>>

Mix ==
    /\ cb = "layers"
    /\ chain[at] \notin hollow
    /\ cb' = "enforce"
    /\ UNCHANGED <<program, at, dst, tx, sending, risks>>

\* The controller is asked for its protocol, and the result is written where
\* out_data points by now.
Enforce ==
    /\ cb = "enforce"
    /\ chain[at] \in linked
    /\ cb' = "write"
    /\ dst' = out[chain[at]]
    /\ UNCHANGED <<program, at, tx, sending, risks>>

\* The layer of a node or the controller of a fixture is NULL: the processor
\* traps and the chip restarts.
Fault ==
    /\ \/ cb = "layers" /\ chain[at] \in hollow
       \/ cb = "enforce" /\ chain[at] \notin linked
    /\ chain' = <<>>
    /\ protocol' = NoProtocol
    /\ inited' = FALSE
    /\ layered' = {} /\ hollow' = {}
    /\ out' = [f \in Fixtures |-> Null]
    /\ linked' = {}
    /\ data' = 0 /\ data_len' = 0
    /\ cap' = <<>> /\ freed' = {}
    /\ timer' = FALSE
    /\ pc' = "idle" /\ arg' = 0
    /\ cb' = "idle" /\ at' = 0 /\ dst' = Null /\ tx' = NoTransfer
    /\ sending' = <<>>
    /\ risks' = {}

Written ==
    /\ cb = "write"
    /\ cb' = "compose" /\ at' = at + 1 /\ dst' = Null
    /\ UNCHANGED <<program, tx, sending, risks>>

ComposeDone ==
    /\ cb = "compose"
    /\ at = Len(chain) + 1
    /\ cb' = "output" /\ at' = 0
    /\ UNCHANGED <<program, dst, tx, sending, risks>>

\* The descriptor of the transfer gets its length, and then its buffer.
OutputLength ==
    /\ cb = "output"
    /\ cb' = "queue" /\ tx' = [buf |-> 0, len |-> data_len]
    /\ UNCHANGED <<program, at, dst, sending, risks>>

OutputBuffer ==
    /\ cb = "queue"
    /\ cb' = "sent" /\ tx' = [tx EXCEPT !.buf = data]
    /\ UNCHANGED <<program, at, dst, sending, risks>>

\* devcfg.queue_size; one more transfer is on the wire.
queue_size == 1

\* The transfer is queued, as soon as there is room; the driver refuses a
\* port that was never initialised.
Queued ==
    /\ cb = "sent"
    /\ IF inited THEN Len(sending) <= queue_size /\ sending' = Append(sending, tx)
                 ELSE UNCHANGED sending
    /\ cb' = "idle" /\ tx' = NoTransfer
    /\ UNCHANGED <<program, at, dst, risks>>

\* The SPI driver has sent its oldest transfer; until then it reads the buffer.
TransferDone ==
    /\ sending # <<>>
    /\ sending' = Tail(sending)
    /\ UNCHANGED <<program, cb, at, dst, tx, risks>>

-----------------------------------------------------------------------------

Program ==
    \/ \E p \in Protocols : SetProtocol(p)
    \/ \E f \in Fixtures : AppendNode(f) \/ AddLayerNode(f)
    \/ AppendFixture \/ AddLayer
    \/ RecomputeFree \/ RecomputeAlloc \/ RecomputeLength \/ RecomputeFails
    \/ RecomputeOut \/ RecomputeCtrl \/ RecomputeDone
    \/ Start \/ Stop

Callback ==
    \/ Fire \/ Skip \/ Compose \/ Mix \/ Enforce \/ Written \/ ComposeDone \/ Fault
    \/ OutputLength \/ OutputBuffer \/ Queued

Next == Program \/ Callback \/ TransferDone

Spec == Init /\ [][Next]_vars /\ WF_vars(Callback) /\ WF_vars(TransferDone)

-----------------------------------------------------------------------------
(* Properties                                                               *)

Buffers == DOMAIN cap

Pointers == [buf : 0 .. MaxBuffers, off : Nat]

Transfers == [buf : 0 .. MaxBuffers, len : Nat]

TypeOK ==
    /\ chain \in Seq(Fixtures \cup {NoFixture})
    /\ protocol \in Protocols \cup {NoProtocol}
    /\ layered \subseteq Fixtures /\ hollow \subseteq layered
    /\ out \in [Fixtures -> Pointers]
    /\ linked \subseteq Fixtures
    /\ data \in Buffers \cup {0} /\ data_len \in Nat
    /\ cap \in Seq(Nat) /\ freed \subseteq Buffers
    /\ pc \in {"idle", "append", "layer", "alloc", "grow", "length", "out", "ctrl"}
    /\ cb \in {"idle", "compose", "layers", "enforce", "write", "output", "queue", "sent"}
    /\ at \in 0 .. MaxChain + 1
    /\ dst \in Pointers /\ tx \in Transfers
    /\ sending \in Seq(Transfers)
    /\ risks \subseteq {"protocol", "grown", "failed"}
    /\ {timer, inited} \subseteq BOOLEAN

\* The callback writes inside the buffer it was given, unless the protocol was
\* changed since, and into one that is allocated, unless it was outgrown while
\* it was in use or there was no memory for a larger one: whatever of the
\* chain or the layers changes meanwhile, and also while the first buffer or
\* an equally long one is divided under it
\* (addressable_composer_enforce_protocol_data reads out_data without a lock).
WritesOwnMemory ==
    cb = "write" =>
        /\ "protocol" \notin risks =>
               /\ dst.buf \in Buffers
               /\ dst.off + Leds[chain[at]] * Protocol.bpl <= cap[dst.buf]
        /\ risks = {} => dst.buf \notin freed

\* A fixture that has passed the callback's tests is without its controller,
\* which restarts the chip, only while recompute_chain is between the two
\* assignments of that fixture: out_data, which is tested, and ctrl.
FaultsOnlyBetweenStores ==
    cb \in {"layers", "enforce"} /\ chain[at] \notin linked =>
        pc = "ctrl" /\ chain[arg] = chain[at]

\* What the driver is told to send fits into its buffer, also when the chain
\* grows while the timer runs: recompute_chain stores the buffer and then the
\* length, and mach1_output_apa102_hw reads the length and then the buffer.
\* The buffer is kept until the transfer is over, unless it was outgrown in use
\* or there was no memory.
SendsOwnMemory ==
    LET InFlight == {sending[i] : i \in DOMAIN sending}
                        \cup (IF cb = "sent" THEN {tx} ELSE {}) IN
    \A t \in InFlight :
        /\ "protocol" \notin risks /\ t.len > 0 =>
               t.buf \in Buffers /\ t.len <= cap[t.buf]
        /\ risks = {} => t.buf \notin freed

Bytes(f) == out[f].off .. out[f].off + Leds[f] * Protocol.bpl - 1

\* The chain keeps its types and, between two calls of a program that has not
\* changed the protocol, the fixtures that have a place have it in the current
\* buffer, behind the leading bytes and before the trailing bytes that a buffer
\* of this length has, and no two of them share a byte.
PlacesDisjoint ==
    /\ TypeOK
    /\ pc = "idle" /\ "protocol" \notin risks /\ data # 0 =>
        LET Placed == {f \in Fixtures : out[f] # Null} IN
        /\ \E leds \in 0 .. total_leds :
               /\ data_len = LengthFor(leds)
               /\ \A f \in Placed :
                      /\ out[f].buf = data
                      /\ Bytes(f) \subseteq
                             startup_bytes .. startup_bytes + leds * Protocol.bpl - 1
        /\ \A f, g \in Placed : f # g => Bytes(f) \cap Bytes(g) = {}

\* A callback that has begun ends, also when the program appends fixtures
\* behind the node it is at and when the driver's queue is full.
CallbackEnds == cb # "idle" ~> cb = "idle"

=============================================================================
