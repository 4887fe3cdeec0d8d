-------------------------- MODULE LedOutputProofs --------------------------
(***************************************************************************)
(* Proofs about the LED chain, for chains and fixtures of every size and   *)
(* any number of recomputations.                                           *)
(***************************************************************************)
EXTENDS LedOutput, FiniteSetTheorems, SequenceTheorems, TLAPS

-----------------------------------------------------------------------------
(* The inductive invariant                                                  *)

\* The bytes that recompute_chain asks for if the chain has n nodes.
Required(n) == LengthFor(LedsUpTo(n))

\* Every node has its fixture but the one that is being linked, and every fixture with
\* a place its controller but the one that is being placed; where the calls in progress
\* and the callback are.
NodesInv ==
    /\ Len(chain) <= MaxChain /\ Len(cap) <= MaxBuffers
    /\ \A i \in DOMAIN chain : chain[i] \in Fixtures \/ (pc = "append" /\ i = Len(chain))
    /\ pc = "append" => arg \in Fixtures /\ Len(chain) > 0 /\ chain[Len(chain)] = NoFixture
    /\ pc \in {"grow", "alloc", "length", "out", "ctrl"} => protocol # NoProtocol
    /\ pc \in {"grow", "length", "out", "ctrl"} => data # 0
    /\ pc = "out" => arg \in 1 .. Len(chain) + 1
    /\ pc = "ctrl" => arg \in DOMAIN chain
    /\ \A f \in Fixtures : out[f] # Null => f \in linked \/ (pc = "ctrl" /\ chain[arg] = f)
    /\ cb \in {"compose", "layers", "enforce", "write"} => data # 0
    /\ cb = "compose" => at \in 1 .. Len(chain) + 1
    /\ cb \in {"layers", "enforce", "write"} => at \in DOMAIN chain /\ chain[at] \in Fixtures
    /\ cb \in {"layers", "enforce"} => out[chain[at]] # Null

\* A fixture that is written at p stays inside the buffer.
Inside(f, p) == p.buf \in Buffers /\ p.off + Leds[f] * Protocol.bpl <= cap[p.buf]

\* A transfer stays inside its buffer.
Fits(t) == t.len > 0 => t.buf \in Buffers /\ t.len <= cap[t.buf]

\* The recorded length is never more than the buffer has, also between the two
\* assignments, and every fixture that has a place has it inside some buffer.
BufferInv ==
    /\ data = 0 => data_len = 0 /\ \A f \in Fixtures : out[f] = Null
    /\ data # 0 => protocol # NoProtocol /\ data_len <= cap[data]
    /\ pc \in {"length", "out", "ctrl"} =>
           cap[data] = length_required /\ data_len <= length_required
    /\ pc \in {"out", "ctrl"} => data_len = length_required
    /\ \A f \in Fixtures : out[f] # Null => Inside(f, out[f])

\* The place of node i in the current buffer.
Place(i) == [buf |-> data, off |-> OffsetOf(i)]

\* The buffer has been divided among the first m nodes, and nothing else has a place.
DividedAmong(m) ==
    /\ data_len = Required(m)
    /\ \A i \in 1 .. m : chain[i] \in Fixtures
    /\ \A f \in Fixtures : out[f] # Null => \E i \in 1 .. m : chain[i] = f /\ out[f] = Place(i)

SettledInv ==
    data # 0 /\ pc \notin {"length", "out", "ctrl"} => \E m \in 0 .. Len(chain) : DividedAmong(m)

\* The nodes that recompute_chain has given their new place.
Done == CASE pc = "ctrl" -> 1 .. arg [] pc = "out" -> 1 .. arg - 1 [] OTHER -> {}

\* While it does, the others have their old place or none.
DivideInv ==
    pc \in {"length", "out", "ctrl"} =>
        /\ \A i \in Done : \E j \in Done : chain[j] = chain[i] /\ out[chain[i]] = Place(j)
        /\ \A f \in Fixtures : out[f] # Null => \E i \in DOMAIN chain : chain[i] = f

\* What the callback has read still fits when it is used.
CallbackInv ==
    /\ cb = "write" => Inside(chain[at], dst)
    /\ cb = "queue" => tx.len <= data_len
    /\ cb = "sent" => Fits(tx)
    /\ \A i \in DOMAIN sending : Fits(sending[i])

\* A fixture's place is in a freed buffer only while recompute_chain, and nothing else,
\* is at work; what is written or sent is allocated.
UseInv ==
    /\ pc = "grow" => Quiet
    /\ data \in freed => pc = "grow"
    /\ \A f \in Fixtures : out[f] # Null /\ out[f].buf \in freed =>
           Quiet /\ pc \in {"grow", "length", "out", "ctrl"}
    /\ cb = "write" => dst.buf \notin freed
    /\ cb = "sent" => tx.buf \notin freed
    /\ \A i \in DOMAIN sending : sending[i].buf \notin freed

IInv ==
    /\ TypeOK /\ NodesInv
    /\ "protocol" \notin risks => BufferInv /\ SettledInv /\ DivideInv /\ CallbackInv
    /\ risks = {} => UseInv

-----------------------------------------------------------------------------
(* The division of a buffer                                                 *)

LEMMA ProtocolFacts ==
    ASSUME protocol \in Protocols
    PROVE  /\ Protocol.bpl \in {3, 4} /\ startup_bytes \in {4, 5}
           /\ Protocol.trailing_rate \in {0, 16}
<1>1. protocol = "apa102" \/ protocol = "ws2812"
  BY DEF Protocols, modadd_protocols
<1>2. CASE protocol = "apa102"
  BY <1>2 DEF Protocol, startup_bytes, modadd_protocols
<1>3. CASE protocol = "ws2812"
  BY <1>3 DEF Protocol, startup_bytes, modadd_protocols
<1> QED
  BY <1>1, <1>2, <1>3

\* The LEDs of the first n nodes, as pairs of a node and a number.
Pixels(n) == UNION {{i} \X (1 .. Leds[chain[i]]) : i \in 1 .. n}

LEMMA PixelsFinite ==
    ASSUME NEW n \in Nat, \A i \in 1 .. n : chain[i] \in Fixtures
    PROVE  IsFiniteSet(Pixels(n)) /\ LedsUpTo(n) = Cardinality(Pixels(n)) /\ LedsUpTo(n) \in Nat
<1> DEFINE f == [i \in 1 .. n |-> {i} \X (1 .. Leds[chain[i]])]
           T == {{i} \X (1 .. Leds[chain[i]]) : i \in 1 .. n}
<1>1. f \in Surjection(1 .. n, T)
  BY DEF Surjection
<1>2. IsFiniteSet(1 .. n)
  BY FS_Interval
<1>3. IsFiniteSet(T)
  BY <1>1, <1>2, FS_Surjection
<1>4. ASSUME NEW i \in 1 .. n PROVE IsFiniteSet({i} \X (1 .. Leds[chain[i]]))
  <2>1. PICK l \in Int : l = Leds[chain[i]]
    BY LedAssumption
  <2>2. IsFiniteSet(1 .. l)
    BY FS_Interval
  <2>3. IsFiniteSet({i})
    BY FS_Singleton
  <2> QED
    BY <2>1, <2>2, <2>3, FS_Product
<1>5. \A U \in T : IsFiniteSet(U)
  BY <1>4
<1>6. IsFiniteSet(Pixels(n))
  BY <1>3, <1>5, FS_UNION DEF Pixels
<1> QED
  BY <1>6, FS_CardinalityType DEF Pixels, LedsUpTo

\* One more node adds the LEDs of its fixture.
LEMMA LedsNext ==
    ASSUME NEW n \in Nat, \A i \in 1 .. n + 1 : chain[i] \in Fixtures
    PROVE  LedsUpTo(n + 1) = LedsUpTo(n) + Leds[chain[n + 1]]
<1>1. /\ IsFiniteSet(Pixels(n)) /\ LedsUpTo(n) = Cardinality(Pixels(n)) /\ LedsUpTo(n) \in Nat
      /\ LedsUpTo(n + 1) = Cardinality(Pixels(n + 1))
  BY PixelsFinite
<1>2. PICK l \in Nat : l = Leds[chain[n + 1]] /\ l > 0
  BY LedAssumption
<1> DEFINE U == {n + 1} \X (1 .. l)
<1>3. IsFiniteSet(1 .. l) /\ Cardinality(1 .. l) = l
  <2>1. 1 \in Int /\ l \in Int /\ ~(1 > l) /\ l - 1 + 1 = l
    BY <1>2
  <2> QED
    BY <2>1, FS_Interval
<1>4. IsFiniteSet(U) /\ Cardinality(U) = l
  <2>1. IsFiniteSet({n + 1}) /\ Cardinality({n + 1}) = 1
    BY FS_Singleton
  <2>2. IsFiniteSet(U) /\ Cardinality(U) = Cardinality({n + 1}) * Cardinality(1 .. l)
    BY <1>3, <2>1, FS_Product
  <2> HIDE DEF U
  <2> QED
    BY <1>3, <2>1, <2>2
<1>5. Pixels(n + 1) = Pixels(n) \cup U
  <2>1. 1 .. n + 1 = (1 .. n) \cup {n + 1}
    OBVIOUS
  <2> QED
    BY <1>2, <2>1 DEF Pixels
<1>6. Pixels(n) \cap U = {}
  <2>1. n + 1 \notin 1 .. n
    OBVIOUS
  <2> QED
    BY <2>1 DEF Pixels
<1> HIDE DEF U
<1>7. Cardinality(Pixels(n) \cap U) = 0
  BY <1>6, FS_EmptySet
<1>8. Cardinality(Pixels(n) \cup U)
        = Cardinality(Pixels(n)) + Cardinality(U) - Cardinality(Pixels(n) \cap U)
  BY <1>1, <1>4, FS_Union
<1>9. LedsUpTo(n + 1) = LedsUpTo(n) + l - 0
  BY <1>1, <1>4, <1>5, <1>7, <1>8
<1>10. LedsUpTo(n) + l - 0 = LedsUpTo(n) + l
  BY <1>1
<1> QED
  BY <1>2, <1>9, <1>10

LEMMA LedsGrow ==
    ASSUME NEW n \in Nat, \A i \in 1 .. n : chain[i] \in Fixtures, NEW m \in 0 .. n
    PROVE  /\ LedsUpTo(m) \in Nat /\ LedsUpTo(n) \in Nat /\ LedsUpTo(m) <= LedsUpTo(n)
           /\ m < n => /\ Leds[chain[m + 1]] \in Nat \ {0}
                       /\ LedsUpTo(m) + Leds[chain[m + 1]] <= LedsUpTo(n)
<1>1. ASSUME NEW k \in 0 .. n PROVE LedsUpTo(k) \in Nat /\ LedsUpTo(k) <= LedsUpTo(n)
  <2>1. /\ IsFiniteSet(Pixels(k)) /\ LedsUpTo(k) = Cardinality(Pixels(k)) /\ LedsUpTo(k) \in Nat
        /\ IsFiniteSet(Pixels(n)) /\ LedsUpTo(n) = Cardinality(Pixels(n))
    BY PixelsFinite
  <2>2. Pixels(k) \subseteq Pixels(n)
    <3>1. 1 .. k \subseteq 1 .. n
      OBVIOUS
    <3> QED
      BY <3>1 DEF Pixels
  <2> QED
    BY <2>1, <2>2, FS_Subset
<1>2. ASSUME m < n PROVE /\ Leds[chain[m + 1]] \in Nat \ {0}
                         /\ LedsUpTo(m) + Leds[chain[m + 1]] <= LedsUpTo(n)
  <2>1. m + 1 \in 1 .. n /\ m + 1 \in 0 .. n
    BY <1>2
  <2>2. LedsUpTo(m + 1) = LedsUpTo(m) + Leds[chain[m + 1]]
    BY <1>2, LedsNext
  <2> QED
    BY <1>1, <2>1, <2>2, LedAssumption
<1> QED
  BY <1>1, <1>2

\* The nodes' places are disjoint, behind the leading bytes, and inside what is
\* required; more nodes require more.
LEMMA Geometry ==
    ASSUME protocol \in Protocols, NEW n \in Nat, \A i \in 1 .. n : chain[i] \in Fixtures
    PROVE  /\ Required(n) \in Nat \ {0}
           /\ \A i \in 1 .. n :
                 /\ OffsetOf(i) \in Nat /\ startup_bytes <= OffsetOf(i)
                 /\ Leds[chain[i]] * Protocol.bpl \in Nat \ {0}
                 /\ OffsetOf(i) + Leds[chain[i]] * Protocol.bpl
                        <= startup_bytes + LedsUpTo(n) * Protocol.bpl
           /\ startup_bytes + LedsUpTo(n) * Protocol.bpl <= Required(n)
           /\ \A i, j \in 1 .. n : i < j => OffsetOf(i) + Leds[chain[i]] * Protocol.bpl <= OffsetOf(j)
           /\ \A m \in 0 .. n : m < n => Required(m) < Required(n)
<1>1. /\ Protocol.bpl \in {3, 4} /\ startup_bytes \in {4, 5} /\ Protocol.trailing_rate \in {0, 16}
  BY ProtocolFacts
<1>2. \A m \in 0 .. n : LedsUpTo(m) \in Nat /\ LedsUpTo(m) <= LedsUpTo(n)
  BY LedsGrow
<1>3. ASSUME NEW i \in 1 .. n, NEW j \in i .. n
      PROVE  /\ LedsUpTo(i - 1) \in Nat /\ Leds[chain[i]] \in Nat \ {0} /\ LedsUpTo(j) \in Nat
             /\ LedsUpTo(i - 1) + Leds[chain[i]] <= LedsUpTo(j)
  <2>1. j \in Nat /\ \A k \in 1 .. j : chain[k] \in Fixtures
    OBVIOUS
  <2>2. i - 1 \in 0 .. j /\ i - 1 < j /\ (i - 1) + 1 = i
    OBVIOUS
  <2> QED
    BY <2>1, <2>2, LedsGrow
<1>4. ASSUME NEW m \in 0 .. n
      PROVE  /\ Required(m) \in Nat \ {0} /\ (m < n => Required(m) < Required(n))
             /\ startup_bytes + LedsUpTo(m) * Protocol.bpl <= Required(m)
  <2>1. LedsUpTo(m) \in Nat /\ LedsUpTo(n) \in Nat
    BY <1>2
  <2>2. m < n => LedsUpTo(m) < LedsUpTo(n)
    BY <2>1, LedsGrow
  <2> QED
    BY <1>1, <2>1, <2>2 DEF Required, LengthFor, shutdown_bytes
<1>5. ASSUME NEW i \in 1 .. n
      PROVE  /\ OffsetOf(i) \in Nat /\ startup_bytes <= OffsetOf(i)
             /\ Leds[chain[i]] * Protocol.bpl \in Nat \ {0}
             /\ OffsetOf(i) + Leds[chain[i]] * Protocol.bpl
                    <= startup_bytes + LedsUpTo(n) * Protocol.bpl
  <2>1. n \in i .. n
    OBVIOUS
  <2>2. /\ LedsUpTo(i - 1) \in Nat /\ Leds[chain[i]] \in Nat \ {0} /\ LedsUpTo(n) \in Nat
        /\ LedsUpTo(i - 1) + Leds[chain[i]] <= LedsUpTo(n)
    BY <1>3, <2>1
  <2> QED
    BY <1>1, <2>2 DEF OffsetOf
<1>6. ASSUME NEW i \in 1 .. n, NEW j \in 1 .. n, i < j
      PROVE  OffsetOf(i) + Leds[chain[i]] * Protocol.bpl <= OffsetOf(j)
  <2>1. j - 1 \in i .. n
    BY <1>6
  <2>2. /\ LedsUpTo(i - 1) \in Nat /\ Leds[chain[i]] \in Nat \ {0} /\ LedsUpTo(j - 1) \in Nat
        /\ LedsUpTo(i - 1) + Leds[chain[i]] <= LedsUpTo(j - 1)
    BY <1>3, <2>1
  <2> QED
    BY <1>1, <2>2 DEF OffsetOf
<1>7. n \in 0 .. n
  OBVIOUS
<1> QED
  BY <1>4, <1>5, <1>6, <1>7

\* What is computed for a part of the chain that a step leaves alone stays the same.
LEMMA SamePrefix ==
    ASSUME NEW n \in Nat, \A i \in 1 .. n : chain'[i] = chain[i], protocol' = protocol
    PROVE  Required(n)' = Required(n) /\ \A i \in 1 .. n : OffsetOf(i)' = OffsetOf(i)
<1>1. ASSUME NEW k \in Nat, k <= n PROVE LedsUpTo(k)' = LedsUpTo(k)
  <2>1. \A i \in 1 .. k : chain'[i] = chain[i]
    BY <1>1
  <2>2. {{i} \X (1 .. Leds[chain'[i]]) : i \in 1 .. k} = {{i} \X (1 .. Leds[chain[i]]) : i \in 1 .. k}
    BY <2>1
  <2> QED
    BY <2>2 DEF LedsUpTo
<1>2. Protocol' = Protocol /\ startup_bytes' = startup_bytes
  BY DEF Protocol, startup_bytes
<1>3. \A i \in 1 .. n : i - 1 \in Nat /\ i - 1 <= n
  OBVIOUS
<1> QED
  BY <1>1, <1>2, <1>3 DEF Required, LengthFor, shutdown_bytes, OffsetOf

LEMMA SameChain ==
    ASSUME UNCHANGED <<chain, protocol>>
    PROVE  /\ length_required' = length_required /\ Protocol' = Protocol
           /\ \A i : Required(i)' = Required(i) /\ OffsetOf(i)' = OffsetOf(i)
BY DEF length_required, total_leds, startup_bytes, shutdown_bytes, LengthFor, Required, OffsetOf,
       LedsUpTo, Protocol

LEMMA RequiredOfAll == length_required = Required(Len(chain))
BY DEF length_required, total_leds, Required

-----------------------------------------------------------------------------
(* Facts the steps share                                                    *)

LEMMA Basics ==
    ASSUME TypeOK
    PROVE  /\ Len(chain) \in Nat /\ DOMAIN chain = 1 .. Len(chain)
           /\ Len(cap) \in Nat /\ Buffers = 1 .. Len(cap)
           /\ MaxChain \in Nat /\ MaxBuffers \in Nat
           /\ protocol # NoProtocol => protocol \in Protocols
           /\ NoFixture \notin Fixtures
BY LedAssumption DEF TypeOK, Buffers

\* Outside of add_fixture every node has its fixture, and the chain can be measured.
LEMMA Measured ==
    ASSUME TypeOK, NodesInv, pc # "append", protocol # NoProtocol
    PROVE  /\ protocol \in Protocols /\ Len(chain) \in Nat /\ DOMAIN chain = 1 .. Len(chain)
           /\ \A i \in 1 .. Len(chain) : chain[i] \in Fixtures
           /\ length_required \in Nat \ {0} /\ length_required = Required(Len(chain))
<1>1. /\ protocol \in Protocols /\ Len(chain) \in Nat /\ DOMAIN chain = 1 .. Len(chain)
  BY Basics
<1>2. \A i \in 1 .. Len(chain) : chain[i] \in Fixtures
  BY <1>1 DEF NodesInv
<1> QED
  BY <1>1, <1>2, Geometry, RequiredOfAll

-----------------------------------------------------------------------------
(* The callback and the driver                                              *)

\* A step of the callback leaves alone what the program relies on.
LEMMA CallbackStep ==
    ASSUME IInv, UNCHANGED <<program, risks>>,
           cb' \in {"idle", "compose", "layers", "enforce", "write", "output", "queue", "sent"},
           at' \in 0 .. MaxChain + 1, dst' \in Pointers, tx' \in Transfers,
           sending' \in Seq(Transfers),
           cb' \in {"compose", "layers", "enforce", "write"} => data # 0,
           cb' = "compose" => at' \in 1 .. Len(chain) + 1,
           cb' \in {"layers", "enforce", "write"} => at' \in DOMAIN chain /\ chain[at'] \in Fixtures,
           cb' \in {"layers", "enforce"} => out[chain[at']] # Null,
           Quiet => Quiet',
           "protocol" \notin risks => CallbackInv',
           risks = {} => /\ cb' = "write" => dst'.buf \notin freed
                         /\ cb' = "sent" => tx'.buf \notin freed
                         /\ \A i \in DOMAIN sending' : sending'[i].buf \notin freed
    PROVE  IInv'
<1> USE DEF program
<1>1. TypeOK'
  BY DEF IInv, TypeOK, Buffers
<1>2. NodesInv'
  BY DEF IInv, NodesInv
<1>3. ASSUME "protocol" \notin risks PROVE BufferInv' /\ SettledInv' /\ DivideInv'
  <2>1. BufferInv /\ SettledInv /\ DivideInv
    BY <1>3 DEF IInv
  <2>2. /\ length_required' = length_required /\ Protocol' = Protocol
        /\ \A i : Required(i)' = Required(i) /\ OffsetOf(i)' = OffsetOf(i)
    BY SameChain
  <2>3. BufferInv'
    BY <2>1, <2>2 DEF BufferInv, Inside, Buffers
  <2>4. \A m : DividedAmong(m)' <=> DividedAmong(m)
    BY <2>2 DEF DividedAmong, Place
  <2>5. SettledInv'
    BY <2>1, <2>4 DEF SettledInv
  <2>6. DivideInv'
    BY <2>1, <2>2 DEF DivideInv, Done, Place
  <2> QED
    BY <2>3, <2>5, <2>6
<1>4. risks = {} => UseInv'
  BY DEF IInv, UseInv
<1> QED
  BY <1>1, <1>2, <1>3, <1>4 DEF IInv

\* What the steps of the callback that leave the driver alone have in common.
LEMMA QuietCallback ==
    ASSUME IInv, UNCHANGED <<program, sending, risks>>, ~Quiet,
           cb' \in {"idle", "compose", "layers", "enforce", "output"},
           at' \in 0 .. MaxChain + 1, dst' \in Pointers, tx' \in Transfers,
           cb' \in {"compose", "layers", "enforce"} => data # 0,
           cb' = "compose" => at' \in 1 .. Len(chain) + 1,
           cb' \in {"layers", "enforce"} =>
               at' \in DOMAIN chain /\ chain[at'] \in Fixtures /\ out[chain[at']] # Null
    PROVE  IInv'
<1>1. sending' \in Seq(Transfers)
  BY DEF IInv, TypeOK
<1>2. "protocol" \notin risks => CallbackInv'
  BY DEF IInv, CallbackInv, Fits, Buffers, program
<1>3. risks = {} => \A i \in DOMAIN sending' : sending'[i].buf \notin freed
  BY DEF IInv, UseInv
<1> QED
  BY <1>1, <1>2, <1>3, CallbackStep

LEMMA FireStep ==
    ASSUME IInv, Fire
    PROVE  IInv'
<1>1. TypeOK /\ Len(chain) \in Nat /\ MaxChain \in Nat
  BY Basics DEF IInv
<1>2. /\ cb' \in {"output", "compose"} /\ at' \in 0 .. MaxChain + 1
      /\ dst' \in Pointers /\ tx' \in Transfers
      /\ cb' = "compose" => at' \in 1 .. Len(chain) + 1 /\ data # 0
  BY <1>1 DEF Fire, TypeOK
<1>3. ~Quiet
  BY DEF Quiet, Fire
<1> QED
  BY <1>2, <1>3, QuietCallback DEF Fire

LEMMA SkipStep ==
    ASSUME IInv, Skip
    PROVE  IInv'
<1>1. TypeOK /\ NodesInv /\ Len(chain) \in Nat /\ DOMAIN chain = 1 .. Len(chain) /\ MaxChain \in Nat
  BY Basics DEF IInv
<1>2. /\ cb' = "compose" /\ at' \in 0 .. MaxChain + 1 /\ dst' \in Pointers /\ tx' \in Transfers
      /\ at' \in 1 .. Len(chain) + 1 /\ data # 0
  BY <1>1 DEF Skip, TypeOK, NodesInv
<1>3. ~Quiet
  BY DEF Quiet, Skip
<1> QED
  BY <1>2, <1>3, QuietCallback DEF Skip

LEMMA ComposeStep ==
    ASSUME IInv, Compose \/ Mix
    PROVE  IInv'
<1>1. TypeOK /\ NodesInv
  BY DEF IInv
<1>2. at \in DOMAIN chain /\ chain[at] \in Fixtures /\ out[chain[at]] # Null /\ data # 0
  <2>1. CASE Compose
    BY <1>1, <2>1 DEF Compose, Composed, TypeOK, NodesInv
  <2>2. CASE Mix
    BY <1>1, <2>2 DEF Mix, NodesInv
  <2> QED
    BY <2>1, <2>2
<1>3. /\ cb' \in {"layers", "enforce"} /\ at' = at /\ dst' = dst /\ tx' = tx /\ ~Quiet
      /\ UNCHANGED <<program, sending, risks>>
  BY DEF Compose, Mix, Quiet
<1>4. at' \in 0 .. MaxChain + 1 /\ dst' \in Pointers /\ tx' \in Transfers
  BY <1>1, <1>3 DEF TypeOK
<1> QED
  BY <1>2, <1>3, <1>4, QuietCallback

\* out_data is read again, and is a place in a buffer that is still there.
LEMMA EnforceStep ==
    ASSUME IInv, Enforce
    PROVE  IInv'
<1>1. /\ TypeOK /\ NodesInv /\ at \in DOMAIN chain /\ chain[at] \in Fixtures
      /\ out[chain[at]] # Null /\ data # 0
  BY DEF IInv, NodesInv, Enforce
<1>2. /\ cb' = "write" /\ at' = at /\ dst' = out[chain[at]] /\ tx' = tx /\ sending' = sending
      /\ UNCHANGED <<program, risks>> /\ ~Quiet
  BY DEF Enforce, Quiet
<1>3. /\ at' \in 0 .. MaxChain + 1 /\ dst' \in Pointers /\ tx' \in Transfers
      /\ sending' \in Seq(Transfers)
  BY <1>1, <1>2 DEF TypeOK
<1>4. ASSUME "protocol" \notin risks PROVE CallbackInv'
  <2>1. BufferInv /\ CallbackInv
    BY <1>4 DEF IInv
  <2>2. Inside(chain[at], out[chain[at]])
    BY <1>1, <2>1 DEF BufferInv
  <2> QED
    BY <1>2, <2>1, <2>2 DEF CallbackInv, Inside, Fits, Buffers, Protocol, program
<1>5. ASSUME risks = {} PROVE dst'.buf \notin freed /\ \A i \in DOMAIN sending' : sending'[i].buf \notin freed
  BY <1>1, <1>2, <1>5 DEF IInv, UseInv
<1> QED
  BY <1>1, <1>2, <1>3, <1>4, <1>5, CallbackStep

LEMMA WrittenStep ==
    ASSUME IInv, Written
    PROVE  IInv'
<1>1. /\ TypeOK /\ NodesInv /\ Len(chain) \in Nat /\ DOMAIN chain = 1 .. Len(chain)
      /\ MaxChain \in Nat /\ MaxBuffers \in Nat
  BY Basics DEF IInv
<1>2. /\ cb' = "compose" /\ at' \in 0 .. MaxChain + 1 /\ at' \in 1 .. Len(chain) + 1
      /\ data # 0
  BY <1>1 DEF Written, NodesInv
<1>3. dst' \in Pointers /\ tx' \in Transfers
  BY <1>1 DEF Written, Null, Pointers, TypeOK
<1>4. ~Quiet
  BY DEF Quiet, Written
<1> QED
  BY <1>2, <1>3, <1>4, QuietCallback DEF Written

LEMMA ComposeDoneStep ==
    ASSUME IInv, ComposeDone
    PROVE  IInv'
<1>1. TypeOK /\ MaxChain \in Nat
  BY Basics DEF IInv
<1>2. cb' = "output" /\ at' \in 0 .. MaxChain + 1 /\ dst' \in Pointers /\ tx' \in Transfers
  BY <1>1 DEF ComposeDone, TypeOK
<1>3. ~Quiet
  BY DEF Quiet, ComposeDone
<1> QED
  BY <1>2, <1>3, QuietCallback DEF ComposeDone

LEMMA OutputLengthStep ==
    ASSUME IInv, OutputLength
    PROVE  IInv'
<1>1. TypeOK /\ MaxChain \in Nat /\ MaxBuffers \in Nat
  BY Basics DEF IInv
<1>2. /\ cb' = "queue" /\ at' = at /\ dst' = dst /\ sending' = sending
      /\ tx' = [buf |-> 0, len |-> data_len]
      /\ UNCHANGED <<program, risks>> /\ ~Quiet
  BY DEF OutputLength, Quiet
<1>3. /\ tx' \in Transfers /\ tx'.len = data_len /\ sending' \in Seq(Transfers)
      /\ at' \in 0 .. MaxChain + 1 /\ dst' \in Pointers
  BY <1>1, <1>2 DEF TypeOK, Transfers
<1>4. ASSUME "protocol" \notin risks PROVE CallbackInv'
  <2>1. CallbackInv
    BY <1>4 DEF IInv
  <2> QED
    BY <1>1, <1>2, <1>3, <2>1 DEF CallbackInv, Fits, Buffers, program, TypeOK
<1>5. risks = {} => \A i \in DOMAIN sending' : sending'[i].buf \notin freed
  BY <1>2 DEF IInv, UseInv
<1> QED
  BY <1>2, <1>3, <1>4, <1>5, CallbackStep

\* The length was read before: the buffer read now is not shorter.
LEMMA OutputBufferStep ==
    ASSUME IInv, OutputBuffer
    PROVE  IInv'
<1>1. /\ TypeOK /\ NodesInv /\ MaxChain \in Nat /\ MaxBuffers \in Nat
      /\ Len(cap) \in Nat /\ Buffers = 1 .. Len(cap)
  BY Basics DEF IInv
<1>2. /\ cb' = "sent" /\ at' = at /\ dst' = dst /\ sending' = sending
      /\ tx' = [tx EXCEPT !.buf = data]
      /\ UNCHANGED <<program, risks>> /\ ~Quiet /\ cb = "queue"
  BY DEF OutputBuffer, Quiet
<1>3. tx \in Transfers /\ data \in 0 .. MaxBuffers
  BY <1>1 DEF TypeOK, NodesInv
<1>4. tx' \in Transfers /\ tx'.buf = data /\ tx'.len = tx.len /\ tx.len \in Nat
  BY <1>2, <1>3 DEF Transfers
<1>5. ASSUME "protocol" \notin risks PROVE CallbackInv'
  <2>1. BufferInv /\ CallbackInv /\ tx.len <= data_len
    BY <1>2, <1>5 DEF IInv, CallbackInv
  <2>2. tx.len > 0 => data # 0
    BY <1>4, <2>1 DEF BufferInv
  <2>3. tx.len > 0 => data \in Buffers /\ cap[data] \in Nat /\ data_len \in Nat
    BY <1>1, <2>2 DEF TypeOK, Buffers
  <2>4. tx.len > 0 => data_len <= cap[data]
    BY <2>1, <2>2 DEF BufferInv
  <2>5. tx.len > 0 => tx.len <= cap[data]
    BY <1>4, <2>1, <2>3, <2>4
  <2> QED
    BY <1>2, <1>4, <2>1, <2>3, <2>5 DEF CallbackInv, Fits, program, Buffers
<1>6. ASSUME risks = {} PROVE tx'.buf \notin freed /\ \A i \in DOMAIN sending' : sending'[i].buf \notin freed
  BY <1>2, <1>4, <1>6 DEF IInv, UseInv
<1>7. at' \in 0 .. MaxChain + 1 /\ dst' \in Pointers /\ sending' \in Seq(Transfers)
  BY <1>1, <1>2 DEF TypeOK
<1> QED
  BY <1>2, <1>4, <1>5, <1>6, <1>7, CallbackStep

LEMMA QueuedStep ==
    ASSUME IInv, Queued
    PROVE  IInv'
<1>1. /\ TypeOK /\ MaxChain \in Nat /\ MaxBuffers \in Nat
      /\ tx \in Transfers /\ sending \in Seq(Transfers)
  BY Basics DEF IInv, TypeOK
<1>2. /\ cb' = "idle" /\ at' = at /\ dst' = dst /\ cb = "sent" /\ ~Quiet
      /\ sending' = sending \/ sending' = Append(sending, tx)
      /\ UNCHANGED <<program, risks>> /\ tx' = NoTransfer
  BY DEF Queued, Quiet
<1>3. at' \in 0 .. MaxChain + 1 /\ dst' \in Pointers /\ tx' \in Transfers
  BY <1>1, <1>2 DEF TypeOK, NoTransfer, Transfers
<1>4. /\ sending' \in Seq(Transfers)
      /\ \A i \in DOMAIN sending' :
             sending'[i] = tx \/ \E j \in DOMAIN sending : sending'[i] = sending[j]
  <2>1. CASE sending' = sending
    BY <1>1, <2>1
  <2>2. CASE sending' = Append(sending, tx)
    <3>1. /\ sending' \in Seq(Transfers) /\ Len(sending') = Len(sending) + 1 /\ Len(sending) \in Nat
          /\ DOMAIN sending' = 1 .. Len(sending) + 1 /\ DOMAIN sending = 1 .. Len(sending)
          /\ sending'[Len(sending) + 1] = tx
          /\ \A i \in 1 .. Len(sending) : sending'[i] = sending[i]
      BY <1>1, <2>2
    <3> QED
      BY <3>1
  <2> QED
    BY <1>2, <2>1, <2>2
<1>5. ASSUME "protocol" \notin risks PROVE CallbackInv'
  <2>1. Fits(tx) /\ \A j \in DOMAIN sending : Fits(sending[j])
    BY <1>2, <1>5 DEF IInv, CallbackInv
  <2>2. ASSUME NEW i \in DOMAIN sending' PROVE Fits(sending[i])'
    <3>1. CASE sending'[i] = tx
      BY <1>2, <2>1, <3>1 DEF Fits, Buffers, program
    <3>2. CASE \E j \in DOMAIN sending : sending'[i] = sending[j]
      <4>1. PICK j \in DOMAIN sending : sending'[i] = sending[j]
        BY <3>2
      <4>2. Fits(sending[j])
        BY <2>1
      <4> QED
        BY <1>2, <4>1, <4>2 DEF Fits, Buffers, program
    <3> QED
      BY <1>4, <3>1, <3>2
  <2> QED
    BY <1>2, <2>2 DEF CallbackInv
<1>6. ASSUME risks = {} PROVE \A i \in DOMAIN sending' : sending'[i].buf \notin freed
  BY <1>2, <1>4, <1>6 DEF IInv, UseInv
<1> QED
  BY <1>2, <1>3, <1>4, <1>5, <1>6, CallbackStep

LEMMA TransferDoneStep ==
    ASSUME IInv, TransferDone
    PROVE  IInv'
<1>1. TypeOK /\ NodesInv /\ sending \in Seq(Transfers) /\ sending # <<>>
  BY DEF IInv, TypeOK, TransferDone
<1>2. UNCHANGED <<program, cb, at, dst, tx, risks>> /\ sending' = Tail(sending)
  BY DEF TransferDone
<1>3. /\ sending' \in Seq(Transfers)
      /\ \A i \in DOMAIN sending' : i + 1 \in DOMAIN sending /\ sending'[i] = sending[i + 1]
  BY <1>1, <1>2
<1>4. ASSUME "protocol" \notin risks PROVE CallbackInv'
  <2>1. CallbackInv
    BY <1>4 DEF IInv
  <2>2. \A i \in DOMAIN sending' : Fits(sending[i])'
    BY <1>2, <1>3, <2>1 DEF CallbackInv, Fits, Buffers, program
  <2> QED
    BY <1>2, <2>1, <2>2 DEF CallbackInv, Inside, Fits, Buffers, Protocol, program
<1>5. ASSUME risks = {} PROVE /\ cb' = "write" => dst'.buf \notin freed
                              /\ cb' = "sent" => tx'.buf \notin freed
                              /\ \A i \in DOMAIN sending' : sending'[i].buf \notin freed
  BY <1>2, <1>3, <1>5 DEF IInv, UseInv
<1>6. Quiet => Quiet'
  BY <1>1 DEF Quiet
<1>7. /\ cb \in {"idle", "compose", "layers", "enforce", "write", "output", "queue", "sent"}
      /\ at \in 0 .. MaxChain + 1 /\ dst \in Pointers /\ tx \in Transfers
      /\ cb \in {"compose", "layers", "enforce", "write"} => data # 0
      /\ cb = "compose" => at \in 1 .. Len(chain) + 1
      /\ cb \in {"layers", "enforce", "write"} => at \in DOMAIN chain /\ chain[at] \in Fixtures
      /\ cb \in {"layers", "enforce"} => out[chain[at]] # Null
  BY <1>1 DEF TypeOK, NodesInv
<1> QED
  BY <1>2, <1>3, <1>4, <1>5, <1>6, <1>7, CallbackStep

-----------------------------------------------------------------------------
(* The program, outside of recompute_chain                                  *)

\* Steps that change neither the chain nor the buffer.
LEMMA SettingsStep ==
    ASSUME IInv, pc \in {"idle", "layer"}, pc' \in {"idle", "layer"},
           UNCHANGED <<chain, out, linked, data, data_len, cap, freed, callback>>,
           protocol' \in Protocols \cup {NoProtocol},
           layered' \subseteq Fixtures, hollow' \subseteq layered',
           {timer', inited'} \subseteq BOOLEAN,
           risks \subseteq risks', risks' \subseteq {"protocol", "grown", "failed"},
           "protocol" \notin risks' => protocol' = protocol \/ data = 0,
           protocol' = NoProtocol => protocol = NoProtocol
    PROVE  IInv'
<1> USE DEF callback
<1>1. TypeOK'
  BY DEF IInv, TypeOK, Buffers
<1>2. NodesInv'
  BY DEF IInv, NodesInv
<1>3. ASSUME "protocol" \notin risks' PROVE BufferInv' /\ SettledInv' /\ DivideInv' /\ CallbackInv'
  <2>1. "protocol" \notin risks /\ BufferInv /\ SettledInv /\ CallbackInv /\ TypeOK
    BY <1>3 DEF IInv
  <2>2. CASE data = 0
    <3>1. cb # "write"
      BY <2>2 DEF IInv, NodesInv
    <3> QED
      BY <2>1, <2>2, <3>1 DEF BufferInv, SettledInv, DivideInv, CallbackInv, Fits, Buffers
  <2>3. CASE data # 0
    <3>1. UNCHANGED <<chain, protocol>>
      BY <1>3, <2>3
    <3>2. Protocol' = Protocol /\ \A i : Required(i)' = Required(i) /\ OffsetOf(i)' = OffsetOf(i)
      BY <3>1, SameChain
    <3>3. \A m : DividedAmong(m)' <=> DividedAmong(m)
      BY <3>2 DEF DividedAmong, Place
    <3>4. SettledInv' /\ DivideInv'
      BY <2>1, <3>3 DEF SettledInv, DivideInv
    <3>5. BufferInv' /\ CallbackInv'
      BY <2>1, <2>3, <3>1, <3>2 DEF BufferInv, CallbackInv, Inside, Fits, Buffers
    <3> QED
      BY <3>4, <3>5
  <2> QED
    BY <2>2, <2>3
<1>4. ASSUME risks' = {} PROVE UseInv'
  <2>1. UseInv
    BY <1>4 DEF IInv
  <2> QED
    BY <2>1 DEF UseInv
<1> QED
  BY <1>1, <1>2, <1>3, <1>4 DEF IInv

LEMMA SetProtocolStep ==
    ASSUME IInv, NEW p \in Protocols, SetProtocol(p)
    PROVE  IInv'
<1>1. TypeOK
  BY DEF IInv
<1>2. /\ {timer', inited'} \subseteq BOOLEAN /\ layered' \subseteq Fixtures /\ hollow' \subseteq layered'
      /\ risks \subseteq risks' /\ risks' \subseteq {"protocol", "grown", "failed"}
  BY <1>1 DEF TypeOK, SetProtocol, Risk
<1>3. "protocol" \notin risks' => protocol' = protocol \/ data = 0
  BY DEF SetProtocol, Risk
<1>4. protocol' \in Protocols /\ protocol' # NoProtocol
  BY DEF SetProtocol, Protocols, modadd_protocols, NoProtocol
<1> QED
  BY <1>2, <1>3, <1>4, SettingsStep DEF SetProtocol

LEMMA SettingStep ==
    ASSUME IInv, (\E f \in Fixtures : AddLayerNode(f)) \/ AddLayer \/ Start \/ Stop
    PROVE  IInv'
<1>1. TypeOK
  BY DEF IInv
<1>2. /\ pc \in {"idle", "layer"} /\ pc' \in {"idle", "layer"}
      /\ UNCHANGED <<chain, out, linked, data, data_len, cap, freed, callback, protocol, risks>>
  BY DEF AddLayerNode, AddLayer, Start, Stop
<1>3. {timer', inited'} \subseteq BOOLEAN
  <2>1. inited' \in BOOLEAN /\ timer' \in BOOLEAN
    BY <1>1 DEF TypeOK, AddLayerNode, AddLayer, Start, Stop
  <2> QED
    BY <2>1
<1>4. layered' \subseteq Fixtures /\ hollow' \subseteq layered'
  BY <1>1 DEF TypeOK, AddLayerNode, AddLayer, Start, Stop
<1>5. /\ risks \subseteq risks' /\ risks' \subseteq {"protocol", "grown", "failed"}
      /\ protocol' \in Protocols \cup {NoProtocol}
  BY <1>1, <1>2 DEF TypeOK
<1> QED
  BY <1>2, <1>3, <1>4, <1>5, SettingsStep

\* Steps that add to the chain behind the nodes that have a place.
LEMMA ChainStep ==
    ASSUME IInv, pc \in {"idle", "append"}, pc' \in {"idle", "append"},
           chain' \in Seq(Fixtures \cup {NoFixture}), Len(chain) <= Len(chain'),
           \A i \in DOMAIN chain : chain[i] \in Fixtures => chain'[i] = chain[i],
           NodesInv',
           UNCHANGED <<protocol, inited, layered, hollow, out, linked, data, data_len, cap,
                       freed, timer, callback, risks>>
    PROVE  IInv'
<1> USE DEF callback
<1>1. /\ TypeOK /\ NodesInv /\ Len(chain) \in Nat /\ DOMAIN chain = 1 .. Len(chain)
      /\ Len(chain') \in Nat
  BY Basics DEF IInv
<1>2. TypeOK'
  BY DEF IInv, TypeOK, Buffers
<1>3. ASSUME "protocol" \notin risks PROVE BufferInv' /\ SettledInv' /\ DivideInv' /\ CallbackInv'
  <2>1. BufferInv /\ SettledInv /\ CallbackInv
    BY <1>3 DEF IInv
  <2>2. BufferInv'
    BY <1>1, <2>1 DEF BufferInv, Inside, Buffers, Protocol
  <2>3. DivideInv'
    BY DEF DivideInv
  <2>4. SettledInv'
    <3>1. ASSUME data # 0, NEW m \in 0 .. Len(chain), DividedAmong(m)
          PROVE  m \in 0 .. Len(chain') /\ DividedAmong(m)'
      <4>1. \A i \in 1 .. m : chain[i] \in Fixtures /\ chain'[i] = chain[i]
        BY <1>1, <3>1 DEF DividedAmong
      <4>2. Required(m)' = Required(m) /\ \A i \in 1 .. m : OffsetOf(i)' = OffsetOf(i)
        <5>1. m \in Nat /\ protocol' = protocol /\ \A i \in 1 .. m : chain'[i] = chain[i]
          BY <1>1, <4>1
        <5> QED
          BY <5>1, SamePrefix
      <4>3. DividedAmong(m)'
        <5>1. \A i \in 1 .. m : Place(i)' = Place(i)
          BY <4>2 DEF Place
        <5>2. ASSUME NEW f \in Fixtures, out'[f] # Null
              PROVE  \E i \in 1 .. m : chain'[i] = f /\ out'[f] = Place(i)'
          <6>1. PICK i \in 1 .. m : chain[i] = f /\ out[f] = Place(i)
            BY <3>1, <5>2 DEF DividedAmong
          <6> QED
            BY <4>1, <5>1, <6>1
        <5>3. \A i \in 1 .. m : chain'[i] \in Fixtures
          BY <4>1
        <5>4. data_len' = Required(m)'
          BY <3>1, <4>2 DEF DividedAmong
        <5> QED
          BY <5>2, <5>3, <5>4 DEF DividedAmong
      <4> QED
        BY <1>1, <4>3
    <3> QED
      BY <2>1, <3>1 DEF SettledInv
  <2>5. CallbackInv'
    <3>1. cb = "write" => chain'[at] = chain[at]
      BY <1>1 DEF NodesInv
    <3>2. Protocol' = Protocol
      BY DEF Protocol
    <3> QED
      BY <2>1, <3>1, <3>2 DEF CallbackInv, Inside, Fits, Buffers
  <2> QED
    BY <2>2, <2>3, <2>4, <2>5
<1>4. ASSUME risks = {} PROVE UseInv'
  <2>1. UseInv
    BY <1>4 DEF IInv
  <2> QED
    BY <2>1 DEF UseInv, Quiet
<1> QED
  BY <1>2, <1>3, <1>4 DEF IInv

LEMMA AppendNodeStep ==
    ASSUME IInv, NEW f \in Fixtures, AppendNode(f)
    PROVE  IInv'
<1>1. /\ TypeOK /\ NodesInv /\ Len(chain) \in Nat /\ DOMAIN chain = 1 .. Len(chain) /\ MaxChain \in Nat
  BY Basics DEF IInv
<1>2. /\ chain' \in Seq(Fixtures \cup {NoFixture}) /\ Len(chain') = Len(chain) + 1
      /\ DOMAIN chain' = 1 .. Len(chain) + 1
      /\ chain'[Len(chain) + 1] = NoFixture
      /\ \A i \in DOMAIN chain : chain'[i] = chain[i]
  <2>1. chain \in Seq(Fixtures \cup {NoFixture}) /\ chain' = Append(chain, NoFixture)
    BY <1>1 DEF TypeOK, AppendNode
  <2> QED
    BY <1>1, <2>1
<1>3. NodesInv'
  BY <1>1, <1>2 DEF NodesInv, AppendNode, callback
<1> QED
  BY <1>1, <1>2, <1>3, ChainStep DEF AppendNode

LEMMA AppendFixtureStep ==
    ASSUME IInv, AppendFixture
    PROVE  IInv'
<1>1. /\ TypeOK /\ NodesInv /\ Len(chain) \in Nat /\ DOMAIN chain = 1 .. Len(chain) /\ MaxChain \in Nat
      /\ NoFixture \notin Fixtures
  BY Basics DEF IInv
<1>2. arg \in Fixtures /\ Len(chain) > 0 /\ chain[Len(chain)] = NoFixture
  BY <1>1 DEF NodesInv, AppendFixture
<1>3. /\ chain' \in Seq(Fixtures \cup {NoFixture}) /\ Len(chain') = Len(chain)
      /\ DOMAIN chain' = DOMAIN chain
      /\ chain'[Len(chain)] = arg
      /\ \A i \in DOMAIN chain : i # Len(chain) => chain'[i] = chain[i]
  <2>1. chain \in Seq(Fixtures \cup {NoFixture}) /\ chain' = [chain EXCEPT ![Len(chain)] = arg]
    BY <1>1 DEF TypeOK, AppendFixture
  <2> QED
    BY <1>1, <1>2, <2>1
<1>4. NodesInv'
  BY <1>1, <1>2, <1>3 DEF NodesInv, AppendFixture, callback
<1> QED
  BY <1>1, <1>2, <1>3, <1>4, ChainStep DEF AppendFixture

-----------------------------------------------------------------------------
(* recompute_chain                                                          *)

\* What the callback has read stays good while the chain and the buffers it knows are
\* kept and the recorded length does not shrink.
LEMMA CallbackKept ==
    ASSUME CallbackInv, TypeOK, UNCHANGED <<chain, protocol, callback>>,
           Buffers \subseteq Buffers', \A b \in Buffers : cap'[b] = cap[b],
           data_len' \in Nat, data_len <= data_len'
    PROVE  CallbackInv'
<1>1. Protocol' = Protocol
  BY DEF Protocol
<1>2. tx.len \in Nat /\ data_len \in Nat
  BY DEF TypeOK, Transfers
<1>3. cb = "queue" => tx.len <= data_len'
  BY <1>2 DEF CallbackInv
<1>4. Fits(tx) => Fits(tx)'
  BY DEF Fits, callback
<1>5. \A i \in DOMAIN sending : Fits(sending[i]) => Fits(sending[i])'
  BY DEF Fits, callback
<1>6. cb = "write" => Inside(chain[at], dst)'
  BY <1>1 DEF CallbackInv, Inside, callback
<1> QED
  BY <1>3, <1>4, <1>5, <1>6 DEF CallbackInv, callback

\* No part of the chain needs more than the whole of it.
LEMMA NeverLonger ==
    ASSUME TypeOK, NodesInv, pc # "append", protocol # NoProtocol,
           NEW m \in 0 .. Len(chain), DividedAmong(m)
    PROVE  data_len <= length_required
<1>1. /\ protocol \in Protocols /\ Len(chain) \in Nat
      /\ \A i \in 1 .. Len(chain) : chain[i] \in Fixtures
      /\ length_required = Required(Len(chain)) /\ length_required \in Nat
  BY Measured
<1>2. m < Len(chain) => Required(m) < Required(Len(chain))
  BY <1>1, Geometry
<1>3. m = Len(chain) \/ m < Len(chain)
  BY <1>1
<1>4. data_len = Required(m) /\ data_len \in Nat
  BY DEF DividedAmong, TypeOK
<1> QED
  BY <1>1, <1>2, <1>3, <1>4

LEMMA RecomputeFreeStep ==
    ASSUME IInv, RecomputeFree
    PROVE  IInv'
<1>1. /\ TypeOK /\ NodesInv /\ pc = "idle" /\ protocol # NoProtocol
  BY DEF IInv, RecomputeFree
<1>2. /\ UNCHANGED <<chain, protocol, inited, layered, hollow, out, linked, data, data_len, cap, timer,
                     arg, cb, at, dst, tx, sending>>
      /\ freed' = IF Outgrown THEN freed \cup {data} ELSE freed
      /\ pc' = IF Outgrown THEN "grow" ELSE "alloc"
      /\ risks' = IF Outgrown /\ ~Quiet THEN risks \cup {"grown"} ELSE risks
  BY DEF RecomputeFree, Risk, callback
<1>3. TypeOK'
  <2>1. freed' \subseteq Buffers
    BY <1>1, <1>2 DEF TypeOK, Outgrown
  <2>2. risks' \subseteq {"protocol", "grown", "failed"}
    BY <1>1, <1>2 DEF TypeOK
  <2> QED
    BY <1>1, <1>2, <2>1, <2>2 DEF TypeOK, Buffers
<1>4. NodesInv'
  BY <1>1, <1>2 DEF NodesInv, Outgrown
<1>5. ASSUME "protocol" \notin risks' PROVE BufferInv' /\ SettledInv' /\ DivideInv' /\ CallbackInv'
  <2>1. "protocol" \notin risks /\ BufferInv /\ SettledInv /\ CallbackInv
    BY <1>2, <1>5 DEF IInv
  <2>2. /\ length_required' = length_required /\ Protocol' = Protocol
        /\ \A i : Required(i)' = Required(i) /\ OffsetOf(i)' = OffsetOf(i)
    BY <1>2, SameChain
  <2>3. \A m : DividedAmong(m)' <=> DividedAmong(m)
    BY <1>2, <2>2 DEF DividedAmong, Place
  <2>4. pc' \in {"grow", "alloc"}
    BY <1>2
  <2>5. SettledInv' /\ DivideInv'
    BY <1>1, <1>2, <2>1, <2>3, <2>4 DEF SettledInv, DivideInv
  <2>6. BufferInv'
    BY <1>2, <2>1, <2>2, <2>4 DEF BufferInv, Inside, Buffers
  <2>7. CallbackInv'
    BY <1>2, <2>1, <2>2 DEF CallbackInv, Inside, Fits, Buffers
  <2> QED
    BY <2>5, <2>6, <2>7
<1>6. ASSUME risks' = {} PROVE UseInv'
  <2>1. risks = {} /\ UseInv /\ (Outgrown => Quiet) /\ (Quiet' <=> Quiet)
    BY <1>2, <1>6 DEF IInv, Quiet
  <2>2. CASE Outgrown
    <3>1. Quiet /\ pc' = "grow" /\ cb = "idle" /\ sending = <<>>
      BY <1>2, <2>1, <2>2 DEF Quiet
    <3> QED
      BY <1>2, <2>1, <3>1 DEF UseInv
  <2>3. CASE ~Outgrown
    BY <1>1, <1>2, <2>1, <2>3 DEF UseInv
  <2> QED
    BY <2>2, <2>3
<1> QED
  BY <1>3, <1>4, <1>5, <1>6 DEF IInv

\* Between the store of the buffer and that of its length, the old length is recorded
\* for the new buffer, which is not shorter.
LEMMA RecomputeAllocStep ==
    ASSUME IInv, RecomputeAlloc
    PROVE  IInv'
<1>1. /\ TypeOK /\ NodesInv /\ Len(cap) \in Nat /\ Buffers = 1 .. Len(cap) /\ MaxBuffers \in Nat
      /\ pc \in {"grow", "alloc"} /\ protocol # NoProtocol
  BY Basics DEF IInv, NodesInv, RecomputeAlloc
<1>2. /\ Len(chain) \in Nat /\ DOMAIN chain = 1 .. Len(chain)
      /\ length_required \in Nat \ {0}
  BY <1>1, Measured
<1>3. /\ UNCHANGED <<chain, protocol, inited, layered, hollow, out, linked, data_len, freed, timer, arg,
                     cb, at, dst, tx, sending, risks>>
      /\ cap' = Append(cap, length_required) /\ data' = Len(cap) + 1
      /\ pc' = "length" /\ Len(cap) < MaxBuffers
  BY DEF RecomputeAlloc, callback
<1>4. /\ cap' \in Seq(Nat) /\ Len(cap') = Len(cap) + 1 /\ Buffers' = 1 .. Len(cap) + 1
      /\ cap'[data'] = length_required /\ \A b \in Buffers : cap'[b] = cap[b]
  <2>1. cap \in Seq(Nat) /\ length_required \in Nat
    BY <1>1, <1>2 DEF TypeOK
  <2> QED
    BY <1>1, <1>3, <2>1 DEF Buffers
<1>5. data' \in Buffers' /\ data' # 0 /\ Buffers \subseteq Buffers' /\ data' \notin Buffers
  BY <1>1, <1>3, <1>4
<1>6. TypeOK'
  BY <1>1, <1>2, <1>3, <1>4, <1>5 DEF TypeOK
<1>7. NodesInv'
  BY <1>1, <1>2, <1>3, <1>4, <1>5 DEF NodesInv
<1>8. ASSUME "protocol" \notin risks PROVE BufferInv' /\ SettledInv' /\ DivideInv' /\ CallbackInv'
  <2>1. BufferInv /\ SettledInv /\ CallbackInv
    BY <1>8 DEF IInv
  <2>2. length_required' = length_required /\ Protocol' = Protocol
    BY <1>3, SameChain
  <2>3. /\ data_len <= length_required
        /\ \A f \in Fixtures : out[f] # Null => \E i \in DOMAIN chain : chain[i] = f
    <3>1. CASE data = 0
      BY <1>2, <2>1, <3>1 DEF BufferInv
    <3>2. CASE data # 0
      <4>1. PICK m \in 0 .. Len(chain) : DividedAmong(m)
        BY <1>1, <2>1, <3>2 DEF SettledInv
      <4>2. 1 .. m \subseteq DOMAIN chain
        BY <1>2
      <4>3. data_len <= length_required
        BY <1>1, <4>1, NeverLonger
      <4> QED
        BY <4>1, <4>2, <4>3 DEF DividedAmong
    <3> QED
      BY <3>1, <3>2
  <2>4. \A f \in Fixtures : out[f] # Null => Inside(f, out[f])'
    BY <1>3, <1>4, <1>5, <2>1, <2>2 DEF BufferInv, Inside
  <2>5. BufferInv'
    BY <1>1, <1>3, <1>4, <1>5, <2>2, <2>3, <2>4 DEF BufferInv
  <2>6. SettledInv'
    BY <1>3 DEF SettledInv
  <2>7. Done' = {}
    BY <1>3 DEF Done
  <2>8. DivideInv'
    BY <1>3, <2>3, <2>7 DEF DivideInv
  <2>9. CallbackInv'
    <3>1. data_len' \in Nat /\ data_len <= data_len'
      BY <1>1, <1>3 DEF TypeOK
    <3> QED
      BY <1>1, <1>3, <1>4, <1>5, <2>1, <3>1, CallbackKept DEF callback
  <2> QED
    BY <2>5, <2>6, <2>8, <2>9
<1>9. ASSUME risks = {} PROVE UseInv'
  <2>1. UseInv /\ (Quiet' <=> Quiet)
    BY <1>3, <1>9 DEF IInv, Quiet
  <2>2. data' \notin freed'
    BY <1>1, <1>3, <1>5 DEF TypeOK
  <2>3. ASSUME NEW f \in Fixtures, out[f] # Null, out[f].buf \in freed PROVE Quiet /\ pc = "grow"
    BY <1>1, <2>1, <2>3 DEF UseInv
  <2> QED
    BY <1>3, <2>1, <2>2, <2>3 DEF UseInv
<1> QED
  BY <1>3, <1>6, <1>7, <1>8, <1>9 DEF IInv

LEMMA RecomputeLengthStep ==
    ASSUME IInv, RecomputeLength
    PROVE  IInv'
<1>1. TypeOK /\ NodesInv /\ pc = "length" /\ protocol # NoProtocol /\ data # 0
  BY DEF IInv, NodesInv, RecomputeLength
<1>2. Len(chain) \in Nat /\ length_required \in Nat \ {0}
  BY <1>1, Measured
<1>3. /\ UNCHANGED <<chain, protocol, inited, layered, hollow, out, linked, data, cap, freed, timer,
                     cb, at, dst, tx, sending, risks>>
      /\ data_len' = length_required /\ pc' = "out" /\ arg' = 1
  BY DEF RecomputeLength, callback
<1>4. TypeOK'
  BY <1>1, <1>2, <1>3 DEF TypeOK, Buffers
<1>5. NodesInv'
  BY <1>1, <1>2, <1>3 DEF NodesInv
<1>6. ASSUME "protocol" \notin risks PROVE BufferInv' /\ SettledInv' /\ DivideInv' /\ CallbackInv'
  <2>1. BufferInv /\ DivideInv /\ CallbackInv
    BY <1>6 DEF IInv
  <2>2. length_required' = length_required /\ Protocol' = Protocol
    BY <1>3, SameChain
  <2>3. cap[data] = length_required /\ data_len <= length_required
    BY <1>1, <2>1 DEF BufferInv
  <2>4. BufferInv'
    BY <1>1, <1>2, <1>3, <2>1, <2>2, <2>3 DEF BufferInv, Inside, Buffers
  <2>5. SettledInv'
    BY <1>3 DEF SettledInv
  <2>6. Done' = {}
    BY <1>3 DEF Done
  <2>7. DivideInv'
    BY <1>1, <1>3, <2>1, <2>6 DEF DivideInv
  <2>8. CallbackInv'
    BY <1>1, <1>2, <1>3, <2>1, <2>3, CallbackKept DEF callback, Buffers
  <2> QED
    BY <2>4, <2>5, <2>7, <2>8
<1>7. ASSUME risks = {} PROVE UseInv'
  BY <1>1, <1>3, <1>7 DEF IInv, UseInv, Quiet
<1> QED
  BY <1>3, <1>4, <1>5, <1>6, <1>7 DEF IInv

LEMMA RecomputeFailsStep ==
    ASSUME IInv, RecomputeFails
    PROVE  IInv'
<1>1. /\ TypeOK /\ NodesInv /\ pc \in {"grow", "alloc"}
  BY DEF IInv, RecomputeFails
<1>2. /\ UNCHANGED <<chain, protocol, inited, layered, hollow, out, linked, data, data_len, cap, freed,
                     timer, arg, cb, at, dst, tx, sending>>
      /\ pc' = "idle" /\ risks' = IF pc = "grow" THEN risks \cup {"failed"} ELSE risks
  BY DEF RecomputeFails, Risk, callback
<1>3. TypeOK'
  <2>1. risks' \subseteq {"protocol", "grown", "failed"}
    BY <1>1, <1>2 DEF TypeOK
  <2> QED
    BY <1>1, <1>2, <2>1 DEF TypeOK, Buffers
<1>4. NodesInv'
  BY <1>1, <1>2 DEF NodesInv
<1>5. ASSUME "protocol" \notin risks' PROVE BufferInv' /\ SettledInv' /\ DivideInv' /\ CallbackInv'
  <2>1. "protocol" \notin risks /\ BufferInv /\ SettledInv /\ CallbackInv
    BY <1>2, <1>5 DEF IInv
  <2>2. Protocol' = Protocol /\ \A i : Required(i)' = Required(i) /\ OffsetOf(i)' = OffsetOf(i)
    BY <1>2, SameChain
  <2>3. \A m : DividedAmong(m)' <=> DividedAmong(m)
    BY <1>2, <2>2 DEF DividedAmong, Place
  <2>4. BufferInv' /\ SettledInv' /\ DivideInv'
    BY <1>1, <1>2, <2>1, <2>2, <2>3 DEF BufferInv, SettledInv, DivideInv, Inside, Buffers
  <2>5. CallbackInv'
    BY <1>2, <2>1, <2>2 DEF CallbackInv, Inside, Fits, Buffers
  <2> QED
    BY <2>4, <2>5
<1>6. ASSUME risks' = {} PROVE UseInv'
  <2>1. risks = {} /\ UseInv /\ pc = "alloc" /\ (Quiet' <=> Quiet)
    BY <1>1, <1>2, <1>6 DEF IInv, Quiet
  <2> QED
    BY <1>2, <2>1 DEF UseInv
<1> QED
  BY <1>3, <1>4, <1>5, <1>6 DEF IInv

LEMMA RecomputeOutStep ==
    ASSUME IInv, RecomputeOut
    PROVE  IInv'
<1>1. /\ TypeOK /\ NodesInv /\ Len(cap) \in Nat /\ Buffers = 1 .. Len(cap) /\ MaxBuffers \in Nat
      /\ pc = "out" /\ protocol # NoProtocol /\ data # 0 /\ arg \in DOMAIN chain
  BY Basics DEF IInv, NodesInv, RecomputeOut
<1>2. /\ protocol \in Protocols /\ Len(chain) \in Nat /\ DOMAIN chain = 1 .. Len(chain)
      /\ \A i \in 1 .. Len(chain) : chain[i] \in Fixtures
      /\ length_required \in Nat \ {0} /\ length_required = Required(Len(chain))
  BY <1>1, Measured
<1>3. /\ UNCHANGED <<chain, protocol, inited, layered, hollow, linked, data, data_len, cap, freed, timer,
                     arg, cb, at, dst, tx, sending, risks>>
      /\ out' = [out EXCEPT ![chain[arg]] = Place(arg)] /\ pc' = "ctrl"
  BY DEF RecomputeOut, callback, Place
<1>4. /\ OffsetOf(arg) \in Nat
      /\ OffsetOf(arg) + Leds[chain[arg]] * Protocol.bpl <= Required(Len(chain))
  <2>1. /\ OffsetOf(arg) \in Nat /\ Leds[chain[arg]] * Protocol.bpl \in Nat
        /\ OffsetOf(arg) + Leds[chain[arg]] * Protocol.bpl
               <= startup_bytes + LedsUpTo(Len(chain)) * Protocol.bpl
        /\ startup_bytes + LedsUpTo(Len(chain)) * Protocol.bpl <= Required(Len(chain))
        /\ Required(Len(chain)) \in Nat
    BY <1>1, <1>2, Geometry
  <2>2. startup_bytes + LedsUpTo(Len(chain)) * Protocol.bpl \in Nat
    <3>1. LedsUpTo(Len(chain)) \in Nat
      BY <1>2, PixelsFinite
    <3> QED
      BY <1>2, <3>1, ProtocolFacts
  <2> QED
    BY <2>1, <2>2
<1>5. data \in Buffers /\ data \in 0 .. MaxBuffers
  BY <1>1 DEF TypeOK, NodesInv
<1>6. Place(arg) \in Pointers /\ Place(arg) # Null /\ Place(arg).buf = data /\ Place(arg).off = OffsetOf(arg)
  BY <1>1, <1>4, <1>5 DEF Place, Pointers, Null
<1>7. /\ out' \in [Fixtures -> Pointers] /\ out'[chain[arg]] = Place(arg)
      /\ \A f \in Fixtures : f # chain[arg] => out'[f] = out[f]
  BY <1>1, <1>2, <1>3, <1>6 DEF TypeOK
<1>8. TypeOK'
  BY <1>1, <1>3, <1>7 DEF TypeOK, Buffers
<1>9. NodesInv'
  <2>1. \A f \in Fixtures : out'[f] # Null => f \in linked' \/ (pc' = "ctrl" /\ chain'[arg'] = f)
    BY <1>1, <1>3, <1>7 DEF NodesInv
  <2>2. cb \in {"layers", "enforce"} => out'[chain[at]] # Null
    BY <1>1, <1>6, <1>7 DEF NodesInv
  <2> QED
    BY <1>1, <1>3, <2>1, <2>2 DEF NodesInv
<1>10. ASSUME "protocol" \notin risks PROVE BufferInv' /\ SettledInv' /\ DivideInv' /\ CallbackInv'
  <2>1. BufferInv /\ DivideInv /\ CallbackInv
    BY <1>10 DEF IInv
  <2>2. /\ length_required' = length_required /\ Protocol' = Protocol
        /\ \A i : OffsetOf(i)' = OffsetOf(i)
    BY <1>3, SameChain
  <2>3. \A i : Place(i)' = Place(i)
    BY <1>3, <2>2 DEF Place
  <2>4. BufferInv'
    <3>1. Inside(chain[arg], out[chain[arg]])'
      <4>1. cap[data] = Required(Len(chain))
        BY <1>1, <1>2, <2>1 DEF BufferInv
      <4>2. /\ out'[chain'[arg']].buf \in Buffers'
            /\ out'[chain'[arg']].off + Leds[chain'[arg']] * Protocol.bpl <= cap'[out'[chain'[arg']].buf]
        BY <1>3, <1>4, <1>5, <1>6, <1>7, <4>1 DEF Buffers
      <4> QED
        BY <2>2, <4>2 DEF Inside
    <3>2. \A f \in Fixtures : f # chain[arg] /\ out'[f] # Null => Inside(f, out[f])'
      BY <1>3, <1>7, <2>1, <2>2 DEF BufferInv, Inside, Buffers
    <3>3. ASSUME NEW f \in Fixtures, out'[f] # Null PROVE Inside(f, out[f])'
      <4>1. CASE f = chain[arg]
        BY <1>3, <3>1, <4>1 DEF Inside
      <4>2. CASE f # chain[arg]
        BY <3>2, <3>3, <4>2
      <4> QED
        BY <4>1, <4>2
    <3>4. /\ data # 0 /\ data_len <= cap[data]
          /\ cap[data] = length_required /\ data_len = length_required /\ data_len <= length_required
      BY <1>1, <2>1 DEF BufferInv
    <3> QED
      BY <1>1, <1>3, <2>2, <3>3, <3>4 DEF BufferInv
  <2>5. SettledInv'
    BY <1>3 DEF SettledInv
  <2>6. arg \in Nat /\ Done = 1 .. arg - 1 /\ Done' = 1 .. arg
    BY <1>1, <1>2, <1>3 DEF Done
  <2>7. ASSUME NEW i \in 1 .. arg PROVE \E j \in 1 .. arg : chain[j] = chain[i] /\ out'[chain[i]] = Place(j)
    <3>1. CASE chain[i] = chain[arg]
      <4>1. arg \in 1 .. arg
        BY <1>1, <1>2
      <4> QED
        BY <1>7, <3>1, <4>1
    <3>2. CASE chain[i] # chain[arg]
      <4>1. i \in 1 .. arg - 1 /\ chain[i] \in Fixtures
        BY <1>1, <1>2, <2>6, <3>2
      <4>2. PICK j \in 1 .. arg - 1 : chain[j] = chain[i] /\ out[chain[i]] = Place(j)
        BY <1>1, <2>1, <2>6, <4>1 DEF DivideInv
      <4>3. j \in 1 .. arg
        BY <2>6
      <4> QED
        BY <1>7, <3>2, <4>1, <4>2, <4>3
    <3> QED
      BY <3>1, <3>2
  <2>8. \A f \in Fixtures : out'[f] # Null => \E i \in DOMAIN chain : chain[i] = f
    BY <1>1, <1>7, <2>1 DEF DivideInv
  <2>9. DivideInv'
    <3>1. ASSUME NEW i \in Done'
          PROVE  \E j \in Done' : chain'[j] = chain'[i] /\ out'[chain'[i]] = Place(j)'
      <4>1. PICK j \in 1 .. arg : chain[j] = chain[i] /\ out'[chain[i]] = Place(j)
        BY <2>6, <2>7
      <4>2. Place(j)' = Place(j)
        BY <2>3
      <4> QED
        BY <1>3, <2>6, <4>1, <4>2
    <3> QED
      BY <1>3, <2>8, <3>1 DEF DivideInv
  <2>10. CallbackInv'
    <3>1. data_len' \in Nat /\ data_len <= data_len'
      BY <1>1, <1>3 DEF TypeOK
    <3> QED
      BY <1>1, <1>3, <2>1, <3>1, CallbackKept DEF callback, Buffers
  <2> QED
    BY <2>4, <2>5, <2>9, <2>10
<1>11. ASSUME risks = {} PROVE UseInv'
  <2>1. UseInv /\ (Quiet' <=> Quiet)
    BY <1>3, <1>11 DEF IInv, Quiet
  <2>2. data \notin freed
    BY <1>1, <2>1 DEF UseInv
  <2>3. ASSUME NEW f \in Fixtures, out'[f] # Null, out'[f].buf \in freed PROVE Quiet
    <3>1. f # chain[arg]
      BY <1>6, <1>7, <2>2, <2>3
    <3> QED
      BY <1>7, <2>1, <2>3, <3>1 DEF UseInv
  <2> QED
    BY <1>3, <2>1, <2>2, <2>3 DEF UseInv
<1> QED
  BY <1>3, <1>8, <1>9, <1>10, <1>11 DEF IInv

LEMMA RecomputeCtrlStep ==
    ASSUME IInv, RecomputeCtrl
    PROVE  IInv'
<1>1. /\ TypeOK /\ NodesInv /\ pc = "ctrl" /\ protocol # NoProtocol /\ data # 0
      /\ arg \in DOMAIN chain
  BY DEF IInv, NodesInv, RecomputeCtrl
<1>2. /\ Len(chain) \in Nat /\ DOMAIN chain = 1 .. Len(chain)
      /\ \A i \in 1 .. Len(chain) : chain[i] \in Fixtures
  BY <1>1, Measured
<1>3. /\ UNCHANGED <<chain, protocol, inited, layered, hollow, out, data, data_len, cap, freed, timer,
                     cb, at, dst, tx, sending, risks>>
      /\ linked' = linked \cup {chain[arg]} /\ pc' = "out" /\ arg' = arg + 1
  BY DEF RecomputeCtrl, callback
<1>4. arg \in Nat /\ arg' - 1 = arg /\ arg' \in 1 .. Len(chain) + 1
  BY <1>1, <1>2, <1>3
<1>5. TypeOK'
  BY <1>1, <1>2, <1>3 DEF TypeOK, Buffers
<1>6. NodesInv'
  BY <1>1, <1>3, <1>4 DEF NodesInv
<1>7. ASSUME "protocol" \notin risks PROVE BufferInv' /\ SettledInv' /\ DivideInv' /\ CallbackInv'
  <2>1. BufferInv /\ DivideInv /\ CallbackInv
    BY <1>7 DEF IInv
  <2>2. /\ length_required' = length_required /\ Protocol' = Protocol
        /\ \A i : OffsetOf(i)' = OffsetOf(i)
    BY <1>3, SameChain
  <2>3. \A i : Place(i)' = Place(i)
    BY <1>3, <2>2 DEF Place
  <2>4. BufferInv'
    BY <1>1, <1>3, <2>1, <2>2 DEF BufferInv, Inside, Buffers
  <2>5. SettledInv'
    BY <1>3 DEF SettledInv
  <2>6. Done' = Done /\ Done = 1 .. arg
    BY <1>1, <1>3, <1>4 DEF Done
  <2>7. DivideInv'
    BY <1>1, <1>3, <2>1, <2>3, <2>6 DEF DivideInv
  <2>8. CallbackInv'
    BY <1>3, <2>1, <2>2 DEF CallbackInv, Inside, Fits, Buffers
  <2> QED
    BY <2>4, <2>5, <2>7, <2>8
<1>8. ASSUME risks = {} PROVE UseInv'
  BY <1>1, <1>3, <1>8 DEF IInv, UseInv, Quiet
<1> QED
  BY <1>3, <1>5, <1>6, <1>7, <1>8 DEF IInv

\* When all nodes have their new place, no fixture has one in an old buffer.
LEMMA RecomputeDoneStep ==
    ASSUME IInv, RecomputeDone
    PROVE  IInv'
<1>1. /\ TypeOK /\ NodesInv /\ pc = "out" /\ protocol # NoProtocol /\ data # 0
      /\ arg = Len(chain) + 1
  BY DEF IInv, NodesInv, RecomputeDone
<1>2. /\ Len(chain) \in Nat /\ DOMAIN chain = 1 .. Len(chain)
      /\ \A i \in 1 .. Len(chain) : chain[i] \in Fixtures
      /\ length_required = Required(Len(chain))
  BY <1>1, Measured
<1>3. /\ UNCHANGED <<chain, protocol, inited, layered, hollow, out, linked, data, data_len, cap, freed,
                     timer, cb, at, dst, tx, sending, risks>>
      /\ pc' = "idle"
  BY DEF RecomputeDone, callback
<1>4. TypeOK'
  BY <1>1, <1>3 DEF TypeOK, Buffers
<1>5. NodesInv'
  BY <1>1, <1>3 DEF NodesInv
<1>6. ASSUME "protocol" \notin risks, NEW f \in Fixtures, out[f] # Null
      PROVE  \E i \in 1 .. Len(chain) : chain[i] = f /\ out[f] = Place(i)
  <2>1. DivideInv
    BY <1>6 DEF IInv
  <2>2. Done = 1 .. Len(chain)
    BY <1>1, <1>2 DEF Done
  <2>3. PICK i \in 1 .. Len(chain) : chain[i] = f
    BY <1>1, <1>2, <1>6, <2>1 DEF DivideInv
  <2> QED
    BY <1>1, <2>1, <2>2, <2>3 DEF DivideInv
<1>7. ASSUME "protocol" \notin risks PROVE BufferInv' /\ SettledInv' /\ DivideInv' /\ CallbackInv'
  <2>1. BufferInv /\ CallbackInv /\ data_len = length_required
    BY <1>1, <1>7 DEF IInv, BufferInv
  <2>2. Protocol' = Protocol /\ \A i : Required(i)' = Required(i) /\ OffsetOf(i)' = OffsetOf(i)
    BY <1>3, SameChain
  <2>3. BufferInv' /\ DivideInv'
    BY <1>1, <1>3, <2>1, <2>2 DEF BufferInv, DivideInv, Inside, Buffers
  <2>4. DividedAmong(Len(chain))
    BY <1>2, <1>6, <1>7, <2>1 DEF DividedAmong
  <2>5. \A m : DividedAmong(m)' <=> DividedAmong(m)
    BY <1>3, <2>2 DEF DividedAmong, Place
  <2>6. SettledInv'
    <3>1. Len(chain) \in 0 .. Len(chain')
      BY <1>2, <1>3
    <3> QED
      BY <2>4, <2>5, <3>1 DEF SettledInv
  <2>7. CallbackInv'
    BY <1>3, <2>1, <2>2 DEF CallbackInv, Inside, Fits, Buffers
  <2> QED
    BY <2>3, <2>6, <2>7
<1>8. ASSUME risks = {} PROVE UseInv'
  <2>1. UseInv /\ data \notin freed /\ "protocol" \notin risks /\ (Quiet' <=> Quiet)
    BY <1>1, <1>3, <1>8 DEF IInv, UseInv, Quiet
  <2>2. ASSUME NEW f \in Fixtures, out[f] # Null PROVE out[f].buf \notin freed
    <3>1. PICK i \in 1 .. Len(chain) : out[f] = Place(i)
      BY <1>6, <2>1, <2>2
    <3> QED
      BY <2>1, <3>1 DEF Place
  <2> QED
    BY <1>1, <1>3, <2>1, <2>2 DEF UseInv
<1> QED
  BY <1>3, <1>4, <1>5, <1>7, <1>8 DEF IInv

-----------------------------------------------------------------------------
(* The invariant and what follows from it                                   *)

LEMMA InvInit == Init => IInv
<1> SUFFICES ASSUME Init PROVE IInv
  OBVIOUS
<1> USE DEF Init
<1>1. MaxChain \in Nat /\ MaxBuffers \in Nat
  BY LedAssumption
<1>2. /\ chain \in Seq(Fixtures \cup {NoFixture}) /\ cap \in Seq(Nat) /\ sending \in Seq(Transfers)
      /\ Len(chain) = 0 /\ Len(cap) = 0 /\ DOMAIN chain = {} /\ DOMAIN sending = {}
  OBVIOUS
<1>3. Null \in Pointers /\ NoTransfer \in Transfers
  BY <1>1 DEF Null, Pointers, NoTransfer, Transfers
<1>4. at \in 0 .. MaxChain + 1
  BY <1>1
<1>5. TypeOK
  <2>1. out \in [Fixtures -> Pointers] /\ dst \in Pointers /\ tx \in Transfers
    BY <1>3
  <2> QED
    BY <1>2, <1>4, <2>1 DEF TypeOK
<1>6. NodesInv
  BY <1>1, <1>2 DEF NodesInv
<1>7. BufferInv /\ SettledInv /\ DivideInv /\ CallbackInv /\ UseInv
  BY <1>2 DEF BufferInv, SettledInv, DivideInv, CallbackInv, UseInv
<1> QED
  BY <1>5, <1>6, <1>7 DEF IInv

LEMMA FaultStep ==
    ASSUME IInv, Fault
    PROVE  IInv'
<1>1. Init'
  BY DEF Fault, Init
<1>2. Init' => IInv'
  BY InvInit, PTL
<1> QED
  BY <1>1, <1>2

LEMMA StutterStep ==
    ASSUME IInv, UNCHANGED vars
    PROVE  IInv'
<1>1. UNCHANGED <<program, risks>> /\ UNCHANGED callback
  BY DEF vars
<1>2. /\ TypeOK /\ NodesInv /\ ("protocol" \notin risks => CallbackInv) /\ (risks = {} => UseInv)
  BY DEF IInv
<1>3. "protocol" \notin risks => CallbackInv'
  BY <1>1, <1>2 DEF CallbackInv, Inside, Fits, Buffers, Protocol, program, callback
<1>4. Quiet => Quiet'
  BY <1>1 DEF Quiet, program, callback
<1>5. /\ cb \in {"idle", "compose", "layers", "enforce", "write", "output", "queue", "sent"}
      /\ at \in 0 .. MaxChain + 1 /\ dst \in Pointers /\ tx \in Transfers /\ sending \in Seq(Transfers)
      /\ cb \in {"compose", "layers", "enforce", "write"} => data # 0
      /\ cb = "compose" => at \in 1 .. Len(chain) + 1
      /\ cb \in {"layers", "enforce", "write"} => at \in DOMAIN chain /\ chain[at] \in Fixtures
      /\ cb \in {"layers", "enforce"} => out[chain[at]] # Null
  BY <1>2 DEF TypeOK, NodesInv
<1>6. risks = {} => /\ cb = "write" => dst.buf \notin freed
                    /\ cb = "sent" => tx.buf \notin freed
                    /\ \A i \in DOMAIN sending : sending[i].buf \notin freed
  BY <1>2 DEF UseInv
<1>7. cb' = cb /\ at' = at /\ dst' = dst /\ tx' = tx /\ sending' = sending
  BY <1>1 DEF callback
<1> QED
  BY <1>1, <1>3, <1>4, <1>5, <1>6, <1>7, CallbackStep

LEMMA InvStep == IInv /\ [Next]_vars => IInv'
<1> SUFFICES ASSUME IInv, [Next]_vars PROVE IInv'
  OBVIOUS
<1>1. CASE UNCHANGED vars
  BY <1>1, StutterStep
<1>2. CASE Program
  BY <1>2, SetProtocolStep, AppendNodeStep, SettingStep, AppendFixtureStep,
     RecomputeFreeStep, RecomputeAllocStep, RecomputeLengthStep, RecomputeFailsStep, RecomputeOutStep,
     RecomputeCtrlStep, RecomputeDoneStep DEF Program
<1>3. CASE Callback
  BY <1>3, FireStep, SkipStep, ComposeStep, EnforceStep, WrittenStep, ComposeDoneStep, FaultStep,
     OutputLengthStep, OutputBufferStep, QueuedStep DEF Callback
<1>4. CASE TransferDone
  BY <1>4, TransferDoneStep
<1> QED
  BY <1>1, <1>2, <1>3, <1>4 DEF Next

\* The inductive invariant holds in every reachable state.
THEOREM ChainInvariant == Spec => []IInv
BY InvInit, InvStep, PTL DEF Spec

\* addressable_composer_enforce_protocol_data: the callback writes inside the buffer it
\* was given unless the protocol was changed, and into an allocated one unless it was
\* outgrown in use or there was no memory for a larger one.
THEOREM CallbackWritesOwnMemory == Spec => []WritesOwnMemory
<1>1. IInv => WritesOwnMemory
  BY DEF IInv, CallbackInv, UseInv, Inside, WritesOwnMemory
<1> QED
  BY <1>1, ChainInvariant, PTL

\* addressable_layer_compose: only between the stores of out_data and ctrl of a fixture
\* can the callback meet that fixture without its controller.
THEOREM FaultWindowIsOneStore == Spec => []FaultsOnlyBetweenStores
<1>1. IInv => FaultsOnlyBetweenStores
  BY DEF IInv, NodesInv, FaultsOnlyBetweenStores
<1> QED
  BY <1>1, ChainInvariant, PTL

\* mach1_output_apa102_hw: length and address, read one after the other, fit together
\* even when the chain grows between the two reads, and stay so until the driver is done.
THEOREM DriverSendsOwnMemory == Spec => []SendsOwnMemory
<1>1. IInv => SendsOwnMemory
  <2> SUFFICES ASSUME IInv, NEW t,
                      (cb = "sent" /\ t = tx) \/ \E i \in DOMAIN sending : t = sending[i]
               PROVE  /\ "protocol" \notin risks /\ t.len > 0 => t.buf \in Buffers /\ t.len <= cap[t.buf]
                      /\ risks = {} => t.buf \notin freed
    BY DEF SendsOwnMemory
  <2>1. "protocol" \notin risks => Fits(t)
    BY DEF IInv, CallbackInv
  <2>2. risks = {} => t.buf \notin freed
    BY DEF IInv, UseInv
  <2> QED
    BY <2>1, <2>2 DEF Fits
<1> QED
  BY <1>1, ChainInvariant, PTL

\* modadd_ctrl_recompute_fixtures: between two calls the fixtures that have a place have
\* it in the current buffer, between the leading and the trailing bytes, and share no byte.
THEOREM PlacesStayDisjoint == Spec => []PlacesDisjoint
<1>1. IInv => PlacesDisjoint
  <2> SUFFICES ASSUME IInv, pc = "idle", "protocol" \notin risks, data # 0
               PROVE  LET Placed == {f \in Fixtures : out[f] # Null} IN
                      /\ \E leds \in 0 .. total_leds :
                             /\ data_len = LengthFor(leds)
                             /\ \A f \in Placed :
                                    /\ out[f].buf = data
                                    /\ Bytes(f) \subseteq
                                           startup_bytes .. startup_bytes + leds * Protocol.bpl - 1
                      /\ \A f, g \in Placed : f # g => Bytes(f) \cap Bytes(g) = {}
    BY DEF PlacesDisjoint, IInv
  <2>1. TypeOK /\ NodesInv /\ BufferInv /\ SettledInv /\ protocol # NoProtocol
    BY DEF IInv, BufferInv
  <2>2. PICK m \in 0 .. Len(chain) : DividedAmong(m)
    BY <2>1 DEF SettledInv
  <2>3. /\ m \in Nat /\ protocol \in Protocols /\ \A i \in 1 .. m : chain[i] \in Fixtures
        /\ Len(chain) \in Nat /\ \A i \in 1 .. Len(chain) : chain[i] \in Fixtures
    BY <2>1, <2>2, Measured DEF DividedAmong
  <2>4. /\ LedsUpTo(m) \in 0 .. total_leds /\ data_len = LengthFor(LedsUpTo(m))
    BY <2>2, <2>3, LedsGrow DEF total_leds, DividedAmong, Required
  <2>5. startup_bytes \in Nat /\ Protocol.bpl \in Nat /\ LedsUpTo(m) \in Nat
    BY <2>3, <2>4, ProtocolFacts, PixelsFinite
  <2>6. ASSUME NEW f \in Fixtures, out[f] # Null
        PROVE  \E i \in 1 .. m :
                   /\ chain[i] = f /\ out[f].buf = data
                   /\ Bytes(f) = OffsetOf(i) .. OffsetOf(i) + Leds[f] * Protocol.bpl - 1
                   /\ OffsetOf(i) \in Nat /\ Leds[f] * Protocol.bpl \in Nat
                   /\ startup_bytes <= OffsetOf(i)
                   /\ OffsetOf(i) + Leds[f] * Protocol.bpl
                          <= startup_bytes + LedsUpTo(m) * Protocol.bpl
    <3>1. PICK i \in 1 .. m : chain[i] = f /\ out[f] = Place(i)
      BY <2>2, <2>6 DEF DividedAmong
    <3>2. out[f].buf = data /\ out[f].off = OffsetOf(i)
      BY <3>1 DEF Place
    <3>3. Bytes(f) = OffsetOf(i) .. OffsetOf(i) + Leds[f] * Protocol.bpl - 1
      BY <3>2 DEF Bytes
    <3>4. /\ OffsetOf(i) \in Nat /\ Leds[f] * Protocol.bpl \in Nat /\ startup_bytes <= OffsetOf(i)
          /\ OffsetOf(i) + Leds[f] * Protocol.bpl <= startup_bytes + LedsUpTo(m) * Protocol.bpl
      BY <2>3, <3>1, Geometry
    <3> QED
      BY <3>1, <3>2, <3>3, <3>4
  <2>7. ASSUME NEW f \in Fixtures, out[f] # Null
        PROVE  /\ out[f].buf = data
               /\ Bytes(f) \subseteq startup_bytes .. startup_bytes + LedsUpTo(m) * Protocol.bpl - 1
    <3>1. PICK all \in Nat : all = LedsUpTo(m) * Protocol.bpl
      BY <2>5
    <3>2. PICK i \in 1 .. m :
              /\ out[f].buf = data
              /\ Bytes(f) = OffsetOf(i) .. OffsetOf(i) + Leds[f] * Protocol.bpl - 1
              /\ OffsetOf(i) \in Nat /\ Leds[f] * Protocol.bpl \in Nat
              /\ startup_bytes <= OffsetOf(i)
              /\ OffsetOf(i) + Leds[f] * Protocol.bpl <= startup_bytes + all
      BY <2>6, <2>7, <3>1
    <3>3. Bytes(f) \subseteq startup_bytes .. startup_bytes + all - 1
      BY <2>5, <3>2
    <3> QED
      BY <3>1, <3>2, <3>3, Zenon
  <2>8. ASSUME NEW f \in Fixtures, out[f] # Null, NEW g \in Fixtures, out[g] # Null, f # g
        PROVE  Bytes(f) \cap Bytes(g) = {}
    <3>1. PICK i \in 1 .. m :
              /\ chain[i] = f /\ OffsetOf(i) \in Nat /\ Leds[f] * Protocol.bpl \in Nat
              /\ Bytes(f) = OffsetOf(i) .. OffsetOf(i) + Leds[f] * Protocol.bpl - 1
      BY <2>6, <2>8
    <3>2. PICK j \in 1 .. m :
              /\ chain[j] = g /\ OffsetOf(j) \in Nat /\ Leds[g] * Protocol.bpl \in Nat
              /\ Bytes(g) = OffsetOf(j) .. OffsetOf(j) + Leds[g] * Protocol.bpl - 1
      BY <2>6, <2>8
    <3>3. i < j \/ j < i
      BY <2>3, <2>8, <3>1, <3>2
    <3>4. /\ i < j => OffsetOf(i) + Leds[f] * Protocol.bpl <= OffsetOf(j)
          /\ j < i => OffsetOf(j) + Leds[g] * Protocol.bpl <= OffsetOf(i)
      BY <2>3, <3>1, <3>2, Geometry
    <3> QED
      BY <3>1, <3>2, <3>3, <3>4
  <2> QED
    BY <2>4, <2>7, <2>8
<1> QED
  BY <1>1, ChainInvariant, PTL

=============================================================================
