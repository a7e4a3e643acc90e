--------------------------- MODULE MediaPorts_proofs ---------------------------
(***************************************************************************)
(* The pool of ports keeps its books for words of any even size, however   *)
(* many there are, and whether ports come back or not.  Announcing groups, *)
(* with any number of paths, medias and ports, keeps those of the pool and *)
(* of the sockets.                                                         *)
(***************************************************************************)
EXTENDS MediaPorts, FiniteSetTheorems, TLAPS

-------------------------------------------------------------------------------
(* The pool                                                                  *)

\* What the three properties need of each other: recycling a pair leaves the bits
\* of the others alone because the pairs are disjoint, a pair is disjoint from
\* the others because every bit of theirs is 1, and the count goes with the size
\* of a finite set.
PoolInv ==
  /\ TypeOK
  /\ BitsOwned
  /\ PairsDisjoint
  /\ IsFiniteSet(held)
  /\ CountKept

\* A number of 2 more than an even one is even, and so are multiples.
LEMMA EvenSum == ASSUME NEW a \in Int, NEW b \in Int, a % 2 = 0, b % 2 = 0
                 PROVE (a + b) % 2 = 0
  OBVIOUS

LEMMA EvenProduct == ASSUME NEW a \in Int, NEW b \in Int, b % 2 = 0
                     PROVE (a * b) % 2 = 0
<1>1. PICK k \in Int : b = 2 * k
  <2>1. b = 2 * (b \div 2)
    OBVIOUS
  <2> QED BY <2>1
<1>2. a * b = 2 * (a * k) /\ a * k \in Int
  BY <1>1
<1>3. ASSUME NEW c \in Int PROVE (2 * c) % 2 = 0
  OBVIOUS
<1> QED BY <1>2, <1>3

\* A number of the last word or of one before is below the end of that word.
LEMMA WordEnds == ASSUME NEW n \in Nat, NEW w \in Nat \ {0}
                  PROVE /\ n \div w \in Nat
                        /\ (n \div w) * w <= n
                        /\ n < (n \div w) * w + w
  OBVIOUS

\* What is marked for a port is in the pool.
LEMMA MaskType == ASSUME NEW n \in Bit PROVE PairMask(n) \subseteq Bit
<1> SUFFICES ASSUME n + 4 \in PairMask(n) PROVE n + 4 \in Bit
  BY DEF PairMask
<1> DEFINE k == n \div WordBits
<1>0. /\ n \in Nat /\ WordBits \in Nat \ {0} /\ Words \in Nat /\ n < WordBits * Words
      /\ (n + 4) \div WordBits = k /\ n + 4 \in Nat
  BY PoolAssumption DEF Bit, PairMask, WordOf
<1>1. k \in Nat /\ k * WordBits <= n /\ n + 4 < k * WordBits + WordBits
  <2> HIDE DEF k
  <2>1. k \in Nat /\ k * WordBits <= n
    BY <1>0, WordEnds DEF k
  <2>2. n + 4 < ((n + 4) \div WordBits) * WordBits + WordBits
    BY <1>0, WordEnds
  <2> QED BY <1>0, <2>1, <2>2
<1> HIDE DEF k
<1>2. k * WordBits < Words * WordBits
  BY <1>0, <1>1
<1>3. k < Words
  <2> SUFFICES ASSUME k >= Words PROVE FALSE
    BY <1>0, <1>1
  <2>1. k * WordBits >= Words * WordBits
    BY <1>0, <1>1
  <2>2. k * WordBits \in Int /\ Words * WordBits \in Int
    BY <1>0, <1>1
  <2> QED BY <1>2, <2>1, <2>2
<1>4. (k + 1) * WordBits <= Words * WordBits
  BY <1>0, <1>1, <1>3
<1>5. (k + 1) * WordBits = k * WordBits + WordBits /\ k * WordBits \in Int
      /\ Words * WordBits = WordBits * Words /\ Words * WordBits \in Int
  BY <1>0, <1>1
<1> QED BY <1>0, <1>1, <1>4, <1>5 DEF Bit

\* The cursor is at an even bit of the pool, and the pair there has that bit.
LEMMA CursorType == ASSUME TypeOK
                    PROVE /\ Cursor \in Bit /\ Cursor % 2 = 0
                          /\ Cursor \in PairMask(Cursor)
<1> USE PoolAssumption
<1>1. m_upto \in Nat /\ m_bit_pos \in Nat /\ m_bit_pos % 2 = 0 /\ m_bit_pos < WordBits
      /\ m_upto <= Words - 1
  BY DEF TypeOK
<1>2. (m_upto * WordBits) % 2 = 0
  <2>1. m_upto \in Int /\ WordBits \in Int /\ WordBits % 2 = 0
    BY <1>1
  <2> HIDE PoolAssumption
  <2> QED BY <2>1, EvenProduct
<1>3. Cursor \in Nat /\ Cursor % 2 = 0
  BY <1>1, <1>2, EvenSum DEF Cursor
<1>4. m_upto * WordBits <= (Words - 1) * WordBits
  BY <1>1
<1>5. (Words - 1) * WordBits = WordBits * Words - WordBits
  BY <1>1
<1>6. Cursor <= WordBits * Words - 1
  <2>1. m_upto * WordBits \in Int /\ WordBits * Words \in Int
    BY <1>1
  <2> QED BY <2>1, <1>1, <1>4, <1>5 DEF Cursor
<1>7. Cursor \in Bit
  BY <1>3, <1>6 DEF Bit
<1>8. Cursor \in PairMask(Cursor)
  BY DEF PairMask
<1> QED BY <1>3, <1>7, <1>8

\* The cursor stays in the pool and even.
LEMMA AdvanceType == ASSUME TypeOK, Advance
                     PROVE /\ m_upto' \in 0 .. Words - 1
                           /\ m_bit_pos' \in {b \in 0 .. WordBits - 1 : b % 2 = 0}
<1> USE PoolAssumption DEF TypeOK, Advance
<1>1. CASE m_bit_pos + 2 >= WordBits
  <2>1. m_bit_pos' = 0 /\ m_upto' = IF m_upto + 1 >= Words THEN 0 ELSE m_upto + 1
    BY <1>1
  <2> QED BY <2>1
<1>2. CASE ~(m_bit_pos + 2 >= WordBits)
  <2>1. m_bit_pos' = m_bit_pos + 2 /\ m_upto' = m_upto
    BY <1>2
  <2>2. (m_bit_pos + 2) % 2 = 0
    BY EvenSum
  <2> QED BY <1>2, <2>1, <2>2
<1> QED BY <1>1, <1>2

LEMMA PoolInit == Init => PoolInv
<1> SUFFICES ASSUME Init PROVE PoolInv
  OBVIOUS
<1>1. TypeOK
  <2>1. WordBits * Words \in Int /\ 0 % 2 = 0
    BY PoolAssumption
  <2> QED BY <2>1, PoolAssumption DEF Init, TypeOK, Bit
<1>2. BitsOwned /\ PairsDisjoint
  BY DEF Init, BitsOwned, PairsDisjoint
<1>3. IsFiniteSet(held) /\ Cardinality(held) = 0
  BY FS_EmptySet DEF Init
<1>4. CountKept
  <2>1. WordBits * Words \in Int
    BY PoolAssumption
  <2> QED BY <1>3, <2>1 DEF Init, CountKept
<1> QED BY <1>1, <1>2, <1>3, <1>4 DEF PoolInv

\* A pair is taken at the cursor, or the scan goes on.
LEMMA ScanKeeps == ASSUME PoolInv, Scan PROVE PoolInv'
<1>1. TypeOK /\ BitsOwned /\ PairsDisjoint /\ IsFiniteSet(held) /\ CountKept
  BY DEF PoolInv
<1>2. Cursor \in Bit /\ Cursor % 2 = 0 /\ Cursor \in PairMask(Cursor)
  BY <1>1, CursorType
<1>3. /\ m_upto' \in 0 .. Words - 1
      /\ m_bit_pos' \in {b \in 0 .. WordBits - 1 : b % 2 = 0}
  BY <1>1, AdvanceType DEF Scan
<1>4. PairMask(Cursor) \subseteq Bit
  BY <1>2, MaskType
<1>a. CASE Free(Cursor)
  <2>1. /\ m_data' = m_data \union PairMask(Cursor)
        /\ m_max_bit' = m_max_bit - 2
        /\ held' = held \union {Cursor}
        /\ pc' = "idle"
    BY <1>a DEF Scan
  <2>2. Cursor \notin held
    BY <1>1, <1>2, <1>a DEF BitsOwned, Free
  <2>3. TypeOK'
    <3>1. m_data' \subseteq Bit /\ held' \subseteq {n \in Bit : n % 2 = 0}
      BY <1>1, <1>2, <1>4, <2>1 DEF TypeOK
    <3>2. m_max_bit' \in Int /\ pc' \in {"idle", "scan"}
      BY <1>1, <2>1 DEF TypeOK
    <3> QED BY <1>3, <3>1, <3>2 DEF TypeOK
  <2>4. BitsOwned'
    BY <1>1, <2>1 DEF BitsOwned, PairMask
  <2>5. PairsDisjoint'
    BY <1>1, <1>a, <2>1 DEF BitsOwned, PairsDisjoint, Free, PairMask
  <2>6. IsFiniteSet(held') /\ Cardinality(held') = Cardinality(held) + 1
    BY <1>1, <2>1, <2>2, FS_AddElement
  <2>7. CountKept'
    <3>1. WordBits * Words \in Int /\ Cardinality(held) \in Nat
      BY <1>1, PoolAssumption, FS_CardinalityType
    <3> QED BY <1>1, <2>1, <2>6, <3>1 DEF CountKept
  <2> QED BY <2>3, <2>4, <2>5, <2>6, <2>7 DEF PoolInv
<1>b. CASE ~Free(Cursor)
  <2>1. UNCHANGED <<m_data, m_max_bit, held, pc>>
    BY <1>b DEF Scan
  <2>2. TypeOK'
    BY <1>1, <1>3, <2>1 DEF TypeOK
  <2>3. (BitsOwned /\ PairsDisjoint /\ IsFiniteSet(held) /\ CountKept)'
    BY <1>1, <2>1 DEF BitsOwned, PairsDisjoint, CountKept
  <2> QED BY <2>2, <2>3 DEF PoolInv
<1> QED BY <1>a, <1>b

LEMMA RecycleKeeps == ASSUME PoolInv, NEW n \in Bit, RecyclePort(n) PROVE PoolInv'
<1>1. TypeOK /\ BitsOwned /\ PairsDisjoint /\ IsFiniteSet(held) /\ CountKept
  BY DEF PoolInv
<1>2. /\ n \in held
      /\ m_data' = m_data \ PairMask(n)
      /\ m_max_bit' = m_max_bit + 2
      /\ held' = held \ {n}
      /\ UNCHANGED <<m_upto, m_bit_pos, pc>>
  BY DEF RecyclePort
<1>3. TypeOK'
  BY <1>1, <1>2 DEF TypeOK
<1>4. BitsOwned'
  BY <1>1, <1>2 DEF BitsOwned, PairsDisjoint, PairMask
<1>5. PairsDisjoint'
  BY <1>1, <1>2 DEF PairsDisjoint, PairMask
<1>6. IsFiniteSet(held') /\ Cardinality(held') = Cardinality(held) - 1
  BY <1>1, <1>2, FS_RemoveElement
<1>7. CountKept'
  <2>1. WordBits * Words \in Int /\ Cardinality(held) \in Nat
    BY <1>1, PoolAssumption, FS_CardinalityType
  <2> QED BY <1>1, <1>2, <1>6, <2>1 DEF CountKept
<1> QED BY <1>3, <1>4, <1>5, <1>6, <1>7 DEF PoolInv

\* No step of the pool breaks its invariant.
THEOREM PoolStep == PoolInv /\ [Next]_vars => PoolInv'
<1> SUFFICES ASSUME PoolInv, [Next]_vars PROVE PoolInv'
  OBVIOUS
<1>1. CASE NextPort
  BY <1>1 DEF PoolInv, NextPort, TypeOK, BitsOwned, PairsDisjoint, CountKept
<1>2. CASE Scan
  BY <1>2, ScanKeeps
<1>3. ASSUME NEW n \in Bit, RecyclePort(n) PROVE PoolInv'
  BY <1>3, RecycleKeeps
<1>4. CASE UNCHANGED vars
  BY <1>4 DEF PoolInv, vars, TypeOK, BitsOwned, PairsDisjoint, CountKept
<1> QED BY <1>1, <1>2, <1>3, <1>4 DEF Next

LEMMA PoolAlways == Spec => []PoolInv
<1> QED BY PoolInit, PoolStep, PTL DEF Spec

\* The bits that are 1 are those of the ports handed out (BitSet::nextPort,
\* recyclePort).
THEOREM Owned == Spec => []BitsOwned
<1>1. PoolInv => BitsOwned
  BY DEF PoolInv
<1> QED BY <1>1, PoolAlways, PTL

\* The pairs that the mask 0x11 marks never overlap, also where a word ends.
THEOREM Disjoint == Spec => []PairsDisjoint
<1>1. PoolInv => PairsDisjoint
  BY DEF PoolInv
<1> QED BY <1>1, PoolAlways, PTL

\* The count of BitSet is that of the pairs, not that of the bits: the reason why
\* it does not tell that the pool is exhausted.
THEOREM Counted == Spec => []CountKept
<1>1. PoolInv => CountKept
  BY DEF PoolInv
<1> QED BY <1>1, PoolAlways, PTL

-------------------------------------------------------------------------------
(* Announcing groups                                                         *)

\* The shape of the groups.
ResTypes ==
  /\ grp \in [m_path : Path, m_stream_cnt : Nat, bound : Seq(Int)]
  /\ stage \in {"none", "next", "rtp", "rtcp"}
  /\ port \in Int
  /\ m_datas \in [Path -> Seq(Int)]

\* Where the handler is.  The port whose first socket is open is one that could
\* be opened: no socket of an instance was on it.
Stages ==
  /\ stage = "none" => grp = NoGroup
  /\ stage # "none" => m_datas[grp.m_path] = <<>>
  /\ pc = "scan" => stage = "next"
  /\ stage = "rtcp" => port \notin Ports(Bound)

MInv == PoolInv /\ ResTypes /\ Stages /\ SocketsOwned

LEMMA PortsAdd == ASSUME NEW S, NEW n
                  PROVE  Ports(S \union {n}) = Ports(S) \union {n, n + 1}
<1>1. ASSUME NEW x PROVE x \in Ports(S \union {n}) <=> x \in Ports(S) \union {n, n + 1}
  <2>1. \A T : x \in Ports(T) <=> \E k \in T : x = k \/ x = k + 1
    BY DEF Ports
  <2> QED BY <2>1
<1> QED BY <1>1

LEMMA AppendFacts ==
  ASSUME NEW s \in Seq(Int), NEW n \in Int
  PROVE  /\ Append(s, n) \in Seq(Int)
         /\ Range(Append(s, n)) = Range(s) \union {n}
         /\ IsInjective(s) /\ n \notin Range(s) => IsInjective(Append(s, n))
<1> DEFINE t == Append(s, n)
<1>1. /\ t \in Seq(Int) /\ Len(t) = Len(s) + 1 /\ Len(s) \in Nat
      /\ \A i \in 1 .. Len(s) : t[i] = s[i]
      /\ t[Len(s) + 1] = n
      /\ DOMAIN s = 1 .. Len(s) /\ DOMAIN t = 1 .. Len(s) + 1
  OBVIOUS
<1> HIDE DEF t
<1>2. Range(t) = Range(s) \union {n}
  <2>1. DOMAIN t = DOMAIN s \union {Len(s) + 1}
    BY <1>1
  <2> QED BY <1>1, <2>1 DEF Range
<1>3. ASSUME IsInjective(s), n \notin Range(s) PROVE IsInjective(t)
  BY <1>1, <1>3 DEF IsInjective, Range
<1> QED BY <1>1, <1>2, <1>3 DEF t

LEMMA EmptyFacts == /\ <<>> \in Seq(Int) /\ Range(<<>>) = {} /\ IsInjective(<<>>)
<1> QED BY DEF Range, IsInjective

LEMMA MInit == PortsInit => MInv
<1> SUFFICES ASSUME PortsInit PROVE MInv
  OBVIOUS
<1>1. PoolInv
  BY PoolInit DEF PortsInit
<1>2. /\ grp = [m_path |-> NoPath, m_stream_cnt |-> 0, bound |-> <<>>]
      /\ stage = "none" /\ port = 0 /\ lost = {} /\ socks = {}
      /\ m_datas = [p \in Path |-> <<>>] /\ pc = "idle"
  BY DEF PortsInit, Init, NoGroup, Group
<1>3. ResTypes
  BY <1>2, MediaPortsAssumption, EmptyFacts DEF ResTypes
<1>4. Registered = {} /\ Range(grp.bound) = {} /\ IsInjective(grp.bound) /\ Bound = {}
  BY <1>2, EmptyFacts DEF Registered, Bound
<1>5. OwnPorts
  BY <1>2, <1>4, EmptyFacts DEF OwnPorts
<1>6. SocketsOwned
  BY <1>2, <1>4, <1>5 DEF SocketsOwned, Ports
<1>7. Stages
  BY <1>2, <1>4 DEF Stages, NoGroup, Group
<1> QED BY <1>1, <1>3, <1>6, <1>7 DEF MInv

\* What a step that binds nothing leaves as it is.
LEMMA SameBound ==
  ASSUME MInv, UNCHANGED <<m_datas, lost>>, grp'.bound = grp.bound
  PROVE  Bound' = Bound /\ OwnPorts'
  BY DEF MInv, SocketsOwned, OwnPorts, Bound, Registered

LEMMA AddGrpKeeps ==
  ASSUME MInv, NEW path \in Path, NEW cnt \in 1 .. MaxMedia, AddGrp(path, cnt)
  PROVE  ResTypes' /\ Stages' /\ SocketsOwned'
<1>1. /\ stage = "none" /\ m_datas[path] = <<>> /\ stage' = "next"
      /\ grp' = [m_path |-> path, m_stream_cnt |-> cnt, bound |-> <<>>]
      /\ UNCHANGED <<vars, port, m_datas, lost, socks>>
  BY DEF AddGrp, Group
<1>2. ResTypes /\ Stages /\ SocketsOwned
  BY DEF MInv
<1>3. grp.bound = <<>> /\ grp'.bound = <<>> /\ grp'.m_path = path
  BY <1>1, <1>2 DEF Stages, NoGroup, Group
<1>4. Bound' = Bound /\ OwnPorts'
  BY <1>1, <1>3, SameBound
<1>5. cnt \in Nat
  BY MediaPortsAssumption
<1>6. ResTypes'
  BY <1>1, <1>2, <1>5, EmptyFacts DEF ResTypes
<1>7. Stages'
  BY <1>1, <1>2, <1>3 DEF Stages, vars
<1>8. SocketsOwned'
  BY <1>1, <1>2, <1>4 DEF SocketsOwned
<1> QED BY <1>6, <1>7, <1>8

LEMMA NextPortKeeps == ASSUME MInv, CallNextPort
                       PROVE  ResTypes' /\ Stages' /\ SocketsOwned'
<1>1. stage = "next" /\ UNCHANGED <<grp, stage, port, m_datas, lost, socks>>
  BY DEF CallNextPort, res
<1>2. ResTypes /\ Stages /\ SocketsOwned
  BY DEF MInv
<1>3. Bound' = Bound /\ OwnPorts'
  BY <1>1, SameBound
<1> QED BY <1>1, <1>2, <1>3 DEF ResTypes, Stages, SocketsOwned

LEMMA ScanPortKeeps == ASSUME MInv, ScanPort
                       PROVE  ResTypes' /\ Stages' /\ SocketsOwned'
<1>1. /\ pc = "scan" /\ pc' \in {"scan", "idle"}
      /\ pc' = "idle" => port' = Cursor /\ stage' = "rtp"
      /\ pc' = "scan" => UNCHANGED <<port, stage>>
      /\ UNCHANGED <<grp, m_datas, lost, socks>>
  BY DEF ScanPort, Scan
<1>2. ResTypes /\ Stages /\ SocketsOwned
  BY DEF MInv
<1>3. Bound' = Bound /\ OwnPorts'
  BY <1>1, SameBound
<1>4. stage = "next" /\ stage' \in {"next", "rtp"}
  BY <1>1, <1>2 DEF Stages
<1>5. Cursor \in Int
  BY CursorType, PoolAssumption DEF MInv, PoolInv, Bit
<1>6. ResTypes'
  BY <1>1, <1>2, <1>4, <1>5 DEF ResTypes
<1>7. Stages'
  BY <1>1, <1>2, <1>4 DEF Stages
<1>8. SocketsOwned'
  BY <1>1, <1>2, <1>3, <1>4 DEF SocketsOwned
<1> QED BY <1>6, <1>7, <1>8

\* The first port of the pair is opened only if no socket is on it.
LEMMA OpenRtpKeeps == ASSUME MInv, OpenRtp
                      PROVE  ResTypes' /\ Stages' /\ SocketsOwned'
<1>1. /\ stage = "rtp" /\ UNCHANGED <<vars, grp, port, m_datas, lost>>
      /\ \/ port \notin socks /\ socks' = socks \union {port} /\ stage' = "rtcp"
         \/ stage' = "next" /\ socks' = socks
  BY DEF OpenRtp, CanOpen
<1>2. ResTypes /\ Stages /\ SocketsOwned
  BY DEF MInv
<1>3. Bound' = Bound /\ OwnPorts'
  BY <1>1, SameBound
<1>4. ResTypes'
  BY <1>1, <1>2 DEF ResTypes
<1>5. socks = Ports(Bound)
  BY <1>1, <1>2 DEF SocketsOwned
<1>6. pc' # "scan"
  BY <1>1, <1>2 DEF Stages, vars
<1>7. Stages'
  BY <1>1, <1>2, <1>3, <1>5, <1>6 DEF Stages
<1>8. SocketsOwned'
  <2>1. CASE socks' = socks \union {port} /\ stage' = "rtcp"
    <3>1. {n \in {port'} : stage' = "rtcp"} = {port}
      BY <1>1, <2>1
    <3> QED BY <1>3, <1>5, <2>1, <3>1 DEF SocketsOwned
  <2>2. CASE stage' = "next" /\ socks' = socks
    BY <1>3, <1>5, <2>2 DEF SocketsOwned
  <2> QED BY <1>1, <2>1, <2>2
<1> QED BY <1>4, <1>7, <1>8

\* What was opened for a pair that fails is closed, and nothing else.
LEMMA RtcpFailsKeeps == ASSUME MInv, RtcpFails
                        PROVE  ResTypes' /\ Stages' /\ SocketsOwned'
<1>1. /\ stage = "rtcp" /\ stage' = "next" /\ socks' = socks \ {port}
      /\ UNCHANGED <<vars, grp, port, m_datas, lost>>
  BY DEF RtcpFails
<1>2. ResTypes /\ Stages /\ SocketsOwned
  BY DEF MInv
<1>3. Bound' = Bound /\ OwnPorts'
  BY <1>1, SameBound
<1>4. ResTypes'
  BY <1>1, <1>2 DEF ResTypes
<1>5. Stages'
  BY <1>1, <1>2, <1>3 DEF Stages, vars
<1>6. /\ socks = Ports(Bound) \union {port}
      /\ port \notin Ports(Bound)
  BY <1>1, <1>2 DEF SocketsOwned, Stages
<1>7. SocketsOwned'
  <2>1. socks' = Ports(Bound')
    BY <1>1, <1>3, <1>6
  <2>2. {n \in {port'} : stage' = "rtcp"} = {}
    BY <1>1
  <2> QED BY <1>3, <2>1, <2>2 DEF SocketsOwned
<1> QED BY <1>4, <1>5, <1>7

\* The pair becomes that of an instance; the group is complete, or goes on.
LEMMA OpenRtcpKeeps == ASSUME MInv, OpenRtcp
                       PROVE  ResTypes' /\ Stages' /\ SocketsOwned'
<1> DEFINE g == [grp EXCEPT !.bound = Append(@, port)]
<1>1. /\ stage = "rtcp" /\ socks' = socks \union {port + 1}
      /\ \/ grp' = g /\ stage' = "next" /\ UNCHANGED <<m_datas, lost>>
         \/ grp' = NoGroup /\ stage' = "none" /\ Add(g)
      /\ UNCHANGED <<vars, port>>
  BY DEF OpenRtcp
<1>2. ResTypes /\ Stages /\ OwnPorts /\ port \in Int
  BY DEF MInv, SocketsOwned, ResTypes
<1>3. grp.bound \in Seq(Int) /\ grp.m_path \in Path /\ m_datas[grp.m_path] = <<>>
  BY <1>1, <1>2 DEF ResTypes, Stages
<1>4. /\ g \in [m_path : Path, m_stream_cnt : Nat, bound : Seq(Int)]
      /\ g.m_path = grp.m_path /\ g.bound = Append(grp.bound, port)
  BY <1>2, <1>3, AppendFacts DEF ResTypes
<1>5. /\ port \notin Bound
      /\ socks = Ports(Bound) \union {port}
  <2>1. port \notin Bound
    BY <1>1, <1>2 DEF Stages, Ports
  <2>2. socks = Ports(Bound) \union {port}
    BY <1>1 DEF MInv, SocketsOwned
  <2> QED BY <2>1, <2>2
<1>6. Range(g.bound) = Range(grp.bound) \union {port} /\ IsInjective(g.bound)
  <2>1. port \notin Range(grp.bound) /\ IsInjective(grp.bound)
    BY <1>2, <1>5 DEF Bound, OwnPorts
  <2> QED BY <1>2, <1>3, <1>4, <2>1, AppendFacts
<1>7. /\ Range(g.bound) \intersect (Registered \union lost) = {}
      /\ lost \intersect Registered = {}
  BY <1>2, <1>5, <1>6 DEF Bound, OwnPorts
<1>8. pc' # "scan"
  BY <1>1, <1>2 DEF Stages, vars
<1> HIDE DEF g
<1>9. ASSUME Bound' = Bound \union {port}, stage' # "rtcp", OwnPorts'
      PROVE  SocketsOwned'
  <2>1. Ports(Bound') = Ports(Bound) \union {port, port + 1}
    BY <1>9, PortsAdd
  <2>2. {n \in {port'} : stage' = "rtcp"} = {}
    BY <1>9
  <2>3. socks' = Ports(Bound')
    BY <1>1, <1>5, <2>1
  <2> QED BY <1>9, <2>2, <2>3 DEF SocketsOwned
<1>a. CASE grp' = g /\ stage' = "next" /\ UNCHANGED <<m_datas, lost>>
  <2>1. ResTypes' /\ Stages'
    BY <1>1, <1>2, <1>3, <1>4, <1>8, <1>a DEF ResTypes, Stages
  <2>2. Registered' = Registered
    BY <1>a DEF Registered
  <2>3. Bound' = Bound \union {port}
    BY <1>6, <1>a, <2>2 DEF Bound
  <2>4. OwnPorts'
    BY <1>2, <1>6, <1>7, <1>a, <2>2 DEF OwnPorts
  <2> QED BY <1>9, <1>a, <2>1, <2>3, <2>4
<1>b. CASE grp' = NoGroup /\ stage' = "none" /\ Add(g)
  <2>1. grp' = [m_path |-> NoPath, m_stream_cnt |-> 0, bound |-> <<>>]
    BY <1>b DEF NoGroup, Group
  <2>2. Range(grp'.bound) = {} /\ IsInjective(grp'.bound)
    BY <2>1, EmptyFacts
  <2>3. \/ lost' = lost \union Range(g.bound) /\ m_datas' = m_datas
        \/ m_datas' = [m_datas EXCEPT ![g.m_path] = g.bound] /\ lost' = lost
    BY <1>b DEF Add
  <2>4. ResTypes'
    <3>1. grp' \in [m_path : Path, m_stream_cnt : Nat, bound : Seq(Int)]
      BY <2>1, MediaPortsAssumption, EmptyFacts
    <3>2. m_datas' \in [Path -> Seq(Int)]
      BY <1>2, <1>3, <1>4, <2>3, AppendFacts DEF ResTypes
    <3> QED BY <1>1, <1>2, <1>b, <3>1, <3>2 DEF ResTypes
  <2>5. Stages'
    BY <1>8, <1>b DEF Stages
  <2>6. CASE lost' = lost \union Range(g.bound) /\ m_datas' = m_datas
    <3>1. Registered' = Registered
      BY <2>6 DEF Registered
    <3>2. Bound' = Bound \union {port}
      BY <1>6, <2>2, <2>6, <3>1 DEF Bound
    <3>3. OwnPorts'
      BY <1>2, <1>7, <2>2, <2>6, <3>1 DEF OwnPorts
    <3> QED BY <1>9, <1>b, <2>4, <2>5, <3>2, <3>3
  <2>7. CASE m_datas' = [m_datas EXCEPT ![g.m_path] = g.bound] /\ lost' = lost
    <3>1. /\ m_datas \in [Path -> Seq(Int)]
          /\ m_datas'[grp.m_path] = g.bound
          /\ \A p \in Path \ {grp.m_path} : m_datas'[p] = m_datas[p]
      BY <1>2, <1>3, <1>4, <2>7 DEF ResTypes
    <3>2. \A p \in Path : Range(m_datas[p]) \subseteq Registered
      BY DEF Registered
    <3>3. Registered' = Registered \union Range(g.bound)
      BY <1>3, <3>1, EmptyFacts DEF Registered
    <3>4. Bound' = Bound \union {port}
      BY <1>6, <2>2, <2>7, <3>3 DEF Bound
    <3>5. OwnPorts'
      <4>1. \A p \in Path : IsInjective(m_datas'[p])
        BY <1>2, <1>6, <3>1 DEF OwnPorts
      <4>2. ASSUME NEW p \in Path, NEW q \in Path, p # q
            PROVE  Range(m_datas'[p]) \intersect Range(m_datas'[q]) = {}
        BY <1>2, <1>7, <3>1, <3>2, <4>2 DEF OwnPorts
      <4> QED BY <1>7, <2>2, <2>7, <3>3, <4>1, <4>2 DEF OwnPorts
    <3> QED BY <1>9, <1>b, <2>4, <2>5, <3>4, <3>5
  <2> QED BY <2>3, <2>6, <2>7
<1> QED BY <1>1, <1>a, <1>b

\* A step of the handler is a step of the pool or leaves it alone: what is proved
\* of the pool holds while groups are announced.
THEOREM PortsImplementPool == PortsSpec => Init /\ [][Next]_vars
<1>1. PortsInit => Init
  BY DEF PortsInit
<1>2. [PortsNext]_allVars => [Next]_vars
  BY DEF PortsNext, BindInst, AddGrp, CallNextPort, ScanPort, OpenRtp, OpenRtcp,
         RtcpFails, Next, allVars
<1> QED BY <1>1, <1>2, PTL DEF PortsSpec

LEMMA MStep == MInv /\ [PortsNext]_allVars => MInv'
<1> SUFFICES ASSUME MInv, [PortsNext]_allVars PROVE MInv'
  OBVIOUS
<1>1. PoolInv'
  <2>1. [Next]_vars
    BY DEF PortsNext, BindInst, AddGrp, CallNextPort, ScanPort, OpenRtp, OpenRtcp,
           RtcpFails, Next, allVars
  <2> QED BY <2>1, PoolStep DEF MInv
<1>2. ResTypes' /\ Stages' /\ SocketsOwned'
  <2>1. ASSUME NEW path \in Path, NEW cnt \in 1 .. MaxMedia, AddGrp(path, cnt)
        PROVE  ResTypes' /\ Stages' /\ SocketsOwned'
    BY <2>1, AddGrpKeeps
  <2>2. CASE BindInst
    BY <2>2, NextPortKeeps, ScanPortKeeps, OpenRtpKeeps, OpenRtcpKeeps, RtcpFailsKeeps
       DEF BindInst
  <2>3. CASE UNCHANGED allVars
    <3>1. UNCHANGED <<grp, stage, port, m_datas, lost, socks, pc>>
      BY <2>3 DEF allVars, vars, res
    <3>2. Bound' = Bound /\ OwnPorts'
      BY <3>1, SameBound
    <3> QED BY <3>1, <3>2 DEF MInv, ResTypes, Stages, SocketsOwned
  <2> QED BY <2>1, <2>2, <2>3 DEF PortsNext
<1> QED BY <1>1, <1>2 DEF MInv

\* Every open socket is that of one instance or of the pair being tried, and no
\* two instances share a port: bindInst closes what it gives up, and add loses
\* a group but not its books (RtspRes::addGrp, bindInst, add).
THEOREM SocketsAreOwned == PortsSpec => []SocketsOwned
<1>1. MInv => SocketsOwned
  BY DEF MInv
<1> QED BY <1>1, MInit, MStep, PTL DEF PortsSpec
================================================================================
