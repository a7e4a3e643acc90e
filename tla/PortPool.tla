------------------------------- MODULE PortPool -------------------------------
(***************************************************************************)
(* BitSet (bitset.cpp): the pool from which RtspRes takes a pair of UDP    *)
(* ports, RTP on the even one and RTCP on the next, for each media         *)
(* instance.  Its bits are numbered through all words; a port is the       *)
(* number of its bit plus m_base, which is left out.                       *)
(*                                                                         *)
(* nextPort scans with a cursor that survives the call; one iteration of   *)
(* its loop is one step here, so that "the loop ends" can be stated.       *)
(* recyclePort is part of the class, but no caller of it exists: Recycles  *)
(* says whether ports come back.                                           *)
(***************************************************************************)
EXTENDS Integers, FiniteSets

CONSTANTS
  WordBits,  \* bits in a word of m_data: 32
  Words,     \* m_size
  Recycles   \* whether recyclePort is ever called

ASSUME PoolAssumption ==
  /\ WordBits \in Nat /\ WordBits % 2 = 0 /\ WordBits > 4
  /\ Words \in Nat \ {0}
  /\ Recycles \in BOOLEAN

VARIABLES
  m_data,     \* the set of bits that are 1
  m_max_bit,  \* the count of free bits, as the class keeps it
  m_upto,     \* cursor: word ...
  m_bit_pos,  \* ... and bit in the word
  pc,         \* "idle" or "scan": inside the loop of nextPort
  held        \* the ports handed out and not recycled

vars == <<m_data, m_max_bit, m_upto, m_bit_pos, pc, held>>

-------------------------------------------------------------------------------
Bit == 0 .. WordBits * Words - 1

WordOf(n) == n \div WordBits

\* The bits of n + (0x11 << m_bit_pos): n and n + 4, as far as the latter is in
\* the same word; a shift drops what leaves the word.
PairMask(n) == {b \in {n, n + 4} : WordOf(b) = WordOf(n)}

Cursor == m_upto * WordBits + m_bit_pos

\* Mutant: the port's own bit is not looked at
FreeFar(n) == n + 4 \notin m_data

Free(n) == PairMask(n) \intersect m_data = {}

Init ==
  /\ m_data = {}
  /\ m_max_bit = WordBits * Words
  /\ m_upto = 0
  /\ m_bit_pos = 0
  /\ pc = "idle"
  /\ held = {}

\* nextPort is called and finds bits left; otherwise it returns -1 at once.
NextPort ==
  /\ pc = "idle"
  /\ 2 < m_max_bit
  /\ pc' = "scan"
  /\ UNCHANGED <<m_data, m_max_bit, m_upto, m_bit_pos, held>>

\* Mutant: every other even bit is passed over
AdvanceSkips ==
  IF m_bit_pos + 4 >= WordBits
  THEN /\ m_bit_pos' = 0
       /\ m_upto' = IF m_upto + 1 >= Words THEN 0 ELSE m_upto + 1
  ELSE m_bit_pos' = m_bit_pos + 4 /\ m_upto' = m_upto

\* The cursor moves on to the next even bit, around all words.
Advance ==
  IF m_bit_pos + 2 >= WordBits
  THEN /\ m_bit_pos' = 0
       /\ m_upto' = IF m_upto + 1 >= Words THEN 0 ELSE m_upto + 1
  ELSE /\ m_bit_pos' = m_bit_pos + 2
       /\ m_upto' = m_upto

\* One iteration: take the pair at the cursor and return, or go on.
Scan ==
  /\ pc = "scan"
  /\ IF Free(Cursor)
     THEN /\ m_data' = m_data \union PairMask(Cursor)
          /\ m_max_bit' = m_max_bit - 2
          /\ held' = held \union {Cursor}
          /\ pc' = "idle"
     ELSE UNCHANGED <<m_data, m_max_bit, held, pc>>
  /\ Advance

\* A port comes back.
RecyclePort(n) ==
  /\ Recycles
  /\ pc = "idle"
  /\ n \in held
  /\ m_data' = m_data \ PairMask(n)
  /\ m_max_bit' = m_max_bit + 2
  /\ held' = held \ {n}
  /\ UNCHANGED <<m_upto, m_bit_pos, pc>>

Next == NextPort \/ Scan \/ \E n \in Bit : RecyclePort(n)

\* The loop has no exit but its condition and waits for nothing.
Spec == Init /\ [][Next]_vars /\ WF_vars(Scan)

-------------------------------------------------------------------------------
\* The shape of the members of BitSet.
TypeOK ==
  /\ m_data \subseteq Bit
  /\ m_max_bit \in Int
  /\ m_upto \in 0 .. Words - 1
  /\ m_bit_pos \in {b \in 0 .. WordBits - 1 : b % 2 = 0}
  /\ pc \in {"idle", "scan"}
  /\ held \subseteq {n \in Bit : n % 2 = 0}

\* The bits that are 1 are those of the ports handed out, so that no port is
\* handed out twice and a recycled one leaves no bit behind.
BitsOwned == m_data = UNION {PairMask(n) : n \in held}

\* Two ports handed out never mark the same bit, so that recycling one frees
\* nothing of the other.
PairsDisjoint == \A m, n \in held : m # n => PairMask(m) \intersect PairMask(n) = {}

\* m_max_bit goes down by 2 for each port handed out and up by 2 for each that
\* comes back, whatever number of bits the pair really marked.
CountKept == m_max_bit = WordBits * Words - 2 * Cardinality(held)

\* nextPort returns: once its guard has found that bits are left, its loop
\* finds a pair.
AlwaysReturns == pc = "scan" ~> pc = "idle"
===============================================================================
