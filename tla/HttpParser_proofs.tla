-------------------------- MODULE HttpParser_proofs ---------------------------
(***************************************************************************)
(* Proofs about HttpParser: what is kept between two fragments fits its    *)
(* arrays, the one array that is exceeded is so by one place, and no       *)
(* handler gives back more than it took.  For any limits and any streams,  *)
(* well-formed or not, cut anywhere.                                       *)
(***************************************************************************)
EXTENDS HttpParser, FiniteSetTheorems, SequenceTheorems, TLAPS

-------------------------------------------------------------------------------
(* Sets of positions                                                         *)

\* A set of naturals that is not empty has a least element.
LEMMA MinIs ==
  ASSUME NEW S, S \subseteq Nat, S # {}
  PROVE  Min(S) \in S /\ \A y \in S : Min(S) <= y
<1>1. PICK x \in S : \A y \in S : ~(<<y, x>> \in OpToRel(<, Nat))
  BY NatLessThanWellFounded, WFMin
<1>2. \A y \in S : ~(y < x)
  BY <1>1 DEF OpToRel
<1>3. \A y \in S : x <= y
  BY <1>2
<1> QED BY <1>3 DEF Min

\* A set of naturals up to n that is not empty has a greatest element.
LEMMA MaxIs ==
  ASSUME NEW n \in Nat, NEW S, S \subseteq 0 .. n, S # {}
  PROVE  Max(S) \in S /\ \A y \in S : Max(S) >= y
<1> DEFINE T == {n - x : x \in S}
<1>1. T \subseteq Nat /\ T # {}
  <2>1. \A x \in S : n - x \in Nat
    OBVIOUS
  <2>2. T \subseteq Nat
    BY <2>1
  <2>3. PICK x \in S : TRUE
    OBVIOUS
  <2>4. n - x \in T
    BY <2>3
  <2> QED BY <2>2, <2>4
<1>2. Min(T) \in T /\ \A y \in T : Min(T) <= y
  BY <1>1, MinIs
<1>3. PICK x \in S : Min(T) = n - x
  BY <1>2
<1>4. \A y \in S : x >= y
  <2> SUFFICES ASSUME NEW y \in S PROVE x >= y
    OBVIOUS
  <2>1. n - x <= n - y
    BY <1>2, <1>3
  <2> QED BY <2>1
<1> QED BY <1>4 DEF Max

\* The elements of a set up to one of them are counted by Nth.
LEMMA NthIs ==
  ASSUME NEW n \in Nat, NEW S, S \subseteq 1 .. n, NEW k \in 1 .. Cardinality(S)
  PROVE  Nth(S, k) \in S /\ Cardinality({y \in S : y <= Nth(S, k)}) = k
<1> DEFINE UpToX(x) == {y \in S : y <= x}
           T == {x \in S : Cardinality(UpToX(x)) >= k}
<1>1. IsFiniteSet(S) /\ Cardinality(S) \in Nat
  <2>1. IsFiniteSet(1 .. n)
    BY FS_Interval
  <2> QED BY <2>1, FS_Subset, FS_CardinalityType
<1>2. \A x : IsFiniteSet(UpToX(x)) /\ Cardinality(UpToX(x)) \in Nat
  <2> SUFFICES ASSUME NEW x
               PROVE  IsFiniteSet(UpToX(x)) /\ Cardinality(UpToX(x)) \in Nat
    OBVIOUS
  <2>1. UpToX(x) \in SUBSET S
    OBVIOUS
  <2> QED BY <1>1, <2>1, FS_Subset, FS_CardinalityType
<1>3. S # {}
  BY <1>1, FS_EmptySet
<1>4. Max(S) \in S /\ \A y \in S : Max(S) >= y
  <2>1. S \subseteq 0 .. n
    OBVIOUS
  <2> QED BY <1>3, <2>1, MaxIs
<1>5. UpToX(Max(S)) = S
  BY <1>4
<1>6. T # {} /\ T \subseteq Nat
  <2>1. Cardinality(UpToX(Max(S))) >= k
    BY <1>1, <1>5
  <2>2. Max(S) \in T
    BY <1>4, <2>1
  <2>3. T \subseteq S /\ S \subseteq Nat
    OBVIOUS
  <2> QED BY <2>2, <2>3
<1>7. PICK x \in T : \A y \in T : x <= y
  BY <1>6, MinIs
<1>8. Cardinality(UpToX(x)) = k
  <2> DEFINE P == {y \in S : y < x}
  <2>1. UpToX(x) = P \cup {x} /\ x \notin P /\ IsFiniteSet(P)
    <3>0. x \in S /\ x \in Nat /\ \A y \in S : y \in Nat
      BY <1>7
    <3>1. UpToX(x) = P \cup {x} /\ x \notin P
      <4>1. \A y \in S : y <= x <=> y < x \/ y = x
        BY <3>0
      <4>2. x \notin P
        BY <3>0
      <4> QED BY <3>0, <4>1, <4>2
    <3>2. P \in SUBSET S
      OBVIOUS
    <3> QED BY <1>1, <3>1, <3>2, FS_Subset
  <2>2. Cardinality(UpToX(x)) = Cardinality(P) + 1 /\ Cardinality(P) \in Nat
    BY <2>1, FS_AddElement, FS_CardinalityType
  <2>3. Cardinality(UpToX(x)) >= k
    BY <1>7
  <2>4. CASE P = {}
    BY <2>2, <2>3, <2>4, FS_EmptySet
  <2>5. CASE P # {}
    <3>0. \A y \in S : y \in 0 .. n
      OBVIOUS
    <3>1. P \subseteq 0 .. n
      BY <3>0
    <3>2. PICK m \in P : \A y \in P : m >= y
      BY <2>5, <3>1, MaxIs
    <3>3. m \in 0 .. n /\ m \in S /\ x \in Nat /\ m < x
      BY <1>7, <3>0
    <3>4. UpToX(m) = P
      <4>1. \A y \in S : y <= m => y < x
        BY <3>0, <3>3
      <4>2. \A y \in S : y < x => y <= m
        <5> SUFFICES ASSUME NEW y \in S, y < x PROVE y <= m
          OBVIOUS
        <5>1. y \in P
          OBVIOUS
        <5> QED BY <3>0, <3>2, <3>3, <5>1
      <4> QED BY <4>1, <4>2
    <3>6. m \notin T
      <4>1. ~(x <= m)
        BY <3>3
      <4> QED BY <1>7, <4>1
    <3>5. ~(Cardinality(P) >= k)
      BY <3>3, <3>4, <3>6
    <3> QED BY <2>2, <2>3, <3>5
  <2> QED BY <2>4, <2>5
<1>9. \E z \in S : Cardinality({y \in S : y <= z}) = k
  BY <1>7, <1>8
<1> QED BY <1>9 DEF Nth

-------------------------------------------------------------------------------
(* The head                                                                  *)

\* Where a line begins, and that its text is a character of the head.
LEMMA LineBegIs ==
  ASSUME NEW h \in Seq(Chars), NEW q \in 1 .. Len(h)
  PROVE  /\ LineBeg(h, q) \in 0 .. q - 1
         /\ LineBeg(h, q) = 0 \/ LineBeg(h, q) \in Feeds(h)
         /\ \A l \in Feeds(h) : l < q => l <= LineBeg(h, q)
         /\ Text(h, q) \in Chars
<1> DEFINE S == {0} \cup {l \in Feeds(h) : l < q}
<1>1. Len(h) \in Nat /\ DOMAIN h = 1 .. Len(h) /\ \A k \in 1 .. Len(h) : h[k] \in Chars
  BY LenProperties, ElementOfSeq
<1>2. Feeds(h) \subseteq 1 .. Len(h)
  BY <1>1 DEF Feeds
<1>3. S \subseteq 0 .. Len(h) /\ S # {}
  BY <1>1, <1>2
<1>4. PICK m \in S : m = LineBeg(h, q) /\ \A y \in S : m >= y
  BY <1>1, <1>3, MaxIs DEF LineBeg
<1>5. m \in 0 .. q - 1
  BY <1>1, <1>2, <1>4
<1>6. \A l \in Feeds(h) : l < q => l <= m
  <2> SUFFICES ASSUME NEW l \in Feeds(h), l < q PROVE l <= m
    OBVIOUS
  <2>1. l \in S
    OBVIOUS
  <2>2. l \in Int
    BY <1>2
  <2> QED BY <1>4, <1>5, <2>1, <2>2
<1>7. m + 1 \in 1 .. Len(h)
  BY <1>1, <1>5
<1> QED BY <1>1, <1>4, <1>5, <1>6, <1>7 DEF Text

\* The ends of lines are positions.
LEMMA FeedsType ==
  ASSUME NEW h \in Seq(Chars)
  PROVE  /\ Feeds(h) \subseteq 1 .. Len(h) /\ Len(h) \in Nat
         /\ \A S : S \subseteq Feeds(h) => IsFiniteSet(S) /\ Cardinality(S) \in Nat
<1>1. Feeds(h) \subseteq 1 .. Len(h) /\ Len(h) \in Nat
  BY LenProperties DEF Feeds
<1>2. IsFiniteSet(1 .. Len(h))
  BY <1>1, FS_Interval
<1>3. ASSUME NEW S, S \subseteq Feeds(h) PROVE IsFiniteSet(S) /\ Cardinality(S) \in Nat
  <2>1. S \in SUBSET (1 .. Len(h))
    BY <1>1, <1>3
  <2> QED BY <1>2, <2>1, FS_Subset, FS_CardinalityType
<1> QED BY <1>1, <1>3

\* They count from 1.
LEMMA FeedsAre ==
  ASSUME NEW h \in Seq(Chars), NEW l \in Feeds(h)
  PROVE  l \in 1 .. Len(h) /\ l \in Nat /\ l \in 0 .. Len(h)
<1>1. l \in 1 .. Len(h) /\ Len(h) \in Nat
  BY FeedsType
<1> QED BY <1>1

\* analyseHead adds the text of each line that was completed.
LEMMA AnalyseHeadIs ==
  ASSUME NEW h \in Seq(Chars), NEW old, NEW q
  PROVE  /\ AnalyseHead(h, old, q) \in Seq(Chars)
         /\ Len(AnalyseHead(h, old, q)) = Cardinality(Completed(h, old, q))
<1> DEFINE S == Completed(h, old, q)
           n == Cardinality(S)
<1>1. S \subseteq Feeds(h)
  BY DEF Completed
<1>2. S \subseteq 1 .. Len(h) /\ Len(h) \in Nat /\ n \in Nat
  BY <1>1, FeedsType
<1>3. \A k \in 1 .. n : Text(h, Nth(S, k)) \in Chars
  <2> SUFFICES ASSUME NEW k \in 1 .. n PROVE Text(h, Nth(S, k)) \in Chars
    OBVIOUS
  <2>1. Nth(S, k) \in S
    BY <1>2, NthIs
  <2>2. Nth(S, k) \in 1 .. Len(h)
    BY <1>2, <2>1
  <2> QED BY <2>2, LineBegIs
<1>4. AnalyseHead(h, old, q) = [k \in 1 .. n |-> Text(h, Nth(S, k))]
  BY DEF AnalyseHead
<1> HIDE DEF n, S
<1>5. AnalyseHead(h, old, q) \in [1 .. n -> Chars]
  BY <1>3, <1>4
<1>6. AnalyseHead(h, old, q) \in Seq(Chars)
  BY <1>2, <1>5, SeqDef
<1>7. DOMAIN AnalyseHead(h, old, q) = 1 .. n
  BY <1>4
<1>8. Len(AnalyseHead(h, old, q)) = n
  BY <1>2, <1>6, <1>7, LenProperties
<1> QED BY <1>6, <1>8 DEF n, S

\* readHead takes something, up to the first line that stops it.
LEMMA UpToIs ==
  ASSUME NEW h \in Seq(Chars), NEW old \in Nat, old < Len(h)
  PROVE  /\ UpTo(h, old) \in old + 1 .. Len(h)
         /\ UpTo(h, old) \in Stops(h, old) \/ UpTo(h, old) = Len(h)
         /\ \A l \in Stops(h, old) : UpTo(h, old) <= l
<1> DEFINE S == {Len(h)} \cup Stops(h, old)
<1>1. \A l \in Stops(h, old) : l \in 1 .. Len(h) /\ old < l
  BY FeedsType DEF Stops
<1>2. Len(h) \in Nat
  BY FeedsType
<1>3. S \subseteq Nat /\ S # {}
  BY <1>1, <1>2
<1>4. PICK m \in S : m = UpTo(h, old) /\ \A y \in S : m <= y
  BY <1>3, MinIs DEF UpTo
<1>5. m \in old + 1 .. Len(h)
  BY <1>1, <1>2, <1>4
<1> QED BY <1>4, <1>5

\* The first n characters.
LEMMA PrefixIs ==
  ASSUME NEW h \in Seq(Chars), NEW n \in 0 .. Len(h)
  PROVE  /\ SubSeq(h, 1, n) \in Seq(Chars) /\ Len(SubSeq(h, 1, n)) = n
         /\ \A i \in 1 .. n : SubSeq(h, 1, n)[i] = h[i]
<1>1. Len(h) \in Nat
  BY LenProperties
<1>2. \A i \in 1 .. n : h[i] \in Chars
  BY <1>1, ElementOfSeq
<1> DEFINE s == SubSeq(h, 1, n)
<1>3. /\ s \in Seq(Chars) /\ Len(s) = IF 1 <= n THEN n - 1 + 1 ELSE 0
      /\ \A i \in 1 .. n - 1 + 1 : s[i] = h[1 + i - 1]
  BY <1>1, <1>2, SubSeqProperties
<1> HIDE DEF s
<1>4. Len(s) = n /\ \A i \in 1 .. n : s[i] = h[i]
  BY <1>1, <1>3
<1> QED BY <1>3, <1>4 DEF s

\* The lines of a part of the head.
LEMMA FeedsPrefix ==
  ASSUME NEW h \in Seq(Chars), NEW n \in 0 .. Len(h)
  PROVE  Feeds(SubSeq(h, 1, n)) = {l \in Feeds(h) : l <= n}
<1>1. Len(h) \in Nat /\ DOMAIN h = 1 .. Len(h)
  BY LenProperties
<1>2. DOMAIN SubSeq(h, 1, n) = 1 .. n
  BY PrefixIs, LenProperties
<1>3. 1 .. n \subseteq 1 .. Len(h)
  BY <1>1
<1> QED BY <1>1, <1>2, <1>3, PrefixIs DEF Feeds

\* The lines of the first part.
LEMMA FeedsConcat ==
  ASSUME NEW s \in Seq(Chars), NEW r \in Seq(Chars)
  PROVE  Feeds(s) = {l \in Feeds(s \o r) : l <= Len(s)}
<1>1. PICK h \in Seq(Chars) : h = s \o r
  BY ConcatProperties
<1>2. /\ Len(s) \in Nat /\ Len(s) \in 0 .. Len(h)
      /\ \A i \in 1 .. Len(s) : h[i] = s[i]
  <2>1. Len(s) \in Nat /\ Len(r) \in Nat
    BY LenProperties
  <2>2. /\ Len(h) = Len(s) + Len(r)
        /\ \A i \in 1 .. Len(s) + Len(r) : h[i] = IF i <= Len(s) THEN s[i] ELSE r[i - Len(s)]
    BY <1>1, ConcatProperties
  <2> QED BY <2>1, <2>2
<1> DEFINE p == SubSeq(h, 1, Len(s))
<1>3. p \in Seq(Chars) /\ Len(p) = Len(s) /\ \A i \in 1 .. Len(s) : p[i] = h[i]
  BY <1>2, PrefixIs
<1>4. Feeds(p) = {l \in Feeds(h) : l <= Len(s)}
  BY <1>2, FeedsPrefix
<1> HIDE DEF p
<1>5. p = s
  BY <1>2, <1>3, SeqEqual
<1> QED BY <1>1, <1>4, <1>5

\* Lines behind old, up to b, and those before are lines up to b.
LEMMA LinesUpTo ==
  ASSUME NEW h \in Seq(Chars), NEW old \in Nat, NEW b \in Nat, old <= b,
         NEW S, S \subseteq {l \in Feeds(h) : old < l /\ l <= b}
  PROVE  Cardinality({l \in Feeds(h) : l <= old}) + Cardinality(S) <= Lines(h, b)
<1> DEFINE A == {l \in Feeds(h) : l <= old}
           B == {l \in Feeds(h) : l <= b}
<1>1. /\ IsFiniteSet(A) /\ IsFiniteSet(B) /\ IsFiniteSet(S)
      /\ Cardinality(A) \in Nat /\ Cardinality(B) \in Nat /\ Cardinality(S) \in Nat
  <2>1. A \subseteq Feeds(h) /\ B \subseteq Feeds(h) /\ S \subseteq Feeds(h)
    OBVIOUS
  <2> QED BY <2>1, FeedsType
<1>2. \A l \in Feeds(h) : l \in Nat
  BY FeedsType
<1>3. A \cap S = {} /\ A \cup S \subseteq B
  BY <1>2
<1> HIDE DEF A, B
<1>4. Cardinality(A \cup S) = Cardinality(A) + Cardinality(S)
  <2>1. Cardinality(A \cap S) = 0
    BY <1>3, FS_EmptySet
  <2>2. Cardinality(A \cup S) = Cardinality(A) + Cardinality(S) - Cardinality(A \cap S)
    BY <1>1, FS_Union
  <2> QED BY <1>1, <2>1, <2>2
<1>5. Cardinality(A \cup S) <= Cardinality(B)
  <2>1. A \cup S \in SUBSET B
    BY <1>3
  <2> QED BY <1>1, <2>1, FS_Subset
<1> QED BY <1>1, <1>4, <1>5 DEF A, B, Lines

-------------------------------------------------------------------------------
(* The inductive invariant                                                   *)

Stats == Reads \cup {"POST_HD", "PREPARE_BODY", "PREPARE_CHUNK", "FRAME_COMPLETED",
                     "CHUNK_COMPLETED", "COMPLETED"}
Errs == {"none", "NEWLINE", "HD", "LINE", "ZERO_LINE", "CONTENT_LEN", "ALLOC",
         "CHUNK_LEN", "CHUNK_BODY", "DISPATCH"}
Ctxs ==
  [m_rd_stat : Stats, m_err_code : Errs, m_rd_len : Int, m_head : Seq(Chars),
   m_ranges : Seq(Chars), m_body : Seq(Chars), m_tmp : Seq(Chars),
   m_content_len : Int, m_frame_beg : Int, m_is_chunk : BOOLEAN, m_seq : Nat]

\* Type invariant
TypeOK ==
  /\ plan.chars \in Seq(Chars)
  /\ pos \in Nat /\ upto \in Nat
  /\ parsing \in BOOLEAN
  /\ ctx \in Ctxs

\* How far the stream is read.
PosInv ==
  /\ pos <= upto /\ upto <= Len(plan.chars)
  /\ ~parsing /\ ctx.m_err_code = "none" => pos = upto

\* What a context keeps from one call of a handler to the next: while the head is
\* read, every line of it has at most one range, and it is within its limits but for
\* the empty line; a chunk length has no LF yet; m_rd_len, which stands for one thing
\* after the other, is how much of it is there, or how much of a body there is to be.
CtxInv(c) ==
  /\ Len(c.m_ranges) < MAX_LINE_CNT /\ Len(c.m_head) < MAX_HEAD_SIZE + 2
  /\ c.m_rd_stat = "HTTP_HD" =>
       Len(c.m_head) < MAX_HEAD_SIZE /\ Len(c.m_ranges) <= Cardinality(Feeds(c.m_head))
  /\ c.m_rd_stat = "POST_HD" => c.m_rd_len = 0
  /\ Len(c.m_body) <= MAX_BODY_SIZE
  /\ c.m_rd_stat \in {"CONTENT", "CHUNK_BODY"} => c.m_rd_len <= MAX_BODY_SIZE
  /\ c.m_rd_stat # "CHUNK_HD" => c.m_tmp = <<>>
  /\ Feeds(c.m_tmp) = {} /\ Len(c.m_tmp) < MAX_CHUNK_HD_LEN
  /\ c.m_rd_stat = "CHUNK_HD" => c.m_rd_len = Len(c.m_tmp)

IInv == TypeOK /\ PosInv /\ CtxInv(ctx)

\* readHead writes at most one place behind its array, and then the head is refused
\* for good.
LinesInv ==
  lines \in Nat /\ lines <= MAX_LINE_CNT /\ (lines = MAX_LINE_CNT => ctx.m_err_code = "HD")

\* It is what BuffersKept asks for.
LEMMA InvBuffers == IInv /\ LinesInv => BuffersKept
  BY DEF IInv, TypeOK, PosInv, CtxInv, LinesInv, BuffersKept

\* A context after allocHttp.
LEMMA FreshCtx == Ctx \in Ctxs /\ CtxInv(Ctx)
<1>1. <<>> \in Seq(Chars) /\ Len(<<>>) = 0
  BY EmptySeq
<1>2. Feeds(<<>>) = {}
  BY DEF Feeds
<1>3. PICK e \in Seq(Chars) : e = <<>> /\ Len(e) = 0 /\ Feeds(e) = {}
  BY <1>1, <1>2
<1>4. Ctx = [m_rd_stat |-> "HTTP_HD", m_err_code |-> "none", m_rd_len |-> 0,
             m_head |-> e, m_ranges |-> e, m_body |-> e, m_tmp |-> e,
             m_content_len |-> 0, m_frame_beg |-> 0, m_is_chunk |-> FALSE, m_seq |-> 0]
  BY <1>3 DEF Ctx
<1>5. "HTTP_HD" \in Stats /\ "none" \in Errs
  BY DEF Stats, Reads, Errs
<1>6. Ctx \in Ctxs
  BY <1>4, <1>5 DEF Ctxs
<1>7. Cardinality({}) = 0
  BY FS_EmptySet
<1>8. CtxInv(Ctx)
  <2>1. /\ Ctx.m_rd_stat = "HTTP_HD" /\ Ctx.m_head = e /\ Ctx.m_ranges = e
        /\ Ctx.m_body = e /\ Ctx.m_tmp = e
    BY <1>4
  <2>2. /\ Len(e) < MAX_LINE_CNT /\ Len(e) < MAX_HEAD_SIZE /\ Len(e) < MAX_HEAD_SIZE + 2
        /\ Len(e) <= Cardinality(Feeds(e)) /\ Len(e) <= MAX_BODY_SIZE
        /\ Len(e) < MAX_CHUNK_HD_LEN
    <3>1. Cardinality(Feeds(e)) = 0
      BY <1>3, <1>7
    <3>2. Len(e) = 0
      BY <1>3
    <3> QED BY <3>1, <3>2, ParserAssumption, StreamAssumption
  <2> QED BY <1>3, <2>1, <2>2 DEF CtxInv
<1> QED BY <1>6, <1>8

LEMMA InitInv == Init => IInv
<1> SUFFICES ASSUME Init PROVE IInv
  OBVIOUS
<1>1. plan.chars \in Seq(Chars)
  BY StreamAssumption DEF Init
<1>2. Len(plan.chars) \in Nat
  BY <1>1, LenProperties
<1>3. ctx \in Ctxs /\ CtxInv(ctx)
  BY FreshCtx DEF Init
<1>4. pos = 0 /\ upto = 0 /\ parsing = FALSE
  BY DEF Init
<1>5. TypeOK
  BY <1>1, <1>3, <1>4 DEF TypeOK
<1>6. PosInv
  BY <1>2, <1>4 DEF PosInv
<1> QED BY <1>3, <1>5, <1>6 DEF IInv

\* The rest of the fragment.
LEMMA RestIs ==
  ASSUME TypeOK, PosInv
  PROVE  Rest \in Seq(Chars) /\ Len(Rest) = upto - pos
<1>1. Len(plan.chars) \in Nat /\ \A i \in 1 .. Len(plan.chars) : plan.chars[i] \in Chars
  BY LenProperties, ElementOfSeq DEF TypeOK
<1>2. \A i \in pos + 1 .. upto : plan.chars[i] \in Chars
  BY <1>1 DEF TypeOK, PosInv
<1> DEFINE s == plan.chars
           m == pos + 1
           r == SubSeq(s, m, upto)
<1>3. m \in Int /\ upto \in Int /\ \A i \in m .. upto : s[i] \in Chars
  BY <1>2 DEF TypeOK
<1> HIDE DEF s, m
<1>4. r \in Seq(Chars) /\ Len(r) = IF m <= upto THEN upto - m + 1 ELSE 0
  BY <1>3, SubSeqProperties
<1>5. (IF m <= upto THEN upto - m + 1 ELSE 0) = upto - pos
  BY DEF m, TypeOK, PosInv
<1> QED BY <1>4, <1>5 DEF Rest, s, m

\* What a handler that starts has: a fragment that it may read.
LEMMA TurnInv ==
  ASSUME IInv, parsing, NEW c \in Ctxs, CtxInv(c), NEW p \in Nat, p <= upto, Turn(c, p)
  PROVE  IInv'
  BY DEF IInv, TypeOK, PosInv, Turn

LEMMA HandlerInv ==
  ASSUME IInv, parsing, NEW c \in Ctxs, CtxInv(c), NEW p \in Nat, p <= upto, Handler(c, p)
  PROVE  IInv'
  BY TurnInv DEF Handler

\* Giving up changes nothing but the error.
LEMMA FailedInv ==
  ASSUME IInv, parsing, NEW err \in Errs, Turn(Failed(err), pos)
  PROVE  IInv'
<1>1. Failed(err) \in Ctxs
  BY DEF Failed, IInv, TypeOK, Ctxs
<1>2. CtxInv(Failed(err))
  BY DEF Failed, IInv, TypeOK, Ctxs, CtxInv
<1> QED BY <1>1, <1>2, TurnInv DEF IInv, TypeOK, PosInv

LEMMA FailInv ==
  ASSUME IInv, parsing, NEW err \in Errs, Fail(err)
  PROVE  IInv'
  BY FailedInv DEF Fail, Handler

-------------------------------------------------------------------------------
(* The handlers                                                              *)

\* readHead: what it takes is within the limits, and so are its lines.
LEMMA HeadStep ==
  ASSUME IInv, At("HTTP_HD"), pos < upto,
         NEW h, h = ctx.m_head \o Rest, NEW old, old = Len(ctx.m_head),
         NEW q, q = UpTo(h, old),
         ~(q \in Stops(h, old) /\ Bare(h, q)),
         (q \in Stops(h, old) /\ Empty(h, q)) \/ IsValidHead(h, q)
  PROVE  /\ h \in Seq(Chars) /\ q \in old + 1 .. Len(h) /\ Len(h) - old = upto - pos
         /\ old \in Nat
         /\ SubSeq(h, 1, q) \in Seq(Chars) /\ Len(SubSeq(h, 1, q)) = q
         /\ Max({0} \cup Feeds(h)) \in Int
         /\ ctx.m_ranges \o AnalyseHead(h, old, q) \in Seq(Chars)
         /\ Len(ctx.m_ranges \o AnalyseHead(h, old, q)) < MAX_LINE_CNT
         /\ q < MAX_HEAD_SIZE + 2
         /\ ~(q \in Stops(h, old) /\ Empty(h, q)) =>
              /\ q < MAX_HEAD_SIZE
              /\ Len(ctx.m_ranges \o AnalyseHead(h, old, q))
                   <= Cardinality(Feeds(SubSeq(h, 1, q)))
<1> DEFINE A == AnalyseHead(h, old, q)
           C == Completed(h, old, q)
           Old == {l \in Feeds(h) : l <= old}
<1>1. /\ ctx \in Ctxs /\ CtxInv(ctx) /\ ctx.m_rd_stat = "HTTP_HD"
      /\ ctx.m_head \in Seq(Chars) /\ ctx.m_ranges \in Seq(Chars)
      /\ pos \in Nat /\ upto \in Nat
  BY DEF IInv, TypeOK, Ctxs, At
<1>2. Rest \in Seq(Chars) /\ Len(Rest) = upto - pos
  BY RestIs DEF IInv
<1>3. /\ h \in Seq(Chars) /\ Len(h) = old + Len(Rest) /\ old \in Nat
      /\ \A i \in 1 .. old : h[i] = ctx.m_head[i]
  <2>1. old \in Nat /\ Len(Rest) \in Nat
    BY <1>1, <1>2, LenProperties
  <2>2. h \in Seq(Chars) /\ Len(h) = old + Len(Rest)
    BY <1>1, <1>2, ConcatProperties
  <2>3. \A i \in 1 .. old + Len(Rest) : h[i] = IF i <= old THEN ctx.m_head[i] ELSE Rest[i - old]
    BY <1>1, <1>2, ConcatProperties
  <2> QED BY <2>1, <2>2, <2>3
<1>4. Len(h) - old = upto - pos /\ old < Len(h) /\ Len(h) \in Nat
  BY <1>1, <1>2, <1>3
<1>5. /\ q \in old + 1 .. Len(h)
      /\ q \in Stops(h, old) \/ q = Len(h)
      /\ \A l \in Stops(h, old) : q <= l
  BY <1>3, <1>4, UpToIs
<1>6. SubSeq(h, 1, q) \in Seq(Chars) /\ Len(SubSeq(h, 1, q)) = q
  <2>1. q \in 0 .. Len(h)
    BY <1>3, <1>4, <1>5
  <2> QED BY <1>3, <2>1, PrefixIs
<1>7. Max({0} \cup Feeds(h)) \in Int
  <2> DEFINE S == {0} \cup Feeds(h)
  <2>1. \A l \in S : l \in 0 .. Len(h)
    <3>1. 0 \in 0 .. Len(h)
      BY <1>4
    <3>2. \A l \in Feeds(h) : l \in 0 .. Len(h)
      BY <1>3, FeedsAre
    <3> QED BY <3>1, <3>2
  <2>2. S \subseteq 0 .. Len(h) /\ S # {}
    BY <2>1
  <2> HIDE DEF S
  <2>3. Max(S) \in S
    BY <1>4, <2>2, MaxIs
  <2>4. Max(S) \in Int
    BY <2>1, <2>3
  <2> QED BY <2>4 DEF S
<1>8. A \in Seq(Chars) /\ Len(A) = Cardinality(C)
  BY <1>3, AnalyseHeadIs
<1> DEFINE r == ctx.m_ranges \o A
<1>9. /\ r \in Seq(Chars) /\ Len(r) = Len(ctx.m_ranges) + Cardinality(C)
      /\ Len(ctx.m_ranges) \in Nat
  <2> HIDE DEF A, C
  <2>1. Len(ctx.m_ranges) \in Nat
    BY <1>1, LenProperties
  <2>2. r \in Seq(Chars) /\ Len(r) = Len(ctx.m_ranges) + Len(A)
    BY <1>1, <1>8, ConcatProperties
  <2> QED BY <1>8, <2>1, <2>2
<1>10. Len(ctx.m_ranges) <= Cardinality(Old) /\ Cardinality(Old) \in Nat
  <2>2. Feeds(ctx.m_head) = Old
    BY <1>1, <1>2, FeedsConcat
  <2>3. Len(ctx.m_ranges) <= Cardinality(Feeds(ctx.m_head))
    BY <1>1 DEF CtxInv
  <2>4. Cardinality(Old) \in Nat
    <3>1. Old \subseteq Feeds(h)
      OBVIOUS
    <3> QED BY <1>3, <3>1, FeedsType
  <2> QED BY <2>2, <2>3, <2>4
<1>11. Feeds(SubSeq(h, 1, q)) = {l \in Feeds(h) : l <= q}
  <2>1. q \in 0 .. Len(h)
    BY <1>3, <1>4, <1>5
  <2> QED BY <1>3, <2>1, FeedsPrefix
<1>12. \A b \in Nat : old <= b /\ C \subseteq {l \in Feeds(h) : old < l /\ l <= b}
                        => Len(r) <= Lines(h, b)
  <2> SUFFICES ASSUME NEW b \in Nat, old <= b,
                      C \subseteq {l \in Feeds(h) : old < l /\ l <= b}
               PROVE  Len(r) <= Lines(h, b)
    OBVIOUS
  <2>1. Cardinality(Old) + Cardinality(C) <= Lines(h, b)
    BY <1>3, LinesUpTo
  <2>2. Cardinality(C) \in Nat
    BY <1>8, LenProperties
  <2>3. Lines(h, b) \in Nat
    <3>1. {l \in Feeds(h) : l <= b} \subseteq Feeds(h)
      OBVIOUS
    <3> QED BY <1>3, <3>1, FeedsType DEF Lines
  <2> HIDE DEF C, Old, r
  <2> QED BY <1>9, <1>10, <2>1, <2>2, <2>3
<1>13. ASSUME NEW b \in Nat, IsValidHead(h, b), Len(r) <= Lines(h, b)
       PROVE  Len(r) < MAX_LINE_CNT /\ b < MAX_HEAD_SIZE
  <2>1. Lines(h, b) \in Nat
    <3>1. {l \in Feeds(h) : l <= b} \subseteq Feeds(h)
      OBVIOUS
    <3> QED BY <1>3, <3>1, FeedsType DEF Lines
  <2>2. Len(r) \in Nat
    BY <1>9, LenProperties
  <2> HIDE DEF r
  <2> QED BY <1>13, <2>1, <2>2, ParserAssumption DEF IsValidHead
<1>14. CASE ~(q \in Stops(h, old) /\ Empty(h, q))
  <2>1. C \subseteq {l \in Feeds(h) : old < l /\ l <= q} /\ q \in Nat /\ old <= q
    BY <1>3, <1>4, <1>5 DEF Completed
  <2>2. Len(r) <= Lines(h, q) /\ IsValidHead(h, q)
    BY <1>12, <1>14, <2>1
  <2>3. Len(r) < MAX_LINE_CNT /\ q < MAX_HEAD_SIZE
    BY <1>13, <2>1, <2>2
  <2>4. Len(r) <= Cardinality(Feeds(SubSeq(h, 1, q)))
    BY <1>11, <2>2 DEF Lines
  <2>5. q < MAX_HEAD_SIZE + 2
    BY <2>1, <2>3, ParserAssumption
  <2> QED BY <1>3, <1>4, <1>5, <1>6, <1>7, <1>9, <2>3, <2>4, <2>5
<1>15. CASE q \in Stops(h, old) /\ Empty(h, q)
  <2>1. PICK b \in 0 .. q - 1 : b = LineBeg(h, q) /\ q - b = 2
    <3>1. q \in 1 .. Len(h)
      BY <1>3, <1>4, <1>5
    <3> QED BY <1>3, <1>15, <3>1, LineBegIs DEF Empty
  <2>2. /\ b = 0 \/ b \in Feeds(h)
        /\ \A l \in Feeds(h) : l < q => l <= b
    <3>1. q \in 1 .. Len(h)
      BY <1>3, <1>4, <1>5
    <3> QED BY <1>3, <2>1, <3>1, LineBegIs
  <2>3. \A l \in C : l \in Feeds(h) /\ old < l /\ l <= b
    <3> SUFFICES ASSUME NEW l \in C PROVE l \in Feeds(h) /\ old < l /\ l <= b
      OBVIOUS
    <3>1. l \in Feeds(h) /\ old < l /\ l <= q /\ ~Empty(h, l)
      BY DEF Completed
    <3>2. l # q /\ l \in Nat
      BY <1>3, <1>15, <3>1, FeedsAre
    <3> QED BY <1>3, <1>4, <1>5, <2>2, <3>1, <3>2
  <2>4. CASE old < b
    <3>1. b \in Feeds(h) /\ b \in Nat /\ b < q
      BY <1>3, <1>4, <1>5, <2>1, <2>2, <2>4
    <3>2. b \notin Stops(h, old)
      BY <1>3, <1>4, <1>5, <3>1
    <3>3. IsValidHead(h, b)
      BY <2>4, <3>1, <3>2 DEF Stops
    <3>4. Len(r) <= Lines(h, b)
      <4>1. C \subseteq {l \in Feeds(h) : old < l /\ l <= b}
        BY <2>3
      <4>2. old <= b
        BY <1>3, <2>4, <3>1
      <4> QED BY <1>12, <3>1, <4>1, <4>2
    <3>5. Len(r) < MAX_LINE_CNT /\ b < MAX_HEAD_SIZE
      BY <1>13, <3>1, <3>3, <3>4
    <3>6. q < MAX_HEAD_SIZE + 2
      BY <1>3, <1>4, <1>5, <2>1, <3>5, ParserAssumption
    <3> QED BY <1>3, <1>4, <1>5, <1>6, <1>7, <1>9, <1>15, <3>5, <3>6
  <2>5. CASE ~(old < b)
    <3>1. C = {}
      <4> SUFFICES ASSUME NEW l \in C PROVE FALSE
        OBVIOUS
      <4>1. l \in Feeds(h) /\ old < l /\ l <= b
        BY <2>3
      <4>2. l \in Nat
        BY <1>3, <4>1, FeedsAre
      <4> QED BY <1>3, <1>4, <1>5, <2>1, <2>5, <4>1, <4>2
    <3>2. Len(r) = Len(ctx.m_ranges)
      <4>1. Cardinality(C) = 0
        BY <3>1, FS_EmptySet
      <4> HIDE DEF r, C
      <4> QED BY <1>9, <4>1
    <3>3. Len(r) < MAX_LINE_CNT
      BY <1>1, <3>2 DEF CtxInv
    <3>4. q < MAX_HEAD_SIZE + 2
      <4>1. old < MAX_HEAD_SIZE
        BY <1>1 DEF CtxInv
      <4> QED BY <1>3, <1>4, <1>5, <2>1, <2>5, <4>1, ParserAssumption
    <3> QED BY <1>3, <1>4, <1>5, <1>6, <1>7, <1>9, <1>15, <3>3, <3>4
  <2> QED BY <2>4, <2>5
<1> QED BY <1>14, <1>15

LEMMA ReadHeadStep == ASSUME IInv, ReadHead PROVE IInv' /\ pos' >= pos
<1>1. /\ parsing /\ ctx \in Ctxs /\ CtxInv(ctx) /\ pos < upto /\ At("HTTP_HD")
      /\ pos \in Nat /\ upto \in Nat /\ ctx.m_rd_stat = "HTTP_HD"
  BY DEF IInv, TypeOK, ReadHead, At
<1>2. ASSUME NEW err \in Errs, Turn(Failed(err), pos) PROVE IInv' /\ pos' >= pos
  BY <1>1, <1>2, FailedInv DEF Turn
<1>3. PICK h, q :
        /\ h = ctx.m_head \o Rest /\ q = UpTo(h, Len(ctx.m_head))
        /\ LET old == Len(ctx.m_head)
               stop == q \in Stops(h, old)
               newline == stop /\ Bare(h, q)
               empty == stop /\ ~Bare(h, q) /\ Empty(h, q)
               valid == ~newline /\ (empty \/ IsValidHead(h, q))
           IN \/ \E err \in {"NEWLINE", "HD", "ALLOC", "LINE"} : Turn(Failed(err), pos)
              \/ /\ valid
                 /\ Turn([ctx EXCEPT
                      !.m_head = SubSeq(h, 1, q),
                      !.m_ranges = @ \o AnalyseHead(h, old, q),
                      !.m_rd_len = IF empty THEN 0 ELSE q - Max({0} \cup Feeds(h)),
                      !.m_rd_stat = IF empty THEN "POST_HD" ELSE @], pos + q - old)
  BY DEF ReadHead
<1> DEFINE old == Len(ctx.m_head)
           newline == q \in Stops(h, old) /\ Bare(h, q)
           empty == q \in Stops(h, old) /\ ~Bare(h, q) /\ Empty(h, q)
           head == SubSeq(h, 1, q)
           ranges == ctx.m_ranges \o AnalyseHead(h, old, q)
           len == IF empty THEN 0 ELSE q - Max({0} \cup Feeds(h))
           c == [ctx EXCEPT !.m_head = head, !.m_ranges = ranges, !.m_rd_len = len,
                            !.m_rd_stat = IF empty THEN "POST_HD" ELSE ctx.m_rd_stat]
<1>4. \/ \E err \in {"NEWLINE", "HD", "ALLOC", "LINE"} : Turn(Failed(err), pos)
      \/ ~newline /\ (empty \/ IsValidHead(h, q)) /\ Turn(c, pos + q - old)
  BY <1>3
<1>5. {"NEWLINE", "HD", "ALLOC", "LINE"} \subseteq Errs
  BY DEF Errs
<1>6. CASE ~newline /\ (empty \/ IsValidHead(h, q)) /\ Turn(c, pos + q - old)
  <2>1. /\ h \in Seq(Chars) /\ q \in old + 1 .. Len(h) /\ Len(h) - old = upto - pos
        /\ old \in Nat
        /\ head \in Seq(Chars) /\ Len(head) = q
        /\ Max({0} \cup Feeds(h)) \in Int
        /\ ranges \in Seq(Chars) /\ Len(ranges) < MAX_LINE_CNT
        /\ q < MAX_HEAD_SIZE + 2
        /\ ~(q \in Stops(h, old) /\ Empty(h, q)) =>
             q < MAX_HEAD_SIZE /\ Len(ranges) <= Cardinality(Feeds(head))
    BY <1>1, <1>3, <1>6, HeadStep
  <2>2. q \in Nat /\ Len(h) \in Nat
    <3>1. Len(h) \in Nat
      BY <2>1, LenProperties
    <3> QED BY <2>1, <3>1
  <2>3. pos + q - old \in Nat /\ pos + q - old >= pos /\ pos + q - old <= upto
    <3>1. PICK i \in Int, j \in Int, k \in Int : i = q /\ j = old /\ k = Len(h)
      BY <2>1, <2>2
    <3>2. pos + (i - j) >= pos /\ pos + (i - j) <= upto /\ pos + i - j = pos + (i - j)
      BY <1>1, <2>1, <3>1
    <3> QED BY <1>1, <3>1, <3>2
  <2>4. len \in Int /\ (empty => len = 0)
    BY <2>1, <2>2
  <2>5. empty <=> (q \in Stops(h, old) /\ Empty(h, q))
    BY <1>6
  <2> HIDE DEF old, empty, head, ranges, len
  <2>6. c \in Ctxs
    <3>1. "POST_HD" \in Stats
      BY DEF Stats
    <3> QED BY <1>1, <2>1, <2>4, <3>1 DEF Ctxs
  <2>7. CtxInv(c)
    BY <1>1, <2>1, <2>2, <2>4, <2>5 DEF Ctxs, CtxInv
  <2>8. IInv'
    BY <1>1, <1>6, <2>3, <2>6, <2>7, TurnInv
  <2> QED BY <1>6, <2>3, <2>8 DEF Turn
<1> QED BY <1>2, <1>4, <1>5, <1>6

LEMMA ReadPostHdStep == ASSUME IInv, ReadPostHd PROVE IInv' /\ pos' = pos
<1>1. /\ parsing /\ ctx \in Ctxs /\ CtxInv(ctx) /\ pos \in Nat /\ pos <= upto
      /\ ctx.m_rd_stat = "POST_HD"
  BY DEF IInv, TypeOK, PosInv, ReadPostHd, At
<1>2. ASSUME NEW err \in Errs, Fail(err) PROVE IInv' /\ pos' = pos
  BY <1>1, <1>2, FailInv DEF Fail, Handler, Turn
<1>3. "ZERO_LINE" \in Errs /\ "CONTENT_LEN" \in Errs
  BY DEF Errs
<1>4. \/ Fail("ZERO_LINE") \/ Fail("CONTENT_LEN")
      \/ Handler([ctx EXCEPT !.m_is_chunk = TRUE, !.m_rd_stat = "CHUNK_HD"], pos)
      \/ \E n \in 0 .. MAX_CONTENT_SIZE - 1 :
           Handler([ctx EXCEPT !.m_content_len = n,
                      !.m_rd_stat = IF 0 < n THEN "PREPARE_BODY" ELSE "COMPLETED"], pos)
  BY DEF ReadPostHd
<1>5. {"CHUNK_HD", "PREPARE_BODY", "COMPLETED"} \subseteq Stats
  BY DEF Stats, Reads
<1>6. CASE Handler([ctx EXCEPT !.m_is_chunk = TRUE, !.m_rd_stat = "CHUNK_HD"], pos)
  <2> DEFINE c == [ctx EXCEPT !.m_is_chunk = TRUE, !.m_rd_stat = "CHUNK_HD"]
  <2>1. c \in Ctxs
    BY <1>1, <1>5 DEF Ctxs
  <2>2. ctx.m_tmp = <<>> /\ ctx.m_rd_len = 0 /\ Len(<<>>) = 0
    BY <1>1, EmptySeq DEF CtxInv
  <2>3. CtxInv(c)
    BY <1>1, <2>2 DEF Ctxs, CtxInv
  <2> QED BY <1>1, <1>6, <2>1, <2>3, HandlerInv DEF Handler, Turn
<1>7. ASSUME NEW n \in 0 .. MAX_CONTENT_SIZE - 1,
             Handler([ctx EXCEPT !.m_content_len = n,
                        !.m_rd_stat = IF 0 < n THEN "PREPARE_BODY" ELSE "COMPLETED"], pos)
      PROVE  IInv' /\ pos' = pos
  <2> DEFINE c == [ctx EXCEPT !.m_content_len = n,
                     !.m_rd_stat = IF 0 < n THEN "PREPARE_BODY" ELSE "COMPLETED"]
  <2>0. n \in Int
    BY ParserAssumption
  <2>1. c \in Ctxs
    BY <1>1, <1>5, <2>0 DEF Ctxs
  <2>2. CtxInv(c)
    BY <1>1 DEF Ctxs, CtxInv
  <2> QED BY <1>1, <1>7, <2>1, <2>2, HandlerInv DEF Handler, Turn
<1> QED BY <1>2, <1>3, <1>4, <1>6, <1>7

\* What readBodyData takes fits the frame and is there.
LEMMA FilledIs ==
  ASSUME IInv, pos < upto, ctx.m_rd_stat \in {"CONTENT", "CHUNK_BODY"}
  PROVE  /\ Filled \in Seq(Chars) /\ Len(Filled) <= MAX_BODY_SIZE
         /\ Taken \in Nat /\ pos <= Taken /\ Taken <= upto
<1>1. /\ Rest \in Seq(Chars) /\ Len(Rest) = upto - pos /\ pos \in Nat /\ upto \in Nat
      /\ ctx.m_body \in Seq(Chars) /\ Len(ctx.m_body) \in Nat /\ ctx.m_rd_len \in Int
  <2>1. ctx.m_body \in Seq(Chars) /\ ctx.m_rd_len \in Int
    BY DEF IInv, TypeOK, Ctxs
  <2> QED BY <2>1, RestIs, LenProperties DEF IInv, TypeOK
<1>2. Len(ctx.m_body) <= MAX_BODY_SIZE /\ ctx.m_rd_len <= MAX_BODY_SIZE
  BY DEF IInv, CtxInv
<1>3. PICK w \in Int : /\ w = Wanted /\ w <= upto - pos
                       /\ w <= ctx.m_rd_len - Len(ctx.m_body)
  BY <1>1 DEF Wanted, Smaller
<1>4. CASE ~(w > 0)
  BY <1>1, <1>2, <1>3, <1>4 DEF Filled, Taken, IInv, PosInv
<1>5. CASE w > 0
  <2>1. Filled = ctx.m_body \o SubSeq(Rest, 1, w) /\ Taken = pos + w
    BY <1>3, <1>5 DEF Filled, Taken
  <2>2. SubSeq(Rest, 1, w) \in Seq(Chars) /\ Len(SubSeq(Rest, 1, w)) = w
    <3>1. w \in 0 .. Len(Rest)
      BY <1>1, <1>3, <1>5
    <3> QED BY <1>1, <3>1, PrefixIs
  <2>3. Filled \in Seq(Chars) /\ Len(Filled) = Len(ctx.m_body) + w
    <3> DEFINE s == SubSeq(Rest, 1, w)
    <3> HIDE DEF s
    <3>1. /\ ctx.m_body \o s \in Seq(Chars)
          /\ Len(ctx.m_body \o s) = Len(ctx.m_body) + Len(s)
      BY <1>1, <2>2, ConcatProperties DEF s
    <3> QED BY <2>1, <2>2, <3>1 DEF s
  <2>4. Len(Filled) <= MAX_BODY_SIZE
    BY <1>1, <1>2, <1>3, <2>3, StreamAssumption
  <2>5. pos + w \in Nat /\ pos <= pos + w /\ pos + w <= upto
    BY <1>1, <1>3, <1>5
  <2> QED BY <2>1, <2>3, <2>4, <2>5
<1> QED BY <1>4, <1>5

\* The handlers that change only the state and the length that is read.
LEMMA MovesInv ==
  ASSUME NEW c \in Ctxs, CtxInv(c), NEW stat \in Stats, NEW len \in Int,
         stat # "HTTP_HD", stat # "POST_HD", stat # "CHUNK_HD", c.m_rd_stat # "CHUNK_HD",
         stat \in {"CONTENT", "CHUNK_BODY"} => len <= MAX_BODY_SIZE
  PROVE  LET d == [c EXCEPT !.m_rd_len = len, !.m_rd_stat = stat]
         IN d \in Ctxs /\ CtxInv(d)
  BY DEF Ctxs, CtxInv

LEMMA PrepareBodyStep == ASSUME IInv, PrepareBody PROVE IInv' /\ pos' = pos
<1> DEFINE len == Smaller(ctx.m_content_len - ctx.m_frame_beg, MAX_BODY_SIZE)
<1>1. /\ parsing /\ ctx \in Ctxs /\ CtxInv(ctx) /\ pos \in Nat /\ pos <= upto
      /\ ctx.m_rd_stat = "PREPARE_BODY"
  BY DEF IInv, TypeOK, PosInv, PrepareBody, At
<1>2. len \in Int /\ len <= MAX_BODY_SIZE
  BY <1>1, StreamAssumption DEF Ctxs, Smaller
<1>3. "ALLOC" \in Errs /\ "CONTENT" \in Stats
  BY DEF Errs, Stats, Reads
<1>4. Fail("ALLOC") \/ Handler([ctx EXCEPT !.m_rd_len = len, !.m_rd_stat = "CONTENT"], pos)
  BY DEF PrepareBody
<1> HIDE DEF len
<1>5. CASE Handler([ctx EXCEPT !.m_rd_len = len, !.m_rd_stat = "CONTENT"], pos)
  <2> DEFINE c == [ctx EXCEPT !.m_rd_len = len, !.m_rd_stat = "CONTENT"]
  <2>1. c \in Ctxs /\ CtxInv(c)
    BY <1>1, <1>2, <1>3, MovesInv
  <2> QED BY <1>1, <1>5, <2>1, HandlerInv DEF Handler, Turn
<1>6. CASE Fail("ALLOC")
  BY <1>1, <1>3, <1>6, FailInv DEF Fail, Handler, Turn
<1> QED BY <1>4, <1>5, <1>6

LEMMA ReadBodyStep == ASSUME IInv, ReadBody PROVE IInv' /\ pos' >= pos
<1>1. /\ parsing /\ ctx \in Ctxs /\ CtxInv(ctx) /\ pos < upto
      /\ ctx.m_rd_stat = "CONTENT"
  BY DEF IInv, TypeOK, PosInv, ReadBody, At
<1>2. /\ Filled \in Seq(Chars) /\ Len(Filled) <= MAX_BODY_SIZE
      /\ Taken \in Nat /\ pos <= Taken /\ Taken <= upto
  BY <1>1, FilledIs
<1>3. PICK stat \in {"CONTENT", "FRAME_COMPLETED", "COMPLETED"} :
        Handler([ctx EXCEPT !.m_body = Filled, !.m_rd_stat = stat], Taken)
  BY <1>1 DEF ReadBody
<1>4. stat \in Stats
  BY DEF Stats, Reads
<1> DEFINE c == [ctx EXCEPT !.m_body = Filled, !.m_rd_stat = stat]
<1>5. c \in Ctxs
  BY <1>1, <1>2, <1>4 DEF Ctxs
<1>6. CtxInv(c)
  BY <1>1, <1>2 DEF Ctxs, CtxInv
<1>7. IInv'
  BY <1>1, <1>2, <1>3, <1>5, <1>6, HandlerInv
<1> QED BY <1>2, <1>3, <1>7 DEF Handler, Turn, IInv, TypeOK

LEMMA PrepareChunkStep == ASSUME IInv, PrepareChunk PROVE IInv' /\ pos' = pos
<1> DEFINE len == Smaller(ctx.m_content_len - ctx.m_frame_beg, MAX_BODY_SIZE)
<1>1. /\ parsing /\ ctx \in Ctxs /\ CtxInv(ctx) /\ pos \in Nat /\ pos <= upto
      /\ ctx.m_rd_stat = "PREPARE_CHUNK"
  BY DEF IInv, TypeOK, PosInv, PrepareChunk, At
<1>2. len \in Int /\ len <= MAX_BODY_SIZE
  BY <1>1, StreamAssumption DEF Ctxs, Smaller
<1>3. "ALLOC" \in Errs /\ "CHUNK_BODY" \in Stats /\ "CHUNK_COMPLETED" \in Stats
  BY DEF Errs, Stats, Reads
<1>4. \/ Fail("ALLOC")
      \/ Handler([ctx EXCEPT !.m_rd_stat = "CHUNK_COMPLETED"], pos)
      \/ Handler([ctx EXCEPT !.m_rd_len = len, !.m_rd_stat = "CHUNK_BODY"], pos)
  BY DEF PrepareChunk
<1> HIDE DEF len
<1>5. CASE Handler([ctx EXCEPT !.m_rd_len = len, !.m_rd_stat = "CHUNK_BODY"], pos)
  <2> DEFINE c == [ctx EXCEPT !.m_rd_len = len, !.m_rd_stat = "CHUNK_BODY"]
  <2>1. c \in Ctxs /\ CtxInv(c)
    BY <1>1, <1>2, <1>3, MovesInv
  <2> QED BY <1>1, <1>5, <2>1, HandlerInv DEF Handler, Turn
<1>6. CASE Handler([ctx EXCEPT !.m_rd_stat = "CHUNK_COMPLETED"], pos)
  <2> DEFINE c == [ctx EXCEPT !.m_rd_stat = "CHUNK_COMPLETED"]
  <2>1. c \in Ctxs /\ CtxInv(c)
    BY <1>1, <1>3 DEF Ctxs, CtxInv
  <2> QED BY <1>1, <1>6, <2>1, HandlerInv DEF Handler, Turn
<1>7. CASE Fail("ALLOC")
  BY <1>1, <1>3, <1>7, FailInv DEF Fail, Handler, Turn
<1> QED BY <1>4, <1>5, <1>6, <1>7

LEMMA ReadChunkStep == ASSUME IInv, ReadChunk PROVE IInv' /\ pos' >= pos
<1>1. /\ parsing /\ ctx \in Ctxs /\ CtxInv(ctx) /\ pos < upto
      /\ ctx.m_rd_stat = "CHUNK_BODY"
  BY DEF IInv, TypeOK, PosInv, ReadChunk, At
<1>2. /\ Filled \in Seq(Chars) /\ Len(Filled) <= MAX_BODY_SIZE
      /\ Taken \in Nat /\ pos <= Taken /\ Taken <= upto
  BY <1>1, FilledIs
<1>3. PICK stat \in {"CHUNK_BODY", "PREPARE_CHUNK", "CHUNK_CRLF"}, len \in {0, ctx.m_rd_len} :
        Handler([ctx EXCEPT !.m_body = Filled, !.m_rd_len = len, !.m_rd_stat = stat], Taken)
  BY <1>1 DEF ReadChunk
<1>4. stat \in Stats /\ len \in Int /\ len <= MAX_BODY_SIZE
  BY <1>1, StreamAssumption DEF Stats, Reads, Ctxs, CtxInv
<1> DEFINE c == [ctx EXCEPT !.m_body = Filled, !.m_rd_len = len, !.m_rd_stat = stat]
<1>5. c \in Ctxs
  BY <1>1, <1>2, <1>4 DEF Ctxs
<1>6. CtxInv(c)
  BY <1>1, <1>2, <1>4 DEF Ctxs, CtxInv
<1>7. IInv'
  BY <1>1, <1>2, <1>3, <1>5, <1>6, HandlerInv
<1> QED BY <1>2, <1>3, <1>7 DEF Handler, Turn, IInv, TypeOK

\* The first line end of a text, if there is one.
LEMMA FirstFeed ==
  ASSUME NEW t \in Seq(Chars), NEW a \in Nat, a < Len(t), \A l \in Feeds(t) : a < l
  PROVE  \E q \in Nat : /\ q = Min(Feeds(t) \cup {Len(t)}) /\ a < q /\ q <= Len(t)
                        /\ t[q] # LF => Feeds(t) = {}
<1> DEFINE S == Feeds(t) \cup {Len(t)}
<1>1. Len(t) \in Nat /\ DOMAIN t = 1 .. Len(t)
  BY LenProperties
<1>2. \A l \in S : l \in Nat /\ a < l /\ l <= Len(t) /\ l \in DOMAIN t
  <2>1. \A l \in Feeds(t) : l \in Nat /\ a < l /\ l <= Len(t) /\ l \in DOMAIN t
    <3>1. \A l \in Feeds(t) : l \in 1 .. Len(t)
      BY FeedsAre
    <3> QED BY <1>1, <3>1
  <2>2. Len(t) \in DOMAIN t
    BY <1>1
  <2> QED BY <1>1, <2>1, <2>2
<1>3. S # {} /\ S \subseteq Nat
  BY <1>2
<1>4. PICK q \in S : q = Min(S) /\ \A y \in S : q <= y
  BY <1>3, MinIs
<1>5. q \in Nat /\ a < q /\ q <= Len(t) /\ q \in DOMAIN t
  BY <1>2, <1>4
<1>6. ASSUME t[q] # LF, NEW l \in Feeds(t) PROVE FALSE
  <2>1. q \notin Feeds(t)
    BY <1>6 DEF Feeds
  <2>2. q = Len(t) /\ l \in S
    BY <1>4, <2>1
  <2>3. l <= q /\ q <= l /\ l \in Nat
    BY <1>2, <1>4, <2>2
  <2>4. l = q
    BY <1>5, <2>3
  <2> QED BY <1>6, <2>1, <2>4
<1> QED BY <1>4, <1>5, <1>6

\* What is added to a text without line ends has the first of them.
LEMMA AddedFeed ==
  ASSUME NEW s \in Seq(Chars), NEW r \in Seq(Chars), Feeds(s) = {}, 0 < Len(r)
  PROVE  \E t \in Seq(Chars), q \in Nat :
           /\ t = s \o r /\ q = Min(Feeds(t) \cup {Len(t)})
           /\ Len(t) = Len(s) + Len(r) /\ Len(s) < q /\ q <= Len(t)
           /\ t[q] # LF => Feeds(t) = {}
<1>1. PICK a \in Nat, b \in Nat : a = Len(s) /\ b = Len(r)
  BY LenProperties
<1>2. PICK t \in Seq(Chars) : t = s \o r /\ Len(t) = a + b
  BY <1>1, ConcatProperties
<1>3. \A l \in Feeds(t) : l \in Nat /\ ~(l <= a)
  BY <1>1, <1>2, FeedsConcat, FeedsAre
<1>4. a < Len(t) /\ \A l \in Feeds(t) : a < l
  BY <1>1, <1>2, <1>3
<1>5. PICK q \in Nat : /\ q = Min(Feeds(t) \cup {Len(t)}) /\ a < q /\ q <= Len(t)
                       /\ t[q] # LF => Feeds(t) = {}
  BY <1>4, FirstFeed
<1> QED BY <1>1, <1>2, <1>5

\* readChunkHd looks behind what it looked at before, and gives back what is behind
\* the line it finds.
LEMMA ChunkLine ==
  ASSUME IInv, At("CHUNK_HD"), pos < upto
  PROVE  \E n \in Nat, t \in Seq(Chars), q \in Nat :
           /\ n = Smaller(MAX_CHUNK_HD_LEN - ctx.m_rd_len, upto - pos) /\ n <= upto - pos
           /\ t = ctx.m_tmp \o SubSeq(Rest, 1, n) /\ Len(t) \in Nat
           /\ q = Min(Feeds(t) \cup {Len(t)})
           /\ q <= Len(t) /\ Len(t) - q < n
           /\ t[q] # LF => Feeds(t) = {}
<1>1. /\ ctx \in Ctxs /\ CtxInv(ctx) /\ ctx.m_rd_stat = "CHUNK_HD"
      /\ ctx.m_tmp \in Seq(Chars) /\ pos \in Nat /\ upto \in Nat
      /\ Rest \in Seq(Chars) /\ Len(Rest) = upto - pos
  BY RestIs DEF IInv, TypeOK, Ctxs, At
<1>2. PICK a \in Nat : a = Len(ctx.m_tmp) /\ a < MAX_CHUNK_HD_LEN /\ ctx.m_rd_len = a
  BY <1>1, LenProperties DEF CtxInv
<1>3. PICK n \in Nat : /\ n = Smaller(MAX_CHUNK_HD_LEN - ctx.m_rd_len, upto - pos)
                       /\ 0 < n /\ n <= upto - pos
  <2>1. PICK w \in Nat : w = upto - pos /\ 0 < w
    BY <1>1
  <2> QED BY <1>2, <2>1, ParserAssumption DEF Smaller
<1>4. PICK r \in Seq(Chars) : r = SubSeq(Rest, 1, n) /\ Len(r) = n
  <2>1. n \in 0 .. Len(Rest)
    BY <1>1, <1>3
  <2> QED BY <1>1, <2>1, PrefixIs
<1>5. PICK t \in Seq(Chars), q \in Nat :
        /\ t = ctx.m_tmp \o r /\ q = Min(Feeds(t) \cup {Len(t)})
        /\ Len(t) = a + n /\ a < q /\ q <= Len(t)
        /\ t[q] # LF => Feeds(t) = {}
  <2>1. Feeds(ctx.m_tmp) = {}
    BY <1>1 DEF CtxInv
  <2>2. 0 < Len(r)
    BY <1>3, <1>4
  <2>3. PICK t \in Seq(Chars), q \in Nat :
          /\ t = ctx.m_tmp \o r /\ q = Min(Feeds(t) \cup {Len(t)})
          /\ Len(t) = Len(ctx.m_tmp) + Len(r) /\ Len(ctx.m_tmp) < q /\ q <= Len(t)
          /\ t[q] # LF => Feeds(t) = {}
    BY <1>1, <2>1, <2>2, AddedFeed
  <2> QED BY <1>2, <1>4, <2>3
<1>6. Len(t) \in Nat /\ Len(t) - q < n
  <2>1. PICK m \in Nat : m = Len(t) /\ m = a + n
    BY <1>5
  <2>2. m - q < n
    BY <1>5, <2>1
  <2> QED BY <2>1, <2>2
<1> QED BY <1>3, <1>4, <1>5, <1>6

\* Nothing from before the fragment is given back.
LEMMA GivesBack ==
  ASSUME NEW i \in Nat, NEW j \in Nat, NEW n \in Nat, NEW a \in Nat, NEW q \in Nat,
         n <= j - i, q <= a, a - q < n
  PROVE  i + n - (a - q) \in Nat /\ i <= i + n - (a - q) /\ i + n - (a - q) <= j
<1>1. PICK d \in Nat : d = a - q
  OBVIOUS
<1>2. PICK k \in Nat : k = n - d /\ k <= n
  BY <1>1
<1>3. i + n - d = i + k
  BY <1>2
<1> QED BY <1>1, <1>2, <1>3

\* What readChunkHd does to the context: it reads on, or a chunk begins.
LEMMA ReadsOnInv ==
  ASSUME NEW c \in Ctxs, CtxInv(c), c.m_rd_stat = "CHUNK_HD",
         NEW tmp \in Seq(Chars), Feeds(tmp) = {}, Len(tmp) < MAX_CHUNK_HD_LEN,
         NEW len \in Int, len = Len(tmp)
  PROVE  LET d == [c EXCEPT !.m_tmp = tmp, !.m_rd_len = len]
         IN d \in Ctxs /\ CtxInv(d)
  BY DEF Ctxs, CtxInv

LEMMA ChunkBeginsType ==
  ASSUME NEW c \in Ctxs
  PROVE  \A tmp \in Seq(Chars), len \in Int, n \in Int, stat \in Stats :
           [c EXCEPT !.m_tmp = tmp, !.m_rd_len = len, !.m_content_len = n,
                     !.m_rd_stat = stat] \in Ctxs
  BY DEF Ctxs

LEMMA ChunkBeginsInv ==
  ASSUME NEW c \in Ctxs, CtxInv(c), NEW n \in Int, NEW stat \in {"PREPARE_CHUNK", "CHUNK_TAIL"}
  PROVE  LET d == [c EXCEPT !.m_tmp = <<>>, !.m_rd_len = 0, !.m_content_len = n,
                            !.m_rd_stat = stat]
         IN d \in Ctxs /\ CtxInv(d)
<1>1. PICK e \in Seq(Chars) : e = <<>> /\ Len(e) = 0 /\ Feeds(e) = {}
  <2>1. Feeds(<<>>) = {}
    BY DEF Feeds
  <2> QED BY <2>1, EmptySeq
<1>2. stat \in Stats /\ stat \notin {"HTTP_HD", "POST_HD", "CHUNK_HD", "CONTENT", "CHUNK_BODY"}
  BY DEF Stats, Reads
<1>0. PICK zero \in Int : zero = 0
  OBVIOUS
<1> DEFINE d == [c EXCEPT !.m_tmp = e, !.m_rd_len = zero, !.m_content_len = n,
                          !.m_rd_stat = stat]
<1>3. d \in Ctxs
  BY <1>2, ChunkBeginsType
<1>4. CtxInv(d)
  <2>1. /\ d.m_tmp = e /\ d.m_rd_len = zero /\ d.m_rd_stat = stat
        /\ d.m_ranges = c.m_ranges /\ d.m_head = c.m_head /\ d.m_body = c.m_body
    BY DEF Ctxs
  <2> HIDE DEF d
  <2>2. Len(d.m_tmp) < MAX_CHUNK_HD_LEN
    <3>1. Len(d.m_tmp) = 0
      BY <1>1, <2>1
    <3> QED BY <3>1, ParserAssumption
  <2> QED BY <1>1, <1>2, <2>1, <2>2 DEF CtxInv
<1> QED BY <1>0, <1>1, <1>3, <1>4

\* And readCRLF.
LEMMA CRLFInv ==
  ASSUME NEW c \in Ctxs, CtxInv(c), c.m_rd_stat \in {"CHUNK_CRLF", "CHUNK_TAIL"},
         NEW stat \in {"CHUNK_CRLF", "CHUNK_TAIL", "CHUNK_HD", "COMPLETED"},
         NEW len \in Int, stat = "CHUNK_HD" => len = 0
  PROVE  LET d == [c EXCEPT !.m_rd_len = len, !.m_rd_stat = stat]
         IN d \in Ctxs /\ CtxInv(d)
<1>1. stat \in Stats /\ stat \notin {"HTTP_HD", "POST_HD", "CONTENT", "CHUNK_BODY"}
  BY DEF Stats, Reads
<1>2. c.m_tmp = <<>> /\ Len(c.m_tmp) = 0
  BY EmptySeq DEF CtxInv
<1> DEFINE d == [c EXCEPT !.m_rd_len = len, !.m_rd_stat = stat]
<1>3. d \in Ctxs
  BY <1>1 DEF Ctxs
<1>4. CtxInv(d)
  <2>1. /\ d.m_tmp = c.m_tmp /\ d.m_rd_len = len /\ d.m_rd_stat = stat
        /\ d.m_ranges = c.m_ranges /\ d.m_head = c.m_head /\ d.m_body = c.m_body
    BY DEF Ctxs
  <2> HIDE DEF d
  <2> QED BY <1>1, <1>2, <2>1 DEF CtxInv
<1> QED BY <1>3, <1>4

\* parseChunkLen gives a number.
LEMMA ChunkLenType ==
  ASSUME NEW text \in Seq(Chars) PROVE ChunkLen(text) \in Int
<1>1. CASE Len(text) = 1
  <2>1. text[1] \in Chars
    BY <1>1, ElementOfSeq
  <2>2. text[1].n \in Int
    BY <2>1 DEF Chars
  <2> QED BY <2>2 DEF ChunkLen
<1>2. CASE Len(text) # 1
  BY <1>2 DEF ChunkLen
<1> QED BY <1>1, <1>2

LEMMA ReadChunkHdStep == ASSUME IInv, ReadChunkHd PROVE IInv' /\ pos' >= pos
<1>1. /\ parsing /\ ctx \in Ctxs /\ CtxInv(ctx) /\ pos < upto /\ pos \in Nat /\ upto \in Nat
      /\ ctx.m_rd_stat = "CHUNK_HD" /\ At("CHUNK_HD")
  BY DEF IInv, TypeOK, PosInv, ReadChunkHd, At
<1>2. PICK n \in Nat, tmp \in Seq(Chars), q \in Nat :
        /\ n = Smaller(MAX_CHUNK_HD_LEN - ctx.m_rd_len, upto - pos) /\ n <= upto - pos
        /\ tmp = ctx.m_tmp \o SubSeq(Rest, 1, n) /\ Len(tmp) \in Nat
        /\ q = Min(Feeds(tmp) \cup {Len(tmp)})
        /\ q <= Len(tmp) /\ Len(tmp) - q < n
        /\ tmp[q] # LF => Feeds(tmp) = {}
  BY <1>1, ChunkLine
<1> DEFINE line == tmp[q] = LF
           len == IF line /\ ~Bare(tmp, q) THEN ChunkLen(SubSeq(tmp, 1, q - 2)) ELSE -1
           kept == [ctx EXCEPT !.m_tmp = tmp, !.m_rd_len = Len(tmp)]
           next == IF 0 < len THEN "PREPARE_CHUNK" ELSE "CHUNK_TAIL"
           wrapped == Wrap(ctx.m_content_len + len)
           done == [ctx EXCEPT !.m_tmp = <<>>, !.m_rd_len = 0,
                      !.m_content_len = wrapped, !.m_rd_stat = next]
<1>3. \/ ~line /\ Len(tmp) < MAX_CHUNK_HD_LEN /\ Handler(kept, pos + n)
      \/ Fail("CHUNK_LEN")
      \/ Handler(done, pos + n - (Len(tmp) - q))
  BY <1>2 DEF GivenBack, ReadChunkHd
<1>4. len \in Int
  <2> HIDE DEF line
  <2>1. PICK m \in Int : m = q - 2
    OBVIOUS
  <2>2. \A i \in 1 .. m : tmp[i] \in Chars
    <3>1. 1 .. m \subseteq 1 .. Len(tmp)
      BY <1>2, <2>1
    <3> QED BY <3>1, ElementOfSeq
  <2>3. SubSeq(tmp, 1, m) \in Seq(Chars)
    BY <2>2, SubSeqProperties
  <2>4. ChunkLen(SubSeq(tmp, 1, q - 2)) \in Int
    BY <2>1, <2>3, ChunkLenType
  <2> QED BY <2>4
<1> HIDE DEF len
<1>5. CASE ~line /\ Len(tmp) < MAX_CHUNK_HD_LEN /\ Handler(kept, pos + n)
  <2>1. kept \in Ctxs /\ CtxInv(kept)
    <3>1. Feeds(tmp) = {} /\ Len(tmp) \in Int
      BY <1>2, <1>5
    <3> QED BY <1>1, <1>5, <3>1, ReadsOnInv
  <2>2. pos + n \in Nat /\ pos <= pos + n /\ pos + n <= upto
    BY <1>1, <1>2
  <2> HIDE DEF kept
  <2>3. IInv'
    BY <1>1, <1>5, <2>1, <2>2, HandlerInv
  <2> QED BY <1>1, <1>5, <2>2, <2>3 DEF Handler, Turn
<1>6. CASE Fail("CHUNK_LEN")
  <2>1. "CHUNK_LEN" \in Errs
    BY DEF Errs
  <2> QED BY <1>1, <1>6, <2>1, FailInv DEF Fail, Handler, Turn
<1>7. CASE Handler(done, pos + n - (Len(tmp) - q))
  <2>1. wrapped \in Int
    <3>1. PICK k \in Int : k = ctx.m_content_len + len
      BY <1>1, <1>4 DEF Ctxs
    <3> QED BY <3>1, ParserAssumption DEF Wrap
  <2>2. next \in {"PREPARE_CHUNK", "CHUNK_TAIL"}
    OBVIOUS
  <2> HIDE DEF next, wrapped
  <2>3. done \in Ctxs /\ CtxInv(done)
    BY <1>1, <2>1, <2>2, ChunkBeginsInv
  <2>4. PICK p \in Nat : p = pos + n - (Len(tmp) - q) /\ pos <= p /\ p <= upto
    <3>1. /\ pos + n - (Len(tmp) - q) \in Nat /\ pos <= pos + n - (Len(tmp) - q)
          /\ pos + n - (Len(tmp) - q) <= upto
      BY <1>1, <1>2, GivesBack
    <3> QED BY <3>1
  <2> HIDE DEF done
  <2>5. Handler(done, p)
    BY <1>7, <2>4
  <2>6. IInv'
    BY <1>1, <2>3, <2>4, <2>5, HandlerInv
  <2> QED BY <1>1, <2>4, <2>5, <2>6 DEF Handler, Turn
<1> QED BY <1>3, <1>5, <1>6, <1>7

LEMMA ReadCRLFStep ==
  ASSUME IInv, NEW stat \in {"CHUNK_CRLF", "CHUNK_TAIL"}, NEW next \in {"CHUNK_HD", "COMPLETED"},
         ReadCRLF(stat, next)
  PROVE  IInv' /\ pos' >= pos
<1>1. /\ parsing /\ ctx \in Ctxs /\ CtxInv(ctx) /\ pos < upto /\ pos \in Nat /\ upto \in Nat
      /\ ctx.m_rd_stat = stat
  BY DEF IInv, TypeOK, PosInv, ReadCRLF, At
<1>2. PICK p \in Nat : p = pos + 1 /\ p <= upto /\ p >= pos
  BY <1>1
<1>3. \/ Fail("CHUNK_BODY")
      \/ Handler([ctx EXCEPT !.m_rd_len = 1], p)
      \/ Handler([ctx EXCEPT !.m_rd_len = 0, !.m_rd_stat = next], p)
  BY <1>2 DEF ReadCRLF
<1>4. CASE Fail("CHUNK_BODY")
  <2>1. "CHUNK_BODY" \in Errs
    BY DEF Errs
  <2> QED BY <1>1, <1>4, <2>1, FailInv DEF Fail, Handler, Turn
<1>5. CASE Handler([ctx EXCEPT !.m_rd_len = 1], p)
  <2>0. PICK one \in Int : one = 1
    OBVIOUS
  <2> DEFINE c == [ctx EXCEPT !.m_rd_len = one, !.m_rd_stat = stat]
  <2>1. c = [ctx EXCEPT !.m_rd_len = 1]
    BY <1>1, <2>0 DEF Ctxs
  <2>2. c \in Ctxs /\ CtxInv(c)
    <3>1. ctx.m_rd_stat \in {"CHUNK_CRLF", "CHUNK_TAIL"}
      BY <1>1
    <3>2. stat # "CHUNK_HD" /\ stat \in {"CHUNK_CRLF", "CHUNK_TAIL", "CHUNK_HD", "COMPLETED"}
      OBVIOUS
    <3> QED BY <1>1, <2>0, <3>1, <3>2, CRLFInv
  <2> HIDE DEF c
  <2>3. IInv'
    BY <1>1, <1>2, <1>5, <2>1, <2>2, HandlerInv
  <2> QED BY <1>2, <1>5, <2>3 DEF Handler, Turn
<1>6. CASE Handler([ctx EXCEPT !.m_rd_len = 0, !.m_rd_stat = next], p)
  <2>0. PICK zero \in Int : zero = 0
    OBVIOUS
  <2> DEFINE c == [ctx EXCEPT !.m_rd_len = zero, !.m_rd_stat = next]
  <2>1. c \in Ctxs /\ CtxInv(c)
    <3>1. ctx.m_rd_stat \in {"CHUNK_CRLF", "CHUNK_TAIL"}
      BY <1>1
    <3>2. next \in {"CHUNK_CRLF", "CHUNK_TAIL", "CHUNK_HD", "COMPLETED"}
      OBVIOUS
    <3> QED BY <1>1, <2>0, <3>1, <3>2, CRLFInv
  <2> HIDE DEF c
  <2>2. Handler(c, p)
    BY <1>6, <2>0 DEF c
  <2>3. IInv'
    BY <1>1, <1>2, <2>1, <2>2, HandlerInv
  <2> QED BY <1>2, <2>2, <2>3 DEF Handler, Turn
<1> QED BY <1>3, <1>4, <1>5, <1>6

-------------------------------------------------------------------------------
(* Dispatching                                                               *)

\* A context that a dispatched frame leaves: the frame counter and, unless it is
\* reset, a body that is empty.
LEMMA NumberedInv ==
  ASSUME NEW c \in Ctxs, CtxInv(c), NEW n \in Nat
  PROVE  /\ [c EXCEPT !.m_seq = n] \in Ctxs /\ CtxInv([c EXCEPT !.m_seq = n])
         /\ \A err \in Errs : LET d == [c EXCEPT !.m_seq = n, !.m_err_code = err]
                              IN d \in Ctxs /\ CtxInv(d)
  BY DEF Ctxs, CtxInv

LEMMA NextFrameType ==
  ASSUME NEW c \in Ctxs
  PROVE  \A beg \in Int, len \in Int, body \in Seq(Chars), stat \in Stats :
           [c EXCEPT !.m_frame_beg = beg, !.m_rd_len = len, !.m_body = body,
                     !.m_rd_stat = stat] \in Ctxs
  BY DEF Ctxs

LEMMA NextFrameInv ==
  ASSUME IInv, ctx.m_rd_stat \in {"FRAME_COMPLETED", "CHUNK_COMPLETED"},
         NEW stat \in {"PREPARE_BODY", "PREPARE_CHUNK"}
  PROVE  NextFrame(stat) \in Ctxs /\ CtxInv(NextFrame(stat))
<1>1. ctx \in Ctxs /\ CtxInv(ctx)
  BY DEF IInv, TypeOK
<1>2. PICK e \in Seq(Chars) : e = <<>> /\ Len(e) = 0
  BY EmptySeq
<1>3. PICK zero \in Int, beg \in Int : zero = 0 /\ beg = ctx.m_frame_beg + Len(ctx.m_body)
  <2>1. ctx.m_frame_beg \in Int /\ ctx.m_body \in Seq(Chars)
    BY <1>1 DEF Ctxs
  <2>2. Len(ctx.m_body) \in Int
    BY <2>1, LenProperties
  <2> QED BY <2>1, <2>2
<1>4. stat \in Stats /\ stat \notin {"HTTP_HD", "POST_HD", "CHUNK_HD", "CONTENT", "CHUNK_BODY"}
  BY DEF Stats
<1> DEFINE d == [ctx EXCEPT !.m_frame_beg = beg, !.m_rd_len = zero, !.m_body = e,
                            !.m_rd_stat = stat]
<1>5. d \in Ctxs
  BY <1>1, <1>4, NextFrameType
<1>6. CtxInv(d)
  <2>1. /\ d.m_body = e /\ d.m_rd_len = zero /\ d.m_rd_stat = stat
        /\ d.m_ranges = ctx.m_ranges /\ d.m_head = ctx.m_head /\ d.m_tmp = ctx.m_tmp
    BY <1>1 DEF Ctxs
  <2> HIDE DEF d
  <2>2. ctx.m_tmp = <<>> /\ ctx.m_rd_stat # "CHUNK_HD"
    BY <1>1 DEF CtxInv
  <2>3. Len(d.m_body) <= MAX_BODY_SIZE
    <3>1. Len(d.m_body) = 0
      BY <1>2, <2>1
    <3> QED BY <3>1, StreamAssumption
  <2> QED BY <1>1, <1>4, <2>1, <2>2, <2>3 DEF CtxInv
<1>7. NextFrame(stat) = d
  BY <1>2, <1>3 DEF NextFrame
<1> QED BY <1>5, <1>6, <1>7

LEMMA DispatchInv ==
  ASSUME IInv, parsing, NEW isEnd, NEW c \in Ctxs, CtxInv(c), Dispatch(isEnd, c)
  PROVE  IInv' /\ pos' = pos
<1>1. ctx \in Ctxs /\ CtxInv(ctx) /\ PosInv /\ TypeOK
  BY DEF IInv, TypeOK
<1>2. PICK n \in Nat : n = ctx.m_seq + 1
  BY <1>1 DEF Ctxs
<1>3. "DISPATCH" \in Errs
  BY DEF Errs
<1>4. \/ ctx' = [c EXCEPT !.m_seq = n]
      \/ ctx' = [ctx EXCEPT !.m_seq = n, !.m_err_code = "DISPATCH"]
  BY <1>2 DEF Dispatch
<1>5. ctx' \in Ctxs /\ CtxInv(ctx')
  <2>1. CASE ctx' = [c EXCEPT !.m_seq = n]
    BY <2>1, NumberedInv
  <2>2. CASE ctx' = [ctx EXCEPT !.m_seq = n, !.m_err_code = "DISPATCH"]
    <3>1. LET d == [ctx EXCEPT !.m_seq = n, !.m_err_code = "DISPATCH"]
          IN d \in Ctxs /\ CtxInv(d)
      BY <1>1, <1>3, NumberedInv
    <3> QED BY <2>2, <3>1
  <2> QED BY <1>4, <2>1, <2>2
<1>6. plan' = plan /\ pos' = pos /\ upto' = upto /\ parsing' = parsing
  BY DEF Dispatch, token
<1>7. TypeOK'
  BY <1>1, <1>5, <1>6 DEF TypeOK
<1>8. PosInv'
  BY <1>1, <1>6 DEF PosInv
<1>9. CtxInv(ctx)'
  BY <1>5 DEF CtxInv
<1> QED BY <1>6, <1>7, <1>8, <1>9 DEF IInv

LEMMA CompleteStep ==
  ASSUME IInv, CompleteFrame \/ CompleteChunk \/ CompleteMsg
  PROVE  IInv' /\ pos' = pos
<1>1. CASE CompleteFrame
  <2>1. /\ parsing /\ ctx.m_rd_stat \in {"FRAME_COMPLETED", "CHUNK_COMPLETED"}
        /\ Dispatch(FALSE, NextFrame("PREPARE_BODY"))
    BY <1>1 DEF CompleteFrame, At
  <2>2. NextFrame("PREPARE_BODY") \in Ctxs /\ CtxInv(NextFrame("PREPARE_BODY"))
    BY <2>1, NextFrameInv
  <2> QED BY <2>1, <2>2, DispatchInv
<1>2. CASE CompleteChunk
  <2>1. /\ parsing /\ ctx.m_rd_stat \in {"FRAME_COMPLETED", "CHUNK_COMPLETED"}
        /\ Dispatch(FALSE, NextFrame("PREPARE_CHUNK"))
    BY <1>2 DEF CompleteChunk, At
  <2>2. NextFrame("PREPARE_CHUNK") \in Ctxs /\ CtxInv(NextFrame("PREPARE_CHUNK"))
    BY <2>1, NextFrameInv
  <2> QED BY <2>1, <2>2, DispatchInv
<1>3. CASE CompleteMsg
  <2>1. parsing /\ Dispatch(TRUE, Ctx)
    BY <1>3 DEF CompleteMsg, At
  <2> QED BY <2>1, FreshCtx, DispatchInv
<1> QED BY <1>1, <1>2, <1>3

-------------------------------------------------------------------------------
(* The loop                                                                  *)

\* The next fragment, where the last one was read to its end.
LEMMA ReceiveStep == ASSUME IInv, Receive PROVE IInv' /\ pos' >= pos
<1>1. TypeOK /\ PosInv /\ CtxInv(ctx)
  BY DEF IInv
<1>2. PICK n \in upto + 1 .. Len(plan.chars) : upto' = n
  BY DEF Receive
<1>3. Len(plan.chars) \in Nat
  BY <1>1, LenProperties DEF TypeOK
<1>4. pos' = upto /\ parsing' = TRUE /\ plan' = plan /\ ctx' = ctx
  BY DEF Receive
<1>5. upto' \in Nat /\ pos' <= upto' /\ upto' <= Len(plan'.chars) /\ pos' >= pos /\ pos' \in Nat
  BY <1>1, <1>2, <1>3, <1>4 DEF TypeOK, PosInv
<1>6. TypeOK'
  BY <1>1, <1>4, <1>5 DEF TypeOK
<1>7. PosInv'
  BY <1>4, <1>5 DEF PosInv
<1>8. CtxInv(ctx)'
  BY <1>1, <1>4 DEF CtxInv
<1> QED BY <1>5, <1>6, <1>7, <1>8 DEF IInv

\* parseData returns when nothing is left of the fragment.
LEMMA ReturnStep == ASSUME IInv, Return PROVE IInv' /\ pos' = pos
<1>1. TypeOK /\ PosInv /\ CtxInv(ctx)
  BY DEF IInv
<1>2. /\ ctx.m_err_code # "none" \/ pos = upto
      /\ parsing' = FALSE /\ plan' = plan /\ pos' = pos /\ upto' = upto /\ ctx' = ctx
  BY DEF Return, token
<1>3. TypeOK'
  BY <1>1, <1>2 DEF TypeOK
<1>4. PosInv'
  BY <1>1, <1>2 DEF PosInv
<1>5. CtxInv(ctx)'
  BY <1>1, <1>2 DEF CtxInv
<1> QED BY <1>2, <1>3, <1>4, <1>5 DEF IInv

LEMMA NextInv == IInv /\ [Next]_vars => IInv' /\ (pos' >= pos)
<1> SUFFICES ASSUME IInv, [Next]_vars PROVE IInv' /\ pos' >= pos
  OBVIOUS
<1>1. pos \in Nat
  BY DEF IInv, TypeOK
<1>2. CASE Receive
  BY <1>2, ReceiveStep
<1>3. CASE Return
  BY <1>1, <1>3, ReturnStep
<1>4. CASE ReadHead
  BY <1>4, ReadHeadStep
<1>5. CASE ReadPostHd
  BY <1>1, <1>5, ReadPostHdStep
<1>6. CASE PrepareBody
  BY <1>1, <1>6, PrepareBodyStep
<1>7. CASE ReadBody
  BY <1>7, ReadBodyStep
<1>8. CASE CompleteFrame \/ CompleteChunk \/ CompleteMsg
  BY <1>1, <1>8, CompleteStep
<1>9. CASE ReadChunkHd
  BY <1>9, ReadChunkHdStep
<1>10. CASE PrepareChunk
  BY <1>1, <1>10, PrepareChunkStep
<1>11. CASE ReadChunk
  BY <1>11, ReadChunkStep
<1>12. CASE ReadChunkCRLF \/ ReadChunkTail
  BY <1>12, ReadCRLFStep DEF ReadChunkCRLF, ReadChunkTail
<1>13. CASE UNCHANGED vars
  <2>1. plan' = plan /\ pos' = pos /\ upto' = upto /\ parsing' = parsing /\ ctx' = ctx
    BY <1>13 DEF vars, token
  <2> QED BY <1>1, <2>1 DEF IInv, TypeOK, PosInv, CtxInv
<1> QED BY <1>2, <1>3, <1>4, <1>5, <1>6, <1>7, <1>8, <1>9, <1>10, <1>11, <1>12, <1>13
        DEF Next, ParseData

-------------------------------------------------------------------------------
(* The array lines                                                           *)

\* Lines that are no end of the head, up to one of them that is within the limits,
\* have room in the array.
LEMMA LinesFit ==
  ASSUME NEW h \in Seq(Chars), NEW b \in Feeds(h), IsValidHead(h, b),
         NEW S, S \subseteq {l \in Feeds(h) : l <= b}
  PROVE  Cardinality(S) \in Nat /\ Cardinality(S) < MAX_LINE_CNT
<1> DEFINE B == {l \in Feeds(h) : l <= b}
<1>1. S \subseteq Feeds(h) /\ B \subseteq Feeds(h) /\ S \in SUBSET B
  OBVIOUS
<1>2. /\ Cardinality(S) \in Nat /\ Cardinality(B) \in Nat /\ IsFiniteSet(B)
  BY <1>1, FeedsType
<1>3. Cardinality(S) <= Cardinality(B)
  BY <1>1, <1>2, FS_Subset
<1>4. MAX_LINE_CNT > Cardinality(B)
  BY DEF IsValidHead, Lines
<1> HIDE DEF B
<1> QED BY <1>2, <1>3, <1>4, ParserAssumption

\* A set of lines that are all within the limits has room in the array.
LEMMA AllFit ==
  ASSUME NEW h \in Seq(Chars), NEW S, S \subseteq Feeds(h), \A l \in S : IsValidHead(h, l)
  PROVE  Cardinality(S) \in Nat /\ Cardinality(S) < MAX_LINE_CNT
<1>1. CASE S = {}
  <2>1. Cardinality(S) = 0
    BY <1>1, FS_EmptySet
  <2> QED BY <2>1, ParserAssumption
<1>2. CASE S # {}
  <2>1. Len(h) \in Nat /\ \A l \in Feeds(h) : l \in Nat /\ l \in 0 .. Len(h)
    BY FeedsType, FeedsAre
  <2>2. S \subseteq 0 .. Len(h)
    BY <2>1
  <2>3. PICK b \in S : \A l \in S : b >= l
    BY <1>2, <2>1, <2>2, MaxIs
  <2>4. b \in Feeds(h) /\ b \in Nat /\ \A l \in S : l \in Feeds(h) /\ l \in Nat
    BY <2>1
  <2>5. S \subseteq {l \in Feeds(h) : l <= b}
    BY <2>3, <2>4
  <2> QED BY <2>4, <2>5, LinesFit
<1> QED BY <1>1, <1>2

\* What readHead writes is within the array, but for the last line of a head that is
\* refused.
LEMMA LineNoIs ==
  ASSUME NEW h \in Seq(Chars), NEW old \in Nat, NEW q \in Nat,
         \A l \in Stops(h, old) : q <= l
  PROVE  /\ LineNo(h, old, q) \in Nat /\ LineNo(h, old, q) <= MAX_LINE_CNT
         /\ LineNo(h, old, q) = MAX_LINE_CNT =>
              /\ q \in Stops(h, old) /\ ~Bare(h, q) /\ ~Empty(h, q)
              /\ ~IsValidHead(h, q)
<1> DEFINE D == {l \in Completed(h, old, q) : ~Bare(h, l)}
           before == D \ {q}
<1>1. \A l \in D : /\ l \in Feeds(h) /\ l \in Nat /\ old < l /\ l <= q
                   /\ ~Bare(h, l) /\ ~Empty(h, l)
  BY FeedsAre DEF Completed
<1>2. \A l \in before : IsValidHead(h, l)
  <2> SUFFICES ASSUME NEW l \in before PROVE IsValidHead(h, l)
    OBVIOUS
  <2>1. l \in Feeds(h) /\ l \in Nat /\ old < l /\ l < q /\ ~Bare(h, l) /\ ~Empty(h, l)
    BY <1>1
  <2>2. l \notin Stops(h, old)
    BY <2>1
  <2> QED BY <2>1, <2>2 DEF Stops
<1>3. LineNo(h, old, q) = Cardinality(D)
  BY DEF LineNo
<1>4. D \subseteq Feeds(h) /\ before \subseteq Feeds(h)
  BY <1>1
<1>5. Cardinality(before) \in Nat /\ Cardinality(before) < MAX_LINE_CNT
  <2> HIDE DEF before
  <2> QED BY <1>2, <1>4, AllFit
<1>6. CASE q \notin D
  <2>1. before = D
    BY <1>6
  <2> HIDE DEF D, before
  <2> QED BY <1>3, <1>5, <2>1, ParserAssumption
<1>7. CASE q \in D
  <2>1. IsFiniteSet(before)
    BY <1>4, FeedsType
  <2>2. D = before \cup {q} /\ q \notin before
    BY <1>7
  <2>3. Cardinality(D) = Cardinality(before) + 1
    <3> HIDE DEF D, before
    <3> QED BY <2>1, <2>2, FS_AddElement
  <2>4. Cardinality(D) \in Nat /\ Cardinality(D) <= MAX_LINE_CNT
    <3> HIDE DEF D, before
    <3> QED BY <1>5, <2>3, ParserAssumption
  <2>5. CASE IsValidHead(h, q)
    <3>1. \A l \in D : IsValidHead(h, l)
      BY <1>2, <2>5
    <3>2. Cardinality(D) < MAX_LINE_CNT
      <4> HIDE DEF D
      <4> QED BY <1>4, <3>1, AllFit
    <3> HIDE DEF D
    <3> QED BY <1>3, <2>4, <3>2, ParserAssumption
  <2>6. CASE ~IsValidHead(h, q)
    <3>1. q \in Stops(h, old) /\ ~Bare(h, q) /\ ~Empty(h, q)
      BY <1>1, <1>7, <2>6 DEF Stops
    <3> HIDE DEF D
    <3> QED BY <1>3, <2>4, <2>6, <3>1
  <2> QED BY <2>5, <2>6
<1> QED BY <1>6, <1>7

LEMMA ReadHeadLines == ASSUME IInv, ReadHead PROVE LinesInv'
<1>1. /\ ctx \in Ctxs /\ pos < upto /\ pos \in Nat /\ upto \in Nat
      /\ ctx.m_head \in Seq(Chars)
  BY DEF IInv, TypeOK, Ctxs, ReadHead, At
<1>2. PICK h, q :
        /\ h = ctx.m_head \o Rest /\ q = UpTo(h, Len(ctx.m_head))
        /\ lines' = LineNo(h, Len(ctx.m_head), q)
        /\ q \in Stops(h, Len(ctx.m_head)) /\ ~Bare(h, q) /\ ~Empty(h, q) /\ ~IsValidHead(h, q)
             => ctx' = Failed("HD")
  BY DEF ReadHead, Turn
<1> DEFINE old == Len(ctx.m_head)
<1>3. Rest \in Seq(Chars) /\ Len(Rest) = upto - pos
  BY RestIs DEF IInv
<1>4. h \in Seq(Chars) /\ Len(h) \in Nat /\ old \in Nat /\ old < Len(h)
  <2>1. old \in Nat /\ h \in Seq(Chars) /\ Len(h) = old + Len(Rest)
    BY <1>1, <1>2, <1>3, LenProperties, ConcatProperties
  <2> QED BY <1>1, <1>3, <2>1
<1>5. q \in Nat /\ \A l \in Stops(h, old) : q <= l
  <2>1. q \in old + 1 .. Len(h) /\ \A l \in Stops(h, old) : q <= l
    BY <1>2, <1>4, UpToIs
  <2> QED BY <1>4, <2>1
<1>6. /\ lines' \in Nat /\ lines' <= MAX_LINE_CNT
      /\ lines' = MAX_LINE_CNT => ctx' = Failed("HD")
  BY <1>2, <1>4, <1>5, LineNoIs
<1>7. Failed("HD").m_err_code = "HD"
  BY <1>1 DEF Failed, Ctxs
<1> QED BY <1>6, <1>7 DEF LinesInv

\* No other handler touches the array, and none runs behind an error.
LEMMA LinesNext == IInv /\ LinesInv /\ [Next]_vars => LinesInv'
<1> SUFFICES ASSUME IInv, LinesInv, [Next]_vars PROVE LinesInv'
  OBVIOUS
<1>1. CASE ReadHead
  BY <1>1, ReadHeadLines
<1>2. CASE Receive \/ Return \/ UNCHANGED vars
  <2>1. lines' = lines /\ ctx' = ctx
    BY <1>2 DEF Receive, Return, vars
  <2> QED BY <2>1 DEF LinesInv
<1>3. ASSUME lines' = lines, ctx.m_err_code = "none" PROVE LinesInv'
  <2>1. lines' \in Nat /\ lines' < MAX_LINE_CNT
    BY <1>3, ParserAssumption DEF LinesInv
  <2> QED BY <2>1, ParserAssumption DEF LinesInv
<1>4. CASE ReadPostHd \/ PrepareBody \/ ReadBody \/ ReadChunkHd
  <2>1. lines' = lines /\ ctx.m_err_code = "none"
    BY <1>4 DEF ReadPostHd, PrepareBody, ReadBody, ReadChunkHd, At, Handler, Fail
  <2> QED BY <1>3, <2>1
<1>5. CASE PrepareChunk \/ ReadChunk \/ ReadChunkCRLF \/ ReadChunkTail
  <2>1. lines' = lines /\ ctx.m_err_code = "none"
    BY <1>5 DEF PrepareChunk, ReadChunk, ReadChunkCRLF, ReadChunkTail, ReadCRLF,
                At, Handler, Fail
  <2> QED BY <1>3, <2>1
<1>6. CASE CompleteFrame \/ CompleteChunk \/ CompleteMsg
  <2>1. lines' = lines /\ ctx.m_err_code = "none"
    BY <1>6 DEF CompleteFrame, CompleteChunk, CompleteMsg, Dispatch, At
  <2> QED BY <1>3, <2>1
<1> QED BY <1>1, <1>2, <1>4, <1>5, <1>6 DEF Next, ParseData

\* Whatever arrives, well-formed or not and cut anywhere, the context keeps within its
\* limits, and m_rd_len is what the state says it is, through every state of the parser.
THEOREM Invariance == Spec => []IInv
<1>1. Init => IInv
  BY InitInv
<1>2. IInv /\ [Next]_vars => IInv'
  BY NextInv
<1> QED BY <1>1, <1>2, PTL DEF Spec

\* BuffersKept: what HttpTool keeps from one fragment to the next fits m_ranges, m_tmp,
\* and the limits on a head and on the body of a frame, nothing is read beyond the fragment,
\* and nothing of it is left when parseData returns without an error.  The array lines of
\* readHead (httptool.cpp:283) is exceeded: by one place at most, and only in the call
\* that refuses the head, after which nothing of the connection is read any more.
THEOREM BuffersAreKept == Spec => []BuffersKept
<1>1. Init => LinesInv
  BY ParserAssumption DEF Init, LinesInv
<1>2. IInv /\ LinesInv /\ [Next]_vars => LinesInv'
  BY LinesNext
<1> QED BY <1>1, <1>2, Invariance, InvBuffers, PTL DEF Spec

\* NeverBack: what readChunkHd gives back is from this fragment, so that no byte is read
\* twice and no step of the loop moves the fragment back.
THEOREM NeverGoesBack == Spec => NeverBack
<1>1. IInv /\ [Next]_vars => [pos' >= pos]_vars
  BY NextInv
<1> QED BY <1>1, Invariance, PTL DEF Spec, NeverBack
===============================================================================
