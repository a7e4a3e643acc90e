---------------------------- MODULE HttpEcho_proofs ----------------------------
(***************************************************************************)
(* Proofs about HttpEcho: the count of every cache is that of its users,   *)
(* for any number of connections, any requests and any load, whoever gives *)
(* a text up last and whenever a connection ends.  From that, since a      *)
(* cache with users keeps its text: whose reply is whose, when a           *)
(* connection is closed, that each request has its one place on the way to *)
(* its reply, and that HttpCli keeps as many under way as it began with.   *)
(***************************************************************************)
EXTENDS HttpEcho, FiniteSetTheorems, SequenceTheorems, WellFoundedInduction, TLAPS

-------------------------------------------------------------------------------
(* Counting positions                                                        *)

\* The positions of a set up to n, and m of those behind, counted from there.
Low(S, n) == {k \in S : k <= n}
High(S, n, m) == {k \in 1 .. m : n + k \in S}

LEMMA SplitCount ==
  ASSUME NEW n \in Nat, NEW m \in Nat, NEW S, S \subseteq 1 .. n + m
  PROVE  /\ IsFiniteSet(S)
         /\ Cardinality(S) \in Nat /\ Cardinality(Low(S, n)) \in Nat
         /\ Cardinality(High(S, n, m)) \in Nat
         /\ Cardinality(S) = Cardinality(Low(S, n)) + Cardinality(High(S, n, m))
<1>0. PICK A, B, C : A = Low(S, n) /\ B = High(S, n, m) /\ C = {k \in S : ~(k <= n)}
  OBVIOUS
<1>1. IsFiniteSet(S) /\ IsFiniteSet(A) /\ IsFiniteSet(B) /\ IsFiniteSet(C)
  <2>1. IsFiniteSet(1 .. n + m) /\ IsFiniteSet(1 .. m)
    BY FS_Interval
  <2>2. S \in SUBSET (1 .. n + m) /\ B \in SUBSET (1 .. m)
    BY <1>0 DEF High
  <2>3. IsFiniteSet(S) /\ IsFiniteSet(B)
    BY <2>1, <2>2, FS_Subset
  <2>4. A \in SUBSET S /\ C \in SUBSET S
    BY <1>0 DEF Low
  <2> QED BY <2>3, <2>4, FS_Subset
<1>2. Cardinality(A \cap C) = 0 /\ A \cup C = S
  <2>1. A \cap C = {} /\ A \cup C = S
    BY <1>0 DEF Low
  <2> QED BY <2>1, FS_EmptySet
<1>3. Cardinality(B) = Cardinality(C)
  <2>1. \A k \in B : k \in Nat /\ n + k \in C
    BY <1>0 DEF High
  <2>2. \A c \in C : \E k \in B : c = n + k
    <3> SUFFICES ASSUME NEW c \in C PROVE \E k \in B : c = n + k
      OBVIOUS
    <3>1. c \in 1 .. n + m /\ c \in S /\ ~(c <= n)
      BY <1>0
    <3>2. PICK k \in 1 .. m : n + k = c
      BY <3>1
    <3> QED BY <1>0, <3>1, <3>2 DEF High
  <2>3. \A j, k \in B : n + j = n + k => j = k
    BY <2>1
  <2>4. PICK f \in [B -> C] : \A k \in B : f[k] = n + k
    <3>1. [k \in B |-> n + k] \in [B -> C]
      BY <2>1
    <3> QED BY <3>1
  <2>5. f \in Injection(B, C)
    BY <2>3, <2>4 DEF Injection, IsInjective
  <2>6. f \in Surjection(B, C)
    BY <2>2, <2>4 DEF Surjection
  <2>7. ExistsBijection(B, C)
    BY <2>5, <2>6 DEF ExistsBijection, Bijection
  <2> QED BY <1>1, <2>7, FS_Bijection
<1>4. PICK s \in Nat, a \in Nat, c \in Nat :
        s = Cardinality(S) /\ a = Cardinality(A) /\ c = Cardinality(C)
  BY <1>1, FS_CardinalityType
<1>5. s = a + c
  <2>1. Cardinality(A \cup C) = Cardinality(A) + Cardinality(C) - Cardinality(A \cap C)
    BY <1>1, FS_Union
  <2> QED BY <1>2, <1>4, <2>1
<1> QED BY <1>0, <1>1, <1>3, <1>4, <1>5

Is(a, i) == IF a = i THEN 1 ELSE 0

LEMMA IsType == ASSUME NEW a, NEW i PROVE Is(a, i) \in Nat
  BY DEF Is

\* A position that is added.
LEMMA AppendCount ==
  ASSUME NEW n \in Nat, NEW S, S \subseteq 1 .. n + 1
  PROVE  /\ Cardinality(S) \in Nat /\ Cardinality(Low(S, n)) \in Nat
         /\ Cardinality(S) = Cardinality(Low(S, n)) + (IF n + 1 \in S THEN 1 ELSE 0)
<1>1. PICK m \in Nat : m = 1
  OBVIOUS
<1>2. /\ Cardinality(S) \in Nat /\ Cardinality(Low(S, n)) \in Nat
      /\ Cardinality(S) = Cardinality(Low(S, n)) + Cardinality(High(S, n, m))
  BY <1>1, SplitCount
<1>3. High(S, n, m) = IF n + 1 \in S THEN {1} ELSE {}
  BY <1>1 DEF High
<1>4. Cardinality({1}) = 1 /\ Cardinality({}) = 0
  BY FS_Singleton, FS_EmptySet
<1> QED BY <1>2, <1>3, <1>4

\* The first position is taken away.
LEMMA TailCount ==
  ASSUME NEW n \in Nat, NEW S, S \subseteq 1 .. 1 + n
  PROVE  /\ Cardinality(S) \in Nat /\ Cardinality(High(S, 1, n)) \in Nat
         /\ Cardinality(S) = (IF 1 \in S THEN 1 ELSE 0) + Cardinality(High(S, 1, n))
<1>1. PICK m \in Nat : m = 1
  OBVIOUS
<1>2. /\ Cardinality(S) \in Nat /\ Cardinality(High(S, m, n)) \in Nat
      /\ Cardinality(S) = Cardinality(Low(S, m)) + Cardinality(High(S, m, n))
  BY <1>1, SplitCount
<1>3. Low(S, m) = IF 1 \in S THEN {1} ELSE {}
  <2>1. \A k \in S : k <= 1 <=> k = 1
    OBVIOUS
  <2> QED BY <1>1, <2>1 DEF Low
<1>4. Cardinality({1}) = 1 /\ Cardinality({}) = 0
  BY FS_Singleton, FS_EmptySet
<1> QED BY <1>1, <1>2, <1>3, <1>4

\* How often a cache is in one sequence and another.
LEMMA CountConcat ==
  ASSUME NEW s \in Seq(Nat), NEW t \in Seq(Nat), NEW i
  PROVE  /\ Count(s, i) \in Nat /\ Count(t, i) \in Nat
         /\ Count(s \o t, i) = Count(s, i) + Count(t, i)
<1>1. PICK n \in Nat, m \in Nat : /\ n = Len(s) /\ m = Len(t)
                                  /\ DOMAIN s = 1 .. n /\ DOMAIN t = 1 .. m
  BY LenProperties
<1>2. PICK u \in Seq(Nat) : u = s \o t
  BY ConcatProperties
<1>3. \A k \in 1 .. n + m : u[k] = IF k <= n THEN s[k] ELSE t[k - n]
  BY <1>1, <1>2, ConcatProperties
<1>4. DOMAIN u = 1 .. n + m
  <2>1. Len(u) = n + m
    BY <1>1, <1>2, ConcatProperties
  <2> QED BY <2>1, LenProperties
<1>5. PICK S : S = {k \in 1 .. n + m : u[k] = i}
  OBVIOUS
<1>6. Low(S, n) = {k \in 1 .. n : s[k] = i}
  BY <1>3, <1>5 DEF Low
<1>7. High(S, n, m) = {k \in 1 .. m : t[k] = i}
  <2>1. \A k \in 1 .. m : n + k \in 1 .. n + m /\ ~(n + k <= n) /\ (n + k) - n = k
    OBVIOUS
  <2>2. \A k \in 1 .. m : u[n + k] = t[k]
    BY <1>3, <2>1
  <2> QED BY <1>5, <2>1, <2>2 DEF High
<1>8. Count(u, i) = Cardinality(S) /\ Count(s, i) = Cardinality(Low(S, n))
        /\ Count(t, i) = Cardinality(High(S, n, m))
  BY <1>1, <1>4, <1>5, <1>6, <1>7 DEF Count
<1>9. /\ Cardinality(Low(S, n)) \in Nat /\ Cardinality(High(S, n, m)) \in Nat
      /\ Cardinality(S) = Cardinality(Low(S, n)) + Cardinality(High(S, n, m))
  <2>1. S \subseteq 1 .. n + m
    BY <1>5
  <2> QED BY <2>1, SplitCount
<1> QED BY <1>2, <1>8, <1>9

\* And in sequences that are written down.
LEMMA CountSingle == ASSUME NEW a, NEW i PROVE Count(<<a>>, i) = Is(a, i)
<1>1. DOMAIN <<a>> = 1 .. 1 /\ <<a>>[1] = a
  OBVIOUS
<1>2. {k \in DOMAIN <<a>> : <<a>>[k] = i} = IF a = i THEN {1} ELSE {}
  BY <1>1
<1>3. Cardinality({1}) = 1 /\ Cardinality({}) = 0
  BY FS_Singleton, FS_EmptySet
<1> QED BY <1>2, <1>3 DEF Count, Is

LEMMA CountPair == ASSUME NEW a, NEW b, NEW i
                   PROVE  Count(<<a, b>>, i) = Is(a, i) + Is(b, i)
<1>1. PICK p : p = <<a, b>> /\ DOMAIN p = 1 .. 2 /\ p[1] = a /\ p[2] = b
  <2>1. <<a, b>> \in Seq({a, b}) /\ Len(<<a, b>>) = 2
    OBVIOUS
  <2>2. DOMAIN <<a, b>> = 1 .. 2
    BY <2>1, LenProperties
  <2>3. <<a, b>>[1] = a /\ <<a, b>>[2] = b
    OBVIOUS
  <2> QED BY <2>2, <2>3
<1>0. PICK n \in Nat : n = 1
  OBVIOUS
<1>2. PICK S : S = {k \in 1 .. 2 : p[k] = i}
  OBVIOUS
<1>3. /\ Cardinality(Low(S, n)) \in Nat
      /\ Cardinality(S) = Cardinality(Low(S, n)) + (IF n + 1 \in S THEN 1 ELSE 0)
  <2>1. S \subseteq 1 .. n + 1
    BY <1>0, <1>2
  <2> QED BY <2>1, AppendCount
<1>4. n + 1 \in S <=> b = i
  BY <1>1, <1>0, <1>2
<1>5. Low(S, n) = IF a = i THEN {1} ELSE {}
  <2>1. \A k \in 1 .. 2 : k <= 1 <=> k = 1
    OBVIOUS
  <2> QED BY <1>1, <1>0, <1>2, <2>1 DEF Low
<1>6. Cardinality({1}) = 1 /\ Cardinality({}) = 0
  BY FS_Singleton, FS_EmptySet
<1>7. Count(p, i) = Cardinality(S)
  BY <1>1, <1>0, <1>2 DEF Count
<1>8. Cardinality(Low(S, n)) = Is(a, i)
  BY <1>5, <1>6 DEF Is
<1>9. (IF n + 1 \in S THEN 1 ELSE 0) = Is(b, i)
  BY <1>4 DEF Is
<1> QED BY <1>1, <1>3, <1>7, <1>8, <1>9

-------------------------------------------------------------------------------
(* The users of a cache                                                      *)

Maybe == 0 .. MaxCaches
Frames == [m_head : Id, m_body : Maybe, m_frame_beg : Int, m_is_end : BOOLEAN]
Outs == [hd : Texts, cache : Maybe]
Ctxs == [m_head : Maybe, m_body : Maybe, m_frame_beg : Int]

\* No frame holds one cache as its head and its body.
Apart(q) == \A k \in DOMAIN q : q[k].m_head # q[k].m_body

InQueue(q, i) == {n \in DOMAIN q : i \in {q[n].m_head, q[n].m_body}}
InOut(o, i) == {n \in DOMAIN o : o[n].cache = i}

\* What is at the positions of a queue.
Tagged(e, tag, S) == {<<e, tag, k>> : k \in S}

\* The users of an end with the context x, the frames q and the messages o, and how
\* many there are.
Uses(e, x, q, o, i) ==
  (IF x.m_head = i THEN {<<e, "head">>} ELSE {})
    \cup (IF x.m_body = i THEN {<<e, "body">>} ELSE {})
    \cup Tagged(e, "queue", InQueue(q, i))
    \cup Tagged(e, "out", InOut(o, i))
Holds(x, q, o, i) ==
  Is(x.m_head, i) + Is(x.m_body, i) + Cardinality(InQueue(q, i)) + Cardinality(InOut(o, i))

\* They are as many as the positions.
LEMMA TaggedCount ==
  ASSUME NEW e, NEW tag, NEW n \in Nat, NEW S, S \subseteq 1 .. n
  PROVE  /\ IsFiniteSet(Tagged(e, tag, S)) /\ Cardinality(S) \in Nat
         /\ Cardinality(Tagged(e, tag, S)) = Cardinality(S)
<1>0. PICK T : T = Tagged(e, tag, S)
  OBVIOUS
<1>1. IsFiniteSet(S) /\ Cardinality(S) \in Nat
  <2>1. IsFiniteSet(1 .. n)
    BY FS_Interval
  <2> QED BY <2>1, FS_Subset, FS_CardinalityType
<1>2. PICK f \in [S -> T] : \A k \in S : f[k] = <<e, tag, k>>
  <2>1. [k \in S |-> <<e, tag, k>>] \in [S -> T]
    BY <1>0 DEF Tagged
  <2> QED BY <2>1
<1>3. \A j, k : <<e, tag, j>> = <<e, tag, k>> => j = k
  OBVIOUS
<1>4. f \in Injection(S, T)
  BY <1>2, <1>3 DEF Injection, IsInjective
<1>5. f \in Surjection(S, T)
  BY <1>0, <1>2 DEF Surjection, Tagged
<1>6. ExistsBijection(S, T)
  BY <1>4, <1>5 DEF ExistsBijection, Bijection
<1> QED BY <1>0, <1>1, <1>6, FS_Bijection

\* Disjoint finite sets add up.
LEMMA AddCount ==
  ASSUME NEW A, NEW B, IsFiniteSet(A), IsFiniteSet(B), A \cap B = {}
  PROVE  /\ IsFiniteSet(A \cup B)
         /\ Cardinality(A) \in Nat /\ Cardinality(B) \in Nat
         /\ Cardinality(A \cup B) = Cardinality(A) + Cardinality(B)
<1>1. PICK a \in Nat, b \in Nat, c \in Nat :
        a = Cardinality(A) /\ b = Cardinality(B) /\ c = Cardinality(A \cup B)
  BY FS_CardinalityType, FS_Union
<1>2. Cardinality(A \cup B) = Cardinality(A) + Cardinality(B) - Cardinality(A \cap B)
  BY FS_Union
<1>3. Cardinality(A \cap B) = 0
  BY FS_EmptySet
<1>4. c = a + b
  BY <1>1, <1>2, <1>3
<1> QED BY <1>1, <1>4, FS_Union

LEMMA UsesCount ==
  ASSUME NEW e, NEW x \in Ctxs, NEW q \in Seq(Frames), NEW o \in Seq(Outs), NEW i
  PROVE  /\ IsFiniteSet(Uses(e, x, q, o, i)) /\ Holds(x, q, o, i) \in Nat
         /\ Cardinality(InQueue(q, i)) \in Nat /\ Cardinality(InOut(o, i)) \in Nat
         /\ Cardinality(Uses(e, x, q, o, i)) = Holds(x, q, o, i)
<1>1. PICK A : A = IF x.m_head = i THEN {<<e, "head">>} ELSE {}
  OBVIOUS
<1>2. PICK B : B = IF x.m_body = i THEN {<<e, "body">>} ELSE {}
  OBVIOUS
<1>3. PICK C : C = Tagged(e, "queue", InQueue(q, i))
  OBVIOUS
<1>4. PICK D : D = Tagged(e, "out", InOut(o, i))
  OBVIOUS
<1>5. IsFiniteSet(A) /\ Cardinality(A) = Is(x.m_head, i)
  BY <1>1, FS_Singleton, FS_EmptySet DEF Is
<1>6. IsFiniteSet(B) /\ Cardinality(B) = Is(x.m_body, i)
  BY <1>2, FS_Singleton, FS_EmptySet DEF Is
<1>7. /\ IsFiniteSet(C) /\ Cardinality(C) = Cardinality(InQueue(q, i))
      /\ Cardinality(InQueue(q, i)) \in Nat
  <2>1. PICK n \in Nat : InQueue(q, i) \subseteq 1 .. n
    BY LenProperties DEF InQueue
  <2> QED BY <1>3, <2>1, TaggedCount
<1>8. /\ IsFiniteSet(D) /\ Cardinality(D) = Cardinality(InOut(o, i))
      /\ Cardinality(InOut(o, i)) \in Nat
  <2>1. PICK n \in Nat : InOut(o, i) \subseteq 1 .. n
    BY LenProperties DEF InOut
  <2> QED BY <1>4, <2>1, TaggedCount
<1>9. /\ \A u \in A : u[2] = "head"
      /\ \A u \in B : u[2] = "body"
      /\ \A u \in C : u[2] = "queue"
      /\ \A u \in D : u[2] = "out"
  <2>1. (\A u \in A : u[2] = "head") /\ (\A u \in B : u[2] = "body")
    BY <1>1, <1>2
  <2>2. \A u \in C : u[2] = "queue"
    BY <1>3 DEF Tagged
  <2>3. \A u \in D : u[2] = "out"
    BY <1>4 DEF Tagged
  <2> QED BY <2>1, <2>2, <2>3
<1>10. A \cap B = {} /\ (A \cup B) \cap C = {} /\ (A \cup B \cup C) \cap D = {}
  BY <1>9
<1>11. /\ IsFiniteSet(A \cup B)
       /\ Cardinality(A \cup B) = Cardinality(A) + Cardinality(B)
  BY <1>5, <1>6, <1>10, AddCount
<1>12. /\ IsFiniteSet(A \cup B \cup C)
       /\ Cardinality(A \cup B \cup C) = Cardinality(A \cup B) + Cardinality(C)
  BY <1>7, <1>10, <1>11, AddCount
<1>13. /\ IsFiniteSet(A \cup B \cup C \cup D)
       /\ Cardinality(A \cup B \cup C \cup D) = Cardinality(A \cup B \cup C) + Cardinality(D)
  BY <1>8, <1>10, <1>12, AddCount
<1>14. Uses(e, x, q, o, i) = A \cup B \cup C \cup D
  BY <1>1, <1>2, <1>3, <1>4 DEF Uses
<1>15. Is(x.m_head, i) \in Nat /\ Is(x.m_body, i) \in Nat
  BY IsType
<1> QED BY <1>5, <1>6, <1>7, <1>8, <1>11, <1>12, <1>13, <1>14, <1>15 DEF Holds

\* The users of all ends.
Heads(x, i) == {<<e, "head">> : e \in {d \in End : x[d].m_head = i}}
Bodies(x, i) == {<<e, "body">> : e \in {d \in End : x[d].m_body = i}}
Queued(q, i) == UNION {Tagged(e, "queue", InQueue(q[e], i)) : e \in End}
Going(o, i) == UNION {Tagged(e, "out", InOut(o[e], i)) : e \in End}
UsersIn(x, q, o, i) == Heads(x, i) \cup Bodies(x, i) \cup Queued(q, i) \cup Going(o, i)

LEMMA UsersIs == ASSUME NEW i PROVE Users(i) = UsersIn(ctx, queue, out, i)
  BY DEF Users, UsersIn, Heads, Bodies, Queued, Going, Tagged, InQueue, InOut

LEMMA UsersAre ==
  ASSUME NEW x, NEW q, NEW o, NEW i
  PROVE  \A u : u \in UsersIn(x, q, o, i)
                  <=> \E e \in End : u \in Uses(e, x[e], q[e], o[e], i)
<1> SUFFICES ASSUME NEW u
             PROVE  u \in UsersIn(x, q, o, i)
                      <=> \E e \in End : u \in Uses(e, x[e], q[e], o[e], i)
  OBVIOUS
<1>1. u \in UsersIn(x, q, o, i)
        <=> \E e \in End :
              \/ x[e].m_head = i /\ u = <<e, "head">>
              \/ x[e].m_body = i /\ u = <<e, "body">>
              \/ u \in Tagged(e, "queue", InQueue(q[e], i))
              \/ u \in Tagged(e, "out", InOut(o[e], i))
  <2>1. u \in Heads(x, i) <=> \E e \in End : x[e].m_head = i /\ u = <<e, "head">>
    BY DEF Heads
  <2>2. u \in Bodies(x, i) <=> \E e \in End : x[e].m_body = i /\ u = <<e, "body">>
    BY DEF Bodies
  <2>3. u \in Queued(q, i) <=> \E e \in End : u \in Tagged(e, "queue", InQueue(q[e], i))
    BY DEF Queued
  <2>4. u \in Going(o, i) <=> \E e \in End : u \in Tagged(e, "out", InOut(o[e], i))
    BY DEF Going
  <2> QED BY <2>1, <2>2, <2>3, <2>4 DEF UsersIn
<1>2. \A e \in End : u \in Uses(e, x[e], q[e], o[e], i) <=>
              \/ x[e].m_head = i /\ u = <<e, "head">>
              \/ x[e].m_body = i /\ u = <<e, "body">>
              \/ u \in Tagged(e, "queue", InQueue(q[e], i))
              \/ u \in Tagged(e, "out", InOut(o[e], i))
  BY DEF Uses
<1> QED BY <1>1, <1>2

\* What one end gives up and takes.
LEMMA UsersChange ==
  ASSUME NEW e \in End, NEW i, NEW x, NEW q, NEW o, NEW y, NEW r, NEW p,
         x[e] \in Ctxs, q[e] \in Seq(Frames), o[e] \in Seq(Outs),
         y[e] \in Ctxs, r[e] \in Seq(Frames), p[e] \in Seq(Outs),
         \A d \in End \ {e} : y[d] = x[d] /\ r[d] = q[d] /\ p[d] = o[d],
         IsFiniteSet(UsersIn(x, q, o, i))
  PROVE  /\ IsFiniteSet(UsersIn(y, r, p, i))
         /\ Cardinality(UsersIn(y, r, p, i)) =
              Cardinality(UsersIn(x, q, o, i)) - Holds(x[e], q[e], o[e], i)
                + Holds(y[e], r[e], p[e], i)
<1>1. PICK U, V : U = UsersIn(x, q, o, i) /\ V = UsersIn(y, r, p, i)
  OBVIOUS
<1>2. PICK A, B : A = Uses(e, x[e], q[e], o[e], i) /\ B = Uses(e, y[e], r[e], p[e], i)
  OBVIOUS
<1>3. PICK R : R = {u \in U : u[1] # e}
  OBVIOUS
<1>4. \A d, u : \A z, s, t : u \in Uses(d, z, s, t, i) => u[1] = d
  BY DEF Uses, Tagged
<1>5. U = R \cup A /\ R \cap A = {}
  <2>1. \A u : u \in U <=> u \in A \/ \E d \in End \ {e} : u \in Uses(d, x[d], q[d], o[d], i)
    BY <1>1, <1>2, UsersAre
  <2>2. \A u \in A : u[1] = e
    BY <1>2, <1>4
  <2>3. \A u : (\E d \in End \ {e} : u \in Uses(d, x[d], q[d], o[d], i)) => u[1] # e
    BY <1>4
  <2> QED BY <1>3, <2>1, <2>2, <2>3
<1>6. V = R \cup B /\ R \cap B = {}
  <2>1. \A u : u \in V <=> u \in B \/ \E d \in End \ {e} : u \in Uses(d, y[d], r[d], p[d], i)
    BY <1>1, <1>2, UsersAre
  <2>2. \A u \in B : u[1] = e
    BY <1>2, <1>4
  <2>3. \A u : (\E d \in End \ {e} : u \in Uses(d, y[d], r[d], p[d], i))
                 <=> (\E d \in End \ {e} : u \in Uses(d, x[d], q[d], o[d], i))
    OBVIOUS
  <2>4. \A u : u \in U <=> u \in A \/ \E d \in End \ {e} : u \in Uses(d, x[d], q[d], o[d], i)
    BY <1>1, <1>2, UsersAre
  <2>5. \A u : (\E d \in End \ {e} : u \in Uses(d, x[d], q[d], o[d], i)) <=> u \in R
    <3>1. \A u \in A : u[1] = e
      BY <1>2, <1>4
    <3>2. \A u : (\E d \in End \ {e} : u \in Uses(d, x[d], q[d], o[d], i)) => u[1] # e
      BY <1>4
    <3> QED BY <1>3, <2>4, <3>1, <3>2
  <2>6. \A u \in R : u[1] # e
    BY <1>3
  <2> QED BY <2>1, <2>2, <2>3, <2>5, <2>6
<1>7. IsFiniteSet(R) /\ IsFiniteSet(A) /\ IsFiniteSet(B)
  <2>1. R \in SUBSET U
    BY <1>3
  <2>2. IsFiniteSet(R)
    BY <1>1, <2>1, FS_Subset
  <2> QED BY <1>2, <2>2, UsesCount
<1>8. PICK a \in Nat, b \in Nat, c \in Nat :
        /\ a = Cardinality(A) /\ b = Cardinality(B) /\ c = Cardinality(R)
        /\ a = Holds(x[e], q[e], o[e], i) /\ b = Holds(y[e], r[e], p[e], i)
  BY <1>2, <1>7, UsesCount, FS_CardinalityType
<1>9. Cardinality(U) = c + a /\ Cardinality(V) = c + b /\ IsFiniteSet(V)
  BY <1>5, <1>6, <1>7, <1>8, AddCount
<1> QED BY <1>1, <1>8, <1>9
-------------------------------------------------------------------------------
(* Caches                                                                    *)

Caches == [Id -> [ref : Int, text : Texts]]

LEMMA TextTypes ==
  /\ NoText \in Texts /\ CliRequest \in Texts /\ BodyText(<<Sdp>>) \in Texts
  /\ \A p \in Nat \X Nat : BodyText(<<p>>) \in Texts
<1>1. <<>> \in Seq(Nat \X Nat) /\ \A p \in Nat \X Nat : <<p>> \in Seq(Nat \X Nat)
  OBVIOUS
<1>2. Sdp \in Nat \X Nat
  BY DEF Sdp
<1>3. \A b \in Seq(Nat \X Nat) : BodyText(b) \in Texts
  BY DEF BodyText, Texts
<1> QED BY <1>1, <1>2, <1>3, EchoAssumption DEF NoText

\* The first cache without a user.
LEMMA UnusedIs ==
  ASSUME NEW cs \in Caches, \A i \in Id : cs[i].ref \in Nat, \E i \in Id : cs[i].ref = 0
  PROVE  Unused(cs) \in Id /\ cs[Unused(cs)].ref = 0
<1>1. PICK F : F = {i \in Id : cs[i].ref = 0}
  OBVIOUS
<1>2. PICK i \in F : \A j \in F : ~(j < i)
  <2>1. F \subseteq Nat /\ F # {}
    BY <1>1 DEF Id
  <2>2. PICK i \in F : \A j \in F : ~(<<j, i>> \in OpToRel(<, Nat))
    BY <2>1, NatLessThanWellFounded, WFMin
  <2>3. \A j \in Nat, k \in Nat : j < k => <<j, k>> \in OpToRel(<, Nat)
    BY DEF OpToRel
  <2> QED BY <2>1, <2>2, <2>3
<1>3. \A j \in 1 .. i - 1 : j \in Id /\ j < i /\ cs[j].ref > 0
  <2>1. i \in Int /\ i <= MaxCaches /\ MaxCaches \in Nat
    BY <1>1, EchoAssumption DEF Id
  <2>2. \A j \in 1 .. i - 1 : j \in Id /\ j < i
    BY <2>1 DEF Id
  <2>3. \A j \in 1 .. i - 1 : j \notin F
    BY <1>2, <2>2
  <2> QED BY <1>1, <2>2, <2>3
<1>4. i \in Id /\ cs[i].ref = 0
  BY <1>1
<1> QED BY <1>3, <1>4 DEF Unused

LEMMA AllocIs ==
  ASSUME NEW cs \in Caches, NEW text \in Texts, Unused(cs) \in Id, cs[Unused(cs)].ref = 0
  PROVE  /\ Alloc(cs, text) \in Caches
         /\ \A i \in Id : Alloc(cs, text)[i].ref = cs[i].ref + Is(Unused(cs), i)
<1>1. PICK j \in Id : j = Unused(cs)
  OBVIOUS
<1>2. Alloc(cs, text) = [cs EXCEPT ![j] = [ref |-> 1, text |-> text]]
  BY <1>1 DEF Alloc
<1> QED BY <1>1, <1>2 DEF Caches, Is

LEMMA GenIs ==
  ASSUME NEW cs \in Caches, NEW cnt \in Nat, Unused(cs) \in Id, cs[Unused(cs)].ref = 0
  PROVE  /\ GenHttpReq(cs, cnt) \in Caches
         /\ \A i \in Id : GenHttpReq(cs, cnt)[i].ref
                            = cs[i].ref + (IF Unused(cs) = i THEN cnt ELSE 0)
<1>1. PICK j \in Id : j = Unused(cs)
  OBVIOUS
<1>2. GenHttpReq(cs, cnt) = [cs EXCEPT ![j] = [ref |-> cnt, text |-> CliRequest]]
  BY <1>1 DEF GenHttpReq
<1> QED BY <1>1, <1>2, TextTypes DEF Caches

LEMMA NoneIs == ASSUME NEW i \in Id PROVE i # None /\ Is(None, i) = 0
  BY EchoAssumption DEF Id, None, Is

LEMMA RefIs ==
  ASSUME NEW cs \in Caches, NEW j \in Maybe
  PROVE  /\ Ref(cs, j) \in Caches
         /\ \A i \in Id : Ref(cs, j)[i].ref = cs[i].ref + Is(j, i)
<1>1. CASE j = None
  BY <1>1, NoneIs DEF Ref, Caches
<1>2. CASE j # None
  <2>1. j \in Id
    BY <1>2, EchoAssumption DEF Maybe, Id, None
  <2>2. Ref(cs, j) = [cs EXCEPT ![j].ref = @ + 1]
    BY <1>2 DEF Ref
  <2> QED BY <2>1, <2>2 DEF Caches, Is
<1> QED BY <1>1, <1>2

LEMMA DelIs ==
  ASSUME NEW cs \in Caches, NEW j \in Maybe
  PROVE  /\ Del(cs, j) \in Caches
         /\ \A i \in Id : Del(cs, j)[i].ref = cs[i].ref - Is(j, i)
<1>1. CASE j = None
  BY <1>1, NoneIs DEF Del, Caches
<1>2. CASE j # None
  <2>1. j \in Id
    BY <1>2, EchoAssumption DEF Maybe, Id, None
  <2>2. Del(cs, j) = [cs EXCEPT ![j] = IF @.ref = 1 THEN [ref |-> 0, text |-> NoText]
                                       ELSE [ref |-> @.ref - 1, text |-> @.text]]
    BY <1>2 DEF Del
  <2> QED BY <2>1, <2>2, TextTypes DEF Caches, Is
<1> QED BY <1>1, <1>2

LEMMA DelFrameIs ==
  ASSUME NEW cs \in Caches, NEW f \in Frames
  PROVE  /\ DelFrame(cs, f) \in Caches
         /\ \A i \in Id : DelFrame(cs, f)[i].ref
                            = cs[i].ref - (Is(f.m_head, i) + Is(f.m_body, i))
<1>1. f.m_head \in Maybe /\ f.m_body \in Maybe
  BY EchoAssumption DEF Frames, Maybe, Id
<1>2. PICK ds \in Caches : ds = Del(cs, f.m_head)
  BY <1>1, DelIs
<1>3. \A i \in Id : ds[i].ref = cs[i].ref - Is(f.m_head, i)
  BY <1>1, <1>2, DelIs
<1>4. /\ Del(ds, f.m_body) \in Caches
      /\ \A i \in Id : Del(ds, f.m_body)[i].ref = ds[i].ref - Is(f.m_body, i)
  BY <1>1, DelIs
<1>5. \A i \in Id : cs[i].ref \in Int
  BY DEF Caches
<1> QED BY <1>2, <1>3, <1>4, <1>5, IsType DEF DelFrame

LEMMA DelAllIs ==
  ASSUME NEW cs \in Caches, NEW is, \A i \in Id : Count(is, i) \in Nat
  PROVE  /\ DelAll(cs, is) \in Caches
         /\ \A i \in Id : DelAll(cs, is)[i].ref = cs[i].ref - Count(is, i)
  BY TextTypes DEF DelAll, Caches
-------------------------------------------------------------------------------
(* What goes into a queue and out of it                                      *)

LEMMA AppendIs ==
  ASSUME NEW S, NEW s \in Seq(S), NEW e \in S
  PROVE  /\ Append(s, e) \in Seq(S) /\ Len(s) \in Nat
         /\ DOMAIN s = 1 .. Len(s) /\ DOMAIN Append(s, e) = 1 .. Len(s) + 1
         /\ \A k \in 1 .. Len(s) : Append(s, e)[k] = s[k]
         /\ Append(s, e)[Len(s) + 1] = e
<1>0. PICK n, t : n = Len(s) /\ t = Append(s, e)
  OBVIOUS
<1>1. n \in Nat /\ t \in Seq(S) /\ DOMAIN s = 1 .. n /\ Len(t) = n + 1
  BY <1>0, LenProperties
<1>2. DOMAIN t = 1 .. n + 1
  BY <1>1, LenProperties
<1>3. (\A k \in 1 .. n : t[k] = s[k]) /\ t[n + 1] = e
  BY <1>0, <1>1
<1> QED BY <1>0, <1>1, <1>2, <1>3

LEMMA TailIs ==
  ASSUME NEW S, NEW s \in Seq(S), s # <<>>
  PROVE  /\ Head(s) \in S /\ Head(s) = s[1] /\ Tail(s) \in Seq(S)
         /\ Len(Tail(s)) \in Nat
         /\ DOMAIN s = 1 .. 1 + Len(Tail(s)) /\ DOMAIN Tail(s) = 1 .. Len(Tail(s))
         /\ \A k \in 1 .. Len(Tail(s)) : Tail(s)[k] = s[1 + k]
<1>1. Head(s) \in S /\ Tail(s) \in Seq(S) /\ Head(s) = s[1]
  BY HeadTailProperties
<1>2. PICK n \in Nat, t \in Seq(S) :
        n = Len(t) /\ t = Tail(s) /\ DOMAIN t = 1 .. n /\ Len(t) = Len(s) - 1
  BY <1>1, LenProperties, HeadTailProperties
<1>3. Len(s) = 1 + n /\ DOMAIN s = 1 .. Len(s)
  BY <1>2, LenProperties
<1>4. \A k \in 1 .. n : t[k] = s[k + 1]
  BY <1>2, HeadTailProperties
<1>5. \A k \in 1 .. n : k + 1 = 1 + k
  OBVIOUS
<1> QED BY <1>1, <1>2, <1>3, <1>4, <1>5

\* What comes out of a sequence was in it, or was added.
LEMMA TailIn ==
  ASSUME NEW S, NEW s \in Seq(S), s # <<>>
  PROVE  \A k \in DOMAIN Tail(s) : \E j \in DOMAIN s : Tail(s)[k] = s[j]
<1>1. PICK t, n : t = Tail(s) /\ n = Len(Tail(s))
  OBVIOUS
<1>2. /\ Len(Tail(s)) \in Nat
      /\ DOMAIN s = 1 .. 1 + Len(Tail(s)) /\ DOMAIN Tail(s) = 1 .. Len(Tail(s))
      /\ \A k \in 1 .. Len(Tail(s)) : Tail(s)[k] = s[1 + k]
  BY TailIs
<1>3. n \in Nat /\ DOMAIN s = 1 .. 1 + n /\ DOMAIN t = 1 .. n /\ \A k \in 1 .. n : t[k] = s[1 + k]
  BY <1>1, <1>2
<1>4. \A k \in 1 .. n : 1 + k \in 1 .. 1 + n
  BY <1>3
<1> QED BY <1>1, <1>3, <1>4

LEMMA AppendIn ==
  ASSUME NEW S, NEW s \in Seq(S), NEW l \in S
  PROVE  \A k \in DOMAIN Append(s, l) :
           Append(s, l)[k] = l \/ \E j \in DOMAIN s : Append(s, l)[k] = s[j]
<1>1. PICK t, n : t = Append(s, l) /\ n = Len(s)
  OBVIOUS
<1>2. /\ Len(s) \in Nat /\ DOMAIN s = 1 .. Len(s) /\ DOMAIN Append(s, l) = 1 .. Len(s) + 1
      /\ \A k \in 1 .. Len(s) : Append(s, l)[k] = s[k]
      /\ Append(s, l)[Len(s) + 1] = l
  BY AppendIs
<1>3. /\ n \in Nat /\ DOMAIN s = 1 .. n /\ DOMAIN t = 1 .. n + 1
      /\ (\A k \in 1 .. n : t[k] = s[k]) /\ t[n + 1] = l
  BY <1>1, <1>2
<1>4. \A k \in 1 .. n + 1 : k \in 1 .. n \/ k = n + 1
  BY <1>3
<1> QED BY <1>1, <1>3, <1>4

\* The first of a sequence.
LEMMA HeadIn ==
  ASSUME NEW S, NEW s \in Seq(S), s # <<>>
  PROVE  Head(s) \in S /\ \E j \in DOMAIN s : Head(s) = s[j]
<1>1. PICK n \in Nat : Head(s) \in S /\ Head(s) = s[1] /\ DOMAIN s = 1 .. 1 + n
  BY TailIs
<1>2. 1 \in DOMAIN s
  BY <1>1
<1> QED BY <1>1, <1>2

\* Nothing is in an empty queue.
LEMMA EmptyQueue ==
  ASSUME NEW i
  PROVE  /\ Cardinality(InQueue(<<>>, i)) = 0 /\ Cardinality(InOut(<<>>, i)) = 0
         /\ <<>> \in Seq(Frames) /\ <<>> \in Seq(Outs) /\ Apart(<<>>)
<1>1. PICK e : e = <<>> /\ DOMAIN e = {}
  OBVIOUS
<1>2. InQueue(e, i) = {} /\ InOut(e, i) = {} /\ Apart(e)
  BY <1>1 DEF InQueue, InOut, Apart
<1>3. Cardinality(InQueue(e, i)) = 0 /\ Cardinality(InOut(e, i)) = 0
  BY <1>2, FS_EmptySet
<1>4. <<>> \in Seq(Frames) /\ <<>> \in Seq(Outs)
  OBVIOUS
<1> QED BY <1>1, <1>2, <1>3, <1>4

\* A frame that waits.
LEMMA QueueAppend ==
  ASSUME NEW q \in Seq(Frames), NEW f \in Frames, Apart(q), f.m_head # f.m_body
  PROVE  /\ Append(q, f) \in Seq(Frames) /\ Apart(Append(q, f))
         /\ \A i : /\ Cardinality(InQueue(q, i)) \in Nat
                   /\ Cardinality(InQueue(Append(q, f), i)) =
                        Cardinality(InQueue(q, i)) + (Is(f.m_head, i) + Is(f.m_body, i))
<1>n. PICK n \in Nat : n = Len(q)
  BY LenProperties
<1>r. PICK r : r = Append(q, f)
  OBVIOUS
<1>1. /\ n \in Nat /\ r \in Seq(Frames)
      /\ DOMAIN q = 1 .. n /\ DOMAIN r = 1 .. n + 1
      /\ r[n + 1] = f
      /\ \A k \in 1 .. n : r[k] = q[k]
  BY <1>n, <1>r, AppendIs
<1>2. Apart(r)
  <2>1. \A k \in 1 .. n + 1 : k \in 1 .. n \/ k = n + 1
    OBVIOUS
  <2> QED BY <1>1, <2>1 DEF Apart
<1>3. ASSUME NEW i
      PROVE  /\ Cardinality(InQueue(q, i)) \in Nat
             /\ Cardinality(InQueue(r, i)) =
                  Cardinality(InQueue(q, i)) + (Is(f.m_head, i) + Is(f.m_body, i))
  <2>1. InQueue(r, i) \subseteq 1 .. n + 1
    BY <1>1 DEF InQueue
  <2>2. Low(InQueue(r, i), n) = InQueue(q, i)
    <3>1. \A k \in 1 .. n + 1 : k <= n <=> k \in 1 .. n
      OBVIOUS
    <3> QED BY <1>1, <3>1 DEF Low, InQueue
  <2>3. n + 1 \in InQueue(r, i) <=> f.m_head = i \/ f.m_body = i
    <3>1. n + 1 \in 1 .. n + 1
      OBVIOUS
    <3> QED BY <1>1, <3>1 DEF InQueue
  <2>4. (IF n + 1 \in InQueue(r, i) THEN 1 ELSE 0) = Is(f.m_head, i) + Is(f.m_body, i)
    BY <2>3 DEF Is
  <2> QED BY <2>1, <2>2, <2>4, AppendCount
<1> QED BY <1>n, <1>r, <1>1, <1>2, <1>3

\* A frame that is processed.
LEMMA QueueTail ==
  ASSUME NEW q \in Seq(Frames), q # <<>>, Apart(q)
  PROVE  /\ Head(q) \in Frames /\ Tail(q) \in Seq(Frames) /\ Apart(Tail(q))
         /\ Head(q).m_head # Head(q).m_body
         /\ \A i : /\ Cardinality(InQueue(q, i)) \in Nat
                   /\ Cardinality(InQueue(Tail(q), i)) \in Nat
                   /\ Cardinality(InQueue(q, i)) =
                        (Is(Head(q).m_head, i) + Is(Head(q).m_body, i))
                          + Cardinality(InQueue(Tail(q), i))
<1>n. PICK n \in Nat : n = Len(Tail(q))
  BY TailIs
<1>t. PICK t, f : t = Tail(q) /\ f = Head(q)
  OBVIOUS
<1>1. /\ n \in Nat /\ t \in Seq(Frames) /\ f \in Frames
      /\ DOMAIN q = 1 .. 1 + n /\ DOMAIN t = 1 .. n
      /\ f = q[1]
      /\ \A k \in 1 .. n : t[k] = q[1 + k]
  BY <1>n, <1>t, TailIs
<1>2. f.m_head # f.m_body
  <2>1. 1 \in 1 .. 1 + n
    OBVIOUS
  <2> QED BY <1>1, <2>1 DEF Apart
<1>3. Apart(t)
  <2>1. \A k \in 1 .. n : 1 + k \in 1 .. 1 + n
    OBVIOUS
  <2> QED BY <1>1, <2>1 DEF Apart
<1>4. ASSUME NEW i
      PROVE  /\ Cardinality(InQueue(q, i)) \in Nat
             /\ Cardinality(InQueue(t, i)) \in Nat
             /\ Cardinality(InQueue(q, i)) =
                  (Is(f.m_head, i) + Is(f.m_body, i)) + Cardinality(InQueue(t, i))
  <2>1. InQueue(q, i) \subseteq 1 .. 1 + n
    BY <1>1 DEF InQueue
  <2>2. High(InQueue(q, i), 1, n) = InQueue(t, i)
    <3>1. \A k \in 1 .. n : 1 + k \in 1 .. 1 + n
      OBVIOUS
    <3> QED BY <1>1, <3>1 DEF High, InQueue
  <2>3. 1 \in InQueue(q, i) <=> f.m_head = i \/ f.m_body = i
    <3>1. 1 \in 1 .. 1 + n
      OBVIOUS
    <3> QED BY <1>1, <3>1 DEF InQueue
  <2>4. (IF 1 \in InQueue(q, i) THEN 1 ELSE 0) = Is(f.m_head, i) + Is(f.m_body, i)
    BY <1>2, <2>3 DEF Is
  <2> QED BY <2>1, <2>2, <2>4, TailCount
<1> QED BY <1>n, <1>t, <1>1, <1>2, <1>3, <1>4

\* A message that is sent.
LEMMA OutAppend ==
  ASSUME NEW o \in Seq(Outs), NEW s \in Outs
  PROVE  /\ Append(o, s) \in Seq(Outs)
         /\ \A i : /\ Cardinality(InOut(o, i)) \in Nat
                   /\ Cardinality(InOut(Append(o, s), i)) =
                        Cardinality(InOut(o, i)) + Is(s.cache, i)
<1>n. PICK n \in Nat : n = Len(o)
  BY LenProperties
<1>r. PICK r : r = Append(o, s)
  OBVIOUS
<1>1. /\ n \in Nat /\ r \in Seq(Outs)
      /\ DOMAIN o = 1 .. n /\ DOMAIN r = 1 .. n + 1
      /\ r[n + 1] = s
      /\ \A k \in 1 .. n : r[k] = o[k]
  BY <1>n, <1>r, AppendIs
<1>2. ASSUME NEW i
      PROVE  /\ Cardinality(InOut(o, i)) \in Nat
             /\ Cardinality(InOut(r, i)) = Cardinality(InOut(o, i)) + Is(s.cache, i)
  <2>1. InOut(r, i) \subseteq 1 .. n + 1
    BY <1>1 DEF InOut
  <2>2. Low(InOut(r, i), n) = InOut(o, i)
    <3>1. \A k \in 1 .. n + 1 : k <= n <=> k \in 1 .. n
      OBVIOUS
    <3> QED BY <1>1, <3>1 DEF Low, InOut
  <2>3. n + 1 \in InOut(r, i) <=> s.cache = i
    <3>1. n + 1 \in 1 .. n + 1
      OBVIOUS
    <3> QED BY <1>1, <3>1 DEF InOut
  <2>4. (IF n + 1 \in InOut(r, i) THEN 1 ELSE 0) = Is(s.cache, i)
    BY <2>3 DEF Is
  <2> QED BY <2>1, <2>2, <2>4, AppendCount
<1> QED BY <1>n, <1>r, <1>1, <1>2

\* Several of the same.
LEMMA OutMany ==
  ASSUME NEW o \in Seq(Outs), NEW s \in Outs, NEW m \in Nat
  PROVE  /\ o \o [k \in 1 .. m |-> s] \in Seq(Outs)
         /\ \A i : /\ Cardinality(InOut(o, i)) \in Nat
                   /\ Cardinality(InOut(o \o [k \in 1 .. m |-> s], i)) =
                        Cardinality(InOut(o, i)) + (IF s.cache = i THEN m ELSE 0)
<1>n. PICK n \in Nat : n = Len(o) /\ DOMAIN o = 1 .. n
  BY LenProperties
<1>1. PICK t : t = [k \in 1 .. m |-> s]
  OBVIOUS
<1>2. t \in Seq(Outs) /\ Len(t) = m /\ \A k \in 1 .. m : t[k] = s
  <2>1. t \in [1 .. m -> Outs]
    BY <1>1
  <2>2. t \in Seq(Outs)
    BY <2>1, SeqDef
  <2>3. DOMAIN t = 1 .. m /\ DOMAIN t = 1 .. Len(t) /\ Len(t) \in Nat
    BY <1>1, <2>2, LenProperties
  <2> QED BY <1>1, <2>2, <2>3
<1>0. PICK r : r = o \o t
  OBVIOUS
<1>3. /\ r \in Seq(Outs) /\ Len(r) = n + m
      /\ \A k \in 1 .. n + m : r[k] = IF k <= n THEN o[k] ELSE t[k - n]
  BY <1>0, <1>n, <1>1, <1>2, ConcatProperties
<1>4. DOMAIN r = 1 .. n + m
  BY <1>3, LenProperties
<1>5. ASSUME NEW i
      PROVE  /\ Cardinality(InOut(o, i)) \in Nat
             /\ Cardinality(InOut(r, i)) =
                  Cardinality(InOut(o, i)) + (IF s.cache = i THEN m ELSE 0)
  <2>1. InOut(r, i) \subseteq 1 .. n + m
    BY <1>4 DEF InOut
  <2>2. Low(InOut(r, i), n) = InOut(o, i)
    <3>1. \A k \in 1 .. n + m : k <= n <=> k \in 1 .. n
      OBVIOUS
    <3>2. \A k \in 1 .. n : k \in 1 .. n + m /\ k <= n
      OBVIOUS
    <3>3. \A k \in 1 .. n : r[k] = o[k]
      BY <1>3, <3>2
    <3> QED BY <1>n, <1>1, <1>4, <3>1, <3>2, <3>3 DEF Low, InOut
  <2>3. High(InOut(r, i), n, m) = IF s.cache = i THEN 1 .. m ELSE {}
    <3>1. \A k \in 1 .. m : n + k \in 1 .. n + m /\ ~(n + k <= n) /\ (n + k) - n = k
      OBVIOUS
    <3>2. \A k \in 1 .. m : r[n + k] = s
      BY <1>2, <1>3, <3>1
    <3> QED BY <1>4, <3>1, <3>2 DEF High, InOut
  <2>4. Cardinality(1 .. m) = m /\ Cardinality({}) = 0
    BY FS_Interval, FS_EmptySet
  <2>5. Cardinality(High(InOut(r, i), n, m)) = IF s.cache = i THEN m ELSE 0
    BY <2>3, <2>4
  <2> QED BY <1>n, <1>1, <2>1, <2>2, <2>5, SplitCount
<1> QED BY <1>0, <1>n, <1>1, <1>3, <1>5

\* A message that is written.
LEMMA OutTail ==
  ASSUME NEW o \in Seq(Outs), o # <<>>
  PROVE  /\ Head(o) \in Outs /\ Tail(o) \in Seq(Outs)
         /\ \A i : /\ Cardinality(InOut(o, i)) \in Nat
                   /\ Cardinality(InOut(Tail(o), i)) \in Nat
                   /\ Cardinality(InOut(o, i)) =
                        Is(Head(o).cache, i) + Cardinality(InOut(Tail(o), i))
<1>n. PICK n \in Nat : n = Len(Tail(o))
  BY TailIs
<1>t. PICK t, s : t = Tail(o) /\ s = Head(o)
  OBVIOUS
<1>1. /\ n \in Nat /\ t \in Seq(Outs) /\ s \in Outs
      /\ DOMAIN o = 1 .. 1 + n /\ DOMAIN t = 1 .. n
      /\ s = o[1]
      /\ \A k \in 1 .. n : t[k] = o[1 + k]
  BY <1>n, <1>t, TailIs
<1>2. ASSUME NEW i
      PROVE  /\ Cardinality(InOut(o, i)) \in Nat
             /\ Cardinality(InOut(t, i)) \in Nat
             /\ Cardinality(InOut(o, i)) = Is(s.cache, i) + Cardinality(InOut(t, i))
  <2>1. InOut(o, i) \subseteq 1 .. 1 + n
    BY <1>1 DEF InOut
  <2>2. High(InOut(o, i), 1, n) = InOut(t, i)
    <3>1. \A k \in 1 .. n : 1 + k \in 1 .. 1 + n
      OBVIOUS
    <3> QED BY <1>1, <3>1 DEF High, InOut
  <2>3. 1 \in InOut(o, i) <=> s.cache = i
    <3>1. 1 \in 1 .. 1 + n
      OBVIOUS
    <3> QED BY <1>1, <3>1 DEF InOut
  <2>4. (IF 1 \in InOut(o, i) THEN 1 ELSE 0) = Is(s.cache, i)
    BY <2>3 DEF Is
  <2> QED BY <2>1, <2>2, <2>4, TailCount
<1> QED BY <1>n, <1>t, <1>1, <1>2

\* What a connection that ends still holds, is what its end uses.
LEMMA HeldIs ==
  ASSUME NEW e, ctx[e] \in Ctxs, queue[e] \in Seq(Frames), out[e] \in Seq(Outs), Apart(queue[e])
  PROVE  \A i : /\ Count(Held(e), i) \in Nat
                /\ Count(Held(e), i) = Holds(ctx[e], queue[e], out[e], i)
<1>1. PICK q \in Seq(Frames), o \in Seq(Outs), n \in Nat, m \in Nat :
        q = queue[e] /\ o = out[e] /\ DOMAIN q = 1 .. n /\ DOMAIN o = 1 .. m
  BY LenProperties
<1>2. PICK a : a = <<ctx[e].m_head, ctx[e].m_body>>
  OBVIOUS
<1>3. PICK b : b = [k \in DOMAIN q |-> q[k].m_head]
  OBVIOUS
<1>4. PICK c : c = [k \in DOMAIN q |-> q[k].m_body]
  OBVIOUS
<1>5. PICK d : d = [k \in DOMAIN o |-> o[k].cache]
  OBVIOUS
<1>6. a \in Seq(Nat) /\ b \in Seq(Nat) /\ c \in Seq(Nat) /\ d \in Seq(Nat)
  <2>1. Maybe \subseteq Nat /\ Id \subseteq Nat
    BY EchoAssumption DEF Maybe, Id
  <2>2. a \in Seq(Nat)
    <3>1. ctx[e].m_head \in Nat /\ ctx[e].m_body \in Nat
      BY <2>1 DEF Ctxs
    <3> QED BY <1>2, <3>1
  <2>3. \A k \in 1 .. n : q[k].m_head \in Nat /\ q[k].m_body \in Nat
    <3>1. \A k \in 1 .. n : q[k] \in Frames
      BY <1>1, LenProperties
    <3> QED BY <2>1, <3>1 DEF Frames
  <2>4. \A k \in 1 .. m : o[k].cache \in Nat
    <3>1. \A k \in 1 .. m : o[k] \in Outs
      BY <1>1, LenProperties
    <3> QED BY <2>1, <3>1 DEF Outs
  <2>5. b \in [1 .. n -> Nat] /\ c \in [1 .. n -> Nat] /\ d \in [1 .. m -> Nat]
    BY <1>1, <1>3, <1>4, <1>5, <2>3, <2>4
  <2> QED BY <2>2, <2>5, SeqDef
<1>7. Held(e) = ((a \o b) \o c) \o d
  BY <1>1, <1>2, <1>3, <1>4, <1>5 DEF Held
<1>8. PICK ab \in Seq(Nat) : ab = a \o b
  BY <1>6, ConcatProperties
<1>9. PICK abc \in Seq(Nat) : abc = ab \o c
  BY <1>6, ConcatProperties
<1>10. ASSUME NEW i
       PROVE  Count(Held(e), i) \in Nat /\ Count(Held(e), i) = Holds(ctx[e], queue[e], out[e], i)
  <2>1. Count(a, i) = Is(ctx[e].m_head, i) + Is(ctx[e].m_body, i)
    BY <1>2, CountPair
  <2>2. PICK A : A = {k \in DOMAIN q : q[k].m_head = i}
    OBVIOUS
  <2>3. PICK B : B = {k \in DOMAIN q : q[k].m_body = i}
    OBVIOUS
  <2>4. Count(b, i) = Cardinality(A) /\ Count(c, i) = Cardinality(B)
    <3>1. {k \in DOMAIN b : b[k] = i} = A /\ {k \in DOMAIN c : c[k] = i} = B
      BY <1>3, <1>4, <2>2, <2>3
    <3> QED BY <3>1 DEF Count
  <2>5. Cardinality(InQueue(q, i)) = Count(b, i) + Count(c, i)
    <3>1. InQueue(q, i) = A \cup B
      BY <2>2, <2>3 DEF InQueue
    <3>2. A \cap B = {}
      BY <1>1, <2>2, <2>3 DEF Apart
    <3>3. IsFiniteSet(A) /\ IsFiniteSet(B)
      <4>1. IsFiniteSet(1 .. n) /\ A \in SUBSET (1 .. n) /\ B \in SUBSET (1 .. n)
        BY <1>1, <2>2, <2>3, FS_Interval
      <4> QED BY <4>1, FS_Subset
    <3> QED BY <2>4, <3>1, <3>2, <3>3, AddCount
  <2>6. Count(d, i) = Cardinality(InOut(o, i))
    <3>1. {k \in DOMAIN d : d[k] = i} = InOut(o, i)
      BY <1>5 DEF InOut
    <3> QED BY <3>1 DEF Count
  <2>7. /\ Count(a, i) \in Nat /\ Count(b, i) \in Nat
        /\ Count(ab, i) = Count(a, i) + Count(b, i)
    BY <1>6, <1>8, CountConcat
  <2>8. /\ Count(c, i) \in Nat
        /\ Count(abc, i) = Count(ab, i) + Count(c, i)
    <3>1. c \in Seq(Nat) /\ ab \in Seq(Nat)
      BY <1>6
    <3>2. Count(c, i) \in Nat /\ Count(ab \o c, i) = Count(ab, i) + Count(c, i)
      BY <3>1, CountConcat
    <3> QED BY <1>9, <3>2
  <2>9. /\ Count(d, i) \in Nat
        /\ Count(Held(e), i) = Count(abc, i) + Count(d, i)
    <3>1. d \in Seq(Nat) /\ abc \in Seq(Nat)
      BY <1>6
    <3>2. Count(d, i) \in Nat /\ Count(abc \o d, i) = Count(abc, i) + Count(d, i)
      BY <3>1, CountConcat
    <3>3. Held(e) = abc \o d
      BY <1>7, <1>8, <1>9
    <3> QED BY <3>2, <3>3
  <2>10. Holds(ctx[e], queue[e], out[e], i) =
           Is(ctx[e].m_head, i) + Is(ctx[e].m_body, i)
             + Cardinality(InQueue(q, i)) + Cardinality(InOut(o, i))
    BY <1>1 DEF Holds
  <2> QED BY <2>1, <2>5, <2>6, <2>7, <2>8, <2>9, <2>10, IsType
<1> QED BY <1>10
-------------------------------------------------------------------------------
(* The inductive invariant                                                   *)

TypeOK ==
  /\ stat \in [End -> {"none", "connecting", "open", "closing", "closed"}]
  /\ ctx \in [End -> Ctxs]
  /\ wire \in [End -> Seq(Texts)]
  /\ queue \in [End -> Seq(Frames)]
  /\ out \in [End -> Seq(Outs)]
  /\ caches \in Caches
  /\ asked \in [Conn -> Seq(Texts)]
  /\ answered \in [Conn -> Seq(Texts)]

\* A context has a piece of a body only after the head, in a cache of its own; one
\* that is not in use has nothing; and no frame has one cache twice.
EndOK(e) ==
  /\ ctx[e].m_body # None => ctx[e].m_head # None /\ ctx[e].m_head # ctx[e].m_body
  /\ stat[e] \notin {"none", "closed"} => ctx[e].m_frame_beg \in Nat
  /\ stat[e] \notin {"open", "closing"} => ctx[e].m_head = None
  /\ Apart(queue[e])
EndsOK == \A e \in End : EndOK(e)

Counted ==
  \A i \in Id : /\ IsFiniteSet(UsersIn(ctx, queue, out, i))
                /\ caches[i].ref = Cardinality(UsersIn(ctx, queue, out, i))

IInv == TypeOK /\ EndsOK /\ Counted

\* A cache that is handed out has no user yet.
LEMMA RoomIs ==
  ASSUME IInv, Room
  PROVE  /\ Unused(caches) \in Id /\ Unused(caches) \in Maybe
         /\ caches[Unused(caches)].ref = 0
         /\ \A e \in End : ctx[e].m_head # Unused(caches)
<1>1. /\ caches \in Caches
      /\ \A i \in Id : /\ caches[i].ref = Cardinality(UsersIn(ctx, queue, out, i))
                       /\ IsFiniteSet(UsersIn(ctx, queue, out, i))
  BY DEF IInv, TypeOK, Counted
<1>2. \A i \in Id : caches[i].ref \in Nat
  BY <1>1, FS_CardinalityType
<1>3. PICK j \in Id : j = Unused(caches) /\ caches[j].ref = 0
  BY <1>1, <1>2, UnusedIs DEF Room
<1>4. UsersIn(ctx, queue, out, j) = {}
  BY <1>1, <1>3, FS_EmptySet
<1>5. \A e \in End : ctx[e].m_head # j
  <2>1. \A e \in End : ctx[e].m_head = j => <<e, "head">> \in Heads(ctx, j)
    BY DEF Heads
  <2> QED BY <1>4, <2>1 DEF UsersIn
<1>6. j \in Maybe
  BY EchoAssumption DEF Maybe, Id
<1> QED BY <1>3, <1>5, <1>6

\* One end takes and gives up texts, and the counts change by as much.
LEMMA CountedStep ==
  ASSUME IInv, NEW e \in End,
         ctx'[e] \in Ctxs, queue'[e] \in Seq(Frames), out'[e] \in Seq(Outs),
         \A d \in End \ {e} : ctx'[d] = ctx[d] /\ queue'[d] = queue[d] /\ out'[d] = out[d],
         \A i \in Id : caches'[i].ref = caches[i].ref - Holds(ctx[e], queue[e], out[e], i)
                                          + Holds(ctx'[e], queue'[e], out'[e], i)
  PROVE  Counted'
<1>1. ctx[e] \in Ctxs /\ queue[e] \in Seq(Frames) /\ out[e] \in Seq(Outs)
  BY DEF IInv, TypeOK
<1>2. ASSUME NEW i \in Id
      PROVE  /\ IsFiniteSet(UsersIn(ctx', queue', out', i))
             /\ caches'[i].ref = Cardinality(UsersIn(ctx', queue', out', i))
  <2>1. /\ IsFiniteSet(UsersIn(ctx, queue, out, i))
        /\ caches[i].ref = Cardinality(UsersIn(ctx, queue, out, i))
    BY DEF IInv, Counted
  <2>2. /\ IsFiniteSet(UsersIn(ctx', queue', out', i))
        /\ Cardinality(UsersIn(ctx', queue', out', i)) =
             Cardinality(UsersIn(ctx, queue, out, i)) - Holds(ctx[e], queue[e], out[e], i)
               + Holds(ctx'[e], queue'[e], out'[e], i)
    BY <1>1, <2>1, UsersChange
  <2> QED BY <2>1, <2>2
<1> QED BY <1>2 DEF Counted

LEMMA InitOK == Init => IInv
<1> SUFFICES ASSUME Init PROVE IInv
  OBVIOUS
<1>1. NoCtx \in Ctxs /\ NoCtx.m_head = None /\ NoCtx.m_body = None
  BY EchoAssumption DEF NoCtx, HttpCtx, Ctxs, Maybe, None
<1>2. TypeOK
  <2>1. stat \in [End -> {"none", "connecting", "open", "closing", "closed"}]
    BY DEF Init
  <2>2. <<>> \in Seq(Texts) /\ <<>> \in Seq(Frames) /\ <<>> \in Seq(Outs)
    OBVIOUS
  <2>3. caches \in Caches
    BY TextTypes DEF Init, Caches
  <2>4. /\ ctx \in [End -> Ctxs] /\ wire \in [End -> Seq(Texts)]
        /\ queue \in [End -> Seq(Frames)] /\ out \in [End -> Seq(Outs)]
        /\ asked \in [Conn -> Seq(Texts)] /\ answered \in [Conn -> Seq(Texts)]
    BY <1>1, <2>2 DEF Init
  <2> QED BY <2>1, <2>3, <2>4 DEF TypeOK
<1>3. EndsOK
  <2> SUFFICES ASSUME NEW e \in End PROVE EndOK(e)
    BY DEF EndsOK
  <2>1. ctx[e] = NoCtx /\ queue[e] = <<>> /\ stat[e] \in {"none", "closed"}
    BY DEF Init
  <2> QED BY <1>1, <2>1, EmptyQueue DEF EndOK
<1>4. Counted
  <2> SUFFICES ASSUME NEW i \in Id
               PROVE  /\ IsFiniteSet(UsersIn(ctx, queue, out, i))
                      /\ caches[i].ref = Cardinality(UsersIn(ctx, queue, out, i))
    BY DEF Counted
  <2>1. \A e \in End : Uses(e, ctx[e], queue[e], out[e], i) = {}
    <3> SUFFICES ASSUME NEW e \in End PROVE Uses(e, ctx[e], queue[e], out[e], i) = {}
      OBVIOUS
    <3>1. PICK q : q = <<>> /\ DOMAIN q = {} /\ queue[e] = q /\ out[e] = q
      BY DEF Init
    <3>2. ctx[e].m_head # i /\ ctx[e].m_body # i
      BY <1>1, NoneIs DEF Init
    <3>3. InQueue(q, i) = {} /\ InOut(q, i) = {}
      BY <3>1 DEF InQueue, InOut
    <3> QED BY <3>1, <3>2, <3>3 DEF Uses, Tagged
  <2>2. UsersIn(ctx, queue, out, i) = {}
    BY <2>1, UsersAre
  <2>3. caches[i].ref = 0
    BY DEF Init
  <2> QED BY <2>2, <2>3, FS_EmptySet
<1> QED BY <1>2, <1>3, <1>4 DEF IInv

-------------------------------------------------------------------------------
(* Connections                                                               *)

LEMMA EndIs == \A c \in Conn : Svr(c) \in End /\ <<c, "cli">> \in End
  BY DEF Svr, End

\* A context that holds nothing is replaced by another one.
LEMMA NewCtx ==
  ASSUME IInv, NEW e \in End, NEW y \in {HttpCtx, NoCtx},
         stat[e] \notin {"open", "closing"},
         stat' \in [End -> {"none", "connecting", "open", "closing", "closed"}],
         \A d \in End \ {e} : stat'[d] = stat[d],
         stat'[e] \notin {"none", "closed"} => y = HttpCtx,
         ctx' = [ctx EXCEPT ![e] = y],
         UNCHANGED <<wire, queue, out, caches, asked, answered>>
  PROVE  IInv'
<1>1. /\ y \in Ctxs /\ y.m_head = None /\ y.m_body = None
      /\ y = HttpCtx => y.m_frame_beg \in Nat
  BY EchoAssumption DEF NoCtx, HttpCtx, Ctxs, Maybe, None
<1>2. TypeOK /\ EndsOK /\ EndOK(e)
  BY DEF IInv, EndsOK
<1>3. /\ ctx'[e] = y /\ ctx[e].m_head = None /\ ctx[e].m_body = None
      /\ \A d \in End \ {e} : ctx'[d] = ctx[d]
  BY <1>2 DEF TypeOK, EndOK
<1>4. TypeOK'
  BY <1>1, <1>2 DEF TypeOK
<1>5. EndsOK'
  <2>1. EndOK(e)'
    BY <1>1, <1>2, <1>3 DEF EndOK
  <2>2. \A d \in End \ {e} : EndOK(d)'
    BY <1>2, <1>3 DEF EndOK, EndsOK
  <2> QED BY <2>1, <2>2 DEF EndsOK
<1>6. Counted'
  <2>1. queue[e] \in Seq(Frames) /\ out[e] \in Seq(Outs) /\ ctx[e] \in Ctxs
    BY <1>2 DEF TypeOK
  <2>2. \A i : Holds(ctx'[e], queue[e], out[e], i) = Holds(ctx[e], queue[e], out[e], i)
    BY <1>1, <1>3 DEF Holds
  <2>3. \A i : Holds(ctx[e], queue[e], out[e], i) \in Nat
    BY <2>1, UsesCount
  <2>4. \A i \in Id : caches[i].ref \in Int
    BY <1>2 DEF TypeOK, Caches
  <2> QED BY <1>1, <1>3, <2>1, <2>2, <2>3, <2>4, CountedStep
<1> QED BY <1>4, <1>5, <1>6 DEF IInv

LEMMA OnNewSockOK == ASSUME IInv, NEW c \in Conn, OnNewSock(c) PROVE IInv'
<1>1. stat \in [End -> {"none", "connecting", "open", "closing", "closed"}]
  BY DEF IInv, TypeOK
<1> QED BY <1>1, EndIs, NewCtx DEF OnNewSock

LEMMA AddCliOK == ASSUME IInv, NEW c \in Conn, AddCli(c) PROVE IInv'
<1>1. stat \in [End -> {"none", "connecting", "open", "closing", "closed"}]
  BY DEF IInv, TypeOK
<1> QED BY <1>1, EndIs, NewCtx DEF AddCli

LEMMA OnConnFailOK == ASSUME IInv, NEW c \in Conn, OnConnFail(c) PROVE IInv'
<1>1. stat \in [End -> {"none", "connecting", "open", "closing", "closed"}]
  BY DEF IInv, TypeOK
<1> QED BY <1>1, EndIs, NewCtx DEF OnConnFail

\* A step that no user and no context takes part in.
LEMMA AskOK == ASSUME IInv, NEW c \in Conn, Ask(c) PROVE IInv'
<1>1. PICK r \in Requests, id \in Nat :
        LET msg == [r EXCEPT !.id = id, !.body = [k \in DOMAIN r.body |-> <<id, k>>]]
        IN /\ asked' = [asked EXCEPT ![c] = Append(@, msg)]
           /\ wire' = [wire EXCEPT ![Svr(c)] = Append(@, msg)]
  <2>1. Len(asked[c]) + 1 \in Nat
    BY LenProperties DEF IInv, TypeOK
  <2> QED BY <2>1 DEF Ask
<1>m. PICK msg : msg = [r EXCEPT !.id = id, !.body = [k \in DOMAIN r.body |-> <<id, k>>]]
  OBVIOUS
<1>2. msg \in Texts
  <2>1. r \in Texts /\ r.body \in Seq(Nat \X Nat)
    BY EchoAssumption DEF Texts
  <2>n. PICK n \in Nat : DOMAIN r.body = 1 .. n
    BY <2>1, LenProperties
  <2>2. PICK b : b = [k \in DOMAIN r.body |-> <<id, k>>]
    OBVIOUS
  <2>3. b \in [1 .. n -> Nat \X Nat]
    BY <2>n, <2>2
  <2>4. b \in Seq(Nat \X Nat)
    BY <2>3, SeqDef
  <2> QED BY <1>m, <2>1, <2>2, <2>4 DEF Texts
<1>3. TypeOK /\ EndsOK /\ Counted
  BY DEF IInv
<1>4. TypeOK'
  <2>1. asked' \in [Conn -> Seq(Texts)] /\ wire' \in [End -> Seq(Texts)]
    BY <1>1, <1>m, <1>2, <1>3, EndIs, AppendIs DEF TypeOK
  <2> QED BY <1>3, <2>1 DEF TypeOK, Ask
<1>5. EndsOK'
  BY <1>3 DEF EndsOK, EndOK, Ask
<1>6. Counted'
  BY <1>3 DEF Counted, Ask
<1> QED BY <1>4, <1>5, <1>6 DEF IInv
\* HttpCli sends cnt requests, which share a new text.
LEMMA SendIs ==
  ASSUME IInv, Room, NEW e \in End, NEW cnt \in Nat
  PROVE  /\ GenHttpReq(caches, cnt) \in Caches
         /\ SendHttpReq(e, cnt) \in [End -> Seq(Outs)]
         /\ \A d \in End \ {e} : SendHttpReq(e, cnt)[d] = out[d]
         /\ \A i \in Id :
              /\ Cardinality(InOut(out[e], i)) \in Nat
              /\ Cardinality(InOut(SendHttpReq(e, cnt)[e], i)) \in Nat
              /\ GenHttpReq(caches, cnt)[i].ref =
                   caches[i].ref - Cardinality(InOut(out[e], i))
                     + Cardinality(InOut(SendHttpReq(e, cnt)[e], i))
<1>1. caches \in Caches /\ out \in [End -> Seq(Outs)] /\ out[e] \in Seq(Outs)
  BY DEF IInv, TypeOK
<1>2. PICK j \in Id : j = Unused(caches) /\ caches[j].ref = 0 /\ j \in Maybe
  BY RoomIs
<1>3. /\ GenHttpReq(caches, cnt) \in Caches
      /\ \A i \in Id : GenHttpReq(caches, cnt)[i].ref
                         = caches[i].ref + (IF j = i THEN cnt ELSE 0)
  BY <1>1, <1>2, GenIs
<1>4. PICK s \in Outs : s = Sent(CliRequest, j) /\ s.cache = j
  <2>1. Sent(CliRequest, j) \in Outs /\ Sent(CliRequest, j).cache = j
    BY <1>2, TextTypes DEF Sent, Outs
  <2> QED BY <2>1
<1>5. PICK p : p = out[e] \o [k \in 1 .. cnt |-> s]
  OBVIOUS
<1>6. /\ p \in Seq(Outs)
      /\ \A i : /\ Cardinality(InOut(out[e], i)) \in Nat
                /\ Cardinality(InOut(p, i)) =
                     Cardinality(InOut(out[e], i)) + (IF j = i THEN cnt ELSE 0)
  BY <1>1, <1>4, <1>5, OutMany
<1>7. SendHttpReq(e, cnt) = [out EXCEPT ![e] = p]
  BY <1>2, <1>4, <1>5 DEF SendHttpReq
<1>8. \A i \in Id : caches[i].ref \in Int /\ (IF j = i THEN cnt ELSE 0) \in Nat
  BY <1>1 DEF Caches
<1>9. \A i \in Id :
        /\ Cardinality(InOut(p, i)) \in Nat
        /\ GenHttpReq(caches, cnt)[i].ref =
             caches[i].ref - Cardinality(InOut(out[e], i)) + Cardinality(InOut(p, i))
  BY <1>3, <1>6, <1>8
<1>10. /\ SendHttpReq(e, cnt) \in [End -> Seq(Outs)] /\ SendHttpReq(e, cnt)[e] = p
       /\ \A d \in End \ {e} : SendHttpReq(e, cnt)[d] = out[d]
  BY <1>1, <1>6, <1>7
<1> QED BY <1>3, <1>6, <1>9, <1>10

\* How many texts an end uses, type by type.
LEMMA HoldsType ==
  ASSUME NEW x \in Ctxs, NEW q \in Seq(Frames), NEW o \in Seq(Outs), NEW i
  PROVE  /\ Is(x.m_head, i) \in Nat /\ Is(x.m_body, i) \in Nat
         /\ Cardinality(InQueue(q, i)) \in Nat /\ Cardinality(InOut(o, i)) \in Nat
  BY UsesCount, IsType

LEMMA OnConnOKOK == ASSUME IInv, NEW c \in Conn, OnConnOK(c) PROVE IInv'
<1>1. PICK e \in End : e = <<c, "cli">>
  BY EndIs
<1>2. /\ stat[e] = "connecting" /\ Room
      /\ stat' = [stat EXCEPT ![e] = "open"]
      /\ out' = SendHttpReq(e, m_first_send_cnt)
      /\ caches' = GenHttpReq(caches, m_first_send_cnt)
      /\ UNCHANGED <<ctx, wire, queue, asked, answered>>
  BY <1>1 DEF OnConnOK
<1>3. TypeOK /\ EndsOK /\ m_first_send_cnt \in Nat
  BY EchoAssumption DEF IInv
<1>4. /\ caches' \in Caches /\ out' \in [End -> Seq(Outs)]
      /\ \A d \in End \ {e} : out'[d] = out[d]
      /\ \A i \in Id :
           /\ Cardinality(InOut(out[e], i)) \in Nat
           /\ Cardinality(InOut(out'[e], i)) \in Nat
           /\ caches'[i].ref = caches[i].ref - Cardinality(InOut(out[e], i))
                                 + Cardinality(InOut(out'[e], i))
  BY <1>2, <1>3, SendIs
<1>5. TypeOK'
  BY <1>2, <1>3, <1>4 DEF TypeOK
<1>6. EndsOK'
  <2>1. EndOK(e)'
    BY <1>2, <1>3 DEF TypeOK, EndOK, EndsOK
  <2>2. \A d \in End \ {e} : EndOK(d)'
    BY <1>2, <1>3 DEF TypeOK, EndOK, EndsOK
  <2> QED BY <2>1, <2>2 DEF EndsOK
<1>7. Counted'
  <2>1. ctx[e] \in Ctxs /\ queue[e] \in Seq(Frames) /\ out[e] \in Seq(Outs)
        /\ out'[e] \in Seq(Outs)
    BY <1>3, <1>4 DEF TypeOK
  <2>2. ASSUME NEW i \in Id
        PROVE  caches'[i].ref = caches[i].ref - Holds(ctx[e], queue[e], out[e], i)
                                  + Holds(ctx[e], queue[e], out'[e], i)
    <3>1. caches[i].ref \in Int
      BY <1>3 DEF TypeOK, Caches
    <3> QED BY <1>4, <2>1, <3>1, HoldsType DEF Holds
  <2> QED BY <1>2, <1>4, <2>1, <2>2, CountedStep
<1> QED BY <1>5, <1>6, <1>7 DEF IInv

LEMMA OnCloseOK == ASSUME IInv, NEW e \in End, OnClose(e) PROVE IInv'
<1>1. TypeOK /\ EndsOK /\ Apart(queue[e])
  BY DEF IInv, EndsOK, EndOK
<1>2. ctx[e] \in Ctxs /\ queue[e] \in Seq(Frames) /\ out[e] \in Seq(Outs) /\ caches \in Caches
  BY <1>1 DEF TypeOK
<1>3. \A i : /\ Count(Held(e), i) \in Nat
             /\ Count(Held(e), i) = Holds(ctx[e], queue[e], out[e], i)
  BY <1>1, <1>2, HeldIs
<1>4. /\ caches' \in Caches
      /\ \A i \in Id : caches'[i].ref = caches[i].ref - Count(Held(e), i)
  BY <1>2, <1>3, DelAllIs DEF OnClose
<1>5. NoCtx \in Ctxs /\ NoCtx.m_head = None /\ NoCtx.m_body = None
  BY EchoAssumption DEF NoCtx, HttpCtx, Ctxs, Maybe, None
<1>6. <<>> \in Seq(Texts) /\ <<>> \in Seq(Frames) /\ <<>> \in Seq(Outs) /\ Apart(<<>>)
  BY EmptyQueue
<1>7. /\ ctx'[e] = NoCtx /\ queue'[e] = <<>> /\ out'[e] = <<>> /\ stat'[e] = "closed"
      /\ \A d \in End \ {e} : ctx'[d] = ctx[d] /\ queue'[d] = queue[d] /\ out'[d] = out[d]
                              /\ stat'[d] = stat[d]
  BY <1>1 DEF TypeOK, OnClose
<1>8. TypeOK'
  <2>1. /\ ctx' \in [End -> Ctxs] /\ wire' \in [End -> Seq(Texts)]
        /\ queue' \in [End -> Seq(Frames)] /\ out' \in [End -> Seq(Outs)]
    BY <1>1, <1>5, <1>6 DEF TypeOK, OnClose
  <2> QED BY <1>1, <1>4, <2>1 DEF TypeOK, OnClose
<1>9. EndsOK'
  <2>1. EndOK(e)'
    BY <1>5, <1>6, <1>7 DEF EndOK
  <2>2. \A d \in End \ {e} : EndOK(d)'
    BY <1>1, <1>7 DEF EndOK, EndsOK
  <2> QED BY <2>1, <2>2 DEF EndsOK
<1>10. Counted'
  <2>1. ASSUME NEW i \in Id
        PROVE  caches'[i].ref = caches[i].ref - Holds(ctx[e], queue[e], out[e], i)
                                  + Holds(ctx'[e], queue'[e], out'[e], i)
    <3>1. Holds(ctx'[e], queue'[e], out'[e], i) = 0
      BY <1>5, <1>7, NoneIs, EmptyQueue DEF Holds
    <3>2. caches[i].ref \in Int
      BY <1>2 DEF Caches
    <3> QED BY <1>3, <1>4, <3>1, <3>2
  <2>2. ctx'[e] \in Ctxs /\ queue'[e] \in Seq(Frames) /\ out'[e] \in Seq(Outs)
    BY <1>5, <1>6, <1>7
  <2> QED BY <1>7, <2>1, <2>2, CountedStep
<1> QED BY <1>8, <1>9, <1>10 DEF IInv
-------------------------------------------------------------------------------
(* Parsing                                                                   *)

\* A text is read into the context, which has a place for it.
LEMMA ReadStep ==
  ASSUME IInv, Room, NEW e \in End, NEW text \in Texts, NEW y \in Ctxs,
         stat[e] = "open",
         caches' = Alloc(caches, text), ctx' = [ctx EXCEPT ![e] = y],
         UNCHANGED <<stat, wire, queue, out, asked, answered>>,
         y.m_frame_beg = ctx[e].m_frame_beg,
         \/ /\ ctx[e].m_head = None
            /\ y.m_head = Unused(caches) /\ y.m_body = ctx[e].m_body
         \/ /\ ctx[e].m_head # None /\ ctx[e].m_body = None
            /\ y.m_head = ctx[e].m_head /\ y.m_body = Unused(caches)
  PROVE  IInv'
<1>1. TypeOK /\ EndsOK /\ EndOK(e)
  BY DEF IInv, EndsOK
<1>2. PICK j \in Id : /\ j = Unused(caches) /\ caches[j].ref = 0 /\ j # None
                      /\ \A d \in End : ctx[d].m_head # j
  BY RoomIs, NoneIs
<1>3. /\ ctx[e] \in Ctxs /\ queue[e] \in Seq(Frames) /\ out[e] \in Seq(Outs) /\ caches \in Caches
      /\ ctx'[e] = y /\ \A d \in End \ {e} : ctx'[d] = ctx[d]
  BY <1>1 DEF TypeOK
<1>4. caches' \in Caches /\ \A i \in Id : caches'[i].ref = caches[i].ref + Is(j, i)
  BY <1>2, <1>3, AllocIs
<1>5. TypeOK'
  BY <1>1, <1>4 DEF TypeOK
<1>6. EndsOK'
  <2>1. EndOK(e)'
    BY <1>1, <1>2, <1>3 DEF EndOK
  <2>2. \A d \in End \ {e} : EndOK(d)'
    BY <1>1, <1>3 DEF EndOK, EndsOK
  <2> QED BY <2>1, <2>2 DEF EndsOK
<1>7. Counted'
  <2>1. ASSUME NEW i \in Id
        PROVE  caches'[i].ref = caches[i].ref - Holds(ctx[e], queue[e], out[e], i)
                                  + Holds(y, queue[e], out[e], i)
    <3>1. /\ Is(j, i) \in Nat
          /\ Is(y.m_head, i) + Is(y.m_body, i) =
               (Is(ctx[e].m_head, i) + Is(ctx[e].m_body, i)) + Is(j, i)
      BY <1>2, NoneIs, IsType
    <3>2. caches[i].ref \in Int
      BY <1>3 DEF Caches
    <3>3. /\ Is(ctx[e].m_head, i) \in Nat /\ Is(ctx[e].m_body, i) \in Nat
          /\ Is(y.m_head, i) \in Nat /\ Is(y.m_body, i) \in Nat
          /\ Cardinality(InQueue(queue[e], i)) \in Nat
          /\ Cardinality(InOut(out[e], i)) \in Nat
      BY <1>3, HoldsType
    <3> QED BY <1>4, <3>1, <3>2, <3>3 DEF Holds
  <2> QED BY <1>3, <2>1, CountedStep
<1> QED BY <1>5, <1>6, <1>7 DEF IInv

LEMMA ReadHeadOK == ASSUME IInv, NEW e \in End, ReadHead(e) PROVE IInv'
<1>1. /\ ctx \in [End -> Ctxs] /\ ctx[e] \in Ctxs /\ wire[e] \in Seq(Texts) /\ wire[e] # <<>>
      /\ ctx[e].m_head = None /\ Room /\ stat[e] = "open"
  BY DEF IInv, TypeOK, ReadHead, Parses
<1>2. Head(wire[e]) \in Texts
  BY <1>1, TailIs
<1>3. PICK y : y = [ctx[e] EXCEPT !.m_head = Unused(caches)]
  OBVIOUS
<1>4. /\ y \in Ctxs /\ y.m_head = Unused(caches) /\ y.m_body = ctx[e].m_body
      /\ y.m_frame_beg = ctx[e].m_frame_beg
  BY <1>1, <1>3, RoomIs DEF Ctxs
<1>5. ctx' = [ctx EXCEPT ![e] = y]
  BY <1>1, <1>3 DEF ReadHead
<1>6. /\ caches' = Alloc(caches, Head(wire[e]))
      /\ UNCHANGED <<stat, wire, queue, out, asked, answered>>
  BY DEF ReadHead
<1> QED BY <1>1, <1>2, <1>4, <1>5, <1>6, ReadStep

LEMMA ReadBodyOK == ASSUME IInv, NEW e \in End, ReadBody(e) PROVE IInv'
<1>1. /\ ctx \in [End -> Ctxs] /\ ctx[e] \in Ctxs /\ wire[e] \in Seq(Texts) /\ wire[e] # <<>>
      /\ ctx[e].m_head # None /\ ctx[e].m_body = None /\ Room /\ stat[e] = "open"
      /\ EndOK(e)
  BY DEF IInv, TypeOK, EndsOK, ReadBody, Parses
<1>2. PICK text \in Texts : text = BodyText(<<Head(wire[e]).body[ctx[e].m_frame_beg + 1]>>)
  <2>1. PICK b \in Seq(Nat \X Nat) : b = Head(wire[e]).body
    <3>1. Head(wire[e]) \in Texts
      BY <1>1, TailIs
    <3> QED BY <3>1 DEF Texts
  <2>2. ctx[e].m_frame_beg \in Nat /\ ctx[e].m_frame_beg < Len(b)
    BY <1>1, <2>1 DEF EndOK, ReadBody
  <2>3. ctx[e].m_frame_beg + 1 \in 1 .. Len(b)
    BY <2>2, LenProperties
  <2>4. b[ctx[e].m_frame_beg + 1] \in Nat \X Nat
    BY <2>3, ElementOfSeq
  <2> QED BY <2>1, <2>4, TextTypes
<1>3. PICK y : y = [ctx[e] EXCEPT !.m_body = Unused(caches)]
  OBVIOUS
<1>4. /\ y \in Ctxs /\ y.m_head = ctx[e].m_head /\ y.m_body = Unused(caches)
      /\ y.m_frame_beg = ctx[e].m_frame_beg
  BY <1>1, <1>3, RoomIs DEF Ctxs
<1>5. ctx' = [ctx EXCEPT ![e] = y]
  BY <1>1, <1>3 DEF ReadBody
<1>6. caches' = Alloc(caches, text) /\ UNCHANGED <<stat, wire, queue, out, asked, answered>>
  BY <1>2 DEF ReadBody
<1> QED BY <1>1, <1>4, <1>5, <1>6, ReadStep

\* The frame becomes a user of the head and the body, the context gives up the
\* body and, at the end of the message, the head.
LEMMA DispatchCaches ==
  ASSUME NEW cs \in Caches, NEW x \in Ctxs, NEW isEnd \in BOOLEAN
  PROVE  LET ds == Del(CreatFrameHd(cs, x), x.m_body)
             es == IF isEnd THEN Del(ds, x.m_head) ELSE ds
         IN /\ es \in Caches
            /\ \A i \in Id : es[i].ref =
                 cs[i].ref + Is(x.m_head, i) - (IF isEnd THEN Is(x.m_head, i) ELSE 0)
<1>1. x.m_head \in Maybe /\ x.m_body \in Maybe
  BY DEF Ctxs
<1>2. PICK as \in Caches : as = Ref(cs, x.m_head)
  BY <1>1, RefIs
<1>3. PICK bs \in Caches : bs = Ref(as, x.m_body)
  BY <1>1, RefIs
<1>4. PICK ds \in Caches : ds = Del(bs, x.m_body)
  BY <1>1, DelIs
<1>5. PICK es \in Caches : es = Del(ds, x.m_head)
  BY <1>1, DelIs
<1>6. ASSUME NEW i \in Id
      PROVE  /\ ds[i].ref = cs[i].ref + Is(x.m_head, i)
             /\ es[i].ref = cs[i].ref + Is(x.m_head, i) - Is(x.m_head, i)
  <2>1. as[i].ref = cs[i].ref + Is(x.m_head, i)
    BY <1>1, <1>2, RefIs
  <2>2. bs[i].ref = as[i].ref + Is(x.m_body, i)
    BY <1>1, <1>3, RefIs
  <2>3. ds[i].ref = bs[i].ref - Is(x.m_body, i)
    BY <1>1, <1>4, DelIs
  <2>4. es[i].ref = ds[i].ref - Is(x.m_head, i)
    BY <1>1, <1>5, DelIs
  <2>5. cs[i].ref \in Int /\ Is(x.m_head, i) \in Nat /\ Is(x.m_body, i) \in Nat
    BY IsType DEF Caches
  <2> QED BY <2>1, <2>2, <2>3, <2>4, <2>5
<1>7. \A i \in Id : cs[i].ref \in Int /\ Is(x.m_head, i) \in Nat
  BY IsType DEF Caches
<1>8. ds = Del(CreatFrameHd(cs, x), x.m_body)
  BY <1>2, <1>3, <1>4 DEF CreatFrameHd
<1>9. CASE isEnd
  BY <1>5, <1>6, <1>8, <1>9
<1>10. CASE ~isEnd
  BY <1>6, <1>7, <1>8, <1>10
<1> QED BY <1>9, <1>10

LEMMA DispatchFrameOK == ASSUME IInv, NEW e \in End, DispatchFrame(e) PROVE IInv'
<1>1. TypeOK /\ EndsOK /\ EndOK(e) /\ Parses(e) /\ IsComplete(e)
  BY DEF IInv, EndsOK, DispatchFrame
<1>2. PICK x \in Ctxs, q \in Seq(Frames) : x = ctx[e] /\ q = queue[e]
  BY <1>1 DEF TypeOK
<1>3. PICK isEnd \in BOOLEAN : isEnd <=> x.m_frame_beg + 1 >= Len(Head(wire[e]).body)
  OBVIOUS
<1>4. PICK f : f = [m_head |-> x.m_head, m_body |-> x.m_body,
                    m_frame_beg |-> x.m_frame_beg, m_is_end |-> isEnd]
  OBVIOUS
<1>5. PICK y : y = IF isEnd THEN HttpCtx
                   ELSE [x EXCEPT !.m_body = None, !.m_frame_beg = @ + 1]
  OBVIOUS
<1>6. /\ queue' = [queue EXCEPT ![e] = Append(q, f)]
      /\ caches' = LET cs == Del(CreatFrameHd(caches, x), x.m_body)
                   IN IF isEnd THEN Del(cs, x.m_head) ELSE cs
      /\ ctx' = [ctx EXCEPT ![e] = y]
      /\ wire' = IF isEnd THEN [wire EXCEPT ![e] = Tail(@)] ELSE wire
      /\ UNCHANGED <<stat, out, asked, answered>>
  <2>1. (x.m_frame_beg + 1 >= Len(Head(wire[e]).body)) \in BOOLEAN
    <3>1. x.m_frame_beg \in Int
      BY DEF Ctxs
    <3>2. Head(wire[e]).body \in Seq(Nat \X Nat)
      <4>1. wire[e] \in Seq(Texts) /\ wire[e] # <<>>
        BY <1>1 DEF TypeOK, Parses
      <4>2. Head(wire[e]) \in Texts
        BY <4>1, TailIs
      <4> QED BY <4>2 DEF Texts
    <3>3. Len(Head(wire[e]).body) \in Int
      BY <3>2, LenProperties
    <3> QED BY <3>1, <3>3
  <2>2. isEnd = (x.m_frame_beg + 1 >= Len(Head(wire[e]).body))
    BY <1>3, <2>1
  <2> QED BY <1>2, <1>4, <1>5, <2>2 DEF DispatchFrame
<1>7. x.m_head \in Id /\ x.m_head # x.m_body /\ x.m_frame_beg \in Nat /\ Apart(q)
  BY <1>1, <1>2, EchoAssumption DEF IsComplete, EndOK, Parses, Ctxs, Maybe, Id, None
<1>8. f \in Frames
  BY <1>3, <1>4, <1>7 DEF Ctxs, Frames
<1>9. /\ Append(q, f) \in Seq(Frames) /\ Apart(Append(q, f))
      /\ \A i : /\ Cardinality(InQueue(q, i)) \in Nat
                /\ Cardinality(InQueue(Append(q, f), i)) =
                     Cardinality(InQueue(q, i)) + (Is(x.m_head, i) + Is(x.m_body, i))
  <2>1. f.m_head = x.m_head /\ f.m_body = x.m_body
    BY <1>4
  <2> QED BY <1>7, <1>8, <2>1, QueueAppend
<1>10. /\ y \in Ctxs /\ y.m_body = None /\ y.m_frame_beg \in Nat
       /\ y.m_head = IF isEnd THEN None ELSE x.m_head
  <2>1. CASE isEnd
    BY <1>5, <2>1, EchoAssumption DEF HttpCtx, Ctxs, Maybe, None
  <2>2. CASE ~isEnd
    <3>1. y = [m_head |-> x.m_head, m_body |-> None, m_frame_beg |-> x.m_frame_beg + 1]
      BY <1>5, <2>2 DEF Ctxs
    <3>2. None \in Maybe /\ x.m_frame_beg + 1 \in Nat
      BY <1>7, EchoAssumption DEF Maybe, None
    <3> QED BY <2>2, <3>1, <3>2 DEF Ctxs
  <2> QED BY <2>1, <2>2
<1>11. /\ caches' \in Caches
       /\ \A i \in Id : caches'[i].ref =
            caches[i].ref + Is(x.m_head, i) - (IF isEnd THEN Is(x.m_head, i) ELSE 0)
  <2>1. caches \in Caches
    BY <1>1 DEF TypeOK
  <2> QED BY <1>6, <2>1, DispatchCaches
<1>12. /\ ctx'[e] = y /\ queue'[e] = Append(q, f) /\ out'[e] = out[e] /\ out[e] \in Seq(Outs)
       /\ \A d \in End \ {e} : ctx'[d] = ctx[d] /\ queue'[d] = queue[d]
  BY <1>1, <1>6 DEF TypeOK
<1>13. TypeOK'
  <2>1. wire' \in [End -> Seq(Texts)]
    <3>1. Tail(wire[e]) \in Seq(Texts) /\ wire \in [End -> Seq(Texts)]
      BY <1>1, TailIs DEF TypeOK, Parses
    <3> QED BY <1>6, <3>1
  <2>2. ctx' \in [End -> Ctxs] /\ queue' \in [End -> Seq(Frames)]
    BY <1>1, <1>6, <1>9, <1>10 DEF TypeOK
  <2> QED BY <1>1, <1>6, <1>11, <2>1, <2>2 DEF TypeOK
<1>14. EndsOK'
  <2>1. EndOK(e)'
    BY <1>1, <1>6, <1>9, <1>10, <1>12 DEF EndOK, Parses
  <2>2. \A d \in End \ {e} : EndOK(d)'
    BY <1>1, <1>6, <1>12 DEF EndOK, EndsOK
  <2> QED BY <2>1, <2>2 DEF EndsOK
<1>15. Counted'
  <2>1. ASSUME NEW i \in Id
        PROVE  caches'[i].ref = caches[i].ref - Holds(x, q, out[e], i)
                                  + Holds(y, Append(q, f), out[e], i)
    <3>1. caches[i].ref \in Int /\ Cardinality(InOut(out[e], i)) \in Nat
          /\ Is(x.m_head, i) \in Nat /\ Is(x.m_body, i) \in Nat
      BY <1>1, <1>12, HoldsType DEF TypeOK, Caches
    <3>2. /\ Is(y.m_body, i) = 0
          /\ Is(y.m_head, i) = IF isEnd THEN 0 ELSE Is(x.m_head, i)
      BY <1>10, NoneIs
    <3> QED BY <1>9, <1>11, <3>1, <3>2 DEF Holds
  <2>2. \A i \in Id : caches'[i].ref = caches[i].ref - Holds(ctx[e], queue[e], out[e], i)
                                           + Holds(ctx'[e], queue'[e], out'[e], i)
    BY <1>2, <1>12, <2>1
  <2>3. /\ ctx'[e] \in Ctxs /\ queue'[e] \in Seq(Frames) /\ out'[e] \in Seq(Outs)
        /\ \A d \in End \ {e} : ctx'[d] = ctx[d] /\ queue'[d] = queue[d] /\ out'[d] = out[d]
    BY <1>6, <1>9, <1>10, <1>12
  <2> QED BY <2>2, <2>3, CountedStep
<1> QED BY <1>13, <1>14, <1>15 DEF IInv
-------------------------------------------------------------------------------
(* Processing and writing                                                    *)

\* What a dealer takes for its answer p is counted in cs; then the frame is freed.
LEMMA ProcessStep ==
  ASSUME IInv, NEW e \in End, NEW cs \in Caches, NEW p \in Seq(Outs),
         stat[e] \in {"open", "closing"}, queue[e] # <<>>,
         \A i \in Id : cs[i].ref = caches[i].ref - Cardinality(InOut(out[e], i))
                                     + Cardinality(InOut(p, i)),
         caches' = DelFrame(cs, Head(queue[e])),
         queue' = [queue EXCEPT ![e] = Tail(@)],
         out' = [out EXCEPT ![e] = p],
         stat' = stat \/ stat' = [stat EXCEPT ![e] = "closing"],
         UNCHANGED <<ctx, wire, asked, answered>>
  PROVE  IInv'
<1>1. TypeOK /\ EndsOK /\ EndOK(e)
  BY DEF IInv, EndsOK
<1>2. PICK q \in Seq(Frames) : q = queue[e] /\ q # <<>> /\ Apart(q)
  BY <1>1 DEF TypeOK, EndOK
<1>3. PICK f \in Frames : f = Head(q)
  BY <1>2, QueueTail
<1>4. /\ Tail(q) \in Seq(Frames) /\ Apart(Tail(q))
      /\ \A i : /\ Cardinality(InQueue(q, i)) \in Nat
                /\ Cardinality(InQueue(Tail(q), i)) \in Nat
                /\ Cardinality(InQueue(q, i)) =
                     (Is(f.m_head, i) + Is(f.m_body, i)) + Cardinality(InQueue(Tail(q), i))
  BY <1>2, <1>3, QueueTail
<1>5. /\ caches' \in Caches
      /\ \A i \in Id : caches'[i].ref = cs[i].ref - (Is(f.m_head, i) + Is(f.m_body, i))
  BY <1>2, <1>3, DelFrameIs
<1>6. /\ queue'[e] = Tail(q) /\ out'[e] = p
      /\ \A d \in End \ {e} : queue'[d] = queue[d] /\ out'[d] = out[d]
      /\ ctx[e] \in Ctxs /\ out[e] \in Seq(Outs)
  BY <1>1, <1>2 DEF TypeOK
<1>7. /\ stat' \in [End -> {"none", "connecting", "open", "closing", "closed"}]
      /\ stat'[e] \in {"open", "closing"}
      /\ \A d \in End \ {e} : stat'[d] = stat[d]
  BY <1>1 DEF TypeOK
<1>8. TypeOK'
  <2>1. queue' \in [End -> Seq(Frames)] /\ out' \in [End -> Seq(Outs)]
    BY <1>1, <1>2, <1>4 DEF TypeOK
  <2> QED BY <1>1, <1>5, <1>7, <2>1 DEF TypeOK
<1>9. EndsOK'
  <2>1. EndOK(e)'
    BY <1>1, <1>4, <1>6, <1>7 DEF EndOK
  <2>2. \A d \in End \ {e} : EndOK(d)'
    BY <1>1, <1>6, <1>7 DEF EndOK, EndsOK
  <2> QED BY <2>1, <2>2 DEF EndsOK
<1>10. Counted'
  <2>1. ASSUME NEW i \in Id
        PROVE  caches'[i].ref = caches[i].ref - Holds(ctx[e], q, out[e], i)
                                  + Holds(ctx[e], Tail(q), p, i)
    <3>1. caches[i].ref \in Int
      BY <1>1 DEF TypeOK, Caches
    <3>2. /\ Is(ctx[e].m_head, i) \in Nat /\ Is(ctx[e].m_body, i) \in Nat
          /\ Is(f.m_head, i) \in Nat /\ Is(f.m_body, i) \in Nat
          /\ Cardinality(InOut(out[e], i)) \in Nat /\ Cardinality(InOut(p, i)) \in Nat
      BY <1>4, <1>6, HoldsType, IsType
    <3>3. cs[i].ref = caches[i].ref - Cardinality(InOut(out[e], i)) + Cardinality(InOut(p, i))
      OBVIOUS
    <3>4. PICK u \in Nat : u = Is(f.m_head, i) + Is(f.m_body, i)
      BY <3>2
    <3>5. /\ caches'[i].ref = cs[i].ref - u
          /\ Cardinality(InQueue(Tail(q), i)) \in Nat
          /\ Cardinality(InQueue(q, i)) = u + Cardinality(InQueue(Tail(q), i))
      BY <1>4, <1>5, <3>4
    <3> QED BY <3>1, <3>2, <3>3, <3>5 DEF Holds
  <2>2. \A i \in Id : caches'[i].ref = caches[i].ref - Holds(ctx[e], queue[e], out[e], i)
                                           + Holds(ctx'[e], queue'[e], out'[e], i)
    BY <1>2, <1>6, <2>1
  <2>3. /\ ctx'[e] \in Ctxs /\ queue'[e] \in Seq(Frames) /\ out'[e] \in Seq(Outs)
        /\ \A d \in End \ {e} : ctx'[d] = ctx[d] /\ queue'[d] = queue[d] /\ out'[d] = out[d]
    BY <1>4, <1>6
  <2> QED BY <2>2, <2>3, CountedStep
<1> QED BY <1>8, <1>9, <1>10 DEF IInv

\* One more message, with the body in cache j, of which it is the only new user.
LEMMA AnswerIs ==
  ASSUME IInv, NEW e \in End, NEW s \in Outs, NEW cs \in Caches,
         \A i \in Id : cs[i].ref = caches[i].ref + Is(s.cache, i)
  PROVE  /\ Append(out[e], s) \in Seq(Outs)
         /\ \A i \in Id : cs[i].ref = caches[i].ref - Cardinality(InOut(out[e], i))
                                        + Cardinality(InOut(Append(out[e], s), i))
<1>1. out[e] \in Seq(Outs) /\ \A i \in Id : caches[i].ref \in Int
  BY DEF IInv, TypeOK, Caches
<1>2. /\ Append(out[e], s) \in Seq(Outs)
      /\ \A i : /\ Cardinality(InOut(out[e], i)) \in Nat
                /\ Cardinality(InOut(Append(out[e], s), i)) =
                     Cardinality(InOut(out[e], i)) + Is(s.cache, i)
  BY <1>1, OutAppend
<1> QED BY <1>1, <1>2, IsType

\* No answer.
LEMMA NoAnswer ==
  ASSUME IInv, NEW e \in End
  PROVE  /\ out[e] \in Seq(Outs) /\ out = [out EXCEPT ![e] = out[e]] /\ caches \in Caches
         /\ \A i \in Id : caches[i].ref = caches[i].ref - Cardinality(InOut(out[e], i))
                                            + Cardinality(InOut(out[e], i))
<1>1. out \in [End -> Seq(Outs)] /\ out[e] \in Seq(Outs) /\ caches \in Caches
  BY DEF IInv, TypeOK
<1>2. \A i \in Id : caches[i].ref \in Int /\ Cardinality(InOut(out[e], i)) \in Nat
  BY <1>1, EmptyQueue, OutTail DEF Caches
<1> QED BY <1>1, <1>2

LEMMA ProcessOK == ASSUME IInv, NEW e \in End, Process(e) PROVE IInv'
<1>1. PICK f \in Frames : f = Head(queue[e]) /\ f.m_head \in Id
  <2>1. queue[e] \in Seq(Frames) /\ queue[e] # <<>>
    BY DEF IInv, TypeOK, Process
  <2>2. Head(queue[e]) \in Frames
    BY <2>1, TailIs
  <2> QED BY <2>2 DEF Frames
<1>2. PICK m \in Texts : m = caches[f.m_head].text
  BY <1>1 DEF IInv, TypeOK, Caches
<1>3. /\ stat[e] \in {"open", "closing"} /\ queue[e] # <<>>
      /\ queue' = [queue EXCEPT ![e] = Tail(@)]
      /\ UNCHANGED <<ctx, wire, asked, answered>>
      /\ Again(e, f) \/ Rtsp(e, f, m) \/ Demo(e, f, m)
  BY <1>1, <1>2 DEF Process
<1>4. out \in [End -> Seq(Outs)] /\ caches \in Caches
  BY DEF IInv, TypeOK
<1>5. Reply(m) \in Texts
  <2>1. <<>> \in Seq(Nat \X Nat)
    OBVIOUS
  <2> QED BY <2>1 DEF Reply, Texts
<1>6. CASE Again(e, f)
  <2>1. /\ Room /\ stat' = stat /\ out' = SendHttpReq(e, 1)
        /\ caches' = DelFrame(GenHttpReq(caches, 1), f)
    BY <1>6 DEF Again
  <2>2. PICK n \in Nat : n = 1
    OBVIOUS
  <2>3. PICK p : p = SendHttpReq(e, n)[e]
    OBVIOUS
  <2>4. /\ GenHttpReq(caches, n) \in Caches
        /\ SendHttpReq(e, n) \in [End -> Seq(Outs)]
        /\ \A d \in End \ {e} : SendHttpReq(e, n)[d] = out[d]
        /\ \A i \in Id : GenHttpReq(caches, n)[i].ref =
             caches[i].ref - Cardinality(InOut(out[e], i)) + Cardinality(InOut(p, i))
    BY <2>1, <2>3, SendIs
  <2>5. p \in Seq(Outs) /\ out' = [out EXCEPT ![e] = p]
    BY <1>4, <2>1, <2>2, <2>3, <2>4
  <2>6. caches' = DelFrame(GenHttpReq(caches, n), Head(queue[e]))
    BY <1>1, <2>1, <2>2
  <2> QED BY <1>3, <2>1, <2>4, <2>5, <2>6, ProcessStep
<1>7. CASE Rtsp(e, f, m)
  <2>1. CASE stat[e] = "open"
    <3>1. /\ Room /\ stat' = stat
          /\ out' = [out EXCEPT ![e] = Append(@, Sent(Reply(m), Unused(caches)))]
          /\ caches' = DelFrame(Alloc(caches, BodyText(<<Sdp>>)), f)
      BY <1>7, <2>1 DEF Rtsp
    <3>2. PICK j \in Id : j = Unused(caches) /\ caches[j].ref = 0 /\ j \in Maybe
      BY <3>1, RoomIs
    <3>3. PICK cs \in Caches : /\ cs = Alloc(caches, BodyText(<<Sdp>>))
                               /\ \A i \in Id : cs[i].ref = caches[i].ref + Is(j, i)
      BY <1>4, <3>2, AllocIs, TextTypes
    <3>4. PICK s \in Outs : s = Sent(Reply(m), j) /\ s.cache = j
      <4>1. Sent(Reply(m), j) \in Outs /\ Sent(Reply(m), j).cache = j
        BY <1>5, <3>2 DEF Sent, Outs
      <4> QED BY <4>1
    <3>5. /\ Append(out[e], s) \in Seq(Outs)
          /\ \A i \in Id : cs[i].ref = caches[i].ref - Cardinality(InOut(out[e], i))
                                         + Cardinality(InOut(Append(out[e], s), i))
      BY <3>3, <3>4, AnswerIs
    <3>6. /\ out' = [out EXCEPT ![e] = Append(out[e], s)]
          /\ caches' = DelFrame(cs, Head(queue[e]))
      BY <1>1, <3>1, <3>2, <3>3, <3>4
    <3> QED BY <1>3, <3>1, <3>5, <3>6, ProcessStep
  <2>2. CASE stat[e] # "open"
    <3>1. out' = out /\ stat' = stat /\ caches' = DelFrame(caches, Head(queue[e]))
      BY <1>1, <1>7, <2>2 DEF Rtsp
    <3>2. /\ out[e] \in Seq(Outs) /\ out' = [out EXCEPT ![e] = out[e]]
          /\ \A i \in Id : caches[i].ref = caches[i].ref - Cardinality(InOut(out[e], i))
                                             + Cardinality(InOut(out[e], i))
      BY <3>1, NoAnswer
    <3> QED BY <1>3, <1>4, <3>1, <3>2, ProcessStep
  <2> QED BY <2>1, <2>2
<1>8. CASE Demo(e, f, m)
  <2>1. stat' = stat \/ stat' = [stat EXCEPT ![e] = "closing"]
    BY <1>8 DEF Demo
  <2>2. CASE Answers(f) /\ stat[e] = "open"
    <3>1. /\ out' = [out EXCEPT ![e] = Append(@, Sent(Reply(m), f.m_body))]
          /\ caches' = DelFrame(Ref(caches, f.m_body), f)
      BY <1>8, <2>2 DEF Demo
    <3>2. PICK j \in Maybe : j = f.m_body
      BY DEF Frames
    <3>3. PICK cs \in Caches : /\ cs = Ref(caches, j)
                               /\ \A i \in Id : cs[i].ref = caches[i].ref + Is(j, i)
      BY <1>4, RefIs
    <3>4. PICK s \in Outs : s = Sent(Reply(m), j) /\ s.cache = j
      <4>1. Sent(Reply(m), j) \in Outs /\ Sent(Reply(m), j).cache = j
        BY <1>5 DEF Sent, Outs
      <4> QED BY <4>1
    <3>5. /\ Append(out[e], s) \in Seq(Outs)
          /\ \A i \in Id : cs[i].ref = caches[i].ref - Cardinality(InOut(out[e], i))
                                         + Cardinality(InOut(Append(out[e], s), i))
      BY <3>3, <3>4, AnswerIs
    <3>6. /\ out' = [out EXCEPT ![e] = Append(out[e], s)]
          /\ caches' = DelFrame(cs, Head(queue[e]))
      BY <1>1, <3>1, <3>2, <3>3, <3>4
    <3> QED BY <1>3, <2>1, <3>5, <3>6, ProcessStep
  <2>3. CASE ~(Answers(f) /\ stat[e] = "open")
    <3>1. out' = out /\ caches' = DelFrame(caches, Head(queue[e]))
      BY <1>1, <1>8, <2>3 DEF Demo
    <3>2. /\ out[e] \in Seq(Outs) /\ out' = [out EXCEPT ![e] = out[e]]
          /\ \A i \in Id : caches[i].ref = caches[i].ref - Cardinality(InOut(out[e], i))
                                             + Cardinality(InOut(out[e], i))
      BY <3>1, NoAnswer
    <3> QED BY <1>3, <1>4, <2>1, <3>1, <3>2, ProcessStep
  <2> QED BY <2>2, <2>3
<1> QED BY <1>3, <1>6, <1>7, <1>8

LEMMA WriteOK == ASSUME IInv, NEW e \in End, Write(e) PROVE IInv'
<1>1. TypeOK /\ EndsOK
  BY DEF IInv
<1>2. PICK o \in Seq(Outs) : o = out[e] /\ o # <<>>
  BY <1>1 DEF TypeOK, Write
<1>3. PICK s \in Outs : s = Head(o) /\ s.hd \in Texts /\ s.cache \in Maybe
  <2>1. Head(o) \in Outs
    BY <1>2, TailIs
  <2> QED BY <2>1 DEF Outs
<1>4. /\ Tail(o) \in Seq(Outs)
      /\ \A i : /\ Cardinality(InOut(o, i)) \in Nat
                /\ Cardinality(InOut(Tail(o), i)) \in Nat
                /\ Cardinality(InOut(o, i)) =
                     Is(s.cache, i) + Cardinality(InOut(Tail(o), i))
  BY <1>2, <1>3, OutTail
<1>5. PICK body : body = IF s.cache = None THEN <<>> ELSE caches[s.cache].text.body
  OBVIOUS
<1>6. PICK msg : msg = [s.hd EXCEPT !.body = body]
  OBVIOUS
<1>7. /\ caches' = Del(caches, s.cache)
      /\ wire' = IF e[1] \in Cli /\ stat[Peer(e)] \in {"none", "open"}
                 THEN [wire EXCEPT ![Peer(e)] = Append(@, msg)] ELSE wire
      /\ answered' = IF e[1] \in Cli THEN answered
                     ELSE [answered EXCEPT ![e[1]] = Append(@, msg)]
      /\ out' = [out EXCEPT ![e] = Tail(o)]
      /\ UNCHANGED <<stat, ctx, queue, asked>>
  BY <1>2, <1>3, <1>5, <1>6 DEF Write
<1>8. msg \in Texts
  <2>1. body \in Seq(Nat \X Nat)
    <3>1. CASE s.cache = None
      BY <1>5, <3>1
    <3>2. CASE s.cache # None
      <4>1. s.cache \in Id
        BY <1>3, <3>2, EchoAssumption DEF Maybe, Id, None
      <4>2. caches[s.cache].text \in Texts
        BY <1>1, <4>1 DEF TypeOK, Caches
      <4> QED BY <1>5, <3>2, <4>2 DEF Texts
    <3> QED BY <3>1, <3>2
  <2> QED BY <1>3, <1>6, <2>1 DEF Texts
<1>9. /\ caches \in Caches /\ caches' \in Caches
      /\ \A i \in Id : caches'[i].ref = caches[i].ref - Is(s.cache, i)
  BY <1>1, <1>3, <1>7, DelIs DEF TypeOK
<1>10. /\ out'[e] = Tail(o) /\ ctx[e] \in Ctxs /\ queue[e] \in Seq(Frames)
       /\ \A d \in End \ {e} : out'[d] = out[d]
  BY <1>1, <1>7 DEF TypeOK
<1>11. TypeOK'
  <2>1. Peer(e) \in End /\ e[1] \in Conn
    BY DEF Peer, End
  <2>2. wire' \in [End -> Seq(Texts)]
    <3>1. wire \in [End -> Seq(Texts)] /\ wire[Peer(e)] \in Seq(Texts)
      BY <1>1, <2>1 DEF TypeOK
    <3>2. Append(wire[Peer(e)], msg) \in Seq(Texts)
      BY <1>8, <3>1, AppendIs
    <3> QED BY <1>7, <2>1, <3>1, <3>2
  <2>3. answered' \in [Conn -> Seq(Texts)]
    <3>1. answered \in [Conn -> Seq(Texts)] /\ answered[e[1]] \in Seq(Texts)
      BY <1>1, <2>1 DEF TypeOK
    <3>2. Append(answered[e[1]], msg) \in Seq(Texts)
      BY <1>8, <3>1, AppendIs
    <3> QED BY <1>7, <2>1, <3>1, <3>2
  <2>4. out' \in [End -> Seq(Outs)]
    BY <1>1, <1>4, <1>7 DEF TypeOK
  <2> QED BY <1>1, <1>7, <1>9, <2>2, <2>3, <2>4 DEF TypeOK
<1>12. EndsOK'
  BY <1>1, <1>7 DEF EndsOK, EndOK
<1>13. Counted'
  <2>1. ASSUME NEW i \in Id
        PROVE  caches'[i].ref = caches[i].ref - Holds(ctx[e], queue[e], o, i)
                                  + Holds(ctx[e], queue[e], Tail(o), i)
    <3>1. caches[i].ref \in Int
      BY <1>9 DEF Caches
    <3>2. /\ Is(ctx[e].m_head, i) \in Nat /\ Is(ctx[e].m_body, i) \in Nat
          /\ Is(s.cache, i) \in Nat /\ Cardinality(InQueue(queue[e], i)) \in Nat
      BY <1>2, <1>10, HoldsType, IsType
    <3> QED BY <1>4, <1>9, <3>1, <3>2 DEF Holds
  <2>2. \A i \in Id : caches'[i].ref = caches[i].ref - Holds(ctx[e], queue[e], out[e], i)
                                           + Holds(ctx'[e], queue'[e], out'[e], i)
    BY <1>2, <1>7, <1>10, <2>1
  <2>3. /\ ctx'[e] \in Ctxs /\ queue'[e] \in Seq(Frames) /\ out'[e] \in Seq(Outs)
        /\ \A d \in End \ {e} : ctx'[d] = ctx[d] /\ queue'[d] = queue[d] /\ out'[d] = out[d]
    BY <1>4, <1>7, <1>10
  <2> QED BY <2>2, <2>3, CountedStep
<1> QED BY <1>11, <1>12, <1>13 DEF IInv

-------------------------------------------------------------------------------
(* Theorems                                                                  *)

LEMMA NextOK == IInv /\ [Next]_vars => IInv'
<1> SUFFICES ASSUME IInv, [Next]_vars PROVE IInv'
  OBVIOUS
<1>1. CASE UNCHANGED vars
  BY <1>1 DEF vars, IInv, TypeOK, EndsOK, EndOK, Counted
<1>2. CASE \E c \in Conn : OnNewSock(c) \/ AddCli(c) \/ OnConnOK(c) \/ OnConnFail(c) \/ Ask(c)
  BY <1>2, OnNewSockOK, AddCliOK, OnConnOKOK, OnConnFailOK, AskOK
<1>3. CASE \E e \in End : OnClose(e) \/ ParseData(e) \/ Process(e) \/ Write(e)
  BY <1>3, OnCloseOK, ReadHeadOK, ReadBodyOK, DispatchFrameOK, ProcessOK, WriteOK DEF ParseData
<1> QED BY <1>1, <1>2, <1>3 DEF Next

\* The counts of the caches, and what a context and a frame may hold, are kept by
\* every step of both ends of every connection.
THEOREM Invariance == Spec => []IInv
<1>1. Spec => Init /\ [][Next]_vars
  BY PTL DEF Spec
<1> QED BY <1>1, InitOK, NextOK, PTL

\* A cache counts its users, the contexts, frames and messages that share its text,
\* whoever gives it up last and whenever a connection ends.
THEOREM UsersAreCounted == Spec => []UsersCounted
<1>1. IInv => UsersCounted
  BY UsersIs DEF IInv, Counted, UsersCounted
<1> QED BY <1>1, Invariance, PTL
-------------------------------------------------------------------------------
(* Whose reply is whose.  In the operators below cs are the caches, a the    *)
(* requests of a peer, p of which were parsed to their end, w what is on the *)
(* wire, x the context, q the frames that wait and o the replies to write of *)
(* the end that serves it, n the number of replies it has written.           *)

\* The body of the reply to r, and the reply.
BodyOf(r) == IF r.rtsp THEN <<Sdp>> ELSE IF r.body = <<>> THEN <<>> ELSE <<r.body[1]>>
Answer(r) == [id |-> r.id, rtsp |-> r.rtsp, alive |-> r.alive, body |-> BodyOf(r)]

\* Requests are numbered, and what was not parsed of them is on the wire.
AskedOK(a) == \A k \in DOMAIN a : a[k].id = k /\ (a[k].rtsp => Len(a[k].body) <= 1)
WireOK(a, p, w) ==
  /\ p \in Nat /\ Len(a) = p + Len(w)
  /\ \A k \in DOMAIN w : w[k] = a[p + k]

\* The context has texts of the request that is being parsed.
CtxOK(cs, x, w) ==
  /\ x.m_head # None => w # <<>> /\ cs[x.m_head].text = w[1]
  /\ x.m_body # None => /\ x.m_frame_beg < Len(w[1].body)
                        /\ cs[x.m_body].text = BodyText(<<w[1].body[x.m_frame_beg + 1]>>)
  /\ x.m_frame_beg > 0 => x.m_head # None /\ x.m_frame_beg < Len(w[1].body)

\* A frame has the head of a request and its piece of the body.
PieceOK(cs, f, r) ==
  /\ f.m_frame_beg \in Nat
  /\ f.m_is_end <=> f.m_frame_beg + 1 >= Len(r.body)
  /\ r.body = <<>> => f.m_body = None /\ f.m_frame_beg = 0
  /\ r.body # <<>> => /\ f.m_body # None /\ f.m_frame_beg < Len(r.body)
                      /\ cs[f.m_body].text = BodyText(<<r.body[f.m_frame_beg + 1]>>)
FrameOK(cs, a, p, f) ==
  LET r == cs[f.m_head].text
  IN /\ r.id \in DOMAIN a /\ r = a[r.id]
     /\ r.id <= p + 1 /\ (f.m_is_end => r.id <= p)
     /\ PieceOK(cs, f, r)
FramesOK(cs, a, p, q) == \A k \in DOMAIN q : FrameOK(cs, a, p, q[k])

\* The k-th frame that waits, and behind the last one that which is parsed next: the
\* number of its request, and its place in it.
IdAt(cs, p, q, k) == IF k \in DOMAIN q THEN cs[q[k].m_head].text.id ELSE p + 1
BegAt(x, q, k) == IF k \in DOMAIN q THEN q[k].m_frame_beg ELSE x.m_frame_beg

\* Each frame is followed by the next one of its request, or the first of the next.
Follows(cs, p, x, q, k) ==
  IF q[k].m_is_end
  THEN IdAt(cs, p, q, k + 1) = IdAt(cs, p, q, k) + 1 /\ BegAt(x, q, k + 1) = 0
  ELSE IdAt(cs, p, q, k + 1) = IdAt(cs, p, q, k) /\ BegAt(x, q, k + 1) = BegAt(x, q, k) + 1
ChainOK(cs, p, x, q) == \A k \in DOMAIN q : Follows(cs, p, x, q, k)

\* A request has been replied to, as one of r, when its first frame was processed.
TurnOK(cs, p, x, q, r) ==
  IdAt(cs, p, q, 1) = r + (IF BegAt(x, q, 1) = 0 THEN 1 ELSE 0)

\* A message that is sent is the reply to the k-th request.
ReplyOK(cs, a, s, k) ==
  /\ k \in DOMAIN a
  /\ s.hd = Reply(a[k])
  /\ s.cache = None => BodyOf(a[k]) = <<>>
  /\ s.cache # None => cs[s.cache].text = BodyText(BodyOf(a[k]))
RepliesOK(cs, a, o, n) == \A k \in DOMAIN o : ReplyOK(cs, a, o[k], n + k)
AnswersOK(a, b) == \A k \in DOMAIN b : k \in DOMAIN a /\ b[k] = Answer(a[k])

\* The connection is closed after a request that asks for it.
LastOK(a, p, r) ==
  \E k \in DOMAIN a : ~a[k].alive /\ ~a[k].rtsp /\ k <= r /\ k <= p

\* The end that serves a peer, in the state st, with the requests a and the replies b
\* that were written.
Serves(st, x, w, q, o, cs, a, b) ==
  LET p == Len(a) - Len(w)
      n == Len(b)
      r == Len(b) + Len(o)
  IN /\ st = "none" => a = <<>> /\ b = <<>> /\ w = <<>> /\ q = <<>> /\ o = <<>>
     /\ AskedOK(a) /\ WireOK(a, p, w) /\ CtxOK(cs, x, w)
     /\ FramesOK(cs, a, p, q) /\ ChainOK(cs, p, x, q)
     /\ st = "open" => TurnOK(cs, p, x, q, r)
     /\ RepliesOK(cs, a, o, n) /\ AnswersOK(a, b)
     /\ st = "closing" => LastOK(a, p, r)

PeerOK(c) ==
  LET e == <<c, "svr">>
  IN /\ stat[<<c, "cli">>] \in {"none", "closed"}
     /\ Serves(stat[e], ctx[e], wire[e], queue[e], out[e], caches, asked[c], answered[c])

\* HttpCli never asks for the end of its connection, nor for RTSP.
Plain(t) == t.alive /\ ~t.rtsp
LoadOK(c) ==
  LET e == Svr(c)
      d == <<c, "cli">>
  IN /\ \A k \in DOMAIN out[d] : out[d][k].hd = CliRequest
     /\ \A k \in DOMAIN wire[e] : Plain(wire[e][k])
     /\ ctx[e].m_head # None => Plain(caches[ctx[e].m_head].text)
     /\ \A k \in DOMAIN queue[e] : Plain(caches[queue[e][k].m_head].text)
     /\ stat[e] # "closing"

EInv == IInv /\ (\A c \in Conn \ Cli : PeerOK(c)) /\ (\A c \in Cli : LoadOK(c))
-------------------------------------------------------------------------------
(* A text stays as long as it has a user                                     *)

InUse(cs, i) == i # None => i \in Id /\ cs[i].ref > 0
UsedOK == \A e \in End :
  /\ InUse(caches, ctx[e].m_head) /\ InUse(caches, ctx[e].m_body)
  /\ \A k \in DOMAIN queue[e] :
       /\ queue[e][k].m_head # None
       /\ InUse(caches, queue[e][k].m_head) /\ InUse(caches, queue[e][k].m_body)
  /\ \A k \in DOMAIN out[e] : InUse(caches, out[e][k].cache)

LEMMA Used == IInv => UsedOK
<1> SUFFICES ASSUME IInv, NEW e \in End
             PROVE  /\ InUse(caches, ctx[e].m_head) /\ InUse(caches, ctx[e].m_body)
                    /\ \A k \in DOMAIN queue[e] :
                         /\ queue[e][k].m_head # None
                         /\ InUse(caches, queue[e][k].m_head)
                         /\ InUse(caches, queue[e][k].m_body)
                    /\ \A k \in DOMAIN out[e] : InUse(caches, out[e][k].cache)
  BY DEF UsedOK
<1>1. ctx[e] \in Ctxs /\ queue[e] \in Seq(Frames) /\ out[e] \in Seq(Outs)
  BY DEF IInv, TypeOK
<1>2. \A j \in Maybe : j # None => j \in Id
  BY EchoAssumption DEF Maybe, Id, None
<1>3. ASSUME NEW i \in Id, NEW u \in UsersIn(ctx, queue, out, i) PROVE caches[i].ref > 0
  <2>1. /\ IsFiniteSet(UsersIn(ctx, queue, out, i)) /\ UsersIn(ctx, queue, out, i) # {}
        /\ caches[i].ref = Cardinality(UsersIn(ctx, queue, out, i))
    BY <1>3 DEF IInv, Counted
  <2>2. Cardinality(UsersIn(ctx, queue, out, i)) \in Nat
    BY <2>1, FS_CardinalityType
  <2>3. Cardinality(UsersIn(ctx, queue, out, i)) # 0
    BY <2>1, FS_EmptySet
  <2> QED BY <2>1, <2>2, <2>3
<1>4. \A i \in Id : (\E u : u \in Uses(e, ctx[e], queue[e], out[e], i)) => caches[i].ref > 0
  BY <1>3, UsersAre
<1>5. /\ \A i \in Id : ctx[e].m_head = i => <<e, "head">> \in Uses(e, ctx[e], queue[e], out[e], i)
      /\ \A i \in Id : ctx[e].m_body = i => <<e, "body">> \in Uses(e, ctx[e], queue[e], out[e], i)
  BY DEF Uses
<1>6. \A i \in Id, k \in DOMAIN queue[e] :
        queue[e][k].m_head = i \/ queue[e][k].m_body = i =>
          <<e, "queue", k>> \in Uses(e, ctx[e], queue[e], out[e], i)
  BY DEF Uses, Tagged, InQueue
<1>7. \A i \in Id, k \in DOMAIN out[e] :
        out[e][k].cache = i => <<e, "out", k>> \in Uses(e, ctx[e], queue[e], out[e], i)
  BY DEF Uses, Tagged, InOut
<1>8. ctx[e].m_head \in Maybe /\ ctx[e].m_body \in Maybe
  BY <1>1 DEF Ctxs
<1>9. \A k \in DOMAIN queue[e] : queue[e][k].m_head \in Id /\ queue[e][k].m_body \in Maybe
  <2>1. \A k \in DOMAIN queue[e] : queue[e][k] \in Frames
    BY <1>1, LenProperties, ElementOfSeq
  <2> QED BY <2>1 DEF Frames
<1>10. \A k \in DOMAIN out[e] : out[e][k].cache \in Maybe
  <2>1. \A k \in DOMAIN out[e] : out[e][k] \in Outs
    BY <1>1, LenProperties, ElementOfSeq
  <2> QED BY <2>1 DEF Outs
<1>11. /\ ctx[e].m_head # None => ctx[e].m_head \in Id /\ caches[ctx[e].m_head].ref > 0
       /\ ctx[e].m_body # None => ctx[e].m_body \in Id /\ caches[ctx[e].m_body].ref > 0
  BY <1>2, <1>4, <1>5, <1>8
<1>12. \A k \in DOMAIN queue[e] :
         /\ queue[e][k].m_head \in Id /\ caches[queue[e][k].m_head].ref > 0
         /\ queue[e][k].m_body # None =>
              queue[e][k].m_body \in Id /\ caches[queue[e][k].m_body].ref > 0
  BY <1>2, <1>4, <1>6, <1>9
<1>13. \A k \in DOMAIN out[e] : out[e][k].cache # None =>
         out[e][k].cache \in Id /\ caches[out[e][k].cache].ref > 0
  BY <1>2, <1>4, <1>7, <1>10
<1> QED BY <1>11, <1>12, <1>13, NoneIs DEF InUse

\* What is handed out had no user; what is given up loses its text with its last one.
Stays(cs, ds) == \A i \in Id : cs[i].ref > 0 /\ ds[i].ref > 0 => ds[i].text = cs[i].text
Falls(cs, ds) == \A i \in Id : ds[i].ref > 0 => ds[i].text = cs[i].text /\ cs[i].ref > 0

LEMMA StaysFalls ==
  ASSUME NEW cs, NEW ds, NEW es, Falls(ds, es)
  PROVE  /\ Stays(cs, ds) => Stays(cs, es)
         /\ Falls(cs, ds) => Falls(cs, es)
  BY DEF Stays, Falls

LEMMA SameStays == \A cs : Stays(cs, cs) /\ Falls(cs, cs)
  BY DEF Stays, Falls

LEMMA AllocStays ==
  ASSUME NEW cs \in Caches, NEW text \in Texts, Unused(cs) \in Id, cs[Unused(cs)].ref = 0
  PROVE  Stays(cs, Alloc(cs, text)) /\ Alloc(cs, text)[Unused(cs)].text = text
<1>1. PICK j \in Id : j = Unused(cs)
  OBVIOUS
<1>2. Alloc(cs, text) = [cs EXCEPT ![j] = [ref |-> 1, text |-> text]]
  BY <1>1 DEF Alloc
<1> QED BY <1>1, <1>2 DEF Caches, Stays

LEMMA GenStays ==
  ASSUME NEW cs \in Caches, NEW cnt \in Nat, Unused(cs) \in Id, cs[Unused(cs)].ref = 0
  PROVE  Stays(cs, GenHttpReq(cs, cnt))
<1>1. PICK j \in Id : j = Unused(cs)
  OBVIOUS
<1>2. GenHttpReq(cs, cnt) = [cs EXCEPT ![j] = [ref |-> cnt, text |-> CliRequest]]
  BY <1>1 DEF GenHttpReq
<1> QED BY <1>1, <1>2 DEF Caches, Stays

LEMMA RefTexts ==
  ASSUME NEW cs \in Caches, NEW j \in Maybe
  PROVE  \A i \in Id : Ref(cs, j)[i].text = cs[i].text
<1>1. CASE j = None
  BY <1>1 DEF Ref
<1>2. CASE j # None
  <2>1. j \in Id
    BY <1>2, EchoAssumption DEF Maybe, Id, None
  <2>2. Ref(cs, j) = [cs EXCEPT ![j].ref = @ + 1]
    BY <1>2 DEF Ref
  <2> QED BY <2>1, <2>2 DEF Caches
<1> QED BY <1>1, <1>2

LEMMA DelFalls ==
  ASSUME NEW cs \in Caches, NEW j \in Maybe
  PROVE  Falls(cs, Del(cs, j))
<1>1. CASE j = None
  BY <1>1, SameStays DEF Del
<1>2. CASE j # None
  <2>1. j \in Id
    BY <1>2, EchoAssumption DEF Maybe, Id, None
  <2>2. Del(cs, j) = [cs EXCEPT ![j] = IF @.ref = 1 THEN [ref |-> 0, text |-> NoText]
                                       ELSE [ref |-> @.ref - 1, text |-> @.text]]
    BY <1>2 DEF Del
  <2> QED BY <2>1, <2>2 DEF Caches, Falls
<1> QED BY <1>1, <1>2

LEMMA DelFrameFalls ==
  ASSUME NEW cs \in Caches, NEW f \in Frames
  PROVE  Falls(cs, DelFrame(cs, f))
<1>1. f.m_head \in Maybe /\ f.m_body \in Maybe
  BY EchoAssumption DEF Frames, Maybe, Id
<1>2. PICK ds \in Caches : ds = Del(cs, f.m_head)
  BY <1>1, DelIs
<1>3. Falls(cs, ds) /\ Falls(ds, Del(ds, f.m_body))
  BY <1>1, <1>2, DelFalls
<1> QED BY <1>2, <1>3, StaysFalls DEF DelFrame

LEMMA DispatchStays ==
  ASSUME NEW cs \in Caches, NEW x \in Ctxs, NEW isEnd \in BOOLEAN
  PROVE  LET ds == Del(CreatFrameHd(cs, x), x.m_body)
         IN Stays(cs, IF isEnd THEN Del(ds, x.m_head) ELSE ds)
<1>1. x.m_head \in Maybe /\ x.m_body \in Maybe
  BY DEF Ctxs
<1>2. PICK as \in Caches : as = Ref(cs, x.m_head)
  BY <1>1, RefIs
<1>3. PICK bs \in Caches : bs = Ref(as, x.m_body)
  BY <1>1, RefIs
<1>4. PICK ds \in Caches : ds = Del(bs, x.m_body)
  BY <1>1, DelIs
<1>5. PICK es : es = Del(ds, x.m_head)
  OBVIOUS
<1>6. Stays(cs, bs)
  BY <1>1, <1>2, <1>3, RefTexts DEF Stays
<1>7. Falls(bs, ds) /\ Falls(ds, es)
  BY <1>1, <1>4, <1>5, DelFalls
<1>8. Stays(cs, ds) /\ Stays(cs, es)
  BY <1>6, <1>7, StaysFalls
<1>9. ds = Del(CreatFrameHd(cs, x), x.m_body)
  BY <1>2, <1>3, <1>4 DEF CreatFrameHd
<1> QED BY <1>5, <1>8, <1>9

LEMMA DelAllFalls ==
  ASSUME NEW cs \in Caches, NEW is, \A i \in Id : Count(is, i) \in Nat
  PROVE  Falls(cs, DelAll(cs, is))
<1>1. \A i \in Id : cs[i].ref \in Int
  BY DEF Caches
<1>2. \A i \in Id : DelAll(cs, is)[i].ref = cs[i].ref - Count(is, i)
  BY DelAllIs
<1>3. \A i \in Id : DelAll(cs, is)[i].ref > 0 => DelAll(cs, is)[i].text = cs[i].text
  BY DEF DelAll
<1> QED BY <1>1, <1>2, <1>3 DEF Falls

LEMMA FallsStays == \A cs, ds : Falls(cs, ds) => Stays(cs, ds)
  BY DEF Falls, Stays

\* The texts that are still there after a step, are those that were there before.
LEMMA ProcessStays == ASSUME IInv, NEW e \in End, Process(e) PROVE Stays(caches, caches')
<1>1. PICK f \in Frames : f = Head(queue[e]) /\ f.m_head \in Id /\ f.m_body \in Maybe
  <2>1. queue[e] \in Seq(Frames) /\ queue[e] # <<>>
    BY DEF IInv, TypeOK, Process
  <2>2. Head(queue[e]) \in Frames
    BY <2>1, TailIs
  <2> QED BY <2>2 DEF Frames
<1>2. PICK m : m = caches[f.m_head].text
  OBVIOUS
<1>3. Again(e, f) \/ Rtsp(e, f, m) \/ Demo(e, f, m)
  BY <1>1, <1>2 DEF Process
<1>4. caches \in Caches
  BY DEF IInv, TypeOK
<1>5. ASSUME NEW cs \in Caches, Stays(caches, cs), caches' = DelFrame(cs, f)
      PROVE  Stays(caches, caches')
  <2>1. Falls(cs, DelFrame(cs, f))
    BY DelFrameFalls
  <2> QED BY <1>5, <2>1, StaysFalls
<1>6. CASE Again(e, f)
  <2>1. PICK n \in Nat : n = 1
    OBVIOUS
  <2>2. Room /\ caches' = DelFrame(GenHttpReq(caches, n), f)
    BY <1>6, <2>1 DEF Again
  <2>3. PICK cs \in Caches : cs = GenHttpReq(caches, n) /\ Stays(caches, cs)
    BY <1>4, <2>2, RoomIs, GenIs, GenStays
  <2> QED BY <1>5, <2>2, <2>3
<1>7. CASE Rtsp(e, f, m)
  <2>1. CASE stat[e] = "open"
    <3>1. Room /\ caches' = DelFrame(Alloc(caches, BodyText(<<Sdp>>)), f)
      BY <1>7, <2>1 DEF Rtsp
    <3>2. PICK cs \in Caches : cs = Alloc(caches, BodyText(<<Sdp>>)) /\ Stays(caches, cs)
      BY <1>4, <3>1, RoomIs, AllocIs, AllocStays, TextTypes
    <3> QED BY <1>5, <3>1, <3>2
  <2>2. CASE stat[e] # "open"
    <3>1. caches' = DelFrame(caches, f)
      BY <1>7, <2>2 DEF Rtsp
    <3> QED BY <1>4, <1>5, <3>1, SameStays
  <2> QED BY <2>1, <2>2
<1>8. CASE Demo(e, f, m)
  <2>1. PICK cs \in Caches : cs = Ref(caches, f.m_body) /\ Stays(caches, cs)
    <3>1. Ref(caches, f.m_body) \in Caches
      BY <1>1, <1>4, RefIs
    <3>2. \A i \in Id : Ref(caches, f.m_body)[i].text = caches[i].text
      BY <1>1, <1>4, RefTexts
    <3> QED BY <3>1, <3>2 DEF Stays
  <2>2. caches' = DelFrame(cs, f) \/ caches' = DelFrame(caches, f)
    BY <1>8, <2>1 DEF Demo
  <2> QED BY <1>4, <1>5, <2>1, <2>2, SameStays
<1> QED BY <1>3, <1>6, <1>7, <1>8

LEMMA StepStays == ASSUME IInv, Next PROVE Stays(caches, caches')
<1>1. caches \in Caches /\ Stays(caches, caches)
  BY SameStays DEF IInv, TypeOK
<1>2. ASSUME NEW c \in Conn, OnNewSock(c) \/ AddCli(c) \/ OnConnFail(c) \/ Ask(c)
      PROVE  Stays(caches, caches')
  BY <1>1, <1>2 DEF OnNewSock, AddCli, OnConnFail, Ask
<1>3. ASSUME NEW c \in Conn, OnConnOK(c) PROVE Stays(caches, caches')
  <2>1. Room /\ caches' = GenHttpReq(caches, m_first_send_cnt) /\ m_first_send_cnt \in Nat
    BY <1>3, EchoAssumption DEF OnConnOK
  <2> QED BY <1>1, <2>1, RoomIs, GenStays
<1>4. ASSUME NEW e \in End, OnClose(e) PROVE Stays(caches, caches')
  <2>1. \A i : Count(Held(e), i) \in Nat
    BY HeldIs DEF IInv, TypeOK, EndsOK, EndOK
  <2>2. Falls(caches, caches')
    BY <1>1, <1>4, <2>1, DelAllFalls DEF OnClose
  <2> QED BY <2>2, FallsStays
<1>5. ASSUME NEW e \in End, ReadHead(e) PROVE Stays(caches, caches')
  <2>1. Room /\ caches' = Alloc(caches, Head(wire[e])) /\ wire[e] \in Seq(Texts) /\ wire[e] # <<>>
    BY <1>5 DEF ReadHead, Parses, IInv, TypeOK
  <2>2. Head(wire[e]) \in Texts
    BY <2>1, TailIs
  <2> QED BY <1>1, <2>1, <2>2, RoomIs, AllocStays
<1>6. ASSUME NEW e \in End, ReadBody(e) PROVE Stays(caches, caches')
  <2>1. PICK text : Room /\ caches' = Alloc(caches, text)
    BY <1>6 DEF ReadBody
  <2>2. PICK j \in Id : j = Unused(caches) /\ caches[j].ref = 0
    BY <2>1, RoomIs
  <2>3. caches' = [caches EXCEPT ![j] = [ref |-> 1, text |-> text]]
    BY <2>1, <2>2 DEF Alloc
  <2> QED BY <1>1, <2>2, <2>3 DEF Caches, Stays
<1>7. ASSUME NEW e \in End, DispatchFrame(e) PROVE Stays(caches, caches')
  <2>1. PICK x \in Ctxs : x = ctx[e]
    BY DEF IInv, TypeOK
  <2>2. PICK isEnd \in BOOLEAN :
          caches' = LET cs == Del(CreatFrameHd(caches, x), x.m_body)
                    IN IF isEnd THEN Del(cs, x.m_head) ELSE cs
    <3>1. PICK isEnd : isEnd = (x.m_frame_beg + 1 >= Len(Head(wire[e]).body))
      OBVIOUS
    <3>2. caches' = LET cs == Del(CreatFrameHd(caches, x), x.m_body)
                    IN IF isEnd THEN Del(cs, x.m_head) ELSE cs
      BY <1>7, <2>1, <3>1 DEF DispatchFrame
    <3>3. CASE isEnd
      BY <3>2, <3>3
    <3>4. CASE ~isEnd
      BY <3>2, <3>4
    <3> QED BY <3>3, <3>4
  <2> QED BY <1>1, <2>2, DispatchStays
<1>8. ASSUME NEW e \in End, Process(e) PROVE Stays(caches, caches')
  BY <1>8, ProcessStays
<1>9. ASSUME NEW e \in End, Write(e) PROVE Stays(caches, caches')
  <2>1. PICK j \in Maybe : caches' = Del(caches, j)
    <3>1. out[e] \in Seq(Outs) /\ out[e] # <<>>
      BY <1>9 DEF IInv, TypeOK, Write
    <3>2. Head(out[e]) \in Outs
      BY <3>1, TailIs
    <3>3. Head(out[e]).cache \in Maybe
      BY <3>2 DEF Outs
    <3> QED BY <1>9, <3>3 DEF Write
  <2>2. Falls(caches, caches')
    BY <1>1, <2>1, DelFalls
  <2> QED BY <2>2, FallsStays
<1> QED BY <1>2, <1>3, <1>4, <1>5, <1>6, <1>7, <1>8, <1>9 DEF Next, ParseData

Keeps(cs, ds, i) == i # None => ds[i].text = cs[i].text

LEMMA UsedStep == IInv /\ [Next]_vars => UsedOK /\ UsedOK'
<1> QED BY Used, NextOK, PTL

LEMMA KeptTexts ==
  ASSUME IInv, Next
  PROVE  \A i : InUse(caches, i) /\ InUse(caches', i) => Keeps(caches, caches', i)
  BY StepStays DEF InUse, Keeps, Stays
-------------------------------------------------------------------------------
(* What is kept of a connection                                              *)

LEMMA FramesKept ==
  ASSUME NEW cs, NEW ds, NEW a \in Seq(Texts), NEW b, NEW p \in Nat, NEW r \in Nat, NEW q,
         FramesOK(cs, a, p, q), p <= r,
         \A k \in DOMAIN a : k \in DOMAIN b /\ b[k] = a[k],
         \A k \in DOMAIN q : /\ q[k].m_head # None
                             /\ Keeps(cs, ds, q[k].m_head) /\ Keeps(cs, ds, q[k].m_body)
  PROVE  FramesOK(ds, b, r, q)
<1> SUFFICES ASSUME NEW k \in DOMAIN q PROVE FrameOK(ds, b, r, q[k])
  BY DEF FramesOK
<1>1. PICK f : f = q[k]
  OBVIOUS
<1>2. PICK m : m = cs[f.m_head].text /\ m = ds[f.m_head].text
  BY <1>1 DEF Keeps
<1>3. FrameOK(cs, a, p, f)
  BY <1>1 DEF FramesOK
<1>4. m.id \in DOMAIN b /\ m = b[m.id] /\ m.id <= r + 1 /\ (f.m_is_end => m.id <= r)
  <2>1. m.id \in DOMAIN a /\ m = a[m.id] /\ m.id <= p + 1 /\ (f.m_is_end => m.id <= p)
    BY <1>2, <1>3 DEF FrameOK
  <2>2. m.id \in Int
    BY <2>1, LenProperties
  <2> QED BY <2>1, <2>2
<1>5. PieceOK(ds, f, m)
  <2>1. PieceOK(cs, f, m) /\ Keeps(cs, ds, f.m_body)
    BY <1>1, <1>2, <1>3 DEF FrameOK
  <2> QED BY <2>1 DEF PieceOK, Keeps
<1> QED BY <1>1, <1>2, <1>4, <1>5 DEF FrameOK

LEMMA ChainKept ==
  ASSUME NEW cs, NEW ds, NEW p, NEW x, NEW y, NEW q,
         y.m_frame_beg = x.m_frame_beg,
         \A k \in DOMAIN q : q[k].m_head # None /\ Keeps(cs, ds, q[k].m_head)
  PROVE  /\ ChainOK(cs, p, x, q) => ChainOK(ds, p, y, q)
         /\ \A r : TurnOK(cs, p, x, q, r) => TurnOK(ds, p, y, q, r)
<1>1. \A k : IdAt(ds, p, q, k) = IdAt(cs, p, q, k) /\ BegAt(y, q, k) = BegAt(x, q, k)
  BY DEF IdAt, BegAt, Keeps
<1> QED BY <1>1 DEF ChainOK, Follows, TurnOK

LEMMA RepliesKept ==
  ASSUME NEW cs, NEW ds, NEW a, NEW b, NEW o, NEW n, RepliesOK(cs, a, o, n),
         \A k \in DOMAIN a : k \in DOMAIN b /\ b[k] = a[k],
         \A k \in DOMAIN o : Keeps(cs, ds, o[k].cache)
  PROVE  RepliesOK(ds, b, o, n)
<1> SUFFICES ASSUME NEW k \in DOMAIN o PROVE ReplyOK(ds, b, o[k], n + k)
  BY DEF RepliesOK
<1>1. ReplyOK(cs, a, o[k], n + k) /\ Keeps(cs, ds, o[k].cache)
  BY DEF RepliesOK
<1> QED BY <1>1 DEF ReplyOK, Keeps

LEMMA CtxKept ==
  ASSUME NEW cs, NEW ds, NEW x, NEW w, CtxOK(cs, x, w),
         Keeps(cs, ds, x.m_head), Keeps(cs, ds, x.m_body)
  PROVE  CtxOK(ds, x, w)
  BY DEF CtxOK, Keeps

\* Nothing happens at either end of c.
Untouched(c) ==
  /\ \A s \in {"svr", "cli"} :
       LET e == <<c, s>>
       IN /\ stat'[e] = stat[e] /\ ctx'[e] = ctx[e] /\ wire'[e] = wire[e]
          /\ queue'[e] = queue[e] /\ out'[e] = out[e]
  /\ asked'[c] = asked[c] /\ answered'[c] = answered[c]

LEMMA ServesKept ==
  ASSUME NEW st, NEW x, NEW w, NEW q, NEW o, NEW cs, NEW ds, NEW a \in Seq(Texts), NEW b,
         Serves(st, x, w, q, o, cs, a, b),
         Keeps(cs, ds, x.m_head), Keeps(cs, ds, x.m_body),
         \A k \in DOMAIN q : /\ q[k].m_head # None
                             /\ Keeps(cs, ds, q[k].m_head) /\ Keeps(cs, ds, q[k].m_body),
         \A k \in DOMAIN o : Keeps(cs, ds, o[k].cache)
  PROVE  Serves(st, x, w, q, o, ds, a, b)
<1>1. PICK p, r, n : p = Len(a) - Len(w) /\ r = Len(b) + Len(o) /\ n = Len(b)
  OBVIOUS
<1>2. /\ st = "none" => a = <<>> /\ b = <<>> /\ w = <<>> /\ q = <<>> /\ o = <<>>
      /\ AskedOK(a) /\ WireOK(a, p, w) /\ CtxOK(cs, x, w)
      /\ FramesOK(cs, a, p, q) /\ ChainOK(cs, p, x, q)
      /\ st = "open" => TurnOK(cs, p, x, q, r)
      /\ RepliesOK(cs, a, o, n) /\ AnswersOK(a, b)
      /\ st = "closing" => LastOK(a, p, r)
  BY <1>1 DEF Serves
<1>3. CtxOK(ds, x, w)
  BY <1>2, CtxKept
<1>4. FramesOK(ds, a, p, q)
  <2>1. p \in Nat
    BY <1>2 DEF WireOK
  <2> QED BY <1>2, <2>1, FramesKept
<1>5. ChainOK(ds, p, x, q) /\ (st = "open" => TurnOK(ds, p, x, q, r))
  BY <1>2, ChainKept
<1>6. RepliesOK(ds, a, o, n)
  BY <1>2, RepliesKept
<1> QED BY <1>1, <1>2, <1>3, <1>4, <1>5, <1>6 DEF Serves

LEMMA PeerSame ==
  ASSUME IInv, Next, NEW c \in Conn, PeerOK(c), Untouched(c)
  PROVE  PeerOK(c)'
<1>1. PICK e \in End : e = <<c, "svr">>
  BY EndIs DEF Svr
<1>2. UsedOK /\ UsedOK'
  BY UsedStep
<1>3. PICK x, w, q, o, a, b :
        /\ x = ctx[e] /\ w = wire[e] /\ q = queue[e] /\ o = out[e]
        /\ a = asked[c] /\ b = answered[c]
  OBVIOUS
<1>4. /\ ctx'[e] = x /\ wire'[e] = w /\ queue'[e] = q /\ out'[e] = o
      /\ asked'[c] = a /\ answered'[c] = b /\ stat'[e] = stat[e]
      /\ stat'[<<c, "cli">>] = stat[<<c, "cli">>]
  BY <1>1, <1>3 DEF Untouched
<1>5. /\ Keeps(caches, caches', x.m_head) /\ Keeps(caches, caches', x.m_body)
      /\ \A k \in DOMAIN q : /\ q[k].m_head # None
                             /\ Keeps(caches, caches', q[k].m_head)
                             /\ Keeps(caches, caches', q[k].m_body)
      /\ \A k \in DOMAIN o : Keeps(caches, caches', o[k].cache)
  BY <1>2, <1>3, <1>4, KeptTexts DEF UsedOK
<1>6. Serves(stat[e], x, w, q, o, caches, a, b) /\ stat[<<c, "cli">>] \in {"none", "closed"}
  BY <1>1, <1>3 DEF PeerOK
<1>7. Serves(stat[e], x, w, q, o, caches', a, b)
  <2>1. a \in Seq(Texts)
    BY <1>3 DEF IInv, TypeOK
  <2> QED BY <1>5, <1>6, <2>1, ServesKept
<1> QED BY <1>1, <1>4, <1>6, <1>7 DEF PeerOK

\* What happens at the ends of d.
EndActs(e) == OnClose(e) \/ ParseData(e) \/ Process(e) \/ Write(e)
ConnActs(d) == OnNewSock(d) \/ AddCli(d) \/ OnConnOK(d) \/ OnConnFail(d) \/ Ask(d)
Acts(d) == ConnActs(d) \/ EndActs(<<d, "svr">>) \/ EndActs(<<d, "cli">>)

LEMMA NextActs == Next => \E d \in Conn : Acts(d)
<1> SUFFICES ASSUME Next PROVE \E d \in Conn : Acts(d)
  OBVIOUS
<1>1. \A e \in End : \E d \in Conn : e = <<d, "svr">> \/ e = <<d, "cli">>
  BY DEF End
<1>2. (\E d \in Conn : ConnActs(d)) \/ (\E e \in End : EndActs(e))
  BY DEF Next, ConnActs, EndActs
<1> QED BY <1>1, <1>2 DEF Acts

LEMMA Elsewhere ==
  ASSUME IInv, NEW c \in Conn, NEW d \in Conn, c # d, Acts(d)
  PROVE  Untouched(c)
<1>1. TypeOK
  BY DEF IInv
<1>2. \A s, t : <<c, s>> # <<d, t>>
  OBVIOUS
<1>3. \A s \in {"svr", "cli"} : <<c, s>> \in End /\ <<d, s>> \in End
  BY DEF End
<1>4. CASE ConnActs(d)
  <2>1. CASE OnNewSock(d) \/ AddCli(d) \/ OnConnFail(d)
    BY <1>1, <1>2, <1>3, <2>1 DEF TypeOK, OnNewSock, AddCli, OnConnFail, Svr, Untouched
  <2>2. CASE OnConnOK(d)
    <3>1. \A n : \A e \in End :
            e # <<d, "cli">> => SendHttpReq(<<d, "cli">>, n)[e] = out[e]
      BY <1>1 DEF TypeOK, SendHttpReq
    <3> QED BY <1>1, <1>2, <1>3, <2>2, <3>1 DEF TypeOK, OnConnOK, Untouched
  <2>3. CASE Ask(d)
    <3>1. /\ UNCHANGED <<stat, ctx, queue, out, answered>>
          /\ \E msg : /\ asked' = [asked EXCEPT ![d] = Append(@, msg)]
                      /\ wire' = [wire EXCEPT ![<<d, "svr">>] = Append(@, msg)]
      BY <2>3 DEF Ask, Svr
    <3> QED BY <1>1, <1>2, <1>3, <3>1 DEF TypeOK, Untouched
  <2> QED BY <1>4, <2>1, <2>2, <2>3 DEF ConnActs
<1>5. ASSUME NEW e \in End, e[1] = d, EndActs(e) PROVE Untouched(c)
  <2>1. \A s \in {"svr", "cli"} : <<c, s>> # e
    BY <1>5
  <2>2. CASE OnClose(e)
    BY <1>1, <1>3, <2>1, <2>2 DEF TypeOK, OnClose, Untouched
  <2>3. CASE ParseData(e)
    <3>1. /\ UNCHANGED <<stat, out, asked, answered>>
          /\ ctx' = [ctx EXCEPT ![e] = ctx'[e]]
          /\ wire' = wire \/ wire' = [wire EXCEPT ![e] = Tail(@)]
          /\ queue' = queue \/ queue' = [queue EXCEPT ![e] = queue'[e]]
      <4>1. CASE ReadHead(e)
        BY <1>1, <4>1 DEF TypeOK, ReadHead
      <4>2. CASE ReadBody(e)
        BY <1>1, <4>2 DEF TypeOK, ReadBody
      <4>3. CASE DispatchFrame(e)
        BY <1>1, <4>3 DEF TypeOK, DispatchFrame
      <4> QED BY <2>3, <4>1, <4>2, <4>3 DEF ParseData
    <3> QED BY <1>1, <1>3, <2>1, <3>1 DEF TypeOK, Untouched
  <2>4. CASE Process(e)
    <3>1. /\ UNCHANGED <<ctx, wire, asked, answered>>
          /\ queue' = [queue EXCEPT ![e] = Tail(@)]
          /\ stat' = stat \/ stat' = [stat EXCEPT ![e] = "closing"]
          /\ out' = out \/ out' = [out EXCEPT ![e] = out'[e]]
      BY <1>1, <2>4 DEF TypeOK, Process, Again, SendHttpReq, Rtsp, Demo
    <3> QED BY <1>1, <1>3, <2>1, <3>1 DEF TypeOK, Untouched
  <2>5. CASE Write(e)
    <3>1. PICK msg :
            /\ UNCHANGED <<stat, ctx, queue, asked>>
            /\ wire' = wire \/ wire' = [wire EXCEPT ![Peer(e)] = Append(@, msg)]
            /\ answered' = answered \/ answered' = [answered EXCEPT ![e[1]] = Append(@, msg)]
            /\ out' = [out EXCEPT ![e] = Tail(@)]
      BY <2>5 DEF Write
    <3>2. \A s \in {"svr", "cli"} : <<c, s>> # Peer(e)
      BY <1>5 DEF Peer
    <3> QED BY <1>1, <1>3, <1>5, <2>1, <3>1, <3>2 DEF TypeOK, Untouched
  <2> QED BY <1>5, <2>2, <2>3, <2>4, <2>5 DEF EndActs
<1>6. (<<d, "svr">>)[1] = d /\ (<<d, "cli">>)[1] = d
  OBVIOUS
<1> QED BY <1>3, <1>4, <1>5, <1>6 DEF Acts
-------------------------------------------------------------------------------
(* The end that serves a peer                                                *)

LEMMA EmptyIs == DOMAIN <<>> = {} /\ Len(<<>>) = 0 /\ \A x \in {HttpCtx, NoCtx} :
                   x.m_head = None /\ x.m_body = None /\ ~(x.m_frame_beg > 0)
  BY DEF HttpCtx, NoCtx, None

\* It waits for the first request.
LEMMA OpenServes ==
  ASSUME NEW x, NEW w, NEW q, NEW o, NEW cs, NEW a, NEW b,
         Serves("none", x, w, q, o, cs, a, b)
  PROVE  Serves("open", HttpCtx, w, q, o, cs, a, b)
<1>1. a = <<>> /\ b = <<>> /\ w = <<>> /\ q = <<>> /\ o = <<>>
  BY DEF Serves
<1>2. PICK z, n : z = <<>> /\ n = 0 /\ DOMAIN z = {} /\ Len(z) = n
  BY EmptyIs
<1>y. PICK y : y = HttpCtx
  OBVIOUS
<1>3. y = HttpCtx /\ y.m_head = None /\ y.m_body = None /\ y.m_frame_beg = 0
  BY <1>y DEF HttpCtx
<1>4. AskedOK(z) /\ WireOK(z, n, z) /\ CtxOK(cs, y, z) /\ FramesOK(cs, z, n, z)
      /\ ChainOK(cs, n, y, z) /\ RepliesOK(cs, z, z, n) /\ AnswersOK(z, z)
  BY <1>2, <1>3 DEF AskedOK, WireOK, CtxOK, FramesOK, ChainOK, RepliesOK, AnswersOK
<1>5. TurnOK(cs, n, y, z, n)
  BY <1>2, <1>3 DEF TurnOK, IdAt, BegAt
<1>6. Len(z) - Len(z) = n /\ Len(z) + Len(z) = n
  BY <1>2
<1> QED BY <1>1, <1>2, <1>3, <1>4, <1>5, <1>6 DEF Serves

\* It is closed.
LEMMA ClosedServes ==
  ASSUME NEW st, NEW x, NEW w \in Seq(Texts), NEW q, NEW o, NEW cs, NEW ds,
         NEW a \in Seq(Texts), NEW b \in Seq(Texts), Serves(st, x, w, q, o, cs, a, b)
  PROVE  Serves("closed", NoCtx, <<>>, <<>>, <<>>, ds, a, b)
<1>1. PICK z : z = <<>> /\ DOMAIN z = {} /\ Len(z) = 0
  BY EmptyIs
<1>2. PICK y : y = NoCtx /\ y.m_head = None /\ y.m_body = None /\ ~(y.m_frame_beg > 0)
  BY EmptyIs
<1>3. PICK p, n : p \in Nat /\ p = Len(a) /\ n = Len(b)
  BY LenProperties
<1>4. AskedOK(a) /\ AnswersOK(a, b)
  BY DEF Serves
<1>5. WireOK(a, p, z) /\ CtxOK(ds, y, z) /\ FramesOK(ds, a, p, z)
      /\ ChainOK(ds, p, y, z) /\ RepliesOK(ds, a, z, n)
  BY <1>1, <1>2, <1>3 DEF WireOK, CtxOK, FramesOK, ChainOK, RepliesOK
<1>6. Len(a) - Len(z) = p
  BY <1>1, <1>3
<1> QED BY <1>1, <1>2, <1>3, <1>4, <1>5, <1>6 DEF Serves

\* A request arrives.
LEMMA AskServes ==
  ASSUME NEW st, NEW x, NEW w \in Seq(Texts), NEW q, NEW o, NEW cs,
         NEW a \in Seq(Texts), NEW b \in Seq(Texts), Serves(st, x, w, q, o, cs, a, b),
         \A k \in DOMAIN q : q[k].m_head # None,
         x.m_body # None => x.m_head # None,
         NEW m \in Texts, st # "none", m.id = Len(a) + 1, m.rtsp => Len(m.body) <= 1
  PROVE  Serves(st, x, Append(w, m), q, o, cs, Append(a, m), b)
<1>v. PICK v, c, i, j :
        v = Append(w, m) /\ c = Append(a, m) /\ i = Len(w) /\ j = Len(a)
  OBVIOUS
<1>1. /\ v = Append(w, m) /\ c = Append(a, m) /\ i = Len(w) /\ j = Len(a)
      /\ i \in Nat /\ j \in Nat
      /\ v \in Seq(Texts) /\ c \in Seq(Texts) /\ Len(v) = i + 1 /\ Len(c) = j + 1
      /\ DOMAIN w = 1 .. i /\ DOMAIN a = 1 .. j
      /\ DOMAIN v = 1 .. i + 1 /\ DOMAIN c = 1 .. j + 1
      /\ (\A k \in 1 .. i : v[k] = w[k]) /\ v[i + 1] = m
      /\ (\A k \in 1 .. j : c[k] = a[k]) /\ c[j + 1] = m
  <2>1. /\ i \in Nat /\ v \in Seq(Texts) /\ DOMAIN w = 1 .. i /\ DOMAIN v = 1 .. i + 1
        /\ (\A k \in 1 .. i : v[k] = w[k]) /\ v[i + 1] = m
    BY <1>v, AppendIs
  <2>2. /\ j \in Nat /\ c \in Seq(Texts) /\ DOMAIN a = 1 .. j /\ DOMAIN c = 1 .. j + 1
        /\ (\A k \in 1 .. j : c[k] = a[k]) /\ c[j + 1] = m
    BY <1>v, AppendIs
  <2>3. Len(v) = i + 1 /\ Len(c) = j + 1
    BY <1>v, AppendProperties
  <2> QED BY <1>v, <2>1, <2>2, <2>3
<1>2. PICK p, r, n : p = Len(a) - Len(w) /\ r = Len(b) + Len(o) /\ n = Len(b)
  OBVIOUS
<1>3. /\ AskedOK(a) /\ WireOK(a, p, w) /\ CtxOK(cs, x, w)
      /\ FramesOK(cs, a, p, q) /\ ChainOK(cs, p, x, q)
      /\ st = "open" => TurnOK(cs, p, x, q, r)
      /\ RepliesOK(cs, a, o, n) /\ AnswersOK(a, b)
      /\ st = "closing" => LastOK(a, p, r)
  BY <1>2 DEF Serves
<1>4. p \in Nat /\ j = p + i
  BY <1>1, <1>3 DEF WireOK
<1>5. Len(c) - Len(v) = p
  BY <1>1, <1>4
<1>6. AskedOK(c)
  <2>1. \A k \in 1 .. j + 1 : k \in 1 .. j \/ k = j + 1
    BY <1>1
  <2> QED BY <1>1, <1>3, <2>1 DEF AskedOK
<1>7. WireOK(c, p, v)
  <2>1. ASSUME NEW k \in 1 .. i + 1 PROVE v[k] = c[p + k]
    <3>1. CASE k \in 1 .. i
      <4>1. w[k] = a[p + k]
        BY <1>1, <1>3, <3>1 DEF WireOK
      <4>2. p + k \in 1 .. j
        BY <1>1, <1>4, <3>1
      <4> QED BY <1>1, <3>1, <4>1, <4>2
    <3>2. CASE k = i + 1
      <4>1. p + k = j + 1
        BY <1>1, <1>4, <3>2
      <4> QED BY <1>1, <3>2, <4>1
    <3>3. k \in 1 .. i \/ k = i + 1
      BY <1>1
    <3> QED BY <3>1, <3>2, <3>3
  <2>2. Len(c) = p + Len(v)
    BY <1>1, <1>4
  <2> QED BY <1>1, <1>4, <2>1, <2>2 DEF WireOK
<1>8. CtxOK(cs, x, v)
  <2>1. w # <<>> => v # <<>> /\ v[1] = w[1]
    <3>1. PICK z : z = <<>> /\ DOMAIN z = {}
      BY EmptyIs
    <3>2. w # z => i # 0
      <4>1. Len(w) = 0 => w = <<>>
        BY EmptySeq
      <4> QED BY <1>1, <3>1, <4>1
    <3>3. i # 0 => 1 \in 1 .. i /\ 1 \in DOMAIN v
      BY <1>1
    <3> QED BY <1>1, <3>1, <3>2, <3>3
  <2>2. x.m_head # None => w # <<>>
    BY <1>3 DEF CtxOK
  <2> QED BY <1>3, <2>1, <2>2 DEF CtxOK
<1>9. \A k \in DOMAIN a : k \in DOMAIN c /\ c[k] = a[k]
  <2>1. \A k \in 1 .. j : k \in 1 .. j + 1
    BY <1>1
  <2> QED BY <1>1, <2>1
<1>10. FramesOK(cs, c, p, q)
  <2>1. \A k : Keeps(cs, cs, k)
    BY DEF Keeps
  <2> QED BY <1>3, <1>4, <1>9, <2>1, FramesKept
<1>11. RepliesOK(cs, c, o, n) /\ AnswersOK(c, b) /\ (st = "closing" => LastOK(c, p, r))
  <2>1. \A k \in DOMAIN o : Keeps(cs, cs, o[k].cache)
    BY DEF Keeps
  <2>2. RepliesOK(cs, c, o, n)
    BY <1>3, <1>9, <2>1, RepliesKept
  <2>3. AnswersOK(c, b) /\ (st = "closing" => LastOK(c, p, r))
    BY <1>3, <1>9 DEF AnswersOK, LastOK
  <2> QED BY <2>2, <2>3
<1> QED BY <1>1, <1>2, <1>3, <1>5, <1>6, <1>7, <1>8, <1>10, <1>11 DEF Serves

\* More is read of the request that arrives.
LEMMA CtxServes ==
  ASSUME NEW st, NEW x, NEW y, NEW w, NEW q, NEW o, NEW cs, NEW a, NEW b,
         Serves(st, x, w, q, o, cs, a, b), CtxOK(cs, y, w), y.m_frame_beg = x.m_frame_beg,
         \A k \in DOMAIN q : q[k].m_head # None
  PROVE  Serves(st, y, w, q, o, cs, a, b)
<1>1. PICK p, r : p = Len(a) - Len(w) /\ r = Len(b) + Len(o)
  OBVIOUS
<1>2. ChainOK(cs, p, x, q) /\ (st = "open" => TurnOK(cs, p, x, q, r))
  BY <1>1 DEF Serves
<1>3. ChainOK(cs, p, y, q) /\ (st = "open" => TurnOK(cs, p, y, q, r))
  <2>1. \A k \in DOMAIN q : q[k].m_head # None /\ Keeps(cs, cs, q[k].m_head)
    BY DEF Keeps
  <2> QED BY <1>2, <2>1, ChainKept
<1> QED BY <1>1, <1>3 DEF Serves

\* The first message of a sequence is taken away.
LEMMA WireTail ==
  ASSUME NEW a \in Seq(Texts), NEW p, NEW w \in Seq(Texts), w # <<>>, WireOK(a, p, w)
  PROVE  /\ p \in Nat /\ p + 1 \in DOMAIN a /\ w[1] = a[p + 1]
         /\ WireOK(a, p + 1, Tail(w)) /\ p + 1 = Len(a) - Len(Tail(w)) /\ p = Len(a) - Len(w)
<1>0. PICK t, n, j : t = Tail(w) /\ n = Len(t) /\ j = Len(a)
  OBVIOUS
<1>1. /\ n \in Nat /\ DOMAIN w = 1 .. 1 + n /\ DOMAIN t = 1 .. n
      /\ \A k \in 1 .. n : t[k] = w[1 + k]
  BY <1>0, TailIs
<1>2. Len(w) = 1 + n /\ j \in Nat /\ DOMAIN a = 1 .. j
  <2>1. 1 + n \in Nat
    BY <1>1
  <2> QED BY <1>0, <1>1, <2>1, LenProperties
<1>3. p \in Nat /\ j = p + (1 + n) /\ \A k \in 1 .. 1 + n : w[k] = a[p + k]
  BY <1>0, <1>1, <1>2 DEF WireOK
<1>4. p + 1 \in 1 .. j /\ w[1] = a[p + 1]
  <2>1. 1 \in 1 .. 1 + n
    BY <1>1
  <2> QED BY <1>1, <1>3, <2>1
<1>5. \A k \in 1 .. n : t[k] = a[p + 1 + k]
  <2> SUFFICES ASSUME NEW k \in 1 .. n PROVE t[k] = a[p + 1 + k]
    OBVIOUS
  <2>1. 1 + k \in 1 .. 1 + n /\ p + (1 + k) = p + 1 + k
    BY <1>1, <1>3
  <2>2. w[1 + k] = a[p + (1 + k)]
    BY <1>3, <2>1
  <2> QED BY <1>1, <2>1, <2>2
<1>6. j = (p + 1) + n
  BY <1>1, <1>3
<1>7. WireOK(a, p + 1, t)
  <2>1. PICK u \in Nat : u = p + 1
    BY <1>3
  <2>2. Len(a) = u + Len(t) /\ \A k \in DOMAIN t : t[k] = a[u + k]
    BY <1>0, <1>1, <1>5, <1>6, <2>1
  <2>3. WireOK(a, u, t)
    BY <2>2 DEF WireOK
  <2> QED BY <2>1, <2>3
<1>8. p + 1 = Len(a) - Len(t) /\ p = Len(a) - Len(w)
  BY <1>0, <1>1, <1>2, <1>3, <1>6
<1> QED BY <1>0, <1>2, <1>3, <1>4, <1>7, <1>8

\* The frame that is dispatched takes the place of the one that is parsed.
LEMMA ChainAppend ==
  ASSUME NEW cs, NEW p \in Nat, NEW u \in Nat, NEW x, NEW y, NEW q \in Seq(Frames),
         NEW f \in Frames, NEW r,
         cs[f.m_head].text.id = p + 1, f.m_frame_beg = x.m_frame_beg,
         f.m_is_end => u = p + 1 /\ y.m_frame_beg = 0,
         ~f.m_is_end => u = p /\ y.m_frame_beg = x.m_frame_beg + 1,
         ChainOK(cs, p, x, q)
  PROVE  /\ ChainOK(cs, u, y, Append(q, f))
         /\ TurnOK(cs, p, x, q, r) => TurnOK(cs, u, y, Append(q, f), r)
<1>0. PICK n, t : n = Len(q) /\ t = Append(q, f)
  OBVIOUS
<1>1. /\ n \in Nat /\ DOMAIN q = 1 .. n /\ DOMAIN t = 1 .. n + 1
      /\ (\A k \in 1 .. n : t[k] = q[k]) /\ t[n + 1] = f
  BY <1>0, AppendIs
<1>2. \A k \in 1 .. n + 1 : IdAt(cs, u, t, k) = IdAt(cs, p, q, k)
                            /\ BegAt(y, t, k) = BegAt(x, q, k)
  <2> SUFFICES ASSUME NEW k \in 1 .. n + 1
               PROVE  IdAt(cs, u, t, k) = IdAt(cs, p, q, k) /\ BegAt(y, t, k) = BegAt(x, q, k)
    OBVIOUS
  <2>1. CASE k \in 1 .. n
    BY <1>1, <2>1 DEF IdAt, BegAt
  <2>2. CASE k = n + 1
    <3>1. k \notin 1 .. n
      BY <1>1, <2>2
    <3> QED BY <1>1, <2>2, <3>1 DEF IdAt, BegAt
  <2>3. k \in 1 .. n \/ k = n + 1
    BY <1>1
  <2> QED BY <2>1, <2>2, <2>3
<1>3. ChainOK(cs, u, y, t)
  <2> SUFFICES ASSUME NEW k \in 1 .. n + 1 PROVE Follows(cs, u, y, t, k)
    BY <1>1 DEF ChainOK
  <2>1. CASE k \in 1 .. n
    <3>1. Follows(cs, p, x, q, k)
      BY <1>1, <2>1 DEF ChainOK
    <3>2. k \in 1 .. n + 1 /\ k + 1 \in 1 .. n + 1
      BY <1>1, <2>1
    <3>3. /\ IdAt(cs, u, t, k) = IdAt(cs, p, q, k) /\ BegAt(y, t, k) = BegAt(x, q, k)
          /\ IdAt(cs, u, t, k + 1) = IdAt(cs, p, q, k + 1)
          /\ BegAt(y, t, k + 1) = BegAt(x, q, k + 1)
      BY <1>2, <3>2
    <3>4. t[k] = q[k]
      BY <1>1, <2>1
    <3> QED BY <3>1, <3>3, <3>4 DEF Follows
  <2>2. CASE k = n + 1
    <3>1. k + 1 \notin 1 .. n + 1
      BY <1>1, <2>2
    <3>2. IdAt(cs, u, t, k + 1) = u + 1 /\ BegAt(y, t, k + 1) = y.m_frame_beg
      BY <1>1, <3>1 DEF IdAt, BegAt
    <3>3. t[k] = f /\ IdAt(cs, u, t, k) = p + 1 /\ BegAt(y, t, k) = x.m_frame_beg
      BY <1>1, <2>2 DEF IdAt, BegAt
    <3> QED BY <3>2, <3>3 DEF Follows
  <2>3. k \in 1 .. n \/ k = n + 1
    BY <1>1
  <2> QED BY <2>1, <2>2, <2>3
<1>4. TurnOK(cs, p, x, q, r) => TurnOK(cs, u, y, t, r)
  <2>1. 1 \in 1 .. n + 1
    BY <1>1
  <2> QED BY <1>2, <2>1 DEF TurnOK
<1> QED BY <1>0, <1>3, <1>4

LEMMA DispatchServes ==
  ASSUME NEW st, NEW x \in Ctxs, NEW y, NEW w \in Seq(Texts), NEW q \in Seq(Frames), NEW o,
         NEW cs, NEW a \in Seq(Texts), NEW b, NEW isEnd \in BOOLEAN, NEW f \in Frames,
         Serves(st, x, w, q, o, cs, a, b), st # "none", w # <<>>,
         x.m_frame_beg \in Nat, x.m_head # None, w[1].body = <<>> \/ x.m_body # None,
         isEnd <=> x.m_frame_beg + 1 >= Len(w[1].body),
         f.m_head = x.m_head, f.m_body = x.m_body, f.m_frame_beg = x.m_frame_beg,
         f.m_is_end = isEnd,
         isEnd => y = HttpCtx,
         ~isEnd => y.m_head = x.m_head /\ y.m_body = None /\ y.m_frame_beg = x.m_frame_beg + 1
  PROVE  Serves(st, y, IF isEnd THEN Tail(w) ELSE w, Append(q, f), o, cs, a, b)
<1>0. PICK p, u, v, t, r, m :
        /\ p = Len(a) - Len(w) /\ u = IF isEnd THEN p + 1 ELSE p
        /\ v = IF isEnd THEN Tail(w) ELSE w
        /\ t = Append(q, f) /\ r = Len(b) + Len(o) /\ m = w[1]
  OBVIOUS
<1>1. /\ AskedOK(a) /\ WireOK(a, p, w) /\ CtxOK(cs, x, w)
      /\ FramesOK(cs, a, p, q) /\ ChainOK(cs, p, x, q)
      /\ st = "open" => TurnOK(cs, p, x, q, r)
      /\ st = "closing" => LastOK(a, p, r)
  BY <1>0 DEF Serves
<1>2. /\ p \in Nat /\ p + 1 \in DOMAIN a /\ m = a[p + 1]
      /\ WireOK(a, p + 1, Tail(w)) /\ p + 1 = Len(a) - Len(Tail(w))
  BY <1>0, <1>1, WireTail
<1>3. u \in Nat /\ p <= u /\ u = Len(a) - Len(v) /\ WireOK(a, u, v)
  BY <1>0, <1>1, <1>2
<1>4. m.id = p + 1 /\ m \in Texts /\ cs[f.m_head].text = m
  BY <1>0, <1>1, <1>2, LenProperties, ElementOfSeq DEF AskedOK, CtxOK
<1>5. Len(m.body) \in Nat
  BY <1>4, LenProperties DEF Texts
<1>6. PieceOK(cs, f, m)
  <2>1. m.body = <<>> => Len(m.body) = 0
    BY EmptyIs
  <2>2. f.m_body # None => f.m_frame_beg < Len(m.body)
                           /\ cs[f.m_body].text = BodyText(<<m.body[f.m_frame_beg + 1]>>)
    BY <1>0, <1>1 DEF CtxOK
  <2>3. f.m_frame_beg > 0 => f.m_frame_beg < Len(m.body)
    BY <1>0, <1>1 DEF CtxOK
  <2>4. f.m_frame_beg \in Nat /\ (f.m_is_end <=> f.m_frame_beg + 1 >= Len(m.body))
    BY <1>0
  <2>5. m.body = <<>> => f.m_body = None /\ f.m_frame_beg = 0
    BY <2>1, <2>2, <2>3, <2>4
  <2>6. m.body # <<>> => f.m_body # None
    BY <1>0
  <2> QED BY <2>2, <2>4, <2>5, <2>6 DEF PieceOK
<1>7. FramesOK(cs, a, u, t)
  <2>1. FramesOK(cs, a, u, q)
    <3>1. \A k \in DOMAIN q : q[k].m_head # None /\ Keeps(cs, cs, q[k].m_head)
                              /\ Keeps(cs, cs, q[k].m_body)
      <4>1. \A k \in DOMAIN q : q[k] \in Frames
        BY LenProperties, ElementOfSeq
      <4> QED BY <4>1, NoneIs DEF Keeps, Frames
    <3> QED BY <1>1, <1>2, <1>3, <3>1, FramesKept
  <2>2. FrameOK(cs, a, u, f)
    <3>1. m.id <= u + 1 /\ (f.m_is_end => m.id <= u)
      BY <1>0, <1>2, <1>4
    <3> QED BY <1>2, <1>4, <1>6, <3>1 DEF FrameOK
  <2>3. \A k \in DOMAIN t : (k \in DOMAIN q /\ t[k] = q[k]) \/ t[k] = f
    <3>1. PICK n \in Nat : /\ n = Len(q) /\ DOMAIN q = 1 .. n /\ DOMAIN t = 1 .. n + 1
                           /\ (\A k \in 1 .. n : t[k] = q[k]) /\ t[n + 1] = f
      BY <1>0, AppendIs
    <3>2. \A k \in 1 .. n + 1 : k \in 1 .. n \/ k = n + 1
      OBVIOUS
    <3> QED BY <3>1, <3>2
  <2> QED BY <2>1, <2>2, <2>3 DEF FramesOK
<1>8. ChainOK(cs, u, y, t) /\ (st = "open" => TurnOK(cs, u, y, t, r))
  <2>1. cs[f.m_head].text.id = p + 1
    BY <1>4
  <2>2. f.m_is_end => u = p + 1 /\ y.m_frame_beg = 0
    BY <1>0 DEF HttpCtx
  <2>3. ~f.m_is_end => u = p /\ y.m_frame_beg = x.m_frame_beg + 1
    BY <1>0
  <2>4. ChainOK(cs, u, y, t) /\ (TurnOK(cs, p, x, q, r) => TurnOK(cs, u, y, t, r))
    BY <1>0, <1>1, <1>2, <1>3, <2>1, <2>2, <2>3, ChainAppend
  <2> QED BY <1>1, <2>4
<1>9. CtxOK(cs, y, v)
  <2>1. CASE isEnd
    BY <1>0, <2>1, EmptyIs DEF CtxOK
  <2>2. CASE ~isEnd
    <3>1. v = w /\ y.m_body = None /\ y.m_frame_beg < Len(m.body)
          /\ y.m_head # None /\ cs[y.m_head].text = m
      BY <1>0, <1>4, <1>5, <2>2
    <3> QED BY <1>0, <3>1 DEF CtxOK
  <2> QED BY <2>1, <2>2
<1>10. st = "closing" => LastOK(a, u, r)
  <2>1. \A k \in DOMAIN a : k \in Int
    BY LenProperties
  <2>2. \A k \in Int : k <= p => k <= u
    BY <1>2, <1>3
  <2> QED BY <1>1, <2>1, <2>2 DEF LastOK
<1> QED BY <1>0, <1>1, <1>3, <1>7, <1>8, <1>9, <1>10 DEF Serves

\* A frame is processed: the next one is behind it.
LEMMA ChainTail ==
  ASSUME NEW cs, NEW p, NEW x, NEW q \in Seq(Frames), q # <<>>, ChainOK(cs, p, x, q)
  PROVE  /\ ChainOK(cs, p, x, Tail(q))
         /\ 1 \in DOMAIN q /\ Head(q) = q[1] /\ Follows(cs, p, x, q, 1)
         /\ IdAt(cs, p, Tail(q), 1) = IdAt(cs, p, q, 1 + 1)
         /\ BegAt(x, Tail(q), 1) = BegAt(x, q, 1 + 1)
<1>0. PICK n, t : n = Len(Tail(q)) /\ t = Tail(q)
  OBVIOUS
<1>1. /\ n \in Nat /\ DOMAIN q = 1 .. 1 + n /\ DOMAIN t = 1 .. n /\ Head(q) = q[1]
      /\ \A k \in 1 .. n : t[k] = q[1 + k]
  BY <1>0, TailIs
<1>2. \A k \in 1 .. n + 1 : IdAt(cs, p, t, k) = IdAt(cs, p, q, 1 + k)
                            /\ BegAt(x, t, k) = BegAt(x, q, 1 + k)
  <2> SUFFICES ASSUME NEW k \in 1 .. n + 1
               PROVE  IdAt(cs, p, t, k) = IdAt(cs, p, q, 1 + k)
                      /\ BegAt(x, t, k) = BegAt(x, q, 1 + k)
    OBVIOUS
  <2>1. k \in 1 .. n <=> 1 + k \in 1 .. 1 + n
    BY <1>1
  <2> QED BY <1>1, <2>1 DEF IdAt, BegAt
<1>3. ChainOK(cs, p, x, t)
  <2> SUFFICES ASSUME NEW k \in 1 .. n PROVE Follows(cs, p, x, t, k)
    BY <1>1 DEF ChainOK
  <2>1. 1 + k \in DOMAIN q /\ k \in 1 .. n + 1 /\ k + 1 \in 1 .. n + 1 /\ 1 + (k + 1) = (1 + k) + 1
    BY <1>1
  <2>2. Follows(cs, p, x, q, 1 + k)
    BY <2>1 DEF ChainOK
  <2>3. /\ IdAt(cs, p, t, k) = IdAt(cs, p, q, 1 + k) /\ BegAt(x, t, k) = BegAt(x, q, 1 + k)
        /\ IdAt(cs, p, t, k + 1) = IdAt(cs, p, q, (1 + k) + 1)
        /\ BegAt(x, t, k + 1) = BegAt(x, q, (1 + k) + 1)
    BY <1>2, <2>1
  <2>4. t[k] = q[1 + k]
    BY <1>1
  <2> QED BY <2>2, <2>3, <2>4 DEF Follows
<1>4. 1 \in 1 .. n + 1 /\ 1 \in 1 .. 1 + n
  BY <1>1
<1>5. Follows(cs, p, x, q, 1)
  BY <1>1, <1>4 DEF ChainOK
<1> QED BY <1>0, <1>1, <1>2, <1>3, <1>4, <1>5

\* What is known of the frame that is processed.
LEMMA HeadServes ==
  ASSUME NEW st, NEW x, NEW w \in Seq(Texts), NEW q \in Seq(Frames), NEW o \in Seq(Outs),
         NEW cs, NEW a \in Seq(Texts), NEW b \in Seq(Texts),
         Serves(st, x, w, q, o, cs, a, b), q # <<>>
  PROVE  LET f == Head(q)
             m == cs[f.m_head].text
         IN /\ m.id \in DOMAIN a /\ m = a[m.id] /\ PieceOK(cs, f, m)
            /\ m.rtsp => Len(m.body) <= 1
            /\ f.m_is_end => m.id <= Len(a) - Len(w)
            /\ st = "open" => m.id = Len(b) + Len(o) + (IF f.m_frame_beg = 0 THEN 1 ELSE 0)
<1>0. PICK f, m : f = Head(q) /\ m = cs[f.m_head].text
  OBVIOUS
<1>1. PICK p, r : p = Len(a) - Len(w) /\ r = Len(b) + Len(o)
  OBVIOUS
<1>2. /\ AskedOK(a) /\ FramesOK(cs, a, p, q) /\ ChainOK(cs, p, x, q)
      /\ st = "open" => TurnOK(cs, p, x, q, r)
  BY <1>1 DEF Serves
<1>3. 1 \in DOMAIN q /\ f = q[1]
  BY <1>0, <1>2, ChainTail
<1>4. FrameOK(cs, a, p, f)
  BY <1>2, <1>3 DEF FramesOK
<1>5. m.id \in DOMAIN a /\ m = a[m.id] /\ PieceOK(cs, f, m) /\ (f.m_is_end => m.id <= p)
  BY <1>0, <1>4 DEF FrameOK
<1>6. m.rtsp => Len(m.body) <= 1
  BY <1>2, <1>5 DEF AskedOK
<1>7. st = "open" => m.id = r + (IF f.m_frame_beg = 0 THEN 1 ELSE 0)
  BY <1>0, <1>2, <1>3 DEF TurnOK, IdAt, BegAt
<1> QED BY <1>0, <1>1, <1>5, <1>6, <1>7

LEMMA ProcessServes ==
  ASSUME NEW st, NEW su, NEW x, NEW w \in Seq(Texts), NEW q \in Seq(Frames), NEW o \in Seq(Outs),
         NEW cs, NEW ds, NEW a \in Seq(Texts), NEW b \in Seq(Texts), NEW u \in Seq(Outs),
         Serves(st, x, w, q, o, cs, a, b), q # <<>>, st # "none",
         Keeps(cs, ds, x.m_head), Keeps(cs, ds, x.m_body),
         \A k \in DOMAIN Tail(q) : /\ Keeps(cs, ds, Tail(q)[k].m_head)
                                   /\ Keeps(cs, ds, Tail(q)[k].m_body),
         RepliesOK(ds, a, u, Len(b)),
         su \in {"open", "closing"},
         su = "open" =>
           st = "open" /\ Len(u) = Len(o) + (IF Head(q).m_frame_beg = 0 THEN 1 ELSE 0),
         su = "closing" => LastOK(a, Len(a) - Len(w), Len(b) + Len(u))
  PROVE  Serves(su, x, w, Tail(q), u, ds, a, b)
<1>0. PICK p, r, t, f, m :
        /\ p = Len(a) - Len(w) /\ r = Len(b) + Len(o) /\ t = Tail(q) /\ f = Head(q)
        /\ m = cs[f.m_head].text
  OBVIOUS
<1>1. /\ AskedOK(a) /\ WireOK(a, p, w) /\ CtxOK(cs, x, w)
      /\ FramesOK(cs, a, p, q) /\ ChainOK(cs, p, x, q)
      /\ AnswersOK(a, b)
  BY <1>0 DEF Serves
<1>2. p \in Nat
  BY <1>1 DEF WireOK
<1>3. t \in Seq(Frames) /\ \A k \in DOMAIN t : \E j \in DOMAIN q : t[k] = q[j]
  <2>1. PICK n \in Nat : /\ n = Len(t) /\ DOMAIN q = 1 .. 1 + n /\ DOMAIN t = 1 .. n
                         /\ \A k \in 1 .. n : t[k] = q[1 + k]
    BY <1>0, TailIs
  <2>2. \A k \in 1 .. n : 1 + k \in 1 .. 1 + n
    OBVIOUS
  <2> QED BY <1>0, <2>1, <2>2, TailIs
<1>4. \A k \in DOMAIN t : t[k].m_head # None
  <2>1. \A k \in DOMAIN t : t[k] \in Frames
    BY <1>3, LenProperties, ElementOfSeq
  <2> QED BY <2>1, NoneIs DEF Frames
<1>5. CtxOK(ds, x, w)
  BY <1>1, CtxKept
<1>6. FramesOK(ds, a, p, t)
  <2>1. FramesOK(cs, a, p, t)
    BY <1>1, <1>3 DEF FramesOK
  <2>2. \A k \in DOMAIN t : /\ t[k].m_head # None
                            /\ Keeps(cs, ds, t[k].m_head) /\ Keeps(cs, ds, t[k].m_body)
    BY <1>0, <1>4
  <2>3. p <= p
    BY <1>2
  <2> QED BY <1>2, <2>1, <2>2, <2>3, FramesKept
<1>7. /\ ChainOK(cs, p, x, t) /\ 1 \in DOMAIN q /\ f = q[1] /\ Follows(cs, p, x, q, 1)
      /\ IdAt(cs, p, t, 1) = IdAt(cs, p, q, 1 + 1)
      /\ BegAt(x, t, 1) = BegAt(x, q, 1 + 1)
  BY <1>0, <1>1, ChainTail
<1>8. /\ ChainOK(ds, p, x, t)
      /\ \A k : TurnOK(cs, p, x, t, k) => TurnOK(ds, p, x, t, k)
  BY <1>0, <1>4, <1>7, ChainKept
<1>9. ASSUME su = "open" PROVE TurnOK(ds, p, x, t, Len(b) + Len(u))
  <2>1. /\ r \in Nat /\ m.id = r + (IF f.m_frame_beg = 0 THEN 1 ELSE 0)
        /\ Len(b) + Len(u) = r + (IF f.m_frame_beg = 0 THEN 1 ELSE 0)
        /\ f.m_frame_beg \in Nat
    <3>1. /\ PieceOK(cs, f, m)
          /\ st = "open" => m.id = Len(b) + Len(o) + (IF f.m_frame_beg = 0 THEN 1 ELSE 0)
      BY <1>0, HeadServes
    <3>2. Len(b) \in Nat /\ Len(o) \in Nat
      BY LenProperties
    <3>3. PICK d \in Nat : d = IF f.m_frame_beg = 0 THEN 1 ELSE 0
      OBVIOUS
    <3>4. st = "open" /\ Len(u) = Len(o) + d
      BY <1>0, <1>9, <3>3
    <3>5. m.id = r + d /\ r \in Nat
      BY <1>0, <3>1, <3>2, <3>3, <3>4
    <3>6. Len(b) + Len(u) = r + d
      BY <1>0, <3>2, <3>3, <3>4
    <3>7. f.m_frame_beg \in Nat
      BY <3>1 DEF PieceOK
    <3> QED BY <3>3, <3>5, <3>6, <3>7
  <2>2. IdAt(cs, p, q, 1) = m.id /\ BegAt(x, q, 1) = f.m_frame_beg
    BY <1>0, <1>7 DEF IdAt, BegAt
  <2>3. IF f.m_is_end
        THEN IdAt(cs, p, t, 1) = m.id + 1 /\ BegAt(x, t, 1) = 0
        ELSE IdAt(cs, p, t, 1) = m.id /\ BegAt(x, t, 1) = f.m_frame_beg + 1
    BY <1>7, <2>2 DEF Follows
  <2>4. IdAt(cs, p, t, 1) = Len(b) + Len(u) + (IF BegAt(x, t, 1) = 0 THEN 1 ELSE 0)
    BY <2>1, <2>3
  <2>5. TurnOK(cs, p, x, t, Len(b) + Len(u))
    BY <2>4 DEF TurnOK
  <2> QED BY <1>8, <2>5
<1> QED BY <1>0, <1>1, <1>5, <1>6, <1>8, <1>9 DEF Serves

\* One more reply is sent.
LEMMA RepliesAppend ==
  ASSUME NEW cs, NEW a, NEW o \in Seq(Outs), NEW n \in Nat, NEW s \in Outs,
         RepliesOK(cs, a, o, n), ReplyOK(cs, a, s, n + Len(o) + 1)
  PROVE  /\ RepliesOK(cs, a, Append(o, s), n)
         /\ Append(o, s) \in Seq(Outs) /\ Len(Append(o, s)) = Len(o) + 1
<1>0. PICK j, u : j = Len(o) /\ u = Append(o, s)
  OBVIOUS
<1>1. /\ j \in Nat /\ DOMAIN o = 1 .. j /\ DOMAIN u = 1 .. j + 1 /\ u \in Seq(Outs)
      /\ (\A k \in 1 .. j : u[k] = o[k]) /\ u[j + 1] = s
  BY <1>0, AppendIs
<1>2. ASSUME NEW k \in 1 .. j + 1 PROVE ReplyOK(cs, a, u[k], n + k)
  <2>1. CASE k \in 1 .. j
    BY <1>1, <2>1 DEF RepliesOK
  <2>2. CASE k = j + 1
    <3>1. n + k = n + j + 1
      BY <1>1, <2>2
    <3> QED BY <1>0, <1>1, <2>2, <3>1
  <2>3. k \in 1 .. j \/ k = j + 1
    BY <1>1
  <2> QED BY <2>1, <2>2, <2>3
<1>3. Len(u) = j + 1
  BY <1>0, AppendProperties
<1> QED BY <1>0, <1>1, <1>2, <1>3 DEF RepliesOK

\* The first reply is written.
LEMMA WriteServes ==
  ASSUME NEW st, NEW x, NEW w \in Seq(Texts), NEW q \in Seq(Frames), NEW o \in Seq(Outs),
         NEW cs, NEW a \in Seq(Texts), NEW b \in Seq(Texts),
         Serves(st, x, w, q, o, cs, a, b), o # <<>>, st # "none",
         NEW msg \in Texts,
         msg = [Head(o).hd EXCEPT !.body = IF Head(o).cache = None THEN <<>>
                                           ELSE cs[Head(o).cache].text.body]
  PROVE  Serves(st, x, w, q, Tail(o), cs, a, Append(b, msg))
<1>0. PICK n, u, c, s, j :
        n = Len(b) /\ u = Tail(o) /\ c = Append(b, msg) /\ s = Head(o) /\ j = Len(u)
  OBVIOUS
<1>1. PICK p, r : p = Len(a) - Len(w) /\ r = Len(b) + Len(o)
  OBVIOUS
<1>2. /\ AskedOK(a) /\ WireOK(a, p, w) /\ CtxOK(cs, x, w)
      /\ FramesOK(cs, a, p, q) /\ ChainOK(cs, p, x, q)
      /\ st = "open" => TurnOK(cs, p, x, q, r)
      /\ RepliesOK(cs, a, o, n) /\ AnswersOK(a, b)
      /\ st = "closing" => LastOK(a, p, r)
  BY <1>0, <1>1 DEF Serves
<1>3. /\ j \in Nat /\ DOMAIN o = 1 .. 1 + j /\ DOMAIN u = 1 .. j /\ s = o[1]
      /\ \A k \in 1 .. j : u[k] = o[1 + k]
  BY <1>0, TailIs
<1>4. /\ n \in Nat /\ DOMAIN b = 1 .. n /\ DOMAIN c = 1 .. n + 1 /\ c \in Seq(Texts)
      /\ (\A k \in 1 .. n : c[k] = b[k]) /\ c[n + 1] = msg
  BY <1>0, AppendIs
<1>5. Len(c) = n + 1 /\ Len(o) = 1 + j
  <2>1. 1 + j \in Nat
    BY <1>3
  <2> QED BY <1>0, <1>3, <2>1, AppendProperties, LenProperties
<1>6. Len(c) + Len(u) = r
  BY <1>0, <1>1, <1>3, <1>4, <1>5
<1>7. ReplyOK(cs, a, s, n + 1)
  <2>1. 1 \in 1 .. 1 + j
    BY <1>3
  <2> QED BY <1>2, <1>3, <2>1 DEF RepliesOK
<1>8. RepliesOK(cs, a, u, n + 1)
  <2> SUFFICES ASSUME NEW k \in 1 .. j PROVE ReplyOK(cs, a, u[k], n + 1 + k)
    BY <1>3 DEF RepliesOK
  <2>0. j \in Nat /\ n \in Nat
    BY <1>3, <1>4
  <2>1. 1 + k \in 1 .. 1 + j /\ n + (1 + k) = n + 1 + k
    BY <2>0
  <2>2. ReplyOK(cs, a, o[1 + k], n + (1 + k))
    BY <1>2, <1>3, <2>1 DEF RepliesOK
  <2> QED BY <1>3, <2>1, <2>2
<1>9. msg = Answer(a[n + 1])
  <2>1. PICK m, bod : m = a[n + 1] /\ bod = BodyOf(m)
    OBVIOUS
  <2>2. /\ s.hd = Reply(m) /\ (s.cache = None => bod = <<>>)
        /\ s.cache # None => cs[s.cache].text = BodyText(bod)
    BY <1>7, <2>1 DEF ReplyOK
  <2>3. (IF s.cache = None THEN <<>> ELSE cs[s.cache].text.body) = bod
    BY <2>2 DEF BodyText
  <2>4. msg = [Reply(m) EXCEPT !.body = bod]
    BY <1>0, <2>2, <2>3
  <2> QED BY <2>1, <2>4 DEF Reply, Answer
<1>10. AnswersOK(a, c)
  <2>1. n + 1 \in DOMAIN a
    BY <1>7 DEF ReplyOK
  <2>2. \A k \in 1 .. n + 1 : k \in 1 .. n \/ k = n + 1
    BY <1>4
  <2> QED BY <1>2, <1>4, <1>9, <2>1, <2>2 DEF AnswersOK
<1> QED BY <1>0, <1>1, <1>2, <1>5, <1>6, <1>8, <1>10 DEF Serves
-------------------------------------------------------------------------------
(* What an end of a connection of a peer does                                *)

LEMMA PeerConn ==
  ASSUME IInv, NEW c \in Conn \ Cli, PeerOK(c), ConnActs(c)
  PROVE  PeerOK(c)'
<1>1. PICK e \in End : e = <<c, "svr">> /\ e # <<c, "cli">> /\ <<c, "cli">> \in End
  BY EndIs DEF Svr
<1>2. TypeOK /\ stat[<<c, "cli">>] \in {"none", "closed"}
  BY DEF IInv, PeerOK
<1>3. Serves(stat[e], ctx[e], wire[e], queue[e], out[e], caches, asked[c], answered[c])
  BY <1>1 DEF PeerOK
<1>4. CASE OnNewSock(c)
  <2>1. /\ stat[e] = "none" /\ stat'[e] = "open" /\ ctx'[e] = HttpCtx
        /\ stat'[<<c, "cli">>] = stat[<<c, "cli">>]
        /\ UNCHANGED <<wire, queue, out, caches, asked, answered>>
    BY <1>1, <1>2, <1>4 DEF TypeOK, OnNewSock, Svr
  <2>2. Serves("open", HttpCtx, wire[e], queue[e], out[e], caches, asked[c], answered[c])
    BY <1>3, <2>1, OpenServes
  <2> QED BY <1>1, <1>2, <2>1, <2>2 DEF PeerOK
<1>5. CASE Ask(c)
  <2>1. PICK r \in Requests :
          LET id == Len(asked[c]) + 1
              msg == [r EXCEPT !.id = id, !.body = [k \in DOMAIN r.body |-> <<id, k>>]]
          IN /\ asked' = [asked EXCEPT ![c] = Append(@, msg)]
             /\ wire' = [wire EXCEPT ![Svr(c)] = Append(@, msg)]
    BY <1>5 DEF Ask
  <2>2. PICK id : id = Len(asked[c]) + 1
    OBVIOUS
  <2>3. PICK body : body = [k \in DOMAIN r.body |-> <<id, k>>]
    OBVIOUS
  <2>4. PICK m : m = [r EXCEPT !.id = id, !.body = body]
    OBVIOUS
  <2>5. /\ asked[c] \in Seq(Texts) /\ wire[e] \in Seq(Texts) /\ answered[c] \in Seq(Texts)
        /\ queue[e] \in Seq(Frames) /\ id \in Nat
    BY <1>1, <1>2, <2>2, LenProperties DEF TypeOK
  <2>6. r \in Texts /\ r.body \in Seq(Nat \X Nat) /\ (r.rtsp => Len(r.body) <= 1)
    BY EchoAssumption DEF Texts
  <2>7. body \in Seq(Nat \X Nat) /\ Len(body) = Len(r.body)
    <3>1. PICK n \in Nat : n = Len(r.body) /\ DOMAIN r.body = 1 .. n
      BY <2>6, LenProperties
    <3>2. body \in [1 .. n -> Nat \X Nat]
      BY <2>3, <2>5, <3>1
    <3>3. body \in Seq(Nat \X Nat)
      BY <3>2, SeqDef
    <3>4. Len(body) = n
      BY <2>3, <3>1, <3>3, LenProperties
    <3> QED BY <3>1, <3>3, <3>4
  <2>8. m \in Texts /\ m.id = id /\ (m.rtsp => Len(m.body) <= 1)
    <3>1. m = [id |-> id, rtsp |-> r.rtsp, alive |-> r.alive, body |-> body]
      BY <2>4, <2>6 DEF Texts
    <3> QED BY <2>5, <2>6, <2>7, <3>1 DEF Texts
  <2>9. /\ asked'[c] = Append(asked[c], m) /\ wire'[e] = Append(wire[e], m)
        /\ stat[e] = "open"
        /\ UNCHANGED <<stat, ctx, queue, out, caches, answered>>
    <3>1. asked' = [asked EXCEPT ![c] = Append(@, m)] /\ wire' = [wire EXCEPT ![e] = Append(@, m)]
      BY <1>1, <2>1, <2>2, <2>3, <2>4 DEF Svr
    <3> QED BY <1>1, <1>2, <1>5, <3>1 DEF TypeOK, Ask, Svr
  <2>10. \A k \in DOMAIN queue[e] : queue[e][k].m_head # None
    <3>1. \A k \in DOMAIN queue[e] : queue[e][k] \in Frames
      BY <2>5, LenProperties, ElementOfSeq
    <3> QED BY <3>1, NoneIs DEF Frames
  <2>11. ctx[e].m_body # None => ctx[e].m_head # None
    BY DEF IInv, EndsOK, EndOK
  <2>12. Serves(stat[e], ctx[e], Append(wire[e], m), queue[e], out[e], caches,
                Append(asked[c], m), answered[c])
    BY <1>3, <2>2, <2>5, <2>8, <2>9, <2>10, <2>11, AskServes
  <2> QED BY <1>1, <1>2, <2>9, <2>12 DEF PeerOK
<1>6. ~AddCli(c) /\ ~OnConnOK(c) /\ ~OnConnFail(c)
  BY <1>2 DEF AddCli, OnConnOK, OnConnFail
<1> QED BY <1>4, <1>5, <1>6 DEF ConnActs

LEMMA PeerClose ==
  ASSUME IInv, NEW c \in Conn \ Cli, PeerOK(c), OnClose(<<c, "svr">>)
  PROVE  PeerOK(c)'
<1>1. PICK e \in End : e = <<c, "svr">> /\ e # <<c, "cli">> /\ <<c, "cli">> \in End
  BY EndIs DEF Svr
<1>2. TypeOK /\ stat[<<c, "cli">>] \in {"none", "closed"}
  BY DEF IInv, PeerOK
<1>3. Serves(stat[e], ctx[e], wire[e], queue[e], out[e], caches, asked[c], answered[c])
  BY <1>1 DEF PeerOK
<1>4. /\ stat'[e] = "closed" /\ ctx'[e] = NoCtx /\ wire'[e] = <<>> /\ queue'[e] = <<>>
      /\ out'[e] = <<>> /\ stat'[<<c, "cli">>] = stat[<<c, "cli">>]
      /\ UNCHANGED <<asked, answered>>
  BY <1>1, <1>2 DEF TypeOK, OnClose
<1>5. Serves("closed", NoCtx, <<>>, <<>>, <<>>, caches', asked[c], answered[c])
  <2>1. wire[e] \in Seq(Texts) /\ asked[c] \in Seq(Texts) /\ answered[c] \in Seq(Texts)
    BY <1>2 DEF TypeOK
  <2> QED BY <1>3, <2>1, ClosedServes
<1> QED BY <1>1, <1>2, <1>4, <1>5 DEF PeerOK

\* What is used before and after a step, is the same text.
LEMMA KeptUses ==
  ASSUME IInv, Next, NEW e \in End
  PROVE  /\ \A k \in DOMAIN queue[e] : queue[e][k].m_head # None
         /\ queue'[e] = queue[e] => \A k \in DOMAIN queue[e] :
              /\ Keeps(caches, caches', queue[e][k].m_head)
              /\ Keeps(caches, caches', queue[e][k].m_body)
         /\ out'[e] = out[e] => \A k \in DOMAIN out[e] : Keeps(caches, caches', out[e][k].cache)
         /\ ctx'[e].m_head = ctx[e].m_head => Keeps(caches, caches', ctx[e].m_head)
         /\ ctx'[e].m_body = ctx[e].m_body => Keeps(caches, caches', ctx[e].m_body)
<1>1. UsedOK /\ UsedOK'
  BY UsedStep
<1>2. /\ \A k \in DOMAIN queue[e] : /\ queue[e][k].m_head # None
                                    /\ InUse(caches, queue[e][k].m_head)
                                    /\ InUse(caches, queue[e][k].m_body)
      /\ \A k \in DOMAIN out[e] : InUse(caches, out[e][k].cache)
      /\ InUse(caches, ctx[e].m_head) /\ InUse(caches, ctx[e].m_body)
  BY <1>1 DEF UsedOK
<1>3. /\ \A k \in DOMAIN queue'[e] : /\ InUse(caches', queue'[e][k].m_head)
                                     /\ InUse(caches', queue'[e][k].m_body)
      /\ \A k \in DOMAIN out'[e] : InUse(caches', out'[e][k].cache)
      /\ InUse(caches', ctx'[e].m_head) /\ InUse(caches', ctx'[e].m_body)
  BY <1>1 DEF UsedOK
<1>4. \A i : InUse(caches, i) /\ InUse(caches', i) => Keeps(caches, caches', i)
  BY KeptTexts
<1> QED BY <1>2, <1>3, <1>4

LEMMA PeerReadHead ==
  ASSUME IInv, Next, NEW c \in Conn \ Cli, PeerOK(c), ReadHead(<<c, "svr">>)
  PROVE  PeerOK(c)'
<1>1. PICK e \in End : e = <<c, "svr">> /\ e # <<c, "cli">> /\ <<c, "cli">> \in End
  BY EndIs DEF Svr
<1>2. TypeOK /\ EndOK(e) /\ stat[<<c, "cli">>] \in {"none", "closed"}
  BY DEF IInv, EndsOK, PeerOK
<1>3. Serves(stat[e], ctx[e], wire[e], queue[e], out[e], caches, asked[c], answered[c])
  BY <1>1 DEF PeerOK
<1>4. PICK x, w, j, y :
        /\ x \in Ctxs /\ w \in Seq(Texts)
        /\ x = ctx[e] /\ w = wire[e] /\ j = Unused(caches) /\ y = [x EXCEPT !.m_head = j]
  BY <1>2 DEF TypeOK
<1>5. /\ ctx'[e] = y /\ caches' = Alloc(caches, Head(w)) /\ w # <<>> /\ x.m_head = None /\ Room
      /\ UNCHANGED <<stat, wire, queue, out, asked, answered>>
  BY <1>1, <1>2, <1>4 DEF TypeOK, ReadHead, Parses
<1>6. y.m_head = j /\ y.m_body = None /\ y.m_frame_beg = x.m_frame_beg /\ x.m_body = None
  BY <1>2, <1>4, <1>5 DEF EndOK, Ctxs
<1>7. caches'[j].text = w[1]
  <2>1. Head(w) \in Texts /\ Head(w) = w[1]
    BY <1>4, <1>5, TailIs
  <2>2. j \in Id /\ caches[j].ref = 0 /\ caches \in Caches
    BY <1>2, <1>4, <1>5, RoomIs DEF TypeOK
  <2> QED BY <1>4, <1>5, <2>1, <2>2, AllocStays
<1>8. Serves(stat[e], x, w, queue[e], out[e], caches', asked[c], answered[c])
  <2>1. Keeps(caches, caches', x.m_head) /\ Keeps(caches, caches', x.m_body)
    BY <1>5, <1>6 DEF Keeps
  <2>2. /\ \A k \in DOMAIN queue[e] : /\ queue[e][k].m_head # None
                                      /\ Keeps(caches, caches', queue[e][k].m_head)
                                      /\ Keeps(caches, caches', queue[e][k].m_body)
        /\ \A k \in DOMAIN out[e] : Keeps(caches, caches', out[e][k].cache)
    BY <1>5, KeptUses
  <2>3. asked[c] \in Seq(Texts)
    BY <1>2 DEF TypeOK
  <2> QED BY <1>3, <1>4, <2>1, <2>2, <2>3, ServesKept
<1>9. CtxOK(caches', y, w)
  <2>1. CtxOK(caches', x, w)
    BY <1>8 DEF Serves
  <2> QED BY <1>5, <1>6, <1>7, <2>1 DEF CtxOK
<1>10. Serves(stat[e], y, w, queue[e], out[e], caches', asked[c], answered[c])
  BY <1>6, <1>8, <1>9, KeptUses, CtxServes
<1> QED BY <1>1, <1>2, <1>4, <1>5, <1>10 DEF PeerOK

LEMMA PeerReadBody ==
  ASSUME IInv, Next, NEW c \in Conn \ Cli, PeerOK(c), ReadBody(<<c, "svr">>)
  PROVE  PeerOK(c)'
<1>1. PICK e \in End : e = <<c, "svr">> /\ e # <<c, "cli">> /\ <<c, "cli">> \in End
  BY EndIs DEF Svr
<1>2. TypeOK /\ EndOK(e) /\ stat[<<c, "cli">>] \in {"none", "closed"}
  BY DEF IInv, EndsOK, PeerOK
<1>3. Serves(stat[e], ctx[e], wire[e], queue[e], out[e], caches, asked[c], answered[c])
  BY <1>1 DEF PeerOK
<1>4. PICK x, w, j, y, text :
        /\ x \in Ctxs /\ w \in Seq(Texts)
        /\ x = ctx[e] /\ w = wire[e] /\ j = Unused(caches) /\ y = [x EXCEPT !.m_body = j]
        /\ text = BodyText(<<Head(w).body[x.m_frame_beg + 1]>>)
  BY <1>2 DEF TypeOK
<1>5. /\ ctx'[e] = y /\ caches' = Alloc(caches, text) /\ w # <<>> /\ Room
      /\ x.m_head # None /\ x.m_body = None /\ x.m_frame_beg < Len(Head(w).body)
      /\ UNCHANGED <<stat, wire, queue, out, asked, answered>>
  BY <1>1, <1>2, <1>4 DEF TypeOK, ReadBody, Parses
<1>6. y.m_head = x.m_head /\ y.m_body = j /\ y.m_frame_beg = x.m_frame_beg
  BY <1>4 DEF Ctxs
<1>7. Head(w) = w[1] /\ caches'[j].text = text
  <2>1. Head(w) = w[1]
    BY <1>5, TailIs
  <2>2. j \in Id /\ caches[j].ref = 0 /\ caches \in Caches
    BY <1>2, <1>4, <1>5, RoomIs DEF TypeOK
  <2>3. caches' = [caches EXCEPT ![j] = [ref |-> 1, text |-> text]]
    BY <1>4, <1>5 DEF Alloc
  <2> QED BY <2>1, <2>2, <2>3 DEF Caches
<1>8. Serves(stat[e], x, w, queue[e], out[e], caches', asked[c], answered[c])
  <2>1. Keeps(caches, caches', x.m_head) /\ Keeps(caches, caches', x.m_body)
    <3>1. Keeps(caches, caches', ctx[e].m_head)
      BY <1>4, <1>5, <1>6, KeptUses
    <3> QED BY <1>4, <1>5, <3>1 DEF Keeps
  <2>2. /\ \A k \in DOMAIN queue[e] : /\ queue[e][k].m_head # None
                                      /\ Keeps(caches, caches', queue[e][k].m_head)
                                      /\ Keeps(caches, caches', queue[e][k].m_body)
        /\ \A k \in DOMAIN out[e] : Keeps(caches, caches', out[e][k].cache)
    BY <1>5, KeptUses
  <2>3. asked[c] \in Seq(Texts)
    BY <1>2 DEF TypeOK
  <2> QED BY <1>3, <1>4, <2>1, <2>2, <2>3, ServesKept
<1>9. CtxOK(caches', y, w)
  <2>1. CtxOK(caches', x, w)
    BY <1>8 DEF Serves
  <2> QED BY <1>4, <1>5, <1>6, <1>7, <2>1 DEF CtxOK
<1>10. Serves(stat[e], y, w, queue[e], out[e], caches', asked[c], answered[c])
  BY <1>6, <1>8, <1>9, KeptUses, CtxServes
<1> QED BY <1>1, <1>2, <1>4, <1>5, <1>10 DEF PeerOK

LEMMA PeerDispatch ==
  ASSUME IInv, Next, NEW c \in Conn \ Cli, PeerOK(c), DispatchFrame(<<c, "svr">>)
  PROVE  PeerOK(c)'
<1>1. PICK e \in End : e = <<c, "svr">> /\ e # <<c, "cli">> /\ <<c, "cli">> \in End
  BY EndIs DEF Svr
<1>2. TypeOK /\ EndOK(e) /\ stat[<<c, "cli">>] \in {"none", "closed"}
  BY DEF IInv, EndsOK, PeerOK
<1>3. Serves(stat[e], ctx[e], wire[e], queue[e], out[e], caches, asked[c], answered[c])
  BY <1>1 DEF PeerOK
<1>4. PICK x \in Ctxs, w \in Seq(Texts), q \in Seq(Frames) :
        x = ctx[e] /\ w = wire[e] /\ q = queue[e]
  BY <1>2 DEF TypeOK
<1>5. /\ stat[e] = "open" /\ w # <<>> /\ x.m_head # None /\ x.m_frame_beg \in Nat
      /\ w[1].body = <<>> \/ x.m_body # None
      /\ Head(w) = w[1] /\ w[1] \in Texts
  <2>1. /\ stat[e] = "open" /\ w # <<>> /\ x.m_head # None
        /\ Head(w).body = <<>> \/ x.m_body # None
    BY <1>1, <1>4 DEF DispatchFrame, Parses, IsComplete
  <2>2. Head(w) = w[1] /\ Head(w) \in Texts
    BY <2>1, TailIs
  <2> QED BY <1>2, <1>4, <2>1, <2>2 DEF EndOK
<1>6. PICK isEnd \in BOOLEAN : isEnd = (x.m_frame_beg + 1 >= Len(w[1].body))
  <2>1. Len(w[1].body) \in Nat
    BY <1>5, LenProperties DEF Texts
  <2>2. (x.m_frame_beg + 1 >= Len(w[1].body)) \in BOOLEAN
    BY <1>5, <2>1
  <2> QED BY <2>2
<1>7. PICK f, y : /\ f = [m_head |-> x.m_head, m_body |-> x.m_body,
                          m_frame_beg |-> x.m_frame_beg, m_is_end |-> isEnd]
                  /\ y = IF isEnd THEN HttpCtx
                         ELSE [x EXCEPT !.m_body = None, !.m_frame_beg = @ + 1]
  OBVIOUS
<1>8. /\ queue'[e] = Append(q, f) /\ ctx'[e] = y
      /\ wire'[e] = IF isEnd THEN Tail(w) ELSE w
      /\ UNCHANGED <<stat, out, asked, answered>>
  BY <1>1, <1>2, <1>4, <1>5, <1>6, <1>7 DEF TypeOK, DispatchFrame
<1>9. /\ f \in Frames /\ f.m_head = x.m_head /\ f.m_body = x.m_body
      /\ f.m_frame_beg = x.m_frame_beg /\ f.m_is_end = isEnd
  <2>1. x.m_head \in Id
    BY <1>5, EchoAssumption DEF Ctxs, Maybe, Id, None
  <2> QED BY <1>7, <2>1 DEF Ctxs, Frames
<1>10. /\ isEnd => y = HttpCtx
       /\ ~isEnd => y.m_head = x.m_head /\ y.m_body = None /\ y.m_frame_beg = x.m_frame_beg + 1
  BY <1>7 DEF Ctxs
<1>11. Serves(stat[e], x, w, q, out[e], caches', asked[c], answered[c])
  <2>1. PICK n, t : /\ n \in Nat /\ t = queue'[e] /\ DOMAIN q = 1 .. n /\ DOMAIN t = 1 .. n + 1
                            /\ (\A k \in 1 .. n : t[k] = q[k]) /\ t[n + 1] = f
    <3>1. PICK n, t : n = Len(q) /\ t = Append(q, f)
      OBVIOUS
    <3>2. /\ n \in Nat /\ DOMAIN q = 1 .. n /\ DOMAIN t = 1 .. n + 1
          /\ (\A k \in 1 .. n : t[k] = q[k]) /\ t[n + 1] = f
      BY <1>9, <3>1, AppendIs
    <3> QED BY <1>8, <3>1, <3>2
  <2>2. UsedOK /\ UsedOK'
    BY UsedStep
  <2>3. \A k \in DOMAIN t : InUse(caches', t[k].m_head) /\ InUse(caches', t[k].m_body)
    BY <2>1, <2>2 DEF UsedOK
  <2>4. /\ InUse(caches, x.m_head) /\ InUse(caches, x.m_body)
        /\ \A k \in DOMAIN q : /\ q[k].m_head # None
                               /\ InUse(caches, q[k].m_head) /\ InUse(caches, q[k].m_body)
    BY <1>4, <2>2 DEF UsedOK
  <2>5. /\ InUse(caches', x.m_head) /\ InUse(caches', x.m_body)
        /\ \A k \in DOMAIN q : InUse(caches', q[k].m_head) /\ InUse(caches', q[k].m_body)
    <3>1. n + 1 \in 1 .. n + 1 /\ \A k \in 1 .. n : k \in 1 .. n + 1
      BY <2>1
    <3>2. InUse(caches', f.m_head) /\ InUse(caches', f.m_body)
      BY <2>1, <2>3, <3>1
    <3> QED BY <1>9, <2>1, <2>3, <3>1, <3>2
  <2>6. \A i : InUse(caches, i) /\ InUse(caches', i) => Keeps(caches, caches', i)
    BY KeptTexts
  <2>7. \A k \in DOMAIN out[e] : Keeps(caches, caches', out[e][k].cache)
    BY <1>8, KeptUses
  <2>8. asked[c] \in Seq(Texts)
    BY <1>2 DEF TypeOK
  <2> QED BY <1>3, <1>4, <2>4, <2>5, <2>6, <2>7, <2>8, ServesKept
<1>12. Serves(stat[e], y, IF isEnd THEN Tail(w) ELSE w, Append(q, f), out[e], caches',
              asked[c], answered[c])
  <2>1. asked[c] \in Seq(Texts) /\ stat[e] # "none"
    BY <1>2, <1>5 DEF TypeOK
  <2>2. isEnd <=> x.m_frame_beg + 1 >= Len(w[1].body)
    BY <1>6
  <2> QED BY <1>5, <1>9, <1>10, <1>11, <2>1, <2>2, DispatchServes
<1> QED BY <1>1, <1>2, <1>8, <1>12 DEF PeerOK

\* The replies are u when the frame was processed.
LEMMA PeerProcessStep ==
  ASSUME IInv, Next, NEW c \in Conn \ Cli, PeerOK(c), NEW e \in End, e = <<c, "svr">>,
         queue[e] # <<>>, stat[e] # "none", NEW u \in Seq(Outs),
         out'[e] = u, queue'[e] = Tail(queue[e]), stat'[<<c, "cli">>] = stat[<<c, "cli">>],
         UNCHANGED <<ctx, wire, asked, answered>>,
         RepliesOK(caches', asked[c], u, Len(answered[c])),
         stat'[e] \in {"open", "closing"},
         stat'[e] = "open" =>
           /\ stat[e] = "open"
           /\ Len(u) = Len(out[e]) + (IF Head(queue[e]).m_frame_beg = 0 THEN 1 ELSE 0),
         stat'[e] = "closing" =>
           LastOK(asked[c], Len(asked[c]) - Len(wire[e]), Len(answered[c]) + Len(u))
  PROVE  PeerOK(c)'
<1>1. TypeOK
  BY DEF IInv
<1>2. PICK x \in Ctxs, w \in Seq(Texts), q \in Seq(Frames), o \in Seq(Outs),
          a \in Seq(Texts), b \in Seq(Texts) :
        /\ x = ctx[e] /\ w = wire[e] /\ q = queue[e] /\ o = out[e]
        /\ a = asked[c] /\ b = answered[c]
  BY <1>1 DEF TypeOK
<1>3. Serves(stat[e], x, w, q, o, caches, a, b) /\ stat[<<c, "cli">>] \in {"none", "closed"}
  BY <1>2 DEF PeerOK
<1>4. Keeps(caches, caches', x.m_head) /\ Keeps(caches, caches', x.m_body)
  BY <1>2, KeptUses
<1>5. \A k \in DOMAIN Tail(q) : /\ Keeps(caches, caches', Tail(q)[k].m_head)
                                /\ Keeps(caches, caches', Tail(q)[k].m_body)
  <2>0. PICK t, n : t = Tail(q) /\ n = Len(t) /\ t = queue'[e]
    BY <1>2
  <2>1. /\ n \in Nat /\ t = Tail(q) /\ t = queue'[e]
        /\ DOMAIN q = 1 .. 1 + n /\ DOMAIN t = 1 .. n
        /\ \A k \in 1 .. n : t[k] = q[1 + k]
    <3>1. q # <<>>
      BY <1>2
    <3>2. /\ Len(Tail(q)) \in Nat
          /\ DOMAIN q = 1 .. 1 + Len(Tail(q)) /\ DOMAIN Tail(q) = 1 .. Len(Tail(q))
          /\ \A k \in 1 .. Len(Tail(q)) : Tail(q)[k] = q[1 + k]
      BY <3>1, TailIs
    <3> QED BY <2>0, <3>2
  <2>2. UsedOK /\ UsedOK'
    BY UsedStep
  <2>3. \A k \in DOMAIN t : InUse(caches', t[k].m_head) /\ InUse(caches', t[k].m_body)
    BY <2>1, <2>2 DEF UsedOK
  <2>4. \A k \in DOMAIN q : InUse(caches, q[k].m_head) /\ InUse(caches, q[k].m_body)
    BY <1>2, <2>2 DEF UsedOK
  <2>5. \A k \in 1 .. n : InUse(caches, t[k].m_head) /\ InUse(caches, t[k].m_body)
    <3>1. \A k \in 1 .. n : 1 + k \in 1 .. 1 + n
      BY <2>1
    <3> QED BY <2>1, <2>4, <3>1
  <2>6. \A i : InUse(caches, i) /\ InUse(caches', i) => Keeps(caches, caches', i)
    BY KeptTexts
  <2> QED BY <2>1, <2>3, <2>5, <2>6
<1>6. Serves(stat'[e], x, w, Tail(q), u, caches', a, b)
  BY <1>2, <1>3, <1>4, <1>5, ProcessServes
<1> QED BY <1>2, <1>3, <1>6 DEF PeerOK

LEMMA PeerProcess ==
  ASSUME IInv, Next, NEW c \in Conn \ Cli, PeerOK(c), Process(<<c, "svr">>)
  PROVE  PeerOK(c)'
<1>1. PICK e \in End : e = <<c, "svr">> /\ e # <<c, "cli">> /\ <<c, "cli">> \in End /\ e[2] = "svr"
  BY EndIs DEF Svr
<1>2. TypeOK
  BY DEF IInv
<1>3. PICK x \in Ctxs, w \in Seq(Texts), q \in Seq(Frames), o \in Seq(Outs),
          a \in Seq(Texts), b \in Seq(Texts) :
        /\ x = ctx[e] /\ w = wire[e] /\ q = queue[e] /\ o = out[e]
        /\ a = asked[c] /\ b = answered[c]
  BY <1>2 DEF TypeOK
<1>4. Serves(stat[e], x, w, q, o, caches, a, b)
  BY <1>1, <1>3 DEF PeerOK
<1>5. PICK f, m : f = Head(q) /\ m = caches[f.m_head].text
  OBVIOUS
<1>6. /\ stat[e] \in {"open", "closing"} /\ q # <<>>
      /\ (m.rtsp /\ Rtsp(e, f, m)) \/ (~m.rtsp /\ Demo(e, f, m))
      /\ queue'[e] = Tail(q)
      /\ UNCHANGED <<ctx, wire, asked, answered>>
  BY <1>1, <1>2, <1>3, <1>5 DEF TypeOK, Process
<1>7. PICK p, n, j : p = Len(a) - Len(w) /\ n = Len(b) /\ j = Len(o)
  OBVIOUS
<1>8. /\ m.id \in DOMAIN a /\ m = a[m.id] /\ PieceOK(caches, f, m)
      /\ m.rtsp => Len(m.body) <= 1
      /\ f.m_is_end => m.id <= p
      /\ stat[e] = "open" => m.id = n + j + (IF f.m_frame_beg = 0 THEN 1 ELSE 0)
  BY <1>4, <1>5, <1>6, <1>7, HeadServes
<1>9. /\ n \in Nat /\ j \in Nat /\ f \in Frames /\ m.body \in Seq(Nat \X Nat) /\ m \in Texts
  <2>1. f \in Frames /\ n \in Nat /\ j \in Nat
    BY <1>5, <1>6, <1>7, TailIs, LenProperties
  <2>2. m \in Texts
    BY <1>8, LenProperties, ElementOfSeq
  <2> QED BY <2>1, <2>2 DEF Texts
<1>10. \A k \in DOMAIN o : InUse(caches, o[k].cache)
  <2>1. UsedOK
    BY UsedStep
  <2> QED BY <1>3, <2>1 DEF UsedOK
<1>11. \A k \in DOMAIN out'[e] : InUse(caches', out'[e][k].cache)
  <2>1. UsedOK'
    BY UsedStep
  <2> QED BY <2>1 DEF UsedOK
<1>12. \A i : InUse(caches, i) /\ InUse(caches', i) => Keeps(caches, caches', i)
  BY KeptTexts
<1>13. /\ stat' = stat \/ (Closes(f, m) /\ ~m.rtsp /\ stat' = [stat EXCEPT ![e] = "closing"])
       /\ stat'[<<c, "cli">>] = stat[<<c, "cli">>]
       /\ stat'[e] \in {"open", "closing"}
       /\ stat'[e] = "open" => stat[e] = "open"
       /\ stat'[e] = "closing" =>
            stat[e] = "closing" \/ (~m.rtsp /\ ~m.alive /\ f.m_is_end)
  <2>1. stat' = stat \/ (Closes(f, m) /\ ~m.rtsp /\ stat' = [stat EXCEPT ![e] = "closing"])
    BY <1>6 DEF Rtsp, Demo
  <2> QED BY <1>1, <1>2, <1>6, <2>1 DEF TypeOK, Closes
<1>14. RepliesOK(caches, a, o, n) /\ (stat[e] = "closing" => LastOK(a, p, n + j))
  BY <1>4, <1>7 DEF Serves
<1>15. ASSUME NEW s \in Outs, out' = [out EXCEPT ![e] = Append(@, s)], stat[e] = "open",
              s.hd = Reply(m), f.m_frame_beg = 0,
              s.cache = None => BodyOf(m) = <<>>,
              s.cache # None => caches'[s.cache].text = BodyText(BodyOf(m))
       PROVE  PeerOK(c)'
  <2>1. PICK u : u = Append(o, s) /\ u = out'[e]
    BY <1>1, <1>2, <1>3, <1>15 DEF TypeOK
  <2>2. RepliesOK(caches', a, o, n)
    <3>1. DOMAIN o = 1 .. j /\ DOMAIN u = 1 .. j + 1 /\ \A k \in 1 .. j : u[k] = o[k]
      <4>1. /\ DOMAIN o = 1 .. Len(o) /\ DOMAIN Append(o, s) = 1 .. Len(o) + 1
            /\ \A k \in 1 .. Len(o) : Append(o, s)[k] = o[k]
        BY AppendIs
      <4> QED BY <1>7, <2>1, <4>1
    <3>2. \A k \in 1 .. j : k \in 1 .. j + 1
      BY <1>9
    <3>3. \A k \in DOMAIN o : Keeps(caches, caches', o[k].cache)
      BY <1>10, <1>11, <1>12, <2>1, <3>1, <3>2
    <3> QED BY <1>14, <3>3, RepliesKept
  <2>3. m.id = n + j + 1
    BY <1>8, <1>9, <1>15
  <2>4. ReplyOK(caches', a, s, n + Len(o) + 1)
    <3>1. ReplyOK(caches', a, s, m.id)
      BY <1>8, <1>15 DEF ReplyOK
    <3> QED BY <1>7, <2>3, <3>1
  <2>5. RepliesOK(caches', a, u, n) /\ u \in Seq(Outs) /\ Len(u) = j + 1
    <3>1. /\ RepliesOK(caches', a, Append(o, s), n)
          /\ Append(o, s) \in Seq(Outs) /\ Len(Append(o, s)) = Len(o) + 1
      BY <1>9, <2>2, <2>4, RepliesAppend
    <3> QED BY <1>7, <2>1, <3>1
  <2>6. stat'[e] = "closing" => LastOK(a, p, n + Len(u))
    <3>1. stat'[e] = "closing" => ~m.rtsp /\ ~m.alive /\ m.id <= p
      BY <1>8, <1>13, <1>15
    <3>2. m.id <= n + Len(u)
      BY <1>9, <2>3, <2>5
    <3> QED BY <1>8, <3>1, <3>2 DEF LastOK
  <2>7. Len(u) = Len(o) + (IF f.m_frame_beg = 0 THEN 1 ELSE 0)
    BY <1>7, <1>15, <2>5
  <2> QED BY <1>1, <1>3, <1>5, <1>6, <1>7, <1>13, <1>15, <2>1, <2>5, <2>6, <2>7, PeerProcessStep
<1>16. ASSUME out' = out, stat[e] = "open" => f.m_frame_beg # 0
       PROVE  PeerOK(c)'
  <2>1. RepliesOK(caches', a, o, n)
    <3>1. \A k \in DOMAIN o : Keeps(caches, caches', o[k].cache)
      BY <1>3, <1>10, <1>11, <1>12, <1>16
    <3> QED BY <1>14, <3>1, RepliesKept
  <2>2. stat[e] = "open" => m.id = n + j
    BY <1>8, <1>9, <1>16
  <2>3. stat'[e] = "closing" => LastOK(a, p, n + j)
    <3>1. CASE stat[e] = "closing"
      BY <1>14, <3>1
    <3>2. CASE stat[e] = "open"
      <4>1. stat'[e] = "closing" => ~m.rtsp /\ ~m.alive /\ m.id <= p /\ m.id <= n + j
        BY <1>8, <1>9, <1>13, <2>2, <3>2
      <4> QED BY <1>8, <4>1 DEF LastOK
    <3> QED BY <1>6, <3>1, <3>2
  <2>4. stat'[e] = "open" => Len(o) = Len(o) + (IF f.m_frame_beg = 0 THEN 1 ELSE 0)
    BY <1>7, <1>9, <1>13, <1>16
  <2> QED BY <1>1, <1>3, <1>5, <1>6, <1>7, <1>13, <1>16, <2>1, <2>3, <2>4, PeerProcessStep
<1>17. CASE m.rtsp /\ Rtsp(e, f, m)
  <2>1. CASE stat[e] = "open"
    <3>1. /\ Room /\ out' = [out EXCEPT ![e] = Append(@, Sent(Reply(m), Unused(caches)))]
          /\ caches' = DelFrame(Alloc(caches, BodyText(<<Sdp>>)), f)
      BY <1>17, <2>1 DEF Rtsp
    <3>2. PICK i \in Id : i = Unused(caches) /\ caches[i].ref = 0 /\ i \in Maybe /\ i # None
      BY <3>1, RoomIs, NoneIs
    <3>3. PICK s \in Outs : s = Sent(Reply(m), i) /\ s.hd = Reply(m) /\ s.cache = i
      <4>1. <<>> \in Seq(Nat \X Nat)
        OBVIOUS
      <4>2. Reply(m) \in Texts
        BY <1>9, <4>1 DEF Reply, Texts
      <4>3. /\ Sent(Reply(m), i) \in Outs /\ Sent(Reply(m), i).hd = Reply(m)
            /\ Sent(Reply(m), i).cache = i
        BY <3>2, <4>2 DEF Sent, Outs
      <4> QED BY <4>3
    <3>4. out' = [out EXCEPT ![e] = Append(@, s)]
      BY <3>1, <3>2, <3>3
    <3>5. f.m_frame_beg = 0
      <4>1. Len(m.body) \in Nat /\ Len(m.body) <= 1
        BY <1>8, <1>9, <1>17, LenProperties
      <4>2. f.m_frame_beg \in Nat /\ (m.body # <<>> => f.m_frame_beg < Len(m.body))
            /\ (m.body = <<>> => f.m_frame_beg = 0)
        BY <1>8 DEF PieceOK
      <4> QED BY <4>1, <4>2
    <3>6. caches'[s.cache].text = BodyText(BodyOf(m))
      <4>1. PICK cs \in Caches : /\ cs = Alloc(caches, BodyText(<<Sdp>>))
                                 /\ cs[i].text = BodyText(<<Sdp>>)
        BY <1>2, <3>2, AllocIs, AllocStays, TextTypes DEF TypeOK
      <4>2. Falls(cs, caches')
        BY <1>9, <3>1, <4>1, DelFrameFalls
      <4>3. caches'[i].ref > 0
        <5>1. PICK k \in DOMAIN out'[e] : out'[e][k] = s
          <6>1. PICK l : l = Len(o) + 1
            OBVIOUS
          <6>2. l \in DOMAIN Append(o, s) /\ Append(o, s)[l] = s
            <7>1. /\ Len(o) \in Nat /\ DOMAIN Append(o, s) = 1 .. Len(o) + 1
                  /\ Append(o, s)[Len(o) + 1] = s
              BY AppendIs
            <7>2. Len(o) + 1 \in 1 .. Len(o) + 1
              BY <7>1
            <7> QED BY <6>1, <7>1, <7>2
          <6>3. out'[e] = Append(o, s)
            BY <1>2, <1>3, <3>4 DEF TypeOK
          <6> QED BY <6>2, <6>3
        <5>2. InUse(caches', i)
          BY <1>11, <3>3, <5>1
        <5> QED BY <3>2, <5>2 DEF InUse
      <4>4. caches'[i].text = BodyText(<<Sdp>>)
        BY <4>1, <4>2, <4>3 DEF Falls
      <4> QED BY <1>17, <3>3, <4>4 DEF BodyOf
    <3> QED BY <1>15, <2>1, <3>2, <3>3, <3>4, <3>5, <3>6
  <2>2. CASE stat[e] # "open"
    <3>1. out' = out
      BY <1>17, <2>2 DEF Rtsp
    <3> QED BY <1>16, <2>2, <3>1
  <2> QED BY <2>1, <2>2
<1>18. CASE ~m.rtsp /\ Demo(e, f, m)
  <2>1. CASE Answers(f) /\ stat[e] = "open"
    <3>1. out' = [out EXCEPT ![e] = Append(@, Sent(Reply(m), f.m_body))]
      BY <1>18, <2>1 DEF Demo
    <3>2. PICK i \in Maybe : i = f.m_body
      BY <1>9 DEF Frames
    <3>3. PICK s \in Outs : s = Sent(Reply(m), i) /\ s.hd = Reply(m) /\ s.cache = i
      <4>1. <<>> \in Seq(Nat \X Nat)
        OBVIOUS
      <4>2. Reply(m) \in Texts
        BY <1>9, <4>1 DEF Reply, Texts
      <4>3. /\ Sent(Reply(m), i) \in Outs /\ Sent(Reply(m), i).hd = Reply(m)
            /\ Sent(Reply(m), i).cache = i
        BY <4>2 DEF Sent, Outs
      <4> QED BY <4>3
    <3>4. out' = [out EXCEPT ![e] = Append(@, s)] /\ f.m_frame_beg = 0
      BY <2>1, <3>1, <3>2, <3>3 DEF Answers
    <3>5. i = None => BodyOf(m) = <<>>
      BY <1>8, <1>18, <3>2 DEF PieceOK, BodyOf
    <3>6. ASSUME i # None PROVE caches'[i].text = BodyText(BodyOf(m))
      <4>1. m.body # <<>> /\ caches[i].text = BodyText(<<m.body[f.m_frame_beg + 1]>>)
        BY <1>8, <3>2, <3>6 DEF PieceOK
      <4>2. f.m_frame_beg + 1 = 1
        BY <3>4
      <4>3. caches[i].text = BodyText(BodyOf(m))
        BY <1>18, <4>1, <4>2 DEF BodyOf
      <4>4. InUse(caches, i)
        <5>1. UsedOK
          BY UsedStep
        <5>2. 1 \in DOMAIN q /\ f = q[1]
          <6>1. PICK l \in Nat : DOMAIN q = 1 .. 1 + l /\ f = q[1]
            BY <1>5, <1>6, TailIs
          <6> QED BY <6>1
        <5> QED BY <1>3, <3>2, <5>1, <5>2 DEF UsedOK
      <4>5. InUse(caches', i)
        <5>1. PICK k \in DOMAIN out'[e] : out'[e][k] = s
          <6>1. PICK l : l = Len(o) + 1
            OBVIOUS
          <6>2. l \in DOMAIN Append(o, s) /\ Append(o, s)[l] = s
            <7>1. /\ Len(o) \in Nat /\ DOMAIN Append(o, s) = 1 .. Len(o) + 1
                  /\ Append(o, s)[Len(o) + 1] = s
              BY AppendIs
            <7>2. Len(o) + 1 \in 1 .. Len(o) + 1
              BY <7>1
            <7> QED BY <6>1, <7>1, <7>2
          <6>3. out'[e] = Append(o, s)
            BY <1>2, <1>3, <3>4 DEF TypeOK
          <6> QED BY <6>2, <6>3
        <5> QED BY <1>11, <3>3, <5>1
      <4> QED BY <1>12, <3>6, <4>3, <4>4, <4>5 DEF Keeps
    <3> QED BY <1>15, <2>1, <3>3, <3>4, <3>5, <3>6
  <2>2. CASE ~(Answers(f) /\ stat[e] = "open")
    <3>1. out' = out /\ (stat[e] = "open" => f.m_frame_beg # 0)
      BY <1>18, <2>2 DEF Demo, Answers
    <3> QED BY <1>16, <3>1
  <2> QED BY <2>1, <2>2
<1> QED BY <1>6, <1>17, <1>18

LEMMA PeerWrite ==
  ASSUME IInv, Next, NEW c \in Conn \ Cli, PeerOK(c), Write(<<c, "svr">>)
  PROVE  PeerOK(c)'
<1>1. PICK e \in End : e = <<c, "svr">> /\ e # <<c, "cli">> /\ <<c, "cli">> \in End /\ e[1] = c
  BY EndIs DEF Svr
<1>2. TypeOK
  BY DEF IInv
<1>3. PICK x \in Ctxs, w \in Seq(Texts), q \in Seq(Frames), o \in Seq(Outs),
          a \in Seq(Texts), b \in Seq(Texts) :
        /\ x = ctx[e] /\ w = wire[e] /\ q = queue[e] /\ o = out[e]
        /\ a = asked[c] /\ b = answered[c]
  BY <1>2 DEF TypeOK
<1>4. Serves(stat[e], x, w, q, o, caches, a, b) /\ stat[<<c, "cli">>] \in {"none", "closed"}
  BY <1>1, <1>3 DEF PeerOK
<1>5. PICK msg : msg = [Head(o).hd EXCEPT !.body = IF Head(o).cache = None THEN <<>>
                                                   ELSE caches[Head(o).cache].text.body]
  OBVIOUS
<1>6. /\ o # <<>> /\ stat[e] \in {"open", "closing"}
      /\ answered' = [answered EXCEPT ![c] = Append(@, msg)]
      /\ out' = [out EXCEPT ![e] = Tail(@)]
      /\ UNCHANGED <<stat, ctx, wire, queue, asked>>
  BY <1>1, <1>3, <1>5 DEF Write
<1>7. out'[e] = Tail(o) /\ answered'[c] = Append(b, msg)
  BY <1>2, <1>3, <1>6 DEF TypeOK
<1>8. msg \in Texts
  <2>1. Head(o) \in Outs
    BY <1>6, TailIs
  <2>2. PICK body : body = IF Head(o).cache = None THEN <<>>
                           ELSE caches[Head(o).cache].text.body
    OBVIOUS
  <2>3. body \in Seq(Nat \X Nat)
    <3>1. CASE Head(o).cache = None
      BY <2>2, <3>1
    <3>2. CASE Head(o).cache # None
      <4>1. Head(o).cache \in Id
        BY <2>1, <3>2, EchoAssumption DEF Outs, Maybe, Id, None
      <4>2. caches[Head(o).cache].text \in Texts
        BY <1>2, <4>1 DEF TypeOK, Caches
      <4> QED BY <2>2, <3>2, <4>2 DEF Texts
    <3> QED BY <3>1, <3>2
  <2>4. Head(o).hd \in Texts
    BY <2>1 DEF Outs
  <2> QED BY <1>5, <2>2, <2>3, <2>4 DEF Texts
<1>9. Serves(stat[e], x, w, q, Tail(o), caches, a, Append(b, msg))
  BY <1>4, <1>5, <1>6, <1>8, WriteServes
<1>10. Serves(stat[e], x, w, q, Tail(o), caches', a, Append(b, msg))
  <2>1. /\ \A k \in DOMAIN q : /\ q[k].m_head # None
                               /\ Keeps(caches, caches', q[k].m_head)
                               /\ Keeps(caches, caches', q[k].m_body)
        /\ Keeps(caches, caches', x.m_head) /\ Keeps(caches, caches', x.m_body)
    BY <1>3, <1>6, KeptUses
  <2>2. \A k \in DOMAIN Tail(o) : Keeps(caches, caches', Tail(o)[k].cache)
    <3>1. PICK t, n : t = Tail(o) /\ n = Len(Tail(o))
      OBVIOUS
    <3>2. /\ Len(Tail(o)) \in Nat
          /\ DOMAIN o = 1 .. 1 + Len(Tail(o)) /\ DOMAIN Tail(o) = 1 .. Len(Tail(o))
          /\ \A k \in 1 .. Len(Tail(o)) : Tail(o)[k] = o[1 + k]
      BY <1>6, TailIs
    <3>3. /\ n \in Nat /\ DOMAIN o = 1 .. 1 + n /\ DOMAIN t = 1 .. n
          /\ \A k \in 1 .. n : t[k] = o[1 + k]
      BY <3>1, <3>2
    <3>4. UsedOK /\ UsedOK'
      BY UsedStep
    <3>5. \A k \in DOMAIN t : InUse(caches', t[k].cache)
      BY <1>7, <3>1, <3>4 DEF UsedOK
    <3>6. \A k \in DOMAIN o : InUse(caches, o[k].cache)
      BY <1>3, <3>4 DEF UsedOK
    <3>7. \A k \in 1 .. n : 1 + k \in 1 .. 1 + n
      BY <3>3
    <3>8. \A i : InUse(caches, i) /\ InUse(caches', i) => Keeps(caches, caches', i)
      BY KeptTexts
    <3> QED BY <3>1, <3>3, <3>5, <3>6, <3>7, <3>8
  <2> QED BY <1>9, <2>1, <2>2, ServesKept
<1> QED BY <1>1, <1>3, <1>4, <1>6, <1>7, <1>10 DEF PeerOK

LEMMA PeerStep ==
  ASSUME IInv, Next, NEW c \in Conn \ Cli, PeerOK(c)
  PROVE  PeerOK(c)'
<1>1. PICK d \in Conn : Acts(d)
  BY NextActs
<1>2. CASE d # c
  BY <1>1, <1>2, Elsewhere, PeerSame
<1>3. CASE d = c
  <2>1. CASE ConnActs(c)
    BY <2>1, PeerConn
  <2>2. CASE EndActs(<<c, "svr">>)
    BY <2>2, PeerClose, PeerReadHead, PeerReadBody, PeerDispatch, PeerProcess, PeerWrite
       DEF EndActs, ParseData
  <2>3. ~EndActs(<<c, "cli">>)
    <3>1. stat[<<c, "cli">>] \in {"none", "closed"}
      BY DEF PeerOK
    <3> QED BY <3>1 DEF EndActs, OnClose, ParseData, ReadHead, ReadBody, DispatchFrame, Parses,
                        Process, Write
  <2> QED BY <1>1, <1>3, <2>1, <2>2, <2>3 DEF Acts
<1> QED BY <1>2, <1>3
-------------------------------------------------------------------------------
(* A connection of HttpCli                                                   *)

LEMMA LoadSame ==
  ASSUME IInv, Next, NEW c \in Conn, LoadOK(c), Untouched(c)
  PROVE  LoadOK(c)'
<1>1. PICK e \in End, d \in End : e = <<c, "svr">> /\ d = <<c, "cli">>
  BY EndIs DEF Svr
<1>2. /\ ctx'[e] = ctx[e] /\ wire'[e] = wire[e] /\ queue'[e] = queue[e]
      /\ stat'[e] = stat[e] /\ out'[d] = out[d]
  BY <1>1 DEF Untouched
<1>3. /\ \A k \in DOMAIN out[d] : out[d][k].hd = CliRequest
      /\ \A k \in DOMAIN wire[e] : Plain(wire[e][k])
      /\ ctx[e].m_head # None => Plain(caches[ctx[e].m_head].text)
      /\ \A k \in DOMAIN queue[e] : Plain(caches[queue[e][k].m_head].text)
      /\ stat[e] # "closing"
  BY <1>1 DEF LoadOK, Svr
<1>4. /\ \A k \in DOMAIN queue[e] : /\ queue[e][k].m_head # None
                                    /\ Keeps(caches, caches', queue[e][k].m_head)
      /\ Keeps(caches, caches', ctx[e].m_head)
  BY <1>2, KeptUses
<1>5. /\ ctx[e].m_head # None => Plain(caches'[ctx[e].m_head].text)
      /\ \A k \in DOMAIN queue[e] : Plain(caches'[queue[e][k].m_head].text)
  BY <1>3, <1>4 DEF Keeps
<1> QED BY <1>1, <1>2, <1>3, <1>5 DEF LoadOK, Svr

\* The heads that a context and the frames have, were there before, or are of requests
\* that go on.
LEMMA LoadChange ==
  ASSUME IInv, Next, NEW c \in Conn, NEW e \in End, NEW d \in End, e = <<c, "svr">>,
         d = <<c, "cli">>, LoadOK(c),
         \A k \in DOMAIN out'[d] : out'[d][k].hd = CliRequest,
         \A k \in DOMAIN wire'[e] : Plain(wire'[e][k]),
         stat'[e] # "closing",
         \/ ctx'[e].m_head = None \/ ctx'[e].m_head = ctx[e].m_head
         \/ Plain(caches'[ctx'[e].m_head].text),
         \A k \in DOMAIN queue'[e] :
           \/ queue'[e][k].m_head = ctx[e].m_head
           \/ \E j \in DOMAIN queue[e] : queue'[e][k].m_head = queue[e][j].m_head
  PROVE  LoadOK(c)'
<1>1. UsedOK /\ UsedOK'
  BY UsedStep
<1>2. /\ ctx[e].m_head # None => Plain(caches[ctx[e].m_head].text)
      /\ \A k \in DOMAIN queue[e] : Plain(caches[queue[e][k].m_head].text)
  BY DEF LoadOK, Svr
<1>3. /\ InUse(caches, ctx[e].m_head) /\ InUse(caches', ctx'[e].m_head)
      /\ \A k \in DOMAIN queue[e] : InUse(caches, queue[e][k].m_head)
      /\ \A k \in DOMAIN queue'[e] :
           queue'[e][k].m_head # None /\ InUse(caches', queue'[e][k].m_head)
  BY <1>1 DEF UsedOK
<1>4. \A i : InUse(caches, i) /\ InUse(caches', i) => Keeps(caches, caches', i)
  BY KeptTexts
<1>5. ctx'[e].m_head # None => Plain(caches'[ctx'[e].m_head].text)
  BY <1>2, <1>3, <1>4 DEF Keeps
<1>6. \A k \in DOMAIN queue'[e] : Plain(caches'[queue'[e][k].m_head].text)
  <2> SUFFICES ASSUME NEW k \in DOMAIN queue'[e]
               PROVE  Plain(caches'[queue'[e][k].m_head].text)
    OBVIOUS
  <2>1. PICK i : i = queue'[e][k].m_head
    OBVIOUS
  <2>2. i # None /\ InUse(caches', i)
    BY <1>3, <2>1
  <2>3. InUse(caches, i) /\ Plain(caches[i].text)
    BY <1>2, <1>3, <2>1, <2>2
  <2> QED BY <1>4, <2>1, <2>2, <2>3 DEF Keeps
<1> QED BY <1>5, <1>6 DEF LoadOK, Svr

\* HttpCli sends requests.
LEMMA SendIsLoad ==
  ASSUME IInv, NEW e \in End, NEW n \in Nat, \A k \in DOMAIN out[e] : out[e][k].hd = CliRequest
  PROVE  LET o == SendHttpReq(e, n)[e] IN \A k \in DOMAIN o : o[k].hd = CliRequest
<1>1. PICK s, t, o, l :
        /\ s = Sent(CliRequest, Unused(caches)) /\ t = [k \in 1 .. n |-> s] /\ o = out[e]
        /\ l = Len(o)
  OBVIOUS
<1>2. o \in Seq(Outs) /\ l \in Nat /\ DOMAIN o = 1 .. l /\ s.hd = CliRequest
  BY <1>1, LenProperties DEF IInv, TypeOK, Sent
<1>3. PICK S : S = Outs \cup {s}
  OBVIOUS
<1>4. o \in Seq(S) /\ t \in Seq(S)
  <2>1. Outs \subseteq S /\ t \in [1 .. n -> S]
    BY <1>1, <1>3
  <2>2. o \in Seq(S)
    BY <1>2, <2>1, SeqMonotonic
  <2> QED BY <2>1, <2>2, SeqDef
<1>5. Len(t) = n
  BY <1>1, <1>4, LenProperties
<1>6. PICK r : r = o \o t
  OBVIOUS
<1>7. /\ r \in Seq(S) /\ Len(r) = l + n
      /\ \A k \in 1 .. l + n : r[k] = IF k <= l THEN o[k] ELSE t[k - l]
  BY <1>1, <1>2, <1>4, <1>5, <1>6, ConcatProperties
<1>8. DOMAIN r = 1 .. l + n
  BY <1>7, LenProperties
<1>9. \A k \in 1 .. l + n : r[k].hd = CliRequest
  <2> SUFFICES ASSUME NEW k \in 1 .. l + n PROVE r[k].hd = CliRequest
    OBVIOUS
  <2>1. CASE k <= l
    <3>1. k \in 1 .. l /\ r[k] = o[k]
      BY <1>7, <2>1
    <3> QED BY <1>1, <1>2, <3>1
  <2>2. CASE ~(k <= l)
    <3>1. k - l \in 1 .. n /\ r[k] = t[k - l]
      BY <1>2, <1>7, <2>2
    <3> QED BY <1>1, <1>2, <3>1
  <2> QED BY <2>1, <2>2
<1>10. SendHttpReq(e, n)[e] = r
  BY <1>1, <1>6 DEF IInv, TypeOK, SendHttpReq
<1> QED BY <1>8, <1>9, <1>10

LEMMA LoadConn ==
  ASSUME IInv, Next, NEW c \in Cli, LoadOK(c), ConnActs(c)
  PROVE  LoadOK(c)'
<1>0. c \in Conn
  BY EchoAssumption
<1>1. PICK e \in End, d \in End : e = <<c, "svr">> /\ d = <<c, "cli">> /\ e # d
  BY <1>0, EndIs DEF Svr
<1>2. TypeOK
  BY DEF IInv
<1>3. /\ \A k \in DOMAIN out[d] : out[d][k].hd = CliRequest
      /\ \A k \in DOMAIN wire[e] : Plain(wire[e][k])
      /\ stat[e] # "closing"
  BY <1>1 DEF LoadOK, Svr
<1>4. /\ wire'[e] = wire[e] /\ queue'[e] = queue[e] /\ stat'[e] # "closing"
      /\ ctx'[e].m_head = None \/ ctx'[e] = ctx[e]
      /\ \A k \in DOMAIN out'[d] : out'[d][k].hd = CliRequest
  <2>1. CASE OnNewSock(c)
    BY <1>1, <1>2, <1>3, <2>1 DEF TypeOK, OnNewSock, Svr, HttpCtx
  <2>2. CASE AddCli(c)
    BY <1>1, <1>2, <1>3, <2>2 DEF TypeOK, AddCli
  <2>3. CASE OnConnFail(c)
    BY <1>1, <1>2, <1>3, <2>3 DEF TypeOK, OnConnFail
  <2>4. CASE OnConnOK(c)
    <3>1. \A k \in DOMAIN out'[d] : out'[d][k].hd = CliRequest
      <4>1. m_first_send_cnt \in Nat /\ out' = SendHttpReq(d, m_first_send_cnt)
        BY <1>1, <2>4, EchoAssumption DEF OnConnOK
      <4> QED BY <1>3, <4>1, SendIsLoad
    <3> QED BY <1>1, <1>2, <1>3, <2>4, <3>1 DEF TypeOK, OnConnOK
  <2>5. ~Ask(c)
    BY DEF Ask
  <2> QED BY <2>1, <2>2, <2>3, <2>4, <2>5 DEF ConnActs
<1> QED BY <1>0, <1>1, <1>3, <1>4, LoadChange

LEMMA LoadEnd ==
  ASSUME IInv, Next, NEW c \in Cli, LoadOK(c), NEW z \in End,
         z = <<c, "svr">> \/ z = <<c, "cli">>, EndActs(z)
  PROVE  LoadOK(c)'
<1>0. c \in Conn
  BY EchoAssumption
<1>1. PICK e \in End, d \in End : e = <<c, "svr">> /\ d = <<c, "cli">> /\ e # d
  BY <1>0, EndIs DEF Svr
<1>2. TypeOK /\ (z = e \/ z = d) /\ EndOK(e)
  BY <1>1 DEF IInv, EndsOK
<1>3. /\ \A k \in DOMAIN out[d] : out[d][k].hd = CliRequest
      /\ \A k \in DOMAIN wire[e] : Plain(wire[e][k])
      /\ ctx[e].m_head # None => Plain(caches[ctx[e].m_head].text)
      /\ \A k \in DOMAIN queue[e] : Plain(caches[queue[e][k].m_head].text)
      /\ stat[e] # "closing"
  BY <1>1 DEF LoadOK, Svr
<1>4. PICK w \in Seq(Texts), q \in Seq(Frames), o \in Seq(Outs) :
        w = wire[e] /\ q = queue[e] /\ o = out[d]
  BY <1>2 DEF TypeOK
<1>7. CASE OnClose(z)
  <2>1. DOMAIN <<>> = {}
    BY EmptyIs
  <2>2. CASE z = e
    <3>1. /\ wire'[e] = <<>> /\ queue'[e] = <<>> /\ stat'[e] = "closed" /\ ctx'[e] = NoCtx
          /\ out'[d] = out[d]
      BY <1>1, <1>2, <1>7, <2>2 DEF TypeOK, OnClose
    <3>2. NoCtx.m_head = None
      BY EmptyIs
    <3> QED BY <1>0, <1>1, <1>3, <2>1, <3>1, <3>2, LoadChange
  <2>3. CASE z = d
    <3>1. /\ wire'[e] = wire[e] /\ queue'[e] = queue[e] /\ stat'[e] = stat[e]
          /\ ctx'[e] = ctx[e] /\ out'[d] = <<>>
      BY <1>1, <1>2, <1>7, <2>3 DEF TypeOK, OnClose
    <3> QED BY <1>0, <1>1, <1>3, <2>1, <3>1, LoadChange
  <2> QED BY <1>2, <2>2, <2>3
<1>8. CASE ReadHead(z)
  <2>1. /\ wire'[e] = wire[e] /\ queue'[e] = queue[e] /\ stat'[e] = stat[e] /\ out'[d] = out[d]
    BY <1>8 DEF ReadHead
  <2>2. CASE z = e
    <3>1. /\ ctx'[e].m_head = Unused(caches) /\ caches' = Alloc(caches, Head(w)) /\ w # <<>> /\ Room
      BY <1>2, <1>4, <1>8, <2>2 DEF TypeOK, Ctxs, ReadHead, Parses
    <3>2. PICK j \in Id : j = Unused(caches) /\ caches[j].ref = 0 /\ caches \in Caches
      BY <1>2, <3>1, RoomIs DEF TypeOK
    <3>3. Head(w) \in Texts /\ Head(w) = w[1] /\ 1 \in DOMAIN w
      <4>1. PICK n \in Nat : Head(w) \in Texts /\ Head(w) = w[1] /\ DOMAIN w = 1 .. 1 + n
        BY <3>1, TailIs
      <4> QED BY <4>1
    <3>4. caches'[j].text = Head(w)
      BY <3>1, <3>2, <3>3, AllocStays
    <3>5. Plain(caches'[ctx'[e].m_head].text)
      BY <1>3, <1>4, <3>1, <3>2, <3>3, <3>4
    <3> QED BY <1>0, <1>1, <1>3, <2>1, <3>5, LoadChange
  <2>3. CASE z = d
    <3>1. ctx'[e] = ctx[e]
      BY <1>1, <1>2, <1>8, <2>3 DEF TypeOK, ReadHead
    <3> QED BY <1>0, <1>1, <1>3, <2>1, <3>1, LoadChange
  <2> QED BY <1>2, <2>2, <2>3
<1>9. CASE ReadBody(z)
  <2>1. /\ wire'[e] = wire[e] /\ queue'[e] = queue[e] /\ stat'[e] = stat[e] /\ out'[d] = out[d]
    BY <1>9 DEF ReadBody
  <2>2. ctx'[e].m_head = ctx[e].m_head
    BY <1>1, <1>2, <1>9 DEF TypeOK, Ctxs, ReadBody
  <2> QED BY <1>0, <1>1, <1>3, <2>1, <2>2, LoadChange
<1>10. CASE DispatchFrame(z)
  <2>1. stat'[e] = stat[e] /\ out'[d] = out[d]
    BY <1>10 DEF DispatchFrame
  <2>2. CASE z = e
    <3>1. PICK f : /\ f.m_head = ctx[e].m_head /\ queue'[e] = Append(q, f) /\ w # <<>>
                   /\ f \in Frames
                   /\ wire'[e] = Tail(w) \/ wire'[e] = wire[e]
                   /\ ctx'[e].m_head = None \/ ctx'[e].m_head = ctx[e].m_head
      <4>1. PICK x, f, isEnd :
              /\ x \in Ctxs /\ x = ctx[e] /\ isEnd = (x.m_frame_beg + 1 >= Len(Head(wire[e]).body))
              /\ f = [m_head |-> x.m_head, m_body |-> x.m_body,
                      m_frame_beg |-> x.m_frame_beg, m_is_end |-> isEnd]
        BY <1>2 DEF TypeOK
      <4>2. /\ queue' = [queue EXCEPT ![e] = Append(@, f)]
            /\ ctx' = [ctx EXCEPT ![e] = IF isEnd THEN HttpCtx
                                         ELSE [x EXCEPT !.m_body = None, !.m_frame_beg = @ + 1]]
            /\ wire' = IF isEnd THEN [wire EXCEPT ![e] = Tail(@)] ELSE wire
            /\ w # <<>>
        BY <1>4, <1>10, <2>2, <4>1 DEF DispatchFrame, Parses
      <4>3. queue'[e] = Append(q, f) /\ (wire'[e] = Tail(w) \/ wire'[e] = wire[e])
        BY <1>2, <1>4, <4>2 DEF TypeOK
      <4>4. ctx'[e].m_head = None \/ ctx'[e].m_head = ctx[e].m_head
        BY <1>2, <4>1, <4>2 DEF TypeOK, Ctxs, HttpCtx
      <4>5. f \in Frames /\ f.m_head = ctx[e].m_head
        <5>1. PICK n \in Nat : DOMAIN queue'[e] = 1 .. n + 1 /\ queue'[e][n + 1] = f
          <6>1. queue'[e] \in Seq(Frames)
            BY NextOK DEF IInv, TypeOK
          <6>2. PICK n : n = Len(q)
            OBVIOUS
          <6>3. q \in Seq({f} \cup Frames)
            BY SeqMonotonic
          <6>4. n \in Nat /\ DOMAIN Append(q, f) = 1 .. n + 1 /\ Append(q, f)[n + 1] = f
            BY <6>2, <6>3, AppendIs
          <6> QED BY <4>3, <6>4
        <5>2. queue'[e] \in Seq(Frames)
          BY NextOK DEF IInv, TypeOK
        <5>3. n + 1 \in 1 .. n + 1
          BY <5>1
        <5>4. f \in Frames
          BY <5>1, <5>2, <5>3, LenProperties, ElementOfSeq
        <5> QED BY <4>1, <5>4
      <4> QED BY <4>2, <4>3, <4>4, <4>5
    <3>2. \A k \in DOMAIN wire'[e] : Plain(wire'[e][k])
      <4>1. \A k \in DOMAIN Tail(w) : \E j \in DOMAIN w : Tail(w)[k] = w[j]
        BY TailIn, <3>1
      <4>2. CASE wire'[e] = Tail(w)
        BY <1>3, <1>4, <4>1, <4>2
      <4>3. CASE wire'[e] = wire[e]
        BY <1>3, <4>3
      <4> QED BY <3>1, <4>2, <4>3
    <3>3. \A k \in DOMAIN queue'[e] :
            \/ queue'[e][k].m_head = ctx[e].m_head
            \/ \E j \in DOMAIN queue[e] : queue'[e][k].m_head = queue[e][j].m_head
      BY <1>4, <3>1, AppendIn
    <3>4. ctx'[e].m_head = None \/ ctx'[e].m_head = ctx[e].m_head
      BY <3>1
    <3>5. stat'[e] # "closing" /\ \A k \in DOMAIN out'[d] : out'[d][k].hd = CliRequest
      BY <1>3, <2>1
    <3> QED BY <1>0, <1>1, <3>2, <3>3, <3>4, <3>5, LoadChange
  <2>3. CASE z = d
    <3>1. ctx'[e] = ctx[e] /\ wire'[e] = wire[e] /\ queue'[e] = queue[e]
      BY <1>1, <1>2, <1>10, <2>3 DEF TypeOK, DispatchFrame
    <3> QED BY <1>0, <1>1, <1>3, <2>1, <3>1, LoadChange
  <2> QED BY <1>2, <2>2, <2>3
<1>11. CASE Process(z)
  <2>1. ctx'[e] = ctx[e] /\ wire'[e] = wire[e]
    BY <1>11 DEF Process
  <2>2. CASE z = e
    <3>1. queue'[e] = Tail(q) /\ q # <<>>
      BY <1>2, <1>4, <1>11, <2>2 DEF TypeOK, Process
    <3>2. \A k \in DOMAIN queue'[e] :
            \E j \in DOMAIN queue[e] : queue'[e][k].m_head = queue[e][j].m_head
      BY <1>4, <3>1, TailIn
    <3>3. stat'[e] = stat[e] /\ out'[d] = out[d]
      <4>1. PICK f, m : f = Head(q) /\ m = caches[f.m_head].text
        OBVIOUS
      <4>2. Rtsp(e, f, m) \/ Demo(e, f, m)
        BY <1>1, <1>4, <1>11, <2>2, <4>1 DEF Process
      <4>3. Plain(m)
        <5>1. PICK n \in Nat : Head(q) = q[1] /\ DOMAIN q = 1 .. 1 + n
          BY <3>1, TailIs
        <5>2. 1 \in DOMAIN q
          BY <5>1
        <5> QED BY <1>3, <1>4, <4>1, <5>1, <5>2
      <4>4. UNCHANGED stat
        BY <4>2, <4>3 DEF Rtsp, Demo, Closes, Plain
      <4>5. out' = out \/ \E s : out' = [out EXCEPT ![e] = Append(@, s)]
        BY <4>2 DEF Rtsp, Demo
      <4> QED BY <1>1, <1>2, <4>4, <4>5 DEF TypeOK
    <3>4. /\ ctx'[e].m_head = ctx[e].m_head /\ stat'[e] # "closing"
          /\ \A k \in DOMAIN out'[d] : out'[d][k].hd = CliRequest
          /\ \A k \in DOMAIN wire'[e] : Plain(wire'[e][k])
      BY <1>3, <2>1, <3>3
    <3> QED BY <1>0, <1>1, <3>2, <3>4, LoadChange
  <2>3. CASE z = d
    <3>1. queue'[e] = queue[e]
      BY <1>1, <1>2, <1>11, <2>3 DEF TypeOK, Process
    <3>2. PICK f : Again(d, f)
      BY <1>1, <1>11, <2>3 DEF Process
    <3>3. stat' = stat
      BY <3>2 DEF Again
    <3>4. \A k \in DOMAIN out'[d] : out'[d][k].hd = CliRequest
      <4>1. PICK n \in Nat : n = 1
        OBVIOUS
      <4>2. out' = SendHttpReq(d, n)
        BY <3>2, <4>1 DEF Again
      <4> QED BY <1>3, <4>2, SendIsLoad
    <3> QED BY <1>0, <1>1, <1>3, <2>1, <3>1, <3>3, <3>4, LoadChange
  <2> QED BY <1>2, <2>2, <2>3
<1>12. CASE Write(z)
  <2>1. ctx'[e] = ctx[e] /\ stat'[e] = stat[e] /\ queue'[e] = queue[e]
    BY <1>12 DEF Write
  <2>2. CASE z = e
    <3>1. PICK msg :
            /\ wire' = wire \/ wire' = [wire EXCEPT ![Peer(e)] = Append(@, msg)]
            /\ out' = [out EXCEPT ![e] = Tail(@)]
      BY <1>12, <2>2 DEF Write
    <3>2. Peer(e) # e
      BY <1>1 DEF Peer
    <3>3. wire'[e] = wire[e] /\ out'[d] = out[d]
      BY <1>1, <1>2, <3>1, <3>2 DEF TypeOK
    <3> QED BY <1>0, <1>1, <1>3, <2>1, <3>3, LoadChange
  <2>3. CASE z = d
    <3>1. PICK s : s = Head(o) /\ s \in Outs /\ o # <<>>
      <4>1. o # <<>>
        BY <1>4, <1>12, <2>3 DEF Write
      <4> QED BY <4>1, TailIs
    <3>2. PICK msg : /\ \E body : msg = [s.hd EXCEPT !.body = body]
                     /\ wire' = wire \/ wire' = [wire EXCEPT ![Peer(d)] = Append(@, msg)]
                     /\ out' = [out EXCEPT ![d] = Tail(@)]
      BY <1>4, <1>12, <2>3, <3>1 DEF Write
    <3>3. s.hd = CliRequest
      <4>1. PICK n \in Nat : Head(o) = o[1] /\ DOMAIN o = 1 .. 1 + n
        BY <3>1, TailIs
      <4>2. 1 \in DOMAIN o
        BY <4>1
      <4> QED BY <1>3, <1>4, <3>1, <4>1, <4>2
    <3>4. Plain(msg)
      BY <3>2, <3>3, EchoAssumption DEF Texts, Plain
    <3>5. out'[d] = Tail(o) /\ (wire'[e] = wire[e] \/ wire'[e] = Append(w, msg))
      BY <1>1, <1>2, <1>4, <3>2 DEF TypeOK, Peer
    <3>6. \A k \in DOMAIN out'[d] : out'[d][k].hd = CliRequest
      BY <1>3, <1>4, <3>1, <3>5, TailIn
    <3>7. \A k \in DOMAIN wire'[e] : Plain(wire'[e][k])
      <4>1. PICK S : S = Texts \cup {msg}
        OBVIOUS
      <4>2. w \in Seq(S) /\ msg \in S
        BY <4>1, SeqMonotonic
      <4>3. \A k \in DOMAIN Append(w, msg) :
              Append(w, msg)[k] = msg \/ \E j \in DOMAIN w : Append(w, msg)[k] = w[j]
        BY <4>2, AppendIn
      <4>4. CASE wire'[e] = Append(w, msg)
        BY <1>3, <1>4, <3>4, <4>3, <4>4
      <4>5. CASE wire'[e] = wire[e]
        BY <1>3, <4>5
      <4> QED BY <3>5, <4>4, <4>5
    <3> QED BY <1>0, <1>1, <1>3, <2>1, <3>6, <3>7, LoadChange
  <2> QED BY <1>2, <2>2, <2>3
<1> QED BY <1>7, <1>8, <1>9, <1>10, <1>11, <1>12 DEF EndActs, ParseData

LEMMA LoadStep ==
  ASSUME IInv, Next, NEW c \in Cli, LoadOK(c)
  PROVE  LoadOK(c)'
<1>0. c \in Conn /\ <<c, "svr">> \in End /\ <<c, "cli">> \in End
  BY EchoAssumption DEF End
<1>1. PICK d \in Conn : Acts(d)
  BY NextActs
<1>2. CASE d # c
  BY <1>0, <1>1, <1>2, Elsewhere, LoadSame
<1>3. CASE d = c
  <2>1. CASE ConnActs(c)
    BY <2>1, LoadConn
  <2>2. CASE EndActs(<<c, "svr">>)
    BY <1>0, <2>2, LoadEnd
  <2>3. CASE EndActs(<<c, "cli">>)
    BY <1>0, <2>3, LoadEnd
  <2> QED BY <1>1, <1>3, <2>1, <2>2, <2>3 DEF Acts
<1> QED BY <1>2, <1>3
-------------------------------------------------------------------------------
(* The invariant                                                             *)

\* Nothing was asked.
LEMMA NoneServes ==
  ASSUME NEW st, NEW cs, st \in {"none", "closed"}
  PROVE  Serves(st, NoCtx, <<>>, <<>>, <<>>, cs, <<>>, <<>>)
<1>1. PICK z, n : z = <<>> /\ n = 0 /\ DOMAIN z = {} /\ Len(z) = n
  BY EmptyIs
<1>2. PICK y : y = NoCtx /\ y.m_head = None /\ y.m_body = None /\ ~(y.m_frame_beg > 0)
  BY EmptyIs
<1>3. AskedOK(z) /\ WireOK(z, n, z) /\ CtxOK(cs, y, z) /\ FramesOK(cs, z, n, z)
      /\ ChainOK(cs, n, y, z) /\ RepliesOK(cs, z, z, n) /\ AnswersOK(z, z)
  BY <1>1, <1>2 DEF AskedOK, WireOK, CtxOK, FramesOK, ChainOK, RepliesOK, AnswersOK
<1>4. Len(z) - Len(z) = n /\ st # "open" /\ st # "closing"
  BY <1>1
<1> QED BY <1>1, <1>2, <1>3, <1>4 DEF Serves

LEMMA EInvInit == Init => EInv
<1> SUFFICES ASSUME Init PROVE EInv
  OBVIOUS
<1>1. \A e \in End : /\ stat[e] \in {"none", "closed"} /\ ctx[e] = NoCtx
                     /\ wire[e] = <<>> /\ queue[e] = <<>> /\ out[e] = <<>>
  BY DEF Init
<1>2. \A c \in Conn : asked[c] = <<>> /\ answered[c] = <<>>
  BY DEF Init
<1>3. \A c \in Conn : <<c, "svr">> \in End /\ <<c, "cli">> \in End
  BY DEF End
<1>4. ASSUME NEW c \in Conn PROVE PeerOK(c)
  <2>1. PICK e \in End : e = <<c, "svr">>
    BY <1>3
  <2>2. Serves(stat[e], NoCtx, <<>>, <<>>, <<>>, caches, <<>>, <<>>)
    BY <1>1, NoneServes
  <2> QED BY <1>1, <1>2, <1>3, <2>1, <2>2 DEF PeerOK
<1>5. ASSUME NEW c \in Conn PROVE LoadOK(c)
  <2>1. PICK e \in End, d \in End : e = <<c, "svr">> /\ d = <<c, "cli">>
    BY <1>3
  <2>2. PICK z : z = <<>> /\ DOMAIN z = {}
    BY EmptyIs
  <2>3. ctx[e].m_head = None /\ stat[e] # "closing"
    BY <1>1, EmptyIs
  <2>4. out[d] = z /\ wire[e] = z /\ queue[e] = z
    BY <1>1, <2>2
  <2> QED BY <2>1, <2>2, <2>3, <2>4 DEF LoadOK, Svr
<1> QED BY <1>4, <1>5, InitOK, EchoAssumption DEF EInv

LEMMA EInvNext == EInv /\ [Next]_vars => EInv'
<1> SUFFICES ASSUME EInv, [Next]_vars PROVE EInv'
  OBVIOUS
<1>1. IInv'
  BY NextOK DEF EInv
<1>2. CASE UNCHANGED vars
  <2>1. \A c \in Conn \ Cli : PeerOK(c)'
    BY <1>2 DEF EInv, vars, PeerOK
  <2>2. \A c \in Cli : LoadOK(c)'
    BY <1>2 DEF EInv, vars, LoadOK, Svr
  <2> QED BY <1>1, <2>1, <2>2 DEF EInv
<1>3. CASE Next
  <2>1. \A c \in Conn \ Cli : PeerOK(c)'
    BY <1>3, PeerStep DEF EInv
  <2>2. \A c \in Cli : LoadOK(c)'
    BY <1>3, LoadStep DEF EInv
  <2> QED BY <1>1, <2>1, <2>2 DEF EInv
<1> QED BY <1>2, <1>3

\* What waits at the end that serves a peer, frame by frame and reply by reply, is what
\* its requests still need, in their order.
THEOREM EchoInvariance == Spec => []EInv
<1>1. Spec => Init /\ [][Next]_vars
  BY PTL DEF Spec
<1> QED BY <1>1, EInvInit, EInvNext, PTL

\* The k-th reply answers the k-th request: RtspHandler's with a description, the
\* demo's with the first frame of its own body, although that is read when it is written
\* and the request has given it up long before.
THEOREM RepliesAreTrue == Spec => []EchoTrue
<1>1. ASSUME NEW r \in Texts
      PROVE  Answer(r) = [r EXCEPT !.body = IF r.rtsp THEN <<Sdp>>
                            ELSE [n \in {1} \cap DOMAIN r.body |-> r.body[n]]]
  <2>1. PICK b \in Seq(Nat \X Nat) : b = r.body
    BY DEF Texts
  <2>2. [n \in {1} \cap DOMAIN b |-> b[n]] = IF b = <<>> THEN <<>> ELSE <<b[1]>>
    <3>1. CASE b = <<>>
      <4>1. {1} \cap DOMAIN b = {}
        BY <3>1, EmptyIs
      <4> QED BY <3>1, <4>1
    <3>2. CASE b # <<>>
      <4>1. 1 \in DOMAIN b
        <5>1. PICK n \in Nat : DOMAIN b = 1 .. 1 + n
          BY <3>2, TailIs
        <5> QED BY <5>1
      <4>2. {1} \cap DOMAIN b = {1}
        BY <4>1
      <4> QED BY <3>2, <4>2
    <3> QED BY <3>1, <3>2
  <2>3. PICK v : v = BodyOf(r) /\ v = IF r.rtsp THEN <<Sdp>>
                            ELSE [n \in {1} \cap DOMAIN r.body |-> r.body[n]]
    BY <2>1, <2>2 DEF BodyOf
  <2>4. Answer(r) = [r EXCEPT !.body = v]
    <3>1. DOMAIN r = {"id", "rtsp", "alive", "body"} /\ r = [x \in DOMAIN r |-> r[x]]
      BY DEF Texts
    <3>2. Answer(r) = [id |-> r.id, rtsp |-> r.rtsp, alive |-> r.alive, body |-> v]
      BY <2>3 DEF Answer
    <3> QED BY <3>1, <3>2
  <2> QED BY <2>3, <2>4
<1>2. EInv => EchoTrue
  <2> SUFFICES ASSUME EInv, NEW c \in Conn \ Cli, NEW k \in DOMAIN answered[c]
               PROVE  LET r == asked[c][k]
                      IN answered[c][k] =
                           [r EXCEPT !.body = IF r.rtsp THEN <<Sdp>>
                                              ELSE [n \in {1} \cap DOMAIN r.body |-> r.body[n]]]
    BY DEF EchoTrue
  <2>1. AnswersOK(asked[c], answered[c])
    BY DEF EInv, PeerOK, Serves
  <2>2. k \in DOMAIN asked[c] /\ answered[c][k] = Answer(asked[c][k])
    BY <2>1 DEF AnswersOK
  <2>3. asked[c][k] \in Texts
    <3>1. asked[c] \in Seq(Texts)
      BY DEF EInv, IInv, TypeOK
    <3> QED BY <2>2, <3>1, LenProperties, ElementOfSeq
  <2> QED BY <1>1, <2>2, <2>3
<1> QED BY <1>2, EchoInvariance, PTL

\* A connection is closed on behalf of a request that was read to its end and has its
\* reply, written or about to be; HttpCli's never is.
THEOREM ClosesAreDue == Spec => []ClosesWhenDone
<1>1. EInv => ClosesWhenDone
  <2> SUFFICES ASSUME EInv, NEW c \in Conn, stat[Svr(c)] = "closing"
               PROVE  \E k \in DOMAIN asked[c] :
                        /\ ~asked[c][k].alive /\ ~asked[c][k].rtsp
                        /\ k \in Range(Ids(answered[c])) \cup Range(Unwritten(Svr(c)))
                        /\ k \notin Range(Ids(wire[Svr(c)]))
    BY DEF ClosesWhenDone
  <2>1. c \notin Cli
    BY DEF EInv, LoadOK
  <2>2. PICK e \in End : e = Svr(c) /\ e = <<c, "svr">>
    BY EndIs DEF Svr
  <2>3. PICK a \in Seq(Texts), b \in Seq(Texts) : a = asked[c] /\ b = answered[c]
    BY DEF EInv, IInv, TypeOK
  <2>4. PICK w \in Seq(Texts), o \in Seq(Outs) : w = wire[e] /\ o = out[e]
    BY DEF EInv, IInv, TypeOK
  <2>5. PICK na \in Nat, nb \in Nat, nw \in Nat, no \in Nat :
          /\ na = Len(a) /\ nb = Len(b) /\ nw = Len(w) /\ no = Len(o)
    BY LenProperties
  <2>6. /\ DOMAIN a = 1 .. na /\ DOMAIN b = 1 .. nb
        /\ DOMAIN w = 1 .. nw /\ DOMAIN o = 1 .. no
    BY <2>5, LenProperties
  <2>7. PICK p, r : p = na - nw /\ r = nb + no
    OBVIOUS
  <2>8. AskedOK(a) /\ WireOK(a, p, w) /\ RepliesOK(caches, a, o, nb)
        /\ AnswersOK(a, b) /\ LastOK(a, p, r)
    BY <2>1, <2>2, <2>3, <2>4, <2>5, <2>7 DEF EInv, PeerOK, Serves
  <2>9. PICK k \in DOMAIN a : ~a[k].alive /\ ~a[k].rtsp /\ k <= r /\ k <= p
    BY <2>8 DEF LastOK
  <2>10. \A j \in DOMAIN a : a[j].id = j
    BY <2>8 DEF AskedOK
  <2>11. k \in Range(Ids(b)) \cup Range(Unwritten(e))
    <3>1. CASE k <= nb
      <4>1. k \in DOMAIN b
        BY <2>6, <3>1
      <4>2. b[k].id = k
        BY <2>8, <2>10, <4>1 DEF AnswersOK, Answer
      <4>3. k \in DOMAIN Ids(b) /\ Ids(b)[k] = k
        BY <4>1, <4>2 DEF Ids
      <4> QED BY <4>3 DEF Range
    <3>2. CASE ~(k <= nb)
      <4>1. PICK j \in DOMAIN o : nb + j = k
        <5>1. k - nb \in 1 .. no /\ nb + (k - nb) = k
          BY <2>6, <2>7, <2>9, <3>2
        <5> QED BY <2>6, <5>1
      <4>2. o[j].hd.id = k
        <5>1. o[j].hd = Reply(a[k])
          BY <2>8, <4>1 DEF RepliesOK, ReplyOK
        <5> QED BY <2>10, <5>1 DEF Reply
      <4>3. j \in DOMAIN Unwritten(e) /\ Unwritten(e)[j] = k
        BY <2>4, <4>2 DEF Unwritten
      <4> QED BY <4>3 DEF Range
    <3> QED BY <3>1, <3>2
  <2>12. k \notin Range(Ids(w))
    <3> SUFFICES ASSUME NEW j \in DOMAIN w PROVE w[j].id # k
      BY DEF Range, Ids
    <3>1. w[j] = a[p + j] /\ p \in Nat /\ na = p + nw
      BY <2>5, <2>8 DEF WireOK
    <3>2. p + j \in DOMAIN a /\ p + j # k
      BY <2>5, <2>6, <2>9, <3>1
    <3> QED BY <2>10, <3>1, <3>2
  <2> QED BY <2>2, <2>3, <2>4, <2>9, <2>11, <2>12
<1> QED BY <1>1, EchoInvariance, PTL
-------------------------------------------------------------------------------
(* One reply each                                                            *)

\* A set of positions, counted up to each of them.
LEMMA LowStep ==
  ASSUME NEW n \in Nat, NEW F \in SUBSET (1 .. n)
  PROVE  /\ Cardinality(F) \in Nat /\ \A j \in 0 .. n : Cardinality(Low(F, j)) \in Nat
         /\ Cardinality(Low(F, 0)) = 0 /\ Cardinality(Low(F, n)) = Cardinality(F)
         /\ \A j \in 1 .. n : Cardinality(Low(F, j)) = Cardinality(Low(F, j - 1))
                                                       + (IF j \in F THEN 1 ELSE 0)
<1>1. IsFiniteSet(F)
  <2>1. IsFiniteSet(1 .. n)
    BY FS_Interval
  <2> QED BY <2>1, FS_Subset
<1>2. \A j \in 0 .. n : IsFiniteSet(Low(F, j)) /\ Cardinality(Low(F, j)) \in Nat
  <2> SUFFICES ASSUME NEW j \in 0 .. n
               PROVE  IsFiniteSet(Low(F, j)) /\ Cardinality(Low(F, j)) \in Nat
    OBVIOUS
  <2>1. Low(F, j) \subseteq F
    BY DEF Low
  <2>2. IsFiniteSet(Low(F, j))
    BY <1>1, <2>1, FS_Subset
  <2> QED BY <2>2, FS_CardinalityType
<1>0. \A k \in F : k \in Nat /\ 1 <= k /\ k <= n
  OBVIOUS
<1>3. Low(F, 0) = {} /\ Low(F, n) = F
  <2>1. \A k \in F : ~(k <= 0) /\ k <= n
    BY <1>0
  <2>2. {k \in F : k <= 0} = {}
    BY <2>1
  <2>3. {k \in F : k <= n} = F
    BY <2>1
  <2> QED BY <2>2, <2>3 DEF Low
<1>4. \A j \in 1 .. n : Cardinality(Low(F, j)) = Cardinality(Low(F, j - 1))
                                                + (IF j \in F THEN 1 ELSE 0)
  <2> SUFFICES ASSUME NEW j \in 1 .. n
               PROVE  Cardinality(Low(F, j)) = Cardinality(Low(F, j - 1))
                                               + (IF j \in F THEN 1 ELSE 0)
    OBVIOUS
  <2>0. j - 1 \in 0 .. n
    OBVIOUS
  <2>1. PICK A, B : A = Low(F, j - 1) /\ B = Low(F, j)
    OBVIOUS
  <2>2. IsFiniteSet(A) /\ Cardinality(A) \in Nat
    BY <1>2, <2>0, <2>1
  <2>3. CASE j \in F
    <3>0. \A k \in Nat : k <= j <=> k <= j - 1 \/ k = j
      OBVIOUS
    <3>1. B = A \cup {j} /\ j \notin A
      <4>1. \A k \in F : k <= j <=> k <= j - 1 \/ k = j
        BY <1>0, <3>0
      <4>2. {k \in F : k <= j} = {k \in F : k <= j - 1} \cup {j}
        BY <2>3, <4>1
      <4>3. ~(j <= j - 1)
        OBVIOUS
      <4>4. j \notin {k \in F : k <= j - 1}
        BY <4>3
      <4> QED BY <2>1, <4>2, <4>4 DEF Low
    <3>2. Cardinality(A \cup {j}) = Cardinality(A) + 1
      BY <2>2, <3>1, FS_AddElement
    <3> QED BY <2>1, <2>3, <3>1, <3>2
  <2>4. CASE j \notin F
    <3>0. \A k \in Nat : k <= j <=> k <= j - 1 \/ k = j
      OBVIOUS
    <3>1. B = A
      BY <1>0, <2>1, <2>4, <3>0 DEF Low
    <3> QED BY <2>1, <2>2, <2>4, <3>1
  <2> QED BY <2>3, <2>4
<1> QED BY <1>1, <1>2, <1>3, <1>4, FS_CardinalityType, FS_EmptySet

\* What is true of a position and of the next one after those it is true of, is true of all.
LEMMA First ==
  ASSUME NEW n \in Nat, NEW S \in SUBSET (1 .. n), S # {}
  PROVE  \E i \in S : \A j \in S : i <= j
<1>1. S \subseteq Nat
  OBVIOUS
<1>2. PICK i \in S : \A j \in S : ~(<<j, i>> \in OpToRel(<, Nat))
  BY <1>1, NatLessThanWellFounded, WFMin
<1>3. \A j \in Nat, k \in Nat : j < k => <<j, k>> \in OpToRel(<, Nat)
  BY DEF OpToRel
<1>4. \A j \in S : ~(j < i)
  BY <1>1, <1>2, <1>3
<1>5. \A j \in S : i <= j
  BY <1>1, <1>4
<1> QED BY <1>5

\* Each count is reached at a member of the set.
LEMMA NthIs ==
  ASSUME NEW n \in Nat, NEW F \in SUBSET (1 .. n), NEW c \in 1 .. Cardinality(F)
  PROVE  \E k \in F : Cardinality(Low(F, k)) = c
<1>1. PICK m \in Nat, l \in [0 .. n -> Nat] :
        /\ m = Cardinality(F) /\ \A j \in 0 .. n : l[j] = Cardinality(Low(F, j))
  <2>1. Cardinality(F) \in Nat /\ \A j \in 0 .. n : Cardinality(Low(F, j)) \in Nat
    BY LowStep
  <2>2. [j \in 0 .. n |-> Cardinality(Low(F, j))] \in [0 .. n -> Nat]
    BY <2>1
  <2> QED BY <2>1, <2>2
<1>2. /\ l[0] = 0 /\ l[n] = m
      /\ \A j \in 1 .. n : l[j] = l[j - 1] + (IF j \in F THEN 1 ELSE 0)
  <2>1. \A j \in 1 .. n : j \in 0 .. n /\ j - 1 \in 0 .. n
    OBVIOUS
  <2>2. 0 \in 0 .. n /\ n \in 0 .. n
    OBVIOUS
  <2>3. Cardinality(Low(F, 0)) = 0 /\ Cardinality(Low(F, n)) = Cardinality(F)
    BY LowStep
  <2>4. \A j \in 1 .. n : Cardinality(Low(F, j)) = Cardinality(Low(F, j - 1))
                                                  + (IF j \in F THEN 1 ELSE 0)
    BY LowStep
  <2>5. l[0] = 0 /\ l[n] = m
    BY <1>1, <2>2, <2>3
  <2> QED BY <1>1, <2>1, <2>4, <2>5
<1>3. PICK S : S = {j \in 1 .. n : l[j] >= c}
  OBVIOUS
<1>4. c \in Nat /\ 1 <= c /\ c <= m
  BY <1>1
<1>5. n \in S
  BY <1>1, <1>2, <1>3, <1>4
<1>6. PICK k \in S : \A j \in S : k <= j
  <2>1. S \in SUBSET (1 .. n) /\ S # {}
    BY <1>3, <1>5
  <2> QED BY <2>1, First
<1>7. k \in 1 .. n /\ k - 1 \in 0 .. n /\ k \in 0 .. n /\ l[k] >= c
  BY <1>3, <1>6
<1>8. l[k - 1] < c
  <2>1. CASE k = 1
    BY <1>2, <1>4, <2>1
  <2>2. CASE k # 1
    <3>1. k - 1 \in 1 .. n /\ k - 1 \notin S
      BY <1>6, <1>7, <2>2
    <3> QED BY <1>1, <1>3, <1>4, <1>7, <3>1
  <2> QED BY <2>1, <2>2
<1>9. l[k] = l[k - 1] + (IF k \in F THEN 1 ELSE 0) /\ l[k] \in Nat /\ l[k - 1] \in Nat
  BY <1>1, <1>2, <1>7
<1>10. k \in F /\ l[k] = c
  BY <1>4, <1>7, <1>8, <1>9
<1> QED BY <1>1, <1>7, <1>10

\* A chain of requests, each in one place or several, the first of which are in F.
Chained(n, id, beg) ==
  \A k \in 1 .. n :
    \/ id[k + 1] = id[k] + 1 /\ beg[k + 1] = 0
    \/ id[k + 1] = id[k] /\ beg[k + 1] = beg[k] + 1
After(r, id, beg) == id[1] = r + (IF beg[1] = 0 THEN 1 ELSE 0)
FirstIn(n, beg, F) == \A k \in 1 .. n : k \in F <=> beg[k] = 0
Turn(r, id, beg, F, j) ==
  id[j] = r + Cardinality(Low(F, j - 1)) + (IF beg[j] = 0 THEN 1 ELSE 0)
AllTurns(n, r, id, beg, F) == \A j \in 1 .. n + 1 : Turn(r, id, beg, F, j)

LEMMA Turns ==
  ASSUME NEW n \in Nat, NEW r \in Nat, NEW id \in [1 .. n + 1 -> Nat],
         NEW beg \in [1 .. n + 1 -> Nat], NEW F \in SUBSET (1 .. n),
         FirstIn(n, beg, F), Chained(n, id, beg),
         After(r, id, beg)
  PROVE  AllTurns(n, r, id, beg, F)
<1>1. PICK l \in [0 .. n -> Nat] : \A j \in 0 .. n : l[j] = Cardinality(Low(F, j))
  <2>1. \A j \in 0 .. n : Cardinality(Low(F, j)) \in Nat
    BY LowStep
  <2>2. [j \in 0 .. n |-> Cardinality(Low(F, j))] \in [0 .. n -> Nat]
    BY <2>1
  <2> QED BY <2>2
<1>2. /\ l[0] = 0
      /\ \A j \in 1 .. n : l[j] = l[j - 1] + (IF beg[j] = 0 THEN 1 ELSE 0)
  <2>1. \A j \in 1 .. n : j \in 0 .. n /\ j - 1 \in 0 .. n
    OBVIOUS
  <2>2. 0 \in 0 .. n
    OBVIOUS
  <2>4. Cardinality(Low(F, 0)) = 0
    BY LowStep
  <2>5. \A j \in 1 .. n : Cardinality(Low(F, j)) = Cardinality(Low(F, j - 1))
                                                  + (IF j \in F THEN 1 ELSE 0)
    BY LowStep
  <2> QED BY <1>1, <2>1, <2>2, <2>4, <2>5 DEF FirstIn
<1>3. PICK S : S = {j \in 1 .. n + 1 : ~(id[j] = r + l[j - 1] + (IF beg[j] = 0 THEN 1 ELSE 0))}
  OBVIOUS
<1>4. S = {}
  <2> SUFFICES ASSUME S # {} PROVE FALSE
    OBVIOUS
  <2>0. n + 1 \in Nat /\ S \in SUBSET (1 .. n + 1)
    BY <1>3
  <2>1. PICK i \in S : \A j \in S : i <= j
    BY <2>0, First
  <2>2. i \in 1 .. n + 1 /\ ~(id[i] = r + l[i - 1] + (IF beg[i] = 0 THEN 1 ELSE 0))
    BY <1>3, <2>1
  <2>3. i # 1
    BY <1>2, <2>2 DEF After
  <2>4. PICK k \in 1 .. n : i = k + 1
    BY <2>2, <2>3
  <2>5. k \in 1 .. n + 1 /\ k \notin S
    BY <2>1, <2>4
  <2>6. id[k] = r + l[k - 1] + (IF beg[k] = 0 THEN 1 ELSE 0)
    BY <1>3, <2>5
  <2>7. l[k] = l[k - 1] + (IF beg[k] = 0 THEN 1 ELSE 0) /\ l[k] \in Nat /\ l[k - 1] \in Nat
    BY <1>1, <1>2
  <2>8. id[k] = r + l[k]
    BY <2>6, <2>7
  <2>9. id[k + 1] = r + l[k] + (IF beg[k + 1] = 0 THEN 1 ELSE 0)
    <3>1. k \in 1 .. n + 1 /\ k + 1 \in 1 .. n + 1
      OBVIOUS
    <3>2. id[k] \in Nat /\ id[k + 1] \in Nat /\ beg[k] \in Nat /\ beg[k + 1] \in Nat
      BY <3>1
    <3>3. CASE id[k + 1] = id[k] + 1 /\ beg[k + 1] = 0
      <4>1. id[k + 1] = r + l[k - 1] + (IF beg[k] = 0 THEN 1 ELSE 0) + 1
        BY <2>6, <3>3
      <4> QED BY <2>7, <2>8, <3>2, <3>3
    <3>4. CASE id[k + 1] = id[k] /\ beg[k + 1] = beg[k] + 1
      <4>1. beg[k + 1] # 0
        BY <3>2, <3>4
      <4> QED BY <2>7, <2>8, <3>2, <3>4, <4>1
    <3> QED BY <3>3, <3>4 DEF Chained
  <2>10. i - 1 = k
    BY <2>4
  <2> QED BY <2>2, <2>4, <2>9, <2>10
<1>5. \A j \in 1 .. n + 1 : j - 1 \in 0 .. n
  OBVIOUS
<1>6. \A j \in 1 .. n + 1 : id[j] = r + l[j - 1] + (IF beg[j] = 0 THEN 1 ELSE 0)
  BY <1>3, <1>4
<1>7. \A j \in 1 .. n + 1 : l[j - 1] = Cardinality(Low(F, j - 1))
  BY <1>1, <1>5
<1> QED BY <1>6, <1>7 DEF AllTurns, Turn

\* The numbers behind i, n of them.
Run(i, n) == [k \in 1 .. n |-> i + k]

LEMMA RunConcat ==
  ASSUME NEW i \in Nat, NEW n \in Nat, NEW m \in Nat
  PROVE  Run(i, n) \o Run(i + n, m) = Run(i, n + m)
<1>1. PICK s, t, u : s = Run(i, n) /\ t = Run(i + n, m) /\ u = Run(i, n + m)
  OBVIOUS
<1>2. /\ s \in [1 .. n -> Nat] /\ \A k \in 1 .. n : s[k] = i + k
      /\ t \in [1 .. m -> Nat] /\ \A k \in 1 .. m : t[k] = i + n + k
      /\ u \in [1 .. n + m -> Nat] /\ \A k \in 1 .. n + m : u[k] = i + k
  BY <1>1 DEF Run
<1>3. s \in Seq(Nat) /\ t \in Seq(Nat) /\ u \in Seq(Nat)
  BY <1>2, SeqDef
<1>4. Len(s) = n /\ Len(t) = m /\ Len(u) = n + m
  BY <1>2, <1>3, LenProperties
<1>5. PICK v : v = s \o t
  OBVIOUS
<1>6. /\ v \in Seq(Nat) /\ Len(v) = n + m
      /\ \A k \in 1 .. n + m : v[k] = IF k <= n THEN s[k] ELSE t[k - n]
  BY <1>3, <1>4, <1>5, ConcatProperties
<1>7. \A k \in 1 .. n + m : v[k] = u[k]
  <2> SUFFICES ASSUME NEW k \in 1 .. n + m PROVE v[k] = u[k]
    OBVIOUS
  <2>1. CASE k <= n
    BY <1>2, <1>6, <2>1
  <2>2. CASE ~(k <= n)
    <3>1. k - n \in 1 .. m
      BY <2>2
    <3> QED BY <1>2, <1>6, <2>2, <3>1
  <2> QED BY <2>1, <2>2
<1>8. v = u
  BY <1>3, <1>4, <1>6, <1>7, SeqEqual
<1> QED BY <1>1, <1>5, <1>8

\* A request that a peer sends is answered once and in its turn: what was answered, is to be
\* written, waits to be processed or is on its way are its requests, each in one place.
THEOREM OneAnswerEach == Spec => []OneReplyEach
<1>1. ASSUME EInv, NEW c \in Conn \ Cli, stat[Svr(c)] = "open"
      PROVE  Ids(answered[c]) \o Unwritten(Svr(c)) \o Waiting(Svr(c)) \o Unread(Svr(c))
               = Ids(asked[c])
  <2>1. PICK e \in End : e = Svr(c) /\ e = <<c, "svr">>
    BY EndIs DEF Svr
  <2>2. PICK x \in Ctxs, q \in Seq(Frames) : x = ctx[e] /\ q = queue[e]
    BY <1>1 DEF EInv, IInv, TypeOK
  <2>3. PICK a \in Seq(Texts), b \in Seq(Texts) : a = asked[c] /\ b = answered[c]
    BY <1>1 DEF EInv, IInv, TypeOK
  <2>4. PICK w \in Seq(Texts), o \in Seq(Outs) : w = wire[e] /\ o = out[e]
    BY <1>1 DEF EInv, IInv, TypeOK
  <2>5. PICK na \in Nat, nb \in Nat, nw \in Nat, no \in Nat, nq \in Nat :
          /\ na = Len(a) /\ nb = Len(b) /\ nw = Len(w) /\ no = Len(o) /\ nq = Len(q)
    BY LenProperties
  <2>6. /\ DOMAIN a = 1 .. na /\ DOMAIN b = 1 .. nb
        /\ DOMAIN w = 1 .. nw /\ DOMAIN o = 1 .. no /\ DOMAIN q = 1 .. nq
    BY <2>5, LenProperties
  <2>7. PICK p, r : p = na - nw /\ r = nb + no
    OBVIOUS
  <2>8. /\ AskedOK(a) /\ WireOK(a, p, w) /\ CtxOK(caches, x, w)
        /\ FramesOK(caches, a, p, q) /\ ChainOK(caches, p, x, q) /\ TurnOK(caches, p, x, q, r)
        /\ RepliesOK(caches, a, o, nb) /\ AnswersOK(a, b)
    BY <1>1, <2>1, <2>2, <2>3, <2>4, <2>5, <2>7 DEF EInv, PeerOK, Serves
  <2>9. p \in Nat /\ na = p + nw /\ \A k \in 1 .. nw : w[k] = a[p + k]
    BY <2>5, <2>6, <2>8 DEF WireOK
  <2>10. \A k \in 1 .. na : a[k].id = k
    BY <2>6, <2>8 DEF AskedOK
  <2>11. x.m_frame_beg \in Nat
    BY <1>1, <2>1, <2>2 DEF EInv, IInv, EndsOK, EndOK
  <2>12. \A k \in 1 .. nq : /\ q[k].m_frame_beg \in Nat
                            /\ caches[q[k].m_head].text.id \in Nat
    <3>1. \A k \in 1 .. nq : FrameOK(caches, a, p, q[k])
      BY <2>6, <2>8 DEF FramesOK
    <3>2. \A k \in 1 .. nq : caches[q[k].m_head].text.id \in DOMAIN a
      BY <3>1 DEF FrameOK
    <3>3. \A k \in 1 .. nq : q[k].m_frame_beg \in Nat
      BY <3>1 DEF FrameOK, PieceOK
    <3> QED BY <2>6, <3>2, <3>3
  <2>13. PICK id \in [1 .. nq + 1 -> Nat], beg \in [1 .. nq + 1 -> Nat] :
           \A j \in 1 .. nq + 1 : /\ id[j] = IdAt(caches, p, q, j)
                                  /\ beg[j] = BegAt(x, q, j)
    <3>1. \A j \in 1 .. nq + 1 : IdAt(caches, p, q, j) \in Nat
      BY <2>6, <2>9, <2>12 DEF IdAt
    <3>2. \A j \in 1 .. nq + 1 : BegAt(x, q, j) \in Nat
      BY <2>6, <2>11, <2>12 DEF BegAt
    <3>3. /\ [j \in 1 .. nq + 1 |-> IdAt(caches, p, q, j)] \in [1 .. nq + 1 -> Nat]
          /\ [j \in 1 .. nq + 1 |-> BegAt(x, q, j)] \in [1 .. nq + 1 -> Nat]
      BY <3>1, <3>2
    <3> QED BY <3>3
  <2>14. PICK F \in SUBSET (1 .. nq) : F = Firsts(q)
    BY <2>6 DEF Firsts
  <2>15. \A k \in 1 .. nq : /\ k \in F <=> beg[k] = 0
                            /\ id[k] = caches[q[k].m_head].text.id
    BY <2>6, <2>13, <2>14 DEF Firsts, IdAt, BegAt
  <2>16. id[nq + 1] = p + 1 /\ beg[nq + 1] = x.m_frame_beg
    <3>1. nq + 1 \in 1 .. nq + 1 /\ nq + 1 \notin DOMAIN q
      BY <2>6
    <3> QED BY <2>13, <3>1 DEF IdAt, BegAt
  <2>17. r \in Nat /\ nb \in Nat /\ no \in Nat
    BY <2>7
  <2>18. \A j \in 1 .. nq + 1 :
           id[j] = r + Cardinality(Low(F, j - 1)) + (IF beg[j] = 0 THEN 1 ELSE 0)
    <3>1. Chained(nq, id, beg)
      <4> SUFFICES ASSUME NEW k \in 1 .. nq
                   PROVE  \/ id[k + 1] = id[k] + 1 /\ beg[k + 1] = 0
                          \/ id[k + 1] = id[k] /\ beg[k + 1] = beg[k] + 1
        BY DEF Chained
      <4>1. k \in 1 .. nq + 1 /\ k + 1 \in 1 .. nq + 1
        OBVIOUS
      <4>2. Follows(caches, p, x, q, k)
        BY <2>6, <2>8 DEF ChainOK
      <4> QED BY <2>13, <4>1, <4>2 DEF Follows
    <3>2. After(r, id, beg)
      <4>1. 1 \in 1 .. nq + 1
        OBVIOUS
      <4> QED BY <2>8, <2>13, <4>1 DEF TurnOK, After
    <3>3. FirstIn(nq, beg, F)
      BY <2>15 DEF FirstIn
    <3>5. AllTurns(nq, r, id, beg, F)
      BY <2>17, <3>1, <3>2, <3>3, Turns
    <3> QED BY <3>5 DEF AllTurns, Turn
  <2>19. PICK m \in Nat : m = Cardinality(F)
    BY LowStep
  <2>20. Waiting(e) = Run(r, m)
    <3>1. ASSUME NEW n \in 1 .. m
          PROVE  caches[q[Nth(F, n)].m_head].text.id = r + n
      <4>0. \E k \in F : Cardinality(Low(F, k)) = n
        BY <2>19, NthIs
      <4>1. \E k \in F : Cardinality({j \in F : j <= k}) = n
        BY <4>0 DEF Low
      <4>2. PICK k \in F : k = Nth(F, n) /\ Cardinality(Low(F, k)) = n
        BY <4>1 DEF Nth, Low
      <4>3. k \in 1 .. nq /\ k \in 1 .. nq + 1 /\ k - 1 \in 0 .. nq
        OBVIOUS
      <4>4. Cardinality(Low(F, k)) = Cardinality(Low(F, k - 1)) + 1
        BY <4>3, LowStep
      <4>5. Cardinality(Low(F, k - 1)) \in Nat
        <5>1. \A j \in 0 .. nq : Cardinality(Low(F, j)) \in Nat
          BY LowStep
        <5> QED BY <4>3, <5>1
      <4>6. id[k] = r + Cardinality(Low(F, k - 1)) + 1
        BY <2>15, <2>18, <4>3
      <4>7. id[k] = r + n
        BY <2>17, <4>2, <4>4, <4>5, <4>6
      <4> QED BY <2>15, <4>2, <4>3, <4>7
    <3>2. Waiting(e) = [n \in 1 .. m |-> caches[q[Nth(F, n)].m_head].text.id]
      BY <2>2, <2>14, <2>19 DEF Waiting
    <3> QED BY <3>1, <3>2 DEF Run
  <2>21. Ids(b) = Run(0, nb)
    <3>1. \A k \in 1 .. nb : b[k].id = 0 + k
      BY <2>6, <2>8, <2>10 DEF AnswersOK, Answer
    <3> QED BY <2>6, <3>1 DEF Ids, Run
  <2>22. Unwritten(e) = Run(nb, no)
    <3>1. ASSUME NEW k \in 1 .. no PROVE o[k].hd.id = nb + k
      <4>1. nb + k \in DOMAIN a /\ o[k].hd = Reply(a[nb + k])
        BY <2>6, <2>8 DEF RepliesOK, ReplyOK
      <4>2. o[k].hd.id = a[nb + k].id
        BY <4>1 DEF Reply
      <4> QED BY <2>6, <2>10, <4>1, <4>2
    <3> QED BY <2>4, <2>6, <3>1 DEF Unwritten, Run
  <2>23. PICK l \in Nat : na = r + m + l /\ Unread(e) = Run(r + m, l)
    <3>1. p + 1 = r + m + (IF x.m_frame_beg = 0 THEN 1 ELSE 0)
      <4>1. nq + 1 \in 1 .. nq + 1 /\ (nq + 1) - 1 = nq
        OBVIOUS
      <4>2. Cardinality(Low(F, nq)) = m
        BY <2>19, LowStep
      <4> QED BY <2>16, <2>18, <4>1, <4>2
    <3>2. CASE x.m_frame_beg = 0
      <4>1. p = r + m
        BY <2>9, <2>17, <3>1, <3>2
      <4>2. ASSUME NEW k \in 1 .. nw PROVE w[k].id = p + k
        <5>1. p + k \in 1 .. na
          BY <2>9
        <5> QED BY <2>9, <2>10, <5>1
      <4>3. Unread(e) = Ids(w)
        BY <2>2, <2>4, <3>2 DEF Unread
      <4>4. Ids(w) = Run(p, nw)
        BY <2>6, <4>2 DEF Ids, Run
      <4> QED BY <2>9, <4>1, <4>3, <4>4
    <3>3. CASE x.m_frame_beg # 0
      <4>1. p + 1 = r + m /\ x.m_frame_beg > 0
        BY <2>11, <2>17, <3>1, <3>3
      <4>2. w # <<>>
        BY <2>8, <4>1 DEF CtxOK
      <4>3. PICK t, n : /\ t = Tail(w) /\ n \in Nat /\ nw = 1 + n /\ DOMAIN t = 1 .. n
                        /\ \A k \in 1 .. n : t[k] = w[1 + k]
        <5>1. /\ Len(Tail(w)) \in Nat
              /\ DOMAIN w = 1 .. 1 + Len(Tail(w)) /\ DOMAIN Tail(w) = 1 .. Len(Tail(w))
              /\ \A k \in 1 .. Len(Tail(w)) : Tail(w)[k] = w[1 + k]
          BY <4>2, TailIs
        <5>2. Len(w) = 1 + Len(Tail(w))
          BY <5>1, LenProperties
        <5> QED BY <2>5, <5>1, <5>2
      <4>4. \A k \in 1 .. n : t[k].id = r + m + k
        <5> SUFFICES ASSUME NEW k \in 1 .. n PROVE t[k].id = r + m + k
          OBVIOUS
        <5>1. 1 + k \in 1 .. nw /\ p + (1 + k) \in 1 .. na
          BY <2>9, <4>3
        <5>2. t[k].id = p + (1 + k)
          BY <2>9, <2>10, <4>3, <5>1
        <5> QED BY <2>9, <4>1, <4>3, <5>2
      <4>5. Unread(e) = Ids(t)
        BY <2>2, <2>4, <4>1, <4>3 DEF Unread
      <4>6. Ids(t) = Run(r + m, n)
        BY <4>3, <4>4 DEF Ids, Run
      <4>7. na = r + m + n
        BY <2>9, <4>1, <4>3
      <4> QED BY <4>3, <4>5, <4>6, <4>7
    <3> QED BY <3>2, <3>3
  <2>24. Ids(a) = Run(0, na)
    <3>1. \A k \in 1 .. na : a[k].id = 0 + k
      BY <2>10
    <3> QED BY <2>6, <3>1 DEF Ids, Run
  <2>25. PICK z \in Nat : z = 0
    OBVIOUS
  <2>26. Run(z, nb) \o Run(nb, no) = Run(z, r)
    <3>1. z + nb = nb /\ r = nb + no
      BY <2>7, <2>25
    <3>2. Run(z, nb) \o Run(z + nb, no) = Run(z, nb + no)
      BY RunConcat
    <3> QED BY <3>1, <3>2
  <2>27. Run(z, r) \o Run(r, m) = Run(z, r + m)
    <3>1. z + r = r
      BY <2>17, <2>25
    <3>2. Run(z, r) \o Run(z + r, m) = Run(z, r + m)
      BY <2>17, RunConcat
    <3> QED BY <3>1, <3>2
  <2>28. Run(z, r + m) \o Run(r + m, l) = Run(z, r + m + l)
    <3>1. z + (r + m) = r + m /\ r + m \in Nat
      BY <2>17, <2>25
    <3>2. PICK s \in Nat : s = r + m
      BY <3>1
    <3>3. Run(z, s) \o Run(z + s, l) = Run(z, s + l)
      BY RunConcat
    <3> QED BY <3>1, <3>2, <3>3
  <2>29. Ids(b) \o Unwritten(e) \o Waiting(e) \o Unread(e) = Ids(a)
    BY <2>20, <2>21, <2>22, <2>23, <2>24, <2>25, <2>26, <2>27, <2>28
  <2> QED BY <2>1, <2>3, <2>29
<1>2. EInv => OneReplyEach
  BY <1>1 DEF OneReplyEach
<1> QED BY <1>2, EchoInvariance, PTL
-------------------------------------------------------------------------------
(* The load of HttpCli                                                       *)

\* What comes back has at most one piece: the texts that the demo may send back, and the
\* replies on their way.
Short(t) == Len(t.body) <= 1
ShortOK(c) ==
  LET e == Svr(c)
      d == <<c, "cli">>
  IN /\ \A k \in DOMAIN wire[d] : Short(wire[d][k])
     /\ ctx[e].m_body # None => Short(caches[ctx[e].m_body].text)
     /\ \A k \in DOMAIN queue[e] :
          queue[e][k].m_body # None => Short(caches[queue[e][k].m_body].text)
     /\ \A k \in DOMAIN out[e] : out[e][k].cache # None => Short(caches[out[e][k].cache].text)

\* The requests and replies under way between the ends of a connection: x, w, q and o are
\* the context of the server, what arrives there, its frames and its messages, v, r and s
\* what arrives at the client, its frames and its messages.
Unbegun(x, w) == IF x.m_frame_beg > 0 THEN Len(w) - 1 ELSE Len(w)
Total(x, w, q, o, v, r, s) ==
  Len(s) + Unbegun(x, w) + Cardinality(Firsts(q)) + Len(o) + Len(v) + Len(r)

\* The client, in the state sd, has its load as soon as it is connected, and until the
\* server, in the state se, ends the connection.
Flow(sd, se, x, w, q, o, v, r, s) ==
  /\ sd \in {"none", "connecting"} =>
       w = <<>> /\ q = <<>> /\ o = <<>> /\ v = <<>> /\ r = <<>> /\ s = <<>>
  /\ x.m_frame_beg > 0 => se # "none" /\ w # <<>>
  /\ sd = "open" /\ se \in {"none", "open"} => Total(x, w, q, o, v, r, s) = m_first_send_cnt

FlowOK(c) ==
  LET e == Svr(c)
      d == <<c, "cli">>
  IN Flow(stat[d], stat[e], ctx[e], wire[e], queue[e], out[e], wire[d], queue[d], out[d])

LInv == EInv /\ \A c \in Cli : ShortOK(c) /\ FlowOK(c)

LEMMA LenAppend ==
  ASSUME NEW S, NEW s \in Seq(S), NEW e \in S
  PROVE  Len(s) \in Nat /\ Len(Append(s, e)) = Len(s) + 1 /\ Append(s, e) # <<>>
<1>1. PICK t, n : t = Append(s, e) /\ n = Len(s)
  OBVIOUS
<1>2. t \in Seq(S) /\ n \in Nat /\ DOMAIN t = 1 .. n + 1
  BY <1>1, AppendIs
<1>3. Len(t) = n + 1
  BY <1>2, LenProperties
<1>4. t # <<>>
  BY <1>2, <1>3, EmptyIs
<1> QED BY <1>1, <1>2, <1>3, <1>4

LEMMA LenTail ==
  ASSUME NEW S, NEW s \in Seq(S), s # <<>>
  PROVE  Len(s) \in Nat /\ Len(Tail(s)) \in Nat /\ Len(s) = Len(Tail(s)) + 1
<1>1. PICK n : n = Len(Tail(s))
  OBVIOUS
<1>2. n \in Nat /\ DOMAIN s = 1 .. 1 + n
  BY <1>1, TailIs
<1>3. Len(s) = n + 1
  BY <1>2, LenProperties
<1> QED BY <1>1, <1>2, <1>3

LEMMA FirstsType ==
  ASSUME NEW S, NEW q \in Seq(S)
  PROVE  Cardinality(Firsts(q)) \in Nat
<1>1. PICK n \in Nat : DOMAIN q = 1 .. n
  BY LenProperties
<1>2. Firsts(q) \in SUBSET (1 .. n)
  BY <1>1 DEF Firsts
<1> QED BY <1>2, LowStep

\* A frame that begins a request counts.
LEMMA FirstsAppend ==
  ASSUME NEW S, NEW q \in Seq(S), NEW f \in S
  PROVE  Cardinality(Firsts(Append(q, f))) =
           Cardinality(Firsts(q)) + (IF f.m_frame_beg = 0 THEN 1 ELSE 0)
<1>n. PICK n \in Nat : n = Len(q)
  BY LenProperties
<1>r. PICK r : r = Append(q, f)
  OBVIOUS
<1>1. /\ DOMAIN q = 1 .. n /\ DOMAIN r = 1 .. n + 1 /\ r[n + 1] = f
      /\ \A k \in 1 .. n : r[k] = q[k]
  BY <1>n, <1>r, AppendIs
<1>2. Firsts(r) \subseteq 1 .. n + 1
  BY <1>1 DEF Firsts
<1>3. Low(Firsts(r), n) = Firsts(q)
  <2>1. \A k \in 1 .. n + 1 : k <= n <=> k \in 1 .. n
    OBVIOUS
  <2> QED BY <1>1, <2>1 DEF Low, Firsts
<1>4. n + 1 \in Firsts(r) <=> f.m_frame_beg = 0
  <2>1. n + 1 \in 1 .. n + 1
    OBVIOUS
  <2> QED BY <1>1, <2>1 DEF Firsts
<1> QED BY <1>r, <1>2, <1>3, <1>4, AppendCount

LEMMA FirstsTail ==
  ASSUME NEW S, NEW q \in Seq(S), q # <<>>
  PROVE  Cardinality(Firsts(q)) =
           Cardinality(Firsts(Tail(q))) + (IF Head(q).m_frame_beg = 0 THEN 1 ELSE 0)
<1>n. PICK n \in Nat : n = Len(Tail(q))
  BY TailIs
<1>t. PICK t, f : t = Tail(q) /\ f = Head(q)
  OBVIOUS
<1>1. /\ DOMAIN q = 1 .. 1 + n /\ DOMAIN t = 1 .. n /\ f = q[1]
      /\ \A k \in 1 .. n : t[k] = q[1 + k]
  BY <1>n, <1>t, TailIs
<1>2. Firsts(q) \subseteq 1 .. 1 + n
  BY <1>1 DEF Firsts
<1>3. High(Firsts(q), 1, n) = Firsts(t)
  <2>1. \A k \in 1 .. n : 1 + k \in 1 .. 1 + n
    OBVIOUS
  <2> QED BY <1>1, <2>1 DEF High, Firsts
<1>4. 1 \in Firsts(q) <=> f.m_frame_beg = 0
  <2>1. 1 \in 1 .. 1 + n
    OBVIOUS
  <2> QED BY <1>1, <2>1 DEF Firsts
<1>5. /\ Cardinality(High(Firsts(q), 1, n)) \in Nat
      /\ Cardinality(Firsts(q)) = (IF 1 \in Firsts(q) THEN 1 ELSE 0)
                                    + Cardinality(High(Firsts(q), 1, n))
  BY <1>2, TailCount
<1>6. /\ Cardinality(Firsts(t)) \in Nat
      /\ Cardinality(Firsts(q)) = (IF f.m_frame_beg = 0 THEN 1 ELSE 0) + Cardinality(Firsts(t))
  BY <1>3, <1>4, <1>5
<1> QED BY <1>t, <1>6

\* What is under way stays the same in each of these steps.  The client parses a reply, and
\* answers it with a request.
LEMMA UnbegunType == ASSUME NEW x, NEW w, Len(w) \in Nat PROVE Unbegun(x, w) \in Int
<1>1. CASE x.m_frame_beg > 0
  BY <1>1 DEF Unbegun
<1>2. CASE ~(x.m_frame_beg > 0)
  BY <1>2 DEF Unbegun
<1> QED BY <1>1, <1>2

LEMMA CliParses ==
  ASSUME NEW x, NEW w, NEW q \in Seq(Frames), NEW o, NEW s, NEW v \in Seq(Texts),
         NEW r \in Seq(Frames), NEW f \in Frames, v # <<>>, Len(w) \in Nat, Len(o) \in Nat,
         Len(s) \in Nat
  PROVE  Total(x, w, q, o, Tail(v), Append(r, f), s) = Total(x, w, q, o, v, r, s)
<1>1. PICK n, m : n = Len(Tail(v)) /\ m = Len(r)
  OBVIOUS
<1>2. n \in Nat /\ Len(v) = n + 1 /\ m \in Nat /\ Len(Append(r, f)) = m + 1
  BY <1>1, LenTail, LenAppend
<1>3. PICK u, k : u = Unbegun(x, w) /\ k = Cardinality(Firsts(q))
  OBVIOUS
<1>4. u \in Int /\ k \in Nat
  BY <1>3, FirstsType, UnbegunType
<1>5. Total(x, w, q, o, v, r, s) = Len(s) + u + k + Len(o) + (n + 1) + m
  BY <1>1, <1>2, <1>3 DEF Total
<1>6. Total(x, w, q, o, Tail(v), Append(r, f), s) = Len(s) + u + k + Len(o) + n + (m + 1)
  BY <1>1, <1>2, <1>3 DEF Total
<1> QED BY <1>2, <1>4, <1>5, <1>6

LEMMA CliAnswers ==
  ASSUME NEW x, NEW w, NEW q \in Seq(Frames), NEW o, NEW s, NEW v, NEW r \in Seq(Frames),
         NEW t, r # <<>>, Len(t) = Len(s) + 1, Len(w) \in Nat, Len(o) \in Nat,
         Len(s) \in Nat, Len(v) \in Nat
  PROVE  Total(x, w, q, o, v, Tail(r), t) = Total(x, w, q, o, v, r, s)
<1>1. PICK n : n = Len(Tail(r))
  OBVIOUS
<1>2. n \in Nat /\ Len(r) = n + 1
  BY <1>1, LenTail
<1>3. Cardinality(Firsts(q)) \in Nat
  BY FirstsType
<1>u. Unbegun(x, w) \in Int
  BY UnbegunType
<1> QED BY <1>u, <1>1, <1>2, <1>3 DEF Total

\* The server parses the last frame of a request, or another one.
LEMMA SvrParsesLast ==
  ASSUME NEW x, NEW y, NEW w \in Seq(Texts), NEW q \in Seq(Frames), NEW o, NEW s, NEW v, NEW r,
         NEW f \in Frames, w # <<>>, x.m_frame_beg \in Nat, f.m_frame_beg = x.m_frame_beg,
         y.m_frame_beg = 0, Len(o) \in Nat, Len(s) \in Nat, Len(v) \in Nat, Len(r) \in Nat
  PROVE  Total(y, Tail(w), Append(q, f), o, v, r, s) = Total(x, w, q, o, v, r, s)
<1>1. PICK n, m, b : n = Len(Tail(w)) /\ m = Cardinality(Firsts(q)) /\ b = x.m_frame_beg
  OBVIOUS
<1>2. /\ n \in Nat /\ Len(w) = n + 1 /\ m \in Nat /\ b \in Nat
      /\ Cardinality(Firsts(Append(q, f))) = m + (IF b = 0 THEN 1 ELSE 0)
  BY <1>1, LenTail, FirstsType, FirstsAppend
<1>3. ~(y.m_frame_beg > 0) /\ (b = 0 \/ b > 0)
  BY <1>2
<1> QED BY <1>1, <1>2, <1>3 DEF Total, Unbegun

LEMMA SvrParses ==
  ASSUME NEW x, NEW y, NEW w \in Seq(Texts), NEW q \in Seq(Frames), NEW o, NEW s, NEW v, NEW r,
         NEW f \in Frames, w # <<>>, x.m_frame_beg \in Nat, f.m_frame_beg = x.m_frame_beg,
         y.m_frame_beg = x.m_frame_beg + 1, Len(o) \in Nat, Len(s) \in Nat, Len(v) \in Nat,
         Len(r) \in Nat
  PROVE  Total(y, w, Append(q, f), o, v, r, s) = Total(x, w, q, o, v, r, s)
<1>1. PICK n, m, b : n = Len(w) /\ m = Cardinality(Firsts(q)) /\ b = x.m_frame_beg
  OBVIOUS
<1>2. /\ n \in Nat /\ m \in Nat /\ b \in Nat
      /\ Cardinality(Firsts(Append(q, f))) = m + (IF b = 0 THEN 1 ELSE 0)
  BY <1>1, LenProperties, FirstsType, FirstsAppend
<1>3. y.m_frame_beg > 0 /\ (b = 0 \/ b > 0)
  BY <1>1, <1>2
<1> QED BY <1>1, <1>2, <1>3 DEF Total, Unbegun

\* It answers the first frame of a request, and no other.
LEMMA SvrAnswers ==
  ASSUME NEW x, NEW w, NEW q \in Seq(Frames), NEW o \in Seq(Outs), NEW s, NEW v, NEW r,
         NEW m \in Outs, q # <<>>, Head(q).m_frame_beg = 0, Len(w) \in Nat, Len(s) \in Nat,
         Len(v) \in Nat, Len(r) \in Nat
  PROVE  Total(x, w, Tail(q), Append(o, m), v, r, s) = Total(x, w, q, o, v, r, s)
<1>1. PICK n, l : n = Cardinality(Firsts(Tail(q))) /\ l = Len(o)
  OBVIOUS
<1>2. Tail(q) \in Seq(Frames)
  BY TailIs
<1>3. n \in Nat /\ Cardinality(Firsts(q)) = n + 1 /\ l \in Nat /\ Len(Append(o, m)) = l + 1
  BY <1>1, <1>2, FirstsType, FirstsTail, LenAppend
<1>4. PICK u : u = Unbegun(x, w)
  OBVIOUS
<1>5. u \in Int
  BY <1>4, UnbegunType
<1>6. Total(x, w, q, o, v, r, s) = Len(s) + u + (n + 1) + l + Len(v) + Len(r)
  BY <1>1, <1>3, <1>4 DEF Total
<1>7. Total(x, w, Tail(q), Append(o, m), v, r, s) = Len(s) + u + n + (l + 1) + Len(v) + Len(r)
  BY <1>1, <1>3, <1>4 DEF Total
<1> QED BY <1>3, <1>5, <1>6, <1>7

LEMMA SvrSkips ==
  ASSUME NEW x, NEW w, NEW q \in Seq(Frames), NEW o, NEW s, NEW v, NEW r,
         q # <<>>, Head(q).m_frame_beg # 0, Len(w) \in Nat, Len(s) \in Nat, Len(o) \in Nat,
         Len(v) \in Nat, Len(r) \in Nat
  PROVE  Total(x, w, Tail(q), o, v, r, s) = Total(x, w, q, o, v, r, s)
<1>1. PICK n : n = Cardinality(Firsts(Tail(q)))
  OBVIOUS
<1>2. Tail(q) \in Seq(Frames)
  BY TailIs
<1>3. n \in Nat /\ Cardinality(Firsts(q)) = n
  <2>1. Cardinality(Firsts(Tail(q))) \in Nat
    BY <1>2, FirstsType
  <2>2. Cardinality(Firsts(q)) =
          Cardinality(Firsts(Tail(q))) + (IF Head(q).m_frame_beg = 0 THEN 1 ELSE 0)
    BY FirstsTail
  <2> QED BY <1>1, <2>1, <2>2
<1>u. Unbegun(x, w) \in Int
  BY UnbegunType
<1> QED BY <1>u, <1>1, <1>3 DEF Total

\* A message is written.
LEMMA SvrWrites ==
  ASSUME NEW x, NEW w, NEW q \in Seq(Frames), NEW o \in Seq(Outs), NEW s,
         NEW v \in Seq(Texts), NEW r, NEW m \in Texts, o # <<>>, Len(w) \in Nat,
         Len(s) \in Nat, Len(r) \in Nat
  PROVE  Total(x, w, q, Tail(o), Append(v, m), r, s) = Total(x, w, q, o, v, r, s)
<1>1. PICK n, l : n = Len(Tail(o)) /\ l = Len(v)
  OBVIOUS
<1>2. n \in Nat /\ Len(o) = n + 1 /\ l \in Nat /\ Len(Append(v, m)) = l + 1
  BY <1>1, LenTail, LenAppend
<1>3. PICK u, k : u = Unbegun(x, w) /\ k = Cardinality(Firsts(q))
  OBVIOUS
<1>4. u \in Int /\ k \in Nat
  BY <1>3, FirstsType, UnbegunType
<1>5. Total(x, w, q, o, v, r, s) = Len(s) + u + k + (n + 1) + l + Len(r)
  BY <1>1, <1>2, <1>3 DEF Total
<1>6. Total(x, w, q, Tail(o), Append(v, m), r, s) = Len(s) + u + k + n + (l + 1) + Len(r)
  BY <1>1, <1>2, <1>3 DEF Total
<1> QED BY <1>2, <1>4, <1>5, <1>6

LEMMA CliWrites ==
  ASSUME NEW x, NEW w \in Seq(Texts), NEW q \in Seq(Frames), NEW o, NEW s \in Seq(Outs),
         NEW v, NEW r, NEW m \in Texts, s # <<>>, Len(o) \in Nat,
         Len(v) \in Nat, Len(r) \in Nat
  PROVE  Total(x, Append(w, m), q, o, v, r, Tail(s)) = Total(x, w, q, o, v, r, s)
<1>1. PICK n, l : n = Len(Tail(s)) /\ l = Len(w)
  OBVIOUS
<1>2. n \in Nat /\ Len(s) = n + 1 /\ l \in Nat /\ Len(Append(w, m)) = l + 1
  BY <1>1, LenTail, LenAppend
<1>3. Cardinality(Firsts(q)) \in Nat
  BY FirstsType
<1>u. PICK u \in Int : u = Unbegun(x, w)
  BY <1>1, <1>2, UnbegunType
<1>4. Unbegun(x, Append(w, m)) = u + 1
  <2>1. CASE x.m_frame_beg > 0
    BY <1>1, <1>2, <1>u, <2>1 DEF Unbegun
  <2>2. CASE ~(x.m_frame_beg > 0)
    BY <1>1, <1>2, <1>u, <2>2 DEF Unbegun
  <2> QED BY <2>1, <2>2
<1> QED BY <1>1, <1>2, <1>3, <1>4, <1>u DEF Total
-------------------------------------------------------------------------------
(* What a step of an end changes                                             *)

\* Everything but what arrives.
Same(y) ==
  stat'[y] = stat[y] /\ ctx'[y] = ctx[y] /\ queue'[y] = queue[y] /\ out'[y] = out[y]

\* The other ends.
LEMMA OtherSame ==
  ASSUME IInv, NEW z \in End, NEW y \in End, y # z, EndActs(z)
  PROVE  /\ Same(y)
         /\ OnClose(z) \/ ParseData(z) \/ Process(z) => wire'[y] = wire[y]
<1>1. TypeOK
  BY DEF IInv
<1>2. ASSUME OnClose(z) PROVE Same(y) /\ wire'[y] = wire[y]
  BY <1>1, <1>2 DEF TypeOK, OnClose, Same
<1>3. ASSUME ParseData(z) PROVE Same(y) /\ wire'[y] = wire[y]
  <2>1. CASE ReadHead(z)
    BY <1>1, <2>1 DEF TypeOK, ReadHead, Same
  <2>2. CASE ReadBody(z)
    BY <1>1, <2>2 DEF TypeOK, ReadBody, Same
  <2>3. CASE DispatchFrame(z)
    BY <1>1, <2>3 DEF TypeOK, DispatchFrame, Same
  <2> QED BY <1>3, <2>1, <2>2, <2>3 DEF ParseData
<1>4. ASSUME Process(z) PROVE Same(y) /\ wire'[y] = wire[y]
  <2>1. /\ UNCHANGED <<ctx, wire>> /\ queue' = [queue EXCEPT ![z] = Tail(@)]
        /\ stat' = stat \/ stat' = [stat EXCEPT ![z] = "closing"]
        /\ out' = out \/ \E o : out' = [out EXCEPT ![z] = o]
    BY <1>4 DEF Process, Again, SendHttpReq, Rtsp, Demo
  <2> QED BY <1>1, <2>1 DEF TypeOK, Same
<1>5. ASSUME Write(z) PROVE Same(y)
  BY <1>1, <1>5 DEF TypeOK, Write, Same
<1> QED BY <1>2, <1>3, <1>4, <1>5 DEF EndActs

LEMMA CloseIs ==
  ASSUME IInv, NEW z \in End, OnClose(z)
  PROVE  /\ stat'[z] = "closed" /\ ctx'[z] = NoCtx
         /\ wire'[z] = <<>> /\ queue'[z] = <<>> /\ out'[z] = <<>>
  BY DEF IInv, TypeOK, OnClose

\* Nothing that is counted, but a text that is read.
LEMMA ReadIs ==
  ASSUME IInv, NEW z \in End, ReadHead(z) \/ ReadBody(z)
  PROVE  /\ wire[z] # <<>> /\ stat[z] = "open"
         /\ stat'[z] = stat[z] /\ wire'[z] = wire[z] /\ queue'[z] = queue[z] /\ out'[z] = out[z]
         /\ ctx'[z].m_frame_beg = ctx[z].m_frame_beg
         /\ ctx'[z].m_body = ctx[z].m_body \/ Short(caches'[ctx'[z].m_body].text)
<1>1. TypeOK /\ ctx[z] \in Ctxs
  BY DEF IInv, TypeOK
<1>2. CASE ReadHead(z)
  BY <1>1, <1>2 DEF TypeOK, Ctxs, ReadHead, Parses
<1>3. CASE ReadBody(z)
  <2>1. PICK p : caches' = Alloc(caches, BodyText(<<p>>))
    BY <1>3 DEF ReadBody
  <2>2. /\ wire[z] # <<>> /\ stat[z] = "open" /\ Room
        /\ stat'[z] = stat[z] /\ wire'[z] = wire[z] /\ queue'[z] = queue[z] /\ out'[z] = out[z]
        /\ ctx'[z].m_frame_beg = ctx[z].m_frame_beg
        /\ ctx'[z].m_body = Unused(caches)
    BY <1>1, <1>3 DEF TypeOK, Ctxs, ReadBody, Parses
  <2>3. PICK j \in Id : j = Unused(caches) /\ caches \in Caches
    BY <1>1, <2>2, RoomIs DEF TypeOK
  <2>4. caches'[j].text = BodyText(<<p>>)
    BY <2>1, <2>3 DEF Alloc, Caches
  <2>5. Short(BodyText(<<p>>))
    BY DEF Short, BodyText
  <2> QED BY <2>2, <2>3, <2>4, <2>5
<1> QED BY <1>2, <1>3

LEMMA DispatchIs ==
  ASSUME IInv, NEW z \in End, DispatchFrame(z)
  PROVE  /\ wire[z] # <<>> /\ stat[z] = "open" /\ stat'[z] = stat[z] /\ out'[z] = out[z]
         /\ \E f \in Frames :
              /\ f.m_body = ctx[z].m_body /\ f.m_frame_beg = ctx[z].m_frame_beg
              /\ queue'[z] = Append(queue[z], f)
              /\ f.m_is_end <=> ctx[z].m_frame_beg + 1 >= Len(Head(wire[z]).body)
              /\ f.m_is_end => ctx'[z] = HttpCtx /\ wire'[z] = Tail(wire[z])
              /\ ~f.m_is_end => /\ ctx'[z].m_frame_beg = ctx[z].m_frame_beg + 1
                                /\ ctx'[z].m_body = None /\ wire'[z] = wire[z]
<1>1. TypeOK /\ EndOK(z)
  BY DEF IInv, EndsOK
<1>2. PICK x \in Ctxs, w \in Seq(Texts), q \in Seq(Frames) :
        x = ctx[z] /\ w = wire[z] /\ q = queue[z]
  BY <1>1 DEF TypeOK
<1>3. stat[z] = "open" /\ w # <<>> /\ x.m_head # None /\ x.m_frame_beg \in Nat
  BY <1>1, <1>2 DEF DispatchFrame, Parses, IsComplete, EndOK
<1>4. PICK isEnd \in BOOLEAN : isEnd = (x.m_frame_beg + 1 >= Len(Head(w).body))
  <2>1. Head(w) \in Texts
    BY <1>3, TailIs
  <2>2. Len(Head(w).body) \in Nat
    BY <2>1, LenProperties DEF Texts
  <2>3. (x.m_frame_beg + 1 >= Len(Head(w).body)) \in BOOLEAN
    BY <1>3, <2>2
  <2> QED BY <2>3
<1>5. PICK f, y : /\ f = [m_head |-> x.m_head, m_body |-> x.m_body,
                          m_frame_beg |-> x.m_frame_beg, m_is_end |-> isEnd]
                  /\ y = IF isEnd THEN HttpCtx
                         ELSE [x EXCEPT !.m_body = None, !.m_frame_beg = @ + 1]
  OBVIOUS
<1>6. /\ queue'[z] = Append(q, f) /\ ctx'[z] = y
      /\ wire'[z] = IF isEnd THEN Tail(w) ELSE w
      /\ UNCHANGED <<stat, out>>
  BY <1>1, <1>2, <1>4, <1>5 DEF TypeOK, DispatchFrame
<1>7. f \in Frames
  BY <1>3, <1>4, <1>5, EchoAssumption DEF Frames, Ctxs, Maybe, Id, None
<1>8. ~isEnd => y.m_body = None /\ y.m_frame_beg = x.m_frame_beg + 1
  BY <1>5 DEF Ctxs
<1>9. /\ f.m_body = ctx[z].m_body /\ f.m_frame_beg = ctx[z].m_frame_beg
      /\ f.m_is_end = isEnd
  BY <1>2, <1>5
<1> QED BY <1>2, <1>3, <1>4, <1>5, <1>6, <1>7, <1>8, <1>9

LEMMA SendLen ==
  ASSUME IInv, Room, NEW z \in End, NEW n \in Nat
  PROVE  LET o == SendHttpReq(z, n)[z] IN o \in Seq(Outs) /\ Len(o) = Len(out[z]) + n
<1>1. TypeOK /\ out[z] \in Seq(Outs) /\ Len(out[z]) \in Nat
  BY LenProperties DEF IInv, TypeOK
<1>2. PICK s, t : s = Sent(CliRequest, Unused(caches)) /\ t = [k \in 1 .. n |-> s]
  OBVIOUS
<1>3. s \in Outs
  BY <1>2, RoomIs, EchoAssumption DEF IInv, TypeOK, Sent, Outs, Maybe, Id
<1>4. t \in Seq(Outs) /\ Len(t) = n
  <2>1. t \in [1 .. n -> Outs] /\ DOMAIN t = 1 .. n
    BY <1>2, <1>3
  <2>2. t \in Seq(Outs)
    BY <2>1, SeqDef
  <2> QED BY <2>1, <2>2, LenProperties
<1>5. PICK r : r = out[z] \o t
  OBVIOUS
<1>6. r \in Seq(Outs) /\ Len(r) = Len(out[z]) + n
  BY <1>1, <1>4, <1>5, ConcatProperties
<1>7. SendHttpReq(z, n)[z] = r
  BY <1>1, <1>2, <1>5 DEF TypeOK, SendHttpReq
<1> QED BY <1>6, <1>7

\* The client answers a frame.
LEMMA AgainIs ==
  ASSUME IInv, NEW z \in End, z[2] = "cli", Process(z)
  PROVE  /\ queue[z] # <<>> /\ queue'[z] = Tail(queue[z]) /\ ctx'[z] = ctx[z] /\ wire' = wire
         /\ stat'[z] = stat[z] /\ stat[z] \in {"open", "closing"}
         /\ Len(out'[z]) = Len(out[z]) + 1
<1>1. TypeOK
  BY DEF IInv
<1>2. PICK n \in Nat : n = 1
  OBVIOUS
<1>3. /\ queue[z] # <<>> /\ queue' = [queue EXCEPT ![z] = Tail(@)] /\ UNCHANGED <<ctx, wire>>
      /\ stat[z] \in {"open", "closing"} /\ Again(z, Head(queue[z]))
  BY DEF Process
<1>4. stat' = stat /\ Room /\ out' = SendHttpReq(z, n)
  BY <1>2, <1>3 DEF Again
<1>5. Len(out'[z]) = Len(out[z]) + n
  BY <1>4, SendLen
<1> QED BY <1>1, <1>2, <1>3, <1>4, <1>5 DEF TypeOK

\* The demo answers the first frame of a request of HttpCli.
LEMMA DemoIs ==
  ASSUME IInv, NEW z \in End, z[2] = "svr", Process(z),
         \A k \in DOMAIN queue[z] : Plain(caches[queue[z][k].m_head].text)
  PROVE  /\ queue[z] # <<>> /\ queue'[z] = Tail(queue[z]) /\ ctx'[z] = ctx[z] /\ wire' = wire
         /\ stat'[z] = stat[z] /\ stat[z] \in {"open", "closing"}
         /\ IF Head(queue[z]).m_frame_beg = 0 /\ stat[z] = "open"
            THEN \E s \in Outs : s.cache = Head(queue[z]).m_body /\ out'[z] = Append(out[z], s)
            ELSE out'[z] = out[z]
<1>1. TypeOK /\ queue[z] \in Seq(Frames)
  BY DEF IInv, TypeOK
<1>2. PICK f, m : f = Head(queue[z]) /\ m = caches[f.m_head].text
  OBVIOUS
<1>3. /\ queue[z] # <<>> /\ queue' = [queue EXCEPT ![z] = Tail(@)] /\ UNCHANGED <<ctx, wire>>
      /\ stat[z] \in {"open", "closing"}
      /\ (m.rtsp /\ Rtsp(z, f, m)) \/ (~m.rtsp /\ Demo(z, f, m))
  BY <1>2 DEF Process
<1>4. f \in Frames /\ \E j \in DOMAIN queue[z] : f = queue[z][j]
  BY <1>1, <1>2, <1>3, HeadIn
<1>5. Plain(m)
  BY <1>2, <1>4
<1>6. Demo(z, f, m) /\ UNCHANGED stat
  BY <1>3, <1>5 DEF Plain, Demo, Closes
<1>7. m \in Texts
  BY <1>1, <1>2, <1>4 DEF TypeOK, Caches, Frames
<1>8. PICK s : s = Sent(Reply(m), f.m_body)
  OBVIOUS
<1>9. s \in Outs /\ s.cache = f.m_body
  <2>1. Reply(m) \in Texts
    BY <1>7, EmptySeq DEF Reply, Texts
  <2>2. f.m_body \in Maybe
    BY <1>4 DEF Frames
  <2> QED BY <1>8, <2>1, <2>2 DEF Sent, Outs
<1>10. out' = IF f.m_frame_beg = 0 /\ stat[z] = "open"
              THEN [out EXCEPT ![z] = Append(@, s)] ELSE out
  BY <1>6, <1>8 DEF Demo, Answers
<1>11. out'[z] = IF f.m_frame_beg = 0 /\ stat[z] = "open" THEN Append(out[z], s) ELSE out[z]
  BY <1>1, <1>10 DEF TypeOK
<1>12. IF f.m_frame_beg = 0 /\ stat[z] = "open"
       THEN \E r \in Outs : r.cache = f.m_body /\ out'[z] = Append(out[z], r)
       ELSE out'[z] = out[z]
  BY <1>9, <1>11
<1>13. queue'[z] = Tail(queue[z])
  BY <1>1, <1>3 DEF TypeOK
<1> QED BY <1>2, <1>3, <1>6, <1>12, <1>13

\* A message is written, and arrives at the other end as long as that takes it: with no
\* body, or that of the cache.
Arrives(z, y) ==
  /\ stat[y] \in {"none", "open"} =>
       \E msg \in Texts :
         /\ wire'[y] = Append(wire[y], msg)
         /\ \/ Short(msg)
            \/ /\ Head(out[z]).cache # None
               /\ msg.body = caches[Head(out[z]).cache].text.body
  /\ stat[y] \notin {"none", "open"} => wire'[y] = wire[y]

LEMMA WriteIs ==
  ASSUME IInv, NEW z \in End, NEW y \in End, z[1] \in Cli, y = Peer(z), y # z, Write(z)
  PROVE  /\ out[z] # <<>> /\ out'[z] = Tail(out[z]) /\ queue'[z] = queue[z]
         /\ ctx'[z] = ctx[z] /\ stat'[z] = stat[z] /\ wire'[z] = wire[z]
         /\ stat[z] \in {"open", "closing"}
         /\ Arrives(z, y)
<1>1. TypeOK /\ out[z] \in Seq(Outs)
  BY DEF IInv, TypeOK
<1>2. PICK s : s = Head(out[z])
  OBVIOUS
<1>3. out[z] # <<>> /\ stat[z] \in {"open", "closing"}
  BY DEF Write
<1>4. s \in Outs
  BY <1>1, <1>2, <1>3, HeadIn
<1>5. PICK b, msg : /\ b = (IF s.cache = None THEN <<>> ELSE caches[s.cache].text.body)
                    /\ msg = [s.hd EXCEPT !.body = b]
  OBVIOUS
<1>6. /\ UNCHANGED <<stat, ctx, queue>> /\ out' = [out EXCEPT ![z] = Tail(@)]
      /\ wire' = IF stat[y] \in {"none", "open"}
                 THEN [wire EXCEPT ![y] = Append(@, msg)] ELSE wire
  BY <1>2, <1>5 DEF Write
<1>7. s.cache # None => caches[s.cache].text \in Texts
  BY <1>1, <1>4, EchoAssumption DEF TypeOK, Caches, Outs, Maybe, Id, None
<1>8. b \in Seq(Nat \X Nat)
  BY <1>5, <1>7, EmptySeq DEF Texts
<1>9. msg \in Texts /\ msg.body = b
  BY <1>4, <1>5, <1>8 DEF Outs, Texts
<1>10. Short(msg) \/ (s.cache # None /\ msg.body = caches[s.cache].text.body)
  BY <1>5, <1>9, EmptyIs DEF Short
<1>11. Arrives(z, y)
  BY <1>1, <1>2, <1>6, <1>9, <1>10 DEF TypeOK, Arrives
<1> QED BY <1>1, <1>3, <1>6, <1>11 DEF TypeOK
-------------------------------------------------------------------------------
(* What comes back is short                                                  *)

\* A body that the server's end e had, or one that is short.
Known(e, j) ==
  \/ j = None \/ j = ctx[e].m_body
  \/ \E k \in DOMAIN queue[e] : queue[e][k].m_body = j
  \/ \E k \in DOMAIN out[e] : out[e][k].cache = j
  \/ Short(caches'[j].text)

LEMMA KnownShort ==
  ASSUME IInv, Next, NEW c \in Conn, ShortOK(c), NEW j, Known(Svr(c), j), InUse(caches', j)
  PROVE  j # None => Short(caches'[j].text)
<1>1. PICK e \in End : e = Svr(c)
  BY EndIs
<1>2. UsedOK
  BY UsedStep
<1>3. Keeps(caches, caches', j) \/ ~InUse(caches, j)
  BY KeptTexts
<1>4. SUFFICES ASSUME j # None, ~Short(caches'[j].text)
               PROVE  InUse(caches, j) /\ Short(caches[j].text)
  BY <1>3 DEF Keeps
<1>5. CASE j = ctx[e].m_body
  BY <1>1, <1>2, <1>4, <1>5 DEF ShortOK, UsedOK
<1>6. CASE \E k \in DOMAIN queue[e] : queue[e][k].m_body = j
  BY <1>1, <1>2, <1>4, <1>6 DEF ShortOK, UsedOK
<1>7. CASE \E k \in DOMAIN out[e] : out[e][k].cache = j
  BY <1>1, <1>2, <1>4, <1>7 DEF ShortOK, UsedOK
<1> QED BY <1>1, <1>4, <1>5, <1>6, <1>7 DEF Known

LEMMA ShortChange ==
  ASSUME IInv, Next, NEW c \in Conn, ShortOK(c), NEW e \in End, NEW d \in End, e = Svr(c),
         d = <<c, "cli">>,
         \A k \in DOMAIN wire'[d] : Short(wire'[d][k]),
         Known(e, ctx'[e].m_body),
         \A k \in DOMAIN queue'[e] : Known(e, queue'[e][k].m_body),
         \A k \in DOMAIN out'[e] : Known(e, out'[e][k].cache)
  PROVE  ShortOK(c)'
<1>1. UsedOK'
  BY UsedStep
<1>2. ctx'[e].m_body # None => Short(caches'[ctx'[e].m_body].text)
  BY <1>1, KnownShort DEF UsedOK
<1>3. \A k \in DOMAIN queue'[e] :
        queue'[e][k].m_body # None => Short(caches'[queue'[e][k].m_body].text)
  BY <1>1, KnownShort DEF UsedOK
<1>4. \A k \in DOMAIN out'[e] :
        out'[e][k].cache # None => Short(caches'[out'[e][k].cache].text)
  BY <1>1, KnownShort DEF UsedOK
<1> QED BY <1>2, <1>3, <1>4 DEF ShortOK, Svr

\* Nothing new at the server.
LEMMA ShortSame ==
  ASSUME IInv, Next, NEW c \in Conn, ShortOK(c), NEW e \in End, NEW d \in End, e = Svr(c),
         d = <<c, "cli">>,
         \A k \in DOMAIN wire'[d] : Short(wire'[d][k]),
         ctx'[e].m_body \in {None, ctx[e].m_body}, queue'[e] = queue[e], out'[e] = out[e]
  PROVE  ShortOK(c)'
  BY ShortChange DEF Known

LEMMA ShortConn ==
  ASSUME IInv, Next, NEW c \in Cli, ShortOK(c), ConnActs(c)
  PROVE  ShortOK(c)'
<1>0. c \in Conn
  BY EchoAssumption
<1>1. PICK e \in End, d \in End : e = Svr(c) /\ d = <<c, "cli">> /\ e # d
  BY <1>0, EndIs DEF Svr
<1>2. TypeOK /\ \A k \in DOMAIN wire[d] : Short(wire[d][k])
  BY <1>1 DEF IInv, ShortOK
<1>3. /\ wire'[d] = wire[d] /\ queue'[e] = queue[e] /\ out'[e] = out[e]
      /\ ctx'[e].m_body \in {None, ctx[e].m_body}
  <2>1. CASE OnNewSock(c)
    BY <1>1, <1>2, <2>1, EmptyIs DEF TypeOK, OnNewSock
  <2>2. CASE AddCli(c)
    BY <1>1, <1>2, <2>2 DEF TypeOK, AddCli
  <2>3. CASE OnConnFail(c)
    BY <1>1, <1>2, <2>3 DEF TypeOK, OnConnFail
  <2>4. CASE OnConnOK(c)
    BY <1>1, <1>2, <2>4 DEF TypeOK, OnConnOK, SendHttpReq
  <2>5. ~Ask(c)
    BY DEF Ask
  <2> QED BY <2>1, <2>2, <2>3, <2>4, <2>5 DEF ConnActs
<1>4. \A k \in DOMAIN wire'[d] : Short(wire'[d][k])
  BY <1>2, <1>3
<1> QED BY <1>0, <1>1, <1>3, <1>4, ShortSame

\* The client takes what comes back.
LEMMA ShortCli ==
  ASSUME IInv, Next, NEW c \in Cli, ShortOK(c), EndActs(<<c, "cli">>)
  PROVE  ShortOK(c)'
<1>0. c \in Conn
  BY EchoAssumption
<1>1. PICK e \in End, d \in End : e = Svr(c) /\ d = <<c, "cli">> /\ e # d
  BY <1>0, EndIs DEF Svr
<1>2. wire[d] \in Seq(Texts) /\ \A k \in DOMAIN wire[d] : Short(wire[d][k])
  BY <1>1 DEF IInv, TypeOK, ShortOK
<1>3. Same(e)
  BY <1>1, OtherSame
<1>4. wire'[d] \in {wire[d], <<>>} \/ (wire[d] # <<>> /\ wire'[d] = Tail(wire[d]))
  <2>1. CASE OnClose(d)
    BY <2>1, CloseIs
  <2>2. CASE ReadHead(d) \/ ReadBody(d)
    BY <2>2, ReadIs
  <2>3. CASE DispatchFrame(d)
    BY <2>3, DispatchIs
  <2>4. CASE Process(d)
    BY <2>4 DEF Process
  <2>5. CASE Write(d)
    <3>1. d[1] = c /\ e = Peer(d)
      BY <1>1 DEF Peer, Svr
    <3> QED BY <1>1, <2>5, <3>1, WriteIs
  <2> QED BY <1>1, <2>1, <2>2, <2>3, <2>4, <2>5 DEF EndActs, ParseData
<1>5. \A k \in DOMAIN wire'[d] : Short(wire'[d][k])
  <2>1. CASE wire'[d] = <<>>
    BY <2>1, EmptyIs
  <2>2. CASE wire'[d] = wire[d]
    BY <1>2, <2>2
  <2>3. CASE wire[d] # <<>> /\ wire'[d] = Tail(wire[d])
    BY <1>2, <2>3, TailIn
  <2> QED BY <1>4, <2>1, <2>2, <2>3
<1> QED BY <1>0, <1>1, <1>3, <1>5, ShortSame DEF Same

\* The server answers with what it has.
LEMMA ShortSvr ==
  ASSUME IInv, Next, NEW c \in Cli, LoadOK(c), ShortOK(c), EndActs(Svr(c))
  PROVE  ShortOK(c)'
<1>0. c \in Conn
  BY EchoAssumption
<1>1. PICK e \in End, d \in End :
        /\ e = Svr(c) /\ d = <<c, "cli">> /\ e # d /\ e[1] = c /\ e[2] = "svr" /\ d = Peer(e)
  BY <1>0, EndIs DEF Svr, Peer
<1>2. /\ wire[d] \in Seq(Texts) /\ queue[e] \in Seq(Frames) /\ out[e] \in Seq(Outs)
      /\ \A k \in DOMAIN wire[d] : Short(wire[d][k])
  BY <1>1 DEF IInv, TypeOK, ShortOK
<1>3. /\ Known(e, None) /\ Known(e, ctx[e].m_body)
      /\ \A k \in DOMAIN queue[e] : Known(e, queue[e][k].m_body)
      /\ \A k \in DOMAIN out[e] : Known(e, out[e][k].cache)
  BY DEF Known
<1>4. CASE OnClose(e)
  <2>1. /\ wire'[d] = wire[d] /\ ctx'[e] = NoCtx /\ queue'[e] = <<>> /\ out'[e] = <<>>
    BY <1>1, <1>4, CloseIs, OtherSame DEF EndActs
  <2> QED BY <1>0, <1>1, <1>2, <1>3, <2>1, EmptyIs, ShortChange
<1>5. CASE ReadHead(e) \/ ReadBody(e)
  <2>1. wire'[d] = wire[d]
    BY <1>1, <1>5, OtherSame DEF EndActs, ParseData
  <2>2. queue'[e] = queue[e] /\ out'[e] = out[e]
    BY <1>5, ReadIs
  <2>3. Known(e, ctx'[e].m_body)
    BY <1>3, <1>5, ReadIs DEF Known
  <2> QED BY <1>0, <1>1, <1>2, <1>3, <2>1, <2>2, <2>3, ShortChange
<1>6. CASE DispatchFrame(e)
  <2>1. wire'[d] = wire[d]
    BY <1>1, <1>6, OtherSame DEF EndActs, ParseData
  <2>2. PICK f \in Frames :
          /\ f.m_body = ctx[e].m_body /\ queue'[e] = Append(queue[e], f) /\ out'[e] = out[e]
          /\ ctx'[e].m_body = None
    BY <1>6, DispatchIs, EmptyIs
  <2>3. \A k \in DOMAIN queue'[e] : Known(e, queue'[e][k].m_body)
    BY <1>2, <1>3, <2>2, AppendIn
  <2> QED BY <1>0, <1>1, <1>2, <1>3, <2>1, <2>2, <2>3, ShortChange
<1>7. CASE Process(e)
  <2>0. \A k \in DOMAIN queue[e] : Plain(caches[queue[e][k].m_head].text)
    BY <1>1 DEF LoadOK
  <2>1. /\ queue[e] # <<>> /\ queue'[e] = Tail(queue[e]) /\ ctx'[e] = ctx[e] /\ wire' = wire
        /\ \/ out'[e] = out[e]
           \/ \E s \in Outs : s.cache = Head(queue[e]).m_body /\ out'[e] = Append(out[e], s)
    BY <1>1, <1>7, <2>0, DemoIs
  <2>2. \A k \in DOMAIN queue'[e] : Known(e, queue'[e][k].m_body)
    BY <1>2, <1>3, <2>1, TailIn
  <2>3. Known(e, Head(queue[e]).m_body)
    BY <1>2, <1>3, <2>1, HeadIn
  <2>4. \A k \in DOMAIN out'[e] : Known(e, out'[e][k].cache)
    <3>1. CASE out'[e] = out[e]
      BY <1>3, <3>1
    <3>2. ASSUME NEW s \in Outs, s.cache = Head(queue[e]).m_body, out'[e] = Append(out[e], s)
          PROVE  \A k \in DOMAIN out'[e] : Known(e, out'[e][k].cache)
      BY <1>2, <1>3, <2>3, <3>2, AppendIn
    <3> QED BY <2>1, <3>1, <3>2
  <2> QED BY <1>0, <1>1, <1>2, <1>3, <2>1, <2>2, <2>4, ShortChange
<1>8. CASE Write(e)
  <2>1. /\ out[e] # <<>> /\ out'[e] = Tail(out[e]) /\ queue'[e] = queue[e] /\ ctx'[e] = ctx[e]
        /\ \/ wire'[d] = wire[d]
           \/ \E msg \in Texts :
                /\ wire'[d] = Append(wire[d], msg)
                /\ \/ Short(msg)
                   \/ /\ Head(out[e]).cache # None
                      /\ msg.body = caches[Head(out[e]).cache].text.body
    <3>1. /\ out[e] # <<>> /\ out'[e] = Tail(out[e]) /\ queue'[e] = queue[e]
          /\ ctx'[e] = ctx[e] /\ Arrives(e, d)
      BY <1>1, <1>8, WriteIs
    <3> QED BY <3>1 DEF Arrives
  <2>2. \A k \in DOMAIN out'[e] : Known(e, out'[e][k].cache)
    BY <1>2, <1>3, <2>1, TailIn
  <2>3. Head(out[e]).cache # None => Short(caches[Head(out[e]).cache].text)
    BY <1>1, <1>2, <2>1, HeadIn DEF ShortOK
  <2>4. \A k \in DOMAIN wire'[d] : Short(wire'[d][k])
    <3>1. CASE wire'[d] = wire[d]
      BY <1>2, <3>1
    <3>2. ASSUME NEW msg \in Texts, wire'[d] = Append(wire[d], msg),
                 \/ Short(msg)
                 \/ /\ Head(out[e]).cache # None
                    /\ msg.body = caches[Head(out[e]).cache].text.body
          PROVE  \A k \in DOMAIN wire'[d] : Short(wire'[d][k])
      <4>1. Short(msg)
        BY <2>3, <3>2 DEF Short
      <4> QED BY <1>2, <3>2, <4>1, AppendIn
    <3> QED BY <2>1, <3>1, <3>2
  <2> QED BY <1>0, <1>1, <1>3, <2>1, <2>2, <2>4, ShortChange
<1> QED BY <1>1, <1>4, <1>5, <1>6, <1>7, <1>8 DEF EndActs, ParseData

LEMMA ShortStep ==
  ASSUME IInv, Next, NEW c \in Cli, LoadOK(c), ShortOK(c)
  PROVE  ShortOK(c)'
<1>0. c \in Conn
  BY EchoAssumption
<1>1. PICK b \in Conn : Acts(b)
  BY NextActs
<1>2. CASE b # c
  <2>1. PICK e \in End, d \in End : e = Svr(c) /\ e = <<c, "svr">> /\ d = <<c, "cli">>
    BY <1>0, EndIs DEF Svr
  <2>2. /\ ctx'[e] = ctx[e] /\ queue'[e] = queue[e] /\ out'[e] = out[e] /\ wire'[d] = wire[d]
    BY <1>0, <1>1, <1>2, <2>1, Elsewhere DEF Untouched
  <2>3. \A k \in DOMAIN wire'[d] : Short(wire'[d][k])
    BY <2>1, <2>2 DEF ShortOK
  <2> QED BY <1>0, <2>1, <2>2, <2>3, ShortSame
<1>3. CASE b = c
  BY <1>1, <1>3, ShortConn, ShortCli, ShortSvr DEF Acts, Svr
<1> QED BY <1>2, <1>3
-------------------------------------------------------------------------------
(* The load of HttpCli is kept                                               *)

\* What is at both ends of a connection of HttpCli.
LEMMA FlowTypes ==
  ASSUME IInv, NEW e \in End
  PROVE  /\ ctx[e] \in Ctxs /\ wire[e] \in Seq(Texts) /\ queue[e] \in Seq(Frames)
         /\ out[e] \in Seq(Outs) /\ Len(wire[e]) \in Nat /\ Len(queue[e]) \in Nat
         /\ Len(out[e]) \in Nat
  BY LenProperties DEF IInv, TypeOK

LEMMA FlowConn ==
  ASSUME IInv, NEW c \in Cli, FlowOK(c), ConnActs(c)
  PROVE  FlowOK(c)'
<1>0. c \in Conn
  BY EchoAssumption
<1>1. PICK e \in End, d \in End : e = Svr(c) /\ d = <<c, "cli">> /\ e # d
  BY <1>0, EndIs DEF Svr
<1>2. TypeOK
  BY DEF IInv
<1>3. PICK x, w, q, o, v, r, s :
        /\ x = ctx[e] /\ w = wire[e] /\ q = queue[e] /\ o = out[e]
        /\ v = wire[d] /\ r = queue[d] /\ s = out[d]
  OBVIOUS
<1>4. Flow(stat[d], stat[e], x, w, q, o, v, r, s)
  BY <1>1, <1>3 DEF FlowOK
<1>5. SUFFICES Flow(stat'[d], stat'[e], ctx'[e], wire'[e], queue'[e], out'[e], wire'[d],
                    queue'[d], out'[d])
  BY <1>1 DEF FlowOK, Svr
<1>6. CASE OnNewSock(c)
  <2>1. /\ stat[e] = "none" /\ stat'[e] = "open" /\ stat'[d] = stat[d] /\ ctx'[e] = HttpCtx
        /\ wire'[e] = w /\ queue'[e] = q /\ out'[e] = o
        /\ wire'[d] = v /\ queue'[d] = r /\ out'[d] = s
    BY <1>1, <1>2, <1>3, <1>6 DEF TypeOK, OnNewSock
  <2>2. PICK y : y = HttpCtx /\ ~(y.m_frame_beg > 0)
    BY EmptyIs
  <2>3. ~(x.m_frame_beg > 0)
    BY <1>4, <2>1 DEF Flow
  <2>4. Total(y, w, q, o, v, r, s) = Total(x, w, q, o, v, r, s)
    BY <2>2, <2>3 DEF Total, Unbegun
  <2>5. Flow(stat[d], "open", y, w, q, o, v, r, s)
    BY <1>4, <2>1, <2>2, <2>3, <2>4 DEF Flow
  <2> QED BY <2>1, <2>2, <2>5
<1>7. CASE AddCli(c)
  <2>1. /\ stat[d] = "none" /\ stat'[d] = "connecting" /\ stat'[e] = stat[e] /\ ctx'[e] = x
        /\ wire'[e] = w /\ queue'[e] = q /\ out'[e] = o
        /\ wire'[d] = v /\ queue'[d] = r /\ out'[d] = s
    BY <1>1, <1>2, <1>3, <1>7 DEF TypeOK, AddCli
  <2>2. Flow("connecting", stat[e], x, w, q, o, v, r, s)
    BY <1>4, <2>1 DEF Flow
  <2> QED BY <2>1, <2>2
<1>8. CASE OnConnFail(c)
  <2>1. /\ stat'[d] = "closed" /\ stat'[e] = stat[e] /\ ctx'[e] = x
        /\ wire'[e] = w /\ queue'[e] = q /\ out'[e] = o
        /\ wire'[d] = v /\ queue'[d] = r /\ out'[d] = s
    BY <1>1, <1>2, <1>3, <1>8 DEF TypeOK, OnConnFail
  <2>2. Flow("closed", stat[e], x, w, q, o, v, r, s)
    BY <1>4 DEF Flow
  <2> QED BY <2>1, <2>2
<1>9. CASE OnConnOK(c)
  <2>1. PICK m, p : m = m_first_send_cnt /\ p = out'[d]
    OBVIOUS
  <2>2. m \in Nat /\ Room /\ out' = SendHttpReq(d, m)
    BY <1>1, <1>9, <2>1, EchoAssumption DEF OnConnOK
  <2>3. Len(p) = Len(s) + m /\ out'[e] = o
    BY <1>1, <1>2, <1>3, <2>1, <2>2, SendLen DEF TypeOK, SendHttpReq
  <2>4. /\ stat[d] = "connecting" /\ stat'[d] = "open" /\ stat'[e] = stat[e] /\ ctx'[e] = x
        /\ wire'[e] = w /\ queue'[e] = q /\ wire'[d] = v /\ queue'[d] = r
    BY <1>1, <1>2, <1>3, <1>9 DEF TypeOK, OnConnOK
  <2>5. PICK z, n : z = <<>> /\ n = 0 /\ DOMAIN z = {} /\ Len(z) = n
    BY EmptyIs
  <2>6. w = z /\ q = z /\ o = z /\ v = z /\ r = z /\ s = z /\ ~(x.m_frame_beg > 0)
    BY <1>4, <2>4, <2>5 DEF Flow
  <2>7. Unbegun(x, z) = n
    BY <2>5, <2>6 DEF Unbegun
  <2>8. Cardinality(Firsts(z)) = n
    <3>1. Firsts(z) = {}
      BY <2>5 DEF Firsts
    <3> QED BY <2>5, <3>1, FS_EmptySet
  <2>9. Len(p) = m
    BY <2>2, <2>3, <2>5, <2>6
  <2>10. Total(x, z, z, z, z, z, p) = m
    <3>1. Total(x, z, z, z, z, z, p) = m + n + n + n + n + n
      BY <2>5, <2>7, <2>8, <2>9 DEF Total
    <3> QED BY <2>2, <2>5, <3>1
  <2>11. Flow("open", stat[e], x, w, q, o, v, r, p)
    BY <2>1, <2>6, <2>10 DEF Flow
  <2> QED BY <2>1, <2>3, <2>4, <2>11
<1>10. ~Ask(c)
  BY DEF Ask
<1> QED BY <1>6, <1>7, <1>8, <1>9, <1>10 DEF ConnActs

\* The client reads, answers and writes.
LEMMA FlowCli ==
  ASSUME IInv, NEW c \in Cli, ShortOK(c), FlowOK(c), EndActs(<<c, "cli">>)
  PROVE  FlowOK(c)'
<1>0. c \in Conn
  BY EchoAssumption
<1>1. PICK e \in End, d \in End :
        /\ e = Svr(c) /\ d = <<c, "cli">> /\ e # d /\ d[1] = c /\ d[2] = "cli" /\ e = Peer(d)
  BY <1>0, EndIs DEF Svr, Peer
<1>2. PICK x \in Ctxs, w \in Seq(Texts), q \in Seq(Frames), o \in Seq(Outs), v \in Seq(Texts),
           r \in Seq(Frames), s \in Seq(Outs) :
        /\ x = ctx[e] /\ w = wire[e] /\ q = queue[e] /\ o = out[e]
        /\ v = wire[d] /\ r = queue[d] /\ s = out[d]
  BY FlowTypes
<1>n. Len(w) \in Nat /\ Len(o) \in Nat /\ Len(s) \in Nat /\ Len(v) \in Nat
  BY LenProperties
<1>3. PICK sd, se : sd = stat[d] /\ se = stat[e]
  OBVIOUS
<1>4. Flow(sd, se, x, w, q, o, v, r, s)
  BY <1>1, <1>2, <1>3 DEF FlowOK
<1>5. SUFFICES Flow(stat'[d], stat'[e], ctx'[e], wire'[e], queue'[e], out'[e], wire'[d],
                    queue'[d], out'[d])
  BY <1>1 DEF FlowOK, Svr
<1>6. stat'[e] = se /\ ctx'[e] = x /\ queue'[e] = q /\ out'[e] = o
  BY <1>1, <1>2, <1>3, OtherSame DEF Same
<1>7. CASE OnClose(d)
  <2>1. stat'[d] = "closed" /\ wire'[e] = w
    BY <1>1, <1>2, <1>7, CloseIs, OtherSame
  <2> QED BY <1>4, <1>6, <2>1 DEF Flow
<1>8. CASE ReadHead(d) \/ ReadBody(d)
  <2>1. stat'[d] = sd /\ wire'[d] = v /\ queue'[d] = r /\ out'[d] = s
    BY <1>2, <1>3, <1>8, ReadIs
  <2>2. wire'[e] = w
    BY <1>1, <1>2, <1>8, OtherSame DEF ParseData
  <2> QED BY <1>4, <1>6, <2>1, <2>2
<1>9. CASE DispatchFrame(d)
  <2>1. PICK f \in Frames :
          /\ v # <<>> /\ sd = "open" /\ stat'[d] = sd /\ out'[d] = s /\ queue'[d] = Append(r, f)
          /\ f.m_is_end <=> ctx[d].m_frame_beg + 1 >= Len(Head(v).body)
          /\ f.m_is_end => wire'[d] = Tail(v)
    BY <1>2, <1>3, <1>9, DispatchIs
  <2>2. wire'[e] = w
    BY <1>1, <1>2, <1>9, OtherSame DEF ParseData
  <2>3. wire'[d] = Tail(v)
    <3>1. Head(v) \in Texts /\ \E j \in DOMAIN v : Head(v) = v[j]
      BY <2>1, HeadIn
    <3>2. Short(Head(v))
      BY <1>1, <1>2, <3>1 DEF ShortOK
    <3>3. PICK l, b : l = Len(Head(v).body) /\ b = ctx[d].m_frame_beg
      OBVIOUS
    <3>4. l \in Nat /\ l <= 1
      BY <3>1, <3>2, <3>3, LenProperties DEF Texts, Short
    <3>5. b \in Nat
      BY <1>3, <2>1, <3>3 DEF IInv, EndsOK, EndOK
    <3>6. b + 1 >= l
      BY <3>4, <3>5
    <3> QED BY <2>1, <3>3, <3>6
  <2>4. Total(x, w, q, o, Tail(v), Append(r, f), s) = Total(x, w, q, o, v, r, s)
    BY <1>n, <2>1, CliParses
  <2>5. Flow(sd, se, x, w, q, o, Tail(v), Append(r, f), s)
    BY <1>4, <2>1, <2>4 DEF Flow
  <2> QED BY <1>6, <2>1, <2>2, <2>3, <2>5
<1>10. CASE Process(d)
  <2>1. PICK t : t = out'[d]
    OBVIOUS
  <2>2. /\ r # <<>> /\ queue'[d] = Tail(r) /\ wire' = wire /\ stat'[d] = sd
        /\ sd \in {"open", "closing"} /\ Len(t) = Len(s) + 1
    BY <1>1, <1>2, <1>3, <1>10, <2>1, AgainIs
  <2>3. Total(x, w, q, o, v, Tail(r), t) = Total(x, w, q, o, v, r, s)
    BY <1>n, <2>2, CliAnswers
  <2>4. Flow(sd, se, x, w, q, o, v, Tail(r), t)
    BY <1>4, <2>2, <2>3 DEF Flow
  <2> QED BY <1>2, <1>6, <2>1, <2>2, <2>4
<1>11. CASE Write(d)
  <2>1. /\ s # <<>> /\ out'[d] = Tail(s) /\ queue'[d] = r /\ stat'[d] = sd /\ wire'[d] = v
        /\ sd \in {"open", "closing"}
        /\ IF se \in {"none", "open"} THEN \E msg \in Texts : wire'[e] = Append(w, msg)
           ELSE wire'[e] = w
    <3>1. /\ out[d] # <<>> /\ out'[d] = Tail(out[d]) /\ queue'[d] = queue[d]
          /\ stat'[d] = stat[d] /\ wire'[d] = wire[d] /\ stat[d] \in {"open", "closing"}
          /\ stat[e] \in {"none", "open"} =>
               \E msg \in Texts : wire'[e] = Append(wire[e], msg)
          /\ stat[e] \notin {"none", "open"} => wire'[e] = wire[e]
      <4>1. Arrives(d, e)
        BY <1>1, <1>11, WriteIs
      <4> QED BY <1>1, <1>11, <4>1, WriteIs DEF Arrives
    <3> QED BY <1>2, <1>3, <3>1
  <2>2. CASE se \in {"none", "open"}
    <3>1. PICK msg \in Texts : wire'[e] = Append(w, msg)
      BY <2>1, <2>2
    <3>2. Total(x, Append(w, msg), q, o, v, r, Tail(s)) = Total(x, w, q, o, v, r, s)
      <4>1. Len(r) \in Nat
        BY LenProperties
      <4> QED BY <1>n, <2>1, <4>1, CliWrites
    <3>3. Append(w, msg) # <<>>
      BY LenAppend
    <3>4. Flow(sd, se, x, Append(w, msg), q, o, v, r, Tail(s))
      BY <1>4, <2>1, <3>2, <3>3 DEF Flow
    <3> QED BY <1>6, <2>1, <3>1, <3>4
  <2>3. CASE se \notin {"none", "open"}
    <3>1. Flow(sd, se, x, w, q, o, v, r, Tail(s))
      BY <1>4, <2>1, <2>3 DEF Flow
    <3> QED BY <1>6, <2>1, <2>3, <3>1
  <2> QED BY <2>2, <2>3
<1> QED BY <1>1, <1>7, <1>8, <1>9, <1>10, <1>11 DEF EndActs, ParseData

\* The server reads, answers and writes.
LEMMA FlowSvr ==
  ASSUME IInv, NEW c \in Cli, LoadOK(c), FlowOK(c), EndActs(Svr(c))
  PROVE  FlowOK(c)'
<1>0. c \in Conn
  BY EchoAssumption
<1>1. PICK e \in End, d \in End :
        /\ e = Svr(c) /\ d = <<c, "cli">> /\ e # d /\ e[1] = c /\ e[2] = "svr" /\ d = Peer(e)
  BY <1>0, EndIs DEF Svr, Peer
<1>2. PICK x \in Ctxs, w \in Seq(Texts), q \in Seq(Frames), o \in Seq(Outs), v \in Seq(Texts),
           r \in Seq(Frames), s \in Seq(Outs) :
        /\ x = ctx[e] /\ w = wire[e] /\ q = queue[e] /\ o = out[e]
        /\ v = wire[d] /\ r = queue[d] /\ s = out[d]
  BY FlowTypes
<1>n. Len(w) \in Nat /\ Len(o) \in Nat /\ Len(s) \in Nat /\ Len(v) \in Nat /\ Len(r) \in Nat
  BY LenProperties
<1>3. PICK sd, se : sd = stat[d] /\ se = stat[e]
  OBVIOUS
<1>4. Flow(sd, se, x, w, q, o, v, r, s)
  BY <1>1, <1>2, <1>3 DEF FlowOK
<1>5. SUFFICES Flow(stat'[d], stat'[e], ctx'[e], wire'[e], queue'[e], out'[e], wire'[d],
                    queue'[d], out'[d])
  BY <1>1 DEF FlowOK, Svr
<1>6. stat'[d] = sd /\ queue'[d] = r /\ out'[d] = s
  BY <1>1, <1>2, <1>3, OtherSame DEF Same
<1>7. CASE OnClose(e)
  <2>1. /\ stat'[e] = "closed" /\ ctx'[e] = NoCtx /\ wire'[e] = <<>> /\ queue'[e] = <<>>
        /\ out'[e] = <<>> /\ wire'[d] = v
    BY <1>1, <1>2, <1>7, CloseIs, OtherSame
  <2>2. PICK y : y = NoCtx /\ ~(y.m_frame_beg > 0)
    BY EmptyIs
  <2>3. Flow(sd, "closed", y, <<>>, <<>>, <<>>, v, r, s)
    BY <1>4, <2>2 DEF Flow
  <2> QED BY <1>6, <2>1, <2>2, <2>3
<1>8. CASE ReadHead(e) \/ ReadBody(e)
  <2>1. PICK y : y = ctx'[e]
    OBVIOUS
  <2>2. stat'[e] = se /\ wire'[e] = w /\ queue'[e] = q /\ out'[e] = o /\ y.m_frame_beg = x.m_frame_beg
    BY <1>2, <1>3, <1>8, <2>1, ReadIs
  <2>3. wire'[d] = v
    BY <1>1, <1>2, <1>8, OtherSame DEF ParseData
  <2>4. Flow(sd, se, y, w, q, o, v, r, s)
    BY <1>4, <2>2 DEF Flow, Total, Unbegun
  <2> QED BY <1>6, <2>1, <2>2, <2>3, <2>4
<1>9. CASE DispatchFrame(e)
  <2>0. PICK y : y = ctx'[e]
    OBVIOUS
  <2>1. PICK f \in Frames :
          /\ w # <<>> /\ se = "open" /\ stat'[e] = se /\ out'[e] = o /\ queue'[e] = Append(q, f)
          /\ f.m_frame_beg = x.m_frame_beg
          /\ f.m_is_end => y = HttpCtx /\ wire'[e] = Tail(w)
          /\ ~f.m_is_end => y.m_frame_beg = x.m_frame_beg + 1 /\ wire'[e] = w
    BY <1>2, <1>3, <1>9, <2>0, DispatchIs
  <2>2. wire'[d] = v
    BY <1>1, <1>2, <1>9, OtherSame DEF ParseData
  <2>3. x.m_frame_beg \in Nat
    BY <1>2, <1>3, <2>1 DEF IInv, EndsOK, EndOK
  <2>4. CASE f.m_is_end
    <3>1. y.m_frame_beg = 0
      BY <2>1, <2>4 DEF HttpCtx
    <3>2. Total(y, Tail(w), Append(q, f), o, v, r, s) = Total(x, w, q, o, v, r, s)
      BY <1>n, <2>1, <2>3, <3>1, SvrParsesLast
    <3>3. ~(y.m_frame_beg > 0)
      BY <3>1
    <3>4. Flow(sd, se, y, Tail(w), Append(q, f), o, v, r, s)
      BY <1>4, <2>1, <3>2, <3>3 DEF Flow
    <3> QED BY <1>6, <2>0, <2>1, <2>2, <2>4, <3>4
  <2>5. CASE ~f.m_is_end
    <3>1. y.m_frame_beg = x.m_frame_beg + 1
      BY <2>1, <2>5
    <3>2. Total(y, w, Append(q, f), o, v, r, s) = Total(x, w, q, o, v, r, s)
      BY <1>n, <2>1, <2>3, <3>1, SvrParses
    <3>3. Flow(sd, se, y, w, Append(q, f), o, v, r, s)
      BY <1>4, <2>1, <3>2 DEF Flow
    <3> QED BY <1>6, <2>0, <2>1, <2>2, <2>5, <3>3
  <2> QED BY <2>4, <2>5
<1>10. CASE Process(e)
  <2>0. \A k \in DOMAIN queue[e] : Plain(caches[queue[e][k].m_head].text)
    BY <1>1 DEF LoadOK
  <2>1. /\ q # <<>> /\ queue'[e] = Tail(q) /\ ctx'[e] = x /\ wire' = wire /\ stat'[e] = se
        /\ se \in {"open", "closing"}
        /\ IF Head(q).m_frame_beg = 0 /\ se = "open"
           THEN \E m \in Outs : out'[e] = Append(o, m)
           ELSE out'[e] = o
    BY <1>1, <1>2, <1>3, <1>10, <2>0, DemoIs
  <2>2. CASE Head(q).m_frame_beg = 0 /\ se = "open"
    <3>1. PICK m \in Outs : out'[e] = Append(o, m)
      BY <2>1, <2>2
    <3>2. Total(x, w, Tail(q), Append(o, m), v, r, s) = Total(x, w, q, o, v, r, s)
      BY <1>n, <2>1, <2>2, SvrAnswers
    <3>3. Flow(sd, se, x, w, Tail(q), Append(o, m), v, r, s)
      BY <1>4, <2>1, <3>2 DEF Flow
    <3> QED BY <1>2, <1>6, <2>1, <3>1, <3>3
  <2>3. CASE Head(q).m_frame_beg # 0
    <3>1. Total(x, w, Tail(q), o, v, r, s) = Total(x, w, q, o, v, r, s)
      BY <1>n, <2>1, <2>3, SvrSkips
    <3>2. Flow(sd, se, x, w, Tail(q), o, v, r, s)
      BY <1>4, <2>1, <3>1 DEF Flow
    <3> QED BY <1>2, <1>6, <2>1, <2>3, <3>2
  <2>4. CASE se # "open"
    <3>1. Flow(sd, se, x, w, Tail(q), o, v, r, s)
      BY <1>4, <2>1, <2>4 DEF Flow
    <3> QED BY <1>2, <1>6, <2>1, <2>4, <3>1
  <2> QED BY <2>2, <2>3, <2>4
<1>11. CASE Write(e)
  <2>1. /\ o # <<>> /\ out'[e] = Tail(o) /\ queue'[e] = q /\ ctx'[e] = x /\ stat'[e] = se
        /\ wire'[e] = w
        /\ IF sd \in {"none", "open"} THEN \E msg \in Texts : wire'[d] = Append(v, msg)
           ELSE wire'[d] = v
    <3>1. /\ out[e] # <<>> /\ out'[e] = Tail(out[e]) /\ queue'[e] = queue[e]
          /\ ctx'[e] = ctx[e] /\ stat'[e] = stat[e] /\ wire'[e] = wire[e]
          /\ stat[d] \in {"none", "open"} =>
               \E msg \in Texts : wire'[d] = Append(wire[d], msg)
          /\ stat[d] \notin {"none", "open"} => wire'[d] = wire[d]
      <4>1. Arrives(e, d)
        BY <1>1, <1>11, WriteIs
      <4> QED BY <1>1, <1>11, <4>1, WriteIs DEF Arrives
    <3> QED BY <1>2, <1>3, <3>1
  <2>2. CASE sd = "open"
    <3>1. PICK msg \in Texts : wire'[d] = Append(v, msg)
      BY <2>1, <2>2
    <3>2. Total(x, w, q, Tail(o), Append(v, msg), r, s) = Total(x, w, q, o, v, r, s)
      BY <1>n, <2>1, SvrWrites
    <3>3. Flow(sd, se, x, w, q, Tail(o), Append(v, msg), r, s)
      BY <1>4, <2>2, <3>2 DEF Flow
    <3> QED BY <1>6, <2>1, <3>1, <3>3
  <2>3. CASE sd # "open"
    <3>1. sd \notin {"none", "connecting"}
      BY <1>4, <2>1 DEF Flow
    <3>2. Flow(sd, se, x, w, q, Tail(o), v, r, s)
      BY <1>4, <2>3, <3>1 DEF Flow
    <3> QED BY <1>6, <2>1, <2>3, <3>1, <3>2
  <2> QED BY <2>2, <2>3
<1> QED BY <1>1, <1>7, <1>8, <1>9, <1>10, <1>11 DEF EndActs, ParseData

LEMMA FlowStep ==
  ASSUME IInv, Next, NEW c \in Cli, LoadOK(c), ShortOK(c), FlowOK(c)
  PROVE  FlowOK(c)'
<1>0. c \in Conn
  BY EchoAssumption
<1>1. PICK b \in Conn : Acts(b)
  BY NextActs
<1>2. CASE b # c
  <2>1. PICK e \in End, d \in End : e = Svr(c) /\ e = <<c, "svr">> /\ d = <<c, "cli">>
    BY <1>0, EndIs DEF Svr
  <2>2. /\ stat'[e] = stat[e] /\ ctx'[e] = ctx[e] /\ wire'[e] = wire[e]
        /\ queue'[e] = queue[e] /\ out'[e] = out[e]
        /\ stat'[d] = stat[d] /\ wire'[d] = wire[d]
        /\ queue'[d] = queue[d] /\ out'[d] = out[d]
    BY <1>0, <1>1, <1>2, <2>1, Elsewhere DEF Untouched
  <2> QED BY <2>1, <2>2 DEF FlowOK, Svr
<1>3. CASE b = c
  BY <1>1, <1>3, FlowConn, FlowCli, FlowSvr DEF Acts, Svr
<1> QED BY <1>2, <1>3

LEMMA LInvInit == Init => LInv
<1> SUFFICES ASSUME Init PROVE LInv
  OBVIOUS
<1>1. EInv
  BY EInvInit
<1>2. ASSUME NEW c \in Cli PROVE ShortOK(c) /\ FlowOK(c)
  <2>0. c \in Conn
    BY EchoAssumption
  <2>1. PICK e \in End, d \in End : e = Svr(c) /\ d = <<c, "cli">>
    BY <2>0, EndIs
  <2>2. PICK z : z = <<>> /\ DOMAIN z = {}
    BY EmptyIs
  <2>3. /\ stat[d] \in {"none", "closed"} /\ ctx[e] = NoCtx
        /\ wire[e] = z /\ queue[e] = z /\ out[e] = z
        /\ wire[d] = z /\ queue[d] = z /\ out[d] = z
    BY <2>2 DEF Init
  <2>4. ctx[e].m_body = None /\ ~(ctx[e].m_frame_beg > 0)
    BY <2>3, EmptyIs
  <2>5. ShortOK(c)
    BY <2>1, <2>2, <2>3, <2>4 DEF ShortOK
  <2>6. FlowOK(c)
    BY <2>1, <2>2, <2>3, <2>4 DEF FlowOK, Flow
  <2> QED BY <2>5, <2>6
<1> QED BY <1>1, <1>2 DEF LInv

LEMMA LInvNext == LInv /\ [Next]_vars => LInv'
<1> SUFFICES ASSUME LInv, [Next]_vars PROVE LInv'
  OBVIOUS
<1>1. EInv /\ EInv'
  BY EInvNext DEF LInv
<1>2. CASE UNCHANGED vars
  <2>1. \A c \in Cli : ShortOK(c)' /\ FlowOK(c)'
    BY <1>2 DEF LInv, vars, ShortOK, FlowOK, Svr
  <2> QED BY <1>1, <2>1 DEF LInv
<1>3. CASE Next
  <2>1. ASSUME NEW c \in Cli PROVE ShortOK(c)' /\ FlowOK(c)'
    BY <1>1, <1>3, ShortStep, FlowStep DEF LInv, EInv
  <2> QED BY <1>1, <2>1 DEF LInv
<1> QED BY <1>2, <1>3

\* What is under way between HttpCli and the server is as much as at first, and what comes
\* back to it has at most one piece of a body, so that a reply is one frame.
THEOREM LoadInvariance == Spec => []LInv
<1>1. Spec => Init /\ [][Next]_vars
  BY PTL DEF Spec
<1> QED BY <1>1, LInvInit, LInvNext, PTL

LEMMA LoadIsKept == LInv => LoadKept
<1> SUFFICES ASSUME LInv, NEW c \in Cli,
                    stat[<<c, "cli">>] = "open", stat[Svr(c)] \in {"none", "open"}
             PROVE  LET svr == Svr(c)
                        cli == <<c, "cli">>
                    IN Len(out[cli]) + Len(Unread(svr)) + Len(Waiting(svr)) + Len(out[svr])
                         + Len(wire[cli]) + Len(queue[cli]) = m_first_send_cnt
  BY DEF LoadKept, Peer, Svr
<1>0. c \in Conn /\ IInv
  BY EchoAssumption DEF LInv, EInv
<1>1. PICK e \in End, d \in End : e = Svr(c) /\ d = <<c, "cli">>
  BY <1>0, EndIs
<1>2. PICK x \in Ctxs, w \in Seq(Texts), q \in Seq(Frames) :
        x = ctx[e] /\ w = wire[e] /\ q = queue[e]
  BY <1>0, FlowTypes
<1>3. \A s \in Seq(Texts) : Len(Ids(s)) = Len(s)
  <2> SUFFICES ASSUME NEW s \in Seq(Texts) PROVE Len(Ids(s)) = Len(s)
    OBVIOUS
  <2>1. PICK n \in Nat : n = Len(s) /\ DOMAIN s = 1 .. n
    BY LenProperties
  <2>2. \A k \in 1 .. n : s[k].id \in Nat
    <3>1. \A k \in 1 .. n : s[k] \in Texts
      BY <2>1, ElementOfSeq
    <3> QED BY <3>1 DEF Texts
  <2>3. Ids(s) \in [1 .. n -> Nat]
    BY <2>1, <2>2 DEF Ids
  <2>4. Ids(s) \in Seq(Nat) /\ DOMAIN Ids(s) = 1 .. n
    BY <2>3, SeqDef
  <2> QED BY <2>1, <2>4, LenProperties
<1>4. Len(Unread(e)) = Unbegun(x, w)
  <2>1. CASE x.m_frame_beg > 0
    <3>1. w # <<>>
      BY <1>1, <1>2, <2>1 DEF LInv, FlowOK, Flow
    <3>2. Tail(w) \in Seq(Texts) /\ Len(Tail(w)) \in Nat /\ Len(w) = Len(Tail(w)) + 1
      BY <3>1, LenTail, TailIs
    <3>3. Len(Unread(e)) = Len(Tail(w))
      BY <1>2, <1>3, <2>1, <3>2 DEF Unread
    <3>4. Unbegun(x, w) = Len(w) - 1
      BY <2>1 DEF Unbegun
    <3> QED BY <3>2, <3>3, <3>4
  <2>2. CASE ~(x.m_frame_beg > 0)
    BY <1>2, <1>3, <2>2 DEF Unread, Unbegun
  <2> QED BY <2>1, <2>2
<1>5. Len(Waiting(e)) = Cardinality(Firsts(q))
  <2>1. PICK n, F : n = Cardinality(Firsts(q)) /\ F = Firsts(q)
    OBVIOUS
  <2>2. n \in Nat
    BY <2>1, FirstsType
  <2>3. PICK g : g = Waiting(e)
    OBVIOUS
  <2>4. DOMAIN g = 1 .. n
    BY <1>2, <2>1, <2>3 DEF Waiting
  <2>5. PICK S : S = {g[k] : k \in 1 .. n}
    OBVIOUS
  <2>6. g \in [1 .. n -> S]
    <3>1. g = [k \in 1 .. n |-> g[k]]
      BY <1>2, <2>1, <2>3 DEF Waiting
    <3> QED BY <2>5, <3>1
  <2>7. g \in Seq(S)
    BY <2>2, <2>6, SeqDef
  <2> QED BY <2>1, <2>2, <2>3, <2>4, <2>7, LenProperties
<1>6. Total(ctx[e], wire[e], queue[e], out[e], wire[d], queue[d], out[d]) = m_first_send_cnt
  BY <1>1 DEF LInv, FlowOK, Flow
<1> QED BY <1>1, <1>2, <1>4, <1>5, <1>6 DEF Total

\* HttpCli has as many requests and replies under way as it sent at first, whatever the
\* size of their bodies, as long as both ends of its connection last.
THEOREM LoadStays == Spec => []LoadKept
  BY LoadInvariance, LoadIsKept, PTL
===============================================================================
