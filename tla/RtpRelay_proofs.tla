--------------------------- MODULE RtpRelay_proofs ---------------------------
(***************************************************************************)
(* Proofs about the formats: the buffer of a report is as large as what is  *)
(* written into it, of a datagram of RTCP the packets that arrived are      *)
(* taken, each as it was written, and the payload of a packet goes through  *)
(* any number of servers as it was published, for all octets, lengths and   *)
(* cuts.                                                                    *)
(***************************************************************************)
EXTENDS RtpRelay, FiniteSetTheorems, SequenceTheorems, WellFoundedInduction, TLAPS

-----------------------------------------------------------------------------
(* Octets                                                                  *)

\* Octets behind octets.
LEMMA ConcatOctets ==
  ASSUME NEW s \in Seq(Octet), NEW t \in Seq(Octet)
  PROVE  /\ s \o t \in Seq(Octet) /\ Len(s) \in Nat /\ Len(t) \in Nat
         /\ Len(s \o t) = Len(s) + Len(t)
         /\ \A k \in 1 .. Len(s) : (s \o t)[k] = s[k]
         /\ \A k \in 1 .. Len(t) : (s \o t)[Len(s) + k] = t[k]
<1>1. PICK r, n, m : r = s \o t /\ n = Len(s) /\ m = Len(t)
  OBVIOUS
<1>2. n \in Nat /\ m \in Nat
  BY <1>1, LenProperties
<1>3. /\ r \in Seq(Octet) /\ Len(r) = n + m
      /\ \A k \in 1 .. n + m : r[k] = IF k <= n THEN s[k] ELSE t[k - n]
  BY <1>1, ConcatProperties
<1>4. \A k \in 1 .. n : r[k] = s[k]
  BY <1>2, <1>3
<1>5. \A k \in 1 .. m : r[n + k] = t[k]
  <2> SUFFICES ASSUME NEW k \in 1 .. m PROVE r[n + k] = t[k]
    OBVIOUS
  <2>1. n + k \in 1 .. n + m /\ ~(n + k <= n) /\ (n + k) - n = k
    BY <1>2
  <2> QED BY <1>3, <2>1
<1> QED BY <1>1, <1>2, <1>3, <1>4, <1>5

LEMMA TwoSeq == ASSUME NEW a \in Octet, NEW b \in Octet PROVE <<a, b>> \in Seq(Octet) /\ Len(<<a, b>>) = 2
OBVIOUS

LEMMA OneSeq == ASSUME NEW a \in Octet PROVE <<a>> \in Seq(Octet) /\ Len(<<a>>) = 1 /\ <<a>>[1] = a
OBVIOUS

LEMMA FourSeq ==
  ASSUME NEW a \in Octet, NEW b \in Octet, NEW c \in Octet, NEW d \in Octet
  PROVE  <<a, b, c, d>> \in Seq(Octet) /\ Len(<<a, b, c, d>>) = 4
OBVIOUS

LEMMA ZerosLen ==
  ASSUME NEW n \in Nat
  PROVE  Zeros(n) \in Seq(Octet) /\ Len(Zeros(n)) = n
<1>1. PICK f : f = Zeros(n)
  OBVIOUS
<1>2. f \in [1 .. n -> Octet] /\ DOMAIN f = 1 .. n
  BY <1>1 DEF Zeros, Octet
<1>3. f \in Seq(Octet)
  BY <1>2, SeqDef
<1> QED BY <1>1, <1>2, <1>3, LenProperties

LEMMA TwoOctetsIn == ASSUME NEW v \in Nat PROVE OctetsOf(v, 2) \in Seq(Octet) /\ Len(OctetsOf(v, 2)) = 2
<1>1. PICK f, n, x, y : f = OctetsOf(v, 2) /\ n = 2 /\ x = 256 ^ (2 - 1) /\ y = 256 ^ (2 - 2)
  OBVIOUS
<1>2. x = 256 /\ y = 1
  BY <1>1
<1>3. f[1] = (v \div x) % 256 /\ f[2] = (v \div y) % 256 /\ DOMAIN f = 1 .. n
      /\ f = [i \in 1 .. n |-> f[i]]
  BY <1>1 DEF OctetsOf
<1>4. \A u \in Int : u % 256 \in Octet
  BY DEF Octet
<1>5. v \div 256 \in Int /\ v \div 1 \in Int
  OBVIOUS
<1>6. f[1] \in Octet /\ f[2] \in Octet
  BY <1>2, <1>3, <1>4, <1>5
<1>7. \A i \in 1 .. n : f[i] \in Octet
  <2>1. \A i \in 1 .. n : i = 1 \/ i = 2
    BY <1>1
  <2> QED BY <1>6, <2>1
<1>8. f \in [1 .. n -> Octet] /\ n \in Nat
  BY <1>1, <1>3, <1>7
<1>9. f \in Seq(Octet)
  BY <1>8, SeqDef
<1> QED BY <1>1, <1>3, <1>8, <1>9, LenProperties

LEMMA ThreeOctetsIn ==
  ASSUME NEW v \in Int
  PROVE  OctetsOf(v, 3) \in Seq(Octet) /\ Len(OctetsOf(v, 3)) = 3
<1>1. PICK f, n, x, y, z : /\ f = OctetsOf(v, 3) /\ n = 3 /\ x = 256 ^ (3 - 1) /\ y = 256 ^ (3 - 2)
                           /\ z = 256 ^ (3 - 3)
  OBVIOUS
<1>2. x = 65536 /\ y = 256 /\ z = 1
  BY <1>1
<1>3. /\ f[1] = (v \div x) % 256 /\ f[2] = (v \div y) % 256 /\ f[3] = (v \div z) % 256
      /\ DOMAIN f = 1 .. n /\ f = [i \in 1 .. n |-> f[i]]
  BY <1>1 DEF OctetsOf
<1>4. \A u \in Int : u % 256 \in Octet
  BY DEF Octet
<1>5. v \div 65536 \in Int /\ v \div 256 \in Int /\ v \div 1 \in Int
  OBVIOUS
<1>6. f[1] \in Octet /\ f[2] \in Octet /\ f[3] \in Octet
  BY <1>2, <1>3, <1>4, <1>5
<1>7. \A i \in 1 .. n : f[i] \in Octet
  <2>1. \A i \in 1 .. n : i = 1 \/ i = 2 \/ i = 3
    BY <1>1
  <2> QED BY <1>6, <2>1
<1>8. f \in [1 .. n -> Octet] /\ n \in Nat
  BY <1>1, <1>3, <1>7
<1>9. f \in Seq(Octet)
  BY <1>8, SeqDef
<1> QED BY <1>1, <1>3, <1>8, <1>9, LenProperties

\* Sixteen bits go out and come back.
LEMMA TwoOctets ==
  ASSUME NEW v \in Word
  PROVE  OctetsOf(v, 2)[1] \in Octet /\ OctetsOf(v, 2)[2] \in Octet /\ Num(OctetsOf(v, 2)) = v
<1>20. PICK o : o = OctetsOf(v, 2)
  OBVIOUS
<1>1. PICK x, y : x = 256 ^ (2 - 1) /\ y = 256 ^ (2 - 2)
  OBVIOUS
<1>2. o[1] = (v \div x) % 256 /\ o[2] = (v \div y) % 256
  BY <1>1, <1>20 DEF OctetsOf
<1>3. x = 256 /\ y = 1
  BY <1>1
<1>4. v \in Int /\ 0 <= v /\ v <= 65535 /\ v \div 1 = v
  BY DEF Word
<1>5. PICK q, d \in Int : q = v \div 256 /\ d = v % 256
  BY <1>4
<1>6. q \in Int /\ d \in Int /\ v = 256 * q + d /\ 0 <= d /\ d <= 255
  BY <1>4, <1>5
<1>7. 0 <= q /\ q <= 255
  BY <1>4, <1>6
<1>8. q % 256 = q
  BY <1>5, <1>7
<1>9. o[1] = q /\ o[2] = d
  BY <1>2, <1>3, <1>4, <1>5, <1>8
<1>10. q \in Octet /\ d \in Octet
  BY <1>6, <1>7 DEF Octet
<1> QED BY <1>6, <1>9, <1>10, <1>20 DEF Num

LEMMA SubSeqOctets ==
  ASSUME NEW s \in Seq(Octet), NEW i \in Nat, NEW j \in Nat, i <= j, j <= Len(s)
  PROVE  /\ SubSeq(s, i + 1, j) \in Seq(Octet) /\ Len(SubSeq(s, i + 1, j)) = j - i
         /\ \A k \in 1 .. j - i : SubSeq(s, i + 1, j)[k] = s[i + k]
<1>1. PICK r, m, l : r = SubSeq(s, m, j) /\ m = i + 1 /\ l = Len(s)
  OBVIOUS
<1>2. m \in Int /\ j \in Int /\ l \in Nat
  BY <1>1, LenProperties
<1>3. \A k \in m .. j : s[k] \in Octet
  <2> SUFFICES ASSUME NEW k \in m .. j PROVE s[k] \in Octet
    OBVIOUS
  <2>1. k \in 1 .. Len(s)
    BY <1>1, <1>2
  <2> QED BY <2>1, ElementOfSeq
<1>4. /\ r \in Seq(Octet) /\ Len(r) = (IF m <= j THEN j - m + 1 ELSE 0)
      /\ \A k \in 1 .. j - m + 1 : r[k] = s[m + k - 1]
  <2>1. /\ SubSeq(s, m, j) \in Seq(Octet)
        /\ Len(SubSeq(s, m, j)) = (IF m <= j THEN j - m + 1 ELSE 0)
        /\ \A k \in 1 .. j - m + 1 : SubSeq(s, m, j)[k] = s[m + k - 1]
    BY <1>2, <1>3, SubSeqProperties
  <2> QED BY <1>1, <2>1
<1>5. Len(r) = j - i
  BY <1>1, <1>2, <1>4
<1>6. \A k \in 1 .. j - i : r[k] = s[i + k]
  <2> SUFFICES ASSUME NEW k \in 1 .. j - i PROVE r[k] = s[i + k]
    OBVIOUS
  <2>1. k \in 1 .. j - m + 1 /\ m + k - 1 = i + k
    BY <1>1, <1>2
  <2> QED BY <1>4, <2>1
<1> QED BY <1>1, <1>4, <1>5, <1>6

\* The first n octets.
Cut(o, n, a) == a \in Seq(Octet) /\ Len(a) = n /\ \A k \in 1 .. n : a[k] = o[k]

LEMMA CutOf ==
  ASSUME NEW o \in Seq(Octet), NEW n \in 0 .. Len(o)
  PROVE  Cut(o, n, SubSeq(o, 1, n))
<1>1. PICK z, l : z = 0 /\ l = Len(o) /\ l \in Nat
  BY LenProperties
<1>2. z \in Nat /\ n \in Nat /\ z <= n /\ n <= Len(o) /\ z + 1 = 1 /\ n - z = n
  BY <1>1
<1>3. PICK s, one : s = SubSeq(o, one, n) /\ one = z + 1 /\ one = 1
  BY <1>2
<1>4. s \in Seq(Octet) /\ Len(s) = n - z /\ \A k \in 1 .. n - z : s[k] = o[z + k]
  BY <1>2, <1>3, SubSeqOctets
<1>5. \A k \in 1 .. n : s[k] = o[k]
  <2> SUFFICES ASSUME NEW k \in 1 .. n PROVE s[k] = o[k]
    OBVIOUS
  <2>1. z + k = k
    BY <1>1, <1>2
  <2> QED BY <1>2, <1>4, <2>1
<1> QED BY <1>2, <1>3, <1>4, <1>5 DEF Cut

\* The octets s lie in d behind the first b.
Lies(d, b, s) ==
  /\ b \in Nat /\ b + Len(s) <= Len(d)
  /\ \A k \in 1 .. Len(s) : d[b + k] = s[k]

\* So that they are the field there.
LEMMA LiesField ==
  ASSUME NEW d \in Seq(Octet), NEW b, NEW s \in Seq(Octet), Lies(d, b, s), NEW n, n = Len(s)
  PROVE  Field(d, b, n) = s
<1>1. b \in Nat /\ n \in Nat /\ b + n <= Len(d) /\ \A k \in 1 .. n : d[b + k] = s[k]
  BY LenProperties DEF Lies
<1>2. PICK j \in Nat : j = b + n /\ j - b = n /\ b <= j /\ j <= Len(d)
  BY <1>1
<1>3. PICK t : t = SubSeq(d, b + 1, j)
  OBVIOUS
<1>4. t \in Seq(Octet) /\ Len(t) = j - b /\ \A k \in 1 .. j - b : t[k] = d[b + k]
  BY <1>1, <1>2, <1>3, SubSeqOctets
<1>5. Len(t) = Len(s) /\ \A k \in 1 .. Len(t) : t[k] = s[k]
  BY <1>1, <1>2, <1>4
<1>6. t = s
  BY <1>4, <1>5, SeqEqual
<1> QED BY <1>2, <1>3, <1>6 DEF Field

LEMMA LiesSelf == ASSUME NEW s \in Seq(Octet) PROVE Lies(s, 0, s)
<1>1. PICK n, z : n = Len(s) /\ n \in Nat /\ z = 0
  BY LenProperties
<1>2. z + n <= n /\ \A k \in 1 .. n : z + k = k
  BY <1>1
<1>3. Lies(s, z, s)
  BY <1>1, <1>2 DEF Lies
<1> QED BY <1>1, <1>3

\* What lies in what lies there.
LEMMA LiesWithin ==
  ASSUME NEW d, NEW b, NEW s \in Seq(Octet), NEW c, NEW t \in Seq(Octet), Lies(d, b, s),
         Lies(s, c, t), Len(d) \in Nat
  PROVE  Lies(d, b + c, t)
<1>1. PICK l, m, n : l = Len(d) /\ m = Len(s) /\ n = Len(t) /\ l \in Nat /\ m \in Nat /\ n \in Nat
  BY LenProperties
<1>2. /\ b \in Nat /\ c \in Nat /\ b + m <= l /\ c + n <= m
      /\ \A k \in 1 .. m : d[b + k] = s[k]
      /\ \A k \in 1 .. n : s[c + k] = t[k]
  BY <1>1 DEF Lies
<1>3. (b + c) + n <= l /\ b + c \in Nat
  BY <1>1, <1>2
<1>4. \A k \in 1 .. n : d[(b + c) + k] = t[k]
  <2> SUFFICES ASSUME NEW k \in 1 .. n PROVE d[(b + c) + k] = t[k]
    OBVIOUS
  <2>1. PICK i : i = c + k /\ i \in 1 .. m /\ b + i = (b + c) + k
    BY <1>1, <1>2
  <2>2. d[b + i] = s[i] /\ s[c + k] = t[k]
    BY <1>2, <2>1
  <2> QED BY <2>1, <2>2
<1> QED BY <1>1, <1>3, <1>4 DEF Lies

LEMMA LiesConcat ==
  ASSUME NEW s \in Seq(Octet), NEW t \in Seq(Octet), NEW r, r = s \o t, NEW n, n = Len(s)
  PROVE  /\ r \in Seq(Octet) /\ Lies(r, 0, s) /\ Lies(r, n, t) /\ n \in Nat
         /\ Len(t) \in Nat /\ Len(r) = n + Len(t)
<1>1. /\ r \in Seq(Octet) /\ n \in Nat /\ Len(t) \in Nat /\ Len(r) = n + Len(t)
      /\ \A k \in 1 .. n : r[k] = s[k]
      /\ \A k \in 1 .. Len(t) : r[n + k] = t[k]
  BY ConcatOctets
<1>2. PICK z \in Nat : z = 0
  OBVIOUS
<1>3. z + n <= Len(r) /\ \A k \in 1 .. n : r[z + k] = s[k]
  <2>1. \A k \in 1 .. n : z + k = k
    BY <1>2
  <2> QED BY <1>1, <1>2, <2>1
<1>4. Lies(r, z, s)
  BY <1>1, <1>3 DEF Lies
<1>5. Lies(r, n, t)
  BY <1>1 DEF Lies
<1> QED BY <1>1, <1>2, <1>4, <1>5

\* They lie there in everything that begins alike.
LEMMA LiesOn ==
  ASSUME NEW d, NEW b, NEW s \in Seq(Octet), Lies(d, b, s), NEW c, NEW l \in Nat, NEW n \in Nat,
         Len(d) = l, Len(c) = n, l <= n, \A k \in 1 .. l : c[k] = d[k]
  PROVE  Lies(c, b, s)
<1>1. PICK m : m = Len(s) /\ m \in Nat
  BY LenProperties
<1>2. b \in Nat /\ b + m <= l /\ \A k \in 1 .. m : d[b + k] = s[k]
  BY <1>1 DEF Lies
<1>3. \A k \in 1 .. m : c[b + k] = s[k]
  <2> SUFFICES ASSUME NEW k \in 1 .. m PROVE c[b + k] = s[k]
    OBVIOUS
  <2>1. b + k \in 1 .. l
    BY <1>1, <1>2
  <2> QED BY <1>2, <2>1
<1>4. b + m <= n
  BY <1>1, <1>2
<1> QED BY <1>1, <1>2, <1>3, <1>4 DEF Lies

\* One behind the other they are one.
LEMMA LiesJoin ==
  ASSUME NEW d, NEW b, NEW s \in Seq(Octet), NEW t \in Seq(Octet), Lies(d, b, s), NEW m,
         m = Len(s), Lies(d, b + m, t), Len(d) \in Nat, NEW r, r = s \o t
  PROVE  Lies(d, b, r)
<1>0. PICK c : c = b + m
  OBVIOUS
<1>1. PICK l, n : l = Len(d) /\ n = Len(t) /\ l \in Nat /\ m \in Nat /\ n \in Nat
  BY LenProperties
<1>2. /\ b \in Nat /\ c = b + m /\ c + n <= l
      /\ \A k \in 1 .. m : d[b + k] = s[k]
      /\ \A k \in 1 .. n : d[c + k] = t[k]
  BY <1>0, <1>1 DEF Lies
<1>3. /\ r \in Seq(Octet) /\ Len(r) = m + n
      /\ \A k \in 1 .. m : r[k] = s[k]
      /\ \A k \in 1 .. n : r[m + k] = t[k]
  BY <1>1, ConcatOctets
<1>4. \A k \in 1 .. m + n : d[b + k] = r[k]
  <2> SUFFICES ASSUME NEW k \in 1 .. m + n PROVE d[b + k] = r[k]
    OBVIOUS
  <2>1. CASE k <= m
    BY <1>1, <1>2, <1>3, <2>1
  <2>2. CASE k > m
    <3>0. PICK i : i = k - m
      OBVIOUS
    <3>1. i \in 1 .. n /\ m + i = k /\ c + i = b + k
      BY <1>1, <1>2, <2>2, <3>0
    <3>2. r[m + i] = t[i] /\ d[c + i] = t[i]
      BY <1>2, <1>3, <3>1
    <3> QED BY <3>1, <3>2
  <2> QED BY <1>1, <2>1, <2>2
<1>5. b + (m + n) <= l
  BY <1>1, <1>2
<1>6. Lies(d, b, r)
  BY <1>1, <1>2, <1>3, <1>4, <1>5 DEF Lies
<1> QED BY <1>1, <1>3, <1>6

\* The first octet of an RTCP packet.
LEMMA RtcpBits ==
  ASSUME NEW a \in {0, 1}, NEW c \in 0 .. 2 ^ 5 - 1, NEW f,
         f = GenBit(GenBit(DEF_RTP_VERSION, 1, a), 5, c)
  PROVE  f \in Octet /\ IsVerValid(f) /\ ParseBit(f, 5, 1) = a /\ ParseBit(f, 0, 5) = c
<1>1. GenBit(DEF_RTP_VERSION, 1, a) = 4 + a
  BY DEF GenBit, DEF_RTP_VERSION
<1>2. GenBit(4 + a, 5, c) = 128 + 32 * a + c
  BY DEF GenBit
<1>3. f = 128 + 32 * a + c /\ f \in Octet
  BY <1>1, <1>2 DEF Octet
<1>4. IsVerValid(f)
  BY <1>3 DEF IsVerValid, ParseBit, DEF_RTP_VERSION
<1>5. ParseBit(f, 5, 1) = a
  BY <1>3 DEF ParseBit
<1>6. ParseBit(f, 0, 5) = c
  BY <1>3 DEF ParseBit
<1> QED BY <1>3, <1>4, <1>5, <1>6

-----------------------------------------------------------------------------
(* The encoder                                                             *)

\* An encoder that wrote n of size octets, and did not fail.
Wrote(e, n, size) ==
  /\ e = [data |-> e.data, size |-> size, ok |-> TRUE]
  /\ e.data \in Seq(Octet) /\ Len(e.data) = n

\* What was written before is still there.
Keeps(g, e) == \A k \in 1 .. Len(e.data) : g.data[k] = e.data[k]

LEMMA KeepsOn ==
  ASSUME NEW e, NEW g, NEW h, Keeps(g, e), Keeps(h, g), NEW n \in Nat, NEW m \in Nat,
         Len(e.data) = n, Len(g.data) = m, n <= m
  PROVE  Keeps(h, e)
<1> SUFFICES ASSUME NEW k \in 1 .. n PROVE h.data[k] = e.data[k]
  BY DEF Keeps
<1>1. k \in 1 .. m
  OBVIOUS
<1> QED BY <1>1 DEF Keeps

LEMMA EncoderWrote == ASSUME NEW size PROVE Wrote(Encoder(size), 0, size)
<1>1. PICK z, n : z = <<>> /\ n = 0 /\ z \in Seq(Octet) /\ Len(z) = n
  BY EmptySeq
<1>2. PICK e : e = Encoder(size) /\ e = [data |-> z, size |-> size, ok |-> TRUE]
  BY <1>1 DEF Encoder
<1>3. e.data = z
  BY <1>2
<1> QED BY <1>1, <1>2, <1>3 DEF Wrote

LEMMA GenWrote ==
  ASSUME NEW n \in Nat, NEW size \in Nat, NEW e, Wrote(e, n, size), NEW s \in Seq(Octet),
         n + Len(s) <= size
  PROVE  /\ Wrote(Gen(e, s), n + Len(s), size) /\ Keeps(Gen(e, s), e)
         /\ \A k \in 1 .. Len(s) : Gen(e, s).data[n + k] = s[k]
<1>1. PICK d : d = e.data
  OBVIOUS
<1>2. d \in Seq(Octet) /\ Len(d) = n /\ e = [data |-> d, size |-> size, ok |-> TRUE]
  BY <1>1 DEF Wrote
<1>3. PICK ds : ds = d \o s
  OBVIOUS
<1>4. /\ ds \in Seq(Octet) /\ Len(ds) = Len(d) + Len(s)
      /\ \A k \in 1 .. Len(d) : ds[k] = d[k]
      /\ \A k \in 1 .. Len(s) : ds[Len(d) + k] = s[k]
  BY <1>2, <1>3, ConcatOctets
<1>5. PICK g : g = Gen(e, s)
  OBVIOUS
<1>6. e.ok /\ MakeSpace(e, Len(s)) /\ e.data = d
  BY <1>2 DEF MakeSpace
<1>7. g = [e EXCEPT !.data = d \o s]
  BY <1>5, <1>6 DEF Gen
<1>8. g = [e EXCEPT !.data = ds]
  BY <1>7, <1>3
<1>9. g = [data |-> ds, size |-> size, ok |-> TRUE] /\ g.data = ds
  BY <1>2, <1>8
<1>10. Wrote(g, n + Len(s), size)
  BY <1>2, <1>4, <1>9 DEF Wrote
<1>11. Keeps(g, e)
  BY <1>1, <1>4, <1>9 DEF Keeps
<1>12. \A k \in 1 .. Len(s) : g.data[n + k] = s[k]
  BY <1>2, <1>4, <1>9
<1> QED BY <1>5, <1>10, <1>11, <1>12

LEMMA GenLies ==
  ASSUME NEW n \in Nat, NEW size \in Nat, NEW e, Wrote(e, n, size), NEW s \in Seq(Octet),
         n + Len(s) <= size
  PROVE  Lies(Gen(e, s).data, n, s)
<1>1. PICK g : g = Gen(e, s)
  OBVIOUS
<1>2. Wrote(g, n + Len(s), size) /\ \A k \in 1 .. Len(s) : g.data[n + k] = s[k]
  <2>1. n \in Nat /\ size \in Nat /\ Wrote(e, n, size) /\ s \in Seq(Octet) /\ n + Len(s) <= size
    OBVIOUS
  <2>2. Wrote(Gen(e, s), n + Len(s), size) /\ \A k \in 1 .. Len(s) : Gen(e, s).data[n + k] = s[k]
    BY ONLY <2>1, GenWrote
  <2> QED BY <1>1, <2>2
<1>3. Len(g.data) = n + Len(s) /\ n + Len(s) \in Nat
  BY <1>2, LenProperties DEF Wrote
<1> QED BY <1>1, <1>2, <1>3 DEF Lies

\* What lies in what an encoder wrote lies in what it wrote later.
LEMMA LiesKept ==
  ASSUME NEW e, NEW g, Keeps(g, e), NEW n \in Nat, NEW m \in Nat, n <= m, NEW size, Wrote(e, n, size),
         Wrote(g, m, size), NEW b, NEW s \in Seq(Octet), Lies(e.data, b, s)
  PROVE  Lies(g.data, b, s)
<1>1. Len(e.data) = n /\ Len(g.data) = m /\ \A k \in 1 .. n : g.data[k] = e.data[k]
  BY DEF Wrote, Keeps
<1> QED BY <1>1, LiesOn

LEMMA WriteWrote ==
  ASSUME NEW n \in Nat, NEW size \in Nat, NEW e, Wrote(e, n, size), NEW v \in Word,
         NEW offset \in Nat, offset + 2 <= n, NEW g, g = WriteU16(e, v, offset)
  PROVE  /\ Wrote(g, n, size)
         /\ \A k \in 1 .. n : k = offset + 1 \/ k = offset + 2 \/ g.data[k] = e.data[k]
         /\ 256 * g.data[offset + 1] + g.data[offset + 2] = v
<1>1. PICK d : d = e.data
  OBVIOUS
<1>2. d \in Seq(Octet) /\ Len(d) = n /\ e = [data |-> d, size |-> size, ok |-> TRUE]
  BY <1>1 DEF Wrote
<1>3. PICK x, y, p, q : x = (v \div 256) % 256 /\ y = v % 256 /\ p = offset + 1 /\ q = offset + 2
  OBVIOUS
<1>4. p \in 1 .. Len(d) /\ q \in 1 .. Len(d) /\ p # q
  BY <1>2, <1>3
<1>5. x \in Octet /\ y \in Octet /\ 256 * x + y = v
  <2>1. v \in Int /\ 0 <= v /\ v <= 65535
    BY DEF Word
  <2>2. PICK c, r \in Int : c = v \div 256 /\ r = v % 256
    BY <2>1
  <2>3. c \in Int /\ r \in Int /\ v = 256 * c + r /\ 0 <= r /\ r <= 255
    BY <2>1, <2>2
  <2>4. 0 <= c /\ c <= 255
    BY <2>1, <2>3
  <2>5. c % 256 = c
    BY <2>3, <2>4
  <2>6. x = c /\ y = r
    BY <1>3, <2>2, <2>5
  <2>7. c \in Octet /\ r \in Octet
    BY <2>3, <2>4 DEF Octet
  <2> QED BY <2>3, <2>6, <2>7
<1>6. PICK a : a = [d EXCEPT ![p] = x] /\ a \in Seq(Octet) /\ Len(a) = n
                /\ \A k \in 1 .. n : a[k] = IF k = p THEN x ELSE d[k]
  <2>1. /\ [d EXCEPT ![p] = x] \in Seq(Octet) /\ Len([d EXCEPT ![p] = x]) = Len(d)
        /\ \A k \in 1 .. Len(d) : [d EXCEPT ![p] = x][k] = IF k = p THEN x ELSE d[k]
    BY <1>2, <1>4, <1>5, ExceptSeq
  <2> QED BY <1>2, <2>1
<1>7. PICK f : f = [a EXCEPT ![q] = y] /\ f \in Seq(Octet) /\ Len(f) = n
                /\ \A k \in 1 .. n : f[k] = IF k = q THEN y ELSE a[k]
  <2>1. q \in 1 .. Len(a)
    BY <1>2, <1>4, <1>6
  <2>2. /\ [a EXCEPT ![q] = y] \in Seq(Octet) /\ Len([a EXCEPT ![q] = y]) = Len(a)
        /\ \A k \in 1 .. Len(a) : [a EXCEPT ![q] = y][k] = IF k = q THEN y ELSE a[k]
    BY <1>5, <1>6, <2>1, ExceptSeq
  <2> QED BY <1>6, <2>2
<1>8. g = [e EXCEPT !.data[p] = x, !.data[q] = y]
  BY <1>1, <1>2, <1>3 DEF WriteU16
<1>9. g = [data |-> f, size |-> size, ok |-> TRUE]
  BY <1>2, <1>6, <1>7, <1>8
<1>10. g.data = f
  BY <1>9
<1>11. Wrote(g, n, size)
  BY <1>7, <1>9, <1>10 DEF Wrote
<1>12. \A k \in 1 .. n : k = p \/ k = q \/ g.data[k] = d[k]
  BY <1>6, <1>7, <1>10
<1>13. g.data[p] = x /\ g.data[q] = y
  BY <1>2, <1>4, <1>6, <1>7, <1>10
<1> QED BY <1>1, <1>3, <1>5, <1>11, <1>12, <1>13

\* The header of a packet behind what e wrote.
Headed(g, e, n, size, rc, pt) ==
  /\ Wrote(g, n + 4, size) /\ Keeps(g, e)
  /\ IsVerValid(g.data[n + 1]) /\ ParseBit(g.data[n + 1], 5, 1) = 0
  /\ ParseBit(g.data[n + 1], 0, 5) = rc /\ g.data[n + 2] = pt

LEMMA HeaderWrote ==
  ASSUME NEW n \in Nat, NEW size \in Nat, NEW e, Wrote(e, n, size), n + 4 <= size,
         NEW rc \in 0 .. 2 ^ 5 - 1, NEW pt \in Octet, NEW g, g = GenRtcpHeader(e, rc, pt)
  PROVE  Headed(g, e, n, size, rc, pt)
<1>1. PICK f, w, z, l : /\ f = GenBit(GenBit(DEF_RTP_VERSION, 1, z), 5, rc) /\ z = 0
                        /\ w = <<f, pt, z, z>> /\ l = 4
  OBVIOUS
<1>2. f \in Octet /\ IsVerValid(f) /\ ParseBit(f, 5, 1) = z /\ ParseBit(f, 0, 5) = rc
  <2>1. z \in {0, 1}
    BY <1>1
  <2> QED BY <1>1, <2>1, RtcpBits
<1>3. z \in Octet
  BY <1>1 DEF Octet
<1>4. w \in Seq(Octet) /\ Len(w) = l
  BY <1>1, <1>2, <1>3, FourSeq
<1>5. w[1] = f /\ w[2] = pt
  BY <1>1
<1>6. g = Gen(e, w)
  BY <1>1 DEF GenRtcpHeader
<1>7. n + Len(w) <= size
  BY <1>1, <1>4
<1>8. /\ Wrote(g, n + Len(w), size) /\ Keeps(g, e)
      /\ \A k \in 1 .. Len(w) : g.data[n + k] = w[k]
  <2>1. w \in Seq(Octet) /\ n + Len(w) <= size
    BY <1>4, <1>7
  <2>2. /\ Wrote(Gen(e, w), n + Len(w), size) /\ Keeps(Gen(e, w), e)
        /\ \A k \in 1 .. Len(w) : Gen(e, w).data[n + k] = w[k]
    BY <2>1, GenWrote
  <2> QED BY <1>6, <2>2
<1>9. 1 \in 1 .. Len(w) /\ 2 \in 1 .. Len(w)
  BY <1>1, <1>4
<1>10. g.data[n + 1] = f /\ g.data[n + 2] = pt
  BY <1>5, <1>8, <1>9
<1> QED BY <1>1, <1>2, <1>4, <1>8, <1>10 DEF Headed

LEMMA StrWrote ==
  ASSUME NEW n \in Nat, NEW size \in Nat, NEW e, Wrote(e, n, size), NEW s \in Seq(Octet),
         Len(s) <= 255, n + 1 + Len(s) <= size, NEW h, h = GenStrU8(e, s)
  PROVE  /\ Wrote(h, n + 1 + Len(s), size) /\ Keeps(h, e)
         /\ <<Len(s)>> \o s \in Seq(Octet) /\ Lies(h.data, n, <<Len(s)>> \o s)
         /\ Len(<<Len(s)>> \o s) = 1 + Len(s)
<1>1. PICK w, l, m : w = <<Len(s)>> /\ l = 1 /\ m = Len(s)
  OBVIOUS
<1>2. m \in Nat /\ m <= 255 /\ l \in Nat
  BY <1>1, LenProperties
<1>3. m \in Octet
  BY <1>2 DEF Octet
<1>4. w \in Seq(Octet) /\ Len(w) = l
  BY <1>1, <1>3, OneSeq
<1>5. n + l \in Nat /\ n + Len(w) <= size /\ (n + l) + Len(s) <= size
  BY <1>1, <1>2, <1>4
<1>6. PICK g : g = Gen(e, w)
  OBVIOUS
<1>7. Wrote(g, n + Len(w), size) /\ Keeps(g, e)
  BY <1>4, <1>5, <1>6, GenWrote
<1>8. Wrote(g, n + l, size)
  BY <1>4, <1>7
<1>9. Wrote(Gen(g, s), (n + l) + Len(s), size) /\ Keeps(Gen(g, s), g)
  BY <1>5, <1>8, GenWrote
<1>10. h = Gen(g, s)
  BY <1>1, <1>6 DEF GenStrU8
<1>11. Keeps(h, e)
  <2>1. Len(e.data) = n /\ Len(g.data) = n + l /\ n <= n + l
    BY <1>2, <1>8 DEF Wrote
  <2> QED BY <1>5, <1>7, <1>9, <1>10, <2>1, KeepsOn
<1>12. Lies(g.data, n, w) /\ Lies(h.data, n + l, s)
  <2>1. Lies(Gen(e, w).data, n, w)
    BY <1>4, <1>5, GenLies
  <2>2. Lies(Gen(g, s).data, n + l, s)
    BY <1>5, <1>8, GenLies
  <2> QED BY <1>6, <1>10, <2>1, <2>2
<1>13. Lies(h.data, n, w)
  <2>1. n + l \in Nat /\ (n + l) + m \in Nat /\ n + l <= (n + l) + m
    BY <1>2
  <2>2. Wrote(h, (n + l) + m, size) /\ Keeps(h, g)
    BY <1>1, <1>9, <1>10
  <2> QED BY <1>4, <1>8, <1>12, <2>1, <2>2, LiesKept
<1>14. PICK r : r = w \o s
  OBVIOUS
<1>15. r \in Seq(Octet) /\ Lies(h.data, n, r) /\ Len(r) = Len(w) + Len(s)
  <2>1. n + l = n + Len(w) /\ Len(h.data) \in Nat /\ w \in Seq(Octet) /\ s \in Seq(Octet)
    <3>1. Len(h.data) = n + 1 + m
      BY <1>1, <1>9, <1>10 DEF Wrote
    <3> QED BY <1>2, <1>4, <3>1
  <2>2. PICK d, c : d = h.data /\ c = Len(w)
    OBVIOUS
  <2>3. Lies(d, n, w) /\ Lies(d, n + c, s) /\ Len(d) \in Nat /\ c = Len(w)
    BY <1>4, <1>12, <1>13, <2>1, <2>2
  <2>5. w \in Seq(Octet) /\ s \in Seq(Octet)
    BY <2>1
  <2>4. Lies(d, n, r)
    BY <1>14, <2>3, <2>5, LiesJoin
  <2>6. r \in Seq(Octet) /\ Len(r) = Len(w) + Len(s)
    BY <1>14, <2>5, ConcatOctets
  <2> QED BY <2>2, <2>4, <2>6
<1>16. Len(r) = 1 + Len(s)
  BY <1>1, <1>4, <1>15
<1> QED BY <1>1, <1>9, <1>10, <1>11, <1>14, <1>15, <1>16

-----------------------------------------------------------------------------
(* Packets in a datagram                                                   *)

\* A packet stands in d from behind b octets up to e: its length leads from one to
\* the other, and its padding, if it has any, is not longer.
Put(d, b, e) ==
  /\ b \in Nat /\ e \in Nat /\ b + 4 <= e /\ e <= Len(d)
  /\ IsVerValid(d[b + 1]) /\ IsRtcpPt(d[b + 2])
  /\ b + 4 + 4 * (256 * d[b + 3] + d[b + 4]) = e
  /\ ParseBit(d[b + 1], 5, 1) = 1 => d[e] <= e - b - 4

\* The octets of padding in the packet between b and e.
PadAt(d, b, e) == IF ParseBit(d[b + 1], 5, 1) = 1 THEN d[e] ELSE 0

\* It stands where it stood in everything that begins alike.
LEMMA PutStays ==
  ASSUME NEW d, NEW b, NEW e, NEW c, Put(d, b, e), NEW n \in Nat, Len(c) = n, e <= n,
         \A k \in 1 .. e : c[k] = d[k]
  PROVE  Put(c, b, e)
<1>1. b \in Nat /\ e \in Nat /\ b + 4 <= e
  BY DEF Put
<1>2. b + 1 \in 1 .. e /\ b + 2 \in 1 .. e /\ b + 3 \in 1 .. e /\ b + 4 \in 1 .. e /\ e \in 1 .. e
  BY <1>1
<1>3. c[b + 1] = d[b + 1] /\ c[b + 2] = d[b + 2] /\ c[b + 3] = d[b + 3] /\ c[b + 4] = d[b + 4] /\ c[e] = d[e]
  BY <1>2
<1> QED BY <1>1, <1>3 DEF Put

\* What FinishRtcp makes of a packet of n - beg octets.
LEMMA FinishWrote ==
  ASSUME NEW n \in Nat, NEW size \in Nat, NEW e, Wrote(e, n, size), NEW beg \in Nat,
         beg % 4 = 0, n % 4 = 0, beg + 4 <= n, n - beg <= 400,
         IsVerValid(e.data[beg + 1]), ParseBit(e.data[beg + 1], 5, 1) = 0,
         IsRtcpPt(e.data[beg + 2]), NEW g, g = FinishRtcp(e, beg)
  PROVE  /\ Wrote(g, n, size) /\ Put(g.data, beg, n)
         /\ \A k \in 1 .. beg + 2 : g.data[k] = e.data[k]
         /\ \A k \in 1 .. n : k = beg + 3 \/ k = beg + 4 \/ g.data[k] = e.data[k]
<1>1. e.ok /\ Len(e.data) = n
  BY DEF Wrote
<1>2. PICK v, o \in Nat : v = (n - beg) \div 4 - 1 /\ o = beg + 2 /\ o + 2 <= n
  OBVIOUS
<1>3. g = WriteU16(e, v, o)
  BY <1>1, <1>2 DEF FinishRtcp
<1>4. 4 + 4 * v = n - beg
  <2>1. (n - beg) % 4 = 0
    OBVIOUS
  <2> QED BY <1>2, <2>1
<1>5. v \in Word
  <2>1. v <= 65535
    BY <1>4
  <2> QED BY <1>2, <2>1 DEF Word
<1>6. /\ Wrote(g, n, size)
      /\ \A k \in 1 .. n : k = o + 1 \/ k = o + 2 \/ g.data[k] = e.data[k]
      /\ 256 * g.data[o + 1] + g.data[o + 2] = v
  <2>1. /\ v \in Word /\ o \in Nat /\ o + 2 <= n /\ g = WriteU16(e, v, o)
        /\ n \in Nat /\ size \in Nat /\ Wrote(e, n, size)
    BY <1>2, <1>3, <1>5
  <2> QED BY ONLY <2>1, WriteWrote
<1>7. \A k \in 1 .. beg + 2 : g.data[k] = e.data[k]
  <2> SUFFICES ASSUME NEW k \in 1 .. beg + 2 PROVE g.data[k] = e.data[k]
    OBVIOUS
  <2>1. k \in 1 .. n /\ k # o + 1 /\ k # o + 2
    BY <1>2
  <2> QED BY <1>6, <2>1
<1>8. g.data[beg + 1] = e.data[beg + 1] /\ g.data[beg + 2] = e.data[beg + 2]
  BY <1>7
<1>9. o + 1 = beg + 3 /\ o + 2 = beg + 4
  BY <1>2
<1>10. beg + 4 + 4 * (256 * g.data[beg + 3] + g.data[beg + 4]) = n
  BY <1>4, <1>6, <1>9
<1>11. Len(g.data) = n
  BY <1>6 DEF Wrote
<1>12. ParseBit(g.data[beg + 1], 5, 1) # 1
  BY <1>8
<1>13. Put(g.data, beg, n)
  BY <1>8, <1>10, <1>11, <1>12 DEF Put
<1>14. \A k \in 1 .. n : k = beg + 3 \/ k = beg + 4 \/ g.data[k] = e.data[k]
  BY <1>6, <1>9
<1> QED BY <1>6, <1>7, <1>13, <1>14

-----------------------------------------------------------------------------
(* Reports                                                                 *)

\* A name that calcSdesLen has room for, see WireAssumption.
NameFits(cname) == cname \in Seq(Octet) /\ Len(cname) <= 255 /\ Len(cname) % 4 # 3

\* The octets of a chunk with one item, and no more than four zeros behind them.
ChunkText(ssrc, type, name) == (ssrc \o <<type>>) \o (<<Len(name)>> \o name)
Spells(d, b, e, text) ==
  /\ text \in Seq(Octet) /\ Lies(d, b, text) /\ b + Len(text) <= e /\ e <= b + Len(text) + 4
  /\ \A i \in b + Len(text) + 1 .. e : d[i] = 0

\* With twelve octets beside the name the chunk ends with a word: its zeros fit, or
\* there is no need for one.
LEMMA ChunkWrote ==
  ASSUME NEW n \in Nat, NEW size \in Nat, NEW e, NEW ssrc \in Seq(Octet), NEW type \in Octet,
         NEW cname, n % 4 = 0, NameFits(cname), size = n + 12 + Len(cname),
         Wrote(e, n + 4, size), Len(ssrc) = 4, NEW r, r = GenChunk(e, ssrc, type, cname)
  PROVE  \E k \in Nat : /\ n + 8 <= k /\ k <= size /\ k % 4 = 0
                        /\ Wrote(r, k, size) /\ Keeps(r, e)
                        /\ Spells(r.data, n + 4, k, ChunkText(ssrc, type, cname))
                        /\ Len(ChunkText(ssrc, type, cname)) = 6 + Len(cname)
<1>1. PICK w, l, f, m : w = <<type>> /\ l = 1 /\ f = 4 /\ m = Len(cname)
  OBVIOUS
<1>2. m \in Nat /\ m <= 255 /\ m % 4 # 3 /\ l \in Nat /\ f \in Nat
  BY <1>1, LenProperties DEF NameFits
<1>3. size = n + 12 + m
  BY <1>1
<1>4. PICK g : g = Gen(e, ssrc)
  OBVIOUS
<1>5. Wrote(g, n + f + f, size) /\ Keeps(g, e) /\ Lies(g.data, n + f, ssrc)
  <2>1. Wrote(e, n + f, size) /\ (n + f) + Len(ssrc) <= size /\ n + f \in Nat
    BY <1>1, <1>2, <1>3
  <2>2. Wrote(Gen(e, ssrc), (n + f) + Len(ssrc), size) /\ Keeps(Gen(e, ssrc), e)
    BY <2>1, GenWrote
  <2>3. Lies(Gen(e, ssrc).data, n + f, ssrc)
    BY <2>1, GenLies
  <2> QED BY <1>1, <1>4, <2>2, <2>3
<1>6. PICK h : h = Gen(g, w)
  OBVIOUS
<1>7. Wrote(h, n + f + f + l, size) /\ Keeps(h, g) /\ Lies(h.data, n + f + f, w)
  <2>1. w \in Seq(Octet) /\ Len(w) = l
    BY <1>1, OneSeq
  <2>2. n + f + f \in Nat /\ n + f + f + Len(w) <= size
    BY <1>1, <1>2, <1>3, <2>1
  <2>3. Wrote(Gen(g, w), (n + f + f) + Len(w), size) /\ Keeps(Gen(g, w), g)
    BY <1>5, <2>1, <2>2, GenWrote
  <2>4. Lies(Gen(g, w).data, n + f + f, w)
    BY <1>5, <2>1, <2>2, GenLies
  <2> QED BY <1>6, <2>1, <2>3, <2>4
<1>8. PICK c, k : c = GenStrU8(h, cname) /\ k = n + f + f + l + 1 + m
  OBVIOUS
<1>9. k \in Nat /\ k = n + 10 + m
  BY <1>1, <1>2, <1>8
<1>19. PICK v : v = <<Len(cname)>> \o cname
  OBVIOUS
<1>10. /\ Wrote(c, k, size) /\ Keeps(c, h) /\ Lies(c.data, n + f + f + l, v)
       /\ v \in Seq(Octet) /\ Len(v) = 1 + m
  <2>1. /\ cname \in Seq(Octet) /\ Len(cname) <= 255 /\ n + f + f + l \in Nat
        /\ (n + f + f + l) + 1 + Len(cname) <= size
    BY <1>1, <1>2, <1>3 DEF NameFits
  <2>2. /\ Wrote(c, (n + f + f + l) + 1 + Len(cname), size) /\ Keeps(c, h)
        /\ <<Len(cname)>> \o cname \in Seq(Octet)
        /\ Lies(c.data, n + f + f + l, <<Len(cname)>> \o cname)
        /\ Len(<<Len(cname)>> \o cname) = 1 + Len(cname)
    BY <1>7, <1>8, <2>1, StrWrote
  <2> QED BY <1>1, <1>8, <1>19, <2>2
<1>11. /\ Len(e.data) = n + f /\ Len(g.data) = n + f + f /\ Len(h.data) = n + f + f + l
       /\ Len(c.data) = k
  <2>1. Len(e.data) = n + 4
    BY DEF Wrote
  <2> QED BY <1>1, <1>5, <1>7, <1>10, <2>1 DEF Wrote
<1>12. Keeps(h, e)
  <2>1. n + f \in Nat /\ n + f + f \in Nat /\ n + f <= n + f + f
    BY <1>2
  <2> QED BY <1>5, <1>7, <1>11, <2>1, KeepsOn
<1>13. Keeps(c, e)
  <2>1. n + f \in Nat /\ n + f + f + l \in Nat /\ n + f <= n + f + f + l
    BY <1>2
  <2> QED BY <1>10, <1>11, <1>12, <2>1, KeepsOn
<1>20. PICK u, text : u = ssrc \o w /\ text = u \o v
  OBVIOUS
<1>21. /\ u \in Seq(Octet) /\ Len(u) = f + l /\ text \in Seq(Octet) /\ Len(text) = f + l + (1 + m)
       /\ text = ChunkText(ssrc, type, cname)
  <2>1. w \in Seq(Octet) /\ Len(w) = l /\ Len(ssrc) = f
    BY <1>1, OneSeq
  <2>2. u \in Seq(Octet) /\ Len(u) = Len(ssrc) + Len(w)
    BY <1>20, <2>1, ConcatOctets
  <2>3. v \in Seq(Octet) /\ Len(v) = 1 + m
    BY <1>10
  <2>4. text \in Seq(Octet) /\ Len(text) = Len(u) + Len(v)
    BY <1>20, <2>2, <2>3, ConcatOctets
  <2> QED BY <1>1, <1>19, <1>20, <2>1, <2>2, <2>3, <2>4 DEF ChunkText
<1>22. Lies(c.data, n + f, text)
  <2>1. /\ n + f + f \in Nat /\ n + f + f + l \in Nat /\ n + f + f <= n + f + f + l
        /\ n + f + f <= k /\ n + f + f + l <= k /\ k \in Nat /\ w \in Seq(Octet)
    BY <1>1, <1>2, <1>9, OneSeq
  <2>2. PICK a, b, j : a = n + f + f /\ b = n + f + f + l /\ j = n + f
    OBVIOUS
  <2>3. /\ a \in Nat /\ b \in Nat /\ a <= b /\ a <= k /\ b <= k /\ k \in Nat
        /\ Wrote(g, a, size) /\ Wrote(h, b, size) /\ Wrote(c, k, size)
        /\ Keeps(h, g) /\ Keeps(c, h) /\ Lies(g.data, j, ssrc) /\ Lies(h.data, a, w)
        /\ Lies(c.data, b, v)
    BY <1>5, <1>7, <1>10, <2>1, <2>2
  <2>4. Lies(h.data, j, ssrc)
    BY <2>3, LiesKept
  <2>5. Lies(c.data, j, ssrc) /\ Lies(c.data, a, w)
    <3>1. /\ Keeps(c, h) /\ b \in Nat /\ k \in Nat /\ b <= k /\ Wrote(h, b, size) /\ Wrote(c, k, size)
          /\ w \in Seq(Octet)
      BY <2>1, <2>3
    <3>2. Lies(c.data, j, ssrc)
      BY <2>4, <3>1, LiesKept
    <3>3. Lies(h.data, a, w) /\ w \in Seq(Octet)
      BY <2>1, <2>3
    <3>4. Lies(c.data, a, w)
      BY ONLY <3>1, <3>3, LiesKept
    <3> QED BY <3>2, <3>4
  <2>6. PICK d, x, y : d = c.data /\ x = Len(ssrc) /\ y = Len(u)
    OBVIOUS
  <2>7. j + x = a /\ j + y = b /\ Len(d) \in Nat
    BY <1>1, <1>2, <1>9, <1>11, <1>21, <2>2, <2>6
  <2>8. Lies(d, j, ssrc) /\ Lies(d, j + x, w) /\ Len(d) \in Nat /\ x = Len(ssrc)
    BY <2>5, <2>6, <2>7
  <2>9. Lies(d, j, u)
    BY <1>20, <2>1, <2>8, LiesJoin
  <2>10. Lies(d, j + y, v) /\ y = Len(u) /\ u \in Seq(Octet) /\ v \in Seq(Octet)
    BY <1>10, <1>21, <2>3, <2>6, <2>7
  <2>11. Lies(d, j, text)
    BY <1>20, <2>8, <2>9, <2>10, LiesJoin
  <2> QED BY <2>2, <2>6, <2>11
<1>14. PICK p \in Nat : p = 4 - (k % 4) /\ p = Padding(k) /\ p \in 1 .. 4 /\ (k + p) % 4 = 0
  <2>1. PICK i \in Nat, j \in Nat : i = k \div 4 /\ j = k % 4
    BY <1>9
  <2>2. k = 4 * i + j /\ j <= 3
    BY <1>9, <2>1
  <2>3. PICK p \in Nat : p = 4 - j /\ p \in 1 .. 4
    BY <2>2
  <2>4. k + p = 4 * (i + 1)
    BY <2>2, <2>3
  <2>5. (k + p) % 4 = 0
    BY ONLY <2>1, <2>4
  <2> QED BY <2>1, <2>3, <2>5 DEF Padding
<1>15. c.ok /\ c.size = size
  BY <1>10 DEF Wrote
<1>16. r = IF k + p <= size THEN Gen(c, Zeros(p)) ELSE c
  BY <1>1, <1>4, <1>6, <1>8, <1>11, <1>14, <1>15 DEF GenChunk, MakeSpace
<1>17. CASE k + p <= size
  <2>1. Zeros(p) \in Seq(Octet) /\ Len(Zeros(p)) = p
    BY ZerosLen
  <2>2. PICK z : z = Zeros(p) /\ z \in Seq(Octet) /\ Len(z) = p /\ k + Len(z) <= size
    BY <1>17, <2>1
  <2>3. Wrote(Gen(c, z), k + Len(z), size) /\ Keeps(Gen(c, z), c)
    <3>1. k \in Nat
      BY <1>9
    <3> QED BY <1>10, <2>2, <3>1, GenWrote
  <2>4. r = Gen(c, z)
    BY <1>16, <1>17, <2>2
  <2>5. Wrote(r, k + p, size) /\ n + 8 <= k + p /\ k + p \in Nat
    BY <1>2, <1>9, <2>2, <2>3, <2>4
  <2>6. Keeps(r, e)
    <3>1. n + f \in Nat /\ k \in Nat /\ n + f <= k
      BY <1>1, <1>2, <1>9
    <3>2. Keeps(r, c)
      BY <2>3, <2>4
    <3> QED BY <1>11, <1>13, <3>1, <3>2, KeepsOn
  <2>7. Spells(r.data, n + f, k + p, text)
    <3>1. Lies(r.data, n + f, text)
      <4>0. PICK kp : kp = k + p
        OBVIOUS
      <4>1. /\ Wrote(c, k, size) /\ Wrote(r, kp, size) /\ k \in Nat /\ kp \in Nat /\ k <= kp
            /\ Keeps(r, c)
        BY <1>9, <1>10, <2>3, <2>4, <2>5, <4>0
      <4>2. Lies(c.data, n + f, text) /\ text \in Seq(Octet)
        BY <1>21, <1>22
      <4> QED BY ONLY <4>1, <4>2, LiesKept
    <3>2. n + f + Len(text) = k
      BY <1>1, <1>2, <1>9, <1>21
    <3>3. \A i \in k + 1 .. k + p : r.data[i] = 0
      <4> SUFFICES ASSUME NEW i \in k + 1 .. k + p PROVE r.data[i] = 0
        OBVIOUS
      <4>1. \A j \in 1 .. p : r.data[k + j] = z[j]
        <5>1. k \in Nat
          BY <1>9
        <5>2. Lies(Gen(c, z).data, k, z)
          BY <1>10, <2>2, <5>1, GenLies
        <5>3. \A j \in 1 .. Len(z) : r.data[k + j] = z[j]
          BY <2>4, <5>2 DEF Lies
        <5> QED BY <2>2, <5>3
      <4>2. i - k \in 1 .. p /\ k + (i - k) = i
        BY <1>9
      <4>3. z[i - k] = 0
        BY <2>2, <4>2 DEF Zeros
      <4> QED BY <4>1, <4>2, <4>3
    <3>4. k <= k + p /\ k + p <= k + 4
      <4>1. p \in 1 .. 4 /\ k \in Nat
        BY <1>9, <1>14
      <4> QED BY ONLY <4>1
    <3> QED BY <1>21, <3>1, <3>2, <3>3, <3>4 DEF Spells
  <2>8. Spells(r.data, n + 4, k + p, ChunkText(ssrc, type, cname)) /\ Len(text) = 6 + m
    BY <1>1, <1>21, <2>7
  <2> QED BY <1>1, <1>14, <1>17, <1>21, <2>5, <2>6, <2>8
<1>18. CASE ~(k + p <= size)
  <2>1. k % 4 = 0 /\ n + 8 <= k /\ k <= size
    BY <1>2, <1>3, <1>9, <1>14, <1>18
  <2>2. Wrote(r, k, size) /\ Keeps(r, e)
    BY <1>10, <1>13, <1>16, <1>18
  <2>3. Spells(r.data, n + f, k, text)
    <3>1. n + f + Len(text) = k
      BY <1>1, <1>2, <1>9, <1>21
    <3>2. \A i \in k + 1 .. k : r.data[i] = 0
      BY <1>9
    <3>3. r = c
      BY <1>16, <1>18
    <3>4. k <= k /\ k <= k + 4
      BY <1>9
    <3> QED BY <1>21, <1>22, <3>1, <3>2, <3>3, <3>4 DEF Spells
  <2>4. Spells(r.data, n + 4, k, ChunkText(ssrc, type, cname)) /\ Len(text) = 6 + m
    BY <1>1, <1>21, <2>3
  <2> QED BY <1>1, <1>9, <1>21, <2>1, <2>2, <2>4
<1> QED BY <1>17, <1>18

\* The packet with the name of the server, between n and k.
Named(d, n, k, cname) ==
  /\ ParseBit(d[n + 1], 0, 5) = 1 /\ ParseBit(d[n + 1], 5, 1) = 0 /\ d[n + 2] = SDES
  /\ Spells(d, n + 4, k, ChunkText(Ssrc, CNAME, cname))
  /\ Len(ChunkText(Ssrc, CNAME, cname)) = 6 + Len(cname)

LEMMA SdesWrote ==
  ASSUME NEW n \in Nat, NEW size \in Nat, NEW e, NEW cname, n % 4 = 0, NameFits(cname),
         size = n + 12 + Len(cname), Wrote(e, n, size), NEW g, g = GenSdes(e, cname)
  PROVE  \E k \in Nat : /\ Wrote(g, k, size) /\ Put(g.data, n, k) /\ Keeps(g, e)
                        /\ Named(g.data, n, k, cname)
<1>1. PICK m : m = Len(cname) /\ m \in Nat /\ m <= 255
  BY LenProperties DEF NameFits
<1>2. size = n + 12 + m
  BY <1>1
<1>3. PICK h, rc, pt : h = GenRtcpHeader(e, rc, pt) /\ rc = 1 /\ pt = 202
  OBVIOUS
<1>4. /\ Wrote(h, n + 4, size) /\ Keeps(h, e) /\ IsVerValid(h.data[n + 1])
      /\ ParseBit(h.data[n + 1], 5, 1) = 0 /\ h.data[n + 2] = pt
      /\ ParseBit(h.data[n + 1], 0, 5) = rc
  <2>1. n + 4 <= size /\ rc \in 0 .. 2 ^ 5 - 1 /\ pt \in Octet
    BY <1>1, <1>2, <1>3 DEF Octet
  <2>2. Headed(h, e, n, size, rc, pt)
    BY <1>3, <2>1, HeaderWrote
  <2> QED BY <2>2 DEF Headed
<1>5. Ssrc \in Seq(Octet) /\ Len(Ssrc) = 4 /\ CNAME \in Octet
  BY FormatAssumption DEF CNAME, Octet
<1>6. PICK c : c = GenChunk(h, Ssrc, CNAME, cname)
  OBVIOUS
<1>17. PICK text : text = ChunkText(Ssrc, CNAME, cname)
  OBVIOUS
<1>7. PICK k \in Nat : /\ n + 8 <= k /\ k <= size /\ k % 4 = 0 /\ Wrote(c, k, size) /\ Keeps(c, h)
                       /\ Spells(c.data, n + 4, k, text) /\ Len(text) = 6 + Len(cname)
  <2>1. Wrote(h, n + 4, size)
    BY <1>4
  <2>2. \E k \in Nat : /\ n + 8 <= k /\ k <= size /\ k % 4 = 0
                       /\ Wrote(c, k, size) /\ Keeps(c, h)
                       /\ Spells(c.data, n + 4, k, ChunkText(Ssrc, CNAME, cname))
                       /\ Len(ChunkText(Ssrc, CNAME, cname)) = 6 + Len(cname)
    BY <1>5, <1>6, <2>1, ChunkWrote
  <2> QED BY <1>17, <2>2
<1>8. Len(e.data) = n /\ Len(h.data) = n + 4
  BY <1>4 DEF Wrote
<1>9. \A i \in 1 .. n + 4 : c.data[i] = h.data[i]
  BY <1>7, <1>8 DEF Keeps
<1>10. n + 1 \in 1 .. n + 4 /\ n + 2 \in 1 .. n + 4
  OBVIOUS
<1>11. /\ IsVerValid(c.data[n + 1]) /\ ParseBit(c.data[n + 1], 5, 1) = 0
       /\ IsRtcpPt(c.data[n + 2]) /\ ParseBit(c.data[n + 1], 0, 5) = 1 /\ c.data[n + 2] = SDES
  BY <1>3, <1>4, <1>9, <1>10 DEF IsRtcpPt, SDES
<1>12. g = FinishRtcp(c, n)
  BY <1>3, <1>6, <1>8 DEF GenSdes, SDES
<1>13. n + 4 <= k /\ k - n <= 400
  BY <1>1, <1>2, <1>7
<1>14. /\ Wrote(g, k, size) /\ Put(g.data, n, k)
       /\ \A i \in 1 .. n + 2 : g.data[i] = c.data[i]
       /\ \A i \in 1 .. k : i = n + 3 \/ i = n + 4 \/ g.data[i] = c.data[i]
  <2>1. /\ n \in Nat /\ k \in Nat /\ size \in Nat /\ Wrote(c, k, size) /\ n % 4 = 0 /\ k % 4 = 0
        /\ n + 4 <= k /\ k - n <= 400 /\ g = FinishRtcp(c, n)
    BY <1>7, <1>12, <1>13
  <2>2. IsVerValid(c.data[n + 1]) /\ ParseBit(c.data[n + 1], 5, 1) = 0 /\ IsRtcpPt(c.data[n + 2])
    BY <1>11
  <2> QED BY ONLY <2>1, <2>2, FinishWrote
<1>15. Keeps(g, e)
  <2> SUFFICES ASSUME NEW i \in 1 .. n PROVE g.data[i] = e.data[i]
    BY <1>8 DEF Keeps
  <2>1. i \in 1 .. n + 2 /\ i \in 1 .. n + 4 /\ i \in 1 .. Len(e.data)
    BY <1>8
  <2>2. h.data[i] = e.data[i]
    BY <1>4, <2>1 DEF Keeps
  <2> QED BY <1>9, <1>14, <2>1, <2>2
<1>16. Spells(g.data, n + 4, k, text)
  <2>1. PICK l, b : l = Len(text) /\ l \in Nat /\ b = n + 4
    BY <1>1, <1>7
  <2>2. /\ text \in Seq(Octet) /\ b + l <= Len(c.data) /\ \A i \in 1 .. l : c.data[b + i] = text[i]
        /\ b + l <= k /\ k <= b + l + 4 /\ \A i \in b + l + 1 .. k : c.data[i] = 0
    BY <1>7, <2>1 DEF Spells, Lies
  <2>3. Len(g.data) = k /\ b \in Nat
    BY <1>14, <2>1 DEF Wrote
  <2>4. \A i \in 1 .. l : g.data[b + i] = text[i]
    <3> SUFFICES ASSUME NEW i \in 1 .. l PROVE g.data[b + i] = text[i]
      OBVIOUS
    <3>1. b + i \in 1 .. k /\ b + i # n + 3 /\ b + i # n + 4
      BY <2>1, <2>2
    <3> QED BY <1>14, <2>2, <3>1
  <2>5. \A i \in b + l + 1 .. k : g.data[i] = 0
    <3> SUFFICES ASSUME NEW i \in b + l + 1 .. k PROVE g.data[i] = 0
      OBVIOUS
    <3>1. i \in 1 .. k /\ i # n + 3 /\ i # n + 4
      BY <2>1
    <3> QED BY <1>14, <2>2, <3>1
  <2>6. Lies(g.data, b, text)
    BY <2>1, <2>2, <2>3, <2>4 DEF Lies
  <2> QED BY <2>1, <2>2, <2>5, <2>6 DEF Spells
<1>18. Named(g.data, n, k, cname)
  <2>1. g.data[n + 1] = c.data[n + 1] /\ g.data[n + 2] = c.data[n + 2]
    <3>1. n + 1 \in 1 .. n + 2 /\ n + 2 \in 1 .. n + 2
      OBVIOUS
    <3> QED BY <1>14, <3>1
  <2> QED BY <1>7, <1>11, <1>16, <1>17, <2>1 DEF Named
<1> QED BY <1>14, <1>15, <1>18

\* A report of size octets, and the name of the server behind it.
Reported(e, pt, size, cname) ==
  /\ e.ok /\ e.data \in Seq(Octet) /\ Put(e.data, 0, size) /\ e.data[2] = pt
  /\ IF cname = <<>> THEN Len(e.data) = size ELSE Put(e.data, size, Len(e.data))

\* A packet between b and e has a count, a type and, before its padding, the octets q.
Holds(d, b, e, rc, pt, q) ==
  /\ ParseBit(d[b + 1], 0, 5) = rc /\ d[b + 2] = pt
  /\ q \in Seq(Octet) /\ Lies(d, b + 4, q) /\ e - b - 4 - PadAt(d, b, e) = Len(q)

LEMMA HoldsOn ==
  ASSUME NEW d, NEW b, NEW e, Put(d, b, e), NEW rc, NEW pt, NEW q, Holds(d, b, e, rc, pt, q),
         NEW c, NEW l \in Nat, NEW n \in Nat, Len(d) = l, Len(c) = n, l <= n,
         \A k \in 1 .. l : c[k] = d[k]
  PROVE  Holds(c, b, e, rc, pt, q)
<1>1. b \in Nat /\ e \in Nat /\ b + 4 <= e /\ e <= l
  BY DEF Put
<1>2. b + 1 \in 1 .. l /\ b + 2 \in 1 .. l /\ e \in 1 .. l
  BY <1>1
<1>3. c[b + 1] = d[b + 1] /\ c[b + 2] = d[b + 2] /\ c[e] = d[e]
  BY <1>2
<1>4. PadAt(c, b, e) = PadAt(d, b, e)
  BY <1>3 DEF PadAt
<1>5. q \in Seq(Octet) /\ Lies(d, b + 4, q)
  BY DEF Holds
<1>6. Lies(c, b + 4, q)
  BY <1>5, LiesOn
<1> QED BY <1>3, <1>4, <1>5, <1>6 DEF Holds

\* The octets of the report are where they belong, and those of the name.
Bears(e, pt, size, rc, q, cname) ==
  /\ Holds(e.data, 0, size, rc, pt, q)
  /\ cname # <<>> => Named(e.data, size, Len(e.data), cname)

LEMMA ReportsWrote ==
  ASSUME NEW pt \in {SR, RR}, NEW size \in Nat, size % 4 = 0, size <= 400, NEW rc \in 0 .. 2 ^ 5 - 1,
         NEW body \in Seq(Octet), NEW cname, 8 + Len(body) = size, NameFits(cname)
  PROVE  /\ Reported(GenReports(pt, size, rc, body, cname), pt, size, cname)
         /\ Bears(GenReports(pt, size, rc, body, cname), pt, size, rc, Ssrc \o body, cname)
<1>1. PICK m : m = Len(cname) /\ m \in Nat
  BY LenProperties DEF NameFits
<1>2. PICK b : b = Len(body) /\ b \in Nat
  BY LenProperties
<1>3. PICK total \in Nat : total = IF cname = <<>> THEN size ELSE size + CalcSdesLen(cname)
  BY <1>1 DEF CalcSdesLen
<1>4. cname # <<>> => total = size + 12 + m
  BY <1>1, <1>3 DEF CalcSdesLen
<1>5. size <= total
  BY <1>1, <1>3, <1>4
<1>6. PICK s : s = Encoder(total) /\ Wrote(s, 0, total)
  BY EncoderWrote
<1>7. PICK h, f : h = GenRtcpHeader(s, rc, pt) /\ f = 4
  OBVIOUS
<1>8. PICK z \in Nat : z = 0
  OBVIOUS
<1>9. pt \in Octet /\ IsRtcpPt(pt)
  BY DEF SR, RR, Octet, IsRtcpPt
<1>10. /\ Wrote(h, z + 4, total) /\ IsVerValid(h.data[z + 1])
       /\ ParseBit(h.data[z + 1], 5, 1) = 0 /\ h.data[z + 2] = pt
       /\ ParseBit(h.data[z + 1], 0, 5) = rc
  <2>1. Wrote(s, z, total) /\ z + 4 <= total /\ total \in Nat
    BY <1>2, <1>5, <1>6, <1>8
  <2>2. pt \in Octet /\ rc \in 0 .. 2 ^ 5 - 1 /\ z \in Nat /\ h = GenRtcpHeader(s, rc, pt)
    BY <1>7, <1>8, <1>9
  <2>3. Headed(h, s, z, total, rc, pt)
    BY <2>1, <2>2, HeaderWrote
  <2> QED BY <2>3 DEF Headed
<1>11. Wrote(h, f, total) /\ Len(h.data) = f /\ f \in Nat
  <2>1. z + 4 = f
    BY <1>7, <1>8
  <2> QED BY <1>7, <1>10, <2>1 DEF Wrote
<1>12. PICK w : w = Ssrc \o body /\ w \in Seq(Octet) /\ Len(w) = 4 + b
  <2>1. Ssrc \in Seq(Octet) /\ Len(Ssrc) = 4
    BY FormatAssumption
  <2>2. Ssrc \o body \in Seq(Octet) /\ Len(Ssrc \o body) = Len(Ssrc) + Len(body)
    BY <2>1, ConcatOctets
  <2> QED BY <1>2, <2>1, <2>2
<1>13. PICK g : g = Gen(h, w)
  OBVIOUS
<1>14. Wrote(g, size, total) /\ Keeps(g, h) /\ Lies(g.data, f, w)
  <2>1. f + Len(w) = size /\ f + Len(w) <= total
    BY <1>2, <1>3, <1>5, <1>7, <1>12
  <2>2. Wrote(g, f + Len(w), total) /\ Keeps(g, h)
    <3>1. f \in Nat /\ f + Len(w) <= total /\ w \in Seq(Octet)
      BY <1>11, <1>12, <2>1
    <3>2. Wrote(Gen(h, w), f + Len(w), total) /\ Keeps(Gen(h, w), h)
      BY <1>3, <1>11, <3>1, GenWrote
    <3> QED BY <1>13, <3>2
  <2>3. Lies(g.data, f, w)
    <3>1. f \in Nat /\ f + Len(w) <= total /\ w \in Seq(Octet)
      BY <1>11, <1>12, <2>1
    <3>2. Lies(Gen(h, w).data, f, w)
      BY <1>3, <1>11, <3>1, GenLies
    <3> QED BY <1>13, <3>2
  <2> QED BY <2>1, <2>2, <2>3
<1>15. g.data[z + 1] = h.data[z + 1] /\ g.data[z + 2] = h.data[z + 2]
  <2>1. z + 1 \in 1 .. f /\ z + 2 \in 1 .. f
    BY <1>7, <1>8
  <2> QED BY <1>11, <1>14, <2>1 DEF Keeps
<1>16. PICK e : e = FinishRtcp(g, z)
  OBVIOUS
<1>17. /\ Wrote(e, size, total) /\ Put(e.data, z, size)
       /\ \A k \in 1 .. z + 2 : e.data[k] = g.data[k]
       /\ \A k \in 1 .. size : k = z + 3 \/ k = z + 4 \/ e.data[k] = g.data[k]
  <2>1. z % 4 = 0 /\ z + 4 <= size /\ size - z <= 400
    BY <1>2, <1>8
  <2>2. /\ IsVerValid(g.data[z + 1]) /\ ParseBit(g.data[z + 1], 5, 1) = 0
        /\ IsRtcpPt(g.data[z + 2])
    BY <1>9, <1>10, <1>15
  <2>3. total \in Nat /\ z \in Nat /\ Wrote(g, size, total) /\ e = FinishRtcp(g, z)
    BY <1>3, <1>8, <1>14, <1>16
  <2>4. z % 4 = 0 /\ size % 4 = 0 /\ z + 4 <= size /\ size - z <= 400 /\ size \in Nat
    BY <2>1
  <2>5. /\ Wrote(e, size, total) /\ Put(e.data, z, size)
        /\ \A k \in 1 .. z + 2 : e.data[k] = g.data[k]
        /\ \A k \in 1 .. size : k = z + 3 \/ k = z + 4 \/ e.data[k] = g.data[k]
    BY ONLY <2>2, <2>3, <2>4, FinishWrote
  <2> QED BY <2>5
<1>18. e.data[2] = pt
  <2>1. z + 2 \in 1 .. z + 2 /\ z + 2 = 2
    BY <1>8
  <2> QED BY <1>10, <1>15, <1>17, <2>1
<1>19. e.ok /\ e.data \in Seq(Octet) /\ Len(e.data) = size /\ Put(e.data, 0, size)
  BY <1>8, <1>17 DEF Wrote
<1>24. Holds(e.data, z, size, rc, pt, w)
  <2>1. e.data[z + 1] = h.data[z + 1] /\ e.data[z + 2] = h.data[z + 2]
    <3>1. z + 1 \in 1 .. z + 2 /\ z + 2 \in 1 .. z + 2
      BY <1>8
    <3> QED BY <1>15, <1>17, <3>1
  <2>2. ParseBit(e.data[z + 1], 0, 5) = rc /\ e.data[z + 2] = pt /\ PadAt(e.data, z, size) = 0
    BY <1>10, <2>1 DEF PadAt
  <2>3. Len(e.data) = size /\ Len(w) = size - 4 /\ z + 4 = f /\ f = 4
    BY <1>2, <1>7, <1>8, <1>12, <1>19
  <2>4. Lies(e.data, f, w)
    <3>1. PICK l : l = Len(w) /\ l = size - 4 /\ l \in Nat /\ f + l = size
      BY <1>2, <1>12, <2>3
    <3>2. \A k \in 1 .. l : g.data[f + k] = w[k]
      BY <1>14, <3>1 DEF Lies
    <3>3. \A k \in 1 .. l : e.data[f + k] = w[k]
      <4> SUFFICES ASSUME NEW k \in 1 .. l PROVE e.data[f + k] = w[k]
        OBVIOUS
      <4>1. f + k \in 1 .. size /\ f + k # z + 3 /\ f + k # z + 4
        BY <1>8, <2>3, <3>1
      <4> QED BY <1>17, <3>2, <4>1
    <3> QED BY <1>11, <2>3, <3>1, <3>3 DEF Lies
  <2>5. size - z - 4 - PadAt(e.data, z, size) = Len(w)
    BY <1>8, <2>2, <2>3
  <2> QED BY <1>12, <2>2, <2>3, <2>4, <2>5 DEF Holds
<1>20. PICK r : r = GenReports(pt, size, rc, body, cname)
  OBVIOUS
<1>21. r = IF e.ok /\ cname # <<>> THEN GenSdes(e, cname) ELSE e
  BY <1>3, <1>6, <1>7, <1>8, <1>12, <1>13, <1>16, <1>20 DEF GenReports
<1>22. CASE cname = <<>>
  <2>1. r = e
    BY <1>21, <1>22
  <2>2. Reported(r, pt, size, cname)
    BY <1>18, <1>19, <1>22, <2>1 DEF Reported
  <2>3. Bears(r, pt, size, rc, w, cname)
    BY <1>8, <1>22, <1>24, <2>1 DEF Bears
  <2> QED BY <1>12, <1>20, <2>2, <2>3
<1>23. CASE cname # <<>>
  <2>1. r = GenSdes(e, cname)
    BY <1>19, <1>21, <1>23
  <2>2. total = size + 12 + Len(cname)
    BY <1>1, <1>4, <1>23
  <2>3. PICK k \in Nat : /\ Wrote(r, k, total) /\ Put(r.data, size, k) /\ Keeps(r, e)
                         /\ Named(r.data, size, k, cname)
    <3>1. total \in Nat /\ Wrote(e, size, total) /\ NameFits(cname)
      BY <1>3, <1>17
    <3>2. \E k \in Nat : /\ Wrote(r, k, total) /\ Put(r.data, size, k) /\ Keeps(r, e)
                         /\ Named(r.data, size, k, cname)
      BY <2>1, <2>2, <3>1, SdesWrote
    <3> QED BY <3>2
  <2>4. r.ok /\ r.data \in Seq(Octet) /\ Len(r.data) = k
    BY <2>3 DEF Wrote
  <2>5. \A i \in 1 .. size : r.data[i] = e.data[i]
    BY <1>19, <2>3 DEF Keeps
  <2>6. size <= k
    BY <2>3 DEF Put
  <2>7. Put(r.data, 0, size)
    BY <1>19, <2>3, <2>4, <2>5, <2>6, PutStays
  <2>8. 2 \in 1 .. size
    BY <1>2
  <2>9. r.data[2] = pt
    BY <1>18, <2>5, <2>8
  <2>10. Holds(r.data, 0, size, rc, pt, w)
    <3>1. /\ Put(e.data, z, size) /\ Holds(e.data, z, size, rc, pt, w) /\ Len(e.data) = size
          /\ \A i \in 1 .. size : r.data[i] = e.data[i]
      BY <1>8, <1>19, <1>24, <2>5
    <3>2. Len(r.data) = k /\ size <= k
      BY <2>4, <2>6
    <3>3. Holds(r.data, z, size, rc, pt, w)
      BY <3>1, <3>2, HoldsOn
    <3> QED BY <1>8, <3>3
  <2>11. Bears(r, pt, size, rc, w, cname)
    BY <2>3, <2>4, <2>10 DEF Bears
  <2>12. Reported(r, pt, size, cname)
    BY <1>23, <2>3, <2>4, <2>7, <2>9 DEF Reported
  <2> QED BY <1>12, <1>20, <2>11, <2>12
<1> QED BY <1>20, <1>22, <1>23

LEMMA SenderReport ==
  ASSUME NEW cname, NameFits(cname)
  PROVE  /\ Reported(GenSR(cname), SR, MIN_SR_SIZE, cname)
         /\ Bears(GenSR(cname), SR, MIN_SR_SIZE, 0, Ssrc \o Zeros(20), cname)
<1>1. PICK z, n, s, rc : z = Zeros(20) /\ n = 20 /\ s = 28 /\ rc = 0
  OBVIOUS
<1>2. z \in Seq(Octet) /\ Len(z) = n
  <2>1. \A k \in Nat : Zeros(k) \in Seq(Octet) /\ Len(Zeros(k)) = k
    BY ZerosLen
  <2> QED BY <1>1, <2>1
<1>3. 8 + Len(z) = s /\ s % 4 = 0 /\ s <= 400 /\ s \in Nat /\ rc \in 0 .. 2 ^ 5 - 1
  <2>1. PICK l : l = Len(z) /\ l = 20
    BY <1>1, <1>2
  <2>2. s \in Nat /\ s % 4 = 0 /\ s <= 400 /\ rc \in 0 .. 2 ^ 5 - 1
    BY <1>1
  <2>4. s = 28
    BY <1>1
  <2>3. 8 + l = s
    BY <2>1, <2>4
  <2> QED BY <2>1, <2>2, <2>3
<1>4. /\ Reported(GenReports(SR, s, rc, z, cname), SR, s, cname)
      /\ Bears(GenReports(SR, s, rc, z, cname), SR, s, rc, Ssrc \o z, cname)
  BY <1>2, <1>3, ReportsWrote
<1> QED BY <1>1, <1>4 DEF GenSR, MIN_SR_SIZE

LEMMA ReceiverReport ==
  ASSUME NEW cname, NameFits(cname), NEW lost \in Int
  PROVE  /\ Reported(GenRR(Report(Ssrc, lost), cname), RR, MIN_RR_SIZE, cname)
         /\ Bears(GenRR(Report(Ssrc, lost), cname), RR, MIN_RR_SIZE, 1,
                  Ssrc \o ReportBlk(Report(Ssrc, lost)), cname)
<1>1. PICK a, b, c, d, o : /\ a = Ssrc /\ b = <<0>> /\ o = OctetsOf(lost, 3)
                           /\ d = Zeros(16) /\ c = ReportBlk(Report(Ssrc, lost))
  OBVIOUS
<1>2. /\ a \in Seq(Octet) /\ Len(a) = 4 /\ b \in Seq(Octet) /\ Len(b) = 1
      /\ o \in Seq(Octet) /\ Len(o) = 3 /\ d \in Seq(Octet) /\ Len(d) = 16
  <2>1. b \in Seq(Octet) /\ Len(b) = 1
    <3>1. PICK z : z = 0 /\ z \in Octet
      BY DEF Octet
    <3> QED BY <1>1, <3>1, OneSeq
  <2>2. \A n \in Nat : Zeros(n) \in Seq(Octet) /\ Len(Zeros(n)) = n
    BY ZerosLen
  <2>3. o \in Seq(Octet) /\ Len(o) = 3
    BY <1>1, ThreeOctetsIn
  <2> QED BY <1>1, <2>1, <2>2, <2>3, FormatAssumption
<1>3. c = ((a \o b) \o o) \o d
  BY <1>1 DEF ReportBlk, Report
<1>4. a \o b \in Seq(Octet) /\ Len(a \o b) = 5
  <2>1. a \o b \in Seq(Octet) /\ Len(a \o b) = Len(a) + Len(b)
    BY <1>2, ConcatOctets
  <2> QED BY <1>2, <2>1
<1>5. (a \o b) \o o \in Seq(Octet) /\ Len((a \o b) \o o) = 8
  <2>1. PICK ab : ab = a \o b
    OBVIOUS
  <2>2. ab \o o \in Seq(Octet) /\ Len(ab \o o) = Len(ab) + Len(o)
    BY <1>2, <1>4, <2>1, ConcatOctets
  <2> QED BY <1>2, <1>4, <2>1, <2>2
<1>6. c \in Seq(Octet) /\ Len(c) = 24
  <2>1. PICK abo : abo = (a \o b) \o o
    OBVIOUS
  <2>2. abo \o d \in Seq(Octet) /\ Len(abo \o d) = Len(abo) + Len(d)
    BY <1>2, <1>5, <2>1, ConcatOctets
  <2> QED BY <1>2, <1>3, <1>5, <2>1, <2>2
<1>7. PICK s, rc : s = 32 /\ rc = 1
  OBVIOUS
<1>8. 8 + Len(c) = s /\ s % 4 = 0 /\ s <= 400 /\ s \in Nat /\ rc \in 0 .. 2 ^ 5 - 1
  BY <1>6, <1>7
<1>9. /\ Reported(GenReports(RR, s, rc, c, cname), RR, s, cname)
      /\ Bears(GenReports(RR, s, rc, c, cname), RR, s, rc, Ssrc \o c, cname)
  BY <1>6, <1>8, ReportsWrote
<1> QED BY <1>1, <1>7, <1>9 DEF GenRR, MIN_RR_SIZE

-----------------------------------------------------------------------------
(* What the reader makes of a packet                                       *)

\* Of a packet that arrived in full it takes the type, and it goes on where the packet
\* ends; of one that did not it takes nothing.
LEMMA ReadPacket ==
  ASSUME NEW d \in Seq(Octet), NEW b, NEW e, Put(d, b, e), NEW n \in Nat, b <= n, n <= Len(d),
         NEW a, Cut(d, n, a), NEW r, r = ParseRtcpPkg(a, b)
  PROVE  /\ e <= n => /\ r # Bad /\ r.pt = d[b + 2] /\ r.next = e
                      /\ r.rc = ParseBit(d[b + 1], 0, 5)
                      /\ r.payload = Field(a, b + 4, e - b - 4 - PadAt(d, b, e))
                      /\ PadAt(d, b, e) \in 0 .. e - b - 4
         /\ e > n => r = Bad
         /\ b = 0 => (IsRtcpHeader(a) <=> e <= n)
<1>1. b \in Nat /\ e \in Nat /\ b + 4 <= e /\ e <= Len(d)
  BY DEF Put
<1>2. a \in Seq(Octet) /\ Len(a) = n /\ \A k \in 1 .. n : a[k] = d[k]
  BY DEF Cut
<1>3. PICK s, t, v, w : /\ s = e - b - 4 /\ t = Field(a, b + 2, 2) /\ v = Num(t)
                        /\ w = PadLen(a, b, 4 * v)
  OBVIOUS
<1>4. b + 4 <= n => /\ a[b + 1] = d[b + 1] /\ a[b + 2] = d[b + 2] /\ 4 * v = s
                    /\ IsVerValid(a[b + 1]) /\ IsRtcpPt(a[b + 2])
  <2> SUFFICES ASSUME b + 4 <= n
               PROVE  /\ a[b + 1] = d[b + 1] /\ a[b + 2] = d[b + 2] /\ 4 * v = s
                      /\ IsVerValid(a[b + 1]) /\ IsRtcpPt(a[b + 2])
    OBVIOUS
  <2>1. PICK i, j \in Nat : i = b + 2 /\ j = b + 2 + 2
    BY <1>1
  <2>2. i \in Nat /\ j \in Nat /\ i <= j /\ j <= Len(a) /\ j - i = 2
    BY <1>1, <1>2, <2>1
  <2>3. t = SubSeq(a, i + 1, j)
    BY <1>3, <2>1 DEF Field
  <2>4. \A k \in 1 .. j - i : t[k] = a[i + k]
    BY <1>2, <2>2, <2>3, SubSeqOctets
  <2>5. t[1] = a[i + 1] /\ t[2] = a[i + 2]
    <3>1. 1 \in 1 .. j - i /\ 2 \in 1 .. j - i
      BY <2>2
    <3> QED BY <2>4, <3>1
  <2>6. /\ b + 1 \in 1 .. n /\ b + 2 \in 1 .. n /\ i + 1 \in 1 .. n /\ i + 2 \in 1 .. n
        /\ i + 1 = b + 3 /\ i + 2 = b + 4
    BY <1>1, <2>1
  <2>7. a[b + 1] = d[b + 1] /\ a[b + 2] = d[b + 2] /\ t[1] = d[b + 3] /\ t[2] = d[b + 4]
    BY <1>2, <2>5, <2>6
  <2>8. b + 4 + 4 * v = e
    BY <1>3, <2>7 DEF Put, Num
  <2>9. 4 * v = s
    <3>1. d[b + 3] \in Octet /\ d[b + 4] \in Octet
      <4>1. b + 3 \in 1 .. Len(d) /\ b + 4 \in 1 .. Len(d)
        <5>1. Len(d) \in Nat
          BY LenProperties
        <5> QED BY <1>1, <5>1
      <4> QED BY <4>1, ElementOfSeq
    <3>2. \A u \in Octet : u \in Nat
      BY DEF Octet
    <3>3. PICK x, y : x = d[b + 3] /\ y = d[b + 4] /\ x \in Nat /\ y \in Nat
      BY <3>1, <3>2
    <3>4. v = 256 * x + y
      BY <1>3, <2>7, <3>3 DEF Num
    <3>5. v \in Nat
      BY <3>3, <3>4
    <3> QED BY <1>1, <1>3, <2>8, <3>5
  <2> QED BY <2>7, <2>9 DEF Put
<1>5. r = IF /\ b + 4 <= n /\ IsVerValid(a[b + 1]) /\ IsRtcpPt(a[b + 2])
             /\ b + 4 + 4 * v <= n /\ w <= 4 * v
          THEN [pt |-> a[b + 2], rc |-> ParseBit(a[b + 1], 0, 5),
                payload |-> Field(a, b + 4, 4 * v - w), next |-> b + 4 + 4 * v]
          ELSE Bad
  BY <1>2, <1>3 DEF ParseRtcpPkg, Left, MIN_RTCP_HDR_SIZE
<1>6. e = b + 4 + s /\ s \in Nat
  BY <1>1, <1>3
<1>7. ASSUME e <= n
      PROVE  /\ r # Bad /\ r.pt = d[b + 2] /\ r.next = e
             /\ r.rc = ParseBit(d[b + 1], 0, 5)
             /\ r.payload = Field(a, b + 4, e - b - 4 - PadAt(d, b, e))
             /\ PadAt(d, b, e) \in 0 .. e - b - 4
  <2>1. b + 4 <= n
    BY <1>1, <1>7
  <2>10. w \in Nat /\ w <= s /\ w = PadAt(d, b, e)
    <3>1. w = IF ParseBit(d[b + 1], 5, 1) = 1 THEN a[b + 4 + s] ELSE 0
      BY <1>3, <1>4, <2>1 DEF PadLen
    <3>2. CASE ParseBit(d[b + 1], 5, 1) = 1
      <4>1. e \in 1 .. n /\ e \in 1 .. Len(a)
        BY <1>1, <1>2, <1>7
      <4>2. w = a[e] /\ a[e] = d[e] /\ a[e] \in Octet
        BY <1>2, <1>6, <3>1, <3>2, <4>1, ElementOfSeq
      <4>3. d[e] <= s
        BY <1>3, <3>2 DEF Put
      <4>4. \A u \in Octet : u \in Nat
        BY DEF Octet
      <4> QED BY <3>2, <4>2, <4>3, <4>4 DEF PadAt
    <3>3. CASE ParseBit(d[b + 1], 5, 1) # 1
      BY <1>6, <3>1, <3>3 DEF PadAt
    <3> QED BY <3>2, <3>3
  <2>2. w \in Nat /\ w <= s
    BY <2>10
  <2>3. r = [pt |-> d[b + 2], rc |-> ParseBit(d[b + 1], 0, 5),
             payload |-> Field(a, b + 4, s - w), next |-> e]
    <3>1. 4 * v = s
      BY <1>4, <2>1
    <3>2. b + 4 + 4 * v <= n /\ w <= 4 * v /\ b + 4 + 4 * v = e
      BY <1>6, <1>7, <2>2, <3>1
    <3>3. a[b + 1] = d[b + 1] /\ a[b + 2] = d[b + 2] /\ IsVerValid(a[b + 1]) /\ IsRtcpPt(a[b + 2])
      BY <1>4, <2>1
    <3> QED BY <1>5, <2>1, <3>1, <3>2, <3>3
  <2>4. d[b + 1] \in Octet /\ d[b + 2] \in Octet
    <3>1. b + 1 \in 1 .. Len(d) /\ b + 2 \in 1 .. Len(d)
      <4>1. Len(d) \in Nat
        BY LenProperties
      <4> QED BY <1>1, <4>1
    <3> QED BY <3>1, ElementOfSeq
  <2>5. Field(a, b + 4, s - w) \in Seq(Octet)
    <3>1. PICK i, j \in Nat : i = b + 4 /\ j = b + 4 + (s - w)
      BY <1>1, <1>6, <2>2
    <3>2. i \in Nat /\ j \in Nat /\ i <= j /\ j <= Len(a)
      BY <1>2, <1>6, <1>7, <2>2, <3>1
    <3>3. SubSeq(a, i + 1, j) \in Seq(Octet)
      BY <1>2, <3>2, SubSeqOctets
    <3> QED BY <3>1, <3>3 DEF Field
  <2>6. ParseBit(d[b + 1], 0, 5) \in 0 .. 2 ^ 5 - 1
    <3>1. PICK u : u = d[b + 1] /\ u \in Octet
      BY <2>4
    <3>2. u \in Nat
      BY <3>1 DEF Octet
    <3>3. ParseBit(u, 0, 5) = u % 32
      BY <3>2 DEF ParseBit
    <3>4. u % 32 \in 0 .. 2 ^ 5 - 1
      BY <3>2
    <3> QED BY <3>1, <3>3, <3>4
  <2>7. r \in RtcpPkg
    <3>1. PICK x, y, z : /\ x = d[b + 2] /\ y = ParseBit(d[b + 1], 0, 5)
                         /\ z = Field(a, b + 4, s - w)
      OBVIOUS
    <3>2. /\ x \in Octet /\ y \in 0 .. 2 ^ 5 - 1 /\ z \in Seq(Octet) /\ e \in Nat
          /\ r = [pt |-> x, rc |-> y, payload |-> z, next |-> e]
      BY <1>1, <2>3, <2>4, <2>5, <2>6, <3>1
    <3>3. PICK R, S : R = 0 .. 2 ^ 5 - 1 /\ S = Seq(Octet)
      OBVIOUS
    <3>4. r \in [pt : Octet, rc : R, payload : S, next : Nat]
      BY ONLY <3>2, <3>3
    <3> QED BY <3>3, <3>4 DEF RtcpPkg
  <2>8. PadAt(d, b, e) \in 0 .. e - b - 4 /\ s - w = e - b - 4 - PadAt(d, b, e)
    BY <1>3, <1>6, <2>10
  <2>9. r # Bad
    BY <2>7, FormatAssumption
  <2> QED BY <2>3, <2>8, <2>9
<1>8. ASSUME e > n PROVE r = Bad
  <2>1. PICK x : x = 4 * v /\ (b + 4 <= n => x = s)
    BY <1>4
  <2>2. ~(b + 4 <= n /\ b + 4 + x <= n)
    <3>1. b \in Nat /\ e \in Nat /\ n \in Nat
      BY <1>1
    <3> QED BY ONLY <1>6, <1>8, <2>1, <3>1
  <2> QED BY <1>5, <2>1, <2>2
<1>9. ASSUME b = 0 PROVE IsRtcpHeader(a) <=> e <= n
  <2>1. PICK p, q : p = b + 1 /\ q = b + 2
    OBVIOUS
  <2>2. p = 1 /\ q = 2 /\ b + 4 = 4
    BY <1>9, <2>1
  <2>3. IsRtcpHeader(a) <=> /\ b + 4 <= n /\ IsVerValid(a[p]) /\ IsRtcpPt(a[q])
                            /\ b + 4 + 4 * v <= n
    <3>1. Field(a, 2, 2) = t
      BY <1>3, <1>9
    <3>2. IsRtcpHeader(a) <=> /\ 0 + 4 <= n /\ IsVerValid(a[1]) /\ IsRtcpPt(a[2])
                              /\ 4 + 4 * v <= n
      BY <1>2, <1>3, <3>1 DEF IsRtcpHeader, Left, MIN_RTCP_HDR_SIZE
    <3> QED BY <1>9, <2>2, <3>2
  <2>4. b + 4 <= n => IsVerValid(a[p]) /\ IsRtcpPt(a[q]) /\ 4 * v = s
    BY <1>4, <2>1
  <2> QED BY <1>1, <1>6, <2>3, <2>4
<1> QED BY <1>7, <1>8, <1>9

-----------------------------------------------------------------------------
(* What the peer writes                                                    *)

LEMMA ShortPads ==
  ASSUME NEW pad \in Octet, pad # 0
  PROVE  LET q == Zeros(pad - 1) \o <<pad>>
         IN q \in Seq(Octet) /\ Len(q) = pad /\ q[pad] = pad
<1>1. PICK z, q, m : z = Zeros(m) /\ q = z \o <<pad>> /\ m = pad - 1
  OBVIOUS
<1>2. pad \in Nat /\ m \in Nat /\ m + 1 = pad
  <2>1. pad \in Nat
    BY DEF Octet
  <2> QED BY <1>1, <2>1
<1>3. z \in Seq(Octet) /\ Len(z) = m
  BY <1>1, <1>2, ZerosLen
<1>4. PICK o, l : o = <<pad>> /\ l = 1 /\ o \in Seq(Octet) /\ Len(o) = l /\ o[l] = pad
  BY OneSeq
<1>5. /\ z \o o \in Seq(Octet) /\ Len(z \o o) = Len(z) + Len(o)
      /\ \A k \in 1 .. Len(o) : (z \o o)[Len(z) + k] = o[k]
  BY <1>3, <1>4, ConcatOctets
<1>6. q = z \o o /\ Len(z) + l = pad /\ l \in 1 .. Len(o)
  BY <1>1, <1>2, <1>3, <1>4
<1>7. q \in Seq(Octet) /\ Len(q) = pad /\ q[pad] = pad
  BY <1>4, <1>5, <1>6
<1> QED BY <1>1, <1>7

\* A packet of a peer, alone.
LEMMA PeerPacket ==
  ASSUME NEW p \in Packets, NEW pad \in Pads, NEW c, c = PacketOctets(p, pad)
  PROVE  /\ c \in Seq(Octet) /\ Put(c, 0, Len(c)) /\ c[2] = p.pt
         /\ Holds(c, 0, Len(c), Count(p), p.pt, BodyOctets(p))
<1>1. PICK s, q, u, v, f, flag, l :
        /\ s = BodyOctets(p) /\ q = (IF pad = 0 THEN <<>> ELSE Zeros(pad - 1) \o <<pad>>)
        /\ u = s \o q /\ l = Len(s) /\ v = Len(u) \div 4
        /\ flag = (IF pad = 0 THEN 0 ELSE 1)
        /\ f = GenBit(GenBit(DEF_RTP_VERSION, 1, flag), 5, Count(p))
  OBVIOUS
<1>2. /\ IsRtcpPt(p.pt) /\ Count(p) \in 0 .. 2 ^ 5 - 1 /\ s \in Seq(Octet) /\ l % 4 = 0
      /\ (l + pad) \div 4 \in Word /\ pad \in Octet /\ pad % 4 = 0
  BY <1>1, PeerAssumption
<1>3. l \in Nat /\ pad \in Nat
  BY <1>1, <1>2, LenProperties DEF Octet
<1>4. q \in Seq(Octet) /\ Len(q) = pad /\ (pad # 0 => q[pad] = pad)
  <2>1. CASE pad = 0
    BY <1>1, <2>1, EmptySeq
  <2>2. CASE pad # 0
    BY <1>1, <1>2, <2>2, ShortPads
  <2> QED BY <2>1, <2>2
<1>5. /\ u \in Seq(Octet) /\ Len(u) = l + pad
      /\ pad # 0 => u[l + pad] = pad
  <2>1. /\ u \in Seq(Octet) /\ Len(u) = Len(s) + Len(q)
        /\ \A k \in 1 .. Len(q) : u[Len(s) + k] = q[k]
    BY <1>1, <1>2, <1>4, ConcatOctets
  <2>2. pad # 0 => pad \in 1 .. pad
    BY <1>3
  <2> QED BY <1>1, <1>4, <2>1, <2>2
<1>6. v \in Word /\ 4 * v = l + pad
  <2>1. v = (l + pad) \div 4
    BY <1>1, <1>5
  <2>2. (l + pad) % 4 = 0
    BY <1>2, <1>3
  <2>3. 4 * v = l + pad
    BY <1>3, <2>1, <2>2
  <2> QED BY <1>2, <2>1, <2>3
<1>7. f \in Octet /\ IsVerValid(f) /\ ParseBit(f, 5, 1) = flag /\ ParseBit(f, 0, 5) = Count(p)
  <2>1. flag \in {0, 1}
    BY <1>1
  <2> QED BY <1>1, <1>2, <2>1, RtcpBits
<1>8. p.pt \in Octet
  BY <1>2 DEF IsRtcpPt, Octet
<1>9. PICK x, y, a, b : x = <<f, p.pt>> /\ y = OctetsOf(v, 2) /\ a = x \o y /\ b = a \o u
  OBVIOUS
<1>10. x \in Seq(Octet) /\ Len(x) = 2 /\ x[1] = f /\ x[2] = p.pt
  <2>1. x \in Seq(Octet) /\ Len(x) = 2
    BY <1>7, <1>8, <1>9, TwoSeq
  <2> QED BY <1>9, <2>1
<1>11. y \in Seq(Octet) /\ Len(y) = 2 /\ 256 * y[1] + y[2] = v
  <2>1. Num(y) = v
    BY <1>6, <1>9, TwoOctets
  <2>2. v \in Nat
    BY <1>6 DEF Word
  <2> QED BY <1>9, <2>1, <2>2, TwoOctetsIn DEF Num
<1>12. /\ a \in Seq(Octet) /\ Len(a) = 4 /\ a[1] = f /\ a[2] = p.pt
       /\ 256 * a[3] + a[4] = v
  <2>1. /\ a \in Seq(Octet) /\ Len(a) = Len(x) + Len(y)
        /\ \A k \in 1 .. Len(x) : a[k] = x[k]
        /\ \A k \in 1 .. Len(y) : a[Len(x) + k] = y[k]
    BY <1>9, <1>10, <1>11, ConcatOctets
  <2>2. PICK i, j : i = 1 /\ j = 2
    OBVIOUS
  <2>3. i \in 1 .. Len(x) /\ j \in 1 .. Len(x) /\ i \in 1 .. Len(y) /\ j \in 1 .. Len(y)
    BY <1>10, <1>11, <2>2
  <2>4. a[i] = x[i] /\ a[j] = x[j] /\ a[Len(x) + i] = y[i] /\ a[Len(x) + j] = y[j]
    BY <2>1, <2>3
  <2>5. Len(x) + i = 3 /\ Len(x) + j = 4 /\ Len(a) = 4
    BY <1>10, <1>11, <2>1, <2>2
  <2> QED BY <1>10, <1>11, <2>1, <2>2, <2>4, <2>5
<1>13. /\ b \in Seq(Octet) /\ Len(b) = 4 + l + pad
       /\ b[1] = f /\ b[2] = p.pt /\ 256 * b[3] + b[4] = v
       /\ pad # 0 => b[4 + l + pad] = pad
  <2>1. /\ b \in Seq(Octet) /\ Len(b) = Len(a) + Len(u)
        /\ \A k \in 1 .. Len(a) : b[k] = a[k]
        /\ \A k \in 1 .. Len(u) : b[Len(a) + k] = u[k]
    BY <1>5, <1>9, <1>12, ConcatOctets
  <2>2. 1 \in 1 .. Len(a) /\ 2 \in 1 .. Len(a) /\ 3 \in 1 .. Len(a) /\ 4 \in 1 .. Len(a)
    BY <1>12
  <2>3. b[1] = a[1] /\ b[2] = a[2] /\ b[3] = a[3] /\ b[4] = a[4]
    BY <2>1, <2>2
  <2>4. Len(b) = 4 + l + pad
    BY <1>3, <1>5, <1>12, <2>1
  <2>5. pad # 0 => l + pad \in 1 .. Len(u) /\ Len(a) + (l + pad) = 4 + l + pad
    BY <1>3, <1>5, <1>12
  <2>6. pad # 0 => b[4 + l + pad] = pad
    BY <1>5, <2>1, <2>5
  <2> QED BY <1>12, <2>1, <2>3, <2>4, <2>6
<1>14. c = b
  BY <1>1, <1>9 DEF PacketOctets
<1>15. PICK n, z : n = 4 + l + pad /\ z = 0 /\ n \in Nat /\ z \in Nat /\ Len(b) = n
  BY <1>3, <1>13
<1>16. ParseBit(b[1], 5, 1) = 1 => b[n] <= n - z - 4
  <2>1. ParseBit(b[1], 5, 1) = 1 => pad # 0
    BY <1>1, <1>7, <1>13
  <2>2. pad <= n - z - 4
    BY <1>3, <1>15
  <2> QED BY <1>13, <1>15, <2>1, <2>2
<1>17. z + 4 + 4 * (256 * b[3] + b[4]) = n
  BY <1>3, <1>6, <1>13, <1>15
<1>18. Put(b, z, n)
  <2>1. z + 1 = 1 /\ z + 2 = 2 /\ z + 3 = 3 /\ z + 4 = 4
    BY <1>15
  <2>2. z + 4 <= n /\ n <= Len(b)
    BY <1>3, <1>15
  <2>3. IsVerValid(b[z + 1]) /\ IsRtcpPt(b[z + 2])
    BY <1>2, <1>7, <1>13, <2>1
  <2>4. ParseBit(b[z + 1], 5, 1) = 1 => b[n] <= n - z - 4
    BY <1>16, <2>1
  <2>5. z + 4 + 4 * (256 * b[z + 3] + b[z + 4]) = n
    BY <1>17, <2>1
  <2> QED BY <1>15, <2>2, <2>3, <2>4, <2>5 DEF Put
<1>19. Lies(b, z + 4, s)
  <2>1. u \in Seq(Octet) /\ Lies(u, 0, s)
    <3>1. s \in Seq(Octet) /\ q \in Seq(Octet) /\ u = s \o q /\ l = Len(s)
      BY <1>1, <1>2, <1>4
    <3> QED BY ONLY <3>1, LiesConcat
  <2>2. PICK four : four = 4 /\ four = Len(a)
    BY <1>12
  <2>3. Lies(b, four, u)
    <3>1. a \in Seq(Octet) /\ u \in Seq(Octet) /\ b = a \o u /\ four = Len(a)
      BY <1>5, <1>9, <1>12, <2>2
    <3> QED BY ONLY <3>1, LiesConcat
  <2>4. Lies(b, four + z, s)
    <3>1. Lies(u, z, s) /\ Len(b) \in Nat
      BY <1>15, <2>1
    <3> QED BY <1>2, <2>1, <2>3, <3>1, LiesWithin
  <2>5. four + z = z + 4
    BY <1>15, <2>2
  <2> QED BY <2>4, <2>5
<1>20. PadAt(b, z, n) = pad
  <2>1. z + 1 = 1
    BY <1>15
  <2>2. CASE pad = 0
    BY <1>1, <1>7, <1>13, <2>1, <2>2 DEF PadAt
  <2>3. CASE pad # 0
    <3>1. ParseBit(b[z + 1], 5, 1) = 1 /\ b[n] = pad
      BY <1>1, <1>7, <1>13, <1>15, <2>1, <2>3
    <3> QED BY <3>1 DEF PadAt
  <2> QED BY <2>2, <2>3
<1>21. Holds(b, z, n, Count(p), p.pt, s)
  <2>1. z + 1 = 1 /\ z + 2 = 2
    BY <1>15
  <2>2. ParseBit(b[z + 1], 0, 5) = Count(p) /\ b[z + 2] = p.pt
    BY <1>7, <1>13, <2>1
  <2>3. n - z - 4 - pad = l
    BY <1>3, <1>15
  <2>4. n - z - 4 - PadAt(b, z, n) = Len(s)
    BY <1>1, <1>20, <2>3
  <2> QED BY <1>2, <1>19, <2>2, <2>4 DEF Holds
<1>22. Holds(c, 0, Len(c), Count(p), p.pt, BodyOctets(p))
  <2>1. z = 0 /\ c = b /\ n = Len(c) /\ s = BodyOctets(p)
    BY <1>1, <1>14, <1>15
  <2> QED BY <1>21, <2>1
<1> QED BY <1>13, <1>14, <1>15, <1>18, <1>22

\* And behind what was written before.
LEMMA PutBehind ==
  ASSUME NEW d \in Seq(Octet), NEW c \in Seq(Octet), Put(c, 0, Len(c)), NEW r, r = d \o c
  PROVE  /\ r \in Seq(Octet) /\ Put(r, Len(d), Len(r)) /\ Len(r) = Len(d) + Len(c)
         /\ \A k \in 1 .. Len(d) : r[k] = d[k]
         /\ r[Len(d) + 2] = c[2]
<1>1. PICK n, m : n = Len(d) /\ m = Len(c) /\ n \in Nat /\ m \in Nat
  BY LenProperties
<1>2. /\ r \in Seq(Octet) /\ Len(r) = n + m
      /\ \A k \in 1 .. n : r[k] = d[k]
      /\ \A k \in 1 .. m : r[n + k] = c[k]
  BY <1>1, ConcatOctets
<1>3. PICK z \in Nat : z = 0
  OBVIOUS
<1>4. /\ z + 4 <= m /\ IsVerValid(c[z + 1]) /\ IsRtcpPt(c[z + 2])
      /\ z + 4 + 4 * (256 * c[z + 3] + c[z + 4]) = m
      /\ ParseBit(c[z + 1], 5, 1) = 1 => c[m] <= m - z - 4
  BY <1>1, <1>3 DEF Put
<1>5. /\ z + 1 \in 1 .. m /\ z + 2 \in 1 .. m /\ z + 3 \in 1 .. m /\ z + 4 \in 1 .. m /\ m \in 1 .. m
  BY <1>1, <1>3, <1>4
<1>6. /\ r[n + (z + 1)] = c[z + 1] /\ r[n + (z + 2)] = c[z + 2] /\ r[n + (z + 3)] = c[z + 3]
      /\ r[n + (z + 4)] = c[z + 4] /\ r[n + m] = c[m]
  BY <1>2, <1>5
<1>7. n + (z + 1) = n + 1 /\ n + (z + 2) = n + 2 /\ n + (z + 3) = n + 3 /\ n + (z + 4) = n + 4 /\ z + 2 = 2
  BY <1>1, <1>3
<1>8. /\ r[n + 1] = c[z + 1] /\ r[n + 2] = c[z + 2] /\ r[n + 3] = c[z + 3] /\ r[n + 4] = c[z + 4]
  BY <1>6, <1>7
<1>9. PICK v : v = 256 * c[z + 3] + c[z + 4]
  OBVIOUS
<1>10. c[z + 3] \in Nat /\ c[z + 4] \in Nat
  <2>1. c[z + 3] \in Octet /\ c[z + 4] \in Octet
    BY <1>1, <1>5, ElementOfSeq
  <2>2. \A u \in Octet : u \in Nat
    BY DEF Octet
  <2> QED BY <2>1, <2>2
<1>11. v \in Nat
  <2>1. PICK x, y : x = c[z + 3] /\ y = c[z + 4] /\ x \in Nat /\ y \in Nat
    BY <1>10
  <2> QED BY <1>9, <2>1
<1>12. n + 4 + 4 * v = n + m
  BY <1>1, <1>3, <1>4, <1>9, <1>11
<1>13. n + 4 + 4 * (256 * r[n + 3] + r[n + 4]) = n + m
  BY <1>8, <1>9, <1>12
<1>14. ParseBit(r[n + 1], 5, 1) = 1 => r[n + m] <= (n + m) - n - 4
  <2>1. m - z - 4 = (n + m) - n - 4
    BY <1>1, <1>3
  <2> QED BY <1>4, <1>6, <1>8, <2>1
<1>15. PICK e : e = n + m /\ e \in Nat /\ n + 4 <= e /\ e <= Len(r)
  BY <1>1, <1>2, <1>3, <1>4
<1>16. IsVerValid(r[n + 1]) /\ IsRtcpPt(r[n + 2])
  BY <1>4, <1>8
<1>17. n + 4 + 4 * (256 * r[n + 3] + r[n + 4]) = e /\ (ParseBit(r[n + 1], 5, 1) = 1 => r[e] <= e - n - 4)
  BY <1>13, <1>14, <1>15
<1>18. Put(r, n, e)
  BY <1>1, <1>15, <1>16, <1>17 DEF Put
<1> QED BY <1>1, <1>2, <1>6, <1>7, <1>15, <1>18

LEMMA HoldsBehind ==
  ASSUME NEW d \in Seq(Octet), NEW c \in Seq(Octet), NEW m, m = Len(c), m >= 4, NEW rc, NEW pt, NEW q,
         Holds(c, 0, m, rc, pt, q), NEW r, r = d \o c
  PROVE  Holds(r, Len(d), Len(r), rc, pt, q)
<1>1. PICK n, l, z : n = Len(d) /\ l = Len(r) /\ z = 0
  OBVIOUS
<1>2. /\ r \in Seq(Octet) /\ n \in Nat /\ m \in Nat /\ l = n + m
      /\ \A k \in 1 .. m : r[n + k] = c[k]
  BY <1>1, ConcatOctets
<1>3. r[n + 1] = c[z + 1] /\ r[n + 2] = c[z + 2] /\ r[l] = c[m]
  <2>1. 1 \in 1 .. m /\ 2 \in 1 .. m /\ m \in 1 .. m /\ z + 1 = 1 /\ z + 2 = 2
    BY <1>1, <1>2
  <2> QED BY <1>2, <2>1
<1>4. /\ ParseBit(c[z + 1], 0, 5) = rc /\ c[z + 2] = pt /\ q \in Seq(Octet) /\ Lies(c, z + 4, q)
      /\ m - z - 4 - PadAt(c, z, m) = Len(q)
  BY <1>1 DEF Holds
<1>5. PadAt(r, n, l) = PadAt(c, z, m)
  BY <1>3 DEF PadAt
<1>6. Lies(r, n + 4, q)
  <2>1. PICK four : four = z + 4 /\ four = 4
    BY <1>1
  <2>2. Lies(r, n, c)
    <3>1. d \in Seq(Octet) /\ c \in Seq(Octet) /\ r = d \o c /\ n = Len(d)
      BY <1>1
    <3> QED BY ONLY <3>1, LiesConcat
  <2>3. Lies(c, four, q) /\ Len(r) \in Nat
    BY <1>1, <1>2, <1>4, <2>1
  <2>4. Lies(r, n + four, q)
    BY <1>4, <2>2, <2>3, LiesWithin
  <2> QED BY <2>1, <2>4
<1>7. l - n - 4 - PadAt(r, n, l) = Len(q)
  <2>1. l - n = m - z
    BY <1>1, <1>2
  <2> QED BY <1>4, <1>5, <2>1
<1>8. Holds(r, n, l, rc, pt, q)
  BY <1>3, <1>4, <1>5, <1>6, <1>7 DEF Holds
<1> QED BY <1>1, <1>8

-----------------------------------------------------------------------------
(* A datagram of packets                                                   *)

\* Sequences, whatever of.
Listed(s) == \E S : s \in Seq(S)

\* With one more.
Longer(t, s, x) ==
  /\ Listed(t) /\ Len(s) \in Nat /\ Len(t) = Len(s) + 1
  /\ \A k \in 1 .. Len(s) : t[k] = s[k]
  /\ t[Len(s) + 1] = x

LEMMA ListedAppend == ASSUME NEW s, Listed(s), NEW x PROVE Longer(Append(s, x), s, x)
<1>1. PICK S, t : s \in Seq(S) /\ t = Append(s, x)
  BY DEF Listed
<1>2. PICK T : T = S \cup {x}
  OBVIOUS
<1>3. s \in Seq(T) /\ x \in T
  BY <1>1, <1>2, SeqMonotonic
<1>4. /\ t \in Seq(T) /\ Len(t) = Len(s) + 1
      /\ \A k \in 1 .. Len(s) : t[k] = s[k]
      /\ t[Len(s) + 1] = x
  BY <1>1, <1>3, AppendProperties
<1> QED BY <1>1, <1>3, <1>4, LenProperties DEF Listed, Longer

LEMMA ListedShort ==
  /\ Listed(<<>>) /\ Len(<<>>) = 0
  /\ \A x : Listed(<<x>>) /\ Len(<<x>>) = 1 /\ <<x>>[1] = x
  /\ \A x, y : Listed(<<x, y>>) /\ Len(<<x, y>>) = 2 /\ <<x, y>>[1] = x
<1>1. <<>> \in Seq(Nat) /\ Len(<<>>) = 0
  BY EmptySeq
<1>2. ASSUME NEW x PROVE Listed(<<x>>) /\ Len(<<x>>) = 1 /\ <<x>>[1] = x
  <2>1. <<x>> \in Seq({x})
    OBVIOUS
  <2> QED BY <2>1 DEF Listed
<1>3. ASSUME NEW x, NEW y PROVE Listed(<<x, y>>) /\ Len(<<x, y>>) = 2 /\ <<x, y>>[1] = x
  <2>1. <<x, y>> \in Seq({x, y})
    OBVIOUS
  <2> QED BY <2>1 DEF Listed
<1> QED BY <1>1, <1>2, <1>3 DEF Listed

\* Where the packet k begins.
Begin(es, k) == IF k = 1 THEN 0 ELSE es[k - 1]

\* One packet behind the other, up to the end.
Packed(d, es) ==
  /\ d \in Seq(Octet) /\ es \in Seq(Nat)
  /\ \A k \in 1 .. Len(es) : Put(d, Begin(es, k), es[k])
  /\ \A j, k \in 1 .. Len(es) : j <= k => es[j] <= es[k]
  /\ Len(d) = Begin(es, Len(es) + 1)

LEMMA PackedNone == Packed(<<>>, <<>>)
<1>1. PICK d, es, n : d = <<>> /\ es = <<>> /\ n = 0
  OBVIOUS
<1>2. d \in Seq(Octet) /\ es \in Seq(Nat) /\ Len(d) = n /\ Len(es) = n
  BY <1>1, EmptySeq
<1>3. 1 .. Len(es) = {} /\ Len(es) + 1 = 1
  BY <1>1, <1>2
<1>4. Packed(d, es)
  BY <1>1, <1>2, <1>3 DEF Packed, Begin
<1> QED BY <1>1, <1>4

LEMMA PackedOne ==
  ASSUME NEW d \in Seq(Octet), NEW m \in Nat, Len(d) = m, Put(d, 0, m)
  PROVE  Packed(d, <<m>>)
<1>1. PICK es : es = <<m>>
  OBVIOUS
<1>2. es \in Seq(Nat) /\ Len(es) = 1 /\ es[1] = m
  BY <1>1
<1>3. \A k \in 1 .. Len(es) : k = 1
  BY <1>2
<1>4. \A k \in 1 .. Len(es) : Put(d, Begin(es, k), es[k])
  BY <1>2, <1>3 DEF Begin
<1>5. \A j, k \in 1 .. Len(es) : j <= k => es[j] <= es[k]
  BY <1>2, <1>3
<1>6. Begin(es, Len(es) + 1) = m
  BY <1>2 DEF Begin
<1> QED BY <1>1, <1>2, <1>4, <1>5, <1>6 DEF Packed

LEMMA PackedNext ==
  ASSUME NEW d, NEW es, Packed(d, es), NEW r \in Seq(Octet), Len(d) <= Len(r),
         \A k \in 1 .. Len(d) : r[k] = d[k], Put(r, Len(d), Len(r)), NEW fs,
         fs = Append(es, Len(r))
  PROVE  Packed(r, fs) /\ Len(fs) = Len(es) + 1
<1>1. PICK l, m, n : l = Len(es) /\ m = Len(d) /\ n = Len(r)
  OBVIOUS
<1>2. d \in Seq(Octet) /\ es \in Seq(Nat)
  BY DEF Packed
<1>3. l \in Nat /\ m \in Nat /\ n \in Nat /\ m <= n
  BY <1>1, <1>2, LenProperties
<1>4. /\ fs \in Seq(Nat) /\ Len(fs) = l + 1
      /\ \A k \in 1 .. l : fs[k] = es[k]
      /\ fs[l + 1] = n
  BY <1>1, <1>2, <1>3, AppendProperties
<1>5. \A k \in 1 .. l : Put(d, Begin(es, k), es[k]) /\ es[k] <= m /\ es[k] \in Nat
  <2> SUFFICES ASSUME NEW k \in 1 .. l PROVE Put(d, Begin(es, k), es[k]) /\ es[k] <= m /\ es[k] \in Nat
    OBVIOUS
  <2>1. Put(d, Begin(es, k), es[k])
    BY <1>1 DEF Packed
  <2> QED BY <1>1, <2>1 DEF Put
<1>6. \A k \in 1 .. l + 1 : Begin(fs, k) = Begin(es, k)
  <2> SUFFICES ASSUME NEW k \in 1 .. l + 1 PROVE Begin(fs, k) = Begin(es, k)
    OBVIOUS
  <2>1. k # 1 => k - 1 \in 1 .. l
    BY <1>3
  <2> QED BY <1>4, <2>1 DEF Begin
<1>7. Begin(es, l + 1) = m
  BY <1>1 DEF Packed
<1>8. \A k \in 1 .. Len(fs) : Put(r, Begin(fs, k), fs[k])
  <2> SUFFICES ASSUME NEW k \in 1 .. l + 1 PROVE Put(r, Begin(fs, k), fs[k])
    BY <1>4
  <2>1. CASE k \in 1 .. l
    <3>1. PICK b, e : b = Begin(es, k) /\ e = es[k] /\ Put(d, b, e) /\ e <= m /\ e \in Nat
      BY <1>5, <2>1
    <3>2. \A i \in 1 .. e : r[i] = d[i]
      <4> SUFFICES ASSUME NEW i \in 1 .. e PROVE r[i] = d[i]
        OBVIOUS
      <4>1. i \in 1 .. Len(d)
        BY <1>1, <1>3, <3>1
      <4> QED BY <4>1
    <3>3. e <= n /\ Len(r) = n /\ n \in Nat
      BY <1>1, <1>3, <3>1
    <3>4. Put(r, b, e)
      BY <3>1, <3>2, <3>3, PutStays
    <3> QED BY <1>4, <1>6, <2>1, <3>1, <3>4
  <2>2. CASE k = l + 1
    BY <1>1, <1>4, <1>6, <1>7, <2>2
  <2>3. k \in 1 .. l \/ k = l + 1
    BY <1>3
  <2> QED BY <2>1, <2>2, <2>3
<1>9. \A j, k \in 1 .. Len(fs) : j <= k => fs[j] <= fs[k]
  <2> SUFFICES ASSUME NEW j \in 1 .. l + 1, NEW k \in 1 .. l + 1, j <= k PROVE fs[j] <= fs[k]
    BY <1>4
  <2>1. j \in 1 .. l \/ j = l + 1
    BY <1>3
  <2>2. k \in 1 .. l \/ k = l + 1
    BY <1>3
  <2>3. CASE k \in 1 .. l
    <3>1. j \in 1 .. l
      BY <1>3, <2>3
    <3>2. es[j] <= es[k]
      BY <1>1, <2>3, <3>1 DEF Packed
    <3> QED BY <1>4, <2>3, <3>1, <3>2
  <2>4. CASE k = l + 1
    <3>1. CASE j \in 1 .. l
      <4>1. fs[j] = es[j] /\ es[j] <= m /\ es[j] \in Nat /\ fs[k] = n
        BY <1>4, <1>5, <2>4, <3>1
      <4> QED BY <1>3, <4>1
    <3>2. CASE j = l + 1
      BY <1>3, <1>4, <2>4, <3>2
    <3> QED BY <2>1, <3>1, <3>2
  <2> QED BY <2>2, <2>3, <2>4
<1>10. Len(r) = Begin(fs, Len(fs) + 1)
  <2>1. (l + 1) + 1 # 1 /\ ((l + 1) + 1) - 1 = l + 1
    BY <1>3
  <2> QED BY <1>1, <1>4, <2>1 DEF Begin
<1> QED BY <1>1, <1>4, <1>8, <1>9, <1>10 DEF Packed

LEMMA PackedTwo ==
  ASSUME NEW d \in Seq(Octet), NEW m \in Nat, Put(d, 0, m), Put(d, m, Len(d))
  PROVE  Packed(d, <<m, Len(d)>>)
<1>1. PICK es, n : es = <<m, n>> /\ n = Len(d) /\ n \in Nat
  BY LenProperties
<1>2. es \in Seq(Nat) /\ Len(es) = 2 /\ es[1] = m /\ es[2] = n
  BY <1>1
<1>3. \A k \in 1 .. Len(es) : k = 1 \/ k = 2
  BY <1>2
<1>4. \A k \in 1 .. Len(es) : Put(d, Begin(es, k), es[k])
  <2> SUFFICES ASSUME NEW k \in 1 .. Len(es) PROVE Put(d, Begin(es, k), es[k])
    OBVIOUS
  <2>1. CASE k = 1
    BY <1>2, <2>1 DEF Begin
  <2>2. CASE k = 2
    <3>1. k # 1 /\ k - 1 = 1
      BY <2>2
    <3> QED BY <1>1, <1>2, <2>2, <3>1 DEF Begin
  <2> QED BY <1>3, <2>1, <2>2
<1>5. m <= n
  BY <1>1 DEF Put
<1>6. \A j, k \in 1 .. Len(es) : j <= k => es[j] <= es[k]
  <2> SUFFICES ASSUME NEW j \in 1 .. Len(es), NEW k \in 1 .. Len(es), j <= k PROVE es[j] <= es[k]
    OBVIOUS
  <2>1. (j = 1 /\ k = 1) \/ (j = 1 /\ k = 2) \/ (j = 2 /\ k = 2)
    BY <1>3
  <2> QED BY <1>1, <1>2, <1>5, <2>1
<1>7. Begin(es, Len(es) + 1) = n
  <2>1. Len(es) + 1 # 1 /\ (Len(es) + 1) - 1 = 2
    BY <1>2
  <2> QED BY <1>2, <2>1 DEF Begin
<1> QED BY <1>1, <1>2, <1>4, <1>6, <1>7 DEF Packed

-----------------------------------------------------------------------------
(* The reader                                                              *)

IsReport(pt) == pt \in {SR, RR}

\* The reader stands between two packets, behind those it has taken, and not behind the
\* cut; and it stops only before a packet that did not arrive in full, behind the last
\* one, or at the first if that is no report.
WireInv ==
  /\ stage \in RtcpStage =>
       /\ Packed(data, ends) /\ Listed(written) /\ Len(written) = Len(ends)
       /\ Len(written) # 0 => written[1].pt = data[2]
       /\ Listed(got) /\ Len(got) <= Len(ends) /\ upto = Begin(ends, Len(got) + 1)
  /\ stage \in {"write", "send"} => got = <<>>
  /\ stage = "write" /\ written = <<>> => data = <<>>
  /\ stage \in {"send", "read", "done"} => Len(written) # 0
  /\ stage \in {"read", "done"} =>
       /\ \E n \in Nat : Cut(data, n, arrived) /\ n <= Len(data) /\ upto <= n
       /\ got # <<>> => IsReport(written[1].pt)
  /\ stage = "done" => \/ Len(got) = Len(ends) \/ ends[Len(got) + 1] > Len(arrived)
                       \/ got = <<>> /\ ~IsReport(written[1].pt)

LEMMA WireInit == Init => WireInv
<1> SUFFICES ASSUME Init PROVE WireInv
  OBVIOUS
<1>1. /\ written = <<>> /\ ends = <<>> /\ data = <<>> /\ upto = 0 /\ got = <<>> /\ stage = "write"
  BY DEF Init
<1>2. Packed(data, ends)
  BY <1>1, PackedNone
<1>3. PICK z : z = <<>> /\ Listed(z) /\ Len(z) = 0
  BY ListedShort
<1>4. written = z /\ ends = z /\ got = z
  BY <1>1, <1>3
<1>5. Listed(written) /\ Listed(got) /\ Len(written) = 0 /\ Len(ends) = 0 /\ Len(got) = 0
  BY <1>3, <1>4
<1>6. upto = Begin(ends, Len(got) + 1)
  BY <1>1, <1>5 DEF Begin
<1> QED BY <1>1, <1>2, <1>5, <1>6 DEF WireInv, RtcpStage

LEMMA PeerWire == ASSUME WireInv, PeerWrites PROVE WireInv'
<1>1. stage = "write" /\ stage' = "write" /\ got' = got /\ upto' = upto
  BY DEF PeerWrites
<1>2. PICK p \in Packets, pad \in Pads : /\ data' = data \o PacketOctets(p, pad)
                                         /\ written' = Append(written, p)
  BY DEF PeerWrites
<1>3. ends' = Append(ends, Len(data'))
  BY DEF PeerWrites
<1>4. PICK c : c = PacketOctets(p, pad) /\ c \in Seq(Octet) /\ Put(c, 0, Len(c)) /\ c[2] = p.pt
  BY PeerPacket
<1>5. /\ Packed(data, ends) /\ Listed(written) /\ Len(written) = Len(ends)
      /\ Len(written) # 0 => written[1].pt = data[2]
      /\ got = <<>> /\ upto = Begin(ends, Len(got) + 1)
      /\ written = <<>> => data = <<>>
  BY <1>1 DEF WireInv, RtcpStage
<1>6. PICK d, r, es, fs : d = data /\ r = data' /\ es = ends /\ fs = ends'
  OBVIOUS
<1>7. d \in Seq(Octet) /\ es \in Seq(Nat) /\ r = d \o c
  BY <1>2, <1>4, <1>5, <1>6 DEF Packed
<1>8. /\ r \in Seq(Octet) /\ Put(r, Len(d), Len(r)) /\ Len(r) = Len(d) + Len(c)
      /\ \A k \in 1 .. Len(d) : r[k] = d[k]
      /\ r[Len(d) + 2] = c[2]
  BY <1>4, <1>7, PutBehind, ZenonT(60)
<1>9. Len(d) \in Nat /\ Len(c) \in Nat /\ Len(es) \in Nat
  BY <1>4, <1>7, LenProperties
<1>10. Packed(r, fs) /\ Len(fs) = Len(es) + 1
  <2>1. Packed(d, es) /\ r \in Seq(Octet) /\ Len(d) <= Len(r) /\ fs = Append(es, Len(r))
    BY <1>3, <1>5, <1>6, <1>8, <1>9
  <2> QED BY <1>8, <2>1, PackedNext
<1>11. /\ Listed(written') /\ Len(written') = Len(written) + 1
       /\ \A k \in 1 .. Len(written) : written'[k] = written[k]
       /\ written'[Len(written) + 1] = p
  <2>1. Longer(written', written, p)
    BY <1>2, <1>5, ListedAppend
  <2> QED BY <2>1 DEF Longer
<1>12. Len(written') = Len(fs) /\ Len(written') # 0
  BY <1>5, <1>6, <1>9, <1>10, <1>11
<1>13. written'[1].pt = r[2]
  <2>1. CASE Len(written) = 0
    <3>1. written = <<>>
      BY <1>5, <2>1, EmptySeq DEF Listed
    <3>2. d = <<>>
      BY <1>5, <1>6, <3>1
    <3>3. Len(d) = 0
      BY <3>2
    <3>4. r[2] = c[2]
      <4>1. Len(d) + 2 = 2
        BY <3>3
      <4> QED BY <1>8, <4>1
    <3>5. written'[1] = p
      <4>1. Len(written) + 1 = 1
        BY <2>1
      <4> QED BY <1>11, <4>1
    <3> QED BY <1>4, <3>4, <3>5
  <2>2. CASE Len(written) # 0
    <3>1. 1 \in 1 .. Len(written) /\ 1 \in 1 .. Len(es)
      BY <1>5, <1>6, <1>9, <2>2
    <3>2. written'[1].pt = d[2]
      BY <1>5, <1>6, <1>11, <2>2, <3>1
    <3>3. Put(d, Begin(es, 1), es[1])
      BY <1>5, <1>6, <3>1 DEF Packed
    <3>4. PICK b, e : b = Begin(es, 1) /\ e = es[1] /\ b \in Nat /\ e \in Nat /\ b + 4 <= e /\ e <= Len(d)
      BY <3>3 DEF Put
    <3>5. 2 \in 1 .. Len(d)
      BY <1>9, <3>4
    <3> QED BY <1>8, <3>2, <3>5
  <2> QED BY <2>1, <2>2
<1>14. Len(got) = 0
  BY <1>5, EmptySeq
<1>15. /\ Listed(got') /\ Len(got') <= Len(fs) /\ upto' = Begin(fs, Len(got') + 1)
  <2>1. got' = <<>> /\ Len(got') = 0 /\ Len(got') + 1 = 1
    BY <1>1, <1>5, <1>14
  <2>2. Listed(got')
    BY <2>1, ListedShort
  <2>3. upto' = 0
    BY <1>1, <1>5, <1>14 DEF Begin
  <2> QED BY <1>9, <1>10, <2>1, <2>2, <2>3 DEF Begin
<1>16. written' # <<>>
  BY <1>12
<1>17. got' = <<>>
  BY <1>1, <1>5
<1> QED BY <1>1, <1>6, <1>10, <1>11, <1>12, <1>13, <1>15, <1>16, <1>17 DEF WireInv

LEMMA SendWire ==
  ASSUME WireInv, NEW e, NEW size \in Nat, NEW p, NEW cname, Send(e, size, p, cname),
         Reported(e, p.pt, size, cname)
  PROVE  WireInv' /\ stage' = "send"
<1>1. /\ stage = "write" /\ written = <<>> /\ stage' = "send" /\ got' = got /\ upto' = upto
      /\ data' = e.data
  BY DEF Send, Reported
<1>2. PICK r, q, fs, n : /\ r = data' /\ fs = ends' /\ n = Len(r)
                         /\ q = Packet(SDES, <<Chunk(Ssrc, <<Item(CNAME, cname)>>)>>)
  OBVIOUS
<1>3. r \in Seq(Octet) /\ Put(r, 0, size) /\ r[2] = p.pt
  BY <1>1, <1>2 DEF Reported
<1>4. Packed(r, fs) /\ Listed(written') /\ Len(written') = Len(fs) /\ Len(written') # 0 /\ written'[1] = p
  <2>1. CASE cname = <<>>
    <3>1. written' = <<p>> /\ fs = <<size>> /\ Len(r) = size
      BY <1>1, <1>2, <2>1 DEF Send, Reported
    <3>2. Packed(r, fs)
      BY <1>3, <3>1, PackedOne
    <3>3. Len(fs) = 1 /\ Listed(written') /\ Len(written') = 1 /\ written'[1] = p
      BY <3>1, ListedShort
    <3> QED BY <3>2, <3>3
  <2>2. CASE cname # <<>>
    <3>1. written' = <<p, q>> /\ fs = <<size, n>> /\ Put(r, size, n)
      BY <1>1, <1>2, <2>2 DEF Send, Reported
    <3>2. Packed(r, fs)
      BY <1>2, <1>3, <3>1, PackedTwo
    <3>3. Len(fs) = 2 /\ Listed(written') /\ Len(written') = 2 /\ written'[1] = p
      BY <3>1, ListedShort
    <3> QED BY <3>2, <3>3
  <2> QED BY <2>1, <2>2
<1>5. got = <<>> /\ upto = Begin(ends, Len(got) + 1)
  BY <1>1 DEF WireInv, RtcpStage
<1>6. got' = <<>> /\ Len(got') = 0 /\ Listed(got') /\ upto' = 0
  <2>1. got' = <<>>
    BY <1>1, <1>5
  <2>2. Len(got') = 0 /\ Listed(got') /\ Len(got) = 0
    BY <1>5, <2>1, ListedShort
  <2> QED BY <1>1, <1>5, <2>1, <2>2 DEF Begin
<1>7. Len(fs) \in Nat
  BY <1>4, LenProperties DEF Packed
<1>8. Len(got') <= Len(fs) /\ upto' = Begin(fs, Len(got') + 1)
  BY <1>6, <1>7 DEF Begin
<1>9. written'[1].pt = r[2]
  BY <1>3, <1>4
<1>10. stage' = "send" /\ data' = r /\ ends' = fs
  BY <1>1, <1>2
<1> QED BY <1>4, <1>6, <1>8, <1>9, <1>10 DEF WireInv

LEMMA ServerWire == ASSUME WireInv, SendSR \/ SendRR PROVE WireInv' /\ stage' = "send"
<1>1. \A cname \in CNames : NameFits(cname)
  BY WireAssumption DEF NameFits
<1>2. CASE SendSR
  <2>1. PICK cname \in CNames :
          Send(GenSR(cname), MIN_SR_SIZE, Packet(SR, [ssrc |-> Ssrc, reports |-> <<>>]), cname)
    BY <1>2 DEF SendSR
  <2>4. PICK p : p = Packet(SR, [ssrc |-> Ssrc, reports |-> <<>>])
    OBVIOUS
  <2>2. p.pt = SR /\ MIN_SR_SIZE \in Nat
    BY <2>4 DEF Packet, MIN_SR_SIZE
  <2>3. Reported(GenSR(cname), p.pt, MIN_SR_SIZE, cname)
    BY <1>1, <2>2, SenderReport
  <2> QED BY <2>1, <2>2, <2>3, <2>4, SendWire
<1>3. CASE SendRR
  <2>1. PICK cname \in CNames, lost \in LostCounts :
          Send(GenRR(Report(Ssrc, lost), cname), MIN_RR_SIZE,
               Packet(RR, [ssrc |-> Ssrc, reports |-> <<Report(Ssrc, lost)>>]), cname)
    BY <1>3 DEF SendRR
  <2>4. PICK p : p = Packet(RR, [ssrc |-> Ssrc, reports |-> <<Report(Ssrc, lost)>>])
    OBVIOUS
  <2>2. p.pt = RR /\ MIN_RR_SIZE \in Nat /\ lost \in Int
    BY <2>4, WireAssumption DEF Packet, MIN_RR_SIZE
  <2>3. Reported(GenRR(Report(Ssrc, lost), cname), p.pt, MIN_RR_SIZE, cname)
    BY <1>1, <2>2, ReceiverReport
  <2> QED BY <2>1, <2>2, <2>3, <2>4, SendWire
<1> QED BY <1>2, <1>3

\* Where the reader stands, the packet behind it, if there is one, is put.
LEMMA Standing ==
  ASSUME WireInv, stage \in {"send", "read"}, NEW g, g = Len(got)
  PROVE  /\ g \in Nat /\ Len(ends) \in Nat /\ data \in Seq(Octet) /\ Len(data) \in Nat /\ g <= Len(ends)
         /\ g < Len(ends) => Put(data, upto, ends[g + 1]) /\ g + 1 \in 1 .. Len(ends)
         /\ g = Len(ends) => upto = Len(data)
         /\ upto \in Nat /\ (upto = 0 <=> g = 0)
<1>1. /\ Packed(data, ends) /\ Listed(got) /\ g <= Len(ends) /\ upto = Begin(ends, g + 1)
  BY DEF WireInv, RtcpStage
<1>2. g \in Nat
  BY <1>1, LenProperties DEF Listed
<1>3. Len(ends) \in Nat /\ data \in Seq(Octet) /\ Len(data) \in Nat
  BY <1>1, LenProperties DEF Packed
<1>4. g < Len(ends) => g + 1 \in 1 .. Len(ends)
  BY <1>2, <1>3
<1>5. g < Len(ends) => Put(data, upto, ends[g + 1])
  BY <1>1, <1>4 DEF Packed
<1>6. g = Len(ends) => upto = Len(data)
  BY <1>1 DEF Packed
<1>7. upto \in Nat /\ (upto = 0 <=> g = 0)
  <2>1. CASE g = 0
    BY <1>1, <2>1 DEF Begin
  <2>2. CASE g # 0
    <3>1. g \in 1 .. Len(ends) /\ g + 1 # 1 /\ (g + 1) - 1 = g
      BY <1>1, <1>2, <1>3, <2>2
    <3>2. upto = ends[g]
      BY <1>1, <3>1 DEF Begin
    <3>3. Put(data, Begin(ends, g), ends[g])
      BY <1>1, <3>1 DEF Packed
    <3>4. PICK b, e : b = Begin(ends, g) /\ e = ends[g] /\ b \in Nat /\ e \in Nat /\ b + 4 <= e
      BY <3>3 DEF Put
    <3> QED BY <2>2, <3>2, <3>4
  <2> QED BY <2>1, <2>2
<1> QED BY <1>1, <1>2, <1>3, <1>4, <1>5, <1>6, <1>7

LEMMA ParseWire == ASSUME WireInv, ParseRtcp PROVE WireInv'
<1>1. /\ written' = written /\ ends' = ends /\ data' = data /\ upto' = upto /\ got' = got
      /\ stage' \in {"read", "done"}
      /\ stage' = IF IsRtcpHeader(arrived') THEN "read" ELSE "done"
  BY DEF ParseRtcp
<1>2. stage \in {"write", "send"} /\ stage \in RtcpStage
  BY DEF ParseRtcp, RtcpStage
<1>3. PICK n \in 0 .. Len(data) : arrived' = SubSeq(data, 1, n)
  BY DEF ParseRtcp
<1>4. /\ Packed(data, ends) /\ Listed(written) /\ Len(written) = Len(ends)
      /\ Len(written) # 0 => written[1].pt = data[2]
      /\ Listed(got) /\ Len(got) <= Len(ends) /\ upto = Begin(ends, Len(got) + 1)
      /\ got = <<>>
  BY <1>2 DEF WireInv
<1>5. Len(written) # 0
  <2>1. CASE stage = "send"
    BY <2>1 DEF WireInv
  <2>2. CASE stage # "send"
    <3>1. written # <<>>
      BY <2>2 DEF ParseRtcp
    <3>2. PICK S : written \in Seq(S)
      BY <1>4 DEF Listed
    <3> QED BY <3>1, <3>2, EmptySeq
  <2> QED BY <2>1, <2>2
<1>6. PICK g : g = Len(got) /\ g = 0
  BY <1>4, ListedShort
<1>7. data \in Seq(Octet) /\ ends \in Seq(Nat)
  BY <1>4 DEF Packed
<1>8. n \in Nat /\ n <= Len(data)
  BY <1>7, LenProperties
<1>9. Cut(data, n, arrived')
  BY <1>3, <1>7, CutOf
<1>10. upto' = 0 /\ upto' <= n
  BY <1>1, <1>4, <1>6, <1>8 DEF Begin
<1>11. stage' = "done" => ends[1] > n
  <2>1. 1 \in 1 .. Len(ends)
    <3>1. Len(ends) \in Nat
      BY <1>7, LenProperties
    <3> QED BY <1>4, <1>5, <3>1
  <2>2. PICK b, e : b = 0 /\ b \in Nat /\ e = ends[1] /\ Put(data, b, e)
    BY <1>4, <2>1 DEF Packed, Begin
  <2>3. IsRtcpHeader(arrived') <=> e <= n
    <3>1. PICK a : a = arrived' /\ Cut(data, n, a)
      BY <1>9
    <3>2. b <= n
      BY <1>8, <2>2
    <3>3. b = 0 => (IsRtcpHeader(a) <=> e <= n)
      BY <1>7, <1>8, <2>2, <3>1, <3>2, ReadPacket
    <3> QED BY <2>2, <3>1, <3>3
  <2>4. e \in Nat
    BY <2>2 DEF Put
  <2> QED BY <1>1, <1>8, <2>2, <2>3, <2>4
<1>12. stage' = "done" => ends'[Len(got') + 1] > Len(arrived')
  <2>1. Len(got') + 1 = 1
    BY <1>1, <1>6
  <2>2. Len(arrived') = n
    BY <1>9 DEF Cut
  <2> QED BY <1>1, <1>11, <2>1, <2>2
<1>13. /\ Packed(data', ends') /\ Listed(written') /\ Len(written') = Len(ends')
       /\ Len(written') # 0 => written'[1].pt = data'[2]
       /\ Listed(got') /\ Len(got') <= Len(ends') /\ upto' = Begin(ends', Len(got') + 1)
       /\ got' = <<>> /\ Len(written') # 0
  BY <1>1, <1>4, <1>5
<1>14. \E i \in Nat : Cut(data', i, arrived') /\ i <= Len(data') /\ upto' <= i
  BY <1>1, <1>8, <1>9, <1>10
<1> QED BY <1>1, <1>12, <1>13, <1>14 DEF WireInv

LEMMA ProcWire == ASSUME WireInv, ProcRtcp PROVE WireInv'
<1>1. /\ stage = "read" /\ written' = written /\ ends' = ends /\ data' = data
      /\ arrived' = arrived /\ stage \in RtcpStage
  BY DEF ProcRtcp, RtcpStage
<1>2. PICK pkg, a, g : pkg = ParseRtcpPkg(a, upto) /\ a = arrived /\ g = Len(got)
  OBVIOUS
<1>3. PICK n \in Nat : Cut(data, n, a) /\ n <= Len(data) /\ upto <= n
  BY <1>1, <1>2 DEF WireInv
<1>4. Len(a) = n
  BY <1>3 DEF Cut
<1>5. /\ g \in Nat /\ Len(ends) \in Nat /\ data \in Seq(Octet) /\ Len(data) \in Nat /\ g <= Len(ends)
      /\ g < Len(ends) => Put(data, upto, ends[g + 1]) /\ g + 1 \in 1 .. Len(ends)
      /\ g = Len(ends) => upto = Len(data)
      /\ upto \in Nat /\ (upto = 0 <=> g = 0)
  BY <1>1, <1>2, Standing
<1>6. /\ Packed(data, ends) /\ Listed(written) /\ Len(written) = Len(ends) /\ Len(written) # 0
      /\ written[1].pt = data[2] /\ Listed(got) /\ upto = Begin(ends, g + 1)
      /\ got # <<>> => IsReport(written[1].pt)
  BY <1>1, <1>2 DEF WireInv
<1>7. g = 0 <=> got = <<>>
  <2>1. PICK S : got \in Seq(S)
    BY <1>6 DEF Listed
  <2> QED BY <1>2, <2>1, EmptySeq
<1>8. g < Len(ends) => LET e == ends[g + 1]
                       IN /\ e \in Nat
                          /\ e <= n => pkg # Bad /\ pkg.pt = data[upto + 2] /\ pkg.next = e
                          /\ e > n => pkg = Bad
  <2> SUFFICES ASSUME g < Len(ends)
               PROVE  LET e == ends[g + 1]
                      IN /\ e \in Nat
                         /\ e <= n => pkg # Bad /\ pkg.pt = data[upto + 2] /\ pkg.next = e
                         /\ e > n => pkg = Bad
    OBVIOUS
  <2>1. PICK b, e : b = upto /\ e = ends[g + 1] /\ Put(data, b, e) /\ b <= n /\ pkg = ParseRtcpPkg(a, b)
    BY <1>2, <1>3, <1>5
  <2>2. /\ e <= n => pkg # Bad /\ pkg.pt = data[b + 2] /\ pkg.next = e
        /\ e > n => pkg = Bad
    BY <1>3, <1>5, <2>1, ReadPacket
  <2>3. e \in Nat
    BY <2>1 DEF Put
  <2> QED BY <2>1, <2>2, <2>3
<1>9. IF upto = n THEN Stop
      ELSE IF pkg = Bad \/ (upto = 0 /\ pkg.pt \notin {SR, RR}) THEN Stop
      ELSE got' = Append(got, ParseBody(pkg)) /\ upto' = pkg.next /\ stage' = stage
  BY <1>2, <1>4 DEF ProcRtcp
<1>10. CASE Stop
  <2>1. stage' = "done" /\ got' = got /\ upto' = upto
    BY <1>10 DEF Stop
  <2>2. \/ g = Len(ends) \/ ends[g + 1] > n
        \/ got = <<>> /\ ~IsReport(written[1].pt)
    <3>1. CASE g # Len(ends) /\ ~(ends[g + 1] > n)
      <4>1. g < Len(ends)
        BY <1>5, <3>1
      <4>2. PICK e : e = ends[g + 1] /\ e \in Nat /\ e <= n /\ pkg # Bad /\ pkg.pt = data[upto + 2]
                      /\ Put(data, upto, e)
        BY <1>3, <1>5, <1>8, <3>1, <4>1
      <4>3. upto # n
        BY <1>3, <1>5, <4>2 DEF Put
      <4>4. ~(got' = Append(got, ParseBody(pkg)) /\ upto' = pkg.next /\ stage' = stage)
        BY <1>1, <2>1
      <4>5. upto = 0 /\ pkg.pt \notin {SR, RR}
        BY <1>9, <4>2, <4>3, <4>4
      <4>6. upto + 2 = 2
        BY <4>5
      <4> QED BY <1>5, <1>6, <1>7, <4>2, <4>5, <4>6 DEF IsReport
    <3> QED BY <3>1
  <2>3. \/ Len(got') = Len(ends') \/ ends'[Len(got') + 1] > Len(arrived')
        \/ got' = <<>> /\ ~IsReport(written'[1].pt)
    BY <1>1, <1>2, <1>4, <2>1, <2>2
  <2>4. \E i \in Nat : Cut(data', i, arrived') /\ i <= Len(data') /\ upto' <= i
    BY <1>1, <1>2, <1>3, <2>1
  <2>5. /\ Packed(data', ends') /\ Listed(written') /\ Len(written') = Len(ends')
        /\ Len(written') # 0 /\ written'[1].pt = data'[2]
        /\ Listed(got') /\ Len(got') <= Len(ends') /\ upto' = Begin(ends', Len(got') + 1)
        /\ got' # <<>> => IsReport(written'[1].pt)
    BY <1>1, <1>2, <1>5, <1>6, <2>1
  <2> QED BY <2>1, <2>3, <2>4, <2>5 DEF WireInv
<1>11. CASE ~Stop
  <2>1. /\ upto # n /\ pkg # Bad /\ (upto = 0 => pkg.pt \in {SR, RR})
        /\ got' = Append(got, ParseBody(pkg)) /\ upto' = pkg.next /\ stage' = "read"
    BY <1>1, <1>9, <1>11
  <2>2. g < Len(ends)
    <3>1. g # Len(ends)
      BY <1>3, <1>5, <2>1
    <3> QED BY <1>5, <3>1
  <2>3. PICK e : e = ends[g + 1] /\ e \in Nat /\ e <= n /\ pkg.pt = data[upto + 2] /\ pkg.next = e
    BY <1>3, <1>8, <2>1, <2>2
  <2>4. Listed(got') /\ Len(got') = g + 1
    BY <1>2, <1>6, <2>1, ListedAppend DEF Longer
  <2>5. g + 1 <= Len(ends) /\ g + 1 # 0 /\ (g + 1) + 1 # 1 /\ ((g + 1) + 1) - 1 = g + 1
    BY <1>5, <2>2
  <2>6. upto' = Begin(ends, Len(got') + 1)
    BY <2>1, <2>3, <2>4, <2>5 DEF Begin
  <2>7. IsReport(written[1].pt)
    <3>1. CASE g = 0
      <4>1. upto = 0 /\ upto + 2 = 2
        BY <1>5, <3>1
      <4> QED BY <1>6, <2>1, <2>3, <4>1 DEF IsReport
    <3>2. CASE g # 0
      BY <1>6, <1>7, <3>2
    <3> QED BY <3>1, <3>2
  <2>8. \E i \in Nat : Cut(data', i, arrived') /\ i <= Len(data') /\ upto' <= i
    BY <1>1, <1>2, <1>3, <2>1, <2>3
  <2>9. /\ Packed(data', ends') /\ Listed(written') /\ Len(written') = Len(ends')
        /\ Len(written') # 0 /\ written'[1].pt = data'[2]
        /\ Len(got') <= Len(ends') /\ upto' = Begin(ends', Len(got') + 1)
        /\ IsReport(written'[1].pt)
    BY <1>1, <1>6, <2>4, <2>5, <2>6, <2>7
  <2> QED BY <2>1, <2>4, <2>8, <2>9 DEF WireInv
<1> QED BY <1>10, <1>11

LEMMA WireNext == ASSUME WireInv, [Next]_vars PROVE WireInv'
<1>1. CASE UNCHANGED vars
  BY <1>1 DEF vars, WireInv
<1>2. CASE Rtp
  <2>1. stage' \in RtpStage
    BY <1>2 DEF Rtp, Publish, ParseRtp, ProcRtp, RtpStage
  <2> QED BY <2>1 DEF WireInv, RtpStage, RtcpStage
<1>3. CASE Rtcp
  BY <1>3, PeerWire, ServerWire, ParseWire, ProcWire DEF Rtcp
<1> QED BY <1>1, <1>2, <1>3 DEF Next

\* The packets in front of the cut are those that were taken.
LEMMA TakenAll == WireInv => WhatArrivedIsRead
<1> SUFFICES ASSUME WireInv, stage = "done"
             PROVE  Len(got) = IF IsReport(written[1].pt)
                               THEN Cardinality({k \in DOMAIN ends : ends[k] <= Len(arrived)}) ELSE 0
  BY DEF WhatArrivedIsRead, IsReport
<1>1. PICK es, g, n : es = ends /\ g = Len(got) /\ n = Len(arrived)
  OBVIOUS
<1>2. /\ Packed(data, es) /\ Listed(got) /\ g <= Len(es) /\ upto = Begin(es, g + 1)
      /\ got # <<>> => IsReport(written[1].pt)
      /\ g = Len(es) \/ es[g + 1] > n \/ (got = <<>> /\ ~IsReport(written[1].pt))
  <2>1. /\ Packed(data, es) /\ Listed(got) /\ g <= Len(es) /\ upto = Begin(es, g + 1)
    BY <1>1 DEF WireInv, RtcpStage
  <2>2. got # <<>> => IsReport(written[1].pt)
    BY DEF WireInv
  <2>3. \/ Len(got) = Len(ends) \/ ends[Len(got) + 1] > Len(arrived)
        \/ got = <<>> /\ ~IsReport(written[1].pt)
    BY DEF WireInv
  <2> QED BY <1>1, <2>1, <2>2, <2>3
<1>3. g \in Nat /\ (got = <<>> => g = 0)
  <2>1. PICK S : got \in Seq(S)
    BY <1>2 DEF Listed
  <2> QED BY <1>1, <2>1, LenProperties, EmptySeq
<1>4. n \in Nat /\ upto <= n
  <2>1. PICK m \in Nat : Cut(data, m, arrived) /\ upto <= m
    BY DEF WireInv
  <2> QED BY <1>1, <2>1 DEF Cut
<1>5. PICK l : l = Len(es) /\ l \in Nat /\ DOMAIN es = 1 .. l /\ es \in Seq(Nat)
  BY <1>2, LenProperties DEF Packed
<1>6. \A k \in 1 .. l : es[k] \in Nat
  BY <1>5, ElementOfSeq
<1>7. CASE ~IsReport(written[1].pt)
  BY <1>1, <1>2, <1>3, <1>7
<1>8. CASE IsReport(written[1].pt)
  <2>1. g = l \/ es[g + 1] > n
    BY <1>2, <1>5, <1>8
  <2>2. \A k \in 1 .. l : es[k] <= n <=> k <= g
    <3> SUFFICES ASSUME NEW k \in 1 .. l PROVE es[k] <= n <=> k <= g
      OBVIOUS
    <3>1. CASE k <= g
      <4>1. g \in 1 .. l /\ g + 1 # 1 /\ (g + 1) - 1 = g
        BY <1>2, <1>3, <1>5, <3>1
      <4>2. upto = es[g]
        BY <1>2, <4>1 DEF Begin
      <4>3. es[k] <= es[g]
        BY <1>2, <1>5, <3>1, <4>1 DEF Packed
      <4> QED BY <1>4, <1>6, <3>1, <4>1, <4>2, <4>3
    <3>2. CASE ~(k <= g)
      <4>1. g + 1 \in 1 .. l /\ g + 1 <= k /\ g # l
        BY <1>3, <1>5, <3>2
      <4>2. es[g + 1] <= es[k]
        BY <1>2, <1>5, <4>1 DEF Packed
      <4>3. es[g + 1] > n
        BY <2>1, <4>1
      <4>4. PICK x, y : x = es[g + 1] /\ y = es[k] /\ x \in Nat /\ y \in Nat
        BY <1>6, <4>1
      <4> QED BY <1>4, <3>2, <4>2, <4>3, <4>4
    <3> QED BY <3>1, <3>2
  <2>3. {k \in 1 .. l : es[k] <= n} = 1 .. g
    <3>1. g <= l
      BY <1>2, <1>5
    <3> QED BY <1>3, <1>5, <2>2, <3>1
  <2>4. Cardinality(1 .. g) = g
    <3>1. PICK i : i = 1 /\ i \in Int
      OBVIOUS
    <3>2. Cardinality(i .. g) = IF i > g THEN 0 ELSE g - i + 1
      BY <1>3, <3>1, FS_Interval
    <3>3. (IF i > g THEN 0 ELSE g - i + 1) = g
      BY <1>3, <3>1
    <3> QED BY <3>1, <3>2, <3>3
  <2> QED BY <1>1, <1>5, <1>8, <2>3, <2>4
<1> QED BY <1>7, <1>8

\* sendSR and sendRR ask for as much as genSR and genRR write, whatever the name of
\* the server and whatever it reports: a report is never given up.
THEOREM ReportsAlwaysGoOut == Spec => []ReportsGoOut
<1>1. Init => WireInv /\ ReportsGoOut
  BY WireInit DEF Init, ReportsGoOut
<1>2. (WireInv /\ ReportsGoOut) /\ [Next]_vars => (WireInv /\ ReportsGoOut)'
  <2> SUFFICES ASSUME WireInv, ReportsGoOut, [Next]_vars PROVE ReportsGoOut'
    BY WireNext
  <2>1. CASE SendSR \/ SendRR
    BY <2>1, ServerWire DEF ReportsGoOut
  <2>2. CASE PeerWrites \/ ParseRtcp \/ ProcRtcp \/ Rtp
    BY <2>2 DEF PeerWrites, ParseRtcp, ProcRtcp, Stop, Rtp, Publish, ParseRtp, ProcRtp, ReportsGoOut
  <2>3. CASE UNCHANGED vars
    BY <2>3 DEF vars, ReportsGoOut
  <2> QED BY <2>1, <2>2, <2>3 DEF Next, Rtcp
<1>3. Spec => Init /\ [][Next]_vars
  BY PTL DEF Spec
<1> QED BY <1>1, <1>2, <1>3, PTL

\* Of every datagram that begins with a report, from the server itself or from a peer,
\* with padding or without, the reader takes the packets that lie in front of the cut, each
\* of them, and none behind.
THEOREM AllThatArrived == Spec => []WhatArrivedIsRead
<1>1. WireInv /\ [Next]_vars => WireInv'
  BY WireNext
<1>2. Spec => Init /\ [][Next]_vars
  BY PTL DEF Spec
<1> QED BY <1>1, <1>2, WireInit, TakenAll, PTL

\* The reader never stands within a packet.
LEMMA StandsInPlace == WireInv => (stage \in RtcpStage => InPlace)
<1> SUFFICES ASSUME WireInv, stage \in RtcpStage PROVE InPlace
  OBVIOUS
<1>1. /\ Len(written) = Len(ends) /\ Listed(got) /\ Len(got) <= Len(ends)
      /\ upto = Begin(ends, Len(got) + 1)
  BY DEF WireInv
<1>2. PICK g : g = Len(got) /\ g \in Nat /\ (g = 0 <=> got = <<>>)
  <2>1. PICK S : got \in Seq(S)
    BY <1>1 DEF Listed
  <2> QED BY <2>1, LenProperties, EmptySeq
<1>3. CASE g = 0
  BY <1>1, <1>2, <1>3 DEF InPlace, Begin
<1>4. CASE g # 0
  <2>1. g + 1 # 1 /\ (g + 1) - 1 = g
    BY <1>2, <1>4
  <2> QED BY <1>1, <1>2, <1>4, <2>1 DEF InPlace, Begin
<1> QED BY <1>3, <1>4

\* The reader never stands within a packet, whatever the peer wrote into it and wherever
\* the datagram was cut: what it reads next is the packet that was written next.
THEOREM NeverOutOfPlace == Spec => [](stage \in RtcpStage => InPlace)
<1>1. WireInv /\ [Next]_vars => WireInv'
  BY WireNext
<1>2. Spec => Init /\ [][Next]_vars
  BY PTL DEF Spec
<1> QED BY <1>1, <1>2, WireInit, StandsInPlace, PTL

-----------------------------------------------------------------------------
(* Octets put together                                                     *)

\* The least of a set of numbers that is not empty.
LEMMA LeastIs ==
  ASSUME NEW S, S \subseteq Nat, S # {}
  PROVE  \E x \in S : \A y \in S : x <= y
<1>1. PICK x \in S : \A y \in S : ~(<<y, x>> \in OpToRel(<, Nat))
  BY NatLessThanWellFounded, WFMin
<1>2. \A y \in S : ~(y < x)
  BY <1>1 DEF OpToRel
<1> QED BY <1>2

\* The octets put together of a sequence s of them lie behind one another, s[i] behind
\* h[i - 1] and up to h[i].
Stacked(F, s, m, h) ==
  /\ F \in Seq(Octet) /\ h \in [0 .. m -> Nat] /\ h[0] = 0 /\ Len(F) = h[m]
  /\ \A i \in 1 .. m : h[i] = h[i - 1] + Len(s[i]) /\ Lies(F, h[i - 1], s[i])

\* One more behind them.
LEMMA StackedMore ==
  ASSUME NEW s, NEW F, NEW m \in Nat, NEW h, Stacked(F, s, m, h), NEW n, n = m + 1, s[n] \in Seq(Octet),
         \A i \in 1 .. m : s[i] \in Seq(Octet), NEW G, G = F \o s[n]
  PROVE  \E g : Stacked(G, s, n, g)
<1>1. PICK l : l = Len(s[n]) /\ l \in Nat
  BY LenProperties
<1>2. /\ F \in Seq(Octet) /\ h \in [0 .. m -> Nat] /\ h[0] = 0 /\ Len(F) = h[m]
      /\ \A i \in 1 .. m : h[i] = h[i - 1] + Len(s[i]) /\ Lies(F, h[i - 1], s[i])
  BY DEF Stacked
<1>3. PICK x : x = h[m] /\ x \in Nat
  BY <1>2
<1>4. PICK g : g = [i \in 0 .. n |-> IF i = n THEN x + l ELSE h[i]]
  OBVIOUS
<1>5. g[n] = x + l /\ \A i \in 0 .. m : g[i] = h[i] /\ g[i] \in Nat
  BY <1>2, <1>4
<1>6. g \in [0 .. n -> Nat] /\ g[0] = 0
  <2>1. \A i \in 0 .. n : g[i] \in Nat
    BY <1>1, <1>3, <1>5
  <2> QED BY <1>2, <1>4, <1>5, <2>1
<1>7. /\ G \in Seq(Octet) /\ Lies(G, 0, F) /\ Lies(G, x, s[n]) /\ Len(G) = x + l
  <2>1. PICK t : t = s[n] /\ t \in Seq(Octet) /\ G = F \o t /\ x = Len(F) /\ l = Len(t)
                /\ F \in Seq(Octet)
    BY <1>1, <1>2, <1>3
  <2>2. /\ G \in Seq(Octet) /\ Lies(G, 0, F) /\ Lies(G, x, t) /\ Len(G) = x + Len(t)
    BY ONLY <2>1, LiesConcat
  <2> QED BY <2>1, <2>2
<1>8. ASSUME NEW i \in 1 .. n
      PROVE  g[i] = g[i - 1] + Len(s[i]) /\ Lies(G, g[i - 1], s[i])
  <2>1. CASE i = n
    <3>1. i - 1 = m /\ m \in 0 .. m
      BY <2>1
    <3> QED BY <1>1, <1>3, <1>5, <1>7, <2>1, <3>1
  <2>2. CASE i # n
    <3>1. i \in 1 .. m /\ i \in 0 .. m /\ i - 1 \in 0 .. m
      BY <2>2
    <3>2. h[i] = h[i - 1] + Len(s[i]) /\ Lies(F, h[i - 1], s[i]) /\ s[i] \in Seq(Octet) /\ h[i - 1] \in Nat
      BY <1>2, <3>1
    <3>3. Len(G) \in Nat
      BY <1>1, <1>3, <1>7
    <3>4. PICK z, c, t : z = 0 /\ c = h[i - 1] /\ t = s[i] /\ z + c = c
      BY <3>2
    <3>5. Lies(G, z + c, t)
      BY <1>2, <1>7, <3>2, <3>3, <3>4, LiesWithin
    <3> QED BY <1>5, <3>1, <3>2, <3>4, <3>5
  <2> QED BY <2>1, <2>2
<1>9. Stacked(G, s, n, g)
  BY <1>5, <1>6, <1>7, <1>8 DEF Stacked
<1> QED BY <1>9

\* What FlattenSeq calculates.
Flattens(g, s, m) == g = [i \in 1 .. m |-> IF i = 1 THEN s[i] ELSE g[i - 1] \o s[i]]

\* The recursion of FlattenSeq has a solution.
LEMMA FlattensExists ==
  ASSUME NEW s, NEW n \in Nat
  PROVE  \E g : Flattens(g, s, n)
<1> DEFINE B == {k \in Nat : ~\E g : Flattens(g, s, k)}
<1>1. SUFFICES ASSUME B # {} PROVE FALSE
  OBVIOUS
<1>2. PICK k \in B : \A j \in B : k <= j
  <2>1. B \subseteq Nat
    OBVIOUS
  <2> QED BY <1>1, <2>1, LeastIs
<1>3. CASE k = 0
  <2> DEFINE g == [i \in 1 .. 0 |-> s[i]]
  <2>1. Flattens(g, s, 0)
    BY DEF Flattens
  <2> QED BY <1>2, <1>3, <2>1
<1>4. CASE k # 0
  <2>1. k - 1 \in Nat /\ k - 1 \notin B
    BY <1>2, <1>4
  <2>2. PICK f : Flattens(f, s, k - 1)
    BY <2>1
  <2> DEFINE g == [i \in 1 .. k |-> IF i = 1 THEN s[i] ELSE f[i - 1] \o s[i]]
  <2>3. \A i \in 1 .. k - 1 : f[i] = IF i = 1 THEN s[i] ELSE f[i - 1] \o s[i]
    BY <2>2 DEF Flattens
  <2>4. \A i \in 1 .. k - 1 : g[i] = f[i]
    BY <2>1, <2>3
  <2>5. \A i \in 1 .. k : i # 1 => f[i - 1] = g[i - 1]
    <3>1. \A i \in 1 .. k : i # 1 => i - 1 \in 1 .. k - 1
      BY <2>1
    <3> HIDE DEF g
    <3> QED BY <2>4, <3>1
  <2>6. g = [i \in 1 .. k |-> IF i = 1 THEN s[i] ELSE g[i - 1] \o s[i]]
    BY <2>5
  <2>7. Flattens(g, s, k)
    BY <2>6 DEF Flattens
  <2> QED BY <1>2, <2>7
<1> QED BY <1>3, <1>4

\* FlattenSeq lays them one behind the other.
LEMMA FlattenStacks ==
  ASSUME NEW s, NEW n \in Nat, Listed(s), Len(s) = n, \A i \in 1 .. n : s[i] \in Seq(Octet),
         NEW F, F = FlattenSeq(s)
  PROVE  \E h : Stacked(F, s, n, h)
<1>1. Stacked(<<>>, s, 0, [i \in 0 .. 0 |-> 0])
  <2>1. PICK e, z, h : e = <<>> /\ z = 0 /\ h = [i \in z .. z |-> z]
    OBVIOUS
  <2>2. e \in Seq(Octet) /\ Len(e) = z
    BY <2>1, EmptySeq
  <2>3. h \in [z .. z -> Nat] /\ h[z] = z
    BY <2>1
  <2>4. \A i \in 1 .. z : FALSE
    BY <2>1
  <2>5. Stacked(e, s, z, h)
    BY <2>1, <2>2, <2>3, <2>4 DEF Stacked
  <2> QED BY <2>1, <2>5
<1>2. CASE n = 0
  <2>1. F = s
    BY <1>2 DEF FlattenSeq
  <2>2. PICK S : s \in Seq(S)
    BY DEF Listed
  <2>3. s = <<>>
    BY <1>2, <2>2, EmptySeq
  <2> QED BY <1>1, <1>2, <2>1, <2>3
<1>3. CASE n # 0
  <2>1. PICK g : Flattens(g, s, n) /\ F = g[n]
    <3>1. PICK f : f = CHOOSE g : Flattens(g, s, n)
      OBVIOUS
    <3>2. F = f[n]
      BY <1>3, <3>1 DEF FlattenSeq, Flattens
    <3>3. Flattens(f, s, n)
      BY <3>1, FlattensExists
    <3> QED BY <3>2, <3>3
  <2>2. \A i \in 1 .. n : g[i] = IF i = 1 THEN s[i] ELSE g[i - 1] \o s[i]
    BY <2>1 DEF Flattens
  <2> DEFINE B == {k \in Nat : k \in 1 .. n /\ ~\E h : Stacked(g[k], s, k, h)}
  <2>3. SUFFICES ASSUME B # {} PROVE FALSE
    <3>1. n \in 1 .. n
      BY <1>3
    <3>2. ASSUME B = {} PROVE \E h : Stacked(g[n], s, n, h)
      BY <3>1, <3>2
    <3> QED BY <2>1, <3>2
  <2>4. PICK k \in B : \A j \in B : k <= j
    <3>1. B \subseteq Nat
      OBVIOUS
    <3> QED BY <2>3, <3>1, LeastIs
  <2>5. PICK m \in Nat : k = m + 1
    BY <2>4
  <2>6. \A i \in 1 .. m : s[i] \in Seq(Octet)
    BY <2>4, <2>5
  <2>7. s[k] \in Seq(Octet)
    BY <2>4
  <2>8. CASE m = 0
    <3>1. g[k] = <<>> \o s[k]
      <4>1. g[k] = s[k]
        BY <2>2, <2>4, <2>5, <2>8
      <4> QED BY <2>7, <4>1, ConcatEmptySeq
    <3>2. PICK e, h : e = <<>> /\ Stacked(e, s, m, h)
      BY <1>1, <2>8
    <3>3. \E f : Stacked(g[k], s, k, f)
      BY <2>5, <2>6, <2>7, <3>1, <3>2, StackedMore
    <3> QED BY <2>4, <3>3
  <2>9. CASE m # 0
    <3>1. m \in 1 .. n /\ m \notin B /\ k - 1 = m /\ k # 1
      BY <2>4, <2>5, <2>9
    <3>2. PICK h : Stacked(g[m], s, m, h)
      BY <3>1
    <3>3. g[k] = g[m] \o s[k]
      BY <2>2, <2>4, <3>1
    <3>4. \E f : Stacked(g[k], s, k, f)
      BY <2>5, <2>6, <2>7, <3>2, <3>3, StackedMore
    <3> QED BY <2>4, <3>4
  <2> QED BY <2>8, <2>9
<1> QED BY <1>2, <1>3

-----------------------------------------------------------------------------
(* Reports are read as they were written                                   *)

\* Three octets carry a sign.
LEMMA ThreeOctets ==
  ASSUME NEW v \in LostCount, NEW o, o = OctetsOf(v, 3)
  PROVE  Int24(o) = v
<1>1. PICK x, y, z : x = 256 ^ (3 - 1) /\ y = 256 ^ (3 - 2) /\ z = 256 ^ (3 - 3)
  OBVIOUS
<1>2. o[1] = (v \div x) % 256 /\ o[2] = (v \div y) % 256 /\ o[3] = (v \div z) % 256
  BY <1>1 DEF OctetsOf
<1>3. x = 65536 /\ y = 256 /\ z = 1
  BY <1>1
<1>4. v \in Int /\ -8388608 <= v /\ v <= 8388607 /\ v \div 1 = v
  BY DEF LostCount
<1>5. PICK p, c \in Int : p = v \div 256 /\ c = v % 256
  BY <1>4
<1>6. v = 256 * p + c /\ 0 <= c /\ c <= 255
  BY <1>4, <1>5
<1>7. PICK q, b \in Int : q = p \div 256 /\ b = p % 256
  OBVIOUS
<1>8. p = 256 * q + b /\ 0 <= b /\ b <= 255
  BY <1>7
<1>9. v \div 65536 = q
  <2>1. v = 65536 * q + (256 * b + c) /\ 0 <= 256 * b + c /\ 256 * b + c < 65536
    BY <1>6, <1>8
  <2> QED BY <1>4, <2>1
<1>10. -128 <= q /\ q <= 127
  BY <1>4, <1>6, <1>8
<1>11. PICK a \in Int : a = q % 256
  OBVIOUS
<1>12. a = IF q < 0 THEN q + 256 ELSE q
  BY <1>10, <1>11
<1>13. o[1] = a /\ o[2] = b /\ o[3] = c
  BY <1>2, <1>3, <1>4, <1>5, <1>7, <1>9, <1>11
<1>14. PICK u \in Int : u = 256 * (256 * a + b) + c
  OBVIOUS
<1>15. Int24(o) = IF u < 2 ^ 23 THEN u ELSE u - 2 ^ 24
  BY <1>13, <1>14 DEF Int24, Num
<1>16. CASE q < 0
  <2>1. u = v + 16777216 /\ ~(u < 8388608)
    BY <1>4, <1>6, <1>8, <1>10, <1>12, <1>14, <1>16
  <2> QED BY <1>4, <1>15, <2>1
<1>17. CASE ~(q < 0)
  <2>1. u = v /\ u < 8388608
    BY <1>4, <1>6, <1>8, <1>10, <1>12, <1>14, <1>17
  <2> QED BY <1>4, <1>15, <2>1
<1> QED BY <1>16, <1>17

\* Parts of the same size.
LEMMA StackedEven ==
  ASSUME NEW s, NEW F, NEW m \in Nat, NEW h, Stacked(F, s, m, h), NEW w \in Nat,
         \A i \in 1 .. m : Len(s[i]) = w
  PROVE  Len(F) = w * m /\ \A i \in 1 .. m : Lies(F, w * (i - 1), s[i])
<1>1. /\ h \in [0 .. m -> Nat] /\ h[0] = 0 /\ Len(F) = h[m]
      /\ \A i \in 1 .. m : h[i] = h[i - 1] + w /\ Lies(F, h[i - 1], s[i])
  BY DEF Stacked
<1> DEFINE B == {i \in Nat : i <= m /\ h[i] # w * i}
<1>2. ASSUME B # {} PROVE FALSE
  <2>1. PICK k \in B : \A j \in B : k <= j
    <3>1. B \subseteq Nat
      OBVIOUS
    <3> QED BY <1>2, <3>1, LeastIs
  <2>2. k # 0
    BY <1>1, <2>1
  <2>3. k - 1 \in Nat /\ k - 1 \notin B /\ k - 1 <= m /\ k \in 1 .. m
    BY <2>1, <2>2
  <2>4. h[k - 1] = w * (k - 1)
    BY <2>3
  <2>5. h[k] = w * (k - 1) + w
    BY <1>1, <2>3, <2>4
  <2>6. w * (k - 1) + w = w * k
    BY <2>1
  <2> QED BY <2>1, <2>5, <2>6
<1>3. \A i \in 0 .. m : h[i] = w * i
  BY <1>2
<1>4. ASSUME NEW i \in 1 .. m PROVE Lies(F, w * (i - 1), s[i])
  <2>1. i - 1 \in 0 .. m
    OBVIOUS
  <2> QED BY <1>1, <1>3, <2>1
<1> QED BY <1>1, <1>3, <1>4

\* An SSRC has four octets.
LEMMA SsrcIs == ASSUME NEW s \in SsrcOctets PROVE s \in Seq(Octet) /\ Len(s) = 4
<1>1. PICK n \in Nat : n = 4 /\ s \in [1 .. n -> Octet]
  BY DEF SsrcOctets
<1>2. s \in Seq(Octet)
  BY <1>1, SeqDef
<1>3. DOMAIN s = 1 .. n
  BY <1>1
<1> QED BY <1>1, <1>2, <1>3, LenProperties

LEMMA ServerSsrc == Ssrc \in SsrcOctets
<1>1. PICK n \in Nat : n = 4 /\ Len(Ssrc) = n /\ Ssrc \in Seq(Octet)
  BY FormatAssumption
<1>2. Ssrc \in [1 .. n -> Octet]
  BY <1>1, LenProperties
<1> QED BY <1>1, <1>2 DEF SsrcOctets

-----------------------------------------------------------------------------
(* Reports *)

\* A report block.
LEMMA BlkLies ==
  ASSUME NEW r \in SrcReport, NEW c, c = ReportBlk(r)
  PROVE  /\ c \in Seq(Octet) /\ Len(c) = 24
         /\ Lies(c, 0, r.ssrc) /\ Lies(c, 5, OctetsOf(r.lost, 3))
<1>1. PICK a, b, l, o, d : /\ a = r.ssrc /\ b = <<0>> /\ l = r.lost /\ o = OctetsOf(l, 3)
                           /\ d = Zeros(16)
  OBVIOUS
<1>2. a \in SsrcOctets /\ l \in LostCount
  BY <1>1 DEF SrcReport
<1>3. a \in Seq(Octet) /\ Len(a) = 4
  BY <1>2, SsrcIs
<1>4. b \in Seq(Octet) /\ Len(b) = 1
  <2>1. PICK z : z = 0 /\ z \in Octet
    BY DEF Octet
  <2> QED BY <1>1, <2>1, OneSeq
<1>5. l \in Int
  BY <1>2 DEF LostCount
<1>6. o \in Seq(Octet) /\ Len(o) = 3
  BY <1>1, <1>5, ThreeOctetsIn
<1>7. d \in Seq(Octet) /\ Len(d) = 16
  <2>1. \A n \in Nat : Zeros(n) \in Seq(Octet) /\ Len(Zeros(n)) = n
    BY ZerosLen
  <2> QED BY <1>1, <2>1
<1>8. PICK ab, abo : ab = a \o b /\ abo = ab \o o
  OBVIOUS
<1>9. c = abo \o d
  BY <1>1, <1>8 DEF ReportBlk
<1>10. PICK z, n, m : z = 0 /\ n = 4 /\ m = 5 /\ z \in Nat
  OBVIOUS
<1>11. ab \in Seq(Octet) /\ Len(ab) = m /\ Lies(ab, z, a)
  <2>1. ab \in Seq(Octet) /\ Lies(ab, 0, a) /\ Len(ab) = n + Len(b)
    <3>1. a \in Seq(Octet) /\ b \in Seq(Octet) /\ ab = a \o b /\ n = Len(a)
      BY <1>3, <1>4, <1>8, <1>10
    <3> QED BY ONLY <3>1, LiesConcat
  <2> QED BY <1>4, <1>10, <2>1
<1>12. abo \in Seq(Octet) /\ Len(abo) = 8 /\ Lies(abo, z, ab) /\ Lies(abo, m, o)
  <2>1. abo \in Seq(Octet) /\ Lies(abo, 0, ab) /\ Lies(abo, m, o) /\ Len(abo) = m + Len(o)
    <3>1. ab \in Seq(Octet) /\ o \in Seq(Octet) /\ abo = ab \o o /\ m = Len(ab)
      BY <1>6, <1>8, <1>11
    <3> QED BY ONLY <3>1, LiesConcat
  <2> QED BY <1>6, <1>10, <2>1
<1>13. c \in Seq(Octet) /\ Len(c) = 24 /\ Lies(c, z, abo)
  <2>1. PICK e : e = 8 /\ e = Len(abo)
    BY <1>12
  <2>2. c \in Seq(Octet) /\ Lies(c, 0, abo) /\ Len(c) = e + Len(d)
    <3>1. abo \in Seq(Octet) /\ d \in Seq(Octet) /\ c = abo \o d /\ e = Len(abo)
      BY <1>7, <1>9, <1>12, <2>1
    <3> QED BY ONLY <3>1, LiesConcat
  <2>3. PICK j, k : j = Len(d) /\ k = Len(c) /\ k = e + j /\ j = 16
    BY <1>7, <2>2
  <2>4. k = 24
    BY <2>1, <2>3
  <2> QED BY <1>10, <2>2, <2>3, <2>4
<1>14. z + m = m /\ z + z = z /\ Len(c) \in Nat /\ Len(abo) \in Nat
  BY <1>10, <1>12, <1>13
<1>15. Lies(c, z + m, o)
  BY <1>6, <1>12, <1>13, <1>14, LiesWithin
<1>16. Lies(abo, z + z, a)
  BY <1>3, <1>11, <1>12, <1>14, LiesWithin
<1>17. Lies(c, z + (z + z), a)
  BY <1>3, <1>12, <1>13, <1>14, <1>16, LiesWithin
<1>18. Lies(c, 0, a) /\ Lies(c, 5, o)
  BY <1>10, <1>14, <1>15, <1>17
<1> QED BY <1>1, <1>13, <1>18

ReportPacket == [pt : {SR, RR}, body : [ssrc : SsrcOctets, reports : Seq(SrcReport)]]
Beg(pt) == IF pt = SR THEN 24 ELSE 4

\* The octets of a report.
ReportsLie(d, p) ==
  /\ d \in Seq(Octet) /\ Len(d) = Beg(p.pt) + 24 * Len(p.body.reports)
  /\ Lies(d, 0, p.body.ssrc)
  /\ \A i \in 1 .. Len(p.body.reports) :
       Lies(d, Beg(p.pt) + 24 * (i - 1), ReportBlk(p.body.reports[i]))

\* A block is read as it was written.
LEMMA ReadBlk ==
  ASSUME NEW d \in Seq(Octet), NEW b, NEW r \in SrcReport, Lies(d, b, ReportBlk(r))
  PROVE  ParseReportBlk(d, b) = r
<1>1. PICK c, a, o, l : c = ReportBlk(r) /\ a = r.ssrc /\ l = r.lost /\ o = OctetsOf(l, 3)
  OBVIOUS
<1>2. a \in SsrcOctets /\ l \in LostCount /\ r = [ssrc |-> a, lost |-> l]
  BY <1>1 DEF SrcReport
<1>3. a \in Seq(Octet) /\ Len(a) = 4
  BY <1>2, SsrcIs
<1>4. o \in Seq(Octet) /\ Len(o) = 3
  <2>1. l \in Int
    BY <1>2 DEF LostCount
  <2> QED BY <1>1, <2>1, ThreeOctetsIn
<1>5. PICK z, m : z = 0 /\ m = 5
  OBVIOUS
<1>6. c \in Seq(Octet) /\ Lies(c, z, a) /\ Lies(c, m, o)
  BY <1>1, <1>5, BlkLies
<1>7. Lies(d, b, c) /\ b \in Nat /\ Len(d) \in Nat
  BY <1>1, LenProperties DEF Lies
<1>8. Lies(d, b + z, a) /\ Lies(d, b + m, o)
  BY <1>3, <1>4, <1>6, <1>7, LiesWithin
<1>9. b + z = b /\ b + m = b + 5
  BY <1>5, <1>7
<1>10. Field(d, b, 4) = a
  <2>1. PICK n : n = 4 /\ n = Len(a)
    BY <1>3
  <2>2. d \in Seq(Octet) /\ a \in Seq(Octet) /\ Lies(d, b, a) /\ n = Len(a)
    BY <1>3, <1>8, <1>9, <2>1
  <2>3. Field(d, b, n) = a
    BY ONLY <2>2, LiesField
  <2> QED BY <2>1, <2>3
<1>11. Field(d, b + 5, 3) = o
  <2>1. PICK n, x : n = 3 /\ n = Len(o) /\ x = b + 5
    BY <1>4
  <2>2. d \in Seq(Octet) /\ o \in Seq(Octet) /\ Lies(d, x, o) /\ n = Len(o)
    BY <1>4, <1>8, <1>9, <2>1
  <2>3. Field(d, x, n) = o
    BY ONLY <2>2, LiesField
  <2> QED BY <2>1, <2>3
<1>12. Int24(o) = l
  BY <1>1, <1>2, ThreeOctets
<1> QED BY <1>2, <1>10, <1>11, <1>12 DEF ParseReportBlk, Report

\* A report is read as it was written.
LEMMA ReadReports ==
  ASSUME NEW p \in ReportPacket, NEW d, ReportsLie(d, p)
  PROVE  ParseReports(p.pt, Len(p.body.reports), d) = p
<1>1. PICK pt, body, s, r, n : pt = p.pt /\ body = p.body /\ s = body.ssrc /\ r = body.reports /\ n = Len(r)
  OBVIOUS
<1>2. body \in [ssrc : SsrcOctets, reports : Seq(SrcReport)] /\ p = [pt |-> pt, body |-> body]
  BY <1>1 DEF ReportPacket
<1>3. s \in SsrcOctets /\ r \in Seq(SrcReport) /\ body = [ssrc |-> s, reports |-> r]
  BY <1>1, <1>2
<1>4. n \in Nat /\ DOMAIN r = 1 .. n /\ r = [i \in 1 .. n |-> r[i]] /\ \A i \in 1 .. n : r[i] \in SrcReport
  <2>1. n \in Nat /\ DOMAIN r = 1 .. n /\ r \in [1 .. n -> SrcReport]
    BY <1>1, <1>3, LenProperties
  <2> QED BY <2>1
<1>5. PICK beg : beg = Beg(pt)
  OBVIOUS
<1>6. /\ d \in Seq(Octet) /\ Len(d) = beg + 24 * n /\ Lies(d, 0, s)
      /\ \A i \in 1 .. n : Lies(d, beg + 24 * (i - 1), ReportBlk(r[i]))
  BY <1>1, <1>5 DEF ReportsLie
<1>7. Field(d, 0, 4) = s
  <2>1. PICK o, m : o = 0 /\ m = 4 /\ s \in Seq(Octet) /\ m = Len(s) /\ Lies(d, o, s)
                  /\ d \in Seq(Octet)
    BY <1>3, <1>6, SsrcIs
  <2>2. Field(d, o, m) = s
    <3>1. s \in Seq(Octet) /\ m = Len(s) /\ Lies(d, o, s) /\ d \in Seq(Octet)
      BY <2>1
    <3> QED BY ONLY <3>1, LiesField
  <2> QED BY <2>1, <2>2
<1>8. \A i \in 1 .. n : ParseReportBlk(d, beg + 24 * (i - 1)) = r[i]
  BY <1>4, <1>6, ReadBlk
<1>9. [i \in 1 .. n |-> ParseReportBlk(d, beg + 24 * (i - 1))] = r
  BY <1>4, <1>8
<1>10. PICK q : q = [i \in 1 .. n |-> ParseReportBlk(d, beg + 24 * (i - 1))] /\ q = r
  BY <1>9
<1>11. ParseReports(pt, n, d) = Packet(pt, [ssrc |-> Field(d, 0, 4), reports |-> q])
  BY <1>5, <1>6, <1>10 DEF ParseReports, Beg
<1>12. ParseReports(pt, n, d) = [pt |-> pt, body |-> [ssrc |-> s, reports |-> r]]
  BY <1>7, <1>10, <1>11 DEF Packet
<1> QED BY <1>1, <1>2, <1>3, <1>12

\* And so a peer writes it.
LEMMA PeerReports ==
  ASSUME NEW p \in ReportPacket, NEW d, d = BodyOctets(p)
  PROVE  ReportsLie(d, p)
<1>1. PICK pt, body, s, r, n : pt = p.pt /\ body = p.body /\ s = body.ssrc /\ r = body.reports /\ n = Len(r)
  OBVIOUS
<1>2. body \in [ssrc : SsrcOctets, reports : Seq(SrcReport)] /\ pt \in {SR, RR}
  BY <1>1 DEF ReportPacket
<1>3. s \in SsrcOctets /\ r \in Seq(SrcReport)
  BY <1>1, <1>2
<1>4. n \in Nat /\ DOMAIN r = 1 .. n /\ \A i \in 1 .. n : r[i] \in SrcReport
  <2>1. n \in Nat /\ DOMAIN r = 1 .. n /\ r \in [1 .. n -> SrcReport]
    BY <1>1, <1>3, LenProperties
  <2> QED BY <2>1
<1>5. PICK x \in Nat : x = IF pt = SR THEN 20 ELSE 0
  OBVIOUS
<1>6. PICK z, f, F, a : /\ z = Zeros(x) /\ f = [i \in DOMAIN r |-> ReportBlk(r[i])]
                        /\ F = FlattenSeq(f) /\ a = s \o z
  OBVIOUS
<1>7. d = a \o F
  <2>1. BodyOctets(p) = p.body.ssrc \o Zeros(IF p.pt = SR THEN 20 ELSE 0)
          \o FlattenSeq([i \in DOMAIN p.body.reports |-> ReportBlk(p.body.reports[i])])
    <3>1. p.pt \in {SR, RR} /\ p.pt # SDES /\ p.pt # BYE /\ p.pt # APP
      BY <1>1, <1>2 DEF SR, RR, SDES, BYE, APP
    <3>2. BodyOctets(p) = ReportOctets(p)
      BY ONLY <3>1 DEF BodyOctets
    <3> QED BY <3>2 DEF ReportOctets
  <2> QED BY <1>1, <1>5, <1>6, <2>1
<1>8. s \in Seq(Octet) /\ Len(s) = 4 /\ z \in Seq(Octet) /\ Len(z) = x
  BY <1>3, <1>5, <1>6, SsrcIs, ZerosLen
<1>9. a \in Seq(Octet) /\ Len(a) = 4 + x /\ Lies(a, 0, s)
  <2>1. PICK four : four = 4 /\ four = Len(s)
    BY <1>8
  <2>2. a \in Seq(Octet) /\ Lies(a, 0, s) /\ Len(a) = four + Len(z)
    <3>1. s \in Seq(Octet) /\ z \in Seq(Octet) /\ a = s \o z /\ four = Len(s)
      BY <1>6, <1>8, <2>1
    <3> QED BY ONLY <3>1, LiesConcat
  <2> QED BY <1>8, <2>1, <2>2
<1>10. Beg(pt) = 4 + x /\ Beg(pt) \in Nat
  BY <1>2, <1>5 DEF Beg, SR, RR
<1>11. \A i \in 1 .. n : f[i] = ReportBlk(r[i]) /\ f[i] \in Seq(Octet) /\ Len(f[i]) = 24
  BY <1>4, <1>6, BlkLies
<1>12. Listed(f) /\ Len(f) = n
  <2>1. f \in [1 .. n -> Seq(Octet)] /\ DOMAIN f = 1 .. n
    BY <1>4, <1>6, <1>11
  <2>2. f \in Seq(Seq(Octet))
    BY <1>4, <2>1, SeqDef
  <2> QED BY <1>4, <2>1, <2>2, LenProperties DEF Listed
<1>13. PICK w \in Nat : w = 24
  OBVIOUS
<1>14. PICK h : Stacked(F, f, n, h)
  BY <1>4, <1>6, <1>11, <1>12, FlattenStacks
<1>15. Len(F) = w * n /\ \A i \in 1 .. n : Lies(F, w * (i - 1), f[i])
  <2>1. \A i \in 1 .. n : Len(f[i]) = w
    BY <1>11, <1>13
  <2> QED BY <1>4, <1>14, <2>1, StackedEven
<1>16. F \in Seq(Octet)
  BY <1>14 DEF Stacked
<1>17. PICK b : b = Beg(pt) /\ b = Len(a) /\ b \in Nat
  BY <1>9, <1>10
<1>18. d \in Seq(Octet) /\ Lies(d, 0, a) /\ Lies(d, b, F) /\ Len(d) = b + Len(F) /\ Len(d) \in Nat
  <2>1. a \in Seq(Octet) /\ F \in Seq(Octet) /\ d = a \o F /\ b = Len(a)
    BY <1>7, <1>9, <1>16, <1>17
  <2>2. d \in Seq(Octet) /\ Lies(d, 0, a) /\ Lies(d, b, F) /\ Len(d) = b + Len(F)
    BY ONLY <2>1, LiesConcat
  <2> QED BY <2>2, LenProperties
<1>19. Lies(d, 0, s)
  <2>1. PICK o : o = 0 /\ o + o = o
    OBVIOUS
  <2>2. Lies(d, o + o, s)
    BY <1>8, <1>9, <1>18, <2>1, LiesWithin
  <2> QED BY <2>1, <2>2
<1>20. ASSUME NEW i \in 1 .. n PROVE Lies(d, b + 24 * (i - 1), ReportBlk(r[i]))
  <2>1. PICK c, t : c = w * (i - 1) /\ t = f[i] /\ t \in Seq(Octet) /\ Lies(F, c, t)
    BY <1>11, <1>15
  <2>2. Lies(d, b + c, t)
    BY <1>16, <1>18, <2>1, LiesWithin
  <2> QED BY <1>11, <1>13, <2>1, <2>2
<1>21. Len(d) = b + 24 * n
  BY <1>13, <1>15, <1>18
<1> QED BY <1>1, <1>17, <1>18, <1>19, <1>20, <1>21 DEF ReportsLie

-----------------------------------------------------------------------------
(* Items are                                                               *)

\* One octet of the recursion of Items.
ItemsAt(d, f, p) ==
  IF p = Len(d) THEN [ok |-> TRUE, next |-> p, items |-> <<>>]
  ELSE IF d[p + 1] = 0
  THEN [ok |-> Left(d, p + 1, Padding(p + 1)), next |-> p + 1 + Padding(p + 1), items |-> <<>>]
  ELSE IF d[p + 1] <= 8 /\ Left(d, p, 2) /\ Left(d, p + 2, d[p + 2])
  THEN [f[p + 2 + d[p + 2]] EXCEPT !.items =
          <<Item(d[p + 1], Field(d, p + 2, d[p + 2]))>> \o @]
  ELSE [ok |-> FALSE, next |-> p, items |-> <<>>]

\* It looks only further on.
LEMMA ItemsAhead ==
  ASSUME NEW d \in Seq(Octet), NEW l \in Nat, l = Len(d), NEW p \in 0 .. l, NEW f, NEW g,
         \A q \in p + 1 .. l : f[q] = g[q]
  PROVE  ItemsAt(d, f, p) = ItemsAt(d, g, p)
<1>1. CASE p # l /\ Left(d, p, 2) /\ Left(d, p + 2, d[p + 2])
  <2>1. p + 2 \in 1 .. l
    BY <1>1 DEF Left
  <2>2. d[p + 2] \in Octet
    BY <2>1, ElementOfSeq
  <2>3. PICK x \in Nat : x = d[p + 2]
    BY <2>2 DEF Octet
  <2>4. p + 2 + x \in p + 1 .. l
    BY <1>1, <2>3 DEF Left
  <2>5. f[p + 2 + d[p + 2]] = g[p + 2 + d[p + 2]]
    BY <2>3, <2>4
  <2> QED BY <2>5 DEF ItemsAt
<1>2. CASE ~(p # l /\ Left(d, p, 2) /\ Left(d, p + 2, d[p + 2]))
  BY <1>2 DEF ItemsAt
<1> QED BY <1>1, <1>2

\* The recursion from some octet on.
ItemsFrom(f, d, m) == f = [p \in m .. Len(d) |-> ItemsAt(d, f, p)]

LEMMA ItemsExist ==
  ASSUME NEW d \in Seq(Octet)
  PROVE  \E f : ItemsFrom(f, d, 0)
<1>1. PICK l : l = Len(d) /\ l \in Nat
  BY LenProperties
<1> DEFINE B == {k \in Nat : k <= l /\ ~\E f : ItemsFrom(f, d, l - k)}
<1>2. ASSUME B # {} PROVE FALSE
  <2>1. PICK k \in B : \A j \in B : k <= j
    <3>1. B \subseteq Nat
      OBVIOUS
    <3> QED BY <1>2, <3>1, LeastIs
  <2>2. CASE k = 0
    <3> DEFINE f == [p \in l .. l |-> [ok |-> TRUE, next |-> p, items |-> <<>>]]
    <3>1. \A p \in l .. l : ItemsAt(d, f, p) = [ok |-> TRUE, next |-> p, items |-> <<>>]
      <4>1. \A p \in l .. l : p = Len(d)
        BY <1>1
      <4> QED BY <4>1 DEF ItemsAt
    <3>2. f = [p \in l .. l |-> ItemsAt(d, f, p)]
      BY <3>1
    <3>3. ItemsFrom(f, d, l - k)
      BY <1>1, <2>2, <3>2 DEF ItemsFrom
    <3> QED BY <2>1, <3>3
  <2>3. CASE k # 0
    <3>0. PICK i : i = k - 1 /\ i \in Nat /\ ~(k <= i) /\ i <= l /\ k <= l
      BY <1>1, <2>1, <2>3
    <3>1. k - 1 \in Nat /\ k - 1 \notin B /\ k - 1 <= l /\ k <= l
      BY <2>1, <3>0
    <3>2. PICK f : ItemsFrom(f, d, l - (k - 1))
      BY <3>1
    <3>3. PICK m \in Nat : m = l - k /\ m + 1 = l - (k - 1)
      BY <1>1, <3>1
    <3>4. \A p \in m + 1 .. l : f[p] = ItemsAt(d, f, p)
      BY <1>1, <3>2, <3>3 DEF ItemsFrom
    <3>5. PICK g : g = [p \in m .. l |-> ItemsAt(d, f, p)]
      OBVIOUS
    <3>6. \A p \in m + 1 .. l : f[p] = g[p]
      <4>1. \A p \in m + 1 .. l : p \in m .. l
        BY <1>1, <3>3
      <4> QED BY <3>4, <3>5, <4>1
    <3>7. \A p \in m .. l : ItemsAt(d, f, p) = ItemsAt(d, g, p)
      <4> SUFFICES ASSUME NEW p \in m .. l PROVE ItemsAt(d, f, p) = ItemsAt(d, g, p)
        OBVIOUS
      <4>1. p \in 0 .. l /\ \A q \in p + 1 .. l : f[q] = g[q]
        BY <1>1, <3>6
      <4> QED BY <1>1, <4>1, ItemsAhead
    <3>8. g = [p \in m .. l |-> ItemsAt(d, g, p)]
      BY <3>5, <3>7
    <3>9. ItemsFrom(g, d, l - k)
      BY <1>1, <3>3, <3>8 DEF ItemsFrom
    <3> QED BY <2>1, <3>9
  <2> QED BY <2>2, <2>3
<1>3. l - l = 0 /\ l <= l /\ l \notin B
  BY <1>1, <1>2
<1> QED BY <1>1, <1>3

LEMMA ItemsIs ==
  ASSUME NEW d \in Seq(Octet)
  PROVE  \A p \in 0 .. Len(d) : Items(d)[p] = ItemsAt(d, Items(d), p)
<1>1. PICK f : f = CHOOSE g : ItemsFrom(g, d, 0)
  OBVIOUS
<1>2. ItemsFrom(f, d, 0)
  BY <1>1, ItemsExist
<1>3. Items(d) = f
  BY <1>1 DEF Items, ItemsFrom, ItemsAt
<1> QED BY <1>2, <1>3 DEF ItemsFrom

\* An item.
LEMMA ItemLies ==
  ASSUME NEW it \in SrcItem, NEW c, c = ItemOctets(it)
  PROVE  /\ c \in Seq(Octet) /\ it.desc \in Seq(Octet) /\ Len(it.desc) \in Octet
         /\ Len(c) = 2 + Len(it.desc)
         /\ c[1] = it.type /\ c[2] = Len(it.desc) /\ Lies(c, 2, it.desc)
         /\ it.type \in 1 .. 8 /\ it = Item(it.type, it.desc)
<1>1. PICK t, s, m, a, two : t = it.type /\ s = it.desc /\ m = Len(s) /\ a = <<t, m>> /\ two = 2
  OBVIOUS
<1>2. t \in 1 .. 8 /\ s \in Seq(Octet) /\ m \in Octet /\ it = [type |-> t, desc |-> s]
  BY <1>1 DEF SrcItem
<1>3. t \in Octet
  BY <1>2 DEF Octet
<1>4. a \in Seq(Octet) /\ Len(a) = two /\ a[1] = t /\ a[2] = m
  BY <1>1, <1>2, <1>3, TwoSeq
<1>5. c = a \o s
  BY <1>1 DEF ItemOctets
<1>6. c \in Seq(Octet) /\ Lies(c, two, s) /\ Len(c) = two + Len(s) /\ \A k \in 1 .. two : c[k] = a[k]
  <2>1. a \in Seq(Octet) /\ s \in Seq(Octet) /\ two = Len(a)
    BY <1>2, <1>4
  <2>2. c \in Seq(Octet) /\ Lies(c, two, s) /\ Len(c) = two + Len(s)
    BY ONLY <1>5, <2>1, LiesConcat
  <2>3. \A k \in 1 .. two : c[k] = a[k]
    BY ONLY <1>5, <2>1, ConcatOctets
  <2> QED BY <2>2, <2>3
<1>7. c[1] = t /\ c[2] = m
  <2>1. 1 \in 1 .. two /\ 2 \in 1 .. two
    BY <1>1
  <2> QED BY <1>4, <1>6, <2>1
<1> QED BY <1>1, <1>2, <1>6, <1>7 DEF Item

ItemThen(it, r) == [r EXCEPT !.items = <<it>> \o @]

LEMMA ReadItem ==
  ASSUME NEW d \in Seq(Octet), NEW p, NEW it \in SrcItem, NEW c, c = ItemOctets(it), Lies(d, p, c),
         NEW f
  PROVE  /\ ItemsAt(d, f, p) = ItemThen(it, f[p + Len(c)])
         /\ p + Len(c) \in p + 1 .. Len(d)
<1>1. PICK t, s, m, l : t = it.type /\ s = it.desc /\ m = Len(s) /\ l = Len(d)
  OBVIOUS
<1>2. /\ c \in Seq(Octet) /\ s \in Seq(Octet) /\ m \in Octet /\ Len(c) = 2 + m
      /\ c[1] = t /\ c[2] = m /\ Lies(c, 2, s) /\ t \in 1 .. 8 /\ it = Item(t, s)
  BY <1>1, ItemLies
<1>3. m \in Nat /\ l \in Nat
  BY <1>1, <1>2, LenProperties DEF Octet
<1>4. p \in Nat /\ p + (2 + m) <= l /\ \A k \in 1 .. 2 + m : d[p + k] = c[k]
  BY <1>1, <1>2 DEF Lies
<1>5. d[p + 1] = t /\ d[p + 2] = m
  <2>1. 1 \in 1 .. 2 + m /\ 2 \in 1 .. 2 + m
    BY <1>3
  <2> QED BY <1>2, <1>4, <2>1
<1>6. Left(d, p, 2) /\ Left(d, p + 2, m) /\ p # l /\ p + Len(c) \in p + 1 .. l /\ p + 2 + m = p + Len(c)
  <2>1. PICK k : k = Len(c) /\ k = 2 + m /\ k \in Nat
    BY <1>2, <1>3
  <2>2. p + k \in p + 1 .. l /\ p + 2 + m = p + k /\ p # l /\ p + 2 <= l /\ p + 2 + m <= l
    BY <1>3, <1>4, <2>1
  <2> QED BY <1>1, <2>1, <2>2 DEF Left
<1>7. Field(d, p + 2, m) = s
  <2>1. PICK two : two = 2
    OBVIOUS
  <2>2. Lies(d, p + two, s)
    <3>1. Lies(c, two, s) /\ Lies(d, p, c) /\ Len(d) \in Nat
      BY <1>1, <1>2, <1>3, <2>1
    <3> QED BY <1>2, <3>1, LiesWithin
  <2>3. Lies(d, p + 2, s)
    BY <2>1, <2>2
  <2> QED BY <1>1, <1>2, <2>3, LiesField
<1>8. t # 0 /\ t <= 8
  BY <1>2
<1>9. ItemsAt(d, f, p) = ItemThen(Item(t, s), f[p + 2 + m])
  BY <1>1, <1>5, <1>6, <1>7, <1>8 DEF ItemsAt, ItemThen
<1> QED BY <1>1, <1>2, <1>6, <1>9

\* Items lie behind one another.
ItemsLie(d, b, items, h) ==
  /\ b \in Nat /\ h \in [0 .. Len(items) -> Nat] /\ h[0] = 0
  /\ \A i \in 1 .. Len(items) :
       /\ h[i] = h[i - 1] + Len(ItemOctets(items[i]))
       /\ Lies(d, b + h[i - 1], ItemOctets(items[i]))

\* The end of the items: the end of the packet, or END with the zeros behind it.
EndsAt(d, q, e) ==
  \/ q = Len(d) /\ e = q
  \/ q < Len(d) /\ d[q + 1] = 0 /\ e = q + 1 + Padding(q + 1) /\ e <= Len(d)

ItemsRead(e, items) == [ok |-> TRUE, next |-> e, items |-> items]

\* An item in front of those behind it.
LEMMA ReadOneMore ==
  ASSUME NEW items \in Seq(SrcItem), NEW i \in 1 .. Len(items), NEW e
  PROVE  ItemThen(items[i], ItemsRead(e, SubSeq(items, i + 1, Len(items))))
           = ItemsRead(e, SubSeq(items, i, Len(items)))
<1>1. PICK n : n = Len(items) /\ n \in Nat /\ n \in i .. Len(items)
  BY LenProperties
<1>2. SubSeq(items, i, n) = <<items[i]>> \o SubSeq(items, i + 1, n)
  BY <1>1, SubSeqRecursiveFirst
<1>3. PICK a, x, r : a = SubSeq(items, i + 1, n) /\ x = <<items[i]>> /\ r = ItemsRead(e, a)
  OBVIOUS
<1>4. r.items = a /\ r = [ok |-> TRUE, next |-> e, items |-> a]
  BY <1>3 DEF ItemsRead
<1>5. PICK y : y = x \o a
  OBVIOUS
<1>6. [r EXCEPT !.items = y] = ItemsRead(e, y)
  <2>1. PICK v : v = TRUE
    OBVIOUS
  <2>2. r = [ok |-> v, next |-> e, items |-> a] /\ ItemsRead(e, y) = [ok |-> v, next |-> e, items |-> y]
    BY <1>4, <2>1 DEF ItemsRead
  <2> QED BY ONLY <2>2
<1>7. x \o r.items = y
  BY ONLY <1>4, <1>5
<1>8. ItemThen(items[i], r) = [r EXCEPT !.items = y]
  BY ONLY <1>3, <1>7 DEF ItemThen
<1>9. ItemThen(items[i], r) = ItemsRead(e, y)
  BY ONLY <1>6, <1>8
<1> QED BY <1>1, <1>2, <1>3, <1>5, <1>9

\* Items that lie behind one another up to an end are read, up to the end.
LEMMA ReadItems ==
  ASSUME NEW d \in Seq(Octet), NEW b, NEW items \in Seq(SrcItem), NEW h, ItemsLie(d, b, items, h),
         NEW e, NEW q, EndsAt(d, q, e), q = b + h[Len(items)]
  PROVE  Items(d)[b] = ItemsRead(e, items)
<1>0. PICK n : n = Len(items)
  OBVIOUS
<1>1. n \in Nat /\ Len(d) \in Nat /\ \A i \in 1 .. n : items[i] \in SrcItem
  BY <1>0, LenProperties, ElementOfSeq
<1>2. /\ b \in Nat /\ h \in [0 .. n -> Nat] /\ h[0] = 0
      /\ \A i \in 1 .. n : /\ h[i] = h[i - 1] + Len(ItemOctets(items[i]))
                           /\ Lies(d, b + h[i - 1], ItemOctets(items[i]))
  BY <1>0 DEF ItemsLie
<1>3. PICK f : f = Items(d)
  OBVIOUS
<1>4. \A p \in 0 .. Len(d) : f[p] = ItemsAt(d, f, p)
  BY <1>3, ItemsIs
<1> DEFINE Done(i) == f[b + h[i]] = ItemsRead(e, SubSeq(items, i + 1, n))
<1>5. Done(n)
  <2>1. q = b + h[n] /\ q \in Nat
    BY <1>0, <1>1, <1>2
  <2>2. q \in 0 .. Len(d)
    BY <1>1, <2>1 DEF EndsAt
  <2>3. SubSeq(items, n + 1, n) = <<>>
    BY <1>1, SubSeqEmpty
  <2>4. ItemsAt(d, f, q) = [ok |-> TRUE, next |-> e, items |-> <<>>]
    <3>1. CASE q = Len(d)
      <4>1. e = q
        BY <1>1, <2>1, <3>1 DEF EndsAt
      <4> QED BY <3>1, <4>1 DEF ItemsAt
    <3>2. CASE q # Len(d)
      <4>1. /\ q < Len(d) /\ d[q + 1] = 0 /\ e = q + 1 + Padding(q + 1)
            /\ Left(d, q + 1, Padding(q + 1)) = TRUE
        BY <2>1, <3>2 DEF EndsAt, Left
      <4> QED BY <3>2, <4>1 DEF ItemsAt
    <3> QED BY <3>1, <3>2
  <2> QED BY <1>4, <2>1, <2>2, <2>3, <2>4 DEF ItemsRead
<1>6. ASSUME NEW i \in 1 .. n, Done(i) PROVE Done(i - 1)
  <2>1. PICK it, c, p : it = items[i] /\ c = ItemOctets(it) /\ p = b + h[i - 1]
    OBVIOUS
  <2>2. it \in SrcItem /\ Lies(d, p, c) /\ h[i] = h[i - 1] + Len(c) /\ h[i - 1] \in Nat /\ i - 1 + 1 = i
    BY <1>1, <1>2, <2>1
  <2>3. /\ ItemsAt(d, f, p) = ItemThen(it, f[p + Len(c)])
        /\ p + Len(c) \in p + 1 .. Len(d)
    BY <2>1, <2>2, ReadItem
  <2>4. Len(c) \in Nat
    <3>1. c \in Seq(Octet)
      BY <2>1, <2>2, ItemLies
    <3> QED BY <3>1, LenProperties
  <2>5. p + Len(c) = b + h[i] /\ p \in 0 .. Len(d)
    <3>1. PICK k, x, y, l : k = Len(c) /\ x = h[i - 1] /\ y = h[i] /\ l = Len(d)
      OBVIOUS
    <3>2. k \in Nat /\ x \in Nat /\ l \in Nat /\ y = x + k /\ p = b + x /\ b \in Nat /\ p + k \in p + 1 .. l
      BY ONLY <1>1, <1>2, <2>1, <2>2, <2>3, <2>4, <3>1
    <3>3. p + k = b + y /\ p \in 0 .. l
      BY ONLY <3>2
    <3> QED BY <3>1, <3>3
  <2>6. f[p] = ItemThen(it, ItemsRead(e, SubSeq(items, i + 1, n)))
    BY <1>4, <1>6, <2>3, <2>5
  <2>7. f[p] = ItemsRead(e, SubSeq(items, i, n))
    <3>1. i \in 1 .. Len(items)
      BY <1>0, <1>6
    <3>2. f[p] = ItemsRead(e, SubSeq(items, i, Len(items)))
      BY ONLY <2>1, <2>6, <3>1, <1>0, ReadOneMore
    <3> QED BY <1>0, <3>2
  <2> QED BY <2>1, <2>2, <2>7
<1> HIDE DEF Done
<1> DEFINE B == {k \in Nat : k <= n /\ ~Done(n - k)}
<1>7. ASSUME B # {} PROVE FALSE
  <2>1. PICK k \in B : \A j \in B : k <= j
    <3>1. B \subseteq Nat
      OBVIOUS
    <3> QED BY <1>7, <3>1, LeastIs
  <2>2. k # 0
    <3>1. n - 0 = n
      BY <1>1
    <3> QED BY <1>5, <2>1, <3>1
  <2>3. k - 1 \in Nat /\ k - 1 \notin B /\ k - 1 <= n
    <3>1. PICK i : i = k - 1 /\ i \in Nat /\ ~(k <= i) /\ i <= n
      BY <1>1, <2>1, <2>2
    <3> QED BY <2>1, <3>1
  <2>4. PICK i : i = n - (k - 1) /\ i \in 1 .. n /\ i - 1 = n - k
    BY <1>1, <2>1, <2>2
  <2>5. Done(i)
    BY <2>3, <2>4
  <2> QED BY <1>6, <2>1, <2>4, <2>5
<1>8. Done(0)
  <2>1. n - n = 0 /\ n <= n
    BY ONLY <1>1
  <2>2. n \notin B
    BY ONLY <1>7
  <2> QED BY <1>1, <2>1, <2>2
<1>9. SubSeq(items, 1, n) = items
  BY <1>0, SubSeqFull
<1>10. b + h[0] = b /\ 0 + 1 = 1
  BY <1>2
<1> QED BY <1>3, <1>8, <1>9, <1>10 DEF Done

\* The smaller of two.
LEMMA MinOf ==
  ASSUME NEW a \in Nat, NEW b \in Nat
  PROVE  Min({a, b}) = IF b <= a THEN b ELSE a
<1>1. PICK m : m = IF b <= a THEN b ELSE a
  OBVIOUS
<1>2. m \in {a, b} /\ \A y \in {a, b} : m <= y
  BY <1>1
<1>3. PICK S : S = {a, b}
  OBVIOUS
<1>4. \A x \in S : (\A y \in S : x <= y) => x = m
  BY <1>2, <1>3
<1>5. Min(S) = m
  BY <1>2, <1>3, <1>4 DEF Min
<1> QED BY <1>1, <1>3, <1>5

\* The first items are kept.
LEMMA ReadFirst ==
  ASSUME NEW d, NEW b, NEW items \in Seq(SrcItem), NEW e, Items(d)[b] = ItemsRead(e, items)
  PROVE  ParseItems(d, b) = ItemsRead(e, KeptItems(items))
<1>1. PICK all : all = Items(d)[b]
  OBVIOUS
<1>2. PICK v : v = TRUE
  OBVIOUS
<1>3. all = [ok |-> v, next |-> e, items |-> items]
  BY <1>1, <1>2 DEF ItemsRead
<1>4. PICK l : l = Len(items) /\ l \in Nat
  BY LenProperties
<1>5. PICK n : n = IF l <= MAX_ITEM_SIZE THEN l ELSE MAX_ITEM_SIZE
  OBVIOUS
<1>6. n = Min({MAX_ITEM_SIZE, l})
  BY <1>4, <1>5, FormatAssumption, MinOf
<1>7. PICK y : y = SubSeq(items, 1, n) /\ y = KeptItems(items)
  BY <1>4, <1>6 DEF KeptItems
<1>8. all.items = items
  BY ONLY <1>3
<1>9. ParseItems(d, b) = [all EXCEPT !.items = y]
  BY <1>1, <1>4, <1>5, <1>7, <1>8 DEF ParseItems
<1>10. [all EXCEPT !.items = y] = [ok |-> v, next |-> e, items |-> y]
  BY ONLY <1>3
<1> QED BY <1>2, <1>7, <1>9, <1>10 DEF ItemsRead

\* The octets of the items of a chunk, one behind the other.
LEMMA ChunkSeq ==
  ASSUME NEW chunk \in SrcChunk
  PROVE  ItemsOctets(chunk) \in Seq(Octet)
<1>1. PICK s, items, n : s = chunk.src /\ items = chunk.items /\ n = Len(items)
  OBVIOUS
<1>2. s \in SsrcOctets /\ items \in Seq(SrcItem)
  BY <1>1 DEF SrcChunk
<1>3. n \in Nat /\ s \in Seq(Octet) /\ \A i \in 1 .. n : items[i] \in SrcItem
  BY <1>1, <1>2, LenProperties, ElementOfSeq, SsrcIs
<1>4. PICK t, F : t = [i \in 1 .. n |-> ItemOctets(items[i])] /\ F = FlattenSeq(t)
  OBVIOUS
<1>5. ItemsOctets(chunk) = s \o F
  <2>1. DOMAIN items = 1 .. n
    BY <1>1, <1>2
  <2> QED BY <1>1, <1>4, <2>1 DEF ItemsOctets
<1>6. \A i \in 1 .. n : t[i] \in Seq(Octet)
  <2>1. ASSUME NEW i \in 1 .. n PROVE t[i] \in Seq(Octet)
    <3>1. t[i] = ItemOctets(items[i]) /\ items[i] \in SrcItem
      BY <1>3, <1>4
    <3> QED BY <3>1, ItemLies
  <2> QED BY <2>1
<1>7. Listed(t) /\ Len(t) = n
  <2>1. t \in Seq(Seq(Octet))
    BY <1>3, <1>4, <1>6
  <2>2. Len(t) = n
    BY <1>3, <1>4, <2>1
  <2> QED BY <2>1, <2>2 DEF Listed
<1>8. PICK h : Stacked(F, t, n, h)
  BY <1>3, <1>4, <1>6, <1>7, FlattenStacks
<1>9. F \in Seq(Octet)
  BY <1>8 DEF Stacked
<1> QED BY <1>3, <1>5, <1>9, ConcatOctets

\* A chunk up to its last item.
LEMMA ReadChunk ==
  ASSUME NEW d \in Seq(Octet), NEW chunk \in SrcChunk, NEW o, o = ItemsOctets(chunk),
         NEW p, Lies(d, p, o), NEW e, EndsAt(d, p + Len(o), e)
  PROVE  /\ Left(d, p, 4) /\ Field(d, p, 4) = chunk.src /\ o \in Seq(Octet)
         /\ ParseItems(d, p + 4) = ItemsRead(e, KeptItems(chunk.items))
<1>1. PICK s, items, n : s = chunk.src /\ items = chunk.items /\ n = Len(items)
  OBVIOUS
<1>2. s \in SsrcOctets /\ items \in Seq(SrcItem)
  BY <1>1 DEF SrcChunk
<1>3. n \in Nat /\ s \in Seq(Octet) /\ Len(s) = 4 /\ \A i \in 1 .. n : items[i] \in SrcItem
  BY <1>1, <1>2, LenProperties, ElementOfSeq, SsrcIs
<1>4. PICK t, F : t = [i \in 1 .. n |-> ItemOctets(items[i])] /\ F = FlattenSeq(t)
  OBVIOUS
<1>5. o = s \o F
  <2>1. DOMAIN items = 1 .. n
    BY <1>1, <1>2
  <2> QED BY <1>1, <1>4, <2>1 DEF ItemsOctets
<1>6. \A i \in 1 .. n : t[i] = ItemOctets(items[i]) /\ t[i] \in Seq(Octet)
  <2>1. ASSUME NEW i \in 1 .. n PROVE t[i] = ItemOctets(items[i]) /\ t[i] \in Seq(Octet)
    <3>1. t[i] = ItemOctets(items[i]) /\ items[i] \in SrcItem
      BY <1>3, <1>4
    <3> QED BY <3>1, ItemLies
  <2> QED BY <2>1
<1>7. Listed(t) /\ Len(t) = n
  <2>1. t \in Seq(Seq(Octet))
    BY <1>3, <1>4, <1>6
  <2>2. Len(t) = n
    BY <1>3, <1>4, <2>1
  <2> QED BY <2>1, <2>2 DEF Listed
<1>8. PICK h : Stacked(F, t, n, h)
  BY <1>3, <1>4, <1>6, <1>7, FlattenStacks
<1>9. /\ F \in Seq(Octet) /\ h \in [0 .. n -> Nat] /\ h[0] = 0 /\ Len(F) = h[n]
      /\ \A i \in 1 .. n : h[i] = h[i - 1] + Len(t[i]) /\ Lies(F, h[i - 1], t[i])
  BY <1>8 DEF Stacked
<1>10. PICK four : four = 4
  OBVIOUS
<1>11. /\ o \in Seq(Octet) /\ Lies(o, 0, s) /\ Lies(o, four, F) /\ Len(o) = four + Len(F)
  <2>1. four = Len(s) /\ s \in Seq(Octet) /\ F \in Seq(Octet)
    BY <1>3, <1>9, <1>10
  <2> QED BY ONLY <1>5, <2>1, LiesConcat
<1>12. p \in Nat /\ p + 0 = p /\ Len(d) \in Nat /\ p + Len(o) <= Len(d)
  BY LenProperties DEF Lies
<1>13. Lies(d, p + 0, s) /\ Lies(d, p + four, F)
  BY <1>3, <1>9, <1>11, <1>12, LiesWithin
<1>14. Lies(d, p, s)
  BY <1>12, <1>13
<1>15. Field(d, p, 4) = s
  BY <1>3, <1>14, LiesField
<1>16. Left(d, p, 4)
  <2>1. p + Len(s) <= Len(d)
    BY <1>14 DEF Lies
  <2> QED BY <1>3, <1>12, <2>1 DEF Left
<1>17. PICK b : b = p + 4 /\ b = p + four /\ b \in Nat
  BY <1>10, <1>12
<1>18. ItemsLie(d, b, items, h)
  <2>1. ASSUME NEW i \in 1 .. n
        PROVE  /\ h[i] = h[i - 1] + Len(ItemOctets(items[i]))
               /\ Lies(d, b + h[i - 1], ItemOctets(items[i]))
    <3>1. h[i] = h[i - 1] + Len(t[i]) /\ Lies(F, h[i - 1], t[i]) /\ t[i] = ItemOctets(items[i])
          /\ t[i] \in Seq(Octet)
      BY <1>6, <1>9
    <3>2. Lies(d, b + h[i - 1], t[i])
      BY <1>9, <1>12, <1>13, <1>17, <3>1, LiesWithin
    <3> QED BY <3>1, <3>2
  <2> QED BY <1>1, <1>9, <1>17, <2>1 DEF ItemsLie
<1>19. b + h[n] = p + Len(o)
  BY <1>3, <1>9, <1>10, <1>11, <1>12, <1>17
<1>20. Items(d)[b] = ItemsRead(e, items)
  <2>1. PICK q : q = b + h[Len(items)] /\ EndsAt(d, q, e)
    BY <1>1, <1>19
  <2>2. items \in Seq(SrcItem) /\ ItemsLie(d, b, items, h) /\ d \in Seq(Octet)
    BY <1>2, <1>18
  <2> QED BY ONLY <2>1, <2>2, ReadItems, ZenonT(60)
<1>21. ParseItems(d, b) = ItemsRead(e, KeptItems(items))
  BY <1>2, <1>20, ReadFirst
<1> QED BY <1>1, <1>11, <1>15, <1>16, <1>17, <1>21

-----------------------------------------------------------------------------
(* Chunks are                                                              *)

\* One step of the chunks.
ChunkAt(d, f, k) ==
  IF k = 0 THEN [ok |-> TRUE, next |-> 0, chunks |-> <<>>]
  ELSE IF f[k - 1].ok /\ Left(d, f[k - 1].next, 4)
  THEN [ok |-> ParseItems(d, f[k - 1].next + 4).ok, next |-> ParseItems(d, f[k - 1].next + 4).next,
        chunks |-> Append(f[k - 1].chunks,
                     Chunk(Field(d, f[k - 1].next, 4), ParseItems(d, f[k - 1].next + 4).items))]
  ELSE [f[k - 1] EXCEPT !.ok = FALSE]

ChunksRead(e, cs) == [ok |-> TRUE, next |-> e, chunks |-> cs]

\* Where the reader finds a chunk.
ChunkLies(d, c, p, e) ==
  /\ Left(d, p, 4) /\ Field(d, p, 4) = c.src
  /\ ParseItems(d, p + 4) = ItemsRead(e, KeptItems(c.items))

KeptChunk(c) == Chunk(c.src, KeptItems(c.items))

\* One more chunk is read.
LEMMA ReadOneChunk ==
  ASSUME NEW d, NEW f, NEW k, k # 0, NEW p, NEW cs, f[k - 1] = ChunksRead(p, cs), NEW c, NEW e,
         ChunkLies(d, c, p, e)
  PROVE  ChunkAt(d, f, k) = ChunksRead(e, Append(cs, KeptChunk(c)))
<1>1. PICK r, q : r = f[k - 1] /\ q = ParseItems(d, p + 4)
  OBVIOUS
<1>2. r.ok = TRUE /\ r.next = p /\ r.chunks = cs
  BY <1>1 DEF ChunksRead
<1>3. q.ok = TRUE /\ q.next = e /\ q.items = KeptItems(c.items)
  BY <1>1 DEF ChunkLies, ItemsRead
<1>4. Left(d, p, 4) /\ Field(d, p, 4) = c.src
  BY DEF ChunkLies
<1>5. ChunkAt(d, f, k) = [ok |-> q.ok, next |-> q.next,
                          chunks |-> Append(r.chunks, Chunk(Field(d, r.next, 4), q.items))]
  BY <1>1, <1>2, <1>4 DEF ChunkAt
<1> QED BY <1>2, <1>3, <1>4, <1>5 DEF ChunksRead, KeptChunk

\* Chunks lie behind one another, up to the end.
ChunksLie(d, body, h) ==
  /\ h \in [0 .. Len(body) -> Nat] /\ h[0] = 0 /\ h[Len(body)] = Len(d)
  /\ \A k \in 1 .. Len(body) : ChunkLies(d, body[k], h[k - 1], h[k])

LEMMA ReadMoreChunks ==
  ASSUME NEW ks, Listed(ks), NEW n, n = Len(ks), NEW k \in 1 .. n
  PROVE  Append(SubSeq(ks, 1, k - 1), ks[k]) = SubSeq(ks, 1, k)
<1>1. PICK S : ks \in Seq(S)
  BY DEF Listed
<1>2. n \in Nat /\ 1 \in 1 .. n + 1 /\ k \in 1 .. Len(ks)
  BY <1>1, LenProperties
<1>3. SubSeq(ks, 1, k) = SubSeq(ks, 1, k - 1) \o <<ks[k]>>
  <2>1. 1 \in 1 .. Len(ks) /\ k \in 1 .. Len(ks)
    BY <1>2
  <2> QED BY <1>1, <2>1, SubSeqRecursiveSecond
<1>4. PICK s, x : s = SubSeq(ks, 1, k - 1) /\ x = ks[k]
  OBVIOUS
<1>5. s \in Seq(S) /\ x \in S
  BY <1>1, <1>2, <1>4
<1>6. Append(s, x) = s \o <<x>>
  BY ONLY <1>5, AppendIsConcat
<1> QED BY <1>3, <1>4, <1>6

ChunksFrom(f, d, n) == f = [k \in 0 .. n |-> ChunkAt(d, f, k)]

LEMMA ChunksIs ==
  ASSUME NEW n, NEW d, NEW g, ChunksFrom(g, d, n)
  PROVE  ChunksFrom(Chunks(n, d), d, n)
<1>1. Chunks(n, d) = CHOOSE f : ChunksFrom(f, d, n)
  BY DEF Chunks, ChunksFrom, ChunkAt
<1> QED BY <1>1

Kepts(body) == [k \in DOMAIN body |-> KeptChunk(body[k])]

LEMMA KeptsListed ==
  ASSUME NEW body, Listed(body), NEW n, n = Len(body)
  PROVE  /\ n \in Nat /\ DOMAIN body = 1 .. n /\ Listed(Kepts(body)) /\ Len(Kepts(body)) = n
         /\ \A k \in 1 .. n : Kepts(body)[k] = KeptChunk(body[k])
<1>1. n \in Nat /\ DOMAIN body = 1 .. n
  BY LenProperties DEF Listed
<1>2. PICK ks : ks = Kepts(body) /\ ks = [k \in 1 .. n |-> KeptChunk(body[k])]
  BY <1>1 DEF Kepts
<1>3. ks \in Seq({KeptChunk(body[k]) : k \in 1 .. n}) /\ Len(ks) = n
  BY <1>1, <1>2
<1> QED BY <1>1, <1>2, <1>3 DEF Listed

\* All of them are.
LEMMA ReadChunks ==
  ASSUME NEW d, NEW body, Listed(body), NEW h, ChunksLie(d, body, h), NEW n, n = Len(body)
  PROVE  Chunks(n, d)[n] = ChunksRead(Len(d), Kepts(body))
<1>1. PICK ks : ks = Kepts(body)
  OBVIOUS
<1>2. n \in Nat /\ Listed(ks) /\ Len(ks) = n /\ \A k \in 1 .. n : ks[k] = KeptChunk(body[k])
  BY <1>1, KeptsListed
<1>3. /\ h \in [0 .. n -> Nat] /\ h[0] = 0 /\ h[n] = Len(d)
      /\ \A k \in 1 .. n : ChunkLies(d, body[k], h[k - 1], h[k])
  BY DEF ChunksLie
<1> DEFINE R(k) == ChunksRead(h[k], SubSeq(ks, 1, k))
<1>4. R(0) = [ok |-> TRUE, next |-> 0, chunks |-> <<>>]
  <2>1. SubSeq(ks, 1, 0) = <<>>
    <3>1. 1 \in Int /\ 0 \in Int /\ 0 < 1
      OBVIOUS
    <3> QED BY ONLY <3>1, SubSeqEmpty
  <2> QED BY ONLY <1>3, <2>1 DEF ChunksRead
<1>5. ASSUME NEW f, NEW k \in 1 .. n, f[k - 1] = R(k - 1)
      PROVE  ChunkAt(d, f, k) = R(k)
  <2>1. PICK p, e, c, cs : p = h[k - 1] /\ e = h[k] /\ c = body[k] /\ cs = SubSeq(ks, 1, k - 1)
    OBVIOUS
  <2>2. k # 0 /\ f[k - 1] = ChunksRead(p, cs) /\ ChunkLies(d, c, p, e)
    BY <1>2, <1>3, <1>5, <2>1
  <2>3. ChunkAt(d, f, k) = ChunksRead(e, Append(cs, KeptChunk(c)))
    BY <2>2, ReadOneChunk
  <2>4. Append(cs, KeptChunk(c)) = SubSeq(ks, 1, k)
    BY <1>2, <2>1, ReadMoreChunks
  <2> QED BY <2>1, <2>3, <2>4
<1> HIDE DEF R
<1>6. PICK g : ChunksFrom(g, d, n)
  <2>1. PICK g : g = [k \in 0 .. n |-> R(k)]
    OBVIOUS
  <2>2. ASSUME NEW k \in 0 .. n PROVE R(k) = ChunkAt(d, g, k)
    <3>1. CASE k = 0
      BY <1>4, <3>1 DEF ChunkAt
    <3>2. CASE k # 0
      <4>1. k \in 1 .. n /\ k - 1 \in 0 .. n
        BY <1>2, <2>2, <3>2
      <4>2. g[k - 1] = R(k - 1)
        BY <2>1, <4>1
      <4> QED BY <1>5, <4>1, <4>2
    <3> QED BY <3>1, <3>2
  <2>3. g = [k \in 0 .. n |-> ChunkAt(d, g, k)]
    BY <2>1, <2>2
  <2> QED BY <2>3 DEF ChunksFrom
<1>7. PICK f : f = Chunks(n, d) /\ f = [k \in 0 .. n |-> ChunkAt(d, f, k)]
  BY <1>6, ChunksIs DEF ChunksFrom
<1>8. \A k \in 0 .. n : f[k] = ChunkAt(d, f, k)
  BY <1>7
<1> DEFINE B == {k \in Nat : k <= n /\ f[k] # R(k)}
<1>9. ASSUME B # {} PROVE FALSE
  <2>1. PICK k \in B : \A j \in B : k <= j
    <3>1. B \subseteq Nat
      OBVIOUS
    <3> QED BY <1>9, <3>1, LeastIs
  <2>2. k # 0
    <3>1. f[0] = R(0)
      <4>1. 0 \in 0 .. n
        BY <1>2
      <4> QED BY <1>4, <1>8, <4>1 DEF ChunkAt
    <3> QED BY <2>1, <3>1
  <2>3. k \in 1 .. n /\ k - 1 \in Nat /\ k - 1 \notin B /\ k - 1 <= n /\ k \in 0 .. n
    BY <1>2, <2>1, <2>2
  <2>4. f[k - 1] = R(k - 1)
    BY <2>3
  <2>5. f[k] = R(k)
    BY <1>5, <1>8, <2>3, <2>4
  <2> QED BY <2>1, <2>5
<1>10. n \in Nat /\ n <= n /\ n \notin B
  <2>1. n \notin B
    BY <1>9
  <2> QED BY <1>2, <2>1
<1>11. f[n] = R(n)
  BY <1>10
<1>12. SubSeq(ks, 1, n) = ks
  <2>1. PICK S : ks \in Seq(S)
    BY <1>2 DEF Listed
  <2> QED BY <1>2, <2>1, SubSeqFull
<1> QED BY <1>1, <1>3, <1>7, <1>11, <1>12 DEF R

\* With the end of the last one where the packet ends.
LEMMA ReadSdes ==
  ASSUME NEW d, NEW body, Listed(body), NEW h, ChunksLie(d, body, h), NEW n, n = Len(body)
  PROVE  ParseSdes(n, d) = Packet(SDES, Kepts(body))
<1>1. PICK all : all = Chunks(n, d)[n] /\ all = ChunksRead(Len(d), Kepts(body))
  BY ReadChunks
<1>2. all.ok = TRUE /\ all.next = Len(d) /\ all.chunks = Kepts(body)
  BY <1>1 DEF ChunksRead
<1> QED BY <1>1, <1>2 DEF ParseSdes

\* The zeros behind a chunk, as the writer and as the reader count them.
LEMMA SamePadding ==
  ASSUME NEW p \in Nat, p % 4 = 0, NEW l \in Nat, l % 4 # 3, NEW q, q = p + l
  PROVE  /\ q + 1 + Padding(q + 1) = p + (l + Padding(l))
         /\ (l + Padding(l)) % 4 = 0 /\ Padding(l) \in 1 .. 4
<1>1. PICK m, r, k \in Nat : p = 4 * m /\ l = 4 * k + r /\ r < 3
  <2>1. PICK m \in Nat, k \in Nat : m = p \div 4 /\ k = l \div 4
    OBVIOUS
  <2>2. PICK r \in Nat : r = l % 4 /\ r <= 3
    OBVIOUS
  <2>3. p = 4 * m /\ l = 4 * k + r /\ r < 3
    BY <2>1, <2>2
  <2> QED BY <2>3
<1>2. l % 4 = r /\ (q + 1) % 4 = r + 1
  <2>1. q + 1 = 4 * (m + k) + (r + 1)
    BY <1>1
  <2>2. r = 0 \/ r = 1 \/ r = 2
    BY <1>1
  <2> QED BY <1>1, <2>1, <2>2
<1>3. Padding(l) = 4 - r /\ Padding(q + 1) = 3 - r
  BY <1>1, <1>2 DEF Padding
<1>4. l + Padding(l) = 4 * (k + 1)
  BY <1>1, <1>3
<1>5. (4 * (k + 1)) % 4 = 0
  BY <1>1
<1> QED BY <1>1, <1>3, <1>4, <1>5

\* A chunk has whole words.
LEMMA ChunkWhole ==
  ASSUME NEW chunk \in SrcChunk, NEW o, o = ChunkOctets(chunk),
         Len(ItemsOctets(chunk)) % 4 # 3
  PROVE  o \in Seq(Octet) /\ Len(o) \in Nat /\ Len(o) % 4 = 0
<1>1. PICK s, l, z, g : s = ItemsOctets(chunk) /\ l = Len(s) /\ g = Padding(l) /\ z = Zeros(g)
  OBVIOUS
<1>2. s \in Seq(Octet) /\ l \in Nat
  BY <1>1, ChunkSeq, LenProperties
<1>3. g \in Nat /\ (l + g) % 4 = 0
  <2>1. 0 \in Nat /\ 0 % 4 = 0 /\ l \in Nat /\ l % 4 # 3 /\ l = 0 + l
    BY <1>1, <1>2
  <2>2. (l + Padding(l)) % 4 = 0 /\ Padding(l) \in 1 .. 4
    BY ONLY <2>1, SamePadding
  <2> QED BY <1>1, <2>2
<1>4. z \in Seq(Octet) /\ Len(z) = g
  BY <1>1, <1>3, ZerosLen
<1>5. o = s \o z
  BY <1>1 DEF ChunkOctets
<1>6. o \in Seq(Octet) /\ Len(o) = Len(s) + Len(z)
  <2>1. s \in Seq(Octet) /\ z \in Seq(Octet)
    BY <1>2, <1>4
  <2> QED BY ONLY <1>5, <2>1, ConcatOctets
<1>7. Len(o) = l + g
  BY <1>1, <1>4, <1>6
<1> QED BY <1>2, <1>3, <1>6, <1>7

\* A chunk of a peer is found where it lies, unless it fills a word.
LEMMA PeerChunk ==
  ASSUME NEW d \in Seq(Octet), NEW chunk \in SrcChunk, NEW o, o = ChunkOctets(chunk),
         NEW p, p % 4 = 0, Lies(d, p, o), Len(ItemsOctets(chunk)) % 4 # 3
  PROVE  ChunkLies(d, chunk, p, p + Len(o))
<1>1. PICK s, l, z, g : s = ItemsOctets(chunk) /\ l = Len(s) /\ g = Padding(l) /\ z = Zeros(g)
  OBVIOUS
<1>2. s \in Seq(Octet)
  BY <1>1, ChunkSeq
<1>3. PICK n, e : n = Len(d) /\ n \in Nat /\ e = p + Len(o)
  BY LenProperties
<1>4. l \in Nat /\ p \in Nat /\ g \in 1 .. 4 /\ l % 4 # 3
  <2>1. l \in Nat /\ p \in Nat
    BY <1>1, <1>2, LenProperties DEF Lies
  <2> QED BY <1>1, <2>1, SamePadding
<1>5. PICK q : q = p + l /\ q \in Nat
  BY <1>4
<1>6. q + 1 + Padding(q + 1) = p + (l + g)
  <2>1. p \in Nat /\ p % 4 = 0 /\ l \in Nat /\ l % 4 # 3 /\ q = p + l
    BY <1>4, <1>5
  <2>2. q + 1 + Padding(q + 1) = p + (l + Padding(l))
    BY ONLY <2>1, SamePadding
  <2> QED BY <1>1, <2>2
<1>7. z \in Seq(Octet) /\ Len(z) = g /\ z[1] = 0
  <2>1. z \in Seq(Octet) /\ Len(z) = g
    <3>1. g \in Nat
      BY <1>4
    <3> QED BY <1>1, <3>1, ZerosLen
  <2>2. z[1] = 0
    BY <1>1, <1>4 DEF Zeros
  <2> QED BY <2>1, <2>2
<1>8. o = s \o z
  BY <1>1 DEF ChunkOctets
<1>9. o \in Seq(Octet) /\ Lies(o, 0, s) /\ Lies(o, l, z) /\ Len(o) = l + g
  <2>1. /\ o \in Seq(Octet) /\ Lies(o, 0, s) /\ Lies(o, l, z) /\ Len(o) = l + Len(z)
    <3>1. s \in Seq(Octet) /\ z \in Seq(Octet) /\ l = Len(s)
      BY <1>1, <1>2, <1>7
    <3> QED BY ONLY <1>8, <3>1, LiesConcat
  <2> QED BY <1>7, <2>1
<1>10. Lies(d, p, s) /\ Lies(d, q, z)
  <2>1. Lies(d, p + 0, s) /\ Lies(d, p + l, z)
    BY <1>2, <1>3, <1>7, <1>9, LiesWithin
  <2>2. p + 0 = p
    BY <1>4
  <2> QED BY <1>5, <2>1, <2>2
<1>11. d[q + 1] = 0 /\ q < n /\ e <= n
  <2>1. q + g <= n /\ \A k \in 1 .. g : d[q + k] = z[k]
    BY <1>3, <1>7, <1>10 DEF Lies
  <2>2. 1 \in 1 .. g
    BY <1>4
  <2>3. e <= n
    BY <1>3, <1>4, <1>5, <1>9, <2>1
  <2> QED BY <1>3, <1>4, <1>5, <1>7, <2>1, <2>2, <2>3
<1>12. EndsAt(d, q, e)
  <2>1. e = q + 1 + Padding(q + 1)
    BY <1>3, <1>6, <1>9
  <2> QED BY <1>3, <1>11, <2>1 DEF EndsAt
<1>13. EndsAt(d, p + Len(s), e)
  BY <1>1, <1>5, <1>12
<1>14. /\ Left(d, p, 4) /\ Field(d, p, 4) = chunk.src
       /\ ParseItems(d, p + 4) = ItemsRead(e, KeptItems(chunk.items))
  BY <1>1, <1>10, <1>13, ReadChunk
<1> QED BY <1>3, <1>14 DEF ChunkLies

\* Chunks that end with a word stack up to words.
LEMMA StackedWords ==
  ASSUME NEW s, NEW F, NEW m \in Nat, NEW h, Stacked(F, s, m, h),
         \A i \in 1 .. m : Len(s[i]) \in Nat /\ Len(s[i]) % 4 = 0
  PROVE  \A i \in 0 .. m : h[i] % 4 = 0
<1>1. /\ h \in [0 .. m -> Nat] /\ h[0] = 0
      /\ \A i \in 1 .. m : h[i] = h[i - 1] + Len(s[i])
  BY DEF Stacked
<1> DEFINE B == {k \in Nat : k <= m /\ h[k] % 4 # 0}
<1>2. ASSUME B # {} PROVE FALSE
  <2>1. PICK k \in B : \A j \in B : k <= j
    <3>1. B \subseteq Nat
      OBVIOUS
    <3> QED BY <1>2, <3>1, LeastIs
  <2>2. k # 0
    BY <1>1, <2>1
  <2>3. k - 1 \in Nat /\ k - 1 <= m /\ k \in 1 .. m /\ k - 1 \notin B
    BY <2>1, <2>2
  <2>4. PICK x, y, l : x = h[k - 1] /\ y = h[k] /\ l = Len(s[k])
    OBVIOUS
  <2>5. x \in Nat /\ l \in Nat /\ y = x + l /\ x % 4 = 0 /\ l % 4 = 0
    <3>1. k - 1 \in 0 .. m /\ h[k - 1] % 4 = 0
      BY <2>3
    <3>2. Len(s[k]) \in Nat /\ Len(s[k]) % 4 = 0
      BY <2>3
    <3>3. h[k] = h[k - 1] + Len(s[k]) /\ h[k - 1] \in Nat
      BY <1>1, <2>3, <3>1
    <3> QED BY <2>4, <3>1, <3>2, <3>3
  <2>6. y % 4 = 0
    BY ONLY <2>5
  <2> QED BY <2>1, <2>4, <2>6
<1>3. B = {}
  BY <1>2
<1> QED BY <1>3

SdesPacket == [pt : {SDES}, body : Seq(SrcChunk)]

\* A description is read as it was written, with the first items of each chunk.
LEMMA PeerSdes ==
  ASSUME NEW p \in SdesPacket, ~FillsWord(p), NEW d, d = SdesOctets(p)
  PROVE  ParseSdes(Len(p.body), d) = Kept(p)
<1>1. PICK body, n : body = p.body /\ n = Len(body)
  OBVIOUS
<1>2. p.pt = SDES /\ body \in Seq(SrcChunk)
  BY <1>1 DEF SdesPacket
<1>3. n \in Nat /\ DOMAIN body = 1 .. n /\ Listed(body) /\ \A k \in 1 .. n : body[k] \in SrcChunk
  BY <1>1, <1>2, LenProperties, ElementOfSeq DEF Listed
<1>4. \A k \in 1 .. n : Len(ItemsOctets(body[k])) % 4 # 3
  BY <1>1, <1>2, <1>3 DEF FillsWord
<1>5. PICK t : t = [k \in 1 .. n |-> ChunkOctets(body[k])]
  OBVIOUS
<1>6. d = FlattenSeq(t)
  BY <1>1, <1>3, <1>5 DEF SdesOctets
<1>7. \A k \in 1 .. n : t[k] \in Seq(Octet) /\ Len(t[k]) \in Nat /\ Len(t[k]) % 4 = 0
  <2>1. ASSUME NEW k \in 1 .. n
        PROVE  t[k] \in Seq(Octet) /\ Len(t[k]) \in Nat /\ Len(t[k]) % 4 = 0
    <3>1. PICK c, o : c = body[k] /\ o = t[k] /\ o = ChunkOctets(c)
      BY <1>5, <2>1
    <3>2. c \in SrcChunk /\ Len(ItemsOctets(c)) % 4 # 3
      BY <1>3, <1>4, <3>1
    <3>3. o \in Seq(Octet) /\ Len(o) \in Nat /\ Len(o) % 4 = 0
      BY <3>1, <3>2, ChunkWhole
    <3> QED BY <3>1, <3>3
  <2> QED BY <2>1
<1>8. Listed(t) /\ Len(t) = n
  <2>1. t \in Seq(Seq(Octet))
    BY <1>3, <1>5, <1>7
  <2>2. Len(t) = n
    BY <1>3, <1>5, <2>1
  <2> QED BY <2>1, <2>2 DEF Listed
<1>9. PICK h : Stacked(d, t, n, h)
  <2>1. \A k \in 1 .. n : t[k] \in Seq(Octet)
    BY <1>7
  <2> QED BY <1>3, <1>6, <1>8, <2>1, FlattenStacks
<1>10. \A k \in 0 .. n : h[k] % 4 = 0
  <2>1. \A i \in 1 .. n : Len(t[i]) \in Nat /\ Len(t[i]) % 4 = 0
    BY <1>7
  <2> QED BY <1>3, <1>9, <2>1, StackedWords
<1>11. /\ d \in Seq(Octet) /\ h \in [0 .. n -> Nat] /\ h[0] = 0 /\ Len(d) = h[n]
       /\ \A i \in 1 .. n : h[i] = h[i - 1] + Len(t[i]) /\ Lies(d, h[i - 1], t[i])
  BY <1>9 DEF Stacked
<1>12. ASSUME NEW k \in 1 .. n PROVE ChunkLies(d, body[k], h[k - 1], h[k])
  <2>1. PICK c, o, b : c = body[k] /\ o = t[k] /\ b = h[k - 1]
    OBVIOUS
  <2>2. o = ChunkOctets(c) /\ h[k] = b + Len(o) /\ Lies(d, b, o)
    BY <1>5, <1>11, <1>12, <2>1
  <2>3. c \in SrcChunk /\ Len(ItemsOctets(c)) % 4 # 3
    BY <1>3, <1>4, <1>12, <2>1
  <2>4. b % 4 = 0
    <3>1. k - 1 \in 0 .. n
      BY <1>3, <1>12
    <3> QED BY <1>10, <2>1, <3>1
  <2>5. d \in Seq(Octet)
    BY <1>11
  <2>6. ChunkLies(d, c, b, b + Len(o))
    BY ONLY <2>2, <2>3, <2>4, <2>5, PeerChunk
  <2> QED BY <2>1, <2>2, <2>6
<1>13. ChunksLie(d, body, h)
  BY <1>1, <1>11, <1>12 DEF ChunksLie
<1>14. ParseSdes(n, d) = Packet(SDES, Kepts(body))
  BY <1>1, <1>3, <1>13, ReadSdes
<1>15. Kept(p) = Packet(SDES, Kepts(body))
  BY <1>1, <1>2 DEF Kept, Kepts, KeptChunk
<1> QED BY <1>1, <1>14, <1>15

-----------------------------------------------------------------------------
(* And the other packets                                                   *)

ByePacket == [pt : {BYE}, body : [srcs : Seq(SsrcOctets), reason : {s \in Seq(Octet) : Len(s) \in Word}]]
AppPacket == [pt : {APP}, body : [ssrc : SsrcOctets]]

LEMMA WordNat == ASSUME NEW v \in Word PROVE v \in Nat
BY DEF Word

\* The sources of a goodbye, four octets each.
LEMMA SourcesLie ==
  ASSUME NEW srcs \in Seq(SsrcOctets), NEW F, F = FlattenSeq(srcs)
  PROVE  /\ F \in Seq(Octet) /\ Len(F) = 4 * Len(srcs)
         /\ \A i \in 1 .. Len(srcs) : Lies(F, 4 * (i - 1), srcs[i]) /\ srcs[i] \in Seq(Octet)
                                      /\ Len(srcs[i]) = 4
<1>1. PICK n : n = Len(srcs) /\ n \in Nat
  BY LenProperties
<1>2. \A i \in 1 .. n : srcs[i] \in Seq(Octet) /\ Len(srcs[i]) = 4
  <2>1. \A i \in 1 .. n : srcs[i] \in SsrcOctets
    BY <1>1, ElementOfSeq
  <2> QED BY <2>1, SsrcIs
<1>3. Listed(srcs)
  BY DEF Listed
<1>4. PICK h : Stacked(F, srcs, n, h)
  BY <1>1, <1>2, <1>3, FlattenStacks
<1>5. PICK w \in Nat : w = 4
  OBVIOUS
<1>6. Len(F) = w * n /\ \A i \in 1 .. n : Lies(F, w * (i - 1), srcs[i])
  <2>1. \A i \in 1 .. n : Len(srcs[i]) = w
    BY <1>2, <1>5
  <2>2. n \in Nat /\ w \in Nat
    BY <1>1, <1>5
  <2> QED BY ONLY <1>4, <2>1, <2>2, StackedEven
<1>7. F \in Seq(Octet)
  BY <1>4 DEF Stacked
<1> QED BY <1>1, <1>2, <1>5, <1>6, <1>7

\* What ParseBye makes of sources and the field of a reason.
LEMMA ReadSources ==
  ASSUME NEW d \in Seq(Octet), NEW srcs \in Seq(SsrcOctets), Lies(d, 0, FlattenSeq(srcs)),
         NEW n, n = Len(srcs)
  PROVE  [i \in 1 .. n |-> Field(d, 4 * (i - 1), 4)] = srcs
<1>1. PICK F : F = FlattenSeq(srcs)
  OBVIOUS
<1>2. /\ F \in Seq(Octet)
      /\ \A i \in 1 .. n : Lies(F, 4 * (i - 1), srcs[i]) /\ srcs[i] \in Seq(Octet) /\ Len(srcs[i]) = 4
  BY <1>1, SourcesLie
<1>3. ASSUME NEW i \in 1 .. n PROVE Field(d, 4 * (i - 1), 4) = srcs[i]
  <2>1. PICK s, b, z : s = srcs[i] /\ b = 4 * (i - 1) /\ z = 0 /\ z + b = b
    <3>1. n \in Nat
      BY LenProperties
    <3> QED BY <1>3, <3>1
  <2>2. Lies(F, b, s) /\ s \in Seq(Octet) /\ Len(s) = 4 /\ Lies(d, z, F) /\ Len(d) \in Nat
    BY <1>1, <1>2, <1>3, <2>1, LenProperties
  <2>3. Lies(d, z + b, s)
    BY <1>2, <2>2, LiesWithin
  <2>7. PICK four : four = 4
    OBVIOUS
  <2>4. Lies(d, b, s) /\ four = Len(s) /\ d \in Seq(Octet) /\ s \in Seq(Octet)
    BY <2>1, <2>2, <2>3, <2>7
  <2>6. Field(d, b, four) = s
    BY ONLY <2>4, LiesField
  <2>5. Field(d, b, 4) = s
    BY <2>6, <2>7
  <2> QED BY <2>1, <2>5
<1>4. srcs = [i \in 1 .. n |-> srcs[i]]
  OBVIOUS
<1> QED BY <1>3, <1>4

LEMMA ReadBye ==
  ASSUME NEW p \in ByePacket, NEW d, d = ByeOctets(p)
  PROVE  ParseBye(Len(p.body.srcs), d) = p
<1>1. PICK srcs, reason, n, m : /\ srcs = p.body.srcs /\ reason = p.body.reason
                                /\ n = Len(srcs) /\ m = Len(reason)
  OBVIOUS
<1>2. /\ srcs \in Seq(SsrcOctets) /\ reason \in Seq(Octet) /\ m \in Word
      /\ p = Packet(BYE, [srcs |-> srcs, reason |-> reason])
  BY <1>1 DEF ByePacket, Packet
<1>3. n \in Nat /\ m \in Nat
  BY <1>1, <1>2, WordNat, LenProperties
<1>4. PICK F, at : F = FlattenSeq(srcs) /\ at = 4 * n
  OBVIOUS
<1>5. F \in Seq(Octet) /\ Len(F) = at /\ at \in Nat
  <2>1. F \in Seq(Octet) /\ Len(F) = 4 * Len(srcs)
    BY <1>2, <1>4, SourcesLie
  <2> QED BY <1>1, <1>3, <1>4, <2>1
<1>6. PICK x : x = Field(d, at + 2, Len(d) - at - 2)
  OBVIOUS
<1>7. /\ d \in Seq(Octet) /\ Lies(d, 0, F) /\ x = reason
      /\ \/ Len(d) = at
         \/ Left(d, at, 2) /\ Num(Field(d, at, 2)) = Len(x)
  <2>1. CASE reason = <<>>
    <3>1. d = F
      <4>1. d = F \o <<>>
        BY <1>1, <1>4, <2>1 DEF ByeOctets
      <4> QED BY <1>5, <4>1
    <3>2. x = <<>>
      <4>1. Len(d) - at - 2 = -2
        BY <1>5, <3>1
      <4>2. x = SubSeq(d, at + 2 + 1, at + 2 + -2)
        BY <1>6, <4>1 DEF Field
      <4>3. PICK i, j : i = at + 2 + 1 /\ j = at + 2 + -2 /\ i \in Int /\ j \in Int /\ j < i
        BY <1>5
      <4>4. SubSeq(d, i, j) = <<>>
        BY ONLY <4>3, SubSeqEmpty
      <4> QED BY <4>2, <4>3, <4>4
    <3>3. Lies(F, 0, F)
      BY <1>5, LiesSelf
    <3>4. d \in Seq(Octet) /\ Lies(d, 0, F) /\ Len(d) = at
      BY ONLY <1>5, <3>1, <3>3
    <3> QED BY ONLY <2>1, <3>2, <3>4
  <2>2. CASE reason # <<>>
    <3>1. PICK o, t, u : o = OctetsOf(m, 2) /\ t = o \o reason /\ u = 2
      OBVIOUS
    <3>2. d = F \o t
      BY <1>1, <1>4, <2>2, <3>1 DEF ByeOctets
    <3>3. o \in Seq(Octet) /\ Len(o) = u /\ Num(o) = m
      BY <1>2, <1>3, <3>1, TwoOctets, TwoOctetsIn
    <3>4. t \in Seq(Octet) /\ Lies(t, 0, o) /\ Lies(t, u, reason) /\ Len(t) = u + m
      <4>1. o \in Seq(Octet) /\ reason \in Seq(Octet) /\ t = o \o reason /\ u = Len(o)
        BY <1>2, <3>1, <3>3
      <4>2. t \in Seq(Octet) /\ Lies(t, 0, o) /\ Lies(t, u, reason) /\ Len(t) = u + Len(reason)
        BY ONLY <4>1, LiesConcat
      <4> QED BY <1>1, <4>2
    <3>5. d \in Seq(Octet) /\ Lies(d, 0, F) /\ Lies(d, at, t) /\ Len(d) = at + Len(t)
      <4>1. F \in Seq(Octet) /\ t \in Seq(Octet) /\ d = F \o t /\ at = Len(F)
        BY <1>5, <3>2, <3>4
      <4> QED BY ONLY <4>1, LiesConcat
    <3>6. PICK l : l = Len(d) /\ l = at + (u + m) /\ l \in Nat
      BY <1>3, <1>5, <3>1, <3>4, <3>5
    <3>7. Lies(d, at + 0, o) /\ Lies(d, at + u, reason)
      <4>1. Len(d) \in Nat
        BY <3>6
      <4> QED BY <1>2, <3>3, <3>4, <3>5, <4>1, LiesWithin
    <3>8. x = reason
      <4>1. Len(d) - at - 2 = m /\ at + 2 = at + u
        BY <1>3, <1>5, <3>1, <3>6
      <4>2. x = Field(d, at + u, m)
        BY <1>6, <4>1
      <4>3. d \in Seq(Octet) /\ reason \in Seq(Octet) /\ Lies(d, at + u, reason) /\ m = Len(reason)
        BY <1>1, <1>2, <3>5, <3>7
      <4>4. Field(d, at + u, m) = reason
        BY ONLY <4>3, LiesField
      <4> QED BY <4>2, <4>4
    <3>9. Field(d, at, 2) = o
      <4>1. at + 0 = at
        BY <1>5
      <4>2. d \in Seq(Octet) /\ o \in Seq(Octet) /\ Lies(d, at, o) /\ u = Len(o)
        BY <3>3, <3>5, <3>7, <4>1
      <4>3. Field(d, at, u) = o
        BY ONLY <4>2, LiesField
      <4> QED BY <3>1, <4>3
    <3>10. Left(d, at, 2)
      BY <1>3, <1>5, <3>1, <3>6 DEF Left
    <3> QED BY <1>1, <3>3, <3>5, <3>8, <3>9, <3>10
  <2> QED BY <2>1, <2>2
<1>8. [i \in 1 .. n |-> Field(d, 4 * (i - 1), 4)] = srcs
  <2>1. Lies(d, 0, FlattenSeq(srcs))
    BY <1>4, <1>7
  <2> QED BY <1>1, <1>2, <1>7, <2>1, ReadSources
<1>9. ParseBye(n, d) = Packet(BYE, [srcs |-> [i \in 1 .. n |-> Field(d, 4 * (i - 1), 4)], reason |-> x])
  BY <1>4, <1>6, <1>7 DEF ParseBye
<1> QED BY <1>1, <1>2, <1>7, <1>8, <1>9

LEMMA ReadApp ==
  ASSUME NEW p \in AppPacket, NEW d, d = AppOctets(p)
  PROVE  ParseApp(d) = p
<1>1. PICK s, z, f : s = p.body.ssrc /\ z = Zeros(f) /\ f = 4
  OBVIOUS
<1>2. s \in SsrcOctets /\ p = Packet(APP, [ssrc |-> s])
  BY <1>1 DEF AppPacket, Packet
<1>3. s \in Seq(Octet) /\ Len(s) = f /\ z \in Seq(Octet) /\ Len(z) = f
  <2>1. f \in Nat
    BY <1>1
  <2> QED BY <1>1, <1>2, <2>1, SsrcIs, ZerosLen
<1>4. d = s \o z
  BY <1>1 DEF AppOctets
<1>5. d \in Seq(Octet) /\ Lies(d, 0, s) /\ Len(d) = f + Len(z)
  <2>1. s \in Seq(Octet) /\ z \in Seq(Octet) /\ d = s \o z /\ f = Len(s)
    BY <1>3, <1>4
  <2> QED BY ONLY <2>1, LiesConcat
<1>6. Field(d, 0, 4) = s
  <2>1. d \in Seq(Octet) /\ s \in Seq(Octet) /\ Lies(d, 0, s) /\ f = Len(s)
    BY <1>3, <1>5
  <2>2. Field(d, 0, f) = s
    BY ONLY <2>1, LiesField
  <2> QED BY <1>1, <2>2
<1>7. Left(d, 0, 8)
  BY <1>1, <1>3, <1>5 DEF Left
<1> QED BY <1>2, <1>6, <1>7 DEF ParseApp

OtherPacket == [pt : Octet \ {SR, RR, SDES, BYE, APP}, body : {<<>>}]

\* The types differ.
LEMMA PacketTypes ==
  /\ SR # SDES /\ SR # BYE /\ SR # APP /\ RR # SDES /\ RR # BYE /\ RR # APP
  /\ SDES # BYE /\ SDES # APP /\ BYE # APP /\ BYE # SDES /\ APP # SDES /\ APP # BYE
  /\ SDES \notin {SR, RR} /\ BYE \notin {SR, RR} /\ APP \notin {SR, RR}
BY DEF SR, RR, SDES, BYE, APP

\* A packet is read as it was written.
Reads(p, q) == \A r : r.pt = p.pt /\ r.rc = Count(p) /\ r.payload = q => ParseBody(r) = Kept(p)

LEMMA ReportReads ==
  ASSUME NEW p \in ReportPacket, NEW d, ReportsLie(d, p)
  PROVE  Reads(p, d)
<1>1. p.pt \in {SR, RR} /\ p.pt # SDES /\ p.pt # BYE /\ p.pt # APP
  BY PacketTypes DEF ReportPacket
<1>2. Count(p) = Len(p.body.reports)
  BY ONLY <1>1 DEF Count
<1>3. ParseReports(p.pt, Len(p.body.reports), d) = p
  BY ReadReports
<1>4. Kept(p) = p
  BY <1>1 DEF Kept
<1>5. ASSUME NEW r, r.pt = p.pt, r.rc = Count(p), r.payload = d PROVE ParseBody(r) = Kept(p)
  <2>1. r.pt \in {SR, RR} /\ r.pt # SDES /\ r.pt # BYE /\ r.pt # APP
    BY <1>1, <1>5
  <2>2. ParseBody(r) = ParseReports(r.pt, r.rc, r.payload)
    BY ONLY <2>1 DEF ParseBody
  <2> QED BY <1>2, <1>3, <1>4, <1>5, <2>2
<1> QED BY <1>5 DEF Reads

LEMMA BodyOfReports ==
  ASSUME NEW p \in ReportPacket
  PROVE  Reads(p, BodyOctets(p))
BY PeerReports, ReportReads

LEMMA BodyOfSdes ==
  ASSUME NEW p \in SdesPacket, ~FillsWord(p)
  PROVE  Reads(p, BodyOctets(p))
<1>1. p.pt = SDES /\ p.pt \notin {SR, RR} /\ p.pt # BYE /\ p.pt # APP
  BY PacketTypes DEF SdesPacket
<1>2. Count(p) = Len(p.body)
  BY ONLY <1>1 DEF Count
<1>3. BodyOctets(p) = SdesOctets(p)
  BY ONLY <1>1 DEF BodyOctets
<1>4. PICK d : d = SdesOctets(p)
  OBVIOUS
<1>5. ParseSdes(Len(p.body), d) = Kept(p)
  BY <1>4, PeerSdes
<1>6. ASSUME NEW r, r.pt = p.pt, r.rc = Count(p), r.payload = d PROVE ParseBody(r) = Kept(p)
  <2>1. r.pt = SDES /\ r.pt \notin {SR, RR} /\ r.pt # BYE /\ r.pt # APP
    BY <1>1, <1>6
  <2>2. ParseBody(r) = ParseSdes(r.rc, r.payload)
    BY ONLY <2>1 DEF ParseBody
  <2> QED BY <1>2, <1>5, <1>6, <2>2
<1> QED BY <1>3, <1>4, <1>6 DEF Reads

LEMMA BodyOfBye ==
  ASSUME NEW p \in ByePacket
  PROVE  Reads(p, BodyOctets(p))
<1>1. p.pt = BYE /\ p.pt \notin {SR, RR} /\ p.pt # SDES /\ p.pt # APP
  BY PacketTypes DEF ByePacket
<1>2. Count(p) = Len(p.body.srcs)
  BY ONLY <1>1 DEF Count
<1>3. BodyOctets(p) = ByeOctets(p)
  BY ONLY <1>1 DEF BodyOctets
<1>4. PICK d : d = ByeOctets(p)
  OBVIOUS
<1>5. ParseBye(Len(p.body.srcs), d) = p
  BY <1>4, ReadBye
<1>6. Kept(p) = p
  BY <1>1 DEF Kept
<1>7. ASSUME NEW r, r.pt = p.pt, r.rc = Count(p), r.payload = d PROVE ParseBody(r) = Kept(p)
  <2>1. r.pt = BYE /\ r.pt \notin {SR, RR} /\ r.pt # SDES /\ r.pt # APP
    BY <1>1, <1>7
  <2>2. ParseBody(r) = ParseBye(r.rc, r.payload)
    BY ONLY <2>1 DEF ParseBody
  <2> QED BY <1>2, <1>5, <1>6, <1>7, <2>2
<1> QED BY <1>3, <1>4, <1>7 DEF Reads

LEMMA BodyOfApp ==
  ASSUME NEW p \in AppPacket
  PROVE  Reads(p, BodyOctets(p))
<1>1. p.pt = APP /\ p.pt \notin {SR, RR} /\ p.pt # SDES /\ p.pt # BYE
  BY PacketTypes DEF AppPacket
<1>2. BodyOctets(p) = AppOctets(p)
  BY ONLY <1>1 DEF BodyOctets
<1>3. PICK d : d = AppOctets(p)
  OBVIOUS
<1>4. ParseApp(d) = p
  BY <1>3, ReadApp
<1>5. Kept(p) = p
  BY <1>1 DEF Kept
<1>6. ASSUME NEW r, r.pt = p.pt, r.payload = d PROVE ParseBody(r) = Kept(p)
  <2>1. r.pt = APP /\ r.pt \notin {SR, RR} /\ r.pt # SDES /\ r.pt # BYE
    BY <1>1, <1>6
  <2>2. ParseBody(r) = ParseApp(r.payload)
    BY ONLY <2>1 DEF ParseBody
  <2> QED BY <1>4, <1>5, <1>6, <2>2
<1> QED BY <1>2, <1>3, <1>6 DEF Reads

LEMMA BodyOfOther ==
  ASSUME NEW p \in OtherPacket
  PROVE  Reads(p, BodyOctets(p))
<1>1. p.pt \notin {SR, RR} /\ p.pt # SDES /\ p.pt # BYE /\ p.pt # APP
  BY DEF OtherPacket
<1>2. p = Packet(p.pt, <<>>)
  BY DEF OtherPacket, Packet
<1>3. Kept(p) = p
  BY <1>1 DEF Kept
<1>4. ASSUME NEW r, r.pt = p.pt PROVE ParseBody(r) = Kept(p)
  <2>1. r.pt \notin {SR, RR} /\ r.pt # SDES /\ r.pt # BYE /\ r.pt # APP
    BY <1>1, <1>4
  <2>2. ParseBody(r) = Packet(r.pt, <<>>)
    BY ONLY <2>1 DEF ParseBody
  <2> QED BY <1>2, <1>3, <1>4, <2>2
<1> QED BY <1>4 DEF Reads

\* Of what a peer writes each packet is read so, but those with a chunk that fills a word.
LEMMA PeerBody ==
  ASSUME NEW p, Fits(p)
  PROVE  FillsWord(p) \/ Reads(p, BodyOctets(p))
<1>1. \/ p \in ReportPacket
      \/ p \in SdesPacket
      \/ p \in ByePacket
      \/ p \in AppPacket
      \/ p \in OtherPacket
  BY DEF Fits, ReportPacket, SdesPacket, ByePacket, AppPacket, OtherPacket
<1> QED BY <1>1, BodyOfReports, BodyOfSdes, BodyOfBye, BodyOfApp, BodyOfOther

-----------------------------------------------------------------------------
(* What stands between two ends                                            *)

\* What stands between b and e will be read as p.
Says(d, b, e, p) ==
  \E q : Holds(d, b, e, Count(p), p.pt, q) /\ (FillsWord(p) \/ Reads(p, q))

\* It stays so when more is written behind it.
LEMMA SaysOn ==
  ASSUME NEW d, NEW b, NEW e, Put(d, b, e), NEW p, Says(d, b, e, p),
         NEW c, NEW l \in Nat, NEW n \in Nat, Len(d) = l, Len(c) = n, l <= n,
         \A k \in 1 .. l : c[k] = d[k]
  PROVE  Says(c, b, e, p)
<1>1. PICK q, rc, pt : /\ Holds(d, b, e, rc, pt, q) /\ (FillsWord(p) \/ Reads(p, q))
                       /\ rc = Count(p) /\ pt = p.pt
  BY DEF Says
<1>2. Holds(c, b, e, rc, pt, q)
  BY <1>1, HoldsOn
<1> QED BY <1>1, <1>2 DEF Says

\* And when it is written behind something.
LEMMA SaysBehind ==
  ASSUME NEW d \in Seq(Octet), NEW c \in Seq(Octet), NEW m, m = Len(c), m >= 4, NEW p,
         Says(c, 0, m, p), NEW r, r = d \o c
  PROVE  Says(r, Len(d), Len(r), p)
<1>1. PICK q, rc, pt : /\ Holds(c, 0, m, rc, pt, q) /\ (FillsWord(p) \/ Reads(p, q))
                       /\ rc = Count(p) /\ pt = p.pt
  BY DEF Says
<1>2. Holds(r, Len(d), Len(r), rc, pt, q)
  BY <1>1, HoldsBehind
<1> QED BY <1>1, <1>2 DEF Says

\* And it is, if it arrived in full.
LEMMA SaysRead ==
  ASSUME NEW d \in Seq(Octet), NEW b, NEW e, Put(d, b, e), NEW p, Says(d, b, e, p),
         NEW n \in Nat, b <= n, n <= Len(d), e <= n, NEW a, Cut(d, n, a),
         NEW r, r = ParseRtcpPkg(a, b)
  PROVE  FillsWord(p) \/ ParseBody(r) = Kept(p)
<1>1. PICK q, z : /\ Holds(d, b, e, Count(p), p.pt, q) /\ (FillsWord(p) \/ Reads(p, q))
                  /\ z = PadAt(d, b, e)
  BY DEF Says
<1>2. /\ r.pt = d[b + 2] /\ r.rc = ParseBit(d[b + 1], 0, 5)
      /\ r.payload = Field(a, b + 4, e - b - 4 - z) /\ z \in 0 .. e - b - 4
  BY <1>1, ReadPacket
<1>3. b \in Nat /\ e \in Nat /\ b + 4 <= e /\ e <= Len(d) /\ Len(d) \in Nat
  BY LenProperties DEF Put
<1>4. PICK m, f : m = Len(q) /\ f = b + 4 /\ m = e - b - 4 - z /\ m \in Nat /\ f \in Nat
  BY <1>1, <1>2, <1>3, LenProperties DEF Holds
<1>5. q \in Seq(Octet) /\ Lies(d, f, q) /\ r.rc = Count(p) /\ r.pt = p.pt
  BY <1>1, <1>2, <1>4 DEF Holds
<1>6. a \in Seq(Octet) /\ Len(a) = n /\ \A k \in 1 .. n : a[k] = d[k]
  BY DEF Cut
<1>7. Lies(a, f, q)
  <2>1. f + m <= n
    BY <1>2, <1>3, <1>4
  <2>2. \A k \in 1 .. m : d[f + k] = q[k]
    BY <1>4, <1>5 DEF Lies
  <2>3. \A k \in 1 .. m : f + k \in 1 .. n
    BY <1>4, <2>1
  <2>4. \A k \in 1 .. m : a[f + k] = q[k]
    BY <1>6, <2>2, <2>3
  <2> QED BY <1>4, <1>6, <2>1, <2>4 DEF Lies
<1>8. Field(a, f, m) = q
  <2>1. a \in Seq(Octet) /\ q \in Seq(Octet) /\ Lies(a, f, q) /\ m = Len(q)
    BY <1>4, <1>5, <1>6, <1>7
  <2> QED BY ONLY <2>1, LiesField
<1>9. r.payload = q
  BY <1>2, <1>4, <1>8
<1> QED BY <1>1, <1>5, <1>9 DEF Reads

\* A packet of a peer.
LEMMA PeerSays ==
  ASSUME NEW p \in Packets, NEW pad \in Pads, NEW c, c = PacketOctets(p, pad)
  PROVE  Says(c, 0, Len(c), p)
<1>1. Holds(c, 0, Len(c), Count(p), p.pt, BodyOctets(p))
  BY PeerPacket
<1>2. FillsWord(p) \/ Reads(p, BodyOctets(p))
  BY PeerAssumption, PeerBody
<1> QED BY <1>1, <1>2 DEF Says

\* The server's reports.
LEMMA SenderSays ==
  ASSUME NEW p, p = Packet(SR, [ssrc |-> Ssrc, reports |-> <<>>]),
         NEW d, NEW e, Holds(d, 0, e, 0, SR, Ssrc \o Zeros(20))
  PROVE  Says(d, 0, e, p)
<1>1. PICK pt, rs, body : pt = SR /\ rs = <<>> /\ body = [ssrc |-> Ssrc, reports |-> rs]
  OBVIOUS
<1>2. p = [pt |-> pt, body |-> body] /\ p.pt = pt /\ p.body = body /\ body.ssrc = Ssrc /\ body.reports = rs
  BY <1>1 DEF Packet
<1>3. rs \in Seq(SrcReport) /\ Len(rs) = 0
  BY <1>1
<1>4. p \in ReportPacket
  <2>1. pt \in {SR, RR} /\ rs \in Seq(SrcReport) /\ Ssrc \in SsrcOctets
    BY <1>1, <1>3, ServerSsrc
  <2>2. body \in [ssrc : SsrcOctets, reports : Seq(SrcReport)]
    BY ONLY <1>1, <2>1
  <2> QED BY ONLY <1>2, <2>1, <2>2 DEF ReportPacket
<1>5. Count(p) = 0
  <2>1. p.pt \in {SR, RR} /\ p.pt # SDES /\ p.pt # BYE /\ p.pt # APP
    BY <1>1, <1>2, PacketTypes
  <2>2. Count(p) = Len(p.body.reports)
    BY ONLY <2>1 DEF Count
  <2> QED BY <1>2, <1>3, <2>2
<1>6. PICK q, z, n, s : q = s \o z /\ z = Zeros(n) /\ n = 20 /\ s = Ssrc
  OBVIOUS
<1>7. z \in Seq(Octet) /\ Len(z) = n /\ s \in Seq(Octet) /\ Len(s) = 4
  <2>1. n \in Nat
    BY <1>6
  <2> QED BY <1>6, <2>1, ZerosLen, FormatAssumption
<1>8. q \in Seq(Octet) /\ Lies(q, 0, s) /\ Len(q) = 24
  <2>0. PICK m : m = 4 /\ m = Len(s)
    BY <1>7
  <2>1. q \in Seq(Octet) /\ Lies(q, 0, s) /\ Len(q) = m + Len(z)
    <3>1. s \in Seq(Octet) /\ z \in Seq(Octet) /\ q = s \o z /\ m = Len(s)
      BY <1>6, <1>7, <2>0
    <3> QED BY ONLY <3>1, LiesConcat
  <2>2. PICK k : k = Len(z) /\ k = 20
    BY <1>6, <1>7
  <2>3. m + Len(z) = 24
    BY ONLY <2>0, <2>2
  <2> QED BY <2>1, <2>3
<1>9. ReportsLie(q, p)
  <2>1. Beg(p.pt) = 24 /\ Len(p.body.reports) = 0 /\ p.body.ssrc = s
    BY <1>1, <1>2, <1>3, <1>6 DEF Beg
  <2>2. Len(q) = Beg(p.pt) + 24 * Len(p.body.reports)
    BY <1>8, <2>1
  <2> QED BY <1>8, <2>1, <2>2 DEF ReportsLie
<1>10. Reads(p, q)
  BY <1>4, <1>9, ReportReads
<1>11. Holds(d, 0, e, Count(p), p.pt, q)
  BY <1>1, <1>2, <1>5, <1>6
<1> QED BY <1>10, <1>11 DEF Says

LEMMA ReceiverSays ==
  ASSUME NEW lost \in LostCount, NEW p, p = Packet(RR, [ssrc |-> Ssrc, reports |-> <<Report(Ssrc, lost)>>]),
         NEW d, NEW e, Holds(d, 0, e, 1, RR, Ssrc \o ReportBlk(Report(Ssrc, lost)))
  PROVE  Says(d, 0, e, p)
<1>1. PICK pt, r, rs, body : /\ pt = RR /\ r = Report(Ssrc, lost) /\ rs = <<r>>
                             /\ body = [ssrc |-> Ssrc, reports |-> rs]
  OBVIOUS
<1>2. p = [pt |-> pt, body |-> body] /\ p.pt = pt /\ p.body = body /\ body.ssrc = Ssrc /\ body.reports = rs
  BY <1>1 DEF Packet
<1>3. r \in SrcReport
  BY <1>1, ServerSsrc DEF Report, SrcReport
<1>4. rs \in Seq(SrcReport) /\ Len(rs) = 1 /\ rs[1] = r
  BY <1>1, <1>3
<1>5. p \in ReportPacket
  <2>1. pt \in {SR, RR} /\ rs \in Seq(SrcReport) /\ Ssrc \in SsrcOctets
    BY <1>1, <1>4, ServerSsrc
  <2>2. body \in [ssrc : SsrcOctets, reports : Seq(SrcReport)]
    BY ONLY <1>1, <2>1
  <2> QED BY ONLY <1>2, <2>1, <2>2 DEF ReportPacket
<1>6. Count(p) = 1
  <2>1. p.pt \in {SR, RR} /\ p.pt # SDES /\ p.pt # BYE /\ p.pt # APP
    BY <1>1, <1>2, PacketTypes
  <2>2. Count(p) = Len(p.body.reports)
    BY ONLY <2>1 DEF Count
  <2> QED BY <1>2, <1>4, <2>2
<1>7. PICK q, z, s : q = s \o z /\ z = ReportBlk(r) /\ s = Ssrc
  OBVIOUS
<1>8. z \in Seq(Octet) /\ Len(z) = 24 /\ s \in Seq(Octet) /\ Len(s) = 4
  BY <1>3, <1>7, BlkLies, FormatAssumption
<1>9. q \in Seq(Octet) /\ Lies(q, 0, s) /\ Len(q) = 28 /\ Lies(q, 4, z)
  <2>0. PICK m : m = 4 /\ m = Len(s)
    BY <1>8
  <2>1. q \in Seq(Octet) /\ Lies(q, 0, s) /\ Len(q) = m + Len(z) /\ Lies(q, m, z)
    <3>1. s \in Seq(Octet) /\ z \in Seq(Octet) /\ q = s \o z /\ m = Len(s)
      BY <1>7, <1>8, <2>0
    <3> QED BY ONLY <3>1, LiesConcat
  <2> QED BY <1>8, <2>0, <2>1
<1>10. ReportsLie(q, p)
  <2>0. PICK b, l : b = Beg(p.pt) /\ l = Len(p.body.reports)
    OBVIOUS
  <2>1. b = 4 /\ l = 1 /\ p.body.ssrc = s
    BY <1>1, <1>2, <1>4, <1>7, <2>0 DEF Beg, SR, RR
  <2>2. Len(q) = Beg(p.pt) + 24 * Len(p.body.reports)
    <3>1. b + 24 * l = 28
      BY ONLY <2>1
    <3> QED BY <1>9, <2>0, <3>1
  <2>3. ASSUME NEW i \in 1 .. Len(p.body.reports)
        PROVE  Lies(q, Beg(p.pt) + 24 * (i - 1), ReportBlk(p.body.reports[i]))
    <3>1. i = 1
      <4>1. i \in 1 .. l
        BY <2>0
      <4> QED BY ONLY <2>1, <4>1
    <3>2. b + 24 * (i - 1) = 4 /\ p.body.reports[i] = r
      <4>1. b + 24 * (i - 1) = 4
        BY ONLY <2>1, <3>1
      <4> QED BY <1>2, <1>4, <3>1, <4>1
    <3> QED BY <1>7, <1>9, <2>0, <3>2
  <2> QED BY <1>9, <2>1, <2>2, <2>3 DEF ReportsLie
<1>11. Reads(p, q)
  BY <1>5, <1>10, ReportReads
<1>12. Holds(d, 0, e, Count(p), p.pt, q)
  BY <1>1, <1>2, <1>6, <1>7
<1> QED BY <1>11, <1>12 DEF Says

-----------------------------------------------------------------------------
(* The name of the server                                                  *)

\* The chunk with the name of the server has one item.
LEMMA OneFlat ==
  ASSUME NEW s \in Seq(Octet)
  PROVE  FlattenSeq(<<s>>) = s
<1>1. PICK t, n, F : t = <<s>> /\ n = 1 /\ F = FlattenSeq(t)
  OBVIOUS
<1>2. n \in Nat /\ Listed(t) /\ Len(t) = n /\ t[n] = s
  <2>1. t \in Seq({s})
    BY <1>1
  <2> QED BY <1>1, <2>1 DEF Listed
<1>3. \A i \in 1 .. n : t[i] \in Seq(Octet)
  BY <1>1, <1>2
<1>4. PICK h : Stacked(F, t, n, h)
  BY <1>1, <1>2, <1>3, FlattenStacks
<1>5. PICK z, l : z = 0 /\ l = Len(s) /\ l \in Nat
  BY LenProperties
<1>6. F \in Seq(Octet) /\ h[z] = 0 /\ Len(F) = h[n] /\ h[n] = h[z] + Len(s) /\ Lies(F, h[z], s)
  <2>1. n \in 1 .. n /\ n - 1 = z
    BY <1>1, <1>5
  <2>2. \A i \in 1 .. n : h[i] = h[i - 1] + Len(t[i]) /\ Lies(F, h[i - 1], t[i])
    BY <1>4 DEF Stacked
  <2>3. F \in Seq(Octet) /\ h[z] = 0 /\ Len(F) = h[n]
    BY <1>4, <1>5 DEF Stacked
  <2>4. h[n] = h[n - 1] + Len(t[n]) /\ Lies(F, h[n - 1], t[n])
    BY <2>1, <2>2
  <2> QED BY <1>2, <2>1, <2>3, <2>4
<1>7. Len(F) = l /\ Lies(F, z, s)
  BY <1>5, <1>6
<1>8. \A k \in 1 .. l : F[k] = s[k]
  <2>1. \A k \in 1 .. l : F[z + k] = s[k] /\ z + k = k
    BY <1>5, <1>7 DEF Lies
  <2> QED BY <2>1
<1>9. F = s
  BY <1>5, <1>6, <1>7, <1>8, SeqEqual
<1> QED BY <1>1, <1>9

ServerChunk(cname) == Chunk(Ssrc, <<Item(CNAME, cname)>>)

\* It is a chunk as a peer writes one.
LEMMA ServerText ==
  ASSUME NEW cname, NameFits(cname), NEW c, c = ServerChunk(cname)
  PROVE  /\ c \in SrcChunk /\ c.src = Ssrc
         /\ ItemsOctets(c) = ChunkText(Ssrc, CNAME, cname)
<1>1. PICK it, its, a : it = Item(CNAME, cname) /\ its = <<it>> /\ a = Ssrc
  OBVIOUS
<1>2. cname \in Seq(Octet) /\ Len(cname) \in Octet
  BY LenProperties DEF NameFits, Octet
<1>3. it \in SrcItem /\ it.type = CNAME /\ it.desc = cname
  BY <1>1, <1>2 DEF Item, SrcItem, CNAME
<1>4. its \in Seq(SrcItem) /\ DOMAIN its = {1} /\ its[1] = it
  BY <1>1, <1>3
<1>5. c = [src |-> a, items |-> its] /\ a \in SsrcOctets
  BY <1>1, ServerSsrc DEF ServerChunk, Chunk
<1>6. c \in SrcChunk /\ c.src = Ssrc /\ c.items = its
  BY <1>1, <1>4, <1>5 DEF SrcChunk
<1>7. PICK o : o = ItemOctets(it) /\ o \in Seq(Octet)
  BY <1>3, ItemLies
<1>8. [i \in DOMAIN its |-> ItemOctets(its[i])] = <<o>>
  BY <1>4, <1>7
<1>9. ItemsOctets(c) = a \o o
  <2>1. ItemsOctets(c) = c.src \o FlattenSeq([i \in DOMAIN c.items |-> ItemOctets(c.items[i])])
    BY DEF ItemsOctets
  <2> QED BY <1>1, <1>6, <1>7, <1>8, <2>1, OneFlat
<1>10. a \o o = ChunkText(Ssrc, CNAME, cname)
  <2>1. PICK t, l, u, v : /\ t = <<CNAME>> /\ l = <<Len(cname)>> /\ u = <<CNAME, Len(cname)>>
                          /\ v = l \o cname
    OBVIOUS
  <2>2. CNAME \in Octet
    BY DEF CNAME, Octet
  <2>3. t \in Seq(Octet) /\ l \in Seq(Octet)
    BY <1>2, <2>1, <2>2
  <2>4. u = t \o l
    BY <2>1
  <2>5. o = u \o cname
    BY <1>3, <1>7, <2>1 DEF ItemOctets
  <2>6. o = t \o v
    <3>1. (t \o l) \o cname = t \o (l \o cname)
      BY ONLY <1>2, <2>3, ConcatAssociative
    <3> QED BY ONLY <2>1, <2>4, <2>5, <3>1
  <2>7. ChunkText(Ssrc, CNAME, cname) = (a \o t) \o v
    BY <1>1, <2>1 DEF ChunkText
  <2>8. v \in Seq(Octet) /\ a \in Seq(Octet)
    BY <1>1, <1>2, <2>1, <2>3, FormatAssumption, ConcatProperties
  <2>9. (a \o t) \o v = a \o (t \o v)
    BY ONLY <2>3, <2>8, ConcatAssociative
  <2> QED BY <2>6, <2>7, <2>9
<1> QED BY <1>6, <1>9, <1>10

\* Of two words in a row only one begins behind l.
LEMMA NextWord ==
  ASSUME NEW l \in Nat, NEW x \in Nat, NEW y \in Nat, x % 4 = 0, y % 4 = 0,
         l < x, x <= l + 4, l < y, y <= l + 4
  PROVE  x = y
<1>1. PICK i \in Nat, j \in Nat : i = x \div 4 /\ j = y \div 4
  OBVIOUS
<1>2. x = 4 * i /\ y = 4 * j
  BY <1>1
<1>3. i = j
  BY <1>2
<1> QED BY <1>2, <1>3

\* What is behind the name ends the chunk, unless it fills a word.
LEMMA NameEnds ==
  ASSUME NEW q, NEW l \in Nat, NEW e \in Nat, Len(q) = e, e % 4 = 0, l <= e, e <= l + 4,
         l % 4 # 3, \A i \in l + 1 .. e : q[i] = 0
  PROVE  EndsAt(q, l, e)
<1>1. CASE l = e
  BY <1>1 DEF EndsAt
<1>2. CASE l # e
  <2>1. l < e /\ l + 1 \in l + 1 .. e
    BY <1>2
  <2>2. PICK z, g : z = 0 /\ g = Padding(l)
    OBVIOUS
  <2>3. z \in Nat /\ z % 4 = 0 /\ l \in Nat /\ l % 4 # 3 /\ l = z + l
    BY <2>2
  <2>4. /\ l + 1 + Padding(l + 1) = z + (l + Padding(l))
        /\ (l + Padding(l)) % 4 = 0 /\ Padding(l) \in 1 .. 4
    BY ONLY <2>3, SamePadding
  <2>5. PICK x \in Nat : x = l + g /\ x % 4 = 0 /\ l < x /\ x <= l + 4
    BY <2>2, <2>4
  <2>6. x = e
    BY <2>1, <2>5, NextWord
  <2>7. e = l + 1 + Padding(l + 1)
    BY <2>2, <2>4, <2>5, <2>6
  <2> QED BY <2>1, <2>7 DEF EndsAt
<1> QED BY <1>1, <1>2

\* A packet of one chunk.
LEMMA OneChunk ==
  ASSUME NEW q \in Seq(Octet), NEW c, NEW e \in Nat, Len(q) = e, ChunkLies(q, c, 0, e),
         NEW p, p = Packet(SDES, <<c>>)
  PROVE  Reads(p, q)
<1>1. PICK body, n, z : body = <<c>> /\ n = 1 /\ z = 0
  OBVIOUS
<1>2. Listed(body) /\ Len(body) = n /\ body[n] = c /\ DOMAIN body = 1 .. n
  <2>1. body \in Seq({c})
    BY <1>1
  <2>2. Listed(body)
    BY <2>1 DEF Listed
  <2>3. Len(body) = 1 /\ body[1] = c /\ DOMAIN body = 1 .. 1
    BY <1>1
  <2> QED BY <1>1, <2>2, <2>3
<1>3. PICK h : h = [i \in 0 .. n |-> IF i = 0 THEN z ELSE e]
  OBVIOUS
<1>4. h \in [0 .. n -> Nat] /\ h[0] = 0 /\ h[n] = e /\ n - 1 = 0 /\ n \in 1 .. n
  BY <1>1, <1>3
<1>5. ChunksLie(q, body, h)
  <2>1. ASSUME NEW k \in 1 .. n PROVE ChunkLies(q, body[k], h[k - 1], h[k])
    <3>1. k = n
      BY <1>1
    <3> QED BY <1>2, <1>4, <3>1
  <2> QED BY <1>2, <1>4, <2>1 DEF ChunksLie
<1>6. ParseSdes(n, q) = Packet(SDES, Kepts(body))
  BY <1>2, <1>5, ReadSdes
<1>7. p.pt = SDES /\ p.body = body
  BY <1>1 DEF Packet
<1>8. Kept(p) = Packet(SDES, Kepts(body))
  BY <1>7 DEF Kept, Kepts, KeptChunk
<1>9. p.pt \notin {SR, RR} /\ p.pt # BYE /\ p.pt # APP
  BY <1>7, PacketTypes
<1>10. Count(p) = n
  <2>1. Count(p) = Len(p.body)
    BY ONLY <1>7, <1>9 DEF Count
  <2> QED BY <1>2, <1>7, <2>1
<1>11. ASSUME NEW r, r.pt = p.pt, r.rc = Count(p), r.payload = q PROVE ParseBody(r) = Kept(p)
  <2>1. r.pt = SDES /\ r.pt \notin {SR, RR} /\ r.pt # BYE /\ r.pt # APP
    BY <1>7, <1>9, <1>11
  <2>2. ParseBody(r) = ParseSdes(r.rc, r.payload)
    BY ONLY <2>1 DEF ParseBody
  <2> QED BY <1>6, <1>8, <1>10, <1>11, <2>2
<1> QED BY <1>11 DEF Reads

\* The packet with the name of the server.
LEMMA NameSays ==
  ASSUME NEW d \in Seq(Octet), NEW n \in Nat, n % 4 = 0, NEW k, Put(d, n, k), NEW cname,
         NameFits(cname), Named(d, n, k, cname), NEW p, p = Packet(SDES, <<ServerChunk(cname)>>)
  PROVE  Says(d, n, k, p)
<1>1. PICK text, c, l, b, e : /\ text = ChunkText(Ssrc, CNAME, cname) /\ c = ServerChunk(cname)
                              /\ l = Len(text) /\ b = n + 4 /\ e = k - n - 4
  OBVIOUS
<1>2. n \in Nat /\ k \in Nat /\ n + 4 <= k /\ k <= Len(d) /\ Len(d) \in Nat
  BY LenProperties DEF Put
<1>3. b \in Nat /\ e \in Nat /\ k = b + e
  BY <1>1, <1>2
<1>4. e % 4 = 0
  <2>1. PICK i, j, v : i = n + 3 /\ j = n + 4 /\ v = 256 * d[i] + d[j] /\ n + 4 + 4 * v = k
    BY DEF Put
  <2>2. i \in 1 .. Len(d) /\ j \in 1 .. Len(d)
    BY <1>2, <2>1
  <2>3. PICK x, y : x = d[i] /\ y = d[j] /\ x \in Octet /\ y \in Octet
    BY <2>2, ElementOfSeq
  <2>4. v \in Nat
    <3>1. v = 256 * x + y
      BY <2>1, <2>3
    <3>2. x \in Nat /\ y \in Nat
      BY <2>3 DEF Octet
    <3> QED BY ONLY <3>1, <3>2
  <2>5. e = 4 * v
    BY <1>1, <1>2, <2>1, <2>4
  <2> QED BY <2>4, <2>5
<1>5. /\ ParseBit(d[n + 1], 0, 5) = 1 /\ ParseBit(d[n + 1], 5, 1) = 0 /\ d[n + 2] = SDES
      /\ Spells(d, b, k, text)
  BY <1>1 DEF Named
<1>6. /\ text \in Seq(Octet) /\ l \in Nat /\ b + l <= k /\ k <= b + l + 4
      /\ \A i \in 1 .. l : d[b + i] = text[i]
      /\ \A i \in b + l + 1 .. k : d[i] = 0
  BY <1>1, <1>5, LenProperties DEF Spells, Lies
<1>7. PICK q : q = SubSeq(d, b + 1, k)
  OBVIOUS
<1>8. q \in Seq(Octet) /\ Len(q) = e /\ \A i \in 1 .. e : q[i] = d[b + i]
  <2>1. b \in Nat /\ k \in Nat /\ b <= k /\ k <= Len(d)
    BY <1>1, <1>2, <1>3
  <2>2. q \in Seq(Octet) /\ Len(q) = k - b /\ \A i \in 1 .. k - b : q[i] = d[b + i]
    BY <1>7, <2>1, SubSeqOctets
  <2>3. k - b = e
    BY <1>3
  <2> QED BY <2>2, <2>3
<1>9. l <= e /\ e <= l + 4
  BY <1>3, <1>6
<1>10. Lies(d, b, q)
  BY <1>2, <1>3, <1>8 DEF Lies
<1>11. PadAt(d, n, k) = 0
  BY <1>5 DEF PadAt
<1>12. p.pt = SDES /\ p.body = <<c>>
  BY <1>1 DEF Packet
<1>13. Count(p) = 1
  <2>1. p.pt \notin {SR, RR} /\ p.pt # BYE /\ p.pt # APP
    BY <1>12, PacketTypes
  <2>2. Count(p) = Len(p.body)
    BY ONLY <1>12, <2>1 DEF Count
  <2> QED BY <1>12, <2>2
<1>14. Holds(d, n, k, Count(p), p.pt, q)
  <2>1. k - n - 4 - PadAt(d, n, k) = Len(q)
    <3>1. PICK w : w = PadAt(d, n, k) /\ w = 0
      BY <1>11
    <3>2. k - n - 4 - w = e
      BY <1>1, <1>3, <3>1
    <3> QED BY <1>8, <3>1, <3>2
  <2> QED BY <1>1, <1>5, <1>8, <1>10, <1>12, <1>13, <2>1 DEF Holds
<1>15. c \in SrcChunk /\ c.src = Ssrc /\ ItemsOctets(c) = text
  BY <1>1, ServerText
<1>16. CASE l % 4 = 3
  <2>1. 1 \in DOMAIN p.body /\ p.body[1] = c
    BY <1>12
  <2>2. Len(ItemsOctets(p.body[1])) % 4 = 3
    BY <1>1, <1>15, <1>16, <2>1
  <2>3. FillsWord(p)
    BY <1>12, <2>1, <2>2 DEF FillsWord
  <2> QED BY <1>14, <2>3 DEF Says
<1>17. CASE l % 4 # 3
  <2>1. \A i \in l + 1 .. e : q[i] = 0
    <3>1. ASSUME NEW i \in l + 1 .. e PROVE q[i] = 0
      <4>1. i \in 1 .. e /\ b + i \in b + l + 1 .. k
        BY <1>3, <1>6
      <4> QED BY <1>6, <1>8, <4>1
    <3> QED BY <3>1
  <2>2. EndsAt(q, l, e)
    BY <1>3, <1>4, <1>6, <1>8, <1>9, <1>17, <2>1, NameEnds
  <2>3. PICK z : z = 0 /\ z + l = l
    BY <1>6
  <2>4. Lies(q, z, text)
    <3>1. \A i \in 1 .. l : q[i] = text[i] /\ z + i = i
      <4>1. \A i \in 1 .. l : i \in 1 .. e /\ z + i = i
        BY <1>3, <1>6, <1>9, <2>3
      <4> QED BY <1>6, <1>8, <4>1
    <3>2. z + l <= e
      BY <1>9, <2>3
    <3>3. z \in Nat
      BY <2>3
    <3> QED BY <1>1, <1>8, <3>1, <3>2, <3>3 DEF Lies
  <2>5. /\ Left(q, z, 4) /\ Field(q, z, 4) = c.src
        /\ ParseItems(q, z + 4) = ItemsRead(e, KeptItems(c.items))
    <3>1. /\ q \in Seq(Octet) /\ c \in SrcChunk /\ text = ItemsOctets(c) /\ Lies(q, z, text)
          /\ EndsAt(q, z + Len(text), e)
      BY <1>1, <1>8, <1>15, <2>2, <2>3, <2>4
    <3> QED BY ONLY <3>1, ReadChunk
  <2>6. ChunkLies(q, c, 0, e)
    BY <2>3, <2>5 DEF ChunkLies
  <2>7. Reads(p, q)
    BY <1>1, <1>3, <1>8, <2>6, OneChunk
  <2> QED BY <1>14, <2>7 DEF Says
<1> QED BY <1>16, <1>17

-----------------------------------------------------------------------------
(* Datagrams are read as they were written                                 *)

\* Packet by packet, the datagram will be read as what was written.
SaysAll(d, es, ws) == \A k \in 1 .. Len(es) : Says(d, Begin(es, k), es[k], ws[k])

\* One more packet.
LEMMA SaysNext ==
  ASSUME NEW d, NEW es, Packed(d, es), NEW ws, Len(ws) = Len(es), SaysAll(d, es, ws),
         NEW r \in Seq(Octet), Len(d) <= Len(r), \A k \in 1 .. Len(d) : r[k] = d[k],
         NEW p, Says(r, Len(d), Len(r), p), NEW fs, fs = Append(es, Len(r)), NEW vs, Longer(vs, ws, p)
  PROVE  SaysAll(r, fs, vs)
<1>1. PICK l, m, n : l = Len(es) /\ m = Len(d) /\ n = Len(r)
  OBVIOUS
<1>2. d \in Seq(Octet) /\ es \in Seq(Nat)
  BY DEF Packed
<1>3. l \in Nat /\ m \in Nat /\ n \in Nat /\ m <= n
  BY <1>1, <1>2, LenProperties
<1>4. /\ fs \in Seq(Nat) /\ Len(fs) = l + 1
      /\ \A k \in 1 .. l : fs[k] = es[k]
      /\ fs[l + 1] = n
  BY <1>1, <1>2, <1>3, AppendProperties
<1>5. vs[l + 1] = p /\ \A k \in 1 .. l : vs[k] = ws[k]
  BY <1>1 DEF Longer
<1>6. \A k \in 1 .. l + 1 : Begin(fs, k) = Begin(es, k)
  <2> SUFFICES ASSUME NEW k \in 1 .. l + 1 PROVE Begin(fs, k) = Begin(es, k)
    OBVIOUS
  <2>1. k # 1 => k - 1 \in 1 .. l
    BY <1>3
  <2> QED BY <1>4, <2>1 DEF Begin
<1>7. Begin(es, l + 1) = m
  BY <1>1 DEF Packed
<1> SUFFICES ASSUME NEW k \in 1 .. l + 1 PROVE Says(r, Begin(fs, k), fs[k], vs[k])
  BY <1>4 DEF SaysAll
<1>8. CASE k \in 1 .. l
  <2>1. PICK b, e, w : /\ b = Begin(es, k) /\ e = es[k] /\ w = ws[k]
                       /\ Put(d, b, e) /\ Says(d, b, e, w)
    BY <1>1, <1>8 DEF Packed, SaysAll
  <2>2. Says(r, b, e, w)
    BY <1>1, <1>3, <2>1, SaysOn
  <2> QED BY <1>4, <1>5, <1>6, <1>8, <2>1, <2>2
<1>9. CASE k = l + 1
  BY <1>1, <1>4, <1>5, <1>6, <1>7, <1>9
<1>10. k \in 1 .. l \/ k = l + 1
  BY <1>3
<1> QED BY <1>8, <1>9, <1>10

LEMMA SaysOne ==
  ASSUME NEW d, NEW e, NEW p, Says(d, 0, e, p), NEW es, es = <<e>>, NEW ws, ws = <<p>>
  PROVE  SaysAll(d, es, ws)
<1>1. Len(es) = 1 /\ es[1] = e /\ ws[1] = p
  OBVIOUS
<1> SUFFICES ASSUME NEW k \in 1 .. Len(es) PROVE Says(d, Begin(es, k), es[k], ws[k])
  BY DEF SaysAll
<1>2. k = 1
  BY <1>1
<1>3. Begin(es, k) = 0
  BY <1>2 DEF Begin
<1> QED BY <1>1, <1>2, <1>3

LEMMA SaysTwo ==
  ASSUME NEW d, NEW m, NEW n, NEW p, NEW q, Says(d, 0, m, p), Says(d, m, n, q),
         NEW es, es = <<m, n>>, NEW ws, ws = <<p, q>>
  PROVE  SaysAll(d, es, ws)
<1>1. Len(es) = 2 /\ es[1] = m /\ es[2] = n /\ ws[1] = p /\ ws[2] = q
  OBVIOUS
<1> SUFFICES ASSUME NEW k \in 1 .. Len(es) PROVE Says(d, Begin(es, k), es[k], ws[k])
  BY DEF SaysAll
<1>2. CASE k = 1
  <2>1. Begin(es, k) = 0
    BY <1>2 DEF Begin
  <2> QED BY <1>1, <1>2, <2>1
<1>3. CASE k = 2
  <2>1. k # 1 /\ k - 1 = 1
    BY <1>3
  <2>2. Begin(es, k) = m
    BY <1>1, <2>1 DEF Begin
  <2> QED BY <1>1, <1>3, <2>2
<1>4. k = 1 \/ k = 2
  BY <1>1
<1> QED BY <1>2, <1>3, <1>4

\* What the datagram says, and what the reader made of it so far.
ReadInv ==
  stage \in RtcpStage =>
    /\ SaysAll(data, ends, written)
    /\ \A k \in 1 .. Len(got) : FillsWord(written[k]) \/ got[k] = Kept(written[k])

LEMMA ReadInit == Init => ReadInv
<1> SUFFICES ASSUME Init PROVE ReadInv
  OBVIOUS
<1>1. PICK z : z = <<>> /\ Len(z) = 0
  BY EmptySeq
<1>2. ends = z /\ got = z
  BY <1>1 DEF Init
<1>3. 1 .. Len(ends) = {} /\ 1 .. Len(got) = {}
  BY <1>1, <1>2
<1> QED BY <1>3 DEF ReadInv, SaysAll

LEMMA PeerRead == ASSUME WireInv, ReadInv, PeerWrites PROVE ReadInv'
<1>1. stage = "write" /\ stage' = "write" /\ got' = got
  BY DEF PeerWrites
<1>2. PICK p \in Packets, pad \in Pads : /\ data' = data \o PacketOctets(p, pad)
                                         /\ written' = Append(written, p)
  BY DEF PeerWrites
<1>3. PICK d, r, es, fs, ws, vs : /\ d = data /\ r = data' /\ es = ends /\ fs = ends'
                                  /\ ws = written /\ vs = written'
  OBVIOUS
<1>4. fs = Append(es, Len(r))
  BY <1>3 DEF PeerWrites
<1>5. PICK c : /\ c = PacketOctets(p, pad) /\ c \in Seq(Octet) /\ Put(c, 0, Len(c))
               /\ Says(c, 0, Len(c), p)
  BY PeerPacket, PeerSays
<1>6. /\ Packed(d, es) /\ Listed(ws) /\ Len(ws) = Len(es) /\ got = <<>> /\ SaysAll(d, es, ws)
  BY <1>1, <1>3 DEF WireInv, ReadInv, RtcpStage
<1>7. d \in Seq(Octet) /\ r = d \o c
  BY <1>2, <1>3, <1>5, <1>6 DEF Packed
<1>8. /\ r \in Seq(Octet) /\ Len(r) = Len(d) + Len(c)
      /\ \A k \in 1 .. Len(d) : r[k] = d[k]
  BY <1>5, <1>7, PutBehind
<1>9. PICK m : m = Len(c) /\ m \in Nat /\ m >= 4
  <2>1. PICK m : m = Len(c) /\ m \in Nat
    BY <1>5, LenProperties
  <2>2. 0 + 4 <= m
    BY <1>5, <2>1 DEF Put
  <2> QED BY <2>1, <2>2
<1>10. Says(r, Len(d), Len(r), p)
  <2>1. /\ d \in Seq(Octet) /\ c \in Seq(Octet) /\ m = Len(c) /\ m >= 4 /\ Says(c, 0, m, p)
        /\ r = d \o c
    BY <1>5, <1>7, <1>9
  <2> QED BY ONLY <2>1, SaysBehind
<1>11. Longer(vs, ws, p)
  BY <1>2, <1>3, <1>6, ListedAppend
<1>12. Len(d) <= Len(r)
  <2>1. Len(d) \in Nat
    BY <1>7, LenProperties
  <2> QED BY <1>8, <1>9, <2>1
<1>13. SaysAll(r, fs, vs)
  <2>1. /\ Packed(d, es) /\ Len(ws) = Len(es) /\ SaysAll(d, es, ws) /\ r \in Seq(Octet)
        /\ Len(d) <= Len(r) /\ \A k \in 1 .. Len(d) : r[k] = d[k]
    BY <1>6, <1>8, <1>12
  <2> QED BY ONLY <1>4, <1>10, <1>11, <2>1, SaysNext
<1>14. 1 .. Len(got') = {}
  <2>1. Len(got') = 0
    BY <1>1, <1>6, EmptySeq
  <2> QED BY <2>1
<1> QED BY <1>3, <1>13, <1>14 DEF ReadInv

LEMMA SendRead ==
  ASSUME WireInv, NEW e, NEW size \in Nat, size % 4 = 0, NEW p, NEW cname, NameFits(cname),
         Send(e, size, p, cname), Reported(e, p.pt, size, cname), NEW rc, NEW q,
         Bears(e, p.pt, size, rc, q, cname), Says(e.data, 0, size, p)
  PROVE  ReadInv'
<1>1. PICK r, c, fs, vs, n : /\ r = data' /\ r = e.data /\ fs = ends' /\ vs = written' /\ n = Len(r)
                             /\ c = Packet(SDES, <<ServerChunk(cname)>>)
  BY DEF Send
<1>2. stage = "write" /\ written = <<>> /\ got' = got
  BY DEF Send
<1>3. SaysAll(r, fs, vs)
  <2>1. CASE cname = <<>>
    <3>1. vs = <<p>> /\ fs = <<size>>
      BY <1>1, <2>1 DEF Send
    <3>2. Says(r, 0, size, p)
      BY <1>1
    <3> QED BY <3>1, <3>2, SaysOne
  <2>2. CASE cname # <<>>
    <3>1. vs = <<p, c>> /\ fs = <<size, n>> /\ Put(r, size, n) /\ Named(r, size, n, cname)
      BY <1>1, <2>2 DEF Send, Reported, Bears, ServerChunk
    <3>2. r \in Seq(Octet)
      BY <1>1 DEF Reported
    <3>3. Says(r, size, n, c)
      BY <1>1, <3>1, <3>2, NameSays
    <3>4. Says(r, 0, size, p)
      BY <1>1
    <3> QED BY <3>1, <3>3, <3>4, SaysTwo
  <2> QED BY <2>1, <2>2
<1>4. 1 .. Len(got') = {}
  <2>1. got' = <<>>
    BY <1>2 DEF WireInv
  <2>2. Len(got') = 0
    BY <2>1, EmptySeq
  <2> QED BY <2>2
<1> QED BY <1>1, <1>3, <1>4 DEF ReadInv

\* The server's reports, with counts that fit into three octets: those beyond are not read
\* as they were written.
LEMMA ServerRead ==
  ASSUME LostCounts \subseteq LostCount, WireInv, SendSR \/ SendRR
  PROVE  ReadInv'
<1>1. \A cname \in CNames : NameFits(cname)
  BY WireAssumption DEF NameFits
<1>2. CASE SendSR
  <2>1. PICK cname \in CNames :
          Send(GenSR(cname), MIN_SR_SIZE, Packet(SR, [ssrc |-> Ssrc, reports |-> <<>>]), cname)
    BY <1>2 DEF SendSR
  <2>2. PICK p, e, size : /\ p = Packet(SR, [ssrc |-> Ssrc, reports |-> <<>>]) /\ e = GenSR(cname)
                          /\ size = MIN_SR_SIZE
    OBVIOUS
  <2>3. p.pt = SR /\ size \in Nat /\ size % 4 = 0
    BY <2>2 DEF Packet, MIN_SR_SIZE
  <2>4. /\ Reported(e, p.pt, size, cname)
        /\ Bears(e, p.pt, size, 0, Ssrc \o Zeros(20), cname)
    BY <1>1, <2>2, <2>3, SenderReport
  <2>5. Says(e.data, 0, size, p)
    <3>1. Holds(e.data, 0, size, 0, SR, Ssrc \o Zeros(20))
      BY <2>3, <2>4 DEF Bears
    <3> QED BY <2>2, <3>1, SenderSays
  <2>6. Send(e, size, p, cname)
    BY <2>1, <2>2
  <2> QED BY <1>1, <2>3, <2>4, <2>5, <2>6, SendRead
<1>3. CASE SendRR
  <2>1. PICK cname \in CNames, lost \in LostCounts :
          Send(GenRR(Report(Ssrc, lost), cname), MIN_RR_SIZE,
               Packet(RR, [ssrc |-> Ssrc, reports |-> <<Report(Ssrc, lost)>>]), cname)
    BY <1>3 DEF SendRR
  <2>2. PICK p, e, size : /\ p = Packet(RR, [ssrc |-> Ssrc, reports |-> <<Report(Ssrc, lost)>>])
                          /\ e = GenRR(Report(Ssrc, lost), cname) /\ size = MIN_RR_SIZE
    OBVIOUS
  <2>3. p.pt = RR /\ size \in Nat /\ size % 4 = 0 /\ lost \in Int
    BY <2>2, WireAssumption DEF Packet, MIN_RR_SIZE
  <2>4. /\ Reported(e, p.pt, size, cname)
        /\ Bears(e, p.pt, size, 1, Ssrc \o ReportBlk(Report(Ssrc, lost)), cname)
    BY <1>1, <2>2, <2>3, ReceiverReport
  <2>5. Says(e.data, 0, size, p)
    <3>1. Holds(e.data, 0, size, 1, RR, Ssrc \o ReportBlk(Report(Ssrc, lost)))
      BY <2>3, <2>4 DEF Bears
    <3> QED BY <2>2, <3>1, ReceiverSays
  <2>6. Send(e, size, p, cname)
    BY <2>1, <2>2
  <2> QED BY <1>1, <2>3, <2>4, <2>5, <2>6, SendRead
<1> QED BY <1>2, <1>3

LEMMA ProcRead == ASSUME WireInv, ReadInv, ProcRtcp PROVE ReadInv'
<1>1. /\ stage = "read" /\ stage \in RtcpStage /\ written' = written /\ ends' = ends /\ data' = data
  BY DEF ProcRtcp, RtcpStage
<1>2. /\ SaysAll(data, ends, written)
      /\ \A k \in 1 .. Len(got) : FillsWord(written[k]) \/ got[k] = Kept(written[k])
  BY <1>1 DEF ReadInv
<1>3. PICK a, pkg, g : a = arrived /\ pkg = ParseRtcpPkg(a, upto) /\ g = Len(got)
  OBVIOUS
<1>4. CASE got' = got
  BY <1>1, <1>2, <1>4 DEF ReadInv
<1>5. CASE got' # got
  <2>1. upto # Len(a) /\ pkg # Bad /\ got' = Append(got, ParseBody(pkg))
    BY <1>3, <1>5 DEF ProcRtcp, Stop
  <2>2. PICK n \in Nat : Cut(data, n, a) /\ n <= Len(data) /\ upto <= n
    BY <1>1, <1>3 DEF WireInv
  <2>3. Len(a) = n
    BY <2>2 DEF Cut
  <2>4. /\ g \in Nat /\ Len(ends) \in Nat /\ data \in Seq(Octet) /\ Len(data) \in Nat /\ g <= Len(ends)
        /\ g < Len(ends) => Put(data, upto, ends[g + 1]) /\ g + 1 \in 1 .. Len(ends)
        /\ g = Len(ends) => upto = Len(data)
        /\ upto \in Nat /\ (upto = 0 <=> g = 0)
    BY <1>1, <1>3, Standing
  <2>5. g < Len(ends)
    <3>1. g # Len(ends)
      BY <2>1, <2>2, <2>3, <2>4
    <3> QED BY <2>4, <3>1
  <2>6. PICK e, p : /\ e = ends[g + 1] /\ p = written[g + 1] /\ Put(data, upto, e)
                    /\ g + 1 \in 1 .. Len(ends)
    BY <2>4, <2>5
  <2>7. Says(data, upto, e, p)
    <3>1. upto = Begin(ends, g + 1)
      BY <1>1, <1>3 DEF WireInv
    <3> QED BY <1>2, <2>6, <3>1 DEF SaysAll
  <2>8. e <= n
    <3>1. e > n => pkg = Bad
      BY <1>3, <2>2, <2>4, <2>6, ReadPacket
    <3>2. e \in Nat
      BY <2>6 DEF Put
    <3> QED BY <2>1, <3>1, <3>2
  <2>9. FillsWord(p) \/ ParseBody(pkg) = Kept(p)
    BY <1>3, <2>2, <2>4, <2>6, <2>7, <2>8, SaysRead
  <2>10. Listed(got)
    BY <1>1 DEF WireInv
  <2>11. /\ Len(got') = g + 1 /\ got'[g + 1] = ParseBody(pkg)
         /\ \A k \in 1 .. g : got'[k] = got[k]
    BY <1>3, <2>1, <2>10, ListedAppend DEF Longer
  <2>12. ASSUME NEW k \in 1 .. g + 1 PROVE FillsWord(written[k]) \/ got'[k] = Kept(written[k])
    <3>1. k \in 1 .. g \/ k = g + 1
      BY <2>4
    <3>2. CASE k \in 1 .. g
      BY <1>2, <1>3, <2>11, <3>2
    <3>3. CASE k = g + 1
      BY <2>6, <2>9, <2>11, <3>3
    <3> QED BY <3>1, <3>2, <3>3
  <2>13. \A k \in 1 .. Len(got') : FillsWord(written'[k]) \/ got'[k] = Kept(written'[k])
    BY <1>1, <2>11, <2>12
  <2> QED BY <1>1, <1>2, <2>13 DEF ReadInv
<1> QED BY <1>4, <1>5

LEMMA ReadNext ==
  ASSUME LostCounts \subseteq LostCount, WireInv, ReadInv, [Next]_vars
  PROVE  ReadInv'
<1>1. CASE UNCHANGED vars
  BY <1>1 DEF vars, ReadInv
<1>2. CASE Rtp
  <2>1. stage' \in RtpStage
    BY <1>2 DEF Rtp, Publish, ParseRtp, ProcRtp, RtpStage
  <2> QED BY <2>1 DEF ReadInv, RtpStage, RtcpStage
<1>3. CASE ParseRtcp
  <2>1. /\ written' = written /\ ends' = ends /\ data' = data /\ got' = got
        /\ stage \in RtcpStage
    BY <1>3 DEF ParseRtcp, RtcpStage
  <2> QED BY <2>1 DEF ReadInv
<1>4. CASE PeerWrites \/ SendSR \/ SendRR \/ ProcRtcp
  BY <1>4, PeerRead, ServerRead, ProcRead
<1> QED BY <1>1, <1>2, <1>3, <1>4 DEF Next, Rtcp

\* What the server makes of a datagram is what was written into it, packet by packet,
\* whatever its packets contain: any number of reports, sources, chunks and items, any
\* padding, and cut anywhere.  Only of a packet with a chunk that fills a word nothing is
\* said but that the packets behind it are taken.  The counts of losses the server reports
\* have to fit into the three octets of their field: the code keeps them from being
\* negative, and does not clamp them.
THEOREM AsItWasWritten ==
  ASSUME LostCounts \subseteq LostCount
  PROVE  Spec => []ReadInOrder
<1>1. WireInv /\ ReadInv => ReadInOrder
  <2> SUFFICES ASSUME WireInv, ReadInv, stage \in RtcpStage
               PROVE  /\ InPlace
                      /\ \A k \in DOMAIN got : FillsWord(written[k]) \/ got[k] = Kept(written[k])
    BY DEF ReadInOrder
  <2>1. DOMAIN got = 1 .. Len(got)
    <3>1. PICK S : got \in Seq(S)
      BY DEF WireInv, Listed
    <3> QED BY <3>1, LenProperties
  <2> QED BY <2>1, StandsInPlace DEF ReadInv
<1>2. (WireInv /\ ReadInv) /\ [Next]_vars => (WireInv /\ ReadInv)'
  BY WireNext, ReadNext
<1>3. Init => WireInv /\ ReadInv
  BY WireInit, ReadInit
<1>4. Spec => Init /\ [][Next]_vars
  BY PTL DEF Spec
<1> QED BY <1>1, <1>2, <1>3, <1>4, PTL

-----------------------------------------------------------------------------
(* The octets of an RTP packet                                             *)

\* The first octet of a packet: its version, flags and count.
FirstBitsOf(f, a, b, c) ==
  /\ f \in Octet /\ IsVerValid(f) /\ ParseBit(f, 5, 1) = a /\ ParseBit(f, 4, 1) = b
  /\ ParseBit(f, 0, 4) = c

LEMMA FirstBits ==
  ASSUME NEW a \in {0, 1}, NEW b \in {0, 1}, NEW c \in 0 .. 2 ^ 4 - 1, NEW f,
         f = GenBit(GenBit(GenBit(DEF_RTP_VERSION, 1, a), 1, b), 4, c)
  PROVE  FirstBitsOf(f, a, b, c)
<1>1. GenBit(DEF_RTP_VERSION, 1, a) = 4 + a
  BY DEF GenBit, DEF_RTP_VERSION
<1>2. GenBit(4 + a, 1, b) = 8 + 2 * a + b
  BY DEF GenBit
<1>3. GenBit(8 + 2 * a + b, 4, c) = 128 + 32 * a + 16 * b + c
  BY DEF GenBit
<1>4. f = 128 + 32 * a + 16 * b + c /\ f \in Octet
  BY <1>1, <1>2, <1>3 DEF Octet
<1>5. IsVerValid(f)
  BY <1>4 DEF IsVerValid, ParseBit, DEF_RTP_VERSION
<1>6. ParseBit(f, 5, 1) = a
  BY <1>4 DEF ParseBit
<1>7. ParseBit(f, 4, 1) = b
  BY <1>4 DEF ParseBit
<1>8. ParseBit(f, 0, 4) = c
  BY <1>4 DEF ParseBit
<1> QED BY <1>4, <1>5, <1>6, <1>7, <1>8 DEF FirstBitsOf

\* The second octet: a type of RTCP has the bit of the marker.
LEMMA SecondBits ==
  ASSUME NEW m \in {0, 1}, NEW t \in 0 .. 2 ^ 7 - 1, NEW f, f = GenBit(m, 7, t)
  PROVE  /\ f = 128 * m + t /\ f \in Octet
         /\ ParseBit(f, 7, 1) = m /\ ParseBit(f, 0, 7) = t
         /\ IsRtcpPt(f) => IsRtcpPt(t + 128)
<1>1. f = 128 * m + t /\ f \in Octet
  BY DEF GenBit, Octet
<1>2. ParseBit(f, 7, 1) = m
  BY <1>1 DEF ParseBit
<1>3. ParseBit(f, 0, 7) = t
  BY <1>1 DEF ParseBit
<1>4. IsRtcpPt(f) => IsRtcpPt(t + 128)
  BY <1>1 DEF IsRtcpPt
<1> QED BY <1>1, <1>2, <1>3, <1>4

Extension(p) == IF p.ext >= 0 THEN <<0, 1>> \o OctetsOf(p.ext, 2) \o Zeros(4 * p.ext) ELSE <<>>
ExtLen(p) == IF p.ext >= 0 THEN 4 + 4 * p.ext ELSE 0

\* The words of the extension are counted in its third and fourth octet.
LEMMA ExtensionShape ==
  ASSUME NEW p \in MediaPacket
  PROVE  /\ Extension(p) \in Seq(Octet) /\ ExtLen(p) \in Nat /\ Len(Extension(p)) = ExtLen(p)
         /\ p.ext >= 0 => 256 * Extension(p)[3] + Extension(p)[4] = p.ext
<1>1. p.ext \in Int /\ -1 <= p.ext /\ p.ext <= 65535
  <2>1. p.ext \in {-1} \cup Word
    BY DEF MediaPacket
  <2>2. PICK e : e = p.ext /\ e \in {-1} \cup Word
    BY <2>1
  <2>3. e \in Int /\ -1 <= e /\ e <= 65535
    <3>1. CASE e = -1
      BY <3>1
    <3>2. CASE e \in Word
      BY <3>2 DEF Word
    <3> QED BY <2>2, <3>1, <3>2
  <2> QED BY <2>2, <2>3
<1>2. PICK x : x = Extension(p)
  OBVIOUS
<1>3. CASE ~(p.ext >= 0)
  <2>1. x = <<>> /\ ExtLen(p) = 0
    BY <1>2, <1>3 DEF Extension, ExtLen
  <2>2. <<>> \in Seq(Octet) /\ Len(<<>>) = 0
    BY EmptySeq
  <2> QED BY <1>2, <1>3, <2>1, <2>2
<1>4. CASE p.ext >= 0
  <2>1. PICK a, b, c : a = <<0, 1>> /\ b = OctetsOf(p.ext, 2) /\ c = Zeros(4 * p.ext)
    OBVIOUS
  <2>2. x = (a \o b) \o c
    BY <1>2, <1>4, <2>1 DEF Extension
  <2>3. a \in Seq(Octet) /\ Len(a) = 2
    <3>1. 0 \in Octet /\ 1 \in Octet
      BY DEF Octet
    <3> QED BY <2>1, <3>1, TwoSeq
  <2>4. p.ext \in Word
    <3>1. PICK e : e = p.ext
      OBVIOUS
    <3>2. e \in Int /\ 0 <= e /\ e <= 65535
      BY <1>1, <1>4, <3>1
    <3>3. e \in Word
      BY <3>2 DEF Word
    <3> QED BY <3>1, <3>3
  <2>5. b \in Seq(Octet) /\ Len(b) = 2 /\ Num(b) = p.ext
    <3>1. p.ext \in Nat
      BY <2>4 DEF Word
    <3>2. b \in Seq(Octet) /\ Len(b) = 2
      BY <2>1, <3>1, TwoOctetsIn
    <3>3. Num(b) = p.ext
      BY <2>1, <2>4, TwoOctets
    <3> QED BY <3>2, <3>3
  <2>6. PICK n \in Nat : n = 4 * p.ext
    BY <2>4 DEF Word
  <2>7. c \in Seq(Octet) /\ Len(c) = n
    BY <2>1, <2>6, ZerosLen
  <2>8. PICK ab : ab = a \o b /\ ab \in Seq(Octet) /\ Len(ab) = 4 /\ ab[3] = b[1] /\ ab[4] = b[2]
    <3>1. a \o b \in Seq(Octet) /\ Len(a \o b) = Len(a) + Len(b)
      BY <2>3, <2>5, ConcatOctets
    <3>2. \A k \in 1 .. Len(b) : (a \o b)[Len(a) + k] = b[k]
      BY <2>3, <2>5, ConcatOctets
    <3>3. PICK ab : ab = a \o b
      OBVIOUS
    <3>4. \A k \in 1 .. 2 : ab[2 + k] = b[k]
      BY <2>3, <2>5, <3>2, <3>3
    <3>5. ab[3] = b[1]
      <4>1. 2 + 1 = 3
        OBVIOUS
      <4> QED BY <3>4, <4>1
    <3>6. ab[4] = b[2]
      <4>1. 2 + 2 = 4
        OBVIOUS
      <4> QED BY <3>4, <4>1
    <3>7. Len(ab) = 4
      BY <2>3, <2>5, <3>1, <3>3
    <3> QED BY <3>1, <3>3, <3>5, <3>6, <3>7
  <2>9. x = ab \o c
    BY <2>2, <2>8
  <2>10. x \in Seq(Octet) /\ Len(x) = Len(ab) + Len(c)
    BY <2>7, <2>8, <2>9, ConcatOctets
  <2>11. \A k \in 1 .. Len(ab) : x[k] = ab[k]
    BY <2>7, <2>8, <2>9, ConcatOctets
  <2>12. x[3] = b[1] /\ x[4] = b[2]
    BY <2>8, <2>11
  <2>13. ExtLen(p) = 4 + n /\ ExtLen(p) \in Nat
    BY <1>4, <2>6 DEF ExtLen
  <2>14. Len(x) = ExtLen(p)
    BY <2>7, <2>8, <2>10, <2>13
  <2>15. 256 * x[3] + x[4] = p.ext
    BY <2>5, <2>12 DEF Num
  <2> QED BY <1>2, <2>10, <2>13, <2>14, <2>15
<1> QED BY <1>3, <1>4

\* The fields of a packet.
LEMMA PacketFields ==
  ASSUME NEW p \in MediaPacket
  PROVE  /\ p.marker \in {0, 1} /\ p.pt \in 0 .. 2 ^ 7 - 1 /\ p.cc \in 0 .. 2 ^ 4 - 1 /\ p.cc \in Nat
         /\ p.ext \in Int /\ p.payload \in Seq(Octet) /\ p.pad \in Nat /\ p.pad \in Octet
<1>1. p.marker \in {0, 1} /\ p.pt \in 0 .. 2 ^ 7 - 1 /\ p.cc \in 0 .. 2 ^ 4 - 1
  BY DEF MediaPacket
<1>2. p.payload \in Seq(Octet) /\ p.pad \in Octet
  BY DEF MediaPacket
<1>3. p.ext \in {-1} \cup Word
  BY DEF MediaPacket
<1>4. p.cc \in Nat
  BY <1>1
<1>5. p.pad \in Nat
  <2>1. \A d \in Octet : d \in Nat
    BY DEF Octet
  <2> QED BY <1>2, <2>1
<1>6. p.ext \in Int
  <2>1. \A e \in Word : e \in Int
    BY DEF Word
  <2>2. -1 \in Int
    OBVIOUS
  <2> QED BY <1>3, <2>1, <2>2
<1> QED BY <1>1, <1>2, <1>4, <1>5, <1>6

Flag(b) == IF b THEN 1 ELSE 0
First(p) == GenBit(GenBit(GenBit(DEF_RTP_VERSION, 1, Flag(p.pad > 0)), 1, Flag(p.ext >= 0)), 4, p.cc)
Second(p) == GenBit(p.marker, 7, p.pt)
PadOctets(p) == IF p.pad > 0 THEN Zeros(p.pad - 1) \o <<p.pad>> ELSE <<>>

\* The last octet counts the padding.
LEMMA PadsShape ==
  ASSUME NEW p \in MediaPacket
  PROVE  PadOctets(p) \in Seq(Octet) /\ Len(PadOctets(p)) = p.pad /\ (p.pad > 0 => PadOctets(p)[p.pad] = p.pad)
<1>1. PICK x, n : x = PadOctets(p) /\ n = p.pad
  OBVIOUS
<1>2. n \in Nat /\ n \in Octet
  BY <1>1, PacketFields
<1>3. CASE ~(n > 0)
  <2>1. x = <<>> /\ n = 0
    BY <1>1, <1>2, <1>3 DEF PadOctets
  <2>2. <<>> \in Seq(Octet) /\ Len(<<>>) = 0
    BY EmptySeq
  <2> QED BY <1>1, <1>3, <2>1, <2>2
<1>4. CASE n > 0
  <2>1. PICK m \in Nat : m = n - 1
    BY <1>2, <1>4
  <2>2. PICK z, w : z = Zeros(m) /\ w = <<n>>
    OBVIOUS
  <2>3. z \in Seq(Octet) /\ Len(z) = m
    BY <2>2, ZerosLen
  <2>4. w \in Seq(Octet) /\ Len(w) = 1 /\ w[1] = n
    BY <1>2, <2>2, OneSeq
  <2>5. x = z \o w
    BY <1>1, <1>4, <2>1, <2>2 DEF PadOctets
  <2>6. x \in Seq(Octet) /\ Len(x) = Len(z) + Len(w) /\ \A k \in 1 .. Len(w) : x[Len(z) + k] = w[k]
    BY <2>3, <2>4, <2>5, ConcatOctets
  <2>7. Len(x) = m + 1 /\ x[m + 1] = n
    BY <2>3, <2>4, <2>6
  <2>8. m \in Nat /\ m + 1 = n
    BY <1>2, <2>1
  <2> QED BY <1>1, <2>6, <2>7, <2>8
<1> QED BY <1>3, <1>4

HeaderLen(p) == 12 + 4 * p.cc + ExtLen(p)

\* What is where in the datagram of a packet.
Shape(p, o) ==
  /\ o \in Seq(Octet) /\ Len(o) = HeaderLen(p) + Len(p.payload) + p.pad
  /\ o[1] = First(p) /\ o[2] = Second(p)
  /\ p.ext >= 0 => 256 * o[12 + 4 * p.cc + 3] + o[12 + 4 * p.cc + 4] = p.ext
  /\ \A k \in 1 .. Len(p.payload) : o[HeaderLen(p) + k] = p.payload[k]
  /\ p.pad > 0 => o[Len(o)] = p.pad

\* RtpOctets puts every field where it belongs.
LEMMA PacketShape == ASSUME NEW p \in MediaPacket PROVE Shape(p, RtpOctets(p))
<1>1. PICK a, z, x, m, t :
        /\ a = <<First(p), Second(p)>> /\ z = Zeros(10 + 4 * p.cc) /\ x = Extension(p)
        /\ m = p.payload /\ t = PadOctets(p)
  OBVIOUS
<1>2. PICK az, azx, b, o : az = a \o z /\ azx = az \o x /\ b = azx \o m /\ o = b \o t
  OBVIOUS
<1>3. RtpOctets(p) = o
  BY <1>1, <1>2 DEF RtpOctets, First, Second, Flag, Extension, PadOctets
<1>4. PICK c, e, l, d : c = 4 * p.cc /\ e = ExtLen(p) /\ l = Len(p.payload) /\ d = p.pad
  OBVIOUS
<1>5. c \in Nat /\ e \in Nat /\ l \in Nat /\ d \in Nat /\ (p.ext >= 0 => e >= 4)
  <2>1. c \in Nat
    <3>1. p.cc \in Nat
      BY PacketFields
    <3> QED BY <1>4, <3>1
  <2>2. e \in Nat
    BY <1>4, ExtensionShape
  <2>3. l \in Nat
    BY <1>4, PacketFields, LenProperties
  <2>4. d \in Nat
    BY <1>4, PacketFields
  <2>5. p.ext >= 0 => e >= 4
    <3>1. p.ext \in Int
      BY PacketFields
    <3> QED BY <1>4, <3>1 DEF ExtLen
  <2> QED BY <2>1, <2>2, <2>3, <2>4, <2>5
<1>6. First(p) \in Octet /\ Second(p) \in Octet
  <2>1. /\ Flag(p.pad > 0) \in {0, 1} /\ Flag(p.ext >= 0) \in {0, 1}
    BY DEF Flag
  <2>2. p.cc \in 0 .. 2 ^ 4 - 1 /\ p.marker \in {0, 1} /\ p.pt \in 0 .. 2 ^ 7 - 1
    BY PacketFields
  <2>3. First(p) \in Octet
    BY <2>1, <2>2, FirstBits DEF First, FirstBitsOf
  <2>4. Second(p) \in Octet
    BY <2>2, SecondBits DEF Second
  <2> QED BY <2>3, <2>4
<1>7. a \in Seq(Octet) /\ Len(a) = 2 /\ a[1] = First(p) /\ a[2] = Second(p)
  <2>1. a \in Seq(Octet) /\ Len(a) = 2
    BY <1>1, <1>6, TwoSeq
  <2>2. a[1] = First(p) /\ a[2] = Second(p)
    BY <1>1
  <2> QED BY <2>1, <2>2
<1>8. z \in Seq(Octet) /\ Len(z) = 10 + c
  <2>1. PICK n \in Nat : n = 10 + c
    BY <1>5
  <2>2. z = Zeros(n)
    BY <1>1, <1>4, <2>1
  <2> QED BY <2>1, <2>2, ZerosLen
<1>9. x \in Seq(Octet) /\ Len(x) = e /\ (p.ext >= 0 => 256 * x[3] + x[4] = p.ext)
  BY <1>1, <1>4, ExtensionShape
<1>10. m \in Seq(Octet) /\ Len(m) = l
  BY <1>1, <1>4, PacketFields
<1>11. t \in Seq(Octet) /\ Len(t) = d /\ (d > 0 => t[d] = d)
  BY <1>1, <1>4, PadsShape
<1>12. az \in Seq(Octet) /\ Len(az) = 12 + c /\ az[1] = a[1] /\ az[2] = a[2]
  <2>1. az \in Seq(Octet) /\ Len(az) = Len(a) + Len(z) /\ \A k \in 1 .. Len(a) : az[k] = a[k]
    BY <1>2, <1>7, <1>8, ConcatOctets
  <2>2. Len(az) = 12 + c
    BY <1>5, <1>7, <1>8, <2>1
  <2>3. 1 \in 1 .. Len(a) /\ 2 \in 1 .. Len(a)
    BY <1>7
  <2> QED BY <2>1, <2>2, <2>3
<1>13. /\ azx \in Seq(Octet) /\ Len(azx) = 12 + c + e /\ azx[1] = az[1] /\ azx[2] = az[2]
       /\ p.ext >= 0 => azx[12 + c + 3] = x[3] /\ azx[12 + c + 4] = x[4]
  <2>1. /\ azx \in Seq(Octet) /\ Len(azx) = Len(az) + Len(x)
        /\ \A k \in 1 .. Len(az) : azx[k] = az[k]
        /\ \A k \in 1 .. Len(x) : azx[Len(az) + k] = x[k]
    BY <1>2, <1>9, <1>12, ConcatOctets
  <2>2. Len(azx) = 12 + c + e
    BY <1>5, <1>9, <1>12, <2>1
  <2>3. 1 \in 1 .. Len(az) /\ 2 \in 1 .. Len(az)
    BY <1>5, <1>12
  <2>4. p.ext >= 0 => 3 \in 1 .. Len(x) /\ 4 \in 1 .. Len(x)
    BY <1>5, <1>9
  <2> QED BY <1>12, <2>1, <2>2, <2>3, <2>4
<1>14. /\ b \in Seq(Octet) /\ Len(b) = 12 + c + e + l
       /\ \A k \in 1 .. 12 + c + e : b[k] = azx[k]
       /\ \A k \in 1 .. l : b[12 + c + e + k] = m[k]
  <2>1. /\ b \in Seq(Octet) /\ Len(b) = Len(azx) + Len(m)
        /\ \A k \in 1 .. Len(azx) : b[k] = azx[k]
        /\ \A k \in 1 .. Len(m) : b[Len(azx) + k] = m[k]
    <3>1. azx \in Seq(Octet) /\ m \in Seq(Octet) /\ b = azx \o m
      BY <1>2, <1>10, <1>13
    <3> QED BY <3>1, ConcatOctets
  <2>2. Len(b) = 12 + c + e + l
    BY <1>5, <1>10, <1>13, <2>1
  <2> QED BY <1>10, <1>13, <2>1, <2>2
<1>15. /\ o \in Seq(Octet) /\ Len(o) = 12 + c + e + l + d
       /\ \A k \in 1 .. 12 + c + e + l : o[k] = b[k]
       /\ \A k \in 1 .. d : o[12 + c + e + l + k] = t[k]
  <2>1. /\ o \in Seq(Octet) /\ Len(o) = Len(b) + Len(t)
        /\ \A k \in 1 .. Len(b) : o[k] = b[k]
        /\ \A k \in 1 .. Len(t) : o[Len(b) + k] = t[k]
    <3>1. b \in Seq(Octet) /\ t \in Seq(Octet) /\ o = b \o t
      BY <1>2, <1>11, <1>14
    <3> QED BY <3>1, ConcatOctets
  <2>2. Len(o) = 12 + c + e + l + d
    BY <1>5, <1>11, <1>14, <2>1
  <2> QED BY <1>11, <1>14, <2>1, <2>2
<1>16. o[1] = First(p) /\ o[2] = Second(p)
  <2>1. \A k \in {1, 2} : k \in 1 .. 12 + c + e /\ k \in 1 .. 12 + c + e + l
    BY <1>5
  <2> QED BY <1>7, <1>12, <1>13, <1>14, <1>15, <2>1
<1>17. p.ext >= 0 => 256 * o[12 + c + 3] + o[12 + c + 4] = p.ext
  <2> SUFFICES ASSUME p.ext >= 0 PROVE 256 * o[12 + c + 3] + o[12 + c + 4] = p.ext
    OBVIOUS
  <2>1. \A k \in {12 + c + 3, 12 + c + 4} : k \in 1 .. 12 + c + e /\ k \in 1 .. 12 + c + e + l
    BY <1>5
  <2>2. o[12 + c + 3] = x[3] /\ o[12 + c + 4] = x[4]
    BY <1>13, <1>14, <1>15, <2>1
  <2> QED BY <1>9, <2>2
<1>18. \A k \in 1 .. l : o[(12 + c + e) + k] = m[k]
  <2> SUFFICES ASSUME NEW k \in 1 .. l PROVE o[(12 + c + e) + k] = m[k]
    OBVIOUS
  <2>1. (12 + c + e) + k \in 1 .. 12 + c + e + l
    BY <1>5
  <2> QED BY <1>14, <1>15, <2>1
<1>19. d > 0 => o[Len(o)] = d
  <2> SUFFICES ASSUME d > 0 PROVE o[Len(o)] = d
    OBVIOUS
  <2>1. d \in 1 .. d
    BY <1>5
  <2> QED BY <1>11, <1>15, <2>1
<1>20. HeaderLen(p) = 12 + c + e
  BY <1>4 DEF HeaderLen
<1>21. Len(o) = HeaderLen(p) + Len(p.payload) + p.pad
  BY <1>4, <1>15, <1>20
<1>22. p.ext >= 0 => 256 * o[12 + 4 * p.cc + 3] + o[12 + 4 * p.cc + 4] = p.ext
  BY <1>4, <1>17
<1>23. \A k \in 1 .. Len(p.payload) : o[HeaderLen(p) + k] = p.payload[k]
  BY <1>1, <1>4, <1>18, <1>20
<1> QED BY <1>3, <1>4, <1>15, <1>16, <1>19, <1>21, <1>22, <1>23 DEF Shape

\* What procRtp takes out of what arrived.
Taken(p, o, n, r) ==
  /\ r # Bad =>
       /\ r \in RtpPkg /\ r.m_marker = p.marker /\ r.m_pt = p.pt
       /\ r.m_payload_beg = HeaderLen(p) /\ HeaderLen(p) + r.m_payload_size <= n
       /\ ~IsRtcpPt(p.pt + 128)
       /\ n = Len(o) => r.m_payload_size = Len(p.payload)
  /\ r = Bad /\ n = Len(o) => IsRtcpPt(p.pt + 128)

\* parseRtpPkg finds the payload wherever the datagram was cut, or nothing.
LEMMA ParseCut ==
  ASSUME NEW p \in MediaPacket, NEW o, Shape(p, o), NEW n \in 0 .. Len(o), NEW a, Cut(o, n, a),
         IsRtpHeader(a)
  PROVE  Taken(p, o, n, ParseRtpPkg(a))
<1>1. PICK h, b, w, t, r :
        /\ h = 12 + 4 * ParseBit(a[1], 0, 4)
        /\ b = IF ParseBit(a[1], 4, 1) = 1 THEN PayloadBeg(a, h) ELSE h
        /\ w = IF ParseBit(a[1], 5, 1) = 1 THEN a[Len(a)] ELSE 0
        /\ t = ParseBit(a[2], 0, 7)
        /\ r = ParseRtpPkg(a)
  OBVIOUS
<1>2. PICK e, l, d, c, z : /\ e = ExtLen(p) /\ l = Len(p.payload) /\ d = p.pad /\ c = p.cc
                          /\ z = Len(o)
  OBVIOUS
<1>3. /\ c \in Nat /\ e \in Nat /\ l \in Nat /\ d \in Nat /\ z \in Nat /\ n \in Nat /\ n <= z
      /\ z = 12 + 4 * c + e + l + d /\ HeaderLen(p) = 12 + 4 * c + e
  <2>1. c \in Nat /\ d \in Nat
    BY <1>2, PacketFields
  <2>2. e \in Nat
    BY <1>2, ExtensionShape
  <2>3. l \in Nat
    BY <1>2, PacketFields, LenProperties
  <2>4. HeaderLen(p) = 12 + 4 * c + e
    BY <1>2 DEF HeaderLen
  <2>5. z = HeaderLen(p) + l + d
    BY <1>2 DEF Shape
  <2>6. z = 12 + 4 * c + e + l + d /\ z \in Nat
    BY <2>1, <2>2, <2>3, <2>4, <2>5
  <2> QED BY <1>2, <2>1, <2>2, <2>3, <2>4, <2>6
<1>4. Len(a) = n /\ n >= 12 /\ a[1] = First(p) /\ a[2] = Second(p)
  <2>1. Len(a) = n /\ \A k \in 1 .. n : a[k] = o[k]
    BY DEF Cut
  <2>2. 0 + 12 <= Len(a)
    BY DEF IsRtpHeader, Left, MIN_RTP_HDR_SIZE
  <2>3. 1 \in 1 .. n /\ 2 \in 1 .. n /\ n >= 12
    BY <1>3, <2>1, <2>2
  <2> QED BY <2>1, <2>3 DEF Shape
<1>5. /\ IsVerValid(a[1]) /\ ParseBit(a[1], 5, 1) = Flag(d > 0)
      /\ ParseBit(a[1], 4, 1) = Flag(p.ext >= 0) /\ ParseBit(a[1], 0, 4) = c
  <2>1. Flag(p.pad > 0) \in {0, 1} /\ Flag(p.ext >= 0) \in {0, 1}
    BY DEF Flag
  <2>2. p.cc \in 0 .. 2 ^ 4 - 1
    BY PacketFields
  <2>3. PICK f : f = First(p)
    OBVIOUS
  <2>4. /\ IsVerValid(f) /\ ParseBit(f, 5, 1) = Flag(p.pad > 0)
        /\ ParseBit(f, 4, 1) = Flag(p.ext >= 0) /\ ParseBit(f, 0, 4) = p.cc
    <3>1. PICK x, y, v : x = Flag(p.pad > 0) /\ y = Flag(p.ext >= 0) /\ v = p.cc
      OBVIOUS
    <3>2. f = GenBit(GenBit(GenBit(DEF_RTP_VERSION, 1, x), 1, y), 4, v)
      BY <2>3, <3>1 DEF First
    <3>3. x \in {0, 1} /\ y \in {0, 1} /\ v \in 0 .. 2 ^ 4 - 1
      BY <2>1, <2>2, <3>1
    <3>4. FirstBitsOf(f, x, y, v)
      BY <3>2, <3>3, FirstBits
    <3> QED BY <3>1, <3>4 DEF FirstBitsOf
  <2> QED BY <1>2, <1>4, <2>3, <2>4
<1>6. ParseBit(a[2], 7, 1) = p.marker /\ t = p.pt
  <2>1. p.marker \in {0, 1} /\ p.pt \in 0 .. 2 ^ 7 - 1
    BY PacketFields
  <2>2. PICK s : s = Second(p)
    OBVIOUS
  <2>3. ParseBit(s, 7, 1) = p.marker /\ ParseBit(s, 0, 7) = p.pt
    BY <2>1, <2>2, SecondBits DEF Second
  <2> QED BY <1>1, <1>4, <2>2, <2>3
<1>7. h = 12 + 4 * c
  BY <1>1, <1>5
<1>8. /\ ParseBit(a[1], 4, 1) = 1 <=> p.ext >= 0
      /\ ParseBit(a[1], 5, 1) = 1 <=> d > 0
  BY <1>5 DEF Flag
<1>9. w \in Nat /\ (n = z => w = d) /\ (d = 0 => w = 0)
  <2>1. CASE d > 0
    <3>1. w = a[n]
      BY <1>1, <1>4, <1>8, <2>1
    <3>2. n \in 1 .. Len(a) /\ n \in 1 .. n
      BY <1>3, <1>4
    <3>3. w \in Octet /\ w = o[n]
      BY <3>1, <3>2, ElementOfSeq DEF Cut
    <3>4. \A v \in Octet : v \in Nat
      BY DEF Octet
    <3>5. n = z => w = d
      BY <1>2, <2>1, <3>3 DEF Shape
    <3> QED BY <2>1, <3>3, <3>4, <3>5
  <2>2. CASE ~(d > 0)
    <3>1. w = 0 /\ d = 0
      BY <1>1, <1>3, <1>8, <2>2
    <3> QED BY <3>1
  <2> QED BY <2>1, <2>2
<1>10. PICK g : g = IF p.ext >= 0 THEN 4 ELSE 0
  OBVIOUS
<1>11. g \in Nat /\ g <= e
  <2>1. p.ext \in Int
    BY PacketFields
  <2> QED BY <1>2, <1>10, <2>1 DEF ExtLen
<1>12. h + g <= n => b = HeaderLen(p)
  <2>1. CASE p.ext >= 0
    <3> SUFFICES ASSUME h + g <= n PROVE b = HeaderLen(p)
      OBVIOUS
    <3>1. b = h + 4 + 4 * Num(SubSeq(a, h + 2 + 1, h + 2 + 2))
      BY <1>1, <1>8, <2>1 DEF PayloadBeg, Field
    <3>2. PICK i, j \in Nat : i = h + 2 /\ j = h + 2 + 2
      BY <1>3, <1>7
    <3>3. i \in Nat /\ j \in Nat /\ i <= j /\ j <= Len(a) /\ j - i = 2 /\ a \in Seq(Octet)
      BY <1>3, <1>4, <1>7, <1>10, <2>1, <3>2 DEF Cut
    <3>4. PICK s : s = SubSeq(a, i + 1, j)
      OBVIOUS
    <3>5. \A k \in 1 .. j - i : s[k] = a[i + k]
      BY <3>3, <3>4, SubSeqOctets
    <3>6. s[1] = a[i + 1] /\ s[2] = a[i + 2]
      <4>1. 1 \in 1 .. j - i /\ 2 \in 1 .. j - i
        BY <3>3
      <4> QED BY <3>5, <4>1
    <3>7. i + 1 \in 1 .. n /\ i + 2 \in 1 .. n /\ i + 1 = 12 + 4 * c + 3 /\ i + 2 = 12 + 4 * c + 4
      BY <1>3, <1>4, <1>7, <3>2, <3>3
    <3>8. s[1] = o[12 + 4 * c + 3] /\ s[2] = o[12 + 4 * c + 4]
      BY <3>6, <3>7 DEF Cut
    <3>9. Num(s) = p.ext
      BY <1>2, <2>1, <3>8 DEF Shape, Num
    <3>10. b = h + 4 + 4 * p.ext
      BY <3>1, <3>2, <3>4, <3>9
    <3>11. e = 4 + 4 * p.ext /\ p.ext \in Int
      BY <1>2, <2>1, PacketFields DEF ExtLen
    <3> QED BY <1>3, <1>7, <3>10, <3>11, SMTT(30)
  <2>2. CASE ~(p.ext >= 0)
    <3>1. b = h /\ e = 0
      BY <1>1, <1>2, <1>8, <2>2 DEF ExtLen
    <3> QED BY <1>3, <1>7, <3>1
  <2> QED BY <2>1, <2>2
<1>13. r = IF ~IsRtcpPt(t + 128) /\ h + g <= n /\ b + w <= n
           THEN [m_marker |-> p.marker, m_pt |-> t, m_payload_beg |-> b,
                 m_payload_size |-> n - b - w]
           ELSE Bad
  <2>1. Left(a, 0, MIN_RTP_HDR_SIZE)
    BY DEF IsRtpHeader
  <2>2. g = IF ParseBit(a[1], 4, 1) = 1 THEN 4 ELSE 0
    BY <1>8, <1>10
  <2>3. r = IF /\ Left(a, 0, MIN_RTP_HDR_SIZE)
               /\ IsVerValid(a[1]) /\ ~IsRtcpPt(t + 128)
               /\ Left(a, h, g) /\ Left(a, b, w)
            THEN [m_marker |-> ParseBit(a[2], 7, 1), m_pt |-> t, m_payload_beg |-> b,
                  m_payload_size |-> Len(a) - b - w]
            ELSE Bad
    BY <1>1, <2>2 DEF ParseRtpPkg
  <2> QED BY <1>4, <1>5, <1>6, <2>1, <2>3 DEF Left
<1>14. CASE ~IsRtcpPt(t + 128) /\ h + g <= n /\ b + w <= n
  <2>1. PICK s, hl : s = n - b - w /\ hl = HeaderLen(p)
    OBVIOUS
  <2>2. b = hl /\ hl = 12 + 4 * c + e
    BY <1>3, <1>12, <1>14, <2>1
  <2>3. s \in Nat /\ hl \in Nat /\ hl + s <= n
    BY <1>3, <1>9, <1>14, <2>1, <2>2
  <2>4. n = z => s = l
    BY <1>3, <1>9, <2>1, <2>2
  <2>5. r = [m_marker |-> p.marker, m_pt |-> t, m_payload_beg |-> hl, m_payload_size |-> s]
    BY <1>13, <1>14, <2>1, <2>2
  <2>6. r \in RtpPkg
    <3>1. p.marker \in {0, 1} /\ t \in 0 .. 2 ^ 7 - 1
      BY <1>6, PacketFields
    <3> QED BY <2>3, <2>5, <3>1 DEF RtpPkg
  <2>7. r # Bad
    BY <2>6, FormatAssumption
  <2> QED BY <1>1, <1>2, <1>6, <1>14, <2>1, <2>3, <2>4, <2>5, <2>6, <2>7 DEF Taken
<1>15. CASE ~(~IsRtcpPt(t + 128) /\ h + g <= n /\ b + w <= n)
  <2>1. r = Bad
    BY <1>13, <1>15
  <2>2. n = z => h + g <= n
    BY <1>3, <1>7, <1>11
  <2>3. n = z => b + w <= n
    BY <1>3, <1>9, <1>12, <2>2
  <2>4. n = z => IsRtcpPt(t + 128)
    BY <1>15, <2>2, <2>3
  <2> QED BY <1>1, <1>2, <1>6, <2>1, <2>4 DEF Taken
<1> QED BY <1>14, <1>15

-----------------------------------------------------------------------------
(* What the server sends                                                   *)

\* A datagram under the plain header of genRtpMsg.
Plain(marker, pt, d) ==
  /\ d \in Seq(Octet) /\ Len(d) >= 12
  /\ d[1] = GenBit(DEF_RTP_VERSION, 6, 0) /\ d[2] = GenBit(marker, 7, pt)

LEMMA PlainBits == FirstBitsOf(GenBit(DEF_RTP_VERSION, 6, 0), 0, 0, 0)
<1>1. PICK f : f = GenBit(DEF_RTP_VERSION, 6, 0) /\ f = 128
  BY DEF GenBit, DEF_RTP_VERSION
<1>2. f \in Octet
  BY <1>1 DEF Octet
<1>3. IsVerValid(f)
  BY <1>1 DEF IsVerValid, ParseBit, DEF_RTP_VERSION
<1>4. ParseBit(f, 5, 1) = 0
  BY <1>1 DEF ParseBit
<1>5. ParseBit(f, 4, 1) = 0
  BY <1>1 DEF ParseBit
<1>6. ParseBit(f, 0, 4) = 0
  BY <1>1 DEF ParseBit
<1> QED BY <1>1, <1>2, <1>3, <1>4, <1>5, <1>6 DEF FirstBitsOf

\* What one server sends the next one takes apart.
LEMMA ParsePlain ==
  ASSUME NEW marker \in {0, 1}, NEW pt \in 0 .. 2 ^ 7 - 1, ~IsRtcpPt(pt + 128),
         NEW d, Plain(marker, pt, d)
  PROVE  /\ IsRtpHeader(d) /\ ParseRtpPkg(d) \in RtpPkg
         /\ ParseRtpPkg(d).m_marker = marker /\ ParseRtpPkg(d).m_pt = pt
         /\ ParseRtpPkg(d).m_payload_beg = 12 /\ ParseRtpPkg(d).m_payload_size = Len(d) - 12
<1>1. PICK n : n = Len(d) /\ n \in Nat /\ n >= 12
  BY LenProperties DEF Plain
<1>2. PICK f : f = d[1] /\ FirstBitsOf(f, 0, 0, 0)
  BY PlainBits DEF Plain
<1>3. PICK s : s = d[2] /\ ParseBit(s, 7, 1) = marker /\ ParseBit(s, 0, 7) = pt /\ ~IsRtcpPt(s)
  <2>1. PICK s : s = d[2] /\ s = GenBit(marker, 7, pt)
    BY DEF Plain
  <2>2. ParseBit(s, 7, 1) = marker
    BY <2>1, SecondBits
  <2>3. ParseBit(s, 0, 7) = pt
    BY <2>1, SecondBits
  <2>4. ~IsRtcpPt(s)
    BY <2>1, SecondBits
  <2> QED BY <2>1, <2>2, <2>3, <2>4
<1>4. IsVerValid(f) /\ ParseBit(f, 5, 1) # 1 /\ ParseBit(f, 4, 1) # 1 /\ ParseBit(f, 0, 4) = 0
  BY <1>2 DEF FirstBitsOf
<1>5. Left(d, 0, 12)
  BY <1>1 DEF Left
<1>6. IsRtpHeader(d)
  BY <1>2, <1>3, <1>4, <1>5 DEF IsRtpHeader, MIN_RTP_HDR_SIZE
<1>7. PICK r : r = ParseRtpPkg(d)
  OBVIOUS
<1>8. r = [m_marker |-> marker, m_pt |-> pt, m_payload_beg |-> 12, m_payload_size |-> n - 12]
  <2>1. PICK h : h = 12 + 4 * ParseBit(f, 0, 4) /\ h = 12
    BY <1>4
  <2>2. r = IF Left(d, 0, 12) /\ IsVerValid(f) /\ ~IsRtcpPt(pt + 128) /\ Left(d, h, 0) /\ Left(d, h, 0)
            THEN [m_marker |-> marker, m_pt |-> pt, m_payload_beg |-> h,
                  m_payload_size |-> n - h - 0]
            ELSE Bad
    BY <1>1, <1>2, <1>3, <1>4, <1>7, <2>1 DEF ParseRtpPkg, MIN_RTP_HDR_SIZE
  <2>3. Left(d, h, 0)
    BY <1>1, <2>1 DEF Left
  <2>4. n - h - 0 = n - 12
    BY <1>1, <2>1
  <2> QED BY <1>4, <1>5, <2>1, <2>2, <2>3, <2>4
<1>9. n - 12 \in Nat
  BY <1>1
<1>10. r \in RtpPkg
  BY <1>8, <1>9 DEF RtpPkg
<1> QED BY <1>1, <1>6, <1>7, <1>8, <1>10

LEMMA PlainHeader ==
  ASSUME NEW marker \in {0, 1}, NEW pt \in 0 .. 2 ^ 7 - 1, NEW v \in Nat, NEW r,
         r = GenRtpHeader(Encoder(MIN_RTP_HDR_SIZE), marker, pt, v).data
  PROVE  Plain(marker, pt, r) /\ Len(r) = 12
<1>1. PICK a, o, z, c, u, w, f, s :
        /\ f = GenBit(DEF_RTP_VERSION, 6, 0) /\ s = GenBit(marker, 7, pt) /\ a = <<f, s>>
        /\ o = OctetsOf(v, 2) /\ z = Zeros(4) /\ c = a \o o /\ u = c \o z /\ w = u \o Ssrc
  OBVIOUS
<1>2. f \in Octet /\ s \in Octet
  <2>1. f \in Octet
    BY <1>1, PlainBits DEF FirstBitsOf
  <2>2. s \in Octet
    BY <1>1, SecondBits
  <2> QED BY <2>1, <2>2
<1>3. a \in Seq(Octet) /\ Len(a) = 2 /\ a[1] = f /\ a[2] = s
  <2>1. a \in Seq(Octet) /\ Len(a) = 2
    BY <1>1, <1>2, TwoSeq
  <2>2. a[1] = f /\ a[2] = s
    BY <1>1
  <2> QED BY <2>1, <2>2
<1>4. o \in Seq(Octet) /\ Len(o) = 2
  BY <1>1, TwoOctetsIn
<1>5. z \in Seq(Octet) /\ Len(z) = 4
  <2>1. PICK n \in Nat : n = 4
    OBVIOUS
  <2> QED BY <1>1, <2>1, ZerosLen
<1>6. c \in Seq(Octet) /\ Len(c) = 4 /\ c[1] = f /\ c[2] = s
  <2>1. c \in Seq(Octet) /\ Len(c) = Len(a) + Len(o) /\ \A k \in 1 .. Len(a) : c[k] = a[k]
    BY <1>1, <1>3, <1>4, ConcatOctets
  <2>2. 1 \in 1 .. Len(a) /\ 2 \in 1 .. Len(a)
    BY <1>3
  <2>3. Len(c) = 4
    BY <1>3, <1>4, <2>1
  <2> QED BY <1>3, <2>1, <2>2, <2>3
<1>7. u \in Seq(Octet) /\ Len(u) = 8 /\ u[1] = f /\ u[2] = s
  <2>1. u \in Seq(Octet) /\ Len(u) = Len(c) + Len(z) /\ \A k \in 1 .. Len(c) : u[k] = c[k]
    BY <1>1, <1>5, <1>6, ConcatOctets
  <2>2. 1 \in 1 .. Len(c) /\ 2 \in 1 .. Len(c)
    BY <1>6
  <2>3. Len(u) = 8
    BY <1>5, <1>6, <2>1
  <2> QED BY <1>6, <2>1, <2>2, <2>3
<1>8. w \in Seq(Octet) /\ Len(w) = 12 /\ w[1] = f /\ w[2] = s
  <2>1. Ssrc \in Seq(Octet) /\ Len(Ssrc) = 4
    BY FormatAssumption
  <2>2. w \in Seq(Octet) /\ Len(w) = Len(u) + Len(Ssrc) /\ \A k \in 1 .. Len(u) : w[k] = u[k]
    <3>1. u \in Seq(Octet) /\ Ssrc \in Seq(Octet) /\ w = u \o Ssrc
      BY <1>1, <1>7, <2>1
    <3> QED BY <3>1, ConcatOctets
  <2>3. 1 \in 1 .. Len(u) /\ 2 \in 1 .. Len(u)
    BY <1>7
  <2>4. Len(w) = 12
    BY <1>7, <2>1, <2>2
  <2> QED BY <1>7, <2>2, <2>3, <2>4
<1>9. PICK e, n : e = Encoder(n) /\ n = 12
  OBVIOUS
<1>10. PICK d : d = <<>> /\ Len(d) = 0 /\ d \o w = w
  BY <1>8, ConcatEmptySeq, EmptySeq
<1>11. e = [data |-> d, size |-> n, ok |-> TRUE]
  BY <1>9, <1>10 DEF Encoder
<1>12. e.ok /\ MakeSpace(e, Len(w))
  BY <1>8, <1>9, <1>10, <1>11 DEF MakeSpace
<1>13. Gen(e, w) = [e EXCEPT !.data = e.data \o w]
  BY <1>12 DEF Gen
<1>14. Gen(e, w).data = w
  BY <1>10, <1>11, <1>13
<1>15. r = w
  BY <1>1, <1>9, <1>14 DEF GenRtpHeader, MIN_RTP_HDR_SIZE
<1> QED BY <1>1, <1>8, <1>15 DEF Plain

\* The payload goes out as it came in.
LEMMA RelayedOctets ==
  ASSUME NEW pkg \in RtpPkg, NEW a \in Seq(Octet), NEW v \in Nat,
         pkg.m_payload_beg + pkg.m_payload_size <= Len(a), NEW r, r = GenRtpMsg(pkg, a, v)
  PROVE  /\ Plain(pkg.m_marker, pkg.m_pt, r) /\ Len(r) = 12 + pkg.m_payload_size
         /\ \A k \in 1 .. pkg.m_payload_size : r[12 + k] = a[pkg.m_payload_beg + k]
<1>1. PICK m, t, b, l : /\ m = pkg.m_marker /\ t = pkg.m_pt /\ b = pkg.m_payload_beg
                        /\ l = pkg.m_payload_size
  OBVIOUS
<1>2. m \in {0, 1} /\ t \in 0 .. 2 ^ 7 - 1 /\ b \in Nat /\ l \in Nat
  BY <1>1 DEF RtpPkg
<1>3. PICK h, j, s : /\ h = GenRtpHeader(Encoder(MIN_RTP_HDR_SIZE), m, t, v).data
                     /\ j = b + l /\ s = SubSeq(a, b + 1, j)
  OBVIOUS
<1>4. Plain(m, t, h) /\ Len(h) = 12
  BY <1>2, <1>3, PlainHeader
<1>5. j \in Nat /\ b <= j /\ j <= Len(a) /\ j - b = l
  BY <1>1, <1>2, <1>3
<1>6. s \in Seq(Octet) /\ Len(s) = j - b /\ \A k \in 1 .. j - b : s[k] = a[b + k]
  BY <1>2, <1>3, <1>5, SubSeqOctets
<1>7. r = h \o s
  BY <1>1, <1>3 DEF GenRtpMsg, Field
<1>8. h \in Seq(Octet)
  BY <1>4 DEF Plain
<1>9. /\ r \in Seq(Octet) /\ Len(r) = Len(h) + Len(s)
      /\ \A k \in 1 .. Len(h) : r[k] = h[k]
      /\ \A k \in 1 .. Len(s) : r[Len(h) + k] = s[k]
  <2>1. s \in Seq(Octet)
    BY <1>6
  <2> QED BY <1>7, <1>8, <2>1, ConcatOctets
<1>10. Len(r) = 12 + l
  BY <1>4, <1>5, <1>6, <1>9
<1>11. Plain(m, t, r)
  <2>1. 1 \in 1 .. Len(h) /\ 2 \in 1 .. Len(h)
    BY <1>4
  <2>2. Len(r) >= 12
    BY <1>2, <1>10
  <2> QED BY <1>4, <1>9, <2>1, <2>2 DEF Plain
<1>12. \A k \in 1 .. l : r[12 + k] = a[b + k]
  BY <1>4, <1>5, <1>6, <1>9
<1> QED BY <1>1, <1>10, <1>11, <1>12

-----------------------------------------------------------------------------
(* The way of a packet                                                     *)

\* At every hop the datagram carries the first octets of the payload, all of them if
\* the packet arrived whole; and its type is none of RTCP, so that the next server
\* accepts it.
Relayed(p, d) ==
  /\ ~IsRtcpPt(p.pt + 128) /\ Plain(p.marker, p.pt, d)
  /\ HeaderLen(p) + (Len(d) - 12) <= Len(RtpOctets(p))
  /\ \A k \in 1 .. Len(d) - 12 : d[12 + k] = RtpOctets(p)[HeaderLen(p) + k]
  /\ Whole => Len(d) - 12 = Len(p.payload)

\* What arrived is the packet up to the cut, or what the server before sent.
Arrival(p) ==
  /\ IsRtpHeader(arrived)
  /\ got = <<>> => upto \in 0 .. ends[1] /\ Cut(RtpOctets(p), upto, arrived)
  /\ got # <<>> => arrived = data

RelayInv ==
  /\ stage = "write" => got = <<>>
  /\ stage \in RtpStage =>
       /\ written[1] \in MediaPackets /\ ends[1] = Len(RtpOctets(written[1]))
       /\ got \in Seq(RtpPkg)
       /\ got # <<>> => Relayed(written[1], data)
  /\ stage = "sent" /\ got = <<>> => data = RtpOctets(written[1])
  /\ stage = "parse" => Arrival(written[1])
  /\ stage = "dropped" => got = <<>> /\ (Whole => IsRtcpPt(written[1].pt + 128))

LEMMA PacketLengths ==
  ASSUME NEW p \in MediaPacket
  PROVE  /\ HeaderLen(p) \in Nat /\ HeaderLen(p) >= 12 /\ Len(p.payload) \in Nat
         /\ Len(RtpOctets(p)) \in Nat /\ RtpOctets(p) \in Seq(Octet)
         /\ Len(RtpOctets(p)) = HeaderLen(p) + Len(p.payload) + p.pad /\ p.pad \in Nat
<1>1. PICK e, c, h, l, o : e = ExtLen(p) /\ c = p.cc /\ h = HeaderLen(p) /\ l = Len(p.payload) /\ o = RtpOctets(p)
  OBVIOUS
<1>2. e \in Nat
  BY <1>1, ExtensionShape
<1>3. c \in Nat /\ p.pad \in Nat /\ p.payload \in Seq(Octet)
  BY <1>1, PacketFields
<1>4. h = 12 + 4 * c + e
  BY <1>1 DEF HeaderLen
<1>5. h \in Nat /\ h >= 12
  BY <1>2, <1>3, <1>4
<1>6. l \in Nat
  BY <1>1, <1>3, LenProperties
<1>7. o \in Seq(Octet) /\ Len(o) = h + l + p.pad
  BY <1>1, PacketShape DEF Shape
<1>8. Len(o) \in Nat
  BY <1>7, LenProperties
<1> QED BY <1>1, <1>3, <1>5, <1>6, <1>7, <1>8

\* A whole packet is not dropped for its header.
LEMMA WholeHeader ==
  ASSUME NEW p \in MediaPacket, NEW o, Shape(p, o), o = RtpOctets(p), NEW a, Cut(o, Len(o), a), ~IsRtpHeader(a)
  PROVE  IsRtcpPt(p.pt + 128)
<1>1. PICK n : n = Len(o) /\ n \in Nat /\ n >= 12
  <2>1. PICK h, l, d, n : h = HeaderLen(p) /\ l = Len(p.payload) /\ d = p.pad /\ n = Len(o)
    OBVIOUS
  <2>2. h \in Nat /\ h >= 12 /\ l \in Nat /\ d \in Nat /\ n = h + l + d
    BY <2>1, PacketLengths
  <2>3. n \in Nat /\ n >= 12
    BY <2>2
  <2> QED BY <2>1, <2>3
<1>2. Len(a) = n /\ a[1] = First(p) /\ a[2] = Second(p)
  <2>1. 1 \in 1 .. n /\ 2 \in 1 .. n
    BY <1>1
  <2> QED BY <1>1, <2>1 DEF Cut, Shape
<1>3. PICK f : f = a[1] /\ IsVerValid(f)
  <2>1. PICK x, y, v, f : x = Flag(p.pad > 0) /\ y = Flag(p.ext >= 0) /\ v = p.cc /\ f = First(p)
    OBVIOUS
  <2>2. f = GenBit(GenBit(GenBit(DEF_RTP_VERSION, 1, x), 1, y), 4, v)
    BY <2>1 DEF First
  <2>3. x \in {0, 1} /\ y \in {0, 1}
    BY <2>1 DEF Flag
  <2>4. v \in 0 .. 2 ^ 4 - 1
    BY <2>1, PacketFields
  <2>5. FirstBitsOf(f, x, y, v)
    BY <2>2, <2>3, <2>4, FirstBits
  <2> QED BY <1>2, <2>1, <2>5 DEF FirstBitsOf
<1>4. PICK s : s = a[2] /\ (IsRtcpPt(s) => IsRtcpPt(p.pt + 128))
  <2>1. PICK s : s = GenBit(p.marker, 7, p.pt)
    OBVIOUS
  <2>2. p.marker \in {0, 1} /\ p.pt \in 0 .. 2 ^ 7 - 1
    BY PacketFields
  <2>3. IsRtcpPt(s) => IsRtcpPt(p.pt + 128)
    BY <2>1, <2>2, SecondBits
  <2> QED BY <1>2, <2>1, <2>3 DEF Second
<1>5. Left(a, 0, 12)
  BY <1>1, <1>2 DEF Left
<1> QED BY <1>3, <1>4, <1>5 DEF IsRtpHeader, MIN_RTP_HDR_SIZE

LEMMA RelayInit == Init => RelayInv
BY DEF Init, RelayInv, RtpStage

LEMMA RtcpRelay == ASSUME RelayInv, Rtcp PROVE RelayInv'
<1>1. CASE PeerWrites
  <2>1. stage' = "write" /\ got' = got /\ stage = "write"
    BY <1>1 DEF PeerWrites
  <2> QED BY <2>1 DEF RelayInv, RtpStage
<1>2. CASE SendSR \/ SendRR
  <2>1. stage' \in {"send", "unsent"}
    BY <1>2 DEF SendSR, SendRR, Send
  <2> QED BY <2>1 DEF RelayInv, RtpStage
<1>3. CASE ParseRtcp
  <2>1. stage' \in {"read", "done"}
    BY <1>3 DEF ParseRtcp
  <2> QED BY <2>1 DEF RelayInv, RtpStage
<1>4. CASE ProcRtcp
  <2>1. stage' \in {"read", "done"}
    BY <1>4 DEF ProcRtcp, Stop
  <2> QED BY <2>1 DEF RelayInv, RtpStage
<1> QED BY <1>1, <1>2, <1>3, <1>4 DEF Rtcp

LEMMA PublishRelay == ASSUME RelayInv, Publish PROVE RelayInv'
<1>1. PICK p \in MediaPackets : data' = RtpOctets(p) /\ written' = <<p>>
  BY DEF Publish
<1>2. stage = "write" /\ stage' = "sent" /\ ends' = <<Len(data')>> /\ got' = got
  BY DEF Publish
<1>3. got' = <<>>
  BY <1>2 DEF RelayInv
<1>4. written'[1] = p /\ ends'[1] = Len(RtpOctets(p))
  BY <1>1, <1>2
<1>5. got' \in Seq(RtpPkg)
  BY <1>3, EmptySeq
<1> QED BY <1>1, <1>2, <1>3, <1>4, <1>5 DEF RelayInv, RtpStage

LEMMA ParseRelay == ASSUME RelayInv, ParseRtp PROVE RelayInv'
<1>1. stage = "sent" /\ written' = written /\ ends' = ends /\ data' = data /\ got' = got
  BY DEF ParseRtp
<1>2. PICK p : p = written[1] /\ p \in MediaPackets /\ p \in MediaPacket
  BY <1>1, RelayAssumption DEF RelayInv, RtpStage
<1>3. PICK o : o = RtpOctets(p) /\ ends[1] = Len(o) /\ Shape(p, o) /\ o \in Seq(Octet)
  <2>1. ends[1] = Len(RtpOctets(p))
    BY <1>1, <1>2 DEF RelayInv, RtpStage
  <2>2. Shape(p, RtpOctets(p))
    BY <1>2, PacketShape
  <2> QED BY <2>1, <2>2 DEF Shape
<1>4. PICK n \in 0 .. Len(data) :
        /\ got = <<>> \/ n = Len(data)
        /\ arrived' = SubSeq(data, 1, n) /\ upto' = IF got = <<>> THEN n ELSE upto
  BY DEF ParseRtp
<1>5. stage' = IF IsRtpHeader(arrived') THEN "parse" ELSE "dropped"
  BY DEF ParseRtp
<1>6. /\ written'[1] \in MediaPackets /\ ends'[1] = Len(RtpOctets(written'[1]))
      /\ got' \in Seq(RtpPkg)
  BY <1>1, <1>2, <1>3 DEF RelayInv, RtpStage
<1>7. CASE got = <<>>
  <2>1. data = o
    BY <1>1, <1>2, <1>3, <1>7 DEF RelayInv
  <2>2. upto' = n /\ n \in 0 .. Len(o)
    BY <1>4, <1>7, <2>1
  <2>3. Cut(o, n, arrived')
    <3>1. Cut(o, n, SubSeq(o, 1, n))
      BY <1>3, <2>2, CutOf
    <3> QED BY <1>4, <2>1, <3>1
  <2>4. CASE IsRtpHeader(arrived')
    <3>1. stage' = "parse"
      BY <1>5, <2>4
    <3>2. upto' \in 0 .. ends'[1] /\ Cut(RtpOctets(written'[1]), upto', arrived')
      BY <1>1, <1>2, <1>3, <2>2, <2>3
    <3> QED BY <1>1, <1>6, <1>7, <2>4, <3>1, <3>2 DEF RelayInv, RtpStage, Arrival
  <2>5. CASE ~IsRtpHeader(arrived')
    <3>1. stage' = "dropped"
      BY <1>5, <2>5
    <3>2. n = Len(o) => IsRtcpPt(p.pt + 128)
      BY <1>2, <1>3, <2>3, <2>5, WholeHeader
    <3>3. Whole' => IsRtcpPt(written'[1].pt + 128)
      BY <1>1, <1>2, <1>3, <2>2, <3>2 DEF Whole
    <3> QED BY <1>1, <1>6, <1>7, <3>1, <3>3 DEF RelayInv, RtpStage
  <2> QED BY <2>4, <2>5
<1>8. CASE got # <<>>
  <2>1. Relayed(p, data)
    BY <1>1, <1>2, <1>8 DEF RelayInv, RtpStage
  <2>2. data \in Seq(Octet)
    BY <2>1 DEF Relayed, Plain
  <2>3. arrived' = data /\ upto' = upto
    BY <1>4, <1>8, <2>2, SubSeqFull
  <2>4. IsRtpHeader(data)
    <3>1. p.marker \in {0, 1} /\ p.pt \in 0 .. 2 ^ 7 - 1
      BY <1>2, PacketFields
    <3> QED BY <2>1, <3>1, ParsePlain DEF Relayed
  <2>5. stage' = "parse"
    BY <1>5, <2>3, <2>4
  <2>6. Relayed(written[1], data)'
    BY <1>1, <1>2, <2>1, <2>3 DEF Relayed, Whole
  <2> QED BY <1>1, <1>6, <1>8, <2>3, <2>4, <2>5, <2>6 DEF RelayInv, RtpStage, Arrival
<1> QED BY <1>7, <1>8

LEMMA ProcRelay == ASSUME RelayInv, ProcRtp PROVE RelayInv'
<1>1. /\ stage = "parse" /\ written' = written /\ ends' = ends /\ arrived' = arrived /\ upto' = upto
      /\ got \in Seq(RtpPkg)
  BY DEF ProcRtp, RelayInv, RtpStage
<1>2. PICK p : p = written[1] /\ p \in MediaPackets /\ p \in MediaPacket
  BY <1>1, RelayAssumption DEF RelayInv, RtpStage
<1>3. PICK o : o = RtpOctets(p) /\ ends[1] = Len(o) /\ Shape(p, o) /\ o \in Seq(Octet)
  <2>1. ends[1] = Len(RtpOctets(p))
    BY <1>1, <1>2 DEF RelayInv, RtpStage
  <2>2. Shape(p, RtpOctets(p))
    BY <1>2, PacketShape
  <2> QED BY <2>1, <2>2 DEF Shape
<1>4. PICK h, l, z, a : h = HeaderLen(p) /\ l = Len(p.payload) /\ z = Len(o) /\ a = arrived
  OBVIOUS
<1>5. h \in Nat /\ h >= 12 /\ l \in Nat /\ z \in Nat
  BY <1>2, <1>3, <1>4, PacketLengths
<1>6. PICK pkg : pkg = ParseRtpPkg(a)
  OBVIOUS
<1>7. IF pkg = Bad THEN stage' = "dropped" /\ data' = data /\ got' = got
      ELSE /\ data' = GenRtpMsg(pkg, a, Len(got))
           /\ got' = Append(got, pkg)
           /\ stage' \in {"sent", "played"}
  BY <1>4, <1>6 DEF ProcRtp
<1>8. Arrival(p)
  BY <1>1, <1>2 DEF RelayInv
<1>9. PICK v : v = Len(got) /\ v \in Nat
  BY <1>1, LenProperties
<1>10. written'[1] = p /\ ends'[1] = z /\ written'[1] \in MediaPackets /\ ends'[1] = Len(RtpOctets(p))
  BY <1>1, <1>2, <1>3, <1>4
\* Sending a packet on, whichever way it came.
<1>11. ASSUME pkg # Bad, pkg \in RtpPkg, Relayed(p, data)' PROVE RelayInv'
  <2>1. got' \in Seq(RtpPkg) /\ got' # <<>>
    <3>1. got' = Append(got, pkg)
      BY <1>7, <1>11
    <3> QED BY <1>1, <1>11, <3>1, AppendProperties
  <2>2. stage' \in {"sent", "played"}
    BY <1>7, <1>11
  <2>3. Relayed(written[1], data)'
    BY <1>10, <1>11
  <2> QED BY <1>10, <2>1, <2>2, <2>3 DEF RelayInv, RtpStage
<1>12. CASE got = <<>>
  <2>1. PICK n : n = upto /\ n \in 0 .. z /\ Cut(o, n, a)
    BY <1>3, <1>4, <1>8, <1>12 DEF Arrival
  <2>2. n \in Nat /\ n <= z
    BY <1>5, <2>1
  <2>3. Taken(p, o, n, pkg)
    <3>1. IsRtpHeader(a) /\ n \in 0 .. Len(o)
      BY <1>4, <1>8, <2>1 DEF Arrival
    <3> QED BY <1>2, <1>3, <1>6, <2>1, <3>1, ParseCut
  <2>4. CASE pkg = Bad
    <3>1. n = z => IsRtcpPt(p.pt + 128)
      BY <1>4, <2>3, <2>4 DEF Taken
    <3>2. Whole' => n = z
      BY <1>1, <1>10, <2>1 DEF Whole
    <3>3. stage' = "dropped" /\ got' = got
      BY <1>7, <2>4
    <3> QED BY <1>1, <1>10, <1>12, <3>1, <3>2, <3>3 DEF RelayInv, RtpStage
  <2>5. CASE pkg # Bad
    <3>1. /\ pkg \in RtpPkg /\ pkg.m_marker = p.marker /\ pkg.m_pt = p.pt
          /\ pkg.m_payload_beg = h /\ h + pkg.m_payload_size <= n
          /\ ~IsRtcpPt(p.pt + 128)
          /\ n = z => pkg.m_payload_size = l
      BY <1>4, <2>3, <2>5 DEF Taken
    <3>2. PICK s : s = pkg.m_payload_size /\ s \in Nat
      BY <3>1 DEF RtpPkg
    <3>3. PICK d : d = data' /\ d = GenRtpMsg(pkg, a, v)
      BY <1>7, <1>9, <2>5
    <3>4. a \in Seq(Octet) /\ Len(a) = n /\ \A k \in 1 .. n : a[k] = o[k]
      BY <2>1 DEF Cut
    <3>5. pkg.m_payload_beg + pkg.m_payload_size <= Len(a)
      BY <3>1, <3>4
    <3>6. /\ Plain(pkg.m_marker, pkg.m_pt, d) /\ Len(d) = 12 + pkg.m_payload_size
          /\ \A k \in 1 .. pkg.m_payload_size : d[12 + k] = a[pkg.m_payload_beg + k]
      BY <1>9, <3>1, <3>3, <3>4, <3>5, RelayedOctets
    <3>7. Plain(p.marker, p.pt, d) /\ Len(d) - 12 = s /\ \A k \in 1 .. s : d[12 + k] = a[h + k]
      BY <3>1, <3>2, <3>6
    <3>8. \A k \in 1 .. s : d[12 + k] = o[h + k]
      <4> SUFFICES ASSUME NEW k \in 1 .. s PROVE d[12 + k] = o[h + k]
        OBVIOUS
      <4>1. h + k \in 1 .. n
        BY <1>5, <2>2, <3>1, <3>2
      <4> QED BY <3>4, <3>7, <4>1
    <3>9. h + s <= z
      BY <1>5, <2>2, <3>1, <3>2
    <3>10. Whole' => s = l
      BY <1>1, <1>10, <2>1, <3>1, <3>2 DEF Whole
    <3>11. Relayed(p, data)'
      BY <1>3, <1>4, <3>1, <3>3, <3>7, <3>8, <3>9, <3>10 DEF Relayed
    <3> QED BY <1>11, <2>5, <3>1, <3>11
  <2> QED BY <2>4, <2>5
<1>13. CASE got # <<>>
  <2>1. a = data
    BY <1>4, <1>8, <1>13 DEF Arrival
  <2>2. Relayed(p, a)
    BY <1>1, <1>2, <1>13, <2>1 DEF RelayInv, RtpStage
  <2>3. p.marker \in {0, 1} /\ p.pt \in 0 .. 2 ^ 7 - 1 /\ ~IsRtcpPt(p.pt + 128) /\ Plain(p.marker, p.pt, a)
    BY <1>2, <2>2, PacketFields DEF Relayed
  <2>4. /\ pkg \in RtpPkg /\ pkg.m_marker = p.marker /\ pkg.m_pt = p.pt
        /\ pkg.m_payload_beg = 12 /\ pkg.m_payload_size = Len(a) - 12
    BY <1>6, <2>3, ParsePlain
  <2>5. PICK n : n = Len(a) /\ n \in Nat /\ n >= 12 /\ a \in Seq(Octet)
    BY <2>3, LenProperties DEF Plain
  <2>6. pkg # Bad
    BY <2>4, FormatAssumption
  <2>7. PICK d : d = data' /\ d = GenRtpMsg(pkg, a, v)
    BY <1>7, <1>9, <2>6
  <2>8. pkg.m_payload_beg + pkg.m_payload_size <= Len(a)
    BY <2>4, <2>5
  <2>9. /\ Plain(pkg.m_marker, pkg.m_pt, d) /\ Len(d) = 12 + pkg.m_payload_size
        /\ \A k \in 1 .. pkg.m_payload_size : d[12 + k] = a[pkg.m_payload_beg + k]
    <3>1. v \in Nat /\ pkg \in RtpPkg /\ a \in Seq(Octet) /\ d = GenRtpMsg(pkg, a, v)
      BY <1>9, <2>4, <2>5, <2>7
    <3> QED BY <2>8, <3>1, RelayedOctets
  <2>10. /\ Plain(p.marker, p.pt, d) /\ Len(d) = Len(a)
         /\ \A k \in 1 .. Len(a) - 12 : d[12 + k] = a[12 + k]
    BY <2>4, <2>5, <2>9
  <2>11. Relayed(p, d)
    BY <2>2, <2>10 DEF Relayed
  <2>12. Relayed(p, data)'
    BY <1>1, <2>7, <2>11 DEF Relayed, Whole
  <2> QED BY <1>11, <2>4, <2>6, <2>12
<1> QED BY <1>12, <1>13

\* No step leaves the invariant.
LEMMA RelayNext == ASSUME RelayInv, [Next]_vars PROVE RelayInv'
<1>1. CASE UNCHANGED vars
  BY <1>1 DEF vars, RelayInv, Arrival, Relayed, Whole
<1> QED BY <1>1, RtcpRelay, PublishRelay, ParseRelay, ProcRelay DEF Next, Rtp

LEMMA PrefixOf ==
  ASSUME NEW s \in Seq(Octet), NEW t \in Seq(Octet), Len(s) <= Len(t),
         \A k \in 1 .. Len(s) : s[k] = t[k]
  PROVE  IsPrefix(s, t)
<1>1. PICK n, x, y : n = Len(s) /\ x = SubSeq(s, 1, n) /\ y = SubSeq(t, 1, n)
  OBVIOUS
<1>2. n \in Nat /\ n \in 0 .. Len(s) /\ n \in 0 .. Len(t)
  BY <1>1, LenProperties
<1>3. Cut(s, n, x) /\ Cut(t, n, y)
  BY <1>1, <1>2, CutOf
<1>4. x \in Seq(Octet) /\ y \in Seq(Octet) /\ Len(x) = Len(y) /\ \A k \in 1 .. Len(x) : x[k] = y[k]
  BY <1>1, <1>3 DEF Cut
<1>5. x = y
  BY <1>4, SeqEqual
<1> QED BY <1>1, <1>5 DEF IsPrefix

\* The invariant is all of it.
LEMMA RelayedPayload == RelayInv => PayloadKept
<1> SUFFICES ASSUME RelayInv PROVE PayloadKept
  OBVIOUS
<1>1. stage = "dropped" => got = <<>> /\ (Whole => IsRtcpPt(written[1].pt + 128))
  BY DEF RelayInv
<1>2. ASSUME stage \in RtpStage, got # <<>>
      PROVE  LET media == RtpOctets(written[1])
                 header == RtpOctets([written[1] EXCEPT !.payload = <<>>, !.pad = 0])
             IN /\ IsPrefix(Payload, SubSeq(media, Len(header) + 1, Len(media)))
                /\ Whole => /\ Payload = written[1].payload
                            /\ data[2] = GenBit(written[1].marker, 7, written[1].pt)
  <2>1. PICK p : p = written[1] /\ p \in MediaPacket /\ Relayed(p, data)
    BY <1>2, RelayAssumption DEF RelayInv
  <2>2. PICK o, q, f, d : /\ o = RtpOctets(p) /\ q = [p EXCEPT !.payload = <<>>, !.pad = 0]
                          /\ f = RtpOctets(q) /\ d = data
    OBVIOUS
  <2>3. PICK h, l, z, m : h = HeaderLen(p) /\ l = Len(p.payload) /\ z = Len(o) /\ m = Len(d) - 12
    OBVIOUS
  <2>4. h \in Nat /\ l \in Nat /\ z \in Nat /\ o \in Seq(Octet) /\ h + l <= z
    <3>1. PICK e : e = p.pad /\ e \in Nat /\ z = h + l + e
      BY <2>1, <2>2, <2>3, PacketLengths
    <3>2. h \in Nat /\ l \in Nat /\ z \in Nat /\ o \in Seq(Octet)
      BY <2>1, <2>2, <2>3, PacketLengths
    <3> QED BY <3>1, <3>2
  <2>5. Len(f) = h
    <3>1. /\ q.marker = p.marker /\ q.pt = p.pt /\ q.cc = p.cc /\ q.ext = p.ext
          /\ q.payload = <<>> /\ q.pad = 0 /\ q \in MediaPacket
      <4>1. <<>> \in Seq(Octet) /\ 0 \in Octet
        BY EmptySeq DEF Octet
      <4> QED BY <2>1, <2>2, <4>1 DEF MediaPacket
    <3>2. HeaderLen(q) = h
      BY <2>3, <3>1 DEF HeaderLen, ExtLen
    <3>3. Len(f) = HeaderLen(q) + Len(q.payload) + q.pad
      BY <2>2, <3>1, PacketLengths
    <3>4. PICK y, e : y = Len(q.payload) /\ e = q.pad /\ y = 0 /\ e = 0
      BY <3>1, EmptySeq
    <3> QED BY <2>4, <3>2, <3>3, <3>4
  <2>6. /\ d \in Seq(Octet) /\ Len(d) >= 12 /\ d[2] = GenBit(p.marker, 7, p.pt) /\ h + m <= z
        /\ \A k \in 1 .. m : d[12 + k] = o[h + k]
        /\ Whole => m = l
    BY <2>1, <2>2, <2>3 DEF Relayed, Plain
  <2>7. PICK c : c = Len(d) /\ c \in Nat /\ c >= 12 /\ m = c - 12 /\ m \in Nat
    BY <2>3, <2>6, LenProperties
  <2>8. PICK i, s : i = 12 /\ i \in Nat /\ s = SubSeq(d, i + 1, c)
    OBVIOUS
  <2>9. Payload = s
    BY <2>2, <2>7, <2>8 DEF Payload, MIN_RTP_HDR_SIZE
  <2>10. s \in Seq(Octet) /\ Len(s) = m /\ \A k \in 1 .. m : s[k] = o[h + k]
    <3>1. i <= c /\ c <= Len(d) /\ c - i = m
      BY <2>7, <2>8
    <3>2. s \in Seq(Octet) /\ Len(s) = c - i /\ \A k \in 1 .. c - i : s[k] = d[i + k]
      BY <2>6, <2>7, <2>8, <3>1, SubSeqOctets
    <3> QED BY <2>6, <2>8, <3>1, <3>2
  <2>11. PICK t : t = SubSeq(o, h + 1, z)
    OBVIOUS
  <2>12. t \in Seq(Octet) /\ Len(t) = z - h /\ \A k \in 1 .. z - h : t[k] = o[h + k]
    <3>1. h <= z /\ z <= Len(o)
      BY <2>3, <2>4
    <3> QED BY <2>4, <2>11, <3>1, SubSeqOctets
  <2>13. IsPrefix(s, t)
    <3>1. Len(s) <= Len(t)
      BY <2>4, <2>6, <2>7, <2>10, <2>12
    <3>2. \A k \in 1 .. Len(s) : k \in 1 .. m /\ k \in 1 .. z - h
      BY <2>4, <2>6, <2>7, <2>10
    <3>3. \A k \in 1 .. Len(s) : s[k] = t[k]
      BY <2>10, <2>12, <3>2
    <3> QED BY <2>10, <2>12, <3>1, <3>3, PrefixOf
  <2>14. Whole => s = p.payload
    <3> SUFFICES ASSUME Whole PROVE s = p.payload
      OBVIOUS
    <3>1. PICK y : y = p.payload /\ y \in Seq(Octet) /\ Len(y) = l
      BY <2>1, <2>3, PacketFields
    <3>2. m = l
      BY <2>6
    <3>3. Shape(p, o)
      BY <2>1, <2>2, PacketShape
    <3>4. \A k \in 1 .. l : o[h + k] = y[k]
      BY <2>3, <3>1, <3>3 DEF Shape
    <3>5. Len(s) = Len(y) /\ \A k \in 1 .. Len(s) : s[k] = y[k]
      BY <2>10, <3>1, <3>2, <3>4
    <3> QED BY <2>10, <3>1, <3>5, SeqEqual
  <2> QED BY <2>1, <2>2, <2>3, <2>5, <2>6, <2>9, <2>11, <2>13, <2>14
<1> QED BY <1>1, <1>2 DEF PayloadKept

\* Through any number of servers the payload, the marker and the type of a packet come
\* as they were published; of a packet that was cut nothing but payload is sent on; and
\* a whole one is dropped only for a type of RTCP.
THEOREM PayloadIsKept == Spec => []PayloadKept
<1>1. RelayInv /\ [Next]_vars => RelayInv'
  BY RelayNext
<1>2. Spec => Init /\ [][Next]_vars
  BY PTL DEF Spec
<1> QED BY <1>1, <1>2, RelayInit, RelayedPayload, PTL
=============================================================================
