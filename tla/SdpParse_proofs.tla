--------------------------- MODULE SdpParse_proofs ----------------------------
(***************************************************************************)
(* For any set of lines and any length of the text: the media of a         *)
(* description depend on their own lines and on those of the session; and  *)
(* the text that is written of a description is read as what it was        *)
(* written of.                                                             *)
(***************************************************************************)
EXTENDS SdpParse, FiniteSetTheorems, SequenceTheorems, WellFoundedInduction, TLAPS

-------------------------------------------------------------------------------
(* Reading line by line                                                      *)

\* The least of a set of numbers.
LEMMA MinIs ==
  ASSUME NEW S, S \subseteq Nat, S # {}
  PROVE  Min(S) \in S /\ \A y \in S : Min(S) <= y
<1>1. PICK x \in S : \A y \in S : ~(<<y, x>> \in OpToRel(<, Nat))
  BY NatLessThanWellFounded, WFMin
<1>2. \A y \in S : ~(y < x)
  BY <1>1 DEF OpToRel
<1>3. \A y \in S : x <= y
  BY <1>2
<1> QED BY <1>3 DEF Min

\* A description after n lines.
Reads(f, text, n) ==
  f = [i \in 0 .. n |-> IF i = 0 THEN EmptySdp ELSE ParseSdpLine(f[i - 1], text[i])]

\* The recursion of Reading has a solution for every length.
LEMMA ReadsExists ==
  ASSUME NEW text, NEW n \in Nat
  PROVE  \E f : Reads(f, text, n)
<1> DEFINE B == {k \in Nat : ~\E f : Reads(f, text, k)}
<1>1. SUFFICES ASSUME B # {} PROVE FALSE
  OBVIOUS
<1>2. PICK k \in B : \A j \in B : k <= j
  BY <1>1, MinIs
<1>3. CASE k = 0
  <2> DEFINE f == [i \in 0 .. 0 |-> EmptySdp]
  <2>1. f = [i \in 0 .. 0 |-> IF i = 0 THEN EmptySdp ELSE ParseSdpLine(f[i - 1], text[i])]
    OBVIOUS
  <2>2. Reads(f, text, 0)
    BY <2>1 DEF Reads
  <2> QED BY <1>2, <1>3, <2>2
<1>4. CASE k # 0
  <2>1. k - 1 \in Nat /\ k - 1 \notin B
    BY <1>2, <1>4
  <2>2. PICK f : Reads(f, text, k - 1)
    BY <2>1
  <2> DEFINE g == [i \in 0 .. k |->
                     IF i = 0 THEN EmptySdp ELSE ParseSdpLine(f[i - 1], text[i])]
  <2>3. \A i \in 0 .. k - 1 : f[i] = IF i = 0 THEN EmptySdp ELSE ParseSdpLine(f[i - 1], text[i])
    BY <2>2 DEF Reads
  <2>4. \A i \in 0 .. k - 1 : g[i] = f[i]
    BY <2>1, <2>3
  <2>5. \A i \in 0 .. k : i # 0 => f[i - 1] = g[i - 1]
    <3>1. \A i \in 0 .. k : i # 0 => i - 1 \in 0 .. k - 1
      BY <2>1
    <3> HIDE DEF g
    <3> QED BY <2>4, <3>1
  <2>6. g = [i \in 0 .. k |-> IF i = 0 THEN EmptySdp ELSE ParseSdpLine(g[i - 1], text[i])]
    BY <2>5
  <2>7. Reads(g, text, k)
    BY <2>6 DEF Reads
  <2> QED BY <1>2, <2>7
<1> QED BY <1>3, <1>4

LEMMA ReadingIs ==
  ASSUME NEW text, Len(text) \in Nat
  PROVE  \A i \in 0 .. Len(text) :
           Reading(text)[i] = IF i = 0 THEN EmptySdp
                              ELSE ParseSdpLine(Reading(text)[i - 1], text[i])
<1>1. PICK f : Reads(f, text, Len(text))
  BY ReadsExists
<1>2. Reading(text) = CHOOSE g : Reads(g, text, Len(text))
  BY DEF Reading, Reads
<1>3. Reads(Reading(text), text, Len(text))
  BY <1>1, <1>2
<1> QED BY <1>3 DEF Reads

\* The text as a whole, and what one more line does to its description.
LEMMA ParseEmpty == ParseSDP(<< >>) = EmptySdp
<1>1. Len(<< >>) = 0
  OBVIOUS
<1> QED BY <1>1, ReadingIs DEF ParseSDP

LEMMA ParseAppend ==
  ASSUME NEW T, NEW text \in Seq(T), NEW e \in T
  PROVE  ParseSDP(Append(text, e)) = ParseSdpLine(ParseSDP(text), e)
<1> DEFINE more == Append(text, e)
           B == {i \in 0 .. Len(text) : Reading(more)[i] # Reading(text)[i]}
<1>1. /\ Len(text) \in Nat /\ Len(more) = Len(text) + 1 /\ more[Len(text) + 1] = e
      /\ \A i \in 1 .. Len(text) : more[i] = text[i]
  BY AppendProperties
<1> HIDE DEF more
<1>2. \A i \in 0 .. Len(text) :
        Reading(text)[i] = IF i = 0 THEN EmptySdp ELSE ParseSdpLine(Reading(text)[i - 1], text[i])
  BY <1>1, ReadingIs
<1>3. \A i \in 0 .. Len(more) :
        Reading(more)[i] = IF i = 0 THEN EmptySdp ELSE ParseSdpLine(Reading(more)[i - 1], more[i])
  BY <1>1, ReadingIs
<1>4. B = {}
  <2>1. SUFFICES ASSUME B # {} PROVE FALSE
    OBVIOUS
  <2>2. PICK k \in B : \A j \in B : k <= j
    <3>1. B \subseteq Nat
      BY <1>1
    <3> QED BY <2>1, <3>1, MinIs
  <2>3. k # 0
    BY <1>1, <1>2, <1>3, <2>2
  <2>4. k - 1 \in 0 .. Len(text) /\ k - 1 \notin B /\ k \in 1 .. Len(text)
    BY <1>1, <2>2, <2>3
  <2>5. Reading(more)[k - 1] = Reading(text)[k - 1] /\ more[k] = text[k]
    BY <1>1, <2>4
  <2> QED BY <1>1, <1>2, <1>3, <2>2, <2>3, <2>5
<1>5. Reading(more)[Len(text)] = Reading(text)[Len(text)]
  BY <1>1, <1>4
<1>6. Reading(more)[Len(more)] = ParseSdpLine(Reading(more)[Len(text)], more[Len(more)])
  BY <1>1, <1>3
<1> QED BY <1>1, <1>5, <1>6 DEF ParseSDP, more

-------------------------------------------------------------------------------
(* What a line does to the last media                                        *)

\* A sequence of some elements, a media and a description.
IsSeq(q) == q \in Seq({q[i] : i \in DOMAIN q})
IsMedia(m) ==
  m = [type |-> m.type, port |-> m.port, payload |-> m.payload, ip |-> m.ip, ttl |-> m.ttl,
       url |-> m.url, path |-> m.path, idx |-> m.idx, name |-> m.name, rate |-> m.rate,
       channels |-> m.channels, bitRate |-> m.bitRate, width |-> m.width,
       height |-> m.height, config |-> m.config]
IsSdp(s) ==
  /\ s = [title |-> s.title, comment |-> s.comment, url |-> s.url, media |-> s.media,
          ip |-> s.ip, ttl |-> s.ttl, skip |-> s.skip]
  /\ s.skip \in BOOLEAN
  /\ IsSeq(s.media)
  /\ \A i \in 1 .. Len(s.media) : IsMedia(s.media[i])

\* A sequence with another last element, and with one more.
WithLast(q, e) == [q EXCEPT ![Len(q)] = e]
LEMMA SetLast ==
  ASSUME NEW q, IsSeq(q), q # << >>, NEW e
  PROVE  LET r == WithLast(q, e)
         IN /\ IsSeq(r) /\ Len(r) = Len(q) /\ Len(q) \in Nat /\ Len(q) > 0
            /\ r[Len(q)] = e
            /\ \A i \in 1 .. Len(q) - 1 : r[i] = q[i]
<1>0. PICK r : r = [q EXCEPT ![Len(q)] = e]
  OBVIOUS
<1> DEFINE T == {q[i] : i \in DOMAIN q} \cup {e}
<1>1. PICK n \in Nat : n = Len(q) /\ q \in [1 .. n -> T] /\ DOMAIN q = 1 .. n /\ n > 0
  BY EmptySeq, LenProperties DEF IsSeq
<1>2. r \in [1 .. n -> T] /\ DOMAIN r = 1 .. n
  BY <1>0, <1>1
<1>3. r[n] = e /\ \A i \in 1 .. n - 1 : r[i] = q[i]
  BY <1>0, <1>1
<1>4. r \in [1 .. n -> {r[i] : i \in DOMAIN r}]
  BY <1>2
<1>5. r \in Seq({r[i] : i \in DOMAIN r})
  BY ONLY n \in Nat, <1>2, <1>4
<1>6. Len(r) = n
  BY <1>2, <1>5, LenProperties
<1> QED BY <1>0, <1>1, <1>3, <1>5, <1>6 DEF IsSeq, WithLast

LEMMA OneMore ==
  ASSUME NEW q, IsSeq(q), NEW e
  PROVE  LET r == Append(q, e)
         IN /\ IsSeq(r) /\ Len(r) = Len(q) + 1 /\ Len(q) \in Nat
            /\ r[Len(q) + 1] = e
            /\ \A i \in 1 .. Len(q) : r[i] = q[i]
<1> DEFINE r == Append(q, e)
           T == {q[i] : i \in DOMAIN q} \cup {e}
<1>1. q \in Seq(T) /\ Len(q) \in Nat
  BY SeqMonotonic, LenProperties DEF IsSeq
<1>2. /\ r \in Seq(T) /\ Len(r) = Len(q) + 1 /\ r[Len(q) + 1] = e
      /\ \A i \in 1 .. Len(q) : r[i] = q[i]
  BY <1>1, AppendProperties
<1> HIDE DEF r
<1>3. r \in [1 .. Len(r) -> {r[i] : i \in DOMAIN r}]
  BY <1>2, LenProperties
<1>4. r \in Seq({r[i] : i \in DOMAIN r})
  <2>1. PICK n, R : n = Len(r) /\ R = {r[i] : i \in DOMAIN r}
    OBVIOUS
  <2>2. n \in Nat /\ r \in [1 .. n -> R]
    BY ONLY <1>1, <1>2, <1>3, <2>1
  <2>3. r \in Seq(R)
    BY ONLY <2>2
  <2> QED BY ONLY <2>1, <2>3
<1> QED BY <1>1, <1>2, <1>4 DEF r, IsSeq

\* The path of a URL is taken once, whatever the number of the media.
Numbered(m, k) == [m EXCEPT !.idx = k]
LEMMA PostIs ==
  ASSUME NEW m, IsMedia(m), NEW k
  PROVE  /\ IsMedia(PostMedia(m)) /\ IsMedia(Numbered(m, k))
         /\ PostMedia(m).idx = m.idx
         /\ PostMedia(PostMedia(m)) = PostMedia(m)
         /\ PostMedia(Numbered(m, k)) = Numbered(PostMedia(m), k)
<1> DEFINE x == SplitUrl(m.url).path
<1>1. /\ Numbered(m, k).path = m.path /\ Numbered(m, k).url = m.url
      /\ IsMedia(Numbered(m, k))
  BY DEF IsMedia, Numbered
<1>2. CASE m.path = << >> /\ m.url # << >>
  <2>1. PostMedia(m) = [m EXCEPT !.path = x]
    BY <1>2 DEF PostMedia
  <2>2. PostMedia(Numbered(m, k)) = [Numbered(m, k) EXCEPT !.path = x]
    BY <1>1, <1>2 DEF PostMedia
  <2> HIDE DEF x
  <2>3. /\ IsMedia(PostMedia(m)) /\ PostMedia(m).idx = m.idx /\ PostMedia(m).path = x
        /\ PostMedia(m).url = m.url
        /\ [PostMedia(m) EXCEPT !.path = x] = PostMedia(m)
    BY <2>1 DEF IsMedia
  <2>4. PostMedia(Numbered(m, k)) = Numbered(PostMedia(m), k)
    BY <2>1, <2>2 DEF IsMedia, Numbered
  <2>5. PostMedia(PostMedia(m)) = PostMedia(m)
    BY <2>3 DEF PostMedia, x
  <2> QED BY <1>1, <2>3, <2>4, <2>5
<1>3. CASE ~(m.path = << >> /\ m.url # << >>)
  <2>1. PostMedia(m) = m
    BY <1>3 DEF PostMedia
  <2>2. PostMedia(Numbered(m, k)) = Numbered(m, k)
    BY <1>1, <1>3 DEF PostMedia
  <2> QED BY <1>1, <2>1, <2>2
<1> QED BY <1>2, <1>3

-------------------------------------------------------------------------------
(* A description s with many media and one, a, with the last one alone       *)

Same(s, a) ==
  /\ s.ip = a.ip /\ s.ttl = a.ttl /\ s.url = a.url /\ s.skip = a.skip
  /\ ~s.skip => /\ InMedia(s) /\ InMedia(a)
                /\ Media(s) = Numbered(Media(a), Len(s.media) - 1)

\* A line takes s to r and a to b: their last media are still the same, and
\* nothing else of s is touched.
Follows(s, a, r, b) ==
  /\ IsSdp(r) /\ IsSdp(b) /\ Same(r, b)
  /\ r.ip = s.ip /\ r.ttl = s.ttl /\ r.url = s.url /\ r.skip = s.skip
  /\ Len(r.media) = Len(s.media) /\ Len(b.media) = Len(a.media)
  /\ \A i \in 1 .. Len(s.media) - 1 : r.media[i] = s.media[i]
  /\ s.skip => r = s /\ b = a

\* A line does nothing, or the same to both media.
Alike(s, a, r, b) ==
  \/ r = s /\ b = a
  \/ \E n : /\ IsMedia(n)
            /\ r = SetMedia(s, Numbered(n, Len(s.media) - 1))
            /\ b = SetMedia(a, n)

LEMMA LastIs ==
  ASSUME NEW s, IsSdp(s), InMedia(s)
  PROVE  IsMedia(Media(s)) /\ Len(s.media) \in Nat \ {0} /\ Len(s.media) \in 1 .. Len(s.media)
<1>1. Len(s.media) \in Nat \ {0}
  BY EmptySeq DEF IsSdp, IsSeq, InMedia
<1> QED BY <1>1 DEF IsSdp, Media

LEMMA SetMediaIs ==
  ASSUME NEW s, IsSdp(s), InMedia(s), NEW n, IsMedia(n)
  PROVE  LET r == SetMedia(s, n)
         IN /\ IsSdp(r) /\ InMedia(r) /\ Media(r) = n
            /\ r.ip = s.ip /\ r.ttl = s.ttl /\ r.url = s.url /\ r.skip = s.skip
            /\ Len(r.media) = Len(s.media)
            /\ \A i \in 1 .. Len(s.media) - 1 : r.media[i] = s.media[i]
<1> DEFINE q == [s.media EXCEPT ![Len(s.media)] = n]
           r == SetMedia(s, n)
<1>1. /\ r = [title |-> s.title, comment |-> s.comment, url |-> s.url, media |-> q,
              ip |-> s.ip, ttl |-> s.ttl, skip |-> s.skip]
  BY DEF SetMedia, IsSdp
<1>2. /\ IsSeq(q) /\ Len(q) = Len(s.media) /\ q[Len(q)] = n
      /\ Len(q) \in Nat /\ Len(q) > 0
      /\ \A i \in 1 .. Len(q) - 1 : q[i] = s.media[i]
  <2>1. IsSeq(s.media) /\ s.media # << >>
    BY DEF IsSdp, InMedia
  <2>2. q = WithLast(s.media, n)
    BY DEF WithLast
  <2> QED BY <2>1, <2>2, SetLast
<1> HIDE DEF q, r
<1>3. \A i \in 1 .. Len(q) : IsMedia(q[i])
  BY <1>2 DEF IsSdp
<1>4. q # << >>
  BY <1>2, EmptySeq
<1>5. r.media = q /\ r.skip = s.skip /\ r.ip = s.ip /\ r.ttl = s.ttl /\ r.url = s.url
      /\ r.title = s.title /\ r.comment = s.comment
  BY <1>1
<1>6. IsSdp(r)
  <2>1. s.skip \in BOOLEAN
    BY DEF IsSdp
  <2>2. r = [title |-> r.title, comment |-> r.comment, url |-> r.url, media |-> r.media,
             ip |-> r.ip, ttl |-> r.ttl, skip |-> r.skip]
    BY <1>1
  <2> QED BY <1>2, <1>3, <1>5, <2>1, <2>2 DEF IsSdp
<1>7. InMedia(r) /\ Media(r) = n
  BY <1>2, <1>4, <1>5 DEF InMedia, Media
<1> QED BY <1>2, <1>5, <1>6, <1>7 DEF r

LEMMA AlikeFollows ==
  ASSUME NEW s, NEW a, IsSdp(s), IsSdp(a), Same(s, a), ~s.skip,
         NEW r, NEW b, Alike(s, a, r, b)
  PROVE  Follows(s, a, r, b)
<1>1. CASE r = s /\ b = a
  BY <1>1 DEF Follows
<1>2. CASE ~(r = s /\ b = a)
  <2>1. PICK n : /\ IsMedia(n)
                 /\ r = SetMedia(s, Numbered(n, Len(s.media) - 1))
                 /\ b = SetMedia(a, n)
    BY <1>2 DEF Alike
  <2> DEFINE m == Numbered(n, Len(s.media) - 1)
  <2>2. IsMedia(m) /\ InMedia(s) /\ InMedia(a)
    BY <2>1, PostIs DEF Same
  <2> HIDE DEF m
  <2>3. r = SetMedia(s, m)
    BY <2>1 DEF m
  <2>4. /\ IsSdp(r) /\ InMedia(r) /\ Media(r) = m
        /\ r.ip = s.ip /\ r.ttl = s.ttl /\ r.url = s.url /\ r.skip = s.skip
        /\ Len(r.media) = Len(s.media)
        /\ \A i \in 1 .. Len(s.media) - 1 : r.media[i] = s.media[i]
    BY <2>2, <2>3, SetMediaIs
  <2>5. /\ IsSdp(b) /\ InMedia(b) /\ Media(b) = n
        /\ b.ip = a.ip /\ b.ttl = a.ttl /\ b.url = a.url /\ b.skip = a.skip
        /\ Len(b.media) = Len(a.media)
    BY <2>1, <2>2, SetMediaIs
  <2>6. Same(r, b)
    BY <2>4, <2>5 DEF Same, m
  <2> QED BY <2>4, <2>5, <2>6 DEF Follows
<1> QED BY <1>1, <1>2

\* What the lines that look at the last media see of it is the same.
LEMMA SameSeen ==
  ASSUME NEW s, NEW a, IsSdp(s), IsSdp(a), Same(s, a), ~s.skip
  PROVE  /\ InMedia(s) /\ InMedia(a) /\ IsMedia(Media(a))
         /\ Media(s) = Numbered(Media(a), Len(s.media) - 1)
         /\ \A payload : Concerns(s, payload) = Concerns(a, payload)
<1>1. /\ InMedia(s) /\ InMedia(a) /\ IsMedia(Media(a))
      /\ Media(s) = Numbered(Media(a), Len(s.media) - 1)
  BY LastIs DEF Same
<1>2. Media(s).payload = Media(a).payload
  BY <1>1 DEF IsMedia, Numbered
<1> QED BY <1>1, <1>2 DEF Concerns

LEMMA ConnAlike ==
  ASSUME NEW s, NEW a, IsSdp(s), IsSdp(a), Same(s, a), ~s.skip, NEW txt
  PROVE  Alike(s, a, ParseConn(s, txt), ParseConn(a, txt))
<1> PICK m : m = Media(a)
  OBVIOUS
<1> PICK k : k = Len(s.media) - 1
  OBVIOUS
<1>1. /\ InMedia(s) /\ InMedia(a) /\ IsMedia(m) /\ Media(s) = Numbered(m, k)
      /\ \A payload : Concerns(s, payload) = Concerns(a, payload)
  BY SameSeen
<1>0. IsMedia(m)
  BY <1>1
<1> PICK got : got = Take(txt, <<BLANK, BLANK, "/", "/">>).got
  OBVIOUS
<1> PICK x : x = got[3]
  OBVIOUS
<1> PICK z : z = 0
  OBVIOUS
<1> DEFINE n == [m EXCEPT !.ip = x, !.ttl = z]
<1>2. IsMedia(n) /\ [Numbered(m, k) EXCEPT !.ip = x, !.ttl = z] = Numbered(n, k)
  <2>1. IsMedia(n)
    <3> PICK o : o = [m EXCEPT !.ip = x]
      OBVIOUS
    <3>1. IsMedia(o)
      BY ONLY IsMedia(m), o = [m EXCEPT !.ip = x] DEF IsMedia
    <3>2. IsMedia([o EXCEPT !.ttl = z])
      BY ONLY IsMedia(o) DEF IsMedia
    <3> QED BY <3>2
  <2>2. [Numbered(m, k) EXCEPT !.ip = x, !.ttl = z] = Numbered(n, k)
    BY ONLY IsMedia(m) DEF IsMedia, Numbered, n
  <2> QED BY <2>1, <2>2
<1>3. CASE got[1] = <<"IN">> /\ got[2] = <<"IP4">> /\ got[3] # << >> /\ got[4] = << >>
  BY <1>1, <1>2, <1>3 DEF ParseConn, Alike
<1>4. CASE ~(got[1] = <<"IN">> /\ got[2] = <<"IP4">> /\ got[3] # << >> /\ got[4] = << >>)
  BY <1>4 DEF ParseConn, Alike
<1> QED BY <1>3, <1>4

LEMMA BitRateAlike ==
  ASSUME NEW s, NEW a, IsSdp(s), IsSdp(a), Same(s, a), ~s.skip, NEW txt
  PROVE  Alike(s, a, ParseBitRate(s, txt), ParseBitRate(a, txt))
<1> PICK m : m = Media(a)
  OBVIOUS
<1> PICK k : k = Len(s.media) - 1
  OBVIOUS
<1>1. /\ InMedia(s) /\ InMedia(a) /\ IsMedia(m) /\ Media(s) = Numbered(m, k)
      /\ \A payload : Concerns(s, payload) = Concerns(a, payload)
  BY SameSeen
<1>0. IsMedia(m)
  BY <1>1
<1> PICK kv : kv = Split(txt, ":")
  OBVIOUS
<1> PICK x : x = Thousand(Num(kv.val))
  OBVIOUS
<1> DEFINE n == [m EXCEPT !.bitRate = x]
<1>2. IsMedia(n) /\ [Numbered(m, k) EXCEPT !.bitRate = x] = Numbered(n, k)
  <2>1. IsMedia(n)
    BY ONLY IsMedia(m) DEF IsMedia, Numbered, n
  <2>2. [Numbered(m, k) EXCEPT !.bitRate = x] = Numbered(n, k)
    BY ONLY IsMedia(m) DEF IsMedia, Numbered, n
  <2> QED BY <2>1, <2>2
<1>3. CASE IsSplit(kv) /\ kv.key = <<"AS">>
  BY <1>1, <1>2, <1>3 DEF ParseBitRate, Alike
<1>4. CASE ~(IsSplit(kv) /\ kv.key = <<"AS">>)
  BY <1>4 DEF ParseBitRate, Alike
<1> QED BY <1>3, <1>4

LEMMA ControlAlike ==
  ASSUME NEW s, NEW a, IsSdp(s), IsSdp(a), Same(s, a), ~s.skip, NEW txt
  PROVE  Alike(s, a, ParseControl(s, txt), ParseControl(a, txt))
<1> PICK m : m = Media(a)
  OBVIOUS
<1> PICK k : k = Len(s.media) - 1
  OBVIOUS
<1>1. /\ InMedia(s) /\ InMedia(a) /\ IsMedia(m) /\ Media(s) = Numbered(m, k)
      /\ \A payload : Concerns(s, payload) = Concerns(a, payload)
  BY SameSeen
<1>0. IsMedia(m)
  BY <1>1
<1> PICK url : url = SplitUrl(txt)
  OBVIOUS
<1> PICK x : x = url.path
  OBVIOUS
<1> DEFINE n == [m EXCEPT !.url = txt]
           o == [m EXCEPT !.path = x]
<1>2. /\ IsMedia(n) /\ [Numbered(m, k) EXCEPT !.url = txt] = Numbered(n, k)
      /\ IsMedia(o) /\ [Numbered(m, k) EXCEPT !.path = x] = Numbered(o, k)
  <2>1. IsMedia(n)
    BY ONLY IsMedia(m) DEF IsMedia, Numbered, n, o
  <2>2. [Numbered(m, k) EXCEPT !.url = txt] = Numbered(n, k)
    BY ONLY IsMedia(m) DEF IsMedia, Numbered, n, o
  <2>3. IsMedia(o)
    BY ONLY IsMedia(m) DEF IsMedia, Numbered, n, o
  <2>4. [Numbered(m, k) EXCEPT !.path = x] = Numbered(o, k)
    BY ONLY IsMedia(m) DEF IsMedia, Numbered, n, o
  <2> QED BY <2>1, <2>2, <2>3, <2>4
<1>3. CASE url.schema # << >>
  BY <1>1, <1>2, <1>3 DEF ParseControl, Alike
<1>4. CASE url.schema = << >>
  BY <1>1, <1>2, <1>4 DEF ParseControl, Alike
<1> QED BY <1>3, <1>4

\* The rates do not depend on the number of the media.
LEMMA RatedIs ==
  ASSUME NEW m, IsMedia(m), NEW k, NEW rate, NEW channels
  PROVE  /\ IsMedia(Rated(m, rate, channels))
         /\ Rated(Numbered(m, k), rate, channels) = Numbered(Rated(m, rate, channels), k)
<1> PICK c : c = OrDefault(IF IsNum(rate) THEN channels ELSE << >>, DEFAULT_CHANNELS)
  OBVIOUS
<1>1. /\ IsMedia(Numbered(m, k)) /\ Numbered(m, k).type = m.type
      /\ Numbered(m, k).rate = m.rate
  BY DEF IsMedia, Numbered
<1>2. CASE m.type = <<"audio">>
  <2> PICK r : r = OrDefault(rate, DEFAULT_SAMPLERATE)
    OBVIOUS
  <2>1. /\ Rated(m, rate, channels) = [m EXCEPT !.rate = r, !.channels = c]
        /\ Rated(Numbered(m, k), rate, channels)
             = [Numbered(m, k) EXCEPT !.rate = r, !.channels = c]
    BY <1>1, <1>2 DEF Rated
  <2> DEFINE n == [m EXCEPT !.rate = r, !.channels = c]
  <2>2. IsMedia(n)
    <3> PICK o : o = [m EXCEPT !.rate = r]
      OBVIOUS
    <3>1. IsMedia(o)
      BY ONLY IsMedia(m), o = [m EXCEPT !.rate = r] DEF IsMedia
    <3>2. IsMedia([o EXCEPT !.channels = c])
      BY ONLY IsMedia(o) DEF IsMedia
    <3> QED BY <3>2
  <2>3. [Numbered(m, k) EXCEPT !.rate = r, !.channels = c] = Numbered(n, k)
    BY ONLY IsMedia(m) DEF IsMedia, Numbered, n
  <2> QED BY <2>1, <2>2, <2>3
<1>3. CASE m.type # <<"audio">> /\ m.type = <<"video">>
  <2> PICK r : r = OrDefault(rate, m.rate)
    OBVIOUS
  <2>1. /\ Rated(m, rate, channels) = [m EXCEPT !.rate = r]
        /\ Rated(Numbered(m, k), rate, channels) = [Numbered(m, k) EXCEPT !.rate = r]
    BY <1>1, <1>3 DEF Rated
  <2>2. IsMedia([m EXCEPT !.rate = r])
    BY ONLY IsMedia(m) DEF IsMedia
  <2>3. [Numbered(m, k) EXCEPT !.rate = r] = Numbered([m EXCEPT !.rate = r], k)
    BY ONLY IsMedia(m) DEF IsMedia, Numbered
  <2> QED BY <2>1, <2>2, <2>3
<1>4. CASE m.type # <<"audio">> /\ m.type # <<"video">>
  BY <1>1, <1>4 DEF Rated
<1> QED BY <1>2, <1>3, <1>4

LEMMA RtpmapAlike ==
  ASSUME NEW s, NEW a, IsSdp(s), IsSdp(a), Same(s, a), ~s.skip, NEW txt
  PROVE  Alike(s, a, ParseRtpmap(s, txt), ParseRtpmap(a, txt))
<1> PICK m : m = Media(a)
  OBVIOUS
<1> PICK k : k = Len(s.media) - 1
  OBVIOUS
<1>1. /\ InMedia(s) /\ InMedia(a) /\ IsMedia(m) /\ Media(s) = Numbered(m, k)
      /\ \A payload : Concerns(s, payload) = Concerns(a, payload)
  BY SameSeen
<1>0. IsMedia(m)
  BY <1>1
<1> PICK got : got = Take(txt, <<BLANK, "/", "/", "/">>).got
  OBVIOUS
<1> PICK x : x = got[2]
  OBVIOUS
<1> PICK rate : rate = got[3]
  OBVIOUS
<1> PICK channels : channels = got[4]
  OBVIOUS
<1> PICK o : o = [m EXCEPT !.name = x]
  OBVIOUS
<1> DEFINE n == Rated(o, rate, channels)
<1>2. IsMedia(o) /\ [Numbered(m, k) EXCEPT !.name = x] = Numbered(o, k)
  <2>1. IsMedia(o)
    BY ONLY IsMedia(m), o = [m EXCEPT !.name = x] DEF IsMedia
  <2>2. [Numbered(m, k) EXCEPT !.name = x] = Numbered(o, k)
    BY ONLY IsMedia(m), o = [m EXCEPT !.name = x] DEF IsMedia, Numbered
  <2> QED BY <2>1, <2>2
<1>3. IsMedia(n) /\ Rated([Numbered(m, k) EXCEPT !.name = x], rate, channels) = Numbered(n, k)
  <2>1. IsMedia(n) /\ Rated(Numbered(o, k), rate, channels) = Numbered(n, k)
    <3>1. IsMedia(o)
      BY <1>2
    <3> QED BY ONLY <3>1, RatedIs
  <2> QED BY <1>2, <2>1
<1>4. CASE Concerns(s, got[1]) /\ got[2] # << >>
  <2>1. ParseRtpmap(s, txt) = SetMedia(s, Numbered(n, k))
    BY <1>1, <1>3, <1>4 DEF ParseRtpmap
  <2>2. ParseRtpmap(a, txt) = SetMedia(a, n)
    BY <1>1, <1>4 DEF ParseRtpmap
  <2> QED BY <1>3, <2>1, <2>2 DEF Alike
<1>5. CASE ~(Concerns(s, got[1]) /\ got[2] # << >>)
  BY <1>1, <1>5 DEF ParseRtpmap, Alike
<1> QED BY <1>4, <1>5

LEMMA FmtpAlike ==
  ASSUME NEW s, NEW a, IsSdp(s), IsSdp(a), Same(s, a), ~s.skip, NEW txt
  PROVE  Alike(s, a, ParseFmtp(s, txt), ParseFmtp(a, txt))
<1> PICK m : m = Media(a)
  OBVIOUS
<1> PICK k : k = Len(s.media) - 1
  OBVIOUS
<1>1. /\ InMedia(s) /\ InMedia(a) /\ IsMedia(m) /\ Media(s) = Numbered(m, k)
      /\ \A payload : Concerns(s, payload) = Concerns(a, payload)
  BY SameSeen
<1>0. IsMedia(m)
  BY <1>1
<1> PICK payload : payload = Take(txt, <<BLANK>>)
  OBVIOUS
<1> PICK x : x = m.config \o Config(payload.rest)
  OBVIOUS
<1> DEFINE n == [m EXCEPT !.config = x]
<1>2. /\ IsMedia(n) /\ [Numbered(m, k) EXCEPT !.config = x] = Numbered(n, k)
      /\ Numbered(m, k).config = m.config
  <2>1. IsMedia(n)
    BY ONLY IsMedia(m) DEF IsMedia, Numbered, n
  <2>2. [Numbered(m, k) EXCEPT !.config = x] = Numbered(n, k)
    BY ONLY IsMedia(m) DEF IsMedia, Numbered, n
  <2>3. Numbered(m, k).config = m.config
    BY ONLY IsMedia(m) DEF IsMedia, Numbered, n
  <2> QED BY <2>1, <2>2, <2>3
<1>3. CASE Concerns(s, payload.got[1])
  <2>1. ParseFmtp(s, txt) = SetMedia(s, Numbered(n, k))
    BY <1>1, <1>2, <1>3 DEF ParseFmtp
  <2>2. ParseFmtp(a, txt) = SetMedia(a, n)
    BY <1>1, <1>3 DEF ParseFmtp
  <2> QED BY <1>2, <2>1, <2>2 DEF Alike
<1>4. CASE ~Concerns(s, payload.got[1])
  BY <1>1, <1>4 DEF ParseFmtp, Alike
<1> QED BY <1>3, <1>4

LEMMA FrameSizeAlike ==
  ASSUME NEW s, NEW a, IsSdp(s), IsSdp(a), Same(s, a), ~s.skip, NEW txt
  PROVE  Alike(s, a, ParseFrameSize(s, txt), ParseFrameSize(a, txt))
<1> PICK m : m = Media(a)
  OBVIOUS
<1> PICK k : k = Len(s.media) - 1
  OBVIOUS
<1>1. /\ InMedia(s) /\ InMedia(a) /\ IsMedia(m) /\ Media(s) = Numbered(m, k)
      /\ \A payload : Concerns(s, payload) = Concerns(a, payload)
  BY SameSeen
<1>0. IsMedia(m)
  BY <1>1
<1> PICK got : got = Take(txt, <<BLANK, "-", "-">>).got
  OBVIOUS
<1> PICK w : w = Num(got[2])
  OBVIOUS
<1> PICK h : h = IF IsNum(got[2]) THEN Num(got[3]) ELSE m.height
  OBVIOUS
<1> DEFINE n == [m EXCEPT !.width = w, !.height = h]
<1>2. Media(s).height = m.height
  BY <1>1 DEF IsMedia, Numbered
<1>3. IsMedia(n) /\ [Numbered(m, k) EXCEPT !.width = w, !.height = h] = Numbered(n, k)
  <2>1. IsMedia(n)
    <3> PICK o : o = [m EXCEPT !.width = w]
      OBVIOUS
    <3>1. IsMedia(o)
      BY ONLY IsMedia(m), o = [m EXCEPT !.width = w] DEF IsMedia
    <3>2. IsMedia([o EXCEPT !.height = h])
      BY ONLY IsMedia(o) DEF IsMedia
    <3> QED BY <3>2
  <2>2. [Numbered(m, k) EXCEPT !.width = w, !.height = h] = Numbered(n, k)
    BY ONLY IsMedia(m) DEF IsMedia, Numbered, n
  <2> QED BY <2>1, <2>2
<1>4. CASE Concerns(s, got[1])
  <2>1. ParseFrameSize(s, txt) = SetMedia(s, [Numbered(m, k) EXCEPT !.width = w, !.height = h])
    BY <1>1, <1>2, <1>4 DEF ParseFrameSize
  <2>2. ParseFrameSize(a, txt) = SetMedia(a, n)
    BY <1>1, <1>4 DEF ParseFrameSize
  <2> QED BY <1>3, <2>1, <2>2 DEF Alike
<1>5. CASE ~Concerns(s, got[1])
  BY <1>1, <1>5 DEF ParseFrameSize, Alike
<1> QED BY <1>4, <1>5

LEMMA AttrAlike ==
  ASSUME NEW s, NEW a, IsSdp(s), IsSdp(a), Same(s, a), ~s.skip, NEW txt
  PROVE  Alike(s, a, ParseAttr(s, txt), ParseAttr(a, txt))
<1> PICK kv : kv = Split(txt, ":")
  OBVIOUS
<1>1. CASE ~IsSplit(kv)
  <2>1. ParseAttr(s, txt) = s /\ ParseAttr(a, txt) = a
    BY <1>1 DEF ParseAttr
  <2> QED BY <2>1 DEF Alike
<1>2. CASE IsSplit(kv) /\ kv.key = <<"control">>
  <2>1. ParseAttr(s, txt) = ParseControl(s, kv.val) /\ ParseAttr(a, txt) = ParseControl(a, kv.val)
    BY <1>2 DEF ParseAttr
  <2> QED BY <2>1, ControlAlike
<1>3. CASE IsSplit(kv) /\ kv.key = <<"rtpmap">>
  <2>1. ParseAttr(s, txt) = ParseRtpmap(s, kv.val) /\ ParseAttr(a, txt) = ParseRtpmap(a, kv.val)
    BY <1>3 DEF ParseAttr
  <2> QED BY <2>1, RtpmapAlike
<1>4. CASE IsSplit(kv) /\ kv.key = <<"fmtp">>
  <2>1. ParseAttr(s, txt) = ParseFmtp(s, kv.val) /\ ParseAttr(a, txt) = ParseFmtp(a, kv.val)
    BY <1>4 DEF ParseAttr
  <2> QED BY <2>1, FmtpAlike
<1>5. CASE IsSplit(kv) /\ kv.key = <<"framesize">>
  <2>1. /\ ParseAttr(s, txt) = ParseFrameSize(s, kv.val)
        /\ ParseAttr(a, txt) = ParseFrameSize(a, kv.val)
    BY <1>5 DEF ParseAttr
  <2> QED BY <2>1, FrameSizeAlike
<1>6. CASE IsSplit(kv) /\ kv.key \notin {<<"control">>, <<"rtpmap">>, <<"fmtp">>, <<"framesize">>}
  BY <1>6 DEF ParseAttr, Alike
<1> QED BY <1>1, <1>2, <1>3, <1>4, <1>5, <1>6

\* The title and the comment have nothing to do with the media.
LEMMA TextFollows ==
  ASSUME NEW s, NEW a, IsSdp(s), IsSdp(a), Same(s, a), ~s.skip, NEW txt
  PROVE  /\ Follows(s, a, ParseTitle(s, txt), ParseTitle(a, txt))
         /\ Follows(s, a, ParseDesc(s, txt), ParseDesc(a, txt))
<1>1. ASSUME NEW x, IsSdp(x)
      PROVE  /\ IsSdp(ParseTitle(x, txt)) /\ IsSdp(ParseDesc(x, txt))
             /\ \A r \in {ParseTitle(x, txt), ParseDesc(x, txt)} :
                  /\ r.ip = x.ip /\ r.ttl = x.ttl /\ r.url = x.url /\ r.skip = x.skip
                  /\ r.media = x.media
  <2>1. /\ ParseTitle(x, txt) = [title |-> txt, comment |-> x.comment, url |-> x.url,
             media |-> x.media, ip |-> x.ip, ttl |-> x.ttl, skip |-> x.skip]
        /\ ParseDesc(x, txt) = [title |-> x.title, comment |-> txt, url |-> x.url,
             media |-> x.media, ip |-> x.ip, ttl |-> x.ttl, skip |-> x.skip]
    BY <1>1 DEF ParseTitle, ParseDesc, IsSdp
  <2>2. x.skip \in BOOLEAN /\ IsSeq(x.media) /\ \A i \in 1 .. Len(x.media) : IsMedia(x.media[i])
    BY <1>1 DEF IsSdp
  <2>3. IsSdp(ParseTitle(x, txt))
    BY <2>1, <2>2 DEF IsSdp
  <2>4. IsSdp(ParseDesc(x, txt))
    BY <2>1, <2>2 DEF IsSdp
  <2> QED BY <2>1, <2>3, <2>4
<1>2. ASSUME NEW r, NEW b, IsSdp(r), IsSdp(b), r.media = s.media, b.media = a.media,
             r.ip = s.ip, r.ttl = s.ttl, r.url = s.url, r.skip = s.skip,
             b.ip = a.ip, b.ttl = a.ttl, b.url = a.url, b.skip = a.skip
      PROVE  Follows(s, a, r, b)
  <2>1. Same(r, b)
    BY <1>2 DEF Same, InMedia, Media
  <2> QED BY <1>2, <2>1 DEF Follows
<1>3. \A x : IsSdp(x) => /\ IsSdp(ParseTitle(x, txt)) /\ IsSdp(ParseDesc(x, txt))
             /\ \A r \in {ParseTitle(x, txt), ParseDesc(x, txt)} :
                  /\ r.ip = x.ip /\ r.ttl = x.ttl /\ r.url = x.url /\ r.skip = x.skip
                  /\ r.media = x.media
  BY <1>1
<1> QED BY <1>2, <1>3

LEMMA LineFollows ==
  ASSUME NEW s, NEW a, IsSdp(s), IsSdp(a), Same(s, a), NEW line, line.letter # "m"
  PROVE  Follows(s, a, ParseSdpLine(s, line), ParseSdpLine(a, line))
<1> DEFINE r == ParseSdpLine(s, line)
           b == ParseSdpLine(a, line)
<1>0. s.skip \in BOOLEAN /\ a.skip = s.skip
  BY DEF IsSdp, Same
<1>1. CASE s.skip
  <2>1. r = s /\ b = a
    BY <1>0, <1>1 DEF ParseSdpLine, Skipped
  <2> QED BY <2>1 DEF Follows
<1>2. CASE ~s.skip
  <2>0. ~Skipped(s, line.letter) /\ ~Skipped(a, line.letter)
    BY <1>0, <1>2 DEF Skipped
  <2>1. CASE line.letter = "c"
    <3>1. r = ParseConn(s, line.val) /\ b = ParseConn(a, line.val)
      BY <2>0, <2>1 DEF ParseSdpLine
    <3> QED BY <1>2, <3>1, ConnAlike, AlikeFollows
  <2>2. CASE line.letter = "a"
    <3>1. r = ParseAttr(s, line.val) /\ b = ParseAttr(a, line.val)
      BY <2>0, <2>2 DEF ParseSdpLine
    <3> QED BY <1>2, <3>1, AttrAlike, AlikeFollows
  <2>3. CASE line.letter = "b"
    <3>1. r = ParseBitRate(s, line.val) /\ b = ParseBitRate(a, line.val)
      BY <2>0, <2>3 DEF ParseSdpLine
    <3> QED BY <1>2, <3>1, BitRateAlike, AlikeFollows
  <2>4. CASE line.letter = "s"
    <3>1. r = ParseTitle(s, line.val) /\ b = ParseTitle(a, line.val)
      BY <2>0, <2>4 DEF ParseSdpLine
    <3> QED BY <1>2, <3>1, TextFollows
  <2>5. CASE line.letter = "i"
    <3>1. r = ParseDesc(s, line.val) /\ b = ParseDesc(a, line.val)
      BY <2>0, <2>5 DEF ParseSdpLine
    <3> QED BY <1>2, <3>1, TextFollows
  <2>6. CASE line.letter \notin {"m", "c", "a", "b", "s", "i"}
    <3>1. r = s /\ b = a
      BY <2>0, <2>6 DEF ParseSdpLine
    <3> QED BY <3>1 DEF Follows
  <2> QED BY <2>1, <2>2, <2>3, <2>4, <2>5, <2>6
<1> QED BY <1>1, <1>2

\* In front of the first media there is no media, and nothing is skipped.
IsSession(s) == IsSdp(s) /\ s.media = << >> /\ ~s.skip

LEMMA EmptyIsSession == IsSession(EmptySdp)
<1>1. IsSeq(<< >>) /\ Len(<< >>) = 0
  BY EmptySeq DEF IsSeq
<1> QED BY <1>1 DEF IsSession, IsSdp, EmptySdp

LEMMA SessionLine ==
  ASSUME NEW s, IsSession(s), NEW line, line.letter # "m"
  PROVE  IsSession(ParseSdpLine(s, line))
<1>0. ~Skipped(s, line.letter) /\ ~InMedia(s)
  BY DEF Skipped, IsSession, InMedia
<1>1. IsSeq(<< >>) /\ Len(<< >>) = 0
  BY EmptySeq DEF IsSeq
<1> PICK no : no = FALSE
  OBVIOUS
<1> DEFINE R(t1, t2, t3, t4, t5) == [title |-> t1, comment |-> t2, url |-> t3, media |-> << >>,
                                     ip |-> t4, ttl |-> t5, skip |-> no]
<1>2. ASSUME NEW x1, NEW x2, NEW x3, NEW x4, NEW x5 PROVE IsSession(R(x1, x2, x3, x4, x5))
  BY <1>1 DEF IsSession, IsSdp
<1>3. PICK t1, t2, t3, t4, t5 : s = R(t1, t2, t3, t4, t5)
  <2>1. s.skip = no /\ s.media = << >>
    BY DEF IsSession, IsSdp
  <2>2. s = R(s.title, s.comment, s.url, s.ip, s.ttl)
    BY <2>1 DEF IsSession, IsSdp
  <2> QED BY <2>2
<1>9. \A x1, x2, x3, x4, x5 : IsSession(R(x1, x2, x3, x4, x5))
  BY <1>2
<1> PICK v : v = line.val
  OBVIOUS
<1>4. IsSession(ParseConn(s, v))
  <2> PICK got : got = Take(v, <<BLANK, BLANK, "/", "/">>).got
    OBVIOUS
  <2> PICK z : z = 0
    OBVIOUS
  <2> PICK x : x = got[3]
    OBVIOUS
  <2>1. ParseConn(s, v) = s \/ ParseConn(s, v) = [s EXCEPT !.ip = x, !.ttl = z]
    BY <1>0 DEF ParseConn
  <2>2. [s EXCEPT !.ip = x, !.ttl = z] = R(t1, t2, t3, x, z)
    <3> PICK o : o = [s EXCEPT !.ip = x]
      OBVIOUS
    <3>1. o = R(t1, t2, t3, x, t5)
      BY ONLY s = R(t1, t2, t3, t4, t5), o = [s EXCEPT !.ip = x] DEF R
    <3>2. [o EXCEPT !.ttl = z] = R(t1, t2, t3, x, z)
      BY ONLY o = R(t1, t2, t3, x, t5) DEF R
    <3> QED BY <3>2
  <2>3. IsSession(s) /\ IsSession(R(t1, t2, t3, x, z))
    BY <1>2
  <2> QED BY <2>1, <2>2, <2>3
<1>5. ParseBitRate(s, v) = s
  BY <1>0 DEF ParseBitRate
<1>6. IsSession(ParseAttr(s, v))
  <2> PICK kv : kv = Split(v, ":")
    OBVIOUS
  <2>1. /\ ParseControl(s, kv.val) = s \/ ParseControl(s, kv.val) = [s EXCEPT !.url = kv.val]
        /\ ParseRtpmap(s, kv.val) = s /\ ParseFmtp(s, kv.val) = s
        /\ ParseFrameSize(s, kv.val) = s
    BY <1>0 DEF ParseControl, ParseRtpmap, ParseFmtp, ParseFrameSize, Concerns
  <2>2. ParseAttr(s, v) \in {s, ParseControl(s, kv.val), ParseRtpmap(s, kv.val),
                            ParseFmtp(s, kv.val), ParseFrameSize(s, kv.val)}
    BY DEF ParseAttr
  <2>3. [s EXCEPT !.url = kv.val] = R(t1, t2, kv.val, t4, t5)
    BY ONLY s = R(t1, t2, t3, t4, t5) DEF R
  <2> HIDE DEF R
  <2> QED BY <1>9, <2>1, <2>2, <2>3
<1>7. ParseSdpLine(s, line) \in {s, ParseConn(s, v), ParseAttr(s, v), ParseBitRate(s, v),
                                ParseTitle(s, v), ParseDesc(s, v)}
  BY <1>0 DEF ParseSdpLine
<1>8. IsSession(ParseTitle(s, v)) /\ IsSession(ParseDesc(s, v))
  <2>1. /\ ParseTitle(s, v) = R(v, t2, t3, t4, t5)
        /\ ParseDesc(s, v) = R(t1, v, t3, t4, t5)
    BY ONLY s = R(t1, t2, t3, t4, t5) DEF R, ParseTitle, ParseDesc
  <2> HIDE DEF R
  <2> QED BY <1>9, <2>1
<1> QED BY <1>4, <1>5, <1>6, <1>7, <1>8

\* The last media of a description is complete when the next one begins.
Completed(s) == IF InMedia(s) THEN SetMedia(s, PostMedia(Media(s))) ELSE s

LEMMA CompletedIs ==
  ASSUME NEW s, IsSdp(s)
  PROVE  LET p == Completed(s)
         IN /\ IsSdp(p) /\ p.ip = s.ip /\ p.ttl = s.ttl /\ p.url = s.url
            /\ Len(s.media) \in Nat /\ Len(p.media) = Len(s.media)
            /\ \A i \in 1 .. Len(s.media) :
                 p.media[i] = IF i = Len(s.media) THEN PostMedia(s.media[i]) ELSE s.media[i]
<1>1. CASE InMedia(s)
  <2>1. IsMedia(Media(s)) /\ Len(s.media) \in Nat \ {0}
    BY <1>1, LastIs
  <2>2. PICK n : n = PostMedia(Media(s)) /\ IsMedia(n)
    BY <2>1, PostIs
  <2>3. Completed(s) = SetMedia(s, n)
    BY <1>1, <2>2 DEF Completed
  <2>4. LET p == SetMedia(s, n)
        IN /\ IsSdp(p) /\ InMedia(p) /\ Media(p) = n
           /\ p.ip = s.ip /\ p.ttl = s.ttl /\ p.url = s.url
           /\ Len(p.media) = Len(s.media)
           /\ \A i \in 1 .. Len(s.media) - 1 : p.media[i] = s.media[i]
    BY <1>1, <2>2, SetMediaIs
  <2> QED BY <2>1, <2>2, <2>3, <2>4 DEF Media
<1>2. CASE ~InMedia(s)
  <2>1. Completed(s) = s /\ Len(s.media) = 0
    BY <1>2, EmptySeq DEF Completed, InMedia
  <2> QED BY <2>1
<1> QED BY <1>1, <1>2

\* A media that is refused: what follows is skipped.
Skipping(p) == [p EXCEPT !.skip = TRUE]
LEMMA SkipIs ==
  ASSUME NEW p, IsSdp(p)
  PROVE  LET r == Skipping(p)
         IN /\ IsSdp(r) /\ r.skip
            /\ r.ip = p.ip /\ r.ttl = p.ttl /\ r.url = p.url /\ r.media = p.media
<1> PICK yes : yes = TRUE
  OBVIOUS
<1> PICK r : r = [p EXCEPT !.skip = yes]
  OBVIOUS
<1>1. r = [title |-> p.title, comment |-> p.comment, url |-> p.url, media |-> p.media,
           ip |-> p.ip, ttl |-> p.ttl, skip |-> yes]
  BY DEF IsSdp
<1>2. IsSeq(p.media) /\ \A i \in 1 .. Len(p.media) : IsMedia(p.media[i])
  BY DEF IsSdp
<1>3. IsSdp(r)
  BY <1>1, <1>2 DEF IsSdp
<1> QED BY <1>1, <1>3 DEF Skipping

\* A media that is accepted, behind the others.
Joined(p, m) == [p EXCEPT !.media = Append(@, m), !.skip = FALSE]
LEMMA NewIs ==
  ASSUME NEW p, IsSdp(p), NEW m, IsMedia(m)
  PROVE  LET r == Joined(p, m)
         IN /\ IsSdp(r) /\ ~r.skip
            /\ r.ip = p.ip /\ r.ttl = p.ttl /\ r.url = p.url
            /\ Len(p.media) \in Nat /\ Len(r.media) = Len(p.media) + 1
            /\ InMedia(r) /\ Media(r) = m
            /\ \A i \in 1 .. Len(p.media) : r.media[i] = p.media[i]
<1> PICK no : no = FALSE
  OBVIOUS
<1> PICK q : q = Append(p.media, m)
  OBVIOUS
<1> PICK r : r = [p EXCEPT !.media = Append(@, m), !.skip = no]
  OBVIOUS
<1>1. r = [title |-> p.title, comment |-> p.comment, url |-> p.url, media |-> q,
           ip |-> p.ip, ttl |-> p.ttl, skip |-> no]
  BY DEF IsSdp
<1>2. IsSeq(p.media) /\ \A i \in 1 .. Len(p.media) : IsMedia(p.media[i])
  BY DEF IsSdp
<1>3. /\ IsSeq(q) /\ Len(q) = Len(p.media) + 1 /\ Len(p.media) \in Nat
      /\ q[Len(p.media) + 1] = m
      /\ \A i \in 1 .. Len(p.media) : q[i] = p.media[i]
  BY <1>2, OneMore
<1>4. \A i \in 1 .. Len(q) : IsMedia(q[i])
  BY <1>2, <1>3
<1>5. IsSdp(r)
  BY <1>1, <1>3, <1>4 DEF IsSdp
<1>6. q # << >>
  BY <1>3, EmptySeq
<1>7. InMedia(r) /\ Media(r) = m
  BY <1>1, <1>3, <1>6 DEF InMedia, Media
<1> QED BY <1>1, <1>3, <1>5, <1>7 DEF Joined

LEMMA HeadIs ==
  ASSUME NEW s, IsSdp(s), NEW a, IsSession(a), s.ip = a.ip, s.ttl = a.ttl, s.url = a.url,
         NEW line, line.letter = "m"
  PROVE  LET r == ParseSdpLine(s, line)
             b == ParseSdpLine(a, line)
         IN /\ IsSdp(r) /\ IsSdp(b) /\ Same(r, b)
            /\ r.ip = s.ip /\ r.ttl = s.ttl /\ r.url = s.url
            /\ Len(s.media) \in Nat
            /\ \A i \in 1 .. Len(s.media) :
                 r.media[i] = IF i = Len(s.media) THEN PostMedia(s.media[i]) ELSE s.media[i]
            /\ \/ r.skip /\ Len(r.media) = Len(s.media) /\ Len(b.media) = 0
               \/ ~r.skip /\ Len(r.media) = Len(s.media) + 1 /\ Len(b.media) = 1
<1> PICK got : got = Take(line.val, <<BLANK, BLANK, BLANK, BLANK>>).got
  OBVIOUS
<1> PICK r : r = ParseSdpLine(s, line)
  OBVIOUS
<1> PICK b : b = ParseSdpLine(a, line)
  OBVIOUS
<1> PICK p : p = Completed(s)
  OBVIOUS
<1>1. r = ParseMedia(s, line.val) /\ b = ParseMedia(a, line.val)
  BY DEF ParseSdpLine, Skipped
<1>2. /\ IsSdp(p) /\ p.ip = s.ip /\ p.ttl = s.ttl /\ p.url = s.url
      /\ Len(s.media) \in Nat /\ Len(p.media) = Len(s.media)
      /\ \A i \in 1 .. Len(s.media) :
           p.media[i] = IF i = Len(s.media) THEN PostMedia(s.media[i]) ELSE s.media[i]
  BY CompletedIs
<1>3. IsSdp(a) /\ Completed(a) = a /\ Len(a.media) = 0
  BY EmptySeq DEF IsSession, Completed, InMedia
<1>4. CASE Refused(got)
  <2>1. r = Skipping(p) /\ b = Skipping(a)
    BY <1>1, <1>3, <1>4 DEF ParseMedia, Completed, Skipping
  <2>2. /\ IsSdp(r) /\ r.skip
        /\ r.ip = p.ip /\ r.ttl = p.ttl /\ r.url = p.url /\ r.media = p.media
    BY <1>2, <2>1, SkipIs
  <2>3. /\ IsSdp(b) /\ b.skip
        /\ b.ip = a.ip /\ b.ttl = a.ttl /\ b.url = a.url /\ b.media = a.media
    BY <1>3, <2>1, SkipIs
  <2>4. Same(r, b)
    <3>1. r.skip = b.skip
      BY <2>2, <2>3 DEF IsSdp
    <3> QED BY <1>2, <2>2, <2>3, <3>1 DEF Same
  <2> QED BY <1>2, <1>3, <2>2, <2>3, <2>4
<1>5. CASE ~Refused(got)
  <2> PICK ms : ms = NewMedia(s, got[1], Num(got[2]), Num(got[4]))
    OBVIOUS
  <2> PICK ma : ma = NewMedia(a, got[1], Num(got[2]), Num(got[4]))
    OBVIOUS
  <2>1. r = Joined(p, ms) /\ b = Joined(a, ma)
    BY <1>1, <1>3, <1>5 DEF ParseMedia, Completed, Joined
  <2>2. IsMedia(ms) /\ IsMedia(ma) /\ ms = Numbered(ma, Len(s.media))
    <3> PICK t1 : t1 = got[1]
      OBVIOUS
    <3> PICK t2 : t2 = Num(got[2])
      OBVIOUS
    <3> PICK t3 : t3 = Num(got[4])
      OBVIOUS
    <3> PICK e : e = << >>
      OBVIOUS
    <3> PICK z : z = 0
      OBVIOUS
    <3> PICK k : k = Len(s.media)
      OBVIOUS
    <3> PICK l : l = Len(a.media)
      OBVIOUS
    <3> PICK t4 : t4 = a.ip
      OBVIOUS
    <3> PICK t5 : t5 = a.ttl
      OBVIOUS
    <3> PICK t6 : t6 = a.url
      OBVIOUS
    <3> DEFINE M(i) ==
          [type |-> t1, port |-> t2, payload |-> t3, ip |-> t4, ttl |-> t5,
           url |-> t6, path |-> e, idx |-> i, name |-> e, rate |-> z,
           channels |-> z, bitRate |-> z, width |-> z, height |-> z, config |-> e]
    <3>1. ms = M(k) /\ ma = M(l)
      BY DEF NewMedia
    <3>2. IsMedia(M(k)) /\ IsMedia(M(l))
      BY DEF IsMedia
    <3>3. M(k) = Numbered(M(l), k)
      BY ONLY TRUE DEF M, Numbered
    <3> HIDE DEF M
    <3> QED BY <3>1, <3>2, <3>3
  <2>3. /\ IsSdp(r) /\ ~r.skip
        /\ r.ip = p.ip /\ r.ttl = p.ttl /\ r.url = p.url
        /\ Len(p.media) \in Nat /\ Len(r.media) = Len(p.media) + 1
        /\ InMedia(r) /\ Media(r) = ms
        /\ \A i \in 1 .. Len(p.media) : r.media[i] = p.media[i]
    <3>1. IsSdp(p) /\ IsMedia(ms) /\ r = Joined(p, ms)
      BY <1>2, <2>1, <2>2
    <3> QED BY ONLY <3>1, NewIs
  <2>4. /\ IsSdp(b) /\ ~b.skip
        /\ b.ip = a.ip /\ b.ttl = a.ttl /\ b.url = a.url
        /\ Len(b.media) = Len(a.media) + 1
        /\ InMedia(b) /\ Media(b) = ma
    <3>1. IsSdp(a) /\ IsMedia(ma) /\ b = Joined(a, ma)
      BY <1>3, <2>1, <2>2
    <3> QED BY ONLY <3>1, NewIs
  <2>5. Same(r, b)
    <3>1. r.skip = b.skip
      BY <2>3, <2>4 DEF IsSdp
    <3>2. Len(r.media) - 1 = Len(s.media)
      <4>1. Len(s.media) \in Nat /\ Len(r.media) = Len(s.media) + 1
        BY <1>2, <2>3
      <4> QED BY ONLY <4>1
    <3>3. Media(r) = Numbered(Media(b), Len(r.media) - 1)
      BY <2>2, <2>3, <2>4, <3>2
    <3>4. InMedia(r) /\ InMedia(b) /\ r.ip = b.ip /\ r.ttl = b.ttl /\ r.url = b.url
      BY <1>2, <2>3, <2>4
    <3> QED BY <3>1, <3>3, <3>4 DEF Same
  <2>6. Len(b.media) = 1 /\ Len(r.media) = Len(s.media) + 1
    <3>1. Len(r.media) = Len(s.media) + 1
      BY <1>2, <2>3
    <3>2. Len(a.media) = 0 /\ Len(b.media) = Len(a.media) + 1
      BY <1>3, <2>4
    <3> QED BY ONLY <3>1, <3>2
  <2>7. \A i \in 1 .. Len(s.media) : r.media[i] = p.media[i]
    BY <1>2, <2>3
  <2>8. \A i \in 1 .. Len(s.media) :
           r.media[i] = IF i = Len(s.media) THEN PostMedia(s.media[i]) ELSE s.media[i]
    BY <1>2, <2>7
  <2>9. r.ip = s.ip /\ r.ttl = s.ttl /\ r.url = s.url
    BY <1>2, <2>3
  <2> QED BY <1>2, <2>3, <2>4, <2>5, <2>6, <2>8, <2>9
<1> QED BY <1>4, <1>5

-------------------------------------------------------------------------------
(* The blocks of a text, and those of the text with one more line            *)

HeadsIn(t) == {i \in DOMAIN t : t[i].letter = "m"}
EndIn(t, i) == Min({j \in HeadsIn(t) : j > i} \cup {Len(t) + 1}) - 1
SessionIn(t) == SubSeq(t, 1, EndIn(t, 0))
TextIn(t, i) == SessionIn(t) \o SubSeq(t, i, EndIn(t, i))
SessionSdp(t) == ParseSDP(SessionIn(t))
Given(t, i) == ParseSDP(TextIn(t, i))

LEMMA BlocksAre ==
  /\ Heads = HeadsIn(lines) /\ Session = SessionIn(lines)
  /\ \A i : /\ EndOf(i) = EndIn(lines, i)
            /\ Session \o Block(i) = TextIn(lines, i)
  BY DEF Heads, HeadsIn, Session, SessionIn, EndOf, EndIn, Block, TextIn

\* A block ends at the last line, or in front of a head.
LEMMA EndIs ==
  ASSUME NEW t \in Seq(Line), NEW i \in 0 .. Len(t)
  PROVE  /\ HeadsIn(t) \subseteq 1 .. Len(t) /\ Len(t) \in Nat
         /\ EndIn(t, i) \in i .. Len(t)
         /\ EndIn(t, i) = Len(t) <=> \A j \in HeadsIn(t) : j <= i
         /\ EndIn(t, i) # Len(t) => EndIn(t, i) + 1 \in HeadsIn(t)
         /\ \A j \in HeadsIn(t) : j > i => EndIn(t, i) < j
<1> DEFINE S == {j \in HeadsIn(t) : j > i} \cup {Len(t) + 1}
<1>1. Len(t) \in Nat /\ HeadsIn(t) \subseteq 1 .. Len(t)
  BY LenProperties DEF HeadsIn
<1>2. S \subseteq Nat /\ Len(t) + 1 \in S
  BY <1>1
<1>3. Min(S) \in S /\ \A y \in S : Min(S) <= y
  BY <1>2, MinIs
<1> PICK m : m = Min(S)
  OBVIOUS
<1>4. EndIn(t, i) = m - 1
  BY DEF EndIn
<1>5. m \in Nat /\ m > i /\ m <= Len(t) + 1
  BY <1>1, <1>3
<1>6. m = Len(t) + 1 \/ m \in HeadsIn(t)
  BY <1>3
<1>7. \A j \in HeadsIn(t) : j \in Nat /\ (j > i => m <= j)
  BY <1>1, <1>3
<1>8. EndIn(t, i) \in i .. Len(t)
  BY <1>1, <1>4, <1>5
<1>9. EndIn(t, i) = Len(t) <=> \A j \in HeadsIn(t) : j <= i
  <2>1. ASSUME m = Len(t) + 1, NEW j \in HeadsIn(t) PROVE j <= i
    <3>1. j <= Len(t) /\ j \in Int /\ i \in Int /\ Len(t) \in Int
      BY <1>1
    <3>2. j > i => m <= j
      BY <1>7
    <3> QED BY <2>1, <3>1, <3>2
  <2>2. ASSUME m # Len(t) + 1 PROVE ~ \A j \in HeadsIn(t) : j <= i
    BY <1>5, <1>6, <2>2
  <2>3. EndIn(t, i) = Len(t) <=> m = Len(t) + 1
    BY <1>1, <1>4, <1>5
  <2> QED BY <2>1, <2>2, <2>3
<1>10. EndIn(t, i) # Len(t) => EndIn(t, i) + 1 \in HeadsIn(t)
  <2>1. EndIn(t, i) + 1 = m
    BY <1>4, <1>5
  <2>2. EndIn(t, i) # Len(t) => m # Len(t) + 1
    BY <1>1, <1>4, <1>5
  <2> QED BY <1>6, <2>1, <2>2
<1>11. ASSUME NEW j \in HeadsIn(t), j > i PROVE EndIn(t, i) < j
  <2>1. m <= j /\ j \in Int
    BY <1>7, <1>11
  <2> QED BY <1>4, <1>5, <2>1
<1> QED BY <1>1, <1>8, <1>9, <1>10, <1>11

LEMMA OneLine ==
  ASSUME NEW t \in Seq(Line), NEW e \in Line, NEW u, u = Append(t, e)
  PROVE  /\ u \in Seq(Line) /\ Len(u) = Len(t) + 1 /\ Len(t) \in Nat
         /\ HeadsIn(u) = IF e.letter = "m" THEN HeadsIn(t) \cup {Len(t) + 1} ELSE HeadsIn(t)
         /\ \A i \in 0 .. Len(t) :
              /\ EndIn(t, i) = Len(t) /\ e.letter # "m" => EndIn(u, i) = Len(t) + 1
              /\ ~(EndIn(t, i) = Len(t) /\ e.letter # "m") => EndIn(u, i) = EndIn(t, i)
         /\ EndIn(u, Len(t) + 1) = Len(t) + 1
<1> PICK n : n = Len(t)
  OBVIOUS
<1>1. /\ u \in Seq(Line) /\ Len(u) = n + 1 /\ n \in Nat /\ u[n + 1] = e
      /\ \A k \in 1 .. n : u[k] = t[k]
      /\ DOMAIN u = 1 .. n + 1 /\ DOMAIN t = 1 .. n
  BY AppendProperties, LenProperties
<1>2. HeadsIn(u) = IF e.letter = "m" THEN HeadsIn(t) \cup {n + 1} ELSE HeadsIn(t)
  <2>1. \A k \in 1 .. n + 1 : k \in 1 .. n \/ k = n + 1
    BY <1>1
  <2>2. \A k \in 1 .. n + 1 : k \in HeadsIn(u) <=>
          k \in IF e.letter = "m" THEN HeadsIn(t) \cup {n + 1} ELSE HeadsIn(t)
    BY <1>1, <2>1 DEF HeadsIn
  <2> QED BY <1>1, <2>2 DEF HeadsIn
<1>3. ASSUME NEW i \in 0 .. n
      PROVE  /\ EndIn(t, i) = n /\ e.letter # "m" => EndIn(u, i) = n + 1
             /\ ~(EndIn(t, i) = n /\ e.letter # "m") => EndIn(u, i) = EndIn(t, i)
  <2>1. /\ HeadsIn(t) \subseteq 1 .. n
        /\ EndIn(t, i) \in i .. n
        /\ EndIn(t, i) = n <=> \A j \in HeadsIn(t) : j <= i
        /\ EndIn(t, i) # n => EndIn(t, i) + 1 \in HeadsIn(t)
        /\ \A j \in HeadsIn(t) : j > i => EndIn(t, i) < j
    BY <1>1, EndIs
  <2>2. /\ EndIn(u, i) \in i .. n + 1
        /\ EndIn(u, i) = n + 1 <=> \A j \in HeadsIn(u) : j <= i
        /\ EndIn(u, i) # n + 1 => EndIn(u, i) + 1 \in HeadsIn(u)
        /\ \A j \in HeadsIn(u) : j > i => EndIn(u, i) < j
    <3>1. i \in 0 .. Len(u)
      BY <1>1
    <3> QED BY <1>1, <3>1, EndIs
  <2> PICK a : a = EndIn(t, i)
    OBVIOUS
  <2> PICK b : b = EndIn(u, i)
    OBVIOUS
  <2>3. CASE e.letter = "m"
    <3>1. HeadsIn(u) = HeadsIn(t) \cup {n + 1} /\ a \in Int /\ b \in Int /\ i \in Int
      BY <1>1, <1>2, <2>1, <2>2, <2>3
    <3>2. b < n + 1
      BY <1>1, <2>1, <2>2, <3>1
    <3>3. b + 1 \in HeadsIn(t) \/ b = n
      BY <2>2, <3>1, <3>2
    <3>4. a <= b
      BY <2>1, <2>2, <3>1, <3>3
    <3>5. b <= a
      BY <1>1, <2>1, <2>2, <3>1, <3>2
    <3>6. a = b
      BY <3>1, <3>4, <3>5
    <3> QED BY <2>3, <3>6
  <2>4. CASE e.letter # "m"
    <3>1. HeadsIn(u) = HeadsIn(t) /\ a \in Int /\ b \in Int /\ i \in Int
      BY <1>1, <1>2, <2>1, <2>2, <2>4
    <3>2. CASE a = n
      BY <2>1, <2>2, <2>4, <3>1, <3>2
    <3>3. CASE a # n
      <4>1. a + 1 \in HeadsIn(u) /\ a + 1 > i
        BY <2>1, <3>1, <3>3
      <4>2. b < a + 1
        BY <2>2, <4>1
      <4>3. b # n + 1
        BY <1>1, <2>1, <3>1, <4>2
      <4>4. b + 1 \in HeadsIn(t) /\ b + 1 > i
        BY <2>2, <3>1, <4>3
      <4>5. a < b + 1
        BY <2>1, <4>4
      <4>6. a = b
        BY <3>1, <4>2, <4>5
      <4> QED BY <3>3, <4>6
    <3> QED BY <3>2, <3>3
  <2> QED BY <2>3, <2>4
<1>4. EndIn(u, n + 1) = n + 1
  <2>1. n + 1 \in 0 .. Len(u) /\ Len(u) = n + 1
    BY <1>1
  <2>2. EndIn(u, n + 1) \in n + 1 .. n + 1
    BY <1>1, <2>1, EndIs
  <2> QED BY <1>1, <2>2
<1> QED BY <1>1, <1>2, <1>3, <1>4

\* What one more line does to the session and to the blocks.
LEMMA LineText ==
  ASSUME NEW t \in Seq(Line), NEW e \in Line, NEW u, u = Append(t, e)
  PROVE  /\ EndIn(t, 0) = Len(t) /\ e.letter # "m" =>
              SessionSdp(u) = ParseSdpLine(SessionSdp(t), e)
         /\ ~(EndIn(t, 0) = Len(t) /\ e.letter # "m") =>
              /\ SessionSdp(u) = SessionSdp(t)
              /\ \A i \in HeadsIn(t) :
                   /\ EndIn(t, i) = Len(t) /\ e.letter # "m" =>
                        Given(u, i) = ParseSdpLine(Given(t, i), e)
                   /\ ~(EndIn(t, i) = Len(t) /\ e.letter # "m") =>
                        Given(u, i) = Given(t, i)
              /\ e.letter = "m" => Given(u, Len(t) + 1) = ParseSdpLine(SessionSdp(t), e)
<1> PICK n : n = Len(t)
  OBVIOUS
<1>0. /\ n \in Nat /\ \A k \in 1 .. n : t[k] \in Line
      /\ u \in Seq(Line) /\ Len(u) = n + 1
      /\ u[n + 1] = e /\ \A k \in 1 .. n : u[k] = t[k]
  BY AppendProperties
<1>1. /\ \A i \in 0 .. n :
           /\ EndIn(t, i) = n /\ e.letter # "m" => EndIn(u, i) = n + 1
           /\ ~(EndIn(t, i) = n /\ e.letter # "m") => EndIn(u, i) = EndIn(t, i)
      /\ EndIn(u, n + 1) = n + 1
  BY OneLine
<1>2. /\ HeadsIn(t) \subseteq 1 .. n
      /\ \A i \in 0 .. n : EndIn(t, i) \in i .. n
  BY EndIs
<1>3. ASSUME NEW i \in 1 .. n + 1, NEW j \in 0 .. n, j >= i - 1
      PROVE  SubSeq(t, i, j) \in Seq(Line) /\ SubSeq(u, i, j) = SubSeq(t, i, j)
  <2>0. i \in Int /\ j \in Int /\ \A k \in i .. j : t[k] \in Line /\ u[k] = t[k]
    BY <1>0, <1>3
  <2>1. /\ SubSeq(t, i, j) \in Seq(Line)
        /\ Len(SubSeq(t, i, j)) = IF i <= j THEN j - i + 1 ELSE 0
        /\ \A k \in 1 .. j - i + 1 : SubSeq(t, i, j)[k] = t[i + k - 1]
    BY <2>0, SubSeqProperties
  <2>2. /\ SubSeq(u, i, j) \in Seq(Line)
        /\ Len(SubSeq(u, i, j)) = IF i <= j THEN j - i + 1 ELSE 0
        /\ \A k \in 1 .. j - i + 1 : SubSeq(u, i, j)[k] = u[i + k - 1]
    BY <2>0, SubSeqProperties
  <2>3. ASSUME NEW k \in 1 .. Len(SubSeq(t, i, j)) PROVE SubSeq(u, i, j)[k] = SubSeq(t, i, j)[k]
    <3>1. k \in 1 .. j - i + 1 /\ i + k - 1 \in i .. j
      BY <1>3, <2>0, <2>1
    <3> QED BY <2>0, <2>1, <2>2, <3>1
  <2> QED BY <2>1, <2>2, <2>3, SeqEqual
<1>4. ASSUME NEW i \in 1 .. n + 1
      PROVE  /\ SubSeq(u, i, n + 1) = SubSeq(t, i, n) \o <<e>>
             /\ SubSeq(u, i, n + 1) = Append(SubSeq(t, i, n), e)
  <2>1. i \in 1 .. Len(u) /\ n + 1 \in i .. Len(u)
    BY <1>0, <1>4
  <2>2. SubSeq(u, i, n + 1) = SubSeq(u, i, n) \o << e >>
    <3>1. SubSeq(u, i, n + 1) = SubSeq(u, i, (n + 1) - 1) \o << u[n + 1] >>
      BY <1>0, <2>1, SubSeqRecursiveSecond
    <3>2. (n + 1) - 1 = n
      BY <1>0
    <3> QED BY <1>0, <3>1, <3>2
  <2>3. SubSeq(u, i, n) = SubSeq(t, i, n) /\ SubSeq(t, i, n) \in Seq(Line)
    BY <1>0, <1>3, <1>4
  <2> QED BY <2>2, <2>3, AppendIsConcat
<1>5. SessionIn(t) \in Seq(Line)
  <2>1. 1 \in 1 .. n + 1 /\ EndIn(t, 0) \in 0 .. n
    BY <1>0, <1>2
  <2> QED BY <1>3, <2>1 DEF SessionIn
<1>6. \A i \in HeadsIn(t) :
        /\ i \in 1 .. n /\ i \in 0 .. n /\ i \in 1 .. n + 1
        /\ EndIn(t, i) \in 0 .. n /\ EndIn(t, i) >= i - 1
        /\ SubSeq(t, i, EndIn(t, i)) \in Seq(Line)
  <2>1. ASSUME NEW i \in HeadsIn(t)
        PROVE  /\ i \in 1 .. n /\ i \in 0 .. n /\ i \in 1 .. n + 1
               /\ EndIn(t, i) \in 0 .. n /\ EndIn(t, i) >= i - 1
    <3>1. i \in 1 .. n /\ i \in 0 .. n /\ i \in 1 .. n + 1
      BY <1>0, <1>2
    <3>2. EndIn(t, i) \in i .. n
      BY <1>2, <3>1
    <3> QED BY <3>1, <3>2
  <2> QED BY <1>3, <2>1
<1>7. \A i \in HeadsIn(t) : TextIn(t, i) \in Seq(Line)
  BY <1>5, <1>6, ConcatProperties DEF TextIn
<1>8. ASSUME EndIn(t, 0) = n, e.letter # "m" PROVE SessionIn(u) = Append(SessionIn(t), e)
  <2>1. EndIn(u, 0) = n + 1 /\ 1 \in 1 .. n + 1
    BY <1>0, <1>1, <1>8
  <2> QED BY <1>4, <1>8, <2>1 DEF SessionIn
<1>9. ASSUME ~(EndIn(t, 0) = n /\ e.letter # "m")
      PROVE  /\ SessionIn(u) = SessionIn(t)
             /\ \A i \in HeadsIn(t) :
                  /\ EndIn(t, i) = n /\ e.letter # "m" =>
                       TextIn(u, i) = Append(TextIn(t, i), e)
                  /\ ~(EndIn(t, i) = n /\ e.letter # "m") =>
                       TextIn(u, i) = TextIn(t, i)
             /\ e.letter = "m" => TextIn(u, n + 1) = Append(SessionIn(t), e)
  <2>1. SessionIn(u) = SessionIn(t)
    <3>1. EndIn(u, 0) = EndIn(t, 0) /\ EndIn(t, 0) \in 0 .. n /\ 1 \in 1 .. n + 1
      BY <1>0, <1>1, <1>2, <1>9
    <3> QED BY <1>3, <3>1 DEF SessionIn
  <2>2. ASSUME NEW i \in HeadsIn(t), EndIn(t, i) = n /\ e.letter # "m"
        PROVE  TextIn(u, i) = Append(TextIn(t, i), e)
    <3>1. EndIn(u, i) = n + 1
      BY <1>1, <1>6, <2>2
    <3> PICK q : q = SubSeq(t, i, EndIn(t, i))
      OBVIOUS
    <3>2. SubSeq(u, i, EndIn(u, i)) = q \o << e >> /\ q \in Seq(Line)
      BY <1>4, <1>6, <2>2, <3>1
    <3>3. TextIn(u, i) = SessionIn(t) \o (q \o << e >>) /\ TextIn(t, i) = SessionIn(t) \o q
      BY <2>1, <3>2 DEF TextIn
    <3>4. << e >> \in Seq(Line)
      OBVIOUS
    <3>5. SessionIn(t) \o (q \o << e >>) = (SessionIn(t) \o q) \o << e >>
      <4>1. << e >> \in Seq(Line) /\ q \in Seq(Line) /\ SessionIn(t) \in Seq(Line)
        BY <1>5, <3>2, <3>4
      <4>2. \A x, y, z \in Seq(Line) : x \o (y \o z) = (x \o y) \o z
        BY ConcatAssociative
      <4> QED BY <4>1, <4>2
    <3>6. Append(TextIn(t, i), e) = TextIn(t, i) \o << e >>
      BY <1>7, AppendIsConcat
    <3> QED BY <3>3, <3>5, <3>6
  <2>3. ASSUME NEW i \in HeadsIn(t), ~(EndIn(t, i) = n /\ e.letter # "m")
        PROVE  TextIn(u, i) = TextIn(t, i)
    <3>1. EndIn(u, i) = EndIn(t, i)
      BY <1>1, <1>6, <2>3
    <3> QED BY <1>3, <1>6, <2>1, <3>1 DEF TextIn
  <2>4. ASSUME e.letter = "m" PROVE TextIn(u, n + 1) = Append(SessionIn(t), e)
    <3>1. n + 1 \in 1 .. n + 1
      BY <1>0
    <3>2. SubSeq(u, n + 1, n + 1) = SubSeq(t, n + 1, n) \o << e >>
      BY <1>4, <3>1
    <3>3. SubSeq(t, n + 1, n) = << >>
      BY <1>0, SubSeqEmpty
    <3>4. << >> \o << e >> = << e >>
      BY ConcatEmptySeq
    <3>5. TextIn(u, n + 1) = SessionIn(t) \o << e >>
      BY <1>1, <2>1, <3>2, <3>3, <3>4 DEF TextIn
    <3> QED BY <1>5, <3>5, AppendIsConcat
  <2> QED BY <2>1, <2>2, <2>3, <2>4
<1>10. ASSUME EndIn(t, 0) = n, e.letter # "m"
       PROVE  SessionSdp(u) = ParseSdpLine(SessionSdp(t), e)
  BY <1>5, <1>8, <1>10, ParseAppend DEF SessionSdp
<1>11. ASSUME ~(EndIn(t, 0) = n /\ e.letter # "m")
       PROVE  /\ SessionSdp(u) = SessionSdp(t)
              /\ \A i \in HeadsIn(t) :
                   /\ EndIn(t, i) = n /\ e.letter # "m" =>
                        Given(u, i) = ParseSdpLine(Given(t, i), e)
                   /\ ~(EndIn(t, i) = n /\ e.letter # "m") =>
                        Given(u, i) = Given(t, i)
              /\ e.letter = "m" => Given(u, n + 1) = ParseSdpLine(SessionSdp(t), e)
  <2>1. SessionSdp(u) = SessionSdp(t)
    BY <1>9, <1>11 DEF SessionSdp
  <2>2. ASSUME NEW i \in HeadsIn(t), EndIn(t, i) = n /\ e.letter # "m"
        PROVE  Given(u, i) = ParseSdpLine(Given(t, i), e)
    <3>1. TextIn(u, i) = Append(TextIn(t, i), e)
      BY <1>9, <1>11, <2>2
    <3> QED BY <1>7, <3>1, ParseAppend DEF Given
  <2>3. ASSUME NEW i \in HeadsIn(t), ~(EndIn(t, i) = n /\ e.letter # "m")
        PROVE  Given(u, i) = Given(t, i)
    BY <1>9, <1>11, <2>3 DEF Given
  <2>4. ASSUME e.letter = "m" PROVE Given(u, n + 1) = ParseSdpLine(SessionSdp(t), e)
    BY <1>5, <1>9, <1>11, <2>4, ParseAppend DEF Given, SessionSdp
  <2> QED BY <2>1, <2>2, <2>3, <2>4
<1> QED BY <1>10, <1>11

-------------------------------------------------------------------------------
(* The places of the media that are taken                                    *)

PlaceIn(T, i) == Cardinality({j \in T : j <= i})

LEMMA PlaceIs ==
  ASSUME NEW n \in Nat, NEW T, T \subseteq 1 .. n
  PROVE  /\ Cardinality(T) \in Nat
         /\ \A i \in T :
              /\ PlaceIn(T, i) \in 1 .. Cardinality(T)
              /\ PlaceIn(T, i) = Cardinality(T) <=> \A j \in T : j <= i
<1>1. IsFiniteSet(T) /\ Cardinality(T) \in Nat
  <2>1. IsFiniteSet(1 .. n)
    BY FS_Interval
  <2>2. IsFiniteSet(T)
    BY <2>1, FS_Subset
  <2> QED BY <2>2, FS_CardinalityType
<1>2. ASSUME NEW i \in T
      PROVE  /\ PlaceIn(T, i) \in 1 .. Cardinality(T)
             /\ PlaceIn(T, i) = Cardinality(T) <=> \A j \in T : j <= i
  <2> DEFINE P == {j \in T : j <= i}
  <2>1. P \in SUBSET T /\ i \in P
    BY <1>2
  <2>2. /\ IsFiniteSet(P) /\ Cardinality(P) <= Cardinality(T)
        /\ Cardinality(T) = Cardinality(P) => T = P
    BY <1>1, <2>1, FS_Subset
  <2>3. Cardinality(P) \in Nat /\ Cardinality(P) # 0
    BY <2>1, <2>2, FS_CardinalityType, FS_EmptySet
  <2>4. T = P <=> \A j \in T : j <= i
    OBVIOUS
  <2> HIDE DEF P
  <2>5. Cardinality(P) \in 1 .. Cardinality(T)
    BY <1>1, <2>2, <2>3
  <2>6. Cardinality(P) = Cardinality(T) <=> \A j \in T : j <= i
    BY <2>2, <2>4
  <2> QED BY <2>5, <2>6 DEF PlaceIn, P
<1> QED BY <1>1, <1>2

LEMMA OnePlaceMore ==
  ASSUME NEW n \in Nat, NEW T, T \subseteq 1 .. n, NEW U, U = T \cup {n + 1}
  PROVE  /\ Cardinality(U) = Cardinality(T) + 1
         /\ PlaceIn(U, n + 1) = Cardinality(T) + 1
         /\ \A i \in T : PlaceIn(U, i) = PlaceIn(T, i)
<1>1. IsFiniteSet(T) /\ n + 1 \notin T
  <2>1. IsFiniteSet(1 .. n)
    BY FS_Interval
  <2>2. IsFiniteSet(T)
    BY <2>1, FS_Subset
  <2> QED BY <2>2
<1>2. Cardinality(U) = Cardinality(T) + 1
  BY <1>1, FS_AddElement
<1>3. {j \in U : j <= n + 1} = U
  <2>1. \A j \in U : j <= n + 1
    OBVIOUS
  <2> QED BY <2>1
<1>4. \A i \in T : {j \in U : j <= i} = {j \in T : j <= i}
  OBVIOUS
<1> QED BY <1>2, <1>3, <1>4 DEF PlaceIn

\* The last head of a text that has one.
LEMMA LastHead ==
  ASSUME NEW t \in Seq(Line), HeadsIn(t) # {}
  PROVE  /\ \E h \in HeadsIn(t) : EndIn(t, h) = Len(t) /\ \A j \in HeadsIn(t) : j <= h
         /\ \A h, k \in HeadsIn(t) : EndIn(t, h) = Len(t) /\ EndIn(t, k) = Len(t) => h = k
         /\ EndIn(t, 0) # Len(t)
<1> PICK n : n = Len(t)
  OBVIOUS
<1>1. HeadsIn(t) \subseteq 1 .. n /\ n \in Nat
  BY LenProperties DEF HeadsIn
<1>2. \A i \in 0 .. n : EndIn(t, i) = n <=> \A j \in HeadsIn(t) : j <= i
  BY EndIs
<1> DEFINE S == {n - j : j \in HeadsIn(t)}
<1>3. PICK y \in S : \A z \in S : y <= z
  <2>1. S \subseteq Nat /\ S # {}
    BY <1>1
  <2> QED BY <2>1, MinIs
<1>4. PICK h \in HeadsIn(t) : y = n - h
  BY <1>3
<1>5. \A j \in HeadsIn(t) : j <= h
  <2>1. ASSUME NEW j \in HeadsIn(t) PROVE j <= h
    <3>1. n - h <= n - j
      BY <1>3, <1>4
    <3>2. h \in Int /\ j \in Int /\ n \in Int
      BY <1>1
    <3> QED BY <3>1, <3>2
  <2> QED BY <2>1
<1>6. EndIn(t, h) = n
  BY <1>1, <1>2, <1>5
<1>7. ASSUME NEW k1 \in HeadsIn(t), NEW k2 \in HeadsIn(t), EndIn(t, k1) = n, EndIn(t, k2) = n
      PROVE  k1 = k2
  <2>1. k1 <= k2 /\ k2 <= k1
    BY <1>1, <1>2, <1>7
  <2> QED BY <1>1, <2>1
<1>8. EndIn(t, 0) # n
  <2>1. 0 \in 0 .. n /\ h > 0
    BY <1>1
  <2>2. ~(h <= 0)
    BY <1>1, <2>1
  <2> QED BY <1>2, <2>1, <2>2
<1> QED BY <1>5, <1>6, <1>7, <1>8

-------------------------------------------------------------------------------
(* The invariant, of a text t and its description s                          *)

TakenIn(t) == {i \in HeadsIn(t) : Given(t, i).media # << >>}
PostedIn(t, i) ==
  IF EndIn(t, i) < Len(t) THEN PostMedia(Given(t, i).media[1]) ELSE Given(t, i).media[1]

\* The session: nothing of a media reaches it, and all there is before the
\* first media.
FrontInv(t, s) ==
  /\ IsSession(SessionSdp(t))
  /\ SessionSdp(t).ip = s.ip /\ SessionSdp(t).ttl = s.ttl /\ SessionSdp(t).url = s.url
  /\ HeadsIn(t) = {} => s = SessionSdp(t)

\* A block gives one media or none, and the last block the last media.
GivenInv(t, s) ==
  \A i \in HeadsIn(t) :
    /\ IsSdp(Given(t, i)) /\ Len(Given(t, i).media) \in {0, 1}
    /\ EndIn(t, i) = Len(t) => /\ Same(s, Given(t, i))
                               /\ s.skip => Given(t, i).media = << >>

\* The media are those of the blocks, in their order.
PlaceInv(t, s) ==
  /\ Len(s.media) = Cardinality(TakenIn(t))
  /\ \A i \in TakenIn(t) :
       s.media[PlaceIn(TakenIn(t), i)] = Numbered(PostedIn(t, i), PlaceIn(TakenIn(t), i) - 1)

TextInv(t, s) ==
  /\ t \in Seq(Line) /\ IsSdp(s) /\ FrontInv(t, s) /\ GivenInv(t, s) /\ PlaceInv(t, s)

LEMMA InitInv == TextInv(<< >>, EmptySdp)
<1>1. PICK t : t = << >>
  OBVIOUS
<1>2. t \in Seq(Line) /\ Len(t) = 0 /\ HeadsIn(t) = {}
  BY <1>1, EmptySeq DEF HeadsIn
<1>3. SessionSdp(t) = EmptySdp
  <2>1. EndIn(t, 0) = 0
    <3>1. 0 \in 0 .. Len(t)
      BY <1>2
    <3>2. EndIn(t, 0) \in 0 .. Len(t)
      BY <1>2, <3>1, EndIs
    <3> QED BY <1>2, <3>2
  <2>2. SessionIn(t) = << >>
    BY <2>1, SubSeqEmpty DEF SessionIn
  <2> QED BY <2>2, ParseEmpty DEF SessionSdp
<1>4. IsSdp(EmptySdp) /\ EmptySdp.media = << >>
  BY EmptyIsSession DEF IsSession
<1>5. TakenIn(t) = {}
  BY <1>2 DEF TakenIn
<1>6. PlaceInv(t, EmptySdp)
  BY <1>4, <1>5, FS_EmptySet, EmptySeq DEF PlaceInv
<1>7. FrontInv(t, EmptySdp) /\ GivenInv(t, EmptySdp)
  BY <1>2, <1>3, EmptyIsSession DEF FrontInv, GivenInv
<1> QED BY <1>1, <1>2, <1>4, <1>6, <1>7 DEF TextInv

\* A line in front of the first media.
LEMMA FrontStep ==
  ASSUME NEW t, NEW s, TextInv(t, s), NEW e \in Line, e.letter # "m", HeadsIn(t) = {}
  PROVE  TextInv(Append(t, e), ParseSdpLine(s, e))
<1> PICK u : u = Append(t, e)
  OBVIOUS
<1> PICK r : r = ParseSdpLine(s, e)
  OBVIOUS
<1>0. t \in Seq(Line)
  BY DEF TextInv
<1>1. t \in Seq(Line) /\ FrontInv(t, s)
  BY DEF TextInv
<1>2. u \in Seq(Line) /\ HeadsIn(u) = {}
  BY <1>1, OneLine
<1>3. EndIn(t, 0) = Len(t)
  <2>1. 0 \in 0 .. Len(t)
    BY <1>1, LenProperties
  <2> QED BY <1>1, <2>1, EndIs
<1>5. SessionSdp(u) = ParseSdpLine(SessionSdp(t), e)
  BY <1>1, <1>3, LineText
<1>6. s = SessionSdp(t) /\ IsSession(SessionSdp(t))
  BY <1>1 DEF FrontInv
<1>7. r = SessionSdp(u) /\ IsSession(r)
  BY <1>5, <1>6, SessionLine
<1>8. TakenIn(u) = {}
  BY <1>2 DEF TakenIn
<1>9. PlaceInv(u, r)
  BY <1>7, <1>8, FS_EmptySet, EmptySeq DEF PlaceInv, IsSession
<1>10. FrontInv(u, r)
  BY <1>7 DEF FrontInv
<1>11. GivenInv(u, r) /\ IsSdp(r)
  BY <1>2, <1>7 DEF GivenInv, IsSession
<1> QED BY <1>2, <1>9, <1>10, <1>11 DEF TextInv

\* The head of a media: what was last is complete, and another one begins
\* unless it is refused.
LEMMA HeadStep ==
  ASSUME NEW t, NEW s, TextInv(t, s), NEW e \in Line, e.letter = "m"
  PROVE  TextInv(Append(t, e), ParseSdpLine(s, e))
<1> PICK u : u = Append(t, e)
  OBVIOUS
<1> PICK r : r = ParseSdpLine(s, e)
  OBVIOUS
<1> PICK n : n = Len(t)
  OBVIOUS
<1> PICK T : T = TakenIn(t)
  OBVIOUS
<1>1. /\ t \in Seq(Line) /\ n \in Nat /\ IsSdp(s)
      /\ FrontInv(t, s) /\ GivenInv(t, s) /\ PlaceInv(t, s)
  BY LenProperties DEF TextInv
<1>2. /\ u \in Seq(Line) /\ Len(u) = n + 1 /\ HeadsIn(u) = HeadsIn(t) \cup {n + 1}
      /\ \A i \in 0 .. n : EndIn(u, i) = EndIn(t, i)
      /\ EndIn(u, n + 1) = n + 1
  <2>1. t \in Seq(Line) /\ e \in Line /\ u = Append(t, e)
    BY <1>1
  <2>2. /\ u \in Seq(Line) /\ Len(u) = Len(t) + 1
        /\ HeadsIn(u) = IF e.letter = "m" THEN HeadsIn(t) \cup {Len(t) + 1} ELSE HeadsIn(t)
        /\ \A i \in 0 .. Len(t) : ~(EndIn(t, i) = Len(t) /\ e.letter # "m") => EndIn(u, i) = EndIn(t, i)
        /\ EndIn(u, Len(t) + 1) = Len(t) + 1
    BY ONLY <2>1, OneLine
  <2>3. e.letter = "m" /\ Len(t) = n
    OBVIOUS
  <2> QED BY ONLY <2>2, <2>3
<1>3. /\ HeadsIn(t) \subseteq 1 .. n
      /\ \A i \in 0 .. n :
           EndIn(t, i) \in i .. n /\ (EndIn(t, i) = n <=> \A j \in HeadsIn(t) : j <= i)
  BY <1>1, EndIs
<1>5. /\ SessionSdp(u) = SessionSdp(t)
      /\ \A i \in HeadsIn(t) : Given(u, i) = Given(t, i)
      /\ Given(u, n + 1) = ParseSdpLine(SessionSdp(t), e)
  BY <1>1, LineText
<1> PICK b : b = Given(u, n + 1)
  OBVIOUS
<1>6. /\ IsSdp(r) /\ IsSdp(b) /\ Same(r, b)
      /\ r.ip = s.ip /\ r.ttl = s.ttl /\ r.url = s.url
      /\ Len(s.media) \in Nat
      /\ \A i \in 1 .. Len(s.media) :
           r.media[i] = IF i = Len(s.media) THEN PostMedia(s.media[i]) ELSE s.media[i]
      /\ \/ r.skip /\ Len(r.media) = Len(s.media) /\ Len(b.media) = 0
         \/ ~r.skip /\ Len(r.media) = Len(s.media) + 1 /\ Len(b.media) = 1
  BY <1>1, <1>5, HeadIs DEF FrontInv
<1>7. n + 1 \notin HeadsIn(t) /\ T \subseteq HeadsIn(t) /\ T \subseteq 1 .. n
  BY <1>1, <1>3 DEF TakenIn
<1>8. b.media = << >> <=> Len(b.media) = 0
  BY <1>6, EmptySeq DEF IsSdp, IsSeq
<1>9. FrontInv(u, r)
  BY <1>1, <1>2, <1>5, <1>6 DEF FrontInv
<1>10. GivenInv(u, r)
  <2>1. ASSUME NEW i \in HeadsIn(t)
        PROVE  /\ IsSdp(Given(u, i)) /\ Len(Given(u, i).media) \in {0, 1}
               /\ EndIn(u, i) # n + 1
    <3>1. i \in 0 .. n /\ EndIn(u, i) \in i .. n
      BY <1>1, <1>2, <1>3
    <3>2. EndIn(u, i) # n + 1
      BY <1>1, <3>1
    <3> QED BY <1>1, <1>5, <3>2 DEF GivenInv
  <2>2. r.skip => b.media = << >>
    BY <1>6, <1>8
  <2> QED BY <1>2, <1>6, <2>1, <2>2 DEF GivenInv
<1>11. \A i \in T : /\ i \in HeadsIn(t) /\ PlaceIn(T, i) \in 1 .. Len(s.media)
                    /\ s.media[PlaceIn(T, i)] = Numbered(PostedIn(t, i), PlaceIn(T, i) - 1)
                    /\ PlaceIn(T, i) = Len(s.media) <=> \A j \in T : j <= i
  <2>1. /\ Len(s.media) = Cardinality(T)
        /\ \A i \in T : s.media[PlaceIn(T, i)] = Numbered(PostedIn(t, i), PlaceIn(T, i) - 1)
    BY <1>1 DEF PlaceInv
  <2> QED BY <1>1, <1>7, <2>1, PlaceIs
<1>12. ASSUME NEW i \in T
       PROVE  r.media[PlaceIn(T, i)] = Numbered(PostedIn(u, i), PlaceIn(T, i) - 1)
  <2> PICK k : k = PlaceIn(T, i)
    OBVIOUS
  <2> PICK m : m = Given(t, i).media[1]
    OBVIOUS
  <2>1. i \in HeadsIn(t) /\ i \in 0 .. n /\ EndIn(t, i) \in 0 .. n
    BY <1>1, <1>3, <1>11
  <2>2. PostedIn(u, i) = PostMedia(m)
    <3>1. EndIn(u, i) < Len(u)
      BY <1>1, <1>2, <2>1
    <3> QED BY <1>5, <2>1, <3>1 DEF PostedIn
  <2>3. IsMedia(m)
    <3>1. IsSdp(Given(t, i)) /\ Len(Given(t, i).media) \in {0, 1} /\ Given(t, i).media # << >>
      BY <1>1, <2>1 DEF GivenInv, TakenIn
    <3>2. Len(Given(t, i).media) = 1
      BY <3>1, EmptySeq DEF IsSdp, IsSeq
    <3> QED BY <3>1, <3>2 DEF IsSdp
  <2>4. PostedIn(t, i) = m \/ PostedIn(t, i) = PostMedia(m)
    BY DEF PostedIn
  <2>5. CASE k = Len(s.media)
    <3>1. r.media[k] = PostMedia(Numbered(PostedIn(t, i), k - 1))
      BY <1>6, <1>11, <2>5
    <3>2. IsMedia(PostMedia(m)) /\ PostMedia(PostMedia(m)) = PostMedia(m)
      BY <2>3, PostIs
    <3>3. /\ PostMedia(Numbered(m, k - 1)) = Numbered(PostMedia(m), k - 1)
          /\ PostMedia(Numbered(PostMedia(m), k - 1)) = Numbered(PostMedia(m), k - 1)
      BY <2>3, <3>2, PostIs
    <3> QED BY <2>2, <2>4, <3>1, <3>3
  <2>6. CASE k # Len(s.media)
    <3>1. EndIn(t, i) # n
      BY <1>3, <1>7, <1>11, <2>1, <2>6
    <3>2. EndIn(t, i) < Len(t)
      BY <1>1, <2>1, <3>1
    <3>3. PostedIn(t, i) = PostMedia(m)
      BY <3>2 DEF PostedIn
    <3>4. r.media[k] = s.media[k]
      BY <1>6, <1>11, <2>6
    <3> QED BY <1>11, <2>2, <3>3, <3>4
  <2> QED BY <2>5, <2>6
<1>13. PlaceInv(u, r)
  <2>1. Len(s.media) = Cardinality(T)
    BY <1>1 DEF PlaceInv
  <2>2. CASE b.media = << >>
    <3>1. TakenIn(u) = T
      <4>1. \A i \in HeadsIn(u) : i \in TakenIn(u) <=> i \in T
        BY <1>2, <1>5, <1>7, <2>2 DEF TakenIn
      <4> QED BY <1>2, <1>7, <4>1 DEF TakenIn
    <3>2. Len(r.media) = Len(s.media)
      <4>1. Len(b.media) = 0
        BY <1>8, <2>2
      <4>2. Len(r.media) = Len(s.media) \/ Len(b.media) = 1
        BY <1>6
      <4>3. Len(b.media) # 1
        BY ONLY <4>1
      <4> QED BY <4>2, <4>3
    <3> QED BY <1>12, <2>1, <3>1, <3>2 DEF PlaceInv
  <2>3. CASE b.media # << >>
    <3>1. TakenIn(u) = T \cup {n + 1}
      <4>1. \A i \in HeadsIn(u) : i \in TakenIn(u) <=> i \in T \cup {n + 1}
        BY <1>2, <1>5, <1>7, <2>3 DEF TakenIn
      <4> QED BY <1>2, <1>7, <4>1 DEF TakenIn
    <3>2. ~r.skip /\ Len(r.media) = Len(s.media) + 1 /\ Len(b.media) = 1
      BY <1>6, <1>8, <2>3
    <3> PICK c : c = Cardinality(T)
      OBVIOUS
    <3> PICK U : U = TakenIn(u)
      OBVIOUS
    <3>3. /\ Cardinality(U) = c + 1 /\ PlaceIn(U, n + 1) = c + 1
          /\ \A i \in T : PlaceIn(U, i) = PlaceIn(T, i)
      <4>1. n \in Nat /\ T \subseteq 1 .. n /\ U = T \cup {n + 1}
        BY <1>1, <1>7, <3>1
      <4>2. Cardinality(U) = Cardinality(T) + 1 /\ PlaceIn(U, n + 1) = Cardinality(T) + 1
        BY ONLY <4>1, OnePlaceMore
      <4>3. ASSUME NEW i \in T PROVE PlaceIn(U, i) = PlaceIn(T, i)
        <5>1. {j \in U : j <= i} = {j \in T : j <= i}
          BY <4>1
        <5> QED BY <5>1 DEF PlaceIn
      <4> QED BY <4>2, <4>3
    <3>4. PostedIn(u, n + 1) = b.media[1]
      <4>1. ~(EndIn(u, n + 1) < Len(u))
        BY <1>1, <1>2
      <4> QED BY <4>1 DEF PostedIn
    <3>5. r.media[c + 1] = Numbered(b.media[1], c)
      <4>1. Len(r.media) = c + 1 /\ c \in Nat /\ (c + 1) - 1 = c
        BY <1>6, <2>1, <3>2
      <4>2. Media(r) = Numbered(Media(b), Len(r.media) - 1)
        BY <1>6, <3>2 DEF Same
      <4> QED BY <3>2, <4>1, <4>2 DEF Media
    <3>6. (c + 1) - 1 = c
      BY <1>6, <2>1
    <3>7. \A i \in U : r.media[PlaceIn(U, i)] = Numbered(PostedIn(u, i), PlaceIn(U, i) - 1)
      <4>1. \A i \in T : r.media[PlaceIn(U, i)] = Numbered(PostedIn(u, i), PlaceIn(U, i) - 1)
        BY <1>12, <3>3
      <4>2. r.media[PlaceIn(U, n + 1)] = Numbered(PostedIn(u, n + 1), PlaceIn(U, n + 1) - 1)
        BY <3>3, <3>4, <3>5, <3>6
      <4> QED BY <3>1, <4>1, <4>2
    <3> QED BY <2>1, <3>2, <3>3, <3>7 DEF PlaceInv
  <2> QED BY <2>2, <2>3
<1> QED BY <1>2, <1>6, <1>9, <1>10, <1>13 DEF TextInv

\* A line of a media.
LEMMA BodyStep ==
  ASSUME NEW t, NEW s, TextInv(t, s), NEW e \in Line, e.letter # "m", HeadsIn(t) # {}
  PROVE  TextInv(Append(t, e), ParseSdpLine(s, e))
<1> PICK u : u = Append(t, e)
  OBVIOUS
<1> PICK r : r = ParseSdpLine(s, e)
  OBVIOUS
<1> PICK n : n = Len(t)
  OBVIOUS
<1> PICK T : T = TakenIn(t)
  OBVIOUS
<1>1. /\ t \in Seq(Line) /\ n \in Nat /\ IsSdp(s)
      /\ FrontInv(t, s) /\ GivenInv(t, s) /\ PlaceInv(t, s)
  BY LenProperties DEF TextInv
<1>2. /\ u \in Seq(Line) /\ Len(u) = n + 1 /\ HeadsIn(u) = HeadsIn(t)
      /\ \A i \in 0 .. n : /\ EndIn(t, i) = n => EndIn(u, i) = n + 1
                           /\ EndIn(t, i) # n => EndIn(u, i) = EndIn(t, i)
  BY <1>1, OneLine
<1>3. /\ HeadsIn(t) \subseteq 1 .. n
      /\ \A i \in 0 .. n : EndIn(t, i) \in i .. n
  BY <1>1, EndIs
<1>4. PICK h \in HeadsIn(t) : EndIn(t, h) = n /\ \A j \in HeadsIn(t) : j <= h
  BY <1>1, LastHead
<1>5. EndIn(t, 0) # n /\ \A k \in HeadsIn(t) : EndIn(t, k) = n => k = h
  BY <1>1, <1>4, LastHead
<1> PICK a : a = Given(t, h)
  OBVIOUS
<1> PICK b : b = Given(u, h)
  OBVIOUS
<1>6. ~(EndIn(t, 0) = Len(t) /\ e.letter # "m")
  BY <1>5
<1>7. /\ SessionSdp(u) = SessionSdp(t)
      /\ \A i \in HeadsIn(t) : i # h => Given(u, i) = Given(t, i)
      /\ b = ParseSdpLine(a, e)
  <2>1. SessionSdp(u) = SessionSdp(t)
    BY <1>1, <1>6, LineText
  <2>2. ASSUME NEW i \in HeadsIn(t), i # h PROVE Given(u, i) = Given(t, i)
    <3>1. EndIn(t, i) # Len(t)
      BY <1>5, <2>2
    <3> QED BY <1>1, <1>6, <3>1, LineText
  <2>3. b = ParseSdpLine(a, e)
    BY <1>1, <1>4, <1>6, LineText
  <2> QED BY <2>1, <2>2, <2>3
<1>8. /\ IsSdp(a) /\ Len(a.media) \in {0, 1} /\ Same(s, a)
      /\ s.skip => a.media = << >>
  BY <1>1, <1>4 DEF GivenInv
<1>9. /\ IsSdp(r) /\ IsSdp(b) /\ Same(r, b)
      /\ r.ip = s.ip /\ r.ttl = s.ttl /\ r.url = s.url /\ r.skip = s.skip
      /\ Len(r.media) = Len(s.media) /\ Len(b.media) = Len(a.media)
      /\ \A i \in 1 .. Len(s.media) - 1 : r.media[i] = s.media[i]
      /\ s.skip => r = s /\ b = a
  <2>1. Follows(s, a, r, b)
    BY <1>1, <1>7, <1>8, LineFollows
  <2> QED BY <2>1 DEF Follows
<1>10. b.media = << >> <=> a.media = << >>
  BY <1>8, <1>9, EmptySeq DEF IsSdp, IsSeq
<1>11. FrontInv(u, r)
  BY <1>1, <1>2, <1>7, <1>9 DEF FrontInv
<1>12. GivenInv(u, r)
  <2>1. ASSUME NEW i \in HeadsIn(t), i # h
        PROVE  /\ IsSdp(Given(u, i)) /\ Len(Given(u, i).media) \in {0, 1}
               /\ EndIn(u, i) # n + 1
    <3>1. i \in 0 .. n /\ EndIn(t, i) \in i .. n /\ EndIn(t, i) # n
      <4>1. i \in HeadsIn(t) /\ i # h
        BY <2>1
      <4>2. i \in 0 .. n
        BY ONLY <1>1, <1>3, <4>1
      <4> QED BY ONLY <1>3, <1>5, <4>1, <4>2
    <3>2. EndIn(u, i) # n + 1
      <4>1. EndIn(u, i) = EndIn(t, i)
        BY ONLY <1>2, <3>1
      <4>2. EndIn(t, i) \in i .. n /\ n \in Nat /\ i \in 0 .. n
        BY <1>1, <3>1
      <4> QED BY ONLY <4>1, <4>2
    <3> QED BY <1>1, <1>7, <2>1, <3>2 DEF GivenInv
  <2>2. IsSdp(b) /\ Len(b.media) \in {0, 1} /\ Same(r, b) /\ (r.skip => b.media = << >>)
    BY <1>8, <1>9, <1>10
  <2> QED BY <1>2, <2>1, <2>2 DEF GivenInv
<1>13. TakenIn(u) = T
  <2>1. \A i \in HeadsIn(t) : i \in TakenIn(u) <=> i \in T
    BY <1>2, <1>7, <1>10 DEF TakenIn
  <2> QED BY <1>2, <2>1 DEF TakenIn
<1>14. \A i \in T : /\ i \in HeadsIn(t) /\ PlaceIn(T, i) \in 1 .. Len(s.media)
                    /\ s.media[PlaceIn(T, i)] = Numbered(PostedIn(t, i), PlaceIn(T, i) - 1)
                    /\ PlaceIn(T, i) = Len(s.media) <=> \A j \in T : j <= i
  <2>1. /\ Len(s.media) = Cardinality(T)
        /\ \A i \in T : s.media[PlaceIn(T, i)] = Numbered(PostedIn(t, i), PlaceIn(T, i) - 1)
    BY <1>1 DEF PlaceInv
  <2>2. T \subseteq HeadsIn(t) /\ T \subseteq 1 .. n
    BY <1>3 DEF TakenIn
  <2> QED BY <1>1, <2>1, <2>2, PlaceIs
<1>15. ASSUME NEW i \in T
       PROVE  r.media[PlaceIn(T, i)] = Numbered(PostedIn(u, i), PlaceIn(T, i) - 1)
  <2> PICK k : k = PlaceIn(T, i)
    OBVIOUS
  <2>1. CASE i = h
    <3>1. ~s.skip /\ Len(a.media) = 1 /\ Len(b.media) = 1
      <4>1. a.media # << >>
        BY <2>1 DEF TakenIn
      <4>2. Len(a.media) = 1
        BY <1>8, <4>1, EmptySeq DEF IsSdp, IsSeq
      <4> QED BY <1>8, <1>9, <4>1, <4>2
    <3>2. k = Len(s.media)
      <4>1. \A j \in T : j <= i
        BY <1>4, <1>14, <2>1
      <4> QED BY <1>14, <4>1
    <3>3. r.media[k] = Numbered(b.media[1], k - 1)
      <4>1. Media(r) = Numbered(Media(b), Len(r.media) - 1)
        BY <1>9, <3>1 DEF Same
      <4> QED BY <1>9, <3>1, <3>2, <4>1 DEF Media
    <3>4. PostedIn(u, i) = b.media[1]
      <4>1. EndIn(u, h) = n + 1
        <5>1. h \in 0 .. n
          BY <1>1, <1>3, <1>4
        <5> QED BY ONLY <1>2, <1>4, <5>1
      <4>2. ~(EndIn(u, h) < Len(u))
        BY <1>1, <1>2, <4>1
      <4> QED BY <2>1, <4>2 DEF PostedIn
    <3> QED BY <3>3, <3>4
  <2>2. CASE i # h
    <3>1. i \in HeadsIn(t) /\ i \in 0 .. n /\ EndIn(t, i) \in 0 .. n /\ EndIn(t, i) # n
      <4>1. i \in HeadsIn(t)
        BY <1>14
      <4>2. i \in 0 .. n
        BY ONLY <1>1, <1>3, <4>1
      <4>3. EndIn(t, i) \in i .. n /\ EndIn(t, i) # n
        BY ONLY <1>3, <1>5, <2>2, <4>1, <4>2
      <4>4. n \in Nat
        BY <1>1
      <4> QED BY ONLY <4>1, <4>2, <4>3, <4>4
    <3>2. PostedIn(u, i) = PostedIn(t, i)
      <4>1. EndIn(u, i) = EndIn(t, i) /\ EndIn(t, i) < n /\ EndIn(t, i) < n + 1
        <5>1. EndIn(u, i) = EndIn(t, i)
          BY ONLY <1>2, <3>1
        <5>2. n \in Nat /\ EndIn(t, i) \in 0 .. n /\ EndIn(t, i) # n
          BY <1>1, <3>1
        <5> QED BY ONLY <5>1, <5>2
      <4> QED BY <1>2, <1>7, <2>2, <3>1, <4>1 DEF PostedIn
    <3>3. r.media[k] = s.media[k]
      <4>1. CASE s.skip
        BY <1>9, <4>1
      <4>2. CASE ~s.skip
        <5>1. a.media # << >>
          <6>1. InMedia(a)
            BY <1>8, <4>2 DEF Same
          <6> QED BY <6>1 DEF InMedia
        <5>2. h \in T
          BY <5>1 DEF TakenIn
        <5>3. ~(h <= i)
          BY <1>3, <1>4, <2>2, <3>1
        <5>4. k # Len(s.media) /\ k \in 1 .. Len(s.media)
          BY <1>14, <5>2, <5>3
        <5>5. k \in 1 .. Len(s.media) - 1
          BY <5>4
        <5> QED BY <1>9, <5>5
      <4> QED BY <4>1, <4>2
    <3> QED BY <1>14, <3>2, <3>3
  <2> QED BY <2>1, <2>2
<1>16. PlaceInv(u, r)
  BY <1>1, <1>9, <1>13, <1>15 DEF PlaceInv
<1> QED BY <1>2, <1>9, <1>11, <1>12, <1>16 DEF TextInv

-------------------------------------------------------------------------------
(* The invariant of the specification                                        *)

IInv == TextInv(lines, sdp)

LEMMA NextReads ==
  ASSUME Next
  PROVE  \E line \in Line : lines' = Append(lines, line) /\ sdp' = ParseSdpLine(sdp, line)
<1>1. CASE ReadMedia
  <2>1. PICK line \in Line :
          /\ line.letter = "m" /\ lines' = Append(lines, line)
          /\ sdp' = IF Skipped(sdp, "m") THEN sdp ELSE ParseMedia(sdp, line.val)
    BY <1>1 DEF ReadMedia, Read
  <2> QED BY <2>1 DEF ParseSdpLine
<1>2. CASE ReadConn
  <2>1. PICK line \in Line :
          /\ line.letter = "c" /\ lines' = Append(lines, line)
          /\ sdp' = IF Skipped(sdp, "c") THEN sdp ELSE ParseConn(sdp, line.val)
    BY <1>2 DEF ReadConn, Read
  <2> QED BY <2>1 DEF ParseSdpLine
<1>3. CASE ReadAttr
  <2>1. PICK line \in Line :
          /\ line.letter = "a" /\ lines' = Append(lines, line)
          /\ sdp' = IF Skipped(sdp, "a") THEN sdp ELSE ParseAttr(sdp, line.val)
    BY <1>3 DEF ReadAttr, Read
  <2> QED BY <2>1 DEF ParseSdpLine
<1>4. CASE ReadBitRate
  <2>1. PICK line \in Line :
          /\ line.letter = "b" /\ lines' = Append(lines, line)
          /\ sdp' = IF Skipped(sdp, "b") THEN sdp ELSE ParseBitRate(sdp, line.val)
    BY <1>4 DEF ReadBitRate, Read
  <2> QED BY <2>1 DEF ParseSdpLine
<1>5. CASE ReadTitle
  <2>1. PICK line \in Line :
          /\ line.letter = "s" /\ lines' = Append(lines, line)
          /\ sdp' = IF Skipped(sdp, "s") THEN sdp ELSE ParseTitle(sdp, line.val)
    BY <1>5 DEF ReadTitle, Read
  <2> QED BY <2>1 DEF ParseSdpLine
<1>6. CASE ReadDesc
  <2>1. PICK line \in Line :
          /\ line.letter = "i" /\ lines' = Append(lines, line)
          /\ sdp' = IF Skipped(sdp, "i") THEN sdp ELSE ParseDesc(sdp, line.val)
    BY <1>6 DEF ReadDesc, Read
  <2> QED BY <2>1 DEF ParseSdpLine
<1> QED BY <1>1, <1>2, <1>3, <1>4, <1>5, <1>6 DEF Next

LEMMA InitIInv == Init => IInv
  BY InitInv DEF Init, IInv

LEMMA NextIInv == IInv /\ [Next]_vars => IInv'
<1>1. ASSUME IInv, Next PROVE IInv'
  <2>1. PICK line \in Line :
          lines' = Append(lines, line) /\ sdp' = ParseSdpLine(sdp, line)
    BY <1>1, NextReads
  <2>2. TextInv(lines, sdp)
    BY <1>1 DEF IInv
  <2>3. TextInv(Append(lines, line), ParseSdpLine(sdp, line))
    BY <2>2, HeadStep, FrontStep, BodyStep
  <2>4. TextInv(lines', sdp')
    BY <2>1, <2>3
  <2> QED BY <2>4 DEF IInv
<1>2. ASSUME IInv, UNCHANGED vars PROVE IInv'
  <2>1. lines' = lines /\ sdp' = sdp
    BY <1>2 DEF vars
  <2>2. TextInv(lines, sdp)
    BY <1>2 DEF IInv
  <2>3. TextInv(lines', sdp')
    BY <2>1, <2>2
  <2> QED BY <2>3 DEF IInv
<1> QED BY <1>1, <1>2

LEMMA IInvGives == IInv => BlocksIndependent
<1> SUFFICES ASSUME IInv PROVE BlocksIndependent
  OBVIOUS
<1>1. lines \in Seq(Line) /\ GivenInv(lines, sdp) /\ PlaceInv(lines, sdp)
  BY DEF IInv, TextInv
<1>2. /\ Heads = HeadsIn(lines)
      /\ \A i : EndOf(i) = EndIn(lines, i) /\ Session \o Block(i) = TextIn(lines, i)
  BY BlocksAre
<1>3. \A i : Alone(i) = Given(lines, i).media
  BY <1>2 DEF Alone, Given
<1>4. Taken = TakenIn(lines)
  BY <1>2, <1>3 DEF Taken, TakenIn
<1>5. \A i : Posted(i) = PostedIn(lines, i)
  BY <1>2, <1>3 DEF Posted, PostedIn
<1>6. \A i : Place(i) = PlaceIn(TakenIn(lines), i)
  BY <1>4 DEF Place, PlaceIn
<1>7. \A i \in Heads : Len(Alone(i)) <= 1
  BY <1>1, <1>2, <1>3 DEF GivenInv
<1>8. Len(sdp.media) = Cardinality(Taken)
  BY <1>1, <1>4 DEF PlaceInv
<1>9. \A i \in Taken : sdp.media[Place(i)] = [Posted(i) EXCEPT !.idx = Place(i) - 1]
  BY <1>1, <1>4, <1>5, <1>6 DEF PlaceInv, Numbered
<1> QED BY <1>7, <1>8, <1>9 DEF BlocksIndependent

\* However many lines a publisher sends: the media of a description are those
\* that its blocks give alone behind the session, one after the other, and
\* nothing of a block, or of one that is skipped, reaches its neighbours
\* (SdpUtil::parseSdpLine and what it calls).
THEOREM BlocksAreIndependent == Spec => []BlocksIndependent
<1>1. Spec => Init /\ [][Next]_vars
  BY PTL DEF Spec
<1> QED BY <1>1, InitIInv, NextIInv, IInvGives, PTL

-------------------------------------------------------------------------------
(* Texts                                                                     *)

\* The words of any description, and the ones that are written.
Word ==
  STRING \cup {Numeral(n) : n \in Int}
  \cup {"end", BLANK, SEMICOLON, "/", ":", "=", "-", "0", "audio", "video", "application",
        "RTP", "AVP", "UDP", "IN", "IP4", "0.0.0.0", "AS", "control", "rtpmap", "fmtp",
        "framesize", "tool", "libavformat"}
Text == Seq(Word)

LEMMA Words ==
  /\ {"end", BLANK, SEMICOLON, "/", ":", "=", "-", "0", "audio", "video", "application",
      "RTP", "AVP", "UDP", "IN", "IP4", "0.0.0.0", "AS", "control", "rtpmap", "fmtp",
      "framesize", "tool", "libavformat"} \subseteq Word
  /\ \A n \in Int : Numeral(n) \in Word
  /\ STRING \subseteq Word
BY DEF Word

\* The delimiters differ.
LEMMA Delimiters ==
  /\ BLANK \notin {"end", SEMICOLON, "/", ":", "=", "-"}
  /\ SEMICOLON \notin {"end", "/", ":", "=", "-"}
<1>1. BLANK # "end" /\ SEMICOLON # "end" /\ BLANK # SEMICOLON
  BY DEF BLANK, SEMICOLON
<1>2. BLANK # "/" /\ BLANK # ":" /\ BLANK # "=" /\ BLANK # "-"
  BY DEF BLANK
<1>3. SEMICOLON # "/" /\ SEMICOLON # ":" /\ SEMICOLON # "=" /\ SEMICOLON # "-"
  BY DEF SEMICOLON
<1> QED BY ONLY <1>1, <1>2, <1>3

\* Pieces of a text, and texts that are the same.
LEMMA TextIs ==
  ASSUME NEW t \in Text
  PROVE  Len(t) \in Nat /\ DOMAIN t = 1 .. Len(t) /\ \A i \in 1 .. Len(t) : t[i] \in Word
BY LenProperties, ElementOfSeq DEF Text

LEMMA SameText ==
  ASSUME NEW t \in Text, NEW u \in Text, Len(t) = Len(u),
         \A i \in 1 .. Len(t) : t[i] = u[i]
  PROVE  t = u
BY SeqEqual DEF Text

LEMMA PieceIs ==
  ASSUME NEW t \in Text, NEW a \in 1 .. Len(t) + 1, NEW b \in a - 1 .. Len(t)
  PROVE  /\ SubSeq(t, a, b) \in Text /\ Len(SubSeq(t, a, b)) = b - a + 1
         /\ \A i \in 1 .. b - a + 1 : SubSeq(t, a, b)[i] = t[a + i - 1]
<1>1. Len(t) \in Nat
  BY TextIs
<1>2. CASE a <= b
  <2>1. \A i \in a .. b : t[i] \in Word
    BY <1>1, <1>2, TextIs
  <2> QED BY <1>1, <1>2, <2>1, SubSeqProperties DEF Text
<1>3. CASE b = a - 1
  <2>1. SubSeq(t, a, b) = << >>
    BY <1>1, <1>3, SubSeqProperties
  <2>2. b - a + 1 = 0
    BY ONLY <1>1, <1>3, a \in 1 .. Len(t) + 1
  <2>3. << >> \in Text /\ Len(<< >>) = 0
    BY EmptySeq DEF Text
  <2> QED BY ONLY <2>1, <2>2, <2>3
<1> QED BY <1>1, <1>2, <1>3

LEMMA BehindIs ==
  ASSUME NEW t \in Text, NEW a \in 1 .. Len(t) + 1
  PROVE  /\ From(t, a) \in Text /\ Len(From(t, a)) = Len(t) - a + 1
         /\ \A i \in 1 .. Len(t) - a + 1 : From(t, a)[i] = t[a + i - 1]
<1>1. Len(t) \in Nat
  BY TextIs
<1>2. Len(t) \in a - 1 .. Len(t)
  BY <1>1
<1> QED BY <1>2, PieceIs DEF From

LEMMA BehindBehind ==
  ASSUME NEW t \in Text, NEW a \in 1 .. Len(t) + 1, NEW b \in 1 .. Len(t) - a + 2
  PROVE  From(From(t, a), b) = From(t, a + b - 1)
<1>1. Len(t) \in Nat
  BY TextIs
<1>2. PICK u : u = From(t, a)
  OBVIOUS
<1>3. /\ u \in Text /\ Len(u) = Len(t) - a + 1
      /\ \A i \in 1 .. Len(t) - a + 1 : u[i] = t[a + i - 1]
  BY <1>2, BehindIs
<1>4. b \in 1 .. Len(u) + 1 /\ a + b - 1 \in 1 .. Len(t) + 1
  BY <1>1, <1>3
<1>5. /\ From(u, b) \in Text /\ Len(From(u, b)) = Len(u) - b + 1
      /\ \A i \in 1 .. Len(u) - b + 1 : From(u, b)[i] = u[b + i - 1]
  BY <1>3, <1>4, BehindIs
<1>6. PICK c : c = a + b - 1
  OBVIOUS
<1>7. /\ From(t, c) \in Text /\ Len(From(t, c)) = Len(t) - c + 1
      /\ \A i \in 1 .. Len(t) - c + 1 : From(t, c)[i] = t[c + i - 1]
  BY <1>4, <1>6, BehindIs
<1>8. Len(From(u, b)) = Len(From(t, c))
  BY ONLY <1>1, <1>3, <1>5, <1>6, <1>7, a \in 1 .. Len(t) + 1, b \in 1 .. Len(t) - a + 2
<1>9. ASSUME NEW i \in 1 .. Len(From(u, b))
      PROVE  From(u, b)[i] = From(t, c)[i]
  <2>1. /\ i \in 1 .. Len(u) - b + 1 /\ i \in 1 .. Len(t) - c + 1
        /\ b + i - 1 \in 1 .. Len(t) - a + 1 /\ a + (b + i - 1) - 1 = c + i - 1
    BY ONLY <1>1, <1>3, <1>5, <1>6, <1>7, <1>9, a \in 1 .. Len(t) + 1,
            b \in 1 .. Len(t) - a + 2
  <2>2. From(u, b)[i] = u[b + i - 1] /\ From(t, c)[i] = t[c + i - 1]
    BY ONLY <1>5, <1>7, <2>1
  <2>3. u[b + i - 1] = t[a + (b + i - 1) - 1]
    BY ONLY <1>3, <2>1
  <2> QED BY ONLY <2>1, <2>2, <2>3
<1>10. From(u, b) = From(t, c)
  BY ONLY <1>5, <1>7, <1>8, <1>9, SameText
<1> QED BY ONLY <1>2, <1>6, <1>10

\* The place of a word.
LEMMA FindIn ==
  ASSUME NEW t, Len(t) \in Nat, NEW w
  PROVE  /\ Find(t, w) \in 0 .. Len(t)
         /\ Find(t, w) = 0 => \A i \in 1 .. Len(t) : t[i] # w
         /\ Find(t, w) # 0 => /\ t[Find(t, w)] = w
                              /\ \A i \in 1 .. Find(t, w) - 1 : t[i] # w
<1> DEFINE I == {i \in 1 .. Len(t) : t[i] = w}
<1>1. Find(t, w) = IF I # {} THEN Min(I) ELSE 0
  BY DEF Find, SelectInSeq
<1>2. Len(t) \in Nat
  OBVIOUS
<1>3. CASE I = {}
  BY <1>1, <1>2, <1>3
<1>4. CASE I # {}
  <2>1. I \subseteq Nat
    BY <1>2
  <2>2. Min(I) \in I /\ \A y \in I : Min(I) <= y
    BY <1>4, <2>1, MinIs
  <2>3. PICK m : m = Find(t, w)
    OBVIOUS
  <2>4. m \in I /\ \A y \in I : m <= y
    BY <1>1, <1>4, <2>2, <2>3
  <2>5. m \in 1 .. Len(t) /\ t[m] = w /\ \A i \in 1 .. m - 1 : t[i] # w
    BY <1>2, <2>4
  <2>6. m # 0 /\ m \in 0 .. Len(t)
    BY <1>2, <2>5
  <2> QED BY ONLY <2>3, <2>5, <2>6
<1> QED BY <1>3, <1>4

LEMMA FindIs ==
  ASSUME NEW t \in Text, NEW w
  PROVE  /\ Find(t, w) \in 0 .. Len(t)
         /\ Find(t, w) = 0 => \A i \in 1 .. Len(t) : t[i] # w
         /\ Find(t, w) # 0 => /\ t[Find(t, w)] = w
                              /\ \A i \in 1 .. Find(t, w) - 1 : t[i] # w
<1>1. Len(t) \in Nat
  BY TextIs
<1> QED BY ONLY <1>1, FindIn

LEMMA FindAt ==
  ASSUME NEW t \in Text, NEW w, NEW k \in 1 .. Len(t), t[k] = w,
         \A i \in 1 .. k - 1 : t[i] # w
  PROVE  Find(t, w) = k
<1>1. Len(t) \in Nat
  BY TextIs
<1>2. PICK f : f = Find(t, w)
  OBVIOUS
<1>3. /\ f \in 0 .. Len(t)
      /\ f = 0 => \A i \in 1 .. Len(t) : t[i] # w
      /\ f # 0 => t[f] = w /\ \A i \in 1 .. f - 1 : t[i] # w
  BY <1>2, FindIs
<1>4. f = k
  BY ONLY <1>1, <1>3, k \in 1 .. Len(t), t[k] = w, \A i \in 1 .. k - 1 : t[i] # w
<1> QED BY <1>2, <1>4

LEMMA FindNot ==
  ASSUME NEW t \in Text, NEW w, \A i \in 1 .. Len(t) : t[i] # w
  PROVE  Find(t, w) = 0
BY FindIs, TextIs

\* What is behind the words that are all w.
StartsAt(t, a, w) ==
  /\ a \in 1 .. Len(t) + 1
  /\ \A i \in 1 .. a - 1 : t[i] = w
  /\ a <= Len(t) => t[a] # w
LEMMA SkipOfIs ==
  ASSUME NEW t \in Text, NEW w, w # "end"
  PROVE  \E a : StartsAt(t, a, w) /\ SkipOf(t, w) = From(t, a)
<1>1. PICK u : u = t \o <<"end">>
  OBVIOUS
<1>2. Len(t) \in Nat /\ Len(u) = Len(t) + 1 /\ u[Len(t) + 1] = "end"
      /\ \A i \in 1 .. Len(t) : u[i] = t[i]
  <2>1. "end" \in Word
    BY Words
  <2>2. <<"end">> \in Seq(Word) /\ Len(<<"end">>) = 1 /\ <<"end">>[1] = "end"
    BY <2>1
  <2> QED BY <1>1, <2>2, TextIs, ConcatProperties DEF Text
<1> DEFINE I == {i \in 1 .. Len(u) : u[i] # w}
<1>3. SelectInSeq(u, LAMBDA x : x # w) = IF I # {} THEN Min(I) ELSE 0
  BY DEF SelectInSeq
<1>4. Len(t) + 1 \in I /\ I \subseteq Nat
  BY <1>2
<1>5. Min(I) \in I /\ \A y \in I : Min(I) <= y
  BY <1>4, MinIs
<1>6. PICK a : a = Min(I)
  OBVIOUS
<1>7. SkipOf(t, w) = From(t, a)
  BY <1>1, <1>3, <1>4, <1>6 DEF SkipOf
<1>8. StartsAt(t, a, w)
  <2>1. a \in 1 .. Len(t) + 1
    BY <1>2, <1>5, <1>6
  <2>2. ASSUME NEW i \in 1 .. a - 1 PROVE t[i] = w
    <3>1. i \in 1 .. Len(t) /\ i \notin I
      BY <1>2, <1>5, <1>6, <2>1
    <3> QED BY <1>2, <3>1
  <2>3. a <= Len(t) => t[a] # w
    BY <1>2, <1>5, <1>6, <2>1
  <2> QED BY <2>1, <2>2, <2>3 DEF StartsAt
<1> QED BY <1>7, <1>8

LEMMA SkipOfAt ==
  ASSUME NEW t \in Text, NEW w, w # "end", NEW a, StartsAt(t, a, w)
  PROVE  SkipOf(t, w) = From(t, a)
<1>1. PICK b : StartsAt(t, b, w) /\ SkipOf(t, w) = From(t, b)
  BY SkipOfIs
<1>2. Len(t) \in Nat
  BY TextIs
<1>3. a = b
  BY <1>1, <1>2 DEF StartsAt
<1> QED BY <1>1, <1>3

\* A text and the same backwards.
LEMMA ReverseIs ==
  ASSUME NEW t \in Text
  PROVE  /\ Reverse(t) \in Text /\ Len(Reverse(t)) = Len(t)
         /\ \A i \in 1 .. Len(t) : Reverse(t)[i] = t[Len(t) - i + 1]
<1>1. PICK n : n = Len(t) /\ n \in Nat
  BY TextIs
<1>2. PICK r : r = [i \in 1 .. n |-> t[(n - i) + 1]]
  OBVIOUS
<1>3. r = Reverse(t)
  BY <1>1, <1>2 DEF Reverse
<1>4. \A i \in 1 .. n : t[i] \in Word
  BY <1>1, TextIs
<1>5. \A i \in 1 .. n : n - i + 1 \in 1 .. n /\ r[i] = t[n - i + 1]
  BY <1>1, <1>2
<1>6. r \in [1 .. n -> Word]
  BY ONLY <1>2, <1>4, <1>5
<1>7. r \in Seq(Word) /\ Len(r) = n
  BY ONLY <1>1, <1>6, LenProperties
<1> QED BY ONLY <1>1, <1>3, <1>5, <1>7 DEF Text

\* What is between the blanks at both ends.
Between(t, a, b) ==
  /\ a \in 1 .. Len(t) + 1 /\ b \in a - 1 .. Len(t)
  /\ \A i \in 1 .. a - 1 : t[i] = BLANK
  /\ \A i \in b + 1 .. Len(t) : t[i] = BLANK
  /\ a <= b => t[a] # BLANK /\ t[b] # BLANK
  /\ a > b => a = Len(t) + 1

LEMMA StripIs ==
  ASSUME NEW t \in Text
  PROVE  \E a, b : Between(t, a, b) /\ Strip(t) = SubSeq(t, a, b)
<1>1. PICK a : StartsAt(t, a, BLANK) /\ SkipOf(t, BLANK) = From(t, a)
  BY SkipOfIs, Delimiters
<1>2. PICK u : u = From(t, a)
  OBVIOUS
<1>3. Len(t) \in Nat /\ a \in 1 .. Len(t) + 1
  BY <1>1, TextIs DEF StartsAt
<1>4. /\ u \in Text /\ Len(u) = Len(t) - a + 1
      /\ \A i \in 1 .. Len(t) - a + 1 : u[i] = t[a + i - 1]
  BY <1>2, <1>3, BehindIs
<1>5. PICK v : v = Reverse(u)
  OBVIOUS
<1>6. v \in Text /\ Len(v) = Len(u) /\ \A i \in 1 .. Len(u) : v[i] = u[Len(u) - i + 1]
  BY <1>4, <1>5, ReverseIs
<1>7. PICK c : StartsAt(v, c, BLANK) /\ SkipOf(v, BLANK) = From(v, c)
  BY <1>6, SkipOfIs, Delimiters
<1>8. PICK x : x = From(v, c)
  OBVIOUS
<1>9. c \in 1 .. Len(v) + 1
  BY <1>7 DEF StartsAt
<1>10. /\ x \in Text /\ Len(x) = Len(v) - c + 1
       /\ \A i \in 1 .. Len(v) - c + 1 : x[i] = v[c + i - 1]
  BY <1>6, <1>8, <1>9, BehindIs
<1>11. PICK y : y = Reverse(x)
  OBVIOUS
<1>12. y \in Text /\ Len(y) = Len(x) /\ \A i \in 1 .. Len(x) : y[i] = x[Len(x) - i + 1]
  BY <1>10, <1>11, ReverseIs
<1>13. y = Strip(t)
  BY <1>1, <1>2, <1>5, <1>7, <1>8, <1>11 DEF Strip
<1>14. PICK m, n : m = Len(u) /\ n = Len(t) /\ n \in Nat /\ m = n - a + 1 /\ m \in Nat
  BY <1>3, <1>4
<1>15. PICK b : b = n - c + 1
  OBVIOUS
<1>16. /\ c \in 1 .. m + 1 /\ b \in a - 1 .. n /\ Len(v) = m /\ Len(x) = m - c + 1
       /\ m - c + 1 = b - a + 1
  BY ONLY <1>3, <1>6, <1>9, <1>10, <1>14, <1>15
<1>17. /\ SubSeq(t, a, b) \in Text /\ Len(SubSeq(t, a, b)) = b - a + 1
       /\ \A i \in 1 .. b - a + 1 : SubSeq(t, a, b)[i] = t[a + i - 1]
  BY <1>3, <1>14, <1>16, PieceIs
<1>18. ASSUME NEW i \in 1 .. Len(x) PROVE y[i] = t[a + i - 1]
  <2>1. PICK j, k : j = Len(x) - i + 1 /\ k = m - (c + j - 1) + 1
    OBVIOUS
  <2>2. /\ j \in 1 .. Len(v) - c + 1 /\ c + j - 1 \in 1 .. Len(u) /\ k \in 1 .. Len(t) - a + 1
        /\ k = i
    <3>1. /\ m \in Nat /\ n \in Nat /\ c \in 1 .. m + 1 /\ a \in 1 .. n + 1 /\ m = n - a + 1
          /\ i \in 1 .. m - c + 1 /\ Len(v) = m /\ Len(u) = m /\ Len(t) = n
          /\ Len(x) = m - c + 1
      BY ONLY <1>14, <1>16, <1>18, <1>3
    <3>2. j = m - c + 1 - i + 1 /\ k = m - (c + j - 1) + 1
      BY ONLY <2>1, <3>1
    <3>3. j \in 1 .. m - c + 1 /\ c + j - 1 \in 1 .. m /\ k = i /\ k \in 1 .. n - a + 1
      BY ONLY <3>1, <3>2
    <3> QED BY ONLY <3>1, <3>3
  <2>3. i \in 1 .. Len(x)
    BY <1>18
  <2>4. y[i] = x[j]
    BY ONLY <1>12, <2>1, <2>3
  <2>5. x[j] = v[c + j - 1]
    BY ONLY <1>10, <2>2
  <2>6. v[c + j - 1] = u[k]
    BY ONLY <1>6, <1>14, <2>1, <2>2
  <2>7. u[k] = t[a + k - 1]
    BY ONLY <1>4, <2>2
  <2> QED BY ONLY <2>2, <2>4, <2>5, <2>6, <2>7
<1>19. y = SubSeq(t, a, b)
  <2>1. PICK z : z = SubSeq(t, a, b)
    OBVIOUS
  <2>2. Len(y) = Len(z) /\ z \in Text /\ \A i \in 1 .. Len(y) : y[i] = z[i]
    BY ONLY <1>12, <1>16, <1>17, <1>18, <2>1
  <2>3. y = z
    BY ONLY <1>12, <2>2, SameText
  <2> QED BY ONLY <2>1, <2>3
<1>20. \A i \in 1 .. m : v[i] = t[n - i + 1]
  <2> TAKE i \in 1 .. m
  <2>1. m - i + 1 \in 1 .. Len(t) - a + 1 /\ a + (m - i + 1) - 1 = n - i + 1
    BY ONLY <1>14, <1>3, i \in 1 .. m
  <2>2. v[i] = u[m - i + 1]
    BY ONLY <1>6, <1>14, i \in 1 .. m
  <2> QED BY ONLY <2>1, <2>2, <1>4
<1>21. Between(t, a, b)
  <2>1. ASSUME NEW i \in b + 1 .. n PROVE t[i] = BLANK
    <3>1. n - i + 1 \in 1 .. c - 1 /\ n - i + 1 \in 1 .. m /\ n - (n - i + 1) + 1 = i
      BY ONLY <1>3, <1>14, <1>15, <1>16, <2>1
    <3>2. v[n - i + 1] = BLANK
      BY <3>1, <1>7 DEF StartsAt
    <3> QED BY ONLY <3>1, <3>2, <1>20
  <2>2. \A i \in 1 .. a - 1 : t[i] = BLANK
    BY <1>1 DEF StartsAt
  <2>3. a <= n => t[a] # BLANK
    BY <1>1, <1>14 DEF StartsAt
  <2>4. ASSUME a <= b PROVE t[b] # BLANK
    <3>1. c \in 1 .. m /\ c <= Len(v) /\ n - c + 1 = b
      BY ONLY <1>3, <1>14, <1>15, <1>16, <2>4
    <3>2. v[c] # BLANK
      BY <3>1, <1>7 DEF StartsAt
    <3> QED BY ONLY <3>1, <3>2, <1>20
  <2>5. ASSUME a > b PROVE a = n + 1
    <3>1. CASE a <= n
      <4>1. m >= 1 /\ c = m + 1
        BY ONLY <1>3, <1>14, <1>15, <1>16, <2>5, <3>1
      <4>2. v[m] = BLANK
        BY ONLY <4>1, <1>7, <1>16 DEF StartsAt
      <4>3. m \in 1 .. m /\ n - m + 1 = a
        BY ONLY <4>1, <1>14, <1>3
      <4>4. t[a] = BLANK
        BY ONLY <4>2, <4>3, <1>20
      <4> QED BY <2>3, <3>1, <4>4
    <3>2. CASE a > n
      BY ONLY <3>2, <1>3, <1>14
    <3> QED BY ONLY <3>1, <3>2, <1>3, <1>14
  <2>6. a <= b => a <= n
    BY ONLY <1>16, <1>14, <1>3
  <2> QED BY ONLY <2>1, <2>2, <2>3, <2>4, <2>5, <2>6, <1>3, <1>14, <1>16 DEF Between
<1> QED BY <1>13, <1>19, <1>21

LEMMA StripAt ==
  ASSUME NEW t \in Text, NEW a, NEW b, Between(t, a, b)
  PROVE  Strip(t) = SubSeq(t, a, b)
<1>1. PICK c, d : Between(t, c, d) /\ Strip(t) = SubSeq(t, c, d)
  BY StripIs
<1>2. Len(t) \in Nat
  BY TextIs
<1>3. ASSUME NEW x, NEW y, NEW u, NEW v, Between(t, x, y), Between(t, u, v), x < u PROVE FALSE
  <2>1. /\ x \in 1 .. Len(t) /\ x <= y /\ t[x] # BLANK /\ x \in 1 .. u - 1
    BY ONLY <1>2, <1>3 DEF Between
  <2> QED BY ONLY <1>3, <2>1 DEF Between
<1>4. ASSUME NEW x, NEW y, NEW v, Between(t, x, y), Between(t, x, v), y < v PROVE FALSE
  <2>1. x <= v /\ v \in y + 1 .. Len(t) /\ t[v] # BLANK
    BY ONLY <1>2, <1>4 DEF Between
  <2> QED BY ONLY <1>4, <2>1 DEF Between
<1>5. a \in Nat /\ b \in Int /\ c \in Nat /\ d \in Int
  BY ONLY <1>1, <1>2, Between(t, a, b) DEF Between
<1>6. a = c
  <2>1. ~(a < c) /\ ~(c < a)
    BY <1>1, <1>3
  <2> QED BY ONLY <1>5, <2>1
<1>7. b = d
  <2>1. ~(b < d) /\ ~(d < b)
    BY <1>1, <1>4, <1>6
  <2> QED BY ONLY <1>5, <2>1
<1> QED BY ONLY <1>1, <1>6, <1>7

\* A text with nothing to strip, and what Strip leaves of any.
Trim(t) == t \in Text /\ (t # << >> => t[1] # BLANK /\ t[Len(t)] # BLANK)

LEMMA StripTrim ==
  ASSUME NEW t \in Text
  PROVE  /\ Trim(Strip(t))
         /\ \A w : (\A i \in 1 .. Len(t) : t[i] # w) => (\A i \in 1 .. Len(Strip(t)) : Strip(t)[i] # w)
<1>1. PICK a, b, s : Between(t, a, b) /\ s = SubSeq(t, a, b) /\ Strip(t) = s
  BY StripIs
<1>2. Len(t) \in Nat /\ a \in 1 .. Len(t) + 1 /\ b \in a - 1 .. Len(t)
  BY <1>1, TextIs DEF Between
<1>3. s \in Text /\ Len(s) = b - a + 1 /\ \A i \in 1 .. b - a + 1 : s[i] = t[a + i - 1]
  BY <1>1, <1>2, PieceIs
<1>4. ASSUME s # << >> PROVE s[1] # BLANK /\ s[Len(s)] # BLANK
  <2>1. Len(s) # 0
    BY <1>3, <1>4, EmptySeq DEF Text
  <2>2. a <= b
    BY ONLY <1>2, <1>3, <2>1
  <2>3. t[a] # BLANK /\ t[b] # BLANK
    BY <1>1, <2>2 DEF Between
  <2>4. /\ 1 \in 1 .. b - a + 1 /\ Len(s) \in 1 .. b - a + 1 /\ a + 1 - 1 = a
        /\ a + Len(s) - 1 = b
    BY ONLY <1>2, <1>3, <2>2
  <2>5. s[1] = t[a] /\ s[Len(s)] = t[b]
    BY ONLY <1>3, <2>4
  <2> QED BY ONLY <2>3, <2>5
<1>5. ASSUME NEW w, \A i \in 1 .. Len(t) : t[i] # w, NEW i \in 1 .. Len(s)
      PROVE  s[i] # w
  <2>1. i \in 1 .. b - a + 1 /\ a + i - 1 \in 1 .. Len(t)
    BY ONLY <1>2, <1>3, <1>5
  <2> QED BY ONLY <1>3, <1>5, <2>1
<1> QED BY ONLY <1>1, <1>3, <1>4, <1>5 DEF Trim

-------------------------------------------------------------------------------
(* Tokens                                                                    *)

\* The token behind place j of a text stands at a and ends before k.
TokenAt(t, j, a, k, w) ==
  /\ j \in 1 .. Len(t) + 1 /\ a \in j .. Len(t) + 1 /\ k \in a .. Len(t) + 1
  /\ \A i \in j .. a - 1 : t[i] = w
  /\ \A i \in a .. k - 1 : t[i] # w
  /\ k <= Len(t) => t[k] = w
  /\ k = a => a = Len(t) + 1

Token(r, w) == NextToken(SkipOf(r, w), w)

LEMMA NextTokenIs ==
  ASSUME NEW u \in Text, NEW w \in Word
  PROVE  \E n \in 0 .. Len(u) :
           /\ \A i \in 1 .. n : u[i] # w
           /\ n < Len(u) => u[n + 1] = w
           /\ NextToken(u, w) = [ret |-> Strip(SubSeq(u, 1, n)), rest |-> From(u, n + 1)]
<1>1. PICK v : v = u \o <<w>>
  OBVIOUS
<1>2. /\ Len(u) \in Nat /\ v \in Text /\ Len(v) = Len(u) + 1 /\ v[Len(u) + 1] = w
      /\ \A i \in 1 .. Len(u) : v[i] = u[i]
  <2>1. <<w>> \in Seq(Word) /\ Len(<<w>>) = 1 /\ <<w>>[1] = w
    OBVIOUS
  <2> QED BY <1>1, <2>1, TextIs, ConcatProperties DEF Text
<1>3. PICK f : f = Find(v, w)
  OBVIOUS
<1>4. /\ f \in 0 .. Len(v)
      /\ f = 0 => \A i \in 1 .. Len(v) : v[i] # w
      /\ f # 0 => v[f] = w /\ \A i \in 1 .. f - 1 : v[i] # w
  BY ONLY <1>2, <1>3, FindIs
<1>5. f # 0
  BY ONLY <1>2, <1>4
<1>6. PICK n : n = f - 1
  OBVIOUS
<1>7. /\ n \in 0 .. Len(u)
      /\ \A i \in 1 .. n : u[i] # w
      /\ n < Len(u) => u[n + 1] = w
  BY ONLY <1>2, <1>4, <1>5, <1>6
<1>8. TokenLen(u, w) = n
  BY <1>1, <1>3, <1>6 DEF TokenLen
<1>9. NextToken(u, w) = [ret |-> Strip(SubSeq(u, 1, n)), rest |-> From(u, n + 1)]
  BY <1>8 DEF NextToken, Cut
<1> QED BY <1>7, <1>9

LEMMA TokenIs ==
  ASSUME NEW t \in Text, NEW j \in 1 .. Len(t) + 1, NEW w \in Word, w # "end"
  PROVE  \E a, k : /\ TokenAt(t, j, a, k, w)
                   /\ Token(From(t, j), w)
                        = [ret |-> Strip(SubSeq(t, a, k - 1)), rest |-> From(t, k)]
<1>1. PICK u, m : u = From(t, j) /\ m = Len(t) /\ m \in Nat
  BY TextIs
<1>2. u \in Text /\ Len(u) = m - j + 1 /\ \A i \in 1 .. m - j + 1 : u[i] = t[j + i - 1]
  BY <1>1, BehindIs
<1>3. PICK c : StartsAt(u, c, w) /\ SkipOf(u, w) = From(u, c)
  BY <1>2, SkipOfIs
<1>4. /\ c \in 1 .. Len(u) + 1
      /\ \A i \in 1 .. c - 1 : u[i] = w
      /\ c <= Len(u) => u[c] # w
  BY ONLY <1>3 DEF StartsAt
<1>5. PICK a : a = j + c - 1
  OBVIOUS
<1>6. a \in j .. m + 1 /\ c = a - j + 1 /\ c \in 1 .. m - j + 2
  BY ONLY <1>1, <1>2, <1>4, <1>5, j \in 1 .. Len(t) + 1
<1>7. From(u, c) = From(t, a)
  BY <1>1, <1>5, <1>6, BehindBehind
<1>8. PICK v : v = From(t, a)
  OBVIOUS
<1>9. a \in 1 .. Len(t) + 1
  BY ONLY <1>1, <1>6, j \in 1 .. Len(t) + 1
<1>10. v \in Text /\ Len(v) = m - a + 1 /\ \A i \in 1 .. m - a + 1 : v[i] = t[a + i - 1]
  BY <1>1, <1>8, <1>9, BehindIs
<1>11. PICK n \in 0 .. Len(v) :
         /\ \A i \in 1 .. n : v[i] # w
         /\ n < Len(v) => v[n + 1] = w
         /\ NextToken(v, w) = [ret |-> Strip(SubSeq(v, 1, n)), rest |-> From(v, n + 1)]
  BY <1>10, NextTokenIs
<1>12. PICK k : k = a + n
  OBVIOUS
<1>13. k \in a .. m + 1 /\ n + 1 \in 1 .. m - a + 2 /\ a + (n + 1) - 1 = k /\ k - 1 = a + n - 1
  BY ONLY <1>1, <1>9, <1>10, <1>12, n \in 0 .. Len(v)
<1>14. From(v, n + 1) = From(t, k)
  BY <1>1, <1>8, <1>9, <1>13, BehindBehind
<1>15. SubSeq(v, 1, n) = SubSeq(t, a, k - 1)
  <2>1. PICK x, y : x = SubSeq(v, 1, n) /\ y = SubSeq(t, a, k - 1)
    OBVIOUS
  <2>2. 1 \in 1 .. Len(v) + 1 /\ n \in 1 - 1 .. Len(v) /\ k - 1 \in a - 1 .. Len(t)
    BY ONLY <1>1, <1>9, <1>10, <1>13, n \in 0 .. Len(v)
  <2>3. x \in Text /\ Len(x) = n - 1 + 1 /\ \A i \in 1 .. n - 1 + 1 : x[i] = v[1 + i - 1]
    BY <1>10, <2>1, <2>2, PieceIs
  <2>4. /\ y \in Text /\ Len(y) = (k - 1) - a + 1
        /\ \A i \in 1 .. (k - 1) - a + 1 : y[i] = t[a + i - 1]
    BY <1>9, <2>1, <2>2, PieceIs
  <2>5. Len(x) = Len(y)
    BY ONLY <1>13, <2>3, <2>4, <1>9, n \in 0 .. Len(v), <1>10, <1>1
  <2>6. \A i \in 1 .. Len(x) : x[i] = y[i]
    <3> TAKE i \in 1 .. Len(x)
    <3>1. /\ i \in 1 .. n - 1 + 1 /\ i \in 1 .. (k - 1) - a + 1 /\ 1 + i - 1 = i
          /\ i \in 1 .. m - a + 1
      BY ONLY <1>1, <1>9, <1>10, <1>13, <2>3, n \in 0 .. Len(v), i \in 1 .. Len(x)
    <3>2. x[i] = v[i] /\ y[i] = t[a + i - 1] /\ v[i] = t[a + i - 1]
      BY ONLY <1>10, <2>3, <2>4, <3>1
    <3> QED BY ONLY <3>2
  <2>7. x = y
    BY ONLY <2>3, <2>4, <2>5, <2>6, SameText
  <2> QED BY ONLY <2>1, <2>7
<1>16. Token(u, w) = [ret |-> Strip(SubSeq(t, a, k - 1)), rest |-> From(t, k)]
  <2>1. SkipOf(u, w) = v
    BY ONLY <1>3, <1>7, <1>8
  <2> QED BY ONLY <1>11, <1>14, <1>15, <2>1 DEF Token
<1>17. TokenAt(t, j, a, k, w)
  <2>1. ASSUME NEW i \in j .. a - 1 PROVE t[i] = w
    <3>1. i - j + 1 \in 1 .. c - 1 /\ i - j + 1 \in 1 .. m - j + 1 /\ j + (i - j + 1) - 1 = i
      BY ONLY <1>1, <1>6, <2>1, j \in 1 .. Len(t) + 1
    <3> QED BY ONLY <1>2, <1>4, <3>1
  <2>2. ASSUME NEW i \in a .. k - 1 PROVE t[i] # w
    <3>1. i - a + 1 \in 1 .. n /\ i - a + 1 \in 1 .. m - a + 1 /\ a + (i - a + 1) - 1 = i
      BY ONLY <1>1, <1>9, <1>13, <1>12, <2>2, n \in 0 .. Len(v), <1>10
    <3> QED BY ONLY <1>10, <1>11, <3>1
  <2>3. ASSUME k <= m PROVE t[k] = w
    <3>1. n < Len(v) /\ n + 1 \in 1 .. m - a + 1 /\ a + (n + 1) - 1 = k
      BY ONLY <1>1, <1>9, <1>10, <1>12, <2>3, n \in 0 .. Len(v)
    <3> QED BY ONLY <1>10, <1>11, <3>1
  <2>4. ASSUME a <= m PROVE k # a
    <3>1. c <= Len(u) /\ c \in 1 .. m - j + 1 /\ j + c - 1 = a
      BY ONLY <1>1, <1>2, <1>5, <1>6, <2>4, j \in 1 .. Len(t) + 1
    <3>2. t[a] # w
      BY ONLY <1>2, <1>4, <3>1
    <3> QED BY ONLY <2>3, <2>4, <3>2
  <2>5. k = a => a = m + 1
    BY ONLY <1>1, <1>6, <2>4, j \in 1 .. Len(t) + 1
  <2> QED BY ONLY <1>1, <1>6, <1>13, <2>1, <2>2, <2>3, <2>5, j \in 1 .. Len(t) + 1 DEF TokenAt
<1> QED BY <1>1, <1>16, <1>17

LEMMA TokenThere ==
  ASSUME NEW t \in Text, NEW j, NEW a, NEW k, NEW w \in Word, w # "end",
         TokenAt(t, j, a, k, w)
  PROVE  Token(From(t, j), w) = [ret |-> Strip(SubSeq(t, a, k - 1)), rest |-> From(t, k)]
<1>1. Len(t) \in Nat /\ j \in 1 .. Len(t) + 1
  BY TextIs DEF TokenAt
<1>2. PICK b, l : /\ TokenAt(t, j, b, l, w)
                  /\ Token(From(t, j), w)
                       = [ret |-> Strip(SubSeq(t, b, l - 1)), rest |-> From(t, l)]
  BY <1>1, TokenIs
<1>3. ASSUME NEW x, NEW y, NEW u, NEW v, TokenAt(t, j, x, y, w), TokenAt(t, j, u, v, w), x < u
      PROVE  FALSE
  <2>1. x \in j .. u - 1 /\ x # Len(t) + 1
    BY ONLY <1>1, <1>3 DEF TokenAt
  <2>2. t[x] = w /\ x # y
    BY ONLY <1>3, <2>1 DEF TokenAt
  <2>3. x \in x .. y - 1
    BY ONLY <1>1, <1>3, <2>2 DEF TokenAt
  <2> QED BY ONLY <1>3, <2>2, <2>3 DEF TokenAt
<1>4. ASSUME NEW x, NEW y, NEW v, TokenAt(t, j, x, y, w), TokenAt(t, j, x, v, w), y < v
      PROVE  FALSE
  <2>1. y \in x .. v - 1 /\ y <= Len(t)
    BY ONLY <1>1, <1>4 DEF TokenAt
  <2> QED BY ONLY <1>4, <2>1 DEF TokenAt
<1>5. a \in Nat /\ b \in Nat /\ k \in Nat /\ l \in Nat
  BY ONLY <1>1, <1>2, TokenAt(t, j, a, k, w) DEF TokenAt
<1>6. a = b
  <2>1. ~(a < b) /\ ~(b < a)
    BY <1>2, <1>3
  <2> QED BY ONLY <1>5, <2>1
<1>7. k = l
  <2>1. ~(k < l) /\ ~(l < k)
    BY <1>2, <1>4, <1>6
  <2> QED BY ONLY <1>5, <2>1
<1> QED BY ONLY <1>2, <1>6, <1>7

\* What Take has after n delimiters.
Takes(f, t, delims, n) ==
  f = [i \in 0 .. n |->
         IF i = 0 THEN [got |-> << >>, rest |-> t]
         ELSE TakeNext(f[i - 1], delims[i])]

LEMMA TakesExists ==
  ASSUME NEW t, NEW delims, NEW n \in Nat
  PROVE  \E f : Takes(f, t, delims, n)
<1> DEFINE B == {k \in Nat : ~\E f : Takes(f, t, delims, k)}
           None == [got |-> << >>, rest |-> t]
<1>0. \A f, k : Takes(f, t, delims, k) <=>
        f = [i \in 0 .. k |-> IF i = 0 THEN None ELSE TakeNext(f[i - 1], delims[i])]
  BY DEF Takes
<1> HIDE DEF None
<1>1. SUFFICES ASSUME B # {} PROVE FALSE
  OBVIOUS
<1>2. PICK k \in B : \A j \in B : k <= j
  BY <1>1, MinIs
<1>3. CASE k = 0
  <2> DEFINE f == [i \in 0 .. 0 |-> None]
  <2>1. f = [i \in 0 .. 0 |-> IF i = 0 THEN None ELSE TakeNext(f[i - 1], delims[i])]
    OBVIOUS
  <2>2. Takes(f, t, delims, 0)
    BY <1>0, <2>1
  <2> QED BY <1>2, <1>3, <2>2
<1>4. CASE k # 0
  <2>1. k - 1 \in Nat /\ k - 1 \notin B
    BY <1>2, <1>4
  <2>2. PICK f : Takes(f, t, delims, k - 1)
    BY <2>1
  <2> DEFINE g == [i \in 0 .. k |-> IF i = 0 THEN None ELSE TakeNext(f[i - 1], delims[i])]
  <2>3. \A i \in 0 .. k - 1 : f[i] = IF i = 0 THEN None ELSE TakeNext(f[i - 1], delims[i])
    BY <1>0, <2>2
  <2>4. \A i \in 0 .. k - 1 : g[i] = f[i]
    BY <2>1, <2>3
  <2>5. \A i \in 0 .. k : i # 0 => f[i - 1] = g[i - 1]
    <3>1. \A i \in 0 .. k : i # 0 => i - 1 \in 0 .. k - 1
      BY <2>1
    <3> HIDE DEF g
    <3> QED BY <2>4, <3>1
  <2>6. g = [i \in 0 .. k |-> IF i = 0 THEN None ELSE TakeNext(g[i - 1], delims[i])]
    BY <2>5
  <2>7. Takes(g, t, delims, k)
    BY <1>0, <2>6
  <2> QED BY <1>2, <2>7
<1> QED BY <1>3, <1>4

Taking(f, t, delims, n) ==
  /\ f[0] = [got |-> << >>, rest |-> t]
  /\ \A i \in 1 .. n :
       f[i] = [got |-> Append(f[i - 1].got, Token(f[i - 1].rest, delims[i]).ret),
               rest |-> Token(f[i - 1].rest, delims[i]).rest]

LEMMA TakeIs ==
  ASSUME NEW t, NEW delims, NEW n \in Nat, Len(delims) = n
  PROVE  \E f : Take(t, delims) = f[n] /\ Taking(f, t, delims, n)
<1>1. \E f : Takes(f, t, delims, n)
  BY TakesExists
<1>2. PICK f : f = CHOOSE g : Takes(g, t, delims, n)
  OBVIOUS
<1>3. Takes(f, t, delims, n)
  BY <1>1, <1>2
<1>4. Take(t, delims) = f[n]
  BY <1>2 DEF Take, Takes
<1>5. f = [i \in 0 .. n |-> IF i = 0 THEN [got |-> << >>, rest |-> t]
                            ELSE TakeNext(f[i - 1], delims[i])]
  BY <1>3 DEF Takes
<1>6. \A x, d : TakeNext(x, d) = [got |-> Append(x.got, Token(x.rest, d).ret),
                              rest |-> Token(x.rest, d).rest]
  BY DEF Token, TakeNext, WithToken
<1>7. f[0] = [got |-> << >>, rest |-> t] /\ \A i \in 1 .. n : f[i] = TakeNext(f[i - 1], delims[i])
  BY <1>5
<1>8. Taking(f, t, delims, n)
  BY <1>6, <1>7 DEF Taking
<1> QED BY <1>4, <1>8

\* A token is a text without blanks at its ends and without the delimiter.
Without(t, w) == \A i \in 1 .. Len(t) : t[i] # w

LEMMA TokenOk ==
  ASSUME NEW r \in Text, NEW w \in Word, w # "end"
  PROVE  /\ Trim(Token(r, w).ret) /\ Without(Token(r, w).ret, w)
         /\ Token(r, w).rest \in Text
<1>1. Len(r) \in Nat
  BY TextIs
<1>2. From(r, 1) = r
  <2>1. /\ From(r, 1) \in Text /\ Len(From(r, 1)) = Len(r) - 1 + 1
        /\ \A i \in 1 .. Len(r) - 1 + 1 : From(r, 1)[i] = r[1 + i - 1]
    BY <1>1, BehindIs
  <2>2. Len(From(r, 1)) = Len(r) /\ \A i \in 1 .. Len(r) : r[i] = From(r, 1)[i]
    BY <1>1, <2>1
  <2> QED BY <2>1, <2>2, SameText
<1>3. PICK a, k : /\ TokenAt(r, 1, a, k, w)
                  /\ Token(r, w) = [ret |-> Strip(SubSeq(r, a, k - 1)), rest |-> From(r, k)]
  BY <1>1, <1>2, TokenIs
<1>4. /\ a \in 1 .. Len(r) + 1 /\ k \in a .. Len(r) + 1 /\ k \in 1 .. Len(r) + 1
      /\ \A i \in a .. k - 1 : r[i] # w
  BY ONLY <1>1, <1>3 DEF TokenAt
<1>5. PICK x : x = SubSeq(r, a, k - 1)
  OBVIOUS
<1>6. /\ x \in Text /\ Len(x) = (k - 1) - a + 1
      /\ \A i \in 1 .. (k - 1) - a + 1 : x[i] = r[a + i - 1]
  <2>1. k - 1 \in a - 1 .. Len(r)
    BY ONLY <1>1, <1>4
  <2> QED BY <1>4, <1>5, <2>1, PieceIs
<1>7. \A i \in 1 .. Len(x) : x[i] # w
  <2> TAKE i \in 1 .. Len(x)
  <2>1. i \in 1 .. (k - 1) - a + 1 /\ a + i - 1 \in a .. k - 1
    BY ONLY <1>1, <1>4, <1>6, i \in 1 .. Len(x)
  <2> QED BY ONLY <1>4, <1>6, <2>1
<1>8. Trim(Strip(x)) /\ Without(Strip(x), w)
  BY <1>6, <1>7, StripTrim DEF Without
<1>9. From(r, k) \in Text
  BY <1>4, BehindIs
<1> QED BY <1>3, <1>5, <1>8, <1>9

\* The tokens of a text.
IsDelims(delims) == delims \in Seq(Word \ {"end"})

LEMMA TakeOk ==
  ASSUME NEW t \in Text, NEW delims, IsDelims(delims)
  PROVE  /\ Take(t, delims).rest \in Text
         /\ Take(t, delims).got \in Seq(Text)
         /\ Len(Take(t, delims).got) = Len(delims)
         /\ \A i \in 1 .. Len(delims) : /\ Trim(Take(t, delims).got[i])
                                        /\ Without(Take(t, delims).got[i], delims[i])
<1>1. PICK n \in Nat : n = Len(delims) /\ \A i \in 1 .. n : delims[i] \in Word /\ delims[i] # "end"
  BY LenProperties, ElementOfSeq DEF IsDelims
<1>2. PICK f : Take(t, delims) = f[n] /\ Taking(f, t, delims, n)
  <2>1. n \in Nat /\ Len(delims) = n
    BY <1>1
  <2> QED BY ONLY <2>1, TakeIs
<1> DEFINE Ok(m) == /\ f[m].rest \in Text /\ f[m].got \in Seq(Text) /\ Len(f[m].got) = m
                    /\ \A i \in 1 .. m : Trim(f[m].got[i]) /\ Without(f[m].got[i], delims[i])
           B == {m \in 0 .. n : ~Ok(m)}
<1>3. B = {}
  <2>1. SUFFICES ASSUME B # {} PROVE FALSE
    OBVIOUS
  <2>2. PICK m \in B : \A j \in B : m <= j
    <3>1. B \subseteq Nat
      BY <1>1
    <3> QED BY ONLY <2>1, <3>1, MinIs
  <2>3. Ok(0)
    <3>1. << >> \in Seq(Text) /\ Len(<< >>) = 0
      OBVIOUS
    <3>2. f[0].got = << >> /\ f[0].rest = t
      BY <1>2 DEF Taking
    <3>3. 1 .. 0 = {}
      OBVIOUS
    <3> QED BY ONLY <3>1, <3>2, <3>3, t \in Text
  <2>4. m \in 0 .. n /\ ~Ok(m) /\ m # 0 /\ m - 1 \in 0 .. n /\ m - 1 \notin B /\ m \in 1 .. n
    BY <2>2, <2>3
  <2>5. Ok(m - 1)
    BY <2>4
  <2>6. PICK p, x : p = f[m - 1] /\ x = Token(p.rest, delims[m])
    OBVIOUS
  <2>7. /\ p.rest \in Text /\ p.got \in Seq(Text) /\ Len(p.got) = m - 1
        /\ \A i \in 1 .. m - 1 : Trim(p.got[i]) /\ Without(p.got[i], delims[i])
    BY <2>5, <2>6
  <2>8. f[m] = [got |-> Append(p.got, x.ret), rest |-> x.rest]
    BY <1>2, <2>4, <2>6 DEF Taking
  <2>9. Trim(x.ret) /\ Without(x.ret, delims[m]) /\ x.rest \in Text /\ x.ret \in Text
    BY <1>1, <2>4, <2>6, <2>7, TokenOk DEF Trim
  <2>10. PICK g : g = Append(p.got, x.ret)
    OBVIOUS
  <2>11. /\ g \in Seq(Text) /\ Len(g) = m /\ g[m] = x.ret
         /\ \A i \in 1 .. m - 1 : g[i] = p.got[i]
    BY <2>4, <2>7, <2>9, <2>10, AppendProperties
  <2>12. \A i \in 1 .. m : Trim(g[i]) /\ Without(g[i], delims[i])
    BY ONLY <2>4, <2>7, <2>9, <2>11
  <2>13. f[m].got = g /\ f[m].rest = x.rest
    BY <2>8, <2>10
  <2> QED BY ONLY <2>4, <2>9, <2>11, <2>12, <2>13
<1>4. Ok(n)
  BY <1>1, <1>3
<1> QED BY <1>1, <1>2, <1>4

\* Short sequences, one longer.
LEMMA Append1 ==
  ASSUME NEW a, NEW b
  PROVE  Append(<<a>>, b) = <<a, b>>
<1> DEFINE T == {a, b}
<1>1. PICK s, t : s = Append(<<a>>, b) /\ t = <<a, b>>
  OBVIOUS
<1>2. <<a>> \in Seq(T) /\ t \in Seq(T) /\ b \in T /\ Len(<<a>>) = 1
  BY <1>1
<1>3. s \in Seq(T) /\ Len(s) = 2 /\ s[1] = a /\ s[2] = b
  BY <1>1, <1>2, AppendProperties
<1>4. Len(s) = Len(t) /\ \A i \in 1 .. Len(s) : s[i] = t[i]
  BY <1>1, <1>3
<1>5. s = t
  BY ONLY <1>2, <1>3, <1>4, SeqEqual
<1> QED BY <1>1, <1>5

LEMMA Append2 ==
  ASSUME NEW a, NEW b, NEW c
  PROVE  Append(<<a, b>>, c) = <<a, b, c>>
<1> DEFINE T == {a, b, c}
<1>1. PICK s, t : s = Append(<<a, b>>, c) /\ t = <<a, b, c>>
  OBVIOUS
<1>2. <<a, b>> \in Seq(T) /\ t \in Seq(T) /\ c \in T /\ Len(<<a, b>>) = 2
  BY <1>1
<1>3. s \in Seq(T) /\ Len(s) = 3 /\ s[1] = a /\ s[2] = b /\ s[3] = c
  BY <1>1, <1>2, AppendProperties
<1>4. Len(s) = Len(t) /\ \A i \in 1 .. Len(s) : s[i] = t[i]
  BY <1>1, <1>3
<1>5. s = t
  BY ONLY <1>2, <1>3, <1>4, SeqEqual
<1> QED BY <1>1, <1>5

LEMMA Append3 ==
  ASSUME NEW a, NEW b, NEW c, NEW d
  PROVE  Append(<<a, b, c>>, d) = <<a, b, c, d>>
<1> DEFINE T == {a, b, c, d}
<1>1. PICK s, t : s = Append(<<a, b, c>>, d) /\ t = <<a, b, c, d>>
  OBVIOUS
<1>2. <<a, b, c>> \in Seq(T) /\ t \in Seq(T) /\ d \in T /\ Len(<<a, b, c>>) = 3
  BY <1>1
<1>3. s \in Seq(T) /\ Len(s) = 4 /\ s[1] = a /\ s[2] = b /\ s[3] = c /\ s[4] = d
  BY <1>1, <1>2, AppendProperties
<1>4. Len(s) = Len(t) /\ \A i \in 1 .. Len(s) : s[i] = t[i]
  BY <1>1, <1>3
<1>5. s = t
  BY ONLY <1>2, <1>3, <1>4, SeqEqual
<1> QED BY <1>1, <1>5

\* The tokens, where it is known where they stand.
Piece(t, a, k) == Strip(SubSeq(t, a, k - 1))

LEMMA FromOne ==
  ASSUME NEW t \in Text
  PROVE  From(t, 1) = t
<1>1. Len(t) \in Nat
  BY TextIs
<1>2. /\ From(t, 1) \in Text /\ Len(From(t, 1)) = Len(t) - 1 + 1
      /\ \A i \in 1 .. Len(t) - 1 + 1 : From(t, 1)[i] = t[1 + i - 1]
  BY <1>1, BehindIs
<1>3. Len(From(t, 1)) = Len(t) /\ \A i \in 1 .. Len(t) : t[i] = From(t, 1)[i]
  BY <1>1, <1>2
<1> QED BY <1>2, <1>3, SameText

LEMMA Take1At ==
  ASSUME NEW t \in Text,
         NEW a1, NEW k1,
         NEW w1 \in Word \ {"end"},
         TokenAt(t, 1, a1, k1, w1)
  PROVE  Take(t, <<w1>>)
           = [got |-> <<Piece(t, a1, k1)>>, rest |-> From(t, k1)]
<1>1. PICK d, n : d = <<w1>> /\ n = 1
  OBVIOUS
<1>2. n \in Nat /\ Len(d) = n /\ d[1] = w1
  BY <1>1
<1>3. PICK f : Take(t, d) = f[n] /\ Taking(f, t, d, n)
  BY ONLY <1>2, TakeIs
<1>4. f[0].got = << >> /\ f[0].rest = From(t, 1)
  BY <1>3, FromOne DEF Taking
<1>5. f[1].got = <<Piece(t, a1, k1)>> /\ f[1].rest = From(t, k1)
  <2>1. Token(From(t, 1), w1) = [ret |-> Piece(t, a1, k1), rest |-> From(t, k1)]
    BY TokenThere DEF Piece
  <2>2. 1 \in 1 .. n /\ 1 - 1 = 0
    BY <1>1
  <2>3. f[1] = [got |-> Append(f[0].got, Token(f[0].rest, w1).ret),
              rest |-> Token(f[0].rest, w1).rest]
    BY ONLY <1>2, <1>3, <2>2 DEF Taking
  <2>4. PICK p : p = Piece(t, a1, k1)
    OBVIOUS
  <2>5. Append(<< >>, p) = <<Piece(t, a1, k1)>>
    BY <2>4
  <2> QED BY ONLY <1>4, <2>1, <2>3, <2>4, <2>5
<1>6. f[1] = [got |-> <<Piece(t, a1, k1)>>, rest |-> From(t, k1)]
  <2>1. 1 \in 1 .. n /\ 1 - 1 = 0
    BY <1>1
  <2>2. f[1] = [got |-> f[1].got, rest |-> f[1].rest]
    <3>1. \E x, y : f[1] = [got |-> x, rest |-> y]
      BY ONLY <1>3, <2>1 DEF Taking
    <3> QED BY ONLY <3>1
  <2> QED BY ONLY <1>5, <2>2
<1> QED BY ONLY <1>1, <1>3, <1>6

LEMMA Take3At ==
  ASSUME NEW t \in Text,
         NEW a1, NEW k1, NEW a2, NEW k2, NEW a3, NEW k3,
         NEW w1 \in Word \ {"end"}, NEW w2 \in Word \ {"end"}, NEW w3 \in Word \ {"end"},
         TokenAt(t, 1, a1, k1, w1), TokenAt(t, k1, a2, k2, w2), TokenAt(t, k2, a3, k3, w3)
  PROVE  Take(t, <<w1, w2, w3>>)
           = [got |-> <<Piece(t, a1, k1), Piece(t, a2, k2), Piece(t, a3, k3)>>, rest |-> From(t, k3)]
<1>1. PICK d, n : d = <<w1, w2, w3>> /\ n = 3
  OBVIOUS
<1>2. n \in Nat /\ Len(d) = n /\ d[1] = w1 /\ d[2] = w2 /\ d[3] = w3
  BY <1>1
<1>3. PICK f : Take(t, d) = f[n] /\ Taking(f, t, d, n)
  BY ONLY <1>2, TakeIs
<1>4. f[0].got = << >> /\ f[0].rest = From(t, 1)
  BY <1>3, FromOne DEF Taking
<1>5. f[1].got = <<Piece(t, a1, k1)>> /\ f[1].rest = From(t, k1)
  <2>1. Token(From(t, 1), w1) = [ret |-> Piece(t, a1, k1), rest |-> From(t, k1)]
    BY TokenThere DEF Piece
  <2>2. 1 \in 1 .. n /\ 1 - 1 = 0
    BY <1>1
  <2>3. f[1] = [got |-> Append(f[0].got, Token(f[0].rest, w1).ret),
              rest |-> Token(f[0].rest, w1).rest]
    BY ONLY <1>2, <1>3, <2>2 DEF Taking
  <2>4. PICK p : p = Piece(t, a1, k1)
    OBVIOUS
  <2>5. Append(<< >>, p) = <<Piece(t, a1, k1)>>
    BY <2>4
  <2> QED BY ONLY <1>4, <2>1, <2>3, <2>4, <2>5
<1>6. f[2].got = <<Piece(t, a1, k1), Piece(t, a2, k2)>> /\ f[2].rest = From(t, k2)
  <2>1. Token(From(t, k1), w2) = [ret |-> Piece(t, a2, k2), rest |-> From(t, k2)]
    BY TokenThere DEF Piece
  <2>2. 2 \in 1 .. n /\ 2 - 1 = 1
    BY <1>1
  <2>3. f[2] = [got |-> Append(f[1].got, Token(f[1].rest, w2).ret),
              rest |-> Token(f[1].rest, w2).rest]
    BY ONLY <1>2, <1>3, <2>2 DEF Taking
  <2>4. PICK p : p = Piece(t, a2, k2)
    OBVIOUS
  <2>5. Append(<<Piece(t, a1, k1)>>, p) = <<Piece(t, a1, k1), Piece(t, a2, k2)>>
    BY <2>4, Append1
  <2> QED BY ONLY <1>5, <2>1, <2>3, <2>4, <2>5
<1>7. f[3].got = <<Piece(t, a1, k1), Piece(t, a2, k2), Piece(t, a3, k3)>> /\ f[3].rest = From(t, k3)
  <2>1. Token(From(t, k2), w3) = [ret |-> Piece(t, a3, k3), rest |-> From(t, k3)]
    BY TokenThere DEF Piece
  <2>2. 3 \in 1 .. n /\ 3 - 1 = 2
    BY <1>1
  <2>3. f[3] = [got |-> Append(f[2].got, Token(f[2].rest, w3).ret),
              rest |-> Token(f[2].rest, w3).rest]
    BY ONLY <1>2, <1>3, <2>2 DEF Taking
  <2>4. PICK p : p = Piece(t, a3, k3)
    OBVIOUS
  <2>5. Append(<<Piece(t, a1, k1), Piece(t, a2, k2)>>, p) = <<Piece(t, a1, k1), Piece(t, a2, k2), Piece(t, a3, k3)>>
    BY <2>4, Append2
  <2> QED BY ONLY <1>6, <2>1, <2>3, <2>4, <2>5
<1>8. f[3] = [got |-> <<Piece(t, a1, k1), Piece(t, a2, k2), Piece(t, a3, k3)>>, rest |-> From(t, k3)]
  <2>1. 3 \in 1 .. n /\ 3 - 1 = 2
    BY <1>1
  <2>2. f[3] = [got |-> f[3].got, rest |-> f[3].rest]
    <3>1. \E x, y : f[3] = [got |-> x, rest |-> y]
      BY ONLY <1>3, <2>1 DEF Taking
    <3> QED BY ONLY <3>1
  <2> QED BY ONLY <1>7, <2>2
<1> QED BY ONLY <1>1, <1>3, <1>8

LEMMA Take4At ==
  ASSUME NEW t \in Text,
         NEW a1, NEW k1, NEW a2, NEW k2, NEW a3, NEW k3, NEW a4, NEW k4,
         NEW w1 \in Word \ {"end"}, NEW w2 \in Word \ {"end"}, NEW w3 \in Word \ {"end"}, NEW w4 \in Word \ {"end"},
         TokenAt(t, 1, a1, k1, w1), TokenAt(t, k1, a2, k2, w2), TokenAt(t, k2, a3, k3, w3), TokenAt(t, k3, a4, k4, w4)
  PROVE  Take(t, <<w1, w2, w3, w4>>)
           = [got |-> <<Piece(t, a1, k1), Piece(t, a2, k2), Piece(t, a3, k3), Piece(t, a4, k4)>>, rest |-> From(t, k4)]
<1>1. PICK d, n : d = <<w1, w2, w3, w4>> /\ n = 4
  OBVIOUS
<1>2. n \in Nat /\ Len(d) = n /\ d[1] = w1 /\ d[2] = w2 /\ d[3] = w3 /\ d[4] = w4
  BY <1>1
<1>3. PICK f : Take(t, d) = f[n] /\ Taking(f, t, d, n)
  BY ONLY <1>2, TakeIs
<1>4. f[0].got = << >> /\ f[0].rest = From(t, 1)
  BY <1>3, FromOne DEF Taking
<1>5. f[1].got = <<Piece(t, a1, k1)>> /\ f[1].rest = From(t, k1)
  <2>1. Token(From(t, 1), w1) = [ret |-> Piece(t, a1, k1), rest |-> From(t, k1)]
    BY TokenThere DEF Piece
  <2>2. 1 \in 1 .. n /\ 1 - 1 = 0
    BY <1>1
  <2>3. f[1] = [got |-> Append(f[0].got, Token(f[0].rest, w1).ret),
              rest |-> Token(f[0].rest, w1).rest]
    BY ONLY <1>2, <1>3, <2>2 DEF Taking
  <2>4. PICK p : p = Piece(t, a1, k1)
    OBVIOUS
  <2>5. Append(<< >>, p) = <<Piece(t, a1, k1)>>
    BY <2>4
  <2> QED BY ONLY <1>4, <2>1, <2>3, <2>4, <2>5
<1>6. f[2].got = <<Piece(t, a1, k1), Piece(t, a2, k2)>> /\ f[2].rest = From(t, k2)
  <2>1. Token(From(t, k1), w2) = [ret |-> Piece(t, a2, k2), rest |-> From(t, k2)]
    BY TokenThere DEF Piece
  <2>2. 2 \in 1 .. n /\ 2 - 1 = 1
    BY <1>1
  <2>3. f[2] = [got |-> Append(f[1].got, Token(f[1].rest, w2).ret),
              rest |-> Token(f[1].rest, w2).rest]
    BY ONLY <1>2, <1>3, <2>2 DEF Taking
  <2>4. PICK p : p = Piece(t, a2, k2)
    OBVIOUS
  <2>5. Append(<<Piece(t, a1, k1)>>, p) = <<Piece(t, a1, k1), Piece(t, a2, k2)>>
    BY <2>4, Append1
  <2> QED BY ONLY <1>5, <2>1, <2>3, <2>4, <2>5
<1>7. f[3].got = <<Piece(t, a1, k1), Piece(t, a2, k2), Piece(t, a3, k3)>> /\ f[3].rest = From(t, k3)
  <2>1. Token(From(t, k2), w3) = [ret |-> Piece(t, a3, k3), rest |-> From(t, k3)]
    BY TokenThere DEF Piece
  <2>2. 3 \in 1 .. n /\ 3 - 1 = 2
    BY <1>1
  <2>3. f[3] = [got |-> Append(f[2].got, Token(f[2].rest, w3).ret),
              rest |-> Token(f[2].rest, w3).rest]
    BY ONLY <1>2, <1>3, <2>2 DEF Taking
  <2>4. PICK p : p = Piece(t, a3, k3)
    OBVIOUS
  <2>5. Append(<<Piece(t, a1, k1), Piece(t, a2, k2)>>, p) = <<Piece(t, a1, k1), Piece(t, a2, k2), Piece(t, a3, k3)>>
    BY <2>4, Append2
  <2> QED BY ONLY <1>6, <2>1, <2>3, <2>4, <2>5
<1>8. f[4].got = <<Piece(t, a1, k1), Piece(t, a2, k2), Piece(t, a3, k3), Piece(t, a4, k4)>> /\ f[4].rest = From(t, k4)
  <2>1. Token(From(t, k3), w4) = [ret |-> Piece(t, a4, k4), rest |-> From(t, k4)]
    BY TokenThere DEF Piece
  <2>2. 4 \in 1 .. n /\ 4 - 1 = 3
    BY <1>1
  <2>3. f[4] = [got |-> Append(f[3].got, Token(f[3].rest, w4).ret),
              rest |-> Token(f[3].rest, w4).rest]
    BY ONLY <1>2, <1>3, <2>2 DEF Taking
  <2>4. PICK p : p = Piece(t, a4, k4)
    OBVIOUS
  <2>5. Append(<<Piece(t, a1, k1), Piece(t, a2, k2), Piece(t, a3, k3)>>, p) = <<Piece(t, a1, k1), Piece(t, a2, k2), Piece(t, a3, k3), Piece(t, a4, k4)>>
    BY <2>4, Append3
  <2> QED BY ONLY <1>7, <2>1, <2>3, <2>4, <2>5
<1>9. f[4] = [got |-> <<Piece(t, a1, k1), Piece(t, a2, k2), Piece(t, a3, k3), Piece(t, a4, k4)>>, rest |-> From(t, k4)]
  <2>1. 4 \in 1 .. n /\ 4 - 1 = 3
    BY <1>1
  <2>2. f[4] = [got |-> f[4].got, rest |-> f[4].rest]
    <3>1. \E x, y : f[4] = [got |-> x, rest |-> y]
      BY ONLY <1>3, <2>1 DEF Taking
    <3> QED BY ONLY <3>1
  <2> QED BY ONLY <1>8, <2>2
<1> QED BY ONLY <1>1, <1>3, <1>9

LEMMA BothAre ==
  ASSUME NEW t \in Text, NEW u \in Text
  PROVE  /\ t \o u \in Text /\ Len(t \o u) = Len(t) + Len(u)
         /\ \A i \in 1 .. Len(t) : (t \o u)[i] = t[i]
         /\ \A i \in 1 .. Len(u) : (t \o u)[Len(t) + i] = u[i]
<1>1. Len(t) \in Nat /\ Len(u) \in Nat
  BY TextIs
<1>2. PICK v : v = t \o u
  OBVIOUS
<1>3. /\ v \in Seq(Word) /\ Len(v) = Len(t) + Len(u)
      /\ \A i \in 1 .. Len(t) + Len(u) : v[i] = IF i <= Len(t) THEN t[i] ELSE u[i - Len(t)]
  BY <1>2, ConcatProperties DEF Text
<1>4. \A i \in 1 .. Len(t) : v[i] = t[i]
  BY ONLY <1>1, <1>3
<1>5. ASSUME NEW i \in 1 .. Len(u) PROVE v[Len(t) + i] = u[i]
  <2>1. /\ Len(t) + i \in 1 .. Len(t) + Len(u) /\ ~(Len(t) + i <= Len(t))
        /\ Len(t) + i - Len(t) = i
    BY ONLY <1>1, <1>5
  <2> QED BY ONLY <1>3, <2>1
<1> QED BY ONLY <1>2, <1>3, <1>4, <1>5 DEF Text

LEMMA OneWord ==
  ASSUME NEW w \in Word
  PROVE  <<w>> \in Text /\ Len(<<w>>) = 1 /\ <<w>>[1] = w /\ <<w>> # << >>
BY DEF Text

LEMMA NoWord == << >> \in Text /\ Len(<< >>) = 0 /\ Trim(<< >>) /\ \A w : Without(<< >>, w)
BY DEF Text, Trim, Without

LEMMA NoneIsEmpty ==
  ASSUME NEW t \in Text
  PROVE  (t = << >>) <=> (Len(t) = 0)
BY EmptySeq DEF Text

\* A text with nothing to strip stays as it is.
LEMMA StripNone ==
  ASSUME NEW t, Trim(t)
  PROVE  Strip(t) = t
<1>1. t \in Text /\ Len(t) \in Nat
  BY TextIs DEF Trim
<1>2. Between(t, 1, Len(t))
  <2>1. Len(t) # 0 => t # << >>
    BY <1>1, NoneIsEmpty
  <2>2. Len(t) # 0 => t[1] # BLANK /\ t[Len(t)] # BLANK
    BY <2>1 DEF Trim
  <2> QED BY ONLY <1>1, <2>2 DEF Between
<1>3. Strip(t) = SubSeq(t, 1, Len(t))
  BY <1>1, <1>2, StripAt
<1> QED BY <1>1, <1>3, FromOne DEF From

LEMMA StripBlank == Strip(<<BLANK>>) = << >>
<1>1. PICK t : t = <<BLANK>>
  OBVIOUS
<1>2. t \in Text /\ Len(t) = 1 /\ t[1] = BLANK
  BY <1>1, OneWord, Words
<1>3. Between(t, 2, 1)
  BY ONLY <1>2 DEF Between
<1>4. Strip(t) = SubSeq(t, 2, 1)
  BY ONLY <1>2, <1>3, StripAt
<1>5. 2 \in 1 .. Len(t) + 1 /\ 1 \in 2 - 1 .. Len(t)
  BY ONLY <1>2
<1>6. SubSeq(t, 2, 1) \in Text /\ Len(SubSeq(t, 2, 1)) = 1 - 2 + 1
  BY ONLY <1>2, <1>5, PieceIs
<1>7. Len(SubSeq(t, 2, 1)) = 0
  BY ONLY <1>6
<1> QED BY ONLY <1>1, <1>4, <1>6, <1>7, NoneIsEmpty

LEMMA WordTrim ==
  ASSUME NEW w \in Word, w # BLANK
  PROVE  Trim(<<w>>)
<1>1. PICK t : t = <<w>>
  OBVIOUS
<1>2. t \in Text /\ Len(t) = 1 /\ t[1] = w
  BY <1>1, OneWord
<1>3. Trim(t)
  BY ONLY <1>2, w # BLANK DEF Trim
<1> QED BY ONLY <1>1, <1>3

-------------------------------------------------------------------------------
(* Numbers, pairs and URLs                                                   *)

\* The numbers an int can hold.
Value == {n \in Number : n \in INT_MIN .. INT_MAX}

LEMMA WrapOk ==
  ASSUME NEW n \in Int
  PROVE  Wrap(n) \in INT_MIN .. INT_MAX
<1>1. PICK M : M = INT_MAX /\ M \in Nat
  BY NumberAssumption
<1>2. INT_MIN = -M - 1
  BY <1>1 DEF INT_MIN
<1>3. CASE n \in INT_MIN .. INT_MAX
  BY <1>3 DEF Wrap
<1>4. CASE n \notin INT_MIN .. INT_MAX
  <2>1. PICK d, a : d = 2 * (M + 1) /\ a = n - INT_MIN
    OBVIOUS
  <2>2. d \in Int /\ d > 0 /\ a \in Int
    BY ONLY <1>1, <1>2, <2>1, n \in Int
  <2>3. a % d \in 0 .. d - 1
    BY ONLY <2>2
  <2>4. Wrap(n) = (a % d) + INT_MIN
    BY <1>1, <1>4, <2>1 DEF Wrap
  <2>5. PICK k : k = a % d
    OBVIOUS
  <2>6. k \in 0 .. d - 1 /\ Wrap(n) = k + INT_MIN
    BY ONLY <2>3, <2>4, <2>5
  <2> QED BY ONLY <1>1, <1>2, <2>1, <2>6
<1> QED BY <1>3, <1>4

LEMMA ValueOk ==
  /\ 0 \in Value
  /\ \A n \in Value : n \in Number /\ n \in Int /\ Wrap(n) = n
<1>1. INT_MAX \in Nat /\ Number \subseteq Int /\ 0 \in Number
  BY NumberAssumption
<1>2. 0 \in INT_MIN .. INT_MAX
  BY <1>1 DEF INT_MIN
<1> QED BY <1>1, <1>2 DEF Value, Wrap

LEMMA NumOk ==
  ASSUME NEW t
  PROVE  Num(t) \in Value /\ Num(t) \in Int
<1>1. CASE t = << >>
  <2>1. Num(t) = 0
    BY <1>1 DEF Num
  <2> QED BY <2>1, ValueOk
<1>2. CASE t # << >>
  <2>1. PICK w, n : w = t[1] /\ n = Begin(w).n
    OBVIOUS
  <2>2. n \in Number
    <3>1. CASE IsNumeral(w)
      <4>1. PICK k : k = CHOOSE j \in Number : w = Numeral(j)
        OBVIOUS
      <4>2. k \in Number
        BY <3>1, <4>1 DEF IsNumeral
      <4>3. Begin(w) = [n |-> k, more |-> 0]
        BY <3>1, <4>1 DEF Begin
      <4> QED BY <2>1, <4>2, <4>3
    <3>2. CASE ~IsNumeral(w) /\ w \in DOMAIN Mixed
      <4>1. Begin(w) = Mixed[w]
        BY <3>2 DEF Begin
      <4> QED BY <2>1, <3>2, <4>1, NumberAssumption
    <3>3. CASE ~IsNumeral(w) /\ w \notin DOMAIN Mixed
      <4>1. PICK e : e = IF w = "-" THEN 0 ELSE IF w \in Delimiter THEN 1 ELSE 2
        OBVIOUS
      <4>2. Begin(w) = [n |-> 0, more |-> e]
        BY <3>3, <4>1 DEF Begin
      <4>3. 0 \in Number
        BY NumberAssumption
      <4> QED BY <2>1, <4>2, <4>3
    <3> QED BY <3>1, <3>2, <3>3
  <2>3. Num(t) = Wrap(n)
    BY <1>2, <2>1 DEF Num
  <2>4. n \in Int /\ Wrap(n) \in Number
    BY <2>2, NumberAssumption
  <2>5. Wrap(n) \in INT_MIN .. INT_MAX /\ Wrap(n) \in Int
    BY <2>4, WrapOk, NumberAssumption
  <2> QED BY <2>3, <2>4, <2>5 DEF Value
<1> QED BY <1>1, <1>2

LEMMA NumeralIs ==
  ASSUME NEW n \in Value
  PROVE  /\ IsNum(<<Numeral(n)>>) /\ Num(<<Numeral(n)>>) = n
         /\ Numeral(n) \in Word /\ n \in Int
         /\ Numeral(n) \notin {BLANK, SEMICOLON, "/", ":", "=", "-"}
<1>1. PICK t, w : t = <<w>> /\ w = Numeral(n)
  OBVIOUS
<1>2. Len(t) = 1 /\ t[1] = w /\ t # << >>
  BY ONLY <1>1
<1>3. n \in Number /\ n \in Int /\ Wrap(n) = n
  BY ValueOk
<1>4. \A k \in Number : Numeral(k) = Numeral(n) => k = n
  BY <1>3, NumberAssumption
<1>5. PICK k : k = CHOOSE j \in Number : w = Numeral(j)
  OBVIOUS
<1>6. k = n
  BY ONLY <1>1, <1>3, <1>4, <1>5
<1>7. IsNumeral(w)
  BY <1>1, <1>3 DEF IsNumeral
<1>8. Begin(w) = [n |-> n, more |-> 0]
  BY <1>5, <1>6, <1>7 DEF Begin
<1>9. Begin(w).n = n /\ Begin(w).more = 0
  BY <1>8
<1>10. IsNum(t)
  BY <1>2, <1>9 DEF IsNum
<1>11. Num(t) = n
  BY <1>2, <1>3, <1>9 DEF Num
<1>12. Numeral(n) \in Word
  BY <1>3, Words
<1>13. Numeral(n) \notin {BLANK, SEMICOLON, "/", ":", "=", "-"}
  BY <1>3, NumberAssumption DEF Delimiter
<1> QED BY ONLY <1>1, <1>3, <1>10, <1>11, <1>12, <1>13

LEMMA SplitAt ==
  ASSUME NEW t \in Text, NEW c, NEW i \in 2 .. Len(t), t[i] = c,
         \A j \in 1 .. i - 1 : t[j] # c
  PROVE  Split(t, c) = [key |-> Strip(SubSeq(t, 1, i - 1)), val |-> Strip(From(t, i + 1))]
<1>1. Len(t) \in Nat /\ i \in 1 .. Len(t) /\ i > 1
  BY TextIs
<1>2. Find(t, c) = i
  BY <1>1, FindAt
<1> QED BY <1>1, <1>2 DEF Split

LEMMA SplitOk ==
  ASSUME NEW t \in Text, NEW c
  PROVE  /\ Trim(Split(t, c).key) /\ Trim(Split(t, c).val)
         /\ Without(Split(t, c).key, c)
         /\ \A w : Without(t, w) => Without(Split(t, c).key, w) /\ Without(Split(t, c).val, w)
<1>1. PICK f, n : f = Find(t, c) /\ n = Len(t) /\ n \in Nat
  BY TextIs
<1>2. f \in 0 .. n /\ (f # 0 => \A j \in 1 .. f - 1 : t[j] # c)
  BY <1>1, FindIs
<1>3. CASE f > 1
  <2>1. PICK k, v : k = SubSeq(t, 1, f - 1) /\ v = From(t, f + 1)
    OBVIOUS
  <2>2. Split(t, c) = [key |-> Strip(k), val |-> Strip(v)]
    BY <1>1, <1>3, <2>1 DEF Split
  <2>3. /\ 1 \in 1 .. Len(t) + 1 /\ f - 1 \in 1 - 1 .. Len(t) /\ f + 1 \in 1 .. Len(t) + 1
    BY ONLY <1>1, <1>2, <1>3
  <2>4. k \in Text /\ Len(k) = f - 1 - 1 + 1 /\ \A i \in 1 .. f - 1 - 1 + 1 : k[i] = t[1 + i - 1]
    BY <2>1, <2>3, PieceIs
  <2>5. /\ v \in Text /\ Len(v) = Len(t) - (f + 1) + 1
        /\ \A i \in 1 .. Len(t) - (f + 1) + 1 : v[i] = t[(f + 1) + i - 1]
    BY <2>1, <2>3, BehindIs
  <2>6. Len(k) = f - 1 /\ \A i \in 1 .. Len(k) : k[i] = t[i] /\ i \in 1 .. n /\ i \in 1 .. f - 1
    BY ONLY <1>1, <1>2, <1>3, <2>4
  <2>7. \A i \in 1 .. Len(v) : v[i] = t[f + i] /\ f + i \in 1 .. n
    <3> TAKE i \in 1 .. Len(v)
    <3>1. i \in 1 .. Len(t) - (f + 1) + 1 /\ (f + 1) + i - 1 = f + i /\ f + i \in 1 .. n
      BY ONLY <1>1, <1>2, <1>3, <2>5, i \in 1 .. Len(v)
    <3> QED BY ONLY <2>5, <3>1
  <2>8. Without(k, c)
    BY ONLY <1>2, <1>3, <2>6 DEF Without
  <2>9. \A w : Without(t, w) => Without(k, w) /\ Without(v, w)
    BY ONLY <1>1, <2>6, <2>7 DEF Without
  <2>10. /\ Trim(Strip(k)) /\ Trim(Strip(v))
         /\ \A w : Without(k, w) => Without(Strip(k), w)
         /\ \A w : Without(v, w) => Without(Strip(v), w)
    BY <2>4, <2>5, StripTrim DEF Without
  <2> QED BY <2>2, <2>8, <2>9, <2>10
<1>4. CASE ~(f > 1)
  <2>1. Split(t, c) = [key |-> << >>, val |-> << >>]
    BY <1>1, <1>4 DEF Split
  <2> QED BY <2>1, NoWord
<1> QED BY <1>3, <1>4

\* A path, which is no URL.
IsPath(p) == Trim(p) /\ SplitUrl(p) = [schema |-> << >>, path |-> p]

LEMMA NoPath == IsPath(<< >>)
<1>1. Strip(<< >>) = << >>
  BY StripNone, NoWord
<1>2. Find(<< >>, "/") = 0
  <2>1. \A i \in 1 .. Len(<< >>) : << >>[i] # "/"
    BY NoWord
  <2> QED BY <2>1, NoWord, FindNot
<1>3. SplitUrl(<< >>) = [schema |-> << >>, path |-> << >>]
  BY <1>1, <1>2 DEF SplitUrl
<1> QED BY <1>3, NoWord DEF IsPath

LEMMA UrlOk ==
  ASSUME NEW u \in Text
  PROVE  Trim(SplitUrl(u).path)
<1>1. PICK t, i : t = Strip(u) /\ i = Find(t, "/")
  OBVIOUS
<1>2. t \in Text /\ Trim(t) /\ Len(t) \in Nat
  BY <1>1, StripTrim, TextIs DEF Trim
<1>3. PICK rest, j : rest = From(t, i + 2) /\ j = FindFirstOf(rest, {"/", "?"})
  OBVIOUS
<1>4. PICK isUrl \in BOOLEAN :
        isUrl = (i > 1 /\ i < Len(t) /\ t[i - 1] = ":" /\ t[i + 1] = "/")
  OBVIOUS
<1>5. SplitUrl(u) = IF isUrl
                    THEN [schema |-> Strip(SubSeq(t, 1, i - 2)),
                          path |-> IF j = 0 THEN << >> ELSE Strip(From(rest, j))]
                    ELSE [schema |-> << >>, path |-> t]
  BY <1>1, <1>3, <1>4 DEF SplitUrl
<1>6. CASE isUrl
  <2>1. i \in 0 .. Len(t)
    BY <1>1, <1>2, FindIs
  <2>2. i + 2 \in 1 .. Len(t) + 1
    <3>1. i < Len(t)
      BY ONLY <1>4, <1>6, Zenon
    <3> QED BY ONLY <1>2, <2>1, <3>1
  <2>3. rest \in Text
    BY <1>2, <1>3, <2>2, BehindIs
  <2> DEFINE I == {k \in 1 .. Len(rest) : rest[k] \in {"/", "?"}}
  <2>4. j = IF I # {} THEN Min(I) ELSE 0
    BY <1>3 DEF FindFirstOf, SelectInSeq
  <2>5. Len(rest) \in Nat
    BY <2>3, TextIs
  <2>6. CASE j # 0
    <3>1. j \in I
      <4>1. I # {} /\ I \subseteq Nat /\ j = Min(I)
        BY <2>4, <2>5, <2>6
      <4> QED BY <4>1, MinIs
    <3>2. j \in 1 .. Len(rest) + 1
      BY <2>5, <3>1
    <3>3. From(rest, j) \in Text
      BY <2>3, <3>2, BehindIs
    <3>4. Trim(Strip(From(rest, j)))
      BY <3>3, StripTrim
    <3> QED BY <1>5, <1>6, <2>6, <3>4
  <2>7. CASE j = 0
    BY <1>5, <1>6, <2>7, NoWord
  <2> QED BY <2>6, <2>7
<1>7. CASE ~isUrl
  BY <1>2, <1>5, <1>7
<1> QED BY <1>6, <1>7

-------------------------------------------------------------------------------
(* Parameters                                                                *)

\* A parameter stands from a to b: a name, the first "=" and a value.
Param(c, a, b) ==
  \E e \in a + 1 .. b - 1 :
    /\ c[e] = "=" /\ \A i \in a .. e - 1 : c[i] # "="
    /\ \A i \in a .. b : c[i] # SEMICOLON
    /\ c[a] # BLANK /\ c[e - 1] # BLANK /\ c[e + 1] # BLANK /\ c[b] # BLANK

\* There are n of them, and the one number i ends at at[i].
Laid(c, n, at) ==
  /\ at \in [0 .. n -> Int] /\ at[0] = -1
  /\ n = 0 => c = << >>
  /\ n > 0 => at[n] = Len(c)
  /\ \A i \in 1 .. n : at[i - 1] + 4 <= at[i] /\ Param(c, at[i - 1] + 2, at[i])
  /\ \A i \in 1 .. n - 1 : c[at[i] + 1] = SEMICOLON
IsConfig(c) == c \in Text /\ \E n \in Nat : \E at : Laid(c, n, at)

LEMMA NoConfig == IsConfig(<< >>)
<1>1. PICK at : at = [i \in 0 .. 0 |-> -1]
  OBVIOUS
<1>2. at \in [0 .. 0 -> Int] /\ at[0] = -1
  BY <1>1
<1>3. Laid(<< >>, 0, at)
  BY ONLY <1>2 DEF Laid
<1> QED BY <1>3, NoWord DEF IsConfig

LEMMA AtMonotone ==
  ASSUME NEW c, NEW n \in Nat, NEW at, Laid(c, n, at)
  PROVE  /\ \A i \in 0 .. n : at[i] \in Int /\ at[i] >= i - 1 /\ at[i] <= at[n]
         /\ \A i \in 1 .. n : at[i] >= 3 * i
<1>1. /\ \A i \in 0 .. n : at[i] \in Int
      /\ at[0] = -1
      /\ \A i \in 1 .. n : at[i - 1] + 4 <= at[i]
  BY DEF Laid
<1> DEFINE B == {i \in 0 .. n : ~(at[i] >= 4 * i - 1)}
           D == {i \in 0 .. n : ~(at[n - i] <= at[n])}
<1>2. B = {}
  <2>1. SUFFICES ASSUME B # {} PROVE FALSE
    OBVIOUS
  <2>2. PICK i \in B : \A j \in B : i <= j
    <3>1. B \subseteq Nat
      OBVIOUS
    <3> QED BY ONLY <2>1, <3>1, MinIs
  <2>3. i # 0
    BY <1>1, <2>2
  <2>4. i \in 1 .. n /\ i - 1 \in 0 .. n /\ i - 1 \notin B
    BY <2>2, <2>3
  <2>5. at[i - 1] >= 4 * (i - 1) - 1 /\ at[i - 1] + 4 <= at[i] /\ at[i] \in Int /\ at[i - 1] \in Int
    BY <1>1, <2>2, <2>4
  <2>6. at[i] >= 4 * i - 1
    BY ONLY <2>4, <2>5, n \in Nat
  <2> QED BY <2>2, <2>6
<1>3. D = {}
  <2>1. SUFFICES ASSUME D # {} PROVE FALSE
    OBVIOUS
  <2>2. PICK i \in D : \A j \in D : i <= j
    <3>1. D \subseteq Nat
      OBVIOUS
    <3> QED BY ONLY <2>1, <3>1, MinIs
  <2>3. i # 0
    <3>1. n - 0 = n /\ at[n] \in Int
      BY <1>1
    <3> QED BY <2>2, <3>1
  <2>4. i \in 1 .. n /\ i - 1 \in 0 .. n /\ i - 1 \notin D
    BY <2>2, <2>3
  <2>5. PICK k : k = n - i
    OBVIOUS
  <2>6. k + 1 = n - (i - 1) /\ k + 1 \in 1 .. n /\ k \in 0 .. n /\ k + 1 \in 0 .. n /\ n \in 0 .. n
        /\ (k + 1) - 1 = k
    BY ONLY <2>4, <2>5, n \in Nat
  <2>7. at[k + 1] <= at[n]
    BY <2>4, <2>6
  <2>8. at[k] + 4 <= at[k + 1] /\ at[k] \in Int /\ at[k + 1] \in Int /\ at[n] \in Int
    BY ONLY <1>1, <2>6
  <2>9. at[n - i] <= at[n]
    BY ONLY <2>5, <2>7, <2>8
  <2> QED BY <2>2, <2>9
<1>4. ASSUME NEW i \in 0 .. n
      PROVE  at[i] \in Int /\ at[i] >= 4 * i - 1 /\ at[i] <= at[n]
  <2>1. n - (n - i) = i /\ n - i \in 0 .. n
    BY ONLY <1>4, n \in Nat
  <2>2. at[n - (n - i)] <= at[n]
    BY <1>3, <2>1
  <2>3. at[i] <= at[n]
    BY ONLY <2>1, <2>2
  <2> QED BY <1>1, <1>2, <2>3
<1>5. ASSUME NEW i \in 0 .. n
      PROVE  at[i] \in Int /\ at[i] >= i - 1 /\ at[i] <= at[n] /\ (i \in 1 .. n => at[i] >= 3 * i)
  BY ONLY <1>4, <1>5, n \in Nat
<1> QED BY ONLY <1>5, n \in Nat

\* A parameter is the same at another place of another text.
LEMMA ParamMoved ==
  ASSUME NEW c, NEW d, NEW a \in Int, NEW b \in Int, NEW o \in Int, Param(c, a, b),
         \A i \in a .. b : d[o + i] = c[i]
  PROVE  Param(d, o + a, o + b)
<1>1. PICK e \in a + 1 .. b - 1 :
        /\ c[e] = "=" /\ \A i \in a .. e - 1 : c[i] # "="
        /\ \A i \in a .. b : c[i] # SEMICOLON
        /\ c[a] # BLANK /\ c[e - 1] # BLANK /\ c[e + 1] # BLANK /\ c[b] # BLANK
  BY DEF Param
<1>2. /\ a \in a .. b /\ b \in a .. b /\ e - 1 \in a .. b /\ e + 1 \in a .. b /\ e \in a .. b
      /\ o + (e - 1) = (o + e) - 1 /\ o + (e + 1) = (o + e) + 1
      /\ o + e \in (o + a) + 1 .. (o + b) - 1
  OBVIOUS
<1>3. /\ d[o + e] = "=" /\ d[o + a] # BLANK /\ d[(o + e) - 1] # BLANK
      /\ d[(o + e) + 1] # BLANK /\ d[o + b] # BLANK
  BY ONLY <1>1, <1>2, \A i \in a .. b : d[o + i] = c[i]
<1>4. ASSUME NEW i \in o + a .. (o + e) - 1 PROVE d[i] # "="
  <2>1. i - o \in a .. e - 1 /\ i - o \in a .. b /\ o + (i - o) = i
    BY <1>4
  <2> QED BY ONLY <1>1, <2>1, \A i_1 \in a .. b : d[o + i_1] = c[i_1]
<1>5. ASSUME NEW i \in o + a .. o + b PROVE d[i] # SEMICOLON
  <2>1. i - o \in a .. b /\ o + (i - o) = i
    BY <1>5
  <2> QED BY ONLY <1>1, <2>1, \A i_1 \in a .. b : d[o + i_1] = c[i_1]
<1> QED BY ONLY <1>2, <1>3, <1>4, <1>5 DEF Param

LEMMA ParamLonger ==
  ASSUME NEW c, NEW d, NEW a \in Int, NEW b \in Int, NEW l \in Int, Param(c, a, b), b < l,
         \A i \in a .. b : d[i] = c[i],
         \A i \in b + 1 .. l : d[i] # SEMICOLON, d[l] # BLANK
  PROVE  Param(d, a, l)
<1>1. PICK e \in a + 1 .. b - 1 :
        /\ c[e] = "=" /\ \A i \in a .. e - 1 : c[i] # "="
        /\ \A i \in a .. b : c[i] # SEMICOLON
        /\ c[a] # BLANK /\ c[e - 1] # BLANK /\ c[e + 1] # BLANK /\ c[b] # BLANK
  BY DEF Param
<1>2. /\ a \in a .. b /\ e - 1 \in a .. b /\ e + 1 \in a .. b /\ e \in a .. b
      /\ e \in a + 1 .. l - 1
  OBVIOUS
<1>3. d[e] = "=" /\ d[a] # BLANK /\ d[e - 1] # BLANK /\ d[e + 1] # BLANK
  BY ONLY <1>1, <1>2, \A i \in a .. b : d[i] = c[i]
<1>4. ASSUME NEW i \in a .. e - 1 PROVE d[i] # "="
  <2>1. i \in a .. b
    BY <1>4
  <2> QED BY ONLY <1>1, <1>4, <2>1, \A i_1 \in a .. b : d[i_1] = c[i_1]
<1>5. ASSUME NEW i \in a .. l PROVE d[i] # SEMICOLON
  <2>1. i \in a .. b \/ i \in b + 1 .. l
    BY <1>5
  <2> QED BY ONLY <1>1, <2>1, \A i_1 \in a .. b : d[i_1] = c[i_1],
                  \A i_1 \in b + 1 .. l : d[i_1] # SEMICOLON
<1> QED BY ONLY <1>2, <1>3, <1>4, <1>5, d[l] # BLANK DEF Param

\* A key and a value are a parameter.
IsKey(k) == Trim(k) /\ k # << >> /\ Without(k, SEMICOLON) /\ Without(k, "=")
IsVal(v) == Trim(v) /\ v # << >> /\ Without(v, SEMICOLON)

LEMMA PairIs ==
  ASSUME NEW k, NEW v, IsKey(k), IsVal(v)
  PROVE  LET p == k \o <<"=">> \o v
         IN /\ p \in Text /\ Len(p) = Len(k) + 1 + Len(v) /\ Len(k) > 0 /\ Len(v) > 0
            /\ Param(p, 1, Len(p)) /\ IsConfig(p) /\ p # << >>
            /\ \A i \in 1 .. Len(k) : p[i] = k[i]
            /\ p[Len(k) + 1] = "="
            /\ \A i \in 1 .. Len(v) : p[Len(k) + 1 + i] = v[i]
<1>1. PICK q, p : q = k \o <<"=">> /\ p = q \o v
  OBVIOUS
<1>2. /\ k \in Text /\ v \in Text /\ Len(k) \in Nat /\ Len(v) \in Nat /\ Len(k) # 0 /\ Len(v) # 0
      /\ Len(k) > 0 /\ Len(v) > 0
  <2>1. k \in Text /\ v \in Text /\ k # << >> /\ v # << >>
    BY DEF IsKey, IsVal, Trim
  <2> QED BY <2>1, TextIs, NoneIsEmpty
<1>3. <<"=">> \in Text /\ Len(<<"=">>) = 1 /\ <<"=">>[1] = "="
  BY OneWord, Words
<1>4. /\ q \in Text /\ Len(q) = Len(k) + 1
      /\ \A i \in 1 .. Len(k) : q[i] = k[i]
      /\ \A i \in 1 .. 1 : q[Len(k) + i] = <<"=">>[i]
  BY <1>1, <1>2, <1>3, BothAre
<1>5. q[Len(k) + 1] = "="
  <2>1. 1 \in 1 .. 1
    OBVIOUS
  <2> QED BY ONLY <1>3, <1>4, <2>1
<1>6. /\ p \in Text /\ Len(p) = Len(q) + Len(v)
      /\ \A i \in 1 .. Len(q) : p[i] = q[i]
      /\ \A i \in 1 .. Len(v) : p[Len(q) + i] = v[i]
  BY <1>1, <1>2, <1>4, BothAre
<1>7. /\ Len(p) = Len(k) + 1 + Len(v)
      /\ \A i \in 1 .. Len(k) : p[i] = k[i]
      /\ p[Len(k) + 1] = "="
      /\ \A i \in 1 .. Len(v) : p[Len(k) + 1 + i] = v[i]
  BY ONLY <1>2, <1>4, <1>5, <1>6
<1>8. PICK e, l : e = Len(k) + 1 /\ l = Len(p) /\ l \in Nat
  BY <1>2, <1>7
<1>9. e \in 1 + 1 .. l - 1
  BY ONLY <1>2, <1>7, <1>8
<1>10. k[1] # BLANK /\ k[Len(k)] # BLANK /\ v[1] # BLANK /\ v[Len(v)] # BLANK
  BY DEF IsKey, IsVal, Trim
<1>11. /\ p[1] = k[1] /\ p[e - 1] = k[Len(k)] /\ p[e + 1] = v[1] /\ p[l] = v[Len(v)]
  <2>1. /\ 1 \in 1 .. Len(k) /\ Len(k) \in 1 .. Len(k) /\ e - 1 = Len(k) /\ 1 \in 1 .. Len(v)
        /\ Len(v) \in 1 .. Len(v) /\ Len(k) + 1 + 1 = e + 1 /\ Len(k) + 1 + Len(v) = l
    BY ONLY <1>2, <1>7, <1>8
  <2>2. p[Len(k) + 1 + 1] = v[1] /\ p[Len(k) + 1 + Len(v)] = v[Len(v)]
    BY ONLY <1>7, <2>1
  <2> QED BY ONLY <1>7, <2>1, <2>2
<1>12. ASSUME NEW i \in 1 .. e - 1 PROVE p[i] # "="
  <2>1. i \in 1 .. Len(k)
    BY ONLY <1>2, <1>8, <1>12
  <2>2. k[i] # "="
    BY <2>1 DEF IsKey, Without
  <2> QED BY ONLY <1>7, <2>1, <2>2
<1>13. ASSUME NEW i \in 1 .. l PROVE p[i] # SEMICOLON
  <2>1. \/ i \in 1 .. Len(k)
        \/ i = Len(k) + 1
        \/ i - Len(k) - 1 \in 1 .. Len(v) /\ Len(k) + 1 + (i - Len(k) - 1) = i
    BY ONLY <1>2, <1>7, <1>8, <1>13
  <2>2. CASE i \in 1 .. Len(k)
    BY <1>7, <2>2 DEF IsKey, Without
  <2>3. CASE i = Len(k) + 1
    BY <1>7, <2>3, Delimiters
  <2>4. CASE i - Len(k) - 1 \in 1 .. Len(v) /\ Len(k) + 1 + (i - Len(k) - 1) = i
    <3>1. PICK j \in 1 .. Len(v) : Len(k) + 1 + j = i
      BY <2>4
    <3>2. v[j] # SEMICOLON
      BY DEF IsVal, Without
    <3> QED BY ONLY <1>7, <3>1, <3>2
  <2> QED BY ONLY <2>1, <2>2, <2>3, <2>4
<1>14. Param(p, 1, l)
  BY ONLY <1>7, <1>8, <1>9, <1>10, <1>11, <1>12, <1>13 DEF Param
<1>15. IsConfig(p)
  <2>1. PICK at : at = [i \in 0 .. 1 |-> IF i = 0 THEN -1 ELSE l]
    OBVIOUS
  <2>2. at \in [0 .. 1 -> Int] /\ at[0] = -1 /\ at[1] = l
    BY <1>8, <2>1
  <2>3. ASSUME NEW i \in 1 .. 1
        PROVE  at[i - 1] + 4 <= at[i] /\ Param(p, at[i - 1] + 2, at[i])
    <3>1. i = 1 /\ i - 1 = 0 /\ at[i - 1] = -1 /\ at[i] = l /\ -1 + 2 = 1 /\ -1 + 4 <= l
      BY ONLY <1>2, <1>7, <1>8, <2>2, <2>3
    <3> QED BY ONLY <1>14, <3>1
  <2>4. Laid(p, 1, at)
    BY ONLY <1>8, <2>2, <2>3 DEF Laid
  <2> QED BY <1>6, <2>4 DEF IsConfig
<1>16. p # << >>
  BY ONLY <1>2, <1>6, <1>7, NoneIsEmpty
<1> QED BY ONLY <1>1, <1>2, <1>6, <1>7, <1>8, <1>14, <1>15, <1>16

\* Parameters behind parameters, with a semicolon or without one.
LEMMA ConfigApart ==
  ASSUME NEW c, NEW d, IsConfig(c), IsConfig(d), c # << >>, d # << >>
  PROVE  IsConfig(c \o <<SEMICOLON>> \o d)
<1>1. PICK n, at : n \in Nat /\ c \in Text /\ Laid(c, n, at)
  BY DEF IsConfig
<1>2. PICK m, bt : m \in Nat /\ d \in Text /\ Laid(d, m, bt)
  BY DEF IsConfig
<1>3. n > 0 /\ m > 0 /\ Len(c) \in Nat /\ Len(d) \in Nat
  BY <1>1, <1>2, TextIs DEF Laid
<1>4. PICK q, p, l : q = c \o <<SEMICOLON>> /\ p = q \o d /\ l = Len(c)
  OBVIOUS
<1>40. l \in Nat
  BY <1>3, <1>4
<1>5. <<SEMICOLON>> \in Text /\ Len(<<SEMICOLON>>) = 1 /\ <<SEMICOLON>>[1] = SEMICOLON
  BY OneWord, Words
<1>6. /\ q \in Text /\ Len(q) = l + 1
      /\ \A i \in 1 .. l : q[i] = c[i]
      /\ \A i \in 1 .. 1 : q[l + i] = <<SEMICOLON>>[i]
  BY <1>1, <1>4, <1>5, BothAre
<1>7. q[l + 1] = SEMICOLON
  <2>1. 1 \in 1 .. 1
    OBVIOUS
  <2> QED BY ONLY <1>5, <1>6, <2>1
<1>8. /\ p \in Text /\ Len(p) = Len(q) + Len(d)
      /\ \A i \in 1 .. Len(q) : p[i] = q[i]
      /\ \A i \in 1 .. Len(d) : p[Len(q) + i] = d[i]
  BY <1>2, <1>4, <1>6, BothAre
<1>9. /\ Len(p) = l + 1 + Len(d)
      /\ \A i \in 1 .. l : p[i] = c[i]
      /\ p[l + 1] = SEMICOLON
      /\ \A i \in 1 .. Len(d) : p[(l + 1) + i] = d[i]
  BY ONLY <1>3, <1>40, <1>6, <1>7, <1>8
<1>10. PICK ct : ct = [i \in 0 .. n + m |-> IF i <= n THEN at[i] ELSE l + 1 + bt[i - n]]
  OBVIOUS
<1>11. /\ at \in [0 .. n -> Int] /\ at[0] = -1 /\ at[n] = l
       /\ \A i \in 1 .. n : at[i - 1] + 4 <= at[i] /\ Param(c, at[i - 1] + 2, at[i])
       /\ \A i \in 1 .. n - 1 : c[at[i] + 1] = SEMICOLON
  BY ONLY <1>1, <1>3, <1>4 DEF Laid
<1>12. /\ bt \in [0 .. m -> Int] /\ bt[0] = -1 /\ bt[m] = Len(d)
       /\ \A i \in 1 .. m : bt[i - 1] + 4 <= bt[i] /\ Param(d, bt[i - 1] + 2, bt[i])
       /\ \A i \in 1 .. m - 1 : d[bt[i] + 1] = SEMICOLON
  BY ONLY <1>2, <1>3 DEF Laid
<1>13. /\ \A i \in 0 .. n : at[i] \in Int /\ at[i] >= i - 1 /\ at[i] <= l
       /\ \A i \in 0 .. m : bt[i] \in Int /\ bt[i] >= i - 1 /\ bt[i] <= Len(d)
  BY <1>1, <1>2, <1>11, <1>12, AtMonotone
<1>14. \A i \in 0 .. n : ct[i] = at[i]
  BY <1>1, <1>2, <1>10, <1>3
<1>15. \A j \in 0 .. m : ct[n + j] = l + 1 + bt[j]
  <2> TAKE j \in 0 .. m
  <2>1. CASE j = 0
    <3>1. n + j = n /\ n \in 0 .. n + m /\ n <= n /\ l + 1 + -1 = l
      BY ONLY <1>3, <1>40, <2>1, <1>1, <1>2
    <3> QED BY <1>10, <1>11, <1>12, <2>1, <3>1
  <2>2. CASE j # 0
    <3>1. n + j \in 0 .. n + m /\ ~(n + j <= n) /\ n + j - n = j
      BY ONLY <1>1, <1>2, <1>3, <2>2, j \in 0 .. m
    <3>2. PICK k : k = n + j
      OBVIOUS
    <3>3. k \in 0 .. n + m /\ ~(k <= n) /\ k - n = j
      BY ONLY <1>1, <1>2, <2>2, <3>2, j \in 0 .. m
    <3>4. ct[k] = l + 1 + bt[k - n]
      BY ONLY <1>10, <3>3
    <3> QED BY ONLY <3>2, <3>3, <3>4
  <2> QED BY <2>1, <2>2
<1>16. ct \in [0 .. n + m -> Int]
  <2>1. ASSUME NEW i \in 0 .. n + m PROVE ct[i] \in Int
    <3>1. i \in 0 .. n \/ (i - n \in 0 .. m /\ n + (i - n) = i)
      BY ONLY <2>1, <1>1, <1>2
    <3>2. CASE i \in 0 .. n
      BY <1>13, <1>14, <3>2
    <3>3. CASE i - n \in 0 .. m /\ n + (i - n) = i
      <4>1. PICK j \in 0 .. m : n + j = i
        BY <3>3
      <4>2. j \in 0 .. m
        OBVIOUS
      <4>3. ct[n + j] = l + 1 + bt[j]
        BY ONLY <1>15, <4>2
      <4>4. bt[j] \in Int
        BY ONLY <1>13, <4>2
      <4> QED BY ONLY <1>3, <1>40, <4>1, <4>3, <4>4
    <3> QED BY ONLY <3>1, <3>2, <3>3
  <2>2. DOMAIN ct = 0 .. n + m /\ ct = [i \in 0 .. n + m |-> ct[i]]
    BY <1>10
  <2> QED BY ONLY <2>1, <2>2
<1>17. ASSUME NEW i \in 1 .. n + m
       PROVE  ct[i - 1] + 4 <= ct[i] /\ Param(p, ct[i - 1] + 2, ct[i])
  <2>1. i \in 1 .. n \/ (i - n \in 1 .. m /\ n + (i - n) = i)
    BY ONLY <1>17, <1>1, <1>2
  <2>2. CASE i \in 1 .. n
    <3>1. i \in 0 .. n /\ i - 1 \in 0 .. n
      BY <1>1, <2>2
    <3>2. ct[i] = at[i] /\ ct[i - 1] = at[i - 1] /\ at[i] \in Int /\ at[i - 1] \in Int
          /\ at[i - 1] >= -1 /\ at[i] <= l
      BY <1>13, <1>14, <3>1
    <3>3. Param(c, at[i - 1] + 2, at[i]) /\ at[i - 1] + 4 <= at[i]
      BY <1>11, <2>2
    <3>4. PICK a, b : a = at[i - 1] + 2 /\ b = at[i] /\ a \in Int /\ b \in Int
      BY <3>2
    <3>5. \A x \in a .. b : p[0 + x] = c[x]
      <4> TAKE x \in a .. b
      <4>1. x \in 1 .. l /\ 0 + x = x
        BY ONLY <3>2, <3>4, x \in a .. b, <1>3, <1>40
      <4> QED BY ONLY <1>9, <4>1
    <3>6. Param(c, a, b) /\ 0 \in Int
      BY <3>3, <3>4
    <3>7. Param(p, 0 + a, 0 + b)
      BY ONLY <3>4, <3>5, <3>6, ParamMoved
    <3>8. 0 + a = a /\ 0 + b = b
      BY ONLY <3>4
    <3> QED BY ONLY <3>2, <3>3, <3>4, <3>7, <3>8
  <2>3. CASE i - n \in 1 .. m /\ n + (i - n) = i
    <3>1. PICK j \in 1 .. m : n + j = i
      BY <2>3
    <3>2. j \in 0 .. m /\ j - 1 \in 0 .. m /\ n + (j - 1) = i - 1
      BY ONLY <3>1, <1>1, <1>2
    <3>3. ct[i] = l + 1 + bt[j] /\ ct[i - 1] = l + 1 + bt[j - 1]
          /\ bt[j] \in Int /\ bt[j - 1] \in Int /\ bt[j - 1] >= -1 /\ bt[j] <= Len(d)
      <4>1. ct[n + j] = l + 1 + bt[j] /\ ct[n + (j - 1)] = l + 1 + bt[j - 1]
        BY ONLY <1>15, <3>2
      <4>2. bt[j] \in Int /\ bt[j - 1] \in Int /\ bt[j - 1] >= (j - 1) - 1 /\ bt[j] <= Len(d)
        BY ONLY <1>13, <3>2
      <4> QED BY ONLY <3>1, <3>2, <4>1, <4>2
    <3>4. Param(d, bt[j - 1] + 2, bt[j]) /\ bt[j - 1] + 4 <= bt[j]
      BY <1>12, <3>1
    <3>5. PICK a, b, o : a = bt[j - 1] + 2 /\ b = bt[j] /\ o = l + 1 /\ a \in Int /\ b \in Int
                         /\ o \in Int
      BY <3>3, <1>3, <1>40
    <3>6. \A x \in a .. b : p[o + x] = d[x]
      <4> TAKE x \in a .. b
      <4>1. x \in 1 .. Len(d)
        <5>1. a \in Int /\ a >= 1 /\ b \in Int /\ b <= Len(d)
          BY ONLY <3>3, <3>5
        <5> QED BY ONLY <5>1, x \in a .. b, <1>3
      <4> QED BY ONLY <1>9, <3>5, <4>1
    <3>7. Param(d, a, b)
      BY ONLY <3>4, <3>5
    <3>8. Param(p, o + a, o + b)
      BY ONLY <3>5, <3>6, <3>7, ParamMoved
    <3>9. o + a = ct[i - 1] + 2 /\ o + b = ct[i] /\ ct[i - 1] + 4 <= ct[i]
      <4>1. PICK x, y : x = bt[j - 1] /\ y = bt[j]
        OBVIOUS
      <4>2. x \in Int /\ y \in Int /\ x + 4 <= y /\ a = x + 2 /\ b = y
            /\ ct[i] = l + 1 + y /\ ct[i - 1] = l + 1 + x
        BY ONLY <3>3, <3>4, <3>5, <4>1
      <4> QED BY ONLY <1>40, <3>5, <4>2
    <3> QED BY ONLY <3>8, <3>9
  <2> QED BY ONLY <2>1, <2>2, <2>3
<1>18. ASSUME NEW i \in 1 .. n + m - 1 PROVE p[ct[i] + 1] = SEMICOLON
  <2>1. i \in 1 .. n - 1 \/ i = n \/ (i - n \in 1 .. m - 1 /\ n + (i - n) = i)
    BY ONLY <1>18, <1>1, <1>2
  <2>2. CASE i \in 1 .. n - 1
    <3>1. i \in 0 .. n /\ i + 1 \in 1 .. n /\ (i + 1) - 1 = i /\ i + 1 \in 0 .. n
      BY <1>1, <2>2
    <3>2. at[i] + 4 <= at[i + 1] /\ at[i + 1] <= l /\ at[i] >= i - 1 /\ at[i] \in Int
          /\ at[i + 1] \in Int /\ ct[i] = at[i]
      BY <1>11, <1>13, <1>14, <3>1
    <3>3. at[i] + 1 \in 1 .. l
      BY ONLY <1>3, <1>40, <2>2, <3>2
    <3>4. c[at[i] + 1] = SEMICOLON
      BY <1>11, <2>2
    <3> QED BY ONLY <1>9, <3>2, <3>3, <3>4
  <2>3. CASE i = n
    <3>1. n \in 0 .. n
      BY <1>1
    <3> QED BY ONLY <1>9, <1>11, <1>14, <2>3, <3>1
  <2>4. CASE i - n \in 1 .. m - 1 /\ n + (i - n) = i
    <3>1. PICK j \in 1 .. m - 1 : n + j = i
      BY <2>4
    <3>2. j \in 0 .. m /\ j + 1 \in 1 .. m /\ (j + 1) - 1 = j /\ j + 1 \in 0 .. m
      BY ONLY <3>1, <1>2
    <3>3. bt[j] + 4 <= bt[j + 1] /\ bt[j + 1] <= Len(d) /\ bt[j] >= j - 1 /\ bt[j] \in Int
          /\ bt[j + 1] \in Int /\ ct[i] = l + 1 + bt[j]
      BY <1>12, <1>13, <1>15, <3>1, <3>2
    <3>4. bt[j] + 1 \in 1 .. Len(d) /\ (l + 1) + (bt[j] + 1) = ct[i] + 1
      <4>1. PICK x, y : x = bt[j] /\ y = bt[j + 1]
        OBVIOUS
      <4>2. /\ x + 4 <= y /\ y <= Len(d) /\ x >= j - 1 /\ x \in Int /\ y \in Int
            /\ ct[i] = l + 1 + x
        BY ONLY <3>3, <4>1
      <4>3. Len(d) \in Nat /\ j \in Nat /\ j >= 1
        BY ONLY <1>3, <3>1, j \in 1 .. m - 1, <1>2
      <4>4. x + 1 \in 1 .. Len(d) /\ (l + 1) + (x + 1) = ct[i] + 1
        BY ONLY <1>40, <4>2, <4>3
      <4> QED BY ONLY <4>1, <4>4
    <3>5. d[bt[j] + 1] = SEMICOLON
      BY <1>12, <3>1
    <3>6. p[(l + 1) + (bt[j] + 1)] = d[bt[j] + 1]
      BY ONLY <1>9, <3>4
    <3> QED BY ONLY <3>4, <3>5, <3>6
  <2> QED BY ONLY <2>1, <2>2, <2>3, <2>4
<1>19. n + m \in Nat /\ n + m > 0 /\ 0 \in 0 .. n /\ m \in 0 .. m
  BY <1>1, <1>2, <1>3
<1>20. ct[0] = -1 /\ ct[n + m] = Len(p)
  <2>1. ct[n + m] = l + 1 + bt[m] /\ ct[0] = at[0]
    BY ONLY <1>14, <1>15, <1>19
  <2> QED BY ONLY <1>9, <1>11, <1>12, <2>1
<1>21. Laid(p, n + m, ct)
  <2>1. PICK k : k = n + m
    OBVIOUS
  <2>2. /\ ct \in [0 .. k -> Int] /\ ct[0] = -1
        /\ k # 0 /\ ct[k] = Len(p)
        /\ \A i \in 1 .. k : ct[i - 1] + 4 <= ct[i] /\ Param(p, ct[i - 1] + 2, ct[i])
        /\ \A i \in 1 .. k - 1 : p[ct[i] + 1] = SEMICOLON
    <3>1. ct \in [0 .. k -> Int] /\ ct[0] = -1 /\ ct[k] = Len(p)
      BY ONLY <1>16, <1>20, <2>1
    <3>2. k # 0
      BY ONLY <1>19, <2>1
    <3>3. ASSUME NEW i \in 1 .. k
          PROVE  ct[i - 1] + 4 <= ct[i] /\ Param(p, ct[i - 1] + 2, ct[i])
      BY ONLY <1>17, <2>1, <3>3
    <3>4. ASSUME NEW i \in 1 .. k - 1 PROVE p[ct[i] + 1] = SEMICOLON
      <4>1. n \in Nat /\ m \in Nat
        BY <1>1, <1>2
      <4>2. i \in 1 .. n + m - 1
        BY ONLY <2>1, <3>4, <4>1
      <4> QED BY ONLY <1>18, <4>2
    <3> QED BY ONLY <3>1, <3>2, <3>3, <3>4
  <2>3. Laid(p, k, ct)
    BY ONLY <2>2 DEF Laid
  <2> QED BY ONLY <2>1, <2>3
<1> QED BY <1>4, <1>8, <1>19, <1>21 DEF IsConfig

LEMMA ConfigJoined ==
  ASSUME NEW c, NEW d, IsConfig(c), IsConfig(d)
  PROVE  IsConfig(c \o d)
<1>1. PICK n, at : n \in Nat /\ c \in Text /\ Laid(c, n, at)
  BY DEF IsConfig
<1>2. PICK m, bt : m \in Nat /\ d \in Text /\ Laid(d, m, bt)
  BY DEF IsConfig
<1>3. CASE n = 0
  <2>1. c = << >>
    BY <1>1, <1>3 DEF Laid
  <2>2. c \o d = d
    BY <1>2, <2>1, ConcatEmptySeq DEF Text
  <2> QED BY <2>2
<1>4. CASE m = 0
  <2>1. d = << >>
    BY <1>2, <1>4 DEF Laid
  <2>2. c \o d = c
    BY <1>1, <2>1, ConcatEmptySeq DEF Text
  <2> QED BY <2>2
<1>5. ASSUME n # 0, m # 0 PROVE IsConfig(c \o d)
  <2>1. n > 0 /\ m > 0 /\ Len(c) \in Nat /\ Len(d) \in Nat /\ n \in Nat /\ m \in Nat
    BY <1>1, <1>2, <1>5, TextIs
  <2>2. PICK p, l : p = c \o d /\ l = Len(c) /\ l \in Nat
    BY <2>1
  <2>3. /\ p \in Text /\ Len(p) = l + Len(d)
        /\ \A i \in 1 .. l : p[i] = c[i]
        /\ \A i \in 1 .. Len(d) : p[l + i] = d[i]
    BY <1>1, <1>2, <2>2, BothAre
  <2>4. /\ at \in [0 .. n -> Int] /\ at[0] = -1 /\ at[n] = l
        /\ \A i \in 1 .. n : at[i - 1] + 4 <= at[i] /\ Param(c, at[i - 1] + 2, at[i])
        /\ \A i \in 1 .. n - 1 : c[at[i] + 1] = SEMICOLON
    BY ONLY <1>1, <2>1, <2>2 DEF Laid
  <2>5. /\ bt \in [0 .. m -> Int] /\ bt[0] = -1 /\ bt[m] = Len(d)
        /\ \A i \in 1 .. m : bt[i - 1] + 4 <= bt[i] /\ Param(d, bt[i - 1] + 2, bt[i])
        /\ \A i \in 1 .. m - 1 : d[bt[i] + 1] = SEMICOLON
    BY ONLY <1>2, <2>1 DEF Laid
  <2>6. /\ \A i \in 0 .. n : at[i] \in Int /\ at[i] >= i - 1 /\ at[i] <= l
        /\ \A i \in 0 .. m : bt[i] \in Int /\ bt[i] >= i - 1 /\ bt[i] <= Len(d)
    BY <1>1, <1>2, <2>4, <2>5, AtMonotone
  <2>7. PICK k, h : k = n + m - 1 /\ h = n - 1 /\ k \in Nat /\ h \in Nat
    BY <2>1
  <2>8. PICK ct : ct = [i \in 0 .. k |-> IF i <= h THEN at[i] ELSE l + bt[i - h]]
    OBVIOUS
  <2>9. \A i \in 0 .. h : ct[i] = at[i]
    BY ONLY <2>1, <2>7, <2>8
  <2>10. ASSUME NEW j \in 1 .. m PROVE ct[h + j] = l + bt[j]
    <3>1. PICK x : x = h + j
      OBVIOUS
    <3>2. x \in 0 .. k /\ ~(x <= h) /\ x - h = j
      BY ONLY <2>1, <2>7, <2>10, <3>1
    <3>3. ct[x] = l + bt[x - h]
      BY ONLY <2>8, <3>2
    <3> QED BY ONLY <3>1, <3>2, <3>3
  <2>11. ASSUME NEW i \in 0 .. k PROVE ct[i] \in Int
    <3>1. i \in 0 .. h \/ (i - h \in 1 .. m /\ h + (i - h) = i)
      BY ONLY <2>1, <2>7, <2>11
    <3>2. CASE i \in 0 .. h
      <4>1. i \in 0 .. n
        BY ONLY <2>1, <2>7, <3>2
      <4> QED BY ONLY <2>6, <2>9, <3>2, <4>1
    <3>3. CASE i - h \in 1 .. m /\ h + (i - h) = i
      <4>1. PICK j \in 1 .. m : h + j = i
        BY <3>3
      <4>2. j \in 0 .. m
        BY <2>1
      <4>3. bt[j] \in Int
        BY ONLY <2>6, <4>2
      <4>4. ct[h + j] = l + bt[j]
        BY <2>10
      <4> QED BY ONLY <2>2, <4>1, <4>3, <4>4
    <3> QED BY ONLY <3>1, <3>2, <3>3
  <2>12. ct \in [0 .. k -> Int]
    BY ONLY <2>8, <2>11
  <2>13. ASSUME NEW i \in 1 .. k
         PROVE  ct[i - 1] + 4 <= ct[i] /\ Param(p, ct[i - 1] + 2, ct[i])
    <3>1. i \in 1 .. h \/ i = n \/ (i - h \in 2 .. m /\ h + (i - h) = i)
      BY ONLY <2>1, <2>7, <2>13
    <3>2. CASE i \in 1 .. h
      <4>1. i \in 0 .. n /\ i - 1 \in 0 .. n /\ i \in 0 .. h /\ i - 1 \in 0 .. h /\ i \in 1 .. n
        BY ONLY <2>1, <2>7, <3>2
      <4>2. PICK a, b : a = at[i - 1] + 2 /\ b = at[i]
        OBVIOUS
      <4>3. ct[i] = at[i] /\ ct[i - 1] = at[i - 1]
        BY ONLY <2>9, <4>1
      <4>4. at[i] \in Int /\ at[i - 1] \in Int /\ at[i - 1] >= (i - 1) - 1 /\ at[i] <= l
        BY ONLY <2>6, <4>1
      <4>5. Param(c, a, b) /\ at[i - 1] + 4 <= at[i]
        BY ONLY <2>4, <4>1, <4>2
      <4>6. ASSUME NEW x \in a .. b PROVE p[0 + x] = c[x]
        <5>1. x \in 1 .. l /\ 0 + x = x
          BY ONLY <2>2, <4>1, <4>2, <4>4, <4>6, <3>2
        <5> QED BY ONLY <2>3, <5>1
      <4>7. a \in Int /\ b \in Int /\ 0 \in Int
        BY ONLY <4>2, <4>4
      <4>8. Param(p, 0 + a, 0 + b)
        BY ONLY <4>5, <4>6, <4>7, ParamMoved
      <4>9. 0 + a = a /\ 0 + b = b
        BY ONLY <4>7
      <4> QED BY ONLY <4>2, <4>3, <4>5, <4>8, <4>9
    <3>3. CASE i = n
      <4>1. n \in 1 .. n /\ n - 1 \in 0 .. n /\ h \in 0 .. h /\ n - 1 = h /\ h + 1 = n /\ 1 \in 1 .. m
            /\ 0 \in 0 .. m /\ 1 \in 0 .. m /\ 1 - 1 = 0
        BY ONLY <2>1, <2>7
      <4>2. ct[h] = at[h] /\ ct[n] = l + bt[1]
        <5>1. ct[h + 1] = l + bt[1]
          BY <2>10, <4>1
        <5> QED BY ONLY <2>9, <4>1, <5>1
      <4>3. at[h] \in Int /\ at[h] >= h - 1 /\ at[h] + 4 <= l /\ Param(c, at[h] + 2, l)
        <5>1. at[n - 1] + 4 <= at[n] /\ Param(c, at[n - 1] + 2, at[n])
          BY ONLY <2>4, <4>1
        <5>2. at[n - 1] \in Int /\ at[n - 1] >= (n - 1) - 1
          BY ONLY <2>6, <4>1
        <5> QED BY ONLY <2>4, <4>1, <5>1, <5>2
      <4>4. bt[1] \in Int /\ bt[1] <= Len(d) /\ 3 <= bt[1] /\ Param(d, 1, bt[1])
        <5>1. bt[1] \in Int /\ bt[1] <= Len(d)
          BY ONLY <2>6, <4>1
        <5>2. bt[1 - 1] + 4 <= bt[1] /\ Param(d, bt[1 - 1] + 2, bt[1])
          BY ONLY <2>5, <4>1
        <5>3. bt[1 - 1] = -1 /\ -1 + 2 = 1 /\ -1 + 4 = 3
          BY ONLY <2>5, <4>1
        <5> QED BY ONLY <5>1, <5>2, <5>3
      <4>5. (\A x \in 1 .. bt[1] : d[x] # SEMICOLON) /\ d[bt[1]] # BLANK
        BY ONLY <4>4 DEF Param
      <4>6. PICK a, b, z : a = at[h] + 2 /\ b = l /\ z = l + bt[1] /\ a \in Int /\ b \in Int /\ z \in Int
                           /\ b < z
        <5>1. PICK x, y : x = at[h] /\ y = bt[1]
          OBVIOUS
        <5>2. x \in Int /\ y \in Int /\ y >= 3
          BY ONLY <4>3, <4>4, <5>1
        <5>3. x + 2 \in Int /\ l \in Int /\ l + y \in Int /\ l < l + y
          BY ONLY <2>2, <5>2
        <5> QED BY ONLY <5>1, <5>3
      <4>7. ASSUME NEW x \in a .. b PROVE p[x] = c[x]
        <5>1. x \in 1 .. l
          BY ONLY <2>2, <2>7, <4>3, <4>6, <4>7
        <5> QED BY ONLY <2>3, <5>1
      <4>8. ASSUME NEW x \in b + 1 .. z PROVE p[x] # SEMICOLON
        <5>1. x - l \in 1 .. bt[1] /\ x - l \in 1 .. Len(d) /\ l + (x - l) = x
          BY ONLY <2>1, <2>2, <4>4, <4>6, <4>8
        <5>2. p[l + (x - l)] = d[x - l]
          BY ONLY <2>3, <5>1
        <5> QED BY ONLY <4>5, <5>1, <5>2
      <4>9. p[z] # BLANK
        <5>1. bt[1] \in 1 .. Len(d)
          BY ONLY <2>1, <4>4
        <5> QED BY ONLY <2>3, <4>5, <4>6, <5>1
      <4>10. Param(c, a, b)
        BY ONLY <4>3, <4>6
      <4>11. Param(p, a, z)
        BY ONLY <4>6, <4>7, <4>8, <4>9, <4>10, ParamLonger
      <4>12. at[h] + 4 <= l + bt[1]
        BY ONLY <2>2, <4>3, <4>4
      <4> QED BY ONLY <3>3, <4>1, <4>2, <4>6, <4>11, <4>12
    <3>4. CASE i - h \in 2 .. m /\ h + (i - h) = i
      <4>1. PICK j \in 2 .. m : h + j = i
        BY <3>4
      <4>2. j \in 1 .. m /\ j - 1 \in 1 .. m /\ j \in 0 .. m /\ j - 1 \in 0 .. m /\ h + (j - 1) = i - 1
        BY ONLY <2>1, <2>7, <4>1, j \in 2 .. m
      <4>3. ct[h + j] = l + bt[j] /\ ct[h + (j - 1)] = l + bt[j - 1]
        BY ONLY <2>10, <4>2
      <4>4. /\ bt[j] \in Int /\ bt[j - 1] \in Int /\ bt[j - 1] >= (j - 1) - 1 /\ bt[j] <= Len(d)
        BY ONLY <2>6, <4>2
      <4>5. PICK a, b, o : a = bt[j - 1] + 2 /\ b = bt[j] /\ o = l /\ a \in Int /\ b \in Int
                           /\ o \in Int
        BY ONLY <2>2, <4>4
      <4>6. bt[j - 1] + 4 <= bt[j] /\ Param(d, a, b)
        BY ONLY <2>5, <4>2, <4>5
      <4>7. ASSUME NEW x \in a .. b PROVE p[o + x] = d[x]
        <5>1. x \in 1 .. Len(d)
          BY ONLY <2>1, <4>2, <4>4, <4>5, <4>7
        <5> QED BY ONLY <2>3, <4>5, <5>1
      <4>8. Param(p, o + a, o + b)
        BY ONLY <4>5, <4>6, <4>7, ParamMoved
      <4>9. o + a = ct[i - 1] + 2 /\ o + b = ct[i] /\ ct[i - 1] + 4 <= ct[i]
        <5>1. PICK x, y : x = bt[j - 1] /\ y = bt[j]
          OBVIOUS
        <5>2. x \in Int /\ y \in Int /\ x + 4 <= y /\ a = x + 2 /\ b = y
              /\ ct[i] = l + y /\ ct[i - 1] = l + x
          BY ONLY <4>1, <4>2, <4>3, <4>4, <4>5, <4>6, <5>1
        <5> QED BY ONLY <2>2, <4>5, <5>2
      <4> QED BY ONLY <4>8, <4>9
    <3> QED BY ONLY <3>1, <3>2, <3>3, <3>4
  <2>14. ASSUME NEW i \in 1 .. k - 1 PROVE p[ct[i] + 1] = SEMICOLON
    <3>1. i \in 1 .. h \/ (i - h \in 1 .. m - 1 /\ h + (i - h) = i)
      BY ONLY <2>1, <2>7, <2>14
    <3>2. CASE i \in 1 .. h
      <4>1. /\ i \in 0 .. n /\ i + 1 \in 1 .. n /\ (i + 1) - 1 = i /\ i + 1 \in 0 .. n /\ i \in 0 .. h
            /\ i \in 1 .. n - 1
        BY ONLY <2>1, <2>7, <3>2
      <4>2. at[(i + 1) - 1] + 4 <= at[i + 1]
        BY ONLY <2>4, <4>1
      <4>3. at[i] + 4 <= at[i + 1]
        BY ONLY <4>1, <4>2
      <4>4. at[i + 1] <= l /\ at[i] >= i - 1 /\ at[i] \in Int /\ at[i + 1] \in Int
        BY ONLY <2>6, <4>1
      <4>5. at[i] + 1 \in 1 .. l
        BY ONLY <2>2, <4>1, <4>3, <4>4
      <4>6. c[at[i] + 1] = SEMICOLON
        BY ONLY <2>4, <4>1
      <4>7. ct[i] = at[i]
        BY ONLY <2>9, <4>1
      <4>8. p[at[i] + 1] = c[at[i] + 1]
        BY ONLY <2>3, <4>5
      <4> QED BY ONLY <4>6, <4>7, <4>8
    <3>3. CASE i - h \in 1 .. m - 1 /\ h + (i - h) = i
      <4>1. PICK j \in 1 .. m - 1 : h + j = i
        BY <3>3
      <4>2. j \in 0 .. m /\ j + 1 \in 1 .. m /\ (j + 1) - 1 = j /\ j + 1 \in 0 .. m /\ j \in 1 .. m
        BY ONLY <2>1, j \in 1 .. m - 1
      <4>3. bt[(j + 1) - 1] + 4 <= bt[j + 1]
        BY ONLY <2>5, <4>2
      <4>4. bt[j] + 4 <= bt[j + 1]
        BY ONLY <4>2, <4>3
      <4>5. bt[j + 1] <= Len(d) /\ bt[j] >= j - 1 /\ bt[j] \in Int /\ bt[j + 1] \in Int
        BY ONLY <2>6, <4>2
      <4>6. ct[h + j] = l + bt[j]
        BY ONLY <2>10, <4>2
      <4>7. bt[j] + 1 \in 1 .. Len(d)
        BY ONLY <2>1, <4>2, <4>4, <4>5
      <4>8. d[bt[j] + 1] = SEMICOLON
        BY ONLY <2>5, j \in 1 .. m - 1
      <4>9. p[l + (bt[j] + 1)] = d[bt[j] + 1]
        BY ONLY <2>3, <4>7
      <4>10. l + (bt[j] + 1) = ct[i] + 1
        BY ONLY <2>2, <4>1, <4>5, <4>6
      <4> QED BY ONLY <4>8, <4>9, <4>10
    <3> QED BY ONLY <3>1, <3>2, <3>3
  <2>15. ct[0] = -1 /\ ct[k] = Len(p) /\ k # 0
    <3>1. /\ 0 \in 0 .. h /\ m \in 1 .. m /\ h + m = k /\ k # 0
      BY ONLY <2>1, <2>7
    <3>2. ct[h + m] = l + bt[m]
      BY ONLY <2>10, <3>1
    <3> QED BY ONLY <2>3, <2>4, <2>5, <2>9, <3>1, <3>2
  <2>16. Laid(p, k, ct)
    BY ONLY <2>12, <2>13, <2>14, <2>15 DEF Laid
  <2> QED BY <2>2, <2>3, <2>7, <2>16 DEF IsConfig
<1> QED BY <1>3, <1>4, <1>5

\* The needles of a text: its tokens up to a blank one.
LEMMA NeedlesAre ==
  ASSUME NEW t \in Text
  PROVE  \E got, n : /\ got = Take(t, [i \in DOMAIN t |-> SEMICOLON]).got
                     /\ n \in 0 .. Len(t) /\ Len(got) = Len(t)
                     /\ Len(Needles(t)) = n
                     /\ \A i \in 1 .. n : /\ Needles(t)[i] = got[i] /\ got[i] # << >>
                                          /\ Trim(got[i]) /\ Without(got[i], SEMICOLON)
                     /\ n < Len(t) => got[n + 1] = << >>
<1>1. PICK m : m = Len(t) /\ m \in Nat /\ DOMAIN t = 1 .. m
  BY TextIs
<1>2. PICK delims, got : delims = [i \in 1 .. m |-> SEMICOLON] /\ got = Take(t, delims).got
  OBVIOUS
<1>3. SEMICOLON \in Word \ {"end"}
  BY Words, Delimiters
<1>4. /\ IsDelims(delims) /\ Len(delims) = m /\ \A i \in 1 .. m : delims[i] = SEMICOLON
  <2>1. delims \in [1 .. m -> Word \ {"end"}]
    BY ONLY <1>2, <1>3
  <2>2. delims \in Seq(Word \ {"end"}) /\ Len(delims) = m
    BY ONLY <1>1, <2>1, LenProperties
  <2>3. \A i \in 1 .. m : delims[i] = SEMICOLON
    BY ONLY <1>2
  <2> QED BY <2>2, <2>3 DEF IsDelims
<1>5. /\ got \in Seq(Text) /\ Len(got) = m
      /\ \A i \in 1 .. m : Trim(got[i]) /\ Without(got[i], delims[i])
  BY <1>2, <1>4, TakeOk
<1>6. PICK all : all = got \o << << >> >>
  OBVIOUS
<1>7. /\ all \in Seq(Text) /\ Len(all) = m + 1 /\ all[m + 1] = << >>
      /\ \A i \in 1 .. m : all[i] = got[i]
  <2>1. << << >> >> \in Seq(Text) /\ Len(<< << >> >>) = 1 /\ << << >> >>[1] = << >>
    BY NoWord
  <2> QED BY <1>1, <1>5, <1>6, <2>1, ConcatProperties
<1>8. PICK f : f = Find(all, << >>)
  OBVIOUS
<1>9. Len(all) \in Nat
  BY <1>1, <1>7
<1>10. /\ f \in 0 .. Len(all)
       /\ f = 0 => \A i \in 1 .. Len(all) : all[i] # << >>
       /\ f # 0 => all[f] = << >> /\ \A i \in 1 .. f - 1 : all[i] # << >>
  BY <1>8, <1>9, FindIn
<1>11. PICK n : n = f - 1
  OBVIOUS
<1>12. f # 0
  <2>1. m + 1 \in 1 .. Len(all)
    BY ONLY <1>1, <1>7
  <2> QED BY ONLY <1>7, <1>10, <2>1
<1>13. n \in 0 .. m /\ n + 1 = f
  BY ONLY <1>1, <1>7, <1>10, <1>11, <1>12
<1>14. PICK needles : needles = SubSeq(got, 1, n)
  OBVIOUS
<1>15. needles = Needles(t)
  BY <1>1, <1>2, <1>6, <1>8, <1>11, <1>14 DEF Needles
<1>16. Len(needles) = n /\ \A i \in 1 .. n : needles[i] = got[i]
  <2>1. CASE n = 0
    <3>1. needles = << >> /\ Len(<< >>) = 0
      BY <1>14, <2>1, SubSeqProperties
    <3> QED BY <2>1, <3>1
  <2>2. CASE n # 0
    <3>1. /\ 1 \in 1 .. n + 1 /\ \A i \in 1 .. n : got[i] \in Text
      BY <1>5, <1>13, <2>2, ElementOfSeq
    <3>2. n \in Nat /\ 1 <= n /\ 1 .. n \subseteq 1 .. Len(got)
      BY ONLY <1>1, <1>5, <1>13, <2>2
    <3>3. Len(needles) = n - 1 + 1 /\ \A i \in 1 .. n - 1 + 1 : needles[i] = got[1 + i - 1]
      BY <1>14, <3>1, <3>2, SubSeqProperties
    <3>4. ASSUME NEW i \in 1 .. n PROVE needles[i] = got[i]
      <4>1. i \in 1 .. n - 1 + 1 /\ 1 + i - 1 = i
        BY ONLY <3>2, <3>4
      <4> QED BY ONLY <3>3, <4>1
    <3> QED BY ONLY <3>2, <3>3, <3>4
  <2> QED BY <2>1, <2>2
<1>17. ASSUME NEW i \in 1 .. n
       PROVE  got[i] # << >> /\ Trim(got[i]) /\ Without(got[i], SEMICOLON)
  <2>1. i \in 1 .. f - 1 /\ i \in 1 .. m
    BY ONLY <1>1, <1>13, <1>17, <1>11
  <2> QED BY ONLY <1>4, <1>5, <1>7, <1>10, <1>12, <2>1
<1>18. n < m => got[n + 1] = << >>
  <2> SUFFICES ASSUME n < m PROVE got[n + 1] = << >>
    OBVIOUS
  <2>1. n + 1 \in 1 .. m
    BY ONLY <1>1, <1>13, n < m
  <2> QED BY ONLY <1>7, <1>10, <1>12, <1>13, <2>1
<1> QED BY ONLY <1>1, <1>2, <1>5, <1>13, <1>15, <1>16, <1>17, <1>18

\* The parameters after n needles.
Configs(f, needles, n) ==
  f = [i \in 0 .. n |-> IF i = 0 THEN << >> ELSE WithParam(f[i - 1], needles[i])]

LEMMA ConfigsExists ==
  ASSUME NEW needles, NEW n \in Nat
  PROVE  \E f : Configs(f, needles, n)
<1> DEFINE B == {k \in Nat : ~\E f : Configs(f, needles, k)}
<1>1. SUFFICES ASSUME B # {} PROVE FALSE
  OBVIOUS
<1>2. PICK k \in B : \A j \in B : k <= j
  BY <1>1, MinIs
<1>3. CASE k = 0
  <2> DEFINE f == [i \in 0 .. 0 |-> << >>]
  <2>1. f = [i \in 0 .. 0 |-> IF i = 0 THEN << >> ELSE WithParam(f[i - 1], needles[i])]
    OBVIOUS
  <2>2. Configs(f, needles, 0)
    BY <2>1 DEF Configs
  <2> QED BY <1>2, <1>3, <2>2
<1>4. CASE k # 0
  <2>1. k - 1 \in Nat /\ k - 1 \notin B
    BY <1>2, <1>4
  <2>2. PICK f : Configs(f, needles, k - 1)
    BY <2>1
  <2> DEFINE g == [i \in 0 .. k |-> IF i = 0 THEN << >> ELSE WithParam(f[i - 1], needles[i])]
  <2>3. \A i \in 0 .. k - 1 : f[i] = IF i = 0 THEN << >> ELSE WithParam(f[i - 1], needles[i])
    BY <2>2 DEF Configs
  <2>4. \A i \in 0 .. k - 1 : g[i] = f[i]
    BY <2>1, <2>3
  <2>5. \A i \in 0 .. k : i # 0 => f[i - 1] = g[i - 1]
    <3>1. \A i \in 0 .. k : i # 0 => i - 1 \in 0 .. k - 1
      BY <2>1
    <3> HIDE DEF g
    <3> QED BY <2>4, <3>1
  <2>6. g = [i \in 0 .. k |-> IF i = 0 THEN << >> ELSE WithParam(g[i - 1], needles[i])]
    BY <2>5
  <2>7. Configs(g, needles, k)
    BY <2>6 DEF Configs
  <2> QED BY <1>2, <2>7
<1> QED BY <1>3, <1>4

Configuring(f, needles, n) ==
  f[0] = << >> /\ \A i \in 1 .. n : f[i] = WithParam(f[i - 1], needles[i])

LEMMA ConfigIs ==
  ASSUME NEW t, NEW n \in Nat, Len(Needles(t)) = n
  PROVE  \E f : Config(t) = f[n] /\ Configuring(f, Needles(t), n)
<1>1. \E f : Configs(f, Needles(t), n)
  BY ConfigsExists
<1>2. PICK f : f = CHOOSE g : Configs(g, Needles(t), n)
  OBVIOUS
<1>3. Configs(f, Needles(t), n)
  BY <1>1, <1>2
<1>4. Config(t) = f[n]
  BY <1>2 DEF Config, ConfigOf, Configs
<1>5. Configuring(f, Needles(t), n)
  BY <1>3 DEF Configs, Configuring
<1> QED BY <1>4, <1>5

\* A description only keeps well-formed parameters.
LEMMA WithParamIs ==
  ASSUME NEW c, NEW x, NEW k, NEW v, k = Split(x, "=").key, v = Split(x, "=").val
  PROVE  WithParam(c, x) =
           IF k # << >> /\ v # << >>
           THEN c \o (IF c # << >> THEN <<SEMICOLON>> ELSE << >>) \o k \o <<"=">> \o v ELSE c
BY DEF WithParam, WithPair, IsSplit

LEMMA JoinIs ==
  ASSUME NEW a \in Text, NEW k \in Text, NEW v \in Text
  PROVE  a \o k \o <<"=">> \o v = a \o (k \o <<"=">> \o v)
<1>1. PICK e : e = <<"=">>
  OBVIOUS
<1>2. e \in Text
  BY <1>1, OneWord, Words
<1>3. PICK p, q : p = k \o e /\ q = p \o v
  OBVIOUS
<1>4. p \in Text
  BY <1>2, <1>3, BothAre
<1>5. a \in Seq(Word) /\ k \in Seq(Word) /\ v \in Seq(Word) /\ e \in Seq(Word) /\ p \in Seq(Word)
  BY <1>2, <1>4 DEF Text
<1>6. (a \o k) \o e = a \o (k \o e)
  BY ONLY <1>5, ConcatAssociative
<1>7. (a \o p) \o v = a \o (p \o v)
  BY ONLY <1>5, ConcatAssociative
<1> QED BY ONLY <1>1, <1>3, <1>6, <1>7

LEMMA WithParamOk ==
  ASSUME NEW c, IsConfig(c), NEW x \in Text, Without(x, SEMICOLON)
  PROVE  IsConfig(WithParam(c, x))
<1>1. PICK k, v : k = Split(x, "=").key /\ v = Split(x, "=").val
  OBVIOUS
<1>2. /\ Trim(k) /\ Trim(v) /\ Without(k, "=") /\ Without(k, SEMICOLON) /\ Without(v, SEMICOLON)
  BY <1>1, SplitOk
<1>3. PICK sep : sep = IF c # << >> THEN <<SEMICOLON>> ELSE << >>
  OBVIOUS
<1>4. WithParam(c, x) = IF k # << >> /\ v # << >> THEN c \o sep \o k \o <<"=">> \o v ELSE c
  BY <1>1, <1>3 DEF WithParam, WithPair, IsSplit
<1>5. CASE ~(k # << >> /\ v # << >>)
  BY <1>4, <1>5
<1>6. CASE k # << >> /\ v # << >>
  <2>1. IsKey(k) /\ IsVal(v)
    BY <1>2, <1>6 DEF IsKey, IsVal
  <2>2. PICK p : p = k \o <<"=">> \o v
    OBVIOUS
  <2>3. IsConfig(p) /\ p # << >> /\ p \in Text
    BY <2>1, <2>2, PairIs
  <2>4. c \in Text /\ k \in Text /\ v \in Text
    BY <1>2 DEF IsConfig, Trim
  <2>5. CASE c = << >>
    <3>1. sep = << >> /\ c \o sep = << >>
      BY <1>3, <2>5, NoWord, ConcatEmptySeq DEF Text
    <3>2. << >> \o k = k
      BY <2>4, ConcatEmptySeq DEF Text
    <3>3. WithParam(c, x) = p
      BY ONLY <1>4, <1>6, <2>2, <3>1, <3>2
    <3> QED BY <2>3, <3>3
  <2>6. CASE c # << >>
    <3>1. PICK a : a = c \o <<SEMICOLON>>
      OBVIOUS
    <3>2. <<SEMICOLON>> \in Text
      BY OneWord, Words
    <3>3. a \in Text
      BY <2>4, <3>1, <3>2, BothAre
    <3>4. a \o k \o <<"=">> \o v = a \o p
      BY <2>2, <2>4, <3>3, JoinIs
    <3>5. IsConfig(a \o p)
      BY <2>3, <2>6, <3>1, ConfigApart
    <3>6. WithParam(c, x) = a \o p
      BY ONLY <1>3, <1>4, <1>6, <2>6, <3>1, <3>4
    <3> QED BY <3>5, <3>6
  <2> QED BY <2>5, <2>6
<1> QED BY <1>5, <1>6

LEMMA ConfigOk ==
  ASSUME NEW t \in Text
  PROVE  IsConfig(Config(t))
<1>1. PICK got, n :
        /\ got = Take(t, [i \in DOMAIN t |-> SEMICOLON]).got
        /\ n \in 0 .. Len(t) /\ Len(got) = Len(t)
        /\ Len(Needles(t)) = n
        /\ \A i \in 1 .. n : /\ Needles(t)[i] = got[i] /\ got[i] # << >>
                             /\ Trim(got[i]) /\ Without(got[i], SEMICOLON)
        /\ n < Len(t) => got[n + 1] = << >>
  BY NeedlesAre
<1>2. n \in Nat /\ Len(Needles(t)) = n
  BY <1>1, TextIs
<1>3. PICK f : Config(t) = f[n] /\ Configuring(f, Needles(t), n)
  BY ONLY <1>2, ConfigIs
<1>4. f[0] = << >> /\ \A i \in 1 .. n : f[i] = WithParam(f[i - 1], Needles(t)[i])
  BY <1>3 DEF Configuring
<1>5. \A i \in 1 .. n : Needles(t)[i] \in Text /\ Without(Needles(t)[i], SEMICOLON)
  BY <1>1 DEF Trim
<1> DEFINE B == {i \in 0 .. n : ~IsConfig(f[i])}
<1>6. B = {}
  <2>1. SUFFICES ASSUME B # {} PROVE FALSE
    OBVIOUS
  <2>2. PICK i \in B : \A j \in B : i <= j
    <3>1. B \subseteq Nat
      OBVIOUS
    <3> QED BY ONLY <2>1, <3>1, MinIs
  <2>3. i # 0
    BY <1>4, <2>2, NoConfig
  <2>4. i \in 1 .. n /\ i - 1 \in 0 .. n /\ i - 1 \notin B
    <3>1. n \in Nat /\ i \in 0 .. n
      BY <1>2
    <3>2. i \in 1 .. n /\ i - 1 \in 0 .. n /\ ~(i <= i - 1)
      BY ONLY <3>1, <2>3
    <3> HIDE DEF B
    <3> QED BY ONLY <2>2, <3>2
  <2>5. IsConfig(f[i - 1])
    BY <2>4
  <2>6. IsConfig(WithParam(f[i - 1], Needles(t)[i]))
    BY <1>5, <2>4, <2>5, WithParamOk
  <2> QED BY <1>2, <1>4, <2>2, <2>4, <2>6
<1>7. n \in 0 .. n
  BY <1>2
<1> QED BY <1>3, <1>6, <1>7

\* A parameter that stands alone is split and joined to what it was.
LEMMA PairBack ==
  ASSUME NEW s \in Text, Len(s) >= 3, Param(s, 1, Len(s))
  PROVE  LET k == Split(s, "=").key
             v == Split(s, "=").val
         IN /\ k \in Text /\ v \in Text /\ k # << >> /\ v # << >>
            /\ k \o <<"=">> \o v = s
<1>1. PICK l : l = Len(s)
  OBVIOUS
<1>2. l \in Nat /\ l >= 3
  BY <1>1, TextIs
<1>3. PICK e \in 2 .. l - 1 :
        /\ s[e] = "=" /\ \A i \in 1 .. e - 1 : s[i] # "="
        /\ s[1] # BLANK /\ s[e - 1] # BLANK /\ s[e + 1] # BLANK /\ s[l] # BLANK
  BY <1>1 DEF Param
<1>4. PICK k, v : k = SubSeq(s, 1, e - 1) /\ v = From(s, e + 1)
  OBVIOUS
<1>5. /\ k \in Text /\ Len(k) = e - 1 /\ \A i \in 1 .. e - 1 : k[i] = s[i]
  <2>1. 1 \in 1 .. Len(s) + 1 /\ e - 1 \in 1 - 1 .. Len(s)
    BY <1>1, <1>2
  <2>2. /\ SubSeq(s, 1, e - 1) \in Text /\ Len(SubSeq(s, 1, e - 1)) = (e - 1) - 1 + 1
        /\ \A i \in 1 .. (e - 1) - 1 + 1 : SubSeq(s, 1, e - 1)[i] = s[1 + i - 1]
    BY <2>1, PieceIs
  <2>3. (e - 1) - 1 + 1 = e - 1 /\ \A i \in 1 .. e - 1 : 1 + i - 1 = i
    BY <1>2
  <2> QED BY <1>4, <2>2, <2>3
<1>6. /\ v \in Text /\ Len(v) = l - e /\ \A i \in 1 .. l - e : v[i] = s[e + i]
  <2>1. e + 1 \in 1 .. Len(s) + 1
    BY <1>1, <1>2
  <2>2. /\ From(s, e + 1) \in Text /\ Len(From(s, e + 1)) = Len(s) - (e + 1) + 1
        /\ \A i \in 1 .. Len(s) - (e + 1) + 1 : From(s, e + 1)[i] = s[(e + 1) + i - 1]
    BY <2>1, BehindIs
  <2>3. l - (e + 1) + 1 = l - e /\ \A i \in 1 .. l - e : (e + 1) + i - 1 = e + i
    BY <1>2
  <2> QED BY <1>1, <1>4, <2>2, <2>3
<1>7. k # << >> /\ v # << >> /\ Trim(k) /\ Trim(v)
  <2>1. Len(k) # 0 /\ Len(v) # 0
    BY <1>2, <1>5, <1>6
  <2>2. k[1] # BLANK /\ k[Len(k)] # BLANK /\ v[1] # BLANK /\ v[Len(v)] # BLANK
    <3>1. /\ 1 \in 1 .. e - 1 /\ e - 1 \in 1 .. e - 1 /\ 1 \in 1 .. l - e
          /\ l - e \in 1 .. l - e /\ e + (l - e) = l
      BY <1>2
    <3> QED BY <1>3, <1>5, <1>6, <3>1
  <2> QED BY <1>5, <1>6, <2>1, <2>2, NoneIsEmpty DEF Trim
<1>8. Split(s, "=") = [key |-> Strip(k), val |-> Strip(v)]
  BY <1>1, <1>3, <1>4, SplitAt
<1>9. Split(s, "=").key = k /\ Split(s, "=").val = v
  BY <1>7, <1>8, StripNone
<1>10. k \o <<"=">> \o v = s
  <2>1. PICK q, p : q = k \o <<"=">> /\ p = q \o v
    OBVIOUS
  <2>2. <<"=">> \in Text /\ Len(<<"=">>) = 1 /\ <<"=">>[1] = "="
    BY OneWord, Words
  <2>3. /\ q \in Text /\ Len(q) = e
        /\ \A i \in 1 .. e - 1 : q[i] = s[i]
        /\ q[e] = s[e]
    <3>1. /\ q \in Text /\ Len(q) = Len(k) + 1
          /\ \A i \in 1 .. Len(k) : q[i] = k[i]
          /\ \A i \in 1 .. 1 : q[Len(k) + i] = <<"=">>[i]
      <4>1. k \in Text /\ <<"=">> \in Text /\ Len(<<"=">>) = 1 /\ q = k \o <<"=">>
        BY ONLY <1>5, <2>1, <2>2
      <4> QED BY ONLY <4>1, BothAre
    <3>2. q[Len(k) + 1] = "=" /\ Len(k) + 1 = e
      BY <1>2, <1>5, <2>2, <3>1
    <3> QED BY <1>3, <1>5, <3>1, <3>2
  <2>4. /\ p \in Text /\ Len(p) = Len(q) + Len(v)
        /\ \A i \in 1 .. Len(q) : p[i] = q[i]
        /\ \A i \in 1 .. Len(v) : p[Len(q) + i] = v[i]
    <3>1. q \in Text /\ v \in Text /\ p = q \o v
      BY ONLY <1>6, <2>1, <2>3
    <3> QED BY ONLY <3>1, BothAre
  <2>5. Len(p) = l
    BY <1>2, <1>6, <2>3, <2>4
  <2>6. ASSUME NEW i \in 1 .. l PROVE p[i] = s[i]
    <3>1. CASE i <= e
      <4>1. i \in 1 .. e /\ (i \in 1 .. e - 1 \/ i = e)
        BY <1>2, <3>1
      <4> QED BY <2>3, <2>4, <4>1
    <3>2. CASE i > e
      <4>1. i - e \in 1 .. l - e /\ e + (i - e) = i
        BY <1>2, <3>2
      <4>2. p[e + (i - e)] = v[i - e] /\ v[i - e] = s[e + (i - e)]
        BY <1>6, <2>3, <2>4, <4>1
      <4> QED BY <4>1, <4>2
    <3> QED BY <3>1, <3>2
  <2> QED BY <1>1, <2>1, <2>4, <2>5, <2>6, SameText
<1> QED BY <1>5, <1>6, <1>7, <1>9, <1>10

LEMMA WithParamAt ==
  ASSUME NEW s \in Text, Len(s) >= 3, Param(s, 1, Len(s))
  PROVE  /\ WithParam(<< >>, s) = s
         /\ \A a \in Text : a # << >> => WithParam(a, s) = a \o <<SEMICOLON>> \o s
<1>1. PICK k, v : k = Split(s, "=").key /\ v = Split(s, "=").val
  OBVIOUS
<1>2. k \in Text /\ v \in Text /\ k # << >> /\ v # << >> /\ k \o <<"=">> \o v = s
  BY <1>1, PairBack
<1>3. ASSUME NEW a
      PROVE  WithParam(a, s) =
               a \o (IF a # << >> THEN <<SEMICOLON>> ELSE << >>) \o k \o <<"=">> \o v
  BY ONLY <1>1, <1>2 DEF WithParam, WithPair, IsSplit
<1>4. WithParam(<< >>, s) = s
  <2>1. << >> \o << >> = << >> /\ << >> \o k = k
    BY <1>2, NoWord, ConcatEmptySeq DEF Text
  <2>2. WithParam(<< >>, s) = << >> \o << >> \o k \o <<"=">> \o v
    BY <1>3
  <2> QED BY ONLY <1>2, <2>1, <2>2
<1>5. ASSUME NEW a \in Text, a # << >> PROVE WithParam(a, s) = a \o <<SEMICOLON>> \o s
  <2>1. WithParam(a, s) = a \o <<SEMICOLON>> \o k \o <<"=">> \o v
    BY <1>3, <1>5
  <2>2. PICK b : b = a \o <<SEMICOLON>>
    OBVIOUS
  <2>3. b \in Text
    BY <2>2, BothAre, OneWord, Words
  <2>4. b \o k \o <<"=">> \o v = b \o (k \o <<"=">> \o v)
    BY <1>2, <2>3, JoinIs
  <2> QED BY ONLY <1>2, <2>1, <2>2, <2>4
<1> QED BY <1>4, <1>5

\* The tokens of a text, one by one.
LEMMA TakingGot ==
  ASSUME NEW t \in Text, NEW delims, NEW n \in Nat, NEW f, Taking(f, t, delims, n),
         \A i \in 1 .. n : delims[i] \in Word \ {"end"}
  PROVE  \A m \in 0 .. n :
           /\ f[m].rest \in Text /\ f[m].got \in Seq(Text) /\ Len(f[m].got) = m
           /\ \A j \in 1 .. m : f[m].got[j] = Token(f[j - 1].rest, delims[j]).ret
<1> DEFINE Ok(m) == /\ f[m].rest \in Text /\ f[m].got \in Seq(Text) /\ Len(f[m].got) = m
                    /\ \A j \in 1 .. m : f[m].got[j] = Token(f[j - 1].rest, delims[j]).ret
           B == {m \in 0 .. n : ~Ok(m)}
<1>1. SUFFICES ASSUME B # {} PROVE FALSE
  OBVIOUS
<1>2. PICK m \in B : \A j \in B : m <= j
  <2>1. B \subseteq Nat
    OBVIOUS
  <2> QED BY ONLY <1>1, <2>1, MinIs
<1>3. CASE m = 0
  <2>1. f[0].rest = t /\ f[0].got = << >>
    BY DEF Taking
  <2>2. << >> \in Seq(Text) /\ Len(<< >>) = 0 /\ 1 .. 0 = {}
    OBVIOUS
  <2>3. Ok(0)
    BY <2>1, <2>2
  <2> QED BY <1>2, <1>3, <2>3
<1>4. CASE m # 0
  <2>1. m \in 1 .. n /\ m - 1 \in 0 .. n /\ m - 1 \notin B
    <3>1. m \in 0 .. n
      OBVIOUS
    <3>2. m \in 1 .. n /\ m - 1 \in 0 .. n /\ ~(m <= m - 1)
      BY ONLY <3>1, <1>4, n \in Nat
    <3> HIDE DEF B
    <3> QED BY ONLY <1>2, <3>2
  <2>2. Ok(m - 1)
    BY <2>1
  <2>3. PICK p, w : p = f[m - 1] /\ w = delims[m]
    OBVIOUS
  <2>4. w \in Word \ {"end"}
    BY <2>1, <2>3
  <2>5. /\ p.rest \in Text /\ p.got \in Seq(Text) /\ Len(p.got) = m - 1
        /\ \A j \in 1 .. m - 1 : p.got[j] = Token(f[j - 1].rest, delims[j]).ret
    BY <2>2, <2>3
  <2>6. PICK x : x = Token(p.rest, w)
    OBVIOUS
  <2>7. x.ret \in Text /\ x.rest \in Text
    BY <2>4, <2>5, <2>6, TokenOk DEF Trim
  <2>8. f[m] = [got |-> Append(p.got, x.ret), rest |-> x.rest]
    BY <2>1, <2>3, <2>6 DEF Taking
  <2>9. PICK g : g = Append(p.got, x.ret)
    OBVIOUS
  <2>10. /\ g \in Seq(Text) /\ Len(g) = m
         /\ \A i \in 1 .. m - 1 : g[i] = p.got[i]
         /\ g[m] = x.ret
    <3>1. p.got \in Seq(Text) /\ x.ret \in Text /\ Len(p.got) = m - 1 /\ m \in Nat
      BY <2>1, <2>5, <2>7
    <3>2. PICK h : h = p.got
      OBVIOUS
    <3> QED BY ONLY <2>9, <3>1, <3>2
  <2>11. f[m].got = g /\ f[m].rest = x.rest
    BY <2>8, <2>9
  <2>12. ASSUME NEW j \in 1 .. m PROVE g[j] = Token(f[j - 1].rest, delims[j]).ret
    <3>1. CASE j = m
      BY <2>3, <2>6, <2>10, <3>1
    <3>2. CASE j # m
      <4>1. j \in 1 .. m - 1
        BY <2>1, <3>2
      <4> QED BY <2>5, <2>10, <4>1
    <3> QED BY <3>1, <3>2
  <2>13. Ok(m)
    BY <2>7, <2>10, <2>11, <2>12
  <2> QED BY <1>2, <2>13
<1> QED BY <1>3, <1>4

\* The text of fmtp: a blank, and the parameters.
Shifted(t, c) == t \in Text /\ Len(t) = Len(c) + 1 /\ t[1] = BLANK /\ \A i \in 1 .. Len(c) : t[i + 1] = c[i]

LEMMA ShiftedIs ==
  ASSUME NEW c \in Text
  PROVE  Shifted(<<BLANK>> \o c, c)
<1>1. PICK t : t = <<BLANK>> \o c
  OBVIOUS
<1>2. <<BLANK>> \in Text /\ Len(<<BLANK>>) = 1 /\ <<BLANK>>[1] = BLANK
  BY OneWord, Words
<1>3. /\ t \in Text /\ Len(t) = 1 + Len(c)
      /\ \A i \in 1 .. 1 : t[i] = <<BLANK>>[i]
      /\ \A i \in 1 .. Len(c) : t[1 + i] = c[i]
  BY <1>1, <1>2, BothAre
<1>4. 1 + Len(c) = Len(c) + 1 /\ \A i \in 1 .. Len(c) : 1 + i = i + 1
  BY TextIs
<1>5. t[1] = BLANK
  BY <1>2, <1>3
<1> QED BY <1>1, <1>3, <1>4, <1>5 DEF Shifted

\* The place where parameter i begins.
Segment(c, at, i) == SubSeq(c, at[i - 1] + 2, at[i])

LEMMA SegmentIs ==
  ASSUME NEW c \in Text, NEW n \in Nat, NEW at, Laid(c, n, at), NEW i \in 1 .. n
  PROVE  LET s == Segment(c, at, i)
         IN /\ at[i - 1] \in Int /\ at[i] \in Int /\ at[i - 1] >= -1 /\ at[i - 1] + 4 <= at[i]
            /\ at[i] <= Len(c)
            /\ s \in Text /\ Len(s) = at[i] - at[i - 1] - 1 /\ Len(s) >= 3
            /\ \A j \in 1 .. Len(s) : s[j] = c[at[i - 1] + 1 + j]
            /\ Param(s, 1, Len(s)) /\ Trim(s) /\ s # << >>
            /\ \A j \in at[i - 1] + 2 .. at[i] : c[j] # SEMICOLON
            /\ c[at[i - 1] + 2] # BLANK /\ c[at[i]] # BLANK
<1>1. /\ \A j \in 0 .. n : at[j] \in Int /\ at[j] >= j - 1 /\ at[j] <= at[n]
  BY AtMonotone
<1>2. i - 1 \in 0 .. n /\ i \in 0 .. n /\ n > 0 /\ i - 1 - 1 >= -1
  OBVIOUS
<1>3. at[n] = Len(c) /\ at[i - 1] + 4 <= at[i] /\ Param(c, at[i - 1] + 2, at[i])
  BY <1>2 DEF Laid
<1>4. PICK x, y, s : x = at[i - 1] /\ y = at[i] /\ s = Segment(c, at, i)
  OBVIOUS
<1>5. /\ x \in Int /\ y \in Int /\ x >= -1 /\ x + 4 <= y /\ y <= Len(c)
      /\ Param(c, x + 2, y) /\ Len(c) \in Nat
  BY <1>1, <1>2, <1>3, <1>4, TextIs
<1>6. /\ s \in Text /\ Len(s) = y - (x + 2) + 1
      /\ \A j \in 1 .. y - (x + 2) + 1 : s[j] = c[(x + 2) + j - 1]
  <2>1. x + 2 \in 1 .. Len(c) + 1 /\ y \in (x + 2) - 1 .. Len(c)
    BY <1>5
  <2>2. s = SubSeq(c, x + 2, y)
    BY <1>4 DEF Segment
  <2> QED BY <2>1, <2>2, PieceIs
<1>7. /\ Len(s) = y - x - 1 /\ Len(s) >= 3 /\ Len(s) \in Nat
  BY <1>5, <1>6
<1>8. \A j \in 1 .. Len(s) : s[j] = c[x + 1 + j]
  <2>1. \A j \in 1 .. y - (x + 2) + 1 : (x + 2) + j - 1 = x + 1 + j
    BY <1>5
  <2> QED BY <1>6, <2>1
<1>9. Param(s, 1, Len(s))
  <2>1. PICK o : o = -(x + 1)
    OBVIOUS
  <2>2. o \in Int /\ o + (x + 2) = 1 /\ o + y = Len(s)
    BY <1>5, <1>7, <2>1
  <2>3. ASSUME NEW j \in x + 2 .. y PROVE s[o + j] = c[j]
    <3>1. o + j \in 1 .. Len(s) /\ x + 1 + (o + j) = j
      BY <1>5, <1>7, <2>1
    <3> QED BY <1>8, <3>1
  <2>4. PICK p : p = x + 2
    OBVIOUS
  <2>5. p \in Int /\ y \in Int /\ Param(c, p, y) /\ \A j \in p .. y : s[o + j] = c[j]
    BY <1>5, <2>3, <2>4
  <2>6. Param(s, o + p, o + y)
    BY ONLY <2>2, <2>5, ParamMoved
  <2> QED BY <2>2, <2>4, <2>6
<1>10. /\ \A j \in x + 2 .. y : c[j] # SEMICOLON
       /\ c[x + 2] # BLANK /\ c[y] # BLANK
  BY <1>5 DEF Param
<1>11. s[1] # BLANK /\ s[Len(s)] # BLANK /\ s # << >>
  <2>1. 1 \in 1 .. Len(s) /\ Len(s) \in 1 .. Len(s) /\ x + 1 + 1 = x + 2 /\ x + 1 + Len(s) = y
    BY <1>5, <1>7
  <2>2. s[1] # BLANK /\ s[Len(s)] # BLANK
    BY <1>8, <1>10, <2>1
  <2> QED BY <1>6, <1>7, <2>2, NoneIsEmpty
<1> QED BY <1>4, <1>5, <1>6, <1>7, <1>8, <1>9, <1>10, <1>11 DEF Trim

\* The parameters are found one by one again.
LEMMA SegmentAgain ==
  ASSUME NEW c \in Text, NEW t, Shifted(t, c), NEW n \in Nat, NEW at, Laid(c, n, at), NEW i \in 1 .. n
  PROVE  Token(From(t, at[i - 1] + 2), SEMICOLON)
           = [ret |-> Segment(c, at, i), rest |-> From(t, at[i] + 2)]
<1>1. PICK x, y, s : x = at[i - 1] /\ y = at[i] /\ s = Segment(c, at, i)
  OBVIOUS
<1>2. /\ x \in Int /\ y \in Int /\ x >= -1 /\ x + 4 <= y /\ y <= Len(c)
      /\ s \in Text /\ Len(s) = y - x - 1 /\ Len(s) >= 3
      /\ \A j \in 1 .. Len(s) : s[j] = c[x + 1 + j]
      /\ Trim(s)
      /\ \A j \in x + 2 .. y : c[j] # SEMICOLON
      /\ c[x + 2] # BLANK /\ c[y] # BLANK
  <2>1. c \in Text /\ n \in Nat /\ Laid(c, n, at) /\ i \in 1 .. n
    OBVIOUS
  <2>2. LET z == Segment(c, at, i)
        IN /\ at[i - 1] \in Int /\ at[i] \in Int /\ at[i - 1] >= -1 /\ at[i - 1] + 4 <= at[i]
           /\ at[i] <= Len(c)
           /\ z \in Text /\ Len(z) = at[i] - at[i - 1] - 1 /\ Len(z) >= 3
           /\ \A j \in 1 .. Len(z) : z[j] = c[at[i - 1] + 1 + j]
           /\ Trim(z)
           /\ \A j \in at[i - 1] + 2 .. at[i] : c[j] # SEMICOLON
           /\ c[at[i - 1] + 2] # BLANK /\ c[at[i]] # BLANK
    BY ONLY <2>1, SegmentIs
  <2> QED BY ONLY <1>1, <2>2
<1>3. Len(c) \in Nat /\ t \in Text /\ Len(t) = Len(c) + 1 /\ t[1] = BLANK
      /\ \A j \in 1 .. Len(c) : t[j + 1] = c[j]
  BY TextIs DEF Shifted
<1>4. \A j \in x + 3 .. y + 1 : t[j] = c[j - 1] /\ t[j] # SEMICOLON
  <2>1. \A j \in x + 3 .. y + 1 : j - 1 \in 1 .. Len(c) /\ (j - 1) + 1 = j /\ j - 1 \in x + 2 .. y
    BY <1>2, <1>3
  <2> QED BY <1>2, <1>3, <2>1
<1>5. y < Len(c) => t[y + 2] = SEMICOLON
  <2>1. SUFFICES ASSUME y < Len(c) PROVE t[y + 2] = SEMICOLON
    OBVIOUS
  <2>2. i # n
    <3>1. n > 0 => at[n] = Len(c)
      BY DEF Laid
    <3> QED BY <1>1, <1>3, <2>1, <3>1
  <2>3. i \in 1 .. n - 1
    BY <2>2
  <2>4. c[y + 1] = SEMICOLON
    BY <1>1, <2>3 DEF Laid
  <2>5. y + 1 \in 1 .. Len(c) /\ (y + 1) + 1 = y + 2
    BY <1>2, <1>3, <2>1
  <2> QED BY <1>3, <2>4, <2>5
<1>6. x # -1 => t[x + 2] = SEMICOLON
  <2>1. SUFFICES ASSUME x # -1 PROVE t[x + 2] = SEMICOLON
    OBVIOUS
  <2>2. i # 1
    BY <1>1, <2>1 DEF Laid
  <2>3. i - 1 \in 1 .. n - 1
    BY <2>2
  <2>4. c[x + 1] = SEMICOLON
    BY <1>1, <2>3 DEF Laid
  <2>5. x + 1 \in 1 .. Len(c) /\ (x + 1) + 1 = x + 2
    BY <1>2, <1>3, <2>1
  <2> QED BY <1>3, <2>4, <2>5
<1>7. PICK a : a = IF x = -1 THEN 1 ELSE x + 3
  OBVIOUS
<1>8. TokenAt(t, x + 2, a, y + 2, SEMICOLON)
  <2>1. PICK j, k : j = x + 2 /\ k = y + 2
    OBVIOUS
  <2>2. /\ j \in 1 .. Len(t) + 1 /\ a \in j .. Len(t) + 1 /\ k \in a .. Len(t) + 1 /\ k # a
    BY <1>2, <1>3, <1>7, <2>1
  <2>3. ASSUME NEW z \in j .. a - 1 PROVE t[z] = SEMICOLON
    <3>1. x # -1 /\ z = x + 2
      BY <1>2, <1>7, <2>1
    <3> QED BY <1>6, <3>1
  <2>4. ASSUME NEW z \in a .. k - 1 PROVE t[z] # SEMICOLON
    <3>1. CASE z = 1 /\ x = -1
      BY <1>3, <3>1, Delimiters
    <3>2. CASE ~(z = 1 /\ x = -1)
      <4>1. z \in x + 3 .. y + 1
        BY <1>2, <1>7, <2>1, <3>2
      <4> QED BY <1>4, <4>1
    <3> QED BY <3>1, <3>2
  <2>5. k <= Len(t) => t[k] = SEMICOLON
    BY <1>2, <1>3, <1>5, <2>1
  <2>6. TokenAt(t, j, a, k, SEMICOLON)
    BY <2>2, <2>3, <2>4, <2>5 DEF TokenAt
  <2> QED BY <2>1, <2>6
<1>9. PICK u : u = SubSeq(t, a, (y + 2) - 1)
  OBVIOUS
<1>10. PICK d : d = IF x = -1 THEN 1 ELSE 0
  OBVIOUS
<1>11. u \in Text /\ Len(u) = Len(s) + d /\ \A z \in 1 .. Len(u) : u[z] = t[x + 2 - d + z]
  <2>1. a = x + 3 - d
    BY <1>2, <1>7, <1>10
  <2>2. a \in 1 .. Len(t) + 1 /\ (y + 2) - 1 \in a - 1 .. Len(t)
    BY <1>2, <1>3, <1>7
  <2>3. PICK l, m : l = (y + 2) - 1 /\ m = l - a + 1
    OBVIOUS
  <2>4. u = SubSeq(t, a, l) /\ t \in Text /\ a \in 1 .. Len(t) + 1 /\ l \in a - 1 .. Len(t)
    BY <1>3, <1>9, <2>2, <2>3
  <2>5. /\ u \in Text /\ Len(u) = l - a + 1
        /\ \A z \in 1 .. l - a + 1 : u[z] = t[a + z - 1]
    BY ONLY <2>4, PieceIs
  <2>6. /\ m = Len(s) + d /\ m = Len(u) /\ \A z \in 1 .. m : u[z] = t[a + z - 1]
    BY <1>2, <1>10, <2>1, <2>3, <2>5
  <2>7. \A z \in 1 .. m : a + z - 1 = x + 2 - d + z
    BY <1>2, <1>10, <2>1
  <2>8. \A z \in 1 .. m : u[z] = t[x + 2 - d + z]
    BY ONLY <2>6, <2>7
  <2> QED BY ONLY <2>5, <2>6, <2>8
<1>12. d \in 0 .. 1 /\ Len(s) \in Nat
  BY <1>2, <1>10
<1>13. \A z \in 1 .. Len(s) : u[d + z] = s[z]
  <2>1. ASSUME NEW z \in 1 .. Len(s) PROVE u[d + z] = s[z]
    <3>1. d + z \in 1 .. Len(u) /\ x + 2 - d + (d + z) = x + 2 + z
      BY <1>2, <1>11, <1>12
    <3>2. u[d + z] = t[x + 2 + z]
      BY <1>11, <3>1
    <3>3. x + 2 + z \in x + 3 .. y + 1 /\ (x + 2 + z) - 1 = x + 1 + z
      BY <1>2
    <3>4. t[x + 2 + z] = c[x + 1 + z]
      BY <1>4, <3>3
    <3> QED BY <1>2, <3>2, <3>4
  <2> QED BY <2>1
<1>14. Between(u, 1 + d, Len(u))
  <2>1. PICK l : l = Len(u)
    OBVIOUS
  <2>2. l = Len(s) + d /\ l \in Nat /\ l >= 3
    BY <1>2, <1>11, <1>12, <2>1
  <2>3. 1 + d \in 1 .. l + 1 /\ l \in (1 + d) - 1 .. l /\ 1 + d <= l
    BY <1>12, <2>2, <1>2
  <2>4. ASSUME NEW z \in 1 .. (1 + d) - 1 PROVE u[z] = BLANK
    <3>1. z = 1 /\ d = 1 /\ x = -1 /\ z \in 1 .. l
      BY <1>10, <1>12, <2>2
    <3>2. x + 2 - d + z = 1
      BY <3>1
    <3> QED BY <1>3, <1>11, <2>1, <3>1, <3>2
  <2>5. u[1 + d] # BLANK /\ u[l] # BLANK
    <3>1. /\ 1 \in 1 .. Len(s) /\ Len(s) \in 1 .. Len(s) /\ d + 1 = 1 + d /\ d + Len(s) = l
      BY <1>2, <1>12, <2>2
    <3>2. x + 1 + 1 = x + 2 /\ x + 1 + Len(s) = y
      BY <1>2
    <3>3. s[1] # BLANK /\ s[Len(s)] # BLANK
      BY <1>2, <3>1, <3>2
    <3> QED BY <1>13, <3>1, <3>3
  <2>6. \A z \in l + 1 .. l : u[z] = BLANK
    BY <2>2
  <2>7. ~(1 + d > l)
    BY <2>2, <2>3, <1>12
  <2> QED BY <2>1, <2>3, <2>4, <2>5, <2>6, <2>7 DEF Between
<1>15. Strip(u) = s
  <2>1. Strip(u) = SubSeq(u, 1 + d, Len(u))
    BY <1>11, <1>14, StripAt
  <2>2. PICK b, l : b = 1 + d /\ l = Len(u)
    OBVIOUS
  <2>3. b \in 1 .. Len(u) + 1 /\ l \in b - 1 .. Len(u)
    BY <1>11, <1>12, <2>2, <1>2
  <2>4. /\ SubSeq(u, b, l) \in Text /\ Len(SubSeq(u, b, l)) = l - b + 1
        /\ \A z \in 1 .. l - b + 1 : SubSeq(u, b, l)[z] = u[b + z - 1]
    BY <1>11, <2>3, PieceIs
  <2>5. l - b + 1 = Len(s) /\ \A z \in 1 .. Len(s) : b + z - 1 = d + z
    BY <1>11, <1>12, <2>2
  <2>6. Len(SubSeq(u, b, l)) = Len(s) /\ \A z \in 1 .. Len(s) : SubSeq(u, b, l)[z] = s[z]
    BY <1>13, <2>4, <2>5
  <2>7. SubSeq(u, b, l) = s
    BY <1>2, <2>4, <2>6, SameText
  <2> QED BY <2>1, <2>2, <2>7
<1>16. SEMICOLON \in Word /\ SEMICOLON # "end"
  BY Words, Delimiters
<1>17. Token(From(t, x + 2), SEMICOLON) = [ret |-> Strip(u), rest |-> From(t, y + 2)]
  BY <1>3, <1>8, <1>9, <1>16, TokenThere
<1> QED BY <1>1, <1>15, <1>17

\* The tokens of the text of fmtp are the parameters, and nothing comes behind them.
LEMMA NeedlesAgain ==
  ASSUME NEW c \in Text, c # << >>, NEW t, Shifted(t, c), NEW n \in Nat, NEW at, Laid(c, n, at)
  PROVE  /\ n > 0 /\ Len(Needles(t)) = n
         /\ \A i \in 1 .. n : Needles(t)[i] = Segment(c, at, i)
<1>1. PICK l, m : l = Len(c) /\ m = Len(t)
  OBVIOUS
<1>2. l \in Nat /\ m = l + 1 /\ t \in Text /\ DOMAIN t = 1 .. m
  BY <1>1, TextIs DEF Shifted
<1>3. n > 0
  BY DEF Laid
<1>4. \A i \in 1 .. n : at[i] >= 3 * i
  BY AtMonotone
<1>5. at[n] = l
  BY <1>1, <1>3 DEF Laid
<1>6. n + 1 <= m
  <2>1. n \in 1 .. n /\ l >= 3 * n
    BY <1>3, <1>4, <1>5
  <2> QED BY <1>2, <2>1
<1>7. PICK delims : delims = [i \in DOMAIN t |-> SEMICOLON]
  OBVIOUS
<1>8. Len(delims) = m /\ \A i \in 1 .. m : delims[i] = SEMICOLON
  BY <1>2, <1>7
<1>9. m \in Nat
  BY <1>2
<1>10. PICK f : Take(t, delims) = f[m] /\ Taking(f, t, delims, m)
  BY ONLY <1>8, <1>9, TakeIs
<1>11. SEMICOLON \in Word /\ SEMICOLON # "end"
  BY Words, Delimiters
<1>12. \A i \in 1 .. m : delims[i] \in Word \ {"end"}
  BY <1>8, <1>11
<1>13. \A k \in 0 .. m :
         /\ f[k].rest \in Text /\ f[k].got \in Seq(Text) /\ Len(f[k].got) = k
         /\ \A j \in 1 .. k : f[k].got[j] = Token(f[j - 1].rest, delims[j]).ret
  BY ONLY <1>2, <1>9, <1>10, <1>12, TakingGot
<1>14. \A i \in 1 .. n : /\ Token(From(t, at[i - 1] + 2), SEMICOLON).ret = Segment(c, at, i)
                         /\ Token(From(t, at[i - 1] + 2), SEMICOLON).rest = From(t, at[i] + 2)
  <2>1. SUFFICES ASSUME NEW i \in 1 .. n
                 PROVE  /\ Token(From(t, at[i - 1] + 2), SEMICOLON).ret = Segment(c, at, i)
                        /\ Token(From(t, at[i - 1] + 2), SEMICOLON).rest = From(t, at[i] + 2)
    OBVIOUS
  <2>2. PICK r, s, u : /\ r = Token(From(t, at[i - 1] + 2), SEMICOLON)
                       /\ s = Segment(c, at, i) /\ u = From(t, at[i] + 2)
    OBVIOUS
  <2>3. r = [ret |-> s, rest |-> u]
    BY <2>2, SegmentAgain
  <2>4. r.ret = s /\ r.rest = u
    BY ONLY <2>3
  <2> QED BY ONLY <2>2, <2>4
<1>15. \A i \in 1 .. m : f[i].rest = Token(f[i - 1].rest, SEMICOLON).rest
  <2>1. \A i \in 1 .. m : f[i].rest = Token(f[i - 1].rest, delims[i]).rest
    <3>1. ASSUME NEW i \in 1 .. m PROVE f[i].rest = Token(f[i - 1].rest, delims[i]).rest
      <4>1. PICK g, r : /\ g = Append(f[i - 1].got, Token(f[i - 1].rest, delims[i]).ret)
                        /\ r = Token(f[i - 1].rest, delims[i]).rest
        OBVIOUS
      <4>2. f[i] = [got |-> g, rest |-> r]
        BY <1>10, <4>1 DEF Taking
      <4>3. f[i].rest = r
        BY ONLY <4>2
      <4> QED BY ONLY <4>1, <4>3
    <3> QED BY <3>1
  <2> QED BY ONLY <1>8, <2>1
<1> DEFINE B == {i \in 0 .. n : f[i].rest # From(t, at[i] + 2)}
<1>16. B = {}
  <2>1. SUFFICES ASSUME B # {} PROVE FALSE
    OBVIOUS
  <2>2. PICK i \in B : \A j \in B : i <= j
    <3>1. B \subseteq Nat
      OBVIOUS
    <3> QED BY ONLY <2>1, <3>1, MinIs
  <2>3. i # 0
    <3>1. SUFFICES ASSUME i = 0 PROVE FALSE
      OBVIOUS
    <3>2. at[0] = -1 /\ -1 + 2 = 1
      BY DEF Laid
    <3>3. From(t, 1) = t /\ f[0].rest = t
      BY <1>2, <1>10, FromOne DEF Taking
    <3>4. f[0].rest = From(t, at[0] + 2)
      BY <3>2, <3>3
    <3> QED BY <3>1, <3>4
  <2>4. i \in 1 .. n /\ i - 1 \in 0 .. n /\ i - 1 \notin B
    <3>1. n \in Nat /\ i \in 0 .. n
      OBVIOUS
    <3>2. i \in 1 .. n /\ i - 1 \in 0 .. n /\ ~(i <= i - 1)
      BY ONLY <3>1, <2>3
    <3> HIDE DEF B
    <3> QED BY ONLY <2>2, <3>2
  <2>5. f[i - 1].rest = From(t, at[i - 1] + 2)
    BY <2>4
  <2>6. i \in 1 .. m
    BY <1>2, <1>6, <2>4
  <2>7. f[i].rest = From(t, at[i] + 2)
    <3>1. Token(From(t, at[i - 1] + 2), SEMICOLON).rest = From(t, at[i] + 2)
      BY ONLY <1>14, <2>4
    <3>2. f[i].rest = Token(f[i - 1].rest, SEMICOLON).rest
      BY ONLY <1>15, <2>6
    <3> QED BY ONLY <2>5, <3>1, <3>2
  <2> QED BY <2>2, <2>7
<1>17. \A i \in 0 .. n : f[i].rest = From(t, at[i] + 2)
  BY <1>16
<1>18. PICK got, k :
         /\ got = Take(t, [i \in DOMAIN t |-> SEMICOLON]).got
         /\ k \in 0 .. Len(t) /\ Len(got) = Len(t)
         /\ Len(Needles(t)) = k
         /\ \A i \in 1 .. k : /\ Needles(t)[i] = got[i] /\ got[i] # << >>
                              /\ Trim(got[i]) /\ Without(got[i], SEMICOLON)
         /\ k < Len(t) => got[k + 1] = << >>
  BY <1>2, NeedlesAre
<1>19. \A j \in 1 .. m : got[j] = Token(f[j - 1].rest, SEMICOLON).ret
  <2>1. got = f[m].got
    BY <1>7, <1>10, <1>18
  <2>2. m \in 0 .. m
    BY <1>9
  <2> QED BY <1>8, <1>13, <2>1, <2>2
<1>20. \A i \in 1 .. n : got[i] = Segment(c, at, i) /\ got[i] # << >>
  <2>1. ASSUME NEW i \in 1 .. n PROVE got[i] = Segment(c, at, i) /\ got[i] # << >>
    <3>1. i \in 1 .. m /\ i - 1 \in 0 .. n
      BY <1>2, <1>6
    <3>2. got[i] = Segment(c, at, i)
      <4>1. Token(From(t, at[i - 1] + 2), SEMICOLON).ret = Segment(c, at, i)
        BY <1>14
      <4>2. f[i - 1].rest = From(t, at[i - 1] + 2)
        BY ONLY <1>17, <3>1
      <4>3. got[i] = Token(f[i - 1].rest, SEMICOLON).ret
        BY ONLY <1>19, <3>1
      <4> QED BY ONLY <4>1, <4>2, <4>3
    <3>3. Segment(c, at, i) # << >>
      BY SegmentIs
    <3> QED BY <3>2, <3>3
  <2> QED BY <2>1
<1>21. got[n + 1] = << >>
  <2>1. n + 1 \in 1 .. m /\ (n + 1) - 1 = n /\ n \in 0 .. n
    BY <1>2, <1>6
  <2>2. PICK e : e = Len(t) + 1
    OBVIOUS
  <2>3. e = at[n] + 2
    BY <1>1, <1>2, <1>5, <2>2
  <2>4. got[n + 1] = Token(From(t, e), SEMICOLON).ret
    BY <1>17, <1>19, <2>1, <2>3
  <2>5. TokenAt(t, e, e, e, SEMICOLON)
    BY <1>1, <1>2, <2>2 DEF TokenAt
  <2>6. Token(From(t, e), SEMICOLON).ret = Strip(SubSeq(t, e, e - 1))
    BY <1>2, <1>11, <2>5, TokenThere
  <2>7. e \in 1 .. Len(t) + 1 /\ e - 1 \in e - 1 .. Len(t) /\ (e - 1) - e + 1 = 0
    BY <1>1, <1>2, <2>2
  <2>8. SubSeq(t, e, e - 1) \in Text /\ Len(SubSeq(t, e, e - 1)) = 0
    BY <1>2, <2>7, PieceIs
  <2>9. SubSeq(t, e, e - 1) = << >>
    BY <2>8, NoneIsEmpty
  <2>10. Strip(<< >>) = << >>
    BY NoWord, StripNone
  <2> QED BY <2>4, <2>6, <2>9, <2>10
<1>22. k = n
  <2>1. k \in 0 .. m
    BY <1>1, <1>18
  <2>2. ~(k < n)
    <3>1. SUFFICES ASSUME k < n PROVE FALSE
      OBVIOUS
    <3>2. k + 1 \in 1 .. n /\ k < m
      BY <1>2, <1>6, <2>1, <3>1
    <3>3. got[k + 1] = << >>
      BY <1>1, <1>18, <3>2
    <3> QED BY <1>20, <3>2, <3>3
  <2>3. ~(k > n)
    <3>1. SUFFICES ASSUME k > n PROVE FALSE
      OBVIOUS
    <3>2. n + 1 \in 1 .. k
      BY <2>1, <3>1
    <3> QED BY <1>18, <1>21, <3>2
  <2> QED BY <2>1, <2>2, <2>3
<1> QED BY <1>3, <1>18, <1>20, <1>22

\* The parameters up to number i.
Prefix(c, at, i) == IF i = 0 THEN << >> ELSE SubSeq(c, 1, at[i])

LEMMA PrefixIs ==
  ASSUME NEW c \in Text, NEW n \in Nat, NEW at, Laid(c, n, at), NEW i \in 1 .. n
  PROVE  LET p == Prefix(c, at, i)
         IN /\ p \in Text /\ Len(p) = at[i] /\ p # << >>
            /\ \A j \in 1 .. at[i] : p[j] = c[j]
<1>1. /\ at[i - 1] \in Int /\ at[i] \in Int /\ at[i - 1] >= -1 /\ at[i - 1] + 4 <= at[i]
      /\ at[i] <= Len(c)
  BY SegmentIs
<1>2. PICK y, p : y = at[i] /\ p = SubSeq(c, 1, y)
  OBVIOUS
<1>3. Prefix(c, at, i) = p
  <2>1. i # 0
    OBVIOUS
  <2> QED BY ONLY <1>2, <2>1 DEF Prefix
<1>4. Len(c) \in Nat /\ y \in Int /\ y >= 3 /\ y <= Len(c)
  BY <1>1, <1>2, TextIs
<1>5. 1 \in 1 .. Len(c) + 1 /\ y \in 1 - 1 .. Len(c)
  BY <1>4
<1>6. /\ p \in Text /\ Len(p) = y - 1 + 1 /\ \A j \in 1 .. y - 1 + 1 : p[j] = c[1 + j - 1]
  BY <1>2, <1>5, PieceIs
<1>7. y - 1 + 1 = y /\ \A j \in 1 .. y : 1 + j - 1 = j
  BY <1>4
<1>8. p # << >>
  BY <1>4, <1>6, <1>7, NoneIsEmpty
<1> QED BY <1>2, <1>3, <1>6, <1>7, <1>8

LEMMA PrefixNext ==
  ASSUME NEW c \in Text, NEW n \in Nat, NEW at, Laid(c, n, at), NEW i \in 1 .. n
  PROVE  WithParam(Prefix(c, at, i - 1), Segment(c, at, i)) = Prefix(c, at, i)
<1>1. PICK x, y, s, p : x = at[i - 1] /\ y = at[i] /\ s = Segment(c, at, i) /\ p = Prefix(c, at, i)
  OBVIOUS
<1>2. /\ x \in Int /\ y \in Int /\ x >= -1 /\ x + 4 <= y /\ y <= Len(c)
      /\ s \in Text /\ Len(s) = y - x - 1 /\ Len(s) >= 3 /\ Param(s, 1, Len(s))
      /\ \A j \in 1 .. Len(s) : s[j] = c[x + 1 + j]
  BY <1>1, SegmentIs
<1>3. p \in Text /\ Len(p) = y /\ \A j \in 1 .. y : p[j] = c[j]
  BY <1>1, PrefixIs
<1>4. CASE i = 1
  <2>1. x = -1
    BY <1>1, <1>4 DEF Laid
  <2>2. Len(s) = Len(p)
    BY <1>2, <1>3, <2>1
  <2>3. ASSUME NEW j \in 1 .. Len(s) PROVE s[j] = p[j]
    <3>1. x + 1 + j = j /\ j \in 1 .. y
      BY <1>2, <2>1
    <3>2. s[j] = c[x + 1 + j]
      BY <1>2
    <3> QED BY <1>3, <3>1, <3>2
  <2>4. s = p
    BY <1>2, <1>3, <2>2, <2>3, SameText
  <2>5. Prefix(c, at, i - 1) = << >>
    BY <1>4 DEF Prefix
  <2>6. WithParam(<< >>, s) = s
    BY <1>2, WithParamAt
  <2> QED BY <1>1, <2>4, <2>5, <2>6
<1>5. CASE i # 1
  <2>1. PICK h : h = i - 1
    OBVIOUS
  <2>2. h \in 1 .. n /\ h \in 1 .. n - 1
    BY <1>5, <2>1
  <2>3. PICK a : a = Prefix(c, at, h)
    OBVIOUS
  <2>4. a \in Text /\ Len(a) = x /\ a # << >> /\ \A j \in 1 .. x : a[j] = c[j]
    <3>1. /\ Prefix(c, at, h) \in Text /\ Len(Prefix(c, at, h)) = at[h] /\ Prefix(c, at, h) # << >>
          /\ \A j \in 1 .. at[h] : Prefix(c, at, h)[j] = c[j]
      BY <2>2, PrefixIs
    <3> QED BY <1>1, <2>1, <2>3, <3>1
  <2>5. c[x + 1] = SEMICOLON
    BY <1>1, <2>1, <2>2 DEF Laid
  <2>6. PICK b, q : b = a \o <<SEMICOLON>> /\ q = b \o s
    OBVIOUS
  <2>7. WithParam(a, s) = q
    BY <1>2, <2>4, <2>6, WithParamAt
  <2>8. <<SEMICOLON>> \in Text /\ Len(<<SEMICOLON>>) = 1 /\ <<SEMICOLON>>[1] = SEMICOLON
    BY OneWord, Words
  <2>9. x \in Nat
    BY <2>4, TextIs
  <2>10. /\ b \in Text /\ Len(b) = x + 1 /\ \A j \in 1 .. x : b[j] = c[j]
         /\ b[x + 1] = SEMICOLON
    <3>1. /\ b \in Text /\ Len(b) = Len(a) + 1
          /\ \A j \in 1 .. Len(a) : b[j] = a[j]
          /\ \A j \in 1 .. 1 : b[Len(a) + j] = <<SEMICOLON>>[j]
      <4>1. a \in Text /\ <<SEMICOLON>> \in Text /\ Len(<<SEMICOLON>>) = 1
            /\ b = a \o <<SEMICOLON>>
        BY ONLY <2>4, <2>6, <2>8
      <4> QED BY ONLY <4>1, BothAre
    <3>2. b[Len(a) + 1] = SEMICOLON
      BY <2>8, <3>1
    <3> QED BY <2>4, <3>1, <3>2
  <2>11. /\ q \in Text /\ Len(q) = Len(b) + Len(s)
         /\ \A j \in 1 .. Len(b) : q[j] = b[j]
         /\ \A j \in 1 .. Len(s) : q[Len(b) + j] = s[j]
    <3>1. b \in Text /\ s \in Text /\ q = b \o s
      BY ONLY <1>2, <2>6, <2>10
    <3> QED BY ONLY <3>1, BothAre
  <2>12. Len(q) = Len(p)
    BY <1>2, <1>3, <2>10, <2>11
  <2>13. ASSUME NEW j \in 1 .. Len(q) PROVE q[j] = p[j]
    <3>0. j \in 1 .. y /\ p[j] = c[j]
      BY <1>3, <2>12
    <3>1. CASE j <= x
      <4>1. j \in 1 .. x /\ j \in 1 .. x + 1
        BY <2>9, <3>1
      <4> QED BY <2>10, <2>11, <3>0, <4>1
    <3>2. CASE j = x + 1
      <4>1. j \in 1 .. x + 1
        BY <2>9, <3>2
      <4>2. q[j] = b[j]
        BY <2>10, <2>11, <4>1
      <4> QED BY <2>5, <2>10, <3>0, <3>2, <4>2
    <3>3. CASE j > x + 1
      <4>1. PICK z : z = j - (x + 1)
        OBVIOUS
      <4>2. z \in 1 .. Len(s) /\ x + 1 + z = j
        BY <1>2, <2>9, <3>0, <3>3, <4>1
      <4>3. q[x + 1 + z] = s[z] /\ s[z] = c[x + 1 + z]
        BY <1>2, <2>10, <2>11, <4>2
      <4> QED BY <3>0, <4>2, <4>3
    <3> QED BY <3>1, <3>2, <3>3, <2>9, <3>0
  <2>14. q = p
    BY <1>3, <2>11, <2>12, <2>13, SameText
  <2> QED BY <1>1, <2>1, <2>3, <2>7, <2>14
<1> QED BY <1>4, <1>5

\* The parameters of a description, written and read again, are the same.
LEMMA ConfigAgain ==
  ASSUME NEW c, IsConfig(c), c # << >>, NEW t, Shifted(t, c)
  PROVE  Config(t) = c
<1>1. c \in Text /\ t \in Text
  BY DEF IsConfig, Shifted
<1>2. PICK n : n \in Nat /\ \E at : Laid(c, n, at)
  BY DEF IsConfig
<1>3. PICK at : Laid(c, n, at)
  BY <1>2
<1>4. /\ n > 0 /\ Len(Needles(t)) = n
      /\ \A i \in 1 .. n : Needles(t)[i] = Segment(c, at, i)
  BY <1>1, <1>2, <1>3, NeedlesAgain
<1>5. PICK f : Config(t) = f[n] /\ Configuring(f, Needles(t), n)
  BY ONLY <1>2, <1>4, ConfigIs
<1>6. f[0] = << >> /\ \A i \in 1 .. n : f[i] = WithParam(f[i - 1], Segment(c, at, i))
  BY <1>4, <1>5 DEF Configuring
<1> DEFINE B == {i \in 0 .. n : f[i] # Prefix(c, at, i)}
<1>7. B = {}
  <2>1. SUFFICES ASSUME B # {} PROVE FALSE
    OBVIOUS
  <2>2. PICK i \in B : \A j \in B : i <= j
    <3>1. B \subseteq Nat
      BY <1>2
    <3> QED BY ONLY <2>1, <3>1, MinIs
  <2>3. i # 0
    <3>1. f[0] = Prefix(c, at, 0)
      BY <1>6 DEF Prefix
    <3> QED BY <2>2, <3>1
  <2>4. i \in 1 .. n /\ i - 1 \in 0 .. n /\ i - 1 \notin B
    <3>1. n \in Nat /\ i \in 0 .. n
      BY <1>2
    <3>2. i \in 1 .. n /\ i - 1 \in 0 .. n /\ ~(i <= i - 1)
      BY ONLY <3>1, <2>3
    <3> HIDE DEF B
    <3> QED BY ONLY <2>2, <3>2
  <2>5. f[i - 1] = Prefix(c, at, i - 1)
    BY <2>4
  <2>6. WithParam(Prefix(c, at, i - 1), Segment(c, at, i)) = Prefix(c, at, i)
    BY <1>1, <1>2, <1>3, <2>4, PrefixNext
  <2> QED BY <1>6, <2>2, <2>4, <2>5, <2>6
<1>8. n \in 0 .. n /\ n \in 1 .. n
  BY <1>2, <1>4
<1>9. Config(t) = Prefix(c, at, n)
  BY <1>5, <1>7, <1>8
<1>10. PICK p : p = Prefix(c, at, n)
  OBVIOUS
<1>11. p \in Text /\ Len(p) = Len(c) /\ \A j \in 1 .. Len(c) : p[j] = c[j]
  <2>1. at[n] = Len(c)
    BY <1>3, <1>4 DEF Laid
  <2>2. /\ p \in Text /\ Len(p) = at[n] /\ \A j \in 1 .. at[n] : p[j] = c[j]
    BY <1>1, <1>2, <1>3, <1>8, <1>10, PrefixIs
  <2> QED BY <2>1, <2>2
<1>12. p = c
  BY <1>1, <1>11, SameText
<1> QED BY <1>9, <1>10, <1>12

-------------------------------------------------------------------------------
(* What a description keeps is what can be written                           *)

Kinds == {<<"audio">>, <<"video">>, <<"application">>}
UrlGood(u) == u # << >> => IsPath(SplitUrl(u).path)

\* The encoding, and the rest of a media.
EncodingGood(type, name, rate, channels) ==
  /\ type \in Kinds /\ Trim(name) /\ Without(name, "/")
  /\ rate \in Value \cap Nat /\ channels \in Value \cap Nat
  /\ type # <<"audio">> => channels = 0
  /\ name = << >> => rate = 0 /\ channels = 0
  /\ type = <<"audio">> /\ name # << >> => rate > 0 /\ channels > 0
\* The thousands of a bit rate are a number.
RateGood(b) ==
  b \in Int /\ (b > 0 => b \div 1000 \in Value /\ Thousand(b \div 1000) = (b \div 1000) * 1000)
OthersGood(m) ==
  /\ m.payload \in Value /\ m.ttl = 0
  /\ RateGood(m.bitRate)
  /\ m.width \in Value /\ m.height \in Value /\ IsConfig(m.config)
PathsGood(m) == IsPath(m.path) /\ UrlGood(m.url)
GoodMedia(m) ==
  IsMedia(m) /\ EncodingGood(m.type, m.name, m.rate, m.channels) /\ OthersGood(m) /\ PathsGood(m)

GoodSdp(s) ==
  /\ IsSdp(s) /\ s.ttl = 0 /\ UrlGood(s.url)
  /\ \A i \in 1 .. Len(s.media) : GoodMedia(s.media[i])

LEMMA GoodLast ==
  ASSUME NEW s, GoodSdp(s), InMedia(s)
  PROVE  GoodMedia(Media(s)) /\ IsMedia(Media(s))
<1>1. IsSdp(s)
  BY DEF GoodSdp
<1>2. Len(s.media) \in 1 .. Len(s.media)
  BY <1>1, LastIs
<1>3. GoodMedia(s.media[Len(s.media)])
  BY <1>2 DEF GoodSdp
<1> QED BY <1>3 DEF Media, GoodMedia

LEMMA GoodSet ==
  ASSUME NEW s, GoodSdp(s), InMedia(s), NEW n, GoodMedia(n)
  PROVE  GoodSdp(SetMedia(s, n))
<1>1. IsSdp(s) /\ IsMedia(n)
  BY DEF GoodSdp, GoodMedia
<1>2. PICK r : r = SetMedia(s, n)
  OBVIOUS
<1>3. /\ IsSdp(r) /\ Media(r) = n /\ r.ttl = s.ttl /\ r.url = s.url
      /\ Len(r.media) = Len(s.media)
      /\ \A i \in 1 .. Len(s.media) - 1 : r.media[i] = s.media[i]
  BY <1>1, <1>2, SetMediaIs
<1>4. PICK l : l = Len(s.media) /\ l \in Nat
  BY <1>1, LastIs
<1>5. \A i \in 1 .. l : GoodMedia(r.media[i])
  <2>1. ASSUME NEW i \in 1 .. l PROVE GoodMedia(r.media[i])
    <3>1. CASE i = l
      BY <1>3, <1>4, <3>1 DEF Media
    <3>2. CASE i # l
      <4>1. i \in 1 .. l - 1
        BY <1>4, <3>2
      <4> QED BY <1>3, <1>4, <4>1 DEF GoodSdp
    <3> QED BY <3>1, <3>2
  <2> QED BY <2>1
<1>6. r.ttl = 0 /\ UrlGood(r.url)
  BY <1>3 DEF GoodSdp
<1>7. GoodSdp(r)
  BY <1>3, <1>4, <1>5, <1>6 DEF GoodSdp
<1> QED BY <1>2, <1>7

\* One lemma for each part of a media that a line sets.
LEMMA GoodAddress ==
  ASSUME NEW m, GoodMedia(m), NEW x, NEW z, z = 0
  PROVE  GoodMedia([m EXCEPT !.ip = x, !.ttl = z])
<1>1. PICK n : n = [m EXCEPT !.ip = x, !.ttl = z]
  OBVIOUS
<1>2. /\ n.type = m.type /\ n.name = m.name /\ n.rate = m.rate /\ n.channels = m.channels
      /\ n.payload = m.payload /\ n.bitRate = m.bitRate /\ n.width = m.width
      /\ n.height = m.height /\ n.config = m.config /\ n.path = m.path /\ n.url = m.url
      /\ n.ttl = z /\ IsMedia(n)
  <2>1. IsMedia(m)
    BY DEF GoodMedia
  <2>2. PICK o : o = [m EXCEPT !.ip = x]
    OBVIOUS
  <2>3. IsMedia(o)
    BY ONLY <2>1, <2>2 DEF IsMedia
  <2>4. n = [o EXCEPT !.ttl = z]
    BY ONLY <1>1, <2>1, <2>2 DEF IsMedia
  <2>5. IsMedia(n) /\ n.ttl = z
    BY ONLY <2>3, <2>4 DEF IsMedia
  <2> QED BY ONLY <1>1, <2>1, <2>5 DEF IsMedia
<1>3. GoodMedia(n)
  BY <1>2 DEF GoodMedia, OthersGood, PathsGood
<1> QED BY <1>1, <1>3

LEMMA RateIsGood ==
  ASSUME NEW n \in Value
  PROVE  RateGood(Thousand(n))
<1>1. PICK b, k : b = Thousand(n) /\ k = b \div 1000
  OBVIOUS
<1>2. PICK M : M = INT_MAX /\ M \in Nat
  BY NumberAssumption
<1>3. b \in Int /\ b <= M
  <2>1. n * 1000 \in Int
    BY ValueOk
  <2>2. b \in INT_MIN .. INT_MAX /\ INT_MIN \in Int
    BY <1>1, <1>2, <2>1, WrapOk DEF Thousand, INT_MIN
  <2> QED BY <1>2, <2>2
<1>4. ASSUME b > 0 PROVE k \in Value /\ Thousand(k) = k * 1000
  <2>1. k \in Number
    BY <1>1, <1>4, LineAssumption DEF Value
  <2>2. k \in 0 .. M /\ k * 1000 \in 0 .. M
    BY ONLY <1>1, <1>2, <1>3, <1>4
  <2>3. k \in INT_MIN .. INT_MAX /\ k * 1000 \in INT_MIN .. INT_MAX
    BY <1>2, <2>2 DEF INT_MIN
  <2> QED BY <2>1, <2>3 DEF Value, Thousand, Wrap
<1> QED BY ONLY <1>1, <1>3, <1>4 DEF RateGood

LEMMA GoodBitRate ==
  ASSUME NEW m, GoodMedia(m), NEW x, RateGood(x)
  PROVE  GoodMedia([m EXCEPT !.bitRate = x])
<1>1. PICK n : n = [m EXCEPT !.bitRate = x]
  OBVIOUS
<1>2. /\ n.type = m.type /\ n.name = m.name /\ n.rate = m.rate /\ n.channels = m.channels
      /\ n.payload = m.payload /\ n.bitRate = x /\ n.width = m.width
      /\ n.height = m.height /\ n.config = m.config /\ n.path = m.path /\ n.url = m.url
      /\ n.ttl = m.ttl /\ IsMedia(n)
  <2>1. IsMedia(m)
    BY DEF GoodMedia
  <2> QED BY ONLY <1>1, <2>1 DEF IsMedia
<1>3. GoodMedia(n)
  BY <1>2 DEF GoodMedia, OthersGood, PathsGood
<1> QED BY <1>1, <1>3

LEMMA GoodUrl ==
  ASSUME NEW m, GoodMedia(m), NEW x, UrlGood(x)
  PROVE  GoodMedia([m EXCEPT !.url = x])
<1>1. PICK n : n = [m EXCEPT !.url = x]
  OBVIOUS
<1>2. /\ n.type = m.type /\ n.name = m.name /\ n.rate = m.rate /\ n.channels = m.channels
      /\ n.payload = m.payload /\ n.bitRate = m.bitRate /\ n.width = m.width
      /\ n.height = m.height /\ n.config = m.config /\ n.path = m.path /\ n.url = x
      /\ n.ttl = m.ttl /\ IsMedia(n)
  <2>1. IsMedia(m)
    BY DEF GoodMedia
  <2> QED BY ONLY <1>1, <2>1 DEF IsMedia
<1>3. GoodMedia(n)
  BY <1>2 DEF GoodMedia, OthersGood, PathsGood
<1> QED BY <1>1, <1>3

LEMMA GoodPath ==
  ASSUME NEW m, GoodMedia(m), NEW x, IsPath(x)
  PROVE  GoodMedia([m EXCEPT !.path = x])
<1>1. PICK n : n = [m EXCEPT !.path = x]
  OBVIOUS
<1>2. /\ n.type = m.type /\ n.name = m.name /\ n.rate = m.rate /\ n.channels = m.channels
      /\ n.payload = m.payload /\ n.bitRate = m.bitRate /\ n.width = m.width
      /\ n.height = m.height /\ n.config = m.config /\ n.path = x /\ n.url = m.url
      /\ n.ttl = m.ttl /\ IsMedia(n)
  <2>1. IsMedia(m)
    BY DEF GoodMedia
  <2> QED BY ONLY <1>1, <2>1 DEF IsMedia
<1>3. GoodMedia(n)
  BY <1>2 DEF GoodMedia, OthersGood, PathsGood
<1> QED BY <1>1, <1>3

LEMMA GoodConfig ==
  ASSUME NEW m, GoodMedia(m), NEW x, IsConfig(x)
  PROVE  GoodMedia([m EXCEPT !.config = @ \o x])
<1>1. PICK n, c : c = m.config \o x /\ n = [m EXCEPT !.config = c]
  OBVIOUS
<1>2. /\ n.type = m.type /\ n.name = m.name /\ n.rate = m.rate /\ n.channels = m.channels
      /\ n.payload = m.payload /\ n.bitRate = m.bitRate /\ n.width = m.width
      /\ n.height = m.height /\ n.config = c /\ n.path = m.path /\ n.url = m.url
      /\ n.ttl = m.ttl /\ IsMedia(n)
  <2>1. IsMedia(m)
    BY DEF GoodMedia
  <2> QED BY ONLY <1>1, <2>1 DEF IsMedia
<1>3. IsConfig(c)
  <2>1. IsConfig(m.config)
    BY DEF GoodMedia, OthersGood
  <2> QED BY <1>1, <2>1, ConfigJoined
<1>4. GoodMedia(n)
  BY <1>2, <1>3 DEF GoodMedia, OthersGood, PathsGood
<1> QED BY <1>1, <1>4

LEMMA GoodSize ==
  ASSUME NEW m, GoodMedia(m), NEW x \in Value, NEW y \in Value
  PROVE  GoodMedia([m EXCEPT !.width = x, !.height = y])
<1>1. PICK n : n = [m EXCEPT !.width = x, !.height = y]
  OBVIOUS
<1>2. /\ n.type = m.type /\ n.name = m.name /\ n.rate = m.rate /\ n.channels = m.channels
      /\ n.payload = m.payload /\ n.bitRate = m.bitRate /\ n.width = x
      /\ n.height = y /\ n.config = m.config /\ n.path = m.path /\ n.url = m.url
      /\ n.ttl = m.ttl /\ IsMedia(n)
  <2>1. IsMedia(m)
    BY DEF GoodMedia
  <2>2. PICK o : o = [m EXCEPT !.width = x]
    OBVIOUS
  <2>3. IsMedia(o) /\ o.width = x
    BY ONLY <2>1, <2>2 DEF IsMedia
  <2>4. n = [o EXCEPT !.height = y]
    BY ONLY <1>1, <2>1, <2>2 DEF IsMedia
  <2>5. IsMedia(n) /\ n.height = y /\ n.width = x
    BY ONLY <2>3, <2>4 DEF IsMedia
  <2> QED BY ONLY <1>1, <2>1, <2>5 DEF IsMedia
<1>3. GoodMedia(n)
  BY <1>2 DEF GoodMedia, OthersGood, PathsGood
<1> QED BY <1>1, <1>3

LEMMA GoodNamed ==
  ASSUME NEW m, GoodMedia(m), NEW x, Trim(x), Without(x, "/"), x # << >>, NEW rate, NEW channels
  PROVE  GoodMedia(Rated([m EXCEPT !.name = x], rate, channels))
<1>1. PICK n : n = [m EXCEPT !.name = x]
  OBVIOUS
<1>2. PICK r, c : /\ r = OrDefault(rate, DEFAULT_SAMPLERATE)
                  /\ c = OrDefault(IF IsNum(rate) THEN channels ELSE << >>, DEFAULT_CHANNELS)
  OBVIOUS
<1>3. PICK v : v = OrDefault(rate, m.rate)
  OBVIOUS
<1>4. /\ n.type = m.type /\ n.name = x /\ n.rate = m.rate /\ n.channels = m.channels
      /\ n.payload = m.payload /\ n.bitRate = m.bitRate /\ n.width = m.width
      /\ n.height = m.height /\ n.config = m.config /\ n.path = m.path /\ n.url = m.url
      /\ n.ttl = m.ttl /\ IsMedia(n)
  <2>1. IsMedia(m)
    BY DEF GoodMedia
  <2> QED BY ONLY <1>1, <2>1 DEF IsMedia
<1>5. PICK o : o = Rated(n, rate, channels)
  OBVIOUS
<1>6. IsMedia(o)
  BY <1>4, <1>5, RatedIs
<1>7. OthersGood(n) /\ PathsGood(n)
  BY <1>4 DEF GoodMedia, OthersGood, PathsGood
<1>8. /\ m.type \in Kinds /\ m.rate \in Value \cap Nat /\ m.channels \in Value \cap Nat
      /\ m.type # <<"audio">> => m.channels = 0
  BY DEF GoodMedia, EncodingGood
<1>9. /\ r \in Value \cap Nat /\ c \in Value \cap Nat /\ r > 0 /\ c > 0 /\ v \in Value \cap Nat
  <2>1. \A k : Num(k) \in Value /\ Num(k) \in Int
    BY NumOk
  <2>2. DEFAULT_SAMPLERATE \in Value /\ DEFAULT_CHANNELS \in Value
    <3>1. INT_MAX \in Nat
      BY NumberAssumption
    <3>2. 0 .. INT_MAX \subseteq INT_MIN .. INT_MAX
      BY <3>1 DEF INT_MIN
    <3> QED BY <3>2, LineAssumption DEF Value
  <2>3. /\ DEFAULT_SAMPLERATE > 0 /\ DEFAULT_CHANNELS > 0
        /\ DEFAULT_SAMPLERATE \in Nat /\ DEFAULT_CHANNELS \in Nat
    BY DEF DEFAULT_SAMPLERATE, DEFAULT_CHANNELS
  <2>4. r \in Value \cap Nat /\ r > 0
    BY ONLY <1>2, <2>1, <2>2, <2>3 DEF OrDefault
  <2>5. c \in Value \cap Nat /\ c > 0
    BY ONLY <1>2, <2>1, <2>2, <2>3 DEF OrDefault
  <2>6. v \in Value \cap Nat
    BY ONLY <1>3, <1>8, <2>1 DEF OrDefault
  <2> QED BY ONLY <2>4, <2>5, <2>6
<1>10. /\ o.type = n.type /\ o.name = n.name
       /\ o.payload = n.payload /\ o.bitRate = n.bitRate /\ o.width = n.width
       /\ o.height = n.height /\ o.config = n.config /\ o.path = n.path /\ o.url = n.url
       /\ o.ttl = n.ttl /\ EncodingGood(o.type, o.name, o.rate, o.channels)
  <2>1. CASE m.type = <<"audio">>
    <3>1. o = [n EXCEPT !.rate = r, !.channels = c]
      BY <1>2, <1>4, <1>5, <2>1 DEF Rated
    <3>2. /\ o.type = n.type /\ o.name = n.name /\ o.rate = r /\ o.channels = c
          /\ o.payload = n.payload /\ o.bitRate = n.bitRate /\ o.width = n.width
          /\ o.height = n.height /\ o.config = n.config /\ o.path = n.path /\ o.url = n.url
          /\ o.ttl = n.ttl
      <4>1. PICK q : q = [n EXCEPT !.rate = r]
        OBVIOUS
      <4>2. IsMedia(q) /\ q.rate = r
        BY ONLY <1>4, <4>1 DEF IsMedia
      <4>3. o = [q EXCEPT !.channels = c]
        BY ONLY <1>4, <3>1, <4>1 DEF IsMedia
      <4>4. o.rate = r /\ o.channels = c
        BY ONLY <4>2, <4>3 DEF IsMedia
      <4> QED BY ONLY <1>4, <3>1, <4>4 DEF IsMedia
    <3>3. EncodingGood(o.type, o.name, o.rate, o.channels)
      BY <1>4, <1>8, <1>9, <2>1, <3>2 DEF EncodingGood
    <3> QED BY <3>2, <3>3
  <2>2. CASE m.type # <<"audio">> /\ m.type = <<"video">>
    <3>1. o = [n EXCEPT !.rate = v]
      BY <1>3, <1>4, <1>5, <2>2 DEF Rated
    <3>2. /\ o.type = n.type /\ o.name = n.name /\ o.rate = v /\ o.channels = n.channels
          /\ o.payload = n.payload /\ o.bitRate = n.bitRate /\ o.width = n.width
          /\ o.height = n.height /\ o.config = n.config /\ o.path = n.path /\ o.url = n.url
          /\ o.ttl = n.ttl
      BY ONLY <1>4, <3>1 DEF IsMedia
    <3>3. EncodingGood(o.type, o.name, o.rate, o.channels)
      BY <1>4, <1>8, <1>9, <2>2, <3>2 DEF EncodingGood
    <3> QED BY <3>2, <3>3
  <2>3. CASE m.type # <<"audio">> /\ m.type # <<"video">>
    <3>1. o = n
      BY <1>4, <1>5, <2>3 DEF Rated
    <3>2. EncodingGood(n.type, n.name, n.rate, n.channels)
      BY <1>4, <1>8, <2>3 DEF EncodingGood
    <3> QED BY <3>1, <3>2
  <2> QED BY <2>1, <2>2, <2>3
<1>11. OthersGood(o) /\ PathsGood(o)
  BY <1>7, <1>10 DEF OthersGood, PathsGood
<1>12. GoodMedia(o)
  BY <1>6, <1>10, <1>11 DEF GoodMedia
<1> QED BY <1>1, <1>5, <1>12

LEMMA GoodPost ==
  ASSUME NEW m, GoodMedia(m)
  PROVE  GoodMedia(PostMedia(m))
<1>1. CASE m.path = << >> /\ m.url # << >>
  <2>1. PICK x : x = SplitUrl(m.url).path
    OBVIOUS
  <2>2. IsPath(x)
    BY <1>1, <2>1 DEF GoodMedia, PathsGood, UrlGood
  <2>3. PostMedia(m) = [m EXCEPT !.path = x]
    BY <1>1, <2>1 DEF PostMedia
  <2> QED BY <2>2, <2>3, GoodPath
<1>2. CASE ~(m.path = << >> /\ m.url # << >>)
  BY <1>2 DEF PostMedia
<1> QED BY <1>1, <1>2

LEMMA ConnGood ==
  ASSUME NEW s, GoodSdp(s), NEW txt
  PROVE  GoodSdp(ParseConn(s, txt))
<1>1. PICK got : got = Take(txt, <<BLANK, BLANK, "/", "/">>).got
  OBVIOUS
<1>2. PICK x, z : x = got[3] /\ z = 0
  OBVIOUS
<1>3. CASE ~(got[1] = <<"IN">> /\ got[2] = <<"IP4">> /\ got[3] # << >> /\ got[4] = << >>)
  BY <1>1, <1>3 DEF ParseConn
<1>4. CASE /\ got[1] = <<"IN">> /\ got[2] = <<"IP4">> /\ got[3] # << >> /\ got[4] = << >>
           /\ InMedia(s)
  <2>1. PICK n : n = [Media(s) EXCEPT !.ip = x, !.ttl = z]
    OBVIOUS
  <2>2. GoodMedia(n)
    BY <1>2, <1>4, <2>1, GoodLast, GoodAddress
  <2>3. ParseConn(s, txt) = SetMedia(s, n)
    BY <1>1, <1>2, <1>4, <2>1 DEF ParseConn
  <2> QED BY <1>4, <2>2, <2>3, GoodSet
<1>5. CASE /\ got[1] = <<"IN">> /\ got[2] = <<"IP4">> /\ got[3] # << >> /\ got[4] = << >>
           /\ ~InMedia(s)
  <2>1. PICK r : r = [s EXCEPT !.ip = x, !.ttl = z]
    OBVIOUS
  <2>2. ParseConn(s, txt) = r
    BY <1>1, <1>2, <1>5, <2>1 DEF ParseConn
  <2>3. IsSdp(s)
    BY DEF GoodSdp
  <2>4. r = [title |-> s.title, comment |-> s.comment, url |-> s.url, media |-> s.media,
             ip |-> x, ttl |-> z, skip |-> s.skip]
    BY <2>1, <2>3 DEF IsSdp
  <2>5. IsSdp(r) /\ r.ttl = z /\ r.url = s.url /\ r.media = s.media
    BY <2>3, <2>4 DEF IsSdp
  <2> QED BY <1>2, <2>2, <2>5 DEF GoodSdp
<1> QED BY <1>3, <1>4, <1>5

LEMMA BitRateGood ==
  ASSUME NEW s, GoodSdp(s), NEW txt
  PROVE  GoodSdp(ParseBitRate(s, txt))
<1>1. PICK kv : kv = Split(txt, ":")
  OBVIOUS
<1>2. PICK k, x : k = Num(kv.val) /\ x = Thousand(k)
  OBVIOUS
<1>3. CASE IsSplit(kv) /\ kv.key = <<"AS">> /\ InMedia(s)
  <2>1. PICK n : n = [Media(s) EXCEPT !.bitRate = x]
    OBVIOUS
  <2>2. k \in Value
    BY <1>2, NumOk
  <2>3. GoodMedia(Media(s))
    BY <1>3, GoodLast
  <2>4. GoodMedia(n)
    BY <1>2, <2>1, <2>2, <2>3, RateIsGood, GoodBitRate
  <2>5. ParseBitRate(s, txt) = SetMedia(s, n)
    BY <1>1, <1>2, <1>3, <2>1 DEF ParseBitRate
  <2> QED BY <1>3, <2>4, <2>5, GoodSet
<1>4. CASE ~(IsSplit(kv) /\ kv.key = <<"AS">> /\ InMedia(s))
  BY <1>1, <1>4 DEF ParseBitRate
<1> QED BY <1>3, <1>4

LEMMA ControlGood ==
  ASSUME NEW s, GoodSdp(s), NEW txt, IsPath(SplitUrl(txt).path)
  PROVE  GoodSdp(ParseControl(s, txt))
<1>1. PICK url, x : url = SplitUrl(txt) /\ x = url.path
  OBVIOUS
<1>2. IsPath(x) /\ UrlGood(txt)
  BY <1>1 DEF UrlGood
<1>3. CASE InMedia(s) /\ url.schema # << >>
  <2>1. PICK n : n = [Media(s) EXCEPT !.url = txt]
    OBVIOUS
  <2>2. GoodMedia(n)
    BY <1>2, <1>3, <2>1, GoodLast, GoodUrl
  <2>3. ParseControl(s, txt) = SetMedia(s, n)
    BY <1>1, <1>3, <2>1 DEF ParseControl
  <2> QED BY <1>3, <2>2, <2>3, GoodSet
<1>4. CASE InMedia(s) /\ ~(url.schema # << >>)
  <2>1. PICK n : n = [Media(s) EXCEPT !.path = x]
    OBVIOUS
  <2>2. GoodMedia(n)
    BY <1>2, <1>4, <2>1, GoodLast, GoodPath
  <2>3. ParseControl(s, txt) = SetMedia(s, n)
    BY <1>1, <1>4, <2>1 DEF ParseControl
  <2> QED BY <1>4, <2>2, <2>3, GoodSet
<1>5. CASE ~InMedia(s) /\ url.schema # << >>
  <2>1. PICK r : r = [s EXCEPT !.url = txt]
    OBVIOUS
  <2>2. ParseControl(s, txt) = r
    BY <1>1, <1>5, <2>1 DEF ParseControl
  <2>3. IsSdp(s)
    BY DEF GoodSdp
  <2>4. r = [title |-> s.title, comment |-> s.comment, url |-> txt, media |-> s.media,
             ip |-> s.ip, ttl |-> s.ttl, skip |-> s.skip]
    BY <2>1, <2>3 DEF IsSdp
  <2>5. IsSdp(r) /\ r.ttl = s.ttl /\ r.url = txt /\ r.media = s.media
    BY <2>3, <2>4 DEF IsSdp
  <2> QED BY <1>2, <2>2, <2>5 DEF GoodSdp
<1>6. CASE ~InMedia(s) /\ ~(url.schema # << >>)
  BY <1>1, <1>6 DEF ParseControl
<1> QED BY <1>3, <1>4, <1>5, <1>6

\* What Take gives for the lists of delimiters that are used.
LEMMA DelimsAre ==
  /\ IsDelims(<<BLANK>>) /\ Len(<<BLANK>>) = 1
  /\ IsDelims(<<BLANK, BLANK, BLANK, BLANK>>) /\ Len(<<BLANK, BLANK, BLANK, BLANK>>) = 4
  /\ IsDelims(<<BLANK, "/", "/", "/">>) /\ Len(<<BLANK, "/", "/", "/">>) = 4
<1>1. BLANK \in Word \ {"end"} /\ "/" \in Word \ {"end"}
  BY Words, Delimiters
<1>2. PICK b, w : b = BLANK /\ w = "/"
  OBVIOUS
<1>3. PICK W : W = Word \ {"end"}
  OBVIOUS
<1>4. b \in W /\ w \in W
  BY <1>1, <1>2, <1>3
<1>5. <<b>> \in Seq(W) /\ <<b, b, b, b>> \in Seq(W) /\ <<b, w, w, w>> \in Seq(W)
  BY ONLY <1>4
<1>6. Len(<<b>>) = 1 /\ Len(<<b, b, b, b>>) = 4 /\ Len(<<b, w, w, w>>) = 4
  OBVIOUS
<1> QED BY <1>2, <1>3, <1>5, <1>6 DEF IsDelims

LEMMA RtpmapGood ==
  ASSUME NEW s, GoodSdp(s), NEW txt \in Text
  PROVE  GoodSdp(ParseRtpmap(s, txt))
<1>1. PICK delims, got : delims = <<BLANK, "/", "/", "/">> /\ got = Take(txt, delims).got
  OBVIOUS
<1>2. PICK x : x = got[2]
  OBVIOUS
<1>3. Trim(x) /\ Without(x, "/")
  <2>1. IsDelims(delims) /\ Len(delims) = 4
    BY <1>1, DelimsAre
  <2>2. delims[2] = "/" /\ 2 \in 1 .. Len(delims)
    BY <1>1, <2>1
  <2>3. Trim(Take(txt, delims).got[2]) /\ Without(Take(txt, delims).got[2], delims[2])
    BY <2>1, <2>2, TakeOk
  <2> QED BY <1>1, <1>2, <2>2, <2>3
<1>4. CASE Concerns(s, got[1]) /\ got[2] # << >>
  <2>1. PICK n : n = Rated([Media(s) EXCEPT !.name = x], got[3], got[4])
    OBVIOUS
  <2>2. InMedia(s)
    BY <1>4 DEF Concerns
  <2>3. GoodMedia(Media(s)) /\ x # << >>
    BY <1>2, <1>4, <2>2, GoodLast
  <2>4. GoodMedia(n)
    BY <1>3, <2>1, <2>3, GoodNamed
  <2>5. ParseRtpmap(s, txt) = SetMedia(s, n)
    BY <1>1, <1>2, <1>4, <2>1 DEF ParseRtpmap
  <2> QED BY <2>2, <2>4, <2>5, GoodSet
<1>5. CASE ~(Concerns(s, got[1]) /\ got[2] # << >>)
  BY <1>1, <1>5 DEF ParseRtpmap
<1> QED BY <1>4, <1>5

LEMMA FmtpGood ==
  ASSUME NEW s, GoodSdp(s), NEW txt \in Text
  PROVE  GoodSdp(ParseFmtp(s, txt))
<1>1. PICK payload, x : payload = Take(txt, <<BLANK>>) /\ x = Config(payload.rest)
  OBVIOUS
<1>2. IsConfig(x)
  <2>1. payload.rest \in Text
    BY <1>1, DelimsAre, TakeOk
  <2> QED BY <1>1, <2>1, ConfigOk
<1>3. CASE Concerns(s, payload.got[1])
  <2>1. PICK n : n = [Media(s) EXCEPT !.config = @ \o x]
    OBVIOUS
  <2>2. InMedia(s)
    BY <1>3 DEF Concerns
  <2>3. GoodMedia(Media(s))
    BY <2>2, GoodLast
  <2>4. GoodMedia(n)
    BY <1>2, <2>1, <2>3, GoodConfig
  <2>5. ParseFmtp(s, txt) = SetMedia(s, n)
    BY <1>1, <1>3, <2>1 DEF ParseFmtp
  <2> QED BY <2>2, <2>4, <2>5, GoodSet
<1>4. CASE ~Concerns(s, payload.got[1])
  BY <1>1, <1>4 DEF ParseFmtp
<1> QED BY <1>3, <1>4

LEMMA FrameSizeGood ==
  ASSUME NEW s, GoodSdp(s), NEW txt
  PROVE  GoodSdp(ParseFrameSize(s, txt))
<1>1. PICK got : got = Take(txt, <<BLANK, "-", "-">>).got
  OBVIOUS
<1>2. PICK x, y : x = Num(got[2]) /\ y = IF IsNum(got[2]) THEN Num(got[3]) ELSE Media(s).height
  OBVIOUS
<1>3. CASE Concerns(s, got[1])
  <2>1. PICK n : n = [Media(s) EXCEPT !.width = x, !.height = y]
    OBVIOUS
  <2>2. InMedia(s)
    BY <1>3 DEF Concerns
  <2>3. GoodMedia(Media(s))
    BY <2>2, GoodLast
  <2>4. x \in Value /\ y \in Value
    <3>1. Media(s).height \in Value
      BY <2>3 DEF GoodMedia, OthersGood
    <3> QED BY <1>2, <3>1, NumOk
  <2>5. GoodMedia(n)
    BY <2>1, <2>3, <2>4, GoodSize
  <2>6. ParseFrameSize(s, txt) = SetMedia(s, n)
    <3>1. PICK m : m = Media(s)
      OBVIOUS
    <3>2. IsMedia(m)
      BY <2>2, <3>1, GoodLast
    <3>3. n = [m EXCEPT !.width = x, !.height = IF IsNum(got[2]) THEN Num(got[3]) ELSE @]
      BY ONLY <1>2, <2>1, <3>1, <3>2 DEF IsMedia
    <3>4. ParseFrameSize(s, txt)
            = SetMedia(s, [m EXCEPT !.width = x, !.height = IF IsNum(got[2]) THEN Num(got[3]) ELSE @])
      BY <1>1, <1>2, <1>3, <3>1 DEF ParseFrameSize
    <3> QED BY ONLY <3>3, <3>4
  <2> QED BY <2>2, <2>5, <2>6, GoodSet
<1>4. CASE ~Concerns(s, got[1])
  BY <1>1, <1>4 DEF ParseFrameSize
<1> QED BY <1>3, <1>4

LEMMA MediaGood ==
  ASSUME NEW s, GoodSdp(s), NEW txt
  PROVE  GoodSdp(ParseMedia(s, txt))
<1>1. PICK got : got = Take(txt, <<BLANK, BLANK, BLANK, BLANK>>).got
  OBVIOUS
<1>2. PICK p : p = Completed(s)
  OBVIOUS
<1>3. GoodSdp(p)
  <2>1. CASE InMedia(s)
    <3>1. GoodMedia(PostMedia(Media(s)))
      BY <2>1, GoodLast, GoodPost
    <3> QED BY <1>2, <2>1, <3>1, GoodSet DEF Completed
  <2>2. CASE ~InMedia(s)
    BY <1>2, <2>2 DEF Completed
  <2> QED BY <2>1, <2>2
<1>4. IsSdp(p)
  BY <1>3 DEF GoodSdp
<1>5. CASE Refused(got)
  <2>1. ParseMedia(s, txt) = Skipping(p)
    BY <1>1, <1>2, <1>5 DEF ParseMedia, Completed, Skipping
  <2>2. LET r == Skipping(p) IN IsSdp(r) /\ r.ttl = p.ttl /\ r.url = p.url /\ r.media = p.media
    BY <1>4, SkipIs
  <2> QED BY <1>3, <2>1, <2>2 DEF GoodSdp
<1>6. CASE ~Refused(got)
  <2>1. PICK k, a, b : k = got[1] /\ a = Num(got[2]) /\ b = Num(got[4])
    OBVIOUS
  <2>2. k \in Kinds /\ b \in Value
    BY <1>6, <2>1, NumOk DEF Refused, Kinds
  <2>3. PICK m : m = NewMedia(s, k, a, b)
    OBVIOUS
  <2>4. PICK e, z : e = << >> /\ z = 0
    OBVIOUS
  <2>5. PICK i, v, u : i = Len(s.media) /\ v = s.ip /\ u = s.url
    OBVIOUS
  <2>6. m = [type |-> k, port |-> a, payload |-> b, ip |-> v, ttl |-> z, url |-> u,
             path |-> e, idx |-> i, name |-> e, rate |-> z, channels |-> z, bitRate |-> z,
             width |-> z, height |-> z, config |-> e]
    BY <2>3, <2>4, <2>5 DEF NewMedia, GoodSdp
  <2>7. /\ m.type = k /\ m.name = e /\ m.rate = z /\ m.channels = z
        /\ m.payload = b /\ m.bitRate = z /\ m.width = z
        /\ m.height = z /\ m.config = e /\ m.path = e /\ m.url = u
        /\ m.ttl = z /\ IsMedia(m)
    BY ONLY <2>6 DEF IsMedia
  <2>8. z \in Value \cap Nat /\ RateGood(z)
    <3>1. 0 \in Value
      BY ValueOk
    <3> QED BY <2>4, <3>1 DEF RateGood
  <2>9. Trim(e) /\ Without(e, "/") /\ IsConfig(e) /\ IsPath(e)
    BY <2>4, NoWord, NoPath, NoConfig
  <2>10. EncodingGood(m.type, m.name, m.rate, m.channels)
    BY <2>2, <2>4, <2>7, <2>8, <2>9 DEF EncodingGood
  <2>11. OthersGood(m) /\ PathsGood(m)
    BY <2>2, <2>4, <2>5, <2>7, <2>8, <2>9 DEF OthersGood, PathsGood, GoodSdp
  <2>12. GoodMedia(m)
    BY <2>7, <2>10, <2>11 DEF GoodMedia
  <2>13. PICK r : r = Joined(p, m)
    OBVIOUS
  <2>14. ParseMedia(s, txt) = r
    BY <1>1, <1>2, <1>6, <2>1, <2>3, <2>13 DEF ParseMedia, Completed, Joined
  <2>15. /\ IsSdp(r) /\ r.ttl = p.ttl /\ r.url = p.url
         /\ Len(p.media) \in Nat /\ Len(r.media) = Len(p.media) + 1
         /\ Media(r) = m
         /\ \A j \in 1 .. Len(p.media) : r.media[j] = p.media[j]
    BY <1>4, <2>7, <2>13, NewIs
  <2>16. \A j \in 1 .. Len(r.media) : GoodMedia(r.media[j])
    <3>1. ASSUME NEW j \in 1 .. Len(r.media) PROVE GoodMedia(r.media[j])
      <4>1. CASE j = Len(r.media)
        BY <2>12, <2>15, <4>1 DEF Media
      <4>2. CASE j # Len(r.media)
        <5>1. j \in 1 .. Len(p.media)
          BY <2>15, <4>2
        <5> QED BY <1>3, <2>15, <5>1 DEF GoodSdp
      <4> QED BY <4>1, <4>2
    <3> QED BY <3>1
  <2>17. GoodSdp(r)
    BY <1>3, <2>15, <2>16 DEF GoodSdp
  <2> QED BY <2>14, <2>17
<1> QED BY <1>5, <1>6

LEMMA AttrGood ==
  ASSUME PlainPaths, NEW s, GoodSdp(s), NEW line \in Line
  PROVE  GoodSdp(ParseAttr(s, line.val))
<1>1. PICK kv, txt : kv = Split(line.val, ":") /\ txt = kv.val
  OBVIOUS
<1>2. line.val \in Text
  <2>1. line.val \in Seq(STRING)
    BY LineAssumption
  <2>2. STRING \subseteq Word
    BY Words
  <2>3. PICK S, W : S = STRING /\ W = Word
    OBVIOUS
  <2>4. S \subseteq W /\ line.val \in Seq(S)
    BY <2>1, <2>2, <2>3
  <2>5. line.val \in Seq(W)
    BY ONLY <2>4, SeqMonotonic
  <2> QED BY <2>3, <2>5 DEF Text
<1>3. txt \in Text
  BY <1>1, <1>2, SplitOk DEF Trim
<1>4. IsPath(SplitUrl(txt).path)
  BY <1>1, <1>3, UrlOk DEF PlainPaths, IsPath
<1>5. PICK c, r, f, z : /\ c = ParseControl(s, txt) /\ r = ParseRtpmap(s, txt)
                        /\ f = ParseFmtp(s, txt) /\ z = ParseFrameSize(s, txt)
  OBVIOUS
<1>6. GoodSdp(c) /\ GoodSdp(r) /\ GoodSdp(f) /\ GoodSdp(z)
  BY <1>3, <1>4, <1>5, ControlGood, RtpmapGood, FmtpGood, FrameSizeGood
<1>7. ParseAttr(s, line.val) \in {s, c, r, f, z}
  BY ONLY <1>1, <1>5 DEF ParseAttr
<1> QED BY <1>6, <1>7

LEMMA LineGood ==
  ASSUME PlainPaths, NEW s, GoodSdp(s), NEW line \in Line
  PROVE  GoodSdp(ParseSdpLine(s, line))
<1>1. PICK v, m, c, a, b : /\ v = line.val /\ m = ParseMedia(s, v) /\ c = ParseConn(s, v)
                           /\ a = ParseAttr(s, v) /\ b = ParseBitRate(s, v)
  OBVIOUS
<1>2. PICK t, i : t = [s EXCEPT !.title = v] /\ i = [s EXCEPT !.comment = v]
  OBVIOUS
<1>3. GoodSdp(m) /\ GoodSdp(c) /\ GoodSdp(a) /\ GoodSdp(b)
  BY <1>1, MediaGood, ConnGood, AttrGood, BitRateGood
<1>4. GoodSdp(t) /\ GoodSdp(i)
  <2>1. IsSdp(s)
    BY DEF GoodSdp
  <2>2. /\ t = [title |-> v, comment |-> s.comment, url |-> s.url, media |-> s.media,
                ip |-> s.ip, ttl |-> s.ttl, skip |-> s.skip]
        /\ i = [title |-> s.title, comment |-> v, url |-> s.url, media |-> s.media,
                ip |-> s.ip, ttl |-> s.ttl, skip |-> s.skip]
    BY <1>2, <2>1 DEF IsSdp
  <2>3. IsSdp(t) /\ t.ttl = s.ttl /\ t.url = s.url /\ t.media = s.media
    BY <2>1, <2>2 DEF IsSdp
  <2>4. IsSdp(i) /\ i.ttl = s.ttl /\ i.url = s.url /\ i.media = s.media
    BY <2>1, <2>2 DEF IsSdp
  <2> QED BY <2>3, <2>4 DEF GoodSdp
<1>5. ParseTitle(s, v) = t /\ ParseDesc(s, v) = i
  BY <1>2 DEF ParseTitle, ParseDesc
<1>6. ParseSdpLine(s, line) \in {s, m, c, a, b, t, i}
  BY ONLY <1>1, <1>5 DEF ParseSdpLine
<1> QED BY <1>3, <1>4, <1>6

LEMMA EmptyGood == GoodSdp(EmptySdp)
<1>1. IsSdp(EmptySdp) /\ EmptySdp.media = << >>
  BY EmptyIsSession DEF IsSession
<1>2. EmptySdp.ttl = 0 /\ EmptySdp.url = << >>
  BY DEF EmptySdp
<1> QED BY <1>1, <1>2 DEF GoodSdp, UrlGood

-------------------------------------------------------------------------------
(* Reading what is put together of several texts                             *)

\* Reading q takes the description s to r.
Runs(s, q, r) ==
  /\ IsSeq(q)
  /\ \E f : /\ f[0] = s /\ f[Len(q)] = r
            /\ \A i \in 1 .. Len(q) : f[i] = ParseSdpLine(f[i - 1], q[i])

LEMMA RunsNone ==
  ASSUME NEW s
  PROVE  Runs(s, << >>, s)
<1>1. PICK q : q = << >>
  OBVIOUS
<1>2. q \in Seq({q[i] : i \in DOMAIN q}) /\ Len(q) = 0
  BY <1>1
<1>3. PICK f : f = [i \in 0 .. 0 |-> s]
  OBVIOUS
<1>4. f[0] = s /\ f[Len(q)] = s /\ \A i \in 1 .. Len(q) : FALSE
  BY <1>2, <1>3
<1>5. Runs(s, q, s)
  BY <1>2, <1>4 DEF Runs, IsSeq
<1> QED BY <1>1, <1>5

LEMMA RunsOne ==
  ASSUME NEW s, NEW e
  PROVE  Runs(s, <<e>>, ParseSdpLine(s, e))
<1>1. PICK q, r : q = <<e>> /\ r = ParseSdpLine(s, e)
  OBVIOUS
<1>2. IsSeq(q) /\ Len(q) = 1 /\ q[1] = e
  <2>1. q \in Seq({e}) /\ Len(q) = 1 /\ q[1] = e /\ DOMAIN q = {1}
    BY <1>1
  <2>2. {q[i] : i \in DOMAIN q} = {e}
    BY <2>1
  <2> QED BY <2>1, <2>2 DEF IsSeq
<1>3. PICK f : f = [i \in 0 .. 1 |-> IF i = 0 THEN s ELSE r]
  OBVIOUS
<1>4. f[0] = s /\ f[Len(q)] = r /\ \A i \in 1 .. Len(q) : f[i] = r /\ f[i - 1] = s /\ q[i] = e
  BY <1>2, <1>3
<1>5. Runs(s, q, r)
  BY <1>1, <1>2, <1>4 DEF Runs
<1> QED BY <1>1, <1>5

LEMMA SeqsBoth ==
  ASSUME NEW q, IsSeq(q), NEW p, IsSeq(p)
  PROVE  LET w == q \o p
         IN /\ IsSeq(w) /\ Len(q) \in Nat /\ Len(p) \in Nat /\ Len(w) = Len(q) + Len(p)
            /\ \A i \in 1 .. Len(q) : w[i] = q[i]
            /\ \A i \in 1 .. Len(p) : w[Len(q) + i] = p[i]
<1>1. PICK T : T = {q[i] : i \in DOMAIN q} \cup {p[i] : i \in DOMAIN p}
  OBVIOUS
<1>2. q \in Seq(T) /\ p \in Seq(T)
  BY <1>1, SeqMonotonic DEF IsSeq
<1>3. PICK w : w = q \o p
  OBVIOUS
<1>4. /\ w \in Seq(T) /\ Len(q) \in Nat /\ Len(p) \in Nat /\ Len(w) = Len(q) + Len(p)
      /\ \A i \in 1 .. Len(w) : w[i] = IF i <= Len(q) THEN q[i] ELSE p[i - Len(q)]
  BY ONLY <1>2, <1>3, ConcatProperties, LenProperties
<1>5. w \in Seq({w[i] : i \in DOMAIN w})
  <2>1. PICK l \in Nat : l = Len(w) /\ w \in [1 .. l -> T] /\ DOMAIN w = 1 .. l
    BY <1>4, LenProperties
  <2>2. w \in [1 .. l -> {w[i] : i \in DOMAIN w}]
    BY <2>1
  <2> QED BY ONLY l \in Nat, <2>1, <2>2
<1>6. \A i \in 1 .. Len(q) : w[i] = q[i]
  BY <1>4
<1>7. \A i \in 1 .. Len(p) : w[Len(q) + i] = p[i]
  <2>1. \A i \in 1 .. Len(p) : Len(q) + i \in 1 .. Len(w) /\ ~(Len(q) + i <= Len(q)) /\ Len(q) + i - Len(q) = i
    BY <1>4
  <2> QED BY <1>4, <2>1
<1> QED BY <1>3, <1>4, <1>5, <1>6, <1>7 DEF IsSeq

LEMMA RunsBoth ==
  ASSUME NEW s, NEW q, NEW r, Runs(s, q, r), NEW p, NEW u, Runs(r, p, u)
  PROVE  Runs(s, q \o p, u)
<1>1. IsSeq(q) /\ IsSeq(p)
  BY DEF Runs
<1>2. PICK f : /\ f[0] = s /\ f[Len(q)] = r
               /\ \A i \in 1 .. Len(q) : f[i] = ParseSdpLine(f[i - 1], q[i])
  BY DEF Runs
<1>3. PICK g : /\ g[0] = r /\ g[Len(p)] = u
               /\ \A i \in 1 .. Len(p) : g[i] = ParseSdpLine(g[i - 1], p[i])
  BY DEF Runs
<1>4. PICK w, n, m : w = q \o p /\ n = Len(q) /\ m = Len(p)
  OBVIOUS
<1>5. /\ IsSeq(w) /\ n \in Nat /\ m \in Nat /\ Len(w) = n + m
      /\ \A i \in 1 .. n : w[i] = q[i]
      /\ \A i \in 1 .. m : w[n + i] = p[i]
  BY <1>1, <1>4, SeqsBoth
<1>6. PICK h : h = [i \in 0 .. n + m |-> IF i <= n THEN f[i] ELSE g[i - n]]
  OBVIOUS
<1>7. \A i \in 0 .. n : h[i] = f[i]
  BY <1>5, <1>6
<1>8. \A i \in 0 .. m : h[n + i] = g[i]
  <2>1. ASSUME NEW i \in 0 .. m PROVE h[n + i] = g[i]
    <3>1. CASE i = 0
      <4>1. n + i = n /\ n \in 0 .. n
        BY <1>5, <3>1
      <4> QED BY <1>2, <1>3, <1>4, <1>7, <3>1, <4>1
    <3>2. CASE i # 0
      <4>1. PICK k : k = n + i
        OBVIOUS
      <4>2. k \in 0 .. n + m /\ ~(k <= n) /\ k - n = i
        BY <1>5, <3>2, <4>1
      <4>3. h[k] = g[k - n]
        BY ONLY <1>6, <4>2
      <4> QED BY ONLY <4>1, <4>2, <4>3
    <3> QED BY <3>1, <3>2
  <2> QED BY <2>1
<1>9. \A i \in 1 .. n + m : h[i] = ParseSdpLine(h[i - 1], w[i])
  <2>1. ASSUME NEW i \in 1 .. n + m PROVE h[i] = ParseSdpLine(h[i - 1], w[i])
    <3>1. CASE i <= n
      <4>1. i \in 1 .. n /\ i \in 0 .. n /\ i - 1 \in 0 .. n
        BY <1>5, <3>1
      <4> QED BY <1>2, <1>4, <1>5, <1>7, <4>1
    <3>2. CASE i > n
      <4>1. PICK j : j = i - n
        OBVIOUS
      <4>2. j \in 1 .. m /\ j \in 0 .. m /\ j - 1 \in 0 .. m /\ n + j = i /\ n + (j - 1) = i - 1
        BY <1>5, <3>2, <4>1
      <4>3. h[n + j] = g[j] /\ h[n + (j - 1)] = g[j - 1] /\ w[n + j] = p[j]
        BY ONLY <1>5, <1>8, <4>2
      <4>4. g[j] = ParseSdpLine(g[j - 1], p[j])
        BY <1>3, <1>4, <4>2
      <4> QED BY ONLY <4>2, <4>3, <4>4
    <3> QED BY <3>1, <3>2, <1>5
  <2> QED BY <2>1
<1>10. h[0] = s /\ h[n + m] = u
  <2>1. 0 \in 0 .. n /\ m \in 0 .. m
    BY <1>5
  <2> QED BY <1>2, <1>3, <1>4, <1>7, <1>8, <2>1
<1>11. Runs(s, w, u)
  BY <1>5, <1>9, <1>10 DEF Runs
<1> QED BY <1>4, <1>11

\* That is what ParseSDP does.
LEMMA RunsParse ==
  ASSUME NEW t, NEW s, Runs(EmptySdp, t, s)
  PROVE  ParseSDP(t) = s
<1>1. PICK f : /\ f[0] = EmptySdp /\ f[Len(t)] = s
               /\ \A i \in 1 .. Len(t) : f[i] = ParseSdpLine(f[i - 1], t[i])
  BY DEF Runs
<1>2. PICK n : n = Len(t) /\ n \in Nat
  BY LenProperties DEF Runs, IsSeq
<1>3. \A i \in 0 .. n : Reading(t)[i] = IF i = 0 THEN EmptySdp
                                        ELSE ParseSdpLine(Reading(t)[i - 1], t[i])
  BY <1>2, ReadingIs
<1> DEFINE B == {i \in 0 .. n : Reading(t)[i] # f[i]}
<1>4. B = {}
  <2>1. SUFFICES ASSUME B # {} PROVE FALSE
    OBVIOUS
  <2>2. PICK i \in B : \A j \in B : i <= j
    <3>1. B \subseteq Nat
      BY <1>2
    <3> QED BY ONLY <2>1, <3>1, MinIs
  <2>3. i # 0
    BY <1>1, <1>2, <1>3, <2>2
  <2>4. i \in 1 .. n /\ i - 1 \in 0 .. n /\ i - 1 \notin B
    <3>1. n \in Nat /\ i \in 0 .. n
      BY <1>2
    <3>2. i \in 1 .. n /\ i - 1 \in 0 .. n /\ ~(i <= i - 1)
      BY ONLY <3>1, <2>3
    <3> HIDE DEF B
    <3> QED BY ONLY <2>2, <3>2
  <2>5. Reading(t)[i - 1] = f[i - 1]
    BY <2>4
  <2>6. Reading(t)[i] = ParseSdpLine(Reading(t)[i - 1], t[i])
    BY <1>3, <2>3, <2>4
  <2> QED BY <1>1, <1>2, <2>2, <2>4, <2>5, <2>6
<1>5. n \in 0 .. n
  BY <1>2
<1>6. Reading(t)[n] = f[n]
  BY <1>4, <1>5
<1> QED BY <1>1, <1>2, <1>6 DEF ParseSDP

-------------------------------------------------------------------------------
(* Lines that were written, read again                                       *)

LEMMA WrittenWords ==
  \A w \in {"audio", "video", "application", "RTP", "AVP", "0", "AS", "control", "rtpmap", "fmtp",
            "framesize", "tool"} :
    w \in Word /\ w # BLANK /\ w # ":" /\ w # "/" /\ w # "-"
<1>1. BLANK \notin {"audio", "video", "application", "RTP", "AVP", "AS", "control", "rtpmap", "fmtp",
                    "framesize", "tool", "0"}
  BY DEF BLANK
<1>2. \A w \in {"audio", "video", "application", "RTP", "AVP", "0", "AS", "control", "rtpmap", "fmtp",
            "framesize", "tool"} : w \in Word
  BY Words
<1>3. \A w \in {"audio", "video", "application", "RTP", "AVP", "0", "AS", "control", "rtpmap", "fmtp",
            "framesize", "tool"} : w # BLANK
  BY ONLY <1>1
<1>4. \A w \in {"audio", "video", "application", "RTP", "AVP", "0", "AS", "control", "rtpmap", "fmtp",
            "framesize", "tool"} : w # ":" /\ w # "/" /\ w # "-"
  OBVIOUS
<1> QED BY ONLY <1>2, <1>3, <1>4

\* A word and what is behind it, at a place of a text.
LEMMA WordPiece ==
  ASSUME NEW t \in Text, NEW i \in 1 .. Len(t), t[i] # BLANK
  PROVE  Piece(t, i, i + 1) = <<t[i]>>
<1>1. PICK w, k : w = t[i] /\ k = (i + 1) - 1
  OBVIOUS
<1>2. w \in Word /\ Len(t) \in Nat /\ k = i /\ w # BLANK
  BY <1>1, TextIs
<1>3. i \in 1 .. Len(t) + 1 /\ i \in i - 1 .. Len(t) /\ i - i + 1 = 1 /\ i + 1 - 1 = i
  BY <1>2
<1>4. PICK p : p = SubSeq(t, i, i)
  OBVIOUS
<1>5. p \in Text /\ Len(p) = 1 /\ \A j \in 1 .. 1 : p[j] = t[i + j - 1]
  BY <1>3, <1>4, PieceIs
<1>6. <<w>> \in Text /\ Len(<<w>>) = 1 /\ <<w>>[1] = w /\ Trim(<<w>>)
  BY <1>2, OneWord, WordTrim
<1>7. p[1] = w
  <2>1. 1 \in 1 .. 1
    OBVIOUS
  <2>2. p[1] = t[i + 1 - 1]
    BY ONLY <1>5, <2>1
  <2> QED BY ONLY <1>1, <1>3, <2>2
<1>8. p = <<w>>
  <2>1. \A j \in 1 .. Len(p) : p[j] = <<w>>[j]
    BY <1>5, <1>6, <1>7
  <2> QED BY <1>5, <1>6, <2>1, SameText
<1>9. Strip(<<w>>) = <<w>>
  BY <1>6, StripNone
<1> QED BY <1>1, <1>2, <1>4, <1>8, <1>9 DEF Piece

LEMMA NoPiece ==
  ASSUME NEW t \in Text, NEW i \in 1 .. Len(t) + 1
  PROVE  Piece(t, i, i) = << >>
<1>1. PICK k, p : k = i - 1 /\ p = SubSeq(t, i, k)
  OBVIOUS
<1>2. Len(t) \in Nat
  BY TextIs
<1>3. k \in i - 1 .. Len(t) /\ k - i + 1 = 0
  BY <1>1, <1>2
<1>4. p \in Text /\ Len(p) = 0
  BY <1>1, <1>3, PieceIs
<1>5. p = << >> /\ Strip(<< >>) = << >>
  BY <1>4, NoneIsEmpty, NoWord, StripNone
<1> QED BY <1>1, <1>5 DEF Piece

\* A blank and a text at a place of a text.
LEMMA BlankPiece ==
  ASSUME NEW t \in Text, NEW v, Trim(v), NEW a \in 1 .. Len(t), a + Len(v) <= Len(t), t[a] = BLANK,
         \A i \in 1 .. Len(v) : t[a + i] = v[i]
  PROVE  Piece(t, a, a + Len(v) + 1) = v
<1>1. PICK l, k, p : l = Len(v) /\ k = (a + l + 1) - 1 /\ p = SubSeq(t, a, k)
  OBVIOUS
<1>2. v \in Text /\ Len(t) \in Nat /\ l \in Nat
  BY <1>1, TextIs DEF Trim
<1>3. k = a + l /\ a \in 1 .. Len(t) + 1 /\ k \in a - 1 .. Len(t) /\ k - a + 1 = l + 1
  BY <1>1, <1>2
<1>4. p \in Text /\ Len(p) = l + 1 /\ \A j \in 1 .. l + 1 : p[j] = t[a + j - 1]
  <2>1. p = SubSeq(t, a, k)
    BY <1>1
  <2>2. /\ p \in Text /\ Len(p) = k - a + 1
        /\ \A i \in 1 .. k - a + 1 : p[i] = t[a + i - 1]
    BY <1>3, <2>1, PieceIs
  <2> QED BY <1>3, <2>2
<1>5. p[1] = BLANK /\ \A j \in 1 .. l : p[j + 1] = v[j]
  <2>1. 1 \in 1 .. l + 1 /\ a + 1 - 1 = a
    BY <1>2
  <2>2. p[1] = t[a + 1 - 1]
    BY ONLY <1>4, <2>1
  <2>3. p[1] = BLANK
    BY ONLY <2>1, <2>2, t[a] = BLANK
  <2>4. \A j \in 1 .. l : j + 1 \in 1 .. l + 1 /\ a + (j + 1) - 1 = a + j
    BY <1>2
  <2>5. \A j \in 1 .. l : t[a + j] = v[j]
    BY <1>1
  <2>6. \A j \in 1 .. l : p[j + 1] = v[j]
    <3>1. ASSUME NEW j \in 1 .. l PROVE p[j + 1] = v[j]
      <4>1. PICK x : x = j + 1
        OBVIOUS
      <4>2. x \in 1 .. l + 1 /\ a + x - 1 = a + j
        BY <2>4, <4>1
      <4>3. p[x] = t[a + x - 1]
        BY ONLY <1>4, <4>2
      <4> QED BY <2>5, <4>1, <4>2, <4>3
    <3> QED BY <3>1
  <2> QED BY <2>3, <2>6
<1>6. Strip(p) = v
  <2>1. CASE l = 0
    <3>1. v = << >>
      BY <1>1, <1>2, <2>1, NoneIsEmpty
    <3>2. <<BLANK>> \in Text /\ Len(<<BLANK>>) = 1 /\ <<BLANK>>[1] = BLANK
      BY OneWord, Words
    <3>3. p = <<BLANK>>
      <4>1. Len(p) = 1
        BY <1>4, <2>1
      <4>2. \A j \in 1 .. Len(p) : p[j] = <<BLANK>>[j]
        BY <1>5, <3>2, <4>1
      <4> QED BY <1>4, <3>2, <4>1, <4>2, SameText
    <3> QED BY <3>1, <3>3, StripBlank
  <2>2. CASE l # 0
    <3>1. v # << >>
      BY <1>1, <1>2, <2>2, NoneIsEmpty
    <3>2. v[1] # BLANK /\ v[l] # BLANK
      BY <1>1, <3>1 DEF Trim
    <3>3. PICK b, c : b = 2 /\ c = l + 1
      OBVIOUS
    <3>4. p[b] # BLANK /\ p[c] # BLANK
      <4>1. 1 \in 1 .. l /\ l \in 1 .. l /\ 1 + 1 = b /\ l + 1 = c
        BY <1>2, <2>2, <3>3
      <4> QED BY <1>5, <3>2, <4>1
    <3>5. Between(p, b, c)
      <4>1. /\ b \in 1 .. Len(p) + 1 /\ c \in b - 1 .. Len(p) /\ ~(b > c)
            /\ \A i \in 1 .. b - 1 : i = 1
            /\ \A i \in c + 1 .. Len(p) : FALSE
        BY <1>2, <1>4, <2>2, <3>3
      <4> QED BY <1>5, <3>4, <4>1 DEF Between
    <3>6. Strip(p) = SubSeq(p, b, c)
      BY <1>4, <3>5, StripAt
    <3>7. PICK q : q = SubSeq(p, b, c)
      OBVIOUS
    <3>8. q \in Text /\ Len(q) = c - b + 1 /\ \A i \in 1 .. c - b + 1 : q[i] = p[b + i - 1]
      <4>1. b \in 1 .. Len(p) + 1 /\ c \in b - 1 .. Len(p)
        BY <3>5 DEF Between
      <4> QED BY <1>4, <3>7, <4>1, PieceIs
    <3>9. Len(q) = l /\ \A i \in 1 .. l : q[i] = v[i]
      <4>1. c - b + 1 = l /\ \A i \in 1 .. l : b + i - 1 = i + 1
        BY <1>2, <3>3
      <4>2. \A i \in 1 .. l : q[i] = p[b + i - 1]
        BY <3>8, <4>1
      <4> QED BY <1>5, <3>8, <4>1, <4>2
    <3>10. q = v
      BY <1>1, <1>2, <3>8, <3>9, SameText
    <3> QED BY <3>6, <3>7, <3>10
  <2> QED BY <2>1, <2>2
<1> QED BY <1>1, <1>6 DEF Piece

\* An attribute: its name, a colon and what it says.
Tagged(t, k, u) ==
  /\ t \in Text /\ u \in Text /\ Len(t) = Len(u) + 2 /\ t[1] = k /\ t[2] = ":"
  /\ \A i \in 1 .. Len(u) : t[i + 2] = u[i]

LEMMA AttrAt ==
  ASSUME NEW t, NEW k \in Word, k # BLANK, k # ":", NEW u, Tagged(t, k, u), Trim(u)
  PROVE  Split(t, ":") = [key |-> <<k>>, val |-> u]
<1>1. PICK l : l = Len(u) /\ l \in Nat
  BY TextIs DEF Tagged
<1>2. /\ t \in Text /\ u \in Text /\ Len(t) = l + 2 /\ t[1] = k /\ t[2] = ":"
      /\ \A i \in 1 .. l : t[i + 2] = u[i]
  BY <1>1 DEF Tagged
<1>3. PICK c : c = ":"
  OBVIOUS
<1>4. PICK i : i = 2
  OBVIOUS
<1>5. i \in 2 .. Len(t) /\ t[i] = c /\ \A j \in 1 .. i - 1 : t[j] # c
  BY <1>1, <1>2, <1>3, <1>4
<1>6. Split(t, c) = [key |-> Strip(SubSeq(t, 1, i - 1)), val |-> Strip(From(t, i + 1))]
  BY <1>2, <1>5, SplitAt
<1>7. Strip(SubSeq(t, 1, i - 1)) = <<k>>
  <2>1. 1 \in 1 .. Len(t) /\ t[1] # BLANK
    BY <1>1, <1>2
  <2>2. Piece(t, 1, 1 + 1) = <<t[1]>>
    BY <1>2, <2>1, WordPiece
  <2>3. Piece(t, 1, 2) = Strip(SubSeq(t, 1, 2 - 1)) /\ 1 + 1 = 2
    BY DEF Piece
  <2> QED BY ONLY <1>2, <1>4, <2>2, <2>3
<1>8. From(t, i + 1) = u
  <2>1. PICK v, a : v = From(t, a) /\ a = i + 1
    OBVIOUS
  <2>2. a = 3 /\ a \in 1 .. Len(t) + 1
    BY <1>1, <1>2, <1>4, <2>1
  <2>3. v \in Text /\ Len(v) = Len(t) - a + 1 /\ \A j \in 1 .. Len(t) - a + 1 : v[j] = t[a + j - 1]
    BY <1>2, <2>1, <2>2, BehindIs
  <2>4. Len(t) - a + 1 = l /\ \A j \in 1 .. l : a + j - 1 = j + 2
    BY <1>1, <1>2, <2>2
  <2>5. Len(v) = l /\ \A j \in 1 .. l : v[j] = u[j]
    BY <1>2, <2>3, <2>4
  <2>6. v = u
    BY <1>1, <1>2, <2>3, <2>5, SameText
  <2> QED BY <2>1, <2>6
<1>9. Strip(u) = u
  BY StripNone
<1> QED BY ONLY <1>3, <1>6, <1>7, <1>8, <1>9

\* Parameters have no blank at their ends.
LEMMA ConfigTrim ==
  ASSUME NEW c, IsConfig(c), c # << >>
  PROVE  c[Len(c)] # BLANK /\ c \in Text /\ Len(c) \in Nat /\ Len(c) > 0
<1>1. c \in Text
  BY DEF IsConfig
<1>2. PICK n : n \in Nat /\ \E at : Laid(c, n, at)
  BY DEF IsConfig
<1>3. PICK at : Laid(c, n, at)
  BY <1>2
<1>4. n > 0
  BY <1>2, <1>3 DEF Laid
<1>5. n \in 1 .. n /\ at[n] = Len(c)
  BY <1>2, <1>3, <1>4 DEF Laid
<1>6. c[at[n]] # BLANK
  BY <1>1, <1>2, <1>3, <1>5, SegmentIs
<1> QED BY <1>1, <1>5, <1>6, TextIs, NoneIsEmpty

\* Slash and hyphen are delimiters, too.
LEMMA DelimWords ==
  /\ BLANK \in Word \ {"end"} /\ "/" \in Word \ {"end"} /\ "-" \in Word \ {"end"}
  /\ BLANK # "/" /\ BLANK # "-"
<1>1. BLANK \in Word /\ "/" \in Word /\ "-" \in Word
  BY Words
<1>2. BLANK # "end" /\ BLANK # "/" /\ BLANK # "-"
  BY Delimiters
<1> QED BY <1>1, <1>2

LEMMA FirstTwo ==
  ASSUME NEW x, NEW y, NEW z
  PROVE  SubSeq(<<x, y, z>>, 1, 2) = <<x, y>>
<1>1. PICK T, q, s, w : T = {x, y, z} /\ q = <<x, y, z>> /\ s = SubSeq(q, 1, 2) /\ w = <<x, y>>
  OBVIOUS
<1>2. q \in Seq(T) /\ Len(q) = 3 /\ q[1] = x /\ q[2] = y
  BY <1>1
<1>3. 1 \in 1 .. Len(q) + 1 /\ 2 \in 1 - 1 .. Len(q)
  BY <1>2
<1>4. s \in Seq(T) /\ Len(s) = 2 /\ s[1] = q[1] /\ s[2] = q[2]
  <2>1. s \in Seq(T) /\ Len(s) = (IF 1 <= 2 THEN 2 - 1 + 1 ELSE 0)
        /\ \A i \in 1 .. 2 - 1 + 1 : s[i] = q[1 + i - 1]
    BY ONLY <1>1, <1>2, <1>3, SubSeqProperties
  <2>2. s[1] = q[1 + 1 - 1] /\ s[2] = q[1 + 2 - 1]
    BY <2>1
  <2> QED BY <2>1, <2>2
<1>5. w \in Seq(T) /\ Len(w) = 2 /\ w[1] = x /\ w[2] = y
  BY <1>1
<1>6. s = w
  <2>1. \A i \in 1 .. 2 : i = 1 \/ i = 2
    OBVIOUS
  <2>2. \A i \in 1 .. 2 : s[i] = w[i]
    BY ONLY <1>2, <1>4, <1>5, <2>1
  <2> QED BY ONLY <1>4, <1>5, <2>2, SeqEqual
<1> QED BY <1>1, <1>6

\* The protocol that is written is taken.
LEMMA ProtocolTaken ==
  ASSUME NEW p \in Text, Len(p) = 3, p[1] = "RTP", p[2] = "/", p[3] = "AVP"
  PROVE  IsUdp(p)
<1>1. PICK x, y, z, e : x = <<"RTP">> /\ y = <<"AVP">> /\ z = <<"UDP">> /\ e = << >>
  OBVIOUS
<1>2. p[1] # BLANK /\ p[3] # BLANK /\ p[1] # "/" /\ p[3] # "/"
  BY WrittenWords
<1>3. PICK w : w = "/" /\ w \in Word \ {"end"}
  BY DelimWords
<1>4. TokenAt(p, 1, 1, 2, w) /\ TokenAt(p, 2, 3, 4, w) /\ TokenAt(p, 4, 4, 4, w)
  BY <1>2, <1>3 DEF TokenAt
<1>5. Take(p, <<w, w, w>>)
        = [got |-> <<Piece(p, 1, 2), Piece(p, 3, 4), Piece(p, 4, 4)>>, rest |-> From(p, 4)]
  BY <1>3, <1>4, Take3At
<1>6. Piece(p, 1, 2) = x
  <2>1. Piece(p, 1, 1 + 1) = <<p[1]>>
    BY <1>2, WordPiece
  <2>2. 1 + 1 = 2
    OBVIOUS
  <2> QED BY <1>1, <2>1, <2>2
<1>7. Piece(p, 3, 4) = y
  <2>1. Piece(p, 3, 3 + 1) = <<p[3]>>
    BY <1>2, WordPiece
  <2>2. 3 + 1 = 4
    OBVIOUS
  <2> QED BY <1>1, <2>1, <2>2
<1>8. Piece(p, 4, 4) = e
  BY <1>1, NoPiece
<1>9. PICK got : got = <<x, y, e>>
  OBVIOUS
<1>10. Take(p, <<"/", "/", "/">>).got = got
  <2>1. PICK a, b, c, d : a = Piece(p, 1, 2) /\ b = Piece(p, 3, 4) /\ c = Piece(p, 4, 4) /\ d = From(p, 4)
    OBVIOUS
  <2>2. Take(p, <<w, w, w>>) = [got |-> <<a, b, c>>, rest |-> d]
    BY <1>5, <2>1
  <2>3. Take(p, <<w, w, w>>).got = <<a, b, c>>
    BY ONLY <2>2
  <2> QED BY ONLY <1>3, <1>6, <1>7, <1>8, <1>9, <2>1, <2>3
<1>11. got[2 + 1] = << >>
  BY <1>1, <1>9
<1>12. SubSeq(got, 1, 2) = SubSeq(Protocol, 1, 2)
  <2>1. Protocol = <<x, y, z>>
    BY <1>1 DEF Protocol
  <2>2. SubSeq(<<x, y, e>>, 1, 2) = <<x, y>>
    BY FirstTwo
  <2>3. SubSeq(<<x, y, z>>, 1, 2) = <<x, y>>
    BY FirstTwo
  <2> QED BY ONLY <1>9, <2>1, <2>2, <2>3
<1>13. p # << >>
  BY NoneIsEmpty
<1> QED BY <1>10, <1>11, <1>12, <1>13 DEF IsUdp

LEMMA TypeAgain ==
  ASSUME NEW w \in {"audio", "video", "application"}, NEW n \in Value, NEW t \in Text, Len(t) = 9,
         t[1] = w, t[2] = BLANK, t[3] = "0", t[4] = BLANK, t[5] = "RTP", t[6] = "/", t[7] = "AVP",
         t[8] = BLANK, t[9] = Numeral(n)
  PROVE  LET got == Take(t, <<BLANK, BLANK, BLANK, BLANK>>).got
         IN ~Refused(got) /\ got[1] = <<w>> /\ Num(got[4]) = n
<1>1. PICK b : b = BLANK /\ b \in Word \ {"end"} /\ b # "/"
  BY DelimWords
<1>2. w # b /\ "0" # b /\ "RTP" # b /\ "AVP" # b /\ Numeral(n) # b
  BY <1>1, WrittenWords, NumeralIs
<1>3. /\ TokenAt(t, 1, 1, 2, b) /\ TokenAt(t, 2, 3, 4, b) /\ TokenAt(t, 4, 5, 8, b)
      /\ TokenAt(t, 8, 9, 10, b)
  <2>1. TokenAt(t, 1, 1, 2, b)
    BY <1>1, <1>2 DEF TokenAt
  <2>2. TokenAt(t, 2, 3, 4, b)
    BY <1>1, <1>2 DEF TokenAt
  <2>3. TokenAt(t, 4, 5, 8, b)
    <3>1. \A i \in 5 .. 8 - 1 : i = 5 \/ i = 6 \/ i = 7
      OBVIOUS
    <3>2. \A i \in 5 .. 8 - 1 : t[i] # b
      BY <1>1, <1>2, <3>1
    <3> QED BY <1>1, <3>2 DEF TokenAt
  <2>4. TokenAt(t, 8, 9, 10, b)
    BY <1>1, <1>2 DEF TokenAt
  <2> QED BY <2>1, <2>2, <2>3, <2>4
<1>4. PICK p1, p2, p3, p4, d :
        p1 = Piece(t, 1, 2) /\ p2 = Piece(t, 3, 4) /\ p3 = Piece(t, 5, 8) /\ p4 = Piece(t, 9, 10)
        /\ d = From(t, 10)
  OBVIOUS
<1>5. Take(t, <<b, b, b, b>>) = [got |-> <<p1, p2, p3, p4>>, rest |-> d]
  BY <1>1, <1>3, <1>4, Take4At
<1>6. p1 = <<w>> /\ p2 = <<"0">> /\ p4 = <<Numeral(n)>>
  <2>1. /\ Piece(t, 1, 1 + 1) = <<t[1]>> /\ Piece(t, 3, 3 + 1) = <<t[3]>>
        /\ Piece(t, 9, 9 + 1) = <<t[9]>>
    BY <1>1, <1>2, WordPiece
  <2>2. 1 + 1 = 2 /\ 3 + 1 = 4 /\ 9 + 1 = 10
    OBVIOUS
  <2> QED BY <1>4, <2>1, <2>2
<1>7. IsUdp(p3)
  <2>1. PICK k, u : k = 8 - 1 /\ u = SubSeq(t, 5, k)
    OBVIOUS
  <2>2. 5 \in 1 .. Len(t) + 1 /\ k \in 5 - 1 .. Len(t) /\ k - 5 + 1 = 3
    BY <2>1
  <2>3. u \in Text /\ Len(u) = 3 /\ \A i \in 1 .. 3 : u[i] = t[5 + i - 1]
    BY <2>1, <2>2, PieceIs
  <2>4. u[1] = "RTP" /\ u[2] = "/" /\ u[3] = "AVP"
    <3>1. 5 + 1 - 1 = 5 /\ 5 + 2 - 1 = 6 /\ 5 + 3 - 1 = 7 /\ 1 \in 1 .. 3 /\ 2 \in 1 .. 3 /\ 3 \in 1 .. 3
      OBVIOUS
    <3>2. u[1] = t[5 + 1 - 1] /\ u[2] = t[5 + 2 - 1] /\ u[3] = t[5 + 3 - 1]
      BY ONLY <2>3, <3>1
    <3> QED BY <3>1, <3>2
  <2>5. Trim(u)
    BY <1>1, <1>2, <2>3, <2>4 DEF Trim
  <2>6. Strip(u) = u
    BY <2>5, StripNone
  <2>7. p3 = u
    BY <1>4, <2>1, <2>6 DEF Piece
  <2> QED BY <2>3, <2>4, <2>7, ProtocolTaken
<1>8. PICK got : got = <<p1, p2, p3, p4>>
  OBVIOUS
<1>9. got[1] = p1 /\ got[2] = p2 /\ got[3] = p3 /\ got[4] = p4
  BY <1>8
<1>10. Take(t, <<BLANK, BLANK, BLANK, BLANK>>).got = got
  <2>1. Take(t, <<b, b, b, b>>).got = <<p1, p2, p3, p4>>
    BY ONLY <1>5
  <2> QED BY ONLY <1>1, <1>8, <2>1
<1>11. IsNum(<<"0">>) /\ IsNum(<<Numeral(n)>>) /\ Num(<<Numeral(n)>>) = n
  <2>1. 0 \in Value /\ Numeral(0) = "0"
    BY ValueOk, NumberAssumption
  <2>2. IsNum(<<Numeral(0)>>)
    BY <2>1, NumeralIs
  <2> QED BY <2>1, <2>2, NumeralIs
<1>12. <<w>> \in {<<"audio">>, <<"video">>, <<"application">>}
  OBVIOUS
<1>13. ~Refused(got)
  BY ONLY <1>6, <1>7, <1>9, <1>11, <1>12 DEF Refused
<1> QED BY <1>6, <1>9, <1>10, <1>11, <1>13

\* The encoding, with the channels (one = 1) or without them (one = 0).
Mapped(u, n, name, r, one, c) ==
  LET l == Len(name)
  IN /\ u \in Text /\ Len(u) = l + 4 + 2 * one
     /\ u[1] = Numeral(n) /\ u[2] = BLANK
     /\ \A i \in 1 .. l : u[2 + i] = name[i]
     /\ u[l + 3] = "/" /\ u[l + 4] = Numeral(r)
     /\ one = 1 => u[l + 5] = "/" /\ u[l + 6] = Numeral(c)

LEMMA EncodingAgain ==
  ASSUME NEW n \in Value, NEW r \in Value, NEW c \in Value, NEW one \in 0 .. 1,
         NEW name, Trim(name), Without(name, "/"), NEW u, Mapped(u, n, name, r, one, c)
  PROVE  LET got == Take(u, <<BLANK, "/", "/", "/">>).got
         IN /\ got[1] = <<Numeral(n)>> /\ got[2] = name /\ got[3] = <<Numeral(r)>>
            /\ got[4] = IF one = 1 THEN <<Numeral(c)>> ELSE << >>
<1>1. PICK b, s : b = BLANK /\ s = "/" /\ b \in Word \ {"end"} /\ s \in Word \ {"end"} /\ b # s
  BY DelimWords
<1>2. PICK N, R, C : /\ N = Numeral(n) /\ R = Numeral(r) /\ C = Numeral(c)
                     /\ N # b /\ N # s /\ R # b /\ R # s /\ C # b /\ C # s
  BY <1>1, NumeralIs
<1>3. PICK l : l = Len(name) /\ l \in Nat
  BY TextIs DEF Trim
<1>4. PICK z : z = Len(u)
  OBVIOUS
<1>5. /\ u \in Text /\ z = l + 4 + 2 * one
      /\ u[1] = N /\ u[2] = b
      /\ \A i \in 1 .. l : u[2 + i] = name[i]
      /\ u[l + 3] = s /\ u[l + 4] = R
      /\ one = 1 => u[l + 5] = s /\ u[l + 6] = C
  BY <1>1, <1>2, <1>3, <1>4 DEF Mapped
<1>6. \A i \in 2 .. l + 2 : u[i] # s
  <2>1. ASSUME NEW i \in 2 .. l + 2 PROVE u[i] # s
    <3>1. CASE i = 2
      BY <1>1, <1>5, <3>1
    <3>2. CASE i # 2
      <4>1. i - 2 \in 1 .. l /\ 2 + (i - 2) = i
        BY <1>3, <3>2
      <4>2. u[i] = name[i - 2] /\ name[i - 2] # s
        BY <1>1, <1>3, <1>5, <4>1 DEF Without
      <4> QED BY <4>2
    <3> QED BY <3>1, <3>2
  <2> QED BY <2>1
<1>7. PICK k2, a3, k3, a4, k4 :
        /\ k2 = l + 3 /\ a3 = l + 4 /\ k3 = l + 5
        /\ a4 = (IF one = 1 THEN l + 6 ELSE l + 5) /\ k4 = (IF one = 1 THEN l + 7 ELSE l + 5)
  OBVIOUS
<1>8. TokenAt(u, 1, 1, 2, b)
  <2>1. 1 \in 1 .. z + 1 /\ 2 \in 1 .. z + 1 /\ (\A i \in 1 .. 2 - 1 : i = 1) /\ 1 .. 1 - 1 = {}
    BY <1>3, <1>5
  <2> QED BY <1>2, <1>4, <1>5, <2>1 DEF TokenAt
<1>9. TokenAt(u, 2, 2, k2, s)
  <2>1. 2 \in 1 .. z + 1 /\ k2 \in 2 .. z + 1 /\ k2 # 2 /\ k2 - 1 = l + 2
    BY <1>3, <1>5, <1>7
  <2>2. \A i \in 2 .. k2 - 1 : u[i] # s
    BY <1>6, <2>1
  <2>3. u[k2] = s
    BY <1>5, <1>7
  <2> QED BY <1>4, <2>1, <2>2, <2>3 DEF TokenAt
<1>10. TokenAt(u, k2, a3, k3, s)
  <2>1. k2 \in 1 .. z + 1 /\ a3 \in k2 .. z + 1 /\ k3 \in a3 .. z + 1 /\ k3 # a3
    BY <1>3, <1>5, <1>7
  <2>2. \A i \in k2 .. a3 - 1 : u[i] = s
    <3>1. \A i \in k2 .. a3 - 1 : i = l + 3
      BY <1>3, <1>7
    <3> QED BY <1>5, <3>1
  <2>3. \A i \in a3 .. k3 - 1 : u[i] # s
    <3>1. \A i \in a3 .. k3 - 1 : i = l + 4
      BY <1>3, <1>7
    <3> QED BY <1>2, <1>5, <3>1
  <2>4. k3 <= z => u[k3] = s
    <3>1. k3 <= z => one = 1
      BY <1>3, <1>5, <1>7
    <3> QED BY <1>5, <1>7, <3>1
  <2> QED BY <1>4, <2>1, <2>2, <2>3, <2>4 DEF TokenAt
<1>11. TokenAt(u, k3, a4, k4, s)
  <2>1. /\ k3 \in 1 .. z + 1 /\ a4 \in k3 .. z + 1 /\ k4 \in a4 .. z + 1 /\ (k4 = a4 => a4 = z + 1)
        /\ ~(k4 <= z)
    BY <1>3, <1>5, <1>7
  <2>2. \A i \in k3 .. a4 - 1 : u[i] = s
    <3>1. \A i \in k3 .. a4 - 1 : i = l + 5 /\ one = 1
      BY <1>3, <1>7
    <3> QED BY <1>5, <3>1
  <2>3. \A i \in a4 .. k4 - 1 : u[i] # s
    <3>1. \A i \in a4 .. k4 - 1 : i = l + 6 /\ one = 1
      BY <1>3, <1>7
    <3> QED BY <1>2, <1>5, <3>1
  <2> QED BY <1>4, <2>1, <2>2, <2>3 DEF TokenAt
<1>12. PICK p1, p2, p3, p4, d :
         p1 = Piece(u, 1, 2) /\ p2 = Piece(u, 2, k2) /\ p3 = Piece(u, a3, k3) /\ p4 = Piece(u, a4, k4)
         /\ d = From(u, k4)
  OBVIOUS
<1>13. Take(u, <<b, s, s, s>>) = [got |-> <<p1, p2, p3, p4>>, rest |-> d]
  BY <1>1, <1>5, <1>8, <1>9, <1>10, <1>11, <1>12, Take4At
<1>14. p1 = <<N>>
  <2>1. 1 \in 1 .. Len(u) /\ u[1] # BLANK /\ 1 + 1 = 2
    BY <1>1, <1>2, <1>3, <1>4, <1>5
  <2>2. Piece(u, 1, 1 + 1) = <<u[1]>>
    BY <1>5, <2>1, WordPiece
  <2> QED BY <1>5, <1>12, <2>1, <2>2
<1>15. p2 = name
  <2>1. PICK a : a = 2
    OBVIOUS
  <2>2. a \in 1 .. Len(u) /\ a + Len(name) <= Len(u) /\ u[a] = BLANK /\ a + Len(name) + 1 = k2
    BY <1>1, <1>3, <1>4, <1>5, <1>7, <2>1
  <2>3. \A i \in 1 .. Len(name) : u[a + i] = name[i]
    BY <1>3, <1>5, <2>1
  <2>4. Piece(u, a, a + Len(name) + 1) = name
    BY <1>5, <2>2, <2>3, BlankPiece
  <2> QED BY <1>12, <2>1, <2>2, <2>4
<1>16. p3 = <<R>>
  <2>1. a3 \in 1 .. Len(u) /\ u[a3] = R /\ R # BLANK /\ a3 + 1 = k3
    BY <1>1, <1>2, <1>3, <1>4, <1>5, <1>7
  <2>2. Piece(u, a3, a3 + 1) = <<u[a3]>>
    BY <1>5, <2>1, WordPiece
  <2> QED BY <1>12, <2>1, <2>2
<1>17. p4 = IF one = 1 THEN <<C>> ELSE << >>
  <2>1. CASE one = 1
    <3>1. a4 \in 1 .. Len(u) /\ u[a4] = C /\ C # BLANK /\ a4 + 1 = k4
      BY <1>1, <1>2, <1>3, <1>4, <1>5, <1>7, <2>1
    <3>2. Piece(u, a4, a4 + 1) = <<u[a4]>>
      BY <1>5, <3>1, WordPiece
    <3> QED BY <1>12, <2>1, <3>1, <3>2
  <2>2. CASE one # 1
    <3>1. a4 = k4 /\ a4 \in 1 .. Len(u) + 1
      BY <1>3, <1>4, <1>5, <1>7, <2>2
    <3> QED BY <1>5, <1>12, <2>2, <3>1, NoPiece
  <2> QED BY <2>1, <2>2
<1>18. PICK got : got = <<p1, p2, p3, p4>>
  OBVIOUS
<1>19. got[1] = p1 /\ got[2] = p2 /\ got[3] = p3 /\ got[4] = p4
  BY <1>18
<1>20. Take(u, <<BLANK, "/", "/", "/">>).got = got
  <2>1. Take(u, <<b, s, s, s>>).got = <<p1, p2, p3, p4>>
    BY ONLY <1>13
  <2> QED BY ONLY <1>1, <1>18, <2>1
<1> QED BY ONLY <1>2, <1>14, <1>15, <1>16, <1>17, <1>19, <1>20

\* Short texts.
LEMMA Words2 ==
  ASSUME NEW a \in Word, NEW b \in Word
  PROVE  LET t == <<a, b>> IN t \in Text /\ Len(t) = 2 /\ t[1] = a /\ t[2] = b
<1>1. PICK W : W = Word
  OBVIOUS
<1>2. a \in W /\ b \in W
  BY <1>1
<1>3. <<a, b>> \in Seq(W)
  BY ONLY <1>2
<1> QED BY <1>1, <1>3 DEF Text

LEMMA Words3 ==
  ASSUME NEW a \in Word, NEW b \in Word, NEW c \in Word
  PROVE  LET t == <<a, b, c>> IN t \in Text /\ Len(t) = 3 /\ t[1] = a /\ t[2] = b /\ t[3] = c
<1>1. PICK W : W = Word
  OBVIOUS
<1>2. a \in W /\ b \in W /\ c \in W
  BY <1>1
<1>3. <<a, b, c>> \in Seq(W)
  BY ONLY <1>2
<1> QED BY <1>1, <1>3 DEF Text

LEMMA Words4 ==
  ASSUME NEW a \in Word, NEW b \in Word, NEW c \in Word, NEW d \in Word
  PROVE  LET t == <<a, b, c, d>>
         IN t \in Text /\ Len(t) = 4 /\ t[1] = a /\ t[2] = b /\ t[3] = c /\ t[4] = d
<1>1. PICK W : W = Word
  OBVIOUS
<1>2. a \in W /\ b \in W /\ c \in W /\ d \in W
  BY <1>1
<1>3. <<a, b, c, d>> \in Seq(W)
  BY ONLY <1>2
<1> QED BY <1>1, <1>3 DEF Text

LEMMA Words7 ==
  ASSUME NEW a \in Word, NEW b \in Word, NEW c \in Word, NEW d \in Word,
         NEW e \in Word, NEW f \in Word, NEW g \in Word
  PROVE  LET t == <<a, b, c, d, e, f, g>>
         IN /\ t \in Text /\ Len(t) = 7 /\ t[1] = a /\ t[2] = b /\ t[3] = c /\ t[4] = d
            /\ t[5] = e /\ t[6] = f /\ t[7] = g
<1>1. PICK W : W = Word
  OBVIOUS
<1>2. a \in W /\ b \in W /\ c \in W /\ d \in W /\ e \in W /\ f \in W /\ g \in W
  BY <1>1
<1>3. <<a, b, c, d, e, f, g>> \in Seq(W)
  BY ONLY <1>2
<1> QED BY <1>1, <1>3 DEF Text

LEMMA Words8 ==
  ASSUME NEW a \in Word, NEW b \in Word, NEW c \in Word, NEW d \in Word,
         NEW e \in Word, NEW f \in Word, NEW g \in Word, NEW h \in Word
  PROVE  LET t == <<a, b, c, d, e, f, g, h>>
         IN /\ t \in Text /\ Len(t) = 8 /\ t[1] = a /\ t[2] = b /\ t[3] = c /\ t[4] = d
            /\ t[5] = e /\ t[6] = f /\ t[7] = g /\ t[8] = h
<1>1. PICK W : W = Word
  OBVIOUS
<1>2. a \in W /\ b \in W /\ c \in W /\ d \in W /\ e \in W /\ f \in W /\ g \in W /\ h \in W
  BY <1>1
<1>3. <<a, b, c, d, e, f, g, h>> \in Seq(W)
  BY ONLY <1>2
<1> QED BY <1>1, <1>3 DEF Text

LEMMA TagIs ==
  ASSUME NEW t \in Text, Len(t) >= 2, NEW k, t[1] = k, t[2] = ":"
  PROVE  LET u == From(t, 3)
         IN /\ Tagged(t, k, u) /\ u \in Text /\ Len(u) = Len(t) - 2
            /\ \A i \in 1 .. Len(t) - 2 : u[i] = t[i + 2]
<1>1. PICK l, u : l = Len(t) /\ u = From(t, 3)
  OBVIOUS
<1>2. l \in Nat /\ l >= 2
  BY <1>1, TextIs
<1>3. 3 \in 1 .. Len(t) + 1
  BY <1>1, <1>2
<1>4. u \in Text /\ Len(u) = l - 3 + 1 /\ \A i \in 1 .. l - 3 + 1 : u[i] = t[3 + i - 1]
  BY <1>1, <1>3, BehindIs
<1>5. l - 3 + 1 = l - 2 /\ \A i \in 1 .. l - 2 : 3 + i - 1 = i + 2
  BY <1>2
<1>6. u \in Text /\ Len(u) = l - 2 /\ \A i \in 1 .. l - 2 : u[i] = t[i + 2]
  BY <1>4, <1>5
<1>7. Len(t) = Len(u) + 2
  BY <1>1, <1>2, <1>6
<1> QED BY <1>1, <1>6, <1>7 DEF Tagged

-------------------------------------------------------------------------------
(* A media is read again line by line                                        *)

\* What was read of it so far.
Shows(x, type, payload, enc, bitRate, size, config, path) ==
  /\ IsMedia(x) /\ x.url = << >>
  /\ x.type = type /\ x.payload = payload
  /\ enc = <<x.name, x.rate, x.channels>> /\ x.bitRate = bitRate
  /\ size = <<x.width, x.height>> /\ x.config = config /\ x.path = path
Within(r, k, front) ==
  /\ IsSdp(r) /\ ~r.skip /\ r.url = << >> /\ InMedia(r) /\ k \in Nat /\ Len(r.media) = k + 1
  /\ \A i \in 1 .. k : r.media[i] = front[i]

LEMMA WithinSet ==
  ASSUME NEW r, NEW k, NEW front, Within(r, k, front), NEW n, IsMedia(n)
  PROVE  Within(SetMedia(r, n), k, front) /\ Media(SetMedia(r, n)) = n
<1>1. PICK u : u = SetMedia(r, n)
  OBVIOUS
<1>2. IsSdp(r) /\ InMedia(r) /\ k \in Nat /\ Len(r.media) = k + 1
  BY DEF Within
<1>3. /\ IsSdp(u) /\ InMedia(u) /\ Media(u) = n
      /\ u.url = r.url /\ u.skip = r.skip
      /\ Len(u.media) = Len(r.media)
      /\ \A i \in 1 .. Len(r.media) - 1 : u.media[i] = r.media[i]
  BY <1>1, <1>2, SetMediaIs
<1>4. Len(r.media) - 1 = k
  BY <1>2
<1>5. Within(u, k, front)
  BY <1>2, <1>3, <1>4 DEF Within
<1> QED BY <1>1, <1>3, <1>5

LEMMA HeadAgain ==
  ASSUME NEW s, IsSdp(s), ~s.skip, s.url = << >>, NEW k \in Nat, Len(s.media) = k,
         \A i \in 1 .. k : s.media[i].url = << >>,
         NEW m, m.type \in Kinds, m.payload \in Value
  PROVE  \E r : /\ Runs(s, WriteMediaType(m), r) /\ Within(r, k, s.media)
                /\ Shows(Media(r), m.type, m.payload, << << >>, 0, 0>>, 0, <<0, 0>>, << >>, << >>)
<1>1. PICK w \in {"audio", "video", "application"} : m.type = <<w>>
  BY DEF Kinds
<1>2. PICK n \in Value : n = m.payload
  OBVIOUS
<1>3. PICK N, b, z, r1, sl, a : N = Numeral(n) /\ b = BLANK /\ z = "0" /\ r1 = "RTP" /\ sl = "/" /\ a = "AVP"
  OBVIOUS
<1>4. N \in Word /\ b \in Word /\ z \in Word /\ r1 \in Word /\ sl \in Word /\ a \in Word /\ w \in Word
  BY <1>3, NumeralIs, Words, WrittenWords
<1>5. PICK q : q = <<b, z, b, r1, sl, a, b, N>>
  OBVIOUS
<1>6. /\ q \in Text /\ Len(q) = 8 /\ q[1] = b /\ q[2] = z /\ q[3] = b /\ q[4] = r1
      /\ q[5] = sl /\ q[6] = a /\ q[7] = b /\ q[8] = N
  BY <1>4, <1>5, Words8
<1>7. PICK p, t : p = <<w>> /\ t = p \o q
  OBVIOUS
<1>8. p \in Text /\ Len(p) = 1 /\ p[1] = w
  BY <1>4, <1>7, OneWord
<1>9. /\ t \in Text /\ Len(t) = 9 /\ t[1] = w /\ \A i \in 1 .. 8 : t[1 + i] = q[i]
  <2>1. /\ t \in Text /\ Len(t) = Len(p) + Len(q)
        /\ \A i \in 1 .. Len(p) : t[i] = p[i]
        /\ \A i \in 1 .. Len(q) : t[Len(p) + i] = q[i]
    BY <1>6, <1>7, <1>8, BothAre
  <2> QED BY <1>6, <1>8, <2>1
<1>10. /\ t[2] = BLANK /\ t[3] = "0" /\ t[4] = BLANK /\ t[5] = "RTP" /\ t[6] = "/" /\ t[7] = "AVP"
       /\ t[8] = BLANK /\ t[9] = Numeral(n)
  <2>1. /\ t[1 + 1] = q[1] /\ t[1 + 2] = q[2] /\ t[1 + 3] = q[3] /\ t[1 + 4] = q[4]
        /\ t[1 + 5] = q[5] /\ t[1 + 6] = q[6] /\ t[1 + 7] = q[7] /\ t[1 + 8] = q[8]
    BY ONLY <1>9
  <2>2. 1 + 1 = 2 /\ 1 + 2 = 3 /\ 1 + 3 = 4 /\ 1 + 4 = 5 /\ 1 + 5 = 6 /\ 1 + 6 = 7 /\ 1 + 7 = 8 /\ 1 + 8 = 9
    OBVIOUS
  <2> QED BY ONLY <1>3, <1>6, <2>1, <2>2
<1>11. PICK got : got = Take(t, <<BLANK, BLANK, BLANK, BLANK>>).got
  OBVIOUS
<1>12. ~Refused(got) /\ got[1] = <<w>> /\ Num(got[4]) = n
  BY <1>9, <1>10, <1>11, TypeAgain
<1>13. PICK line : line = L("m", t)
  OBVIOUS
<1>14. line.letter = "m" /\ line.val = t
  BY <1>13 DEF L
<1>15. WriteMediaType(m) = <<line>>
  BY <1>1, <1>2, <1>3, <1>5, <1>7, <1>13 DEF WriteMediaType
<1>16. PICK p1 : p1 = Completed(s)
  OBVIOUS
<1>17. p1 = s
  <2>1. CASE InMedia(s)
    <3>1. Media(s).url = << >> /\ IsMedia(Media(s))
      <4>1. Len(s.media) \in 1 .. Len(s.media) /\ IsMedia(Media(s))
        BY <2>1, LastIs
      <4> QED BY <4>1 DEF Media
    <3>2. PostMedia(Media(s)) = Media(s)
      BY <3>1 DEF PostMedia
    <3>3. SetMedia(s, Media(s)) = s
      <4>1. PICK e, l : e = s.media[l] /\ l = Len(s.media)
        OBVIOUS
      <4>2. [s.media EXCEPT ![l] = e] = s.media
        <5>1. PICK T, d : s.media \in [1 .. d -> T]
          <6>1. PICK S : S = {s.media[i] : i \in DOMAIN s.media}
            OBVIOUS
          <6>2. s.media \in Seq(S)
            BY <6>1 DEF IsSdp, IsSeq
          <6>3. s.media \in [1 .. Len(s.media) -> S]
            BY ONLY <6>2, LenProperties
          <6> QED BY <6>3
        <5>2. PICK v : v = s.media
          OBVIOUS
        <5>3. v \in [1 .. d -> T] /\ e = v[l]
          BY <4>1, <5>1, <5>2
        <5>4. [v EXCEPT ![l] = e] = v
          BY ONLY <5>3
        <5> QED BY <5>2, <5>4
      <4>3. PICK v : v = s.media
        OBVIOUS
      <4>4. s = [title |-> s.title, comment |-> s.comment, url |-> s.url, media |-> v,
                 ip |-> s.ip, ttl |-> s.ttl, skip |-> s.skip]
        BY <4>3 DEF IsSdp
      <4>5. [s EXCEPT !.media = v] = s
        BY ONLY <4>4
      <4>6. SetMedia(s, Media(s)) = [s EXCEPT !.media = [v EXCEPT ![l] = e]]
        BY <4>1, <4>3 DEF SetMedia, Media
      <4> QED BY <4>2, <4>3, <4>5, <4>6
    <3> QED BY <1>16, <2>1, <3>2, <3>3 DEF Completed
  <2>2. CASE ~InMedia(s)
    BY <1>16, <2>2 DEF Completed
  <2> QED BY <2>1, <2>2
<1>18. PICK x : x = NewMedia(s, got[1], Num(got[2]), Num(got[4]))
  OBVIOUS
<1>19. PICK a1, b1, c1, v, y, o, e, zero, e2 :
         /\ a1 = got[1] /\ b1 = Num(got[2]) /\ c1 = Num(got[4]) /\ v = s.ip /\ y = s.ttl /\ o = s.url
         /\ e = Len(s.media) /\ zero = 0 /\ e2 = << >>
  OBVIOUS
<1>20. x = [type |-> a1, port |-> b1, payload |-> c1, ip |-> v, ttl |-> y, url |-> o,
            path |-> e2, idx |-> e, name |-> e2, rate |-> zero, channels |-> zero, bitRate |-> zero,
            width |-> zero, height |-> zero, config |-> e2]
  BY <1>18, <1>19 DEF NewMedia
<1>21. /\ IsMedia(x) /\ x.url = o /\ x.type = a1 /\ x.payload = c1 /\ x.name = e2 /\ x.rate = zero
       /\ x.channels = zero /\ x.bitRate = zero /\ x.width = zero /\ x.height = zero
       /\ x.config = e2 /\ x.path = e2
  BY ONLY <1>20 DEF IsMedia
<1>22. Shows(x, m.type, m.payload, << << >>, 0, 0>>, 0, <<0, 0>>, << >>, << >>)
  BY <1>1, <1>2, <1>12, <1>19, <1>21 DEF Shows
<1>23. PICK r : r = Joined(s, x)
  OBVIOUS
<1>24. ParseSdpLine(s, line) = r
  <2>1. ParseSdpLine(s, line) = ParseMedia(s, t)
    BY <1>14 DEF ParseSdpLine, Skipped
  <2>2. ParseMedia(s, t) = Joined(Completed(s), x)
    BY <1>11, <1>12, <1>18 DEF ParseMedia, Completed, Joined
  <2> QED BY <1>16, <1>17, <1>23, <2>1, <2>2
<1>25. /\ IsSdp(r) /\ ~r.skip /\ r.url = s.url
       /\ Len(r.media) = Len(s.media) + 1
       /\ InMedia(r) /\ Media(r) = x
       /\ \A i \in 1 .. Len(s.media) : r.media[i] = s.media[i]
  BY <1>21, <1>23, NewIs
<1>26. Within(r, k, s.media)
  BY <1>25 DEF Within
<1>27. Runs(s, WriteMediaType(m), r)
  BY <1>15, <1>24, RunsOne
<1> QED BY <1>22, <1>25, <1>26, <1>27

\* A bit rate that is written loses what is below a thousand.
Told(b) == IF b > 0 THEN (b \div 1000) * 1000 ELSE 0

LEMMA RateAgain ==
  ASSUME NEW r, NEW k, NEW front, Within(r, k, front), NEW type, NEW payload, NEW enc, NEW size,
         NEW config, NEW path, Shows(Media(r), type, payload, enc, 0, size, config, path),
         NEW d, RateGood(d)
  PROVE  \E u : /\ Runs(r, IF d > 0 THEN << L("b", <<"AS", ":", Numeral(d \div 1000)>>) >> ELSE << >>, u)
                /\ Within(u, k, front) /\ Shows(Media(u), type, payload, enc, Told(d), size, config, path)
<1>2. CASE ~(d > 0)
  <2>1. Told(d) = 0
    BY <1>2 DEF Told
  <2> QED BY <1>2, <2>1, RunsNone
<1>3. CASE d > 0
  <2>1. PICK n, b : n = d \div 1000 /\ b = Told(d) /\ n \in Value /\ b = Thousand(n)
    BY <1>3 DEF RateGood, Told
  <2>2. PICK a, c, N : a = "AS" /\ c = ":" /\ N = Numeral(n)
    OBVIOUS
  <2>3. a \in Word /\ c \in Word /\ N \in Word /\ a # BLANK /\ a # c /\ N # BLANK
    <3>1. a \in Word /\ a # BLANK /\ a # c
      BY <2>2, WrittenWords
    <3>2. N \in Word /\ N # BLANK
      <4>1. n \in Value /\ N = Numeral(n)
        BY ONLY <2>1, <2>2
      <4>2. Numeral(n) \in Word /\ Numeral(n) \notin {BLANK, SEMICOLON, "/", ":", "=", "-"}
        BY ONLY <4>1, NumeralIs
      <4> QED BY ONLY <4>1, <4>2
    <3>3. c \in Word
      BY <2>2, Words
    <3> QED BY ONLY <3>1, <3>2, <3>3
  <2>4. PICK t : t = <<a, c, N>>
    OBVIOUS
  <2>5. t \in Text /\ Len(t) = 3 /\ t[1] = a /\ t[2] = c /\ t[3] = N
    BY <2>3, <2>4, Words3
  <2>6. PICK v : v = From(t, 3)
    OBVIOUS
  <2>7. Tagged(t, a, v) /\ v \in Text /\ Len(v) = Len(t) - 2 /\ \A i \in 1 .. Len(t) - 2 : v[i] = t[i + 2]
    <3>1. t \in Text /\ Len(t) >= 2 /\ t[1] = a /\ t[2] = ":" /\ v = From(t, 3)
      BY <2>2, <2>5, <2>6
    <3> QED BY ONLY <3>1, TagIs
  <2>8. Len(v) = 1 /\ v[1] = N
    <3>1. Len(t) - 2 = 1 /\ 1 \in 1 .. 1 /\ 1 + 2 = 3
      BY <2>5
    <3>2. v[1] = t[1 + 2]
      BY ONLY <2>7, <3>1
    <3> QED BY ONLY <2>5, <2>7, <3>1, <3>2
  <2>9. v = <<N>>
    <3>1. <<N>> \in Text /\ Len(<<N>>) = 1 /\ <<N>>[1] = N
      BY <2>3, OneWord
    <3>2. \A i \in 1 .. Len(v) : v[i] = <<N>>[i]
      BY <2>8, <3>1
    <3> QED BY <2>7, <2>8, <3>1, <3>2, SameText
  <2>10. Trim(v)
    BY <2>3, <2>9, WordTrim
  <2>11. Split(t, ":") = [key |-> <<a>>, val |-> v]
    BY <2>2, <2>3, <2>7, <2>10, AttrAt
  <2>12. PICK kv : kv = Split(t, ":")
    OBVIOUS
  <2>13. kv.key = <<"AS">> /\ kv.val = v /\ IsSplit(kv) /\ Num(v) = n
    <3>1. kv.key = <<a>> /\ kv.val = v
      BY ONLY <2>11, <2>12
    <3>2. <<a>> # << >> /\ v # << >>
      BY <2>3, <2>7, <2>8, OneWord, NoneIsEmpty
    <3>3. Num(v) = n
      BY <2>1, <2>2, <2>9, NumeralIs
    <3> QED BY <2>2, <3>1, <3>2, <3>3 DEF IsSplit
  <2>14. PICK line : line = L("b", t)
    OBVIOUS
  <2>15. line.letter = "b" /\ line.val = t
    BY <2>14 DEF L
  <2>16. PICK x, y : x = Media(r) /\ y = [x EXCEPT !.bitRate = b]
    OBVIOUS
  <2>17. Shows(y, type, payload, enc, b, size, config, path)
    <3>1. IsMedia(x)
      BY <2>16 DEF Shows
    <3>2. /\ IsMedia(y) /\ y.bitRate = b /\ y.url = x.url /\ y.type = x.type /\ y.payload = x.payload
          /\ y.name = x.name /\ y.rate = x.rate /\ y.channels = x.channels
          /\ y.width = x.width /\ y.height = x.height /\ y.config = x.config /\ y.path = x.path
      BY ONLY <2>16, <3>1 DEF IsMedia
    <3> QED BY <2>16, <3>2 DEF Shows
  <2>18. PICK u : u = SetMedia(r, y)
    OBVIOUS
  <2>19. ParseSdpLine(r, line) = u
    <3>1. ~r.skip /\ InMedia(r)
      BY DEF Within
    <3>2. ParseSdpLine(r, line) = ParseBitRate(r, t)
      BY <2>15, <3>1 DEF ParseSdpLine, Skipped
    <3>3. ParseBitRate(r, t) = SetMedia(r, [x EXCEPT !.bitRate = Thousand(n)])
      BY <2>12, <2>13, <2>16, <3>1 DEF ParseBitRate
    <3> QED BY <2>1, <2>16, <2>18, <3>2, <3>3
  <2>20. Within(u, k, front) /\ Media(u) = y
    BY <2>17, <2>18, WithinSet DEF Shows
  <2>21. Runs(r, <<line>>, u)
    BY <2>19, RunsOne
  <2> QED BY <1>3, <2>1, <2>2, <2>4, <2>14, <2>17, <2>20, <2>21
<1> QED BY <1>2, <1>3

\* An attribute goes where its name says.
LEMMA AttrRuns ==
  ASSUME NEW r, ~r.skip, NEW t, NEW a \in Word, a # BLANK, a # ":", NEW v, Tagged(t, a, v), Trim(v), v # << >>
  PROVE  Runs(r, << L("a", t) >>,
              CASE a = "control" -> ParseControl(r, v)
                [] a = "rtpmap" -> ParseRtpmap(r, v)
                [] a = "fmtp" -> ParseFmtp(r, v)
                [] a = "framesize" -> ParseFrameSize(r, v)
                [] OTHER -> r)
<1>1. PICK kv : kv = Split(t, ":")
  OBVIOUS
<1>2. kv = [key |-> <<a>>, val |-> v]
  BY <1>1, AttrAt
<1>3. kv.key = <<a>> /\ kv.val = v
  BY ONLY <1>2
<1>4. IsSplit(kv)
  <2>1. <<a>> # << >>
    BY OneWord
  <2> QED BY <1>3, <2>1 DEF IsSplit
<1>5. \A b : <<a>> = <<b>> <=> a = b
  <2>1. ASSUME NEW b PROVE <<a>> = <<b>> <=> a = b
    <3>1. PICK p, q : p = <<a>> /\ q = <<b>>
      OBVIOUS
    <3>2. p[1] = a /\ q[1] = b
      BY <3>1
    <3> QED BY <3>1, <3>2
  <2> QED BY <2>1
<1>6. PICK c, m, f, z : /\ c = ParseControl(r, v) /\ m = ParseRtpmap(r, v)
                        /\ f = ParseFmtp(r, v) /\ z = ParseFrameSize(r, v)
  OBVIOUS
<1>7. ParseAttr(r, t) = CASE a = "control" -> c
                          [] a = "rtpmap" -> m
                          [] a = "fmtp" -> f
                          [] a = "framesize" -> z
                          [] OTHER -> r
  <2>1. ParseAttr(r, t) = CASE kv.key = <<"control">> -> c
                            [] kv.key = <<"rtpmap">> -> m
                            [] kv.key = <<"fmtp">> -> f
                            [] kv.key = <<"framesize">> -> z
                            [] OTHER -> r
    BY <1>1, <1>3, <1>4, <1>6 DEF ParseAttr
  <2>2. /\ (kv.key = <<"control">>) <=> (a = "control")
        /\ (kv.key = <<"rtpmap">>) <=> (a = "rtpmap")
        /\ (kv.key = <<"fmtp">>) <=> (a = "fmtp")
        /\ (kv.key = <<"framesize">>) <=> (a = "framesize")
    BY ONLY <1>3, <1>5
  <2> QED BY ONLY <2>1, <2>2
<1>8. PICK line : line = L("a", t)
  OBVIOUS
<1>9. line.letter = "a" /\ line.val = t
  BY <1>8 DEF L
<1>10. ParseSdpLine(r, line) = ParseAttr(r, t)
  BY <1>9 DEF ParseSdpLine, Skipped
<1>11. Runs(r, <<line>>, ParseAttr(r, t))
  BY <1>10, RunsOne
<1> QED BY <1>6, <1>7, <1>8, <1>11

\* The formats are those of the last media.
LEMMA ConcernsAgain ==
  ASSUME NEW r, NEW k, NEW front, Within(r, k, front), NEW n \in Value, Media(r).payload = n
  PROVE  Concerns(r, <<Numeral(n)>>)
<1>1. IsNum(<<Numeral(n)>>) /\ Num(<<Numeral(n)>>) = n
  BY NumeralIs
<1> QED BY <1>1 DEF Concerns, Within

LEMMA SizeAgain ==
  ASSUME NEW r, NEW k, NEW front, Within(r, k, front), NEW type, NEW n \in Value, NEW enc, NEW b,
         NEW config, NEW path, Shows(Media(r), type, n, enc, b, <<0, 0>>, config, path),
         NEW w \in Value, NEW h \in Value
  PROVE  \E u : /\ Runs(r, << L("a", <<"framesize", ":", Numeral(n), BLANK, Numeral(w), "-", Numeral(h)>>) >>, u)
                /\ Within(u, k, front) /\ Shows(Media(u), type, n, enc, b, <<w, h>>, config, path)
<1>1. PICK a, c, bl, d, N, W, H : /\ a = "framesize" /\ c = ":" /\ bl = BLANK /\ d = "-"
                                  /\ N = Numeral(n) /\ W = Numeral(w) /\ H = Numeral(h)
  OBVIOUS
<1>2. /\ a \in Word /\ c \in Word /\ bl \in Word /\ d \in Word /\ N \in Word /\ W \in Word /\ H \in Word
      /\ a # bl /\ a # c /\ N # bl /\ N # d /\ W # bl /\ W # d /\ H # bl /\ H # d /\ bl # d
      /\ bl \in Word \ {"end"} /\ d \in Word \ {"end"}
  BY <1>1, WrittenWords, NumeralIs, Words, DelimWords
<1>3. PICK t : t = <<a, c, N, bl, W, d, H>>
  OBVIOUS
<1>4. /\ t \in Text /\ Len(t) = 7 /\ t[1] = a /\ t[2] = c /\ t[3] = N /\ t[4] = bl /\ t[5] = W
      /\ t[6] = d /\ t[7] = H
  BY <1>2, <1>3, Words7
<1>5. PICK v : v = From(t, 3)
  OBVIOUS
<1>6. Tagged(t, a, v) /\ v \in Text /\ Len(v) = Len(t) - 2 /\ \A i \in 1 .. Len(t) - 2 : v[i] = t[i + 2]
  <2>1. t \in Text /\ Len(t) >= 2 /\ t[1] = a /\ t[2] = ":" /\ v = From(t, 3)
    BY <1>1, <1>4, <1>5
  <2> QED BY ONLY <2>1, TagIs
<1>7. Len(v) = 5 /\ v[1] = N /\ v[2] = bl /\ v[3] = W /\ v[4] = d /\ v[5] = H
  <2>1. Len(v) = 5 /\ \A i \in 1 .. 5 : v[i] = t[i + 2]
    BY <1>4, <1>6
  <2>2. v[1] = t[1 + 2] /\ v[2] = t[2 + 2] /\ v[3] = t[3 + 2] /\ v[4] = t[4 + 2] /\ v[5] = t[5 + 2]
    BY ONLY <2>1
  <2>3. 1 + 2 = 3 /\ 2 + 2 = 4 /\ 3 + 2 = 5 /\ 4 + 2 = 6 /\ 5 + 2 = 7
    OBVIOUS
  <2> QED BY ONLY <1>4, <2>1, <2>2, <2>3
<1>8. Trim(v) /\ v # << >>
  <2>1. v[1] # BLANK /\ v[Len(v)] # BLANK
    BY ONLY <1>1, <1>2, <1>7
  <2>2. Len(v) # 0
    BY ONLY <1>7
  <2>3. v # << >>
    BY ONLY <1>6, <2>2, NoneIsEmpty
  <2> QED BY ONLY <1>6, <2>1, <2>3 DEF Trim
<1>9. TokenAt(v, 1, 1, 2, bl) /\ TokenAt(v, 2, 2, 4, d) /\ TokenAt(v, 4, 5, 6, d)
  <2>1. TokenAt(v, 1, 1, 2, bl)
    BY <1>2, <1>7 DEF TokenAt
  <2>2. TokenAt(v, 2, 2, 4, d)
    <3>1. \A i \in 2 .. 4 - 1 : i = 2 \/ i = 3
      OBVIOUS
    <3>2. \A i \in 2 .. 4 - 1 : v[i] # d
      BY <1>2, <1>7, <3>1
    <3> QED BY <1>7, <3>2 DEF TokenAt
  <2>3. TokenAt(v, 4, 5, 6, d)
    BY <1>2, <1>7 DEF TokenAt
  <2> QED BY <2>1, <2>2, <2>3
<1>10. PICK p1, p2, p3, rest : p1 = Piece(v, 1, 2) /\ p2 = Piece(v, 2, 4) /\ p3 = Piece(v, 5, 6) /\ rest = From(v, 6)
  OBVIOUS
<1>11. Take(v, <<bl, d, d>>) = [got |-> <<p1, p2, p3>>, rest |-> rest]
  BY <1>2, <1>6, <1>9, <1>10, Take3At
<1>12. p1 = <<N>> /\ p3 = <<H>>
  <2>1. 1 \in 1 .. Len(v) /\ 5 \in 1 .. Len(v) /\ 1 + 1 = 2 /\ 5 + 1 = 6 /\ v[1] # BLANK /\ v[5] # BLANK
    BY <1>1, <1>2, <1>7
  <2>2. Piece(v, 1, 1 + 1) = <<v[1]>> /\ Piece(v, 5, 5 + 1) = <<v[5]>>
    BY <1>6, <2>1, WordPiece
  <2> QED BY <1>7, <1>10, <2>1, <2>2
<1>13. p2 = <<W>>
  <2>1. PICK o, q : o = 2 /\ q = <<W>>
    OBVIOUS
  <2>2. Trim(q) /\ Len(q) = 1 /\ q[1] = W
    BY <1>1, <1>2, <2>1, WordTrim, OneWord
  <2>3. o \in 1 .. Len(v) /\ o + Len(q) <= Len(v) /\ v[o] = BLANK /\ o + Len(q) + 1 = 4
    BY <1>1, <1>7, <2>1, <2>2
  <2>4. \A i \in 1 .. Len(q) : v[o + i] = q[i]
    <3>1. \A i \in 1 .. Len(q) : i = 1 /\ o + i = 3
      BY <2>1, <2>2
    <3> QED BY <1>7, <2>2, <3>1
  <2>5. Piece(v, o, o + Len(q) + 1) = q
    BY <1>6, <2>2, <2>3, <2>4, BlankPiece
  <2> QED BY <1>10, <2>1, <2>3, <2>5
<1>14. PICK got : got = <<p1, p2, p3>>
  OBVIOUS
<1>15. Take(v, <<BLANK, "-", "-">>).got = got
  <2>1. Take(v, <<bl, d, d>>).got = <<p1, p2, p3>>
    BY ONLY <1>11
  <2> QED BY ONLY <1>1, <1>14, <2>1
<1>16. got[1] = <<N>> /\ got[2] = <<W>> /\ got[3] = <<H>>
  BY <1>12, <1>13, <1>14
<1>17. PICK x, y, o : x = Media(r) /\ o = [x EXCEPT !.width = w] /\ y = [o EXCEPT !.height = h]
  OBVIOUS
<1>18. Shows(y, type, n, enc, b, <<w, h>>, config, path)
  <2>1. IsMedia(x)
    BY <1>17 DEF Shows
  <2>2. /\ IsMedia(o) /\ o.width = w /\ o.url = x.url /\ o.type = x.type /\ o.payload = x.payload
        /\ o.name = x.name /\ o.rate = x.rate /\ o.channels = x.channels
        /\ o.bitRate = x.bitRate /\ o.config = x.config /\ o.path = x.path
    BY ONLY <1>17, <2>1 DEF IsMedia
  <2>3. /\ IsMedia(y) /\ y.height = h /\ y.width = o.width /\ y.url = o.url /\ y.type = o.type
        /\ y.payload = o.payload
        /\ y.name = o.name /\ y.rate = o.rate /\ y.channels = o.channels
        /\ y.bitRate = o.bitRate /\ y.config = o.config /\ y.path = o.path
    BY ONLY <1>17, <2>2 DEF IsMedia
  <2> QED BY <1>17, <2>2, <2>3 DEF Shows
<1>19. PICK u : u = SetMedia(r, y)
  OBVIOUS
<1>20. ParseFrameSize(r, v) = u
  <2>1. Concerns(r, got[1])
    BY <1>1, <1>16, ConcernsAgain DEF Shows
  <2>2. IsNum(got[2]) /\ Num(got[2]) = w /\ Num(got[3]) = h
    BY <1>1, <1>16, NumeralIs
  <2>3. ParseFrameSize(r, v) = SetMedia(r, [x EXCEPT !.width = w, !.height = h])
    BY <1>15, <1>17, <2>1, <2>2 DEF ParseFrameSize
  <2>4. [x EXCEPT !.width = w, !.height = h] = y
    <3>1. IsMedia(x)
      BY <1>17 DEF Shows
    <3> QED BY ONLY <1>17, <3>1 DEF IsMedia
  <2> QED BY <1>19, <2>3, <2>4
<1>21. Within(u, k, front) /\ Media(u) = y
  BY <1>18, <1>19, WithinSet DEF Shows
<1>22. Runs(r, << L("a", t) >>, u)
  <2>1. ~r.skip
    BY DEF Within
  <2>2. PICK res : res = CASE a = "control" -> ParseControl(r, v)
                           [] a = "rtpmap" -> ParseRtpmap(r, v)
                           [] a = "fmtp" -> ParseFmtp(r, v)
                           [] a = "framesize" -> ParseFrameSize(r, v)
                           [] OTHER -> r
    OBVIOUS
  <2>3. Runs(r, << L("a", t) >>, res)
    BY <1>1, <1>2, <1>6, <1>8, <2>1, <2>2, AttrRuns
  <2>4. res = u
    BY <1>1, <1>20, <2>2
  <2> QED BY <2>3, <2>4
<1> QED BY <1>1, <1>3, <1>18, <1>21, <1>22

\* The text of an encoding, behind its name.
LEMMA MapText ==
  ASSUME NEW n \in Value, NEW r \in Value, NEW c \in Value, NEW one \in 0 .. 1, NEW name \in Text,
         NEW t, t = (IF one = 1
                     THEN <<"rtpmap", ":", Numeral(n), BLANK>> \o name \o <<"/", Numeral(r)>> \o <<"/", Numeral(c)>>
                     ELSE <<"rtpmap", ":", Numeral(n), BLANK>> \o name \o <<"/", Numeral(r)>>)
  PROVE  Tagged(t, "rtpmap", From(t, 3)) /\ Mapped(From(t, 3), n, name, r, one, c)
<1>1. PICK a, o, bl, s, N, R, C : /\ a = "rtpmap" /\ o = ":" /\ bl = BLANK /\ s = "/"
                                  /\ N = Numeral(n) /\ R = Numeral(r) /\ C = Numeral(c)
  OBVIOUS
<1>2. a \in Word /\ o \in Word /\ bl \in Word /\ s \in Word /\ N \in Word /\ R \in Word /\ C \in Word
  BY <1>1, WrittenWords, NumeralIs, Words
<1>3. PICK h, g, e, f : h = <<a, o, N, bl>> /\ g = h \o name /\ e = <<s, R>> /\ f = <<s, C>>
  OBVIOUS
<1>4. PICK p : p = g \o e
  OBVIOUS
<1>5. t = IF one = 1 THEN p \o f ELSE p
  BY ONLY <1>1, <1>3, <1>4, t = (IF one = 1
                     THEN <<"rtpmap", ":", Numeral(n), BLANK>> \o name \o <<"/", Numeral(r)>> \o <<"/", Numeral(c)>>
                     ELSE <<"rtpmap", ":", Numeral(n), BLANK>> \o name \o <<"/", Numeral(r)>>)
<1>6. h \in Text /\ Len(h) = 4 /\ h[1] = a /\ h[2] = o /\ h[3] = N /\ h[4] = bl
  BY <1>2, <1>3, Words4
<1>7. e \in Text /\ Len(e) = 2 /\ e[1] = s /\ e[2] = R /\ f \in Text /\ Len(f) = 2 /\ f[1] = s /\ f[2] = C
  BY <1>2, <1>3, Words2
<1>8. PICK l : l = Len(name) /\ l \in Nat
  BY TextIs
<1>9. /\ g \in Text /\ Len(g) = 4 + l /\ (\A i \in 1 .. 4 : g[i] = h[i]) /\ \A i \in 1 .. l : g[4 + i] = name[i]
  <2>1. /\ h \o name \in Text /\ Len(h \o name) = Len(h) + Len(name)
        /\ \A i \in 1 .. Len(h) : (h \o name)[i] = h[i]
        /\ \A i \in 1 .. Len(name) : (h \o name)[Len(h) + i] = name[i]
    BY <1>6, BothAre
  <2> QED BY ONLY <1>3, <1>6, <1>8, <2>1
<1>10. /\ p \in Text /\ Len(p) = 6 + l /\ (\A i \in 1 .. 4 + l : p[i] = g[i])
       /\ p[4 + l + 1] = s /\ p[4 + l + 2] = R
  <2>1. /\ g \o e \in Text /\ Len(g \o e) = Len(g) + Len(e)
        /\ \A i \in 1 .. Len(g) : (g \o e)[i] = g[i]
        /\ \A i \in 1 .. Len(e) : (g \o e)[Len(g) + i] = e[i]
    BY <1>7, <1>9, BothAre
  <2>2. p \in Text /\ Len(p) = 4 + l + 2 /\ (\A i \in 1 .. 4 + l : p[i] = g[i])
        /\ \A i \in 1 .. 2 : p[4 + l + i] = e[i]
    BY ONLY <1>4, <1>7, <1>9, <2>1
  <2>3. 4 + l + 2 = 6 + l
    BY <1>8
  <2> QED BY <1>7, <2>2, <2>3
<1>11. /\ t \in Text /\ Len(t) = 6 + l + 2 * one /\ (\A i \in 1 .. 6 + l : t[i] = p[i])
       /\ one = 1 => t[6 + l + 1] = s /\ t[6 + l + 2] = C
  <2>1. CASE one = 1
    <3>1. /\ p \o f \in Text /\ Len(p \o f) = Len(p) + Len(f)
          /\ \A i \in 1 .. Len(p) : (p \o f)[i] = p[i]
          /\ \A i \in 1 .. Len(f) : (p \o f)[Len(p) + i] = f[i]
      BY <1>7, <1>10, BothAre
    <3>2. t = p \o f
      BY ONLY <1>5, <2>1
    <3>3. t \in Text /\ Len(t) = 6 + l + 2 /\ (\A i \in 1 .. 6 + l : t[i] = p[i])
          /\ \A i \in 1 .. 2 : t[6 + l + i] = f[i]
      BY ONLY <1>7, <1>10, <3>1, <3>2
    <3>4. t[6 + l + 1] = f[1] /\ t[6 + l + 2] = f[2] /\ 2 * one = 2
      <4>1. 1 \in 1 .. 2 /\ 2 \in 1 .. 2 /\ 2 * one = 2
        BY <2>1
      <4> QED BY ONLY <3>3, <4>1
    <3> QED BY ONLY <1>7, <3>3, <3>4
  <2>2. CASE one # 1
    <3>1. t = p
      BY ONLY <1>5, <2>2
    <3>2. one = 0 /\ 6 + l + 2 * one = 6 + l
      BY <1>8, <2>2
    <3> QED BY ONLY <1>10, <2>2, <3>1, <3>2
  <2> QED BY <2>1, <2>2
<1>12. PICK v : v = From(t, 3)
  OBVIOUS
<1>13. /\ t[1] = a /\ t[2] = o /\ t[3] = N /\ t[4] = bl
       /\ \A i \in 1 .. l : t[4 + i] = name[i]
       /\ t[l + 5] = s /\ t[l + 6] = R
       /\ one = 1 => t[l + 7] = s /\ t[l + 8] = C
  <2>1. /\ 1 \in 1 .. 4 + l /\ 2 \in 1 .. 4 + l /\ 3 \in 1 .. 4 + l /\ 4 \in 1 .. 4 + l
        /\ 1 \in 1 .. 4 /\ 2 \in 1 .. 4 /\ 3 \in 1 .. 4 /\ 4 \in 1 .. 4
        /\ (\A i \in 1 .. 4 + l : i \in 1 .. 6 + l)
        /\ (\A i \in 1 .. l : 4 + i \in 1 .. 4 + l)
        /\ 4 + l + 1 \in 1 .. 6 + l /\ 4 + l + 2 \in 1 .. 6 + l
        /\ 4 + l + 1 = l + 5 /\ 4 + l + 2 = l + 6 /\ 6 + l + 1 = l + 7 /\ 6 + l + 2 = l + 8
    BY <1>8
  <2>2. \A i \in 1 .. 4 + l : t[i] = g[i]
    BY ONLY <1>10, <1>11, <2>1
  <2>3. t[1] = a /\ t[2] = o /\ t[3] = N /\ t[4] = bl
    BY ONLY <1>6, <1>9, <2>1, <2>2
  <2>4. \A i \in 1 .. l : t[4 + i] = name[i]
    BY ONLY <1>9, <2>1, <2>2
  <2>5. t[l + 5] = s /\ t[l + 6] = R
    BY ONLY <1>10, <1>11, <2>1
  <2>6. one = 1 => t[l + 7] = s /\ t[l + 8] = C
    BY ONLY <1>11, <2>1
  <2> QED BY ONLY <2>3, <2>4, <2>5, <2>6
<1>14. Tagged(t, a, v) /\ v \in Text /\ Len(v) = Len(t) - 2 /\ \A i \in 1 .. Len(t) - 2 : v[i] = t[i + 2]
  <2>1. t \in Text /\ Len(t) >= 2 /\ t[1] = a /\ t[2] = ":" /\ v = From(t, 3)
    BY <1>1, <1>8, <1>11, <1>12, <1>13
  <2> QED BY ONLY <2>1, TagIs
<1>15. /\ v \in Text /\ Len(v) = l + 4 + 2 * one
       /\ v[1] = N /\ v[2] = bl
       /\ \A i \in 1 .. l : v[2 + i] = name[i]
       /\ v[l + 3] = s /\ v[l + 4] = R
       /\ one = 1 => v[l + 5] = s /\ v[l + 6] = C
  <2>1. PICK z : z = l + 4 + 2 * one
    OBVIOUS
  <2>2. /\ z = Len(t) - 2 /\ 1 \in 1 .. z /\ 2 \in 1 .. z /\ (\A i \in 1 .. l : 2 + i \in 1 .. z /\ 2 + i + 2 = 4 + i)
        /\ l + 3 \in 1 .. z /\ l + 4 \in 1 .. z /\ (one = 1 => l + 5 \in 1 .. z /\ l + 6 \in 1 .. z)
        /\ 1 + 2 = 3 /\ 2 + 2 = 4 /\ l + 3 + 2 = l + 5 /\ l + 4 + 2 = l + 6 /\ l + 5 + 2 = l + 7 /\ l + 6 + 2 = l + 8
    BY <1>8, <1>11, <2>1
  <2>3. \A i \in 1 .. z : v[i] = t[i + 2]
    BY ONLY <1>14, <2>2
  <2>4. v[1] = t[3] /\ v[2] = t[4]
    BY ONLY <2>2, <2>3
  <2>5. \A i \in 1 .. l : v[2 + i] = t[4 + i]
    BY ONLY <2>2, <2>3
  <2>6. v[l + 3] = t[l + 5] /\ v[l + 4] = t[l + 6]
    BY ONLY <2>2, <2>3
  <2>7. one = 1 => v[l + 5] = t[l + 7] /\ v[l + 6] = t[l + 8]
    BY ONLY <2>2, <2>3
  <2> QED BY ONLY <1>13, <1>14, <2>1, <2>2, <2>4, <2>5, <2>6, <2>7
<1>16. Mapped(v, n, name, r, one, c)
  BY <1>1, <1>8, <1>15 DEF Mapped
<1> QED BY <1>1, <1>12, <1>14, <1>16

LEMMA MappedTrim ==
  ASSUME NEW n \in Value, NEW r \in Value, NEW c \in Value, NEW one \in 0 .. 1, NEW name \in Text,
         NEW v, Mapped(v, n, name, r, one, c)
  PROVE  Trim(v) /\ v # << >>
<1>1. PICK l : l = Len(name) /\ l \in Nat
  BY TextIs
<1>2. PICK z : z = l + 4 + 2 * one
  OBVIOUS
<1>3. /\ v \in Text /\ Len(v) = z /\ v[1] = Numeral(n) /\ v[l + 4] = Numeral(r)
      /\ one = 1 => v[l + 6] = Numeral(c)
  BY <1>1, <1>2 DEF Mapped
<1>4. Numeral(n) # BLANK /\ Numeral(r) # BLANK /\ Numeral(c) # BLANK
  BY NumeralIs
<1>5. z # 0 /\ (one = 1 => z = l + 6) /\ (one # 1 => z = l + 4)
  BY <1>1, <1>2
<1>6. v[1] # BLANK /\ v[Len(v)] # BLANK
  BY ONLY <1>3, <1>4, <1>5
<1>7. v # << >>
  BY <1>3, <1>5, NoneIsEmpty
<1> QED BY ONLY <1>3, <1>6, <1>7 DEF Trim

LEMMA MapAgain ==
  ASSUME NEW r, NEW k, NEW front, Within(r, k, front), NEW w \in {"audio", "video"}, NEW type, type = <<w>>,
         NEW n \in Value, NEW b, NEW size, NEW config, NEW path,
         Shows(Media(r), type, n, << << >>, 0, 0>>, b, size, config, path),
         NEW name, NEW rate, NEW channels, EncodingGood(type, name, rate, channels),
         NEW one \in 0 .. 1, one = (IF w = "audio" THEN 1 ELSE 0),
         NEW t, NEW v, Tagged(t, "rtpmap", v), Mapped(v, n, name, rate, one, channels)
  PROVE  \E u : /\ Runs(r, << L("a", t) >>, u)
                /\ Within(u, k, front) /\ Shows(Media(u), type, n, <<name, rate, channels>>, b, size, config, path)
<1>1. /\ Trim(name) /\ name \in Text /\ Without(name, "/") /\ rate \in Value /\ channels \in Value
      /\ rate \in Nat /\ channels \in Nat
  BY DEF EncodingGood, Trim
<1>3. Tagged(t, "rtpmap", v) /\ Mapped(v, n, name, rate, one, channels)
  OBVIOUS
<1>4. Trim(v) /\ v # << >>
  BY <1>1, <1>3, MappedTrim
<1>5. PICK got : got = Take(v, <<BLANK, "/", "/", "/">>).got
  OBVIOUS
<1>6. PICK N, R, C : N = <<Numeral(n)>> /\ R = <<Numeral(rate)>>
                     /\ C = IF one = 1 THEN <<Numeral(channels)>> ELSE << >>
  OBVIOUS
<1>7. got[1] = N /\ got[2] = name /\ got[3] = R /\ got[4] = C
  <2>1. /\ got[1] = <<Numeral(n)>> /\ got[2] = name /\ got[3] = <<Numeral(rate)>>
        /\ got[4] = IF one = 1 THEN <<Numeral(channels)>> ELSE << >>
    <3>1. /\ n \in Value /\ rate \in Value /\ channels \in Value /\ one \in 0 .. 1
          /\ Trim(name) /\ Without(name, "/") /\ Mapped(v, n, name, rate, one, channels)
      BY <1>1, <1>3
    <3> QED BY ONLY <1>5, <3>1, EncodingAgain
  <2> QED BY ONLY <1>6, <2>1
<1>8. PICK x : x = Media(r) /\ IsMedia(x)
  BY DEF Shows
<1>9. Concerns(r, N)
  BY <1>6, ConcernsAgain DEF Shows
<1>10. IsNum(R) /\ Num(R) = rate /\ (one = 1 => IsNum(C) /\ Num(C) = channels)
  BY <1>1, <1>6, NumeralIs
<1>11. PICK res : res = ParseRtpmap(r, v)
  OBVIOUS
<1>12. res = IF name # << >> THEN SetMedia(r, Rated([x EXCEPT !.name = name], R, C)) ELSE r
  BY <1>5, <1>7, <1>8, <1>9, <1>11 DEF ParseRtpmap
<1>13. Runs(r, << L("a", t) >>, res)
  <2>1. PICK a : a = "rtpmap"
    OBVIOUS
  <2>2. a \in Word /\ a # BLANK /\ a # ":" /\ Tagged(t, a, v) /\ ~r.skip
    BY <1>3, <2>1, WrittenWords DEF Within
  <2>3. PICK d : d = CASE a = "control" -> ParseControl(r, v)
                       [] a = "rtpmap" -> ParseRtpmap(r, v)
                       [] a = "fmtp" -> ParseFmtp(r, v)
                       [] a = "framesize" -> ParseFrameSize(r, v)
                       [] OTHER -> r
    OBVIOUS
  <2>4. Runs(r, << L("a", t) >>, d)
    BY <1>4, <2>2, <2>3, AttrRuns
  <2>5. d = res
    BY <1>11, <2>1, <2>3
  <2> QED BY <2>4, <2>5
<1>14. CASE name = << >>
  <2>1. rate = 0 /\ channels = 0
    BY <1>14 DEF EncodingGood
  <2> QED BY <1>12, <1>13, <1>14, <2>1
<1>15. CASE name # << >>
  <2>1. PICK o : o = [x EXCEPT !.name = name]
    OBVIOUS
  <2>2. /\ IsMedia(o) /\ o.name = name /\ o.url = x.url /\ o.type = x.type /\ o.payload = x.payload
        /\ o.rate = x.rate /\ o.channels = x.channels
        /\ o.bitRate = x.bitRate /\ o.width = x.width /\ o.height = x.height
        /\ o.config = x.config /\ o.path = x.path
    BY ONLY <1>8, <2>1 DEF IsMedia
  <2>3. x.type = type /\ x.rate = 0 /\ x.channels = 0
    BY <1>8 DEF Shows
  <2>4. PICK y : y = Rated(o, R, C)
    OBVIOUS
  <2>5. /\ IsMedia(y) /\ y.rate = rate /\ y.channels = channels /\ y.name = o.name /\ y.url = o.url
        /\ y.type = o.type /\ y.payload = o.payload
        /\ y.bitRate = o.bitRate /\ y.width = o.width /\ y.height = o.height
        /\ y.config = o.config /\ y.path = o.path
    <3>1. CASE w = "audio"
      <4>1. type = <<"audio">> /\ one = 1
        BY <3>1
      <4>2. rate > 0 /\ channels > 0
        BY <1>15, <4>1 DEF EncodingGood
      <4>3. /\ OrDefault(R, DEFAULT_SAMPLERATE) = rate
            /\ OrDefault(IF IsNum(R) THEN C ELSE << >>, DEFAULT_CHANNELS) = channels
        BY <1>10, <4>1, <4>2 DEF OrDefault
      <4>4. PICK e : e = [o EXCEPT !.rate = rate]
        OBVIOUS
      <4>5. y = [o EXCEPT !.rate = rate, !.channels = channels]
        <5>1. PICK a, c : /\ a = OrDefault(R, DEFAULT_SAMPLERATE)
                          /\ c = OrDefault(IF IsNum(R) THEN C ELSE << >>, DEFAULT_CHANNELS)
          OBVIOUS
        <5>2. o.type = <<"audio">>
          BY <2>2, <2>3, <4>1
        <5>3. y = [o EXCEPT !.rate = a, !.channels = c]
          BY ONLY <2>4, <5>1, <5>2 DEF Rated
        <5> QED BY ONLY <4>3, <5>1, <5>3
      <4>6. y = [e EXCEPT !.channels = channels]
        BY ONLY <2>2, <4>4, <4>5 DEF IsMedia
      <4>7. /\ IsMedia(e) /\ e.rate = rate /\ e.name = o.name /\ e.url = o.url
            /\ e.type = o.type /\ e.payload = o.payload
            /\ e.bitRate = o.bitRate /\ e.width = o.width /\ e.height = o.height
            /\ e.config = o.config /\ e.path = o.path
        BY ONLY <2>2, <4>4 DEF IsMedia
      <4>8. /\ IsMedia(y) /\ y.channels = channels /\ y.rate = e.rate /\ y.name = e.name /\ y.url = e.url
            /\ y.type = e.type /\ y.payload = e.payload
            /\ y.bitRate = e.bitRate /\ y.width = e.width /\ y.height = e.height
            /\ y.config = e.config /\ y.path = e.path
        BY ONLY <4>6, <4>7 DEF IsMedia
      <4> QED BY ONLY <4>7, <4>8
    <3>2. CASE w = "video"
      <4>1. type = <<"video">> /\ <<"video">> # <<"audio">> /\ type # <<"audio">>
        <5>1. PICK p, q : p = <<"video">> /\ q = <<"audio">>
          OBVIOUS
        <5>2. p[1] # q[1]
          BY <5>1
        <5> QED BY <3>2, <5>1, <5>2
      <4>2. channels = 0
        BY <4>1 DEF EncodingGood
      <4>3. OrDefault(R, o.rate) = rate
        BY <1>1, <1>10, <2>2, <2>3 DEF OrDefault
      <4>4. y = [o EXCEPT !.rate = OrDefault(R, o.rate)]
        BY <2>2, <2>3, <2>4, <4>1 DEF Rated
      <4>5. y = [o EXCEPT !.rate = rate]
        BY ONLY <4>3, <4>4
      <4>6. /\ IsMedia(y) /\ y.rate = rate /\ y.channels = o.channels /\ y.name = o.name /\ y.url = o.url
            /\ y.type = o.type /\ y.payload = o.payload
            /\ y.bitRate = o.bitRate /\ y.width = o.width /\ y.height = o.height
            /\ y.config = o.config /\ y.path = o.path
        BY ONLY <2>2, <4>5 DEF IsMedia
      <4>7. o.channels = channels
        BY ONLY <2>2, <2>3, <4>2
      <4> QED BY ONLY <4>6, <4>7
    <3> QED BY <3>1, <3>2
  <2>6. Shows(y, type, n, <<name, rate, channels>>, b, size, config, path)
    <3>1. /\ x.url = << >>
          /\ x.type = type /\ x.payload = n /\ x.bitRate = b
          /\ size = <<x.width, x.height>> /\ x.config = config /\ x.path = path
      BY <1>8 DEF Shows
    <3> QED BY ONLY <2>2, <2>5, <3>1 DEF Shows
  <2>7. res = SetMedia(r, y)
    BY ONLY <1>12, <1>15, <2>1, <2>4
  <2>8. Within(res, k, front) /\ Media(res) = y
    BY <2>5, <2>7, WithinSet
  <2> QED BY <1>13, <2>6, <2>8
<1> QED BY <1>14, <1>15

LEMMA FmtpAgain ==
  ASSUME NEW r, NEW k, NEW front, Within(r, k, front), NEW type, NEW n \in Value, NEW enc, NEW b, NEW size,
         NEW path, Shows(Media(r), type, n, enc, b, size, << >>, path),
         NEW config, IsConfig(config), config # << >>
  PROVE  \E u : /\ Runs(r, << L("a", <<"fmtp", ":", Numeral(n), BLANK>> \o config) >>, u)
                /\ Within(u, k, front) /\ Shows(Media(u), type, n, enc, b, size, config, path)
<1>1. PICK a, o, bl, N : a = "fmtp" /\ o = ":" /\ bl = BLANK /\ N = Numeral(n)
  OBVIOUS
<1>2. /\ a \in Word /\ o \in Word /\ bl \in Word /\ N \in Word /\ a # bl /\ a # o /\ N # bl
      /\ bl \in Word \ {"end"}
  BY <1>1, WrittenWords, NumeralIs, Words, DelimWords
<1>3. PICK l : l = Len(config) /\ l \in Nat /\ l > 0 /\ config[l] # BLANK /\ config \in Text
  BY ConfigTrim
<1>4. PICK h, t : h = <<a, o, N, bl>> /\ t = h \o config
  OBVIOUS
<1>5. h \in Text /\ Len(h) = 4 /\ h[1] = a /\ h[2] = o /\ h[3] = N /\ h[4] = bl
  BY <1>2, <1>4, Words4
<1>6. /\ t \in Text /\ Len(t) = 4 + l /\ (\A i \in 1 .. 4 : t[i] = h[i])
      /\ \A i \in 1 .. l : t[4 + i] = config[i]
  <2>1. /\ h \o config \in Text /\ Len(h \o config) = Len(h) + Len(config)
        /\ \A i \in 1 .. Len(h) : (h \o config)[i] = h[i]
        /\ \A i \in 1 .. Len(config) : (h \o config)[Len(h) + i] = config[i]
    BY <1>3, <1>5, BothAre
  <2> QED BY ONLY <1>3, <1>4, <1>5, <2>1
<1>7. t[1] = a /\ t[2] = o /\ t[3] = N /\ t[4] = bl
  <2>1. 1 \in 1 .. 4 /\ 2 \in 1 .. 4 /\ 3 \in 1 .. 4 /\ 4 \in 1 .. 4
    OBVIOUS
  <2> QED BY ONLY <1>5, <1>6, <2>1
<1>8. PICK v : v = From(t, 3)
  OBVIOUS
<1>9. Tagged(t, a, v) /\ v \in Text /\ Len(v) = Len(t) - 2 /\ \A i \in 1 .. Len(t) - 2 : v[i] = t[i + 2]
  <2>1. t \in Text /\ Len(t) >= 2 /\ t[1] = a /\ t[2] = ":" /\ v = From(t, 3)
    BY <1>1, <1>3, <1>6, <1>7, <1>8
  <2> QED BY ONLY <2>1, TagIs
<1>10. Len(v) = l + 2 /\ v[1] = N /\ v[2] = bl /\ \A i \in 1 .. l : v[i + 2] = config[i]
  <2>1. /\ Len(t) - 2 = l + 2 /\ 1 \in 1 .. l + 2 /\ 2 \in 1 .. l + 2 /\ 1 + 2 = 3 /\ 2 + 2 = 4
        /\ \A i \in 1 .. l : i + 2 \in 1 .. l + 2 /\ i + 2 + 2 = 4 + i
    BY <1>3, <1>6
  <2>2. \A i \in 1 .. l + 2 : v[i] = t[i + 2]
    BY ONLY <1>9, <2>1
  <2>3. v[1] = t[3] /\ v[2] = t[4]
    BY ONLY <2>1, <2>2
  <2>4. \A i \in 1 .. l : v[i + 2] = t[4 + i]
    BY ONLY <2>1, <2>2
  <2> QED BY ONLY <1>6, <1>7, <1>9, <2>1, <2>3, <2>4
<1>11. Trim(v) /\ v # << >>
  <2>1. l \in 1 .. l /\ l + 2 # 0
    BY <1>3
  <2>2. v[l + 2] = config[l]
    BY ONLY <1>10, <2>1
  <2>3. v[1] # BLANK /\ v[Len(v)] # BLANK
    BY ONLY <1>1, <1>2, <1>3, <1>10, <2>2
  <2>4. v # << >>
    BY ONLY <1>9, <1>10, <2>1, NoneIsEmpty
  <2> QED BY ONLY <1>9, <2>3, <2>4 DEF Trim
<1>12. TokenAt(v, 1, 1, 2, bl)
  <2>1. 1 \in 1 .. Len(v) + 1 /\ 2 \in 1 .. Len(v) + 1 /\ (\A i \in 1 .. 2 - 1 : i = 1) /\ 1 .. 1 - 1 = {}
    BY <1>3, <1>10
  <2> QED BY <1>2, <1>10, <2>1 DEF TokenAt
<1>13. PICK p, rest : p = Piece(v, 1, 2) /\ rest = From(v, 2)
  OBVIOUS
<1>14. Take(v, <<bl>>) = [got |-> <<p>>, rest |-> rest]
  BY <1>2, <1>9, <1>12, <1>13, Take1At
<1>15. p = <<N>>
  <2>1. 1 \in 1 .. Len(v) /\ v[1] # BLANK /\ 1 + 1 = 2
    BY <1>1, <1>2, <1>3, <1>10
  <2>2. Piece(v, 1, 1 + 1) = <<v[1]>>
    BY <1>9, <2>1, WordPiece
  <2> QED BY <1>10, <1>13, <2>1, <2>2
<1>16. Shifted(rest, config)
  <2>1. 2 \in 1 .. Len(v) + 1
    BY <1>3, <1>10
  <2>2. /\ rest \in Text /\ Len(rest) = Len(v) - 2 + 1
        /\ \A i \in 1 .. Len(v) - 2 + 1 : rest[i] = v[2 + i - 1]
    BY <1>9, <1>13, <2>1, BehindIs
  <2>3. /\ Len(v) - 2 + 1 = l + 1 /\ 1 \in 1 .. l + 1 /\ 2 + 1 - 1 = 2
        /\ \A i \in 1 .. l : i + 1 \in 1 .. l + 1 /\ 2 + (i + 1) - 1 = i + 2
    BY <1>3, <1>10
  <2>4. \A i \in 1 .. l + 1 : rest[i] = v[2 + i - 1]
    BY ONLY <2>2, <2>3
  <2>5. rest[1] = v[2] /\ \A i \in 1 .. l : rest[i + 1] = v[i + 2]
    BY ONLY <2>3, <2>4
  <2>6. rest \in Text /\ Len(rest) = l + 1 /\ rest[1] = BLANK /\ \A i \in 1 .. l : rest[i + 1] = config[i]
    BY ONLY <1>1, <1>10, <2>2, <2>3, <2>5
  <2> QED BY ONLY <1>3, <2>6 DEF Shifted
<1>17. Config(rest) = config
  BY <1>16, ConfigAgain
<1>18. PICK got : got = <<p>>
  OBVIOUS
<1>19. got[1] = <<N>>
  BY <1>15, <1>18
<1>20. Take(v, <<BLANK>>).got = got /\ Take(v, <<BLANK>>).rest = rest
  <2>1. PICK e : e = Take(v, <<bl>>)
    OBVIOUS
  <2>2. e = [got |-> got, rest |-> rest]
    BY ONLY <1>14, <1>18, <2>1
  <2>3. e.got = got /\ e.rest = rest
    BY ONLY <2>2
  <2> QED BY ONLY <1>1, <2>1, <2>3
<1>21. PICK x, y : x = Media(r) /\ IsMedia(x) /\ y = [x EXCEPT !.config = config]
  BY DEF Shows
<1>22. PICK u : u = SetMedia(r, y)
  OBVIOUS
<1>23. ParseFmtp(r, v) = u
  <2>1. Concerns(r, got[1])
    BY <1>1, <1>19, ConcernsAgain DEF Shows
  <2>2. x.config = << >>
    BY <1>21 DEF Shows
  <2>3. << >> \o config = config
    BY <1>3 DEF Text
  <2>4. ParseFmtp(r, v) = SetMedia(r, [x EXCEPT !.config = x.config \o Config(rest)])
    <3>1. PICK pay : pay = Take(v, <<BLANK>>)
      OBVIOUS
    <3>2. pay.got = got /\ pay.rest = rest
      BY ONLY <1>20, <3>1
    <3>3. ParseFmtp(r, v) = IF Concerns(r, pay.got[1])
                            THEN SetMedia(r, [Media(r) EXCEPT !.config = @ \o Config(pay.rest)]) ELSE r
      BY <3>1 DEF ParseFmtp
    <3>4. ParseFmtp(r, v) = SetMedia(r, [x EXCEPT !.config = @ \o Config(rest)])
      BY ONLY <1>21, <2>1, <3>2, <3>3
    <3> QED BY ONLY <1>21, <3>4
  <2>5. ParseFmtp(r, v) = SetMedia(r, y)
    BY ONLY <1>17, <1>21, <2>2, <2>3, <2>4
  <2> QED BY ONLY <1>22, <2>5
<1>24. Shows(y, type, n, enc, b, size, config, path)
  <2>1. /\ IsMedia(y) /\ y.config = config /\ y.url = x.url /\ y.type = x.type /\ y.payload = x.payload
        /\ y.name = x.name /\ y.rate = x.rate /\ y.channels = x.channels
        /\ y.bitRate = x.bitRate /\ y.width = x.width /\ y.height = x.height /\ y.path = x.path
    BY ONLY <1>21 DEF IsMedia
  <2> QED BY <1>21, <2>1 DEF Shows
<1>25. Within(u, k, front) /\ Media(u) = y
  BY <1>22, <1>24, WithinSet DEF Shows
<1>26. Runs(r, << L("a", t) >>, u)
  <2>1. a # ":" /\ a # BLANK /\ ~r.skip
    BY <1>1, <1>2 DEF Within
  <2>2. PICK d : d = CASE a = "control" -> ParseControl(r, v)
                       [] a = "rtpmap" -> ParseRtpmap(r, v)
                       [] a = "fmtp" -> ParseFmtp(r, v)
                       [] a = "framesize" -> ParseFrameSize(r, v)
                       [] OTHER -> r
    OBVIOUS
  <2>3. Runs(r, << L("a", t) >>, d)
    BY <1>2, <1>9, <1>11, <2>1, <2>2, AttrRuns
  <2>4. d = u
    BY <1>1, <1>23, <2>2
  <2> QED BY <2>3, <2>4
<1> QED BY <1>1, <1>4, <1>24, <1>25, <1>26

LEMMA ControlText ==
  ASSUME NEW path \in Text
  PROVE  Tagged(<<"control", ":">> \o path, "control", path)
<1>1. PICK a, o : a = "control" /\ o = ":"
  OBVIOUS
<1>2. a \in Word /\ o \in Word
  BY <1>1, WrittenWords, Words
<1>3. PICK h, t : h = <<a, o>> /\ t = h \o path
  OBVIOUS
<1>4. h \in Text /\ Len(h) = 2 /\ h[1] = a /\ h[2] = o
  BY <1>2, <1>3, Words2
<1>5. PICK l : l = Len(path) /\ l \in Nat
  BY TextIs
<1>6. /\ t \in Text /\ Len(t) = 2 + l /\ (\A i \in 1 .. 2 : t[i] = h[i])
      /\ \A i \in 1 .. l : t[2 + i] = path[i]
  <2>1. /\ h \o path \in Text /\ Len(h \o path) = Len(h) + Len(path)
        /\ \A i \in 1 .. Len(h) : (h \o path)[i] = h[i]
        /\ \A i \in 1 .. Len(path) : (h \o path)[Len(h) + i] = path[i]
    BY <1>4, BothAre
  <2> QED BY ONLY <1>3, <1>4, <1>5, <2>1
<1>7. Len(t) = l + 2 /\ 1 \in 1 .. 2 /\ 2 \in 1 .. 2 /\ \A i \in 1 .. l : i + 2 = 2 + i
  BY <1>5, <1>6
<1>8. t[1] = a /\ t[2] = o /\ \A i \in 1 .. l : t[i + 2] = path[i]
  BY ONLY <1>4, <1>6, <1>7
<1>9. Tagged(t, a, path)
  <2>1. path \in Text /\ t[2] = ":"
    BY <1>1, <1>8
  <2> QED BY ONLY <1>5, <1>6, <1>7, <1>8, <2>1 DEF Tagged
<1> QED BY <1>1, <1>3, <1>9

LEMMA ControlAgain ==
  ASSUME NEW r, NEW k, NEW front, Within(r, k, front), NEW type, NEW n, NEW enc, NEW b, NEW size,
         NEW config, Shows(Media(r), type, n, enc, b, size, config, << >>), NEW path, IsPath(path)
  PROVE  \E u : /\ Runs(r, << L("a", <<"control", ":">> \o path) >>, u)
                /\ Within(u, k, front) /\ Shows(Media(u), type, n, enc, b, size, config, path)
<1>1. PICK a, t : a = "control" /\ t = <<"control", ":">> \o path
  OBVIOUS
<1>2. a \in Word /\ a # BLANK /\ a # ":" /\ ~r.skip /\ InMedia(r)
  BY <1>1, WrittenWords DEF Within
<1>3. Trim(path) /\ path \in Text
  BY DEF IsPath, Trim
<1>4. Tagged(t, a, path)
  BY <1>1, <1>3, ControlText
<1>5. CASE path = << >>
  <2>1. PICK kv : kv = Split(t, ":")
    OBVIOUS
  <2>2. kv = [key |-> <<a>>, val |-> path]
    BY <1>2, <1>3, <1>4, <2>1, AttrAt
  <2>3. kv.val = path
    BY ONLY <2>2
  <2>4. ParseAttr(r, t) = r
    BY <1>5, <2>1, <2>3 DEF ParseAttr, IsSplit
  <2>5. PICK line : line = L("a", t)
    OBVIOUS
  <2>6. line.letter = "a" /\ line.val = t
    BY <2>5 DEF L
  <2>7. ParseSdpLine(r, line) = ParseAttr(r, t)
    BY <1>2, <2>6 DEF ParseSdpLine, Skipped
  <2>8. Runs(r, <<line>>, r)
    BY <2>4, <2>7, RunsOne
  <2> QED BY <1>1, <1>5, <2>5, <2>8
<1>6. CASE path # << >>
  <2>1. PICK x, y : x = Media(r) /\ IsMedia(x) /\ y = [x EXCEPT !.path = path]
    BY DEF Shows
  <2>2. PICK u : u = SetMedia(r, y)
    OBVIOUS
  <2>3. ParseControl(r, path) = u
    <3>1. PICK url : url = SplitUrl(path)
      OBVIOUS
    <3>2. url = [schema |-> << >>, path |-> path]
      BY <3>1 DEF IsPath
    <3>3. url.schema = << >> /\ url.path = path
      BY ONLY <3>2
    <3> QED BY <1>2, <2>1, <2>2, <3>1, <3>3 DEF ParseControl
  <2>4. Shows(y, type, n, enc, b, size, config, path)
    <3>1. /\ IsMedia(y) /\ y.path = path /\ y.url = x.url /\ y.type = x.type /\ y.payload = x.payload
          /\ y.name = x.name /\ y.rate = x.rate /\ y.channels = x.channels
          /\ y.bitRate = x.bitRate /\ y.width = x.width /\ y.height = x.height /\ y.config = x.config
      BY ONLY <2>1 DEF IsMedia
    <3> QED BY <2>1, <3>1 DEF Shows
  <2>5. Within(u, k, front) /\ Media(u) = y
    BY <2>2, <2>4, WithinSet DEF Shows
  <2>6. PICK d : d = CASE a = "control" -> ParseControl(r, path)
                       [] a = "rtpmap" -> ParseRtpmap(r, path)
                       [] a = "fmtp" -> ParseFmtp(r, path)
                       [] a = "framesize" -> ParseFrameSize(r, path)
                       [] OTHER -> r
    OBVIOUS
  <2>7. Runs(r, << L("a", t) >>, d)
    BY <1>2, <1>3, <1>4, <1>6, <2>6, AttrRuns
  <2>8. d = u
    BY <1>1, <2>3, <2>6
  <2> QED BY <1>1, <2>4, <2>5, <2>7, <2>8
<1> QED BY <1>5, <1>6

LEMMA KindsDiffer ==
  /\ <<"audio">> # <<"video">> /\ <<"audio">> # <<"application">> /\ <<"video">> # <<"application">>
<1>1. PICK p, q, r : p = <<"audio">> /\ q = <<"video">> /\ r = <<"application">>
  OBVIOUS
<1>2. p[1] # q[1] /\ p[1] # r[1] /\ q[1] # r[1]
  BY <1>1
<1> QED BY <1>1, <1>2

\* The parameters that are written.
Kept(m) == IF Fits(FmtpText(m)) THEN m.config ELSE << >>

\* What a player is told, from what was read.
LEMMA SaidAgain ==
  ASSUME NEW m, GoodMedia(m), NEW x, NEW enc, NEW size,
         Shows(x, m.type, m.payload, enc, Told(m.bitRate), size, Kept(m), m.path),
         HasRate(m) => enc = <<m.name, m.rate, m.channels>>,
         IF HasSize(m) THEN size = <<m.width, m.height>> ELSE size = <<0, 0>>
  PROVE  Said(x) = Said(m)
<1>1. /\ x.type = m.type /\ x.payload = m.payload /\ enc = <<x.name, x.rate, x.channels>>
      /\ x.bitRate = Told(m.bitRate) /\ size = <<x.width, x.height>> /\ x.config = Kept(m) /\ x.path = m.path
  BY DEF Shows
<1>2. HasRate(x) <=> HasRate(m)
  BY <1>1 DEF HasRate
<1>3. HasSize(m) => HasSize(x) /\ <<x.width, x.height>> = <<m.width, m.height>>
  <2>1. ASSUME HasSize(m) PROVE HasSize(x) /\ <<x.width, x.height>> = <<m.width, m.height>>
    <3>1. PICK p, q : p = <<x.width, x.height>> /\ q = <<m.width, m.height>>
      OBVIOUS
    <3>2. p = q
      BY <1>1, <2>1, <3>1
    <3>3. p[1] = x.width /\ p[2] = x.height /\ q[1] = m.width /\ q[2] = m.height
      BY ONLY <3>1
    <3>4. x.width = m.width /\ x.height = m.height
      BY ONLY <3>2, <3>3
    <3> QED BY <2>1, <3>4 DEF HasSize
  <2> QED BY <2>1
<1>4. ~HasSize(m) => ~HasSize(x)
  <2>1. ASSUME ~HasSize(m) PROVE ~HasSize(x)
    <3>1. PICK p, q : p = <<x.width, x.height>> /\ q = <<0, 0>>
      OBVIOUS
    <3>2. p = q
      BY <1>1, <2>1, <3>1
    <3>3. p[1] = x.width /\ q[1] = 0
      BY ONLY <3>1
    <3>4. x.width = 0
      BY ONLY <3>2, <3>3
    <3> QED BY <3>4 DEF HasSize
  <2> QED BY <2>1
<1>5. PICK e, f : e = (IF HasRate(x) THEN <<x.name, x.rate, x.channels>> ELSE << >>)
                  /\ f = (IF HasSize(x) THEN <<x.width, x.height>> ELSE << >>)
  OBVIOUS
<1>6. e = IF HasRate(m) THEN <<m.name, m.rate, m.channels>> ELSE << >>
  BY <1>1, <1>2, <1>5
<1>7. f = IF HasSize(m) THEN <<m.width, m.height>> ELSE << >>
  <2>1. CASE HasSize(m)
    BY ONLY <1>3, <1>5, <2>1
  <2>2. CASE ~HasSize(m)
    BY ONLY <1>4, <1>5, <2>2
  <2> QED BY ONLY <2>1, <2>2
<1>8. PICK a, b, p : a = x.type /\ b = x.payload /\ p = x.path
  OBVIOUS
<1>9. PICK c, d : c = Kept(m) /\ d = (IF m.bitRate > 0 THEN m.bitRate \div 1000 ELSE 0)
  OBVIOUS
<1>10. a = m.type /\ b = m.payload /\ p = m.path
  BY ONLY <1>1, <1>8
<1>11. (IF Fits(FmtpText(x)) THEN x.config ELSE << >>) = c
  <2>1. CASE Fits(FmtpText(m))
    <3>1. x.config = m.config /\ x.payload = m.payload
      BY <1>1, <2>1 DEF Kept
    <3>2. FmtpText(x) = FmtpText(m)
      BY ONLY <3>1 DEF FmtpText
    <3> QED BY ONLY <1>1, <1>9, <2>1, <3>2
  <2>2. CASE ~Fits(FmtpText(m))
    <3>1. x.config = << >> /\ c = << >>
      BY <1>1, <1>9, <2>2 DEF Kept
    <3> QED BY ONLY <3>1
  <2> QED BY <2>1, <2>2
<1>12. (IF x.bitRate > 0 THEN x.bitRate \div 1000 ELSE 0) = d
  <2>1. PICK e1, e2 : e1 = m.bitRate /\ e2 = x.bitRate /\ e1 \in Int /\ e2 = Told(e1)
    BY <1>1 DEF GoodMedia, OthersGood, RateGood
  <2>2. (IF e2 > 0 THEN e2 \div 1000 ELSE 0) = (IF e1 > 0 THEN e1 \div 1000 ELSE 0)
    BY ONLY <2>1 DEF Told
  <2> QED BY ONLY <1>9, <2>1, <2>2
<1>13. Said(x) = [type |-> a, payload |-> b, path |-> p, config |-> c, bitRate |-> d, encoding |-> e, size |-> f]
  BY ONLY <1>5, <1>8, <1>11, <1>12 DEF Said
<1>14. Said(m) = [type |-> a, payload |-> b, path |-> p, config |-> c, bitRate |-> d, encoding |-> e, size |-> f]
  BY ONLY <1>6, <1>7, <1>9, <1>10 DEF Said, Kept
<1> QED BY ONLY <1>13, <1>14

\* The attributes of a media.
LEMMA AttrsAgain ==
  ASSUME NEW m, GoodMedia(m), NEW rated, NEW r, NEW k, NEW front, Within(r, k, front),
         Shows(Media(r), m.type, m.payload, << << >>, 0, 0>>, rated, <<0, 0>>, << >>, << >>)
  PROVE  \E u, enc, size :
           /\ Runs(r, WriteMediaAttr(m), u) /\ Within(u, k, front)
           /\ Shows(Media(u), m.type, m.payload, enc, rated, size, Kept(m), << >>)
           /\ HasRate(m) => enc = <<m.name, m.rate, m.channels>>
           /\ IF HasSize(m) THEN size = <<m.width, m.height>> ELSE size = <<0, 0>>
<1>1. PICK w \in {"audio", "video", "application"} : m.type = <<w>>
  BY DEF GoodMedia, EncodingGood, Kinds
<1>2. /\ m.payload \in Value /\ m.width \in Value /\ m.height \in Value /\ IsConfig(m.config)
      /\ EncodingGood(m.type, m.name, m.rate, m.channels)
  BY DEF GoodMedia, OthersGood
<1>3. PICK map, q1, q2, q3 :
        /\ map = <<"rtpmap", ":", Numeral(m.payload), BLANK>> \o m.name \o <<"/", Numeral(m.rate)>>
        /\ q1 = (CASE m.type = <<"video">> -> << L("a", map) >>
                   [] m.type = <<"audio">> -> << L("a", map \o <<"/", Numeral(m.channels)>>) >>
                   [] OTHER -> << >>)
        /\ q2 = (IF m.width > 0 /\ m.height > 0
                 THEN << L("a", <<"framesize", ":", Numeral(m.payload), BLANK, Numeral(m.width), "-", Numeral(m.height)>>) >>
                 ELSE << >>)
        /\ q3 = (IF m.config # << >> THEN FmtpLine(m) ELSE << >>)
  OBVIOUS
<1>4. WriteMediaAttr(m) = q1 \o q2 \o q3
  BY <1>3 DEF WriteMediaAttr
<1>5. PICK r1, enc : /\ Runs(r, q1, r1) /\ Within(r1, k, front)
                     /\ Shows(Media(r1), m.type, m.payload, enc, rated, <<0, 0>>, << >>, << >>)
                     /\ HasRate(m) => enc = <<m.name, m.rate, m.channels>>
  <2>1. CASE w = "application"
    <3>1. q1 = << >> /\ ~HasRate(m)
      BY <1>1, <1>3, <2>1, KindsDiffer DEF HasRate
    <3> QED BY <3>1, RunsNone
  <2>2. CASE w = "audio"
    <3>1. m.type = <<"audio">> /\ m.type # <<"video">>
      BY <1>1, <2>2, KindsDiffer
    <3>2. PICK one, t : one = 1 /\ t = map \o <<"/", Numeral(m.channels)>>
      OBVIOUS
    <3>3. q1 = << L("a", t) >>
      BY ONLY <1>3, <3>1, <3>2
    <3>4. one \in 0 .. 1 /\ one = (IF w = "audio" THEN 1 ELSE 0) /\ w \in {"audio", "video"}
      BY <2>2, <3>2
    <3>5. t = (IF one = 1
               THEN <<"rtpmap", ":", Numeral(m.payload), BLANK>> \o m.name \o <<"/", Numeral(m.rate)>> \o <<"/", Numeral(m.channels)>>
               ELSE <<"rtpmap", ":", Numeral(m.payload), BLANK>> \o m.name \o <<"/", Numeral(m.rate)>>)
      BY ONLY <1>3, <3>2
    <3>6. \E u : /\ Runs(r, << L("a", t) >>, u)
                 /\ Within(u, k, front)
                 /\ Shows(Media(u), m.type, m.payload, <<m.name, m.rate, m.channels>>, rated, <<0, 0>>, << >>, << >>)
      <4>1. PICK type, n, name, rate, channels, b, z, e :
              /\ type = m.type /\ n = m.payload /\ name = m.name /\ rate = m.rate /\ channels = m.channels
              /\ b = rated /\ z = <<0, 0>> /\ e = << >>
        OBVIOUS
      <4>2. /\ Within(r, k, front) /\ w \in {"audio", "video"} /\ type = <<w>> /\ n \in Value
            /\ EncodingGood(type, name, rate, channels) /\ one \in 0 .. 1
            /\ one = (IF w = "audio" THEN 1 ELSE 0)
        BY ONLY <1>1, <1>2, <3>4, <4>1, Within(r, k, front)
      <4>3. Shows(Media(r), type, n, << << >>, 0, 0>>, b, z, e, e)
        BY ONLY <4>1, Shows(Media(r), m.type, m.payload, << << >>, 0, 0>>, rated, <<0, 0>>, << >>, << >>)
      <4>4. PICK v : Tagged(t, "rtpmap", v) /\ Mapped(v, n, name, rate, one, channels)
        <5>1. t = (IF one = 1
                   THEN <<"rtpmap", ":", Numeral(n), BLANK>> \o name \o <<"/", Numeral(rate)>> \o <<"/", Numeral(channels)>>
                   ELSE <<"rtpmap", ":", Numeral(n), BLANK>> \o name \o <<"/", Numeral(rate)>>)
          BY ONLY <3>5, <4>1
        <5>2. name \in Text /\ rate \in Value /\ channels \in Value
          BY ONLY <4>2 DEF EncodingGood, Trim
        <5>3. n \in Value /\ one \in 0 .. 1 /\ Trim(name)
          BY ONLY <4>2 DEF EncodingGood
        <5>4. Tagged(t, "rtpmap", From(t, 3)) /\ Mapped(From(t, 3), n, name, rate, one, channels)
          BY ONLY <5>1, <5>2, <5>3, MapText
        <5> QED BY ONLY <5>4
      <4>5. \E u : /\ Runs(r, << L("a", t) >>, u)
                   /\ Within(u, k, front) /\ Shows(Media(u), type, n, <<name, rate, channels>>, b, z, e, e)
        BY ONLY <4>2, <4>3, <4>4, MapAgain
      <4> QED BY ONLY <4>1, <4>5
    <3> QED BY <3>3, <3>6
  <2>3. CASE w = "video"
    <3>1. m.type = <<"video">>
      BY <1>1, <2>3
    <3>2. PICK one, t : one = 0 /\ t = map
      OBVIOUS
    <3>3. q1 = << L("a", t) >>
      BY ONLY <1>3, <3>1, <3>2
    <3>4. one \in 0 .. 1 /\ one = (IF w = "audio" THEN 1 ELSE 0) /\ w \in {"audio", "video"}
      BY <2>3, <3>2
    <3>5. t = (IF one = 1
               THEN <<"rtpmap", ":", Numeral(m.payload), BLANK>> \o m.name \o <<"/", Numeral(m.rate)>> \o <<"/", Numeral(m.channels)>>
               ELSE <<"rtpmap", ":", Numeral(m.payload), BLANK>> \o m.name \o <<"/", Numeral(m.rate)>>)
      <4>1. one # 1
        BY <3>2
      <4> QED BY ONLY <1>3, <3>2, <4>1
    <3>6. \E u : /\ Runs(r, << L("a", t) >>, u)
                 /\ Within(u, k, front)
                 /\ Shows(Media(u), m.type, m.payload, <<m.name, m.rate, m.channels>>, rated, <<0, 0>>, << >>, << >>)
      <4>1. PICK type, n, name, rate, channels, b, z, e :
              /\ type = m.type /\ n = m.payload /\ name = m.name /\ rate = m.rate /\ channels = m.channels
              /\ b = rated /\ z = <<0, 0>> /\ e = << >>
        OBVIOUS
      <4>2. /\ Within(r, k, front) /\ w \in {"audio", "video"} /\ type = <<w>> /\ n \in Value
            /\ EncodingGood(type, name, rate, channels) /\ one \in 0 .. 1
            /\ one = (IF w = "audio" THEN 1 ELSE 0)
        BY ONLY <1>1, <1>2, <3>4, <4>1, Within(r, k, front)
      <4>3. Shows(Media(r), type, n, << << >>, 0, 0>>, b, z, e, e)
        BY ONLY <4>1, Shows(Media(r), m.type, m.payload, << << >>, 0, 0>>, rated, <<0, 0>>, << >>, << >>)
      <4>4. PICK v : Tagged(t, "rtpmap", v) /\ Mapped(v, n, name, rate, one, channels)
        <5>1. t = (IF one = 1
                   THEN <<"rtpmap", ":", Numeral(n), BLANK>> \o name \o <<"/", Numeral(rate)>> \o <<"/", Numeral(channels)>>
                   ELSE <<"rtpmap", ":", Numeral(n), BLANK>> \o name \o <<"/", Numeral(rate)>>)
          BY ONLY <3>5, <4>1
        <5>2. name \in Text /\ rate \in Value /\ channels \in Value
          BY ONLY <4>2 DEF EncodingGood, Trim
        <5>3. n \in Value /\ one \in 0 .. 1 /\ Trim(name)
          BY ONLY <4>2 DEF EncodingGood
        <5>4. Tagged(t, "rtpmap", From(t, 3)) /\ Mapped(From(t, 3), n, name, rate, one, channels)
          BY ONLY <5>1, <5>2, <5>3, MapText
        <5> QED BY ONLY <5>4
      <4>5. \E u : /\ Runs(r, << L("a", t) >>, u)
                   /\ Within(u, k, front) /\ Shows(Media(u), type, n, <<name, rate, channels>>, b, z, e, e)
        BY ONLY <4>2, <4>3, <4>4, MapAgain
      <4> QED BY ONLY <4>1, <4>5
    <3> QED BY <3>3, <3>6
  <2> QED BY <2>1, <2>2, <2>3
<1>6. PICK r2, size : /\ Runs(r1, q2, r2) /\ Within(r2, k, front)
                      /\ Shows(Media(r2), m.type, m.payload, enc, rated, size, << >>, << >>)
                      /\ IF HasSize(m) THEN size = <<m.width, m.height>> ELSE size = <<0, 0>>
  <2>1. CASE HasSize(m)
    <3>1. \E u : /\ Runs(r1, << L("a", <<"framesize", ":", Numeral(m.payload), BLANK, Numeral(m.width), "-", Numeral(m.height)>>) >>, u)
                 /\ Within(u, k, front)
                 /\ Shows(Media(u), m.type, m.payload, enc, rated, <<m.width, m.height>>, << >>, << >>)
      BY <1>2, <1>5, SizeAgain
    <3>2. m.width > 0 /\ m.height > 0
      BY <2>1 DEF HasSize
    <3>3. q2 = << L("a", <<"framesize", ":", Numeral(m.payload), BLANK, Numeral(m.width), "-", Numeral(m.height)>>) >>
      BY ONLY <1>3, <3>2
    <3> QED BY <2>1, <3>1, <3>3
  <2>2. CASE ~HasSize(m)
    <3>1. ~(m.width > 0 /\ m.height > 0)
      BY <2>2 DEF HasSize
    <3>2. q2 = << >>
      BY ONLY <1>3, <3>1
    <3> QED BY <1>5, <2>2, <3>2, RunsNone
  <2> QED BY <2>1, <2>2
<1>7. PICK r3 : /\ Runs(r2, q3, r3) /\ Within(r3, k, front)
                /\ Shows(Media(r3), m.type, m.payload, enc, rated, size, Kept(m), << >>)
  <2>1. PICK line : line = L("a", <<"fmtp", ":", Numeral(m.payload), BLANK>> \o m.config)
    OBVIOUS
  <2>2. FmtpLine(m) = IF Fits(FmtpText(m)) THEN <<line>> ELSE << >>
    <3>1. PICK t : t = FmtpText(m)
      OBVIOUS
    <3>2. line = L("a", t) /\ line.val = t
      BY ONLY <2>1, <3>1 DEF FmtpText, L
    <3> QED BY ONLY <3>1, <3>2 DEF FmtpLine, AddFormat
  <2>3. CASE m.config # << >> /\ Fits(FmtpText(m))
    <3>1. \E u : /\ Runs(r2, <<line>>, u) /\ Within(u, k, front)
                 /\ Shows(Media(u), m.type, m.payload, enc, rated, size, m.config, << >>)
      BY <1>2, <1>6, <2>1, <2>3, FmtpAgain
    <3>2. q3 = <<line>> /\ Kept(m) = m.config
      BY ONLY <1>3, <2>2, <2>3 DEF Kept
    <3> QED BY <3>1, <3>2
  <2>4. CASE ~(m.config # << >> /\ Fits(FmtpText(m)))
    <3>1. q3 = << >> /\ Kept(m) = << >>
      BY ONLY <1>3, <2>2, <2>4 DEF Kept
    <3> QED BY <1>6, <3>1, RunsNone
  <2> QED BY <2>3, <2>4
<1>8. Runs(r, q1 \o q2 \o q3, r3)
  <2>1. Runs(r, q1 \o q2, r2)
    BY <1>5, <1>6, RunsBoth
  <2> QED BY <1>7, <2>1, RunsBoth
<1> QED BY <1>4, <1>5, <1>6, <1>7, <1>8

LEMMA BlockAgain ==
  ASSUME NEW s, IsSdp(s), ~s.skip, s.url = << >>, NEW k \in Nat, Len(s.media) = k,
         \A i \in 1 .. k : s.media[i].url = << >>, NEW m, GoodMedia(m)
  PROVE  \E u : /\ Runs(s, WriteSdpMedia(m), u) /\ Within(u, k, s.media)
                /\ Said(Media(u)) = Said(m) /\ Media(u).url = << >>
<1>1. m.type \in Kinds /\ m.payload \in Value /\ m.ttl = 0 /\ IsPath(m.path)
  BY DEF GoodMedia, EncodingGood, OthersGood, PathsGood
<1>2. RateGood(m.bitRate)
  BY DEF GoodMedia, OthersGood
<1>60. PICK q0 : q0 = WriteMediaType(m)
  OBVIOUS
<1>63. PICK q3 : q3 = WriteMediaAttr(m)
  OBVIOUS
<1>61. PICK q1 : q1 = (IF m.ttl > 0
                       THEN << L("c", <<"IN", BLANK, "IP4", BLANK>> \o m.ip \o <<"/", Numeral(m.ttl)>>) >>
                       ELSE << >>)
  OBVIOUS
<1>62. PICK q4 : q4 = << L("a", <<"control", ":">> \o m.path) >>
  OBVIOUS
<1>3. /\ q0 = WriteMediaType(m)
      /\ q1 = (IF m.ttl > 0
               THEN << L("c", <<"IN", BLANK, "IP4", BLANK>> \o m.ip \o <<"/", Numeral(m.ttl)>>) >> ELSE << >>)
      /\ q3 = WriteMediaAttr(m)
      /\ q4 = << L("a", <<"control", ":">> \o m.path) >>
  BY ONLY <1>60, <1>61, <1>62, <1>63
<1>64. PICK rated : rated = << L("b", <<"AS", ":", Numeral(m.bitRate \div 1000)>>) >>
  OBVIOUS
<1>65. PICK q2 : q2 = IF m.bitRate > 0 THEN rated ELSE << >>
  OBVIOUS
<1>14. q2 = IF m.bitRate > 0
            THEN << L("b", <<"AS", ":", Numeral(m.bitRate \div 1000)>>) >> ELSE << >>
  BY ONLY <1>64, <1>65
<1>4. WriteSdpMedia(m) = q0 \o q1 \o q2 \o q3 \o q4
  BY ONLY <1>3, <1>14 DEF WriteSdpMedia
<1>5. PICK front : front = s.media
  OBVIOUS
<1>6. PICK r0 : /\ Runs(s, q0, r0) /\ Within(r0, k, front)
                /\ Shows(Media(r0), m.type, m.payload, << << >>, 0, 0>>, 0, <<0, 0>>, << >>, << >>)
  BY <1>1, <1>3, <1>5, HeadAgain
<1>7. Runs(s, q0 \o q1, r0)
  <2>1. ~(m.ttl > 0)
    BY <1>1
  <2>2. q1 = << >>
    BY ONLY <1>3, <2>1
  <2> QED BY <1>6, <2>2, RunsNone, RunsBoth
<1>8. PICK r2 : /\ Runs(r0, q2, r2) /\ Within(r2, k, front)
                /\ Shows(Media(r2), m.type, m.payload, << << >>, 0, 0>>, Told(m.bitRate), <<0, 0>>, << >>, << >>)
  <2>1. PICK b : b = m.bitRate /\ RateGood(b)
    BY <1>2
  <2>2. \E u : /\ Runs(r0, IF b > 0 THEN << L("b", <<"AS", ":", Numeral(b \div 1000)>>) >> ELSE << >>, u)
               /\ Within(u, k, front)
               /\ Shows(Media(u), m.type, m.payload, << << >>, 0, 0>>, Told(b), <<0, 0>>, << >>, << >>)
    BY <1>6, <2>1, RateAgain
  <2>3. q2 = IF b > 0 THEN << L("b", <<"AS", ":", Numeral(b \div 1000)>>) >> ELSE << >>
    BY ONLY <1>14, <2>1
  <2> QED BY <2>1, <2>2, <2>3
<1>9. PICK r3, enc, size :
        /\ Runs(r2, q3, r3) /\ Within(r3, k, front)
        /\ Shows(Media(r3), m.type, m.payload, enc, Told(m.bitRate), size, Kept(m), << >>)
        /\ HasRate(m) => enc = <<m.name, m.rate, m.channels>>
        /\ IF HasSize(m) THEN size = <<m.width, m.height>> ELSE size = <<0, 0>>
  BY <1>3, <1>8, AttrsAgain
<1>10. PICK u : /\ Runs(r3, q4, u) /\ Within(u, k, front)
                /\ Shows(Media(u), m.type, m.payload, enc, Told(m.bitRate), size, Kept(m), m.path)
  BY <1>1, <1>3, <1>9, ControlAgain
<1>11. Runs(s, q0 \o q1 \o q2 \o q3 \o q4, u)
  <2>1. Runs(s, q0 \o q1 \o q2, r2)
    BY <1>7, <1>8, RunsBoth
  <2>2. Runs(s, q0 \o q1 \o q2 \o q3, r3)
    BY <1>9, <2>1, RunsBoth
  <2> QED BY <1>10, <2>2, RunsBoth
<1>12. Said(Media(u)) = Said(m)
  BY <1>9, <1>10, SaidAgain
<1>13. Media(u).url = << >>
  BY <1>10 DEF Shows
<1> QED BY <1>4, <1>5, <1>10, <1>11, <1>12, <1>13

\* Six lines, one after the other.
LEMMA RunsSix ==
  ASSUME NEW s0, NEW s1, NEW s2, NEW s3, NEW s4, NEW s5, NEW s6,
         NEW e1, NEW e2, NEW e3, NEW e4, NEW e5, NEW e6,
         s1 = ParseSdpLine(s0, e1), s2 = ParseSdpLine(s1, e2), s3 = ParseSdpLine(s2, e3),
         s4 = ParseSdpLine(s3, e4), s5 = ParseSdpLine(s4, e5), s6 = ParseSdpLine(s5, e6)
  PROVE  Runs(s0, <<e1, e2, e3, e4, e5, e6>>, s6)
<1>1. PICK q : q = <<e1, e2, e3, e4, e5, e6>>
  OBVIOUS
<1>2. /\ IsSeq(q) /\ Len(q) = 6 /\ q[1] = e1 /\ q[2] = e2 /\ q[3] = e3 /\ q[4] = e4 /\ q[5] = e5
      /\ q[6] = e6
  <2>1. PICK S : S = {e1, e2, e3, e4, e5, e6}
    OBVIOUS
  <2>2. e1 \in S /\ e2 \in S /\ e3 \in S /\ e4 \in S /\ e5 \in S /\ e6 \in S
    BY <2>1
  <2>3. /\ q \in Seq(S) /\ Len(q) = 6 /\ DOMAIN q = 1 .. 6 /\ q[1] = e1 /\ q[2] = e2 /\ q[3] = e3
        /\ q[4] = e4 /\ q[5] = e5 /\ q[6] = e6
    BY ONLY <1>1, <2>2
  <2>4. {q[i] : i \in DOMAIN q} = S
    <3>1. \A i \in 1 .. 6 : i = 1 \/ i = 2 \/ i = 3 \/ i = 4 \/ i = 5 \/ i = 6
      OBVIOUS
    <3>2. \A i \in 1 .. 6 : q[i] \in S
      BY ONLY <2>2, <2>3, <3>1
    <3>3. 1 \in 1 .. 6 /\ 2 \in 1 .. 6 /\ 3 \in 1 .. 6 /\ 4 \in 1 .. 6 /\ 5 \in 1 .. 6 /\ 6 \in 1 .. 6
      OBVIOUS
    <3>4. \A e \in S : \E i \in 1 .. 6 : q[i] = e
      BY ONLY <2>1, <2>3, <3>3
    <3> QED BY ONLY <2>3, <3>2, <3>4
  <2> QED BY <2>3, <2>4 DEF IsSeq
<1>3. PICK f : f = [i \in 0 .. 6 |-> IF i = 0 THEN s0 ELSE IF i = 1 THEN s1 ELSE IF i = 2 THEN s2
                                     ELSE IF i = 3 THEN s3 ELSE IF i = 4 THEN s4
                                     ELSE IF i = 5 THEN s5 ELSE s6]
  OBVIOUS
<1>4. /\ f[0] = s0 /\ f[1] = s1 /\ f[2] = s2 /\ f[3] = s3 /\ f[4] = s4 /\ f[5] = s5 /\ f[6] = s6
  BY ONLY <1>3
<1>5. \A i \in 1 .. 6 : f[i] = ParseSdpLine(f[i - 1], q[i])
  <2>1. \A i \in 1 .. 6 : \/ i = 1 /\ i - 1 = 0
                          \/ i = 2 /\ i - 1 = 1
                          \/ i = 3 /\ i - 1 = 2
                          \/ i = 4 /\ i - 1 = 3
                          \/ i = 5 /\ i - 1 = 4
                          \/ i = 6 /\ i - 1 = 5
    OBVIOUS
  <2>2. /\ s1 = ParseSdpLine(s0, e1) /\ s2 = ParseSdpLine(s1, e2) /\ s3 = ParseSdpLine(s2, e3)
        /\ s4 = ParseSdpLine(s3, e4) /\ s5 = ParseSdpLine(s4, e5) /\ s6 = ParseSdpLine(s5, e6)
    OBVIOUS
  <2> QED BY ONLY <1>2, <1>4, <2>1, <2>2
<1> QED BY <1>1, <1>2, <1>4, <1>5 DEF Runs

\* In front of the first media, with no address for the session.
AtFront(r) == IsSession(r) /\ r.url = << >>

LEMMA HeaderLine ==
  ASSUME NEW r, AtFront(r), NEW e, NEW t
  PROVE  /\ e \in {"v", "o", "t", "s", "c"} => AtFront(ParseSdpLine(r, L(e, t)))
         /\ t = <<"tool", ":", "libavformat">> => AtFront(ParseSdpLine(r, L("a", t)))
<1>1. ASSUME e \in {"v", "o", "t", "s", "c"} PROVE AtFront(ParseSdpLine(r, L(e, t)))
  <2>1. PICK line : line = L(e, t)
    OBVIOUS
  <2>2. line.letter = e /\ line.val = t
    BY <2>1 DEF L
  <2>3. IsSession(ParseSdpLine(r, line))
    BY <1>1, <2>2, SessionLine DEF AtFront
  <2>4. ~r.skip /\ ~InMedia(r) /\ r.url = << >> /\ IsSdp(r)
    BY DEF AtFront, IsSession, InMedia
  <2>5. ParseSdpLine(r, line) \in {r, ParseTitle(r, t), ParseConn(r, t)}
    BY <1>1, <2>2, <2>4 DEF ParseSdpLine, Skipped
  <2>6. PICK title, comment, media, ip, ttl, url, skip :
          r = [title |-> title, comment |-> comment, url |-> url, media |-> media,
               ip |-> ip, ttl |-> ttl, skip |-> skip]
    BY <2>4 DEF IsSdp
  <2>7. ParseTitle(r, t).url = r.url
    BY ONLY <2>6 DEF ParseTitle
  <2>8. ParseConn(r, t).url = r.url
    <3>1. PICK got : got = Take(t, <<BLANK, BLANK, "/", "/">>).got
      OBVIOUS
    <3>2. PICK x, z : x = got[3] /\ z = 0
      OBVIOUS
    <3>3. ParseConn(r, t) = r \/ ParseConn(r, t) = [r EXCEPT !.ip = x, !.ttl = z]
      BY <2>4, <3>1, <3>2 DEF ParseConn
    <3>4. [r EXCEPT !.ip = x, !.ttl = z].url = r.url
      BY ONLY <2>6
    <3> QED BY ONLY <3>3, <3>4
  <2>9. ParseSdpLine(r, line).url = << >>
    BY <2>4, <2>5, <2>7, <2>8
  <2> QED BY <2>1, <2>3, <2>9 DEF AtFront
<1>2. ASSUME t = <<"tool", ":", "libavformat">> PROVE AtFront(ParseSdpLine(r, L("a", t)))
  <2>1. PICK a, o, w : a = "tool" /\ o = ":" /\ w = "libavformat"
    OBVIOUS
  <2>2. a \in Word /\ o \in Word /\ w \in Word /\ a # BLANK /\ a # ":" /\ w # BLANK
    <3>1. w # BLANK
      BY <2>1 DEF BLANK
    <3> QED BY <2>1, <3>1, WrittenWords, Words
  <2>3. t \in Text /\ Len(t) = 3 /\ t[1] = a /\ t[2] = o /\ t[3] = w
    BY <1>2, <2>1, <2>2, Words3
  <2>4. PICK v : v = <<w>>
    OBVIOUS
  <2>5. v \in Text /\ Len(v) = 1 /\ v[1] = w /\ v # << >> /\ Trim(v)
    BY <2>2, <2>4, OneWord, WordTrim
  <2>6. Tagged(t, a, v)
    <3>1. \A i \in 1 .. 1 : i = 1 /\ i + 2 = 3
      OBVIOUS
    <3>2. \A i \in 1 .. Len(v) : t[i + 2] = v[i]
      BY ONLY <2>3, <2>5, <3>1
    <3>3. Len(t) = Len(v) + 2 /\ t[2] = ":"
      BY <2>1, <2>3, <2>5
    <3> QED BY ONLY <2>3, <2>5, <3>2, <3>3 DEF Tagged
  <2>7. PICK d : d = CASE a = "control" -> ParseControl(r, v)
                       [] a = "rtpmap" -> ParseRtpmap(r, v)
                       [] a = "fmtp" -> ParseFmtp(r, v)
                       [] a = "framesize" -> ParseFrameSize(r, v)
                       [] OTHER -> r
    OBVIOUS
  <2>8. d = r
    BY <2>1, <2>7
  <2>9. ~r.skip
    BY DEF AtFront, IsSession
  <2>10. Runs(r, << L("a", t) >>, d)
    BY <2>2, <2>5, <2>6, <2>7, <2>9, AttrRuns
  <2>11. PICK q, line : line = L("a", t) /\ q = <<line>>
    OBVIOUS
  <2>12. Len(q) = 1 /\ q[1] = line
    BY <2>11
  <2>13. PICK f : f[0] = r /\ f[1] = d /\ f[1] = ParseSdpLine(f[1 - 1], q[1])
    <3>1. PICK f : /\ f[0] = r /\ f[Len(q)] = d
                   /\ \A i \in 1 .. Len(q) : f[i] = ParseSdpLine(f[i - 1], q[i])
      BY <2>10, <2>11 DEF Runs
    <3>2. 1 \in 1 .. 1
      OBVIOUS
    <3> QED BY ONLY <2>12, <3>1, <3>2
  <2>14. 1 - 1 = 0
    OBVIOUS
  <2>15. ParseSdpLine(r, line) = r
    BY ONLY <2>8, <2>12, <2>13, <2>14
  <2> QED BY <2>11, <2>15
<1> QED BY <1>1, <1>2

LEMMA HeaderAgain ==
  ASSUME NEW s
  PROVE  \E r : Runs(EmptySdp, WriteSdpHeader(s), r) /\ AtFront(r)
<1>1. PICK title : title = IF s.title # << >> THEN s.title ELSE UNNAMED
  OBVIOUS
<1>2. PICK t1, t2, t4, t5, t6 :
        /\ t1 = <<"0">> /\ t2 = <<"-">> /\ t4 = <<"IN", BLANK, "IP4", BLANK, "0.0.0.0">>
        /\ t5 = <<"0", BLANK, "0">> /\ t6 = <<"tool", ":", "libavformat">>
  OBVIOUS
<1>3. PICK e1, e2, e3, e4, e5, e6 :
        /\ e1 = L("v", t1) /\ e2 = L("o", t2) /\ e3 = L("s", title)
        /\ e4 = L("c", t4) /\ e5 = L("t", t5) /\ e6 = L("a", t6)
  OBVIOUS
<1>4. WriteSdpHeader(s) = <<e1, e2, e3, e4, e5, e6>>
  BY ONLY <1>1, <1>2, <1>3 DEF WriteSdpHeader
<1>5. PICK r0 : r0 = EmptySdp
  OBVIOUS
<1>6. AtFront(r0)
  <2>1. EmptySdp.url = << >>
    BY DEF EmptySdp
  <2> QED BY <1>5, <2>1, EmptyIsSession DEF AtFront
<1>7. PICK r1 : r1 = ParseSdpLine(r0, e1)
  OBVIOUS
<1>8. AtFront(r1)
  BY <1>3, <1>6, <1>7, HeaderLine
<1>9. PICK r2 : r2 = ParseSdpLine(r1, e2)
  OBVIOUS
<1>10. AtFront(r2)
  BY <1>3, <1>8, <1>9, HeaderLine
<1>11. PICK r3 : r3 = ParseSdpLine(r2, e3)
  OBVIOUS
<1>12. AtFront(r3)
  BY <1>3, <1>10, <1>11, HeaderLine
<1>13. PICK r4 : r4 = ParseSdpLine(r3, e4)
  OBVIOUS
<1>14. AtFront(r4)
  BY <1>3, <1>12, <1>13, HeaderLine
<1>15. PICK r5 : r5 = ParseSdpLine(r4, e5)
  OBVIOUS
<1>16. AtFront(r5)
  BY <1>3, <1>14, <1>15, HeaderLine
<1>17. PICK r6 : r6 = ParseSdpLine(r5, e6)
  OBVIOUS
<1>18. AtFront(r6)
  BY <1>2, <1>3, <1>16, <1>17, HeaderLine
<1>19. Runs(r0, <<e1, e2, e3, e4, e5, e6>>, r6)
  BY <1>7, <1>9, <1>11, <1>13, <1>15, <1>17, RunsSix
<1> QED BY <1>4, <1>5, <1>18, <1>19

\* The first n media of s were read.
After(s, u, n) ==
  /\ IsSdp(u) /\ ~u.skip /\ u.url = << >> /\ n \in Nat /\ Len(u.media) = n
  /\ \A i \in 1 .. n : u.media[i].url = << >> /\ Said(u.media[i]) = Said(s.media[i])

LEMMA BlockStep ==
  ASSUME NEW s, GoodSdp(s), NEW i \in Nat, i + 1 \in 1 .. Len(s.media), NEW u, After(s, u, i)
  PROVE  \E v : Runs(u, WriteSdpMedia(s.media[i + 1]), v) /\ After(s, v, i + 1)
<1>1. PICK m : m = s.media[i + 1] /\ GoodMedia(m)
  BY DEF GoodSdp
<1>2. /\ IsSdp(u) /\ ~u.skip /\ u.url = << >> /\ Len(u.media) = i
      /\ \A j \in 1 .. i : u.media[j].url = << >>
  BY DEF After
<1>3. PICK v : /\ Runs(u, WriteSdpMedia(m), v) /\ Within(v, i, u.media)
               /\ Said(Media(v)) = Said(m) /\ Media(v).url = << >>
  BY <1>1, <1>2, BlockAgain
<1>4. /\ IsSdp(v) /\ ~v.skip /\ v.url = << >> /\ Len(v.media) = i + 1
      /\ \A j \in 1 .. i : v.media[j] = u.media[j]
  BY <1>3 DEF Within
<1>5. Media(v) = v.media[i + 1]
  BY ONLY <1>4 DEF Media
<1>6. \A j \in 1 .. i + 1 : v.media[j].url = << >> /\ Said(v.media[j]) = Said(s.media[j])
  <2>1. ASSUME NEW j \in 1 .. i + 1 PROVE v.media[j].url = << >> /\ Said(v.media[j]) = Said(s.media[j])
    <3>1. CASE j = i + 1
      BY ONLY <1>1, <1>3, <1>5, <3>1
    <3>2. CASE j # i + 1
      <4>1. j \in 1 .. i
        BY <3>2
      <4>2. u.media[j].url = << >> /\ Said(u.media[j]) = Said(s.media[j])
        BY <4>1 DEF After
      <4> QED BY ONLY <1>4, <4>1, <4>2
    <3> QED BY <3>1, <3>2
  <2> QED BY <2>1
<1>7. After(s, v, i + 1)
  <2>1. i + 1 \in Nat
    OBVIOUS
  <2> QED BY ONLY <1>4, <1>6, <2>1 DEF After
<1> QED BY <1>1, <1>3, <1>7

\* What FlattenSeq calculates.
Flattens(g, q, n) == g = [i \in 1 .. n |-> IF i = 1 THEN q[i] ELSE g[i - 1] \o q[i]]

LEMMA FlattensExists ==
  ASSUME NEW q, NEW n \in Nat
  PROVE  \E g : Flattens(g, q, n)
<1> DEFINE B == {k \in Nat : ~\E g : Flattens(g, q, k)}
<1>1. SUFFICES ASSUME B # {} PROVE FALSE
  OBVIOUS
<1>2. PICK k \in B : \A j \in B : k <= j
  <2>1. B \subseteq Nat
    OBVIOUS
  <2> QED BY <1>1, <2>1, MinIs
<1>3. CASE k = 0
  <2> DEFINE g == [i \in 1 .. 0 |-> q[i]]
  <2>1. Flattens(g, q, 0)
    BY DEF Flattens
  <2> QED BY <1>2, <1>3, <2>1
<1>4. CASE k # 0
  <2>1. k - 1 \in Nat /\ k - 1 \notin B
    BY <1>2, <1>4
  <2>2. PICK f : Flattens(f, q, k - 1)
    BY <2>1
  <2> DEFINE g == [i \in 1 .. k |-> IF i = 1 THEN q[i] ELSE f[i - 1] \o q[i]]
  <2>3. \A i \in 1 .. k - 1 : f[i] = IF i = 1 THEN q[i] ELSE f[i - 1] \o q[i]
    BY <2>2 DEF Flattens
  <2>4. \A i \in 1 .. k - 1 : g[i] = f[i]
    BY <2>1, <2>3
  <2>5. \A i \in 1 .. k : i # 1 => f[i - 1] = g[i - 1]
    <3>1. \A i \in 1 .. k : i # 1 => i - 1 \in 1 .. k - 1
      BY <2>1
    <3> HIDE DEF g
    <3> QED BY <2>4, <3>1
  <2>6. g = [i \in 1 .. k |-> IF i = 1 THEN q[i] ELSE g[i - 1] \o q[i]]
    BY <2>5
  <2>7. Flattens(g, q, k)
    BY <2>6 DEF Flattens
  <2> QED BY <1>2, <2>7
<1> QED BY <1>3, <1>4

\* The blocks of all media, read behind what is in front of them.
LEMMA BlocksRun ==
  ASSUME NEW s, GoodSdp(s), NEW r, After(s, r, 0), NEW n, n = Len(s.media), NEW q,
         q = [i \in DOMAIN s.media |-> WriteSdpMedia(s.media[i])]
  PROVE  \E u : Runs(r, FlattenSeq(q), u) /\ After(s, u, n)
<1>1. n \in Nat /\ DOMAIN s.media = 1 .. n
  <2>1. PICK S : s.media \in Seq(S)
    BY DEF GoodSdp, IsSdp, IsSeq
  <2> QED BY ONLY <2>1, n = Len(s.media), LenProperties
<1>2. PICK S : S = {WriteSdpMedia(s.media[i]) : i \in 1 .. n}
  OBVIOUS
<1>3. \A i \in 1 .. n : q[i] = WriteSdpMedia(s.media[i])
  BY ONLY <1>1, q = [i \in DOMAIN s.media |-> WriteSdpMedia(s.media[i])]
<1>4. q \in Seq(S) /\ Len(q) = n
  <2>1. q \in [1 .. n -> S]
    BY ONLY <1>1, <1>2, q = [i \in DOMAIN s.media |-> WriteSdpMedia(s.media[i])]
  <2>2. q \in Seq(S)
    BY <1>1, <2>1, SeqDef
  <2>3. DOMAIN q = 1 .. Len(q) /\ DOMAIN q = 1 .. n /\ Len(q) \in Nat
    BY <2>1, <2>2, LenProperties
  <2>4. Len(q) = n
    <3>1. PICK l : l = Len(q) /\ l \in Nat /\ 1 .. l = 1 .. n
      BY ONLY <2>3
    <3>2. (l # 0 => l \in 1 .. l) /\ (n # 0 => n \in 1 .. n)
      BY ONLY <1>1, <3>1
    <3>3. l = n
      BY ONLY <1>1, <3>1, <3>2
    <3> QED BY <3>1, <3>3
  <2> QED BY <2>2, <2>4
<1>5. CASE n = 0
  <2>1. FlattenSeq(q) = q
    BY <1>4, <1>5 DEF FlattenSeq
  <2>2. q = << >>
    BY <1>4, <1>5, EmptySeq
  <2> QED BY <1>5, <2>1, <2>2, RunsNone
<1>6. CASE n # 0
  <2>1. PICK g : Flattens(g, q, n) /\ FlattenSeq(q) = g[n]
    <3>1. PICK f : f = CHOOSE g : Flattens(g, q, n)
      OBVIOUS
    <3>2. FlattenSeq(q) = f[n]
      BY <1>4, <1>6, <3>1 DEF FlattenSeq, Flattens
    <3>3. Flattens(f, q, n)
      BY <1>1, <3>1, FlattensExists
    <3> QED BY <3>2, <3>3
  <2>2. \A i \in 1 .. n : g[i] = IF i = 1 THEN q[i] ELSE g[i - 1] \o q[i]
    BY <2>1 DEF Flattens
  <2> DEFINE B == {k \in Nat : k \in 1 .. n /\ ~\E u : Runs(r, g[k], u) /\ After(s, u, k)}
  <2>3. SUFFICES ASSUME B # {} PROVE FALSE
    <3>1. n \in 1 .. n
      BY <1>1, <1>6
    <3>2. ASSUME B = {} PROVE \E u : Runs(r, g[n], u) /\ After(s, u, n)
      BY <1>1, <3>1, <3>2
    <3> QED BY <2>1, <3>2
  <2>4. PICK k \in B : \A j \in B : k <= j
    <3>1. B \subseteq Nat
      OBVIOUS
    <3> QED BY <2>3, <3>1, MinIs
  <2>5. k \in 1 .. n /\ ~\E u : Runs(r, g[k], u) /\ After(s, u, k)
    BY <2>4
  <2>6. PICK m \in Nat : k = m + 1
    BY <1>1, <2>5
  <2>7. m + 1 \in 1 .. Len(s.media) /\ q[k] = WriteSdpMedia(s.media[m + 1])
    BY <1>3, <2>5, <2>6
  <2>8. CASE m = 0
    <3>1. PICK u : Runs(r, q[k], u) /\ After(s, u, m + 1)
      BY <2>7, <2>8, BlockStep
    <3>2. g[k] = q[k]
      BY <2>2, <2>5, <2>6, <2>8
    <3> QED BY <2>5, <2>6, <3>1, <3>2
  <2>9. CASE m # 0
    <3>1. m \in 1 .. n /\ m \in Nat /\ ~(k <= m) /\ k # 1 /\ k - 1 = m
      BY <1>1, <2>5, <2>6, <2>9
    <3>2. m \notin B
      BY ONLY <2>4, <3>1
    <3>3. PICK u : Runs(r, g[m], u) /\ After(s, u, m)
      BY <3>1, <3>2
    <3>4. PICK v : Runs(u, q[k], v) /\ After(s, v, m + 1)
      BY <2>7, <3>3, BlockStep
    <3>5. g[k] = g[m] \o q[k]
      BY <2>2, <2>5, <3>1
    <3>6. Runs(r, g[k], v)
      BY <3>3, <3>4, <3>5, RunsBoth
    <3> QED BY <2>5, <2>6, <3>4, <3>6
  <2> QED BY <2>8, <2>9
<1> QED BY <1>5, <1>6

LEMMA GoodDescribed ==
  ASSUME NEW s, GoodSdp(s)
  PROVE  LET again == ParseSDP(GenSDP(s)).media
         IN /\ DOMAIN again = DOMAIN s.media
            /\ \A i \in DOMAIN again : Said(again[i]) = Said(s.media[i])
<1>1. PICK r : Runs(EmptySdp, WriteSdpHeader(s), r) /\ AtFront(r)
  BY HeaderAgain
<1>2. After(s, r, 0)
  <2>1. Len(r.media) = 0
    BY <1>1 DEF AtFront, IsSession
  <2>2. \A i \in 1 .. 0 : FALSE
    OBVIOUS
  <2> QED BY <1>1, <2>1, <2>2 DEF AtFront, IsSession, After
<1>3. PICK n, q : n = Len(s.media) /\ q = [i \in DOMAIN s.media |-> WriteSdpMedia(s.media[i])]
  OBVIOUS
<1>4. PICK u : Runs(r, FlattenSeq(q), u) /\ After(s, u, n)
  BY <1>2, <1>3, BlocksRun
<1>5. PICK t : t = GenSDP(s) /\ Runs(EmptySdp, t, u)
  <2>1. GenSDP(s) = WriteSdpHeader(s) \o FlattenSeq(q)
    BY ONLY <1>3 DEF GenSDP
  <2> QED BY <1>1, <1>4, <2>1, RunsBoth
<1>6. ParseSDP(t) = u
  BY <1>5, RunsParse
<1>7. DOMAIN s.media = 1 .. n
  <2>1. PICK S : s.media \in Seq(S)
    BY DEF GoodSdp, IsSdp, IsSeq
  <2> QED BY ONLY <1>3, <2>1, LenProperties
<1>8. DOMAIN u.media = 1 .. n
  <2>1. PICK S : u.media \in Seq(S)
    BY <1>4 DEF After, IsSdp, IsSeq
  <2>2. Len(u.media) = n
    BY <1>4 DEF After
  <2> QED BY ONLY <2>1, <2>2, LenProperties
<1>9. \A i \in 1 .. n : Said(u.media[i]) = Said(s.media[i])
  BY <1>4 DEF After
<1> QED BY ONLY <1>5, <1>6, <1>7, <1>8, <1>9

LEMMA InitGood == Init => GoodSdp(sdp)
BY EmptyGood DEF Init

LEMMA NextGood == PlainPaths /\ GoodSdp(sdp) /\ [Next]_vars => GoodSdp(sdp)'
<1>1. ASSUME PlainPaths, GoodSdp(sdp), Next PROVE GoodSdp(sdp)'
  <2>1. PICK line \in Line : sdp' = ParseSdpLine(sdp, line)
    BY <1>1, NextReads
  <2>2. GoodSdp(ParseSdpLine(sdp, line))
    BY <1>1, LineGood
  <2>3. GoodSdp(sdp')
    BY <2>1, <2>2
  <2> QED BY <2>3 DEF GoodSdp
<1>2. ASSUME GoodSdp(sdp), UNCHANGED vars PROVE GoodSdp(sdp)'
  <2>1. sdp' = sdp
    BY <1>2 DEF vars
  <2>2. GoodSdp(sdp')
    BY <1>2, <2>1
  <2> QED BY <2>2
<1> QED BY <1>1, <1>2

LEMMA GoodGives == GoodSdp(sdp) => DescribedAsAnnounced
<1> SUFFICES ASSUME GoodSdp(sdp) PROVE DescribedAsAnnounced
  OBVIOUS
<1>1. PICK s : s = sdp /\ GoodSdp(s)
  OBVIOUS
<1>2. LET again == ParseSDP(GenSDP(s)).media
      IN /\ DOMAIN again = DOMAIN s.media
         /\ \A i \in DOMAIN again : Said(again[i]) = Said(s.media[i])
  BY ONLY <1>1, GoodDescribed
<1> QED BY ONLY <1>1, <1>2 DEF DescribedAsAnnounced

\* However many lines a publisher sends, if none has a URL in the path of a URL:
\* a player that reads what is written of the description, by the rules the
\* parser has, gets the media that were announced, in their order, with format,
\* encoding, rate, size and path (SdpUtil::genSDP behind SdpUtil::parseSDP), the
\* parameters if their line has less than 1024 characters, and the bit rate in
\* thousands if it is positive, whatever toNum made of signs, trailing text and
\* numbers an int does not hold.  Texts are those that fit in their arrays.
THEOREM AnnouncedIsDescribed ==
  ASSUME PlainPaths
  PROVE  Spec => []DescribedAsAnnounced
<1>1. PlainPaths
  OBVIOUS
<1>2. Spec => Init /\ [][Next]_vars
  BY PTL DEF Spec
<1>3. GoodSdp(sdp) /\ [Next]_vars => GoodSdp(sdp)'
  BY <1>1, NextGood
<1> QED BY <1>2, <1>3, InitGood, GoodGives, PTL

===============================================================================
