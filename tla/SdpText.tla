------------------------------- MODULE SdpText -------------------------------
(***************************************************************************)
(* TokenUtil and HttpUtil::splitUrl.  A text is a sequence of words, where *)
(* a word is a delimiter (a blank, a slash, ...) or what stands between    *)
(* delimiters; a numeral is a word of its own.                             *)
(***************************************************************************)
EXTENDS Integers, Sequences, SequencesExt, TLC

CONSTANTS Number,   \* the numbers that occur in a text
          Mixed,    \* the words toNum reads a number in that are not its numeral
          INT_MAX

BLANK == " "
SEMICOLON == ";"
Delimiter == {BLANK, SEMICOLON, "/", ":", "=", "-"}

Numeral(n) == ToString(n)

\* What an int keeps of a number.
INT_MIN == -INT_MAX - 1
Wrap(n) ==
  IF n \in INT_MIN .. INT_MAX THEN n ELSE ((n - INT_MIN) % (2 * (INT_MAX + 1))) + INT_MIN

\* Numbers have numerals of their own, and no numeral is a delimiter.  A sign is
\* part of the word behind it; only in a frame size a "-" always stands alone.
\* Of a word that is mixed a number is read in front ("96x", "+5"), or it has a
\* single character ("x"); "more" counts the characters behind the number.
ASSUME NumberAssumption ==
  /\ INT_MAX \in Nat /\ Number \subseteq Int /\ 0 \in Number /\ Numeral(0) = "0"
  /\ \A n \in Number : Wrap(n) \in Number
  /\ \A n, k \in Number : Numeral(n) = Numeral(k) => n = k
  /\ \A n \in Number : Numeral(n) \notin Delimiter
  /\ \A w \in DOMAIN Mixed : Mixed[w].n \in Number /\ Mixed[w].more \in Nat

\* The number a word begins with, and what is behind it: at least two characters
\* in a word without a number, and a delimiter is one.
IsNumeral(w) == \E n \in Number : w = Numeral(n)
Begin(w) ==
  CASE IsNumeral(w) -> [n |-> CHOOSE n \in Number : w = Numeral(n), more |-> 0]
    [] ~IsNumeral(w) /\ w \in DOMAIN Mixed -> Mixed[w]
    [] OTHER -> [n |-> 0, more |-> IF w = "-" THEN 0 ELSE IF w \in Delimiter THEN 1 ELSE 2]

\* toNum stores the number in front of any text.  The text passes for a number
\* when at most one character is behind it.
Num(t) == IF t = << >> THEN 0 ELSE Wrap(Begin(t[1]).n)
IsNum(t) ==
  \/ Len(t) = 1 /\ Begin(t[1]).more <= 1
  \/ Len(t) = 2 /\ Begin(t[1]).more = 0 /\ t[2] \in Delimiter

\* The place of the first word that passes the test, 0 if there is none.
Find(t, w) == SelectInSeq(t, LAMBDA x : x = w)
FindFirstOf(t, delim) == SelectInSeq(t, LAMBDA x : x \in delim)

From(t, i) == SubSeq(t, i, Len(t))
SkipOf(t, delim) == From(t, SelectInSeq(t \o <<"end">>, LAMBDA x : x # delim))
Strip(t) == Reverse(SkipOf(Reverse(SkipOf(t, BLANK)), BLANK))

\* The next token: what stands before the next delimiter.  A blank token counts
\* as none.  What is left still begins with the delimiter.
TokenLen(t, delim) == Find(t \o <<delim>>, delim) - 1
Cut(t, n) == [ret |-> Strip(SubSeq(t, 1, n)), rest |-> From(t, n + 1)]
NextToken(t, delim) == Cut(t, TokenLen(t, delim))

\* The tokens up to each of the delimiters in turn, and what is left.
WithToken(got, token) == [got |-> Append(got, token.ret), rest |-> token.rest]
TakeNext(sofar, delim) ==
  WithToken(sofar.got, NextToken(SkipOf(sofar.rest, delim), delim))
Take(t, delims) ==
  LET Sofar[n \in 0 .. Len(delims)] ==
        IF n = 0 THEN [got |-> << >>, rest |-> t] ELSE TakeNext(Sofar[n - 1], delims[n])
  IN Sofar[Len(delims)]

\* Two parts around the first c, neither of which may be empty.
Split(t, c) ==
  LET i == Find(t, c)
  IN IF i > 1 THEN [key |-> Strip(SubSeq(t, 1, i - 1)), val |-> Strip(From(t, i + 1))]
     ELSE [key |-> << >>, val |-> << >>]
IsSplit(kv) == kv.key # << >> /\ kv.val # << >>

\* The scheme and the path of a URL.  What has no scheme is all path.
SplitUrl(uri) ==
  LET t == Strip(uri)
      i == Find(t, "/")
      isUrl == i > 1 /\ i < Len(t) /\ t[i - 1] = ":" /\ t[i + 1] = "/"
      rest == From(t, i + 2)
      j == FindFirstOf(rest, {"/", "?"})
  IN IF isUrl
     THEN [schema |-> Strip(SubSeq(t, 1, i - 2)),
           path |-> IF j = 0 THEN << >> ELSE Strip(From(rest, j))]
     ELSE [schema |-> << >>, path |-> t]
=============================================================================
