----------------------------- MODULE HttpStream -----------------------------
(***************************************************************************)
(* What a peer of an HTTP or RTSP connection sends, and the frames that    *)
(* HttpTool::parseData owes its owner for it.                              *)
(*                                                                         *)
(* A character is a record of a type and a number.  CR, LF, the digits of  *)
(* a chunk length and the bytes of a body are characters of their own; the *)
(* text of a head line is one character that says what the line is, with   *)
(* "pad" characters after it where its length matters.                     *)
(***************************************************************************)
EXTENDS Integers, SequencesExt

CONSTANTS MAX_BODY_SIZE,   \* bytes of a body in one frame
          Plans            \* what connections carry, built by Plan below

Chars == [t : STRING, n : Int]

ASSUME StreamAssumption ==
  MAX_BODY_SIZE \in Nat \ {0} /\ \A p \in Plans : p.chars \in Seq(Chars)

Char(type, n) == [t |-> type, n |-> n]
CR == Char("cr", 0)
LF == Char("lf", 0)

\* The types of the texts that open a line that splitCmdLine and
\* splitHeadLine accept: a request or status line, a field, Content-Length
\* (with its number, -1 for one that toNum refuses) and chunked encoding.
FieldTypes == {"field", "length", "chunked"}
HeadTypes == {"cmd"} \cup FieldTypes

\* The bytes of the body of a message, and where they are in it.
Body(chars) == SelectSeq(chars, LAMBDA c : c.t = "data")
BodyAt(chars) ==
  SetToSortSeq({k \in DOMAIN chars : chars[k].t = "data"}, LAMBDA a, b : a < b)

\* The frames of a message: its body in pieces of MAX_BODY_SIZE, at least one
\* piece, the last one marked.  "need" is how much of the message has to be
\* there: up to the next byte of the body if there is one, or all of it.
Pieces(chars) ==
  LET body == Body(chars)
      at == BodyAt(chars)
      count == IF body = <<>> THEN 1 ELSE (Len(body) - 1) \div MAX_BODY_SIZE + 1
  IN [k \in 1 .. count |->
        LET beg == (k - 1) * MAX_BODY_SIZE
        IN [m_frame_beg |-> beg,
            m_body |-> SubSeq(body, beg + 1,
                              IF k = count THEN Len(body) ELSE k * MAX_BODY_SIZE),
            m_is_end |-> k = count,
            m_ranges |-> SelectSeq(chars, LAMBDA c : c.t \in HeadTypes),
            need |-> IF k = count THEN Len(chars)
                                  ELSE at[k * MAX_BODY_SIZE + 1] - 1]]

\* What a connection carries and what has to come out of it.  A message that
\* is "bad" breaks the connection, one at a "limit" may.
Plan(messages) ==
  LET chars == FlattenSeq([i \in DOMAIN messages |-> messages[i].chars])
      Offset(i) == Len(FlattenSeq([j \in 1 .. i - 1 |-> messages[j].chars]))
      First(kinds) == {i \in DOMAIN messages : messages[i].kind \in kinds}
      upto == Min({Len(messages)} \cup First({"bad"}))
      Owed(i) == LET p == Pieces(messages[i].chars)
                 IN [k \in 1 .. (IF messages[i].kind = "bad" THEN Len(p) - 1 ELSE Len(p)) |->
                       [p[k] EXCEPT !.need = @ + Offset(i)]]
  IN [chars |-> chars,
      owed |-> FlattenSeq([i \in 1 .. upto |-> Owed(i)]),
      safe |-> Min({Len(chars)} \cup {Offset(i) : i \in First({"bad", "limit"})})]

\* The frame number k as HttpCenter::creatFrameHd numbers it.
Frame(p, k) ==
  [m_seq |-> k, m_ranges |-> p.owed[k].m_ranges,
   m_frame_beg |-> p.owed[k].m_frame_beg, m_body |-> p.owed[k].m_body,
   m_is_end |-> p.owed[k].m_is_end]
=============================================================================
