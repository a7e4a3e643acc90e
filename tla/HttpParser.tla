----------------------------- MODULE HttpParser -----------------------------
(***************************************************************************)
(* HttpTool::parseData on one connection.  The socket frame calls it with  *)
(* one fragment of the bytes after the other; it runs the handler of the   *)
(* current read state until a handler finds the fragment empty or gives    *)
(* up.  A step of the model is one iteration of that loop (one character   *)
(* of it in readCRLF).                                                     *)
(***************************************************************************)
EXTENDS HttpStream

CONSTANTS MAX_LINE_CNT, MAX_HEAD_SIZE, MAX_CHUNK_HD_LEN, MAX_CONTENT_SIZE,
          INT_MAX     \* the largest value of an int, 2^31 - 1 in the code

ASSUME ParserAssumption ==
  /\ MAX_LINE_CNT \in Nat \ {0} /\ MAX_HEAD_SIZE \in Nat \ {0}
  /\ MAX_CHUNK_HD_LEN \in Nat \ {0}
  /\ MAX_CONTENT_SIZE \in Nat /\ INT_MAX \in Nat

VARIABLES plan,     \* the traffic of the connection, see HttpStream
          pos,      \* how far it is read: the first character is pos + 1
          upto,     \* where it ends: the bytes that arrived
          parsing,  \* parseData is running
          ctx,      \* the connection's HttpCtx
          frames,   \* what was dispatched
          lines     \* the last place the last readHead wrote in its array lines

token == <<pos, upto>>
vars == <<plan, token, parsing, ctx, frames, lines>>

Smaller(a, b) == IF a < b THEN a ELSE b

\* An int that left its range on the upper side.
Wrap(n) == IF n > INT_MAX THEN n - 2 * (INT_MAX + 1) ELSE n

\* A context as allocHttp and resetCtx leave it.  m_head, m_body and m_tmp
\* are the characters in them, m_ranges the first character of each line.
Ctx ==
  [m_rd_stat |-> "HTTP_HD", m_err_code |-> "none", m_rd_len |-> 0,
   m_head |-> <<>>, m_ranges |-> <<>>, m_body |-> <<>>, m_tmp |-> <<>>,
   m_content_len |-> 0, m_frame_beg |-> 0, m_is_chunk |-> FALSE, m_seq |-> 0]

Init ==
  /\ plan \in Plans
  /\ pos = 0 /\ upto = 0
  /\ parsing = FALSE
  /\ ctx = Ctx
  /\ frames = <<>>
  /\ lines = 0

\* What is left of the fragment.
Rest == SubSeq(plan.chars, pos + 1, upto)

\* The network hands over the next fragment.
Receive ==
  /\ ~parsing
  /\ ctx.m_err_code = "none"
  /\ \E n \in upto + 1 .. Len(plan.chars) : upto' = n
  /\ pos' = upto
  /\ parsing' = TRUE
  /\ UNCHANGED <<plan, ctx, frames, lines>>

\* The loop goes to a handler as long as there is no error.
At(stat) == /\ parsing
            /\ ctx.m_err_code = "none"
            /\ ctx.m_rd_stat = stat

\* Mutant: the loop stops when the fragment is used up.
ReadsOrEnds == {"HTTP_HD", "CONTENT", "CHUNK_HD", "CHUNK_BODY", "CHUNK_CRLF",
                "CHUNK_TAIL", "COMPLETED"}
\* The handlers that read return at once when the fragment is used up.
Reads == {"HTTP_HD", "CONTENT", "CHUNK_HD", "CHUNK_BODY", "CHUNK_CRLF", "CHUNK_TAIL"}

Return ==
  /\ parsing
  /\ ctx.m_err_code # "none" \/ (ctx.m_rd_stat \in Reads /\ pos = upto)
  /\ parsing' = FALSE
  /\ UNCHANGED <<plan, token, ctx, frames, lines>>

\* What a handler does to the context and the fragment, and to those only.
Turn(c, p) ==
  /\ ctx' = c
  /\ pos' = p
  /\ UNCHANGED <<plan, upto, parsing, frames>>

Failed(err) == [ctx EXCEPT !.m_err_code = err]

\* All handlers but readHead have no array of their own.
Handler(c, p) == Turn(c, p) /\ UNCHANGED lines
Fail(err) == Handler(Failed(err), pos)

-----------------------------------------------------------------------------
\* The head.

Feeds(h) == {q \in DOMAIN h : h[q] = LF}
\* Where the line begins that holds position q of a head, and its text.
LineBeg(h, q) == Max({0} \cup {l \in Feeds(h) : l < q})
Text(h, q) == h[LineBeg(h, q) + 1]

\* A line end without CR, an empty line, a head beyond its limits.
Bare(h, q) == q = 1 \/ h[q - 1] # CR
Empty(h, q) == q - LineBeg(h, q) = 2
Lines(h, q) == Cardinality({l \in Feeds(h) : l <= q})
IsValidHeadOff(h, q) ==  \* mutant: one line more than there is room for
  MAX_LINE_CNT >= Lines(h, q) /\ MAX_HEAD_SIZE > q
IsValidHead(h, q) == MAX_LINE_CNT > Lines(h, q) /\ MAX_HEAD_SIZE > q

\* The first line is split by splitCmdLine, the others by splitHeadLine.
Splits(h, q) ==
  LET type == h[LineBeg(h, q) + 1].t
  IN IF Lines(h, q) = 1 THEN type = "cmd" ELSE type \in FieldTypes

\* readHead takes lines up to the first one that is empty or an error, or the
\* whole fragment; old is how much of the head was there before.
Stops(h, old) ==
  {q \in Feeds(h) : old < q /\ (Bare(h, q) \/ Empty(h, q) \/ ~IsValidHead(h, q))}
UpTo(h, old) == Min({Len(h)} \cup Stops(h, old))

\* analyseHead goes through the lines that were completed.
Completed(h, old, q) == {l \in Feeds(h) : old < l /\ l <= q /\ ~Empty(h, l)}
\* The position with k of the set up to it
Nth(S, k) == CHOOSE x \in S : Cardinality({y \in S : y <= x}) = k
AnalyseHead(h, old, q) ==
  LET ends == Completed(h, old, q)
  IN [k \in 1 .. Cardinality(ends) |-> Text(h, Nth(ends, k))]

\* How many of them this call went through: it has written lines[0] up to the
\* place with this number when it looks whether that is too many.
LineNo(h, old, q) == Cardinality({l \in Completed(h, old, q) : ~Bare(h, l)})

\* One line too many is written to the place behind the array before the head is
\* refused.  The model goes on as if nothing else were there.
ReadHead ==
  /\ At("HTTP_HD") /\ pos < upto
  /\ \E h \in {ctx.m_head \o Rest} : \E q \in {UpTo(h, Len(ctx.m_head))} :
       LET old == Len(ctx.m_head)
           stop == q \in Stops(h, old)
           newline == stop /\ Bare(h, q)
           empty == stop /\ ~Bare(h, q) /\ Empty(h, q)
           valid == ~newline /\ (empty \/ IsValidHead(h, q))
           splits == \A l \in Completed(h, old, q) : Splits(h, l)
       IN /\ lines' = LineNo(h, old, q)
          /\ \/ newline /\ Turn(Failed("NEWLINE"), pos)
             \/ ~newline /\ ~valid /\ Turn(Failed("HD"), pos)
             \/ valid /\ Turn(Failed("ALLOC"), pos)
             \/ valid /\ ~splits /\ Turn(Failed("LINE"), pos)
             \/ /\ valid /\ splits
                /\ Turn([ctx EXCEPT
                     !.m_head = SubSeq(h, 1, q),
                     !.m_ranges = @ \o AnalyseHead(h, old, q),
                     !.m_rd_len = IF empty THEN 0 ELSE q - Max({0} \cup Feeds(h)),
                     !.m_rd_stat = IF empty THEN "POST_HD" ELSE @], pos + q - old)

\* The first Content-Length or chunked encoding decides what follows.
ReadPostHd ==
  /\ At("POST_HD")
  /\ LET r == ctx.m_ranges
         deciding == {i \in 2 .. Len(r) : r[i].t \in {"length", "chunked"}}
         field == IF deciding = {} THEN Char("length", 0) ELSE r[Min(deciding)]
         sized == field.t = "length"
         valid == field.n \in 0 .. MAX_CONTENT_SIZE - 1
     IN \/ r = <<>> /\ Fail("ZERO_LINE")
        \/ r # <<>> /\ sized /\ ~valid /\ Fail("CONTENT_LEN")
        \/ /\ r # <<>> /\ ~sized
           /\ Handler([ctx EXCEPT !.m_is_chunk = TRUE, !.m_rd_stat = "CHUNK_HD"], pos)
        \/ /\ r # <<>> /\ sized /\ valid
           /\ Handler([ctx EXCEPT !.m_content_len = field.n,
                         !.m_rd_stat = IF 0 < field.n THEN "PREPARE_BODY" ELSE "COMPLETED"],
                      pos)
-----------------------------------------------------------------------------
\* The body.

\* How much readBodyData takes from the fragment.
Wanted == Smaller(ctx.m_rd_len - Len(ctx.m_body), upto - pos)
Filled == IF Wanted > 0 THEN ctx.m_body \o SubSeq(Rest, 1, Wanted) ELSE ctx.m_body
Taken == IF Wanted > 0 THEN pos + Wanted ELSE pos

PrepareBody ==
  /\ At("PREPARE_BODY")
  /\ \/ Handler([ctx EXCEPT
          !.m_rd_len = Smaller(ctx.m_content_len - ctx.m_frame_beg, MAX_BODY_SIZE),
          !.m_rd_stat = "CONTENT"], pos)
     \/ Fail("ALLOC")

ReadBody ==
  /\ At("CONTENT") /\ pos < upto
  /\ Handler([ctx EXCEPT
       !.m_body = Filled,
       !.m_rd_stat = IF Len(Filled) < ctx.m_rd_len THEN @
                     ELSE IF ctx.m_frame_beg + ctx.m_rd_len < ctx.m_content_len
                          THEN "FRAME_COMPLETED" ELSE "COMPLETED"], Taken)

\* parseChunkLen: the number, or -1 for none or one beyond the limit.
ChunkLen(text) ==
  IF /\ Len(text) = 1 /\ text[1].t = "hex" /\ text[1].n >= 0
     /\ MAX_CONTENT_SIZE > Wrap(text[1].n + ctx.m_content_len)
  THEN text[1].n ELSE -1

\* What was read behind the LF at q.  Mutants: all of the line's fragments, and
\* the LF with it.
GivenBackAll(tmp, q) == Len(tmp)
GivenBackLf(tmp, q) == Len(tmp) - q + 1
GivenBack(tmp, q) == Len(tmp) - q

\* A chunk length is looked for in what was read so far of the line and what
\* of the fragment fits; what follows the line goes back to the fragment.
ReadChunkHd ==
  /\ At("CHUNK_HD") /\ pos < upto
  /\ \E n \in {Smaller(MAX_CHUNK_HD_LEN - ctx.m_rd_len, upto - pos)} :
     \E tmp \in {ctx.m_tmp \o SubSeq(Rest, 1, n)} :
       LET q == Min(Feeds(tmp) \cup {Len(tmp)})
           line == tmp[q] = LF
           len == IF line /\ ~Bare(tmp, q) THEN ChunkLen(SubSeq(tmp, 1, q - 2)) ELSE -1
       IN \/ /\ ~line /\ Len(tmp) < MAX_CHUNK_HD_LEN
             /\ Handler([ctx EXCEPT !.m_tmp = tmp, !.m_rd_len = Len(tmp)], pos + n)
          \/ ~line /\ Len(tmp) >= MAX_CHUNK_HD_LEN /\ Fail("CHUNK_LEN")
          \/ line /\ len = -1 /\ Fail("CHUNK_LEN")
          \/ /\ line /\ len # -1
             /\ Handler([ctx EXCEPT !.m_tmp = <<>>, !.m_rd_len = 0,
                           !.m_content_len = Wrap(@ + len),
                           !.m_rd_stat = IF 0 < len THEN "PREPARE_CHUNK" ELSE "CHUNK_TAIL"],
                        pos + n - GivenBack(tmp, q))

\* A full frame goes out before more of the chunk is read.
PrepareChunk ==
  /\ At("PREPARE_CHUNK")
  /\ LET rdlen == Len(ctx.m_body)
         room == Smaller(ctx.m_content_len - ctx.m_frame_beg, MAX_BODY_SIZE)
     IN IF rdlen >= MAX_BODY_SIZE
        THEN Handler([ctx EXCEPT !.m_rd_stat = "CHUNK_COMPLETED"], pos)
        ELSE \/ Handler([ctx EXCEPT !.m_rd_len = room, !.m_rd_stat = "CHUNK_BODY"], pos)
             \/ Fail("ALLOC")

ReadChunk ==
  /\ At("CHUNK_BODY") /\ pos < upto
  /\ LET done == Len(Filled) >= ctx.m_rd_len
         more == ctx.m_frame_beg + ctx.m_rd_len < ctx.m_content_len
     IN Handler([ctx EXCEPT
          !.m_body = Filled,
          !.m_rd_len = IF done THEN 0 ELSE @,
          !.m_rd_stat = IF ~done THEN @ ELSE IF more THEN "PREPARE_CHUNK" ELSE "CHUNK_CRLF"],
          Taken)

\* readCRLF, after a chunk or, at the end, after the empty chunk.
ReadCRLF(stat, next) ==
  /\ At(stat) /\ pos < upto
  /\ IF Rest[1] # (IF ctx.m_rd_len = 0 THEN CR ELSE LF)
     THEN Fail("CHUNK_BODY")
     ELSE Handler(IF ctx.m_rd_len = 0
                  THEN [ctx EXCEPT !.m_rd_len = 1]
                  ELSE [ctx EXCEPT !.m_rd_len = 0, !.m_rd_stat = next], pos + 1)

ReadChunkCRLF == ReadCRLF("CHUNK_CRLF", "CHUNK_HD")
ReadChunkTail == ReadCRLF("CHUNK_TAIL", "COMPLETED")
-----------------------------------------------------------------------------
\* Dispatching.

\* creatFrameHd counts the frame, whether it can be dispatched or not.
Dispatch(isEnd, c) ==
  /\ UNCHANGED <<plan, token, parsing, lines>>
  /\ \/ /\ frames' = Append(frames,
             [m_seq |-> ctx.m_seq + 1, m_ranges |-> ctx.m_ranges,
              m_frame_beg |-> ctx.m_frame_beg, m_body |-> ctx.m_body,
              m_is_end |-> isEnd])
        /\ ctx' = [c EXCEPT !.m_seq = ctx.m_seq + 1]
     \/ /\ ctx' = [ctx EXCEPT !.m_seq = @ + 1, !.m_err_code = "DISPATCH"]
        /\ UNCHANGED frames

\* A frame of a message is out, and the next one is empty.
NextFrame(stat) ==
  [ctx EXCEPT !.m_frame_beg = @ + Len(ctx.m_body), !.m_rd_len = 0,
              !.m_body = <<>>, !.m_rd_stat = stat]

CompleteFrame ==
  At("FRAME_COMPLETED") /\ Dispatch(FALSE, NextFrame("PREPARE_BODY"))

CompleteChunk ==
  At("CHUNK_COMPLETED") /\ Dispatch(FALSE, NextFrame("PREPARE_CHUNK"))

\* The context is reset; only the frame counter lives on.
CompleteMsg ==
  At("COMPLETED") /\ Dispatch(TRUE, Ctx)
-----------------------------------------------------------------------------
ParseData ==
  \/ Return
  \/ ReadHead \/ ReadPostHd
  \/ PrepareBody \/ ReadBody \/ CompleteFrame
  \/ ReadChunkHd \/ PrepareChunk \/ ReadChunk \/ ReadChunkCRLF \/ ReadChunkTail
  \/ CompleteChunk \/ CompleteMsg

Next == Receive \/ ParseData

\* The loop waits for nothing, so that it goes on while it can.  Nothing is
\* assumed of the peer and the network.
Spec == Init /\ [][Next]_vars /\ WF_vars(ParseData)
-----------------------------------------------------------------------------
\* Properties.

\* readChunkHd reads ahead and gives back what follows the length, but never
\* more than it took from this fragment: no byte is read twice.
NeverBack == [][pos' >= pos]_vars

\* readHead writes to no place behind its array: a head with "too many head
\* lines" is refused (httptool.cpp:283 and 336).  The code does not keep to it.
LinesKept == lines < MAX_LINE_CNT

\* What is kept from one fragment to the next fits the arrays m_ranges and
\* m_tmp and the limits on the head and the body of a frame, however often
\* the peer adds to a line, a chunk length or a chunk; nothing is read beyond the
\* fragment, and nothing is left of it, unread and lost, when parseData returns.
\* The array lines, which is not kept, is exceeded by one place at most, and then
\* the connection is given up.
BuffersKept ==
  /\ lines <= MAX_LINE_CNT /\ (lines = MAX_LINE_CNT => ctx.m_err_code = "HD")
  /\ pos \in 0 .. upto /\ upto <= Len(plan.chars)
  /\ ~parsing /\ ctx.m_err_code = "none" => pos = upto
  /\ Len(ctx.m_ranges) < MAX_LINE_CNT
  /\ Len(ctx.m_head) < MAX_HEAD_SIZE + 2
  /\ Len(ctx.m_tmp) < MAX_CHUNK_HD_LEN
  /\ Len(ctx.m_body) <= MAX_BODY_SIZE
  /\ ctx.m_rd_stat = "CHUNK_HD" => ctx.m_rd_len = Len(ctx.m_tmp)

\* When parseData returns, every frame whose bytes have arrived was dispatched:
\* no message waits for the one after it.
Prompt ==
  ~parsing /\ ctx.m_err_code = "none" =>
    \A k \in DOMAIN plan.owed : plan.owed[k].need <= upto => k <= Len(frames)

\* However the bytes are cut, the frames that come out are those of the
\* messages, in order, none early, each in the end; only malformed input, input
\* at a limit and failing resources break the connection.
Promised ==
  INSTANCE HttpFrames WITH
    received <- upto,
    broken <- CASE ctx.m_err_code = "none" -> "no"
                [] ctx.m_err_code \in {"ALLOC", "DISPATCH"} -> "resource"
                [] OTHER -> "input"

ImplementsFrames == Promised!Spec
=============================================================================
