------------------------------- MODULE HttpEcho -------------------------------
(***************************************************************************)
(* HttpCenter (http/httpcenter.cpp) on both ends of a connection, with its *)
(* owners: HttpSvr and HttpCli of Service (service.cpp), and the dealers   *)
(* RtspHandler and TestDemo (http/demo.cpp) that answer what arrives.      *)
(*                                                                         *)
(* The server end of a connection always is HttpSvr.  The client end is    *)
(* HttpCli or, for the other connections, a peer that sends any requests.  *)
(* The parser turns what arrives into frames, see HttpParser; here reading *)
(* a head, reading a piece of a body and dispatching a frame are one step  *)
(* each.  Frames, replies and the context share their texts: a cache       *)
(* counts its users, and one that is given up may be handed out again for  *)
(* another text.                                                           *)
(*                                                                         *)
(* The socket frame, an external library, calls one handler at a time, in  *)
(* any order for different ends, keeps the order of the messages of an     *)
(* end, and may give up a connection whenever it likes.                    *)
(***************************************************************************)
EXTENDS Integers, FiniteSets, SequencesExt

CONSTANTS
  Conn,                 \* connections
  Cli,                  \* those of HttpCli
  Traffic,              \* which of them there may be at once
  Requests,             \* what a peer may ask
  CliRequest,           \* what HttpCli asks: built from GlobalConf
  m_first_send_cnt,     \* how many requests HttpCli sends at first
  MaxRequests,          \* bound: requests of a peer
  MaxCaches             \* bound: caches in use at once

\* A message: its number on the connection, the protocol, whether the connection
\* goes on, and the frames of its body.
Texts == [id : Nat, rtsp : BOOLEAN, alive : BOOLEAN, body : Seq(Nat \X Nat)]

\* RTSP requests fit in a frame: RtspHandler would answer each frame of a longer
\* one.
ASSUME EchoAssumption ==
  /\ Cli \subseteq Conn
  /\ Requests \subseteq Texts /\ CliRequest \in Texts
  /\ \A r \in Requests : r.rtsp => Len(r.body) <= 1
  /\ m_first_send_cnt \in Nat \ {0} /\ MaxCaches \in Nat
  /\ CliRequest.alive /\ ~CliRequest.rtsp

Id == 1 .. MaxCaches
None == 0

VARIABLES
  stat,      \* of each end: "none", "connecting", "open", "closing", "closed"
  ctx,       \* the HttpCtx of each end
  wire,      \* messages that arrive at each end, not completely parsed
  queue,     \* frames dispatched to each end, not processed
  out,       \* messages each end sends, not written
  caches,    \* users and text of each cache
  asked,     \* history: the requests of each peer
  answered   \* history: what came back

vars == <<stat, ctx, wire, queue, out, caches, asked, answered>>

End == Conn \X {"svr", "cli"}
Svr(c) == <<c, "svr">>
Peer(e) == <<e[1], IF e[2] = "svr" THEN "cli" ELSE "svr">>
-------------------------------------------------------------------------------
\* CacheUtil

\* A text: the head of a message, or a part of a body.
BodyText(pieces) == [id |-> 0, rtsp |-> FALSE, alive |-> FALSE, body |-> pieces]
NoText == BodyText(<<>>)

\* A text is made while there is a cache for it.
Room == \E i \in Id : caches[i].ref = 0
Unused(cs) == CHOOSE i \in Id : cs[i].ref = 0 /\ \A j \in 1 .. i - 1 : cs[j].ref > 0
Alloc(cs, text) == [cs EXCEPT ![Unused(cs)] = [ref |-> 1, text |-> text]]
Ref(cs, i) == IF i = None THEN cs ELSE [cs EXCEPT ![i].ref = @ + 1]
\* A text that is given up is gone.
Del(cs, i) ==
  IF i = None THEN cs
  ELSE [cs EXCEPT ![i] = IF @.ref = 1 THEN [ref |-> 0, text |-> NoText]
                                      ELSE [ref |-> @.ref - 1, text |-> @.text]]
\* Del for each of a sequence, in any order.
Count(is, i) == Cardinality({k \in DOMAIN is : is[k] = i})
DelAll(cs, is) ==
  [i \in Id |-> LET left == cs[i].ref - Count(is, i)
                IN [ref |-> left, text |-> IF left > 0 THEN cs[i].text ELSE NoText]]
\* MsgCenter::freeFrameHdCb
DelFrame(cs, f) == Del(Del(cs, f.m_head), f.m_body)

\* HttpCenter::allocHttp and, after a message, resetCtx
HttpCtx == [m_head |-> None, m_body |-> None, m_frame_beg |-> 0]
NoCtx == [HttpCtx EXCEPT !.m_frame_beg = -1]

Init ==
  /\ \E C \in Traffic : stat = [e \in End |-> IF e[1] \in C THEN "none" ELSE "closed"]
  /\ ctx = [e \in End |-> NoCtx]
  /\ wire = [e \in End |-> <<>>]
  /\ queue = [e \in End |-> <<>>]
  /\ out = [e \in End |-> <<>>]
  /\ caches = [i \in Id |-> [ref |-> 0, text |-> NoText]]
  /\ asked = [c \in Conn |-> <<>>]
  /\ answered = [c \in Conn |-> <<>>]

-------------------------------------------------------------------------------
\* Connections

\* HttpSvr::onNewSock
OnNewSock(c) ==
  /\ stat[Svr(c)] = "none"
  /\ c \in Cli => stat[<<c, "cli">>] \in {"connecting", "open"}
  /\ stat' = [stat EXCEPT ![Svr(c)] = "open"]
  /\ ctx' = [ctx EXCEPT ![Svr(c)] = HttpCtx]
  /\ UNCHANGED <<wire, queue, out, caches, asked, answered>>

\* Service::addCli: the context is there before the connection.
AddCli(c) ==
  /\ c \in Cli
  /\ stat[<<c, "cli">>] = "none"
  /\ stat' = [stat EXCEPT ![<<c, "cli">>] = "connecting"]
  /\ ctx' = [ctx EXCEPT ![<<c, "cli">>] = HttpCtx]
  /\ UNCHANGED <<wire, queue, out, caches, asked, answered>>

OnConnFail(c) ==
  /\ stat[<<c, "cli">>] = "connecting"
  /\ stat' = [stat EXCEPT ![<<c, "cli">>] = "closed"]
  /\ ctx' = [ctx EXCEPT ![<<c, "cli">>] = NoCtx]
  /\ UNCHANGED <<wire, queue, out, caches, asked, answered>>

\* A message to send: its text, and the cache its body is in.
Sent(hd, cache) == [hd |-> hd, cache |-> cache]

\* genHttpReq and refMsg: one text for cnt messages; the first user, who made
\* it, gives it up.
GenHttpReq(cs, cnt) ==
  [cs EXCEPT ![Unused(cs)] = [ref |-> cnt, text |-> CliRequest]]

\* HttpCli::sendHttpReq
SendHttpReq(e, cnt) ==
  [out EXCEPT ![e] = @ \o [k \in 1 .. cnt |-> Sent(CliRequest, Unused(caches))]]

OnConnOK(c) ==
  /\ stat[<<c, "cli">>] = "connecting" /\ Room
  /\ stat' = [stat EXCEPT ![<<c, "cli">>] = "open"]
  /\ out' = SendHttpReq(<<c, "cli">>, m_first_send_cnt)
  /\ caches' = GenHttpReq(caches, m_first_send_cnt)
  /\ UNCHANGED <<ctx, wire, queue, asked, answered>>

\* What a connection that ends still holds.
Held(e) ==
  <<ctx[e].m_head, ctx[e].m_body>>
    \o [k \in DOMAIN queue[e] |-> queue[e][k].m_head]
    \o [k \in DOMAIN queue[e] |-> queue[e][k].m_body]
    \o [k \in DOMAIN out[e] |-> out[e][k].cache]

\* The socket frame ends a connection: closeData was called, the peer is gone, a
\* read timed out or failed, or the parser met an error.  It frees the messages
\* it still has, and onClose frees the context.
OnClose(e) ==
  /\ stat[e] \in {"open", "closing"}
  /\ stat' = [stat EXCEPT ![e] = "closed"]
  /\ caches' = DelAll(caches, Held(e))
  /\ ctx' = [ctx EXCEPT ![e] = NoCtx]
  /\ wire' = [wire EXCEPT ![e] = <<>>]
  /\ queue' = [queue EXCEPT ![e] = <<>>]
  /\ out' = [out EXCEPT ![e] = <<>>]
  /\ UNCHANGED <<asked, answered>>

\* A peer sends a request.
Ask(c) ==
  /\ c \notin Cli
  /\ stat[Svr(c)] = "open"
  /\ Len(asked[c]) < MaxRequests
  /\ \E r \in Requests :
       LET id == Len(asked[c]) + 1
           msg == [r EXCEPT !.id = id, !.body = [k \in DOMAIN r.body |-> <<id, k>>]]
       IN /\ asked' = [asked EXCEPT ![c] = Append(@, msg)]
          /\ wire' = [wire EXCEPT ![Svr(c)] = Append(@, msg)]
  /\ UNCHANGED <<stat, ctx, queue, out, caches, answered>>
-------------------------------------------------------------------------------
\* parseData

\* An end that parses: nothing more is read after closeData.
Parses(e) == stat[e] = "open" /\ wire[e] # <<>>

ReadHead(e) ==
  /\ Parses(e) /\ Room
  /\ ctx[e].m_head = None
  /\ ctx' = [ctx EXCEPT ![e].m_head = Unused(caches)]
  /\ caches' = Alloc(caches, Head(wire[e]))
  /\ UNCHANGED <<stat, wire, queue, out, asked, answered>>

\* The next piece of the body, MAX_BODY_SIZE bytes or what is left.
ReadBody(e) ==
  /\ Parses(e) /\ Room
  /\ ctx[e].m_head # None
  /\ ctx[e].m_body = None
  /\ ctx[e].m_frame_beg < Len(Head(wire[e]).body)
  /\ ctx' = [ctx EXCEPT ![e].m_body = Unused(caches)]
  /\ caches' = Alloc(caches, BodyText(<<Head(wire[e]).body[ctx[e].m_frame_beg + 1]>>))
  /\ UNCHANGED <<stat, wire, queue, out, asked, answered>>

\* Mutant: the frame takes the head over without counting itself
CreatFrameHdMoved(cs, x) == Ref(cs, x.m_body)

\* creatFrameHd: the frame becomes a user of what the context has read.
CreatFrameHd(cs, x) == Ref(Ref(cs, x.m_head), x.m_body)

\* Mutant: the last frame goes out when the next message begins
IsCompleteNext(e) ==
  LET x == ctx[e]
      size == Len(Head(wire[e]).body)
  IN /\ x.m_head # None
     /\ size = 0 \/ x.m_body # None
     /\ x.m_frame_beg + 1 >= size => Len(wire[e]) > 1

IsComplete(e) ==
  /\ ctx[e].m_head # None
  /\ Head(wire[e]).body = <<>> \/ ctx[e].m_body # None

\* dispatchFrame, followed by completeFrame (or completeChunk) within a message
\* and by completeMsg, which resets the context, at its end.
DispatchFrame(e) ==
  /\ Parses(e)
  /\ IsComplete(e)
  /\ LET x == ctx[e]
         isEnd == x.m_frame_beg + 1 >= Len(Head(wire[e]).body)
     IN /\ queue' = [queue EXCEPT ![e] = Append(@,
                       [m_head |-> x.m_head, m_body |-> x.m_body,
                        m_frame_beg |-> x.m_frame_beg, m_is_end |-> isEnd])]
        /\ LET cs == Del(CreatFrameHd(caches, x), x.m_body)
           IN caches' = IF isEnd THEN Del(cs, x.m_head) ELSE cs
        /\ ctx' = [ctx EXCEPT ![e] =
                     IF isEnd THEN HttpCtx
                     ELSE [x EXCEPT !.m_body = None, !.m_frame_beg = @ + 1]]
        /\ wire' = IF isEnd THEN [wire EXCEPT ![e] = Tail(@)] ELSE wire
  /\ UNCHANGED <<stat, out, asked, answered>>
-------------------------------------------------------------------------------
\* process

\* What RtspHandler sends, and the head of a reply, whose body is in the cache
\* that goes with it.
Sdp == <<0, 0>>
ReplyAlive(m) ==  \* mutant: the reply offers to go on, whatever was asked
  [id |-> m.id, rtsp |-> m.rtsp, alive |-> TRUE, body |-> <<>>]
Reply(m) == [id |-> m.id, rtsp |-> m.rtsp, alive |-> m.alive, body |-> <<>>]

\* Mutant: each frame is answered
AnswersEach(f) == TRUE
\* TestDemo answers the first frame of a message.
Answers(f) == f.m_frame_beg = 0

\* Mutant: after the first frame the rest of the message is not awaited
ClosesEarly(f, m) == ~m.alive
Closes(f, m) == f.m_is_end /\ ~m.alive

\* TestDemo: the reply shares the body of the frame, and is not taken any more
\* after closeData.
Demo(e, f, m) ==
  LET replies == Answers(f) /\ stat[e] = "open"
  IN /\ out' = IF replies THEN [out EXCEPT ![e] = Append(@, Sent(Reply(m), f.m_body))]
               ELSE out
     /\ caches' = DelFrame(IF replies THEN Ref(caches, f.m_body) ELSE caches, f)
     /\ stat' = IF Closes(f, m) THEN [stat EXCEPT ![e] = "closing"] ELSE stat

\* RtspHandler: the reply has a text of its own, and every frame gets one.
Rtsp(e, f, m) ==
  /\ IF stat[e] = "open"
     THEN /\ Room
          /\ out' = [out EXCEPT ![e] = Append(@, Sent(Reply(m), Unused(caches)))]
          /\ caches' = DelFrame(Alloc(caches, BodyText(<<Sdp>>)), f)
     ELSE /\ caches' = DelFrame(caches, f)
          /\ UNCHANGED out
  /\ UNCHANGED stat

\* Mutant: as many requests as at first
AgainMore(e, f) ==
  /\ out' = SendHttpReq(e, m_first_send_cnt)
  /\ caches' = DelFrame(GenHttpReq(caches, m_first_send_cnt), f)
  /\ UNCHANGED stat

\* HttpCli answers every frame with a request.
Again(e, f) ==
  /\ Room
  /\ out' = SendHttpReq(e, 1)
  /\ caches' = DelFrame(GenHttpReq(caches, 1), f)
  /\ UNCHANGED stat

\* The next frame goes to the owner of the end, on the server to the first
\* dealer that takes it; then it is freed, and gives up its texts.
Process(e) ==
  /\ stat[e] \in {"open", "closing"}
  /\ queue[e] # <<>>
  /\ LET f == Head(queue[e])
         m == caches[f.m_head].text
     IN \/ e[2] = "cli" /\ Again(e, f)
        \/ e[2] = "svr" /\ m.rtsp /\ Rtsp(e, f, m)
        \/ e[2] = "svr" /\ ~m.rtsp /\ Demo(e, f, m)
  /\ queue' = [queue EXCEPT ![e] = Tail(@)]
  /\ UNCHANGED <<ctx, wire, asked, answered>>

\* The socket frame writes the next message and frees it.
Write(e) ==
  /\ stat[e] \in {"open", "closing"}
  /\ out[e] # <<>>
  /\ LET s == Head(out[e])
         p == Peer(e)
         msg == [s.hd EXCEPT !.body = IF s.cache = None THEN <<>> ELSE caches[s.cache].text.body]
     IN /\ caches' = Del(caches, s.cache)
        /\ wire' = IF e[1] \in Cli /\ stat[p] \in {"none", "open"}
                   THEN [wire EXCEPT ![p] = Append(@, msg)] ELSE wire
        /\ answered' = IF e[1] \in Cli THEN answered
                       ELSE [answered EXCEPT ![e[1]] = Append(@, msg)]
  /\ out' = [out EXCEPT ![e] = Tail(@)]
  /\ UNCHANGED <<stat, ctx, queue, asked>>
-------------------------------------------------------------------------------
ParseData(e) == ReadHead(e) \/ ReadBody(e) \/ DispatchFrame(e)

Next ==
  \/ \E c \in Conn : OnNewSock(c) \/ AddCli(c) \/ OnConnOK(c) \/ OnConnFail(c) \/ Ask(c)
  \/ \E e \in End : OnClose(e) \/ ParseData(e) \/ Process(e) \/ Write(e)

\* The socket frame reads, processes and writes whatever there is.  Nothing is
\* assumed of peers and of the ends of connections.
Spec == /\ Init /\ [][Next]_vars
        /\ \A e \in End : WF_vars(ParseData(e)) /\ WF_vars(Process(e)) /\ WF_vars(Write(e))
        /\ \A c \in Cli : WF_vars(OnNewSock(c))
-------------------------------------------------------------------------------
\* Properties.

\* Who uses cache i: contexts, frames that wait and messages that go out.
Users(i) ==
  {<<e, "head">> : e \in {x \in End : ctx[x].m_head = i}}
    \cup {<<e, "body">> : e \in {x \in End : ctx[x].m_body = i}}
    \cup (UNION {{<<e, "queue", k>> : k \in {n \in DOMAIN queue[e] :
                    i \in {queue[e][n].m_head, queue[e][n].m_body}}} : e \in End})
    \cup (UNION {{<<e, "out", k>> : k \in {n \in DOMAIN out[e] : out[e][n].cache = i}}
                  : e \in End})

\* A text lives as long as somebody uses it: the count of each cache, that
\* creatFrameHd, genHttpCache and refMsg raise and release, freeFrameHdCb and the
\* socket frame lower, is that of its users, whoever is the last of them and
\* whenever the connection ends.  So nothing is read after it was freed, and
\* nothing is left of a connection that ended.
UsersCounted == \A i \in Id : caches[i].ref = Cardinality(Users(i))

Ids(ms) == [k \in DOMAIN ms |-> ms[k].id]
\* The requests of which no frame is out yet, those whose first frame waits
\* to be processed, and the replies that were not written.
Unread(e) == Ids(IF ctx[e].m_frame_beg > 0 THEN Tail(wire[e]) ELSE wire[e])
Firsts(q) == {k \in DOMAIN q : q[k].m_frame_beg = 0}
Nth(S, n) == CHOOSE k \in S : Cardinality({j \in S : j <= k}) = n
Waiting(e) ==
  LET firsts == Firsts(queue[e])
  IN [n \in 1 .. Cardinality(firsts) |-> caches[queue[e][Nth(firsts, n)].m_head].text.id]
Unwritten(e) == [k \in DOMAIN out[e] |-> out[e][k].hd.id]

\* On a connection that is open every request is on its way, waits or is
\* answered, once each and in the order they were sent, in whatever frames
\* their bodies came.
OneReplyEach == \A c \in Conn \ Cli :
  stat[Svr(c)] = "open" =>
    Ids(answered[c]) \o Unwritten(Svr(c)) \o Waiting(Svr(c)) \o Unread(Svr(c))
      = Ids(asked[c])

\* The demo sends a request's own body back, the first frame of it; it is read
\* when it is written, from a cache that the request has given up long before.
EchoTrue == \A c \in Conn \ Cli : \A k \in DOMAIN answered[c] :
  LET r == asked[c][k]
  IN answered[c][k] =
       [r EXCEPT !.body = IF r.rtsp THEN <<Sdp>>
                          ELSE [n \in {1} \cap DOMAIN r.body |-> r.body[n]]]

\* closeData is called when a whole request that asks for it was read and
\* answered, never in the middle of it and never for HttpCli.
ClosesWhenDone == \A c \in Conn :
  stat[Svr(c)] = "closing" =>
    \E k \in DOMAIN asked[c] :
      /\ ~asked[c][k].alive /\ ~asked[c][k].rtsp
      /\ k \in Range(Ids(answered[c])) \cup Range(Unwritten(Svr(c)))
      /\ k \notin Range(Ids(wire[Svr(c)]))

\* HttpCli keeps m_first_send_cnt requests or replies under way, whatever the
\* size of their bodies: a reply is one frame, and makes one request.
LoadKept == \A c \in Cli :
  LET svr == Svr(c)
      cli == Peer(svr)
  IN stat[cli] = "open" /\ stat[svr] \in {"none", "open"} =>
       Len(out[cli]) + Len(Unread(svr)) + Len(Waiting(svr)) + Len(out[svr])
         + Len(wire[cli]) + Len(queue[cli]) = m_first_send_cnt

\* Every request is answered, unless the connection ends, and HttpCli gets one
\* reply after the other.
Answered ==
  /\ \A c \in Conn \ Cli : \A n \in 1 .. MaxRequests :
       Len(asked[c]) >= n ~> (Len(answered[c]) >= n \/ stat[Svr(c)] # "open")
  /\ \A c \in Cli : stat[<<c, "cli">>] = "open" ~>
       \/ queue[<<c, "cli">>] # <<>>
       \/ "closed" \in {stat[<<c, "cli">>], stat[Svr(c)]}
===============================================================================
