------------------------------ MODULE RtspServer ------------------------------
(***************************************************************************)
(* The RTSP server: RtspHandler (encoding/rtspcenter.cpp) with its session *)
(* table RtspSess (rtspsess.cpp) and its resources RtspRes                 *)
(* (encoding/rtspres.cpp), above the media instances of RtpInstOps.        *)
(*                                                                         *)
(* ANNOUNCE registers a group of media instances under a path; SETUP takes *)
(* the next slot of a session and binds it to an instance; PLAY, RECORD    *)
(* and TEARDOWN act on all streams of a session that match a path.  One    *)
(* request is one step.  OPTIONS, DESCRIBE and PAUSE change no state, and  *)
(* so do requests that are refused, but for the session that a refused     *)
(* SETUP leaves behind.  Nothing is done when a client's connection ends.  *)
(*                                                                         *)
(* A path is a sequence of names.  No group is ever deleted, so that an    *)
(* instance is named by the path of its group and its place in it.         *)
(***************************************************************************)
EXTENDS RtpInstOps, Sequences

CONSTANTS
  Sid,              \* session ids that genSess can generate
  MAX_STREAMS_CNT,  \* length of RtspCtx.m_stream and of InstGroup.m_stream
  Path,             \* paths of requests
  MediaList,        \* the media paths (a=control) an ANNOUNCE may list
  Lower,            \* lower-case form of each name
  NoInst,           \* a null m_inst
  NoSeq             \* nothing received yet, in last

ASSUME ServerAssumption ==
  /\ MAX_STREAMS_CNT \in Nat \ {0}
  /\ FF = Sid \X (1 .. MAX_STREAMS_CNT)
  /\ \A ms \in MediaList : Len(ms) \in 1 .. MAX_STREAMS_CNT
  /\ NoInst \notin Path \X (1 .. MAX_STREAMS_CNT)
  /\ NoSeq \notin Nat

VARIABLES
  m_datas,       \* media paths of each registered group, <<>> if there is none
  m_sess,        \* the sessions
  m_stream_cnt,  \* slots taken in each session
  ff,            \* the slots
  m_inst,        \* the instance of each slot
  insts,         \* the instances
  home,          \* history: the instance each slot was set up on
  via,           \* history: the path of that SETUP
  last,          \* history: as in RtpInst
  forgotten      \* history: as in RtpInst, for each instance

vars == <<m_datas, m_sess, m_stream_cnt, ff, m_inst, insts, home, via, last,
          forgotten>>

-------------------------------------------------------------------------------
Inst == Path \X (1 .. MAX_STREAMS_CNT)

Registered(i) == i[2] \in 1 .. Len(m_datas[i[1]])

\* InstStream.m_path: the media path, below the path of the group
InstPath(i) == i[1] \o m_datas[i[1]][i[2]]

\* Mutant: the path of the group is not looked at
MatchOwnPath(path, i) == path = InstPath(i)

\* RtpInstMng::match
Match(path, i) == path = i[1] \/ path = InstPath(i)

\* The slots of a session up to its count that are set up
Streams(s) == {f \in {s} \X (1 .. m_stream_cnt[s]) : ff[f].m_setup}

Matching(s, path) == {f \in Streams(s) : Match(path, m_inst[f])}

\* Mutant: only the first slot is looked at
ExistFFFirst(s, path) == \E f \in Streams(s) :
  f[2] = 1 /\ path = InstPath(m_inst[f])

\* existFF does not mind the case, but compares with the instance's path only.
ExistFF(s, path) == \E f \in Streams(s) :
  LET q == InstPath(m_inst[f])
  IN /\ Len(q) = Len(path)
     /\ \A k \in 1 .. Len(q) : Lower[q[k]] = Lower[path[k]]

\* The map is ordered by strcmp: of two groups above the same path the one
\* with the shorter path comes first.
Before(i, j) == Len(i[1]) < Len(j[1]) \/ (i[1] = j[1] /\ i[2] <= j[2])

\* The instances a SETUP of the path is for, one or none: the first of the
\* group of this path, else the first with this path.
Target(path) ==
  IF m_datas[path] # <<>> THEN {<<path, 1>>}
  ELSE LET named == {i \in Inst : Registered(i) /\ InstPath(i) = path}
       IN {i \in named : \A j \in named : Before(i, j)}

Init ==
  /\ m_datas = [p \in Path |-> <<>>]
  /\ m_sess = {}
  /\ m_stream_cnt = [s \in Sid |-> 0]
  /\ ff = [f \in FF |-> FreshFF]
  /\ m_inst = [f \in FF |-> NoInst]
  /\ insts = [i \in Inst |-> CreatInst]
  /\ home = [f \in FF |-> NoInst]
  /\ via = [f \in FF |-> <<>>]
  /\ last = [f \in FF |-> NoSeq]
  /\ forgotten = [i \in Inst |-> {}]

-------------------------------------------------------------------------------
\* Mutant: a group that is registered is not found
ExistNever(p) == FALSE

\* RtspRes::exist
Exist(p) == m_datas[p] # <<>>

\* ANNOUNCE of a group that is not registered yet, with an SDP that parses;
\* another one changes nothing.  ssrc and seq are the random draws for each
\* instance.  A group with an empty path is created too, but no request ever
\* finds it: it is left out.
DealAnnounce(p, ms, ssrc, seq) ==
  /\ p # <<>>
  /\ ~Exist(p)
  /\ \A k \in 1 .. Len(ms) : ssrc[k] # 0
  /\ m_datas' = [m_datas EXCEPT ![p] = ms]
  /\ insts' = [i \in Inst |->
                 IF i[1] = p /\ i[2] <= Len(ms)
                 THEN SetupInst(CreatInst, ssrc[i[2]], seq[i[2]]) ELSE insts[i]]
  /\ UNCHANGED <<m_sess, m_stream_cnt, ff, m_inst, home, via, last, forgotten>>

\* Mutant: the new session is not put into the table
PrepareSessLost(s) == UNCHANGED m_sess

\* A SETUP without session makes one before anything else is looked at; one
\* that names a session nobody has is refused, and has no step here.
PrepareSess(s) == m_sess' = m_sess \union {s}

\* SETUP that is refused: the session is left behind.
RefuseSetup(s, path) ==
  /\ ExistFF(s, path) \/ Target(path) = {}
  /\ PrepareSess(s)
  /\ UNCHANGED <<m_datas, m_stream_cnt, ff, m_inst, insts, home, via, last,
                 forgotten>>

\* SETUP that is answered OK.  The count is the bound of the model: the code
\* does not look at it.
DealSetup(s, path, rtp, rtcp) ==
  LET n == m_stream_cnt[s] + 1
      f == <<s, n>>
  IN /\ n <= MAX_STREAMS_CNT
     /\ ~ExistFF(s, path)
     /\ PrepareSess(s)
     /\ \E i \in Target(path) :
          /\ insts' = [insts EXCEPT ![i] = AddFF(@, f, rtp, rtcp)]
          /\ m_inst' = [m_inst EXCEPT ![f] = i]
          /\ home' = [home EXCEPT ![f] = i]
     /\ ff' = [ff EXCEPT ![f] = SetupFF(rtp, rtcp)]
     /\ via' = [via EXCEPT ![f] = path]
     /\ m_stream_cnt' = [m_stream_cnt EXCEPT ![s] = n]
     /\ UNCHANGED <<m_datas, last, forgotten>>

\* PLAY (is_publisher FALSE) or RECORD (TRUE) that matches a stream
Activate(s, path, is_publisher) ==
  LET S == Matching(s, path)
  IN /\ s \in m_sess
     /\ S # {}
     /\ ff' = [f \in FF |-> IF f \in S
                            THEN [ff[f] EXCEPT !.m_is_publisher = is_publisher]
                            ELSE ff[f]]
     /\ insts' = [i \in Inst |->
          ActivateFF(insts[i], {f \in S : m_inst[f] = i}, is_publisher)]
     /\ UNCHANGED <<m_datas, m_sess, m_stream_cnt, m_inst, home, via, last,
                    forgotten>>

\* TEARDOWN that matches a stream: the slots are not given back.
DealTeardown(s, path) ==
  LET S == Matching(s, path)
  IN /\ s \in m_sess
     /\ S # {}
     /\ insts' = [i \in Inst |->
          RemoveFF(insts[i], ff, {f \in S : m_inst[f] = i})]
     /\ ff' = [f \in FF |-> IF f \in S THEN [ff[f] EXCEPT !.m_setup = FALSE]
                            ELSE ff[f]]
     /\ m_inst' = [f \in FF |-> IF f \in S THEN NoInst ELSE m_inst[f]]
     /\ UNCHANGED <<m_datas, m_sess, m_stream_cnt, home, via, last, forgotten>>

-------------------------------------------------------------------------------
\* A media packet on the RTP socket of instance i that procRtp relays or only
\* accepts: see RtpInst.
ProcRtp(i, a, s, inSeq) ==
  LET f    == FindByRtp(insts[i], a)
      next == NextSeq(insts[i])
  IN /\ f # NoFF
     /\ ff[f].m_is_publisher
     /\ ValidSsrc(insts[i], ff, f, s)
     /\ ff' = [ff EXCEPT ![f].m_ssrc = s]
     /\ insts' = [insts EXCEPT ![i] = [ClaimSsrc(insts[i], ff, f, s) EXCEPT
                                         !.m_seq = IF inSeq THEN next ELSE @]]
     /\ last' = [g \in FF |-> IF inSeq /\ g \in insts[i].m_player_list
                              THEN next ELSE last[g]]
     /\ UNCHANGED <<m_datas, m_sess, m_stream_cnt, m_inst, home, via, forgotten>>

\* The SSRC is the instance's own or that of one of its streams, after the step.
InUse(i, s) ==
  \/ insts[i].m_setup /\ insts[i].m_ssrc = s
  \/ \E f \in FF : m_inst[f] = i /\ ff[f].m_ssrc = s

\* A datagram on the RTCP socket of instance i: see RtpInst.
ProcRtcp(i, a, s, B) ==
  LET f     == FindByRtcp(insts[i], a)
      valid == ValidSsrc(insts[i], ff, f, s)
      inst1 == IF valid THEN ClaimSsrc(insts[i], ff, f, s) ELSE insts[i]
  IN /\ f # NoFF
     /\ ff' = IF valid THEN [ff EXCEPT ![f].m_ssrc = s] ELSE ff
     /\ insts' = [insts EXCEPT ![i] = DelSsrc(inst1, B)]
     /\ UNCHANGED <<m_datas, m_sess, m_stream_cnt, m_inst, home, via, last>>
     /\ forgotten' = [forgotten EXCEPT ![i] = @ \union {x \in B : InUse(i, x)'}]

Request ==
  \/ \E p \in Path, ms \in MediaList :
       \E ssrc \in [1 .. Len(ms) -> Ssrc], seq \in [1 .. Len(ms) -> 0 .. SeqMod - 1] :
         DealAnnounce(p, ms, ssrc, seq)
  \/ \E s \in Sid, path \in Path :
       \/ RefuseSetup(s, path)
       \/ \E rtp, rtcp \in Addr : DealSetup(s, path, rtp, rtcp)
       \/ \E is_publisher \in BOOLEAN : Activate(s, path, is_publisher)
       \/ DealTeardown(s, path)

Datagram == \E i \in Inst, a \in Addr, s \in Ssrc :
  \/ \E inSeq \in BOOLEAN : ProcRtp(i, a, s, inSeq)
  \/ \E B \in SUBSET Ssrc : ProcRtcp(i, a, s, B)

Next == Request \/ Datagram

Spec == Init /\ [][Next]_vars

-------------------------------------------------------------------------------
\* The state as one instance sees it
View(i) == [f \in FF |-> IF home[f] = i THEN ff[f] ELSE FreshFF]
LastOn(i) == [f \in FF |-> IF home[f] = i THEN last[f] ELSE NoSeq]

Instance(i) == INSTANCE RtpInst WITH
  inst <- insts[i], ff <- View(i), last <- LastOn(i), forgotten <- forgotten[i]

\* The shape of the tables, the sessions and the slots.
TypeOK ==
  /\ m_datas \in [Path -> MediaList \union {<<>>}]
  /\ m_sess \subseteq Sid
  /\ m_stream_cnt \in [Sid -> 0 .. MAX_STREAMS_CNT]
  /\ ff \in [FF -> FFStream]
  /\ m_inst \in [FF -> Inst \union {NoInst}]
  /\ insts \in [Inst -> InstStream]
  /\ home \in [FF -> Inst \union {NoInst}]
  /\ via \in [FF -> Path \union {<<>>}]
  /\ last \in [FF -> (0 .. SeqMod - 1) \union {NoSeq}]
  /\ forgotten \in [Inst -> SUBSET Ssrc]

\* Handlers only look at the slots below m_stream_cnt of an existing session,
\* and follow m_inst: every stream is there to be found, and its instance is
\* one of a registered group.
StreamsReachable == \A f \in FF :
  /\ ff[f].m_setup => f[1] \in m_sess /\ f \in Streams(f[1])
  /\ ff[f].m_setup <=> m_inst[f] # NoInst
  /\ m_inst[f] # NoInst => Registered(m_inst[f]) /\ insts[m_inst[f]].m_setup

\* The path a stream was set up with reaches it: PLAY, RECORD and TEARDOWN of
\* that path act on it, whatever was announced since.
AddressableAsSetUp == \A f \in FF :
  ff[f].m_setup => f \in Matching(f[1], via[f])

\* existFF keeps a session from setting up an instance twice, but for a SETUP
\* with the path of the group while the first instance of it is set up.
OncePerInstance == \A f, g \in FF :
  ff[f].m_setup /\ ff[g].m_setup /\ f[1] = g[1] /\ f[2] < g[2]
      /\ m_inst[f] = m_inst[g]
    => via[g] = m_inst[g][1] /\ m_inst[g][2] = 1

\* A group stays as it was first announced: a later ANNOUNCE of the path is
\* answered OK but changes neither its media nor any of its instances, and
\* streams that play on them go on.
GroupsStay == [][\A i \in Inst : Registered(i) =>
  /\ m_datas'[i[1]] = m_datas[i[1]]
  /\ insts'[i].m_ssrc = insts[i].m_ssrc
  /\ insts'[i].m_seq \in {insts[i].m_seq, NextSeq(insts[i])}
  /\ \A f \in insts[i].m_player_list :
       ff'[f].m_setup => f \in insts'[i].m_player_list]_vars

\* A stream is found, listed and torn down on the instance it was set up on
\* only: no other instance has it in a list or a map.
OnHomeOnly == \A i \in Inst, f \in FF :
  (\/ f \in insts[i].m_player_list \union insts[i].m_publisher_list
   \/ \E a \in Addr : f \in {insts[i].m_map_rtp_addr[a], insts[i].m_map_rtcp_addr[a]}
   \/ \E s \in Ssrc \ {0} : insts[i].m_map_ssrc[s] = f)
  => m_inst[f] = i

-------------------------------------------------------------------------------
(* The inductive invariant: the properties above and what they rest on.     *)

\* Nothing happened yet to a slot above the count of its session.
NotYet == \A f \in FF :
  f[2] > m_stream_cnt[f[1]] => home[f] = NoInst /\ last[f] = NoSeq

\* A stream is on the instance it was set up on until its TEARDOWN.
AtHome == \A f \in FF : m_inst[f] \in {NoInst, home[f]}

\* The instances of a registered group are set up, the others untouched.
GroupsSetUp == \A i \in Inst :
  IF Registered(i) THEN insts[i].m_setup ELSE insts[i] = CreatInst

\* f is in a list or an address map of instance i.
Has(i, f) ==
  \/ f \in insts[i].m_player_list \union insts[i].m_publisher_list
  \/ \E a \in Addr : f \in {insts[i].m_map_rtp_addr[a], insts[i].m_map_rtcp_addr[a]}

\* An instance has no streams but its own.
EntriesAtHome == \A i \in Inst, f \in FF : Has(i, f) => home[f] = i

\* All of it at once: no handler breaks any part while the others hold.
IInv ==
  /\ TypeOK
  /\ StreamsReachable
  /\ AddressableAsSetUp
  /\ NotYet
  /\ AtHome
  /\ GroupsSetUp
  /\ EntriesAtHome

-------------------------------------------------------------------------------
\* Every instance of the server behaves as RtpInst says, whatever the sessions
\* do with the others: a step of the server is one of each instance, or none.
InstancesImplemented ==
  /\ \A i \in Inst : Instance(i)!Init
  /\ [][\A i \in Inst : UNCHANGED Instance(i)!vars \/ Instance(i)!Next]_vars
===============================================================================
