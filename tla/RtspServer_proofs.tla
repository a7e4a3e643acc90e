-------------------------- MODULE RtspServer_proofs ---------------------------
(***************************************************************************)
(* Proofs about RtspServer: the inductive invariant, for any number of      *)
(* sessions, slots, paths and groups.                                       *)
(***************************************************************************)
EXTENDS RtspServer, TLAPS

USE OpsAssumption

-------------------------------------------------------------------------------
(* What the operations of RtpInstOps yield: an InstStream, field by field   *)

\* A new instance is not set up and has no entry.
LEMMA CreatInstResult ==
  /\ CreatInst \in InstStream
  /\ ~CreatInst.m_setup
  /\ CreatInst.m_player_list = {} /\ CreatInst.m_publisher_list = {}
  /\ \A a \in Addr : /\ CreatInst.m_map_rtp_addr[a] = NoFF
                     /\ CreatInst.m_map_rtcp_addr[a] = NoFF
  /\ \A s \in Ssrc : CreatInst.m_map_ssrc[s] = NoFF
  BY DEF CreatInst, InstStream

\* A slot that was never set up
LEMMA FreshFFResult == FreshFF \in FFStream /\ ~FreshFF.m_setup /\ ~FreshFF.used
  BY DEF FreshFF, FFStream

\* A new instance that is set up has no entry but its SSRC.
LEMMA SetupFreshResult ==
  ASSUME NEW s \in Ssrc, NEW seq \in 0 .. SeqMod - 1
  PROVE  LET r == SetupInst(CreatInst, s, seq)
         IN /\ r \in InstStream
            /\ r.m_setup
            /\ r.m_player_list = {} /\ r.m_publisher_list = {}
            /\ \A a \in Addr : /\ r.m_map_rtp_addr[a] = NoFF
                               /\ r.m_map_rtcp_addr[a] = NoFF
            /\ \A x \in Ssrc \ {s} : r.m_map_ssrc[x] = NoFF
<1>1. SetupInst(CreatInst, s, seq) \in InstStream
  BY DEF SetupInst, CreatInst, InstStream
<1>2. QED
  BY <1>1 DEF SetupInst, CreatInst, InstStream

\* addFF changes the two address maps, at the addresses of the stream.
LEMMA AddFFResult ==
  ASSUME NEW i \in InstStream, NEW f \in FF, NEW rtp \in Addr, NEW rtcp \in Addr
  PROVE  LET r == AddFF(i, f, rtp, rtcp)
         IN /\ r \in InstStream
            /\ r.m_setup = i.m_setup /\ r.m_ssrc = i.m_ssrc
            /\ r.m_seq = i.m_seq
            /\ r.m_player_list = i.m_player_list
            /\ r.m_publisher_list = i.m_publisher_list
            /\ \A a \in Addr : r.m_map_rtp_addr[a] =
                 IF a = rtp THEN f ELSE i.m_map_rtp_addr[a]
            /\ \A a \in Addr : r.m_map_rtcp_addr[a] =
                 IF a = rtcp THEN f ELSE i.m_map_rtcp_addr[a]
            /\ r.m_map_ssrc = i.m_map_ssrc
<1>1. AddFF(i, f, rtp, rtcp) \in InstStream
  BY DEF AddFF, InstStream
<1>2. QED
  BY <1>1 DEF AddFF, InstStream

\* activateFF links the streams of S that are in no list, and nothing else.
LEMMA ActivateFFResult ==
  ASSUME NEW i \in InstStream, NEW S \in SUBSET FF, NEW pub \in BOOLEAN
  PROVE  LET r == ActivateFF(i, S, pub)
             N == Unhashed(i, S)
         IN /\ r \in InstStream
            /\ r.m_setup = i.m_setup /\ r.m_ssrc = i.m_ssrc
            /\ r.m_seq = i.m_seq
            /\ r.m_player_list = i.m_player_list \union (IF pub THEN {} ELSE N)
            /\ r.m_publisher_list = i.m_publisher_list \union (IF pub THEN N ELSE {})
            /\ r.m_map_rtp_addr = i.m_map_rtp_addr
            /\ r.m_map_rtcp_addr = i.m_map_rtcp_addr
            /\ r.m_map_ssrc = i.m_map_ssrc
<1>1. ActivateFF(i, S, pub) \in InstStream
  BY DEF ActivateFF, Unhashed, InstStream
<1>2. QED
  BY <1>1 DEF ActivateFF, Unhashed, InstStream

\* removeFF erases by list node, by address and by SSRC.
LEMMA RemoveFFResult ==
  ASSUME NEW i \in InstStream, NEW g \in [FF -> FFStream], NEW S \in SUBSET FF
  PROVE  LET r == RemoveFF(i, g, S)
         IN /\ r \in InstStream
            /\ r.m_setup = i.m_setup /\ r.m_ssrc = i.m_ssrc
            /\ r.m_seq = i.m_seq
            /\ r.m_player_list = i.m_player_list \ S
            /\ r.m_publisher_list = i.m_publisher_list \ S
            /\ \A a \in Addr : r.m_map_rtp_addr[a] =
                 IF \E f \in S : g[f].m_rtp = a THEN NoFF ELSE i.m_map_rtp_addr[a]
            /\ \A a \in Addr : r.m_map_rtcp_addr[a] =
                 IF \E f \in S : g[f].m_rtcp = a THEN NoFF ELSE i.m_map_rtcp_addr[a]
            /\ \A s \in Ssrc : r.m_map_ssrc[s] =
                 IF \E f \in S : g[f].m_ssrc = s THEN NoFF ELSE i.m_map_ssrc[s]
<1>1. RemoveFF(i, g, S) \in InstStream
  BY DEF RemoveFF, InstStream
<1>2. QED
  BY <1>1 DEF RemoveFF, InstStream

\* A claim of s by f changes the SSRC map only: f gets s and gives up its own.
LEMMA ClaimSsrcResult ==
  ASSUME NEW i \in InstStream, NEW g \in [FF -> FFStream], NEW f \in FF, NEW s \in Ssrc
  PROVE  LET r == ClaimSsrc(i, g, f, s)
         IN /\ r \in InstStream
            /\ r.m_setup = i.m_setup /\ r.m_ssrc = i.m_ssrc
            /\ r.m_seq = i.m_seq
            /\ r.m_player_list = i.m_player_list
            /\ r.m_publisher_list = i.m_publisher_list
            /\ r.m_map_rtp_addr = i.m_map_rtp_addr
            /\ r.m_map_rtcp_addr = i.m_map_rtcp_addr
            /\ g[f].m_ssrc = s => r.m_map_ssrc = i.m_map_ssrc
            /\ g[f].m_ssrc # s => \A x \in Ssrc : r.m_map_ssrc[x] =
                 IF x = s THEN f
                 ELSE IF x = g[f].m_ssrc /\ x > 0 THEN NoFF
                 ELSE i.m_map_ssrc[x]
<1>1. ClaimSsrc(i, g, f, s) \in InstStream
  BY DEF ClaimSsrc, InstStream
<1>2. QED
  BY <1>1 DEF ClaimSsrc, InstStream

\* Deleting SSRCs changes the SSRC map only.
LEMMA DelSsrcResult ==
  ASSUME NEW i \in InstStream, NEW B \in SUBSET Ssrc
  PROVE  LET r == DelSsrc(i, B)
         IN /\ r \in InstStream
            /\ r.m_setup = i.m_setup /\ r.m_ssrc = i.m_ssrc /\ r.m_seq = i.m_seq
            /\ r.m_player_list = i.m_player_list
            /\ r.m_publisher_list = i.m_publisher_list
            /\ r.m_map_rtp_addr = i.m_map_rtp_addr
            /\ r.m_map_rtcp_addr = i.m_map_rtcp_addr
            /\ r.m_map_ssrc = [s \in Ssrc |-> IF s \in B THEN NoFF ELSE i.m_map_ssrc[s]]
<1>1. DelSsrc(i, B) \in InstStream
  BY DEF DelSsrc, InstStream
<1>2. QED
  BY <1>1 DEF DelSsrc, InstStream

\* The next sequence number is a sequence number.
LEMMA NextSeqInRange ==
  ASSUME NEW n \in 0 .. SeqMod - 1
  PROVE  (n + 1) % SeqMod \in 0 .. SeqMod - 1
  OBVIOUS

\* Sending one packet changes the sequence number only.
LEMMA BumpSeqResult ==
  ASSUME NEW i \in InstStream, NEW n \in 0 .. SeqMod - 1
  PROVE  LET r == [i EXCEPT !.m_seq = n]
         IN /\ r \in InstStream
            /\ r.m_setup = i.m_setup /\ r.m_ssrc = i.m_ssrc /\ r.m_seq = n
            /\ r.m_player_list = i.m_player_list
            /\ r.m_publisher_list = i.m_publisher_list
            /\ r.m_map_rtp_addr = i.m_map_rtp_addr
            /\ r.m_map_rtcp_addr = i.m_map_rtcp_addr
            /\ r.m_map_ssrc = i.m_map_ssrc
  BY DEF InstStream

-------------------------------------------------------------------------------
(* The operations on no stream at all                                       *)

\* An instance none of whose streams is activated does not change.
LEMMA ActivateNone ==
  ASSUME NEW i \in InstStream, NEW pub \in BOOLEAN
  PROVE  ActivateFF(i, {}, pub) = i
  BY DEF ActivateFF, Unhashed, InstStream

\* An instance none of whose streams is removed does not change.
LEMMA RemoveNone ==
  ASSUME NEW i \in InstStream, NEW g \in [FF -> FFStream]
  PROVE  RemoveFF(i, g, {}) = i
<1>1. /\ [a \in Addr |-> i.m_map_rtp_addr[a]] = i.m_map_rtp_addr
      /\ [a \in Addr |-> i.m_map_rtcp_addr[a]] = i.m_map_rtcp_addr
      /\ [s \in Ssrc |-> i.m_map_ssrc[s]] = i.m_map_ssrc
  BY DEF InstStream
<1>2. i.m_player_list \ {} = i.m_player_list /\ i.m_publisher_list \ {} = i.m_publisher_list
  OBVIOUS
<1>3. RemoveFF(i, g, {}) =
        [i EXCEPT !.m_player_list = i.m_player_list,
                  !.m_publisher_list = i.m_publisher_list,
                  !.m_map_rtp_addr = i.m_map_rtp_addr,
                  !.m_map_rtcp_addr = i.m_map_rtcp_addr,
                  !.m_map_ssrc = i.m_map_ssrc]
  BY <1>1, <1>2 DEF RemoveFF
<1>4. QED
  BY <1>3 DEF InstStream

-------------------------------------------------------------------------------
(* The tables                                                               *)

\* A slot is a session and a number, an instance a path and a number.
LEMMA Shapes ==
  /\ \A f \in FF : f[1] \in Sid /\ f[2] \in 1 .. MAX_STREAMS_CNT
  /\ \A i \in Inst : i[1] \in Path /\ i[2] \in 1 .. MAX_STREAMS_CNT /\ i # NoInst
  BY ServerAssumption DEF Inst

\* A slot below the count of its session that is set up is one of its streams.
LEMMA StreamsIff ==
  ASSUME TypeOK, NEW f \in FF
  PROVE  f \in Streams(f[1]) <=> ff[f].m_setup /\ f[2] \in 1 .. m_stream_cnt[f[1]]
<1>1. f = <<f[1], f[2]>>
  BY ServerAssumption
<1>2. QED
  BY <1>1 DEF Streams

\* Only an instance of a registered group is registered.
LEMMA RegisteredGroup ==
  ASSUME NEW i \in Inst, Registered(i)
  PROVE  m_datas[i[1]] # <<>>
  BY DEF Registered

\* The streams a request matches are set up, each on an instance of its own.
LEMMA MatchingResult ==
  ASSUME TypeOK, StreamsReachable, AtHome, NEW s \in Sid, NEW path \in Path
  PROVE  \A f \in Matching(s, path) :
           /\ f \in FF /\ f[1] = s /\ ff[f].m_setup
           /\ m_inst[f] \in Inst /\ home[f] = m_inst[f]
<1>1. SUFFICES ASSUME NEW f \in Matching(s, path)
               PROVE  /\ f \in FF /\ f[1] = s /\ ff[f].m_setup
                      /\ m_inst[f] \in Inst /\ home[f] = m_inst[f]
  OBVIOUS
<1>2. f \in {s} \X (1 .. m_stream_cnt[s]) /\ ff[f].m_setup
  BY DEF Matching, Streams
<1>3. m_stream_cnt[s] \in 0 .. MAX_STREAMS_CNT
  BY DEF TypeOK
<1>4. f \in FF /\ f[1] = s
  BY <1>2, <1>3, ServerAssumption
<1>5. m_inst[f] # NoInst /\ m_inst[f] \in Inst \union {NoInst} /\ m_inst[f] \in {NoInst, home[f]}
  BY <1>2, <1>4 DEF StreamsReachable, AtHome, TypeOK
<1>6. QED
  BY <1>2, <1>4, <1>5

-------------------------------------------------------------------------------
(* The inductive invariant                                                  *)

LEMMA InitIInv == Init => IInv
<1> SUFFICES ASSUME Init PROVE IInv
  OBVIOUS
<1>1. TypeOK
  <2>1. FreshFF \in FFStream
    BY DEF FreshFF, FFStream
  <2>2. QED
    BY <2>1, CreatInstResult, ServerAssumption DEF Init, TypeOK
<1>2. \A f \in FF : ~ff[f].m_setup /\ m_inst[f] = NoInst /\ home[f] = NoInst /\ last[f] = NoSeq
  BY DEF Init, FreshFF
<1>3. \A i \in Inst : insts[i] = CreatInst /\ ~Registered(i)
  <2>1. \A i \in Inst : m_datas[i[1]] = <<>> /\ i[2] \in 1 .. MAX_STREAMS_CNT
    BY Shapes DEF Init
  <2>2. \A i \in Inst : ~Registered(i)
    BY <2>1 DEF Registered
  <2>3. QED
    BY <2>2 DEF Init
<1>4. StreamsReachable /\ AddressableAsSetUp /\ NotYet /\ AtHome
  BY <1>2 DEF StreamsReachable, AddressableAsSetUp, NotYet, AtHome
<1>5. GroupsSetUp
  BY <1>3 DEF GroupsSetUp
<1>6. EntriesAtHome
  BY <1>3, CreatInstResult DEF EntriesAtHome, Has
<1>7. QED
  BY <1>1, <1>4, <1>5, <1>6 DEF IInv

\* What AddressableAsSetUp says of a stream, but for the count of its session
LEMMA AddressableIff ==
  ASSUME TypeOK, StreamsReachable
  PROVE  AddressableAsSetUp <=> \A f \in FF : ff[f].m_setup => Match(via[f], m_inst[f])
  BY DEF AddressableAsSetUp, Matching, StreamsReachable

\* A step that registers nothing, sets up or tears down no stream and lists
\* streams on their own instance only.
QuietStep ==
  /\ UNCHANGED <<m_datas, m_sess, m_stream_cnt, m_inst, home, via>>
  /\ \A f \in FF : ff'[f].m_setup = ff[f].m_setup
  /\ \A f \in FF : f[2] > m_stream_cnt[f[1]] => last'[f] = last[f]
  /\ \A i \in Inst :
       /\ insts'[i].m_setup = insts[i].m_setup
       /\ insts[i] = CreatInst => insts'[i] = CreatInst
       /\ \A f \in FF : Has(i, f)' => Has(i, f) \/ m_inst[f] = i

LEMMA QuietIInv ==
  ASSUME IInv, TypeOK', QuietStep
  PROVE  IInv'
<1>1. \A i \in Inst : Registered(i)' <=> Registered(i)
  BY DEF QuietStep, Registered
<1>2. StreamsReachable'
  <2> SUFFICES ASSUME NEW f \in FF
      PROVE  /\ ff'[f].m_setup => f[1] \in m_sess' /\ f \in Streams(f[1])'
             /\ ff'[f].m_setup <=> m_inst'[f] # NoInst
             /\ m_inst'[f] # NoInst => Registered(m_inst[f])' /\ insts'[m_inst[f]].m_setup
    BY DEF StreamsReachable, QuietStep
  <2>1. m_inst[f] \in Inst \union {NoInst}
    BY DEF IInv, TypeOK
  <2>2. ff[f].m_setup => f[1] \in m_sess /\ f \in Streams(f[1])
    BY DEF IInv, StreamsReachable
  <2>3. ff'[f].m_setup => f \in Streams(f[1])'
    BY <2>2 DEF QuietStep, Streams
  <2>4. QED
    BY <1>1, <2>1, <2>2, <2>3 DEF QuietStep, IInv, StreamsReachable
<1>3. AddressableAsSetUp'
  <2>1. \A f \in FF : ff[f].m_setup => Match(via[f], m_inst[f])
    BY AddressableIff DEF IInv
  <2>2. \A f \in FF : Match(via[f], m_inst[f])' <=> Match(via[f], m_inst[f])
    BY DEF QuietStep, Match, InstPath
  <2>3. \A f \in FF : ff'[f].m_setup => f \in Streams(f[1])' /\ Match(via[f], m_inst[f])'
    BY <1>2, <2>1, <2>2 DEF QuietStep, StreamsReachable
  <2>4. QED
    BY <2>3 DEF AddressableAsSetUp, Matching
<1>4. NotYet' /\ AtHome'
  BY DEF QuietStep, IInv, NotYet, AtHome
<1>5. GroupsSetUp'
  BY <1>1 DEF QuietStep, IInv, GroupsSetUp
<1>6. EntriesAtHome'
  <2>1. \A i \in Inst, f \in FF : m_inst[f] = i => home[f] = i
    BY Shapes DEF IInv, AtHome
  <2>2. QED
    BY <2>1 DEF QuietStep, IInv, EntriesAtHome
<1>7. QED
  BY <1>2, <1>3, <1>4, <1>5, <1>6 DEF IInv

\* ANNOUNCE: the instances of the new group had nothing yet.
LEMMA AnnounceIInv ==
  ASSUME IInv, NEW p \in Path, NEW ms \in MediaList,
         NEW ssrc \in [1 .. Len(ms) -> Ssrc], NEW seq \in [1 .. Len(ms) -> 0 .. SeqMod - 1],
         DealAnnounce(p, ms, ssrc, seq)
  PROVE  /\ IInv'
         /\ \A i \in Inst : IF i[1] = p /\ i[2] <= Len(ms)
                            THEN /\ insts[i] = CreatInst
                                 /\ insts'[i] = SetupInst(CreatInst, ssrc[i[2]], seq[i[2]])
                                 /\ ssrc[i[2]] \in Ssrc \ {0}
                                 /\ seq[i[2]] \in 0 .. SeqMod - 1
                            ELSE insts'[i] = insts[i]
<1>0. TypeOK /\ Len(ms) \in 1 .. MAX_STREAMS_CNT
  BY ServerAssumption DEF IInv
<1>1. m_datas[p] = <<>>
  BY DEF DealAnnounce, Exist
<1>2. /\ m_datas' \in [Path -> MediaList \union {<<>>}]
      /\ m_datas'[p] = ms /\ \A q \in Path \ {p} : m_datas'[q] = m_datas[q]
  BY <1>0 DEF DealAnnounce, TypeOK
<1>3. \A i \in Inst : i[1] = p => ~Registered(i)
  BY <1>1, RegisteredGroup
<1>4. \A i \in Inst : Registered(i)' <=> Registered(i) \/ (i[1] = p /\ i[2] <= Len(ms))
  BY <1>0, <1>2, <1>3, Shapes DEF Registered
<1>5. \A i \in Inst : Registered(i) => i[1] # p /\ insts'[i] = insts[i]
  BY <1>3 DEF DealAnnounce
<1>6. \A i \in Inst : i[1] = p /\ i[2] <= Len(ms) =>
        /\ insts[i] = CreatInst
        /\ ssrc[i[2]] \in Ssrc \ {0} /\ seq[i[2]] \in 0 .. SeqMod - 1
        /\ insts'[i] = SetupInst(CreatInst, ssrc[i[2]], seq[i[2]])
  <2>1. \A i \in Inst : i[1] = p /\ i[2] <= Len(ms) => i[2] \in 1 .. Len(ms)
    BY <1>0, Shapes
  <2>2. QED
    BY <1>3, <2>1 DEF DealAnnounce, IInv, GroupsSetUp
<1>7. \A i \in Inst : ~(i[1] = p /\ i[2] <= Len(ms)) => insts'[i] = insts[i]
  BY DEF DealAnnounce
<1>8. \A i \in Inst : /\ insts'[i] \in InstStream
                      /\ Registered(i)' => insts'[i].m_setup
                      /\ ~Registered(i)' => insts'[i] = CreatInst
                      /\ \A f \in FF : Has(i, f)' => Has(i, f)
  <2> SUFFICES ASSUME NEW i \in Inst
      PROVE  /\ insts'[i] \in InstStream
             /\ Registered(i)' => insts'[i].m_setup
             /\ ~Registered(i)' => insts'[i] = CreatInst
             /\ \A f \in FF : Has(i, f)' => Has(i, f)
    OBVIOUS
  <2>1. CASE i[1] = p /\ i[2] <= Len(ms)
    <3>1. PICK q \in Ssrc, n \in 0 .. SeqMod - 1 :
            insts'[i] = SetupInst(CreatInst, q, n) /\ insts[i] = CreatInst
      BY <1>6, <2>1
    <3>2. PICK r \in InstStream :
            /\ r = SetupInst(CreatInst, q, n) /\ r.m_setup
            /\ r.m_player_list = {} /\ r.m_publisher_list = {}
            /\ \A a \in Addr : r.m_map_rtp_addr[a] = NoFF /\ r.m_map_rtcp_addr[a] = NoFF
      BY SetupFreshResult
    <3>3. /\ insts'[i] \in InstStream /\ insts'[i].m_setup
          /\ insts'[i].m_player_list = {} /\ insts'[i].m_publisher_list = {}
          /\ \A a \in Addr : /\ insts'[i].m_map_rtp_addr[a] = NoFF
                             /\ insts'[i].m_map_rtcp_addr[a] = NoFF
      BY <3>1, <3>2
    <3>4. \A f \in FF : Has(i, f)' => Has(i, f)
      BY <3>1, <3>3 DEF Has
    <3>5. Registered(i)'
      BY <1>4, <2>1
    <3>6. QED
      BY <3>1, <3>3, <3>4, <3>5
  <2>2. CASE ~(i[1] = p /\ i[2] <= Len(ms))
    BY <1>0, <1>4, <1>7, <2>2 DEF IInv, GroupsSetUp, Has, TypeOK
  <2>3. QED
    BY <2>1, <2>2
<1>9. TypeOK'
  <2>1. insts' \in [Inst -> InstStream]
    BY <1>8 DEF DealAnnounce
  <2>2. QED
    BY <1>0, <1>2, <2>1 DEF DealAnnounce, TypeOK
<1>10. StreamsReachable'
  <2>1. \A f \in FF : f \in Streams(f[1])' <=> f \in Streams(f[1])
    BY DEF DealAnnounce, Streams
  <2>2. QED
    BY <1>0, <1>4, <1>5, <2>1 DEF DealAnnounce, IInv, StreamsReachable, TypeOK
<1>11. AddressableAsSetUp'
  <2>1. \A i \in Inst : Registered(i) => InstPath(i)' = InstPath(i)
    BY <1>2, <1>5, Shapes DEF InstPath
  <2>2. \A f \in FF : ff[f].m_setup => /\ f \in Streams(f[1])
                                       /\ m_inst[f] \in Inst /\ Registered(m_inst[f])
                                       /\ Match(via[f], m_inst[f])
    BY <1>0, AddressableIff DEF IInv, StreamsReachable, TypeOK
  <2>3. \A f \in FF : ff[f].m_setup => Match(via[f], m_inst[f])'
    BY <2>1, <2>2 DEF Match, DealAnnounce
  <2>4. \A f \in FF : ff'[f].m_setup => f \in Streams(f[1])' /\ Match(via[f], m_inst[f])'
    BY <2>2, <2>3 DEF DealAnnounce, Streams
  <2>5. QED
    BY <2>4 DEF AddressableAsSetUp, Matching
<1>12. NotYet' /\ AtHome'
  BY DEF DealAnnounce, IInv, NotYet, AtHome
<1>13. GroupsSetUp' /\ EntriesAtHome'
  BY <1>8 DEF GroupsSetUp, EntriesAtHome, DealAnnounce, IInv
<1>14. QED
  BY <1>6, <1>7, <1>9, <1>10, <1>11, <1>12, <1>13 DEF IInv

\* A refused SETUP: one more session
LEMMA RefuseIInv ==
  ASSUME IInv, NEW s \in Sid, NEW path \in Path, RefuseSetup(s, path)
  PROVE  IInv'
<1>1. TypeOK'
  BY DEF IInv, TypeOK, RefuseSetup, PrepareSess
<1>2. \A f \in FF : f \in Streams(f[1])' <=> f \in Streams(f[1])
  BY DEF RefuseSetup, Streams
<1>3. StreamsReachable'
  BY <1>2 DEF RefuseSetup, PrepareSess, IInv, StreamsReachable, Registered
<1>4. AddressableAsSetUp'
  BY DEF RefuseSetup, IInv, AddressableAsSetUp, Matching, Streams, Match, InstPath
<1>5. NotYet' /\ AtHome'
  BY DEF RefuseSetup, IInv, NotYet, AtHome
<1>6. GroupsSetUp' /\ EntriesAtHome'
  BY DEF RefuseSetup, IInv, GroupsSetUp, EntriesAtHome, Registered, Has
<1>7. QED
  BY <1>1, <1>3, <1>4, <1>5, <1>6 DEF IInv

\* findGrp and findInst only return instances that are there, and match.
LEMMA TargetResult ==
  ASSUME TypeOK, NEW path \in Path, NEW i \in Target(path)
  PROVE  i \in Inst /\ Registered(i) /\ Match(path, i)
<1>1. CASE m_datas[path] # <<>>
  <2>1. i = <<path, 1>>
    BY <1>1 DEF Target
  <2>2. m_datas[path] \in MediaList /\ Len(m_datas[path]) \in 1 .. MAX_STREAMS_CNT
    BY <1>1, ServerAssumption DEF TypeOK
  <2>3. i \in Inst
    BY <2>1, ServerAssumption DEF Inst
  <2>4. QED
    BY <2>1, <2>2, <2>3 DEF Registered, Match
<1>2. CASE m_datas[path] = <<>>
  BY <1>2 DEF Target, Match
<1>3. QED
  BY <1>1, <1>2

\* SETUP: the slot it takes is one that nothing happened to yet.
LEMMA SetupSlot ==
  ASSUME IInv, NEW s \in Sid, m_stream_cnt[s] + 1 <= MAX_STREAMS_CNT
  PROVE  LET n == m_stream_cnt[s] + 1
             f == <<s, n>>
         IN /\ f \in FF /\ n \in 1 .. MAX_STREAMS_CNT
            /\ ~ff[f].m_setup /\ m_inst[f] = NoInst /\ home[f] = NoInst
            /\ last[f] = NoSeq
            /\ \A i \in Inst : ~Has(i, f)
<1> DEFINE n == m_stream_cnt[s] + 1
           f == <<s, n>>
<1>1. m_stream_cnt[s] \in Nat /\ n \in 1 .. MAX_STREAMS_CNT /\ f \in FF /\ f[1] = s /\ f[2] = n
  BY ServerAssumption DEF IInv, TypeOK
<1>2. home[f] = NoInst /\ last[f] = NoSeq
  BY <1>1 DEF IInv, NotYet
<1>3. m_inst[f] = NoInst
  BY <1>1, <1>2 DEF IInv, AtHome
<1>4. ~ff[f].m_setup
  BY <1>1, <1>3 DEF IInv, StreamsReachable
<1>5. \A i \in Inst : ~Has(i, f)
  BY <1>1, <1>2, Shapes DEF IInv, EntriesAtHome
<1>6. QED
  BY <1>1, <1>2, <1>3, <1>4, <1>5

LEMMA SetupIInv ==
  ASSUME IInv, NEW s \in Sid, NEW path \in Path, NEW rtp \in Addr, NEW rtcp \in Addr,
         DealSetup(s, path, rtp, rtcp)
  PROVE  IInv'
<1>0. TypeOK /\ m_stream_cnt[s] \in Nat
  BY DEF IInv, TypeOK
<1>1. PICK f \in FF, n \in 1 .. MAX_STREAMS_CNT :
        /\ n = m_stream_cnt[s] + 1
        /\ f = <<s, n>> /\ f[1] = s /\ f[2] = n
        /\ home[f] = NoInst /\ \A i \in Inst : ~Has(i, f)
  BY SetupSlot DEF DealSetup
<1>2. PICK i \in Target(path) :
        /\ insts' = [insts EXCEPT ![i] = AddFF(insts[i], f, rtp, rtcp)]
        /\ m_inst' = [m_inst EXCEPT ![f] = i]
        /\ home' = [home EXCEPT ![f] = i]
  BY <1>1 DEF DealSetup
<1>3. i \in Inst /\ Registered(i) /\ Match(path, i) /\ i # NoInst
  BY <1>0, TargetResult, Shapes
<1>4. /\ m_sess' = m_sess \union {s} /\ m_datas' = m_datas /\ last' = last
      /\ ff' = [ff EXCEPT ![f] = SetupFF(rtp, rtcp)]
      /\ via' = [via EXCEPT ![f] = path]
      /\ m_stream_cnt' = [m_stream_cnt EXCEPT ![s] = n]
      /\ forgotten' = forgotten
  BY <1>1 DEF DealSetup, PrepareSess
<1>5. SetupFF(rtp, rtcp) \in FFStream /\ SetupFF(rtp, rtcp).m_setup
  BY DEF SetupFF, FreshFF, FFStream
<1>6. insts[i] \in InstStream /\ insts[i].m_setup
  BY <1>0, <1>3 DEF TypeOK, IInv, GroupsSetUp
<1>7. /\ insts'[i] \in InstStream /\ insts'[i].m_setup
      /\ \A j \in Inst \ {i} : insts'[j] = insts[j]
      /\ \A g \in FF : Has(i, g)' => Has(i, g) \/ g = f
  <2>1. insts'[i] = AddFF(insts[i], f, rtp, rtcp)
    BY <1>0, <1>2, <1>3 DEF TypeOK
  <2>2. /\ insts'[i] \in InstStream /\ insts'[i].m_setup
        /\ insts'[i].m_player_list = insts[i].m_player_list
        /\ insts'[i].m_publisher_list = insts[i].m_publisher_list
        /\ \A a \in Addr : insts'[i].m_map_rtp_addr[a] \in {f, insts[i].m_map_rtp_addr[a]}
        /\ \A a \in Addr : insts'[i].m_map_rtcp_addr[a] \in {f, insts[i].m_map_rtcp_addr[a]}
    BY <1>6, <2>1, AddFFResult
  <2>3. \A g \in FF : Has(i, g)' => Has(i, g) \/ g = f
    BY <2>2 DEF Has
  <2>4. \A j \in Inst \ {i} : insts'[j] = insts[j]
    BY <1>0, <1>2 DEF TypeOK
  <2>5. QED
    BY <2>2, <2>3, <2>4
<1>8. /\ \A g \in FF \ {f} : /\ ff'[g] = ff[g] /\ via'[g] = via[g]
                             /\ m_inst'[g] = m_inst[g] /\ home'[g] = home[g]
      /\ ff'[f].m_setup /\ via'[f] = path /\ m_inst'[f] = i /\ home'[f] = i
      /\ m_stream_cnt'[s] = n /\ \A t \in Sid \ {s} : m_stream_cnt'[t] = m_stream_cnt[t]
  BY <1>0, <1>1, <1>2, <1>3, <1>4, <1>5 DEF TypeOK
<1>9. TypeOK'
  <2>1. insts' \in [Inst -> InstStream]
    BY <1>0, <1>2, <1>7 DEF TypeOK
  <2>2. m_inst' \in [FF -> Inst \union {NoInst}] /\ home' \in [FF -> Inst \union {NoInst}]
    BY <1>0, <1>2, <1>3 DEF TypeOK
  <2>3. ff' \in [FF -> FFStream] /\ via' \in [FF -> Path \union {<<>>}]
    BY <1>0, <1>4, <1>5 DEF TypeOK
  <2>4. m_stream_cnt' \in [Sid -> 0 .. MAX_STREAMS_CNT]
    BY <1>0, <1>1, <1>4 DEF TypeOK
  <2>5. QED
    BY <1>0, <1>4, <2>1, <2>2, <2>3, <2>4 DEF TypeOK
<1>10. \A j \in Inst : (Registered(j)' <=> Registered(j)) /\ InstPath(j)' = InstPath(j)
  BY <1>4 DEF Registered, InstPath
<1>11. \A g \in FF : g # f /\ ff[g].m_setup =>
         /\ g[1] \in m_sess' /\ g \in Streams(g[1])' /\ Match(via[g], m_inst[g])'
  <2> SUFFICES ASSUME NEW g \in FF, g # f, ff[g].m_setup
      PROVE  g[1] \in m_sess' /\ g \in Streams(g[1])' /\ Match(via[g], m_inst[g])'
    OBVIOUS
  <2>1. g[1] \in m_sess /\ g \in Streams(g[1])
    BY DEF IInv, StreamsReachable
  <2>2. g[2] \in 1 .. m_stream_cnt[g[1]] /\ m_stream_cnt[g[1]] \in Nat
    BY <1>0, <2>1, StreamsIff, Shapes DEF TypeOK
  <2>3. g[2] \in 1 .. m_stream_cnt'[g[1]]
    BY <1>8, <1>0, <1>1, <2>2, Shapes
  <2>4. g \in Streams(g[1])'
    <3>1. g = <<g[1], g[2]>> /\ ff'[g].m_setup
      BY <1>8, ServerAssumption
    <3>2. QED
      BY <2>3, <3>1 DEF Streams
  <2>5. Match(via[g], m_inst[g])
    BY <1>0, AddressableIff DEF IInv
  <2>6. QED
    BY <1>4, <1>8, <1>10, <2>1, <2>4, <2>5 DEF Match, InstPath
<1>12. /\ f[1] \in m_sess' /\ f \in Streams(f[1])' /\ Match(via[f], m_inst[f])'
  <2>1. f \in Streams(f[1])'
    BY <1>1, <1>8 DEF Streams
  <2>2. Match(path, i)'
    BY <1>3, <1>10 DEF Match
  <2>3. QED
    BY <1>1, <1>4, <1>8, <2>1, <2>2 DEF Match
<1>13. StreamsReachable'
  <2>1. \A g \in FF : /\ ff'[g].m_setup => g[1] \in m_sess' /\ g \in Streams(g[1])'
                      /\ ff'[g].m_setup <=> m_inst'[g] # NoInst
    BY <1>3, <1>8, <1>11, <1>12 DEF IInv, StreamsReachable
  <2>2. \A j \in Inst : insts[j].m_setup => insts'[j].m_setup
    BY <1>7
  <2>3. \A g \in FF : m_inst'[g] # NoInst => Registered(m_inst[g])' /\ insts'[m_inst'[g]].m_setup
    <3> SUFFICES ASSUME NEW g \in FF, m_inst'[g] # NoInst
        PROVE  Registered(m_inst[g])' /\ insts'[m_inst'[g]].m_setup
      OBVIOUS
    <3>1. CASE g = f
      BY <1>3, <1>7, <1>8, <1>10, <3>1 DEF Registered
    <3>2. CASE g # f
      <4>1. /\ m_inst'[g] = m_inst[g] /\ m_inst[g] \in Inst
            /\ Registered(m_inst[g]) /\ insts[m_inst[g]].m_setup
        BY <1>0, <1>8, <3>2 DEF IInv, StreamsReachable, TypeOK
      <4>2. QED
        BY <1>4, <2>2, <4>1 DEF Registered
    <3>3. QED
      BY <3>1, <3>2
  <2>4. QED
    BY <2>1, <2>3 DEF StreamsReachable
<1>14. AddressableAsSetUp'
  BY <1>8, <1>11, <1>12 DEF AddressableAsSetUp, Matching
<1>15. NotYet'
  <2> SUFFICES ASSUME NEW g \in FF, g[2] > m_stream_cnt'[g[1]]
      PROVE  home'[g] = NoInst /\ last'[g] = NoSeq
    BY DEF NotYet
  <2>1. g # f
    BY <1>1, <1>8
  <2>2. g[2] > m_stream_cnt[g[1]]
    <3>1. g[1] \in Sid /\ g[2] \in Nat /\ m_stream_cnt[g[1]] \in Nat
      BY <1>0, Shapes DEF TypeOK
    <3>2. QED
      BY <1>8, <1>0, <1>1, <3>1
  <2>3. QED
    BY <1>4, <1>8, <2>1, <2>2 DEF IInv, NotYet
<1>16. AtHome'
  BY <1>8 DEF IInv, AtHome
<1>17. GroupsSetUp'
  BY <1>3, <1>7, <1>10 DEF IInv, GroupsSetUp
<1>18. EntriesAtHome'
  <2> SUFFICES ASSUME NEW j \in Inst, NEW g \in FF, Has(j, g)'
      PROVE  home'[g] = j
    BY DEF EntriesAtHome
  <2>1. CASE j = i
    BY <1>1, <1>7, <1>8, <2>1 DEF IInv, EntriesAtHome
  <2>2. CASE j # i
    <3>1. Has(j, g)
      BY <1>7, <2>2 DEF Has
    <3>2. QED
      BY <1>1, <1>8, <3>1 DEF IInv, EntriesAtHome
  <2>3. QED
    BY <2>1, <2>2
<1>19. QED
  BY <1>9, <1>13, <1>14, <1>15, <1>16, <1>17, <1>18 DEF IInv

\* PLAY and RECORD list streams on the instance they were set up on.
LEMMA ActivateIInv ==
  ASSUME IInv, NEW s \in Sid, NEW path \in Path, NEW pub \in BOOLEAN, Activate(s, path, pub)
  PROVE  IInv'
<1> DEFINE S == Matching(s, path)
           On(i) == {f \in S : m_inst[f] = i}
<1>0. TypeOK
  BY DEF IInv
<1>1. \A f \in S : f \in FF /\ f[1] = s /\ ff[f].m_setup /\ m_inst[f] \in Inst
  BY MatchingResult DEF IInv
<1> HIDE DEF S
<1>2. /\ ff' = [f \in FF |-> IF f \in S THEN [ff[f] EXCEPT !.m_is_publisher = pub] ELSE ff[f]]
      /\ insts' = [i \in Inst |-> ActivateFF(insts[i], On(i), pub)]
      /\ UNCHANGED <<m_datas, m_sess, m_stream_cnt, m_inst, home, via, last, forgotten>>
  BY DEF Activate, S
<1>3. \A f \in FF : ff'[f] \in FFStream /\ ff'[f].m_setup = ff[f].m_setup
  <2>1. ff \in [FF -> FFStream]
    BY <1>0 DEF TypeOK
  <2>2. \A f \in FF : ff'[f] = IF f \in S THEN [ff[f] EXCEPT !.m_is_publisher = pub] ELSE ff[f]
    BY <1>2
  <2>3. QED
    BY <2>1, <2>2 DEF FFStream
<1>4. ASSUME NEW i \in Inst
      PROVE  /\ insts'[i] \in InstStream
             /\ insts'[i].m_setup = insts[i].m_setup
             /\ insts[i] = CreatInst => insts'[i] = CreatInst
             /\ \A f \in FF : Has(i, f)' => Has(i, f) \/ m_inst[f] = i
  <2>1. On(i) \in SUBSET FF /\ insts[i] \in InstStream
    BY <1>0, <1>1 DEF TypeOK
  <2>2. insts'[i] = ActivateFF(insts[i], On(i), pub)
    BY <1>2
  <2>3. \A f \in On(i) : m_inst[f] = i /\ insts[i].m_setup
    BY <1>1, Shapes DEF IInv, StreamsReachable
  <2>4. insts[i] = CreatInst => On(i) = {}
    BY <2>3, CreatInstResult
  <2> HIDE DEF On
  <2>5. insts[i] = CreatInst => insts'[i] = CreatInst
    BY <2>1, <2>2, <2>4, ActivateNone
  <2>6. /\ insts'[i] \in InstStream
        /\ insts'[i].m_setup = insts[i].m_setup
        /\ insts'[i].m_player_list \subseteq insts[i].m_player_list \union On(i)
        /\ insts'[i].m_publisher_list \subseteq insts[i].m_publisher_list \union On(i)
        /\ insts'[i].m_map_rtp_addr = insts[i].m_map_rtp_addr
        /\ insts'[i].m_map_rtcp_addr = insts[i].m_map_rtcp_addr
    <3>1. Unhashed(insts[i], On(i)) \subseteq On(i)
      BY DEF Unhashed
    <3>2. QED
      BY <2>1, <2>2, <3>1, ActivateFFResult
  <2>7. QED
    BY <2>3, <2>5, <2>6 DEF Has
<1>5. TypeOK'
  BY <1>0, <1>2, <1>3, <1>4 DEF TypeOK
<1>6. QuietStep
  BY <1>2, <1>3, <1>4 DEF QuietStep
<1>7. QED
  BY <1>5, <1>6, QuietIInv

\* TEARDOWN removes all traces of the streams it matches.
LEMMA TeardownIInv ==
  ASSUME IInv, NEW s \in Sid, NEW path \in Path, DealTeardown(s, path)
  PROVE  IInv'
<1> DEFINE S == Matching(s, path)
           On(i) == {f \in S : m_inst[f] = i}
<1>0. TypeOK
  BY DEF IInv
<1>1. \A f \in S : f \in FF /\ f[1] = s /\ ff[f].m_setup /\ m_inst[f] \in Inst
  BY MatchingResult DEF IInv
<1> HIDE DEF S
<1>2. /\ ff' = [f \in FF |-> IF f \in S THEN [ff[f] EXCEPT !.m_setup = FALSE] ELSE ff[f]]
      /\ insts' = [i \in Inst |-> RemoveFF(insts[i], ff, On(i))]
      /\ m_inst' = [f \in FF |-> IF f \in S THEN NoInst ELSE m_inst[f]]
      /\ UNCHANGED <<m_datas, m_sess, m_stream_cnt, home, via, last, forgotten>>
  BY DEF DealTeardown, S
<1>3. \A f \in FF : /\ ff'[f] \in FFStream
                    /\ ff'[f].m_setup = (ff[f].m_setup /\ f \notin S)
                    /\ m_inst'[f] = IF f \in S THEN NoInst ELSE m_inst[f]
  <2>1. ff \in [FF -> FFStream]
    BY <1>0 DEF TypeOK
  <2>2. \A f \in FF : ff'[f] = IF f \in S THEN [ff[f] EXCEPT !.m_setup = FALSE] ELSE ff[f]
    BY <1>2
  <2>3. \A f \in FF : ff'[f] \in FFStream /\ ff'[f].m_setup = (ff[f].m_setup /\ f \notin S)
    BY <2>1, <2>2 DEF FFStream
  <2>4. QED
    BY <1>2, <2>3
<1>4. ASSUME NEW i \in Inst
      PROVE  /\ insts'[i] \in InstStream
             /\ insts'[i].m_setup = insts[i].m_setup
             /\ insts[i] = CreatInst => insts'[i] = CreatInst
             /\ \A f \in FF : Has(i, f)' => Has(i, f)
  <2>1. On(i) \in SUBSET FF /\ insts[i] \in InstStream /\ ff \in [FF -> FFStream]
    BY <1>0, <1>1 DEF TypeOK
  <2>2. insts'[i] = RemoveFF(insts[i], ff, On(i))
    BY <1>2
  <2>3. \A f \in On(i) : insts[i].m_setup
    BY <1>1, Shapes DEF IInv, StreamsReachable
  <2>4. insts[i] = CreatInst => On(i) = {}
    BY <2>3, CreatInstResult
  <2> HIDE DEF On
  <2>5. insts[i] = CreatInst => insts'[i] = CreatInst
    BY <2>1, <2>2, <2>4, RemoveNone
  <2>6. /\ insts'[i] \in InstStream
        /\ insts'[i].m_setup = insts[i].m_setup
        /\ insts'[i].m_player_list \subseteq insts[i].m_player_list
        /\ insts'[i].m_publisher_list \subseteq insts[i].m_publisher_list
        /\ \A a \in Addr : insts'[i].m_map_rtp_addr[a] \in {NoFF, insts[i].m_map_rtp_addr[a]}
        /\ \A a \in Addr : insts'[i].m_map_rtcp_addr[a] \in {NoFF, insts[i].m_map_rtcp_addr[a]}
    BY <2>1, <2>2, RemoveFFResult
  <2>7. QED
    BY <2>5, <2>6 DEF Has
<1>5. TypeOK'
  <2>1. m_inst' \in [FF -> Inst \union {NoInst}]
    BY <1>0, <1>2 DEF TypeOK
  <2>2. QED
    BY <1>0, <1>2, <1>3, <1>4, <2>1 DEF TypeOK
<1>6. \A i \in Inst : Registered(i)' <=> Registered(i)
  BY <1>2 DEF Registered
<1>7. \A f \in FF : ff'[f].m_setup => f \in Streams(f[1])'
  BY <1>0, <1>2, <1>3 DEF IInv, StreamsReachable, Streams
<1>8. StreamsReachable'
  <2>1. \A f \in FF : m_inst'[f] # NoInst => Registered(m_inst[f])' /\ insts'[m_inst'[f]].m_setup
    <3> SUFFICES ASSUME NEW f \in FF, m_inst'[f] # NoInst
        PROVE  Registered(m_inst[f])' /\ insts'[m_inst'[f]].m_setup
      OBVIOUS
    <3>1. /\ m_inst'[f] = m_inst[f] /\ m_inst[f] \in Inst
          /\ Registered(m_inst[f]) /\ insts[m_inst[f]].m_setup
      BY <1>0, <1>3 DEF IInv, StreamsReachable, TypeOK
    <3>2. QED
      BY <1>2, <1>4, <3>1 DEF Registered
  <2>2. QED
    BY <1>2, <1>3, <1>7, <2>1 DEF IInv, StreamsReachable
<1>9. AddressableAsSetUp'
  <2>1. \A f \in FF : ff[f].m_setup => Match(via[f], m_inst[f])
    BY <1>0, AddressableIff DEF IInv
  <2>2. \A f \in FF : ff'[f].m_setup => Match(via[f], m_inst[f])'
    BY <1>2, <1>3, <2>1 DEF Match, InstPath
  <2>3. QED
    BY <1>7, <2>2 DEF AddressableAsSetUp, Matching
<1>10. NotYet' /\ AtHome'
  BY <1>2, <1>3 DEF IInv, NotYet, AtHome
<1>11. GroupsSetUp' /\ EntriesAtHome'
  BY <1>2, <1>4, <1>6 DEF IInv, GroupsSetUp, EntriesAtHome
<1>12. QED
  BY <1>5, <1>8, <1>9, <1>10, <1>11 DEF IInv

\* An entry of an address map is a stream of that instance.
LEMMA FoundIsHome ==
  ASSUME IInv, NEW i \in Inst, NEW a \in Addr
  PROVE  /\ FindByRtp(insts[i], a) # NoFF =>
              FindByRtp(insts[i], a) \in FF /\ home[FindByRtp(insts[i], a)] = i
         /\ FindByRtcp(insts[i], a) # NoFF =>
              FindByRtcp(insts[i], a) \in FF /\ home[FindByRtcp(insts[i], a)] = i
<1>1. insts[i] \in InstStream
  BY DEF IInv, TypeOK
<1>2. /\ FindByRtp(insts[i], a) \in FF \union {NoFF}
      /\ FindByRtcp(insts[i], a) \in FF \union {NoFF}
  BY <1>1 DEF FindByRtp, FindByRtcp, InstStream
<1>3. \A f \in FF : f = FindByRtp(insts[i], a) \/ f = FindByRtcp(insts[i], a) => home[f] = i
  BY DEF IInv, EntriesAtHome, Has, FindByRtp, FindByRtcp
<1>4. QED
  BY <1>2, <1>3

\* A player of a registered instance is a slot in use.
LEMMA PlayerIsOld ==
  ASSUME IInv, NEW i \in Inst, NEW f \in insts[i].m_player_list
  PROVE  f \in FF /\ home[f] = i /\ ~(f[2] > m_stream_cnt[f[1]])
<1>1. f \in FF
  BY DEF IInv, TypeOK, InstStream
<1>2. home[f] = i
  BY <1>1 DEF IInv, EntriesAtHome, Has
<1>3. QED
  BY <1>1, <1>2, Shapes DEF IInv, NotYet

\* An instance that is not set up yet has no entry and receives no datagram.
LEMMA NoDatagramYet ==
  ASSUME IInv, NEW i \in Inst, NEW a \in Addr, insts[i] = CreatInst
  PROVE  FindByRtp(insts[i], a) = NoFF /\ FindByRtcp(insts[i], a) = NoFF
  BY CreatInstResult DEF FindByRtp, FindByRtcp

LEMMA ProcRtpIInv ==
  ASSUME IInv, NEW i \in Inst, NEW a \in Addr, NEW s \in Ssrc, NEW inSeq \in BOOLEAN,
         ProcRtp(i, a, s, inSeq)
  PROVE  IInv'
<1>0. TypeOK /\ insts[i] \in InstStream /\ insts[i].m_seq \in 0 .. SeqMod - 1
  BY DEF IInv, TypeOK, InstStream
<1>1. PICK f \in FF : f = FindByRtp(insts[i], a) /\ home[f] = i
  BY FoundIsHome DEF ProcRtp
<1>2. PICK next \in 0 .. SeqMod - 1 : next = NextSeq(insts[i])
  BY <1>0, NextSeqInRange DEF NextSeq
<1>3. PICK n \in 0 .. SeqMod - 1 : n = IF inSeq THEN next ELSE insts[i].m_seq
  BY <1>0
<1>4. /\ ff' = [ff EXCEPT ![f].m_ssrc = s]
      /\ insts' = [insts EXCEPT ![i] = [ClaimSsrc(insts[i], ff, f, s) EXCEPT
                                          !.m_seq = IF inSeq THEN next ELSE @]]
      /\ last' = [g \in FF |-> IF inSeq /\ g \in insts[i].m_player_list
                               THEN next ELSE last[g]]
      /\ UNCHANGED <<m_datas, m_sess, m_stream_cnt, m_inst, home, via, forgotten>>
  BY <1>1, <1>2 DEF ProcRtp
<1>5. \A g \in FF : ff'[g] \in FFStream /\ ff'[g].m_setup = ff[g].m_setup
  <2>1. ff \in [FF -> FFStream]
    BY <1>0 DEF TypeOK
  <2>2. \A g \in FF : ff'[g] = IF g = f THEN [ff[f] EXCEPT !.m_ssrc = s] ELSE ff[g]
    BY <1>4, <2>1
  <2>3. QED
    BY <2>1, <2>2 DEF FFStream
<1>6. PICK c \in InstStream :
        /\ c = ClaimSsrc(insts[i], ff, f, s)
        /\ c.m_setup = insts[i].m_setup /\ c.m_seq = insts[i].m_seq
        /\ c.m_player_list = insts[i].m_player_list
        /\ c.m_publisher_list = insts[i].m_publisher_list
        /\ c.m_map_rtp_addr = insts[i].m_map_rtp_addr
        /\ c.m_map_rtcp_addr = insts[i].m_map_rtcp_addr
  <2>1. ff \in [FF -> FFStream]
    BY <1>0 DEF TypeOK
  <2>2. QED
    BY <1>0, <2>1, ClaimSsrcResult
<1>7. insts' = [insts EXCEPT ![i] = [c EXCEPT !.m_seq = n]]
  BY <1>3, <1>4, <1>6
<1>8. /\ insts'[i] \in InstStream /\ insts'[i].m_setup = insts[i].m_setup
      /\ insts'[i].m_player_list = insts[i].m_player_list
      /\ insts'[i].m_publisher_list = insts[i].m_publisher_list
      /\ insts'[i].m_map_rtp_addr = insts[i].m_map_rtp_addr
      /\ insts'[i].m_map_rtcp_addr = insts[i].m_map_rtcp_addr
  <2>1. insts'[i] = [c EXCEPT !.m_seq = n]
    BY <1>0, <1>7 DEF TypeOK
  <2>2. QED
    BY <1>6, <2>1, BumpSeqResult
<1>9. \A j \in Inst \ {i} : insts'[j] = insts[j]
  BY <1>0, <1>7 DEF TypeOK
<1>10. TypeOK'
  <2>1. insts' \in [Inst -> InstStream]
    BY <1>0, <1>7, <1>8, <1>9 DEF TypeOK
  <2>2. ff' \in [FF -> FFStream]
    BY <1>0, <1>4, <1>5 DEF TypeOK
  <2>3. last' \in [FF -> (0 .. SeqMod - 1) \union {NoSeq}]
    BY <1>0, <1>4 DEF TypeOK
  <2>4. QED
    BY <1>0, <1>4, <2>1, <2>2, <2>3 DEF TypeOK
<1>11. QuietStep
  <2>1. \A g \in FF : g[2] > m_stream_cnt[g[1]] => last'[g] = last[g]
    BY <1>4, PlayerIsOld
  <2>2. \A g \in FF : Has(i, g)' => Has(i, g)
    BY <1>8 DEF Has
  <2>3. \A j \in Inst : \A g \in FF : Has(j, g)' => Has(j, g)
    BY <1>9, <2>2 DEF Has
  <2>4. insts[i] # CreatInst
    BY <1>1, NoDatagramYet
  <2>5. \A j \in Inst : /\ insts'[j].m_setup = insts[j].m_setup
                        /\ insts[j] = CreatInst => insts'[j] = CreatInst
    BY <1>8, <1>9, <2>4
  <2>6. QED
    BY <1>4, <1>5, <2>1, <2>3, <2>5 DEF QuietStep
<1>12. QED
  BY <1>10, <1>11, QuietIInv

LEMMA ProcRtcpIInv ==
  ASSUME IInv, NEW i \in Inst, NEW a \in Addr, NEW s \in Ssrc, NEW B \in SUBSET Ssrc,
         ProcRtcp(i, a, s, B)
  PROVE  IInv'
<1>0. TypeOK /\ insts[i] \in InstStream /\ ff \in [FF -> FFStream]
  BY DEF IInv, TypeOK
<1>1. PICK f \in FF : f = FindByRtcp(insts[i], a) /\ home[f] = i
  BY FoundIsHome DEF ProcRtcp
<1>2. PICK valid \in BOOLEAN : valid = ValidSsrc(insts[i], ff, f, s)
  BY DEF ValidSsrc
<1>3. PICK c \in InstStream :
        /\ c = IF valid THEN ClaimSsrc(insts[i], ff, f, s) ELSE insts[i]
        /\ c.m_setup = insts[i].m_setup
        /\ c.m_player_list = insts[i].m_player_list
        /\ c.m_publisher_list = insts[i].m_publisher_list
        /\ c.m_map_rtp_addr = insts[i].m_map_rtp_addr
        /\ c.m_map_rtcp_addr = insts[i].m_map_rtcp_addr
  BY <1>0, ClaimSsrcResult
<1>4. /\ ff' = IF valid THEN [ff EXCEPT ![f].m_ssrc = s] ELSE ff
      /\ insts' = [insts EXCEPT ![i] = DelSsrc(c, B)]
      /\ UNCHANGED <<m_datas, m_sess, m_stream_cnt, m_inst, home, via, last>>
      /\ forgotten' = [forgotten EXCEPT ![i] = @ \union {x \in B : InUse(i, x)'}]
  BY <1>1, <1>2, <1>3 DEF ProcRtcp
<1>5. \A g \in FF : ff'[g] \in FFStream /\ ff'[g].m_setup = ff[g].m_setup
  <2>1. \A g \in FF : ff'[g] = IF valid /\ g = f THEN [ff[f] EXCEPT !.m_ssrc = s] ELSE ff[g]
    BY <1>0, <1>4
  <2>2. QED
    BY <1>0, <2>1 DEF FFStream
<1>6. /\ insts'[i] \in InstStream /\ insts'[i].m_setup = insts[i].m_setup
      /\ insts'[i].m_player_list = insts[i].m_player_list
      /\ insts'[i].m_publisher_list = insts[i].m_publisher_list
      /\ insts'[i].m_map_rtp_addr = insts[i].m_map_rtp_addr
      /\ insts'[i].m_map_rtcp_addr = insts[i].m_map_rtcp_addr
  <2>1. insts'[i] = DelSsrc(c, B)
    BY <1>0, <1>4 DEF TypeOK
  <2>2. PICK d \in InstStream :
          /\ d = DelSsrc(c, B)
          /\ d.m_setup = c.m_setup
          /\ d.m_player_list = c.m_player_list
          /\ d.m_publisher_list = c.m_publisher_list
          /\ d.m_map_rtp_addr = c.m_map_rtp_addr
          /\ d.m_map_rtcp_addr = c.m_map_rtcp_addr
    BY DelSsrcResult
  <2>3. QED
    BY <1>3, <2>1, <2>2
<1>7. \A j \in Inst \ {i} : insts'[j] = insts[j]
  BY <1>0, <1>4 DEF TypeOK
<1>8. TypeOK'
  <2>1. insts' \in [Inst -> InstStream]
    BY <1>0, <1>4, <1>6, <1>7 DEF TypeOK
  <2>2. ff' \in [FF -> FFStream]
    BY <1>0, <1>4, <1>5
  <2>3. forgotten' \in [Inst -> SUBSET Ssrc]
    BY <1>0, <1>4 DEF TypeOK
  <2>4. QED
    BY <1>0, <1>4, <2>1, <2>2, <2>3 DEF TypeOK
<1>9. QuietStep
  <2>1. \A j \in Inst : \A g \in FF : Has(j, g)' => Has(j, g)
    <3>1. \A g \in FF : Has(i, g)' => Has(i, g)
      BY <1>6 DEF Has
    <3>2. QED
      BY <1>7, <3>1 DEF Has
  <2>2. insts[i] # CreatInst
    BY <1>1, NoDatagramYet
  <2>3. \A j \in Inst : /\ insts'[j].m_setup = insts[j].m_setup
                        /\ insts[j] = CreatInst => insts'[j] = CreatInst
    BY <1>6, <1>7, <2>2
  <2>4. QED
    BY <1>4, <1>5, <2>1, <2>3 DEF QuietStep
<1>10. QED
  BY <1>8, <1>9, QuietIInv

\* The tables, the sessions and the instances never get out of step.
THEOREM Inductive == Spec => []IInv
<1>1. Init => IInv
  BY InitIInv
<1>2. IInv /\ [Next]_vars => IInv'
  <2> SUFFICES ASSUME IInv, [Next]_vars PROVE IInv'
    OBVIOUS
  <2>1. ASSUME NEW p \in Path, NEW ms \in MediaList,
               NEW ssrc \in [1 .. Len(ms) -> Ssrc],
               NEW seq \in [1 .. Len(ms) -> 0 .. SeqMod - 1],
               DealAnnounce(p, ms, ssrc, seq)
        PROVE  IInv'
    BY <2>1, AnnounceIInv
  <2>2. ASSUME NEW s \in Sid, NEW path \in Path, RefuseSetup(s, path)
        PROVE  IInv'
    BY <2>2, RefuseIInv
  <2>3. ASSUME NEW s \in Sid, NEW path \in Path, NEW rtp \in Addr, NEW rtcp \in Addr,
               DealSetup(s, path, rtp, rtcp)
        PROVE  IInv'
    BY <2>3, SetupIInv
  <2>4. ASSUME NEW s \in Sid, NEW path \in Path, NEW pub \in BOOLEAN, Activate(s, path, pub)
        PROVE  IInv'
    BY <2>4, ActivateIInv
  <2>5. ASSUME NEW s \in Sid, NEW path \in Path, DealTeardown(s, path)
        PROVE  IInv'
    BY <2>5, TeardownIInv
  <2>6. ASSUME NEW i \in Inst, NEW a \in Addr, NEW s \in Ssrc, NEW inSeq \in BOOLEAN,
               ProcRtp(i, a, s, inSeq)
        PROVE  IInv'
    BY <2>6, ProcRtpIInv
  <2>7. ASSUME NEW i \in Inst, NEW a \in Addr, NEW s \in Ssrc, NEW B \in SUBSET Ssrc,
               ProcRtcp(i, a, s, B)
        PROVE  IInv'
    BY <2>7, ProcRtcpIInv
  <2>8. CASE UNCHANGED vars
    BY <2>8 DEF vars, IInv, TypeOK, StreamsReachable, AddressableAsSetUp, NotYet, AtHome,
                GroupsSetUp, EntriesAtHome, Has, Registered, Streams, Matching, Match, InstPath
  <2>9. QED
    BY <2>1, <2>2, <2>3, <2>4, <2>5, <2>6, <2>7, <2>8 DEF Next, Request, Datagram
<1>3. QED
  BY <1>1, <1>2, PTL DEF Spec

\* The tables keep their shape.
THEOREM TypeCorrect == Spec => []TypeOK
<1>1. IInv => TypeOK
  BY DEF IInv
<1>2. QED
  BY <1>1, Inductive, PTL

\* Every stream is found in its session, and its instance is set up.
THEOREM Reachable == Spec => []StreamsReachable
<1>1. IInv => StreamsReachable
  BY DEF IInv
<1>2. QED
  BY <1>1, Inductive, PTL

\* A stream stays addressable by the path it was set up with.
THEOREM Addressable == Spec => []AddressableAsSetUp
<1>1. IInv => AddressableAsSetUp
  BY DEF IInv
<1>2. QED
  BY <1>1, Inductive, PTL

-------------------------------------------------------------------------------
(* The streams of a session: which instance knows them, how often a session  *)
(* has one, what they see of a later ANNOUNCE, and that every instance of    *)
(* the server is an instance as RtpInst describes it: a step of the server   *)
(* is, for each instance, a step of RtpInst or nothing.                      *)

HIDE OpsAssumption

-------------------------------------------------------------------------------
(* Entries                                                                  *)

\* An entry of instance i is a stream of i, under the address or the SSRC that
\* the stream itself holds: removeFF erases by these, and so erases them all.
EntriesOf(i) == \A f \in FF :
  /\ f \in insts[i].m_player_list \union insts[i].m_publisher_list => m_inst[f] = i
  /\ \A a \in Addr :
       /\ insts[i].m_map_rtp_addr[a] = f => m_inst[f] = i /\ ff[f].m_rtp = a
       /\ insts[i].m_map_rtcp_addr[a] = f => m_inst[f] = i /\ ff[f].m_rtcp = a
  /\ \A s \in Ssrc \ {0} :
       insts[i].m_map_ssrc[s] = f => m_inst[f] = i /\ ff[f].m_ssrc = s

OwnEntries == \A i \in Inst : EntriesOf(i)

LEMMA EntriesInit == Init => OwnEntries
<1> SUFFICES ASSUME Init, NEW i \in Inst PROVE EntriesOf(i)
  BY DEF OwnEntries
<1>1. insts[i] = CreatInst
  BY DEF Init
<1>2. QED
  BY <1>1, CreatInstResult, OpsAssumption DEF EntriesOf

LEMMA AnnounceEntries ==
  ASSUME IInv, OwnEntries, NEW p \in Path, NEW ms \in MediaList,
         NEW ssrc \in [1 .. Len(ms) -> Ssrc], NEW seq \in [1 .. Len(ms) -> 0 .. SeqMod - 1],
         DealAnnounce(p, ms, ssrc, seq)
  PROVE  OwnEntries'
<1> SUFFICES ASSUME NEW i \in Inst PROVE EntriesOf(i)'
  BY DEF OwnEntries
<1>1. m_inst' = m_inst /\ ff' = ff
  BY DEF DealAnnounce
<1>2. CASE i[1] = p /\ i[2] <= Len(ms)
  <2>1. PICK q \in Ssrc, n \in 0 .. SeqMod - 1 : insts'[i] = SetupInst(CreatInst, q, n)
    BY <1>2, AnnounceIInv
  <2>2. PICK r \in InstStream :
          /\ r = SetupInst(CreatInst, q, n)
          /\ r.m_player_list = {} /\ r.m_publisher_list = {}
          /\ \A a \in Addr : r.m_map_rtp_addr[a] = NoFF /\ r.m_map_rtcp_addr[a] = NoFF
          /\ \A x \in Ssrc \ {q} : r.m_map_ssrc[x] = NoFF
    BY SetupFreshResult
  <2>3. r.m_map_ssrc[q] = Own
    BY <2>2, CreatInstResult DEF SetupInst, InstStream
  <2>4. QED
    BY <2>1, <2>2, <2>3, OpsAssumption DEF EntriesOf
<1>3. CASE ~(i[1] = p /\ i[2] <= Len(ms))
  <2>1. insts'[i] = insts[i]
    BY <1>3, AnnounceIInv
  <2>2. QED
    BY <1>1, <2>1 DEF OwnEntries, EntriesOf
<1>4. QED
  BY <1>2, <1>3

\* The slot of a SETUP has no entry anywhere before.
LEMMA SetupEntries ==
  ASSUME IInv, OwnEntries, NEW s \in Sid, NEW path \in Path,
         NEW rtp \in Addr, NEW rtcp \in Addr, DealSetup(s, path, rtp, rtcp)
  PROVE  OwnEntries'
<1>0. TypeOK
  BY DEF IInv
<1>1. PICK f \in FF :
        /\ f = <<s, m_stream_cnt[s] + 1>>
        /\ m_inst[f] = NoInst /\ \A i \in Inst : ~Has(i, f)
  BY SetupSlot DEF DealSetup
<1>2. PICK i \in Target(path) :
        /\ insts' = [insts EXCEPT ![i] = AddFF(insts[i], f, rtp, rtcp)]
        /\ m_inst' = [m_inst EXCEPT ![f] = i]
        /\ ff' = [ff EXCEPT ![f] = SetupFF(rtp, rtcp)]
  BY <1>1 DEF DealSetup
<1>3. i \in Inst
  BY <1>0, TargetResult
<1>4. /\ m_inst'[f] = i /\ ff'[f].m_rtp = rtp /\ ff'[f].m_rtcp = rtcp
      /\ \A g \in FF \ {f} : m_inst'[g] = m_inst[g] /\ ff'[g] = ff[g]
  BY <1>0, <1>2 DEF TypeOK, SetupFF, FreshFF
<1>5. insts'[i] = AddFF(insts[i], f, rtp, rtcp) /\ insts[i] \in InstStream
  BY <1>0, <1>2, <1>3 DEF TypeOK
<1>6. /\ insts'[i].m_player_list = insts[i].m_player_list
      /\ insts'[i].m_publisher_list = insts[i].m_publisher_list
      /\ \A a \in Addr : insts'[i].m_map_rtp_addr[a] =
           IF a = rtp THEN f ELSE insts[i].m_map_rtp_addr[a]
      /\ \A a \in Addr : insts'[i].m_map_rtcp_addr[a] =
           IF a = rtcp THEN f ELSE insts[i].m_map_rtcp_addr[a]
      /\ insts'[i].m_map_ssrc = insts[i].m_map_ssrc
  BY <1>5, AddFFResult
<1>7. \A j \in Inst, x \in Ssrc \ {0} : insts[j].m_map_ssrc[x] # f
  BY <1>1, Shapes DEF OwnEntries, EntriesOf
<1>8. ASSUME NEW j \in Inst PROVE EntriesOf(j)'
  <2>1. CASE j = i
    <3> SUFFICES ASSUME NEW g \in FF
        PROVE  /\ g \in insts'[i].m_player_list \union insts'[i].m_publisher_list
                    => m_inst'[g] = i
               /\ \A a \in Addr :
                    /\ insts'[i].m_map_rtp_addr[a] = g => m_inst'[g] = i /\ ff'[g].m_rtp = a
                    /\ insts'[i].m_map_rtcp_addr[a] = g => m_inst'[g] = i /\ ff'[g].m_rtcp = a
               /\ \A x \in Ssrc \ {0} :
                    insts'[i].m_map_ssrc[x] = g => m_inst'[g] = i /\ ff'[g].m_ssrc = x
      BY <2>1 DEF EntriesOf
    <3>1. CASE g = f
      BY <1>1, <1>3, <1>4, <1>6, <1>7, <3>1 DEF Has
    <3>2. CASE g # f
      BY <1>3, <1>4, <1>6, <3>2 DEF OwnEntries, EntriesOf
    <3>3. QED
      BY <3>1, <3>2
  <2>2. CASE j # i
    <3>1. insts'[j] = insts[j]
      BY <1>0, <1>2, <2>2 DEF TypeOK
    <3>2. QED
      BY <1>1, <1>4, <1>7, <3>1 DEF OwnEntries, EntriesOf, Has
  <2>3. QED
    BY <2>1, <2>2
<1>9. QED
  BY <1>8 DEF OwnEntries

LEMMA ActivateEntries ==
  ASSUME IInv, OwnEntries, NEW s \in Sid, NEW path \in Path, NEW pub \in BOOLEAN,
         Activate(s, path, pub)
  PROVE  OwnEntries'
<1> SUFFICES ASSUME NEW i \in Inst PROVE EntriesOf(i)'
  BY DEF OwnEntries
<1> DEFINE On == {f \in Matching(s, path) : m_inst[f] = i}
<1>0. insts[i] \in InstStream /\ ff \in [FF -> FFStream]
  BY DEF IInv, TypeOK
<1>1. On \in SUBSET FF /\ \A f \in On : m_inst[f] = i
  BY MatchingResult DEF IInv
<1>2. insts'[i] = ActivateFF(insts[i], On, pub) /\ m_inst' = m_inst
  BY DEF Activate
<1>3. \A f \in FF : /\ ff'[f].m_rtp = ff[f].m_rtp /\ ff'[f].m_rtcp = ff[f].m_rtcp
                    /\ ff'[f].m_ssrc = ff[f].m_ssrc
  <2>1. \A f \in FF : ff'[f] = IF f \in Matching(s, path)
                               THEN [ff[f] EXCEPT !.m_is_publisher = pub] ELSE ff[f]
    BY DEF Activate
  <2>2. QED
    BY <1>0, <2>1 DEF FFStream
<1> HIDE DEF On
<1>4. /\ insts'[i].m_player_list \union insts'[i].m_publisher_list
           \subseteq insts[i].m_player_list \union insts[i].m_publisher_list \union On
      /\ insts'[i].m_map_rtp_addr = insts[i].m_map_rtp_addr
      /\ insts'[i].m_map_rtcp_addr = insts[i].m_map_rtcp_addr
      /\ insts'[i].m_map_ssrc = insts[i].m_map_ssrc
  <2>1. Unhashed(insts[i], On) \subseteq On
    BY DEF Unhashed
  <2>2. QED
    BY <1>0, <1>1, <1>2, <2>1, ActivateFFResult
<1>5. QED
  BY <1>1, <1>2, <1>3, <1>4 DEF OwnEntries, EntriesOf

\* What a stream leaves at its TEARDOWN would be under what it held.
LEMMA TeardownEntries ==
  ASSUME IInv, OwnEntries, NEW s \in Sid, NEW path \in Path, DealTeardown(s, path)
  PROVE  OwnEntries'
<1> SUFFICES ASSUME NEW i \in Inst PROVE EntriesOf(i)'
  BY DEF OwnEntries
<1> DEFINE S == Matching(s, path)
           On == {f \in S : m_inst[f] = i}
<1>0. insts[i] \in InstStream /\ ff \in [FF -> FFStream]
  BY DEF IInv, TypeOK
<1>1. On \in SUBSET FF /\ \A f \in FF : f \in S /\ m_inst[f] = i => f \in On
  BY MatchingResult DEF IInv
<1>2. insts'[i] = RemoveFF(insts[i], ff, On)
  BY DEF DealTeardown
<1>3. \A f \in FF \ S : /\ ff'[f] = ff[f] /\ m_inst'[f] = m_inst[f]
  BY DEF DealTeardown
<1> HIDE DEF On, S
<1>4. /\ insts'[i].m_player_list = insts[i].m_player_list \ On
      /\ insts'[i].m_publisher_list = insts[i].m_publisher_list \ On
      /\ \A a \in Addr : insts'[i].m_map_rtp_addr[a] =
           IF \E f \in On : ff[f].m_rtp = a THEN NoFF ELSE insts[i].m_map_rtp_addr[a]
      /\ \A a \in Addr : insts'[i].m_map_rtcp_addr[a] =
           IF \E f \in On : ff[f].m_rtcp = a THEN NoFF ELSE insts[i].m_map_rtcp_addr[a]
      /\ \A x \in Ssrc : insts'[i].m_map_ssrc[x] =
           IF \E f \in On : ff[f].m_ssrc = x THEN NoFF ELSE insts[i].m_map_ssrc[x]
  BY <1>0, <1>1, <1>2, RemoveFFResult
<1>5. ASSUME NEW f \in FF
      PROVE  /\ f \in insts'[i].m_player_list \union insts'[i].m_publisher_list
                  => m_inst'[f] = i
             /\ \A a \in Addr :
                  /\ insts'[i].m_map_rtp_addr[a] = f => m_inst'[f] = i /\ ff'[f].m_rtp = a
                  /\ insts'[i].m_map_rtcp_addr[a] = f => m_inst'[f] = i /\ ff'[f].m_rtcp = a
             /\ \A x \in Ssrc \ {0} :
                  insts'[i].m_map_ssrc[x] = f => m_inst'[f] = i /\ ff'[f].m_ssrc = x
  <2>0. EntriesOf(i)
    BY DEF OwnEntries
  <2>1. CASE f \in S
    BY <1>1, <1>4, <2>0, <2>1, OpsAssumption DEF EntriesOf
  <2>2. CASE f \notin S
    BY <1>3, <1>4, <2>0, <2>2, OpsAssumption DEF EntriesOf
  <2>3. QED
    BY <2>1, <2>2
<1>6. QED
  BY <1>5 DEF EntriesOf

\* The maps after a datagram of stream f, which may have changed its SSRC to s:
\* the part of both handlers that concerns entries.
SsrcMoved(i, f, s) ==
  /\ m_inst' = m_inst /\ m_inst[f] = i
  /\ \A j \in Inst \ {i} : insts'[j] = insts[j]
  /\ insts'[i].m_player_list = insts[i].m_player_list
  /\ insts'[i].m_publisher_list = insts[i].m_publisher_list
  /\ insts'[i].m_map_rtp_addr = insts[i].m_map_rtp_addr
  /\ insts'[i].m_map_rtcp_addr = insts[i].m_map_rtcp_addr
  /\ \A g \in FF : ff'[g].m_rtp = ff[g].m_rtp /\ ff'[g].m_rtcp = ff[g].m_rtcp
  /\ \A g \in FF \ {f} : ff'[g].m_ssrc = ff[g].m_ssrc
  /\ \/ /\ ff'[f].m_ssrc = ff[f].m_ssrc
        /\ \A x \in Ssrc : insts'[i].m_map_ssrc[x] \in {NoFF, insts[i].m_map_ssrc[x]}
     \/ /\ ff'[f].m_ssrc = s
        /\ \A x \in Ssrc : insts'[i].m_map_ssrc[x] \in
             IF x = s THEN {NoFF, f}
             ELSE IF x = ff[f].m_ssrc /\ x > 0 THEN {NoFF}
             ELSE {NoFF, insts[i].m_map_ssrc[x]}

LEMMA SsrcMovedEntries ==
  ASSUME OwnEntries, NEW i \in Inst, NEW f \in FF, NEW s \in Ssrc, SsrcMoved(i, f, s)
  PROVE  OwnEntries'
<1> SUFFICES ASSUME NEW j \in Inst, NEW g \in FF
    PROVE  /\ g \in insts'[j].m_player_list \union insts'[j].m_publisher_list
                => m_inst'[g] = j
           /\ \A a \in Addr :
                /\ insts'[j].m_map_rtp_addr[a] = g => m_inst'[g] = j /\ ff'[g].m_rtp = a
                /\ insts'[j].m_map_rtcp_addr[a] = g => m_inst'[g] = j /\ ff'[g].m_rtcp = a
           /\ \A x \in Ssrc \ {0} :
                insts'[j].m_map_ssrc[x] = g => m_inst'[g] = j /\ ff'[g].m_ssrc = x
  BY DEF OwnEntries, EntriesOf
<1>0. EntriesOf(j)
  BY DEF OwnEntries
<1>1. /\ g \in insts'[j].m_player_list \union insts'[j].m_publisher_list
           => m_inst'[g] = j
      /\ \A a \in Addr :
           /\ insts'[j].m_map_rtp_addr[a] = g => m_inst'[g] = j /\ ff'[g].m_rtp = a
           /\ insts'[j].m_map_rtcp_addr[a] = g => m_inst'[g] = j /\ ff'[g].m_rtcp = a
  <2>1. CASE j = i
    BY <1>0, <2>1 DEF EntriesOf, SsrcMoved
  <2>2. CASE j # i
    BY <1>0, <2>2 DEF EntriesOf, SsrcMoved
  <2>3. QED
    BY <2>1, <2>2
<1>2. ASSUME NEW x \in Ssrc \ {0}, insts'[j].m_map_ssrc[x] = g
      PROVE  m_inst'[g] = j /\ ff'[g].m_ssrc = x
  <2>0. x > 0 /\ g # NoFF
    BY OpsAssumption
  <2>1. CASE j # i
    <3>1. m_inst[g] = j /\ ff[g].m_ssrc = x
      BY <1>0, <1>2, <2>1 DEF EntriesOf, SsrcMoved
    <3>2. QED
      BY <2>1, <3>1 DEF SsrcMoved
  <2>2. CASE j = i
    <3>1. CASE insts[i].m_map_ssrc[x] = g
      <4>1. m_inst[g] = i /\ ff[g].m_ssrc = x
        BY <1>0, <2>2, <3>1 DEF EntriesOf
      <4>2. QED
        BY <1>2, <2>0, <2>2, <4>1 DEF SsrcMoved
    <3>2. CASE insts[i].m_map_ssrc[x] # g
      BY <1>2, <2>0, <2>2, <3>2 DEF SsrcMoved
    <3>3. QED
      BY <3>1, <3>2
  <2>3. QED
    BY <2>1, <2>2
<1>3. QED
  BY <1>1, <1>2

LEMMA ProcRtpEntries ==
  ASSUME IInv, OwnEntries, NEW i \in Inst, NEW a \in Addr, NEW s \in Ssrc,
         NEW inSeq \in BOOLEAN, ProcRtp(i, a, s, inSeq)
  PROVE  OwnEntries'
<1>0. /\ insts \in [Inst -> InstStream] /\ insts[i] \in InstStream
      /\ ff \in [FF -> FFStream] /\ insts[i].m_seq \in 0 .. SeqMod - 1
  BY DEF IInv, TypeOK, InstStream
<1>1. PICK f \in FF : f = FindByRtp(insts[i], a)
  BY FoundIsHome DEF ProcRtp
<1>2. m_inst[f] = i
  BY <1>1 DEF OwnEntries, EntriesOf, FindByRtp
<1>3. PICK n \in 0 .. SeqMod - 1 : n = IF inSeq THEN NextSeq(insts[i]) ELSE insts[i].m_seq
  BY <1>0, NextSeqInRange DEF NextSeq
<1>4. PICK c \in InstStream :
        /\ c = ClaimSsrc(insts[i], ff, f, s)
        /\ c.m_seq = insts[i].m_seq
        /\ c.m_player_list = insts[i].m_player_list
        /\ c.m_publisher_list = insts[i].m_publisher_list
        /\ c.m_map_rtp_addr = insts[i].m_map_rtp_addr
        /\ c.m_map_rtcp_addr = insts[i].m_map_rtcp_addr
        /\ ff[f].m_ssrc = s => c.m_map_ssrc = insts[i].m_map_ssrc
        /\ ff[f].m_ssrc # s => \A x \in Ssrc : c.m_map_ssrc[x] =
             IF x = s THEN f
             ELSE IF x = ff[f].m_ssrc /\ x > 0 THEN NoFF
             ELSE insts[i].m_map_ssrc[x]
  BY <1>0, ClaimSsrcResult
<1>5. /\ insts' = [insts EXCEPT ![i] = [c EXCEPT !.m_seq = n]]
      /\ ff' = [ff EXCEPT ![f].m_ssrc = s]
      /\ m_inst' = m_inst
  BY <1>1, <1>3, <1>4 DEF ProcRtp
<1>6. /\ insts'[i].m_player_list = c.m_player_list
      /\ insts'[i].m_publisher_list = c.m_publisher_list
      /\ insts'[i].m_map_rtp_addr = c.m_map_rtp_addr
      /\ insts'[i].m_map_rtcp_addr = c.m_map_rtcp_addr
      /\ insts'[i].m_map_ssrc = c.m_map_ssrc
      /\ \A j \in Inst \ {i} : insts'[j] = insts[j]
  <2>1. insts'[i] = [c EXCEPT !.m_seq = n]
    BY <1>0, <1>5
  <2>2. QED
    BY <1>0, <1>5, <2>1, BumpSeqResult
<1>7. /\ \A g \in FF : ff'[g].m_rtp = ff[g].m_rtp /\ ff'[g].m_rtcp = ff[g].m_rtcp
      /\ \A g \in FF \ {f} : ff'[g].m_ssrc = ff[g].m_ssrc
      /\ ff'[f].m_ssrc = s
  BY <1>0, <1>5 DEF FFStream
<1>8. SsrcMoved(i, f, s)
  BY <1>2, <1>4, <1>5, <1>6, <1>7 DEF SsrcMoved
<1>9. QED
  BY <1>8, SsrcMovedEntries

LEMMA ProcRtcpEntries ==
  ASSUME IInv, OwnEntries, NEW i \in Inst, NEW a \in Addr, NEW s \in Ssrc,
         NEW B \in SUBSET Ssrc, ProcRtcp(i, a, s, B)
  PROVE  OwnEntries'
<1>0. /\ insts \in [Inst -> InstStream] /\ insts[i] \in InstStream
      /\ ff \in [FF -> FFStream]
  BY DEF IInv, TypeOK
<1>1. PICK f \in FF : f = FindByRtcp(insts[i], a)
  BY FoundIsHome DEF ProcRtcp
<1>2. m_inst[f] = i
  BY <1>1 DEF OwnEntries, EntriesOf, FindByRtcp
<1>3. PICK valid \in BOOLEAN : valid = ValidSsrc(insts[i], ff, f, s)
  BY DEF ValidSsrc
<1>4. PICK c \in InstStream :
        /\ c = IF valid THEN ClaimSsrc(insts[i], ff, f, s) ELSE insts[i]
        /\ c.m_player_list = insts[i].m_player_list
        /\ c.m_publisher_list = insts[i].m_publisher_list
        /\ c.m_map_rtp_addr = insts[i].m_map_rtp_addr
        /\ c.m_map_rtcp_addr = insts[i].m_map_rtcp_addr
        /\ ~valid \/ ff[f].m_ssrc = s => c.m_map_ssrc = insts[i].m_map_ssrc
        /\ valid /\ ff[f].m_ssrc # s => \A x \in Ssrc : c.m_map_ssrc[x] =
             IF x = s THEN f
             ELSE IF x = ff[f].m_ssrc /\ x > 0 THEN NoFF
             ELSE insts[i].m_map_ssrc[x]
  BY <1>0, ClaimSsrcResult
<1>5. /\ insts' = [insts EXCEPT ![i] = DelSsrc(c, B)]
      /\ ff' = IF valid THEN [ff EXCEPT ![f].m_ssrc = s] ELSE ff
      /\ m_inst' = m_inst
  BY <1>1, <1>3, <1>4 DEF ProcRtcp
<1>6. /\ insts'[i].m_player_list = c.m_player_list
      /\ insts'[i].m_publisher_list = c.m_publisher_list
      /\ insts'[i].m_map_rtp_addr = c.m_map_rtp_addr
      /\ insts'[i].m_map_rtcp_addr = c.m_map_rtcp_addr
      /\ \A x \in Ssrc : insts'[i].m_map_ssrc[x] \in {NoFF, c.m_map_ssrc[x]}
      /\ \A j \in Inst \ {i} : insts'[j] = insts[j]
  <2>1. insts'[i] = DelSsrc(c, B)
    BY <1>0, <1>5
  <2>2. PICK d \in InstStream :
          /\ d = DelSsrc(c, B)
          /\ d.m_player_list = c.m_player_list
          /\ d.m_publisher_list = c.m_publisher_list
          /\ d.m_map_rtp_addr = c.m_map_rtp_addr
          /\ d.m_map_rtcp_addr = c.m_map_rtcp_addr
          /\ d.m_map_ssrc = [x \in Ssrc |-> IF x \in B THEN NoFF ELSE c.m_map_ssrc[x]]
    BY DelSsrcResult
  <2>3. QED
    BY <1>0, <1>5, <2>1, <2>2
<1>7. /\ \A g \in FF : ff'[g].m_rtp = ff[g].m_rtp /\ ff'[g].m_rtcp = ff[g].m_rtcp
      /\ \A g \in FF \ {f} : ff'[g].m_ssrc = ff[g].m_ssrc
      /\ ff'[f].m_ssrc = IF valid THEN s ELSE ff[f].m_ssrc
  BY <1>0, <1>5 DEF FFStream
<1>8. SsrcMoved(i, f, s)
  <2>1. CASE valid /\ ff[f].m_ssrc # s
    BY <1>2, <1>4, <1>5, <1>6, <1>7, <2>1 DEF SsrcMoved
  <2>2. CASE ~valid \/ ff[f].m_ssrc = s
    BY <1>2, <1>4, <1>5, <1>6, <1>7, <2>2 DEF SsrcMoved
  <2>3. QED
    BY <2>1, <2>2
<1>9. QED
  BY <1>8, SsrcMovedEntries

LEMMA EntriesStep == IInv /\ OwnEntries /\ [Next]_vars => OwnEntries'
<1> SUFFICES ASSUME IInv, OwnEntries, [Next]_vars PROVE OwnEntries'
  OBVIOUS
<1>1. ASSUME NEW s \in Sid, NEW path \in Path, RefuseSetup(s, path) PROVE OwnEntries'
  BY <1>1 DEF RefuseSetup, OwnEntries, EntriesOf
<1>2. CASE UNCHANGED vars
  BY <1>2 DEF vars, OwnEntries, EntriesOf
<1>3. QED
  BY <1>1, <1>2, AnnounceEntries, SetupEntries, ActivateEntries, TeardownEntries,
     ProcRtpEntries, ProcRtcpEntries DEF Next, Request, Datagram

\* No instance but its own knows a stream, in a list or in a map, and none does
\* after its TEARDOWN, in spite of removeFF erasing by address and by SSRC.
THEOREM HomeOnly == Spec => []OnHomeOnly
<1>1. OwnEntries => OnHomeOnly
  BY DEF OwnEntries, EntriesOf, OnHomeOnly
<1>2. QED
  BY <1>1, EntriesInit, EntriesStep, Inductive, PTL DEF Spec

-------------------------------------------------------------------------------
(* Once per instance                                                        *)

\* Without a SETUP no stream becomes the second one of its session.
LEMMA OnceQuiet ==
  ASSUME IInv, StreamsReachable', OncePerInstance, via' = via,
         \A f \in FF : m_inst'[f] \in {NoInst, m_inst[f]}
  PROVE  OncePerInstance'
<1>1. \A f \in FF : ff'[f].m_setup => m_inst'[f] = m_inst[f] /\ ff[f].m_setup
  BY DEF IInv, StreamsReachable
<1>2. QED
  BY <1>1 DEF OncePerInstance

\* A SETUP that is not refused is for an instance the session does not have yet,
\* or names a group.
LEMMA SetupOnce ==
  ASSUME IInv, OncePerInstance, NEW s \in Sid, NEW path \in Path,
         NEW rtp \in Addr, NEW rtcp \in Addr, DealSetup(s, path, rtp, rtcp)
  PROVE  OncePerInstance'
<1>0. TypeOK
  BY DEF IInv
<1>1. PICK f \in FF :
        /\ f = <<s, m_stream_cnt[s] + 1>> /\ f[1] = s /\ f[2] = m_stream_cnt[s] + 1
        /\ ~ff[f].m_setup
  BY SetupSlot DEF DealSetup
<1>2. PICK i \in Target(path) :
        /\ m_inst' = [m_inst EXCEPT ![f] = i]
        /\ ff' = [ff EXCEPT ![f] = SetupFF(rtp, rtcp)]
        /\ via' = [via EXCEPT ![f] = path]
        /\ ~ExistFF(s, path)
  BY <1>1 DEF DealSetup
<1>3. i \in Inst
  BY <1>0, TargetResult
<1>4. /\ m_inst'[f] = i /\ via'[f] = path
      /\ \A g \in FF \ {f} : m_inst'[g] = m_inst[g] /\ ff'[g] = ff[g] /\ via'[g] = via[g]
  BY <1>0, <1>2 DEF TypeOK
<1>5. ASSUME NEW g \in FF, g # f, ff[g].m_setup, g[1] = s, m_inst[g] = i
      PROVE  /\ g[2] < f[2]
             /\ path = i[1] /\ i[2] = 1
  <2>1. g \in Streams(s)
    BY <1>5 DEF IInv, StreamsReachable
  <2>2. g[2] \in 1 .. m_stream_cnt[s] /\ m_stream_cnt[s] \in Nat
    BY <1>0, <1>5, <2>1, StreamsIff DEF TypeOK
  <2>3. m_datas[path] # <<>>
    <3> SUFFICES ASSUME m_datas[path] = <<>> PROVE FALSE
      OBVIOUS
    <3>1. InstPath(i) = path
      BY DEF Target
    <3>2. ExistFF(s, path)
      BY <1>5, <2>1, <3>1 DEF ExistFF
    <3>3. QED
      BY <1>2, <3>2
  <2>4. i = <<path, 1>>
    BY <2>3 DEF Target
  <2>5. QED
    BY <1>1, <2>2, <2>4
<1>6. ASSUME NEW g \in FF, NEW h \in FF, ff'[g].m_setup, ff'[h].m_setup,
             g[1] = h[1], g[2] < h[2], m_inst'[g] = m_inst'[h]
      PROVE  via'[h] = m_inst'[h][1] /\ m_inst'[h][2] = 1
  <2>0. g[2] \in Nat /\ h[2] \in Nat /\ f[2] \in Nat
    BY Shapes
  <2>1. CASE h = f
    <3>1. g # f
      BY <1>6, <2>0, <2>1
    <3>2. QED
      BY <1>1, <1>4, <1>5, <1>6, <2>1, <3>1
  <2>2. CASE h # f /\ g = f
    <3>1. h[2] < f[2]
      BY <1>1, <1>4, <1>5, <1>6, <2>2
    <3>2. QED
      BY <1>6, <2>0, <2>2, <3>1
  <2>3. CASE h # f /\ g # f
    BY <1>4, <1>6, <2>3 DEF OncePerInstance
  <2>4. QED
    BY <2>1, <2>2, <2>3
<1>7. QED
  BY <1>6 DEF OncePerInstance

LEMMA OnceStep == IInv /\ IInv' /\ OncePerInstance /\ [Next]_vars => OncePerInstance'
<1> SUFFICES ASSUME IInv, IInv', OncePerInstance, [Next]_vars PROVE OncePerInstance'
  OBVIOUS
<1>1. ASSUME NEW s \in Sid, NEW path \in Path, NEW rtp \in Addr, NEW rtcp \in Addr,
             DealSetup(s, path, rtp, rtcp)
      PROVE  OncePerInstance'
  BY <1>1, SetupOnce
<1>2. ASSUME via' = via, \A f \in FF : m_inst'[f] \in {NoInst, m_inst[f]}
      PROVE  OncePerInstance'
  BY <1>2, OnceQuiet DEF IInv
<1>3. ASSUME NEW s \in Sid, NEW path \in Path, DealTeardown(s, path) PROVE OncePerInstance'
  BY <1>2, <1>3 DEF DealTeardown
<1>4. CASE m_inst' = m_inst /\ via' = via
  BY <1>2, <1>4
<1>5. ASSUME NEW p \in Path, NEW ms \in MediaList,
             NEW ssrc \in [1 .. Len(ms) -> Ssrc],
             NEW seq \in [1 .. Len(ms) -> 0 .. SeqMod - 1],
             DealAnnounce(p, ms, ssrc, seq)
      PROVE  OncePerInstance'
  BY <1>4, <1>5 DEF DealAnnounce
<1>6. ASSUME NEW s \in Sid, NEW path \in Path,
             RefuseSetup(s, path) \/ \E pub \in BOOLEAN : Activate(s, path, pub)
      PROVE  OncePerInstance'
  BY <1>4, <1>6 DEF RefuseSetup, Activate
<1>7. ASSUME Datagram PROVE OncePerInstance'
  BY <1>4, <1>7 DEF Datagram, ProcRtp, ProcRtcp
<1>8. CASE UNCHANGED vars
  BY <1>4, <1>8 DEF vars
<1>9. QED
  BY <1>1, <1>3, <1>5, <1>6, <1>7, <1>8 DEF Next, Request

\* existFF keeps a session from having an instance twice, but for the first one
\* of a group that is set up with the path of the group.
THEOREM Once == Spec => []OncePerInstance
<1>1. Init => OncePerInstance
  BY DEF Init, OncePerInstance, FreshFF
<1>2. QED
  BY <1>1, OnceStep, Inductive, PTL DEF Spec

-------------------------------------------------------------------------------
(* A group stays as it was announced                                        *)

\* What GroupsStay says of instance i
Stays(i) ==
  /\ m_datas'[i[1]] = m_datas[i[1]]
  /\ insts'[i].m_ssrc = insts[i].m_ssrc
  /\ insts'[i].m_seq \in {insts[i].m_seq, NextSeq(insts[i])}
  /\ \A f \in insts[i].m_player_list :
       ff'[f].m_setup => f \in insts'[i].m_player_list

LEMMA GroupStep ==
  ASSUME IInv, [Next]_vars, NEW i \in Inst, Registered(i)
  PROVE  Stays(i)
<1>0. /\ TypeOK /\ insts[i] \in InstStream /\ insts \in [Inst -> InstStream]
      /\ ff \in [FF -> FFStream]
      /\ insts[i].m_seq \in 0 .. SeqMod - 1 /\ insts[i].m_player_list \subseteq FF
  BY DEF IInv, TypeOK, InstStream
<1>1. ASSUME NEW p \in Path, NEW ms \in MediaList,
             NEW ssrc \in [1 .. Len(ms) -> Ssrc],
             NEW seq \in [1 .. Len(ms) -> 0 .. SeqMod - 1],
             DealAnnounce(p, ms, ssrc, seq)
      PROVE  Stays(i)
  <2>1. i[1] # p
    BY <1>1, RegisteredGroup DEF DealAnnounce, Exist
  <2>2. m_datas'[i[1]] = m_datas[i[1]] /\ insts'[i] = insts[i]
    BY <1>0, <1>1, <2>1 DEF DealAnnounce, TypeOK
  <2>3. QED
    BY <2>2 DEF Stays
<1>2. ASSUME NEW s \in Sid, NEW path \in Path, NEW rtp \in Addr, NEW rtcp \in Addr,
             DealSetup(s, path, rtp, rtcp)
      PROVE  Stays(i)
  <2>1. PICK f \in FF, j \in Inst :
          insts' = [insts EXCEPT ![j] = AddFF(insts[j], f, rtp, rtcp)]
    BY <1>0, <1>2, SetupSlot, TargetResult DEF DealSetup
  <2>2. m_datas' = m_datas
    BY <1>2 DEF DealSetup
  <2>3. insts'[i] \in {insts[i], AddFF(insts[i], f, rtp, rtcp)}
    BY <1>0, <2>1
  <2>4. /\ insts'[i].m_ssrc = insts[i].m_ssrc /\ insts'[i].m_seq = insts[i].m_seq
        /\ insts'[i].m_player_list = insts[i].m_player_list
    BY <1>0, <2>3, AddFFResult
  <2>5. QED
    BY <2>2, <2>4 DEF Stays
<1>3. ASSUME NEW s \in Sid, NEW path \in Path, NEW pub \in BOOLEAN, Activate(s, path, pub)
      PROVE  Stays(i)
  <2> DEFINE On == {f \in Matching(s, path) : m_inst[f] = i}
  <2>1. On \in SUBSET FF
    BY MatchingResult DEF IInv
  <2>2. insts'[i] = ActivateFF(insts[i], On, pub) /\ m_datas' = m_datas
    BY <1>3 DEF Activate
  <2> HIDE DEF On
  <2>3. /\ insts'[i].m_ssrc = insts[i].m_ssrc /\ insts'[i].m_seq = insts[i].m_seq
        /\ insts[i].m_player_list \subseteq insts'[i].m_player_list
    BY <1>0, <2>1, <2>2, ActivateFFResult
  <2>4. QED
    BY <2>2, <2>3 DEF Stays
<1>4. ASSUME NEW s \in Sid, NEW path \in Path, DealTeardown(s, path)
      PROVE  Stays(i)
  <2> DEFINE S == Matching(s, path)
             On == {f \in S : m_inst[f] = i}
  <2>1. On \in SUBSET FF
    BY MatchingResult DEF IInv
  <2>2. insts'[i] = RemoveFF(insts[i], ff, On) /\ m_datas' = m_datas
    BY <1>4 DEF DealTeardown
  <2>3. \A f \in On : ~ff'[f].m_setup
    <3>1. \A f \in S : f \in FF => ff'[f] = [ff[f] EXCEPT !.m_setup = FALSE]
      BY <1>4 DEF DealTeardown
    <3>2. QED
      BY <1>0, <2>1, <3>1 DEF FFStream
  <2> HIDE DEF On
  <2>4. /\ insts'[i].m_ssrc = insts[i].m_ssrc /\ insts'[i].m_seq = insts[i].m_seq
        /\ insts'[i].m_player_list = insts[i].m_player_list \ On
    BY <1>0, <2>1, <2>2, RemoveFFResult
  <2>5. QED
    BY <2>2, <2>3, <2>4 DEF Stays
<1>5. ASSUME NEW j \in Inst, NEW a \in Addr, NEW s \in Ssrc, NEW inSeq \in BOOLEAN,
             ProcRtp(j, a, s, inSeq)
      PROVE  Stays(i)
  <2>1. CASE j # i
    <3>1. insts'[i] = insts[i] /\ m_datas' = m_datas
      BY <1>0, <1>5, <2>1 DEF ProcRtp
    <3>2. QED
      BY <3>1 DEF Stays
  <2>2. CASE j = i
    <3>1. PICK f \in FF : f = FindByRtp(insts[i], a)
      BY <1>5, <2>2, FoundIsHome DEF ProcRtp
    <3>2. PICK n \in 0 .. SeqMod - 1 :
            n = IF inSeq THEN NextSeq(insts[i]) ELSE insts[i].m_seq
      BY <1>0, NextSeqInRange DEF NextSeq
    <3>3. PICK c \in InstStream :
            /\ c = ClaimSsrc(insts[i], ff, f, s)
            /\ c.m_ssrc = insts[i].m_ssrc /\ c.m_seq = insts[i].m_seq
            /\ c.m_player_list = insts[i].m_player_list
      BY <1>0, ClaimSsrcResult
    <3>4. insts'[i] = [c EXCEPT !.m_seq = n] /\ m_datas' = m_datas
      BY <1>0, <1>5, <2>2, <3>1, <3>2, <3>3 DEF ProcRtp
    <3>5. /\ insts'[i].m_ssrc = insts[i].m_ssrc /\ insts'[i].m_seq = n
          /\ insts'[i].m_player_list = insts[i].m_player_list
      BY <3>3, <3>4, BumpSeqResult
    <3>6. QED
      BY <3>2, <3>4, <3>5 DEF Stays
  <2>3. QED
    BY <2>1, <2>2
<1>6. ASSUME NEW j \in Inst, NEW a \in Addr, NEW s \in Ssrc, NEW B \in SUBSET Ssrc,
             ProcRtcp(j, a, s, B)
      PROVE  Stays(i)
  <2>1. CASE j # i
    <3>1. insts'[i] = insts[i] /\ m_datas' = m_datas
      BY <1>0, <1>6, <2>1 DEF ProcRtcp
    <3>2. QED
      BY <3>1 DEF Stays
  <2>2. CASE j = i
    <3>1. PICK f \in FF : f = FindByRtcp(insts[i], a)
      BY <1>6, <2>2, FoundIsHome DEF ProcRtcp
    <3>2. PICK valid \in BOOLEAN : valid = ValidSsrc(insts[i], ff, f, s)
      BY DEF ValidSsrc
    <3>3. PICK c \in InstStream :
            /\ c = IF valid THEN ClaimSsrc(insts[i], ff, f, s) ELSE insts[i]
            /\ c.m_ssrc = insts[i].m_ssrc /\ c.m_seq = insts[i].m_seq
            /\ c.m_player_list = insts[i].m_player_list
      BY <1>0, ClaimSsrcResult
    <3>4. insts'[i] = DelSsrc(c, B) /\ m_datas' = m_datas
      BY <1>0, <1>6, <2>2, <3>1, <3>2, <3>3 DEF ProcRtcp
    <3>5. /\ insts'[i].m_ssrc = insts[i].m_ssrc /\ insts'[i].m_seq = insts[i].m_seq
          /\ insts'[i].m_player_list = insts[i].m_player_list
      <4>1. PICK d \in InstStream :
              /\ d = DelSsrc(c, B)
              /\ d.m_ssrc = c.m_ssrc /\ d.m_seq = c.m_seq
              /\ d.m_player_list = c.m_player_list
        BY DelSsrcResult
      <4>2. QED
        BY <3>3, <3>4, <4>1
    <3>6. QED
      BY <3>4, <3>5 DEF Stays
  <2>3. QED
    BY <2>1, <2>2
<1>7. ASSUME NEW s \in Sid, NEW path \in Path, RefuseSetup(s, path) PROVE Stays(i)
  BY <1>7 DEF RefuseSetup, Stays
<1>8. CASE UNCHANGED vars
  BY <1>8 DEF vars, Stays
<1>9. QED
  BY <1>1, <1>2, <1>3, <1>4, <1>5, <1>6, <1>7, <1>8 DEF Next, Request, Datagram

\* A later ANNOUNCE of the path changes neither the group nor its instances, and
\* neither does what sessions do with other instances.
THEOREM Undisturbed == Spec => GroupsStay
<1> DEFINE All == \A i \in Inst : Registered(i) => Stays(i)
<1>1. IInv /\ [Next]_vars => [All]_vars
  BY GroupStep
<1>2. QED
  BY <1>1, Inductive, PTL DEF Spec, GroupsStay, Stays

-------------------------------------------------------------------------------
(* The state as one instance sees it                                        *)

\* A stream is on the instance iff it was set up there and still is set up.
LEMMA OnIff ==
  ASSUME IInv, NEW i \in Inst, NEW f \in FF
  PROVE  m_inst[f] = i <=> home[f] = i /\ ff[f].m_setup
  BY Shapes DEF IInv, AtHome, StreamsReachable

\* A step that touches nothing the instance sees is none of its steps.
Untouched(i) ==
  /\ insts'[i] = insts[i] /\ forgotten'[i] = forgotten[i]
  /\ \A f \in FF : home'[f] = i <=> home[f] = i
  /\ \A f \in FF : home[f] = i => ff'[f] = ff[f] /\ last'[f] = last[f]

LEMMA UntouchedStutters ==
  ASSUME NEW i \in Inst, Untouched(i)
  PROVE  UNCHANGED Instance(i)!vars
<1>1. View(i)' = View(i)
  BY DEF Untouched, View
<1>2. LastOn(i)' = LastOn(i)
  BY DEF Untouched, LastOn
<1>3. QED
  BY <1>1, <1>2 DEF Untouched, Instance!vars

\* A record is its fields.
LEMMA InstStreamIs ==
  ASSUME NEW r \in InstStream
  PROVE  r = [m_setup |-> r.m_setup, m_ssrc |-> r.m_ssrc, m_seq |-> r.m_seq,
              m_player_list |-> r.m_player_list,
              m_publisher_list |-> r.m_publisher_list,
              m_map_rtp_addr |-> r.m_map_rtp_addr,
              m_map_rtcp_addr |-> r.m_map_rtcp_addr,
              m_map_ssrc |-> r.m_map_ssrc]
  BY DEF InstStream

\* Only what the streams themselves hold matters to removeFF.
LEMMA RemoveFFLocal ==
  ASSUME NEW x \in InstStream, NEW S \in SUBSET FF,
         NEW g \in [FF -> FFStream], NEW h \in [FF -> FFStream],
         \A f \in S : g[f] = h[f]
  PROVE  RemoveFF(x, g, S) = RemoveFF(x, h, S)
<1>1. PICK r \in InstStream :
        /\ r = RemoveFF(x, g, S)
        /\ r.m_setup = x.m_setup /\ r.m_ssrc = x.m_ssrc /\ r.m_seq = x.m_seq
        /\ r.m_player_list = x.m_player_list \ S
        /\ r.m_publisher_list = x.m_publisher_list \ S
        /\ \A a \in Addr : r.m_map_rtp_addr[a] =
             IF \E f \in S : g[f].m_rtp = a THEN NoFF ELSE x.m_map_rtp_addr[a]
        /\ \A a \in Addr : r.m_map_rtcp_addr[a] =
             IF \E f \in S : g[f].m_rtcp = a THEN NoFF ELSE x.m_map_rtcp_addr[a]
        /\ \A s \in Ssrc : r.m_map_ssrc[s] =
             IF \E f \in S : g[f].m_ssrc = s THEN NoFF ELSE x.m_map_ssrc[s]
  BY RemoveFFResult
<1>2. PICK q \in InstStream :
        /\ q = RemoveFF(x, h, S)
        /\ q.m_setup = x.m_setup /\ q.m_ssrc = x.m_ssrc /\ q.m_seq = x.m_seq
        /\ q.m_player_list = x.m_player_list \ S
        /\ q.m_publisher_list = x.m_publisher_list \ S
        /\ \A a \in Addr : q.m_map_rtp_addr[a] =
             IF \E f \in S : h[f].m_rtp = a THEN NoFF ELSE x.m_map_rtp_addr[a]
        /\ \A a \in Addr : q.m_map_rtcp_addr[a] =
             IF \E f \in S : h[f].m_rtcp = a THEN NoFF ELSE x.m_map_rtcp_addr[a]
        /\ \A s \in Ssrc : q.m_map_ssrc[s] =
             IF \E f \in S : h[f].m_ssrc = s THEN NoFF ELSE x.m_map_ssrc[s]
  BY RemoveFFResult
<1>3. /\ \A a \in Addr : /\ r.m_map_rtp_addr[a] = q.m_map_rtp_addr[a]
                         /\ r.m_map_rtcp_addr[a] = q.m_map_rtcp_addr[a]
      /\ \A s \in Ssrc : r.m_map_ssrc[s] = q.m_map_ssrc[s]
  BY <1>1, <1>2
<1>4. /\ r.m_map_rtp_addr = q.m_map_rtp_addr
      /\ r.m_map_rtcp_addr = q.m_map_rtcp_addr
      /\ r.m_map_ssrc = q.m_map_ssrc
  BY <1>3 DEF InstStream
<1>5. r = q
  <2>1. /\ r.m_setup = q.m_setup /\ r.m_ssrc = q.m_ssrc /\ r.m_seq = q.m_seq
        /\ r.m_player_list = q.m_player_list
        /\ r.m_publisher_list = q.m_publisher_list
    BY <1>1, <1>2
  <2>2. QED
    BY <1>4, <2>1, InstStreamIs
<1>6. QED
  BY <1>1, <1>2, <1>5

LEMMA InitRefines ==
  ASSUME Init, NEW i \in Inst
  PROVE  Instance(i)!Init
<1>1. View(i) = [f \in FF |-> FreshFF]
  BY DEF Init, View
<1>2. LastOn(i) = [f \in FF |-> NoSeq]
  BY DEF Init, LastOn
<1>3. QED
  BY <1>1, <1>2 DEF Init, Instance!Init, Instance!CreatInst, CreatInst, Instance!FreshFF, FreshFF

-------------------------------------------------------------------------------
(* One lemma for each action                                                *)

LEMMA AnnounceRefines ==
  ASSUME IInv, NEW p \in Path, NEW ms \in MediaList,
         NEW ssrc \in [1 .. Len(ms) -> Ssrc], NEW seq \in [1 .. Len(ms) -> 0 .. SeqMod - 1],
         DealAnnounce(p, ms, ssrc, seq), NEW i \in Inst
  PROVE  [Instance(i)!Next]_(Instance(i)!vars)
<1>1. UNCHANGED <<ff, home, last, forgotten>>
  BY DEF DealAnnounce
<1>2. UNCHANGED <<View(i), LastOn(i), forgotten[i]>>
  BY <1>1 DEF View, LastOn
<1>3. CASE i[1] = p /\ i[2] <= Len(ms)
  <2>1. PICK x \in Ssrc \ {0}, n \in 0 .. SeqMod - 1 :
          insts[i] = CreatInst /\ insts'[i] = SetupInst(CreatInst, x, n)
    BY <1>3, AnnounceIInv
  <2>2. ~insts[i].m_setup /\ ~ExistAddr(insts[i], x)
    BY <2>1, CreatInstResult DEF ExistAddr
  <2>3. Instance(i)!Announce(x, n)
    BY <1>2, <2>1, <2>2 DEF Instance!Announce, Instance!ExistAddr, ExistAddr,
                            Instance!SetupInst, SetupInst
  <2>4. QED
    BY <2>3 DEF Instance!Next
<1>4. CASE ~(i[1] = p /\ i[2] <= Len(ms))
  <2>1. insts'[i] = insts[i]
    BY <1>4, AnnounceIInv
  <2>2. QED
    BY <1>2, <2>1 DEF Instance!vars
<1>5. QED
  BY <1>3, <1>4

LEMMA RefuseRefines ==
  ASSUME IInv, NEW s \in Sid, NEW path \in Path, RefuseSetup(s, path), NEW i \in Inst
  PROVE  [Instance(i)!Next]_(Instance(i)!vars)
<1>1. Untouched(i)
  BY DEF RefuseSetup, Untouched
<1>2. QED
  BY <1>1, UntouchedStutters

LEMMA SetupRefines ==
  ASSUME IInv, NEW s \in Sid, NEW path \in Path, NEW rtp \in Addr, NEW rtcp \in Addr,
         DealSetup(s, path, rtp, rtcp), NEW i \in Inst
  PROVE  [Instance(i)!Next]_(Instance(i)!vars)
<1>0. TypeOK
  BY DEF IInv
<1>1. PICK f \in FF :
        f = <<s, m_stream_cnt[s] + 1>> /\ home[f] = NoInst /\ last[f] = NoSeq
  BY SetupSlot DEF DealSetup
<1>2. PICK t \in Target(path) :
        /\ insts' = [insts EXCEPT ![t] = AddFF(insts[t], f, rtp, rtcp)]
        /\ home' = [home EXCEPT ![f] = t]
        /\ ff' = [ff EXCEPT ![f] = SetupFF(rtp, rtcp)]
        /\ UNCHANGED <<last, forgotten>>
  BY <1>1 DEF DealSetup
<1>3. t \in Inst /\ Registered(t) /\ t # NoInst /\ i # NoInst
  BY <1>0, TargetResult, Shapes
<1>4. CASE i # t
  <2>1. Untouched(i)
    BY <1>0, <1>1, <1>2, <1>3, <1>4 DEF Untouched, TypeOK
  <2>2. QED
    BY <2>1, UntouchedStutters
<1>5. CASE i = t
  <2>1. ~View(i)[f].used
    BY <1>1, <1>3 DEF View, FreshFF
  <2>2. insts[i].m_setup
    BY <1>3, <1>5 DEF IInv, GroupsSetUp
  <2>3. View(i)' = [View(i) EXCEPT ![f] = SetupFF(rtp, rtcp)]
    <3>1. \A g \in FF : View(i)'[g] = IF g = f THEN SetupFF(rtp, rtcp) ELSE View(i)[g]
      BY <1>0, <1>2, <1>5 DEF View, TypeOK
    <3>2. QED
      BY <3>1 DEF View
  <2>4. LastOn(i)' = LastOn(i)
    BY <1>0, <1>1, <1>2, <1>3, <1>5 DEF LastOn, TypeOK
  <2>5. insts'[i] = AddFF(insts[i], f, rtp, rtcp)
    BY <1>0, <1>2, <1>3, <1>5 DEF TypeOK
  <2>6. Instance(i)!Setup(f, rtp, rtcp)
    BY <1>2, <2>1, <2>2, <2>3, <2>4, <2>5
       DEF Instance!Setup, Instance!AddFF, AddFF, Instance!SetupFF, SetupFF,
           Instance!FreshFF, FreshFF
  <2>7. QED
    BY <2>6 DEF Instance!Next
<1>6. QED
  BY <1>4, <1>5

LEMMA ActivateRefines ==
  ASSUME IInv, NEW s \in Sid, NEW path \in Path, NEW pub \in BOOLEAN,
         Activate(s, path, pub), NEW i \in Inst
  PROVE  [Instance(i)!Next]_(Instance(i)!vars)
<1>0. TypeOK
  BY DEF IInv
<1>1. PICK S \in SUBSET FF :
        /\ S = Matching(s, path)
        /\ \A f \in S : ff[f].m_setup /\ home[f] = m_inst[f] /\ m_inst[f] \in Inst
  BY MatchingResult DEF IInv
<1>2. PICK On \in SUBSET FF : On = {f \in S : m_inst[f] = i}
  OBVIOUS
<1>3. /\ ff' = [f \in FF |-> IF f \in S THEN [ff[f] EXCEPT !.m_is_publisher = pub] ELSE ff[f]]
      /\ insts'[i] = ActivateFF(insts[i], On, pub)
      /\ UNCHANGED <<home, last, forgotten>>
  BY <1>1, <1>2 DEF Activate
<1>4. \A f \in FF : f \in On <=> f \in S /\ home[f] = i
  BY <1>1, <1>2
<1>5. CASE On = {}
  <2>1. insts'[i] = insts[i]
    BY <1>0, <1>3, <1>5, ActivateNone DEF TypeOK
  <2>2. Untouched(i)
    BY <1>3, <1>4, <1>5, <2>1 DEF Untouched
  <2>3. QED
    BY <2>2, UntouchedStutters
<1>6. CASE On # {}
  <2>1. \A f \in On : View(i)[f].m_setup
    BY <1>1, <1>4 DEF View
  <2>2. View(i)' = [f \in FF |-> IF f \in On
                                 THEN [View(i)[f] EXCEPT !.m_is_publisher = pub]
                                 ELSE View(i)[f]]
    BY <1>3, <1>4 DEF View
  <2>3. LastOn(i)' = LastOn(i)
    BY <1>3 DEF LastOn
  <2>4. Instance(i)!Activate(On, pub)
    BY <1>3, <1>6, <2>1, <2>2, <2>3
       DEF Instance!Activate, Instance!Live, Instance!ActivateFF, ActivateFF,
           Instance!Unhashed, Unhashed
  <2>5. QED
    BY <2>4 DEF Instance!Next
<1>7. QED
  BY <1>5, <1>6

LEMMA TeardownRefines ==
  ASSUME IInv, NEW s \in Sid, NEW path \in Path, DealTeardown(s, path), NEW i \in Inst
  PROVE  [Instance(i)!Next]_(Instance(i)!vars)
<1>0. TypeOK
  BY DEF IInv
<1>1. PICK S \in SUBSET FF :
        /\ S = Matching(s, path)
        /\ \A f \in S : ff[f].m_setup /\ home[f] = m_inst[f] /\ m_inst[f] \in Inst
  BY MatchingResult DEF IInv
<1>2. PICK On \in SUBSET FF : On = {f \in S : m_inst[f] = i}
  OBVIOUS
<1>3. /\ ff' = [f \in FF |-> IF f \in S THEN [ff[f] EXCEPT !.m_setup = FALSE] ELSE ff[f]]
      /\ insts'[i] = RemoveFF(insts[i], ff, On)
      /\ UNCHANGED <<home, last, forgotten>>
  BY <1>1, <1>2 DEF DealTeardown
<1>4. \A f \in FF : f \in On <=> f \in S /\ home[f] = i
  BY <1>1, <1>2
<1>5. insts[i] \in InstStream /\ ff \in [FF -> FFStream]
  BY <1>0 DEF TypeOK
<1>6. CASE On = {}
  <2>1. insts'[i] = insts[i]
    BY <1>3, <1>5, <1>6, RemoveNone
  <2>2. Untouched(i)
    BY <1>3, <1>4, <1>6, <2>1 DEF Untouched
  <2>3. QED
    BY <2>2, UntouchedStutters
<1>7. CASE On # {}
  <2>1. \A f \in On : View(i)[f].m_setup /\ View(i)[f] = ff[f]
    BY <1>1, <1>4 DEF View
  <2>2. View(i) \in [FF -> FFStream]
    BY <1>5, FreshFFResult DEF View
  <2>3. insts'[i] = RemoveFF(insts[i], View(i), On)
    BY <1>3, <1>5, <2>1, <2>2, RemoveFFLocal
  <2>4. View(i)' = [f \in FF |-> IF f \in On THEN [View(i)[f] EXCEPT !.m_setup = FALSE]
                                 ELSE View(i)[f]]
    BY <1>3, <1>4 DEF View
  <2>5. LastOn(i)' = LastOn(i)
    BY <1>3 DEF LastOn
  <2>6. Instance(i)!Teardown(On)
    BY <1>3, <1>7, <2>1, <2>3, <2>4, <2>5
       DEF Instance!Teardown, Instance!Live, Instance!RemoveFF, RemoveFF
  <2>7. QED
    BY <2>6 DEF Instance!Next
<1>8. QED
  BY <1>6, <1>7

LEMMA ProcRtpRefines ==
  ASSUME IInv, NEW j \in Inst, NEW a \in Addr, NEW s \in Ssrc, NEW inSeq \in BOOLEAN,
         ProcRtp(j, a, s, inSeq), NEW i \in Inst
  PROVE  [Instance(i)!Next]_(Instance(i)!vars)
<1>0. TypeOK /\ ff \in [FF -> FFStream]
  BY DEF IInv, TypeOK
<1>1. PICK f \in FF : f = FindByRtp(insts[j], a) /\ home[f] = j
  BY FoundIsHome DEF ProcRtp
<1>2. /\ ff[f].m_is_publisher /\ ValidSsrc(insts[j], ff, f, s)
      /\ ff' = [ff EXCEPT ![f].m_ssrc = s]
      /\ insts' = [insts EXCEPT ![j] = [ClaimSsrc(insts[j], ff, f, s) EXCEPT
                                          !.m_seq = IF inSeq THEN NextSeq(insts[j]) ELSE @]]
      /\ last' = [g \in FF |-> IF inSeq /\ g \in insts[j].m_player_list
                               THEN NextSeq(insts[j]) ELSE last[g]]
      /\ UNCHANGED <<home, forgotten>>
  BY <1>1 DEF ProcRtp
<1>3. CASE i # j
  <2>1. insts'[i] = insts[i]
    BY <1>0, <1>2, <1>3 DEF TypeOK
  <2>2. \A g \in FF : home[g] = i => ff'[g] = ff[g]
    BY <1>0, <1>1, <1>2, <1>3
  <2>3. \A g \in FF : home[g] = i => last'[g] = last[g]
    BY <1>2, <1>3, PlayerIsOld
  <2>4. Untouched(i)
    BY <1>2, <2>1, <2>2, <2>3 DEF Untouched
  <2>5. QED
    BY <2>4, UntouchedStutters
<1>4. CASE i = j
  <2>1. View(i)[f] = ff[f]
    BY <1>1, <1>4 DEF View
  <2>2. ValidSsrc(insts[i], View(i), f, s)
    BY <1>2, <1>4, <2>1 DEF ValidSsrc
  <2>3. ClaimSsrc(insts[i], View(i), f, s) = ClaimSsrc(insts[i], ff, f, s)
    BY <2>1 DEF ClaimSsrc
  <2>4. View(i)' = [View(i) EXCEPT ![f].m_ssrc = s]
    <3>1. \A g \in FF : View(i)'[g] = IF g = f THEN [View(i)[f] EXCEPT !.m_ssrc = s]
                                      ELSE View(i)[g]
      BY <1>0, <1>1, <1>2, <1>4 DEF View
    <3>2. QED
      BY <3>1 DEF View
  <2>5. LastOn(i)' = [g \in FF |-> IF inSeq /\ g \in insts[i].m_player_list
                                   THEN NextSeq(insts[i]) ELSE LastOn(i)[g]]
    <3>1. \A g \in FF : g \in insts[i].m_player_list => home[g] = i
      BY PlayerIsOld
    <3>2. QED
      BY <1>2, <1>4, <3>1 DEF LastOn
  <2>6. insts'[i] = [ClaimSsrc(insts[i], View(i), f, s) EXCEPT
                       !.m_seq = IF inSeq THEN NextSeq(insts[i]) ELSE @]
    BY <1>0, <1>2, <1>4, <2>3 DEF TypeOK
  <2>7. f = FindByRtp(insts[i], a) /\ f # NoFF /\ View(i)[f].m_is_publisher
    <3>1. f # NoFF
      BY OpsAssumption
    <3>2. View(i)[f].m_is_publisher
      BY <1>2, <2>1
    <3>3. QED
      BY <1>1, <1>4, <3>1, <3>2
  <2>8. Instance(i)!ProcRtp(a, s, inSeq)
    BY <1>2, <2>2, <2>4, <2>5, <2>6, <2>7
       DEF Instance!ProcRtp, Instance!FindByRtp, FindByRtp, Instance!NextSeq, NextSeq,
           Instance!ValidSsrc, ValidSsrc, Instance!ExistAddr, ExistAddr,
           Instance!ClaimSsrc, ClaimSsrc
  <2>9. QED
    BY <2>8 DEF Instance!Next
<1>5. QED
  BY <1>3, <1>4

LEMMA ProcRtcpRefines ==
  ASSUME IInv, IInv', NEW j \in Inst, NEW a \in Addr, NEW s \in Ssrc, NEW B \in SUBSET Ssrc,
         ProcRtcp(j, a, s, B), NEW i \in Inst
  PROVE  [Instance(i)!Next]_(Instance(i)!vars)
<1>0. TypeOK /\ ff \in [FF -> FFStream]
  BY DEF IInv, TypeOK
<1>1. PICK f \in FF : f = FindByRtcp(insts[j], a) /\ home[f] = j
  BY FoundIsHome DEF ProcRtcp
<1>2. PICK valid \in BOOLEAN : valid = ValidSsrc(insts[j], ff, f, s)
  BY DEF ValidSsrc
<1>3. /\ ff' = IF valid THEN [ff EXCEPT ![f].m_ssrc = s] ELSE ff
      /\ insts' = [insts EXCEPT ![j] =
           DelSsrc(IF valid THEN ClaimSsrc(insts[j], ff, f, s) ELSE insts[j], B)]
      /\ forgotten' = [forgotten EXCEPT ![j] = @ \union {x \in B : InUse(j, x)'}]
      /\ UNCHANGED <<home, last>>
  BY <1>1, <1>2 DEF ProcRtcp
<1>4. CASE i # j
  <2>1. insts'[i] = insts[i] /\ forgotten'[i] = forgotten[i]
    BY <1>0, <1>3, <1>4 DEF TypeOK
  <2>2. \A g \in FF : home[g] = i => ff'[g] = ff[g]
    BY <1>0, <1>1, <1>3, <1>4
  <2>3. Untouched(i)
    BY <1>3, <2>1, <2>2 DEF Untouched
  <2>4. QED
    BY <2>3, UntouchedStutters
<1>5. CASE i = j
  <2>1. View(i)[f] = ff[f]
    BY <1>1, <1>5 DEF View
  <2>2. valid = ValidSsrc(insts[i], View(i), f, s)
    BY <1>2, <1>5, <2>1 DEF ValidSsrc
  <2>3. ClaimSsrc(insts[i], View(i), f, s) = ClaimSsrc(insts[i], ff, f, s)
    BY <2>1 DEF ClaimSsrc
  <2>4. View(i)' = IF valid THEN [View(i) EXCEPT ![f].m_ssrc = s] ELSE View(i)
    <3>1. \A g \in FF : View(i)'[g] = IF valid /\ g = f THEN [View(i)[f] EXCEPT !.m_ssrc = s]
                                      ELSE View(i)[g]
      BY <1>0, <1>1, <1>3, <1>5 DEF View
    <3>2. QED
      BY <3>1 DEF View
  <2>5. LastOn(i)' = LastOn(i)
    BY <1>3 DEF LastOn
  <2>6. insts'[i] =
          DelSsrc(IF valid THEN ClaimSsrc(insts[i], View(i), f, s) ELSE insts[i], B)
    BY <1>0, <1>3, <1>5, <2>3 DEF TypeOK
  <2>7. \A x \in Ssrc : InUse(i, x)' <=> Instance(i)!InUse(x)'
    <3>1. \A g \in FF : m_inst'[g] = i <=> home'[g] = i /\ ff'[g].m_setup
      BY Shapes DEF IInv, AtHome, StreamsReachable
    <3>2. QED
      BY <3>1 DEF InUse, Instance!InUse, Instance!Live, View, FreshFF
  <2>8. forgotten'[i] = forgotten[i] \union {x \in B : Instance(i)!InUse(x)'}
    BY <1>0, <1>3, <1>5, <2>7 DEF TypeOK
  <2>9. f = FindByRtcp(insts[i], a) /\ f # NoFF
    BY <1>1, <1>5, OpsAssumption
  <2>10. Instance(i)!ProcRtcp(a, s, B)
    <3>0. Instance(i)!ClaimSsrc(insts[i], View(i), f, s) = ClaimSsrc(insts[i], View(i), f, s)
      BY DEF Instance!ClaimSsrc, ClaimSsrc
    <3>1. CASE valid
      BY <2>2, <2>4, <2>5, <2>6, <2>8, <2>9, <3>0, <3>1
         DEF Instance!ProcRtcp, Instance!FindByRtcp, FindByRtcp,
             Instance!ValidSsrc, ValidSsrc, Instance!ExistAddr, ExistAddr,
             Instance!DelSsrc, DelSsrc
    <3>2. CASE ~valid
      BY <2>2, <2>4, <2>5, <2>6, <2>8, <2>9, <3>2
         DEF Instance!ProcRtcp, Instance!FindByRtcp, FindByRtcp,
             Instance!ValidSsrc, ValidSsrc, Instance!ExistAddr, ExistAddr,
             Instance!DelSsrc, DelSsrc
    <3>3. QED
      BY <3>1, <3>2
  <2>11. QED
    BY <2>10 DEF Instance!Next
<1>6. QED
  BY <1>4, <1>5

-------------------------------------------------------------------------------
\* A step of the server is, for each instance, a step of RtpInst or none.
LEMMA StepRefines ==
  ASSUME IInv, IInv', [Next]_vars, NEW i \in Inst
  PROVE  [Instance(i)!Next]_(Instance(i)!vars)
<1>1. ASSUME NEW p \in Path, NEW ms \in MediaList,
             NEW ssrc \in [1 .. Len(ms) -> Ssrc],
             NEW seq \in [1 .. Len(ms) -> 0 .. SeqMod - 1],
             DealAnnounce(p, ms, ssrc, seq)
      PROVE  [Instance(i)!Next]_(Instance(i)!vars)
  BY <1>1, AnnounceRefines
<1>2. ASSUME NEW s \in Sid, NEW path \in Path, RefuseSetup(s, path)
      PROVE  [Instance(i)!Next]_(Instance(i)!vars)
  BY <1>2, RefuseRefines
<1>3. ASSUME NEW s \in Sid, NEW path \in Path, NEW rtp \in Addr, NEW rtcp \in Addr,
             DealSetup(s, path, rtp, rtcp)
      PROVE  [Instance(i)!Next]_(Instance(i)!vars)
  BY <1>3, SetupRefines
<1>4. ASSUME NEW s \in Sid, NEW path \in Path, NEW pub \in BOOLEAN, Activate(s, path, pub)
      PROVE  [Instance(i)!Next]_(Instance(i)!vars)
  BY <1>4, ActivateRefines
<1>5. ASSUME NEW s \in Sid, NEW path \in Path, DealTeardown(s, path)
      PROVE  [Instance(i)!Next]_(Instance(i)!vars)
  BY <1>5, TeardownRefines
<1>6. ASSUME NEW j \in Inst, NEW a \in Addr, NEW s \in Ssrc, NEW inSeq \in BOOLEAN,
             ProcRtp(j, a, s, inSeq)
      PROVE  [Instance(i)!Next]_(Instance(i)!vars)
  BY <1>6, ProcRtpRefines
<1>7. ASSUME NEW j \in Inst, NEW a \in Addr, NEW s \in Ssrc, NEW B \in SUBSET Ssrc,
             ProcRtcp(j, a, s, B)
      PROVE  [Instance(i)!Next]_(Instance(i)!vars)
  BY <1>7, ProcRtcpRefines
<1>8. CASE UNCHANGED vars
  <2>1. Untouched(i)
    BY <1>8 DEF vars, Untouched
  <2>2. QED
    BY <2>1, UntouchedStutters
<1>9. QED
  BY <1>1, <1>2, <1>3, <1>4, <1>5, <1>6, <1>7, <1>8 DEF Next, Request, Datagram

\* Whatever the sessions do with other instances, each instance of the server
\* behaves as RtpInst says: all that is shown of RtpInst holds of each of them.
THEOREM Refines ==
  ASSUME NEW i \in Inst
  PROVE  Spec => Instance(i)!Spec
<1>1. Init => Instance(i)!Init
  BY InitRefines
<1>2. IInv /\ IInv' /\ [Next]_vars => [Instance(i)!Next]_(Instance(i)!vars)
  BY StepRefines
<1>3. QED
  BY <1>1, <1>2, Inductive, PTL DEF Spec, Instance!Spec

\* The same for all instances at once, as the runs check it.
THEOREM AllRefine == Spec => InstancesImplemented
<1> DEFINE Steps == \A i \in Inst : UNCHANGED Instance(i)!vars \/ Instance(i)!Next
<1>1. Init => \A i \in Inst : Instance(i)!Init
  BY InitRefines
<1>2. IInv /\ IInv' /\ [Next]_vars => [Steps]_vars
  BY StepRefines
<1>3. QED
  BY <1>1, <1>2, Inductive, PTL DEF Spec, InstancesImplemented
===============================================================================
