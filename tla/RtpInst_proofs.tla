---------------------------- MODULE RtpInst_proofs ----------------------------
(***************************************************************************)
(* IInv is an inductive invariant of RtpInst for any number of streams,    *)
(* addresses and SSRCs, and the properties of RtpInst follow from it.      *)
(***************************************************************************)
EXTENDS RtpInst, TLAPS

USE OpsAssumption, InstAssumption

-------------------------------------------------------------------------------
(* What the operations of RtpInstOps yield: an InstStream, field by field   *)

\* addFF changes the two address maps, at the addresses of the stream.
LEMMA AddFFResult ==
  ASSUME NEW i \in InstStream, NEW f \in FF, NEW rtp \in Addr, NEW rtcp \in Addr
  PROVE  LET r == AddFF(i, f, rtp, rtcp)
         IN /\ r \in InstStream
            /\ r.m_setup = i.m_setup /\ r.m_ssrc = i.m_ssrc
            /\ r.m_seq = i.m_seq
            /\ r.m_player_list = i.m_player_list
            /\ r.m_publisher_list = i.m_publisher_list
            /\ \A a \in Addr : r.m_map_rtp_addr[a] =
                 IF a = rtp THEN f ELSE i.m_map_rtp_addr[a]
            /\ \A a \in Addr : r.m_map_rtcp_addr[a] =
                 IF a = rtcp THEN f ELSE i.m_map_rtcp_addr[a]
            /\ r.m_map_ssrc = i.m_map_ssrc
<1>1. AddFF(i, f, rtp, rtcp) \in InstStream
  BY DEF AddFF, InstStream
<1>2. QED
  BY <1>1 DEF AddFF, InstStream

\* activateFF links the streams of S that are in no list, and nothing else.
LEMMA ActivateFFResult ==
  ASSUME NEW i \in InstStream, NEW S \in SUBSET FF, NEW pub \in BOOLEAN
  PROVE  LET r == ActivateFF(i, S, pub)
             N == Unhashed(i, S)
         IN /\ r \in InstStream
            /\ r.m_setup = i.m_setup /\ r.m_ssrc = i.m_ssrc
            /\ r.m_seq = i.m_seq
            /\ r.m_player_list = i.m_player_list \union (IF pub THEN {} ELSE N)
            /\ r.m_publisher_list = i.m_publisher_list \union (IF pub THEN N ELSE {})
            /\ r.m_map_rtp_addr = i.m_map_rtp_addr
            /\ r.m_map_rtcp_addr = i.m_map_rtcp_addr
            /\ r.m_map_ssrc = i.m_map_ssrc
<1>1. ActivateFF(i, S, pub) \in InstStream
  BY DEF ActivateFF, Unhashed, InstStream
<1>2. QED
  BY <1>1 DEF ActivateFF, Unhashed, InstStream

\* removeFF erases by list node, by address and by SSRC.
LEMMA RemoveFFResult ==
  ASSUME NEW i \in InstStream, NEW g \in [FF -> FFStream], NEW S \in SUBSET FF
  PROVE  LET r == RemoveFF(i, g, S)
         IN /\ r \in InstStream
            /\ r.m_setup = i.m_setup /\ r.m_ssrc = i.m_ssrc
            /\ r.m_seq = i.m_seq
            /\ r.m_player_list = i.m_player_list \ S
            /\ r.m_publisher_list = i.m_publisher_list \ S
            /\ \A a \in Addr : r.m_map_rtp_addr[a] =
                 IF \E f \in S : g[f].m_rtp = a THEN NoFF ELSE i.m_map_rtp_addr[a]
            /\ \A a \in Addr : r.m_map_rtcp_addr[a] =
                 IF \E f \in S : g[f].m_rtcp = a THEN NoFF ELSE i.m_map_rtcp_addr[a]
            /\ \A s \in Ssrc : r.m_map_ssrc[s] =
                 IF \E f \in S : g[f].m_ssrc = s THEN NoFF ELSE i.m_map_ssrc[s]
<1>1. RemoveFF(i, g, S) \in InstStream
  BY DEF RemoveFF, InstStream
<1>2. QED
  BY <1>1 DEF RemoveFF, InstStream

\* A claim of s by f changes the SSRC map only: f gets s and gives up its own.
LEMMA ClaimSsrcResult ==
  ASSUME NEW i \in InstStream, NEW g \in [FF -> FFStream], NEW f \in FF, NEW s \in Ssrc
  PROVE  LET r == ClaimSsrc(i, g, f, s)
         IN /\ r \in InstStream
            /\ r.m_setup = i.m_setup /\ r.m_ssrc = i.m_ssrc
            /\ r.m_seq = i.m_seq
            /\ r.m_player_list = i.m_player_list
            /\ r.m_publisher_list = i.m_publisher_list
            /\ r.m_map_rtp_addr = i.m_map_rtp_addr
            /\ r.m_map_rtcp_addr = i.m_map_rtcp_addr
            /\ g[f].m_ssrc = s => r.m_map_ssrc = i.m_map_ssrc
            /\ g[f].m_ssrc # s => \A x \in Ssrc : r.m_map_ssrc[x] =
                 IF x = s THEN f
                 ELSE IF x = g[f].m_ssrc /\ x > 0 THEN NoFF
                 ELSE i.m_map_ssrc[x]
<1>1. ClaimSsrc(i, g, f, s) \in InstStream
  BY DEF ClaimSsrc, InstStream
<1>2. QED
  BY <1>1 DEF ClaimSsrc, InstStream

\* Deleting SSRCs changes the SSRC map only.
LEMMA DelSsrcResult ==
  ASSUME NEW i \in InstStream, NEW B \in SUBSET Ssrc
  PROVE  LET r == DelSsrc(i, B)
         IN /\ r \in InstStream
            /\ r.m_setup = i.m_setup /\ r.m_ssrc = i.m_ssrc /\ r.m_seq = i.m_seq
            /\ r.m_player_list = i.m_player_list
            /\ r.m_publisher_list = i.m_publisher_list
            /\ r.m_map_rtp_addr = i.m_map_rtp_addr
            /\ r.m_map_rtcp_addr = i.m_map_rtcp_addr
            /\ r.m_map_ssrc = [s \in Ssrc |-> IF s \in B THEN NoFF ELSE i.m_map_ssrc[s]]
<1>1. DelSsrc(i, B) \in InstStream
  BY DEF DelSsrc, InstStream
<1>2. QED
  BY <1>1 DEF DelSsrc, InstStream

\* The next sequence number is a sequence number.
LEMMA NextSeqInRange ==
  ASSUME NEW n \in 0 .. SeqMod - 1
  PROVE  (n + 1) % SeqMod \in 0 .. SeqMod - 1
  OBVIOUS

\* Sending one packet changes the sequence number only.
LEMMA BumpSeqResult ==
  ASSUME NEW i \in InstStream, NEW n \in 0 .. SeqMod - 1
  PROVE  LET r == [i EXCEPT !.m_seq = n]
         IN /\ r \in InstStream
            /\ r.m_setup = i.m_setup /\ r.m_ssrc = i.m_ssrc /\ r.m_seq = n
            /\ r.m_player_list = i.m_player_list
            /\ r.m_publisher_list = i.m_publisher_list
            /\ r.m_map_rtp_addr = i.m_map_rtp_addr
            /\ r.m_map_rtcp_addr = i.m_map_rtcp_addr
            /\ r.m_map_ssrc = i.m_map_ssrc
  BY DEF InstStream

-------------------------------------------------------------------------------
(* What each handler does, field by field, as a relation of two states.     *)

AnnouncePost(s, seq) ==
  /\ TypeOK'
  /\ ~inst.m_setup /\ s # 0 /\ inst.m_map_ssrc[s] = NoFF
  /\ inst'.m_setup /\ inst'.m_ssrc = s /\ inst'.m_seq = seq
  /\ inst'.m_player_list = inst.m_player_list
  /\ inst'.m_publisher_list = inst.m_publisher_list
  /\ inst'.m_map_rtp_addr = inst.m_map_rtp_addr
  /\ inst'.m_map_rtcp_addr = inst.m_map_rtcp_addr
  /\ \A x \in Ssrc : inst'.m_map_ssrc[x] = IF x = s THEN Own ELSE inst.m_map_ssrc[x]
  /\ UNCHANGED <<ff, last, forgotten>>

SetupPost(f, rtp, rtcp) ==
  /\ TypeOK'
  /\ ~ff[f].used /\ inst.m_setup
  /\ inst'.m_setup = inst.m_setup /\ inst'.m_ssrc = inst.m_ssrc
  /\ inst'.m_seq = inst.m_seq
  /\ inst'.m_player_list = inst.m_player_list
  /\ inst'.m_publisher_list = inst.m_publisher_list
  /\ \A a \in Addr : inst'.m_map_rtp_addr[a] =
       IF a = rtp THEN f ELSE inst.m_map_rtp_addr[a]
  /\ \A a \in Addr : inst'.m_map_rtcp_addr[a] =
       IF a = rtcp THEN f ELSE inst.m_map_rtcp_addr[a]
  /\ inst'.m_map_ssrc = inst.m_map_ssrc
  /\ ff'[f].used /\ ff'[f].m_setup
  /\ ff'[f].m_ssrc = 0 /\ ff'[f].m_rtp = rtp /\ ff'[f].m_rtcp = rtcp
  /\ \A g \in FF \ {f} : ff'[g] = ff[g]
  /\ UNCHANGED <<last, forgotten>>

\* The fields of slot f that PLAY, RECORD, TEARDOWN and datagrams leave alone
SlotKept(f) ==
  /\ ff'[f].used = ff[f].used
  /\ ff'[f].m_rtp = ff[f].m_rtp
  /\ ff'[f].m_rtcp = ff[f].m_rtcp

ActivatePost(S, is_publisher) ==
  LET N == Unhashed(inst, S)
  IN /\ TypeOK'
     /\ S \subseteq Live
     /\ inst'.m_setup = inst.m_setup /\ inst'.m_ssrc = inst.m_ssrc
     /\ inst'.m_seq = inst.m_seq
     /\ inst'.m_player_list = inst.m_player_list \union (IF is_publisher THEN {} ELSE N)
     /\ inst'.m_publisher_list = inst.m_publisher_list \union (IF is_publisher THEN N ELSE {})
     /\ inst'.m_map_rtp_addr = inst.m_map_rtp_addr
     /\ inst'.m_map_rtcp_addr = inst.m_map_rtcp_addr
     /\ inst'.m_map_ssrc = inst.m_map_ssrc
     /\ \A f \in FF : /\ SlotKept(f)
                      /\ ff'[f].m_setup = ff[f].m_setup
                      /\ ff'[f].m_ssrc = ff[f].m_ssrc
     /\ UNCHANGED <<last, forgotten>>

TeardownPost(S) ==
  /\ TypeOK'
  /\ S \subseteq Live
  /\ inst'.m_setup = inst.m_setup /\ inst'.m_ssrc = inst.m_ssrc
  /\ inst'.m_seq = inst.m_seq
  /\ inst'.m_player_list = inst.m_player_list \ S
  /\ inst'.m_publisher_list = inst.m_publisher_list \ S
  /\ \A a \in Addr : inst'.m_map_rtp_addr[a] =
       IF \E f \in S : ff[f].m_rtp = a THEN NoFF ELSE inst.m_map_rtp_addr[a]
  /\ \A a \in Addr : inst'.m_map_rtcp_addr[a] =
       IF \E f \in S : ff[f].m_rtcp = a THEN NoFF ELSE inst.m_map_rtcp_addr[a]
  /\ \A x \in Ssrc : inst'.m_map_ssrc[x] =
       IF \E f \in S : ff[f].m_ssrc = x THEN NoFF ELSE inst.m_map_ssrc[x]
  /\ \A f \in FF : /\ SlotKept(f)
                   /\ f \notin S => ff'[f].m_setup = ff[f].m_setup
                   /\ f \in S => ~ff'[f].m_setup
                   /\ ff'[f].m_ssrc = ff[f].m_ssrc
  /\ UNCHANGED <<last, forgotten>>

\* A datagram of slot f carried SSRC s and BYEs for B: f kept its SSRC, or took
\* s, which was free; then the SSRCs of B left the map.
DatagramPost(f, s, B) ==
  /\ TypeOK'
  /\ f \in FF
  /\ inst'.m_setup = inst.m_setup /\ inst'.m_ssrc = inst.m_ssrc
  /\ inst'.m_player_list = inst.m_player_list
  /\ inst'.m_publisher_list = inst.m_publisher_list
  /\ inst'.m_map_rtp_addr = inst.m_map_rtp_addr
  /\ inst'.m_map_rtcp_addr = inst.m_map_rtcp_addr
  /\ \A g \in FF : /\ SlotKept(g)
                   /\ ff'[g].m_setup = ff[g].m_setup
                   /\ g # f => ff'[g].m_ssrc = ff[g].m_ssrc
  /\ \/ /\ ff'[f].m_ssrc = ff[f].m_ssrc
        /\ \A x \in Ssrc : inst'.m_map_ssrc[x] =
             IF x \in B THEN NoFF ELSE inst.m_map_ssrc[x]
     \/ /\ ff'[f].m_ssrc = s /\ ff[f].m_ssrc # s /\ inst.m_map_ssrc[s] = NoFF
        /\ \A x \in Ssrc : inst'.m_map_ssrc[x] =
             IF x \in B THEN NoFF
             ELSE IF x = s THEN f
             ELSE IF x = ff[f].m_ssrc /\ x > 0 THEN NoFF
             ELSE inst.m_map_ssrc[x]
  /\ forgotten' = forgotten \union {x \in B : InUse(x)'}

\* The outcome of ProcRtp on the media path
MediaPost(inSeq) ==
  LET next == (inst.m_seq + 1) % SeqMod
  IN /\ inst'.m_seq = IF inSeq THEN next ELSE inst.m_seq
     /\ last' = [g \in FF |-> IF inSeq /\ g \in inst.m_player_list
                              THEN next ELSE last[g]]

LEMMA AnnounceEffect ==
  ASSUME TypeOK, NEW s \in Ssrc, NEW seq \in 0 .. SeqMod - 1, Announce(s, seq)
  PROVE  AnnouncePost(s, seq)
<1>1. inst \in InstStream /\ inst' = SetupInst(inst, s, seq)
  BY DEF Announce, TypeOK
<1>2. ~inst.m_setup /\ s # 0 /\ inst.m_map_ssrc[s] = NoFF
  BY DEF Announce, ExistAddr
<1>3. inst' \in InstStream
  BY <1>1 DEF SetupInst, InstStream
<1>4. TypeOK' /\ UNCHANGED <<ff, last, forgotten>>
  BY <1>3 DEF TypeOK, Announce
<1>5. /\ inst'.m_setup = TRUE /\ inst'.m_ssrc = s /\ inst'.m_seq = seq
      /\ inst'.m_player_list = inst.m_player_list
      /\ inst'.m_publisher_list = inst.m_publisher_list
      /\ inst'.m_map_rtp_addr = inst.m_map_rtp_addr
      /\ inst'.m_map_rtcp_addr = inst.m_map_rtcp_addr
      /\ \A x \in Ssrc : inst'.m_map_ssrc[x] = IF x = s THEN Own ELSE inst.m_map_ssrc[x]
  BY <1>1, <1>3 DEF SetupInst, InstStream
<1>6. QED
  BY <1>2, <1>4, <1>5 DEF AnnouncePost

LEMMA SetupEffect ==
  ASSUME TypeOK, NEW f \in FF, NEW rtp \in Addr, NEW rtcp \in Addr,
         Setup(f, rtp, rtcp)
  PROVE  SetupPost(f, rtp, rtcp)
<1>1. inst \in InstStream /\ inst' = AddFF(inst, f, rtp, rtcp)
  BY DEF Setup, TypeOK
<1>2. ff' \in [FF -> FFStream]
  BY DEF Setup, SetupFF, FreshFF, FFStream, TypeOK
<1>3. /\ ff'[f].used /\ ff'[f].m_setup
      /\ ff'[f].m_ssrc = 0 /\ ff'[f].m_rtp = rtp /\ ff'[f].m_rtcp = rtcp
  <2>1. ff'[f] = SetupFF(rtp, rtcp)
    BY DEF Setup, TypeOK
  <2>2. ff'[f] = [used |-> TRUE, m_setup |-> TRUE, m_is_publisher |-> FALSE,
                  m_ssrc |-> 0, m_rtp |-> rtp, m_rtcp |-> rtcp]
    BY <2>1 DEF SetupFF, FreshFF
  <2>3. QED
    BY <2>2
<1>4. /\ \A g \in FF \ {f} : ff'[g] = ff[g]
      /\ ~ff[f].used /\ inst.m_setup
      /\ UNCHANGED <<last, forgotten>>
  BY DEF Setup, TypeOK
<1>5. TypeOK'
  BY <1>1, <1>2, <1>4, AddFFResult DEF TypeOK
<1>6. /\ \A a \in Addr : inst'.m_map_rtp_addr[a] =
           IF a = rtp THEN f ELSE inst.m_map_rtp_addr[a]
      /\ \A a \in Addr : inst'.m_map_rtcp_addr[a] =
           IF a = rtcp THEN f ELSE inst.m_map_rtcp_addr[a]
  BY <1>1, AddFFResult DEF InstStream
<1>7. /\ inst'.m_setup = inst.m_setup /\ inst'.m_ssrc = inst.m_ssrc
      /\ inst'.m_seq = inst.m_seq
      /\ inst'.m_player_list = inst.m_player_list
      /\ inst'.m_publisher_list = inst.m_publisher_list
      /\ inst'.m_map_ssrc = inst.m_map_ssrc
  BY <1>1, AddFFResult
<1>8. QED
  BY <1>3, <1>4, <1>5, <1>6, <1>7, Zenon DEF SetupPost

LEMMA ActivateEffect ==
  ASSUME TypeOK, NEW S \in SUBSET FF, NEW is_publisher \in BOOLEAN,
         Activate(S, is_publisher)
  PROVE  ActivatePost(S, is_publisher)
<1>1. inst \in InstStream /\ inst' = ActivateFF(inst, S, is_publisher)
  BY DEF Activate, TypeOK
<1>2. ff' \in [FF -> FFStream]
  BY DEF Activate, FFStream, TypeOK
<1>3. \A f \in FF : /\ SlotKept(f)
                    /\ ff'[f].m_setup = ff[f].m_setup
                    /\ ff'[f].m_ssrc = ff[f].m_ssrc
  BY <1>2 DEF Activate, SlotKept, FFStream, TypeOK
<1>4. S \subseteq Live /\ UNCHANGED <<last, forgotten>>
  BY DEF Activate
<1>5. TypeOK'
  BY <1>1, <1>2, <1>4, ActivateFFResult DEF TypeOK
<1>6. QED
  BY <1>1, <1>3, <1>4, <1>5, ActivateFFResult DEF ActivatePost

LEMMA TeardownEffect ==
  ASSUME TypeOK, NEW S \in SUBSET FF, Teardown(S)
  PROVE  TeardownPost(S)
<1>1. inst \in InstStream /\ inst' = RemoveFF(inst, ff, S)
  BY DEF Teardown, TypeOK
<1>2. ff' \in [FF -> FFStream]
  BY DEF Teardown, FFStream, TypeOK
<1>3. \A f \in FF : /\ SlotKept(f)
                    /\ f \notin S => ff'[f].m_setup = ff[f].m_setup
                    /\ f \in S => ~ff'[f].m_setup
                    /\ ff'[f].m_ssrc = ff[f].m_ssrc
  BY <1>2 DEF Teardown, SlotKept, FFStream, TypeOK
<1>4. S \subseteq Live /\ UNCHANGED <<last, forgotten>>
  BY DEF Teardown
<1>5. TypeOK'
  BY <1>1, <1>2, <1>4, RemoveFFResult DEF TypeOK
<1>6. /\ \A a \in Addr : inst'.m_map_rtp_addr[a] =
           IF \E f \in S : ff[f].m_rtp = a THEN NoFF ELSE inst.m_map_rtp_addr[a]
      /\ \A a \in Addr : inst'.m_map_rtcp_addr[a] =
           IF \E f \in S : ff[f].m_rtcp = a THEN NoFF ELSE inst.m_map_rtcp_addr[a]
      /\ \A x \in Ssrc : inst'.m_map_ssrc[x] =
           IF \E f \in S : ff[f].m_ssrc = x THEN NoFF ELSE inst.m_map_ssrc[x]
  BY <1>1, RemoveFFResult DEF TypeOK
<1>7. /\ inst'.m_setup = inst.m_setup /\ inst'.m_ssrc = inst.m_ssrc
      /\ inst'.m_seq = inst.m_seq
      /\ inst'.m_player_list = inst.m_player_list \ S
      /\ inst'.m_publisher_list = inst.m_publisher_list \ S
  BY <1>1, RemoveFFResult DEF TypeOK
<1>8. QED
  BY <1>3, <1>4, <1>5, <1>6, <1>7, Zenon DEF TeardownPost

\* A datagram of f may change the SSRC of f and no other field of a slot.
LEMMA TakeSsrcEffect ==
  ASSUME ff \in [FF -> FFStream], NEW f \in FF, NEW s \in Ssrc,
         ff' = [ff EXCEPT ![f].m_ssrc = s]
  PROVE  /\ ff' \in [FF -> FFStream]
         /\ ff'[f].m_ssrc = s
         /\ \A g \in FF : /\ SlotKept(g)
                          /\ ff'[g].m_setup = ff[g].m_setup
                          /\ g # f => ff'[g].m_ssrc = ff[g].m_ssrc
<1>1. ff' \in [FF -> FFStream]
  BY DEF FFStream
<1>2. QED
  BY <1>1 DEF FFStream, SlotKept

LEMMA ProcRtpEffect ==
  ASSUME TypeOK, NEW a \in Addr, NEW s \in Ssrc, NEW inSeq \in BOOLEAN,
         ProcRtp(a, s, inSeq)
  PROVE  DatagramPost(FindByRtp(inst, a), s, {}) /\ MediaPost(inSeq)
<1> DEFINE f == FindByRtp(inst, a)
           next == (inst.m_seq + 1) % SeqMod
           claimed == ClaimSsrc(inst, ff, f, s)
           n == IF inSeq THEN next ELSE inst.m_seq
<1>1. f \in FF
  BY DEF ProcRtp, FindByRtp, TypeOK, InstStream
<1>2. claimed \in InstStream /\ claimed.m_seq = inst.m_seq
  BY <1>1, ClaimSsrcResult DEF TypeOK
<1>3. n \in 0 .. SeqMod - 1 /\ next \in 0 .. SeqMod - 1
  BY NextSeqInRange DEF TypeOK, InstStream
<1>4. inst' = [claimed EXCEPT !.m_seq = n]
  BY <1>2 DEF ProcRtp, NextSeq
<1>5. /\ ff' = [ff EXCEPT ![f].m_ssrc = s]
      /\ last' = [g \in FF |-> IF inSeq /\ g \in inst.m_player_list
                               THEN next ELSE last[g]]
      /\ UNCHANGED forgotten
      /\ ff[f].m_ssrc = s \/ inst.m_map_ssrc[s] = NoFF
  BY DEF ProcRtp, ValidSsrc, ExistAddr, NextSeq
<1> HIDE DEF f, claimed, n
<1>6. /\ inst' \in InstStream /\ inst'.m_seq = n
      /\ inst'.m_setup = claimed.m_setup /\ inst'.m_ssrc = claimed.m_ssrc
      /\ inst'.m_player_list = claimed.m_player_list
      /\ inst'.m_publisher_list = claimed.m_publisher_list
      /\ inst'.m_map_rtp_addr = claimed.m_map_rtp_addr
      /\ inst'.m_map_rtcp_addr = claimed.m_map_rtcp_addr
      /\ inst'.m_map_ssrc = claimed.m_map_ssrc
  BY <1>2, <1>3, <1>4, BumpSeqResult
<1>7. TypeOK'
  BY <1>1, <1>3, <1>5, <1>6, TakeSsrcEffect DEF TypeOK
<1>8. /\ inst'.m_setup = inst.m_setup /\ inst'.m_ssrc = inst.m_ssrc
      /\ inst'.m_player_list = inst.m_player_list
      /\ inst'.m_publisher_list = inst.m_publisher_list
      /\ inst'.m_map_rtp_addr = inst.m_map_rtp_addr
      /\ inst'.m_map_rtcp_addr = inst.m_map_rtcp_addr
  BY <1>1, <1>6, ClaimSsrcResult DEF TypeOK, claimed
<1>9. \/ /\ ff'[f].m_ssrc = ff[f].m_ssrc
         /\ \A x \in Ssrc : inst'.m_map_ssrc[x] = inst.m_map_ssrc[x]
      \/ /\ ff'[f].m_ssrc = s /\ ff[f].m_ssrc # s /\ inst.m_map_ssrc[s] = NoFF
         /\ \A x \in Ssrc : inst'.m_map_ssrc[x] =
              IF x = s THEN f
              ELSE IF x = ff[f].m_ssrc /\ x > 0 THEN NoFF
              ELSE inst.m_map_ssrc[x]
  BY <1>1, <1>5, <1>6, TakeSsrcEffect, ClaimSsrcResult DEF TypeOK, claimed
<1>10. DatagramPost(f, s, {})
  BY <1>1, <1>5, <1>7, <1>8, <1>9, TakeSsrcEffect DEF DatagramPost, TypeOK
<1>11. MediaPost(inSeq)
  BY <1>5, <1>6 DEF MediaPost, n
<1>12. QED
  BY <1>10, <1>11 DEF f

LEMMA ProcRtcpEffect ==
  ASSUME TypeOK, NEW a \in Addr, NEW s \in Ssrc, NEW B \in SUBSET Ssrc,
         ProcRtcp(a, s, B)
  PROVE  /\ DatagramPost(FindByRtcp(inst, a), s, B)
         /\ inst'.m_seq = inst.m_seq
         /\ UNCHANGED last
<1> DEFINE f == FindByRtcp(inst, a)
           claimed == ClaimSsrc(inst, ff, f, s)
           inst1 == IF ValidSsrc(inst, ff, f, s) THEN claimed ELSE inst
<1>1. f \in FF
  BY DEF ProcRtcp, FindByRtcp, TypeOK, InstStream
<1>2. /\ inst' = DelSsrc(inst1, B)
      /\ forgotten' = forgotten \union {x \in B : InUse(x)'}
      /\ UNCHANGED last
  BY DEF ProcRtcp
<1>3. /\ inst1 \in InstStream
      /\ inst1.m_setup = inst.m_setup /\ inst1.m_ssrc = inst.m_ssrc
      /\ inst1.m_seq = inst.m_seq
      /\ inst1.m_player_list = inst.m_player_list
      /\ inst1.m_publisher_list = inst.m_publisher_list
      /\ inst1.m_map_rtp_addr = inst.m_map_rtp_addr
      /\ inst1.m_map_rtcp_addr = inst.m_map_rtcp_addr
  BY <1>1, ClaimSsrcResult DEF TypeOK
<1>4. /\ ff' \in [FF -> FFStream]
      /\ \A g \in FF : /\ SlotKept(g)
                       /\ ff'[g].m_setup = ff[g].m_setup
                       /\ g # f => ff'[g].m_ssrc = ff[g].m_ssrc
  BY <1>1, TakeSsrcEffect DEF ProcRtcp, SlotKept, TypeOK
<1>5. \/ /\ ff'[f].m_ssrc = ff[f].m_ssrc
         /\ \A x \in Ssrc : inst1.m_map_ssrc[x] = inst.m_map_ssrc[x]
      \/ /\ ff'[f].m_ssrc = s /\ ff[f].m_ssrc # s /\ inst.m_map_ssrc[s] = NoFF
         /\ \A x \in Ssrc : inst1.m_map_ssrc[x] =
              IF x = s THEN f
              ELSE IF x = ff[f].m_ssrc /\ x > 0 THEN NoFF
              ELSE inst.m_map_ssrc[x]
  <2>1. CASE ValidSsrc(inst, ff, f, s)
    <3>1. ff' = [ff EXCEPT ![f].m_ssrc = s] /\ inst1 = claimed
      BY <2>1 DEF ProcRtcp
    <3>2. ff'[f].m_ssrc = s
      BY <1>1, <3>1, TakeSsrcEffect DEF TypeOK
    <3>3. ff[f].m_ssrc = s \/ inst.m_map_ssrc[s] = NoFF
      BY <2>1 DEF ValidSsrc, ExistAddr
    <3>4. QED
      BY <1>1, <3>1, <3>2, <3>3, ClaimSsrcResult DEF TypeOK
  <2>2. CASE ~ValidSsrc(inst, ff, f, s)
    BY <2>2 DEF ProcRtcp
  <2>3. QED
    BY <2>1, <2>2
<1> HIDE DEF f, inst1
<1>6. /\ inst' \in InstStream
      /\ inst'.m_setup = inst1.m_setup /\ inst'.m_ssrc = inst1.m_ssrc
      /\ inst'.m_seq = inst1.m_seq
      /\ inst'.m_player_list = inst1.m_player_list
      /\ inst'.m_publisher_list = inst1.m_publisher_list
      /\ inst'.m_map_rtp_addr = inst1.m_map_rtp_addr
      /\ inst'.m_map_rtcp_addr = inst1.m_map_rtcp_addr
      /\ inst'.m_map_ssrc = [x \in Ssrc |->
           IF x \in B THEN NoFF ELSE inst1.m_map_ssrc[x]]
  BY <1>2, <1>3, DelSsrcResult
<1>7. TypeOK'
  BY <1>2, <1>4, <1>6 DEF TypeOK
<1>8. DatagramPost(f, s, B)
  BY <1>1, <1>2, <1>3, <1>4, <1>5, <1>6, <1>7 DEF DatagramPost
<1>9. QED
  BY <1>2, <1>3, <1>6, <1>8 DEF f

-------------------------------------------------------------------------------
(* The inductive invariant, one lemma per handler.                          *)

LEMMA InitIInv == Init => IInv
<1> SUFFICES ASSUME Init PROVE IInv
  OBVIOUS
<1> USE DEF Init, CreatInst, FreshFF, Live
<1>1. TypeOK
  BY DEF TypeOK, InstStream, FFStream
<1>2. OnlyWhenSetup /\ RegistrySound /\ FoundUnlessShared /\ ListsSound
  BY DEF OnlyWhenSetup, RegistrySound, FoundUnlessShared, ListsSound
<1>3. HolderUsesIt /\ RegisteredUnlessForgotten
  BY DEF HolderUsesIt, RegisteredUnlessForgotten
<1>4. PlayersUpToDate /\ NothingSentYet
  BY DEF PlayersUpToDate, NothingSentYet
<1>5. QED
  BY <1>1, <1>2, <1>3, <1>4 DEF IInv

LEMMA AnnounceIInv ==
  ASSUME IInv, NEW s \in Ssrc, NEW seq \in 0 .. SeqMod - 1, AnnouncePost(s, seq)
  PROVE  IInv'
<1> USE DEF AnnouncePost, IInv, Live
<1>1. OnlyWhenSetup'
  BY DEF OnlyWhenSetup
<1>2. Live = {}
  BY DEF OnlyWhenSetup
<1>3. RegistrySound'
  BY DEF RegistrySound
<1>4. FoundUnlessShared'
  BY DEF FoundUnlessShared, FindByRtp, FindByRtcp
<1>5. ListsSound'
  BY DEF ListsSound
<1>6. HolderUsesIt'
  BY <1>2 DEF HolderUsesIt, OnlyWhenSetup, TypeOK, InstStream
<1>7. RegisteredUnlessForgotten'
  BY <1>2 DEF RegisteredUnlessForgotten, TypeOK, InstStream
<1>8. PlayersUpToDate'
  BY <1>2 DEF PlayersUpToDate, ListsSound
<1>9. NothingSentYet'
  BY DEF NothingSentYet
<1>10. QED
  BY <1>1, <1>3, <1>4, <1>5, <1>6, <1>7, <1>8, <1>9

LEMMA SetupIInv ==
  ASSUME IInv, NEW f \in FF, NEW rtp \in Addr, NEW rtcp \in Addr,
         SetupPost(f, rtp, rtcp)
  PROVE  IInv'
<1> USE DEF SetupPost, IInv, Live
<1>1. f \notin Live
  BY DEF OnlyWhenSetup
<1>2. OnlyWhenSetup'
  BY DEF OnlyWhenSetup
<1>3. RegistrySound'
  BY <1>1 DEF RegistrySound, TypeOK, InstStream
<1>4. FoundUnlessShared'
  BY <1>1 DEF FoundUnlessShared, FindByRtp, FindByRtcp, OnlyWhenSetup, TypeOK, InstStream
<1>5. ListsSound'
  BY <1>1 DEF ListsSound
<1>6. HolderUsesIt'
  BY <1>1 DEF HolderUsesIt
<1>7. RegisteredUnlessForgotten'
  BY <1>1 DEF RegisteredUnlessForgotten
<1>8. PlayersUpToDate'
  BY DEF PlayersUpToDate
<1>9. NothingSentYet'
  BY <1>1 DEF NothingSentYet
<1>10. QED
  BY <1>2, <1>3, <1>4, <1>5, <1>6, <1>7, <1>8, <1>9

LEMMA ActivateIInv ==
  ASSUME IInv, NEW S \in SUBSET FF, NEW is_publisher \in BOOLEAN,
         ActivatePost(S, is_publisher)
  PROVE  IInv'
<1> USE DEF ActivatePost, SlotKept, Unhashed, IInv, Live
<1>1. OnlyWhenSetup'
  BY DEF OnlyWhenSetup
<1>2. RegistrySound'
  BY DEF RegistrySound, TypeOK, InstStream
<1>3. FoundUnlessShared'
  BY DEF FoundUnlessShared, FindByRtp, FindByRtcp
<1>4. ListsSound'
  BY DEF ListsSound
<1>5. HolderUsesIt'
  BY DEF HolderUsesIt
<1>6. RegisteredUnlessForgotten'
  BY DEF RegisteredUnlessForgotten
<1>7. PlayersUpToDate'
  BY DEF PlayersUpToDate, NothingSentYet
<1>8. NothingSentYet'
  BY DEF NothingSentYet
<1>9. QED
  BY <1>1, <1>2, <1>3, <1>4, <1>5, <1>6, <1>7, <1>8

LEMMA TeardownIInv ==
  ASSUME IInv, NEW S \in SUBSET FF, TeardownPost(S)
  PROVE  IInv'
<1> USE DEF TeardownPost, SlotKept, IInv, Live
<1>1. OnlyWhenSetup'
  BY DEF OnlyWhenSetup
<1>2. RegistrySound'
  BY DEF RegistrySound, TypeOK, InstStream
\* A surviving stream that shares its address with no slot keeps its entry.
<1>3. FoundUnlessShared'
  <2>1. ASSUME NEW f \in FF, f \in Live'
        PROVE  /\ f \in Live /\ f \notin S /\ ff[f].m_rtp \in Addr /\ ff[f].m_rtcp \in Addr
               /\ \A g \in S : g \in FF \ {f} /\ ff[g].used
    BY <2>1 DEF OnlyWhenSetup
  <2>2. QED
    BY <2>1 DEF FoundUnlessShared, FindByRtp, FindByRtcp
<1>4. ListsSound'
  BY DEF ListsSound
<1>5. HolderUsesIt'
  BY DEF HolderUsesIt, TypeOK, FFStream
\* A stream torn down cannot take the entry of another with it: the one entry
\* of an SSRC that no BYE named is the torn-down stream's own.
<1>6. RegisteredUnlessForgotten'
  BY DEF RegisteredUnlessForgotten, OnlyWhenSetup, TypeOK, FFStream
<1>7. PlayersUpToDate'
  BY DEF PlayersUpToDate
<1>8. NothingSentYet'
  BY DEF NothingSentYet, OnlyWhenSetup
<1>9. QED
  BY <1>1, <1>2, <1>3, <1>4, <1>5, <1>6, <1>7, <1>8

\* What RTP and RTCP datagrams have in common: the registry and the SSRC map
\* after one of f, whatever it claims and says good-bye to.
LEMMA DatagramInv ==
  ASSUME IInv, NEW f \in Live, NEW s \in Ssrc, NEW B \in SUBSET Ssrc,
         DatagramPost(f, s, B)
  PROVE  /\ Live' = Live
         /\ TypeOK' /\ OnlyWhenSetup' /\ RegistrySound' /\ FoundUnlessShared'
         /\ ListsSound' /\ HolderUsesIt' /\ RegisteredUnlessForgotten'
<1> USE DEF DatagramPost, SlotKept, IInv
<1>1. Live' = Live
  BY DEF Live
<1>2. OnlyWhenSetup'
  BY DEF OnlyWhenSetup
<1>3. RegistrySound'
  BY <1>1 DEF RegistrySound, Live, TypeOK, InstStream
<1>4. FoundUnlessShared'
  BY <1>1 DEF FoundUnlessShared, FindByRtp, FindByRtcp, Live
<1>5. ListsSound'
  BY <1>1 DEF ListsSound
<1>6. HolderUsesIt'
  <2> SUFFICES ASSUME NEW x \in Ssrc \ {0}
               PROVE  LET h == inst'.m_map_ssrc[x]
                      IN /\ h \in FF => h \in Live /\ ff'[h].m_ssrc = x
                         /\ h = Own => inst'.m_ssrc = x
    BY <1>1 DEF HolderUsesIt
  <2>1. x > 0
    OBVIOUS
  <2>2. f \in FF
    OBVIOUS
  <2>3. LET h == inst.m_map_ssrc[x]
        IN /\ h \in FF => h \in Live /\ ff[h].m_ssrc = x
           /\ h = Own => inst.m_ssrc = x
    BY DEF HolderUsesIt
  <2>4. QED
    BY <2>1, <2>2, <2>3
<1>7. RegisteredUnlessForgotten'
  BY <1>1 DEF RegisteredUnlessForgotten, InUse, Live, OnlyWhenSetup, TypeOK, FFStream
<1>8. QED
  BY <1>1, <1>2, <1>3, <1>4, <1>5, <1>6, <1>7

LEMMA ProcRtpIInv ==
  ASSUME IInv, NEW f \in Live, NEW s \in Ssrc, NEW inSeq \in BOOLEAN,
         DatagramPost(f, s, {}), MediaPost(inSeq)
  PROVE  IInv'
<1>0. /\ {} \in SUBSET Ssrc
      /\ inst'.m_player_list = inst.m_player_list
      /\ \A g \in FF : ff'[g].used = ff[g].used
  BY DEF DatagramPost, SlotKept
<1>1. /\ Live' = Live
      /\ TypeOK' /\ OnlyWhenSetup' /\ RegistrySound' /\ FoundUnlessShared'
      /\ ListsSound' /\ HolderUsesIt' /\ RegisteredUnlessForgotten'
  BY <1>0, DatagramInv
<1>2. PlayersUpToDate'
  BY <1>0 DEF PlayersUpToDate, MediaPost, IInv, TypeOK, InstStream
<1>3. NothingSentYet'
  BY <1>0, <1>1 DEF NothingSentYet, MediaPost, IInv
<1>4. QED
  BY <1>1, <1>2, <1>3 DEF IInv

LEMMA ProcRtcpIInv ==
  ASSUME IInv, NEW f \in Live, NEW s \in Ssrc, NEW B \in SUBSET Ssrc,
         DatagramPost(f, s, B), inst'.m_seq = inst.m_seq, UNCHANGED last
  PROVE  IInv'
<1>1. /\ Live' = Live
      /\ inst'.m_player_list = inst.m_player_list
      /\ \A g \in FF : ff'[g].used = ff[g].used
  BY DatagramInv DEF DatagramPost, SlotKept
<1>2. PlayersUpToDate'
  BY <1>1 DEF PlayersUpToDate, IInv
<1>3. NothingSentYet'
  BY <1>1 DEF NothingSentYet, IInv
<1>4. QED
  BY <1>2, <1>3, DatagramInv DEF IInv

LEMMA IInvStep == IInv /\ [Next]_vars => IInv'
<1> SUFFICES ASSUME IInv, [Next]_vars PROVE IInv'
  OBVIOUS
<1>0. TypeOK
  BY DEF IInv
<1>1. ASSUME NEW s \in Ssrc, NEW seq \in 0 .. SeqMod - 1, Announce(s, seq)
      PROVE  IInv'
  BY <1>0, <1>1, AnnounceEffect, AnnounceIInv
<1>2. ASSUME NEW f \in FF, NEW rtp \in Addr, NEW rtcp \in Addr, Setup(f, rtp, rtcp)
      PROVE  IInv'
  BY <1>0, <1>2, SetupEffect, SetupIInv
<1>3. ASSUME NEW S \in SUBSET FF, NEW is_publisher \in BOOLEAN, Activate(S, is_publisher)
      PROVE  IInv'
  BY <1>0, <1>3, ActivateEffect, ActivateIInv
<1>4. ASSUME NEW S \in SUBSET FF, Teardown(S)
      PROVE  IInv'
  BY <1>0, <1>4, TeardownEffect, TeardownIInv
<1>5. ASSUME NEW a \in Addr, NEW s \in Ssrc, NEW inSeq \in BOOLEAN, ProcRtp(a, s, inSeq)
      PROVE  IInv'
  <2>1. FindByRtp(inst, a) \in Live
    BY <1>5 DEF ProcRtp, FindByRtp, IInv, RegistrySound
  <2>2. QED
    BY <1>0, <1>5, <2>1, ProcRtpEffect, ProcRtpIInv
<1>6. ASSUME NEW a \in Addr, NEW s \in Ssrc, NEW B \in SUBSET Ssrc, ProcRtcp(a, s, B)
      PROVE  IInv'
  <2>1. FindByRtcp(inst, a) \in Live
    BY <1>6 DEF ProcRtcp, FindByRtcp, IInv, RegistrySound
  <2>2. QED
    BY <1>0, <1>6, <2>1, ProcRtcpEffect, ProcRtcpIInv
<1>7. CASE UNCHANGED vars
  BY <1>7 DEF vars, IInv, TypeOK, OnlyWhenSetup, RegistrySound, FoundUnlessShared,
     ListsSound, HolderUsesIt, RegisteredUnlessForgotten, PlayersUpToDate,
     NothingSentYet, Live, FindByRtp, FindByRtcp
<1>8. QED
  BY <1>1, <1>2, <1>3, <1>4, <1>5, <1>6, <1>7 DEF Next

\* The invariant holds throughout every behaviour.
THEOREM Inductive == Spec => []IInv
  BY InitIInv, IInvStep, PTL DEF Spec

-------------------------------------------------------------------------------
(* What follows from the invariant.                                         *)

\* Every state reached by any sequence of requests and datagrams has the types
\* of rtpdata.h: slots in lists and maps are slots, SSRCs are SSRCs.
THEOREM TypeCorrect == Spec => []TypeOK
<1>1. IInv => TypeOK
  BY DEF IInv
<1>2. QED
  BY <1>1, Inductive, PTL

\* No datagram reaches a torn-down stream or one of another address.
THEOREM Registry == Spec => []RegistrySound
<1>1. IInv => RegistrySound
  BY DEF IInv
<1>2. QED
  BY <1>1, Inductive, PTL

\* A stream alone on its address is always found.
THEOREM Found == Spec => []FoundUnlessShared
<1>1. IInv => FoundUnlessShared
  BY DEF IInv
<1>2. QED
  BY <1>1, Inductive, PTL

\* The lists hold streams that are set up, each of them once.
THEOREM Lists == Spec => []ListsSound
<1>1. IInv => ListsSound
  BY DEF IInv
<1>2. QED
  BY <1>1, Inductive, PTL

\* No SSRC stays reserved for a stream that has left it.
THEOREM NoSsrcLeak == Spec => []HolderUsesIt
<1>1. IInv => HolderUsesIt
  BY DEF IInv
<1>2. QED
  BY <1>1, Inductive, PTL

\* Two parties of an instance share an SSRC only after a BYE that named it.
THEOREM SsrcConflict == Spec => []ConflictOnlyAfterBye
<1>1. ASSUME IInv PROVE ConflictOnlyAfterBye
  <2> SUFFICES ASSUME NEW f \in Live, ff[f].m_ssrc \notin forgotten \union {0}
               PROVE  /\ \A g \in Live \ {f} : ff[g].m_ssrc # ff[f].m_ssrc
                      /\ ff[f].m_ssrc # inst.m_ssrc
    BY DEF ConflictOnlyAfterBye
  <2> DEFINE s == ff[f].m_ssrc
  <2>1. f \in FF /\ s \in Ssrc \ ({0} \union forgotten)
    BY <1>1 DEF IInv, TypeOK, FFStream, Live
  <2>2. inst.m_map_ssrc[s] = f
    BY <1>1, <2>1 DEF IInv, RegisteredUnlessForgotten
  <2>3. \A g \in Live \ {f} : ff[g].m_ssrc # s
    BY <1>1, <2>1, <2>2 DEF IInv, RegisteredUnlessForgotten
  <2>4. inst.m_setup
    BY <1>1 DEF IInv, OnlyWhenSetup, Live
  <2>5. inst.m_ssrc # s
    BY <1>1, <2>1, <2>2, <2>4 DEF IInv, RegisteredUnlessForgotten
  <2>6. QED
    BY <2>3, <2>5
<1>2. QED
  BY <1>1, Inductive, PTL

\* A player that has received media has received all of it since.
THEOREM NoGap == Spec => []PlayersUpToDate
<1>1. IInv => PlayersUpToDate
  BY DEF IInv
<1>2. QED
  BY <1>1, Inductive, PTL

\* PLAY and RECORD never move a stream that is already in a list.
THEOREM RoleIsFixed == Spec => RoleSticks
<1> DEFINE Stays == \A f \in Live' :
      /\ f \in inst.m_player_list => f \in inst'.m_player_list
      /\ f \in inst.m_publisher_list => f \in inst'.m_publisher_list
<1>1. ASSUME IInv, [Next]_vars PROVE [Stays]_vars
  <2>0. TypeOK
    BY <1>1 DEF IInv
  <2>1. ASSUME NEW s \in Ssrc, NEW seq \in 0 .. SeqMod - 1, Announce(s, seq)
        PROVE  Stays
    BY <2>0, <2>1, AnnounceEffect DEF AnnouncePost
  <2>2. ASSUME NEW f \in FF, NEW rtp \in Addr, NEW rtcp \in Addr, Setup(f, rtp, rtcp)
        PROVE  Stays
    BY <2>0, <2>2, SetupEffect DEF SetupPost
  <2>3. ASSUME NEW S \in SUBSET FF, NEW is_publisher \in BOOLEAN, Activate(S, is_publisher)
        PROVE  Stays
    BY <2>0, <2>3, ActivateEffect DEF ActivatePost
  <2>4. ASSUME NEW S \in SUBSET FF, Teardown(S)
        PROVE  Stays
    BY <2>0, <2>4, TeardownEffect DEF TeardownPost, Live
  <2>5. ASSUME NEW a \in Addr, NEW s \in Ssrc, NEW inSeq \in BOOLEAN, ProcRtp(a, s, inSeq)
        PROVE  Stays
    BY <2>0, <2>5, ProcRtpEffect DEF DatagramPost
  <2>6. ASSUME NEW a \in Addr, NEW s \in Ssrc, NEW B \in SUBSET Ssrc, ProcRtcp(a, s, B)
        PROVE  Stays
    BY <2>0, <2>6, ProcRtcpEffect DEF DatagramPost
  <2>7. QED
    BY <1>1, <2>1, <2>2, <2>3, <2>4, <2>5, <2>6 DEF Next
<1>2. QED
  BY <1>1, Inductive, PTL DEF Spec, RoleSticks

\* Media leaves only on behalf of a live publisher that holds its SSRC, unless a
\* BYE took it away (publishRtp behind validSsrc).
THEOREM VouchedFor == Spec => MediaIsVouchedFor
<1> DEFINE Vouched == inst.m_setup /\ inst'.m_seq # inst.m_seq =>
      \E f \in Live :
        /\ ff[f].m_is_publisher
        /\ inst'.m_map_ssrc[ff'[f].m_ssrc] = f \/ ff'[f].m_ssrc \in forgotten \union {0}
<1>1. IInv /\ IInv' /\ [Next]_vars => [Vouched]_vars
  <2>a. SUFFICES ASSUME IInv, IInv', Next PROVE Vouched
    OBVIOUS
  <2>0. TypeOK
    BY <2>a DEF IInv
  <2>1. ASSUME inst'.m_seq = inst.m_seq PROVE Vouched
    BY <2>1
  <2>2. ASSUME NEW s \in Ssrc, NEW seq \in 0 .. SeqMod - 1, Announce(s, seq)
        PROVE  Vouched
    BY <2>2 DEF Announce
  <2>3. ASSUME NEW f \in FF, NEW rtp \in Addr, NEW rtcp \in Addr, Setup(f, rtp, rtcp)
        PROVE  Vouched
    BY <2>0, <2>1, <2>3, SetupEffect DEF SetupPost
  <2>4. ASSUME NEW S \in SUBSET FF, NEW is_publisher \in BOOLEAN, Activate(S, is_publisher)
        PROVE  Vouched
    BY <2>0, <2>1, <2>4, ActivateEffect DEF ActivatePost
  <2>5. ASSUME NEW S \in SUBSET FF, Teardown(S)
        PROVE  Vouched
    BY <2>0, <2>1, <2>5, TeardownEffect DEF TeardownPost
  <2>6. ASSUME NEW a \in Addr, NEW s \in Ssrc, NEW inSeq \in BOOLEAN, ProcRtp(a, s, inSeq)
        PROVE  Vouched
    <3> DEFINE f == FindByRtp(inst, a)
    <3>1. f \in Live /\ ff[f].m_is_publisher /\ forgotten' = forgotten
      BY <2>a, <2>6 DEF ProcRtp, FindByRtp, IInv, RegistrySound
    <3>2. f \in Live' /\ f \in FF
      BY <2>0, <2>6, <3>1, ProcRtpEffect DEF DatagramPost, Live
    <3>3. ff'[f].m_ssrc \in Ssrc
      BY <2>a, <3>2 DEF IInv, TypeOK, FFStream
    <3>4. \/ ff'[f].m_ssrc \in forgotten \union {0}
          \/ inst'.m_map_ssrc[ff'[f].m_ssrc] = f
      BY <2>a, <3>1, <3>2, <3>3 DEF IInv, RegisteredUnlessForgotten
    <3>5. QED
      BY <3>1, <3>4
  <2>7. ASSUME NEW a \in Addr, NEW s \in Ssrc, NEW B \in SUBSET Ssrc, ProcRtcp(a, s, B)
        PROVE  Vouched
    <3> DEFINE f == FindByRtcp(inst, a)
    <3>0. inst \in InstStream /\ ff \in [FF -> FFStream]
      BY <2>0 DEF TypeOK
    <3>1. f \in FF
      BY <2>7, <3>0 DEF ProcRtcp, FindByRtcp, InstStream
    <3>2. PICK valid \in BOOLEAN : valid = ValidSsrc(inst, ff, f, s)
      BY DEF ValidSsrc
    <3> HIDE DEF f
    <3>3. PICK c \in InstStream :
            /\ c = IF valid THEN ClaimSsrc(inst, ff, f, s) ELSE inst
            /\ c.m_seq = inst.m_seq
      BY <3>0, <3>1, ClaimSsrcResult
    <3>4. inst' = DelSsrc(c, B)
      BY <2>7, <3>2, <3>3 DEF ProcRtcp, f
    <3>5. DelSsrc(c, B).m_seq = c.m_seq
      BY DelSsrcResult
    <3>6. inst'.m_seq = inst.m_seq
      BY <3>3, <3>4, <3>5
    <3>7. QED
      BY <2>1, <3>6
  <2>8. QED
    BY <2>a, <2>2, <2>3, <2>4, <2>5, <2>6, <2>7 DEF Next
<1>2. QED
  BY <1>1, Inductive, PTL DEF Spec, MediaIsVouchedFor
===============================================================================
