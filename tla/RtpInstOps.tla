------------------------------ MODULE RtpInstOps ------------------------------
(***************************************************************************)
(* The operations on one media instance (InstStream, encoding/rtpdata.h)   *)
(* and on the client streams attached to it (FFStream): the functions of   *)
(* RtpInstMng (encoding/rtpinst.cpp) and RtpCenter::validSsrc              *)
(* (encoding/rtpcenter.cpp), as operators on records.                      *)
(*                                                                         *)
(* The two intrusive lists of an instance are sets: their order is never   *)
(* observed.  A std::map is a total function, with NoFF where it has no    *)
(* entry.  m_map_ssrc maps an SSRC to the address of its holder: here to   *)
(* the holder itself, Own when the address is the instance's own.          *)
(***************************************************************************)
EXTENDS Naturals

CONSTANTS
  FF,      \* the stream slots: every RtspCtx.m_stream[i] of every session
  Addr,    \* UDP transport addresses (IP and port) of the clients
  Ssrc,    \* SSRC values, 0 among them: a fresh slot is zeroed
  SeqMod,  \* modulus of an RTP sequence number (2^16 in the code)
  NullAddr, \* the zeroed address of a slot never set up
  NoFF,    \* no entry in a map
  Own      \* the instance itself, as the holder of an SSRC

ASSUME OpsAssumption ==
  /\ NoFF \notin FF /\ Own \notin FF /\ NoFF # Own
  /\ NullAddr \notin Addr
  /\ Ssrc \subseteq Nat /\ 0 \in Ssrc
  /\ SeqMod \in Nat \ {0}

InstStream ==
  [m_setup: BOOLEAN, m_ssrc: Ssrc, m_seq: 0 .. SeqMod - 1,
   m_player_list: SUBSET FF, m_publisher_list: SUBSET FF,
   m_map_rtp_addr: [Addr -> FF \union {NoFF}],
   m_map_rtcp_addr: [Addr -> FF \union {NoFF}],
   m_map_ssrc: [Ssrc -> FF \union {NoFF, Own}]]

\* m_setup goes TRUE at SETUP and FALSE at TEARDOWN; a slot is never used
\* again (used).  The fields of a slot survive its TEARDOWN.
FFStream ==
  [used: BOOLEAN, m_setup: BOOLEAN, m_is_publisher: BOOLEAN,
   m_ssrc: Ssrc, m_rtp: Addr \union {NullAddr}, m_rtcp: Addr \union {NullAddr}]

FreshFF ==
  [used |-> FALSE, m_setup |-> FALSE, m_is_publisher |-> FALSE,
   m_ssrc |-> 0, m_rtp |-> NullAddr, m_rtcp |-> NullAddr]

\* RtspRes::setupFF zeroes the slot and fills in the client's addresses.
SetupFF(rtp, rtcp) ==
  [FreshFF EXCEPT !.used = TRUE, !.m_setup = TRUE,
                  !.m_rtp = rtp, !.m_rtcp = rtcp]

\* RtspRes::creatInst
CreatInst ==
  [m_setup |-> FALSE, m_ssrc |-> 0, m_seq |-> 0,
   m_player_list |-> {}, m_publisher_list |-> {},
   m_map_rtp_addr |-> [a \in Addr |-> NoFF],
   m_map_rtcp_addr |-> [a \in Addr |-> NoFF],
   m_map_ssrc |-> [s \in Ssrc |-> NoFF]]

ExistAddr(inst, s) == inst.m_map_ssrc[s] # NoFF

\* RtspRes::setupInst: a random first sequence number and, by genSsrc, an
\* SSRC that is neither 0 nor in the map, registered under the own address.
SetupInst(inst, s, seq) ==
  [inst EXCEPT !.m_setup = TRUE, !.m_ssrc = s, !.m_seq = seq,
               !.m_map_ssrc = [@ EXCEPT ![s] = Own]]

FindByRtp(inst, a) == inst.m_map_rtp_addr[a]

FindByRtcp(inst, a) == inst.m_map_rtcp_addr[a]

\* Mutant: the two addresses swapped
AddFFSwapped(inst, f, rtp, rtcp) ==
  [inst EXCEPT !.m_map_rtp_addr  = [@ EXCEPT ![rtcp] = f],
               !.m_map_rtcp_addr = [@ EXCEPT ![rtp] = f]]

\* operator[] of both maps: an entry of another stream at the same address
\* is overwritten.
AddFF(inst, f, rtp, rtcp) ==
  [inst EXCEPT !.m_map_rtp_addr  = [@ EXCEPT ![rtp] = f],
               !.m_map_rtcp_addr = [@ EXCEPT ![rtcp] = f]]

\* Streams in no list (hlistUnhashed)
Unhashed(inst, S) ==
  {f \in S : f \notin inst.m_player_list \union inst.m_publisher_list}

\* Mutant: a listed stream is moved to the list of its new role
ActivateFFMoves(inst, S, is_publisher) ==
  [inst EXCEPT !.m_publisher_list = IF is_publisher THEN @ \union S ELSE @ \ S,
               !.m_player_list = IF is_publisher THEN @ \ S ELSE @ \union S]

\* RtpInstMng::activateFF for each stream of S, whose flag was just set to
\* is_publisher: a stream already in a list stays in that list.
ActivateFF(inst, S, is_publisher) ==
  IF is_publisher
  THEN [inst EXCEPT !.m_publisher_list = @ \union Unhashed(inst, S)]
  ELSE [inst EXCEPT !.m_player_list = @ \union Unhashed(inst, S)]

\* Mutant: m_map_rtcp_addr is not cleaned up
RemoveFFKeepsRtcp(inst, ff, S) ==
  [inst EXCEPT
     !.m_player_list    = @ \ S,
     !.m_publisher_list = @ \ S,
     !.m_map_rtp_addr   = [a \in Addr |->
         IF \E f \in S : ff[f].m_rtp = a THEN NoFF ELSE @[a]],
     !.m_map_ssrc       = [s \in Ssrc |->
         IF \E f \in S : ff[f].m_ssrc = s THEN NoFF ELSE @[s]]]

\* Mutant: the streams are not unlinked
RemoveFFLinked(inst, ff, S) ==
  [inst EXCEPT
     !.m_map_rtp_addr   = [a \in Addr |->
         IF \E f \in S : ff[f].m_rtp = a THEN NoFF ELSE @[a]],
     !.m_map_rtcp_addr  = [a \in Addr |->
         IF \E f \in S : ff[f].m_rtcp = a THEN NoFF ELSE @[a]],
     !.m_map_ssrc       = [s \in Ssrc |->
         IF \E f \in S : ff[f].m_ssrc = s THEN NoFF ELSE @[s]]]

\* RtpInstMng::removeFF for each stream of S: unlinked, and the entries under
\* its two addresses and its SSRC erased, whoever they belong to.
RemoveFF(inst, ff, S) ==
  [inst EXCEPT
     !.m_player_list    = @ \ S,
     !.m_publisher_list = @ \ S,
     !.m_map_rtp_addr   = [a \in Addr |->
         IF \E f \in S : ff[f].m_rtp = a THEN NoFF ELSE @[a]],
     !.m_map_rtcp_addr  = [a \in Addr |->
         IF \E f \in S : ff[f].m_rtcp = a THEN NoFF ELSE @[a]],
     !.m_map_ssrc       = [s \in Ssrc |->
         IF \E f \in S : ff[f].m_ssrc = s THEN NoFF ELSE @[s]]]

\* Mutant: conflicts are not looked for
ValidSsrcAlways(inst, ff, f, s) == TRUE

\* The result of RtpCenter::validSsrc: FALSE when s is another holder's.
ValidSsrc(inst, ff, f, s) == ff[f].m_ssrc = s \/ ~ExistAddr(inst, s)

\* Mutant: the old SSRC stays registered
ClaimSsrcKeepsOld(inst, ff, f, s) ==
  IF ff[f].m_ssrc = s THEN inst
  ELSE [inst EXCEPT !.m_map_ssrc = [@ EXCEPT ![s] = f]]

\* Mutant: the new SSRC is not registered
ClaimSsrcUnregistered(inst, ff, f, s) ==
  IF ff[f].m_ssrc = s THEN inst
  ELSE [inst EXCEPT !.m_map_ssrc =
          [x \in Ssrc |-> IF x = ff[f].m_ssrc /\ x > 0 THEN NoFF ELSE @[x]]]

\* The instance after a validSsrc that returned TRUE: a stream that changes
\* its SSRC gives up the old one (unless 0) and registers the new one.
ClaimSsrc(inst, ff, f, s) ==
  IF ff[f].m_ssrc = s THEN inst
  ELSE [inst EXCEPT !.m_map_ssrc =
          [x \in Ssrc |-> IF x = s THEN f
                          ELSE IF x = ff[f].m_ssrc /\ x > 0 THEN NoFF
                          ELSE @[x]]]

\* Mutant: no wrap-around
NextSeqUnbounded(inst) == inst.m_seq + 1

\* The sequence number of the next packet the instance sends
NextSeq(inst) == (inst.m_seq + 1) % SeqMod

\* RtpInstMng::delSsrc for each SSRC of B
DelSsrc(inst, B) ==
  [inst EXCEPT !.m_map_ssrc = [s \in Ssrc |-> IF s \in B THEN NoFF ELSE @[s]]]
===============================================================================
