-------------------------------- MODULE RtpInst -------------------------------
(***************************************************************************)
(* One media instance of the RTSP server and the streams set up on it: who *)
(* may send it media, who receives it, and how the UDP sources and the     *)
(* SSRCs of the streams are told apart.                                    *)
(*                                                                         *)
(* RTSP requests arrive over TCP, media and RTCP over two UDP sockets; the *)
(* frame library runs every handler on one processing thread, so that a    *)
(* handler is one atomic step and any order of handlers is possible.       *)
(* Clients are arbitrary: any datagram may come from any address with any  *)
(* SSRC, any number of times, late or never, so that loss, duplication and *)
(* reordering of datagrams need no state of their own.                     *)
(***************************************************************************)
EXTENDS RtpInstOps

CONSTANT
  NoSeq  \* "nothing received yet" in the history variable last

ASSUME InstAssumption == NoSeq \notin Nat

VARIABLES
  inst,       \* the InstStream
  ff,         \* the stream slots (FFStream) used on this instance
  last,       \* history: the last sequence number sent to each stream
  forgotten   \* history: SSRCs that a BYE unregistered while in use

vars == <<inst, ff, last, forgotten>>

-------------------------------------------------------------------------------
Live == {f \in FF : ff[f].m_setup}

InUse(s) == (inst.m_setup /\ inst.m_ssrc = s) \/ \E f \in Live : ff[f].m_ssrc = s

Init ==
  /\ inst = CreatInst
  /\ ff = [f \in FF |-> FreshFF]
  /\ last = [f \in FF |-> NoSeq]
  /\ forgotten = {}

-------------------------------------------------------------------------------
\* ANNOUNCE of the group of this instance
Announce(s, seq) ==
  /\ ~inst.m_setup
  /\ s # 0 /\ ~ExistAddr(inst, s)
  /\ inst' = SetupInst(inst, s, seq)
  /\ UNCHANGED <<ff, last, forgotten>>

\* SETUP that reaches RtspRes::setupFF, on the next slot of its session
Setup(f, rtp, rtcp) ==
  /\ ~ff[f].used
  /\ inst.m_setup
  /\ ff' = [ff EXCEPT ![f] = SetupFF(rtp, rtcp)]
  /\ inst' = AddFF(inst, f, rtp, rtcp)
  /\ UNCHANGED <<last, forgotten>>

\* PLAY (is_publisher FALSE) or RECORD (TRUE) that matches the streams S of
\* its session on this instance
Activate(S, is_publisher) ==
  /\ S # {} /\ S \subseteq Live
  /\ ff' = [f \in FF |-> IF f \in S
                         THEN [ff[f] EXCEPT !.m_is_publisher = is_publisher]
                         ELSE ff[f]]
  /\ inst' = ActivateFF(inst, S, is_publisher)
  /\ UNCHANGED <<last, forgotten>>

\* TEARDOWN that matches the streams S of its session on this instance
Teardown(S) ==
  /\ S # {} /\ S \subseteq Live
  /\ inst' = RemoveFF(inst, ff, S)
  /\ ff' = [f \in FF |-> IF f \in S THEN [ff[f] EXCEPT !.m_setup = FALSE]
                         ELSE ff[f]]
  /\ UNCHANGED <<last, forgotten>>

\* procRtp of a packet from address a with SSRC s; inSeq is the verdict of
\* validSeq on the packet's sequence number.  An accepted packet is sent to
\* every player under the next sequence number of the instance.  A packet
\* from an unregistered address, from a stream that is not a publisher, or
\* with the SSRC of another holder is dropped without a trace.
ProcRtp(a, s, inSeq) ==
  LET f    == FindByRtp(inst, a)
      next == NextSeq(inst)
  IN /\ f # NoFF
     /\ ff[f].m_is_publisher
     /\ ValidSsrc(inst, ff, f, s)
     /\ ff' = [ff EXCEPT ![f].m_ssrc = s]
     /\ inst' = [ClaimSsrc(inst, ff, f, s) EXCEPT
                   !.m_seq = IF inSeq THEN next ELSE @]
     /\ last' = [g \in FF |-> IF inSeq /\ g \in inst.m_player_list
                              THEN next ELSE last[g]]
     /\ UNCHANGED forgotten

\* procRtcp of a datagram from address a: a report (SR or RR) of SSRC s, then
\* a BYE for every SSRC of B.  The result of each packet is ignored: a BYE is
\* obeyed even after a report that validSsrc refused.  Any other sequence of
\* reports and BYEs has the effect of several such datagrams; SDES and APP
\* packets touch none of this state.
ProcRtcp(a, s, B) ==
  LET f     == FindByRtcp(inst, a)
      valid == ValidSsrc(inst, ff, f, s)
      inst1 == IF valid THEN ClaimSsrc(inst, ff, f, s) ELSE inst
  IN /\ f # NoFF
     /\ ff' = IF valid THEN [ff EXCEPT ![f].m_ssrc = s] ELSE ff
     /\ inst' = DelSsrc(inst1, B)
     /\ forgotten' = forgotten \union {x \in B : InUse(x)'}
     /\ UNCHANGED last

Next ==
  \/ \E s \in Ssrc, seq \in 0 .. SeqMod - 1 : Announce(s, seq)
  \/ \E f \in FF, rtp, rtcp \in Addr : Setup(f, rtp, rtcp)
  \/ \E S \in SUBSET FF, is_publisher \in BOOLEAN : Activate(S, is_publisher)
  \/ \E S \in SUBSET FF : Teardown(S)
  \/ \E a \in Addr, s \in Ssrc, inSeq \in BOOLEAN : ProcRtp(a, s, inSeq)
  \/ \E a \in Addr, s \in Ssrc, B \in SUBSET Ssrc : ProcRtcp(a, s, B)

Spec == Init /\ [][Next]_vars

-------------------------------------------------------------------------------
\* The type of the state: the shape of InstStream and of every FFStream.
TypeOK ==
  /\ inst \in InstStream
  /\ ff \in [FF -> FFStream]
  /\ last \in [FF -> (0 .. SeqMod - 1) \union {NoSeq}]
  /\ forgotten \subseteq Ssrc

\* findByRtp and findByRtcp only return streams that are still set up, under
\* their own address.  procRtp and procRtcp follow ff->m_inst, which delFF
\* has nulled in a torn-down stream, so a stale entry would crash the server.
RegistrySound == \A a \in Addr :
  /\ LET f == inst.m_map_rtp_addr[a]
     IN f # NoFF => f \in Live /\ ff[f].m_rtp = a
  /\ LET f == inst.m_map_rtcp_addr[a]
     IN f # NoFF => f \in Live /\ ff[f].m_rtcp = a

\* A stream that is set up is found at its addresses, unless some slot, live
\* or torn down, was set up with the same address (operator[] overwrites, and
\* a TEARDOWN erases by address).
FoundUnlessShared == \A f \in Live :
  /\ (\A g \in FF \ {f} : ff[g].used => ff[g].m_rtp # ff[f].m_rtp)
       => FindByRtp(inst, ff[f].m_rtp) = f
  /\ (\A g \in FF \ {f} : ff[g].used => ff[g].m_rtcp # ff[f].m_rtcp)
       => FindByRtcp(inst, ff[f].m_rtcp) = f

\* publishRtp walks the player list: it holds set-up streams only, and the
\* one list node of a stream is in one list at most.
ListsSound ==
  /\ inst.m_player_list \union inst.m_publisher_list \subseteq Live
  /\ inst.m_player_list \intersect inst.m_publisher_list = {}

\* Every SSRC in the map but 0 has a holder that still uses it: no SSRC stays
\* reserved after its stream moved to another one or was torn down.
HolderUsesIt == \A s \in Ssrc \ {0} :
  LET h == inst.m_map_ssrc[s]
  IN /\ h \in FF  => h \in Live /\ ff[h].m_ssrc = s
     /\ h = Own => inst.m_ssrc = s

\* No two live streams have the same SSRC, and none has the instance's: the
\* conflict that validSsrc (rtpcenter.cpp) refuses.
UniqueSsrc == \A f \in Live :
  ff[f].m_ssrc # 0 =>
    /\ \A g \in Live \ {f} : ff[g].m_ssrc # ff[f].m_ssrc
    /\ ff[f].m_ssrc # inst.m_ssrc

\* A conflict of SSRCs needs a BYE that named the SSRC while it was in use.
ConflictOnlyAfterBye == \A f \in Live :
  ff[f].m_ssrc \notin forgotten \union {0} =>
    /\ \A g \in Live \ {f} : ff[g].m_ssrc # ff[f].m_ssrc
    /\ ff[f].m_ssrc # inst.m_ssrc

\* A player that has received anything has received the newest packet of the
\* instance: from its first packet on, it misses none, and sees consecutive
\* sequence numbers whoever publishes and whatever is dropped on the way in.
PlayersUpToDate == \A f \in inst.m_player_list :
  last[f] # NoSeq => last[f] = inst.m_seq

-------------------------------------------------------------------------------
\* A stream stays in the list it was first put in until its TEARDOWN: no PLAY
\* or RECORD of it, no datagram and nothing done to another stream moves it.
RoleSticks == [][\A f \in Live' :
  /\ f \in inst.m_player_list => f \in inst'.m_player_list
  /\ f \in inst.m_publisher_list => f \in inst'.m_publisher_list]_vars

\* Media goes out only on behalf of a live publisher whose SSRC is registered,
\* or was unregistered by a BYE, or is the 0 a stream starts with.
MediaIsVouchedFor == [][inst.m_setup /\ inst'.m_seq # inst.m_seq =>
  \E f \in Live :
    /\ ff[f].m_is_publisher
    /\ inst'.m_map_ssrc[ff'[f].m_ssrc] = f \/ ff'[f].m_ssrc \in forgotten \union {0}]_vars

-------------------------------------------------------------------------------
(* The inductive invariant: the properties above and what they rest on.     *)

\* Only a set-up instance has streams, and only a used slot is a stream.
OnlyWhenSetup ==
  /\ ~inst.m_setup => inst.m_ssrc = 0
  /\ \A f \in FF :
       /\ ff[f].m_setup => ff[f].used
       /\ ff[f].used => ff[f].m_rtp \in Addr /\ ff[f].m_rtcp \in Addr
       /\ ff[f].used => inst.m_setup

\* Every SSRC in use is registered for its user, unless a BYE unregistered it
\* while it was in use: with that, the lookup in validSsrc detects conflicts.
RegisteredUnlessForgotten == \A s \in Ssrc \ ({0} \union forgotten) :
  /\ \A f \in Live : ff[f].m_ssrc = s => inst.m_map_ssrc[s] = f
  /\ inst.m_setup /\ inst.m_ssrc = s => inst.m_map_ssrc[s] = Own

\* History of a stream that is no player
NothingSentYet == \A f \in FF :
  f \notin inst.m_player_list => last[f] = NoSeq \/ (ff[f].used /\ f \notin Live)

\* All of it at once: no handler breaks any part while the others hold.
IInv ==
  /\ TypeOK
  /\ OnlyWhenSetup
  /\ RegistrySound
  /\ FoundUnlessShared
  /\ ListsSound
  /\ HolderUsesIt
  /\ RegisteredUnlessForgotten
  /\ PlayersUpToDate
  /\ NothingSentYet
===============================================================================
