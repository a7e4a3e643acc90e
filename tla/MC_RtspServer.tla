---------------------------- MODULE MC_RtspServer -----------------------------
(* Model-checking instance of RtspServer.  Every request of two sessions and   *)
(* every datagram with three slots each is too much, so that a behaviour       *)
(* commits itself to one of two bounds, Sessions or Slots, once a group is     *)
(* registered.                                                                 *)
EXTENDS RtspServer, FiniteSets, TLC

CONSTANTS s1, s2, cam, sub, CAM

MCFF == Sid \X (1 .. MAX_STREAMS_CNT)

\* CAM is cam in upper case.
MCPath == {<<cam>>, <<cam, sub>>, <<CAM, sub>>}
MCLower == [n \in {cam, sub, CAM} |-> IF n = CAM THEN cam ELSE n]

\* A group with one media, and one with two: "sub" and one without a path of
\* its own.
MediaOne == << <<sub>> >>
MediaTwo == << <<sub>>, <<cam>> >>
MCMediaList == {MediaOne, MediaTwo}

\* The groups that are registered.
Groups == {p \in Path : m_datas[p] # <<>>}

\* A slot for each session, a group and, with the path of its first media,
\* another one.
Sessions ==
  /\ \A s \in Sid : m_stream_cnt[s] <= 1
  /\ \A p \in Groups : p \in {<<cam>>, <<cam, sub>>} /\ m_datas[p] = MediaOne

\* All slots of one session, and groups of two media with every path.
Slots ==
  /\ Cardinality(m_sess) <= 1
  /\ \A p \in Groups : m_datas[p] = MediaTwo

MCNext == (Next /\ Sessions') \/ (Request /\ Slots')

MCSpec == Init /\ [][MCNext]_vars

Symmetry == Permutations(Sid)
===============================================================================
