------------------------------ MODULE MediaPorts ------------------------------
(***************************************************************************)
(* RtspRes::addGrp (encoding/rtspres.cpp) with the sockets it opens: each  *)
(* media of a group that is announced gets two of them, on a pair of ports *)
(* from the pool of PortPool.  bindInst takes one pair after the other     *)
(* until both of its ports can be opened; a pair that fails is not given   *)
(* back.                                                                   *)
(*                                                                         *)
(* One request is handled at a time; its steps are those of PortPool and   *)
(* the calls of the socket library, which fail whenever they like.  The    *)
(* SDP was parsed before: if that fails, nothing was taken yet.  bindInst  *)
(* itself never fails: an exhausted pool keeps nextPort from returning     *)
(* (AlwaysReturns in PortPool), so that freeGrp has no socket to close.    *)
(***************************************************************************)
EXTENDS PortPool, Sequences, Functions

CONSTANTS
  Path,      \* paths of groups
  NoPath,    \* the empty one
  MaxMedia,  \* the most media of a group: MAX_SDP_MEDIA_CNT
  Usable     \* the ports that are UDP ports, below 2^16

ASSUME MediaPortsAssumption ==
  /\ NoPath \in Path
  /\ MaxMedia \in Nat \ {0}

VARIABLES
  grp,      \* the group under construction
  stage,    \* "none"; "next": bindInst wants a port; "rtp", "rtcp": it opens one
  port,     \* rtpPort in bindInst
  m_datas,  \* the groups registered
  lost,     \* the ports of groups that add has refused
  socks     \* open sockets, by their port

res == <<grp, stage, port, m_datas, lost, socks>>
allVars == <<vars, res>>

\* creatGrp: a group of cnt media, and the ports of those that are bound
Group(path, cnt) == [m_path |-> path, m_stream_cnt |-> cnt, bound |-> <<>>]
NoGroup == Group(NoPath, 0)

PortsInit ==
  /\ Init
  /\ grp = NoGroup
  /\ stage = "none"
  /\ port = 0
  /\ m_datas = [p \in Path |-> <<>>]
  /\ lost = {}
  /\ socks = {}

\* addGrp; a group that exists is answered at once.
AddGrp(path, cnt) ==
  /\ stage = "none"
  /\ m_datas[path] = <<>>
  /\ grp' = Group(path, cnt)
  /\ stage' = "next"
  /\ UNCHANGED <<vars, port, m_datas, lost, socks>>

CallNextPort ==
  /\ stage = "next"
  /\ NextPort
  /\ UNCHANGED res

\* nextPort goes on, or returns the port at its cursor.
ScanPort ==
  /\ Scan
  /\ IF pc' = "idle" THEN port' = Cursor /\ stage' = "rtp"
                     ELSE UNCHANGED <<port, stage>>
  /\ UNCHANGED <<grp, m_datas, lost, socks>>

\* openUdpName: what is open, or no UDP port, cannot be opened.
CanOpen(n) == n \in Usable /\ n \notin socks

OpenRtp ==
  /\ stage = "rtp"
  /\ \/ /\ CanOpen(port)
        /\ socks' = socks \union {port}
        /\ stage' = "rtcp"
     \/ /\ stage' = "next"
        /\ UNCHANGED socks
  /\ UNCHANGED <<vars, grp, port, m_datas, lost>>

\* add: a group with an empty path is refused, and nobody looks at the result.
Add(g) ==
  IF g.m_path = NoPath
  THEN lost' = lost \union Range(g.bound) /\ UNCHANGED m_datas
  ELSE m_datas' = [m_datas EXCEPT ![g.m_path] = g.bound] /\ UNCHANGED lost

\* The instance is bound; the loop of setupGrp goes on, or the group is added.
OpenRtcp ==
  /\ stage = "rtcp"
  /\ CanOpen(port + 1)
  /\ socks' = socks \union {port + 1}
  /\ LET g == [grp EXCEPT !.bound = Append(@, port)]
     IN IF Len(g.bound) < g.m_stream_cnt
        THEN grp' = g /\ stage' = "next" /\ UNCHANGED <<m_datas, lost>>
        ELSE grp' = NoGroup /\ stage' = "none" /\ Add(g)
  /\ UNCHANGED <<vars, port>>

\* Mutant: the first socket stays open
RtcpFailsOpen ==
  /\ stage = "rtcp"
  /\ stage' = "next"
  /\ UNCHANGED <<vars, grp, port, m_datas, lost, socks>>

\* The other port fails: closeSock(fd[0]), and on to the next pair.
RtcpFails ==
  /\ stage = "rtcp"
  /\ socks' = socks \ {port}
  /\ stage' = "next"
  /\ UNCHANGED <<vars, grp, port, m_datas, lost>>

BindInst == CallNextPort \/ ScanPort \/ OpenRtp \/ OpenRtcp \/ RtcpFails

PortsNext == BindInst \/ \E path \in Path, cnt \in 1 .. MaxMedia : AddGrp(path, cnt)

\* A handler waits for nothing.
PortsSpec == PortsInit /\ [][PortsNext]_allVars /\ WF_allVars(BindInst)
-------------------------------------------------------------------------------
\* Properties.

\* The RTP ports of the instances that are bound: of groups that are registered,
\* lost or under construction.
Registered == UNION {Range(m_datas[p]) : p \in Path}
Bound == Registered \union lost \union Range(grp.bound)

\* The ports of pairs, by their first ports
Ports(S) == UNION {{n, n + 1} : n \in S}

\* No two instances, of one group or of several, have the same ports.
OwnPorts ==
  /\ \A p \in Path : IsInjective(m_datas[p])
  /\ \A p, q \in Path : p # q => Range(m_datas[p]) \intersect Range(m_datas[q]) = {}
  /\ IsInjective(grp.bound)
  /\ lost \intersect Registered = {}
  /\ Range(grp.bound) \intersect (Registered \union lost) = {}

\* Every open socket belongs to one instance, or is the first of the pair that is
\* being tried: no attempt that failed leaves one open, and no port is used
\* twice, in spite of the pairs that overlap in the pool.
SocketsOwned ==
  /\ OwnPorts
  /\ socks = Ports(Bound) \union {n \in {port} : stage = "rtcp"}

\* Each ANNOUNCE is answered, however many ports fail, unless they fail until
\* the pool has none left.
AnnounceReturns ==
  stage # "none" ~> (stage = "none" \/ \A n \in Bit : n % 2 = 0 => ~Free(n))
===============================================================================
