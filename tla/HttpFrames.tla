----------------------------- MODULE HttpFrames -----------------------------
(***************************************************************************)
(* What HttpTool::parseData promises to its owner, HttpCenter: the frames  *)
(* of the messages come out once each, in order and numbered, none before  *)
(* its bytes are there, however the network cuts the bytes.                *)
(***************************************************************************)
EXTENDS HttpStream

VARIABLES plan,      \* the traffic of the connection
          received,  \* how much of it has arrived
          frames,    \* the frames dispatched
          broken     \* why the connection was given up, or "no"

vars == <<plan, received, frames, broken>>

Init ==
  /\ plan \in Plans
  /\ received = 0
  /\ frames = <<>>
  /\ broken = "no"

Receive ==
  /\ broken = "no"
  /\ \E n \in received + 1 .. Len(plan.chars) : received' = n
  /\ UNCHANGED <<plan, frames, broken>>

Deliver ==
  /\ broken = "no"
  /\ Len(frames) < Len(plan.owed)
  /\ plan.owed[Len(frames) + 1].need <= received
  /\ frames' = Append(frames, Frame(plan, Len(frames) + 1))
  /\ UNCHANGED <<plan, received, broken>>

\* The parser gives up when a resource fails or when a message is malformed
\* or at a limit.
Break ==
  /\ broken = "no"
  /\ \/ broken' = "resource"
     \/ broken' = "input" /\ received > plan.safe
  /\ UNCHANGED <<plan, received, frames>>

Next == Receive \/ Deliver \/ Break

\* Nothing whose bytes are there is outstanding.
Settled ==
  \/ broken # "no"
  \/ \A k \in DOMAIN plan.owed : plan.owed[k].need <= received => k <= Len(frames)

\* No frame waits forever.
Spec == Init /\ [][Next]_vars /\ []<>Settled
=============================================================================
