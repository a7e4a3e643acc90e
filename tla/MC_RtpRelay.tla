----------------------------- MODULE MC_RtpRelay -----------------------------
EXTENDS RtpRelay

Server == <<9, 9, 9, 9>>
Peer == <<0, 1, 2, 3>>
Text(n) == [i \in 1 .. n |-> 65]
Name(n) == Chunk(Peer, <<Item(CNAME, Text(n))>>)
Sdes(chunks) == Packet(SDES, chunks)

Reports == {Packet(pt, [ssrc |-> Peer, reports |-> r]) : pt \in {SR, RR},
              r \in {<<>>, <<Report(Server, 0)>>,
                     <<Report(Server, 1), Report(Peer, 2 ^ 23 - 1)>>}}
Names == {Sdes(<<Name(n)>>) : n \in 0 .. 4}
         \cup {Sdes(<<>>), Sdes(<<Name(2), Name(3)>>), Sdes(<<Chunk(Peer, <<>>)>>),
               Sdes(<<Chunk(Peer, <<Item(CNAME, Text(1)), Item(8, <<>>), Item(2, Text(1))>>)>>)}
Byes == {Packet(BYE, [srcs |-> s, reason |-> r]) : s \in {<<>>, <<Peer>>, <<Peer, Server>>},
           r \in {<<>>, Text(2)}}
Others == {Packet(APP, [ssrc |-> Peer]), Packet(210, <<>>)}

MCPackets == Reports \cup Names \cup Byes \cup Others
\* The server's names are the sixteen digits of genSess.
MCCNames == {<<>>, Text(16)}
MCLost == {0, 300, 2 ^ 23 - 1}

MCMedia ==
  [marker : {0, 1}, pt : {0, 65, 72, 96, 127}, cc : {0, 1, 15}, ext : {-1, 0, 2},
   payload : {<<>>, <<7>>, <<1, 0, 7>>}, pad : {0, 1, 4}]
=============================================================================
