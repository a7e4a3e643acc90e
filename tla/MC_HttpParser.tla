---------------------------- MODULE MC_HttpParser ----------------------------
EXTENDS HttpParser

\* Lines, heads and bodies as a peer writes them.
Line(text) == text \o <<CR, LF>>
Field(type, n) == Line(<<Char(type, n)>>)
Cmd == Field("cmd", 0)
Plain == Field("field", 0)
Data(n) == [k \in 1 .. n |-> Char("data", k)]
Chunk(n) == Field("hex", n) \o Data(n) \o <<CR, LF>>
End == Field("hex", 0) \o <<CR, LF>>
Msg(kind, head, body) ==
  [kind |-> kind, chars |-> Cmd \o head \o <<CR, LF>> \o body]
Chunks(kind, body) == Msg(kind, Field("chunked", 0), body)

Good == {
  Msg("good", Plain, <<>>),
  Msg("good", Field("length", 3) \o Plain, Data(3)),
  Msg("good", Field("length", 2), Data(2)),
  Msg("good", Field("length", 0), <<>>),
  Msg("good", Field("length", 1) \o Field("chunked", 0), Data(1)),
  Chunks("good", Chunk(1) \o Chunk(2) \o End),
  Chunks("good", Chunk(2) \o Chunk(1) \o End),
  Chunks("good", Chunk(5) \o End),
  Chunks("good", End) }

\* A head of MAX_HEAD_SIZE - 1 before the empty line: refused if a fragment
\* ends between the CR and the LF of that line.
Limit == {Msg("limit", Plain \o Line(<<Char("field", 0), Char("pad", 0), Char("pad", 0),
                         Char("pad", 0)>>), <<>>)}

Bad == {
  Msg("bad", <<Char("field", 0), LF>>, <<>>),
  Msg("bad", Cmd, <<>>),
  Msg("bad", Field("length", -1), <<>>),
  Msg("bad", Field("length", 8), Data(2)),
  Msg("bad", Plain \o Plain \o Plain, <<>>),
  Msg("bad", Line([k \in 1 .. 8 |-> Char(IF k = 1 THEN "field" ELSE "pad", 0)]), <<>>),
  [kind |-> "bad", chars |-> <<CR, LF>>],
  Chunks("bad", Field("pad", 0) \o Data(1)),
  Chunks("bad", Line([k \in 1 .. 3 |-> Char("pad", 0)])),
  Chunks("bad", Chunk(2) \o Field("hex", 3) \o Data(3) \o Data(1)),
  Chunks("bad", Chunk(1) \o Field("hex", 7) \o Data(2)),
  Chunks("bad", Chunk(1) \o Field("hex", 15) \o Data(2)),
  Chunks("bad", Field("hex", 0) \o Cmd) }

Every == Good \cup Limit \cup Bad
\* A second message follows the ones that leave most behind in the context.
First ==
  Limit \cup {Msg("good", Field("length", 3) \o Plain, Data(3)),
             Chunks("good", Chunk(2) \o Chunk(1) \o End)}
MCPlans == {Plan(<<m>>) : m \in Every} \cup {Plan(<<m, n>>) : m \in First, n \in Every}
=============================================================================
