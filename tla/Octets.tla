------------------------------- MODULE Octets -------------------------------
(***************************************************************************)
(* Encoder and Decoder: fields are appended to a buffer of a fixed size,   *)
(* and taken off a datagram.  Data are sequences of octets, most           *)
(* significant first.  A field of 32 bits is kept as its four octets,      *)
(* because nothing here calculates with one.                               *)
(***************************************************************************)
EXTENDS Integers, SequencesExt

Octet == 0 .. 2 ^ 8 - 1
Word == 0 .. 2 ^ 16 - 1

\* The n octets of a number, which may be negative, and two octets back.
OctetsOf(v, n) == [i \in 1 .. n |-> (v \div 256 ^ (n - i)) % 256]
Num(octets) == 256 * octets[1] + octets[2]
\* parseByte<int_32, 24> extends the sign.
Int24(octets) == LET u == 256 * Num(octets) + octets[3] IN IF u < 2 ^ 23 THEN u ELSE u - 2 ^ 24
Zeros(n) == [i \in 1 .. n |-> 0]

\* The bits of an octet so far, from the highest on, with a field of some width;
\* and the value of the bits from lo up in one.
GenBit(u, width, v) == u * 2 ^ width + (v % 2 ^ width)
ParseBit(octet, lo, width) == (octet \div 2 ^ lo) % 2 ^ width

\* An encoder; ok falls with the first field that does not fit.
Encoder(size) == [data |-> <<>>, size |-> size, ok |-> TRUE]
MakeSpace(e, n) == Len(e.data) + n <= e.size
Gen(e, octets) ==
  IF e.ok /\ MakeSpace(e, Len(octets))
  THEN [e EXCEPT !.data = @ \o octets] ELSE [e EXCEPT !.ok = FALSE]
GenStrU8(e, octets) ==
  IF Len(octets) <= 255 THEN Gen(Gen(e, <<Len(octets)>>), octets)
                        ELSE [e EXCEPT !.ok = FALSE]
\* write<uint_16, 16> overwrites two octets; offset is counted from zero.
WriteU16(e, v, offset) ==
  IF offset + 2 <= Len(e.data)
  THEN [e EXCEPT !.data[offset + 1] = (v \div 256) % 256, !.data[offset + 2] = v % 256]
  ELSE [e EXCEPT !.ok = FALSE]

\* Decoding: whether n octets are left when upto were taken, and which.
Left(data, upto, n) == upto + n <= Len(data)
Field(data, upto, n) == SubSeq(data, upto + 1, upto + n)
=============================================================================
