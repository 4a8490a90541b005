-------------------------------- MODULE Utf8 --------------------------------
(***************************************************************************)
(* UTF-8 in utf8.c: the encoder; the decoder of a buffer; and the decoder  *)
(* of a stream, which asks for one byte at a time and keeps those it may   *)
(* have to go back to in a ring.  Bytes and characters are numbers, and a  *)
(* byte that is not part of a character is one of the characters from      *)
(* U+DC00 on, as is the null byte.                                         *)
(***************************************************************************)
EXTENDS Integers, Sequences

Eof       == -1     \* EOF and WEOF
Stray(b)  == 56320 + b
IsStray(c) == c \div 256 = 220
Ring      == 8

\* utf8_to_buf and utf8_encode
Follows(c, shift) == 128 + ((c \div shift) % 64)
Encode(c) ==
  CASE c < 128              -> <<c>>
    [] c \in 128..2047      -> <<192 + (c \div 64), Follows(c, 1)>>
    [] IsStray(c)           -> <<c % 256>>
    [] c \in 2048..65535 /\ ~IsStray(c) -> <<224 + (c \div 4096), Follows(c, 64), Follows(c, 1)>>
    [] c \in 65536..1114111 -> <<240 + (c \div 262144), Follows(c, 4096), Follows(c, 64), Follows(c, 1)>>

RECURSIVE ToBuf(_)
ToBuf(chars) == IF chars = <<>> THEN <<>> ELSE Encode(Head(chars)) \o ToBuf(Tail(chars))

-----------------------------------------------------------------------------
(* What a byte means at the start of a character: how many are to follow,  *)
(* with which bits it begins, and the least character of that length.      *)

Start(more, bits, least) == [more |-> more, wch |-> bits, least |-> least]

Lead(b) ==
  CASE b < 128        -> Start(0, IF b = 0 THEN Stray(0) ELSE b, 0)
    [] b \in 192..223 -> Start(1, b % 32, 128)
    [] b \in 224..239 -> Start(2, b % 16, 2048)
    [] b \in 240..244 -> Start(3, b % 8, 65536)
    [] b \in 128..191 \/ b > 244 -> Start(0, Stray(b), 0)

IsFollow(b) == b \in 128..191
Longer(p, b) == [p EXCEPT !.more = @ - 1, !.wch = (@ * 64) + (b % 64)]

\* What the decoders refuse when all the bytes are there.
Refused(p) == p.wch < p.least \/ IsStray(p.wch) \/ p.wch > 1114111

\* utf8_from_buf: src is at i, p is what has been read from back on.
RECURSIVE FromBufAt(_, _, _, _)
FromBufAt(src, i, p, back) ==
  LET b     == src[i]
      again == <<Stray(src[back])>> \o FromBufAt(src, back + 1, Start(0, 0, 0), back + 1)
      new   == IF p.more = 0 THEN Lead(b) ELSE Longer(p, b)
      from  == IF p.more = 0 THEN i ELSE back
  IN
  CASE i > Len(src) -> IF p.more = 0 THEN <<>>
                       ELSE [k \in 1..(Len(src) - back + 1) |-> Stray(src[back + k - 1])]
    [] i <= Len(src) /\ p.more > 0 /\ (~IsFollow(b) \/ (new.more = 0 /\ Refused(new))) -> again
    [] i <= Len(src) /\ (p.more > 0 => IsFollow(b) /\ (new.more = 0 => ~Refused(new))) ->
         (IF new.more = 0 THEN <<new.wch>> ELSE <<>>) \o FromBufAt(src, i + 1, new, from)

FromBuf(src) == FromBufAt(src, 1, Start(0, 0, 0), 1)

-----------------------------------------------------------------------------
(* utf8_decode.  The bytes of buf from tail up to head have been asked for *)
(* and are to be looked at again; those from back on are of the character  *)
(* that is being read.                                                     *)

DecoderInit ==
  [part |-> Start(0, 0, 0), buf |-> [k \in 0..(Ring - 1) |-> 0], head |-> 0, tail |-> 0, back |-> 0]

Next_(k) == (k + 1) % Ring

\* A character was read: nothing before tail is needed any more.
Settled_Not(d) == d
Settled(d) == [d EXCEPT !.back = d.tail]

\* It was none: its first byte is a character of its own, and the others are read again.
GoBack(d) == [d EXCEPT !.part.more = 0, !.back = Next_(d.back), !.tail = Next_(d.back)]
FirstByte(d) == IF d.buf[d.back] = Eof THEN Eof ELSE Stray(d.buf[d.back])

Decoded(d, rest, ch) == [d |-> d, rest |-> rest, ch |-> ch]

\* One call: the decoder after it, what is left of the input and the character.  The input
\* is a sequence of bytes and of Eof, for a stream whose end may be seen and then move on.
RECURSIVE Decode(_, _)
Decode(d, input) ==
  LET ringed == d.tail # d.head
      ch   == IF ringed THEN d.buf[d.tail] ELSE IF input = <<>> THEN Eof ELSE Head(input)
      rest == IF ringed \/ input = <<>> THEN input ELSE Tail(input)
      got  == IF ringed THEN [d EXCEPT !.tail = Next_(d.tail)]
              ELSE [d EXCEPT !.buf[d.head] = ch, !.head = Next_(d.head), !.tail = Next_(d.head)]
      new  == IF d.part.more = 0 THEN Lead(ch) ELSE Longer(d.part, ch)
      read == [got EXCEPT !.part = new]
  IN
  CASE ch = Eof /\ d.part.more = 0 -> Decoded(got, rest, Eof)
    [] d.part.more > 0 /\ (~IsFollow(ch) \/ (new.more = 0 /\ Refused(new))) ->
         Decoded(GoBack(got), rest, FirstByte(got))
    [] ch # Eof /\ (d.part.more > 0 => IsFollow(ch)) /\ new.more > 0 -> Decode(read, rest)
    [] ch # Eof /\ (d.part.more > 0 => IsFollow(ch) /\ ~Refused(new)) /\ new.more = 0 ->
         Decoded(Settled(read), rest, new.wch)

\* All the characters of the input, to the end that follows the last byte.
RECURSIVE DecodeFrom(_, _)
DecodeFrom(d, input) ==
  LET one == Decode(d, input) IN
  IF one.ch = Eof /\ one.rest = <<>> /\ input = <<>> THEN <<>>
  ELSE <<one.ch>> \o DecodeFrom(one.d, one.rest)

DecodeAll(input) == DecodeFrom(DecoderInit, input)
=============================================================================
