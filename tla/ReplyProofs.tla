---------------------------- MODULE ReplyProofs -----------------------------
(***************************************************************************)
(* Proofs about a streamed chat reply (ChatStream, with HttpBody and Sse), *)
(* for every reply a peer may send, every cut of it into segments, every   *)
(* place where the peer stops and every size of the buffers.               *)
(*                                                                         *)
(* The argument follows the bytes.  What a wire says is read off it a      *)
(* token at a time (At, Says, Means): no buffer, no turn, no segment.  The *)
(* inductive invariant, StreamHolds, is that the client is always at ONE   *)
(* place of that reading: the connection has understood the wire up to     *)
(* Place and has given on the bytes it says up to there (Conn), the parser *)
(* is the one that has read just those (Listening), the answer is what the *)
(* events among them come to (Answer), and a stream that waits with an     *)
(* empty socket has been given all that has arrived.  Each loop of the     *)
(* code is shown to keep its part of this at every turn, and to stop: its  *)
(* turns are counted by what is left to read.                              *)
(***************************************************************************)
EXTENDS ChatStream, FiniteSetTheorems, SequenceTheorems, Counting, TLAPS

-----------------------------------------------------------------------------
(* Sequences and their pieces.                                              *)

(* A sequence, of whatever its elements are.                                *)
IsSeq(s) == s \in Seq(ToSet(s))

(* The tokens of s behind the a-th, up to the b-th.                         *)
Cut(s, a, b) == SubSeq(s, a + 1, b)

(* The piece from a to b lies in s.                                         *)
Within(s, a, b) == IsSeq(s) /\ a \in Nat /\ b \in Nat /\ a <= b /\ b <= Len(s)

(* A sequence is indexed from 1, and empty when its length is 0.            *)
LEMMA SeqHas ==
    ASSUME NEW s, IsSeq(s)
    PROVE  /\ Len(s) \in Nat /\ DOMAIN s = 1 .. Len(s) /\ s \in Seq(ToSet(s))
           /\ \A i \in 1 .. Len(s) : s[i] \in ToSet(s)
           /\ Len(s) = 0 <=> s = <<>>
  BY DEF IsSeq, ToSet

(* Two sequences with the same elements are the same.                       *)
LEMMA SameSeq ==
    ASSUME NEW A, NEW B, NEW s \in Seq(A), NEW t \in Seq(B), Len(s) = Len(t),
           \A i \in 1 .. Len(s) : s[i] = t[i]
    PROVE  s = t
  OBVIOUS

(* A sequence over any set is one over its own elements.                    *)
LEMMA SeqIs ==
    ASSUME NEW A, NEW s \in Seq(A)
    PROVE  IsSeq(s)
  <1>1. Len(s) \in Nat /\ s \in [1 .. Len(s) -> A] /\ DOMAIN s = 1 .. Len(s)
    OBVIOUS
  <1>2. s \in [1 .. Len(s) -> ToSet(s)]
    BY <1>1 DEF ToSet
  <1> QED
    BY <1>1, <1>2 DEF IsSeq

(* A piece of a sequence: its length and its elements.                      *)
LEMMA CutIs ==
    ASSUME NEW s, NEW a, NEW b, Within(s, a, b)
    PROVE  /\ IsSeq(Cut(s, a, b)) /\ Len(Cut(s, a, b)) = b - a
           /\ \A i \in 1 .. b - a : Cut(s, a, b)[i] = s[a + i]
           /\ Cut(s, a, b) \in Seq(ToSet(s))
           /\ a \in Nat /\ b \in Nat /\ Len(s) \in Nat /\ a <= b /\ b <= Len(s)
           /\ IsSeq(s) /\ b - a \in Nat
  <1>1. /\ a + 1 \in 1 .. Len(s) + 1 /\ b \in a + 1 - 1 .. Len(s) /\ b \in Nat
        /\ \A i \in a + 1 .. b : s[i] \in ToSet(s) /\ i \in 1 .. Len(s)
        /\ a \in Nat /\ Len(s) \in Nat /\ a <= b /\ b <= Len(s) /\ b - a \in Nat
    BY DEF IsSeq, ToSet, Within
  <1>2. /\ Cut(s, a, b) \in Seq(ToSet(s)) /\ Len(Cut(s, a, b)) = b - a
        /\ \A i \in 1 .. b - a : Cut(s, a, b)[i] = s[a + i]
    BY <1>1 DEF IsSeq, Cut, Within
  <1>3. IsSeq(Cut(s, a, b))
    BY <1>2, SeqIs
  <1> QED
    BY <1>1, <1>2, <1>3 DEF Within

(* The i-th token of a piece.                                               *)
LEMMA CutAt ==
    ASSUME NEW s, NEW a, NEW b, Within(s, a, b), NEW i \in 1 .. b - a
    PROVE  Cut(s, a, b)[i] = s[a + i]
  BY CutIs

(* A sequence with the elements of a piece is that piece.                   *)
LEMMA CutSame ==
    ASSUME NEW s, NEW a, NEW b, Within(s, a, b),
           NEW t, IsSeq(t), Len(t) = b - a, \A i \in 1 .. b - a : t[i] = s[a + i]
    PROVE  t = Cut(s, a, b)
  <1>1. /\ Cut(s, a, b) \in Seq(ToSet(s)) /\ Len(Cut(s, a, b)) = b - a
        /\ \A i \in 1 .. b - a : Cut(s, a, b)[i] = s[a + i]
    BY CutIs
  <1> QED
    BY <1>1, SameSeq DEF IsSeq

(* A piece is empty when it ends where it begins.                           *)
LEMMA CutEmpty ==
    ASSUME NEW s, NEW a, NEW b, Within(s, a, b)
    PROVE  Cut(s, a, b) = <<>> <=> a = b
  <1>1. IsSeq(Cut(s, a, b)) /\ Len(Cut(s, a, b)) = b - a /\ a \in Nat /\ b \in Nat
    BY CutIs
  <1>2. Cut(s, a, b) = <<>> <=> b - a = 0
    BY <1>1, SeqHas
  <1> QED
    BY <1>1, <1>2

(* Two pieces, the second from where the first ends, are one.               *)
LEMMA CutJoin ==
    ASSUME NEW s, NEW a, NEW b, NEW c, Within(s, a, b), Within(s, b, c)
    PROVE  Cut(s, a, b) \o Cut(s, b, c) = Cut(s, a, c) /\ Within(s, a, c)
  <1> DEFINE x == Cut(s, a, b)
             y == Cut(s, b, c)
             u == x \o y
  <1>0. /\ Within(s, a, c) /\ a \in Nat /\ b \in Nat /\ c \in Nat
        /\ (b - a) + (c - b) = c - a
    BY DEF Within
  <1>1. x \in Seq(ToSet(s)) /\ Len(x) = b - a
    BY CutIs
  <1>2. y \in Seq(ToSet(s)) /\ Len(y) = c - b
    BY CutIs
  <1>3. \A i \in 1 .. b - a : x[i] = s[a + i]
    BY CutIs
  <1>4. \A i \in 1 .. c - b : y[i] = s[b + i]
    BY CutIs
  <1> HIDE DEF x, y
  <1>5. /\ u \in Seq(ToSet(s)) /\ Len(u) = c - a
    BY <1>0, <1>1, <1>2, ConcatProperties
  <1>6. \A i \in 1 .. c - a : u[i] = IF i <= b - a THEN x[i] ELSE y[i - (b - a)]
    <2>1. \A i \in 1 .. Len(x) + Len(y) : u[i] = IF i <= Len(x) THEN x[i] ELSE y[i - Len(x)]
      BY <1>1, <1>2, ConcatProperties
    <2> HIDE DEF u
    <2> QED
      BY <1>0, <1>1, <1>2, <2>1
  <1>7. ASSUME NEW i \in 1 .. c - a PROVE u[i] = s[a + i]
    <2>1. CASE i <= b - a
      <3>1. i \in 1 .. b - a
        BY <1>0, <2>1
      <3> QED
        BY <1>3, <1>6, <2>1, <3>1
    <2>2. CASE ~(i <= b - a)
      <3>1. i - (b - a) \in 1 .. c - b /\ b + (i - (b - a)) = a + i
        BY <1>0, <2>2
      <3> QED
        BY <1>4, <1>6, <2>2, <3>1
    <2> QED
      BY <2>1, <2>2
  <1> HIDE DEF u
  <1>8. u = Cut(s, a, c)
    BY <1>0, <1>5, <1>7, SeqIs, CutSame
  <1> QED
    BY <1>0, <1>8 DEF x, y, u

(* A piece of a piece is a piece.                                           *)
LEMMA CutCut ==
    ASSUME NEW s, NEW a, NEW b, Within(s, a, b),
           NEW d \in Nat, NEW e \in Nat, d <= e, e <= b - a
    PROVE  /\ Cut(Cut(s, a, b), d, e) = Cut(s, a + d, a + e)
           /\ Within(s, a + d, a + e) /\ Within(s, a, a + d) /\ Within(s, a + d, b)
           /\ Within(s, a + e, b)
  <1> DEFINE x == Cut(s, a, b)
             v == Cut(x, d, e)
             a1 == a + d
             b1 == a + e
  <1>1. /\ IsSeq(x) /\ Len(x) = b - a
        /\ \A i \in 1 .. b - a : x[i] = s[a + i]
    BY CutIs
  <1>2. a \in Nat /\ b \in Nat /\ Len(s) \in Nat /\ a <= b /\ b <= Len(s) /\ IsSeq(s)
    BY CutIs
  <1>3. /\ Within(s, a1, b1) /\ Within(s, a, a1) /\ Within(s, a1, b) /\ Within(s, b1, b)
        /\ b1 - a1 = e - d
    BY <1>2 DEF Within
  <1> HIDE DEF x
  <1>4. Within(x, d, e)
    BY <1>1 DEF Within
  <1>5. IsSeq(v) /\ Len(v) = e - d
    BY <1>4, CutIs
  <1>d. \A i \in 1 .. e - d : v[i] = x[d + i]
    BY <1>4, CutAt
  <1> HIDE DEF v
  <1>6. ASSUME NEW i \in 1 .. b1 - a1 PROVE v[i] = s[a1 + i]
    <2>1. d + i \in 1 .. b - a /\ a + (d + i) = a1 + i /\ i \in 1 .. e - d
      BY <1>2, <1>3
    <2> QED
      BY <1>1, <1>d, <2>1
  <1> HIDE DEF a1, b1
  <1>7. v = Cut(s, a1, b1)
    BY <1>3, <1>5, <1>6, CutSame
  <1> QED
    BY <1>3, <1>7 DEF x, v, a1, b1

(* The first token of a piece, and the piece behind it.                     *)
LEMMA CutTail ==
    ASSUME NEW s, NEW a, NEW b, Within(s, a, b), a # b
    PROVE  /\ Head(Cut(s, a, b)) = s[a + 1] /\ Tail(Cut(s, a, b)) = Cut(s, a + 1, b)
           /\ Within(s, a + 1, b)
  <1>1. /\ Cut(s, a, b) \in Seq(ToSet(s)) /\ Len(Cut(s, a, b)) = b - a
        /\ a \in Nat /\ b \in Nat /\ Len(s) \in Nat /\ a <= b
    BY CutIs
  <1>2. \A i \in 1 .. b - a : Cut(s, a, b)[i] = s[a + i]
    BY CutIs
  <1>3. 1 \in 1 .. b - a /\ 1 <= b - a /\ b - a <= b - a /\ a + (b - a) = b /\ b - a \in Nat
    BY <1>1
  <1>4. Head(Cut(s, a, b)) = s[a + 1]
    BY <1>2, <1>3
  <1>5. Tail(Cut(s, a, b)) = Cut(Cut(s, a, b), 1, b - a)
    BY <1>1 DEF Cut
  <1>6. Cut(Cut(s, a, b), 1, b - a) = Cut(s, a + 1, a + (b - a)) /\ Within(s, a + 1, b)
    BY <1>3, CutCut
  <1> QED
    BY <1>3, <1>4, <1>5, <1>6

(* What is taken off the front of a piece, and what is left.                *)
LEMMA CutTaken ==
    ASSUME NEW s, NEW a, NEW b, Within(s, a, b), NEW n \in Nat
    PROVE  LET t == Least(n, b - a)
           IN /\ t \in Nat /\ t <= b - a
              /\ Within(s, a, a + t) /\ Within(s, a + t, b)
              /\ Taken(Cut(s, a, b), n) = Cut(s, a, a + t)
              /\ Left(Cut(s, a, b), n) = Cut(s, a + t, b)
  <1> DEFINE t == Least(n, b - a)
             m == b - a
  <1>1. Len(Cut(s, a, b)) = m /\ a \in Nat /\ b \in Nat /\ m \in Nat
    BY CutIs
  <1>2. t \in Nat /\ t <= m /\ 0 \in Nat /\ 0 <= t /\ m <= m /\ a + m = b /\ a + 0 = a
    BY <1>1 DEF Least
  <1> HIDE DEF t
  <1>3. Taken(Cut(s, a, b), n) = Cut(Cut(s, a, b), 0, t)
    <2>1. 0 + 1 = 1
      OBVIOUS
    <2>2. Taken(Cut(s, a, b), n) = SubSeq(Cut(s, a, b), 1, t)
      BY <1>1 DEF Taken, t
    <2> QED
      BY <2>1, <2>2 DEF Cut
  <1>4. Left(Cut(s, a, b), n) = Cut(Cut(s, a, b), t, m)
    <2>1. Left(Cut(s, a, b), n) = SubSeq(Cut(s, a, b), t + 1, m)
      BY <1>1 DEF Left, t
    <2> QED
      BY <2>1 DEF Cut
  <1> HIDE DEF m
  <1>6. Cut(Cut(s, a, b), 0, t) = Cut(s, a + 0, a + t) /\ Within(s, a, a + t) /\ Within(s, a + t, b)
    <2>1. t <= b - a
      BY <1>2 DEF m
    <2>2. Within(s, a + 0, a + t) /\ Cut(Cut(s, a, b), 0, t) = Cut(s, a + 0, a + t) /\ Within(s, a + t, b)
      BY <1>2, <2>1, CutCut
    <2> QED
      BY <1>2, <2>2
  <1>7. Cut(Cut(s, a, b), t, m) = Cut(s, a + t, a + m)
    <2>1. m <= b - a
      BY <1>2 DEF m
    <2> QED
      BY <1>1, <1>2, <2>1, CutCut
  <1> QED
    BY <1>1, <1>2, <1>3, <1>4, <1>6, <1>7 DEF t, m

(* One token more makes the piece longer by one.                            *)
LEMMA CutAppend ==
    ASSUME NEW s, NEW a, NEW b, Within(s, a, b), b # Len(s)
    PROVE  /\ Append(Cut(s, a, b), s[b + 1]) = Cut(s, a, b + 1)
           /\ Within(s, a, b + 1)
  <1> DEFINE x == Cut(s, a, b)
             y == Cut(s, a, b + 1)
             z == Append(x, s[b + 1])
  <1>1. /\ x \in Seq(ToSet(s)) /\ Len(x) = b - a
        /\ a \in Nat /\ b \in Nat /\ Len(s) \in Nat /\ a <= b /\ b <= Len(s) /\ IsSeq(s)
    BY CutIs
  <1>2. \A i \in 1 .. b - a : x[i] = s[a + i]
    BY CutIs
  <1>3. Within(s, a, b + 1)
    BY <1>1 DEF Within
  <1>4. s[b + 1] \in ToSet(s)
    BY <1>1, SeqHas
  <1> HIDE DEF x
  <1>5. z \in Seq(ToSet(s)) /\ Len(z) = (b + 1) - a
    BY <1>1, <1>4
  <1>6. ASSUME NEW i \in 1 .. (b + 1) - a PROVE z[i] = s[a + i]
    <2>1. CASE i = (b + 1) - a
      <3>1. z[i] = s[b + 1]
        BY <1>1, <1>4, <2>1
      <3>2. b + 1 = a + i
        BY <1>1, <2>1
      <3> QED
        BY <3>1, <3>2
    <2>2. CASE i # (b + 1) - a
      <3>1. i \in 1 .. b - a
        BY <1>1, <2>2
      <3> QED
        BY <1>1, <1>2, <1>4, <3>1
    <2> QED
      BY <2>1, <2>2
  <1> HIDE DEF z
  <1>a. IsSeq(z)
    BY <1>5, SeqIs
  <1>7. z = Cut(s, a, b + 1)
    <2> DEFINE b1 == b + 1
    <2>1. Within(s, a, b1) /\ Len(z) = b1 - a /\ \A i \in 1 .. b1 - a : z[i] = s[a + i]
      BY <1>3, <1>5, <1>6
    <2> HIDE DEF b1
    <2>2. z = Cut(s, a, b1)
      BY <2>1, <1>a, CutSame
    <2> QED
      BY <2>2 DEF b1
  <1> QED
    BY <1>3, <1>7 DEF x, z

-----------------------------------------------------------------------------
(* What a wire says, token by token (HeadDone, ByteRead).                   *)

(* What the wire of r has said behind its n-th token.                       *)
At(r, n) == Unframed[r.wire][n]

(* The bytes of the body of r, how many of them its first n tokens hold,    *)
(* what its head says, and how long that is.                                *)
Bytes(r) == At(r, Len(r.wire)).out
Pay(r, n) == Len(At(r, n).out)
Top(r)   == HeadDone(r.wire)
HeadLen(r) == IF Top(r).body_started THEN HeadEnd(r.wire) ELSE Len(r.wire)

(* The states of the decoder, and what holds in each: the counts of a chunk *)
(* never leave the range of an int.                                         *)
States == {"size", "ext", "data", "data_end", "trailer", "done"}

BodyOk(f) ==
    /\ f = [chunk_state |-> f.chunk_state, chunk_remaining |-> f.chunk_remaining,
            trailer_line |-> f.trailer_line, headers |-> f.headers, err |-> f.err]
    /\ f.chunk_state \in States
    /\ f.chunk_remaining \in -Half .. Half - 1
    /\ f.chunk_state = "data" => f.chunk_remaining # 0

(* What SizesAssumption says, as the proofs need it.                        *)
LEMMA HalfHas == Half \in Nat /\ Half > 1 /\ ScratchMax \in Nat \ {0} /\ ScratchMax < Half
                 /\ \A d \in DOMAIN Digit : Digit[d] \in Nat
  BY SizesAssumption

(* A 32-bit integer: what fits is kept, one turn below the range comes out  *)
(* at its other end.                                                        *)
LEMMA Int32Is ==
    ASSUME NEW n \in Int
    PROVE  /\ Int32(n) \in -Half .. Half - 1
           /\ n \in -Half .. Half - 1 => Int32(n) = n
           /\ n < -Half /\ n >= -2 * Half => Int32(n) = n + 2 * Half
  <1> DEFINE m == 2 * Half
             a == n + Half
  <1>1. m \in Nat \ {0} /\ a \in Int
    BY HalfHas
  <1>2. a % m \in 0 .. m - 1
    <2> HIDE DEF m, a
    <2> QED
      BY <1>1
  <1>3. a \in 0 .. m - 1 => a % m = a
    <2> HIDE DEF m, a
    <2> QED
      BY <1>1
  <1>4. a < 0 /\ a + m >= 0 => a % m = a + m
    <2> HIDE DEF m, a
    <2> QED
      BY <1>1
  <1> DEFINE x == a % m
  <1>5. Int32(n) = x - Half
    BY DEF Int32
  <1>6. /\ x \in 0 .. m - 1
        /\ a \in 0 .. m - 1 => x = a
        /\ a < 0 /\ a + m >= 0 => x = a + m
    BY <1>2, <1>3, <1>4
  <1>7. /\ n \in -Half .. Half - 1 => a \in 0 .. m - 1
        /\ n < -Half /\ n >= -2 * Half => a < 0 /\ a + m >= 0
    BY HalfHas
  <1>8. a - Half = n /\ (a + m) - Half = n + 2 * Half
    BY HalfHas
  <1> HIDE DEF x, a
  <1>9. x - Half \in -Half .. Half - 1
    BY <1>6, HalfHas
  <1> QED
    BY <1>5, <1>6, <1>7, <1>8, <1>9

(* The end of a size line leaves the decoder in one of its states, with no  *)
(* new error.                                                               *)
LEMMA SizeEndOk ==
    ASSUME NEW f, BodyOk(f)
    PROVE  BodyOk(SizeEnd(f)) /\ SizeEnd(f).err = f.err
  <1> DEFINE g == SizeEnd(f)
             s == IF f.chunk_remaining = 0 THEN "trailer" ELSE "data"
  <1>1. g = [f EXCEPT !.chunk_state = s, !.trailer_line = <<>>]
    BY DEF SizeEnd
  <1>2. s \in States /\ (s = "data" => f.chunk_remaining # 0)
    BY DEF States
  <1> HIDE DEF g, s
  <1>3. /\ g = [chunk_state |-> g.chunk_state, chunk_remaining |-> g.chunk_remaining,
                trailer_line |-> g.trailer_line, headers |-> g.headers, err |-> g.err]
        /\ g.chunk_state = s /\ g.chunk_remaining = f.chunk_remaining /\ g.err = f.err
    BY <1>1 DEF BodyOk
  <1> QED
    BY <1>2, <1>3 DEF BodyOk, g

(* A framing that is refused is so for good.                                *)
LEMMA BadOk ==
    ASSUME NEW f, BodyOk(f)
    PROVE  BodyOk(Bad(f)) /\ Bad(f).err = "protocol"
  BY DEF BodyOk, Bad, States

(* A byte of a size line leaves the decoder in one of its states; a size    *)
(* that has overflown is caught.                                            *)
LEMMA SizeByteOk ==
    ASSUME NEW f, BodyOk(f), NEW b, f.chunk_state = "size"
    PROVE  BodyOk(SizeByte(f, b))
  <1> DEFINE n == Int32(f.chunk_remaining * 16 + Digit[b])
  <1>1. b \in DOMAIN Digit => n \in -Half .. Half - 1
    <2> SUFFICES ASSUME b \in DOMAIN Digit PROVE n \in -Half .. Half - 1
      OBVIOUS
    <2>1. f.chunk_remaining * 16 + Digit[b] \in Int
      BY HalfHas DEF BodyOk
    <2> QED
      BY <2>1, Int32Is
  <1> HIDE DEF n
  <1>2. b \in DOMAIN Digit => BodyOk([f EXCEPT !.chunk_remaining = n])
    BY <1>1 DEF BodyOk
  <1>3. BodyOk([f EXCEPT !.chunk_state = "ext"])
    BY DEF BodyOk, States
  <1>4. SizeByte(f, b) \in {Bad(f), SizeEnd(f), [f EXCEPT !.chunk_state = "ext"], f}
        \/ (b \in DOMAIN Digit /\ SizeByte(f, b) = [f EXCEPT !.chunk_remaining = n])
    <2>1. SizeByte(f, b) =
            CASE b \in DOMAIN Digit ->
                   IF n > SizeMax THEN Bad(f) ELSE [f EXCEPT !.chunk_remaining = n]
              [] b = ";" -> [f EXCEPT !.chunk_state = "ext"]
              [] b = "LF" -> SizeEnd(f)
              [] b = "CR" -> f
              [] OTHER -> Bad(f)
      BY DEF SizeByte, n
    <2> DEFINE e1 == [f EXCEPT !.chunk_state = "ext"]
               e2 == [f EXCEPT !.chunk_remaining = n]
    <2>2. SizeByte(f, b) =
            CASE b \in DOMAIN Digit -> IF n > SizeMax THEN Bad(f) ELSE e2
              [] b = ";" -> e1
              [] b = "LF" -> SizeEnd(f)
              [] b = "CR" -> f
              [] OTHER -> Bad(f)
      BY <2>1
    <2> HIDE DEF e1, e2
    <2>3. SizeByte(f, b) \in {Bad(f), SizeEnd(f), e1, f} \/ (b \in DOMAIN Digit /\ SizeByte(f, b) = e2)
      BY <2>2
    <2> QED
      BY <2>3 DEF e1, e2
  <1> QED
    BY <1>2, <1>3, <1>4, SizeEndOk, BadOk

(* So does every byte of the framing.                                       *)
LEMMA FramingByteOk ==
    ASSUME NEW f, BodyOk(f), NEW b, f.chunk_state \notin {"data", "done"}
    PROVE  BodyOk(FramingByte(f, b))
  <1>1. CASE f.chunk_state = "size"
    <2>1. FramingByte(f, b) = SizeByte(f, b)
      BY <1>1 DEF FramingByte
    <2> QED
      BY <1>1, <2>1, SizeByteOk
  <1>2. CASE f.chunk_state = "ext"
    <2>1. FramingByte(f, b) \in {f, SizeEnd(f)}
      BY <1>2 DEF FramingByte
    <2> QED
      BY <2>1, SizeEndOk
  <1>3. CASE f.chunk_state = "data_end"
    <2> DEFINE g == [f EXCEPT !.chunk_state = "size", !.chunk_remaining = 0]
    <2>1. FramingByte(f, b) \in {f, g, Bad(f)}
      BY <1>3 DEF FramingByte, DataEndByte
    <2>2. BodyOk(g)
      <3>0. g = [f EXCEPT !.chunk_state = "size", !.chunk_remaining = 0]
        OBVIOUS
      <3> HIDE DEF g
      <3>1. g.chunk_state = "size" /\ g.chunk_remaining = 0
        BY <3>0 DEF BodyOk
      <3>2. g = [chunk_state |-> g.chunk_state, chunk_remaining |-> g.chunk_remaining,
                trailer_line |-> g.trailer_line, headers |-> g.headers, err |-> g.err]
        BY <3>0 DEF BodyOk
      <3> QED
        BY <3>1, <3>2, HalfHas DEF BodyOk, States
    <2> QED
      BY <2>1, <2>2, BadOk
  <1>4. CASE f.chunk_state = "trailer"
    <2> DEFINE x == Stored(f, f.trailer_line[1])
               g1 == [f EXCEPT !.chunk_state = "done"]
               g2 == [x EXCEPT !.trailer_line = <<>>]
               g3 == [f EXCEPT !.trailer_line = Append(@, b)]
    <2>1. FramingByte(f, b) \in {f, g1, g2, g3}
      BY <1>4 DEF FramingByte, TrailerByte
    <2>2. BodyOk(g1)
      BY <1>4 DEF BodyOk, States
    <2>3. BodyOk(g3)
      BY <1>4 DEF BodyOk, States
    <2>4. BodyOk(x) /\ x.chunk_state = "trailer"
      <3>1. x = f \/ x = [f EXCEPT !.headers = Append(@, f.trailer_line[1])]
        BY DEF Stored
      <3>2. BodyOk([f EXCEPT !.headers = Append(@, f.trailer_line[1])])
            /\ [f EXCEPT !.headers = Append(@, f.trailer_line[1])].chunk_state = "trailer"
        BY <1>4 DEF BodyOk, States
      <3> QED
        BY <1>4, <3>1, <3>2
    <2> HIDE DEF x
    <2>5. BodyOk(g2)
      BY <2>4 DEF BodyOk, States
    <2> QED
      BY <2>1, <2>2, <2>3, <2>5
  <1> QED
    BY <1>1, <1>2, <1>3, <1>4 DEF BodyOk, States

(* n data bytes, one by one or at once.                                     *)
LEMMA DataTakenOk ==
    ASSUME NEW f, BodyOk(f), NEW n \in Nat, n <= ScratchMax,
           f.chunk_remaining < 0 \/ n <= f.chunk_remaining
    PROVE  /\ BodyOk(DataTaken(f, n)) \/ f.chunk_state # "data"
           /\ DataTaken(f, n).err = f.err
           /\ f.chunk_state = "data"
                 => DataTaken(f, n).chunk_state
                      = IF f.chunk_remaining = n THEN "data_end" ELSE "data"
  <1> DEFINE x == Int32(f.chunk_remaining - n)
             g == DataTaken(f, n)
  <1>1. f.chunk_remaining \in -Half .. Half - 1 /\ f.chunk_remaining - n \in Int
    BY DEF BodyOk
  <1>2. x \in -Half .. Half - 1
    BY <1>1, Int32Is
  <1>3. f.chunk_remaining # n => x # 0
    <2>1. CASE f.chunk_remaining - n >= -Half
      <3>1. f.chunk_remaining - n \in -Half .. Half - 1
        BY <1>1, <2>1, HalfHas
      <3> QED
        BY <1>1, <3>1, Int32Is
    <2>2. CASE f.chunk_remaining - n < -Half
      <3>1. f.chunk_remaining - n >= -2 * Half
        BY <1>1, <2>2, HalfHas
      <3>2. x = f.chunk_remaining - n + 2 * Half
        BY <1>1, <2>2, <3>1, Int32Is
      <3> HIDE DEF x
      <3> QED
        BY <1>1, <3>2, HalfHas
    <2> QED
      BY <1>1, <2>1, <2>2, HalfHas
  <1> HIDE DEF x
  <1>4. g = [f EXCEPT !.chunk_remaining = x,
                      !.chunk_state = IF f.chunk_remaining = n THEN "data_end" ELSE @]
    BY DEF DataTaken, x
  <1> HIDE DEF g
  <1>5. /\ g.chunk_remaining = x /\ g.err = f.err
        /\ g.chunk_state = (IF f.chunk_remaining = n THEN "data_end" ELSE f.chunk_state)
        /\ g = [chunk_state |-> g.chunk_state, chunk_remaining |-> g.chunk_remaining,
            trailer_line |-> g.trailer_line, headers |-> g.headers, err |-> g.err]
    BY <1>4 DEF BodyOk
  <1> QED
    BY <1>2, <1>3, <1>5 DEF BodyOk, g, States

(* n data bytes at once and one more are n + 1 at once.                     *)
LEMMA DataTakenOne ==
    ASSUME NEW f, BodyOk(f), NEW n \in Nat, n < ScratchMax, f.chunk_state = "data",
           f.chunk_remaining < 0 \/ n + 1 <= f.chunk_remaining
    PROVE  DataTaken(DataTaken(f, n), 1) = DataTaken(f, n + 1)
  <1> DEFINE rem == f.chunk_remaining
             x == Int32(rem - n)
             y == Int32(x - 1)
             z == Int32(rem - (n + 1))
  <1>1. rem \in -Half .. Half - 1 /\ rem - n \in Int /\ rem - (n + 1) \in Int /\ rem # n
    BY DEF BodyOk
  <1>2. x \in -Half .. Half - 1 /\ x - 1 \in Int
    BY <1>1, Int32Is
  <1>3. y = z /\ (x = 1 <=> rem = n + 1)
    <2>1. CASE rem - (n + 1) >= -Half
      <3>1. rem - n \in -Half .. Half - 1 /\ rem - (n + 1) \in -Half .. Half - 1
        BY <1>1, <2>1, HalfHas
      <3>2. x = rem - n /\ z = rem - (n + 1)
        BY <1>1, <3>1, Int32Is
      <3>3. x - 1 = rem - (n + 1)
        BY <1>1, <3>2
      <3> HIDE DEF x
      <3> QED
        BY <1>1, <3>2, <3>3
    <2>2. CASE rem - n = -Half
      <3>1. rem - (n + 1) < -Half /\ rem - (n + 1) >= -2 * Half /\ rem - n \in -Half .. Half - 1
        BY <1>1, <2>2, HalfHas
      <3>2. x = -Half /\ z = rem - (n + 1) + 2 * Half
        BY <1>1, <2>2, <3>1, Int32Is
      <3>3. x - 1 = rem - (n + 1)
        BY <1>1, <2>2, <3>2
      <3> HIDE DEF x
      <3> QED
        BY <1>1, <2>2, <3>2, <3>3, HalfHas
    <2>3. CASE rem - n < -Half
      <3>1. /\ rem - n >= -2 * Half /\ rem - (n + 1) < -Half /\ rem - (n + 1) >= -2 * Half
        BY <1>1, <2>3, HalfHas
      <3>2. x = rem - n + 2 * Half /\ z = rem - (n + 1) + 2 * Half
        BY <1>1, <2>3, <3>1, Int32Is
      <3>3. x - 1 = z /\ x - 1 \in -Half .. Half - 1
        <4> HIDE DEF x, z
        <4> QED
          BY <1>1, <2>3, <3>1, <3>2, HalfHas
      <3>4. y = x - 1
        BY <1>2, <3>3, Int32Is
      <3> HIDE DEF x, y, z
      <3> QED
        BY <1>1, <2>3, <3>1, <3>2, <3>3, <3>4, HalfHas
    <2> QED
      BY <1>1, <2>1, <2>2, <2>3, HalfHas
  <1> DEFINE g == DataTaken(f, n)
  <1>4. g = [f EXCEPT !.chunk_remaining = x]
    BY <1>1 DEF DataTaken, BodyOk
  <1>5. DataTaken(f, n + 1) = [f EXCEPT !.chunk_remaining = z,
                                       !.chunk_state = IF rem = n + 1 THEN "data_end" ELSE @]
    BY DEF DataTaken
  <1>6. DataTaken(g, 1) = [g EXCEPT !.chunk_remaining = Int32(@ - 1),
                                    !.chunk_state = IF g.chunk_remaining = 1 THEN "data_end" ELSE @]
    BY DEF DataTaken
  <1> HIDE DEF x, g
  <1>7. g.chunk_remaining = x
    BY <1>4 DEF BodyOk
  <1>8. DataTaken(g, 1) = [g EXCEPT !.chunk_remaining = y,
                                    !.chunk_state = IF rem = n + 1 THEN "data_end" ELSE @]
    BY <1>3, <1>6, <1>7
  <1> HIDE DEF y, z
  <1>9. DataTaken(g, 1) = DataTaken(f, n + 1)
    BY <1>3, <1>4, <1>5, <1>8 DEF BodyOk
  <1> QED
    BY <1>9 DEF g

(* The head ends at its first blank line.                                   *)
LEMMA HeadEndIs ==
    ASSUME NEW s, IsSeq(s)
    PROVE  /\ HeadEnd(s) \in 0 .. Len(s) /\ Len(s) \in Nat
           /\ HeadEnd(s) = 0 => \A i \in 1 .. Len(s) : s[i] # EndOfHead
           /\ HeadEnd(s) # 0 => /\ s[HeadEnd(s)] = EndOfHead
                                /\ \A i \in 1 .. HeadEnd(s) - 1 : s[i] # EndOfHead
  <1> DEFINE T == {i \in 1 .. Len(s) : s[i] = EndOfHead}
             P(i) == s[i] = EndOfHead /\ \A k \in 1 .. i - 1 : ~(s[k] = EndOfHead)
  <1>1. Len(s) \in Nat /\ DOMAIN s = 1 .. Len(s)
    BY SeqHas
  <1>2. HeadEnd(s) = IF \E i \in 1 .. Len(s) : s[i] = EndOfHead
                     THEN CHOOSE i \in 1 .. Len(s) : P(i) ELSE 0
    BY <1>1 DEF HeadEnd, Where
  <1>3. CASE T = {}
    BY <1>1, <1>2, <1>3
  <1>4. CASE T # {}
    <2>1. PICK x \in T : \A y \in T : x <= y
      <3>1. T \subseteq Nat
        OBVIOUS
      <3> HIDE DEF T
      <3> QED
        BY <1>4, <3>1, LeastNatural
    <2>2. x \in 1 .. Len(s) /\ P(x)
      BY <1>1, <2>1
    <2>3. HeadEnd(s) = CHOOSE i \in 1 .. Len(s) : P(i)
      BY <1>2, <1>4
    <2> HIDE DEF P
    <2>4. HeadEnd(s) \in 1 .. Len(s) /\ P(HeadEnd(s))
      BY <2>2, <2>3
    <2> QED
      BY <1>1, <2>4 DEF P
  <1> QED
    BY <1>3, <1>4

(* The head ends where its first blank line is.                             *)
LEMMA HeadEndOf ==
    ASSUME NEW s, IsSeq(s), NEW e \in 1 .. Len(s), s[e] = EndOfHead,
           \A i \in 1 .. e - 1 : s[i] # EndOfHead
    PROVE  HeadEnd(s) = e
  <1>1. HeadEnd(s) \in 0 .. Len(s) /\ HeadEnd(s) # 0 /\ Len(s) \in Nat
    BY HeadEndIs
  <1>2. s[HeadEnd(s)] = EndOfHead
    BY <1>1, HeadEndIs
  <1>3. \A i \in 1 .. HeadEnd(s) - 1 : s[i] # EndOfHead
    BY <1>1, HeadEndIs
  <1>4. ~(HeadEnd(s) < e)
    BY <1>1, <1>2
  <1>5. ~(e < HeadEnd(s))
    BY <1>1, <1>3
  <1> QED
    BY <1>1, <1>4, <1>5

(* The head of what has arrived of s.                                       *)
LEMMA HeadEndOfCut ==
    ASSUME NEW s, NEW q, Within(s, 0, q)
    PROVE  HeadEnd(Cut(s, 0, q))
             = IF HeadEnd(s) # 0 /\ HeadEnd(s) <= q THEN HeadEnd(s) ELSE 0
  <1> DEFINE x == Cut(s, 0, q)
             e == HeadEnd(s)
             d == HeadEnd(x)
  <1>1. IsSeq(x) /\ Len(x) = q /\ IsSeq(s) /\ q \in Nat /\ Len(s) \in Nat /\ q <= Len(s)
    BY CutIs
  <1>2. \A i \in 1 .. q : x[i] = s[i]
    BY <1>1, CutIs
  <1> HIDE DEF x
  <1>3. e \in 0 .. Len(s) /\ d \in 0 .. q
    BY <1>1, HeadEndIs
  <1>4. ASSUME d # 0 PROVE e = d
    <2>1. x[d] = EndOfHead /\ \A i \in 1 .. d - 1 : x[i] # EndOfHead
      BY <1>1, <1>4, HeadEndIs
    <2>2. d \in 1 .. Len(s) /\ s[d] = EndOfHead
      BY <1>1, <1>2, <1>3, <1>4, <2>1
    <2>3. \A i \in 1 .. d - 1 : s[i] # EndOfHead
      BY <1>1, <1>2, <1>3, <1>4, <2>1
    <2> HIDE DEF d
    <2> QED
      BY <1>1, <2>2, <2>3, HeadEndOf
  <1>5. ASSUME d = 0, e # 0, e <= q PROVE FALSE
    <2>1. \A i \in 1 .. q : x[i] # EndOfHead
      BY <1>1, <1>5, HeadEndIs
    <2>2. s[e] = EndOfHead
      BY <1>1, <1>5, HeadEndIs
    <2> HIDE DEF e, d
    <2> QED
      BY <1>1, <1>2, <1>3, <1>5, <2>1, <2>2
  <1> HIDE DEF e, d
  <1>6. d = IF e # 0 /\ e <= q THEN e ELSE 0
    BY <1>1, <1>3, <1>4, <1>5
  <1> QED
    BY <1>6 DEF e, d, x

(* A decoder begins at a size line.                                         *)
LEMMA FreshBodyOk ==
    BodyOk(Fresh.body) /\ Fresh.body.err = "none" /\ Fresh.body.chunk_state = "size"
  BY HalfHas DEF Fresh, BodyOk, States

(* The record of a connection.                                              *)
IsConn(c) ==
    c = [net |-> c.net, closed |-> c.closed, scratch |-> c.scratch,
         body_started |-> c.body_started, resp |-> c.resp,
         body_read |-> c.body_read, body |-> c.body, err |-> c.err]

(* The record of a connection with another net is one, and the rest of it   *)
(* is as it was; so for the other fields.                                   *)
LEMMA Put_net ==
    ASSUME NEW c, IsConn(c), NEW y
    PROVE  LET x == [c EXCEPT !.net = y]
           IN /\ IsConn(x)
              /\ x.net = y /\ x.closed = c.closed /\ x.scratch = c.scratch
              /\ x.body_started = c.body_started /\ x.resp = c.resp
              /\ x.body_read = c.body_read /\ x.body = c.body
              /\ x.err = c.err
  <1> DEFINE x == [c EXCEPT !.net = y]
  <1>1. x = [c EXCEPT !.net = y]
    OBVIOUS
  <1> HIDE DEF x
  <1>2. IsConn(x)
    BY <1>1 DEF IsConn
  <1>3. x.net = y
    BY <1>1 DEF IsConn
  <1> QED
    BY <1>1, <1>2, <1>3 DEF IsConn, x

(* The same for scratch.                                                    *)
LEMMA Put_scratch ==
    ASSUME NEW c, IsConn(c), NEW y
    PROVE  LET x == [c EXCEPT !.scratch = y]
           IN /\ IsConn(x)
              /\ x.scratch = y /\ x.net = c.net /\ x.closed = c.closed
              /\ x.body_started = c.body_started /\ x.resp = c.resp
              /\ x.body_read = c.body_read /\ x.body = c.body
              /\ x.err = c.err
  <1> DEFINE x == [c EXCEPT !.scratch = y]
  <1>1. x = [c EXCEPT !.scratch = y]
    OBVIOUS
  <1> HIDE DEF x
  <1>2. IsConn(x)
    BY <1>1 DEF IsConn
  <1>3. x.scratch = y
    BY <1>1 DEF IsConn
  <1> QED
    BY <1>1, <1>2, <1>3 DEF IsConn, x

(* The same for body_started.                                               *)
LEMMA Put_body_started ==
    ASSUME NEW c, IsConn(c), NEW y
    PROVE  LET x == [c EXCEPT !.body_started = y]
           IN /\ IsConn(x)
              /\ x.body_started = y /\ x.net = c.net
              /\ x.closed = c.closed /\ x.scratch = c.scratch
              /\ x.resp = c.resp /\ x.body_read = c.body_read
              /\ x.body = c.body /\ x.err = c.err
  <1> DEFINE x == [c EXCEPT !.body_started = y]
  <1>1. x = [c EXCEPT !.body_started = y]
    OBVIOUS
  <1> HIDE DEF x
  <1>2. IsConn(x)
    BY <1>1 DEF IsConn
  <1>3. x.body_started = y
    BY <1>1 DEF IsConn
  <1> QED
    BY <1>1, <1>2, <1>3 DEF IsConn, x

(* The same for resp.                                                       *)
LEMMA Put_resp ==
    ASSUME NEW c, IsConn(c), NEW y
    PROVE  LET x == [c EXCEPT !.resp = y]
           IN /\ IsConn(x)
              /\ x.resp = y /\ x.net = c.net /\ x.closed = c.closed
              /\ x.scratch = c.scratch /\ x.body_started = c.body_started
              /\ x.body_read = c.body_read /\ x.body = c.body
              /\ x.err = c.err
  <1> DEFINE x == [c EXCEPT !.resp = y]
  <1>1. x = [c EXCEPT !.resp = y]
    OBVIOUS
  <1> HIDE DEF x
  <1>2. IsConn(x)
    BY <1>1 DEF IsConn
  <1>3. x.resp = y
    BY <1>1 DEF IsConn
  <1> QED
    BY <1>1, <1>2, <1>3 DEF IsConn, x

(* The same for body_read.                                                  *)
LEMMA Put_body_read ==
    ASSUME NEW c, IsConn(c), NEW y
    PROVE  LET x == [c EXCEPT !.body_read = y]
           IN /\ IsConn(x)
              /\ x.body_read = y /\ x.net = c.net /\ x.closed = c.closed
              /\ x.scratch = c.scratch /\ x.body_started = c.body_started
              /\ x.resp = c.resp /\ x.body = c.body /\ x.err = c.err
  <1> DEFINE x == [c EXCEPT !.body_read = y]
  <1>1. x = [c EXCEPT !.body_read = y]
    OBVIOUS
  <1> HIDE DEF x
  <1>2. IsConn(x)
    BY <1>1 DEF IsConn
  <1>3. x.body_read = y
    BY <1>1 DEF IsConn
  <1> QED
    BY <1>1, <1>2, <1>3 DEF IsConn, x

(* The same for body.                                                       *)
LEMMA Put_body ==
    ASSUME NEW c, IsConn(c), NEW y
    PROVE  LET x == [c EXCEPT !.body = y]
           IN /\ IsConn(x)
              /\ x.body = y /\ x.net = c.net /\ x.closed = c.closed
              /\ x.scratch = c.scratch /\ x.body_started = c.body_started
              /\ x.resp = c.resp /\ x.body_read = c.body_read
              /\ x.err = c.err
  <1> DEFINE x == [c EXCEPT !.body = y]
  <1>1. x = [c EXCEPT !.body = y]
    OBVIOUS
  <1> HIDE DEF x
  <1>2. IsConn(x)
    BY <1>1 DEF IsConn
  <1>3. x.body = y
    BY <1>1 DEF IsConn
  <1> QED
    BY <1>1, <1>2, <1>3 DEF IsConn, x

(* Reading the head takes it off the scratch and keeps what it says.        *)
LEMMA HeadReadIs ==
    ASSUME NEW c, IsConn(c)
    PROVE  LET x == HeadRead(c)
               e == HeadEnd(c.scratch)
               d == HeadSays(SubSeq(c.scratch, 1, e - 1))
           IN /\ IsConn(x) /\ x.net = c.net /\ x.closed = c.closed
              /\ x.scratch = Left(c.scratch, e) /\ x.body_started = TRUE
              /\ x.resp = d /\ x.body = [c.body EXCEPT !.headers = d.headers]
              /\ x.body_read = c.body_read
  <1> DEFINE x == HeadRead(c)
             e == HeadEnd(c.scratch)
             d == HeadSays(SubSeq(c.scratch, 1, e - 1))
             c0 == [c EXCEPT !.body_started = TRUE]
             c1 == [c0 EXCEPT !.resp = d]
             f == [c1.body EXCEPT !.headers = d.headers]
             c2 == [c1 EXCEPT !.body = f]
             s == Left(c2.scratch, e)
             c3 == [c2 EXCEPT !.scratch = s]
  <1>1. x = c3
    BY DEF HeadRead
  <1> HIDE DEF e, d, x
  <1>2. /\ IsConn(c0) /\ c0.net = c.net /\ c0.closed = c.closed /\ c0.scratch = c.scratch
        /\ c0.body_started = TRUE /\ c0.body = c.body /\ c0.body_read = c.body_read
    BY Put_body_started
  <1> HIDE DEF c0
  <1>3. /\ IsConn(c1) /\ c1.net = c.net /\ c1.closed = c.closed /\ c1.scratch = c.scratch
        /\ c1.body_started = TRUE /\ c1.body = c.body /\ c1.body_read = c.body_read /\ c1.resp = d
    BY <1>2, Put_resp
  <1> HIDE DEF c1, f
  <1>4. /\ IsConn(c2) /\ c2.net = c.net /\ c2.closed = c.closed /\ c2.scratch = c.scratch
        /\ c2.body_started = TRUE /\ c2.body = f /\ c2.body_read = c.body_read /\ c2.resp = d
    BY <1>3, Put_body
  <1> HIDE DEF c2, s
  <1>5. /\ IsConn(c3) /\ c3.net = c.net /\ c3.closed = c.closed /\ c3.scratch = s
        /\ c3.body_started = TRUE /\ c3.body = f /\ c3.body_read = c.body_read /\ c3.resp = d
    BY <1>4, Put_scratch
  <1>6. s = Left(c.scratch, e) /\ f = [c.body EXCEPT !.headers = d.headers]
    BY <1>3, <1>4 DEF s, f
  <1> QED
    BY <1>1, <1>5, <1>6 DEF x, d, e

(* A connection as it begins.                                               *)
LEMMA FreshIs == IsConn(Fresh) /\ Fresh.net = <<>> /\ Fresh.scratch = <<>>
                 /\ Fresh.closed = FALSE /\ Fresh.body_started = FALSE
                 /\ Fresh.body_read = 0 /\ Fresh.resp.status = 0
  BY DEF IsConn, Fresh

(* What the head of a reply says, as the wire has it.                       *)
LEMMA TopIs ==
    ASSUME NEW r \in Replies
    PROVE  /\ IsSeq(r.wire) /\ Len(r.wire) \in Nat
           /\ HeadLen(r) \in 0 .. Len(r.wire)
           /\ BodyOk(Top(r).body) /\ Top(r).body.err = "none"
           /\ Top(r).body.chunk_state = "size"
           /\ Top(r).body_started \in BOOLEAN
           /\ Top(r).body_started <=> HeadEnd(r.wire) # 0
           /\ Top(r).body_started =>
                LET d == HeadSays(SubSeq(r.wire, 1, HeadEnd(r.wire) - 1))
                IN Top(r).resp = d /\ Top(r).body = [Fresh.body EXCEPT !.headers = d.headers]
           /\ ~Top(r).body_started => Top(r).resp = Fresh.resp /\ Top(r).body = Fresh.body
           /\ Top(r).body_started /\ ~Top(r).resp.chunked
                 => \A n \in 0 .. Len(Left(r.wire, HeadEnd(r.wire))) - 1 :
                       ~(Top(r).resp.content_len >= 0 /\ n >= Top(r).resp.content_len)
  <1> DEFINE w == r.wire
             e == HeadEnd(w)
             d == HeadSays(SubSeq(w, 1, e - 1))
             c == Top(r)
  <1>1. IsReply(r)
    BY ReplyAssumption
  <1>2. IsSeq(w)
    BY <1>1 DEF IsReply, IsSeq
  <1>3. e \in 0 .. Len(w) /\ Len(w) \in Nat
    BY <1>2, HeadEndIs
  <1>4. CASE e = 0
    <2>1. c = Fresh
      BY <1>4 DEF Top, HeadDone
    <2>2. ~Fresh.body_started /\ Fresh.body_started \in BOOLEAN
      BY DEF Fresh
    <2> QED
      BY <1>2, <1>3, <1>4, <2>1, <2>2, FreshBodyOk DEF HeadLen
  <1>5. CASE e # 0
    <2> DEFINE x == [Fresh EXCEPT !.scratch = w]
    <2>1. x.scratch = w /\ x.body = Fresh.body /\ IsConn(x)
      BY FreshIs, Put_scratch
    <2> HIDE DEF x
    <2>2. c = HeadRead(x)
      BY <1>5 DEF Top, HeadDone, x
    <2> HIDE DEF c, w
    <2>3. /\ HeadRead(x).body_started = TRUE /\ HeadRead(x).resp = HeadSays(SubSeq(x.scratch, 1, HeadEnd(x.scratch) - 1))
          /\ HeadRead(x).scratch = Left(x.scratch, HeadEnd(x.scratch))
          /\ HeadRead(x).body = [x.body EXCEPT !.headers = HeadSays(SubSeq(x.scratch, 1, HeadEnd(x.scratch) - 1)).headers]
      BY <2>1, HeadReadIs
    <2>4. /\ c.body_started = TRUE /\ c.resp = d
          /\ c.body = [Fresh.body EXCEPT !.headers = d.headers]
          /\ c.scratch = Left(w, e)
      BY <2>1, <2>2, <2>3
    <2> HIDE DEF d
    <2> DEFINE f == [Fresh.body EXCEPT !.headers = d.headers]
    <2>5. BodyOk(f) /\ f.err = "none" /\ f.chunk_state = "size"
      BY FreshBodyOk DEF BodyOk, States
    <2>6. ASSUME ~c.resp.chunked, NEW n \in 0 .. Len(c.scratch) - 1
          PROVE  ~(c.resp.content_len >= 0 /\ n >= c.resp.content_len)
      <3> DEFINE g == [c EXCEPT !.body_read = n]
      <3>1. ~Complete(g)
        BY <1>1, <2>4, <2>6 DEF IsReply, Top, c, w
      <3>2. IsConn(c)
        BY <2>1, <2>2, HeadReadIs
      <3>3. g.body_read = n /\ g.resp = c.resp
        BY <3>2, Put_body_read
      <3> HIDE DEF g
      <3> QED
        BY <3>1, <3>3 DEF Complete
    <2>7. HeadLen(r) = e
      BY <2>4 DEF HeadLen, c, w
    <2> HIDE DEF f, c
    <2> QED
      BY <1>2, <1>3, <1>5, <2>4, <2>5, <2>6, <2>7 DEF c, d, f, w
  <1> QED
    BY <1>4, <1>5

(* What the wire has said behind each token: nothing in its head, then one  *)
(* token at a time.                                                         *)
LEMMA AtIs ==
    ASSUME NEW r \in Replies, NEW n \in 0 .. Len(r.wire)
    PROVE  /\ n <= HeadLen(r) => At(r, n) = [body |-> Top(r).body, out |-> <<>>]
           /\ n > HeadLen(r) => At(r, n) = ByteRead(Top(r).resp, At(r, n - 1), r.wire[n])
  <1>1. IsUnframed(r.wire, Unframed[r.wire])
    BY ReplyAssumption DEF IsReply, SaysItsEvents
  <1>2. Unframed[r.wire][n] = IF n <= HeadLen(r) THEN [body |-> Top(r).body, out |-> <<>>]
                        ELSE ByteRead(Top(r).resp, Unframed[r.wire][n - 1], r.wire[n])
    BY <1>1 DEF IsUnframed, HeadLen, Top
  <1>3. n \in Nat /\ HeadLen(r) \in Nat
    <2>1. Len(r.wire) \in Nat /\ HeadLen(r) \in 0 .. Len(r.wire)
      BY TopIs
    <2> QED
      BY <2>1
  <1> QED
    BY <1>2, <1>3 DEF At

(* The record of what a wire has said.                                      *)
IsRead(x) == x = [body |-> x.body, out |-> x.out] /\ BodyOk(x.body)

(* A token of the body: it is let through, or moves the decoder.            *)
LEMMA ByteReadIs ==
    ASSUME NEW x, IsRead(x), NEW resp, NEW b
    PROVE  LET y == ByteRead(resp, x, b)
           IN /\ IsRead(y)
              /\ y.out = x.out \/ y.out = Append(x.out, b)
              /\ ~resp.chunked => y.body = x.body /\ y.out = Append(x.out, b)
              /\ resp.chunked =>
                   IF x.body.err # "none" \/ x.body.chunk_state = "done" THEN y = x
                   ELSE IF x.body.chunk_state = "data"
                   THEN y.body = DataTaken(x.body, 1) /\ y.out = Append(x.out, b)
                   ELSE y.body = FramingByte(x.body, b) /\ y.out = x.out
  <1> DEFINE y == ByteRead(resp, x, b)
             y1 == [x EXCEPT !.out = Append(@, b)]
             y2 == [body |-> DataTaken(x.body, 1), out |-> Append(x.out, b)]
             y3 == [x EXCEPT !.body = FramingByte(@, b)]
  <1>1. IsRead(y1) /\ y1.body = x.body /\ y1.out = Append(x.out, b)
    BY DEF IsRead
  <1>2. ASSUME x.body.chunk_state = "data"
        PROVE  IsRead(y2) /\ y2.body = DataTaken(x.body, 1) /\ y2.out = Append(x.out, b)
    <2>1. BodyOk(x.body) /\ 1 \in Nat /\ 1 <= ScratchMax
      BY HalfHas DEF IsRead
    <2>2. x.body.chunk_remaining < 0 \/ 1 <= x.body.chunk_remaining
      BY <2>1, <1>2, HalfHas DEF BodyOk
    <2>3. BodyOk(DataTaken(x.body, 1))
      BY <1>2, <2>1, <2>2, DataTakenOk
    <2> QED
      BY <2>3 DEF IsRead
  <1>3. ASSUME x.body.chunk_state \notin {"data", "done"}
        PROVE  IsRead(y3) /\ y3.body = FramingByte(x.body, b) /\ y3.out = x.out
    <2>1. BodyOk(FramingByte(x.body, b))
      BY <1>3, FramingByteOk DEF IsRead
    <2> QED
      BY <2>1 DEF IsRead
  <1>4. y = IF ~resp.chunked THEN y1
            ELSE IF x.body.err # "none" \/ x.body.chunk_state = "done" THEN x
            ELSE IF x.body.chunk_state = "data" THEN y2 ELSE y3
    BY DEF ByteRead
  <1> HIDE DEF y, y1, y2, y3
  <1>5. CASE ~resp.chunked
    BY <1>1, <1>4, <1>5 DEF y
  <1>6. CASE resp.chunked /\ (x.body.err # "none" \/ x.body.chunk_state = "done")
    BY <1>4, <1>6 DEF y
  <1>7. CASE resp.chunked /\ ~(x.body.err # "none" \/ x.body.chunk_state = "done")
             /\ x.body.chunk_state = "data"
    BY <1>2, <1>4, <1>7 DEF y
  <1>8. CASE resp.chunked /\ ~(x.body.err # "none" \/ x.body.chunk_state = "done")
             /\ x.body.chunk_state # "data"
    BY <1>3, <1>4, <1>8 DEF y
  <1> QED
    BY <1>5, <1>6, <1>7, <1>8

(* What the first n tokens say is there for every place in front.           *)
FrameAt(r, n) ==
    /\ IsRead(At(r, n)) /\ At(r, n).out \in Seq(ToSet(r.wire))
    /\ \A m \in 0 .. n : /\ Within(At(r, n).out, 0, Pay(r, m))
                         /\ At(r, m).out = Cut(At(r, n).out, 0, Pay(r, m))

(* The whole of a sequence is a piece of it, and so is nothing.             *)
LEMMA CutWhole ==
    ASSUME NEW s, IsSeq(s)
    PROVE  Cut(s, 0, Len(s)) = s /\ Within(s, 0, Len(s)) /\ Within(s, Len(s), Len(s))
           /\ Within(s, 0, 0)
  <1>1. Within(s, 0, Len(s)) /\ Within(s, Len(s), Len(s)) /\ Within(s, 0, 0) /\ Len(s) - 0 = Len(s)
    BY SeqHas DEF Within
  <1>2. \A i \in 1 .. Len(s) - 0 : s[i] = s[0 + i]
    BY SeqHas
  <1>3. s = Cut(s, 0, Len(s))
    BY <1>1, <1>2, CutSame
  <1> QED
    BY <1>1, <1>3

(* The wire is read in order: what it says behind a token begins with what  *)
(* it said behind each token in front.                                      *)
LEMMA FrameOk ==
    ASSUME NEW r \in Replies
    PROVE  \A n \in 0 .. Len(r.wire) : FrameAt(r, n)
  <1> DEFINE w == r.wire
             S == {n \in 0 .. Len(w) : FrameAt(r, n)}
  <1>1. /\ IsSeq(w) /\ Len(w) \in Nat /\ HeadLen(r) \in 0 .. Len(w) /\ HeadLen(r) \in Nat
        /\ BodyOk(Top(r).body)
    <2>1. /\ IsSeq(w) /\ Len(w) \in Nat /\ HeadLen(r) \in 0 .. Len(w)
          /\ BodyOk(Top(r).body)
      BY TopIs
    <2> QED
      BY <2>1
  <1>2. ASSUME NEW n \in 0 .. Len(w), n <= HeadLen(r) PROVE FrameAt(r, n)
    <2>1. \A m \in 0 .. n : m \in 0 .. Len(w) /\ m <= HeadLen(r)
      BY <1>1, <1>2
    <2>2. \A m \in 0 .. n : At(r, m) = [body |-> Top(r).body, out |-> <<>>]
      BY <2>1, AtIs
    <2>3. \A m \in 0 .. n : At(r, m).out = <<>> /\ Pay(r, m) = 0
      BY <2>2 DEF Pay
    <2>4. IsRead(At(r, n)) /\ n \in 0 .. n
      BY <1>1, <2>2 DEF IsRead
    <2>5. IsSeq(<<>>) /\ <<>> \in Seq(ToSet(w)) /\ Len(<<>>) = 0
      BY DEF IsSeq
    <2>6. Within(<<>>, 0, 0) /\ Cut(<<>>, 0, 0) = <<>>
      BY <2>5, CutWhole
    <2> QED
      BY <2>3, <2>4, <2>5, <2>6 DEF FrameAt
  <1>3. ASSUME NEW n \in 1 .. Len(w), n - 1 \in S, n > HeadLen(r) PROVE FrameAt(r, n)
    <2> DEFINE x == At(r, n - 1)
               y == At(r, n)
    <2>1. FrameAt(r, n - 1) /\ n \in 0 .. Len(w)
      BY <1>3
    <2>2. y = ByteRead(Top(r).resp, x, w[n])
      BY <1>3, <2>1, AtIs
    <2> HIDE DEF y
    <2>3. IsRead(x) /\ x.out \in Seq(ToSet(w))
      BY <2>1 DEF FrameAt
    <2>4. \A m \in 0 .. n - 1 : /\ Within(x.out, 0, Pay(r, m))
                                /\ At(r, m).out = Cut(x.out, 0, Pay(r, m))
      BY <2>1 DEF FrameAt
    <2> HIDE DEF x
    <2>5. IsRead(y) /\ (y.out = x.out \/ y.out = Append(x.out, w[n]))
      BY <2>2, <2>3, ByteReadIs
    <2>6. w[n] \in ToSet(w)
      BY <1>1, SeqHas
    <2> DEFINE u == x.out
               v == y.out
    <2>7. u \in Seq(ToSet(w)) /\ v \in Seq(ToSet(w))
      BY <2>3, <2>5, <2>6
    <2>8. IsSeq(u) /\ IsSeq(v)
      BY <2>7, SeqIs
    <2>9. Within(v, 0, Len(u)) /\ u = Cut(v, 0, Len(u))
      <3>1. CASE v = u
        BY <2>8, <3>1, CutWhole
      <3>2. CASE v = Append(u, w[n])
        <4> HIDE DEF u
        <4>1. Len(u) \in Nat /\ Len(v) = Len(u) + 1 /\ \A i \in 1 .. Len(u) : v[i] = u[i]
          BY <2>6, <2>7, <3>2
        <4> HIDE DEF v
        <4>2. Within(v, 0, Len(u)) /\ Len(u) - 0 = Len(u) /\ \A i \in 1 .. Len(u) : 0 + i = i
          BY <2>8, <4>1 DEF Within
        <4>3. \A i \in 1 .. Len(u) - 0 : u[i] = v[0 + i]
          BY <4>1, <4>2
        <4>4. Len(u) = Len(u) - 0
          BY <4>1
        <4> QED
          BY <2>8, <4>2, <4>3, <4>4, CutSame
      <3> QED
        BY <2>5, <3>1, <3>2
    <2>10. ASSUME NEW m \in 0 .. n
           PROVE  Within(v, 0, Pay(r, m)) /\ At(r, m).out = Cut(v, 0, Pay(r, m))
      <3>1. CASE m = n
        <4>1. At(r, m).out = v /\ Pay(r, m) = Len(v)
          BY <3>1 DEF Pay, y
        <4> HIDE DEF v
        <4> QED
          BY <2>8, <4>1, CutWhole
      <3>2. CASE m # n
        <4> DEFINE p == Pay(r, m)
                   l == Len(u)
        <4>1. m \in 0 .. n - 1
          BY <3>2
        <4>2. Within(u, 0, p) /\ At(r, m).out = Cut(u, 0, p)
          BY <2>4, <4>1
        <4>3. p \in Nat /\ p <= l /\ l \in Nat
          BY <2>8, <4>2, SeqHas DEF Within
        <4> HIDE DEF u, v, p, l
        <4>4. Within(v, 0, l) /\ u = Cut(v, 0, l) /\ 0 \in Nat /\ 0 <= p /\ p <= l - 0 /\ 0 + 0 = 0 /\ 0 + p = p
          BY <2>9, <4>3 DEF l
        <4>5. Cut(Cut(v, 0, l), 0, p) = Cut(v, 0 + 0, 0 + p) /\ Within(v, 0 + 0, 0 + p)
          BY <4>3, <4>4, CutCut
        <4> QED
          BY <4>2, <4>4, <4>5 DEF p
      <3> QED
        BY <3>1, <3>2
    <2> QED
      BY <2>5, <2>7, <2>10 DEF FrameAt, y
  <1>4. 0 \in S
    BY <1>1, <1>2
  <1>5. \A n \in 1 .. Len(w) : n - 1 \in S => n \in S
    BY <1>1, <1>2, <1>3
  <1> HIDE DEF S
  <1>6. \A n \in 0 .. Len(w) : n \in S
    BY <1>1, <1>4, <1>5, UpTo
  <1> QED
    BY <1>6 DEF S

(* What is behind k and up to n tokens, of the bytes the wire says.         *)
LEMMA PayIs ==
    ASSUME NEW r \in Replies, NEW n \in 0 .. Len(r.wire), NEW k \in 0 .. n
    PROVE  /\ Within(Bytes(r), Pay(r, k), Pay(r, n)) /\ Within(Bytes(r), 0, Pay(r, k))
           /\ At(r, k).out = Cut(Bytes(r), 0, Pay(r, k))
           /\ IsSeq(At(r, k).out) /\ IsRead(At(r, k))
           /\ Len(Bytes(r)) = Pay(r, Len(r.wire)) /\ IsSeq(Bytes(r))
           /\ Pay(r, k) \in Nat /\ Pay(r, k) <= Pay(r, n)
  <1> DEFINE N == Len(r.wire)
  <1>1. N \in Nat /\ n \in 0 .. N /\ k \in 0 .. N /\ k \in 0 .. n /\ N \in 0 .. N
    BY TopIs
  <1>2. FrameAt(r, N) /\ FrameAt(r, n) /\ FrameAt(r, k)
    BY <1>1, FrameOk
  <1>3. Within(Bytes(r), 0, Pay(r, k)) /\ At(r, k).out = Cut(Bytes(r), 0, Pay(r, k))
        /\ Within(Bytes(r), 0, Pay(r, n))
    BY <1>1, <1>2 DEF FrameAt, Bytes
  <1>4. Within(At(r, n).out, 0, Pay(r, k))
    BY <1>1, <1>2 DEF FrameAt
  <1>5. Pay(r, k) \in Nat /\ Pay(r, k) <= Pay(r, n) /\ Len(Bytes(r)) = Pay(r, N)
    BY <1>4 DEF Within, Pay, Bytes
  <1>6. Within(Bytes(r), Pay(r, k), Pay(r, n))
    BY <1>3, <1>5 DEF Within
  <1>7. IsSeq(At(r, k).out) /\ IsRead(At(r, k)) /\ IsSeq(Bytes(r))
    BY <1>2, <1>3, SeqIs DEF FrameAt, Within
  <1> QED
    BY <1>3, <1>5, <1>6, <1>7

(* Bytes added between two places are the bytes the wire says there.        *)
LEMMA PieceSays ==
    ASSUME NEW r \in Replies, NEW n \in 0 .. Len(r.wire), NEW k \in 0 .. n,
           NEW x, IsSeq(x), At(r, n).out = At(r, k).out \o x
    PROVE  x = Cut(Bytes(r), Pay(r, k), Pay(r, n)) /\ Pay(r, n) = Pay(r, k) + Len(x)
  <1> DEFINE B == Bytes(r)
             p == Pay(r, k)
             q == Pay(r, n)
             u == Cut(B, 0, p)
             v == Cut(B, p, q)
             A == ToSet(B) \cup ToSet(x)
  <1>1. /\ Within(B, p, q) /\ Within(B, 0, p) /\ At(r, k).out = u /\ p \in Nat /\ IsSeq(B)
    BY PayIs
  <1>2. At(r, n).out = Cut(B, 0, q) /\ q \in Nat
    <2>1. n \in 0 .. n
      OBVIOUS
    <2> QED
      BY <2>1, PayIs
  <1> HIDE DEF B, p, q
  <1>3. u \o v = u \o x
    BY <1>1, <1>2, CutJoin
  <1>4. u \in Seq(ToSet(B)) /\ v \in Seq(ToSet(B)) /\ Len(u) = p - 0
    BY <1>1, CutIs
  <1>5. Len(v) = q - p
    BY <1>1, CutIs
  <1> HIDE DEF u, v
  <1>6. u \in Seq(A) /\ v \in Seq(A) /\ x \in Seq(A)
    BY <1>4, SeqHas, SeqMonotonic
  <1> HIDE DEF A
  <1>7. v = x
    BY <1>3, <1>6, ConcatSimplifications
  <1>8. q = p + Len(x)
    BY <1>1, <1>2, <1>5, <1>7
  <1> QED
    BY <1>7, <1>8 DEF v, p, q, B

(* The place k is behind the head of r.                                     *)
Behind(r, k) == r \in Replies /\ k \in HeadLen(r) .. Len(r.wire)

(* What holds at a place behind the head.                                   *)
LEMMA BehindHas ==
    ASSUME NEW r, NEW k, Behind(r, k)
    PROVE  /\ r \in Replies /\ k \in 0 .. Len(r.wire) /\ k \in Nat /\ Len(r.wire) \in Nat
           /\ HeadLen(r) \in Nat /\ HeadLen(r) <= k /\ IsRead(At(r, k)) /\ IsSeq(r.wire)
           /\ At(r, k).out \in Seq(ToSet(r.wire)) /\ IsSeq(At(r, k).out)
           /\ Within(r.wire, k, k)
           /\ k # Len(r.wire) => /\ Behind(r, k + 1)
                                 /\ At(r, k + 1) = ByteRead(Top(r).resp, At(r, k), r.wire[k + 1])
  <1>1. /\ r \in Replies /\ Len(r.wire) \in Nat /\ HeadLen(r) \in 0 .. Len(r.wire) /\ IsSeq(r.wire)
    BY TopIs DEF Behind
  <1>2. /\ HeadLen(r) \in Nat /\ k \in 0 .. Len(r.wire) /\ HeadLen(r) <= k /\ k \in Nat /\ k <= Len(r.wire)
    BY <1>1 DEF Behind
  <1>3. FrameAt(r, k)
    BY <1>1, <1>2, FrameOk
  <1>4. At(r, k).out \in Seq(ToSet(r.wire)) /\ IsSeq(At(r, k).out) /\ IsRead(At(r, k))
    BY <1>3, SeqIs DEF FrameAt
  <1>5. ASSUME k # Len(r.wire)
        PROVE  /\ Behind(r, k + 1)
               /\ At(r, k + 1) = ByteRead(Top(r).resp, At(r, k), r.wire[k + 1])
    <2> DEFINE n == k + 1
    <2>1. n \in 0 .. Len(r.wire) /\ n \in HeadLen(r) .. Len(r.wire) /\ n > HeadLen(r) /\ n - 1 = k
      BY <1>1, <1>2, <1>5
    <2> HIDE DEF n
    <2>2. At(r, n) = ByteRead(Top(r).resp, At(r, n - 1), r.wire[n])
      BY <1>1, <2>1, AtIs
    <2> QED
      BY <1>1, <2>1, <2>2 DEF n, Behind
  <1>6. Within(r.wire, k, k)
    BY <1>1, <1>2 DEF Within
  <1> QED
    BY <1>1, <1>2, <1>4, <1>5, <1>6

(* One more token let through.                                              *)
LEMMA RunStep ==
    ASSUME NEW u, NEW w, IsSeq(w), NEW A, u \in Seq(A), NEW k, NEW n, Within(w, k, n), n # Len(w)
    PROVE  /\ Append(u \o Cut(w, k, n), w[n + 1]) = u \o Cut(w, k, n + 1)
           /\ Within(w, k, n + 1)
  <1> DEFINE x == Cut(w, k, n)
             b == w[n + 1]
             B == A \cup ToSet(w)
  <1>1. Append(x, b) = Cut(w, k, n + 1) /\ Within(w, k, n + 1)
    BY CutAppend
  <1>2. x \in Seq(ToSet(w)) /\ n \in Nat /\ Len(w) \in Nat /\ n <= Len(w)
    BY CutIs
  <1>3. b \in ToSet(w)
    BY <1>2, SeqHas
  <1> HIDE DEF x, b
  <1>4. u \in Seq(B) /\ x \in Seq(B) /\ b \in B
    BY <1>2, <1>3, SeqMonotonic
  <1> HIDE DEF B
  <1>5. Append(u \o x, b) = u \o Append(x, b)
    BY <1>4
  <1> QED
    BY <1>1, <1>5 DEF x, b

(* A body without framing says what is on the wire.                         *)
LEMMA PlainRun ==
    ASSUME NEW r, NEW k, Behind(r, k), ~Top(r).resp.chunked,
           NEW n \in k .. Len(r.wire)
    PROVE  /\ Behind(r, n) /\ At(r, n).body = At(r, k).body
           /\ At(r, n).out = At(r, k).out \o Cut(r.wire, k, n)
           /\ Within(r.wire, k, n)
  <1> DEFINE w == r.wire
             m == n - k
             u == At(r, k).out
             P(i) == /\ Behind(r, k + i) /\ At(r, k + i).body = At(r, k).body
                     /\ At(r, k + i).out = u \o Cut(w, k, k + i)
                     /\ Within(w, k, k + i)
             S == {i \in 0 .. m : P(i)}
  <1>0. /\ k \in Nat /\ Len(w) \in Nat /\ IsSeq(w) /\ u \in Seq(ToSet(w))
        /\ Within(w, k, k)
    BY BehindHas
  <1>1. /\ k \in Nat /\ Len(w) \in Nat /\ m \in Nat /\ IsSeq(w) /\ u \in Seq(ToSet(w))
        /\ Within(w, k, k) /\ k + 0 = k /\ k + m = n /\ 0 \in 0 .. m /\ m \in 0 .. m
    BY <1>0
  <1>2. 0 \in S
    <2>1. Cut(w, k, k) = <<>>
      BY <1>1, CutEmpty
    <2>2. u \o <<>> = u
      BY <1>1, ConcatEmptySeq
    <2> QED
      BY <1>1, <2>1, <2>2
  <1>3. ASSUME NEW i \in 1 .. m, i - 1 \in S PROVE i \in S
    <2> DEFINE l == k + (i - 1)
    <2>1. P(i - 1) /\ l \in Nat /\ l + 1 = k + i /\ l # Len(w)
      <3>1. P(i - 1)
        BY <1>3
      <3>2. l \in Nat /\ l + 1 = k + i /\ l # Len(w)
        BY <1>1
      <3> QED
        BY <3>1, <3>2
    <2>2. Behind(r, l) /\ At(r, l).body = At(r, k).body
          /\ At(r, l).out = u \o Cut(w, k, l) /\ Within(w, k, l)
      BY <2>1
    <2> HIDE DEF P, l, u
    <2>3. /\ Behind(r, l + 1) /\ At(r, l + 1) = ByteRead(Top(r).resp, At(r, l), w[l + 1])
          /\ IsRead(At(r, l))
      BY <2>1, <2>2, BehindHas
    <2>4. At(r, l + 1).body = At(r, l).body /\ At(r, l + 1).out = Append(At(r, l).out, w[l + 1])
      BY <2>3, ByteReadIs
    <2>5. Append(u \o Cut(w, k, l), w[l + 1]) = u \o Cut(w, k, l + 1) /\ Within(w, k, l + 1)
      BY <1>1, <2>1, <2>2, RunStep
    <2>6. P(i)
      BY <2>1, <2>2, <2>3, <2>4, <2>5 DEF P
    <2> QED
      BY <2>6
  <1> HIDE DEF S
  <1>4. m \in S
    BY <1>1, <1>2, <1>3, UpTo
  <1> QED
    BY <1>1, <1>4 DEF S

(* In the data of a chunk the body says what is on the wire, and the        *)
(* decoder counts it.                                                       *)
LEMMA DataRun ==
    ASSUME NEW r, NEW k, Behind(r, k), Top(r).resp.chunked,
           NEW n \in k .. Len(r.wire), n - k <= ScratchMax,
           At(r, k).body.chunk_state = "data", At(r, k).body.err = "none",
           At(r, k).body.chunk_remaining < 0 \/ n - k <= At(r, k).body.chunk_remaining
    PROVE  /\ Behind(r, n) /\ At(r, n).body = DataTaken(At(r, k).body, n - k)
           /\ At(r, n).body.err = "none"
           /\ At(r, n).out = At(r, k).out \o Cut(r.wire, k, n)
           /\ Within(r.wire, k, n)
  <1> DEFINE w == r.wire
             m == n - k
             u == At(r, k).out
             f == At(r, k).body
             P(i) == /\ Behind(r, k + i) /\ At(r, k + i).body = DataTaken(f, i)
                     /\ At(r, k + i).out = u \o Cut(w, k, k + i)
                     /\ Within(w, k, k + i)
             S == {i \in 0 .. m : P(i)}
  <1>1. /\ k \in Nat /\ Len(w) \in Nat /\ m \in Nat /\ IsSeq(w) /\ u \in Seq(ToSet(w))
        /\ Within(w, k, k) /\ k + 0 = k /\ k + m = n /\ 0 \in 0 .. m /\ m \in 0 .. m
        /\ BodyOk(f) /\ m <= ScratchMax
    BY BehindHas DEF IsRead
  <1>2. 0 \in S
    <2>1. Cut(w, k, k) = <<>>
      BY <1>1, CutEmpty
    <2>2. u \o <<>> = u
      BY <1>1, ConcatEmptySeq
    <2>3. DataTaken(f, 0) = f
      <3>1. f.chunk_remaining \in -Half .. Half - 1 /\ f.chunk_remaining # 0 /\ f.chunk_remaining - 0 = f.chunk_remaining
        BY <1>1, HalfHas DEF BodyOk
      <3>2. Int32(f.chunk_remaining - 0) = f.chunk_remaining
        BY <3>1, Int32Is
      <3> HIDE DEF f
      <3>3. DataTaken(f, 0) = [f EXCEPT !.chunk_remaining = f.chunk_remaining, !.chunk_state = @]
        BY <3>1, <3>2 DEF DataTaken
      <3> QED
        BY <1>1, <3>3 DEF BodyOk
    <2> HIDE DEF f, u
    <2>4. P(0)
      BY <1>1, <2>1, <2>2, <2>3 DEF u, f
    <2> QED
      BY <1>1, <2>4
  <1> HIDE DEF f
  <1>3. ASSUME NEW i \in 1 .. m, i - 1 \in S PROVE i \in S
    <2> DEFINE l == k + (i - 1)
               j == i - 1
    <2>1. /\ P(i - 1) /\ l \in Nat /\ l + 1 = k + i /\ l # Len(w)
          /\ j \in Nat /\ j < ScratchMax /\ j + 1 = i
          /\ f.chunk_remaining < 0 \/ j + 1 <= f.chunk_remaining
      <3>1. P(i - 1)
        BY <1>3
      <3>2. l \in Nat /\ l + 1 = k + i /\ l # Len(w)
        BY <1>1
      <3>3. j \in Nat /\ j < ScratchMax /\ j + 1 = i
        BY <1>1, HalfHas
      <3>4. f.chunk_remaining < 0 \/ j + 1 <= f.chunk_remaining
        <4>1. f.chunk_remaining < 0 \/ m <= f.chunk_remaining
          BY DEF f
        <4>2. f.chunk_remaining \in Int
          BY <1>1, HalfHas DEF BodyOk
        <4> QED
          BY <1>1, <4>1, <4>2
      <3> QED
        BY <3>1, <3>2, <3>3, <3>4
    <2>2. Behind(r, l) /\ At(r, l).body = DataTaken(f, j)
          /\ At(r, l).out = u \o Cut(w, k, l) /\ Within(w, k, l)
      BY <2>1
    <2> HIDE DEF P, l, u
    <2>3. /\ Behind(r, l + 1) /\ At(r, l + 1) = ByteRead(Top(r).resp, At(r, l), w[l + 1])
          /\ IsRead(At(r, l))
      BY <2>1, <2>2, BehindHas
    <2>a. /\ f.chunk_state = "data" /\ f.err = "none" /\ f.chunk_remaining \in Int
      BY <1>1 DEF f, BodyOk
    <2> HIDE DEF j
    <2>b. /\ j <= ScratchMax /\ (f.chunk_remaining < 0 \/ j <= f.chunk_remaining)
          /\ f.chunk_remaining # j
      BY <2>1, <2>a, HalfHas
    <2>c. DataTaken(f, j).chunk_state = "data" /\ DataTaken(f, j).err = "none"
      BY <1>1, <2>1, <2>a, <2>b, DataTakenOk
    <2>d. DataTaken(DataTaken(f, j), 1) = DataTaken(f, j + 1)
      BY <1>1, <2>1, <2>a, DataTakenOne
    <2>4. At(r, l + 1).body = DataTaken(At(r, l).body, 1) /\ At(r, l + 1).out = Append(At(r, l).out, w[l + 1])
      <3> DEFINE x == At(r, l)
                 y == ByteRead(Top(r).resp, x, w[l + 1])
      <3>1. /\ IsRead(x) /\ x.body.chunk_state = "data" /\ x.body.err = "none"
            /\ At(r, l + 1) = y
        BY <2>2, <2>3, <2>c
      <3> HIDE DEF x
      <3>2. IF x.body.err # "none" \/ x.body.chunk_state = "done" THEN y = x
            ELSE IF x.body.chunk_state = "data"
            THEN y.body = DataTaken(x.body, 1) /\ y.out = Append(x.out, w[l + 1])
            ELSE y.body = FramingByte(x.body, w[l + 1]) /\ y.out = x.out
        BY <3>1, ByteReadIs
      <3> HIDE DEF y
      <3> QED
        BY <3>1, <3>2 DEF x
    <2>5. Append(u \o Cut(w, k, l), w[l + 1]) = u \o Cut(w, k, l + 1) /\ Within(w, k, l + 1)
      BY <1>1, <2>1, <2>2, RunStep
    <2>6. P(i)
      BY <2>1, <2>2, <2>3, <2>4, <2>5, <2>d DEF P
    <2> QED
      BY <2>6
  <1> HIDE DEF S
  <1>4. m \in S
    BY <1>1, <1>2, <1>3, UpTo
  <1>5. P(m)
    BY <1>4 DEF S
  <1>6. f.chunk_remaining < 0 \/ m <= f.chunk_remaining
    BY DEF f
  <1>7. DataTaken(f, m).err = "none"
    BY <1>1, <1>6, DataTakenOk DEF f
  <1> QED
    BY <1>1, <1>5, <1>7 DEF f

(* Behind the end of the framing the wire says no more.                     *)
LEMMA DoneRun ==
    ASSUME NEW r, NEW k, Behind(r, k), Top(r).resp.chunked,
           NEW n \in k .. Len(r.wire), At(r, k).body.chunk_state = "done"
    PROVE  At(r, n) = At(r, k)
  <1> DEFINE m == n - k
             P(i) == Behind(r, k + i) /\ At(r, k + i) = At(r, k)
             S == {i \in 0 .. m : P(i)}
  <1>1. /\ k \in Nat /\ Len(r.wire) \in Nat /\ m \in Nat
        /\ k + 0 = k /\ k + m = n /\ 0 \in 0 .. m /\ m \in 0 .. m
    BY BehindHas
  <1>2. 0 \in S
    BY <1>1
  <1>3. ASSUME NEW i \in 1 .. m, i - 1 \in S PROVE i \in S
    <2> DEFINE l == k + (i - 1)
    <2>1. P(i - 1) /\ l \in Nat /\ l + 1 = k + i /\ l # Len(r.wire)
      BY <1>1, <1>3
    <2>2. Behind(r, l) /\ At(r, l) = At(r, k)
      BY <2>1
    <2> HIDE DEF P, l
    <2>3. /\ Behind(r, l + 1) /\ At(r, l + 1) = ByteRead(Top(r).resp, At(r, l), r.wire[l + 1])
          /\ IsRead(At(r, l))
      BY <2>1, <2>2, BehindHas
    <2>4. At(r, l + 1) = At(r, l)
      BY <2>2, <2>3, ByteReadIs
    <2>6. P(i)
      BY <2>1, <2>2, <2>3, <2>4 DEF P
    <2> QED
      BY <2>6
  <1> HIDE DEF S
  <1>4. m \in S
    BY <1>1, <1>2, <1>3, UpTo
  <1> QED
    BY <1>1, <1>4 DEF S

-----------------------------------------------------------------------------
(* nm_read_body: what a connection holds is what the wire says, from the    *)
(* place it has understood to what has arrived.                             *)

(* The tokens c has read of the s that have arrived: those it has taken off *)
(* the socket, and those it has understood.                                 *)
Drawn(s, c) == s - Len(c.net)
Place(s, c) == Drawn(s, c) - Len(c.scratch)

(* c has taken q tokens off the socket, and k of them are understood.       *)
ReadsTo(r, s, c, k, q) ==
    /\ r \in Replies /\ IsConn(c) /\ c.closed \in BOOLEAN /\ c.body_started \in BOOLEAN
    /\ Within(r.wire, k, q) /\ c.scratch = Cut(r.wire, k, q)
    /\ Within(r.wire, q, s) /\ c.net = Cut(r.wire, q, s)
    /\ ~c.body_started => k = 0 /\ c.resp = Fresh.resp /\ c.body = Fresh.body /\ c.body_read = 0
    /\ c.body_started => /\ Top(r).body_started /\ Behind(r, k) /\ c.resp = Top(r).resp
                         /\ c.body = At(r, k).body /\ c.body.err = "none"
                         /\ ~c.resp.chunked => c.body_read = k - HeadLen(r)

(* The same, of the places c itself gives.                                  *)
Reads(r, s, c) == ReadsTo(r, s, c, Place(s, c), Drawn(s, c))

(* The places of a connection are given by what it holds.                   *)
LEMMA ReadsAre ==
    ASSUME NEW r, NEW s, NEW c, NEW k, NEW q, ReadsTo(r, s, c, k, q)
    PROVE  /\ Place(s, c) = k /\ Drawn(s, c) = q /\ Reads(r, s, c)
           /\ k \in Nat /\ q \in Nat /\ s \in Nat /\ k <= q /\ q <= s /\ s <= Len(r.wire)
           /\ Len(c.net) = s - q /\ Len(c.scratch) = q - k
           /\ (c.net = <<>> <=> q = s) /\ (c.scratch = <<>> <=> k = q)
           /\ Len(r.wire) \in Nat
  <1>1. /\ Len(c.net) = s - q /\ s \in Nat /\ q \in Nat /\ q <= s /\ s <= Len(r.wire)
        /\ (c.net = <<>> <=> q = s) /\ Len(r.wire) \in Nat
    BY CutIs, CutEmpty DEF ReadsTo
  <1>2. Len(c.scratch) = q - k /\ k \in Nat /\ k <= q /\ (c.scratch = <<>> <=> k = q)
    BY CutIs, CutEmpty DEF ReadsTo
  <1>3. s - (s - q) = q /\ q - (q - k) = k
    BY <1>1, <1>2
  <1>4. Drawn(s, c) = q
    BY <1>1, <1>3 DEF Drawn
  <1>5. Place(s, c) = k
    BY <1>2, <1>3, <1>4 DEF Place
  <1> QED
    BY <1>1, <1>2, <1>4, <1>5 DEF Reads

(* c may read up to n tokens more.                                          *)
Receives(r, s, c, n) == Reads(r, s, c) /\ n \in Nat

(* A read of what is there moves tokens from the socket to the scratch.     *)
LEMMA RecvReads ==
    ASSUME NEW r, NEW s, NEW c, NEW n, Receives(r, s, c, n)
    PROVE  LET d == Recv(c, n)
               t == Least(n, Len(c.net))
           IN /\ Reads(r, s, d) /\ d.closed = c.closed /\ d.body_started = c.body_started
              /\ Place(s, d) = Place(s, c) /\ Drawn(s, d) = Drawn(s, c) + t
              /\ t \in Nat /\ Drawn(s, d) <= s
              /\ d.body = c.body /\ d.resp = c.resp /\ d.body_read = c.body_read
  <1> DEFINE w == r.wire
             k == Place(s, c)
             q == Drawn(s, c)
             t == Least(n, s - q)
             x == c.scratch \o Taken(c.net, n)
             c1 == [c EXCEPT !.scratch = x]
             y == Left(c1.net, n)
             c2 == [c1 EXCEPT !.net = y]
             d == Recv(c, n)
  <1>0. n \in Nat /\ Reads(r, s, c)
    BY DEF Receives
  <1>1. d = c2
    BY DEF Recv
  <1>2. /\ r \in Replies /\ IsConn(c) /\ c.closed \in BOOLEAN /\ c.body_started \in BOOLEAN
        /\ Within(w, k, q) /\ c.scratch = Cut(w, k, q)
        /\ Within(w, q, s) /\ c.net = Cut(w, q, s) /\ Len(c.net) = s - q
    <2>1. ReadsTo(r, s, c, k, q)
      BY <1>0 DEF Reads
    <2>2. Len(c.net) = s - q
      BY <2>1, ReadsAre
    <2>3. /\ r \in Replies /\ IsConn(c) /\ c.closed \in BOOLEAN /\ c.body_started \in BOOLEAN
          /\ Within(w, k, q) /\ c.scratch = Cut(w, k, q)
          /\ Within(w, q, s) /\ c.net = Cut(w, q, s)
      BY <2>1 DEF ReadsTo
    <2> QED
      BY <2>2, <2>3
  <1>r. ReadsTo(r, s, c, k, q)
    BY <1>0 DEF Reads
  <1> HIDE DEF w, k, q, d
  <1>3. /\ t \in Nat /\ Within(w, q, q + t) /\ Within(w, q + t, s)
        /\ Taken(Cut(w, q, s), n) = Cut(w, q, q + t)
        /\ Left(Cut(w, q, s), n) = Cut(w, q + t, s)
    <2>1. /\ t \in Nat /\ Within(w, q, q + t) /\ Within(w, q + t, s)
      BY <1>0, <1>2, CutTaken
    <2>2. Taken(Cut(w, q, s), n) = Cut(w, q, q + t)
      BY <1>0, <1>2, CutTaken
    <2>3. Left(Cut(w, q, s), n) = Cut(w, q + t, s)
      BY <1>0, <1>2, CutTaken
    <2> QED
      BY <2>1, <2>2, <2>3
  <1> HIDE DEF t
  <1>4. x = Cut(w, k, q + t) /\ Within(w, k, q + t)
    <2>1. x = Cut(w, k, q) \o Cut(w, q, q + t)
      BY <1>2, <1>3
    <2> HIDE DEF x
    <2> DEFINE q1 == q + t
    <2>2. Within(w, q, q1) /\ x = Cut(w, k, q) \o Cut(w, q, q1)
      BY <1>3, <2>1
    <2> HIDE DEF q1
    <2>3. x = Cut(w, k, q1) /\ Within(w, k, q1)
      BY <1>2, <2>2, CutJoin
    <2> QED
      BY <2>3 DEF q1
  <1> HIDE DEF x
  <1>5. /\ IsConn(c1) /\ c1.net = c.net /\ c1.closed = c.closed /\ c1.scratch = x
        /\ c1.body_started = c.body_started /\ c1.body = c.body /\ c1.resp = c.resp
        /\ c1.body_read = c.body_read
    BY <1>2, Put_scratch
  <1> HIDE DEF c1
  <1>6. y = Cut(w, q + t, s)
    BY <1>2, <1>3, <1>5
  <1> HIDE DEF y
  <1>7. /\ IsConn(c2) /\ c2.net = y /\ c2.closed = c.closed /\ c2.scratch = x
        /\ c2.body_started = c.body_started /\ c2.body = c.body /\ c2.resp = c.resp
        /\ c2.body_read = c.body_read
    BY <1>5, Put_net
  <1> HIDE DEF c2
  <1>8. ReadsTo(r, s, d, k, q + t)
    BY <1>1, <1>2, <1>3, <1>4, <1>6, <1>7, <1>r DEF ReadsTo, w
  <1>9. Place(s, d) = k /\ Drawn(s, d) = q + t /\ Reads(r, s, d) /\ q + t <= s
    BY <1>8, ReadsAre
  <1> QED
    BY <1>1, <1>2, <1>3, <1>7, <1>9 DEF d, k, q, t

(* The head is read when it is there.                                       *)
LEMMA HeadReads ==
    ASSUME NEW r, NEW s, NEW c, Reads(r, s, c), ~c.body_started, HeadEnd(c.scratch) # 0
    PROVE  LET d == HeadRead(c)
           IN /\ Reads(r, s, d) /\ d.closed = c.closed /\ d.body_started = TRUE
              /\ Place(s, c) = 0 /\ Drawn(s, d) = Drawn(s, c)
              /\ Place(s, d) = HeadLen(r) /\ HeadLen(r) \in Nat
              /\ Pay(r, HeadLen(r)) = 0 /\ Pay(r, 0) = 0
  <1> DEFINE w == r.wire
             q == Drawn(s, c)
             e == HeadEnd(w)
             d == HeadRead(c)
  <1>r. ReadsTo(r, s, c, Place(s, c), q)
    BY DEF Reads
  <1>1. /\ r \in Replies /\ IsConn(c) /\ c.closed \in BOOLEAN
        /\ Place(s, c) = 0 /\ Within(w, 0, q) /\ c.scratch = Cut(w, 0, q)
        /\ Within(w, q, s) /\ c.net = Cut(w, q, s)
        /\ c.body = Fresh.body /\ c.body_read = 0
    BY <1>r DEF ReadsTo
  <1>2. IsSeq(w) /\ e \in 0 .. Len(w) /\ Len(w) \in Nat /\ q \in Nat /\ q <= Len(w)
    BY <1>1, CutIs, HeadEndIs
  <1>3. HeadEnd(c.scratch) = e /\ e # 0 /\ e <= q /\ e \in Nat
    BY <1>1, <1>2, HeadEndOfCut
  <1>4. Top(r).body_started /\ HeadLen(r) = e
    BY <1>1, <1>3, TopIs DEF HeadLen
  <1>5. Behind(r, e)
    BY <1>1, <1>2, <1>4 DEF Behind
  <1> DEFINE f == HeadSays(SubSeq(w, 1, e - 1))
  <1>6. SubSeq(c.scratch, 1, e - 1) = SubSeq(w, 1, e - 1)
    <2> DEFINE j == e - 1
    <2>1. j \in Nat /\ 0 <= j /\ j <= q - 0 /\ 0 + j = j /\ 0 + 0 = 0 /\ 0 + 1 = 1 /\ 0 \in Nat
      BY <1>2, <1>3
    <2> HIDE DEF j, w, q
    <2>2. Cut(Cut(w, 0, q), 0, j) = Cut(w, 0 + 0, 0 + j)
      BY <1>1, <2>1, CutCut
    <2>3. Cut(c.scratch, 0, j) = Cut(w, 0, j)
      BY <1>1, <2>1, <2>2
    <2> QED
      BY <2>1, <2>3 DEF Cut, j
  <1>7. Top(r).resp = f /\ Top(r).body = [Fresh.body EXCEPT !.headers = f.headers]
    BY <1>1, <1>4, TopIs
  <1> HIDE DEF w, q, e, d, f
  <1>8. /\ IsConn(d) /\ d.net = c.net /\ d.closed = c.closed
        /\ d.scratch = Left(c.scratch, e) /\ d.body_started = TRUE
        /\ d.body_read = c.body_read
    BY <1>1, <1>3, HeadReadIs DEF d
  <1>9. d.resp = f /\ d.body = [c.body EXCEPT !.headers = f.headers]
    BY <1>1, <1>3, <1>6, HeadReadIs DEF d, f
  <1>10. d.scratch = Cut(w, e, q) /\ Within(w, e, q)
    <2>1. Least(e, q - 0) = e /\ 0 + e = e
      BY <1>2, <1>3 DEF Least
    <2>2. /\ Within(w, 0 + Least(e, q - 0), q)
          /\ Left(Cut(w, 0, q), e) = Cut(w, 0 + Least(e, q - 0), q)
      BY <1>1, <1>3, CutTaken
    <2> QED
      BY <1>1, <1>8, <2>1, <2>2
  <1>11. /\ At(r, e) = [body |-> Top(r).body, out |-> <<>>]
         /\ At(r, 0) = [body |-> Top(r).body, out |-> <<>>]
    <2>1. e \in 0 .. Len(r.wire) /\ e <= HeadLen(r) /\ 0 \in 0 .. Len(r.wire) /\ 0 <= HeadLen(r)
      BY <1>2, <1>3, <1>4 DEF w
    <2> QED
      BY <1>1, <2>1, AtIs
  <1>12. Pay(r, e) = 0 /\ Pay(r, 0) = 0 /\ At(r, e).body = Top(r).body
    BY <1>11 DEF Pay
  <1>13. Top(r).body.err = "none"
    BY <1>1, TopIs
  <1>14. e - HeadLen(r) = 0
    BY <1>3, <1>4
  <1>15. ReadsTo(r, s, d, e, q)
    <2>1. /\ r \in Replies /\ IsConn(d) /\ d.closed \in BOOLEAN /\ d.body_started \in BOOLEAN
          /\ Within(r.wire, e, q) /\ d.scratch = Cut(r.wire, e, q)
          /\ Within(r.wire, q, s) /\ d.net = Cut(r.wire, q, s)
      BY <1>1, <1>8, <1>10 DEF w
    <2>2. /\ Top(r).body_started /\ Behind(r, e) /\ d.resp = Top(r).resp
      BY <1>4, <1>5, <1>7, <1>9
    <2>3. d.body = At(r, e).body /\ d.body.err = "none"
      BY <1>1, <1>7, <1>9, <1>12, <1>13
    <2>4. d.body_read = e - HeadLen(r)
      BY <1>1, <1>8, <1>14
    <2> QED
      BY <1>8, <2>1, <2>2, <2>3, <2>4 DEF ReadsTo
  <1>16. Place(s, d) = e /\ Drawn(s, d) = q /\ Reads(r, s, d)
    BY <1>15, ReadsAre
  <1> QED
    BY <1>1, <1>3, <1>4, <1>8, <1>12, <1>16 DEF d, q

(* A call of nm_read_body, z: on the reply z.reply of which z.sent tokens   *)
(* have arrived, from the place z.from on, into z.cap bytes.                *)
Gathered(z, k) == Cut(Bytes(z.reply), Pay(z.reply, z.from), Pay(z.reply, k))

(* The connection of the call, and what it has decoded so far.              *)
Mid(z, c, out) ==
    /\ Reads(z.reply, z.sent, c) /\ c.closed = z.closed
    /\ z.from \in 0 .. Place(z.sent, c)
    /\ out = Gathered(z, Place(z.sent, c))
    /\ Len(c.scratch) <= ScratchMax /\ z.cap \in Nat \ {0}

(* A connection that reads a reply: its places in order, and what it holds. *)
LEMMA ReadsHas ==
    ASSUME NEW r, NEW s, NEW c, Reads(r, s, c)
    PROVE  /\ ReadsTo(r, s, c, Place(s, c), Drawn(s, c)) /\ r \in Replies
           /\ Place(s, c) \in Nat /\ Drawn(s, c) \in Nat /\ s \in Nat /\ Len(r.wire) \in Nat
           /\ Place(s, c) <= Drawn(s, c) /\ Drawn(s, c) <= s /\ s <= Len(r.wire)
           /\ Len(c.net) = s - Drawn(s, c) /\ Len(c.scratch) = Drawn(s, c) - Place(s, c)
           /\ (c.net = <<>> <=> Drawn(s, c) = s) /\ (c.scratch = <<>> <=> Place(s, c) = Drawn(s, c))
           /\ Place(s, c) \in 0 .. s /\ s \in 0 .. Len(r.wire) /\ Place(s, c) \in 0 .. Len(r.wire)
  <1>1. ReadsTo(r, s, c, Place(s, c), Drawn(s, c)) /\ r \in Replies
    BY DEF Reads, ReadsTo
  <1>2. /\ Place(s, c) \in Nat /\ Drawn(s, c) \in Nat /\ s \in Nat /\ Len(r.wire) \in Nat
        /\ Place(s, c) <= Drawn(s, c) /\ Drawn(s, c) <= s /\ s <= Len(r.wire)
        /\ Len(c.net) = s - Drawn(s, c) /\ Len(c.scratch) = Drawn(s, c) - Place(s, c)
        /\ (c.net = <<>> <=> Drawn(s, c) = s) /\ (c.scratch = <<>> <=> Place(s, c) = Drawn(s, c))
    BY <1>1, ReadsAre
  <1> QED
    BY <1>1, <1>2

(* In a call: what it has decoded is what the wire says from its beginning  *)
(* to where it is.                                                          *)
LEMMA MidHas ==
    ASSUME NEW z, NEW c, NEW out, Mid(z, c, out)
    PROVE  LET k == Place(z.sent, c)
           IN /\ Reads(z.reply, z.sent, c) /\ z.reply \in Replies
              /\ k \in Nat /\ z.from \in 0 .. k /\ z.from \in Nat
              /\ k \in 0 .. Len(z.reply.wire) /\ Len(z.reply.wire) \in Nat
              /\ Pay(z.reply, k) \in Nat /\ Pay(z.reply, z.from) \in Nat
              /\ Pay(z.reply, z.from) <= Pay(z.reply, k)
              /\ Within(Bytes(z.reply), Pay(z.reply, z.from), Pay(z.reply, k))
              /\ out \in Seq(ToSet(Bytes(z.reply))) /\ IsSeq(out)
              /\ Len(out) = Pay(z.reply, k) - Pay(z.reply, z.from) /\ Len(out) \in Nat
              /\ (out = <<>> <=> Pay(z.reply, k) = Pay(z.reply, z.from))
  <1> DEFINE r == z.reply
             k == Place(z.sent, c)
             p == Pay(r, k)
             f == Pay(r, z.from)
             B == Bytes(r)
  <1>1. /\ Reads(r, z.sent, c) /\ r \in Replies /\ k \in Nat
        /\ z.from \in 0 .. k /\ z.from \in Nat /\ k \in 0 .. Len(r.wire) /\ k \in 0 .. k
        /\ Len(r.wire) \in Nat /\ out = Cut(B, f, p)
    BY ReadsHas DEF Mid, Gathered
  <1>2. Within(B, f, p) /\ f \in Nat /\ f <= p
    BY <1>1, PayIs
  <1>3. p \in Nat
    BY <1>1, PayIs
  <1> HIDE DEF B, f, p
  <1>4. out \in Seq(ToSet(B)) /\ IsSeq(out) /\ Len(out) = p - f /\ p - f \in Nat
    BY <1>1, <1>2, CutIs
  <1>5. out = <<>> <=> p = f
    BY <1>1, <1>2, CutEmpty
  <1> QED
    BY <1>1, <1>2, <1>3, <1>4, <1>5 DEF B, f, p

(* d is c further on in the same call.                                      *)
Further(z, c, d) ==
    /\ Reads(z.reply, z.sent, d) /\ d.closed = c.closed
    /\ Place(z.sent, c) <= Place(z.sent, d) /\ Len(d.scratch) <= ScratchMax

(* Going on without new bytes keeps the call's part.                        *)
LEMMA MidStays ==
    ASSUME NEW z, NEW c, NEW out, Mid(z, c, out), NEW d, Further(z, c, d),
           Pay(z.reply, Place(z.sent, d)) = Pay(z.reply, Place(z.sent, c))
    PROVE  Mid(z, d, out)
  <1> DEFINE k == Place(z.sent, c)
             n == Place(z.sent, d)
  <1>1. z.from \in 0 .. k /\ k \in Nat
    BY MidHas
  <1>2. n \in Nat /\ k <= n
    BY ReadsHas DEF Further
  <1>3. z.from \in 0 .. n
    BY <1>1, <1>2
  <1>4. out = Gathered(z, k) /\ d.closed = z.closed /\ z.cap \in Nat \ {0}
    BY DEF Mid, Further
  <1>5. Gathered(z, n) = Gathered(z, k)
    BY DEF Gathered
  <1> QED
    BY <1>3, <1>4, <1>5 DEF Mid, Further

(* Going on with the bytes x adds them to it.                               *)
LEMMA MidMoves ==
    ASSUME NEW z, NEW c, NEW out, Mid(z, c, out), NEW d, Further(z, c, d), NEW x, IsSeq(x),
           At(z.reply, Place(z.sent, d)).out = At(z.reply, Place(z.sent, c)).out \o x
    PROVE  Mid(z, d, out \o x)
  <1> DEFINE r == z.reply
             k == Place(z.sent, c)
             n == Place(z.sent, d)
             B == Bytes(r)
             f == Pay(r, z.from)
             p == Pay(r, k)
             q == Pay(r, n)
  <1>1. z.from \in 0 .. k /\ k \in Nat /\ r \in Replies /\ Within(B, f, p) /\ z.from \in Nat
    BY MidHas
  <1>2. n \in Nat /\ k <= n /\ n \in 0 .. Len(r.wire)
    BY ReadsHas DEF Further
  <1>3. z.from \in 0 .. n /\ k \in 0 .. n
    BY <1>1, <1>2
  <1>4. out = Cut(B, f, p) /\ d.closed = z.closed /\ z.cap \in Nat \ {0}
    BY DEF Mid, Further, Gathered
  <1>5. x = Cut(B, p, q)
    BY <1>1, <1>2, <1>3, PieceSays
  <1>6. Within(B, p, q)
    BY <1>1, <1>2, <1>3, PayIs
  <1> HIDE DEF B, f, p, q
  <1>7. out \o x = Cut(B, f, q)
    BY <1>1, <1>4, <1>5, <1>6, CutJoin
  <1>8. out \o x = Gathered(z, n)
    BY <1>7 DEF Gathered, B, f, q
  <1> QED
    BY <1>3, <1>4, <1>8 DEF Mid, Further

(* What the turns of a call of nm_read_body keep, x = [c, ret, out].        *)
Good(z, x) ==
    /\ x = [c |-> x.c, ret |-> x.ret, out |-> x.out]
    /\ x.ret \in {"go", "data", "end", "block", "error"}
    /\ x.ret # "error" => Mid(z, x.c, x.out)
    /\ x.ret = "go" => /\ Len(x.out) < z.cap
                       /\ x.c.body_started /\ ~x.c.resp.chunked => x.out = <<>>
    /\ x.ret = "data" => x.out # <<>>
    /\ x.ret \in {"data", "end"} => x.c.body_started
    /\ x.ret \in {"end", "block"} =>
          x.out = <<>> /\ Pay(z.reply, Place(z.sent, x.c)) = Pay(z.reply, z.sent)
    /\ x.ret = "block" => x.c.net = <<>> /\ ~x.c.closed

(* How many turns are left at most.                                         *)
Rest(x) == IF x.ret # "go" THEN 0
           ELSE 2 * Len(x.c.net) + Len(x.c.scratch)
                  + (IF x.c.body_started THEN 1 ELSE 2)

(* How many turns are left is a number, 0 when the call is over.            *)
LEMMA RestIs ==
    ASSUME NEW z, NEW x, Good(z, x)
    PROVE  /\ Rest(x) \in Nat /\ (Rest(x) = 0 <=> x.ret # "go")
           /\ x.ret = "go" =>
                 Rest(x) = 2 * z.sent - Drawn(z.sent, x.c) - Place(z.sent, x.c)
                             + (IF x.c.body_started THEN 1 ELSE 2)
  <1>1. CASE x.ret # "go"
    BY <1>1 DEF Rest
  <1>2. CASE x.ret = "go"
    <2> DEFINE k == Place(z.sent, x.c)
               q == Drawn(z.sent, x.c)
    <2>1. Reads(z.reply, z.sent, x.c)
      BY <1>2 DEF Good, Mid
    <2>2. /\ k \in Nat /\ q \in Nat /\ z.sent \in Nat /\ k <= q /\ q <= z.sent
          /\ Len(x.c.net) = z.sent - q /\ Len(x.c.scratch) = q - k
      BY <2>1, ReadsHas
    <2>3. Rest(x) = 2 * Len(x.c.net) + Len(x.c.scratch) + (IF x.c.body_started THEN 1 ELSE 2)
      BY <1>2 DEF Rest
    <2> HIDE DEF k, q
    <2>4. Rest(x) = 2 * (z.sent - q) + (q - k) + (IF x.c.body_started THEN 1 ELSE 2)
      BY <2>2, <2>3
    <2>5. Rest(x) = 2 * z.sent - q - k + (IF x.c.body_started THEN 1 ELSE 2) /\ Rest(x) \in Nat /\ Rest(x) # 0
      BY <2>2, <2>4
    <2> QED
      BY <1>2, <2>5 DEF k, q
  <1> QED
    BY <1>1, <1>2

(* A turn that goes on: only the connection changes.                        *)
On(x, d) == [x EXCEPT !.c = d]

(* A turn that only changes the connection keeps the call going.            *)
LEMMA GoesOn ==
    ASSUME NEW z, NEW x, Good(z, x), x.ret = "go", NEW d, Mid(z, d, x.out),
           d.body_started /\ ~d.resp.chunked => x.out = <<>>
    PROVE  Good(z, On(x, d)) /\ On(x, d).c = d /\ On(x, d).ret = "go" /\ On(x, d).out = x.out
  <1> DEFINE y == On(x, d)
  <1>1. y.c = d /\ y.ret = "go" /\ y.out = x.out /\ y = [c |-> y.c, ret |-> y.ret, out |-> y.out]
    BY DEF Good, On
  <1> HIDE DEF y
  <1>2. Good(z, y)
    BY <1>1 DEF Good
  <1> QED
    BY <1>1, <1>2 DEF y

(* A call that fails is over.                                               *)
LEMMA FailsGood ==
    ASSUME NEW z, NEW c, NEW why
    PROVE  Good(z, Fails(c, why)) /\ Rest(Fails(c, why)) = 0 /\ Fails(c, why).ret # "go"
  BY DEF Good, Fails, Gives, Rest

(* A call that returns is over, and returns what it should.                 *)
LEMMA GivesGood ==
    ASSUME NEW z, NEW c, NEW ret, NEW out, Mid(z, c, out),
           \/ ret = "data" /\ out # <<>> /\ c.body_started
           \/ /\ ret = "end" /\ c.body_started /\ out = <<>>
              /\ Pay(z.reply, Place(z.sent, c)) = Pay(z.reply, z.sent)
           \/ /\ ret = "block" /\ c.net = <<>> /\ ~c.closed /\ out = <<>>
              /\ Pay(z.reply, Place(z.sent, c)) = Pay(z.reply, z.sent)
    PROVE  Good(z, Gives(c, ret, out)) /\ Rest(Gives(c, ret, out)) = 0 /\ Gives(c, ret, out).ret # "go"
  <1> DEFINE y == Gives(c, ret, out)
  <1>1. y.c = c /\ y.ret = ret /\ y.out = out /\ y = [c |-> y.c, ret |-> y.ret, out |-> y.out]
    BY DEF Gives
  <1> HIDE DEF y
  <1>2. Good(z, y)
    BY <1>1 DEF Good
  <1>3. Rest(y) = 0 /\ y.ret # "go"
    BY <1>1 DEF Rest
  <1> QED
    BY <1>2, <1>3 DEF y

(* A turn got on with the call: it goes on well and comes closer to its end.*)
Turned(z, x, y) == Good(z, y) /\ Rest(y) < Rest(x)

(* A turn that ends the call has brought it on.                             *)
LEMMA Ended ==
    ASSUME NEW z, NEW x, Good(z, x), x.ret = "go", NEW y, Good(z, y), Rest(y) = 0
    PROVE  Turned(z, x, y)
  <1>1. Rest(x) \in Nat /\ Rest(x) # 0
    BY RestIs
  <1> QED
    BY <1>1 DEF Turned

(* A read of what is there.                                                 *)
LEMMA RecvTurn ==
    ASSUME NEW z, NEW x, Good(z, x), x.ret = "go", NEW n \in Nat, n # 0,
           x.c.net # <<>>, Len(x.c.scratch) + n <= ScratchMax
    PROVE  Turned(z, x, On(x, Recv(x.c, n)))
  <1> DEFINE c == x.c
             s == z.sent
             t == Least(n, Len(c.net))
             d == Recv(c, n)
             y == On(x, d)
             k == Place(s, c)
             q == Drawn(s, c)
             k1 == Place(s, d)
             q1 == Drawn(s, d)
  <1>1. Mid(z, c, x.out)
    BY DEF Good
  <1>2. Reads(z.reply, s, c) /\ Len(c.scratch) <= ScratchMax
    BY <1>1 DEF Mid
  <1>3. /\ Reads(z.reply, s, d) /\ d.closed = c.closed /\ d.body_started = c.body_started
        /\ k1 = k /\ q1 = q + t /\ t \in Nat /\ q1 <= s /\ d.resp = c.resp
    <2> DEFINE r == z.reply
    <2>r. Receives(r, s, c, n)
      BY <1>2 DEF Receives
    <2> HIDE DEF c, s, r, d, k, q, k1, q1, t
    <2>a. /\ Reads(r, s, Recv(c, n)) /\ Recv(c, n).closed = c.closed
          /\ Recv(c, n).body_started = c.body_started /\ Recv(c, n).resp = c.resp
      BY <2>r, RecvReads
    <2>b. /\ Place(s, Recv(c, n)) = Place(s, c) /\ Drawn(s, Recv(c, n)) = Drawn(s, c) + Least(n, Len(c.net))
          /\ Least(n, Len(c.net)) \in Nat /\ Drawn(s, Recv(c, n)) <= s
      BY <2>r, RecvReads
    <2>2. /\ Reads(z.reply, s, d) /\ d.closed = c.closed /\ d.body_started = c.body_started
          /\ d.resp = c.resp
      BY <2>a DEF d, r
    <2>3. k1 = k /\ q1 = q + t /\ t \in Nat /\ q1 <= s
      BY <2>b DEF d, r, k, q, k1, q1, t
    <2> QED
      BY <2>2, <2>3
  <1>4. /\ k \in Nat /\ q \in Nat /\ s \in Nat /\ Len(c.net) = s - q
        /\ c.net # <<>> => q # s
        /\ Len(c.scratch) = q - k
    BY <1>2, ReadsHas
  <1>a. c.net # <<>> /\ q <= s
    BY <1>2, ReadsHas
  <1>5. t >= 1 /\ t <= n
    BY <1>4, <1>a DEF Least
  <1>6. Len(d.scratch) = q1 - k1
    BY <1>3, ReadsHas
  <1> HIDE DEF c, d, t, k, q, k1, q1
  <1>b. Len(c.scratch) + n <= ScratchMax
    BY DEF c
  <1>7. Len(d.scratch) <= ScratchMax
    BY <1>3, <1>4, <1>5, <1>6, <1>b, HalfHas
  <1>8. Further(z, c, d)
    <2>1. k <= k1
      BY <1>3, <1>4
    <2> QED
      BY <1>3, <1>7, <2>1 DEF Further, k, k1
  <1>9. Mid(z, d, x.out)
    BY <1>1, <1>3, <1>8, MidStays DEF k, k1
  <1>10. Good(z, y) /\ y.c = d /\ y.ret = "go"
    <2>1. d.body_started /\ ~d.resp.chunked => x.out = <<>>
      BY <1>3 DEF Good, c
    <2> QED
      BY <1>9, <2>1, GoesOn
  <1> HIDE DEF y
  <1>x. x.ret = "go" /\ Good(z, x)
    OBVIOUS
  <1>11. Rest(x) = 2 * s - q - k + (IF c.body_started THEN 1 ELSE 2)
    BY <1>x, RestIs DEF c, q, k
  <1>12. Rest(y) = 2 * s - q1 - k1 + (IF d.body_started THEN 1 ELSE 2)
    BY <1>10, RestIs DEF q1, k1
  <1>13. Rest(y) < Rest(x)
    BY <1>3, <1>4, <1>5, <1>11, <1>12
  <1> QED
    BY <1>10, <1>13 DEF Turned, y, d, c

(* The verdict over what is in the scratch: only a whole head is read, and  *)
(* an incomplete one leaves room.                                           *)
LEMMA HeadVerdictIs ==
    ASSUME NEW c, IsSeq(c.scratch)
    PROVE  /\ HeadVerdict(c) \in {"malformed", "incomplete", "whole"}
           /\ HeadVerdict(c) = "whole" => HeadEnd(c.scratch) # 0
           /\ HeadVerdict(c) = "incomplete" =>
                 HeadEnd(c.scratch) = 0 /\ Len(c.scratch) < ScratchMax
  <1> DEFINE long == Len(c.scratch) >= ScratchMax
             sane == /\ HeadLine[c.scratch[1]].is = "status"
                     /\ HeadLine[c.scratch[1]].number \in 100 .. 599
             v == HeadVerdict(c)
  <1>1. ~long => Len(c.scratch) < ScratchMax
    BY SeqHas, HalfHas
  <1>2. v = IF HeadEnd(c.scratch) = 0 THEN IF long THEN "malformed" ELSE "incomplete"
            ELSE IF sane THEN "whole" ELSE "malformed"
    BY DEF HeadVerdict
  <1> HIDE DEF long, sane, v
  <1>3. /\ v \in {"malformed", "incomplete", "whole"}
        /\ v = "whole" => HeadEnd(c.scratch) # 0
        /\ v = "incomplete" => HeadEnd(c.scratch) = 0 /\ ~long
    BY <1>2
  <1> QED
    BY <1>1, <1>3 DEF v

(* Where the head has not ended, the wire has said nothing.                 *)
LEMMA HeadSilent ==
    ASSUME NEW r, NEW s, NEW c, Reads(r, s, c), ~c.body_started, HeadEnd(c.scratch) = 0,
           c.net = <<>>
    PROVE  Pay(r, s) = 0 /\ Pay(r, Place(s, c)) = 0 /\ Place(s, c) = 0
  <1>1. /\ ReadsTo(r, s, c, Place(s, c), Drawn(s, c)) /\ r \in Replies /\ Drawn(s, c) = s
        /\ s \in 0 .. Len(r.wire)
    BY ReadsHas
  <1>2. Place(s, c) = 0 /\ Within(r.wire, 0, s) /\ c.scratch = Cut(r.wire, 0, s)
    BY <1>1 DEF ReadsTo
  <1>3. ~(HeadEnd(r.wire) # 0 /\ HeadEnd(r.wire) <= s)
    BY <1>2, HeadEndOfCut
  <1>4. /\ HeadLen(r) \in 0 .. Len(r.wire) /\ Len(r.wire) \in Nat /\ IsSeq(r.wire)
        /\ Top(r).body_started <=> HeadEnd(r.wire) # 0
    BY <1>1, TopIs
  <1>5. HeadEnd(r.wire) \in 0 .. Len(r.wire)
    BY <1>4, HeadEndIs
  <1>6. s <= HeadLen(r) /\ 0 <= HeadLen(r) /\ 0 \in 0 .. Len(r.wire)
    BY <1>1, <1>3, <1>4, <1>5 DEF HeadLen
  <1>7. At(r, s).out = <<>> /\ At(r, 0).out = <<>>
    BY <1>1, <1>6, AtIs
  <1> QED
    BY <1>2, <1>7 DEF Pay

(* A turn that waits for the head gets on (nm_read_body, before             *)
(* body_started).                                                           *)
LEMMA HeadTurnGood ==
    ASSUME NEW z, NEW x, Good(z, x), x.ret = "go", ~x.c.body_started
    PROVE  Turned(z, x, HeadTurn(x))
  <1> DEFINE c == x.c
             s == z.sent
             v == HeadVerdict(c)
             n == ScratchMax - Len(c.scratch)
             d == HeadRead(c)
             a1 == On(x, d)
             a2 == Fails(c, "protocol")
             a3 == On(x, Recv(c, n))
             a4 == Fails(c, "closed")
             a5 == Gives(c, "block", <<>>)
  <1>1. Mid(z, c, x.out) /\ Reads(z.reply, s, c) /\ z.reply \in Replies
    BY MidHas DEF Good
  <1>2. /\ ReadsTo(z.reply, s, c, Place(s, c), Drawn(s, c)) /\ Place(s, c) \in Nat
        /\ Len(c.scratch) = Drawn(s, c) - Place(s, c) /\ Drawn(s, c) \in Nat
    BY <1>1, ReadsHas
  <1>3. /\ Place(s, c) = 0 /\ c.scratch = Cut(z.reply.wire, 0, Drawn(s, c))
        /\ Within(z.reply.wire, 0, Drawn(s, c)) /\ c.closed \in BOOLEAN
    BY <1>2 DEF ReadsTo
  <1>4. IsSeq(c.scratch) /\ Len(c.scratch) \in Nat
    BY <1>2, <1>3, CutIs
  <1>5. /\ v \in {"malformed", "incomplete", "whole"}
        /\ v = "whole" => HeadEnd(c.scratch) # 0
        /\ v = "incomplete" => HeadEnd(c.scratch) = 0 /\ Len(c.scratch) < ScratchMax
    BY <1>4, HeadVerdictIs
  <1>6. HeadTurn(x) =
          CASE v = "whole" -> a1
            [] v = "malformed" -> a2
            [] v = "incomplete" /\ c.net # <<>> -> a3
            [] v = "incomplete" /\ c.net = <<>> -> IF c.closed THEN a4 ELSE a5
    BY DEF HeadTurn, On
  <1>7. x.out = <<>>
    <2>1. z.from \in 0 .. 0
      BY <1>1, <1>3, MidHas
    <2>2. z.from = 0
      BY <2>1
    <2> QED
      BY <1>1, <1>3, <2>2, MidHas
  <1>8. CASE v = "whole"
    <2>1. HeadEnd(c.scratch) # 0
      BY <1>5, <1>8
    <2> DEFINE r == z.reply
    <2>2. /\ Reads(r, s, d) /\ d.closed = c.closed /\ d.body_started = TRUE
          /\ Drawn(s, d) = Drawn(s, c)
          /\ Place(s, d) = HeadLen(r) /\ HeadLen(r) \in Nat
          /\ Pay(r, HeadLen(r)) = 0 /\ Pay(r, 0) = 0
      <3>1. Reads(r, s, c) /\ ~c.body_started /\ HeadEnd(c.scratch) # 0
        BY <1>1, <2>1
      <3> HIDE DEF r, s, c, d
      <3>2. /\ Reads(r, s, HeadRead(c)) /\ HeadRead(c).closed = c.closed /\ HeadRead(c).body_started = TRUE
            /\ Drawn(s, HeadRead(c)) = Drawn(s, c)
            /\ Place(s, HeadRead(c)) = HeadLen(r) /\ HeadLen(r) \in Nat
            /\ Pay(r, HeadLen(r)) = 0 /\ Pay(r, 0) = 0
        BY <3>1, HeadReads
      <3> QED
        BY <3>2 DEF d
    <2>3. Len(d.scratch) = Drawn(s, d) - Place(s, d)
      BY <2>2, ReadsHas
    <2>4. Len(d.scratch) <= ScratchMax
      <3>1. Len(c.scratch) <= ScratchMax
        BY <1>1 DEF Mid
      <3> HIDE DEF c, d
      <3> QED
        BY <1>2, <1>3, <2>2, <2>3, <3>1, HalfHas
    <2> HIDE DEF c, d
    <2>5. Further(z, c, d)
      BY <1>3, <2>2, <2>4 DEF Further
    <2>6. Mid(z, d, x.out)
      BY <1>1, <1>3, <2>2, <2>5, MidStays
    <2>7. Good(z, a1) /\ a1.c = d /\ a1.ret = "go"
      BY <1>7, <2>6, GoesOn
    <2> HIDE DEF a1
    <2>8. Rest(a1) = 2 * s - Drawn(s, d) - Place(s, d) + (IF d.body_started THEN 1 ELSE 2)
      BY <2>7, RestIs
    <2>9. Rest(x) = 2 * s - Drawn(s, c) - Place(s, c) + (IF c.body_started THEN 1 ELSE 2)
      BY RestIs DEF c
    <2>10. ~c.body_started /\ s \in Nat
      BY <1>1, ReadsHas DEF c
    <2>11. Rest(a1) < Rest(x)
      BY <1>2, <1>3, <2>2, <2>8, <2>9, <2>10
    <2>12. HeadTurn(x) = a1
      BY <1>6, <1>8
    <2> QED
      BY <2>7, <2>11, <2>12 DEF Turned
  <1>9. CASE v = "malformed"
    <2>1. HeadTurn(x) = a2
      BY <1>6, <1>9
    <2> QED
      BY <2>1, FailsGood, Ended
  <1>10. CASE v = "incomplete" /\ c.net # <<>>
    <2>1. HeadTurn(x) = a3
      BY <1>6, <1>10
    <2>2. n \in Nat /\ n # 0 /\ Len(x.c.scratch) + n <= ScratchMax
      BY <1>4, <1>5, <1>10, HalfHas
    <2> HIDE DEF n
    <2> QED
      BY <1>10, <2>1, <2>2, RecvTurn
  <1>11. CASE v = "incomplete" /\ c.net = <<>>
    <2>1. HeadTurn(x) = IF c.closed THEN a4 ELSE a5
      BY <1>6, <1>11
    <2>2. CASE c.closed
      BY <2>1, <2>2, FailsGood, Ended
    <2>3. CASE ~c.closed
      <3>1. HeadEnd(c.scratch) = 0
        BY <1>5, <1>11
      <3>2. Pay(z.reply, s) = 0 /\ Pay(z.reply, Place(s, c)) = 0
        BY <1>1, <1>11, <3>1, HeadSilent
      <3>3. Good(z, a5) /\ Rest(a5) = 0
        BY <1>1, <1>7, <1>11, <2>3, <3>2, GivesGood
      <3> QED
        BY <2>1, <2>3, <3>3, Ended
    <2> QED
      BY <2>2, <2>3
  <1> QED
    BY <1>5, <1>8, <1>9, <1>10, <1>11

(* Bytes of a body that is not chunked are handed over as they are.         *)
PlainTaken(d, cap) == [d EXCEPT !.scratch = Left(@, cap),
                                !.body_read = @ + Len(Taken(d.scratch, cap))]

Plain(r, s, d, cap) == /\ Reads(r, s, d) /\ d.body_started = TRUE /\ ~d.resp.chunked
                       /\ cap \in Nat

PlainGives(r, s, d, cap) ==
    LET e == PlainTaken(d, cap)
        t == Least(cap, Len(d.scratch))
        x == Taken(d.scratch, cap)
    IN /\ Reads(r, s, e) /\ e.closed = d.closed /\ e.body_started = TRUE
       /\ t \in Nat /\ Place(s, e) = Place(s, d) + t /\ Drawn(s, e) = Drawn(s, d)
       /\ IsSeq(x) /\ Len(x) = t
       /\ At(r, Place(s, e)).out = At(r, Place(s, d)).out \o x

(* They are those the wire says there.                                      *)
LEMMA PlainReads ==
    ASSUME NEW r, NEW s, NEW d, NEW cap, Plain(r, s, d, cap)
    PROVE  PlainGives(r, s, d, cap)
  <1> DEFINE w == r.wire
             k == Place(s, d)
             q == Drawn(s, d)
             t == Least(cap, Len(d.scratch))
             x == Taken(d.scratch, cap)
             e == PlainTaken(d, cap)
             n == k + t
  <1>0. cap \in Nat /\ Reads(r, s, d) /\ d.body_started /\ ~d.resp.chunked
    BY DEF Plain
  <1>r. ReadsTo(r, s, d, k, q)
    BY <1>0, ReadsHas
  <1>1. /\ r \in Replies /\ IsConn(d) /\ d.closed \in BOOLEAN
        /\ Within(w, k, q) /\ d.scratch = Cut(w, k, q)
        /\ Within(w, q, s) /\ d.net = Cut(w, q, s)
        /\ Top(r).body_started /\ Behind(r, k) /\ d.resp = Top(r).resp
        /\ d.body = At(r, k).body /\ d.body.err = "none"
        /\ d.body_read = k - HeadLen(r)
    BY <1>0, <1>r DEF ReadsTo
  <1>2. /\ k \in Nat /\ q \in Nat /\ s \in Nat /\ k <= q /\ q <= s /\ s <= Len(w)
        /\ Len(d.scratch) = q - k /\ Len(w) \in Nat
    BY <1>0, ReadsHas
  <1>3. /\ t = Least(cap, q - k) /\ t \in Nat /\ t <= q - k
        /\ n \in Nat /\ n <= q /\ n \in k .. Len(r.wire)
    <2>1. t = Least(cap, q - k)
      BY <1>2
    <2> HIDE DEF t, k, q
    <2>2. t \in Nat /\ t <= q - k
      BY <1>0, <1>2, <2>1 DEF Least
    <2> QED
      BY <1>2, <2>1, <2>2
  <1>4. x = Cut(w, k, n) /\ Left(d.scratch, cap) = Cut(w, n, q) /\ Within(w, k, n) /\ Within(w, n, q)
    <2>1. /\ Within(w, k, k + Least(cap, q - k)) /\ Within(w, k + Least(cap, q - k), q)
          /\ Taken(Cut(w, k, q), cap) = Cut(w, k, k + Least(cap, q - k))
          /\ Left(Cut(w, k, q), cap) = Cut(w, k + Least(cap, q - k), q)
      <3> HIDE DEF w, k, q
      <3>1. /\ Within(w, k, k + Least(cap, q - k)) /\ Within(w, k + Least(cap, q - k), q)
        BY <1>0, <1>1, CutTaken
      <3>2. Taken(Cut(w, k, q), cap) = Cut(w, k, k + Least(cap, q - k))
        BY <1>0, <1>1, CutTaken
      <3>3. Left(Cut(w, k, q), cap) = Cut(w, k + Least(cap, q - k), q)
        BY <1>0, <1>1, CutTaken
      <3> QED
        BY <3>1, <3>2, <3>3
    <2> QED
      BY <1>1, <1>3, <2>1
  <1>5. IsSeq(x) /\ Len(x) = t
    <2> HIDE DEF x, n, w, k
    <2>1. IsSeq(x) /\ Len(x) = n - k
      BY <1>4, CutIs
    <2> QED
      BY <1>2, <1>3, <2>1 DEF n
  <1>6. /\ Behind(r, n) /\ At(r, n).body = At(r, k).body
        /\ At(r, n).out = At(r, k).out \o Cut(w, k, n)
    <2>1. ~Top(r).resp.chunked
      BY <1>0, <1>1
    <2> HIDE DEF n, k
    <2> QED
      BY <1>1, <1>3, <2>1, PlainRun
  <1> DEFINE u == Left(d.scratch, cap)
             v == d.body_read + Len(x)
  <1>7. e = [d EXCEPT !.scratch = u, !.body_read = v]
    BY DEF PlainTaken
  <1> HIDE DEF e, u, v
  <1>8. /\ IsConn(e) /\ e.net = d.net /\ e.closed = d.closed /\ e.scratch = u
        /\ e.body_started = d.body_started /\ e.resp = d.resp
        /\ e.body_read = v /\ e.body = d.body
    <2>1. IsConn(d)
      BY <1>1
    <2>2. IsConn(e)
      BY <1>7, <2>1 DEF IsConn
    <2>3. e.scratch = u /\ e.body_read = v
      BY <1>7, <2>1 DEF IsConn
    <2>4. /\ e.net = d.net /\ e.closed = d.closed
          /\ e.body_started = d.body_started /\ e.resp = d.resp /\ e.body = d.body
      BY <1>7, <2>1 DEF IsConn
    <2> QED
      BY <2>2, <2>3, <2>4
  <1>9. v = n - HeadLen(r)
    <2>1. HeadLen(r) \in Nat
      BY <1>1, BehindHas
    <2> HIDE DEF k, t, x
    <2> QED
      BY <1>1, <1>2, <1>3, <1>5, <2>1 DEF v
  <1>10. ReadsTo(r, s, e, n, q)
    <2> HIDE DEF k, q, n
    <2>1. /\ r \in Replies /\ IsConn(e) /\ e.closed \in BOOLEAN /\ e.body_started \in BOOLEAN
          /\ Within(w, n, q) /\ e.scratch = Cut(w, n, q)
          /\ Within(w, q, s) /\ e.net = Cut(w, q, s) /\ e.body_started
      BY <1>0, <1>r, <1>1, <1>4, <1>8 DEF u, ReadsTo
    <2>2. /\ Top(r).body_started /\ Behind(r, n) /\ e.resp = Top(r).resp
          /\ e.body = At(r, n).body /\ e.body.err = "none"
          /\ e.body_read = n - HeadLen(r)
      BY <1>1, <1>6, <1>8, <1>9
    <2> QED
      BY <2>1, <2>2 DEF ReadsTo, w
  <1>11. Place(s, e) = n /\ Drawn(s, e) = q /\ Reads(r, s, e)
    BY <1>10, ReadsAre
  <1>12. At(r, Place(s, e)).out = At(r, k).out \o x
    BY <1>4, <1>6, <1>11
  <1> QED
    BY <1>0, <1>3, <1>5, <1>8, <1>11, <1>12 DEF e, n, PlainGives

(* A body that is whole by its length is the wire's last.                   *)
LEMMA CompleteIs ==
    ASSUME NEW r, NEW s, NEW c, Reads(r, s, c), c.body_started, ~c.resp.chunked, Complete(c)
    PROVE  Place(s, c) = s
  <1> DEFINE w == r.wire
             k == Place(s, c)
             e == HeadEnd(w)
             l == c.resp.content_len
             n == k - e
  <1>1. ReadsTo(r, s, c, k, Drawn(s, c)) /\ k \in 0 .. s /\ s \in 0 .. Len(w)
        /\ Len(w) \in Nat /\ k \in Nat /\ s \in Nat
    BY ReadsHas
  <1>2. /\ r \in Replies /\ Top(r).body_started /\ Behind(r, k) /\ c.resp = Top(r).resp
        /\ c.body_read = k - HeadLen(r)
    BY <1>1 DEF ReadsTo
  <1>3. HeadLen(r) = e /\ e \in Nat /\ e <= k
    BY <1>2, BehindHas DEF HeadLen
  <1>4. \A i \in 0 .. Len(Left(w, e)) - 1 : ~(l >= 0 /\ i >= l)
    BY <1>2, TopIs
  <1>5. Len(Left(w, e)) = Len(w) - e
    <2>1. IsSeq(w)
      BY <1>2, TopIs
    <2>2. Within(w, e, Len(w)) /\ Len(w) <= Len(w) /\ e <= Len(w)
      BY <1>1, <1>3, <2>1 DEF Within
    <2>3. Least(e, Len(w)) = e
      BY <1>1, <1>3, <2>2 DEF Least
    <2>4. Left(w, e) = Cut(w, e, Len(w))
      BY <2>3 DEF Left, Cut
    <2> QED
      BY <2>2, <2>4, CutIs
  <1>6. l >= 0 /\ n >= l
    BY <1>2, <1>3 DEF Complete
  <1> HIDE DEF k, e, l, w, n
  <1>7. ~(n \in 0 .. Len(w) - e - 1)
    <2>1. n \in 0 .. Len(Left(w, e)) - 1 => FALSE
      BY <1>4, <1>6
    <2>2. Len(Left(w, e)) - 1 = Len(w) - e - 1
      BY <1>1, <1>3, <1>5
    <2> QED
      BY <2>1, <2>2
  <1>8. k = s
    BY <1>1, <1>3, <1>7 DEF n
  <1> QED
    BY <1>8 DEF k

(* A turn over a body without framing gets on.                              *)
LEMMA PlainTurnGood ==
    ASSUME NEW z, NEW x, Good(z, x), x.ret = "go", x.c.body_started, ~x.c.resp.chunked
    PROVE  Turned(z, x, PlainRead(x.c, z.cap))
  <1> DEFINE c == x.c
             s == z.sent
             r == z.reply
             cap == z.cap
             d == IF c.scratch = <<>> THEN Recv(c, cap) ELSE c
             p == Taken(d.scratch, cap)
             n == Len(p)
             e == PlainTaken(d, cap)
             y == PlainRead(c, cap)
             k == Place(s, c)
             a1 == Gives(c, "end", <<>>)
             a2 == Gives(e, "data", p)
             a3 == Gives(c, "block", <<>>)
             a4 == Fails(c, "closed")
  <1>1. /\ Mid(z, c, x.out) /\ x.out = <<>> /\ Mid(z, c, <<>>) /\ cap \in Nat /\ cap # 0
        /\ Len(c.scratch) <= ScratchMax
    BY DEF Good, Mid
  <1>2. Reads(r, s, c) /\ c.body_started /\ ~c.resp.chunked
    BY <1>1 DEF Mid
  <1>3. y = IF Complete(c) THEN a1
            ELSE IF n > 0 THEN a2
            ELSE IF ~c.closed THEN a3
            ELSE IF c.resp.content_len < 0 THEN a1 ELSE a4
    BY DEF PlainRead, PlainTaken
  <1>4. /\ k \in Nat /\ s \in Nat /\ Drawn(s, c) \in Nat /\ k <= Drawn(s, c) /\ Drawn(s, c) <= s
        /\ (c.scratch = <<>> <=> k = Drawn(s, c)) /\ (c.net = <<>> <=> Drawn(s, c) = s)
        /\ Len(c.net) = s - Drawn(s, c)
    <2> HIDE DEF c, r, s, k
    <2> QED
      BY <1>2, ReadsHas DEF k
  <1> HIDE DEF y, a1, a2, a3, a4
  <1>5. /\ Reads(r, s, d) /\ d.closed = c.closed /\ d.body_started /\ ~d.resp.chunked
        /\ Place(s, d) = k
        /\ c.scratch = <<>> => Drawn(s, d) = Drawn(s, c) + Least(cap, Len(c.net))
        /\ c.scratch # <<>> => Drawn(s, d) = Drawn(s, c)
    <2>1. CASE c.scratch = <<>>
      <3>1. d = Recv(c, cap)
        BY <2>1
      <3>2. Receives(r, s, c, cap)
        BY <1>1, <1>2 DEF Receives
      <3> HIDE DEF c, r, s, cap, d
      <3>3. /\ Reads(r, s, Recv(c, cap)) /\ Recv(c, cap).closed = c.closed
            /\ Recv(c, cap).body_started = c.body_started /\ Recv(c, cap).resp = c.resp
            /\ Place(s, Recv(c, cap)) = Place(s, c)
            /\ Drawn(s, Recv(c, cap)) = Drawn(s, c) + Least(cap, Len(c.net))
        BY <3>2, RecvReads
      <3> QED
        BY <1>2, <2>1, <3>1, <3>3
    <2>2. CASE c.scratch # <<>>
      BY <1>2, <2>2
    <2> QED
      BY <2>1, <2>2
  <1> HIDE DEF d
  <1>6. /\ Reads(r, s, e) /\ e.closed = d.closed /\ e.body_started
        /\ Place(s, e) = k + Least(cap, Len(d.scratch)) /\ Drawn(s, e) = Drawn(s, d)
        /\ IsSeq(p) /\ n = Least(cap, Len(d.scratch)) /\ Least(cap, Len(d.scratch)) \in Nat
        /\ At(r, Place(s, e)).out = At(r, Place(s, d)).out \o p
    <2>1. Plain(r, s, d, cap)
      BY <1>1, <1>5 DEF Plain
    <2> HIDE DEF r, s, cap, e, n, p, k, c
    <2>2. PlainGives(r, s, d, cap)
      BY <2>1, PlainReads
    <2> QED
      BY <1>5, <2>2 DEF PlainGives, e, n, p, k
  <1>7. Len(d.scratch) = Drawn(s, d) - k /\ Drawn(s, d) \in Nat
    <2>1. Len(d.scratch) = Drawn(s, d) - Place(s, d) /\ Drawn(s, d) \in Nat
      BY <1>5, ReadsHas
    <2> QED
      BY <1>5, <2>1
  <1>8. Len(e.scratch) = Drawn(s, e) - Place(s, e)
    BY <1>6, ReadsHas
  <1> HIDE DEF p, e, n, c, s, r, cap, k
  <1>9. ASSUME n = 0 PROVE c.net = <<>> /\ k = s
    <2>1. Len(d.scratch) = 0
      BY <1>1, <1>4, <1>5, <1>6, <1>7, <1>9 DEF Least
    <2>2. Drawn(s, d) = k
      BY <1>4, <1>7, <2>1
    <2>3. c.scratch = <<>>
      BY <1>4, <1>5, <2>2
    <2>4. Least(cap, Len(c.net)) = 0
      BY <1>1, <1>4, <1>5, <2>2, <2>3 DEF Least
    <2>5. Len(c.net) = 0
      BY <1>1, <1>4, <2>4 DEF Least
    <2> QED
      BY <1>4, <2>3, <2>5
  <1>10. CASE Complete(c)
    <2>1. k = s
      BY <1>2, <1>10, CompleteIs DEF k
    <2>2. Good(z, a1) /\ Rest(a1) = 0
      BY <1>1, <1>2, <2>1, GivesGood DEF a1, k, s
    <2>3. y = a1
      BY <1>3, <1>10
    <2> QED
      BY <2>2, <2>3, Ended DEF y, c, cap
  <1>11. CASE ~Complete(c) /\ n > 0
    <2>1. Len(e.scratch) <= ScratchMax
      <3>1. CASE c.scratch = <<>>
        <4>1. Least(cap, Len(c.net)) <= cap /\ Least(cap, Len(c.net)) \in Nat
          BY <1>1, <1>4 DEF Least
        <4>2. Drawn(s, d) - k = Least(cap, Len(c.net))
          BY <1>4, <1>5, <3>1, <4>1
        <4>3. Len(d.scratch) <= cap /\ Len(d.scratch) \in Nat
          BY <1>7, <4>1, <4>2
        <4>4. Least(cap, Len(d.scratch)) = Len(d.scratch)
          BY <1>1, <4>3 DEF Least
        <4>5. Len(e.scratch) = 0
          BY <1>4, <1>6, <1>7, <1>8, <4>4
        <4> QED
          BY <4>5, HalfHas
      <3>2. CASE c.scratch # <<>>
        <4>1. Len(c.scratch) = Drawn(s, c) - k
          BY <1>2, ReadsHas DEF k
        <4> QED
          BY <1>1, <1>4, <1>5, <1>6, <1>8, <3>2, <4>1, HalfHas
      <3> QED
        BY <3>1, <3>2
    <2>2. Further(z, c, e)
      <3>1. k <= Place(s, e)
        BY <1>4, <1>6
      <3> QED
        BY <1>5, <1>6, <2>1, <3>1 DEF Further, k, s, r
    <2>3. At(z.reply, Place(z.sent, e)).out = At(z.reply, Place(z.sent, c)).out \o p
      BY <1>5, <1>6 DEF k, s, r
    <2>4. Mid(z, e, <<>> \o p)
      BY <1>1, <1>6, <2>2, <2>3, MidMoves
    <2>5. <<>> \o p = p /\ p # <<>>
      <3>1. p \in Seq(ToSet(p))
        BY <1>6, SeqHas
      <3>2. n > 0 => p # <<>>
        BY DEF n
      <3> QED
        BY <1>11, <3>1, <3>2, ConcatEmptySeq
    <2>6. Good(z, a2) /\ Rest(a2) = 0
      BY <1>6, <2>4, <2>5, GivesGood DEF a2
    <2>7. y = a2
      BY <1>3, <1>11
    <2> QED
      BY <2>6, <2>7, Ended DEF y, c, cap
  <1>12. CASE ~Complete(c) /\ ~(n > 0)
    <2>1. c.net = <<>> /\ k = s
      BY <1>6, <1>9, <1>12
    <2>2. CASE ~c.closed
      <3>1. y = a3
        BY <1>3, <1>12, <2>2
      <3>2. Good(z, a3) /\ Rest(a3) = 0
        BY <1>1, <1>2, <2>1, <2>2, GivesGood DEF a3, k, s
      <3> QED
        BY <3>1, <3>2, Ended DEF y, c, cap
    <2>3. CASE c.closed /\ c.resp.content_len < 0
      <3>1. y = a1
        BY <1>3, <1>12, <2>3
      <3>2. Good(z, a1) /\ Rest(a1) = 0
        BY <1>1, <1>2, <2>1, <2>3, GivesGood DEF a1, k, s
      <3> QED
        BY <3>1, <3>2, Ended DEF y, c, cap
    <2>4. CASE c.closed /\ ~(c.resp.content_len < 0)
      <3>1. y = a4
        BY <1>3, <1>12, <2>4
      <3>2. Good(z, a4) /\ Rest(a4) = 0
        BY FailsGood DEF a4
      <3> QED
        BY <3>1, <3>2, Ended DEF y, c, cap
    <2> QED
      BY <2>2, <2>3, <2>4
  <1> QED
    BY <1>10, <1>11, <1>12

(* Bytes of a chunk's data are handed over.                                 *)
DataPiece(c, n) == [c EXCEPT !.scratch = Left(@, n), !.body = DataTaken(@, n)]

InData(r, s, c, n) ==
    /\ Reads(r, s, c) /\ c.body_started = TRUE /\ c.resp.chunked
    /\ c.body.chunk_state = "data"
    /\ n \in Nat /\ n <= Len(c.scratch) /\ Len(c.scratch) <= ScratchMax
    /\ c.body.chunk_remaining < 0 \/ n <= c.body.chunk_remaining

DataGives(r, s, c, n) ==
    LET e == DataPiece(c, n)
        x == Taken(c.scratch, n)
    IN /\ Reads(r, s, e) /\ e.closed = c.closed /\ e.body_started = TRUE /\ e.resp = c.resp
       /\ Place(s, e) = Place(s, c) + n /\ Drawn(s, e) = Drawn(s, c)
       /\ IsSeq(x) /\ Len(x) = n
       /\ At(r, Place(s, e)).out = At(r, Place(s, c)).out \o x

(* They are those the wire says there, and the decoder has counted them.    *)
LEMMA DataReads ==
    ASSUME NEW r, NEW s, NEW c, NEW n, InData(r, s, c, n)
    PROVE  DataGives(r, s, c, n)
  <1> DEFINE w == r.wire
             k == Place(s, c)
             q == Drawn(s, c)
             x == Taken(c.scratch, n)
             e == DataPiece(c, n)
             m == k + n
  <1>0. /\ Reads(r, s, c) /\ c.body_started = TRUE /\ c.resp.chunked
        /\ c.body.chunk_state = "data"
        /\ n \in Nat /\ n <= Len(c.scratch) /\ Len(c.scratch) <= ScratchMax
        /\ c.body.chunk_remaining < 0 \/ n <= c.body.chunk_remaining
    BY DEF InData
  <1>r. ReadsTo(r, s, c, k, q)
    BY <1>0, ReadsHas
  <1>1. /\ r \in Replies /\ IsConn(c) /\ c.closed \in BOOLEAN
        /\ Within(w, k, q) /\ c.scratch = Cut(w, k, q)
        /\ Within(w, q, s) /\ c.net = Cut(w, q, s)
        /\ Top(r).body_started /\ Behind(r, k) /\ c.resp = Top(r).resp
        /\ c.body = At(r, k).body /\ c.body.err = "none"
    BY <1>0, <1>r DEF ReadsTo
  <1>2. /\ k \in Nat /\ q \in Nat /\ s \in Nat /\ k <= q /\ q <= s /\ s <= Len(w)
        /\ Len(c.scratch) = q - k /\ Len(w) \in Nat
    BY <1>0, ReadsHas
  <1>3. m \in Nat /\ m <= q /\ m \in k .. Len(r.wire) /\ m - k = n /\ m - k <= ScratchMax
        /\ Least(n, q - k) = n
    <2>1. Least(n, q - k) = n
      BY <1>0, <1>2 DEF Least
    <2> HIDE DEF k, q
    <2> QED
      BY <1>0, <1>2, <2>1, HalfHas
  <1>4. x = Cut(w, k, m) /\ Left(c.scratch, n) = Cut(w, m, q) /\ Within(w, k, m) /\ Within(w, m, q)
    <2> HIDE DEF w, k, q
    <2>1. /\ Within(w, k, k + Least(n, q - k)) /\ Within(w, k + Least(n, q - k), q)
      BY <1>0, <1>1, CutTaken
    <2>2. Taken(Cut(w, k, q), n) = Cut(w, k, k + Least(n, q - k))
      BY <1>0, <1>1, CutTaken
    <2>3. Left(Cut(w, k, q), n) = Cut(w, k + Least(n, q - k), q)
      BY <1>0, <1>1, CutTaken
    <2> QED
      BY <1>1, <1>3, <2>1, <2>2, <2>3
  <1>5. IsSeq(x) /\ Len(x) = n
    <2> HIDE DEF x, m, w, k
    <2>1. IsSeq(x) /\ Len(x) = m - k
      BY <1>4, CutIs
    <2> QED
      BY <1>3, <2>1
  <1>6. /\ Behind(r, m) /\ At(r, m).body = DataTaken(At(r, k).body, n)
        /\ At(r, m).body.err = "none" /\ At(r, m).out = At(r, k).out \o Cut(w, k, m)
    <2>1. Top(r).resp.chunked
      BY <1>0, <1>1
    <2>2. /\ At(r, k).body.chunk_state = "data" /\ At(r, k).body.err = "none"
          /\ At(r, k).body.chunk_remaining < 0 \/ m - k <= At(r, k).body.chunk_remaining
      BY <1>0, <1>1, <1>3
    <2> HIDE DEF m, k
    <2>3. Behind(r, m) /\ At(r, m).body = DataTaken(At(r, k).body, m - k)
          /\ At(r, m).body.err = "none" /\ At(r, m).out = At(r, k).out \o Cut(r.wire, k, m)
      BY <1>1, <1>3, <2>1, <2>2, DataRun
    <2> QED
      BY <1>3, <2>3
  <1> DEFINE u == Left(c.scratch, n)
             v == DataTaken(c.body, n)
  <1>7. e = [c EXCEPT !.scratch = u, !.body = v]
    BY DEF DataPiece
  <1> HIDE DEF e, u, v
  <1>8. /\ IsConn(e) /\ e.net = c.net /\ e.closed = c.closed /\ e.scratch = u
        /\ e.body_started = c.body_started /\ e.resp = c.resp /\ e.body = v
    <2>1. IsConn(c)
      BY <1>1
    <2>2. IsConn(e)
      BY <1>7, <2>1 DEF IsConn
    <2>3. e.scratch = u /\ e.body = v
      BY <1>7, <2>1 DEF IsConn
    <2>4. /\ e.net = c.net /\ e.closed = c.closed
          /\ e.body_started = c.body_started /\ e.resp = c.resp
      BY <1>7, <2>1 DEF IsConn
    <2> QED
      BY <2>2, <2>3, <2>4
  <1>10. ReadsTo(r, s, e, m, q)
    <2> HIDE DEF k, q, m
    <2>1. /\ r \in Replies /\ IsConn(e) /\ e.closed \in BOOLEAN /\ e.body_started \in BOOLEAN
          /\ Within(w, m, q) /\ e.scratch = Cut(w, m, q)
          /\ Within(w, q, s) /\ e.net = Cut(w, q, s) /\ e.body_started
      BY <1>0, <1>r, <1>1, <1>4, <1>8 DEF u, ReadsTo
    <2>2. /\ Top(r).body_started /\ Behind(r, m) /\ e.resp = Top(r).resp
          /\ e.body = At(r, m).body /\ e.body.err = "none" /\ e.resp.chunked
      BY <1>0, <1>1, <1>6, <1>8 DEF v
    <2> QED
      BY <2>1, <2>2 DEF ReadsTo, w
  <1>11. Place(s, e) = m /\ Drawn(s, e) = q /\ Reads(r, s, e)
    BY <1>10, ReadsAre
  <1>12. At(r, Place(s, e)).out = At(r, k).out \o x
    BY <1>4, <1>6, <1>11
  <1> QED
    BY <1>0, <1>5, <1>8, <1>11, <1>12 DEF e, m, DataGives

(* A byte of the framing is read.                                           *)
FramingPiece(c) == [c EXCEPT !.scratch = Tail(@), !.body = FramingByte(c.body, Head(c.scratch))]

InFraming(r, s, c) ==
    /\ Reads(r, s, c) /\ c.body_started = TRUE /\ c.resp.chunked
    /\ c.body.chunk_state \notin {"data", "done"} /\ c.scratch # <<>>
    /\ FramingByte(c.body, Head(c.scratch)).err = "none"

FramingGives(r, s, c) ==
    LET e == FramingPiece(c)
    IN /\ Reads(r, s, e) /\ e.closed = c.closed /\ e.body_started = TRUE /\ e.resp = c.resp
       /\ e.body = FramingByte(c.body, Head(c.scratch))
       /\ Place(s, e) = Place(s, c) + 1 /\ Drawn(s, e) = Drawn(s, c)
       /\ At(r, Place(s, e)).out = At(r, Place(s, c)).out

(* It moves the decoder as the wire says, and says nothing itself.          *)
LEMMA FramingReads ==
    ASSUME NEW r, NEW s, NEW c, InFraming(r, s, c)
    PROVE  FramingGives(r, s, c)
  <1> DEFINE w == r.wire
             k == Place(s, c)
             q == Drawn(s, c)
             f == FramingByte(c.body, Head(c.scratch))
             e == FramingPiece(c)
             m == k + 1
  <1>0. /\ Reads(r, s, c) /\ c.body_started = TRUE /\ c.resp.chunked
        /\ c.body.chunk_state \notin {"data", "done"} /\ c.scratch # <<>> /\ f.err = "none"
    BY DEF InFraming
  <1>r. ReadsTo(r, s, c, k, q)
    BY <1>0, ReadsHas
  <1>1. /\ r \in Replies /\ IsConn(c) /\ c.closed \in BOOLEAN
        /\ Within(w, k, q) /\ c.scratch = Cut(w, k, q)
        /\ Within(w, q, s) /\ c.net = Cut(w, q, s)
        /\ Top(r).body_started /\ Behind(r, k) /\ c.resp = Top(r).resp
        /\ c.body = At(r, k).body /\ c.body.err = "none"
    BY <1>0, <1>r DEF ReadsTo
  <1>2. /\ k \in Nat /\ q \in Nat /\ s \in Nat /\ k <= q /\ q <= s /\ s <= Len(w)
        /\ Len(w) \in Nat /\ k # q
    BY <1>0, ReadsHas
  <1>3. k # Len(w)
    BY <1>2
  <1>4. Head(c.scratch) = w[m] /\ Tail(c.scratch) = Cut(w, m, q) /\ Within(w, m, q)
    <2> HIDE DEF w, k, q
    <2> QED
      BY <1>1, <1>2, CutTail
  <1>5. Behind(r, m) /\ At(r, m) = ByteRead(Top(r).resp, At(r, k), w[m]) /\ IsRead(At(r, k))
    <2> HIDE DEF k
    <2> QED
      BY <1>1, <1>3, BehindHas
  <1>6. At(r, m).body = f /\ At(r, m).out = At(r, k).out
    <2> DEFINE x == At(r, k)
               y == ByteRead(Top(r).resp, x, w[m])
    <2>1. /\ IsRead(x) /\ x.body.chunk_state \notin {"data", "done"} /\ x.body.err = "none"
          /\ Top(r).resp.chunked /\ f = FramingByte(x.body, w[m]) /\ At(r, m) = y
      BY <1>0, <1>1, <1>4, <1>5
    <2> HIDE DEF x, f, w, m
    <2>2. IF x.body.err # "none" \/ x.body.chunk_state = "done" THEN y = x
          ELSE IF x.body.chunk_state = "data"
          THEN y.body = DataTaken(x.body, 1) /\ y.out = Append(x.out, w[m])
          ELSE y.body = FramingByte(x.body, w[m]) /\ y.out = x.out
      BY <2>1, ByteReadIs
    <2> HIDE DEF y
    <2> QED
      BY <2>1, <2>2 DEF x
  <1> DEFINE u == Tail(c.scratch)
  <1>7. e = [c EXCEPT !.scratch = u, !.body = f]
    BY DEF FramingPiece
  <1> HIDE DEF e, u, f
  <1>8. /\ IsConn(e) /\ e.net = c.net /\ e.closed = c.closed /\ e.scratch = u
        /\ e.body_started = c.body_started /\ e.resp = c.resp /\ e.body = f
    <2>1. IsConn(c)
      BY <1>1
    <2>2. IsConn(e)
      BY <1>7, <2>1 DEF IsConn
    <2>3. e.scratch = u /\ e.body = f
      BY <1>7, <2>1 DEF IsConn
    <2>4. /\ e.net = c.net /\ e.closed = c.closed
          /\ e.body_started = c.body_started /\ e.resp = c.resp
      BY <1>7, <2>1 DEF IsConn
    <2> QED
      BY <2>2, <2>3, <2>4
  <1>10. ReadsTo(r, s, e, m, q)
    <2> HIDE DEF k, q, m
    <2>1. /\ r \in Replies /\ IsConn(e) /\ e.closed \in BOOLEAN /\ e.body_started \in BOOLEAN
          /\ Within(w, m, q) /\ e.scratch = Cut(w, m, q)
          /\ Within(w, q, s) /\ e.net = Cut(w, q, s) /\ e.body_started
      BY <1>0, <1>r, <1>1, <1>4, <1>8 DEF u, ReadsTo
    <2>2. /\ Top(r).body_started /\ Behind(r, m) /\ e.resp = Top(r).resp
          /\ e.body = At(r, m).body /\ e.body.err = "none" /\ e.resp.chunked
      BY <1>0, <1>1, <1>5, <1>6, <1>8
    <2> QED
      BY <2>1, <2>2 DEF ReadsTo, w
  <1>11. Place(s, e) = m /\ Drawn(s, e) = q /\ Reads(r, s, e)
    BY <1>10, ReadsAre
  <1>12. At(r, Place(s, e)).out = At(r, k).out
    BY <1>6, <1>11
  <1> QED
    BY <1>0, <1>8, <1>11, <1>12 DEF e, m, f, FramingGives

(* A turn that finds the scratch empty reads more, or ends the call.        *)
LEMMA ChunkRecvGood ==
    ASSUME NEW z, NEW x, Good(z, x), x.ret = "go", x.c.body_started, x.c.resp.chunked,
           x.c.scratch = <<>>
    PROVE  Turned(z, x, ChunkRecv(x))
  <1> DEFINE c == x.c
             s == z.sent
             n == IF c.body.chunk_state = "data" THEN ScratchMax ELSE 1
             a1 == Gives(c, "data", x.out)
             a2 == On(x, Recv(c, n))
             a3 == Fails(c, "closed")
             a4 == Gives(c, "block", <<>>)
             y == ChunkRecv(x)
  <1>1. Mid(z, c, x.out) /\ Reads(z.reply, s, c)
    BY DEF Good, Mid
  <1>2. (c.net = <<>> <=> Drawn(s, c) = s) /\ Place(s, c) = Drawn(s, c)
    BY <1>1, ReadsHas
  <1>3. y = CASE x.out # <<>> -> a1
              [] x.out = <<>> /\ c.net # <<>> -> a2
              [] x.out = <<>> /\ c.net = <<>> -> IF c.closed THEN a3 ELSE a4
    BY DEF ChunkRecv, On
  <1>4. /\ n \in Nat /\ n # 0 /\ Len(x.c.scratch) + n <= ScratchMax
    <2>1. Len(x.c.scratch) = 0
      OBVIOUS
    <2> QED
      BY <2>1, HalfHas
  <1> HIDE DEF y, n, a1, a3, a4
  <1>5. CASE x.out # <<>>
    <2>1. y = a1
      BY <1>3, <1>5
    <2>2. Good(z, a1) /\ Rest(a1) = 0
      BY <1>1, <1>5, GivesGood DEF a1
    <2> QED
      BY <2>1, <2>2, Ended DEF y
  <1>6. CASE x.out = <<>> /\ c.net # <<>>
    <2>1. y = a2
      <3> HIDE DEF a2
      <3> QED
        BY <1>3, <1>6
    <2>2. Turned(z, x, a2)
      BY <1>4, <1>6, RecvTurn
    <2> QED
      BY <2>1, <2>2 DEF y
  <1>7. CASE x.out = <<>> /\ c.net = <<>> /\ c.closed
    <2>1. y = a3
      BY <1>3, <1>7
    <2>2. Good(z, a3) /\ Rest(a3) = 0
      BY FailsGood DEF a3
    <2> QED
      BY <2>1, <2>2, Ended DEF y
  <1>8. CASE x.out = <<>> /\ c.net = <<>> /\ ~c.closed
    <2>1. y = a4
      BY <1>3, <1>8
    <2>2. Good(z, a4) /\ Rest(a4) = 0
      BY <1>1, <1>2, <1>8, GivesGood DEF a4
    <2> QED
      BY <2>1, <2>2, Ended DEF y
  <1> QED
    BY <1>5, <1>6, <1>7, <1>8

(* Bytes taken from a state that goes on bring the call on.                 *)
LEMMA RestOf ==
    ASSUME NEW z, NEW x, Good(z, x), x.ret = "go", NEW y, Good(z, y),
           x.c.body_started = TRUE, y.c.body_started = TRUE,
           Drawn(z.sent, y.c) = Drawn(z.sent, x.c),
           Place(z.sent, x.c) < Place(z.sent, y.c)
    PROVE  Turned(z, x, y)
  <1>1. Rest(x) \in Nat /\ Rest(x) # 0
    BY RestIs
  <1>2. CASE y.ret # "go"
    <2>1. Rest(y) = 0
      BY <1>2 DEF Rest
    <2> QED
      BY <1>1, <2>1 DEF Turned
  <1>3. CASE y.ret = "go"
    <2> DEFINE s == z.sent
               k == Place(s, x.c)
               q == Drawn(s, x.c)
               m == Place(s, y.c)
    <2>1. Rest(x) = 2 * s - q - k + 1
      <3>1. Rest(x) = 2 * s - q - k + (IF x.c.body_started THEN 1 ELSE 2)
        BY RestIs
      <3> QED
        BY <3>1
    <2>2. Rest(y) = 2 * s - q - m + 1
      <3>1. Rest(y) = 2 * s - Drawn(s, y.c) - m + (IF y.c.body_started THEN 1 ELSE 2)
        BY <1>3, RestIs
      <3> QED
        BY <3>1
    <2>3. Reads(z.reply, s, x.c) /\ Reads(z.reply, s, y.c)
      BY <1>3 DEF Good, Mid
    <2>4. k \in Nat /\ q \in Nat /\ s \in Nat /\ m \in Nat /\ k < m
      BY <2>3, ReadsHas
    <2> HIDE DEF k, q, m
    <2> QED
      BY <2>1, <2>2, <2>4 DEF Turned
  <1> QED
    BY <1>2, <1>3

(* A turn in the data of a chunk gets on.                                   *)
LEMMA DataTurnGood ==
    ASSUME NEW z, NEW x, Good(z, x), x.ret = "go", x.c.body_started, x.c.resp.chunked,
           x.c.scratch # <<>>, x.c.body.chunk_state = "data"
    PROVE  Turned(z, x, DataRead(x, z.cap))
  <1> DEFINE c == x.c
             s == z.sent
             r == z.reply
             left == c.body.chunk_remaining
             room == z.cap - Len(x.out)
             want == IF left < 0 THEN room ELSE Least(left, room)
             n == Least(want, Len(c.scratch))
             p == Taken(c.scratch, n)
             e == DataPiece(c, n)
             out == x.out \o p
             y == DataRead(x, z.cap)
  <1>1. /\ Mid(z, c, x.out) /\ Reads(r, s, c) /\ Len(c.scratch) <= ScratchMax
        /\ z.cap \in Nat /\ Len(x.out) < z.cap
    BY DEF Good, Mid
  <1>2. /\ ReadsTo(r, s, c, Place(s, c), Drawn(s, c)) /\ Place(s, c) \in Nat /\ Drawn(s, c) \in Nat
        /\ Len(c.scratch) = Drawn(s, c) - Place(s, c) /\ Place(s, c) # Drawn(s, c)
        /\ Place(s, c) <= Drawn(s, c)
    BY <1>1, ReadsHas
  <1>3. /\ Behind(r, Place(s, c)) /\ c.body = At(r, Place(s, c)).body /\ c.closed \in BOOLEAN
        /\ c.body_started = TRUE
    BY <1>2 DEF ReadsTo
  <1>4. BodyOk(c.body)
    <2>1. IsRead(At(r, Place(s, c)))
      BY <1>3, BehindHas
    <2> QED
      BY <1>3, <2>1 DEF IsRead
  <1>5. left \in Int /\ left # 0
    BY <1>4, HalfHas DEF BodyOk
  <1>6. Len(x.out) \in Nat /\ IsSeq(x.out)
    BY <1>1, MidHas
  <1>7. room \in Nat /\ room # 0
    BY <1>1, <1>6
  <1>8. Len(c.scratch) \in Nat /\ Len(c.scratch) # 0
    BY <1>2
  <1> HIDE DEF left, room
  <1>9. want \in Nat /\ want # 0 /\ (left < 0 \/ want <= left) /\ want <= room
    BY <1>5, <1>7 DEF Least
  <1> HIDE DEF want
  <1>10. n \in Nat /\ n # 0 /\ n <= Len(c.scratch) /\ n <= want
    BY <1>8, <1>9 DEF Least
  <1>11. n <= room /\ (left < 0 \/ n <= left)
    BY <1>5, <1>7, <1>9, <1>10
  <1>12. y = Gives(e, IF Len(out) = z.cap THEN "data" ELSE "go", out)
    BY DEF DataRead, DataPiece, n, want, room, left
  <1> HIDE DEF n, y
  <1>13. InData(r, s, c, n)
    BY <1>1, <1>3, <1>10, <1>11 DEF InData, left
  <1>14. DataGives(r, s, c, n)
    BY <1>13, DataReads
  <1> HIDE DEF e, p
  <1>15. /\ Reads(r, s, e) /\ e.closed = c.closed /\ e.body_started = TRUE /\ e.resp = c.resp
         /\ Place(s, e) = Place(s, c) + n /\ Drawn(s, e) = Drawn(s, c)
         /\ IsSeq(p) /\ Len(p) = n
         /\ At(r, Place(s, e)).out = At(r, Place(s, c)).out \o p
    BY <1>14 DEF DataGives, e, p
  <1>16. Len(e.scratch) = Drawn(s, e) - Place(s, e)
    BY <1>15, ReadsHas
  <1>17. Len(e.scratch) <= ScratchMax /\ Place(s, c) <= Place(s, e) /\ Place(s, c) < Place(s, e)
    <2> HIDE DEF c, s
    <2> QED
      BY <1>1, <1>2, <1>10, <1>15, <1>16, HalfHas
  <1>18. Further(z, c, e)
    BY <1>15, <1>17 DEF Further
  <1>19. Mid(z, e, out)
    BY <1>1, <1>15, <1>18, MidMoves
  <1>20. Len(out) = Len(x.out) + n
    <2>1. x.out \in Seq(ToSet(x.out) \cup ToSet(p)) /\ p \in Seq(ToSet(x.out) \cup ToSet(p))
      BY <1>6, <1>15, SeqHas, SeqMonotonic
    <2>2. Len(out) = Len(x.out) + Len(p)
      BY <2>1, ConcatProperties
    <2> QED
      BY <1>15, <2>2
  <1> HIDE DEF out
  <1>21. Len(out) \in Nat /\ Len(out) # 0 /\ Len(out) <= z.cap
    BY <1>1, <1>6, <1>7, <1>10, <1>11, <1>20 DEF room
  <1>22. Good(z, y) /\ y.c = e
    <2>1. y.c = e /\ y.out = out /\ y = [c |-> y.c, ret |-> y.ret, out |-> y.out]
          /\ y.ret = IF Len(out) = z.cap THEN "data" ELSE "go"
      BY <1>12 DEF Gives
    <2>2. CASE Len(out) = z.cap
      <3>1. y.ret = "data" /\ out # <<>>
        BY <1>21, <2>1, <2>2
      <3> QED
        BY <1>15, <1>19, <2>1, <3>1 DEF Good
    <2>3. CASE Len(out) # z.cap
      <3>1. y.ret = "go" /\ Len(out) < z.cap
        BY <1>1, <1>21, <2>1, <2>3
      <3> QED
        BY <1>15, <1>19, <2>1, <3>1 DEF Good
    <2> QED
      BY <2>2, <2>3
  <1>23. Turned(z, x, y)
    BY <1>3, <1>15, <1>17, <1>22, RestOf
  <1> QED
    BY <1>23 DEF y

(* Behind the end of the framing nothing more is said.                      *)
LEMMA DoneSays ==
    ASSUME NEW z, NEW c, NEW out, Mid(z, c, out), c.body_started, c.resp.chunked,
           c.body.chunk_state = "done"
    PROVE  /\ Pay(z.reply, Place(z.sent, c)) = Pay(z.reply, z.sent)
           /\ Good(z, EndOrData(c, out)) /\ Rest(EndOrData(c, out)) = 0
  <1> DEFINE r == z.reply
             s == z.sent
             k == Place(s, c)
  <1>1. Reads(r, s, c)
    BY DEF Mid
  <1>2. ReadsTo(r, s, c, k, Drawn(s, c)) /\ k \in 0 .. s /\ k \in Nat /\ s \in 0 .. Len(r.wire)
        /\ Len(r.wire) \in Nat
    BY <1>1, ReadsHas
  <1>3. Behind(r, k) /\ c.body = At(r, k).body /\ c.resp = Top(r).resp /\ c.body_started = TRUE
    BY <1>2 DEF ReadsTo
  <1>4. s \in k .. Len(r.wire)
    BY <1>2
  <1>5. At(r, s) = At(r, k)
    BY <1>3, <1>4, DoneRun
  <1>6. Pay(r, k) = Pay(r, s)
    BY <1>5 DEF Pay
  <1>7. CASE out = <<>>
    <2>1. EndOrData(c, out) = Gives(c, "end", out)
      BY <1>7 DEF EndOrData
    <2>2. Good(z, Gives(c, "end", out)) /\ Rest(Gives(c, "end", out)) = 0
      BY <1>3, <1>6, <1>7, GivesGood
    <2> QED
      BY <1>6, <2>1, <2>2
  <1>8. CASE out # <<>>
    <2>1. EndOrData(c, out) = Gives(c, "data", out)
      BY <1>8 DEF EndOrData
    <2>2. Good(z, Gives(c, "data", out)) /\ Rest(Gives(c, "data", out)) = 0
      BY <1>3, <1>8, GivesGood
    <2> QED
      BY <1>6, <2>1, <2>2
  <1> QED
    BY <1>7, <1>8

(* A turn in the framing gets on.                                           *)
LEMMA FramingTurnGood ==
    ASSUME NEW z, NEW x, Good(z, x), x.ret = "go", x.c.body_started, x.c.resp.chunked,
           x.c.scratch # <<>>, x.c.body.chunk_state \notin {"data", "done"}
    PROVE  Turned(z, x, FramingTurn(x))
  <1> DEFINE c == x.c
             s == z.sent
             r == z.reply
             f == FramingByte(c.body, Head(c.scratch))
             e == FramingPiece(c)
             y == FramingTurn(x)
             a1 == Fails(e, f.err)
             a2 == EndOrData(e, x.out)
             a3 == On(x, e)
  <1>1. /\ Mid(z, c, x.out) /\ Reads(r, s, c) /\ Len(c.scratch) <= ScratchMax
    BY DEF Good, Mid
  <1>2. /\ ReadsTo(r, s, c, Place(s, c), Drawn(s, c)) /\ Place(s, c) \in Nat /\ Drawn(s, c) \in Nat
        /\ Len(c.scratch) = Drawn(s, c) - Place(s, c)
    BY <1>1, ReadsHas
  <1>3. c.closed \in BOOLEAN /\ c.body_started = TRUE
    BY <1>2 DEF ReadsTo
  <1>4. y = CASE f.err # "none" -> a1
              [] f.err = "none" /\ f.chunk_state = "done" -> a2
              [] OTHER -> a3
    BY DEF FramingTurn, FramingPiece, On
  <1>5. CASE f.err # "none"
    <2> HIDE DEF a1, a2, a3, y
    <2>1. y = a1
      BY <1>4, <1>5
    <2>2. Good(z, a1) /\ Rest(a1) = 0
      BY FailsGood DEF a1
    <2> QED
      BY <2>1, <2>2, Ended DEF y
  <1>6. CASE f.err = "none"
    <2>1. InFraming(r, s, c)
      BY <1>1, <1>3, <1>6 DEF InFraming
    <2>2. FramingGives(r, s, c)
      BY <2>1, FramingReads
    <2>3. /\ Reads(r, s, e) /\ e.closed = c.closed /\ e.body_started = TRUE /\ e.resp = c.resp
          /\ Place(s, e) = Place(s, c) + 1 /\ Drawn(s, e) = Drawn(s, c) /\ e.body = f
          /\ At(r, Place(s, e)).out = At(r, Place(s, c)).out
      BY <2>2 DEF FramingGives
    <2> HIDE DEF e, f, y, a1, a2, a3
    <2>4. Len(e.scratch) = Drawn(s, e) - Place(s, e)
      BY <2>3, ReadsHas
    <2>5. Len(e.scratch) <= ScratchMax /\ Place(s, c) <= Place(s, e) /\ Place(s, c) < Place(s, e)
      <3> HIDE DEF c, s
      <3> QED
        BY <1>1, <1>2, <2>3, <2>4, HalfHas
    <2>6. Further(z, c, e) /\ Pay(r, Place(s, e)) = Pay(r, Place(s, c))
      BY <2>3, <2>5 DEF Further, Pay
    <2>7. Mid(z, e, x.out)
      BY <1>1, <2>6, MidStays
    <2>8. CASE f.chunk_state = "done"
      <3>1. y = a2
        BY <1>4, <1>6, <2>8
      <3>2. Good(z, a2) /\ Rest(a2) = 0
        BY <2>3, <2>7, <2>8, DoneSays DEF a2
      <3> QED
        BY <3>1, <3>2, Ended DEF y
    <2>9. CASE f.chunk_state # "done"
      <3>1. y = a3
        BY <1>4, <1>6, <2>9
      <3>2. Good(z, a3) /\ a3.c = e /\ a3.ret = "go"
        BY <2>3, <2>7, GoesOn DEF a3
      <3>3. Turned(z, x, a3)
        BY <1>3, <2>3, <2>5, <3>2, RestOf
      <3> QED
        BY <3>1, <3>3 DEF y
    <2> QED
      BY <2>8, <2>9
  <1> QED
    BY <1>5, <1>6

(* Every turn of nm_read_body gets on.                                      *)
LEMMA BodyTurnGood ==
    ASSUME NEW z, NEW x, Good(z, x), x.ret = "go"
    PROVE  Turned(z, x, BodyTurn(x, z.cap))
  <1> DEFINE y == BodyTurn(x, z.cap)
             b1 == HeadTurn(x)
             b2 == ChunkTurn(x, z.cap)
             b3 == PlainRead(x.c, z.cap)
             state == x.c.body.chunk_state
             a1 == EndOrData(x.c, x.out)
             a2 == ChunkRecv(x)
             a3 == DataRead(x, z.cap)
             a4 == FramingTurn(x)
  <1>1. y = CASE ~x.c.body_started -> b1
              [] x.c.body_started /\ x.c.resp.chunked -> b2
              [] x.c.body_started /\ ~x.c.resp.chunked -> b3
    BY DEF BodyTurn
  <1>2. b2 = CASE state = "done" -> a1
               [] state # "done" /\ x.c.scratch = <<>> -> a2
               [] state = "data" /\ x.c.scratch # <<>> -> a3
               [] OTHER -> a4
    BY DEF ChunkTurn
  <1> HIDE DEF y, b1, b2, b3, a1, a2, a3, a4
  <1>3. CASE ~x.c.body_started
    <2>1. y = b1
      BY <1>1, <1>3
    <2> QED
      BY <1>3, <2>1, HeadTurnGood DEF b1, y
  <1>4. CASE x.c.body_started /\ ~x.c.resp.chunked
    <2>1. y = b3
      BY <1>1, <1>4
    <2> QED
      BY <1>4, <2>1, PlainTurnGood DEF b3, y
  <1>5. CASE x.c.body_started /\ x.c.resp.chunked
    <2>0. y = b2
      BY <1>1, <1>5
    <2>1. CASE state = "done"
      <3>1. y = a1
        BY <1>2, <2>0, <2>1
      <3>2. Mid(z, x.c, x.out)
        BY DEF Good
      <3>3. Good(z, a1) /\ Rest(a1) = 0
        BY <1>5, <2>1, <3>2, DoneSays DEF a1
      <3> QED
        BY <3>1, <3>3, Ended DEF y
    <2>2. CASE state # "done" /\ x.c.scratch = <<>>
      <3>1. y = a2
        BY <1>2, <2>0, <2>2
      <3> QED
        BY <1>5, <2>2, <3>1, ChunkRecvGood DEF a2, y
    <2>3. CASE state = "data" /\ x.c.scratch # <<>>
      <3>1. y = a3
        BY <1>2, <2>0, <2>3
      <3> QED
        BY <1>5, <2>3, <3>1, DataTurnGood DEF a3, y
    <2>4. CASE state \notin {"data", "done"} /\ x.c.scratch # <<>>
      <3>1. y = a4
        BY <1>2, <2>0, <2>4
      <3> QED
        BY <1>5, <2>4, <3>1, FramingTurnGood DEF a4, y
    <2> QED
      BY <2>1, <2>2, <2>3, <2>4
  <1> QED
    BY <1>3, <1>4, <1>5

(* Eight times Eights(n) turns are more than n.                             *)
LEMMA EightsIs ==
    ASSUME NEW n \in Nat
    PROVE  Eights(n) \in Nat /\ n < 8 * Eights(n)
  <1>1. n \div 8 \in Nat /\ n < 8 * (n \div 8) + 8
    OBVIOUS
  <1> DEFINE d == n \div 8
  <1> HIDE DEF d
  <1>2. d \in Nat /\ n < 8 * d + 8 /\ Eights(n) = d + 1
    BY <1>1 DEF d, Eights
  <1> QED
    BY <1>2

(* A call of nm_read_body that has decoded nothing yet.                     *)
LEMMA ReadBodyGood ==
    ASSUME NEW z, NEW c, Mid(z, c, <<>>)
    PROVE  Good(z, ReadBody(c, z.cap)) /\ ReadBody(c, z.cap).ret # "go"
  <1> DEFINE cap == z.cap
             x0 == Gives(c, "go", <<>>)
             m0 == 2 * Len(c.net) + Len(c.scratch) + 2
             n == Eights(m0)
             turn(x) == BodyTurn(x, cap)
             stop(x) == x.ret # "go"
             Q(j, x) == Good(z, x) /\ (Rest(x) = 0 \/ Rest(x) <= j)
             four(x) == turn(turn(turn(turn(x))))
             T(x) == IF stop(x) THEN x ELSE four(four(x))
             at[k \in 0 .. n] == IF k = 0 THEN x0 ELSE T(at[k - 1])
  <1>1. ReadBody(c, cap) = at[n]
    BY DEF ReadBody, Turns
  <1> HIDE DEF four, T, at
  <1>2. Good(z, x0) /\ x0.c = c /\ x0.ret = "go"
    <2>1. x0.c = c /\ x0.ret = "go" /\ x0.out = <<>> /\ x0 = [c |-> x0.c, ret |-> x0.ret, out |-> x0.out]
      BY DEF Gives
    <2>2. Len(<<>>) < z.cap
      BY DEF Mid
    <2> HIDE DEF x0
    <2> QED
      BY <2>1, <2>2 DEF Good
  <1>3. m0 \in Nat /\ Rest(x0) \in Nat /\ Rest(x0) <= m0
    <2>1. Reads(z.reply, z.sent, c)
      BY DEF Mid
    <2> DEFINE a == Len(c.net)
               b == Len(c.scratch)
    <2>2. a \in Nat /\ b \in Nat
      <3> DEFINE s == z.sent
                 q == Drawn(s, c)
                 k == Place(s, c)
      <3>1. a = s - q /\ b = q - k /\ s \in Nat /\ q \in Nat /\ k \in Nat /\ k <= q /\ q <= s
        BY <2>1, ReadsHas
      <3> HIDE DEF a, b, s, q, k
      <3> QED
        BY <3>1
    <2>3. Rest(x0) = 2 * a + b + (IF c.body_started THEN 1 ELSE 2)
      <3> HIDE DEF x0
      <3> QED
        BY <1>2 DEF Rest
    <2> HIDE DEF a, b, x0
    <2>4. 2 * a + b + 2 \in Nat /\ Rest(x0) \in Nat /\ Rest(x0) <= 2 * a + b + 2
      BY <2>2, <2>3
    <2> QED
      BY <2>4 DEF a, b
  <1> HIDE DEF m0, x0, cap
  <1>n. n \in Nat
    BY <1>3, EightsIs
  <1>0. Q(8 * n, x0)
    <2>1. m0 < 8 * n
      BY <1>3, EightsIs
    <2> HIDE DEF n
    <2> QED
      BY <1>2, <1>3, <1>n, <2>1
  <1> HIDE DEF n
  <1>4. ASSUME NEW j \in Int, NEW x, Q(j, x) PROVE Q(j - 1, turn(x))
    <2>1. Rest(x) \in Nat /\ (Rest(x) = 0 <=> x.ret # "go")
      BY <1>4, RestIs
    <2>2. CASE x.ret # "go"
      <3>1. turn(x) = x
        BY <2>2 DEF BodyTurn
      <3> HIDE DEF turn
      <3> QED
        BY <1>4, <2>1, <2>2, <3>1
    <2>3. CASE x.ret = "go"
      <3> DEFINE y == turn(x)
      <3>1. Good(z, y) /\ Rest(y) < Rest(x)
        BY <1>4, <2>3, BodyTurnGood DEF Turned, cap
      <3> HIDE DEF y
      <3>2. Rest(y) \in Nat
        BY <3>1, RestIs
      <3>3. Rest(x) # 0
        BY <2>1, <2>3
      <3>4. Rest(x) <= j
        BY <1>4, <3>3
      <3>5. Rest(y) <= j - 1
        BY <2>1, <3>1, <3>2, <3>4
      <3> QED
        BY <3>1, <3>5 DEF y
    <2> QED
      BY <2>2, <2>3
  <1>s. ASSUME NEW j \in Int, NEW x, Q(j, x), stop(x) PROVE Q(j - 8, x)
    <2>1. Rest(x) = 0
      BY <1>s, RestIs
    <2> QED
      BY <1>s, <2>1
  <1> HIDE DEF turn, stop, Q
  <1> USE DEF four
  <1>5. ASSUME NEW j \in Int, NEW x, Q(j, x) PROVE Q(j - 4, four(x))
    <2> DEFINE x1 == turn(x)
               x2 == turn(x1)
               x3 == turn(x2)
               j1 == j - 1
               j2 == j1 - 1
               j3 == j2 - 1
    <2>1. j1 \in Int /\ j2 \in Int /\ j3 \in Int /\ j3 - 1 = j - 4
      OBVIOUS
    <2>2. Q(j1, x1)
      BY <1>4, <1>5
    <2> HIDE DEF x1, j1
    <2>3. Q(j2, x2)
      BY <1>4, <2>1, <2>2
    <2> HIDE DEF x2, j2
    <2>4. Q(j3, x3)
      BY <1>4, <2>1, <2>3
    <2> HIDE DEF x3, j3
    <2>5. Q(j3 - 1, turn(x3))
      BY <1>4, <2>1, <2>4
    <2> QED
      BY <2>1, <2>5 DEF x1, x2, x3
  <1> HIDE DEF four
  <1> USE DEF T
  <1>6. ASSUME NEW j \in Int, NEW x, Q(j, x) PROVE Q(j - 8, T(x))
    <2>1. CASE stop(x)
      BY <1>6, <1>s, <2>1
    <2>2. CASE ~stop(x)
      <3> DEFINE x1 == four(x)
                 j1 == j - 4
      <3>1. j1 \in Int /\ j1 - 4 = j - 8
        OBVIOUS
      <3>2. Q(j1, x1)
        BY <1>5, <1>6
      <3> HIDE DEF x1, j1
      <3>3. Q(j1 - 4, four(x1))
        BY <1>5, <3>1, <3>2
      <3>4. T(x) = four(x1)
        BY <2>2 DEF x1
      <3> QED
        BY <3>1, <3>3, <3>4
    <2> QED
      BY <2>1, <2>2
  <1> HIDE DEF T, x0, n
  <1> USE DEF at
  <1>7. at = [k \in 0 .. n |-> IF k = 0 THEN x0 ELSE T(at[k - 1])]
    <2> DEFINE P(m, f) == f = [k \in 0 .. m |-> IF k = 0 THEN x0 ELSE T(f[k - 1])]
               S == {m \in 0 .. n : \E f : P(m, f)}
    <2>1. 0 \in S
      <3> DEFINE f == [k \in 0 .. 0 |-> x0]
      <3>1. P(0, f)
        OBVIOUS
      <3> HIDE DEF P
      <3>2. \E g : P(0, g)
        BY <3>1
      <3> QED
        BY <1>n, <3>2
    <2>2. ASSUME NEW m \in 1 .. n, m - 1 \in S PROVE m \in S
      <3>1. PICK f : P(m - 1, f)
        BY <2>2
      <3> DEFINE g == [k \in 0 .. m |-> IF k = m THEN T(f[m - 1]) ELSE f[k]]
      <3>2. m \in Nat /\ m # 0 /\ \A k \in 0 .. m : k # m => k \in 0 .. m - 1 /\ (k # 0 => k - 1 \in 0 .. m /\ k - 1 # m)
        BY <1>n
      <3>3. \A k \in 0 .. m - 1 : f[k] = IF k = 0 THEN x0 ELSE T(f[k - 1])
        BY <3>1
      <3>4. ASSUME NEW k \in 0 .. m PROVE g[k] = IF k = 0 THEN x0 ELSE T(g[k - 1])
        <4>1. CASE k = m
          <5>1. m - 1 \in 0 .. m /\ m - 1 # m
            BY <3>2
          <5>2. g[m - 1] = f[m - 1] /\ g[k] = T(f[m - 1])
            BY <4>1, <5>1
          <5> QED
            BY <3>2, <4>1, <5>2
        <4>2. CASE k # m
          <5>1. g[k] = f[k] /\ f[k] = IF k = 0 THEN x0 ELSE T(f[k - 1])
            BY <3>2, <3>3, <4>2
          <5>2. k # 0 => g[k - 1] = f[k - 1]
            BY <3>2, <4>2
          <5> QED
            BY <5>1, <5>2
        <4> QED
          BY <4>1, <4>2
      <3>5. P(m, g)
        <4>1. g = [k \in 0 .. m |-> g[k]]
          OBVIOUS
        <4> HIDE DEF g
        <4> QED
          BY <3>4, <4>1
      <3> HIDE DEF P, g
      <3>6. \E h0 : P(m, h0)
        BY <3>5
      <3> QED
        BY <1>n, <3>6
    <2> HIDE DEF S, P
    <2>3. n \in S
      BY <1>n, <2>1, <2>2, UpTo
    <2>4. \E f : P(n, f)
      BY <2>3 DEF S
    <2> QED
      BY <2>4 DEF P
  <1>8. at[0] = x0 /\ \A k \in 1 .. n : at[k] = T(at[k - 1])
    <2> HIDE DEF at
    <2>1. ASSUME NEW k \in 0 .. n PROVE at[k] = IF k = 0 THEN x0 ELSE T(at[k - 1])
      BY <1>7
    <2> QED
      BY <1>n, <2>1
  <1> HIDE DEF at
  <1> DEFINE S == {k \in 0 .. n : Q(8 * n - 8 * k, at[k])}
  <1>9. 0 \in S
    <2>1. 8 * n - 8 * 0 = 8 * n
      BY <1>n
    <2> QED
      BY <1>n, <1>0, <1>8, <2>1
  <1>10. ASSUME NEW k \in 1 .. n, k - 1 \in S PROVE k \in S
    <2> DEFINE j == 8 * n - 8 * (k - 1)
               x == at[k - 1]
    <2>1. j \in Int /\ j - 8 = 8 * n - 8 * k
      BY <1>n
    <2>2. Q(j, x)
      BY <1>10
    <2> HIDE DEF j, x
    <2>3. Q(j - 8, T(x))
      BY <1>6, <2>1, <2>2
    <2> QED
      BY <1>8, <2>1, <2>3 DEF x
  <1> HIDE DEF S
  <1>11. n \in S
    BY <1>n, <1>9, <1>10, UpTo
  <1>12. Q(0, at[n])
    <2>1. 8 * n - 8 * n = 0
      BY <1>n
    <2> QED
      BY <1>11, <2>1 DEF S
  <1>13. Good(z, at[n]) /\ (Rest(at[n]) = 0 \/ Rest(at[n]) <= 0)
    BY <1>12 DEF Q
  <1>14. Rest(at[n]) \in Nat
    BY <1>13, RestIs
  <1>15. Rest(at[n]) = 0
    BY <1>13, <1>14
  <1> QED
    BY <1>1, <1>13, <1>15, RestIs DEF cap

-----------------------------------------------------------------------------
(* nm_sse_feed: the parser behind a feed is the one that has read the same  *)
(* bytes one by one.                                                        *)

(* The parser's record.                                                     *)
IsParser(p) ==
    p = [state |-> p.state, name |-> p.name, val |-> p.val, data |-> p.data,
         event |-> p.event, id |-> p.id, pending_cr |-> p.pending_cr,
         hold |-> p.hold]

(* A parser that holds nothing back.                                        *)
Bare(p) == IsParser(p) /\ p.hold = <<>>

(* The parser with the bytes it has not read.                               *)
Holding(p, bytes) == [p EXCEPT !.hold = bytes]

(* What a byte gives, about a bare parser.                                  *)
IsByte(x) ==
    /\ x = [p |-> x.p, emitted |-> x.emitted, data |-> x.data]
    /\ Bare(x.p) /\ x.emitted \in BOOLEAN

(* Setting a field of a bare parser leaves it bare.                         *)
LEMMA BareSet ==
    ASSUME NEW p, Bare(p), NEW y
    PROVE  /\ Bare([p EXCEPT !.state = y])
           /\ Bare([p EXCEPT !.name = y])
           /\ Bare([p EXCEPT !.val = y])
           /\ Bare([p EXCEPT !.data = y])
           /\ Bare([p EXCEPT !.event = y])
           /\ Bare([p EXCEPT !.id = y])
           /\ Bare([p EXCEPT !.pending_cr = y])
  <1>1. Bare([p EXCEPT !.state = y])
    <2> DEFINE x == [p EXCEPT !.state = y]
    <2>1. x = [p EXCEPT !.state = y]
      OBVIOUS
    <2> HIDE DEF x
    <2>2. IsParser(p) /\ p.hold = <<>>
      BY DEF Bare
    <2>3. IsParser(x)
      BY <2>1, <2>2 DEF IsParser
    <2>4. x.hold = <<>>
      BY <2>1, <2>2 DEF IsParser
    <2> QED
      BY <2>3, <2>4 DEF Bare, x
  <1>2. Bare([p EXCEPT !.name = y])
    <2> DEFINE x == [p EXCEPT !.name = y]
    <2>1. x = [p EXCEPT !.name = y]
      OBVIOUS
    <2> HIDE DEF x
    <2>2. IsParser(p) /\ p.hold = <<>>
      BY DEF Bare
    <2>3. IsParser(x)
      BY <2>1, <2>2 DEF IsParser
    <2>4. x.hold = <<>>
      BY <2>1, <2>2 DEF IsParser
    <2> QED
      BY <2>3, <2>4 DEF Bare, x
  <1>3. Bare([p EXCEPT !.val = y])
    <2> DEFINE x == [p EXCEPT !.val = y]
    <2>1. x = [p EXCEPT !.val = y]
      OBVIOUS
    <2> HIDE DEF x
    <2>2. IsParser(p) /\ p.hold = <<>>
      BY DEF Bare
    <2>3. IsParser(x)
      BY <2>1, <2>2 DEF IsParser
    <2>4. x.hold = <<>>
      BY <2>1, <2>2 DEF IsParser
    <2> QED
      BY <2>3, <2>4 DEF Bare, x
  <1>4. Bare([p EXCEPT !.data = y])
    <2> DEFINE x == [p EXCEPT !.data = y]
    <2>1. x = [p EXCEPT !.data = y]
      OBVIOUS
    <2> HIDE DEF x
    <2>2. IsParser(p) /\ p.hold = <<>>
      BY DEF Bare
    <2>3. IsParser(x)
      BY <2>1, <2>2 DEF IsParser
    <2>4. x.hold = <<>>
      BY <2>1, <2>2 DEF IsParser
    <2> QED
      BY <2>3, <2>4 DEF Bare, x
  <1>5. Bare([p EXCEPT !.event = y])
    <2> DEFINE x == [p EXCEPT !.event = y]
    <2>1. x = [p EXCEPT !.event = y]
      OBVIOUS
    <2> HIDE DEF x
    <2>2. IsParser(p) /\ p.hold = <<>>
      BY DEF Bare
    <2>3. IsParser(x)
      BY <2>1, <2>2 DEF IsParser
    <2>4. x.hold = <<>>
      BY <2>1, <2>2 DEF IsParser
    <2> QED
      BY <2>3, <2>4 DEF Bare, x
  <1>6. Bare([p EXCEPT !.id = y])
    <2> DEFINE x == [p EXCEPT !.id = y]
    <2>1. x = [p EXCEPT !.id = y]
      OBVIOUS
    <2> HIDE DEF x
    <2>2. IsParser(p) /\ p.hold = <<>>
      BY DEF Bare
    <2>3. IsParser(x)
      BY <2>1, <2>2 DEF IsParser
    <2>4. x.hold = <<>>
      BY <2>1, <2>2 DEF IsParser
    <2> QED
      BY <2>3, <2>4 DEF Bare, x
  <1>7. Bare([p EXCEPT !.pending_cr = y])
    <2> DEFINE x == [p EXCEPT !.pending_cr = y]
    <2>1. x = [p EXCEPT !.pending_cr = y]
      OBVIOUS
    <2> HIDE DEF x
    <2>2. IsParser(p) /\ p.hold = <<>>
      BY DEF Bare
    <2>3. IsParser(x)
      BY <2>1, <2>2 DEF IsParser
    <2>4. x.hold = <<>>
      BY <2>1, <2>2 DEF IsParser
    <2> QED
      BY <2>3, <2>4 DEF Bare, x
  <1> QED
    BY <1>1, <1>2, <1>3, <1>4, <1>5, <1>6, <1>7

(* The next line and the next field begin with nothing held back.           *)
LEMMA LineBare ==
    ASSUME NEW p, Bare(p)
    PROVE  Bare(NextLine(p)) /\ Bare(FieldLine(p))
  <1>1. Bare(NextLine(p))
    <2> DEFINE p1 == [p EXCEPT !.state = "name"]
               p2 == [p1 EXCEPT !.name = <<>>]
    <2>1. Bare(p1)
      BY BareSet
    <2>2. NextLine(p) = [p2 EXCEPT !.val = <<>>]
      BY DEF NextLine
    <2> HIDE DEF p1
    <2>3. Bare(p2)
      BY <2>1, BareSet
    <2> HIDE DEF p2
    <2> DEFINE p3 == [p2 EXCEPT !.val = <<>>]
    <2>4. Bare(p3)
      BY <2>3, BareSet
    <2>5. NextLine(p) = p3
      BY <2>2
    <2> HIDE DEF p3
    <2> QED
      BY <2>4, <2>5
  <1> DEFINE d == (IF p.data = <<>> THEN p.data ELSE Append(p.data, "NL")) \o p.val
             e == TextOf(p.val)
  <1>2. FieldLine(p) \in {[p EXCEPT !.data = d], [p EXCEPT !.event = e], [p EXCEPT !.id = e], p}
    BY DEF FieldLine
  <1> HIDE DEF d, e
  <1>3. Bare([p EXCEPT !.data = d])
    BY BareSet
  <1>4. Bare([p EXCEPT !.event = e])
    BY BareSet
  <1>5. Bare([p EXCEPT !.id = e])
    BY BareSet
  <1> QED
    BY <1>1, <1>2, <1>3, <1>4, <1>5

(* So does what the end of a line gives.                                    *)
LEMMA LineEndIs ==
    ASSUME NEW p, Bare(p)
    PROVE  IsByte(LineEnd(p))
  <1>1. Bare(NextLine(p)) /\ Bare(FieldLine(p))
    BY LineBare
  <1>2. Bare(NextLine(FieldLine(p)))
    BY <1>1, LineBare
  <1> DEFINE q == NextLine(p)
             u == [q EXCEPT !.data = <<>>, !.event = "", !.id = ""]
             v == NextLine(FieldLine(p))
  <1>3. Bare(u)
    <2> DEFINE p1 == [q EXCEPT !.data = <<>>]
               p2 == [p1 EXCEPT !.event = ""]
    <2>1. Bare(p1)
      BY <1>1, BareSet
    <2>2. u = [p2 EXCEPT !.id = ""]
      OBVIOUS
    <2> HIDE DEF p1, q, u
    <2>3. Bare(p2)
      BY <2>1, BareSet
    <2> HIDE DEF p2
    <2> QED
      BY <2>2, <2>3, BareSet
  <1>4. LineEnd(p) \in {Emits(u, p.data), Silent(q), Silent(v)}
    BY DEF LineEnd
  <1> HIDE DEF q, u, v
  <1>5. IsByte(Emits(u, p.data))
    BY <1>3 DEF Emits, IsByte
  <1>6. IsByte(Silent(q)) /\ IsByte(Silent(v))
    BY <1>1, <1>2 DEF Silent, IsByte, q, v
  <1> QED
    BY <1>4, <1>5, <1>6

(* And what any byte gives.                                                 *)
LEMMA SseByteIs ==
    ASSUME NEW p, Bare(p), NEW b
    PROVE  IsByte(SseByte(p, b))
  <1> DEFINE p1 == [p EXCEPT !.pending_cr = TRUE]
             p2 == [p EXCEPT !.pending_cr = FALSE]
  <1>1. Bare(p1) /\ Bare(p2)
    BY BareSet
  <1>2. SseByte(p, b) \in {LineEnd(p1), Silent(p2), LineEnd(p), Silent(FieldByte(p2, b))}
    BY DEF SseByte
  <1> HIDE DEF p1, p2
  <1>3. Bare(FieldByte(p2, b))
    <2> DEFINE y1 == [p2 EXCEPT !.state = "colon"]
               n == Append(p2.name, b)
               v == Append(p2.val, b)
               y2 == [p2 EXCEPT !.name = n]
               y3 == [p2 EXCEPT !.state = "val"]
               y4 == [p2 EXCEPT !.state = "val", !.val = v]
    <2>1. FieldByte(p2, b) \in {y1, y2, y3, y4}
      BY DEF FieldByte
    <2> HIDE DEF n, v
    <2>2. Bare(y1) /\ Bare(y2) /\ Bare(y3)
      BY <1>1, BareSet
    <2>3. Bare(y4)
      <3>1. y4 = [y3 EXCEPT !.val = v]
        OBVIOUS
      <3> HIDE DEF y3, y4
      <3> QED
        BY <2>2, <3>1, BareSet
    <2> HIDE DEF y1, y2, y3, y4
    <2> QED
      BY <2>1, <2>2, <2>3
  <1>4. IsByte(LineEnd(p1)) /\ IsByte(LineEnd(p))
    BY <1>1, LineEndIs
  <1>5. IsByte(Silent(p2)) /\ IsByte(Silent(FieldByte(p2, b)))
    BY <1>1, <1>3 DEF Silent, IsByte
  <1> QED
    BY <1>2, <1>4, <1>5

(* What the bytes of r have said, up to the m-th.                           *)
Says(r, m) == Parsed[r.wire][m]
Events(r, m) == Says(r, m).events

(* The record of what the bytes have said.                                  *)
IsSaid(x) ==
    /\ x = [p |-> x.p, emitted |-> x.emitted, data |-> x.data, events |-> x.events]
    /\ Bare(x.p) /\ x.emitted \in BOOLEAN /\ x.events \in Nat

(* A byte of the reply: the parser takes it, and counts an event it ends.   *)
SaysNext(r, m) ==
    LET y == SseByte(Says(r, m).p, Bytes(r)[m + 1])
    IN Says(r, m + 1) = [p |-> y.p, emitted |-> y.emitted, data |-> y.data,
                         events |-> IF y.emitted THEN Events(r, m) + 1 ELSE Events(r, m)]

(* What the bytes of a reply say, from the first on.                        *)
LEMMA SaysFrom ==
    ASSUME NEW r \in Replies
    PROVE  /\ Says(r, 0) = [p |-> NewParser, emitted |-> FALSE, data |-> <<>>, events |-> 0]
           /\ Len(Bytes(r)) \in Nat /\ IsSeq(Bytes(r))
           /\ \A m \in 0 .. Len(Bytes(r)) - 1 : SaysNext(r, m)
  <1> DEFINE B == Bytes(r)
  <1>1. IsParsed(B, Parsed[r.wire])
    BY ReplyAssumption DEF IsReply, SaysItsEvents, Bytes, At
  <1>2. IsSeq(B) /\ Len(B) \in Nat
    <2>1. Len(r.wire) \in 0 .. Len(r.wire) /\ 0 \in 0 .. Len(r.wire)
      BY TopIs
    <2>2. IsSeq(B)
      BY <2>1, PayIs
    <2> QED
      BY <2>2, SeqHas
  <1> HIDE DEF B
  <1>3. ASSUME NEW m \in 0 .. Len(B) - 1 PROVE SaysNext(r, m)
    <2>1. m + 1 \in 1 .. Len(B) /\ (m + 1) - 1 = m
      BY <1>2
    <2>2. Parsed[r.wire][m + 1] = ParsedByte(Parsed[r.wire][m], B[m + 1])
      BY <1>1, <2>1 DEF IsParsed
    <2> QED
      BY <2>2 DEF SaysNext, Says, Events, ParsedByte, B
  <1>4. Says(r, 0) = [p |-> NewParser, emitted |-> FALSE, data |-> <<>>, events |-> 0]
    BY <1>1 DEF IsParsed, Says
  <1> QED
    BY <1>2, <1>3, <1>4 DEF B

(* Behind every byte the parser is one that holds nothing back.             *)
LEMMA SaysIs ==
    ASSUME NEW r \in Replies
    PROVE  \A m \in 0 .. Len(Bytes(r)) : IsSaid(Says(r, m))
  <1> DEFINE N == Len(Bytes(r))
             S == {m \in 0 .. N : IsSaid(Says(r, m))}
  <1>1. N \in Nat /\ \A m \in 0 .. N - 1 : SaysNext(r, m)
    BY SaysFrom
  <1>2. 0 \in S
    <2>1. Says(r, 0) = [p |-> NewParser, emitted |-> FALSE, data |-> <<>>, events |-> 0]
      BY SaysFrom
    <2>2. Bare(NewParser)
      <3> DEFINE x == NewParser
      <3>1. x = [state |-> "name", name |-> <<>>, val |-> <<>>, data |-> <<>>,
                 event |-> "", id |-> "", pending_cr |-> FALSE, hold |-> <<>>]
        BY DEF NewParser
      <3> HIDE DEF x
      <3>2. IsParser(x)
        BY <3>1 DEF IsParser
      <3>3. x.hold = <<>>
        BY <3>1
      <3> QED
        BY <3>2, <3>3 DEF Bare, x
    <2>3. IsSaid(Says(r, 0))
      <3> DEFINE x == Says(r, 0)
                 q == NewParser
      <3>1. x = [p |-> q, emitted |-> FALSE, data |-> <<>>, events |-> 0] /\ Bare(q)
        BY <2>1, <2>2
      <3> HIDE DEF x, q
      <3>2. x.p = q /\ x.emitted = FALSE /\ x.data = <<>> /\ x.events = 0
        BY <3>1
      <3>3. x = [p |-> x.p, emitted |-> x.emitted, data |-> x.data, events |-> x.events]
        BY <3>1, <3>2
      <3>4. x.emitted \in BOOLEAN
        BY <3>2, Zenon
      <3>5. x.events \in Nat
        BY <3>2
      <3>6. Bare(x.p)
        BY <3>1, <3>2, Zenon
      <3>7. IsSaid(x)
        BY <3>3, <3>4, <3>5, <3>6, Zenon DEF IsSaid
      <3> QED
        BY <3>7 DEF x
    <2> QED
      BY <1>1, <2>3
  <1>3. ASSUME NEW m \in 1 .. N, m - 1 \in S PROVE m \in S
    <2> DEFINE k == m - 1
    <2>1. k \in 0 .. N - 1 /\ k + 1 = m
      BY <1>1
    <2>2. IsSaid(Says(r, k)) /\ SaysNext(r, k)
      BY <1>1, <1>3, <2>1
    <2> HIDE DEF k
    <2> DEFINE y == SseByte(Says(r, k).p, Bytes(r)[k + 1])
               e == IF y.emitted THEN Events(r, k) + 1 ELSE Events(r, k)
    <2>3. IsByte(y)
      BY <2>2, SseByteIs DEF IsSaid
    <2>4. e \in Nat
      BY <2>2 DEF IsSaid, Events
    <2>5. Says(r, m) = [p |-> y.p, emitted |-> y.emitted, data |-> y.data, events |-> e]
      BY <2>1, <2>2 DEF SaysNext
    <2> HIDE DEF y, e
    <2>6. IsSaid(Says(r, m))
      BY <2>3, <2>4, <2>5 DEF IsSaid, IsByte
    <2> QED
      BY <2>6
  <1> HIDE DEF S, N
  <1>4. \A m \in 0 .. N : m \in S
    BY <1>1, <1>2, <1>3, UpTo
  <1> QED
    BY <1>4 DEF S, N

(* A feed, z: of the bytes of z.reply behind the z.from-th, up to z.to.     *)
IsFeed(z) == z.reply \in Replies /\ Within(Bytes(z.reply), z.from, z.to)

(* Its bytes.                                                               *)
FedBytes(z) == Cut(Bytes(z.reply), z.from, z.to)

(* The parser behind the j-th byte, the rest held back.                     *)
Rests(z, j) == Holding(Says(z.reply, j).p, Cut(Bytes(z.reply), j, z.to))

(* What the turns of a feed keep, x = [p, at, emitted, data].               *)
Feeds(z, x) ==
    LET j == z.from + x.at - 1
    IN /\ IsFeed(z) /\ x = [p |-> x.p, at |-> x.at, emitted |-> x.emitted, data |-> x.data]
       /\ x.at \in Nat /\ x.at >= 1 /\ j <= z.to /\ x.emitted \in BOOLEAN
       /\ ~x.emitted => x.p = Says(z.reply, j).p /\ Events(z.reply, j) = Events(z.reply, z.from)
       /\ x.emitted => /\ x.p = Rests(z, j) /\ x.at # 1
                       /\ Says(z.reply, j).emitted /\ x.data = Says(z.reply, j).data
                       /\ Events(z.reply, j) = Events(z.reply, z.from) + 1

(* How many turns are left at most.                                         *)
Unfed(z, x) == IF x.emitted THEN 0 ELSE z.to - (z.from + x.at - 1)

(* What holds at every turn of a feed.                                      *)
LEMMA FeedHas ==
    ASSUME NEW z, NEW x, Feeds(z, x)
    PROVE  LET j == z.from + x.at - 1
               a == FedBytes(z)
           IN /\ z.from \in Nat /\ z.to \in Nat /\ z.from <= z.to /\ x.at \in Nat /\ j \in Nat /\ j <= z.to
              /\ z.from <= j /\ Within(Bytes(z.reply), j, z.to) /\ Within(Bytes(z.reply), z.from, z.to)
              /\ Len(a) = z.to - z.from /\ IsSeq(a) /\ z.to <= Len(Bytes(z.reply))
              /\ Len(Bytes(z.reply)) \in Nat /\ z.reply \in Replies
              /\ (SseStops(x, a) <=> x.emitted \/ j = z.to)
  <1> DEFINE B == Bytes(z.reply)
             f == z.from
             t == z.to
             j == f + x.at - 1
             a == FedBytes(z)
  <1>1. Within(B, f, t) /\ z.reply \in Replies /\ x.at \in Nat /\ x.at >= 1 /\ j <= t
    BY DEF Feeds, IsFeed
  <1>2. /\ IsSeq(B) /\ f \in Nat /\ t \in Nat /\ f <= t /\ t <= Len(B) /\ Len(B) \in Nat
        /\ Len(a) = t - f /\ IsSeq(a)
    BY <1>1, CutIs DEF FedBytes
  <1> HIDE DEF a, B, f, t
  <1>3. j \in Nat /\ f <= j
    BY <1>1, <1>2
  <1> HIDE DEF j
  <1>4. Within(B, j, t)
    BY <1>1, <1>2, <1>3 DEF Within
  <1>5. x.at > Len(a) <=> j = t
    BY <1>1, <1>2 DEF j
  <1>6. SseStops(x, a) <=> x.emitted \/ j = t
    BY <1>5 DEF SseStops
  <1> QED
    BY <1>1, <1>2, <1>3, <1>4, <1>6 DEF B, f, t, j, a

(* The turns that are left are a number, 0 when the feed stops.             *)
LEMMA UnfedIs ==
    ASSUME NEW z, NEW x, Feeds(z, x)
    PROVE  Unfed(z, x) \in Nat /\ (SseStops(x, FedBytes(z)) <=> Unfed(z, x) = 0)
  <1> DEFINE j == z.from + x.at - 1
             t == z.to
  <1>1. t \in Nat /\ j \in Nat /\ j <= t /\ (SseStops(x, FedBytes(z)) <=> x.emitted \/ j = t)
    BY FeedHas
  <1>2. Unfed(z, x) = IF x.emitted THEN 0 ELSE t - j
    BY DEF Unfed
  <1> HIDE DEF j, t
  <1> QED
    BY <1>1, <1>2

(* A turn takes a byte as the reply says it, and the turns get fewer.       *)
LEMMA FeedTurn ==
    ASSUME NEW z, NEW x, Feeds(z, x), ~SseStops(x, FedBytes(z))
    PROVE  Feeds(z, SseTurn(x, FedBytes(z))) /\ Unfed(z, SseTurn(x, FedBytes(z))) < Unfed(z, x)
  <1> DEFINE B == Bytes(z.reply)
             r == z.reply
             f == z.from
             t == z.to
             j == f + x.at - 1
             k == f + (x.at + 1) - 1
             a == FedBytes(z)
             y == SseTurn(x, a)
             b == SseByte(x.p, a[x.at])
             rest == SubSeq(a, x.at + 1, Len(a))
             q == IF b.emitted THEN [b.p EXCEPT !.hold = rest] ELSE b.p
  <1>1. y = [p |-> q, at |-> x.at + 1, emitted |-> b.emitted, data |-> b.data]
    BY DEF SseTurn
  <1>2. /\ f \in Nat /\ t \in Nat /\ f <= t /\ x.at \in Nat /\ j \in Nat /\ j <= t /\ x.at >= 1
        /\ f <= j /\ Within(B, j, t) /\ Within(B, f, t) /\ t <= Len(B) /\ Len(B) \in Nat
        /\ r \in Replies /\ IsFeed(z) /\ Len(a) = t - f
    BY FeedHas DEF Feeds
  <1>3. ~x.emitted /\ j # t
    BY FeedHas
  <1>4. x.p = Says(r, j).p /\ Events(r, j) = Events(r, f)
    BY <1>3 DEF Feeds
  <1> HIDE DEF y, f, t
  <1>5. /\ k = j + 1 /\ k \in Nat /\ k <= t /\ j \in 0 .. Len(B) - 1 /\ x.at \in 1 .. t - f /\ f + x.at = k
        /\ k \in 0 .. Len(B) /\ j \in 0 .. Len(B) /\ x.at <= t - f
    BY <1>2, <1>3
  <1>6. a[x.at] = B[k]
    BY <1>2, <1>5, CutAt DEF FedBytes, f, t
  <1>7. rest = Cut(B, k, t)
    <2>1. Cut(a, x.at, t - f) = Cut(B, f + x.at, f + (t - f))
      <3>1. t - f \in Nat
        BY <1>2
      <3> QED
        BY <1>2, <1>5, <3>1, CutCut DEF FedBytes, f, t
    <2>2. f + (t - f) = t
      BY <1>2
    <2> QED
      BY <1>2, <1>5, <2>1, <2>2 DEF Cut
  <1> HIDE DEF a, B, rest, j, k
  <1>8. SaysNext(r, j) /\ IsSaid(Says(r, j)) /\ IsSaid(Says(r, k))
    BY <1>2, <1>5, SaysFrom, SaysIs DEF B
  <1>9. /\ b.p = Says(r, k).p /\ b.emitted = Says(r, k).emitted /\ b.data = Says(r, k).data
        /\ Events(r, k) = IF b.emitted THEN Events(r, j) + 1 ELSE Events(r, j)
    <2> DEFINE c == SseByte(Says(r, j).p, Bytes(r)[j + 1])
               e == IF c.emitted THEN Events(r, j) + 1 ELSE Events(r, j)
    <2>1. c = b
      BY <1>4, <1>5, <1>6 DEF B
    <2>2. Says(r, j + 1) = [p |-> c.p, emitted |-> c.emitted, data |-> c.data, events |-> e]
      BY <1>8 DEF SaysNext
    <2> HIDE DEF c, e
    <2>3. Says(r, k) = [p |-> c.p, emitted |-> c.emitted, data |-> c.data, events |-> e]
      BY <1>5, <2>2
    <2>4. Says(r, k).p = c.p /\ Says(r, k).emitted = c.emitted /\ Says(r, k).data = c.data /\ Events(r, k) = e
      BY <2>3 DEF Events
    <2> HIDE DEF b
    <2> QED
      BY <2>1, <2>4 DEF e
  <1> HIDE DEF b
  <1>10. b.emitted \in BOOLEAN
    BY <1>8, <1>9 DEF IsSaid
  <1>11. q = IF b.emitted THEN Rests(z, k) ELSE Says(r, k).p
    BY <1>7, <1>9 DEF Rests, Holding, B, t
  <1> HIDE DEF q, r
  <1>12. /\ y.p = q /\ y.at = x.at + 1 /\ y.emitted = b.emitted /\ y.data = b.data
         /\ y = [p |-> y.p, at |-> y.at, emitted |-> y.emitted, data |-> y.data]
    BY <1>1
  <1>13. z.from + y.at - 1 = k
    BY <1>12 DEF k, f
  <1>14. y.at \in Nat /\ y.at >= 1 /\ y.at # 1
    BY <1>2, <1>12
  <1>15. CASE ~b.emitted
    <2>1. y.p = Says(r, k).p /\ Events(r, k) = Events(r, f) /\ ~y.emitted
      BY <1>4, <1>9, <1>11, <1>12, <1>15
    <2>2. Feeds(z, y)
      BY <1>2, <1>5, <1>10, <1>12, <1>13, <1>14, <2>1 DEF Feeds, r, f, t
    <2>3. Unfed(z, y) = t - k
      BY <1>13, <2>1 DEF Unfed, t
    <2>4. Unfed(z, x) = t - j
      BY <1>3 DEF Unfed, t, j, f
    <2> QED
      BY <1>2, <1>5, <2>2, <2>3, <2>4 DEF y, a
  <1>16. CASE b.emitted
    <2>1. /\ y.p = Rests(z, k) /\ y.emitted /\ Says(r, k).emitted /\ y.data = Says(r, k).data
          /\ Events(r, k) = Events(r, f) + 1
      BY <1>4, <1>9, <1>11, <1>12, <1>16
    <2>2. Feeds(z, y)
      BY <1>2, <1>5, <1>10, <1>12, <1>13, <1>14, <2>1 DEF Feeds, r, f, t
    <2>3. Unfed(z, y) = 0
      BY <2>1 DEF Unfed
    <2>4. Unfed(z, x) = t - j
      BY <1>3 DEF Unfed, t, j, f
    <2> QED
      BY <1>2, <1>3, <1>5, <2>2, <2>3, <2>4 DEF y, a
  <1> QED
    BY <1>10, <1>15, <1>16

(* What a parser holds back is a field of its own.                          *)
LEMMA HoldingIs ==
    ASSUME NEW q, Bare(q), NEW b, NEW d
    PROVE  /\ IsParser(Holding(q, b)) /\ Holding(q, b).hold = b
           /\ Holding(Holding(q, b), d) = Holding(q, d) /\ Holding(q, <<>>) = q
  <1>1. IsParser(q) /\ q.hold = <<>>
    BY DEF Bare
  <1> DEFINE x == Holding(q, b)
             y == Holding(q, d)
             w == Holding(x, d)
             e == Holding(q, <<>>)
  <1>2. x = [q EXCEPT !.hold = b] /\ y = [q EXCEPT !.hold = d] /\ w = [x EXCEPT !.hold = d]
        /\ e = [q EXCEPT !.hold = <<>>]
    BY DEF Holding
  <1> HIDE DEF x, y, w, e
  <1>3. IsParser(x) /\ x.hold = b
    BY <1>1, <1>2 DEF IsParser
  <1>4. /\ x.state = q.state /\ x.name = q.name /\ x.val = q.val /\ x.data = q.data
        /\ x.event = q.event /\ x.id = q.id /\ x.pending_cr = q.pending_cr
    BY <1>1, <1>2 DEF IsParser
  <1>5. y = [state |-> q.state, name |-> q.name, val |-> q.val, data |-> q.data,
             event |-> q.event, id |-> q.id, pending_cr |-> q.pending_cr, hold |-> d]
    BY <1>1, <1>2 DEF IsParser
  <1>6. w = [state |-> x.state, name |-> x.name, val |-> x.val, data |-> x.data,
             event |-> x.event, id |-> x.id, pending_cr |-> x.pending_cr, hold |-> d]
    BY <1>2, <1>3 DEF IsParser
  <1>7. w = y
    BY <1>4, <1>5, <1>6
  <1>8. e = [state |-> q.state, name |-> q.name, val |-> q.val, data |-> q.data,
             event |-> q.event, id |-> q.id, pending_cr |-> q.pending_cr, hold |-> <<>>]
    BY <1>1, <1>2 DEF IsParser
  <1>9. e = q
    BY <1>1, <1>8 DEF IsParser
  <1> QED
    BY <1>3, <1>7, <1>9 DEF x, y, w, e

(* What a feed gives.                                                       *)
FeedTo(z, y, j) ==
    /\ j \in z.from + 1 .. z.to /\ y.p = Rests(z, j) /\ y.emitted \in BOOLEAN
    /\ y.emitted => /\ Says(z.reply, j).emitted /\ y.data = Says(z.reply, j).data
                    /\ Events(z.reply, j) = Events(z.reply, z.from) + 1
    /\ ~y.emitted => j = z.to /\ Events(z.reply, j) = Events(z.reply, z.from)

(* Where a feed stops, an event is complete or the bytes are used up.       *)
LEMMA FeedEnds ==
    ASSUME NEW z, NEW x, Feeds(z, x), SseStops(x, FedBytes(z)), z.from # z.to
    PROVE  \E j : FeedTo(z, x, j)
  <1> DEFINE j == z.from + x.at - 1
  <1>1. /\ z.from \in Nat /\ z.to \in Nat /\ x.at \in Nat /\ j \in Nat /\ j <= z.to /\ z.from <= j
        /\ x.emitted \/ j = z.to
    BY FeedHas
  <1>2. CASE x.emitted
    <2>1. x.at # 1 /\ x.p = Rests(z, j) /\ Says(z.reply, j).emitted /\ x.data = Says(z.reply, j).data
          /\ Events(z.reply, j) = Events(z.reply, z.from) + 1 /\ x.emitted \in BOOLEAN
      BY <1>2 DEF Feeds
    <2>2. j \in z.from + 1 .. z.to
      BY <1>1, <2>1
    <2> HIDE DEF j
    <2>3. FeedTo(z, x, j)
      BY <1>2, <2>1, <2>2 DEF FeedTo
    <2> QED
      BY <2>3
  <1>3. CASE ~x.emitted
    <2>1. x.p = Says(z.reply, j).p /\ Events(z.reply, j) = Events(z.reply, z.from) /\ x.emitted \in BOOLEAN
      BY <1>3 DEF Feeds
    <2>2. j = z.to /\ j \in z.from + 1 .. z.to
      BY <1>1, <1>3
    <2>3. Within(Bytes(z.reply), j, z.to) /\ z.reply \in Replies /\ z.to <= Len(Bytes(z.reply)) /\ Len(Bytes(z.reply)) \in Nat
      BY FeedHas
    <2> HIDE DEF j
    <2>4. Cut(Bytes(z.reply), j, z.to) = <<>>
      BY <2>2, <2>3, CutEmpty
    <2>5. Bare(Says(z.reply, j).p)
      <3>1. j \in 0 .. Len(Bytes(z.reply))
        BY <1>1, <2>2, <2>3
      <3>2. IsSaid(Says(z.reply, j))
        BY <2>3, <3>1, SaysIs
      <3> QED
        BY <3>2 DEF IsSaid
    <2>6. x.p = Rests(z, j)
      BY <2>1, <2>4, <2>5, HoldingIs DEF Rests
    <2>7. FeedTo(z, x, j)
      BY <1>3, <2>1, <2>2, <2>6 DEF FeedTo
    <2> QED
      BY <2>7
  <1>4. x.emitted \in BOOLEAN
    BY DEF Feeds
  <1> QED
    BY <1>2, <1>3, <1>4

(* nm_sse_feed, on what the parser holds.                                   *)
LEMMA SseFeedGood ==
    ASSUME NEW z, IsFeed(z), z.from # z.to
    PROVE  \E j : FeedTo(z, SseFeed(Rests(z, z.from), <<>>), j)
  <1> DEFINE all == FedBytes(z)
             p0 == Says(z.reply, z.from).p
             x0 == [p |-> p0, at |-> 1, emitted |-> FALSE, data |-> <<>>]
             m0 == z.to - z.from
             n == Eights(m0)
             turn(x) == SseTurn(x, all)
             stop(x) == SseStops(x, all)
             Q(j, x) == Feeds(z, x) /\ (Unfed(z, x) = 0 \/ Unfed(z, x) <= j)
             four(x) == turn(turn(turn(turn(x))))
             T(x) == IF stop(x) THEN x ELSE four(four(x))
             at[k \in 0 .. n] == IF k = 0 THEN x0 ELSE T(at[k - 1])
  <1>a. /\ z.from \in Nat /\ z.to \in Nat /\ z.from <= z.to /\ z.reply \in Replies
        /\ z.from \in 0 .. Len(Bytes(z.reply)) /\ IsSeq(all) /\ Len(all) = z.to - z.from
    <2> HIDE DEF at, four, T
    <2>1. Within(Bytes(z.reply), z.from, z.to) /\ z.reply \in Replies
      BY DEF IsFeed
    <2>2. IsSeq(all) /\ Len(all) = z.to - z.from /\ z.from \in Nat /\ z.to \in Nat /\ Len(Bytes(z.reply)) \in Nat
          /\ z.from <= z.to /\ z.to <= Len(Bytes(z.reply))
      BY <2>1, CutIs DEF FedBytes
    <2> QED
      BY <2>1, <2>2
  <1>b. Bare(p0)
    BY <1>a, SaysIs DEF IsSaid
  <1>c. /\ Rests(z, z.from).hold \o <<>> = all /\ [Rests(z, z.from) EXCEPT !.hold = <<>>] = p0
    <2> HIDE DEF at, four, T
    <2>1. Rests(z, z.from).hold = all
      BY <1>b, HoldingIs DEF Rests, FedBytes
    <2>2. Holding(Rests(z, z.from), <<>>) = p0
      <3>1. Holding(Rests(z, z.from), <<>>) = Holding(p0, <<>>)
        BY <1>b, HoldingIs DEF Rests
      <3> QED
        BY <1>b, <3>1, HoldingIs
    <2> HIDE DEF all, p0
    <2>3. all \o <<>> = all
      BY <1>a, SeqHas
    <2> QED
      BY <2>1, <2>2, <2>3 DEF Holding
  <1>1. SseFeed(Rests(z, z.from), <<>>) = at[n]
    <2> DEFINE rest == Rests(z, z.from)
               a2 == rest.hold \o <<>>
               q2 == [rest EXCEPT !.hold = <<>>]
    <2>1. SseFeed(rest, <<>>) = Turns(Eights(Len(a2)), LAMBDA x : SseTurn(x, a2),
             LAMBDA x : SseStops(x, a2), [p |-> q2, at |-> 1, emitted |-> FALSE, data |-> <<>>])
      BY DEF SseFeed
    <2>2. a2 = all /\ q2 = p0
      BY <1>c
    <2> HIDE DEF rest, a2, q2, all, p0, at, four, T
    <2>3. SseFeed(rest, <<>>) = Turns(n, LAMBDA x : SseTurn(x, all), LAMBDA x : SseStops(x, all), x0)
      BY <1>a, <2>1, <2>2
    <2> QED
      BY <2>3 DEF Turns, rest, at, four, T
  <1> HIDE DEF four, T, at
  <1>2. Feeds(z, x0) /\ Unfed(z, x0) = z.to - z.from
    <2> HIDE DEF p0
    <2> DEFINE x == x0
    <2>1. x = [p |-> x.p, at |-> x.at, emitted |-> x.emitted, data |-> x.data]
      OBVIOUS
    <2>2. x.p = p0 /\ x.at = 1 /\ x.emitted = FALSE
      OBVIOUS
    <2> HIDE DEF x
    <2>3. z.from + x.at - 1 = z.from
      BY <1>a, <2>2
    <2>4. x.emitted \in BOOLEAN /\ ~x.emitted
      BY <2>2, Zenon
    <2>5. x.at \in Nat /\ x.at >= 1
      BY <2>2
    <2>6. Feeds(z, x)
      BY <1>a, <2>1, <2>2, <2>3, <2>4, <2>5 DEF Feeds, p0
    <2>7. Unfed(z, x) = z.to - z.from
      BY <2>3, <2>4 DEF Unfed
    <2> QED
      BY <2>6, <2>7 DEF x
  <1>3. m0 \in Nat
    BY <1>a
  <1> HIDE DEF x0, p0
  <1>n. n \in Nat
    BY <1>3, EightsIs
  <1>0. Q(8 * n, x0)
    <2>1. m0 < 8 * n
      BY <1>3, EightsIs
    <2> HIDE DEF n
    <2> QED
      BY <1>2, <1>3, <1>n, <2>1
  <1> HIDE DEF n, m0, all
  <1>4. ASSUME NEW j \in Int, NEW x, Q(j, x) PROVE Q(j - 1, turn(x))
    <2>1. Unfed(z, x) \in Nat /\ (stop(x) <=> Unfed(z, x) = 0)
      BY <1>4, UnfedIs DEF all
    <2>2. CASE stop(x)
      <3>1. turn(x) = x
        BY <2>2 DEF SseTurn
      <3> HIDE DEF turn
      <3> QED
        BY <1>4, <2>1, <2>2, <3>1
    <2>3. CASE ~stop(x)
      <3> DEFINE y == turn(x)
      <3>1. Feeds(z, y) /\ Unfed(z, y) < Unfed(z, x)
        BY <1>4, <2>3, FeedTurn DEF all
      <3> HIDE DEF y
      <3>2. Unfed(z, y) \in Nat
        BY <3>1, UnfedIs
      <3>4. Unfed(z, x) <= j
        BY <1>4, <2>1, <2>3
      <3>5. Unfed(z, y) <= j - 1
        BY <2>1, <3>1, <3>2, <3>4
      <3> QED
        BY <3>1, <3>5 DEF y
    <2> QED
      BY <2>2, <2>3
  <1>s. ASSUME NEW j \in Int, NEW x, Q(j, x), stop(x) PROVE Q(j - 8, x)
    <2>1. Unfed(z, x) = 0
      BY <1>s, UnfedIs DEF all
    <2> QED
      BY <1>s, <2>1
  <1> HIDE DEF turn, stop, Q
  <1> USE DEF four
  <1>5. ASSUME NEW j \in Int, NEW x, Q(j, x) PROVE Q(j - 4, four(x))
    <2> DEFINE x1 == turn(x)
               x2 == turn(x1)
               x3 == turn(x2)
               j1 == j - 1
               j2 == j1 - 1
               j3 == j2 - 1
    <2>1. j1 \in Int /\ j2 \in Int /\ j3 \in Int /\ j3 - 1 = j - 4
      OBVIOUS
    <2>2. Q(j1, x1)
      BY <1>4, <1>5
    <2> HIDE DEF x1, j1
    <2>3. Q(j2, x2)
      BY <1>4, <2>1, <2>2
    <2> HIDE DEF x2, j2
    <2>4. Q(j3, x3)
      BY <1>4, <2>1, <2>3
    <2> HIDE DEF x3, j3
    <2>5. Q(j3 - 1, turn(x3))
      BY <1>4, <2>1, <2>4
    <2> QED
      BY <2>1, <2>5 DEF x1, x2, x3
  <1> HIDE DEF four
  <1> USE DEF T
  <1>6. ASSUME NEW j \in Int, NEW x, Q(j, x) PROVE Q(j - 8, T(x))
    <2>1. CASE stop(x)
      BY <1>6, <1>s, <2>1
    <2>2. CASE ~stop(x)
      <3> DEFINE x1 == four(x)
                 j1 == j - 4
      <3>1. j1 \in Int /\ j1 - 4 = j - 8
        OBVIOUS
      <3>2. Q(j1, x1)
        BY <1>5, <1>6
      <3> HIDE DEF x1, j1
      <3>3. Q(j1 - 4, four(x1))
        BY <1>5, <3>1, <3>2
      <3>4. T(x) = four(x1)
        BY <2>2 DEF x1
      <3> QED
        BY <3>1, <3>3, <3>4
    <2> QED
      BY <2>1, <2>2
  <1> HIDE DEF T, x0, n
  <1> USE DEF at
  <1>7. at = [k \in 0 .. n |-> IF k = 0 THEN x0 ELSE T(at[k - 1])]
    <2> DEFINE P(m, f) == f = [k \in 0 .. m |-> IF k = 0 THEN x0 ELSE T(f[k - 1])]
               S == {m \in 0 .. n : \E f : P(m, f)}
    <2>1. 0 \in S
      <3> DEFINE f == [k \in 0 .. 0 |-> x0]
      <3>1. P(0, f)
        OBVIOUS
      <3> HIDE DEF P
      <3>2. \E g : P(0, g)
        BY <3>1
      <3> QED
        BY <1>n, <3>2
    <2>2. ASSUME NEW m \in 1 .. n, m - 1 \in S PROVE m \in S
      <3>1. PICK f : P(m - 1, f)
        BY <2>2
      <3> DEFINE g == [k \in 0 .. m |-> IF k = m THEN T(f[m - 1]) ELSE f[k]]
      <3>2. m \in Nat /\ m # 0 /\ \A k \in 0 .. m : k # m => k \in 0 .. m - 1 /\ (k # 0 => k - 1 \in 0 .. m /\ k - 1 # m)
        BY <1>n
      <3>3. \A k \in 0 .. m - 1 : f[k] = IF k = 0 THEN x0 ELSE T(f[k - 1])
        BY <3>1
      <3>4. ASSUME NEW k \in 0 .. m PROVE g[k] = IF k = 0 THEN x0 ELSE T(g[k - 1])
        <4>1. CASE k = m
          <5>1. m - 1 \in 0 .. m /\ m - 1 # m
            BY <3>2
          <5>2. g[m - 1] = f[m - 1] /\ g[k] = T(f[m - 1])
            BY <4>1, <5>1
          <5> QED
            BY <3>2, <4>1, <5>2
        <4>2. CASE k # m
          <5>1. g[k] = f[k] /\ f[k] = IF k = 0 THEN x0 ELSE T(f[k - 1])
            BY <3>2, <3>3, <4>2
          <5>2. k # 0 => g[k - 1] = f[k - 1]
            BY <3>2, <4>2
          <5> QED
            BY <5>1, <5>2
        <4> QED
          BY <4>1, <4>2
      <3>5. P(m, g)
        <4>1. g = [k \in 0 .. m |-> g[k]]
          OBVIOUS
        <4> HIDE DEF g
        <4> QED
          BY <3>4, <4>1
      <3> HIDE DEF P, g
      <3>6. \E h0 : P(m, h0)
        BY <3>5
      <3> QED
        BY <1>n, <3>6
    <2> HIDE DEF S, P
    <2>3. n \in S
      BY <1>n, <2>1, <2>2, UpTo
    <2>4. \E f : P(n, f)
      BY <2>3 DEF S
    <2> QED
      BY <2>4 DEF P
  <1>8. at[0] = x0 /\ \A k \in 1 .. n : at[k] = T(at[k - 1])
    <2> HIDE DEF at
    <2>1. ASSUME NEW k \in 0 .. n PROVE at[k] = IF k = 0 THEN x0 ELSE T(at[k - 1])
      BY <1>7
    <2> QED
      BY <1>n, <2>1
  <1> HIDE DEF at
  <1> DEFINE S == {k \in 0 .. n : Q(8 * n - 8 * k, at[k])}
  <1>9. 0 \in S
    <2>1. 8 * n - 8 * 0 = 8 * n
      BY <1>n
    <2> QED
      BY <1>n, <1>0, <1>8, <2>1
  <1>10. ASSUME NEW k \in 1 .. n, k - 1 \in S PROVE k \in S
    <2> DEFINE j == 8 * n - 8 * (k - 1)
               x == at[k - 1]
    <2>1. j \in Int /\ j - 8 = 8 * n - 8 * k
      BY <1>n
    <2>2. Q(j, x)
      BY <1>10
    <2> HIDE DEF j, x
    <2>3. Q(j - 8, T(x))
      BY <1>6, <2>1, <2>2
    <2> QED
      BY <1>8, <2>1, <2>3 DEF x
  <1> HIDE DEF S
  <1>11. n \in S
    BY <1>n, <1>9, <1>10, UpTo
  <1>12. Q(0, at[n])
    <2>1. 8 * n - 8 * n = 0
      BY <1>n
    <2> QED
      BY <1>11, <2>1 DEF S
  <1>13. Feeds(z, at[n]) /\ (Unfed(z, at[n]) = 0 \/ Unfed(z, at[n]) <= 0)
    BY <1>12 DEF Q
  <1>14. Unfed(z, at[n]) \in Nat
    BY <1>13, UnfedIs
  <1>15. Unfed(z, at[n]) = 0
    BY <1>13, <1>14
  <1>16. SseStops(at[n], FedBytes(z))
    BY <1>13, <1>15, UnfedIs
  <1> QED
    BY <1>1, <1>13, <1>16, FeedEnds

-----------------------------------------------------------------------------
(* The calls: the slots are those of the fragments, taken in order, however *)
(* parallel calls are mixed.                                                *)

(* What the first n events of r mean.                                       *)
Means(r, n) == Meaning(r.events)[n]

(* What no events mean.                                                     *)
NoMeaning == [told |-> <<>>, details |-> <<>>, calls |-> <<>>]

(* What the events mean, one by one.                                        *)
LEMMA MeansIs ==
    ASSUME NEW r \in Replies
    PROVE  /\ Len(r.events) \in Nat /\ IsSeq(r.events)
           /\ Means(r, 0) = NoMeaning
           /\ \A k \in 1 .. Len(r.events) : Means(r, k) = WithEvent(Means(r, k - 1), r.events[k])
  <1> DEFINE x0 == NoMeaning
             n == Len(r.events)
             T(k, x) == WithEvent(x, r.events[k])
             at[k \in 0 .. n] == IF k = 0 THEN x0 ELSE T(k, at[k - 1])
  <1>1. Meaning(r.events) = at
    BY DEF Meaning, NoMeaning
  <1>2. IsSeq(r.events)
    BY ReplyAssumption DEF IsReply, IsSeq
  <1>n. n \in Nat
    BY <1>2, SeqHas
  <1> HIDE DEF T, x0, n
  <1>7. at = [k \in 0 .. n |-> IF k = 0 THEN x0 ELSE T(k, at[k - 1])]
    <2> DEFINE P(m, f) == f = [k \in 0 .. m |-> IF k = 0 THEN x0 ELSE T(k, f[k - 1])]
               S == {m \in 0 .. n : \E f : P(m, f)}
    <2>1. 0 \in S
      <3> DEFINE f == [k \in 0 .. 0 |-> x0]
      <3>1. P(0, f)
        OBVIOUS
      <3> HIDE DEF P
      <3>2. \E g : P(0, g)
        BY <3>1
      <3> QED
        BY <1>n, <3>2
    <2>2. ASSUME NEW m \in 1 .. n, m - 1 \in S PROVE m \in S
      <3>1. PICK f : P(m - 1, f)
        BY <2>2
      <3> DEFINE g == [k \in 0 .. m |-> IF k = m THEN T(m, f[m - 1]) ELSE f[k]]
      <3>2. m \in Nat /\ m # 0 /\ \A k \in 0 .. m : k # m => k \in 0 .. m - 1 /\ (k # 0 => k - 1 \in 0 .. m /\ k - 1 # m)
        BY <1>n
      <3>3. \A k \in 0 .. m - 1 : f[k] = IF k = 0 THEN x0 ELSE T(k, f[k - 1])
        BY <3>1
      <3>4. ASSUME NEW k \in 0 .. m PROVE g[k] = IF k = 0 THEN x0 ELSE T(k, g[k - 1])
        <4>1. CASE k = m
          <5>1. m - 1 \in 0 .. m /\ m - 1 # m
            BY <3>2
          <5>2. g[m - 1] = f[m - 1] /\ g[k] = T(m, f[m - 1])
            BY <4>1, <5>1
          <5> QED
            BY <3>2, <4>1, <5>2
        <4>2. CASE k # m
          <5>1. g[k] = f[k] /\ f[k] = IF k = 0 THEN x0 ELSE T(k, f[k - 1])
            BY <3>2, <3>3, <4>2
          <5>2. k # 0 => g[k - 1] = f[k - 1]
            BY <3>2, <4>2
          <5> QED
            BY <5>1, <5>2
        <4> QED
          BY <4>1, <4>2
      <3>5. P(m, g)
        <4>1. g = [k \in 0 .. m |-> g[k]]
          OBVIOUS
        <4> HIDE DEF g
        <4> QED
          BY <3>4, <4>1
      <3> HIDE DEF P, g
      <3>6. \E h0 : P(m, h0)
        BY <3>5
      <3> QED
        BY <1>n, <3>6
    <2> HIDE DEF S, P
    <2>3. n \in S
      BY <1>n, <2>1, <2>2, UpTo
    <2>4. \E f : P(n, f)
      BY <2>3 DEF S
    <2> QED
      BY <2>4 DEF P
  <1>8. at[0] = x0 /\ \A k \in 1 .. n : at[k] = T(k, at[k - 1])
    <2> HIDE DEF at
    <2>1. ASSUME NEW k \in 0 .. n PROVE at[k] = IF k = 0 THEN x0 ELSE T(k, at[k - 1])
      BY <1>7
    <2> QED
      BY <1>n, <2>1
  <1> HIDE DEF at
  <1>9. \A k \in 0 .. n : Means(r, k) = at[k]
    BY <1>1 DEF Means
  <1>10. \A k \in 1 .. n : k \in 0 .. n /\ k - 1 \in 0 .. n
    BY <1>n
  <1>11. Means(r, 0) = x0
    BY <1>8, <1>9, <1>n
  <1>12. ASSUME NEW k \in 1 .. n PROVE Means(r, k) = WithEvent(Means(r, k - 1), r.events[k])
    <2>1. at[k] = T(k, at[k - 1])
      BY <1>8
    <2>2. Means(r, k) = at[k] /\ Means(r, k - 1) = at[k - 1]
      BY <1>9, <1>10
    <2> QED
      BY <2>1, <2>2 DEF T
  <1> QED
    BY <1>2, <1>n, <1>11, <1>12 DEF n, x0

(* A fragment more of the call k.                                           *)
CallWith(c, f, k) ==
    IF f.of # k THEN c
    ELSE [args |-> c.args \o f.args, name |-> First(c.name, f.name), id |-> First(c.id, f.id)]

(* A call no fragment of which has come.                                    *)
NoCall == [args |-> <<>>, name |-> "", id |-> ""]

(* g puts the call k together from the first n fragments of F.              *)
Gathers(g, F, n, k) == g[0] = NoCall /\ \A i \in 1 .. n : g[i] = CallWith(g[i - 1], F[i], k)

(* A call is put together fragment by fragment.                             *)
LEMMA CallOfIs ==
    ASSUME NEW F, IsSeq(F), NEW key
    PROVE  \E g : Gathers(g, F, Len(F), key) /\ CallOf(F, key) = g[Len(F)]
  <1> DEFINE x0 == NoCall
             n == Len(F)
             T(k, x) == CallWith(x, F[k], key)
             at[k \in 0 .. n] == IF k = 0 THEN x0 ELSE T(k, at[k - 1])
  <1>1. CallOf(F, key) = at[n]
    BY DEF CallOf, NoCall, CallWith
  <1>n. n \in Nat
    BY SeqHas
  <1> HIDE DEF T, x0, n
  <1>7. at = [k \in 0 .. n |-> IF k = 0 THEN x0 ELSE T(k, at[k - 1])]
    <2> DEFINE P(m, f) == f = [k \in 0 .. m |-> IF k = 0 THEN x0 ELSE T(k, f[k - 1])]
               S == {m \in 0 .. n : \E f : P(m, f)}
    <2>1. 0 \in S
      <3> DEFINE f == [k \in 0 .. 0 |-> x0]
      <3>1. P(0, f)
        OBVIOUS
      <3> HIDE DEF P
      <3>2. \E g : P(0, g)
        BY <3>1
      <3> QED
        BY <1>n, <3>2
    <2>2. ASSUME NEW m \in 1 .. n, m - 1 \in S PROVE m \in S
      <3>1. PICK f : P(m - 1, f)
        BY <2>2
      <3> DEFINE g == [k \in 0 .. m |-> IF k = m THEN T(m, f[m - 1]) ELSE f[k]]
      <3>2. m \in Nat /\ m # 0 /\ \A k \in 0 .. m : k # m => k \in 0 .. m - 1 /\ (k # 0 => k - 1 \in 0 .. m /\ k - 1 # m)
        BY <1>n
      <3>3. \A k \in 0 .. m - 1 : f[k] = IF k = 0 THEN x0 ELSE T(k, f[k - 1])
        BY <3>1
      <3>4. ASSUME NEW k \in 0 .. m PROVE g[k] = IF k = 0 THEN x0 ELSE T(k, g[k - 1])
        <4>1. CASE k = m
          <5>1. m - 1 \in 0 .. m /\ m - 1 # m
            BY <3>2
          <5>2. g[m - 1] = f[m - 1] /\ g[k] = T(m, f[m - 1])
            BY <4>1, <5>1
          <5> QED
            BY <3>2, <4>1, <5>2
        <4>2. CASE k # m
          <5>1. g[k] = f[k] /\ f[k] = IF k = 0 THEN x0 ELSE T(k, f[k - 1])
            BY <3>2, <3>3, <4>2
          <5>2. k # 0 => g[k - 1] = f[k - 1]
            BY <3>2, <4>2
          <5> QED
            BY <5>1, <5>2
        <4> QED
          BY <4>1, <4>2
      <3>5. P(m, g)
        <4>1. g = [k \in 0 .. m |-> g[k]]
          OBVIOUS
        <4> HIDE DEF g
        <4> QED
          BY <3>4, <4>1
      <3> HIDE DEF P, g
      <3>6. \E h0 : P(m, h0)
        BY <3>5
      <3> QED
        BY <1>n, <3>6
    <2> HIDE DEF S, P
    <2>3. n \in S
      BY <1>n, <2>1, <2>2, UpTo
    <2>4. \E f : P(n, f)
      BY <2>3 DEF S
    <2> QED
      BY <2>4 DEF P
  <1>8. at[0] = x0 /\ \A k \in 1 .. n : at[k] = T(k, at[k - 1])
    <2> HIDE DEF at
    <2>1. ASSUME NEW k \in 0 .. n PROVE at[k] = IF k = 0 THEN x0 ELSE T(k, at[k - 1])
      BY <1>7
    <2> QED
      BY <1>n, <2>1
  <1> HIDE DEF at
  <1>9. Gathers(at, F, n, key)
    BY <1>8 DEF Gathers, x0, T
  <1> QED
    BY <1>1, <1>9 DEF n

(* The call key, put together from the first n fragments of F.              *)
CallIn(F, key, n) == CallOf(Cut(F, 0, n), key)

(* The same, for each number of fragments.                                  *)
LEMMA CallInIs ==
    ASSUME NEW F, IsSeq(F), NEW key
    PROVE  /\ CallIn(F, key, 0) = NoCall
           /\ \A n \in 1 .. Len(F) : CallIn(F, key, n) = CallWith(CallIn(F, key, n - 1), F[n], key)
           /\ CallIn(F, key, Len(F)) = CallOf(F, key)
  <1> DEFINE N == Len(F)
  <1>1. N \in Nat
    BY SeqHas
  <1>2. PICK g : Gathers(g, F, N, key) /\ CallOf(F, key) = g[N]
    BY CallOfIs
  <1>3. ASSUME NEW n \in 0 .. N PROVE CallIn(F, key, n) = g[n]
    <2> DEFINE C == Cut(F, 0, n)
    <2>1. Within(F, 0, n) /\ n \in Nat
      BY <1>1 DEF Within
    <2>2. IsSeq(C) /\ Len(C) = n /\ \A i \in 1 .. n : C[i] = F[i]
      <3>1. IsSeq(C) /\ Len(C) = n - 0 /\ \A i \in 1 .. n - 0 : C[i] = F[0 + i]
        BY <2>1, CutIs
      <3> HIDE DEF C
      <3> QED
        BY <2>1, <3>1
    <2> HIDE DEF C
    <2>3. PICK hh : Gathers(hh, C, n, key) /\ CallOf(C, key) = hh[n]
      BY <2>2, CallOfIs
    <2> DEFINE S == {i \in 0 .. n : hh[i] = g[i]}
    <2>4. 0 \in S
      BY <1>2, <2>1, <2>3 DEF Gathers
    <2>5. ASSUME NEW i \in 1 .. n, i - 1 \in S PROVE i \in S
      <3>1. i \in 1 .. N
        BY <1>1
      <3>2. g[i] = CallWith(g[i - 1], F[i], key)
        BY <1>2, <3>1 DEF Gathers
      <3>3. hh[i] = CallWith(hh[i - 1], C[i], key)
        BY <2>3 DEF Gathers
      <3> QED
        BY <2>2, <2>5, <3>2, <3>3
    <2> HIDE DEF S
    <2>6. n \in S
      BY <2>1, <2>4, <2>5, UpTo
    <2> QED
      BY <2>3, <2>6 DEF S, CallIn, C
  <1>4. CallIn(F, key, 0) = NoCall
    BY <1>1, <1>2, <1>3 DEF Gathers
  <1>5. ASSUME NEW n \in 1 .. N PROVE CallIn(F, key, n) = CallWith(CallIn(F, key, n - 1), F[n], key)
    <2>1. n \in 0 .. N /\ n - 1 \in 0 .. N
      BY <1>1
    <2> QED
      BY <1>2, <1>3, <2>1 DEF Gathers
  <1>6. CallIn(F, key, N) = CallOf(F, key)
    BY <1>1, <1>2, <1>3
  <1> QED
    BY <1>4, <1>5, <1>6

(* The fragments fs, taken one by one.                                      *)
Assembles(g, slots, fs, n) == g[0] = slots /\ \A i \in 1 .. n : g[i] = Fragment(g[i - 1], fs[i])

(* A fold over the fragments takes them one by one.                         *)
LEMMA OverIs ==
    ASSUME NEW slots, NEW fs, IsSeq(fs)
    PROVE  \E g : Assembles(g, slots, fs, Len(fs)) /\ Over(Fragment, slots, fs) = g[Len(fs)]
  <1> DEFINE x0 == slots
             n == Len(fs)
             T(k, x) == Fragment(x, fs[k])
             at[k \in 0 .. n] == IF k = 0 THEN x0 ELSE T(k, at[k - 1])
  <1>1. Over(Fragment, slots, fs) = at[n]
    BY DEF Over
  <1>n. n \in Nat
    BY SeqHas
  <1> HIDE DEF T, n
  <1>7. at = [k \in 0 .. n |-> IF k = 0 THEN x0 ELSE T(k, at[k - 1])]
    <2> DEFINE P(m, f) == f = [k \in 0 .. m |-> IF k = 0 THEN x0 ELSE T(k, f[k - 1])]
               S == {m \in 0 .. n : \E f : P(m, f)}
    <2>1. 0 \in S
      <3> DEFINE f == [k \in 0 .. 0 |-> x0]
      <3>1. P(0, f)
        OBVIOUS
      <3> HIDE DEF P
      <3>2. \E g : P(0, g)
        BY <3>1
      <3> QED
        BY <1>n, <3>2
    <2>2. ASSUME NEW m \in 1 .. n, m - 1 \in S PROVE m \in S
      <3>1. PICK f : P(m - 1, f)
        BY <2>2
      <3> DEFINE g == [k \in 0 .. m |-> IF k = m THEN T(m, f[m - 1]) ELSE f[k]]
      <3>2. m \in Nat /\ m # 0 /\ \A k \in 0 .. m : k # m => k \in 0 .. m - 1 /\ (k # 0 => k - 1 \in 0 .. m /\ k - 1 # m)
        BY <1>n
      <3>3. \A k \in 0 .. m - 1 : f[k] = IF k = 0 THEN x0 ELSE T(k, f[k - 1])
        BY <3>1
      <3>4. ASSUME NEW k \in 0 .. m PROVE g[k] = IF k = 0 THEN x0 ELSE T(k, g[k - 1])
        <4>1. CASE k = m
          <5>1. m - 1 \in 0 .. m /\ m - 1 # m
            BY <3>2
          <5>2. g[m - 1] = f[m - 1] /\ g[k] = T(m, f[m - 1])
            BY <4>1, <5>1
          <5> QED
            BY <3>2, <4>1, <5>2
        <4>2. CASE k # m
          <5>1. g[k] = f[k] /\ f[k] = IF k = 0 THEN x0 ELSE T(k, f[k - 1])
            BY <3>2, <3>3, <4>2
          <5>2. k # 0 => g[k - 1] = f[k - 1]
            BY <3>2, <4>2
          <5> QED
            BY <5>1, <5>2
        <4> QED
          BY <4>1, <4>2
      <3>5. P(m, g)
        <4>1. g = [k \in 0 .. m |-> g[k]]
          OBVIOUS
        <4> HIDE DEF g
        <4> QED
          BY <3>4, <4>1
      <3> HIDE DEF P, g
      <3>6. \E h0 : P(m, h0)
        BY <3>5
      <3> QED
        BY <1>n, <3>6
    <2> HIDE DEF S, P
    <2>3. n \in S
      BY <1>n, <2>1, <2>2, UpTo
    <2>4. \E f : P(n, f)
      BY <2>3 DEF S
    <2> QED
      BY <2>4 DEF P
  <1>8. at[0] = x0 /\ \A k \in 1 .. n : at[k] = T(k, at[k - 1])
    <2> HIDE DEF at
    <2>1. ASSUME NEW k \in 0 .. n PROVE at[k] = IF k = 0 THEN x0 ELSE T(k, at[k - 1])
      BY <1>7
    <2> QED
      BY <1>n, <2>1
  <1> HIDE DEF at
  <1>9. Assembles(at, slots, fs, n)
    BY <1>8 DEF Assembles, T
  <1> QED
    BY <1>1, <1>9 DEF n

(* The record of a slot, and the call in it.                                *)
IsSlot(c) == c = [index |-> c.index, id |-> c.id, name |-> c.name, args |-> c.args]

CallIs(c) == [args |-> c.args, name |-> c.name, id |-> c.id]

(* The fragments of a reply: those of a call agree, those of two are apart. *)
Fits(F) == IsSeq(F) /\ CallsAreApart(F)

(* The slot at k is that of the call own[k], from the first q fragments.    *)
SlotOf(slots, own, F, q, k) ==
    /\ IsSlot(slots[k]) /\ CallIs(slots[k]) = CallIn(F, own[k], q)
    /\ \E i \in 1 .. q : F[i].of = own[k]
    /\ \A i \in 1 .. q : F[i].of = own[k] => slots[k].index = F[i].index

(* Every slot is that of its own call, and every call has one.              *)
SlotsOf(slots, own, F, q) ==
    /\ Fits(F) /\ IsSeq(slots) /\ q \in 0 .. Len(F)
    /\ \A k \in 1 .. Len(slots) : SlotOf(slots, own, F, q, k)
    /\ \A i \in 1 .. q : \E k \in 1 .. Len(slots) : F[i].of = own[k]
    /\ \A k, l \in 1 .. Len(slots) : own[k] = own[l] => k = l

(* The slots are those of the first q fragments.                            *)
SlotsAre(slots, F, q) == \E own : SlotsOf(slots, own, F, q)

(* The id of a call is that of one of its fragments, and there is one when  *)
(* they all have one.                                                       *)
IdIs(F, key, n) ==
    LET x == CallIn(F, key, n).id
    IN /\ x = "" \/ \E i \in 1 .. n : F[i].of = key /\ F[i].id = x
       /\ x = "" => \A i \in 1 .. n : F[i].of = key => F[i].id = ""

(* It holds behind every fragment.                                          *)
LEMMA IdsAre ==
    ASSUME NEW F, IsSeq(F), NEW key
    PROVE  \A n \in 0 .. Len(F) : IdIs(F, key, n)
  <1> DEFINE N == Len(F)
             S == {n \in 0 .. N : IdIs(F, key, n)}
  <1>1. N \in Nat
    BY SeqHas
  <1>2. 0 \in S
    <2>1. CallIn(F, key, 0) = NoCall
      BY CallInIs
    <2> DEFINE x == CallIn(F, key, 0)
    <2>2. x.id = ""
      <3> HIDE DEF x
      <3>1. x = NoCall
        BY <2>1 DEF x
      <3> QED
        BY <3>1 DEF NoCall
    <2> HIDE DEF x
    <2>4. \A i \in 1 .. 0 : FALSE
      OBVIOUS
    <2>3. IdIs(F, key, 0)
      BY <2>2, <2>4 DEF IdIs, x
    <2> QED
      BY <1>1, <2>3
  <1>3. ASSUME NEW n \in 1 .. N, n - 1 \in S PROVE n \in S
    <2> DEFINE x == CallIn(F, key, n - 1)
               y == CallIn(F, key, n)
               f == F[n]
    <2>1. y = CallWith(x, f, key)
      BY CallInIs
    <2>2. /\ x.id = "" \/ \E i \in 1 .. n - 1 : F[i].of = key /\ F[i].id = x.id
          /\ x.id = "" => \A i \in 1 .. n - 1 : F[i].of = key => F[i].id = ""
      BY <1>3 DEF IdIs
    <2>3. \A i \in 1 .. n : i = n \/ i \in 1 .. n - 1
      BY <1>1
    <2>4. \A i \in 1 .. n - 1 : i \in 1 .. n
      BY <1>1
    <2>5. n \in 1 .. n
      BY <1>1
    <2> HIDE DEF x, y
    <2>6. CASE f.of # key
      <3>1. y = x
        BY <2>1, <2>6 DEF CallWith
      <3>2. IdIs(F, key, n)
        BY <2>2, <2>3, <2>4, <2>6, <3>1 DEF IdIs, y
      <3> QED
        BY <1>1, <3>2
    <2>7. CASE f.of = key
      <3>1. y.id = IF x.id = "" THEN f.id ELSE x.id
        BY <2>1, <2>7 DEF CallWith, First
      <3>2. CASE x.id = ""
        <4>1. y.id = f.id /\ \A i \in 1 .. n - 1 : F[i].of = key => F[i].id = ""
          BY <2>2, <3>1, <3>2
        <4>2. \E i \in 1 .. n : F[i].of = key /\ F[i].id = y.id
          BY <2>5, <2>7, <4>1
        <4>3. y.id = "" => \A i \in 1 .. n : F[i].of = key => F[i].id = ""
          BY <2>3, <4>1
        <4>4. IdIs(F, key, n)
          BY <4>2, <4>3 DEF IdIs, y
        <4> QED
          BY <1>1, <4>4
      <3>3. CASE x.id # ""
        <4>1. y.id = x.id /\ \E i \in 1 .. n : F[i].of = key /\ F[i].id = y.id
          BY <2>2, <2>4, <3>1, <3>3
        <4>2. y.id # ""
          BY <3>3, <4>1
        <4>3. IdIs(F, key, n)
          BY <4>1, <4>2 DEF IdIs, y
        <4> QED
          BY <1>1, <4>3
      <3> QED
        BY <3>2, <3>3
    <2> QED
      BY <2>6, <2>7
  <1> HIDE DEF S, N
  <1>4. \A n \in 0 .. N : n \in S
    BY <1>1, <1>2, <1>3, UpTo
  <1> QED
    BY <1>4 DEF S, N

(* A fragment of a slot's own call continues it, and no other does.         *)
LEMMA SlotKnows ==
    ASSUME NEW slots, NEW own, NEW F, NEW q, SlotsOf(slots, own, F, q), q # Len(F),
           NEW k \in 1 .. Len(slots)
    PROVE  Continues(slots[k], F[q + 1]) <=> F[q + 1].of = own[k]
  <1> DEFINE c == slots[k]
             f == F[q + 1]
             x == CallIn(F, own[k], q)
  <1>1. /\ IsSlot(c) /\ CallIs(c) = x /\ \E i \in 1 .. q : F[i].of = own[k]
        /\ \A i \in 1 .. q : F[i].of = own[k] => c.index = F[i].index
    <2>1. SlotOf(slots, own, F, q, k)
      BY DEF SlotsOf
    <2> QED
      BY <2>1 DEF SlotOf
  <1>2. c.id = x.id
    BY <1>1 DEF CallIs
  <1>3. IsSeq(F) /\ q \in 0 .. Len(F) /\ Len(F) \in Nat /\ DOMAIN F = 1 .. Len(F)
    BY SeqHas DEF SlotsOf, Fits
  <1>4. q + 1 \in DOMAIN F /\ (q + 1) - 1 = q /\ q \in Nat
    <2> DEFINE N == Len(F)
    <2>1. N \in Nat /\ q \in 0 .. N /\ q # N /\ DOMAIN F = 1 .. N
      BY <1>3
    <2> HIDE DEF N
    <2>2. q \in Nat /\ q + 1 \in 1 .. N /\ (q + 1) - 1 = q
      BY <2>1
    <2> QED
      BY <2>1, <2>2
  <1>5. IdIs(F, own[k], q)
    BY <1>3, IdsAre
  <1>6. \A i \in 1 .. q : IF f.of = F[i].of
                          THEN f.index = F[i].index /\ (f.id = "" \/ F[i].id = "" \/ f.id = F[i].id)
                          ELSE f.index = F[i].index => f.id # "" /\ F[i].id # "" /\ f.id # F[i].id
    BY <1>3, <1>4 DEF SlotsOf, Fits, CallsAreApart
  <1>7. PICK g \in 1 .. q : F[g].of = own[k]
    BY <1>1
  <1>8. CASE f.of = own[k]
    <2>1. c.index = f.index
      BY <1>1, <1>6, <1>7, <1>8
    <2>2. c.id = "" \/ \E i \in 1 .. q : F[i].of = own[k] /\ F[i].id = c.id
      BY <1>2, <1>5 DEF IdIs
    <2>3. f.id = "" \/ c.id = "" \/ c.id = f.id
      BY <1>6, <1>8, <2>2
    <2> QED
      BY <1>8, <2>1, <2>3 DEF Continues
  <1>9. CASE f.of # own[k]
    <2>1. CASE c.index = f.index
      <3>1. \A i \in 1 .. q : F[i].of = own[k] => f.id # "" /\ F[i].id # "" /\ f.id # F[i].id
        BY <1>1, <1>6, <1>9, <2>1
      <3>2. c.id # "" /\ f.id # ""
        BY <1>2, <1>5, <1>7, <3>1 DEF IdIs
      <3>3. \E i \in 1 .. q : F[i].of = own[k] /\ F[i].id = c.id
        BY <1>2, <1>5, <3>2 DEF IdIs
      <3>4. c.id # f.id
        BY <3>1, <3>3
      <3> QED
        BY <1>9, <3>2, <3>4 DEF Continues
    <2>2. CASE c.index # f.index
      BY <1>9, <2>2 DEF Continues
    <2> QED
      BY <2>1, <2>2
  <1> QED
    BY <1>8, <1>9

(* A fragment adds to the slot at k.                                        *)
Adds(open, k, f) == [open EXCEPT ![k].args = @ \o f.args,
                                 ![k].name = First(@, f.name),
                                 ![k].id = First(@, f.id)]

(* What that makes of the slots.                                            *)
Added(open, k, f, u) ==
    /\ IsSeq(u) /\ Len(u) = Len(open) /\ IsSlot(u[k]) /\ u[k].index = open[k].index
    /\ CallIs(u[k]) = CallWith(CallIs(open[k]), f, f.of)
    /\ \A i \in 1 .. Len(open) : i # k => u[i] = open[i]

(* It is the slot's call with the fragment added, the others stay.          *)
LEMMA AddsTo ==
    ASSUME NEW open, IsSeq(open), NEW k \in 1 .. Len(open), IsSlot(open[k]), NEW f
    PROVE  Added(open, k, f, Adds(open, k, f))
  <1> DEFINE N == Len(open)
             a == open[k].args \o f.args
             u1 == [open EXCEPT ![k].args = a]
             b == First(u1[k].name, f.name)
             u2 == [u1 EXCEPT ![k].name = b]
             d == First(u2[k].id, f.id)
             u == [u2 EXCEPT ![k].id = d]
  <1>1. Adds(open, k, f) = u
    BY DEF Adds
  <1>2. N \in Nat /\ open \in [1 .. N -> ToSet(open)] /\ DOMAIN open = 1 .. N
    BY SeqHas DEF IsSeq
  <1> HIDE DEF a, N
  <1>3. /\ u1 = [i \in 1 .. N |-> IF i = k THEN [open[k] EXCEPT !.args = a] ELSE open[i]]
    BY <1>2 DEF N
  <1>4. /\ u1[k] = [open[k] EXCEPT !.args = a] /\ \A i \in 1 .. N : i # k => u1[i] = open[i]
        /\ DOMAIN u1 = 1 .. N
    <2> HIDE DEF u1
    <2> QED
      BY <1>3 DEF N
  <1> HIDE DEF u1, b
  <1>5. u2 = [i \in 1 .. N |-> IF i = k THEN [u1[k] EXCEPT !.name = b] ELSE u1[i]]
    <2>1. u1 = [i \in 1 .. N |-> u1[i]]
      BY <1>3
    <2> QED
      BY <2>1 DEF N
  <1>6. /\ u2[k] = [u1[k] EXCEPT !.name = b] /\ \A i \in 1 .. N : i # k => u2[i] = u1[i]
    <2> HIDE DEF u2
    <2> QED
      BY <1>5 DEF N
  <1> HIDE DEF u2, d
  <1>7. u = [i \in 1 .. N |-> IF i = k THEN [u2[k] EXCEPT !.id = d] ELSE u2[i]]
    <2>1. u2 = [i \in 1 .. N |-> u2[i]]
      BY <1>5
    <2> QED
      BY <2>1 DEF N
  <1>8. /\ u[k] = [u2[k] EXCEPT !.id = d] /\ \A i \in 1 .. N : i # k => u[i] = u2[i]
        /\ DOMAIN u = 1 .. N
    <2> HIDE DEF u
    <2> QED
      BY <1>7 DEF N
  <1> HIDE DEF u
  <1>9. \A i \in 1 .. N : i # k => u[i] = open[i]
    BY <1>4, <1>6, <1>8
  <1> DEFINE c0 == open[k]
             c1 == u1[k]
             c2 == u2[k]
             c3 == u[k]
  <1>10. c1 = [c0 EXCEPT !.args = a] /\ c2 = [c1 EXCEPT !.name = b] /\ c3 = [c2 EXCEPT !.id = d]
         /\ IsSlot(c0) /\ a = c0.args \o f.args /\ b = First(c1.name, f.name) /\ d = First(c2.id, f.id)
    BY <1>4, <1>6, <1>8 DEF a, b, d
  <1> HIDE DEF c0, c1, c2, c3
  <1>11. IsSlot(c1) /\ c1.args = a /\ c1.name = c0.name /\ c1.id = c0.id /\ c1.index = c0.index
    BY <1>10 DEF IsSlot
  <1>12. IsSlot(c2) /\ c2.args = a /\ c2.name = b /\ c2.id = c0.id /\ c2.index = c0.index
    BY <1>10, <1>11 DEF IsSlot
  <1>13. IsSlot(c3) /\ c3.args = a /\ c3.name = b /\ c3.id = d /\ c3.index = c0.index
    BY <1>10, <1>12 DEF IsSlot
  <1>14. a = c0.args \o f.args /\ b = First(c0.name, f.name) /\ d = First(c0.id, f.id)
    BY <1>10, <1>11, <1>12
  <1>15. CallIs(c3) = CallWith(CallIs(c0), f, f.of)
    <2> DEFINE x == CallIs(c0)
    <2>1. x.args = c0.args /\ x.name = c0.name /\ x.id = c0.id
      BY DEF CallIs
    <2> HIDE DEF x
    <2>2. CallWith(x, f, f.of) = [args |-> x.args \o f.args, name |-> First(x.name, f.name), id |-> First(x.id, f.id)]
      BY DEF CallWith
    <2>3. CallIs(c3) = [args |-> a, name |-> b, id |-> d]
      BY <1>13 DEF CallIs
    <2>4. CallWith(x, f, f.of) = [args |-> a, name |-> b, id |-> d]
      BY <1>14, <2>1, <2>2
    <2> QED
      BY <2>3, <2>4 DEF x
  <1>16. IsSeq(u) /\ Len(u) = N
    <2>1. \A i \in 1 .. N : u[i] \in ToSet(u)
      <3>1. ToSet(u) = {u[i] : i \in DOMAIN u}
        BY DEF ToSet
      <3> QED
        BY <1>8, <3>1
    <2>2. u = [i \in 1 .. N |-> u[i]]
      BY <1>7
    <2>3. u \in [1 .. N -> ToSet(u)]
      BY <2>1, <2>2
    <2>4. u \in Seq(ToSet(u))
      BY <1>2, <2>3
    <2> QED
      BY <1>2, <1>8, <2>4 DEF IsSeq
  <1> QED
    BY <1>1, <1>9, <1>13, <1>15, <1>16 DEF Added, N, c0, c3

(* A call none of whose fragments has come.                                 *)
LEMMA NoneYet ==
    ASSUME NEW F, IsSeq(F), NEW key, NEW q \in 0 .. Len(F), \A i \in 1 .. q : F[i].of # key
    PROVE  CallIn(F, key, q) = NoCall
  <1> DEFINE S == {n \in 0 .. q : CallIn(F, key, n) = NoCall}
             N == Len(F)
  <1>1. N \in Nat /\ q \in Nat /\ q <= N
    <2>1. N \in Nat
      BY SeqHas
    <2> HIDE DEF N
    <2>2. q \in 0 .. N
      BY DEF N
    <2> QED
      BY <2>1, <2>2
  <1> HIDE DEF N
  <1>2. 0 \in S
    BY <1>1, CallInIs
  <1>3. ASSUME NEW n \in 1 .. q, n - 1 \in S PROVE n \in S
    <2>1. n \in 1 .. N
      BY <1>1
    <2>2. CallIn(F, key, n) = CallWith(CallIn(F, key, n - 1), F[n], key)
      BY <2>1, CallInIs DEF N
    <2>3. F[n].of # key
      OBVIOUS
    <2>4. CallIn(F, key, n) = CallIn(F, key, n - 1)
      BY <2>2, <2>3 DEF CallWith
    <2> QED
      BY <1>1, <1>3, <2>4
  <1> HIDE DEF S
  <1>5. q \in Nat
    BY <1>1
  <1>6. \A n \in 0 .. q : n \in S
    BY <1>2, <1>3, <1>5, UpTo
  <1>4. q \in S
    BY <1>1, <1>6
  <1> QED
    BY <1>4 DEF S

(* What holds of the slots in front of a fragment.                          *)
LEMMA SlotsHave ==
    ASSUME NEW slots, NEW own, NEW F, NEW q, SlotsOf(slots, own, F, q), q # Len(F)
    PROVE  /\ Len(F) \in Nat /\ q \in Nat /\ q + 1 \in 1 .. Len(F) /\ q + 1 \in 0 .. Len(F) /\ (q + 1) - 1 = q
           /\ \A i \in 1 .. q + 1 : i = q + 1 \/ i \in 1 .. q
           /\ \A i \in 1 .. q : i \in 1 .. q + 1
           /\ q + 1 \in 1 .. q + 1 /\ q \in 0 .. Len(F)
           /\ Len(slots) \in Nat /\ DOMAIN slots = 1 .. Len(slots)
           /\ IsSeq(slots) /\ IsSeq(F) /\ F[q + 1].index \in Nat
           /\ \A key : CallIn(F, key, q + 1) = CallWith(CallIn(F, key, q), F[q + 1], key)
  <1> DEFINE N == Len(F)
             m == q + 1
  <1>1. IsSeq(slots) /\ IsSeq(F) /\ q \in 0 .. N /\ CallsAreApart(F) /\ q # N
    BY DEF SlotsOf, Fits
  <1>2. N \in Nat /\ Len(slots) \in Nat /\ DOMAIN slots = 1 .. Len(slots) /\ DOMAIN F = 1 .. N
    BY <1>1, SeqHas
  <1> HIDE DEF N
  <1>3. q \in Nat /\ q + 1 \in 1 .. N /\ q + 1 \in 0 .. N /\ (q + 1) - 1 = q
    BY <1>1, <1>2
  <1>4. \A i \in 1 .. q + 1 : i = q + 1 \/ i \in 1 .. q
    BY <1>3
  <1>5. /\ \A i \in 1 .. q : i \in 1 .. q + 1
        /\ q + 1 \in 1 .. q + 1
    BY <1>3
  <1>6. F[m].index \in Nat
    BY <1>1, <1>2, <1>3 DEF CallsAreApart
  <1>7. ASSUME NEW key PROVE CallIn(F, key, q + 1) = CallWith(CallIn(F, key, q), F[q + 1], key)
    <2>1. m \in 1 .. Len(F) /\ m - 1 = q
      BY <1>3 DEF N
    <2> HIDE DEF m
    <2>2. CallIn(F, key, m) = CallWith(CallIn(F, key, m - 1), F[m], key)
      BY <1>1, <2>1, CallInIs
    <2> QED
      BY <2>1, <2>2 DEF m
  <1> QED
    BY <1>1, <1>2, <1>3, <1>4, <1>5, <1>6, <1>7 DEF N

(* A fragment of a call that has a slot.                                    *)
LEMMA FragmentGoesOn ==
    ASSUME NEW slots, NEW own, NEW F, NEW q, SlotsOf(slots, own, F, q), q # Len(F),
           NEW k \in 1 .. Len(slots), F[q + 1].of = own[k]
    PROVE  SlotsOf(Adds(slots, k, F[q + 1]), own, F, q + 1)
  <1> DEFINE f == F[q + 1]
             u == Adds(slots, k, f)
             L == Len(slots)
             p == q + 1
  <1>1. /\ \A i \in 1 .. p : i = p \/ i \in 1 .. q
        /\ \A i \in 1 .. q : i \in 1 .. p
        /\ p \in 1 .. p /\ p \in 0 .. Len(F) /\ L \in Nat /\ IsSeq(slots)
        /\ \A key : CallIn(F, key, p) = CallWith(CallIn(F, key, q), f, key)
    BY SlotsHave
  <1>2. \A l \in 1 .. L : SlotOf(slots, own, F, q, l)
    BY DEF SlotsOf
  <1>3. Added(slots, k, f, u)
    <2>1. IsSlot(slots[k])
      BY <1>2 DEF SlotOf
    <2> QED
      BY <1>1, <2>1, AddsTo
  <1>4. Continues(slots[k], f)
    BY SlotKnows
  <1>u. /\ \A l, m \in 1 .. L : own[l] = own[m] => l = m
        /\ \A i \in 1 .. q : \E l \in 1 .. L : F[i].of = own[l]
        /\ Fits(F)
    BY DEF SlotsOf
  <1>f. f.of = own[k] /\ f = F[p] /\ k \in 1 .. L
    OBVIOUS
  <1> HIDE DEF u, f, p, L
  <1>5. /\ IsSeq(u) /\ Len(u) = L /\ IsSlot(u[k]) /\ u[k].index = slots[k].index
        /\ CallIs(u[k]) = CallWith(CallIs(slots[k]), f, f.of)
        /\ \A i \in 1 .. L : i # k => u[i] = slots[i]
    BY <1>3 DEF Added, L
  <1>6. ASSUME NEW l \in 1 .. L PROVE SlotOf(u, own, F, p, l)
    <2>1. /\ IsSlot(slots[l]) /\ CallIs(slots[l]) = CallIn(F, own[l], q)
          /\ \E i \in 1 .. q : F[i].of = own[l]
          /\ \A i \in 1 .. q : F[i].of = own[l] => slots[l].index = F[i].index
      BY <1>2 DEF SlotOf
    <2>2. \E i \in 1 .. p : F[i].of = own[l]
      BY <1>1, <2>1
    <2>3. CASE l = k
      <3>1. CallIs(u[l]) = CallIn(F, own[l], p)
        <4>1. CallIn(F, own[l], p) = CallWith(CallIn(F, own[l], q), f, own[l])
          BY <1>1
        <4> QED
          BY <1>5, <1>f, <2>1, <2>3, <4>1
      <3>2. f.index = slots[k].index
        BY <1>4 DEF Continues
      <3>3. \A i \in 1 .. p : F[i].of = own[l] => u[l].index = F[i].index
        BY <1>1, <1>5, <1>f, <2>1, <2>3, <3>2
      <3> QED
        BY <1>5, <2>2, <2>3, <3>1, <3>3 DEF SlotOf
    <2>4. CASE l # k
      <3>1. u[l] = slots[l] /\ f.of # own[l]
        BY <1>5, <1>f, <1>u, <2>4
      <3>2. CallIn(F, own[l], p) = CallIn(F, own[l], q)
        <4>1. CallIn(F, own[l], p) = CallWith(CallIn(F, own[l], q), f, own[l])
          BY <1>1
        <4> QED
          BY <3>1, <4>1 DEF CallWith
      <3>3. \A i \in 1 .. p : F[i].of = own[l] => u[l].index = F[i].index
        BY <1>1, <1>f, <2>1, <3>1
      <3> QED
        BY <2>1, <2>2, <3>1, <3>2, <3>3 DEF SlotOf
    <2> QED
      BY <2>3, <2>4
  <1>7. \A i \in 1 .. p : \E l \in 1 .. L : F[i].of = own[l]
    BY <1>1, <1>f, <1>u
  <1>8. SlotsOf(u, own, F, p)
    BY <1>1, <1>5, <1>6, <1>7, <1>u DEF SlotsOf
  <1> QED
    BY <1>8 DEF u, f, p

(* The first fragment of a call.                                            *)
LEMMA FragmentBegins ==
    ASSUME NEW slots, NEW own, NEW F, NEW q, SlotsOf(slots, own, F, q), q # Len(F),
           \A k \in 1 .. Len(slots) : F[q + 1].of # own[k]
    PROVE  SlotsAre(Adds(Append(slots, NewSlot(F[q + 1])), Len(slots) + 1, F[q + 1]), F, q + 1)
  <1> DEFINE f == F[q + 1]
             s0 == NewSlot(f)
             open == Append(slots, s0)
             L == Len(slots)
             k == L + 1
             u == Adds(open, k, f)
             p == q + 1
             own1 == [l \in 1 .. k |-> IF l = k THEN f.of ELSE own[l]]
  <1>1. /\ \A i \in 1 .. p : i = p \/ i \in 1 .. q
        /\ \A i \in 1 .. q : i \in 1 .. p
        /\ p \in 1 .. p /\ p \in 0 .. Len(F) /\ L \in Nat /\ IsSeq(slots) /\ IsSeq(F) /\ q \in 0 .. Len(F)
        /\ \A key : CallIn(F, key, p) = CallWith(CallIn(F, key, q), f, key)
    BY SlotsHave
  <1>2. \A l \in 1 .. L : SlotOf(slots, own, F, q, l)
    BY DEF SlotsOf
  <1>u. /\ \A l, m \in 1 .. L : own[l] = own[m] => l = m
        /\ \A i \in 1 .. q : \E l \in 1 .. L : F[i].of = own[l]
        /\ Fits(F) /\ \A l \in 1 .. L : f.of # own[l]
    BY DEF SlotsOf
  <1>s. IsSlot(s0) /\ CallIs(s0) = NoCall /\ s0.index = f.index
    <2> DEFINE i == f.index
    <2> HIDE DEF f
    <2>1. s0 = [index |-> i, id |-> "", name |-> "", args |-> <<>>]
      BY DEF NewSlot
    <2> HIDE DEF s0, i
    <2>2. s0.index = i /\ s0.id = "" /\ s0.name = "" /\ s0.args = <<>>
      BY <2>1
    <2>3. IsSlot(s0)
      BY <2>1, <2>2 DEF IsSlot
    <2> QED
      BY <2>2, <2>3 DEF CallIs, NoCall, i
  <1>f. f = F[p]
    OBVIOUS
  <1> HIDE DEF f, s0, p
  <1>3. IsSeq(open) /\ Len(open) = k /\ open[k] = s0 /\ \A l \in 1 .. L : open[l] = slots[l]
    <2> DEFINE S == ToSet(slots) \cup {s0}
    <2>1. slots \in Seq(S)
      <3>1. slots \in Seq(ToSet(slots)) /\ ToSet(slots) \subseteq S
        BY <1>1 DEF IsSeq
      <3> HIDE DEF S
      <3> QED
        BY <3>1
    <2>2. s0 \in S
      OBVIOUS
    <2> HIDE DEF S
    <2>3. open \in Seq(S) /\ Len(open) = k /\ open[k] = s0 /\ \A l \in 1 .. L : open[l] = slots[l]
      BY <2>1, <2>2
    <2> QED
      BY <2>3, SeqIs
  <1>4. k \in 1 .. k /\ k \in Nat /\ \A l \in 1 .. k : l = k \/ l \in 1 .. L
    BY <1>1
  <1>l. \A l \in 1 .. L : l \in 1 .. k /\ l # k
    BY <1>1
  <1> HIDE DEF open, L, k
  <1>5. Added(open, k, f, u)
    BY <1>3, <1>4, <1>s, AddsTo
  <1> HIDE DEF u
  <1>6. /\ IsSeq(u) /\ Len(u) = k /\ IsSlot(u[k]) /\ u[k].index = s0.index
        /\ CallIs(u[k]) = CallWith(CallIs(s0), f, f.of)
        /\ \A l \in 1 .. L : u[l] = slots[l]
    BY <1>3, <1>5, <1>l DEF Added
  <1>7. own1[k] = f.of /\ \A l \in 1 .. L : own1[l] = own[l]
    BY <1>4, <1>l
  <1> HIDE DEF own1
  <1>n. \A i \in 1 .. q : F[i].of # f.of
    BY <1>u
  <1>8. SlotOf(u, own1, F, p, k)
    <2>1. CallIn(F, f.of, q) = NoCall
      BY <1>1, <1>n, NoneYet
    <2>2. CallIn(F, f.of, p) = CallWith(NoCall, f, f.of)
      BY <1>1, <2>1
    <2>3. CallIs(u[k]) = CallIn(F, own1[k], p)
      BY <1>6, <1>7, <1>s, <2>2
    <2>4. \A i \in 1 .. p : F[i].of = own1[k] => u[k].index = F[i].index
      BY <1>1, <1>6, <1>7, <1>f, <1>n, <1>s
    <2>5. \E i \in 1 .. p : F[i].of = own1[k]
      BY <1>1, <1>7, <1>f
    <2> QED
      BY <1>6, <2>3, <2>4, <2>5 DEF SlotOf
  <1>9. ASSUME NEW l \in 1 .. L PROVE SlotOf(u, own1, F, p, l)
    <2>1. /\ IsSlot(slots[l]) /\ CallIs(slots[l]) = CallIn(F, own[l], q)
          /\ \E i \in 1 .. q : F[i].of = own[l]
          /\ \A i \in 1 .. q : F[i].of = own[l] => slots[l].index = F[i].index
      BY <1>2 DEF SlotOf, L
    <2>2. u[l] = slots[l] /\ f.of # own[l] /\ own1[l] = own[l]
      BY <1>6, <1>7, <1>u DEF L
    <2>3. CallIn(F, own[l], p) = CallIn(F, own[l], q)
      <3>1. CallIn(F, own[l], p) = CallWith(CallIn(F, own[l], q), f, own[l])
        BY <1>1
      <3> QED
        BY <2>2, <3>1 DEF CallWith
    <2>4. \E i \in 1 .. p : F[i].of = own[l]
      BY <1>1, <2>1
    <2>5. \A i \in 1 .. p : F[i].of = own[l] => u[l].index = F[i].index
      BY <1>1, <1>f, <2>1, <2>2
    <2> QED
      BY <2>1, <2>2, <2>3, <2>4, <2>5 DEF SlotOf
  <1>10. \A l \in 1 .. k : SlotOf(u, own1, F, p, l)
    BY <1>4, <1>8, <1>9
  <1>11. \A l, m \in 1 .. k : own1[l] = own1[m] => l = m
    BY <1>4, <1>7, <1>u DEF L
  <1>12. ASSUME NEW i \in 1 .. p PROVE \E l \in 1 .. k : F[i].of = own1[l]
    <2>1. CASE i = p
      BY <1>4, <1>7, <1>f, <2>1
    <2>2. CASE i \in 1 .. q
      <3>1. PICK l \in 1 .. L : F[i].of = own[l]
        BY <1>u, <2>2 DEF L
      <3> QED
        BY <1>7, <1>l, <3>1
    <2> QED
      BY <1>1, <2>1, <2>2
  <1>13. SlotsOf(u, own1, F, p)
    BY <1>1, <1>6, <1>10, <1>11, <1>12, <1>u DEF SlotsOf
  <1>14. SlotsAre(u, F, p)
    BY <1>13 DEF SlotsAre
  <1> QED
    BY <1>14 DEF u, open, k, L, s0, f, p

(* One fragment.                                                            *)
LEMMA FragmentGood ==
    ASSUME NEW slots, NEW F, NEW q, SlotsAre(slots, F, q), q # Len(F)
    PROVE  SlotsAre(Fragment(slots, F[q + 1]), F, q + 1)
  <1>1. PICK own : SlotsOf(slots, own, F, q)
    BY DEF SlotsAre
  <1> DEFINE f == F[q + 1]
             at == Where(LAMBDA c : Continues(c, f), slots)
             open == IF at = 0 THEN Append(slots, NewSlot(f)) ELSE slots
             k == IF at = 0 THEN Len(open) ELSE at
             u == Adds(open, k, f)
  <1>2. Fragment(slots, f) = IF f.index < 0 THEN slots ELSE u
    BY DEF Fragment, Adds
  <1>3. f.index \in Nat /\ Len(slots) \in Nat /\ DOMAIN slots = 1 .. Len(slots) /\ IsSeq(slots)
    BY <1>1, SlotsHave
  <1>4. Fragment(slots, f) = u
    <2> DEFINE x == f.index
    <2>1. x \in Nat /\ Fragment(slots, f) = IF x < 0 THEN slots ELSE u
      BY <1>2, <1>3
    <2> HIDE DEF u, x
    <2>3. ~(x < 0)
      BY <2>1
    <2> QED
      BY <2>1, <2>3
  <1>5. \A l \in 1 .. Len(slots) : Continues(slots[l], f) <=> f.of = own[l]
    BY <1>1, SlotKnows
  <1>6. CASE \E l \in DOMAIN slots : Continues(slots[l], f)
    <2> DEFINE P(i) == i \in DOMAIN slots /\ Continues(slots[i], f) /\ \A j \in 1 .. i - 1 : ~Continues(slots[j], f)
    <2>1. at = CHOOSE i \in DOMAIN slots : Continues(slots[i], f) /\ \A j \in 1 .. i - 1 : ~Continues(slots[j], f)
      BY <1>6 DEF Where
    <2>2. \E i \in DOMAIN slots : Continues(slots[i], f) /\ \A j \in 1 .. i - 1 : ~Continues(slots[j], f)
      <3> DEFINE S == {l \in 1 .. Len(slots) : Continues(slots[l], f)}
      <3>1. S \subseteq Nat /\ S # {}
        BY <1>3, <1>6
      <3>2. PICK i \in S : \A l \in S : i <= l
        BY <3>1, LeastNatural
      <3>3. \A j \in 1 .. i - 1 : ~Continues(slots[j], f)
        <4> SUFFICES ASSUME NEW j \in 1 .. i - 1, Continues(slots[j], f) PROVE FALSE
          OBVIOUS
        <4>1. j \in 1 .. Len(slots) /\ ~(i <= j)
          BY <1>3
        <4>2. j \in S
          BY <4>1
        <4> QED
          BY <3>2, <4>1, <4>2
      <3> QED
        BY <1>3, <3>3
    <2> HIDE DEF at
    <2>3. at \in DOMAIN slots /\ Continues(slots[at], f)
      BY <2>1, <2>2
    <2>4. at \in 1 .. Len(slots) /\ f.of = own[at] /\ at # 0
      BY <1>3, <1>5, <2>3
    <2>5. u = Adds(slots, at, f)
      BY <2>4
    <2> HIDE DEF u, open, k
    <2>6. SlotsOf(Adds(slots, at, f), own, F, q + 1)
      BY <1>1, <2>4, FragmentGoesOn
    <2> QED
      BY <1>4, <2>5, <2>6 DEF SlotsAre
  <1>7. CASE ~ \E l \in DOMAIN slots : Continues(slots[l], f)
    <2>1. at = 0
      BY <1>7 DEF Where
    <2>2. \A l \in 1 .. Len(slots) : f.of # own[l]
      BY <1>3, <1>5, <1>7
    <2> HIDE DEF at
    <2>3. u = Adds(Append(slots, NewSlot(f)), Len(slots) + 1, f)
      <3>1. Len(Append(slots, NewSlot(f))) = Len(slots) + 1
        <4> DEFINE s0 == NewSlot(f)
                   S == ToSet(slots) \cup {s0}
        <4>1. slots \in Seq(S) /\ s0 \in S
          <5>1. slots \in Seq(ToSet(slots)) /\ ToSet(slots) \subseteq S
            BY <1>3 DEF IsSeq
          <5>2. s0 \in S
            OBVIOUS
          <5> HIDE DEF S
          <5> QED
            BY <5>1, <5>2
        <4> HIDE DEF S, s0
        <4>2. Len(Append(slots, s0)) = Len(slots) + 1
          BY <4>1
        <4> QED
          BY <4>2 DEF s0
      <3> QED
        BY <2>1, <3>1
    <2> HIDE DEF u, open, k
    <2>4. SlotsAre(Adds(Append(slots, NewSlot(f)), Len(slots) + 1, f), F, q + 1)
      BY <1>1, <2>2, FragmentBegins
    <2> QED
      BY <1>4, <2>3, <2>4
  <1> QED
    BY <1>6, <1>7

(* The fragments of an event: those of F from the q-th on.                  *)
LEMMA FragmentsGood ==
    ASSUME NEW slots, NEW F, NEW q, SlotsAre(slots, F, q),
           NEW fs, IsSeq(fs), q + Len(fs) <= Len(F), \A i \in 1 .. Len(fs) : fs[i] = F[q + i]
    PROVE  SlotsAre(Over(Fragment, slots, fs), F, q + Len(fs))
  <1> DEFINE n == Len(fs)
  <1>1. n \in Nat
    BY SeqHas
  <1>2. PICK g : Assembles(g, slots, fs, n) /\ Over(Fragment, slots, fs) = g[n]
    BY OverIs
  <1>3. q \in Nat /\ Len(F) \in Nat
    <2>1. IsSeq(F) /\ q \in 0 .. Len(F)
      BY DEF SlotsAre, SlotsOf, Fits
    <2>2. Len(F) \in Nat
      BY <2>1, SeqHas
    <2> QED
      BY <2>1, <2>2
  <1> DEFINE S == {i \in 0 .. n : SlotsAre(g[i], F, q + i)}
  <1>4. 0 \in S
    <2>1. q + 0 = q /\ g[0] = slots
      BY <1>2, <1>3 DEF Assembles
    <2> QED
      BY <1>1, <2>1
  <1>5. ASSUME NEW i \in 1 .. n, i - 1 \in S PROVE i \in S
    <2> DEFINE j == q + (i - 1)
    <2>1. SlotsAre(g[i - 1], F, j)
      BY <1>5
    <2>2. j # Len(F) /\ j + 1 = q + i
      BY <1>1, <1>3
    <2> HIDE DEF j
    <2>3. SlotsAre(Fragment(g[i - 1], F[j + 1]), F, j + 1)
      BY <2>1, <2>2, FragmentGood
    <2>4. g[i] = Fragment(g[i - 1], fs[i]) /\ fs[i] = F[j + 1]
      BY <1>2, <2>2 DEF Assembles
    <2>5. SlotsAre(g[i], F, q + i)
      BY <2>2, <2>3, <2>4
    <2> QED
      BY <1>1, <2>5
  <1> HIDE DEF S, n
  <1>6. n \in S
    <2>1. \A i \in 0 .. n : i \in S
      BY <1>1, <1>4, <1>5, UpTo
    <2> QED
      BY <1>1, <2>1
  <1> QED
    BY <1>2, <1>6 DEF S, n

(* The calls of the slots are the calls of the fragments.                   *)
SaySame(slots, C) == {CallIs(c) : c \in ToSet(slots)} = {CallOf(C, f.of) : f \in ToSet(C)}

(* So the slots hold the calls of those fragments, each whole.              *)
LEMMA SlotsSay ==
    ASSUME NEW slots, NEW F, NEW q, SlotsAre(slots, F, q)
    PROVE  SaySame(slots, Cut(F, 0, q))
  <1>1. PICK own : SlotsOf(slots, own, F, q)
    BY DEF SlotsAre
  <1> DEFINE C == Cut(F, 0, q)
  <1>2. IsSeq(slots) /\ IsSeq(F) /\ q \in 0 .. Len(F)
    BY <1>1 DEF SlotsOf, Fits
  <1>3. Len(slots) \in Nat /\ DOMAIN slots = 1 .. Len(slots) /\ Len(F) \in Nat
    BY <1>2, SeqHas
  <1>4. IsSeq(C) /\ Len(C) = q /\ \A i \in 1 .. q : C[i] = F[i]
    <2>1. Within(F, 0, q) /\ q \in Nat
      BY <1>2, <1>3 DEF Within
    <2>2. IsSeq(C) /\ Len(C) = q - 0 /\ \A i \in 1 .. q - 0 : C[i] = F[0 + i]
      BY <2>1, CutIs
    <2> HIDE DEF C
    <2> QED
      BY <2>1, <2>2
  <1> HIDE DEF C
  <1>5. DOMAIN C = 1 .. q
    BY <1>4, SeqHas
  <1>6. \A key : CallIn(F, key, q) = CallOf(C, key)
    BY DEF CallIn, C
  <1>7. ASSUME NEW c \in ToSet(slots) PROVE \E f \in ToSet(C) : CallIs(c) = CallOf(C, f.of)
    <2>1. PICK k \in 1 .. Len(slots) : c = slots[k]
      BY <1>3 DEF ToSet
    <2>2. SlotOf(slots, own, F, q, k)
      BY <1>1 DEF SlotsOf
    <2>3. PICK i \in 1 .. q : F[i].of = own[k]
      BY <2>2 DEF SlotOf
    <2>4. C[i] \in ToSet(C) /\ C[i].of = own[k]
      BY <1>4, <1>5, <2>3 DEF ToSet
    <2>5. CallIs(c) = CallOf(C, own[k])
      BY <1>6, <2>1, <2>2 DEF SlotOf
    <2> QED
      BY <2>4, <2>5
  <1>8. ASSUME NEW f \in ToSet(C) PROVE \E c \in ToSet(slots) : CallIs(c) = CallOf(C, f.of)
    <2>1. PICK i \in 1 .. q : f = F[i]
      BY <1>4, <1>5 DEF ToSet
    <2>2. PICK k \in 1 .. Len(slots) : F[i].of = own[k]
      BY <1>1 DEF SlotsOf
    <2>3. SlotOf(slots, own, F, q, k)
      BY <1>1 DEF SlotsOf
    <2>4. slots[k] \in ToSet(slots)
      BY <1>3 DEF ToSet
    <2>5. CallIs(slots[k]) = CallOf(C, f.of)
      BY <1>6, <2>1, <2>2, <2>3 DEF SlotOf
    <2> QED
      BY <2>4, <2>5
  <1>9. {CallIs(c) : c \in ToSet(slots)} = {CallOf(C, f.of) : f \in ToSet(C)}
    BY <1>7, <1>8
  <1> QED
    BY <1>9 DEF C, SaySame

-----------------------------------------------------------------------------
(* The events that have arrived, and what they come to.                     *)

(* The head of r announces a stream.                                        *)
Streams(r) == IsStream(Top(r).resp)

(* How many events of r have arrived with its first n tokens.               *)
Arrived(r, n) == IF Streams(r) THEN Events(r, Pay(r, n)) ELSE 0

(* The number of events grows with the bytes.                               *)
LEMMA EventsGrow ==
    ASSUME NEW r \in Replies
    PROVE  \A m \in 0 .. Len(Bytes(r)) : \A k \in 0 .. m : Events(r, k) \in Nat /\ Events(r, k) <= Events(r, m)
  <1> DEFINE N == Len(Bytes(r))
             E(m) == Events(r, m)
             S == {m \in 0 .. N : \A k \in 0 .. m : E(k) \in Nat /\ E(k) <= E(m)}
  <1>1. N \in Nat /\ \A m \in 0 .. N - 1 : SaysNext(r, m)
    BY SaysFrom
  <1>2. ASSUME NEW m \in 0 .. N PROVE E(m) \in Nat
    <2>1. IsSaid(Says(r, m))
      BY SaysIs
    <2> QED
      BY <2>1 DEF IsSaid, Events
  <1>3. ASSUME NEW m \in 1 .. N PROVE E(m - 1) <= E(m)
    <2> DEFINE k == m - 1
    <2>1. k \in 0 .. N - 1 /\ k + 1 = m /\ k \in 0 .. N /\ m \in 0 .. N
      BY <1>1
    <2>2. SaysNext(r, k) /\ E(k) \in Nat
      BY <1>1, <1>2, <2>1
    <2> HIDE DEF k
    <2> DEFINE y == SseByte(Says(r, k).p, Bytes(r)[k + 1])
               e == IF y.emitted THEN Events(r, k) + 1 ELSE Events(r, k)
    <2>3. Says(r, m) = [p |-> y.p, emitted |-> y.emitted, data |-> y.data, events |-> e]
      BY <2>1, <2>2 DEF SaysNext
    <2>4. e \in Nat /\ E(k) <= e
      BY <2>2
    <2> HIDE DEF y, e
    <2>5. Events(r, m) = e
      BY <2>3 DEF Events
    <2> QED
      BY <2>4, <2>5 DEF k
  <1> HIDE DEF E, N
  <1>4. 0 \in S
    <2>1. 0 \in 0 .. N /\ \A k \in 0 .. 0 : k = 0
      BY <1>1
    <2>2. E(0) \in Nat
      BY <1>2, <2>1
    <2>3. E(0) <= E(0)
      BY <2>2
    <2> QED
      BY <2>1, <2>2, <2>3
  <1>5. ASSUME NEW m \in 1 .. N, m - 1 \in S PROVE m \in S
    <2>1. m \in 0 .. N /\ m - 1 \in 0 .. N /\ \A k \in 0 .. m : k = m \/ k \in 0 .. m - 1
      BY <1>1
    <2>2. E(m) \in Nat /\ E(m - 1) \in Nat /\ E(m - 1) <= E(m) /\ E(m) <= E(m)
      BY <1>2, <1>3, <2>1
    <2>3. ASSUME NEW k \in 0 .. m - 1 PROVE E(k) \in Nat /\ E(k) <= E(m)
      <3>1. E(k) \in Nat /\ E(k) <= E(m - 1)
        BY <1>5
      <3> QED
        BY <2>2, <3>1
    <2> QED
      BY <2>1, <2>2, <2>3
  <1> HIDE DEF S
  <1>6. \A m \in 0 .. N : m \in S
    BY <1>1, <1>4, <1>5, UpTo
  <1> QED
    BY <1>6 DEF S, E, N

(* The events of a reply that has them.                                     *)
LEMMA EventsAre ==
    ASSUME NEW r \in Replies
    PROVE  /\ DOMAIN r.marks = 1 .. Len(r.events) /\ Len(r.events) \in Nat /\ IsSeq(r.events)
           /\ \A n \in 0 .. Len(r.wire) : {i \in DOMAIN r.marks : r.marks[i] <= n} = 1 .. Arrived(r, n)
           /\ Streams(r) => \A m \in 1 .. Len(Bytes(r)) :
                 Says(r, m).emitted => r.events[Events(r, m)] = Says(r, m).data
  <1>1. SaysItsEvents(r)
    BY ReplyAssumption DEF IsReply
  <1>2. IsSeq(r.events) /\ Len(r.events) \in Nat
    BY MeansIs
  <1>3. DOMAIN r.marks = 1 .. Len(r.events)
    <2>1. DOMAIN r.marks = DOMAIN r.events
      BY <1>1 DEF SaysItsEvents
    <2> QED
      BY <1>2, <2>1, SeqHas
  <1>4. ASSUME NEW n \in 0 .. Len(r.wire)
        PROVE  {i \in DOMAIN r.marks : r.marks[i] <= n} = 1 .. Arrived(r, n)
    BY <1>1 DEF SaysItsEvents, Arrived, Streams, Top, Events, Says, Pay, At
  <1>5. ASSUME Streams(r), NEW m \in 1 .. Len(Bytes(r)), Says(r, m).emitted
        PROVE  r.events[Events(r, m)] = Says(r, m).data
    BY <1>1, <1>5 DEF SaysItsEvents, Streams, Top, Events, Says, Bytes, At
  <1> QED
    BY <1>2, <1>3, <1>4, <1>5

(* No more events have arrived than there are, and never fewer than before. *)
LEMMA ArrivedIs ==
    ASSUME NEW r \in Replies, NEW n \in 0 .. Len(r.wire)
    PROVE  /\ Arrived(r, n) \in 0 .. Len(r.events) /\ Arrived(r, n) \in Nat
           /\ \A k \in 0 .. n : Arrived(r, k) \in Nat /\ Arrived(r, k) <= Arrived(r, n)
  <1> DEFINE a == Arrived(r, n)
             L == Len(r.events)
  <1>1. /\ DOMAIN r.marks = 1 .. L /\ L \in Nat
        /\ {i \in DOMAIN r.marks : r.marks[i] <= n} = 1 .. a
    BY EventsAre
  <1>2. Len(r.wire) \in Nat /\ n \in Nat
    <2>1. Len(r.wire) \in Nat
      BY TopIs
    <2> QED
      BY <2>1
  <1>3. ASSUME NEW k \in 0 .. n PROVE Arrived(r, k) \in Nat /\ Arrived(r, k) <= a
    <2>1. CASE ~Streams(r)
      BY <2>1 DEF Arrived
    <2>2. CASE Streams(r)
      <3> DEFINE p == Pay(r, k)
                 q == Pay(r, n)
      <3>1. /\ Within(Bytes(r), p, q) /\ n \in 0 .. n
        BY <1>2, PayIs
      <3> HIDE DEF p, q
      <3>2. q \in 0 .. Len(Bytes(r)) /\ p \in 0 .. q
        <4>1. Len(Bytes(r)) \in Nat
          BY SaysFrom
        <4> QED
          BY <3>1, <4>1 DEF Within
      <3>3. Events(r, p) \in Nat /\ Events(r, p) <= Events(r, q)
        BY <3>2, EventsGrow
      <3> QED
        BY <2>2, <3>3 DEF Arrived, p, q
    <2> QED
      BY <2>1, <2>2
  <1>4. a \in Nat
    <2>1. n \in 0 .. n
      BY <1>2
    <2> QED
      BY <1>3, <2>1
  <1>5. 1 .. a \subseteq 1 .. L
    <2>1. {i \in DOMAIN r.marks : r.marks[i] <= n} \subseteq DOMAIN r.marks
      OBVIOUS
    <2> HIDE DEF a, L
    <2> QED
      BY <1>1, <2>1
  <1> HIDE DEF a, L
  <1>6. a <= L
    <2>1. CASE a = 0
      BY <1>1, <2>1
    <2>2. CASE a # 0
      <3>1. a \in 1 .. a
        BY <1>4, <2>2
      <3>2. a \in 1 .. L
        BY <1>5, <3>1
      <3> QED
        BY <1>1, <3>2
    <2> QED
      BY <2>1, <2>2
  <1> QED
    BY <1>1, <1>3, <1>4, <1>6 DEF a, L

(* The fragments of calls in r.                                             *)
Pieces(r) == Means(r, Len(r.events)).calls

(* x is the beginning of y.                                                 *)
Starts(x, y) == IsSeq(y) /\ Len(x) \in Nat /\ Len(x) <= Len(y) /\ x = Cut(y, 0, Len(x))

(* A sequence begins with itself, and goes on beginning what is continued.  *)
LEMMA StartsIs ==
    /\ \A x : IsSeq(x) => Starts(x, x)
    /\ \A x, y, u : Starts(x, y) /\ IsSeq(u) => Starts(x, y \o u) /\ IsSeq(y \o u) /\ Len(y \o u) = Len(y) + Len(u)
                       /\ \A i \in 1 .. Len(u) : (y \o u)[Len(y) + i] = u[i]
  <1>1. ASSUME NEW x, IsSeq(x) PROVE Starts(x, x)
    <2>1. Len(x) \in Nat
      BY <1>1, SeqHas
    <2>2. x = Cut(x, 0, Len(x))
      <3>1. Within(x, 0, Len(x))
        BY <1>1, <2>1 DEF Within
      <3> QED
        BY <1>1, <2>1, CutWhole
    <2> QED
      BY <1>1, <2>1, <2>2 DEF Starts
  <1>2. ASSUME NEW x, NEW y, NEW u, Starts(x, y), IsSeq(u)
        PROVE  /\ Starts(x, y \o u) /\ IsSeq(y \o u) /\ Len(y \o u) = Len(y) + Len(u)
               /\ \A i \in 1 .. Len(u) : (y \o u)[Len(y) + i] = u[i]
    <2> DEFINE S == ToSet(y) \cup ToSet(u)
               w == y \o u
               n == Len(x)
    <2>1. y \in Seq(S) /\ u \in Seq(S) /\ Len(y) \in Nat /\ Len(u) \in Nat
      <3>1. y \in Seq(ToSet(y)) /\ u \in Seq(ToSet(u)) /\ ToSet(y) \subseteq S /\ ToSet(u) \subseteq S
            /\ Len(y) \in Nat /\ Len(u) \in Nat
        BY <1>2, SeqHas DEF Starts
      <3> HIDE DEF S
      <3> QED
        BY <3>1
    <2> HIDE DEF S
    <2>2. w \in Seq(S) /\ Len(w) = Len(y) + Len(u) /\ \A i \in 1 .. Len(y) : w[i] = y[i]
      BY <2>1
    <2>3. \A i \in 1 .. Len(u) : w[Len(y) + i] = u[i]
      BY <2>1
    <2>4. IsSeq(w)
      BY <2>2, SeqIs
    <2> HIDE DEF w
    <2>5. n \in Nat /\ n <= Len(y) /\ x = Cut(y, 0, n) /\ IsSeq(y)
      BY <1>2 DEF Starts
    <2>6. Within(y, 0, n) /\ Within(w, 0, n)
      BY <2>1, <2>2, <2>4, <2>5 DEF Within
    <2>7. IsSeq(x) /\ Len(x) = n - 0 /\ \A i \in 1 .. n - 0 : x[i] = y[0 + i]
      BY <2>5, <2>6, CutIs
    <2>8. \A i \in 1 .. n - 0 : x[i] = w[0 + i]
      BY <2>1, <2>2, <2>5, <2>7
    <2>9. x = Cut(w, 0, n)
      BY <2>6, <2>7, <2>8, CutSame
    <2> QED
      BY <2>1, <2>2, <2>3, <2>4, <2>5, <2>9 DEF Starts, w
  <1> QED
    BY <1>1, <1>2

(* What an event adds to the fragments.                                     *)
CallsOf(e) == IF e \notin DOMAIN Said \/ Closing(e) THEN <<>> ELSE Said[e].calls

(* They are a sequence.                                                     *)
LEMMA CallsOfIs ==
    ASSUME NEW e
    PROVE  IsSeq(CallsOf(e))
  <1>1. CASE e \notin DOMAIN Said \/ Closing(e)
    <2>1. CallsOf(e) = <<>>
      BY <1>1 DEF CallsOf
    <2>2. <<>> \in Seq({})
      OBVIOUS
    <2> QED
      BY <2>1, <2>2, SeqIs
  <1>2. CASE ~(e \notin DOMAIN Said \/ Closing(e))
    <2>1. e \in DOMAIN Said /\ ~Said[e].error /\ CallsOf(e) = Said[e].calls
      BY <1>2 DEF CallsOf, Closing
    <2> QED
      BY <2>1, BuffersAssumption DEF IsSeq
  <1> QED
    BY <1>1, <1>2

Calls(r, n) == Means(r, n).calls

(* One event more.                                                          *)
LEMMA CallsGrow ==
    ASSUME NEW r \in Replies
    PROVE  /\ Calls(r, 0) = <<>>
           /\ \A n \in 1 .. Len(r.events) : IsSeq(Calls(r, n - 1)) =>
                 Calls(r, n) = Calls(r, n - 1) \o CallsOf(r.events[n])
  <1>1. Calls(r, 0) = <<>>
    <2>1. Means(r, 0) = NoMeaning
      BY MeansIs
    <2> QED
      BY <2>1 DEF Calls, NoMeaning
  <1>2. ASSUME NEW n \in 1 .. Len(r.events), IsSeq(Calls(r, n - 1))
        PROVE  Calls(r, n) = Calls(r, n - 1) \o CallsOf(r.events[n])
    <2> DEFINE e == r.events[n]
               x == Means(r, n - 1)
               y == Means(r, n)
    <2>1. y = WithEvent(x, e)
      BY MeansIs
    <2> HIDE DEF e, x, y
    <2>2. CASE e \notin DOMAIN Said \/ Closing(e)
      <3>1. y = x /\ CallsOf(e) = <<>>
        BY <2>1, <2>2 DEF WithEvent, CallsOf
      <3>2. x.calls \o <<>> = x.calls
        <4> DEFINE s == x.calls
        <4>1. IsSeq(s)
          BY <1>2 DEF Calls, x
        <4> HIDE DEF s
        <4>2. s \in Seq(ToSet(s))
          BY <4>1 DEF IsSeq
        <4>3. s \o <<>> = s
          BY <4>2
        <4> QED
          BY <4>3 DEF s
      <3> QED
        BY <3>1, <3>2 DEF Calls, x, y, e
    <2>3. CASE ~(e \notin DOMAIN Said \/ Closing(e))
      <3>1. y.calls = x.calls \o Said[e].calls /\ CallsOf(e) = Said[e].calls
        BY <2>1, <2>3 DEF WithEvent, CallsOf
      <3> QED
        BY <3>1 DEF Calls, x, y, e
    <2> QED
      BY <2>2, <2>3
  <1> QED
    BY <1>1, <1>2

(* The fragments of the first n events begin those of the reply, and an     *)
(* event's own are the next ones.                                           *)
LEMMA PiecesFit ==
    ASSUME NEW r \in Replies
    PROVE  /\ Fits(Pieces(r))
           /\ \A n \in 0 .. Len(r.events) : Starts(Calls(r, n), Pieces(r)) /\ IsSeq(Calls(r, n))
           /\ \A n \in 1 .. Len(r.events) :
                 LET c == Calls(r, n - 1)
                     u == CallsOf(r.events[n])
                 IN /\ Len(Calls(r, n)) = Len(c) + Len(u) /\ Len(c) + Len(u) <= Len(Pieces(r))
                    /\ \A i \in 1 .. Len(u) : u[i] = Pieces(r)[Len(c) + i]
                    /\ IsSeq(u)
  <1> DEFINE N == Len(r.events)
             C(n) == Calls(r, n)
             U(n) == CallsOf(r.events[n])
             S == {n \in 0 .. N : IsSeq(C(n)) /\ \A t \in 0 .. n : Starts(C(t), C(n))}
  <1>1. N \in Nat
    BY MeansIs
  <1>2. /\ C(0) = <<>>
        /\ \A n \in 1 .. N : IsSeq(C(n - 1)) => C(n) = C(n - 1) \o U(n)
    BY CallsGrow
  <1>u. \A n : IsSeq(U(n))
    BY CallsOfIs
  <1> HIDE DEF C, N, U
  <1>3. 0 \in S
    <2>1. <<>> \in Seq({})
      OBVIOUS
    <2>2. IsSeq(C(0))
      BY <1>2, <2>1, SeqIs
    <2>3. \A t \in 0 .. 0 : t = 0
      OBVIOUS
    <2>4. Starts(C(0), C(0))
      BY <2>2, StartsIs
    <2> QED
      BY <1>1, <2>2, <2>3, <2>4
  <1>4. ASSUME NEW n \in 1 .. N, n - 1 \in S PROVE n \in S
    <2>1. n - 1 \in 0 .. N /\ n \in 0 .. N /\ n - 1 \in 0 .. n - 1 /\ \A t \in 0 .. n : t = n \/ t \in 0 .. n - 1
      BY <1>1
    <2> DEFINE c == C(n - 1)
    <2>2. IsSeq(c) /\ (\A t \in 0 .. n - 1 : Starts(C(t), c)) /\ C(n) = c \o U(n)
      BY <1>2, <1>4
    <2> HIDE DEF c
    <2>3. IsSeq(C(n)) /\ \A t \in 0 .. n - 1 : Starts(C(t), C(n))
      BY <1>u, <2>1, <2>2, StartsIs DEF c
    <2>4. Starts(C(n), C(n))
      BY <2>3, StartsIs
    <2> QED
      BY <2>1, <2>3, <2>4
  <1> HIDE DEF S
  <1>5. \A n \in 0 .. N : n \in S
    BY <1>1, <1>3, <1>4, UpTo
  <1>6. N \in 0 .. N
    BY <1>1
  <1>7. \A n \in 0 .. N : Starts(C(n), C(N)) /\ IsSeq(C(n))
    BY <1>5, <1>6 DEF S
  <1>8. Pieces(r) = C(N)
    BY DEF Pieces, C, N, Calls
  <1>9. Fits(Pieces(r))
    <2>1. CallsAreApart(C(N))
      BY ReplyAssumption DEF IsReply, C, N, Calls, Means
    <2> QED
      BY <1>6, <1>7, <1>8, <2>1 DEF Fits
  <1>10. ASSUME NEW n \in 1 .. N
         PROVE  /\ Len(C(n)) = Len(C(n - 1)) + Len(U(n)) /\ Len(C(n - 1)) + Len(U(n)) <= Len(C(N))
                /\ \A i \in 1 .. Len(U(n)) : U(n)[i] = C(N)[Len(C(n - 1)) + i]
                /\ IsSeq(U(n))
    <2> DEFINE c == C(n - 1)
               u == U(n)
               d == C(n)
               F == C(N)
    <2>1. n - 1 \in 0 .. N /\ n \in 0 .. N
      BY <1>1
    <2>2. Starts(c, c) /\ IsSeq(u) /\ d = c \o u /\ IsSeq(d)
      <3>1. IsSeq(c) /\ IsSeq(u) /\ IsSeq(d)
        BY <1>7, <1>u, <2>1
      <3>2. d = c \o u
        BY <1>2, <3>1
      <3> HIDE DEF c, u, d
      <3> QED
        BY <3>1, <3>2, StartsIs
    <2>3. Starts(d, F) /\ IsSeq(F)
      BY <1>6, <1>7, <2>1
    <2> HIDE DEF c, u, d, F
    <2>4. Len(d) = Len(c) + Len(u) /\ \A i \in 1 .. Len(u) : d[Len(c) + i] = u[i]
      BY <2>2, StartsIs
    <2>5. Len(d) \in Nat /\ Len(d) <= Len(F) /\ d = Cut(F, 0, Len(d)) /\ Within(F, 0, Len(d))
      <3>1. Len(d) \in Nat /\ Len(d) <= Len(F) /\ d = Cut(F, 0, Len(d)) /\ Len(F) \in Nat
        BY <2>3, SeqHas DEF Starts
      <3> QED
        BY <2>3, <3>1 DEF Within
    <2>6. Len(c) \in Nat /\ Len(u) \in Nat
      BY <2>2, SeqHas DEF Starts
    <2>7. ASSUME NEW i \in 1 .. Len(u) PROVE u[i] = F[Len(c) + i]
      <3> DEFINE j == Len(c) + i
                 n1 == Len(d)
      <3>1. j \in 1 .. n1 - 0 /\ 0 + j = j
        BY <2>4, <2>6
      <3> HIDE DEF j
      <3>2. Cut(F, 0, n1)[j] = F[0 + j]
        BY <2>5, <3>1, CutAt
      <3>3. d[j] = F[j]
        BY <2>5, <3>1, <3>2
      <3> QED
        BY <2>4, <3>3 DEF j
    <2> QED
      BY <2>2, <2>4, <2>5, <2>7 DEF c, u, d, F
  <1>11. /\ \A n \in 0 .. Len(r.events) : Starts(Calls(r, n), Pieces(r)) /\ IsSeq(Calls(r, n))
    BY <1>7, <1>8 DEF C, N
  <1> QED
    BY <1>8, <1>9, <1>10, <1>11 DEF C, N, U

(* The record of an answer.                                                 *)
IsAnswer(a) ==
    a = [saw_done |-> a.saw_done, finished |-> a.finished, finish_reason |-> a.finish_reason,
         native_finish_reason |-> a.native_finish_reason, meta |-> a.meta, slots |-> a.slots,
         details |-> a.details, log |-> a.log, delivered |-> a.delivered]

(* An event that says why the model stopped.                                *)
Finishing(e) == e \in DOMAIN Said /\ Said[e].finish # ""

(* What the first t events of r come to.                                    *)
Answer(r, t, a) ==
    /\ r \in Replies /\ t \in 0 .. Len(r.events) /\ IsAnswer(a)
    /\ a.saw_done \in BOOLEAN /\ a.finished \in BOOLEAN
    /\ a.log = Means(r, t).told /\ a.details = Means(r, t).details
    /\ SlotsAre(a.slots, Pieces(r), Len(Calls(r, t)))
    /\ a.finished => \E i \in 1 .. t : Finishing(r.events[i])
    /\ \A i \in 1 .. t : Closing(r.events[i]) => i = t /\ a.saw_done /\ r.events[t] = Done
    /\ a.saw_done => t # 0 /\ r.events[t] = Done

(* No events come to no answer.                                             *)
LEMMA AnswerBegins ==
    ASSUME NEW r \in Replies
    PROVE  Answer(r, 0, NoAnswer)
  <1> DEFINE a == NoAnswer
  <1>1. a = [saw_done |-> FALSE, finished |-> FALSE, finish_reason |-> "",
             native_finish_reason |-> "", meta |-> "", slots |-> <<>>,
             details |-> <<>>, log |-> <<>>, delivered |-> <<>>]
    BY DEF NoAnswer
  <1> HIDE DEF a
  <1>2. /\ a.saw_done = FALSE /\ a.finished = FALSE /\ a.slots = <<>> /\ a.details = <<>> /\ a.log = <<>>
        /\ a.finish_reason = "" /\ a.native_finish_reason = "" /\ a.meta = "" /\ a.delivered = <<>>
    BY <1>1
  <1>3. IsAnswer(a)
    BY <1>1, <1>2 DEF IsAnswer
  <1>4. ~a.saw_done /\ ~a.finished /\ a.saw_done \in BOOLEAN /\ a.finished \in BOOLEAN
    BY <1>2, Zenon
  <1>5. Means(r, 0).told = <<>> /\ Means(r, 0).details = <<>>
    <2>1. Means(r, 0) = NoMeaning
      BY MeansIs
    <2> QED
      BY <2>1 DEF NoMeaning
  <1>6. 0 \in 0 .. Len(r.events) /\ Len(r.events) \in Nat
    BY MeansIs
  <1>7. Len(Calls(r, 0)) = 0
    <2>1. Calls(r, 0) = <<>>
      BY CallsGrow
    <2> QED
      BY <2>1
  <1>8. SlotsAre(<<>>, Pieces(r), 0)
    <2> DEFINE F == Pieces(r)
               s == <<>>
    <2>1. Fits(F)
      BY PiecesFit
    <2>2. 0 \in 0 .. Len(F)
      <3>1. Len(F) \in Nat
        BY <2>1, SeqHas DEF Fits
      <3> QED
        BY <3>1
    <2>3. s \in Seq({}) /\ Len(s) = 0
      OBVIOUS
    <2>4. IsSeq(s)
      BY <2>3, SeqIs
    <2>5. \A i \in 1 .. 0 : FALSE
      OBVIOUS
    <2> HIDE DEF s, F
    <2>6. SlotsOf(s, s, F, 0)
      BY <2>1, <2>2, <2>3, <2>4, <2>5 DEF SlotsOf
    <2> QED
      BY <2>6 DEF SlotsAre, s, F
  <1>9. \A i \in 1 .. 0 : FALSE
    OBVIOUS
  <1>10. Answer(r, 0, a)
    BY <1>2, <1>3, <1>4, <1>5, <1>6, <1>7, <1>8, <1>9 DEF Answer
  <1> QED
    BY <1>10 DEF a

(* What the next event may add.                                             *)
NextEvent(r, t, a) == Answer(r, t, a) /\ ~a.saw_done /\ t # Len(r.events)

(* The event behind the first t, and what it adds to their meaning.         *)
LEMMA NextHas ==
    ASSUME NEW r, NEW t, NEW a, NextEvent(r, t, a)
    PROVE  LET e == r.events[t + 1]
           IN /\ r \in Replies /\ t \in Nat /\ t + 1 \in 0 .. Len(r.events) /\ t + 1 \in 1 .. Len(r.events)
              /\ (t + 1) - 1 = t /\ t + 1 # 0
              /\ \A i \in 1 .. t + 1 : i = t + 1 \/ i \in 1 .. t
              /\ \A i \in 1 .. t : i \in 1 .. t + 1 /\ ~Closing(r.events[i])
              /\ t + 1 \in 1 .. t + 1
              /\ Means(r, t + 1) = WithEvent(Means(r, t), e)
              /\ Len(Calls(r, t + 1)) = Len(Calls(r, t)) + Len(CallsOf(e))
              /\ SlotsAre(Over(Fragment, a.slots, CallsOf(e)), Pieces(r), Len(Calls(r, t + 1)))
  <1> DEFINE N == Len(r.events)
             p == t + 1
             e == r.events[p]
             u == CallsOf(e)
             F == Pieces(r)
             c == Calls(r, t)
  <1>1. r \in Replies /\ t \in 0 .. N /\ t # N /\ ~a.saw_done
    BY DEF NextEvent, Answer
  <1>2. N \in Nat
    BY <1>1, MeansIs
  <1> HIDE DEF N
  <1>3. /\ t \in Nat /\ p \in 0 .. N /\ p \in 1 .. N /\ p - 1 = t /\ p # 0 /\ p \in 1 .. p
        /\ \A i \in 1 .. p : i = p \/ i \in 1 .. t
        /\ \A i \in 1 .. t : i \in 1 .. p
    BY <1>1, <1>2
  <1>4. \A i \in 1 .. t : ~Closing(r.events[i])
    BY <1>1 DEF NextEvent, Answer
  <1> HIDE DEF p
  <1>5. Means(r, p) = WithEvent(Means(r, t), e)
    BY <1>1, <1>3, MeansIs DEF N
  <1>6. /\ Len(Calls(r, p)) = Len(c) + Len(u) /\ Len(c) + Len(u) <= Len(F)
        /\ \A i \in 1 .. Len(u) : u[i] = F[Len(c) + i]
        /\ IsSeq(u)
    BY <1>1, <1>3, PiecesFit DEF N
  <1>7. SlotsAre(a.slots, F, Len(c))
    BY DEF NextEvent, Answer
  <1> DEFINE q == Len(c)
             slots == a.slots
  <1> HIDE DEF e, u, F, c, q, slots
  <1>8. SlotsAre(slots, F, q) /\ q + Len(u) <= Len(F) /\ IsSeq(u) /\ \A i \in 1 .. Len(u) : u[i] = F[q + i]
    BY <1>6, <1>7 DEF q, slots
  <1>9. SlotsAre(Over(Fragment, slots, u), F, q + Len(u))
    BY <1>8, FragmentsGood
  <1> QED
    BY <1>1, <1>3, <1>4, <1>5, <1>6, <1>9 DEF N, p, e, u, F, c, q, slots

(* [DONE] ends the events, and adds nothing.                                *)
LEMMA AnswerDone ==
    ASSUME NEW r, NEW t, NEW a, NextEvent(r, t, a), r.events[t + 1] = Done
    PROVE  Answer(r, t + 1, [a EXCEPT !.saw_done = TRUE])
  <1> DEFINE p == t + 1
             e == r.events[p]
             b == [a EXCEPT !.saw_done = TRUE]
  <1>1. /\ r \in Replies /\ t \in Nat /\ p \in 0 .. Len(r.events) /\ p # 0
        /\ \A i \in 1 .. p : i = p \/ i \in 1 .. t
        /\ \A i \in 1 .. t : i \in 1 .. p /\ ~Closing(r.events[i])
        /\ Means(r, p) = WithEvent(Means(r, t), e)
        /\ SlotsAre(Over(Fragment, a.slots, CallsOf(e)), Pieces(r), Len(Calls(r, p)))
        /\ Len(Calls(r, p)) = Len(Calls(r, t)) + Len(CallsOf(e))
    BY NextHas
  <1>2. /\ IsAnswer(a) /\ a.finished \in BOOLEAN
        /\ a.log = Means(r, t).told /\ a.details = Means(r, t).details
        /\ SlotsAre(a.slots, Pieces(r), Len(Calls(r, t)))
        /\ a.finished => \E i \in 1 .. t : Finishing(r.events[i])
    BY DEF NextEvent, Answer
  <1>3. Closing(e)
    BY DEF Closing
  <1>4. Means(r, p) = Means(r, t)
    BY <1>1, <1>3 DEF WithEvent
  <1>5. Len(Calls(r, p)) = Len(Calls(r, t))
    BY <1>4 DEF Calls
  <1>6. /\ IsAnswer(b) /\ b.saw_done = TRUE /\ b.finished = a.finished /\ b.log = a.log /\ b.details = a.details
        /\ b.slots = a.slots
    <2>1. b = [a EXCEPT !.saw_done = TRUE]
      OBVIOUS
    <2> HIDE DEF b
    <2>2. IsAnswer(b)
      BY <1>2, <2>1 DEF IsAnswer
    <2>3. b.saw_done = TRUE /\ b.finished = a.finished /\ b.log = a.log /\ b.details = a.details
        /\ b.slots = a.slots
      BY <1>2, <2>1 DEF IsAnswer
    <2> QED
      BY <2>2, <2>3
  <1>7. e = Done
    OBVIOUS
  <1> HIDE DEF b
  <1>8. b.saw_done \in BOOLEAN /\ b.saw_done
    BY <1>6, Zenon
  <1>9. b.finished \in BOOLEAN /\ (b.finished => \E i \in 1 .. t : Finishing(r.events[i]))
    BY <1>2, <1>6, Zenon
  <1>10. b.finished => \E i \in 1 .. p : Finishing(r.events[i])
    BY <1>1, <1>9
  <1>11. /\ b.log = Means(r, p).told /\ b.details = Means(r, p).details
         /\ SlotsAre(b.slots, Pieces(r), Len(Calls(r, p)))
    BY <1>2, <1>4, <1>5, <1>6
  <1> HIDE DEF e, p
  <1>12. \A i \in 1 .. p : Closing(r.events[i]) => i = p /\ b.saw_done /\ r.events[p] = Done
    BY <1>1, <1>7, <1>8 DEF e
  <1>13. Answer(r, p, b)
    BY <1>1, <1>6, <1>7, <1>8, <1>9, <1>10, <1>11, <1>12 DEF Answer, e
  <1> QED
    BY <1>13 DEF b, p

(* An event that is no JSON adds nothing.                                   *)
LEMMA AnswerSilent ==
    ASSUME NEW r, NEW t, NEW a, NextEvent(r, t, a), r.events[t + 1] # Done,
           r.events[t + 1] \notin DOMAIN Said
    PROVE  Answer(r, t + 1, a)
  <1> DEFINE p == t + 1
             e == r.events[p]
  <1>1. /\ r \in Replies /\ t \in Nat /\ p \in 0 .. Len(r.events) /\ p # 0
        /\ \A i \in 1 .. p : i = p \/ i \in 1 .. t
        /\ \A i \in 1 .. t : i \in 1 .. p /\ ~Closing(r.events[i])
        /\ Means(r, p) = WithEvent(Means(r, t), e)
    BY NextHas
  <1>2. /\ IsAnswer(a) /\ a.finished \in BOOLEAN /\ a.saw_done \in BOOLEAN /\ ~a.saw_done
        /\ a.log = Means(r, t).told /\ a.details = Means(r, t).details
        /\ SlotsAre(a.slots, Pieces(r), Len(Calls(r, t)))
        /\ a.finished => \E i \in 1 .. t : Finishing(r.events[i])
    BY DEF NextEvent, Answer
  <1>3. ~Closing(e) /\ e \notin DOMAIN Said
    BY DEF Closing
  <1>4. Means(r, p) = Means(r, t)
    BY <1>1, <1>3 DEF WithEvent
  <1>5. Len(Calls(r, p)) = Len(Calls(r, t))
    BY <1>4 DEF Calls
  <1> HIDE DEF e, p
  <1>6. \A i \in 1 .. p : ~Closing(r.events[i])
    BY <1>1, <1>3 DEF e
  <1>7. a.finished => \E i \in 1 .. p : Finishing(r.events[i])
    BY <1>1, <1>2
  <1>8. Answer(r, p, a)
    BY <1>1, <1>2, <1>4, <1>5, <1>6, <1>7 DEF Answer
  <1> QED
    BY <1>8 DEF p

(* A chunk adds what it says: callbacks, details and fragments.             *)
LEMMA AnswerChunk ==
    ASSUME NEW r, NEW t, NEW a, NextEvent(r, t, a), r.events[t + 1] # Done,
           r.events[t + 1] \in DOMAIN Said, ~Said[r.events[t + 1]].error
    PROVE  Answer(r, t + 1, Chunk(a, Said[r.events[t + 1]]))
  <1> DEFINE p == t + 1
             e == r.events[p]
             j == Said[e]
             b == Chunk(a, j)
  <1>1. /\ r \in Replies /\ t \in Nat /\ p \in 0 .. Len(r.events) /\ p # 0 /\ p \in 1 .. p
        /\ \A i \in 1 .. p : i = p \/ i \in 1 .. t
        /\ \A i \in 1 .. t : i \in 1 .. p /\ ~Closing(r.events[i])
        /\ Means(r, p) = WithEvent(Means(r, t), e)
        /\ SlotsAre(Over(Fragment, a.slots, CallsOf(e)), Pieces(r), Len(Calls(r, p)))
    BY NextHas
  <1>2. /\ IsAnswer(a) /\ a.finished \in BOOLEAN /\ a.saw_done \in BOOLEAN /\ ~a.saw_done
        /\ a.log = Means(r, t).told /\ a.details = Means(r, t).details
        /\ a.finished => \E i \in 1 .. t : Finishing(r.events[i])
    BY DEF NextEvent, Answer
  <1>3. ~Closing(e) /\ e \in DOMAIN Said
    BY DEF Closing
  <1>4. Means(r, p).told = Means(r, t).told \o Told(j) /\ Means(r, p).details = Means(r, t).details \o j.details
    <2> DEFINE x == Means(r, t)
               y == Means(r, p)
               tl == x.told \o Told(j)
               dt == x.details \o j.details
               cl == x.calls \o j.calls
    <2>1. y = [told |-> tl, details |-> dt, calls |-> cl]
      BY <1>1, <1>3 DEF WithEvent
    <2> HIDE DEF x, y, tl, dt, cl
    <2>2. y.told = tl /\ y.details = dt
      BY <2>1
    <2> QED
      BY <2>2 DEF x, y, tl, dt
  <1>5. CallsOf(e) = j.calls
    BY <1>3 DEF CallsOf
  <1>6. /\ IsAnswer(b) /\ b.saw_done = a.saw_done /\ b.finished = (a.finished \/ j.finish # "")
        /\ b.log = a.log \o Told(j) /\ b.details = a.details \o j.details
        /\ b.slots = Over(Fragment, a.slots, j.calls)
    <2> DEFINE c0 == a
               v1 == c0.finished \/ j.finish # ""
               c1 == [c0 EXCEPT !.finished = v1]
               v2 == First(c1.finish_reason, j.finish)
               c2 == [c1 EXCEPT !.finish_reason = v2]
               v3 == First(c2.native_finish_reason, j.native)
               c3 == [c2 EXCEPT !.native_finish_reason = v3]
               v4 == First(c3.meta, j.served)
               c4 == [c3 EXCEPT !.meta = v4]
               v5 == Over(Fragment, c4.slots, j.calls)
               c5 == [c4 EXCEPT !.slots = v5]
               v6 == c5.details \o j.details
               c6 == [c5 EXCEPT !.details = v6]
               v7 == c6.log \o Told(j)
               c7 == [c6 EXCEPT !.log = v7]
    <2>0. b = c7
      BY DEF Chunk
    <2>h. IsAnswer(c0)
      BY <1>2
    <2> HIDE DEF b, j, c0, v1
    <2>a1. c1 = [c0 EXCEPT !.finished = v1]
      OBVIOUS
    <2> HIDE DEF c1, v2
    <2>b1. IsAnswer(c1)
      BY <2>h, <2>a1 DEF IsAnswer
    <2>c1. c1.finished = v1 /\ c1.saw_done = c0.saw_done /\ c1.slots = c0.slots /\ c1.details = c0.details /\ c1.log = c0.log
      BY <2>h, <2>a1 DEF IsAnswer
    <2>a2. c2 = [c1 EXCEPT !.finish_reason = v2]
      OBVIOUS
    <2> HIDE DEF c2, v3
    <2>b2. IsAnswer(c2)
      BY <2>b1, <2>a2 DEF IsAnswer
    <2>c2. c2.finish_reason = v2 /\ c2.saw_done = c1.saw_done /\ c2.finished = c1.finished /\ c2.slots = c1.slots /\ c2.details = c1.details /\ c2.log = c1.log
      BY <2>b1, <2>a2 DEF IsAnswer
    <2>a3. c3 = [c2 EXCEPT !.native_finish_reason = v3]
      OBVIOUS
    <2> HIDE DEF c3, v4
    <2>b3. IsAnswer(c3)
      BY <2>b2, <2>a3 DEF IsAnswer
    <2>c3. c3.native_finish_reason = v3 /\ c3.saw_done = c2.saw_done /\ c3.finished = c2.finished /\ c3.slots = c2.slots /\ c3.details = c2.details /\ c3.log = c2.log
      BY <2>b2, <2>a3 DEF IsAnswer
    <2>a4. c4 = [c3 EXCEPT !.meta = v4]
      OBVIOUS
    <2> HIDE DEF c4, v5
    <2>b4. IsAnswer(c4)
      BY <2>b3, <2>a4 DEF IsAnswer
    <2>c4. c4.meta = v4 /\ c4.saw_done = c3.saw_done /\ c4.finished = c3.finished /\ c4.slots = c3.slots /\ c4.details = c3.details /\ c4.log = c3.log
      BY <2>b3, <2>a4 DEF IsAnswer
    <2>a5. c5 = [c4 EXCEPT !.slots = v5]
      OBVIOUS
    <2> HIDE DEF c5, v6
    <2>b5. IsAnswer(c5)
      BY <2>b4, <2>a5 DEF IsAnswer
    <2>c5. c5.slots = v5 /\ c5.saw_done = c4.saw_done /\ c5.finished = c4.finished /\ c5.details = c4.details /\ c5.log = c4.log
      BY <2>b4, <2>a5 DEF IsAnswer
    <2>a6. c6 = [c5 EXCEPT !.details = v6]
      OBVIOUS
    <2> HIDE DEF c6, v7
    <2>b6. IsAnswer(c6)
      BY <2>b5, <2>a6 DEF IsAnswer
    <2>c6. c6.details = v6 /\ c6.saw_done = c5.saw_done /\ c6.finished = c5.finished /\ c6.slots = c5.slots /\ c6.log = c5.log
      BY <2>b5, <2>a6 DEF IsAnswer
    <2>a7. c7 = [c6 EXCEPT !.log = v7]
      OBVIOUS
    <2> HIDE DEF c7
    <2>b7. IsAnswer(c7)
      BY <2>b6, <2>a7 DEF IsAnswer
    <2>c7. c7.log = v7 /\ c7.saw_done = c6.saw_done /\ c7.finished = c6.finished /\ c7.slots = c6.slots /\ c7.details = c6.details
      BY <2>b6, <2>a7 DEF IsAnswer
    <2>1. v1 = (c0.finished \/ j.finish # "")
      BY DEF v1
    <2>2. c7.finished = v1
      BY <2>c1, <2>c2, <2>c3, <2>c4, <2>c5, <2>c6, <2>c7
    <2>3. c7.saw_done = c0.saw_done
      BY <2>c1, <2>c2, <2>c3, <2>c4, <2>c5, <2>c6, <2>c7
    <2>4. v5 = Over(Fragment, c0.slots, j.calls) /\ c7.slots = v5
      BY <2>c1, <2>c2, <2>c3, <2>c4, <2>c5, <2>c6, <2>c7 DEF v5
    <2>5. v6 = c0.details \o j.details /\ c7.details = v6
      BY <2>c1, <2>c2, <2>c3, <2>c4, <2>c5, <2>c6, <2>c7 DEF v6
    <2>6. v7 = c0.log \o Told(j) /\ c7.log = v7
      BY <2>c1, <2>c2, <2>c3, <2>c4, <2>c5, <2>c6, <2>c7 DEF v7
    <2>7. c0 = a
      BY DEF c0
    <2> QED
      BY <2>0, <2>1, <2>2, <2>3, <2>4, <2>5, <2>6, <2>7, <2>b7
  <1>7. e = r.events[p] /\ j = Said[e]
    OBVIOUS
  <1> HIDE DEF b, j
  <1>8. b.saw_done \in BOOLEAN /\ ~b.saw_done
    BY <1>2, <1>6, Zenon
  <1>9. b.finished \in BOOLEAN
    BY <1>6, Zenon
  <1>11. /\ b.log = Means(r, p).told /\ b.details = Means(r, p).details
         /\ SlotsAre(b.slots, Pieces(r), Len(Calls(r, p)))
    BY <1>1, <1>2, <1>4, <1>5, <1>6
  <1>12. j.finish # "" => Finishing(e)
    BY <1>3, <1>7 DEF Finishing
  <1> HIDE DEF e, p
  <1>13. b.finished => \E i \in 1 .. p : Finishing(r.events[i])
    <2>1. CASE a.finished
      BY <1>1, <1>2, <2>1
    <2>2. CASE ~a.finished
      <3>1. b.finished => j.finish # ""
        BY <1>6, <2>2, Zenon
      <3> QED
        BY <1>1, <1>7, <1>12, <3>1
    <2> QED
      BY <2>1, <2>2
  <1>14. \A i \in 1 .. p : ~Closing(r.events[i])
    BY <1>1, <1>3 DEF e
  <1>15. Answer(r, p, b)
    BY <1>1, <1>6, <1>8, <1>9, <1>11, <1>13, <1>14 DEF Answer
  <1> QED
    BY <1>15 DEF b, p, j, e

-----------------------------------------------------------------------------
(* feed_and_dispatch: the events of a feed, one by one.                     *)

(* The record of a stream.                                                  *)
IsChat(s) ==
    s = [conn |-> s.conn, sse |-> s.sse, preread |-> s.preread, head_checked |-> s.head_checked,
         error_mode |-> s.error_mode, error_len |-> s.error_len, done |-> s.done, tail |-> s.tail,
         answer |-> s.answer, result |-> s.result]

(* A stream with another connection is one, and the rest of it is as it     *)
(* was; so for the other fields.                                            *)
LEMMA Set_conn ==
    ASSUME NEW s, IsChat(s), NEW y, NEW t, t = [s EXCEPT !.conn = y]
    PROVE  /\ IsChat(t) /\ t.conn = y
           /\ t.sse = s.sse /\ t.preread = s.preread /\ t.head_checked = s.head_checked
           /\ t.error_mode = s.error_mode /\ t.error_len = s.error_len /\ t.done = s.done
           /\ t.tail = s.tail /\ t.answer = s.answer /\ t.result = s.result
  <1>1. IsChat(t)
    BY DEF IsChat
  <1>2. t.conn = y
    BY DEF IsChat
  <1>3. t.sse = s.sse /\ t.preread = s.preread /\ t.head_checked = s.head_checked
    BY DEF IsChat
  <1>4. t.error_mode = s.error_mode /\ t.error_len = s.error_len /\ t.done = s.done
    BY DEF IsChat
  <1>5. t.tail = s.tail /\ t.answer = s.answer /\ t.result = s.result
    BY DEF IsChat
  <1> QED
    BY <1>1, <1>2, <1>3, <1>4, <1>5

(* The same for sse.                                                        *)
LEMMA Set_sse ==
    ASSUME NEW s, IsChat(s), NEW y, NEW t, t = [s EXCEPT !.sse = y]
    PROVE  /\ IsChat(t) /\ t.sse = y
           /\ t.conn = s.conn /\ t.preread = s.preread /\ t.head_checked = s.head_checked
           /\ t.error_mode = s.error_mode /\ t.error_len = s.error_len /\ t.done = s.done
           /\ t.tail = s.tail /\ t.answer = s.answer /\ t.result = s.result
  <1>1. IsChat(t)
    BY DEF IsChat
  <1>2. t.sse = y
    BY DEF IsChat
  <1>3. t.conn = s.conn /\ t.preread = s.preread /\ t.head_checked = s.head_checked
    BY DEF IsChat
  <1>4. t.error_mode = s.error_mode /\ t.error_len = s.error_len /\ t.done = s.done
    BY DEF IsChat
  <1>5. t.tail = s.tail /\ t.answer = s.answer /\ t.result = s.result
    BY DEF IsChat
  <1> QED
    BY <1>1, <1>2, <1>3, <1>4, <1>5

(* The same for preread.                                                    *)
LEMMA Set_preread ==
    ASSUME NEW s, IsChat(s), NEW y, NEW t, t = [s EXCEPT !.preread = y]
    PROVE  /\ IsChat(t) /\ t.preread = y
           /\ t.conn = s.conn /\ t.sse = s.sse /\ t.head_checked = s.head_checked
           /\ t.error_mode = s.error_mode /\ t.error_len = s.error_len /\ t.done = s.done
           /\ t.tail = s.tail /\ t.answer = s.answer /\ t.result = s.result
  <1>1. IsChat(t)
    BY DEF IsChat
  <1>2. t.preread = y
    BY DEF IsChat
  <1>3. t.conn = s.conn /\ t.sse = s.sse /\ t.head_checked = s.head_checked
    BY DEF IsChat
  <1>4. t.error_mode = s.error_mode /\ t.error_len = s.error_len /\ t.done = s.done
    BY DEF IsChat
  <1>5. t.tail = s.tail /\ t.answer = s.answer /\ t.result = s.result
    BY DEF IsChat
  <1> QED
    BY <1>1, <1>2, <1>3, <1>4, <1>5

(* The same for head_checked.                                               *)
LEMMA Set_head_checked ==
    ASSUME NEW s, IsChat(s), NEW y, NEW t, t = [s EXCEPT !.head_checked = y]
    PROVE  /\ IsChat(t) /\ t.head_checked = y
           /\ t.conn = s.conn /\ t.sse = s.sse /\ t.preread = s.preread
           /\ t.error_mode = s.error_mode /\ t.error_len = s.error_len /\ t.done = s.done
           /\ t.tail = s.tail /\ t.answer = s.answer /\ t.result = s.result
  <1>1. IsChat(t)
    BY DEF IsChat
  <1>2. t.head_checked = y
    BY DEF IsChat
  <1>3. t.conn = s.conn /\ t.sse = s.sse /\ t.preread = s.preread
    BY DEF IsChat
  <1>4. t.error_mode = s.error_mode /\ t.error_len = s.error_len /\ t.done = s.done
    BY DEF IsChat
  <1>5. t.tail = s.tail /\ t.answer = s.answer /\ t.result = s.result
    BY DEF IsChat
  <1> QED
    BY <1>1, <1>2, <1>3, <1>4, <1>5

(* The same for error_mode.                                                 *)
LEMMA Set_error_mode ==
    ASSUME NEW s, IsChat(s), NEW y, NEW t, t = [s EXCEPT !.error_mode = y]
    PROVE  /\ IsChat(t) /\ t.error_mode = y
           /\ t.conn = s.conn /\ t.sse = s.sse /\ t.preread = s.preread
           /\ t.head_checked = s.head_checked /\ t.error_len = s.error_len /\ t.done = s.done
           /\ t.tail = s.tail /\ t.answer = s.answer /\ t.result = s.result
  <1>1. IsChat(t)
    BY DEF IsChat
  <1>2. t.error_mode = y
    BY DEF IsChat
  <1>3. t.conn = s.conn /\ t.sse = s.sse /\ t.preread = s.preread
    BY DEF IsChat
  <1>4. t.head_checked = s.head_checked /\ t.error_len = s.error_len /\ t.done = s.done
    BY DEF IsChat
  <1>5. t.tail = s.tail /\ t.answer = s.answer /\ t.result = s.result
    BY DEF IsChat
  <1> QED
    BY <1>1, <1>2, <1>3, <1>4, <1>5

(* The same for error_len.                                                  *)
LEMMA Set_error_len ==
    ASSUME NEW s, IsChat(s), NEW y, NEW t, t = [s EXCEPT !.error_len = y]
    PROVE  /\ IsChat(t) /\ t.error_len = y
           /\ t.conn = s.conn /\ t.sse = s.sse /\ t.preread = s.preread
           /\ t.head_checked = s.head_checked /\ t.error_mode = s.error_mode /\ t.done = s.done
           /\ t.tail = s.tail /\ t.answer = s.answer /\ t.result = s.result
  <1>1. IsChat(t)
    BY DEF IsChat
  <1>2. t.error_len = y
    BY DEF IsChat
  <1>3. t.conn = s.conn /\ t.sse = s.sse /\ t.preread = s.preread
    BY DEF IsChat
  <1>4. t.head_checked = s.head_checked /\ t.error_mode = s.error_mode /\ t.done = s.done
    BY DEF IsChat
  <1>5. t.tail = s.tail /\ t.answer = s.answer /\ t.result = s.result
    BY DEF IsChat
  <1> QED
    BY <1>1, <1>2, <1>3, <1>4, <1>5

(* The same for done.                                                       *)
LEMMA Set_done ==
    ASSUME NEW s, IsChat(s), NEW y, NEW t, t = [s EXCEPT !.done = y]
    PROVE  /\ IsChat(t) /\ t.done = y
           /\ t.conn = s.conn /\ t.sse = s.sse /\ t.preread = s.preread
           /\ t.head_checked = s.head_checked /\ t.error_mode = s.error_mode /\ t.error_len = s.error_len
           /\ t.tail = s.tail /\ t.answer = s.answer /\ t.result = s.result
  <1>1. IsChat(t)
    BY DEF IsChat
  <1>2. t.done = y
    BY DEF IsChat
  <1>3. t.conn = s.conn /\ t.sse = s.sse /\ t.preread = s.preread
    BY DEF IsChat
  <1>4. t.head_checked = s.head_checked /\ t.error_mode = s.error_mode /\ t.error_len = s.error_len
    BY DEF IsChat
  <1>5. t.tail = s.tail /\ t.answer = s.answer /\ t.result = s.result
    BY DEF IsChat
  <1> QED
    BY <1>1, <1>2, <1>3, <1>4, <1>5

(* The same for tail.                                                       *)
LEMMA Set_tail ==
    ASSUME NEW s, IsChat(s), NEW y, NEW t, t = [s EXCEPT !.tail = y]
    PROVE  /\ IsChat(t) /\ t.tail = y
           /\ t.conn = s.conn /\ t.sse = s.sse /\ t.preread = s.preread
           /\ t.head_checked = s.head_checked /\ t.error_mode = s.error_mode /\ t.error_len = s.error_len
           /\ t.done = s.done /\ t.answer = s.answer /\ t.result = s.result
  <1>1. IsChat(t)
    BY DEF IsChat
  <1>2. t.tail = y
    BY DEF IsChat
  <1>3. t.conn = s.conn /\ t.sse = s.sse /\ t.preread = s.preread
    BY DEF IsChat
  <1>4. t.head_checked = s.head_checked /\ t.error_mode = s.error_mode /\ t.error_len = s.error_len
    BY DEF IsChat
  <1>5. t.done = s.done /\ t.answer = s.answer /\ t.result = s.result
    BY DEF IsChat
  <1> QED
    BY <1>1, <1>2, <1>3, <1>4, <1>5

(* The same for answer.                                                     *)
LEMMA Set_answer ==
    ASSUME NEW s, IsChat(s), NEW y, NEW t, t = [s EXCEPT !.answer = y]
    PROVE  /\ IsChat(t) /\ t.answer = y
           /\ t.conn = s.conn /\ t.sse = s.sse /\ t.preread = s.preread
           /\ t.head_checked = s.head_checked /\ t.error_mode = s.error_mode /\ t.error_len = s.error_len
           /\ t.done = s.done /\ t.tail = s.tail /\ t.result = s.result
  <1>1. IsChat(t)
    BY DEF IsChat
  <1>2. t.answer = y
    BY DEF IsChat
  <1>3. t.conn = s.conn /\ t.sse = s.sse /\ t.preread = s.preread
    BY DEF IsChat
  <1>4. t.head_checked = s.head_checked /\ t.error_mode = s.error_mode /\ t.error_len = s.error_len
    BY DEF IsChat
  <1>5. t.done = s.done /\ t.tail = s.tail /\ t.result = s.result
    BY DEF IsChat
  <1> QED
    BY <1>1, <1>2, <1>3, <1>4, <1>5

(* The same for result.                                                     *)
LEMMA Set_result ==
    ASSUME NEW s, IsChat(s), NEW y, NEW t, t = [s EXCEPT !.result = y]
    PROVE  /\ IsChat(t) /\ t.result = y
           /\ t.conn = s.conn /\ t.sse = s.sse /\ t.preread = s.preread
           /\ t.head_checked = s.head_checked /\ t.error_mode = s.error_mode /\ t.error_len = s.error_len
           /\ t.done = s.done /\ t.tail = s.tail /\ t.answer = s.answer
  <1>1. IsChat(t)
    BY DEF IsChat
  <1>2. t.result = y
    BY DEF IsChat
  <1>3. t.conn = s.conn /\ t.sse = s.sse /\ t.preread = s.preread
    BY DEF IsChat
  <1>4. t.head_checked = s.head_checked /\ t.error_mode = s.error_mode /\ t.error_len = s.error_len
    BY DEF IsChat
  <1>5. t.done = s.done /\ t.tail = s.tail /\ t.answer = s.answer
    BY DEF IsChat
  <1> QED
    BY <1>1, <1>2, <1>3, <1>4, <1>5

(* What a step returns is a field of the stream.                            *)
LEMMA ReturnsIs ==
    ASSUME NEW s, IsChat(s), NEW y, NEW t, t = Returns(s, y)
    PROVE  /\ IsChat(t) /\ t.result = y
           /\ t.conn = s.conn /\ t.sse = s.sse /\ t.preread = s.preread
           /\ t.head_checked = s.head_checked /\ t.error_mode = s.error_mode /\ t.error_len = s.error_len
           /\ t.done = s.done /\ t.tail = s.tail /\ t.answer = s.answer
  <1>1. t = [s EXCEPT !.result = y]
    BY DEF Returns
  <1> QED
    BY <1>1, Set_result

(* t is s, over with the result y.                                          *)
EndedBy(s, y, t) ==
    IsChat(t) /\ t.result = y /\ t.done = TRUE /\ t.answer = s.answer /\ t.conn = Fresh

(* Ends makes a stream that is over.                                        *)
LEMMA EndsIs ==
    ASSUME NEW s, IsChat(s), NEW y, NEW t, t = Ends(s, y)
    PROVE  EndedBy(s, y, t)
  <1> DEFINE s1 == [s EXCEPT !.result = y]
             s2 == [s1 EXCEPT !.done = TRUE]
             s3 == [s2 EXCEPT !.conn = Fresh]
             s4 == [s3 EXCEPT !.sse = NewParser]
             nil == <<>>
             s5 == [s4 EXCEPT !.preread = nil]
  <1>0. t = s5
    BY DEF Ends
  <1>1. s1 = [s EXCEPT !.result = y]
    OBVIOUS
  <1> HIDE DEF s1
  <1>2. IsChat(s1) /\ s1.result = y /\ s1.answer = s.answer
    BY <1>1, Set_result
  <1>3. s2 = [s1 EXCEPT !.done = TRUE]
    OBVIOUS
  <1> HIDE DEF s2
  <1>4. IsChat(s2) /\ s2.done = TRUE /\ s2.result = y /\ s2.answer = s.answer
    BY <1>2, <1>3, Set_done
  <1>5. s3 = [s2 EXCEPT !.conn = Fresh]
    OBVIOUS
  <1> HIDE DEF s3
  <1>6. IsChat(s3) /\ s3.done = TRUE /\ s3.result = y /\ s3.answer = s.answer /\ s3.conn = Fresh
    BY <1>4, <1>5, Set_conn
  <1>7. s4 = [s3 EXCEPT !.sse = NewParser]
    OBVIOUS
  <1> HIDE DEF s4
  <1>8. IsChat(s4) /\ s4.done = TRUE /\ s4.result = y /\ s4.answer = s.answer /\ s4.conn = Fresh
    BY <1>6, <1>7, Set_sse
  <1>9. s5 = [s4 EXCEPT !.preread = nil]
    OBVIOUS
  <1> HIDE DEF s5, nil
  <1> HIDE DEF s5
  <1>10. IsChat(s5) /\ s5.done = TRUE /\ s5.result = y /\ s5.answer = s.answer /\ s5.conn = Fresh
    BY <1>8, <1>9, Set_preread
  <1> QED
    BY <1>0, <1>10 DEF EndedBy

(* The same, of the operator itself.                                        *)
LEMMA EndsBy ==
    ASSUME NEW s, IsChat(s), NEW y
    PROVE  EndedBy(s, y, Ends(s, y))
  <1> DEFINE t == Ends(s, y)
  <1>1. t = Ends(s, y)
    OBVIOUS
  <1> HIDE DEF t
  <1>2. EndedBy(s, y, t)
    BY <1>1, EndsIs
  <1> QED
    BY <1>2 DEF t

(* A byte has completed no more events than the reply has.                  *)
LEMMA EventsFit ==
    ASSUME NEW r \in Replies, Streams(r), NEW m \in 0 .. Len(Bytes(r))
    PROVE  Events(r, m) \in 0 .. Len(r.events) /\ Events(r, m) \in Nat /\ Len(r.events) \in Nat
  <1> DEFINE N == Len(r.wire)
             M == Len(Bytes(r))
  <1>1. N \in Nat /\ N \in 0 .. N
    <2>1. N \in Nat
      BY TopIs
    <2> QED
      BY <2>1
  <1>2. M \in Nat /\ M \in 0 .. M
    <2>1. M \in Nat
      BY SaysFrom
    <2> QED
      BY <2>1
  <1>3. Arrived(r, N) \in 0 .. Len(r.events)
    BY <1>1, ArrivedIs
  <1>4. Arrived(r, N) = Events(r, M)
    <2>1. M = Pay(r, N)
      BY DEF Bytes, Pay
    <2> QED
      BY <2>1 DEF Arrived
  <1>5. Events(r, m) \in Nat /\ Events(r, m) <= Events(r, M)
    BY <1>2, EventsGrow
  <1>6. Len(r.events) \in Nat
    BY MeansIs
  <1> QED
    BY <1>3, <1>4, <1>5, <1>6

(* All but the parser and the answer.                                       *)
Alike(s, t) ==
    /\ t.conn = s.conn /\ t.preread = s.preread /\ t.head_checked = s.head_checked
    /\ t.error_mode = s.error_mode /\ t.error_len = s.error_len /\ t.tail = s.tail
    /\ t.result = s.result /\ t.done = s.done

(* The parser has read m bytes of z.reply and holds those up to z.to; the   *)
(* answer is what they say.  z.of: the stream as the dispatch began.        *)
Piece(z, m) == [reply |-> z.reply, from |-> m, to |-> z.to]

Dispatches(z, s, m) ==
    /\ IsFeed(Piece(z, m)) /\ Streams(z.reply) /\ Alike(z.of, s) /\ s.done = FALSE
    /\ s.sse = Rests(Piece(z, m), m)
    /\ Answer(z.reply, Events(z.reply, m), s.answer)

(* An event has ended the stream.                                           *)
Refused(s) == s.result = "http" /\ s.conn = Fresh

(* What the turns of a dispatch keep.                                       *)
Dispatching(z, s) ==
    /\ IsChat(s) /\ s.done \in BOOLEAN
    /\ s.done => Refused(s)
    /\ ~s.done => \E m : Dispatches(z, s, m)

(* How many turns are left at most.                                         *)
Undispatched(s) == IF DispatchStops(s) THEN 0 ELSE Len(s.sse.hold)

(* What holds at every turn of a dispatch.                                  *)
LEMMA DispatchHas ==
    ASSUME NEW z, NEW s, NEW m, Dispatches(z, s, m)
    PROVE  /\ z.reply \in Replies /\ Within(Bytes(z.reply), m, z.to) /\ m \in Nat /\ z.to \in Nat /\ m <= z.to
           /\ Len(Bytes(z.reply)) \in Nat /\ z.to <= Len(Bytes(z.reply)) /\ m \in 0 .. Len(Bytes(z.reply))
           /\ s.sse.hold = Cut(Bytes(z.reply), m, z.to) /\ Len(s.sse.hold) = z.to - m
           /\ (s.sse.hold = <<>> <=> m = z.to)
           /\ Bare(Says(z.reply, m).p)
           /\ (DispatchStops(s) <=> s.answer.saw_done \/ m = z.to)
  <1> DEFINE B == Bytes(z.reply)
             t == z.to
             q == Says(z.reply, m).p
  <1>1. z.reply \in Replies /\ Within(B, m, t) /\ s.done = FALSE /\ s.sse = Holding(q, Cut(B, m, t))
    BY DEF Dispatches, IsFeed, Piece, Rests
  <1>2. /\ Len(Cut(B, m, t)) = t - m /\ m \in Nat /\ t \in Nat /\ m <= t /\ t <= Len(B) /\ Len(B) \in Nat
        /\ (Cut(B, m, t) = <<>> <=> m = t)
    BY <1>1, CutIs, CutEmpty
  <1> HIDE DEF t
  <1>3. m \in 0 .. Len(B)
    BY <1>2
  <1>4. Bare(q)
    <2>1. IsSaid(Says(z.reply, m))
      BY <1>1, <1>3, SaysIs
    <2> QED
      BY <2>1 DEF IsSaid
  <1> HIDE DEF B, q
  <1>5. s.sse.hold = Cut(B, m, t)
    BY <1>1, <1>4, HoldingIs
  <1>6. DispatchStops(s) <=> s.answer.saw_done \/ m = t
    BY <1>1, <1>2, <1>5 DEF DispatchStops
  <1> QED
    BY <1>1, <1>2, <1>3, <1>4, <1>5, <1>6 DEF B, t, q

(* The turns that are left are a number, 0 when the dispatch stops.         *)
LEMMA UndispatchedIs ==
    ASSUME NEW z, NEW s, Dispatching(z, s)
    PROVE  Undispatched(s) \in Nat /\ (DispatchStops(s) <=> Undispatched(s) = 0)
  <1>1. CASE DispatchStops(s)
    BY <1>1 DEF Undispatched
  <1>2. CASE ~DispatchStops(s)
    <2>1. ~s.done
      BY <1>2 DEF DispatchStops
    <2>2. PICK m : Dispatches(z, s, m)
      BY <2>1 DEF Dispatching
    <2> DEFINE t == z.to
               n == Len(s.sse.hold)
    <2>3. m \in Nat /\ t \in Nat /\ m <= t /\ m # t /\ n = t - m
      BY <1>2, <2>2, DispatchHas
    <2>4. Undispatched(s) = n
      BY <1>2 DEF Undispatched
    <2> HIDE DEF n, t
    <2> QED
      BY <1>2, <2>3, <2>4
  <1> QED
    BY <1>1, <1>2

(* What an event makes of a stream whose answer is that of the ones before. *)
Listened(r, s, t, e) ==
    /\ IsChat(e) /\ e.done \in BOOLEAN
    /\ e.done => Refused(e)
    /\ ~e.done => Alike(s, e) /\ e.sse = s.sse /\ Answer(r, t + 1, e.answer)

Hearing(r, s, t) == IsChat(s) /\ NextEvent(r, t, s.answer) /\ s.done = FALSE

(* An event is heard: it ends the stream, or the answer is that of one      *)
(* event more (handle_event).                                               *)
LEMMA EventGood ==
    ASSUME NEW r, NEW s, NEW t, Hearing(r, s, t)
    PROVE  Listened(r, s, t, Event(s, r.events[t + 1]))
  <1> DEFINE text == r.events[t + 1]
             a == s.answer
             e == Event(s, text)
  <1>1. IsChat(s) /\ NextEvent(r, t, a) /\ s.done = FALSE
    BY DEF Hearing
  <1>2. ASSUME NEW b, e = [s EXCEPT !.answer = b], Answer(r, t + 1, b)
        PROVE  Listened(r, s, t, e)
    <2> HIDE DEF e, a, text
    <2>1. IsChat(e) /\ e.answer = b /\ e.sse = s.sse /\ Alike(s, e)
      BY <1>1, <1>2, Set_answer DEF Alike
    <2>2. e.done = FALSE
      BY <1>1, <2>1 DEF Alike
    <2>3. ~e.done /\ e.done \in BOOLEAN
      BY <2>2, Zenon
    <2> QED
      BY <1>2, <2>1, <2>3, Zenon DEF Listened
  <1>3. CASE text = Done
    <2> DEFINE b == [a EXCEPT !.saw_done = TRUE]
    <2>1. Answer(r, t + 1, b)
      BY <1>1, <1>3, AnswerDone
    <2>2. e = [s EXCEPT !.answer = b]
      BY <1>3 DEF Event
    <2> HIDE DEF e, b, a, text
    <2>3. Listened(r, s, t, e)
      BY <1>2, <2>1, <2>2
    <2> QED
      BY <2>3 DEF e, text
  <1>4. CASE text # Done /\ text \notin DOMAIN Said
    <2>1. Answer(r, t + 1, a)
      BY <1>1, <1>4, AnswerSilent
    <2>2. e = s
      BY <1>4 DEF Event
    <2> HIDE DEF e, text
    <2>3. Alike(s, s)
      BY DEF Alike
    <2>4. ~s.done /\ s.done \in BOOLEAN
      BY <1>1, Zenon
    <2>5. Listened(r, s, t, s)
      BY <1>1, <2>1, <2>3, <2>4, Zenon DEF Listened
    <2>6. Listened(r, s, t, e)
      BY <2>2, <2>5
    <2> QED
      BY <2>6 DEF e, text
  <1>5. CASE text # Done /\ text \in DOMAIN Said /\ Said[text].error
    <2> DEFINE why == "http"
    <2>1. e = Ends(s, why)
      BY <1>5 DEF Event
    <2> HIDE DEF e, a, text, why
    <2>5. EndedBy(s, why, e)
      BY <1>1, <2>1, EndsBy
    <2>2. IsChat(e) /\ Refused(e) /\ e.done = TRUE
      BY <2>5 DEF EndedBy, Refused, why
    <2>3. e.done /\ e.done \in BOOLEAN
      BY <2>2, Zenon
    <2>4. Listened(r, s, t, e)
      BY <2>2, <2>3, Zenon DEF Listened
    <2> QED
      BY <2>4 DEF e, text
  <1>6. CASE text # Done /\ text \in DOMAIN Said /\ ~Said[text].error
    <2> DEFINE b == Chunk(a, Said[text])
    <2>1. Answer(r, t + 1, b)
      BY <1>1, <1>6, AnswerChunk
    <2>2. e = [s EXCEPT !.answer = b]
      BY <1>6 DEF Event
    <2> HIDE DEF e, b, a, text
    <2>3. Listened(r, s, t, e)
      BY <1>2, <2>1, <2>2
    <2> QED
      BY <2>3 DEF e, text
  <1> QED
    BY <1>3, <1>4, <1>5, <1>6

(* A step of a dispatch.                                                    *)
DispatchesOn(z, s, t) == Dispatching(z, t) /\ Undispatched(t) < Undispatched(s)

(* A turn of a dispatch takes a byte at least, and keeps what a dispatch    *)
(* keeps (feed_and_dispatch).                                               *)
LEMMA DispatchTurnGood ==
    ASSUME NEW z, NEW s, Dispatching(z, s), ~DispatchStops(s)
    PROVE  DispatchesOn(z, s, DispatchTurn(s))
  <1>1. ~s.done /\ ~s.answer.saw_done
    BY DEF DispatchStops
  <1>2. PICK m : Dispatches(z, s, m)
    BY <1>1 DEF Dispatching
  <1> DEFINE r == z.reply
             B == Bytes(r)
             p == Piece(z, m)
             y == SseFeed(s.sse, <<>>)
             t == [s EXCEPT !.sse = y.p]
             d == DispatchTurn(s)
  <1>3. /\ r \in Replies /\ Within(B, m, z.to) /\ m \in Nat /\ z.to \in Nat /\ m <= z.to /\ m # z.to
        /\ Len(B) \in Nat /\ z.to <= Len(B) /\ m \in 0 .. Len(B) /\ Len(s.sse.hold) = z.to - m
    BY <1>2, DispatchHas
  <1>4. /\ IsFeed(p) /\ p.from = m /\ p.to = z.to /\ p.reply = r /\ s.sse = Rests(p, p.from)
        /\ Streams(r) /\ Alike(z.of, s) /\ s.done = FALSE /\ Answer(r, Events(r, m), s.answer)
        /\ IsChat(s)
    BY <1>2 DEF Dispatches, Piece, Dispatching
  <1>5. \E j : FeedTo(p, y, j)
    <2> HIDE DEF p, y
    <2>1. IsFeed(p) /\ p.from # p.to
      BY <1>3, <1>4
    <2>2. \E j : FeedTo(p, SseFeed(Rests(p, p.from), <<>>), j)
      BY <2>1, SseFeedGood
    <2> QED
      BY <1>4, <2>2 DEF y
  <1>6. PICK j : FeedTo(p, y, j)
    BY <1>5
  <1>7. d = IF y.emitted THEN Event(t, y.data) ELSE t
    <2>1. y.emitted \in BOOLEAN
      BY <1>6 DEF FeedTo
    <2> QED
      BY <2>1 DEF DispatchTurn
  <1>8. t = [s EXCEPT !.sse = y.p]
    OBVIOUS
  <1> HIDE DEF t, y, d, p, B, r
  <1>9. /\ IsChat(t) /\ t.sse = y.p /\ t.answer = s.answer /\ Alike(s, t) /\ t.done = FALSE
    BY <1>4, <1>8, Set_sse DEF Alike
  <1>10. Alike(z.of, t)
    BY <1>4, <1>9 DEF Alike
  <1>11. /\ j \in m + 1 .. z.to /\ y.p = Rests(p, j) /\ y.emitted \in BOOLEAN
         /\ y.emitted => /\ Says(r, j).emitted /\ y.data = Says(r, j).data
                         /\ Events(r, j) = Events(r, m) + 1
         /\ ~y.emitted => j = z.to /\ Events(r, j) = Events(r, m)
    BY <1>4, <1>6 DEF FeedTo
  <1>12. j \in Nat /\ m < j /\ j <= z.to /\ j \in 1 .. Len(B) /\ j \in 0 .. Len(B)
    BY <1>3, <1>11
  <1>13. IsFeed(Piece(z, j)) /\ y.p = Rests(Piece(z, j), j)
    <2>1. Within(B, j, z.to)
      BY <1>3, <1>12 DEF Within
    <2>2. IsFeed(Piece(z, j))
      BY <1>3, <2>1 DEF IsFeed, Piece, B, r
    <2>3. Rests(p, j) = Rests(Piece(z, j), j)
      BY DEF Rests, Piece, p
    <2> QED
      BY <1>11, <2>2, <2>3
  <1>14. Undispatched(s) = z.to - m
    BY <1>3 DEF Undispatched
  <1>15. ASSUME NEW e, Dispatching(z, e), e.done \/ Dispatches(z, e, j)
         PROVE  Undispatched(e) < z.to - m
    <2>1. Undispatched(e) \in Nat /\ (DispatchStops(e) <=> Undispatched(e) = 0)
      BY <1>15, UndispatchedIs
    <2>2. CASE DispatchStops(e)
      BY <1>3, <2>1, <2>2
    <2>3. CASE ~DispatchStops(e)
      <3>1. Dispatches(z, e, j)
        BY <1>15, <2>3 DEF DispatchStops
      <3>2. Undispatched(e) = z.to - j
        <4>1. Len(e.sse.hold) = z.to - j
          BY <3>1, DispatchHas
        <4> QED
          BY <2>3, <4>1 DEF Undispatched
      <3> QED
        BY <1>3, <1>12, <3>2
    <2> QED
      BY <2>2, <2>3
  <1>16. ASSUME NEW e, IsChat(e), e.done = FALSE, Alike(z.of, e), e.sse = y.p,
                Answer(r, Events(r, j), e.answer), e = d
         PROVE  DispatchesOn(z, s, d)
    <2>1. Dispatches(z, e, j)
      BY <1>4, <1>13, <1>16 DEF Dispatches, r
    <2>2. e.done \in BOOLEAN /\ ~e.done
      BY <1>16, Zenon
    <2>3. Dispatching(z, e)
      BY <1>16, <2>1, <2>2, Zenon DEF Dispatching
    <2>4. Undispatched(e) < z.to - m
      BY <1>15, <2>1, <2>3
    <2>5. DispatchesOn(z, s, e)
      BY <1>14, <2>3, <2>4 DEF DispatchesOn
    <2> QED
      BY <1>16, <2>5
  <1>17. CASE ~y.emitted
    <2>1. d = t
      BY <1>7, <1>17
    <2>2. Answer(r, Events(r, j), t.answer)
      BY <1>4, <1>9, <1>11, <1>17
    <2>3. DispatchesOn(z, s, d)
      BY <1>9, <1>10, <1>16, <2>1, <2>2
    <2> QED
      BY <2>3 DEF d
  <1>18. CASE y.emitted
    <2> DEFINE k == Events(r, m)
    <2>1. Says(r, j).emitted /\ y.data = Says(r, j).data /\ Events(r, j) = k + 1
      BY <1>11, <1>18
    <2>2. y.data = r.events[k + 1]
      <3>1. r.events[Events(r, j)] = Says(r, j).data
        BY <1>3, <1>4, <1>12, <2>1, EventsAre DEF B
      <3> QED
        BY <2>1, <3>1
    <2>3. NextEvent(r, k, t.answer)
      <3>1. Events(r, j) \in 0 .. Len(r.events) /\ Events(r, m) \in Nat /\ Len(r.events) \in Nat
        BY <1>3, <1>4, <1>12, EventsFit DEF B
      <3>2. k # Len(r.events)
        <4> DEFINE N == Len(r.events)
        <4>1. k + 1 \in 0 .. N /\ k \in Nat /\ N \in Nat
          BY <2>1, <3>1
        <4> HIDE DEF k, N
        <4> QED
          BY <4>1 DEF N
      <3> QED
        BY <1>1, <1>4, <1>9, <3>2 DEF NextEvent
    <2>4. Hearing(r, t, k)
      BY <1>9, <2>3 DEF Hearing
    <2> HIDE DEF k
    <2>5. Listened(r, t, k, Event(t, r.events[k + 1]))
      BY <2>4, EventGood
    <2>6. d = Event(t, r.events[k + 1])
      BY <1>7, <1>18, <2>2
    <2>7. /\ IsChat(d) /\ d.done \in BOOLEAN
          /\ d.done => Refused(d)
          /\ ~d.done => Alike(t, d) /\ d.sse = t.sse /\ Answer(r, k + 1, d.answer)
      BY <2>5, <2>6 DEF Listened
    <2>8. CASE d.done
      <3>1. Dispatching(z, d)
        BY <2>7, <2>8 DEF Dispatching
      <3>2. Undispatched(d) < z.to - m
        BY <1>15, <2>8, <3>1
      <3>3. DispatchesOn(z, s, d)
        BY <1>14, <3>1, <3>2 DEF DispatchesOn
      <3> QED
        BY <3>3 DEF d
    <2>9. CASE ~d.done
      <3>1. Alike(t, d) /\ d.sse = t.sse /\ Answer(r, k + 1, d.answer)
        BY <2>7, <2>9
      <3>2. Alike(z.of, d) /\ d.done = FALSE /\ d.sse = y.p
        BY <1>9, <1>10, <3>1 DEF Alike
      <3>3. Answer(r, Events(r, j), d.answer)
        BY <2>1, <3>1
      <3>4. DispatchesOn(z, s, d)
        BY <1>16, <2>7, <3>2, <3>3
      <3> QED
        BY <3>4 DEF d
    <2> QED
      BY <2>8, <2>9
  <1> QED
    BY <1>11, <1>17, <1>18

(* A turn of a dispatch that has stopped changes nothing.                   *)
LEMMA DispatchStays ==
    ASSUME NEW s, DispatchStops(s)
    PROVE  DispatchTurn(s) = s
  BY DEF DispatchTurn

(* Every event of what the parser holds.                                    *)
LEMMA DispatchGood ==
    ASSUME NEW z, NEW s, Dispatching(z, s), ~s.done
    PROVE  LET t == Turns(Eights(Len(s.sse.hold)), DispatchTurn, DispatchStops, s)
           IN Dispatching(z, t) /\ DispatchStops(t)
  <1> DEFINE x0 == s
             m0 == Len(s.sse.hold)
             n == Eights(m0)
             turn(x) == DispatchTurn(x)
             stop(x) == DispatchStops(x)
             Q(j, x) == Dispatching(z, x) /\ (Undispatched(x) = 0 \/ Undispatched(x) <= j)
             four(x) == turn(turn(turn(turn(x))))
             T(x) == IF stop(x) THEN x ELSE four(four(x))
             at[k \in 0 .. n] == IF k = 0 THEN x0 ELSE T(at[k - 1])
  <1>1. Turns(n, DispatchTurn, DispatchStops, s) = at[n]
    BY DEF Turns
  <1> HIDE DEF four, T, at
  <1>2. Dispatching(z, x0) /\ (Undispatched(x0) = 0 \/ Undispatched(x0) = m0)
    BY DEF Undispatched
  <1>3. m0 \in Nat
    <2>1. PICK m : Dispatches(z, s, m)
      BY DEF Dispatching
    <2>2. m0 = z.to - m /\ z.to \in Nat /\ m \in Nat /\ m <= z.to
      BY <2>1, DispatchHas
    <2> HIDE DEF m0
    <2> QED
      BY <2>2
  <1> HIDE DEF x0
  <1>n. n \in Nat
    BY <1>3, EightsIs
  <1>0. Q(8 * n, x0)
    <2>1. m0 < 8 * n
      BY <1>3, EightsIs
    <2> HIDE DEF n
    <2> QED
      BY <1>2, <1>3, <1>n, <2>1
  <1> HIDE DEF n, m0
  <1>4. ASSUME NEW j \in Int, NEW x, Q(j, x) PROVE Q(j - 1, turn(x))
    <2>1. Undispatched(x) \in Nat /\ (stop(x) <=> Undispatched(x) = 0)
      BY <1>4, UndispatchedIs
    <2>2. CASE stop(x)
      <3>1. turn(x) = x
        BY <2>2, DispatchStays
      <3> HIDE DEF turn
      <3> QED
        BY <1>4, <2>1, <2>2, <3>1
    <2>3. CASE ~stop(x)
      <3> DEFINE y == turn(x)
      <3>1. Dispatching(z, y) /\ Undispatched(y) < Undispatched(x)
        BY <1>4, <2>3, DispatchTurnGood DEF DispatchesOn
      <3> HIDE DEF y
      <3>2. Undispatched(y) \in Nat
        BY <3>1, UndispatchedIs
      <3>4. Undispatched(x) <= j
        BY <1>4, <2>1, <2>3
      <3>5. Undispatched(y) <= j - 1
        BY <2>1, <3>1, <3>2, <3>4
      <3> QED
        BY <3>1, <3>5 DEF y
    <2> QED
      BY <2>2, <2>3
  <1>s. ASSUME NEW j \in Int, NEW x, Q(j, x), stop(x) PROVE Q(j - 8, x)
    <2>1. Undispatched(x) = 0
      BY <1>s, UndispatchedIs
    <2> QED
      BY <1>s, <2>1
  <1> HIDE DEF turn, stop, Q
  <1> USE DEF four
  <1>5. ASSUME NEW j \in Int, NEW x, Q(j, x) PROVE Q(j - 4, four(x))
    <2> DEFINE x1 == turn(x)
               x2 == turn(x1)
               x3 == turn(x2)
               j1 == j - 1
               j2 == j1 - 1
               j3 == j2 - 1
    <2>1. j1 \in Int /\ j2 \in Int /\ j3 \in Int /\ j3 - 1 = j - 4
      OBVIOUS
    <2>2. Q(j1, x1)
      BY <1>4, <1>5
    <2> HIDE DEF x1, j1
    <2>3. Q(j2, x2)
      BY <1>4, <2>1, <2>2
    <2> HIDE DEF x2, j2
    <2>4. Q(j3, x3)
      BY <1>4, <2>1, <2>3
    <2> HIDE DEF x3, j3
    <2>5. Q(j3 - 1, turn(x3))
      BY <1>4, <2>1, <2>4
    <2> QED
      BY <2>1, <2>5 DEF x1, x2, x3
  <1> HIDE DEF four
  <1> USE DEF T
  <1>6. ASSUME NEW j \in Int, NEW x, Q(j, x) PROVE Q(j - 8, T(x))
    <2>1. CASE stop(x)
      BY <1>6, <1>s, <2>1
    <2>2. CASE ~stop(x)
      <3> DEFINE x1 == four(x)
                 j1 == j - 4
      <3>1. j1 \in Int /\ j1 - 4 = j - 8
        OBVIOUS
      <3>2. Q(j1, x1)
        BY <1>5, <1>6
      <3> HIDE DEF x1, j1
      <3>3. Q(j1 - 4, four(x1))
        BY <1>5, <3>1, <3>2
      <3>4. T(x) = four(x1)
        BY <2>2 DEF x1
      <3> QED
        BY <3>1, <3>3, <3>4
    <2> QED
      BY <2>1, <2>2
  <1> HIDE DEF T, x0, n
  <1> USE DEF at
  <1>7. at = [k \in 0 .. n |-> IF k = 0 THEN x0 ELSE T(at[k - 1])]
    <2> DEFINE P(m, f) == f = [k \in 0 .. m |-> IF k = 0 THEN x0 ELSE T(f[k - 1])]
               S == {m \in 0 .. n : \E f : P(m, f)}
    <2>1. 0 \in S
      <3> DEFINE f == [k \in 0 .. 0 |-> x0]
      <3>1. P(0, f)
        OBVIOUS
      <3> HIDE DEF P
      <3>2. \E g : P(0, g)
        BY <3>1
      <3> QED
        BY <1>n, <3>2
    <2>2. ASSUME NEW m \in 1 .. n, m - 1 \in S PROVE m \in S
      <3>1. PICK f : P(m - 1, f)
        BY <2>2
      <3> DEFINE g == [k \in 0 .. m |-> IF k = m THEN T(f[m - 1]) ELSE f[k]]
      <3>2. m \in Nat /\ m # 0 /\ \A k \in 0 .. m : k # m => k \in 0 .. m - 1 /\ (k # 0 => k - 1 \in 0 .. m /\ k - 1 # m)
        BY <1>n
      <3>3. \A k \in 0 .. m - 1 : f[k] = IF k = 0 THEN x0 ELSE T(f[k - 1])
        BY <3>1
      <3>4. ASSUME NEW k \in 0 .. m PROVE g[k] = IF k = 0 THEN x0 ELSE T(g[k - 1])
        <4>1. CASE k = m
          <5>1. m - 1 \in 0 .. m /\ m - 1 # m
            BY <3>2
          <5>2. g[m - 1] = f[m - 1] /\ g[k] = T(f[m - 1])
            BY <4>1, <5>1
          <5> QED
            BY <3>2, <4>1, <5>2
        <4>2. CASE k # m
          <5>1. g[k] = f[k] /\ f[k] = IF k = 0 THEN x0 ELSE T(f[k - 1])
            BY <3>2, <3>3, <4>2
          <5>2. k # 0 => g[k - 1] = f[k - 1]
            BY <3>2, <4>2
          <5> QED
            BY <5>1, <5>2
        <4> QED
          BY <4>1, <4>2
      <3>5. P(m, g)
        <4>1. g = [k \in 0 .. m |-> g[k]]
          OBVIOUS
        <4> HIDE DEF g
        <4> QED
          BY <3>4, <4>1
      <3> HIDE DEF P, g
      <3>6. \E h0 : P(m, h0)
        BY <3>5
      <3> QED
        BY <1>n, <3>6
    <2> HIDE DEF S, P
    <2>3. n \in S
      BY <1>n, <2>1, <2>2, UpTo
    <2>4. \E f : P(n, f)
      BY <2>3 DEF S
    <2> QED
      BY <2>4 DEF P
  <1>8. at[0] = x0 /\ \A k \in 1 .. n : at[k] = T(at[k - 1])
    <2> HIDE DEF at
    <2>1. ASSUME NEW k \in 0 .. n PROVE at[k] = IF k = 0 THEN x0 ELSE T(at[k - 1])
      BY <1>7
    <2> QED
      BY <1>n, <2>1
  <1> HIDE DEF at
  <1> DEFINE S == {k \in 0 .. n : Q(8 * n - 8 * k, at[k])}
  <1>9. 0 \in S
    <2>1. 8 * n - 8 * 0 = 8 * n
      BY <1>n
    <2> QED
      BY <1>n, <1>0, <1>8, <2>1
  <1>10. ASSUME NEW k \in 1 .. n, k - 1 \in S PROVE k \in S
    <2> DEFINE j == 8 * n - 8 * (k - 1)
               x == at[k - 1]
    <2>1. j \in Int /\ j - 8 = 8 * n - 8 * k
      BY <1>n
    <2>2. Q(j, x)
      BY <1>10
    <2> HIDE DEF j, x
    <2>3. Q(j - 8, T(x))
      BY <1>6, <2>1, <2>2
    <2> QED
      BY <1>8, <2>1, <2>3 DEF x
  <1> HIDE DEF S
  <1>11. n \in S
    BY <1>n, <1>9, <1>10, UpTo
  <1>12. Q(0, at[n])
    <2>1. 8 * n - 8 * n = 0
      BY <1>n
    <2> QED
      BY <1>11, <2>1 DEF S
  <1>13. Dispatching(z, at[n]) /\ (Undispatched(at[n]) = 0 \/ Undispatched(at[n]) <= 0)
    BY <1>12 DEF Q
  <1>14. Undispatched(at[n]) \in Nat
    BY <1>13, UndispatchedIs
  <1>15. Undispatched(at[n]) = 0
    BY <1>13, <1>14
  <1>16. DispatchStops(at[n])
    BY <1>13, <1>15, UndispatchedIs
  <1> QED
    BY <1>1, <1>13, <1>16 DEF n, m0

-----------------------------------------------------------------------------
(* What a read of the connection gives a stream.                            *)

(* c has read of the first n tokens of r what it should.                    *)
Conn(r, n, c) == Reads(r, n, c) /\ Len(c.scratch) <= ScratchMax

(* The bytes of the body c has been given.                                  *)
Given(r, n, c) == Pay(r, Place(n, c))

(* What holds of a connection that reads r: the places of what it has given *)
(* on and of what has arrived.                                              *)
LEMMA ConnHas ==
    ASSUME NEW r, NEW n, NEW c, Conn(r, n, c)
    PROVE  /\ r \in Replies /\ n \in 0 .. Len(r.wire) /\ Place(n, c) \in 0 .. n /\ Place(n, c) \in 0 .. Len(r.wire)
           /\ Place(n, c) \in Nat /\ n \in Nat /\ Place(n, c) <= n
           /\ Len(c.net) + Len(c.scratch) = n - Place(n, c)
           /\ Given(r, n, c) \in Nat /\ Given(r, n, c) <= Pay(r, n) /\ Given(r, n, c) \in 0 .. Len(Bytes(r))
           /\ Len(Bytes(r)) \in Nat /\ Within(Bytes(r), Given(r, n, c), Given(r, n, c))
           /\ Within(Bytes(r), 0, Given(r, n, c))
           /\ c.body_started \in BOOLEAN
           /\ c.body_started => c.resp = Top(r).resp
           /\ ~c.body_started => c.resp.status = 0
  <1> DEFINE k == Place(n, c)
             q == Drawn(n, c)
             g == Given(r, n, c)
             B == Bytes(r)
  <1>1. /\ Reads(r, n, c) /\ r \in Replies /\ k \in Nat /\ q \in Nat /\ n \in Nat /\ k <= q /\ q <= n
        /\ Len(c.net) = n - q /\ Len(c.scratch) = q - k
        /\ k \in 0 .. n /\ n \in 0 .. Len(r.wire) /\ k \in 0 .. Len(r.wire)
    BY ReadsHas DEF Conn
  <1>2. Len(c.net) + Len(c.scratch) = n - k
    <2> DEFINE a == Len(c.net)
               b == Len(c.scratch)
    <2>1. a = n - q /\ b = q - k
      BY <1>1
    <2> HIDE DEF a, b, k, q
    <2>2. a + b = n - k
      BY <1>1, <2>1
    <2> QED
      BY <2>2 DEF a, b, k
  <1>3. g \in Nat /\ g <= Pay(r, n) /\ Within(B, 0, g) /\ Within(B, g, Pay(r, n)) /\ Len(B) \in Nat
    <2>1. Len(B) \in Nat
      BY <1>1, SaysFrom
    <2> QED
      BY <1>1, <2>1, PayIs DEF Given
  <1> HIDE DEF g, B
  <1>4. Within(B, g, g) /\ g \in 0 .. Len(B)
    BY <1>3 DEF Within
  <1>5. /\ c.body_started \in BOOLEAN
        /\ c.body_started => c.resp = Top(r).resp
        /\ ~c.body_started => c.resp = Fresh.resp
    BY <1>1 DEF Reads, ReadsTo
  <1>6. Fresh.resp.status = 0
    BY DEF Fresh
  <1> QED
    BY <1>1, <1>2, <1>3, <1>4, <1>5, <1>6 DEF g, B

(* What a read of the body gives, from c on.                                *)
ReadOf(r, n, c, y) ==
    /\ y.ret \in {"data", "end", "block", "error"}
    /\ y.ret # "error" => /\ Conn(r, n, y.c) /\ Within(Bytes(r), Given(r, n, c), Given(r, n, y.c))
                          /\ y.out = Cut(Bytes(r), Given(r, n, c), Given(r, n, y.c))
                          /\ Place(n, c) <= Place(n, y.c)
    /\ y.ret = "data" => Place(n, c) < Place(n, y.c)
    /\ y.ret \in {"data", "end"} => y.c.body_started
    /\ y.ret \in {"end", "block"} => /\ y.out = <<>> /\ Given(r, n, y.c) = Pay(r, n)
                                     /\ Given(r, n, y.c) = Given(r, n, c)

(* A read gives the bytes the wire says next, and blocks or ends only       *)
(* behind the last that has arrived.                                        *)
LEMMA BodyRead ==
    ASSUME NEW r, NEW n, NEW c, Conn(r, n, c), NEW cap \in Nat \ {0}
    PROVE  ReadOf(r, n, c, ReadBody(c, cap))
  <1> DEFINE z == [reply |-> r, sent |-> n, from |-> Place(n, c), closed |-> c.closed, cap |-> cap]
             y == ReadBody(c, cap)
             B == Bytes(r)
             g == Given(r, n, c)
             f == Given(r, n, y.c)
  <1>1. z.reply = r /\ z.sent = n /\ z.from = Place(n, c) /\ z.closed = c.closed /\ z.cap = cap
    OBVIOUS
  <1>a. r \in Replies /\ Place(n, c) \in Nat
    BY ConnHas
  <1>b. Within(B, g, g)
    BY ConnHas
  <1>2. /\ r \in Replies /\ Place(n, c) \in Nat /\ Within(B, g, g) /\ Place(n, c) \in 0 .. Place(n, c)
    BY <1>a, <1>b
  <1> HIDE DEF z
  <1>3. <<>> = Gathered(z, Place(n, c))
    BY <1>1, <1>2, CutEmpty DEF Gathered, Given
  <1>4. Mid(z, c, <<>>)
    BY <1>1, <1>2, <1>3 DEF Mid, Conn
  <1>5. Good(z, y) /\ y.ret # "go"
    BY <1>1, <1>4, ReadBodyGood
  <1> HIDE DEF y
  <1>6. y.ret \in {"data", "end", "block", "error"}
    BY <1>5 DEF Good
  <1>7. ASSUME y.ret = "error" PROVE ReadOf(r, n, c, y)
    <2>1. /\ ~(y.ret # "error") /\ ~(y.ret = "data") /\ ~(y.ret \in {"data", "end"})
          /\ ~(y.ret \in {"end", "block"})
      BY <1>7
    <2> QED
      BY <1>6, <2>1, Zenon DEF ReadOf
  <1>8. ASSUME y.ret # "error" PROVE ReadOf(r, n, c, y)
    <2>1. Mid(z, y.c, y.out)
      BY <1>5, <1>8 DEF Good
    <2>2. Conn(r, n, y.c) /\ Place(n, c) \in 0 .. Place(n, y.c) /\ y.out = Cut(B, g, f)
      BY <1>1, <2>1 DEF Mid, Conn, Gathered, Given
    <2>3. Place(n, y.c) \in Nat
      BY <2>2, ConnHas
    <2>4. Within(B, g, f) /\ (y.out = <<>> <=> f = g)
      BY <1>1, <2>1, MidHas DEF Given
    <2>5. Place(n, c) <= Place(n, y.c)
      BY <2>2, <2>3
    <2>6. y.ret = "data" => Place(n, c) < Place(n, y.c)
      <3> SUFFICES ASSUME y.ret = "data" PROVE Place(n, c) < Place(n, y.c)
        OBVIOUS
      <3>1. y.out # <<>>
        BY <1>5 DEF Good
      <3>2. f # g
        BY <2>4, <3>1
      <3>3. Place(n, c) # Place(n, y.c)
        BY <3>2 DEF Given
      <3> QED
        BY <1>2, <2>3, <2>5, <3>3
    <2>7. y.ret \in {"data", "end"} => y.c.body_started
      BY <1>5 DEF Good
    <2>8. y.ret \in {"end", "block"} => y.out = <<>> /\ f = Pay(r, n)
      BY <1>1, <1>5 DEF Good, Given
    <2>a. y.ret \in {"end", "block"} => y.out = <<>> /\ f = Pay(r, n) /\ f = g
      BY <2>4, <2>8
    <2>b. Given(r, n, y.c) = f /\ Given(r, n, c) = g /\ Bytes(r) = B
      OBVIOUS
    <2> HIDE DEF f, g, B
    <2> QED
      BY <1>6, <2>2, <2>4, <2>5, <2>6, <2>7, <2>a, <2>b DEF ReadOf
  <1>9. ReadOf(r, n, c, y)
    <2> HIDE DEF y, f
    <2> QED
      BY <1>7, <1>8
  <1> QED
    BY <1>9 DEF y

(* What a dispatch makes of a stream: z.of its state, z.from and z.to as in *)
(* a feed.                                                                  *)
Feeding(z, s) ==
    /\ IsFeed(z) /\ Streams(z.reply) /\ IsChat(s) /\ s.done = FALSE
    /\ s.sse = Says(z.reply, z.from).p
    /\ Answer(z.reply, Events(z.reply, z.from), s.answer) /\ ~s.answer.saw_done

DispatchedTo(z, s, t) ==
    /\ IsChat(t) /\ t.done \in BOOLEAN
    /\ t.done => Refused(t)
    /\ ~t.done => /\ Alike(s, t)
                  /\ \E k \in 0 .. Events(z.reply, z.to) :
                        /\ Answer(z.reply, k, t.answer)
                        /\ ~t.answer.saw_done => /\ k = Events(z.reply, z.to)
                                                 /\ t.sse = Says(z.reply, z.to).p

(* The bytes of a feed, dispatched.                                         *)
LEMMA FeedGood ==
    ASSUME NEW z, NEW s, Feeding(z, s)
    PROVE  DispatchedTo(z, s, Dispatched(s, FedBytes(z)))
  <1> DEFINE r == z.reply
             B == Bytes(r)
             f == z.from
             to == z.to
             bytes == FedBytes(z)
             q == Says(r, f).p
             w == s.sse.hold \o bytes
             y == [s.sse EXCEPT !.hold = w]
             t == [s EXCEPT !.sse = y]
             d == Dispatched(s, bytes)
             zz == [reply |-> r, to |-> to, of |-> s]
  <1>1. /\ IsFeed(z) /\ r \in Replies /\ Within(B, f, to) /\ Streams(r) /\ IsChat(s) /\ s.done = FALSE
        /\ s.sse = q /\ Answer(r, Events(r, f), s.answer) /\ ~s.answer.saw_done
    BY DEF Feeding, IsFeed
  <1>2. bytes = Cut(B, f, to)
    BY DEF FedBytes
  <1>3. /\ f \in Nat /\ to \in Nat /\ f <= to /\ Len(B) \in Nat /\ to <= Len(B) /\ (bytes = <<>> <=> f = to)
        /\ IsSeq(bytes)
    <2>1. Len(B) \in Nat
      BY <1>1, SaysFrom
    <2>2. f \in Nat /\ to \in Nat /\ f <= to /\ to <= Len(B) /\ IsSeq(bytes)
      BY <1>1, <1>2, CutIs
    <2>3. bytes = <<>> <=> f = to
      BY <1>1, <1>2, CutEmpty
    <2> QED
      BY <2>1, <2>2, <2>3
  <1>4. f \in 0 .. Len(B) /\ to \in 0 .. Len(B)
    BY <1>3
  <1>5. Bare(q)
    <2>1. IsSaid(Says(r, f))
      BY <1>1, <1>4, SaysIs
    <2> QED
      BY <2>1 DEF IsSaid
  <1>6. Events(r, to) \in Nat /\ Events(r, f) \in 0 .. Events(r, to)
    <2>1. f \in 0 .. to /\ to \in 0 .. to
      BY <1>3
    <2>2. Events(r, to) \in Nat /\ Events(r, f) \in Nat /\ Events(r, f) <= Events(r, to)
      BY <1>1, <1>4, <2>1, EventsGrow
    <2> QED
      BY <2>2
  <1>7. ~s.done /\ s.done \in BOOLEAN
    BY <1>1, Zenon
  <1>8. CASE f = to
    <2>1. d = s
      BY <1>3, <1>8 DEF Dispatched
    <2>2. Alike(s, s)
      BY DEF Alike
    <2>3. Answer(r, Events(r, to), s.answer) /\ s.sse = Says(r, to).p
      BY <1>1, <1>8
    <2>4. Events(r, to) \in 0 .. Events(r, to)
      BY <1>6
    <2>5. DispatchedTo(z, s, s)
      BY <1>1, <1>7, <2>2, <2>3, <2>4, Zenon DEF DispatchedTo
    <2> HIDE DEF d
    <2>6. DispatchedTo(z, s, d)
      BY <2>1, <2>5
    <2> QED
      BY <2>6 DEF d, bytes
  <1>9. CASE f # to
    <2>1. d = Turns(Eights(Len(t.sse.hold)), DispatchTurn, DispatchStops, t)
      BY <1>3, <1>9 DEF Dispatched
    <2>2. w = bytes
      <3>1. s.sse.hold = <<>>
        BY <1>1, <1>5 DEF Bare
      <3> HIDE DEF bytes
      <3>2. bytes \in Seq(ToSet(bytes))
        BY <1>3, SeqHas
      <3> QED
        BY <3>1, <3>2
    <2>3. y = Holding(q, bytes)
      BY <1>1, <2>2 DEF Holding
    <2>4. t = [s EXCEPT !.sse = y]
      OBVIOUS
    <2> HIDE DEF t, y, w
    <2>5. IsChat(t) /\ t.sse = y /\ t.answer = s.answer /\ Alike(s, t) /\ t.done = FALSE
      BY <1>1, <2>4, Set_sse DEF Alike
    <2>6. zz.reply = r /\ zz.to = to /\ zz.of = s
      OBVIOUS
    <2> HIDE DEF zz
    <2>7. Dispatches(zz, t, f)
      <3>1. Piece(zz, f) = [reply |-> r, from |-> f, to |-> to]
        BY <2>6 DEF Piece
      <3>2. IsFeed(Piece(zz, f))
        BY <1>1, <3>1 DEF IsFeed
      <3>3. y = Rests(Piece(zz, f), f)
        BY <1>2, <2>3, <3>1 DEF Rests
      <3> QED
        BY <1>1, <2>5, <2>6, <3>2, <3>3 DEF Dispatches
    <2>8. t.done \in BOOLEAN /\ ~t.done
      BY <2>5, Zenon
    <2>9. Dispatching(zz, t) /\ ~t.done
      BY <2>5, <2>7, <2>8, Zenon DEF Dispatching
    <2>10. Dispatching(zz, d) /\ DispatchStops(d)
      <3> HIDE DEF d
      <3>1. LET e == Turns(Eights(Len(t.sse.hold)), DispatchTurn, DispatchStops, t)
            IN Dispatching(zz, e) /\ DispatchStops(e)
        BY <2>9, DispatchGood
      <3> QED
        BY <2>1, <3>1
    <2> HIDE DEF d
    <2>11. IsChat(d) /\ d.done \in BOOLEAN /\ (d.done => Refused(d))
      BY <2>10 DEF Dispatching
    <2>12. ASSUME ~d.done
           PROVE  /\ Alike(s, d)
                  /\ \E k \in 0 .. Events(r, to) :
                        /\ Answer(r, k, d.answer)
                        /\ ~d.answer.saw_done => k = Events(r, to) /\ d.sse = Says(r, to).p
      <3>1. PICK m : Dispatches(zz, d, m)
        BY <2>10, <2>12 DEF Dispatching
      <3>2. /\ m \in Nat /\ m <= to /\ m \in 0 .. Len(B) /\ Bare(Says(r, m).p)
            /\ (DispatchStops(d) <=> d.answer.saw_done \/ m = to)
        BY <2>6, <3>1, DispatchHas
      <3>3. Alike(s, d) /\ Answer(r, Events(r, m), d.answer) /\ d.sse = Rests(Piece(zz, m), m)
        BY <2>6, <3>1 DEF Dispatches
      <3>4. Events(r, m) \in 0 .. Events(r, to)
        <4>1. m \in 0 .. to
          BY <1>3, <3>2
        <4>2. Events(r, m) \in Nat /\ Events(r, m) <= Events(r, to)
          BY <1>1, <1>4, <4>1, EventsGrow
        <4> QED
          BY <1>6, <4>2
      <3>5. ASSUME ~d.answer.saw_done
            PROVE  Events(r, m) = Events(r, to) /\ d.sse = Says(r, to).p
        <4>1. m = to
          BY <2>10, <3>2, <3>5
        <4>2. Piece(zz, m).to = to /\ Piece(zz, m).reply = r
          BY <2>6 DEF Piece
        <4>3. d.sse = Holding(Says(r, to).p, Cut(B, to, to))
          BY <3>3, <4>1, <4>2 DEF Rests
        <4>4. Cut(B, to, to) = <<>>
          <5>1. Within(B, to, to)
            BY <1>1, <1>3 DEF Within
          <5> QED
            BY <5>1, CutEmpty
        <4>5. Holding(Says(r, to).p, <<>>) = Says(r, to).p
          BY <3>2, <4>1, HoldingIs
        <4> QED
          BY <4>1, <4>3, <4>4, <4>5
      <3> QED
        BY <3>3, <3>4, <3>5
    <2>13. DispatchedTo(z, s, d)
      BY <2>11, <2>12 DEF DispatchedTo
    <2> QED
      BY <2>13 DEF d, bytes
  <1> QED
    BY <1>8, <1>9

-----------------------------------------------------------------------------
(* nm_openai_chat_step: a step ends the stream, or reads all there is.      *)

(* The stream ended well: k events are told, all there are up to [DONE].    *)
Whole(r, n, k, a) ==
    /\ k \in 0 .. Arrived(r, n) /\ Answer(r, k, a)
    /\ a.saw_done \/ (a.finished /\ k = Arrived(r, n))

Concluded(r, n, s) ==
    \E k : \E a : /\ Whole(r, n, k, a)
                  /\ s.answer.log = a.log \o DetailsTold(a.details)
                  /\ s.answer.delivered = a.slots

(* The stream is over.                                                      *)
IsOver(r, n, s) ==
    /\ IsChat(s) /\ s.done = TRUE /\ s.conn = Fresh /\ s.result # "go"
    /\ s.result = "ok" => Concluded(r, n, s)

(* The answer is that of the events there are, or of those up to [DONE].    *)
Ready(r, n, s) ==
    /\ IsChat(s)
    /\ \E k \in 0 .. Arrived(r, n) : /\ Answer(r, k, s.answer)
                                     /\ s.answer.saw_done \/ k = Arrived(r, n)

(* A stream that does not end well is over whatever it was told.            *)
LEMMA OverOther ==
    ASSUME NEW r, NEW n, NEW s, IsChat(s), NEW why, why # "ok", why # "go"
    PROVE  IsOver(r, n, Ends(s, why))
  <1> DEFINE t == Ends(s, why)
  <1>1. EndedBy(s, why, t)
    BY EndsBy
  <1> HIDE DEF t
  <1>2. IsOver(r, n, t)
    BY <1>1 DEF EndedBy, IsOver
  <1> QED
    BY <1>2 DEF t

(* The verdict: a stream ends well only with [DONE], or with a              *)
(* finish_reason and no event outstanding.                                  *)
LEMMA VerdictGood ==
    ASSUME NEW r, NEW n, NEW s, Ready(r, n, s)
    PROVE  IsOver(r, n, Verdict(s))
  <1> DEFINE a == s.answer
             x1 == a.log \o DetailsTold(a.details)
             a1 == [a EXCEPT !.log = x1]
             s1 == [s EXCEPT !.answer = a1]
             x2 == a.slots
             a2 == [s1.answer EXCEPT !.delivered = x2]
             s2 == [s1 EXCEPT !.answer = a2]
             nil == <<>>
             a3 == [s2.answer EXCEPT !.slots = nil]
             s3 == [s2 EXCEPT !.answer = a3]
             why == IF a.saw_done \/ a.finished THEN "ok" ELSE "transport"
             t == Ends(s3, why)
  <1>1. PICK k \in 0 .. Arrived(r, n) : Answer(r, k, a) /\ (a.saw_done \/ k = Arrived(r, n))
    BY DEF Ready
  <1>2. IsChat(s) /\ IsAnswer(a)
    BY <1>1 DEF Ready, Answer
  <1>3. Verdict(s) = t
    <2>1. Verdict(s) = Ends(s3, why)
      BY DEF Verdict
    <2> QED
      BY <2>1
  <1>4. a1 = [a EXCEPT !.log = x1]
    OBVIOUS
  <1>5. s1 = [s EXCEPT !.answer = a1]
    OBVIOUS
  <1>6. a2 = [s1.answer EXCEPT !.delivered = x2]
    OBVIOUS
  <1>7. s2 = [s1 EXCEPT !.answer = a2]
    OBVIOUS
  <1>8. a3 = [s2.answer EXCEPT !.slots = nil]
    OBVIOUS
  <1>9. s3 = [s2 EXCEPT !.answer = a3]
    OBVIOUS
  <1>10. t = Ends(s3, why)
    OBVIOUS
  <1>11. why = "ok" => a.saw_done \/ a.finished
    OBVIOUS
  <1>a. why # "go"
    OBVIOUS
  <1>12. x1 = a.log \o DetailsTold(a.details) /\ x2 = a.slots
    OBVIOUS
  <1> HIDE DEF t, s3, a3, s2, a2, s1, a1, x1, x2, nil, why, a
  <1>13. IsAnswer(a1) /\ a1.log = x1
    BY <1>2, <1>4 DEF IsAnswer
  <1>14. IsChat(s1) /\ s1.answer = a1
    BY <1>2, <1>5, Set_answer
  <1>15. a2 = [a1 EXCEPT !.delivered = x2]
    BY <1>6, <1>14
  <1>16. IsAnswer(a2) /\ a2.delivered = x2
    BY <1>13, <1>15 DEF IsAnswer
  <1>17. a2.log = x1
    BY <1>13, <1>15 DEF IsAnswer
  <1>18. IsChat(s2) /\ s2.answer = a2
    BY <1>7, <1>14, Set_answer
  <1>19. a3 = [a2 EXCEPT !.slots = nil]
    BY <1>8, <1>18
  <1>20. a3.log = x1 /\ a3.delivered = x2
    BY <1>16, <1>17, <1>19 DEF IsAnswer
  <1>21. IsChat(s3) /\ s3.answer = a3
    BY <1>9, <1>18, Set_answer
  <1>22. EndedBy(s3, why, t)
    BY <1>10, <1>21, EndsIs
  <1>23. IsChat(t) /\ t.result = why /\ t.done = TRUE /\ t.conn = Fresh /\ t.answer = a3
    BY <1>21, <1>22 DEF EndedBy
  <1>24. why = "ok" => Concluded(r, n, t)
    <2> SUFFICES ASSUME why = "ok" PROVE Concluded(r, n, t)
      OBVIOUS
    <2>1. a.saw_done \/ (a.finished /\ k = Arrived(r, n))
      BY <1>1, <1>11
    <2>2. Whole(r, n, k, a)
      BY <1>1, <2>1 DEF Whole
    <2>3. t.answer.log = a.log \o DetailsTold(a.details) /\ t.answer.delivered = a.slots
      BY <1>12, <1>20, <1>23
    <2> QED
      BY <2>2, <2>3 DEF Concluded
  <1>25. IsOver(r, n, t)
    BY <1>23, <1>24, <1>a DEF IsOver
  <1> QED
    BY <1>3, <1>25

-----------------------------------------------------------------------------
(* The four things a stream that is not over can be at.                     *)
Live(r, n, s) ==
    /\ IsChat(s) /\ s.done = FALSE /\ Conn(r, n, s.conn) /\ s.tail \in Nat \cup {-1}
    /\ s.error_mode \in {"no", "auth", "http"} /\ s.head_checked \in BOOLEAN

(* The head is not here yet.                                                *)
Opening(r, n, s) ==
    /\ Live(r, n, s) /\ ~s.head_checked /\ s.error_mode = "no" /\ s.preread = <<>>
    /\ s.sse = NewParser /\ s.answer = NoAnswer /\ Given(r, n, s.conn) = 0

(* The events of a stream.                                                  *)
Listening(r, n, s) ==
    /\ Live(r, n, s) /\ s.head_checked /\ s.error_mode = "no" /\ s.preread = <<>>
    /\ Streams(r) /\ s.sse = Says(r, Given(r, n, s.conn)).p
    /\ Answer(r, Events(r, Given(r, n, s.conn)), s.answer) /\ ~s.answer.saw_done

(* [DONE] is dispatched, the framing's tail is waited for.                  *)
Tailing(r, n, s) ==
    /\ Live(r, n, s) /\ s.head_checked /\ s.error_mode = "no" /\ s.answer.saw_done
    /\ Streams(r) /\ Ready(r, n, s)

(* The body of an error.                                                    *)
Failing(r, n, s) ==
    /\ Live(r, n, s) /\ s.error_mode # "no" /\ s.answer = NoAnswer /\ ~Streams(r)

Mode(r, n, s) == \/ Opening(r, n, s) \/ Listening(r, n, s) \/ Tailing(r, n, s) \/ Failing(r, n, s)

(* What a step leaves: the stream over, or waiting for more of the reply.   *)
Waiting(r, n, s) ==
    s.result = "pending" /\ Mode(r, n, s) /\ Given(r, n, s.conn) = Pay(r, n)

Stepped(r, n, s) == IsOver(r, n, s) \/ Waiting(r, n, s)

(* Each of them is a stream that is not over.                               *)
LEMMA ModeHas ==
    ASSUME NEW r, NEW n, NEW s, Mode(r, n, s)
    PROVE  Live(r, n, s)
  BY DEF Mode, Opening, Listening, Tailing, Failing

(* What is left to read of a stream is what its connection holds.           *)
LEMMA UnreadIs ==
    ASSUME NEW r, NEW n, NEW s, Live(r, n, s)
    PROVE  /\ Unread(s) = n - Place(n, s.conn) /\ Unread(s) \in Nat
           /\ n \in Nat /\ Place(n, s.conn) \in Nat
  <1> DEFINE k == Place(n, s.conn)
             u == Unread(s)
  <1>1. Conn(r, n, s.conn)
    BY DEF Live
  <1>2. k \in Nat /\ n \in Nat /\ k <= n
    BY <1>1, ConnHas
  <1>3. Len(s.conn.net) + Len(s.conn.scratch) = n - k
    BY <1>1, ConnHas
  <1>4. u = n - k
    BY <1>3 DEF Unread
  <1> HIDE DEF k, u
  <1>5. u \in Nat
    BY <1>2, <1>4
  <1> QED
    BY <1>2, <1>4, <1>5 DEF k, u

(* Of a stream that is over nothing is left to read.                        *)
LEMMA OverUnread ==
    ASSUME NEW r, NEW n, NEW s, IsOver(r, n, s)
    PROVE  Unread(s) = 0
  <1>1. s.conn = Fresh
    BY DEF IsOver
  <1> DEFINE nil == <<>>
  <1>2. s.conn.net = nil /\ s.conn.scratch = nil
    BY <1>1 DEF Fresh
  <1>3. Len(nil) = 0
    OBVIOUS
  <1> HIDE DEF nil
  <1> QED
    BY <1>2, <1>3 DEF Unread

(* The connection of a stream is replaced.                                  *)
ConnSet(r, n, s, c, t) ==
    /\ Live(r, n, t) /\ t.conn = c /\ t.sse = s.sse /\ t.preread = s.preread
    /\ t.head_checked = s.head_checked /\ t.error_mode = s.error_mode /\ t.error_len = s.error_len
    /\ t.done = s.done /\ t.tail = s.tail /\ t.answer = s.answer /\ t.result = s.result

(* Only the connection changes.                                             *)
LEMMA ConnSetIs ==
    ASSUME NEW r, NEW n, NEW s, Live(r, n, s), NEW c, Conn(r, n, c), NEW t, t = [s EXCEPT !.conn = c]
    PROVE  ConnSet(r, n, s, c, t)
  <1>1. /\ IsChat(t) /\ t.conn = c
        /\ t.sse = s.sse /\ t.preread = s.preread /\ t.head_checked = s.head_checked
        /\ t.error_mode = s.error_mode /\ t.error_len = s.error_len /\ t.done = s.done
        /\ t.tail = s.tail /\ t.answer = s.answer /\ t.result = s.result
    BY Set_conn DEF Live
  <1>2. /\ t.done = FALSE /\ Conn(r, n, t.conn) /\ t.tail \in Nat \cup {-1}
        /\ t.error_mode \in {"no", "auth", "http"} /\ t.head_checked \in BOOLEAN
    BY <1>1 DEF Live
  <1>3. Live(r, n, t)
    BY <1>1, <1>2 DEF Live
  <1> QED
    BY <1>1, <1>3 DEF ConnSet

(* The stream says what its step returns.                                   *)
ResultSet(r, n, s, y, t) ==
    /\ Live(r, n, t) /\ t.result = y /\ t.conn = s.conn /\ t.sse = s.sse /\ t.preread = s.preread
    /\ t.head_checked = s.head_checked /\ t.error_mode = s.error_mode /\ t.error_len = s.error_len
    /\ t.done = s.done /\ t.tail = s.tail /\ t.answer = s.answer

(* Only what the step returns changes.                                      *)
LEMMA ResultSetIs ==
    ASSUME NEW r, NEW n, NEW s, Live(r, n, s), NEW y
    PROVE  ResultSet(r, n, s, y, Returns(s, y))
  <1> DEFINE t == Returns(s, y)
  <1>0. t = Returns(s, y)
    OBVIOUS
  <1> HIDE DEF t
  <1>1. /\ IsChat(t) /\ t.result = y
        /\ t.conn = s.conn /\ t.sse = s.sse /\ t.preread = s.preread
        /\ t.head_checked = s.head_checked /\ t.error_mode = s.error_mode /\ t.error_len = s.error_len
        /\ t.done = s.done /\ t.tail = s.tail /\ t.answer = s.answer
    BY <1>0, ReturnsIs DEF Live
  <1>2. /\ t.done = FALSE /\ Conn(r, n, t.conn) /\ t.tail \in Nat \cup {-1}
        /\ t.error_mode \in {"no", "auth", "http"} /\ t.head_checked \in BOOLEAN
    BY <1>1 DEF Live
  <1>3. Live(r, n, t)
    BY <1>1, <1>2 DEF Live
  <1>4. ResultSet(r, n, s, y, t)
    BY <1>1, <1>3 DEF ResultSet
  <1> QED
    BY <1>4 DEF t

(* Turns of a loop of reads that may be left.                               *)
Unturned(s) == IF s.result # "go" THEN 0 ELSE Unread(s) + 1

(* They are a number, 0 when the loop has stopped.                          *)
LEMMA UnturnedIs ==
    ASSUME NEW r, NEW n, NEW s, s.result = "go" => Live(r, n, s)
    PROVE  Unturned(s) \in Nat /\ (s.result # "go" <=> Unturned(s) = 0)
  <1>1. CASE s.result # "go"
    BY <1>1 DEF Unturned
  <1>2. CASE s.result = "go"
    <2>1. Unread(s) \in Nat
      BY <1>2, UnreadIs
    <2>2. Unturned(s) = Unread(s) + 1
      BY <1>2 DEF Unturned
    <2> QED
      BY <1>2, <2>1, <2>2
  <1> QED
    BY <1>1, <1>2

(* t is s after a turn that has read.                                       *)
LEMMA UnturnedLess ==
    ASSUME NEW r, NEW n, NEW s, NEW t, Live(r, n, s), s.result = "go",
           t.result = "go" => Live(r, n, t) /\ Place(n, s.conn) < Place(n, t.conn)
    PROVE  Unturned(t) < Unturned(s)
  <1>1. Unread(s) = n - Place(n, s.conn) /\ Unread(s) \in Nat /\ n \in Nat /\ Place(n, s.conn) \in Nat
    BY UnreadIs
  <1>2. Unturned(s) = Unread(s) + 1
    BY DEF Unturned
  <1>3. CASE t.result # "go"
    <2>1. Unturned(t) = 0
      BY <1>3 DEF Unturned
    <2> QED
      BY <1>1, <1>2, <2>1
  <1>4. CASE t.result = "go"
    <2>1. Unread(t) = n - Place(n, t.conn) /\ Place(n, t.conn) \in Nat
      BY <1>4, UnreadIs
    <2>2. Unturned(t) = Unread(t) + 1
      BY <1>4 DEF Unturned
    <2>3. Place(n, s.conn) < Place(n, t.conn)
      BY <1>4
    <2> QED
      BY <1>1, <1>2, <2>1, <2>2, <2>3
  <1> QED
    BY <1>3, <1>4

-----------------------------------------------------------------------------
(* What the turns of tail_step keep.                                        *)
Draining(r, n, s) == /\ s.result = "go" => Tailing(r, n, s)
                     /\ s.result # "go" => Stepped(r, n, s)

Drained(r, n, s, t) == Draining(r, n, t) /\ Unturned(t) < Unturned(s)

(* A tail that would block waits, or is over when its budget is.            *)
LEMMA TailWaitsGood ==
    ASSUME NEW r, NEW n, NEW s, Tailing(r, n, s), Given(r, n, s.conn) = Pay(r, n)
    PROVE  Stepped(r, n, TailWaits(s))
  <1>1. Live(r, n, s) /\ Ready(r, n, s) /\ s.tail \in Nat \cup {-1} /\ IsChat(s)
    BY DEF Tailing, Live
  <1>2. ASSUME NEW t, Tailing(r, n, t), Given(r, n, t.conn) = Pay(r, n)
        PROVE  Stepped(r, n, Returns(t, "pending"))
    <2> DEFINE why == "pending"
               u == Returns(t, why)
    <2>1. Live(r, n, t)
      BY <1>2 DEF Tailing
    <2> HIDE DEF why
    <2>2. ResultSet(r, n, t, why, u)
      BY <2>1, ResultSetIs
    <2> HIDE DEF u
    <2>3. Ready(r, n, u)
      <3>1. u.answer = t.answer /\ IsChat(u)
        BY <2>2 DEF ResultSet, Live
      <3>2. Ready(r, n, t)
        BY <1>2 DEF Tailing
      <3> QED
        BY <3>1, <3>2 DEF Ready
    <2>4. Tailing(r, n, u) /\ Given(r, n, u.conn) = Pay(r, n) /\ u.result = "pending"
      BY <1>2, <2>2, <2>3 DEF Tailing, ResultSet, why
    <2>5. Stepped(r, n, u)
      BY <2>4 DEF Stepped, Waiting, Mode
    <2> QED
      BY <2>5 DEF u, why
  <1>3. CASE s.tail = -1
    <2> DEFINE t == [s EXCEPT !.tail = Budget]
    <2>1. TailWaits(s) = Returns(t, "pending")
      BY <1>3 DEF TailWaits
    <2>2. t = [s EXCEPT !.tail = Budget]
      OBVIOUS
    <2> HIDE DEF t
    <2>3. /\ IsChat(t) /\ t.tail = Budget
          /\ t.conn = s.conn /\ t.sse = s.sse /\ t.preread = s.preread
          /\ t.head_checked = s.head_checked /\ t.error_mode = s.error_mode /\ t.error_len = s.error_len
          /\ t.done = s.done /\ t.answer = s.answer /\ t.result = s.result
      BY <1>1, <2>2, Set_tail
    <2>4. Budget \in Nat
      BY BuffersAssumption
    <2>5. Live(r, n, t)
      BY <1>1, <2>3, <2>4 DEF Live
    <2>6. Ready(r, n, t)
      BY <1>1, <2>3 DEF Ready
    <2>7. Tailing(r, n, t) /\ Given(r, n, t.conn) = Pay(r, n)
      BY <2>3, <2>5, <2>6 DEF Tailing
    <2> QED
      BY <1>2, <2>1, <2>7
  <1>4. CASE s.tail \in Nat \ {0}
    <2>1. TailWaits(s) = Returns(s, "pending")
      BY <1>4 DEF TailWaits
    <2> QED
      BY <1>2, <2>1
  <1>5. CASE s.tail = 0
    <2>1. TailWaits(s) = Verdict(s)
      BY <1>5 DEF TailWaits
    <2>2. IsOver(r, n, Verdict(s))
      BY <1>1, VerdictGood
    <2> QED
      BY <2>1, <2>2 DEF Stepped
  <1> QED
    BY <1>1, <1>3, <1>4, <1>5

(* A stream a step leaves behind stops the loop.                            *)
LEMMA SteppedStops ==
    ASSUME NEW r, NEW n, NEW s, Stepped(r, n, s)
    PROVE  s.result # "go" /\ Draining(r, n, s)
  <1>1. s.result # "go"
    BY DEF Stepped, IsOver, Waiting
  <1> QED
    BY <1>1 DEF Draining

(* A turn of the tail reads on, waits or ends the stream well.              *)
LEMMA TailTurnGood ==
    ASSUME NEW r, NEW n, NEW s, Tailing(r, n, s), s.result = "go"
    PROVE  Drained(r, n, s, TailTurn(s))
  <1> DEFINE y == ReadBody(s.conn, SinkMax)
             t == [s EXCEPT !.conn = y.c]
             d == TailTurn(s)
  <1>1. Live(r, n, s) /\ Ready(r, n, s) /\ Conn(r, n, s.conn)
    BY DEF Tailing, Live
  <1>2. ReadOf(r, n, s.conn, y)
    BY <1>1, BuffersAssumption, BodyRead
  <1>3. d = CASE y.ret = "data" -> t
              [] y.ret \in {"end", "error"} -> Verdict(t)
              [] y.ret = "block" -> TailWaits(t)
    BY DEF TailTurn
  <1>4. t = [s EXCEPT !.conn = y.c]
    OBVIOUS
  <1> HIDE DEF y, t, d
  <1>5. IsChat(t) /\ t.answer = s.answer
    BY <1>1, <1>4, Set_conn DEF Live
  <1>6. Ready(r, n, t)
    BY <1>1, <1>5 DEF Ready
  <1>7. y.ret # "error" => ConnSet(r, n, s, y.c, t)
    <2> SUFFICES ASSUME y.ret # "error" PROVE ConnSet(r, n, s, y.c, t)
      OBVIOUS
    <2>1. Conn(r, n, y.c)
      BY <1>2 DEF ReadOf
    <2> QED
      BY <1>1, <1>4, <2>1, ConnSetIs
  <1>8. y.ret # "error" => Tailing(r, n, t) /\ t.conn = y.c /\ t.result = "go"
    BY <1>6, <1>7 DEF Tailing, ConnSet
  <1>9. ASSUME Stepped(r, n, d) PROVE Drained(r, n, s, d)
    <2>1. d.result # "go" /\ Draining(r, n, d)
      BY <1>9, SteppedStops
    <2>2. Unturned(d) < Unturned(s)
      BY <1>1, <2>1, UnturnedLess
    <2> QED
      BY <2>1, <2>2 DEF Drained
  <1>10. CASE y.ret = "data"
    <2>1. d = t
      BY <1>3, <1>10
    <2>2. Tailing(r, n, t) /\ t.conn = y.c /\ t.result = "go" /\ Live(r, n, t)
      BY <1>8, <1>10 DEF Tailing
    <2>3. Place(n, s.conn) < Place(n, t.conn)
      BY <1>2, <1>10, <2>2 DEF ReadOf
    <2>4. Unturned(t) < Unturned(s)
      BY <1>1, <2>2, <2>3, UnturnedLess
    <2>5. Draining(r, n, t)
      BY <2>2 DEF Draining
    <2>6. Drained(r, n, s, t)
      BY <2>4, <2>5 DEF Drained
    <2> QED
      BY <2>1, <2>6 DEF d
  <1>11. CASE y.ret \in {"end", "error"}
    <2>1. d = Verdict(t)
      BY <1>3, <1>11
    <2>2. IsOver(r, n, Verdict(t))
      BY <1>6, VerdictGood
    <2>3. Stepped(r, n, d)
      BY <2>1, <2>2 DEF Stepped
    <2> QED
      BY <1>9, <2>3 DEF d
  <1>12. CASE y.ret = "block"
    <2>1. d = TailWaits(t)
      BY <1>3, <1>12
    <2>2. Tailing(r, n, t) /\ t.conn = y.c
      BY <1>8, <1>12
    <2>3. Given(r, n, t.conn) = Pay(r, n)
      BY <1>2, <1>12, <2>2 DEF ReadOf
    <2>4. Stepped(r, n, d)
      BY <2>1, <2>2, <2>3, TailWaitsGood
    <2> QED
      BY <1>9, <2>4 DEF d
  <1>13. y.ret \in {"data", "end", "block", "error"}
    BY <1>2 DEF ReadOf
  <1> QED
    BY <1>10, <1>11, <1>12, <1>13

(* The turns that are left of the tail are a number.                        *)
LEMMA TailUnturned ==
    ASSUME NEW r, NEW n, NEW s, Draining(r, n, s)
    PROVE  Unturned(s) \in Nat /\ (s.result # "go" <=> Unturned(s) = 0)
  <1>1. s.result = "go" => Live(r, n, s)
    BY DEF Draining, Tailing
  <1> QED
    BY <1>1, UnturnedIs

(* They get fewer with each.                                                *)
LEMMA TailTurned ==
    ASSUME NEW r, NEW n, NEW s, Draining(r, n, s), s.result = "go"
    PROVE  Draining(r, n, TailTurn(s)) /\ Unturned(TailTurn(s)) < Unturned(s)
  <1>1. Tailing(r, n, s)
    BY DEF Draining
  <1>2. Drained(r, n, s, TailTurn(s))
    BY <1>1, TailTurnGood
  <1> QED
    BY <1>2 DEF Drained

(* The loop reads till it would block or the stream is over.                *)
LEMMA TailLoop ==
    ASSUME NEW r, NEW n, NEW s, Draining(r, n, s), Unread(s) \in Nat
    PROVE  Stepped(r, n, Loop(TailTurn, s))
  <1> DEFINE x0 == s
             m0 == Unread(s)
             e == Eights(m0)
             turn(x) == TailTurn(x)
             stop(x) == x.result # "go"
             Q(j, x) == Draining(r, n, x) /\ (Unturned(x) = 0 \/ Unturned(x) <= j)
             four(x) == turn(turn(turn(turn(x))))
             T(x) == IF stop(x) THEN x ELSE four(four(x))
             at[k \in 0 .. e] == IF k = 0 THEN x0 ELSE T(at[k - 1])
  <1>1. Loop(TailTurn, s) = at[e]
    BY DEF Turns, Loop
  <1> HIDE DEF four, T, at
  <1>2. /\ Draining(r, n, x0) /\ m0 \in Nat
        /\ Unturned(x0) = 0 \/ Unturned(x0) = m0 + 1
    BY DEF Unturned
  <1> HIDE DEF x0
  <1>n. e \in Nat
    BY <1>2, EightsIs
  <1>0. Q(8 * e, x0)
    <2>1. m0 < 8 * e
      BY <1>2, EightsIs
    <2> HIDE DEF e, m0
    <2>2. m0 + 1 <= 8 * e
      BY <1>2, <1>n, <2>1
    <2> QED
      BY <1>2, <1>n, <2>2
  <1> HIDE DEF e, m0
  <1>4. ASSUME NEW j \in Int, NEW x, Q(j, x) PROVE Q(j - 1, turn(x))
    <2>1. Unturned(x) \in Nat /\ (stop(x) <=> Unturned(x) = 0)
      BY <1>4, TailUnturned
    <2>2. CASE stop(x)
      <3>1. turn(x) = x
        BY <2>2 DEF TailTurn
      <3> HIDE DEF turn
      <3> QED
        BY <1>4, <2>1, <2>2, <3>1
    <2>3. CASE ~stop(x)
      <3> DEFINE y == turn(x)
      <3>1. Draining(r, n, y) /\ Unturned(y) < Unturned(x)
        BY <1>4, <2>3, TailTurned
      <3> HIDE DEF y
      <3>2. Unturned(y) \in Nat
        BY <3>1, TailUnturned
      <3>4. Unturned(x) <= j
        BY <1>4, <2>1, <2>3
      <3>5. Unturned(y) <= j - 1
        BY <2>1, <3>1, <3>2, <3>4
      <3> QED
        BY <3>1, <3>5 DEF y
    <2> QED
      BY <2>2, <2>3
  <1>s. ASSUME NEW j \in Int, NEW x, Q(j, x), stop(x) PROVE Q(j - 8, x)
    <2>1. Unturned(x) = 0
      BY <1>s, TailUnturned
    <2> QED
      BY <1>s, <2>1
  <1> HIDE DEF turn, stop, Q
  <1> USE DEF four
  <1>5. ASSUME NEW j \in Int, NEW x, Q(j, x) PROVE Q(j - 4, four(x))
    <2> DEFINE x1 == turn(x)
               x2 == turn(x1)
               x3 == turn(x2)
               j1 == j - 1
               j2 == j1 - 1
               j3 == j2 - 1
    <2>1. j1 \in Int /\ j2 \in Int /\ j3 \in Int /\ j3 - 1 = j - 4
      OBVIOUS
    <2>2. Q(j1, x1)
      BY <1>4, <1>5
    <2> HIDE DEF x1, j1
    <2>3. Q(j2, x2)
      BY <1>4, <2>1, <2>2
    <2> HIDE DEF x2, j2
    <2>4. Q(j3, x3)
      BY <1>4, <2>1, <2>3
    <2> HIDE DEF x3, j3
    <2>5. Q(j3 - 1, turn(x3))
      BY <1>4, <2>1, <2>4
    <2> QED
      BY <2>1, <2>5 DEF x1, x2, x3
  <1> HIDE DEF four
  <1> USE DEF T
  <1>6. ASSUME NEW j \in Int, NEW x, Q(j, x) PROVE Q(j - 8, T(x))
    <2>1. CASE stop(x)
      BY <1>6, <1>s, <2>1
    <2>2. CASE ~stop(x)
      <3> DEFINE x1 == four(x)
                 j1 == j - 4
      <3>1. j1 \in Int /\ j1 - 4 = j - 8
        OBVIOUS
      <3>2. Q(j1, x1)
        BY <1>5, <1>6
      <3> HIDE DEF x1, j1
      <3>3. Q(j1 - 4, four(x1))
        BY <1>5, <3>1, <3>2
      <3>4. T(x) = four(x1)
        BY <2>2 DEF x1
      <3> QED
        BY <3>1, <3>3, <3>4
    <2> QED
      BY <2>1, <2>2
  <1> HIDE DEF T, x0, e
  <1> USE DEF at
  <1>7. at = [k \in 0 .. e |-> IF k = 0 THEN x0 ELSE T(at[k - 1])]
    <2> DEFINE P(m, f) == f = [k \in 0 .. m |-> IF k = 0 THEN x0 ELSE T(f[k - 1])]
               S == {m \in 0 .. e : \E f : P(m, f)}
    <2>1. 0 \in S
      <3> DEFINE f == [k \in 0 .. 0 |-> x0]
      <3>1. P(0, f)
        OBVIOUS
      <3> HIDE DEF P
      <3>2. \E g : P(0, g)
        BY <3>1
      <3> QED
        BY <1>n, <3>2
    <2>2. ASSUME NEW m \in 1 .. e, m - 1 \in S PROVE m \in S
      <3>1. PICK f : P(m - 1, f)
        BY <2>2
      <3> DEFINE g == [k \in 0 .. m |-> IF k = m THEN T(f[m - 1]) ELSE f[k]]
      <3>2. m \in Nat /\ m # 0 /\ \A k \in 0 .. m : k # m => k \in 0 .. m - 1 /\ (k # 0 => k - 1 \in 0 .. m /\ k - 1 # m)
        BY <1>n
      <3>3. \A k \in 0 .. m - 1 : f[k] = IF k = 0 THEN x0 ELSE T(f[k - 1])
        BY <3>1
      <3>4. ASSUME NEW k \in 0 .. m PROVE g[k] = IF k = 0 THEN x0 ELSE T(g[k - 1])
        <4>1. CASE k = m
          <5>1. m - 1 \in 0 .. m /\ m - 1 # m
            BY <3>2
          <5>2. g[m - 1] = f[m - 1] /\ g[k] = T(f[m - 1])
            BY <4>1, <5>1
          <5> QED
            BY <3>2, <4>1, <5>2
        <4>2. CASE k # m
          <5>1. g[k] = f[k] /\ f[k] = IF k = 0 THEN x0 ELSE T(f[k - 1])
            BY <3>2, <3>3, <4>2
          <5>2. k # 0 => g[k - 1] = f[k - 1]
            BY <3>2, <4>2
          <5> QED
            BY <5>1, <5>2
        <4> QED
          BY <4>1, <4>2
      <3>5. P(m, g)
        <4>1. g = [k \in 0 .. m |-> g[k]]
          OBVIOUS
        <4> HIDE DEF g
        <4> QED
          BY <3>4, <4>1
      <3> HIDE DEF P, g
      <3>6. \E h0 : P(m, h0)
        BY <3>5
      <3> QED
        BY <1>n, <3>6
    <2> HIDE DEF S, P
    <2>3. e \in S
      BY <1>n, <2>1, <2>2, UpTo
    <2>4. \E f : P(e, f)
      BY <2>3 DEF S
    <2> QED
      BY <2>4 DEF P
  <1>8. at[0] = x0 /\ \A k \in 1 .. e : at[k] = T(at[k - 1])
    <2> HIDE DEF at
    <2>1. ASSUME NEW k \in 0 .. e PROVE at[k] = IF k = 0 THEN x0 ELSE T(at[k - 1])
      BY <1>7
    <2> QED
      BY <1>n, <2>1
  <1> HIDE DEF at
  <1> DEFINE S == {k \in 0 .. e : Q(8 * e - 8 * k, at[k])}
  <1>9. 0 \in S
    <2>1. 8 * e - 8 * 0 = 8 * e
      BY <1>n
    <2> QED
      BY <1>n, <1>0, <1>8, <2>1
  <1>10. ASSUME NEW k \in 1 .. e, k - 1 \in S PROVE k \in S
    <2> DEFINE j == 8 * e - 8 * (k - 1)
               x == at[k - 1]
    <2>1. j \in Int /\ j - 8 = 8 * e - 8 * k
      BY <1>n
    <2>2. Q(j, x)
      BY <1>10
    <2> HIDE DEF j, x
    <2>3. Q(j - 8, T(x))
      BY <1>6, <2>1, <2>2
    <2> QED
      BY <1>8, <2>1, <2>3 DEF x
  <1> HIDE DEF S
  <1>11. e \in S
    BY <1>n, <1>9, <1>10, UpTo
  <1>12. Q(0, at[e])
    <2>1. 8 * e - 8 * e = 0
      BY <1>n
    <2> QED
      BY <1>11, <2>1 DEF S
  <1>13. Stepped(r, n, at[e])
    <2> DEFINE x == at[e]
    <2>1. Draining(r, n, x) /\ (Unturned(x) = 0 \/ Unturned(x) <= 0)
      BY <1>12 DEF Q
    <2> HIDE DEF x
    <2>2. Unturned(x) \in Nat /\ (x.result # "go" <=> Unturned(x) = 0)
      BY <2>1, TailUnturned
    <2>3. x.result # "go"
      BY <2>1, <2>2
    <2>4. Stepped(r, n, x)
      BY <2>1, <2>3 DEF Draining
    <2> QED
      BY <2>4 DEF x
  <1> QED
    BY <1>1, <1>13

(* tail_step leaves a stream that waits or is over.                         *)
LEMMA TailStepGood ==
    ASSUME NEW r, NEW n, NEW s, Tailing(r, n, s)
    PROVE  Stepped(r, n, TailStep(s))
  <1>1. Live(r, n, s) /\ Ready(r, n, s)
    BY DEF Tailing
  <1>2. CASE ~s.conn.resp.chunked
    <2>1. TailStep(s) = Verdict(s)
      BY <1>2 DEF TailStep
    <2>2. IsOver(r, n, Verdict(s))
      BY <1>1, VerdictGood
    <2> QED
      BY <2>1, <2>2 DEF Stepped
  <1>3. CASE s.conn.resp.chunked
    <2> DEFINE why == "go"
               t == Returns(s, why)
    <2>1. TailStep(s) = Loop(TailTurn, t)
      BY <1>3 DEF TailStep
    <2> HIDE DEF why
    <2>2. ResultSet(r, n, s, why, t)
      BY <1>1, ResultSetIs
    <2> HIDE DEF t
    <2>3. Ready(r, n, t)
      BY <1>1, <2>2 DEF Ready, ResultSet, Live
    <2>4. Tailing(r, n, t) /\ t.result = "go" /\ Live(r, n, t)
      BY <2>2, <2>3 DEF Tailing, ResultSet, why
    <2>5. Draining(r, n, t)
      BY <2>4 DEF Draining
    <2>6. Unread(t) \in Nat
      BY <2>4, UnreadIs
    <2>7. Stepped(r, n, Loop(TailTurn, t))
      BY <2>5, <2>6, TailLoop
    <2> QED
      BY <2>1, <2>7
  <1> QED
    BY <1>2, <1>3

(* The first g bytes of the body are parsed, of those c has given.          *)
Hears(r, n, g, s) ==
    /\ Live(r, n, s) /\ s.head_checked /\ s.error_mode = "no" /\ Streams(r)
    /\ Within(Bytes(r), g, Given(r, n, s.conn)) /\ s.sse = Says(r, g).p
    /\ Answer(r, Events(r, g), s.answer) /\ ~s.answer.saw_done

(* A stream that listens has parsed all it was given.                       *)
LEMMA ListeningIs ==
    ASSUME NEW r, NEW n, NEW s
    PROVE  Listening(r, n, s) <=> Hears(r, n, Given(r, n, s.conn), s) /\ s.preread = <<>>
  <1> DEFINE g == Given(r, n, s.conn)
  <1>1. Live(r, n, s) => Within(Bytes(r), g, g)
    BY ConnHas DEF Live
  <1> QED
    BY <1>1 DEF Listening, Hears

(* The events that are parsed have arrived.                                 *)
LEMMA HeardOf ==
    ASSUME NEW r, NEW n, NEW c, Conn(r, n, c), Streams(r)
    PROVE  /\ Arrived(r, n) \in Nat /\ Events(r, Given(r, n, c)) \in 0 .. Arrived(r, n)
           /\ \A k \in 0 .. Events(r, Given(r, n, c)) : k \in 0 .. Arrived(r, n)
           /\ Given(r, n, c) = Pay(r, n) => Events(r, Given(r, n, c)) = Arrived(r, n)
  <1> DEFINE g == Given(r, n, c)
             p == Pay(r, n)
             N == Len(Bytes(r))
             E(m) == Events(r, m)
  <1>1. r \in Replies /\ n \in 0 .. Len(r.wire) /\ n \in Nat
    BY ConnHas
  <1>2. g \in Nat /\ g <= p
    BY ConnHas
  <1>3. p \in Nat /\ p \in 0 .. N
    <2>1. n \in 0 .. n
      BY <1>1
    <2>2. Within(Bytes(r), p, p) /\ p \in Nat
      BY <1>1, <2>1, PayIs
    <2>3. N \in Nat
      BY <1>1, SaysFrom
    <2> QED
      BY <2>2, <2>3 DEF Within
  <1> HIDE DEF p, g
  <1>4. g \in 0 .. p /\ p \in 0 .. p
    BY <1>2, <1>3
  <1>5. E(g) \in Nat /\ E(g) <= E(p) /\ E(p) \in Nat
    BY <1>1, <1>3, <1>4, EventsGrow
  <1>6. Arrived(r, n) = E(p)
    BY DEF Arrived, p
  <1>7. g = p => E(g) = E(p)
    OBVIOUS
  <1> HIDE DEF E
  <1>8. E(g) \in 0 .. E(p) /\ \A k \in 0 .. E(g) : k \in 0 .. E(p)
    BY <1>5
  <1> QED
    BY <1>5, <1>6, <1>7, <1>8 DEF E, g, p

(* What the bytes of a read make of a stream.                               *)
FedTo(r, n, s, t) ==
    \/ Stepped(r, n, t)
    \/ Listening(r, n, t) /\ t.result = "go" /\ t.conn = s.conn

(* The bytes of a read are parsed and their events dispatched: the stream   *)
(* listens on, waits for the tail or is over.                               *)
LEMMA FedGood ==
    ASSUME NEW r, NEW n, NEW g, NEW s, Hears(r, n, g, s), s.preread = <<>>, s.result = "go"
    PROVE  FedTo(r, n, s, Fed(s, Cut(Bytes(r), g, Given(r, n, s.conn))))
  <1> DEFINE to == Given(r, n, s.conn)
             bytes == Cut(Bytes(r), g, to)
             z == [reply |-> r, from |-> g, to |-> to]
             d == Dispatched(s, bytes)
             e == Fed(s, bytes)
  <1>1. Live(r, n, s) /\ Conn(r, n, s.conn) /\ IsChat(s) /\ s.done = FALSE /\ r \in Replies
    <2>1. Live(r, n, s)
      BY DEF Hears
    <2>2. Conn(r, n, s.conn) /\ IsChat(s) /\ s.done = FALSE
      BY <2>1 DEF Live
    <2> QED
      BY <2>1, <2>2, ConnHas
  <1>2. z.reply = r /\ z.from = g /\ z.to = to
    OBVIOUS
  <1>e. e = IF d.answer.saw_done /\ ~d.done THEN TailStep(d) ELSE d
    BY DEF Fed
  <1>h. Given(r, n, s.conn) = to
    OBVIOUS
  <1> HIDE DEF z, to, e
  <1>3. Feeding(z, s)
    <2>1. IsFeed(z)
      BY <1>1, <1>2, <1>h DEF Hears, IsFeed
    <2> QED
      BY <1>1, <1>2, <2>1 DEF Feeding, Hears
  <1>4. bytes = FedBytes(z)
    BY <1>2 DEF FedBytes
  <1>5. DispatchedTo(z, s, d)
    BY <1>3, <1>4, FeedGood
  <1> HIDE DEF d, bytes
  <1>6. /\ IsChat(d) /\ d.done \in BOOLEAN
        /\ d.done => Refused(d)
        /\ ~d.done => /\ Alike(s, d)
                      /\ \E k \in 0 .. Events(r, to) :
                            /\ Answer(r, k, d.answer)
                            /\ ~d.answer.saw_done => k = Events(r, to) /\ d.sse = Says(r, to).p
    BY <1>2, <1>5 DEF DispatchedTo
  <1>7. CASE d.done
    <2>1. e = d
      BY <1>e, <1>7
    <2>2. d.done = TRUE
      BY <1>6, <1>7, Zenon
    <2>3. IsOver(r, n, d)
      BY <1>6, <1>7, <2>2 DEF IsOver, Refused
    <2>4. FedTo(r, n, s, d)
      BY <2>3 DEF FedTo, Stepped
    <2>5. FedTo(r, n, s, e)
      BY <2>1, <2>4
    <2> QED
      BY <2>5 DEF e, bytes, to
  <1>8. CASE ~d.done
    <2>1. d.done = FALSE
      BY <1>6, <1>8, Zenon
    <2>2. Alike(s, d)
      BY <1>6, <1>8
    <2>3. PICK k \in 0 .. Events(r, to) :
            /\ Answer(r, k, d.answer)
            /\ ~d.answer.saw_done => k = Events(r, to) /\ d.sse = Says(r, to).p
      BY <1>6, <1>8
    <2>4. Live(r, n, d)
      BY <1>1, <1>6, <2>1, <2>2 DEF Live, Alike
    <2>5. d.head_checked /\ d.error_mode = "no" /\ Streams(r) /\ d.preread = <<>> /\ d.result = "go" /\ d.conn = s.conn
      BY <2>2 DEF Hears, Alike
    <2>6. k \in 0 .. Arrived(r, n)
      BY <1>1, <1>h, <2>3, <2>5, HeardOf
    <2>7. CASE d.answer.saw_done
      <3>1. Ready(r, n, d)
        BY <1>6, <2>3, <2>6, <2>7 DEF Ready
      <3>2. Tailing(r, n, d)
        BY <2>4, <2>5, <2>7, <3>1 DEF Tailing
      <3>3. Stepped(r, n, TailStep(d))
        BY <3>2, TailStepGood
      <3>4. e = TailStep(d)
        BY <1>e, <1>8, <2>7
      <3>5. FedTo(r, n, s, e)
        BY <3>3, <3>4 DEF FedTo
      <3> QED
        BY <3>5 DEF e, bytes, to
    <2>8. CASE ~d.answer.saw_done
      <3>1. Answer(r, Events(r, to), d.answer) /\ d.sse = Says(r, to).p
        BY <2>3, <2>8
      <3>2. Listening(r, n, d)
        BY <1>h, <2>4, <2>5, <2>8, <3>1 DEF Listening
      <3>3. e = d
        BY <1>e, <2>8
      <3>4. FedTo(r, n, s, d)
        BY <2>5, <3>2 DEF FedTo
      <3>5. FedTo(r, n, s, e)
        BY <3>3, <3>4
      <3> QED
        BY <3>5 DEF e, bytes, to
    <2> QED
      BY <2>7, <2>8
  <1> QED
    BY <1>6, <1>7, <1>8

(* What the turns of stream_one_step keep.                                  *)
Reading(r, n, s) == /\ s.result = "go" => Listening(r, n, s)
                    /\ s.result # "go" => Stepped(r, n, s)

(* A stream a step leaves behind stops the loop.                            *)
LEMMA SteppedReads ==
    ASSUME NEW r, NEW n, NEW s, Stepped(r, n, s)
    PROVE  s.result # "go" /\ Reading(r, n, s)
  BY SteppedStops DEF Reading

(* What the bytes of a read leave goes on reading, or stops.                *)
LEMMA FedReads ==
    ASSUME NEW r, NEW n, NEW s, NEW t, FedTo(r, n, s, t)
    PROVE  Reading(r, n, t) /\ (t.result = "go" => Listening(r, n, t) /\ t.conn = s.conn)
  <1>1. CASE Stepped(r, n, t)
    <2>1. t.result # "go" /\ Reading(r, n, t)
      BY <1>1, SteppedReads
    <2> QED
      BY <2>1
  <1>2. CASE ~Stepped(r, n, t)
    BY <1>2 DEF FedTo, Reading
  <1> QED
    BY <1>1, <1>2

(* A stream that listens and has been given all there is waits.             *)
LEMMA ListeningWaits ==
    ASSUME NEW r, NEW n, NEW t, Listening(r, n, t), Given(r, n, t.conn) = Pay(r, n)
    PROVE  Stepped(r, n, Returns(t, "pending"))
  <1> DEFINE why == "pending"
             u == Returns(t, why)
  <1>1. Live(r, n, t)
    BY DEF Listening
  <1> HIDE DEF why
  <1>2. ResultSet(r, n, t, why, u)
    BY <1>1, ResultSetIs
  <1> HIDE DEF u
  <1>3. Listening(r, n, u) /\ Given(r, n, u.conn) = Pay(r, n) /\ u.result = "pending"
    BY <1>2 DEF Listening, ResultSet, why
  <1>4. Stepped(r, n, u)
    BY <1>3 DEF Stepped, Waiting, Mode
  <1> QED
    BY <1>4 DEF u, why

(* A turn of stream_one_step reads on, waits or ends the stream.            *)
LEMMA StreamTurned ==
    ASSUME NEW r, NEW n, NEW s, Reading(r, n, s), s.result = "go"
    PROVE  Reading(r, n, StreamTurn(s)) /\ Unturned(StreamTurn(s)) < Unturned(s)
  <1> DEFINE y == ReadBody(s.conn, BufMax)
             t == [s EXCEPT !.conn = y.c]
             d == StreamTurn(s)
             g == Given(r, n, s.conn)
  <1>1. Listening(r, n, s)
    BY DEF Reading
  <1>2. Live(r, n, s) /\ Conn(r, n, s.conn) /\ Hears(r, n, g, s) /\ s.preread = <<>>
    BY <1>1, ListeningIs DEF Listening, Live
  <1>3. ReadOf(r, n, s.conn, y)
    BY <1>2, BuffersAssumption, BodyRead
  <1>4. d = CASE y.ret = "block" -> Returns(t, "pending")
              [] y.ret = "error" -> Ends(t, "transport")
              [] y.ret = "end" -> Verdict(t)
              [] y.ret = "data" -> Fed(t, y.out)
    BY DEF StreamTurn
  <1>5. t = [s EXCEPT !.conn = y.c]
    OBVIOUS
  <1> HIDE DEF y, t, d
  <1>6. IsChat(t)
    BY <1>2, <1>5, Set_conn DEF Live
  <1>7. y.ret # "error" => ConnSet(r, n, s, y.c, t)
    <2> SUFFICES ASSUME y.ret # "error" PROVE ConnSet(r, n, s, y.c, t)
      OBVIOUS
    <2>1. Conn(r, n, y.c)
      BY <1>3 DEF ReadOf
    <2> QED
      BY <1>2, <1>5, <2>1, ConnSetIs
  <1>9. ASSUME Stepped(r, n, d) PROVE Reading(r, n, d) /\ Unturned(d) < Unturned(s)
    <2>1. d.result # "go" /\ Reading(r, n, d)
      BY <1>9, SteppedReads
    <2>2. Unturned(d) < Unturned(s)
      BY <1>2, <2>1, UnturnedLess
    <2> QED
      BY <2>1, <2>2
  <1>10. CASE y.ret \in {"block", "end"}
    <2>1. /\ ConnSet(r, n, s, y.c, t) /\ Given(r, n, y.c) = g /\ Given(r, n, y.c) = Pay(r, n)
      BY <1>3, <1>7, <1>10 DEF ReadOf
    <2>2. Given(r, n, t.conn) = g /\ Given(r, n, t.conn) = Pay(r, n) /\ Conn(r, n, t.conn)
      BY <2>1 DEF ConnSet, Live
    <2>3. Listening(r, n, t)
      BY <1>1, <2>1, <2>2 DEF Listening, ConnSet
    <2>4. CASE y.ret = "block"
      <3>1. d = Returns(t, "pending")
        BY <1>4, <2>4
      <3>2. Stepped(r, n, d)
        BY <2>2, <2>3, <3>1, ListeningWaits
      <3> QED
        BY <1>9, <3>2 DEF d
    <2>5. CASE y.ret = "end"
      <3>1. d = Verdict(t)
        BY <1>4, <2>5
      <3>2. Events(r, g) = Arrived(r, n) /\ Arrived(r, n) \in Nat /\ Arrived(r, n) \in 0 .. Arrived(r, n)
        <4>1. Streams(r) /\ Conn(r, n, s.conn)
          BY <1>1, <1>2 DEF Listening
        <4>2. Events(r, g) = Arrived(r, n) /\ Arrived(r, n) \in Nat
          BY <2>1, <4>1, HeardOf
        <4> QED
          BY <4>2
      <3>3. Answer(r, Events(r, g), t.answer)
        BY <2>2, <2>3 DEF Listening
      <3>4. Ready(r, n, t)
        BY <1>6, <3>2, <3>3 DEF Ready
      <3>5. IsOver(r, n, Verdict(t))
        BY <3>4, VerdictGood
      <3>6. Stepped(r, n, d)
        BY <3>1, <3>5 DEF Stepped
      <3> QED
        BY <1>9, <3>6 DEF d
    <2> QED
      BY <1>10, <2>4, <2>5
  <1>11. CASE y.ret = "error"
    <2> DEFINE why == "transport"
    <2>1. d = Ends(t, why)
      BY <1>4, <1>11
    <2>2. why # "ok" /\ why # "go"
      OBVIOUS
    <2> HIDE DEF why
    <2>3. IsOver(r, n, Ends(t, why))
      BY <1>6, <2>2, OverOther
    <2>4. Stepped(r, n, d)
      BY <2>1, <2>3 DEF Stepped
    <2> QED
      BY <1>9, <2>4 DEF d
  <1>12. CASE y.ret = "data"
    <2>1. d = Fed(t, y.out)
      BY <1>4, <1>12
    <2>2. /\ ConnSet(r, n, s, y.c, t) /\ Within(Bytes(r), g, Given(r, n, y.c))
          /\ y.out = Cut(Bytes(r), g, Given(r, n, y.c)) /\ Place(n, s.conn) < Place(n, y.c)
      BY <1>3, <1>7, <1>12 DEF ReadOf
    <2>3. t.conn = y.c /\ t.preread = <<>> /\ t.result = "go"
      BY <1>2, <2>2 DEF ConnSet
    <2>4. Hears(r, n, g, t)
      BY <1>2, <2>2, <2>3 DEF Hears, ConnSet
    <2>5. FedTo(r, n, t, d)
      BY <2>1, <2>2, <2>3, <2>4, FedGood
    <2>6. Reading(r, n, d) /\ (d.result = "go" => Listening(r, n, d) /\ d.conn = y.c)
      BY <2>3, <2>5, FedReads
    <2>7. d.result = "go" => Live(r, n, d) /\ Place(n, s.conn) < Place(n, d.conn)
      BY <2>2, <2>6 DEF Listening
    <2>8. Unturned(d) < Unturned(s)
      BY <1>2, <2>7, UnturnedLess
    <2> QED
      BY <2>6, <2>8 DEF d
  <1>13. y.ret \in {"data", "end", "block", "error"}
    BY <1>3 DEF ReadOf
  <1> QED
    BY <1>10, <1>11, <1>12, <1>13

(* The turns that are left are a number.                                    *)
LEMMA StreamUnturned ==
    ASSUME NEW r, NEW n, NEW s, Reading(r, n, s)
    PROVE  Unturned(s) \in Nat /\ (s.result # "go" <=> Unturned(s) = 0)
  <1>1. s.result = "go" => Live(r, n, s)
    BY DEF Reading, Listening
  <1> QED
    BY <1>1, UnturnedIs

(* The loop reads till it would block or the stream is over.                *)
LEMMA StreamLoop ==
    ASSUME NEW r, NEW n, NEW s, Reading(r, n, s), Unread(s) \in Nat
    PROVE  Stepped(r, n, Loop(StreamTurn, s))
  <1> DEFINE x0 == s
             m0 == Unread(s)
             e == Eights(m0)
             turn(x) == StreamTurn(x)
             stop(x) == x.result # "go"
             Q(j, x) == Reading(r, n, x) /\ (Unturned(x) = 0 \/ Unturned(x) <= j)
             four(x) == turn(turn(turn(turn(x))))
             T(x) == IF stop(x) THEN x ELSE four(four(x))
             at[k \in 0 .. e] == IF k = 0 THEN x0 ELSE T(at[k - 1])
  <1>1. Loop(StreamTurn, s) = at[e]
    BY DEF Turns, Loop
  <1> HIDE DEF four, T, at
  <1>2. /\ Reading(r, n, x0) /\ m0 \in Nat
        /\ Unturned(x0) = 0 \/ Unturned(x0) = m0 + 1
    BY DEF Unturned
  <1> HIDE DEF x0
  <1>n. e \in Nat
    BY <1>2, EightsIs
  <1>0. Q(8 * e, x0)
    <2>1. m0 < 8 * e
      BY <1>2, EightsIs
    <2> HIDE DEF e, m0
    <2>2. m0 + 1 <= 8 * e
      BY <1>2, <1>n, <2>1
    <2> QED
      BY <1>2, <1>n, <2>2
  <1> HIDE DEF e, m0
  <1>4. ASSUME NEW j \in Int, NEW x, Q(j, x) PROVE Q(j - 1, turn(x))
    <2>1. Unturned(x) \in Nat /\ (stop(x) <=> Unturned(x) = 0)
      BY <1>4, StreamUnturned
    <2>2. CASE stop(x)
      <3>1. turn(x) = x
        BY <2>2 DEF StreamTurn
      <3> HIDE DEF turn
      <3> QED
        BY <1>4, <2>1, <2>2, <3>1
    <2>3. CASE ~stop(x)
      <3> DEFINE y == turn(x)
      <3>1. Reading(r, n, y) /\ Unturned(y) < Unturned(x)
        BY <1>4, <2>3, StreamTurned
      <3> HIDE DEF y
      <3>2. Unturned(y) \in Nat
        BY <3>1, StreamUnturned
      <3>4. Unturned(x) <= j
        BY <1>4, <2>1, <2>3
      <3>5. Unturned(y) <= j - 1
        BY <2>1, <3>1, <3>2, <3>4
      <3> QED
        BY <3>1, <3>5 DEF y
    <2> QED
      BY <2>2, <2>3
  <1>s. ASSUME NEW j \in Int, NEW x, Q(j, x), stop(x) PROVE Q(j - 8, x)
    <2>1. Unturned(x) = 0
      BY <1>s, StreamUnturned
    <2> QED
      BY <1>s, <2>1
  <1> HIDE DEF turn, stop, Q
  <1> USE DEF four
  <1>5. ASSUME NEW j \in Int, NEW x, Q(j, x) PROVE Q(j - 4, four(x))
    <2> DEFINE x1 == turn(x)
               x2 == turn(x1)
               x3 == turn(x2)
               j1 == j - 1
               j2 == j1 - 1
               j3 == j2 - 1
    <2>1. j1 \in Int /\ j2 \in Int /\ j3 \in Int /\ j3 - 1 = j - 4
      OBVIOUS
    <2>2. Q(j1, x1)
      BY <1>4, <1>5
    <2> HIDE DEF x1, j1
    <2>3. Q(j2, x2)
      BY <1>4, <2>1, <2>2
    <2> HIDE DEF x2, j2
    <2>4. Q(j3, x3)
      BY <1>4, <2>1, <2>3
    <2> HIDE DEF x3, j3
    <2>5. Q(j3 - 1, turn(x3))
      BY <1>4, <2>1, <2>4
    <2> QED
      BY <2>1, <2>5 DEF x1, x2, x3
  <1> HIDE DEF four
  <1> USE DEF T
  <1>6. ASSUME NEW j \in Int, NEW x, Q(j, x) PROVE Q(j - 8, T(x))
    <2>1. CASE stop(x)
      BY <1>6, <1>s, <2>1
    <2>2. CASE ~stop(x)
      <3> DEFINE x1 == four(x)
                 j1 == j - 4
      <3>1. j1 \in Int /\ j1 - 4 = j - 8
        OBVIOUS
      <3>2. Q(j1, x1)
        BY <1>5, <1>6
      <3> HIDE DEF x1, j1
      <3>3. Q(j1 - 4, four(x1))
        BY <1>5, <3>1, <3>2
      <3>4. T(x) = four(x1)
        BY <2>2 DEF x1
      <3> QED
        BY <3>1, <3>3, <3>4
    <2> QED
      BY <2>1, <2>2
  <1> HIDE DEF T, x0, e
  <1> USE DEF at
  <1>7. at = [k \in 0 .. e |-> IF k = 0 THEN x0 ELSE T(at[k - 1])]
    <2> DEFINE P(m, f) == f = [k \in 0 .. m |-> IF k = 0 THEN x0 ELSE T(f[k - 1])]
               S == {m \in 0 .. e : \E f : P(m, f)}
    <2>1. 0 \in S
      <3> DEFINE f == [k \in 0 .. 0 |-> x0]
      <3>1. P(0, f)
        OBVIOUS
      <3> HIDE DEF P
      <3>2. \E g : P(0, g)
        BY <3>1
      <3> QED
        BY <1>n, <3>2
    <2>2. ASSUME NEW m \in 1 .. e, m - 1 \in S PROVE m \in S
      <3>1. PICK f : P(m - 1, f)
        BY <2>2
      <3> DEFINE g == [k \in 0 .. m |-> IF k = m THEN T(f[m - 1]) ELSE f[k]]
      <3>2. m \in Nat /\ m # 0 /\ \A k \in 0 .. m : k # m => k \in 0 .. m - 1 /\ (k # 0 => k - 1 \in 0 .. m /\ k - 1 # m)
        BY <1>n
      <3>3. \A k \in 0 .. m - 1 : f[k] = IF k = 0 THEN x0 ELSE T(f[k - 1])
        BY <3>1
      <3>4. ASSUME NEW k \in 0 .. m PROVE g[k] = IF k = 0 THEN x0 ELSE T(g[k - 1])
        <4>1. CASE k = m
          <5>1. m - 1 \in 0 .. m /\ m - 1 # m
            BY <3>2
          <5>2. g[m - 1] = f[m - 1] /\ g[k] = T(f[m - 1])
            BY <4>1, <5>1
          <5> QED
            BY <3>2, <4>1, <5>2
        <4>2. CASE k # m
          <5>1. g[k] = f[k] /\ f[k] = IF k = 0 THEN x0 ELSE T(f[k - 1])
            BY <3>2, <3>3, <4>2
          <5>2. k # 0 => g[k - 1] = f[k - 1]
            BY <3>2, <4>2
          <5> QED
            BY <5>1, <5>2
        <4> QED
          BY <4>1, <4>2
      <3>5. P(m, g)
        <4>1. g = [k \in 0 .. m |-> g[k]]
          OBVIOUS
        <4> HIDE DEF g
        <4> QED
          BY <3>4, <4>1
      <3> HIDE DEF P, g
      <3>6. \E h0 : P(m, h0)
        BY <3>5
      <3> QED
        BY <1>n, <3>6
    <2> HIDE DEF S, P
    <2>3. e \in S
      BY <1>n, <2>1, <2>2, UpTo
    <2>4. \E f : P(e, f)
      BY <2>3 DEF S
    <2> QED
      BY <2>4 DEF P
  <1>8. at[0] = x0 /\ \A k \in 1 .. e : at[k] = T(at[k - 1])
    <2> HIDE DEF at
    <2>1. ASSUME NEW k \in 0 .. e PROVE at[k] = IF k = 0 THEN x0 ELSE T(at[k - 1])
      BY <1>7
    <2> QED
      BY <1>n, <2>1
  <1> HIDE DEF at
  <1> DEFINE S == {k \in 0 .. e : Q(8 * e - 8 * k, at[k])}
  <1>9. 0 \in S
    <2>1. 8 * e - 8 * 0 = 8 * e
      BY <1>n
    <2> QED
      BY <1>n, <1>0, <1>8, <2>1
  <1>10. ASSUME NEW k \in 1 .. e, k - 1 \in S PROVE k \in S
    <2> DEFINE j == 8 * e - 8 * (k - 1)
               x == at[k - 1]
    <2>1. j \in Int /\ j - 8 = 8 * e - 8 * k
      BY <1>n
    <2>2. Q(j, x)
      BY <1>10
    <2> HIDE DEF j, x
    <2>3. Q(j - 8, T(x))
      BY <1>6, <2>1, <2>2
    <2> QED
      BY <1>8, <2>1, <2>3 DEF x
  <1> HIDE DEF S
  <1>11. e \in S
    BY <1>n, <1>9, <1>10, UpTo
  <1>12. Q(0, at[e])
    <2>1. 8 * e - 8 * e = 0
      BY <1>n
    <2> QED
      BY <1>11, <2>1 DEF S
  <1>13. Stepped(r, n, at[e])
    <2> DEFINE x == at[e]
    <2>1. Reading(r, n, x) /\ (Unturned(x) = 0 \/ Unturned(x) <= 0)
      BY <1>12 DEF Q
    <2> HIDE DEF x
    <2>2. Unturned(x) \in Nat /\ (x.result # "go" <=> Unturned(x) = 0)
      BY <2>1, StreamUnturned
    <2>3. x.result # "go"
      BY <2>1, <2>2
    <2>4. Stepped(r, n, x)
      BY <2>1, <2>3 DEF Reading
    <2> QED
      BY <2>4 DEF x
  <1> QED
    BY <1>1, <1>13

(* A stream drops what it kept aside and sets out to read.                  *)
Setout(s) == [Returns(s, "go") EXCEPT !.preread = <<>>]

SetOff(r, n, s, t) ==
    /\ Live(r, n, t) /\ t.result = "go" /\ t.preread = <<>> /\ t.conn = s.conn /\ t.sse = s.sse
    /\ t.head_checked = s.head_checked /\ t.error_mode = s.error_mode /\ t.error_len = s.error_len
    /\ t.done = s.done /\ t.tail = s.tail /\ t.answer = s.answer

(* Only those two change.                                                   *)
LEMMA SetOffIs ==
    ASSUME NEW r, NEW n, NEW s, Live(r, n, s)
    PROVE  SetOff(r, n, s, Setout(s))
  <1> DEFINE why == "go"
             u == Returns(s, why)
             nil == <<>>
             t == [u EXCEPT !.preread = nil]
  <1>0. Setout(s) = t
    BY DEF Setout
  <1>1. t = [u EXCEPT !.preread = nil]
    OBVIOUS
  <1> HIDE DEF t, nil, why
  <1>2. ResultSet(r, n, s, why, u)
    BY ResultSetIs
  <1> HIDE DEF u
  <1>3. Live(r, n, u) /\ IsChat(u)
    BY <1>2 DEF ResultSet, Live
  <1>4. /\ IsChat(t) /\ t.preread = nil
        /\ t.conn = u.conn /\ t.sse = u.sse
        /\ t.head_checked = u.head_checked /\ t.error_mode = u.error_mode /\ t.error_len = u.error_len
        /\ t.done = u.done /\ t.tail = u.tail /\ t.answer = u.answer /\ t.result = u.result
    BY <1>1, <1>3, Set_preread
  <1>5. Live(r, n, t)
    BY <1>3, <1>4 DEF Live
  <1>6. SetOff(r, n, s, t)
    BY <1>2, <1>4, <1>5 DEF SetOff, ResultSet, nil, why
  <1> QED
    BY <1>0, <1>6

(* stream_one_step leaves a stream that waits or is over.                   *)
LEMMA StreamStepGood ==
    ASSUME NEW r, NEW n, NEW g, NEW s, Hears(r, n, g, s),
           s.preread = Cut(Bytes(r), g, Given(r, n, s.conn))
    PROVE  Stepped(r, n, StreamStep(s))
  <1> DEFINE t == Setout(s)
             bytes == s.preread
             d == Fed(t, bytes)
  <1>1. StreamStep(s) = Loop(StreamTurn, d)
    BY DEF StreamStep, Setout
  <1>2. SetOff(r, n, s, t)
    BY SetOffIs DEF Hears
  <1> HIDE DEF t
  <1>3. Hears(r, n, g, t) /\ t.preread = <<>> /\ t.result = "go"
    BY <1>2 DEF Hears, SetOff
  <1>4. bytes = Cut(Bytes(r), g, Given(r, n, t.conn))
    BY <1>2 DEF SetOff
  <1> HIDE DEF bytes
  <1>5. FedTo(r, n, t, d)
    BY <1>3, <1>4, FedGood
  <1> HIDE DEF d
  <1>6. Reading(r, n, d)
    BY <1>5, FedReads
  <1>7. Unread(d) \in Nat
    <2>1. CASE Live(r, n, d)
      BY <2>1, UnreadIs
    <2>2. CASE ~Live(r, n, d)
      <3>1. IsOver(r, n, d)
        BY <1>5, <2>2, ModeHas DEF FedTo, Stepped, Waiting, Listening
      <3> QED
        BY <3>1, OverUnread
    <2> QED
      BY <2>1, <2>2
  <1>8. Stepped(r, n, Loop(StreamTurn, d))
    BY <1>6, <1>7, StreamLoop
  <1> QED
    BY <1>1, <1>8

-----------------------------------------------------------------------------
(* What the turns of error_drain_step keep.                                 *)
Collecting(r, n, s) == /\ s.result = "go" => Failing(r, n, s)
                       /\ s.result # "go" => Stepped(r, n, s)

(* A stream a step leaves behind stops the loop.                            *)
LEMMA SteppedCollects ==
    ASSUME NEW r, NEW n, NEW s, Stepped(r, n, s)
    PROVE  s.result # "go" /\ Collecting(r, n, s)
  BY SteppedStops DEF Collecting

(* The turns that are left are a number.                                    *)
LEMMA ErrorUnturned ==
    ASSUME NEW r, NEW n, NEW s, Collecting(r, n, s)
    PROVE  Unturned(s) \in Nat /\ (s.result # "go" <=> Unturned(s) = 0)
  <1>1. s.result = "go" => Live(r, n, s)
    BY DEF Collecting, Failing
  <1> QED
    BY <1>1, UnturnedIs

(* What bytes of an error make of a stream.                                 *)
AddedTo(r, n, s, t) ==
    \/ IsOver(r, n, t)
    \/ Failing(r, n, t) /\ t.result = "go" /\ t.conn = s.conn

(* It goes on, or is over when the cap is reached.                          *)
LEMMA ErrorAddsGood ==
    ASSUME NEW r, NEW n, NEW s, Failing(r, n, s), s.result = "go", NEW m
    PROVE  AddedTo(r, n, s, ErrorAdds(s, m))
  <1> DEFINE len == Least(s.error_len + m, ErrorMax)
             t == [s EXCEPT !.error_len = len]
             e == ErrorAdds(s, m)
             why == s.error_mode
  <1>1. e = IF len = ErrorMax THEN Ends(t, why) ELSE t
    BY DEF ErrorAdds
  <1>2. t = [s EXCEPT !.error_len = len]
    OBVIOUS
  <1> HIDE DEF t, len, e
  <1>3. Live(r, n, s) /\ IsChat(s) /\ why \in {"auth", "http"}
    BY DEF Failing, Live
  <1>4. /\ IsChat(t)
        /\ t.conn = s.conn /\ t.sse = s.sse /\ t.preread = s.preread
        /\ t.head_checked = s.head_checked /\ t.error_mode = s.error_mode /\ t.done = s.done
        /\ t.tail = s.tail /\ t.answer = s.answer /\ t.result = s.result
    BY <1>2, <1>3, Set_error_len
  <1>5. Live(r, n, t)
    BY <1>3, <1>4 DEF Live
  <1>6. Failing(r, n, t) /\ t.result = "go"
    BY <1>4, <1>5 DEF Failing
  <1>7. why # "ok" /\ why # "go"
    BY <1>3
  <1> HIDE DEF why
  <1>8. IsOver(r, n, Ends(t, why))
    BY <1>4, <1>7, OverOther
  <1>9. AddedTo(r, n, s, e)
    BY <1>1, <1>4, <1>6, <1>8 DEF AddedTo
  <1> QED
    BY <1>9 DEF e

(* What they leave goes on reading, or stops.                               *)
LEMMA AddedCollects ==
    ASSUME NEW r, NEW n, NEW s, NEW t, AddedTo(r, n, s, t)
    PROVE  Collecting(r, n, t) /\ (t.result = "go" => Failing(r, n, t) /\ t.conn = s.conn) /\ Unread(t) \in Nat
  <1>1. CASE IsOver(r, n, t)
    <2>1. Stepped(r, n, t) /\ Unread(t) = 0
      BY <1>1, OverUnread DEF Stepped
    <2>2. t.result # "go" /\ Collecting(r, n, t)
      BY <2>1, SteppedCollects
    <2> QED
      BY <2>1, <2>2
  <1>2. CASE ~IsOver(r, n, t)
    <2>1. Failing(r, n, t) /\ t.result = "go" /\ t.conn = s.conn /\ Live(r, n, t)
      BY <1>2 DEF AddedTo, Failing
    <2>2. Unread(t) \in Nat
      BY <2>1, UnreadIs
    <2> QED
      BY <2>1, <2>2 DEF Collecting
  <1> QED
    BY <1>1, <1>2

(* A turn of error_drain_step reads on, waits or ends the stream.           *)
LEMMA ErrorTurned ==
    ASSUME NEW r, NEW n, NEW s, Collecting(r, n, s), s.result = "go"
    PROVE  Collecting(r, n, ErrorTurn(s)) /\ Unturned(ErrorTurn(s)) < Unturned(s)
  <1> DEFINE y == ReadBody(s.conn, BufMax)
             t == [s EXCEPT !.conn = y.c]
             d == ErrorTurn(s)
             why == s.error_mode
  <1>1. Failing(r, n, s)
    BY DEF Collecting
  <1>2. Live(r, n, s) /\ Conn(r, n, s.conn) /\ why # "ok" /\ why # "go"
    BY <1>1 DEF Failing, Live
  <1>3. ReadOf(r, n, s.conn, y)
    BY <1>2, BuffersAssumption, BodyRead
  <1>4. d = CASE y.ret = "block" -> Returns(t, "pending")
              [] y.ret \in {"end", "error"} -> Ends(t, why)
              [] y.ret = "data" -> ErrorAdds(t, Len(y.out))
    BY DEF ErrorTurn
  <1>5. t = [s EXCEPT !.conn = y.c]
    OBVIOUS
  <1> HIDE DEF y, t, d, why
  <1>6. IsChat(t)
    BY <1>2, <1>5, Set_conn DEF Live
  <1>7. y.ret # "error" => ConnSet(r, n, s, y.c, t)
    <2> SUFFICES ASSUME y.ret # "error" PROVE ConnSet(r, n, s, y.c, t)
      OBVIOUS
    <2>1. Conn(r, n, y.c)
      BY <1>3 DEF ReadOf
    <2> QED
      BY <1>2, <1>5, <2>1, ConnSetIs
  <1>8. y.ret # "error" => Failing(r, n, t) /\ t.result = "go" /\ t.conn = y.c
    BY <1>1, <1>7 DEF Failing, ConnSet
  <1>9. ASSUME Stepped(r, n, d) PROVE Collecting(r, n, d) /\ Unturned(d) < Unturned(s)
    <2>1. d.result # "go" /\ Collecting(r, n, d)
      BY <1>9, SteppedCollects
    <2>2. Unturned(d) < Unturned(s)
      BY <1>2, <2>1, UnturnedLess
    <2> QED
      BY <2>1, <2>2
  <1>10. CASE y.ret = "block"
    <2> DEFINE what == "pending"
    <2>1. d = Returns(t, what)
      BY <1>4, <1>10
    <2>2. Failing(r, n, t) /\ t.conn = y.c /\ Live(r, n, t)
      BY <1>8, <1>10 DEF Failing
    <2> HIDE DEF what
    <2>3. ResultSet(r, n, t, what, d)
      BY <2>1, <2>2, ResultSetIs
    <2>4. Failing(r, n, d) /\ d.result = "pending" /\ d.conn = y.c
      BY <2>2, <2>3 DEF Failing, ResultSet, what
    <2>5. Given(r, n, d.conn) = Pay(r, n)
      BY <1>3, <1>10, <2>4 DEF ReadOf
    <2>6. Stepped(r, n, d)
      BY <2>4, <2>5 DEF Stepped, Waiting, Mode
    <2> QED
      BY <1>9, <2>6 DEF d
  <1>11. CASE y.ret \in {"end", "error"}
    <2>1. d = Ends(t, why)
      BY <1>4, <1>11
    <2>2. IsOver(r, n, Ends(t, why))
      BY <1>2, <1>6, OverOther
    <2>3. Stepped(r, n, d)
      BY <2>1, <2>2 DEF Stepped
    <2> QED
      BY <1>9, <2>3 DEF d
  <1>12. CASE y.ret = "data"
    <2>1. d = ErrorAdds(t, Len(y.out))
      BY <1>4, <1>12
    <2>2. Failing(r, n, t) /\ t.result = "go" /\ t.conn = y.c /\ Place(n, s.conn) < Place(n, y.c)
      BY <1>3, <1>8, <1>12 DEF ReadOf
    <2>3. AddedTo(r, n, t, d)
      BY <2>1, <2>2, ErrorAddsGood
    <2>4. Collecting(r, n, d) /\ (d.result = "go" => Failing(r, n, d) /\ d.conn = y.c)
      BY <2>2, <2>3, AddedCollects
    <2>5. d.result = "go" => Live(r, n, d) /\ Place(n, s.conn) < Place(n, d.conn)
      BY <2>2, <2>4 DEF Failing
    <2>6. Unturned(d) < Unturned(s)
      BY <1>2, <2>5, UnturnedLess
    <2> QED
      BY <2>4, <2>6 DEF d
  <1>13. y.ret \in {"data", "end", "block", "error"}
    BY <1>3 DEF ReadOf
  <1> QED
    BY <1>10, <1>11, <1>12, <1>13

(* The loop reads till it would block or the stream is over.                *)
LEMMA ErrorLoop ==
    ASSUME NEW r, NEW n, NEW s, Collecting(r, n, s), Unread(s) \in Nat
    PROVE  Stepped(r, n, Loop(ErrorTurn, s))
  <1> DEFINE x0 == s
             m0 == Unread(s)
             e == Eights(m0)
             turn(x) == ErrorTurn(x)
             stop(x) == x.result # "go"
             Q(j, x) == Collecting(r, n, x) /\ (Unturned(x) = 0 \/ Unturned(x) <= j)
             four(x) == turn(turn(turn(turn(x))))
             T(x) == IF stop(x) THEN x ELSE four(four(x))
             at[k \in 0 .. e] == IF k = 0 THEN x0 ELSE T(at[k - 1])
  <1>1. Loop(ErrorTurn, s) = at[e]
    BY DEF Turns, Loop
  <1> HIDE DEF four, T, at
  <1>2. /\ Collecting(r, n, x0) /\ m0 \in Nat
        /\ Unturned(x0) = 0 \/ Unturned(x0) = m0 + 1
    BY DEF Unturned
  <1> HIDE DEF x0
  <1>n. e \in Nat
    BY <1>2, EightsIs
  <1>0. Q(8 * e, x0)
    <2>1. m0 < 8 * e
      BY <1>2, EightsIs
    <2> HIDE DEF e, m0
    <2>2. m0 + 1 <= 8 * e
      BY <1>2, <1>n, <2>1
    <2> QED
      BY <1>2, <1>n, <2>2
  <1> HIDE DEF e, m0
  <1>4. ASSUME NEW j \in Int, NEW x, Q(j, x) PROVE Q(j - 1, turn(x))
    <2>1. Unturned(x) \in Nat /\ (stop(x) <=> Unturned(x) = 0)
      BY <1>4, ErrorUnturned
    <2>2. CASE stop(x)
      <3>1. turn(x) = x
        BY <2>2 DEF ErrorTurn
      <3> HIDE DEF turn
      <3> QED
        BY <1>4, <2>1, <2>2, <3>1
    <2>3. CASE ~stop(x)
      <3> DEFINE y == turn(x)
      <3>1. Collecting(r, n, y) /\ Unturned(y) < Unturned(x)
        BY <1>4, <2>3, ErrorTurned
      <3> HIDE DEF y
      <3>2. Unturned(y) \in Nat
        BY <3>1, ErrorUnturned
      <3>4. Unturned(x) <= j
        BY <1>4, <2>1, <2>3
      <3>5. Unturned(y) <= j - 1
        BY <2>1, <3>1, <3>2, <3>4
      <3> QED
        BY <3>1, <3>5 DEF y
    <2> QED
      BY <2>2, <2>3
  <1>s. ASSUME NEW j \in Int, NEW x, Q(j, x), stop(x) PROVE Q(j - 8, x)
    <2>1. Unturned(x) = 0
      BY <1>s, ErrorUnturned
    <2> QED
      BY <1>s, <2>1
  <1> HIDE DEF turn, stop, Q
  <1> USE DEF four
  <1>5. ASSUME NEW j \in Int, NEW x, Q(j, x) PROVE Q(j - 4, four(x))
    <2> DEFINE x1 == turn(x)
               x2 == turn(x1)
               x3 == turn(x2)
               j1 == j - 1
               j2 == j1 - 1
               j3 == j2 - 1
    <2>1. j1 \in Int /\ j2 \in Int /\ j3 \in Int /\ j3 - 1 = j - 4
      OBVIOUS
    <2>2. Q(j1, x1)
      BY <1>4, <1>5
    <2> HIDE DEF x1, j1
    <2>3. Q(j2, x2)
      BY <1>4, <2>1, <2>2
    <2> HIDE DEF x2, j2
    <2>4. Q(j3, x3)
      BY <1>4, <2>1, <2>3
    <2> HIDE DEF x3, j3
    <2>5. Q(j3 - 1, turn(x3))
      BY <1>4, <2>1, <2>4
    <2> QED
      BY <2>1, <2>5 DEF x1, x2, x3
  <1> HIDE DEF four
  <1> USE DEF T
  <1>6. ASSUME NEW j \in Int, NEW x, Q(j, x) PROVE Q(j - 8, T(x))
    <2>1. CASE stop(x)
      BY <1>6, <1>s, <2>1
    <2>2. CASE ~stop(x)
      <3> DEFINE x1 == four(x)
                 j1 == j - 4
      <3>1. j1 \in Int /\ j1 - 4 = j - 8
        OBVIOUS
      <3>2. Q(j1, x1)
        BY <1>5, <1>6
      <3> HIDE DEF x1, j1
      <3>3. Q(j1 - 4, four(x1))
        BY <1>5, <3>1, <3>2
      <3>4. T(x) = four(x1)
        BY <2>2 DEF x1
      <3> QED
        BY <3>1, <3>3, <3>4
    <2> QED
      BY <2>1, <2>2
  <1> HIDE DEF T, x0, e
  <1> USE DEF at
  <1>7. at = [k \in 0 .. e |-> IF k = 0 THEN x0 ELSE T(at[k - 1])]
    <2> DEFINE P(m, f) == f = [k \in 0 .. m |-> IF k = 0 THEN x0 ELSE T(f[k - 1])]
               S == {m \in 0 .. e : \E f : P(m, f)}
    <2>1. 0 \in S
      <3> DEFINE f == [k \in 0 .. 0 |-> x0]
      <3>1. P(0, f)
        OBVIOUS
      <3> HIDE DEF P
      <3>2. \E g : P(0, g)
        BY <3>1
      <3> QED
        BY <1>n, <3>2
    <2>2. ASSUME NEW m \in 1 .. e, m - 1 \in S PROVE m \in S
      <3>1. PICK f : P(m - 1, f)
        BY <2>2
      <3> DEFINE g == [k \in 0 .. m |-> IF k = m THEN T(f[m - 1]) ELSE f[k]]
      <3>2. m \in Nat /\ m # 0 /\ \A k \in 0 .. m : k # m => k \in 0 .. m - 1 /\ (k # 0 => k - 1 \in 0 .. m /\ k - 1 # m)
        BY <1>n
      <3>3. \A k \in 0 .. m - 1 : f[k] = IF k = 0 THEN x0 ELSE T(f[k - 1])
        BY <3>1
      <3>4. ASSUME NEW k \in 0 .. m PROVE g[k] = IF k = 0 THEN x0 ELSE T(g[k - 1])
        <4>1. CASE k = m
          <5>1. m - 1 \in 0 .. m /\ m - 1 # m
            BY <3>2
          <5>2. g[m - 1] = f[m - 1] /\ g[k] = T(f[m - 1])
            BY <4>1, <5>1
          <5> QED
            BY <3>2, <4>1, <5>2
        <4>2. CASE k # m
          <5>1. g[k] = f[k] /\ f[k] = IF k = 0 THEN x0 ELSE T(f[k - 1])
            BY <3>2, <3>3, <4>2
          <5>2. k # 0 => g[k - 1] = f[k - 1]
            BY <3>2, <4>2
          <5> QED
            BY <5>1, <5>2
        <4> QED
          BY <4>1, <4>2
      <3>5. P(m, g)
        <4>1. g = [k \in 0 .. m |-> g[k]]
          OBVIOUS
        <4> HIDE DEF g
        <4> QED
          BY <3>4, <4>1
      <3> HIDE DEF P, g
      <3>6. \E h0 : P(m, h0)
        BY <3>5
      <3> QED
        BY <1>n, <3>6
    <2> HIDE DEF S, P
    <2>3. e \in S
      BY <1>n, <2>1, <2>2, UpTo
    <2>4. \E f : P(e, f)
      BY <2>3 DEF S
    <2> QED
      BY <2>4 DEF P
  <1>8. at[0] = x0 /\ \A k \in 1 .. e : at[k] = T(at[k - 1])
    <2> HIDE DEF at
    <2>1. ASSUME NEW k \in 0 .. e PROVE at[k] = IF k = 0 THEN x0 ELSE T(at[k - 1])
      BY <1>7
    <2> QED
      BY <1>n, <2>1
  <1> HIDE DEF at
  <1> DEFINE S == {k \in 0 .. e : Q(8 * e - 8 * k, at[k])}
  <1>9. 0 \in S
    <2>1. 8 * e - 8 * 0 = 8 * e
      BY <1>n
    <2> QED
      BY <1>n, <1>0, <1>8, <2>1
  <1>10. ASSUME NEW k \in 1 .. e, k - 1 \in S PROVE k \in S
    <2> DEFINE j == 8 * e - 8 * (k - 1)
               x == at[k - 1]
    <2>1. j \in Int /\ j - 8 = 8 * e - 8 * k
      BY <1>n
    <2>2. Q(j, x)
      BY <1>10
    <2> HIDE DEF j, x
    <2>3. Q(j - 8, T(x))
      BY <1>6, <2>1, <2>2
    <2> QED
      BY <1>8, <2>1, <2>3 DEF x
  <1> HIDE DEF S
  <1>11. e \in S
    BY <1>n, <1>9, <1>10, UpTo
  <1>12. Q(0, at[e])
    <2>1. 8 * e - 8 * e = 0
      BY <1>n
    <2> QED
      BY <1>11, <2>1 DEF S
  <1>13. Stepped(r, n, at[e])
    <2> DEFINE x == at[e]
    <2>1. Collecting(r, n, x) /\ (Unturned(x) = 0 \/ Unturned(x) <= 0)
      BY <1>12 DEF Q
    <2> HIDE DEF x
    <2>2. Unturned(x) \in Nat /\ (x.result # "go" <=> Unturned(x) = 0)
      BY <2>1, ErrorUnturned
    <2>3. x.result # "go"
      BY <2>1, <2>2
    <2>4. Stepped(r, n, x)
      BY <2>1, <2>3 DEF Collecting
    <2> QED
      BY <2>4 DEF x
  <1> QED
    BY <1>1, <1>13

(* error_drain_step leaves a stream that waits or is over.                  *)
LEMMA ErrorDrainGood ==
    ASSUME NEW r, NEW n, NEW s, Failing(r, n, s)
    PROVE  Stepped(r, n, ErrorDrain(s))
  <1> DEFINE t == Setout(s)
             m == Len(s.preread)
             d == ErrorAdds(t, m)
  <1>1. ErrorDrain(s) = Loop(ErrorTurn, d)
    BY DEF ErrorDrain, Setout
  <1>2. SetOff(r, n, s, t)
    BY SetOffIs DEF Failing
  <1> HIDE DEF t
  <1>3. Failing(r, n, t) /\ t.result = "go"
    BY <1>2 DEF Failing, SetOff
  <1> HIDE DEF m
  <1>4. AddedTo(r, n, t, d)
    BY <1>3, ErrorAddsGood
  <1> HIDE DEF d
  <1>5. Collecting(r, n, d) /\ Unread(d) \in Nat
    BY <1>4, AddedCollects
  <1>6. Stepped(r, n, Loop(ErrorTurn, d))
    BY <1>5, ErrorLoop
  <1> QED
    BY <1>1, <1>6

(* The head is here, and what came with it is kept aside.                   *)
Checking(r, n, s) ==
    /\ Live(r, n, s) /\ s.error_mode = "no" /\ s.answer = NoAnswer /\ s.sse = NewParser
    /\ s.preread = Cut(Bytes(r), 0, Given(r, n, s.conn)) /\ s.conn.body_started

(* In front of the first byte nothing is said.                              *)
LEMMA NothingSaid ==
    ASSUME NEW r \in Replies
    PROVE  Says(r, 0).p = NewParser /\ Events(r, 0) = 0 /\ ~NoAnswer.saw_done
  <1>1. Says(r, 0) = [p |-> NewParser, emitted |-> FALSE, data |-> <<>>, events |-> 0]
    BY SaysFrom
  <1>2. NoAnswer.saw_done = FALSE
    BY DEF NoAnswer
  <1>3. ~NoAnswer.saw_done
    BY <1>2, Zenon
  <1> QED
    BY <1>1, <1>3 DEF Events

(* The head's verdict, and the step behind it.                              *)
LEMMA HeadCheckGood ==
    ASSUME NEW r, NEW n, NEW s, Checking(r, n, s)
    PROVE  Stepped(r, n, HeadCheck(s))
  <1> DEFINE t == [s EXCEPT !.head_checked = TRUE]
             d == HeadCheck(s)
  <1>1. /\ Live(r, n, s) /\ Conn(r, n, s.conn) /\ IsChat(s) /\ s.done = FALSE
        /\ s.tail \in Nat \cup {-1} /\ s.conn.body_started
    BY DEF Checking, Live
  <1>2. r \in Replies /\ Within(Bytes(r), 0, Given(r, n, s.conn))
    BY <1>1, ConnHas
  <1>3. s.conn.resp = Top(r).resp
    BY <1>1, ConnHas
  <1>4. t = [s EXCEPT !.head_checked = TRUE]
    OBVIOUS
  <1> HIDE DEF t, d
  <1>5. /\ IsChat(t) /\ t.head_checked = TRUE
        /\ t.conn = s.conn /\ t.sse = s.sse /\ t.preread = s.preread
        /\ t.error_mode = s.error_mode /\ t.error_len = s.error_len /\ t.done = s.done
        /\ t.tail = s.tail /\ t.answer = s.answer /\ t.result = s.result
    BY <1>1, <1>4, Set_head_checked
  <1>6. t.head_checked /\ t.head_checked \in BOOLEAN
    BY <1>5, Zenon
  <1>7. Live(r, n, t)
    BY <1>1, <1>5, <1>6 DEF Live
  <1>8. CASE Streams(r)
    <2>1. d = StreamStep(t)
      BY <1>3, <1>4, <1>8 DEF HeadCheck, Streams, d
    <2>2. t.sse = Says(r, 0).p /\ t.answer = NoAnswer /\ Events(r, 0) = 0 /\ ~NoAnswer.saw_done
      BY <1>2, <1>5, NothingSaid DEF Checking
    <2>3. Answer(r, Events(r, 0), t.answer) /\ ~t.answer.saw_done
      BY <1>2, <2>2, AnswerBegins
    <2>4. Hears(r, n, 0, t)
      BY <1>2, <1>5, <1>6, <1>7, <1>8, <2>2, <2>3 DEF Hears, Checking
    <2>5. t.preread = Cut(Bytes(r), 0, Given(r, n, t.conn))
      BY <1>5 DEF Checking
    <2>6. Stepped(r, n, d)
      BY <2>1, <2>4, <2>5, StreamStepGood
    <2> QED
      BY <2>6 DEF d
  <1>9. CASE ~Streams(r)
    <2> DEFINE why == IF s.conn.resp.status \in {401, 403} THEN "auth" ELSE "http"
               u == [t EXCEPT !.error_mode = why]
    <2>1. d = ErrorDrain(u)
      BY <1>3, <1>4, <1>9 DEF HeadCheck, Streams, d
    <2>2. u = [t EXCEPT !.error_mode = why]
      OBVIOUS
    <2>3. why \in {"no", "auth", "http"} /\ why # "no"
      OBVIOUS
    <2> HIDE DEF u, why
    <2>4. /\ IsChat(u) /\ u.error_mode = why
          /\ u.conn = t.conn /\ u.sse = t.sse /\ u.preread = t.preread
          /\ u.head_checked = t.head_checked /\ u.error_len = t.error_len /\ u.done = t.done
          /\ u.tail = t.tail /\ u.answer = t.answer /\ u.result = t.result
      BY <1>5, <2>2, Set_error_mode
    <2>5. Live(r, n, u)
      BY <1>7, <2>3, <2>4 DEF Live
    <2>6. Failing(r, n, u)
      BY <1>5, <1>9, <2>3, <2>4, <2>5 DEF Failing, Checking
    <2>7. Stepped(r, n, d)
      BY <2>1, <2>6, ErrorDrainGood
    <2> QED
      BY <2>7 DEF d
  <1> QED
    BY <1>8, <1>9

(* head_pull_step leaves a stream that waits or is over.                    *)
LEMMA HeadPullGood ==
    ASSUME NEW r, NEW n, NEW s, Opening(r, n, s)
    PROVE  Stepped(r, n, HeadPull(s))
  <1> DEFINE y == ReadBody(s.conn, BufMax)
             t == [s EXCEPT !.conn = y.c]
             d == HeadPull(s)
  <1>1. Live(r, n, s) /\ Conn(r, n, s.conn) /\ Given(r, n, s.conn) = 0
    BY DEF Opening, Live
  <1>2. ReadOf(r, n, s.conn, y)
    BY <1>1, BuffersAssumption, BodyRead
  <1>3. d = CASE y.ret = "block" -> Returns(t, "pending")
              [] y.ret = "error" -> Ends(t, "transport")
              [] OTHER -> HeadCheck([t EXCEPT !.preread = y.out])
    BY DEF HeadPull
  <1>4. t = [s EXCEPT !.conn = y.c]
    OBVIOUS
  <1> HIDE DEF y, t, d
  <1>5. IsChat(t)
    BY <1>1, <1>4, Set_conn DEF Live
  <1>6. y.ret # "error" => ConnSet(r, n, s, y.c, t)
    <2> SUFFICES ASSUME y.ret # "error" PROVE ConnSet(r, n, s, y.c, t)
      OBVIOUS
    <2>1. Conn(r, n, y.c)
      BY <1>2 DEF ReadOf
    <2> QED
      BY <1>1, <1>4, <2>1, ConnSetIs
  <1>7. CASE y.ret = "block"
    <2> DEFINE what == "pending"
    <2>1. d = Returns(t, what)
      BY <1>3, <1>7
    <2>2. ConnSet(r, n, s, y.c, t) /\ Given(r, n, y.c) = Pay(r, n) /\ Given(r, n, y.c) = 0
      BY <1>1, <1>2, <1>6, <1>7 DEF ReadOf
    <2>3. Opening(r, n, t) /\ Live(r, n, t) /\ Given(r, n, t.conn) = Pay(r, n)
      BY <2>2 DEF Opening, ConnSet
    <2> HIDE DEF what
    <2>4. ResultSet(r, n, t, what, d)
      BY <2>1, <2>3, ResultSetIs
    <2>5. Opening(r, n, d) /\ d.result = "pending" /\ Given(r, n, d.conn) = Pay(r, n)
      BY <2>3, <2>4 DEF Opening, ResultSet, what
    <2>6. Stepped(r, n, d)
      BY <2>5 DEF Stepped, Waiting, Mode
    <2> QED
      BY <2>6 DEF d
  <1>8. CASE y.ret = "error"
    <2> DEFINE why == "transport"
    <2>1. d = Ends(t, why)
      BY <1>3, <1>8
    <2>2. why # "ok" /\ why # "go"
      OBVIOUS
    <2> HIDE DEF why
    <2>3. IsOver(r, n, Ends(t, why))
      BY <1>5, <2>2, OverOther
    <2>4. Stepped(r, n, d)
      BY <2>1, <2>3 DEF Stepped
    <2> QED
      BY <2>4 DEF d
  <1>9. CASE y.ret \in {"data", "end"}
    <2> DEFINE out == y.out
               u == [t EXCEPT !.preread = out]
    <2>1. d = HeadCheck(u)
      BY <1>3, <1>9
    <2>2. u = [t EXCEPT !.preread = out]
      OBVIOUS
    <2>3. ConnSet(r, n, s, y.c, t) /\ y.c.body_started /\ out = Cut(Bytes(r), 0, Given(r, n, y.c))
      BY <1>1, <1>2, <1>6, <1>9 DEF ReadOf
    <2> HIDE DEF u, out
    <2>4. /\ IsChat(u) /\ u.preread = out
          /\ u.conn = t.conn /\ u.sse = t.sse
          /\ u.head_checked = t.head_checked /\ u.error_mode = t.error_mode /\ u.error_len = t.error_len
          /\ u.done = t.done /\ u.tail = t.tail /\ u.answer = t.answer /\ u.result = t.result
      BY <1>5, <2>2, Set_preread
    <2>5. Live(r, n, t) /\ t.conn = y.c /\ t.error_mode = "no" /\ t.answer = NoAnswer /\ t.sse = NewParser
      BY <2>3 DEF ConnSet, Opening
    <2>6. Live(r, n, u)
      BY <2>4, <2>5 DEF Live
    <2>7. Checking(r, n, u)
      BY <2>3, <2>4, <2>5, <2>6 DEF Checking
    <2>8. Stepped(r, n, d)
      BY <2>1, <2>7, HeadCheckGood
    <2> QED
      BY <2>8 DEF d
  <1>10. y.ret \in {"data", "end", "block", "error"}
    BY <1>2 DEF ReadOf
  <1> QED
    BY <1>7, <1>8, <1>9, <1>10

(* A step of a stream whose connection is up.                               *)
LEMMA ChatStepGood ==
    ASSUME NEW r, NEW n, NEW s, Mode(r, n, s), phase = "up"
    PROVE  Stepped(r, n, ChatStep(s))
  <1>1. Live(r, n, s)
    BY ModeHas
  <1>2. s.done = FALSE
    BY <1>1 DEF Live
  <1>3. ~s.done
    BY <1>2, Zenon
  <1>4. ChatStep(s) = CASE s.error_mode # "no" -> ErrorDrain(s)
                        [] s.error_mode = "no" /\ s.head_checked ->
                             IF s.answer.saw_done THEN TailStep(s) ELSE StreamStep(s)
                        [] s.error_mode = "no" /\ ~s.head_checked ->
                             IF s.conn.resp.status = 0 THEN HeadPull(s) ELSE HeadCheck(s)
    BY <1>3 DEF ChatStep
  <1>5. CASE Failing(r, n, s)
    <2>1. ChatStep(s) = ErrorDrain(s)
      BY <1>4, <1>5 DEF Failing
    <2> QED
      BY <1>5, <2>1, ErrorDrainGood
  <1>6. CASE Tailing(r, n, s)
    <2>1. ChatStep(s) = TailStep(s)
      BY <1>4, <1>6 DEF Tailing
    <2> QED
      BY <1>6, <2>1, TailStepGood
  <1>7. CASE Listening(r, n, s)
    <2> DEFINE g == Given(r, n, s.conn)
    <2>1. ChatStep(s) = StreamStep(s)
      BY <1>4, <1>7 DEF Listening
    <2>2. Hears(r, n, g, s) /\ s.preread = <<>>
      BY <1>7, ListeningIs
    <2>3. Cut(Bytes(r), g, g) = <<>>
      <3>1. Within(Bytes(r), g, g)
        BY <2>2 DEF Hears
      <3> QED
        BY <3>1, CutEmpty
    <2> QED
      BY <2>1, <2>2, <2>3, StreamStepGood
  <1>8. CASE Opening(r, n, s)
    <2>1. CASE s.conn.resp.status = 0
      <3>1. ChatStep(s) = HeadPull(s)
        BY <1>4, <1>8, <2>1 DEF Opening
      <3> QED
        BY <1>8, <3>1, HeadPullGood
    <2>2. CASE s.conn.resp.status # 0
      <3>1. ChatStep(s) = HeadCheck(s)
        BY <1>4, <1>8, <2>2 DEF Opening
      <3>2. Conn(r, n, s.conn) /\ Given(r, n, s.conn) = 0 /\ s.preread = <<>>
        BY <1>1, <1>8 DEF Live, Opening
      <3>3. s.conn.body_started
        BY <2>2, <3>2, ConnHas
      <3>4. Cut(Bytes(r), 0, 0) = <<>>
        <4>1. Within(Bytes(r), Given(r, n, s.conn), Given(r, n, s.conn))
          BY <3>2, ConnHas
        <4>2. Within(Bytes(r), 0, 0)
          BY <3>2, <4>1
        <4> QED
          BY <4>2, CutEmpty
      <3>5. Checking(r, n, s)
        BY <1>8, <3>2, <3>3, <3>4 DEF Checking, Opening
      <3> QED
        BY <3>1, <3>5, HeadCheckGood
    <2> QED
      BY <2>1, <2>2
  <1> QED
    BY <1>5, <1>6, <1>7, <1>8 DEF Mode

-----------------------------------------------------------------------------
(* What the actions of a behaviour do.                                      *)

(* m tokens more arrive at a socket whose own are read: nothing more of     *)
(* them is given on yet.                                                    *)
Arriving(r, n, c, m, d) ==
    /\ Conn(r, n, c) /\ m \in Nat \ {0} /\ n + m <= Len(r.wire) /\ c.net = <<>>
    /\ d = [c EXCEPT !.net = @ \o SubSeq(r.wire, n + 1, n + m)]

Landed(r, n, N, c, d) == Conn(r, N, d) /\ Given(r, N, d) = Given(r, n, c) /\ d.net # <<>>

(* The connection reads the longer reply, from where it was.                *)
LEMMA ArriveConn ==
    ASSUME NEW r, NEW n, NEW c, NEW m, NEW d, Arriving(r, n, c, m, d)
    PROVE  Landed(r, n, n + m, c, d)
  <1>0. /\ Conn(r, n, c) /\ m \in Nat \ {0} /\ n + m <= Len(r.wire) /\ c.net = <<>>
        /\ d = [c EXCEPT !.net = @ \o SubSeq(r.wire, n + 1, n + m)]
    BY DEF Arriving
  <1> DEFINE N == n + m
             k == Place(n, c)
             q == Drawn(n, c)
             w == r.wire
             x == Cut(w, n, N)
             u == c.net \o x
  <1>1. /\ ReadsTo(r, n, c, k, q) /\ q = n /\ n \in Nat /\ Len(w) \in Nat /\ IsConn(c)
    <2>1. Reads(r, n, c) /\ c.net = <<>>
      BY <1>0 DEF Conn
    <2>2. ReadsTo(r, n, c, k, q) /\ n \in Nat /\ Len(w) \in Nat /\ (c.net = <<>> <=> q = n)
      BY <2>1, ReadsHas
    <2>3. IsConn(c)
      BY <2>2 DEF ReadsTo
    <2> QED
      BY <2>1, <2>2, <2>3
  <1>2. Within(w, n, N) /\ Within(w, k, n) /\ c.scratch = Cut(w, k, n)
    BY <1>0, <1>1 DEF ReadsTo, Within
  <1>3. u = x
    <2>1. x \in Seq(ToSet(w))
      BY <1>2, CutIs
    <2> HIDE DEF x
    <2> QED
      BY <1>0, <2>1
  <1>4. d = [c EXCEPT !.net = u]
    BY <1>0 DEF Cut
  <1>5. x # <<>>
    <2>1. n # N
      BY <1>0, <1>1
    <2> QED
      BY <1>2, <2>1, CutEmpty
  <1> HIDE DEF u, x
  <1>6. /\ IsConn(d) /\ d.net = u /\ d.closed = c.closed /\ d.scratch = c.scratch
        /\ d.body_started = c.body_started /\ d.resp = c.resp
        /\ d.body_read = c.body_read /\ d.body = c.body
    <2>1. IsConn(c)
      BY <1>1
    <2>2. IsConn(d)
      BY <1>4, <2>1 DEF IsConn
    <2>3. d.net = u /\ d.closed = c.closed /\ d.scratch = c.scratch
      BY <1>4, <2>1 DEF IsConn
    <2>4. d.body_started = c.body_started /\ d.resp = c.resp /\ d.body_read = c.body_read /\ d.body = c.body
      BY <1>4, <2>1 DEF IsConn
    <2> QED
      BY <2>2, <2>3, <2>4
  <1> HIDE DEF N, k, w
  <1>7. ReadsTo(r, N, d, k, n)
    BY <1>1, <1>2, <1>3, <1>6 DEF ReadsTo, x, w
  <1>8. Place(N, d) = k /\ Reads(r, N, d)
    BY <1>7, ReadsAre
  <1>9. Len(d.scratch) <= ScratchMax
    BY <1>0, <1>6 DEF Conn
  <1>10. Given(r, N, d) = Given(r, n, c)
    BY <1>8 DEF Given, k
  <1> QED
    BY <1>3, <1>5, <1>6, <1>8, <1>9, <1>10 DEF Conn, N, Landed

(* The peer's close is no byte more.                                        *)
LEMMA CloseConn ==
    ASSUME NEW r, NEW n, NEW c, Conn(r, n, c), NEW d, d = [c EXCEPT !.closed = TRUE]
    PROVE  Conn(r, n, d) /\ Given(r, n, d) = Given(r, n, c) /\ d.net = c.net
  <1> DEFINE k == Place(n, c)
             q == Drawn(n, c)
  <1>1. ReadsTo(r, n, c, k, q) /\ IsConn(c)
    BY ReadsHas DEF Conn, ReadsTo
  <1>2. IsConn(d)
    BY <1>1 DEF IsConn
  <1>3. /\ d.net = c.net /\ d.closed = TRUE /\ d.scratch = c.scratch
        /\ d.body_started = c.body_started /\ d.resp = c.resp
        /\ d.body_read = c.body_read /\ d.body = c.body
    BY <1>1 DEF IsConn
  <1>4. d.closed \in BOOLEAN
    BY <1>3, Zenon
  <1> HIDE DEF k, q
  <1>5. ReadsTo(r, n, d, k, q)
    BY <1>1, <1>2, <1>3, <1>4 DEF ReadsTo
  <1>6. Place(n, d) = k /\ Reads(r, n, d)
    BY <1>5, ReadsAre
  <1> QED
    BY <1>3, <1>6 DEF Conn, Given, k

(* A connection as it begins has read nothing.                              *)
LEMMA FreshConn ==
    ASSUME NEW r \in Replies
    PROVE  Conn(r, 0, Fresh) /\ Given(r, 0, Fresh) = 0 /\ Pay(r, 0) = 0
  <1> DEFINE nil == <<>>
             c == Fresh
             w == r.wire
  <1>1. /\ IsConn(c) /\ c.net = nil /\ c.closed = FALSE /\ c.scratch = nil
        /\ c.body_started = FALSE
    BY DEF IsConn, Fresh
  <1>2. c.body_read = 0
    BY DEF Fresh
  <1>3. c.closed \in BOOLEAN /\ c.body_started \in BOOLEAN /\ ~c.body_started
    BY <1>1, Zenon
  <1>4. Within(w, 0, 0) /\ Cut(w, 0, 0) = nil /\ IsSeq(w) /\ Len(w) \in Nat
    <2>1. IsSeq(w)
      BY ReplyAssumption DEF IsReply, IsSeq
    <2>2. Within(w, 0, 0) /\ Len(w) \in Nat
      BY <2>1, CutWhole, SeqHas
    <2> QED
      BY <2>1, <2>2, CutEmpty
  <1> HIDE DEF nil, w, c
  <1>5. ReadsTo(r, 0, c, 0, 0)
    BY <1>1, <1>2, <1>3, <1>4 DEF ReadsTo, w, c
  <1>6. Place(0, c) = 0 /\ Reads(r, 0, c)
    BY <1>5, ReadsAre
  <1>7. Len(c.scratch) = 0
    BY <1>1 DEF nil
  <1>8. ScratchMax \in Nat
    BY SizesAssumption
  <1>9. Conn(r, 0, c)
    BY <1>6, <1>7, <1>8 DEF Conn
  <1>10. Pay(r, 0) = 0
    <2> DEFINE none == <<>>
    <2> DEFINE hl == HeadLen(r)
               wl == Len(r.wire)
    <2>0. wl \in Nat /\ hl \in 0 .. wl
      BY TopIs
    <2> HIDE DEF hl, wl
    <2>1. 0 \in 0 .. Len(r.wire) /\ 0 <= HeadLen(r)
      <3>1. 0 \in 0 .. wl /\ 0 <= hl
        BY <2>0
      <3> QED
        BY <3>1 DEF hl, wl
    <2>2. At(r, 0) = [body |-> Top(r).body, out |-> none]
      BY <2>1, AtIs
    <2>3. Len(none) = 0
      OBVIOUS
    <2> HIDE DEF none
    <2>4. At(r, 0).out = none
      BY <2>2
    <2> QED
      BY <2>3, <2>4 DEF Pay
  <1> QED
    BY <1>6, <1>9, <1>10 DEF Given, c

(* A stream goes on being what it is when more arrives, and with nothing of *)
(* it read.                                                                 *)
Moved(r, n, s, t) ==
    /\ Mode(r, n, t) /\ IsChat(t) /\ t.done = FALSE /\ t.result = s.result

(* It does.                                                                 *)
LEMMA MoveGood ==
    ASSUME NEW r, NEW n, NEW s, Mode(r, n, s), NEW m, NEW c, Conn(r, m, c), n <= m,
           Given(r, m, c) = Given(r, n, s.conn), NEW t, t = [s EXCEPT !.conn = c]
    PROVE  Moved(r, m, s, t)
  <1>1. Live(r, n, s)
    BY ModeHas
  <1>2. /\ IsChat(t) /\ t.conn = c
        /\ t.sse = s.sse /\ t.preread = s.preread /\ t.head_checked = s.head_checked
        /\ t.error_mode = s.error_mode /\ t.error_len = s.error_len /\ t.done = s.done
        /\ t.tail = s.tail /\ t.answer = s.answer /\ t.result = s.result
    BY <1>1, Set_conn DEF Live
  <1>3. Live(r, m, t) /\ t.done = FALSE
    BY <1>1, <1>2 DEF Live
  <1>4. r \in Replies /\ m \in 0 .. Len(r.wire) /\ n \in 0 .. m
    <2>1. n \in Nat /\ Conn(r, n, s.conn)
      BY <1>1, ConnHas DEF Live
    <2>2. n \in Nat
      BY <2>1, ConnHas
    <2>3. r \in Replies /\ m \in 0 .. Len(r.wire) /\ m \in Nat
      BY ConnHas
    <2> QED
      BY <2>2, <2>3
  <1>5. Mode(r, m, t)
    <2>1. CASE Opening(r, n, s)
      <3>1. Opening(r, m, t)
        BY <1>2, <1>3, <2>1 DEF Opening
      <3> QED
        BY <3>1 DEF Mode
    <2>2. CASE Listening(r, n, s)
      <3>1. Listening(r, m, t)
        BY <1>2, <1>3, <2>2 DEF Listening
      <3> QED
        BY <3>1 DEF Mode
    <2>3. CASE Tailing(r, n, s)
      <3>1. PICK k \in 0 .. Arrived(r, n) : Answer(r, k, s.answer)
        BY <2>3 DEF Tailing, Ready
      <3>2. Arrived(r, n) \in Nat /\ Arrived(r, m) \in Nat /\ Arrived(r, n) <= Arrived(r, m)
        <4> DEFINE x == Arrived(r, m)
                   y == Arrived(r, n)
        <4>1. x \in Nat /\ y \in Nat /\ y <= x
          BY <1>4, ArrivedIs
        <4> QED
          BY <4>1
      <3>3. k \in 0 .. Arrived(r, m)
        BY <3>1, <3>2
      <3>4. t.answer.saw_done /\ Answer(r, k, t.answer)
        BY <1>2, <2>3, <3>1 DEF Tailing
      <3>5. Ready(r, m, t)
        BY <1>2, <3>3, <3>4 DEF Ready
      <3>6. Tailing(r, m, t)
        BY <1>2, <1>3, <2>3, <3>5 DEF Tailing
      <3> QED
        BY <3>6 DEF Mode
    <2>4. CASE Failing(r, n, s)
      <3>1. Failing(r, m, t)
        BY <1>2, <1>3, <2>4 DEF Failing
      <3> QED
        BY <3>1 DEF Mode
    <2> QED
      BY <2>1, <2>2, <2>3, <2>4 DEF Mode
  <1> QED
    BY <1>2, <1>3, <1>5 DEF Moved

(* A tick of the tail's budget.                                             *)
LEMMA TickGood ==
    ASSUME NEW r, NEW n, NEW s, Mode(r, n, s), s.tail > 0, NEW t, t = [s EXCEPT !.tail = @ - 1]
    PROVE  Moved(r, n, s, t) /\ t.conn = s.conn
  <1> DEFINE y == s.tail - 1
  <1>1. Live(r, n, s) /\ s.tail \in Nat \cup {-1}
    BY ModeHas DEF Live
  <1>2. y \in Nat
    BY <1>1
  <1>3. t = [s EXCEPT !.tail = y]
    OBVIOUS
  <1> HIDE DEF y
  <1>4. /\ IsChat(t) /\ t.tail = y
        /\ t.conn = s.conn /\ t.sse = s.sse /\ t.preread = s.preread
        /\ t.head_checked = s.head_checked /\ t.error_mode = s.error_mode /\ t.error_len = s.error_len
        /\ t.done = s.done /\ t.answer = s.answer /\ t.result = s.result
    BY <1>1, <1>3, Set_tail DEF Live
  <1>5. Live(r, n, t) /\ t.done = FALSE
    BY <1>1, <1>2, <1>4 DEF Live
  <1>6. Opening(r, n, s) => Opening(r, n, t)
    BY <1>4, <1>5 DEF Opening
  <1>7. Listening(r, n, s) => Listening(r, n, t)
    BY <1>4, <1>5 DEF Listening
  <1>8. Tailing(r, n, s) => Tailing(r, n, t)
    <2>1. Ready(r, n, s) => Ready(r, n, t)
      BY <1>4 DEF Ready
    <2> QED
      BY <1>4, <1>5, <2>1 DEF Tailing
  <1>9. Failing(r, n, s) => Failing(r, n, t)
    BY <1>4, <1>5 DEF Failing
  <1>10. Mode(r, n, t)
    BY <1>6, <1>7, <1>8, <1>9 DEF Mode
  <1> QED
    BY <1>4, <1>5, <1>10 DEF Moved

(* A stream as it begins.                                                   *)
LEMMA BegunIs ==
    /\ IsChat(Begun) /\ Begun.conn = Fresh /\ Begun.done = FALSE /\ Begun.result = "pending"
    /\ Begun.tail = -1 /\ Begun.answer = NoAnswer
  <1>1. IsChat(Begun)
    BY DEF IsChat, Begun
  <1>2. Begun.conn = Fresh /\ Begun.done = FALSE
    BY DEF Begun
  <1>3. Begun.result = "pending" /\ Begun.tail = -1 /\ Begun.answer = NoAnswer
    BY DEF Begun
  <1> QED
    BY <1>1, <1>2, <1>3

(* It waits for the head.                                                   *)
LEMMA BegunOpens ==
    ASSUME NEW r \in Replies
    PROVE  Mode(r, 0, Begun) /\ Given(r, 0, Begun.conn) = Pay(r, 0)
  <1>1. Begun.sse = NewParser /\ Begun.preread = <<>> /\ Begun.error_mode = "no"
    BY DEF Begun
  <1>2. Begun.head_checked = FALSE
    BY DEF Begun
  <1>3. ~Begun.head_checked /\ Begun.head_checked \in BOOLEAN
    BY <1>2, Zenon
  <1>4. Conn(r, 0, Fresh) /\ Given(r, 0, Fresh) = 0 /\ Pay(r, 0) = 0
    BY FreshConn
  <1>5. Live(r, 0, Begun)
    BY <1>1, <1>3, <1>4, BegunIs DEF Live
  <1>6. Opening(r, 0, Begun) /\ Given(r, 0, Begun.conn) = Pay(r, 0)
    BY <1>1, <1>3, <1>4, <1>5, BegunIs DEF Opening
  <1> QED
    BY <1>6 DEF Mode

-----------------------------------------------------------------------------
(* What a stream keeps, however the reply is cut into segments.             *)
EndsRight(n, s) == s.result = "ok" => Concluded(reply, n, s)

WaitsRight(n, s) ==
    /\ s.result = "pending" /\ Mode(reply, n, s)
    /\ s.conn.net = <<>> => Given(reply, n, s.conn) = Pay(reply, n)

StreamHolds ==
    /\ reply \in Replies /\ sent \in 0 .. Len(reply.wire)
    /\ phase \in {"none", "refused", "connecting", "up", "failed"}
    /\ IsChat(h) /\ h.done \in BOOLEAN
    /\ h.done => EndsRight(sent, h)
    /\ ~h.done => WaitsRight(sent, h)
    /\ ~h.done /\ phase # "up" => h = Begun /\ sent = 0

(* It holds of a stream nobody has begun.                                   *)
LEMMA StreamHoldsInit ==
    ASSUME StreamInit
    PROVE  StreamHolds
  <1>1. reply \in Replies /\ sent = 0 /\ phase = "none" /\ h = Begun
    BY DEF StreamInit
  <1>2. 0 \in 0 .. Len(reply.wire)
    <2>1. Len(reply.wire) \in Nat
      BY <1>1, TopIs
    <2> QED
      BY <2>1
  <1>3. h.done = FALSE /\ IsChat(h) /\ h.result = "pending"
    BY <1>1, BegunIs
  <1>4. ~h.done /\ h.done \in BOOLEAN
    BY <1>3, Zenon
  <1>5. WaitsRight(sent, h)
    BY <1>1, <1>3, BegunOpens DEF WaitsRight
  <1> QED
    BY <1>1, <1>2, <1>3, <1>4, <1>5 DEF StreamHolds

(* A step that leaves a stream behind that is Stepped.                      *)
LEMMA SteppedHolds ==
    ASSUME NEW r, NEW n, NEW s, Stepped(r, n, s)
    PROVE  /\ IsChat(s) /\ s.done \in BOOLEAN
           /\ s.done => (s.result = "ok" => Concluded(r, n, s))
           /\ ~s.done => Waiting(r, n, s)
  <1>1. CASE IsOver(r, n, s)
    <2>1. IsChat(s) /\ s.done = TRUE /\ (s.result = "ok" => Concluded(r, n, s))
      BY <1>1 DEF IsOver
    <2>2. s.done /\ s.done \in BOOLEAN
      BY <2>1, Zenon
    <2> QED
      BY <2>1, <2>2
  <1>2. CASE Waiting(r, n, s)
    <2>1. Live(r, n, s)
      BY <1>2, ModeHas DEF Waiting
    <2>2. IsChat(s) /\ s.done = FALSE
      BY <2>1 DEF Live
    <2>3. ~s.done /\ s.done \in BOOLEAN
      BY <2>2, Zenon
    <2> QED
      BY <1>2, <2>2, <2>3
  <1> QED
    BY <1>1, <1>2 DEF Stepped

(* A stream that is not over, as it is found in a state that holds.         *)
LEMMA HoldsHas ==
    ASSUME StreamHolds, ~h.done
    PROVE  /\ reply \in Replies /\ sent \in 0 .. Len(reply.wire) /\ sent \in Nat /\ Len(reply.wire) \in Nat
           /\ phase \in {"none", "refused", "connecting", "up", "failed"}
           /\ h.result = "pending" /\ Mode(reply, sent, h) /\ IsChat(h) /\ Conn(reply, sent, h.conn)
           /\ h.conn.net = <<>> => Given(reply, sent, h.conn) = Pay(reply, sent)
           /\ phase # "up" => h = Begun /\ sent = 0
  <1>1. reply \in Replies /\ sent \in 0 .. Len(reply.wire)
    BY DEF StreamHolds
  <1>2. Len(reply.wire) \in Nat
    BY <1>1, TopIs
  <1>3. WaitsRight(sent, h)
    BY DEF StreamHolds
  <1>4. Conn(reply, sent, h.conn)
    <2>1. Live(reply, sent, h)
      BY <1>3, ModeHas DEF WaitsRight
    <2> QED
      BY <2>1 DEF Live
  <1> QED
    BY <1>1, <1>2, <1>3, <1>4 DEF StreamHolds, WaitsRight

(* A step that changes nothing keeps it; from here on, one lemma an action. *)
LEMMA KeepsStep ==
    ASSUME StreamHolds, UNCHANGED streamVars
    PROVE  StreamHolds'
  BY DEF StreamHolds, EndsRight, WaitsRight, streamVars

(* A stream whose phase alone changes, from one to another.                 *)
LEMMA PhaseHolds ==
    ASSUME StreamHolds, UNCHANGED <<reply, sent, h>>, h.done \/ (h = Begun /\ sent = 0),
           phase' \in {"none", "refused", "connecting", "up", "failed"}
    PROVE  StreamHolds'
  BY DEF StreamHolds, EndsRight, WaitsRight

(* Begin keeps it.                                                          *)
LEMMA BeginHolds ==
    ASSUME StreamHolds, Begin
    PROVE  StreamHolds'
  <1>1. UNCHANGED <<reply, sent, h>> /\ phase = "none"
        /\ phase' \in {"none", "refused", "connecting", "up", "failed"}
    BY DEF Begin
  <1>2. h.done \/ (h = Begun /\ sent = 0)
    BY <1>1 DEF StreamHolds
  <1> QED
    BY <1>1, <1>2, PhaseHolds

(* Connects keeps it.                                                       *)
LEMMA ConnectsHolds ==
    ASSUME StreamHolds, Connects
    PROVE  StreamHolds'
  <1>1. UNCHANGED <<reply, sent, h>> /\ phase = "connecting"
        /\ phase' \in {"none", "refused", "connecting", "up", "failed"}
    BY DEF Connects
  <1>2. h.done \/ (h = Begun /\ sent = 0)
    BY <1>1 DEF StreamHolds
  <1> QED
    BY <1>1, <1>2, PhaseHolds

(* The stream goes on, with what it has been given and what has arrived.    *)
LEMMA LiveHolds ==
    ASSUME StreamHolds, UNCHANGED <<reply, phase>>, phase = "up", sent' \in 0 .. Len(reply.wire),
           IsChat(h'), h'.done = FALSE, h'.result = "pending", Mode(reply, sent', h'),
           h'.conn.net = <<>> => Given(reply, sent', h'.conn) = Pay(reply, sent')
    PROVE  StreamHolds'
  <1>1. ~h'.done /\ h'.done \in BOOLEAN
    BY Zenon
  <1>2. reply' = reply /\ phase' = "up" /\ reply \in Replies
    BY DEF StreamHolds
  <1>3. WaitsRight(sent, h)'
    BY <1>2 DEF WaitsRight
  <1>4. (reply \in Replies)' /\ (sent \in 0 .. Len(reply.wire))' /\ IsChat(h)'
    BY <1>2
  <1> QED
    BY <1>1, <1>2, <1>3, <1>4 DEF StreamHolds

(* Arrive keeps it: what is new is in the socket, unread.                   *)
LEMMA ArriveHolds ==
    ASSUME StreamHolds, NEW n \in 1 .. Len(reply.wire), Arrive(n)
    PROVE  StreamHolds'
  <1> DEFINE s == h
             c == s.conn
             d == [c EXCEPT !.net = @ \o SubSeq(reply.wire, sent + 1, sent + n)]
             t == [s EXCEPT !.conn = d]
             m == sent + n
             L == Len(reply.wire)
  <1>1. phase = "up" /\ ~h.done /\ c.net = <<>> /\ sent' = m /\ UNCHANGED <<reply, phase>>
    BY DEF Arrive
  <1>2. h' = t
    BY DEF Arrive
  <1>3. (n <= SegMax /\ m <= L) \/ m = L
    BY DEF Arrive
  <1>4. /\ sent \in 0 .. L /\ sent \in Nat /\ L \in Nat
        /\ h.result = "pending" /\ Mode(reply, sent, h) /\ Conn(reply, sent, c)
    BY <1>1, HoldsHas
  <1>5. n \in Nat \ {0} /\ m <= L /\ sent <= m /\ m \in 0 .. L
    BY <1>3, <1>4
  <1>6. t = [s EXCEPT !.conn = d] /\ d = [c EXCEPT !.net = @ \o SubSeq(reply.wire, sent + 1, sent + n)]
    OBVIOUS
  <1> HIDE DEF t, d
  <1>7. Conn(reply, m, d) /\ Given(reply, m, d) = Given(reply, sent, c) /\ d.net # <<>>
    <2>1. n \in Nat \ {0} /\ sent + n <= Len(reply.wire)
      BY <1>5
    <2>2. Arriving(reply, sent, c, n, d)
      BY <1>1, <1>4, <1>6, <2>1 DEF Arriving
    <2> HIDE DEF c
    <2>3. Landed(reply, sent, sent + n, c, d)
      BY <2>2, ArriveConn
    <2> QED
      BY <2>3 DEF Landed
  <1> HIDE DEF m, L
  <1>8. Moved(reply, m, s, t)
    BY <1>4, <1>5, <1>6, <1>7, MoveGood
  <1>9. t.conn = d
    <2>1. IsChat(s)
      BY DEF StreamHolds
    <2> QED
      BY <1>6, <2>1, Set_conn
  <1>10. /\ IsChat(t) /\ t.done = FALSE /\ t.result = "pending" /\ Mode(reply, m, t) /\ t.conn.net # <<>>
    BY <1>4, <1>7, <1>8, <1>9 DEF Moved
  <1> QED
    BY <1>1, <1>2, <1>5, <1>10, LiveHolds DEF L

(* PeerCloses keeps it.                                                     *)
LEMMA PeerClosesHolds ==
    ASSUME StreamHolds, PeerCloses
    PROVE  StreamHolds'
  <1> DEFINE s == h
             c == s.conn
             d == [c EXCEPT !.closed = TRUE]
             t == [s EXCEPT !.conn = d]
             n == sent
  <1>1. phase = "up" /\ ~h.done /\ sent' = n /\ UNCHANGED <<reply, phase>>
    BY DEF PeerCloses
  <1>2. h' = t
    BY DEF PeerCloses
  <1>4. /\ sent \in 0 .. Len(reply.wire) /\ sent \in Nat
        /\ h.result = "pending" /\ Mode(reply, sent, h) /\ Conn(reply, sent, c)
        /\ c.net = <<>> => Given(reply, n, c) = Pay(reply, n)
    BY <1>1, HoldsHas
  <1>5. n <= n /\ n \in 0 .. Len(reply.wire)
    BY <1>4
  <1>6. t = [s EXCEPT !.conn = d] /\ d = [c EXCEPT !.closed = TRUE]
    OBVIOUS
  <1> HIDE DEF t, d
  <1>7. Conn(reply, n, d) /\ Given(reply, n, d) = Given(reply, n, c) /\ d.net = c.net
    BY <1>4, <1>6, CloseConn
  <1>8. Moved(reply, n, s, t)
    BY <1>4, <1>5, <1>6, <1>7, MoveGood
  <1>9. t.conn = d
    <2>1. IsChat(s)
      BY DEF StreamHolds
    <2> QED
      BY <1>6, <2>1, Set_conn
  <1>10. /\ IsChat(t) /\ t.done = FALSE /\ t.result = "pending" /\ Mode(reply, n, t)
         /\ t.conn.net = <<>> => Given(reply, n, t.conn) = Pay(reply, n)
    BY <1>4, <1>7, <1>8, <1>9 DEF Moved
  <1> QED
    BY <1>1, <1>2, <1>5, <1>10, LiveHolds

(* Nothing wakes a stream that only connects.                               *)
LEMMA BegunSleeps ==
    ASSUME h = Begun
    PROVE  ~(h.tail > 0) /\ (Wakes => phase = "failed")
  <1>1. h.tail = -1 /\ h.conn.net = <<>> /\ h.conn.closed = FALSE
    BY BegunIs, FreshIs
  <1>2. ~h.conn.closed
    BY <1>1, Zenon
  <1> QED
    BY <1>1, <1>2 DEF Wakes

(* Tick keeps it.                                                           *)
LEMMA TickHolds ==
    ASSUME StreamHolds, Tick
    PROVE  StreamHolds'
  <1> DEFINE s == h
             t == [s EXCEPT !.tail = @ - 1]
             n == sent
  <1>1. ~h.done /\ h.tail > 0 /\ sent' = n /\ UNCHANGED <<reply, phase>>
    BY DEF Tick
  <1>2. h' = t
    BY DEF Tick
  <1>4. /\ sent \in 0 .. Len(reply.wire)
        /\ h.result = "pending" /\ Mode(reply, sent, h)
        /\ h.conn.net = <<>> => Given(reply, n, h.conn) = Pay(reply, n)
        /\ phase # "up" => h = Begun
    BY <1>1, HoldsHas
  <1>3. phase = "up"
    BY <1>1, <1>4, BegunSleeps
  <1>6. t = [s EXCEPT !.tail = @ - 1]
    OBVIOUS
  <1> HIDE DEF t
  <1>8. Moved(reply, n, s, t) /\ t.conn = s.conn
    BY <1>1, <1>4, <1>6, TickGood
  <1>10. /\ IsChat(t) /\ t.done = FALSE /\ t.result = "pending" /\ Mode(reply, n, t)
         /\ t.conn.net = <<>> => Given(reply, n, t.conn) = Pay(reply, n)
    BY <1>4, <1>8 DEF Moved
  <1> QED
    BY <1>1, <1>2, <1>3, <1>4, <1>10, LiveHolds

(* The stream is over, and not well.                                        *)
LEMMA OverHolds ==
    ASSUME StreamHolds, UNCHANGED <<reply, sent, phase>>, IsChat(h'), h'.done = TRUE,
           h'.result = "ok" => Concluded(reply, sent, h')
    PROVE  StreamHolds'
  <1>1. h'.done /\ h'.done \in BOOLEAN
    BY Zenon
  <1>2. EndsRight(sent, h)'
    BY DEF EndsRight
  <1> QED
    BY <1>1, <1>2 DEF StreamHolds

(* Step keeps it: nothing is left of what had arrived.                      *)
LEMMA StepHolds ==
    ASSUME StreamHolds, Step
    PROVE  StreamHolds'
  <1> DEFINE s == h
             n == sent
             t == ChatStep(s)
  <1>1. ~h.done /\ Wakes /\ sent' = n /\ UNCHANGED <<reply, phase>> /\ h' = t
    BY DEF Step
  <1>2. /\ sent \in 0 .. Len(reply.wire) /\ IsChat(s)
        /\ Mode(reply, n, s) /\ (phase # "up" => h = Begun)
    BY <1>1, HoldsHas
  <1>3. CASE phase = "up"
    <2>1. Stepped(reply, n, t)
      BY <1>2, <1>3, ChatStepGood
    <2> HIDE DEF t
    <2>2. /\ IsChat(t) /\ t.done \in BOOLEAN
          /\ t.done => (t.result = "ok" => Concluded(reply, n, t))
          /\ ~t.done => Waiting(reply, n, t)
      BY <2>1, SteppedHolds
    <2>3. CASE t.done
      <3>1. t.done = TRUE
        BY <2>2, <2>3, Zenon
      <3> QED
        BY <1>1, <2>2, <2>3, <3>1, OverHolds
    <2>4. CASE ~t.done
      <3>1. t.done = FALSE
        BY <2>2, <2>4, Zenon
      <3>2. t.result = "pending" /\ Mode(reply, n, t) /\ Given(reply, n, t.conn) = Pay(reply, n)
        BY <2>2, <2>4 DEF Waiting
      <3> QED
        BY <1>1, <1>2, <1>3, <2>2, <3>1, <3>2, LiveHolds
    <2> QED
      BY <2>3, <2>4
  <1>4. CASE phase # "up"
    <2> DEFINE why == "transport"
    <2>1. phase = "failed"
      BY <1>1, <1>2, <1>4, BegunSleeps
    <2>2. t = Ends(s, why)
      BY <1>1, <2>1 DEF ChatStep
    <2>3. why # "ok"
      OBVIOUS
    <2> HIDE DEF why, t
    <2>4. EndedBy(s, why, t)
      BY <1>2, <2>2, EndsIs
    <2>5. IsChat(t) /\ t.done = TRUE /\ t.result # "ok"
      BY <2>3, <2>4 DEF EndedBy
    <2> QED
      BY <1>1, <2>5, OverHolds
  <1> QED
    BY <1>3, <1>4

(* ChatEnd keeps it.                                                        *)
LEMMA ChatEndHolds ==
    ASSUME StreamHolds, ChatEnd
    PROVE  StreamHolds'
  <1> DEFINE why == "ended"
             t == Ends(Begun, why)
  <1>1. UNCHANGED <<reply, sent, phase>> /\ h' = t
    BY DEF ChatEnd
  <1>2. why # "ok"
    OBVIOUS
  <1> HIDE DEF why
  <1>3. EndedBy(Begun, why, t)
    BY BegunIs, EndsBy
  <1> HIDE DEF t
  <1>4. IsChat(t) /\ t.done = TRUE /\ t.result # "ok"
    BY <1>2, <1>3 DEF EndedBy
  <1> QED
    BY <1>1, <1>4, OverHolds

(* Every step keeps it.                                                     *)
LEMMA StreamHoldsNext ==
    ASSUME StreamHolds, [StreamNext]_streamVars
    PROVE  StreamHolds'
  <1>1. CASE UNCHANGED streamVars
    BY <1>1, KeepsStep
  <1>2. CASE Begin
    BY <1>2, BeginHolds
  <1>3. CASE Connects
    BY <1>3, ConnectsHolds
  <1>4. CASE PeerCloses
    BY <1>4, PeerClosesHolds
  <1>5. CASE Step
    BY <1>5, StepHolds
  <1>6. CASE Tick
    BY <1>6, TickHolds
  <1>7. CASE ChatEnd
    BY <1>7, ChatEndHolds
  <1>8. CASE \E n \in 1 .. Len(reply.wire) : Arrive(n)
    BY <1>8, ArriveHolds
  <1> QED
    BY <1>1, <1>2, <1>3, <1>4, <1>5, <1>6, <1>7, <1>8 DEF StreamNext

(* A stream is followed through the whole of its reply: whatever the        *)
(* segments are, what the client holds, has parsed and has told of is the   *)
(* reply up to one place (nm_openai_chat_step and all it calls).            *)
THEOREM StreamIsFollowed == StreamSpec => []StreamHolds
  <1>1. StreamInit => StreamHolds
    BY StreamHoldsInit
  <1>2. StreamHolds /\ [StreamNext]_streamVars => StreamHolds'
    BY StreamHoldsNext
  <1> QED
    BY <1>1, <1>2, PTL DEF StreamSpec

-----------------------------------------------------------------------------
(* The properties.                                                          *)

(* The first k events of the reply have been told, and they are all there   *)
(* is to tell: those that have arrived, or those up to [DONE].              *)
AllTold(k, a) ==
    /\ reply \in Replies /\ sent \in 0 .. Len(reply.wire)
    /\ k \in 0 .. Arrived(reply, sent) /\ Answer(reply, k, a)
    /\ a.saw_done \/ k = Arrived(reply, sent)

(* Then they are the events that are heard, and the answer means what those *)
(* mean.                                                                    *)
LEMMA HeardIs ==
    ASSUME NEW k, NEW a, AllTold(k, a)
    PROVE  Heard = 1 .. k /\ Meant = Means(reply, k) /\ k \in Nat
  <1> DEFINE m == Arrived(reply, sent)
             M == DOMAIN reply.marks
             C(i) == Closing(reply.events[i])
  <1>1. m \in Nat /\ k \in 0 .. m /\ k \in Nat /\ {i \in M : reply.marks[i] <= sent} = 1 .. m
    <2>1. reply \in Replies /\ sent \in 0 .. Len(reply.wire)
      BY DEF AllTold
    <2>2. m \in Nat
      BY <2>1, ArrivedIs
    <2>3. {i \in M : reply.marks[i] <= sent} = 1 .. m
      BY <2>1, EventsAre
    <2>4. k \in 0 .. m
      BY DEF AllTold
    <2> HIDE DEF m
    <2>5. k \in Nat
      BY <2>2, <2>4
    <2> QED
      BY <2>2, <2>3, <2>4, <2>5
  <1>2. \A i \in 1 .. k : C(i) => i = k
    BY DEF AllTold, Answer
  <1>3. a.saw_done => k # 0 /\ C(k)
    <2>1. a.saw_done => k # 0 /\ reply.events[k] = Done
      BY DEF AllTold, Answer
    <2> QED
      BY <2>1 DEF Closing
  <1>4. a.saw_done \/ k = m
    BY DEF AllTold
  <1>5. Heard = {i \in M : reply.marks[i] <= sent /\ \A j \in 1 .. i - 1 : ~C(j)}
    BY DEF Heard
  <1>6. Heard = {i \in 1 .. m : \A j \in 1 .. i - 1 : ~C(j)}
    <2> DEFINE X == {i \in M : reply.marks[i] <= sent}
    <2>1. Heard = {i \in X : \A j \in 1 .. i - 1 : ~C(j)}
      <3> HIDE DEF C
      <3> QED
        BY <1>5
    <2>2. X = 1 .. m
      BY <1>1
    <2> HIDE DEF X, m, C
    <2> QED
      BY <2>1, <2>2
  <1> HIDE DEF C, m
  <1>7. Heard = 1 .. k
    <2>1. ASSUME NEW i \in 1 .. m, \A j \in 1 .. i - 1 : ~C(j) PROVE i \in 1 .. k
      <3>1. CASE k = m
        BY <3>1
      <3>2. CASE k # m
        <4>1. k # 0 /\ C(k)
          BY <1>3, <1>4, <3>2
        <4>2. ~(k \in 1 .. i - 1)
          BY <2>1, <4>1
        <4>3. k \in Nat /\ i \in Nat /\ i >= 1
          BY <1>1
        <4>4. ~(k <= i - 1)
          BY <4>1, <4>2, <4>3
        <4> QED
          BY <4>3, <4>4
      <3> QED
        BY <3>1, <3>2
    <2>2. ASSUME NEW i \in 1 .. k, NEW j \in 1 .. i - 1 PROVE ~C(j)
      <3>1. j \in 1 .. k /\ j # k
        BY <1>1
      <3> QED
        BY <1>2, <3>1
    <2>3. ASSUME NEW i \in 1 .. k PROVE i \in 1 .. m
      BY <1>1
    <2> QED
      BY <1>6, <2>1, <2>2, <2>3
  <1>8. Cardinality(Heard) = k
    <2>1. 1 \in Int /\ k \in Int /\ k + 1 - 1 = k
      BY <1>1
    <2>2. Cardinality(1 .. k) = IF 1 > k THEN 0 ELSE (k - 1) + 1
      BY <2>1, FS_Interval
    <2>3. Cardinality(1 .. k) = k
      BY <1>1, <2>2
    <2> QED
      BY <1>7, <2>3
  <1> QED
    BY <1>1, <1>7, <1>8 DEF Meant, Means

(* A stream that waits has told of every event that has arrived.            *)
LEMMA WaitingTold ==
    ASSUME StreamHolds, ~h.done, h.conn.net = <<>>
    PROVE  \E k : AllTold(k, h.answer)
  <1> DEFINE r == reply
             n == sent
             s == h
             m == Arrived(r, n)
  <1>1. /\ r \in Replies /\ n \in 0 .. Len(r.wire) /\ Mode(r, n, s) /\ Conn(r, n, s.conn)
        /\ Given(r, n, s.conn) = Pay(r, n)
    BY HoldsHas
  <1>2. m \in Nat /\ m \in 0 .. m
    <2>1. m \in Nat
      BY <1>1, ArrivedIs
    <2> HIDE DEF m
    <2> QED
      BY <2>1
  <1>3. CASE Opening(r, n, s) \/ Failing(r, n, s)
    <2>1. s.answer = NoAnswer
      BY <1>3 DEF Opening, Failing
    <2>2. m = 0
      <3>1. CASE ~Streams(r)
        BY <3>1 DEF Arrived
      <3>2. CASE Streams(r)
        <4>1. Opening(r, n, s)
          BY <1>3, <3>2 DEF Failing
        <4>2. Pay(r, n) = 0
          BY <1>1, <4>1 DEF Opening
        <4>3. Events(r, 0) = 0
          <5>1. Says(r, 0) = [p |-> NewParser, emitted |-> FALSE, data |-> <<>>, events |-> 0]
            BY <1>1, SaysFrom
          <5> QED
            BY <5>1 DEF Events
        <4> QED
          BY <3>2, <4>2, <4>3 DEF Arrived
      <3> QED
        BY <3>1, <3>2
    <2>3. Answer(r, 0, s.answer)
      BY <1>1, <2>1, AnswerBegins
    <2> HIDE DEF m
    <2>4. AllTold(0, s.answer)
      BY <1>1, <1>2, <2>2, <2>3 DEF AllTold, m
    <2> QED
      BY <2>4
  <1>4. CASE Listening(r, n, s)
    <2> DEFINE k == Events(r, Given(r, n, s.conn))
    <2>1. Streams(r) /\ Answer(r, k, s.answer)
      BY <1>4 DEF Listening
    <2>2. k = m
      BY <1>1, <2>1, HeardOf
    <2> HIDE DEF m, k
    <2>3. AllTold(k, s.answer)
      BY <1>1, <1>2, <2>1, <2>2 DEF AllTold, m
    <2> QED
      BY <2>3
  <1>5. CASE Tailing(r, n, s)
    <2>1. PICK k \in 0 .. m : Answer(r, k, s.answer)
      BY <1>5 DEF Tailing, Ready
    <2>2. s.answer.saw_done
      BY <1>5 DEF Tailing
    <2>3. AllTold(k, s.answer)
      BY <1>1, <2>1, <2>2 DEF AllTold
    <2> QED
      BY <2>3
  <1> QED
    BY <1>1, <1>3, <1>4, <1>5 DEF Mode

(* Told of what has arrived, with nothing left to wake the loop.            *)
LEMMA HoldsTells ==
    ASSUME StreamHolds
    PROVE  ToldWhatArrived
  <1>1. SUFFICES ASSUME ~h.done, ~Wakes PROVE h.answer.log = Meant.told
    BY DEF ToldWhatArrived
  <1>2. h.conn.net = <<>>
    BY <1>1 DEF Wakes
  <1>3. PICK k : AllTold(k, h.answer)
    BY <1>1, <1>2, WaitingTold
  <1>4. Meant = Means(reply, k)
    BY <1>3, HeardIs
  <1> QED
    BY <1>3, <1>4 DEF AllTold, Answer

(* ToldWhatArrived, for every reply, every cut into segments and every size *)
(* of the buffers: whenever the loop waits the agent has been told exactly  *)
(* what has arrived.                                                        *)
THEOREM StreamTells == StreamSpec => []ToldWhatArrived
  <1>1. StreamHolds => ToldWhatArrived
    BY HoldsTells
  <1> QED
    BY <1>1, StreamIsFollowed, PTL

(* A stream that ended well, and the answer it ended with.                  *)
Ending(k, a) ==
    /\ AllTold(k, a) /\ (a.saw_done \/ a.finished)
    /\ h.answer.log = a.log \o DetailsTold(a.details)
    /\ h.answer.delivered = a.slots

(* A success has a verdict behind it.                                       *)
LEMMA OkEnds ==
    ASSUME StreamHolds, h.result = "ok"
    PROVE  \E k : \E a : AllTold(k, a) /\ Ending(k, a)
  <1>1. h.done
    BY HoldsHas
  <1>2. Concluded(reply, sent, h)
    BY <1>1 DEF StreamHolds, EndsRight
  <1>3. PICK k : \E a : /\ Whole(reply, sent, k, a)
                        /\ h.answer.log = a.log \o DetailsTold(a.details)
                        /\ h.answer.delivered = a.slots
    BY <1>2 DEF Concluded
  <1>4. PICK a : /\ Whole(reply, sent, k, a)
                 /\ h.answer.log = a.log \o DetailsTold(a.details)
                 /\ h.answer.delivered = a.slots
    BY <1>3
  <1>5. AllTold(k, a) /\ (a.saw_done \/ a.finished)
    BY <1>4 DEF Whole, AllTold, StreamHolds
  <1>6. Ending(k, a)
    BY <1>4, <1>5 DEF Ending
  <1> QED
    BY <1>5, <1>6

(* A success is a whole reply.                                              *)
LEMMA HoldsWhole ==
    ASSUME StreamHolds
    PROVE  OnlyWholeRepliesSucceed
  <1>1. SUFFICES ASSUME h.result = "ok"
                 PROVE  /\ \E i \in Heard : \/ reply.events[i] = Done
                                            \/ Finishing(reply.events[i])
                        /\ h.answer.log = Meant.told \o DetailsTold(Meant.details)
    BY DEF OnlyWholeRepliesSucceed, Finishing
  <1>2. PICK k, a : AllTold(k, a) /\ Ending(k, a)
    BY <1>1, OkEnds
  <1>3. Heard = 1 .. k /\ Meant = Means(reply, k) /\ k \in Nat
    BY <1>2, HeardIs
  <1>4. a.log = Means(reply, k).told /\ a.details = Means(reply, k).details
    BY <1>2 DEF AllTold, Answer
  <1>5. h.answer.log = Meant.told \o DetailsTold(Meant.details)
    BY <1>2, <1>3, <1>4 DEF Ending
  <1>6. \E i \in 1 .. k : reply.events[i] = Done \/ Finishing(reply.events[i])
    <2>1. CASE a.saw_done
      <3>1. k # 0 /\ reply.events[k] = Done
        BY <1>2, <2>1 DEF AllTold, Answer
      <3>2. k \in 1 .. k
        BY <1>3, <3>1
      <3> QED
        BY <3>1, <3>2
    <2>2. CASE a.finished
      BY <1>2, <2>2 DEF AllTold, Answer
    <2> QED
      BY <1>2, <2>1, <2>2 DEF Ending
  <1> QED
    BY <1>3, <1>5, <1>6

(* OnlyWholeRepliesSucceed, for every reply, every cut and every place      *)
(* where the peer stops: no reply that was cut short passes for an answer.  *)
THEOREM SuccessIsWhole == StreamSpec => []OnlyWholeRepliesSucceed
  <1>1. StreamHolds => OnlyWholeRepliesSucceed
    BY HoldsWhole
  <1> QED
    BY <1>1, StreamIsFollowed, PTL

(* The calls that are delivered are those of the fragments.                 *)
LEMMA HoldsCalls ==
    ASSUME StreamHolds
    PROVE  CallsWhole
  <1>1. SUFFICES ASSUME h.result = "ok"
                 PROVE  {CallIs(c) : c \in ToSet(h.answer.delivered)}
                        = {CallOf(Meant.calls, f.of) : f \in ToSet(Meant.calls)}
    BY DEF CallsWhole, CallIs
  <1>2. PICK k, a : AllTold(k, a) /\ Ending(k, a)
    BY <1>1, OkEnds
  <1>3. Meant.calls = Calls(reply, k)
    <2>1. Meant = Means(reply, k)
      BY <1>2, HeardIs
    <2> QED
      BY <2>1 DEF Calls
  <1> DEFINE F == Pieces(reply)
             q == Len(Calls(reply, k))
  <1>4. SlotsAre(a.slots, F, q) /\ reply \in Replies /\ k \in 0 .. Len(reply.events)
    BY <1>2 DEF AllTold, Answer
  <1>5. Cut(F, 0, q) = Calls(reply, k)
    <2>1. Starts(Calls(reply, k), F)
      BY <1>4, PiecesFit
    <2> QED
      BY <2>1 DEF Starts
  <1> HIDE DEF F, q
  <1>6. SaySame(a.slots, Cut(F, 0, q))
    BY <1>4, SlotsSay
  <1>7. h.answer.delivered = a.slots
    BY <1>2 DEF Ending
  <1> QED
    BY <1>3, <1>5, <1>6, <1>7 DEF SaySame

(* CallsWhole, for every reply whose calls the client can tell apart: each  *)
(* tool call reaches the agent with its own arguments, whole and in order.  *)
THEOREM CallsAreWhole == StreamSpec => []CallsWhole
  <1>1. StreamHolds => CallsWhole
    BY HoldsCalls
  <1> QED
    BY <1>1, StreamIsFollowed, PTL
=============================================================================
