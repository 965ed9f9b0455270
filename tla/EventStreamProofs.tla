--------------------------- MODULE EventStreamProofs ---------------------------
(***************************************************************************)
(* What both parsers make of a body, for all bytes, bounds and splits into *)
(* reads.                                                                  *)
(*                                                                         *)
(* Each parser is at a cut of the body: it has counted the frames before   *)
(* it, and its buffer is the rest, unless the rest has made it stop.  One  *)
(* turn of its loop takes it to the next cut, and when the loop is over    *)
(* there is none.                                                          *)
(***************************************************************************)
EXTENDS EventStream, FiniteSetTheorems, NaturalsInduction,
        SequenceTheorems, TLAPS

Bodies == Seq(Bytes)

--------------------------------------------------------------------------------
(* Induction, stated of a set. *)

\* A set of numbers with 0 and the successors of its members has them all.
LEMMA SetInduction ==
  ASSUME NEW S, 0 \in S, \A n \in Nat : n \in S => n + 1 \in S
  PROVE  \A n \in Nat : n \in S
<1>. DEFINE T == Nat \ S
<1>1. SUFFICES ASSUME T # {} PROVE FALSE
  OBVIOUS
<1>2. \E x \in T : \A y \in T : ~(<<y, x>> \in OpToRel(<, Nat))
  BY <1>1, NatLessThanWellFounded, WFMin, Zenon
<1>3. \A x, y \in Nat : y < x => <<y, x>> \in OpToRel(<, Nat)
  BY DEF OpToRel
<1>4. PICK x \in T : \A y \in T : ~(y < x)
  BY <1>2, <1>3, Zenon
<1>. HIDE DEF T
<1>5. x \in Nat /\ x # 0
  BY <1>4 DEF T
<1>6. x - 1 \in Nat /\ x - 1 < x /\ (x - 1) + 1 = x
  BY <1>5
<1>7. x - 1 \in T
  BY <1>4, <1>5, <1>6 DEF T
<1>. QED  BY <1>4, <1>6, <1>7

\* The same where a member follows from all the numbers below it.
LEMMA StrongSetInduction ==
  ASSUME NEW S, \A n \in Nat : (\A k \in Nat : k < n => k \in S) => n \in S
  PROVE  \A n \in Nat : n \in S
<1>. DEFINE T == {n \in Nat : \A k \in Nat : k < n => k \in S}
<1>1. 0 \in T
  OBVIOUS
<1>2. ASSUME NEW n \in Nat, n \in T PROVE n + 1 \in T
  <2>1. n \in S
    BY <1>2
  <2>2. \A k \in Nat : k < n + 1 => k < n \/ k = n
    OBVIOUS
  <2>. QED  BY <1>2, <2>1, <2>2
<1>3. \A n \in T : n \in S
  OBVIOUS
<1>. HIDE DEF T
<1>4. \A n \in Nat : n \in T
  BY <1>1, <1>2, SetInduction
<1>. QED  BY <1>3, <1>4

\* Steps from a beginning, as many as one likes, are a function.
Steps(h, b, f, N) == h[0] = b /\ \A n \in 1..N : h[n] = f[n][h[n - 1]]

LEMMA StepsExist ==
  ASSUME NEW T, NEW b \in T, NEW f \in [Nat -> [T -> T]], NEW N \in Nat
  PROVE  \E h \in [0..N -> T] : Steps(h, b, f, N)
<1>. DEFINE Good(k, h) == h \in [0..k -> T] /\ Steps(h, b, f, k)
            S == {k \in Nat : \E h : Good(k, h)}
<1>1. 0 \in S
  <2>. DEFINE h == [n \in 0..0 |-> b]
  <2>1. Good(0, h)
    BY DEF Steps
  <2>. QED  BY <2>1
<1>2. ASSUME NEW k \in Nat, k \in S PROVE k + 1 \in S
  <2>1. PICK h : Good(k, h)
    BY <1>2
  <2>. DEFINE g == [n \in 0..(k + 1) |-> IF n <= k THEN h[n] ELSE f[k + 1][h[k]]]
  <2>2. \A n \in 0..k : g[n] = h[n] /\ h[n] \in T
    BY <2>1
  <2>3. g[k + 1] = f[k + 1][h[k]] /\ g[k + 1] \in T
    <3>1. ~(k + 1 <= k) /\ k + 1 \in 0..(k + 1) /\ k \in 0..k /\ k + 1 \in Nat
      OBVIOUS
    <3>2. h[k] \in T
      BY <2>1, <3>1
    <3>3. f[k + 1] \in [T -> T]
      BY <3>1, Zenon
    <3>4. f[k + 1][h[k]] \in T
      BY <3>2, <3>3
    <3>. QED  BY <3>1, <3>4
  <2>4. DOMAIN g = 0..(k + 1) /\ g = [n \in 0..(k + 1) |-> g[n]]
    OBVIOUS
  <2>. HIDE DEF g
  <2>5. \A n \in 0..(k + 1) : n \in 0..k \/ n = k + 1
    OBVIOUS
  <2>6. g \in [0..(k + 1) -> T]
    BY <2>2, <2>3, <2>4, <2>5
  <2>7. ASSUME NEW n \in 1..(k + 1) PROVE g[n] = f[n][g[n - 1]]
    <3>1. n - 1 \in 0..k
      OBVIOUS
    <3>2. CASE n \in 1..k
      BY <2>1, <2>2, <3>1, <3>2 DEF Steps
    <3>3. CASE n = k + 1
      BY <2>2, <2>3, <3>1, <3>3
    <3>. QED  BY <3>2, <3>3
  <2>8. g[0] = b
    BY <2>1, <2>2 DEF Steps
  <2>9. Good(k + 1, g)
    BY <2>6, <2>7, <2>8 DEF Steps
  <2>. QED  BY <2>9
<1>. HIDE DEF S
<1>3. N \in S
  BY <1>1, <1>2, SetInduction
<1>. QED  BY <1>3 DEF S

--------------------------------------------------------------------------------
(* A body from a position on, and what a frame is in terms of the body. *)

LEMMA ByteIsNumber ==
  ASSUME NEW s \in Bodies, NEW i \in 1..Len(s)
  PROVE  s[i] \in Nat /\ s[i] \in Bytes
<1>1. s[i] \in Bytes
  BY ElementOfSeq DEF Bodies
<1>. QED  BY <1>1, BytesAssumption

LEMMA FromFacts ==
  ASSUME NEW s \in Bodies, NEW c \in 0..Len(s)
  PROVE  /\ From(s, c) \in Bodies
         /\ Len(From(s, c)) = Len(s) - c
         /\ \A i \in 1..(Len(s) - c) : From(s, c)[i] = s[c + i]
<1>. DEFINE m == c + 1
            n == Len(s)
<1>1. c \in Int /\ c <= n /\ c >= 0 /\ n \in Nat /\ m \in Int
  BY DEF Bodies
<1>2. \A i \in m..n : s[i] \in Bytes
  <2>1. \A i \in m..n : i \in 1..Len(s)
    OBVIOUS
  <2>. QED  BY <2>1, ByteIsNumber
<1>3. m = c + 1 /\ From(s, c) = SubSeq(s, m, n)
  BY DEF From
<1>. HIDE DEF m, n
<1>4. /\ SubSeq(s, m, n) \in Seq(Bytes)
      /\ Len(SubSeq(s, m, n)) = IF m <= n THEN n - m + 1 ELSE 0
      /\ \A i \in 1..(n - m + 1) : SubSeq(s, m, n)[i] = s[m + i - 1]
  BY <1>1, <1>2, SubSeqProperties
<1>5. n - m + 1 = n - c /\ (m <= n \/ n - c = 0) /\ \A i \in 1..(n - c) : m + i - 1 = c + i
  BY <1>1, <1>3
<1>6. Len(SubSeq(s, m, n)) = n - c
  BY <1>4, <1>5
<1>. QED  BY <1>3, <1>4, <1>5, <1>6 DEF Bodies, n

\* Two bodies with the same bytes.
LEMMA SameBytes ==
  ASSUME NEW s \in Bodies, NEW t \in Bodies, Len(s) = Len(t), \A i \in 1..Len(s) : s[i] = t[i]
  PROVE  s = t
BY SeqEqual DEF Bodies

LEMMA RestOfFrom ==
  ASSUME NEW s \in Bodies, NEW c \in 0..Len(s), NEW n \in 0..(Len(s) - c)
  PROVE  SubSeq(From(s, c), n + 1, Len(From(s, c))) = From(s, c + n)
<1>1. Len(s) \in Nat /\ c + n \in 0..Len(s)
  BY DEF Bodies
<1>2. /\ From(s, c) \in Bodies /\ Len(From(s, c)) = Len(s) - c /\ n \in 0..Len(From(s, c))
      /\ \A i \in 1..(Len(s) - c) : From(s, c)[i] = s[c + i]
  BY FromFacts
<1>3. /\ From(From(s, c), n) \in Bodies /\ Len(From(From(s, c), n)) = (Len(s) - c) - n
      /\ \A i \in 1..((Len(s) - c) - n) : From(From(s, c), n)[i] = From(s, c)[n + i]
  BY <1>2, FromFacts
<1>4. /\ From(s, c + n) \in Bodies /\ Len(From(s, c + n)) = Len(s) - (c + n)
      /\ \A i \in 1..(Len(s) - (c + n)) : From(s, c + n)[i] = s[(c + n) + i]
  BY <1>1, FromFacts
<1>5. (Len(s) - c) - n = Len(s) - (c + n)
  BY <1>1
<1>6. ASSUME NEW i \in 1..(Len(s) - (c + n)) PROVE From(From(s, c), n)[i] = From(s, c + n)[i]
  <2>1. n + i \in 1..(Len(s) - c) /\ c + (n + i) = (c + n) + i
    BY <1>1
  <2>. QED  BY <1>2, <1>3, <1>4, <1>5, <2>1
<1>7. From(From(s, c), n) = From(s, c + n)
  BY <1>3, <1>4, <1>5, <1>6, SameBytes
<1>. QED  BY <1>7 DEF From

\* A body and what arrives after it.
LEMMA JoinFacts ==
  ASSUME NEW s \in Bodies, NEW t \in Bodies
  PROVE  /\ s \o t \in Bodies /\ Len(s \o t) = Len(s) + Len(t)
         /\ Len(s) \in Nat /\ Len(t) \in Nat
         /\ \A i \in 1..Len(s) : (s \o t)[i] = s[i]
         /\ \A i \in 1..Len(t) : (s \o t)[Len(s) + i] = t[i]
<1>1. /\ s \o t \in Bodies /\ Len(s \o t) = Len(s) + Len(t)
      /\ \A i \in 1..(Len(s) + Len(t)) : (s \o t)[i] = IF i <= Len(s) THEN s[i] ELSE t[i - Len(s)]
  BY ConcatProperties DEF Bodies
<1>2. Len(s) \in Nat /\ Len(t) \in Nat
  BY DEF Bodies
<1>3. ASSUME NEW i \in 1..Len(t) PROVE (s \o t)[Len(s) + i] = t[i]
  <2>1. Len(s) + i \in 1..(Len(s) + Len(t)) /\ ~(Len(s) + i <= Len(s)) /\ (Len(s) + i) - Len(s) = i
    BY <1>2
  <2>. QED  BY <1>1, <2>1
<1>. QED  BY <1>1, <1>2, <1>3

LEMMA FromJoin ==
  ASSUME NEW s \in Bodies, NEW t \in Bodies, NEW c \in 0..Len(s)
  PROVE  From(s \o t, c) = From(s, c) \o t
<1>. DEFINE u == s \o t
            f == From(s, c)
            g == From(u, c)
<1>1. /\ u \in Bodies /\ Len(u) = Len(s) + Len(t) /\ Len(s) \in Nat /\ Len(t) \in Nat
      /\ \A i \in 1..Len(s) : u[i] = s[i]
      /\ \A i \in 1..Len(t) : u[Len(s) + i] = t[i]
  BY JoinFacts
<1>. HIDE DEF u
<1>2. f \in Bodies /\ Len(f) = Len(s) - c /\ \A i \in 1..(Len(s) - c) : f[i] = s[c + i]
  BY FromFacts
<1>3. c \in 0..Len(u)
  BY <1>1
<1>4. g \in Bodies /\ Len(g) = Len(u) - c /\ \A i \in 1..(Len(u) - c) : g[i] = u[c + i]
  BY <1>1, <1>3, FromFacts
<1>. HIDE DEF f, g
<1>5. /\ f \o t \in Bodies /\ Len(f \o t) = Len(f) + Len(t)
      /\ \A i \in 1..Len(f) : (f \o t)[i] = f[i]
      /\ \A i \in 1..Len(t) : (f \o t)[Len(f) + i] = t[i]
  BY <1>2, JoinFacts
<1>6. Len(g) = Len(f \o t)
  BY <1>1, <1>2, <1>4, <1>5
<1>7. ASSUME NEW i \in 1..Len(g) PROVE g[i] = (f \o t)[i]
  <2>1. i \in 1..(Len(u) - c) /\ g[i] = u[c + i]
    BY <1>4
  <2>2. CASE i <= Len(f)
    <3>1. i \in 1..(Len(s) - c) /\ i \in 1..Len(f) /\ c + i \in 1..Len(s)
      BY <1>1, <1>2, <2>2
    <3>. QED  BY <1>1, <1>2, <1>5, <2>1, <3>1
  <2>3. CASE ~(i <= Len(f))
    <3>. DEFINE j == i - Len(f)
    <3>1. j \in 1..Len(t) /\ Len(f) + j = i /\ Len(s) + j = c + i
      BY <1>1, <1>2, <2>1, <2>3
    <3>. HIDE DEF j
    <3>2. g[i] = t[j]
      BY <1>1, <2>1, <3>1
    <3>3. (f \o t)[i] = t[j]
      BY <1>5, <3>1
    <3>. QED  BY <3>2, <3>3
  <2>. QED  BY <2>2, <2>3
<1>8. g = f \o t
  BY <1>4, <1>5, <1>6, <1>7, SameBytes
<1>. QED  BY <1>8 DEF f, g, u

\* A frame at a position, by the bytes of the body.
IsFrame(s, c) ==
  /\ c + 2 <= Len(s)
  /\ s[c + 1] >= 3 /\ s[c + 1] <= MaxMsg
  /\ s[c + 2] <= MaxHeader /\ s[c + 2] + 3 <= s[c + 1]
  /\ c + s[c + 1] <= Len(s)

LEMMA FrameByBytes ==
  ASSUME NEW s \in Bodies, NEW c \in 0..Len(s)
  PROVE  FrameAt(s, c) <=> IsFrame(s, c)
<1>. DEFINE f == From(s, c)
<1>1. Len(f) = Len(s) - c /\ Len(s) \in Nat /\ \A i \in 1..(Len(s) - c) : f[i] = s[c + i]
  BY FromFacts DEF Bodies
<1>2. FrameAt(s, c) <=> /\ Len(f) >= 2
                        /\ ~(f[1] < 2 + 1 \/ f[1] > MaxMsg \/ f[2] > MaxHeader)
                        /\ ~(f[2] + (2 + 1) > f[1])
                        /\ f[1] <= Len(f)
  BY DEF FrameAt, OutOfBounds, Overlong, Total, Prelude, MinMsg, CRC
<1>. HIDE DEF f
<1>3. CASE Len(f) >= 2
  <2>1. /\ 1 \in 1..(Len(s) - c) /\ 2 \in 1..(Len(s) - c)
        /\ c + 1 \in 1..Len(s) /\ c + 2 \in 1..Len(s)
    BY <1>1, <1>3
  <2>2. f[1] = s[c + 1] /\ f[2] = s[c + 2]
    BY <1>1, <2>1
  <2>3. s[c + 1] \in Nat /\ s[c + 2] \in Nat
    BY <2>1, ByteIsNumber
  <2>. QED  BY <1>1, <1>2, <1>3, <2>2, <2>3, BoundsAssumption DEF IsFrame
<1>4. CASE ~(Len(f) >= 2)
  BY <1>1, <1>2, <1>4 DEF IsFrame
<1>. QED  BY <1>3, <1>4

LEMMA FrameFits ==
  ASSUME NEW s \in Bodies, NEW c \in 0..Len(s), IsFrame(s, c)
  PROVE  /\ s[c + 1] \in Nat /\ s[c + 2] \in Nat /\ s[c + 1] >= 3
         /\ c + s[c + 1] \in 0..Len(s) /\ c < c + s[c + 1]
<1>1. Len(s) \in Nat /\ c + 1 \in 1..Len(s) /\ c + 2 \in 1..Len(s)
  BY DEF IsFrame, Bodies
<1>2. s[c + 1] \in Nat /\ s[c + 2] \in Nat
  BY <1>1, ByteIsNumber
<1>. QED  BY <1>1, <1>2 DEF IsFrame

--------------------------------------------------------------------------------
(* The cuts of a body. *)

Follows(s, b, c) == b < c /\ IsFrame(s, b) /\ c = b + s[b + 1]

\* The function that Cuts defines by recursion, as a set: it exists.
LEMMA CutsExist ==
  ASSUME NEW s \in Bodies
  PROVE  \E R \in SUBSET (0..Len(s)) :
           \A c \in 0..Len(s) : c \in R <=> c = 0 \/ \E b \in R : Follows(s, b, c)
<1>. DEFINE P == 0..Len(s)
            Closed(S) == 0 \in S /\ \A b \in S, c \in P : Follows(s, b, c) => c \in S
            R == {c \in P : \A S \in SUBSET P : Closed(S) => c \in S}
<1>1. R \in SUBSET P
  OBVIOUS
<1>2. Closed(R)
  <2>1. 0 \in P
    BY DEF Bodies
  <2>. QED  BY <2>1
<1>3. ASSUME NEW c \in R, c # 0, \A b \in R : ~Follows(s, b, c) PROVE FALSE
  <2>1. Closed(R \ {c})
    BY <1>2, <1>3
  <2>2. R \ {c} \in SUBSET P
    BY <1>1
  <2>3. c \in R \ {c}
    BY <2>1, <2>2
  <2>. QED  BY <2>3
<1>. HIDE DEF R
<1>4. \A c \in P : c \in R <=> c = 0 \/ \E b \in R : Follows(s, b, c)
  BY <1>1, <1>2, <1>3
<1>. QED  BY <1>1, <1>4

LEMMA CutsAre ==
  ASSUME NEW s \in Bodies
  PROVE  /\ Cuts(s) \subseteq 0..Len(s)
         /\ \A c \in 0..Len(s) : c \in Cuts(s) <=> c = 0 \/ \E b \in Cuts(s) : Follows(s, b, c)
<1>. DEFINE P == 0..Len(s)
            Step(h, c) == c = 0 \/ \E b \in 0..(c - 1) : h[b] /\ FrameAt(s, b) /\ c = b + s[b + 1]
            Good(h) == h = [c \in P |-> Step(h, c)]
            cut == CHOOSE h : Good(h)
<1>0. Len(s) \in Nat
  BY DEF Bodies
<1>1. Cuts(s) = {c \in P : cut[c]}
  BY DEF Cuts
<1>2. \A c \in P : \A b \in 0..(c - 1) : FrameAt(s, b) <=> IsFrame(s, b)
  <2>1. \A c \in P : \A b \in 0..(c - 1) : b \in 0..Len(s)
    BY <1>0
  <2>. QED  BY <2>1, FrameByBytes
<1>3. \E h : Good(h)
  <2>1. PICK R \in SUBSET P :
          \A c \in P : c \in R <=> c = 0 \/ \E b \in R : Follows(s, b, c)
    BY CutsExist
  <2>. DEFINE h == [c \in P |-> c \in R]
  <2>2. \A c \in P : h[c] = (c \in R)
    OBVIOUS
  <2>3. h = [c \in P |-> h[c]]
    OBVIOUS
  <2>. HIDE DEF h
  <2>4. ASSUME NEW c \in P PROVE h[c] = Step(h, c)
    <3>1. Step(h, c) <=> c = 0 \/ \E b \in 0..(c - 1) : b \in R /\ IsFrame(s, b) /\ c = b + s[b + 1]
      <4>1. \A b \in 0..(c - 1) : b \in P
        BY <1>0
      <4>. QED  BY <1>2, <2>2, <4>1
    <3>2. \A b \in R : b < c <=> b \in 0..(c - 1)
      BY <1>0
    <3>3. Step(h, c) <=> c \in R
      BY <2>1, <3>1, <3>2 DEF Follows
    <3>4. Step(h, c) \in BOOLEAN
      BY Zenon
    <3>5. h[c] = (c \in R)
      BY <2>2
    <3>. HIDE DEF Step
    <3>. QED  BY <3>3, <3>4, <3>5
  <2>. HIDE DEF Step
  <2>5. Good(h)
    BY <2>3, <2>4
  <2>. QED  BY <2>5
<1>4. Good(cut)
  BY <1>3
<1>. HIDE DEF cut
<1>5. \A c \in P : cut[c] = Step(cut, c)
  <2>. HIDE DEF Step
  <2>. DEFINE g == [c \in P |-> Step(cut, c)]
  <2>1. cut = g /\ \A c \in P : g[c] = Step(cut, c)
    BY <1>4
  <2>. HIDE DEF g
  <2>. QED  BY <2>1
<1>6. ASSUME NEW c \in P PROVE c \in Cuts(s) <=> c = 0 \/ \E b \in Cuts(s) : Follows(s, b, c)
  <2>1. c \in Cuts(s) <=> Step(cut, c)
    BY <1>1, <1>5
  <2>2. \A b \in P : b < c <=> b \in 0..(c - 1)
    BY <1>0
  <2>3. \A b \in 0..(c - 1) : b \in P
    BY <1>0
  <2>4. \A b \in 0..(c - 1) : cut[b] <=> b \in Cuts(s)
    BY <1>1, <2>3
  <2>5. \A b \in Cuts(s) : b \in P
    BY <1>1
  <2>6. Step(cut, c) <=> c = 0 \/ \E b \in 0..(c - 1) : b \in Cuts(s) /\ IsFrame(s, b) /\ c = b + s[b + 1]
    BY <1>2, <2>4
  <2>. QED  BY <2>1, <2>2, <2>5, <2>6 DEF Follows
<1>. QED  BY <1>1, <1>6

\* Cuts are apart: between the beginning of a frame and its end there is none.
LEMMA CutsApart ==
  ASSUME NEW s \in Bodies, NEW b \in Cuts(s), NEW c \in Cuts(s), b < c
  PROVE  IsFrame(s, b) /\ b + s[b + 1] <= c
<1>. DEFINE Apart(x, y) == x < y => IsFrame(s, x) /\ x + s[x + 1] <= y
            S == {n \in Nat : n \in Cuts(s) => \A x \in Cuts(s) : Apart(x, n)}
<1>0. Len(s) \in Nat /\ \A x \in Cuts(s) : x \in 0..Len(s) /\ x \in Nat
  BY CutsAre DEF Bodies
<1>1. ASSUME NEW n \in Nat, \A k \in Nat : k < n => k \in S PROVE n \in S
  <2>1. SUFFICES ASSUME n \in Cuts(s), NEW x \in Cuts(s), x < n
                 PROVE  IsFrame(s, x) /\ x + s[x + 1] <= n
    OBVIOUS
  <2>2. PICK y \in Cuts(s) : Follows(s, y, n)
    BY <1>0, <2>1, CutsAre
  <2>3. y < n /\ IsFrame(s, y) /\ n = y + s[y + 1] /\ y \in Nat /\ x \in Nat
    BY <1>0, <2>2 DEF Follows
  <2>4. CASE x = y
    BY <2>3, <2>4
  <2>5. CASE x < y
    <3>1. IsFrame(s, x) /\ x + s[x + 1] <= y
      BY <1>1, <2>3, <2>5
    <3>2. s[x + 1] \in Nat
      BY <1>0, <3>1, FrameFits
    <3>. QED  BY <2>3, <3>1, <3>2
  <2>6. CASE y < x
    <3>1. y + s[y + 1] <= x
      BY <1>1, <2>1, <2>3, <2>6
    <3>. QED  BY <2>1, <2>3, <3>1
  <2>. QED  BY <2>3, <2>4, <2>5, <2>6
<1>. HIDE DEF S
<1>2. c \in S
  BY <1>0, <1>1, StrongSetInduction
<1>. QED  BY <1>2 DEF S

LEMMA NextCut ==
  ASSUME NEW s \in Bodies, NEW c \in Cuts(s), IsFrame(s, c)
  PROVE  /\ c + s[c + 1] \in Cuts(s) /\ s[c + 1] \in Nat /\ s[c + 1] >= 3
         /\ {b \in Cuts(s) : b < c + s[c + 1]} = {b \in Cuts(s) : b < c} \cup {c}
<1>1. Len(s) \in Nat /\ \A x \in Cuts(s) : x \in 0..Len(s) /\ x \in Nat
  BY CutsAre DEF Bodies
<1>2. s[c + 1] \in Nat /\ s[c + 1] >= 3 /\ c + s[c + 1] \in 0..Len(s) /\ c < c + s[c + 1]
  BY <1>1, FrameFits
<1>3. c + s[c + 1] \in Cuts(s)
  BY <1>1, <1>2, CutsAre DEF Follows
<1>4. ASSUME NEW b \in Cuts(s) PROVE b < c + s[c + 1] <=> b < c \/ b = c
  <2>1. ~(c < b /\ b < c + s[c + 1])
    BY <1>1, <1>2, CutsApart
  <2>. QED  BY <1>1, <1>2, <2>1
<1>. QED  BY <1>2, <1>3, <1>4

LEMMA LastCut ==
  ASSUME NEW s \in Bodies, NEW c \in Cuts(s), ~IsFrame(s, c)
  PROVE  Max(Cuts(s)) = c /\ Cuts(s) = {b \in Cuts(s) : b < c} \cup {c}
<1>1. Len(s) \in Nat /\ \A x \in Cuts(s) : x \in 0..Len(s) /\ x \in Nat
  BY CutsAre DEF Bodies
<1>2. \A b \in Cuts(s) : ~(c < b)
  BY CutsApart
<1>3. \A b \in Cuts(s) : b < c \/ b = c
  BY <1>1, <1>2
<1>4. \A b \in Cuts(s) : c >= b
  BY <1>1, <1>2
<1>5. \A d \in Cuts(s) : (\A b \in Cuts(s) : d >= b) => d = c
  BY <1>1, <1>4
<1>6. Max(Cuts(s)) = c
  BY <1>4, <1>5 DEF Max
<1>. QED  BY <1>3, <1>6

\* What arrives later does not move the cuts.
LEMMA FrameOfJoin ==
  ASSUME NEW s \in Bodies, NEW t \in Bodies, NEW c \in 0..Len(s)
  PROVE  /\ IsFrame(s, c) => IsFrame(s \o t, c) /\ (s \o t)[c + 1] = s[c + 1]
         /\ IsFrame(s \o t, c) /\ c + (s \o t)[c + 1] <= Len(s) => IsFrame(s, c)
<1>. DEFINE u == s \o t
<1>1. /\ Len(u) = Len(s) + Len(t) /\ Len(s) \in Nat /\ Len(t) \in Nat /\ u \in Bodies
      /\ \A i \in 1..Len(s) : u[i] = s[i]
  BY JoinFacts
<1>. HIDE DEF u
<1>2. ASSUME IsFrame(s, c) PROVE IsFrame(u, c) /\ u[c + 1] = s[c + 1]
  <2>1. c + 1 \in 1..Len(s) /\ c + 2 \in 1..Len(s)
    BY <1>1, <1>2 DEF IsFrame
  <2>2. u[c + 1] = s[c + 1] /\ u[c + 2] = s[c + 2] /\ s[c + 1] \in Nat
    BY <1>1, <2>1, ByteIsNumber
  <2>. QED  BY <1>1, <1>2, <2>2 DEF IsFrame
<1>3. ASSUME IsFrame(u, c), c + u[c + 1] <= Len(s) PROVE IsFrame(s, c)
  <2>0. u[c + 1] \in Nat /\ u[c + 1] >= 3
    BY <1>1, <1>3, FrameFits
  <2>1. c + 1 \in 1..Len(s) /\ c + 2 \in 1..Len(s)
    BY <1>1, <1>3, <2>0
  <2>2. u[c + 1] = s[c + 1] /\ u[c + 2] = s[c + 2]
    BY <1>1, <2>1
  <2>. QED  BY <1>1, <1>3, <2>0, <2>2 DEF IsFrame
<1>. QED  BY <1>2, <1>3 DEF u

LEMMA CutsOfJoin ==
  ASSUME NEW s \in Bodies, NEW t \in Bodies, NEW c \in 0..Len(s)
  PROVE  c \in Cuts(s \o t) <=> c \in Cuts(s)
<1>. DEFINE u == s \o t
            S == {n \in Nat : n <= Len(s) => (n \in Cuts(u) <=> n \in Cuts(s))}
<1>1. u \in Bodies /\ Len(s) \in Nat /\ Len(u) \in Nat /\ Len(s) <= Len(u)
  <2>1. u \in Bodies /\ Len(u) = Len(s) + Len(t) /\ Len(s) \in Nat /\ Len(t) \in Nat
    BY JoinFacts
  <2>. HIDE DEF u
  <2>. QED  BY <2>1
<1>2. /\ \A b \in 0..Len(s) : /\ IsFrame(s, b) => IsFrame(u, b) /\ u[b + 1] = s[b + 1]
                              /\ IsFrame(u, b) /\ b + u[b + 1] <= Len(s) => IsFrame(s, b)
  BY FrameOfJoin
<1>. HIDE DEF u
<1>3. ASSUME NEW n \in Nat, \A k \in Nat : k < n => k \in S PROVE n \in S
  <2>1. SUFFICES ASSUME n <= Len(s) PROVE n \in Cuts(u) <=> n \in Cuts(s)
    OBVIOUS
  <2>2. n \in 0..Len(s) /\ n \in 0..Len(u)
    BY <1>1, <2>1
  <2>3. /\ n \in Cuts(u) <=> n = 0 \/ \E b \in Cuts(u) : Follows(u, b, n)
        /\ n \in Cuts(s) <=> n = 0 \/ \E b \in Cuts(s) : Follows(s, b, n)
    BY <1>1, <2>2, CutsAre
  <2>4. \A b \in Cuts(u) : b \in Nat
    BY <1>1, CutsAre
  <2>5. \A b \in Cuts(s) : b \in Nat
    BY <1>1, CutsAre
  <2>6. ASSUME NEW b \in Nat, b < n PROVE b \in 0..Len(s) /\ (b \in Cuts(u) <=> b \in Cuts(s))
    BY <1>1, <1>3, <2>1, <2>6
  <2>7. ASSUME NEW b \in Nat, b < n PROVE Follows(u, b, n) <=> Follows(s, b, n)
    BY <1>2, <2>1, <2>6, <2>7 DEF Follows
  <2>8. ASSUME NEW b \in Cuts(u), Follows(u, b, n) PROVE \E x \in Cuts(s) : Follows(s, x, n)
    BY <2>4, <2>6, <2>7, <2>8 DEF Follows
  <2>9. ASSUME NEW b \in Cuts(s), Follows(s, b, n) PROVE \E x \in Cuts(u) : Follows(u, x, n)
    BY <2>5, <2>6, <2>7, <2>9 DEF Follows
  <2>. QED  BY <2>3, <2>8, <2>9
<1>. HIDE DEF S
<1>4. c \in S
  BY <1>1, <1>3, StrongSetInduction
<1>5. c <= Len(s)
  BY <1>1
<1>. QED  BY <1>4, <1>5 DEF S, u

--------------------------------------------------------------------------------
(* The credits of a body. *)

\* A piece of a body, which what arrives later does not change.
LEMMA PieceFacts ==
  ASSUME NEW s \in Bodies, NEW t \in Bodies, NEW m \in Nat \ {0}, NEW n \in Int, n <= Len(s)
  PROVE  SubSeq(s, m, n) \in Bodies /\ SubSeq(s \o t, m, n) = SubSeq(s, m, n)
<1>. DEFINE u == s \o t
<1>1. /\ u \in Bodies /\ Len(s) \in Nat
      /\ \A i \in 1..Len(s) : u[i] = s[i]
  BY JoinFacts
<1>. HIDE DEF u
<1>2. \A i \in m..n : i \in 1..Len(s)
  BY <1>1
<1>3. \A i \in m..n : s[i] \in Bytes /\ u[i] \in Bytes
  BY <1>1, <1>2, ByteIsNumber
<1>4. /\ SubSeq(s, m, n) \in Seq(Bytes)
      /\ Len(SubSeq(s, m, n)) = IF m <= n THEN n - m + 1 ELSE 0
      /\ \A i \in 1..(n - m + 1) : SubSeq(s, m, n)[i] = s[m + i - 1]
  BY <1>3, SubSeqProperties
<1>5. /\ SubSeq(u, m, n) \in Seq(Bytes)
      /\ Len(SubSeq(u, m, n)) = IF m <= n THEN n - m + 1 ELSE 0
      /\ \A i \in 1..(n - m + 1) : SubSeq(u, m, n)[i] = u[m + i - 1]
  BY <1>3, SubSeqProperties
<1>6. ASSUME NEW i \in 1..Len(SubSeq(s, m, n)) PROVE SubSeq(u, m, n)[i] = SubSeq(s, m, n)[i]
  <2>1. i \in 1..(n - m + 1) /\ m + i - 1 \in 1..Len(s)
    BY <1>1, <1>4
  <2>. QED  BY <1>1, <1>4, <1>5, <2>1
<1>7. SubSeq(u, m, n) = SubSeq(s, m, n)
  BY <1>4, <1>5, <1>6, SameBytes DEF Bodies
<1>. QED  BY <1>4, <1>7 DEF u, Bodies

LEMMA CreditsType ==
  ASSUME NEW headers \in Bodies, NEW payload \in Bodies
  PROVE  Credits(headers, payload) \in Nat
<1>1. payload # <<>> => 1 \in 1..Len(payload)
  BY EmptySeq DEF Bodies
<1>. QED  BY <1>1, ByteIsNumber DEF Credits

\* What the two pieces of a frame are, by the buffer's first bytes.
LEMMA FramePieces ==
  ASSUME NEW f \in Bodies, NEW t \in Bodies, Len(f) >= 2, f[2] + 3 <= f[1], f[1] <= Len(f)
  PROVE  /\ Headers(f) \in Bodies /\ Payload(f) \in Bodies
         /\ Headers(f \o t) = Headers(f) /\ Payload(f \o t) = Payload(f)
<1>1. Len(f) \in Nat /\ 1 \in 1..Len(f) /\ 2 \in 1..Len(f)
  BY DEF Bodies
<1>2. f[1] \in Nat /\ f[2] \in Nat
  BY <1>1, ByteIsNumber
<1>3. (f \o t)[1] = f[1] /\ (f \o t)[2] = f[2]
  BY <1>1, JoinFacts
<1>4. /\ 3 \in Nat \ {0} /\ 2 + f[2] \in Int /\ 2 + f[2] <= Len(f)
      /\ 2 + f[2] + 1 \in Nat \ {0} /\ f[1] - 1 \in Int /\ f[1] - 1 <= Len(f)
  BY <1>1, <1>2
<1>5. /\ SubSeq(f, 3, 2 + f[2]) \in Bodies
      /\ SubSeq(f \o t, 3, 2 + f[2]) = SubSeq(f, 3, 2 + f[2])
  BY <1>4, PieceFacts
<1>6. /\ SubSeq(f, 2 + f[2] + 1, f[1] - 1) \in Bodies
      /\ SubSeq(f \o t, 2 + f[2] + 1, f[1] - 1) = SubSeq(f, 2 + f[2] + 1, f[1] - 1)
  BY <1>4, PieceFacts
<1>7. 2 + 1 = 3
  OBVIOUS
<1>. QED  BY <1>3, <1>5, <1>6, <1>7 DEF Headers, Payload, Total, Prelude, CRC

LEMMA FrameBuffer ==
  ASSUME NEW s \in Bodies, NEW c \in 0..Len(s), IsFrame(s, c)
  PROVE  LET f == From(s, c) IN
           /\ f \in Bodies /\ Len(f) = Len(s) - c /\ f[1] = s[c + 1] /\ f[2] = s[c + 2]
           /\ Len(f) >= 2 /\ f[2] + 3 <= f[1] /\ f[1] <= Len(f)
<1>. DEFINE f == From(s, c)
<1>1. f \in Bodies /\ Len(f) = Len(s) - c /\ \A i \in 1..(Len(s) - c) : f[i] = s[c + i]
  BY FromFacts
<1>. HIDE DEF f
<1>2. Len(s) \in Nat /\ 1 \in 1..(Len(s) - c) /\ 2 \in 1..(Len(s) - c)
  BY DEF IsFrame, Bodies
<1>3. f[1] = s[c + 1] /\ f[2] = s[c + 2]
  BY <1>1, <1>2
<1>4. s[c + 1] \in Nat /\ s[c + 2] \in Nat
  BY FrameFits
<1>5. Len(f) >= 2 /\ f[2] + 3 <= f[1] /\ f[1] <= Len(f)
  BY <1>1, <1>2, <1>3, <1>4 DEF IsFrame
<1>. QED  BY <1>1, <1>3, <1>5 DEF f

LEMMA ChargeType ==
  ASSUME NEW s \in Bodies, NEW c \in 0..Len(s)
  PROVE  Charge(s, c) \in Nat
<1>1. CASE IsFrame(s, c)
  <2>1. <<>> \in Bodies
    BY EmptySeq DEF Bodies
  <2>2. Headers(From(s, c)) \in Bodies /\ Payload(From(s, c)) \in Bodies
    BY <1>1, <2>1, FrameBuffer, FramePieces
  <2>. QED  BY <2>2, CreditsType DEF Charge
<1>2. CASE ~IsFrame(s, c)
  BY <1>2, FrameByBytes DEF Charge
<1>. QED  BY <1>1, <1>2

LEMMA ChargeOfJoin ==
  ASSUME NEW s \in Bodies, NEW t \in Bodies, NEW c \in 0..Len(s), IsFrame(s, c)
  PROVE  Charge(s \o t, c) = Charge(s, c)
<1>1. IsFrame(s \o t, c) /\ c \in 0..Len(s \o t) /\ s \o t \in Bodies
  <2>1. Len(s \o t) = Len(s) + Len(t) /\ Len(s) \in Nat /\ Len(t) \in Nat /\ s \o t \in Bodies
    BY JoinFacts
  <2>2. c \in 0..Len(s \o t)
    BY <2>1
  <2>. QED  BY <2>1, <2>2, FrameOfJoin
<1>2. FrameAt(s \o t, c) /\ FrameAt(s, c)
  BY <1>1, FrameByBytes
<1>3. From(s \o t, c) = From(s, c) \o t
  BY FromJoin
<1>4. /\ Headers(From(s, c) \o t) = Headers(From(s, c))
      /\ Payload(From(s, c) \o t) = Payload(From(s, c))
  BY FrameBuffer, FramePieces
<1>. QED  BY <1>2, <1>3, <1>4 DEF Charge

\* The sum that Owed defines by recursion.
LEMMA OwedIs ==
  ASSUME NEW s \in Bodies, NEW cuts
  PROVE  /\ Owed(s, cuts) \in [0..Len(s) -> Nat]
         /\ Owed(s, cuts)[0] = 0
         /\ \A n \in 1..Len(s) :
              Owed(s, cuts)[n] = Owed(s, cuts)[n - 1] + (IF n - 1 \in cuts THEN Charge(s, n - 1) ELSE 0)
<1>. DEFINE Due(n) == IF n - 1 \in cuts THEN Charge(s, n - 1) ELSE 0
            Good(h) == h = [n \in 0..Len(s) |-> IF n = 0 THEN 0 ELSE h[n - 1] + Due(n)]
            owed == CHOOSE h : Good(h)
            Paid(n) == IF n \in 1..Len(s) THEN Due(n) ELSE 0
            f == [n \in Nat |-> [x \in Nat |-> x + Paid(n)]]
<1>0. Len(s) \in Nat
  BY DEF Bodies
<1>1. Owed(s, cuts) = owed
  BY DEF Owed
<1>2. \A n \in Nat : Paid(n) \in Nat
  <2>1. \A n \in 1..Len(s) : n - 1 \in 0..Len(s)
    BY <1>0
  <2>. QED  BY <2>1, ChargeType
<1>3. f \in [Nat -> [Nat -> Nat]] /\ \A n \in Nat : \A x \in Nat : f[n][x] = x + Paid(n)
  <2>. HIDE DEF Paid
  <2>. QED  BY <1>2
<1>4. \A n \in 1..Len(s) : Paid(n) = Due(n)
  OBVIOUS
<1>. HIDE DEF f, Due
<1>5. PICK h \in [0..Len(s) -> Nat] : Steps(h, 0, f, Len(s))
  BY <1>0, <1>3, StepsExist
<1>. HIDE DEF Paid
<1>6. ASSUME NEW n \in 1..Len(s) PROVE h[n] = h[n - 1] + Due(n)
  <2>1. n \in Nat /\ n - 1 \in 0..Len(s)
    BY <1>0
  <2>2. h[n - 1] \in Nat
    BY <2>1
  <2>. QED  BY <1>3, <1>4, <1>5, <2>1, <2>2 DEF Steps
<1>7. Good(h)
  <2>1. h = [n \in 0..Len(s) |-> h[n]]
    OBVIOUS
  <2>2. \A n \in 0..Len(s) : n = 0 \/ n \in 1..Len(s)
    BY <1>0
  <2>. QED  BY <1>5, <1>6, <2>1, <2>2 DEF Steps
<1>8. Good(owed)
  BY <1>7
<1>. HIDE DEF owed
<1>9. /\ DOMAIN owed = 0..Len(s) /\ owed = [n \in 0..Len(s) |-> owed[n]]
      /\ owed[0] = 0
      /\ \A n \in 1..Len(s) : owed[n] = owed[n - 1] + Due(n)
  <2>. DEFINE g == [n \in 0..Len(s) |-> IF n = 0 THEN 0 ELSE owed[n - 1] + Due(n)]
  <2>1. owed = g
    BY <1>8
  <2>2. g[0] = 0 /\ \A n \in 1..Len(s) : g[n] = owed[n - 1] + Due(n)
    BY <1>0
  <2>3. DOMAIN g = 0..Len(s) /\ g = [n \in 0..Len(s) |-> g[n]]
    OBVIOUS
  <2>. HIDE DEF g
  <2>. QED  BY <2>1, <2>2, <2>3
<1>10. \A n \in 0..Len(s) : owed[n] \in Nat
  <2>. DEFINE S == {n \in Nat : n <= Len(s) => owed[n] \in Nat}
  <2>1. 0 \in S
    BY <1>9
  <2>2. ASSUME NEW n \in Nat, n \in S PROVE n + 1 \in S
    <3>1. SUFFICES ASSUME n + 1 <= Len(s) PROVE owed[n + 1] \in Nat
      OBVIOUS
    <3>2. n + 1 \in 1..Len(s) /\ (n + 1) - 1 = n /\ n <= Len(s)
      BY <1>0, <3>1
    <3>3. owed[n + 1] = owed[n] + Due(n + 1)
      BY <1>9, <3>2
    <3>4. owed[n] \in Nat /\ Due(n + 1) \in Nat
      BY <1>2, <1>4, <2>2, <3>2
    <3>. QED  BY <3>3, <3>4
  <2>. HIDE DEF S
  <2>3. \A n \in Nat : n \in S
    BY <2>1, <2>2, SetInduction
  <2>. QED  BY <1>0, <2>3 DEF S
<1>11. owed \in [0..Len(s) -> Nat]
  BY <1>9, <1>10
<1>. QED  BY <1>1, <1>9, <1>11 DEF Due

--------------------------------------------------------------------------------
(* A parser at a cut has counted the frames before it. *)

Before(s, c) == {b \in Cuts(s) : b < c}
Counted(s, c, frames, credits) ==
  /\ c \in Cuts(s)
  /\ frames = Cardinality(Before(s, c))
  /\ credits = Owed(s, Cuts(s))[c]

LEMMA BeforeFinite ==
  ASSUME NEW s \in Bodies, NEW c
  PROVE  IsFiniteSet(Before(s, c)) /\ Cardinality(Before(s, c)) \in Nat
<1>1. Len(s) \in Nat
  BY DEF Bodies
<1>2. IsFiniteSet(0..Len(s))
  BY <1>1, FS_Interval
<1>3. Before(s, c) \subseteq 0..Len(s)
  BY CutsAre DEF Before
<1>. QED  BY <1>2, <1>3, FS_Subset, FS_CardinalityType

\* Between two cuts nothing is owed.
LEMMA OwedNext ==
  ASSUME NEW s \in Bodies, NEW c \in Cuts(s), IsFrame(s, c)
  PROVE  Owed(s, Cuts(s))[c + s[c + 1]] = Owed(s, Cuts(s))[c] + Charge(s, c)
<1>. DEFINE owed == Owed(s, Cuts(s))
            S == {n \in Nat : n < s[c + 1] => owed[c + 1 + n] = owed[c] + Charge(s, c)}
<1>1. Len(s) \in Nat /\ c \in 0..Len(s) /\ c \in Nat
  BY CutsAre DEF Bodies
<1>2. s[c + 1] \in Nat /\ s[c + 1] >= 3 /\ c + s[c + 1] \in 0..Len(s)
  BY <1>1, FrameFits
<1>3. /\ owed \in [0..Len(s) -> Nat]
      /\ \A n \in 1..Len(s) : owed[n] = owed[n - 1] + (IF n - 1 \in Cuts(s) THEN Charge(s, n - 1) ELSE 0)
  BY OwedIs
<1>4. Charge(s, c) \in Nat
  BY <1>1, ChargeType
<1>. HIDE DEF owed
<1>5. 0 \in S
  <2>1. c + 1 + 0 \in 1..Len(s) /\ (c + 1 + 0) - 1 = c
    BY <1>1, <1>2
  <2>. QED  BY <1>3, <2>1
<1>6. ASSUME NEW n \in Nat, n \in S PROVE n + 1 \in S
  <2>1. SUFFICES ASSUME n + 1 < s[c + 1] PROVE owed[c + 1 + (n + 1)] = owed[c] + Charge(s, c)
    OBVIOUS
  <2>2. n < s[c + 1]
    BY <1>2, <2>1
  <2>3. owed[c + 1 + n] = owed[c] + Charge(s, c)
    BY <1>6, <2>2
  <2>4. /\ c + 1 + (n + 1) \in 1..Len(s) /\ (c + 1 + (n + 1)) - 1 = c + 1 + n
        /\ c < c + 1 + n /\ c + 1 + n < c + s[c + 1]
    BY <1>1, <1>2, <2>1
  <2>5. c + 1 + n \notin Cuts(s)
    <3>1. c + 1 + n \in Nat /\ ~(c + s[c + 1] <= c + 1 + n)
      BY <1>1, <1>2, <2>4
    <3>. QED  BY <2>4, <3>1, CutsApart
  <2>6. owed[c + 1 + (n + 1)] = owed[c + 1 + n] + 0
    BY <1>3, <2>4, <2>5
  <2>7. owed[c] \in Nat
    BY <1>1, <1>3
  <2>. QED  BY <1>4, <2>3, <2>6, <2>7
<1>. HIDE DEF S
<1>7. \A n \in Nat : n \in S
  BY <1>5, <1>6, SetInduction
<1>8. \A x \in Nat : x >= 3 => x - 1 \in Nat /\ x - 1 < x /\ c + 1 + (x - 1) = c + x
  BY <1>1
<1>9. /\ s[c + 1] - 1 \in S /\ s[c + 1] - 1 < s[c + 1]
      /\ c + 1 + (s[c + 1] - 1) = c + s[c + 1]
  BY <1>2, <1>7, <1>8
<1>. QED  BY <1>9 DEF S, owed

LEMMA CountNext ==
  ASSUME NEW s \in Bodies, NEW c, NEW frames \in Nat, NEW credits \in Nat,
         Counted(s, c, frames, credits), IsFrame(s, c)
  PROVE  Counted(s, c + s[c + 1], frames + 1, credits + Charge(s, c))
<1>1. c \in Cuts(s)
  BY DEF Counted
<1>2. c + s[c + 1] \in Cuts(s) /\ Before(s, c + s[c + 1]) = Before(s, c) \cup {c}
  BY <1>1, NextCut DEF Before
<1>3. c \notin Before(s, c)
  <2>1. Len(s) \in Nat /\ c \in 0..Len(s)
    BY <1>1, CutsAre DEF Bodies
  <2>. QED  BY <2>1 DEF Before
<1>4. Cardinality(Before(s, c) \cup {c}) = Cardinality(Before(s, c)) + 1
  BY <1>3, BeforeFinite, FS_AddElement
<1>. QED  BY <1>1, <1>2, <1>4, OwedNext DEF Counted

LEMMA OwedOfJoin ==
  ASSUME NEW s \in Bodies, NEW t \in Bodies, NEW c \in Cuts(s)
  PROVE  Owed(s \o t, Cuts(s \o t))[c] = Owed(s, Cuts(s))[c]
<1>. DEFINE u == s \o t
            now == Owed(s, Cuts(s))
            then == Owed(u, Cuts(u))
            S == {n \in Nat : n <= c => then[n] = now[n]}
<1>1. Len(s) \in Nat /\ c \in 0..Len(s) /\ c \in Nat
  BY CutsAre DEF Bodies
<1>2. u \in Bodies /\ Len(u) \in Nat /\ Len(s) <= Len(u)
  <2>1. u \in Bodies /\ Len(u) = Len(s) + Len(t) /\ Len(s) \in Nat /\ Len(t) \in Nat
    BY JoinFacts
  <2>. HIDE DEF u
  <2>. QED  BY <2>1
<1>3. \A b \in 0..Len(s) : /\ b \in Cuts(u) <=> b \in Cuts(s)
                           /\ IsFrame(s, b) => Charge(u, b) = Charge(s, b)
  BY CutsOfJoin, ChargeOfJoin
<1>. HIDE DEF u
<1>4. /\ now[0] = 0
      /\ \A n \in 1..Len(s) : now[n] = now[n - 1] + (IF n - 1 \in Cuts(s) THEN Charge(s, n - 1) ELSE 0)
  BY OwedIs
<1>5. /\ then[0] = 0
      /\ \A n \in 1..Len(u) : then[n] = then[n - 1] + (IF n - 1 \in Cuts(u) THEN Charge(u, n - 1) ELSE 0)
  BY <1>2, OwedIs
<1>. HIDE DEF now, then
<1>6. 0 \in S
  BY <1>4, <1>5
<1>7. ASSUME NEW n \in Nat, n \in S PROVE n + 1 \in S
  <2>1. SUFFICES ASSUME n + 1 <= c PROVE then[n + 1] = now[n + 1]
    OBVIOUS
  <2>2. /\ n + 1 \in 1..Len(s) /\ n + 1 \in 1..Len(u) /\ (n + 1) - 1 = n
        /\ n < c /\ n <= c /\ n \in 0..Len(s)
    BY <1>1, <1>2, <2>1
  <2>3. then[n] = now[n]
    BY <1>7, <2>2
  <2>4. n \in Cuts(s) => IsFrame(s, n)
    BY <2>2, CutsApart
  <2>5. /\ now[n + 1] = now[n] + (IF n \in Cuts(s) THEN Charge(s, n) ELSE 0)
        /\ then[n + 1] = then[n] + (IF n \in Cuts(u) THEN Charge(u, n) ELSE 0)
    BY <1>4, <1>5, <2>2
  <2>. QED  BY <1>3, <2>2, <2>3, <2>4, <2>5
<1>. HIDE DEF S
<1>8. c \in S
  BY <1>1, <1>6, <1>7, SetInduction
<1>9. c <= c
  BY <1>1
<1>. QED  BY <1>8, <1>9 DEF S, now, then, u

\* What arrives later does not change what was counted.
LEMMA CountKept ==
  ASSUME NEW s \in Bodies, NEW t \in Bodies, NEW c, NEW frames, NEW credits,
         Counted(s, c, frames, credits)
  PROVE  Counted(s \o t, c, frames, credits)
<1>1. Len(s) \in Nat /\ c \in 0..Len(s) /\ c \in Cuts(s)
  BY CutsAre DEF Counted, Bodies
<1>2. c \in Cuts(s \o t)
  BY <1>1, CutsOfJoin
<1>3. Before(s \o t, c) = Before(s, c)
  <2>1. s \o t \in Bodies /\ Len(s \o t) \in Nat
    <3>1. s \o t \in Bodies
      BY JoinFacts
    <3>. QED  BY <3>1 DEF Bodies
  <2>2. \A b \in Cuts(s \o t) : b \in Nat
    BY <2>1, CutsAre
  <2>3. \A b \in Cuts(s) : b \in Nat
    BY <1>1, CutsAre
  <2>4. \A b \in Nat : b < c => b \in 0..Len(s)
    BY <1>1
  <2>5. \A b \in 0..Len(s) : b \in Cuts(s \o t) <=> b \in Cuts(s)
    BY CutsOfJoin
  <2>. QED  BY <2>2, <2>3, <2>4, <2>5 DEF Before
<1>. QED  BY <1>1, <1>2, <1>3, OwedOfJoin DEF Counted

\* Who is at the last cut has counted all frames.
LEMMA CountAll ==
  ASSUME NEW s \in Bodies, NEW c, NEW frames, NEW credits,
         Counted(s, c, frames, credits), ~IsFrame(s, c)
  PROVE  /\ c = Max(Cuts(s))
         /\ frames = Cardinality(Cuts(s)) - 1
         /\ credits = Owed(s, Cuts(s))[Max(Cuts(s))]
<1>1. c \in Cuts(s) /\ Len(s) \in Nat /\ c \in 0..Len(s)
  BY CutsAre DEF Counted, Bodies
<1>2. Max(Cuts(s)) = c /\ Cuts(s) = Before(s, c) \cup {c}
  BY <1>1, LastCut DEF Before
<1>3. c \notin Before(s, c)
  BY <1>1 DEF Before
<1>4. Cardinality(Cuts(s)) = Cardinality(Before(s, c)) + 1 /\ Cardinality(Before(s, c)) \in Nat
  BY <1>2, <1>3, BeforeFinite, FS_AddElement
<1>. QED  BY <1>2, <1>4 DEF Counted

--------------------------------------------------------------------------------
(* What the parsers see of a body at a cut. *)

\* The first two bytes of a buffer decide.
LEMMA LengthsOfJoin ==
  ASSUME NEW f \in Bodies, NEW t \in Bodies, Len(f) >= 2
  PROVE  /\ OutOfBounds(f \o t) <=> OutOfBounds(f)
         /\ Overlong(f \o t) <=> Overlong(f)
         /\ Len(f \o t) >= 2
<1>1. Len(f) \in Nat /\ 1 \in 1..Len(f) /\ 2 \in 1..Len(f)
  BY DEF Bodies
<1>2. (f \o t)[1] = f[1] /\ (f \o t)[2] = f[2] /\ Len(f \o t) = Len(f) + Len(t) /\ Len(t) \in Nat
  BY <1>1, JoinFacts
<1>. QED  BY <1>1, <1>2 DEF OutOfBounds, Overlong, Total

\* A whole frame in the buffer is one in the body.
LEMMA WholeFrame ==
  ASSUME NEW s \in Bodies, NEW c \in 0..Len(s)
  PROVE  IsFrame(s, c) <=> /\ Len(From(s, c)) >= 2
                           /\ ~OutOfBounds(From(s, c)) /\ ~Overlong(From(s, c))
                           /\ ~(Len(From(s, c)) < Total(From(s, c)))
<1>1. Len(From(s, c)) \in Nat /\ From(s, c) \in Bodies
  BY FromFacts DEF Bodies
<1>2. Len(From(s, c)) >= 2 => Total(From(s, c)) \in Nat
  <2>1. Len(From(s, c)) >= 2 => 1 \in 1..Len(From(s, c))
    BY <1>1
  <2>. QED  BY <1>1, <2>1, ByteIsNumber DEF Total
<1>. QED  BY <1>1, <1>2, FrameByBytes DEF FrameAt, Prelude

\* Handling a frame: what is left, and what is charged.
LEMMA FrameHandled ==
  ASSUME NEW s \in Bodies, NEW c \in 0..Len(s), IsFrame(s, c)
  PROVE  LET f == From(s, c) IN
           /\ Rest(f) = From(s, c + s[c + 1])
           /\ Credits(Headers(f), Payload(f)) = Charge(s, c)
           /\ From(s, c + s[c + 1]) \in Bodies
           /\ Len(From(s, c + s[c + 1])) < Len(f)
<1>. DEFINE f == From(s, c)
            n == s[c + 1]
<1>1. f \in Bodies /\ Len(f) = Len(s) - c /\ f[1] = n /\ n <= Len(f)
  BY FrameBuffer
<1>2. n \in Nat /\ n >= 3 /\ c + n \in 0..Len(s) /\ Len(s) \in Nat
  BY FrameFits DEF Bodies
<1>3. n \in 0..(Len(s) - c)
  BY <1>1, <1>2
<1>4. Rest(f) = From(s, c + n)
  BY <1>1, <1>3, RestOfFrom DEF Rest, Total
<1>5. From(s, c + n) \in Bodies /\ Len(From(s, c + n)) = Len(s) - (c + n)
  BY <1>2, FromFacts
<1>6. Len(From(s, c + n)) < Len(f)
  BY <1>1, <1>2, <1>5
<1>7. Credits(Headers(f), Payload(f)) = Charge(s, c)
  BY FrameByBytes DEF Charge
<1>. QED  BY <1>4, <1>5, <1>6, <1>7

--------------------------------------------------------------------------------
(* MeteringSink. *)

SinkType == [buf : Bodies, stopped : BOOLEAN, credits : Nat, frames : Nat]

Senseless(f) == Len(f) >= 2 /\ (OutOfBounds(f) \/ Overlong(f))

SinkAt(s, m) ==
  /\ m \in SinkType
  /\ \E c \in Cuts(s) :
       /\ Counted(s, c, m.frames, m.credits)
       /\ IF m.stopped THEN m.buf = <<>> /\ Senseless(From(s, c)) ELSE m.buf = From(s, c)

\* Its loop is over.
SinkWaits(m) ==
  \/ m.stopped
  \/ Len(m.buf) < 2
  \/ ~OutOfBounds(m.buf) /\ ~Overlong(m.buf) /\ Len(m.buf) < Total(m.buf)

LEMMA SinkFrame ==
  ASSUME NEW s \in Bodies, NEW m, SinkAt(s, m)
  PROVE  /\ SinkAt(s, ParseFrame(m))
         /\ SinkWaits(m) => ParseFrame(m) = m
         /\ ~SinkWaits(m) => Len(ParseFrame(m).buf) < Len(m.buf)
<1>1. PICK c \in Cuts(s) :
        /\ Counted(s, c, m.frames, m.credits)
        /\ IF m.stopped THEN m.buf = <<>> /\ Senseless(From(s, c)) ELSE m.buf = From(s, c)
  BY DEF SinkAt
<1>2. m \in SinkType /\ m.frames \in Nat /\ m.credits \in Nat /\ Len(m.buf) \in Nat /\ m.buf \in Bodies
  BY DEF SinkAt, SinkType, Bodies
<1>3. c \in 0..Len(s)
  BY CutsAre
<1>4. <<>> \in Bodies /\ Len(<<>>) = 0
  BY EmptySeq DEF Bodies
<1>5. CASE Len(m.buf) < 2
  BY <1>5 DEF ParseFrame, SinkWaits, Prelude
<1>6. CASE ~(Len(m.buf) < 2) /\ (OutOfBounds(m.buf) \/ Overlong(m.buf))
  <2>1. ~m.stopped /\ m.buf = From(s, c)
    BY <1>1, <1>4, <1>6
  <2>2. ParseFrame(m) = [m EXCEPT !.stopped = TRUE, !.buf = <<>>]
    BY <1>6 DEF ParseFrame, Stopped, Prelude
  <2>3. /\ ParseFrame(m) \in SinkType /\ ParseFrame(m).stopped /\ ParseFrame(m).buf = <<>>
        /\ ParseFrame(m).frames = m.frames /\ ParseFrame(m).credits = m.credits
    BY <1>2, <1>4, <2>2 DEF SinkType
  <2>4. Senseless(From(s, c))
    BY <1>2, <1>6, <2>1 DEF Senseless
  <2>5. SinkAt(s, ParseFrame(m))
    BY <1>1, <2>3, <2>4 DEF SinkAt
  <2>6. ~SinkWaits(m) /\ Len(ParseFrame(m).buf) < Len(m.buf)
    BY <1>2, <1>4, <1>6, <2>1, <2>3 DEF SinkWaits
  <2>. QED  BY <2>5, <2>6
<1>7. CASE ~(Len(m.buf) < 2) /\ ~OutOfBounds(m.buf) /\ ~Overlong(m.buf) /\ Len(m.buf) < Total(m.buf)
  BY <1>7 DEF ParseFrame, SinkWaits, Prelude
<1>8. CASE ~(Len(m.buf) < 2) /\ ~OutOfBounds(m.buf) /\ ~Overlong(m.buf) /\ ~(Len(m.buf) < Total(m.buf))
  <2>1. ~m.stopped /\ m.buf = From(s, c)
    BY <1>1, <1>4, <1>8
  <2>2. IsFrame(s, c)
    BY <1>2, <1>3, <1>8, <2>1, WholeFrame
  <2>. DEFINE d == c + s[c + 1]
  <2>3. /\ Rest(m.buf) = From(s, d) /\ Credits(Headers(m.buf), Payload(m.buf)) = Charge(s, c)
        /\ From(s, d) \in Bodies /\ Len(From(s, d)) < Len(m.buf)
    BY <1>3, <2>1, <2>2, FrameHandled
  <2>4. Counted(s, d, m.frames + 1, m.credits + Charge(s, c))
    BY <1>1, <1>2, <2>2, CountNext
  <2>. HIDE DEF d
  <2>5. Charge(s, c) \in Nat
    BY <1>3, ChargeType
  <2>6. ParseFrame(m) = [m EXCEPT !.frames = m.frames + 1, !.credits = m.credits + Charge(s, c),
                                  !.buf = From(s, d)]
    BY <1>8, <2>3 DEF ParseFrame, HandleFrame, Prelude
  <2>7. /\ ParseFrame(m) \in SinkType /\ ~ParseFrame(m).stopped /\ ParseFrame(m).buf = From(s, d)
        /\ ParseFrame(m).frames = m.frames + 1 /\ ParseFrame(m).credits = m.credits + Charge(s, c)
    <3>1. m.frames + 1 \in Nat /\ m.credits + Charge(s, c) \in Nat
      BY <1>2, <2>5
    <3>. DEFINE n == m.frames + 1
                k == m.credits + Charge(s, c)
                b == From(s, d)
    <3>2. n \in Nat /\ k \in Nat /\ b \in Bodies
      BY <2>3, <3>1
    <3>3. ParseFrame(m) = [m EXCEPT !.frames = n, !.credits = k, !.buf = b]
      BY <2>6
    <3>. HIDE DEF n, k, b
    <3>4. /\ ParseFrame(m) \in SinkType /\ ~ParseFrame(m).stopped /\ ParseFrame(m).buf = b
          /\ ParseFrame(m).frames = n /\ ParseFrame(m).credits = k
      BY <1>2, <2>1, <3>2, <3>3 DEF SinkType
    <3>. QED  BY <3>4 DEF n, k, b
  <2>8. SinkAt(s, ParseFrame(m))
    BY <2>4, <2>7 DEF SinkAt, Counted
  <2>9. ~SinkWaits(m)
    BY <1>8, <2>1 DEF SinkWaits
  <2>. QED  BY <2>3, <2>7, <2>8, <2>9
<1>. QED  BY <1>1, <1>2, <1>5, <1>6, <1>7, <1>8

\* The function that ParseFrames defines by recursion, turn by turn.
LEMMA SinkFrames ==
  ASSUME NEW s \in Bodies, NEW m, SinkAt(s, m)
  PROVE  SinkAt(s, ParseFrames(m)) /\ SinkWaits(ParseFrames(m))
<1>. DEFINE N == Len(m.buf)
            Good(h) == h = [n \in 0..N |-> IF n = 0 THEN m ELSE ParseFrame(h[n - 1])]
            parsed == CHOOSE h : Good(h)
            T == {x \in SinkType : SinkAt(s, x)}
            f == [n \in Nat |-> [x \in T |-> ParseFrame(x)]]
<1>1. N \in Nat /\ m \in T
  BY DEF SinkAt, SinkType, Bodies
<1>2. ParseFrames(m) = parsed[N]
  BY DEF ParseFrames
<1>3. \A x \in T : ParseFrame(x) \in T
  BY SinkFrame DEF SinkAt
<1>4. f \in [Nat -> [T -> T]] /\ \A n \in Nat : \A x \in T : f[n][x] = ParseFrame(x)
  <2>. HIDE DEF T
  <2>. QED  BY <1>3
<1>. HIDE DEF f, T, N
<1>5. PICK h \in [0..N -> T] : Steps(h, m, f, N)
  BY <1>1, <1>4, StepsExist
<1>6. ASSUME NEW n \in 1..N PROVE h[n] = ParseFrame(h[n - 1])
  <2>1. n \in Nat /\ n - 1 \in 0..N
    BY <1>1
  <2>2. h[n - 1] \in T
    BY <2>1
  <2>. QED  BY <1>4, <1>5, <2>1, <2>2 DEF Steps
<1>7. Good(h)
  <2>1. h = [n \in 0..N |-> h[n]]
    OBVIOUS
  <2>2. \A n \in 0..N : n = 0 \/ n \in 1..N
    BY <1>1
  <2>3. h[0] = m
    BY <1>5 DEF Steps
  <2>. QED  BY <1>6, <2>1, <2>2, <2>3
<1>8. Good(parsed)
  BY <1>7
<1>. HIDE DEF parsed
<1>9. parsed[0] = m /\ \A n \in 1..N : parsed[n] = ParseFrame(parsed[n - 1])
  <2>. DEFINE g == [n \in 0..N |-> IF n = 0 THEN m ELSE ParseFrame(parsed[n - 1])]
  <2>1. parsed = g
    BY <1>8
  <2>2. g[0] = m /\ \A n \in 1..N : g[n] = ParseFrame(parsed[n - 1])
    BY <1>1
  <2>. HIDE DEF g
  <2>. QED  BY <2>1, <2>2
<1>. DEFINE Turned(n) == SinkAt(s, parsed[n]) /\ (SinkWaits(parsed[n]) \/ Len(parsed[n].buf) <= N - n)
            S == {n \in Nat : n <= N => Turned(n)}
<1>10. 0 \in S
  BY <1>1, <1>9 DEF N
<1>11. ASSUME NEW n \in Nat, n \in S PROVE n + 1 \in S
  <2>1. SUFFICES ASSUME n + 1 <= N PROVE Turned(n + 1)
    OBVIOUS
  <2>2. n + 1 \in 1..N /\ (n + 1) - 1 = n /\ n <= N
    BY <1>1, <2>1
  <2>3. parsed[n + 1] = ParseFrame(parsed[n])
    BY <1>9, <2>2
  <2>4. Turned(n)
    BY <1>11, <2>2
  <2>. DEFINE x == parsed[n]
              y == ParseFrame(x)
  <2>5. /\ SinkAt(s, x) /\ SinkAt(s, y)
        /\ SinkWaits(x) => y = x
        /\ ~SinkWaits(x) => Len(y.buf) < Len(x.buf)
    BY <2>4, SinkFrame
  <2>6. Len(x.buf) \in Nat /\ Len(y.buf) \in Nat
    BY <2>5 DEF SinkAt, SinkType, Bodies
  <2>7. SinkWaits(x) \/ Len(x.buf) <= N - n
    BY <2>4
  <2>. HIDE DEF x, y
  <2>8. SinkWaits(y) \/ Len(y.buf) <= N - (n + 1)
    BY <1>1, <2>5, <2>6, <2>7
  <2>. QED  BY <2>3, <2>5, <2>8 DEF x, y
<1>. HIDE DEF S
<1>12. N \in S
  BY <1>1, <1>10, <1>11, SetInduction
<1>13. SinkAt(s, parsed[N]) /\ (SinkWaits(parsed[N]) \/ Len(parsed[N].buf) <= 0)
  BY <1>1, <1>12 DEF S
<1>14. SinkWaits(parsed[N])
  <2>1. Len(parsed[N].buf) \in Nat
    BY <1>13 DEF SinkAt, SinkType, Bodies
  <2>. QED  BY <1>13, <2>1 DEF SinkWaits
<1>. QED  BY <1>2, <1>13, <1>14

\* A buffer that waits is shorter than a frame may be.
LEMMA WaitingIsShort ==
  ASSUME NEW f \in Bodies,
         Len(f) < 2 \/ (~OutOfBounds(f) /\ Len(f) < Total(f))
  PROVE  Len(f) < MaxMsg
<1>1. Len(f) \in Nat /\ MaxMsg \in Nat /\ MaxMsg >= 3
  BY BoundsAssumption DEF Bodies, MinMsg, Prelude, CRC
<1>2. CASE ~(Len(f) < 2)
  <2>1. 1 \in 1..Len(f)
    BY <1>1, <1>2
  <2>2. f[1] \in Nat
    BY <2>1, ByteIsNumber
  <2>. QED  BY <1>1, <1>2, <2>2 DEF OutOfBounds, Total
<1>. QED  BY <1>1, <1>2

\* A read that fits leaves the sink at a cut of the longer body.
LEMMA SinkReads ==
  ASSUME NEW s \in Bodies, NEW t \in Bodies, Len(t) <= MaxChunk, NEW m, SinkAt(s, m), SinkWaits(m)
  PROVE  SinkAt(s \o t, SinkWrite(m, t)) /\ SinkWaits(SinkWrite(m, t))
<1>. DEFINE u == s \o t
            fed == [m EXCEPT !.buf = m.buf \o t]
<1>0. u \in Bodies
  BY JoinFacts
<1>1. PICK c \in Cuts(s) :
        /\ Counted(s, c, m.frames, m.credits)
        /\ IF m.stopped THEN m.buf = <<>> /\ Senseless(From(s, c)) ELSE m.buf = From(s, c)
  BY DEF SinkAt
<1>2. m \in SinkType /\ m.buf \in Bodies /\ Len(m.buf) \in Nat /\ Len(t) \in Nat
  BY DEF SinkAt, SinkType, Bodies
<1>3. c \in 0..Len(s)
  BY CutsAre
<1>4. Counted(u, c, m.frames, m.credits) /\ c \in Cuts(u)
  BY <1>1, CountKept DEF Counted
<1>5. From(u, c) = From(s, c) \o t /\ From(s, c) \in Bodies
  BY <1>3, FromJoin, FromFacts
<1>. HIDE DEF u
<1>6. CASE m.stopped
  <2>1. Senseless(From(u, c))
    BY <1>1, <1>5, <1>6, LengthsOfJoin DEF Senseless
  <2>2. SinkWrite(m, t) = m
    BY <1>6 DEF SinkWrite
  <2>3. SinkAt(u, m)
    BY <1>1, <1>2, <1>4, <1>6, <2>1 DEF SinkAt
  <2>. QED  BY <2>2, <2>3 DEF u
<1>7. CASE ~m.stopped
  <2>1. Len(m.buf) < MaxMsg
    BY <1>2, <1>7, WaitingIsShort DEF SinkWaits
  <2>2. m.buf \o t \in Bodies /\ Len(m.buf \o t) = Len(m.buf) + Len(t)
    BY <1>2, JoinFacts
  <2>3. ~(Len(m.buf \o t) > MaxBuffer)
    BY <1>2, <2>1, <2>2, BoundsAssumption, BufferAssumption
  <2>4. /\ fed \in SinkType /\ ~fed.stopped /\ fed.buf = m.buf \o t
        /\ fed.frames = m.frames /\ fed.credits = m.credits
    BY <1>2, <1>7, <2>2 DEF SinkType
  <2>. HIDE DEF fed
  <2>5. SinkAt(u, fed)
    BY <1>1, <1>4, <1>5, <1>7, <2>4 DEF SinkAt
  <2>6. SinkWrite(m, t) = ParseFrames(fed)
    BY <1>7, <2>3, <2>4 DEF SinkWrite, fed
  <2>. QED  BY <1>0, <2>5, <2>6, SinkFrames DEF u
<1>. QED  BY <1>6, <1>7

--------------------------------------------------------------------------------
(* kiroFrameReader. *)

ReaderType == [buf : Bodies, state : {"reading", "returned", "panicked"},
               credits : Nat, frames : Nat]

\* What the reader has found at a cut, in each of its states.
Found(state, buf, f) ==
  \/ state = "reading" /\ buf = f
  \/ state = "returned" /\ buf = <<>> /\ Len(f) >= 2 /\ OutOfBounds(f)
  \/ state = "panicked" /\ buf = <<>> /\ Len(f) >= 2 /\ ~OutOfBounds(f) /\ Overlong(f)

ReaderAt(s, r) ==
  /\ r \in ReaderType
  /\ \E c \in Cuts(s) :
       Counted(s, c, r.frames, r.credits) /\ Found(r.state, r.buf, From(s, c))

\* Its loop is over.
ReaderWaits(r) ==
  \/ r.state # "reading"
  \/ Len(r.buf) < 2
  \/ ~OutOfBounds(r.buf) /\ Len(r.buf) < Total(r.buf)

LEMMA ReaderFrame ==
  ASSUME NEW s \in Bodies, NEW r, ReaderAt(s, r)
  PROVE  /\ ReaderAt(s, ReadFrame(r))
         /\ ReaderWaits(r) => ReadFrame(r) = r
         /\ ~ReaderWaits(r) => Len(ReadFrame(r).buf) < Len(r.buf)
<1>1. PICK c \in Cuts(s) : Counted(s, c, r.frames, r.credits) /\ Found(r.state, r.buf, From(s, c))
  BY DEF ReaderAt
<1>2. r \in ReaderType /\ r.frames \in Nat /\ r.credits \in Nat /\ Len(r.buf) \in Nat /\ r.buf \in Bodies
  BY DEF ReaderAt, ReaderType, Bodies
<1>3. c \in 0..Len(s)
  BY CutsAre
<1>4. <<>> \in Bodies /\ Len(<<>>) = 0
  BY EmptySeq DEF Bodies
<1>5. CASE r.state # "reading" \/ Len(r.buf) < 2
  BY <1>5 DEF ReadFrame, ReaderWaits, Prelude
<1>6. CASE r.state = "reading" /\ ~(Len(r.buf) < 2) /\ OutOfBounds(r.buf)
  <2>1. r.buf = From(s, c)
    BY <1>1, <1>6 DEF Found
  <2>2. ReadFrame(r) = [r EXCEPT !.state = "returned", !.buf = <<>>]
    BY <1>6 DEF ReadFrame, Prelude
  <2>3. /\ ReadFrame(r) \in ReaderType /\ ReadFrame(r).state = "returned" /\ ReadFrame(r).buf = <<>>
        /\ ReadFrame(r).frames = r.frames /\ ReadFrame(r).credits = r.credits
    BY <1>2, <1>4, <2>2 DEF ReaderType
  <2>4. Found("returned", <<>>, From(s, c))
    BY <1>2, <1>6, <2>1 DEF Found
  <2>5. ReaderAt(s, ReadFrame(r))
    BY <1>1, <2>3, <2>4 DEF ReaderAt
  <2>6. ~ReaderWaits(r) /\ Len(ReadFrame(r).buf) < Len(r.buf)
    BY <1>2, <1>4, <1>6, <2>3 DEF ReaderWaits
  <2>. QED  BY <2>5, <2>6
<1>7. CASE r.state = "reading" /\ ~(Len(r.buf) < 2) /\ ~OutOfBounds(r.buf) /\ Len(r.buf) < Total(r.buf)
  BY <1>7 DEF ReadFrame, ReaderWaits, Prelude
<1>8. CASE /\ r.state = "reading" /\ ~(Len(r.buf) < 2) /\ ~OutOfBounds(r.buf)
           /\ ~(Len(r.buf) < Total(r.buf)) /\ Overlong(r.buf)
  <2>1. r.buf = From(s, c)
    BY <1>1, <1>8 DEF Found
  <2>2. ReadFrame(r) = [r EXCEPT !.state = "panicked", !.buf = <<>>]
    BY <1>8 DEF ReadFrame, Deliver, Prelude
  <2>3. /\ ReadFrame(r) \in ReaderType /\ ReadFrame(r).state = "panicked" /\ ReadFrame(r).buf = <<>>
        /\ ReadFrame(r).frames = r.frames /\ ReadFrame(r).credits = r.credits
    BY <1>2, <1>4, <2>2 DEF ReaderType
  <2>4. Found("panicked", <<>>, From(s, c))
    BY <1>2, <1>8, <2>1 DEF Found
  <2>5. ReaderAt(s, ReadFrame(r))
    BY <1>1, <2>3, <2>4 DEF ReaderAt
  <2>6. ~ReaderWaits(r) /\ Len(ReadFrame(r).buf) < Len(r.buf)
    BY <1>2, <1>4, <1>8, <2>3 DEF ReaderWaits
  <2>. QED  BY <2>5, <2>6
<1>9. CASE /\ r.state = "reading" /\ ~(Len(r.buf) < 2) /\ ~OutOfBounds(r.buf)
           /\ ~(Len(r.buf) < Total(r.buf)) /\ ~Overlong(r.buf)
  <2>1. r.buf = From(s, c)
    BY <1>1, <1>9 DEF Found
  <2>2. IsFrame(s, c)
    BY <1>2, <1>3, <1>9, <2>1, WholeFrame
  <2>. DEFINE d == c + s[c + 1]
              n == r.frames + 1
              k == r.credits + Charge(s, c)
              b == From(s, d)
  <2>3. /\ Rest(r.buf) = b /\ Credits(Headers(r.buf), Payload(r.buf)) = Charge(s, c)
        /\ b \in Bodies /\ Len(b) < Len(r.buf)
    BY <1>3, <2>1, <2>2, FrameHandled
  <2>4. Counted(s, d, n, k)
    BY <1>1, <1>2, <2>2, CountNext
  <2>5. n \in Nat /\ k \in Nat
    <3>1. Charge(s, c) \in Nat
      BY <1>3, ChargeType
    <3>. QED  BY <1>2, <3>1
  <2>6. ReadFrame(r) = [r EXCEPT !.frames = n, !.credits = k, !.buf = b]
    BY <1>9, <2>3 DEF ReadFrame, Deliver, Prelude
  <2>. HIDE DEF n, k, b
  <2>7. /\ ReadFrame(r) \in ReaderType /\ ReadFrame(r).state = "reading" /\ ReadFrame(r).buf = b
        /\ ReadFrame(r).frames = n /\ ReadFrame(r).credits = k
    BY <1>2, <1>9, <2>3, <2>5, <2>6 DEF ReaderType
  <2>. HIDE DEF d
  <2>8. ReaderAt(s, ReadFrame(r))
    BY <2>4, <2>7 DEF ReaderAt, Counted, Found, b
  <2>9. ~ReaderWaits(r)
    BY <1>9 DEF ReaderWaits
  <2>. QED  BY <2>3, <2>7, <2>8, <2>9
<1>. QED  BY <1>5, <1>6, <1>7, <1>8, <1>9

\* The function that ReadFrames defines by recursion, turn by turn.
LEMMA ReaderFrames ==
  ASSUME NEW s \in Bodies, NEW r, ReaderAt(s, r)
  PROVE  ReaderAt(s, ReadFrames(r)) /\ ReaderWaits(ReadFrames(r))
<1>. DEFINE N == Len(r.buf)
            Good(h) == h = [n \in 0..N |-> IF n = 0 THEN r ELSE ReadFrame(h[n - 1])]
            got == CHOOSE h : Good(h)
            T == {x \in ReaderType : ReaderAt(s, x)}
            f == [n \in Nat |-> [x \in T |-> ReadFrame(x)]]
<1>1. N \in Nat /\ r \in T
  BY DEF ReaderAt, ReaderType, Bodies
<1>2. ReadFrames(r) = got[N]
  BY DEF ReadFrames
<1>3. \A x \in T : ReadFrame(x) \in T
  BY ReaderFrame DEF ReaderAt
<1>4. f \in [Nat -> [T -> T]] /\ \A n \in Nat : \A x \in T : f[n][x] = ReadFrame(x)
  <2>. HIDE DEF T
  <2>. QED  BY <1>3
<1>. HIDE DEF f, T, N
<1>5. PICK h \in [0..N -> T] : Steps(h, r, f, N)
  BY <1>1, <1>4, StepsExist
<1>6. ASSUME NEW n \in 1..N PROVE h[n] = ReadFrame(h[n - 1])
  <2>1. n \in Nat /\ n - 1 \in 0..N
    BY <1>1
  <2>2. h[n - 1] \in T
    BY <2>1
  <2>. QED  BY <1>4, <1>5, <2>1, <2>2 DEF Steps
<1>7. Good(h)
  <2>1. h = [n \in 0..N |-> h[n]]
    OBVIOUS
  <2>2. \A n \in 0..N : n = 0 \/ n \in 1..N
    BY <1>1
  <2>3. h[0] = r
    BY <1>5 DEF Steps
  <2>. QED  BY <1>6, <2>1, <2>2, <2>3
<1>8. Good(got)
  BY <1>7
<1>. HIDE DEF got
<1>9. got[0] = r /\ \A n \in 1..N : got[n] = ReadFrame(got[n - 1])
  <2>. DEFINE g == [n \in 0..N |-> IF n = 0 THEN r ELSE ReadFrame(got[n - 1])]
  <2>1. got = g
    BY <1>8
  <2>2. g[0] = r /\ \A n \in 1..N : g[n] = ReadFrame(got[n - 1])
    BY <1>1
  <2>. HIDE DEF g
  <2>. QED  BY <2>1, <2>2
<1>. DEFINE Turned(n) == ReaderAt(s, got[n]) /\ (ReaderWaits(got[n]) \/ Len(got[n].buf) <= N - n)
            S == {n \in Nat : n <= N => Turned(n)}
<1>10. 0 \in S
  BY <1>1, <1>9 DEF N
<1>11. ASSUME NEW n \in Nat, n \in S PROVE n + 1 \in S
  <2>1. SUFFICES ASSUME n + 1 <= N PROVE Turned(n + 1)
    OBVIOUS
  <2>2. n + 1 \in 1..N /\ (n + 1) - 1 = n /\ n <= N
    BY <1>1, <2>1
  <2>3. got[n + 1] = ReadFrame(got[n])
    BY <1>9, <2>2
  <2>4. Turned(n)
    BY <1>11, <2>2
  <2>. DEFINE x == got[n]
              y == ReadFrame(x)
  <2>5. /\ ReaderAt(s, x) /\ ReaderAt(s, y)
        /\ ReaderWaits(x) => y = x
        /\ ~ReaderWaits(x) => Len(y.buf) < Len(x.buf)
    BY <2>4, ReaderFrame
  <2>6. Len(x.buf) \in Nat /\ Len(y.buf) \in Nat
    BY <2>5 DEF ReaderAt, ReaderType, Bodies
  <2>7. ReaderWaits(x) \/ Len(x.buf) <= N - n
    BY <2>4
  <2>. HIDE DEF x, y
  <2>8. ReaderWaits(y) \/ Len(y.buf) <= N - (n + 1)
    BY <1>1, <2>5, <2>6, <2>7
  <2>. QED  BY <2>3, <2>5, <2>8 DEF x, y
<1>. HIDE DEF S
<1>12. N \in S
  BY <1>1, <1>10, <1>11, SetInduction
<1>13. ReaderAt(s, got[N]) /\ (ReaderWaits(got[N]) \/ Len(got[N].buf) <= 0)
  BY <1>1, <1>12 DEF S
<1>14. ReaderWaits(got[N])
  <2>1. Len(got[N].buf) \in Nat
    BY <1>13 DEF ReaderAt, ReaderType, Bodies
  <2>. QED  BY <1>13, <2>1 DEF ReaderWaits
<1>. QED  BY <1>2, <1>13, <1>14


LEMMA ReaderReads ==
  ASSUME NEW s \in Bodies, NEW t \in Bodies, NEW r, ReaderAt(s, r), ReaderWaits(r)
  PROVE  ReaderAt(s \o t, ReaderRead(r, t)) /\ ReaderWaits(ReaderRead(r, t))
<1>. DEFINE u == s \o t
            fed == [r EXCEPT !.buf = r.buf \o t]
<1>0. u \in Bodies
  BY JoinFacts
<1>1. PICK c \in Cuts(s) : Counted(s, c, r.frames, r.credits) /\ Found(r.state, r.buf, From(s, c))
  BY DEF ReaderAt
<1>2. r \in ReaderType /\ r.buf \in Bodies
  BY DEF ReaderAt, ReaderType
<1>3. c \in 0..Len(s)
  BY CutsAre
<1>4. Counted(u, c, r.frames, r.credits) /\ c \in Cuts(u)
  BY <1>1, CountKept DEF Counted
<1>5. From(u, c) = From(s, c) \o t /\ From(s, c) \in Bodies
  BY <1>3, FromJoin, FromFacts
<1>. HIDE DEF u
<1>6. CASE r.state # "reading"
  <2>1. Found(r.state, r.buf, From(u, c))
    BY <1>1, <1>5, <1>6, LengthsOfJoin DEF Found
  <2>2. ReaderRead(r, t) = r
    BY <1>6 DEF ReaderRead
  <2>3. ReaderAt(u, r)
    BY <1>2, <1>4, <2>1 DEF ReaderAt
  <2>. QED  BY <2>2, <2>3 DEF u
<1>7. CASE r.state = "reading"
  <2>1. r.buf \o t \in Bodies /\ r.buf = From(s, c)
    BY <1>1, <1>2, <1>7, JoinFacts DEF Found
  <2>2. /\ fed \in ReaderType /\ fed.state = "reading" /\ fed.buf = r.buf \o t
        /\ fed.frames = r.frames /\ fed.credits = r.credits
    BY <1>2, <1>7, <2>1 DEF ReaderType
  <2>3. ReaderRead(r, t) = ReadFrames(fed)
    BY <1>7 DEF ReaderRead
  <2>. HIDE DEF fed
  <2>4. ReaderAt(u, fed)
    BY <1>4, <1>5, <2>1, <2>2 DEF ReaderAt, Found
  <2>. QED  BY <1>0, <2>3, <2>4, ReaderFrames DEF u
<1>. QED  BY <1>6, <1>7

--------------------------------------------------------------------------------
(* The theorems. *)

Inv ==
  /\ body \in Bodies
  /\ SinkAt(body, sink) /\ SinkWaits(sink)
  /\ ReaderAt(body, reader) /\ ReaderWaits(reader)

LEMMA Start == Init => Inv
<1> SUFFICES ASSUME Init PROVE Inv
  OBVIOUS
<1>1. body = <<>> /\ <<>> \in Bodies /\ Len(<<>>) = 0
  BY EmptySeq DEF Init, Bodies
<1>2. 0 \in Cuts(<<>>) /\ \A c \in Cuts(<<>>) : c = 0
  <2>1. 0 \in 0..0 /\ \A c \in 0..0 : c = 0
    OBVIOUS
  <2>. QED  BY <1>1, <2>1, CutsAre
<1>3. Counted(<<>>, 0, 0, 0)
  <2>1. Before(<<>>, 0) = {}
    BY <1>2 DEF Before
  <2>2. Cardinality(Before(<<>>, 0)) = 0
    BY <2>1, FS_EmptySet
  <2>3. Owed(<<>>, Cuts(<<>>))[0] = 0
    BY <1>1, OwedIs
  <2>. QED  BY <1>2, <2>2, <2>3 DEF Counted
<1>4. From(<<>>, 0) = <<>>
  <2>1. From(<<>>, 0) \in Bodies /\ Len(From(<<>>, 0)) = 0
    <3>1. 0 \in 0..Len(<<>>)
      BY <1>1
    <3>. QED  BY <1>1, <3>1, FromFacts
  <2>. QED  BY <2>1, <1>1, SameBytes
<1>5. SinkAt(<<>>, sink) /\ SinkWaits(sink)
  <2>1. sink = [buf |-> <<>>, stopped |-> FALSE, credits |-> 0, frames |-> 0]
    BY DEF Init
  <2>2. sink \in SinkType /\ ~sink.stopped /\ sink.buf = <<>> /\ sink.frames = 0 /\ sink.credits = 0
    BY <1>1, <2>1 DEF SinkType
  <2>. HIDE <2>1
  <2>. QED  BY <1>1, <1>2, <1>3, <1>4, <2>2 DEF SinkAt, SinkWaits
<1>6. ReaderAt(<<>>, reader) /\ ReaderWaits(reader)
  <2>1. reader = [buf |-> <<>>, state |-> "reading", credits |-> 0, frames |-> 0]
    BY DEF Init
  <2>2. /\ reader \in ReaderType /\ reader.state = "reading" /\ reader.buf = <<>>
        /\ reader.frames = 0 /\ reader.credits = 0
    BY <1>1, <2>1 DEF ReaderType
  <2>. QED  BY <1>1, <1>2, <1>3, <1>4, <2>2 DEF ReaderAt, ReaderWaits, Found
<1>. QED  BY <1>1, <1>5, <1>6 DEF Inv

LEMMA Step == Inv /\ [Next]_vars => Inv'
<1> SUFFICES ASSUME Inv, [Next]_vars PROVE Inv'
  OBVIOUS
<1>1. CASE Next
  <2>0. PICK k \in 1..MaxChunk : \E chunk \in [1..k -> Bytes] : Read(chunk)
    BY <1>1 DEF Next
  <2>1. PICK chunk \in [1..k -> Bytes] : Read(chunk)
    BY <2>0
  <2>2. MaxChunk \in Nat
    BY BoundsAssumption
  <2>3. chunk \in Bodies /\ Len(chunk) <= MaxChunk
    <3>1. k \in Nat /\ k <= MaxChunk
      BY <2>2
    <3>. QED  BY <3>1 DEF Bodies
  <2>4. body' = body \o chunk /\ sink' = SinkWrite(sink, chunk) /\ reader' = ReaderRead(reader, chunk)
    BY <2>1 DEF Read
  <2>5. body' \in Bodies
    BY <2>3, <2>4, JoinFacts DEF Inv
  <2>6. SinkAt(body \o chunk, SinkWrite(sink, chunk)) /\ SinkWaits(SinkWrite(sink, chunk))
    BY <2>3, SinkReads DEF Inv
  <2>7. ReaderAt(body \o chunk, ReaderRead(reader, chunk)) /\ ReaderWaits(ReaderRead(reader, chunk))
    BY <2>3, ReaderReads DEF Inv
  <2>. QED  BY <2>4, <2>5, <2>6, <2>7 DEF Inv
<1>2. CASE UNCHANGED vars
  BY <1>2 DEF Inv, vars
<1>. QED  BY <1>1, <1>2

LEMMA Always == Spec => []Inv
BY Start, Step, PTL DEF Spec

\* At rest both parsers are at the last cut.
LEMMA SinkAtLast ==
  ASSUME Inv
  PROVE  LET rest == From(body, Max(Cuts(body))) IN
           /\ Counted(body, Max(Cuts(body)), sink.frames, sink.credits)
           /\ sink.frames = Cardinality(Cuts(body)) - 1
           /\ sink.stopped => Senseless(rest)
           /\ ~sink.stopped => ~Senseless(rest) /\ sink.buf = rest
<1>1. PICK c \in Cuts(body) :
        /\ Counted(body, c, sink.frames, sink.credits)
        /\ IF sink.stopped THEN sink.buf = <<>> /\ Senseless(From(body, c))
                           ELSE sink.buf = From(body, c)
  BY DEF SinkAt, Inv
<1>2. body \in Bodies /\ c \in 0..Len(body) /\ sink.stopped \in BOOLEAN
  BY CutsAre DEF Inv, SinkAt, SinkType
<1>3. CASE sink.stopped
  <2>1. ~IsFrame(body, c)
    BY <1>1, <1>2, <1>3, WholeFrame DEF Senseless
  <2>. QED  BY <1>1, <1>2, <1>3, <2>1, CountAll
<1>4. CASE ~sink.stopped
  <2>1. Len(From(body, c)) \in Nat
    BY <1>2, FromFacts DEF Bodies
  <2>2. ~IsFrame(body, c) /\ ~Senseless(From(body, c))
    BY <1>1, <1>2, <1>4, <2>1, WholeFrame DEF Senseless, SinkWaits, Inv
  <2>. QED  BY <1>1, <1>2, <1>4, <2>2, CountAll
<1>. QED  BY <1>3, <1>4

LEMMA ReaderAtLast ==
  ASSUME Inv
  PROVE  LET rest == From(body, Max(Cuts(body))) IN
           /\ Counted(body, Max(Cuts(body)), reader.frames, reader.credits)
           /\ Found(reader.state, reader.buf, rest)
           /\ reader.state = "reading" => ~(Len(rest) >= 2 /\ OutOfBounds(rest))
<1>1. PICK c \in Cuts(body) :
        /\ Counted(body, c, reader.frames, reader.credits)
        /\ Found(reader.state, reader.buf, From(body, c))
  BY DEF ReaderAt, Inv
<1>2. body \in Bodies /\ c \in 0..Len(body)
  BY CutsAre DEF Inv
<1>3. Len(From(body, c)) \in Nat
  BY <1>2, FromFacts DEF Bodies
<1>4. CASE reader.state = "reading"
  <2>1. ~IsFrame(body, c) /\ ~(Len(From(body, c)) >= 2 /\ OutOfBounds(From(body, c)))
    BY <1>1, <1>2, <1>3, <1>4, WholeFrame DEF Found, ReaderWaits, Inv
  <2>. QED  BY <1>1, <1>2, <1>4, <2>1, CountAll
<1>5. CASE reader.state # "reading"
  <2>1. ~IsFrame(body, c)
    BY <1>1, <1>2, <1>5, WholeFrame DEF Found
  <2>. QED  BY <1>1, <1>2, <1>5, <2>1, CountAll
<1>. QED  BY <1>4, <1>5

\* However a body is split into reads, MeteringSink counts the frames and the credits of the
\* whole body, and it stops only at a prelude that makes no sense.
THEOREM SinkCountsTheBody == Spec => []SinkReadsTheBody
<1>1. Inv => SinkReadsTheBody
  <2> SUFFICES ASSUME Inv PROVE SinkReadsTheBody
    OBVIOUS
  <2>1. sink.stopped \in BOOLEAN
    BY DEF Inv, SinkAt, SinkType
  <2>. QED  BY <2>1, SinkAtLast DEF SinkReadsTheBody, Counted, Senseless, Prelude
<1>. QED  BY <1>1, Always, PTL

\* MeteringSink and kiroFrameReader charge a turn the same, and part only at a frame whose
\* headers are longer than itself.
THEOREM ParsersCountTheSame == Spec => []ParsersAgree
<1>1. Inv => ParsersAgree
  <2> SUFFICES ASSUME Inv PROVE ParsersAgree
    OBVIOUS
  <2>. DEFINE rest == From(body, Max(Cuts(body)))
  <2>1. /\ Counted(body, Max(Cuts(body)), sink.frames, sink.credits)
        /\ sink.stopped => Senseless(rest)
        /\ ~sink.stopped => ~Senseless(rest)
    BY SinkAtLast
  <2>2. /\ Counted(body, Max(Cuts(body)), reader.frames, reader.credits)
        /\ Found(reader.state, reader.buf, rest)
        /\ reader.state = "reading" => ~(Len(rest) >= 2 /\ OutOfBounds(rest))
    BY ReaderAtLast
  <2>3. reader.frames = sink.frames /\ reader.credits = sink.credits
    BY <2>1, <2>2 DEF Counted
  <2>. QED  BY <2>1, <2>2, <2>3 DEF ParsersAgree, Found, Senseless, Prelude
<1>. QED  BY <1>1, Always, PTL

\* Neither parser holds a whole frame between two reads, so that the sink's buffer never
\* gets to its limit.
THEOREM TypeCorrectFraming == Spec => []TypeOK
<1>1. Inv => TypeOK
  <2> SUFFICES ASSUME Inv PROVE TypeOK
    OBVIOUS
  <2>1. /\ sink \in SinkType /\ reader \in ReaderType /\ body \in Bodies
        /\ sink.buf \in Bodies /\ reader.buf \in Bodies
    BY DEF Inv, SinkAt, ReaderAt, SinkType, ReaderType
  <2>2. Len(<<>>) = 0 /\ 0 < MaxMsg
    BY BoundsAssumption DEF MinMsg, Prelude, CRC
  <2>3. Len(sink.buf) < MaxMsg
    <3>1. sink.stopped => sink.buf = <<>>
      BY DEF Inv, SinkAt
    <3>. QED  BY <2>1, <2>2, <3>1, WaitingIsShort DEF Inv, SinkWaits
  <2>4. Len(reader.buf) < MaxMsg
    <3>1. reader.state # "reading" => reader.buf = <<>>
      BY DEF Inv, ReaderAt, Found
    <3>. QED  BY <2>1, <2>2, <3>1, WaitingIsShort DEF Inv, ReaderWaits
  <2>. QED  BY <2>1, <2>3, <2>4 DEF TypeOK, SinkType, ReaderType, Bodies
<1>. QED  BY <1>1, Always, PTL
================================================================================
