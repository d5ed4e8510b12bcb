--------------------------- MODULE KvsServerProofs ---------------------------
(***************************************************************************)
(* The server and its clients, for any clients, words, requests, networks  *)
(* and bounds.                                                             *)
(***************************************************************************)
EXTENDS KvsServer, TLAPS, SequenceTheorems, FiniteSetTheorems, WellFoundedInduction

-----------------------------------------------------------------------------
(* Sequences of whatever they hold *)

IsSeq(s) == s \in Seq({s[j] : j \in DOMAIN s})

\* A sequence over any set is one in this sense, and the reverse.
LEMMA SeqIs ==
  ASSUME NEW S, NEW s \in Seq(S)
  PROVE  IsSeq(s)
<1> DEFINE R == {s[j] : j \in DOMAIN s}
<1>1. s \in [1..Len(s) -> S] /\ Len(s) \in Nat /\ DOMAIN s = 1..Len(s)
  BY LenProperties
<1>2. s \in [1..Len(s) -> R]
  BY <1>1
<1> HIDE DEF R
<1>3. s \in Seq(R)
  BY <1>1, <1>2, SeqDef
<1> QED BY <1>3 DEF R, IsSeq

LEMMA IsSeqIn ==
  ASSUME NEW s, IsSeq(s), NEW e
  PROVE  \E S : s \in Seq(S) /\ e \in S
<1> DEFINE R == {s[j] : j \in DOMAIN s}
           S == R \cup {e}
<1>1. s \in Seq(R)
  BY DEF IsSeq
<1>2. S = R \cup {e} /\ e \in S
  OBVIOUS
<1> HIDE DEF R, S
<1>3. s \in [1..Len(s) -> R] /\ Len(s) \in Nat
  BY <1>1, LenProperties
<1>4. s \in [1..Len(s) -> S]
  BY <1>2, <1>3
<1>5. s \in Seq(S)
  BY <1>3, <1>4, SeqDef
<1> QED BY <1>2, <1>5

LEMMA AppendIs ==
  ASSUME NEW s, IsSeq(s), NEW e
  PROVE  /\ IsSeq(Append(s, e)) /\ Len(s) \in Nat /\ DOMAIN s = 1..Len(s)
         /\ Len(Append(s, e)) = Len(s) + 1
         /\ \A j \in 1..Len(s) : Append(s, e)[j] = s[j]
         /\ Append(s, e)[Len(s) + 1] = e
<1>1. PICK S : s \in Seq(S) /\ e \in S
  BY IsSeqIn
<1>2. Append(s, e) \in Seq(S)
  BY <1>1, AppendProperties
<1>3. IsSeq(Append(s, e))
  BY <1>2, SeqIs
<1> QED BY <1>1, <1>3, AppendProperties, LenProperties

LEMMA TailIs ==
  ASSUME NEW s, IsSeq(s), s # <<>>
  PROVE  /\ IsSeq(Tail(s)) /\ Len(s) \in Nat /\ Len(Tail(s)) = Len(s) - 1 /\ Len(s) > 0
         /\ \A j \in 1..Len(s) - 1 : Tail(s)[j] = s[j + 1]
         /\ Head(s) = s[1]
<1>1. PICK S : s \in Seq(S) /\ 0 \in S
  BY IsSeqIn
<1>2. Tail(s) \in Seq(S)
  BY <1>1, HeadTailProperties
<1>3. IsSeq(Tail(s))
  BY <1>2, SeqIs
<1>4. Len(s) \in Nat /\ Len(s) > 0
  BY <1>1, LenProperties, EmptySeq
<1> QED BY <1>1, <1>3, <1>4, HeadTailProperties

LEMMA ConcatIs ==
  ASSUME NEW s, IsSeq(s), NEW t, IsSeq(t)
  PROVE  /\ IsSeq(s \o t) /\ Len(s) \in Nat /\ Len(t) \in Nat
         /\ Len(s \o t) = Len(s) + Len(t)
         /\ \A j \in 1..Len(s) : (s \o t)[j] = s[j]
         /\ \A j \in 1..Len(t) : (s \o t)[Len(s) + j] = t[j]
<1> DEFINE A == {s[j] : j \in DOMAIN s}
           B == {t[j] : j \in DOMAIN t}
           S == A \cup B
<1>1. s \in Seq(A) /\ t \in Seq(B)
  BY DEF IsSeq
<1>2. A \subseteq S /\ B \subseteq S
  OBVIOUS
<1> HIDE DEF A, B, S
<1>3. s \in Seq(S) /\ t \in Seq(S)
  BY <1>1, <1>2, SeqMonotonic
<1>4. s \o t \in Seq(S)
  BY <1>3, ConcatProperties
<1>5. IsSeq(s \o t)
  BY <1>4, SeqIs
<1>6. \A j \in 1..Len(t) : (s \o t)[Len(s) + j] = t[j]
  <2> SUFFICES ASSUME NEW j \in 1..Len(t) PROVE (s \o t)[Len(s) + j] = t[j]
    OBVIOUS
  <2>1. Len(s) \in Nat /\ Len(t) \in Nat
    BY <1>3, LenProperties
  <2>2. Len(s) + j \in 1..Len(s) + Len(t) /\ Len(s) + j > Len(s) /\ (Len(s) + j) - Len(s) = j
    BY <2>1
  <2> QED BY <1>3, <2>1, <2>2, ConcatProperties
<1> QED BY <1>3, <1>5, <1>6, ConcatProperties, LenProperties

LEMMA SubSeqIs ==
  ASSUME NEW s, IsSeq(s), NEW m \in 1..Len(s) + 1, NEW n \in 0..Len(s)
  PROVE  /\ IsSeq(SubSeq(s, m, n)) /\ Len(s) \in Nat
         /\ Len(SubSeq(s, m, n)) = IF m <= n THEN n - m + 1 ELSE 0
         /\ \A j \in 1..n - m + 1 : SubSeq(s, m, n)[j] = s[m + j - 1]
<1>1. PICK S : s \in Seq(S) /\ 0 \in S
  BY IsSeqIn
<1>2. Len(s) \in Nat
  BY <1>1, LenProperties
<1>3. SubSeq(s, m, n) \in Seq(S)
  BY <1>1, <1>2, SubSeqProperties
<1>4. IsSeq(SubSeq(s, m, n))
  BY <1>3, SeqIs
<1> QED BY <1>1, <1>2, <1>4, SubSeqProperties

LEMMA FunctionIs ==
  ASSUME NEW n \in Nat, NEW f, f = [j \in 1..n |-> f[j]]
  PROVE  IsSeq(f) /\ Len(f) = n
<1> DEFINE R == {f[j] : j \in 1..n}
<1>1. f \in [1..n -> R]
  <2>1. \A j \in 1..n : f[j] \in R
    OBVIOUS
  <2> HIDE DEF R
  <2> QED BY <2>1
<1> HIDE DEF R
<1>2. f \in Seq(R)
  BY <1>1, SeqDef
<1>3. IsSeq(f)
  BY <1>2, SeqIs
<1>4. Len(f) \in Nat /\ DOMAIN f = 1..Len(f)
  BY <1>2, LenProperties
<1>5. DOMAIN f = 1..n
  BY <1>1
<1>6. Len(f) = n
  BY <1>4, <1>5
<1> QED BY <1>3, <1>6

LEMMA EmptyIs == IsSeq(<<>>) /\ Len(<<>>) = 0 /\ \A s : IsSeq(s) => (Len(s) = 0 <=> s = <<>>)
<1>1. IsSeq(<<>>) /\ Len(<<>>) = 0
  BY SeqIs, EmptySeq
<1>2. ASSUME NEW s, IsSeq(s) PROVE Len(s) = 0 <=> s = <<>>
  BY <1>2, <1>1, EmptySeq DEF IsSeq
<1> QED BY <1>1, <1>2

LEMMA SameSeq ==
  ASSUME NEW s, IsSeq(s), NEW t, IsSeq(t), Len(s) = Len(t), \A j \in 1..Len(s) : s[j] = t[j]
  PROVE  s = t
<1> DEFINE A == {s[j] : j \in DOMAIN s}
           B == {t[j] : j \in DOMAIN t}
           S == A \cup B
<1>1. s \in Seq(A) /\ t \in Seq(B)
  BY DEF IsSeq
<1>2. A \subseteq S /\ B \subseteq S
  OBVIOUS
<1> HIDE DEF A, B, S
<1>3. s \in Seq(S) /\ t \in Seq(S)
  BY <1>1, <1>2, SeqMonotonic
<1> QED BY <1>3, SeqEqual

LEMMA MaxIsIn ==
  ASSUME NEW m \in Nat, NEW S, S \subseteq 0..m, S # {}
  PROVE  Max(S) \in S /\ \A x \in S : x <= Max(S)
<1> DEFINE L == OpToRel(<, Nat)
           T == {m - x : x \in S}
<1>1. L = {ss \in Nat \X Nat : ss[1] < ss[2]}
  BY DEF OpToRel
<1>2. IsWellFoundedOn(L, Nat)
  BY NatLessThanWellFounded
<1>3. T \subseteq Nat /\ T # {}
  <2>1. \A x \in S : x \in Int /\ x <= m
    OBVIOUS
  <2>2. PICK x \in S : TRUE
    OBVIOUS
  <2>3. m - x \in T
    BY <2>2
  <2>4. T \subseteq Nat
    BY <2>1
  <2> QED BY <2>3, <2>4
<1> HIDE DEF L
<1>4. PICK y \in T : \A z \in T : ~(<<z, y>> \in L)
  BY <1>2, <1>3, WFMin
<1>5. PICK x \in S : y = m - x
  OBVIOUS
<1>6. ASSUME NEW z \in S, z > x PROVE FALSE
  <2>1. m - z \in T /\ m - z < y /\ m - z \in Nat /\ y \in Nat
    BY <1>5, <1>6
  <2>2. <<m - z, y>> \in Nat \X Nat
    BY <2>1
  <2>3. <<m - z, y>> \in L
    BY <2>1, <2>2, <1>1
  <2> QED BY <2>1, <2>3, <1>4
<1>7. \A z \in S : x >= z
  BY <1>6
<1>8. Max(S) \in S /\ \A z \in S : Max(S) >= z
  BY <1>7 DEF Max
<1> QED BY <1>8

-----------------------------------------------------------------------------
(* The parser *)

IsConn(k) ==
  k \in [open : BOOLEAN, want : BOOLEAN, rbuf : {k.rbuf}, nargs : {k.nargs},
         argv : {k.argv}, argc : {k.argc}, ok : BOOLEAN, wbuf : {k.wbuf}]

\* Pieces as clients write them.
IsPiece(x)  == x.t = "*" => x.v \in Nat
IsStream(s) == IsSeq(s) /\ \A j \in 1..Len(s) : IsPiece(s[j])

\* What is true of a connection at any time.
Formed(k) == IsConn(k) /\ IsStream(k.rbuf) /\ k.nargs \in Nat /\ IsSeq(k.argv) /\ k.argc \in Nat

LEMMA StreamConcat ==
  ASSUME NEW s, IsStream(s), NEW t, IsStream(t)
  PROVE  IsStream(s \o t)
<1>1. IsSeq(s) /\ IsSeq(t)
  BY DEF IsStream
<1>2. /\ IsSeq(s \o t) /\ Len(s) \in Nat /\ Len(t) \in Nat
      /\ Len(s \o t) = Len(s) + Len(t)
      /\ \A j \in 1..Len(s) : (s \o t)[j] = s[j]
      /\ \A j \in 1..Len(t) : (s \o t)[Len(s) + j] = t[j]
  BY <1>1, ConcatIs
<1>3. ASSUME NEW j \in 1..Len(s \o t) PROVE IsPiece((s \o t)[j])
  <2>1. j \in 1..Len(s) \/ (j - Len(s) \in 1..Len(t) /\ j = Len(s) + (j - Len(s)))
    BY <1>2
  <2> QED BY <1>2, <2>1 DEF IsStream
<1> QED BY <1>2, <1>3 DEF IsStream

LEMMA ArrivedBounds ==
  ASSUME NEW k, IsStream(k.rbuf), k.nargs \in Nat, Header(k) => HeaderArrived(k)
  PROVE  /\ Expected(k) \in Nat /\ Start(k) \in {0, 2} /\ Start(k) <= Len(k.rbuf)
         /\ Arrived(k) \in 0..Expected(k)
         /\ Start(k) + 4 * Arrived(k) <= Len(k.rbuf)
         /\ \A i \in 1..4 * Arrived(k) : k.rbuf[Start(k) + i].t = Kind(i)
         /\ \A g \in 0..Expected(k) :
              /\ Start(k) + 4 * g <= Len(k.rbuf)
              /\ \A i \in 1..4 * g : k.rbuf[Start(k) + i].t = Kind(i)
              => g <= Arrived(k)
<1> DEFINE P(g) == /\ Start(k) + 4 * g <= Len(k.rbuf)
                   /\ \A i \in 1..4 * g : k.rbuf[Start(k) + i].t = Kind(i)
           S == {g \in 0..Expected(k) : P(g)}
<1>0. Len(k.rbuf) \in Nat
  BY EmptyIs, AppendIs DEF IsStream
<1>1. Expected(k) \in Nat /\ Start(k) \in {0, 2} /\ Start(k) <= Len(k.rbuf)
  BY <1>0 DEF Expected, Start, Header, HeaderArrived, IsStream, IsPiece
<1>2. 0 \in S
  BY <1>0, <1>1
<1>3. S \subseteq 0..Expected(k) /\ S # {}
  BY <1>2
<1>4. Arrived(k) = Max(S)
  BY DEF Arrived
<1> HIDE DEF S
<1>5. Max(S) \in S /\ \A x \in S : x <= Max(S)
  BY <1>1, <1>3, MaxIsIn
<1>6. Arrived(k) \in 0..Expected(k) /\ P(Arrived(k))
  BY <1>4, <1>5 DEF S
<1>7. \A g \in 0..Expected(k) : P(g) => g <= Arrived(k)
  BY <1>4, <1>5 DEF S
<1> QED BY <1>1, <1>6, <1>7

\* The words that have wholly arrived, and what a word that has not may read as.
Whole(k) == [g \in 1..Arrived(k) |-> k.rbuf[Start(k) + 4 * g - 1].v]

LEMMA WordsAre ==
  ASSUME NEW k, IsStream(k.rbuf), k.nargs \in Nat, Header(k) => HeaderArrived(k), NEW w \in Words(k)
  PROVE  /\ IsSeq(w) /\ Len(w) \in 0..Expected(k)
         /\ Arrived(k) = Expected(k) => w = Whole(k)
         /\ Rest(k) = <<>> \/ Rest(k)[1] # Dollar => w = Whole(k)
<1>1. Expected(k) \in Nat /\ Arrived(k) \in 0..Expected(k)
  BY ArrivedBounds
<1> DEFINE whole == [g \in 1..Arrived(k) |-> k.rbuf[Start(k) + 4 * g - 1].v]
           Beyond(x) == UNION {{whole \o <<x>> \o more : more \in [1..m -> Leftover]} :
                                 m \in 0..Expected(k) - Arrived(k) - 1}
<1>2. whole = Whole(k) /\ IsSeq(whole) /\ Len(whole) = Arrived(k)
  BY <1>1, FunctionIs DEF Whole
<1> HIDE DEF whole
<1>3. ASSUME NEW x, NEW b \in Beyond(x)
      PROVE  IsSeq(b) /\ Len(b) \in 0..Expected(k)
  <2>1. PICK m \in 0..Expected(k) - Arrived(k) - 1 : \E more \in [1..m -> Leftover] : b = whole \o <<x>> \o more
    BY <1>3
  <2>2. PICK more \in [1..m -> Leftover] : b = whole \o <<x>> \o more
    BY <2>1
  <2>3. m \in Nat /\ Arrived(k) + 1 + m <= Expected(k)
    BY <1>1
  <2>4. IsSeq(more) /\ Len(more) = m
    BY <2>3, FunctionIs
  <2>5. IsSeq(<<x>>) /\ Len(<<x>>) = 1
    <3>1. <<x>> \in Seq({x})
      OBVIOUS
    <3> QED BY <3>1, SeqIs
  <2>6. IsSeq(whole \o <<x>>) /\ Len(whole \o <<x>>) = Arrived(k) + 1
    BY <1>2, <2>5, ConcatIs
  <2>7. IsSeq(b) /\ Len(b) = Arrived(k) + 1 + m
    <3> DEFINE p == whole \o <<x>>
    <3>1. b = p \o more /\ IsSeq(p) /\ Len(p) = Arrived(k) + 1
      BY <2>2, <2>6
    <3> HIDE DEF p
    <3>2. IsSeq(p \o more) /\ Len(p \o more) = Len(p) + Len(more)
      BY <2>4, <3>1, ConcatIs
    <3> QED BY <2>4, <3>1, <3>2
  <2> QED BY <1>1, <2>3, <2>7
<1>4. \/ w = whole
      \/ Arrived(k) # Expected(k) /\ Rest(k) = <<Dollar, CRLF>> /\ \E x \in Leftover : w \in Beyond(x)
      \/ /\ Arrived(k) # Expected(k)
         /\ Len(Rest(k)) = 3 /\ SubSeq(Rest(k), 1, 2) = <<Dollar, CRLF>>
         /\ w \in Beyond(Rest(k)[3].v)
  <2>1. Words(k) = IF Arrived(k) = Expected(k) THEN {whole}
                   ELSE IF Rest(k) = <<Dollar, CRLF>> THEN UNION {Beyond(x) : x \in Leftover}
                   ELSE IF Len(Rest(k)) = 3 /\ SubSeq(Rest(k), 1, 2) = <<Dollar, CRLF>>
                   THEN Beyond(Rest(k)[3].v)
                   ELSE {whole}
    BY Zenon DEF Words, whole
  <2> HIDE DEF Beyond
  <2> QED BY <2>1
<1> HIDE DEF Beyond
<1>5. Len(whole) \in 0..Expected(k)
  BY <1>1, <1>2
<1>6. IsSeq(w) /\ Len(w) \in 0..Expected(k)
  BY <1>2, <1>3, <1>4, <1>5
<1>7. Rest(k) = <<>> \/ Rest(k)[1] # Dollar => w = whole
  <2>1. <<Dollar, CRLF>>[1] = Dollar /\ <<Dollar, CRLF>> # <<>>
    OBVIOUS
  <2>2. ASSUME Len(Rest(k)) = 3, SubSeq(Rest(k), 1, 2) = <<Dollar, CRLF>>
        PROVE  Rest(k) # <<>> /\ Rest(k)[1] = Dollar
    <3>1. SubSeq(Rest(k), 1, 2)[1] = Rest(k)[1]
      OBVIOUS
    <3>2. Rest(k) # <<>>
      BY <2>2, EmptyIs
    <3> QED BY <2>1, <2>2, <3>1, <3>2
  <2> QED BY <1>4, <2>1, <2>2
<1> QED BY <1>2, <1>4, <1>6, <1>7

\* kvs_net_parse: what it changes, and that the connection stays well formed.
LEMMA ParsedFormed ==
  ASSUME NEW k, Formed(k), NEW kk \in Parsed(k)
  PROVE  /\ Formed(kk) /\ kk.open = k.open /\ kk.want = k.want /\ kk.rbuf = k.rbuf /\ kk.wbuf = k.wbuf
         /\ Header(k) /\ ~HeaderArrived(k) => kk = k
         /\ (Header(k) => HeaderArrived(k)) =>
               \E w \in Words(k) :
                 /\ kk.argc = k.argc + Len(w)
                 /\ kk.argv = Filled(Vector(k), k.argc, w)
                 /\ kk.nargs = Expected(k) - Len(w)
                 /\ kk.ok = (k.ok \/ Len(w) = Expected(k))
<1>1. CASE Header(k) /\ ~HeaderArrived(k)
  BY <1>1 DEF Parsed
<1>2. CASE Header(k) => HeaderArrived(k)
  <2>1. Header(k) => HeaderArrived(k)
    BY <1>2
  <2>2. PICK w \in Words(k) :
          kk = [k EXCEPT !.argc  = @ + Len(w),
                         !.argv  = Filled(Vector(k), k.argc, w),
                         !.nargs = Expected(k) - Len(w),
                         !.ok    = @ \/ Len(w) = Expected(k)]
    BY <2>1 DEF Parsed
  <2>3. IsSeq(w) /\ Len(w) \in 0..Expected(k)
    BY <2>1, WordsAre DEF Formed
  <2>4. Expected(k) \in Nat
    BY <2>1, ArrivedBounds DEF Formed
  <2>5. IsSeq(Vector(k))
    BY <2>4, FunctionIs DEF Vector, Formed
  <2>6. IsSeq(Filled(Vector(k), k.argc, w))
    <3>1. Len(Vector(k)) \in Nat
      BY <2>5, AppendIs
    <3> QED BY <3>1, FunctionIs DEF Filled
  <2> DEFINE v == Filled(Vector(k), k.argc, w)
  <2> HIDE DEF v
  <2>7. /\ IsConn(kk) /\ kk.open = k.open /\ kk.want = k.want /\ kk.rbuf = k.rbuf /\ kk.wbuf = k.wbuf
        /\ kk.argc = k.argc + Len(w) /\ kk.argv = v
        /\ kk.nargs = Expected(k) - Len(w) /\ kk.ok = (k.ok \/ Len(w) = Expected(k))
    BY <2>2 DEF Formed, IsConn, v
  <2>8. Formed(kk)
    BY <2>3, <2>4, <2>6, <2>7 DEF Formed, v
  <2> QED BY <2>1, <2>7, <2>8 DEF v
<1> QED BY <1>1, <1>2

\* A call on a connection that has lost its place stores nothing and changes nothing.
LEMMA ParsedStuck ==
  ASSUME NEW k, Formed(k), k.argc = 0, k.rbuf # <<>>, k.rbuf[1].t # IF Header(k) THEN "*" ELSE "$",
         NEW kk \in Parsed(k)
  PROVE  kk.argc = 0 /\ kk.nargs = k.nargs
<1>1. CASE kk = k
  BY <1>1
<1>2. CASE kk # k
  <2>1. Header(k) => HeaderArrived(k)
    BY <1>2 DEF Parsed
  <2>2. ~Header(k)
    BY <2>1 DEF HeaderArrived
  <2>3. k.nargs \in Nat /\ k.nargs > 0 /\ Expected(k) = k.nargs /\ Start(k) = 0 /\ k.rbuf[1].t # "$"
    BY <2>2 DEF Formed, Header, Expected, Start
  <2>4. Arrived(k) = 0
    <3>1. SUFFICES ASSUME Arrived(k) # 0 PROVE FALSE
      OBVIOUS
    <3>2. Arrived(k) \in Nat /\ \A i \in 1..4 * Arrived(k) : k.rbuf[0 + i].t = Kind(i)
      BY <2>1, <2>3, ArrivedBounds DEF Formed
    <3>3. 1 \in 1..4 * Arrived(k)
      BY <3>1, <3>2
    <3>4. Kind(1) = "$"
      BY DEF Kind
    <3> QED BY <2>3, <3>2, <3>3, <3>4
  <2>5. Rest(k) = k.rbuf
    <3>1. Rest(k) = SubSeq(k.rbuf, 1, Len(k.rbuf))
      BY <2>3, <2>4 DEF Rest
    <3> QED BY <3>1, SubSeqFull DEF Formed, IsStream, IsSeq
  <2>6. Rest(k)[1] # Dollar
    <3>1. Dollar.t = "$"
      BY DEF Dollar
    <3> QED BY <2>3, <2>5, <3>1
  <2>7. PICK w \in Words(k) : kk.argc = k.argc + Len(w) /\ kk.nargs = Expected(k) - Len(w)
    BY <2>1, ParsedFormed
  <2>8. w = Whole(k)
    BY <2>1, <2>6, WordsAre DEF Formed
  <2>9. Len(w) = 0
    BY <2>4, <2>8, FunctionIs DEF Whole
  <2> QED BY <2>3, <2>7, <2>9
<1> QED BY <1>1, <1>2

\* A request on its way: its pieces, and where its words are.
LEMMA EncodeIs ==
  ASSUME NEW r, IsSeq(r)
  PROVE  /\ IsStream(Encode(r)) /\ Len(r) \in Nat /\ Len(Encode(r)) = 2 + 4 * Len(r)
         /\ Encode(r)[1] = Star(Len(r)) /\ Encode(r)[2] = CRLF
         /\ \A i \in 1..4 * Len(r) : Encode(r)[2 + i].t = Kind(i)
         /\ \A g \in 1..Len(r) : Encode(r)[2 + 4 * g - 1].v = r[g]
<1> DEFINE m == 4 * Len(r)
           P(i) == CASE Kind(i) = "$"    -> Dollar
                     [] Kind(i) = "body" -> Body(r[(i + 3) \div 4])
                     [] OTHER            -> CRLF
           b == [i \in 1..m |-> P(i)]
           h == <<Star(Len(r)), CRLF>>
<1>1. Len(r) \in Nat /\ m \in Nat
  BY AppendIs
<1>2. IsSeq(b) /\ Len(b) = m
  BY <1>1, FunctionIs
<1>3. IsSeq(h) /\ Len(h) = 2 /\ h[1] = Star(Len(r)) /\ h[2] = CRLF
  <2>1. h \in Seq({Star(Len(r)), CRLF})
    OBVIOUS
  <2> QED BY <2>1, SeqIs
<1>4. Encode(r) = h \o b
  BY DEF Encode
<1>5. \A i \in 1..m : P(i).t = Kind(i) /\ Kind(i) \in {"$", "body", "\r\n"}
  BY DEF Kind, Dollar, Body, CRLF
<1>6. \A g \in 1..Len(r) : P(4 * g - 1).v = r[g] /\ 4 * g - 1 \in 1..m
  <2> SUFFICES ASSUME NEW g \in 1..Len(r) PROVE P(4 * g - 1).v = r[g] /\ 4 * g - 1 \in 1..m
    OBVIOUS
  <2>1. g \in Nat /\ g >= 1 /\ g <= Len(r)
    BY <1>1
  <2>2. (4 * g - 1) % 4 = 3 /\ ((4 * g - 1) + 3) \div 4 = g /\ 4 * g - 1 \in 1..m
    BY <1>1, <2>1
  <2>3. Kind(4 * g - 1) = "body"
    BY <2>2 DEF Kind
  <2> QED BY <2>2, <2>3 DEF Body
<1> HIDE DEF P
<1>7. \A i \in 1..m : b[i] = P(i)
  OBVIOUS
<1> HIDE DEF b, h
<1>8. /\ IsSeq(h \o b) /\ Len(h \o b) = 2 + m
      /\ (h \o b)[1] = h[1] /\ (h \o b)[2] = h[2]
      /\ \A i \in 1..m : (h \o b)[2 + i] = b[i]
  <2>1. /\ IsSeq(h \o b)
        /\ Len(h \o b) = Len(h) + Len(b)
        /\ \A j \in 1..Len(h) : (h \o b)[j] = h[j]
        /\ \A j \in 1..Len(b) : (h \o b)[Len(h) + j] = b[j]
    <3>1. IsSeq(h) /\ IsSeq(b)
      BY <1>2, <1>3
    <3> HIDE DEF m
    <3> QED BY <3>1, ConcatIs
  <2> QED BY <1>2, <1>3, <2>1
<1>9. ASSUME NEW j \in 1..Len(Encode(r)) PROVE IsPiece(Encode(r)[j])
  <2>1. j = 1 \/ j = 2 \/ \E i \in 1..m : j = 2 + i
    <3>1. j \in Nat /\ j <= 2 + m /\ j >= 1
      BY <1>1, <1>4, <1>8
    <3>2. j > 2 => j - 2 \in 1..m /\ j = 2 + (j - 2)
      BY <1>1, <3>1
    <3> QED BY <3>1, <3>2
  <2>2. CASE j = 1
    BY <1>1, <1>3, <1>4, <1>8, <2>2 DEF IsPiece, Star
  <2>3. CASE j = 2
    <3>1. CRLF.t # "*"
      BY DEF CRLF
    <3> QED BY <1>3, <1>4, <1>8, <2>3, <3>1 DEF IsPiece
  <2>4. CASE \E i \in 1..m : j = 2 + i
    BY <1>4, <1>5, <1>7, <1>8, <2>4 DEF IsPiece
  <2> QED BY <2>1, <2>2, <2>3, <2>4
<1>10. IsStream(Encode(r))
  BY <1>4, <1>8, <1>9 DEF IsStream
<1>11. \A g \in 1..Len(r) : Encode(r)[2 + 4 * g - 1].v = r[g]
  <2> SUFFICES ASSUME NEW g \in 1..Len(r) PROVE Encode(r)[2 + 4 * g - 1].v = r[g]
    OBVIOUS
  <2>1. 4 * g - 1 \in 1..m /\ 2 + 4 * g - 1 = 2 + (4 * g - 1)
    BY <1>1, <1>6
  <2> QED BY <1>4, <1>6, <1>7, <1>8, <2>1
<1> QED BY <1>1, <1>3, <1>4, <1>5, <1>7, <1>8, <1>10, <1>11

-----------------------------------------------------------------------------
(* One client at a time *)

Act(c) == \/ Accept(c) \/ Receive(c) \/ Leave(c)
          \/ \E r \in net.requests : Send(c, r)
          \/ Read(c) \/ Write(c) \/ WritePart(c) \/ WriteFails(c)

Domains == /\ DOMAIN conn = Client /\ DOMAIN peer = Client /\ DOMAIN up = Client
           /\ DOMAIN back = Client /\ DOMAIN sent = Client /\ DOMAIN seen = Client
           /\ DOMAIN ran = Client /\ DOMAIN cut = Client

\* A client for which nothing happens.
Same(d) == /\ conn'[d] = conn[d] /\ peer'[d] = peer[d] /\ up'[d] = up[d] /\ back'[d] = back[d]
           /\ sent'[d] = sent[d] /\ seen'[d] = seen[d] /\ ran'[d] = ran[d] /\ cut'[d] = cut[d]

\* What each action does for its client.
AcceptAt(c) ==
  /\ peer[c] = "away" /\ c \in net.clients /\ peer'[c] = "here" /\ conn'[c] = NewClient
  /\ up'[c] = up[c] /\ back'[c] = back[c] /\ sent'[c] = sent[c] /\ seen'[c] = seen[c]
  /\ ran'[c] = ran[c] /\ cut'[c] = cut[c] /\ store' = store /\ status' = status

SendAt(c, r) ==
  /\ peer[c] = "here" /\ Len(sent[c]) - Len(seen[c]) < net.depth
  /\ sent'[c] = Append(sent[c], r) /\ up'[c] = up[c] \o Encode(r)
  /\ conn'[c] = conn[c] /\ peer'[c] = peer[c] /\ back'[c] = back[c] /\ seen'[c] = seen[c]
  /\ ran'[c] = ran[c] /\ cut'[c] = cut[c] /\ store' = store /\ status' = status

ReceiveAt(c) ==
  /\ peer[c] = "here" /\ back[c] # <<>> /\ back'[c] = Tail(back[c])
  /\ seen'[c] = IF Head(back[c]).t = "half" THEN seen[c] ELSE Append(seen[c], Head(back[c]))
  /\ conn'[c] = conn[c] /\ peer'[c] = peer[c] /\ up'[c] = up[c] /\ sent'[c] = sent[c]
  /\ ran'[c] = ran[c] /\ cut'[c] = cut[c] /\ store' = store /\ status' = status

LeaveAt(c) ==
  /\ peer[c] = "here" /\ back'[c] = <<>>
  /\ \/ back[c] = <<>> /\ peer'[c] = "left" /\ up'[c] = up[c]
     \/ back[c] # <<>> /\ peer'[c] = "reset" /\ up'[c] \in {up[c], <<>>}
  /\ conn'[c] = conn[c] /\ sent'[c] = sent[c] /\ seen'[c] = seen[c]
  /\ ran'[c] = ran[c] /\ cut'[c] = cut[c] /\ store' = store /\ status' = status

WriteAt(c) ==
  /\ conn[c].want /\ conn'[c] = Written(conn[c])
  /\ \/ peer[c] = "here" /\ back'[c] = Append(back[c], conn[c].wbuf) /\ peer'[c] = peer[c]
     \/ peer[c] = "left" /\ peer'[c] = "reset" /\ back'[c] = back[c]
  /\ up'[c] = up[c] /\ sent'[c] = sent[c] /\ seen'[c] = seen[c]
  /\ ran'[c] = ran[c] /\ cut'[c] = cut[c] /\ store' = store /\ status' = status

WritePartAt(c) ==
  /\ net.partial /\ conn[c].want /\ peer[c] = "here"
  /\ back'[c] = Append(back[c], Half(conn[c].wbuf)) /\ cut'[c] = TRUE
  /\ conn'[c] = conn[c] /\ peer'[c] = peer[c] /\ up'[c] = up[c] /\ sent'[c] = sent[c]
  /\ seen'[c] = seen[c] /\ ran'[c] = ran[c] /\ store' = store /\ status' = status

WriteFailsAt(c) ==
  /\ conn[c].want
  /\ \/ peer[c] = "reset" /\ peer'[c] = "broken" /\ status' = status
     \/ peer[c] = "broken" /\ peer'[c] = peer[c] /\ status' = "killed"
  /\ conn'[c] = conn[c] /\ up'[c] = up[c] /\ back'[c] = back[c] /\ sent'[c] = sent[c]
  /\ seen'[c] = seen[c] /\ ran'[c] = ran[c] /\ cut'[c] = cut[c] /\ store' = store

\* What a callback for reading has in its buffer, and where it ends.
Got(c, n) == [conn[c] EXCEPT !.rbuf = @ \o SubSeq(up[c], 1, n)]
Left(x, ending) == IF ending = "eof" THEN Closed(x) ELSE x

Idle(c, kk, ending) ==
  /\ kk.argc = 0 /\ conn'[c] = Left(kk, ending)
  /\ store' = store /\ status' = status /\ ran'[c] = ran[c]
Dropped(c, kk, ending) ==
  /\ kk.argc > 0 /\ ~kk.ok /\ conn'[c] = Left(Cleared(kk), ending)
  /\ store' = store /\ status' = status /\ ran'[c] = ran[c]
Faulty(c, kk) ==
  /\ kk.argc > 0 /\ kk.ok /\ Unfilled(kk) # {} /\ status' = "fault"
  /\ conn'[c] = conn[c] /\ store' = store /\ ran'[c] = ran[c]
Done(c, kk, ending) ==
  /\ kk.argc > 0 /\ kk.ok /\ Unfilled(kk) = {} /\ store' = Execute(kk.argv, store).store
  /\ conn'[c] = Left(Cleared(Answering(kk, Execute(kk.argv, store))), ending)
  /\ ran'[c] = Append(ran[c], SubSeq(kk.argv, 1, kk.argc)) /\ status' = status

ReadAt(c, n, ending, kk) ==
  /\ conn[c].open /\ n \in Arrivals(c) /\ ending \in Endings(c, n)
  /\ kk \in IF Got(c, n).rbuf = <<>> THEN {Got(c, n)} ELSE Parsed(Got(c, n))
  /\ up'[c] = SubSeq(up[c], n + 1, Len(up[c]))
  /\ cut'[c] = (cut[c] \/ ~OneRequest(c, n))
  /\ peer'[c] = IF ending = "error" THEN "broken" ELSE peer[c]
  /\ back'[c] = back[c] /\ sent'[c] = sent[c] /\ seen'[c] = seen[c]
  /\ Idle(c, kk, ending) \/ Dropped(c, kk, ending) \/ Faulty(c, kk) \/ Done(c, kk, ending)

Does(c) == \/ AcceptAt(c) \/ ReceiveAt(c) \/ LeaveAt(c)
           \/ \E r \in net.requests : SendAt(c, r)
           \/ \E n \in Arrivals(c) : \E ending \in Endings(c, n) : \E kk : ReadAt(c, n, ending, kk)
           \/ WriteAt(c) \/ WritePartAt(c) \/ WriteFailsAt(c)

LEMMA ProcessAt ==
  ASSUME DOMAIN conn = Client, DOMAIN ran = Client, NEW c \in Client, NEW kk, NEW ending,
         Process(c, kk, ending)
  PROVE  /\ Idle(c, kk, ending) \/ Dropped(c, kk, ending) \/ Faulty(c, kk) \/ Done(c, kk, ending)
         /\ DOMAIN conn' = Client /\ DOMAIN ran' = Client
         /\ \A d \in Client \ {c} : conn'[d] = conn[d] /\ ran'[d] = ran[d]
<1> DEFINE e == Execute(kk.argv, store)
           After(x) == conn' = [conn EXCEPT ![c] = Left(x, ending)]
           y == Cleared(Answering(kk, e))
<1>1. \/ /\ kk.argc = 0 /\ After(kk) /\ UNCHANGED <<store, status, ran>>
      \/ /\ kk.argc > 0 /\ ~kk.ok /\ After(Cleared(kk)) /\ UNCHANGED <<store, status, ran>>
      \/ /\ kk.argc > 0 /\ kk.ok /\ Unfilled(kk) # {} /\ status' = "fault"
         /\ UNCHANGED <<conn, store, ran>>
      \/ /\ kk.argc > 0 /\ kk.ok /\ Unfilled(kk) = {} /\ store' = e.store /\ After(y)
         /\ ran' = [ran EXCEPT ![c] = Append(@, SubSeq(kk.argv, 1, kk.argc))] /\ UNCHANGED status
  BY Zenon DEF Process, Left
<1>2. ASSUME NEW x, After(x)
      PROVE  /\ conn'[c] = Left(x, ending) /\ DOMAIN conn' = Client
             /\ \A d \in Client \ {c} : conn'[d] = conn[d]
  BY <1>2
<1>3. CASE kk.argc = 0 /\ After(kk) /\ UNCHANGED <<store, status, ran>>
  BY <1>2, <1>3 DEF Idle
<1>4. CASE kk.argc > 0 /\ ~kk.ok /\ After(Cleared(kk)) /\ UNCHANGED <<store, status, ran>>
  BY <1>2, <1>4 DEF Dropped
<1>5. CASE /\ kk.argc > 0 /\ kk.ok /\ Unfilled(kk) # {} /\ status' = "fault"
           /\ UNCHANGED <<conn, store, ran>>
  BY <1>5 DEF Faulty
<1> HIDE DEF e, y, After
<1>6. CASE /\ kk.argc > 0 /\ kk.ok /\ Unfilled(kk) = {} /\ store' = e.store /\ After(y)
           /\ ran' = [ran EXCEPT ![c] = Append(@, SubSeq(kk.argv, 1, kk.argc))] /\ UNCHANGED status
  <2>1. /\ conn'[c] = Left(y, ending) /\ DOMAIN conn' = Client
        /\ \A d \in Client \ {c} : conn'[d] = conn[d]
    BY <1>2, <1>6
  <2>2. /\ ran'[c] = Append(ran[c], SubSeq(kk.argv, 1, kk.argc)) /\ DOMAIN ran' = Client
        /\ \A d \in Client \ {c} : ran'[d] = ran[d]
    BY <1>6
  <2>3. Done(c, kk, ending)
    BY <1>6, <2>1, <2>2 DEF Done, e, y
  <2> QED BY <2>1, <2>2, <2>3
<1> QED BY <1>1, <1>3, <1>4, <1>5, <1>6

\* An action does something for its client and nothing for the others.
LEMMA OneMoves ==
  ASSUME Domains, NEW c \in Client, Act(c)
  PROVE  Does(c) /\ Domains' /\ \A d \in Client \ {c} : Same(d)
<1>1. CASE Accept(c)
  BY <1>1 DEF Accept, AcceptAt, Does, Domains, Same
<1>2. CASE Receive(c)
  BY <1>2 DEF Receive, ReceiveAt, Does, Domains, Same
<1>3. CASE Leave(c)
  <2>1. LeaveAt(c)
    BY <1>3 DEF Leave, LeaveAt, Domains
  <2>2. Domains' /\ \A d \in Client \ {c} : Same(d)
    BY <1>3 DEF Leave, Domains, Same
  <2> QED BY <2>1, <2>2 DEF Does
<1>4. CASE \E r \in net.requests : Send(c, r)
  BY <1>4 DEF Send, SendAt, Does, Domains, Same
<1>5. CASE Read(c)
  <2>1. PICK n \in Arrivals(c) : \E ending \in Endings(c, n) :
          /\ \E kk \in IF Got(c, n).rbuf = <<>> THEN {Got(c, n)} ELSE Parsed(Got(c, n)) :
               Process(c, kk, ending)
          /\ up' = [up EXCEPT ![c] = SubSeq(@, n + 1, Len(@))]
          /\ cut' = [cut EXCEPT ![c] = @ \/ ~OneRequest(c, n)]
          /\ peer' = IF ending = "error" THEN [peer EXCEPT ![c] = "broken"] ELSE peer
    BY <1>5, Zenon DEF Read, Got
  <2>2. PICK ending \in Endings(c, n) :
          /\ \E kk \in IF Got(c, n).rbuf = <<>> THEN {Got(c, n)} ELSE Parsed(Got(c, n)) :
               Process(c, kk, ending)
          /\ up' = [up EXCEPT ![c] = SubSeq(@, n + 1, Len(@))]
          /\ cut' = [cut EXCEPT ![c] = @ \/ ~OneRequest(c, n)]
          /\ peer' = IF ending = "error" THEN [peer EXCEPT ![c] = "broken"] ELSE peer
    BY <2>1
  <2>3. PICK kk \in IF Got(c, n).rbuf = <<>> THEN {Got(c, n)} ELSE Parsed(Got(c, n)) :
          Process(c, kk, ending)
    BY <2>2
  <2>4. /\ Idle(c, kk, ending) \/ Dropped(c, kk, ending) \/ Faulty(c, kk) \/ Done(c, kk, ending)
        /\ DOMAIN conn' = Client /\ DOMAIN ran' = Client
        /\ \A d \in Client \ {c} : conn'[d] = conn[d] /\ ran'[d] = ran[d]
    BY <2>3, ProcessAt DEF Domains
  <2>5. conn[c].open /\ back' = back /\ sent' = sent /\ seen' = seen
    BY <1>5 DEF Read
  <2>6. /\ up'[c] = SubSeq(up[c], n + 1, Len(up[c])) /\ DOMAIN up' = Client
        /\ \A d \in Client \ {c} : up'[d] = up[d]
    BY <2>2 DEF Domains
  <2>7. /\ cut'[c] = (cut[c] \/ ~OneRequest(c, n)) /\ DOMAIN cut' = Client
        /\ \A d \in Client \ {c} : cut'[d] = cut[d]
    BY <2>2 DEF Domains
  <2>8. /\ peer'[c] = IF ending = "error" THEN "broken" ELSE peer[c]
        /\ DOMAIN peer' = Client /\ \A d \in Client \ {c} : peer'[d] = peer[d]
    BY <2>2 DEF Domains
  <2>9. ReadAt(c, n, ending, kk)
    BY <2>3, <2>4, <2>5, <2>6, <2>7, <2>8 DEF ReadAt
  <2> QED BY <2>4, <2>5, <2>6, <2>7, <2>8, <2>9 DEF Does, Domains, Same
<1>6. CASE Write(c)
  <2>1. WriteAt(c)
    BY <1>6 DEF Write, WriteAt, Domains
  <2>2. Domains' /\ \A d \in Client \ {c} : Same(d)
    BY <1>6 DEF Write, Domains, Same
  <2> QED BY <2>1, <2>2 DEF Does
<1>7. CASE WritePart(c)
  BY <1>7 DEF WritePart, WritePartAt, Does, Domains, Same
<1>8. CASE WriteFails(c)
  <2>1. WriteFailsAt(c)
    BY <1>8 DEF WriteFails, WriteFailsAt, Domains
  <2>2. Domains' /\ \A d \in Client \ {c} : Same(d)
    BY <1>8 DEF WriteFails, Domains, Same
  <2> QED BY <2>1, <2>2 DEF Does
<1> QED BY <1>1, <1>2, <1>3, <1>4, <1>5, <1>6, <1>7, <1>8 DEF Act

-----------------------------------------------------------------------------
(* What is true of a client and its connection at any time *)

\* Between two callbacks no words wait in a connection, and an answer does while
\* the connection is registered for writing.
Waits(k) == /\ Formed(k) /\ k.argc = 0
            /\ k.want <=> k.wbuf # NoReply
            /\ k.want => k.open

Sane(c) == /\ Waits(conn[c])
           /\ IsStream(up[c]) /\ IsSeq(back[c])
           /\ IsSeq(sent[c]) /\ IsSeq(seen[c]) /\ IsSeq(ran[c])
           /\ cut[c] \in BOOLEAN
           /\ peer[c] = "away" => conn[c].rbuf = <<>> /\ ~conn[c].open

LEMMA NewWaits == Waits(NewClient) /\ NewClient.rbuf = <<>>
                  /\ Waits(Closed(NewClient)) /\ Closed(NewClient).rbuf = <<>> /\ ~Closed(NewClient).open
<1>1. IsSeq(<<>>) /\ Len(<<>>) = 0
  BY EmptyIs
<1>2. IsStream(<<>>)
  BY <1>1 DEF IsStream
<1>3. /\ IsConn(NewClient) /\ NewClient.rbuf = <<>> /\ NewClient.nargs = 0 /\ NewClient.argv = <<>>
      /\ NewClient.argc = 0 /\ ~NewClient.want /\ NewClient.wbuf = NoReply /\ NewClient.open
  BY DEF IsConn, NewClient
<1> DEFINE x == Closed(NewClient)
<1>4. /\ IsConn(x) /\ x.rbuf = <<>> /\ x.nargs = 0 /\ x.argv = <<>>
      /\ x.argc = 0 /\ ~x.want /\ x.wbuf = NoReply /\ ~x.open
  BY DEF IsConn, NewClient, Closed
<1> HIDE DEF x
<1>5. Waits(NewClient)
  BY <1>1, <1>2, <1>3 DEF Waits, Formed
<1>6. Waits(x)
  BY <1>1, <1>2, <1>4 DEF Waits, Formed
<1> QED BY <1>3, <1>4, <1>5, <1>6 DEF x

LEMMA LeftWaits ==
  ASSUME NEW x, Waits(x), NEW ending
  PROVE  /\ Waits(Left(x, ending))
         /\ Left(x, ending) = x \/ (~Left(x, ending).open /\ Left(x, ending).rbuf = <<>>)
         /\ Left(x, ending).nargs = x.nargs
         /\ Left(x, ending).wbuf \in {x.wbuf, NoReply}
<1> DEFINE y == Closed(x)
<1>1. /\ IsConn(y) /\ y.rbuf = <<>> /\ y.nargs = x.nargs /\ y.argv = x.argv /\ y.argc = x.argc
      /\ ~y.want /\ y.wbuf = NoReply /\ ~y.open
  BY DEF Waits, Formed, IsConn, Closed
<1>2. IsSeq(<<>>) /\ Len(<<>>) = 0
  BY EmptyIs
<1>3. Left(x, ending) = x \/ Left(x, ending) = y
  BY DEF Left
<1> HIDE DEF y
<1>4. Waits(y)
  BY <1>1, <1>2 DEF Waits, Formed, IsStream
<1> QED BY <1>1, <1>3, <1>4

\* The buffer of a callback for reading.
LEMMA GotIs ==
  ASSUME NEW c, Sane(c), NEW n \in Arrivals(c)
  PROVE  /\ Formed(Got(c, n)) /\ n \in 0..Len(up[c])
         /\ Got(c, n).rbuf = conn[c].rbuf \o SubSeq(up[c], 1, n)
         /\ Got(c, n).argc = 0 /\ Got(c, n).nargs = conn[c].nargs /\ Got(c, n).argv = conn[c].argv
         /\ Got(c, n).open = conn[c].open /\ Got(c, n).want = conn[c].want
         /\ Got(c, n).wbuf = conn[c].wbuf /\ Got(c, n).ok = conn[c].ok
<1>0. Len(up[c]) \in Nat
  BY AppendIs DEF Sane, IsStream
<1>1. n \in 0..Len(up[c])
  BY <1>0 DEF Arrivals
<1> DEFINE a == SubSeq(up[c], 1, n)
           k == Got(c, n)
<1>2. IsStream(a)
  <2>1. /\ IsSeq(a) /\ Len(up[c]) \in Nat
        /\ Len(a) = IF 1 <= n THEN n - 1 + 1 ELSE 0
        /\ \A j \in 1..n - 1 + 1 : a[j] = up[c][1 + j - 1]
    BY <1>0, <1>1, SubSeqIs DEF Sane, IsStream
  <2> HIDE DEF a
  <2> QED BY <1>0, <1>1, <2>1 DEF Sane, IsStream
<1> HIDE DEF a
<1>3. IsStream(conn[c].rbuf \o a)
  BY <1>2, StreamConcat DEF Sane, Waits, Formed
<1>4. /\ IsConn(k) /\ k.rbuf = conn[c].rbuf \o a
      /\ k.argc = 0 /\ k.nargs = conn[c].nargs /\ k.argv = conn[c].argv
      /\ k.open = conn[c].open /\ k.want = conn[c].want
      /\ k.wbuf = conn[c].wbuf /\ k.ok = conn[c].ok
  BY DEF Sane, Waits, Formed, IsConn, Got, a
<1> HIDE DEF k
<1>5. Formed(k)
  BY <1>3, <1>4 DEF Sane, Waits, Formed
<1> QED BY <1>1, <1>4, <1>5 DEF k, a

\* A connection whose words were dropped or carried out.
LEMMA ClearedWaits ==
  ASSUME NEW k, Formed(k), k.open, k.want <=> k.wbuf # NoReply
  PROVE  /\ Waits(Cleared(k)) /\ Cleared(k).open /\ Cleared(k).rbuf = <<>>
         /\ Cleared(k).nargs = k.nargs /\ Cleared(k).wbuf = k.wbuf
<1> DEFINE x == Cleared(k)
<1>1. /\ IsConn(x) /\ x.rbuf = <<>> /\ x.nargs = k.nargs /\ x.argv = k.argv /\ x.argc = 0
      /\ x.open = k.open /\ x.want = k.want /\ x.wbuf = k.wbuf
  BY DEF Formed, IsConn, Cleared
<1>2. IsSeq(<<>>) /\ Len(<<>>) = 0
  BY EmptyIs
<1> HIDE DEF x
<1>3. Waits(x)
  BY <1>1, <1>2 DEF Waits, Formed, IsStream
<1> QED BY <1>1, <1>3 DEF x

LEMMA AnsweringIs ==
  ASSUME NEW k, Formed(k), k.open, k.want <=> k.wbuf # NoReply, NEW e
  PROVE  /\ Formed(Answering(k, e)) /\ Answering(k, e).open
         /\ Answering(k, e).want <=> Answering(k, e).wbuf # NoReply
         /\ Answering(k, e).nargs = k.nargs
         /\ Answering(k, e).wbuf = IF e.reply = NoReply THEN k.wbuf ELSE e.reply
<1> DEFINE a == Answering(k, e)
           w == IF e.reply = NoReply THEN k.wbuf ELSE e.reply
           v == IF e.kept THEN [k.argv EXCEPT ![3] = Uninit] ELSE k.argv
<1>1. a = [k EXCEPT !.wbuf = w, !.want = @ \/ w # NoReply, !.argv = v]
  BY Zenon DEF Answering
<1>2. IsSeq(v)
  <2>1. IsSeq(k.argv)
    BY DEF Formed
  <2>2. k.argv = [j \in 1..Len(k.argv) |-> k.argv[j]] /\ Len(k.argv) \in Nat
    BY <2>1, LenProperties DEF IsSeq
  <2> DEFINE x == [k.argv EXCEPT ![3] = Uninit]
  <2>3. x = [j \in 1..Len(k.argv) |-> x[j]]
    BY <2>2
  <2> HIDE DEF x
  <2>4. IsSeq(x)
    BY <2>2, <2>3, FunctionIs
  <2> QED BY <2>1, <2>4 DEF x
<1> HIDE DEF w, v, a
<1>3. /\ IsConn(a) /\ a.rbuf = k.rbuf /\ a.nargs = k.nargs /\ a.argv = v /\ a.argc = k.argc
      /\ a.open = k.open /\ a.want = (k.want \/ w # NoReply) /\ a.wbuf = w
  BY <1>1 DEF Formed, IsConn
<1>4. Formed(a)
  BY <1>2, <1>3 DEF Formed
<1>5. a.want <=> a.wbuf # NoReply
  BY <1>3 DEF w
<1> QED BY <1>3, <1>4, <1>5 DEF a, w

\* What a callback for reading leaves of the connection, and what it read from.
LEMMA ReadLeaves ==
  ASSUME NEW c, Sane(c), NEW n \in Arrivals(c), NEW ending, NEW kk, ReadAt(c, n, ending, kk)
  PROVE  /\ Formed(kk) /\ kk.open /\ kk.rbuf = Got(c, n).rbuf
         /\ kk.want = conn[c].want /\ kk.wbuf = conn[c].wbuf
         /\ Waits(conn'[c])
         /\ Idle(c, kk, ending) => conn'[c].wbuf \in {conn[c].wbuf, NoReply}
         /\ Dropped(c, kk, ending) => conn'[c].wbuf \in {conn[c].wbuf, NoReply}
         /\ conn'[c].open => \/ conn'[c].rbuf = <<>>
                             \/ Idle(c, kk, ending) /\ conn'[c] = kk
                             \/ Faulty(c, kk)
<1> DEFINE k == Got(c, n)
<1>1. /\ Formed(k) /\ k.open = conn[c].open /\ k.want = conn[c].want /\ k.wbuf = conn[c].wbuf
  BY GotIs
<1>2. conn[c].open /\ kk \in IF k.rbuf = <<>> THEN {k} ELSE Parsed(k)
  BY DEF ReadAt
<1> HIDE DEF k
<1>3. Formed(kk) /\ kk.open = k.open /\ kk.want = k.want /\ kk.rbuf = k.rbuf /\ kk.wbuf = k.wbuf
  <2>1. CASE kk = k
    BY <1>1, <2>1
  <2>2. CASE kk \in Parsed(k)
    BY <1>1, <2>2, ParsedFormed
  <2> QED BY <1>2, <2>1, <2>2
<1>4. Formed(kk) /\ kk.open /\ (kk.want <=> kk.wbuf # NoReply)
  BY <1>1, <1>2, <1>3 DEF Sane, Waits
<1>5. CASE Idle(c, kk, ending)
  <2>1. Waits(kk)
    BY <1>4, <1>5 DEF Waits, Idle
  <2>2. conn'[c] = Left(kk, ending)
    BY <1>5 DEF Idle
  <2>3. /\ Waits(conn'[c]) /\ conn'[c].wbuf \in {kk.wbuf, NoReply}
        /\ conn'[c] = kk \/ ~conn'[c].open
    BY <2>1, <2>2, LeftWaits
  <2> QED BY <1>1, <1>3, <1>4, <1>5, <2>3 DEF k
<1>6. CASE Dropped(c, kk, ending)
  <2>1. Waits(Cleared(kk)) /\ Cleared(kk).rbuf = <<>> /\ Cleared(kk).wbuf = kk.wbuf
    BY <1>4, ClearedWaits
  <2>2. conn'[c] = Left(Cleared(kk), ending)
    BY <1>6 DEF Dropped
  <2>3. /\ Waits(conn'[c]) /\ conn'[c].wbuf \in {Cleared(kk).wbuf, NoReply}
        /\ conn'[c] = Cleared(kk) \/ ~conn'[c].open
    BY <2>1, <2>2, LeftWaits
  <2> QED BY <1>1, <1>3, <1>4, <2>1, <2>3, <1>6 DEF k, Idle, Dropped
<1>7. CASE Faulty(c, kk)
  <2>1. Waits(conn'[c]) /\ ~Idle(c, kk, ending) /\ ~Dropped(c, kk, ending)
    BY <1>7 DEF Faulty, Sane, Idle, Dropped
  <2> QED BY <1>1, <1>3, <1>4, <2>1, <1>7 DEF k
<1>8. CASE Done(c, kk, ending)
  <2> DEFINE e == Execute(kk.argv, store)
             a == Answering(kk, e)
  <2>1. Formed(a) /\ a.open /\ (a.want <=> a.wbuf # NoReply)
    BY <1>4, AnsweringIs
  <2>2. conn'[c] = Left(Cleared(a), ending)
    BY <1>8 DEF Done
  <2>3. ~Idle(c, kk, ending) /\ ~Dropped(c, kk, ending)
    BY <1>8 DEF Done, Idle, Dropped
  <2> HIDE DEF e, a
  <2>4. Waits(Cleared(a)) /\ Cleared(a).rbuf = <<>>
    BY <2>1, ClearedWaits
  <2>5. Waits(conn'[c]) /\ (conn'[c] = Cleared(a) \/ ~conn'[c].open)
    BY <2>2, <2>4, LeftWaits
  <2> QED BY <1>1, <1>3, <1>4, <2>3, <2>4, <2>5 DEF k
<1> QED BY <1>5, <1>6, <1>7, <1>8 DEF ReadAt

LEMMA RequestsAre == ASSUME net \in Nets, NEW r \in net.requests PROVE IsSeq(r) /\ r # <<>>
<1>1. r \in Request
  BY DEF Request
<1> QED BY <1>1, RequestAssumption, SeqIs

LEMMA SaneReads ==
  ASSUME NEW c, Sane(c), NEW n \in Arrivals(c), NEW ending, NEW kk, ReadAt(c, n, ending, kk)
  PROVE  Sane(c)'
<1>1. Waits(conn'[c])
  BY ReadLeaves
<1>2. n \in 0..Len(up[c]) /\ Len(up[c]) \in Nat
  BY GotIs, AppendIs DEF Sane, IsStream
<1>3. IsStream(up'[c])
  <2> DEFINE m == n + 1
             a == SubSeq(up[c], m, Len(up[c]))
  <2>1. m \in 1..Len(up[c]) + 1 /\ Len(up[c]) \in 0..Len(up[c])
    BY <1>2
  <2> HIDE DEF m
  <2>2. /\ IsSeq(a) /\ Len(up[c]) \in Nat
        /\ Len(a) = IF m <= Len(up[c]) THEN Len(up[c]) - m + 1 ELSE 0
        /\ \A j \in 1..Len(up[c]) - m + 1 : a[j] = up[c][m + j - 1]
    BY <2>1, SubSeqIs DEF Sane, IsStream
  <2>3. up'[c] = a
    BY DEF ReadAt, m
  <2> HIDE DEF a
  <2>4. ASSUME NEW j \in 1..Len(a) PROVE IsPiece(a[j])
    <3>1. j \in 1..Len(up[c]) - m + 1 /\ m + j - 1 \in 1..Len(up[c])
      BY <2>1, <2>2
    <3> QED BY <2>2, <3>1 DEF Sane, IsStream
  <2> QED BY <2>2, <2>3, <2>4 DEF IsStream
<1>4. IsSeq(ran'[c])
  <2>1. CASE Done(c, kk, ending)
    <3>1. ran'[c] = Append(ran[c], SubSeq(kk.argv, 1, kk.argc))
      BY <2>1 DEF Done
    <3> QED BY <3>1, AppendIs DEF Sane
  <2>2. CASE ran'[c] = ran[c]
    BY <2>2 DEF Sane
  <2> QED BY <2>1, <2>2 DEF ReadAt, Idle, Dropped, Faulty
<1>5. peer'[c] # "away"
  BY DEF ReadAt, Sane
<1>6. cut'[c] \in BOOLEAN
  BY DEF ReadAt
<1> QED BY <1>1, <1>3, <1>4, <1>5, <1>6 DEF Sane, ReadAt

LEMMA SaneStep ==
  ASSUME net \in Nets, NEW c, Sane(c), Does(c)
  PROVE  Sane(c)'
<1>1. CASE AcceptAt(c)
  <2>1. Waits(conn'[c]) /\ peer'[c] = "here"
    BY <1>1, NewWaits DEF AcceptAt
  <2> QED BY <1>1, <2>1 DEF AcceptAt, Sane
<1>2. CASE ReceiveAt(c)
  <2>1. IsSeq(back'[c])
    BY <1>2, TailIs DEF ReceiveAt, Sane
  <2>2. IsSeq(seen'[c])
    <3>1. seen'[c] = seen[c] \/ seen'[c] = Append(seen[c], Head(back[c]))
      BY <1>2 DEF ReceiveAt
    <3>2. IsSeq(seen[c])
      BY DEF Sane
    <3>3. IsSeq(Append(seen[c], Head(back[c])))
      BY <3>2, AppendIs
    <3> QED BY <3>1, <3>2, <3>3
  <2>3. Waits(conn'[c])
    BY <1>2 DEF ReceiveAt, Sane
  <2> QED BY <1>2, <2>1, <2>2, <2>3 DEF ReceiveAt, Sane
<1>3. CASE LeaveAt(c)
  <2>1. IsSeq(back'[c]) /\ IsStream(up'[c])
    BY <1>3, EmptyIs DEF LeaveAt, Sane, IsStream
  <2>2. Waits(conn'[c]) /\ peer'[c] # "away"
    BY <1>3 DEF LeaveAt, Sane
  <2> QED BY <1>3, <2>1, <2>2 DEF LeaveAt, Sane
<1>4. CASE \E r \in net.requests : SendAt(c, r)
  <2>1. PICK r \in net.requests : SendAt(c, r)
    BY <1>4
  <2>2. IsStream(Encode(r))
    BY RequestsAre, EncodeIs
  <2>3. IsStream(up'[c])
    BY <2>1, <2>2, StreamConcat DEF SendAt, Sane
  <2>4. IsSeq(sent'[c])
    BY <2>1, AppendIs DEF SendAt, Sane
  <2>5. Waits(conn'[c])
    BY <2>1 DEF SendAt, Sane
  <2> QED BY <2>1, <2>3, <2>4, <2>5 DEF SendAt, Sane
<1>5. CASE \E n \in Arrivals(c) : \E ending \in Endings(c, n) : \E kk : ReadAt(c, n, ending, kk)
  BY <1>5, SaneReads
<1>6. CASE WriteAt(c)
  <2>1. Waits(conn'[c])
    <3> DEFINE k == conn[c]
               x == Written(k)
    <3>1. /\ IsConn(x) /\ x.rbuf = k.rbuf /\ x.nargs = k.nargs /\ x.argv = k.argv /\ x.argc = k.argc
          /\ x.open = k.open /\ ~x.want /\ x.wbuf = NoReply
      BY DEF Sane, Waits, Formed, IsConn, Written
    <3>2. x = conn'[c]
      BY <1>6 DEF WriteAt
    <3> HIDE DEF x
    <3>3. Waits(x)
      BY <3>1 DEF Sane, Waits, Formed
    <3> QED BY <3>2, <3>3
  <2>2. IsSeq(back'[c])
    <3>1. IsSeq(back[c])
      BY DEF Sane
    <3>2. IsSeq(Append(back[c], conn[c].wbuf))
      BY <3>1, AppendIs
    <3> QED BY <1>6, <3>1, <3>2 DEF WriteAt
  <2>3. peer'[c] # "away"
    BY <1>6 DEF WriteAt
  <2> QED BY <1>6, <2>1, <2>2, <2>3 DEF WriteAt, Sane
<1>7. CASE WritePartAt(c)
  <2>1. IsSeq(back'[c])
    BY <1>7, AppendIs DEF WritePartAt, Sane
  <2>2. Waits(conn'[c])
    BY <1>7 DEF WritePartAt, Sane
  <2> QED BY <1>7, <2>1, <2>2 DEF WritePartAt, Sane
<1>8. CASE WriteFailsAt(c)
  <2>1. Waits(conn'[c]) /\ peer'[c] # "away"
    BY <1>8 DEF WriteFailsAt, Sane
  <2> QED BY <1>8, <2>1 DEF WriteFailsAt, Sane
<1> QED BY <1>1, <1>2, <1>3, <1>4, <1>5, <1>6, <1>7, <1>8 DEF Does

Shape == net \in Nets /\ Domains /\ \A c \in Client : Sane(c)

LEMMA ShapeInit == Init => Shape
<1> SUFFICES ASSUME Init PROVE Shape
  OBVIOUS
<1>1. Domains /\ net \in Nets
  BY DEF Init, Domains
<1>2. ASSUME NEW c \in Client PROVE Sane(c)
  <2>1. /\ conn[c] = Closed(NewClient) /\ up[c] = <<>> /\ back[c] = <<>> /\ sent[c] = <<>>
        /\ seen[c] = <<>> /\ ran[c] = <<>> /\ cut[c] = FALSE
    BY DEF Init
  <2>2. Waits(conn[c]) /\ conn[c].rbuf = <<>> /\ ~conn[c].open
    BY <2>1, NewWaits
  <2>3. IsSeq(<<>>) /\ IsStream(<<>>)
    BY EmptyIs DEF IsStream
  <2> QED BY <2>1, <2>2, <2>3 DEF Sane
<1> QED BY <1>1, <1>2 DEF Shape

\* A step is an action of one client.
LEMMA StepIsOne ==
  ASSUME Shape, Next
  PROVE  /\ net' = net /\ status = "ok" /\ Shape'
         /\ \E c \in Client : Does(c) /\ \A d \in Client \ {c} : Same(d)
<1>1. PICK c \in Client : Act(c)
  BY Zenon DEF Next, Act
<1>2. net' = net /\ status = "ok"
  BY DEF Next
<1>3. Does(c) /\ Domains' /\ \A d \in Client \ {c} : Same(d)
  BY <1>1, OneMoves DEF Shape
<1>4. ASSUME NEW d \in Client PROVE Sane(d)'
  <2>1. CASE d = c
    BY <1>3, <2>1, SaneStep DEF Shape
  <2>2. CASE d # c
    <3>1. Sane(d) /\ Same(d)
      BY <1>3, <2>2 DEF Shape
    <3> QED BY <3>1 DEF Sane, Same
  <2> QED BY <2>1, <2>2
<1> QED BY <1>2, <1>3, <1>4 DEF Shape

THEOREM ShapeHolds == Spec => []Shape
<1>1. Shape /\ [Next]_vars => Shape'
  <2> SUFFICES ASSUME Shape, [Next]_vars PROVE Shape'
    OBVIOUS
  <2>1. CASE Next
    BY <2>1, StepIsOne
  <2>2. CASE UNCHANGED vars
    BY <2>2 DEF vars, Shape, Domains, Sane
  <2> QED BY <2>1, <2>2
<1> QED BY <1>1, ShapeInit, PTL DEF Spec

-----------------------------------------------------------------------------
(* No answer forgotten *)

LEMMA RepliesAreWhole ==
  ASSUME NEW argv, NEW s
  PROVE  Execute(argv, s).reply.t # "half"
<1>1. \A v : Bulk(v).t # "half" /\ Count(v).t # "half"
  BY DEF Bulk, Count
<1>2. OK.t # "half" /\ Err.t # "half" /\ NoReply.t # "half"
  BY DEF OK, Err, NoReply
<1>3. CASE argv[1] = "set"
  <2>1. Execute(argv, s) = Set(s, argv[2], argv[3])
    BY <1>3 DEF Execute
  <2>2. Set(s, argv[2], argv[3]).reply = OK
    BY DEF Set, Effect
  <2> QED BY <1>2, <2>1, <2>2
<1>4. CASE argv[1] = "get"
  <2>1. Execute(argv, s) = Get(s, argv[2])
    BY <1>4 DEF Execute
  <2> DEFINE x == IF Found(s, argv[2]) = Absent THEN Err
                  ELSE IF Len(Found(s, argv[2])) < OutputMax THEN Bulk(Found(s, argv[2])) ELSE NoReply
  <2>2. Get(s, argv[2]).reply = x
    BY DEF Get, Effect
  <2> QED BY <1>1, <1>2, <2>1, <2>2
<1>5. CASE argv[1] = "del"
  <2>1. Execute(argv, s) = Delete(s, argv[2])
    BY <1>5 DEF Execute
  <2>2. \E v : Delete(s, argv[2]).reply = Count(v)
    BY DEF Delete, Effect
  <2> QED BY <1>1, <2>1, <2>2
<1>6. CASE argv[1] = "append"
  <2>1. Execute(argv, s) = AppendTo(s, argv[2], argv[3])
    BY <1>6 DEF Execute
  <2>2. \E v : AppendTo(s, argv[2], argv[3]).reply = Count(v)
    BY DEF AppendTo, Effect
  <2> QED BY <1>1, <2>1, <2>2
<1>7. CASE argv[1] \notin {"set", "get", "del", "append"}
  <2>1. Execute(argv, s) = Silent(s)
    BY <1>7 DEF Execute
  <2>2. Silent(s).reply = NoReply
    BY DEF Silent, Effect
  <2> QED BY <1>2, <2>1, <2>2
<1> QED BY <1>3, <1>4, <1>5, <1>6, <1>7

\* The last part a client got has an answer behind it that is still to be written.
Kept(c) == /\ conn[c].wbuf.t # "half"
           /\ peer[c] # "here" => back[c] = <<>>
           /\ back[c] # <<>> /\ Last(back[c]).t = "half" => conn[c].want

\* A callback for reading forgets an answer only at the end of file.
LEMMA KeptReads ==
  ASSUME NEW c, Sane(c), Kept(c), NEW n \in Arrivals(c), NEW ending \in Endings(c, n), NEW kk,
         ReadAt(c, n, ending, kk)
  PROVE  Kept(c)'
<1>1. /\ Formed(kk) /\ kk.open /\ kk.want = conn[c].want /\ kk.wbuf = conn[c].wbuf
      /\ Idle(c, kk, ending) => conn'[c].wbuf \in {conn[c].wbuf, NoReply}
      /\ Dropped(c, kk, ending) => conn'[c].wbuf \in {conn[c].wbuf, NoReply}
  BY ReadLeaves
<1>2. NoReply.t # "half"
  BY DEF NoReply
<1>3. \A k : Closed(k).wbuf = NoReply => Left(k, ending).wbuf \in {k.wbuf, NoReply}
  BY DEF Left
<1> DEFINE e == Execute(kk.argv, store)
           a == Answering(kk, e)
<1>4. Formed(a) /\ a.wbuf = (IF e.reply = NoReply THEN kk.wbuf ELSE e.reply)
      /\ (a.want <=> a.wbuf # NoReply)
  BY <1>1, AnsweringIs DEF Sane, Waits
<1>5. e.reply.t # "half"
  BY RepliesAreWhole
<1> HIDE DEF e, a
<1>6. \A k : IsConn(k) => /\ Cleared(k).want = k.want /\ Cleared(k).wbuf = k.wbuf
                         /\ Closed(k).wbuf = NoReply /\ Closed(Cleared(k)).wbuf = NoReply
  BY DEF IsConn, Cleared, Closed
<1>7. IsConn(kk) /\ IsConn(a)
  BY <1>1, <1>4 DEF Formed
<1>8. conn'[c].wbuf.t # "half"
  <2>1. CASE Idle(c, kk, ending) \/ Dropped(c, kk, ending)
    BY <1>1, <1>2, <2>1 DEF Kept
  <2>2. CASE Faulty(c, kk)
    BY <2>2 DEF Faulty, Kept
  <2>3. CASE Done(c, kk, ending)
    <3>1. conn'[c] = Left(Cleared(a), ending)
      BY <2>3 DEF Done, a, e
    <3>2. conn'[c].wbuf \in {a.wbuf, NoReply}
      BY <3>1, <1>3, <1>6, <1>7
    <3> QED BY <1>1, <1>2, <1>4, <1>5, <3>2 DEF Kept
  <2> QED BY <2>1, <2>2, <2>3 DEF ReadAt
<1>9. peer[c] = "here" => ending # "eof"
  BY DEF Endings
<1>10. peer[c] = "here" /\ conn[c].want => conn'[c].want
  <2> SUFFICES ASSUME peer[c] = "here", conn[c].want PROVE conn'[c].want
    OBVIOUS
  <2>1. \A k : Left(k, ending) = k
    BY <1>9 DEF Left
  <2>2. CASE Idle(c, kk, ending)
    <3>1. conn'[c] = kk /\ kk.want = conn[c].want
      BY <1>1, <2>1, <2>2, Zenon DEF Idle
    <3> QED BY <3>1
  <2>3. CASE Dropped(c, kk, ending)
    <3>1. conn'[c] = Cleared(kk)
      BY <2>1, <2>3, Zenon DEF Dropped
    <3>2. Cleared(kk).want = kk.want /\ kk.want = conn[c].want
      BY <1>1, <1>6, <1>7, Zenon
    <3> QED BY <3>1, <3>2
  <2>4. CASE Faulty(c, kk)
    BY <2>4 DEF Faulty
  <2>5. CASE Done(c, kk, ending)
    <3>1. conn'[c] = Cleared(a)
      BY <2>1, <2>5, Zenon DEF Done, a, e
    <3>2. a.wbuf # NoReply
      BY <1>1, <1>4 DEF Sane, Waits
    <3>3. Cleared(a).want = a.want /\ a.want
      BY <1>4, <1>6, <1>7, <3>2, Zenon
    <3> QED BY <3>1, <3>3
  <2> QED BY <2>2, <2>3, <2>4, <2>5 DEF ReadAt
<1>11. back'[c] = back[c] /\ (peer'[c] = "here" => peer[c] = "here") /\ (peer[c] # "here" => peer'[c] # "here")
  BY DEF ReadAt
<1>12. peer[c] = "here" => peer'[c] = "here"
  BY DEF ReadAt, Endings
<1> QED BY <1>8, <1>10, <1>11, <1>12 DEF Kept

LEMMA KeptStep ==
  ASSUME NEW c, Sane(c), Kept(c), Does(c)
  PROVE  Kept(c)'
<1>1. NoReply.t # "half" /\ NewClient.wbuf = NoReply
  BY DEF NoReply, NewClient
<1>2. IsSeq(back[c])
  BY DEF Sane
<1>3. ASSUME NEW e
      PROVE  Append(back[c], e) # <<>> /\ Last(Append(back[c], e)) = e
  <2>1. IsSeq(Append(back[c], e)) /\ Len(back[c]) \in Nat
        /\ Len(Append(back[c], e)) = Len(back[c]) + 1 /\ Append(back[c], e)[Len(back[c]) + 1] = e
    BY <1>2, AppendIs
  <2> QED BY <2>1, EmptyIs DEF Last
<1>4. CASE AcceptAt(c)
  BY <1>1, <1>4 DEF AcceptAt, Kept
<1>5. CASE ReceiveAt(c)
  <2> DEFINE b == back[c]
  <2>1. /\ IsSeq(b) /\ b # <<>>
    BY <1>2, <1>5 DEF ReceiveAt
  <2>2. /\ IsSeq(Tail(b)) /\ Len(b) \in Nat /\ Len(Tail(b)) = Len(b) - 1
        /\ \A j \in 1..Len(b) - 1 : Tail(b)[j] = b[j + 1]
    BY <2>1, TailIs
  <2> HIDE DEF b
  <2>3. Tail(b) # <<>> => Last(Tail(b)) = Last(b)
    <3>1. Tail(b) # <<>> => Len(b) - 1 \in 1..Len(b) - 1
      BY <2>2, EmptyIs
    <3> QED BY <2>2, <3>1 DEF Last
  <2>4. back'[c] = Tail(b) /\ conn'[c] = conn[c] /\ peer'[c] = "here"
    BY <1>5 DEF ReceiveAt, b
  <2> QED BY <2>1, <2>3, <2>4 DEF Kept, b
<1>6. CASE LeaveAt(c)
  BY <1>6 DEF LeaveAt, Kept
<1>7. CASE \E r \in net.requests : SendAt(c, r)
  BY <1>7 DEF SendAt, Kept
<1>8. CASE \E n \in Arrivals(c) : \E ending \in Endings(c, n) : \E kk : ReadAt(c, n, ending, kk)
  BY <1>8, KeptReads
<1>9. CASE WriteAt(c)
  <2>1. Written(conn[c]).wbuf = NoReply
    BY DEF Written, Sane, Waits, Formed, IsConn
  <2> QED BY <1>1, <1>3, <1>9, <2>1 DEF WriteAt, Kept
<1>10. CASE WritePartAt(c)
  BY <1>10 DEF WritePartAt, Kept
<1>11. CASE WriteFailsAt(c)
  BY <1>11 DEF WriteFailsAt, Kept
<1> QED BY <1>4, <1>5, <1>6, <1>7, <1>8, <1>9, <1>10, <1>11 DEF Does

\* An answer waits in wbuf exactly while its connection is registered for writing, and
\* stays registered behind a part that was taken (kvs_command.c:216, kvs_net.c:131-144).
THEOREM AnswersAreScheduled == Spec => []AnswerIsScheduled
<1> DEFINE Inv == \A c \in Client : Kept(c)
<1>1. Init => Inv
  <2> SUFFICES ASSUME Init, NEW c \in Client PROVE Kept(c)
    OBVIOUS
  <2>1. back[c] = <<>> /\ conn[c] = Closed(NewClient)
    BY DEF Init
  <2>2. conn[c].wbuf = NoReply
    BY <2>1 DEF Closed, NewClient
  <2>3. NoReply.t # "half"
    BY DEF NoReply
  <2> QED BY <2>1, <2>2, <2>3 DEF Kept
<1>2. Shape /\ Inv /\ [Next]_vars => Inv'
  <2> SUFFICES ASSUME Shape, Inv, [Next]_vars, NEW d \in Client PROVE Kept(d)'
    OBVIOUS
  <2>1. CASE Next
    <3>1. PICK c \in Client : Does(c) /\ \A e \in Client \ {c} : Same(e)
      BY <2>1, StepIsOne
    <3>2. CASE d = c
      BY <3>1, <3>2, KeptStep DEF Shape
    <3>3. CASE d # c
      <4>1. Same(d) /\ Kept(d)
        BY <3>1, <3>3
      <4> QED BY <4>1 DEF Same, Kept
    <3> QED BY <3>2, <3>3
  <2>2. CASE UNCHANGED vars
    BY <2>2 DEF vars, Kept
  <2> QED BY <2>1, <2>2
<1>3. Shape /\ Inv => AnswerIsScheduled
  BY DEF Shape, Sane, Waits, Kept, AnswerIsScheduled
<1> HIDE DEF Inv
<1> QED BY <1>1, <1>2, <1>3, ShapeHolds, PTL DEF Spec

-----------------------------------------------------------------------------
(* No answer without a command *)

\* The whole answers among those not yet read.
Full(b) == {j \in DOMAIN b : b[j].t # "half"}
Waiting(k) == IF k.wbuf # NoReply THEN 1 ELSE 0
Earned(c) == Len(seen[c]) + Cardinality(Full(back[c])) + Waiting(conn[c]) <= Len(ran[c])

LEMMA FullIs ==
  ASSUME NEW b, IsSeq(b)
  PROVE  IsFiniteSet(Full(b)) /\ Cardinality(Full(b)) \in Nat /\ Full(b) \subseteq 1..Len(b)
<1>1. Len(b) \in Nat /\ DOMAIN b = 1..Len(b)
  BY AppendIs
<1>2. Full(b) \in SUBSET (1..Len(b)) /\ IsFiniteSet(1..Len(b))
  BY <1>1, FS_Interval DEF Full
<1> QED BY <1>2, FS_Subset, FS_CardinalityType

LEMMA FullAppend ==
  ASSUME NEW b, IsSeq(b), NEW e
  PROVE  Cardinality(Full(Append(b, e)))
           = IF e.t = "half" THEN Cardinality(Full(b)) ELSE Cardinality(Full(b)) + 1
<1> DEFINE a == Append(b, e)
           l == Len(b) + 1
<1>1. /\ IsSeq(a) /\ Len(b) \in Nat /\ DOMAIN b = 1..Len(b)
      /\ Len(a) = Len(b) + 1
      /\ \A j \in 1..Len(b) : a[j] = b[j]
      /\ a[Len(b) + 1] = e
  BY AppendIs
<1>2. DOMAIN a = 1..l /\ l \in Nat
  BY <1>1, AppendIs
<1> HIDE DEF a
<1>3. Full(a) = IF e.t = "half" THEN Full(b) ELSE Full(b) \cup {l}
  <2>1. \A j : j \in 1..l <=> j \in 1..Len(b) \/ j = l
    BY <1>1
  <2> QED BY <1>1, <1>2, <2>1 DEF Full
<1>4. l \notin Full(b) /\ IsFiniteSet(Full(b))
  BY <1>1, FullIs
<1>5. Cardinality(Full(b) \cup {l}) = Cardinality(Full(b)) + 1
  BY <1>4, FS_AddElement
<1> QED BY <1>3, <1>5 DEF a

LEMMA FullTail ==
  ASSUME NEW b, IsSeq(b), b # <<>>
  PROVE  Cardinality(Full(Tail(b)))
           <= IF Head(b).t = "half" THEN Cardinality(Full(b)) ELSE Cardinality(Full(b)) - 1
<1> DEFINE a == Tail(b)
           f == [j \in Full(a) |-> j + 1]
           T == Full(b) \ {1}
<1>1. /\ IsSeq(a) /\ Len(b) \in Nat /\ Len(a) = Len(b) - 1 /\ Len(b) > 0
      /\ \A j \in 1..Len(b) - 1 : a[j] = b[j + 1]
      /\ Head(b) = b[1]
  BY TailIs
<1>2. DOMAIN a = 1..Len(a) /\ DOMAIN b = 1..Len(b)
  BY <1>1, AppendIs
<1>3. IsFiniteSet(Full(b)) /\ Cardinality(Full(b)) \in Nat
  BY FullIs
<1>4. IsFiniteSet(T) /\ Cardinality(T) = IF 1 \in Full(b) THEN Cardinality(Full(b)) - 1 ELSE Cardinality(Full(b))
  BY <1>3, FS_RemoveElement
<1>5. 1 \in Full(b) <=> Head(b).t # "half"
  BY <1>1, <1>2 DEF Full
<1>6. f \in Injection(Full(a), T)
  <2> HIDE DEF a
  <2>1. ASSUME NEW j \in Full(a) PROVE j + 1 \in T /\ j \in Nat
    BY <1>1, <1>2 DEF Full
  <2>2. f \in [Full(a) -> T]
    BY <2>1
  <2>3. \A x, y \in Full(a) : f[x] = f[y] => x = y
    BY <2>1
  <2> HIDE DEF f, T
  <2> QED BY <2>2, <2>3 DEF Injection, IsInjective
<1> HIDE DEF f, T, a
<1>7. Cardinality(Full(a)) <= Cardinality(T)
  BY <1>4, <1>6, FS_Injection
<1> QED BY <1>4, <1>5, <1>7 DEF a

LEMMA EarnedStep ==
  ASSUME NEW c, Sane(c), Earned(c), Does(c)
  PROVE  Earned(c)'
<1> DEFINE x == Len(seen[c])
           y == Cardinality(Full(back[c]))
           z == Len(ran[c])
<1>1. /\ x \in Nat /\ y \in Nat /\ z \in Nat
      /\ x + y + Waiting(conn[c]) <= z /\ Waiting(conn[c]) \in {0, 1}
  BY AppendIs, FullIs DEF Sane, Earned, Waiting
<1>2. /\ seen'[c] = seen[c] => Len(seen'[c]) = x
      /\ back'[c] = back[c] => Cardinality(Full(back'[c])) = y
      /\ ran'[c] = ran[c] => Len(ran'[c]) = z
      /\ conn'[c] = conn[c] => Waiting(conn'[c]) = Waiting(conn[c])
      /\ Waiting(conn'[c]) \in {0, 1}
  BY DEF Waiting
<1>3. SUFFICES Len(seen'[c]) + Cardinality(Full(back'[c])) + Waiting(conn'[c]) <= Len(ran'[c])
  BY DEF Earned
<1> HIDE DEF x, y, z
<1>4. CASE AcceptAt(c)
  <2>1. NewClient.wbuf = NoReply
    BY DEF NewClient
  <2>2. Waiting(conn'[c]) = 0
    BY <1>4, <2>1 DEF AcceptAt, Waiting
  <2> QED BY <1>1, <1>2, <1>4, <2>2 DEF AcceptAt
<1>5. CASE ReceiveAt(c)
  <2> DEFINE h == Head(back[c])
             s == seen[c]
             b == back[c]
  <2>1. IsSeq(s) /\ IsSeq(b) /\ b # <<>>
    BY <1>5 DEF Sane, ReceiveAt
  <2>2. Cardinality(Full(Tail(b))) <= IF h.t = "half" THEN y ELSE y - 1
    BY <2>1, FullTail DEF y
  <2>3. IsSeq(Tail(b))
    BY <2>1, TailIs
  <2>4. Cardinality(Full(Tail(b))) \in Nat
    BY <2>3, FullIs
  <2>5. seen'[c] = (IF h.t = "half" THEN s ELSE Append(s, h)) /\ back'[c] = Tail(b)
        /\ conn'[c] = conn[c] /\ ran'[c] = ran[c]
    BY <1>5 DEF ReceiveAt
  <2> HIDE DEF h, s, b
  <2>6. Len(Append(s, h)) = Len(s) + 1
    BY <2>1, AppendIs
  <2>7. Len(seen'[c]) = IF h.t = "half" THEN x ELSE x + 1
    BY <2>5, <2>6 DEF s, x
  <2> QED BY <1>1, <1>2, <2>2, <2>4, <2>5, <2>7
<1>6. CASE LeaveAt(c)
  <2>1. back'[c] = <<>>
    BY <1>6 DEF LeaveAt
  <2>2. Full(back'[c]) = {}
    BY <2>1, EmptyIs, FullIs
  <2>3. Cardinality(Full(back'[c])) = 0
    BY <2>2, FS_EmptySet
  <2> QED BY <1>1, <1>2, <1>6, <2>3 DEF LeaveAt
<1>7. CASE \E r \in net.requests : SendAt(c, r)
  BY <1>1, <1>2, <1>7 DEF SendAt
<1>8. CASE \E n \in Arrivals(c) : \E ending \in Endings(c, n) : \E kk : ReadAt(c, n, ending, kk)
  <2>0. PICK n \in Arrivals(c) : \E ending \in Endings(c, n) : \E kk : ReadAt(c, n, ending, kk)
    BY <1>8
  <2>1. PICK ending \in Endings(c, n) : \E kk : ReadAt(c, n, ending, kk)
    BY <2>0
  <2>2. PICK kk : ReadAt(c, n, ending, kk)
    BY <2>1
  <2>3. /\ Idle(c, kk, ending) => conn'[c].wbuf \in {conn[c].wbuf, NoReply}
        /\ Dropped(c, kk, ending) => conn'[c].wbuf \in {conn[c].wbuf, NoReply}
    BY <2>2, ReadLeaves
  <2>4. seen'[c] = seen[c] /\ back'[c] = back[c]
    BY <2>2 DEF ReadAt
  <2>5. CASE Idle(c, kk, ending) \/ Dropped(c, kk, ending) \/ Faulty(c, kk)
    <3>1. ran'[c] = ran[c] /\ conn'[c].wbuf \in {conn[c].wbuf, NoReply}
      BY <2>3, <2>5 DEF Idle, Dropped, Faulty
    <3>2. Waiting(conn'[c]) <= Waiting(conn[c])
      BY <3>1 DEF Waiting
    <3> QED BY <1>1, <1>2, <2>4, <3>1, <3>2
  <2>6. CASE Done(c, kk, ending)
    <3>1. Len(ran'[c]) = z + 1
      <4>1. IsSeq(ran[c])
        BY DEF Sane
      <4>2. Len(Append(ran[c], SubSeq(kk.argv, 1, kk.argc))) = Len(ran[c]) + 1
        BY <4>1, AppendIs
      <4> QED BY <2>6, <4>2 DEF Done, z
    <3> QED BY <1>1, <1>2, <2>4, <3>1
  <2> QED BY <2>2, <2>5, <2>6 DEF ReadAt
<1>9. CASE WriteAt(c)
  <2>1. Waiting(conn'[c]) = 0 /\ Waiting(conn[c]) = 1
    <3>1. Written(conn[c]).wbuf = NoReply
      BY DEF Written, Sane, Waits, Formed, IsConn
    <3>2. conn[c].wbuf # NoReply
      BY <1>9 DEF WriteAt, Sane, Waits
    <3> QED BY <1>9, <3>1, <3>2 DEF WriteAt, Waiting
  <2>2. Cardinality(Full(back'[c])) \in {y, y + 1}
    <3>1. IsSeq(back[c])
      BY DEF Sane
    <3>2. Cardinality(Full(Append(back[c], conn[c].wbuf)))
            = IF conn[c].wbuf.t = "half" THEN Cardinality(Full(back[c])) ELSE Cardinality(Full(back[c])) + 1
      BY <3>1, FullAppend
    <3>3. back'[c] = back[c] \/ back'[c] = Append(back[c], conn[c].wbuf)
      BY <1>9 DEF WriteAt
    <3> QED BY <1>2, <3>2, <3>3 DEF y
  <2> QED BY <1>1, <1>2, <1>9, <2>1, <2>2 DEF WriteAt
<1>10. CASE WritePartAt(c)
  <2> DEFINE h == Half(conn[c].wbuf)
  <2>1. h.t = "half"
    BY DEF Half
  <2> HIDE DEF h
  <2>2. IsSeq(back[c])
    BY DEF Sane
  <2>3. Cardinality(Full(Append(back[c], h)))
          = IF h.t = "half" THEN Cardinality(Full(back[c])) ELSE Cardinality(Full(back[c])) + 1
    BY <2>2, FullAppend
  <2>4. Cardinality(Full(back'[c])) = y
    BY <1>10, <2>1, <2>3 DEF WritePartAt, h, y
  <2> QED BY <1>1, <1>2, <1>10, <2>4 DEF WritePartAt
<1>11. CASE WriteFailsAt(c)
  BY <1>1, <1>2, <1>11 DEF WriteFailsAt
<1> QED BY <1>4, <1>5, <1>6, <1>7, <1>8, <1>9, <1>10, <1>11 DEF Does

\* However requests are cut and answers overwritten, no answer is sent twice and
\* none without a command carried out (kvs_net.c:144-148, kvs_command.c:216).
THEOREM NoAnswerTwice == Spec => []AnswersAreEarned
<1> DEFINE Inv == \A c \in Client : Earned(c)
<1>1. Init => Inv
  <2> SUFFICES ASSUME Init, NEW c \in Client PROVE Earned(c)
    OBVIOUS
  <2>1. /\ back[c] = <<>> /\ seen[c] = <<>> /\ ran[c] = <<>> /\ conn[c] = Closed(NewClient)
    BY DEF Init
  <2>2. IsSeq(<<>>) /\ Len(<<>>) = 0
    BY EmptyIs
  <2>3. Full(<<>>) = {}
    BY <2>2, FullIs
  <2>4. conn[c].wbuf = NoReply
    BY <2>1 DEF Closed, NewClient
  <2>5. Cardinality(Full(back[c])) = 0
    BY <2>1, <2>3, FS_EmptySet
  <2>6. Len(seen[c]) = 0 /\ Len(ran[c]) = 0 /\ Waiting(conn[c]) = 0
    BY <2>1, <2>2, <2>4 DEF Waiting
  <2> QED BY <2>5, <2>6 DEF Earned
<1>2. Shape /\ Inv /\ [Next]_vars => Inv'
  <2> SUFFICES ASSUME Shape, Inv, [Next]_vars, NEW d \in Client PROVE Earned(d)'
    OBVIOUS
  <2>1. CASE Next
    <3>1. PICK c \in Client : Does(c) /\ \A e \in Client \ {c} : Same(e)
      BY <2>1, StepIsOne
    <3>2. CASE d = c
      BY <3>1, <3>2, EarnedStep DEF Shape
    <3>3. CASE d # c
      <4>1. Same(d) /\ Earned(d)
        BY <3>1, <3>3
      <4> QED BY <4>1 DEF Same, Earned
    <3> QED BY <3>2, <3>3
  <2>2. CASE UNCHANGED vars
    BY <2>2 DEF vars, Earned
  <2> QED BY <2>1, <2>2
<1>3. Shape /\ Inv => AnswersAreEarned
  <2> SUFFICES ASSUME Shape, Inv, NEW c \in Client
               PROVE  Len(seen[c]) + Cardinality({j \in DOMAIN back[c] : back[c][j].t # "half"})
                        + (IF conn[c].wbuf # NoReply THEN 1 ELSE 0) <= Len(ran[c])
    BY DEF AnswersAreEarned
  <2>1. Earned(c)
    OBVIOUS
  <2> QED BY <2>1, Zenon DEF Earned, Full, Waiting
<1> HIDE DEF Inv
<1> QED BY <1>1, <1>2, <1>3, ShapeHolds, PTL DEF Spec

-----------------------------------------------------------------------------
(* A lost place in the stream *)

LEMMA StuckStays ==
  ASSUME NEW c, Sane(c), Does(c), Stuck(c)
  PROVE  ran'[c] = ran[c] /\ (Stuck(c)' \/ ~conn'[c].open)
<1>1. CASE AcceptAt(c)
  BY <1>1 DEF AcceptAt, Sane, Stuck
<1>2. CASE conn'[c] = conn[c] /\ ran'[c] = ran[c]
  BY <1>2 DEF Stuck, Header
<1>3. CASE WriteAt(c)
  <2>1. Written(conn[c]).rbuf = conn[c].rbuf /\ Written(conn[c]).nargs = conn[c].nargs
    BY DEF Written, Sane, Waits, Formed, IsConn
  <2> QED BY <1>3, <2>1 DEF WriteAt, Stuck, Header
<1>4. CASE \E n \in Arrivals(c) : \E ending \in Endings(c, n) : \E kk : ReadAt(c, n, ending, kk)
  <2>0. PICK n \in Arrivals(c) : \E ending \in Endings(c, n) : \E kk : ReadAt(c, n, ending, kk)
    BY <1>4
  <2>1. PICK ending \in Endings(c, n) : \E kk : ReadAt(c, n, ending, kk)
    BY <2>0
  <2>2. PICK kk : ReadAt(c, n, ending, kk)
    BY <2>1
  <2> DEFINE k == Got(c, n)
             r == conn[c].rbuf
             a == SubSeq(up[c], 1, n)
  <2>3. Formed(k) /\ k.rbuf = r \o a /\ k.argc = 0 /\ k.nargs = conn[c].nargs
        /\ n \in 0..Len(up[c])
    BY GotIs
  <2>4. IsSeq(r) /\ r # <<>> /\ Len(up[c]) \in Nat
    BY AppendIs DEF Sane, Waits, Formed, IsStream, Stuck
  <2>5. IsSeq(a)
    <3>1. 1 \in 1..Len(up[c]) + 1
      BY <2>4
    <3> QED BY <2>3, <3>1, SubSeqIs DEF Sane, IsStream
  <2> HIDE DEF a, r, k
  <2>6. k.rbuf # <<>> /\ k.rbuf[1] = r[1]
    <3>1. /\ IsSeq(r \o a) /\ Len(r) \in Nat /\ Len(a) \in Nat
          /\ Len(r \o a) = Len(r) + Len(a)
          /\ \A j \in 1..Len(r) : (r \o a)[j] = r[j]
          /\ \A j \in 1..Len(a) : (r \o a)[Len(r) + j] = a[j]
      BY <2>4, <2>5, ConcatIs
    <3>2. Len(r) # 0
      BY <2>4, EmptyIs
    <3>3. Len(r \o a) # 0
      BY <3>1, <3>2
    <3>4. r \o a # <<>>
      BY <3>3, EmptyIs
    <3> QED BY <2>3, <3>1, <3>2, <3>4
  <2>7. kk \in Parsed(k)
    BY <2>2, <2>6 DEF ReadAt, k
  <2>8. k.rbuf[1].t # IF Header(k) THEN "*" ELSE "$"
    BY <2>3, <2>6 DEF Stuck, Header, r
  <2>9. kk.argc = 0 /\ kk.nargs = k.nargs /\ kk.rbuf = k.rbuf
    BY <2>3, <2>6, <2>7, <2>8, ParsedStuck, ParsedFormed
  <2>10. Idle(c, kk, ending)
    BY <2>2, <2>9 DEF ReadAt, Dropped, Faulty, Done
  <2>11. conn'[c] = kk \/ ~conn'[c].open
    <3>1. Formed(kk) /\ kk.open /\ kk.want = conn[c].want /\ kk.wbuf = conn[c].wbuf
      BY <2>2, ReadLeaves
    <3>2. Waits(kk)
      BY <2>9, <3>1 DEF Waits, Sane
    <3> QED BY <2>10, <3>2, LeftWaits DEF Idle
  <2>12. conn'[c] = kk => Stuck(c)'
    BY <2>6, <2>8, <2>9 DEF Stuck, Header
  <2> QED BY <2>10, <2>11, <2>12 DEF Idle
<1> QED BY <1>1, <1>2, <1>3, <1>4 DEF Does, ReceiveAt, LeaveAt, SendAt, WritePartAt, WriteFailsAt

\* A connection that has lost its place in the stream never finds it again
\* (kvs_net.c:64, 97).
THEOREM LostPlaceIsLost == Spec => StuckForGood
<1> DEFINE Lost == \A c \in Client : Stuck(c) => ran'[c] = ran[c] /\ (Stuck(c)' \/ ~conn'[c].open)
<1>1. Shape /\ [Next]_vars => [Lost]_vars
  <2> SUFFICES ASSUME Shape, Next, NEW d \in Client, Stuck(d)
               PROVE  ran'[d] = ran[d] /\ (Stuck(d)' \/ ~conn'[d].open)
    OBVIOUS
  <2>1. PICK c \in Client : Does(c) /\ \A e \in Client \ {c} : Same(e)
    BY StepIsOne
  <2>2. CASE d = c
    BY <2>1, <2>2, StuckStays DEF Shape
  <2>3. CASE d # c
    <3>1. Same(d)
      BY <2>1, <2>3
    <3> QED BY <3>1 DEF Same, Stuck, Header
  <2> QED BY <2>2, <2>3
<1> HIDE DEF Lost
<1>2. Spec => [][Lost]_vars
  BY <1>1, ShapeHolds, PTL DEF Spec
<1> QED BY <1>2 DEF StuckForGood, Lost

-----------------------------------------------------------------------------
(* A whole request *)

\* The parser takes the pieces of one request for its words.
LEMMA ParsedWhole ==
  ASSUME NEW r, IsSeq(r), NEW k, Formed(k), k.argc = 0, k.nargs = 0, k.rbuf = Encode(r),
         NEW kk \in Parsed(k)
  PROVE  kk.argc = Len(r) /\ kk.argv = r /\ kk.nargs = 0 /\ kk.ok = TRUE
<1>1. /\ IsStream(Encode(r)) /\ Len(r) \in Nat /\ Len(Encode(r)) = 2 + 4 * Len(r)
      /\ Encode(r)[1] = Star(Len(r)) /\ Encode(r)[2] = CRLF
      /\ \A i \in 1..4 * Len(r) : Encode(r)[2 + i].t = Kind(i)
      /\ \A g \in 1..Len(r) : Encode(r)[2 + 4 * g - 1].v = r[g]
  BY EncodeIs
<1>2. Star(Len(r)).t = "*" /\ Star(Len(r)).v = Len(r)
  BY DEF Star
<1>3. Header(k) /\ HeaderArrived(k) /\ Expected(k) = Len(r) /\ Start(k) = 2
  BY <1>1, <1>2 DEF Header, HeaderArrived, Expected, Start
<1>4. Arrived(k) = Len(r)
  <2>1. IsStream(k.rbuf) /\ k.nargs \in Nat
    BY DEF Formed
  <2>2. /\ Arrived(k) \in 0..Expected(k)
        /\ \A g \in 0..Expected(k) :
             /\ Start(k) + 4 * g <= Len(k.rbuf)
             /\ \A i \in 1..4 * g : k.rbuf[Start(k) + i].t = Kind(i)
             => g <= Arrived(k)
    BY <1>3, <2>1, ArrivedBounds
  <2>3. Len(r) <= Arrived(k)
    BY <1>1, <1>3, <2>2
  <2> QED BY <1>1, <1>3, <2>2, <2>3
<1>5. ASSUME NEW w \in Words(k) PROVE w = r
  <2>1. IsStream(k.rbuf) /\ k.nargs \in Nat /\ (Header(k) => HeaderArrived(k))
    BY <1>3 DEF Formed
  <2>2. IsSeq(w) /\ (Arrived(k) = Expected(k) => w = Whole(k))
    BY <2>1, <1>5, WordsAre
  <2>3. w = [g \in 1..Len(r) |-> Encode(r)[2 + 4 * g - 1].v]
    BY <1>3, <1>4, <2>2 DEF Whole
  <2>4. Len(w) = Len(r)
    BY <1>1, <2>3, FunctionIs
  <2>5. \A j \in 1..Len(w) : w[j] = r[j]
    BY <1>1, <2>3, <2>4
  <2> QED BY <2>2, <2>4, <2>5, SameSeq
<1>6. Filled(Vector(k), 0, r) = r
  <2> DEFINE v == Vector(k)
             f == Filled(v, 0, r)
  <2>1. v = [i \in 1..Len(r) |-> Uninit]
    BY <1>3 DEF Vector
  <2>2. Len(v) = Len(r)
    BY <1>1, <2>1, FunctionIs
  <2>3. f = [i \in 1..Len(r) |-> IF i \in 0 + 1..0 + Len(r) THEN r[i - 0] ELSE v[i]]
    BY <2>2 DEF Filled
  <2> HIDE DEF v, f
  <2>4. f = [i \in 1..Len(r) |-> f[i]]
    BY <2>3
  <2>5. IsSeq(f) /\ Len(f) = Len(r)
    BY <1>1, <2>4, FunctionIs
  <2>6. \A j \in 1..Len(f) : f[j] = r[j]
    BY <1>1, <2>3, <2>5
  <2>7. f = r
    BY <2>5, <2>6, SameSeq
  <2> QED BY <2>7 DEF v, f
<1>7. PICK w \in Words(k) : /\ kk.argc = k.argc + Len(w)
                          /\ kk.argv = Filled(Vector(k), k.argc, w)
                          /\ kk.nargs = Expected(k) - Len(w)
                          /\ kk.ok = (k.ok \/ Len(w) = Expected(k))
  BY <1>3, ParsedFormed
<1>8. w = r
  BY <1>5
<1>9. /\ kk.argc = 0 + Len(r) /\ kk.argv = Filled(Vector(k), 0, r)
      /\ kk.nargs = Len(r) - Len(r) /\ kk.ok = (k.ok \/ Len(r) = Len(r))
  BY <1>3, <1>7, <1>8
<1>10. kk.argc = Len(r) /\ kk.nargs = 0
  BY <1>1, <1>9
<1>11. kk.ok = TRUE
  BY <1>9
<1> QED BY <1>6, <1>9, <1>10, <1>11

\* A callback that finds nothing to read in an empty buffer.
LEMMA EmptyRead ==
  ASSUME NEW c, Sane(c), conn[c].rbuf = <<>>, NEW ending, NEW kk, 0 \in Arrivals(c),
         ReadAt(c, 0, ending, kk)
  PROVE  /\ Idle(c, kk, ending) /\ conn'[c].rbuf = <<>> /\ conn'[c].nargs = conn[c].nargs
         /\ up'[c] = up[c]
         /\ conn'[c].wbuf = IF ending = "eof" THEN NoReply ELSE conn[c].wbuf
<1> DEFINE k == Got(c, 0)
           a == SubSeq(up[c], 1, 0)
<1>1. /\ Formed(k) /\ k.rbuf = conn[c].rbuf \o a /\ k.argc = 0 /\ k.nargs = conn[c].nargs
      /\ k.wbuf = conn[c].wbuf /\ k.want = conn[c].want /\ k.open = conn[c].open
  BY GotIs
<1>2. IsSeq(up[c]) /\ Len(up[c]) \in Nat
  BY AppendIs DEF Sane, IsStream
<1>3. a = <<>>
  <2>1. 1 \in 1..Len(up[c]) + 1 /\ 0 \in 0..Len(up[c])
    BY <1>2
  <2>2. /\ IsSeq(a) /\ Len(up[c]) \in Nat
        /\ Len(a) = IF 1 <= 0 THEN 0 - 1 + 1 ELSE 0
        /\ \A j \in 1..0 - 1 + 1 : a[j] = up[c][1 + j - 1]
    BY <1>2, <2>1, SubSeqIs
  <2> HIDE DEF a
  <2>3. Len(a) = 0
    BY <2>2
  <2> QED BY <2>2, <2>3, EmptyIs
<1> HIDE DEF a, k
<1>4. k.rbuf = <<>>
  <2>1. IsSeq(<<>>) /\ Len(<<>>) = 0
    BY EmptyIs
  <2>2. IsSeq(<<>> \o <<>>) /\ Len(<<>> \o <<>>) = Len(<<>>) + Len(<<>>)
    BY <2>1, ConcatIs
  <2>3. Len(<<>> \o <<>>) = 0
    BY <2>1, <2>2
  <2>4. <<>> \o <<>> = <<>>
    BY <2>2, <2>3, EmptyIs
  <2> QED BY <1>1, <1>3, <2>4
<1>5. kk = k
  BY <1>4 DEF ReadAt, k
<1>6. Idle(c, kk, ending)
  BY <1>1, <1>5 DEF ReadAt, Dropped, Faulty, Done
<1>7. Waits(kk)
  BY <1>1, <1>5 DEF Waits, Sane
<1>8. /\ Left(kk, ending).nargs = kk.nargs
      /\ Left(kk, ending) = kk \/ (~Left(kk, ending).open /\ Left(kk, ending).rbuf = <<>>)
  BY <1>7, LeftWaits
<1>9. Left(kk, ending).wbuf = IF ending = "eof" THEN NoReply ELSE kk.wbuf
  BY <1>7 DEF Left, Closed, Waits, Formed, IsConn
<1>10. up'[c] = up[c]
  <2>1. up'[c] = SubSeq(up[c], 1, Len(up[c]))
    BY DEF ReadAt
  <2> QED BY <1>2, <2>1, SubSeqFull DEF IsSeq
<1> QED BY <1>1, <1>4, <1>5, <1>6, <1>8, <1>9, <1>10 DEF Idle

\* A callback that finds one request in an empty buffer.
LEMMA WholeRead ==
  ASSUME NEW c, Sane(c), conn[c].rbuf = <<>>, conn[c].nargs = 0,
         NEW n \in Arrivals(c), NEW ending, NEW kk, ReadAt(c, n, ending, kk),
         NEW r, IsSeq(r), r # <<>>, n = Len(Encode(r)), \A j \in 1..n : up[c][j] = Encode(r)[j]
  PROVE  /\ kk.argc = Len(r) /\ kk.argv = r
         /\ conn'[c].rbuf = <<>> /\ conn'[c].nargs = 0
         /\ Faulty(c, kk) \/ (Done(c, kk, ending) /\ ran'[c] = Append(ran[c], r))
         /\ Done(c, kk, ending) =>
              conn'[c].wbuf = IF ending = "eof" THEN NoReply
                              ELSE IF Execute(r, store).reply = NoReply THEN conn[c].wbuf
                              ELSE Execute(r, store).reply
<1> DEFINE k == Got(c, n)
           a == SubSeq(up[c], 1, n)
           b == conn[c].rbuf
<1>1. /\ Formed(k) /\ k.rbuf = b \o a /\ k.argc = 0 /\ k.nargs = 0
      /\ k.wbuf = conn[c].wbuf /\ k.want = conn[c].want /\ k.open = conn[c].open
      /\ n \in 0..Len(up[c])
  BY GotIs
<1>2. IsSeq(up[c]) /\ Len(up[c]) \in Nat
  BY AppendIs DEF Sane, IsStream
<1>3. IsStream(Encode(r)) /\ Len(r) \in Nat /\ Len(Encode(r)) = 2 + 4 * Len(r)
  BY EncodeIs
<1>4. IsSeq(a) /\ Len(a) = n /\ a = Encode(r)
  <2>1. 1 \in 1..Len(up[c]) + 1
    BY <1>2
  <2>2. /\ IsSeq(a) /\ Len(up[c]) \in Nat
        /\ Len(a) = IF 1 <= n THEN n - 1 + 1 ELSE 0
        /\ \A j \in 1..n - 1 + 1 : a[j] = up[c][1 + j - 1]
    BY <1>1, <1>2, <2>1, SubSeqIs
  <2> HIDE DEF a
  <2>3. Len(a) = n /\ \A j \in 1..n : a[j] = up[c][j]
    BY <1>1, <2>2
  <2>4. \A j \in 1..Len(a) : a[j] = Encode(r)[j]
    BY <2>3
  <2>5. IsSeq(Encode(r)) /\ Len(a) = Len(Encode(r))
    BY <1>3, <2>3 DEF IsStream
  <2> QED BY <2>2, <2>3, <2>4, <2>5, SameSeq
<1> HIDE DEF a, b, k
<1>5. k.rbuf = Encode(r)
  <2>1. IsSeq(b) /\ Len(b) = 0
    BY EmptyIs DEF b
  <2>2. /\ IsSeq(b \o a) /\ Len(b) \in Nat /\ Len(a) \in Nat
        /\ Len(b \o a) = Len(b) + Len(a)
        /\ \A j \in 1..Len(b) : (b \o a)[j] = b[j]
        /\ \A j \in 1..Len(a) : (b \o a)[Len(b) + j] = a[j]
    BY <1>4, <2>1, ConcatIs
  <2>3. Len(b \o a) = Len(a) /\ \A j \in 1..Len(b \o a) : (b \o a)[j] = a[j]
    BY <2>1, <2>2
  <2>4. b \o a = a
    BY <1>4, <2>2, <2>3, SameSeq
  <2> QED BY <1>1, <1>4, <2>4
<1>6. k.rbuf # <<>>
  BY <1>3, <1>5, EmptyIs
<1>7. kk \in Parsed(k)
  BY <1>6 DEF ReadAt, k
<1>8. kk.argc = Len(r) /\ kk.argv = r /\ kk.nargs = 0 /\ kk.ok = TRUE
  BY <1>1, <1>5, <1>7, ParsedWhole
<1>9. Len(r) > 0
  BY <1>3, EmptyIs
<1>10. Faulty(c, kk) \/ Done(c, kk, ending)
  BY <1>3, <1>8, <1>9 DEF ReadAt, Idle, Dropped
<1>11. Done(c, kk, ending) => ran'[c] = Append(ran[c], r)
  <2>1. SubSeq(r, 1, Len(r)) = r
    BY SubSeqFull DEF IsSeq
  <2> QED BY <1>8, <2>1 DEF Done
<1>12. Faulty(c, kk) => conn'[c] = conn[c] /\ ~Done(c, kk, ending)
  BY DEF Faulty, Done
<1>13. ASSUME Done(c, kk, ending)
       PROVE  /\ conn'[c].rbuf = <<>> /\ conn'[c].nargs = 0
              /\ conn'[c].wbuf = IF ending = "eof" THEN NoReply
                                 ELSE IF Execute(r, store).reply = NoReply THEN conn[c].wbuf
                                 ELSE Execute(r, store).reply
  <2> DEFINE e == Execute(r, store)
             x == Answering(kk, e)
             y == Cleared(x)
  <2>1. conn'[c] = Left(y, ending)
    BY <1>8, <1>13 DEF Done
  <2> HIDE DEF e, x, y
  <2>2. Formed(kk) /\ kk.open /\ kk.want = conn[c].want /\ kk.wbuf = conn[c].wbuf
    BY ReadLeaves
  <2>3. kk.want <=> kk.wbuf # NoReply
    BY <2>2 DEF Sane, Waits
  <2>4. /\ Formed(x) /\ x.open /\ (x.want <=> x.wbuf # NoReply) /\ x.nargs = kk.nargs
        /\ x.wbuf = IF e.reply = NoReply THEN kk.wbuf ELSE e.reply
    BY <2>2, <2>3, AnsweringIs DEF x
  <2>5. Waits(y) /\ y.rbuf = <<>> /\ y.nargs = x.nargs /\ y.wbuf = x.wbuf
    BY <2>4, ClearedWaits DEF y
  <2>6. /\ Left(y, ending).nargs = y.nargs
        /\ Left(y, ending) = y \/ (~Left(y, ending).open /\ Left(y, ending).rbuf = <<>>)
    BY <2>5, LeftWaits
  <2>7. Left(y, ending).wbuf = IF ending = "eof" THEN NoReply ELSE y.wbuf
    BY <2>5 DEF Left, Closed, Waits, Formed, IsConn
  <2> QED BY <1>8, <2>1, <2>2, <2>4, <2>5, <2>6, <2>7 DEF e
<1> QED BY <1>8, <1>10, <1>11, <1>12, <1>13

\* A request with as many words as its command looks at is no fault.
LEMMA EnoughIsFilled ==
  ASSUME NEW r \in Seq(Word), r # <<>>, Enough(r), NEW k, k.argc = Len(r), k.argv = r
  PROVE  Unfilled(k) = {}
<1> DEFINE m == IF Known(r[1]) THEN Reads[r[1]] ELSE 1
<1>1. Len(r) \in Nat /\ DOMAIN r = 1..Len(r) /\ \A i \in 1..Len(r) : r[i] \in Word
  BY LenProperties
<1>2. Len(r) >= 1
  BY <1>1, EmptySeq
<1>3. m \in Nat /\ m <= Len(r)
  <2>1. CASE Known(r[1])
    <3>1. r[1] \in DOMAIN Reads
      BY <2>1 DEF Known
    <3>2. Reads[r[1]] \in Nat
      BY <3>1 DEF Reads
    <3> QED BY <2>1, <3>2 DEF Enough
  <2>2. CASE ~Known(r[1])
    BY <1>2, <2>2
  <2> QED BY <2>1, <2>2
<1> HIDE DEF m
<1>4. Max({Len(r), m}) <= Len(r) /\ Max({Len(r), m}) \in Nat
  <2> DEFINE S == {Len(r), m}
  <2>1. S \subseteq 0..Len(r) /\ S # {}
    BY <1>1, <1>3
  <2> HIDE DEF S
  <2>2. Max(S) \in S
    BY <1>1, <2>1, MaxIsIn
  <2> QED BY <1>1, <1>3, <2>1, <2>2 DEF S
<1>5. Unfilled(k) = {i \in 1..Max({Len(r), m}) : i > Len(r) \/ r[i] = Uninit}
  BY Zenon DEF Unfilled, m
<1>6. \A i \in 1..Max({Len(r), m}) : i \in 1..Len(r)
  BY <1>1, <1>4
<1>7. ASSUME NEW i \in 1..Max({Len(r), m}) PROVE i <= Len(r) /\ r[i] # Uninit
  <2>1. i \in 1..Len(r)
    BY <1>6
  <2>2. r[i] \in Word
    BY <1>1, <2>1
  <2> QED BY <1>1, <2>1, <2>2, WordAssumption
<1>8. \A i \in 1..Max({Len(r), m}) : ~(i > Len(r) \/ r[i] = Uninit)
  BY <1>1, <1>7
<1> QED BY <1>5, <1>8

-----------------------------------------------------------------------------
(* Where requests end in the stream *)

\* q[i] is how much a client had written behind its ith request; of the requests
\* s it sent, p have been read, and u is what is left of the stream.
Ends(q, u, s, p) ==
  /\ q \in [0..Len(s) -> Nat] /\ p \in 0..Len(s)
  /\ \A i, j \in 0..Len(s) : i <= j => q[i] <= q[j]
  /\ \A i \in 1..Len(s) : q[i] = q[i - 1] + Len(Encode(s[i]))
  /\ Len(u) = q[Len(s)] - q[p]
  /\ \A i \in p + 1..Len(s) : \A x \in 1..Len(Encode(s[i])) :
       u[q[i - 1] + x - q[p]] = Encode(s[i])[x]

AreSeqs(s) == IsSeq(s) /\ \A i \in 1..Len(s) : IsSeq(s[i])

LEMMA Within ==
  ASSUME NEW a \in Nat, NEW b \in Nat, NEW e \in Nat, b = a + e, NEW z \in Nat, z <= a,
         NEW y \in Nat, b <= y, NEW x \in Nat, 1 <= x, x <= e
  PROVE  a + x - z \in 1..y - z
OBVIOUS

LEMMA Shifted ==
  ASSUME NEW a \in Nat, NEW x \in Nat, NEW z \in Nat, NEW n \in Nat, NEW y \in Nat, y = z + n
  PROVE  n + (a + x - y) = a + x - z
OBVIOUS

LEMMA EndsFirst == Ends([i \in {0} |-> 0], <<>>, <<>>, 0)
<1> DEFINE q == [i \in {0} |-> 0]
<1>1. Len(<<>>) = 0
  BY EmptyIs
<1>2. 0..0 = {0}
  OBVIOUS
<1>3. q \in [0..0 -> Nat] /\ q[0] = 0
  BY <1>2
<1> HIDE DEF q
<1>4. \A i, j \in 0..0 : i <= j => q[i] <= q[j]
  BY <1>2, <1>3
<1> QED BY <1>1, <1>3, <1>4 DEF Ends

\* A request is written.
LEMMA EndsSend ==
  ASSUME NEW q, NEW u, IsStream(u), NEW s, AreSeqs(s), NEW p, Ends(q, u, s, p), NEW r, IsSeq(r)
  PROVE  \E qq : Ends(qq, u \o Encode(r), Append(s, r), p)
<1> DEFINE l == Len(s)
           t == Append(s, r)
           e == Encode(r)
           v == u \o e
           z == q[l] + Len(e)
           qq == [i \in 0..l + 1 |-> IF i <= l THEN q[i] ELSE z]
<1>1. /\ IsSeq(t) /\ l \in Nat /\ Len(t) = l + 1 /\ (\A j \in 1..l : t[j] = s[j]) /\ t[l + 1] = r
  BY AppendIs DEF AreSeqs
<1>2. IsSeq(e) /\ Len(e) \in Nat
  BY EncodeIs, AppendIs DEF IsStream
<1>3. /\ IsSeq(v) /\ Len(u) \in Nat /\ Len(v) = Len(u) + Len(e)
      /\ \A j \in 1..Len(u) : v[j] = u[j]
      /\ \A j \in 1..Len(e) : v[Len(u) + j] = e[j]
  <2>1. IsSeq(u)
    BY DEF IsStream
  <2> HIDE DEF e
  <2>2. /\ IsSeq(u \o e) /\ Len(u) \in Nat /\ Len(e) \in Nat
        /\ Len(u \o e) = Len(u) + Len(e)
        /\ \A j \in 1..Len(u) : (u \o e)[j] = u[j]
        /\ \A j \in 1..Len(e) : (u \o e)[Len(u) + j] = e[j]
    BY <1>2, <2>1, ConcatIs
  <2> QED BY <2>2
<1>4. /\ q \in [0..l -> Nat] /\ p \in 0..l
      /\ \A i, j \in 0..l : i <= j => q[i] <= q[j]
      /\ \A i \in 1..l : q[i] = q[i - 1] + Len(Encode(s[i]))
      /\ Len(u) = q[l] - q[p]
      /\ \A i \in p + 1..l : \A x \in 1..Len(Encode(s[i])) :
           u[q[i - 1] + x - q[p]] = Encode(s[i])[x]
  BY DEF Ends
<1> HIDE DEF v, t, e, l
<1>5. z \in Nat
  BY <1>1, <1>2, <1>4
<1>6. /\ qq \in [0..l + 1 -> Nat] /\ qq[l + 1] = z /\ \A i \in 0..l : qq[i] = q[i]
  BY <1>1, <1>4, <1>5
<1> HIDE DEF qq
<1>7. ASSUME NEW i \in 0..l + 1, NEW j \in 0..l + 1, i <= j PROVE qq[i] <= qq[j]
  <2>1. CASE j <= l
    <3>1. i \in 0..l /\ j \in 0..l
      BY <1>1, <1>7, <2>1
    <3> QED BY <1>4, <1>6, <1>7, <3>1
  <2>2. CASE j = l + 1 /\ i <= l
    <3>1. i \in 0..l /\ l \in 0..l /\ i <= l
      BY <1>1, <2>2
    <3>2. q[i] <= q[l] /\ q[i] \in Nat /\ q[l] \in Nat
      BY <1>4, <3>1
    <3>3. qq[i] = q[i] /\ qq[j] = z
      BY <1>6, <2>2, <3>1
    <3> QED BY <1>2, <3>2, <3>3
  <2>3. CASE j = l + 1 /\ i = l + 1
    BY <1>5, <1>6, <2>3
  <2> QED BY <1>1, <1>7, <2>1, <2>2, <2>3
<1>8. ASSUME NEW i \in 1..l + 1 PROVE qq[i] = qq[i - 1] + Len(Encode(t[i]))
  <2>1. CASE i <= l
    <3>1. i \in 1..l /\ i \in 0..l /\ i - 1 \in 0..l
      BY <1>1, <2>1
    <3>2. t[i] = s[i] /\ qq[i] = q[i] /\ qq[i - 1] = q[i - 1]
      BY <1>1, <1>6, <3>1
    <3> QED BY <1>4, <3>1, <3>2
  <2>2. CASE i = l + 1
    <3>1. i - 1 = l /\ l \in 0..l
      BY <1>1, <2>2
    <3> QED BY <1>1, <1>6, <2>2, <3>1 DEF e
  <2> QED BY <1>1, <2>1, <2>2
<1>9. p \in 0..l + 1 /\ qq[p] = q[p] /\ q[p] \in Nat /\ q[l] \in Nat /\ Len(v) = qq[l + 1] - qq[p]
  BY <1>1, <1>2, <1>3, <1>4, <1>5, <1>6
<1>10. ASSUME NEW i \in p + 1..l + 1, NEW x \in 1..Len(Encode(t[i]))
       PROVE  v[qq[i - 1] + x - qq[p]] = Encode(t[i])[x]
  <2>1. CASE i <= l
    <3>1. i \in 1..l /\ i \in 0..l /\ i - 1 \in 0..l /\ i \in p + 1..l /\ p \in 0..l /\ p <= i - 1 /\ l \in 0..l
      BY <1>1, <1>4, <2>1
    <3>2. t[i] = s[i] /\ qq[i - 1] = q[i - 1]
      BY <1>1, <1>6, <3>1
    <3>3. q[i] = q[i - 1] + Len(Encode(s[i])) /\ q[p] <= q[i - 1] /\ q[i] <= q[l]
          /\ q[i] \in Nat /\ q[i - 1] \in Nat /\ q[p] \in Nat /\ q[l] \in Nat
      BY <1>1, <1>4, <3>1
    <3>4. Len(Encode(s[i])) \in Nat
      <4>1. IsSeq(s[i])
        BY <3>1 DEF AreSeqs, l
      <4>2. IsStream(Encode(s[i])) /\ Len(s[i]) \in Nat /\ Len(Encode(s[i])) = 2 + 4 * Len(s[i])
        BY <4>1, EncodeIs
      <4> QED BY <4>2
    <3>5. q[i - 1] + x - q[p] \in 1..Len(u)
      <4>1. Len(u) = q[l] - q[p]
        BY <1>4
      <4>2. x \in 1..Len(Encode(s[i]))
        BY <3>2
      <4>3. x \in Nat /\ 1 <= x /\ x <= Len(Encode(s[i]))
        BY <3>4, <4>2
      <4>4. q[i - 1] + x - q[p] \in 1..q[l] - q[p]
        BY <3>3, <3>4, <4>3, Within
      <4> QED BY <4>1, <4>4
    <3>6. u[q[i - 1] + x - q[p]] = Encode(s[i])[x]
      BY <1>4, <3>1, <3>2
    <3> QED BY <1>3, <1>9, <3>2, <3>5, <3>6
  <2>2. CASE i = l + 1
    <3>0. i - 1 = l /\ l \in 0..l
      BY <1>1, <2>2
    <3>1. i - 1 = l /\ t[i] = r /\ l \in 0..l /\ qq[l] = q[l]
      BY <1>1, <1>6, <2>2, <3>0
    <3>2. x \in 1..Len(e)
      BY <3>1 DEF e
    <3>3. qq[i - 1] + x - qq[p] = Len(u) + x
      BY <1>2, <1>3, <1>4, <1>9, <3>1, <3>2
    <3> QED BY <1>3, <3>1, <3>2, <3>3 DEF e
  <2> QED BY <1>1, <1>4, <2>1, <2>2
<1>11. Ends(qq, v, t, p)
  BY <1>1, <1>6, <1>7, <1>8, <1>9, <1>10 DEF Ends
<1> QED BY <1>11 DEF v, t, e

\* A request is read.
LEMMA EndsRead ==
  ASSUME NEW q, NEW u, IsStream(u), NEW s, AreSeqs(s), NEW p, Ends(q, u, s, p), p < Len(s)
  PROVE  /\ Len(Encode(s[p + 1])) \in 0..Len(u)
         /\ \A x \in 1..Len(Encode(s[p + 1])) : u[x] = Encode(s[p + 1])[x]
         /\ Ends(q, SubSeq(u, Len(Encode(s[p + 1])) + 1, Len(u)), s, p + 1)
<1> DEFINE l == Len(s)
           n == Len(Encode(s[p + 1]))
           m == n + 1
           v == SubSeq(u, m, Len(u))
<1>1. l \in Nat /\ IsSeq(u) /\ Len(u) \in Nat
  BY AppendIs DEF AreSeqs, IsStream
<1>2. /\ q \in [0..l -> Nat] /\ p \in 0..l
      /\ \A i, j \in 0..l : i <= j => q[i] <= q[j]
      /\ \A i \in 1..l : q[i] = q[i - 1] + Len(Encode(s[i]))
      /\ Len(u) = q[l] - q[p]
      /\ \A i \in p + 1..l : \A x \in 1..Len(Encode(s[i])) :
           u[q[i - 1] + x - q[p]] = Encode(s[i])[x]
  BY DEF Ends
<1>3. p + 1 \in 1..l /\ p + 1 \in 0..l /\ p + 1 \in p + 1..l /\ (p + 1) - 1 = p /\ l \in 0..l
  BY <1>1, <1>2
<1> HIDE DEF l
<1>4. ASSUME NEW i \in 1..l PROVE Len(Encode(s[i])) \in Nat
  <2>1. IsSeq(s[i])
    BY DEF AreSeqs, l
  <2>2. IsStream(Encode(s[i])) /\ Len(s[i]) \in Nat /\ Len(Encode(s[i])) = 2 + 4 * Len(s[i])
    BY <2>1, EncodeIs
  <2> QED BY <2>2
<1>5. n \in Nat
  BY <1>3, <1>4
<1>6. q[p + 1] = q[p] + n /\ q[p + 1] <= q[l] /\ q[p] \in Nat /\ q[p + 1] \in Nat /\ q[l] \in Nat
  BY <1>1, <1>2, <1>3
<1>7. n \in 0..Len(u)
  BY <1>1, <1>2, <1>5, <1>6
<1>8. ASSUME NEW x \in 1..n PROVE u[x] = Encode(s[p + 1])[x]
  <2>1. u[q[(p + 1) - 1] + x - q[p]] = Encode(s[p + 1])[x]
    BY <1>2, <1>3
  <2>2. q[(p + 1) - 1] + x - q[p] = x
    BY <1>3, <1>5, <1>6
  <2> QED BY <2>1, <2>2
<1> HIDE DEF n
<1>9. IsSeq(v) /\ Len(v) = Len(u) - n /\ \A j \in 1..Len(u) - n : v[j] = u[n + j]
  <2>1. m \in 1..Len(u) + 1 /\ Len(u) \in 0..Len(u)
    BY <1>1, <1>5, <1>7
  <2> HIDE DEF m
  <2>2. /\ IsSeq(SubSeq(u, m, Len(u))) /\ Len(u) \in Nat
        /\ Len(SubSeq(u, m, Len(u))) = IF m <= Len(u) THEN Len(u) - m + 1 ELSE 0
        /\ \A j \in 1..Len(u) - m + 1 : SubSeq(u, m, Len(u))[j] = u[m + j - 1]
    BY <1>1, <2>1, SubSeqIs
  <2>3. Len(v) = Len(u) - n
    BY <1>1, <1>5, <1>7, <2>2 DEF m
  <2>4. ASSUME NEW j \in 1..Len(u) - n PROVE v[j] = u[n + j]
    <3>1. j \in 1..Len(u) - m + 1 /\ m + j - 1 = n + j
      BY <1>1, <1>5 DEF m
    <3> QED BY <2>2, <3>1
  <2> QED BY <2>2, <2>3, <2>4
<1> HIDE DEF m, v
<1>10. Len(v) = q[l] - q[p + 1]
  <2>1. Len(u) = q[l] - q[p]
    BY <1>2
  <2>2. Len(v) = Len(u) - n /\ q[p + 1] = q[p] + n
    BY <1>6, <1>9
  <2> QED BY <1>5, <1>6, <2>1, <2>2
<1>11. ASSUME NEW i \in p + 2..l, NEW x \in 1..Len(Encode(s[i]))
       PROVE  v[q[i - 1] + x - q[p + 1]] = Encode(s[i])[x]
  <2>0. p \in Nat
    BY <1>1, <1>2
  <2>1. i \in p + 1..l /\ i \in 1..l /\ i \in 0..l /\ i - 1 \in 0..l /\ p + 1 <= i - 1
    BY <1>1, <2>0
  <2>2. q[i] = q[i - 1] + Len(Encode(s[i])) /\ q[p + 1] <= q[i - 1] /\ q[i] <= q[l]
        /\ q[i] \in Nat /\ q[i - 1] \in Nat
    BY <1>1, <1>2, <1>3, <2>1
  <2>3. Len(Encode(s[i])) \in Nat
    BY <1>4, <2>1
  <2>4. u[q[i - 1] + x - q[p]] = Encode(s[i])[x]
    BY <1>2, <2>1
  <2>a. x \in Nat /\ 1 <= x /\ x <= Len(Encode(s[i]))
    BY <2>3
  <2>b. Len(u) = q[l] - q[p]
    BY <1>2
  <2>5. q[i - 1] + x - q[p + 1] \in 1..Len(u) - n
    <3>1. q[i - 1] + x - q[p + 1] \in 1..q[l] - q[p + 1]
      BY <1>6, <2>2, <2>3, <2>a, Within
    <3>2. q[l] - q[p + 1] = Len(u) - n
      BY <1>5, <1>6, <2>b
    <3> QED BY <3>1, <3>2
  <2>6. n + (q[i - 1] + x - q[p + 1]) = q[i - 1] + x - q[p]
    <3>1. /\ q[i - 1] \in Nat /\ x \in Nat /\ q[p] \in Nat /\ n \in Nat /\ q[p + 1] \in Nat
          /\ q[p + 1] = q[p] + n
      BY <1>5, <1>6, <2>2, <2>a
    <3> QED BY <3>1, Shifted
  <2> QED BY <1>9, <2>4, <2>5, <2>6
<1>12. (p + 1) + 1 = p + 2
  BY <1>2
<1>13. Ends(q, v, s, p + 1)
  BY <1>2, <1>3, <1>10, <1>11, <1>12 DEF Ends, l
<1> QED BY <1>7, <1>8, <1>13 DEF n, m, v

-----------------------------------------------------------------------------
(* A client whose requests arrive whole *)

\* A reset connection whose client's last requests may be lost.
Lost(c) == up[c] = <<>> /\ peer[c] \in {"reset", "broken"}

\* Nothing is left in the buffer, and the stream goes on with a request.
Framed(c) == /\ conn[c].rbuf = <<>> /\ conn[c].nargs = 0
             /\ Lost(c) \/ \E q : Ends(q, up[c], sent[c], Len(ran[c]))

Prefixed(c) == /\ Len(ran[c]) <= Len(sent[c])
               /\ \A j \in 1..Len(ran[c]) : ran[c][j] = sent[c][j]

Line(c) == /\ \A j \in 1..Len(sent[c]) : sent[c][j] \in net.requests
           /\ ~cut[c] => Prefixed(c)
           /\ ~cut[c] /\ status = "ok" => Framed(c)

\* A callback for reading that finds one request finds the next one.
LEMMA NextRequest ==
  ASSUME net \in Nets, NEW c, Sane(c), Line(c), status = "ok", ~cut[c],
         NEW n \in Arrivals(c), n # 0, OneRequest(c, n)
  PROVE  LET p == Len(ran[c])
             r == sent[c][p + 1]
         IN /\ p \in Nat /\ p < Len(sent[c]) /\ r \in net.requests
            /\ n = Len(Encode(r)) /\ \A j \in 1..n : up[c][j] = Encode(r)[j]
            /\ \E q : Ends(q, SubSeq(up[c], n + 1, Len(up[c])), sent[c], p + 1)
<1> DEFINE u == up[c]
           s == sent[c]
           p == Len(ran[c])
           r == sent[c][p + 1]
<1>1. n \in 1..Len(u) /\ Len(u) \in Nat /\ IsStream(u) /\ IsSeq(s) /\ Len(s) \in Nat /\ p \in Nat
  BY GotIs, AppendIs DEF Sane, IsStream
<1>2. u # <<>>
  BY <1>1, EmptyIs
<1>3. PICK q : Ends(q, u, s, p)
  BY <1>2 DEF Line, Framed, Lost
<1> HIDE DEF p
<1>4. \A j \in 1..Len(s) : s[j] \in net.requests
  BY DEF Line
<1>5. AreSeqs(s)
  BY <1>1, <1>4, RequestsAre DEF AreSeqs
<1>6. u[1].t = "*" /\ n = Len(Encode([i \in 1..u[1].v |-> 0]))
  BY DEF OneRequest
<1> HIDE DEF u, s
<1>7. p < Len(s)
  <2>1. p \in 0..Len(s) /\ Len(u) = q[Len(s)] - q[p] /\ q \in [0..Len(s) -> Nat]
    BY <1>3 DEF Ends
  <2>2. p # Len(s)
    <3>1. SUFFICES ASSUME p = Len(s) PROVE FALSE
      OBVIOUS
    <3>2. q[p] \in Nat
      BY <2>1
    <3>3. Len(u) = 0
      BY <2>1, <3>1, <3>2
    <3> QED BY <1>1, <3>3
  <2> QED BY <1>1, <2>1, <2>2
<1>8. r = s[p + 1] /\ r \in net.requests /\ IsSeq(r)
  <2>1. r = s[p + 1]
    BY DEF s
  <2>2. p + 1 \in 1..Len(s)
    BY <1>1, <1>7
  <2> HIDE DEF r
  <2> QED BY <1>4, <1>5, <2>1, <2>2 DEF AreSeqs
<1> HIDE DEF r
<1>9. /\ Len(Encode(r)) \in 0..Len(u)
      /\ \A x \in 1..Len(Encode(r)) : u[x] = Encode(r)[x]
      /\ Ends(q, SubSeq(u, Len(Encode(r)) + 1, Len(u)), s, p + 1)
  <2>1. IsStream(u) /\ AreSeqs(s) /\ Ends(q, u, s, p) /\ p < Len(s)
    BY <1>1, <1>3, <1>5, <1>7
  <2>2. /\ Len(Encode(s[p + 1])) \in 0..Len(u)
        /\ \A x \in 1..Len(Encode(s[p + 1])) : u[x] = Encode(s[p + 1])[x]
        /\ Ends(q, SubSeq(u, Len(Encode(s[p + 1])) + 1, Len(u)), s, p + 1)
    BY <2>1, EndsRead
  <2> QED BY <1>8, <2>2
<1>10. /\ Len(r) \in Nat /\ Len(Encode(r)) = 2 + 4 * Len(r) /\ Encode(r)[1] = Star(Len(r))
  BY <1>8, EncodeIs
<1>11. u[1].v = Len(r)
  <2>1. 1 \in 1..Len(Encode(r))
    BY <1>10
  <2> QED BY <1>9, <1>10, <2>1 DEF Star
<1>12. n = Len(Encode(r))
  <2> DEFINE z == [i \in 1..Len(r) |-> 0]
  <2>1. IsSeq(z) /\ Len(z) = Len(r)
    BY <1>10, FunctionIs
  <2> HIDE DEF z
  <2>2. Len(Encode(z)) = 2 + 4 * Len(z)
    BY <2>1, EncodeIs
  <2>3. n = Len(Encode(z))
    BY <1>6, <1>11 DEF z
  <2> QED BY <1>10, <2>1, <2>2, <2>3
<1> QED BY <1>1, <1>7, <1>8, <1>9, <1>12 DEF u, s, p, r

\* The fault of a client is that a request has too few words.
TooFew(c) == cut[c] \/ \E i \in DOMAIN sent[c] : ~Enough(sent[c][i])

LEMMA LineReads ==
  ASSUME net \in Nets, NEW c, Sane(c), Line(c), status = "ok",
         NEW n \in Arrivals(c), NEW ending \in Endings(c, n), NEW kk, ReadAt(c, n, ending, kk),
         ~cut'[c]
  PROVE  /\ Prefixed(c)' /\ (status' = "ok" => Framed(c)')
         /\ status' = "fault" => \E i \in DOMAIN sent[c] : ~Enough(sent[c][i])
<1>1. ~cut[c] /\ OneRequest(c, n) /\ sent'[c] = sent[c]
  BY DEF ReadAt, Sane
<1>2. Prefixed(c) /\ Framed(c) /\ conn[c].rbuf = <<>> /\ conn[c].nargs = 0
  BY <1>1 DEF Line, Framed
<1>3. CASE n = 0
  <2>1. Idle(c, kk, ending) /\ conn'[c].rbuf = <<>> /\ conn'[c].nargs = 0 /\ up'[c] = up[c]
    BY <1>2, <1>3, EmptyRead
  <2>2. ran'[c] = ran[c] /\ status' = status
    BY <2>1 DEF Idle
  <2>3. Lost(c) => Lost(c)'
    BY <2>1 DEF Lost, ReadAt
  <2> QED BY <1>1, <1>2, <2>1, <2>2, <2>3 DEF Framed, Prefixed
<1>4. CASE n # 0
  <2> DEFINE p == Len(ran[c])
             r == sent[c][p + 1]
  <2>1. /\ p \in Nat /\ p < Len(sent[c]) /\ r \in net.requests
        /\ n = Len(Encode(r)) /\ \A j \in 1..n : up[c][j] = Encode(r)[j]
        /\ \E q : Ends(q, SubSeq(up[c], n + 1, Len(up[c])), sent[c], p + 1)
    BY <1>1, <1>4, NextRequest
  <2>2. IsSeq(r) /\ r # <<>> /\ r \in Seq(Word)
    BY <2>1, RequestsAre, RequestAssumption DEF Request
  <2> HIDE DEF r
  <2>3. /\ kk.argc = Len(r) /\ kk.argv = r
        /\ conn'[c].rbuf = <<>> /\ conn'[c].nargs = 0
        /\ Faulty(c, kk) \/ (Done(c, kk, ending) /\ ran'[c] = Append(ran[c], r))
    BY <1>2, <2>1, <2>2, WholeRead
  <2>4. CASE Faulty(c, kk)
    <3>1. ran'[c] = ran[c] /\ status' = "fault" /\ Unfilled(kk) # {}
      BY <2>4 DEF Faulty
    <3>2. ~Enough(r)
      BY <2>2, <2>3, <3>1, EnoughIsFilled
    <3>3. p + 1 \in DOMAIN sent[c]
      <4>1. IsSeq(sent[c])
        BY DEF Sane
      <4>2. DOMAIN sent[c] = 1..Len(sent[c]) /\ Len(sent[c]) \in Nat
        BY <4>1, AppendIs
      <4> QED BY <2>1, <4>2
    <3> QED BY <1>1, <1>2, <3>1, <3>2, <3>3 DEF Prefixed, r
  <2>5. CASE Done(c, kk, ending)
    <3>1. status' = status /\ ran'[c] = Append(ran[c], r)
      BY <2>3, <2>5 DEF Done, Faulty
    <3>2. IsSeq(ran[c])
      BY DEF Sane
    <3>3. /\ Len(Append(ran[c], r)) = Len(ran[c]) + 1
          /\ \A j \in 1..Len(ran[c]) : Append(ran[c], r)[j] = ran[c][j]
          /\ Append(ran[c], r)[Len(ran[c]) + 1] = r
      BY <3>2, AppendIs
    <3>4. Prefixed(c)'
      <4>1. Len(ran'[c]) = p + 1 /\ p + 1 <= Len(sent'[c])
        <5>1. IsSeq(sent[c])
          BY DEF Sane
        <5>2. Len(sent[c]) \in Nat
          BY <5>1, AppendIs
        <5> QED BY <1>1, <2>1, <3>1, <3>3, <5>2
      <4>2. ASSUME NEW j \in 1..p + 1 PROVE ran'[c][j] = sent'[c][j]
        <5>1. j \in 1..p \/ j = p + 1
          BY <2>1
        <5> QED BY <1>1, <1>2, <3>1, <3>3, <5>1 DEF Prefixed, r
      <4> QED BY <4>1, <4>2 DEF Prefixed
    <3>5. up'[c] = SubSeq(up[c], n + 1, Len(up[c]))
      BY DEF ReadAt
    <3>6. Len(ran'[c]) = p + 1
      BY <3>1, <3>3
    <3>7. \E q : Ends(q, up'[c], sent'[c], Len(ran'[c]))
      BY <1>1, <2>1, <3>5, <3>6
    <3>8. Framed(c)'
      BY <2>3, <3>7 DEF Framed
    <3> QED BY <3>1, <3>4, <3>8
  <2> QED BY <2>3, <2>4, <2>5
<1> QED BY <1>3, <1>4

LEMMA LineStep ==
  ASSUME net \in Nets, net' = net, NEW c, Sane(c), Line(c), status = "ok", Does(c)
  PROVE  Line(c)' /\ (status' = "fault" => TooFew(c)')
<1>1. \A j \in 1..Len(sent[c]) : sent[c][j] \in net.requests
  BY DEF Line
<1>2. cut[c] \in BOOLEAN /\ IsSeq(sent[c]) /\ IsSeq(ran[c]) /\ Len(sent[c]) \in Nat /\ Len(ran[c]) \in Nat
  BY AppendIs DEF Sane
<1>3. ~cut[c] => Prefixed(c) /\ Framed(c)
  BY <1>2 DEF Line
<1>4. CASE AcceptAt(c)
  <2>1. /\ up'[c] = up[c] /\ sent'[c] = sent[c] /\ ran'[c] = ran[c] /\ cut'[c] = cut[c]
        /\ peer[c] = "away" /\ status' = status
        /\ conn'[c].rbuf = <<>> /\ conn'[c].nargs = 0
    BY <1>4 DEF AcceptAt, NewClient
  <2>2. ~cut'[c] => Prefixed(c)' /\ Framed(c)'
    BY <1>3, <2>1 DEF Prefixed, Framed, Lost
  <2> QED BY <1>1, <2>1, <2>2 DEF Line
<1>5. CASE ReceiveAt(c) \/ WriteAt(c) \/ WriteFailsAt(c)
  <2>1. /\ up'[c] = up[c] /\ sent'[c] = sent[c] /\ ran'[c] = ran[c] /\ cut'[c] = cut[c]
        /\ Lost(c) => Lost(c)'
        /\ status' # "fault"
    BY <1>5 DEF ReceiveAt, WriteAt, WriteFailsAt, Lost
  <2>2. conn'[c].rbuf = conn[c].rbuf /\ conn'[c].nargs = conn[c].nargs
    <3>1. Written(conn[c]).rbuf = conn[c].rbuf /\ Written(conn[c]).nargs = conn[c].nargs
      BY DEF Written, Sane, Waits, Formed, IsConn
    <3> QED BY <1>5, <3>1 DEF ReceiveAt, WriteAt, WriteFailsAt
  <2>3. ~cut'[c] => Prefixed(c)' /\ Framed(c)'
    BY <1>3, <2>1, <2>2 DEF Prefixed, Framed
  <2> QED BY <1>1, <2>1, <2>3 DEF Line
<1>6. CASE LeaveAt(c)
  <2>1. /\ sent'[c] = sent[c] /\ ran'[c] = ran[c] /\ cut'[c] = cut[c] /\ conn'[c] = conn[c]
        /\ peer[c] = "here" /\ status' = status
        /\ up'[c] = up[c] \/ Lost(c)'
    BY <1>6 DEF LeaveAt, Lost
  <2>2. ~cut'[c] => Prefixed(c)' /\ Framed(c)'
    BY <1>3, <2>1 DEF Prefixed, Framed, Lost
  <2> QED BY <1>1, <2>1, <2>2 DEF Line
<1>7. CASE \E r \in net.requests : SendAt(c, r)
  <2>1. PICK r \in net.requests : SendAt(c, r)
    BY <1>7
  <2>2. /\ sent'[c] = Append(sent[c], r) /\ up'[c] = up[c] \o Encode(r)
        /\ conn'[c] = conn[c] /\ ran'[c] = ran[c] /\ cut'[c] = cut[c]
        /\ peer[c] = "here" /\ status' = status
    BY <2>1 DEF SendAt
  <2>3. /\ Len(Append(sent[c], r)) = Len(sent[c]) + 1
        /\ \A j \in 1..Len(sent[c]) : Append(sent[c], r)[j] = sent[c][j]
        /\ Append(sent[c], r)[Len(sent[c]) + 1] = r
    BY <1>2, AppendIs
  <2>4. ASSUME NEW j \in 1..Len(sent'[c]) PROVE sent'[c][j] \in net.requests
    <3>1. j \in 1..Len(sent[c]) \/ j = Len(sent[c]) + 1
      BY <1>2, <2>2, <2>3
    <3> QED BY <1>1, <2>2, <2>3, <3>1
  <2>5. ~cut'[c] => Prefixed(c)'
    <3> SUFFICES ASSUME ~cut[c] PROVE Prefixed(c)'
      BY <2>2
    <3>1. Len(ran[c]) <= Len(sent[c]) /\ \A j \in 1..Len(ran[c]) : ran[c][j] = sent[c][j]
      BY <1>3 DEF Prefixed
    <3>2. \A j \in 1..Len(ran[c]) : j \in 1..Len(sent[c])
      BY <1>2, <3>1
    <3>3. Len(ran'[c]) <= Len(sent'[c])
      BY <1>2, <2>2, <2>3, <3>1
    <3>4. \A j \in 1..Len(ran'[c]) : ran'[c][j] = sent'[c][j]
      BY <2>2, <2>3, <3>1, <3>2
    <3> QED BY <3>3, <3>4 DEF Prefixed
  <2>6. ~cut'[c] => Framed(c)'
    <3> SUFFICES ASSUME ~cut[c] PROVE Framed(c)'
      BY <2>2
    <3> DEFINE u == up[c]
               s == sent[c]
               p == Len(ran[c])
    <3>1. PICK q : Ends(q, u, s, p)
      BY <1>3, <2>2 DEF Framed, Lost
    <3>2. IsStream(u) /\ IsSeq(r)
      BY RequestsAre DEF Sane
    <3>3. AreSeqs(s)
      BY <1>1, <1>2, RequestsAre DEF AreSeqs
    <3> HIDE DEF u, s, p
    <3>4. \E qq : Ends(qq, u \o Encode(r), Append(s, r), p)
      BY <3>1, <3>2, <3>3, EndsSend
    <3>5. \E qq : Ends(qq, up'[c], sent'[c], Len(ran'[c]))
      BY <2>2, <3>4 DEF u, s, p
    <3> QED BY <1>3, <2>2, <3>5 DEF Framed
  <2> QED BY <2>2, <2>4, <2>5, <2>6 DEF Line
<1>8. CASE \E n \in Arrivals(c) : \E ending \in Endings(c, n) : \E kk : ReadAt(c, n, ending, kk)
  <2>0. PICK n \in Arrivals(c) : \E ending \in Endings(c, n) : \E kk : ReadAt(c, n, ending, kk)
    BY <1>8
  <2>1. PICK ending \in Endings(c, n) : \E kk : ReadAt(c, n, ending, kk)
    BY <2>0
  <2>2. PICK kk : ReadAt(c, n, ending, kk)
    BY <2>1
  <2>3. ~cut'[c] => /\ Prefixed(c)' /\ (status' = "ok" => Framed(c)')
                    /\ status' = "fault" => \E i \in DOMAIN sent[c] : ~Enough(sent[c][i])
    BY <2>2, LineReads
  <2>4. sent'[c] = sent[c]
    BY <2>2 DEF ReadAt
  <2> QED BY <1>1, <2>3, <2>4 DEF Line, TooFew
<1>9. CASE WritePartAt(c)
  BY <1>1, <1>9 DEF WritePartAt, Line
<1> QED BY <1>4, <1>5, <1>6, <1>7, <1>8, <1>9 DEF Does

\* Every client keeps its place while its requests arrive whole, and a fault has
\* one that does not.
Lines == /\ \A c \in Client : Line(c)
         /\ status = "fault" => \E c \in Client : TooFew(c)

LEMMA LinesHold == Spec => []Lines
<1>1. Init => Lines
  <2> SUFFICES ASSUME Init PROVE Lines
    OBVIOUS
  <2>1. status = "ok"
    BY DEF Init
  <2>2. ASSUME NEW c \in Client PROVE Line(c)
    <3>1. /\ conn[c] = Closed(NewClient) /\ up[c] = <<>> /\ sent[c] = <<>> /\ ran[c] = <<>>
      BY DEF Init
    <3>2. conn[c].rbuf = <<>> /\ conn[c].nargs = 0
      BY <3>1 DEF Closed, NewClient
    <3>3. Len(<<>>) = 0
      BY EmptyIs
    <3>4. \E q : Ends(q, up[c], sent[c], Len(ran[c]))
      BY <3>1, <3>3, EndsFirst
    <3>5. Framed(c) /\ Prefixed(c)
      BY <3>1, <3>2, <3>3, <3>4 DEF Framed, Prefixed
    <3> QED BY <3>1, <3>3, <3>5 DEF Line
  <2> QED BY <2>1, <2>2 DEF Lines
<1>2. Shape /\ Lines /\ [Next]_vars => Lines'
  <2> SUFFICES ASSUME Shape, Lines, [Next]_vars PROVE Lines'
    OBVIOUS
  <2>1. CASE Next
    <3>1. PICK c \in Client : Does(c) /\ \A e \in Client \ {c} : Same(e)
      BY <2>1, StepIsOne
    <3>2. net' = net /\ status = "ok" /\ net \in Nets
      BY <2>1, StepIsOne DEF Shape
    <3>3. Line(c)' /\ (status' = "fault" => TooFew(c)')
      BY <3>1, <3>2, LineStep DEF Shape, Lines
    <3>4. ASSUME NEW d \in Client, d # c PROVE Line(d)'
      <4>1. Same(d) /\ Line(d)
        BY <3>1, <3>4 DEF Lines
      <4> QED BY <3>2, <4>1 DEF Same, Line, Prefixed, Framed, Lost
    <3> QED BY <3>3, <3>4 DEF Lines
  <2>2. CASE UNCHANGED vars
    BY <2>2 DEF vars, Lines, Line, Prefixed, Framed, Lost, TooFew
  <2> QED BY <2>1, <2>2
<1> QED BY <1>1, <1>2, ShapeHolds, PTL DEF Spec

\* Whatever happens on other connections, a client whose requests arrive whole
\* has exactly these carried out, each once and in order (kvs_net.c:187-195).
THEOREM RunsWhatWasSent == Spec => []UncutRunAsSent
<1>1. Shape /\ Lines => UncutRunAsSent
  <2> SUFFICES ASSUME Shape, Lines, NEW c \in Client, ~cut[c] PROVE IsPrefix(ran[c], sent[c])
    BY DEF UncutRunAsSent
  <2> DEFINE s == ran[c]
             t == sent[c]
             a == SubSeq(s, 1, Len(s))
             b == SubSeq(t, 1, Len(s))
  <2>1. /\ IsSeq(s) /\ IsSeq(t) /\ Len(s) \in Nat /\ Len(t) \in Nat
        /\ Len(s) <= Len(t) /\ \A j \in 1..Len(s) : s[j] = t[j]
    BY AppendIs DEF Shape, Sane, Lines, Line, Prefixed
  <2> HIDE DEF s, t
  <2>2. a = s
    BY <2>1, SubSeqFull DEF IsSeq
  <2>3. IsSeq(b) /\ Len(b) = Len(s) /\ \A j \in 1..Len(s) : b[j] = t[j]
    <3>1. 1 \in 1..Len(t) + 1 /\ Len(s) \in 0..Len(t)
      BY <2>1
    <3>2. /\ IsSeq(SubSeq(t, 1, Len(s))) /\ Len(t) \in Nat
          /\ Len(SubSeq(t, 1, Len(s))) = IF 1 <= Len(s) THEN Len(s) - 1 + 1 ELSE 0
          /\ \A j \in 1..Len(s) - 1 + 1 : SubSeq(t, 1, Len(s))[j] = t[1 + j - 1]
      BY <2>1, <3>1, SubSeqIs
    <3> HIDE DEF b
    <3>3. /\ IsSeq(b) /\ Len(b) = IF 1 <= Len(s) THEN Len(s) - 1 + 1 ELSE 0
          /\ \A j \in 1..Len(s) - 1 + 1 : b[j] = t[1 + j - 1]
      BY <3>2 DEF b
    <3> QED BY <2>1, <3>3
  <2> HIDE DEF a, b
  <2>4. s = b
    BY <2>1, <2>3, SameSeq
  <2> QED BY <2>1, <2>2, <2>4 DEF IsPrefix, a, b, s, t
<1> QED BY <1>1, ShapeHolds, LinesHold, PTL

-----------------------------------------------------------------------------
(* Orderly clients *)

\* At most one request of the client is without an answer: it is on its way, or
\* its answer waits in the connection or is on its way back.
Tidy(c) ==
  /\ ~cut[c] /\ conn[c].rbuf = <<>> /\ conn[c].nargs = 0
  /\ Len(seen[c]) <= Len(sent[c])
  /\ up[c] # <<>> =>
       /\ Len(sent[c]) = Len(seen[c]) + 1 /\ conn[c].wbuf = NoReply /\ back[c] = <<>>
       /\ Last(sent[c]) \in net.requests /\ up[c] = Encode(Last(sent[c]))
  /\ conn[c].wbuf # NoReply =>
       Len(sent[c]) = Len(seen[c]) + 1 /\ conn[c].wbuf.t # "half" /\ back[c] = <<>>
  /\ back[c] # <<>> =>
       /\ Len(sent[c]) = Len(seen[c]) + 1 /\ Len(back[c]) = 1
       /\ back[c][1] # NoReply /\ back[c][1].t # "half"
  /\ peer[c] \in {"away", "reset", "broken"} =>
       up[c] = <<>> /\ conn[c].wbuf = NoReply /\ back[c] = <<>>

\* The client in the abstract specification.
AskOf(c)  == IF up[c] = <<>> THEN <<>> ELSE Last(sent[c])
HereOf(c) == peer[c] = "here"
AnsOf(c)  == IF peer[c] # "here" THEN NoReply
             ELSE IF back[c] # <<>> THEN back[c][1] ELSE conn[c].wbuf

ComeAt(c) == /\ ~HereOf(c) /\ AskOf(c) = <<>> /\ HereOf(c)' = TRUE
             /\ AskOf(c)' = AskOf(c) /\ AnsOf(c)' = AnsOf(c) /\ store' = store
AskAt(c, r) == /\ HereOf(c) /\ AskOf(c) = <<>> /\ AnsOf(c) = NoReply /\ AskOf(c)' = r
               /\ HereOf(c)' = HereOf(c) /\ AnsOf(c)' = AnsOf(c) /\ store' = store
DoAt(c) == /\ AskOf(c) # <<>> /\ AskOf(c)' = <<>> /\ HereOf(c)' = HereOf(c)
           /\ store' = Execute(AskOf(c), store).store
           /\ AnsOf(c)' = IF HereOf(c) THEN Execute(AskOf(c), store).reply ELSE NoReply
TakeAt(c) == /\ AnsOf(c) # NoReply /\ AnsOf(c)' = NoReply
             /\ HereOf(c)' = HereOf(c) /\ AskOf(c)' = AskOf(c) /\ store' = store
GoAt(c) == /\ HereOf(c) /\ HereOf(c)' = FALSE /\ AnsOf(c)' = NoReply
           /\ AskOf(c)' = AskOf(c) /\ store' = store
RestAt(c) == /\ HereOf(c)' = HereOf(c) /\ AskOf(c)' = AskOf(c) /\ AnsOf(c)' = AnsOf(c)
             /\ store' = store
KvAt(c) == \/ ComeAt(c) \/ DoAt(c) \/ TakeAt(c) \/ GoAt(c) \/ RestAt(c)
           \/ \E r \in net.requests : AskAt(c, r)

LEMMA TidyReads ==
  ASSUME net \in Nets, net' = net, Orderly, NEW c, Sane(c), Tidy(c), status = "ok",
         NEW n \in Arrivals(c), NEW ending \in Endings(c, n), NEW kk, ReadAt(c, n, ending, kk)
  PROVE  Tidy(c)' /\ status' = "ok" /\ (DoAt(c) \/ RestAt(c))
<1>1. n = Len(up[c]) /\ Len(up[c]) \in Nat /\ IsSeq(up[c])
  BY AppendIs DEF Arrivals, Orderly, Sane, IsStream
<1>2. /\ conn[c].rbuf = <<>> /\ conn[c].nargs = 0 /\ ~cut[c]
      /\ back'[c] = back[c] /\ sent'[c] = sent[c] /\ seen'[c] = seen[c]
      /\ peer'[c] = IF ending = "error" THEN "broken" ELSE peer[c]
      /\ cut'[c] = (cut[c] \/ ~OneRequest(c, n))
  BY DEF Tidy, ReadAt
<1>3. /\ ending = "eof" => peer[c] \in {"left", "broken"}
      /\ ending = "error" => peer[c] = "reset"
  BY DEF Endings
<1>4. CASE up[c] = <<>>
  <2>1. n = 0
    BY <1>1, <1>4, EmptyIs
  <2>2. /\ Idle(c, kk, ending) /\ conn'[c].rbuf = <<>> /\ conn'[c].nargs = conn[c].nargs
        /\ up'[c] = up[c]
        /\ conn'[c].wbuf = IF ending = "eof" THEN NoReply ELSE conn[c].wbuf
    BY <1>2, <2>1, EmptyRead
  <2>3. ~cut'[c]
    BY <1>2, <2>1 DEF OneRequest
  <2>4. status' = "ok" /\ store' = store
    BY <2>2 DEF Idle
  <2>5. Tidy(c)'
    BY <1>2, <1>3, <1>4, <2>2, <2>3 DEF Tidy
  <2>6. RestAt(c)
    BY <1>2, <1>3, <1>4, <2>2, <2>4 DEF RestAt, HereOf, AskOf, AnsOf
  <2> QED BY <2>4, <2>5, <2>6
<1>5. CASE up[c] # <<>>
  <2> DEFINE r == Last(sent[c])
  <2>1. /\ Len(sent[c]) = Len(seen[c]) + 1 /\ conn[c].wbuf = NoReply /\ back[c] = <<>>
        /\ r \in net.requests /\ up[c] = Encode(r)
        /\ peer[c] \notin {"away", "reset", "broken"}
    BY <1>5 DEF Tidy
  <2> HIDE DEF r
  <2>2. IsSeq(r) /\ r # <<>> /\ r \in Seq(Word) /\ Enough(r)
    BY <2>1, RequestsAre, RequestAssumption DEF Request, Orderly
  <2>3. n = Len(Encode(r)) /\ \A j \in 1..n : up[c][j] = Encode(r)[j]
    BY <1>1, <2>1
  <2>4. /\ kk.argc = Len(r) /\ kk.argv = r
        /\ conn'[c].rbuf = <<>> /\ conn'[c].nargs = 0
        /\ Faulty(c, kk) \/ (Done(c, kk, ending) /\ ran'[c] = Append(ran[c], r))
        /\ Done(c, kk, ending) =>
             conn'[c].wbuf = IF ending = "eof" THEN NoReply
                             ELSE IF Execute(r, store).reply = NoReply THEN conn[c].wbuf
                             ELSE Execute(r, store).reply
    BY <1>2, <2>2, <2>3, WholeRead
  <2>5. Unfilled(kk) = {}
    BY <2>2, <2>4, EnoughIsFilled
  <2>6. Done(c, kk, ending)
    BY <2>4, <2>5 DEF Faulty
  <2> DEFINE e == Execute(r, store)
  <2>7. /\ conn'[c].wbuf = IF ending = "eof" THEN NoReply ELSE e.reply
        /\ store' = e.store /\ status' = "ok"
    BY <2>1, <2>4, <2>6 DEF Done
  <2>8. e.reply.t # "half"
    BY RepliesAreWhole
  <2> HIDE DEF e
  <2>9. up'[c] = <<>>
    <3> DEFINE u == up[c]
               a == SubSeq(u, n + 1, Len(u))
    <3>1. n + 1 \in 1..Len(u) + 1 /\ Len(u) \in 0..Len(u) /\ IsSeq(u) /\ ~(n + 1 <= Len(u))
      BY <1>1
    <3> HIDE DEF u
    <3>2. /\ IsSeq(a) /\ Len(u) \in Nat
          /\ Len(a) = IF n + 1 <= Len(u) THEN Len(u) - (n + 1) + 1 ELSE 0
          /\ \A j \in 1..Len(u) - (n + 1) + 1 : a[j] = u[n + 1 + j - 1]
      BY <3>1, SubSeqIs
    <3> HIDE DEF a
    <3>3. a = <<>>
      BY <3>1, <3>2, EmptyIs
    <3> QED BY <3>3 DEF ReadAt, a, u
  <2>10. ~cut'[c]
    <3>1. /\ Len(r) \in Nat /\ Len(Encode(r)) = 2 + 4 * Len(r) /\ Encode(r)[1] = Star(Len(r))
      BY <2>2, EncodeIs
    <3> DEFINE z == [i \in 1..Len(r) |-> 0]
    <3>2. IsSeq(z) /\ Len(z) = Len(r)
      BY <3>1, FunctionIs
    <3>3. up[c][1].t = "*" /\ up[c][1].v = Len(r)
      BY <2>1, <3>1 DEF Star
    <3>4. [i \in 1..up[c][1].v |-> 0] = z
      BY <3>3
    <3> HIDE DEF z
    <3>5. Len(Encode(z)) = 2 + 4 * Len(z)
      BY <3>2, EncodeIs
    <3>6. OneRequest(c, n)
      BY <2>3, <3>1, <3>2, <3>3, <3>4, <3>5 DEF OneRequest
    <3> QED BY <1>2, <3>6
  <2>11. Tidy(c)'
    BY <1>2, <1>3, <2>1, <2>4, <2>7, <2>8, <2>9, <2>10 DEF Tidy
  <2>12. DoAt(c)
    <3>1. AskOf(c) = r /\ AskOf(c)' = <<>>
      BY <1>5, <2>9 DEF AskOf, r
    <3>2. HereOf(c)' = HereOf(c) /\ (HereOf(c) => ending # "eof")
      BY <1>2, <1>3 DEF HereOf
    <3>3. AnsOf(c)' = IF HereOf(c) THEN e.reply ELSE NoReply
      BY <1>2, <2>1, <2>7, <3>2 DEF AnsOf, HereOf
    <3> QED BY <2>2, <2>7, <3>1, <3>2, <3>3 DEF DoAt, e
  <2> QED BY <2>7, <2>11, <2>12
<1> QED BY <1>4, <1>5

LEMMA EmptyConcat == ASSUME NEW s, IsSeq(s) PROVE <<>> \o s = s
<1> DEFINE e == <<>>
<1>1. IsSeq(e) /\ Len(e) = 0
  BY EmptyIs
<1> HIDE DEF e
<1>2. /\ IsSeq(e \o s) /\ Len(e) \in Nat /\ Len(s) \in Nat
      /\ Len(e \o s) = Len(e) + Len(s)
      /\ \A j \in 1..Len(e) : (e \o s)[j] = e[j]
      /\ \A j \in 1..Len(s) : (e \o s)[Len(e) + j] = s[j]
  BY <1>1, ConcatIs
<1>3. Len(e \o s) = Len(s) /\ \A j \in 1..Len(e \o s) : (e \o s)[j] = s[j]
  BY <1>1, <1>2
<1>4. e \o s = s
  BY <1>2, <1>3, SameSeq
<1> QED BY <1>4 DEF e

LEMMA NoneOut == ASSUME NEW a \in Nat, NEW b \in Nat, b <= a, a - b < 1 PROVE a = b
OBVIOUS

LEMMA TidyStep ==
  ASSUME net \in Nets, net' = net, Orderly, NEW c, Sane(c), Tidy(c), status = "ok", Does(c)
  PROVE  Tidy(c)' /\ status' = "ok" /\ KvAt(c)
<1>1. /\ IsSeq(sent[c]) /\ IsSeq(seen[c]) /\ IsSeq(back[c])
      /\ Len(sent[c]) \in Nat /\ Len(seen[c]) \in Nat /\ cut[c] = FALSE
  BY AppendIs DEF Sane, Tidy
<1>2. conn[c].want => conn[c].wbuf # NoReply
  BY DEF Sane, Waits
<1>3. CASE AcceptAt(c)
  <2>1. NewClient.rbuf = <<>> /\ NewClient.nargs = 0 /\ NewClient.wbuf = NoReply
    BY DEF NewClient
  <2>2. /\ up[c] = <<>> /\ conn[c].wbuf = NoReply /\ back[c] = <<>> /\ peer[c] = "away"
        /\ up'[c] = up[c] /\ back'[c] = back[c] /\ sent'[c] = sent[c] /\ seen'[c] = seen[c]
        /\ cut'[c] = cut[c] /\ conn'[c] = NewClient /\ peer'[c] = "here"
        /\ store' = store /\ status' = "ok"
    BY <1>3 DEF AcceptAt, Tidy
  <2>3. Tidy(c)'
    BY <1>1, <2>1, <2>2 DEF Tidy
  <2>4. ComeAt(c)
    BY <2>1, <2>2 DEF ComeAt, HereOf, AskOf, AnsOf
  <2> QED BY <2>2, <2>3, <2>4 DEF KvAt
<1>4. CASE ReceiveAt(c)
  <2> DEFINE b == back[c]
  <2>1. /\ b # <<>> /\ Len(sent[c]) = Len(seen[c]) + 1 /\ Len(b) = 1
        /\ b[1] # NoReply /\ b[1].t # "half"
        /\ up[c] = <<>> /\ conn[c].wbuf = NoReply
    BY <1>4 DEF ReceiveAt, Tidy
  <2>2. IsSeq(Tail(b)) /\ Len(Tail(b)) = Len(b) - 1 /\ Head(b) = b[1]
    <3> HIDE DEF b
    <3>1. IsSeq(b)
      BY <1>1 DEF b
    <3> QED BY <2>1, <3>1, TailIs
  <2>3. Tail(b) = <<>>
    <3> HIDE DEF b
    <3>1. Len(Tail(b)) = 0
      BY <2>1, <2>2
    <3> QED BY <2>2, <3>1, EmptyIs
  <2>4. /\ back'[c] = <<>> /\ peer[c] = "here" /\ seen'[c] = Append(seen[c], Head(b))
        /\ conn'[c] = conn[c] /\ peer'[c] = peer[c] /\ up'[c] = up[c] /\ sent'[c] = sent[c]
        /\ cut'[c] = cut[c] /\ store' = store /\ status' = "ok"
    BY <1>4, <2>1, <2>2, <2>3 DEF ReceiveAt
  <2>5. Len(Append(seen[c], Head(b))) = Len(seen[c]) + 1
    <3> HIDE DEF b
    <3> QED BY <1>1, AppendIs
  <2>6. Len(seen'[c]) = Len(sent'[c])
    BY <2>1, <2>4, <2>5
  <2>7. Tidy(c)'
    BY <1>1, <2>1, <2>4, <2>6 DEF Tidy
  <2>8. TakeAt(c)
    BY <2>1, <2>4 DEF TakeAt, HereOf, AskOf, AnsOf
  <2> QED BY <2>4, <2>7, <2>8 DEF KvAt
<1>5. CASE LeaveAt(c)
  <2>1. /\ peer[c] = "here" /\ back'[c] = <<>> /\ up'[c] = up[c]
        /\ (back[c] = <<>> /\ peer'[c] = "left") \/ (back[c] # <<>> /\ peer'[c] = "reset")
        /\ conn'[c] = conn[c] /\ sent'[c] = sent[c] /\ seen'[c] = seen[c]
        /\ cut'[c] = cut[c] /\ store' = store /\ status' = "ok"
    BY <1>5 DEF LeaveAt, Tidy
  <2>2. Tidy(c)'
    BY <2>1 DEF Tidy
  <2>3. GoAt(c)
    BY <2>1 DEF GoAt, HereOf, AskOf, AnsOf
  <2> QED BY <2>1, <2>2, <2>3 DEF KvAt
<1>6. CASE \E r \in net.requests : SendAt(c, r)
  <2>1. PICK r \in net.requests : SendAt(c, r)
    BY <1>6
  <2>2. /\ peer[c] = "here" /\ Len(sent[c]) - Len(seen[c]) < 1
        /\ sent'[c] = Append(sent[c], r) /\ up'[c] = up[c] \o Encode(r)
        /\ conn'[c] = conn[c] /\ peer'[c] = peer[c] /\ back'[c] = back[c] /\ seen'[c] = seen[c]
        /\ cut'[c] = cut[c] /\ store' = store /\ status' = "ok"
    BY <2>1 DEF SendAt, Orderly
  <2>3. Len(sent[c]) = Len(seen[c])
    <3>1. Len(seen[c]) <= Len(sent[c])
      BY DEF Tidy
    <3>2. Len(sent[c]) - Len(seen[c]) < 1
      BY <2>2
    <3>3. Len(sent[c]) \in Nat /\ Len(seen[c]) \in Nat
      BY <1>1
    <3> QED BY <3>1, <3>2, <3>3, NoneOut
  <2>4. up[c] = <<>> /\ conn[c].wbuf = NoReply /\ back[c] = <<>>
    BY <1>1, <2>3 DEF Tidy
  <2>5. IsSeq(r) /\ r # <<>>
    BY RequestsAre
  <2>6. IsSeq(Encode(r)) /\ Len(Encode(r)) = 2 + 4 * Len(r) /\ Len(r) \in Nat
    BY <2>5, EncodeIs DEF IsStream
  <2>7. Encode(r) # <<>>
    BY <2>6, EmptyIs
  <2>8. up'[c] = Encode(r)
    BY <2>2, <2>4, <2>6, EmptyConcat
  <2>9. Len(Append(sent[c], r)) = Len(sent[c]) + 1 /\ Append(sent[c], r)[Len(sent[c]) + 1] = r
    BY <1>1, AppendIs
  <2>10. Last(sent'[c]) = r /\ Len(sent'[c]) = Len(seen'[c]) + 1
    BY <2>2, <2>3, <2>9 DEF Last
  <2>11. Tidy(c)'
    <3>1. Len(seen'[c]) <= Len(sent'[c])
      BY <1>1, <2>2, <2>10
    <3>2. conn'[c].wbuf = NoReply /\ back'[c] = <<>> /\ Last(sent'[c]) \in net'.requests
          /\ up'[c] = Encode(Last(sent'[c])) /\ peer'[c] = "here"
      BY <2>2, <2>4, <2>8, <2>10
    <3> QED BY <2>2, <2>10, <3>1, <3>2 DEF Tidy
  <2>12. AskAt(c, r)
    BY <2>2, <2>4, <2>7, <2>8, <2>10 DEF AskAt, HereOf, AskOf, AnsOf
  <2> QED BY <2>2, <2>11, <2>12 DEF KvAt
<1>7. CASE \E n \in Arrivals(c) : \E ending \in Endings(c, n) : \E kk : ReadAt(c, n, ending, kk)
  <2>0. PICK n \in Arrivals(c) : \E ending \in Endings(c, n) : \E kk : ReadAt(c, n, ending, kk)
    BY <1>7
  <2>1. PICK ending \in Endings(c, n) : \E kk : ReadAt(c, n, ending, kk)
    BY <2>0
  <2>2. PICK kk : ReadAt(c, n, ending, kk)
    BY <2>1
  <2> QED BY <2>2, TidyReads DEF KvAt
<1>8. CASE WriteAt(c)
  <2> DEFINE w == conn[c].wbuf
  <2>1. /\ w # NoReply /\ Len(sent[c]) = Len(seen[c]) + 1 /\ w.t # "half" /\ back[c] = <<>>
        /\ up[c] = <<>>
    BY <1>2, <1>8 DEF WriteAt, Tidy
  <2>2. /\ Written(conn[c]).rbuf = <<>> /\ Written(conn[c]).nargs = 0 /\ Written(conn[c]).wbuf = NoReply
    BY DEF Written, Tidy, Sane, Waits, Formed, IsConn
  <2>3. /\ conn'[c] = Written(conn[c])
        /\ \/ peer[c] = "here" /\ back'[c] = Append(<<>>, w) /\ peer'[c] = peer[c]
           \/ peer[c] = "left" /\ peer'[c] = "reset" /\ back'[c] = back[c]
        /\ up'[c] = up[c] /\ sent'[c] = sent[c] /\ seen'[c] = seen[c]
        /\ cut'[c] = cut[c] /\ store' = store /\ status' = "ok"
    BY <1>8, <2>1 DEF WriteAt
  <2> HIDE DEF w
  <2>4. Append(<<>>, w) = <<w>> /\ <<w>> # <<>> /\ Len(<<w>>) = 1 /\ <<w>>[1] = w
    OBVIOUS
  <2>5. Tidy(c)'
    BY <1>1, <2>1, <2>2, <2>3, <2>4 DEF Tidy
  <2>6. RestAt(c)
    BY <2>1, <2>2, <2>3, <2>4 DEF RestAt, HereOf, AskOf, AnsOf, w
  <2> QED BY <2>3, <2>5, <2>6 DEF KvAt
<1>9. CASE WritePartAt(c)
  BY <1>9 DEF WritePartAt, Orderly
<1>10. CASE WriteFailsAt(c)
  BY <1>2, <1>10 DEF WriteFailsAt, Tidy
<1> QED BY <1>3, <1>4, <1>5, <1>6, <1>7, <1>8, <1>9, <1>10 DEF Does

AllTidy == Orderly => status = "ok" /\ \A c \in Client : Tidy(c)

LEMMA TidyInit == Init => AllTidy
<1>0. SUFFICES ASSUME Init PROVE status = "ok" /\ \A c \in Client : Tidy(c)
  BY DEF AllTidy
<1> SUFFICES ASSUME NEW c \in Client PROVE Tidy(c)
  BY <1>0 DEF Init
<1>1. /\ conn[c] = Closed(NewClient) /\ up[c] = <<>> /\ back[c] = <<>> /\ sent[c] = <<>>
      /\ seen[c] = <<>> /\ cut[c] = FALSE
  BY <1>0 DEF Init
<1>2. conn[c].rbuf = <<>> /\ conn[c].nargs = 0 /\ conn[c].wbuf = NoReply
  BY <1>1 DEF Closed, NewClient
<1>3. Len(seen[c]) <= Len(sent[c])
  BY <1>1, EmptyIs
<1> QED BY <1>1, <1>2, <1>3 DEF Tidy

\* An orderly step keeps clients tidy and is one of the abstract specification.
LEMMA TidyNext ==
  ASSUME Shape, AllTidy, Next
  PROVE  AllTidy' /\ (Orderly => \E c \in Client : KvAt(c) /\ \A d \in Client \ {c} : Same(d))
<1>1. net' = net /\ status = "ok" /\ net \in Nets
  BY StepIsOne DEF Shape
<1>2. Orderly' <=> Orderly
  BY <1>1 DEF Orderly
<1>3. SUFFICES ASSUME Orderly
               PROVE  /\ status' = "ok" /\ \A c \in Client : Tidy(c)'
                      /\ \E c \in Client : KvAt(c) /\ \A d \in Client \ {c} : Same(d)
  BY <1>2 DEF AllTidy
<1>4. PICK c \in Client : Does(c) /\ \A d \in Client \ {c} : Same(d)
  BY StepIsOne
<1>5. Tidy(c)' /\ status' = "ok" /\ KvAt(c)
  BY <1>1, <1>3, <1>4, TidyStep DEF Shape, AllTidy
<1>6. ASSUME NEW d \in Client, d # c PROVE Tidy(d)'
  <2>1. Same(d) /\ Tidy(d)
    BY <1>3, <1>4, <1>6 DEF AllTidy
  <2> QED BY <1>1, <2>1 DEF Same, Tidy
<1> QED BY <1>4, <1>5, <1>6

LEMMA AllTidyHolds == Spec => []AllTidy
<1>1. Shape /\ AllTidy /\ [Next]_vars => AllTidy'
  <2> SUFFICES ASSUME Shape, AllTidy, [Next]_vars PROVE AllTidy'
    OBVIOUS
  <2>1. CASE Next
    BY <2>1, TidyNext
  <2>2. CASE UNCHANGED vars
    BY <2>2 DEF vars, AllTidy, Orderly, Tidy
  <2> QED BY <2>1, <2>2
<1> QED BY <1>1, TidyInit, ShapeHolds, PTL DEF Spec

\* With whole requests, one at a time, the process neither reads an argv it did
\* not fill nor is killed by a client that leaves; otherwise it reads one only after
\* a request arrived in parts or with too few words (kvs_net.c:76, 131, 199,
\* kvs_command.c:193, 208).
THEOREM ServerStaysUp == Spec => []StaysUp
<1>1. Lines /\ AllTidy => StaysUp
  BY DEF Lines, AllTidy, StaysUp, TooFew
<1> QED BY <1>1, LinesHold, AllTidyHolds, PTL

-----------------------------------------------------------------------------
(* The abstract specification *)

LEMMA SameCommands == ASSUME NEW a, NEW s PROVE Kv!Execute(a, s) = Execute(a, s)
<1>1. Kv!Absent = Absent /\ Kv!NoReply = NoReply /\ Kv!OK = OK /\ Kv!Err = Err
  BY DEF Kv!Absent, Absent, Kv!NoReply, NoReply, Kv!OK, OK, Kv!Err, Err
<1>2. \A v : Kv!Count(v) = Count(v) /\ Kv!Bulk(v) = Bulk(v)
  BY DEF Kv!Count, Count, Kv!Bulk, Bulk
<1>3. \A x, y, z : Kv!Effect(x, y, z) = Effect(x, y, z)
  BY DEF Kv!Effect, Effect
<1>4. ASSUME NEW k, NEW w
      PROVE  /\ Kv!Set(s, k, w) = Set(s, k, w) /\ Kv!Get(s, k) = Get(s, k)
             /\ Kv!Delete(s, k) = Delete(s, k) /\ Kv!AppendTo(s, k, w) = AppendTo(s, k, w)
             /\ Kv!Silent(s) = Silent(s)
  BY <1>1, <1>2, <1>3, Zenon
     DEF Kv!Set, Set, Kv!Get, Get, Kv!Delete, Delete, Kv!AppendTo, AppendTo, Kv!Silent, Silent,
         Kv!Stored, Stored, Kv!Found, Found, Kv!Removed, Removed, Kv!Appended, Appended
<1> QED BY <1>4, Zenon DEF Kv!Execute, Execute

\* The mapped variables of orderly clients.
Heres == [c \in Client |-> HereOf(c)]
Asks  == [c \in Client |-> AskOf(c)]
Anss  == [c \in Client |-> AnsOf(c)]

LEMMA MappedStep ==
  ASSUME net \in Nets, net' = net, Orderly, NEW c \in Client, KvAt(c), \A d \in Client \ {c} : Same(d)
  PROVE  [Kv!Next]_(Kv!vars)
<1> DEFINE D == IF Orderly THEN store ELSE [w \in Word |-> Absent]
           H == [d \in Client |-> Orderly /\ peer[d] = "here"]
           A == [d \in Client |-> IF ~Orderly \/ up[d] = <<>> THEN <<>> ELSE Last(sent[d])]
           N == [d \in Client |-> IF ~Orderly \/ peer[d] # "here" THEN NoReply
                                  ELSE IF back[d] # <<>> THEN back[d][1] ELSE conn[d].wbuf]
<1>1. Orderly'
  BY DEF Orderly
<1>2. D = store /\ H = Heres /\ A = Asks /\ N = Anss
  BY Zenon DEF Heres, Asks, Anss, HereOf, AskOf, AnsOf
<1>3. D' = store' /\ H' = Heres' /\ A' = Asks' /\ N' = Anss'
  BY <1>1, Zenon DEF Heres, Asks, Anss, HereOf, AskOf, AnsOf
<1>4. \A d \in Client \ {c} : HereOf(d)' = HereOf(d) /\ AskOf(d)' = AskOf(d) /\ AnsOf(d)' = AnsOf(d)
  BY DEF Same, HereOf, AskOf, AnsOf
<1>5. /\ Heres' = [Heres EXCEPT ![c] = HereOf(c)'] /\ Heres[c] = HereOf(c)
      /\ Asks' = [Asks EXCEPT ![c] = AskOf(c)'] /\ Asks[c] = AskOf(c)
      /\ Anss' = [Anss EXCEPT ![c] = AnsOf(c)'] /\ Anss[c] = AnsOf(c)
  BY <1>4 DEF Heres, Asks, Anss
<1>6. /\ HereOf(c)' = HereOf(c) => Heres' = Heres
      /\ AskOf(c)' = AskOf(c) => Asks' = Asks
      /\ AnsOf(c)' = AnsOf(c) => Anss' = Anss
  BY <1>4 DEF Heres, Asks, Anss
<1>7. Kv!NoReply = NoReply
  BY DEF Kv!NoReply, NoReply, Kv!Absent, Absent
<1> HIDE DEF D, H, A, N
<1>8. CASE ComeAt(c)
  <2>1. Kv!Come(c)
    BY <1>2, <1>3, <1>5, <1>6, <1>8 DEF Kv!Come, ComeAt, D, H, A, N
  <2> QED BY <2>1 DEF Kv!Next
<1>9. CASE DoAt(c)
  <2>1. Kv!Do(c)
    BY <1>2, <1>3, <1>5, <1>6, <1>7, <1>9, SameCommands DEF Kv!Do, DoAt, D, H, A, N
  <2> QED BY <2>1 DEF Kv!Next
<1>10. CASE TakeAt(c)
  <2>1. Kv!Take(c)
    BY <1>2, <1>3, <1>5, <1>6, <1>7, <1>10 DEF Kv!Take, TakeAt, D, H, A, N
  <2> QED BY <2>1 DEF Kv!Next
<1>11. CASE GoAt(c)
  <2>1. Kv!Go(c)
    BY <1>2, <1>3, <1>5, <1>6, <1>7, <1>11 DEF Kv!Go, GoAt, D, H, A, N
  <2> QED BY <2>1 DEF Kv!Next
<1>12. CASE RestAt(c)
  BY <1>2, <1>3, <1>6, <1>12 DEF Kv!vars, RestAt, D, H, A, N
<1>13. CASE \E r \in net.requests : AskAt(c, r)
  <2>1. PICK r \in net.requests : AskAt(c, r)
    BY <1>13
  <2>2. r \in Request
    BY DEF Request
  <2>3. Kv!Ask(c, r)
    BY <1>2, <1>3, <1>5, <1>6, <1>7, <2>1 DEF Kv!Ask, AskAt, D, H, A, N
  <2> QED BY <2>2, <2>3 DEF Kv!Next
<1> QED BY <1>8, <1>9, <1>10, <1>11, <1>12, <1>13 DEF KvAt

\* Every orderly request is carried out at one instant, and its answer is the one
\* that its client gets: the server implements KvsKv (kvs_net.c:121-152, 187-203).
THEOREM ServerImplementsKv == Spec => ImplementsKv
<1>1. Init => Kv!Init
  <2> SUFFICES ASSUME Init PROVE Kv!Init
    OBVIOUS
  <2>1. \A c \in Client : peer[c] = "away" /\ up[c] = <<>>
    BY DEF Init
  <2>2. store = [w \in Word |-> Absent]
    BY DEF Init
  <2>3. Kv!NoReply = NoReply /\ Kv!Absent = Absent
    BY DEF Kv!NoReply, NoReply, Kv!Absent, Absent
  <2> QED BY <2>1, <2>2, <2>3 DEF Kv!Init
<1>2. Shape /\ AllTidy /\ [Next]_vars => [Kv!Next]_(Kv!vars)
  <2> SUFFICES ASSUME Shape, AllTidy, [Next]_vars PROVE [Kv!Next]_(Kv!vars)
    OBVIOUS
  <2>1. CASE Next /\ Orderly
    <3>1. net' = net /\ net \in Nets
      BY <2>1, StepIsOne DEF Shape
    <3>2. PICK c \in Client : KvAt(c) /\ \A d \in Client \ {c} : Same(d)
      BY <2>1, TidyNext
    <3> QED BY <2>1, <3>1, <3>2, MappedStep
  <2>2. CASE Next /\ ~Orderly
    <3>1. ~Orderly'
      BY <2>2, StepIsOne DEF Orderly
    <3> QED BY <2>2, <3>1 DEF Kv!vars
  <2>3. CASE UNCHANGED vars
    <3>1. Orderly' <=> Orderly
      BY <2>3 DEF vars, Orderly
    <3> QED BY <2>3, <3>1 DEF vars, Kv!vars
  <2> QED BY <2>1, <2>2, <2>3
<1> QED BY <1>1, <1>2, ShapeHolds, AllTidyHolds, PTL DEF Spec, ImplementsKv, Kv!Spec
==============================================================================
