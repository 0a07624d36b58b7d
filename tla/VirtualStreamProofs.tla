------------------------ MODULE VirtualStreamProofs ------------------------
(***************************************************************************)
(* Theorems about VirtualStream, for any number of streams and chunks and  *)
(* any channel capacities.                                                 *)
(***************************************************************************)
EXTENDS VirtualStream, TLAPS

-----------------------------------------------------------------------------
(* What a frame queue holds of one stream                                  *)

Has(q, kind, s) == \E i \in DOMAIN q : q[i].kind = kind /\ q[i].sid = s

Mentions(q, s) == \E i \in DOMAIN q : q[i].sid = s

IsData(f, s) == f.kind = "data" /\ f.sid = s

(* The data frames of the stream lie in lo+1..hi and ascend...             *)
Ordered(q, s, lo, hi) ==
  /\ \A i \in DOMAIN q : IsData(q[i], s) => lo < q[i].n /\ q[i].n <= hi
  /\ \A i, j \in DOMAIN q :
       IsData(q[i], s) /\ IsData(q[j], s) /\ i < j => q[i].n < q[j].n

(* ... and none is missing.                                                *)
Complete(q, s, lo, hi) ==
  \A n \in (lo + 1)..hi : \E i \in DOMAIN q : IsData(q[i], s) /\ q[i].n = n

(* Nothing of the stream comes before its Open or after its Close.         *)
OpenFirst(q, s) ==
  \A i, j \in DOMAIN q :
    q[i].kind = "open" /\ q[i].sid = s /\ q[j].sid = s => i <= j

CloseLast(q, s) ==
  \A i, j \in DOMAIN q :
    q[i].kind = "close" /\ q[i].sid = s /\ i < j => q[j].sid # s

(* The queue p holds of the stream what q does.                            *)
SameFor(p, q, s) ==
  /\ \A kind \in {"open", "data", "close"} : Has(p, kind, s) <=> Has(q, kind, s)
  /\ Mentions(p, s) <=> Mentions(q, s)
  /\ \A lo, hi \in Int : Ordered(q, s, lo, hi) => Ordered(p, s, lo, hi)
  /\ \A lo, hi \in Int : Complete(q, s, lo, hi) => Complete(p, s, lo, hi)
  /\ OpenFirst(q, s) => OpenFirst(p, s)
  /\ CloseLast(q, s) => CloseLast(p, s)

(* Positions in an extended queue.                                         *)
LEMMA AppendAt ==
  ASSUME NEW S, NEW q \in Seq(S), NEW f \in S
  PROVE  /\ Append(q, f) \in Seq(S)
         /\ DOMAIN Append(q, f) = 1..(Len(q) + 1)
         /\ DOMAIN q = 1..Len(q) /\ Len(q) \in Nat
         /\ \A i \in 1..Len(q) : Append(q, f)[i] = q[i]
         /\ Append(q, f)[Len(q) + 1] = f
  OBVIOUS

(* Positions in a queue that has lost its head.                            *)
LEMMA TailAt ==
  ASSUME NEW S, NEW q \in Seq(S), q # << >>
  PROVE  /\ Tail(q) \in Seq(S) /\ Head(q) \in S /\ Head(q) = q[1]
         /\ Len(q) \in Nat \ {0} /\ DOMAIN q = 1..Len(q)
         /\ DOMAIN Tail(q) = 1..(Len(q) - 1)
         /\ \A i \in 1..(Len(q) - 1) : Tail(q)[i] = q[i + 1]
         /\ Len(Tail(q)) = Len(q) - 1
  OBVIOUS

(* A queue that does not mention the stream holds no frame of it.          *)
LEMMA NotMentioned ==
  ASSUME NEW q, NEW s, ~Mentions(q, s), NEW kind
  PROVE  ~Has(q, kind, s)
  BY DEF Has, Mentions

(* No chunk is missing of an empty range.                                  *)
LEMMA NothingMissing ==
  ASSUME NEW q, NEW s, NEW lo \in Int, NEW hi \in Int, hi <= lo
  PROVE  Complete(q, s, lo, hi)
  BY DEF Complete

(* An empty queue holds nothing of any stream.                             *)
LEMMA EmptyQueue ==
  ASSUME NEW s, NEW lo \in Int, NEW hi \in Int
  PROVE  /\ \A kind : ~Has(<< >>, kind, s)
         /\ ~Mentions(<< >>, s)
         /\ Ordered(<< >>, s, lo, hi)
         /\ OpenFirst(<< >>, s) /\ CloseLast(<< >>, s)
         /\ hi <= lo => Complete(<< >>, s, lo, hi)
  BY DEF Has, Mentions, Ordered, Complete, OpenFirst, CloseLast

(* Two queues in which the frames of the stream are the same, d positions  *)
(* apart, are the same for the stream.                                     *)
LEMMA Shifted ==
  ASSUME NEW p, NEW q, NEW s, NEW d \in Int,
         DOMAIN p \subseteq Int, DOMAIN q \subseteq Int,
         \A i \in DOMAIN p : p[i].sid = s => i + d \in DOMAIN q /\ q[i + d] = p[i],
         \A i \in DOMAIN q : q[i].sid = s => i - d \in DOMAIN p /\ p[i - d] = q[i]
  PROVE  SameFor(p, q, s)
<1>1. ASSUME NEW i \in DOMAIN p, p[i].sid = s
      PROVE  i \in Int /\ i + d \in DOMAIN q /\ q[i + d] = p[i]
  BY <1>1
<1>2. ASSUME NEW i \in DOMAIN q, q[i].sid = s
      PROVE  i \in Int /\ i - d \in DOMAIN p /\ p[i - d] = q[i]
  BY <1>2
<1>3. \A kind \in {"open", "data", "close"} : Has(p, kind, s) <=> Has(q, kind, s)
  BY <1>1, <1>2 DEF Has
<1>4. Mentions(p, s) <=> Mentions(q, s)
  BY <1>1, <1>2 DEF Mentions
<1>5. ASSUME NEW lo \in Int, NEW hi \in Int, Ordered(q, s, lo, hi)
      PROVE  Ordered(p, s, lo, hi)
  <2>1. ASSUME NEW i \in DOMAIN p, IsData(p[i], s)
        PROVE  lo < p[i].n /\ p[i].n <= hi
    BY <1>1, <1>5, <2>1 DEF Ordered, IsData
  <2>2. ASSUME NEW i \in DOMAIN p, NEW j \in DOMAIN p,
               IsData(p[i], s), IsData(p[j], s), i < j
        PROVE  p[i].n < p[j].n
    <3>1. /\ i \in Int /\ i + d \in DOMAIN q /\ q[i + d] = p[i]
          /\ j \in Int /\ j + d \in DOMAIN q /\ q[j + d] = p[j]
      BY <1>1, <2>2 DEF IsData
    <3>2. i + d < j + d
      BY <3>1, <2>2
    <3>3. q[i + d].n < q[j + d].n
      BY <3>1, <3>2, <2>2, <1>5 DEF Ordered
    <3> QED
      BY <3>1, <3>3
  <2> QED
    BY <2>1, <2>2 DEF Ordered
<1>6. ASSUME NEW lo \in Int, NEW hi \in Int, Complete(q, s, lo, hi)
      PROVE  Complete(p, s, lo, hi)
  <2> SUFFICES ASSUME NEW n \in (lo + 1)..hi
               PROVE  \E i \in DOMAIN p : IsData(p[i], s) /\ p[i].n = n
    BY DEF Complete
  <2>1. PICK i \in DOMAIN q : IsData(q[i], s) /\ q[i].n = n
    BY <1>6 DEF Complete
  <2>2. i - d \in DOMAIN p /\ p[i - d] = q[i]
    BY <1>2, <2>1 DEF IsData
  <2> QED
    BY <2>1, <2>2
<1>7. ASSUME OpenFirst(q, s) PROVE OpenFirst(p, s)
  <2> SUFFICES ASSUME NEW i \in DOMAIN p, NEW j \in DOMAIN p,
                      p[i].kind = "open", p[i].sid = s, p[j].sid = s
               PROVE  i <= j
    BY DEF OpenFirst
  <2>1. /\ i \in Int /\ i + d \in DOMAIN q /\ q[i + d] = p[i]
        /\ j \in Int /\ j + d \in DOMAIN q /\ q[j + d] = p[j]
    BY <1>1
  <2>2. i + d <= j + d
    BY <2>1, <1>7 DEF OpenFirst
  <2> QED
    BY <2>1, <2>2
<1>8. ASSUME CloseLast(q, s) PROVE CloseLast(p, s)
  <2> SUFFICES ASSUME NEW i \in DOMAIN p, NEW j \in DOMAIN p,
                      p[i].kind = "close", p[i].sid = s, i < j, p[j].sid = s
               PROVE  FALSE
    BY DEF CloseLast
  <2>1. /\ i \in Int /\ i + d \in DOMAIN q /\ q[i + d] = p[i]
        /\ j \in Int /\ j + d \in DOMAIN q /\ q[j + d] = p[j]
    BY <1>1
  <2>2. i + d < j + d
    BY <2>1
  <2> QED
    BY <2>1, <2>2, <1>8 DEF CloseLast
<1> QED
  BY <1>3, <1>4, <1>5, <1>6, <1>7, <1>8 DEF SameFor

(* A frame of another stream changes nothing for this one, whether it is   *)
(* queued or taken.                                                        *)
LEMMA AppendOther ==
  ASSUME NEW q \in Seq(FrameSet), NEW f \in FrameSet, NEW s, f.sid # s
  PROVE  SameFor(Append(q, f), q, s)
<1> DEFINE p == Append(q, f)
<1>1. /\ DOMAIN p = 1..(Len(q) + 1) /\ DOMAIN q = 1..Len(q) /\ Len(q) \in Nat
      /\ \A i \in 1..Len(q) : p[i] = q[i]
      /\ p[Len(q) + 1] = f
  BY AppendAt
<1> HIDE DEF p
<1>2. DOMAIN p \subseteq Int /\ DOMAIN q \subseteq Int
  BY <1>1
<1>3. ASSUME NEW i \in DOMAIN p, p[i].sid = s
      PROVE  i + 0 \in DOMAIN q /\ q[i + 0] = p[i]
  BY <1>1, <1>3
<1>4. ASSUME NEW i \in DOMAIN q, q[i].sid = s
      PROVE  i - 0 \in DOMAIN p /\ p[i - 0] = q[i]
  BY <1>1, <1>4
<1>5. SameFor(p, q, s)
  BY <1>2, <1>3, <1>4, Shifted
<1> QED
  BY <1>5 DEF p

(* Nor does taking a frame of another stream from the front.               *)
LEMMA TailOther ==
  ASSUME NEW q \in Seq(FrameSet), q # << >>, NEW s, Head(q).sid # s
  PROVE  SameFor(Tail(q), q, s)
<1> DEFINE p == Tail(q)
<1>1. /\ Len(q) \in Nat \ {0} /\ DOMAIN q = 1..Len(q) /\ q[1].sid # s
      /\ DOMAIN p = 1..(Len(q) - 1)
      /\ \A i \in 1..(Len(q) - 1) : p[i] = q[i + 1]
  BY TailAt
<1> HIDE DEF p
<1>2. DOMAIN p \subseteq Int /\ DOMAIN q \subseteq Int
  BY <1>1
<1>3. ASSUME NEW i \in DOMAIN p, p[i].sid = s
      PROVE  i + 1 \in DOMAIN q /\ q[i + 1] = p[i]
  BY <1>1, <1>3
<1>4. ASSUME NEW i \in DOMAIN q, q[i].sid = s
      PROVE  i - 1 \in DOMAIN p /\ p[i - 1] = q[i]
  BY <1>1, <1>4
<1>5. SameFor(p, q, s)
  BY <1>2, <1>3, <1>4, Shifted
<1> QED
  BY <1>5 DEF p

(* Chunks are numbered from 1.                                             *)
LEMMA ChunkNumbers ==
  /\ Chunks \subseteq Nat \ {0}
  /\ \A f \in FrameSet : f.n \in Nat
  /\ \A s \in Sids : \A n \in 1..MaxChunks[s] : n \in Chunks
<1>1. \A s \in Sids : MaxChunks[s] \in Nat
  BY CapsAssumption
<1>2. Chunks \subseteq Nat \ {0}
  BY <1>1 DEF Chunks
<1>3. ASSUME NEW f \in FrameSet PROVE f.n \in Nat
  <2>1. f.n \in Chunks \/ f.n = 0
    BY DEF FrameSet
  <2>2. CASE f.n \in Chunks
    BY <1>2, <2>2
  <2>3. CASE f.n = 0
    BY <2>3
  <2> QED
    BY <2>1, <2>2, <2>3
<1> QED
  BY <1>2, <1>3 DEF Chunks

(* A data frame enters a queue that has no Close of the stream.            *)
LEMMA AppendDataLife ==
  ASSUME NEW q \in Seq(FrameSet), NEW s \in Sids,
         NEW f \in FrameSet, f.kind = "data", f.sid = s, ~Has(q, "close", s)
  PROVE  /\ ~Has(Append(q, f), "close", s)
         /\ Has(Append(q, f), "open", s) <=> Has(q, "open", s)
         /\ OpenFirst(q, s) => OpenFirst(Append(q, f), s)
         /\ CloseLast(Append(q, f), s)
<1> DEFINE p == Append(q, f)
<1>1. /\ DOMAIN p = 1..(Len(q) + 1) /\ DOMAIN q = 1..Len(q) /\ Len(q) \in Nat
      /\ \A i \in 1..Len(q) : p[i] = q[i]
      /\ p[Len(q) + 1] = f
  BY AppendAt
<1> HIDE DEF p
<1>2. ~Has(p, "close", s) /\ CloseLast(p, s) /\ (Has(p, "open", s) <=> Has(q, "open", s))
  BY <1>1 DEF Has, CloseLast
<1>3. OpenFirst(q, s) => OpenFirst(p, s)
  BY <1>1 DEF OpenFirst
<1> QED
  BY <1>2, <1>3 DEF p

(* It is the next chunk of the stream.                                     *)
LEMMA AppendData ==
  ASSUME NEW q \in Seq(FrameSet), NEW s \in Sids, NEW lo \in Int, NEW hi \in Int,
         NEW f \in FrameSet, f.kind = "data", f.sid = s, f.n = hi + 1, lo <= hi
  PROVE  /\ Ordered(q, s, lo, hi) => Ordered(Append(q, f), s, lo, hi + 1)
         /\ Complete(q, s, lo, hi) => Complete(Append(q, f), s, lo, hi + 1)
<1> DEFINE p == Append(q, f)
<1>1. /\ DOMAIN p = 1..(Len(q) + 1) /\ DOMAIN q = 1..Len(q) /\ Len(q) \in Nat
      /\ \A i \in 1..Len(q) : p[i] = q[i]
      /\ p[Len(q) + 1] = f
  BY AppendAt
<1> HIDE DEF p
<1>2. \A i \in DOMAIN q : q[i].n \in Int
  BY ChunkNumbers
<1>3. ASSUME Ordered(q, s, lo, hi) PROVE Ordered(p, s, lo, hi + 1)
  <2>1. ASSUME NEW i \in DOMAIN p
        PROVE  i = Len(q) + 1 \/ (i \in DOMAIN q /\ p[i] = q[i] /\ i < Len(q) + 1)
    BY <1>1
  <2>2. ASSUME NEW i \in DOMAIN p, IsData(p[i], s)
        PROVE  lo < p[i].n /\ p[i].n <= hi + 1
    BY <1>1, <1>2, <1>3, <2>1, <2>2 DEF Ordered
  <2>3. ASSUME NEW i \in DOMAIN p, NEW j \in DOMAIN p,
               IsData(p[i], s), IsData(p[j], s), i < j
        PROVE  p[i].n < p[j].n
    <3>1. i \in DOMAIN q /\ p[i] = q[i]
      BY <1>1, <2>3
    <3>2. CASE j = Len(q) + 1
      BY <1>1, <1>2, <1>3, <2>3, <3>1, <3>2 DEF Ordered
    <3>3. CASE j \in DOMAIN q /\ p[j] = q[j]
      BY <1>3, <2>3, <3>1, <3>3 DEF Ordered
    <3> QED
      BY <2>1, <3>2, <3>3
  <2> QED
    BY <2>2, <2>3 DEF Ordered
<1>4. ASSUME Complete(q, s, lo, hi) PROVE Complete(p, s, lo, hi + 1)
  <2> SUFFICES ASSUME NEW n \in (lo + 1)..(hi + 1)
               PROVE  \E i \in DOMAIN p : IsData(p[i], s) /\ p[i].n = n
    BY DEF Complete
  <2>1. CASE n = hi + 1
    BY <1>1, <2>1 DEF IsData
  <2>2. CASE n # hi + 1
    <3>1. n \in (lo + 1)..hi
      BY <2>2
    <3> QED
      BY <1>1, <1>4, <3>1 DEF Complete
  <2> QED
    BY <2>1, <2>2
<1> QED
  BY <1>3, <1>4 DEF p

(* The Close of the stream enters the queue.                               *)
LEMMA AppendClose ==
  ASSUME NEW q \in Seq(FrameSet), NEW s \in Sids, NEW lo \in Int, NEW hi \in Int,
         NEW f \in FrameSet, f.kind = "close", f.sid = s, ~Has(q, "close", s)
  PROVE  /\ Ordered(q, s, lo, hi) => Ordered(Append(q, f), s, lo, hi)
         /\ Complete(q, s, lo, hi) => Complete(Append(q, f), s, lo, hi)
         /\ Has(Append(q, f), "open", s) <=> Has(q, "open", s)
         /\ OpenFirst(q, s) => OpenFirst(Append(q, f), s)
         /\ CloseLast(Append(q, f), s)
<1> DEFINE p == Append(q, f)
<1>1. /\ DOMAIN p = 1..(Len(q) + 1) /\ DOMAIN q = 1..Len(q) /\ Len(q) \in Nat
      /\ \A i \in 1..Len(q) : p[i] = q[i]
      /\ p[Len(q) + 1] = f
  BY AppendAt
<1> HIDE DEF p
<1>2. Ordered(q, s, lo, hi) => Ordered(p, s, lo, hi)
  BY <1>1 DEF Ordered, IsData
<1>3. Complete(q, s, lo, hi) => Complete(p, s, lo, hi)
  BY <1>1 DEF Complete, IsData
<1>4. Has(p, "open", s) <=> Has(q, "open", s)
  BY <1>1 DEF Has
<1>5. OpenFirst(q, s) => OpenFirst(p, s)
  BY <1>1 DEF OpenFirst
<1>6. CloseLast(p, s)
  BY <1>1 DEF CloseLast, Has
<1> QED
  BY <1>2, <1>3, <1>4, <1>5, <1>6 DEF p

(* The Open of the stream enters a queue that has no frame of it.          *)
LEMMA AppendOpen ==
  ASSUME NEW q \in Seq(FrameSet), NEW s \in Sids, NEW lo \in Int, NEW hi \in Int,
         NEW f \in FrameSet, f.kind = "open", f.sid = s, ~Mentions(q, s)
  PROVE  /\ Ordered(Append(q, f), s, lo, hi)
         /\ Has(Append(q, f), "open", s) /\ ~Has(Append(q, f), "close", s)
         /\ OpenFirst(Append(q, f), s) /\ CloseLast(Append(q, f), s)
<1> DEFINE p == Append(q, f)
<1>1. /\ DOMAIN p = 1..(Len(q) + 1) /\ DOMAIN q = 1..Len(q) /\ Len(q) \in Nat
      /\ \A i \in 1..Len(q) : p[i] = q[i]
      /\ p[Len(q) + 1] = f
  BY AppendAt
<1> HIDE DEF p
<1>2. \A i \in DOMAIN p : p[i].sid = s => i = Len(q) + 1
  BY <1>1 DEF Mentions
<1>3. Ordered(p, s, lo, hi)
  BY <1>1, <1>2 DEF Ordered, IsData
<1>4. Has(p, "open", s) /\ ~Has(p, "close", s)
  BY <1>1, <1>2 DEF Has
<1>5. OpenFirst(p, s) /\ CloseLast(p, s)
  BY <1>1, <1>2 DEF OpenFirst, CloseLast
<1> QED
  BY <1>3, <1>4, <1>5 DEF p

(* A data frame leaves the queue: the other frames stay, and no Open is    *)
(* behind it.                                                              *)
LEMMA TailDataLife ==
  ASSUME NEW q \in Seq(FrameSet), q # << >>, NEW s \in Sids,
         Head(q).kind = "data", Head(q).sid = s
  PROVE  /\ Has(Tail(q), "open", s) <=> Has(q, "open", s)
         /\ Has(Tail(q), "close", s) <=> Has(q, "close", s)
         /\ OpenFirst(q, s) => ~Has(q, "open", s) /\ OpenFirst(Tail(q), s)
         /\ CloseLast(q, s) => CloseLast(Tail(q), s)
<1> DEFINE p == Tail(q) h == Head(q)
<1>1. /\ Len(q) \in Nat \ {0} /\ DOMAIN q = 1..Len(q) /\ q[1] = h
      /\ DOMAIN p = 1..(Len(q) - 1)
      /\ \A i \in 1..(Len(q) - 1) : p[i] = q[i + 1]
  BY TailAt
<1>2. h.kind = "data" /\ h.sid = s
  OBVIOUS
<1> HIDE DEF p, h
<1>3. ASSUME NEW i \in DOMAIN p
      PROVE  i \in Int /\ i + 1 \in DOMAIN q /\ p[i] = q[i + 1] /\ 1 < i + 1
  BY <1>1
<1>4. ASSUME NEW i \in DOMAIN q, i # 1
      PROVE  i \in Int /\ i - 1 \in DOMAIN p /\ p[i - 1] = q[i] /\ 1 < i
  <2>1. i \in Int /\ i - 1 \in 1..(Len(q) - 1) /\ (i - 1) + 1 = i
    BY <1>1, <1>4
  <2> QED
    BY <1>1, <2>1
<1>5. /\ Has(p, "open", s) <=> Has(q, "open", s)
      /\ Has(p, "close", s) <=> Has(q, "close", s)
  BY <1>1, <1>2, <1>3, <1>4 DEF Has
<1>6. OpenFirst(q, s) => ~Has(q, "open", s)
  BY <1>1, <1>2 DEF OpenFirst, Has
<1>7. ~Has(p, "open", s) => OpenFirst(p, s)
  BY DEF OpenFirst, Has
<1>8. ASSUME CloseLast(q, s) PROVE CloseLast(p, s)
  <2> SUFFICES ASSUME NEW i \in DOMAIN p, NEW j \in DOMAIN p,
                      p[i].kind = "close", p[i].sid = s, i < j, p[j].sid = s
               PROVE  FALSE
    BY DEF CloseLast
  <2>1. i + 1 < j + 1
    BY <1>3
  <2> QED
    BY <1>3, <1>8, <2>1 DEF CloseLast
<1> QED
  BY <1>5, <1>6, <1>7, <1>8 DEF p, h

(* It is the next chunk if none is missing.                                *)
LEMMA TailData ==
  ASSUME NEW q \in Seq(FrameSet), q # << >>, NEW s \in Sids,
         NEW lo \in Int, NEW hi \in Int,
         Head(q).kind = "data", Head(q).sid = s, Ordered(q, s, lo, hi)
  PROVE  /\ lo < Head(q).n /\ Head(q).n <= hi
         /\ Ordered(Tail(q), s, lo, hi)
         /\ Complete(q, s, lo, hi) =>
              /\ Head(q).n = lo + 1
              /\ Ordered(Tail(q), s, lo + 1, hi)
              /\ Complete(Tail(q), s, lo + 1, hi)
<1> DEFINE p == Tail(q) h == Head(q)
<1>1. /\ Len(q) \in Nat \ {0} /\ DOMAIN q = 1..Len(q) /\ q[1] = h
      /\ DOMAIN p = 1..(Len(q) - 1)
      /\ \A i \in 1..(Len(q) - 1) : p[i] = q[i + 1]
  BY TailAt
<1>2. h.kind = "data" /\ h.sid = s
  OBVIOUS
<1>3. \A i \in DOMAIN q : q[i].n \in Int
  BY ChunkNumbers
<1> HIDE DEF p, h
<1>4. ASSUME NEW i \in DOMAIN p
      PROVE  i \in Int /\ i + 1 \in DOMAIN q /\ p[i] = q[i + 1] /\ 1 < i + 1
  BY <1>1
<1>5. ASSUME NEW i \in DOMAIN q, i # 1
      PROVE  i \in Int /\ i - 1 \in DOMAIN p /\ p[i - 1] = q[i] /\ 1 < i
  <2>1. i \in Int /\ i - 1 \in 1..(Len(q) - 1) /\ (i - 1) + 1 = i
    BY <1>1, <1>5
  <2> QED
    BY <1>1, <2>1
<1>6. lo < h.n /\ h.n <= hi /\ h.n \in Int
  BY <1>1, <1>2, <1>3 DEF Ordered, IsData
<1>7. \A i \in DOMAIN p : IsData(p[i], s) => lo < p[i].n /\ p[i].n <= hi /\ h.n < p[i].n
  BY <1>1, <1>2, <1>4 DEF Ordered, IsData
<1>8. ASSUME NEW i \in DOMAIN p, NEW j \in DOMAIN p,
             IsData(p[i], s), IsData(p[j], s), i < j
      PROVE  p[i].n < p[j].n
  <2>1. i + 1 < j + 1
    BY <1>4, <1>8
  <2> QED
    BY <1>4, <1>8, <2>1 DEF Ordered
<1>9. Ordered(p, s, lo, hi)
  BY <1>7, <1>8 DEF Ordered
<1>10. ASSUME Complete(q, s, lo, hi)
       PROVE  h.n = lo + 1 /\ Ordered(p, s, lo + 1, hi) /\ Complete(p, s, lo + 1, hi)
  <2>1. PICK i \in DOMAIN q : IsData(q[i], s) /\ q[i].n = lo + 1
    <3>1. lo + 1 \in (lo + 1)..hi
      BY <1>6
    <3> QED
      BY <1>10, <3>1 DEF Complete
  <2>2. h.n = lo + 1
    <3>1. CASE i = 1
      BY <1>1, <2>1, <3>1
    <3>2. CASE i # 1
      BY <1>5, <1>6, <1>7, <2>1, <3>2
    <3> QED
      BY <3>1, <3>2
  <2>3. Ordered(p, s, lo + 1, hi)
    BY <1>7, <1>8, <2>2 DEF Ordered
  <2>4. ASSUME NEW n \in (lo + 1 + 1)..hi
        PROVE  \E k \in DOMAIN p : IsData(p[k], s) /\ p[k].n = n
    <3>1. n \in (lo + 1)..hi /\ n # lo + 1
      OBVIOUS
    <3>2. PICK k \in DOMAIN q : IsData(q[k], s) /\ q[k].n = n
      BY <1>10, <3>1 DEF Complete
    <3>3. k # 1
      BY <1>1, <2>2, <3>1, <3>2
    <3> QED
      BY <1>5, <3>2, <3>3
  <2> QED
    BY <2>2, <2>3, <2>4 DEF Complete
<1> QED
  BY <1>6, <1>9, <1>10 DEF p, h

(* The Close leaves the queue: nothing of the stream is behind it, and if  *)
(* no chunk was missing, none is left.                                     *)
LEMMA TailClose ==
  ASSUME NEW q \in Seq(FrameSet), q # << >>, NEW s \in Sids,
         NEW lo \in Int, NEW hi \in Int,
         Head(q).kind = "close", Head(q).sid = s, CloseLast(q, s)
  PROVE  /\ ~Mentions(Tail(q), s) /\ \A kind : ~Has(Tail(q), kind, s)
         /\ Ordered(Tail(q), s, lo, hi)
         /\ OpenFirst(Tail(q), s) /\ CloseLast(Tail(q), s)
         /\ Complete(q, s, lo, hi) => hi <= lo
         /\ hi <= lo => Complete(Tail(q), s, lo, hi)
         /\ Has(q, "close", s) /\ ~Has(q, "open", s)
<1> DEFINE p == Tail(q) h == Head(q)
<1>1. /\ Len(q) \in Nat \ {0} /\ DOMAIN q = 1..Len(q) /\ q[1] = h
      /\ DOMAIN p = 1..(Len(q) - 1)
      /\ \A i \in 1..(Len(q) - 1) : p[i] = q[i + 1]
  BY TailAt
<1>2. h.kind = "close" /\ h.sid = s
  OBVIOUS
<1> HIDE DEF p, h
<1>3. \A i \in DOMAIN q : i # 1 => q[i].sid # s
  BY <1>1, <1>2 DEF CloseLast
<1>4. \A i \in DOMAIN p : p[i].sid # s
  BY <1>1, <1>3
<1>5. ~Mentions(p, s) /\ \A kind : ~Has(p, kind, s)
  BY <1>4 DEF Mentions, Has
<1>6. Ordered(p, s, lo, hi) /\ OpenFirst(p, s) /\ CloseLast(p, s)
  BY <1>4 DEF Ordered, IsData, OpenFirst, CloseLast
<1>7. ASSUME Complete(q, s, lo, hi), ~(hi <= lo) PROVE FALSE
  <2>1. lo + 1 \in (lo + 1)..hi
    BY <1>7
  <2>2. PICK i \in DOMAIN q : IsData(q[i], s) /\ q[i].n = lo + 1
    BY <1>7, <2>1 DEF Complete
  <2> QED
    BY <1>1, <1>2, <1>3, <2>2 DEF IsData
<1>8. hi <= lo => Complete(p, s, lo, hi)
  BY DEF Complete
<1>9. Has(q, "close", s) /\ ~Has(q, "open", s)
  BY <1>1, <1>2, <1>3 DEF Has
<1> QED
  BY <1>5, <1>6, <1>7, <1>8, <1>9 DEF p, h

(* The Open leaves the queue, and no other Open is behind it.              *)
LEMMA TailOpen ==
  ASSUME NEW q \in Seq(FrameSet), q # << >>, NEW s \in Sids,
         NEW lo \in Int, NEW hi \in Int,
         Head(q).kind = "open", Head(q).sid = s, OpenFirst(q, s)
  PROVE  /\ ~Has(Tail(q), "open", s) /\ OpenFirst(Tail(q), s)
         /\ Has(q, "open", s)
         /\ Has(Tail(q), "close", s) <=> Has(q, "close", s)
         /\ Ordered(q, s, lo, hi) => Ordered(Tail(q), s, lo, hi)
         /\ Complete(q, s, lo, hi) => Complete(Tail(q), s, lo, hi)
         /\ CloseLast(q, s) => CloseLast(Tail(q), s)
<1> DEFINE p == Tail(q) h == Head(q)
<1>1. /\ Len(q) \in Nat \ {0} /\ DOMAIN q = 1..Len(q) /\ q[1] = h
      /\ DOMAIN p = 1..(Len(q) - 1)
      /\ \A i \in 1..(Len(q) - 1) : p[i] = q[i + 1]
  BY TailAt
<1>2. h.kind = "open" /\ h.sid = s
  OBVIOUS
<1> HIDE DEF p, h
<1>3. ASSUME NEW i \in DOMAIN p
      PROVE  i \in Int /\ i + 1 \in DOMAIN q /\ p[i] = q[i + 1] /\ 1 < i + 1
  BY <1>1
<1>4. ASSUME NEW i \in DOMAIN q, i # 1
      PROVE  i \in Int /\ i - 1 \in DOMAIN p /\ p[i - 1] = q[i] /\ 1 < i
  <2>1. i \in Int /\ i - 1 \in 1..(Len(q) - 1) /\ (i - 1) + 1 = i
    BY <1>1, <1>4
  <2> QED
    BY <1>1, <2>1
<1>5. ~Has(p, "open", s)
  <2> SUFFICES ASSUME NEW i \in DOMAIN p, p[i].kind = "open", p[i].sid = s
               PROVE  FALSE
    BY DEF Has
  <2>1. i + 1 <= 1
    BY <1>1, <1>2, <1>3 DEF OpenFirst
  <2> QED
    BY <1>3, <2>1
<1>6. OpenFirst(p, s)
  BY <1>5 DEF OpenFirst, Has
<1>7. Has(q, "open", s)
  <2>1. 1 \in DOMAIN q
    BY <1>1
  <2> QED
    BY <1>1, <1>2, <2>1 DEF Has
<1>11. Has(p, "close", s) <=> Has(q, "close", s)
  BY <1>1, <1>2, <1>3, <1>4 DEF Has
<1>8. ASSUME Ordered(q, s, lo, hi) PROVE Ordered(p, s, lo, hi)
  <2>1. \A i \in DOMAIN p : IsData(p[i], s) => lo < p[i].n /\ p[i].n <= hi
    BY <1>3, <1>8 DEF Ordered
  <2>2. ASSUME NEW i \in DOMAIN p, NEW j \in DOMAIN p,
               IsData(p[i], s), IsData(p[j], s), i < j
        PROVE  p[i].n < p[j].n
    <3>1. i + 1 < j + 1
      BY <1>3, <2>2
    <3> QED
      BY <1>3, <1>8, <2>2, <3>1 DEF Ordered
  <2> QED
    BY <2>1, <2>2 DEF Ordered
<1>9. ASSUME Complete(q, s, lo, hi) PROVE Complete(p, s, lo, hi)
  <2> SUFFICES ASSUME NEW n \in (lo + 1)..hi
               PROVE  \E i \in DOMAIN p : IsData(p[i], s) /\ p[i].n = n
    BY DEF Complete
  <2>1. PICK k \in DOMAIN q : IsData(q[k], s) /\ q[k].n = n
    BY <1>9 DEF Complete
  <2>2. k # 1
    BY <1>1, <1>2, <2>1 DEF IsData
  <2> QED
    BY <1>4, <2>1, <2>2
<1>10. ASSUME CloseLast(q, s) PROVE CloseLast(p, s)
  <2> SUFFICES ASSUME NEW i \in DOMAIN p, NEW j \in DOMAIN p,
                      p[i].kind = "close", p[i].sid = s, i < j, p[j].sid = s
               PROVE  FALSE
    BY DEF CloseLast
  <2>1. i + 1 < j + 1
    BY <1>3
  <2> QED
    BY <1>3, <1>10, <2>1 DEF CloseLast
<1> QED
  BY <1>5, <1>6, <1>7, <1>8, <1>9, <1>10, <1>11 DEF p, h

-----------------------------------------------------------------------------
(* Types                                                                   *)

DataFrames == {f \in FrameSet : f.kind = "data" /\ f.n \in Chunks}
WellFormed == {f \in FrameSet : f.kind = "data" => f.n \in Chunks}

(* Data frames carry a chunk, the two loops hold data frames only, and a   *)
(* pump that is sending has read something.                                *)
TypeInv ==
  /\ TypeOK
  /\ toSpoke \in Seq(WellFormed) /\ toHub \in Seq(WellFormed)
  /\ hubW \in DataFrames \cup {NoFrame} /\ cliW \in DataFrames \cup {NoFrame}
  /\ \A s \in Sids : pump[s] = "sending" => targetSent[s] # 0

(* A queue of well-formed frames is a queue of frames.                     *)
LEMMA WellFormedSeq == ASSUME NEW q \in Seq(WellFormed) PROVE q \in Seq(FrameSet)
  BY DEF WellFormed

(* NoFrame is no frame, and what the two programs send is well formed.     *)
LEMMA FramesTyped ==
  /\ NoFrame \notin FrameSet
  /\ \A s \in Sids :
       /\ Frame("open", s, 0) \in WellFormed
       /\ Frame("close", s, 0) \in WellFormed
       /\ \A n \in Chunks : Frame("data", s, n) \in WellFormed
  BY DEF NoFrame, Frame, FrameSet, WellFormed

(* Queuing a frame and taking one keep the queues typed.                   *)
LEMMA AppendTyped ==
  ASSUME NEW q \in Seq(WellFormed), NEW f \in WellFormed
  PROVE  Append(q, f) \in Seq(WellFormed) /\ Append(q, f) \in Seq(FrameSet)
  BY WellFormedSeq, AppendAt

(* Taking a frame keeps a queue well formed, and yields such a frame.      *)
LEMMA TailTyped ==
  ASSUME NEW q \in Seq(WellFormed), q # << >>
  PROVE  /\ Tail(q) \in Seq(WellFormed) /\ Tail(q) \in Seq(FrameSet)
         /\ Head(q) \in WellFormed /\ Head(q) \in FrameSet
         /\ Head(q).kind = "data" => Head(q) \in DataFrames
<1>1. Tail(q) \in Seq(WellFormed) /\ Head(q) \in WellFormed
  BY TailAt
<1> QED
  BY <1>1, WellFormedSeq DEF WellFormed, DataFrames

(* A new session has empty channels and no streams.                        *)
LEMMA TypeInvInit == Init => TypeInv
<1> SUFFICES ASSUME Init PROVE TypeInv
  OBVIOUS
<1>1. << >> \in Seq(WellFormed) /\ << >> \in Seq(FrameSet) /\ << >> \in Seq(Chunks)
  OBVIOUS
<1>2. \A s \in Sids : MaxChunks[s] \in Nat
  BY CapsAssumption
<1> QED
  BY <1>1, <1>2 DEF Init, TypeInv, TypeOK

(* The next chunk of either side is a chunk.                               *)
LEMMA NextChunk ==
  ASSUME NEW s \in Sids, NEW n \in Nat, n < MaxChunks[s]
  PROVE  n + 1 \in Chunks
<1>1. MaxChunks[s] \in Nat /\ n + 1 \in 1..MaxChunks[s]
  BY CapsAssumption
<1> QED
  BY <1>1, ChunkNumbers

(* Steps of a peer, a target and the tasks of accept_loop keep the types.  *)
LEMMA TypeInvHub ==
  ASSUME TypeInv, NEW s \in Sids, HubTasks(s) \/ Environment(s)
  PROVE  TypeInv'
<1> USE DEF TypeInv, TypeOK, frames, hubVars, peerVars, clientVars, targetVars
<1>0. MaxChunks[s] \in Nat
  BY CapsAssumption
<1>1. CASE OpenSent(s)
  <2>1. toSpoke' \in Seq(WellFormed) /\ toSpoke' \in Seq(FrameSet)
    BY <1>1, FramesTyped, AppendTyped DEF OpenSent, SendToSpoke
  <2> QED
    BY <1>1, <2>1 DEF OpenSent, SendToSpoke
<1>2. CASE OpenFailed(s)
  BY <1>2 DEF OpenFailed
<1>3. CASE UpstreamData(s)
  <2>1. peerSent[s] + 1 \in Chunks /\ peerSent[s] + 1 \in Nat /\ peerSent[s] + 1 <= MaxChunks[s]
    BY <1>0, <1>3, NextChunk DEF UpstreamData
  <2>2. toSpoke' \in Seq(WellFormed) /\ toSpoke' \in Seq(FrameSet)
    BY <1>3, <2>1, FramesTyped, AppendTyped DEF UpstreamData, SendToSpoke
  <2> QED
    BY <1>3, <2>1, <2>2 DEF UpstreamData, SendToSpoke
<1>4. CASE UpstreamEof(s)
  <2>1. toSpoke' \in Seq(WellFormed) /\ toSpoke' \in Seq(FrameSet)
    BY <1>4, FramesTyped, AppendTyped DEF UpstreamEof, SendToSpoke
  <2> QED
    BY <1>4, <2>1 DEF UpstreamEof, SendToSpoke
<1>5. CASE UpstreamDataFailed(s)
  <2>1. peerSent[s] + 1 \in Nat /\ peerSent[s] + 1 <= MaxChunks[s]
    BY <1>0, <1>5 DEF UpstreamDataFailed
  <2> QED
    BY <1>5, <2>1 DEF UpstreamDataFailed
<1>6. CASE UpstreamBreak(s)
  BY <1>6 DEF UpstreamBreak
<1>7. CASE UpstreamRemove(s)
  BY <1>7 DEF UpstreamRemove
<1>8. CASE DownstreamWrite(s)
  <2>1. writer[s] \in Seq(Chunks) /\ writer[s] # << >> /\ peerGot[s] \in Seq(Chunks)
    BY <1>8 DEF DownstreamWrite
  <2>2. Head(writer[s]) \in Chunks /\ Tail(writer[s]) \in Seq(Chunks)
    BY <2>1, TailAt
  <2>3. Append(peerGot[s], Head(writer[s])) \in Seq(Chunks)
    BY <2>1, <2>2, AppendAt
  <2> QED
    BY <1>8, <2>2, <2>3 DEF DownstreamWrite
<1>9. CASE DownstreamEnd(s)
  BY <1>9 DEF DownstreamEnd
<1>10. CASE Accept(s)
  BY <1>10 DEF Accept
<1>11. CASE PeerEof(s)
  BY <1>11 DEF PeerEof
<1>12. CASE PeerReset(s)
  BY <1>12 DEF PeerReset
<1>13. CASE TargetEof(s)
  BY <1>13 DEF TargetEof
<1> QED
  BY <1>1, <1>2, <1>3, <1>4, <1>5, <1>6, <1>7, <1>8, <1>9, <1>10, <1>11, <1>12, <1>13
  DEF HubTasks, Environment

(* Steps of the two frame loops keep the types.                            *)
LEMMA TypeInvLoops ==
  ASSUME TypeInv, RecvLoop \/ FrameLoop \/ SessionDown
  PROVE  TypeInv'
<1> USE DEF TypeInv, TypeOK, frames, hubVars, peerVars, clientVars, targetVars
<1>0. ASSUME NEW w \in DataFrames \cup {NoFrame}, w # NoFrame
      PROVE  w.sid \in Sids /\ w.n \in Chunks /\ w \in FrameSet
  BY <1>0 DEF DataFrames, FrameSet
<1>1. CASE HubData
  <2>1. /\ toHub' \in Seq(WellFormed) /\ toHub' \in Seq(FrameSet)
        /\ Head(toHub) \in DataFrames /\ Head(toHub) \in FrameSet
    BY <1>1, TailTyped DEF HubData, HubHead, HubPop
  <2> QED
    BY <1>1, <2>1 DEF HubData, HubHead, HubPop
<1>2. CASE HubDeliver
  <2>1. hubW.sid \in Sids /\ hubW.n \in Chunks
    BY <1>0, <1>2 DEF HubDeliver
  <2>2. Append(writer[hubW.sid], hubW.n) \in Seq(Chunks)
    BY <2>1, AppendAt
  <2> QED
    BY <1>2, <2>1, <2>2 DEF HubDeliver
<1>3. CASE HubDeliverFailed
  BY <1>3 DEF HubDeliverFailed
<1>4. CASE HubClose
  <2>1. toHub' \in Seq(WellFormed) /\ toHub' \in Seq(FrameSet)
    BY <1>4, TailTyped DEF HubClose, HubHead, HubPop
  <2> QED
    BY <1>4, <2>1 DEF HubClose, HubHead, HubPop
<1>5. CASE CliOpen
  <2>1. /\ toSpoke' \in Seq(WellFormed) /\ toSpoke' \in Seq(FrameSet)
        /\ Head(toSpoke) \in FrameSet
    BY <1>5, TailTyped DEF CliOpen, CliHead, CliPop
  <2>2. Head(toSpoke).sid \in Sids
    BY <2>1 DEF FrameSet
  <2> QED
    BY <1>5, <2>1, <2>2 DEF CliOpen, CliHead, CliPop
<1>6. CASE CliOpenUnknown
  <2>1. /\ toSpoke' \in Seq(WellFormed) /\ toSpoke' \in Seq(FrameSet)
        /\ Head(toSpoke) \in FrameSet
    BY <1>6, TailTyped DEF CliOpenUnknown, CliHead
  <2>2. Head(toSpoke).sid \in Sids
    BY <2>1 DEF FrameSet
  <2>3. toHub' \in Seq(WellFormed) /\ toHub' \in Seq(FrameSet)
    BY <1>6, <2>2, FramesTyped, AppendTyped DEF CliOpenUnknown
  <2> QED
    BY <1>6, <2>1, <2>3 DEF CliOpenUnknown, CliHead
<1>7. CASE CliData
  <2>1. /\ toSpoke' \in Seq(WellFormed) /\ toSpoke' \in Seq(FrameSet)
        /\ Head(toSpoke) \in DataFrames /\ Head(toSpoke) \in FrameSet
    BY <1>7, TailTyped DEF CliData, CliHead, CliPop
  <2> QED
    BY <1>7, <2>1 DEF CliData, CliHead, CliPop
<1>8. CASE CliDeliver
  <2>1. cliW.sid \in Sids /\ cliW.n \in Chunks
    BY <1>0, <1>8 DEF CliDeliver
  <2>2. Append(inbound[cliW.sid], cliW.n) \in Seq(Chunks)
    BY <2>1, AppendAt
  <2> QED
    BY <1>8, <2>1, <2>2 DEF CliDeliver
<1>9. CASE CliClose
  <2>1. toSpoke' \in Seq(WellFormed) /\ toSpoke' \in Seq(FrameSet)
    BY <1>9, TailTyped DEF CliClose, CliHead, CliPop
  <2> QED
    BY <1>9, <2>1 DEF CliClose, CliHead, CliPop
<1>10. CASE SessionDown
  <2>1. << >> \in Seq(WellFormed) /\ << >> \in Seq(FrameSet)
    OBVIOUS
  <2> QED
    BY <1>10, <2>1 DEF SessionDown
<1> QED
  BY <1>1, <1>2, <1>3, <1>4, <1>5, <1>6, <1>7, <1>8, <1>9, <1>10
  DEF RecvLoop, FrameLoop

(* Steps of a pump keep the types.                                         *)
LEMMA TypeInvPump ==
  ASSUME TypeInv, NEW s \in Sids, RunStream(s)
  PROVE  TypeInv'
<1> USE DEF TypeInv, TypeOK, frames, hubVars, peerVars, clientVars, targetVars
<1>0. MaxChunks[s] \in Nat /\ << >> \in Seq(Chunks)
  BY CapsAssumption
<1>00. ASSUME SendToHub(Frame("close", s, 0)) \/ (~up /\ UNCHANGED frames)
       PROVE  /\ toHub' \in Seq(WellFormed) /\ toHub' \in Seq(FrameSet)
              /\ up' = up /\ toSpoke' = toSpoke
  BY <1>00, FramesTyped, AppendTyped DEF SendToHub
<1>1. CASE DialOk(s)
  BY <1>1 DEF DialOk
<1>2. CASE DialFail(s)
  <2>1. PICK how \in {"closed", "broken"} : EndPump(s, how)
    BY <1>2 DEF DialFail
  <2>2. SendToHub(Frame("close", s, 0)) \/ (~up /\ UNCHANGED frames)
    BY <1>2 DEF DialFail
  <2> QED
    BY <1>0, <1>00, <1>2, <2>1, <2>2 DEF DialFail, EndPump
<1>3. CASE PumpRead(s)
  <2>1. targetSent[s] + 1 \in Nat /\ targetSent[s] + 1 <= MaxChunks[s] /\ targetSent[s] + 1 # 0
    BY <1>0, <1>3 DEF PumpRead
  <2> QED
    BY <1>3, <2>1 DEF PumpRead
<1>4. CASE PumpSend(s)
  <2>1. targetSent[s] \in 1..MaxChunks[s]
    BY <1>0, <1>4 DEF PumpSend
  <2>2. targetSent[s] \in Chunks
    BY <2>1, ChunkNumbers
  <2>3. toHub' \in Seq(WellFormed) /\ toHub' \in Seq(FrameSet)
    BY <1>4, <2>2, FramesTyped, AppendTyped DEF PumpSend, SendToHub
  <2> QED
    BY <1>4, <2>3 DEF PumpSend, SendToHub
<1>5. CASE PumpSendFailed(s)
  BY <1>0, <1>5 DEF PumpSendFailed, EndPump
<1>6. CASE PumpReadEof(s)
  BY <1>6 DEF PumpReadEof
<1>7. CASE PumpEof(s)
  <2>1. PICK how \in {"closed", "broken"} : EndPump(s, how)
    BY <1>7 DEF PumpEof
  <2>2. SendToHub(Frame("close", s, 0)) \/ (~up /\ UNCHANGED frames)
    BY <1>7 DEF PumpEof
  <2> QED
    BY <1>0, <1>00, <1>7, <2>1, <2>2 DEF PumpEof, EndPump
<1>8. CASE PumpWrite(s)
  <2>1. inbound[s] \in Seq(Chunks) /\ inbound[s] # << >> /\ targetGot[s] \in Seq(Chunks)
    BY <1>8 DEF PumpWrite
  <2>2. Head(inbound[s]) \in Chunks /\ Tail(inbound[s]) \in Seq(Chunks)
    BY <2>1, TailAt
  <2>3. Append(targetGot[s], Head(inbound[s])) \in Seq(Chunks)
    BY <2>1, <2>2, AppendAt
  <2> QED
    BY <1>8, <2>2, <2>3 DEF PumpWrite
<1>9. CASE PumpWriteFailed(s)
  BY <1>0, <1>9 DEF PumpWriteFailed, EndPump
<1>10. CASE PumpClosed(s)
  BY <1>0, <1>10 DEF PumpClosed, EndPump
<1> QED
  BY <1>1, <1>2, <1>3, <1>4, <1>5, <1>6, <1>7, <1>8, <1>9, <1>10 DEF RunStream

(* Every step of the hub, the spoke and their peers keeps the types.       *)
LEMMA TypeInvStep == TypeInv /\ [Next]_vars => TypeInv'
<1> SUFFICES ASSUME TypeInv, [Next]_vars PROVE TypeInv'
  OBVIOUS
<1>1. CASE UNCHANGED vars
  BY <1>1 DEF TypeInv, TypeOK, vars, frames, hubVars, peerVars, clientVars, targetVars
<1> QED
  BY <1>1, TypeInvHub, TypeInvLoops, TypeInvPump DEF Next

(* The strengthened type invariant holds throughout.                       *)
LEMMA TypeInvariant == Spec => []TypeInv
  BY TypeInvInit, TypeInvStep, PTL DEF Spec

(* Frames, channels and counters keep their types, and no side sends more  *)
(* chunks than it has, wherever a send has to wait or fails.               *)
THEOREM StreamTypeCorrect == Spec => []TypeOK
<1>1. TypeInv => TypeOK
  BY DEF TypeInv
<1> QED
  BY <1>1, TypeInvariant, PTL

-----------------------------------------------------------------------------
(* The life of a stream and the chunks on their way                        *)

Consecutive(q, lo) == \A i \in DOMAIN q : q[i] = lo + i

Holding(w, s) == w # NoFrame /\ w.sid = s
InHand(w, s) == IF Holding(w, s) THEN 1 ELSE 0

(* Chunks of the peer that have reached the spoke, and chunks of the       *)
(* target that have reached the hub.                                       *)
Arrived(s) == Len(targetGot[s]) + Len(inbound[s]) + InHand(cliW, s)
Returned(s) == Len(peerGot[s]) + Len(writer[s]) + InHand(hubW, s)

(* Chunks the pump has handed to hub_tx or will not hand over any more.    *)
SentOut(s) == IF pump[s] = "sending" THEN targetSent[s] - 1 ELSE targetSent[s]

Pumping(s) == pump[s] \in {"dial", "run", "sending", "closing"}
Over(s) == upTask[s] \in {"removing", "done"}
Fresh(s) == upTask[s] \in {"none", "opening"}

(* No pump runs, and none will be started.                                 *)
Quiet(s) == pump[s] \in {"none", "closed", "broken"} /\ ~Has(toSpoke, "open", s)

(* The order of events in a stream's life: Open is sent first and once,    *)
(* nothing follows a Close, and the map entries match the tasks.           *)
Life(s) ==
  /\ (peer[s] = "none") <=> (upTask[s] = "none")
  /\ Fresh(s) => /\ dnTask[s] = "none" /\ pump[s] = "none" /\ peerSent[s] = 0
                 /\ ~Mentions(toSpoke, s) /\ ~Mentions(toHub, s)
  /\ pump[s] = "none" => /\ targetSent[s] = 0 /\ targetGot[s] = << >>
                         /\ inbound[s] = << >> /\ ~Holding(cliW, s)
  /\ s \in cstreams => Pumping(s)
  /\ s \in NoTarget => pump[s] = "none"
  /\ Has(toSpoke, "open", s) => pump[s] = "none"
  /\ OpenFirst(toSpoke, s) /\ CloseLast(toSpoke, s) /\ CloseLast(toHub, s)
  /\ Has(toSpoke, "close", s) => Over(s)
  /\ Has(toHub, "close", s) => Quiet(s)
  /\ up /\ peer[s] = "open" => ~Over(s)
  /\ s \in streams => upTask[s] # "none" /\ (up \/ upTask[s] = "opening")
  /\ up /\ upTask[s] = "opening" => s \in streams

(* Peer to target.  While the pump lives, what the target got, the inbound *)
(* channel, the frame in the loop's hands and the queued frames are the    *)
(* chunks 1..peerSent, in this order; if the session is up, none is        *)
(* missing.  A pump whose senders are gone has all of them.                *)
ToTarget(s) ==
  /\ Consecutive(targetGot[s], 0) /\ Len(targetGot[s]) <= peerSent[s]
  /\ ~PumpEnded(s) =>
       /\ Consecutive(inbound[s], Len(targetGot[s]))
       /\ Holding(cliW, s) => cliW.n = Arrived(s)
       /\ Arrived(s) <= peerSent[s]
       /\ Ordered(toSpoke, s, Arrived(s), peerSent[s])
       /\ up /\ s \notin NoTarget => Complete(toSpoke, s, Arrived(s), peerSent[s])
  /\ up /\ pump[s] = "none" /\ s \notin NoTarget /\ ~Fresh(s) =>
       Has(toSpoke, "open", s)
  /\ Pumping(s) /\ s \notin cstreams => Arrived(s) = peerSent[s] /\ Over(s)
  /\ pump[s] = "drained" => Len(targetGot[s]) = peerSent[s] /\ Over(s)

(* Target to peer.  None is missing as long as the writer is in the map;   *)
(* if it leaves while the peer is open, all have arrived and no more come. *)
ToPeer(s) ==
  /\ Consecutive(peerGot[s], 0) /\ Consecutive(writer[s], Len(peerGot[s]))
  /\ Holding(hubW, s) => hubW.n = Returned(s)
  /\ Returned(s) <= SentOut(s)
  /\ Ordered(toHub, s, Returned(s), SentOut(s))
  /\ s \in streams => Complete(toHub, s, Returned(s), SentOut(s))
  /\ up /\ peer[s] = "open" /\ upTask[s] = "run" /\ s \notin streams =>
       Quiet(s) /\ Returned(s) = targetSent[s]
  /\ up /\ peer[s] = "open" /\ dnTask[s] = "done" =>
       Quiet(s) /\ s \notin streams /\ Len(peerGot[s]) = targetSent[s]

StreamInv(s) == Life(s) /\ ToTarget(s) /\ ToPeer(s)

(* A step that is not about stream s.                                      *)
Elsewhere(s) ==
  /\ up' = up
  /\ (s \in streams') <=> (s \in streams)
  /\ (s \in cstreams') <=> (s \in cstreams)
  /\ writer'[s] = writer[s] /\ inbound'[s] = inbound[s]
  /\ upTask'[s] = upTask[s] /\ dnTask'[s] = dnTask[s] /\ pump'[s] = pump[s]
  /\ peer'[s] = peer[s] /\ peerSent'[s] = peerSent[s] /\ peerGot'[s] = peerGot[s]
  /\ targetSent'[s] = targetSent[s] /\ targetGot'[s] = targetGot[s]
  /\ Holding(hubW', s) <=> Holding(hubW, s)
  /\ Holding(hubW, s) => hubW' = hubW
  /\ Holding(cliW', s) <=> Holding(cliW, s)
  /\ Holding(cliW, s) => cliW' = cliW
  /\ SameFor(toSpoke', toSpoke, s) /\ SameFor(toHub', toHub, s)

(* The counts are integers.                                                *)
LEMMA CountsTyped ==
  ASSUME TypeInv, NEW s \in Sids
  PROVE  /\ Len(targetGot[s]) \in Nat /\ Len(inbound[s]) \in Nat
         /\ Len(peerGot[s]) \in Nat /\ Len(writer[s]) \in Nat
         /\ peerSent[s] \in Nat /\ targetSent[s] \in Nat
         /\ InHand(cliW, s) \in {0, 1} /\ InHand(hubW, s) \in {0, 1}
         /\ Arrived(s) \in Nat /\ Returned(s) \in Nat /\ SentOut(s) \in Nat
<1>1. /\ targetGot[s] \in Seq(Chunks) /\ inbound[s] \in Seq(Chunks)
      /\ peerGot[s] \in Seq(Chunks) /\ writer[s] \in Seq(Chunks)
      /\ peerSent[s] \in Nat /\ targetSent[s] \in Nat
      /\ pump[s] = "sending" => targetSent[s] # 0
  BY DEF TypeInv, TypeOK
<1>2. /\ InHand(cliW, s) \in Nat /\ InHand(hubW, s) \in Nat
      /\ InHand(cliW, s) \in {0, 1} /\ InHand(hubW, s) \in {0, 1}
  BY DEF InHand
<1>3. /\ Len(targetGot[s]) \in Nat /\ Len(inbound[s]) \in Nat
      /\ Len(peerGot[s]) \in Nat /\ Len(writer[s]) \in Nat
  BY <1>1
<1>0. \A a, b, c \in Nat : a + b + c \in Nat
  OBVIOUS
<1>4. Arrived(s) \in Nat /\ Returned(s) \in Nat
  BY <1>0, <1>2, <1>3, Zenon DEF Arrived, Returned
<1>5. SentOut(s) \in Nat
  BY <1>1 DEF SentOut
<1> QED
  BY <1>1, <1>2, <1>3, <1>4, <1>5

(* It leaves the invariant of s as it was.                                 *)
LEMMA ElsewhereKeeps ==
  ASSUME TypeInv, NEW s \in Sids, StreamInv(s), Elsewhere(s)
  PROVE  StreamInv(s)'
<1>1. /\ Arrived(s)' = Arrived(s) /\ Returned(s)' = Returned(s)
      /\ SentOut(s)' = SentOut(s)
  BY DEF Elsewhere, Arrived, Returned, SentOut, InHand
<1>2. Arrived(s) \in Int /\ Returned(s) \in Int /\ SentOut(s) \in Int /\ peerSent[s] \in Int
  BY CountsTyped
<1>3. /\ Has(toSpoke', "open", s) <=> Has(toSpoke, "open", s)
      /\ Has(toSpoke', "close", s) <=> Has(toSpoke, "close", s)
      /\ Has(toHub', "close", s) <=> Has(toHub, "close", s)
      /\ Mentions(toSpoke', s) <=> Mentions(toSpoke, s)
      /\ Mentions(toHub', s) <=> Mentions(toHub, s)
      /\ OpenFirst(toSpoke, s) => OpenFirst(toSpoke', s)
      /\ CloseLast(toSpoke, s) => CloseLast(toSpoke', s)
      /\ CloseLast(toHub, s) => CloseLast(toHub', s)
  BY DEF Elsewhere, SameFor
<1>4. /\ Ordered(toSpoke, s, Arrived(s), peerSent[s]) => Ordered(toSpoke', s, Arrived(s), peerSent[s])
      /\ Complete(toSpoke, s, Arrived(s), peerSent[s]) => Complete(toSpoke', s, Arrived(s), peerSent[s])
      /\ Ordered(toHub, s, Returned(s), SentOut(s)) => Ordered(toHub', s, Returned(s), SentOut(s))
      /\ Complete(toHub, s, Returned(s), SentOut(s)) => Complete(toHub', s, Returned(s), SentOut(s))
  BY <1>2 DEF Elsewhere, SameFor
<1>5. /\ (Fresh(s)' <=> Fresh(s)) /\ (Over(s)' <=> Over(s)) /\ (Pumping(s)' <=> Pumping(s))
      /\ (Quiet(s)' <=> Quiet(s)) /\ (PumpEnded(s)' <=> PumpEnded(s))
  BY <1>3 DEF Elsewhere, Fresh, Over, Pumping, Quiet, PumpEnded
<1>6. Life(s)'
  BY <1>3, <1>5 DEF StreamInv, Life, Elsewhere
<1>7. ToTarget(s)'
  BY <1>1, <1>3, <1>4, <1>5 DEF StreamInv, ToTarget, Elsewhere
<1>8. ToPeer(s)'
  BY <1>1, <1>3, <1>4, <1>5 DEF StreamInv, ToPeer, Elsewhere
<1> QED
  BY <1>6, <1>7, <1>8 DEF StreamInv

(* A queue that does not change is the same for every stream.              *)
LEMMA SameForRefl == ASSUME NEW q, NEW s PROVE SameFor(q, q, s)
  BY DEF SameFor

(* Equal counts, where a step touches none of the channels of s.           *)
LEMMA CountsKept ==
  ASSUME NEW s \in Sids,
         writer'[s] = writer[s] /\ inbound'[s] = inbound[s],
         peerGot'[s] = peerGot[s] /\ targetGot'[s] = targetGot[s],
         hubW' = hubW /\ cliW' = cliW
  PROVE  Arrived(s)' = Arrived(s) /\ Returned(s)' = Returned(s)
  BY DEF Arrived, Returned, InHand, Holding

(* Chunks enter and leave a channel in their order.                        *)
LEMMA ConsecutiveAppend ==
  ASSUME NEW q \in Seq(Chunks), NEW lo \in Nat, Consecutive(q, lo),
         NEW x \in Chunks, x = lo + Len(q) + 1
  PROVE  Consecutive(Append(q, x), lo) /\ Len(Append(q, x)) = Len(q) + 1
<1> DEFINE p == Append(q, x)
<1>1. /\ DOMAIN p = 1..(Len(q) + 1) /\ DOMAIN q = 1..Len(q) /\ Len(q) \in Nat
      /\ \A i \in 1..Len(q) : p[i] = q[i]
      /\ p[Len(q) + 1] = x
  BY AppendAt
<1>2. Len(p) = Len(q) + 1
  OBVIOUS
<1> HIDE DEF p
<1>3. Consecutive(p, lo)
  <2> SUFFICES ASSUME NEW i \in DOMAIN p PROVE p[i] = lo + i
    BY DEF Consecutive
  <2>1. CASE i = Len(q) + 1
    BY <1>1, <2>1
  <2>2. CASE i # Len(q) + 1
    BY <1>1, <2>2 DEF Consecutive
  <2> QED
    BY <2>1, <2>2
<1> QED
  BY <1>2, <1>3 DEF p

(* The first chunk of a channel is the next one, and the rest follows it.  *)
LEMMA ConsecutiveTail ==
  ASSUME NEW q \in Seq(Chunks), q # << >>, NEW lo \in Nat, Consecutive(q, lo)
  PROVE  /\ Head(q) = lo + 1 /\ Consecutive(Tail(q), lo + 1)
         /\ Len(Tail(q)) = Len(q) - 1 /\ Len(q) \in Nat \ {0}
<1> DEFINE p == Tail(q)
<1>1. /\ Len(q) \in Nat \ {0} /\ DOMAIN q = 1..Len(q) /\ Head(q) = q[1]
      /\ DOMAIN p = 1..(Len(q) - 1)
      /\ \A i \in 1..(Len(q) - 1) : p[i] = q[i + 1]
      /\ Len(p) = Len(q) - 1
  BY TailAt
<1> HIDE DEF p
<1>2. Head(q) = lo + 1
  BY <1>1 DEF Consecutive
<1>3. Consecutive(p, lo + 1)
  <2> SUFFICES ASSUME NEW i \in DOMAIN p PROVE p[i] = lo + 1 + i
    BY DEF Consecutive
  <2>1. i \in Int /\ i + 1 \in DOMAIN q /\ p[i] = q[i + 1]
    BY <1>1
  <2>2. q[i + 1] = lo + (i + 1)
    BY <2>1 DEF Consecutive
  <2> QED
    BY <2>1, <2>2
<1> QED
  BY <1>1, <1>2, <1>3 DEF p

(* A chunk that moves from the channel to the socket behind it keeps both  *)
(* consecutive and their sum the same.                                     *)
LEMMA MoveOn ==
  ASSUME NEW got \in Seq(Chunks), NEW chan \in Seq(Chunks), chan # << >>,
         Consecutive(got, 0), Consecutive(chan, Len(got))
  PROVE  /\ Consecutive(Append(got, Head(chan)), 0)
         /\ Consecutive(Tail(chan), Len(Append(got, Head(chan))))
         /\ Len(Append(got, Head(chan))) + Len(Tail(chan)) = Len(got) + Len(chan)
         /\ Len(Append(got, Head(chan))) = Len(got) + 1
         /\ Len(chan) \in Nat \ {0}
<1>1. Len(got) \in Nat /\ Head(chan) \in Chunks
  BY TailAt
<1>2. /\ Head(chan) = Len(got) + 1 /\ Consecutive(Tail(chan), Len(got) + 1)
      /\ Len(Tail(chan)) = Len(chan) - 1 /\ Len(chan) \in Nat \ {0}
  BY <1>1, ConsecutiveTail
<1>3. /\ Consecutive(Append(got, Head(chan)), 0)
      /\ Len(Append(got, Head(chan))) = Len(got) + 1
  BY <1>1, <1>2, ConsecutiveAppend
<1> QED
  BY <1>1, <1>2, <1>3

(* Steps of the stream's own peer, target and hub tasks.                   *)
LEMMA OwnHub ==
  ASSUME TypeInv, TypeInv', NEW s \in Sids, StreamInv(s),
         HubTasks(s) \/ Environment(s)
  PROVE  StreamInv(s)'
<1> USE DEF frames, hubVars, peerVars, clientVars, targetVars, Quiet, Over, Fresh, Pumping, PumpEnded
<1>a. /\ Arrived(s) \in Nat /\ Returned(s) \in Nat /\ SentOut(s) \in Nat
      /\ peerSent[s] \in Nat /\ targetSent[s] \in Nat
  BY CountsTyped
<1>b. toSpoke \in Seq(FrameSet) /\ toHub \in Seq(FrameSet)
  BY DEF TypeInv, TypeOK
<1>c. /\ upTask \in [Sids -> {"none", "opening", "run", "removing", "done"}]
      /\ dnTask \in [Sids -> {"none", "run", "done"}]
      /\ peer \in [Sids -> {"none", "open", "eof", "reset"}]
      /\ peerSent \in [Sids -> Nat]
      /\ DOMAIN peerGot = Sids /\ DOMAIN writer = Sids
  BY DEF TypeInv, TypeOK
<1>1. CASE OpenSent(s)
  <2> DEFINE f == Frame("open", s, 0)
  <2>1. f \in FrameSet /\ f.kind = "open" /\ f.sid = s
    BY FramesTyped DEF Frame, WellFormed
  <2>2. Arrived(s)' = Arrived(s) /\ Returned(s)' = Returned(s) /\ SentOut(s)' = SentOut(s)
    BY <1>1, CountsKept DEF OpenSent, SentOut
  <2>3. ~Mentions(toSpoke, s) /\ ~Mentions(toHub, s)
    BY <1>1 DEF OpenSent, StreamInv, Life
  <2>4. toSpoke' = Append(toSpoke, f)
    BY <1>1 DEF OpenSent, SendToSpoke
  <2>5. /\ Ordered(toSpoke', s, Arrived(s), peerSent[s])
        /\ Has(toSpoke', "open", s) /\ ~Has(toSpoke', "close", s) /\ ~Has(toHub, "close", s)
        /\ OpenFirst(toSpoke', s) /\ CloseLast(toSpoke', s)
        /\ Complete(toSpoke', s, Arrived(s), 0)
    <3>1. Arrived(s) \in Int /\ peerSent[s] \in Int /\ 0 <= Arrived(s)
      BY <1>a
    <3>2. /\ Ordered(toSpoke', s, Arrived(s), peerSent[s])
          /\ Has(toSpoke', "open", s) /\ ~Has(toSpoke', "close", s)
          /\ OpenFirst(toSpoke', s) /\ CloseLast(toSpoke', s)
      BY <1>b, <2>1, <2>3, <2>4, <3>1, AppendOpen
    <3>3. ~Has(toHub, "close", s) /\ Complete(toSpoke', s, Arrived(s), 0)
      BY <2>3, <3>1, NotMentioned, NothingMissing
    <3> QED
      BY <3>2, <3>3
  <2>6. Life(s)'
    BY <1>1, <1>c, <2>5 DEF OpenSent, SendToSpoke, StreamInv, Life
  <2>7. ToTarget(s)'
    BY <1>1, <1>c, <2>2, <2>5 DEF OpenSent, SendToSpoke, StreamInv, Life, ToTarget
  <2>8. ToPeer(s)'
    BY <1>1, <1>c, <2>2, <2>5 DEF OpenSent, SendToSpoke, StreamInv, Life, ToPeer
  <2> QED
    BY <2>6, <2>7, <2>8 DEF StreamInv
<1>2. CASE OpenFailed(s)
  <2>2. Arrived(s)' = Arrived(s) /\ Returned(s)' = Returned(s) /\ SentOut(s)' = SentOut(s)
    BY <1>2, CountsKept DEF OpenFailed, SentOut
  <2>6. Life(s)'
    BY <1>2, <1>c DEF OpenFailed, StreamInv, Life
  <2>7. ToTarget(s)'
    BY <1>2, <1>a, <1>c, <2>2 DEF OpenFailed, StreamInv, Life, ToTarget
  <2>8. ToPeer(s)'
    BY <1>2, <1>a, <1>c, <2>2 DEF OpenFailed, StreamInv, Life, ToPeer
  <2> QED
    BY <2>6, <2>7, <2>8 DEF StreamInv
<1>3. CASE UpstreamBreak(s)
  <2>2. Arrived(s)' = Arrived(s) /\ Returned(s)' = Returned(s) /\ SentOut(s)' = SentOut(s)
    BY <1>3, CountsKept DEF UpstreamBreak, SentOut
  <2>6. Life(s)'
    BY <1>3, <1>c DEF UpstreamBreak, StreamInv, Life
  <2>7. ToTarget(s)'
    BY <1>3, <1>a, <1>c, <2>2 DEF UpstreamBreak, StreamInv, Life, ToTarget
  <2>8. ToPeer(s)'
    BY <1>3, <1>a, <1>c, <2>2 DEF UpstreamBreak, StreamInv, Life, ToPeer
  <2> QED
    BY <2>6, <2>7, <2>8 DEF StreamInv
<1>4. CASE UpstreamRemove(s)
  <2>2. Arrived(s)' = Arrived(s) /\ Returned(s)' = Returned(s) /\ SentOut(s)' = SentOut(s)
    BY <1>4, CountsKept DEF UpstreamRemove, SentOut
  <2>6. Life(s)'
    BY <1>4, <1>c DEF UpstreamRemove, StreamInv, Life
  <2>7. ToTarget(s)'
    BY <1>4, <1>a, <1>c, <2>2 DEF UpstreamRemove, StreamInv, Life, ToTarget
  <2>8. ToPeer(s)'
    BY <1>4, <1>a, <1>c, <2>2 DEF UpstreamRemove, StreamInv, Life, ToPeer
  <2> QED
    BY <2>6, <2>7, <2>8 DEF StreamInv
<1>5. CASE DownstreamEnd(s)
  <2>2. Arrived(s)' = Arrived(s) /\ Returned(s)' = Returned(s) /\ SentOut(s)' = SentOut(s)
    BY <1>5, CountsKept DEF DownstreamEnd, SentOut
  <2>6. Life(s)'
    BY <1>5, <1>c DEF DownstreamEnd, StreamInv, Life
  <2>7. ToTarget(s)'
    BY <1>5, <1>a, <1>c, <2>2 DEF DownstreamEnd, StreamInv, Life, ToTarget
  <2>3. ASSUME writer[s] = << >>, WriterClosed(s) PROVE Returned(s) = Len(peerGot[s])
    BY <2>3, CountsTyped DEF WriterClosed, Returned, InHand, Holding
  <2>8. ToPeer(s)'
    BY <1>5, <1>a, <1>c, <2>2, <2>3 DEF DownstreamEnd, WriterClosed, StreamInv, Life, ToPeer
  <2> QED
    BY <2>6, <2>7, <2>8 DEF StreamInv
<1>6. CASE Accept(s)
  <2>2. Arrived(s)' = Arrived(s) /\ Returned(s)' = Returned(s) /\ SentOut(s)' = SentOut(s)
    BY <1>6, CountsKept DEF Accept, SentOut
  <2>6. Life(s)'
    BY <1>6, <1>c DEF Accept, StreamInv, Life
  <2>7. ToTarget(s)'
    BY <1>6, <1>a, <1>c, <2>2 DEF Accept, StreamInv, Life, ToTarget
  <2>3. Complete(toHub, s, Returned(s), SentOut(s))
    <3>1. SentOut(s) = 0
      BY <1>6 DEF Accept, StreamInv, Life, SentOut
    <3> QED
      BY <1>a, <3>1, NothingMissing
  <2>8. ToPeer(s)'
    BY <1>6, <1>a, <1>c, <2>2, <2>3 DEF Accept, StreamInv, Life, ToPeer
  <2> QED
    BY <2>6, <2>7, <2>8 DEF StreamInv
<1>7. CASE PeerEof(s)
  <2>2. Arrived(s)' = Arrived(s) /\ Returned(s)' = Returned(s) /\ SentOut(s)' = SentOut(s)
    BY <1>7, CountsKept DEF PeerEof, SentOut
  <2>6. Life(s)'
    BY <1>7, <1>c DEF PeerEof, StreamInv, Life
  <2>7. ToTarget(s)'
    BY <1>7, <1>a, <1>c, <2>2 DEF PeerEof, StreamInv, Life, ToTarget
  <2>8. ToPeer(s)'
    BY <1>7, <1>a, <1>c, <2>2 DEF PeerEof, StreamInv, Life, ToPeer
  <2> QED
    BY <2>6, <2>7, <2>8 DEF StreamInv
<1>8. CASE PeerReset(s)
  <2>2. Arrived(s)' = Arrived(s) /\ Returned(s)' = Returned(s) /\ SentOut(s)' = SentOut(s)
    BY <1>8, CountsKept DEF PeerReset, SentOut
  <2>6. Life(s)'
    BY <1>8, <1>c DEF PeerReset, StreamInv, Life
  <2>7. ToTarget(s)'
    BY <1>8, <1>a, <1>c, <2>2 DEF PeerReset, StreamInv, Life, ToTarget
  <2>8. ToPeer(s)'
    BY <1>8, <1>a, <1>c, <2>2 DEF PeerReset, StreamInv, Life, ToPeer
  <2> QED
    BY <2>6, <2>7, <2>8 DEF StreamInv
<1>9. CASE TargetEof(s)
  <2>2. Arrived(s)' = Arrived(s) /\ Returned(s)' = Returned(s) /\ SentOut(s)' = SentOut(s)
    BY <1>9, CountsKept DEF TargetEof, SentOut
  <2>6. Life(s)'
    BY <1>9, <1>c DEF TargetEof, StreamInv, Life
  <2>7. ToTarget(s)'
    BY <1>9, <1>a, <1>c, <2>2 DEF TargetEof, StreamInv, Life, ToTarget
  <2>8. ToPeer(s)'
    BY <1>9, <1>a, <1>c, <2>2 DEF TargetEof, StreamInv, Life, ToPeer
  <2> QED
    BY <2>6, <2>7, <2>8 DEF StreamInv
<1>10. CASE UpstreamData(s)
  <2> DEFINE f == Frame("data", s, peerSent[s] + 1)
  <2>1. peerSent[s] + 1 \in Chunks
    BY <1>a, <1>10, NextChunk DEF UpstreamData
  <2>2. f \in FrameSet /\ f.kind = "data" /\ f.sid = s /\ f.n = peerSent[s] + 1
    BY <2>1, FramesTyped DEF Frame, WellFormed
  <2>3. Arrived(s)' = Arrived(s) /\ Returned(s)' = Returned(s) /\ SentOut(s)' = SentOut(s)
    BY <1>10, CountsKept DEF UpstreamData, SentOut
  <2>4. toSpoke' = Append(toSpoke, f) /\ ~Has(toSpoke, "close", s) /\ peerSent'[s] = peerSent[s] + 1
    BY <1>10, <1>c DEF UpstreamData, SendToSpoke, StreamInv, Life
  <2>5. /\ ~Has(toSpoke', "close", s) /\ (Has(toSpoke', "open", s) <=> Has(toSpoke, "open", s))
        /\ OpenFirst(toSpoke, s) => OpenFirst(toSpoke', s)
        /\ CloseLast(toSpoke', s)
    BY <1>b, <2>2, <2>4, AppendDataLife
  <2>6. ASSUME Arrived(s) <= peerSent[s]
        PROVE  /\ Ordered(toSpoke, s, Arrived(s), peerSent[s]) =>
                     Ordered(toSpoke', s, Arrived(s), peerSent[s] + 1)
               /\ Complete(toSpoke, s, Arrived(s), peerSent[s]) =>
                     Complete(toSpoke', s, Arrived(s), peerSent[s] + 1)
    <3>1. peerSent[s] \in Int /\ Arrived(s) \in Int
      BY <1>a
    <3> QED
      BY <1>b, <2>2, <2>4, <2>6, <3>1, AppendData
  <2>7. Life(s)'
    BY <1>10, <1>c, <2>5 DEF UpstreamData, SendToSpoke, StreamInv, Life
  <2>8. ToTarget(s)'
    BY <1>10, <1>a, <1>c, <2>3, <2>4, <2>5, <2>6
    DEF UpstreamData, SendToSpoke, StreamInv, Life, ToTarget
  <2>9. ToPeer(s)'
    BY <1>10, <1>a, <1>c, <2>3, <2>5 DEF UpstreamData, SendToSpoke, StreamInv, ToPeer
  <2> QED
    BY <2>7, <2>8, <2>9 DEF StreamInv
<1>11. CASE UpstreamEof(s)
  <2> DEFINE f == Frame("close", s, 0)
  <2>1. f \in FrameSet /\ f.kind = "close" /\ f.sid = s
    BY FramesTyped DEF Frame, WellFormed
  <2>2. Arrived(s)' = Arrived(s) /\ Returned(s)' = Returned(s) /\ SentOut(s)' = SentOut(s)
    BY <1>11, CountsKept DEF UpstreamEof, SentOut
  <2>3. toSpoke' = Append(toSpoke, f) /\ ~Has(toSpoke, "close", s)
    BY <1>11 DEF UpstreamEof, SendToSpoke, StreamInv, Life
  <2>4. /\ Ordered(toSpoke, s, Arrived(s), peerSent[s]) => Ordered(toSpoke', s, Arrived(s), peerSent[s])
        /\ Complete(toSpoke, s, Arrived(s), peerSent[s]) => Complete(toSpoke', s, Arrived(s), peerSent[s])
        /\ Has(toSpoke', "open", s) <=> Has(toSpoke, "open", s)
        /\ OpenFirst(toSpoke, s) => OpenFirst(toSpoke', s)
        /\ CloseLast(toSpoke', s)
    <3>1. peerSent[s] \in Int /\ Arrived(s) \in Int
      BY <1>a
    <3> QED
      BY <1>b, <2>1, <2>3, <3>1, AppendClose
  <2>5. Life(s)'
    BY <1>11, <1>c, <2>4 DEF UpstreamEof, SendToSpoke, StreamInv, Life
  <2>6. ToTarget(s)'
    BY <1>11, <1>a, <1>c, <2>2, <2>4 DEF UpstreamEof, SendToSpoke, StreamInv, Life, ToTarget
  <2>7. ToPeer(s)'
    BY <1>11, <1>a, <1>c, <2>2, <2>4 DEF UpstreamEof, SendToSpoke, StreamInv, ToPeer
  <2> QED
    BY <2>5, <2>6, <2>7 DEF StreamInv
<1>12. CASE UpstreamDataFailed(s)
  <2>2. Arrived(s)' = Arrived(s) /\ Returned(s)' = Returned(s) /\ SentOut(s)' = SentOut(s)
    BY <1>12, CountsKept DEF UpstreamDataFailed, SentOut
  <2>3. Ordered(toSpoke, s, Arrived(s), peerSent[s]) => Ordered(toSpoke, s, Arrived(s), peerSent[s] + 1)
    BY <1>a, <1>b, ChunkNumbers DEF Ordered
  <2>6. Life(s)'
    BY <1>12, <1>c DEF UpstreamDataFailed, StreamInv, Life
  <2>7. ToTarget(s)'
    BY <1>12, <1>a, <1>c, <2>2, <2>3, CountsTyped DEF UpstreamDataFailed, StreamInv, Life, ToTarget
  <2>8. ToPeer(s)'
    BY <1>12, <1>a, <1>c, <2>2 DEF UpstreamDataFailed, StreamInv, Life, ToPeer
  <2> QED
    BY <2>6, <2>7, <2>8 DEF StreamInv
<1>13. CASE DownstreamWrite(s)
  <2>1. /\ peerGot[s] \in Seq(Chunks) /\ writer[s] \in Seq(Chunks) /\ writer[s] # << >>
        /\ Consecutive(peerGot[s], 0) /\ Consecutive(writer[s], Len(peerGot[s]))
    BY <1>13 DEF DownstreamWrite, TypeInv, TypeOK, StreamInv, ToPeer
  <2>2. /\ peerGot'[s] = Append(peerGot[s], Head(writer[s])) /\ writer'[s] = Tail(writer[s])
        /\ hubW' = hubW
    BY <1>13, <1>c DEF DownstreamWrite
  <2>3. /\ Consecutive(peerGot'[s], 0) /\ Consecutive(writer'[s], Len(peerGot'[s]))
        /\ Len(peerGot'[s]) + Len(writer'[s]) = Len(peerGot[s]) + Len(writer[s])
    BY <2>1, <2>2, MoveOn
  <2>4. Arrived(s)' = Arrived(s) /\ Returned(s)' = Returned(s) /\ SentOut(s)' = SentOut(s)
    BY <1>13, <2>2, <2>3 DEF DownstreamWrite, SentOut, Arrived, Returned, InHand, Holding
  <2>5. Life(s)'
    BY <1>13 DEF DownstreamWrite, StreamInv, Life
  <2>6. ToTarget(s)'
    BY <1>13, <2>4 DEF DownstreamWrite, StreamInv, ToTarget
  <2>7. ToPeer(s)'
    BY <1>13, <2>3, <2>4 DEF DownstreamWrite, StreamInv, ToPeer
  <2> QED
    BY <2>5, <2>6, <2>7 DEF StreamInv
<1> QED
  BY <1>1, <1>2, <1>3, <1>4, <1>5, <1>6, <1>7, <1>8, <1>9, <1>10, <1>11, <1>12, <1>13
  DEF HubTasks, Environment

(* A pump that ends, with or without a Close.                              *)
LEMMA EndPumpKeeps ==
  ASSUME TypeInv, NEW s \in Sids, StreamInv(s), Pumping(s),
         NEW how \in {"drained", "closed", "broken"}, EndPump(s, how),
         how = "drained" => Len(targetGot[s]) = peerSent[s] /\ Over(s),
         UNCHANGED <<up, toSpoke, hubVars, peerVars, cliW, targetVars>>,
         \/ toHub' = toHub
         \/ how = "closed" /\ toHub' = Append(toHub, Frame("close", s, 0)),
         how # "drained" \/ pump[s] # "sending",
         pump[s] = "sending" => ~up
  PROVE  StreamInv(s)'
<1> USE DEF hubVars, peerVars, targetVars, Quiet, Over, Fresh, Pumping, PumpEnded
<1>a. /\ Arrived(s) \in Nat /\ Returned(s) \in Nat /\ SentOut(s) \in Nat
      /\ peerSent[s] \in Nat /\ targetSent[s] \in Nat
  BY CountsTyped
<1>b. toHub \in Seq(FrameSet)
  BY DEF TypeInv, TypeOK
<1>c. pump'[s] = how /\ s \notin cstreams'
  BY DEF EndPump, TypeInv, TypeOK
<1>1. Returned(s)' = Returned(s)
  BY DEF Returned, InHand, Holding
<1>2. SentOut(s)' = targetSent[s] /\ SentOut(s) <= targetSent[s]
  BY <1>a, <1>c DEF SentOut
<1>3. ~Has(toHub, "close", s) /\ ~Has(toSpoke, "open", s)
  BY DEF StreamInv, Life
<1>4. /\ Ordered(toHub', s, Returned(s), SentOut(s))
      /\ Complete(toHub, s, Returned(s), SentOut(s)) => Complete(toHub', s, Returned(s), SentOut(s))
      /\ CloseLast(toHub', s)
  <2>0. Ordered(toHub, s, Returned(s), SentOut(s)) /\ CloseLast(toHub, s)
    BY DEF StreamInv, ToPeer, Life
  <2>1. CASE toHub' = toHub
    BY <2>0, <2>1
  <2>2. CASE toHub' = Append(toHub, Frame("close", s, 0))
    <3>1. /\ Frame("close", s, 0) \in FrameSet /\ Frame("close", s, 0).kind = "close"
          /\ Frame("close", s, 0).sid = s
      BY FramesTyped DEF Frame, WellFormed
    <3>2. Returned(s) \in Int /\ SentOut(s) \in Int
      BY <1>a
    <3> QED
      BY <1>b, <1>3, <2>0, <2>2, <3>1, <3>2, AppendClose
  <2> QED
    BY <2>1, <2>2
<1>5. Ordered(toHub', s, Returned(s), targetSent[s])
  <2>1. toHub' \in Seq(FrameSet)
    BY <1>b, FramesTyped, AppendAt DEF WellFormed
  <2>2. \A i \in DOMAIN toHub' : toHub'[i].n \in Nat
    BY <2>1, ChunkNumbers
  <2> QED
    BY <1>2, <1>4, <1>a, <2>2 DEF Ordered
<1>6. s \in streams => SentOut(s) = targetSent[s]
  BY DEF StreamInv, Life, SentOut
<1>7. Has(toHub', "close", s) => how = "closed"
  BY <1>3
<1>8. Life(s)'
  BY <1>c, <1>3, <1>4, <1>7 DEF StreamInv, Life
<1>9. ToTarget(s)'
  BY <1>c DEF StreamInv, Life, ToTarget
<1>10. ToPeer(s)'
  BY <1>c, <1>1, <1>2, <1>4, <1>5, <1>6, <1>a DEF StreamInv, Life, ToPeer
<1> QED
  BY <1>8, <1>9, <1>10 DEF StreamInv

(* Steps of the stream's own pump.                                         *)
LEMMA OwnPump ==
  ASSUME TypeInv, TypeInv', NEW s \in Sids, StreamInv(s), RunStream(s)
  PROVE  StreamInv(s)'
<1> USE DEF frames, hubVars, peerVars, clientVars, targetVars, Quiet, Over, Fresh, Pumping, PumpEnded
<1>a. /\ Arrived(s) \in Nat /\ Returned(s) \in Nat /\ SentOut(s) \in Nat
      /\ peerSent[s] \in Nat /\ targetSent[s] \in Nat
  BY CountsTyped
<1>b. toSpoke \in Seq(FrameSet) /\ toHub \in Seq(FrameSet)
  BY DEF TypeInv, TypeOK
<1>c. /\ DOMAIN pump = Sids /\ targetSent \in [Sids -> Nat]
      /\ DOMAIN targetGot = Sids /\ DOMAIN inbound = Sids
  BY DEF TypeInv, TypeOK
<1>1. CASE DialOk(s)
  <2>2. Arrived(s)' = Arrived(s) /\ Returned(s)' = Returned(s)
    BY <1>1, CountsKept DEF DialOk
  <2>3. SentOut(s)' = SentOut(s)
    BY <1>1, <1>a, <1>c DEF DialOk, SentOut
  <2>6. Life(s)'
    BY <1>1, <1>c DEF DialOk, StreamInv, Life
  <2>7. ToTarget(s)'
    BY <1>1, <1>a, <1>c, <2>2 DEF DialOk, StreamInv, Life, ToTarget
  <2>8. ToPeer(s)'
    BY <1>1, <1>a, <1>c, <2>2, <2>3 DEF DialOk, StreamInv, Life, ToPeer
  <2> QED
    BY <2>6, <2>7, <2>8 DEF StreamInv
<1>2. CASE PumpRead(s)
  <2>2. Arrived(s)' = Arrived(s) /\ Returned(s)' = Returned(s)
    BY <1>2, CountsKept DEF PumpRead
  <2>3. SentOut(s)' = SentOut(s)
    BY <1>2, <1>a, <1>c DEF PumpRead, SentOut
  <2>6. Life(s)'
    BY <1>2, <1>c DEF PumpRead, StreamInv, Life
  <2>7. ToTarget(s)'
    BY <1>2, <1>a, <1>c, <2>2 DEF PumpRead, StreamInv, Life, ToTarget
  <2>8. ToPeer(s)'
    BY <1>2, <1>a, <1>c, <2>2, <2>3 DEF PumpRead, StreamInv, Life, ToPeer
  <2> QED
    BY <2>6, <2>7, <2>8 DEF StreamInv
<1>3. CASE PumpReadEof(s)
  <2>2. Arrived(s)' = Arrived(s) /\ Returned(s)' = Returned(s)
    BY <1>3, CountsKept DEF PumpReadEof
  <2>3. SentOut(s)' = SentOut(s)
    BY <1>3, <1>a, <1>c DEF PumpReadEof, SentOut
  <2>6. Life(s)'
    BY <1>3, <1>c DEF PumpReadEof, StreamInv, Life
  <2>7. ToTarget(s)'
    BY <1>3, <1>a, <1>c, <2>2 DEF PumpReadEof, StreamInv, Life, ToTarget
  <2>8. ToPeer(s)'
    BY <1>3, <1>a, <1>c, <2>2, <2>3 DEF PumpReadEof, StreamInv, Life, ToPeer
  <2> QED
    BY <2>6, <2>7, <2>8 DEF StreamInv
<1>4. CASE DialFail(s)
  BY <1>4, EndPumpKeeps DEF DialFail, SendToHub
<1>5. CASE PumpSendFailed(s)
  BY <1>5, EndPumpKeeps DEF PumpSendFailed
<1>6. CASE PumpEof(s)
  BY <1>6, EndPumpKeeps DEF PumpEof, SendToHub
<1>7. CASE PumpWriteFailed(s)
  BY <1>7, EndPumpKeeps DEF PumpWriteFailed
<1>8. CASE PumpClosed(s)
  <2>1. Arrived(s) = Len(targetGot[s])
    BY <1>8, CountsTyped DEF PumpClosed, Arrived, InHand, Holding
  <2>2. Len(targetGot[s]) = peerSent[s] /\ Over(s)
    BY <1>8, <2>1 DEF PumpClosed, StreamInv, ToTarget
  <2> QED
    BY <1>8, <2>2, EndPumpKeeps DEF PumpClosed
<1>9. CASE PumpSend(s)
  <2> DEFINE f == Frame("data", s, targetSent[s])
  <2>1. targetSent[s] # 0 /\ SentOut(s) = targetSent[s] - 1 /\ SentOut(s)' = targetSent[s]
    BY <1>9, <1>a, <1>c DEF PumpSend, SentOut, TypeInv
  <2>2. f \in FrameSet /\ f.kind = "data" /\ f.sid = s /\ f.n = SentOut(s) + 1
    <3>1. targetSent[s] \in 1..MaxChunks[s]
      BY <1>a, <2>1, CapsAssumption DEF TypeInv, TypeOK
    <3>2. targetSent[s] \in Chunks
      BY <3>1, ChunkNumbers
    <3>3. f \in FrameSet /\ f.kind = "data" /\ f.sid = s /\ f.n = targetSent[s]
      BY <3>2, FramesTyped DEF Frame, WellFormed
    <3> QED
      BY <1>a, <2>1, <3>3
  <2>3. Arrived(s)' = Arrived(s) /\ Returned(s)' = Returned(s)
    BY <1>9, CountsKept DEF PumpSend
  <2>4. toHub' = Append(toHub, f) /\ ~Has(toHub, "close", s) /\ Returned(s) <= SentOut(s)
    BY <1>9 DEF PumpSend, SendToHub, StreamInv, Life, ToPeer
  <2>5. /\ ~Has(toHub', "close", s) /\ CloseLast(toHub', s)
        /\ Ordered(toHub, s, Returned(s), SentOut(s)) => Ordered(toHub', s, Returned(s), SentOut(s) + 1)
        /\ Complete(toHub, s, Returned(s), SentOut(s)) => Complete(toHub', s, Returned(s), SentOut(s) + 1)
    <3>1. Returned(s) \in Int /\ SentOut(s) \in Int
      BY <1>a
    <3>2. ~Has(toHub', "close", s) /\ CloseLast(toHub', s)
      BY <1>b, <2>2, <2>4, AppendDataLife
    <3>3. /\ Ordered(toHub, s, Returned(s), SentOut(s)) => Ordered(toHub', s, Returned(s), SentOut(s) + 1)
          /\ Complete(toHub, s, Returned(s), SentOut(s)) => Complete(toHub', s, Returned(s), SentOut(s) + 1)
      BY <1>b, <2>2, <2>4, <3>1, AppendData
    <3> QED
      BY <3>2, <3>3
  <2>6. SentOut(s) + 1 = targetSent[s]
    BY <1>a, <2>1
  <2>7. Life(s)'
    BY <1>9, <1>c, <2>5 DEF PumpSend, SendToHub, StreamInv, Life
  <2>8. ToTarget(s)'
    BY <1>9, <1>a, <1>c, <2>3 DEF PumpSend, SendToHub, StreamInv, ToTarget
  <2>9. ToPeer(s)'
    BY <1>9, <1>a, <1>c, <2>1, <2>3, <2>4, <2>5, <2>6 DEF PumpSend, SendToHub, StreamInv, ToPeer
  <2> QED
    BY <2>7, <2>8, <2>9 DEF StreamInv
<1>10. CASE PumpWrite(s)
  <2>1. /\ targetGot[s] \in Seq(Chunks) /\ inbound[s] \in Seq(Chunks) /\ inbound[s] # << >>
        /\ Consecutive(targetGot[s], 0) /\ Consecutive(inbound[s], Len(targetGot[s]))
        /\ Arrived(s) <= peerSent[s]
    BY <1>10 DEF PumpWrite, TypeInv, TypeOK, StreamInv, ToTarget
  <2>2. /\ targetGot'[s] = Append(targetGot[s], Head(inbound[s])) /\ inbound'[s] = Tail(inbound[s])
        /\ cliW' = cliW
    BY <1>10, <1>c DEF PumpWrite
  <2>3. /\ Consecutive(targetGot'[s], 0) /\ Consecutive(inbound'[s], Len(targetGot'[s]))
        /\ Len(targetGot'[s]) + Len(inbound'[s]) = Len(targetGot[s]) + Len(inbound[s])
    BY <2>1, <2>2, MoveOn
  <2>4. Arrived(s)' = Arrived(s) /\ Returned(s)' = Returned(s) /\ SentOut(s)' = SentOut(s)
    BY <1>10, <2>2, <2>3 DEF PumpWrite, SentOut, Arrived, Returned, InHand, Holding
  <2>5. Len(targetGot'[s]) <= peerSent[s]
    <3>1. Len(targetGot'[s]) \in Nat /\ Len(inbound'[s]) \in Nat /\ InHand(cliW, s)' \in Nat
          /\ Arrived(s)' = Len(targetGot'[s]) + Len(inbound'[s]) + InHand(cliW, s)'
      BY DEF TypeInv, TypeOK, InHand, Arrived
    <3>2. \A a, b, c, d, e \in Nat : d = a + b + c /\ d <= e => a <= e
      OBVIOUS
    <3>3. Arrived(s)' \in Nat /\ Arrived(s)' <= peerSent[s]
      BY <1>a, <2>1, <2>4
    <3> QED
      BY <1>a, <3>1, <3>2, <3>3, Zenon
  <2>6. Life(s)'
    BY <1>10, <2>2 DEF PumpWrite, StreamInv, Life
  <2>7. ToTarget(s)'
    BY <1>10, <2>2, <2>3, <2>4, <2>5 DEF PumpWrite, StreamInv, ToTarget
  <2>8. ToPeer(s)'
    BY <1>10, <2>4 DEF PumpWrite, StreamInv, ToPeer
  <2> QED
    BY <2>6, <2>7, <2>8 DEF StreamInv
<1> QED
  BY <1>1, <1>2, <1>3, <1>4, <1>5, <1>6, <1>7, <1>8, <1>9, <1>10 DEF RunStream

(* A head frame of the stream is mentioned.                                *)
LEMMA HeadMentioned ==
  ASSUME NEW q \in Seq(FrameSet), q # << >>
  PROVE  /\ Head(q) \in FrameSet /\ Head(q).sid \in Sids /\ Head(q).n \in Nat
         /\ Mentions(q, Head(q).sid) /\ Has(q, Head(q).kind, Head(q).sid)
<1>1. Head(q) \in FrameSet /\ Head(q) = q[1] /\ 1 \in DOMAIN q
  BY TailAt
<1>2. Head(q).n \in Nat
  BY <1>1, ChunkNumbers
<1> QED
  BY <1>1, <1>2 DEF Mentions, Has, FrameSet

(* What a loop holds is a data frame of a stream.                          *)
LEMMA HeldTyped ==
  ASSUME NEW w \in DataFrames \cup {NoFrame}, w # NoFrame
  PROVE  w.sid \in Sids /\ w.n \in Chunks /\ w \in FrameSet
  BY DEF DataFrames, FrameSet

(* Steps of recv_loop about the stream.                                    *)
LEMMA OwnRecv ==
  ASSUME TypeInv, TypeInv', NEW s \in Sids, StreamInv(s),
         \/ (HubData \/ HubClose) /\ Head(toHub).sid = s
         \/ (HubDeliver \/ HubDeliverFailed) /\ hubW.sid = s
  PROVE  StreamInv(s)'
<1> USE DEF frames, hubVars, peerVars, clientVars, targetVars, Quiet, Over, Fresh, Pumping, PumpEnded
<1>a. /\ Arrived(s) \in Nat /\ Returned(s) \in Nat /\ SentOut(s) \in Nat
      /\ peerSent[s] \in Nat /\ targetSent[s] \in Nat
  BY CountsTyped
<1>b. toHub \in Seq(FrameSet)
  BY DEF TypeInv, TypeOK
<1>i. Arrived(s) \in Int /\ Returned(s) \in Int /\ SentOut(s) \in Int
  BY <1>a
<1>s. SentOut(s)' = SentOut(s) /\ Arrived(s)' = Arrived(s)
  BY DEF HubData, HubClose, HubDeliver, HubDeliverFailed, SentOut, Arrived, InHand, Holding
<1>1. CASE HubData /\ Head(toHub).sid = s
  <2>1. /\ toHub # << >> /\ Head(toHub).kind = "data" /\ toHub' = Tail(toHub) /\ hubW = NoFrame
        /\ up' = up /\ toSpoke' = toSpoke /\ s = Head(toHub).sid
    BY <1>1 DEF HubData, HubHead, HubPop
  <2>2. Ordered(toHub, s, Returned(s), SentOut(s)) /\ CloseLast(toHub, s)
    BY DEF StreamInv, ToPeer, Life
  <2>3. /\ Returned(s) < Head(toHub).n /\ Head(toHub).n <= SentOut(s) /\ Head(toHub).n \in Nat
        /\ Ordered(toHub', s, Returned(s), SentOut(s))
        /\ Complete(toHub, s, Returned(s), SentOut(s)) =>
              /\ Head(toHub).n = Returned(s) + 1
              /\ Ordered(toHub', s, Returned(s) + 1, SentOut(s))
              /\ Complete(toHub', s, Returned(s) + 1, SentOut(s))
        /\ Has(toHub', "close", s) <=> Has(toHub, "close", s)
        /\ CloseLast(toHub', s)
    BY <1>b, <1>i, <2>1, <2>2, TailData, TailDataLife, HeadMentioned
  <2>4. ~Fresh(s)
    BY <1>b, <2>1, HeadMentioned DEF StreamInv, Life
  <2>5. Life(s)'
    BY <1>1, <2>1, <2>3, <2>4 DEF HubData, StreamInv, Life
  <2>6. ToTarget(s)'
    BY <1>1, <1>s, <2>1 DEF HubData, StreamInv, ToTarget
  <2>7. CASE s \in streams
    <3>1. hubW' = Head(toHub) /\ Holding(hubW', s) /\ ~Holding(hubW, s)
      BY <1>1, <1>b, <2>1, <2>7, HeadMentioned, FramesTyped DEF HubData, Holding
    <3>2. Returned(s)' = Returned(s) + 1
      <4>1. /\ InHand(hubW, s)' = 1 /\ InHand(hubW, s) = 0
            /\ Len(peerGot'[s]) = Len(peerGot[s]) /\ Len(writer'[s]) = Len(writer[s])
            /\ Len(peerGot[s]) \in Nat /\ Len(writer[s]) \in Nat
        BY <1>1, <3>1, CountsTyped DEF HubData, InHand
      <4>2. \A a, b \in Nat : a + b + 1 = (a + b + 0) + 1
        OBVIOUS
      <4> QED
        BY <4>1, <4>2, Zenon DEF Returned
    <3>3. Complete(toHub, s, Returned(s), SentOut(s))
      BY <2>7 DEF StreamInv, ToPeer
    <3>4. ToPeer(s)'
      BY <1>1, <1>a, <1>s, <2>1, <2>3, <2>7, <3>1, <3>2, <3>3 DEF HubData, StreamInv, ToPeer
    <3> QED
      BY <2>5, <2>6, <3>4 DEF StreamInv
  <2>8. CASE s \notin streams
    <3>1. hubW' = NoFrame /\ ~Holding(hubW, s)' /\ Returned(s)' = Returned(s)
      BY <1>1, <2>1, <2>8 DEF HubData, Holding, Returned, InHand
    <3>2. ToPeer(s)'
      BY <1>1, <1>a, <1>s, <2>1, <2>3, <2>8, <3>1 DEF HubData, StreamInv, ToPeer
    <3> QED
      BY <2>5, <2>6, <3>2 DEF StreamInv
  <2> QED
    BY <2>7, <2>8
<1>2. CASE HubClose /\ Head(toHub).sid = s
  <2>1. /\ toHub # << >> /\ Head(toHub).kind = "close" /\ toHub' = Tail(toHub) /\ hubW' = hubW
        /\ up' = up /\ toSpoke' = toSpoke /\ s = Head(toHub).sid /\ s \notin streams'
    BY <1>2 DEF HubClose, HubHead, HubPop
  <2>2. CloseLast(toHub, s)
    BY DEF StreamInv, Life
  <2>3. /\ Has(toHub, "close", s) /\ ~Has(toHub', "close", s) /\ CloseLast(toHub', s)
        /\ Ordered(toHub', s, Returned(s), SentOut(s))
        /\ Complete(toHub, s, Returned(s), SentOut(s)) => SentOut(s) <= Returned(s)
    BY <1>b, <1>i, <2>1, <2>2, TailClose
  <2>4. ~Fresh(s) /\ Quiet(s)
    BY <1>b, <2>1, <2>3, HeadMentioned DEF StreamInv, Life
  <2>5. Returned(s)' = Returned(s) /\ SentOut(s) = targetSent[s]
    BY <1>2, <2>1, <2>4 DEF HubClose, Returned, InHand, Holding, SentOut
  <2>6. Life(s)'
    BY <1>2, <2>1, <2>3, <2>4 DEF HubClose, StreamInv, Life
  <2>7. ToTarget(s)'
    BY <1>2, <1>s, <2>1 DEF HubClose, StreamInv, ToTarget
  <2>8. ToPeer(s)'
    BY <1>2, <1>a, <1>s, <2>1, <2>3, <2>4, <2>5 DEF HubClose, StreamInv, ToPeer
  <2> QED
    BY <2>6, <2>7, <2>8 DEF StreamInv
<1>3. CASE HubDeliver /\ hubW.sid = s
  <2>1. Holding(hubW, s) /\ hubW' = NoFrame /\ ~Holding(hubW, s)' /\ hubW.n \in Chunks
    BY <1>3, HeldTyped DEF HubDeliver, Holding, TypeInv
  <2>2. /\ writer'[s] = Append(writer[s], hubW.n) /\ peerGot'[s] = peerGot[s]
        /\ writer[s] \in Seq(Chunks) /\ Consecutive(writer[s], Len(peerGot[s]))
        /\ hubW.n = Returned(s)
    BY <1>3, <2>1 DEF HubDeliver, TypeInv, TypeOK, StreamInv, ToPeer
  <2>3. /\ Len(peerGot[s]) \in Nat /\ Len(writer[s]) \in Nat
        /\ Returned(s) = Len(peerGot[s]) + Len(writer[s]) + 1
    BY <2>1, CountsTyped DEF Returned, InHand
  <2>4. Consecutive(writer'[s], Len(peerGot[s])) /\ Len(writer'[s]) = Len(writer[s]) + 1
    BY <2>1, <2>2, <2>3, ConsecutiveAppend
  <2>5. Returned(s)' = Returned(s)
    <3>1. Returned(s)' = Len(peerGot[s]) + (Len(writer[s]) + 1) + 0
      BY <2>1, <2>2, <2>4 DEF Returned, InHand
    <3>2. \A a, b \in Nat : a + (b + 1) + 0 = a + b + 1
      OBVIOUS
    <3> QED
      BY <2>3, <3>1, <3>2, Zenon
  <2>6. Life(s)'
    BY <1>3 DEF HubDeliver, StreamInv, Life
  <2>7. ToTarget(s)'
    BY <1>3, <1>s DEF HubDeliver, StreamInv, ToTarget
  <2>8. ToPeer(s)'
    BY <1>3, <1>s, <2>1, <2>2, <2>4, <2>5 DEF HubDeliver, StreamInv, ToPeer
  <2> QED
    BY <2>6, <2>7, <2>8 DEF StreamInv
<1>4. CASE HubDeliverFailed /\ hubW.sid = s
  <2>1. /\ Holding(hubW, s) /\ hubW' = NoFrame /\ ~Holding(hubW, s)' /\ s \notin streams'
        /\ dnTask[s] = "done"
    BY <1>4 DEF HubDeliverFailed, Holding
  <2>2. /\ Len(peerGot[s]) \in Nat /\ Len(writer[s]) \in Nat
        /\ Returned(s) = Len(peerGot[s]) + Len(writer[s]) + 1
    BY <2>1, CountsTyped DEF Returned, InHand
  <2>3. Returned(s)' = Len(peerGot[s]) + Len(writer[s]) + 0
    BY <1>4, <2>1 DEF HubDeliverFailed, Returned, InHand
  <2>4. Returned(s)' \in Nat /\ Returned(s)' = Returned(s) - 1 /\ Len(peerGot[s]) < Returned(s)
    <3>1. \A a, b \in Nat : /\ a + b + 0 \in Nat /\ a + b + 0 = (a + b + 1) - 1
                            /\ a < a + b + 1
      OBVIOUS
    <3> QED
      BY <2>2, <2>3, <3>1, Zenon
  <2>5. Ordered(toHub, s, Returned(s)', SentOut(s))
    <3>1. \A i \in DOMAIN toHub : toHub[i].n \in Nat
      BY <1>b, ChunkNumbers
    <3> QED
      BY <1>a, <2>4, <3>1 DEF Ordered, StreamInv, ToPeer
  <2>6. ~(up /\ peer[s] = "open")
    <3>1. Returned(s) <= SentOut(s) /\ SentOut(s) <= targetSent[s]
      BY <1>a DEF StreamInv, ToPeer, SentOut
    <3>2. up /\ peer[s] = "open" => Len(peerGot[s]) = targetSent[s]
      BY <2>1 DEF StreamInv, ToPeer
    <3>3. \A a, b, c, d \in Nat : a < b /\ b <= c /\ c <= d => a # d
      OBVIOUS
    <3> QED
      BY <1>a, <2>2, <2>4, <3>1, <3>2, <3>3, Zenon
  <2>7. Life(s)'
    <3>1. ~Fresh(s)
      BY <2>1 DEF StreamInv, Life
    <3> QED
      BY <1>4, <2>1, <3>1 DEF HubDeliverFailed, StreamInv, Life
  <2>8. ToTarget(s)'
    BY <1>4, <1>s DEF HubDeliverFailed, StreamInv, ToTarget
  <2>9. ToPeer(s)'
    BY <1>4, <1>a, <1>s, <2>1, <2>4, <2>5, <2>6 DEF HubDeliverFailed, StreamInv, ToPeer
  <2> QED
    BY <2>7, <2>8, <2>9 DEF StreamInv
<1> QED
  BY <1>1, <1>2, <1>3, <1>4

(* Steps of the client's frame loop about the stream.                      *)
LEMMA OwnLoop ==
  ASSUME TypeInv, TypeInv', NEW s \in Sids, StreamInv(s),
         \/ (CliOpen \/ CliOpenUnknown \/ CliData \/ CliClose) /\ Head(toSpoke).sid = s
         \/ CliDeliver /\ cliW.sid = s
  PROVE  StreamInv(s)'
<1> USE DEF frames, hubVars, peerVars, clientVars, targetVars, Quiet, Over, Fresh, Pumping, PumpEnded
<1>a. /\ Arrived(s) \in Nat /\ Returned(s) \in Nat /\ SentOut(s) \in Nat
      /\ peerSent[s] \in Nat /\ targetSent[s] \in Nat
  BY CountsTyped
<1>b. toSpoke \in Seq(FrameSet) /\ toHub \in Seq(FrameSet)
  BY DEF TypeInv, TypeOK
<1>c. DOMAIN pump = Sids /\ DOMAIN inbound = Sids
  BY DEF TypeInv, TypeOK
<1>i. Arrived(s) \in Int /\ Returned(s) \in Int /\ SentOut(s) \in Int /\ peerSent[s] \in Int
  BY <1>a
<1>r. Returned(s)' = Returned(s)
  BY DEF CliOpen, CliOpenUnknown, CliData, CliClose, CliDeliver, Returned, InHand, Holding
<1>1. CASE CliOpen /\ Head(toSpoke).sid = s
  <2>1. /\ toSpoke # << >> /\ Head(toSpoke).kind = "open" /\ toSpoke' = Tail(toSpoke)
        /\ up' = up /\ toHub' = toHub /\ s = Head(toSpoke).sid /\ s \notin NoTarget
        /\ cstreams' = cstreams \cup {s} /\ pump'[s] = "dial"
    BY <1>1, <1>c DEF CliOpen, CliHead, CliPop
  <2>2. OpenFirst(toSpoke, s) /\ CloseLast(toSpoke, s)
    BY DEF StreamInv, Life
  <2>3. /\ Has(toSpoke, "open", s) /\ ~Has(toSpoke', "open", s)
        /\ OpenFirst(toSpoke', s) /\ CloseLast(toSpoke', s)
        /\ Has(toSpoke', "close", s) <=> Has(toSpoke, "close", s)
        /\ Ordered(toSpoke, s, Arrived(s), peerSent[s]) => Ordered(toSpoke', s, Arrived(s), peerSent[s])
        /\ Complete(toSpoke, s, Arrived(s), peerSent[s]) => Complete(toSpoke', s, Arrived(s), peerSent[s])
    BY <1>b, <1>i, <2>1, <2>2, TailOpen
  <2>4. ~Fresh(s) /\ pump[s] = "none" /\ ~Has(toHub, "close", s)
    BY <1>b, <2>1, <2>3, HeadMentioned DEF StreamInv, Life
  <2>5. Arrived(s)' = Arrived(s) /\ SentOut(s)' = SentOut(s)
    BY <1>1, <2>1, <2>4 DEF CliOpen, Arrived, InHand, Holding, SentOut
  <2>6. Life(s)'
    BY <1>1, <2>1, <2>3, <2>4 DEF CliOpen, StreamInv, Life
  <2>7. ToTarget(s)'
    BY <1>1, <2>1, <2>3, <2>4, <2>5 DEF CliOpen, StreamInv, ToTarget
  <2>8. ToPeer(s)'
    BY <1>1, <1>r, <2>1, <2>3, <2>5 DEF CliOpen, StreamInv, ToPeer
  <2> QED
    BY <2>6, <2>7, <2>8 DEF StreamInv
<1>2. CASE CliOpenUnknown /\ Head(toSpoke).sid = s
  <2> DEFINE f == Frame("close", s, 0)
  <2>1. /\ toSpoke # << >> /\ Head(toSpoke).kind = "open" /\ toSpoke' = Tail(toSpoke)
        /\ toHub' = Append(toHub, f) /\ s = Head(toSpoke).sid /\ s \in NoTarget
    BY <1>2 DEF CliOpenUnknown, CliHead
  <2>2. OpenFirst(toSpoke, s) /\ CloseLast(toSpoke, s)
    BY DEF StreamInv, Life
  <2>3. /\ Has(toSpoke, "open", s) /\ ~Has(toSpoke', "open", s)
        /\ OpenFirst(toSpoke', s) /\ CloseLast(toSpoke', s)
        /\ Has(toSpoke', "close", s) <=> Has(toSpoke, "close", s)
        /\ Ordered(toSpoke, s, Arrived(s), peerSent[s]) => Ordered(toSpoke', s, Arrived(s), peerSent[s])
    BY <1>b, <1>i, <2>1, <2>2, TailOpen
  <2>4. ~Fresh(s) /\ pump[s] = "none" /\ ~Has(toHub, "close", s)
    BY <1>b, <2>1, <2>3, HeadMentioned DEF StreamInv, Life
  <2>5. f \in FrameSet /\ f.kind = "close" /\ f.sid = s
    BY FramesTyped DEF Frame, WellFormed
  <2>6. /\ Ordered(toHub, s, Returned(s), SentOut(s)) => Ordered(toHub', s, Returned(s), SentOut(s))
        /\ Complete(toHub, s, Returned(s), SentOut(s)) => Complete(toHub', s, Returned(s), SentOut(s))
        /\ CloseLast(toHub', s)
    BY <1>b, <1>i, <2>1, <2>4, <2>5, AppendClose
  <2>7. Arrived(s)' = Arrived(s) /\ SentOut(s)' = SentOut(s)
    BY <1>2 DEF CliOpenUnknown, Arrived, InHand, Holding, SentOut
  <2>8. Life(s)'
    BY <1>2, <2>1, <2>3, <2>4, <2>6 DEF CliOpenUnknown, StreamInv, Life
  <2>9. ToTarget(s)'
    BY <1>2, <2>1, <2>3, <2>4, <2>7 DEF CliOpenUnknown, StreamInv, ToTarget
  <2>10. ToPeer(s)'
    BY <1>2, <1>r, <2>1, <2>3, <2>6, <2>7 DEF CliOpenUnknown, StreamInv, ToPeer
  <2> QED
    BY <2>8, <2>9, <2>10 DEF StreamInv
<1>3. CASE CliData /\ Head(toSpoke).sid = s
  <2>1. /\ up /\ toSpoke # << >> /\ Head(toSpoke).kind = "data" /\ toSpoke' = Tail(toSpoke)
        /\ up' = up /\ toHub' = toHub /\ s = Head(toSpoke).sid /\ cliW = NoFrame
        /\ cliW' = IF s \in cstreams THEN Head(toSpoke) ELSE NoFrame
    BY <1>3 DEF CliData, CliHead, CliPop
  <2>2. OpenFirst(toSpoke, s) /\ CloseLast(toSpoke, s)
    BY DEF StreamInv, Life
  <2>3. /\ ~Has(toSpoke, "open", s) /\ ~Has(toSpoke', "open", s)
        /\ Has(toSpoke', "close", s) <=> Has(toSpoke, "close", s)
        /\ OpenFirst(toSpoke', s) /\ CloseLast(toSpoke', s)
        /\ Head(toSpoke).n \in Nat /\ Head(toSpoke) \in FrameSet
    BY <1>b, <2>1, <2>2, TailDataLife, HeadMentioned
  <2>4. ~Fresh(s)
    BY <1>b, <2>1, HeadMentioned DEF StreamInv, Life
  <2>5. pump[s] = "none" => s \notin cstreams /\ s \in NoTarget
    BY <2>1, <2>3, <2>4 DEF StreamInv, Life, ToTarget
  <2>6. SentOut(s)' = SentOut(s)
    BY <1>3 DEF CliData, SentOut
  <2>7. Holding(cliW, s)' => s \in cstreams
    BY <2>1 DEF Holding
  <2>8. Life(s)'
    BY <1>3, <2>1, <2>3, <2>4, <2>5, <2>7 DEF CliData, StreamInv, Life
  <2>9. ToPeer(s)'
    BY <1>3, <1>r, <2>1, <2>3, <2>6 DEF CliData, StreamInv, ToPeer
  <2>10. ToTarget(s)'
    <3>1. CASE PumpEnded(s)
      BY <1>3, <2>1, <3>1 DEF CliData, StreamInv, ToTarget
    <3>2. CASE ~PumpEnded(s)
      <4>1. Ordered(toSpoke, s, Arrived(s), peerSent[s])
        BY <3>2 DEF StreamInv, ToTarget
      <4>2. /\ Arrived(s) < Head(toSpoke).n /\ Head(toSpoke).n <= peerSent[s]
            /\ Ordered(toSpoke', s, Arrived(s), peerSent[s])
            /\ Complete(toSpoke, s, Arrived(s), peerSent[s]) =>
                 /\ Head(toSpoke).n = Arrived(s) + 1
                 /\ Ordered(toSpoke', s, Arrived(s) + 1, peerSent[s])
                 /\ Complete(toSpoke', s, Arrived(s) + 1, peerSent[s])
        BY <1>b, <1>i, <2>1, <4>1, TailData
      <4>3. CASE s \in cstreams
        <5>1. Holding(cliW, s)' /\ ~Holding(cliW, s) /\ cliW' = Head(toSpoke)
          BY <2>1, <2>3, <4>3, FramesTyped DEF Holding
        <5>2. Arrived(s)' = Arrived(s) + 1
          <6>1. /\ InHand(cliW, s)' = 1 /\ InHand(cliW, s) = 0
                /\ Len(targetGot'[s]) = Len(targetGot[s]) /\ Len(inbound'[s]) = Len(inbound[s])
                /\ Len(targetGot[s]) \in Nat /\ Len(inbound[s]) \in Nat
            BY <1>3, <5>1, CountsTyped DEF CliData, InHand
          <6>2. \A a, b \in Nat : a + b + 1 = (a + b + 0) + 1
            OBVIOUS
          <6> QED
            BY <6>1, <6>2, Zenon DEF Arrived
        <5>3. Pumping(s) /\ s \notin NoTarget
          BY <4>3 DEF StreamInv, Life
        <5>4. Complete(toSpoke, s, Arrived(s), peerSent[s])
          BY <2>1, <3>2, <5>3 DEF StreamInv, ToTarget
        <5> QED
          BY <1>3, <1>a, <2>1, <2>3, <3>2, <4>2, <4>3, <5>1, <5>2, <5>3, <5>4
          DEF CliData, StreamInv, ToTarget
      <4>4. CASE s \notin cstreams
        <5>1. Arrived(s)' = Arrived(s) /\ ~Holding(cliW, s)'
          BY <1>3, <2>1, <4>4 DEF CliData, Arrived, InHand, Holding
        <5>2. ~Pumping(s)
          BY <1>a, <2>3, <4>2, <4>4 DEF StreamInv, ToTarget
        <5>3. pump[s] = "none"
          BY <3>2, <5>2 DEF TypeInv, TypeOK
        <5> QED
          BY <1>3, <2>1, <2>5, <4>2, <5>1, <5>3 DEF CliData, StreamInv, ToTarget
      <4> QED
        BY <4>3, <4>4
    <3> QED
      BY <3>1, <3>2
  <2> QED
    BY <2>8, <2>9, <2>10 DEF StreamInv
<1>4. CASE CliClose /\ Head(toSpoke).sid = s
  <2>1. /\ up /\ toSpoke # << >> /\ Head(toSpoke).kind = "close" /\ toSpoke' = Tail(toSpoke)
        /\ up' = up /\ toHub' = toHub /\ s = Head(toSpoke).sid /\ cliW' = cliW
        /\ cstreams' = cstreams \ {s}
    BY <1>4 DEF CliClose, CliHead, CliPop
  <2>2. CloseLast(toSpoke, s)
    BY DEF StreamInv, Life
  <2>3. /\ ~Mentions(toSpoke', s) /\ ~Has(toSpoke', "open", s) /\ ~Has(toSpoke', "close", s)
        /\ Ordered(toSpoke', s, Arrived(s), peerSent[s])
        /\ OpenFirst(toSpoke', s) /\ CloseLast(toSpoke', s)
        /\ Complete(toSpoke, s, Arrived(s), peerSent[s]) => peerSent[s] <= Arrived(s)
        /\ peerSent[s] <= Arrived(s) => Complete(toSpoke', s, Arrived(s), peerSent[s])
        /\ Has(toSpoke, "close", s) /\ ~Has(toSpoke, "open", s)
    BY <1>b, <1>i, <2>1, <2>2, TailClose
  <2>4. Over(s)
    BY <2>3 DEF StreamInv, Life
  <2>5. Arrived(s)' = Arrived(s) /\ SentOut(s)' = SentOut(s)
    BY <1>4 DEF CliClose, Arrived, InHand, Holding, SentOut
  <2>6. pump[s] = "none" => s \in NoTarget
    BY <2>1, <2>3, <2>4 DEF StreamInv, ToTarget
  <2>7. Pumping(s) => Arrived(s) = peerSent[s]
    BY <1>a, <2>1, <2>3 DEF StreamInv, Life, ToTarget
  <2>8. Life(s)'
    BY <1>4, <2>1, <2>3, <2>4 DEF CliClose, StreamInv, Life
  <2>9. ToTarget(s)'
    BY <1>4, <2>1, <2>3, <2>4, <2>5, <2>6, <2>7 DEF CliClose, StreamInv, ToTarget
  <2>10. ToPeer(s)'
    BY <1>4, <1>r, <2>1, <2>3, <2>5 DEF CliClose, StreamInv, ToPeer
  <2> QED
    BY <2>8, <2>9, <2>10 DEF StreamInv
<1>5. CASE CliDeliver /\ cliW.sid = s
  <2>1. Holding(cliW, s) /\ cliW' = NoFrame /\ ~Holding(cliW, s)' /\ cliW.n \in Chunks
    BY <1>5, HeldTyped DEF CliDeliver, Holding, TypeInv
  <2>2. SentOut(s)' = SentOut(s) /\ pump[s] # "none"
    BY <1>5, <2>1 DEF CliDeliver, SentOut, StreamInv, Life
  <2>3. Life(s)'
    BY <1>5, <2>1, <2>2 DEF CliDeliver, StreamInv, Life
  <2>4. ToPeer(s)'
    BY <1>5, <1>r, <2>2 DEF CliDeliver, StreamInv, ToPeer
  <2>5. CASE PumpEnded(s)
    <3>1. ToTarget(s)'
      BY <1>5, <2>5 DEF CliDeliver, StreamInv, ToTarget
    <3> QED
      BY <2>3, <2>4, <3>1 DEF StreamInv
  <2>6. CASE ~PumpEnded(s)
    <3>1. /\ inbound'[s] = Append(inbound[s], cliW.n) /\ targetGot'[s] = targetGot[s]
          /\ inbound[s] \in Seq(Chunks) /\ Consecutive(inbound[s], Len(targetGot[s]))
          /\ cliW.n = Arrived(s)
      BY <1>5, <1>c, <2>1, <2>6 DEF CliDeliver, TypeInv, TypeOK, StreamInv, ToTarget
    <3>2. /\ Len(targetGot[s]) \in Nat /\ Len(inbound[s]) \in Nat
          /\ Arrived(s) = Len(targetGot[s]) + Len(inbound[s]) + 1
      BY <2>1, CountsTyped DEF Arrived, InHand
    <3>3. Consecutive(inbound'[s], Len(targetGot[s])) /\ Len(inbound'[s]) = Len(inbound[s]) + 1
      BY <2>1, <3>1, <3>2, ConsecutiveAppend
    <3>4. Arrived(s)' = Arrived(s)
      <4>1. Arrived(s)' = Len(targetGot[s]) + (Len(inbound[s]) + 1) + 0
        BY <2>1, <3>1, <3>3 DEF Arrived, InHand
      <4>2. \A a, b \in Nat : a + (b + 1) + 0 = a + b + 1
        OBVIOUS
      <4> QED
        BY <3>2, <4>1, <4>2, Zenon
    <3>5. ToTarget(s)'
      BY <1>5, <2>1, <2>2, <2>6, <3>1, <3>3, <3>4 DEF CliDeliver, StreamInv, ToTarget
    <3> QED
      BY <2>3, <2>4, <3>5 DEF StreamInv
  <2> QED
    BY <2>5, <2>6
<1> QED
  BY <1>1, <1>2, <1>3, <1>4, <1>5

(* The end of the session.                                                 *)
LEMMA DownKeeps ==
  ASSUME TypeInv, NEW s \in Sids, StreamInv(s), SessionDown
  PROVE  StreamInv(s)'
<1> USE DEF hubVars, peerVars, clientVars, targetVars, Quiet, Over, Fresh, Pumping, PumpEnded
<1>a. Arrived(s) \in Int /\ Returned(s) \in Int /\ SentOut(s) \in Int /\ peerSent[s] \in Int
  BY CountsTyped
<1>1. Arrived(s)' = Arrived(s) /\ Returned(s)' = Returned(s) /\ SentOut(s)' = SentOut(s)
  BY CountsKept DEF SessionDown, SentOut
<1>2. /\ up' = FALSE /\ toSpoke' = << >> /\ toHub' = << >> /\ s \notin streams'
  BY DEF SessionDown
<1>3. /\ ~Has(toSpoke', "open", s) /\ ~Has(toSpoke', "close", s) /\ ~Has(toHub', "close", s)
      /\ ~Mentions(toSpoke', s) /\ ~Mentions(toHub', s)
      /\ OpenFirst(toSpoke', s) /\ CloseLast(toSpoke', s) /\ CloseLast(toHub', s)
      /\ Ordered(toSpoke', s, Arrived(s), peerSent[s]) /\ Ordered(toHub', s, Returned(s), SentOut(s))
  BY <1>a, <1>2, EmptyQueue
<1>4. Life(s)'
  BY <1>2, <1>3 DEF SessionDown, StreamInv, Life
<1>5. ToTarget(s)'
  BY <1>1, <1>2, <1>3 DEF SessionDown, StreamInv, ToTarget
<1>6. ToPeer(s)'
  BY <1>1, <1>2, <1>3 DEF SessionDown, StreamInv, ToPeer
<1> QED
  BY <1>4, <1>5, <1>6 DEF StreamInv

(* Tasks of another stream.                                                *)
LEMMA OtherTasks ==
  ASSUME TypeInv, NEW s \in Sids, NEW t \in Sids, t # s,
         HubTasks(t) \/ Environment(t) \/ RunStream(t)
  PROVE  Elsewhere(s)
<1> USE DEF frames, hubVars, peerVars, clientVars, targetVars
<1>a. /\ DOMAIN writer = Sids /\ DOMAIN inbound = Sids /\ DOMAIN upTask = Sids
      /\ DOMAIN dnTask = Sids /\ DOMAIN pump = Sids /\ DOMAIN peer = Sids
      /\ DOMAIN peerSent = Sids /\ DOMAIN peerGot = Sids
      /\ DOMAIN targetSent = Sids /\ DOMAIN targetGot = Sids
      /\ peerSent[t] \in Nat /\ targetSent[t] \in Nat
  BY DEF TypeInv, TypeOK
<1>b. toSpoke \in Seq(FrameSet) /\ toHub \in Seq(FrameSet)
  BY DEF TypeInv, TypeOK
<1>c. SameFor(toSpoke, toSpoke, s) /\ SameFor(toHub, toHub, s)
  BY SameForRefl
<1>d. ASSUME NEW kind \in {"open", "close"}
      PROVE  /\ SameFor(Append(toSpoke, Frame(kind, t, 0)), toSpoke, s)
             /\ SameFor(Append(toHub, Frame(kind, t, 0)), toHub, s)
  <2>1. Frame(kind, t, 0) \in FrameSet /\ Frame(kind, t, 0).sid # s
    BY DEF Frame, FrameSet
  <2> QED
    BY <1>b, <2>1, AppendOther
<1>e. ASSUME NEW n \in Chunks
      PROVE  /\ SameFor(Append(toSpoke, Frame("data", t, n)), toSpoke, s)
             /\ SameFor(Append(toHub, Frame("data", t, n)), toHub, s)
  <2>1. Frame("data", t, n) \in FrameSet /\ Frame("data", t, n).sid # s
    BY DEF Frame, FrameSet
  <2> QED
    BY <1>b, <2>1, AppendOther
<1>1. CASE HubTasks(t)
  <2>1. CASE OpenSent(t)
    BY <1>a, <1>c, <1>d, <2>1 DEF OpenSent, SendToSpoke, Elsewhere
  <2>2. CASE OpenFailed(t)
    BY <1>a, <1>c, <2>2 DEF OpenFailed, Elsewhere
  <2>3. CASE UpstreamData(t)
    <3>1. peerSent[t] + 1 \in Chunks
      BY <1>a, <2>3, NextChunk DEF UpstreamData
    <3> QED
      BY <1>a, <1>c, <1>e, <2>3, <3>1 DEF UpstreamData, SendToSpoke, Elsewhere
  <2>4. CASE UpstreamEof(t)
    BY <1>a, <1>c, <1>d, <2>4 DEF UpstreamEof, SendToSpoke, Elsewhere
  <2>5. CASE UpstreamDataFailed(t)
    BY <1>a, <1>c, <2>5 DEF UpstreamDataFailed, Elsewhere
  <2>6. CASE UpstreamBreak(t)
    BY <1>a, <1>c, <2>6 DEF UpstreamBreak, Elsewhere
  <2>7. CASE UpstreamRemove(t)
    BY <1>a, <1>c, <2>7 DEF UpstreamRemove, Elsewhere
  <2>8. CASE DownstreamWrite(t)
    BY <1>a, <1>c, <2>8 DEF DownstreamWrite, Elsewhere
  <2>9. CASE DownstreamEnd(t)
    BY <1>a, <1>c, <2>9 DEF DownstreamEnd, Elsewhere
  <2> QED
    BY <1>1, <2>1, <2>2, <2>3, <2>4, <2>5, <2>6, <2>7, <2>8, <2>9 DEF HubTasks
<1>2. CASE Environment(t)
  BY <1>a, <1>c, <1>2 DEF Environment, Accept, PeerEof, PeerReset, TargetEof, Elsewhere
<1>3. CASE RunStream(t)
  <2>1. CASE DialOk(t) \/ PumpRead(t) \/ PumpReadEof(t)
    BY <1>a, <1>c, <2>1 DEF DialOk, PumpRead, PumpReadEof, Elsewhere
  <2>2. CASE DialFail(t)
    BY <1>a, <1>c, <1>d, <2>2 DEF DialFail, SendToHub, EndPump, Elsewhere
  <2>3. CASE PumpEof(t)
    BY <1>a, <1>c, <1>d, <2>3 DEF PumpEof, SendToHub, EndPump, Elsewhere
  <2>4. CASE PumpSend(t)
    <3>1. targetSent[t] \in 1..MaxChunks[t]
      BY <1>a, <2>4, CapsAssumption DEF PumpSend, TypeInv, TypeOK
    <3>2. targetSent[t] \in Chunks
      BY <3>1, ChunkNumbers
    <3> QED
      BY <1>a, <1>c, <1>e, <2>4, <3>2 DEF PumpSend, SendToHub, Elsewhere
  <2>5. CASE PumpSendFailed(t) \/ PumpWriteFailed(t) \/ PumpClosed(t)
    BY <1>a, <1>c, <2>5 DEF PumpSendFailed, PumpWriteFailed, PumpClosed, EndPump, Elsewhere
  <2>6. CASE PumpWrite(t)
    BY <1>a, <1>c, <2>6 DEF PumpWrite, Elsewhere
  <2> QED
    BY <1>3, <2>1, <2>2, <2>3, <2>4, <2>5, <2>6 DEF RunStream
<1> QED
  BY <1>1, <1>2, <1>3

(* Steps of the two loops about another stream.                            *)
LEMMA OtherLoops ==
  ASSUME TypeInv, NEW s \in Sids,
         \/ (HubData \/ HubClose) /\ Head(toHub).sid # s
         \/ (HubDeliver \/ HubDeliverFailed) /\ hubW.sid # s
         \/ (CliOpen \/ CliOpenUnknown \/ CliData \/ CliClose) /\ Head(toSpoke).sid # s
         \/ CliDeliver /\ cliW.sid # s
  PROVE  Elsewhere(s)
<1> USE DEF frames, hubVars, peerVars, clientVars, targetVars
<1>a. DOMAIN writer = Sids /\ DOMAIN inbound = Sids /\ DOMAIN pump = Sids
  BY DEF TypeInv, TypeOK
<1>b. toSpoke \in Seq(FrameSet) /\ toHub \in Seq(FrameSet)
  BY DEF TypeInv, TypeOK
<1>c. SameFor(toSpoke, toSpoke, s) /\ SameFor(toHub, toHub, s)
  BY SameForRefl
<1>1. CASE (HubData \/ HubClose) /\ Head(toHub).sid # s
  <2>1. SameFor(toHub', toHub, s) /\ hubW = NoFrame
    BY <1>b, <1>1, TailOther DEF HubData, HubClose, HubHead, HubPop
  <2>2. ~Holding(hubW, s) /\ ~Holding(hubW, s)'
    BY <1>1, <2>1 DEF HubData, HubClose, Holding
  <2>3. CASE HubData
    BY <1>c, <2>1, <2>2, <2>3 DEF HubData, HubPop, Elsewhere
  <2>4. CASE HubClose
    BY <1>1, <1>c, <2>1, <2>2, <2>4 DEF HubClose, HubPop, Elsewhere
  <2> QED
    BY <1>1, <2>3, <2>4
<1>2. CASE (HubDeliver \/ HubDeliverFailed) /\ hubW.sid # s
  <2>1. ~Holding(hubW, s) /\ ~Holding(hubW, s)'
    BY <1>2 DEF HubDeliver, HubDeliverFailed, Holding
  <2> QED
    BY <1>2, <1>a, <1>c, <2>1 DEF HubDeliver, HubDeliverFailed, Elsewhere
<1>3. CASE (CliOpen \/ CliData \/ CliClose) /\ Head(toSpoke).sid # s
  <2>1. SameFor(toSpoke', toSpoke, s) /\ cliW = NoFrame
    BY <1>b, <1>3, TailOther DEF CliOpen, CliData, CliClose, CliHead, CliPop
  <2>2. ~Holding(cliW, s) /\ ~Holding(cliW, s)'
    BY <1>3, <2>1 DEF CliOpen, CliData, CliClose, Holding
  <2>3. CASE CliOpen
    BY <1>3, <1>a, <1>c, <2>1, <2>2, <2>3 DEF CliOpen, CliPop, Elsewhere
  <2>4. CASE CliData
    BY <1>c, <2>1, <2>2, <2>4 DEF CliData, CliPop, Elsewhere
  <2>5. CASE CliClose
    BY <1>3, <1>c, <2>1, <2>2, <2>5 DEF CliClose, CliPop, Elsewhere
  <2> QED
    BY <1>3, <2>3, <2>4, <2>5
<1>4. CASE CliOpenUnknown /\ Head(toSpoke).sid # s
  <2>1. toSpoke # << >> /\ toSpoke' = Tail(toSpoke)
    BY <1>4 DEF CliOpenUnknown, CliHead
  <2>2. Head(toSpoke).sid \in Sids
    BY <1>b, <2>1, HeadMentioned
  <2>3. /\ Frame("close", Head(toSpoke).sid, 0) \in FrameSet
        /\ Frame("close", Head(toSpoke).sid, 0).sid # s
    BY <1>4, <2>2 DEF Frame, FrameSet
  <2>4. SameFor(toSpoke', toSpoke, s)
    BY <1>b, <1>4, <2>1, TailOther
  <2>5. SameFor(toHub', toHub, s)
    BY <1>b, <1>4, <2>3, AppendOther DEF CliOpenUnknown
  <2> QED
    BY <1>4, <2>4, <2>5 DEF CliOpenUnknown, Elsewhere
<1>5. CASE CliDeliver /\ cliW.sid # s
  <2>1. ~Holding(cliW, s) /\ ~Holding(cliW, s)'
    BY <1>5 DEF CliDeliver, Holding
  <2> QED
    BY <1>5, <1>a, <1>c, <2>1 DEF CliDeliver, Elsewhere
<1> QED
  BY <1>1, <1>2, <1>3, <1>4, <1>5

-----------------------------------------------------------------------------
(* The invariant of every stream                                           *)

AllStreams == \A s \in Sids : StreamInv(s)

(* No stream has been opened at the start.                                 *)
LEMMA StreamsInit == Init => AllStreams
<1> SUFFICES ASSUME Init, NEW s \in Sids PROVE StreamInv(s)
  BY DEF AllStreams
<1>1. /\ Arrived(s) = 0 /\ Returned(s) = 0 /\ SentOut(s) = 0 /\ peerSent[s] = 0
      /\ ~Holding(cliW, s) /\ ~Holding(hubW, s)
  BY DEF Init, Arrived, Returned, SentOut, InHand, Holding
<1>2. /\ ~Has(toSpoke, "open", s) /\ ~Has(toSpoke, "close", s) /\ ~Has(toHub, "close", s)
      /\ ~Mentions(toSpoke, s) /\ ~Mentions(toHub, s)
      /\ OpenFirst(toSpoke, s) /\ CloseLast(toSpoke, s) /\ CloseLast(toHub, s)
      /\ Ordered(toSpoke, s, 0, 0) /\ Ordered(toHub, s, 0, 0)
      /\ Complete(toSpoke, s, 0, 0) /\ Complete(toHub, s, 0, 0)
  <2>1. toSpoke = << >> /\ toHub = << >> /\ 0 \in Int /\ 0 <= 0
    BY DEF Init
  <2> QED
    BY <2>1, EmptyQueue
<1>3. \A n : Consecutive(<< >>, n)
  BY DEF Consecutive
<1>4. Life(s)
  BY <1>1, <1>2 DEF Init, Life, Fresh, Quiet
<1>5. ToTarget(s)
  BY <1>1, <1>2, <1>3 DEF Init, ToTarget, Fresh, Pumping
<1>6. ToPeer(s)
  BY <1>1, <1>2, <1>3 DEF Init, ToPeer
<1> QED
  BY <1>4, <1>5, <1>6 DEF StreamInv

(* A step keeps the invariant of the stream it is about, and leaves the    *)
(* others as they are.                                                     *)
LEMMA StreamsStep == TypeInv /\ TypeInv' /\ AllStreams /\ [Next]_vars => AllStreams'
<1> SUFFICES ASSUME TypeInv, TypeInv', AllStreams, [Next]_vars, NEW s \in Sids
             PROVE  StreamInv(s)'
  BY DEF AllStreams
<1>0. StreamInv(s)
  BY DEF AllStreams
<1>1. CASE UNCHANGED vars
  <2>1. Elsewhere(s)
    BY <1>1, SameForRefl DEF Elsewhere, vars, frames, hubVars, peerVars, clientVars, targetVars
  <2> QED
    BY <1>0, <2>1, ElsewhereKeeps
<1>2. CASE RecvLoop
  BY <1>0, <1>2, OwnRecv, OtherLoops, ElsewhereKeeps DEF RecvLoop
<1>3. CASE FrameLoop
  BY <1>0, <1>3, OwnLoop, OtherLoops, ElsewhereKeeps DEF FrameLoop
<1>4. CASE SessionDown
  BY <1>0, <1>4, DownKeeps
<1>5. ASSUME NEW t \in Sids, HubTasks(t) \/ RunStream(t) \/ Environment(t)
      PROVE  StreamInv(s)'
  <2>1. CASE t = s
    BY <1>0, <1>5, <2>1, OwnHub, OwnPump
  <2>2. CASE t # s
    BY <1>0, <1>5, <2>2, OtherTasks, ElsewhereKeeps
  <2> QED
    BY <2>1, <2>2
<1> QED
  BY <1>1, <1>2, <1>3, <1>4, <1>5 DEF Next

(* The invariant of every stream holds throughout.                         *)
LEMMA StreamsInvariant == Spec => [](TypeInv /\ AllStreams)
<1>1. Init => AllStreams
  BY StreamsInit
<1>2. TypeInv /\ TypeInv' /\ AllStreams /\ [Next]_vars => AllStreams'
  BY StreamsStep
<1> QED
  BY <1>1, <1>2, TypeInvariant, PTL DEF Spec

(* Each end of a stream receives a gapless prefix of what the other end    *)
(* sent, for any number of streams that share the session, any channel     *)
(* capacity and any interleaving of the two frame loops, the tasks of      *)
(* accept_loop and the run_stream pumps.                                   *)
THEOREM InOrderHolds == Spec => []InOrder
<1>1. TypeInv /\ AllStreams => InOrder
  <2> SUFFICES ASSUME TypeInv, AllStreams, NEW s \in Sids
               PROVE  Prefix(targetGot[s], peerSent[s]) /\ Prefix(peerGot[s], targetSent[s])
    BY DEF InOrder
  <2>1. StreamInv(s)
    BY DEF AllStreams
  <2>2. /\ targetGot[s] \in Seq(Chunks) /\ peerGot[s] \in Seq(Chunks)
    BY DEF TypeInv, TypeOK
  <2>3. Prefix(targetGot[s], peerSent[s])
    BY <2>1, <2>2 DEF StreamInv, ToTarget, Consecutive, Prefix
  <2>4. Len(peerGot[s]) <= targetSent[s]
    <3>1. /\ Returned(s) = Len(peerGot[s]) + Len(writer[s]) + InHand(hubW, s)
          /\ Len(peerGot[s]) \in Nat /\ Len(writer[s]) \in Nat /\ InHand(hubW, s) \in Nat
          /\ targetSent[s] \in Nat /\ Returned(s) \in Nat
      <4>1. InHand(hubW, s) \in Nat
        BY DEF InHand
      <4> QED
        BY <4>1, CountsTyped, Zenon DEF Returned
    <3>2. Returned(s) <= targetSent[s]
      BY <2>1, CountsTyped DEF StreamInv, ToPeer, SentOut
    <3>3. \A a, b, c, d, e \in Nat : d = a + b + c /\ d <= e => a <= e
      OBVIOUS
    <3> QED
      BY <3>1, <3>2, <3>3, Zenon
  <2>5. Prefix(peerGot[s], targetSent[s])
    BY <2>1, <2>2, <2>4 DEF StreamInv, ToPeer, Consecutive, Prefix
  <2> QED
    BY <2>3, <2>5
<1> QED
  BY <1>1, StreamsInvariant, PTL

(* A pump that ends because the hub closed the stream has written every    *)
(* chunk of the peer to the target: the Close that accept_loop sends after *)
(* EOF is queued behind the data, and run_stream drains its channel.       *)
THEOREM DrainedCompleteHolds == Spec => []DrainedComplete
<1>1. AllStreams => DrainedComplete
  BY DEF AllStreams, StreamInv, ToTarget, DrainedComplete
<1> QED
  BY <1>1, StreamsInvariant, PTL

(* A peer that keeps its side open while the session lasts sees the end of *)
(* the stream only after every chunk of the target: recv_loop drops the    *)
(* writer on Close, and the downstream task drains it first.               *)
THEOREM ResponseCompleteHolds == Spec => []ResponseComplete
<1>1. AllStreams => ResponseComplete
  BY DEF AllStreams, StreamInv, ToPeer, ResponseComplete
<1> QED
  BY <1>1, StreamsInvariant, PTL
=============================================================================
