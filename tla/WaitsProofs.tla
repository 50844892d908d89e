----------------------------- MODULE WaitsProofs -----------------------------
(***************************************************************************)
(* Proofs about Waits, for any limits: a successful run has the whole      *)
(* reply, a failed one failed by itself, and an exit code is real.  Chat   *)
(* frames are accounted for as two streams, of texts and of statistics.    *)
(***************************************************************************)
EXTENDS Waits, TLAPS

-----------------------------------------------------------------------------
(* A stream: the frames of one type in q, of which the value last taken in *)
(* was got and the value last sent is sent.                                *)

Own(f, type) == f.of = "own" /\ f.type = type

\* The value last sent has been taken in, or is among the first n frames.
Reaches(q, type, got, sent, n) ==
    got # sent => \E j \in 1..n : Own(q[j], type) /\ q[j].value = sent

\* Values grow; the last is there when all is well, and before the turn's end always.
Stream(q, type, got, sent, whole) ==
    /\ got <= sent
    /\ \A i \in DOMAIN q : Own(q[i], type) => got < q[i].value /\ q[i].value <= sent
    /\ \A i, j \in DOMAIN q :
          i < j /\ Own(q[i], type) /\ Own(q[j], type) => q[i].value < q[j].value
    /\ whole => Reaches(q, type, got, sent, Len(q))
    /\ \A i \in DOMAIN q : Own(q[i], "complete") => Reaches(q, type, got, sent, i - 1)

\* No text is left out before one that is there.
Gapless(q, got) ==
    \A i \in DOMAIN q : Own(q[i], "text") =>
        \A v \in (got + 1)..(q[i].value - 1) :
            \E j \in 1..(i - 1) : Own(q[j], "text") /\ q[j].value = v

Ended(q) == \E i \in DOMAIN q : Own(q[i], "complete")

\* r is q and one more frame f.
More(q, r, f) ==
    /\ DOMAIN q = 1..Len(q) /\ DOMAIN r = 1..(Len(q) + 1)
    /\ Len(q) \in Nat /\ Len(r) = Len(q) + 1
    /\ \A i \in 1..Len(q) : r[i] = q[i] /\ r[i].value \in Nat
    /\ r[Len(q) + 1] = f /\ f.value \in Nat

\* r is q without its first frame f.
Less(q, r, f) ==
    /\ DOMAIN q = 1..Len(q) /\ DOMAIN r = 1..(Len(q) - 1)
    /\ Len(q) \in Nat \ {0} /\ Len(r) = Len(q) - 1
    /\ \A i \in 1..(Len(q) - 1) : r[i] = q[i + 1]
    /\ \A i \in 1..Len(q) : q[i].value \in Nat
    /\ q[1] = f

LEMMA AppendMore ==
    ASSUME NEW q \in Seq(Frames), NEW f \in Frames
    PROVE  More(q, Append(q, f), f) /\ Append(q, f) \in Seq(Frames)
<1> DEFINE r == Append(q, f)
<1>1. /\ r \in Seq(Frames) /\ DOMAIN q = 1..Len(q) /\ DOMAIN r = 1..(Len(q) + 1)
      /\ Len(q) \in Nat /\ Len(r) = Len(q) + 1
      /\ \A i \in 1..Len(q) : r[i] = q[i] /\ q[i] \in Frames
      /\ r[Len(q) + 1] = f
  OBVIOUS
<1>2. \A g \in Frames : g.value \in Nat
  BY DEF Frames
<1> HIDE DEF r
<1> QED BY <1>1, <1>2 DEF More, r

LEMMA TailLess ==
    ASSUME NEW q \in Seq(Frames), q # <<>>
    PROVE  Less(q, Tail(q), Head(q)) /\ Tail(q) \in Seq(Frames) /\ Head(q) \in Frames
<1> DEFINE r == Tail(q)
<1>1. /\ r \in Seq(Frames) /\ DOMAIN q = 1..Len(q) /\ DOMAIN r = 1..(Len(q) - 1)
      /\ Len(q) \in Nat \ {0} /\ Len(r) = Len(q) - 1
      /\ \A i \in 1..(Len(q) - 1) : r[i] = q[i + 1]
      /\ \A i \in 1..Len(q) : q[i] \in Frames
      /\ q[1] = Head(q) /\ Head(q) \in Frames
  OBVIOUS
<1>2. \A g \in Frames : g.value \in Nat
  BY DEF Frames
<1> HIDE DEF r
<1> QED BY <1>1, <1>2 DEF Less, r

\* A frame of another kind comes.
LEMMA StreamIdles ==
    ASSUME NEW q, NEW r, NEW f, NEW type, NEW got \in Nat, NEW sent \in Nat, NEW whole \in BOOLEAN,
           More(q, r, f), Stream(q, type, got, sent, whole),
           ~Own(f, type), Own(f, "complete") => whole
    PROVE  Stream(r, type, got, sent, whole)
<1>1. \A i \in DOMAIN r : Own(r[i], type) => i \in DOMAIN q /\ r[i] = q[i]
  BY DEF More
<1>2. ASSUME NEW n \in 0..Len(q), Reaches(q, type, got, sent, n)
      PROVE  Reaches(r, type, got, sent, n)
  BY <1>2 DEF More, Reaches
<1>3. ASSUME NEW n \in 0..Len(q), Reaches(q, type, got, sent, n)
      PROVE  Reaches(r, type, got, sent, n + 1)
  BY <1>3 DEF More, Reaches
<1>4. whole => Reaches(r, type, got, sent, Len(r))
  BY <1>3 DEF More, Stream
<1>5. ASSUME NEW i \in DOMAIN r, Own(r[i], "complete")
      PROVE  Reaches(r, type, got, sent, i - 1)
  <2>1. CASE i = Len(q) + 1
    BY <1>2, <1>5, <2>1 DEF More, Stream
  <2>2. CASE i # Len(q) + 1
    <3>1. i \in DOMAIN q /\ r[i] = q[i] /\ i - 1 \in 0..Len(q)
      BY <2>2 DEF More
    <3> QED BY <1>2, <1>5, <3>1 DEF Stream
  <2> QED BY <2>1, <2>2
<1>6. /\ \A i \in DOMAIN r : Own(r[i], type) => got < r[i].value /\ r[i].value <= sent
      /\ \A i, j \in DOMAIN r :
            i < j /\ Own(r[i], type) /\ Own(r[j], type) => r[i].value < r[j].value
  BY <1>1 DEF Stream
<1> QED BY <1>4, <1>5, <1>6 DEF Stream

\* The next value is sent.
LEMMA StreamGrows ==
    ASSUME NEW q, NEW r, NEW f, NEW type, NEW got \in Nat, NEW sent \in Nat, NEW next \in Nat,
           More(q, r, f), Stream(q, type, got, sent, TRUE), ~Ended(q), sent < next,
           Own(f, type), f.value = next, type # "complete"
    PROVE  Stream(r, type, got, next, TRUE)
<1>1. \A i \in DOMAIN r : \/ i \in DOMAIN q /\ r[i] = q[i] /\ i < Len(q) + 1
                          \/ i = Len(q) + 1 /\ r[i] = f
  BY DEF More
<1>2. got <= next
  BY DEF Stream
<1>3. \A i \in DOMAIN r : Own(r[i], type) => got < r[i].value /\ r[i].value <= next
  BY <1>1 DEF Stream, More
<1>4. \A i, j \in DOMAIN r :
         i < j /\ Own(r[i], type) /\ Own(r[j], type) => r[i].value < r[j].value
  BY <1>1 DEF Stream, More
<1>5. Reaches(r, type, got, next, Len(r))
  BY DEF Reaches, More
<1>6. \A i \in DOMAIN r : ~Own(r[i], "complete")
  BY <1>1 DEF Ended, Own
<1> QED BY <1>2, <1>3, <1>4, <1>5, <1>6 DEF Stream

\* Values are sent that do not arrive.
LEMMA StreamLoses ==
    ASSUME NEW q, NEW type, NEW got \in Nat, NEW sent \in Nat, NEW next \in Nat,
           Stream(q, type, got, sent, FALSE), ~Ended(q), sent <= next,
           \A i \in DOMAIN q : q[i].value \in Nat
    PROVE  Stream(q, type, got, next, FALSE)
BY DEF Stream, Ended

\* The first frame is taken in, which is not of this kind.
LEMMA StreamPasses ==
    ASSUME NEW q, NEW r, NEW f, NEW type, NEW got \in Nat, NEW sent \in Nat, NEW whole \in BOOLEAN,
           Less(q, r, f), Stream(q, type, got, sent, whole), ~Own(f, type)
    PROVE  Stream(r, type, got, sent, whole)
<1>1. \A i \in DOMAIN r : i + 1 \in DOMAIN q /\ r[i] = q[i + 1]
  BY DEF Less
<1>2. ASSUME NEW n \in 1..Len(q), Reaches(q, type, got, sent, n)
      PROVE  Reaches(r, type, got, sent, n - 1)
  <2> SUFFICES ASSUME got # sent
               PROVE  \E j \in 1..(n - 1) : Own(r[j], type) /\ r[j].value = sent
    BY DEF Reaches
  <2>1. PICK j \in 1..n : Own(q[j], type) /\ q[j].value = sent
    BY <1>2 DEF Reaches
  <2>2. j # 1
    BY <2>1 DEF Less
  <2>3. j - 1 \in 1..(n - 1) /\ r[j - 1] = q[j]
    BY <2>2 DEF Less
  <2> QED BY <2>1, <2>3
<1>3. whole => Reaches(r, type, got, sent, Len(r))
  BY <1>2 DEF Stream, Less
<1>4. ASSUME NEW i \in DOMAIN r, Own(r[i], "complete")
      PROVE  Reaches(r, type, got, sent, i - 1)
  <2>1. i + 1 \in DOMAIN q /\ r[i] = q[i + 1] /\ i \in 1..Len(q) /\ (i + 1) - 1 = i
    BY DEF Less
  <2>2. Reaches(q, type, got, sent, i)
    BY <1>4, <2>1 DEF Stream
  <2> QED BY <1>2, <2>1, <2>2
<1>5. \A i, j \in DOMAIN r :
         i < j /\ Own(r[i], type) /\ Own(r[j], type) => r[i].value < r[j].value
  <2>1. \A i, j \in DOMAIN r : i < j => i + 1 < j + 1
    BY DEF Less
  <2>2. \A i, j \in DOMAIN q :
           i < j /\ Own(q[i], type) /\ Own(q[j], type) => q[i].value < q[j].value
    BY DEF Stream
  <2> QED BY <1>1, <2>1, <2>2
<1> QED BY <1>1, <1>3, <1>4, <1>5 DEF Stream

\* The first frame is taken in and is.
LEMMA StreamTakes ==
    ASSUME NEW q, NEW r, NEW f, NEW type, NEW got \in Nat, NEW sent \in Nat, NEW whole \in BOOLEAN,
           Less(q, r, f), Stream(q, type, got, sent, whole), Own(f, type)
    PROVE  Stream(r, type, f.value, sent, whole)
<1>1. \A i \in DOMAIN r : i + 1 \in DOMAIN q /\ r[i] = q[i + 1] /\ 1 < i + 1
  BY DEF Less
<1>2. 1 \in DOMAIN q /\ q[1] = f /\ f.value <= sent
  BY DEF Less, Stream
<1>3. ASSUME NEW n \in 1..Len(q), Reaches(q, type, got, sent, n)
      PROVE  Reaches(r, type, f.value, sent, n - 1)
  <2> SUFFICES ASSUME f.value # sent
               PROVE  \E j \in 1..(n - 1) : Own(r[j], type) /\ r[j].value = sent
    BY DEF Reaches
  <2>0. got # sent
    BY <1>2 DEF Stream, Less
  <2>1. PICK j \in 1..n : Own(q[j], type) /\ q[j].value = sent
    BY <1>3, <2>0 DEF Reaches
  <2>2. j # 1
    BY <1>2, <2>1
  <2>3. j - 1 \in 1..(n - 1) /\ r[j - 1] = q[j]
    BY <2>2 DEF Less
  <2> QED BY <2>1, <2>3
<1>4. whole => Reaches(r, type, f.value, sent, Len(r))
  BY <1>3 DEF Stream, Less
<1>5. ASSUME NEW i \in DOMAIN r, Own(r[i], "complete")
      PROVE  Reaches(r, type, f.value, sent, i - 1)
  <2>1. i + 1 \in DOMAIN q /\ r[i] = q[i + 1] /\ i \in 1..Len(q) /\ (i + 1) - 1 = i
    BY DEF Less
  <2>2. Reaches(q, type, got, sent, i)
    BY <1>5, <2>1 DEF Stream
  <2> QED BY <1>3, <2>1, <2>2
<1>6. \A i, j \in DOMAIN r :
         i < j /\ Own(r[i], type) /\ Own(r[j], type) => r[i].value < r[j].value
  <2>1. \A i, j \in DOMAIN r : i < j => i + 1 < j + 1
    BY DEF Less
  <2>2. \A i, j \in DOMAIN q :
           i < j /\ Own(q[i], type) /\ Own(q[j], type) => q[i].value < q[j].value
    BY DEF Stream
  <2> QED BY <1>1, <2>1, <2>2
<1>7. \A i \in DOMAIN r : Own(r[i], type) => f.value < r[i].value /\ r[i].value <= sent
  BY <1>1, <1>2 DEF Stream
<1> QED BY <1>2, <1>4, <1>5, <1>6, <1>7 DEF Stream

\* The connection breaks after n of the frames.
LEMMA StreamBreaks ==
    ASSUME NEW q \in Seq(Frames), NEW n \in 0..Len(q), NEW type, NEW got \in Nat,
           NEW sent \in Nat, NEW whole, Stream(q, type, got, sent, whole)
    PROVE  Stream(SubSeq(q, 1, n), type, got, sent, FALSE)
<1> DEFINE r == SubSeq(q, 1, n)
<1>1. /\ Len(q) \in Nat /\ DOMAIN q = 1..Len(q) /\ DOMAIN r = 1..n
      /\ \A i \in 1..n : r[i] = q[i]
  OBVIOUS
<1> HIDE DEF r
<1>2. \A i \in DOMAIN r : i \in DOMAIN q /\ r[i] = q[i]
  BY <1>1
<1>3. ASSUME NEW i \in DOMAIN r, Own(r[i], "complete")
      PROVE  Reaches(r, type, got, sent, i - 1)
  <2>1. Reaches(q, type, got, sent, i - 1)
    BY <1>2, <1>3 DEF Stream
  <2>2. \A j \in 1..(i - 1) : r[j] = q[j]
    BY <1>1
  <2> QED BY <2>1, <2>2 DEF Reaches
<1> QED BY <1>2, <1>3 DEF Stream, r

\* What the prefix of a sequence of frames is.
LEMMA PrefixFrames ==
    ASSUME NEW q \in Seq(Frames), NEW n \in 0..Len(q)
    PROVE  LET r == SubSeq(q, 1, n)
           IN /\ r \in Seq(Frames) /\ Len(r) = n
              /\ DOMAIN r = 1..n
              /\ \A i \in DOMAIN r : i \in DOMAIN q /\ r[i] = q[i]
OBVIOUS

LEMMA GaplessBreaks ==
    ASSUME NEW q \in Seq(Frames), NEW n \in 0..Len(q), NEW got \in Nat, Gapless(q, got)
    PROVE  Gapless(SubSeq(q, 1, n), got)
<1> DEFINE r == SubSeq(q, 1, n)
<1>1. DOMAIN r = 1..n /\ \A i \in DOMAIN r : i \in DOMAIN q /\ r[i] = q[i]
  BY PrefixFrames
<1> HIDE DEF r
<1> SUFFICES ASSUME NEW i \in DOMAIN r, Own(r[i], "text"), NEW v \in (got + 1)..(r[i].value - 1)
             PROVE  \E j \in 1..(i - 1) : Own(r[j], "text") /\ r[j].value = v
  BY DEF Gapless, r
<1>2. PICK j \in 1..(i - 1) : Own(q[j], "text") /\ q[j].value = v
  BY <1>1 DEF Gapless
<1>3. j \in DOMAIN r
  BY <1>1
<1> QED BY <1>1, <1>2, <1>3

LEMMA GaplessIdles ==
    ASSUME NEW q, NEW r, NEW f, NEW got \in Nat,
           More(q, r, f), Gapless(q, got), ~Own(f, "text")
    PROVE  Gapless(r, got)
<1> SUFFICES ASSUME NEW i \in DOMAIN r, Own(r[i], "text"), NEW v \in (got + 1)..(r[i].value - 1)
             PROVE  \E j \in 1..(i - 1) : Own(r[j], "text") /\ r[j].value = v
  BY DEF Gapless
<1>1. i \in DOMAIN q /\ r[i] = q[i]
  BY DEF More
<1>2. PICK j \in 1..(i - 1) : Own(q[j], "text") /\ q[j].value = v
  BY <1>1 DEF Gapless
<1>3. r[j] = q[j]
  BY <1>1 DEF More
<1> QED BY <1>2, <1>3

\* The next text follows the last, which is there.
LEMMA GaplessGrows ==
    ASSUME NEW q, NEW r, NEW f, NEW got \in Nat, NEW sent \in Nat,
           More(q, r, f), Gapless(q, got), Stream(q, "text", got, sent, TRUE),
           Own(f, "text"), f.value = sent + 1
    PROVE  Gapless(r, got)
<1> SUFFICES ASSUME NEW i \in DOMAIN r, Own(r[i], "text"), NEW v \in (got + 1)..(r[i].value - 1)
             PROVE  \E j \in 1..(i - 1) : Own(r[j], "text") /\ r[j].value = v
  BY DEF Gapless
<1>1. CASE i \in DOMAIN q
  <2>1. r[i] = q[i]
    BY <1>1 DEF More
  <2>2. PICK j \in 1..(i - 1) : Own(q[j], "text") /\ q[j].value = v
    BY <1>1, <2>1 DEF Gapless
  <2>3. r[j] = q[j]
    BY <1>1 DEF More
  <2> QED BY <2>2, <2>3
<1>2. CASE i \notin DOMAIN q
  <2>1. i = Len(q) + 1 /\ r[i] = f /\ v \in (got + 1)..sent
    BY <1>2 DEF More
  <2>2. PICK k \in 1..Len(q) : Own(q[k], "text") /\ q[k].value = sent
    BY <2>1 DEF Stream, Reaches
  <2>3. k \in DOMAIN q /\ r[k] = q[k]
    BY DEF More
  <2>4. CASE v = sent
    BY <2>1, <2>2, <2>3, <2>4 DEF More
  <2>5. CASE v # sent
    <3>1. v \in (got + 1)..(q[k].value - 1)
      BY <2>1, <2>2, <2>5
    <3>2. PICK j \in 1..(k - 1) : Own(q[j], "text") /\ q[j].value = v
      BY <2>2, <2>3, <3>1 DEF Gapless
    <3>3. j \in 1..Len(q) /\ j \in 1..(i - 1) /\ r[j] = q[j]
      BY <2>1 DEF More
    <3> QED BY <3>2, <3>3
  <2> QED BY <2>4, <2>5
<1> QED BY <1>1, <1>2

\* The first frame is taken in; if it is a text, it is the next.
LEMMA GaplessTakes ==
    ASSUME NEW q, NEW r, NEW f, NEW got \in Nat, NEW sent \in Nat, NEW whole,
           Less(q, r, f), Gapless(q, got), Stream(q, "text", got, sent, whole)
    PROVE  /\ ~Own(f, "text") => Gapless(r, got)
           /\ Own(f, "text") => f.value = got + 1 /\ Gapless(r, got + 1)
<1>1. \A i \in DOMAIN r : i + 1 \in DOMAIN q /\ r[i] = q[i + 1] /\ i \in Nat
  BY DEF Less
<1>2. 1 \in DOMAIN q /\ q[1] = f /\ f.value \in Nat
  BY DEF Less
<1>3. Own(f, "text") => f.value = got + 1
  <2> SUFFICES ASSUME Own(f, "text"), f.value # got + 1 PROVE FALSE
    OBVIOUS
  <2>1. got < f.value /\ got + 1 \in (got + 1)..(f.value - 1)
    BY <1>2 DEF Stream
  <2>2. \E j \in 1..(1 - 1) : Own(q[j], "text") /\ q[j].value = got + 1
    BY <1>2, <2>1 DEF Gapless
  <2> QED BY <2>2
<1>4. ASSUME NEW i \in DOMAIN r, Own(r[i], "text"), NEW v \in (got + 1)..(r[i].value - 1),
             ~(Own(f, "text") /\ f.value = v)
      PROVE  \E j \in 1..(i - 1) : Own(r[j], "text") /\ r[j].value = v
  <2>1. PICK k \in 1..((i + 1) - 1) : Own(q[k], "text") /\ q[k].value = v
    BY <1>1, <1>4 DEF Gapless
  <2>2. k # 1
    BY <1>2, <1>4, <2>1
  <2>3. k - 1 \in 1..(i - 1) /\ k - 1 \in DOMAIN r /\ r[k - 1] = q[k]
    BY <1>1, <2>2 DEF Less
  <2> QED BY <2>1, <2>3
<1>5. ASSUME ~Own(f, "text") PROVE Gapless(r, got)
  BY <1>4, <1>5 DEF Gapless
<1>6. ASSUME Own(f, "text") PROVE Gapless(r, got + 1)
  <2> SUFFICES ASSUME NEW i \in DOMAIN r, Own(r[i], "text"),
                      NEW v \in (got + 1 + 1)..(r[i].value - 1)
               PROVE  \E j \in 1..(i - 1) : Own(r[j], "text") /\ r[j].value = v
    BY DEF Gapless
  <2>1. r[i].value \in Nat
    BY <1>1 DEF Less
  <2>2. v \in (got + 1)..(r[i].value - 1) /\ v # got + 1
    BY <2>1
  <2> QED BY <1>3, <1>4, <1>6, <2>2
<1> QED BY <1>3, <1>5, <1>6

-----------------------------------------------------------------------------
(* Type correctness.                                                       *)

LEMMA FrameType ==
    ASSUME NEW of \in Owners, NEW type \in Types, NEW value \in Nat
    PROVE  Frame(of, type, value) \in Frames
BY DEF Frame, Frames

\* A frame of the turn is appended to what is on its way, or lost.
LEMMA Tells ==
    ASSUME TypeOK, NEW f \in Frames, Tell(f)
    PROVE  /\ down' \in Seq(Frames) /\ Len(down') <= MaxQueue
           /\ IF viewer /\ Listening THEN down' = Append(down, f) ELSE down' = down
           /\ UNCHANGED <<kind, waitVars, lost, misled>>
<1>1. down \in Seq(Frames) /\ Len(down) <= MaxQueue /\ MaxQueue \in Nat
  BY BoundsAssumption DEF TypeOK
<1>2. Append(down, f) \in Seq(Frames) /\ Len(Append(down, f)) = Len(down) + 1
  BY <1>1
<1>3. Len(down) < MaxQueue => Len(down) + 1 <= MaxQueue
  BY <1>1
<1> QED BY <1>1, <1>2, <1>3 DEF Tell

LEMMA UpType ==
    ASSUME TypeOK
    PROVE  /\ up # <<>> => Tail(up) \in Seq({"join", "send"}) /\ Len(Tail(up)) <= Buffer
           /\ \A f \in {"join", "send"} : Len(up) < Buffer =>
                  Append(up, f) \in Seq({"join", "send"}) /\ Len(Append(up, f)) <= Buffer
<1>1. up \in Seq({"join", "send"}) /\ Len(up) <= Buffer /\ Buffer \in Nat
  BY BoundsAssumption DEF TypeOK
<1>2. ASSUME up # <<>>
      PROVE  Tail(up) \in Seq({"join", "send"}) /\ Len(Tail(up)) = Len(up) - 1 /\ Len(up) \in Nat
  BY <1>1, <1>2
<1>3. ASSUME NEW f \in {"join", "send"}
      PROVE  Append(up, f) \in Seq({"join", "send"}) /\ Len(Append(up, f)) = Len(up) + 1
  BY <1>1
<1>4. Len(up) \in Nat
  BY <1>1
<1> QED BY <1>1, <1>2, <1>3, <1>4

LEMMA TypeStep == TypeOK /\ [Next]_vars => TypeOK'
<1> SUFFICES ASSUME TypeOK, [Next]_vars PROVE TypeOK'
  OBVIOUS
<1> USE BoundsAssumption
<1>1. ASSUME TakeJoin PROVE TypeOK'
  <2>1. up' \in Seq({"join", "send"}) /\ Len(up') <= Buffer
    BY <1>1, UpType DEF TakeJoin, Takes
  <2>2. PICK answer \in {<<>>, <<Frame("none", "exit", code)>>, <<Frame("none", "error", 0)>>} :
          down' = IF Listening THEN down \o answer ELSE down
    BY <1>1 DEF TakeJoin
  <2>3. answer \in Seq(Frames) /\ Len(answer) \in 0..1
    <3>1. Frame("none", "exit", code) \in Frames /\ Frame("none", "error", 0) \in Frames
      BY FrameType DEF TypeOK, Owners, Types
    <3>2. \A f \in Frames : <<f>> \in Seq(Frames) /\ Len(<<f>>) = 1
      OBVIOUS
    <3>3. <<>> \in Seq(Frames) /\ Len(<<>>) = 0
      OBVIOUS
    <3>4. CASE answer = <<>>
      BY <3>3, <3>4
    <3>5. ASSUME NEW f \in Frames, answer = <<f>>
          PROVE  answer \in Seq(Frames) /\ Len(answer) \in 0..1
      BY <3>2, <3>5
    <3> QED BY <3>1, <3>4, <3>5
  <2>4. /\ down \in Seq(Frames) /\ Len(down) <= MaxQueue /\ Len(down) \in Nat
        /\ MaxQueue \in Nat
    BY DEF TypeOK
  <2>5. down \o answer \in Seq(Frames) /\ Len(down \o answer) = Len(down) + Len(answer)
    BY <2>3, <2>4
  <2>6. down' \in Seq(Frames) /\ Len(down') <= MaxQueue
    <3>0. Listening => Len(down) < MaxQueue
      BY <1>1 DEF TakeJoin
    <3> HIDE DEF Listening
    <3>1. \A m, n \in Nat : m < MaxQueue /\ n \in 0..1 => m + n <= MaxQueue
      BY <2>4
    <3>2. Listening => Len(down) + Len(answer) <= MaxQueue
      BY <3>0, <3>1, <2>3, <2>4
    <3> QED BY <2>2, <2>4, <2>5, <3>2
  <2> QED BY <1>1, <2>1, <2>6 DEF TypeOK, TakeJoin, waitVars
<1>2. ASSUME TakeSend \/ RefuseSend PROVE TypeOK'
  <2>1. up' \in Seq({"join", "send"}) /\ Len(up') <= Buffer
    BY <1>2, UpType DEF TakeSend, RefuseSend, Takes
  <2>2. CASE TakeSend
    BY <2>1, <2>2 DEF TypeOK, TakeSend, waitVars
  <2>3. CASE RefuseSend
    <3>1. PICK f \in Frames : Tell(f)
      BY <2>3, FrameType DEF RefuseSend, Owners, Types
    <3> QED BY <2>1, <2>3, <3>1, Tells DEF TypeOK, RefuseSend, waitVars
  <2> QED BY <1>2, <2>2, <2>3
<1>3. ASSUME StreamText PROVE TypeOK'
  <2>1. said \in Seq(Nat) /\ Len(said) < MaxTexts /\ Len(said) + 1 \in Nat
    BY <1>3 DEF TypeOK, StreamText
  <2>2. /\ Append(said, Len(said) + 1) \in Seq(Nat)
        /\ Len(Append(said, Len(said) + 1)) = Len(said) + 1
    BY <2>1
  <2>3. Len(said) + 1 <= MaxTexts
    BY <2>1
  <2>4. Frame("own", "text", Len(said) + 1) \in Frames
    BY <2>1, FrameType DEF Owners, Types
  <2> QED BY <1>3, <2>2, <2>3, <2>4, Tells DEF TypeOK, StreamText, waitVars
<1>4. ASSUME StreamStats PROVE TypeOK'
  <2>1. Len(said) \in Nat
    BY DEF TypeOK
  <2>2. Frame("own", "stats", Len(said)) \in Frames
    BY <2>1, FrameType DEF Owners, Types
  <2> QED BY <1>4, <2>1, <2>2, Tells DEF TypeOK, StreamStats, waitVars
<1>5. ASSUME Complete PROVE TypeOK'
  <2>1. PICK f \in Frames : Tell(f) /\ code' \in Nat
    <3>1. CASE kind = "chat"
      BY <1>5, <3>1, FrameType DEF Complete, Owners, Types, TypeOK
    <3>2. CASE kind # "chat"
      <4>1. code' \in Nat
        BY <1>5, <3>2 DEF Complete, ExitCodes
      <4> QED BY <1>5, <3>2, <4>1, FrameType DEF Complete, Owners, Types
    <3> QED BY <3>1, <3>2
  <2> QED BY <1>5, <2>1, Tells DEF TypeOK, Complete, waitVars
<1>6. ASSUME Die PROVE TypeOK'
  <2>1. PICK f \in Frames : Tell(f)
    BY <1>6, FrameType DEF Die, Owners, Types
  <2> QED BY <1>6, <2>1, Tells DEF TypeOK, Die, waitVars
<1>7. ASSUME Chatter PROVE TypeOK'
  <2>1. PICK f \in Frames : down' = Append(down, f)
    BY <1>7, FrameType DEF Chatter, Owners, Types
  <2>2. down \in Seq(Frames) /\ Len(down) < MaxQueue
    BY <1>7 DEF TypeOK, Chatter
  <2>3. down' \in Seq(Frames) /\ Len(down') = Len(down) + 1
    BY <2>1, <2>2
  <2>4. Len(down') <= MaxQueue
    BY <2>2, <2>3
  <2> QED BY <1>7, <2>3, <2>4 DEF TypeOK, Chatter, waitVars, relayVars
<1>8. ASSUME Drop PROVE TypeOK'
  <2>1. down \in Seq(Frames) /\ Len(down) <= MaxQueue
    BY DEF TypeOK
  <2>2. PICK n \in 0..Len(down) : down' = SubSeq(down, 1, n)
    BY <1>8 DEF Drop
  <2>3. down' \in Seq(Frames) /\ Len(down') = n
    BY <2>1, <2>2, PrefixFrames
  <2>4. Len(down') <= MaxQueue
    BY <2>1, <2>3
  <2> QED BY <1>8, <2>3, <2>4 DEF TypeOK, Drop, waitVars, relayVars
<1>9. ASSUME Dial \/ ReadFails \/ ReadTimesOut \/ TimePasses PROVE TypeOK'
  <2>1. left' \in 0..Timeout
    BY <1>9 DEF TypeOK, Dial, ReadFails, ReadTimesOut, TimePasses
  <2>2. /\ at' \in {"dial", "join", "send", "read", "done"}
        /\ result' \in {"none", "success", "timeout", "error"}
        /\ result' = "none" <=> at' # "done"
    BY <1>9 DEF TypeOK, Dial, ReadFails, ReadTimesOut, TimePasses, Return
  <2>3. lost' \in BOOLEAN
    BY <1>9 DEF TypeOK, Dial, ReadFails, ReadTimesOut, TimePasses
  <2> QED
    BY <1>9, <2>1, <2>2, <2>3 DEF TypeOK, Dial, ReadFails, ReadTimesOut, TimePasses, relayVars
<1>10. ASSUME WriteAll PROVE TypeOK'
  <2>1. PICK from \in {"join", "send"}, frame \in {"join", "send"}, to \in {"send", "read"} :
          Write(from, frame, to)
    BY <1>10 DEF WriteAll
  <2>2. up' \in Seq({"join", "send"}) /\ Len(up') <= Buffer
    BY <2>1, UpType DEF Write, TypeOK
  <2>3. left' \in 0..Timeout
    BY <2>1 DEF Write, TypeOK
  <2> QED BY <2>1, <2>2, <2>3 DEF TypeOK, Write, Return, relayVars
<1>11. ASSUME ReadFrame PROVE TypeOK'
  <2>1. down # <<>> /\ down \in Seq(Frames) /\ Len(down) <= MaxQueue /\ down' = Tail(down)
    BY <1>11 DEF ReadFrame, TypeOK
  <2>2. down' \in Seq(Frames) /\ Len(down') <= MaxQueue /\ Head(down) \in Frames
    BY <2>1, TailLess DEF Less
  <2>3. Head(down).value \in Nat
    BY <2>2 DEF Frames
  <2>4. Append(text, Head(down).value) \in Seq(Nat)
    BY <2>3 DEF TypeOK
  <2>5. text' \in Seq(Nat) /\ stats' \in Nat /\ exit' \in Nat
    BY <1>11, <2>3, <2>4 DEF TypeOK, ReadFrame
  <2>6. left' \in 0..Timeout /\ misled' \in Foreign \cup {"no"}
    BY <1>11 DEF ReadFrame, Within, TypeOK, Foreign
  <2>7. \A f : Ending(f) \in {"none", "success", "error"}
    BY DEF Ending
  <2>8. /\ at' \in {"dial", "join", "send", "read", "done"}
        /\ result' \in {"none", "success", "timeout", "error"}
        /\ result' = "none" <=> at' # "done"
    BY <1>11, <2>7 DEF ReadFrame, Return, TypeOK
  <2> QED BY <1>11, <2>2, <2>5, <2>6, <2>8 DEF TypeOK, ReadFrame, relayVars
<1>12. CASE UNCHANGED vars
  BY <1>12 DEF TypeOK, vars, waitVars, relayVars
<1> QED
  BY <1>1, <1>2, <1>3, <1>4, <1>5, <1>6, <1>7, <1>8, <1>9, <1>10, <1>11, <1>12
     DEF Next, Relay, Wait

LEMMA TypeInit == Init => TypeOK
<1> SUFFICES ASSUME Init PROVE TypeOK
  OBVIOUS
<1>1. /\ text \in Seq(Nat) /\ said \in Seq(Nat) /\ Len(said) = 0
      /\ up \in Seq({"join", "send"}) /\ Len(up) = 0
      /\ down \in Seq(Frames) /\ Len(down) = 0
  BY DEF Init
<1>2. left \in 0..Timeout /\ Len(said) <= MaxTexts /\ Len(up) <= Buffer /\ Len(down) <= MaxQueue
  BY <1>1, BoundsAssumption DEF Init
<1>3. {stats, used, exit, code} \subseteq Nat
  BY DEF Init, NoCode
<1> QED BY <1>1, <1>2, <1>3 DEF Init, TypeOK

\* Type correctness: the wait's state, what is under way and relay's are well formed.
THEOREM WaitsTypeCorrect == Spec => []TypeOK
BY TypeInit, TypeStep, PTL DEF Spec

-----------------------------------------------------------------------------
(* What is written to relay, and what relay has made of it: a session is   *)
(* joined before the one message is sent that starts the turn.             *)

Unsent == \A i \in DOMAIN up : up[i] # "send"

ChatControl ==
    /\ turn # "none" => viewer
    /\ at \in {"dial", "join", "send"} => turn = "none" /\ Unsent
    /\ at = "send" => viewer \/ \E j \in DOMAIN up : up[j] = "join"
    /\ \A i \in DOMAIN up : up[i] = "send" =>
          /\ i = Len(up)
          /\ turn = "none"
          /\ viewer \/ \E j \in 1..(i - 1) : up[j] = "join"

Control ==
    /\ kind = "terminal" => at # "send" /\ turn \in {"working", "complete"} /\ Unsent
    /\ kind = "chat" => ChatControl

\* What is left of a queue of words of which the first is taken, and of one more.
LEMMA TailWords ==
    ASSUME NEW S, NEW q \in Seq(S), q # <<>>
    PROVE  /\ DOMAIN q = 1..Len(q) /\ Len(q) \in Nat \ {0}
           /\ Len(Tail(q)) = Len(q) - 1
           /\ DOMAIN Tail(q) = 1..(Len(q) - 1)
           /\ \A i \in 1..(Len(q) - 1) : Tail(q)[i] = q[i + 1]
           /\ Head(q) = q[1]
OBVIOUS

LEMMA AppendWords ==
    ASSUME NEW S, NEW q \in Seq(S), NEW f \in S
    PROVE  /\ DOMAIN q = 1..Len(q) /\ Len(q) \in Nat
           /\ Len(Append(q, f)) = Len(q) + 1
           /\ DOMAIN Append(q, f) = 1..(Len(q) + 1)
           /\ \A i \in 1..Len(q) : Append(q, f)[i] = q[i]
           /\ Append(q, f)[Len(q) + 1] = f
OBVIOUS

LEMMA ControlStep == TypeOK /\ Control /\ [Next]_vars => Control'
<1> SUFFICES ASSUME TypeOK, Control, [Next]_vars PROVE Control'
  OBVIOUS
<1>0. up \in Seq({"join", "send"})
  BY DEF TypeOK
\* Steps that leave all of this alone.
<1>1. ASSUME UNCHANGED <<kind, up, viewer, turn, at>> PROVE Control'
  BY <1>1 DEF Control, ChatControl, Unsent
<1>2. ASSUME TakeJoin PROVE Control'
  <2>1. /\ UNCHANGED <<kind, at, turn>> /\ viewer' = TRUE
        /\ up # <<>> /\ up' = Tail(up)
    BY <1>2 DEF TakeJoin, Takes, waitVars
  <2>2. \A i \in DOMAIN up' : i + 1 \in DOMAIN up /\ up'[i] = up[i + 1] /\ i \in Nat
    BY <1>0, <2>1, TailWords
  <2>3. Len(up') = Len(up) - 1 /\ Len(up) \in Nat
    BY <1>0, <2>1, TailWords
  <2>4. Unsent => Unsent'
    BY <2>2 DEF Unsent
  <2> QED BY <2>1, <2>2, <2>3, <2>4 DEF Control, ChatControl
<1>3. ASSUME TakeSend \/ RefuseSend PROVE Control'
  <2>1. /\ UNCHANGED <<kind, at, viewer>> /\ turn' # "none"
        /\ up # <<>> /\ up' = Tail(up) /\ Head(up) = "send"
    BY <1>3 DEF TakeSend, RefuseSend, Takes, Tell, waitVars
  <2>2. /\ 1 \in DOMAIN up /\ up[1] = "send"
        /\ Len(up) \in Nat /\ DOMAIN up' = 1..(Len(up) - 1)
    BY <1>0, <2>1, TailWords
  <2>3. kind = "chat"
    BY <2>2 DEF Control, Unsent, TypeOK, Kinds
  <2>4. Len(up) = 1 /\ viewer
    <3>1. 1 = Len(up) /\ (viewer \/ \E j \in 1..(1 - 1) : up[j] = "join")
      BY <2>2, <2>3 DEF Control, ChatControl
    <3>2. 1..(1 - 1) = {}
      OBVIOUS
    <3> QED BY <3>1, <3>2
  <2>5. at \notin {"dial", "join", "send"}
    BY <2>2, <2>3 DEF Control, ChatControl, Unsent
  <2>6. DOMAIN up' = {}
    BY <2>2, <2>4
  <2> QED BY <2>1, <2>3, <2>4, <2>5, <2>6 DEF Control, ChatControl
<1>4. ASSUME StreamText \/ StreamStats \/ Complete \/ Die PROVE Control'
  <2>1. /\ UNCHANGED <<kind, at, viewer, up>>
        /\ turn = "working" /\ turn' # "none"
        /\ kind = "terminal" => turn' \in {"working", "complete"}
    BY <1>4 DEF StreamText, StreamStats, Complete, Die, Tell, waitVars
  <2> QED BY <2>1 DEF Control, ChatControl, Unsent
<1>5. ASSUME Chatter \/ Drop \/ TimePasses PROVE Control'
  BY <1>1, <1>5 DEF Chatter, Drop, TimePasses, waitVars, relayVars
<1>6. ASSUME Dial PROVE Control'
  BY <1>6 DEF Dial, Return, relayVars, Control, ChatControl, Unsent
<1>7. ASSUME ReadFrame \/ ReadFails \/ ReadTimesOut PROVE Control'
  <2>1. at = "read" /\ at' \in {"read", "done"} /\ UNCHANGED <<kind, viewer, turn, up>>
    BY <1>7 DEF ReadFrame, ReadFails, ReadTimesOut, Return, relayVars
  <2> QED BY <2>1 DEF Control, ChatControl, Unsent
<1>8. ASSUME Write("join", "join", IF kind = "chat" THEN "send" ELSE "read") PROVE Control'
  <2>1. at = "join" /\ UNCHANGED <<kind, viewer, turn>>
    BY <1>8 DEF Write, relayVars
  <2>2. CASE at' = "done" /\ up' = up
    BY <2>1, <2>2 DEF Control, ChatControl, Unsent
  <2>3. CASE up' = Append(up, "join") /\ at' = IF kind = "chat" THEN "send" ELSE "read"
    <3>1. /\ DOMAIN up = 1..Len(up) /\ Len(up) \in Nat /\ DOMAIN up' = 1..(Len(up) + 1)
          /\ \A i \in 1..Len(up) : up'[i] = up[i]
          /\ up'[Len(up) + 1] = "join"
      BY <1>0, <2>3, AppendWords
    <3>2. \A i \in DOMAIN up' : (i \in DOMAIN up /\ up'[i] = up[i]) \/ up'[i] = "join"
      BY <3>1
    <3>3. Unsent => Unsent'
      BY <3>2 DEF Unsent
    <3>4. \E j \in DOMAIN up' : up'[j] = "join"
      BY <3>1
    <3>5. Unsent
      BY <2>1 DEF Control, ChatControl, TypeOK, Kinds
    <3> QED BY <2>1, <2>3, <3>3, <3>4, <3>5 DEF Control, ChatControl, Unsent
  <2> QED BY <1>8, <2>2, <2>3 DEF Write, Return
<1>9. ASSUME Write("send", "send", "read") PROVE Control'
  <2>1. at = "send" /\ UNCHANGED <<kind, viewer, turn>> /\ kind # "terminal"
    BY <1>9 DEF Write, relayVars, Control
  <2>2. CASE at' = "done" /\ up' = up
    BY <2>1, <2>2 DEF Control, ChatControl, Unsent
  <2>3. CASE up' = Append(up, "send") /\ at' = "read"
    <3>1. /\ DOMAIN up = 1..Len(up) /\ Len(up) \in Nat /\ DOMAIN up' = 1..(Len(up) + 1)
          /\ Len(up') = Len(up) + 1
          /\ \A i \in 1..Len(up) : up'[i] = up[i]
      BY <1>0, <2>3, AppendWords
    <3>2. kind = "chat" => turn = "none" /\ Unsent
                           /\ (viewer \/ \E j \in DOMAIN up : up[j] = "join")
      BY <2>1 DEF Control, ChatControl
    <3>3. ASSUME kind = "chat", NEW i \in DOMAIN up', up'[i] = "send" PROVE i = Len(up')
      BY <3>1, <3>2, <3>3 DEF Unsent
    <3>4. kind = "chat" => viewer \/ \E j \in 1..(Len(up') - 1) : up'[j] = "join"
      BY <3>1, <3>2
    <3> QED BY <2>1, <2>3, <3>2, <3>3, <3>4 DEF Control, ChatControl
  <2> QED BY <1>9, <2>2, <2>3 DEF Write, Return
<1>10. CASE UNCHANGED vars
  BY <1>1, <1>10 DEF vars, waitVars, relayVars
<1> QED
  BY <1>2, <1>3, <1>4, <1>5, <1>6, <1>7, <1>8, <1>9, <1>10 DEF Next, Relay, Wait, WriteAll

LEMMA ControlInit == Init => Control
BY DEF Init, Control, ChatControl, Unsent

-----------------------------------------------------------------------------
(* A chat: what is under way completes what has been read.                 *)

Numbered(s) == \A i \in DOMAIN s : s[i] = i

\* A frame that the wait does not pass over tells the truth about the turn.
ChatFrame(f, phase) ==
    /\ f.of = "stray" => f.type \in {"error", "exit"}
    /\ f.of \notin Foreign =>
        /\ f.type \in {"error", "exited"} => phase \in {"died", "refused"}
        /\ f.type = "complete" => phase = "complete"
        /\ f.type \in {"text", "stats", "complete"} => f.of = "own"

Reading ==
    /\ \A i \in DOMAIN down : ChatFrame(down[i], turn)
    /\ Numbered(text) /\ Numbered(said)
    /\ Stream(down, "text", Len(text), Len(said), ~lost)
    /\ Gapless(down, Len(text))
    /\ Stream(down, "stats", stats, used, ~lost)
    /\ used <= Len(said)

\* A turn that has not ended or not begun is not over on its way either.
LEMMA Underway ==
    ASSUME Reading, turn \in {"none", "working"}
    PROVE  /\ ~Ended(down)
           /\ \A i \in DOMAIN down : \A phase : ChatFrame(down[i], phase)
BY DEF Reading, ChatFrame, Ended, Own, Foreign

\* A frame f of a chat is sent, and neither a text nor statistics.
LEMMA TellQuietly ==
    ASSUME TypeOK, Reading, NEW f \in Frames, ChatFrame(f, turn'),
           ~Own(f, "text"), ~Own(f, "stats"),
           \A i \in DOMAIN down : ChatFrame(down[i], turn'),
           UNCHANGED <<text, stats, said, used, lost>>,
           \/ down' = down
           \/ down' = Append(down, f) /\ ~lost
    PROVE  Reading'
<1>1. CASE down' = down
  BY <1>1 DEF Reading
<1>2. CASE down' = Append(down, f) /\ ~lost
  <2>1. More(down, down', f)
    BY <1>2, AppendMore DEF TypeOK
  <2>2. /\ Len(text) \in Nat /\ Len(said) \in Nat /\ stats \in Nat /\ used \in Nat
        /\ lost \in BOOLEAN /\ ~lost = TRUE
    BY <1>2 DEF TypeOK
  <2>3. Stream(down', "text", Len(text), Len(said), TRUE)
    BY <2>1, <2>2, StreamIdles DEF Reading
  <2>4. Stream(down', "stats", stats, used, TRUE)
    BY <2>1, <2>2, StreamIdles DEF Reading
  <2>5. Gapless(down', Len(text))
    BY <2>1, <2>2, GaplessIdles DEF Reading
  <2>6. \A i \in DOMAIN down' : ChatFrame(down'[i], turn')
    <3>1. \A i \in DOMAIN down' : (i \in DOMAIN down /\ down'[i] = down[i]) \/ down'[i] = f
      BY <2>1 DEF More
    <3> QED BY <3>1
  <2> QED BY <2>2, <2>3, <2>4, <2>5, <2>6 DEF Reading
<1> QED BY <1>1, <1>2

\* Whether a frame of the turn arrives, in a chat that is being read.
LEMMA TurnTells ==
    ASSUME TypeOK, Control, kind = "chat", at # "done", turn = "working",
           NEW f \in Frames, Tell(f)
    PROVE  /\ IF lost THEN down' = down ELSE down' = Append(down, f)
           /\ UNCHANGED <<kind, at, text, stats, lost>>
<1>1. at # "dial" /\ viewer
  BY DEF Control, ChatControl
<1>2. Listening <=> ~lost
  BY <1>1 DEF Listening
<1> QED BY <1>1, <1>2, Tells DEF waitVars

LEMMA ReadingStep ==
    ASSUME TypeOK, Control, Reading, kind = "chat", at # "done", [Next]_vars, at' # "done"
    PROVE  Reading'
<1>0. /\ Len(text) \in Nat /\ Len(said) \in Nat /\ stats \in Nat /\ used \in Nat
      /\ lost \in BOOLEAN /\ down \in Seq(Frames)
  BY DEF TypeOK
<1>a. \A i \in DOMAIN down : ChatFrame(down[i], turn)
  BY DEF Reading
<1>1. ASSUME UNCHANGED <<down, text, stats, said, used, lost, turn>> PROVE Reading'
  BY <1>1 DEF Reading
<1>2. ASSUME TakeJoin PROVE Reading'
  <2>1. down' = IF Listening THEN down \o <<>> ELSE down
    BY <1>2 DEF TakeJoin
  <2>2. down' = down
    BY <1>0, <2>1
  <2> QED BY <1>1, <1>2, <2>2 DEF TakeJoin, waitVars
<1>3. ASSUME TakeSend \/ RefuseSend PROVE turn = "none"
  <2>1. up # <<>> /\ Head(up) = "send" /\ up \in Seq({"join", "send"})
    BY <1>3 DEF TakeSend, RefuseSend, Takes, TypeOK
  <2>2. 1 \in DOMAIN up /\ up[1] = "send"
    BY <2>1, TailWords
  <2> QED BY <2>2 DEF Control, ChatControl
<1>4. ASSUME TakeSend PROVE Reading'
  <2>1. UNCHANGED <<down, text, stats, said, used, lost>>
    BY <1>4 DEF TakeSend, waitVars
  <2>2. \A i \in DOMAIN down : ChatFrame(down[i], turn')
    BY <1>3, <1>4, Underway
  <2> QED BY <2>1, <2>2 DEF Reading
<1>5. ASSUME RefuseSend PROVE Reading'
  <2>1. PICK of \in {"own", "none"} : Tell(Frame(of, "error", 0))
    BY <1>5 DEF RefuseSend
  <2> DEFINE f == Frame(of, "error", 0)
  <2>2. f \in Frames /\ f.type = "error"
    BY FrameType DEF Owners, Types, Frame
  <2>3. /\ down' = down \/ (down' = Append(down, f) /\ ~lost)
        /\ UNCHANGED <<text, stats, lost>>
    BY <2>1, <2>2, Tells DEF Listening, waitVars
  <2>4. turn' = "refused" /\ UNCHANGED <<said, used>>
    BY <1>5 DEF RefuseSend
  <2>5. \A i \in DOMAIN down : ChatFrame(down[i], turn')
    BY <1>3, <1>5, Underway
  <2>6. ChatFrame(f, turn') /\ ~Own(f, "text") /\ ~Own(f, "stats")
    BY <2>1, <2>2, <2>4 DEF Frame, ChatFrame, Own
  <2> HIDE DEF f
  <2> QED BY <2>2, <2>3, <2>4, <2>5, <2>6, TellQuietly
<1>6. ASSUME StreamText PROVE Reading'
  <2> DEFINE n == Len(said) + 1
             f == Frame("own", "text", n)
  <2>1. /\ turn = "working" /\ UNCHANGED <<turn, used>>
        /\ said' = Append(said, n) /\ Tell(f)
    BY <1>6 DEF StreamText
  <2>2. f \in Frames /\ Own(f, "text") /\ ~Own(f, "stats") /\ f.value = n /\ n \in Nat
        /\ ~Own(f, "complete") /\ ChatFrame(f, turn)
    BY <1>0, FrameType DEF Owners, Types, Frame, Own, ChatFrame, Foreign
  <2>3. Len(said') = n /\ Numbered(said')
    <3>1. /\ DOMAIN said = 1..Len(said) /\ DOMAIN said' = 1..n /\ Len(said') = n
          /\ \A i \in 1..Len(said) : said'[i] = said[i]
          /\ said'[n] = n
      BY <2>1, AppendWords DEF TypeOK
    <3> QED BY <1>0, <3>1 DEF Numbered, Reading
  <2>4. /\ IF lost THEN down' = down ELSE down' = Append(down, f)
        /\ UNCHANGED <<text, stats, lost>>
    BY <2>1, <2>2, TurnTells
  <2>5. ~Ended(down)
    BY <2>1, Underway
  <2>6. used <= n /\ Len(said) < n /\ Len(said) <= n
    BY <1>0 DEF Reading
  <2> HIDE DEF f, n
  <2>7. CASE lost
    <3>1. ~lost = FALSE
      BY <2>7
    <3>2. \A i \in DOMAIN down : down[i].value \in Nat
      <4>1. \A i \in DOMAIN down : down[i] \in Frames
        BY <1>0
      <4> QED BY <4>1 DEF Frames
    <3>3. Stream(down, "text", Len(text), n, FALSE)
      BY <1>0, <2>2, <2>5, <2>6, <3>1, <3>2, StreamLoses DEF Reading
    <3> QED BY <2>1, <2>3, <2>4, <2>6, <2>7, <3>1, <3>3 DEF Reading
  <2>8. CASE ~lost
    <3>1. More(down, down', f) /\ (~lost) = TRUE
      BY <1>0, <2>2, <2>4, <2>8, AppendMore
    <3>2. Stream(down', "text", Len(text), n, TRUE)
      BY <1>0, <2>2, <2>5, <2>6, <3>1, StreamGrows DEF Reading
    <3>3. Stream(down', "stats", stats, used, TRUE)
      BY <1>0, <2>2, <3>1, StreamIdles DEF Reading
    <3>4. Gapless(down', Len(text))
      BY <1>0, <2>2, <3>1, GaplessGrows DEF Reading, n
    <3>5. \A i \in DOMAIN down' : ChatFrame(down'[i], turn')
      <4>1. \A i \in DOMAIN down' : (i \in DOMAIN down /\ down'[i] = down[i]) \/ down'[i] = f
        BY <3>1 DEF More
      <4> QED BY <1>a, <2>1, <2>2, <4>1
    <3> QED BY <2>1, <2>3, <2>4, <2>6, <3>1, <3>2, <3>3, <3>4, <3>5 DEF Reading
  <2> QED BY <1>0, <2>7, <2>8
<1>7. ASSUME StreamStats PROVE Reading'
  <2> DEFINE n == Len(said)
             f == Frame("own", "stats", n)
  <2>1. /\ turn = "working" /\ UNCHANGED <<turn, said>>
        /\ used # n /\ used' = n /\ Tell(f)
    BY <1>7 DEF StreamStats
  <2>2. f \in Frames /\ Own(f, "stats") /\ ~Own(f, "text") /\ f.value = n
        /\ ~Own(f, "complete") /\ ChatFrame(f, turn)
    BY <1>0, FrameType DEF Owners, Types, Frame, Own, ChatFrame, Foreign
  <2>3. /\ IF lost THEN down' = down ELSE down' = Append(down, f)
        /\ UNCHANGED <<text, stats, lost>>
    BY <2>1, <2>2, TurnTells
  <2>4. ~Ended(down)
    BY <2>1, Underway
  <2>5. used < n /\ used <= n /\ n <= n
    BY <1>0, <2>1 DEF Reading
  <2> HIDE DEF f
  <2>6. CASE lost
    <3>1. ~lost = FALSE
      BY <2>6
    <3>2. \A i \in DOMAIN down : down[i].value \in Nat
      <4>1. \A i \in DOMAIN down : down[i] \in Frames
        BY <1>0
      <4> QED BY <4>1 DEF Frames
    <3>3. Stream(down, "stats", stats, n, FALSE)
      BY <1>0, <2>4, <2>5, <3>1, <3>2, StreamLoses DEF Reading
    <3> QED BY <2>1, <2>3, <2>5, <2>6, <3>1, <3>3 DEF Reading
  <2>7. CASE ~lost
    <3>1. More(down, down', f) /\ (~lost) = TRUE
      BY <1>0, <2>2, <2>3, <2>7, AppendMore
    <3>2. Stream(down', "stats", stats, n, TRUE)
      BY <1>0, <2>2, <2>4, <2>5, <3>1, StreamGrows DEF Reading
    <3>3. Stream(down', "text", Len(text), n, TRUE)
      BY <1>0, <2>2, <3>1, StreamIdles DEF Reading
    <3>4. Gapless(down', Len(text))
      BY <1>0, <2>2, <3>1, GaplessIdles DEF Reading
    <3>5. \A i \in DOMAIN down' : ChatFrame(down'[i], turn')
      <4>1. \A i \in DOMAIN down' : (i \in DOMAIN down /\ down'[i] = down[i]) \/ down'[i] = f
        BY <3>1 DEF More
      <4> QED BY <1>a, <2>1, <2>2, <4>1
    <3> QED BY <2>1, <2>3, <2>5, <3>1, <3>2, <3>3, <3>4, <3>5 DEF Reading
  <2> QED BY <1>0, <2>6, <2>7
<1>8. ASSUME Complete \/ Die PROVE Reading'
  <2>1. PICK type \in {"complete", "exited", "error"} :
          /\ Tell(Frame("own", type, 0))
          /\ turn' = IF type = "complete" THEN "complete" ELSE "died"
    BY <1>8 DEF Complete, Die
  <2> DEFINE f == Frame("own", type, 0)
  <2>2. f \in Frames /\ ~Own(f, "text") /\ ~Own(f, "stats") /\ ChatFrame(f, turn')
    BY <2>1, FrameType DEF Owners, Types, Frame, Own, ChatFrame, Foreign
  <2>3. turn = "working" /\ UNCHANGED <<said, used>>
    BY <1>8 DEF Complete, Die
  <2>4. /\ down' = down \/ (down' = Append(down, f) /\ ~lost)
        /\ UNCHANGED <<text, stats, lost>>
    BY <2>1, <2>2, <2>3, TurnTells
  <2>5. \A i \in DOMAIN down : ChatFrame(down[i], turn')
    BY <2>3, Underway
  <2> HIDE DEF f
  <2> QED BY <2>2, <2>3, <2>4, <2>5, TellQuietly
<1>9. ASSUME Chatter PROVE Reading'
  <2>1. PICK f \in {Frame("own", "block", 0), Frame("none", "noise", 0)}
                    \cup {Frame("stray", type, 0) : type \in {"error", "exit"}}
                    \cup {Frame("other", type, 0) :
                              type \in {"text", "stats", "complete", "exited", "error", "exit"}} :
          down' = Append(down, f)
    BY <1>9 DEF Chatter
  <2>2. f \in Frames /\ ~Own(f, "text") /\ ~Own(f, "stats") /\ ChatFrame(f, turn)
    BY <2>1, FrameType DEF Owners, Types, Frame, Own, ChatFrame, Foreign
  <2>3. ~lost /\ UNCHANGED <<text, stats, said, used, lost, turn>>
    BY <1>9 DEF Chatter, Listening, waitVars, relayVars
  <2> QED BY <1>a, <2>1, <2>2, <2>3, TellQuietly
<1>10. ASSUME Drop PROVE Reading'
  <2>1. PICK n \in 0..Len(down) : down' = SubSeq(down, 1, n)
    BY <1>10 DEF Drop
  <2>2. lost' = TRUE /\ UNCHANGED <<text, stats, said, used, turn>>
    BY <1>10 DEF Drop, waitVars, relayVars
  <2>3. \A i \in DOMAIN down' : i \in DOMAIN down /\ down'[i] = down[i]
    BY <1>0, <2>1, PrefixFrames
  <2>4. Stream(down', "text", Len(text), Len(said), FALSE)
    BY <1>0, <2>1, StreamBreaks DEF Reading
  <2>5. Stream(down', "stats", stats, used, FALSE)
    BY <1>0, <2>1, StreamBreaks DEF Reading
  <2>6. Gapless(down', Len(text))
    BY <1>0, <2>1, GaplessBreaks DEF Reading
  <2>7. (~lost') = FALSE
    BY <2>2
  <2> QED BY <1>a, <2>2, <2>3, <2>4, <2>5, <2>6, <2>7 DEF Reading
<1>11. ASSUME Dial \/ WriteAll \/ TimePasses PROVE Reading'
  <2>1. UNCHANGED <<down, text, stats, said, used, turn, lost>>
    BY <1>11 DEF Dial, WriteAll, Write, TimePasses, Return, relayVars
  <2> QED BY <1>1, <2>1
<1>12. ASSUME ReadFrame PROVE Reading'
  <2> DEFINE f == Head(down)
  <2>1. /\ down # <<>> /\ down' = Tail(down)
        /\ text' = IF Accepts(f) /\ f.type = "text" THEN Append(text, f.value) ELSE text
        /\ stats' = IF Accepts(f) /\ f.type = "stats" THEN f.value ELSE stats
        /\ UNCHANGED <<lost, said, used, turn>>
    BY <1>12 DEF ReadFrame, relayVars
  <2>2. Less(down, down', f) /\ f \in Frames
    BY <1>0, <2>1, TailLess
  <2>3. f.value \in Nat
    BY <2>2 DEF Frames
  <2> HIDE DEF f
  <2>4. \A i \in DOMAIN down' : ChatFrame(down'[i], turn')
    <3>1. \A i \in DOMAIN down' : i + 1 \in DOMAIN down /\ down'[i] = down[i + 1]
      BY <2>2 DEF Less
    <3> QED BY <1>a, <2>1, <3>1
  <2>5. ChatFrame(f, turn)
    <3>1. 1 \in DOMAIN down /\ down[1] = f
      BY <2>2 DEF Less
    <3> QED BY <1>a, <3>1
  <2>6. \A type \in {"text", "stats"} : Accepts(f) /\ f.type = type <=> Own(f, type)
    BY <2>5 DEF ChatFrame, Accepts, Own, Foreign
  <2>7. Numbered(text') /\ Gapless(down', Len(text'))
        /\ Stream(down', "text", Len(text'), Len(said), ~lost)
    <3>1. CASE Own(f, "text")
      <4>1. f.value = Len(text) + 1 /\ Gapless(down', Len(text) + 1)
        BY <1>0, <2>2, <3>1, GaplessTakes DEF Reading
      <4>2. text' = Append(text, Len(text) + 1)
        BY <2>1, <2>6, <3>1, <4>1
      <4>3. /\ DOMAIN text = 1..Len(text) /\ DOMAIN text' = 1..(Len(text) + 1)
            /\ Len(text') = Len(text) + 1
            /\ \A i \in 1..Len(text) : text'[i] = text[i]
            /\ text'[Len(text) + 1] = Len(text) + 1
        BY <4>2, AppendWords DEF TypeOK
      <4>4. Numbered(text')
        BY <1>0, <4>3 DEF Numbered, Reading
      <4>5. Stream(down', "text", f.value, Len(said), ~lost)
        BY <1>0, <2>2, <3>1, StreamTakes DEF Reading
      <4> QED BY <4>1, <4>3, <4>4, <4>5
    <3>2. CASE ~Own(f, "text")
      <4>1. text' = text
        BY <2>1, <2>6, <3>2
      <4>2. Gapless(down', Len(text))
        BY <1>0, <2>2, <3>2, GaplessTakes DEF Reading
      <4>3. Stream(down', "text", Len(text), Len(said), ~lost)
        BY <1>0, <2>2, <3>2, StreamPasses DEF Reading
      <4> QED BY <4>1, <4>2, <4>3 DEF Reading
    <3> QED BY <3>1, <3>2
  <2>8. Stream(down', "stats", stats', used, ~lost)
    <3>1. CASE Own(f, "stats")
      <4>1. stats' = f.value
        BY <2>1, <2>6, <3>1
      <4> QED BY <1>0, <2>2, <3>1, <4>1, StreamTakes DEF Reading
    <3>2. CASE ~Own(f, "stats")
      <4>1. stats' = stats
        BY <2>1, <2>6, <3>2
      <4> QED BY <1>0, <2>2, <3>2, <4>1, StreamPasses DEF Reading
    <3> QED BY <3>1, <3>2
  <2> QED BY <2>1, <2>4, <2>7, <2>8 DEF Reading
<1>13. ASSUME ReadFails \/ ReadTimesOut PROVE FALSE
  BY <1>13 DEF ReadFails, ReadTimesOut, Return
<1>14. CASE UNCHANGED vars
  BY <1>1, <1>14 DEF vars, waitVars, relayVars
<1> QED
  BY <1>2, <1>4, <1>5, <1>6, <1>7, <1>8, <1>9, <1>10, <1>11, <1>12, <1>13, <1>14
     DEF Next, Relay, Wait

-----------------------------------------------------------------------------
(* How a wait ends.                                                        *)

\* Exits on their way to a terminal's wait are its own process's.
Exits ==
    \A i \in DOMAIN down :
        down[i].of \notin Foreign /\ down[i].type = "exit" => turn = "complete" /\ down[i].value = code

Inv ==
    /\ TypeOK
    /\ Control
    /\ kind = "chat" /\ at # "done" => Reading
    /\ kind = "terminal" /\ at # "done" => Exits
    /\ kind = "chat" => exit = NoCode
    /\ ReplyIsWhole /\ ExitIsReal /\ FailureIsOwn

\* A terminal's process ends once, and its code stays what it was.
LEMMA ExitsStep ==
    ASSUME TypeOK, Control, Exits, kind = "terminal", at # "done", [Next]_vars, at' # "done"
    PROVE  Exits'
<1>0. down \in Seq(Frames) /\ turn \in {"working", "complete"}
  BY DEF TypeOK, Control
\* What is appended is not an exit, or is that of the process.
<1>1. ASSUME NEW f \in Frames, down' = Append(down, f),
             turn = "complete" => UNCHANGED <<turn, code>>,
             f.of \notin Foreign /\ f.type = "exit" => turn' = "complete" /\ f.value = code'
      PROVE  Exits'
  <2>1. More(down, down', f)
    BY <1>0, <1>1, AppendMore
  <2>2. \A i \in DOMAIN down' : (i \in DOMAIN down /\ down'[i] = down[i]) \/ down'[i] = f
    BY <2>1 DEF More
  <2> QED BY <1>1, <2>2 DEF Exits
<1>2. ASSUME turn = "complete" => UNCHANGED <<turn, code>>,
             \A i \in DOMAIN down' : \E j \in DOMAIN down : down'[i] = down[j]
      PROVE  Exits'
  BY <1>2 DEF Exits
<1>3. ASSUME down' = down PROVE \A i \in DOMAIN down' : \E j \in DOMAIN down : down'[i] = down[j]
  BY <1>3
<1>4. ASSUME TakeJoin PROVE Exits'
  <2>1. UNCHANGED <<turn, code>>
    BY <1>4 DEF TakeJoin
  <2>2. down' = down \/ down' = down \o <<>>
        \/ (turn = "complete" /\ down' = down \o <<Frame("none", "exit", code)>>)
        \/ down' = down \o <<Frame("none", "error", 0)>>
    BY <1>0, <1>4 DEF TakeJoin
  <2>3. Frame("none", "exit", code) \in Frames /\ Frame("none", "error", 0) \in Frames
    BY FrameType DEF TypeOK, Owners, Types
  <2>4. \A f \in Frames : down \o <<f>> = Append(down, f)
    BY <1>0
  <2>5. down \o <<>> = down
    BY <1>0
  <2>6. CASE down' = down
    BY <1>2, <1>3, <2>1, <2>6
  <2>7. CASE turn = "complete" /\ down' = Append(down, Frame("none", "exit", code))
    BY <1>1, <2>1, <2>3, <2>7 DEF Frame
  <2>8. CASE down' = Append(down, Frame("none", "error", 0))
    BY <1>1, <2>1, <2>3, <2>8 DEF Frame
  <2> QED BY <2>2, <2>3, <2>4, <2>5, <2>6, <2>7, <2>8
<1>5. ASSUME TakeSend \/ RefuseSend PROVE FALSE
  <2>1. up # <<>> /\ Head(up) = "send" /\ up \in Seq({"join", "send"})
    BY <1>5 DEF TakeSend, RefuseSend, Takes, TypeOK
  <2>2. 1 \in DOMAIN up /\ up[1] = "send"
    BY <2>1, TailWords
  <2> QED BY <2>2 DEF Control, Unsent
<1>6. ASSUME StreamText \/ StreamStats \/ Die PROVE FALSE
  BY <1>6 DEF StreamText, StreamStats, Die
<1>7. ASSUME Complete PROVE Exits'
  <2> DEFINE f == Frame("none", "exit", code')
  <2>1. turn = "working" /\ turn' = "complete" /\ Tell(f) /\ code' \in Nat
    BY <1>7 DEF Complete, ExitCodes
  <2>2. f \in Frames /\ f.value = code'
    BY <2>1, FrameType DEF Owners, Types, Frame
  <2>3. down' = down \/ down' = Append(down, f)
    BY <2>1, <2>2, Tells
  <2> HIDE DEF f
  <2>4. CASE down' = down
    BY <1>2, <1>3, <2>1, <2>4
  <2>5. CASE down' = Append(down, f)
    BY <1>1, <2>1, <2>2, <2>5
  <2> QED BY <2>3, <2>4, <2>5
<1>8. ASSUME Chatter PROVE Exits'
  <2>1. PICK f \in {Frame("own", "block", 0), Frame("none", "noise", 0)}
                    \cup {Frame("stray", type, 0) : type \in {"error", "exit"}}
                    \cup {Frame("other", type, 0) :
                              type \in {"text", "stats", "complete", "exited", "error", "exit"}} :
          down' = Append(down, f)
    BY <1>8 DEF Chatter
  <2>2. f \in Frames /\ ~(f.of \notin Foreign /\ f.type = "exit")
    BY <2>1, FrameType DEF Owners, Types, Frame, Foreign
  <2>3. UNCHANGED <<turn, code>>
    BY <1>8 DEF Chatter, relayVars
  <2> QED BY <1>1, <2>1, <2>2, <2>3
<1>9. ASSUME Drop PROVE Exits'
  <2>1. PICK n \in 0..Len(down) : down' = SubSeq(down, 1, n)
    BY <1>9 DEF Drop
  <2>2. \A i \in DOMAIN down' : i \in DOMAIN down /\ down'[i] = down[i]
    BY <1>0, <2>1, PrefixFrames
  <2> QED BY <1>2, <1>9, <2>2 DEF Drop, relayVars
<1>10. ASSUME ReadFrame PROVE Exits'
  <2>1. down # <<>> /\ down' = Tail(down) /\ UNCHANGED <<turn, code>>
    BY <1>10 DEF ReadFrame, relayVars
  <2>2. Less(down, down', Head(down))
    BY <1>0, <2>1, TailLess
  <2>3. \A i \in DOMAIN down' : i + 1 \in DOMAIN down /\ down'[i] = down[i + 1]
    BY <2>2 DEF Less
  <2> QED BY <1>2, <2>1, <2>3
<1>11. ASSUME Dial \/ WriteAll \/ TimePasses \/ ReadFails \/ ReadTimesOut \/ UNCHANGED vars
       PROVE  Exits'
  <2>1. UNCHANGED <<down, turn, code>>
    BY <1>11 DEF Dial, WriteAll, Write, TimePasses, ReadFails, ReadTimesOut, Return, relayVars,
                 vars
  <2> QED BY <1>2, <1>3, <2>1
<1> QED
  BY <1>4, <1>5, <1>6, <1>7, <1>8, <1>9, <1>10, <1>11 DEF Next, Relay, Wait

\* What relay says of a turn that is over, it does not take back.
LEMMA TurnIsFinal ==
    ASSUME TypeOK, Control, [Next]_vars
    PROVE  /\ turn = "complete" => UNCHANGED <<turn, said, used, code>>
           /\ turn \in {"died", "refused"} => turn' \in {"died", "refused"}
<1>1. ASSUME TakeSend \/ RefuseSend PROVE turn = "none"
  <2>1. up # <<>> /\ Head(up) = "send" /\ up \in Seq({"join", "send"})
    BY <1>1 DEF TakeSend, RefuseSend, Takes, TypeOK
  <2>2. 1 \in DOMAIN up /\ up[1] = "send"
    BY <2>1, TailWords
  <2> QED BY <2>2 DEF Control, ChatControl, Unsent, TypeOK, Kinds
<1>2. ASSUME StreamText \/ StreamStats \/ Complete \/ Die PROVE turn = "working"
  BY <1>2 DEF StreamText, StreamStats, Complete, Die
<1>3. ASSUME \/ TakeJoin \/ Chatter \/ Drop \/ TimePasses \/ Dial \/ WriteAll
             \/ ReadFrame \/ ReadFails \/ ReadTimesOut \/ UNCHANGED vars
      PROVE  UNCHANGED <<turn, said, used, code>>
  BY <1>3 DEF TakeJoin, Chatter, Drop, TimePasses, Dial, WriteAll, Write, ReadFrame, ReadFails,
              ReadTimesOut, Return, relayVars, vars
<1> QED BY <1>1, <1>2, <1>3 DEF Next, Relay, Wait

\* A chat's wait that ends with a frame has been told the truth, and all of it.
LEMMA ChatEnds ==
    ASSUME TypeOK, Reading, kind = "chat", ReadFrame, at' = "done"
    PROVE  /\ result' = "success" => turn = "complete" /\ text' = said /\ stats' = used
           /\ result' = "error" => turn \in {"died", "refused"} \/ misled' = "stray"
           /\ exit' = exit
<1> DEFINE f == Head(down)
<1>0. /\ Len(text) \in Nat /\ Len(said) \in Nat /\ stats \in Nat /\ used \in Nat
      /\ down \in Seq(Frames) /\ text \in Seq(Nat) /\ said \in Seq(Nat)
  BY DEF TypeOK
<1>1. down # <<>> /\ down' = Tail(down)
  BY DEF ReadFrame
<1>2. Less(down, down', f)
  BY <1>0, <1>1, TailLess
<1>3. 1 \in DOMAIN down /\ down[1] = f
  BY <1>2 DEF Less
<1>4. ChatFrame(f, turn)
  BY <1>3 DEF Reading
<1>5. /\ Accepts(f) /\ Ending(f) # "none"
      /\ result' = Ending(f)
      /\ text' = IF Accepts(f) /\ f.type = "text" THEN Append(text, f.value) ELSE text
      /\ stats' = IF Accepts(f) /\ f.type = "stats" THEN f.value ELSE stats
      /\ exit' = IF Ending(f) # "none" /\ CarriesExit(f) THEN f.value ELSE exit
      /\ f.of = "stray" => misled' = "stray"
  BY DEF ReadFrame, Return, Foreign
<1> HIDE DEF f
<1>6. f.of # "other" /\ f.type \in {"error", "complete", "exited"}
  BY <1>5 DEF Accepts, Ending
<1>7. /\ text' = text /\ stats' = stats /\ exit' = exit
      /\ result' = IF f.type = "complete" THEN "success" ELSE "error"
  BY <1>5, <1>6 DEF Ending, CarriesExit
<1>8. ASSUME f.type = "complete"
      PROVE  turn = "complete" /\ text = said /\ stats = used
  <2>1. turn = "complete" /\ Own(f, "complete")
    BY <1>4, <1>6, <1>8 DEF ChatFrame, Own, Foreign
  <2>2. /\ Reaches(down, "text", Len(text), Len(said), 1 - 1)
        /\ Reaches(down, "stats", stats, used, 1 - 1)
    BY <1>3, <2>1 DEF Reading, Stream
  <2>3. 1..(1 - 1) = {}
    OBVIOUS
  <2>4. Len(text) = Len(said) /\ stats = used
    BY <2>2, <2>3 DEF Reaches
  <2>5. \A i \in 1..Len(said) : text[i] = said[i]
    BY <1>0, <2>4 DEF Reading, Numbered
  <2>6. text = said
    <3>1. text \in [1..Len(text) -> Nat] /\ said \in [1..Len(said) -> Nat]
      BY <1>0
    <3> QED BY <2>4, <2>5, <3>1
  <2> QED BY <2>1, <2>4, <2>6
<1>9. ASSUME f.type # "complete" PROVE turn \in {"died", "refused"} \/ misled' = "stray"
  BY <1>4, <1>5, <1>6, <1>9 DEF ChatFrame, Foreign
<1> QED BY <1>7, <1>8, <1>9

LEMMA InvStep == Inv /\ [Next]_vars => Inv'
<1> SUFFICES ASSUME Inv, [Next]_vars PROVE Inv'
  OBVIOUS
<1>0. TypeOK /\ TypeOK' /\ Control /\ Control'
  BY TypeStep, ControlStep DEF Inv
<1>1. /\ turn = "complete" => UNCHANGED <<turn, said, used, code>>
      /\ turn \in {"died", "refused"} => turn' \in {"died", "refused"}
  BY <1>0, TurnIsFinal
<1>2. kind' = kind
  BY DEF Next, Relay, Wait, TakeJoin, TakeSend, RefuseSend, StreamText, StreamStats, Complete,
         Die, Tell, Chatter, Drop, TimePasses, Dial, WriteAll, Write, ReadFrame, ReadFails,
         ReadTimesOut, vars
<1>3. kind' = "chat" /\ at' # "done" => Reading'
  <2>1. at' # "done" => at # "done"
    BY DEF Next, Relay, Wait, TakeJoin, TakeSend, RefuseSend, StreamText, StreamStats, Complete,
           Die, Tell, Chatter, Drop, TimePasses, Dial, WriteAll, Write, ReadFrame, ReadFails,
           ReadTimesOut, vars, waitVars
  <2> QED BY <1>0, <1>2, <2>1, ReadingStep DEF Inv
<1>4. kind' = "terminal" /\ at' # "done" => Exits'
  <2>1. at' # "done" => at # "done"
    BY DEF Next, Relay, Wait, TakeJoin, TakeSend, RefuseSend, StreamText, StreamStats, Complete,
           Die, Tell, Chatter, Drop, TimePasses, Dial, WriteAll, Write, ReadFrame, ReadFails,
           ReadTimesOut, vars, waitVars
  <2> QED BY <1>0, <1>2, <2>1, ExitsStep DEF Inv
\* Steps that do not end the wait.
<1>5. ASSUME UNCHANGED <<result, text, stats, exit, misled>>, lost => lost'
      PROVE  Inv'
  BY <1>0, <1>1, <1>2, <1>3, <1>4, <1>5 DEF Inv, ReplyIsWhole, ExitIsReal, FailureIsOwn
<1>6. ASSUME \/ TakeJoin \/ TakeSend \/ RefuseSend \/ StreamText \/ StreamStats \/ Complete
             \/ Die \/ Chatter \/ Drop \/ TimePasses \/ UNCHANGED vars
      PROVE  Inv'
  <2>1. UNCHANGED <<result, text, stats, exit, misled>> /\ (lost => lost')
    BY <1>6 DEF TakeJoin, TakeSend, RefuseSend, StreamText, StreamStats, Complete, Die, Tell,
                Chatter, Drop, TimePasses, vars, waitVars
  <2> QED BY <1>5, <2>1
<1>7. ASSUME Dial \/ WriteAll \/ ReadFails \/ ReadTimesOut PROVE Inv'
  <2>1. /\ UNCHANGED <<text, stats, exit, misled>> /\ (lost => lost')
        /\ result' \in {result, "timeout"} \/ (result' = "error" /\ lost')
    BY <1>7 DEF Dial, WriteAll, Write, ReadFails, ReadTimesOut, Return
  <2> QED BY <1>0, <1>1, <1>2, <1>3, <1>4, <2>1 DEF Inv, ReplyIsWhole, ExitIsReal, FailureIsOwn
<1>8. ASSUME ReadFrame PROVE Inv'
  <2>1. at = "read" /\ result = "none" /\ lost' = lost /\ UNCHANGED <<turn, said, used, code>>
    BY <1>0, <1>8 DEF ReadFrame, relayVars, TypeOK
  <2>2. CASE kind = "chat"
    <3>1. CASE at' = "done"
      <4>1. /\ result' = "success" => turn = "complete" /\ text' = said /\ stats' = used
            /\ result' = "error" => turn \in {"died", "refused"} \/ misled' = "stray"
            /\ exit' = exit
        BY <1>0, <1>8, <2>1, <2>2, <3>1, ChatEnds DEF Inv
      <4> QED
        BY <1>0, <1>2, <1>3, <1>4, <2>1, <2>2, <4>1
           DEF Inv, ReplyIsWhole, ExitIsReal, FailureIsOwn, Kinds
    <3>2. CASE at' # "done"
      <4>1. result' = "none" /\ exit' = exit
        BY <1>8, <2>1, <3>2 DEF ReadFrame, Return
      <4> QED
        BY <1>0, <1>2, <1>3, <1>4, <2>1, <2>2, <4>1
           DEF Inv, ReplyIsWhole, ExitIsReal, FailureIsOwn, Kinds
    <3> QED BY <3>1, <3>2
  <2>3. CASE kind = "terminal"
    <3> DEFINE f == Head(down)
    <3>1. down # <<>> /\ down \in Seq(Frames) /\ down' = Tail(down)
      BY <1>0, <1>8 DEF ReadFrame, TypeOK
    <3>2. Less(down, down', f)
      BY <3>1, TailLess
    <3>3. 1 \in DOMAIN down /\ down[1] = f
      BY <3>2 DEF Less
    <3>4. f.of \notin Foreign /\ f.type = "exit" => turn = "complete" /\ f.value = code
      BY <2>1, <2>3, <3>3 DEF Inv, Exits
    <3>5. /\ exit' = exit \/ (f.type = "exit" /\ exit' = f.value /\ (f.of \in Foreign => misled' # "no"))
          /\ misled # "no" => misled' # "no"
      BY <1>8, <2>3 DEF ReadFrame, Accepts, CarriesExit, Foreign
    <3> HIDE DEF f
    <3>6. ExitIsReal'
      BY <2>1, <3>4, <3>5 DEF Inv, ExitIsReal
    <3> QED
      BY <1>0, <1>2, <1>3, <1>4, <2>3, <3>6 DEF Inv, ReplyIsWhole, FailureIsOwn
  <2> QED BY <1>0, <2>2, <2>3 DEF TypeOK, Kinds
<1> QED
  BY <1>6, <1>7, <1>8 DEF Next, Relay, Wait

LEMMA InvInit == Init => Inv
<1> SUFFICES ASSUME Init PROVE Inv
  OBVIOUS
<1>1. TypeOK /\ Control
  BY TypeInit, ControlInit
<1>2. DOMAIN down = {} /\ DOMAIN text = {} /\ DOMAIN said = {} /\ Len(text) = 0 /\ Len(said) = 0
  BY DEF Init
<1>3. Stream(down, "text", 0, 0, ~lost) /\ Stream(down, "stats", 0, 0, ~lost) /\ Gapless(down, 0)
  BY <1>2 DEF Stream, Reaches, Gapless
<1>4. Reading
  BY <1>2, <1>3 DEF Reading, Numbered, Init
<1>5. Exits /\ ReplyIsWhole /\ ExitIsReal /\ FailureIsOwn /\ exit = NoCode
  BY <1>2 DEF Exits, ReplyIsWhole, ExitIsReal, FailureIsOwn, Init
<1> QED BY <1>1, <1>4, <1>5 DEF Inv

LEMMA InvHolds == Spec => []Inv
BY InvInit, InvStep, PTL DEF Spec

\* The reply of a successful chat run is what the session said, all of it and nothing else.
THEOREM WaitsReplyIsWhole == Spec => []ReplyIsWhole
<1>1. Inv => ReplyIsWhole
  BY DEF Inv
<1> QED BY <1>1, InvHolds, PTL

\* The exit code of a terminal run is its own process's, unless relay misleads the wait.
THEOREM WaitsExitIsReal == Spec => []ExitIsReal
<1>1. Inv => ExitIsReal
  BY DEF Inv
<1> QED BY <1>1, InvHolds, PTL

\* A chat run fails by its own turn or connection, or by an error that names no session;
\* no frame that names another session makes it fail.
THEOREM WaitsFailureIsOwn == Spec => []FailureIsOwn
<1>1. Inv => FailureIsOwn
  BY DEF Inv
<1> QED BY <1>1, InvHolds, PTL

=============================================================================
