------------------------------ MODULE RoundProofs -----------------------------
(***************************************************************************)
(* How far generation runs ahead of training.  For any staleness: never    *)
(* more than max_required_samples and one sample (OvershootByOne), and no  *)
(* sample is older than the bound when it is consumed (BoundedLag).  With  *)
(* staleness_threshold = 0 nothing is generated while the weights move     *)
(* (QuietSync), and the recipe implements rounds of on-policy training     *)
(* (OnPolicy).  Last, the newest weights are validated (FinalValidated).   *)
(***************************************************************************)
EXTENDS SampleProofs

(***************************************************************************)
(* The samples among the entries of a queue that has the None once at most.*)
(***************************************************************************)
Entries == Nat \cup {Terminator}

OneNone(q) ==
  \A i, j \in 1..Len(q) : q[i] = Terminator /\ q[j] = Terminator => i = j

\* Where the None is.
LEMMA NoneFound ==
  ASSUME NEW q \in Seq(Entries), OneNone(q), HasNone(q)
  PROVE  /\ NoneAt(q) \in 1..Len(q) /\ q[NoneAt(q)] = Terminator
         /\ \A i \in 1..Len(q) : i # NoneAt(q) => q[i] # Terminator
BY DEF NoneAt, HasNone, OneNone

\* The samples are a sequence of stamps, one shorter if the None is there.
LEMMA SamplesType ==
  ASSUME NEW q \in Seq(Entries), OneNone(q)
  PROVE  /\ SamplesOf(q) \in Seq(Nat)
         /\ Len(SamplesOf(q)) = IF HasNone(q) THEN Len(q) - 1 ELSE Len(q)
         /\ HasNone(q) => Len(q) >= 1
<1> USE DEF Entries
<1>1. Len(q) \in Nat /\ q \in [1..Len(q) -> Entries]
  BY LenProperties
<1>2. CASE ~HasNone(q)
  <2>1. \A i \in 1..Len(q) : q[i] \in Nat
    BY <1>1, <1>2 DEF HasNone
  <2>2. q \in [1..Len(q) -> Nat]
    BY <1>1, <2>1
  <2>3. q \in Seq(Nat)
    BY <1>1, <2>2, SeqDef
  <2> QED
    BY <1>2, <2>3 DEF SamplesOf
<1>3. CASE HasNone(q)
  <2> DEFINE k == NoneAt(q)
             s == [i \in 1..Len(q) - 1 |-> q[IF i < k THEN i ELSE i + 1]]
  <2>1. /\ k \in 1..Len(q)
        /\ \A i \in 1..Len(q) : i # k => q[i] \in Nat
    BY <1>1, <1>3, NoneFound
  <2>2. \A i \in 1..Len(q) - 1 : q[IF i < k THEN i ELSE i + 1] \in Nat
    <3> SUFFICES ASSUME NEW i \in 1..Len(q) - 1
                 PROVE  q[IF i < k THEN i ELSE i + 1] \in Nat
      OBVIOUS
    <3>1. CASE i < k
      BY <1>1, <2>1, <3>1
    <3>2. CASE ~(i < k)
      BY <1>1, <2>1, <3>2
    <3> QED
      BY <3>1, <3>2
  <2> HIDE DEF k
  <2>3. s \in [1..Len(q) - 1 -> Nat] /\ Len(q) - 1 \in Nat
    BY <1>1, <2>1, <2>2
  <2>4. s \in Seq(Nat) /\ Len(s) = Len(q) - 1
    <3> HIDE DEF s
    <3> QED
      BY <2>3, SeqDef, LenProperties
  <2>5. SamplesOf(q) = s
    BY <1>3 DEF SamplesOf, k
  <2> QED
    BY <1>1, <1>3, <2>1, <2>4, <2>5
<1> QED
  BY <1>2, <1>3

\* Which entry each sample is.
LEMMA SamplesAt ==
  ASSUME NEW q \in Seq(Entries), OneNone(q),
         NEW i \in 1..Len(SamplesOf(q))
  PROVE  SamplesOf(q)[i] = IF HasNone(q) /\ i >= NoneAt(q) THEN q[i + 1] ELSE q[i]
<1>1. Len(q) \in Nat
  BY LenProperties
<1>2. CASE ~HasNone(q)
  BY <1>2 DEF SamplesOf
<1>3. CASE HasNone(q)
  <2>1. NoneAt(q) \in 1..Len(q) /\ i \in 1..Len(q) - 1
    BY <1>1, <1>3, NoneFound, SamplesType
  <2> QED
    BY <1>3, <2>1 DEF SamplesOf
<1> QED
  BY <1>2, <1>3

\* Taking the first entry: it is the None, or the first sample.
LEMMA SamplesTail ==
  ASSUME NEW q \in Seq(Entries), OneNone(q), q # <<>>
  PROVE  /\ OneNone(Tail(q))
         /\ Head(q) = Terminator =>
              HasNone(q) /\ ~HasNone(Tail(q)) /\ SamplesOf(Tail(q)) = SamplesOf(q)
         /\ Head(q) # Terminator =>
              /\ HasNone(Tail(q)) <=> HasNone(q)
              /\ SamplesOf(q) # <<>> /\ SamplesOf(q)[1] = Head(q)
              /\ SamplesOf(Tail(q)) = Tail(SamplesOf(q))
<1> DEFINE t == Tail(q)
<1>1. /\ Len(q) \in Nat /\ Len(q) >= 1 /\ Head(q) = q[1]
      /\ t \in Seq(Entries) /\ Len(t) = Len(q) - 1
      /\ \A i \in 1..Len(t) : t[i] = q[i + 1]
  BY LenProperties, EmptySeq, HeadTailProperties
<1> HIDE DEF t
<1>2. OneNone(t)
  <2> SUFFICES ASSUME NEW i \in 1..Len(t), NEW j \in 1..Len(t),
                      t[i] = Terminator, t[j] = Terminator
               PROVE  i = j
    BY DEF OneNone
  <2> QED
    BY <1>1 DEF OneNone
<1>3. ASSUME Head(q) = Terminator
      PROVE  HasNone(q) /\ ~HasNone(t) /\ SamplesOf(t) = SamplesOf(q)
  <2>1. HasNone(q)
    BY <1>1, <1>3 DEF HasNone
  <2>2. NoneAt(q) = 1
    BY <1>1, <1>3, <2>1, NoneFound DEF OneNone
  <2>3. ~HasNone(t)
    BY <1>1, <2>1, <2>2, NoneFound DEF HasNone
  <2>4. SamplesOf(t) = t
    BY <2>3 DEF SamplesOf
  <2>5. /\ Len(SamplesOf(q)) = Len(q) - 1
        /\ SamplesOf(q) \in Seq(Nat) /\ t \in Seq(Nat)
    BY <1>2, <1>1, <2>1, <2>4, SamplesType
  <2>6. \A i \in 1..Len(t) : SamplesOf(q)[i] = t[i]
    BY <1>1, <2>1, <2>2, <2>5, SamplesAt
  <2> QED
    BY <1>1, <2>1, <2>3, <2>4, <2>5, <2>6, SeqEqual
<1>4. ASSUME Head(q) # Terminator
      PROVE  HasNone(t) <=> HasNone(q)
  <2>1. ASSUME HasNone(q) PROVE HasNone(t)
    <3>1. NoneAt(q) \in 2..Len(q) /\ q[NoneAt(q)] = Terminator
      BY <1>1, <1>4, <2>1, NoneFound
    <3>2. t[NoneAt(q) - 1] = Terminator /\ NoneAt(q) - 1 \in 1..Len(t)
      BY <1>1, <3>1
    <3> QED
      BY <3>2 DEF HasNone
  <2>2. ASSUME HasNone(t) PROVE HasNone(q)
    BY <1>1, <2>2 DEF HasNone
  <2> QED
    BY <2>1, <2>2
<1>5. ASSUME Head(q) # Terminator
      PROVE  /\ SamplesOf(q) # <<>> /\ SamplesOf(q)[1] = Head(q)
             /\ SamplesOf(t) = Tail(SamplesOf(q))
  <2>1. CASE ~HasNone(q)
    BY <1>1, <1>4, <1>5, <2>1 DEF SamplesOf, t
  <2>2. CASE HasNone(q)
    <3> DEFINE s == SamplesOf(q)
    <3>1. /\ NoneAt(q) \in 2..Len(q) /\ q[NoneAt(q)] = Terminator
      BY <1>1, <1>5, <2>2, NoneFound
    <3>2. NoneAt(t) = NoneAt(q) - 1
      <4>1. HasNone(t) /\ NoneAt(t) \in 1..Len(t) /\ t[NoneAt(t)] = Terminator
        BY <1>1, <1>2, <1>4, <1>5, <2>2, NoneFound
      <4>2. q[NoneAt(t) + 1] = Terminator /\ NoneAt(t) + 1 \in 1..Len(q)
        BY <1>1, <4>1
      <4>3. NoneAt(t) + 1 = NoneAt(q)
        BY <1>1, <3>1, <4>2 DEF OneNone
      <4> QED
        BY <1>1, <3>1, <4>1, <4>3
    <3>3. s \in Seq(Nat) /\ Len(s) = Len(q) - 1 /\ Len(s) >= 1 /\ s # <<>>
      BY <1>1, <2>2, <3>1, SamplesType, EmptySeq
    <3>4. SamplesOf(t) \in Seq(Nat) /\ Len(SamplesOf(t)) = Len(t) - 1
      BY <1>1, <1>2, <1>4, <1>5, <2>2, SamplesType
    <3>5. s[1] = Head(q)
      BY <1>1, <2>2, <3>1, <3>3, SamplesAt
    <3>6. /\ Tail(s) \in Seq(Nat) /\ Len(Tail(s)) = Len(s) - 1
          /\ \A i \in 1..Len(Tail(s)) : Tail(s)[i] = s[i + 1]
      BY <3>3, HeadTailProperties
    <3>7. \A i \in 1..Len(t) - 1 : SamplesOf(t)[i] = s[i + 1]
      <4> SUFFICES ASSUME NEW i \in 1..Len(t) - 1
                   PROVE  SamplesOf(t)[i] = s[i + 1]
        OBVIOUS
      <4>1. SamplesOf(t)[i] = IF i >= NoneAt(q) - 1 THEN t[i + 1] ELSE t[i]
        BY <1>1, <1>2, <1>4, <1>5, <2>2, <3>2, <3>4, SamplesAt
      <4> DEFINE k == i + 1
      <4>2. s[k] = IF k >= NoneAt(q) THEN q[k + 1] ELSE q[k]
        <5>1. k \in 1..Len(SamplesOf(q))
          BY <1>1, <3>3
        <5> HIDE DEF k
        <5> QED
          BY <2>2, <5>1, SamplesAt
      <4>3. t[i] = q[i + 1] /\ t[i + 1] = q[k + 1]
        BY <1>1
      <4> QED
        BY <1>1, <3>1, <4>1, <4>2, <4>3
    <3>8. SamplesOf(t) = Tail(s)
      BY <1>1, <3>3, <3>4, <3>6, <3>7, SeqEqual
    <3> QED
      BY <3>3, <3>5, <3>8
  <2> QED
    BY <2>1, <2>2
<1> QED
  BY <1>2, <1>3, <1>4, <1>5 DEF t

\* Appending a sample, or the None.
LEMMA SamplesAppend ==
  ASSUME NEW q \in Seq(Entries), OneNone(q), NEW e \in Entries,
         e = Terminator => ~HasNone(q)
  PROVE  /\ OneNone(Append(q, e))
         /\ e = Terminator =>
              HasNone(Append(q, e)) /\ SamplesOf(Append(q, e)) = SamplesOf(q)
         /\ e # Terminator =>
              /\ HasNone(Append(q, e)) <=> HasNone(q)
              /\ SamplesOf(Append(q, e)) = Append(SamplesOf(q), e)
<1> DEFINE a == Append(q, e)
<1>1. /\ Len(q) \in Nat /\ a \in Seq(Entries) /\ Len(a) = Len(q) + 1
      /\ \A i \in 1..Len(q) : a[i] = q[i]
      /\ a[Len(q) + 1] = e
  BY LenProperties, AppendProperties
<1> HIDE DEF a
<1>2. OneNone(a)
  <2> SUFFICES ASSUME NEW i \in 1..Len(a), NEW j \in 1..Len(a),
                      a[i] = Terminator, a[j] = Terminator
               PROVE  i = j
    BY DEF OneNone
  <2> QED
    BY <1>1 DEF OneNone, HasNone
<1>3. HasNone(a) <=> HasNone(q) \/ e = Terminator
  BY <1>1 DEF HasNone
<1>4. SamplesOf(q) \in Seq(Nat) /\ SamplesOf(a) \in Seq(Nat)
  BY <1>1, <1>2, SamplesType
<1>5. HasNone(q) => NoneAt(a) = NoneAt(q)
  <2> SUFFICES ASSUME HasNone(q) PROVE NoneAt(a) = NoneAt(q)
    OBVIOUS
  <2>1. NoneAt(q) \in 1..Len(q) /\ a[NoneAt(q)] = Terminator
    BY <1>1, NoneFound
  <2>2. NoneAt(a) \in 1..Len(a) /\ a[NoneAt(a)] = Terminator
    BY <1>1, <1>2, <1>3, NoneFound
  <2> QED
    BY <1>1, <1>2, <2>1, <2>2 DEF OneNone
<1>6. ASSUME e = Terminator PROVE SamplesOf(a) = SamplesOf(q)
  <2>1. NoneAt(a) = Len(q) + 1
    <3>1. NoneAt(a) \in 1..Len(a) /\ a[NoneAt(a)] = Terminator
      BY <1>1, <1>2, <1>3, <1>6, NoneFound
    <3> QED
      BY <1>1, <1>2, <1>6, <3>1 DEF OneNone
  <2>2. SamplesOf(q) = q
    BY <1>6 DEF SamplesOf
  <2>3. Len(SamplesOf(a)) = Len(q)
    BY <1>1, <1>2, <1>3, <1>6, SamplesType
  <2>4. \A i \in 1..Len(q) : SamplesOf(a)[i] = q[i]
    BY <1>1, <1>2, <1>3, <2>1, <2>3, SamplesAt
  <2> QED
    BY <1>4, <2>2, <2>3, <2>4, SeqEqual
<1>7. ASSUME e # Terminator PROVE SamplesOf(a) = Append(SamplesOf(q), e)
  <2> DEFINE s == SamplesOf(q)
  <2>1. e \in Nat
    BY <1>7 DEF Entries
  <2>2. CASE ~HasNone(q)
    BY <1>3, <1>7, <2>2 DEF SamplesOf, a
  <2>3. CASE HasNone(q)
    <3>1. /\ Len(s) = Len(q) - 1 /\ Len(SamplesOf(a)) = Len(q) /\ Len(q) >= 1
          /\ NoneAt(q) \in 1..Len(q)
      BY <1>1, <1>2, <1>3, <2>3, SamplesType, NoneFound
    <3>2. /\ Append(s, e) \in Seq(Nat) /\ Len(Append(s, e)) = Len(s) + 1
          /\ \A i \in 1..Len(s) : Append(s, e)[i] = s[i]
          /\ Append(s, e)[Len(s) + 1] = e
      BY <1>4, <2>1, AppendProperties
    <3>3. \A i \in 1..Len(q) : SamplesOf(a)[i] = Append(s, e)[i]
      <4> SUFFICES ASSUME NEW i \in 1..Len(q)
                   PROVE  SamplesOf(a)[i] = Append(s, e)[i]
        OBVIOUS
      <4>1. SamplesOf(a)[i] = IF i >= NoneAt(q) THEN a[i + 1] ELSE a[i]
        BY <1>1, <1>2, <1>3, <1>5, <2>3, <3>1, SamplesAt
      <4>2. CASE i = Len(q)
        BY <1>1, <3>1, <3>2, <4>1, <4>2
      <4>3. CASE i # Len(q)
        <5>1. i \in 1..Len(s)
          BY <1>1, <3>1, <4>3
        <5>2. s[i] = IF i >= NoneAt(q) THEN q[i + 1] ELSE q[i]
          BY <2>3, <5>1, SamplesAt
        <5> QED
          BY <1>1, <3>1, <3>2, <4>1, <5>1, <5>2
      <4> QED
        BY <4>2, <4>3
    <3> QED
      BY <1>1, <1>4, <3>1, <3>2, <3>3, SeqEqual
  <2> QED
    BY <2>2, <2>3
<1> QED
  BY <1>2, <1>3, <1>6, <1>7 DEF a

\* What a put keeps of the queue, and which samples are in it then.
Kept == IF Len(queue) >= MaxQueue THEN Tail(queue) ELSE queue

LEMMA KeptSamples ==
  ASSUME TypeOK, OneNone(queue)
  PROVE  /\ Kept \in Seq(Entries) /\ OneNone(Kept)
         /\ HasNone(Kept) => HasNone(queue)
         /\ HasNone(queue) => HasNone(Kept) \/ Len(queue) >= MaxQueue
         /\ \/ SamplesOf(Kept) = QueuedSamples
            \/ QueuedSamples # <<>> /\ SamplesOf(Kept) = Tail(QueuedSamples)
         /\ Len(queue) < MaxQueue => Kept = queue
<1>1. queue \in Seq(Entries) /\ Len(queue) \in Nat /\ MaxQueue \in Nat /\ MaxQueue >= 1
  BY LenProperties, ConstFacts DEF TypeOK, QueueTypeOK, Entries, MaxQueue
<1>2. CASE Len(queue) >= MaxQueue
  <2>1. queue # <<>>
    BY <1>1, <1>2
  <2>2. Kept = Tail(queue) /\ Tail(queue) \in Seq(Entries)
    BY <1>1, <1>2, <2>1, SeqShorter DEF Kept
  <2> QED
    BY <1>1, <1>2, <2>1, <2>2, SamplesTail DEF QueuedSamples
<1>3. CASE ~(Len(queue) >= MaxQueue)
  BY <1>1, <1>3 DEF Kept, QueuedSamples
<1> QED
  BY <1>2, <1>3

\* How many samples are queued.
LEMMA QueuedType ==
  ASSUME TypeOK, OneNone(queue)
  PROVE  /\ queue \in Seq(Entries) /\ QueuedSamples \in Seq(Nat)
         /\ Len(queue) \in Nat /\ Len(QueuedSamples) \in Nat
         /\ Len(QueuedSamples) = IF HasNone(queue) THEN Len(queue) - 1
                                 ELSE Len(queue)
<1>1. queue \in Seq(Entries)
  BY DEF TypeOK, QueueTypeOK, Entries
<1> QED
  BY <1>1, SamplesType, LenProperties DEF QueuedSamples

\* put_sample of a sample: it is the last one, and the first may be lost.
LEMMA PutQueued ==
  ASSUME TypeOK, OneNone(queue), NEW e \in Nat, PutSample(e)
  PROVE  /\ OneNone(queue')
         /\ HasNone(queue') => HasNone(queue)
         /\ HasNone(queue) => HasNone(queue') \/ dropped' > 0
         /\ \/ QueuedSamples' = Append(QueuedSamples, e)
            \/ QueuedSamples # <<>> /\ QueuedSamples' = Append(Tail(QueuedSamples), e)
         /\ Len(queue) < MaxQueue => QueuedSamples' = Append(QueuedSamples, e)
         /\ QueuedSamples' \in Seq(Nat) /\ Len(QueuedSamples') \in Nat
         /\ Len(QueuedSamples') <= Len(QueuedSamples) + 1
<1>1. queue' = Append(Kept, e) /\ e # Terminator /\ e \in Entries
  BY DEF PutSample, Kept, Terminator, Entries
<1>2. OneNone(queue') /\ queue' \in Seq(Entries)
  BY <1>1, KeptSamples, SamplesAppend, AppendProperties
<1>3. QueuedSamples' = Append(SamplesOf(Kept), e)
  BY <1>1, KeptSamples, SamplesAppend DEF QueuedSamples
<1>4. HasNone(queue') <=> HasNone(Kept)
  BY <1>1, KeptSamples, SamplesAppend
<1>5. Len(queue) >= MaxQueue => dropped' > 0
  BY DEF PutSample, TypeOK, QueueTypeOK
<1>6. QueuedSamples \in Seq(Nat) /\ Len(QueuedSamples) \in Nat
  BY QueuedType
<1>7. QueuedSamples # <<>> =>
        /\ Tail(QueuedSamples) \in Seq(Nat)
        /\ Len(Tail(QueuedSamples)) = Len(QueuedSamples) - 1
  BY <1>6, SeqShorter
<1>8. /\ SamplesOf(Kept) \in Seq(Nat)
      /\ Len(SamplesOf(Kept)) \in Nat /\ Len(SamplesOf(Kept)) <= Len(QueuedSamples)
  <2>1. SamplesOf(Kept) \in Seq(Nat) /\ Len(SamplesOf(Kept)) \in Nat
    BY KeptSamples, SamplesType, LenProperties
  <2>2. \/ SamplesOf(Kept) = QueuedSamples
        \/ QueuedSamples # <<>> /\ SamplesOf(Kept) = Tail(QueuedSamples)
    BY KeptSamples
  <2> QED
    BY <1>6, <1>7, <2>1, <2>2
<1>9. /\ QueuedSamples' \in Seq(Nat)
      /\ Len(QueuedSamples') = Len(SamplesOf(Kept)) + 1
  BY <1>3, <1>8, SeqLonger
<1> QED
  BY <1>2, <1>3, <1>4, <1>5, <1>6, <1>8, <1>9, KeptSamples DEF QueuedSamples

\* put_sample of the None: no sample more, and the first may be lost.
LEMMA PutNone ==
  ASSUME TypeOK, ~HasNone(queue), PutSample(Terminator)
  PROVE  /\ OneNone(queue') /\ HasNone(queue')
         /\ \/ QueuedSamples' = QueuedSamples
            \/ QueuedSamples # <<>> /\ QueuedSamples' = Tail(QueuedSamples)
         /\ Len(queue) < MaxQueue => QueuedSamples' = QueuedSamples
         /\ QueuedSamples' \in Seq(Nat) /\ Len(QueuedSamples') \in Nat
         /\ Len(QueuedSamples') <= Len(QueuedSamples)
<1>0. OneNone(queue)
  BY DEF OneNone, HasNone
<1>1. queue' = Append(Kept, Terminator) /\ Terminator \in Entries
  BY DEF PutSample, Kept, Entries
<1>2. ~HasNone(Kept)
  BY <1>0, KeptSamples
<1>3. /\ OneNone(queue') /\ HasNone(queue')
      /\ QueuedSamples' = SamplesOf(Kept)
  BY <1>0, <1>1, <1>2, KeptSamples, SamplesAppend DEF QueuedSamples
<1>4. QueuedSamples \in Seq(Nat) /\ Len(QueuedSamples) \in Nat
  BY <1>0, QueuedType
<1>5. QueuedSamples # <<>> =>
        /\ Tail(QueuedSamples) \in Seq(Nat)
        /\ Len(Tail(QueuedSamples)) = Len(QueuedSamples) - 1
  BY <1>4, SeqShorter
<1>6. /\ SamplesOf(Kept) \in Seq(Nat)
      /\ Len(SamplesOf(Kept)) \in Nat /\ Len(SamplesOf(Kept)) <= Len(QueuedSamples)
  <2>1. SamplesOf(Kept) \in Seq(Nat) /\ Len(SamplesOf(Kept)) \in Nat
    BY <1>0, KeptSamples, SamplesType, LenProperties
  <2>2. \/ SamplesOf(Kept) = QueuedSamples
        \/ QueuedSamples # <<>> /\ SamplesOf(Kept) = Tail(QueuedSamples)
    BY <1>0, KeptSamples
  <2> QED
    BY <1>4, <1>5, <2>1, <2>2
<1> QED
  BY <1>0, <1>3, <1>6, KeptSamples DEF QueuedSamples

\* get_sample: the None, or the first sample.
LEMMA GetQueued ==
  ASSUME TypeOK, OneNone(queue), queue # <<>>, queue' = Tail(queue)
  PROVE  /\ OneNone(queue') /\ Head(queue) \in Entries
         /\ Head(queue) = Terminator =>
              HasNone(queue) /\ ~HasNone(queue') /\ QueuedSamples' = QueuedSamples
         /\ Head(queue) # Terminator =>
              /\ HasNone(queue') <=> HasNone(queue)
              /\ QueuedSamples # <<>> /\ QueuedSamples[1] = Head(queue)
              /\ QueuedSamples' = Tail(QueuedSamples)
              /\ Len(QueuedSamples') = Len(QueuedSamples) - 1
         /\ QueuedSamples' \in Seq(Nat) /\ Len(QueuedSamples') \in Nat
<1>1. queue \in Seq(Entries) /\ QueuedSamples \in Seq(Nat)
  BY QueuedType
<1>2. Head(queue) \in Entries
  BY <1>1, SeqShorter
<1>3. /\ OneNone(queue')
      /\ Head(queue) = Terminator =>
           HasNone(queue) /\ ~HasNone(queue') /\ QueuedSamples' = QueuedSamples
      /\ Head(queue) # Terminator =>
              /\ HasNone(queue') <=> HasNone(queue)
              /\ QueuedSamples # <<>> /\ QueuedSamples[1] = Head(queue)
              /\ QueuedSamples' = Tail(QueuedSamples)
  BY <1>1, SamplesTail DEF QueuedSamples
<1>4. QueuedSamples # <<>> =>
        /\ Tail(QueuedSamples) \in Seq(Nat)
        /\ Len(Tail(QueuedSamples)) = Len(QueuedSamples) - 1
  BY <1>1, SeqShorter
<1> QED
  BY <1>1, <1>2, <1>3, <1>4, LenProperties

(***************************************************************************)
(* The None: it is sent when the processor is over, and is in the queue,   *)
(* consumed by the trainer or dropped.                                     *)
(***************************************************************************)
Dead == ppc \in {"exit", "crashed"}
NoneConsumed == tpc \in {"end", "final", "done"}

NoneInv ==
  /\ gpc # "await" => Dead
  /\ gpc = "await" => ~HasNone(queue) /\ ~NoneConsumed
  /\ gpc # "await" => HasNone(queue) \/ NoneConsumed \/ dropped > 0
  /\ NoneConsumed => ~HasNone(queue)
  /\ OneNone(queue)

\* Nobody but a task, the end of the generation main and the trainer uses the queue.
LEMMA QueueUsers ==
  ASSUME [Next]_vars
  PROVE  \/ UNCHANGED <<queue, dropped, consumed>>
         \/ FinishSample \/ SendTerminator \/ GetSample
BY DEF Next, vars, Stop, FeedSamples, Processor, CheckPause, ReceivePause,
   AwaitResume, TakeCancelled, TakePending, SubmitSample, LeaveLoop,
   EnterWait, Harvest, Tasks, ReturnTask, CancelTask, FailTask,
   Monitor, MonitorTick, MonitorSkip, MonitorUnpause, MonitorCheck,
   GenerationMain, StopRunning, WaitForLock, Synchronizer,
   Pause, Gathered, SyncWeights, UpdateVersion, CountStaleness,
   ReportValidation, Resume, TrainerNext, LogInitial, TrainStep,
   StartSync, SyncReturns, LogStep, FinishLoop, LogFinal, mqVars

\* Nobody but the trainer moves the trainer.
LEMMA TrainerMoves ==
  ASSUME [Next]_vars
  PROVE  TrainerNext \/ UNCHANGED <<tpc, got, lts, version, logged, consumed>>
BY DEF Next, vars, Stop, FeedSamples, Processor, CheckPause, ReceivePause,
   AwaitResume, TakeCancelled, TakePending, SubmitSample, LeaveLoop,
   EnterWait, Harvest, Tasks, FinishSample, ReturnTask, CancelTask, FailTask,
   Monitor, MonitorTick, MonitorSkip, MonitorUnpause, MonitorCheck,
   GenerationMain, SendTerminator, StopRunning, WaitForLock, Synchronizer,
   Pause, Gathered, SyncWeights, UpdateVersion, CountStaleness,
   ReportValidation, Resume, mqVars, trainVars, PutSample

\* A processor that has returned or raised takes no step any more.
LEMMA DeadStays ==
  ASSUME Dead, [Next]_vars
  PROVE  ~Processor /\ ppc' = ppc /\ hand' = hand
<1>1. ~Processor
  BY DEF Dead, Processor, CheckPause, ReceivePause, AwaitResume, TakeCancelled,
     TakePending, SubmitSample, LeaveLoop, EnterWait, Harvest, Waiting, WaitLoops
<1>2. ppc' = ppc /\ hand' = hand
  BY <1>1 DEF Dead, Next, vars, Stop, FeedSamples, Tasks, FinishSample,
     ReturnTask, CancelTask, FailTask, Monitor, MonitorTick, MonitorSkip,
     MonitorUnpause, MonitorCheck, NotifyAll, GenerationMain, SendTerminator,
     StopRunning, WaitForLock, Synchronizer, Pause, Gathered, SyncWeights,
     UpdateVersion, CountStaleness, ReportValidation, Resume, TrainerNext,
     LogInitial, GetSample, TrainStep, StartSync, SyncReturns, LogStep,
     FinishLoop, LogFinal, procVars
<1> QED
  BY <1>1, <1>2

\* The generation main leaves its await by sending the None.
LEMMA MainMoves ==
  ASSUME [Next]_vars
  PROVE  SendTerminator \/ ((gpc = "await") <=> (gpc' = "await"))
BY DEF Next, vars, Stop, FeedSamples, Processor, CheckPause, ReceivePause,
   AwaitResume, TakeCancelled, TakePending, SubmitSample, LeaveLoop,
   EnterWait, Harvest, Tasks, FinishSample, ReturnTask, CancelTask, FailTask,
   Monitor, MonitorTick, MonitorSkip, MonitorUnpause, MonitorCheck,
   GenerationMain, StopRunning, WaitForLock, Synchronizer, Pause, Gathered,
   SyncWeights, UpdateVersion, CountStaleness, ReportValidation, Resume,
   TrainerNext, LogInitial, GetSample, TrainStep, StartSync, SyncReturns,
   LogStep, FinishLoop, LogFinal, loopVars

\* There is one None, and it is sent last by the rollouter.
LEMMA NoneStep ==
  ASSUME TypeOK, NoneInv, [Next]_vars
  PROVE  NoneInv'
<1>1. Dead => Dead'
  BY DeadStays DEF Dead
<1>2. CASE UNCHANGED <<queue, dropped, consumed>>
  <2>1. ~SendTerminator
    <3> SUFFICES ASSUME SendTerminator PROVE FALSE
      OBVIOUS
    <3>1. ~HasNone(queue) /\ HasNone(queue')
      BY PutNone DEF SendTerminator, NoneInv
    <3> QED
      BY <1>2, <3>1
  <2>2. (gpc = "await") <=> (gpc' = "await")
    BY <2>1, MainMoves
  <2>3. ~GetSample
    BY <1>2 DEF GetSample, TypeOK, QueueTypeOK
  <2>4. NoneConsumed' <=> NoneConsumed
    BY <2>3, TrainerMoves DEF NoneConsumed, TrainerNext, LogInitial, TrainStep,
       StartSync, SyncReturns, LogStep, FinishLoop, LogFinal
  <2>5. (HasNone(queue)' <=> HasNone(queue)) /\ (OneNone(queue)' <=> OneNone(queue))
    BY <1>2
  <2> QED
    BY <1>1, <1>2, <2>2, <2>4, <2>5 DEF NoneInv
<1>3. CASE FinishSample
  <2>1. UNCHANGED <<gpc, tpc>> /\ PutSample(curVersion) /\ curVersion \in Nat
    BY <1>3 DEF FinishSample, loopVars, trainVars, TypeOK, ControlTypeOK
  <2> QED
    BY <1>1, <2>1, PutQueued DEF NoneInv, NoneConsumed, PutSample, TypeOK,
       QueueTypeOK
<1>4. CASE SendTerminator
  <2>1. gpc = "await" /\ gpc' = "stop" /\ Dead /\ PutSample(Terminator) /\ tpc' = tpc
    BY <1>4 DEF SendTerminator, Dead, trainVars
  <2> QED
    BY <1>1, <2>1, PutNone DEF NoneInv, NoneConsumed
<1>5. CASE GetSample
  <2>1. /\ queue # <<>> /\ queue' = Tail(queue) /\ UNCHANGED <<gpc, dropped>>
        /\ Head(queue) = Terminator => NoneConsumed'
        /\ Head(queue) # Terminator => ~NoneConsumed'
        /\ ~NoneConsumed
    BY <1>5 DEF GetSample, loopVars, NoneConsumed
  <2> QED
    BY <1>1, <2>1, GetQueued DEF NoneInv
<1> QED
  BY <1>2, <1>3, <1>4, <1>5, QueueUsers

(***************************************************************************)
(* The books of the trainer: which version it is at is a matter of how     *)
(* many samples it has used, and the synchronizer and the rollouter follow.*)
(***************************************************************************)
Base(v) == v * PerRound            \* samples used before version v
Part(l) == (l - 1) * Required      \* ... and in its training steps before the l-th

\* A version is a round of samples, a training step is a part of it.
LEMMA RoundFacts ==
  /\ PerRound \in Nat /\ PerRound >= 1 /\ PerRound <= MaxRequired
  /\ Required <= PerRound /\ Base(0) = 0 /\ Part(1) = 0
  /\ \A v \in Nat : Base(v) \in Nat /\ Base(v + 1) = Base(v) + PerRound
  /\ \A l \in 1..Trigger : Part(l) \in Nat /\ Part(l) + Required <= PerRound
  /\ \A l \in 1..Trigger : Part(l + 1) = Part(l) + Required
  /\ Part(Trigger) + Required = PerRound
<1> USE ConstFacts
<1>1. /\ PerRound = Required * Trigger
      /\ \A m, n \in Nat : m * n \in Nat
      /\ \A l, n \in Nat : (l + 1) * n = l * n + n /\ 0 * n = 0
      /\ \A m, n \in Nat : m * n = n * m
  BY DEF PerRound
<1>2. PerRound \in Nat /\ PerRound >= 1 /\ PerRound <= MaxRequired
  <2>1. \A m, n \in Nat \ {0} : m * n >= 1
    OBVIOUS
  <2> QED
    BY <1>1, <2>1, ConstAssumption DEF ConstAssumption
<1>3. Base(0) = 0 /\ Part(1) = 0
  BY <1>1, <1>2 DEF Base, Part
<1>4. \A v \in Nat : Base(v) \in Nat /\ Base(v + 1) = Base(v) + PerRound
  BY <1>1, <1>2 DEF Base
<1>5. \A l \in 1..Trigger : Part(l) \in Nat /\ Part(l + 1) = Part(l) + Required
  <2> SUFFICES ASSUME NEW l \in 1..Trigger
               PROVE  Part(l) \in Nat /\ Part(l + 1) = Part(l) + Required
    OBVIOUS
  <2> DEFINE k == l - 1
  <2>1. k \in Nat /\ l = k + 1 /\ (l + 1) - 1 = k + 1
    OBVIOUS
  <2> HIDE DEF k
  <2> QED
    BY <1>1, <2>1 DEF Part
<1>6. Part(Trigger) + Required = PerRound
  <2> DEFINE k == Trigger - 1
  <2>1. k \in Nat /\ Trigger = k + 1
    OBVIOUS
  <2> HIDE DEF k
  <2>2. Trigger * Required = k * Required + Required
    BY <1>1, <2>1
  <2> QED
    BY <1>1, <2>1, <2>2 DEF Part, k
<1>7. \A l \in 1..Trigger : Part(l) + Required <= PerRound
  <2> SUFFICES ASSUME NEW l \in 1..Trigger PROVE Part(l) + Required <= PerRound
    OBVIOUS
  <2> DEFINE d == Trigger - l
  <2>1. d \in Nat /\ l \in Nat /\ Trigger = l + d
    OBVIOUS
  <2> HIDE DEF d
  <2>2. PerRound = l * Required + d * Required
    <3>1. \A a, b, c \in Nat : (a + b) * c = a * c + b * c
      OBVIOUS
    <3> QED
      BY <1>1, <2>1, <3>1
  <2>3. Part(l) + Required = l * Required
    BY <1>5 DEF Part
  <2> QED
    BY <1>1, <2>1, <2>2, <2>3
<1>8. Required <= PerRound
  BY <1>3, <1>7
<1> QED
  BY <1>2, <1>3, <1>4, <1>5, <1>6, <1>7, <1>8

UsedHere == Part(lts) + got + (IF tpc = "train" THEN Required ELSE 0)

BookInv ==
  /\ consumed >= (IF NoneConsumed THEN 1 ELSE 0)
  /\ tpc \notin {"collect", "end", "final", "done"} => got = 0
  /\ tpc \in {"waitvalid", "syncing"} => lts = 1
  /\ tpc \notin {"final", "done"} => SamplesUsed = Base(version) + UsedHere
  /\ tpc = "final" => Base(version) - PerRound <= SamplesUsed
                      /\ SamplesUsed < Base(version)
  /\ tpc = "done" => Base(version) - PerRound <= SamplesUsed
                     /\ SamplesUsed < Base(version) + PerRound

VersionInv ==
  /\ version = IF tpc = "waitvalid" THEN sv + 1 ELSE sv
  /\ spc \in {"pause", "gather", "weights"} => tpc \in {"syncing", "final"}
  /\ spc \in {"pause", "gather", "weights", "update"} => curVersion = sv - 1
  /\ spc \in {"idle", "count", "report", "resume"} => curVersion = sv
  /\ tpc = "done" => spc = "idle"

TrainerInv == BookInv /\ VersionInv

\* Nobody but the synchronizer, and the trainer that calls it, moves it.
LEMMA SyncMoves ==
  ASSUME [Next]_vars
  PROVE  \/ Synchronizer \/ StartSync \/ FinishLoop
         \/ UNCHANGED <<spc, sv, snap, curVersion>>
BY DEF Next, vars, Stop, FeedSamples, Processor, CheckPause, ReceivePause,
   AwaitResume, TakeCancelled, TakePending, SubmitSample, LeaveLoop,
   EnterWait, Harvest, Tasks, FinishSample, ReturnTask, CancelTask, FailTask,
   Monitor, MonitorTick, MonitorSkip, MonitorUnpause, MonitorCheck,
   GenerationMain, SendTerminator, StopRunning, WaitForLock,
   TrainerNext, LogInitial, GetSample, TrainStep, SyncReturns, LogStep,
   LogFinal, syncVars, verVars

\* The trainer's counters tell how many samples it has used.
LEMMA BookStep ==
  ASSUME TypeOK, BookInv, [Next]_vars
  PROVE  BookInv'
<1> USE DEF BookInv, NoneConsumed, SamplesUsed, UsedHere
<1>0. /\ consumed \in Nat /\ got \in 0..Required - 1 /\ lts \in 1..Trigger
      /\ version \in Nat /\ PerRound \in Nat /\ Required \in Nat
      /\ Part(lts) \in Nat /\ Part(lts) + Required <= PerRound
      /\ Part(lts + 1) = Part(lts) + Required /\ Part(1) = 0
      /\ Base(version) \in Nat /\ Base(version + 1) = Base(version) + PerRound
  BY RoundFacts, ConstFacts DEF TypeOK, TrainerTypeOK, QueueTypeOK
<1>1. CASE UNCHANGED <<tpc, got, lts, version, consumed>>
  BY <1>1
<1>2. CASE LogInitial \/ LogStep \/ LogFinal \/ StartSync \/ SyncReturns
  BY <1>0, <1>2 DEF LogInitial, LogStep, LogFinal, StartSync, SyncReturns, mqVars
<1>3. CASE GetSample
  <2>1. /\ tpc = "collect" /\ consumed' = consumed + 1
        /\ UNCHANGED <<lts, version>>
    BY <1>3 DEF GetSample
  <2>2. CASE Head(queue) = Terminator
    BY <1>0, <1>3, <2>1, <2>2 DEF GetSample
  <2>3. CASE Head(queue) # Terminator /\ got + 1 < Required
    <3>1. got' = got + 1 /\ tpc' = "collect"
      BY <1>3, <2>1, <2>3 DEF GetSample
    <3> QED
      BY <1>0, <2>1, <3>1
  <2>4. CASE Head(queue) # Terminator /\ ~(got + 1 < Required)
    BY <1>0, <1>3, <2>1, <2>4 DEF GetSample
  <2> QED
    BY <2>2, <2>3, <2>4
<1>4. CASE TrainStep
  <2>1. /\ tpc = "train" /\ UNCHANGED <<consumed, got>>
    BY <1>4 DEF TrainStep, mqVars
  <2>2. CASE lts < Trigger
    BY <1>0, <1>4, <2>1, <2>2 DEF TrainStep
  <2>3. CASE ~(lts < Trigger)
    <3>1. lts = Trigger /\ Part(lts) + Required = PerRound
      BY <1>0, <2>3, ConstFacts, RoundFacts
    <3> QED
      BY <1>0, <1>4, <2>1, <2>3, <3>1 DEF TrainStep
  <2> QED
    BY <2>2, <2>3
<1>5. CASE FinishLoop
  <2>1. /\ tpc = "end" /\ UNCHANGED <<consumed, got>>
        /\ \/ version' = version + 1 /\ tpc' = "final"
           \/ version' = version /\ tpc' = "done"
    BY <1>5 DEF FinishLoop
  <2>2. SamplesUsed' = SamplesUsed
    BY <2>1
  <2>3. SamplesUsed >= Base(version) /\ SamplesUsed < Base(version) + PerRound
    BY <1>0, <2>1
  <2> QED
    BY <1>0, <2>1, <2>2, <2>3
<1> QED
  BY <1>1, <1>2, <1>3, <1>4, <1>5, TrainerMoves DEF TrainerNext

\* Synchronizer and rollouter follow the trainer's version.
LEMMA VersionStep ==
  ASSUME TypeOK, VersionInv, [Next]_vars
  PROVE  VersionInv'
<1> USE DEF VersionInv, trainVars, syncVars, verVars
<1>0. version \in Nat /\ sv \in Nat /\ curVersion \in Nat
  BY DEF TypeOK, TrainerTypeOK, ControlTypeOK
<1>1. CASE UNCHANGED <<tpc, version, spc, sv, curVersion>>
  BY <1>1
<1>2. CASE Synchronizer
  BY <1>0, <1>2 DEF Synchronizer, Pause, Gathered, SyncWeights, UpdateVersion,
     CountStaleness, ReportValidation, Resume, TypeOK, TrainerTypeOK, SyncPCs
<1>3. CASE StartSync \/ FinishLoop
  BY <1>0, <1>3 DEF StartSync, FinishLoop
<1>4. CASE /\ UNCHANGED <<spc, sv, snap, curVersion>>
           /\ \/ LogInitial \/ LogStep \/ LogFinal \/ SyncReturns
              \/ GetSample \/ TrainStep
  BY <1>0, <1>4 DEF LogInitial, LogStep, LogFinal, SyncReturns, GetSample,
     TrainStep, TypeOK, TrainerTypeOK, SyncPCs
<1> QED
  BY <1>1, <1>2, <1>3, <1>4, TrainerMoves, SyncMoves DEF TrainerNext

LEMMA TrainerStep ==
  ASSUME TypeOK, TrainerInv, [Next]_vars
  PROVE  TrainerInv'
BY BookStep, VersionStep DEF TrainerInv

(***************************************************************************)
(* What update_param_version counts misses at most the sample that is in   *)
(* the processor's hand at that moment.                                    *)
(***************************************************************************)
InFlight == gen + cancelq + InHand + Len(QueuedSamples)

\* Samples in flight, used and lost: of each there is a number.
LEMMA FlightType ==
  ASSUME TypeOK, NoneInv, TrainerInv
  PROVE  /\ gen \in Nat /\ cancelq \in Nat /\ InHand \in {0, 1} /\ fails \in Nat
         /\ Len(QueuedSamples) \in Nat /\ InFlight \in Nat
         /\ consumed \in Nat /\ SamplesUsed \in Nat
<1>1. gen \in Nat /\ cancelq \in Nat /\ fails \in Nat /\ consumed \in Nat
  BY ConstFacts DEF TypeOK, RolloutTypeOK, QueueTypeOK
<1>2. InHand \in {0, 1}
  BY DEF InHand
<1>3. Len(QueuedSamples) \in Nat
  BY QueuedType DEF NoneInv
<1>4. SamplesUsed \in Nat
  BY <1>1 DEF SamplesUsed, TrainerInv, BookInv, NoneConsumed
<1> QED
  BY <1>1, <1>2, <1>3, <1>4 DEF InFlight

FlightTyped ==
  TypeOK /\ NoneInv /\ TrainerInv =>
    /\ InFlight \in Nat /\ SamplesUsed \in Nat /\ fails \in Nat
    /\ Len(QueuedSamples) \in Nat /\ InHand \in {0, 1}

LEMMA FlightAlways == FlightTyped /\ FlightTyped'
<1>1. FlightTyped
  BY FlightType DEF FlightTyped
<1> QED
  BY <1>1, PTL

\* ... and there is one after a step.
LEMMA FlightNext ==
  ASSUME TypeOK, NoneInv, TrainerInv, [Next]_vars
  PROVE  /\ InFlight' \in Nat /\ SamplesUsed' \in Nat /\ fails' \in Nat
         /\ Len(QueuedSamples') \in Nat /\ InHand' \in {0, 1}
<1>1. TypeOK' /\ NoneInv' /\ TrainerInv'
  BY TypeCorrectStep, NoneStep, TrainerStep
<1> QED
  BY <1>1, FlightAlways DEF FlightTyped

\* What makes neither term of a sum larger makes no sum of them larger.
LEMMA SumLess ==
  ASSUME NEW f \in Int, NEW u \in Int, NEW x \in Int,
         NEW f2 \in Int, NEW u2 \in Int, NEW x2 \in Int,
         f2 <= f, u2 <= u, x2 <= x
  PROVE  u2 + f2 <= u + f /\ u2 + f2 + x2 <= u + f + x
OBVIOUS

LEMMA SumLeq ==
  ASSUME NEW f \in Int, NEW u \in Int, NEW x \in Int,
         NEW f2 \in Int, NEW u2 \in Int, NEW x2 \in Int,
         f2 <= f, u2 <= u, f2 + x2 <= f + x
  PROVE  u2 + f2 <= u + f /\ u2 + f2 + x2 <= u + f + x
OBVIOUS

\* Only taking a sample from pending_queue brings one into flight.
LEMMA FlightStep ==
  ASSUME TypeOK, NoneInv, TrainerInv, HandOK, [Next]_vars
  PROVE  /\ TakePending => /\ InFlight' = InFlight + InHand' /\ InHand' \in {0, 1}
                           /\ UNCHANGED <<fails, SamplesUsed>>
         /\ ~TakePending =>
              /\ InFlight' <= InFlight
              /\ SamplesUsed' + InFlight' <= SamplesUsed + InFlight
              /\ SamplesUsed' + InFlight' + fails' <= SamplesUsed + InFlight + fails
<1> DEFINE Fewer ==
             /\ InFlight' <= InFlight
             /\ SamplesUsed' + InFlight' <= SamplesUsed + InFlight
             /\ SamplesUsed' + InFlight' + fails' <= SamplesUsed + InFlight + fails
<1> USE DEF procVars, taskVars, inputVars, mqVars
<1>0. /\ gen \in Nat /\ cancelq \in Nat /\ InHand \in {0, 1} /\ fails \in Nat
      /\ Len(QueuedSamples) \in Nat /\ InFlight \in Nat
      /\ consumed \in Nat /\ SamplesUsed \in Nat
  BY FlightType
<1>1. ~GetSample => SamplesUsed' = SamplesUsed
  <2>1. CASE UNCHANGED <<tpc, consumed>>
    BY <2>1 DEF SamplesUsed
  <2>2. CASE \/ LogInitial \/ TrainStep \/ StartSync \/ SyncReturns \/ LogStep
             \/ FinishLoop \/ LogFinal
    BY <2>2 DEF LogInitial, TrainStep, StartSync, SyncReturns, LogStep, FinishLoop,
       LogFinal, SamplesUsed
  <2> QED
    BY <2>1, <2>2, TrainerMoves DEF TrainerNext
<1>2. ASSUME UNCHANGED <<gen, cancelq, hand, queue, fails>> PROVE Fewer
  <2>1. InFlight' = InFlight
    BY <1>2 DEF InFlight, InHand, QueuedSamples
  <2>2. SamplesUsed' = SamplesUsed
    BY <1>1, <1>2 DEF GetSample, TypeOK, QueueTypeOK
  <2> QED
    BY <1>0, <1>2, <2>1, <2>2
<1>3. CASE TakePending
  <2>1. InHand = 0
    BY <1>3 DEF TakePending, HandOK, Dispatching, InHand
  <2>2. /\ UNCHANGED <<gen, cancelq, queue, fails>> /\ ~GetSample
    BY <1>3 DEF TakePending, GetSample, trainVars
  <2>3. InHand' \in {0, 1}
    BY DEF InHand
  <2>4. QueuedSamples' = QueuedSamples
    BY <2>2 DEF QueuedSamples
  <2>5. InFlight' = InFlight + InHand'
    BY <1>0, <2>1, <2>2, <2>3, <2>4 DEF InFlight
  <2> QED
    BY <1>1, <1>3, <2>2, <2>3, <2>5
<1>4. CASE TakeCancelled
  <2>1. InHand = 0 /\ InHand' = 1 /\ cancelq' = cancelq - 1
    BY <1>4 DEF TakeCancelled, HandOK, Dispatching, InHand
  <2>2. UNCHANGED <<gen, queue, fails>> /\ ~GetSample
    BY <1>4 DEF TakeCancelled, GetSample, trainVars
  <2>3. InFlight' = InFlight
    BY <1>0, <2>1, <2>2 DEF InFlight, QueuedSamples
  <2> QED
    BY <1>0, <1>1, <1>3, <2>2, <2>3
<1>5. CASE SubmitSample
  <2>1. CASE paused
    BY <1>2, <1>5, <2>1, <1>3 DEF SubmitSample
  <2>2. CASE ~paused
    <3>1. InHand = 1 /\ InHand' = 0 /\ gen' = gen + 1
      BY <1>5, <2>2 DEF SubmitSample, HandOK, Dispatching, InHand
    <3>2. UNCHANGED <<cancelq, queue, fails>> /\ ~GetSample
      BY <1>5 DEF SubmitSample, GetSample, trainVars
    <3>3. InFlight' = InFlight
      BY <1>0, <3>1, <3>2 DEF InFlight, QueuedSamples
    <3> QED
      BY <1>0, <1>1, <1>3, <3>2, <3>3
  <2> QED
    BY <2>1, <2>2
<1>6. CASE FinishSample
  <2>1. /\ gen' = gen - 1 /\ UNCHANGED <<cancelq, hand, fails>> /\ ~GetSample
        /\ PutSample(curVersion) /\ curVersion \in Nat
    BY <1>6 DEF FinishSample, GetSample, trainVars, TypeOK, ControlTypeOK
  <2>2. /\ Len(QueuedSamples') \in Nat
        /\ Len(QueuedSamples') <= Len(QueuedSamples) + 1
    BY <2>1, PutQueued DEF NoneInv
  <2>3. InFlight' <= InFlight /\ InFlight' \in Int
    BY <1>0, <2>1, <2>2 DEF InFlight, InHand
  <2>4. /\ SamplesUsed' <= SamplesUsed /\ fails' <= fails
        /\ SamplesUsed' \in Int /\ fails' \in Int
    BY <1>0, <1>1, <2>1
  <2>5. Fewer
    <3> DEFINE f == InFlight  f2 == InFlight'  u == SamplesUsed
               u2 == SamplesUsed'  x == fails  x2 == fails'
    <3>1. /\ f \in Int /\ f2 \in Int /\ u \in Int /\ u2 \in Int
          /\ x \in Int /\ x2 \in Int
          /\ f2 <= f /\ u2 <= u /\ x2 <= x
      BY <1>0, <2>3, <2>4
    <3> HIDE DEF f, f2, u, u2, x, x2
    <3>2. f2 <= f /\ u2 + f2 <= u + f /\ u2 + f2 + x2 <= u + f + x
      BY <3>1, SumLess
    <3> QED
      BY <3>2 DEF f, f2, u, u2, x, x2
  <2> QED
    BY <1>3, <2>5
<1>7. CASE CancelTask \/ FailTask
  <2>1. /\ UNCHANGED <<hand, queue>> /\ ~GetSample /\ ~TakePending
        /\ \/ gen' = gen - 1 /\ cancelq' = cancelq + 1 /\ fails' = fails
           \/ gen' = gen - 1 /\ cancelq' = cancelq /\ fails' = fails + 1
    BY <1>7 DEF CancelTask, FailTask, GetSample, TakePending, trainVars
  <2>2. /\ InFlight' <= InFlight /\ InFlight' + fails' <= InFlight + fails
        /\ InFlight' \in Int /\ fails' \in Int
    BY <1>0, <2>1 DEF InFlight, InHand, QueuedSamples
  <2>3. SamplesUsed' <= SamplesUsed /\ SamplesUsed' \in Int
    BY <1>0, <1>1, <2>1
  <2>4. Fewer
    <3> DEFINE f == InFlight  f2 == InFlight'  u == SamplesUsed
               u2 == SamplesUsed'  x == fails  x2 == fails'
    <3>1. /\ f \in Int /\ f2 \in Int /\ u \in Int /\ u2 \in Int
          /\ x \in Int /\ x2 \in Int
          /\ f2 <= f /\ u2 <= u
      BY <1>0, <2>2, <2>3
    <3>3. f2 + x2 <= f + x
      BY <2>2
    <3> HIDE DEF f, f2, u, u2, x, x2
    <3>2. f2 <= f /\ u2 + f2 <= u + f /\ u2 + f2 + x2 <= u + f + x
      BY <3>1, <3>3, SumLeq
    <3> QED
      BY <3>2 DEF f, f2, u, u2, x, x2
  <2> QED
    BY <1>3, <2>4
<1>8. CASE SendTerminator
  <2>1. /\ UNCHANGED <<gen, cancelq, hand, fails>> /\ ~GetSample /\ ~TakePending
        /\ PutSample(Terminator) /\ ~HasNone(queue)
    BY <1>8 DEF SendTerminator, GetSample, TakePending, trainVars, NoneInv, loopVars
  <2>2. /\ Len(QueuedSamples') \in Nat
        /\ Len(QueuedSamples') <= Len(QueuedSamples)
    BY <2>1, PutNone
  <2>3. InFlight' <= InFlight /\ InFlight' \in Int
    BY <1>0, <2>1, <2>2 DEF InFlight, InHand
  <2>4. /\ SamplesUsed' <= SamplesUsed /\ fails' <= fails
        /\ SamplesUsed' \in Int /\ fails' \in Int
    BY <1>0, <1>1, <2>1
  <2>5. Fewer
    <3> DEFINE f == InFlight  f2 == InFlight'  u == SamplesUsed
               u2 == SamplesUsed'  x == fails  x2 == fails'
    <3>1. /\ f \in Int /\ f2 \in Int /\ u \in Int /\ u2 \in Int
          /\ x \in Int /\ x2 \in Int
          /\ f2 <= f /\ u2 <= u /\ x2 <= x
      BY <1>0, <2>3, <2>4
    <3> HIDE DEF f, f2, u, u2, x, x2
    <3>2. f2 <= f /\ u2 + f2 <= u + f /\ u2 + f2 + x2 <= u + f + x
      BY <3>1, SumLess
    <3> QED
      BY <3>2 DEF f, f2, u, u2, x, x2
  <2> QED
    BY <1>3, <2>5
<1>9. CASE GetSample
  <2>1. /\ UNCHANGED <<gen, cancelq, hand, fails>> /\ ~TakePending
        /\ queue # <<>> /\ queue' = Tail(queue)
        /\ tpc = "collect" /\ consumed' = consumed + 1
        /\ tpc' = "end" <=> Head(queue) = Terminator
        /\ tpc' \in {"end", "train", "collect"}
    BY <1>9 DEF GetSample, TakePending, trainVars
  <2>2. CASE Head(queue) = Terminator
    <3>1. QueuedSamples' = QueuedSamples
      BY <2>1, <2>2, GetQueued DEF NoneInv
    <3>2. SamplesUsed' = SamplesUsed
      BY <1>0, <2>1, <2>2 DEF SamplesUsed
    <3>3. InFlight' = InFlight
      BY <2>1, <3>1 DEF InFlight, InHand
    <3> QED
      BY <1>0, <2>1, <3>2, <3>3
  <2>3. CASE Head(queue) # Terminator
    <3>1. Len(QueuedSamples') = Len(QueuedSamples) - 1
      BY <2>1, <2>3, GetQueued DEF NoneInv
    <3>2. SamplesUsed' = SamplesUsed + 1
      BY <1>0, <2>1, <2>3 DEF SamplesUsed
    <3>3. InFlight' = InFlight - 1
      BY <1>0, <2>1, <3>1 DEF InFlight, InHand
    <3> QED
      BY <1>0, <2>1, <3>2, <3>3
  <2> QED
    BY <2>2, <2>3
<1>10. CASE \/ FeedSamples \/ CheckPause \/ ReceivePause \/ AwaitResume
            \/ \E c \in WaitLoops : LeaveLoop(c) \/ EnterWait(c) \/ Harvest(c)
            \/ ReturnTask \/ Monitor \/ StopRunning
            \/ \E c \in {"processor", "main", "sync"} : WaitForLock(c)
  BY <1>2, <1>3, <1>10 DEF FeedSamples, CheckPause, ReceivePause, AwaitResume,
     LeaveLoop, EnterWait, Harvest, ReturnTask, Monitor, MonitorTick, MonitorSkip,
     MonitorUnpause, MonitorCheck, StopRunning, WaitForLock
<1>11. CASE Synchronizer
  BY <1>2, <1>3, <1>11 DEF Synchronizer, Pause, Gathered, SyncWeights,
     UpdateVersion, CountStaleness, ReportValidation, Resume
<1>12. CASE \/ LogInitial \/ TrainStep \/ StartSync \/ SyncReturns
            \/ LogStep \/ FinishLoop \/ LogFinal \/ UNCHANGED vars
  BY <1>2, <1>3, <1>12 DEF LogInitial, TrainStep, StartSync, SyncReturns, LogStep,
     FinishLoop, LogFinal, vars
<1> QED
  BY <1>3, <1>4, <1>5, <1>6, <1>7, <1>8, <1>9, <1>10, <1>11, <1>12
     DEF Next, Stop, Processor, Tasks, GenerationMain, TrainerNext

(***************************************************************************)
(* The waiters of self.lock: the processor waits once at a time, and only  *)
(* where it is about to acquire the lock.                                  *)
(***************************************************************************)
Waits(c, s) == \E i \in 1..Len(s) : s[i] = c
Once(c, s) == \A i, j \in 1..Len(s) : s[i] = c /\ s[j] = c => i = j

AtLock == {"pause", "idle", "submit"} \cup WaitLoops

WaiterInv ==
  /\ Once("processor", lockq)
  /\ Waits("processor", lockq) => ppc \in AtLock

\* Who waits when the head has left.
LEMMA WaitsTail ==
  ASSUME NEW s \in Seq(Coroutines), s # <<>>, NEW c
  PROVE  /\ Waits(c, s) <=> Head(s) = c \/ Waits(c, Tail(s))
         /\ Once(c, s) => /\ Once(c, Tail(s))
                          /\ Head(s) = c => ~Waits(c, Tail(s))
<1> DEFINE t == Tail(s)
<1>1. /\ Len(s) \in Nat /\ Len(s) >= 1 /\ Head(s) = s[1]
      /\ t \in Seq(Coroutines) /\ Len(t) = Len(s) - 1
      /\ \A i \in 1..Len(t) : t[i] = s[i + 1]
  BY LenProperties, EmptySeq, HeadTailProperties
<1> HIDE DEF t
<1>2. Waits(c, t) => Waits(c, s)
  BY <1>1 DEF Waits
<1>3. ASSUME Waits(c, s), Head(s) # c PROVE Waits(c, t)
  <2>1. PICK i \in 1..Len(s) : s[i] = c
    BY <1>3 DEF Waits
  <2>2. i - 1 \in 1..Len(t) /\ t[i - 1] = s[i]
    BY <1>1, <1>3, <2>1
  <2> QED
    BY <2>1, <2>2 DEF Waits
<1>4. Head(s) = c => Waits(c, s)
  BY <1>1 DEF Waits
<1>5. Once(c, s) => Once(c, t)
  <2> SUFFICES ASSUME Once(c, s), NEW i \in 1..Len(t), NEW j \in 1..Len(t),
                      t[i] = c, t[j] = c
               PROVE  i = j
    BY DEF Once
  <2> QED
    BY <1>1 DEF Once
<1>6. Once(c, s) /\ Head(s) = c => ~Waits(c, t)
  BY <1>1 DEF Once, Waits
<1> QED
  BY <1>2, <1>3, <1>4, <1>5, <1>6 DEF t

\* Who waits when one more has joined.
LEMMA WaitsAppend ==
  ASSUME NEW s \in Seq(Coroutines), NEW e \in Coroutines, NEW c
  PROVE  /\ Waits(c, Append(s, e)) <=> Waits(c, s) \/ e = c
         /\ Once(c, s) /\ (e = c => ~Waits(c, s)) => Once(c, Append(s, e))
<1> DEFINE a == Append(s, e)
<1>1. /\ Len(s) \in Nat /\ a \in Seq(Coroutines) /\ Len(a) = Len(s) + 1
      /\ \A i \in 1..Len(s) : a[i] = s[i]
      /\ a[Len(s) + 1] = e
  BY LenProperties, AppendProperties
<1> HIDE DEF a
<1>2. Waits(c, a) <=> Waits(c, s) \/ e = c
  BY <1>1 DEF Waits
<1>3. Once(c, s) /\ (e = c => ~Waits(c, s)) => Once(c, a)
  <2> SUFFICES ASSUME Once(c, s), e = c => ~Waits(c, s),
                      NEW i \in 1..Len(a), NEW j \in 1..Len(a), a[i] = c, a[j] = c
               PROVE  i = j
    BY DEF Once
  <2> QED
    BY <1>1 DEF Once, Waits
<1> QED
  BY <1>2, <1>3 DEF a

\* A coroutine that has its turn leaves the waiters, if it was one of them.
LEMMA Leaves ==
  ASSUME TypeOK, NEW c, HasTurn(c), LeaveQueue
  PROVE  /\ \/ lockq = <<>> /\ lockq' = <<>>
            \/ lockq # <<>> /\ Head(lockq) = c /\ lockq' = Tail(lockq)
         /\ \A d : d # c => (Waits(d, lockq') <=> Waits(d, lockq))
         /\ Once(c, lockq) => ~Waits(c, lockq')
         /\ \A d : Once(d, lockq) => Once(d, lockq')
<1>1. lockq \in Seq(Coroutines)
  BY DEF TypeOK, ControlTypeOK
<1>2. CASE lockq = <<>>
  <2>1. lockq' = <<>>
    BY <1>2 DEF LeaveQueue
  <2>2. \A d : ~Waits(d, <<>>)
    BY DEF Waits
  <2> QED
    BY <1>2, <2>1, <2>2
<1>3. CASE lockq # <<>>
  <2>1. Head(lockq) = c /\ lockq' = Tail(lockq)
    BY <1>3 DEF HasTurn, LeaveQueue
  <2> QED
    BY <1>1, <1>3, <2>1, WaitsTail
<1> QED
  BY <1>2, <1>3

\* The monitor, too, leaves the other waiters as they are.
LEMMA MonitorWaits ==
  ASSUME TypeOK, Monitor
  PROVE  /\ \A d : d # "monitor" => /\ Waits(d, lockq') <=> Waits(d, lockq)
                                    /\ Once(d, lockq) => Once(d, lockq')
         /\ lockq' \in Seq(Coroutines)
<1>1. lockq \in Seq(Coroutines) /\ "monitor" \in Coroutines
  BY DEF TypeOK, ControlTypeOK, Coroutines
<1>2. ASSUME NEW q \in Seq(Coroutines), CheckRunning(q)
      PROVE  /\ \A d : d # "monitor" => /\ Waits(d, lockq') <=> Waits(d, q)
                                        /\ Once(d, q) => Once(d, lockq')
             /\ lockq' \in Seq(Coroutines)
  <2>1. lockq' = q \/ lockq' = Append(q, "monitor")
    BY <1>2 DEF CheckRunning
  <2> QED
    BY <1>1, <2>1, WaitsAppend, SeqLonger
<1>3. CASE MonitorTick
  <2>1. CASE CheckRunning(lockq)
    BY <1>1, <1>2, <2>1
  <2>2. CASE lockq' = Append(lockq, "monitor")
    BY <1>1, <2>2, WaitsAppend, SeqLonger
  <2> QED
    BY <1>3, <2>1, <2>2 DEF MonitorTick
<1>4. CASE MonitorSkip
  BY <1>1, <1>2, <1>4 DEF MonitorSkip
<1>5. CASE MonitorUnpause
  <2>1. /\ lockq # <<>> /\ Head(lockq) = "monitor"
        /\ CheckRunning(Tail(lockq))
    <3>1. lockq # <<>>
      BY <1>5, <1>1, EmptySeq DEF MonitorUnpause, Queued
    <3> QED
      BY <1>5, <3>1 DEF MonitorUnpause, HasTurn
  <2>2. Tail(lockq) \in Seq(Coroutines)
    BY <1>1, <2>1, SeqShorter
  <2>3. \A d : d # "monitor" => /\ Waits(d, Tail(lockq)) <=> Waits(d, lockq)
                                /\ Once(d, lockq) => Once(d, Tail(lockq))
    BY <1>1, <2>1, WaitsTail
  <2> QED
    BY <1>2, <2>1, <2>2, <2>3
<1>6. CASE MonitorCheck
  BY <1>1, <1>6, Leaves, LeaveType DEF MonitorCheck, PassLock
<1> QED
  BY <1>3, <1>4, <1>5, <1>6 DEF Monitor

\* The processor does not move on while it waits for the lock.
LEMMA WaiterStep ==
  ASSUME TypeOK, WaiterInv, LockOK, [Next]_vars
  PROVE  WaiterInv'
<1> USE DEF WaiterInv, lockVars, procVars
<1>0. lockq \in Seq(Coroutines)
  BY DEF TypeOK, ControlTypeOK
<1>1. ASSUME UNCHANGED <<ppc, lockq>> PROVE WaiterInv'
  BY <1>1
<1>2. CASE CheckPause \/ TakeCancelled \/ TakePending
  <2>1. ~Waits("processor", lockq) /\ UNCHANGED lockq
    BY <1>2 DEF CheckPause, TakeCancelled, TakePending, AtLock, WaitLoops
  <2> QED
    BY <2>1
<1>3. CASE \/ ReceivePause \/ AwaitResume \/ SubmitSample
           \/ \E c \in WaitLoops : EnterWait(c)
  <2>1. HasTurn("processor") /\ LeaveQueue
    BY <1>3 DEF ReceivePause, AwaitResume, SubmitSample, EnterWait, PassLock, TakeLock
  <2> QED
    BY <2>1, Leaves
<1>4. ASSUME NEW c \in WaitLoops, LeaveLoop(c) \/ Harvest(c)
      PROVE  WaiterInv'
  <2>1. ~Waits("processor", lockq) /\ UNCHANGED lockq
    BY <1>4 DEF LeaveLoop, Harvest, ReleaseLock, Queued, Waits, AtLock, Waiting,
       WaitLoops
  <2> QED
    BY <2>1
<1>5. CASE Monitor
  <2>1. Once("processor", lockq') /\ (Waits("processor", lockq') <=> Waits("processor", lockq))
    BY <1>5, MonitorWaits
  <2>2. ppc \in AtLock => ppc' = ppc
    BY <1>5 DEF Monitor, MonitorTick, MonitorSkip, MonitorUnpause, MonitorCheck,
       NotifyAll, AtLock, WaitLoops
  <2> QED
    BY <2>1, <2>2
<1>6. CASE Resume \/ Pause \/ UpdateVersion \/ StopRunning
  <2>1. \E c \in {"sync", "main"} : HasTurn(c) /\ LeaveQueue
    BY <1>6 DEF Resume, Pause, UpdateVersion, StopRunning, PassLock, TakeLock
  <2>2. Once("processor", lockq') /\ (Waits("processor", lockq') <=> Waits("processor", lockq))
    BY <2>1, Leaves
  <2>3. ppc \in AtLock => ppc' = ppc
    BY <1>6 DEF Resume, Pause, UpdateVersion, StopRunning, NotifyAll, AtLock, WaitLoops
  <2> QED
    BY <2>2, <2>3
<1>7. ASSUME NEW c \in {"processor", "main", "sync"}, WaitForLock(c)
      PROVE  WaiterInv'
  <2>1. /\ lockq' = Append(lockq, c) /\ c \in Coroutines /\ ppc' = ppc
        /\ c = "processor" => ~Waits("processor", lockq) /\ ppc \in AtLock
    BY <1>7 DEF WaitForLock, Queued, Waits, WantsLock, Coroutines, AtLock
  <2> QED
    BY <1>0, <2>1, WaitsAppend
<1>8. CASE \/ FeedSamples \/ Tasks \/ SendTerminator \/ Gathered \/ SyncWeights
           \/ CountStaleness \/ ReportValidation \/ TrainerNext \/ UNCHANGED vars
  BY <1>1, <1>8 DEF FeedSamples, Tasks, FinishSample, ReturnTask, CancelTask, FailTask,
     SendTerminator, Gathered, SyncWeights, CountStaleness, ReportValidation,
     ReleaseLock, TrainerNext, LogInitial, GetSample, TrainStep, StartSync,
     SyncReturns, LogStep, FinishLoop, LogFinal, vars
<1> QED
  BY <1>2, <1>3, <1>4, <1>5, <1>6, <1>7, <1>8
     DEF Next, Stop, Processor, GenerationMain, Synchronizer

\* The counter of stale samples is moved by the processor and by update_param_version.
LEMMA StalenessMoves ==
  ASSUME [Next]_vars
  PROVE  \/ TakePending \/ CountStaleness \/ staleness' = staleness
BY DEF Next, vars, Stop, FeedSamples, Processor, CheckPause, ReceivePause,
   AwaitResume, TakeCancelled, SubmitSample, LeaveLoop, EnterWait, Harvest,
   Tasks, FinishSample, ReturnTask, CancelTask, FailTask, Monitor, MonitorTick,
   MonitorSkip, MonitorUnpause, MonitorCheck, GenerationMain, SendTerminator,
   StopRunning, WaitForLock, Synchronizer, Pause, Gathered, SyncWeights,
   UpdateVersion, ReportValidation, Resume, TrainerNext, LogInitial, GetSample,
   TrainStep, StartSync, SyncReturns, LogStep, FinishLoop, LogFinal, verVars

\* Only CheckPause, which has looked at the limits, lets the processor take.
LEMMA TakeMoves ==
  ASSUME TypeOK, [Next]_vars, ppc' = "take"
  PROVE  \/ CheckPause /\ staleness < MaxRequired /\ Len(queue) < MaxQueue
                       /\ ~paused /\ ppc = "loop"
         \/ ppc = "take"
<1>1. ASSUME NEW c \in WaitLoops, LeaveLoop(c) \/ EnterWait(c) \/ Harvest(c)
      PROVE  FALSE
  BY <1>1 DEF LeaveLoop, EnterWait, Harvest, AfterLoop, Waiting, WaitLoops
<1>2. CASE CheckPause
  BY <1>2, ConstFacts, LenProperties DEF CheckPause, ShouldPause, TypeOK, ControlTypeOK, QueueTypeOK, MaxQueue
<1>3. CASE MonitorTick \/ MonitorUnpause \/ Resume
  BY <1>3 DEF MonitorTick, MonitorUnpause, Resume, NotifyAll
<1>4. CASE ReceivePause \/ AwaitResume \/ TakeCancelled \/ TakePending \/ SubmitSample
  BY <1>4 DEF ReceivePause, AwaitResume, TakeCancelled, TakePending, SubmitSample
<1> QED
  BY <1>1, <1>2, <1>3, <1>4
  DEF Next, vars, Stop, FeedSamples, Processor, Tasks, FinishSample, ReturnTask,
   CancelTask, FailTask, Monitor, MonitorSkip, MonitorCheck, GenerationMain,
   SendTerminator, StopRunning, WaitForLock,
   Synchronizer, Pause, Gathered, SyncWeights, UpdateVersion, CountStaleness,
   ReportValidation, TrainerNext, LogInitial, GetSample, TrainStep,
   StartSync, SyncReturns, LogStep, FinishLoop, LogFinal, procVars

CountInv ==
  /\ ppc = "take" => staleness < MaxRequired
  /\ spc = "count" => gen + cancelq <= snap
  /\ InFlight <= staleness + 1
  /\ InFlight <= MaxRequired + 1

\* What update_param_version has counted is still there when it adds the queue,
\* or has moved to the queue.
LEMMA SnapStep ==
  ASSUME TypeOK, LockOK, spc = "count" => gen + cancelq <= snap, [Next]_vars
  PROVE  spc' = "count" => gen' + cancelq' <= snap'
<1> SUFFICES ASSUME spc' = "count" PROVE gen' + cancelq' <= snap'
  OBVIOUS
<1> USE DEF taskVars, inputVars, syncVars
<1>0. /\ gen \in Nat /\ cancelq \in Nat /\ snap \in Nat
      /\ sent \in Nat /\ finished \in Nat /\ broken \in Nat
  BY DEF TypeOK, RolloutTypeOK, TrainerTypeOK
<1>1. CASE UpdateVersion
  <2>1. snap' = gen + sent + finished + broken + cancelq /\ UNCHANGED <<gen, cancelq>>
    BY <1>1 DEF UpdateVersion, Active
  <2> QED
    BY <1>0, <2>1
<1>2. CASE ~UpdateVersion
  <2>1. spc = "count" /\ snap' = snap
    <3>1. CASE Synchronizer
      BY <1>2, <3>1 DEF Synchronizer, Pause, Gathered, SyncWeights, CountStaleness,
         ReportValidation, Resume
    <3>2. CASE StartSync \/ FinishLoop
      BY <3>2 DEF StartSync, FinishLoop
    <3> QED
      BY <3>1, <3>2, SyncMoves
  <2>2. lock = "sync"
    BY <2>1 DEF LockOK
  <2>3. ~SubmitSample /\ ~Resume /\ ~Pause
    BY <2>1, <2>2 DEF SubmitSample, PassLock, HasTurn, Resume, Pause
  <2>4. \/ UNCHANGED <<gen, cancelq>>
        \/ gen > 0 /\ gen' = gen - 1 /\ cancelq' = cancelq
        \/ gen > 0 /\ gen' = gen - 1 /\ cancelq' = cancelq + 1
        \/ gen' = gen /\ cancelq' = cancelq - 1
    BY <1>2, <2>3 DEF Next, vars, Stop, FeedSamples, Processor, CheckPause,
       ReceivePause, AwaitResume, TakeCancelled, TakePending, LeaveLoop,
       EnterWait, Harvest, Tasks, FinishSample, ReturnTask, CancelTask, FailTask,
       Monitor, MonitorTick, MonitorSkip, MonitorUnpause, MonitorCheck,
       GenerationMain, SendTerminator, StopRunning, WaitForLock, Synchronizer,
       Gathered, SyncWeights, CountStaleness, ReportValidation, TrainerNext,
       LogInitial, GetSample, TrainStep, StartSync, SyncReturns, LogStep,
       FinishLoop, LogFinal
  <2> QED
    BY <1>0, <2>1, <2>4
<1> QED
  BY <1>1, <1>2

\* No sample more is in flight than the counter says, but one.
LEMMA CountStep ==
  ASSUME TypeOK, NoneInv, TrainerInv, HandOK, LockOK, WaiterInv, CountInv,
         [Next]_vars
  PROVE  CountInv'
<1>0. /\ gen \in Nat /\ cancelq \in Nat /\ snap \in Nat /\ staleness \in Nat
      /\ MaxRequired \in Nat /\ InFlight \in Nat /\ InHand \in {0, 1}
      /\ Len(QueuedSamples) \in Nat
  BY FlightType, ConstFacts DEF TypeOK, RolloutTypeOK, TrainerTypeOK, ControlTypeOK
<1>1. CASE TakePending
  <2>1. /\ ppc = "take" /\ ppc' # "take" /\ staleness' = staleness + 1
        /\ UNCHANGED <<spc, gen, cancelq, snap>>
    BY <1>1 DEF TakePending, taskVars, syncVars
  <2>2. InFlight' <= InFlight + 1 /\ InFlight' \in Int
    BY <1>0, <1>1, FlightStep, FlightNext
  <2>3. InFlight <= staleness + 1 /\ staleness < MaxRequired
    BY <2>1 DEF CountInv
  <2>4. InFlight' <= staleness' + 1 /\ InFlight' <= MaxRequired + 1
    BY <1>0, <2>1, <2>2, <2>3
  <2> QED
    BY <2>1, <2>4, SnapStep DEF CountInv
<1>2. CASE CountStaleness
  <2>1. /\ staleness' = snap + Len(queue) /\ spc = "count" /\ spc' # "count"
        /\ UNCHANGED <<ppc, gen, cancelq, hand, queue>> /\ LoopFree
    BY <1>2 DEF CountStaleness, procVars, taskVars, inputVars, mqVars
  <2>2. InFlight' = InFlight
    BY <2>1 DEF InFlight, InHand, QueuedSamples
  <2>3. Len(QueuedSamples) <= Len(queue) /\ Len(queue) \in Nat
    BY QueuedType DEF NoneInv
  <2>4. ppc # "take"
    BY <2>1 DEF LoopFree, Running, Queued, Waits, WaiterInv, AtLock, WaitLoops
  <2>5. InFlight <= staleness' + 1
    BY <1>0, <2>1, <2>3 DEF InFlight, CountInv
  <2> QED
    BY <2>1, <2>2, <2>4, <2>5 DEF CountInv
<1>3. CASE ~TakePending /\ ~CountStaleness
  <2>1. staleness' = staleness
    BY <1>3, StalenessMoves
  <2>2. ppc' = "take" => staleness' < MaxRequired
    BY <2>1, TakeMoves DEF CountInv
  <2>3. InFlight' <= InFlight /\ InFlight' \in Int
    BY <1>3, FlightNext, FlightStep
  <2>4. InFlight' <= staleness' + 1 /\ InFlight' <= MaxRequired + 1
    BY <1>0, <2>1, <2>3 DEF CountInv
  <2> QED
    BY <2>2, <2>4, SnapStep DEF CountInv
<1> QED
  BY <1>1, <1>2, <1>3

Aged(q, u) ==
  \A j \in 1..Len(q) : u + j <= Base(q[j] + 1) + MaxRequired + 1

LagInv ==
  /\ SamplesUsed + InFlight <= Base(curVersion + 1) + staleness + 1
  /\ SamplesUsed + InFlight <= Base(curVersion + 1) + MaxRequired + 1
  /\ Aged(QueuedSamples, SamplesUsed)

\* While update_param_version counts, no sample of a later round has been used.
LEMMA UsedAtCount ==
  ASSUME TypeOK, TrainerInv, spc = "count"
  PROVE  SamplesUsed <= Base(curVersion + 1)
<1>0. /\ got \in 0..Required - 1 /\ lts \in 1..Trigger
      /\ version \in Nat /\ sv \in Nat /\ PerRound \in Nat /\ Required \in Nat
      /\ Part(lts) \in Nat /\ Part(lts) + Required <= PerRound /\ Part(1) = 0
      /\ Base(version) \in Nat /\ Base(version + 1) = Base(version) + PerRound
  BY RoundFacts, ConstFacts DEF TypeOK, TrainerTypeOK
<1>1. curVersion = sv /\ version = (IF tpc = "waitvalid" THEN sv + 1 ELSE sv)
      /\ tpc # "done"
  BY DEF TrainerInv, VersionInv
<1>2. CASE tpc = "waitvalid"
  BY <1>0, <1>1, <1>2 DEF TrainerInv, BookInv, UsedHere
<1>3. CASE tpc = "final"
  <2>1. SamplesUsed < Base(version) /\ SamplesUsed \in Int
    BY <1>3 DEF TrainerInv, BookInv, TypeOK, QueueTypeOK, SamplesUsed
  <2> QED
    BY <1>0, <1>1, <1>3, <2>1
<1>4. CASE tpc \notin {"waitvalid", "final"}
  <2>1. SamplesUsed = Base(version) + UsedHere
    BY <1>1, <1>4 DEF TrainerInv, BookInv
  <2>2. UsedHere \in Int /\ UsedHere <= PerRound
    BY <1>0 DEF UsedHere, TrainerInv, BookInv
  <2> QED
    BY <1>0, <1>1, <1>4, <2>1, <2>2
<1> QED
  BY <1>2, <1>3, <1>4

\* What is used and in flight when a step has been taken.
LEMMA AheadStep ==
  ASSUME TypeOK, NoneInv, TrainerInv, HandOK, LockOK, WaiterInv, CountInv, LagInv,
         [Next]_vars
  PROVE  /\ SamplesUsed' + InFlight' <= Base(curVersion' + 1) + staleness' + 1
         /\ SamplesUsed' + InFlight' <= Base(curVersion' + 1) + MaxRequired + 1
<1>0. /\ staleness \in Nat /\ MaxRequired \in Nat /\ InFlight \in Nat
      /\ SamplesUsed \in Nat /\ InFlight' \in Nat /\ SamplesUsed' \in Nat
      /\ staleness' \in Nat /\ curVersion \in Nat /\ curVersion' \in Nat
      /\ Base(curVersion + 1) \in Nat /\ Base(curVersion' + 1) \in Nat
  <2>1. TypeOK'
    BY TypeCorrectStep
  <2>2. \A v \in Nat : Base(v) \in Nat
    BY RoundFacts
  <2>3. /\ staleness \in Nat /\ MaxRequired \in Nat /\ staleness' \in Nat
        /\ curVersion \in Nat /\ curVersion' \in Nat
    BY <2>1, ConstFacts DEF TypeOK, ControlTypeOK
  <2>4. curVersion + 1 \in Nat /\ curVersion' + 1 \in Nat
    <3>1. \A n \in Nat : n + 1 \in Nat
      OBVIOUS
    <3> QED
      BY <2>3, <3>1
  <2>5. Base(curVersion + 1) \in Nat /\ Base(curVersion' + 1) \in Nat
    BY <2>2, <2>4
  <2> QED
    BY <2>3, <2>5, FlightType, FlightNext
<1> DEFINE u == SamplesUsed    f == InFlight
           u2 == SamplesUsed'  f2 == InFlight'
           b == Base(curVersion + 1)
           b2 == Base(curVersion' + 1)
           s == staleness
           s2 == staleness'
<1>1. /\ u \in Nat /\ f \in Nat /\ u2 \in Nat /\ f2 \in Nat
      /\ b \in Nat /\ b2 \in Nat /\ s \in Nat /\ s2 \in Nat
  BY <1>0
<1>2. u + f <= b + s + 1 /\ u + f <= b + MaxRequired + 1
  BY DEF LagInv
<1> SUFFICES u2 + f2 <= b2 + s2 + 1 /\ u2 + f2 <= b2 + MaxRequired + 1
  OBVIOUS
<1>3. CASE TakePending
  <2>1. /\ ppc = "take" /\ s2 = s + 1 /\ curVersion' = curVersion
    BY <1>3 DEF TakePending
  <2>2. u2 <= u /\ f2 <= f + 1
    BY <1>0, <1>3, FlightStep
  <2>3. b2 <= b /\ b <= b2 /\ s < MaxRequired
    BY <1>0, <2>1 DEF CountInv
  <2> HIDE DEF u, f, u2, f2, b, b2, s, s2
  <2> QED
    BY <1>0, <1>1, <1>2, <2>1, <2>2, <2>3
<1>4. CASE CountStaleness
  <2>1. spc = "count" /\ curVersion' = curVersion
    BY <1>4 DEF CountStaleness
  <2>2. u <= b /\ b2 = b
    BY <2>1, UsedAtCount
  <2>3. f2 <= s2 + 1 /\ f2 <= MaxRequired + 1
    BY CountStep DEF CountInv
  <2>4. u2 = u
    BY <1>4 DEF CountStaleness, SamplesUsed, mqVars, trainVars
  <2> HIDE DEF u, f, u2, f2, b, b2, s, s2
  <2> QED
    BY <1>0, <1>1, <2>2, <2>3, <2>4
<1>5. CASE ~TakePending /\ ~CountStaleness
  <2>1. s2 = s /\ u2 + f2 <= u + f
    BY <1>5, StalenessMoves, FlightStep
  <2>2. b <= b2
    <3>1. curVersion' = curVersion \/ curVersion' = curVersion + 1
      <4>1. CASE UpdateVersion
        BY <4>1 DEF UpdateVersion, TrainerInv, VersionInv, TypeOK, TrainerTypeOK,
           ControlTypeOK
      <4>2. CASE ~UpdateVersion
        BY <4>2, SyncMoves DEF Synchronizer, Pause, Gathered, SyncWeights,
           CountStaleness, ReportValidation, Resume, StartSync, FinishLoop, verVars
      <4> QED
        BY <4>1, <4>2
    <3>2. curVersion' = curVersion + 1 => b2 = b + PerRound
      BY <1>0, RoundFacts
    <3> QED
      BY <1>0, <3>1, <3>2, RoundFacts
  <2> HIDE DEF u, f, u2, f2, b, b2, s, s2
  <2> QED
    BY <1>0, <1>1, <1>2, <2>1, <2>2
<1> QED
  BY <1>3, <1>4, <1>5

\* The j-th sample of a queue will be the (u + j)-th used.
LEMMA AgedTail ==
  ASSUME NEW q \in Seq(Nat), q # <<>>, NEW u \in Nat, Aged(q, u)
  PROVE  Aged(Tail(q), u + 1) /\ Aged(Tail(q), u)
<1>1. /\ Len(q) \in Nat /\ Len(Tail(q)) = Len(q) - 1
      /\ \A j \in 1..Len(Tail(q)) : Tail(q)[j] = q[j + 1]
      /\ \A j \in 1..Len(q) : q[j] \in Nat
  BY HeadTailProperties, LenProperties
<1> SUFFICES ASSUME NEW j \in 1..Len(Tail(q))
             PROVE  /\ (u + 1) + j <= Base(Tail(q)[j] + 1) + MaxRequired + 1
                    /\ u + j <= Base(Tail(q)[j] + 1) + MaxRequired + 1
  BY DEF Aged
<1> DEFINE k == j + 1
<1>2. k \in 1..Len(q) /\ Tail(q)[j] = q[k] /\ q[k] \in Nat /\ j \in Nat
  BY <1>1
<1>3. u + k <= Base(q[k] + 1) + MaxRequired + 1
  <2> HIDE DEF k
  <2> QED
    BY <1>2 DEF Aged
<1>4. Base(q[k] + 1) \in Nat /\ MaxRequired \in Nat
  <2>1. q[k] + 1 \in Nat
    BY <1>2
  <2> QED
    BY <2>1, RoundFacts, ConstFacts
<1> QED
  BY <1>2, <1>3, <1>4

LEMMA AgedAppend ==
  ASSUME NEW q \in Seq(Nat), NEW u \in Nat, Aged(q, u), NEW e \in Nat,
         u + (Len(q) + 1) <= Base(e + 1) + MaxRequired + 1
  PROVE  Aged(Append(q, e), u)
<1>1. /\ Len(q) \in Nat /\ Len(Append(q, e)) = Len(q) + 1
      /\ \A j \in 1..Len(q) : Append(q, e)[j] = q[j]
      /\ Append(q, e)[Len(q) + 1] = e
  BY AppendProperties, LenProperties
<1> SUFFICES ASSUME NEW j \in 1..Len(q) + 1
             PROVE  u + j <= Base(Append(q, e)[j] + 1) + MaxRequired + 1
  BY <1>1 DEF Aged
<1>2. CASE j \in 1..Len(q)
  BY <1>1, <1>2 DEF Aged
<1>3. CASE j = Len(q) + 1
  BY <1>1, <1>3
<1> QED
  BY <1>1, <1>2, <1>3

\* The trainer alone uses samples.
LEMMA UsedMoves ==
  ASSUME TypeOK, [Next]_vars
  PROVE  /\ ~GetSample => SamplesUsed' = SamplesUsed
         /\ GetSample => SamplesUsed' = IF Head(queue) = Terminator THEN SamplesUsed
                                        ELSE SamplesUsed + 1
<1>1. CASE UNCHANGED <<tpc, got, lts, version, logged, consumed>>
  BY <1>1 DEF SamplesUsed, GetSample, TypeOK, QueueTypeOK
<1>2. CASE \/ LogInitial \/ TrainStep \/ StartSync \/ SyncReturns \/ LogStep
           \/ FinishLoop \/ LogFinal
  BY <1>2 DEF LogInitial, TrainStep, StartSync, SyncReturns, LogStep, FinishLoop,
     LogFinal, SamplesUsed, GetSample, mqVars
<1>3. CASE GetSample
  BY <1>3 DEF GetSample, SamplesUsed, TypeOK, QueueTypeOK
<1> QED
  BY <1>1, <1>2, <1>3, TrainerMoves DEF TrainerNext

\* When a sample is used, not too many have been used since it was made.
LEMMA LagStep ==
  ASSUME TypeOK, NoneInv, TrainerInv, HandOK, LockOK, WaiterInv, CountInv, LagInv,
         [Next]_vars
  PROVE  LagInv'
<1> SUFFICES Aged(QueuedSamples, SamplesUsed)'
  BY AheadStep DEF LagInv
<1> DEFINE q == QueuedSamples  u == SamplesUsed
<1>1. q \in Seq(Nat) /\ u \in Nat /\ Aged(q, u)
  BY QueuedType, FlightType DEF LagInv, NoneInv
<1>2. Aged(q, u)' <=> Aged(q', u')
  BY DEF Aged
<1>3. CASE UNCHANGED <<queue, dropped, consumed>>
  <2>1. ~GetSample
    BY <1>3 DEF GetSample, TypeOK, QueueTypeOK
  <2>2. q' = q /\ u' = u
    BY <1>3, <2>1, UsedMoves DEF QueuedSamples
  <2> QED
    BY <1>1, <1>2, <2>2
<1>4. CASE FinishSample
  <2>1. /\ PutSample(curVersion) /\ curVersion \in Nat /\ curVersion' = curVersion
        /\ ~GetSample
    <3>1. ~GetSample
      BY <1>4 DEF FinishSample, PutSample, GetSample, TypeOK, QueueTypeOK
    <3> QED
      BY <1>4, <3>1 DEF FinishSample, TypeOK, ControlTypeOK, verVars
  <2>2. /\ \/ q' = Append(q, curVersion)
           \/ q # <<>> /\ q' = Append(Tail(q), curVersion)
        /\ u' = u
    BY <2>1, PutQueued, UsedMoves DEF NoneInv
  <2>3. PICK r \in Seq(Nat) : Aged(r, u) /\ q' = Append(r, curVersion)
    BY <1>1, <2>2, AgedTail, SeqShorter
  <2>4. Len(r) \in Nat /\ Len(q') = Len(r) + 1
    BY <2>1, <2>3, SeqLonger, LenProperties
  <2>5. u + (Len(r) + 1) <= Base(curVersion + 1) + MaxRequired + 1
    <3> DEFINE n == Len(q')  f == InFlight'  v == u'  b == Base(curVersion + 1)
    <3>1. n = Len(r) + 1 /\ v = u
      BY <2>2, <2>4
    <3>2. n \in Nat /\ f \in Nat /\ v \in Nat /\ n <= f
      <4>1. /\ gen' \in Nat /\ cancelq' \in Nat
        BY TypeCorrectStep DEF TypeOK, RolloutTypeOK
      <4>2. f = gen' + cancelq' + InHand' + n /\ InHand' \in {0, 1} /\ n \in Nat
        BY FlightNext DEF InFlight
      <4> DEFINE g == gen'  c == cancelq'  h == InHand'
      <4>3. g \in Nat /\ c \in Nat /\ h \in {0, 1} /\ n \in Nat
        BY <4>1, <4>2
      <4>5. f = g + c + h + n
        BY <4>2
      <4> HIDE DEF g, c, h, n, f
      <4>4. n <= f
        BY <4>3, <4>5
      <4> QED
        BY <4>3, <4>4, FlightNext DEF n, f
    <3>3. v + f <= b + MaxRequired + 1
      BY <2>1, AheadStep
    <3>4. b \in Nat /\ MaxRequired \in Nat
      BY <2>1, RoundFacts, ConstFacts
    <3> HIDE DEF n, f, v, b
    <3>5. v + n <= b + MaxRequired + 1
      BY <3>2, <3>3, <3>4
    <3> QED
      BY <1>1, <2>4, <3>1, <3>5 DEF b
  <2>6. Aged(Append(r, curVersion), u)
    BY <1>1, <2>1, <2>3, <2>5, AgedAppend
  <2> QED
    BY <1>2, <2>2, <2>3, <2>6
<1>5. CASE SendTerminator
  <2>1. PutSample(Terminator) /\ ~HasNone(queue) /\ ~GetSample
    <3>1. ~GetSample
      BY <1>5 DEF SendTerminator, PutSample, GetSample, TypeOK, QueueTypeOK
    <3> QED
      BY <1>5, <3>1 DEF SendTerminator, NoneInv
  <2>2. /\ q' = q \/ (q # <<>> /\ q' = Tail(q))
        /\ u' = u
    BY <2>1, PutNone, UsedMoves
  <2> QED
    BY <1>1, <1>2, <2>2, AgedTail
<1>6. CASE GetSample
  <2>1. queue # <<>> /\ queue' = Tail(queue)
    BY <1>6 DEF GetSample
  <2>2. \/ q' = q /\ u' = u
        \/ q # <<>> /\ q' = Tail(q) /\ u' = u + 1
    BY <1>6, <2>1, GetQueued, UsedMoves DEF NoneInv
  <2> QED
    BY <1>1, <1>2, <2>2, AgedTail
<1> QED
  BY <1>3, <1>4, <1>5, <1>6, QueueUsers

(***************************************************************************)
(* All of it together.                                                     *)
(***************************************************************************)
AheadInv ==
  /\ NoneInv /\ TrainerInv /\ ConservationInv /\ LockOK /\ WaiterInv
  /\ CountInv /\ LagInv

LEMMA AheadInit == Init => AheadInv
<1> SUFFICES ASSUME Init PROVE AheadInv
  OBVIOUS
<1>4. SamplesUsed = 0
  <2>1. consumed = 0 /\ tpc = "start"
    BY DEF Init
  <2>2. SamplesUsed = 0 - 0
    BY <2>1 DEF SamplesUsed
  <2> QED
    BY <2>2
<1> USE DEF Init
<1>0. queue = <<>> /\ lockq = <<>> /\ consumed = 0 /\ tpc = "start"
  OBVIOUS
<1>1. Len(<<>>) = 0 /\ 1..0 = {}
  OBVIOUS
<1>2. ~HasNone(queue) /\ OneNone(queue) /\ QueuedSamples = <<>>
  BY <1>0, <1>1 DEF HasNone, OneNone, QueuedSamples, SamplesOf
<1>3. NoneInv
  BY <1>2 DEF NoneInv, NoneConsumed
<1>5. TrainerInv
  BY <1>4, RoundFacts DEF TrainerInv, BookInv, VersionInv, NoneConsumed, UsedHere
<1>6. ConservationInv
  BY ConstFacts DEF ConservationInv, Conservation, SamplesTaken, NonesSent, InHand,
     WithTasks, WithQueue, HandOK, Dispatching
<1>7. LockOK
  BY DEF LockOK
<1>8. WaiterInv
  BY <1>0, <1>1 DEF WaiterInv, Waits, Once
<1>9. InFlight = 0
  BY <1>1, <1>2 DEF InFlight, InHand
<1>10. CountInv
  BY <1>9, ConstFacts DEF CountInv
<1>11. LagInv
  <2>1. Base(0 + 1) \in Nat
    BY RoundFacts
  <2>2. Aged(QueuedSamples, SamplesUsed)
    BY <1>1, <1>2 DEF Aged
  <2> QED
    BY <1>4, <1>9, <2>1, <2>2, ConstFacts DEF LagInv
<1> QED
  BY <1>3, <1>5, <1>6, <1>7, <1>8, <1>10, <1>11 DEF AheadInv

LEMMA AheadAlways == Spec => [](TypeOK /\ AheadInv)
<1>1. TypeOK /\ AheadInv /\ [Next]_vars => AheadInv'
  BY NoneStep, TrainerStep, HandStep, ConservationStep, LockStep, WaiterStep,
     CountStep, LagStep DEF AheadInv, ConservationInv
<1> QED
  BY <1>1, AheadInit, TypeCorrect, PTL DEF Spec

\* README, "rollout_num" (OvershootByOne): at most max_required_samples and one
\* are started and not used, whatever the staleness_threshold.  CountInv says
\* more: the samples in the processor's hand are among them.
THEOREM NearlyBounded == Spec => []OvershootByOne
<1>1. TypeOK /\ AheadInv => OvershootByOne
  <2> SUFFICES ASSUME TypeOK, AheadInv PROVE OvershootByOne
    OBVIOUS
  <2>1. InFlight = Outstanding + InHand /\ InHand \in {0, 1} /\ Outstanding \in Nat
    BY FlightType DEF InFlight, Outstanding, AheadInv
  <2> QED
    BY <2>1, ConstFacts DEF AheadInv, CountInv, OvershootByOne
<1> QED
  BY <1>1, AheadAlways, PTL

(***************************************************************************)
(* Without staleness a round has exactly the samples it trains on.         *)
(***************************************************************************)
NoStaleness == MaxRequired = PerRound

Used == SamplesUsed - CurrentRound * PerRound
Books == Used + InFlight + fails

\* The training step after which the weights change.
NewRound == TrainStep /\ lts = Trigger

\* The trainer is in the round of its version until the last synchronization.
LEMMA RoundAt ==
  ASSUME TypeOK, NoneInv, TrainerInv
  PROVE  /\ CurrentRound \in Nat /\ Base(CurrentRound) \in Nat
         /\ Used = SamplesUsed - Base(CurrentRound) /\ Used \in Nat
         /\ tpc \notin {"final", "done"} => CurrentRound = version /\ Used = UsedHere
         /\ tpc = "final" => CurrentRound = version - 1
         /\ Books \in Nat /\ Used <= Books /\ InFlight <= Books
         /\ Used + InFlight <= Books /\ fails <= Books
<1>0. /\ version \in Nat /\ SamplesUsed \in Nat /\ PerRound \in Nat
      /\ got \in 0..Required - 1 /\ lts \in 1..Trigger /\ Required \in Nat
      /\ Part(lts) \in Nat /\ Base(0) = 0 /\ InFlight \in Nat /\ fails \in Nat
  BY FlightType, RoundFacts, ConstFacts DEF TypeOK, TrainerTypeOK
<1>1. \A v \in Nat : Base(v) \in Nat /\ Base(v + 1) = Base(v) + PerRound
  BY RoundFacts
<1>2. CurrentRound = IF SamplesUsed < Base(version) THEN version - 1 ELSE version
  BY DEF CurrentRound, Base
<1>3. SamplesUsed < Base(version) => version - 1 \in Nat
  BY <1>0
<1>4. version - 1 \in Nat => Base(version) = Base(version - 1) + PerRound
  <2> DEFINE v == version - 1
  <2>1. v \in Nat => Base(v + 1) = Base(v) + PerRound
    BY <1>1
  <2>2. version = v + 1
    BY <1>0
  <2> QED
    BY <2>1, <2>2
<1>5. CurrentRound \in Nat /\ Base(CurrentRound) \in Nat
  BY <1>0, <1>1, <1>2, <1>3
<1>6. Used = SamplesUsed - Base(CurrentRound)
  BY DEF Used, Base
<1>7. CASE tpc \notin {"final", "done"}
  <2>1. UsedHere \in Nat /\ SamplesUsed = Base(version) + UsedHere
    BY <1>0, <1>7 DEF TrainerInv, BookInv, UsedHere
  <2>2. CurrentRound = version
    BY <1>0, <1>1, <1>2, <2>1
  <2>3. Used = UsedHere
    BY <1>0, <1>1, <1>6, <2>1, <2>2
  <2> QED
    BY <1>0, <1>5, <1>6, <1>7, <2>1, <2>2, <2>3 DEF Books
<1>8. CASE tpc \in {"final", "done"}
  <2>1. Base(version) - PerRound <= SamplesUsed
    BY <1>8 DEF TrainerInv, BookInv
  <2>2. Used \in Nat
    BY <1>0, <1>1, <1>2, <1>3, <1>4, <1>6, <2>1
  <2>3. tpc = "final" => CurrentRound = version - 1
    BY <1>2 DEF TrainerInv, BookInv
  <2> QED
    BY <1>0, <1>5, <1>6, <1>8, <2>2, <2>3 DEF Books
<1> QED
  BY <1>7, <1>8

RoundTyped ==
  TypeOK /\ NoneInv /\ TrainerInv =>
    /\ CurrentRound \in Nat /\ Base(CurrentRound) \in Nat
    /\ Used = SamplesUsed - Base(CurrentRound) /\ Used \in Nat
    /\ Books \in Nat /\ Used <= Books /\ InFlight <= Books
    /\ Used + InFlight <= Books /\ fails <= Books

LEMMA RoundAlways == RoundTyped /\ RoundTyped'
<1>1. RoundTyped
  BY RoundAt DEF RoundTyped
<1> QED
  BY <1>1, PTL

\* The round ends when all its samples have been used, and not before.
LEMMA RoundStep ==
  ASSUME TypeOK, NoneInv, TrainerInv, [Next]_vars
  PROVE  /\ ~NewRound => CurrentRound' = CurrentRound
         /\ NewRound => /\ CurrentRound' = CurrentRound + 1
                        /\ Used = PerRound /\ Used' = 0
                        /\ version = CurrentRound /\ SamplesUsed' = SamplesUsed
<1>0. /\ version \in Nat /\ SamplesUsed \in Nat /\ PerRound \in Nat /\ PerRound >= 1
      /\ got \in 0..Required - 1 /\ lts \in 1..Trigger /\ Required \in Nat
      /\ Part(lts) \in Nat /\ Part(lts) + Required <= PerRound
      /\ Base(version) \in Nat /\ Base(version + 1) = Base(version) + PerRound
      /\ Part(Trigger) + Required = PerRound /\ Trigger \in Nat
  BY FlightType, RoundFacts, ConstFacts DEF TypeOK, TrainerTypeOK
<1>1. /\ CurrentRound = IF SamplesUsed < Base(version) THEN version - 1 ELSE version
      /\ CurrentRound' = IF SamplesUsed' < Base(version') THEN version' - 1
                         ELSE version'
  BY DEF CurrentRound, Base
<1>2. tpc \notin {"final", "done"} =>
        /\ CurrentRound = version /\ UsedHere \in Nat
        /\ SamplesUsed = Base(version) + UsedHere
  BY <1>0, RoundAt DEF TrainerInv, BookInv, UsedHere
<1>3. ASSUME version' = version, SamplesUsed' = SamplesUsed
      PROVE  CurrentRound' = CurrentRound
  BY <1>1, <1>3
<1>4. CASE GetSample
  <2>1. /\ tpc = "collect" /\ version' = version /\ ~NewRound
        /\ SamplesUsed' = SamplesUsed \/ SamplesUsed' = SamplesUsed + 1
    BY <1>4, UsedMoves DEF GetSample, NewRound, TrainStep
  <2>2. ~(SamplesUsed' < Base(version'))
    BY <1>0, <1>2, <2>1
  <2> QED
    BY <1>1, <1>2, <2>1, <2>2
<1>5. CASE TrainStep
  <2>1. SamplesUsed' = SamplesUsed /\ tpc = "train"
    BY <1>5, UsedMoves DEF TrainStep, GetSample
  <2>2. CASE lts < Trigger
    <3>1. version' = version /\ ~NewRound
      BY <1>0, <1>5, <2>2 DEF TrainStep, NewRound
    <3> QED
      BY <1>3, <2>1, <3>1
  <2>3. CASE lts = Trigger
    <3>1. version' = version + 1 /\ NewRound
      BY <1>0, <1>5, <2>3 DEF TrainStep, NewRound
    <3>2. UsedHere = PerRound
      BY <1>0, <2>1, <2>3 DEF UsedHere, TrainerInv, BookInv
    <3>3. /\ SamplesUsed = Base(version + 1) /\ CurrentRound = version
          /\ Used = PerRound
      BY <1>0, <1>2, <2>1, <3>2, RoundAt
    <3>4. CurrentRound' = version + 1
      BY <1>0, <1>1, <2>1, <3>1, <3>3
    <3>5. Used' = SamplesUsed' - Base(CurrentRound')
      BY DEF Used, Base
    <3>6. Used' = 0
      BY <1>0, <2>1, <3>3, <3>4, <3>5
    <3> QED
      BY <2>1, <3>1, <3>3, <3>4, <3>6
  <2> QED
    BY <1>0, <2>2, <2>3
<1>6. CASE FinishLoop
  <2>1. /\ SamplesUsed' = SamplesUsed /\ tpc = "end" /\ ~NewRound
        /\ version' = version \/ version' = version + 1
    BY <1>6, UsedMoves DEF FinishLoop, GetSample, NewRound, TrainStep
  <2>2. SamplesUsed < Base(version) + PerRound /\ ~(SamplesUsed < Base(version))
    BY <1>0, <1>2, <2>1 DEF UsedHere
  <2> QED
    BY <1>0, <1>1, <2>1, <2>2
<1>7. CASE \/ LogInitial \/ LogStep \/ LogFinal \/ StartSync \/ SyncReturns
           \/ UNCHANGED <<tpc, got, lts, version, logged, consumed>>
  <2>1. version' = version /\ ~NewRound /\ ~GetSample
    <3>1. CASE UNCHANGED <<tpc, got, lts, version, logged, consumed>>
      BY <3>1 DEF NewRound, TrainStep, GetSample, TypeOK, QueueTypeOK
    <3>2. CASE LogInitial \/ LogStep \/ LogFinal \/ StartSync \/ SyncReturns
      BY <3>2 DEF LogInitial, LogStep, LogFinal, StartSync, SyncReturns, NewRound,
         TrainStep, GetSample
    <3> QED
      BY <1>7, <3>1, <3>2
  <2> QED
    BY <1>3, <2>1, UsedMoves
<1> QED
  BY <1>4, <1>5, <1>6, <1>7, TrainerMoves DEF TrainerNext

\* A round's books grow when the processor takes a sample, and are closed when
\* the round ends.
LEMMA BooksStep ==
  ASSUME TypeOK, NoneInv, TrainerInv, HandOK, Books <= PerRound, [Next]_vars
  PROVE  /\ Books' \in Nat
         /\ TakePending => Books' = Books + InHand' /\ InHand' \in {0, 1}
         /\ ~TakePending => Books' <= Books
         /\ NewRound => /\ Books = PerRound /\ Books' = 0 /\ InFlight = 0 /\ fails = 0
                        /\ InFlight' = 0
<1>1. TypeOK' /\ NoneInv' /\ TrainerInv'
  BY TypeCorrectStep, NoneStep, TrainerStep
<1>2. Books' \in Nat
  BY <1>1, RoundAlways DEF RoundTyped
<1> DEFINE u == SamplesUsed    f == InFlight   x == fails   b == Base(CurrentRound)
           u2 == SamplesUsed'  f2 == InFlight' x2 == fails' b2 == Base(CurrentRound')
<1>3. /\ u \in Nat /\ f \in Nat /\ x \in Nat /\ b \in Nat /\ PerRound \in Nat
      /\ u2 \in Nat /\ f2 \in Nat /\ x2 \in Nat
  BY FlightType, FlightNext, RoundAt, RoundFacts
<1>4. Books = (u - b) + f + x
  BY DEF Books, Used, Base
<1>5. Books' = (u2 - b2) + f2 + x2
  BY DEF Books, Used, Base
<1>6. CASE TakePending
  <2>1. ~NewRound
    BY <1>6 DEF TakePending, NewRound, TrainStep, trainVars
  <2>2. b2 = b
    BY <2>1, RoundStep
  <2> DEFINE h2 == InHand'
  <2>3. f2 = f + h2 /\ h2 \in {0, 1} /\ x2 = x /\ u2 = u
    BY <1>6, FlightStep
  <2> HIDE DEF u, f, x, b, u2, f2, x2, b2, h2
  <2>4. Books' = Books + h2
    BY <1>3, <1>4, <1>5, <2>2, <2>3
  <2> QED
    BY <1>2, <1>6, <2>1, <2>3, <2>4 DEF h2
<1>7. CASE NewRound
  <2>1. ~TakePending /\ UNCHANGED <<gen, cancelq, hand, queue, fails>>
    BY <1>7 DEF TakePending, NewRound, TrainStep, trainVars, taskVars, inputVars,
       procVars, mqVars
  <2>2. f2 = f /\ x2 = x
    BY <2>1 DEF InFlight, InHand, QueuedSamples
  <2>3. Used = PerRound /\ Used' = 0
    BY <1>7, RoundStep
  <2>4. u - b = PerRound /\ u2 - b2 = 0
    BY <2>3 DEF Used, Base
  <2>5. Books = PerRound + f + x /\ Books' = 0 + f2 + x2
    BY <1>4, <1>5, <2>4
  <2> HIDE DEF u, f, x, b, u2, f2, x2, b2
  <2>6. f = 0 /\ x = 0 /\ Books = PerRound /\ f2 = 0 /\ Books' = 0
    BY <1>3, <2>2, <2>5
  <2>7. Books' <= Books
    BY <1>3, <2>6
  <2> QED
    BY <1>2, <2>1, <2>6, <2>7 DEF f, x, f2
<1>8. CASE ~TakePending /\ ~NewRound
  <2>1. b2 = b
    BY <1>8, RoundStep
  <2>2. u2 + f2 + x2 <= u + f + x
    BY <1>8, FlightStep
  <2> HIDE DEF u, f, x, b, u2, f2, x2, b2
  <2>3. (u2 - b2) + f2 + x2 <= (u - b) + f + x
    BY <1>3, <2>1, <2>2
  <2> QED
    BY <1>2, <1>4, <1>5, <1>8, <2>3
<1> QED
  BY <1>6, <1>7, <1>8

\* Nothing is in flight ...
LEMMA FlightZero ==
  ASSUME TypeOK, NoneInv, TrainerInv, InFlight = 0
  PROVE  /\ hand # "sample" /\ gen = 0 /\ cancelq = 0 /\ QueuedSamples = <<>>
         /\ gpc = "await" => Len(queue) = 0
<1>1. /\ gen \in Nat /\ cancelq \in Nat /\ InHand \in {0, 1} /\ Len(QueuedSamples) \in Nat
      /\ InFlight = gen + cancelq + InHand + Len(QueuedSamples)
  BY FlightType DEF InFlight
<1>2. gen = 0 /\ cancelq = 0 /\ InHand = 0 /\ Len(QueuedSamples) = 0
  BY <1>1
<1>3. gpc = "await" => Len(queue) = 0
  BY <1>2, QueuedType DEF NoneInv
<1> QED
  BY <1>2, <1>3, EmptySeq, QueuedType DEF InHand, NoneInv

\* ... when the books are empty.
LEMMA BooksZero ==
  ASSUME TypeOK, NoneInv, TrainerInv, Books = 0
  PROVE  InFlight = 0 /\ Used = 0
BY RoundAt, FlightType

\* Only submitting a sample makes a task more.
LEMMA TaskMoves ==
  ASSUME TypeOK, [Next]_vars, ~SubmitSample
  PROVE  gen' <= gen /\ Active' <= Active
<1> USE DEF taskVars
<1>0. gen \in Nat /\ sent \in Nat /\ finished \in Nat /\ broken \in Nat
  BY DEF TypeOK, RolloutTypeOK
<1>1. CASE UNCHANGED <<gen, sent, finished, broken>>
  BY <1>0, <1>1 DEF Active
<1>2. CASE FinishSample \/ ReturnTask
  BY <1>0, <1>2 DEF FinishSample, ReturnTask, Active
<1>3. CASE CancelTask \/ FailTask
  BY <1>0, <1>3 DEF CancelTask, FailTask, Active
<1>4. CASE Gathered \/ \E c \in WaitLoops : Harvest(c)
  <2>1. UNCHANGED <<gen, sent>> /\ finished' = 0 /\ broken' = 0
    BY <1>4 DEF Gathered, Harvest
  <2> QED
    BY <1>0, <2>1 DEF Active
<1> QED
  BY <1>1, <1>2, <1>3, <1>4 DEF Next, vars, Stop, FeedSamples, Processor, CheckPause,
     ReceivePause, AwaitResume, TakeCancelled, TakePending, LeaveLoop, EnterWait,
     Tasks, Monitor, MonitorTick, MonitorSkip, MonitorUnpause, MonitorCheck,
     GenerationMain, SendTerminator, StopRunning, WaitForLock, Synchronizer,
     Pause, SyncWeights, UpdateVersion, CountStaleness, ReportValidation, Resume,
     TrainerNext, LogInitial, GetSample, TrainStep, StartSync, SyncReturns,
     LogStep, FinishLoop, LogFinal

\* No more samples than a round needs are ever started in it.
BudgetInv ==
  /\ Books <= PerRound
  /\ ~Dead => Books <= staleness /\ staleness <= MaxRequired
  /\ hand = "end" => Books < PerRound
  /\ ppc = "exit" => gen = 0

\* Everything has been used when the weights are about to change.
SyncInv ==
  /\ spc # "idle" /\ tpc # "final" => Books = 0
  /\ tpc = "waitvalid" => Books = 0 /\ spc = "idle"
  /\ tpc = "final" /\ spc \notin {"pause", "gather"} => gen = 0
  /\ tpc = "done" /\ gen > 0 => CurrentRound = version
  /\ spc \in {"weights", "update"} /\ tpc # "final" => Active = 0
  /\ spc = "count" /\ tpc # "final" => snap = 0

\* The processor stays paused while they do ...
PauseInv ==
  /\ ~Dead /\ spc \notin {"idle", "pause"} => paused
  /\ spc \notin {"idle", "pause", "gather"} => ~trigger
  /\ ~Dead => \/ spc \notin {"pause", "gather"} /\ tpc # "waitvalid"
              \/ staleness >= MaxRequired
  /\ ppc = "take" => spc = "idle" /\ tpc # "waitvalid"

\* ... since the monitor, when it has decided and waits for the lock, can only be
\* late by what a processor behind it does.
Behind(s) ==
  \A i \in 1..Len(s) : s[i] = "processor" => \E j \in 1..i - 1 : s[j] = "monitor"

MonitorInv ==
  /\ mpc = "unpause" => Waits("monitor", lockq)
  /\ ~Dead /\ mpc = "unpause" =>
       /\ spc = "idle" /\ tpc # "waitvalid"
       /\ \/ staleness < MaxRequired
          \/ hand = "end"
          \/ hand = "sample" /\ lock # "processor" /\ Behind(lockq)

\* The "DONE" stays in the hand of the processor to its end.
EndInv ==
  /\ hand = "end" => ppc \in {"fin", "finWait", "exit", "crashed"}
  /\ ppc \in {"fin", "finWait", "exit"} => hand = "end"

\* So the samples of a round are all made with its weights.
StampInv ==
  /\ gen > 0 => curVersion = CurrentRound
  /\ \A j \in 1..Len(QueuedSamples) : QueuedSamples[j] = CurrentRound

QuietInv == BudgetInv /\ SyncInv /\ PauseInv /\ MonitorInv /\ EndInv /\ StampInv

\* A processor that is alive has not sent the None, so the trainer still trains.
LEMMA AliveTrains ==
  ASSUME NoneInv, ~Dead
  PROVE  gpc = "await" /\ tpc \notin {"end", "final", "done"}
BY DEF NoneInv, NoneConsumed

\* What the processor does with its hand.
LEMMA EndStep ==
  ASSUME TypeOK, EndInv, [Next]_vars
  PROVE  EndInv'
<1> USE DEF EndInv, procVars
<1>1. CASE UNCHANGED <<ppc, hand>>
  BY <1>1
<1>2. CASE CheckPause \/ ReceivePause \/ AwaitResume \/ TakeCancelled \/ TakePending
  BY <1>2 DEF CheckPause, ReceivePause, AwaitResume, TakeCancelled, TakePending
<1>3. CASE SubmitSample
  BY <1>3 DEF SubmitSample
<1>4. ASSUME NEW c \in WaitLoops, LeaveLoop(c) \/ EnterWait(c) \/ Harvest(c)
      PROVE  EndInv'
  BY <1>4 DEF LeaveLoop, EnterWait, Harvest, AfterLoop, Waiting, WaitLoops
<1>5. CASE MonitorTick \/ MonitorUnpause \/ Resume
  BY <1>5 DEF MonitorTick, MonitorUnpause, Resume, NotifyAll
<1> QED
  BY <1>1, <1>2, <1>3, <1>4, <1>5 DEF Next, vars, Stop, FeedSamples, Processor,
     Tasks, FinishSample, ReturnTask, CancelTask, FailTask, Monitor, MonitorSkip,
     MonitorCheck, GenerationMain, SendTerminator, StopRunning, WaitForLock,
     Synchronizer, Pause, Gathered, SyncWeights, UpdateVersion, CountStaleness,
     ReportValidation, TrainerNext, LogInitial, GetSample, TrainStep, StartSync,
     SyncReturns, LogStep, FinishLoop, LogFinal

\* The hand of the processor: what it takes, and that it submits it.
LEMMA HandMoves ==
  ASSUME [Next]_vars
  PROVE  TakeCancelled \/ TakePending \/ SubmitSample \/ hand' = hand
BY DEF Next, vars, Stop, FeedSamples, Processor, CheckPause, ReceivePause,
   AwaitResume, LeaveLoop, EnterWait, Harvest, Tasks, FinishSample, ReturnTask,
   CancelTask, FailTask, Monitor, MonitorTick, MonitorSkip, MonitorUnpause,
   MonitorCheck, GenerationMain, SendTerminator, StopRunning, WaitForLock,
   Synchronizer, Pause, Gathered, SyncWeights, UpdateVersion, CountStaleness,
   ReportValidation, Resume, TrainerNext, LogInitial, GetSample, TrainStep,
   StartSync, SyncReturns, LogStep, FinishLoop, LogFinal, procVars

\* The processor returns when no task is active.
LEMMA ExitMoves ==
  ASSUME TypeOK, [Next]_vars, ppc' = "exit", ppc # "exit"
  PROVE  gen = 0 /\ gen' = 0
<1>1. LeaveLoop("fin")
  <2>1. ASSUME NEW c \in WaitLoops, LeaveLoop(c) \/ EnterWait(c) \/ Harvest(c)
        PROVE  LeaveLoop("fin")
    BY <2>1 DEF LeaveLoop, EnterWait, Harvest, AfterLoop, Waiting, WaitLoops
  <2>2. CASE \/ CheckPause \/ ReceivePause \/ AwaitResume \/ TakeCancelled
             \/ TakePending \/ SubmitSample
    BY <2>2 DEF CheckPause, ReceivePause, AwaitResume, TakeCancelled, TakePending,
       SubmitSample
  <2>3. CASE MonitorTick \/ MonitorUnpause \/ Resume
    BY <2>3 DEF MonitorTick, MonitorUnpause, Resume, NotifyAll
  <2> QED
    BY <2>1, <2>2, <2>3 DEF Next, vars, Stop, FeedSamples, Processor,
       Tasks, FinishSample, ReturnTask, CancelTask, FailTask, Monitor, MonitorSkip,
       MonitorCheck, GenerationMain, SendTerminator, StopRunning, WaitForLock,
       Synchronizer, Pause, Gathered, SyncWeights, UpdateVersion, CountStaleness,
       ReportValidation, TrainerNext, LogInitial, GetSample, TrainStep, StartSync,
       SyncReturns, LogStep, FinishLoop, LogFinal, procVars
<1> QED
  BY <1>1 DEF LeaveLoop, LoopTest, Active, TypeOK, RolloutTypeOK, taskVars

LEMMA BudgetStep ==
  ASSUME NoStaleness, TypeOK, AheadInv, QuietInv, [Next]_vars
  PROVE  BudgetInv'
<1> USE DEF AheadInv, QuietInv, ConservationInv
<1>0. /\ Books \in Nat /\ PerRound \in Nat /\ PerRound = MaxRequired
      /\ staleness \in Nat /\ MaxRequired \in Nat /\ gen \in Nat
      /\ Books' \in Nat /\ staleness' \in Nat /\ gen' \in Nat
  <2>1. TypeOK'
    BY TypeCorrectStep
  <2> QED
    BY <2>1, RoundAt, RoundFacts, BooksStep, ConstFacts
       DEF TypeOK, ControlTypeOK, RolloutTypeOK, NoStaleness, BudgetInv
<1>1. Dead => Dead'
  BY DeadStays DEF Dead
<1>2. ppc' = "exit" => gen' = 0
  <2>1. CASE ppc = "exit"
    <3>1. ~SubmitSample
      BY <2>1 DEF SubmitSample
    <3> QED
      BY <1>0, <2>1, <3>1, TaskMoves DEF BudgetInv
  <2>2. CASE ppc # "exit"
    BY <2>2, ExitMoves
  <2> QED
    BY <2>1, <2>2
<1>3. CASE TakePending
  <2>1. /\ ppc = "take" /\ staleness' = staleness + 1 /\ ~Dead
        /\ hand' = "end" \/ hand' = "sample"
    BY <1>3 DEF TakePending, Dead
  <2>2. Books <= staleness /\ staleness < MaxRequired
    BY <2>1 DEF BudgetInv, CountInv
  <2>3. Books' = Books + InHand' /\ InHand' = IF hand' = "sample" THEN 1 ELSE 0
    BY <1>3, BooksStep DEF InHand, BudgetInv
  <2>4. CASE hand' = "end"
    <3>1. Books' = Books
      BY <1>0, <2>3, <2>4
    <3> QED
      BY <1>0, <1>2, <2>1, <2>2, <3>1 DEF BudgetInv
  <2>5. CASE hand' = "sample"
    <3>1. Books' = Books + 1
      BY <2>3, <2>5
    <3> QED
      BY <1>0, <1>2, <2>1, <2>2, <2>5, <3>1 DEF BudgetInv
  <2> QED
    BY <2>1, <2>4, <2>5
<1>4. CASE ~TakePending
  <2>1. Books' <= Books
    BY <1>4, BooksStep DEF BudgetInv
  <2>2. hand' = "end" => hand = "end"
    BY <1>4, HandMoves DEF TakeCancelled, SubmitSample
  <2>3. ~Dead => Books' <= staleness' /\ staleness' <= MaxRequired
    <3>1. CASE ~CountStaleness
      BY <1>0, <1>4, <2>1, <3>1, StalenessMoves DEF BudgetInv
    <3>2. CASE CountStaleness /\ ~Dead
      <4>1. tpc # "final" /\ gpc = "await"
        BY <3>2, AliveTrains
      <4>2. Books = 0 /\ snap = 0 /\ staleness' = snap + Len(queue)
        BY <3>2, <4>1 DEF CountStaleness, SyncInv
      <4>3. Len(queue) = 0
        BY <4>1, <4>2, BooksZero, FlightZero
      <4>4. staleness' = 0 /\ Books' = 0
        BY <1>0, <2>1, <4>2, <4>3
      <4> QED
        BY <1>0, <4>4
    <3> QED
      BY <3>1, <3>2
  <2>4. Books' <= PerRound /\ (hand' = "end" => Books' < PerRound)
    BY <1>0, <2>1, <2>2 DEF BudgetInv
  <2> QED
    BY <1>1, <1>2, <2>3, <2>4 DEF BudgetInv
<1> QED
  BY <1>3, <1>4

\* From the call of sync_weights to the end of resume.
LEMMA SyncGoesOn ==
  ASSUME TypeOK, TrainerInv, [Next]_vars
  PROVE  /\ spc # "idle" /\ tpc = "final" => tpc' = "final"
         /\ spc' # "idle" /\ tpc' # "final" => \/ spc # "idle" /\ tpc # "final"
                                               \/ StartSync
         /\ tpc' = "final" => /\ tpc = "final" \/ FinishLoop
         /\ tpc' = "waitvalid" => \/ NewRound /\ spc' = spc
                                  \/ tpc = "waitvalid"
         /\ tpc' = "done" => \/ tpc = "done"
                             \/ LogFinal \/ FinishLoop
<1> USE DEF trainVars, syncVars
<1>0. lts \in 1..Trigger /\ Trigger \in Nat
  BY ConstFacts DEF TypeOK, TrainerTypeOK
<1>1. CASE Synchronizer
  <2>1. spc # "idle" /\ tpc' = tpc
    BY <1>1 DEF Synchronizer, Pause, Gathered, SyncWeights, UpdateVersion,
       CountStaleness, ReportValidation, Resume
  <2> QED
    BY <2>1
<1>2. CASE \/ LogInitial \/ GetSample \/ SyncReturns \/ LogStep \/ LogFinal
  BY <1>2 DEF LogInitial, GetSample, SyncReturns, LogStep, LogFinal
<1>3. CASE TrainStep
  BY <1>0, <1>3 DEF TrainStep, NewRound
<1>4. CASE StartSync
  BY <1>4 DEF StartSync
<1>5. CASE FinishLoop
  BY <1>5 DEF FinishLoop
<1>6. CASE UNCHANGED <<tpc, got, lts, version, logged, consumed, spc, sv, snap, curVersion>>
  BY <1>6
<1> QED
  BY <1>1, <1>2, <1>3, <1>4, <1>5, <1>6, TrainerMoves, SyncMoves DEF TrainerNext

LEMMA SyncStep ==
  ASSUME NoStaleness, TypeOK, AheadInv, QuietInv, [Next]_vars
  PROVE  SyncInv'
<1> USE DEF AheadInv, QuietInv, ConservationInv
<1>0. /\ Books \in Nat /\ Books' \in Nat /\ gen \in Nat /\ gen' \in Nat
      /\ Active \in Nat /\ Active' \in Nat
  <2>1. TypeOK'
    BY TypeCorrectStep
  <2>2. \A a, b, c, d \in Nat : a + b + c + d \in Nat
    OBVIOUS
  <2>3. Active \in Nat /\ Active' \in Nat
    BY <2>1, <2>2 DEF TypeOK, RolloutTypeOK, Active
  <2> QED
    BY <2>1, <2>3, RoundAt, BooksStep DEF TypeOK, RolloutTypeOK, BudgetInv
<1>1. ~TakePending /\ Books = 0 => Books' = 0
  BY <1>0, BooksStep DEF BudgetInv
<1>2. spc # "idle" \/ tpc = "waitvalid" => ~TakePending
  BY DEF PauseInv, TakePending
<1>3. spc' # "idle" /\ tpc' # "final" => Books' = 0
  <2>1. CASE StartSync
    BY <1>1, <1>2, <2>1 DEF StartSync, SyncInv
  <2>2. CASE spc # "idle" /\ tpc # "final"
    BY <1>1, <1>2, <2>2 DEF SyncInv
  <2> QED
    BY <2>1, <2>2, SyncGoesOn
<1>4. tpc' = "waitvalid" => Books' = 0 /\ spc' = "idle"
  <2>1. CASE NewRound /\ spc' = spc
    <3>1. Books = PerRound /\ Books' = 0 /\ PerRound >= 1 /\ tpc = "train"
      BY <2>1, BooksStep, RoundFacts DEF BudgetInv, NewRound, TrainStep
    <3>2. spc = "idle"
      BY <1>0, <3>1, RoundFacts DEF SyncInv
    <3> QED
      BY <2>1, <3>1, <3>2
  <2>2. CASE tpc = "waitvalid" /\ tpc' = "waitvalid"
    <3>1. spc = "idle" /\ Books = 0
      BY <2>2 DEF SyncInv
    <3>2. spc' = "idle"
      BY <2>2, <3>1, SyncMoves DEF Synchronizer, Pause, Gathered, SyncWeights,
         UpdateVersion, CountStaleness, ReportValidation, Resume, StartSync, FinishLoop
    <3> QED
      BY <1>1, <1>2, <2>2, <3>1, <3>2
  <2> QED
    BY <2>1, <2>2, SyncGoesOn
<1>5. Dead => gen' <= gen
  BY TaskMoves DEF Dead, SubmitSample
<1>6. tpc \in {"end", "final", "done"} => Dead
  BY AliveTrains
<1>7. tpc' = "final" /\ spc' \notin {"pause", "gather"} => gen' = 0
  <2> SUFFICES ASSUME tpc' = "final", spc' \notin {"pause", "gather"} PROVE gen' = 0
    OBVIOUS
  <2>1. tpc = "final"
    BY SyncGoesOn DEF FinishLoop
  <2>2. CASE spc \notin {"pause", "gather"}
    BY <1>0, <1>5, <1>6, <2>1, <2>2 DEF SyncInv
  <2>3. CASE spc \in {"pause", "gather"}
    <3>1. Gathered
      BY <2>1, <2>3, SyncMoves DEF Synchronizer, Pause, SyncWeights,
         UpdateVersion, CountStaleness, ReportValidation, Resume, StartSync, FinishLoop
    <3> QED
      BY <1>0, <3>1 DEF Gathered, TypeOK, RolloutTypeOK
  <2> QED
    BY <2>2, <2>3
<1>8. tpc' = "done" /\ gen' > 0 => CurrentRound' = version'
  <2> SUFFICES ASSUME tpc' = "done", gen' > 0 PROVE CurrentRound' = version'
    OBVIOUS
  <2>1. ~NewRound
    BY DEF NewRound, TrainStep
  <2>2. CASE tpc = "done"
    <3>1. version' = version
      BY <2>2, TrainerMoves DEF TrainerNext, LogInitial, GetSample, TrainStep,
         StartSync, SyncReturns, LogStep, FinishLoop, LogFinal
    <3>2. gen > 0
      BY <1>0, <1>5, <1>6, <2>2
    <3> QED
      BY <2>1, <2>2, <3>1, <3>2, RoundStep DEF SyncInv
  <2>3. CASE LogFinal
    <3>1. gen' = gen /\ gen = 0
      BY <2>3 DEF LogFinal, taskVars, SyncInv
    <3> QED
      BY <3>1
  <2>4. CASE FinishLoop
    BY <2>1, <2>4, RoundStep, RoundAt DEF FinishLoop
  <2> QED
    BY <2>2, <2>3, <2>4, SyncGoesOn
<1>9. spc # "idle" /\ tpc # "final" => ~SubmitSample
  BY BooksZero, FlightZero DEF SyncInv, SubmitSample, HandOK, Dispatching
<1>10. spc' \in {"weights", "update"} /\ tpc' # "final" => Active' = 0
  <2> SUFFICES ASSUME spc' \in {"weights", "update"}, tpc' # "final" PROVE Active' = 0
    OBVIOUS
  <2>1. spc # "idle" /\ tpc # "final"
    BY SyncGoesOn DEF StartSync
  <2>2. CASE Gathered
    BY <2>2 DEF Gathered, Active, TypeOK, RolloutTypeOK
  <2>3. CASE spc \in {"weights", "update"}
    BY <1>0, <1>9, <2>1, <2>3, TaskMoves DEF SyncInv
  <2> QED
    BY <2>1, <2>2, <2>3, SyncMoves DEF Synchronizer, Pause, SyncWeights,
       UpdateVersion, CountStaleness, ReportValidation, Resume, StartSync, FinishLoop
<1>11. spc' = "count" /\ tpc' # "final" => snap' = 0
  <2> SUFFICES ASSUME spc' = "count", tpc' # "final" PROVE snap' = 0
    OBVIOUS
  <2>1. spc # "idle" /\ tpc # "final"
    BY SyncGoesOn DEF StartSync
  <2>2. CASE UpdateVersion
    <3>1. Active = 0 /\ cancelq = 0
      BY <2>1, <2>2, BooksZero, FlightZero DEF SyncInv, UpdateVersion
    <3> QED
      BY <2>2, <3>1 DEF UpdateVersion
  <2>3. CASE spc = "count" /\ snap' = snap
    BY <2>1, <2>3 DEF SyncInv
  <2> QED
    BY <2>1, <2>2, <2>3, SyncMoves DEF Synchronizer, Pause, Gathered, SyncWeights,
       CountStaleness, ReportValidation, Resume, StartSync, FinishLoop, syncVars
<1> QED
  BY <1>3, <1>4, <1>7, <1>8, <1>10, <1>11 DEF SyncInv

\* The pause flag is cleared by the monitor and by resume.
LEMMA PausedMoves ==
  ASSUME [Next]_vars
  PROVE  /\ paused' = paused \/ paused' = TRUE \/ MonitorTick \/ MonitorUnpause \/ Resume
         /\ trigger' = trigger \/ Gathered \/ Resume
<1>1. paused' = paused \/ paused' = TRUE \/ MonitorTick \/ MonitorUnpause \/ Resume
  BY DEF Next, vars, Stop, FeedSamples, Processor, CheckPause, ReceivePause,
     AwaitResume, TakeCancelled, TakePending, SubmitSample, LeaveLoop, EnterWait,
     Harvest, Tasks, FinishSample, ReturnTask, CancelTask, FailTask, Monitor,
     MonitorSkip, MonitorCheck, GenerationMain, SendTerminator, StopRunning,
     WaitForLock, Synchronizer, Pause, Gathered, SyncWeights, UpdateVersion,
     CountStaleness, ReportValidation, TrainerNext, LogInitial, GetSample,
     TrainStep, StartSync, SyncReturns, LogStep, FinishLoop, LogFinal, flagVars
<1>2. trigger' = trigger \/ Gathered \/ Resume
  BY DEF Next, vars, Stop, FeedSamples, Processor, CheckPause, ReceivePause,
     AwaitResume, TakeCancelled, TakePending, SubmitSample, LeaveLoop, EnterWait,
     Harvest, Tasks, FinishSample, ReturnTask, CancelTask, FailTask, Monitor,
     MonitorTick, MonitorUnpause, MonitorSkip, MonitorCheck, GenerationMain,
     SendTerminator, StopRunning, WaitForLock, Synchronizer, Pause, SyncWeights,
     UpdateVersion, CountStaleness, ReportValidation, TrainerNext, LogInitial,
     GetSample, TrainStep, StartSync, SyncReturns, LogStep, FinishLoop, LogFinal,
     flagVars
<1> QED
  BY <1>1, <1>2

\* Where the synchronizer comes from.
LEMMA SpcMoves ==
  ASSUME [Next]_vars
  PROVE  /\ spc' = "pause"   => spc = "pause" \/ StartSync \/ FinishLoop
         /\ spc' = "gather"  => spc = "gather" \/ Pause
         /\ spc' = "weights" => spc = "weights" \/ Gathered
         /\ spc' \notin {"idle", "pause", "gather", "weights"} =>
              spc \notin {"idle", "pause", "gather"}
BY SyncMoves DEF Synchronizer, Pause, Gathered, SyncWeights, UpdateVersion,
   CountStaleness, ReportValidation, Resume, StartSync, FinishLoop

\* When the monitor sees no reason to pause, no synchronization is at its start.
LEMMA TickIsQuiet ==
  ASSUME TypeOK, PauseInv, ~Dead, trigger \/ spc \in {"idle", "pause"}, ~ShouldPause
  PROVE  spc = "idle" /\ tpc # "waitvalid" /\ staleness < MaxRequired
<1>1. staleness < MaxRequired
  BY ConstFacts DEF ShouldPause, TypeOK, ControlTypeOK
<1>2. ~(staleness >= MaxRequired)
  BY <1>1, ConstFacts DEF TypeOK, ControlTypeOK
<1> QED
  BY <1>1, <1>2 DEF PauseInv, TypeOK, TrainerTypeOK, SyncPCs

\* At the end of a round the limits are reached.
LEMMA RoundEnds ==
  ASSUME NoStaleness, TypeOK, AheadInv, QuietInv, [Next]_vars, NewRound
  PROVE  /\ ~Dead => staleness >= MaxRequired /\ ~(staleness < MaxRequired)
         /\ hand = "none"
         /\ gen = 0 /\ QueuedSamples = <<>> /\ UNCHANGED <<staleness, gen, queue, ppc, spc>>
<1> USE DEF AheadInv, QuietInv, ConservationInv
<1>1. /\ Books = PerRound /\ InFlight = 0
      /\ PerRound \in Nat /\ MaxRequired \in Nat /\ staleness \in Nat
  BY BooksStep, RoundFacts, ConstFacts DEF BudgetInv, TypeOK, ControlTypeOK
<1>2. ~Dead => staleness >= MaxRequired /\ ~(staleness < MaxRequired)
  BY <1>1 DEF BudgetInv, NoStaleness
<1>3. hand # "sample" /\ hand # "end" /\ gen = 0 /\ QueuedSamples = <<>>
  BY <1>1, FlightZero DEF BudgetInv
<1>4. UNCHANGED <<staleness, gen, queue, ppc, spc>>
  BY DEF NewRound, TrainStep, verVars, taskVars, mqVars, procVars, syncVars
<1> QED
  BY <1>2, <1>3, <1>4 DEF TypeOK, RolloutTypeOK

LEMMA PauseStep ==
  ASSUME NoStaleness, TypeOK, AheadInv, QuietInv, [Next]_vars
  PROVE  PauseInv'
<1> USE DEF AheadInv, QuietInv, ConservationInv
<1>0. staleness \in Nat /\ MaxRequired \in Nat
  BY ConstFacts DEF TypeOK, ControlTypeOK
<1>1. Dead => Dead'
  BY DeadStays DEF Dead
<1>2. FinishLoop => Dead
  BY AliveTrains DEF FinishLoop
<1>3. ~Dead' /\ spc' \notin {"idle", "pause"} => paused'
  <2> SUFFICES ASSUME ~Dead', spc' \notin {"idle", "pause"} PROVE paused'
    OBVIOUS
  <2>1. CASE Pause
    BY <2>1 DEF Pause
  <2>2. CASE ~Pause
    <3>1. spc \notin {"idle", "pause"} /\ ~Dead
      BY <1>1, <2>2, SpcMoves DEF Gathered
    <3>2. paused
      BY <3>1 DEF PauseInv
    <3>3. ~Resume /\ ~MonitorUnpause
      BY <3>1 DEF Resume, MonitorUnpause, MonitorInv
    <3>4. ~MonitorTick
      BY <3>1, TickIsQuiet DEF MonitorTick
    <3> QED
      BY <3>2, <3>3, <3>4, PausedMoves
  <2> QED
    BY <2>1, <2>2
<1>4. spc' \notin {"idle", "pause", "gather"} => ~trigger'
  <2> SUFFICES ASSUME spc' \notin {"idle", "pause", "gather"} PROVE ~trigger'
    OBVIOUS
  <2>1. CASE Gathered
    BY <2>1 DEF Gathered
  <2>2. CASE ~Gathered
    <3>1. spc \notin {"idle", "pause", "gather"} /\ ~Resume
      BY <2>2, SpcMoves DEF Resume
    <3> QED
      BY <2>2, <3>1, PausedMoves DEF PauseInv
  <2> QED
    BY <2>1, <2>2
<1>5. ~Dead' => \/ spc' \notin {"pause", "gather"} /\ tpc' # "waitvalid"
                \/ staleness' >= MaxRequired
  <2> SUFFICES ASSUME ~Dead', spc' \in {"pause", "gather"} \/ tpc' = "waitvalid"
               PROVE  staleness' >= MaxRequired
    OBVIOUS
  <2>1. CASE NewRound
    BY <1>1, <2>1, RoundEnds
  <2>2. CASE ~NewRound
    <3>1. spc \in {"pause", "gather"} \/ tpc = "waitvalid"
      BY <1>1, <1>2, <2>2, SpcMoves, SyncGoesOn DEF StartSync, Pause
    <3>2. staleness >= MaxRequired
      BY <1>1, <3>1 DEF PauseInv
    <3>3. ~CountStaleness
      BY <3>1 DEF CountStaleness, SyncInv
    <3>4. staleness' = staleness \/ staleness' = staleness + 1
      BY <3>3, StalenessMoves DEF TakePending
    <3> QED
      BY <1>0, <3>2, <3>4
  <2> QED
    BY <2>1, <2>2
<1>6. ppc' = "take" => spc' = "idle" /\ tpc' # "waitvalid"
  <2> SUFFICES ASSUME ppc' = "take" PROVE spc' = "idle" /\ tpc' # "waitvalid"
    OBVIOUS
  <2>1. CASE CheckPause
    <3>1. ~paused /\ ~ShouldPause /\ ~Dead /\ UNCHANGED <<spc, tpc>>
      BY <2>1 DEF CheckPause, Dead, trainVars, syncVars
    <3>2. spc \in {"idle", "pause"}
      BY <3>1 DEF PauseInv, TypeOK, TrainerTypeOK, SyncPCs
    <3> QED
      BY <3>1, <3>2, TickIsQuiet
  <2>2. CASE ppc = "take"
    <3>1. spc = "idle" /\ tpc # "waitvalid" /\ staleness < MaxRequired /\ ~Dead
      BY <2>2 DEF PauseInv, CountInv, Dead
    <3>2. ~NewRound
      BY <3>1, RoundEnds
    <3>3. tpc' # "waitvalid"
      BY <3>1, <3>2, SyncGoesOn
    <3>4. spc' = "idle"
      BY <1>2, <3>1, SyncMoves DEF Synchronizer, Pause, Gathered, SyncWeights,
         UpdateVersion, CountStaleness, ReportValidation, Resume, StartSync
    <3> QED
      BY <3>3, <3>4
  <2> QED
    BY <2>1, <2>2, TakeMoves
<1> QED
  BY <1>3, <1>4, <1>5, <1>6 DEF PauseInv

\* A processor behind the monitor has not its turn.
LEMMA BehindFacts ==
  ASSUME NEW s \in Seq(Coroutines), Behind(s)
  PROVE  /\ s # <<>> => Head(s) # "processor"
         /\ s # <<>> /\ Head(s) # "monitor" => Behind(Tail(s))
         /\ \A c \in Coroutines : Waits("monitor", s) => Behind(Append(s, c))
<1>1. s # <<>> => /\ Len(s) \in Nat /\ Len(s) >= 1 /\ Head(s) = s[1]
                  /\ Len(Tail(s)) = Len(s) - 1
                  /\ \A i \in 1..Len(Tail(s)) : Tail(s)[i] = s[i + 1]
  BY LenProperties, EmptySeq, HeadTailProperties
<1>2. s # <<>> => Head(s) # "processor"
  <2>1. 1..(1 - 1) = {}
    OBVIOUS
  <2> QED
    BY <1>1, <2>1 DEF Behind
<1>3. ASSUME s # <<>>, Head(s) # "monitor" PROVE Behind(Tail(s))
  <2> SUFFICES ASSUME NEW i \in 1..Len(Tail(s)), Tail(s)[i] = "processor"
               PROVE  \E j \in 1..i - 1 : Tail(s)[j] = "monitor"
    BY DEF Behind
  <2>1. i + 1 \in 1..Len(s) /\ s[i + 1] = "processor" /\ i \in Nat
    BY <1>1, <1>3
  <2>2. PICK j \in 1..(i + 1) - 1 : s[j] = "monitor"
    BY <2>1 DEF Behind
  <2>3. j # 1
    BY <1>1, <1>3, <2>2
  <2>4. j - 1 \in 1..i - 1 /\ j - 1 \in 1..Len(Tail(s)) /\ j = (j - 1) + 1
    BY <1>1, <1>3, <2>1, <2>2, <2>3
  <2>5. Tail(s)[j - 1] = "monitor"
    BY <1>1, <1>3, <2>2, <2>4
  <2> QED
    BY <2>4, <2>5
<1>4. ASSUME NEW c \in Coroutines, Waits("monitor", s) PROVE Behind(Append(s, c))
  <2>1. /\ Len(s) \in Nat /\ Len(Append(s, c)) = Len(s) + 1
        /\ \A i \in 1..Len(s) : Append(s, c)[i] = s[i]
    BY AppendProperties, LenProperties
  <2> SUFFICES ASSUME NEW i \in 1..Len(s) + 1, Append(s, c)[i] = "processor"
               PROVE  \E j \in 1..i - 1 : Append(s, c)[j] = "monitor"
    BY <2>1 DEF Behind
  <2>2. CASE i \in 1..Len(s)
    <3>1. PICK j \in 1..i - 1 : s[j] = "monitor"
      BY <2>1, <2>2 DEF Behind
    <3>2. j \in 1..Len(s)
      BY <2>1, <2>2, <3>1
    <3> QED
      BY <2>1, <3>1, <3>2
  <2>3. CASE i = Len(s) + 1
    <3>1. PICK j \in 1..Len(s) : s[j] = "monitor"
      BY <1>4 DEF Waits
    <3>2. j \in 1..i - 1
      BY <2>1, <2>3, <3>1
    <3> QED
      BY <2>1, <3>1, <3>2
  <2> QED
    BY <2>1, <2>2, <2>3
<1> QED
  BY <1>2, <1>3, <1>4

\* How the lock and its waiters change, but for the monitor.
LEMMA LockMoves ==
  ASSUME [Next]_vars, ~Monitor
  PROVE  /\ mpc' = mpc
         /\ \/ lockq' = lockq
            \/ \E c \in {"processor", "main", "sync"} :
                 \/ lockq' = Append(lockq, c)
                 \/ HasTurn(c) /\ LeaveQueue
         /\ \/ lock' = lock
            \/ lock' = "free"
            \/ lock' = "sync"
            \/ HasTurn("processor")
<1> USE DEF lockVars, loopVars
<1>1. CASE UNCHANGED <<mpc, lock, lockq>>
  BY <1>1
<1>2. CASE ReceivePause \/ AwaitResume \/ SubmitSample
  BY <1>2 DEF ReceivePause, AwaitResume, SubmitSample, PassLock
<1>3. ASSUME NEW c \in WaitLoops, EnterWait(c) \/ Harvest(c)
      PROVE  /\ mpc' = mpc
             /\ lockq' = lockq \/ (HasTurn("processor") /\ LeaveQueue)
             /\ lock' = "free" \/ HasTurn("processor")
  BY <1>3 DEF EnterWait, Harvest, TakeLock, PassLock, ReleaseLock
<1>4. CASE StopRunning
  BY <1>4 DEF StopRunning, PassLock
<1>5. ASSUME NEW c \in {"processor", "main", "sync"}, WaitForLock(c)
      PROVE  lockq' = Append(lockq, c) /\ lock' = lock /\ mpc' = mpc
  BY <1>5 DEF WaitForLock
<1>6. CASE Pause \/ UpdateVersion \/ Resume \/ Gathered \/ ReportValidation
  BY <1>6 DEF Pause, UpdateVersion, Resume, Gathered, ReportValidation, TakeLock,
     PassLock, ReleaseLock
<1>7. CASE \/ FeedSamples \/ CheckPause \/ TakeCancelled \/ TakePending
           \/ \E c \in WaitLoops : LeaveLoop(c)
           \/ Tasks \/ SendTerminator \/ SyncWeights \/ CountStaleness \/ TrainerNext
           \/ UNCHANGED vars
  BY <1>1, <1>7 DEF FeedSamples, CheckPause, TakeCancelled, TakePending, LeaveLoop,
     Tasks, FinishSample, ReturnTask, CancelTask, FailTask, SendTerminator,
     SyncWeights, CountStaleness, TrainerNext, LogInitial, GetSample, TrainStep,
     StartSync, SyncReturns, LogStep, FinishLoop, LogFinal, vars
<1> QED
  BY <1>2, <1>3, <1>4, <1>5, <1>6, <1>7
     DEF Next, Stop, Processor, GenerationMain, Synchronizer

LEMMA MonitorStep ==
  ASSUME NoStaleness, TypeOK, AheadInv, QuietInv, [Next]_vars
  PROVE  MonitorInv'
<1> USE DEF AheadInv, QuietInv, ConservationInv
<1>0. lockq \in Seq(Coroutines) /\ {"processor", "main", "sync", "monitor"} = Coroutines
  BY DEF TypeOK, ControlTypeOK, Coroutines
<1>1. Dead => Dead'
  BY DeadStays DEF Dead
<1> SUFFICES ASSUME mpc' = "unpause" PROVE MonitorInv'
  BY DEF MonitorInv
<1>2. CASE Monitor
  <2>1. MonitorTick
    BY <1>2 DEF Monitor, MonitorSkip, MonitorUnpause, MonitorCheck, CheckRunning
  <2>2. /\ lockq' = Append(lockq, "monitor") /\ ppc' = ppc
        /\ trigger /\ ~ShouldPause /\ UNCHANGED <<spc, tpc, staleness>>
    BY <2>1 DEF MonitorTick, CheckRunning, syncVars, trainVars, verVars
  <2>3. Waits("monitor", lockq')
    BY <1>0, <2>2, WaitsAppend
  <2>4. ~Dead => spc = "idle" /\ tpc # "waitvalid" /\ staleness < MaxRequired
    BY <2>2, TickIsQuiet
  <2> QED
    BY <1>1, <2>2, <2>3, <2>4 DEF MonitorInv
<1>3. CASE ~Monitor
  <2>1. mpc = "unpause" /\ Waits("monitor", lockq)
    BY <1>3, LockMoves DEF MonitorInv
  <2>2. lockq # <<>>
    BY <2>1, EmptySeq DEF Waits
  <2>3. /\ \/ lockq' = lockq
           \/ \E c \in {"processor", "main", "sync"} : lockq' = Append(lockq, c)
           \/ lockq' = Tail(lockq) /\ Head(lockq) # "monitor"
    BY <1>3, <2>2, LockMoves DEF HasTurn, LeaveQueue
  <2>4. Waits("monitor", lockq')
    <3>1. CASE \E c \in {"processor", "main", "sync"} : lockq' = Append(lockq, c)
      BY <1>0, <2>1, <3>1, WaitsAppend
    <3>2. CASE lockq' = Tail(lockq) /\ Head(lockq) # "monitor"
      BY <1>0, <2>1, <2>2, <3>2, WaitsTail
    <3> QED
      BY <2>1, <2>3, <3>1, <3>2
  <2>5. ASSUME ~Dead
        PROVE  /\ spc' = "idle" /\ tpc' # "waitvalid"
               /\ \/ staleness' < MaxRequired
                  \/ hand' = "end"
                  \/ hand' = "sample" /\ lock' # "processor" /\ Behind(lockq')
    <3>1. /\ spc = "idle" /\ tpc # "waitvalid"
          /\ \/ staleness < MaxRequired
             \/ hand = "end"
             \/ hand = "sample" /\ lock # "processor" /\ Behind(lockq)
      BY <2>1, <2>5 DEF MonitorInv
    <3>2. tpc \notin {"end", "final", "done"}
      BY <2>5, AliveTrains
    <3>3. spc' = "idle"
      BY <3>1, <3>2, SyncMoves DEF Synchronizer, Pause, Gathered, SyncWeights,
         UpdateVersion, CountStaleness, ReportValidation, Resume, StartSync, FinishLoop
    <3>4. ~NewRound
      BY <2>5, <3>1, RoundEnds
    <3>5. tpc' # "waitvalid"
      BY <3>1, <3>4, SyncGoesOn
    <3>6. CASE TakePending
      <4>1. /\ ppc = "take" /\ UNCHANGED <<lock, lockq>>
            /\ hand' = "end" \/ hand' = "sample"
        BY <3>6 DEF TakePending, lockVars
      <4>2. lock # "processor" /\ ~Waits("processor", lockq)
        BY <4>1 DEF LockOK, WaiterInv, AtLock, WaitLoops
      <4>3. Behind(lockq')
        BY <4>1, <4>2 DEF Behind, Waits
      <4> QED
        BY <3>3, <3>5, <4>1, <4>2, <4>3
    <3>7. CASE ~TakePending
      <4>1. staleness' = staleness
        BY <3>1, <3>7, StalenessMoves DEF CountStaleness
      <4>2. CASE hand = "end"
        <5>1. hand' = "end"
          BY <3>7, <4>2, HandMoves DEF EndInv, TakeCancelled, SubmitSample
        <5> QED
          BY <3>3, <3>5, <5>1
      <4>3. CASE hand = "sample" /\ lock # "processor" /\ Behind(lockq)
        <5>1. ~HasTurn("processor")
          BY <1>0, <2>2, <4>3, BehindFacts DEF HasTurn
        <5>2. hand' = "sample"
          BY <3>7, <4>3, <5>1, HandMoves DEF TakeCancelled, SubmitSample, PassLock
        <5>3. lock' # "processor"
          BY <1>3, <4>3, <5>1, LockMoves
        <5>4. Behind(lockq')
          BY <1>0, <2>1, <2>2, <2>3, <4>3, BehindFacts
        <5> QED
          BY <3>3, <3>5, <5>2, <5>3, <5>4
      <4> QED
        BY <3>1, <3>3, <3>5, <4>1, <4>2, <4>3
    <3> QED
      BY <3>6, <3>7
  <2> QED
    BY <1>1, <2>4, <2>5 DEF MonitorInv
<1> QED
  BY <1>2, <1>3

\* Weights change when nothing generates and nothing is queued.
LEMMA StampStep ==
  ASSUME NoStaleness, TypeOK, AheadInv, QuietInv, [Next]_vars
  PROVE  StampInv'
<1> USE DEF AheadInv, QuietInv, ConservationInv
<1> DEFINE q == QueuedSamples
           Stamped(s) == \A j \in 1..Len(s) : s[j] = CurrentRound
<1>0. /\ q \in Seq(Nat) /\ Stamped(q) /\ gen \in Nat /\ CurrentRound \in Nat
      /\ curVersion \in Nat
  <2>1. q \in Seq(Nat) /\ CurrentRound \in Nat
    BY QueuedType, RoundAt DEF NoneInv
  <2>2. Stamped(q)
    BY DEF StampInv
  <2> QED
    BY <2>1, <2>2 DEF TypeOK, RolloutTypeOK, ControlTypeOK
<1>1. CASE NewRound
  <2>1. gen = 0 /\ q = <<>> /\ UNCHANGED <<gen, queue>>
    BY <1>1, RoundEnds
  <2>2. q' = <<>> /\ ~(gen' > 0) /\ Len(<<>>) = 0
    BY <2>1 DEF QueuedSamples
  <2> QED
    BY <2>2 DEF StampInv
<1>2. CASE ~NewRound
  <2>0. CurrentRound' = CurrentRound
    BY <1>2, RoundStep
  <2>1. gen' > 0 => curVersion' = CurrentRound'
    <3>1. CASE SubmitSample
      <4>1. /\ ppc = "submit" /\ ~Dead /\ hand = "sample" /\ curVersion' = curVersion
        BY <3>1 DEF SubmitSample, Dead, HandOK, Dispatching, verVars
      <4>2. Books # 0
        BY <4>1, BooksZero, FlightZero
      <4>3. tpc \notin {"end", "final", "done", "waitvalid"} /\ spc = "idle"
        BY <4>1, <4>2, AliveTrains DEF SyncInv
      <4>4. curVersion = version /\ CurrentRound = version
        BY <4>3, RoundAt DEF TrainerInv, VersionInv
      <4> QED
        BY <2>0, <4>1, <4>4
    <3>2. CASE ~SubmitSample /\ gen' > 0
      <4>1. gen > 0
        <5>1. gen' <= gen /\ gen' \in Nat
          BY <3>2, TaskMoves, TypeCorrectStep DEF TypeOK, RolloutTypeOK
        <5> QED
          BY <1>0, <3>2, <5>1
      <4>2. ~UpdateVersion
        <5>1. CASE tpc = "final"
          BY <4>1, <5>1 DEF SyncInv, UpdateVersion
        <5>2. CASE tpc # "final"
          BY <4>1, <5>2, BooksZero, FlightZero DEF SyncInv, UpdateVersion
        <5> QED
          BY <5>1, <5>2
      <4>3. curVersion' = curVersion
        BY <4>2, SyncMoves DEF Synchronizer, Pause, Gathered, SyncWeights,
           CountStaleness, ReportValidation, Resume, StartSync, FinishLoop, verVars
      <4> QED
        BY <2>0, <4>1, <4>3 DEF StampInv
    <3> QED
      BY <3>1, <3>2
  <2>2. q # <<>> => Tail(q) \in Seq(Nat) /\ Stamped(Tail(q))
    <3> SUFFICES ASSUME q # <<>> PROVE Tail(q) \in Seq(Nat) /\ Stamped(Tail(q))
      OBVIOUS
    <3>1. /\ Len(q) \in Nat /\ Len(Tail(q)) = Len(q) - 1 /\ Tail(q) \in Seq(Nat)
          /\ \A j \in 1..Len(Tail(q)) : Tail(q)[j] = q[j + 1]
      BY <1>0, HeadTailProperties, LenProperties
    <3> HIDE DEF q
    <3>2. \A j \in 1..Len(q) : q[j] = CurrentRound
      BY <1>0
    <3> QED
      BY <3>1, <3>2
  <2>3. \A s \in Seq(Nat) : Stamped(s) => Stamped(Append(s, CurrentRound))
    <3> SUFFICES ASSUME NEW s \in Seq(Nat), Stamped(s)
                 PROVE  Stamped(Append(s, CurrentRound))
      OBVIOUS
    <3>1. /\ Len(s) \in Nat /\ Len(Append(s, CurrentRound)) = Len(s) + 1
          /\ \A j \in 1..Len(s) : Append(s, CurrentRound)[j] = s[j]
          /\ Append(s, CurrentRound)[Len(s) + 1] = CurrentRound
      BY <1>0, AppendProperties, LenProperties
    <3> QED
      BY <3>1
  <2>4. CASE UNCHANGED <<queue, dropped, consumed>>
    BY <1>0, <2>0, <2>1, <2>4 DEF StampInv, QueuedSamples
  <2>5. CASE FinishSample
    <3>1. PutSample(curVersion) /\ gen > 0
      BY <2>5 DEF FinishSample
    <3>2. curVersion = CurrentRound
      BY <3>1 DEF StampInv
    <3>3. \/ q' = Append(q, CurrentRound)
          \/ q # <<>> /\ q' = Append(Tail(q), CurrentRound)
      BY <1>0, <3>1, <3>2, PutQueued DEF NoneInv
    <3>4. Stamped(q')
      BY <1>0, <2>2, <2>3, <3>3
    <3> QED
      BY <2>0, <2>1, <3>4 DEF StampInv
  <2>6. CASE SendTerminator
    <3>1. PutSample(Terminator) /\ ~HasNone(queue)
      BY <2>6 DEF SendTerminator, NoneInv
    <3>2. q' = q \/ (q # <<>> /\ q' = Tail(q))
      BY <3>1, PutNone
    <3>3. Stamped(q')
      BY <1>0, <2>2, <3>2
    <3> QED
      BY <2>0, <2>1, <3>3 DEF StampInv
  <2>7. CASE GetSample
    <3>1. queue # <<>> /\ queue' = Tail(queue)
      BY <2>7 DEF GetSample
    <3>2. q' = q \/ (q # <<>> /\ q' = Tail(q))
      BY <3>1, GetQueued DEF NoneInv
    <3>3. Stamped(q')
      BY <1>0, <2>2, <3>2
    <3> QED
      BY <2>0, <2>1, <3>3 DEF StampInv
  <2> QED
    BY <2>4, <2>5, <2>6, <2>7, QueueUsers
<1> QED
  BY <1>1, <1>2

LEMMA QuietInit == NoStaleness /\ Init => QuietInv
<1> SUFFICES ASSUME NoStaleness, Init PROVE QuietInv
  OBVIOUS
<1>1. AheadInv /\ TypeOK
  BY AheadInit, TypeCorrectInit
<1>2. /\ ppc = "loop" /\ hand = "none" /\ spc = "idle" /\ tpc = "start" /\ mpc = "sleep"
      /\ gen = 0 /\ fails = 0 /\ cancelq = 0 /\ queue = <<>> /\ staleness = 0
      /\ version = 0 /\ consumed = 0
  BY DEF Init
<1>3. Len(<<>>) = 0 /\ 1..0 = {}
  OBVIOUS
<1>4. QueuedSamples = <<>>
  BY <1>2, <1>3 DEF QueuedSamples, SamplesOf, HasNone
<1>5. SamplesUsed = 0
  <2>1. SamplesUsed = 0 - 0
    BY <1>2 DEF SamplesUsed
  <2> QED
    BY <2>1
<1>6. CurrentRound = 0 /\ Used = 0
  <2>1. 0 * PerRound = 0
    BY RoundFacts
  <2>2. CurrentRound = 0
    BY <1>2, <1>5, <2>1 DEF CurrentRound
  <2> QED
    BY <1>5, <2>1, <2>2 DEF Used
<1>7. Books = 0
  BY <1>2, <1>3, <1>4, <1>6 DEF Books, InFlight, InHand
<1>8. BudgetInv /\ SyncInv /\ PauseInv /\ EndInv
  BY <1>2, <1>7, RoundFacts, ConstFacts DEF BudgetInv, SyncInv, PauseInv, EndInv
<1>9. MonitorInv /\ StampInv
  BY <1>2, <1>3, <1>4 DEF MonitorInv, StampInv
<1> QED
  BY <1>8, <1>9 DEF QuietInv

LEMMA QuietStep ==
  ASSUME NoStaleness, TypeOK, AheadInv, QuietInv, [Next]_vars
  PROVE  QuietInv'
BY BudgetStep, SyncStep, PauseStep, MonitorStep, EndStep, StampStep DEF QuietInv

LEMMA QuietAlways ==
  ASSUME NoStaleness
  PROVE  Spec => [](TypeOK /\ AheadInv /\ QuietInv)
<1>1. Init => QuietInv
  BY QuietInit
<1>2. TypeOK /\ AheadInv /\ QuietInv /\ [Next]_vars => QuietInv'
  BY QuietStep
<1> QED
  BY <1>1, <1>2, AheadAlways, PTL DEF Spec

\* With staleness_threshold = 0 nothing generates while the weights are being
\* overwritten (QuietSync).  A monitor that has decided to clear the pause before
\* the synchronization could still do so while the weights move; it does not,
\* since then nothing is left to generate in the round.
THEOREM SyncIsQuiet == NoStaleness => (Spec => []QuietSync)
<1> SUFFICES ASSUME NoStaleness PROVE Spec => []QuietSync
  OBVIOUS
<1>1. TypeOK /\ AheadInv /\ QuietInv => QuietSync
  <2> SUFFICES ASSUME TypeOK, AheadInv, QuietInv, spc = "weights" PROVE gen = 0
    BY DEF QuietSync
  <2> USE DEF AheadInv, QuietInv, SyncInv
  <2>1. CASE tpc = "final"
    BY <2>1
  <2>2. CASE tpc # "final"
    BY <2>2, BooksZero, FlightZero
  <2> QED
    BY <2>1, <2>2
<1> QED
  BY <1>1, QuietAlways, PTL

\* What \div is for the bound.
LEMMA DivBound ==
  ASSUME NEW m \in Nat, NEW p \in Nat, p >= 1, NEW k \in Nat, k * p <= m
  PROVE  k <= m \div p /\ m \div p \in Nat
<1> DEFINE d == m \div p  r == m % p
<1>1. d \in Int /\ r \in Int /\ m = p * d + r /\ 0 <= r /\ r < p
  OBVIOUS
<1> HIDE DEF d, r
<1>2. \A a, b \in Int : a >= b => p * a >= p * b
  OBVIOUS
<1>3. k * p = p * k /\ p * (d + 1) = p * d + p /\ p * 0 = 0
  BY <1>1
<1>4. k <= d
  <2> SUFFICES ASSUME k >= d + 1 PROVE FALSE
    BY <1>1
  <2>1. p * k >= p * (d + 1)
    BY <1>1, <1>2
  <2> QED
    BY <1>1, <1>3, <2>1
<1> QED
  BY <1>1, <1>4 DEF d

\* The first sample of the queue, when the trainer takes it.
LEMMA LagOfHead ==
  ASSUME TypeOK, AheadInv, NoStaleness => QuietInv, GetSample,
         Head(queue) # Terminator
  PROVE  version - Head(queue) <= MaxLag
<1> USE DEF AheadInv
<1> DEFINE h == Head(queue)
<1>1. /\ tpc = "collect" /\ queue # <<>> /\ queue' = Tail(queue)
  BY DEF GetSample
<1>2. /\ QueuedSamples # <<>> /\ QueuedSamples[1] = h
      /\ QueuedSamples \in Seq(Nat)
  BY <1>1, GetQueued, QueuedType DEF NoneInv
<1>3. /\ Len(QueuedSamples) \in Nat /\ Len(QueuedSamples) >= 1 /\ 1 \in 1..Len(QueuedSamples)
      /\ h \in Nat
  BY <1>2, LenProperties, EmptySeq
<1>4. /\ version \in Nat /\ PerRound \in Nat /\ PerRound >= 1 /\ MaxRequired \in Nat
      /\ SamplesUsed \in Nat
      /\ MaxRequired >= PerRound /\ Required * Trigger = PerRound
  BY RoundFacts, ConstFacts, FlightType DEF TypeOK, TrainerTypeOK, PerRound
<1>5. /\ CurrentRound = version /\ UsedHere \in Nat
      /\ SamplesUsed = Base(version) + UsedHere
  <2>1. CurrentRound = version /\ Used = UsedHere /\ Used \in Nat
    BY <1>1, RoundAt
  <2> QED
    BY <1>1, <2>1 DEF TrainerInv, BookInv
<1>6. CASE MaxRequired = PerRound
  <2>1. QueuedSamples[1] = CurrentRound
    BY <1>3, <1>6 DEF NoStaleness, QuietInv, StampInv
  <2> QED
    BY <1>2, <1>4, <1>5, <1>6, <2>1 DEF MaxLag
<1>7. CASE MaxRequired # PerRound
  <2>1. SamplesUsed + 1 <= Base(h + 1) + MaxRequired + 1
    BY <1>2, <1>3 DEF LagInv, Aged
  <2>2. \A v \in Nat : Base(v) = v * PerRound /\ Base(v) \in Nat
    BY RoundFacts DEF Base
  <2>3. version * PerRound <= (h + 1) * PerRound + MaxRequired
    <3>1. h + 1 \in Nat
      BY <1>3
    <3>2. /\ Base(version) = version * PerRound /\ Base(version) \in Nat
          /\ Base(h + 1) = (h + 1) * PerRound /\ Base(h + 1) \in Nat
      BY <1>4, <2>2, <3>1
    <3>3. Base(version) <= Base(h + 1) + MaxRequired
      BY <1>4, <1>5, <2>1, <3>2
    <3> QED
      BY <3>2, <3>3
  <2>4. MaxLag = (MaxRequired \div PerRound) + 1 /\ MaxRequired \div PerRound \in Nat
    <3>1. 0 * PerRound <= MaxRequired
      BY <1>4
    <3> QED
      BY <1>4, <1>7, <3>1, DivBound DEF MaxLag
  <2>5. CASE version <= h + 1
    BY <1>3, <1>4, <2>4, <2>5
  <2>6. CASE version > h + 1
    <3> DEFINE k == version - (h + 1)
    <3>1. k \in Nat /\ h + 1 \in Nat /\ version = k + (h + 1)
      BY <1>3, <1>4, <2>6
    <3>2. \A a, b, c \in Nat : (a + b) * c = a * c + b * c /\ a * c \in Nat
      OBVIOUS
    <3> HIDE DEF k
    <3>3. version * PerRound = k * PerRound + (h + 1) * PerRound
      BY <1>4, <3>1, <3>2
    <3>4. k * PerRound <= MaxRequired
      BY <1>4, <2>3, <3>1, <3>2, <3>3
    <3>5. k <= MaxRequired \div PerRound
      BY <1>4, <3>1, <3>4, DivBound
    <3> QED
      BY <1>3, <1>4, <2>4, <3>1, <3>5
  <2> QED
    BY <1>3, <1>4, <2>5, <2>6
<1> QED
  BY <1>6, <1>7

\* No sample is consumed that is older than the bound (BoundedLag), for every
\* staleness_threshold: what is used and in flight never passes what the version
\* of the rollouter and max_required_samples allow, so that when the j-th sample
\* of the queue is used its version is not far behind.  Without staleness it is
\* the version that is trained.
THEOREM LagIsBounded == Spec => BoundedLag
<1>1. TypeOK /\ AheadInv /\ (NoStaleness => QuietInv) /\ [Next]_vars =>
        [consumed' > consumed /\ Head(queue) # Terminator
           => version - Head(queue) <= MaxLag]_vars
  <2> SUFFICES ASSUME TypeOK, AheadInv, NoStaleness => QuietInv, [Next]_vars,
                      consumed' > consumed, Head(queue) # Terminator
               PROVE  version - Head(queue) <= MaxLag
    OBVIOUS
  <2>1. consumed \in Nat
    BY DEF TypeOK, QueueTypeOK
  <2>2. consumed' # consumed
    BY <2>1
  <2>3. GetSample
    BY <2>2, TrainerMoves DEF TrainerNext, LogInitial, TrainStep, StartSync,
       SyncReturns, LogStep, FinishLoop, LogFinal, mqVars
  <2> QED
    BY <2>3, LagOfHead
<1>2. Spec => [](NoStaleness => QuietInv)
  <2>1. Init => (NoStaleness => QuietInv)
    BY QuietInit
  <2>2. TypeOK /\ AheadInv /\ (NoStaleness => QuietInv) /\ [Next]_vars
          => (NoStaleness => QuietInv)'
    <3> SUFFICES ASSUME TypeOK, AheadInv, NoStaleness => QuietInv, [Next]_vars,
                        NoStaleness'
                 PROVE  QuietInv'
      OBVIOUS
    <3>1. NoStaleness
      BY DEF NoStaleness, PerRound
    <3> QED
      BY <3>1, QuietStep
  <2> QED
    BY <2>1, <2>2, AheadAlways, PTL DEF Spec
<1> QED
  BY <1>1, <1>2, AheadAlways, PTL DEF Spec, BoundedLag

\* A task always finds room in the queue, and so does the None.
LEMMA RoomLeft ==
  ASSUME NoStaleness, TypeOK, AheadInv, QuietInv, ProcessorSurvives,
         gen > 0 \/ SendTerminator
  PROVE  Len(queue) < MaxQueue
<1> USE DEF AheadInv, QuietInv
<1>a. /\ gen \in Nat /\ cancelq \in Nat /\ InHand \in {0, 1} /\ fails \in Nat
      /\ Len(QueuedSamples) \in Nat /\ Used \in Nat
  BY FlightType, RoundAt
<1>b. Len(queue) \in Nat /\ Len(QueuedSamples) = IF HasNone(queue) THEN Len(queue) - 1 ELSE Len(queue)
  BY QueuedType DEF NoneInv, TypeOK, QueueTypeOK
<1>c. PerRound \in Nat /\ MaxQueue = PerRound
  BY RoundFacts DEF MaxQueue, NoStaleness
<1>d. Books \in Nat /\ Books <= PerRound
  BY <1>a DEF Books, InFlight, BudgetInv
<1>1. /\ gen \in Nat /\ cancelq \in Nat /\ InHand \in {0, 1} /\ fails \in Nat
      /\ Len(QueuedSamples) \in Nat /\ Used \in Nat /\ Books \in Nat
      /\ PerRound \in Nat /\ Books <= PerRound
      /\ MaxQueue = PerRound /\ Len(queue) \in Nat
      /\ Len(queue) <= Len(QueuedSamples) + 1
      /\ ~HasNone(queue) => Len(queue) = Len(QueuedSamples)
  BY <1>a, <1>b, <1>c, <1>d
<1>2. gen + Len(QueuedSamples) + fails <= Books
  BY <1>1 DEF Books, InFlight
<1>3. ppc = "crashed" => fails >= 1
  BY <1>1 DEF ProcessorSurvives
<1>4. CASE gen > 0 /\ gpc = "await"
  BY <1>1, <1>2, <1>4 DEF NoneInv
<1>5. CASE gen > 0 /\ gpc # "await"
  <2>1. ppc = "crashed"
    BY <1>5 DEF NoneInv, Dead, BudgetInv
  <2> QED
    BY <1>1, <1>2, <1>3, <1>5, <2>1
<1>6. CASE SendTerminator
  <2>1. gpc = "await" /\ ppc \in {"exit", "crashed"}
    BY <1>6 DEF SendTerminator
  <2>2. ppc = "exit" => Books < PerRound
    BY DEF EndInv, BudgetInv
  <2> QED
    BY <1>1, <1>2, <1>3, <2>1, <2>2 DEF NoneInv
<1> QED
  BY <1>4, <1>5, <1>6

\* No more samples are used and finished than the data has.
LEMMA TotalLeft ==
  ASSUME TypeOK, AheadInv, gen > 0
  PROVE  SamplesUsed + Len(QueuedSamples) < Total
<1> USE DEF AheadInv, ConservationInv
<1>1. /\ gen \in Nat /\ cancelq \in Nat /\ InHand \in {0, 1} /\ fails \in Nat
      /\ consumed \in Nat /\ dropped \in Nat /\ Len(queue) \in Nat
      /\ Len(QueuedSamples) = IF HasNone(queue) THEN Len(queue) - 1 ELSE Len(queue)
  BY FlightType, QueuedType DEF NoneInv, TypeOK, QueueTypeOK
<1>2. SamplesTaken \in Nat /\ SamplesTaken <= Total /\ Total \in Nat
  BY ConstFacts DEF SamplesTaken, TypeOK, RolloutTypeOK
<1>3. SamplesTaken + NonesSent
        = InHand + (gen + cancelq + fails) + (Len(queue) + consumed + dropped)
  BY DEF Conservation, WithTasks, WithQueue
<1>4. SamplesUsed = consumed - (IF NoneConsumed THEN 1 ELSE 0)
  BY DEF SamplesUsed, NoneConsumed
<1>5. CASE gpc = "await"
  BY <1>1, <1>2, <1>3, <1>4, <1>5 DEF NoneInv, NonesSent
<1>6. CASE gpc # "await"
  <2>1. NonesSent = 1 /\ (HasNone(queue) \/ NoneConsumed \/ dropped > 0)
    BY <1>6 DEF NoneInv, NonesSent
  <2>2. CASE NoneConsumed
    <3>1. ~HasNone(queue) /\ SamplesUsed = consumed - 1
      BY <1>4, <2>2 DEF NoneInv
    <3> QED
      BY <1>1, <1>2, <1>3, <2>1, <3>1
  <2>3. CASE ~NoneConsumed /\ HasNone(queue)
    <3>1. SamplesUsed = consumed /\ Len(QueuedSamples) = Len(queue) - 1
      BY <1>1, <1>4, <2>3
    <3> QED
      BY <1>1, <1>2, <1>3, <2>1, <3>1
  <2>4. CASE ~NoneConsumed /\ ~HasNone(queue)
    <3>1. SamplesUsed = consumed /\ Len(QueuedSamples) = Len(queue) /\ dropped > 0
      BY <1>1, <1>4, <2>1, <2>4
    <3> QED
      BY <1>1, <1>2, <1>3, <2>1, <3>1
  <2> QED
    BY <2>2, <2>3, <2>4
<1> QED
  BY <1>5, <1>6

roundVars == <<CurrentRound, SamplesUsed - CurrentRound * PerRound, QueuedSamples>>

\* Each step of the four processes is a step of a round, or none.
LEMMA RoundsStep ==
  ASSUME NoStaleness, TypeOK, AheadInv, QuietInv, ProcessorSurvives, [Next]_vars
  PROVE  [Rounds!Next]_roundVars
<1> USE DEF AheadInv, QuietInv
<1>0. /\ Used = SamplesUsed - CurrentRound * PerRound
      /\ Used' = SamplesUsed' - CurrentRound' * PerRound
      /\ roundVars = <<CurrentRound, Used, QueuedSamples>>
      /\ roundVars' = <<CurrentRound', Used', QueuedSamples'>>
  BY DEF Used, roundVars
<1>1. /\ SamplesUsed \in Nat /\ Used \in Nat /\ CurrentRound \in Nat
      /\ PerRound \in Nat /\ CurrentRound * PerRound \in Nat
      /\ gen \in Nat /\ Len(QueuedSamples) \in Nat
  BY FlightType, RoundAt, RoundFacts DEF Base
<1>2. CASE FinishSample
  <2>1. /\ gen > 0 /\ PutSample(curVersion) /\ curVersion \in Nat /\ ~NewRound /\ ~GetSample
    BY <1>2 DEF FinishSample, TypeOK, ControlTypeOK, NewRound, TrainStep, GetSample,
       trainVars, PutSample, QueueTypeOK
  <2>2. QueuedSamples' = Append(QueuedSamples, CurrentRound)
    BY <2>1, RoomLeft, PutQueued DEF NoneInv, StampInv
  <2>3. CurrentRound' = CurrentRound /\ SamplesUsed' = SamplesUsed
    BY <2>1, RoundStep, UsedMoves
  <2>4. Used' = Used
    BY <1>0, <2>3
  <2>5. Used + Len(QueuedSamples) < PerRound
    <3>1. cancelq \in Nat /\ InHand \in {0, 1} /\ fails \in Nat
      BY FlightType
    <3>2. Used + gen + Len(QueuedSamples) <= Books /\ Books \in Nat
      BY <1>1, <3>1 DEF Books, InFlight
    <3>3. Books <= PerRound
      BY DEF BudgetInv
    <3> QED
      BY <1>1, <2>1, <3>2, <3>3
  <2>6. CurrentRound * PerRound + Used + Len(QueuedSamples) < Total
    <3>1. SamplesUsed + Len(QueuedSamples) < Total
      BY <2>1, TotalLeft
    <3>2. CurrentRound * PerRound + Used = SamplesUsed
      BY <1>0, <1>1
    <3> QED
      BY <3>1, <3>2
  <2>7. Rounds!Generate
    BY <1>0, <2>2, <2>3, <2>4, <2>5, <2>6 DEF Rounds!Generate
  <2> QED
    BY <2>7 DEF Rounds!Next
<1>3. CASE GetSample
  <2>1. queue # <<>> /\ queue' = Tail(queue) /\ ~NewRound
    BY <1>3 DEF GetSample, NewRound, TrainStep
  <2>2. CurrentRound' = CurrentRound
    BY <2>1, RoundStep
  <2>3. CASE Head(queue) = Terminator
    <3>1. SamplesUsed' = SamplesUsed /\ QueuedSamples' = QueuedSamples
      BY <1>3, <2>1, <2>3, UsedMoves, GetQueued DEF NoneInv
    <3>2. Used' = Used
      BY <1>0, <2>2, <3>1
    <3> QED
      BY <1>0, <2>2, <3>1, <3>2
  <2>4. CASE Head(queue) # Terminator
    <3>1. /\ SamplesUsed' = SamplesUsed + 1
          /\ QueuedSamples # <<>> /\ QueuedSamples' = Tail(QueuedSamples)
      BY <1>3, <2>1, <2>4, UsedMoves, GetQueued DEF NoneInv
    <3>2. Used' = Used + 1
      BY <1>0, <1>1, <2>2, <3>1
    <3>3. Rounds!Train
      BY <1>0, <2>2, <3>1, <3>2 DEF Rounds!Train
    <3> QED
      BY <3>3 DEF Rounds!Next
  <2> QED
    BY <2>3, <2>4
<1>4. CASE NewRound
  <2>1. QueuedSamples' = QueuedSamples
    BY <1>4 DEF NewRound, TrainStep, mqVars, QueuedSamples
  <2>2. CurrentRound' = CurrentRound + 1 /\ Used = PerRound /\ Used' = 0
    BY <1>4, RoundStep
  <2>3. Rounds!NextRound
    BY <1>0, <2>1, <2>2 DEF Rounds!NextRound
  <2> QED
    BY <2>3 DEF Rounds!Next
<1>5. CASE SendTerminator
  <2>1. PutSample(Terminator) /\ ~HasNone(queue) /\ ~NewRound /\ ~GetSample
    BY <1>5 DEF SendTerminator, NoneInv, NewRound, TrainStep, GetSample, trainVars,
       PutSample, TypeOK, QueueTypeOK
  <2>2. QueuedSamples' = QueuedSamples
    BY <1>5, <2>1, RoomLeft, PutNone
  <2>3. CurrentRound' = CurrentRound /\ SamplesUsed' = SamplesUsed
    BY <2>1, RoundStep, UsedMoves
  <2> QED
    BY <1>0, <2>2, <2>3
<1>6. CASE UNCHANGED <<queue, dropped, consumed>> /\ ~NewRound
  <2>1. ~GetSample
    BY <1>6 DEF GetSample, TypeOK, QueueTypeOK
  <2>2. CurrentRound' = CurrentRound /\ SamplesUsed' = SamplesUsed
    BY <1>6, <2>1, RoundStep, UsedMoves
  <2>3. QueuedSamples' = QueuedSamples
    BY <1>6 DEF QueuedSamples
  <2> QED
    BY <1>0, <2>2, <2>3
<1> QED
  BY <1>2, <1>3, <1>4, <1>5, <1>6, QueueUsers

\* With staleness_threshold = 0 the asynchronous processes implement on-policy
\* rounds (OnPolicy): finishing a sample is Generate, taking one from the queue is
\* Train, and the training step before a synchronization is NextRound.
THEOREM OnPolicyTraining == NoStaleness => (Spec => OnPolicy)
<1> SUFFICES ASSUME NoStaleness PROVE Spec => OnPolicy
  OBVIOUS
<1>1. Init => Rounds!Init
  <2> SUFFICES ASSUME Init PROVE Rounds!Init
    OBVIOUS
  <2>1. SamplesUsed = 0 - 0
    BY DEF Init, SamplesUsed
  <2>2. 0 * PerRound = 0 /\ version = 0
    BY RoundFacts DEF Init
  <2>3. CurrentRound = 0
    BY <2>1, <2>2 DEF CurrentRound
  <2>4. Len(<<>>) = 0 /\ 1..0 = {} /\ queue = <<>>
    BY DEF Init
  <2>5. QueuedSamples = <<>>
    BY <2>4 DEF QueuedSamples, SamplesOf, HasNone
  <2> QED
    BY <2>1, <2>2, <2>3, <2>5 DEF Rounds!Init
<1>2. TypeOK /\ AheadInv /\ QuietInv /\ ProcessorSurvives /\ [Next]_vars
        => [Rounds!Next]_roundVars
  BY RoundsStep
<1> QED
  BY <1>1, <1>2, QuietAlways, ProcessorNeverUnbound, PTL
     DEF Spec, OnPolicy, Rounds!Spec, roundVars

(***************************************************************************)
(* FinalValidated.  When the version is due for validation, its report is  *)
(* still to come, or is the last in val_queue, or has been logged.  A      *)
(* report that was read cannot be covered by an older one: a synchronizer  *)
(* makes one report, and the trainer waits for it before the next call.    *)
(***************************************************************************)
Due == (version > 0 /\ version % TestFreq = 0) \/ tpc = "final"

Final(q) == q # <<>> /\ q[Len(q)] = [version |-> version, metrics |-> TRUE]

ValidInv ==
  /\ tpc \notin {"waitvalid", "done"} /\ Due =>
       \/ ReportsToCome = 1
       \/ ReportsToCome = 0 /\ valq = <<>> /\ logged = version
       \/ ReportsToCome = 0 /\ Final(valq)
  /\ FinalValidated

\* A step that moves none of these keeps it.
LEMMA ValidStays ==
  ASSUME ValidInv, UNCHANGED <<valq, logged, version, tpc>>,
         ReportsToCome' = ReportsToCome
  PROVE  ValidInv'
BY DEF ValidInv, Due, Final, FinalValidated

\* _log_validation_data does not lose the report of the newest version.
LEMMA LogKeeps ==
  ASSUME TypeOK, LogValidation,
         (valq = <<>> /\ logged = version) \/ Final(valq)
  PROVE  \/ valq' = <<>> /\ logged' = version
         \/ /\ Len(valq) > 1 /\ valq' # <<>>
            /\ valq'[Len(valq')] = [version |-> version, metrics |-> TRUE]
<1>1. valq \in Seq(Reports)
  BY DEF TypeOK, QueueTypeOK
<1>2. CASE valq = <<>>
  BY <1>2 DEF LogValidation, Final
<1>3. CASE valq # <<>>
  <2>1. /\ valq' = Tail(valq) /\ Len(valq) \in Nat /\ Len(valq) >= 1
        /\ Len(Tail(valq)) = Len(valq) - 1 /\ Tail(valq) \in Seq(Reports)
        /\ \A j \in 1..Len(valq) - 1 : Tail(valq)[j] = valq[j + 1]
    BY <1>1, <1>3, EmptySeq, LenProperties, HeadTailProperties DEF LogValidation
  <2>2. valq[Len(valq)] = [version |-> version, metrics |-> TRUE]
    BY <1>3 DEF Final
  <2>3. CASE Len(valq) = 1
    <3>1. Head(valq) = valq[1] /\ valq' = <<>>
      BY <1>1, <1>3, <2>1, <2>3, EmptySeq
    <3> QED
      BY <1>3, <2>2, <2>3, <3>1 DEF LogValidation
  <2>4. CASE Len(valq) # 1
    <3>1. /\ Len(valq) - 1 \in 1..Len(valq) - 1
          /\ Tail(valq)[Len(valq) - 1] = valq[Len(valq)] /\ Tail(valq) # <<>>
      BY <2>1, <2>4, EmptySeq
    <3> QED
      BY <2>1, <2>2, <2>4, <3>1
  <2> QED
    BY <2>3, <2>4
<1> QED
  BY <1>2, <1>3

\* A synchronization makes the report of the version of the trainer.
LEMMA ReportKeeps ==
  ASSUME TypeOK, VersionInv, ValidInv, ReportValidation
  PROVE  ValidInv'
<1> USE DEF ReportsToCome, trainVars, syncVars
<1>1. /\ UNCHANGED <<tpc, version, logged>> /\ spc = "report" /\ spc' = "resume"
      /\ sv \in Nat /\ valq \in Seq(Reports)
      /\ valq' = Append(valq, [version |-> sv, metrics |-> \/ sv % TestFreq = 0 /\ sv > 0
                                                           \/ tpc = "final"])
  BY DEF ReportValidation, TypeOK, QueueTypeOK, TrainerTypeOK
<1>2. FinalValidated'
  BY <1>1 DEF FinalValidated, ValidInv
<1>3. ASSUME tpc \notin {"waitvalid", "done"}, Due
      PROVE  ReportsToCome' = 0 /\ valq' # <<>>
             /\ valq'[Len(valq')] = [version |-> version, metrics |-> TRUE]
  <2>1. sv = version
    BY <1>3 DEF VersionInv
  <2>2. (\/ sv % TestFreq = 0 /\ sv > 0
         \/ tpc = "final") = TRUE
    BY <1>3, <2>1 DEF Due
  <2> DEFINE r == [version |-> sv, metrics |-> \/ sv % TestFreq = 0 /\ sv > 0
                                               \/ tpc = "final"]
  <2>3. r \in Reports
    BY <1>1 DEF Reports
  <2>4. r = [version |-> version, metrics |-> TRUE]
    BY <2>1, <2>2
  <2>5. valq' = Append(valq, r)
    BY <1>1
  <2> HIDE DEF r
  <2>6. /\ Len(valq) \in Nat /\ Len(valq') = Len(valq) + 1 /\ valq' # <<>>
        /\ valq'[Len(valq) + 1] = r
    BY <1>1, <2>3, <2>5, LenProperties, EmptySeq, AppendProperties
  <2> QED
    BY <1>1, <2>4, <2>6
<1> QED
  BY <1>1, <1>2, <1>3 DEF ValidInv, Due, Final

\* Only the trainer and the synchronizer write and read val_queue.
LEMMA ReportUsers ==
  ASSUME [Next]_vars, ~TrainerNext, ~Synchronizer
  PROVE  UNCHANGED <<valq, logged, version, tpc, spc>>
BY DEF Next, vars, Stop, FeedSamples, Processor, CheckPause, ReceivePause,
   AwaitResume, TakeCancelled, TakePending, SubmitSample, LeaveLoop,
   EnterWait, Harvest, Tasks, FinishSample, ReturnTask, CancelTask, FailTask,
   Monitor, MonitorTick, MonitorSkip, MonitorUnpause, MonitorCheck,
   GenerationMain, SendTerminator, StopRunning, WaitForLock, mqVars,
   trainVars, syncVars, PutSample

LEMMA ValidStep ==
  ASSUME TypeOK, TrainerInv, ReportInv, ValidInv, [Next]_vars
  PROVE  ValidInv'
<1> USE DEF TrainerInv
<1>0. Len(valq) \in Nat
  BY LenProperties DEF TypeOK, QueueTypeOK
<1>1. CASE UNCHANGED <<valq, logged, version, tpc, spc>>
  BY <1>1, ValidStays DEF ReportsToCome
<1>2. CASE \/ Pause \/ Gathered \/ SyncWeights \/ UpdateVersion
           \/ CountStaleness \/ Resume
  BY <1>2, ValidStays DEF Pause, Gathered, SyncWeights, UpdateVersion,
     CountStaleness, Resume, ReportsToCome, mqVars, trainVars
<1>3. CASE ReportValidation
  BY <1>3, ReportKeeps
<1>4. CASE LogInitial \/ LogStep
  <2>1. /\ tpc \in {"start", "log"} /\ tpc' = "collect" /\ LogValidation
        /\ UNCHANGED <<version, spc>>
    BY <1>4 DEF LogInitial, LogStep, syncVars
  <2>2. ReportsToCome' = ReportsToCome /\ Due' = Due
    BY <2>1 DEF ReportsToCome, Due
  <2>3. ASSUME Due, ReportsToCome # 1
        PROVE  ReportsToCome' = 0 /\ ((valq' = <<>> /\ logged' = version) \/ Final(valq)')
    BY <2>1, <2>2, <2>3, LogKeeps DEF ValidInv, Final
  <2> QED
    BY <2>1, <2>2, <2>3 DEF ValidInv, Final, FinalValidated
<1>5. CASE GetSample \/ TrainStep \/ SyncReturns
  <2>1. /\ UNCHANGED <<valq, logged, spc>> /\ tpc \notin {"waitvalid", "done", "final"}
        /\ \/ tpc' = "waitvalid"
           \/ version' = version /\ tpc' \notin {"waitvalid", "done", "final"}
    <3>1. CASE GetSample
      BY <3>1 DEF GetSample, syncVars
    <3>2. CASE TrainStep
      <4>1. tpc = "train" /\ UNCHANGED <<valq, logged, spc>>
        BY <3>2 DEF TrainStep, syncVars, mqVars
      <4>2. tpc' = "waitvalid" \/ (version' = version /\ tpc' = "log")
        BY <3>2 DEF TrainStep
      <4> QED
        BY <4>1, <4>2
    <3>3. CASE SyncReturns
      BY <3>3 DEF SyncReturns, syncVars, mqVars
    <3> QED
      BY <1>5, <3>1, <3>2, <3>3
  <2> QED
    BY <2>1 DEF ValidInv, FinalValidated, Due, Final, ReportsToCome
<1>6. CASE StartSync
  BY <1>6 DEF StartSync, ValidInv, FinalValidated, ReportsToCome
<1>7. CASE FinishLoop /\ tpc' = "final"
  BY <1>7 DEF FinishLoop, ValidInv, FinalValidated, ReportsToCome
<1>8. CASE tpc' = "done" /\ (FinishLoop \/ LogFinal)
  <2>1. /\ LogValidation /\ spc = "idle" /\ tpc \in {"end", "final"}
        /\ version' = version /\ version \in Nat
        /\ tpc = "end" => version % TestFreq = 0
    BY <1>8 DEF FinishLoop, LogFinal, TypeOK, TrainerTypeOK
  <2>2. ASSUME version > 0 PROVE logged' = version
    <3>1. Due /\ ReportsToCome = 0
      BY <2>1, <2>2 DEF Due, ReportsToCome
    <3>2. Len(valq) <= 1
      BY <1>0, <2>1, <3>1 DEF ReportInv, MaxReports
    <3> QED
      BY <1>0, <2>1, <3>1, <3>2, LogKeeps DEF ValidInv
  <2> QED
    BY <1>8, <2>1, <2>2 DEF ValidInv, FinalValidated
<1>9. FinishLoop => tpc' \in {"final", "done"}
  BY DEF FinishLoop
<1>10. LogFinal => tpc' = "done"
  BY DEF LogFinal
<1>11. CASE ~TrainerNext /\ ~Synchronizer
  BY <1>1, <1>11, ReportUsers DEF TrainerNext
<1> QED
  BY <1>2, <1>3, <1>4, <1>5, <1>6, <1>7, <1>8, <1>9, <1>10, <1>11
     DEF TrainerNext, Synchronizer

\* When fit() of the trainer returns, the metrics of its newest weights have
\* been logged (FinalValidated), for every test_freq.
THEOREM NewestIsValidated == Spec => []FinalValidated
<1>1. Init => ValidInv
  BY DEF Init, ValidInv, Due, FinalValidated
<1>2. TypeOK /\ TrainerInv /\ ReportInv /\ ValidInv /\ [Next]_vars => ValidInv'
  BY ValidStep
<1>3. Init => ReportInv
  BY DEF Init, ReportInv, ReportsToCome, MaxReports
<1>4. TypeOK /\ ReportInv /\ [Next]_vars => ReportInv'
  BY ReportStep
<1>5. AheadInv => TrainerInv
  BY DEF AheadInv
<1>6. ValidInv => FinalValidated
  BY DEF ValidInv
<1> QED
  BY <1>1, <1>2, <1>3, <1>4, <1>5, <1>6, AheadAlways, PTL DEF Spec
===============================================================================
