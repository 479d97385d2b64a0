------------------------ MODULE TranscriptDelta_proofs ------------------------
(* Theorems about the frames of a transcript: applying keeps a transcript a *)
(* transcript, and the frame that diff_transcript computes between two      *)
(* transcripts brings a consumer of the first to the second.                *)
(*                                                                          *)
(* Applying goes through a frame one place after another. Each of the three *)
(* recursive functions that do so is unfolded once (WithoutRuns,            *)
(* UpsertedRuns, AppendedRuns); from there on a proof by induction is one   *)
(* about the set of the places up to which a statement holds (NatInduct).   *)
EXTENDS TranscriptDelta, SequenceTheorems, WellFoundedInduction, TLAPS

-----------------------------------------------------------------------------
(* Naturals                                                                 *)

LEMMA LeastOf ==
  ASSUME NEW T \in SUBSET Nat, T # {}
  PROVE  \E m \in T : \A k \in T : m <= k
<1>1. PICK m \in T : \A k \in T : ~(<<k, m>> \in OpToRel(<, Nat))
  BY NatLessThanWellFounded, WFMin, Zenon
<1>2. \A k \in T : ~(k < m)
  BY <1>1 DEF OpToRel
<1> QED
  BY <1>2

(* Induction, for a statement given as the set of the naturals it holds of. *)
LEMMA NatInduct ==
  ASSUME NEW S \in SUBSET Nat, 0 \in S, \A n \in S : n + 1 \in S
  PROVE  S = Nat
<1>1. SUFFICES ASSUME Nat \ S # {} PROVE FALSE
  OBVIOUS
<1>2. PICK m \in Nat \ S : \A k \in Nat \ S : m <= k
  BY <1>1, LeastOf, Zenon
<1>3. m # 0
  OBVIOUS
<1>4. m - 1 \in S /\ (m - 1) + 1 = m
  BY <1>2, <1>3
<1> QED
  BY <1>4

-----------------------------------------------------------------------------
(* The three walks, unfolded                                                *)

(* One step of Without: what is kept of the first k entries.                *)
Kept(s, ids, f, k) ==
    IF k = 0 THEN <<>>
    ELSE IF s[k].id \in ids THEN f[k - 1] ELSE Append(f[k - 1], s[k])

LEMMA WithoutRuns ==
  ASSUME NEW s, NEW ids, Len(s) \in Nat
  PROVE  \E f : /\ f[0] = <<>>
                /\ \A k \in 1..Len(s) :
                      f[k] = IF s[k].id \in ids THEN f[k - 1] ELSE Append(f[k - 1], s[k])
                /\ Without(s, ids) = f[Len(s)]
<1> DEFINE Upto == {n \in Nat : \E f : f = [k \in 0..n |-> Kept(s, ids, f, k)]}
<1>1. 0 \in Upto
  <2> DEFINE f == [k \in 0..0 |-> <<>>]
  <2>1. f = [k \in 0..0 |-> Kept(s, ids, f, k)]
    BY DEF Kept
  <2> QED
    BY <2>1
<1>2. ASSUME NEW n \in Upto PROVE n + 1 \in Upto
  <2>0. n \in Nat
    OBVIOUS
  <2>1. PICK f : f = [k \in 0..n |-> Kept(s, ids, f, k)]
    OBVIOUS
  <2> DEFINE g == [k \in 0..(n + 1) |-> IF k = n + 1 THEN Kept(s, ids, f, k) ELSE f[k]]
  <2>2. ASSUME NEW k \in 0..(n + 1) PROVE g[k] = Kept(s, ids, g, k)
    <3>1. k # 0 => g[k - 1] = f[k - 1]
      BY <2>0
    <3>2. Kept(s, ids, g, k) = Kept(s, ids, f, k)
      BY <3>1 DEF Kept
    <3>3. k # n + 1 => f[k] = Kept(s, ids, f, k)
      <4>1. SUFFICES ASSUME k # n + 1 PROVE f[k] = Kept(s, ids, f, k)
        OBVIOUS
      <4>2. k \in 0..n
        BY <4>1, <2>0
      <4> QED
        BY <2>1, <4>2
    <3> QED
      BY <3>2, <3>3
  <2>3. g = [k \in 0..(n + 1) |-> Kept(s, ids, g, k)]
    BY <2>2
  <2> HIDE DEF g
  <2>4. \E h : h = [k \in 0..(n + 1) |-> Kept(s, ids, h, k)]
    BY <2>3
  <2> QED
    BY <2>4, <2>0
<1>3. Len(s) \in Upto
  <2> HIDE DEF Upto
  <2>1. Upto \in SUBSET Nat
    BY DEF Upto
  <2>2. Upto = Nat
    BY <2>1, <1>1, <1>2, NatInduct
  <2> QED
    BY <2>2
<1>4. PICK g : g = [k \in 0..Len(s) |-> Kept(s, ids, g, k)]
  BY <1>3
<1> DEFINE h == CHOOSE h : h = [k \in 0..Len(s) |->
                    IF k = 0 THEN <<>>
                    ELSE IF s[k].id \in ids THEN h[k - 1] ELSE Append(h[k - 1], s[k])]
<1>5. h = [k \in 0..Len(s) |-> Kept(s, ids, h, k)]
  BY <1>4 DEF Kept
<1>6. Without(s, ids) = h[Len(s)]
  BY Zenon DEF Without
<1> HIDE DEF h
<1>7. h[0] = <<>>
  BY <1>5 DEF Kept
<1>8. ASSUME NEW k \in 1..Len(s)
      PROVE  h[k] = IF s[k].id \in ids THEN h[k - 1] ELSE Append(h[k - 1], s[k])
  <2>1. k \in 0..Len(s) /\ k # 0
    OBVIOUS
  <2>2. h[k] = Kept(s, ids, h, k)
    BY <1>5, <2>1
  <2> QED
    BY <2>1, <2>2 DEF Kept
<1> QED
  BY <1>6, <1>7, <1>8

UpsertStep(state, frame, f, k) ==
    IF k = 0 THEN state
    ELSE IF k \in DOMAIN frame.upsert THEN Upsert(f[k - 1], frame.upsert[k])
    ELSE f[k - 1]

LEMMA UpsertedRuns ==
  ASSUME NEW state, NEW frame, frame.count \in Nat
  PROVE  \E f : /\ f[0] = state
                /\ \A k \in 1..frame.count :
                      f[k] = IF k \in DOMAIN frame.upsert THEN Upsert(f[k - 1], frame.upsert[k])
                             ELSE f[k - 1]
                /\ Upserted(state, frame) = f[frame.count]
<1> DEFINE Upto == {n \in Nat : \E f : f = [k \in 0..n |-> UpsertStep(state, frame, f, k)]}
<1>1. 0 \in Upto
  <2> DEFINE f == [k \in 0..0 |-> state]
  <2>1. f = [k \in 0..0 |-> UpsertStep(state, frame, f, k)]
    BY DEF UpsertStep
  <2> QED
    BY <2>1
<1>2. ASSUME NEW n \in Upto PROVE n + 1 \in Upto
  <2>0. n \in Nat
    OBVIOUS
  <2>1. PICK f : f = [k \in 0..n |-> UpsertStep(state, frame, f, k)]
    OBVIOUS
  <2> DEFINE g == [k \in 0..(n + 1) |->
                     IF k = n + 1 THEN UpsertStep(state, frame, f, k) ELSE f[k]]
  <2>2. ASSUME NEW k \in 0..(n + 1) PROVE g[k] = UpsertStep(state, frame, g, k)
    <3>1. k # 0 => g[k - 1] = f[k - 1]
      BY <2>0
    <3>2. UpsertStep(state, frame, g, k) = UpsertStep(state, frame, f, k)
      <4> HIDE DEF g
      <4>1. CASE k = 0
        BY <4>1 DEF UpsertStep
      <4>2. CASE k # 0
        BY <3>1, <4>2, Zenon DEF UpsertStep
      <4> QED
        BY <4>1, <4>2
    <3>3. k # n + 1 => f[k] = UpsertStep(state, frame, f, k)
      <4>1. SUFFICES ASSUME k # n + 1 PROVE f[k] = UpsertStep(state, frame, f, k)
        OBVIOUS
      <4>2. k \in 0..n
        BY <4>1, <2>0
      <4> QED
        BY <2>1, <4>2
    <3> QED
      BY <3>2, <3>3
  <2>3. g = [k \in 0..(n + 1) |-> UpsertStep(state, frame, g, k)]
    BY <2>2
  <2> HIDE DEF g
  <2>4. \E h : h = [k \in 0..(n + 1) |-> UpsertStep(state, frame, h, k)]
    BY <2>3
  <2> QED
    BY <2>4, <2>0
<1>3. frame.count \in Upto
  <2> HIDE DEF Upto
  <2>1. Upto \in SUBSET Nat
    BY DEF Upto
  <2>2. Upto = Nat
    BY <2>1, <1>1, <1>2, NatInduct
  <2> QED
    BY <2>2
<1>4. PICK g : g = [k \in 0..frame.count |-> UpsertStep(state, frame, g, k)]
  BY <1>3
<1> DEFINE h == CHOOSE h : h = [k \in 0..frame.count |->
                    IF k = 0 THEN state
                    ELSE IF k \in DOMAIN frame.upsert THEN Upsert(h[k - 1], frame.upsert[k])
                    ELSE h[k - 1]]
<1>5. h = [k \in 0..frame.count |-> UpsertStep(state, frame, h, k)]
  BY <1>4, Zenon DEF UpsertStep
<1>6. Upserted(state, frame) = h[frame.count]
  BY Zenon DEF Upserted
<1> HIDE DEF h
<1>7. h[0] = state
  BY <1>5 DEF UpsertStep
<1>8. ASSUME NEW k \in 1..frame.count
      PROVE  h[k] = IF k \in DOMAIN frame.upsert THEN Upsert(h[k - 1], frame.upsert[k])
                    ELSE h[k - 1]
  <2>1. k \in 0..frame.count /\ k # 0
    OBVIOUS
  <2>2. h[k] = UpsertStep(state, frame, h, k)
    BY <1>5, <2>1
  <2> QED
    BY <2>1, <2>2, Zenon DEF UpsertStep
<1> QED
  BY <1>6, <1>7, <1>8

AppendStep(state, frame, f, k) ==
    IF k = 0 THEN state
    ELSE IF k \in DOMAIN frame.append THEN AppendText(f[k - 1], frame.append[k])
    ELSE f[k - 1]

(* What one frame's appends do, one after another.                          *)
AppendsInTurn(state, frame, f) ==
    /\ f[0] = state
    /\ \A k \in 1..frame.count :
          f[k] = IF k \in DOMAIN frame.append THEN AppendText(f[k - 1], frame.append[k])
                 ELSE f[k - 1]
    /\ Appended(state, frame) = f[frame.count]

LEMMA AppendedRuns ==
  ASSUME NEW state, NEW frame, frame.count \in Nat
  PROVE  \E f : AppendsInTurn(state, frame, f)
<1> DEFINE Upto == {n \in Nat : \E f : f = [k \in 0..n |-> AppendStep(state, frame, f, k)]}
<1>1. 0 \in Upto
  <2> DEFINE f == [k \in 0..0 |-> state]
  <2>1. f = [k \in 0..0 |-> AppendStep(state, frame, f, k)]
    BY DEF AppendStep
  <2> QED
    BY <2>1
<1>2. ASSUME NEW n \in Upto PROVE n + 1 \in Upto
  <2>0. n \in Nat
    OBVIOUS
  <2>1. PICK f : f = [k \in 0..n |-> AppendStep(state, frame, f, k)]
    OBVIOUS
  <2> DEFINE g == [k \in 0..(n + 1) |->
                     IF k = n + 1 THEN AppendStep(state, frame, f, k) ELSE f[k]]
  <2>2. ASSUME NEW k \in 0..(n + 1) PROVE g[k] = AppendStep(state, frame, g, k)
    <3>1. k # 0 => g[k - 1] = f[k - 1]
      BY <2>0
    <3>2. AppendStep(state, frame, g, k) = AppendStep(state, frame, f, k)
      <4> HIDE DEF g
      <4>1. CASE k = 0
        BY <4>1 DEF AppendStep
      <4>2. CASE k # 0
        BY <3>1, <4>2, Zenon DEF AppendStep
      <4> QED
        BY <4>1, <4>2
    <3>3. k # n + 1 => f[k] = AppendStep(state, frame, f, k)
      <4>1. SUFFICES ASSUME k # n + 1 PROVE f[k] = AppendStep(state, frame, f, k)
        OBVIOUS
      <4>2. k \in 0..n
        BY <4>1, <2>0
      <4> QED
        BY <2>1, <4>2
    <3> QED
      BY <3>2, <3>3
  <2>3. g = [k \in 0..(n + 1) |-> AppendStep(state, frame, g, k)]
    BY <2>2
  <2> HIDE DEF g
  <2>4. \E h : h = [k \in 0..(n + 1) |-> AppendStep(state, frame, h, k)]
    BY <2>3
  <2> QED
    BY <2>4, <2>0
<1>3. frame.count \in Upto
  <2> HIDE DEF Upto
  <2>1. Upto \in SUBSET Nat
    BY DEF Upto
  <2>2. Upto = Nat
    BY <2>1, <1>1, <1>2, NatInduct
  <2> QED
    BY <2>2
<1>4. PICK g : g = [k \in 0..frame.count |-> AppendStep(state, frame, g, k)]
  BY <1>3
<1> DEFINE h == CHOOSE h : h = [k \in 0..frame.count |->
                    IF k = 0 THEN state
                    ELSE IF k \in DOMAIN frame.append THEN AppendText(h[k - 1], frame.append[k])
                    ELSE h[k - 1]]
<1>5. h = [k \in 0..frame.count |-> AppendStep(state, frame, h, k)]
  BY <1>4, Zenon DEF AppendStep
<1>6. Appended(state, frame) = h[frame.count]
  BY Zenon DEF Appended
<1> HIDE DEF h
<1>7. h[0] = state
  BY <1>5 DEF AppendStep
<1>8. ASSUME NEW k \in 1..frame.count
      PROVE  h[k] = IF k \in DOMAIN frame.append THEN AppendText(h[k - 1], frame.append[k])
                    ELSE h[k - 1]
  <2>1. k \in 0..frame.count /\ k # 0
    OBVIOUS
  <2>2. h[k] = AppendStep(state, frame, h, k)
    BY <1>5, <2>1
  <2> QED
    BY <2>1, <2>2, Zenon DEF AppendStep
<1> QED
  BY <1>6, <1>7, <1>8 DEF AppendsInTurn

-----------------------------------------------------------------------------
(* Lists                                                                    *)

LEMMA InsertAtFacts ==
  ASSUME NEW S, NEW s \in Seq(S), NEW e \in S, NEW k \in 1..(Len(s) + 1)
  PROVE  /\ InsertAt(s, k, e) \in Seq(S)
         /\ Len(InsertAt(s, k, e)) = Len(s) + 1
         /\ \A i \in 1..(Len(s) + 1) :
               InsertAt(s, k, e)[i] = IF i < k THEN s[i] ELSE IF i = k THEN e ELSE s[i - 1]
<1> DEFINE front == SubSeq(s, 1, k - 1)
           head == front \o <<e>>
           back == SubSeq(s, k, Len(s))
<1>0. Len(s) \in Nat
  OBVIOUS
<1>1. front \in Seq(S) /\ Len(front) = k - 1 /\ \A i \in 1..(k - 1) : front[i] = s[i]
  BY <1>0
<1>2. /\ back \in Seq(S) /\ Len(back) = Len(s) + 1 - k
      /\ \A i \in 1..(Len(s) + 1 - k) : back[i] = s[i + k - 1]
  BY <1>0
<1> HIDE DEF front, back
<1>3. /\ head \in Seq(S) /\ Len(head) = k
      /\ \A i \in 1..(k - 1) : head[i] = s[i]
      /\ head[k] = e
  BY <1>0, <1>1
<1> HIDE DEF head
<1>4. /\ head \o back \in Seq(S) /\ Len(head \o back) = Len(s) + 1
      /\ \A i \in 1..(Len(s) + 1) : (head \o back)[i] = IF i <= k THEN head[i] ELSE back[i - k]
  <2>1. Len(head) + Len(back) = Len(s) + 1
    BY <1>0, <1>2, <1>3
  <2>2. /\ head \o back \in Seq(S) /\ Len(head \o back) = Len(head) + Len(back)
        /\ \A i \in 1..(Len(head) + Len(back)) :
              (head \o back)[i] = IF i <= Len(head) THEN head[i] ELSE back[i - Len(head)]
    BY <1>2, <1>3, ConcatProperties
  <2>3. Len(head) = k
    BY <1>3
  <2> QED
    BY <2>1, <2>2, <2>3
<1>5. InsertAt(s, k, e) = head \o back
  BY DEF InsertAt, head, front, back
<1>6. ASSUME NEW i \in 1..(Len(s) + 1), i > k PROVE back[i - k] = s[i - 1]
  BY <1>0, <1>2, <1>6
<1>7. ASSUME NEW i \in 1..(Len(s) + 1)
      PROVE (head \o back)[i] = IF i < k THEN s[i] ELSE IF i = k THEN e ELSE s[i - 1]
  BY <1>0, <1>3, <1>4, <1>6
<1> QED
  BY <1>4, <1>5, <1>7

(* The list with an entry put at a place of it.                             *)
PutAt(list, s, k, e) ==
    /\ Len(list) = Len(s) + 1
    /\ \A i \in 1..(Len(s) + 1) :
          list[i] = IF i < k THEN s[i] ELSE IF i = k THEN e ELSE s[i - 1]

LEMMA InsertAtPuts ==
  ASSUME NEW S, NEW s \in Seq(S), NEW e \in S, NEW k \in 1..(Len(s) + 1)
  PROVE  InsertAt(s, k, e) \in Seq(S) /\ PutAt(InsertAt(s, k, e), s, k, e)
BY InsertAtFacts DEF PutAt

LEMMA RemoveAtFacts ==
  ASSUME NEW S, NEW s \in Seq(S), NEW k \in 1..Len(s)
  PROVE  /\ RemoveAt(s, k) \in Seq(S)
         /\ Len(RemoveAt(s, k)) = Len(s) - 1
         /\ \A i \in 1..(Len(s) - 1) :
               RemoveAt(s, k)[i] = IF i < k THEN s[i] ELSE s[i + 1]
<1> DEFINE front == SubSeq(s, 1, k - 1)
           back == SubSeq(s, k + 1, Len(s))
<1>0. Len(s) \in Nat
  OBVIOUS
<1>1. front \in Seq(S) /\ Len(front) = k - 1 /\ \A i \in 1..(k - 1) : front[i] = s[i]
  BY <1>0
<1>2. /\ back \in Seq(S) /\ Len(back) = Len(s) - k
      /\ \A i \in 1..(Len(s) - k) : back[i] = s[i + k]
  BY <1>0
<1> HIDE DEF front, back
<1>3. /\ front \o back \in Seq(S) /\ Len(front \o back) = Len(s) - 1
      /\ \A i \in 1..(Len(s) - 1) :
            (front \o back)[i] = IF i <= k - 1 THEN front[i] ELSE back[i - (k - 1)]
  <2>1. Len(front) + Len(back) = Len(s) - 1
    BY <1>0, <1>1, <1>2
  <2>2. /\ front \o back \in Seq(S) /\ Len(front \o back) = Len(front) + Len(back)
        /\ \A i \in 1..(Len(front) + Len(back)) :
              (front \o back)[i] = IF i <= Len(front) THEN front[i] ELSE back[i - Len(front)]
    BY <1>1, <1>2, ConcatProperties
  <2>3. Len(front) = k - 1
    BY <1>1
  <2> QED
    BY <2>1, <2>2, <2>3
<1>4. RemoveAt(s, k) = front \o back
  BY DEF RemoveAt, front, back
<1>5. ASSUME NEW i \in 1..(Len(s) - 1), i >= k PROVE back[i - (k - 1)] = s[i + 1]
  BY <1>0, <1>2, <1>5
<1>6. ASSUME NEW i \in 1..(Len(s) - 1)
      PROVE (front \o back)[i] = IF i < k THEN s[i] ELSE s[i + 1]
  BY <1>0, <1>1, <1>3, <1>5
<1> QED
  BY <1>3, <1>4, <1>6

(* A list is its front and the rest of it.                                  *)
LEMMA FrontAndRest ==
  ASSUME NEW S, NEW s \in Seq(S), NEW front \in Seq(S), Len(front) <= Len(s),
         \A i \in 1..Len(front) : front[i] = s[i]
  PROVE  front \o SubSeq(s, Len(front) + 1, Len(s)) = s
<1> DEFINE m == Len(front)
           rest == SubSeq(s, m + 1, Len(s))
<1>0. Len(s) \in Nat /\ m \in Nat /\ m <= Len(s)
  OBVIOUS
<1>1. m + 1 \in 1..(Len(s) + 1)
  BY <1>0
<1>2. rest \in Seq(S)
  BY <1>0
<1>3. Len(rest) = Len(s) - m
  BY <1>0
<1>4. \A i \in 1..(Len(s) - m) : rest[i] = s[i + m]
  BY <1>0
<1> HIDE DEF rest, m
<1>5. /\ front \o rest \in Seq(S) /\ Len(front \o rest) = Len(front) + Len(rest)
      /\ \A i \in 1..(Len(front) + Len(rest)) :
            (front \o rest)[i] = IF i <= Len(front) THEN front[i] ELSE rest[i - Len(front)]
  BY <1>2, ConcatProperties
<1>6. Len(front \o rest) = Len(s)
  BY <1>0, <1>3, <1>5 DEF m
<1>7. ASSUME NEW i \in 1..Len(s) PROVE (front \o rest)[i] = s[i]
  <2>1. (front \o rest)[i] = IF i <= m THEN front[i] ELSE rest[i - m]
    BY <1>5, <1>6 DEF m
  <2>2. CASE i <= m
    BY <1>0, <2>1, <2>2 DEF m
  <2>3. CASE ~(i <= m)
    <3>1. i - m \in 1..(Len(s) - m) /\ (i - m) + m = i
      BY <1>0, <2>3
    <3> QED
      BY <1>0, <1>4, <2>1, <2>3, <3>1
  <2> QED
    BY <2>2, <2>3
<1>8. front \o rest = s
  BY <1>5, <1>6, <1>7, SeqEqual
<1> QED
  BY <1>8 DEF rest, m

(* A function on 1..n is a list of n.                                       *)
LEMMA ListOf ==
  ASSUME NEW S, NEW n \in Nat, NEW f, f = [i \in 1..n |-> f[i]], \A i \in 1..n : f[i] \in S
  PROVE  f \in Seq(S) /\ Len(f) = n /\ DOMAIN f = 1..n
<1>1. f \in [1..n -> S]
  BY Zenon
<1> QED
  BY <1>1

LEMMA PlaceOf ==
  ASSUME NEW s, NEW id \in Ids(s)
  PROVE  Place(s, id) \in DOMAIN s /\ s[Place(s, id)].id = id
BY DEF Ids, Place

-----------------------------------------------------------------------------
(* Applying keeps a transcript a transcript                                 *)

StateOf(names) == [ok : BOOLEAN, entries : Seq(EntryOf(names))]

LEMMA WithoutType ==
  ASSUME NEW names, NEW s \in Seq(EntryOf(names)), NEW ids
  PROVE  Without(s, ids) \in Seq(EntryOf(names))
<1>0. Len(s) \in Nat
  OBVIOUS
<1>1. PICK f : /\ f[0] = <<>>
               /\ \A k \in 1..Len(s) :
                     f[k] = IF s[k].id \in ids THEN f[k - 1] ELSE Append(f[k - 1], s[k])
               /\ Without(s, ids) = f[Len(s)]
  BY <1>0, WithoutRuns
<1> DEFINE Good == {k \in Nat : k <= Len(s) => f[k] \in Seq(EntryOf(names))}
<1>2. 0 \in Good
  <2>1. <<>> \in Seq(EntryOf(names))
    OBVIOUS
  <2> QED
    BY <1>1, <2>1
<1>3. ASSUME NEW k \in Good PROVE k + 1 \in Good
  <2>1. SUFFICES ASSUME k + 1 <= Len(s) PROVE f[k + 1] \in Seq(EntryOf(names))
    OBVIOUS
  <2>2. f[k] \in Seq(EntryOf(names)) /\ s[k + 1] \in EntryOf(names)
    BY <1>0, <2>1
  <2>3. k + 1 \in 1..Len(s) /\ (k + 1) - 1 = k
    BY <1>0, <2>1
  <2>4. f[k + 1] \in {f[k], Append(f[k], s[k + 1])}
    BY <1>1, <2>3
  <2>5. Append(f[k], s[k + 1]) \in Seq(EntryOf(names))
    BY <2>2, AppendProperties
  <2> QED
    BY <2>2, <2>4, <2>5
<1>4. Good = Nat
  BY <1>2, <1>3, NatInduct
<1> QED
  BY <1>0, <1>1, <1>4

LEMMA UpsertType ==
  ASSUME NEW names, NEW state \in StateOf(names), NEW u, u.entry \in EntryOf(names)
  PROVE  Upsert(state, u) \in StateOf(names)
<1> DEFINE rest == IF u.entry.id \in Ids(state.entries)
                   THEN RemoveAt(state.entries, Place(state.entries, u.entry.id))
                   ELSE state.entries
<1>0. state.entries \in Seq(EntryOf(names)) /\ state.ok \in BOOLEAN
  BY DEF StateOf
<1>1. rest \in Seq(EntryOf(names))
  BY <1>0, PlaceOf, RemoveAtFacts
<1>2. 1 \in 1..(Len(rest) + 1)
  BY <1>1
<1>3. u.after \in Ids(rest) => Place(rest, u.after) + 1 \in 1..(Len(rest) + 1)
  <2>1. SUFFICES ASSUME u.after \in Ids(rest)
                 PROVE  Place(rest, u.after) + 1 \in 1..(Len(rest) + 1)
    OBVIOUS
  <2>2. Place(rest, u.after) \in 1..Len(rest) /\ Len(rest) \in Nat
    BY <1>1, <2>1, PlaceOf
  <2> QED
    BY <2>2
<1> HIDE DEF rest
<1>4. InsertAt(rest, 1, u.entry) \in Seq(EntryOf(names))
  BY <1>1, <1>2, InsertAtFacts
<1>5. u.after \in Ids(rest) =>
         InsertAt(rest, Place(rest, u.after) + 1, u.entry) \in Seq(EntryOf(names))
  BY <1>1, <1>3, InsertAtFacts
<1>6. Upsert(state, u) =
        IF ~state.ok THEN state
        ELSE IF u.after = NoEntry THEN [state EXCEPT !.entries = InsertAt(rest, 1, u.entry)]
        ELSE IF u.after \in Ids(rest)
             THEN [state EXCEPT !.entries = InsertAt(rest, Place(rest, u.after) + 1, u.entry)]
             ELSE [ok |-> FALSE, entries |-> rest]
  BY Zenon DEF Upsert, rest
<1> QED
  BY <1>0, <1>1, <1>4, <1>5, <1>6 DEF StateOf

(* A longer text is a part still.                                           *)
LEMMA GrownType ==
  ASSUME NEW names, NEW s \in Seq(EntryOf(names)), NEW i \in DOMAIN s,
         NEW j \in DOMAIN s[i].parts, NEW n \in Nat
  PROVE  [s EXCEPT ![i].parts[j].n = n] \in Seq(EntryOf(names))
<1> DEFINE entry == s[i]
           parts == entry.parts
           part == parts[j]
<1>1. entry \in EntryOf(names)
  OBVIOUS
<1>2. parts \in Seq(Part)
  BY <1>1 DEF EntryOf
<1>3. part \in Part
  BY <1>2
<1>4. [part EXCEPT !.n = n] \in Part
  BY <1>3 DEF Part
<1>5. [parts EXCEPT ![j] = [part EXCEPT !.n = n]] \in Seq(Part)
  BY <1>2, <1>4
<1>6. [entry EXCEPT !.parts = [parts EXCEPT ![j] = [part EXCEPT !.n = n]]] \in EntryOf(names)
  BY <1>1, <1>5 DEF EntryOf
<1>7. [s EXCEPT ![i].parts[j].n = n] =
        [s EXCEPT ![i] = [entry EXCEPT !.parts = [parts EXCEPT ![j] = [part EXCEPT !.n = n]]]]
  BY Zenon
<1> DEFINE new == [entry EXCEPT !.parts = [parts EXCEPT ![j] = [part EXCEPT !.n = n]]]
<1>8. new \in EntryOf(names) /\ [s EXCEPT ![i].parts[j].n = n] = [s EXCEPT ![i] = new]
  BY <1>6, <1>7
<1> HIDE DEF new, entry, parts, part
<1>9. PICK E : E = EntryOf(names)
  OBVIOUS
<1>10. s \in Seq(E) /\ new \in E
  BY <1>8, <1>9
<1>11. [s EXCEPT ![i] = new] \in Seq(E)
  BY <1>10
<1> QED
  BY <1>8, <1>9, <1>11

LEMMA AppendTextType ==
  ASSUME NEW names, NEW state \in StateOf(names), NEW a, a.text \in Nat
  PROVE  AppendText(state, a) \in StateOf(names)
<1> DEFINE targets == {i \in DOMAIN state.entries : state.entries[i].id = a.entry}
           i == CHOOSE i \in targets : TRUE
           texts == {j \in DOMAIN state.entries[i].parts :
                       /\ state.entries[i].parts[j].kind = "text"
                       /\ state.entries[i].parts[j].id = a.part}
           first == CHOOSE j \in texts : \A k \in texts : j <= k
           len == state.entries[i].parts[first].n + a.text
           grown == [state.entries EXCEPT ![i].parts[first].n = len]
<1>0. state.entries \in Seq(EntryOf(names)) /\ state.ok \in BOOLEAN
  BY DEF StateOf
<1>1. AppendText(state, a) =
        IF ~state.ok THEN state
        ELSE IF targets = {} \/ texts = {} THEN [state EXCEPT !.ok = FALSE]
        ELSE [ok |-> len = a.len, entries |-> grown]
  BY Zenon DEF AppendText
<1>2. ASSUME targets # {}, texts # {} PROVE grown \in Seq(EntryOf(names))
  <2>1. i \in DOMAIN state.entries
    BY <1>2
  <2> HIDE DEF i
  <2>2. state.entries[i] \in EntryOf(names)
    BY <1>0, <2>1
  <2>3. state.entries[i].parts \in Seq(Part)
    BY <2>2 DEF EntryOf
  <2>4. texts \in SUBSET Nat
    BY <2>3
  <2>5. first \in texts
    <3> HIDE DEF texts
    <3> QED
      BY <1>2, <2>4, LeastOf
  <2>6. first \in DOMAIN state.entries[i].parts
    BY <2>5
  <2> HIDE DEF first
  <2>7. state.entries[i].parts[first] \in Part
    BY <2>3, <2>6
  <2>8. len \in Nat
    BY <2>7 DEF Part
  <2> HIDE DEF len
  <2> QED
    BY <1>0, <2>1, <2>6, <2>8, GrownType
<1>3. (len = a.len) \in BOOLEAN
  OBVIOUS
<1> DEFINE ok == (len = a.len)
<1>4. ok \in BOOLEAN
  BY <1>3
<1>5. AppendText(state, a) =
        IF ~state.ok THEN state
        ELSE IF targets = {} \/ texts = {} THEN [state EXCEPT !.ok = FALSE]
        ELSE [ok |-> ok, entries |-> grown]
  BY <1>1
<1> HIDE DEF targets, texts, ok, grown, i, first
<1>6. [state EXCEPT !.ok = FALSE] \in StateOf(names)
  BY <1>0 DEF StateOf
<1>7. targets # {} /\ texts # {} => [ok |-> ok, entries |-> grown] \in StateOf(names)
  BY <1>2, <1>4 DEF StateOf
<1> QED
  BY <1>5, <1>6, <1>7

(* A frame names places of `next` only.                                     *)
LEMMA DiffType ==
  ASSUME NEW names, NEW old \in Seq(EntryOf(names)), NEW next \in Seq(EntryOf(names))
  PROVE  \/ Diff(old, next) = Reset(next)
         \/ /\ Diff(old, next).kind = "delta"
            /\ DOMAIN Diff(old, next).upsert \subseteq DOMAIN next
            /\ \A i \in DOMAIN Diff(old, next).upsert :
                  Diff(old, next).upsert[i].entry \in EntryOf(names)
            /\ DOMAIN Diff(old, next).append \subseteq DOMAIN next
            /\ \A i \in DOMAIN Diff(old, next).append :
                  Diff(old, next).append[i].text \in Nat
            /\ Diff(old, next).count = Len(next)
<1> DEFINE upsert == [i \in Upserts(old, next) |->
                        [after |-> Before(next, i), entry |-> next[i]]]
           append == [i \in Appends(old, next) |-> TextAppend(Old(old, next, i), next[i])]
           delta == [kind |-> "delta", upsert |-> upsert, append |-> append,
                     remove |-> Ids(old) \ Ids(next), count |-> Len(next)]
<1>1. Diff(old, next) = Reset(next) \/ Diff(old, next) = delta
  BY DEF Diff
<1>2. DOMAIN upsert \subseteq DOMAIN next /\ DOMAIN append \subseteq DOMAIN next
  BY DEF Upserts, Appends
<1>3. \A i \in DOMAIN upsert : upsert[i].entry \in EntryOf(names)
  BY <1>2
<1>4. ASSUME NEW i \in DOMAIN append PROVE append[i].text \in Nat
  <2> DEFINE from == Old(old, next, i)
             to == next[i]
  <2>1. i \in DOMAIN next /\ next[i].id \in Ids(old) /\ Grows(from, to)
    BY DEF Appends, Settled
  <2>2. from \in EntryOf(names) /\ to \in EntryOf(names)
    BY <2>1, PlaceOf DEF Old
  <2>3. append[i] = TextAppend(from, to)
    OBVIOUS
  <2> HIDE DEF from, to, append
  <2> DEFINE j == CHOOSE j \in DOMAIN to.parts : Grown(from, to) = {j}
  <2>4. PICK g \in DOMAIN to.parts : Grown(from, to) = {g} /\ GrowsBy(from, to, g)
    BY <2>1 DEF Grows
  <2>5. j = g
    BY <2>4
  <2>6. TextAppend(from, to).text = to.parts[j].n - from.parts[j].n
    BY DEF TextAppend
  <2> HIDE DEF j
  <2>7. Len(from.parts) = Len(to.parts)
    BY <2>1 DEF Grows
  <2>8. from.parts \in Seq(Part) /\ to.parts \in Seq(Part)
    BY <2>2 DEF EntryOf
  <2>9. from.parts[g] \in Part /\ to.parts[g] \in Part
    BY <2>4, <2>7, <2>8
  <2> QED
    BY <2>3, <2>4, <2>5, <2>6, <2>9 DEF GrowsBy, Part
<1> HIDE DEF upsert, append
<1> QED
  BY <1>1, <1>2, <1>3, <1>4

LEMMA ApplyType ==
  ASSUME NEW names, NEW current \in Seq(EntryOf(names)), NEW old \in Seq(EntryOf(names)),
         NEW next \in Seq(EntryOf(names))
  PROVE  /\ Apply(current, Reset(next)) \in StateOf(names)
         /\ Apply(current, Diff(old, next)) \in StateOf(names)
<1>1. Apply(current, Reset(next)) \in StateOf(names)
  BY DEF Apply, Reset, StateOf
<1>2. Diff(old, next) = Reset(next) => Apply(current, Diff(old, next)) \in StateOf(names)
  BY <1>1
<1> DEFINE frame == Diff(old, next)
           start == [ok |-> TRUE, entries |-> Without(current, frame.remove)]
           middle == Upserted(start, frame)
           end == Appended(middle, frame)
<1>3. ASSUME frame # Reset(next) PROVE Apply(current, frame) \in StateOf(names)
  <2>0. /\ frame.kind = "delta" /\ frame.count \in Nat
        /\ \A i \in DOMAIN frame.upsert : frame.upsert[i].entry \in EntryOf(names)
        /\ \A i \in DOMAIN frame.append : frame.append[i].text \in Nat
    BY <1>3, DiffType
  <2> HIDE DEF frame
  <2>1. start \in StateOf(names)
    BY WithoutType DEF StateOf
  <2>2. middle \in StateOf(names)
    <3>1. PICK f : /\ f[0] = start
                   /\ \A k \in 1..frame.count :
                         f[k] = IF k \in DOMAIN frame.upsert THEN Upsert(f[k - 1], frame.upsert[k])
                                ELSE f[k - 1]
                   /\ middle = f[frame.count]
      BY <2>0, UpsertedRuns
    <3> HIDE DEF start, middle
    <3> DEFINE Good == {k \in Nat : k <= frame.count => f[k] \in StateOf(names)}
    <3>2. 0 \in Good
      BY <2>0, <2>1, <3>1
    <3>3. ASSUME NEW k \in Good PROVE k + 1 \in Good
      <4>1. SUFFICES ASSUME k + 1 <= frame.count PROVE f[k + 1] \in StateOf(names)
        OBVIOUS
      <4>2. f[k] \in StateOf(names)
        BY <2>0, <4>1
      <4>3. k + 1 \in 1..frame.count /\ (k + 1) - 1 = k
        BY <2>0, <4>1
      <4>4. k + 1 \in DOMAIN frame.upsert => Upsert(f[k], frame.upsert[k + 1]) \in StateOf(names)
        BY <2>0, <4>2, UpsertType
      <4> QED
        BY <3>1, <4>2, <4>3, <4>4
    <3>4. Good = Nat
      BY <3>2, <3>3, NatInduct
    <3> QED
      BY <2>0, <3>1, <3>4
  <2>3. end \in StateOf(names)
    <3>1. PICK f : /\ f[0] = middle
                   /\ \A k \in 1..frame.count :
                         f[k] = IF k \in DOMAIN frame.append
                                THEN AppendText(f[k - 1], frame.append[k]) ELSE f[k - 1]
                   /\ end = f[frame.count]
      BY <2>0, AppendedRuns DEF AppendsInTurn
    <3> HIDE DEF middle, end
    <3> DEFINE Good == {k \in Nat : k <= frame.count => f[k] \in StateOf(names)}
    <3>2. 0 \in Good
      BY <2>0, <2>2, <3>1
    <3>3. ASSUME NEW k \in Good PROVE k + 1 \in Good
      <4>1. SUFFICES ASSUME k + 1 <= frame.count PROVE f[k + 1] \in StateOf(names)
        OBVIOUS
      <4>2. f[k] \in StateOf(names)
        BY <2>0, <4>1
      <4>3. k + 1 \in 1..frame.count /\ (k + 1) - 1 = k
        BY <2>0, <4>1
      <4>4. k + 1 \in DOMAIN frame.append =>
              AppendText(f[k], frame.append[k + 1]) \in StateOf(names)
        BY <2>0, <4>2, AppendTextType
      <4> QED
        BY <3>1, <4>2, <4>3, <4>4
    <3>4. Good = Nat
      BY <3>2, <3>3, NatInduct
    <3> QED
      BY <2>0, <3>1, <3>4
  <2>4. Apply(current, frame) = [end EXCEPT !.ok = @ /\ Len(end.entries) = frame.count]
    BY <2>0, Zenon DEF Apply
  <2> HIDE DEF start, middle, end
  <2>5. (end.ok /\ Len(end.entries) = frame.count) \in BOOLEAN
    OBVIOUS
  <2> DEFINE ok == end.ok /\ Len(end.entries) = frame.count
  <2>6. Apply(current, frame) = [end EXCEPT !.ok = ok] /\ ok \in BOOLEAN
    BY <2>4, <2>5
  <2> HIDE DEF ok
  <2> QED
    BY <2>3, <2>6 DEF StateOf
<1> QED
  BY <1>1, <1>2, <1>3

-----------------------------------------------------------------------------
(* What a frame removes                                                     *)

Distinct(entries) == \A i, j \in DOMAIN entries : entries[i].id = entries[j].id => i = j
(* The entries two lists both have stand in the same order in both.         *)
InOrder(entries, of) ==
    \A i, j \in DOMAIN entries, a, b \in DOMAIN of :
        entries[i].id = of[a].id /\ entries[j].id = of[b].id /\ i < j => a < b

(* What is left of a list: the entries not removed, in their order.         *)
Rest(left, s, ids) ==
    /\ \A i \in DOMAIN left : \E p \in DOMAIN s : left[i] = s[p] /\ s[p].id \notin ids
    /\ \A p \in DOMAIN s : s[p].id \notin ids => \E i \in DOMAIN left : left[i] = s[p]
    /\ \A i, j \in DOMAIN left, p, q \in DOMAIN s :
          left[i] = s[p] /\ left[j] = s[q] /\ i < j => p < q

LEMMA WithoutKeeps ==
  ASSUME NEW names, NEW s \in Seq(EntryOf(names)), NEW ids, Distinct(s)
  PROVE  Without(s, ids) \in Seq(EntryOf(names)) /\ Rest(Without(s, ids), s, ids)
<1>0. Len(s) \in Nat
  OBVIOUS
<1>1. PICK f : /\ f[0] = <<>>
               /\ \A k \in 1..Len(s) :
                     f[k] = IF s[k].id \in ids THEN f[k - 1] ELSE Append(f[k - 1], s[k])
               /\ Without(s, ids) = f[Len(s)]
  BY <1>0, WithoutRuns
<1> DEFINE Kept1(k) == \A i \in DOMAIN f[k] : \E p \in 1..k : f[k][i] = s[p] /\ s[p].id \notin ids
           Kept2(k) == \A p \in 1..k : s[p].id \notin ids => \E i \in DOMAIN f[k] : f[k][i] = s[p]
           Kept3(k) == \A i, j \in DOMAIN f[k], p, q \in 1..k :
                          f[k][i] = s[p] /\ f[k][j] = s[q] /\ i < j => p < q
           Good == {k \in Nat : k <= Len(s) => /\ f[k] \in Seq(EntryOf(names))
                                               /\ Kept1(k) /\ Kept2(k) /\ Kept3(k)}
<1>2. 0 \in Good
  <2>1. <<>> \in Seq(EntryOf(names)) /\ DOMAIN <<>> = {}
    OBVIOUS
  <2>2. f[0] = <<>> /\ 1..0 = {}
    BY <1>1
  <2>3. f[0] \in Seq(EntryOf(names)) /\ Kept1(0) /\ Kept2(0) /\ Kept3(0)
    BY <2>1, <2>2
  <2> HIDE DEF Kept1, Kept2, Kept3
  <2> QED
    BY <2>3
<1>3. ASSUME NEW k \in Good PROVE k + 1 \in Good
  <2> DEFINE c == k + 1
  <2>1. SUFFICES ASSUME c <= Len(s)
                 PROVE  /\ f[c] \in Seq(EntryOf(names))
                        /\ Kept1(c) /\ Kept2(c) /\ Kept3(c)
    OBVIOUS
  <2>2. k \in Nat /\ k <= Len(s) /\ c \in 1..Len(s) /\ c - 1 = k
    BY <1>0, <2>1
  <2>3. f[k] \in Seq(EntryOf(names)) /\ Kept1(k) /\ Kept2(k) /\ Kept3(k) /\ s[c] \in EntryOf(names)
    BY <2>2
  <2>4. \A p \in 1..c : p = c \/ p \in 1..k
    BY <2>2
  <2>5. \A p \in 1..k : p \in 1..Len(s) /\ p # c /\ p < c /\ p \in 1..c
    BY <1>0, <2>2
  <2>6. f[c] = IF s[c].id \in ids THEN f[k] ELSE Append(f[k], s[c])
    BY <1>1, <2>2
  <2> DEFINE before == f[k]
             after == f[c]
  <2> HIDE DEF c
  <2>7. CASE s[c].id \in ids
    <3>1. after = before
      BY <2>6, <2>7
    <3>2. Kept1(c)
      BY <2>3, <2>5, <3>1
    <3>3. Kept2(c)
      BY <2>3, <2>4, <2>7, <3>1
    <3>4. \A i \in DOMAIN f[k] : f[k][i].id \notin ids
      BY <2>3, <2>5
    <3>5. Kept3(c)
      BY <2>3, <2>4, <2>7, <3>1, <3>4
    <3> QED
      BY <2>3, <3>1, <3>2, <3>3, <3>5
  <2>8. CASE s[c].id \notin ids
    <3>1. after = Append(before, s[c]) /\ before \in Seq(EntryOf(names))
      BY <2>3, <2>6, <2>8
    <3> HIDE DEF before, after
    <3>2. /\ after \in Seq(EntryOf(names)) /\ Len(before) \in Nat
          /\ DOMAIN after = 1..(Len(before) + 1) /\ DOMAIN before = 1..Len(before)
          /\ \A i \in DOMAIN before : after[i] = before[i]
          /\ after[Len(before) + 1] = s[c]
      BY <2>3, <3>1
    <3>3. \A i \in DOMAIN after : i = Len(before) + 1 \/ i \in DOMAIN before
      BY <3>2
    <3>4. f[c] = after /\ f[k] = before
      BY DEF after, before
    <3>5. Kept1(c)
      <4>1. SUFFICES ASSUME NEW i \in DOMAIN after
                     PROVE  \E p \in 1..c : after[i] = s[p] /\ s[p].id \notin ids
        BY <3>4
      <4>2. CASE i = Len(before) + 1
        <5>1. c \in 1..c
          BY <2>2
        <5> QED
          BY <2>8, <3>2, <4>2, <5>1
      <4>3. CASE i \in DOMAIN before
        <5>1. PICK p \in 1..k : before[i] = s[p] /\ s[p].id \notin ids
          BY <2>3, <3>4, <4>3
        <5> QED
          BY <2>5, <3>2, <4>3, <5>1
      <4> QED
        BY <3>3, <4>2, <4>3
    <3>6. Kept2(c)
      <4>1. SUFFICES ASSUME NEW p \in 1..c, s[p].id \notin ids
                     PROVE  \E i \in DOMAIN after : after[i] = s[p]
        BY <3>4
      <4>2. CASE p = c
        BY <3>2, <4>2
      <4>3. CASE p \in 1..k
        <5>1. PICK i \in DOMAIN before : before[i] = s[p]
          BY <2>3, <3>4, <4>1, <4>3
        <5>2. i \in DOMAIN after
          BY <3>2
        <5> QED
          BY <3>2, <5>1, <5>2
      <4> QED
        BY <2>4, <4>2, <4>3
    <3>7. Kept3(c)
      <4>1. SUFFICES ASSUME NEW i \in DOMAIN after, NEW j \in DOMAIN after,
                            NEW p \in 1..c, NEW q \in 1..c,
                            after[i] = s[p], after[j] = s[q], i < j
                     PROVE  p < q
        BY <3>4
      <4>2. i \in DOMAIN before
        BY <3>2, <4>1
      <4>3. PICK r \in 1..k : before[i] = s[r]
        BY <2>3, <3>4, <4>2
      <4>4. r = p
        <5>1. s[r].id = s[p].id /\ r \in DOMAIN s /\ p \in DOMAIN s
          BY <2>2, <2>4, <2>5, <3>2, <4>1, <4>2, <4>3
        <5> QED
          BY <5>1 DEF Distinct
      <4>5. CASE q = c
        BY <2>5, <4>4, <4>5
      <4>6. CASE q \in 1..k
        <5>1. j \in DOMAIN before
          <6>1. SUFFICES ASSUME j = Len(before) + 1 PROVE FALSE
            BY <3>3
          <6>2. s[q] = s[c] /\ q \in DOMAIN s /\ c \in DOMAIN s /\ q # c
            BY <2>2, <2>5, <3>2, <4>1, <4>6, <6>1
          <6> QED
            BY <6>2 DEF Distinct
        <5>2. before[i] = s[p] /\ before[j] = s[q] /\ p \in 1..k
          BY <3>2, <4>1, <4>2, <4>4, <5>1
        <5>3. \A x, y \in DOMAIN before, u, v \in 1..k :
                 before[x] = s[u] /\ before[y] = s[v] /\ x < y => u < v
          BY <2>3, <3>4
        <5> QED
          BY <4>1, <4>2, <4>6, <5>1, <5>2, <5>3
      <4> QED
        BY <2>4, <4>5, <4>6
    <3> QED
      BY <3>2, <3>4, <3>5, <3>6, <3>7
  <2> QED
    BY <2>7, <2>8
<1>4. Len(s) \in Good
  <2> HIDE DEF Good
  <2>1. Good \in SUBSET Nat
    BY DEF Good
  <2>2. Good = Nat
    BY <1>2, <1>3, <2>1, NatInduct
  <2> QED
    BY <1>0, <2>2
<1>5. /\ f[Len(s)] \in Seq(EntryOf(names)) /\ Kept1(Len(s)) /\ Kept2(Len(s)) /\ Kept3(Len(s))
  BY <1>0, <1>4
<1>6. DOMAIN s = 1..Len(s)
  OBVIOUS
<1>7. Rest(f[Len(s)], s, ids)
  BY <1>5, <1>6 DEF Rest
<1> QED
  BY <1>1, <1>5, <1>7

-----------------------------------------------------------------------------
(* What it upserts                                                          *)

(* Two states of one list that grows and never swaps entries.               *)
Comparable(names, old, next) ==
    /\ old \in Seq(EntryOf(names)) /\ next \in Seq(EntryOf(names))
    /\ Distinct(old) /\ Distinct(next) /\ InOrder(old, next)

(* What the upserts leave at place j.                                       *)
Val(old, next, j) == IF j \in Upserts(old, next) THEN next[j] ELSE Old(old, next, j)

(* The upserts up to place k are done: the first k entries are what they    *)
(* should be, and behind them stand, in the order of `next`, the entries    *)
(* that both lists have and whose turn has not come.                        *)
Walked(list, old, next, k) ==
    /\ k <= Len(list)
    /\ \A j \in 1..k : list[j] = Val(old, next, j)
    /\ \A i \in DOMAIN list : i > k =>
          \E a \in DOMAIN next : /\ a > k /\ next[a].id \in Ids(old)
                                 /\ list[i].id = next[a].id /\ list[i] = Old(old, next, a)
    /\ \A i, j \in DOMAIN list, a, b \in DOMAIN next :
          i > k /\ i < j /\ list[i].id = next[a].id /\ list[j].id = next[b].id => a < b
    /\ \A a \in DOMAIN next : a > k /\ next[a].id \in Ids(old) => next[a].id \in Ids(list)

LEMMA ValName ==
  ASSUME NEW names, NEW old, NEW next, Comparable(names, old, next), NEW j \in DOMAIN next
  PROVE  Val(old, next, j) \in EntryOf(names) /\ Val(old, next, j).id = next[j].id
<1>1. CASE j \in Upserts(old, next)
  BY <1>1 DEF Val, Comparable
<1>2. CASE j \notin Upserts(old, next)
  <2>1. next[j].id \in Ids(old)
    BY <1>2 DEF Upserts, Appends, Settled
  <2> QED
    BY <1>2, <2>1, PlaceOf DEF Val, Old, Comparable
<1> QED
  BY <1>1, <1>2

LEMMA WalkStart ==
  ASSUME NEW names, NEW old, NEW next, Comparable(names, old, next)
  PROVE  /\ Without(old, Ids(old) \ Ids(next)) \in Seq(EntryOf(names))
         /\ Walked(Without(old, Ids(old) \ Ids(next)), old, next, 0)
<1> DEFINE ids == Ids(old) \ Ids(next)
           list == Without(old, ids)
<1>1. list \in Seq(EntryOf(names)) /\ Rest(list, old, ids)
  BY WithoutKeeps DEF Comparable
<1> HIDE DEF list
<1>2. old \in Seq(EntryOf(names)) /\ next \in Seq(EntryOf(names)) /\ Len(list) \in Nat
  BY <1>1 DEF Comparable
<1>3. ASSUME NEW i \in DOMAIN list
      PROVE  \E a \in DOMAIN next : /\ a > 0 /\ next[a].id \in Ids(old)
                                    /\ list[i].id = next[a].id /\ list[i] = Old(old, next, a)
  <2>1. PICK p \in DOMAIN old : list[i] = old[p] /\ old[p].id \notin ids
    BY <1>1 DEF Rest
  <2>2. old[p].id \in Ids(old) /\ old[p].id \in Ids(next)
    BY <2>1 DEF Ids
  <2>3. PICK a \in DOMAIN next : next[a].id = old[p].id
    BY <2>2 DEF Ids
  <2>4. Place(old, next[a].id) = p
    BY <2>2, <2>3, PlaceOf DEF Comparable, Distinct
  <2> QED
    BY <1>2, <2>1, <2>2, <2>3, <2>4 DEF Old
<1>4. ASSUME NEW i \in DOMAIN list, NEW j \in DOMAIN list, NEW a \in DOMAIN next,
             NEW b \in DOMAIN next, i < j, list[i].id = next[a].id, list[j].id = next[b].id
      PROVE  a < b
  <2>1. PICK p \in DOMAIN old : list[i] = old[p]
    BY <1>1 DEF Rest
  <2>2. PICK q \in DOMAIN old : list[j] = old[q]
    BY <1>1 DEF Rest
  <2>3. p < q
    BY <1>1, <1>4, <2>1, <2>2 DEF Rest
  <2> QED
    BY <1>4, <2>1, <2>2, <2>3 DEF Comparable, InOrder
<1>5. ASSUME NEW a \in DOMAIN next, next[a].id \in Ids(old)
      PROVE  next[a].id \in Ids(list)
  <2>1. PICK p \in DOMAIN old : old[p].id = next[a].id
    BY <1>5 DEF Ids
  <2>2. next[a].id \in Ids(next)
    BY DEF Ids
  <2>3. PICK i \in DOMAIN list : list[i] = old[p]
    BY <1>1, <2>1, <2>2 DEF Rest
  <2> QED
    BY <2>1, <2>3 DEF Ids
<1>6. Walked(list, old, next, 0)
  BY <1>2, <1>3, <1>4, <1>5 DEF Walked
<1> QED
  BY <1>1, <1>6 DEF list

(* If the next entry is there at all, it stands at its place.               *)
LEMMA WalkPlace ==
  ASSUME NEW names, NEW old, NEW next, Comparable(names, old, next),
         NEW list \in Seq(EntryOf(names)), NEW k \in Nat, k + 1 \in DOMAIN next,
         Walked(list, old, next, k),
         NEW i \in DOMAIN list, list[i].id = next[k + 1].id
  PROVE  /\ i = k + 1 /\ list[i] = Old(old, next, k + 1)
         /\ next[k + 1].id \in Ids(old)
<1> DEFINE c == k + 1
<1>0. Len(next) \in Nat /\ Len(list) \in Nat /\ c \in DOMAIN next /\ c \in Nat /\ i \in Nat
      /\ DOMAIN next = 1..Len(next) /\ DOMAIN list = 1..Len(list) /\ k < c
  BY DEF Comparable
<1>1. i > k
  <2>1. SUFFICES ASSUME i <= k PROVE FALSE
    BY <1>0
  <2>2. i \in 1..k /\ i \in DOMAIN next /\ i # c
    BY <1>0, <2>1
  <2>3. list[i].id = next[i].id
    BY <2>2, ValName DEF Walked
  <2> QED
    BY <1>0, <2>2, <2>3 DEF Comparable, Distinct
<1>2. PICK a \in DOMAIN next : /\ a > k /\ next[a].id \in Ids(old)
                               /\ list[i].id = next[a].id /\ list[i] = Old(old, next, a)
  BY <1>1 DEF Walked
<1>3. a = c
  BY <1>0, <1>2 DEF Comparable, Distinct
<1>4. i = c
  <2>1. SUFFICES ASSUME i > c PROVE FALSE
    BY <1>0, <1>1
  <2>2. c \in DOMAIN list /\ c > k
    BY <1>0, <2>1
  <2>3. PICK d \in DOMAIN next : d > k /\ list[c].id = next[d].id
    BY <2>2 DEF Walked
  <2>4. d < c
    BY <1>0, <2>1, <2>2, <2>3 DEF Walked
  <2> QED
    BY <1>0, <2>3, <2>4
<1> QED
  BY <1>2, <1>3, <1>4

(* An entry that needs no upsert stands at its place already.               *)
LEMMA WalkPast ==
  ASSUME NEW names, NEW old, NEW next, Comparable(names, old, next),
         NEW list \in Seq(EntryOf(names)), NEW k \in Nat, k + 1 \in DOMAIN next,
         Walked(list, old, next, k), k + 1 \notin Upserts(old, next)
  PROVE  Walked(list, old, next, k + 1)
<1> DEFINE c == k + 1
<1>0. Len(next) \in Nat /\ Len(list) \in Nat /\ c \in DOMAIN next /\ c \in Nat /\ k < c
      /\ DOMAIN next = 1..Len(next) /\ DOMAIN list = 1..Len(list)
      /\ \A j \in 1..c : j \in 1..k \/ j = c
  BY DEF Comparable
<1>1. next[c].id \in Ids(old)
  BY DEF Upserts, Appends, Settled
<1>2. next[c].id \in Ids(list)
  BY <1>0, <1>1 DEF Walked
<1>3. c \in DOMAIN list /\ list[c].id = next[c].id /\ list[c] = Old(old, next, c)
  <2>1. PICK i \in DOMAIN list : list[i].id = next[c].id
    BY <1>2 DEF Ids
  <2> QED
    BY <2>1, WalkPlace
<1>4. Val(old, next, c) = Old(old, next, c)
  BY DEF Val
<1> HIDE DEF c
<1>5. \A j \in 1..c : list[j] = Val(old, next, j)
  BY <1>0, <1>3, <1>4 DEF Walked
<1>6. ASSUME NEW i \in DOMAIN list, i > c
      PROVE  \E a \in DOMAIN next : /\ a > c /\ next[a].id \in Ids(old)
                                    /\ list[i].id = next[a].id /\ list[i] = Old(old, next, a)
  <2>1. i > k
    BY <1>0, <1>6
  <2>2. PICK a \in DOMAIN next : /\ a > k /\ next[a].id \in Ids(old)
                                 /\ list[i].id = next[a].id /\ list[i] = Old(old, next, a)
    BY <2>1 DEF Walked
  <2>3. c < a
    BY <1>0, <1>3, <1>6, <2>2 DEF Walked
  <2> QED
    BY <1>0, <2>2, <2>3
<1>7. \A i \in DOMAIN list : i > c => i > k
  BY <1>0
<1>8. \A a \in DOMAIN next : a > c => a > k
  BY <1>0
<1>9. c <= Len(list)
  BY <1>0, <1>3
<1>10. Walked(list, old, next, c)
  BY <1>5, <1>6, <1>7, <1>8, <1>9 DEF Walked
<1> QED
  BY <1>10 DEF c

(* An entry put at its place, whether it had one before or not.             *)
LEMMA WalkPut ==
  ASSUME NEW names, NEW old, NEW next, Comparable(names, old, next),
         NEW list \in Seq(EntryOf(names)), NEW k \in Nat, k + 1 \in DOMAIN next,
         Walked(list, old, next, k), k + 1 \in Upserts(old, next),
         NEW put \in Seq(EntryOf(names)), put[k + 1] = next[k + 1],
         \A j \in 1..k : put[j] = list[j],
         NEW from, \A i \in DOMAIN put : i > k + 1 =>
                         /\ from[i] \in DOMAIN list /\ from[i] > k
                         /\ put[i] = list[from[i]] /\ list[from[i]].id # next[k + 1].id,
         \A i, j \in DOMAIN put : k + 1 < i /\ i < j => from[i] < from[j],
         k + 1 <= Len(put),
         \A i \in DOMAIN list : list[i].id # next[k + 1].id => list[i].id \in Ids(put)
  PROVE  Walked(put, old, next, k + 1)
<1> DEFINE c == k + 1
<1>0. Len(next) \in Nat /\ Len(list) \in Nat /\ c \in DOMAIN next /\ c \in Nat /\ k < c
      /\ DOMAIN next = 1..Len(next) /\ DOMAIN list = 1..Len(list)
      /\ DOMAIN put = 1..Len(put) /\ Len(put) \in Nat
      /\ \A j \in 1..c : j \in 1..k \/ j = c
  BY DEF Comparable
<1>1. \A j \in 1..c : put[j] = Val(old, next, j)
  BY <1>0 DEF Walked, Val
<1>2. ASSUME NEW i \in DOMAIN put, i > c
      PROVE  \E a \in DOMAIN next : /\ a > c /\ next[a].id \in Ids(old)
                                    /\ put[i].id = next[a].id /\ put[i] = Old(old, next, a)
  <2>1. /\ from[i] \in DOMAIN list /\ from[i] > k
        /\ put[i] = list[from[i]] /\ list[from[i]].id # next[c].id
    BY <1>2
  <2>2. PICK a \in DOMAIN next : /\ a > k /\ next[a].id \in Ids(old)
                                 /\ list[from[i]].id = next[a].id
                                 /\ list[from[i]] = Old(old, next, a)
    BY <2>1 DEF Walked
  <2>3. a > c
    BY <1>0, <2>1, <2>2
  <2> QED
    BY <2>1, <2>2, <2>3
<1>3. ASSUME NEW i \in DOMAIN put, NEW j \in DOMAIN put, NEW a \in DOMAIN next,
             NEW b \in DOMAIN next, i > c, i < j, put[i].id = next[a].id, put[j].id = next[b].id
      PROVE  a < b
  <2>1. j > c
    BY <1>0, <1>3
  <2>2. /\ from[i] \in DOMAIN list /\ from[i] > k /\ put[i] = list[from[i]]
        /\ from[j] \in DOMAIN list /\ put[j] = list[from[j]]
        /\ from[i] < from[j]
    BY <1>3, <2>1
  <2> QED
    BY <1>3, <2>2 DEF Walked
<1>4. ASSUME NEW a \in DOMAIN next, a > c, next[a].id \in Ids(old)
      PROVE  next[a].id \in Ids(put)
  <2>1. a > k /\ a # c
    BY <1>0, <1>4
  <2>2. PICK i \in DOMAIN list : list[i].id = next[a].id
    BY <1>4, <2>1 DEF Walked, Ids
  <2>3. list[i].id # next[c].id
    BY <1>0, <2>1, <2>2 DEF Comparable, Distinct
  <2> QED
    BY <2>2, <2>3
<1> HIDE DEF c
<1>5. c <= Len(put)
  BY DEF c
<1>6. Walked(put, old, next, c)
  BY <1>1, <1>2, <1>3, <1>4, <1>5 DEF Walked
<1> QED
  BY <1>6 DEF c

(* An upsert is not refused, and puts its entry at its place.               *)
LEMMA WalkUpsert ==
  ASSUME NEW names, NEW old, NEW next, Comparable(names, old, next), NoEntry \notin names,
         NEW list \in Seq(EntryOf(names)), NEW k \in Nat, k + 1 \in DOMAIN next,
         Walked(list, old, next, k), k + 1 \in Upserts(old, next)
  PROVE  \E put \in Seq(EntryOf(names)) :
            /\ Upsert([ok |-> TRUE, entries |-> list],
                      [after |-> Before(next, k + 1), entry |-> next[k + 1]])
                 = [ok |-> TRUE, entries |-> put]
            /\ Walked(put, old, next, k + 1)
<1> DEFINE c == k + 1
           entry == next[c]
           state == [ok |-> TRUE, entries |-> list]
           u == [after |-> Before(next, c), entry |-> entry]
           found == entry.id \in Ids(list)
           rest == IF found THEN RemoveAt(list, Place(list, entry.id)) ELSE list
           put == InsertAt(rest, c, entry)
<1>0. /\ Len(next) \in Nat /\ Len(list) \in Nat /\ c \in DOMAIN next /\ c \in Nat
      /\ k < c /\ c # 0 /\ k <= Len(list)
      /\ DOMAIN next = 1..Len(next) /\ DOMAIN list = 1..Len(list)
      /\ entry \in EntryOf(names)
  BY DEF Comparable, Walked
<1>1. ASSUME NEW i \in DOMAIN list, list[i].id = entry.id PROVE i = c
  BY <1>1, WalkPlace
<1>2. found => Place(list, entry.id) = c /\ c \in DOMAIN list
  BY <1>1, PlaceOf
<1>3. /\ rest \in Seq(EntryOf(names)) /\ Len(rest) \in Nat /\ DOMAIN rest = 1..Len(rest)
      /\ found => Len(rest) = Len(list) - 1
      /\ ~found => Len(rest) = Len(list)
  <2>1. found => rest \in Seq(EntryOf(names)) /\ Len(rest) = Len(list) - 1
    BY <1>0, <1>2, RemoveAtFacts
  <2>2. ~found => rest \in Seq(EntryOf(names)) /\ Len(rest) = Len(list)
    OBVIOUS
  <2> HIDE DEF rest, found
  <2> QED
    BY <2>1, <2>2
<1>4. /\ \A i \in DOMAIN rest : i <= k => i \in DOMAIN list /\ rest[i] = list[i]
      /\ \A i \in DOMAIN rest : i > k =>
            LET j == IF found THEN i + 1 ELSE i IN
            j \in DOMAIN list /\ rest[i] = list[j]
  <2>1. DOMAIN rest = 1..Len(rest) /\ Len(rest) \in Nat
    BY <1>3
  <2>2. CASE found
    <3>1. c \in 1..Len(list)
      BY <1>0, <1>2, <2>2
    <3>2. Len(rest) = Len(list) - 1
      BY <1>3, <2>2
    <3>3. \A i \in 1..(Len(list) - 1) : rest[i] = IF i < c THEN list[i] ELSE list[i + 1]
      BY <1>2, <2>2, <3>1, RemoveAtFacts
    <3> HIDE DEF rest, found
    <3> QED
      BY <1>0, <2>1, <2>2, <3>2, <3>3
  <2>3. CASE ~found
    BY <2>3
  <2> QED
    BY <2>2, <2>3
<1>5. k <= Len(rest) /\ c \in 1..(Len(rest) + 1)
  <2>1. found => c <= Len(list)
    BY <1>0, <1>2
  <2> HIDE DEF rest, found
  <2> DEFINE m == Len(rest)
             l == Len(list)
  <2>2. m \in Nat /\ l \in Nat /\ k <= l /\ (found => c <= l)
    BY <1>0, <1>3, <2>1
  <2>3. (found => m = l - 1) /\ (~found => m = l)
    BY <1>3
  <2> HIDE DEF m, l
  <2>4. k <= m
    BY <2>2, <2>3
  <2>5. c \in 1..(m + 1)
    BY <2>2, <2>4
  <2> QED
    BY <2>4, <2>5 DEF m
<1>6. /\ put \in Seq(EntryOf(names)) /\ Len(put) = Len(rest) + 1
      /\ \A i \in 1..(Len(rest) + 1) :
            put[i] = IF i < c THEN rest[i] ELSE IF i = c THEN entry ELSE rest[i - 1]
  <2>1. put = InsertAt(rest, c, entry)
    OBVIOUS
  <2>2. rest \in Seq(EntryOf(names)) /\ entry \in EntryOf(names) /\ c \in 1..(Len(rest) + 1)
    BY <1>0, <1>3, <1>5
  <2> HIDE DEF rest, entry, c, put, found, state, u
  <2>3. PICK E, list0, at, e : E = EntryOf(names) /\ list0 = rest /\ at = c /\ e = entry
    OBVIOUS
  <2>4. list0 \in Seq(E) /\ e \in E /\ at \in 1..(Len(list0) + 1)
    BY <2>2, <2>3
  <2>5. put = InsertAt(list0, at, e)
    BY <2>1, <2>3
  <2>6. put \in Seq(E) /\ PutAt(put, list0, at, e)
    BY <2>4, <2>5, InsertAtPuts
  <2> QED
    BY <2>3, <2>6 DEF PutAt
<1>7. ASSUME NEW i \in DOMAIN rest, i > k
      PROVE  \E a \in DOMAIN next : a > k /\ rest[i].id = next[a].id
  <2> DEFINE j == IF found THEN i + 1 ELSE i
  <2>1. j \in DOMAIN list /\ rest[i] = list[j]
    BY <1>4, <1>7
  <2>2. j > k
    BY <1>3, <1>7
  <2> QED
    BY <2>1, <2>2 DEF Walked
<1>8. Upsert(state, u) = [ok |-> TRUE, entries |-> put]
  <2>1. Upsert(state, u) =
          IF u.after = NoEntry THEN [state EXCEPT !.entries = InsertAt(rest, 1, u.entry)]
          ELSE IF u.after \in Ids(rest)
               THEN [state EXCEPT !.entries = InsertAt(rest, Place(rest, u.after) + 1, u.entry)]
               ELSE [ok |-> FALSE, entries |-> rest]
    BY DEF Upsert
  <2>2. u.after = Before(next, c) /\ u.entry = entry
    OBVIOUS
  <2>3. CASE c = 1
    <3>1. u.after = NoEntry
      BY <2>3 DEF Before
    <3> HIDE DEF u, rest, entry, found
    <3> QED
      BY <2>1, <2>2, <2>3, <3>1
  <2>4. CASE c # 1
    <3>1. k \in DOMAIN next /\ k \in DOMAIN rest /\ k >= 1 /\ u.after = next[k].id
      <4>1. k >= 1 /\ k \in DOMAIN next
        BY <1>0, <2>4
      <4>2. c - 1 = k
        BY <1>0
      <4>3. u.after = next[k].id
        BY <2>4, <4>2 DEF Before
      <4> HIDE DEF rest, u
      <4> QED
        BY <1>3, <1>5, <4>1, <4>3
    <3>2. u.after # NoEntry
      <4>1. next[k] \in EntryOf(names)
        BY <3>1 DEF Comparable
      <4>2. next[k].id \in names
        BY <4>1 DEF EntryOf
      <4> HIDE DEF u
      <4> QED
        BY <3>1, <4>2
    <3>3. \A i \in DOMAIN rest : i <= k => rest[i].id = next[i].id /\ i \in DOMAIN next
      <4>1. SUFFICES ASSUME NEW i \in DOMAIN rest, i <= k
                     PROVE  rest[i].id = next[i].id /\ i \in DOMAIN next
        OBVIOUS
      <4>2. i \in 1..k
        <5>1. DOMAIN rest = 1..Len(rest) /\ Len(rest) \in Nat
          BY <1>3
        <5> HIDE DEF rest
        <5> QED
          BY <4>1, <5>1
      <4>3. rest[i] = list[i]
        BY <1>4, <4>1
      <4>4. list[i] = Val(old, next, i)
        BY <4>2 DEF Walked
      <4>5. i \in DOMAIN next
        BY <1>0, <3>1, <4>2
      <4> HIDE DEF rest
      <4> QED
        BY <4>3, <4>4, <4>5, ValName
    <3>4. rest[k].id = next[k].id
      BY <3>1, <3>3
    <3>5. ASSUME NEW i \in DOMAIN rest, rest[i].id = next[k].id PROVE i = k
      <4>1. CASE i <= k
        BY <3>1, <3>3, <3>5, <4>1 DEF Comparable, Distinct
      <4>2. CASE ~(i <= k)
        <5>1. i > k
          <6>1. i \in Nat
            BY <1>3
          <6> HIDE DEF rest
          <6> QED
            BY <4>2, <6>1
        <5>2. PICK a \in DOMAIN next : a > k /\ rest[i].id = next[a].id
          BY <1>7, <5>1
        <5> HIDE DEF rest
        <5>3. a = k
          BY <3>1, <3>5, <5>2 DEF Comparable, Distinct
        <5> QED
          BY <5>2, <5>3
      <4> QED
        BY <4>1, <4>2
    <3>6. u.after \in Ids(rest)
      BY <3>1, <3>4 DEF Ids
    <3>7. Place(rest, u.after) = k
      <4> HIDE DEF rest, u
      <4> QED
        BY <3>1, <3>5, <3>6, PlaceOf
    <3> HIDE DEF u, rest, entry, found
    <3> QED
      BY <2>1, <2>2, <3>2, <3>6, <3>7
  <2> QED
    BY <2>3, <2>4
<1>9. Walked(put, old, next, c)
  <2> DEFINE from == [i \in DOMAIN put |-> IF found THEN i ELSE i - 1]
  <2>0. DOMAIN put = 1..(Len(rest) + 1) /\ Len(rest) \in Nat
    BY <1>3, <1>6
  <2>1. put[c] = entry /\ c <= Len(put)
    BY <1>0, <1>5, <1>6
  <2>2. \A j \in 1..k : put[j] = list[j]
    <3>1. SUFFICES ASSUME NEW j \in 1..k PROVE put[j] = list[j]
      OBVIOUS
    <3>2. j \in DOMAIN rest /\ j <= k /\ j < c /\ j \in 1..(Len(rest) + 1)
      <4>1. j \in Nat /\ 1 <= j /\ j <= k
        OBVIOUS
      <4>2. j <= Len(rest) /\ j < c
        <5> DEFINE m == Len(rest)
        <5>1. m \in Nat /\ k <= m
          BY <1>3, <1>5
        <5> HIDE DEF m
        <5>2. j <= m
          BY <4>1, <5>1
        <5>3. j < c
          BY <4>1
        <5> QED
          BY <5>2, <5>3 DEF m
      <4> HIDE DEF rest, c
      <4> QED
        BY <1>3, <4>1, <4>2
    <3> HIDE DEF put, rest
    <3> QED
      BY <1>4, <1>6, <3>2
  <2>3. ASSUME NEW i \in DOMAIN put, i > c
        PROVE  /\ from[i] \in DOMAIN list /\ from[i] > k
               /\ put[i] = list[from[i]] /\ list[from[i]].id # entry.id
    <3>1. i - 1 \in DOMAIN rest /\ i - 1 > k /\ put[i] = rest[i - 1]
      <4>1. i \in 1..(Len(rest) + 1) /\ Len(rest) \in Nat
        BY <2>0
      <4>2. i - 1 \in 1..Len(rest) /\ i - 1 > k
        <5> HIDE DEF rest
        <5> QED
          BY <1>0, <2>3, <4>1
      <4>3. put[i] = IF i < c THEN rest[i] ELSE IF i = c THEN entry ELSE rest[i - 1]
        BY <1>6, <4>1
      <4>4. ~(i < c) /\ i # c
        BY <1>0, <2>3, <4>1
      <4> HIDE DEF put, rest
      <4> QED
        BY <1>3, <4>2, <4>3, <4>4
    <3>2. (i - 1) + 1 = i
      <4> HIDE DEF rest, put
      <4> QED
        BY <2>0
    <3>3. from[i] \in DOMAIN list /\ rest[i - 1] = list[from[i]]
      BY <1>4, <3>1, <3>2
    <3>4. from[i] > k /\ (found => from[i] # c)
      BY <1>0, <2>0, <2>3, <3>1
    <3>5. list[from[i]].id # entry.id
      <4>1. list[from[i]].id = entry.id => found /\ from[i] = c
        <5> HIDE DEF from
        <5> QED
          BY <1>1, <3>3 DEF Ids
      <4> QED
        BY <3>4, <4>1
    <3> QED
      BY <3>1, <3>3, <3>4, <3>5
  <2>4. \A i, j \in DOMAIN put : c < i /\ i < j => from[i] < from[j]
    BY <2>0
  <2>5. ASSUME NEW i \in DOMAIN list, list[i].id # entry.id
        PROVE  list[i].id \in Ids(put)
    <3> DEFINE j == IF i <= k \/ found THEN i ELSE i + 1
    <3>1. found => i # c
      BY <1>2, <2>5, PlaceOf
    <3>2. i <= k => put[i] = list[i] /\ i \in DOMAIN put
      <4>1. i <= k => i \in 1..k
        BY <1>0
      <4>2. \A x \in 1..k : x \in DOMAIN put
        <5> HIDE DEF rest, put
        <5> QED
          BY <1>0, <1>5, <2>0
      <4> HIDE DEF put
      <4> QED
        BY <2>2, <4>1, <4>2
    <3>3. ~(i <= k) => j > c /\ j \in DOMAIN put /\ from[j] = i
      <4>1. /\ i \in 1..Len(list) /\ Len(list) \in Nat
            /\ (found => Len(rest) = Len(list) - 1) /\ (~found => Len(rest) = Len(list))
        BY <1>0, <1>3
      <4>2. ~(i <= k) => j > c
        BY <1>0, <3>1
      <4>3. ~(i <= k) => j \in DOMAIN put
        <5>1. ~(i <= k) => j = IF found THEN i ELSE i + 1
          OBVIOUS
        <5> HIDE DEF rest, put, j, found
        <5> QED
          BY <2>0, <4>1, <5>1
      <4>4. ~(i <= k) /\ j \in DOMAIN put => from[j] = i
        BY <1>0
      <4> QED
        BY <4>2, <4>3, <4>4
    <3>4. ~(i <= k) => put[j] = list[i]
      BY <2>3, <3>3
    <3> QED
      BY <3>2, <3>3, <3>4 DEF Ids
  <2> HIDE DEF put, from, found, rest
  <2> QED
    BY <1>0, <1>6, <2>1, <2>2, <2>3, <2>4, <2>5, WalkPut
<1> HIDE DEF put, rest, found
<1> QED
  BY <1>6, <1>8, <1>9

(* Behind the last place stands nothing.                                    *)
LEMMA WalkEnd ==
  ASSUME NEW names, NEW old, NEW next, Comparable(names, old, next),
         NEW list \in Seq(EntryOf(names)), Walked(list, old, next, Len(next))
  PROVE  Len(list) = Len(next) /\ \A j \in DOMAIN next : list[j] = Val(old, next, j)
<1> DEFINE n == Len(next)
           m == Len(list)
<1>1. n \in Nat /\ m \in Nat /\ DOMAIN next = 1..n /\ DOMAIN list = 1..m
  BY DEF Comparable
<1>2. /\ n <= m /\ \A j \in 1..n : list[j] = Val(old, next, j)
      /\ \A i \in DOMAIN list : i > n => \E a \in DOMAIN next : a > n
  BY DEF Walked
<1> HIDE DEF n, m
<1>3. m = n
  <2>1. SUFFICES ASSUME n < m PROVE FALSE
    BY <1>1, <1>2
  <2>2. m \in DOMAIN list /\ m > n
    BY <1>1, <2>1
  <2>3. PICK a \in DOMAIN next : a > n
    BY <1>2, <2>2
  <2> QED
    BY <1>1, <2>3
<1> QED
  BY <1>1, <1>2, <1>3 DEF n, m

(* The frame upserts what diff_transcript says.                             *)
Upserting(frame, old, next) ==
    /\ frame.count = Len(next)
    /\ DOMAIN frame.upsert = Upserts(old, next)
    /\ \A i \in Upserts(old, next) :
          frame.upsert[i] = [after |-> Before(next, i), entry |-> next[i]]

(* The entries a frame upserts, put at their places one after another.      *)
LEMMA WalkAll ==
  ASSUME NEW names, NEW old, NEW next, Comparable(names, old, next), NoEntry \notin names,
         NEW frame, Upserting(frame, old, next),
         NEW start \in Seq(EntryOf(names)), Walked(start, old, next, 0)
  PROVE  \E list \in Seq(EntryOf(names)) :
            /\ Upserted([ok |-> TRUE, entries |-> start], frame) = [ok |-> TRUE, entries |-> list]
            /\ Len(list) = Len(next)
            /\ \A j \in DOMAIN next : list[j] = Val(old, next, j)
<1> DEFINE n == Len(next)
<1>0. n \in Nat /\ DOMAIN next = 1..n /\ frame.count = n
  BY DEF Comparable, Upserting
<1>1. PICK f : /\ f[0] = [ok |-> TRUE, entries |-> start]
               /\ \A k \in 1..frame.count :
                     f[k] = IF k \in DOMAIN frame.upsert THEN Upsert(f[k - 1], frame.upsert[k])
                            ELSE f[k - 1]
               /\ Upserted([ok |-> TRUE, entries |-> start], frame) = f[frame.count]
  <2>1. frame.count \in Nat
    BY <1>0
  <2> QED
    BY <2>1, UpsertedRuns
<1> DEFINE Reach(k) == \E list \in Seq(EntryOf(names)) :
                           f[k] = [ok |-> TRUE, entries |-> list] /\ Walked(list, old, next, k)
           Good == {k \in Nat : k <= n => Reach(k)}
<1>2. 0 \in Good
  <2>1. Reach(0)
    BY <1>1
  <2> HIDE DEF Reach
  <2> QED
    BY <2>1
<1>3. ASSUME NEW k \in Good PROVE k + 1 \in Good
  <2>1. k \in Nat
    OBVIOUS
  <2>2. SUFFICES ASSUME k + 1 <= n
                 PROVE  Reach(k + 1)
    <3> HIDE DEF n, Reach
    <3> QED
      BY <2>1
  <2>3. PICK list \in Seq(EntryOf(names)) :
           f[k] = [ok |-> TRUE, entries |-> list] /\ Walked(list, old, next, k)
    <3>1. Reach(k)
      <4> HIDE DEF n, Reach
      <4> QED
        BY <1>0, <2>1, <2>2
    <3> QED
      BY <3>1
  <2>4. k + 1 \in 1..frame.count /\ k + 1 \in DOMAIN next /\ (k + 1) - 1 = k
    BY <1>0, <2>1, <2>2
  <2>5. f[k + 1] = IF k + 1 \in DOMAIN frame.upsert THEN Upsert(f[k], frame.upsert[k + 1])
                   ELSE f[k]
    BY <1>1, <2>4
  <2>6. CASE k + 1 \in Upserts(old, next)
    <3>1. f[k + 1] = Upsert([ok |-> TRUE, entries |-> list],
                            [after |-> Before(next, k + 1), entry |-> next[k + 1]])
      BY <2>3, <2>5, <2>6 DEF Upserting
    <3> QED
      BY <2>1, <2>3, <2>4, <2>6, <3>1, WalkUpsert
  <2>7. CASE k + 1 \notin Upserts(old, next)
    <3>1. f[k + 1] = f[k]
      BY <2>5, <2>7 DEF Upserting
    <3> QED
      BY <2>1, <2>3, <2>4, <2>7, <3>1, WalkPast
  <2> QED
    BY <2>6, <2>7
<1>4. n \in Good
  <2> HIDE DEF Good
  <2>1. Good \in SUBSET Nat
    BY DEF Good
  <2>2. Good = Nat
    BY <1>2, <1>3, <2>1, NatInduct
  <2> QED
    BY <1>0, <2>2
<1>5. PICK list \in Seq(EntryOf(names)) :
         f[n] = [ok |-> TRUE, entries |-> list] /\ Walked(list, old, next, n)
  <2>1. Reach(n)
    <3> HIDE DEF n, Reach
    <3> QED
      BY <1>0, <1>4
  <2> QED
    BY <2>1
<1>6. Len(list) = Len(next) /\ \A j \in DOMAIN next : list[j] = Val(old, next, j)
  BY <1>5, WalkEnd
<1> QED
  BY <1>0, <1>1, <1>5, <1>6

-----------------------------------------------------------------------------
(* What it appends                                                          *)

(* The parts of an entry have names of their own.                           *)
PartsApart(entries) ==
    \A i \in DOMAIN entries : \A j, k \in DOMAIN entries[i].parts :
        entries[i].parts[j].id = entries[i].parts[k].id => j = k

Put(entries, place, entry) == [entries EXCEPT ![place] = entry]
Longer(entries, place, part, n) == [entries EXCEPT ![place].parts[part].n = n]

(* Part j of entry c is the one text that append `a` can mean.              *)
AppendsAt(list, a, c, j) ==
    /\ c \in DOMAIN list /\ j \in Nat /\ j \in DOMAIN list[c].parts
    /\ \A i \in DOMAIN list : list[i].id = a.entry <=> i = c
    /\ \A k \in DOMAIN list[c].parts :
          (list[c].parts[k].kind = "text" /\ list[c].parts[k].id = a.part) <=> k = j

LEMMA AppendRun ==
  ASSUME NEW list, NEW a, NEW c, NEW j, AppendsAt(list, a, c, j)
  PROVE  AppendText([ok |-> TRUE, entries |-> list], a)
           = [ok |-> list[c].parts[j].n + a.text = a.len,
              entries |-> Longer(list, c, j, list[c].parts[j].n + a.text)]
<1> DEFINE state == [ok |-> TRUE, entries |-> list]
<1>1. state.ok /\ state.entries = list
  OBVIOUS
<1> HIDE DEF state
<1> DEFINE targets == {i \in DOMAIN state.entries : state.entries[i].id = a.entry}
           i == CHOOSE i \in targets : TRUE
           texts == {k \in DOMAIN state.entries[i].parts :
                        /\ state.entries[i].parts[k].kind = "text"
                        /\ state.entries[i].parts[k].id = a.part}
           first == CHOOSE k \in texts : \A x \in texts : k <= x
           len == state.entries[i].parts[first].n + a.text
<1>2. AppendText(state, a) =
         IF ~state.ok THEN state
         ELSE IF targets = {} \/ texts = {} THEN [state EXCEPT !.ok = FALSE]
         ELSE [ok |-> len = a.len, entries |-> [state.entries EXCEPT ![i].parts[first].n = len]]
  BY Zenon DEF AppendText
<1>3. targets = {c}
  BY <1>1 DEF AppendsAt
<1> HIDE DEF targets
<1>4. i = c
  BY <1>3
<1> HIDE DEF i
<1>5. texts = {j}
  BY <1>1, <1>4 DEF AppendsAt
<1> HIDE DEF texts
<1>6. first = j
  BY <1>5 DEF AppendsAt
<1> HIDE DEF first
<1>7. AppendText(state, a) =
         [ok |-> len = a.len, entries |-> Longer(list, c, j, len)]
  <2> HIDE DEF len
  <2> QED
    BY <1>1, <1>2, <1>3, <1>4, <1>5, <1>6 DEF Longer
<1>8. len = list[c].parts[j].n + a.text
  BY <1>1, <1>4, <1>6
<1> HIDE DEF len
<1> QED
  BY <1>7, <1>8 DEF state

(* A text append turns the old entry into the new one.                      *)
LEMMA AppendOne ==
  ASSUME NEW names, NEW old, NEW next, Comparable(names, old, next), PartsApart(next),
         NEW c \in Appends(old, next),
         NEW list \in Seq(EntryOf(names)), Len(list) = Len(next),
         \A j \in DOMAIN next : list[j].id = next[j].id,
         list[c] = Old(old, next, c)
  PROVE  AppendText([ok |-> TRUE, entries |-> list], TextAppend(Old(old, next, c), next[c]))
           = [ok |-> TRUE, entries |-> Put(list, c, next[c])]
<1> DEFINE was == Old(old, next, c)
           now == next[c]
           j == CHOOSE j \in DOMAIN now.parts : Grown(was, now) = {j}
           a == TextAppend(was, now)
           state == [ok |-> TRUE, entries |-> list]
<1>0. /\ c \in DOMAIN next /\ c \in DOMAIN list /\ DOMAIN list = DOMAIN next
      /\ was = list[c] /\ was \in EntryOf(names) /\ now \in EntryOf(names)
      /\ was.id = now.id /\ Grows(was, now)
  BY DEF Appends, Comparable
<1>1. /\ was.status = now.status /\ Len(was.parts) = Len(now.parts)
      /\ was.parts \in Seq(Part) /\ now.parts \in Seq(Part)
      /\ DOMAIN was.parts = DOMAIN now.parts
  BY <1>0 DEF Grows, EntryOf
<1>2. j \in DOMAIN now.parts /\ Grown(was, now) = {j} /\ GrowsBy(was, now, j)
  <2>1. PICK g \in DOMAIN now.parts : Grown(was, now) = {g} /\ GrowsBy(was, now, g)
    BY <1>0 DEF Grows
  <2> HIDE DEF was, now
  <2>2. j = g
    BY <2>1
  <2> QED
    BY <2>1, <2>2
<1>3. a = [entry |-> now.id, part |-> now.parts[j].id,
           text |-> now.parts[j].n - was.parts[j].n, len |-> now.parts[j].n]
  BY DEF TextAppend
<1> HIDE DEF was, now, j, a
<1>4. /\ was.parts[j] \in Part /\ now.parts[j] \in Part
      /\ was.parts[j].kind = "text" /\ now.parts[j].kind = "text"
      /\ was.parts[j].id = now.parts[j].id /\ was.parts[j].n <= now.parts[j].n
      /\ was.parts[j].n \in Nat /\ now.parts[j].n \in Nat
      /\ \A k \in DOMAIN now.parts : k # j => was.parts[k] = now.parts[k]
  <2>1. was.parts[j] \in Part /\ now.parts[j] \in Part
    BY <1>1, <1>2
  <2>2. was.parts[j].n \in Nat /\ now.parts[j].n \in Nat
    BY <2>1 DEF Part
  <2> QED
    BY <1>2, <2>1, <2>2 DEF GrowsBy, Grown
<1> DEFINE len == list[c].parts[j].n + a.text
<1>5. \A i \in DOMAIN list : list[i].id = a.entry <=> i = c
  <2>1. a.entry = now.id
    BY <1>3
  <2>2. ASSUME NEW i \in DOMAIN list, list[i].id = now.id PROVE i = c
    BY <1>0, <2>2 DEF Comparable, Distinct, now
  <2> QED
    BY <1>0, <2>1, <2>2
<1>6. \A k \in DOMAIN list[c].parts :
         (list[c].parts[k].kind = "text" /\ list[c].parts[k].id = a.part) <=> k = j
  <2>1. a.part = now.parts[j].id
    BY <1>3
  <2>2. ASSUME NEW k \in DOMAIN was.parts, was.parts[k].id = now.parts[j].id PROVE k = j
    <3>1. was.parts[k].id = now.parts[k].id
      BY <1>1, <1>4
    <3> QED
      BY <1>0, <1>1, <1>2, <2>2, <3>1 DEF PartsApart, now
  <2> QED
    BY <1>0, <1>1, <1>2, <1>4, <2>1, <2>2
<1>8. AppendText(state, a) =
         [ok |-> len = a.len, entries |-> Longer(list, c, j, len)]
  <2>1. j \in Nat /\ j \in DOMAIN list[c].parts /\ c \in DOMAIN list
    BY <1>0, <1>1, <1>2
  <2>2. AppendsAt(list, a, c, j)
    BY <1>5, <1>6, <2>1 DEF AppendsAt
  <2> QED
    BY <2>2, AppendRun
<1>9. len = now.parts[j].n /\ a.len = now.parts[j].n
  BY <1>0, <1>3, <1>4
<1>10. Longer(list, c, j, len) = Put(list, c, now)
  <2> DEFINE parts == [was.parts EXCEPT ![j] = [was.parts[j] EXCEPT !.n = len]]
  <2>1. Longer(list, c, j, len) = Put(list, c, [was EXCEPT !.parts = parts])
    BY <1>0 DEF Longer, Put
  <2>2. [was.parts[j] EXCEPT !.n = len] = now.parts[j]
    BY <1>4, <1>9 DEF Part
  <2>3. /\ DOMAIN parts = DOMAIN now.parts /\ parts \in Seq(Part)
        /\ \A k \in DOMAIN now.parts : parts[k] = now.parts[k]
    <3>1. [was.parts[j] EXCEPT !.n = len] \in Part
      BY <1>4, <2>2
    <3> QED
      BY <1>1, <1>2, <1>4, <2>2, <3>1
  <2>4. parts = now.parts
    <3> HIDE DEF parts
    <3> QED
      BY <1>1, <2>3
  <2>5. [was EXCEPT !.parts = parts] = now
    <3> HIDE DEF parts
    <3> QED
      BY <1>0, <1>1, <2>4 DEF EntryOf
  <2> QED
    BY <2>1, <2>5
<1>11. AppendText(state, a) = [ok |-> TRUE, entries |-> Put(list, c, now)]
  BY <1>8, <1>9, <1>10
<1> QED
  BY <1>11 DEF was, now, a

(* The appends, one after another.                                          *)
LEMMA AppendAll ==
  ASSUME NEW names, NEW old, NEW next, Comparable(names, old, next), PartsApart(next),
         NEW frame, frame.count = Len(next),
         frame.append = [i \in Appends(old, next) |-> TextAppend(Old(old, next, i), next[i])],
         NEW start \in Seq(EntryOf(names)), Len(start) = Len(next),
         \A j \in DOMAIN next : start[j] = Val(old, next, j)
  PROVE  Appended([ok |-> TRUE, entries |-> start], frame) = [ok |-> TRUE, entries |-> next]
<1> DEFINE n == Len(next)
           At(list, k) == \A j \in DOMAIN next : list[j] = IF j <= k THEN next[j] ELSE start[j]
<1>0. n \in Nat /\ DOMAIN next = 1..n /\ frame.count \in Nat /\ next \in Seq(EntryOf(names))
  BY DEF Comparable
<1>01. PICK state : state = [ok |-> TRUE, entries |-> start]
  OBVIOUS
<1>02. PICK f : AppendsInTurn(state, frame, f)
  BY <1>0, AppendedRuns
<1>1. /\ f[0] = [ok |-> TRUE, entries |-> start]
      /\ \A k \in 1..frame.count :
            f[k] = IF k \in DOMAIN frame.append THEN AppendText(f[k - 1], frame.append[k])
                   ELSE f[k - 1]
      /\ Appended([ok |-> TRUE, entries |-> start], frame) = f[frame.count]
  BY <1>01, <1>02 DEF AppendsInTurn
<1> DEFINE Good == {k \in Nat : k <= n => \E list \in Seq(EntryOf(names)) :
                        /\ f[k] = [ok |-> TRUE, entries |-> list]
                        /\ Len(list) = n /\ At(list, k)}
<1>2. 0 \in Good
  <2>1. At(start, 0)
    BY <1>0
  <2> QED
    BY <1>1, <2>1
<1>3. ASSUME NEW k \in Good PROVE k + 1 \in Good
  <2> DEFINE c == k + 1
  <2>1. k \in Nat /\ c \in Nat /\ c - 1 = k
    OBVIOUS
  <2>2. SUFFICES ASSUME c <= n
                 PROVE  \E list \in Seq(EntryOf(names)) :
                           /\ f[c] = [ok |-> TRUE, entries |-> list]
                           /\ Len(list) = n /\ At(list, c)
    BY <2>1
  <2>3. PICK list \in Seq(EntryOf(names)) :
           f[k] = [ok |-> TRUE, entries |-> list] /\ Len(list) = n /\ At(list, k)
    <3>1. k <= n
      BY <1>0, <2>1, <2>2
    <3> HIDE DEF At, n
    <3> QED
      BY <3>1
  <2>4. c \in 1..frame.count /\ c \in DOMAIN next /\ ~(c <= k)
    BY <1>0, <2>1, <2>2
  <2>5. f[c] = IF c \in DOMAIN frame.append THEN AppendText(f[k], frame.append[c]) ELSE f[k]
    BY <1>1, <2>1, <2>4
  <2>6. list[c] = Val(old, next, c)
    BY <2>3, <2>4
  <2>7. \A j \in DOMAIN next : list[j].id = next[j].id
    BY <2>3, ValName
  <2>8. \A j \in DOMAIN next : j <= c <=> (j <= k \/ j = c)
    BY <1>0, <2>1
  <2> HIDE DEF c
  <2>9. CASE c \in Appends(old, next)
    <3> DEFINE put == Put(list, c, next[c])
    <3>1. c \notin Upserts(old, next)
      BY <2>9 DEF Upserts
    <3>2. list[c] = Old(old, next, c)
      BY <2>6, <3>1 DEF Val
    <3>3. f[c] = AppendText([ok |-> TRUE, entries |-> list], TextAppend(Old(old, next, c), next[c]))
      BY <2>3, <2>5, <2>9
    <3>4. f[c] = [ok |-> TRUE, entries |-> put]
      <4>1. Len(list) = Len(next)
        BY <2>3
      <4>2. AppendText([ok |-> TRUE, entries |-> list], TextAppend(Old(old, next, c), next[c]))
              = [ok |-> TRUE, entries |-> put]
        BY <2>7, <2>9, <3>2, <4>1, AppendOne
      <4> QED
        BY <3>3, <4>2
    <3>5. DOMAIN list = DOMAIN next /\ next[c] \in EntryOf(names)
      BY <1>0, <2>3, <2>4
    <3>6. put \in Seq(EntryOf(names)) /\ Len(put) = n
      BY <2>3, <2>4, <3>5 DEF Put
    <3>7. At(put, c)
      BY <2>3, <2>4, <2>8, <3>5 DEF Put
    <3> QED
      BY <3>4, <3>6, <3>7
  <2>10. CASE c \notin Appends(old, next)
    <3>1. f[c] = f[k]
      BY <2>5, <2>10
    <3>2. Val(old, next, c) = next[c]
      BY <2>4, <2>10 DEF Val, Upserts
    <3>3. At(list, c)
      BY <2>3, <2>6, <2>8, <3>2
    <3> QED
      BY <2>3, <3>1, <3>3
  <2> QED
    BY <2>9, <2>10
<1>4. n \in Good
  <2> HIDE DEF Good
  <2>1. Good \in SUBSET Nat
    BY DEF Good
  <2>2. Good = Nat
    BY <1>2, <1>3, <2>1, NatInduct
  <2> QED
    BY <1>0, <2>2
<1>5. PICK list \in Seq(EntryOf(names)) :
         f[n] = [ok |-> TRUE, entries |-> list] /\ Len(list) = n /\ At(list, n)
  <2>1. n <= n
    BY <1>0
  <2> HIDE DEF At, n
  <2> QED
    BY <1>4, <2>1
<1>6. list = next
  BY <1>0, <1>5
<1> QED
  BY <1>1, <1>5, <1>6

-----------------------------------------------------------------------------
(* The whole frame                                                          *)

(* What a consumer of one state of a transcript makes of the frame from     *)
(* there to a later one is the later one, and nothing is refused            *)
(* (transcript_delta.rs:112-248).                                           *)
THEOREM RoundTrip ==
  ASSUME NEW names, NEW old, NEW next, Comparable(names, old, next), PartsApart(next),
         NoEntry \notin names
  PROVE  Apply(old, Diff(old, next)) = [ok |-> TRUE, entries |-> next]
<1> DEFINE frame == Diff(old, next)
           kept == [ok |-> TRUE, entries |-> Without(old, frame.remove)]
<1>1. CASE frame.kind = "reset"
  <2>1. frame = Reset(next)
    BY <1>1 DEF Diff
  <2> QED
    BY <2>1 DEF Apply, Reset
<1>2. CASE frame.kind # "reset"
  <2>1. frame = [kind |-> "delta",
                 upsert |-> [i \in Upserts(old, next) |->
                                [after |-> Before(next, i), entry |-> next[i]]],
                 append |-> [i \in Appends(old, next) |->
                                TextAppend(Old(old, next, i), next[i])],
                 remove |-> Ids(old) \ Ids(next),
                 count |-> Len(next)]
    BY <1>2 DEF Diff, Reset
  <2> DEFINE start == Without(old, frame.remove)
  <2> HIDE DEF frame
  <2>6. /\ Upserting(frame, old, next)
        /\ frame.append = [i \in Appends(old, next) |->
                                TextAppend(Old(old, next, i), next[i])]
        /\ frame.remove = Ids(old) \ Ids(next) /\ frame.count = Len(next)
    BY <2>1 DEF Upserting
  <2>2. /\ Without(old, frame.remove) \in Seq(EntryOf(names))
        /\ Walked(Without(old, frame.remove), old, next, 0)
    BY <2>6, WalkStart
  <2>3. PICK list \in Seq(EntryOf(names)) :
            /\ Upserted(kept, frame) = [ok |-> TRUE, entries |-> list]
            /\ Len(list) = Len(next)
            /\ \A j \in DOMAIN next : list[j] = Val(old, next, j)
    <3>1. start \in Seq(EntryOf(names)) /\ Walked(start, old, next, 0)
      BY <2>2
    <3>2. kept = [ok |-> TRUE, entries |-> start]
      OBVIOUS
    <3>3. Upserting(frame, old, next)
      BY <2>6
    <3> HIDE DEF start, kept
    <3>4. \E list \in Seq(EntryOf(names)) :
             /\ Upserted([ok |-> TRUE, entries |-> start], frame) = [ok |-> TRUE, entries |-> list]
             /\ Len(list) = Len(next)
             /\ \A j \in DOMAIN next : list[j] = Val(old, next, j)
      BY <3>1, <3>3, WalkAll
    <3> QED
      BY <3>2, <3>4
  <2>4. Appended(Upserted(kept, frame), frame) = [ok |-> TRUE, entries |-> next]
    <3> HIDE DEF start, kept
    <3>1. Appended([ok |-> TRUE, entries |-> list], frame) = [ok |-> TRUE, entries |-> next]
      <4>1. frame.count = Len(next) /\ Len(list) = Len(next)
        BY <2>3, <2>6
      <4>2. \A j \in DOMAIN next : list[j] = Val(old, next, j)
        BY <2>3
      <4>3. frame.append = [i \in Appends(old, next) |->
                                TextAppend(Old(old, next, i), next[i])]
        BY <2>6
      <4> QED
        BY <4>1, <4>2, <4>3, AppendAll
    <3> QED
      BY <2>3, <3>1
  <2>5. Apply(old, frame) = [[ok |-> TRUE, entries |-> next] EXCEPT
                                !.ok = @ /\ Len(next) = frame.count]
    <3> DEFINE applied == Appended(Upserted(kept, frame), frame)
    <3>1. Apply(old, frame) = [applied EXCEPT !.ok = @ /\ Len(applied.entries) = frame.count]
      BY <1>2, Zenon DEF Apply
    <3>2. applied = [ok |-> TRUE, entries |-> next]
      BY <2>4
    <3> HIDE DEF applied
    <3> QED
      BY <3>1, <3>2
  <2>7. Apply(old, frame) = [ok |-> TRUE, entries |-> next]
    BY <2>5, <2>6
  <2> QED
    BY <2>7 DEF frame
<1> QED
  BY <1>1, <1>2

(* No frame is sent only where there is nothing to bring.                   *)
LEMMA EmptySame ==
  ASSUME NEW names, NEW old, NEW next, Comparable(names, old, next),
         EmptyDelta(Diff(old, next))
  PROVE  old = next
<1> DEFINE n == Len(next)
<1>0. n \in Nat /\ DOMAIN next = 1..n /\ old \in Seq(EntryOf(names)) /\ next \in Seq(EntryOf(names))
  BY DEF Comparable
<1>1. Upserts(old, next) = {} /\ Appends(old, next) = {} /\ Ids(old) \subseteq Ids(next)
  BY DEF EmptyDelta, Diff, Reset
<1>2. ASSUME NEW i \in DOMAIN next
      PROVE  next[i].id \in Ids(old) /\ Old(old, next, i) = next[i]
  BY <1>1 DEF Upserts, Settled
<1>3. Walked(old, old, next, 0)
  <2>1. ASSUME NEW i \in DOMAIN old
        PROVE  \E a \in DOMAIN next : /\ a > 0 /\ next[a].id \in Ids(old)
                                      /\ old[i].id = next[a].id /\ old[i] = Old(old, next, a)
    <3>1. old[i].id \in Ids(old)
      BY DEF Ids
    <3>2. PICK a \in DOMAIN next : next[a].id = old[i].id
      BY <1>1, <3>1 DEF Ids
    <3>3. Place(old, next[a].id) = i
      BY <3>1, <3>2, PlaceOf DEF Comparable, Distinct
    <3> QED
      BY <1>0, <3>1, <3>2, <3>3 DEF Old
  <2>2. \A i, j \in DOMAIN old, a, b \in DOMAIN next :
            i < j /\ old[i].id = next[a].id /\ old[j].id = next[b].id => a < b
    BY DEF Comparable, InOrder
  <2>3. 0 <= Len(old)
    BY <1>0
  <2> QED
    BY <2>1, <2>2, <2>3 DEF Walked
<1> DEFINE Good == {k \in Nat : k <= n => Walked(old, old, next, k)}
<1>4. 0 \in Good
  BY <1>3
<1>5. ASSUME NEW k \in Good PROVE k + 1 \in Good
  <2>1. SUFFICES ASSUME k + 1 <= n PROVE Walked(old, old, next, k + 1)
    OBVIOUS
  <2>2. k \in Nat /\ Walked(old, old, next, k) /\ k + 1 \in DOMAIN next
    BY <1>0, <2>1
  <2> QED
    BY <1>0, <1>1, <2>2, WalkPast
<1>6. n \in Good
  <2> HIDE DEF Good
  <2>1. Good \in SUBSET Nat
    BY DEF Good
  <2>2. Good = Nat
    BY <1>4, <1>5, <2>1, NatInduct
  <2> QED
    BY <1>0, <2>2
<1>7. Len(old) = n /\ \A j \in DOMAIN next : old[j] = Val(old, next, j)
  BY <1>0, <1>6, WalkEnd
<1>8. \A j \in DOMAIN next : old[j] = next[j]
  BY <1>1, <1>2, <1>7 DEF Val
<1> QED
  BY <1>0, <1>7, <1>8
=============================================================================
