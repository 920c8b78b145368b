----------------------------- MODULE RateProofs -----------------------------
(***************************************************************************)
(* Theorems about RateLimiter, for any requests, keys and limits.          *)
(***************************************************************************)
EXTENDS RateLimiter, Integers, TLAPS

\* What a bucket holds when full, gains in d ticks, and pays for n passes.
Cap(k) == Burst[k] * Scale
Gain(k, d) == Rps[k] * d
Cost(n) == n * Scale

\* Of a bucket with x units at time t that let pass at the times l: what passed
\* in a stretch up to t, and what is left, is covered by the limits ...
Below(k, l, x, t) ==
    \A i \in 1 .. Len(l) :
        l[i] <= t /\ Cost((Len(l) - i) + 1) + x <= Cap(k) + Gain(k, t - l[i])

\* ... and the bucket is full, or some stretch leaves no more than x.
Tight(k, l, x, t) ==
    \/ x >= Cap(k)
    \/ \E i \in 1 .. Len(l) : x + Cost((Len(l) - i) + 1) >= Cap(k) + Gain(k, t - l[i])

\* The key has a bucket that stays.
Live(k) == buckets[k] # None /\ k \notin doomed

\* The bucket in the map keeps the account of its key; a key without one, or
\* with one that is about to be deleted, would do with a full bucket.
Account(k) ==
    IF Live(k)
    THEN /\ Below(k, log[k], heap[buckets[k]].tokens, heap[buckets[k]].lastFill)
         /\ Tight(k, log[k], heap[buckets[k]].tokens, heap[buckets[k]].lastFill)
    ELSE Below(k, log[k], Cap(k), now)

FiledInv ==
    /\ OneBucketPerKey
    /\ \A k \in Keys : buckets[k] # None => buckets[k][2] = k
    /\ \A k \in Keys : Live(k) => heap[buckets[k]].filed
    /\ \A b \in Names : heap[b].filed => b[2] \notin doomed

\* Requests on their way have a key to pass and, at a bucket, hold one.
Ready ==
    \A r \in Requests :
        /\ pc[r] \in {"lookup", "create", "allow"} => rest[r] # <<>>
        /\ pc[r] = "allow" => held[r] # None

RateInv == FiledInv /\ Ready /\ (\A k \in Keys : Account(k)) /\ WithinRate

-----------------------------------------------------------------------------
\* Products: types, distributivity and monotonicity.
LEMMA TimesTypes == \A a, b \in Nat : a * b \in Nat
  OBVIOUS

LEMMA TimesInt == \A a, b \in Int : a * b \in Int
  OBVIOUS

LEMMA TimesPlus == \A a, b, c \in Int : a * (b + c) = a * b + a * c
  OBVIOUS

LEMMA LimitTypes ==
    ASSUME NEW k \in Keys
    PROVE  /\ Rps[k] \in Nat /\ Burst[k] \in Nat /\ Cap(k) \in Nat
           /\ Scale \in Nat \ {0} /\ IdleEvict \in Nat
  <1>1. /\ Rps[k] \in Nat /\ Burst[k] \in Nat
        /\ Scale \in Nat \ {0} /\ IdleEvict \in Nat
    BY RateAssumption
  <1>2. Burst[k] * Scale \in Nat
    BY <1>1, TimesTypes
  <1> QED
    BY <1>1, <1>2 DEF Cap

LEMMA GainTypes ==
    ASSUME NEW k \in Keys
    PROVE  /\ \A d \in Nat : Gain(k, d) \in Nat
           /\ \A d \in Int : Gain(k, d) \in Int
           /\ \A d, e \in Int : Gain(k, d + e) = Gain(k, d) + Gain(k, e)
           /\ Gain(k, 0) = 0
  <1>1. Rps[k] \in Nat
    BY LimitTypes
  <1>2. \A d \in Nat : Rps[k] * d \in Nat
    BY <1>1, TimesTypes
  <1>3. \A d \in Int : Rps[k] * d \in Int
    BY <1>1, TimesInt
  <1>4. \A d, e \in Int : Rps[k] * (d + e) = Rps[k] * d + Rps[k] * e
    BY <1>1, TimesPlus
  <1>5. Rps[k] * 0 = 0
    BY <1>1
  <1> QED
    BY <1>2, <1>3, <1>4, <1>5 DEF Gain

LEMMA CostTypes ==
    /\ \A n \in Nat : Cost(n) \in Nat /\ Cost(n + 1) = Cost(n) + Scale
    /\ Cost(1) = Scale
  <1>1. Scale \in Nat
    BY RateAssumption
  <1>2. ASSUME NEW n \in Nat PROVE n * Scale \in Nat /\ (n + 1) * Scale = n * Scale + Scale
    BY <1>1, TimesTypes
  <1>3. 1 * Scale = Scale
    BY <1>1
  <1> QED
    BY <1>2, <1>3 DEF Cost

LEMMA ElementFacts ==
    ASSUME NEW S, NEW q \in Seq(S)
    PROVE  Len(q) \in Nat /\ \A i \in 1 .. Len(q) : q[i] \in S
  OBVIOUS

LEMMA AppendFacts ==
    ASSUME NEW S, NEW q \in Seq(S), NEW x \in S
    PROVE  /\ Append(q, x) \in Seq(S) /\ Len(Append(q, x)) = Len(q) + 1
           /\ Append(q, x)[Len(q) + 1] = x
           /\ \A i \in 1 .. Len(q) : Append(q, x)[i] = q[i]
  OBVIOUS

\* Stretches of a log: their number of passes and their beginning.
LEMMA StretchTypes ==
    ASSUME NEW l \in Seq(Nat), NEW i \in 1 .. Len(l)
    PROVE  /\ l[i] \in Nat /\ (Len(l) - i) + 1 \in Nat
           /\ Cost((Len(l) - i) + 1) \in Nat
           /\ Cost(((Len(l) + 1) - i) + 1) = Cost((Len(l) - i) + 1) + Scale
  <1>1. l[i] \in Nat /\ Len(l) \in Nat
    BY ElementFacts
  <1>2. (Len(l) - i) + 1 \in Nat /\ ((Len(l) + 1) - i) + 1 = ((Len(l) - i) + 1) + 1
    BY <1>1
  <1> QED
    BY <1>1, <1>2, CostTypes

\* Refilling, up to the cap or not, keeps the account.
LEMMA RefillKeeps ==
    ASSUME NEW k \in Keys, NEW l \in Seq(Nat), NEW x \in Nat, NEW t \in Nat, NEW u \in Nat,
           NEW y \in Nat, t <= u,
           y = x + Gain(k, u - t) \/ (y = Cap(k) /\ y <= x + Gain(k, u - t))
    PROVE  /\ Below(k, l, x, t) => Below(k, l, y, u)
           /\ Tight(k, l, x, t) => Tight(k, l, y, u)
  <1>1. Cap(k) \in Nat /\ u - t \in Nat
    BY LimitTypes
  <1>2. Gain(k, u - t) \in Nat
    BY <1>1, GainTypes
  <1>3. ASSUME NEW i \in 1 .. Len(l)
        PROVE  /\ l[i] \in Nat /\ Cost((Len(l) - i) + 1) \in Nat
               /\ Gain(k, t - l[i]) \in Int
               /\ Gain(k, u - l[i]) = Gain(k, u - t) + Gain(k, t - l[i])
    <2>1. l[i] \in Nat /\ Cost((Len(l) - i) + 1) \in Nat
      BY StretchTypes
    <2>2. t - l[i] \in Int
      BY <2>1
    \* The gain between two moments, by way of a third.
    <2>3. Gain(k, u - l[i]) = Gain(k, u - t) + Gain(k, t - l[i])
      <3> DEFINE b == l[i]
      <3>1. b \in Nat
        BY <2>1
      <3> HIDE DEF b
      <3>2. u - b = (u - t) + (t - b) /\ u - t \in Int /\ t - b \in Int
        BY <3>1
      <3>3. Gain(k, u - b) = Gain(k, u - t) + Gain(k, t - b)
        BY <3>2, GainTypes
      <3> QED
        BY <3>3 DEF b
    <2> QED
      BY <2>1, <2>2, <2>3, GainTypes
  <1>4. ASSUME Below(k, l, x, t) PROVE Below(k, l, y, u)
    <2> SUFFICES ASSUME NEW i \in 1 .. Len(l)
                 PROVE  l[i] <= u /\ Cost((Len(l) - i) + 1) + y <= Cap(k) + Gain(k, u - l[i])
      BY DEF Below
    <2>1. l[i] <= t /\ Cost((Len(l) - i) + 1) + x <= Cap(k) + Gain(k, t - l[i])
      BY <1>4 DEF Below
    <2>2. /\ l[i] \in Nat /\ Cost((Len(l) - i) + 1) \in Nat
          /\ Gain(k, t - l[i]) \in Int
          /\ Gain(k, u - l[i]) = Gain(k, u - t) + Gain(k, t - l[i])
      BY <1>3
    <2>3. l[i] <= u
      BY <2>1, <2>2
    <2>4. Cost((Len(l) - i) + 1) + y <= Cap(k) + (Gain(k, u - t) + Gain(k, t - l[i]))
      <3> DEFINE c == Cost((Len(l) - i) + 1)
                 g == Gain(k, u - t)
                 f == Gain(k, t - l[i])
      <3>1. c \in Nat /\ g \in Nat /\ f \in Int /\ c + x <= Cap(k) + f /\ y <= x + g
        BY <1>2, <2>1, <2>2
      <3> HIDE DEF c, g, f
      <3>2. c + y <= Cap(k) + (g + f)
        BY <1>1, <3>1
      <3> QED
        BY <3>2 DEF c, g, f
    <2> QED
      BY <2>2, <2>3, <2>4
  <1>5. ASSUME Tight(k, l, x, t) PROVE Tight(k, l, y, u)
    <2>1. CASE y = Cap(k)
      BY <1>1, <2>1 DEF Tight
    <2>2. CASE y = x + Gain(k, u - t) /\ x >= Cap(k)
      BY <1>1, <1>2, <2>2 DEF Tight
    <2>3. ASSUME y = x + Gain(k, u - t), NEW i \in 1 .. Len(l),
                 x + Cost((Len(l) - i) + 1) >= Cap(k) + Gain(k, t - l[i])
          PROVE  Tight(k, l, y, u)
      <3>0. /\ Cost((Len(l) - i) + 1) \in Nat /\ Gain(k, t - l[i]) \in Int
            /\ Gain(k, u - l[i]) = Gain(k, u - t) + Gain(k, t - l[i])
        BY <1>3
      <3>1. y + Cost((Len(l) - i) + 1) >= Cap(k) + Gain(k, u - l[i])
        BY <1>1, <1>2, <2>3, <3>0, SMTT(60)
      <3> QED
        BY <3>1 DEF Tight
    <2> QED
      BY <1>5, <2>1, <2>2, <2>3 DEF Tight
  <1> QED
    BY <1>4, <1>5

\* Letting a request pass keeps the account, and the stretches that end with it
\* fit the limits.
LEMMA PassKeeps ==
    ASSUME NEW k \in Keys, NEW l \in Seq(Nat), NEW y \in Nat, NEW u \in Nat,
           y >= Scale, y <= Cap(k), Below(k, l, y, u), Tight(k, l, y, u)
    PROVE  /\ Below(k, Append(l, u), y - Scale, u)
           /\ Tight(k, Append(l, u), y - Scale, u)
           /\ \A i \in 1 .. Len(l) : Fits(k, ((Len(l) + 1) - i) + 1, u - l[i])
           /\ Fits(k, 1, 0)
  <1> DEFINE m == Append(l, u)
  <1>1. Cap(k) \in Nat /\ Scale \in Nat \ {0} /\ Len(l) \in Nat
    BY LimitTypes, ElementFacts
  <1>2. /\ Len(m) = Len(l) + 1 /\ m[Len(l) + 1] = u
        /\ \A i \in 1 .. Len(l) : m[i] = l[i]
    BY AppendFacts
  <1> HIDE DEF m
  <1>3. ASSUME NEW i \in 1 .. Len(l)
        PROVE  /\ m[i] = l[i] /\ l[i] <= u /\ Gain(k, u - l[i]) \in Nat
               /\ Cost((Len(l) - i) + 1) \in Nat
               /\ Cost((Len(m) - i) + 1) = Cost((Len(l) - i) + 1) + Scale
               /\ Cost((Len(l) - i) + 1) + y <= Cap(k) + Gain(k, u - l[i])
    <2>1. l[i] <= u /\ Cost((Len(l) - i) + 1) + y <= Cap(k) + Gain(k, u - l[i])
      BY DEF Below
    <2>2. l[i] \in Nat
      BY StretchTypes
    <2>3. u - l[i] \in Nat
      BY <2>1, <2>2
    <2> QED
      BY <1>2, <2>1, <2>3, StretchTypes, GainTypes
  <1>4. /\ Len(m) \in 1 .. Len(m) /\ m[Len(m)] = u
        /\ Cost((Len(m) - Len(m)) + 1) = Scale
        /\ Gain(k, u - m[Len(m)]) = 0
    <2>1. Len(m) \in 1 .. Len(m) /\ (Len(m) - Len(m)) + 1 = 1 /\ m[Len(m)] = u /\ u - u = 0
      BY <1>1, <1>2
    <2> QED
      BY <2>1, CostTypes, GainTypes
  <1>5. ASSUME NEW i \in 1 .. Len(m) PROVE i \in 1 .. Len(l) \/ i = Len(m)
    BY <1>1, <1>2
  <1>6. Below(k, m, y - Scale, u)
    <2> SUFFICES ASSUME NEW i \in 1 .. Len(m)
                 PROVE  /\ m[i] <= u
                        /\ Cost((Len(m) - i) + 1) + (y - Scale) <= Cap(k) + Gain(k, u - m[i])
      BY DEF Below
    <2>1. CASE i \in 1 .. Len(l)
      <3>1. /\ m[i] = l[i] /\ l[i] <= u /\ Gain(k, u - l[i]) \in Nat
            /\ Cost((Len(l) - i) + 1) \in Nat
            /\ Cost((Len(m) - i) + 1) = Cost((Len(l) - i) + 1) + Scale
            /\ Cost((Len(l) - i) + 1) + y <= Cap(k) + Gain(k, u - l[i])
        BY <1>3, <2>1
      <3> QED
        BY <1>1, <3>1
    <2>2. CASE i = Len(m)
      BY <1>1, <1>4, <2>2
    <2> QED
      BY <1>5, <2>1, <2>2
  <1>7. Tight(k, m, y - Scale, u)
    <2>1. CASE y >= Cap(k)
      <3>1. (y - Scale) + Cost((Len(m) - Len(m)) + 1) >= Cap(k) + Gain(k, u - m[Len(m)])
        BY <1>1, <1>4, <2>1
      <3> QED
        BY <1>4, <3>1 DEF Tight
    <2>2. ASSUME NEW i \in 1 .. Len(l),
                 y + Cost((Len(l) - i) + 1) >= Cap(k) + Gain(k, u - l[i])
          PROVE  Tight(k, m, y - Scale, u)
      <3>1. i \in 1 .. Len(m)
        BY <1>1, <1>2
      <3>2. (y - Scale) + Cost((Len(m) - i) + 1) >= Cap(k) + Gain(k, u - m[i])
        <4>1. /\ m[i] = l[i] /\ l[i] <= u /\ Gain(k, u - l[i]) \in Nat
              /\ Cost((Len(l) - i) + 1) \in Nat
              /\ Cost((Len(m) - i) + 1) = Cost((Len(l) - i) + 1) + Scale
              /\ Cost((Len(l) - i) + 1) + y <= Cap(k) + Gain(k, u - l[i])
          BY <1>3
        <4> QED
          BY <1>1, <2>2, <4>1
      <3> QED
        BY <3>1, <3>2 DEF Tight
    <2> QED
      BY <2>1, <2>2 DEF Tight
  <1>8. ASSUME NEW i \in 1 .. Len(l) PROVE Fits(k, ((Len(l) + 1) - i) + 1, u - l[i])
    <2>1. Cost((Len(m) - i) + 1) <= Cap(k) + Gain(k, u - l[i])
      BY <1>1, <1>3, SMTT(60)
    <2> QED
      BY <1>2, <2>1 DEF Fits, Cost, Cap, Gain
  <1>9. Fits(k, 1, 0)
    <2>1. Cost(1) <= Cap(k) + Gain(k, 0)
      <3>1. Cost(1) = Scale /\ Gain(k, 0) = 0
        BY CostTypes, GainTypes
      <3> QED
        BY <1>1, <3>1
    <2> QED
      BY <2>1 DEF Fits, Cost, Cap, Gain
  <1> QED
    BY <1>6, <1>7, <1>8, <1>9 DEF m

\* An idle bucket could be full, and a full one stays so.
LEMMA IdleIsFull ==
    ASSUME NEW k \in Keys, NEW l \in Seq(Nat), NEW x \in Nat, NEW t \in Nat, NEW u \in Nat,
           Below(k, l, x, t),
           (u - t > IdleEvict /\ FullWhenIdle(k)) \/ (x = Cap(k) /\ t <= u)
    PROVE  Below(k, l, Cap(k), u)
  <1>1. Cap(k) \in Nat /\ IdleEvict \in Nat /\ t <= u /\ u - t \in Nat
    BY LimitTypes
  <1>2. Gain(k, u - t) \in Nat
    BY <1>1, GainTypes
  <1>3. CASE u - t > IdleEvict /\ FullWhenIdle(k)
    <2>1. /\ (u - t) - IdleEvict \in Nat /\ (u - t) - IdleEvict \in Int /\ IdleEvict \in Int
          /\ u - t = IdleEvict + ((u - t) - IdleEvict)
      BY <1>1, <1>3
    <2>2. /\ Gain(k, IdleEvict) \in Nat /\ Gain(k, (u - t) - IdleEvict) \in Nat
          /\ Gain(k, u - t) = Gain(k, IdleEvict) + Gain(k, (u - t) - IdleEvict)
      BY <1>1, <2>1, GainTypes, ZenonT(60)
    <2>3. Cap(k) <= Gain(k, IdleEvict)
      BY <1>3 DEF FullWhenIdle, Cap, Gain
    <2>4. Cap(k) <= x + Gain(k, u - t)
      BY <1>1, <2>2, <2>3
    <2> QED
      BY <1>1, <2>4, RefillKeeps
  <1>4. CASE x = Cap(k)
    BY <1>1, <1>2, <1>4, RefillKeeps
  <1> QED
    BY <1>3, <1>4

-----------------------------------------------------------------------------
LEMMA NameFacts == \A b \in Names : b[1] \in Requests /\ b[2] \in Keys
  BY DEF Names

LEMMA NamePairs == \A r \in Requests, k \in Keys : <<r, k>> \in Names /\ <<r, k>>[2] = k
  BY DEF Names

\* What Allow makes of the tokens of a bucket.
LEMMA RefilledFacts ==
    ASSUME TypeOK, NEW b \in Names
    PROVE  LET k == b[2]
               x == heap[b].tokens
               t == Refilled(heap[b], k)
               g == Gain(k, now - heap[b].lastFill)
           IN  /\ t \in Nat /\ t <= Cap(k)
               /\ t = x + g \/ (t = Cap(k) /\ t <= x + g)
  <1> DEFINE k == b[2]
             x == heap[b].tokens
             g == Gain(k, now - heap[b].lastFill)
  <1>1. k \in Keys
    BY NameFacts
  <1>2. x \in Nat /\ now - heap[b].lastFill \in Nat
    BY DEF TypeOK, Bucket
  <1>3. g \in Nat /\ Cap(k) \in Nat
    BY <1>1, <1>2, GainTypes, LimitTypes
  <1>4. Refilled(heap[b], k) = IF x + g > Cap(k) THEN Cap(k) ELSE x + g
    BY DEF Refilled, Gain, Cap
  <1> HIDE DEF x, g, k
  <1>5. /\ Refilled(heap[b], k) \in Nat /\ Refilled(heap[b], k) <= Cap(k)
        /\ Refilled(heap[b], k) = x + g \/ (Refilled(heap[b], k) = Cap(k) /\ Refilled(heap[b], k) <= x + g)
    BY <1>2, <1>3, <1>4
  <1> QED
    BY <1>5 DEF x, g, k

\* The two outcomes of Allow, with the update of the bucket spelled out.
LEMMA AllowFacts ==
    ASSUME TypeOK, Ready, NEW r \in Requests, Allow(r)
    PROVE  LET b == held[r]
               t == Refilled(heap[b], b[2])
           IN  /\ b \in Names /\ b[2] \in Keys /\ rest[r] # <<>>
               /\ t \in Nat /\ t <= Cap(b[2])
               /\ heap'[b].filed = heap[b].filed /\ heap'[b].lastFill = now
               /\ heap'[b].tokens = IF Enough(t) THEN t - Scale ELSE t
               /\ heap'[b].tokens \in Nat /\ heap'[b].tokens <= Cap(b[2])
               /\ heap' \in [Names -> Bucket]
               /\ \A c \in Names : c # b => heap'[c] = heap[c]
  <1> DEFINE b == held[r]
             t == Refilled(heap[b], b[2])
  <1>1. b \in Names /\ rest[r] # <<>>
    BY DEF TypeOK, Ready, Allow
  <1>2. b[2] \in Keys
    BY <1>1, NameFacts
  <1>3. t \in Nat /\ t <= Cap(b[2])
    BY <1>1, RefilledFacts
  <1>4. Cap(b[2]) \in Nat /\ Scale \in Nat \ {0}
    BY <1>2, LimitTypes
  <1>5. heap \in [Names -> Bucket] /\ heap[b] \in Bucket /\ now \in Nat
    BY <1>1 DEF TypeOK
  <1>6. /\ heap' = [heap EXCEPT ![b].tokens = IF Enough(t) THEN t - Scale ELSE t, ![b].lastFill = now]
    BY DEF Allow
  <1> HIDE DEF b, t
  <1>7. (IF Enough(t) THEN t - Scale ELSE t) \in Nat
    BY <1>3, <1>4 DEF Enough
  <1>8. (IF Enough(t) THEN t - Scale ELSE t) <= Cap(b[2])
    BY <1>3, <1>4 DEF Enough
  <1>9. /\ heap'[b].filed = heap[b].filed /\ heap'[b].lastFill = now
        /\ heap'[b].tokens = IF Enough(t) THEN t - Scale ELSE t
        /\ heap' \in [Names -> Bucket]
        /\ \A c \in Names : c # b => heap'[c] = heap[c]
    BY <1>1, <1>5, <1>6, <1>7 DEF Bucket
  <1>10. heap'[b].tokens \in Nat /\ heap'[b].tokens <= Cap(b[2])
    BY <1>7, <1>8, <1>9
  <1> QED
    BY <1>1, <1>2, <1>3, <1>9, <1>10 DEF b, t

LEMMA RestFacts ==
    ASSUME NEW q \in Seq(Keys), q # <<>>
    PROVE  Head(q) \in Keys /\ Tail(q) \in Seq(Keys)
  OBVIOUS

LEMMA LogUpdate ==
    ASSUME NEW f \in [Keys -> Seq(Nat)], NEW k \in Keys, NEW q \in Seq(Nat)
    PROVE  [f EXCEPT ![k] = q] \in [Keys -> Seq(Nat)]
  OBVIOUS

LEMMA RateTypeInit == Init => TypeOK
  <1> SUFFICES ASSUME Init PROVE TypeOK
    OBVIOUS
  <1>1. \A b \in Names : Burst[b[2]] * Scale \in Nat
    BY NameFacts, LimitTypes DEF Cap
  <1>2. heap \in [Names -> Bucket] /\ \A b \in Names : heap[b].tokens <= Burst[b[2]] * Scale /\ heap[b].lastFill <= now
    BY <1>1 DEF Init, NewBucket, Bucket
  <1>3. log \in [Keys -> Seq(Nat)] /\ passes \in [Keys -> Seq(Nat)]
    BY DEF Init
  <1>4. /\ now \in Nat /\ rest \in [Requests -> Seq(Keys)] /\ doomed \in SUBSET Keys
        /\ buckets \in [Keys -> Names \cup {None}] /\ held \in [Requests -> Names \cup {None}]
    BY RateAssumption DEF Init
  <1>5. pc \in [Requests -> {"lookup", "create", "allow", "passed", "limited"}]
    BY DEF Init
  <1> QED
    BY <1>2, <1>3, <1>4, <1>5 DEF TypeOK

LEMMA RateTypeStep == TypeOK /\ Ready /\ [Next]_vars => TypeOK'
  <1> SUFFICES ASSUME TypeOK, Ready, [Next]_vars PROVE TypeOK'
    OBVIOUS
  <1>1. ASSUME NEW r \in Requests, Lookup(r) PROVE TypeOK'
    <2>1. Head(rest[r]) \in Keys
      BY <1>1, RestFacts DEF TypeOK, Ready, Lookup
    <2>2. held' \in [Requests -> Names \cup {None}]
      BY <1>1, <2>1 DEF TypeOK, Lookup
    <2> QED
      BY <1>1, <2>2 DEF TypeOK, Lookup
  <1>2. ASSUME NEW r \in Requests, Create(r) PROVE TypeOK'
    <2> DEFINE k == Head(rest[r])
    <2>1. k \in Keys
      BY <1>2, RestFacts DEF TypeOK, Ready, Create
    <2>2. <<r, k>> \in Names /\ <<r, k>>[2] = k
      BY <2>1, NamePairs
    <2> HIDE DEF k
    <2>3. CASE buckets[k] # None
      BY <1>2, <2>1, <2>3 DEF TypeOK, Create, k
    <2>4. CASE buckets[k] = None
      <3>1. NewBucket(k, ~Full) \in Bucket /\ NewBucket(k, ~Full).tokens = Burst[k] * Scale
            /\ NewBucket(k, ~Full).lastFill = now
        BY <2>1, LimitTypes DEF NewBucket, Bucket, TypeOK, Cap, Full
      <3>2. heap' = [heap EXCEPT ![<<r, k>>] = NewBucket(k, ~Full)]
        BY <1>2, <2>4 DEF Create, k
      <3>3. Burst[k] * Scale \in Nat /\ now \in Nat
        BY <2>1, LimitTypes DEF Cap, TypeOK
      <3>4. \A b \in Names : heap'[b] = IF b = <<r, k>> THEN NewBucket(k, ~Full) ELSE heap[b]
        BY <3>2 DEF TypeOK
      <3>5. \A b \in Names : heap'[b].tokens <= Burst[b[2]] * Scale /\ heap'[b].lastFill <= now
        <4> TAKE b \in Names
        <4>1. CASE b = <<r, k>>
          BY <2>2, <3>1, <3>3, <3>4, <4>1
        <4>2. CASE b # <<r, k>>
          BY <3>4, <4>2 DEF TypeOK
        <4> QED
          BY <4>1, <4>2
      <3>6. heap' \in [Names -> Bucket]
        BY <3>1, <3>2 DEF TypeOK
      <3>7. /\ held' = [held EXCEPT ![r] = <<r, k>>]
            /\ buckets' = buckets \/ buckets' = [buckets EXCEPT ![k] = <<r, k>>]
            /\ pc' = [pc EXCEPT ![r] = "allow"] /\ UNCHANGED <<now, doomed, rest, log, passes>>
        BY <1>2, <2>4 DEF Create, k
      <3>8. buckets' \in [Keys -> Names \cup {None}] /\ held' \in [Requests -> Names \cup {None}]
        BY <2>2, <3>7 DEF TypeOK
      <3> QED
        BY <3>5, <3>6, <3>7, <3>8 DEF TypeOK
    <2> QED
      BY <2>3, <2>4
  <1>3. ASSUME NEW r \in Requests, Allow(r) PROVE TypeOK'
    <2> DEFINE b == held[r]
    <2>1. /\ b \in Names /\ b[2] \in Keys /\ rest[r] # <<>>
          /\ heap'[b].lastFill = now /\ heap'[b].tokens <= Cap(b[2])
          /\ heap' \in [Names -> Bucket]
          /\ \A c \in Names : c # b => heap'[c] = heap[c]
      BY <1>3, AllowFacts
    <2>2. \A c \in Names : heap'[c].tokens <= Burst[c[2]] * Scale /\ heap'[c].lastFill <= now
      <3> TAKE c \in Names
      <3>1. CASE c = b
        BY <2>1, <3>1 DEF TypeOK, Cap
      <3>2. CASE c # b
        BY <2>1, <3>2 DEF TypeOK
      <3> QED
        BY <3>1, <3>2
    <2>3. Tail(rest[r]) \in Seq(Keys)
      BY <2>1, RestFacts DEF TypeOK
    <2>4. rest' \in [Requests -> Seq(Keys)]
      BY <1>3, <2>3 DEF TypeOK, Allow
    <2>5. log[b[2]] \in Seq(Nat) /\ passes[b[2]] \in Seq(Nat) /\ now \in Nat
      BY <2>1 DEF TypeOK
    <2>6. Append(log[b[2]], now) \in Seq(Nat) /\ Append(passes[b[2]], now) \in Seq(Nat)
      BY <2>5, AppendFacts
    <2>7. log' \in [Keys -> Seq(Nat)] /\ passes' \in [Keys -> Seq(Nat)]
      <3>1. /\ log' = log \/ log' = [log EXCEPT ![b[2]] = Append(log[b[2]], now)]
            /\ passes' = passes \/ passes' = [passes EXCEPT ![b[2]] = Append(passes[b[2]], now)]
        BY <1>3 DEF Allow
      <3>2. log \in [Keys -> Seq(Nat)] /\ passes \in [Keys -> Seq(Nat)]
        BY DEF TypeOK
      <3>3. b[2] \in Keys
        BY <2>1
      <3>4. log' \in [Keys -> Seq(Nat)]
        BY <2>6, <3>1, <3>2, <3>3, LogUpdate
      <3>5. passes' \in [Keys -> Seq(Nat)]
        BY <2>6, <3>1, <3>2, <3>3, LogUpdate
      <3> QED
        BY <3>4, <3>5
    <2>8. /\ pc' \in [Requests -> {"lookup", "create", "allow", "passed", "limited"}]
          /\ held' \in [Requests -> Names \cup {None}]
          /\ UNCHANGED <<now, buckets, doomed>>
      BY <1>3 DEF TypeOK, Allow
    <2> QED
      BY <2>1, <2>2, <2>4, <2>7, <2>8 DEF TypeOK
  <1>4. ASSUME NEW k \in Keys, Unfile(k),
               UNCHANGED <<now, rest, held, pc, passes>>,
               buckets' = buckets \/ buckets' = [buckets EXCEPT ![k] = None],
               doomed' = doomed \/ doomed' = {k},
               log' = log \/ log' = [log EXCEPT ![k] = <<>>]
        PROVE  TypeOK'
    <2>1. buckets[k] \in Names
      BY <1>4 DEF TypeOK, Unfile
    <2>2. heap' \in [Names -> Bucket] /\ \A b \in Names : heap'[b].tokens = heap[b].tokens /\ heap'[b].lastFill = heap[b].lastFill
      <3>1. heap \in [Names -> Bucket] /\ heap' = [heap EXCEPT ![buckets[k]].filed = FALSE]
        BY <1>4 DEF TypeOK, Unfile
      <3> QED
        BY <2>1, <3>1 DEF Bucket
    <2>3. log' \in [Keys -> Seq(Nat)]
      <3>1. log \in [Keys -> Seq(Nat)] /\ <<>> \in Seq(Nat)
        BY DEF TypeOK
      <3> QED
        BY <1>4, <3>1
    <2>4. buckets' \in [Keys -> Names \cup {None}] /\ doomed' \in SUBSET Keys
      BY <1>4 DEF TypeOK
    <2> QED
      BY <1>4, <2>2, <2>3, <2>4 DEF TypeOK
  <1>5. CASE Tick
    <2>1. \A b \in Names : heap[b].lastFill \in Nat
      BY DEF TypeOK, Bucket
    <2>2. now' = now + 1 /\ UNCHANGED <<heap, buckets, doomed, rest, held, pc, log, passes>>
      BY <1>5 DEF Tick
    <2>3. \A b \in Names : heap[b].lastFill <= now'
      BY <2>1, <2>2 DEF TypeOK
    <2> QED
      BY <2>2, <2>3 DEF TypeOK
  <1>6. CASE UNCHANGED vars
    BY <1>6 DEF TypeOK, vars
  <1>7. ASSUME NEW k \in Keys, FindIdle(k) \/ Invalidate(k) PROVE TypeOK'
    BY <1>4, <1>7 DEF FindIdle, Invalidate
  <1>8. ASSUME NEW k \in Keys, Evict(k) PROVE TypeOK'
    BY <1>8 DEF TypeOK, Evict
  <1>9. Managed \subseteq Keys
    BY RateAssumption
  <1> QED
    BY <1>1, <1>2, <1>3, <1>5, <1>6, <1>7, <1>8, <1>9 DEF Next

-----------------------------------------------------------------------------
LEMMA RateInvInit == Init => RateInv
  <1> SUFFICES ASSUME Init PROVE RateInv
    OBVIOUS
  <1>1. FiledInv
    BY DEF Init, FiledInv, OneBucketPerKey, NewBucket, Live
  <1>2. Ready
    BY DEF Init, Ready
  <1>3. \A k \in Keys : Len(log[k]) = 0 /\ buckets[k] = None
    BY DEF Init
  <1>4. (\A k \in Keys : Account(k)) /\ WithinRate
    BY <1>3 DEF Account, Live, Below, WithinRate
  <1> QED
    BY <1>1, <1>2, <1>4 DEF RateInv

LEMMA ReadyStep ==
    ASSUME TypeOK, Ready, [Next]_vars
    PROVE  Ready'
  <1>1. ASSUME NEW r \in Requests, Lookup(r) PROVE Ready'
    BY <1>1 DEF Ready, Lookup, TypeOK
  <1>2. ASSUME NEW r \in Requests, Create(r) PROVE Ready'
    <2>1. <<r, Head(rest[r])>> # None
      <3>1. Head(rest[r]) \in Keys
        BY <1>2, RestFacts DEF TypeOK, Ready, Create
      <3> QED
        BY <3>1, NamePairs, RateAssumption
    <2> QED
      BY <1>2, <2>1 DEF Ready, Create, TypeOK
  <1>3. ASSUME NEW r \in Requests, Allow(r) PROVE Ready'
    BY <1>3 DEF Ready, Allow, TypeOK
  <1>4. CASE UNCHANGED <<rest, held, pc>>
    BY <1>4 DEF Ready
  <1>5. (\E k \in Keys : FindIdle(k) \/ Evict(k)) \/ (\E k \in Managed : Invalidate(k)) \/ Tick \/ UNCHANGED vars
        => UNCHANGED <<rest, held, pc>>
    BY DEF FindIdle, Evict, Invalidate, Tick, vars
  <1> QED
    BY <1>1, <1>2, <1>3, <1>4, <1>5 DEF Next

\* A key whose bucket, log and clock are as before keeps its account.
LEMMA AccountSame ==
    ASSUME NEW k \in Keys, Account(k), now' = now, Live(k)' = Live(k),
           Live(k) => buckets'[k] = buckets[k], log'[k] = log[k],
           Live(k) => /\ heap'[buckets[k]].tokens = heap[buckets[k]].tokens
                      /\ heap'[buckets[k]].lastFill = heap[buckets[k]].lastFill
    PROVE  Account(k)'
  <1>1. CASE Live(k)
    BY <1>1 DEF Account, Below, Tight
  <1>2. CASE ~Live(k)
    BY <1>2 DEF Account, Below
  <1> QED
    BY <1>1, <1>2

LEMMA WithinSame == ASSUME WithinRate, log' = log PROVE WithinRate'
  BY DEF WithinRate

\* The actions in turn.
LEMMA CreateKeeps ==
    ASSUME TypeOK, RateInv, NEW r \in Requests, Create(r)
    PROVE  FiledInv' /\ (\A k \in Keys : Account(k)') /\ WithinRate'
  <1> DEFINE k == Head(rest[r])
             n == <<r, k>>
  <1>1. k \in Keys
    BY RestFacts DEF TypeOK, RateInv, Ready, Create
  <1>2. n \in Names /\ n[2] = k /\ n # None
    BY <1>1, NamePairs, RateAssumption
  <1>3. WithinRate' /\ doomed = {} /\ doomed' = {}
    BY WithinSame DEF RateInv, Create, Unlocked
  <1>4. CASE buckets[k] # None
    <2>1. UNCHANGED <<now, heap, buckets, log>>
      BY <1>4 DEF Create
    <2>2. FiledInv'
      BY <1>3, <2>1 DEF RateInv, FiledInv, OneBucketPerKey, Live
    <2>3. \A j \in Keys : Account(j)'
      BY <1>3, <2>1, AccountSame DEF RateInv, Live
    <2> QED
      BY <1>3, <2>2, <2>3
  <1>5. CASE buckets[k] = None
    <2>1. /\ heap' = [heap EXCEPT ![n] = NewBucket(k, ~Full)]
          /\ buckets' = IF Full THEN buckets ELSE [buckets EXCEPT ![k] = n]
          /\ UNCHANGED <<now, log>>
      BY <1>5 DEF Create
    <2>2. \A b \in Names : heap'[b] = IF b = n THEN NewBucket(k, ~Full) ELSE heap[b]
      BY <1>2, <2>1 DEF TypeOK
    <2>3. \A b \in Names : heap[b].filed => b[2] # k
      BY <1>1, <1>5, RateAssumption DEF RateInv, FiledInv, OneBucketPerKey
    <2>4. \A j \in Keys : buckets[j] # None => buckets[j] \in Names /\ buckets[j] # n
      BY <1>2, <1>3, <2>3 DEF RateInv, FiledInv, TypeOK, Live
    <2>5. CASE Full
      <3>1. buckets' = buckets /\ NewBucket(k, ~Full).filed = FALSE
        BY <2>1, <2>5 DEF NewBucket
      <3>2. FiledInv'
        BY <1>3, <2>2, <2>4, <3>1 DEF RateInv, FiledInv, OneBucketPerKey, Live
      <3>3. \A j \in Keys : Account(j)'
        BY <1>3, <2>1, <2>2, <2>4, <3>1, AccountSame DEF RateInv, Live
      <3> QED
        BY <1>3, <3>2, <3>3
    <2>6. CASE ~Full
      <3>1. /\ \A j \in Keys : buckets'[j] = IF j = k THEN n ELSE buckets[j]
            /\ NewBucket(k, ~Full).filed = TRUE
            /\ NewBucket(k, ~Full).tokens = Cap(k) /\ NewBucket(k, ~Full).lastFill = now
        BY <1>1, <2>1, <2>6 DEF NewBucket, TypeOK, Cap
      <3>2. OneBucketPerKey'
        <4> SUFFICES ASSUME NEW b \in Names, heap'[b].filed PROVE buckets'[b[2]] = b
          BY DEF OneBucketPerKey
        <4>1. CASE b = n
          BY <1>1, <1>2, <3>1, <4>1
        <4>2. CASE b # n
          <5>1. heap[b].filed /\ b[2] \in Keys /\ b[2] # k
            BY <2>2, <2>3, <4>2, NameFacts
          <5> QED
            BY <3>1, <5>1 DEF RateInv, FiledInv, OneBucketPerKey
        <4> QED
          BY <4>1, <4>2
      <3>3. FiledInv'
        <4> SUFFICES ASSUME NEW j \in Keys, buckets'[j] # None
                     PROVE  buckets'[j][2] = j /\ heap'[buckets'[j]].filed
          BY <1>3, <3>2 DEF FiledInv, Live
        <4>1. CASE j = k
          BY <1>2, <2>2, <3>1, <4>1
        <4>2. CASE j # k
          BY <1>3, <2>2, <2>4, <3>1, <4>2 DEF RateInv, FiledInv, Live
        <4> QED
          BY <4>1, <4>2
      <3>4. ASSUME NEW j \in Keys PROVE Account(j)'
        <4>1. CASE j # k
          BY <1>3, <2>1, <2>2, <2>4, <3>1, <4>1, AccountSame DEF RateInv, Live
        <4>2. CASE j = k
          <5>1. Below(k, log[k], Cap(k), now)
            BY <1>1, <1>5 DEF RateInv, Account, Live
          <5>2. heap'[n].tokens = Cap(k) /\ heap'[n].lastFill = now /\ buckets'[k] = n /\ log' = log
            BY <1>1, <1>2, <2>1, <2>2, <3>1
          <5>3. Tight(k, log[k], Cap(k), now)
            BY <1>1, LimitTypes DEF Tight
          <5> QED
            BY <1>2, <1>3, <4>2, <5>1, <5>2, <5>3 DEF Account, Live, Below, Tight
        <4> QED
          BY <4>1, <4>2
      <3> QED
        BY <1>3, <3>3, <3>4
    <2> QED
      BY <2>5, <2>6
  <1> QED
    BY <1>4, <1>5

\* A bucket is no longer filed: cleanupLoop found it idle, or it is removed.
LEMMA UnfileKeeps ==
    ASSUME TypeOK, RateInv, NEW k \in Keys, FindIdle(k) \/ Invalidate(k)
    PROVE  FiledInv' /\ (\A j \in Keys : Account(j)') /\ WithinRate'
  <1> DEFINE b == buckets[k]
  <1>1. /\ b # None /\ now' = now /\ doomed = {}
        /\ heap' = [heap EXCEPT ![b].filed = FALSE]
        /\ \/ buckets' = buckets /\ doomed' = {k}
           \/ buckets' = [buckets EXCEPT ![k] = None] /\ doomed' = {}
    BY DEF FindIdle, Invalidate, Unfile, Unlocked
  <1>2. b \in Names /\ b[2] = k
    BY <1>1 DEF TypeOK, RateInv, FiledInv
  <1>3. /\ \A c \in Names : /\ heap'[c].tokens = heap[c].tokens
                            /\ heap'[c].lastFill = heap[c].lastFill
                            /\ heap'[c].filed = (heap[c].filed /\ c # b)
    <2>1. heap \in [Names -> Bucket]
      BY DEF TypeOK
    <2> QED
      BY <1>1, <1>2, <2>1 DEF Bucket
  <1>4. /\ Live(k) /\ ~Live(k)'
        /\ \A j \in Keys : /\ j # k => buckets'[j] = buckets[j] /\ j \notin doomed' /\ Live(j)' = Live(j)
                           /\ buckets'[j] # None => buckets'[j] = buckets[j]
    BY <1>1 DEF TypeOK, Live
  <1>5. \A j \in Keys : j # k /\ buckets[j] # None => buckets[j] \in Names /\ buckets[j] # b
    BY <1>2 DEF TypeOK, RateInv, FiledInv
  <1>6. \A c \in Names : heap'[c].filed => buckets[c[2]] = c /\ c[2] # k
    <2> SUFFICES ASSUME NEW c \in Names, heap'[c].filed PROVE buckets[c[2]] = c /\ c[2] # k
      OBVIOUS
    <2>1. heap[c].filed /\ c # b
      BY <1>3
    <2>2. buckets[c[2]] = c
      BY <2>1 DEF RateInv, FiledInv, OneBucketPerKey
    <2> QED
      BY <2>1, <2>2
  <1>7. FiledInv'
    <2>1. ASSUME NEW c \in Names, heap'[c].filed PROVE buckets'[c[2]] = c /\ c[2] \notin doomed'
      BY <1>4, <1>6, <2>1, NameFacts
    <2>2. ASSUME NEW j \in Keys, buckets'[j] # None PROVE buckets'[j][2] = j
      BY <1>4, <2>2 DEF RateInv, FiledInv
    <2>3. ASSUME NEW j \in Keys, Live(j)' PROVE heap'[buckets'[j]].filed
      <3>1. j # k /\ buckets'[j] = buckets[j] /\ Live(j)
        BY <1>4, <2>3
      <3>2. buckets[j] \in Names /\ buckets[j] # b /\ heap[buckets[j]].filed
        BY <1>5, <3>1 DEF RateInv, FiledInv, Live
      <3> QED
        BY <1>3, <3>1, <3>2
    <2> QED
      BY <2>1, <2>2, <2>3 DEF FiledInv, OneBucketPerKey
  <1>8. /\ \A j \in Keys : log'[j] = log[j] \/ (j = k /\ log'[j] = <<>>)
        /\ log'[k] = <<>> \/ (FindIdle(k) /\ FullWhenIdle(k) /\ log'[k] = log[k])
    <2>1. log' = [log EXCEPT ![k] = <<>>] \/ (FindIdle(k) /\ FullWhenIdle(k) /\ log' = log)
      BY DEF FindIdle, Invalidate
    <2>2. log \in [Keys -> Seq(Nat)]
      BY DEF TypeOK
    <2> QED
      BY <2>1, <2>2
  <1>9. ASSUME NEW j \in Keys, j # k PROVE Account(j)'
    <2>1. Live(j) => buckets[j] \in Names
      BY <1>5, <1>9 DEF Live
    <2> QED
      BY <1>1, <1>3, <1>4, <1>8, <1>9, <2>1, AccountSame DEF RateInv
  <1>10. Account(k)'
    <2>1. CASE log'[k] = <<>>
      BY <1>4, <2>1 DEF Account, Below
    <2>2. CASE FindIdle(k) /\ FullWhenIdle(k) /\ log'[k] = log[k]
      <3>1. Below(k, log[k], heap[b].tokens, heap[b].lastFill)
        BY <1>4 DEF RateInv, Account
      <3>2. /\ log[k] \in Seq(Nat) /\ heap[b].tokens \in Nat /\ heap[b].lastFill \in Nat
            /\ now \in Nat
        BY <1>2 DEF TypeOK, Bucket
      <3>3. now - heap[b].lastFill > IdleEvict
        BY <2>2 DEF FindIdle, Idle
      <3>4. Below(k, log[k], Cap(k), now)
        BY <2>2, <3>1, <3>2, <3>3, IdleIsFull
      <3> QED
        BY <1>1, <1>4, <2>2, <3>4 DEF Account, Below
    <2> QED
      BY <1>8, <2>1, <2>2
  <1>11. WithinRate'
    BY <1>8 DEF RateInv, WithinRate
  <1> QED
    BY <1>7, <1>9, <1>10, <1>11

\* The deletion itself: the bucket no longer counted.
LEMMA EvictKeeps ==
    ASSUME TypeOK, RateInv, NEW k \in Keys, Evict(k)
    PROVE  FiledInv' /\ (\A j \in Keys : Account(j)') /\ WithinRate'
  <1>1. /\ k \in doomed /\ doomed' = doomed \ {k} /\ UNCHANGED <<now, heap, log>>
        /\ \A j \in Keys : buckets'[j] = IF j = k THEN None ELSE buckets[j]
    BY DEF Evict, TypeOK
  <1>2. \A j \in Keys : Live(j)' = Live(j) /\ (Live(j) => buckets'[j] = buckets[j])
    BY <1>1 DEF Live
  <1>3. FiledInv'
    <2>1. ASSUME NEW c \in Names, heap[c].filed PROVE buckets'[c[2]] = c /\ c[2] \notin doomed'
      <3>1. buckets[c[2]] = c /\ c[2] \notin doomed /\ c[2] \in Keys
        BY <2>1, NameFacts DEF RateInv, FiledInv, OneBucketPerKey
      <3> QED
        BY <1>1, <3>1
    <2>2. ASSUME NEW j \in Keys, buckets'[j] # None PROVE buckets'[j][2] = j
      BY <1>1, <2>2 DEF RateInv, FiledInv
    <2>3. ASSUME NEW j \in Keys, Live(j)' PROVE heap[buckets'[j]].filed
      BY <1>2, <2>3 DEF RateInv, FiledInv
    <2> QED
      BY <1>1, <2>1, <2>2, <2>3 DEF FiledInv, OneBucketPerKey
  <1>4. \A j \in Keys : Account(j)'
    BY <1>1, <1>2, AccountSame DEF RateInv
  <1>5. WithinRate'
    BY <1>1, WithinSame DEF RateInv
  <1> QED
    BY <1>3, <1>4, <1>5

\* The bucket b that request r holds, and its key.
LEMMA AllowKeepsFor ==
    ASSUME TypeOK, RateInv, NEW r \in Requests, Allow(r),
           NEW b \in Names, b = held[r], NEW k \in Keys, k = b[2]
    PROVE  FiledInv' /\ (\A j \in Keys : Account(j)') /\ WithinRate'
  <1> DEFINE x == heap[b].tokens
             f == heap[b].lastFill
             t == Refilled(heap[b], k)
             l == log[k]
  <1>1. /\ b \in Names /\ k \in Keys /\ t \in Nat /\ t <= Cap(k)
        /\ heap'[b].filed = heap[b].filed /\ heap'[b].lastFill = now
        /\ heap'[b].tokens = IF Enough(t) THEN t - Scale ELSE t
        /\ \A c \in Names : c # b => heap'[c] = heap[c]
    BY AllowFacts DEF RateInv
  <1>2. /\ now' = now /\ buckets' = buckets /\ doomed' = doomed
        /\ \A j \in Keys : Live(j)' = Live(j)
    BY DEF Allow, Live
  <1>3. FiledInv'
    <2>1. \A c \in Names : heap'[c].filed = heap[c].filed
      BY <1>1
    <2>2. \A j \in Keys : Live(j) => buckets[j] \in Names
      BY DEF TypeOK, Live
    <2> QED
      BY <1>2, <2>1, <2>2 DEF RateInv, FiledInv, OneBucketPerKey
  <1>4. \A j \in Keys : j # k => log'[j] = log[j]
    <2>1. log' = log \/ log' = [log EXCEPT ![k] = Append(log[k], now)]
      BY DEF Allow
    <2>2. log \in [Keys -> Seq(Nat)]
      BY DEF TypeOK
    <2> QED
      BY <2>1, <2>2
  <1>5. CASE ~heap[b].filed
    <2>1. log' = log
      BY <1>5 DEF Allow
    <2>2. \A j \in Keys : Live(j) => buckets[j] \in Names /\ buckets[j] # b
      BY <1>5 DEF RateInv, FiledInv, TypeOK, Live
    <2>3. \A j \in Keys : Account(j)'
      BY <1>1, <1>2, <2>1, <2>2, AccountSame DEF RateInv
    <2>4. WithinRate'
      BY <2>1, WithinSame DEF RateInv
    <2> QED
      BY <1>3, <2>3, <2>4
  <1>6. CASE heap[b].filed
    <2>1. buckets[k] = b /\ b # None /\ Live(k)
      BY <1>1, <1>6, RateAssumption DEF RateInv, FiledInv, OneBucketPerKey, Live
    <2>2. \A j \in Keys : j # k /\ Live(j) => buckets[j] \in Names /\ buckets[j] # b
      BY DEF RateInv, FiledInv, TypeOK, Live
    <2>3. \A j \in Keys : j # k => Account(j)'
      BY <1>1, <1>2, <1>4, <2>2, AccountSame DEF RateInv
    <2>4. /\ x \in Nat /\ f \in Nat /\ now \in Nat /\ f <= now /\ l \in Seq(Nat)
      BY <1>1 DEF TypeOK, Bucket
    <2>5. Below(k, l, x, f) /\ Tight(k, l, x, f)
      BY <1>1, <2>1 DEF RateInv, Account
    <2>6. t = x + Gain(k, now - f) \/ (t = Cap(k) /\ t <= x + Gain(k, now - f))
      BY <1>1, RefilledFacts
    <2>7. Below(k, l, t, now) /\ Tight(k, l, t, now)
      <3> HIDE DEF l, x, f, t
      <3> QED
        BY <1>1, <2>4, <2>5, <2>6, RefillKeeps
    <2>8. CASE ~Enough(t)
      <3>1. log' = log /\ heap'[b].tokens = t
        BY <1>1, <2>8 DEF Allow
      <3>2. Account(k)'
        <4>1. buckets'[k] = b /\ log'[k] = l /\ heap'[b].lastFill = now /\ Live(k)'
          BY <1>1, <1>2, <2>1, <3>1
        <4> HIDE DEF l, x, f, t
        <4> QED
          BY <2>1, <2>7, <3>1, <4>1 DEF Account, Below, Tight
      <3>3. WithinRate'
        BY <3>1, WithinSame DEF RateInv
      <3> QED
        BY <1>3, <2>3, <3>2, <3>3
    <2>9. CASE Enough(t)
      <3>1. /\ log' = [log EXCEPT ![k] = Append(@, now)]
            /\ heap'[b].tokens = t - Scale /\ heap'[b].lastFill = now
        BY <1>1, <1>6, <2>9 DEF Allow
      <3>2. log'[k] = Append(l, now)
        BY <1>1, <3>1 DEF TypeOK
      <3>3. t >= Scale
        BY <2>9 DEF Enough
      <3>4. /\ Below(k, Append(l, now), t - Scale, now)
            /\ Tight(k, Append(l, now), t - Scale, now)
            /\ \A i \in 1 .. Len(l) : Fits(k, ((Len(l) + 1) - i) + 1, now - l[i])
            /\ Fits(k, 1, 0)
        <4> HIDE DEF l, x, f, t
        <4> QED
          BY <1>1, <2>4, <2>7, <3>3, PassKeeps
      <3>5. Account(k)'
        <4>1. buckets'[k] = b /\ Live(k)'
          BY <1>1, <1>2, <2>1
        <4> HIDE DEF l, x, f, t
        <4> QED
          BY <2>1, <3>1, <3>2, <3>4, <4>1 DEF Account, Below, Tight
      <3>6. WithinRate'
        <4> DEFINE m == log'[k]
        <4>1. /\ Len(l) \in Nat /\ Len(m) = Len(l) + 1 /\ m[Len(l) + 1] = now
              /\ \A i \in 1 .. Len(l) : m[i] = l[i]
          BY <2>4, <3>2, AppendFacts, ElementFacts
        <4> SUFFICES ASSUME NEW j \in Keys, NEW i \in 1 .. Len(log'[j]),
                            NEW n \in 1 .. Len(log'[j]), i <= n
                     PROVE  Fits(j, (n - i) + 1, log'[j][n] - log'[j][i])
          BY DEF WithinRate, Fits
        <4>2. CASE j # k
          BY <1>4, <4>2 DEF RateInv, WithinRate
        <4>3. CASE j = k /\ n \in 1 .. Len(l)
          <5>1. i \in 1 .. Len(l) /\ m[i] = l[i] /\ m[n] = l[n]
            BY <4>1, <4>3
          <5> QED
            BY <1>1, <4>3, <5>1 DEF RateInv, WithinRate
        <4>4. CASE j = k /\ n = Len(l) + 1 /\ i \in 1 .. Len(l)
          BY <3>4, <4>1, <4>4
        <4>5. CASE j = k /\ n = Len(l) + 1 /\ i = Len(l) + 1
          <5>1. (n - i) + 1 = 1 /\ m[n] - m[i] = 0
            BY <2>4, <4>1, <4>5
          <5> QED
            BY <3>4, <4>5, <5>1
        <4>6. CASE j = k
          <5>1. i \in 1 .. (Len(l) + 1) /\ n \in 1 .. (Len(l) + 1)
            BY <4>1, <4>6
          <5>2. \/ n \in 1 .. Len(l)
                \/ n = Len(l) + 1 /\ i \in 1 .. Len(l)
                \/ n = Len(l) + 1 /\ i = Len(l) + 1
            <6> HIDE DEF l
            <6> QED
              BY <4>1, <5>1
          <5> HIDE DEF l
          <5> QED
            BY <4>3, <4>4, <4>5, <4>6, <5>2, Zenon
        <4> QED
          BY <4>2, <4>6, Zenon
      <3> QED
        BY <1>3, <2>3, <3>5, <3>6
    <2> QED
      BY <2>8, <2>9
  <1> QED
    BY <1>5, <1>6

LEMMA AllowKeeps ==
    ASSUME TypeOK, RateInv, NEW r \in Requests, Allow(r)
    PROVE  FiledInv' /\ (\A j \in Keys : Account(j)') /\ WithinRate'
  <1>1. held[r] \in Names /\ held[r][2] \in Keys
    BY AllowFacts DEF RateInv
  <1>2. PICK b \in Names : b = held[r]
    BY <1>1
  <1>3. PICK k \in Keys : k = b[2]
    BY <1>1, <1>2
  <1> QED
    BY <1>2, <1>3, AllowKeepsFor

LEMMA TickKeeps ==
    ASSUME TypeOK, RateInv, Tick
    PROVE  FiledInv' /\ (\A j \in Keys : Account(j)') /\ WithinRate'
  <1>1. now' = now + 1 /\ UNCHANGED <<heap, buckets, doomed, log>>
    BY DEF Tick
  <1>2. FiledInv' /\ WithinRate'
    BY <1>1, WithinSame DEF RateInv, FiledInv, OneBucketPerKey, Live
  <1>3. ASSUME NEW j \in Keys PROVE Account(j)'
    <2>1. CASE ~Live(j)
      <3>1. Below(j, log[j], Cap(j), now)
        BY <2>1 DEF RateInv, Account
      <3>2. log[j] \in Seq(Nat) /\ now \in Nat /\ now + 1 \in Nat /\ now <= now + 1 /\ Cap(j) \in Nat
        BY LimitTypes DEF TypeOK
      <3>3. Below(j, log[j], Cap(j), now + 1)
        BY <3>1, <3>2, IdleIsFull
      <3> QED
        BY <1>1, <2>1, <3>3 DEF Account, Live, Below
    <2>2. CASE Live(j)
      BY <1>1, <2>2 DEF RateInv, Account, Live, Below, Tight
    <2> QED
      BY <2>1, <2>2
  <1> QED
    BY <1>2, <1>3

LEMMA RateStep == TypeOK /\ RateInv /\ [Next]_vars => RateInv'
  <1> SUFFICES ASSUME TypeOK, RateInv, [Next]_vars PROVE RateInv'
    OBVIOUS
  <1>1. Ready'
    BY ReadyStep DEF RateInv
  <1>2. CASE UNCHANGED <<now, heap, buckets, doomed, log>>
    <2>1. FiledInv' /\ WithinRate'
      BY <1>2, WithinSame DEF RateInv, FiledInv, OneBucketPerKey, Live
    <2>2. \A k \in Keys : Account(k)'
      BY <1>2, AccountSame DEF RateInv, Live
    <2> QED
      BY <1>1, <2>1, <2>2 DEF RateInv
  <1>3. ASSUME NEW r \in Requests, Lookup(r) PROVE RateInv'
    BY <1>2, <1>3 DEF Lookup
  <1>4. ASSUME NEW r \in Requests, Create(r) PROVE RateInv'
    BY <1>1, <1>4, CreateKeeps DEF RateInv
  <1>5. ASSUME NEW r \in Requests, Allow(r) PROVE RateInv'
    BY <1>1, <1>5, AllowKeeps DEF RateInv
  <1>6. ASSUME NEW k \in Keys, FindIdle(k) \/ Evict(k) \/ Invalidate(k) PROVE RateInv'
    BY <1>1, <1>6, UnfileKeeps, EvictKeeps DEF RateInv
  <1>7. CASE Tick
    BY <1>1, <1>7, TickKeeps DEF RateInv
  <1>8. CASE UNCHANGED vars
    BY <1>2, <1>8 DEF vars
  <1>9. Managed \subseteq Keys
    BY RateAssumption
  <1> QED
    BY <1>3, <1>4, <1>5, <1>6, <1>7, <1>8, <1>9 DEF Next

LEMMA RateHolds == Spec => [](TypeOK /\ RateInv)
  <1>1. TypeOK /\ RateInv /\ [Next]_vars => TypeOK'
    BY RateTypeStep DEF RateInv
  <1> QED
    BY RateTypeInit, RateInvInit, <1>1, RateStep, PTL DEF Spec

\* Buckets, logs and requests hold values of their types; no bucket holds more
\* than its burst.
THEOREM RateTypeCorrect == Spec => []TypeOK
  BY RateHolds, PTL

\* A filed bucket is the one in the map.
THEOREM BucketsAreShared == Spec => []OneBucketPerKey
  BY RateHolds, PTL DEF RateInv, FiledInv

\* In every stretch of time the buckets filed under a key let pass at most its
\* burst and what was refilled meanwhile, whatever its limits are.
THEOREM RateIsKept == Spec => []WithinRate
  BY RateHolds, PTL DEF RateInv

\* A refused request would have exceeded the limit in some stretch that ends
\* now.
LEMMA RefusalStep ==
    ASSUME TypeOK, RateInv, [Next]_vars, NEW r \in Requests,
           pc[r] = "allow", pc'[r] = "limited", heap[held[r]].filed
    PROVE  LET k == held[r][2]
               n == Len(log[k])
           IN  \/ ~Fits(k, 1, 0)
               \/ \E i \in 1 .. n : ~Fits(k, (n - i) + 2, now - log[k][i])
  <1> DEFINE b == held[r]
             k == b[2]
             x == heap[b].tokens
             f == heap[b].lastFill
             t == Refilled(heap[b], k)
             l == log[k]
  <1>1. Allow(r) /\ ~Enough(t)
    <2>1. ASSUME NEW q \in Requests, Lookup(q) \/ Create(q) PROVE FALSE
      BY <2>1 DEF Lookup, Create, TypeOK
    <2>2. ASSUME NEW q \in Requests, q # r, Allow(q) PROVE FALSE
      BY <2>2 DEF Allow, TypeOK
    <2>3. ASSUME Allow(r) PROVE ~Enough(t)
      BY <2>3 DEF Allow, TypeOK
    <2>4. pc' # pc
      OBVIOUS
    <2>5. ~(Tick \/ UNCHANGED vars) /\ \A j \in Keys \cup Managed : ~FindIdle(j) /\ ~Evict(j) /\ ~Invalidate(j)
      BY <2>4 DEF Tick, vars, FindIdle, Evict, Invalidate
    <2> QED
      BY <2>1, <2>2, <2>3, <2>5 DEF Next
  <1>2. b \in Names /\ k \in Keys /\ t \in Nat
    BY <1>1, AllowFacts DEF RateInv
  <1>3. buckets[k] = b /\ Live(k)
    BY <1>2, RateAssumption DEF RateInv, FiledInv, OneBucketPerKey, Live
  <1>4. /\ x \in Nat /\ f \in Nat /\ now \in Nat /\ f <= now /\ l \in Seq(Nat)
        /\ Scale \in Nat /\ Cap(k) \in Nat
    BY <1>2, LimitTypes DEF TypeOK, Bucket
  <1>5. Tight(k, l, x, f)
    BY <1>2, <1>3 DEF RateInv, Account
  <1>6. t = x + Gain(k, now - f) \/ (t = Cap(k) /\ t <= x + Gain(k, now - f))
    BY <1>2, RefilledFacts
  <1>7. t < Scale
    BY <1>1, <1>2, <1>4 DEF Enough
  <1> HIDE DEF b, k, x, f, t, l
  <1>8. Tight(k, l, t, now)
    BY <1>2, <1>4, <1>5, <1>6, RefillKeeps
  <1>9. CASE t >= Cap(k)
    <2>1. Cost(1) = Scale /\ Gain(k, 0) = 0
      BY <1>2, CostTypes, GainTypes
    <2>2. ~(Cost(1) <= Cap(k) + Gain(k, 0))
      BY <1>2, <1>4, <1>7, <1>9, <2>1
    <2>3. ~Fits(k, 1, 0)
      BY <2>2 DEF Fits, Cost, Cap, Gain
    <2> QED
      BY <2>3 DEF b, k
  <1>10. ASSUME NEW i \in 1 .. Len(l),
                t + Cost((Len(l) - i) + 1) >= Cap(k) + Gain(k, now - l[i])
         PROVE  ~Fits(k, (Len(l) - i) + 2, now - l[i])
    <2>1. /\ l[i] \in Nat /\ Cost((Len(l) - i) + 1) \in Nat
          /\ Cost(((Len(l) + 1) - i) + 1) = Cost((Len(l) - i) + 1) + Scale
      BY <1>4, StretchTypes
    <2>2. now - l[i] \in Int /\ ((Len(l) + 1) - i) + 1 = (Len(l) - i) + 2
      BY <1>4, <2>1, ElementFacts
    <2>3. Gain(k, now - l[i]) \in Int
      BY <1>2, <2>2, GainTypes
    <2>4. ~(Cost((Len(l) - i) + 2) <= Cap(k) + Gain(k, now - l[i]))
      BY <1>2, <1>4, <1>7, <1>10, <2>1, <2>2, <2>3
    <2> QED
      BY <2>4 DEF Fits, Cost, Cap, Gain
  <1> QED
    BY <1>8, <1>9, <1>10 DEF Tight, b, k, l

\* A refusal by the filed bucket has its cause.
THEOREM RefusalsHaveCause == Spec => RefusedForCause
  <1>1. TypeOK /\ RateInv /\ [Next]_vars =>
          [\A r \in Requests : (pc[r] = "allow" /\ pc'[r] = "limited" /\ heap[held[r]].filed) =>
              LET k == held[r][2]
                  n == Len(log[k])
              IN  \/ ~Fits(k, 1, 0)
                  \/ \E i \in 1 .. n : ~Fits(k, (n - i) + 2, now - log[k][i])]_vars
    BY RefusalStep
  <1> QED
    BY <1>1, RateHolds, PTL DEF Spec, RefusedForCause
=============================================================================
