------------------------ MODULE CacheCoherenceProofs ------------------------
(***************************************************************************)
(* Proofs about the coherence protocol: for every number of caches,         *)
(* addresses and threads, every protocol and every size of the directory,    *)
(* a line that one cache may write is in no other cache, and the directory   *)
(* knows every copy.                                                        *)
(***************************************************************************)
EXTENDS CacheCoherence, FiniteSetTheorems, WellFoundedInduction, TLAPS

-----------------------------------------------------------------------------
(* Messages under way.  Of a queue of messages the proofs only ask which      *)
(* types of message about an address it holds, whether it holds two, and      *)
(* which is ahead of which.                                                  *)
On(m, T, a) == m.a = a /\ m.t \in T
Has(s, T, a) == \E i \in DOMAIN s : On(s[i], T, a)
AtMostOne(s, T, a) ==
    \A i, j \in DOMAIN s : On(s[i], T, a) /\ On(s[j], T, a) => i = j
Behind(s, T, U, a) ==
    \E i, j \in DOMAIN s : i < j /\ On(s[i], T, a) /\ On(s[j], U, a)

DataReps == {"EX_REP", "SH_REP"}
Reps     == {"EX_REP", "SH_REP", "UPGRADE_REP"}
Gives    == {"INV_REP", "FLUSH_REP"}
Fetches  == {"EX_REQ", "SH_REQ"}
Reqs     == {"EX_REQ", "SH_REQ", "UPGRADE_REQ"}

(* A request from the directory that will find a copy: the cache has one       *)
(* (copy), or it gets one before.  Two of them.                              *)
Live(s, T, a, copy) == (copy /\ Has(s, T, a)) \/ Behind(s, DataReps, T, a)
LiveTwice(s, T, a, copy) ==
    \E i, j \in DOMAIN s : /\ i < j /\ On(s[i], T, a) /\ On(s[j], T, a)
                           /\ copy \/ \E k \in DOMAIN s : k < i /\ On(s[k], DataReps, a)

(* Two queues that are alike where address a is concerned. *)
Alike(s, z, a) ==
    /\ \A T : /\ Has(z, T, a) <=> Has(s, T, a)
              /\ AtMostOne(z, T, a) <=> AtMostOne(s, T, a)
              /\ \A copy \in BOOLEAN : LiveTwice(z, T, a, copy) <=> LiveTwice(s, T, a, copy)
    /\ \A T, U : Behind(z, T, U, a) <=> Behind(s, T, U, a)

LEMMA AlikeSelf == ASSUME NEW s, NEW a PROVE Alike(s, s, a)
  BY DEF Alike

LEMMA AlikeChain ==
  ASSUME NEW s, NEW y, NEW z, NEW a, Alike(s, y, a), Alike(y, z, a) PROVE Alike(s, z, a)
  BY DEF Alike

LEMMA AlikeLive ==
  ASSUME NEW s, NEW z, NEW a, Alike(s, z, a), NEW T, NEW copy \in BOOLEAN
  PROVE  Live(z, T, a, copy) <=> Live(s, T, a, copy)
  BY DEF Alike, Live

(* Only the data of some messages changes. *)
LEMMA AlikeData ==
  ASSUME NEW M, NEW s \in Seq(M), NEW z \in Seq(M), NEW a, Len(z) = Len(s),
         \A i \in 1 .. Len(s) : z[i].a = s[i].a /\ z[i].t = s[i].t
  PROVE  Alike(s, z, a)
<1>1. DOMAIN s = DOMAIN z /\ DOMAIN s = 1 .. Len(s)
  OBVIOUS
<1>2. \A T : \A i \in DOMAIN s : On(z[i], T, a) <=> On(s[i], T, a)
  BY <1>1 DEF On
<1> QED BY <1>1, <1>2 DEF Alike, Has, AtMostOne, Behind, LiveTwice

(* The head of a queue is taken. *)
LEMMA Popped ==
  ASSUME NEW M, NEW s \in Seq(M), s # <<>>
  PROVE  /\ Head(s) \in M /\ Head(s) = s[1] /\ Tail(s) \in Seq(M)
         /\ DOMAIN s = 1 .. Len(s) /\ 1 \in DOMAIN s
         /\ \A i \in DOMAIN Tail(s) : i + 1 \in DOMAIN s /\ Tail(s)[i] = s[i + 1]
         /\ \A i \in DOMAIN s : i # 1 => /\ i - 1 \in DOMAIN Tail(s)
                                         /\ s[i] = Tail(s)[i - 1]
         /\ DOMAIN s \subseteq Nat /\ DOMAIN Tail(s) \subseteq Nat
         /\ \A i \in DOMAIN Tail(s) : i >= 1
<1>1. Len(s) \in Nat /\ Len(s) # 0 /\ Len(Tail(s)) = Len(s) - 1
  OBVIOUS
<1>2. DOMAIN s = 1 .. Len(s) /\ DOMAIN Tail(s) = 1 .. Len(s) - 1
  BY <1>1
<1>3. \A i \in 1 .. Len(s) - 1 : Tail(s)[i] = s[i + 1]
  BY <1>1
<1>4. \A i \in 1 .. Len(s) : i # 1 => i - 1 \in 1 .. Len(s) - 1 /\ (i - 1) + 1 = i
  BY <1>1
<1> QED BY <1>1, <1>2, <1>3, <1>4

LEMMA PopHas ==
  ASSUME NEW M, NEW s \in Seq(M), s # <<>>, NEW a
  PROVE  /\ \A T : Has(s, T, a) <=> On(Head(s), T, a) \/ Has(Tail(s), T, a)
         /\ \A T : AtMostOne(s, T, a) => /\ AtMostOne(Tail(s), T, a)
                                         /\ On(Head(s), T, a) => ~Has(Tail(s), T, a)
         /\ \A T, U : Behind(Tail(s), T, U, a) => Behind(s, T, U, a)
         /\ \A T, U : On(Head(s), T, a) /\ Has(Tail(s), U, a) => Behind(s, T, U, a)
<1> DEFINE z == Tail(s)
<1>1. /\ Head(s) = s[1] /\ 1 \in DOMAIN s
      /\ \A i \in DOMAIN z : i + 1 \in DOMAIN s /\ z[i] = s[i + 1]
      /\ \A i \in DOMAIN s : i # 1 => i - 1 \in DOMAIN z /\ s[i] = z[i - 1]
      /\ DOMAIN s \subseteq Nat /\ DOMAIN z \subseteq Nat
      /\ \A i \in DOMAIN z : i >= 1
  BY Popped
<1> HIDE DEF z
<1>2. \A T : Has(s, T, a) <=> On(Head(s), T, a) \/ Has(z, T, a)
  BY <1>1 DEF Has
<1>3. \A T, U : Behind(z, T, U, a) => Behind(s, T, U, a)
  <2> SUFFICES ASSUME NEW T, NEW U, NEW i \in DOMAIN z, NEW j \in DOMAIN z, i < j,
                      On(z[i], T, a), On(z[j], U, a)
               PROVE  Behind(s, T, U, a)
    BY DEF Behind
  <2>1. i + 1 \in DOMAIN s /\ j + 1 \in DOMAIN s /\ i + 1 < j + 1
    BY <1>1
  <2> QED BY <1>1, <2>1 DEF Behind
<1>4. \A T, U : On(Head(s), T, a) /\ Has(z, U, a) => Behind(s, T, U, a)
  <2> SUFFICES ASSUME NEW T, NEW U, On(Head(s), T, a), NEW j \in DOMAIN z, On(z[j], U, a)
               PROVE  Behind(s, T, U, a)
    BY DEF Has
  <2>1. j + 1 \in DOMAIN s /\ j \in Nat
    BY <1>1
  <2>2. 1 < j + 1
    BY <1>1, <2>1
  <2> QED BY <1>1, <2>1, <2>2 DEF Behind
<1>5. \A T : AtMostOne(s, T, a) => AtMostOne(z, T, a)
  <2> SUFFICES ASSUME NEW T, AtMostOne(s, T, a), NEW i \in DOMAIN z, NEW j \in DOMAIN z,
                      On(z[i], T, a), On(z[j], T, a)
               PROVE  i = j
    BY DEF AtMostOne
  <2>1. i + 1 \in DOMAIN s /\ j + 1 \in DOMAIN s /\ i \in Nat /\ j \in Nat
    BY <1>1
  <2>2. i + 1 = j + 1
    BY <1>1, <2>1 DEF AtMostOne
  <2> QED BY <2>1, <2>2
<1>6. \A T : AtMostOne(s, T, a) /\ On(Head(s), T, a) => ~Has(z, T, a)
  <2> SUFFICES ASSUME NEW T, AtMostOne(s, T, a), On(Head(s), T, a), Has(z, T, a)
               PROVE  FALSE
    OBVIOUS
  <2>1. Behind(s, T, T, a)
    BY <1>4
  <2>2. PICK i \in DOMAIN s, j \in DOMAIN s : i < j /\ On(s[i], T, a) /\ On(s[j], T, a)
    BY <2>1 DEF Behind
  <2>3. i = j /\ i \in Nat
    BY <1>1, <2>2 DEF AtMostOne
  <2> QED BY <2>2, <2>3
<1> QED BY <1>2, <1>3, <1>4, <1>5, <1>6 DEF z

LEMMA PopLive ==
  ASSUME NEW M, NEW s \in Seq(M), s # <<>>, NEW a, NEW T, NEW old \in BOOLEAN,
         NEW new \in BOOLEAN, new => old \/ On(Head(s), DataReps, a)
  PROVE  /\ Live(Tail(s), T, a, new) => Live(s, T, a, old)
         /\ LiveTwice(Tail(s), T, a, new) => LiveTwice(s, T, a, old)
         /\ old /\ On(Head(s), T, a) /\ Live(Tail(s), T, a, old) => LiveTwice(s, T, a, old)
<1> DEFINE z == Tail(s)
<1>1. /\ Head(s) = s[1] /\ 1 \in DOMAIN s
      /\ \A i \in DOMAIN z : i + 1 \in DOMAIN s /\ z[i] = s[i + 1]
      /\ \A i \in DOMAIN s : i # 1 => i - 1 \in DOMAIN z /\ s[i] = z[i - 1]
      /\ DOMAIN s \subseteq Nat /\ DOMAIN z \subseteq Nat
      /\ \A i \in DOMAIN z : i >= 1
  BY Popped
<1>2. /\ Has(s, T, a) <=> On(Head(s), T, a) \/ Has(z, T, a)
      /\ Behind(z, DataReps, T, a) => Behind(s, DataReps, T, a)
      /\ On(Head(s), DataReps, a) /\ Has(z, T, a) => Behind(s, DataReps, T, a)
      /\ Behind(z, T, T, a) => Behind(s, T, T, a)
      /\ On(Head(s), T, a) /\ Has(z, T, a) => Behind(s, T, T, a)
  BY PopHas
<1> HIDE DEF z
<1>3. Live(z, T, a, new) => Live(s, T, a, old)
  BY <1>2 DEF Live
<1>4. LiveTwice(z, T, a, new) => LiveTwice(s, T, a, old)
  <2> SUFFICES ASSUME NEW i \in DOMAIN z, NEW j \in DOMAIN z, i < j,
                      On(z[i], T, a), On(z[j], T, a),
                      new \/ \E k \in DOMAIN z : k < i /\ On(z[k], DataReps, a)
               PROVE  LiveTwice(s, T, a, old)
    BY DEF LiveTwice
  <2>1. /\ i + 1 \in DOMAIN s /\ j + 1 \in DOMAIN s /\ i + 1 < j + 1
        /\ On(s[i + 1], T, a) /\ On(s[j + 1], T, a)
    BY <1>1
  <2>2. CASE new /\ old
    BY <2>1, <2>2 DEF LiveTwice
  <2>3. CASE new /\ On(Head(s), DataReps, a)
    <3>1. 1 < i + 1
      BY <1>1
    <3> QED BY <1>1, <2>1, <2>3, <3>1 DEF LiveTwice
  <2>4. CASE \E k \in DOMAIN z : k < i /\ On(z[k], DataReps, a)
    <3>1. PICK k \in DOMAIN z : k < i /\ On(z[k], DataReps, a)
      BY <2>4
    <3>2. k + 1 \in DOMAIN s /\ k + 1 < i + 1 /\ On(s[k + 1], DataReps, a)
      BY <1>1, <3>1
    <3> QED BY <2>1, <3>2 DEF LiveTwice
  <2> QED BY <2>2, <2>3, <2>4
<1>5. ASSUME old, On(Head(s), T, a), Live(z, T, a, old)
      PROVE  LiveTwice(s, T, a, old)
  <2>1. Has(z, T, a)
    BY <1>5 DEF Live, Has, Behind
  <2> QED BY <1>2, <1>5, <2>1 DEF Behind, LiveTwice
<1> QED BY <1>3, <1>4, <1>5 DEF z

LEMMA PopOther ==
  ASSUME NEW M, NEW s \in Seq(M), s # <<>>, NEW a, Head(s).a # a
  PROVE  Alike(s, Tail(s), a)
<1> DEFINE z == Tail(s)
<1>1. /\ Head(s) = s[1] /\ 1 \in DOMAIN s
      /\ \A i \in DOMAIN z : i + 1 \in DOMAIN s /\ z[i] = s[i + 1]
      /\ \A i \in DOMAIN s : i # 1 => i - 1 \in DOMAIN z /\ s[i] = z[i - 1]
      /\ DOMAIN s \subseteq Nat /\ DOMAIN z \subseteq Nat
      /\ \A i \in DOMAIN z : i >= 1
  BY Popped
<1> HIDE DEF z
<1>2. \A T : \A i \in DOMAIN s : On(s[i], T, a) =>
               i - 1 \in DOMAIN z /\ On(z[i - 1], T, a)
  BY <1>1 DEF On
<1>3. \A T : \A i \in DOMAIN z : On(z[i], T, a) =>
               i + 1 \in DOMAIN s /\ On(s[i + 1], T, a)
  BY <1>1
<1>4. \A T : Has(z, T, a) <=> Has(s, T, a)
  BY <1>2, <1>3 DEF Has
<1>5. \A T, U : Behind(z, T, U, a) => Behind(s, T, U, a)
  BY PopHas DEF z
<1>6. \A T, U : Behind(s, T, U, a) => Behind(z, T, U, a)
  <2> SUFFICES ASSUME NEW T, NEW U, NEW i \in DOMAIN s, NEW j \in DOMAIN s, i < j,
                      On(s[i], T, a), On(s[j], U, a)
               PROVE  Behind(z, T, U, a)
    BY DEF Behind
  <2>1. /\ i - 1 \in DOMAIN z /\ j - 1 \in DOMAIN z /\ i - 1 < j - 1
        /\ On(z[i - 1], T, a) /\ On(z[j - 1], U, a)
    BY <1>1, <1>2
  <2> QED BY <2>1 DEF Behind
<1>7. \A T : AtMostOne(s, T, a) => AtMostOne(z, T, a)
  <2> SUFFICES ASSUME NEW T, AtMostOne(s, T, a) PROVE AtMostOne(Tail(s), T, a)
    BY DEF z
  <2> QED BY PopHas
<1>8. \A T : AtMostOne(z, T, a) => AtMostOne(s, T, a)
  <2> SUFFICES ASSUME NEW T, AtMostOne(z, T, a), NEW i \in DOMAIN s, NEW j \in DOMAIN s,
                      On(s[i], T, a), On(s[j], T, a)
               PROVE  i = j
    BY DEF AtMostOne
  <2>1. /\ i - 1 \in DOMAIN z /\ j - 1 \in DOMAIN z /\ i \in Nat /\ j \in Nat
        /\ On(z[i - 1], T, a) /\ On(z[j - 1], T, a)
    BY <1>1, <1>2
  <2>2. i - 1 = j - 1
    BY <2>1 DEF AtMostOne
  <2> QED BY <2>1, <2>2
<1>9. \A T : \A copy \in BOOLEAN : LiveTwice(z, T, a, copy) => LiveTwice(s, T, a, copy)
  BY PopLive DEF z
<1>10. \A T : \A copy \in BOOLEAN : LiveTwice(s, T, a, copy) => LiveTwice(z, T, a, copy)
  <2> SUFFICES ASSUME NEW T, NEW copy \in BOOLEAN, NEW i \in DOMAIN s, NEW j \in DOMAIN s, i < j,
                      On(s[i], T, a), On(s[j], T, a),
                      copy \/ \E k \in DOMAIN s : k < i /\ On(s[k], DataReps, a)
               PROVE  LiveTwice(z, T, a, copy)
    BY DEF LiveTwice
  <2>1. /\ i - 1 \in DOMAIN z /\ j - 1 \in DOMAIN z /\ i - 1 < j - 1
        /\ On(z[i - 1], T, a) /\ On(z[j - 1], T, a)
    BY <1>1, <1>2
  <2>2. CASE copy
    BY <2>1, <2>2 DEF LiveTwice
  <2>3. CASE \E k \in DOMAIN s : k < i /\ On(s[k], DataReps, a)
    <3>1. PICK k \in DOMAIN s : k < i /\ On(s[k], DataReps, a)
      BY <2>3
    <3>2. k - 1 \in DOMAIN z /\ k - 1 < i - 1 /\ On(z[k - 1], DataReps, a)
      BY <1>1, <1>2, <3>1
    <3> QED BY <2>1, <3>2 DEF LiveTwice
  <2> QED BY <2>2, <2>3
<1>11. Alike(s, z, a)
  BY <1>4, <1>5, <1>6, <1>7, <1>8, <1>9, <1>10, Zenon DEF Alike
<1> QED BY <1>11 DEF z

(* A message joins a queue. *)
LEMMA Pushed ==
  ASSUME NEW M, NEW s \in Seq(M), NEW m \in M
  PROVE  /\ Append(s, m) \in Seq(M)
         /\ DOMAIN Append(s, m) = DOMAIN s \union {Len(s) + 1}
         /\ \A i \in DOMAIN s : i < Len(s) + 1 /\ Append(s, m)[i] = s[i]
         /\ Append(s, m)[Len(s) + 1] = m
         /\ DOMAIN s \subseteq Nat /\ Len(s) \in Nat
  OBVIOUS

LEMMA PushHas ==
  ASSUME NEW M, NEW s \in Seq(M), NEW m \in M, NEW a
  PROVE  /\ \A T : Has(Append(s, m), T, a) <=> Has(s, T, a) \/ On(m, T, a)
         /\ \A T : AtMostOne(s, T, a) /\ (On(m, T, a) => ~Has(s, T, a))
                      => AtMostOne(Append(s, m), T, a)
         /\ \A T, U : Behind(Append(s, m), T, U, a)
                         <=> Behind(s, T, U, a) \/ (Has(s, T, a) /\ On(m, U, a))
<1> DEFINE z == Append(s, m)
           n == Len(s) + 1
<1>1. /\ DOMAIN z = DOMAIN s \union {n} /\ z[n] = m
      /\ \A i \in DOMAIN s : i < n /\ z[i] = s[i]
      /\ DOMAIN s \subseteq Nat /\ n \in Nat
  BY Pushed
<1> HIDE DEF z, n
<1>2. \A T : Has(z, T, a) <=> Has(s, T, a) \/ On(m, T, a)
  BY <1>1 DEF Has
<1>3. \A T, U : Behind(z, T, U, a) <=> Behind(s, T, U, a) \/ (Has(s, T, a) /\ On(m, U, a))
  <2> TAKE T, U
  <2>1. ASSUME Behind(z, T, U, a)
        PROVE  Behind(s, T, U, a) \/ (Has(s, T, a) /\ On(m, U, a))
    <3>1. PICK i \in DOMAIN z, j \in DOMAIN z : i < j /\ On(z[i], T, a) /\ On(z[j], U, a)
      BY <2>1 DEF Behind
    <3>2. i \in DOMAIN s
      BY <1>1, <3>1
    <3> QED BY <1>1, <3>1, <3>2 DEF Behind, Has
  <2>2. Behind(s, T, U, a) => Behind(z, T, U, a)
    BY <1>1 DEF Behind
  <2>3. Has(s, T, a) /\ On(m, U, a) => Behind(z, T, U, a)
    BY <1>1 DEF Behind, Has
  <2> QED BY <2>1, <2>2, <2>3
<1>4. \A T : AtMostOne(s, T, a) /\ (On(m, T, a) => ~Has(s, T, a)) => AtMostOne(z, T, a)
  BY <1>1 DEF AtMostOne, Has
<1> QED BY <1>2, <1>3, <1>4 DEF z

LEMMA PushLive ==
  ASSUME NEW M, NEW s \in Seq(M), NEW m \in M, NEW a, NEW T, NEW copy \in BOOLEAN
  PROVE  /\ Live(Append(s, m), T, a, copy)
              <=> \/ Live(s, T, a, copy)
                  \/ On(m, T, a) /\ (copy \/ Has(s, DataReps, a))
         /\ LiveTwice(Append(s, m), T, a, copy)
              => LiveTwice(s, T, a, copy) \/ (On(m, T, a) /\ Live(s, T, a, copy))
<1> DEFINE z == Append(s, m)
           n == Len(s) + 1
<1>1. /\ DOMAIN z = DOMAIN s \union {n} /\ z[n] = m
      /\ \A i \in DOMAIN s : i < n /\ z[i] = s[i]
      /\ DOMAIN s \subseteq Nat /\ n \in Nat
  BY Pushed
<1>2. /\ Has(z, T, a) <=> Has(s, T, a) \/ On(m, T, a)
      /\ Behind(z, DataReps, T, a)
           <=> Behind(s, DataReps, T, a) \/ (Has(s, DataReps, a) /\ On(m, T, a))
  BY PushHas
<1> HIDE DEF z, n
<1>3. Live(z, T, a, copy) <=> \/ Live(s, T, a, copy)
                              \/ On(m, T, a) /\ (copy \/ Has(s, DataReps, a))
  BY <1>2 DEF Live
<1>4. ASSUME LiveTwice(z, T, a, copy)
      PROVE  LiveTwice(s, T, a, copy) \/ (On(m, T, a) /\ Live(s, T, a, copy))
  <2>1. PICK i \in DOMAIN z, j \in DOMAIN z :
           /\ i < j /\ On(z[i], T, a) /\ On(z[j], T, a)
           /\ copy \/ \E k \in DOMAIN z : k < i /\ On(z[k], DataReps, a)
    BY <1>4 DEF LiveTwice
  <2>2. i \in DOMAIN s /\ z[i] = s[i]
    BY <1>1, <2>1
  <2>3. copy \/ \E k \in DOMAIN s : k < i /\ On(s[k], DataReps, a)
    BY <1>1, <2>1, <2>2
  <2>4. CASE j \in DOMAIN s
    BY <1>1, <2>1, <2>2, <2>3, <2>4 DEF LiveTwice
  <2>5. CASE j = n
    <3>1. On(m, T, a)
      BY <1>1, <2>1, <2>5
    <3>2. Live(s, T, a, copy)
      BY <2>1, <2>2, <2>3 DEF Live, Has, Behind
    <3> QED BY <3>1, <3>2
  <2> QED BY <1>1, <2>4, <2>5
<1> QED BY <1>3, <1>4 DEF z

LEMMA PushOther ==
  ASSUME NEW M, NEW s \in Seq(M), NEW m \in M, NEW a, m.a # a
  PROVE  Alike(s, Append(s, m), a)
<1> DEFINE z == Append(s, m)
           n == Len(s) + 1
<1>1. /\ DOMAIN z = DOMAIN s \union {n} /\ z[n] = m
      /\ \A i \in DOMAIN s : i < n /\ z[i] = s[i]
      /\ DOMAIN s \subseteq Nat /\ n \in Nat
  BY Pushed
<1> HIDE DEF z, n
<1>2. \A T : ~On(m, T, a)
  BY DEF On
<1>3. \A T : Has(z, T, a) <=> Has(s, T, a)
  BY <1>1, <1>2 DEF Has
<1>4. \A T : AtMostOne(z, T, a) <=> AtMostOne(s, T, a)
  BY <1>1, <1>2 DEF AtMostOne
<1>5. \A T, U : Behind(z, T, U, a) <=> Behind(s, T, U, a)
  BY <1>1, <1>2 DEF Behind
<1>6. \A T : \A copy \in BOOLEAN : LiveTwice(z, T, a, copy) <=> LiveTwice(s, T, a, copy)
  <2> TAKE T
  <2> TAKE copy \in BOOLEAN
  <2>1. LiveTwice(s, T, a, copy) => LiveTwice(z, T, a, copy)
    BY <1>1 DEF LiveTwice
  <2>2. LiveTwice(z, T, a, copy) => LiveTwice(s, T, a, copy)
    BY <1>1, <1>2 DEF LiveTwice
  <2> QED BY <2>1, <2>2
<1>7. Alike(s, z, a)
  BY <1>3, <1>4, <1>5, <1>6, Zenon DEF Alike
<1> QED BY <1>7 DEF z

(* No copy, and none on the way: no request is live. *)
LEMMA NoneLive ==
  ASSUME NEW s, NEW a, ~Has(s, DataReps, a)
  PROVE  \A T : ~Live(s, T, a, FALSE) /\ ~LiveTwice(s, T, a, FALSE)
  BY DEF Live, LiveTwice, Has, Behind

LEMMA EmptyQueue ==
  ASSUME NEW a, NEW copy \in BOOLEAN
  PROVE  /\ \A T : /\ ~Has(<<>>, T, a) /\ AtMostOne(<<>>, T, a)
                   /\ ~Live(<<>>, T, a, copy) /\ ~LiveTwice(<<>>, T, a, copy)
         /\ \A T, U : ~Behind(<<>>, T, U, a)
<1>1. DOMAIN <<>> = {}
  OBVIOUS
<1> QED BY <1>1 DEF Has, AtMostOne, Behind, Live, LiveTwice


-----------------------------------------------------------------------------
(* Types. *)
Cores == Llcs \union {NoCore}
Filled == Data \ {NoData}    \* a buffer that is there
CacheLine == {x \in [st : CStates, data : Data] : x.st # "I" => x.data # NoData}
Waiter == [th : Threads, ex : BOOLEAN]
ToDirMsg == {m \in [t : Reqs \union Gives \union {"WB_REP"}, a : Addrs, data : Data] :
                m.t \in {"FLUSH_REP", "WB_REP"} => m.data # NoData}
ToCacheMsg == {m \in [t : Reps \union {"INV_REQ", "FLUSH_REQ", "WB_REQ"}, a : Addrs, data : Data] :
                  m.t \in DataReps => m.data # NoData}
DirEntry == [st : {"U", "S", "E", "M"}, sharers : SUBSET Llcs, owner : Cores, fwd : Cores]
DirReq == [t : Reqs \union {"NULLIFY_REQ"}, c : Cores, wait : BOOLEAN, from : Cores, buf : Data]
Directory == [slots : SUBSET Addrs, replaced : SUBSET Addrs, junk : Cores,
              e : [Addrs -> DirEntry], q : [Addrs -> Seq(DirReq)],
              mem : [Addrs -> Filled], reply : [Addrs -> Seq(Filled)]]

Types ==
    /\ sys \in Systems
    /\ cache \in [Llcs -> [Addrs -> CacheLine]]
    /\ waiters \in [Llcs -> [Addrs -> Seq(Waiter)]]
    /\ toDir \in [Llcs -> Seq(ToDirMsg)]
    /\ toCache \in [Llcs -> Seq(ToCacheMsg)]
    /\ dir \in Directory

-----------------------------------------------------------------------------
(* The inductive invariant, for one cache c and one address a: st is the state  *)
(* of the line in c, ws who waits for it, s the messages to c and r those from  *)
(* c; q is the directory's queue of requests for the line and e its entry.     *)

(* The front request has been granted and waits for data only. *)
Granted(q) == q # <<>> /\ (Head(q).wait \/ Head(q).from # NoCore)
GrantedTo(q, c) == Granted(q) /\ Head(q).c = c
Queued(q, c) == \E i \in DOMAIN q : q[i].c = c
Unique(q, c) == \A i, j \in DOMAIN q : q[i].c = c /\ q[j].c = c => i = j
Pending(q, c) ==
    \E i \in DOMAIN q : q[i].c = c /\ q[i].t \in Fetches /\ ~(i = 1 /\ Granted(q))

(* A cache is listed exactly while it has a copy, a copy is on its way to it,   *)
(* it was granted one, or its message that it gave up its copy is on the way;  *)
(* and it is in one of these situations only.                                *)
Listed(c, a, st, s, r, q, e) ==
    c \in e.sharers <=> \/ st # "I" \/ Has(s, DataReps, a)
                        \/ GrantedTo(q, c) \/ Has(r, Gives, a)
OneStake(c, a, st, s, r, q) ==
    /\ st # "I" => ~Has(s, DataReps, a) /\ ~GrantedTo(q, c) /\ ~Has(r, Gives, a)
    /\ Has(s, DataReps, a) => ~GrantedTo(q, c) /\ ~Has(r, Gives, a)
    /\ GrantedTo(q, c) => ~Has(r, Gives, a)
    /\ AtMostOne(r, Gives, a)

(* A cache has one request at a time: on its way, queued, or answered; and     *)
(* then somebody waits for it.                                              *)
OneRequest(c, a, s, r, q) ==
    /\ AtMostOne(s, Reps, a) /\ AtMostOne(r, Reqs, a)
    /\ Has(s, Reps, a) => ~Has(r, Reqs, a) /\ ~Queued(q, c)
    /\ Has(r, Reqs, a) => ~Queued(q, c)
    /\ Unique(q, c)
SomebodyWaits(c, a, st, ws, s, r, q) ==
    Has(s, Reps, a) \/ Has(r, Reqs, a) \/ Queued(q, c) \/ st = "SU" => ws # <<>>

(* Who asks for the line has none, and has said so before it asked. *)
FetchAfterGive(c, a, st, r, q, e) ==
    /\ Has(r, Fetches, a) => st = "I"
    /\ ~Behind(r, Fetches, Gives, a)
    /\ Pending(q, c) => c \notin e.sharers

(* The directory knows of a right to write. *)
OwnerKnown(a, st, s, e) ==
    \/ st \in {"E", "M"}
    \/ Has(s, {"EX_REP"}, a)
    \/ Has(s, {"UPGRADE_REP"}, a) /\ st # "I"
    => e.st \in {"E", "M"}

(* A write-back is under way for the front request only, from the owner or     *)
(* the forwarder; who answers it has no right to write any more.              *)
WriteBackUnderWay(c, a, st, s, r, q, e) ==
    /\ \/ Live(s, {"WB_REQ"}, a, st # "I")
       \/ Has(r, {"WB_REP"}, a)
       => /\ q # <<>> /\ Head(q).t = "SH_REQ" /\ ~Head(q).wait
          /\ e.st \in {"E", "M"} \/ Head(q).from = c
    /\ Has(r, {"WB_REP"}, a) =>
           /\ c \in e.sharers /\ st \notin {"E", "M"}
           /\ ~Has(s, {"EX_REP"}, a) /\ ~Has(s, {"UPGRADE_REP"}, a)
           /\ ~Has(r, {"FLUSH_REP"}, a)
           /\ ~Live(s, {"WB_REQ"}, a, st # "I")
    /\ AtMostOne(r, {"WB_REP"}, a) /\ ~Behind(r, Gives, {"WB_REP"}, a)
    /\ ~LiveTwice(s, {"WB_REQ"}, a, st # "I")
    /\ st # "I" => ~Behind(s, {"WB_REQ"}, {"UPGRADE_REP"}, a)

(* A flush is under way for the front request, or comes from an owner that      *)
(* evicted the line; an upgrade flushes a sharer only if its requester has     *)
(* no copy.                                                                 *)
UpgradeWithoutCopy(q, e) == Head(q).t = "UPGRADE_REQ" /\ Head(q).c \notin e.sharers
FlushUnderWay(c, a, st, s, r, q, e) ==
    /\ Live(s, {"FLUSH_REQ"}, a, st # "I") =>
           /\ q # <<>> /\ Head(q).t # "SH_REQ" /\ ~Head(q).wait /\ Head(q).c # c
           /\ e.st \in {"E", "M"} \/ UpgradeWithoutCopy(q, e)
    /\ Has(r, {"FLUSH_REP"}, a) =>
           \/ e.st \in {"E", "M"}
           \/ q # <<>> /\ ~Head(q).wait /\ UpgradeWithoutCopy(q, e)

PairInv(c, a, st, ws, s, r, q, e) ==
    /\ Listed(c, a, st, s, r, q, e)
    /\ OneStake(c, a, st, s, r, q)
    /\ OneRequest(c, a, s, r, q)
    /\ SomebodyWaits(c, a, st, ws, s, r, q)
    /\ FetchAfterGive(c, a, st, r, q, e)
    /\ OwnerKnown(a, st, s, e)
    /\ WriteBackUnderWay(c, a, st, s, r, q, e)
    /\ FlushUnderWay(c, a, st, s, r, q, e)

(* For the line alone: "rep" is what DRAM has read for it, "known" whether the  *)
(* directory has an entry for it.  Only the front request waits.              *)
FrontWaits(q, e) ==
    \A i \in DOMAIN q :
        /\ q[i].wait \/ q[i].from # NoCore => i = 1
        /\ q[i].from # NoCore => q[i].t = "SH_REQ"
        /\ q[i].wait /\ q[i].t # "SH_REQ" => e.st = "M"
        /\ q[i].wait => q[i].t # "NULLIFY_REQ"
        /\ q[i].t = "NULLIFY_REQ" <=> q[i].c = NoCore
LineInv(q, e, rep, known) ==
    /\ Len(rep) <= 1
    /\ rep # <<>> => q # <<>> /\ Head(q).wait
    /\ FrontWaits(q, e)
    /\ e.st \in {"E", "M"} => e.sharers = {e.owner}
    /\ e.st = "U" => e.sharers = {}
    /\ ~known => e.st = "U"

(* An entry is put aside only when every slot is taken. *)
SlotsInv(d) == /\ IsFiniteSet(d.slots)
               /\ d.replaced # {} => Cardinality(d.slots) >= DirWays

Pairs == \A a \in Addrs, c \in Llcs :
             PairInv(c, a, cache[c][a].st, waiters[c][a], toCache[c], toDir[c], dir.q[a], dir.e[a])
Lines == \A a \in Addrs :
             LineInv(dir.q[a], dir.e[a], dir.reply[a], a \in dir.slots \union dir.replaced)
IInv == Types /\ Pairs /\ Lines /\ SlotsInv(dir)


-----------------------------------------------------------------------------
(* What the invariant asks of a queue, when a message of one kind joins or       *)
(* leaves it.                                                               *)
LEMMA PushAsk ==
  ASSUME NEW s \in Seq(ToCacheMsg), NEW m \in ToCacheMsg, NEW a, NEW copy \in BOOLEAN,
         m.a = a, m.t \in {"INV_REQ", "FLUSH_REQ", "WB_REQ"}
  PROVE  LET z == Append(s, m) IN
         /\ z \in Seq(ToCacheMsg)
         /\ Has(z, DataReps, a) <=> Has(s, DataReps, a)
         /\ Has(z, Reps, a) <=> Has(s, Reps, a)
         /\ Has(z, {"EX_REP"}, a) <=> Has(s, {"EX_REP"}, a)
         /\ Has(z, {"UPGRADE_REP"}, a) <=> Has(s, {"UPGRADE_REP"}, a)
         /\ AtMostOne(s, Reps, a) => AtMostOne(z, Reps, a)
         /\ Behind(z, {"WB_REQ"}, {"UPGRADE_REP"}, a) => Behind(s, {"WB_REQ"}, {"UPGRADE_REP"}, a)
         /\ Live(z, {"WB_REQ"}, a, copy) =>
               \/ Live(s, {"WB_REQ"}, a, copy)
               \/ m.t = "WB_REQ" /\ (copy \/ Has(s, DataReps, a))
         /\ LiveTwice(z, {"WB_REQ"}, a, copy) =>
               \/ LiveTwice(s, {"WB_REQ"}, a, copy)
               \/ m.t = "WB_REQ" /\ Live(s, {"WB_REQ"}, a, copy)
         /\ Live(z, {"FLUSH_REQ"}, a, copy) =>
               \/ Live(s, {"FLUSH_REQ"}, a, copy)
               \/ m.t = "FLUSH_REQ" /\ (copy \/ Has(s, DataReps, a))
<1>1. /\ ~On(m, DataReps, a) /\ ~On(m, Reps, a) /\ ~On(m, {"EX_REP"}, a)
      /\ ~On(m, {"UPGRADE_REP"}, a)
      /\ On(m, {"WB_REQ"}, a) <=> m.t = "WB_REQ"
      /\ On(m, {"FLUSH_REQ"}, a) <=> m.t = "FLUSH_REQ"
  BY DEF On, DataReps, Reps
<1>2. Append(s, m) \in Seq(ToCacheMsg)
  OBVIOUS
<1>3. /\ \A T : Has(Append(s, m), T, a) <=> Has(s, T, a) \/ On(m, T, a)
      /\ \A T : AtMostOne(s, T, a) /\ (On(m, T, a) => ~Has(s, T, a))
                   => AtMostOne(Append(s, m), T, a)
      /\ \A T, U : Behind(Append(s, m), T, U, a)
                      <=> Behind(s, T, U, a) \/ (Has(s, T, a) /\ On(m, U, a))
  BY PushHas
<1>4. \A T :
         /\ Live(Append(s, m), T, a, copy)
              <=> \/ Live(s, T, a, copy)
                  \/ On(m, T, a) /\ (copy \/ Has(s, DataReps, a))
         /\ LiveTwice(Append(s, m), T, a, copy)
              => LiveTwice(s, T, a, copy) \/ (On(m, T, a) /\ Live(s, T, a, copy))
  BY PushLive
<1> QED BY <1>1, <1>2, <1>3, <1>4, Zenon

LEMMA PushRep ==
  ASSUME NEW s \in Seq(ToCacheMsg), NEW m \in ToCacheMsg, NEW a, NEW copy \in BOOLEAN,
         m.a = a, m.t \in Reps
  PROVE  LET z == Append(s, m) IN
         /\ z \in Seq(ToCacheMsg)
         /\ Has(z, DataReps, a) <=> Has(s, DataReps, a) \/ m.t \in DataReps
         /\ Has(z, Reps, a)
         /\ Has(z, {"EX_REP"}, a) <=> Has(s, {"EX_REP"}, a) \/ m.t = "EX_REP"
         /\ Has(z, {"UPGRADE_REP"}, a) <=> Has(s, {"UPGRADE_REP"}, a) \/ m.t = "UPGRADE_REP"
         /\ AtMostOne(s, Reps, a) /\ ~Has(s, Reps, a) => AtMostOne(z, Reps, a)
         /\ Behind(z, {"WB_REQ"}, {"UPGRADE_REP"}, a) =>
               \/ Behind(s, {"WB_REQ"}, {"UPGRADE_REP"}, a)
               \/ m.t = "UPGRADE_REP" /\ Has(s, {"WB_REQ"}, a)
         /\ Live(z, {"WB_REQ"}, a, copy) <=> Live(s, {"WB_REQ"}, a, copy)
         /\ LiveTwice(z, {"WB_REQ"}, a, copy) => LiveTwice(s, {"WB_REQ"}, a, copy)
         /\ Live(z, {"FLUSH_REQ"}, a, copy) <=> Live(s, {"FLUSH_REQ"}, a, copy)
<1>1. /\ On(m, DataReps, a) <=> m.t \in DataReps
      /\ On(m, Reps, a)
      /\ On(m, {"EX_REP"}, a) <=> m.t = "EX_REP"
      /\ On(m, {"UPGRADE_REP"}, a) <=> m.t = "UPGRADE_REP"
      /\ ~On(m, {"WB_REQ"}, a) /\ ~On(m, {"FLUSH_REQ"}, a)
  BY DEF On, DataReps, Reps
<1>2. Append(s, m) \in Seq(ToCacheMsg)
  OBVIOUS
<1>3. /\ \A T : Has(Append(s, m), T, a) <=> Has(s, T, a) \/ On(m, T, a)
      /\ \A T : AtMostOne(s, T, a) /\ (On(m, T, a) => ~Has(s, T, a))
                   => AtMostOne(Append(s, m), T, a)
      /\ \A T, U : Behind(Append(s, m), T, U, a)
                      <=> Behind(s, T, U, a) \/ (Has(s, T, a) /\ On(m, U, a))
  BY PushHas
<1>4. \A T :
         /\ Live(Append(s, m), T, a, copy)
              <=> \/ Live(s, T, a, copy)
                  \/ On(m, T, a) /\ (copy \/ Has(s, DataReps, a))
         /\ LiveTwice(Append(s, m), T, a, copy)
              => LiveTwice(s, T, a, copy) \/ (On(m, T, a) /\ Live(s, T, a, copy))
  BY PushLive
<1> QED BY <1>1, <1>2, <1>3, <1>4, Zenon

LEMMA PushRequest ==
  ASSUME NEW r \in Seq(ToDirMsg), NEW m \in ToDirMsg, NEW a, m.a = a, m.t \in Reqs
  PROVE  LET z == Append(r, m) IN
         /\ z \in Seq(ToDirMsg)
         /\ Has(z, Gives, a) <=> Has(r, Gives, a)
         /\ Has(z, Reqs, a)
         /\ Has(z, Fetches, a) <=> Has(r, Fetches, a) \/ m.t \in Fetches
         /\ Has(z, {"WB_REP"}, a) <=> Has(r, {"WB_REP"}, a)
         /\ Has(z, {"FLUSH_REP"}, a) <=> Has(r, {"FLUSH_REP"}, a)
         /\ AtMostOne(r, Gives, a) => AtMostOne(z, Gives, a)
         /\ AtMostOne(r, {"WB_REP"}, a) => AtMostOne(z, {"WB_REP"}, a)
         /\ AtMostOne(r, Reqs, a) /\ ~Has(r, Reqs, a) => AtMostOne(z, Reqs, a)
         /\ Behind(z, Fetches, Gives, a) => Behind(r, Fetches, Gives, a)
         /\ Behind(z, Gives, {"WB_REP"}, a) => Behind(r, Gives, {"WB_REP"}, a)
<1>1. /\ ~On(m, Gives, a) /\ On(m, Reqs, a)
      /\ On(m, Fetches, a) <=> m.t \in Fetches
      /\ ~On(m, {"WB_REP"}, a) /\ ~On(m, {"FLUSH_REP"}, a)
  BY DEF On, Gives, Reqs, Fetches
<1>2. Append(r, m) \in Seq(ToDirMsg)
  OBVIOUS
<1>3. /\ \A T : Has(Append(r, m), T, a) <=> Has(r, T, a) \/ On(m, T, a)
      /\ \A T : AtMostOne(r, T, a) /\ (On(m, T, a) => ~Has(r, T, a))
                   => AtMostOne(Append(r, m), T, a)
      /\ \A T, U : Behind(Append(r, m), T, U, a)
                      <=> Behind(r, T, U, a) \/ (Has(r, T, a) /\ On(m, U, a))
  BY PushHas
<1> QED BY <1>1, <1>2, <1>3, Zenon

LEMMA PushGive ==
  ASSUME NEW r \in Seq(ToDirMsg), NEW m \in ToDirMsg, NEW a, m.a = a, m.t \in Gives
  PROVE  LET z == Append(r, m) IN
         /\ z \in Seq(ToDirMsg)
         /\ Has(z, Gives, a)
         /\ Has(z, Reqs, a) <=> Has(r, Reqs, a)
         /\ Has(z, Fetches, a) <=> Has(r, Fetches, a)
         /\ Has(z, {"WB_REP"}, a) <=> Has(r, {"WB_REP"}, a)
         /\ Has(z, {"FLUSH_REP"}, a) <=> Has(r, {"FLUSH_REP"}, a) \/ m.t = "FLUSH_REP"
         /\ AtMostOne(r, Gives, a) /\ ~Has(r, Gives, a) => AtMostOne(z, Gives, a)
         /\ AtMostOne(r, {"WB_REP"}, a) => AtMostOne(z, {"WB_REP"}, a)
         /\ AtMostOne(r, Reqs, a) => AtMostOne(z, Reqs, a)
         /\ Behind(z, Fetches, Gives, a) => Behind(r, Fetches, Gives, a) \/ Has(r, Fetches, a)
         /\ Behind(z, Gives, {"WB_REP"}, a) => Behind(r, Gives, {"WB_REP"}, a)
<1>1. /\ On(m, Gives, a) /\ ~On(m, Reqs, a) /\ ~On(m, Fetches, a) /\ ~On(m, {"WB_REP"}, a)
      /\ On(m, {"FLUSH_REP"}, a) <=> m.t = "FLUSH_REP"
  BY DEF On, Gives, Reqs, Fetches
<1>2. Append(r, m) \in Seq(ToDirMsg)
  OBVIOUS
<1>3. /\ \A T : Has(Append(r, m), T, a) <=> Has(r, T, a) \/ On(m, T, a)
      /\ \A T : AtMostOne(r, T, a) /\ (On(m, T, a) => ~Has(r, T, a))
                   => AtMostOne(Append(r, m), T, a)
      /\ \A T, U : Behind(Append(r, m), T, U, a)
                      <=> Behind(r, T, U, a) \/ (Has(r, T, a) /\ On(m, U, a))
  BY PushHas
<1> QED BY <1>1, <1>2, <1>3, Zenon

LEMMA PushWriteBack ==
  ASSUME NEW r \in Seq(ToDirMsg), NEW m \in ToDirMsg, NEW a, m.a = a, m.t = "WB_REP"
  PROVE  LET z == Append(r, m) IN
         /\ z \in Seq(ToDirMsg)
         /\ Has(z, Gives, a) <=> Has(r, Gives, a)
         /\ Has(z, Reqs, a) <=> Has(r, Reqs, a)
         /\ Has(z, Fetches, a) <=> Has(r, Fetches, a)
         /\ Has(z, {"WB_REP"}, a)
         /\ Has(z, {"FLUSH_REP"}, a) <=> Has(r, {"FLUSH_REP"}, a)
         /\ AtMostOne(r, Gives, a) => AtMostOne(z, Gives, a)
         /\ AtMostOne(r, {"WB_REP"}, a) /\ ~Has(r, {"WB_REP"}, a) => AtMostOne(z, {"WB_REP"}, a)
         /\ AtMostOne(r, Reqs, a) => AtMostOne(z, Reqs, a)
         /\ Behind(z, Fetches, Gives, a) => Behind(r, Fetches, Gives, a)
         /\ Behind(z, Gives, {"WB_REP"}, a) => Behind(r, Gives, {"WB_REP"}, a) \/ Has(r, Gives, a)
<1>1. /\ ~On(m, Gives, a) /\ ~On(m, Reqs, a) /\ ~On(m, Fetches, a) /\ On(m, {"WB_REP"}, a)
      /\ ~On(m, {"FLUSH_REP"}, a)
  BY DEF On, Gives, Reqs, Fetches
<1>2. Append(r, m) \in Seq(ToDirMsg)
  OBVIOUS
<1>3. /\ \A T : Has(Append(r, m), T, a) <=> Has(r, T, a) \/ On(m, T, a)
      /\ \A T : AtMostOne(r, T, a) /\ (On(m, T, a) => ~Has(r, T, a))
                   => AtMostOne(Append(r, m), T, a)
      /\ \A T, U : Behind(Append(r, m), T, U, a)
                      <=> Behind(r, T, U, a) \/ (Has(r, T, a) /\ On(m, U, a))
  BY PushHas
<1> QED BY <1>1, <1>2, <1>3, Zenon

(* What is left of a queue when its head is taken. *)
LEMMA PopFromDir ==
  ASSUME NEW r \in Seq(ToDirMsg), r # <<>>, NEW a
  PROVE  LET z == Tail(r)
             m == Head(r) IN
         /\ z \in Seq(ToDirMsg) /\ m \in ToDirMsg
         /\ \A T : Has(r, T, a) <=> On(m, T, a) \/ Has(z, T, a)
         /\ AtMostOne(r, Gives, a) => AtMostOne(z, Gives, a) /\ (On(m, Gives, a) => ~Has(z, Gives, a))
         /\ AtMostOne(r, {"WB_REP"}, a) =>
               AtMostOne(z, {"WB_REP"}, a) /\ (On(m, {"WB_REP"}, a) => ~Has(z, {"WB_REP"}, a))
         /\ AtMostOne(r, Reqs, a) => AtMostOne(z, Reqs, a) /\ (On(m, Reqs, a) => ~Has(z, Reqs, a))
         /\ ~Behind(r, Fetches, Gives, a) =>
               ~Behind(z, Fetches, Gives, a) /\ (On(m, Fetches, a) => ~Has(z, Gives, a))
         /\ ~Behind(r, Gives, {"WB_REP"}, a) =>
               ~Behind(z, Gives, {"WB_REP"}, a) /\ (On(m, Gives, a) => ~Has(z, {"WB_REP"}, a))
<1>1. Head(r) \in ToDirMsg /\ Tail(r) \in Seq(ToDirMsg)
  BY Popped
<1>2. /\ \A T : Has(r, T, a) <=> On(Head(r), T, a) \/ Has(Tail(r), T, a)
      /\ \A T : AtMostOne(r, T, a) => /\ AtMostOne(Tail(r), T, a)
                                      /\ On(Head(r), T, a) => ~Has(Tail(r), T, a)
      /\ \A T, U : Behind(Tail(r), T, U, a) => Behind(r, T, U, a)
      /\ \A T, U : On(Head(r), T, a) /\ Has(Tail(r), U, a) => Behind(r, T, U, a)
  BY PopHas
<1> QED BY <1>1, <1>2, Zenon

LEMMA PopFromCache ==
  ASSUME NEW s \in Seq(ToCacheMsg), s # <<>>, NEW a,
         NEW old \in BOOLEAN, NEW new \in BOOLEAN, new => old \/ On(Head(s), DataReps, a)
  PROVE  LET z == Tail(s)
             m == Head(s) IN
         /\ z \in Seq(ToCacheMsg) /\ m \in ToCacheMsg
         /\ \A T : Has(s, T, a) <=> On(m, T, a) \/ Has(z, T, a)
         /\ AtMostOne(s, Reps, a) => AtMostOne(z, Reps, a) /\ (On(m, Reps, a) => ~Has(z, Reps, a))
         /\ ~Behind(s, {"WB_REQ"}, {"UPGRADE_REP"}, a) => ~Behind(z, {"WB_REQ"}, {"UPGRADE_REP"}, a)
         /\ On(m, DataReps, a) /\ Has(z, {"WB_REQ"}, a) => Live(s, {"WB_REQ"}, a, old)
         /\ Live(z, {"WB_REQ"}, a, new) => Live(s, {"WB_REQ"}, a, old)
         /\ LiveTwice(z, {"WB_REQ"}, a, new) => LiveTwice(s, {"WB_REQ"}, a, old)
         /\ On(m, {"WB_REQ"}, a) /\ old => /\ Live(s, {"WB_REQ"}, a, old)
                                           /\ Live(z, {"WB_REQ"}, a, new) => LiveTwice(s, {"WB_REQ"}, a, old)
         /\ Live(z, {"FLUSH_REQ"}, a, new) => Live(s, {"FLUSH_REQ"}, a, old)
         /\ On(m, {"FLUSH_REQ"}, a) /\ old => Live(s, {"FLUSH_REQ"}, a, old)
<1>1. Head(s) \in ToCacheMsg /\ Tail(s) \in Seq(ToCacheMsg)
  BY Popped
<1>2. /\ \A T : Has(s, T, a) <=> On(Head(s), T, a) \/ Has(Tail(s), T, a)
      /\ \A T : AtMostOne(s, T, a) => /\ AtMostOne(Tail(s), T, a)
                                      /\ On(Head(s), T, a) => ~Has(Tail(s), T, a)
      /\ \A T, U : Behind(Tail(s), T, U, a) => Behind(s, T, U, a)
      /\ \A T, U : On(Head(s), T, a) /\ Has(Tail(s), U, a) => Behind(s, T, U, a)
  BY PopHas
<1>3. \A T : /\ Live(Tail(s), T, a, new) => Live(s, T, a, old)
             /\ LiveTwice(Tail(s), T, a, new) => LiveTwice(s, T, a, old)
             /\ old /\ On(Head(s), T, a) /\ Live(Tail(s), T, a, old) => LiveTwice(s, T, a, old)
  BY PopLive
<1>4. \A T : old /\ On(Head(s), T, a) => Live(s, T, a, old)
  BY <1>2 DEF Live
<1>5. On(Head(s), DataReps, a) /\ Has(Tail(s), {"WB_REQ"}, a) => Live(s, {"WB_REQ"}, a, old)
  BY <1>2, Zenon DEF Live
<1>6. ASSUME On(Head(s), {"WB_REQ"}, a), old, Live(Tail(s), {"WB_REQ"}, a, new)
      PROVE  LiveTwice(s, {"WB_REQ"}, a, old)
  <2>1. Live(Tail(s), {"WB_REQ"}, a, old)
    <3>1. Has(Tail(s), {"WB_REQ"}, a)
      BY <1>6 DEF Live, Has, Behind
    <3> QED BY <3>1, <1>6 DEF Live
  <2> QED BY <1>3, <1>6, <2>1, Zenon
<1> QED BY <1>1, <1>2, <1>3, <1>4, <1>5, <1>6, Zenon


-----------------------------------------------------------------------------
(* The directory's queue of requests: the front is done, the front is marked   *)
(* (wait, from, buf), a request joins.                                       *)
LEMMA QueuePopped ==
  ASSUME NEW q \in Seq(DirReq), q # <<>>, NEW e, NEW f, FrontWaits(q, e)
  PROVE  /\ Head(q) = q[1] /\ Head(q) \in DirReq /\ Tail(q) \in Seq(DirReq)
         /\ Queued(q, Head(q).c)
         /\ ~Granted(Tail(q)) /\ FrontWaits(Tail(q), f)
         /\ \A k : /\ Queued(Tail(q), k) => Queued(q, k)
                   /\ Unique(q, k) => /\ Unique(Tail(q), k)
                                      /\ Queued(Tail(q), k) => Head(q).c # k
                   /\ Pending(Tail(q), k) => Pending(q, k)
<1> DEFINE z == Tail(q)
<1>1. /\ Head(q) \in DirReq /\ Head(q) = q[1] /\ z \in Seq(DirReq)
      /\ 1 \in DOMAIN q
      /\ \A i \in DOMAIN z : i + 1 \in DOMAIN q /\ z[i] = q[i + 1]
      /\ DOMAIN q \subseteq Nat /\ DOMAIN z \subseteq Nat
      /\ \A i \in DOMAIN z : i >= 1
  BY Popped
<1>2. z # <<>> => 1 \in DOMAIN z /\ Head(z) = z[1]
  BY <1>1, Popped
<1> HIDE DEF z
<1>3. Queued(q, Head(q).c)
  BY <1>1 DEF Queued
<1>4. \A i \in DOMAIN z : i + 1 # 1 /\ ~z[i].wait /\ z[i].from = NoCore
  <2> SUFFICES ASSUME NEW i \in DOMAIN z
               PROVE  i + 1 # 1 /\ ~z[i].wait /\ z[i].from = NoCore
    OBVIOUS
  <2>1. i + 1 # 1 /\ i + 1 \in DOMAIN q /\ z[i] = q[i + 1]
    BY <1>1
  <2> QED BY <2>1 DEF FrontWaits
<1>5. ~Granted(z)
  BY <1>2, <1>4 DEF Granted
<1>6. FrontWaits(z, f)
  BY <1>1, <1>4 DEF FrontWaits
<1>7. \A k : /\ Queued(z, k) => Queued(q, k)
             /\ Unique(q, k) => Unique(z, k) /\ (Queued(z, k) => Head(q).c # k)
  <2> TAKE k
  <2>1. Queued(z, k) => Queued(q, k)
    BY <1>1 DEF Queued
  <2>2. ASSUME Unique(q, k) PROVE Unique(z, k)
    <3> SUFFICES ASSUME NEW i \in DOMAIN z, NEW j \in DOMAIN z, z[i].c = k, z[j].c = k
                 PROVE  i = j
      BY DEF Unique
    <3>1. i + 1 = j + 1 /\ i \in Nat /\ j \in Nat
      BY <1>1, <2>2 DEF Unique
    <3> QED BY <3>1
  <2>3. ASSUME Unique(q, k), Queued(z, k), Head(q).c = k PROVE FALSE
    <3>1. PICK i \in DOMAIN z : z[i].c = k
      BY <2>3 DEF Queued
    <3>2. i + 1 \in DOMAIN q /\ q[i + 1].c = k /\ i + 1 # 1
      BY <1>1, <1>4, <3>1
    <3> QED BY <1>1, <2>3, <3>2 DEF Unique
  <2> QED BY <2>1, <2>2, <2>3
<1>8. \A k : Pending(z, k) => Pending(q, k)
  BY <1>1, <1>4 DEF Pending
<1> QED BY <1>1, <1>3, <1>5, <1>6, <1>7, <1>8 DEF z

LEMMA QueueMarked ==
  ASSUME NEW q \in Seq(DirReq), NEW p \in Seq(DirReq), q # <<>>, Len(p) = Len(q),
         \A i \in 1 .. Len(q) : p[i].c = q[i].c /\ p[i].t = q[i].t,
         Granted(q) => Granted(p)
  PROVE  /\ p # <<>> /\ Head(p) = p[1] /\ Head(p).c = Head(q).c /\ Head(p).t = Head(q).t
         /\ \A k : /\ Queued(p, k) <=> Queued(q, k)
                   /\ Unique(p, k) <=> Unique(q, k)
                   /\ Pending(p, k) => Pending(q, k)
<1>1. /\ DOMAIN q = 1 .. Len(q) /\ DOMAIN p = 1 .. Len(q) /\ 1 \in 1 .. Len(q)
      /\ p # <<>> /\ Head(p) = p[1] /\ Head(q) = q[1]
  BY Popped
<1> QED BY <1>1 DEF Queued, Unique, Pending

LEMMA QueuePushed ==
  ASSUME NEW q \in Seq(DirReq), NEW x \in DirReq, ~x.wait, x.from = NoCore
  PROVE  LET p == Append(q, x) IN
         /\ p \in Seq(DirReq) /\ p # <<>>
         /\ q # <<>> => Head(p) = Head(q)
         /\ q = <<>> => Head(p) = x
         /\ Granted(p) <=> Granted(q)
         /\ \A k : /\ Queued(p, k) <=> Queued(q, k) \/ x.c = k
                   /\ Unique(q, k) /\ (x.c = k => ~Queued(q, k)) => Unique(p, k)
                   /\ Pending(p, k) => Pending(q, k) \/ (x.c = k /\ x.t \in Fetches)
         /\ \A e : /\ FrontWaits(q, e) /\ (x.t = "NULLIFY_REQ" <=> x.c = NoCore)
                   => FrontWaits(p, e)
<1> DEFINE p == Append(q, x)
           n == Len(q) + 1
<1>1. /\ DOMAIN p = DOMAIN q \union {n} /\ p[n] = x
      /\ \A i \in DOMAIN q : i < n /\ p[i] = q[i]
      /\ DOMAIN q \subseteq Nat /\ n \in Nat
      /\ p \in Seq(DirReq)
  BY Pushed
<1>2. p # <<>> /\ (q # <<>> => Head(p) = Head(q)) /\ (q = <<>> => Head(p) = x)
  <2>1. p # <<>>
    BY <1>1
  <2>2. Head(p) = p[1]
    BY <1>1, <2>1
  <2>3. q # <<>> => 1 \in DOMAIN q /\ Head(q) = q[1]
    OBVIOUS
  <2>4. q = <<>> => n = 1
    OBVIOUS
  <2> QED BY <1>1, <2>1, <2>2, <2>3, <2>4
<1> HIDE DEF p, n
<1>3. Granted(p) <=> Granted(q)
  BY <1>2 DEF Granted
<1>4. \A k : Queued(p, k) <=> Queued(q, k) \/ x.c = k
  BY <1>1 DEF Queued
<1>5. \A k : Unique(q, k) /\ (x.c = k => ~Queued(q, k)) => Unique(p, k)
  BY <1>1 DEF Unique, Queued
<1>6. \A k : Pending(p, k) => Pending(q, k) \/ (x.c = k /\ x.t \in Fetches)
  BY <1>1, <1>3 DEF Pending
<1>7. \A e : /\ FrontWaits(q, e) /\ (x.t = "NULLIFY_REQ" <=> x.c = NoCore)
             => FrontWaits(p, e)
  BY <1>1 DEF FrontWaits
<1> QED BY <1>1, <1>2, <1>3, <1>4, <1>5, <1>6, <1>7 DEF p


-----------------------------------------------------------------------------
(* A cache and a line. *)
LEMMA Kinds ==
  ASSUME NEW s, NEW a
  PROVE  /\ Has(s, {"EX_REP"}, a) => Has(s, DataReps, a)
         /\ Has(s, DataReps, a) => Has(s, Reps, a)
         /\ Has(s, {"UPGRADE_REP"}, a) => Has(s, Reps, a)
         /\ Has(s, {"FLUSH_REP"}, a) => Has(s, Gives, a)
         /\ Has(s, Fetches, a) => Has(s, Reqs, a)
         /\ \A T, copy : Live(s, T, a, copy) => copy \/ Has(s, DataReps, a)
         /\ \A T : Live(s, T, a, TRUE) <=> Has(s, T, a)
<1>1. \A T, U : T \subseteq U /\ Has(s, T, a) => Has(s, U, a)
  BY DEF Has, On
<1>2. /\ {"EX_REP"} \subseteq DataReps /\ DataReps \subseteq Reps
      /\ {"UPGRADE_REP"} \subseteq Reps /\ {"FLUSH_REP"} \subseteq Gives
      /\ Fetches \subseteq Reqs
  BY DEF DataReps, Reps, Gives, Fetches, Reqs
<1>3. \A T, U : Behind(s, U, T, a) => Has(s, U, a) /\ Has(s, T, a)
  BY DEF Behind, Has
<1>4. \A T, copy : Live(s, T, a, copy) => copy \/ Has(s, DataReps, a)
  BY <1>3 DEF Live
<1>5. \A T : Live(s, T, a, TRUE) <=> Has(s, T, a)
  BY <1>3 DEF Live
<1> QED BY <1>1, <1>2, <1>4, <1>5, Zenon

(* A cache that is not listed has nothing to do with the line. *)
LEMMA NotListed ==
  ASSUME NEW c, NEW a, NEW st, NEW ws, NEW s, NEW r, NEW q, NEW e,
         PairInv(c, a, st, ws, s, r, q, e), c \notin e.sharers
  PROVE  /\ st = "I" /\ ~Has(s, DataReps, a) /\ ~Has(s, {"EX_REP"}, a)
         /\ ~Has(r, Gives, a) /\ ~Has(r, {"FLUSH_REP"}, a) /\ ~Has(r, {"WB_REP"}, a)
         /\ ~GrantedTo(q, c)
         /\ \A T : ~Live(s, T, a, st # "I")
<1>1. st = "I" /\ ~Has(s, DataReps, a) /\ ~Has(r, Gives, a) /\ ~GrantedTo(q, c)
  BY DEF PairInv, Listed
<1>2. ~Has(r, {"WB_REP"}, a)
  BY DEF PairInv, WriteBackUnderWay
<1>3. /\ Has(s, {"EX_REP"}, a) => Has(s, DataReps, a)
      /\ Has(r, {"FLUSH_REP"}, a) => Has(r, Gives, a)
      /\ \A T, copy : Live(s, T, a, copy) => copy \/ Has(s, DataReps, a)
  BY Kinds
<1> QED BY <1>1, <1>2, <1>3

(* Of messages only those about the line matter, of the entry only the state    *)
(* and the sharers.                                                         *)
LEMMA PairAlike ==
  ASSUME NEW c, NEW a, NEW st, NEW ws, NEW vs, NEW s, NEW z, NEW r, NEW y,
         NEW q, NEW e, NEW f,
         PairInv(c, a, st, ws, s, r, q, e), Alike(s, z, a), Alike(r, y, a),
         ws # <<>> => vs # <<>>, f.st = e.st, f.sharers = e.sharers
  PROVE  PairInv(c, a, st, vs, z, y, q, f)
<1>1. /\ \A T : /\ Has(z, T, a) <=> Has(s, T, a)
                /\ AtMostOne(z, T, a) <=> AtMostOne(s, T, a)
                /\ Live(z, T, a, st # "I") <=> Live(s, T, a, st # "I")
                /\ LiveTwice(z, T, a, st # "I") <=> LiveTwice(s, T, a, st # "I")
      /\ \A T, U : Behind(z, T, U, a) <=> Behind(s, T, U, a)
  BY AlikeLive DEF Alike
<1>2. /\ \A T : /\ Has(y, T, a) <=> Has(r, T, a)
                /\ AtMostOne(y, T, a) <=> AtMostOne(r, T, a)
      /\ \A T, U : Behind(y, T, U, a) <=> Behind(r, T, U, a)
  BY DEF Alike
<1>3. Listed(c, a, st, z, y, q, f)
  BY <1>1, <1>2, Zenon DEF PairInv, Listed
<1>4. OneStake(c, a, st, z, y, q)
  BY <1>1, <1>2, Zenon DEF PairInv, OneStake
<1>5. OneRequest(c, a, z, y, q)
  BY <1>1, <1>2, Zenon DEF PairInv, OneRequest
<1>6. SomebodyWaits(c, a, st, vs, z, y, q)
  BY <1>1, <1>2, Zenon DEF PairInv, SomebodyWaits
<1>7. FetchAfterGive(c, a, st, y, q, f)
  BY <1>2, Zenon DEF PairInv, FetchAfterGive
<1>8. OwnerKnown(a, st, z, f)
  BY <1>1, Zenon DEF PairInv, OwnerKnown
<1>9. WriteBackUnderWay(c, a, st, z, y, q, f)
  <2>1. /\ Live(z, {"WB_REQ"}, a, st # "I") <=> Live(s, {"WB_REQ"}, a, st # "I")
        /\ LiveTwice(z, {"WB_REQ"}, a, st # "I") <=> LiveTwice(s, {"WB_REQ"}, a, st # "I")
        /\ Behind(z, {"WB_REQ"}, {"UPGRADE_REP"}, a) <=> Behind(s, {"WB_REQ"}, {"UPGRADE_REP"}, a)
        /\ Has(z, {"EX_REP"}, a) <=> Has(s, {"EX_REP"}, a)
        /\ Has(z, {"UPGRADE_REP"}, a) <=> Has(s, {"UPGRADE_REP"}, a)
        /\ Has(y, {"WB_REP"}, a) <=> Has(r, {"WB_REP"}, a)
        /\ Has(y, {"FLUSH_REP"}, a) <=> Has(r, {"FLUSH_REP"}, a)
        /\ AtMostOne(y, {"WB_REP"}, a) <=> AtMostOne(r, {"WB_REP"}, a)
        /\ Behind(y, Gives, {"WB_REP"}, a) <=> Behind(r, Gives, {"WB_REP"}, a)
    BY <1>1, <1>2
  <2> QED BY <2>1, Zenon DEF PairInv, WriteBackUnderWay
<1>10. FlushUnderWay(c, a, st, z, y, q, f)
  <2>1. /\ Live(z, {"FLUSH_REQ"}, a, st # "I") <=> Live(s, {"FLUSH_REQ"}, a, st # "I")
        /\ Has(y, {"FLUSH_REP"}, a) <=> Has(r, {"FLUSH_REP"}, a)
    BY <1>1, <1>2
  <2> QED BY <2>1, Zenon DEF PairInv, FlushUnderWay, UpgradeWithoutCopy
<1> QED BY <1>3, <1>4, <1>5, <1>6, <1>7, <1>8, <1>9, <1>10 DEF PairInv

(* The directory asks a cache that has a copy to give it up or to write it      *)
(* back: an invalidation at any time, a flush for a request that is no read     *)
(* and from another cache, a write-back for a read, and one at a time.         *)
LEMMA PairAsked ==
  ASSUME NEW c, NEW a, NEW st, NEW ws, NEW s \in Seq(ToCacheMsg), NEW r, NEW q, NEW e,
         NEW m \in ToCacheMsg, m.a = a, m.t \in {"INV_REQ", "FLUSH_REQ", "WB_REQ"},
         PairInv(c, a, st, ws, s, r, q, e),
         m.t = "FLUSH_REQ" /\ c \in e.sharers =>
             /\ q # <<>> /\ Head(q).t # "SH_REQ" /\ ~Head(q).wait /\ Head(q).c # c
             /\ e.st \in {"E", "M"} \/ UpgradeWithoutCopy(q, e),
         m.t = "WB_REQ" =>
             /\ q # <<>> /\ Head(q).t = "SH_REQ" /\ ~Head(q).wait
             /\ e.st \in {"E", "M"} \/ Head(q).from = c
             /\ ~Live(s, {"WB_REQ"}, a, st # "I") /\ ~Has(r, {"WB_REP"}, a)
  PROVE  PairInv(c, a, st, ws, Append(s, m), r, q, e)
<1> DEFINE z == Append(s, m)
<1>1. /\ Has(z, DataReps, a) <=> Has(s, DataReps, a)
      /\ Has(z, Reps, a) <=> Has(s, Reps, a)
      /\ Has(z, {"EX_REP"}, a) <=> Has(s, {"EX_REP"}, a)
      /\ Has(z, {"UPGRADE_REP"}, a) <=> Has(s, {"UPGRADE_REP"}, a)
      /\ AtMostOne(s, Reps, a) => AtMostOne(z, Reps, a)
      /\ Behind(z, {"WB_REQ"}, {"UPGRADE_REP"}, a) => Behind(s, {"WB_REQ"}, {"UPGRADE_REP"}, a)
      /\ Live(z, {"WB_REQ"}, a, st # "I") => Live(s, {"WB_REQ"}, a, st # "I") \/ m.t = "WB_REQ"
      /\ LiveTwice(z, {"WB_REQ"}, a, st # "I") =>
               \/ LiveTwice(s, {"WB_REQ"}, a, st # "I")
               \/ m.t = "WB_REQ" /\ Live(s, {"WB_REQ"}, a, st # "I")
      /\ Live(z, {"FLUSH_REQ"}, a, st # "I") =>
               \/ Live(s, {"FLUSH_REQ"}, a, st # "I")
               \/ m.t = "FLUSH_REQ" /\ (st # "I" \/ Has(s, DataReps, a))
  BY PushAsk, Zenon
<1> HIDE DEF z
<1>2. m.t = "FLUSH_REQ" /\ (st # "I" \/ Has(s, DataReps, a)) => c \in e.sharers
  BY DEF PairInv, Listed
<1>3. Listed(c, a, st, z, r, q, e)
  BY <1>1, Zenon DEF PairInv, Listed
<1>4. OneStake(c, a, st, z, r, q)
  BY <1>1, Zenon DEF PairInv, OneStake
<1>5. OneRequest(c, a, z, r, q)
  BY <1>1, Zenon DEF PairInv, OneRequest
<1>6. SomebodyWaits(c, a, st, ws, z, r, q)
  BY <1>1, Zenon DEF PairInv, SomebodyWaits
<1>7. FetchAfterGive(c, a, st, r, q, e)
  BY DEF PairInv
<1>8. OwnerKnown(a, st, z, e)
  BY <1>1, Zenon DEF PairInv, OwnerKnown
<1>9. WriteBackUnderWay(c, a, st, z, r, q, e)
  BY <1>1 DEF PairInv, WriteBackUnderWay
<1>10. FlushUnderWay(c, a, st, z, r, q, e)
  BY <1>1, <1>2 DEF PairInv, FlushUnderWay
<1>11. PairInv(c, a, st, ws, z, r, q, e)
  BY <1>3, <1>4, <1>5, <1>6, <1>7, <1>8, <1>9, <1>10 DEF PairInv
<1> QED BY <1>11 DEF z


(* The front request is granted: its cache becomes a sharer, and waits for the   *)
(* data only.                                                               *)
LEMMA PairGranted ==
  ASSUME NEW c, NEW a, NEW st, NEW ws, NEW s, NEW r, NEW q \in Seq(DirReq), NEW e,
         NEW p \in Seq(DirReq), NEW f,
         PairInv(c, a, st, ws, s, r, q, e), c # NoCore,
         q # <<>>, Len(p) = Len(q), \A i \in 1 .. Len(q) : p[i].c = q[i].c /\ p[i].t = q[i].t,
         ~Granted(q), Granted(p),
         Head(q).c \notin e.sharers, f.sharers = e.sharers \union {Head(q).c},
         \/ e.st = "U" /\ e.sharers = {}
         \/ e.st = "S" /\ Head(q).t = "SH_REQ"
  PROVE  PairInv(c, a, st, ws, s, r, p, f)
<1>1. /\ p # <<>> /\ Head(p).c = Head(q).c /\ Head(p).t = Head(q).t
      /\ Queued(p, c) <=> Queued(q, c)
      /\ Unique(p, c) <=> Unique(q, c)
      /\ Pending(p, c) => Pending(q, c)
  BY QueueMarked
<1>2. /\ ~GrantedTo(q, c)
      /\ GrantedTo(p, c) <=> Head(q).c = c
  BY <1>1 DEF GrantedTo
<1>3. c \notin e.sharers =>
         /\ st = "I" /\ ~Has(s, DataReps, a) /\ ~Has(r, Gives, a) /\ ~Has(r, {"WB_REP"}, a)
         /\ ~Has(r, {"FLUSH_REP"}, a)
         /\ \A T : ~Live(s, T, a, st # "I")
  BY NotListed
<1>4. /\ ~Live(s, {"WB_REQ"}, a, st # "I") /\ ~Has(r, {"WB_REP"}, a)
      /\ ~Live(s, {"FLUSH_REQ"}, a, st # "I") /\ ~Has(r, {"FLUSH_REP"}, a)
  <2>1. CASE e.st = "U" /\ e.sharers = {}
    BY <1>3, <2>1
  <2>2. CASE e.st = "S" /\ Head(q).t = "SH_REQ"
    <3>1. Head(q).from = NoCore
      BY DEF Granted
    <3> QED BY <2>2, <3>1 DEF PairInv, WriteBackUnderWay, FlushUnderWay, UpgradeWithoutCopy
  <2> QED BY <2>1, <2>2
<1>5. Pending(p, c) => Head(q).c # c
  <2> SUFFICES ASSUME Pending(p, c), Head(p).c = c, Unique(p, c) PROVE FALSE
    BY <1>1 DEF PairInv, OneRequest
  <2>1. 1 \in DOMAIN p /\ Head(p) = p[1]
    BY <1>1, Popped
  <2> QED BY <2>1 DEF Pending, Unique
<1>6. Listed(c, a, st, s, r, p, f)
  BY <1>2 DEF PairInv, Listed
<1>7. OneStake(c, a, st, s, r, p)
  BY <1>2, <1>3 DEF PairInv, OneStake
<1>8. OneRequest(c, a, s, r, p)
  BY <1>1 DEF PairInv, OneRequest
<1>9. SomebodyWaits(c, a, st, ws, s, r, p)
  BY <1>1 DEF PairInv, SomebodyWaits
<1>10. FetchAfterGive(c, a, st, r, p, f)
  BY <1>1, <1>5 DEF PairInv, FetchAfterGive
<1>11. OwnerKnown(a, st, s, f)
  BY DEF PairInv, OwnerKnown
<1>12. WriteBackUnderWay(c, a, st, s, r, p, f)
  BY <1>4 DEF PairInv, WriteBackUnderWay
<1>13. FlushUnderWay(c, a, st, s, r, p, f)
  BY <1>4 DEF FlushUnderWay
<1> QED BY <1>6, <1>7, <1>8, <1>9, <1>10, <1>11, <1>12, <1>13 DEF PairInv

(* The front request is answered and leaves the queue.  For a cache other than  *)
(* the requester, and for the requester, which gets data that it was granted    *)
(* or the right to write its copy.                                          *)
LEMMA PairOthersAnswer ==
  ASSUME NEW c, NEW a, NEW st, NEW ws, NEW s, NEW r, NEW q \in Seq(DirReq), NEW e, NEW f,
         PairInv(c, a, st, ws, s, r, q, e), q # <<>>, Head(q).c # c, FrontWaits(q, e),
         ~Live(s, {"WB_REQ"}, a, st # "I"), ~Has(r, {"WB_REP"}, a),
         ~Live(s, {"FLUSH_REQ"}, a, st # "I"),
         Has(r, {"FLUSH_REP"}, a) => f.st \in {"E", "M"},
         f.sharers = e.sharers, e.st \in {"E", "M"} => f.st \in {"E", "M"}
  PROVE  PairInv(c, a, st, ws, s, r, Tail(q), f)
<1>1. /\ ~Granted(Tail(q))
      /\ Queued(Tail(q), c) => Queued(q, c)
      /\ Unique(q, c) => Unique(Tail(q), c)
      /\ Pending(Tail(q), c) => Pending(q, c)
  BY QueuePopped
<1>2. ~GrantedTo(q, c) /\ ~GrantedTo(Tail(q), c)
  BY <1>1 DEF GrantedTo
<1>4. Listed(c, a, st, s, r, Tail(q), f)
  BY <1>2 DEF PairInv, Listed
<1>5. OneStake(c, a, st, s, r, Tail(q))
  BY <1>2 DEF PairInv, OneStake
<1>6. OneRequest(c, a, s, r, Tail(q))
  BY <1>1 DEF PairInv, OneRequest
<1>7. SomebodyWaits(c, a, st, ws, s, r, Tail(q))
  BY <1>1 DEF PairInv, SomebodyWaits
<1>8. FetchAfterGive(c, a, st, r, Tail(q), f)
  BY <1>1 DEF PairInv, FetchAfterGive
<1>9. OwnerKnown(a, st, s, f)
  BY DEF PairInv, OwnerKnown
<1>10. WriteBackUnderWay(c, a, st, s, r, Tail(q), f)
  BY DEF PairInv, WriteBackUnderWay
<1>11. FlushUnderWay(c, a, st, s, r, Tail(q), f)
  BY DEF FlushUnderWay
<1> QED BY <1>4, <1>5, <1>6, <1>7, <1>8, <1>9, <1>10, <1>11 DEF PairInv

LEMMA PairAnswered ==
  ASSUME NEW c, NEW a, NEW st, NEW ws, NEW s \in Seq(ToCacheMsg), NEW r,
         NEW q \in Seq(DirReq), NEW e, NEW f, NEW m \in ToCacheMsg, m.a = a,
         PairInv(c, a, st, ws, s, r, q, e), q # <<>>, Head(q).c = c, FrontWaits(q, e),
         ~Live(s, {"WB_REQ"}, a, st # "I"), ~Has(r, {"WB_REP"}, a),
         ~Live(s, {"FLUSH_REQ"}, a, st # "I"),
         Has(r, {"FLUSH_REP"}, a) => f.st \in {"E", "M"},
         f.sharers = e.sharers, e.st \in {"E", "M"} => f.st \in {"E", "M"},
         \/ Granted(q) /\ m.t \in DataReps
         \/ ~Granted(q) /\ m.t = "UPGRADE_REP",
         m.t \in {"EX_REP", "UPGRADE_REP"} => f.st \in {"E", "M"}
  PROVE  PairInv(c, a, st, ws, Append(s, m), r, Tail(q), f)
<1> DEFINE z == Append(s, m)
<1>1. /\ ~Granted(Tail(q)) /\ Queued(q, c)
      /\ Unique(q, c) => Unique(Tail(q), c) /\ ~Queued(Tail(q), c)
      /\ Pending(Tail(q), c) => Pending(q, c)
  BY QueuePopped
<1>2. /\ ~GrantedTo(Tail(q), c)
      /\ GrantedTo(q, c) <=> Granted(q)
  BY <1>1 DEF GrantedTo
<1>3. m.t \in Reps
  BY DEF Reps, DataReps
<1>4. /\ Has(z, DataReps, a) <=> Has(s, DataReps, a) \/ m.t \in DataReps
      /\ Has(z, Reps, a)
      /\ Has(z, {"EX_REP"}, a) <=> Has(s, {"EX_REP"}, a) \/ m.t = "EX_REP"
      /\ Has(z, {"UPGRADE_REP"}, a) <=> Has(s, {"UPGRADE_REP"}, a) \/ m.t = "UPGRADE_REP"
      /\ AtMostOne(s, Reps, a) /\ ~Has(s, Reps, a) => AtMostOne(z, Reps, a)
      /\ Behind(z, {"WB_REQ"}, {"UPGRADE_REP"}, a) =>
            \/ Behind(s, {"WB_REQ"}, {"UPGRADE_REP"}, a)
            \/ m.t = "UPGRADE_REP" /\ Has(s, {"WB_REQ"}, a)
      /\ Live(z, {"WB_REQ"}, a, st # "I") <=> Live(s, {"WB_REQ"}, a, st # "I")
      /\ LiveTwice(z, {"WB_REQ"}, a, st # "I") => LiveTwice(s, {"WB_REQ"}, a, st # "I")
      /\ Live(z, {"FLUSH_REQ"}, a, st # "I") <=> Live(s, {"FLUSH_REQ"}, a, st # "I")
  BY <1>3, PushRep, Zenon
<1>5. ~Has(s, Reps, a) /\ ~Has(s, DataReps, a) /\ ~Has(r, Reqs, a)
  BY <1>1, Kinds DEF PairInv, OneRequest
<1>6. m.t \notin DataReps <=> m.t = "UPGRADE_REP"
  BY <1>3 DEF DataReps, Reps
<1>7. st # "I" /\ Has(s, {"WB_REQ"}, a) => Live(s, {"WB_REQ"}, a, st # "I")
  BY DEF Live
<1> HIDE DEF z
<1>8. Listed(c, a, st, z, r, Tail(q), f)
  BY <1>2, <1>4, <1>5, <1>6 DEF PairInv, Listed
<1>9. OneStake(c, a, st, z, r, Tail(q))
  BY <1>2, <1>4, <1>5, <1>6 DEF PairInv, OneStake
<1>10. OneRequest(c, a, z, r, Tail(q))
  BY <1>1, <1>4, <1>5 DEF PairInv, OneRequest
<1>11. SomebodyWaits(c, a, st, ws, z, r, Tail(q))
  BY <1>1 DEF PairInv, SomebodyWaits
<1>12. FetchAfterGive(c, a, st, r, Tail(q), f)
  BY <1>1 DEF PairInv, FetchAfterGive
<1>13. OwnerKnown(a, st, z, f)
  BY <1>4 DEF PairInv, OwnerKnown
<1>14. WriteBackUnderWay(c, a, st, z, r, Tail(q), f)
  BY <1>4, <1>7 DEF PairInv, WriteBackUnderWay
<1>15. FlushUnderWay(c, a, st, z, r, Tail(q), f)
  BY <1>4 DEF FlushUnderWay
<1>16. PairInv(c, a, st, ws, z, r, Tail(q), f)
  BY <1>8, <1>9, <1>10, <1>11, <1>12, <1>13, <1>14, <1>15 DEF PairInv
<1> QED BY <1>16 DEF z


(* A request joins the queue: that of another cache, or of this one, which has    *)
(* just been taken from the cache's messages.                                *)
LEMMA PairOthersAsk ==
  ASSUME NEW c, NEW a, NEW st, NEW ws, NEW s, NEW r, NEW q \in Seq(DirReq), NEW e,
         NEW x \in DirReq, ~x.wait, x.from = NoCore, x.c # c,
         PairInv(c, a, st, ws, s, r, q, e)
  PROVE  PairInv(c, a, st, ws, s, r, Append(q, x), e)
<1> DEFINE p == Append(q, x)
<1>1. /\ p # <<>>
      /\ q # <<>> => Head(p) = Head(q)
      /\ Granted(p) <=> Granted(q)
      /\ Queued(p, c) <=> Queued(q, c)
      /\ Unique(q, c) => Unique(p, c)
      /\ Pending(p, c) => Pending(q, c)
  BY QueuePushed
<1> HIDE DEF p
<1>2. GrantedTo(p, c) <=> GrantedTo(q, c)
  BY <1>1 DEF GrantedTo, Granted
<1>3. Listed(c, a, st, s, r, p, e)
  BY <1>2 DEF PairInv, Listed
<1>4. OneStake(c, a, st, s, r, p)
  BY <1>2 DEF PairInv, OneStake
<1>5. OneRequest(c, a, s, r, p)
  BY <1>1 DEF PairInv, OneRequest
<1>6. SomebodyWaits(c, a, st, ws, s, r, p)
  BY <1>1 DEF PairInv, SomebodyWaits
<1>7. FetchAfterGive(c, a, st, r, p, e)
  BY <1>1 DEF PairInv, FetchAfterGive
<1>8. WriteBackUnderWay(c, a, st, s, r, p, e)
  BY <1>1 DEF PairInv, WriteBackUnderWay
<1>9. FlushUnderWay(c, a, st, s, r, p, e)
  BY <1>1 DEF PairInv, FlushUnderWay, UpgradeWithoutCopy
<1>10. PairInv(c, a, st, ws, s, r, p, e)
  BY <1>3, <1>4, <1>5, <1>6, <1>7, <1>8, <1>9 DEF PairInv
<1> QED BY <1>10 DEF p

LEMMA PairAsks ==
  ASSUME NEW c, NEW a, NEW st, NEW ws, NEW s, NEW r \in Seq(ToDirMsg), NEW q \in Seq(DirReq), NEW e,
         NEW x \in DirReq, ~x.wait, x.from = NoCore, x.c = c,
         r # <<>>, Head(r).a = a, Head(r).t = x.t, x.t \in Reqs,
         PairInv(c, a, st, ws, s, r, q, e)
  PROVE  PairInv(c, a, st, ws, s, Tail(r), Append(q, x), e)
<1> DEFINE p == Append(q, x)
           z == Tail(r)
           m == Head(r)
<1>1. /\ p # <<>>
      /\ q # <<>> => Head(p) = Head(q)
      /\ Granted(p) <=> Granted(q)
      /\ Queued(p, c)
      /\ Unique(q, c) /\ ~Queued(q, c) => Unique(p, c)
      /\ Pending(p, c) => Pending(q, c) \/ x.t \in Fetches
  BY QueuePushed
<1>2. /\ \A T : Has(r, T, a) <=> On(m, T, a) \/ Has(z, T, a)
      /\ AtMostOne(r, Gives, a) => AtMostOne(z, Gives, a)
      /\ AtMostOne(r, {"WB_REP"}, a) => AtMostOne(z, {"WB_REP"}, a)
      /\ AtMostOne(r, Reqs, a) => AtMostOne(z, Reqs, a) /\ (On(m, Reqs, a) => ~Has(z, Reqs, a))
      /\ ~Behind(r, Fetches, Gives, a) =>
            ~Behind(z, Fetches, Gives, a) /\ (On(m, Fetches, a) => ~Has(z, Gives, a))
      /\ ~Behind(r, Gives, {"WB_REP"}, a) => ~Behind(z, Gives, {"WB_REP"}, a)
  BY PopFromDir
<1>3. /\ On(m, Reqs, a) /\ ~On(m, Gives, a)
      /\ ~On(m, {"WB_REP"}, a) /\ ~On(m, {"FLUSH_REP"}, a)
      /\ x.t \in Fetches => On(m, Fetches, a)
  BY DEF On, Reqs, Gives, Fetches
<1> HIDE DEF p, z, m
<1>4. /\ Has(r, Reqs, a) /\ ~Has(z, Reqs, a) /\ ~Has(s, Reps, a) /\ ~Queued(q, c)
      /\ Has(z, Gives, a) <=> Has(r, Gives, a)
      /\ Has(z, {"WB_REP"}, a) <=> Has(r, {"WB_REP"}, a)
      /\ Has(z, {"FLUSH_REP"}, a) <=> Has(r, {"FLUSH_REP"}, a)
      /\ Has(z, Fetches, a) => Has(r, Fetches, a)
      /\ ~Has(s, DataReps, a)
  BY <1>2, <1>3, Kinds DEF PairInv, OneRequest
<1>5. ~GrantedTo(q, c)
  <2> SUFFICES ASSUME q # <<>>, Head(q).c = c PROVE FALSE
    BY DEF GrantedTo, Granted
  <2>1. 1 \in DOMAIN q /\ Head(q) = q[1]
    BY Popped
  <2> QED BY <1>4, <2>1 DEF Queued
<1>6. ~GrantedTo(p, c)
  <2>1. CASE q # <<>>
    BY <1>1, <1>5, <2>1 DEF GrantedTo
  <2>2. CASE q = <<>>
    BY <1>1, <2>2 DEF GrantedTo, Granted
  <2> QED BY <2>1, <2>2
<1>7. x.t \in Fetches => c \notin e.sharers
  <2> SUFFICES ASSUME x.t \in Fetches PROVE c \notin e.sharers
    OBVIOUS
  <2>1. st = "I" /\ ~Has(z, Gives, a)
    BY <1>2, <1>3, Kinds DEF PairInv, FetchAfterGive
  <2> QED BY <1>4, <1>5, <2>1 DEF PairInv, Listed
<1>8. Listed(c, a, st, s, z, p, e)
  BY <1>4, <1>5, <1>6 DEF PairInv, Listed
<1>9. OneStake(c, a, st, s, z, p)
  BY <1>2, <1>4, <1>6 DEF PairInv, OneStake
<1>10. OneRequest(c, a, s, z, p)
  BY <1>1, <1>2, <1>4 DEF PairInv, OneRequest
<1>11. SomebodyWaits(c, a, st, ws, s, z, p)
  BY <1>4 DEF PairInv, SomebodyWaits
<1>12. FetchAfterGive(c, a, st, z, p, e)
  BY <1>1, <1>2, <1>4, <1>7 DEF PairInv, FetchAfterGive
<1>13. WriteBackUnderWay(c, a, st, s, z, p, e)
  BY <1>1, <1>2, <1>4 DEF PairInv, WriteBackUnderWay
<1>14. FlushUnderWay(c, a, st, s, z, p, e)
  BY <1>1, <1>4 DEF PairInv, FlushUnderWay, UpgradeWithoutCopy
<1>15. PairInv(c, a, st, ws, s, z, p, e)
  BY <1>8, <1>9, <1>10, <1>11, <1>12, <1>13, <1>14 DEF PairInv
<1> QED BY <1>15 DEF p, z

(* A cache's message that it has no copy any more arrives: it is a sharer no      *)
(* longer.                                                                  *)
LEMMA PairGives ==
  ASSUME NEW c, NEW a, NEW st, NEW ws, NEW s, NEW r \in Seq(ToDirMsg), NEW q, NEW e, NEW f,
         r # <<>>, Head(r).a = a, Head(r).t \in Gives,
         f.sharers = e.sharers \ {c},
         PairInv(c, a, st, ws, s, r, q, e)
  PROVE  /\ PairInv(c, a, st, ws, s, Tail(r), q, f)
         /\ c \in e.sharers /\ ~GrantedTo(q, c) /\ ~Has(Tail(r), {"WB_REP"}, a)
<1> DEFINE z == Tail(r)
           m == Head(r)
<1>1. /\ \A T : Has(r, T, a) <=> On(m, T, a) \/ Has(z, T, a)
      /\ AtMostOne(r, Gives, a) => AtMostOne(z, Gives, a) /\ (On(m, Gives, a) => ~Has(z, Gives, a))
      /\ AtMostOne(r, {"WB_REP"}, a) => AtMostOne(z, {"WB_REP"}, a)
      /\ AtMostOne(r, Reqs, a) => AtMostOne(z, Reqs, a)
      /\ ~Behind(r, Fetches, Gives, a) => ~Behind(z, Fetches, Gives, a)
      /\ ~Behind(r, Gives, {"WB_REP"}, a) =>
            ~Behind(z, Gives, {"WB_REP"}, a) /\ (On(m, Gives, a) => ~Has(z, {"WB_REP"}, a))
  BY PopFromDir
<1>2. /\ On(m, Gives, a) /\ ~On(m, Reqs, a) /\ ~On(m, Fetches, a)
  BY DEF On, Reqs, Gives, Fetches
<1> HIDE DEF z, m
<1>3. /\ st = "I" /\ ~Has(s, DataReps, a) /\ ~GrantedTo(q, c) /\ c \in e.sharers
      /\ ~Has(z, Gives, a) /\ ~Has(z, {"FLUSH_REP"}, a) /\ ~Has(z, {"WB_REP"}, a)
      /\ Has(z, Reqs, a) <=> Has(r, Reqs, a)
      /\ Has(z, Fetches, a) <=> Has(r, Fetches, a)
  BY <1>1, <1>2, Kinds DEF PairInv, OneStake, Listed, WriteBackUnderWay
<1>4. /\ \A T : ~Live(s, T, a, st # "I") /\ ~LiveTwice(s, T, a, st # "I")
      /\ ~Has(s, {"EX_REP"}, a)
  BY <1>3, NoneLive, Kinds
<1>5. Listed(c, a, st, s, z, q, f)
  BY <1>3 DEF Listed
<1>6. OneStake(c, a, st, s, z, q)
  BY <1>1, <1>3 DEF PairInv, OneStake
<1>7. OneRequest(c, a, s, z, q)
  BY <1>1, <1>3 DEF PairInv, OneRequest
<1>8. SomebodyWaits(c, a, st, ws, s, z, q)
  BY <1>3 DEF PairInv, SomebodyWaits
<1>9. FetchAfterGive(c, a, st, z, q, f)
  BY <1>1, <1>3 DEF PairInv, FetchAfterGive
<1>10. OwnerKnown(a, st, s, f)
  BY <1>3, <1>4 DEF OwnerKnown
<1>11. WriteBackUnderWay(c, a, st, s, z, q, f)
  BY <1>1, <1>3, <1>4 DEF PairInv, WriteBackUnderWay
<1>12. FlushUnderWay(c, a, st, s, z, q, f)
  BY <1>3, <1>4 DEF FlushUnderWay
<1>13. PairInv(c, a, st, ws, s, z, q, f)
  BY <1>5, <1>6, <1>7, <1>8, <1>9, <1>10, <1>11, <1>12 DEF PairInv
<1> QED BY <1>3, <1>13 DEF z

(* The other caches then: an owner is the only sharer.  So it is when the owner    *)
(* has written the line back and the entry is shared.                        *)
LEMMA PairOthersGive ==
  ASSUME NEW c, NEW a, NEW st, NEW ws, NEW s, NEW r, NEW q, NEW e, NEW f, NEW d,
         c # d, f.sharers = e.sharers \/ f.sharers = e.sharers \ {d},
         f.st = e.st \/ (f.st \in {"S", "U"} /\ (e.st \in {"E", "M"} => e.sharers = {d})),
         PairInv(c, a, st, ws, s, r, q, e)
  PROVE  PairInv(c, a, st, ws, s, r, q, f)
<1>1. c \in f.sharers <=> c \in e.sharers
  OBVIOUS
<1>2. c \notin e.sharers =>
         /\ st = "I" /\ ~Has(s, {"EX_REP"}, a) /\ ~Has(r, {"FLUSH_REP"}, a) /\ ~Has(r, {"WB_REP"}, a)
         /\ \A T : ~Live(s, T, a, st # "I")
  BY NotListed
<1>3. f.st = e.st \/ c \notin e.sharers \/ e.st \notin {"E", "M"}
  OBVIOUS
<1>4. Listed(c, a, st, s, r, q, f) /\ OneStake(c, a, st, s, r, q) /\ OneRequest(c, a, s, r, q)
  BY <1>1 DEF PairInv, Listed
<1>5. SomebodyWaits(c, a, st, ws, s, r, q) /\ FetchAfterGive(c, a, st, r, q, f)
  BY <1>1 DEF PairInv, FetchAfterGive
<1>6. OwnerKnown(a, st, s, f)
  BY <1>2, <1>3 DEF PairInv, OwnerKnown
<1>7. WriteBackUnderWay(c, a, st, s, r, q, f)
  BY <1>1, <1>2, <1>3 DEF PairInv, WriteBackUnderWay
<1>8. FlushUnderWay(c, a, st, s, r, q, f)
  BY <1>2, <1>3 DEF PairInv, FlushUnderWay, UpgradeWithoutCopy
<1> QED BY <1>4, <1>5, <1>6, <1>7, <1>8 DEF PairInv

LEMMA PairWritesBack ==
  ASSUME NEW c, NEW a, NEW st, NEW ws, NEW s, NEW r \in Seq(ToDirMsg), NEW q, NEW e, NEW f,
         r # <<>>, Head(r).a = a, Head(r).t = "WB_REP",
         f.sharers = e.sharers, f.st = "S",
         PairInv(c, a, st, ws, s, r, q, e)
  PROVE  /\ PairInv(c, a, st, ws, s, Tail(r), q, f)
         /\ ~Has(Tail(r), {"WB_REP"}, a) /\ Has(r, {"WB_REP"}, a)
<1> DEFINE z == Tail(r)
           m == Head(r)
<1>1. /\ \A T : Has(r, T, a) <=> On(m, T, a) \/ Has(z, T, a)
      /\ AtMostOne(r, Gives, a) => AtMostOne(z, Gives, a)
      /\ AtMostOne(r, {"WB_REP"}, a) =>
            AtMostOne(z, {"WB_REP"}, a) /\ (On(m, {"WB_REP"}, a) => ~Has(z, {"WB_REP"}, a))
      /\ AtMostOne(r, Reqs, a) => AtMostOne(z, Reqs, a)
      /\ ~Behind(r, Fetches, Gives, a) => ~Behind(z, Fetches, Gives, a)
      /\ ~Behind(r, Gives, {"WB_REP"}, a) => ~Behind(z, Gives, {"WB_REP"}, a)
  BY PopFromDir
<1>2. /\ On(m, {"WB_REP"}, a) /\ ~On(m, Gives, a) /\ ~On(m, Reqs, a) /\ ~On(m, Fetches, a)
      /\ ~On(m, {"FLUSH_REP"}, a)
  BY DEF On, Reqs, Gives, Fetches
<1> HIDE DEF z, m
<1>3. /\ Has(r, {"WB_REP"}, a) /\ ~Has(z, {"WB_REP"}, a)
      /\ \A T : T \in {Gives, Reqs, Fetches, {"FLUSH_REP"}} => (Has(z, T, a) <=> Has(r, T, a))
  BY <1>1, <1>2 DEF PairInv, WriteBackUnderWay
<1>4. /\ c \in e.sharers /\ st \notin {"E", "M"}
      /\ ~Has(s, {"EX_REP"}, a) /\ ~Has(s, {"UPGRADE_REP"}, a) /\ ~Has(r, {"FLUSH_REP"}, a)
      /\ ~Live(s, {"WB_REQ"}, a, st # "I")
      /\ q # <<>> /\ Head(q).t = "SH_REQ" /\ ~Head(q).wait
      /\ e.st \in {"E", "M"} \/ Head(q).from = c
  BY <1>3 DEF PairInv, WriteBackUnderWay
<1>5. Listed(c, a, st, s, z, q, f)
  BY <1>3 DEF PairInv, Listed
<1>6. OneStake(c, a, st, s, z, q)
  BY <1>1, <1>3 DEF PairInv, OneStake
<1>7. OneRequest(c, a, s, z, q)
  BY <1>1, <1>3 DEF PairInv, OneRequest
<1>8. SomebodyWaits(c, a, st, ws, s, z, q)
  BY <1>3 DEF PairInv, SomebodyWaits
<1>9. FetchAfterGive(c, a, st, z, q, f)
  BY <1>1, <1>3 DEF PairInv, FetchAfterGive
<1>10. OwnerKnown(a, st, s, f)
  BY <1>4 DEF OwnerKnown
<1>11. WriteBackUnderWay(c, a, st, s, z, q, f)
  BY <1>1, <1>3, <1>4 DEF PairInv, WriteBackUnderWay
<1>12. FlushUnderWay(c, a, st, s, z, q, f)
  BY <1>3, <1>4 DEF PairInv, FlushUnderWay
<1>13. PairInv(c, a, st, ws, s, z, q, f)
  BY <1>5, <1>6, <1>7, <1>8, <1>9, <1>10, <1>11, <1>12 DEF PairInv
<1> QED BY <1>3, <1>4, <1>13 DEF z

(* Marking the front request with data, or as waiting for data when it has been   *)
(* granted already.                                                         *)
LEMMA PairMarked ==
  ASSUME NEW c, NEW a, NEW st, NEW ws, NEW s, NEW r, NEW q \in Seq(DirReq), NEW e,
         NEW p \in Seq(DirReq), q # <<>>, Len(p) = Len(q),
         \A i \in 1 .. Len(q) : p[i].c = q[i].c /\ p[i].t = q[i].t,
         Granted(p) <=> Granted(q), Head(p).from = Head(q).from,
         \/ Head(p).wait = Head(q).wait
         \/ /\ Head(q).t = "SH_REQ"
            /\ ~Live(s, {"WB_REQ"}, a, st # "I") /\ ~Has(r, {"WB_REP"}, a),
         PairInv(c, a, st, ws, s, r, q, e)
  PROVE  PairInv(c, a, st, ws, s, r, p, e)
<1>1. /\ p # <<>> /\ Head(p).c = Head(q).c /\ Head(p).t = Head(q).t
      /\ Queued(p, c) <=> Queued(q, c)
      /\ Unique(p, c) <=> Unique(q, c)
      /\ Pending(p, c) => Pending(q, c)
  BY QueueMarked
<1>2. GrantedTo(p, c) <=> GrantedTo(q, c)
  BY <1>1 DEF GrantedTo
<1>3. Listed(c, a, st, s, r, p, e)
  BY <1>2 DEF PairInv, Listed
<1>4. OneStake(c, a, st, s, r, p)
  BY <1>2 DEF PairInv, OneStake
<1>5. OneRequest(c, a, s, r, p)
  BY <1>1 DEF PairInv, OneRequest
<1>6. SomebodyWaits(c, a, st, ws, s, r, p)
  BY <1>1 DEF PairInv, SomebodyWaits
<1>7. FetchAfterGive(c, a, st, r, p, e)
  BY <1>1 DEF PairInv, FetchAfterGive
<1>8. WriteBackUnderWay(c, a, st, s, r, p, e)
  BY <1>1 DEF PairInv, WriteBackUnderWay
<1>9. FlushUnderWay(c, a, st, s, r, p, e)
  BY <1>1 DEF PairInv, FlushUnderWay, UpgradeWithoutCopy
<1> QED BY <1>3, <1>4, <1>5, <1>6, <1>7, <1>8, <1>9 DEF PairInv


-----------------------------------------------------------------------------
(* A line, at the directory and at all caches: ss are the messages to the        *)
(* caches, rr those from them.                                              *)
LineOK(a, q, e, rep, known, ss, rr) ==
    /\ q \in Seq(DirReq) /\ e \in DirEntry /\ LineInv(q, e, rep, known)
    /\ \A k \in Llcs : PairInv(k, a, cache[k][a].st, waiters[k][a], ss[k], rr[k], q, e)

(* A message joins the queues to the caches cs; the head of cache d's is taken. *)
Joined(ss, ss2, cs, m) ==
    \A k \in Llcs : ss2[k] = IF k \in cs THEN Append(ss[k], m) ELSE ss[k]
Taken(rr, rr2, d) == \A k \in Llcs : rr2[k] = IF k = d THEN Tail(rr[k]) ELSE rr[k]

(* No write-back of the line is under way. *)
NoWriteBack(a, ss, rr) ==
    \A k \in Llcs : /\ ~Live(ss[k], {"WB_REQ"}, a, cache[k][a].st # "I")
                    /\ ~Has(rr[k], {"WB_REP"}, a)

LEMMA NoCoreIsNone == NoCore \notin Llcs
  BY DirectoryAssumption DEF NoCore

LEMMA RequesterIsCache ==
  ASSUME NEW q \in Seq(DirReq), NEW e, FrontWaits(q, e), q # <<>>, Head(q).t # "NULLIFY_REQ"
  PROVE  Head(q).c \in Llcs
<1>1. 1 \in DOMAIN q /\ Head(q) = q[1] /\ Head(q) \in DirReq
  BY Popped
<1>2. Head(q).c # NoCore
  BY <1>1 DEF FrontWaits
<1> QED BY <1>1, <1>2 DEF DirReq, Cores

LEMMA WhenNoWriteBack ==
  ASSUME NEW a, NEW q, NEW e, NEW rep, NEW known, NEW ss, NEW rr,
         LineOK(a, q, e, rep, known, ss, rr),
         \/ q = <<>> \/ Head(q).t # "SH_REQ" \/ Head(q).wait
         \/ e.st \notin {"E", "M"} /\ Head(q).from = NoCore
  PROVE  NoWriteBack(a, ss, rr)
<1> SUFFICES ASSUME NEW k \in Llcs
             PROVE  /\ ~Live(ss[k], {"WB_REQ"}, a, cache[k][a].st # "I")
                    /\ ~Has(rr[k], {"WB_REP"}, a)
  BY DEF NoWriteBack
<1>1. k # NoCore
  BY NoCoreIsNone
<1> QED BY <1>1 DEF LineOK, PairInv, WriteBackUnderWay

LEMMA LineGranted ==
  ASSUME NEW a, NEW q, NEW e, NEW rep, NEW known, NEW ss, NEW rr,
         LineOK(a, q, e, rep, known, ss, rr), known,
         q # <<>>, ~Granted(q), Head(q).t # "NULLIFY_REQ", Head(q).c \notin e.sharers,
         \/ e.st = "U"
         \/ e.st = "S" /\ Head(q).t = "SH_REQ",
         NEW p \in Seq(DirReq), Len(p) = Len(q),
         \A i \in 1 .. Len(q) : p[i].c = q[i].c /\ p[i].t = q[i].t,
         \A i \in 2 .. Len(q) : p[i].wait = q[i].wait /\ p[i].from = q[i].from,
         Granted(p), p[1].from # NoCore => p[1].t = "SH_REQ",
         NEW f \in DirEntry, f.sharers = e.sharers \union {Head(q).c}, f.st # "U",
         f.st \in {"E", "M"} => f.sharers = {f.owner},
         Head(q).t # "SH_REQ" => f.st = "M",
         NEW new, Len(new) <= 1, new # <<>> => p[1].wait
  PROVE  LineOK(a, p, f, new, known, ss, rr)
<1>1. p # <<>> /\ Head(p) = p[1] /\ DOMAIN p = 1 .. Len(q) /\ DOMAIN q = 1 .. Len(q)
      /\ Head(q) = q[1]
  BY DEF LineOK
<1>2. FrontWaits(p, f)
  <2> SUFFICES ASSUME NEW i \in 1 .. Len(q)
               PROVE  /\ p[i].wait \/ p[i].from # NoCore => i = 1
                      /\ p[i].from # NoCore => p[i].t = "SH_REQ"
                      /\ p[i].wait /\ p[i].t # "SH_REQ" => f.st = "M"
                      /\ p[i].wait => p[i].t # "NULLIFY_REQ"
                      /\ p[i].t = "NULLIFY_REQ" <=> p[i].c = NoCore
    BY <1>1 DEF FrontWaits
  <2>1. FrontWaits(q, e) /\ i \in DOMAIN q
    BY <1>1 DEF LineOK, LineInv
  <2>2. CASE i = 1
    BY <1>1, <2>1, <2>2 DEF FrontWaits
  <2>3. CASE i # 1
    <3>1. i \in 2 .. Len(q)
      BY <2>3, <1>1 DEF LineOK
    <3> QED BY <2>1, <2>3, <3>1 DEF FrontWaits
  <2> QED BY <2>2, <2>3
<1>3. LineInv(p, f, new, known)
  BY <1>1, <1>2 DEF LineInv
<1>4. \A k \in Llcs : PairInv(k, a, cache[k][a].st, waiters[k][a], ss[k], rr[k], p, f)
  <2> TAKE k \in Llcs
  <2>1. PairInv(k, a, cache[k][a].st, waiters[k][a], ss[k], rr[k], q, e)
        /\ k # NoCore /\ q \in Seq(DirReq)
    BY NoCoreIsNone DEF LineOK
  <2>2. \/ e.st = "U" /\ e.sharers = {}
        \/ e.st = "S" /\ Head(q).t = "SH_REQ"
    BY DEF LineOK, LineInv
  <2> QED BY <2>1, <2>2, PairGranted
<1> QED BY <1>3, <1>4 DEF LineOK

LEMMA LineAnswered ==
  ASSUME NEW a, NEW q, NEW e, NEW rep, NEW known, NEW ss \in [Llcs -> Seq(ToCacheMsg)], NEW rr,
         LineOK(a, q, e, rep, known, ss, rr), known, NoWriteBack(a, ss, rr),
         q # <<>>, Head(q).c \in Llcs,
         NEW f \in DirEntry, f.sharers = e.sharers,
         f.st # "U", f.st = e.st \/ f.st = "M",
         f.st \in {"E", "M"} => f.sharers = {f.owner},
         NEW m \in ToCacheMsg, m.a = a,
         \/ Granted(q) /\ m.t \in DataReps
         \/ /\ ~Granted(q) /\ m.t = "UPGRADE_REP" /\ f.st = "M"
            /\ e.sharers = {Head(q).c},
         m.t \in {"EX_REP", "UPGRADE_REP"} => f.st \in {"E", "M"},
         NEW ss2 \in [Llcs -> Seq(ToCacheMsg)],
         Joined(ss, ss2, {Head(q).c}, m)
  PROVE  /\ LineOK(a, Tail(q), f, <<>>, known, ss2, rr)
         /\ NoWriteBack(a, ss2, rr) /\ ~Granted(Tail(q))
<1> USE DEF Joined
<1>1. q \in Seq(DirReq) /\ FrontWaits(q, e)
  BY DEF LineOK, LineInv
<1>2. ~Granted(Tail(q)) /\ FrontWaits(Tail(q), f) /\ Tail(q) \in Seq(DirReq)
  BY <1>1, QueuePopped
<1>3. LineInv(Tail(q), f, <<>>, known)
  BY <1>2 DEF LineInv
<1>4. ASSUME NEW k \in Llcs
      PROVE  /\ PairInv(k, a, cache[k][a].st, waiters[k][a], ss[k], rr[k], q, e)
             /\ ~Live(ss[k], {"WB_REQ"}, a, cache[k][a].st # "I") /\ ~Has(rr[k], {"WB_REP"}, a)
             /\ ~Live(ss[k], {"FLUSH_REQ"}, a, cache[k][a].st # "I")
             /\ Has(rr[k], {"FLUSH_REP"}, a) => f.st \in {"E", "M"}
  <2>1. /\ PairInv(k, a, cache[k][a].st, waiters[k][a], ss[k], rr[k], q, e)
        /\ ~Live(ss[k], {"WB_REQ"}, a, cache[k][a].st # "I") /\ ~Has(rr[k], {"WB_REP"}, a)
    BY DEF LineOK, NoWriteBack
  <2>2. CASE Granted(q)
    <3>1. Head(q).wait \/ Head(q).t = "SH_REQ"
      <4>1. 1 \in DOMAIN q /\ Head(q) = q[1]
        BY <1>1, Popped
      <4> QED BY <1>1, <2>2, <4>1 DEF Granted, FrontWaits
    <3> QED BY <2>1, <3>1 DEF PairInv, FlushUnderWay, UpgradeWithoutCopy
  <2>3. CASE ~Granted(q)
    <3>1. k # Head(q).c => ~Live(ss[k], {"FLUSH_REQ"}, a, cache[k][a].st # "I")
      <4> SUFFICES ASSUME k # Head(q).c
                   PROVE  ~Live(ss[k], {"FLUSH_REQ"}, a, cache[k][a].st # "I")
        OBVIOUS
      <4> HIDE DEF Joined
      <4>1. k \notin e.sharers
        BY <2>3
      <4>2. \A T : ~Live(ss[k], T, a, cache[k][a].st # "I")
        BY <2>1, <4>1, NotListed
      <4> QED BY <4>2
    <3>2. k = Head(q).c => ~Live(ss[k], {"FLUSH_REQ"}, a, cache[k][a].st # "I")
      BY <2>1 DEF PairInv, FlushUnderWay
    <3> QED BY <2>1, <2>3, <3>1, <3>2
  <2> QED BY <2>2, <2>3
<1>5. \A k \in Llcs : PairInv(k, a, cache[k][a].st, waiters[k][a], ss2[k], rr[k], Tail(q), f)
  <2> TAKE k \in Llcs
  <2>1. e.st \in {"E", "M"} => f.st \in {"E", "M"}
    OBVIOUS
  <2>2. ss[k] \in Seq(ToCacheMsg)
    OBVIOUS
  <2>3. CASE k = Head(q).c
    <3>1. ss2[k] = Append(ss[k], m)
      BY <2>3
    <3>2. \/ Granted(q) /\ m.t \in DataReps
          \/ ~Granted(q) /\ m.t = "UPGRADE_REP"
      OBVIOUS
    <3> HIDE DEF NoWriteBack
    <3>3. PairInv(k, a, cache[k][a].st, waiters[k][a], Append(ss[k], m), rr[k], Tail(q), f)
      BY <1>1, <1>4, <2>1, <2>2, <2>3, <3>2, PairAnswered
    <3> QED BY <3>1, <3>3
  <2>4. CASE k # Head(q).c
    <3>1. ss2[k] = ss[k]
      BY <2>4
    <3> QED BY <1>1, <1>4, <2>1, <2>4, <3>1, PairOthersAnswer
  <2> QED BY <2>3, <2>4
<1>6. NoWriteBack(a, ss2, rr)
  <2> SUFFICES ASSUME NEW k \in Llcs
               PROVE  /\ ~Live(ss2[k], {"WB_REQ"}, a, cache[k][a].st # "I")
                      /\ ~Has(rr[k], {"WB_REP"}, a)
    BY DEF NoWriteBack
  <2>1. m.t \in Reps
    BY DEF Reps, DataReps
  <2>2. Live(Append(ss[k], m), {"WB_REQ"}, a, cache[k][a].st # "I")
          <=> Live(ss[k], {"WB_REQ"}, a, cache[k][a].st # "I")
    BY <2>1, PushRep, Zenon
  <2> QED BY <1>4, <2>2
<1> QED BY <1>2, <1>3, <1>5, <1>6 DEF LineOK


LEMMA LineAsked ==
  ASSUME NEW a, NEW q, NEW e, NEW rep, NEW known, NEW ss \in [Llcs -> Seq(ToCacheMsg)], NEW rr,
         LineOK(a, q, e, rep, known, ss, rr),
         NEW m \in ToCacheMsg, m.a = a, m.t \in {"INV_REQ", "FLUSH_REQ", "WB_REQ"}, NEW cs,
         m.t = "FLUSH_REQ" =>
             /\ q # <<>> /\ Head(q).t # "SH_REQ" /\ ~Head(q).wait
             /\ Head(q).c \notin cs \intersect e.sharers
             /\ e.st \in {"E", "M"} \/ UpgradeWithoutCopy(q, e),
         m.t = "WB_REQ" =>
             /\ q # <<>> /\ Head(q).t = "SH_REQ" /\ ~Head(q).wait
             /\ e.st \in {"E", "M"} \/ cs \subseteq {Head(q).from}
             /\ NoWriteBack(a, ss, rr),
         NEW ss2 \in [Llcs -> Seq(ToCacheMsg)],
         Joined(ss, ss2, cs, m)
  PROVE  LineOK(a, q, e, rep, known, ss2, rr)
<1> USE DEF Joined
<1> SUFFICES ASSUME NEW k \in Llcs
             PROVE  PairInv(k, a, cache[k][a].st, waiters[k][a], ss2[k], rr[k], q, e)
  BY DEF LineOK
<1>1. PairInv(k, a, cache[k][a].st, waiters[k][a], ss[k], rr[k], q, e) /\ ss[k] \in Seq(ToCacheMsg)
  BY DEF LineOK
<1>2. CASE k \notin cs
  BY <1>1, <1>2
<1>3. CASE k \in cs
  <2>1. m.t = "FLUSH_REQ" /\ k \in e.sharers =>
             /\ q # <<>> /\ Head(q).t # "SH_REQ" /\ ~Head(q).wait /\ Head(q).c # k
             /\ e.st \in {"E", "M"} \/ UpgradeWithoutCopy(q, e)
    BY <1>3
  <2>2. m.t = "WB_REQ" =>
             /\ q # <<>> /\ Head(q).t = "SH_REQ" /\ ~Head(q).wait
             /\ e.st \in {"E", "M"} \/ Head(q).from = k
             /\ ~Live(ss[k], {"WB_REQ"}, a, cache[k][a].st # "I") /\ ~Has(rr[k], {"WB_REP"}, a)
    BY <1>3 DEF NoWriteBack
  <2>3. PairInv(k, a, cache[k][a].st, waiters[k][a], Append(ss[k], m), rr[k], q, e)
    BY <1>1, <2>1, <2>2, PairAsked
  <2> QED BY <1>3, <2>3
<1> QED BY <1>2, <1>3

LEMMA LineAsks ==
  ASSUME NEW a, NEW q, NEW e, NEW rep, NEW known, NEW ss,
         NEW rr \in [Llcs -> Seq(ToDirMsg)], NEW rr2,
         LineOK(a, q, e, rep, known, ss, rr), NEW x \in DirReq, ~x.wait, x.from = NoCore,
         x.c \in Llcs, rr[x.c] # <<>>, Head(rr[x.c]).a = a, Head(rr[x.c]).t = x.t, x.t \in Reqs,
         Taken(rr, rr2, x.c)
  PROVE  LineOK(a, Append(q, x), e, rep, known, ss, rr2)
<1> USE DEF Taken
<1>1. q \in Seq(DirReq) /\ e \in DirEntry /\ LineInv(q, e, rep, known)
  BY DEF LineOK
<1>2. /\ Append(q, x) \in Seq(DirReq)
      /\ q # <<>> => Head(Append(q, x)) = Head(q)
      /\ FrontWaits(q, e) /\ (x.t = "NULLIFY_REQ" <=> x.c = NoCore) => FrontWaits(Append(q, x), e)
      /\ Append(q, x) # <<>>
  BY <1>1, QueuePushed
<1>3. x.c # NoCore /\ x.t # "NULLIFY_REQ"
  BY NoCoreIsNone DEF Reqs
<1>4. LineInv(Append(q, x), e, rep, known)
  BY <1>1, <1>2, <1>3 DEF LineInv
<1>5. \A k \in Llcs : PairInv(k, a, cache[k][a].st, waiters[k][a], ss[k], rr2[k], Append(q, x), e)
  <2> TAKE k \in Llcs
  <2>1. PairInv(k, a, cache[k][a].st, waiters[k][a], ss[k], rr[k], q, e)
    BY DEF LineOK
  <2>2. CASE x.c # k
    <3>1. rr2[k] = rr[k]
      BY <2>2
    <3> QED BY <1>1, <2>1, <2>2, <3>1, PairOthersAsk
  <2>3. CASE x.c = k
    <3>1. rr2[k] = Tail(rr[k]) /\ rr[k] \in Seq(ToDirMsg)
      BY <2>3
    <3>2. rr[k] # <<>> /\ Head(rr[k]).a = a /\ Head(rr[k]).t = x.t
      BY <2>3
    <3> QED BY <1>1, <2>1, <2>3, <3>1, <3>2, PairAsks
  <2> QED BY <2>2, <2>3
<1> QED BY <1>1, <1>2, <1>4, <1>5 DEF LineOK

(* A replaced entry gets a NULLIFY_REQ; when it has no sharers it is gone.       *)
LEMMA LineReplaced ==
  ASSUME NEW a, NEW q, NEW e, NEW rep, NEW known, NEW ss, NEW rr,
         LineOK(a, q, e, rep, known, ss, rr),
         NEW x \in DirReq, ~x.wait, x.from = NoCore, x.c = NoCore, x.t = "NULLIFY_REQ"
  PROVE  LineOK(a, Append(q, x), e, rep, known, ss, rr)
<1>1. q \in Seq(DirReq) /\ e \in DirEntry /\ LineInv(q, e, rep, known)
  BY DEF LineOK
<1>2. /\ Append(q, x) \in Seq(DirReq)
      /\ q # <<>> => Head(Append(q, x)) = Head(q)
      /\ FrontWaits(q, e) /\ (x.t = "NULLIFY_REQ" <=> x.c = NoCore) => FrontWaits(Append(q, x), e)
      /\ Append(q, x) # <<>>
  BY <1>1, QueuePushed
<1>3. LineInv(Append(q, x), e, rep, known)
  BY <1>1, <1>2 DEF LineInv
<1>4. \A k \in Llcs : PairInv(k, a, cache[k][a].st, waiters[k][a], ss[k], rr[k], Append(q, x), e)
  <2> TAKE k \in Llcs
  <2>1. PairInv(k, a, cache[k][a].st, waiters[k][a], ss[k], rr[k], q, e) /\ x.c # k
    BY NoCoreIsNone DEF LineOK
  <2> QED BY <1>1, <2>1, PairOthersAsk
<1> QED BY <1>1, <1>2, <1>3, <1>4 DEF LineOK

LEMMA LineNullified ==
  ASSUME NEW a, NEW q, NEW e, NEW rep, NEW known, NEW ss, NEW rr,
         LineOK(a, q, e, rep, known, ss, rr), q # <<>>, Head(q).t = "NULLIFY_REQ", e.st = "U",
         NEW still
  PROVE  /\ LineOK(a, Tail(q), e, rep, still, ss, rr)
         /\ NoWriteBack(a, ss, rr) /\ ~Granted(Tail(q))
<1>1. q \in Seq(DirReq) /\ e \in DirEntry /\ LineInv(q, e, rep, known) /\ FrontWaits(q, e)
  BY DEF LineOK, LineInv
<1>2. ~Granted(Tail(q)) /\ FrontWaits(Tail(q), e) /\ Tail(q) \in Seq(DirReq)
  BY <1>1, QueuePopped
<1>3. Head(q).c = NoCore /\ ~Head(q).wait
  <2>1. 1 \in DOMAIN q /\ Head(q) = q[1]
    BY <1>1, Popped
  <2> QED BY <1>1, <2>1 DEF FrontWaits
<1>4. LineInv(Tail(q), e, rep, still)
  BY <1>1, <1>2, <1>3 DEF LineInv
<1>5. NoWriteBack(a, ss, rr)
  BY WhenNoWriteBack
<1>6. \A k \in Llcs : PairInv(k, a, cache[k][a].st, waiters[k][a], ss[k], rr[k], Tail(q), e)
  <2> TAKE k \in Llcs
  <2>1. /\ PairInv(k, a, cache[k][a].st, waiters[k][a], ss[k], rr[k], q, e) /\ k # NoCore
        /\ k \notin e.sharers
    BY <1>1, NoCoreIsNone DEF LineOK, LineInv
  <2>2. /\ ~Has(rr[k], {"FLUSH_REP"}, a) /\ ~Has(rr[k], {"WB_REP"}, a)
        /\ \A T : ~Live(ss[k], T, a, cache[k][a].st # "I")
    BY <2>1, NotListed
  <2> QED BY <1>1, <1>3, <2>1, <2>2, PairOthersAnswer
<1> QED BY <1>1, <1>2, <1>4, <1>5, <1>6 DEF LineOK

(* The entry e when cache d is a sharer no longer, and what that tells. *)
Left(f, e, d) == /\ f \in DirEntry /\ f.sharers = e.sharers \ {d}
                 /\ f.st = IF f.sharers = {} THEN "U" ELSE e.st
LeftFacts(q, f, known, t) ==
    /\ known /\ f.st \in {"U", "S"}
    /\ Granted(q) => f.st = "S" /\ Head(q).t = "SH_REQ" /\ Head(q).c \in f.sharers
    /\ t = "FLUSH_REP" /\ f.st = "S" => q # <<>> /\ Head(q).t = "UPGRADE_REQ" /\ ~Head(q).wait

LEMMA LineGives ==
  ASSUME NEW a, NEW q, NEW e, NEW rep, NEW known, NEW ss,
         NEW rr \in [Llcs -> Seq(ToDirMsg)], NEW rr2,
         LineOK(a, q, e, rep, known, ss, rr), NEW d \in Llcs,
         rr[d] # <<>>, Head(rr[d]).a = a, Head(rr[d]).t \in Gives,
         Taken(rr, rr2, d), NEW f, Left(f, e, d)
  PROVE  LineOK(a, q, f, rep, known, ss, rr2) /\ LeftFacts(q, f, known, Head(rr[d]).t)
<1> USE DEF Taken
<1>0. /\ f \in DirEntry /\ f.sharers = e.sharers \ {d}
      /\ f.st = IF f.sharers = {} THEN "U" ELSE e.st
  BY DEF Left
<1> USE <1>0
<1>1. q \in Seq(DirReq) /\ e \in DirEntry /\ LineInv(q, e, rep, known) /\ FrontWaits(q, e)
  BY DEF LineOK, LineInv
<1>2. /\ PairInv(d, a, cache[d][a].st, waiters[d][a], ss[d], Tail(rr[d]), q, f)
      /\ d \in e.sharers /\ ~GrantedTo(q, d)
  <2> DEFINE st == cache[d][a].st
             r == rr[d]
  <2>1. /\ PairInv(d, a, st, waiters[d][a], ss[d], r, q, e) /\ r \in Seq(ToDirMsg)
        /\ r # <<>> /\ Head(r).a = a /\ Head(r).t \in Gives /\ f.sharers = e.sharers \ {d}
    BY DEF LineOK
  <2> HIDE DEF r, st
  <2>2. /\ PairInv(d, a, st, waiters[d][a], ss[d], Tail(r), q, f)
        /\ d \in e.sharers /\ ~GrantedTo(q, d)
    BY <2>1, PairGives
  <2> QED BY <2>2 DEF r, st
<1>3. /\ e.st \in {"E", "M"} => e.sharers = {d} /\ f.st = "U"
      /\ e.st \in {"S", "E", "M"} /\ f.st \in {"U", "S"}
      /\ known
  BY <1>1, <1>2 DEF LineInv, DirEntry
<1>4. Granted(q) => /\ f.st = "S" /\ Head(q).t = "SH_REQ" /\ Head(q).c \in f.sharers /\ e.st = "S"
  <2> SUFFICES ASSUME Granted(q)
               PROVE  f.st = "S" /\ Head(q).t = "SH_REQ" /\ Head(q).c \in f.sharers /\ e.st = "S"
    OBVIOUS
  <2>1. q # <<>> /\ 1 \in DOMAIN q /\ Head(q) = q[1]
    BY <1>1, Popped DEF Granted
  <2>2. Head(q).t # "NULLIFY_REQ"
    BY <1>1, <2>1 DEF Granted, FrontWaits
  <2>3. Head(q).c \in Llcs
    BY <1>1, <2>1, <2>2, RequesterIsCache
  <2>4. Head(q).c \in e.sharers
    BY <2>3 DEF LineOK, PairInv, Listed, GrantedTo
  <2>5. Head(q).c # d
    BY <1>2 DEF GrantedTo
  <2>6. e.st = "S" /\ Head(q).c \in f.sharers
    BY <1>3, <2>4, <2>5
  <2>7. Head(q).t = "SH_REQ"
    BY <1>1, <2>1, <2>6 DEF Granted, FrontWaits
  <2> QED BY <1>3, <2>6, <2>7
<1>5. FrontWaits(q, f)
  <2> SUFFICES ASSUME NEW i \in DOMAIN q, q[i].wait, q[i].t # "SH_REQ"
               PROVE  f.st = "M"
    BY <1>1 DEF FrontWaits
  <2>1. i = 1
    BY <1>1 DEF FrontWaits
  <2>2. q # <<>> /\ Head(q) = q[1]
    BY <1>1
  <2> QED BY <1>4, <2>1, <2>2 DEF Granted
<1>6. LineInv(q, f, rep, known)
  BY <1>1, <1>3, <1>5 DEF LineInv
<1>7. \A k \in Llcs : PairInv(k, a, cache[k][a].st, waiters[k][a], ss[k], rr2[k], q, f)
  <2> TAKE k \in Llcs
  <2>1. PairInv(k, a, cache[k][a].st, waiters[k][a], ss[k], rr[k], q, e)
    BY DEF LineOK
  <2>2. CASE k = d
    BY <1>2, <2>2
  <2>3. CASE k # d
    <3>1. rr2[k] = rr[k]
      BY <2>3
    <3>2. f.st = e.st \/ (f.st \in {"S", "U"} /\ (e.st \in {"E", "M"} => e.sharers = {d}))
      BY <1>3
    <3> HIDE DEF Taken
    <3> QED BY <2>1, <2>3, <3>1, <3>2, PairOthersGive
  <2> QED BY <2>2, <2>3
<1>8. Head(rr[d]).t = "FLUSH_REP" /\ f.st = "S" =>
         q # <<>> /\ Head(q).t = "UPGRADE_REQ" /\ ~Head(q).wait
  <2> SUFFICES ASSUME Head(rr[d]).t = "FLUSH_REP", e.st = "S"
               PROVE  q # <<>> /\ Head(q).t = "UPGRADE_REQ" /\ ~Head(q).wait
    BY <1>3
  <2>1. Has(rr[d], {"FLUSH_REP"}, a)
    <3>1. rr[d] \in Seq(ToDirMsg)
      OBVIOUS
    <3>2. 1 \in DOMAIN rr[d] /\ Head(rr[d]) = rr[d][1]
      BY <3>1, Popped
    <3> QED BY <3>2 DEF Has, On
  <2> QED BY <2>1 DEF LineOK, PairInv, FlushUnderWay, UpgradeWithoutCopy
<1>9. LineOK(a, q, f, rep, known, ss, rr2)
  BY <1>1, <1>6, <1>7 DEF LineOK
<1>10. LeftFacts(q, f, known, Head(rr[d]).t)
  BY <1>3, <1>4, <1>8 DEF LeftFacts
<1> QED BY <1>9, <1>10

(* The entry e when its owner has written the line back. *)
Written(f, e) == f \in DirEntry /\ f.sharers = e.sharers /\ f.st = "S"
ReadsNow(q, known) == known /\ q # <<>> /\ Head(q).t = "SH_REQ" /\ ~Head(q).wait

LEMMA LineWritesBack ==
  ASSUME NEW a, NEW q, NEW e, NEW rep, NEW known, NEW ss,
         NEW rr \in [Llcs -> Seq(ToDirMsg)], NEW rr2,
         LineOK(a, q, e, rep, known, ss, rr), NEW d \in Llcs,
         rr[d] # <<>>, Head(rr[d]).a = a, Head(rr[d]).t = "WB_REP",
         Taken(rr, rr2, d), NEW f, Written(f, e)
  PROVE  /\ LineOK(a, q, f, rep, known, ss, rr2)
         /\ NoWriteBack(a, ss, rr2) /\ ReadsNow(q, known)
<1>0. f \in DirEntry /\ f.sharers = e.sharers /\ f.st = "S"
  BY DEF Written
<1> USE <1>0
<1> USE DEF Taken
<1>1. q \in Seq(DirReq) /\ e \in DirEntry /\ LineInv(q, e, rep, known) /\ FrontWaits(q, e)
  BY DEF LineOK, LineInv
<1>2. /\ PairInv(d, a, cache[d][a].st, waiters[d][a], ss[d], Tail(rr[d]), q, f)
      /\ d \in e.sharers /\ ~Has(Tail(rr[d]), {"WB_REP"}, a)
      /\ ~Live(ss[d], {"WB_REQ"}, a, cache[d][a].st # "I")
      /\ q # <<>> /\ Head(q).t = "SH_REQ" /\ ~Head(q).wait
      /\ e.st \in {"E", "M"} \/ Head(q).from = d
  <2> DEFINE st == cache[d][a].st
             r == rr[d]
  <2>1. /\ PairInv(d, a, st, waiters[d][a], ss[d], r, q, e) /\ r \in Seq(ToDirMsg)
        /\ r # <<>> /\ Head(r).a = a /\ Head(r).t = "WB_REP" /\ f.sharers = e.sharers /\ f.st = "S"
    BY DEF LineOK
  <2> HIDE DEF r, st
  <2>2. PairInv(d, a, st, waiters[d][a], ss[d], Tail(r), q, f)
        /\ ~Has(Tail(r), {"WB_REP"}, a) /\ Has(r, {"WB_REP"}, a)
    BY <2>1, PairWritesBack
  <2>3. /\ d \in e.sharers
        /\ ~Live(ss[d], {"WB_REQ"}, a, st # "I")
        /\ q # <<>> /\ Head(q).t = "SH_REQ" /\ ~Head(q).wait
        /\ e.st \in {"E", "M"} \/ Head(q).from = d
    BY <2>1, <2>2 DEF PairInv, WriteBackUnderWay
  <2> QED BY <2>2, <2>3 DEF r, st
<1>3. /\ e.st \in {"E", "M"} => e.sharers = {d}
      /\ e.st \in {"S", "E", "M"} /\ known
  BY <1>1, <1>2 DEF LineInv, DirEntry
<1>4. FrontWaits(q, f)
  <2>1. 1 \in DOMAIN q /\ Head(q) = q[1]
    BY <1>1, <1>2, Popped
  <2> QED BY <1>1, <1>2, <2>1 DEF FrontWaits
<1>5. LineInv(q, f, rep, known)
  BY <1>1, <1>3, <1>4 DEF LineInv
<1>6. ASSUME NEW k \in Llcs, k # d
      PROVE  /\ PairInv(k, a, cache[k][a].st, waiters[k][a], ss[k], rr2[k], q, f)
             /\ ~Live(ss[k], {"WB_REQ"}, a, cache[k][a].st # "I") /\ ~Has(rr2[k], {"WB_REP"}, a)
  <2>1. PairInv(k, a, cache[k][a].st, waiters[k][a], ss[k], rr[k], q, e) /\ rr2[k] = rr[k]
    BY <1>6 DEF LineOK
  <2>2. PairInv(k, a, cache[k][a].st, waiters[k][a], ss[k], rr[k], q, f)
    <3>1. f.st = e.st \/ (f.st \in {"S", "U"} /\ (e.st \in {"E", "M"} => e.sharers = {d}))
      BY <1>3
    <3> QED BY <1>6, <2>1, <3>1, PairOthersGive
  <2>3. k # NoCore
    BY NoCoreIsNone
  <2>4. CASE e.st \in {"E", "M"}
    <3>1. k \notin e.sharers
      BY <1>3, <1>6, <2>4
    <3>2. ~Has(rr[k], {"WB_REP"}, a) /\ \A T : ~Live(ss[k], T, a, cache[k][a].st # "I")
      BY <2>1, <3>1, NotListed
    <3> QED BY <2>1, <2>2, <3>2
  <2>5. CASE e.st \notin {"E", "M"}
    <3>1. Head(q).from # k
      BY <1>2, <1>6, <2>5
    <3> QED BY <2>1, <2>2, <2>5, <3>1 DEF PairInv, WriteBackUnderWay
  <2> QED BY <2>4, <2>5
<1>7. rr2[d] = Tail(rr[d])
  OBVIOUS
<1>8. LineOK(a, q, f, rep, known, ss, rr2)
  BY <1>1, <1>2, <1>5, <1>6, <1>7 DEF LineOK
<1>9. NoWriteBack(a, ss, rr2)
  BY <1>2, <1>6, <1>7 DEF NoWriteBack
<1> QED BY <1>2, <1>3, <1>8, <1>9 DEF ReadsNow

(* The front request is marked; the entry is allocated anew. *)
LEMMA LineMarked ==
  ASSUME NEW a, NEW q, NEW e, NEW rep, NEW known, NEW ss, NEW rr,
         LineOK(a, q, e, rep, known, ss, rr),
         NEW p \in Seq(DirReq), q # <<>>, Len(p) = Len(q),
         \A i \in 1 .. Len(q) : p[i].c = q[i].c /\ p[i].t = q[i].t /\ p[i].from = q[i].from,
         \A i \in 2 .. Len(q) : p[i].wait = q[i].wait,
         \/ p[1].wait = q[1].wait
         \/ /\ Granted(q) /\ Head(q).t = "SH_REQ" /\ NoWriteBack(a, ss, rr),
         Granted(q) => Granted(p),
         NEW new, Len(new) <= 1, new # <<>> => p[1].wait
  PROVE  LineOK(a, p, e, new, known, ss, rr)
<1>1. q \in Seq(DirReq) /\ e \in DirEntry /\ LineInv(q, e, rep, known) /\ FrontWaits(q, e)
  BY DEF LineOK, LineInv
<1>2. /\ p # <<>> /\ Head(p) = p[1] /\ Head(q) = q[1]
      /\ DOMAIN p = 1 .. Len(q) /\ DOMAIN q = 1 .. Len(q) /\ 1 \in 1 .. Len(q)
  BY <1>1
<1>3. Granted(p) <=> Granted(q)
  BY <1>2 DEF Granted
<1>4. FrontWaits(p, e)
  <2> SUFFICES ASSUME NEW i \in 1 .. Len(q)
               PROVE  /\ p[i].wait \/ p[i].from # NoCore => i = 1
                      /\ p[i].from # NoCore => p[i].t = "SH_REQ"
                      /\ p[i].wait /\ p[i].t # "SH_REQ" => e.st = "M"
                      /\ p[i].wait => p[i].t # "NULLIFY_REQ"
                      /\ p[i].t = "NULLIFY_REQ" <=> p[i].c = NoCore
    BY <1>2 DEF FrontWaits
  <2>1. CASE i = 1
    BY <1>1, <1>2, <2>1 DEF FrontWaits
  <2>2. CASE i # 1
    <3>1. i \in 2 .. Len(q) /\ i \in DOMAIN q
      BY <1>1, <1>2, <2>2
    <3> QED BY <1>1, <2>2, <3>1 DEF FrontWaits
  <2> QED BY <2>1, <2>2
<1>5. LineInv(p, e, new, known)
  BY <1>1, <1>2, <1>4 DEF LineInv
<1>6. \A k \in Llcs : PairInv(k, a, cache[k][a].st, waiters[k][a], ss[k], rr[k], p, e)
  <2> TAKE k \in Llcs
  <2>1. PairInv(k, a, cache[k][a].st, waiters[k][a], ss[k], rr[k], q, e)
    BY DEF LineOK
  <2>2. /\ Head(p).from = Head(q).from
        /\ \/ Head(p).wait = Head(q).wait
           \/ /\ Head(q).t = "SH_REQ"
              /\ ~Live(ss[k], {"WB_REQ"}, a, cache[k][a].st # "I") /\ ~Has(rr[k], {"WB_REP"}, a)
    BY <1>2 DEF NoWriteBack
  <2> QED BY <1>1, <1>3, <2>1, <2>2, PairMarked
<1> QED BY <1>1, <1>5, <1>6 DEF LineOK

LEMMA LineAlike ==
  ASSUME NEW a, NEW q, NEW e, NEW rep, NEW known, NEW ss, NEW rr, NEW zz, NEW yy, NEW f \in DirEntry,
         NEW still, LineOK(a, q, e, rep, known, ss, rr),
         f.st = e.st, f.sharers = e.sharers, f.st \in {"E", "M"} => f.owner = e.owner,
         ~still => ~known \/ e.st = "U",
         \A k \in Llcs : Alike(ss[k], zz[k], a) /\ Alike(rr[k], yy[k], a)
  PROVE  LineOK(a, q, f, rep, still, zz, yy)
<1>1. LineInv(q, f, rep, still)
  BY DEF LineOK, LineInv, FrontWaits
<1>2. \A k \in Llcs : PairInv(k, a, cache[k][a].st, waiters[k][a], zz[k], yy[k], q, f)
  <2> TAKE k \in Llcs
  <2>1. /\ PairInv(k, a, cache[k][a].st, waiters[k][a], ss[k], rr[k], q, e)
        /\ Alike(ss[k], zz[k], a) /\ Alike(rr[k], yy[k], a)
    BY DEF LineOK
  <2> QED BY <2>1, PairAlike
<1> QED BY <1>1, <1>2 DEF LineOK


-----------------------------------------------------------------------------
(* The directory at work, in terms of the lines: what it is about to send is on   *)
(* its way already; rest is what is still to come from the caches.           *)
Failures == {"message to no core", "removeSharer of a core that is none",
             "invalidateDirectoryEntry", "no directory entry to be replaced",
             "data for a cached line", "WB_REQ with data, or to the requester",
             "upgrade by no owner", "Unrecognized Request", "DRAM reply to nobody",
             "DRAM reply in a wrong state", "Ooops", "flush without entry",
             "flush leaves sharers", "WB_REP of no sharer", "WB_REP to no SH_REQ"}
Works == [d : Directory, out : [Llcs -> Seq(ToCacheMsg)], err : Failures \union {NoFailure}, next : BOOLEAN,
          victim : Addrs, one : Llcs]
Out(w) == [k \in Llcs |-> toCache[k] \o w.out[k]]
FineAt(w, rest, b) ==
    LineOK(b, w.d.q[b], w.d.e[b], w.d.reply[b], HasEntry(w, b), Out(w), rest)
Fine(w, rest) == /\ w \in Works /\ toCache \in [Llcs -> Seq(ToCacheMsg)]
                 /\ rest \in [Llcs -> Seq(ToDirMsg)]
                 /\ SlotsInv(w.d) /\ \A b \in Addrs : FineAt(w, rest, b)
Calm(w, rest, a) == NoWriteBack(a, Out(w), rest)

(* Only the line at a is worked on. *)
OnlyAt(w, z, a) ==
    /\ z \in Works /\ z.d.slots = w.d.slots /\ z.d.replaced \subseteq w.d.replaced
    /\ \A b \in Addrs \ {a} :
           /\ z.d.q[b] = w.d.q[b] /\ z.d.e[b] = w.d.e[b] /\ z.d.reply[b] = w.d.reply[b]
           /\ b \in w.d.replaced => b \in z.d.replaced
    /\ \A k \in Llcs : \A b \in Addrs \ {a} : Alike(Out(w)[k], Out(z)[k], b)

LEMMA OnlyAtFine ==
  ASSUME NEW w, NEW z, NEW a \in Addrs, NEW rest, Fine(w, rest), OnlyAt(w, z, a), FineAt(z, rest, a)
  PROVE  Fine(z, rest)
<1>1. z \in Works /\ SlotsInv(z.d)
  BY DEF Fine, OnlyAt, SlotsInv
<1>2. ASSUME NEW b \in Addrs, b # a PROVE FineAt(z, rest, b)
  <2>1. /\ LineOK(b, w.d.q[b], w.d.e[b], w.d.reply[b], HasEntry(w, b), Out(w), rest)
        /\ z.d.q[b] = w.d.q[b] /\ z.d.e[b] = w.d.e[b] /\ z.d.reply[b] = w.d.reply[b]
        /\ HasEntry(z, b) <=> HasEntry(w, b)
        /\ \A k \in Llcs : Alike(Out(w)[k], Out(z)[k], b)
    BY <1>2 DEF Fine, FineAt, OnlyAt, HasEntry
  <2>2. /\ w.d.e[b] \in DirEntry
        /\ \A k \in Llcs : Alike(rest[k], rest[k], b)
    BY AlikeSelf DEF Fine, Works, Directory
  <2>3. LineOK(b, w.d.q[b], w.d.e[b], w.d.reply[b], HasEntry(z, b), Out(z), rest)
    BY <2>1, <2>2, LineAlike
  <2> QED BY <2>1, <2>3 DEF FineAt
<1> QED BY <1>1, <1>2 DEF Fine

LEMMA OnlyAtChain ==
  ASSUME NEW w, NEW y, NEW z, NEW a, OnlyAt(w, y, a), OnlyAt(y, z, a)
  PROVE  OnlyAt(w, z, a)
<1>1. ASSUME NEW k \in Llcs, NEW b \in Addrs \ {a} PROVE Alike(Out(w)[k], Out(z)[k], b)
  BY AlikeChain DEF OnlyAt
<1> QED BY <1>1 DEF OnlyAt

LEMMA OnlyAtSelf ==
  ASSUME NEW w \in Works, NEW a
  PROVE  OnlyAt(w, w, a)
  BY AlikeSelf DEF OnlyAt

(* Sending. *)
LEMMA AppendAfter ==
  ASSUME NEW s \in Seq(ToCacheMsg), NEW o \in Seq(ToCacheMsg), NEW m \in ToCacheMsg
  PROVE  s \o Append(o, m) = Append(s \o o, m) /\ s \o o \in Seq(ToCacheMsg)
<1> DEFINE x == s \o Append(o, m)
           y == Append(s \o o, m)
           n == Len(s) + Len(o) + 1
<1>1. /\ Append(o, m) \in Seq(ToCacheMsg) /\ Len(Append(o, m)) = Len(o) + 1
      /\ s \o o \in Seq(ToCacheMsg) /\ Len(s \o o) = Len(s) + Len(o)
      /\ Len(s) \in Nat /\ Len(o) \in Nat
  OBVIOUS
<1>2. /\ x \in Seq(ToCacheMsg) /\ Len(x) = n
      /\ y \in Seq(ToCacheMsg) /\ Len(y) = n
  BY <1>1
<1>3. ASSUME NEW i \in 1 .. n PROVE x[i] = y[i]
  <2>1. CASE i <= Len(s)
    BY <1>1, <2>1
  <2>2. CASE i > Len(s) /\ i <= Len(s) + Len(o)
    <3>1. i - Len(s) \in 1 .. Len(o) /\ i \in 1 .. Len(s) + Len(o)
      BY <1>1, <2>2
    <3>2. x[i] = Append(o, m)[i - Len(s)]
      BY <1>1, <2>2
    <3>3. y[i] = (s \o o)[i] /\ (s \o o)[i] = o[i - Len(s)]
      BY <1>1, <2>2, <3>1
    <3> QED BY <3>1, <3>2, <3>3
  <2>3. CASE i = n
    <3>1. i - Len(s) = Len(o) + 1 /\ x[i] = Append(o, m)[i - Len(s)]
      BY <1>1, <2>3
    <3> QED BY <1>1, <2>3, <3>1
  <2> QED BY <1>1, <2>1, <2>2, <2>3
<1>4. x = y
  <2> HIDE DEF x, y
  <2> QED BY <1>2, <1>3
<1> QED BY <1>1, <1>4

LEMMA OutType ==
  ASSUME NEW w \in Works, toCache \in [Llcs -> Seq(ToCacheMsg)]
  PROVE  Out(w) \in [Llcs -> Seq(ToCacheMsg)]
  BY DEF Out, Works

(* z has sent message m to the caches cs, and w has not. *)
Sends(w, z, cs, m) ==
    \A k \in Llcs : z.out[k] = IF k \in cs THEN Append(w.out[k], m) ELSE w.out[k]

LEMMA OutSends ==
  ASSUME NEW w \in Works, NEW z \in Works, toCache \in [Llcs -> Seq(ToCacheMsg)],
         NEW cs, NEW m \in ToCacheMsg, Sends(w, z, cs, m)
  PROVE  /\ Out(w) \in [Llcs -> Seq(ToCacheMsg)] /\ Out(z) \in [Llcs -> Seq(ToCacheMsg)]
         /\ Joined(Out(w), Out(z), cs, m)
<1> USE DEF Joined
<1>1. ASSUME NEW k \in Llcs
      PROVE  /\ Out(z)[k] = IF k \in cs THEN Append(Out(w)[k], m) ELSE Out(w)[k]
             /\ Out(w)[k] \in Seq(ToCacheMsg)
  <2>1. /\ Out(w)[k] = toCache[k] \o w.out[k] /\ Out(z)[k] = toCache[k] \o z.out[k]
        /\ toCache[k] \in Seq(ToCacheMsg) /\ w.out[k] \in Seq(ToCacheMsg)
        /\ z.out[k] = IF k \in cs THEN Append(w.out[k], m) ELSE w.out[k]
    BY DEF Out, Works, Sends
  <2>2. /\ toCache[k] \o Append(w.out[k], m) = Append(toCache[k] \o w.out[k], m)
        /\ toCache[k] \o w.out[k] \in Seq(ToCacheMsg)
    BY <2>1, AppendAfter
  <2> QED BY <2>1, <2>2
<1> QED BY <1>1, OutType

LEMMA OutAlike ==
  ASSUME NEW w \in Works, NEW z \in Works, toCache \in [Llcs -> Seq(ToCacheMsg)],
         NEW cs, NEW m \in ToCacheMsg, Sends(w, z, cs, m), NEW k \in Llcs, NEW b, b # m.a
  PROVE  Alike(Out(w)[k], Out(z)[k], b)
<1>1. /\ Out(w) \in [Llcs -> Seq(ToCacheMsg)]
      /\ Out(z)[k] = IF k \in cs THEN Append(Out(w)[k], m) ELSE Out(w)[k]
  BY OutSends DEF Joined
<1>2. CASE k \in cs
  <2>1. Alike(Out(w)[k], Append(Out(w)[k], m), b)
    BY <1>1, PushOther
  <2> QED BY <1>1, <1>2, <2>1
<1>3. CASE k \notin cs
  BY <1>1, <1>3, AlikeSelf
<1> QED BY <1>2, <1>3

(* z is w with another queue q2, entry e2 and DRAM reads for line a, after the     *)
(* message m has been sent to the caches cs.                                 *)
Worked(w, z, a, q2, e2, rep2, cs, m) ==
    /\ z \in Works /\ z.d.slots = w.d.slots /\ z.d.replaced = w.d.replaced
    /\ z.d.q[a] = q2 /\ z.d.e[a] = e2 /\ z.d.reply[a] = rep2
    /\ \A b \in Addrs \ {a} :
           z.d.q[b] = w.d.q[b] /\ z.d.e[b] = w.d.e[b] /\ z.d.reply[b] = w.d.reply[b]
    /\ Sends(w, z, cs, m)

LEMMA WorkedFine ==
  ASSUME NEW w, NEW z, NEW a \in Addrs, NEW rest, NEW q2, NEW e2, NEW rep2, NEW cs,
         NEW m \in ToCacheMsg, m.a = a,
         Fine(w, rest), Worked(w, z, a, q2, e2, rep2, cs, m),
         LineOK(a, q2, e2, rep2, HasEntry(w, a), Out(z), rest)
  PROVE  Fine(z, rest) /\ OnlyAt(w, z, a)
<1>1. \A k \in Llcs : \A b : b # a => Alike(Out(w)[k], Out(z)[k], b)
  <2>1. w \in Works /\ z \in Works /\ toCache \in [Llcs -> Seq(ToCacheMsg)] /\ Sends(w, z, cs, m)
    BY DEF Fine, Worked
  <2>2. \A k \in Llcs : \A b : b # m.a => Alike(Out(w)[k], Out(z)[k], b)
    BY <2>1, OutAlike
  <2> QED BY <2>2
<1>2. OnlyAt(w, z, a)
  BY <1>1 DEF OnlyAt, Worked
<1>3. HasEntry(z, a) <=> HasEntry(w, a)
  BY DEF HasEntry, Worked
<1>4. FineAt(z, rest, a)
  <2>1. HasEntry(z, a) = HasEntry(w, a)
    BY <1>3 DEF HasEntry
  <2> QED BY <2>1 DEF FineAt, Worked
<1> QED BY <1>2, <1>4, OnlyAtFine

(* The single updates of a directory at work. *)
Kept(w, z) == /\ z \in Works /\ z.victim = w.victim /\ z.one = w.one
              /\ z.d.junk = w.d.junk
SetE(w, a, f) == [w EXCEPT !.d.e[a] = f]
SetQ(w, a, p) == [w EXCEPT !.d.q[a] = p]
SetR(w, a, rep) == [w EXCEPT !.d.reply[a] = rep]

LEMMA DirectorySet ==
  ASSUME NEW w \in Works, NEW d \in Directory, NEW z, z = [w EXCEPT !.d = d]
  PROVE  /\ z \in Works /\ z.d = d /\ z.out = w.out /\ z.err = w.err /\ z.next = w.next
         /\ z.victim = w.victim /\ z.one = w.one
  BY DEF Works

LEMMA EntrySet ==
  ASSUME NEW w \in Works, NEW a \in Addrs, NEW f \in DirEntry, NEW z, z = SetE(w, a, f)
  PROVE  /\ Kept(w, z) /\ z.d.e = [w.d.e EXCEPT ![a] = f] /\ z.d.q = w.d.q
         /\ z.d.reply = w.d.reply /\ z.d.slots = w.d.slots /\ z.d.replaced = w.d.replaced
         /\ z.d.mem = w.d.mem /\ z.out = w.out /\ z.err = w.err /\ z.next = w.next
<1> DEFINE e2 == [w.d.e EXCEPT ![a] = f]
           d2 == [w.d EXCEPT !.e = e2]
<1>1. w.d \in Directory /\ w.d.e \in [Addrs -> DirEntry]
  BY DEF Works, Directory
<1>2. e2 \in [Addrs -> DirEntry]
  BY <1>1
<1> HIDE DEF e2
<1>3. /\ d2 \in Directory /\ d2.e = e2 /\ d2.q = w.d.q /\ d2.reply = w.d.reply /\ d2.junk = w.d.junk
      /\ d2.slots = w.d.slots /\ d2.replaced = w.d.replaced /\ d2.mem = w.d.mem
  BY <1>1, <1>2 DEF Directory
<1>4. z = [w EXCEPT !.d = d2]
  BY DEF SetE, e2
<1> HIDE DEF d2
<1>5. /\ z \in Works /\ z.d = d2 /\ z.out = w.out /\ z.err = w.err /\ z.next = w.next
      /\ z.victim = w.victim /\ z.one = w.one
  BY <1>3, <1>4, DirectorySet
<1> QED BY <1>3, <1>5 DEF Kept, e2

LEMMA QueueSet ==
  ASSUME NEW w \in Works, NEW a \in Addrs, NEW p \in Seq(DirReq), NEW z, z = SetQ(w, a, p)
  PROVE  /\ Kept(w, z) /\ z.d.e = w.d.e /\ z.d.q = [w.d.q EXCEPT ![a] = p]
         /\ z.d.reply = w.d.reply /\ z.d.slots = w.d.slots /\ z.d.replaced = w.d.replaced
         /\ z.d.mem = w.d.mem /\ z.out = w.out /\ z.err = w.err /\ z.next = w.next
<1> DEFINE q2 == [w.d.q EXCEPT ![a] = p]
           d2 == [w.d EXCEPT !.q = q2]
<1>1. w.d \in Directory /\ w.d.q \in [Addrs -> Seq(DirReq)]
  BY DEF Works, Directory
<1>2. q2 \in [Addrs -> Seq(DirReq)]
  BY <1>1
<1> HIDE DEF q2
<1>3. /\ d2 \in Directory /\ d2.e = w.d.e /\ d2.q = q2 /\ d2.reply = w.d.reply /\ d2.junk = w.d.junk
      /\ d2.slots = w.d.slots /\ d2.replaced = w.d.replaced /\ d2.mem = w.d.mem
  BY <1>1, <1>2 DEF Directory
<1>4. z = [w EXCEPT !.d = d2]
  BY DEF SetQ, q2
<1> HIDE DEF d2
<1>5. /\ z \in Works /\ z.d = d2 /\ z.out = w.out /\ z.err = w.err /\ z.next = w.next
      /\ z.victim = w.victim /\ z.one = w.one
  BY <1>3, <1>4, DirectorySet
<1> QED BY <1>3, <1>5 DEF Kept, q2

LEMMA ReplySet ==
  ASSUME NEW w \in Works, NEW a \in Addrs, NEW rep \in Seq(Filled), NEW z, z = SetR(w, a, rep)
  PROVE  /\ Kept(w, z) /\ z.d.e = w.d.e /\ z.d.q = w.d.q
         /\ z.d.reply = [w.d.reply EXCEPT ![a] = rep]
         /\ z.d.slots = w.d.slots /\ z.d.replaced = w.d.replaced
         /\ z.d.mem = w.d.mem /\ z.out = w.out /\ z.err = w.err /\ z.next = w.next
<1> DEFINE r2 == [w.d.reply EXCEPT ![a] = rep]
           d2 == [w.d EXCEPT !.reply = r2]
<1>1. w.d \in Directory /\ w.d.reply \in [Addrs -> Seq(Filled)]
  BY DEF Works, Directory
<1>2. r2 \in [Addrs -> Seq(Filled)]
  BY <1>1
<1> HIDE DEF r2
<1>3. /\ d2 \in Directory /\ d2.e = w.d.e /\ d2.q = w.d.q /\ d2.reply = r2 /\ d2.junk = w.d.junk
      /\ d2.slots = w.d.slots /\ d2.replaced = w.d.replaced /\ d2.mem = w.d.mem
  BY <1>1, <1>2 DEF Directory
<1>4. z = [w EXCEPT !.d = d2]
  BY DEF SetR, r2
<1> HIDE DEF d2
<1>5. /\ z \in Works /\ z.d = d2 /\ z.out = w.out /\ z.err = w.err /\ z.next = w.next
      /\ z.victim = w.victim /\ z.one = w.one
  BY <1>3, <1>4, DirectorySet
<1> QED BY <1>3, <1>5 DEF Kept, r2

LEMMA MemorySet ==
  ASSUME NEW w \in Works, NEW a \in Addrs, NEW data \in Filled, NEW z, z = sendDataToDram(w, a, data)
  PROVE  /\ Kept(w, z) /\ z.d.e = w.d.e /\ z.d.q = w.d.q
         /\ z.d.reply = w.d.reply /\ z.d.slots = w.d.slots /\ z.d.replaced = w.d.replaced
         /\ z.out = w.out /\ z.err = w.err /\ z.next = w.next
<1> DEFINE m2 == [w.d.mem EXCEPT ![a] = data]
           d2 == [w.d EXCEPT !.mem = m2]
<1>1. w.d \in Directory /\ w.d.mem \in [Addrs -> Filled]
  BY DEF Works, Directory
<1>2. m2 \in [Addrs -> Filled]
  BY <1>1
<1> HIDE DEF m2
<1>3. /\ d2 \in Directory /\ d2.e = w.d.e /\ d2.q = w.d.q /\ d2.reply = w.d.reply /\ d2.junk = w.d.junk
      /\ d2.slots = w.d.slots /\ d2.replaced = w.d.replaced
  BY <1>1, <1>2 DEF Directory
<1>4. z = [w EXCEPT !.d = d2]
  BY DEF sendDataToDram, m2
<1> HIDE DEF d2
<1>5. /\ z \in Works /\ z.d = d2 /\ z.out = w.out /\ z.err = w.err /\ z.next = w.next
      /\ z.victim = w.victim /\ z.one = w.one
  BY <1>3, <1>4, DirectorySet
<1> QED BY <1>3, <1>5 DEF Kept

LEMMA OutSet ==
  ASSUME NEW w \in Works, NEW o \in [Llcs -> Seq(ToCacheMsg)], NEW z, z = [w EXCEPT !.out = o]
  PROVE  Kept(w, z) /\ z.d = w.d /\ z.out = o /\ z.err = w.err /\ z.next = w.next
  BY DEF Works, Kept

LEMMA NextSet ==
  ASSUME NEW w \in Works, NEW n \in BOOLEAN, NEW z, z = [w EXCEPT !.next = n]
  PROVE  Kept(w, z) /\ z.d = w.d /\ z.out = w.out /\ z.err = w.err /\ z.next = n
  BY DEF Works, Kept

LEMMA NoFailureIsNone == NoFailure \notin Failures
BY Zenon DEF NoFailure, Failures

LEMMA Asserted ==
  ASSUME NEW w \in Works, NEW cond, NEW what \in Failures,
         NEW z, z = Assert_(w, cond, what)
  PROVE  /\ Kept(w, z) /\ z.d = w.d /\ z.out = w.out /\ z.next = w.next
         /\ z.err = NoFailure => cond /\ w.err = NoFailure /\ z = w
<1>1. CASE cond \/ w.err # NoFailure
  BY <1>1 DEF Assert_, Kept, Works
<1>2. CASE ~(cond \/ w.err # NoFailure)
  <2>1. z = [w EXCEPT !.err = what]
    BY <1>2 DEF Assert_
  <2> QED BY <2>1, NoFailureIsNone DEF Kept, Works
<1> QED BY <1>1, <1>2

(* An assertion fails. *)
LEMMA Failed ==
  ASSUME NEW w \in Works, NEW what \in Failures, NEW z, z = [w EXCEPT !.err = what]
  PROVE  Kept(w, z) /\ z.d = w.d /\ z.out = w.out /\ z.next = w.next /\ z.err = what
BY DEF Kept, Works

LEMMA SentTo ==
  ASSUME NEW w \in Works, NEW c \in Llcs, NEW t, NEW a, NEW data,
         NEW m \in ToCacheMsg, m = Msg(t, a, data),
         NEW z, z = Send(w, c, t, a, data)
  PROVE  /\ Kept(w, z) /\ z.d = w.d /\ z.next = w.next /\ z.err = w.err
         /\ Sends(w, z, {c}, m)
<1> DEFINE o == [w.out EXCEPT ![c] = Append(w.out[c], m)]
<1>1. o \in [Llcs -> Seq(ToCacheMsg)]
  <2>1. w.out \in [Llcs -> Seq(ToCacheMsg)] /\ w.out[c] \in Seq(ToCacheMsg)
    BY DEF Works
  <2>2. Append(w.out[c], m) \in Seq(ToCacheMsg)
    BY <2>1
  <2> QED BY <2>1, <2>2
<1>2. z = [w EXCEPT !.out = o]
  BY DEF Send
<1>3. \A k \in Llcs : o[k] = IF k \in {c} THEN Append(w.out[k], m) ELSE w.out[k]
  BY DEF Works
<1> HIDE DEF o
<1> QED BY <1>1, <1>2, <1>3, OutSet DEF Sends

LEMMA SentToNobody ==
  ASSUME NEW w \in Works, NEW c, c \notin Llcs, NEW t, NEW a, NEW data,
         NEW z, z = Send(w, c, t, a, data)
  PROVE  Kept(w, z) /\ z.d = w.d /\ z.next = w.next /\ z.err # NoFailure
<1>1. z = IF w.err # "ok" THEN w ELSE [w EXCEPT !.err = "message to no core"]
  BY Zenon DEF Send, Assert_, NoFailure
<1>2. CASE w.err # "ok"
  <2>1. z = w
    BY <1>1, <1>2, Zenon
  <2> QED BY <1>2, <2>1 DEF NoFailure, Kept
<1>3. CASE w.err = "ok"
  <2> DEFINE what == "message to no core"
  <2>1. what \in Failures
    BY Zenon DEF Failures
  <2>2. what # "ok"
    BY Zenon
  <2>3. z = [w EXCEPT !.err = what]
    BY <1>1, <1>3, Zenon
  <2> HIDE DEF what
  <2> QED BY <2>1, <2>2, <2>3, Failed DEF NoFailure
<1> QED BY <1>2, <1>3

LEMMA SentKept ==
  ASSUME NEW w \in Works, NEW c, NEW t, NEW a, NEW data, NEW m \in ToCacheMsg, m = Msg(t, a, data),
         NEW z, z = Send(w, c, t, a, data)
  PROVE  Kept(w, z) /\ z.d = w.d /\ z.next = w.next
<1>1. CASE c \in Llcs
  <2>1. /\ Kept(w, z) /\ z.d = w.d /\ z.next = w.next /\ z.err = w.err
        /\ Sends(w, z, {c}, m)
    BY <1>1, SentTo
  <2> QED BY <2>1
<1>2. CASE c \notin Llcs
  BY <1>2, SentToNobody
<1> QED BY <1>1, <1>2

LEMMA SentMessage ==
  ASSUME NEW w \in Works, NEW c, NEW t, NEW a, NEW data, NEW m \in ToCacheMsg, m = Msg(t, a, data),
         NEW z, z = Send(w, c, t, a, data), z.err = NoFailure
  PROVE  w.err = NoFailure /\ c \in Llcs /\ Sends(w, z, {c}, m)
<1>1. c \in Llcs
  BY SentToNobody
<1>2. z.err = w.err /\ Sends(w, z, {c}, m)
  BY <1>1, SentTo
<1> QED BY <1>1, <1>2

LEMMA SentAll ==
  ASSUME NEW w \in Works, NEW cs, NEW t, NEW a, NEW m \in ToCacheMsg, m = Msg(t, a, NoData),
         NEW z, z = SendAll(w, cs, t, a)
  PROVE  /\ Kept(w, z) /\ z.d = w.d /\ z.next = w.next /\ z.err = w.err
         /\ Sends(w, z, cs, m)
<1> DEFINE o == [k \in Llcs |-> IF k \in cs THEN Append(w.out[k], Msg(t, a, NoData)) ELSE w.out[k]]
<1>1. o \in [Llcs -> Seq(ToCacheMsg)]
  BY DEF Works
<1>2. z = [w EXCEPT !.out = o]
  BY DEF SendAll
<1>3. \A k \in Llcs : o[k] = IF k \in cs THEN Append(w.out[k], Msg(t, a, NoData)) ELSE w.out[k]
  OBVIOUS
<1> HIDE DEF o
<1> QED BY <1>1, <1>2, <1>3, OutSet DEF Sends

LEMMA TailLeft ==
  ASSUME NEW q \in Seq(DirReq), q # <<>>
  PROVE  Tail(q) \in Seq(DirReq) /\ (Len(q) > 1 <=> Tail(q) # <<>>)
<1> DEFINE p == Tail(q)
<1>1. p \in Seq(DirReq) /\ Len(p) = Len(q) - 1 /\ Len(q) \in Nat
  OBVIOUS
<1> HIDE DEF p
<1>2. p = <<>> <=> Len(p) = 0
  BY <1>1
<1>3. p \in Seq(DirReq) /\ (Len(q) > 1 <=> p # <<>>)
  BY <1>1, <1>2
<1> QED BY <1>3 DEF p

LEMMA QueueFront ==
  ASSUME NEW q \in Seq(DirReq), q # <<>>, NEW x \in DirReq, NEW p, p = [q EXCEPT ![1] = x]
  PROVE  /\ p \in Seq(DirReq) /\ p # <<>> /\ Len(p) = Len(q) /\ p[1] = x /\ Head(p) = x
         /\ \A i \in 2 .. Len(q) : p[i] = q[i]
         /\ Tail(p) = Tail(q) /\ Head(q) = q[1] /\ Head(q) \in DirReq
         /\ \A i \in 1 .. Len(q) : i = 1 \/ i \in 2 .. Len(q)
<1>1. 1 \in DOMAIN q /\ DOMAIN q = 1 .. Len(q) /\ Len(q) \in Nat /\ Head(q) = q[1] /\ Head(q) \in DirReq
  BY Popped
<1>2. p \in Seq(DirReq) /\ Len(p) = Len(q) /\ p[1] = x /\ \A i \in 2 .. Len(q) : p[i] = q[i]
  BY <1>1
<1>3. p # <<>> /\ Head(p) = x
  BY <1>1, <1>2
<1>4. Tail(p) = Tail(q)
  <2>1. Tail(p) \in Seq(DirReq) /\ Tail(q) \in Seq(DirReq) /\ Len(Tail(p)) = Len(q) - 1 /\ Len(Tail(q)) = Len(q) - 1
    BY <1>1, <1>2, <1>3
  <2>2. \A i \in 1 .. Len(q) - 1 : Tail(p)[i] = p[i + 1] /\ Tail(q)[i] = q[i + 1] /\ i + 1 \in 2 .. Len(q)
    BY <1>1, <1>2, <1>3
  <2> DEFINE tp == Tail(p)
             tq == Tail(q)
  <2>3. tp \in Seq(DirReq) /\ tq \in Seq(DirReq) /\ Len(tp) = Len(tq) /\ \A i \in 1 .. Len(tp) : tp[i] = tq[i]
    BY <1>2, <2>1, <2>2
  <2> HIDE DEF tp, tq
  <2>4. tp = tq
    BY <2>3
  <2> QED BY <2>4 DEF tp, tq
<1> QED BY <1>1, <1>2, <1>3, <1>4


(* A request is granted and answered at once. *)
LEMMA LineServed ==
  ASSUME NEW a, NEW q, NEW e, NEW rep, NEW known, NEW ss \in [Llcs -> Seq(ToCacheMsg)], NEW rr,
         LineOK(a, q, e, rep, known, ss, rr), known,
         q # <<>>, ~Granted(q), Head(q).t # "NULLIFY_REQ", Head(q).c \notin e.sharers,
         \/ e.st = "U"
         \/ e.st = "S" /\ Head(q).t = "SH_REQ",
         NEW f \in DirEntry, f.sharers = e.sharers \union {Head(q).c}, f.st # "U",
         f.st \in {"E", "M"} => f.sharers = {f.owner},
         Head(q).t # "SH_REQ" => f.st = "M",
         NEW m \in ToCacheMsg, m.a = a, m.t \in DataReps, m.t = "EX_REP" => f.st \in {"E", "M"},
         NEW ss2 \in [Llcs -> Seq(ToCacheMsg)],
         Joined(ss, ss2, {Head(q).c}, m)
  PROVE  /\ LineOK(a, Tail(q), f, <<>>, known, ss2, rr)
         /\ NoWriteBack(a, ss2, rr) /\ ~Granted(Tail(q))
<1> DEFINE x == [Head(q) EXCEPT !.wait = TRUE]
           p == [q EXCEPT ![1] = x]
<1>1. q \in Seq(DirReq) /\ FrontWaits(q, e)
  BY DEF LineOK, LineInv
<1>2. Head(q) \in DirReq /\ Head(q) = q[1]
  BY <1>1, QueuePopped
<1>3. /\ x \in DirReq /\ x.wait /\ x.c = Head(q).c /\ x.t = Head(q).t /\ x.from = Head(q).from
  BY <1>2 DEF DirReq
<1>4. Head(q).from = NoCore
  BY DEF Granted
<1> HIDE DEF x
<1>5. /\ p \in Seq(DirReq) /\ p # <<>> /\ Len(p) = Len(q) /\ p[1] = x /\ Head(p) = x
      /\ \A i \in 2 .. Len(q) : p[i] = q[i]
      /\ Tail(p) = Tail(q)
      /\ \A i \in 1 .. Len(q) : i = 1 \/ i \in 2 .. Len(q)
  BY <1>1, <1>3, QueueFront
<1> HIDE DEF p
<1>6. \A i \in 1 .. Len(q) : p[i].c = q[i].c /\ p[i].t = q[i].t
  BY <1>2, <1>3, <1>5
<1>7. \A i \in 2 .. Len(q) : p[i].wait = q[i].wait /\ p[i].from = q[i].from
  BY <1>5
<1>8. Granted(p) /\ p[1].from = NoCore
  BY <1>3, <1>4, <1>5 DEF Granted
<1> DEFINE new == <<>>
<1>9. Len(new) <= 1 /\ new = <<>>
  OBVIOUS
<1> HIDE DEF new
<1>10. LineOK(a, p, f, new, known, ss, rr)
  <2>1. p[1].from # NoCore => p[1].t = "SH_REQ"
    BY <1>8
  <2>2. new # <<>> => p[1].wait
    BY <1>9
  <2> QED BY <1>5, <1>6, <1>7, <1>8, <1>9, <2>1, <2>2, LineGranted, ZenonT(60)
<1>11. Head(q).c \in Llcs
  BY <1>1, RequesterIsCache
<1>12. NoWriteBack(a, ss, rr)
  BY <1>3, <1>5, <1>10, WhenNoWriteBack
<1>13. Head(p).c = Head(q).c
  BY <1>3, <1>5
<1>14. m.t \in {"EX_REP", "UPGRADE_REP"} => f.st \in {"E", "M"}
  BY DEF DataReps
<1> DEFINE tp == Tail(p)
<1>15. LineOK(a, tp, f, <<>>, known, ss2, rr) /\ NoWriteBack(a, ss2, rr) /\ ~Granted(tp)
  <2>1. Joined(ss, ss2, {Head(p).c}, m) /\ Head(p).c \in Llcs
    BY <1>11, <1>13
  <2> QED BY <1>5, <1>8, <1>10, <1>12, <1>14, <2>1, LineAnswered
<1> QED BY <1>5, <1>15

LEMMA FieldTypes ==
  ASSUME NEW w \in Works, NEW a \in Addrs
  PROVE  /\ w.d \in Directory /\ w.d.q[a] \in Seq(DirReq) /\ w.d.e[a] \in DirEntry
         /\ w.d.reply[a] \in Seq(Filled) /\ w.d.mem[a] \in Filled /\ w.d.junk \in Cores
         /\ w.d.q \in [Addrs -> Seq(DirReq)] /\ w.d.e \in [Addrs -> DirEntry]
         /\ w.d.reply \in [Addrs -> Seq(Filled)] /\ w.out \in [Llcs -> Seq(ToCacheMsg)]
         /\ w.next \in BOOLEAN /\ w.victim \in Addrs /\ w.one \in Llcs
BY DEF Works, Directory

LEMMA Messages ==
  ASSUME NEW a \in Addrs, NEW data \in Data, NEW t \in Reps \union {"INV_REQ", "FLUSH_REQ", "WB_REQ"},
         t \in DataReps => data # NoData
  PROVE  Msg(t, a, data) \in ToCacheMsg /\ Msg(t, a, data).a = a /\ Msg(t, a, data).t = t
BY DEF Msg, ToCacheMsg, DataReps, Reps

Forwards(e, c) == [e EXCEPT !.fwd = c]

(* Fields of an entry. *)
LEMMA EntryFields ==
  ASSUME NEW e \in DirEntry, NEW c \in Cores, NEW f, f = Forwards(e, c)
  PROVE  /\ f \in DirEntry /\ f.st = e.st /\ f.sharers = e.sharers /\ f.owner = e.owner
         /\ f.fwd = c
BY DEF DirEntry, Forwards

(* The line at a has queue q, entry e and reads rep; from w to z no other line    *)
(* changes, nothing is sent and nothing is started.                          *)
At(w, a, q, e, rep) ==
    /\ w \in Works /\ a \in Addrs /\ w.d.q[a] = q /\ w.d.e[a] = e /\ w.d.reply[a] = rep
    /\ q \in Seq(DirReq) /\ e \in DirEntry /\ rep \in Seq(Filled)
Apart(w, z, a) ==
    /\ w \in Works /\ z \in Works
    /\ z.d.slots = w.d.slots /\ z.d.replaced = w.d.replaced
    /\ z.d.junk = w.d.junk /\ z.victim = w.victim /\ z.one = w.one
    /\ \A b \in Addrs \ {a} :
           z.d.q[b] = w.d.q[b] /\ z.d.e[b] = w.d.e[b] /\ z.d.reply[b] = w.d.reply[b]
Quiet(w, z) == z.out = w.out /\ z.err = w.err /\ z.next = w.next

(* A message has been sent to cache c, or to the caches cs; an assertion has been  *)
(* checked; the front request is done.                                      *)
Delivered(w, z, c, m) ==
    /\ z.next = w.next
    /\ z.err = NoFailure => w.err = NoFailure /\ c \in Llcs /\ Sends(w, z, {c}, m)
Broadcast(w, z, cs, m) == z.next = w.next /\ z.err = w.err /\ Sends(w, z, cs, m)
Checked(w, z, cond) ==
    /\ z.out = w.out /\ z.next = w.next
    /\ z.err = NoFailure => cond /\ w.err = NoFailure /\ z = w
Finished(w, z, p) == z.out = w.out /\ z.err = w.err /\ (z.next = TRUE <=> p # <<>>)

LEMMA ApartChain ==
  ASSUME NEW w, NEW y, NEW z, NEW a, Apart(w, y, a), Apart(y, z, a) PROVE Apart(w, z, a)
BY DEF Apart

LEMMA AtEntry ==
  ASSUME NEW w, NEW a, NEW q, NEW e, NEW rep, At(w, a, q, e, rep), NEW f \in DirEntry,
         NEW z, z = SetE(w, a, f)
  PROVE  At(z, a, q, f, rep) /\ Apart(w, z, a) /\ Quiet(w, z)
<1>1. w \in Works /\ a \in Addrs /\ w.d.e \in [Addrs -> DirEntry]
  BY FieldTypes DEF At
<1>2. /\ Kept(w, z) /\ z.d.e = [w.d.e EXCEPT ![a] = f] /\ z.d.q = w.d.q
      /\ z.d.reply = w.d.reply /\ z.d.slots = w.d.slots /\ z.d.replaced = w.d.replaced
      /\ z.d.mem = w.d.mem /\ z.out = w.out /\ z.err = w.err /\ z.next = w.next
  BY <1>1, EntrySet
<1> QED BY <1>1, <1>2 DEF At, Apart, Quiet, Kept

LEMMA AtQueue ==
  ASSUME NEW w, NEW a, NEW q, NEW e, NEW rep, At(w, a, q, e, rep), NEW p \in Seq(DirReq),
         NEW z, z = SetQ(w, a, p)
  PROVE  At(z, a, p, e, rep) /\ Apart(w, z, a) /\ Quiet(w, z)
<1>1. w \in Works /\ a \in Addrs /\ w.d.q \in [Addrs -> Seq(DirReq)]
  BY FieldTypes DEF At
<1>2. /\ Kept(w, z) /\ z.d.e = w.d.e /\ z.d.q = [w.d.q EXCEPT ![a] = p]
      /\ z.d.reply = w.d.reply /\ z.d.slots = w.d.slots /\ z.d.replaced = w.d.replaced
      /\ z.d.mem = w.d.mem /\ z.out = w.out /\ z.err = w.err /\ z.next = w.next
  BY <1>1, QueueSet
<1> QED BY <1>1, <1>2 DEF At, Apart, Quiet, Kept

LEMMA AtReply ==
  ASSUME NEW w, NEW a, NEW q, NEW e, NEW rep, At(w, a, q, e, rep), NEW new \in Seq(Filled),
         NEW z, z = SetR(w, a, new)
  PROVE  At(z, a, q, e, new) /\ Apart(w, z, a) /\ Quiet(w, z)
<1>1. w \in Works /\ a \in Addrs /\ w.d.reply \in [Addrs -> Seq(Filled)]
  BY FieldTypes DEF At
<1>2. /\ Kept(w, z) /\ z.d.e = w.d.e /\ z.d.q = w.d.q
      /\ z.d.reply = [w.d.reply EXCEPT ![a] = new]
      /\ z.d.slots = w.d.slots /\ z.d.replaced = w.d.replaced
      /\ z.d.mem = w.d.mem /\ z.out = w.out /\ z.err = w.err /\ z.next = w.next
  BY <1>1, ReplySet
<1> QED BY <1>1, <1>2 DEF At, Apart, Quiet, Kept

LEMMA AtMemory ==
  ASSUME NEW w, NEW a, NEW q, NEW e, NEW rep, At(w, a, q, e, rep), NEW data \in Filled,
         NEW z, z = sendDataToDram(w, a, data)
  PROVE  At(z, a, q, e, rep) /\ Apart(w, z, a) /\ Quiet(w, z)
<1>1. w \in Works /\ a \in Addrs
  BY DEF At
<1>2. /\ Kept(w, z) /\ z.d.e = w.d.e /\ z.d.q = w.d.q
      /\ z.d.reply = w.d.reply /\ z.d.slots = w.d.slots /\ z.d.replaced = w.d.replaced
      /\ z.out = w.out /\ z.err = w.err /\ z.next = w.next
  BY <1>1, MemorySet
<1> QED BY <1>1, <1>2 DEF At, Apart, Quiet, Kept

LEMMA AtSame ==
  ASSUME NEW w, NEW a, NEW q, NEW e, NEW rep, At(w, a, q, e, rep), NEW z, Kept(w, z), z.d = w.d
  PROVE  At(z, a, q, e, rep) /\ Apart(w, z, a)
BY DEF At, Apart, Kept

LEMMA AtSend ==
  ASSUME NEW w, NEW a, NEW q, NEW e, NEW rep, At(w, a, q, e, rep),
         NEW c, NEW t, NEW data, NEW m \in ToCacheMsg, m = Msg(t, a, data),
         NEW z, z = Send(w, c, t, a, data)
  PROVE  At(z, a, q, e, rep) /\ Apart(w, z, a) /\ Delivered(w, z, c, m)
<1>1. w \in Works
  BY DEF At
<1>2. Kept(w, z) /\ z.d = w.d /\ z.next = w.next
  BY <1>1, SentKept
<1>3. z.err = NoFailure => w.err = NoFailure /\ c \in Llcs /\ Sends(w, z, {c}, m)
  BY <1>1, SentMessage
<1>4. At(z, a, q, e, rep) /\ Apart(w, z, a)
  BY <1>2, AtSame
<1> QED BY <1>2, <1>3, <1>4 DEF Delivered

LEMMA AtSendAll ==
  ASSUME NEW w, NEW a, NEW q, NEW e, NEW rep, At(w, a, q, e, rep),
         NEW cs, NEW t, NEW m \in ToCacheMsg, m = Msg(t, a, NoData),
         NEW z, z = SendAll(w, cs, t, a)
  PROVE  At(z, a, q, e, rep) /\ Apart(w, z, a) /\ Broadcast(w, z, cs, m)
<1>1. w \in Works
  BY DEF At
<1>2. /\ Kept(w, z) /\ z.d = w.d /\ z.next = w.next /\ z.err = w.err
      /\ Sends(w, z, cs, m)
  BY <1>1, SentAll
<1>3. At(z, a, q, e, rep) /\ Apart(w, z, a)
  BY <1>2, AtSame
<1> QED BY <1>2, <1>3 DEF Broadcast

LEMMA AtAssert ==
  ASSUME NEW w, NEW a, NEW q, NEW e, NEW rep, At(w, a, q, e, rep),
         NEW cond, NEW what \in Failures, NEW z, z = Assert_(w, cond, what)
  PROVE  At(z, a, q, e, rep) /\ Apart(w, z, a) /\ Checked(w, z, cond)
<1>1. w \in Works
  BY DEF At
<1>2. /\ Kept(w, z) /\ z.d = w.d /\ z.out = w.out /\ z.next = w.next
      /\ z.err = NoFailure => cond /\ w.err = NoFailure /\ z = w
  BY <1>1, Asserted
<1>3. At(z, a, q, e, rep) /\ Apart(w, z, a)
  BY <1>2, AtSame
<1> QED BY <1>2, <1>3 DEF Checked

LEMMA AtNext ==
  ASSUME NEW w, NEW a, NEW q, NEW e, NEW rep, At(w, a, q, e, rep), q # <<>>,
         NEW p, p = Tail(q), NEW z, z = processNextReq(w, a)
  PROVE  At(z, a, p, e, rep) /\ Apart(w, z, a) /\ Finished(w, z, p)
<1> DEFINE y == SetQ(w, a, p)
           n == Len(q) > 1
<1>1. p \in Seq(DirReq) /\ (n <=> p # <<>>)
  BY TailLeft DEF At
<1>2. n \in BOOLEAN
  OBVIOUS
<1>3. z = [y EXCEPT !.next = n]
  BY DEF processNextReq, SetQ, At
<1>4. y = SetQ(w, a, p)
  OBVIOUS
<1> HIDE DEF n, y
<1>5. At(y, a, p, e, rep) /\ Apart(w, y, a) /\ Quiet(w, y)
  BY <1>1, <1>4, AtQueue
<1>6. y \in Works
  BY <1>5 DEF At
<1>7. Kept(y, z) /\ z.d = y.d /\ z.out = y.out /\ z.err = y.err /\ z.next = n
  BY <1>2, <1>3, <1>6, NextSet
<1>8. At(z, a, p, e, rep) /\ Apart(y, z, a)
  BY <1>5, <1>7, AtSame
<1>9. Apart(w, z, a)
  BY <1>5, <1>8, ApartChain
<1> QED BY <1>1, <1>5, <1>7, <1>8, <1>9 DEF Quiet, Finished

LEMMA QuietChain ==
  ASSUME NEW w, NEW y, NEW z, Quiet(w, y), Quiet(y, z) PROVE Quiet(w, z)
BY DEF Quiet

LEMMA SendsAfter ==
  ASSUME NEW w, NEW y, NEW z, NEW cs, NEW m, y.out = w.out, Sends(y, z, cs, m)
  PROVE  Sends(w, z, cs, m)
BY DEF Sends

LEMMA SendsQuietly ==
  ASSUME NEW w, NEW y, NEW z, NEW cs, NEW m, Quiet(w, y), Sends(y, z, cs, m)
  PROVE  Sends(w, z, cs, m)
BY DEF Sends, Quiet

LEMMA SendsBefore ==
  ASSUME NEW w, NEW y, NEW z, NEW cs, NEW m, z.out = y.out, Sends(w, y, cs, m)
  PROVE  Sends(w, z, cs, m)
BY DEF Sends

LEMMA SendsNothing ==
  ASSUME NEW w, NEW z, NEW m, z.out = w.out PROVE Sends(w, z, {}, m)
BY DEF Sends

(* What retrieveDataAndSend does: it sends the data it was given, asks the       *)
(* forwarder, or reads DRAM.                                                *)
ByData(v, z, t, c, a, buf, q, e, rep) ==
    /\ At(z, a, Tail(q), Forwards(e, c), rep) /\ Sends(v, z, {c}, Msg(t, a, buf))
    /\ z.next = TRUE <=> Tail(q) # <<>>
MarkFrom(q, k) == [q EXCEPT ![1] = [q[1] EXCEPT !.from = k]]
MarkWait(q) == [q EXCEPT ![1] = [q[1] EXCEPT !.wait = TRUE]]
MarkBuf(q, data) == [q EXCEPT ![1] = [q[1] EXCEPT !.buf = data]]
ByForwarder(v, z, a, q, e, rep) ==
    /\ Protocol = "mesif" /\ Head(q).from = NoCore /\ e.st = "S" /\ e.fwd \in Llcs
    /\ At(z, a, MarkFrom(q, e.fwd), e, rep)
    /\ Sends(v, z, {e.fwd}, Msg("WB_REQ", a, NoData)) /\ z.next = v.next
ByDram(v, z, a, q, e, rep) ==
    /\ At(z, a, MarkWait(q), e, Append(rep, v.d.mem[a]))
    /\ z.out = v.out /\ z.next = v.next

(* The front request is marked. *)
Marks(p, q) == /\ p \in Seq(DirReq) /\ p # <<>> /\ Len(p) = Len(q) /\ Tail(p) = Tail(q)
               /\ p[1].c = q[1].c /\ p[1].t = q[1].t
               /\ Head(p) = p[1] /\ Head(q) = q[1]
               /\ \A i \in 1 .. Len(q) : i = 1 \/ (i \in 2 .. Len(q) /\ p[i] = q[i])
               /\ \A i \in 2 .. Len(q) : p[i] = q[i]

LEMMA FrontMarked ==
  ASSUME NEW q \in Seq(DirReq), q # <<>>, NEW x \in DirReq, x.c = q[1].c, x.t = q[1].t,
         NEW p, p = [q EXCEPT ![1] = x]
  PROVE  Marks(p, q) /\ p[1] = x
<1>1. /\ p \in Seq(DirReq) /\ p # <<>> /\ Len(p) = Len(q) /\ p[1] = x /\ Head(p) = x
      /\ \A i \in 2 .. Len(q) : p[i] = q[i]
      /\ Tail(p) = Tail(q) /\ Head(q) = q[1] /\ Head(q) \in DirReq
      /\ \A i \in 1 .. Len(q) : i = 1 \/ i \in 2 .. Len(q)
  BY QueueFront
<1> QED BY <1>1 DEF Marks

LEMMA MarkedFrom ==
  ASSUME NEW q \in Seq(DirReq), q # <<>>, NEW k \in Cores, NEW p, p = MarkFrom(q, k)
  PROVE  /\ Marks(p, q)
         /\ p[1].from = k /\ p[1].wait = q[1].wait
<1> DEFINE x == [q[1] EXCEPT !.from = k]
<1>1. q[1] \in DirReq
  BY Popped
<1>2. x \in DirReq /\ x.c = q[1].c /\ x.t = q[1].t /\ x.from = k /\ x.wait = q[1].wait
  BY <1>1 DEF DirReq
<1>3. p = [q EXCEPT ![1] = x]
  BY DEF MarkFrom
<1> HIDE DEF x
<1>4. Marks(p, q) /\ p[1] = x
  BY <1>2, <1>3, FrontMarked
<1> QED BY <1>2, <1>4

LEMMA MarkedWait ==
  ASSUME NEW q \in Seq(DirReq), q # <<>>, NEW p, p = MarkWait(q)
  PROVE  /\ Marks(p, q)
         /\ p[1].from = q[1].from /\ p[1].wait
<1> DEFINE x == [q[1] EXCEPT !.wait = TRUE]
<1>1. q[1] \in DirReq
  BY Popped
<1>2. x \in DirReq /\ x.c = q[1].c /\ x.t = q[1].t /\ x.from = q[1].from /\ x.wait
  BY <1>1 DEF DirReq
<1>3. p = [q EXCEPT ![1] = x]
  BY DEF MarkWait
<1> HIDE DEF x
<1>4. Marks(p, q) /\ p[1] = x
  BY <1>2, <1>3, FrontMarked
<1> QED BY <1>2, <1>4

LEMMA MarkedBuf ==
  ASSUME NEW q \in Seq(DirReq), q # <<>>, NEW data \in Data, NEW p, p = MarkBuf(q, data)
  PROVE  /\ Marks(p, q)
         /\ p[1].from = q[1].from /\ p[1].wait = q[1].wait
<1> DEFINE x == [q[1] EXCEPT !.buf = data]
<1>1. q[1] \in DirReq
  BY Popped
<1>2. x \in DirReq /\ x.c = q[1].c /\ x.t = q[1].t /\ x.from = q[1].from /\ x.wait = q[1].wait
  BY <1>1 DEF DirReq
<1>3. p = [q EXCEPT ![1] = x]
  BY DEF MarkBuf
<1> HIDE DEF x
<1>4. Marks(p, q) /\ p[1] = x
  BY <1>2, <1>3, FrontMarked
<1> QED BY <1>2, <1>4

LEMMA RetrievedData ==
  ASSUME NEW v, NEW a, NEW q, NEW e, NEW rep, At(v, a, q, e, rep), q # <<>>,
         NEW t \in DataReps, NEW c \in Llcs, NEW buf \in Data, buf # NoData,
         NEW z, z = retrieveDataAndSend(v, t, c, a, buf), z.err = NoFailure
  PROVE  v.err = NoFailure /\ Apart(v, z, a) /\ ByData(v, z, t, c, a, buf, q, e, rep)
<1> DEFINE m == Msg(t, a, buf)
           f == Forwards(e, c)
           p == Tail(q)
           x == SetE(v, a, f)
           y == Send(x, c, t, a, buf)
<1>1. m \in ToCacheMsg /\ m = Msg(t, a, buf)
  BY Messages DEF DataReps, Reps, At
<1>2. f \in DirEntry /\ f = Forwards(e, c)
  BY EntryFields DEF At, Cores
<1>3. x = SetE(v, a, f)
  OBVIOUS
<1>4. y = Send(x, c, t, a, buf)
  OBVIOUS
<1>5. p = Tail(q)
  OBVIOUS
<1>6. z = processNextReq(y, a)
  <2>1. [v EXCEPT !.d.e[a].fwd = c] = x
    BY DEF SetE, Forwards, At
  <2> QED BY <2>1 DEF retrieveDataAndSend
<1> HIDE DEF m, f, p, x, y
<1>7. At(x, a, q, f, rep) /\ Apart(v, x, a) /\ Quiet(v, x)
  BY <1>2, <1>3, AtEntry
<1>8. At(x, a, q, f, rep)
  BY <1>7
<1>9. At(y, a, q, f, rep) /\ Apart(x, y, a) /\ Delivered(x, y, c, m)
  BY <1>1, <1>4, <1>8, AtSend
<1>10. At(y, a, q, f, rep)
  BY <1>9
<1>11. At(z, a, p, f, rep) /\ Apart(y, z, a) /\ Finished(y, z, p)
  BY <1>5, <1>6, <1>10, AtNext
<1>12. Apart(v, z, a)
  BY <1>7, <1>9, <1>11, ApartChain
<1>13. Sends(x, y, {c}, m) /\ x.out = v.out /\ v.err = NoFailure
  BY <1>7, <1>9, <1>11 DEF Quiet, Delivered, Finished
<1>14. Sends(v, z, {c}, m)
  BY <1>11, <1>13, SendsAfter, SendsBefore DEF Finished
<1> QED BY <1>1, <1>2, <1>5, <1>11, <1>12, <1>13, <1>14 DEF ByData, Finished

LEMMA RetrievedNoData ==
  ASSUME NEW v, NEW a, NEW q, NEW e, NEW rep, At(v, a, q, e, rep), q # <<>>,
         NEW t \in DataReps, NEW c \in Llcs,
         NEW z, z = retrieveDataAndSend(v, t, c, a, NoData), z.err = NoFailure
  PROVE  /\ v.err = NoFailure /\ Apart(v, z, a)
         /\ ByForwarder(v, z, a, q, e, rep) \/ ByDram(v, z, a, q, e, rep)
<1> DEFINE k == e.fwd
           guard == Protocol = "mesif" /\ Head(q).from = NoCore /\ e.st = "S" /\ k # NoCore
<1>1. Head(q) = q[1] /\ q \in Seq(DirReq) /\ k \in Cores
  BY Popped DEF At, DirEntry
<1>2. z = IF guard THEN Send([v EXCEPT !.d.q[a][1].from = k], k, "WB_REQ", a, NoData)
          ELSE [v EXCEPT !.d.q[a][1].wait = TRUE, !.d.reply[a] = Append(@, v.d.mem[a])]
  BY DEF retrieveDataAndSend, At, FrontReq, Dstate
<1>3. CASE guard
  <2> DEFINE m == Msg("WB_REQ", a, NoData)
             p == MarkFrom(q, k)
             y == SetQ(v, a, p)
  <2>1. m \in ToCacheMsg /\ m = Msg("WB_REQ", a, NoData)
    BY Messages DEF At, Data, DataReps
  <2>2. p \in Seq(DirReq)
    BY <1>1, MarkedFrom DEF Marks
  <2>3. y = SetQ(v, a, p)
    OBVIOUS
  <2>4. z = Send(y, k, "WB_REQ", a, NoData)
    <3>1. [v EXCEPT !.d.q[a][1].from = k] = y
      BY DEF SetQ, MarkFrom, At
    <3> QED BY <1>2, <1>3, <3>1
  <2>5. Protocol = "mesif" /\ Head(q).from = NoCore /\ e.st = "S"
    BY <1>3
  <2> HIDE DEF m, p, y, guard, k
  <2>6. At(y, a, p, e, rep) /\ Apart(v, y, a) /\ Quiet(v, y)
    BY <2>2, <2>3, AtQueue
  <2>7. At(z, a, p, e, rep) /\ Apart(y, z, a) /\ Delivered(y, z, k, m)
    BY <2>1, <2>4, <2>6, AtSend
  <2>8. Apart(v, z, a) /\ v.err = NoFailure /\ z.next = v.next /\ k \in Llcs
    BY <2>6, <2>7, ApartChain DEF Quiet, Delivered
  <2>9. Sends(v, z, {k}, m)
    BY <2>6, <2>7, SendsAfter DEF Quiet, Delivered
  <2> QED BY <2>5, <2>7, <2>8, <2>9 DEF ByForwarder, m, p, k
<1>4. CASE ~guard
  <2> DEFINE p == MarkWait(q)
             y == SetQ(v, a, p)
             new == Append(rep, v.d.mem[a])
  <2>1. p \in Seq(DirReq)
    BY <1>1, MarkedWait DEF Marks
  <2>2. new \in Seq(Filled)
    BY FieldTypes DEF At
  <2>3. y = SetQ(v, a, p) /\ new = Append(rep, v.d.mem[a])
    OBVIOUS
  <2>4. z = SetR(y, a, new)
    <3>1. [v EXCEPT !.d.q[a][1].wait = TRUE, !.d.reply[a] = Append(@, v.d.mem[a])] = SetR(y, a, new)
      BY DEF SetQ, SetR, MarkWait, At
    <3> QED BY <1>2, <1>4, <3>1
  <2> HIDE DEF p, y, guard, new
  <2>5. At(y, a, p, e, rep) /\ Apart(v, y, a) /\ Quiet(v, y)
    BY <2>1, <2>3, AtQueue
  <2>6. At(z, a, p, e, new) /\ Apart(y, z, a) /\ Quiet(y, z)
    BY <2>2, <2>4, <2>5, AtReply
  <2>7. Apart(v, z, a) /\ z.out = v.out /\ z.next = v.next /\ v.err = NoFailure
    BY <2>5, <2>6, ApartChain DEF Quiet
  <2> QED BY <2>6, <2>7 DEF ByDram, p, new
<1> QED BY <1>3, <1>4

LEMMA ApartFine ==
  ASSUME NEW w, NEW z, NEW a, NEW rest, NEW q, NEW e, NEW rep, NEW cs,
         NEW m \in ToCacheMsg, m.a = a,
         Fine(w, rest), Apart(w, z, a), At(z, a, q, e, rep), Sends(w, z, cs, m),
         NEW known, known = HasEntry(w, a), NEW ss, ss = Out(z),
         LineOK(a, q, e, rep, known, ss, rest)
  PROVE  Fine(z, rest) /\ OnlyAt(w, z, a)
<1>1. a \in Addrs
  BY DEF At
<1>2. Worked(w, z, a, q, e, rep, cs, m)
  BY DEF Apart, At, Worked
<1>3. LineOK(a, q, e, rep, HasEntry(w, a), Out(z), rest)
  OBVIOUS
<1> QED BY <1>1, <1>2, <1>3, WorkedFine

LineAt(w, rest, a, q, e, rep, known, ss) ==
    /\ LineOK(a, q, e, rep, known, ss, rest)
    /\ ss \in [Llcs -> Seq(ToCacheMsg)] /\ rest \in [Llcs -> Seq(ToDirMsg)]
    /\ toCache \in [Llcs -> Seq(ToCacheMsg)] /\ w \in Works /\ a \in Addrs
    /\ Len(rep) <= 1 /\ (rep # <<>> => q # <<>> /\ Head(q).wait)

LEMMA FineLine ==
  ASSUME NEW w, NEW rest, NEW a, NEW q, NEW e, NEW rep, Fine(w, rest), At(w, a, q, e, rep),
         NEW known, known = HasEntry(w, a), NEW ss, ss = Out(w)
  PROVE  LineAt(w, rest, a, q, e, rep, known, ss)
<1>1. w \in Works /\ a \in Addrs /\ toCache \in [Llcs -> Seq(ToCacheMsg)]
  BY DEF Fine, At
<1>2. ss \in [Llcs -> Seq(ToCacheMsg)]
  BY <1>1, OutType
<1>3. FineAt(w, rest, a)
  BY <1>1 DEF Fine
<1>4. LineOK(a, q, e, rep, known, ss, rest)
  BY <1>3 DEF FineAt, At
<1>5. LineInv(q, e, rep, known)
  BY <1>4 DEF LineOK
<1> QED BY <1>1, <1>2, <1>4, <1>5 DEF Fine, LineInv, LineAt

(* The queues to the caches after sending. *)
LEMMA OutJoined ==
  ASSUME NEW w, NEW z, NEW a, Apart(w, z, a), toCache \in [Llcs -> Seq(ToCacheMsg)],
         NEW cs, NEW m \in ToCacheMsg, Sends(w, z, cs, m),
         NEW ss, ss = Out(w), NEW ss2, ss2 = Out(z)
  PROVE  ss \in [Llcs -> Seq(ToCacheMsg)] /\ ss2 \in [Llcs -> Seq(ToCacheMsg)] /\ Joined(ss, ss2, cs, m)
<1>1. w \in Works /\ z \in Works
  BY DEF Apart
<1> QED BY <1>1, OutSends

LEMMA OutSame ==
  ASSUME NEW w, NEW z, z.out = w.out PROVE Out(z) = Out(w)
BY DEF Out

(* What a handler leaves behind: a directory that is fine, and when the next      *)
(* request is to be started, one that has not been granted and no write-back.   *)
Restart(z, rest, a) == z.d.q[a] # <<>> /\ ~Granted(z.d.q[a]) /\ Calm(z, rest, a)
Goes(z, rest, a) == Fine(z, rest) /\ (z.next = TRUE => Restart(z, rest, a))

(* The front request can be granted, with entry f, and answered with a t. *)
Grantable(q, e) ==
    /\ q # <<>> /\ ~Granted(q) /\ Head(q).t # "NULLIFY_REQ" /\ Head(q).c \notin e.sharers
    /\ e.st = "U" \/ (e.st = "S" /\ Head(q).t = "SH_REQ")
Grants(q, e, f, t) ==
    /\ f \in DirEntry /\ f.sharers = e.sharers \union {Head(q).c} /\ f.st # "U"
    /\ f.st \in {"E", "M"} => f.sharers = {f.owner}
    /\ Head(q).t # "SH_REQ" => f.st = "M"
    /\ t \in DataReps /\ (t = "EX_REP" => f.st \in {"E", "M"})

LEMMA GrantedByData ==
  ASSUME NEW w, NEW rest, NEW a, NEW q, NEW e, NEW rep, Fine(w, rest), At(w, a, q, e, rep),
         HasEntry(w, a), Grantable(q, e), NEW f, NEW t, Grants(q, e, f, t),
         NEW c, c = Head(q).c, NEW buf \in Data, buf # NoData,
         NEW v, Quiet(w, v), NEW z, Apart(w, z, a), ByData(v, z, t, c, a, buf, q, f, rep)
  PROVE  Goes(z, rest, a)
<1> DEFINE m == Msg(t, a, buf)
           g == Forwards(f, c)
           p == Tail(q)
           ss == Out(w)
           ss2 == Out(z)
           known == HasEntry(w, a)
<1>1. m \in ToCacheMsg /\ m.a = a /\ m.t = t
  BY Messages DEF Grants, DataReps, Reps, At
<1>2. known = HasEntry(w, a) /\ ss = Out(w) /\ ss2 = Out(z) /\ p = Tail(q) /\ known
  OBVIOUS
<1>3. At(z, a, p, g, rep) /\ Sends(v, z, {c}, m) /\ (z.next = TRUE => p # <<>>)
  BY DEF ByData
<1>4. g \in DirEntry /\ g.st = f.st /\ g.sharers = f.sharers /\ g.owner = f.owner
  <2>1. c \in Cores /\ f \in DirEntry
    <3>1. q \in Seq(DirReq) /\ q # <<>>
      BY DEF At, Grantable
    <3>2. Head(q) \in DirReq
      BY <3>1, Popped
    <3> QED BY <3>2 DEF DirReq, Grants
  <2>2. g = Forwards(f, c)
    OBVIOUS
  <2> HIDE DEF g
  <2> QED BY <2>1, <2>2, EntryFields
<1> HIDE DEF m, g, p, ss, ss2, known
<1>5. /\ LineOK(a, q, e, rep, known, ss, rest)
      /\ ss \in [Llcs -> Seq(ToCacheMsg)] /\ rest \in [Llcs -> Seq(ToDirMsg)]
      /\ toCache \in [Llcs -> Seq(ToCacheMsg)] /\ w \in Works /\ a \in Addrs
      /\ Len(rep) <= 1 /\ (rep # <<>> => q # <<>> /\ Head(q).wait)
  <2>1. LineAt(w, rest, a, q, e, rep, known, ss)
    BY <1>2, FineLine
  <2> QED BY <2>1 DEF LineAt
<1>6. Sends(w, z, {c}, m)
  BY <1>3, SendsQuietly
<1>7. ss \in [Llcs -> Seq(ToCacheMsg)] /\ ss2 \in [Llcs -> Seq(ToCacheMsg)] /\ Joined(ss, ss2, {c}, m)
  BY <1>1, <1>2, <1>5, <1>6, OutJoined
<1>8. rep = <<>>
  BY <1>5 DEF Grantable, Granted
<1>9. LineOK(a, p, g, rep, known, ss2, rest) /\ NoWriteBack(a, ss2, rest) /\ ~Granted(p)
  <2>1. /\ q # <<>> /\ ~Granted(q) /\ Head(q).t # "NULLIFY_REQ" /\ Head(q).c \notin e.sharers
        /\ e.st = "U" \/ (e.st = "S" /\ Head(q).t = "SH_REQ")
    BY DEF Grantable
  <2>2. /\ g.sharers = e.sharers \union {Head(q).c} /\ g.st # "U"
        /\ g.st \in {"E", "M"} => g.sharers = {g.owner}
        /\ Head(q).t # "SH_REQ" => g.st = "M"
    BY <1>4 DEF Grants
  <2>3. m.t \in DataReps /\ (m.t = "EX_REP" => g.st \in {"E", "M"})
    BY <1>1, <1>4 DEF Grants
  <2>4. Joined(ss, ss2, {Head(q).c}, m)
    BY <1>7
  <2>5. /\ LineOK(a, Tail(q), g, <<>>, known, ss2, rest)
        /\ NoWriteBack(a, ss2, rest) /\ ~Granted(Tail(q))
    BY <1>1, <1>2, <1>4, <1>5, <1>7, <2>1, <2>2, <2>3, <2>4, LineServed
  <2> QED BY <1>2, <1>8, <2>5
<1>10. Fine(z, rest) /\ OnlyAt(w, z, a)
  BY <1>1, <1>2, <1>3, <1>6, <1>9, ApartFine
<1>11. z.d.q[a] = p
  BY <1>3 DEF At
<1> QED BY <1>2, <1>3, <1>9, <1>10, <1>11 DEF Goes, Restart, Calm


LEMMA GrantedByForwarder ==
  ASSUME NEW w, NEW rest, NEW a, NEW q, NEW e, NEW rep, Fine(w, rest), At(w, a, q, e, rep),
         HasEntry(w, a), Grantable(q, e), NEW f, NEW t, Grants(q, e, f, t), w.next = FALSE,
         NEW v, Quiet(w, v), NEW z, Apart(w, z, a), ByForwarder(v, z, a, q, f, rep)
  PROVE  Goes(z, rest, a)
<1> DEFINE m == Msg("WB_REQ", a, NoData)
           k == f.fwd
           p == MarkFrom(q, k)
           ss == Out(w)
           ss2 == Out(z)
           known == HasEntry(w, a)
<1>1. m \in ToCacheMsg /\ m.a = a /\ m.t = "WB_REQ"
  BY Messages DEF Data, At, DataReps
<1>2. known = HasEntry(w, a) /\ ss = Out(w) /\ ss2 = Out(z) /\ known
  OBVIOUS
<1>3. /\ At(z, a, p, f, rep) /\ Sends(v, z, {k}, m) /\ z.next = FALSE
      /\ f.st = "S" /\ k \in Llcs /\ Head(q).from = NoCore
  BY DEF ByForwarder, Quiet
<1>4. q \in Seq(DirReq) /\ q # <<>> /\ k \in Cores /\ p = MarkFrom(q, k)
  BY <1>3 DEF At, Grantable, Cores
<1> HIDE DEF m, k, p, ss, ss2, known
<1>5. /\ LineOK(a, q, e, rep, known, ss, rest)
      /\ ss \in [Llcs -> Seq(ToCacheMsg)] /\ rest \in [Llcs -> Seq(ToDirMsg)]
      /\ toCache \in [Llcs -> Seq(ToCacheMsg)] /\ w \in Works /\ a \in Addrs
      /\ Len(rep) <= 1 /\ (rep # <<>> => q # <<>> /\ Head(q).wait)
  <2>1. LineAt(w, rest, a, q, e, rep, known, ss)
    BY <1>2, FineLine
  <2> QED BY <2>1 DEF LineAt
<1>6. Sends(w, z, {k}, m)
  BY <1>3, SendsQuietly
<1>7. ss \in [Llcs -> Seq(ToCacheMsg)] /\ ss2 \in [Llcs -> Seq(ToCacheMsg)] /\ Joined(ss, ss2, {k}, m)
  BY <1>1, <1>2, <1>5, <1>6, OutJoined
<1>8. rep = <<>>
  BY <1>5 DEF Grantable, Granted
<1>9. Marks(p, q) /\ p[1].from = k /\ p[1].wait = q[1].wait
  BY <1>4, MarkedFrom
<1>10. k # NoCore /\ Head(q).t = "SH_REQ" /\ ~Head(q).wait /\ Head(q) = q[1]
  <2>1. Head(q) = q[1]
    BY <1>9 DEF Marks
  <2> QED BY <1>3, <2>1, NoCoreIsNone DEF Grants, Grantable, Granted
<1>11. LineOK(a, p, f, rep, known, ss, rest)
  <2>1. /\ q # <<>> /\ ~Granted(q) /\ Head(q).t # "NULLIFY_REQ" /\ Head(q).c \notin e.sharers
        /\ e.st = "U" \/ (e.st = "S" /\ Head(q).t = "SH_REQ")
    BY DEF Grantable
  <2>2. /\ f \in DirEntry /\ f.sharers = e.sharers \union {Head(q).c} /\ f.st # "U"
        /\ f.st \in {"E", "M"} => f.sharers = {f.owner}
        /\ Head(q).t # "SH_REQ" => f.st = "M"
    BY DEF Grants
  <2>3. /\ p \in Seq(DirReq) /\ Len(p) = Len(q) /\ Granted(p)
        /\ \A i \in 1 .. Len(q) : p[i].c = q[i].c /\ p[i].t = q[i].t
        /\ \A i \in 2 .. Len(q) : p[i].wait = q[i].wait /\ p[i].from = q[i].from
        /\ p[1].from # NoCore => p[1].t = "SH_REQ"
    BY <1>9, <1>10 DEF Marks, Granted
  <2>4. Len(rep) <= 1 /\ (rep # <<>> => p[1].wait)
    BY <1>5, <1>8
  <2> QED BY <1>2, <1>5, <2>1, <2>2, <2>3, <2>4, LineGranted
<1>12. NoWriteBack(a, ss, rest)
  <2>1. e.st \notin {"E", "M"} /\ Head(q).from = NoCore
    BY <1>3 DEF Grantable
  <2> QED BY <1>5, <2>1, WhenNoWriteBack
<1>13. LineOK(a, p, f, rep, known, ss2, rest)
  <2>1. /\ p # <<>> /\ Head(p).t = "SH_REQ" /\ ~Head(p).wait /\ {k} \subseteq {Head(p).from}
    BY <1>9, <1>10 DEF Marks
  <2>2. m.t \in {"INV_REQ", "FLUSH_REQ", "WB_REQ"} /\ m.t # "FLUSH_REQ"
    BY <1>1
  <2> QED BY <1>1, <1>5, <1>7, <1>11, <1>12, <2>1, <2>2, LineAsked
<1>14. Fine(z, rest) /\ OnlyAt(w, z, a)
  BY <1>1, <1>2, <1>3, <1>6, <1>13, ApartFine
<1> QED BY <1>3, <1>14 DEF Goes

LEMMA GrantedByDram ==
  ASSUME NEW w, NEW rest, NEW a, NEW q, NEW e, NEW rep, Fine(w, rest), At(w, a, q, e, rep),
         HasEntry(w, a), Grantable(q, e), NEW f, NEW t, Grants(q, e, f, t), w.next = FALSE,
         NEW v, Quiet(w, v), v \in Works, NEW z, Apart(w, z, a), ByDram(v, z, a, q, f, rep)
  PROVE  Goes(z, rest, a)
<1> DEFINE m == Msg("WB_REQ", a, NoData)
           p == MarkWait(q)
           new == Append(rep, v.d.mem[a])
           ss == Out(w)
           known == HasEntry(w, a)
<1>1. m \in ToCacheMsg /\ m.a = a
  BY Messages DEF Data, At, DataReps
<1>2. known = HasEntry(w, a) /\ ss = Out(w) /\ known
  OBVIOUS
<1>3. At(z, a, p, f, new) /\ z.out = w.out /\ z.next = FALSE
  BY DEF ByDram, Quiet
<1>4. q \in Seq(DirReq) /\ q # <<>> /\ p = MarkWait(q)
  BY DEF At, Grantable
<1>5. rep = <<>> => Len(new) <= 1
  <2>1. v.d.mem[a] \in Filled
    BY FieldTypes DEF At
  <2> QED BY <2>1
<1> HIDE DEF m, p, ss, known, new
<1>6. /\ LineOK(a, q, e, rep, known, ss, rest)
      /\ ss \in [Llcs -> Seq(ToCacheMsg)] /\ rest \in [Llcs -> Seq(ToDirMsg)]
      /\ toCache \in [Llcs -> Seq(ToCacheMsg)] /\ w \in Works /\ a \in Addrs
      /\ Len(rep) <= 1 /\ (rep # <<>> => q # <<>> /\ Head(q).wait)
  <2>1. LineAt(w, rest, a, q, e, rep, known, ss)
    BY <1>2, FineLine
  <2> QED BY <2>1 DEF LineAt
<1>7. Sends(w, z, {}, m)
  BY <1>3 DEF Sends
<1>8. ss = Out(z)
  BY <1>2, <1>3 DEF Out
<1>9. rep = <<>>
  BY <1>6 DEF Grantable, Granted
<1>10. Marks(p, q) /\ p[1].from = q[1].from /\ p[1].wait
  BY <1>4, MarkedWait
<1>11. Head(q).from = NoCore /\ Head(q) = q[1]
  BY <1>10 DEF Grantable, Granted, Marks
<1>12. LineOK(a, p, f, new, known, ss, rest)
  <2>1. /\ q # <<>> /\ ~Granted(q) /\ Head(q).t # "NULLIFY_REQ" /\ Head(q).c \notin e.sharers
        /\ e.st = "U" \/ (e.st = "S" /\ Head(q).t = "SH_REQ")
    BY DEF Grantable
  <2>2. /\ f \in DirEntry /\ f.sharers = e.sharers \union {Head(q).c} /\ f.st # "U"
        /\ f.st \in {"E", "M"} => f.sharers = {f.owner}
        /\ Head(q).t # "SH_REQ" => f.st = "M"
    BY DEF Grants
  <2>3. /\ p \in Seq(DirReq) /\ Len(p) = Len(q) /\ Granted(p)
        /\ \A i \in 1 .. Len(q) : p[i].c = q[i].c /\ p[i].t = q[i].t
        /\ \A i \in 2 .. Len(q) : p[i].wait = q[i].wait /\ p[i].from = q[i].from
        /\ p[1].from # NoCore => p[1].t = "SH_REQ"
    BY <1>10, <1>11 DEF Marks, Granted
  <2>4. Len(new) <= 1 /\ (new # <<>> => p[1].wait)
    BY <1>5, <1>9, <1>10
  <2> QED BY <1>2, <1>6, <2>1, <2>2, <2>3, <2>4, LineGranted
<1>13. Fine(z, rest) /\ OnlyAt(w, z, a)
  BY <1>1, <1>2, <1>3, <1>7, <1>8, <1>12, ApartFine
<1> QED BY <1>3, <1>13 DEF Goes


LEMMA RetrievedNew ==
  ASSUME NEW w, NEW rest, NEW a, NEW q, NEW e, NEW rep, Fine(w, rest), At(w, a, q, e, rep),
         HasEntry(w, a), Grantable(q, e), NEW f, NEW t, Grants(q, e, f, t), w.next = FALSE,
         NEW c, c = Head(q).c, NEW buf \in Data, NEW v, v = SetE(w, a, f),
         NEW z, z = retrieveDataAndSend(v, t, c, a, buf), z.err = NoFailure
  PROVE  w.err = NoFailure /\ Goes(z, rest, a)
<1>1. f \in DirEntry /\ t \in DataReps /\ q # <<>>
  BY DEF Grants, Grantable
<1>2. At(v, a, q, f, rep) /\ Apart(w, v, a) /\ Quiet(w, v)
  BY <1>1, AtEntry
<1>3. c \in Llcs
  <2>1. FineAt(w, rest, a)
    BY DEF Fine, At
  <2>2. FrontWaits(q, e) /\ q \in Seq(DirReq)
    BY <2>1 DEF FineAt, LineOK, LineInv, At
  <2>3. q # <<>> /\ Head(q).t # "NULLIFY_REQ"
    BY DEF Grantable
  <2> QED BY <2>2, <2>3, RequesterIsCache
<1>4. CASE buf # NoData
  <2>1. v.err = NoFailure /\ Apart(v, z, a) /\ ByData(v, z, t, c, a, buf, q, f, rep)
    BY <1>1, <1>2, <1>3, <1>4, RetrievedData
  <2>2. Apart(w, z, a)
    BY <1>2, <2>1, ApartChain
  <2>3. Goes(z, rest, a)
    BY <1>2, <1>4, <2>1, <2>2, GrantedByData
  <2> QED BY <1>2, <2>1, <2>3 DEF Quiet
<1>5. CASE buf = NoData
  <2>1. /\ v.err = NoFailure /\ Apart(v, z, a)
        /\ ByForwarder(v, z, a, q, f, rep) \/ ByDram(v, z, a, q, f, rep)
    BY <1>1, <1>2, <1>3, <1>5, RetrievedNoData
  <2>2. Apart(w, z, a) /\ v \in Works
    BY <1>2, <2>1, ApartChain DEF Apart
  <2>3. ByForwarder(v, z, a, q, f, rep) => Goes(z, rest, a)
    BY <1>2, <2>2, GrantedByForwarder
  <2>4. ByDram(v, z, a, q, f, rep) => Goes(z, rest, a)
    BY <1>2, <2>2, GrantedByDram
  <2> QED BY <1>2, <2>1, <2>3, <2>4 DEF Quiet
<1> QED BY <1>4, <1>5

(* The front request is to be processed: it does not wait for DRAM, no           *)
(* write-back is under way, and if it is granted the entry is shared.          *)
Ready(w, rest, a, q, e, rep) ==
    /\ Fine(w, rest) /\ At(w, a, q, e, rep) /\ HasEntry(w, a) /\ w.next = FALSE
    /\ q # <<>> /\ ~Head(q).wait /\ (Granted(q) => e.st = "S") /\ Calm(w, rest, a)

(* What follows for the front request. *)
FrontFacts(q, e, rep) ==
    /\ q \in Seq(DirReq) /\ Head(q) \in DirReq /\ Head(q) = q[1] /\ FrontWaits(q, e) /\ rep = <<>>
    /\ e \in DirEntry
    /\ e.st \in {"E", "M"} => e.sharers = {e.owner}
    /\ e.st = "U" => e.sharers = {}
    /\ Head(q).t # "NULLIFY_REQ" => Head(q).c \in Llcs
    /\ Granted(q) => Head(q).t = "SH_REQ" /\ Head(q).c \in e.sharers
    /\ Head(q).t \in Fetches /\ ~Granted(q) => Head(q).c \notin e.sharers

LEMMA ReadyFront ==
  ASSUME NEW w, NEW rest, NEW a, NEW q, NEW e, NEW rep, Ready(w, rest, a, q, e, rep)
  PROVE  FrontFacts(q, e, rep)
<1> DEFINE known == HasEntry(w, a)
           ss == Out(w)
           c == Head(q).c
<1>1. known = HasEntry(w, a) /\ ss = Out(w) /\ c = Head(q).c
  OBVIOUS
<1> HIDE DEF known, ss, c
<1>2. LineAt(w, rest, a, q, e, rep, known, ss)
  BY <1>1, FineLine DEF Ready
<1>3. LineOK(a, q, e, rep, known, ss, rest)
  BY <1>2 DEF LineAt
<1>4. q # <<>> /\ ~Head(q).wait /\ At(w, a, q, e, rep)
  BY DEF Ready
<1>5. LineInv(q, e, rep, known) /\ q \in Seq(DirReq) /\ e \in DirEntry
  BY <1>3 DEF LineOK
<1>6. FrontWaits(q, e) /\ Head(q) = q[1] /\ Head(q) \in DirReq /\ rep = <<>> /\ 1 \in DOMAIN q
  <2>1. FrontWaits(q, e) /\ rep = <<>>
    BY <1>4, <1>5 DEF LineInv
  <2>2. Head(q) = q[1] /\ Head(q) \in DirReq /\ 1 \in DOMAIN q
    BY <1>4, <1>5, Popped
  <2> QED BY <2>1, <2>2
<1>7. Head(q).t # "NULLIFY_REQ" => c \in Llcs
  BY <1>1, <1>4, <1>5, <1>6, RequesterIsCache
<1>8. Granted(q) => Head(q).t = "SH_REQ"
  BY <1>4, <1>6 DEF Granted, FrontWaits
<1>9. ASSUME c \in Llcs PROVE PairInv(c, a, cache[c][a].st, waiters[c][a], ss[c], rest[c], q, e)
  BY <1>3, <1>9 DEF LineOK
<1>10. Granted(q) => c \in e.sharers
  <2>1. ASSUME Granted(q) PROVE c \in Llcs /\ GrantedTo(q, c)
    BY <1>1, <1>7, <1>8, <2>1 DEF GrantedTo
  <2> QED BY <1>9, <2>1 DEF PairInv, Listed
<1>11. Head(q).t \in Fetches /\ ~Granted(q) => c \notin e.sharers
  <2>1. ASSUME Head(q).t \in Fetches, ~Granted(q) PROVE c \in Llcs /\ Pending(q, c)
    BY <1>1, <1>6, <1>7, <2>1 DEF Pending, Fetches
  <2> QED BY <1>9, <2>1 DEF PairInv, FetchAfterGive
<1> QED BY <1>1, <1>5, <1>6, <1>7, <1>8, <1>10, <1>11 DEF FrontFacts, LineInv


(* The data for a read that is granted. *)
LEMMA RetrievedGranted ==
  ASSUME NEW w, NEW rest, NEW a, NEW q, NEW e, NEW rep, Ready(w, rest, a, q, e, rep), Granted(q),
         NEW c, c = Head(q).c, NEW buf \in Data,
         NEW z, z = retrieveDataAndSend(w, "SH_REP", c, a, buf), z.err = NoFailure
  PROVE  w.err = NoFailure /\ Goes(z, rest, a)
<1> DEFINE known == HasEntry(w, a)
           ss == Out(w)
           ss2 == Out(z)
           t == "SH_REP"
<1>1. known = HasEntry(w, a) /\ ss = Out(w) /\ ss2 = Out(z) /\ known
  BY DEF Ready
<1>2. t \in DataReps /\ t \in Reps /\ t = "SH_REP"
  BY DEF DataReps, Reps
<1> HIDE DEF known, ss, ss2, t
<1>3. FrontFacts(q, e, rep)
  BY ReadyFront
<1>4. /\ Fine(w, rest) /\ At(w, a, q, e, rep) /\ w.next = FALSE
      /\ q # <<>> /\ ~Head(q).wait /\ e.st = "S" /\ Calm(w, rest, a) /\ a \in Addrs
  BY DEF Ready, At
<1>5. LineAt(w, rest, a, q, e, rep, known, ss)
  BY <1>1, <1>4, FineLine
<1>6. /\ LineOK(a, q, e, rep, known, ss, rest)
      /\ ss \in [Llcs -> Seq(ToCacheMsg)] /\ toCache \in [Llcs -> Seq(ToCacheMsg)]
  BY <1>5 DEF LineAt
<1>7. NoWriteBack(a, ss, rest)
  BY <1>1, <1>4 DEF Calm
<1>8. c \in Llcs /\ Head(q).t = "SH_REQ" /\ e \in DirEntry /\ rep = <<>> /\ c \in Cores
  BY <1>3 DEF FrontFacts, Cores
<1>9. z = retrieveDataAndSend(w, t, c, a, buf)
  BY <1>2
<1>10. CASE buf # NoData
  <2> DEFINE m == Msg(t, a, buf)
             g == Forwards(e, c)
             p == Tail(q)
  <2>1. m \in ToCacheMsg /\ m.a = a /\ m.t = t
    BY <1>2, <1>4, <1>10, Messages
  <2>2. w.err = NoFailure /\ Apart(w, z, a) /\ ByData(w, z, t, c, a, buf, q, e, rep)
    BY <1>2, <1>4, <1>8, <1>9, <1>10, RetrievedData
  <2>3. At(z, a, p, g, rep) /\ Sends(w, z, {c}, m) /\ (z.next = TRUE => p # <<>>)
    BY <2>2 DEF ByData
  <2>4. g = Forwards(e, c) /\ p = Tail(q)
    OBVIOUS
  <2> HIDE DEF m, g, p
  <2>5. g \in DirEntry /\ g.st = e.st /\ g.sharers = e.sharers /\ g.owner = e.owner
    BY <1>8, <2>4, EntryFields
  <2>6. ss \in [Llcs -> Seq(ToCacheMsg)] /\ ss2 \in [Llcs -> Seq(ToCacheMsg)] /\ Joined(ss, ss2, {c}, m)
    BY <1>1, <1>6, <2>1, <2>2, <2>3, OutJoined
  <2>7. LineOK(a, p, g, rep, known, ss2, rest) /\ NoWriteBack(a, ss2, rest) /\ ~Granted(p)
    <3>1. g.st # "U" /\ g.st \notin {"E", "M"}
      BY <1>4, <2>5
    <3>2. m.t \in DataReps /\ m.t \notin {"EX_REP", "UPGRADE_REP"}
      BY <1>2, <2>1
    <3>3. Joined(ss, ss2, {Head(q).c}, m) /\ Head(q).c \in Llcs
      BY <1>8, <2>6
    <3>4. /\ LineOK(a, Tail(q), g, <<>>, known, ss2, rest)
          /\ NoWriteBack(a, ss2, rest) /\ ~Granted(Tail(q))
      BY <1>1, <1>4, <1>6, <1>7, <2>1, <2>5, <2>6, <3>1, <3>2, <3>3, LineAnswered
    <3> QED BY <1>8, <2>4, <3>4
  <2>8. Fine(z, rest) /\ OnlyAt(w, z, a)
    BY <1>1, <1>4, <2>1, <2>2, <2>3, <2>7, ApartFine
  <2>9. z.d.q[a] = p
    BY <2>3 DEF At
  <2> QED BY <1>1, <2>2, <2>3, <2>7, <2>8, <2>9 DEF Goes, Restart, Calm
<1>11. CASE buf = NoData
  <2> DEFINE m == Msg("WB_REQ", a, NoData)
             p == MarkWait(q)
             new == Append(rep, w.d.mem[a])
  <2>1. m \in ToCacheMsg /\ m.a = a
    BY <1>4, Messages DEF Data, DataReps
  <2>2. /\ w.err = NoFailure /\ Apart(w, z, a)
        /\ ByForwarder(w, z, a, q, e, rep) \/ ByDram(w, z, a, q, e, rep)
    BY <1>2, <1>4, <1>8, <1>9, <1>11, RetrievedNoData
  <2>3. ByDram(w, z, a, q, e, rep)
    BY <1>4, <2>2 DEF ByForwarder, Granted
  <2>4. At(z, a, p, e, new) /\ z.out = w.out /\ z.next = FALSE
    BY <1>4, <2>3 DEF ByDram
  <2>5. Len(new) <= 1
    <3>1. w.d.mem[a] \in Filled
      BY <1>4, FieldTypes DEF At
    <3> QED BY <1>8, <3>1
  <2>6. p = MarkWait(q) /\ q \in Seq(DirReq)
    BY <1>3 DEF FrontFacts
  <2> HIDE DEF m, p, new
  <2>7. Sends(w, z, {}, m)
    BY <2>4 DEF Sends
  <2>8. ss = Out(z)
    BY <1>1, <2>4 DEF Out
  <2>9. Marks(p, q) /\ p[1].from = q[1].from /\ p[1].wait
    BY <1>4, <2>6, MarkedWait
  <2>10. LineOK(a, p, e, new, known, ss, rest)
    <3>1. /\ p \in Seq(DirReq) /\ Len(p) = Len(q) /\ Granted(p)
          /\ \A i \in 1 .. Len(q) : p[i].c = q[i].c /\ p[i].t = q[i].t /\ p[i].from = q[i].from
          /\ \A i \in 2 .. Len(q) : p[i].wait = q[i].wait
      BY <2>9 DEF Marks, Granted
    <3>2. Len(new) <= 1 /\ (new # <<>> => p[1].wait)
      BY <2>5, <2>9
    <3> QED BY <1>4, <1>6, <1>7, <1>8, <3>1, <3>2, LineMarked
  <2>11. Fine(z, rest) /\ OnlyAt(w, z, a)
    BY <1>1, <1>4, <2>1, <2>2, <2>4, <2>7, <2>8, <2>10, ApartFine
  <2> QED BY <2>2, <2>4, <2>11 DEF Goes
<1> QED BY <1>10, <1>11

(* The directory may ask the caches cs for the line: it invalidates at any time,   *)
(* flushes for a request that is no read, and has data written back for a read.  *)
MayAsk(w, rest, a, q, e, t, cs) ==
    /\ t \in {"INV_REQ", "FLUSH_REQ", "WB_REQ"}
    /\ t = "FLUSH_REQ" => /\ q # <<>> /\ Head(q).t # "SH_REQ" /\ ~Head(q).wait
                          /\ Head(q).c \notin cs \intersect e.sharers
                          /\ e.st \in {"E", "M"} \/ UpgradeWithoutCopy(q, e)
    /\ t = "WB_REQ" => /\ q # <<>> /\ Head(q).t = "SH_REQ" /\ ~Head(q).wait
                       /\ e.st \in {"E", "M"} /\ Calm(w, rest, a)

(* Only the line at a is worked on, and nothing is to be started. *)
Local(w, z, a) == OnlyAt(w, z, a) /\ z.next = FALSE

LEMMA AskedFine ==
  ASSUME NEW w, NEW rest, NEW a, NEW q, NEW e, NEW rep, Fine(w, rest), At(w, a, q, e, rep),
         w.next = FALSE, NEW t, NEW cs, MayAsk(w, rest, a, q, e, t, cs),
         NEW m, m = Msg(t, a, NoData), NEW z, At(z, a, q, e, rep), Apart(w, z, a),
         Sends(w, z, cs, m), z.next = w.next
  PROVE  Goes(z, rest, a) /\ Local(w, z, a)
<1> DEFINE known == HasEntry(w, a)
           ss == Out(w)
           ss2 == Out(z)
<1>1. known = HasEntry(w, a) /\ ss = Out(w) /\ ss2 = Out(z)
  OBVIOUS
<1> HIDE DEF known, ss, ss2
<1>2. LineAt(w, rest, a, q, e, rep, known, ss)
  BY <1>1, FineLine
<1>3. /\ LineOK(a, q, e, rep, known, ss, rest) /\ a \in Addrs
      /\ toCache \in [Llcs -> Seq(ToCacheMsg)]
  BY <1>2 DEF LineAt
<1>4. t \in {"INV_REQ", "FLUSH_REQ", "WB_REQ"}
  BY DEF MayAsk
<1>5. m \in ToCacheMsg /\ m.a = a /\ m.t = t
  BY <1>3, <1>4, Messages DEF Data, DataReps
<1>6. ss \in [Llcs -> Seq(ToCacheMsg)] /\ ss2 \in [Llcs -> Seq(ToCacheMsg)] /\ Joined(ss, ss2, cs, m)
  BY <1>1, <1>3, <1>5, OutJoined
<1>7. m.t = "FLUSH_REQ" =>
             /\ q # <<>> /\ Head(q).t # "SH_REQ" /\ ~Head(q).wait
             /\ Head(q).c \notin cs \intersect e.sharers
             /\ e.st \in {"E", "M"} \/ UpgradeWithoutCopy(q, e)
  BY <1>5 DEF MayAsk
<1>8. m.t = "WB_REQ" =>
             /\ q # <<>> /\ Head(q).t = "SH_REQ" /\ ~Head(q).wait
             /\ e.st \in {"E", "M"} \/ cs \subseteq {Head(q).from}
             /\ NoWriteBack(a, ss, rest)
  BY <1>1, <1>5 DEF MayAsk, Calm
<1>9. m.t \in {"INV_REQ", "FLUSH_REQ", "WB_REQ"}
  BY <1>4, <1>5
<1>10. LineOK(a, q, e, rep, known, ss2, rest)
  BY <1>3, <1>5, <1>6, <1>7, <1>8, <1>9, LineAsked
<1>11. Fine(z, rest) /\ OnlyAt(w, z, a)
  BY <1>1, <1>5, <1>10, ApartFine
<1> QED BY <1>11 DEF Goes, Local

(* No assertion has failed on the way from w to z, and nothing is to be started. *)
Passed(w, z) == z.err = w.err /\ z.next = FALSE

(* One cache is asked, after an assertion, or several are.                       *)
LEMMA AskedOne ==
  ASSUME NEW w, NEW rest, NEW a, NEW q, NEW e, NEW rep, Fine(w, rest), At(w, a, q, e, rep),
         w.next = FALSE, NEW t, NEW c, MayAsk(w, rest, a, q, e, t, {c}),
         NEW z, z = Send(w, c, t, a, NoData), z.err = NoFailure
  PROVE  w.err = NoFailure /\ Goes(z, rest, a) /\ Local(w, z, a)
<1> DEFINE m == Msg(t, a, NoData)
<1>1. m = Msg(t, a, NoData)
  OBVIOUS
<1>2. t \in Reps \union {"INV_REQ", "FLUSH_REQ", "WB_REQ"} /\ t \notin DataReps
      /\ a \in Addrs /\ NoData \in Data
  BY DEF MayAsk, At, Data, DataReps
<1>3. m \in ToCacheMsg
  BY <1>2, Messages
<1> HIDE DEF m
<1>4. At(z, a, q, e, rep) /\ Apart(w, z, a) /\ Delivered(w, z, c, m)
  BY <1>1, <1>3, AtSend
<1>5. z.next = w.next /\ w.err = NoFailure /\ Sends(w, z, {c}, m)
  BY <1>4 DEF Delivered
<1> QED BY <1>1, <1>4, <1>5, AskedFine

LEMMA AskedChecked ==
  ASSUME NEW w, NEW rest, NEW a, NEW q, NEW e, NEW rep, Fine(w, rest), At(w, a, q, e, rep),
         w.next = FALSE, NEW t, NEW c, MayAsk(w, rest, a, q, e, t, {c}),
         NEW cond, NEW what \in Failures, NEW v, v = Assert_(w, cond, what),
         NEW z, z = Send(v, c, t, a, NoData), z.err = NoFailure
  PROVE  w.err = NoFailure /\ Goes(z, rest, a)
<1> DEFINE m == Msg(t, a, NoData)
<1>1. m = Msg(t, a, NoData)
  OBVIOUS
<1>2. t \in Reps \union {"INV_REQ", "FLUSH_REQ", "WB_REQ"} /\ t \notin DataReps
      /\ a \in Addrs /\ NoData \in Data
  BY DEF MayAsk, At, Data, DataReps
<1>3. m \in ToCacheMsg
  BY <1>2, Messages
<1> HIDE DEF m
<1>4. At(v, a, q, e, rep) /\ Checked(w, v, cond)
  BY AtAssert
<1>5. Delivered(v, z, c, m)
  BY <1>1, <1>3, <1>4, AtSend
<1>6. v.err = NoFailure
  BY <1>5 DEF Delivered
<1>7. v = w
  BY <1>4, <1>6 DEF Checked
<1> QED BY <1>7, AskedOne

LEMMA AskedAll ==
  ASSUME NEW w, NEW rest, NEW a, NEW q, NEW e, NEW rep, Fine(w, rest), At(w, a, q, e, rep),
         w.next = FALSE, NEW t, NEW cs, MayAsk(w, rest, a, q, e, t, cs),
         NEW z, z = SendAll(w, cs, t, a)
  PROVE  At(z, a, q, e, rep) /\ Apart(w, z, a) /\ Passed(w, z) /\ Goes(z, rest, a) /\ Local(w, z, a)
<1> DEFINE m == Msg(t, a, NoData)
<1>1. m = Msg(t, a, NoData)
  OBVIOUS
<1>2. t \in Reps \union {"INV_REQ", "FLUSH_REQ", "WB_REQ"} /\ t \notin DataReps
      /\ a \in Addrs /\ NoData \in Data
  BY DEF MayAsk, At, Data, DataReps
<1>3. m \in ToCacheMsg
  BY <1>2, Messages
<1> HIDE DEF m
<1>4. At(z, a, q, e, rep) /\ Apart(w, z, a) /\ Broadcast(w, z, cs, m)
  BY <1>1, <1>3, AtSendAll
<1>5. z.next = w.next /\ z.err = w.err /\ Sends(w, z, cs, m)
  BY <1>4 DEF Broadcast
<1>6. Goes(z, rest, a) /\ Local(w, z, a)
  BY <1>1, <1>4, <1>5, AskedFine
<1> QED BY <1>4, <1>5, <1>6 DEF Passed

LEMMA AskedAllChecked ==
  ASSUME NEW w, NEW rest, NEW a, NEW q, NEW e, NEW rep, Fine(w, rest), At(w, a, q, e, rep),
         w.next = FALSE, NEW t, NEW cs, MayAsk(w, rest, a, q, e, t, cs),
         NEW cond, NEW what \in Failures, NEW v, v = Assert_(w, cond, what),
         NEW z, z = SendAll(v, cs, t, a), z.err = NoFailure
  PROVE  w.err = NoFailure /\ Goes(z, rest, a)
<1>1. At(v, a, q, e, rep) /\ Checked(w, v, cond)
  BY AtAssert
<1>2. z.err = v.err
  BY <1>1 DEF At, Works, SendAll
<1>3. v = w
  BY <1>1, <1>2 DEF Checked
<1>4. Goes(z, rest, a)
  BY <1>3, AskedAll
<1> QED BY <1>2, <1>3, <1>4


-----------------------------------------------------------------------------
(* The three requests. *)
Granting(e, c, st) == [e EXCEPT !.sharers = @ \union {c}, !.owner = c, !.st = st]
Sharing(e, c) == [e EXCEPT !.sharers = @ \union {c}]
Owning(e, c) == [e EXCEPT !.owner = c, !.st = "M"]
MakeOwner(w, a, c) == [w EXCEPT !.d.e[a].owner = c, !.d.e[a].st = "M"]

LEMMA AtFront ==
  ASSUME NEW w, NEW a, NEW q, NEW e, NEW rep, At(w, a, q, e, rep)
  PROVE  FrontReq(w, a) = Head(q) /\ Dstate(w, a) = e.st /\ Sharers(w, a) = e.sharers
         /\ w.d.q[a] = q /\ w.d.e[a] = e
  BY DEF At, FrontReq, Dstate, Sharers

LEMMA EntrySetTwice ==
  ASSUME NEW w, NEW a, NEW q, NEW e, NEW rep, At(w, a, q, e, rep),
         NEW f \in DirEntry, NEW g \in DirEntry, NEW y, y = SetE(w, a, f)
  PROVE  SetE(y, a, g) = SetE(w, a, g) /\ y.d.e[a] = f
<1>1. w \in Works /\ a \in Addrs
  BY DEF At
<1>2. Kept(w, y) /\ y.d.e = [w.d.e EXCEPT ![a] = f]
  BY <1>1, EntrySet
<1>3. w.d \in Directory /\ w.d.e \in [Addrs -> DirEntry]
  BY <1>1, FieldTypes
<1>4. y.d = [w.d EXCEPT !.e = [w.d.e EXCEPT ![a] = f]] /\ y = [w EXCEPT !.d = y.d]
  BY <1>1, <1>3 DEF SetE, Works, Directory
<1>5. [y.d.e EXCEPT ![a] = g] = [w.d.e EXCEPT ![a] = g]
  BY <1>1, <1>2, <1>3
<1>6. [y.d EXCEPT !.e = [y.d.e EXCEPT ![a] = g]] = [w.d EXCEPT !.e = [w.d.e EXCEPT ![a] = g]]
  BY <1>3, <1>4, <1>5 DEF Directory
<1>7. SetE(y, a, g) = [y EXCEPT !.d = [y.d EXCEPT !.e = [y.d.e EXCEPT ![a] = g]]]
  BY DEF SetE
<1>8. SetE(w, a, g) = [w EXCEPT !.d = [w.d EXCEPT !.e = [w.d.e EXCEPT ![a] = g]]]
  BY DEF SetE
<1>9. [y EXCEPT !.d = [w.d EXCEPT !.e = [w.d.e EXCEPT ![a] = g]]]
        = [w EXCEPT !.d = [w.d EXCEPT !.e = [w.d.e EXCEPT ![a] = g]]]
  BY <1>1, <1>4 DEF Works
<1>10. y.d.e[a] = f
  BY <1>1, <1>2, <1>3
<1> QED BY <1>6, <1>7, <1>8, <1>9, <1>10

LEMMA GrantIs ==
  ASSUME NEW w, NEW a, NEW q, NEW e, NEW rep, At(w, a, q, e, rep), NEW c \in Llcs,
         NEW st \in {"S", "E", "M"}, NEW f, f = Granting(e, c, st)
  PROVE  /\ Grant(w, a, c, st) = SetE(w, a, f)
         /\ f \in DirEntry /\ f.sharers = e.sharers \union {c} /\ f.owner = c /\ f.st = st
<1>1. w \in Works /\ a \in Addrs /\ w.d \in Directory /\ w.d.e \in [Addrs -> DirEntry] /\ w.d.e[a] = e
      /\ e \in DirEntry
  BY FieldTypes DEF At
<1>2. f \in DirEntry /\ f.sharers = e.sharers \union {c} /\ f.owner = c /\ f.st = st
  BY <1>1 DEF DirEntry, Granting, Cores
<1> DEFINE g == Sharing(e, c)
           h == [g EXCEPT !.owner = c]
           y == SetE(w, a, g)
           x == SetE(y, a, h)
<1>3. g \in DirEntry /\ h \in DirEntry /\ f = [h EXCEPT !.st = st] /\ h = [g EXCEPT !.owner = c]
  BY <1>1 DEF DirEntry, Sharing, Granting, Cores
<1>4. addSharer(w, a, c) = y /\ y = SetE(w, a, g) /\ x = SetE(y, a, h)
  BY <1>1 DEF addSharer, SetE, Sharing
<1> HIDE DEF g, h, x, y
<1>5. y.d.e[a] = g /\ x = SetE(w, a, h)
  BY <1>3, <1>4, EntrySetTwice
<1>6. x.d.e[a] = h /\ SetE(x, a, f) = SetE(w, a, f)
  BY <1>2, <1>3, <1>5, EntrySetTwice
<1>7. [y EXCEPT !.d.e[a].owner = c] = x
  BY <1>3, <1>4, <1>5 DEF SetE
<1>8. [x EXCEPT !.d.e[a].st = st] = SetE(x, a, f)
  BY <1>3, <1>6 DEF SetE
<1>9. Grant(w, a, c, st) = [[y EXCEPT !.d.e[a].owner = c] EXCEPT !.d.e[a].st = st]
  BY <1>4 DEF Grant
<1> QED BY <1>2, <1>6, <1>7, <1>8, <1>9

LEMMA SharingIs ==
  ASSUME NEW w, NEW a, NEW q, NEW e, NEW rep, At(w, a, q, e, rep), NEW c \in Llcs,
         NEW f, f = Sharing(e, c)
  PROVE  /\ addSharer(w, a, c) = SetE(w, a, f)
         /\ f \in DirEntry /\ f.sharers = e.sharers \union {c} /\ f.owner = e.owner /\ f.st = e.st
<1>1. w \in Works /\ a \in Addrs /\ w.d \in Directory /\ w.d.e \in [Addrs -> DirEntry] /\ w.d.e[a] = e
      /\ e \in DirEntry
  BY FieldTypes DEF At
<1>2. f \in DirEntry /\ f.sharers = e.sharers \union {c} /\ f.owner = e.owner /\ f.st = e.st
  BY <1>1 DEF DirEntry, Sharing, Cores
<1>3. addSharer(w, a, c) = SetE(w, a, f)
  BY <1>1 DEF addSharer, SetE, Sharing
<1> QED BY <1>2, <1>3

LEMMA OwnedEntry ==
  ASSUME NEW e \in DirEntry, NEW c \in Llcs, NEW f, f = Owning(e, c)
  PROVE  f \in DirEntry /\ f.sharers = e.sharers /\ f.owner = c /\ f.st = "M"
  BY DEF DirEntry, Owning, Cores

LEMMA OwningIs ==
  ASSUME NEW w, NEW a, NEW q, NEW e, NEW rep, At(w, a, q, e, rep), NEW c \in Llcs,
         NEW f, f = Owning(e, c)
  PROVE  /\ MakeOwner(w, a, c) = SetE(w, a, f)
         /\ f \in DirEntry /\ f.sharers = e.sharers /\ f.owner = c /\ f.st = "M"
<1>1. w \in Works /\ a \in Addrs /\ w.d \in Directory /\ w.d.e \in [Addrs -> DirEntry] /\ w.d.e[a] = e
      /\ e \in DirEntry
  BY FieldTypes DEF At
<1>2. f \in DirEntry /\ f.sharers = e.sharers /\ f.owner = c /\ f.st = "M"
  BY <1>1 DEF DirEntry, Owning, Cores
<1> DEFINE h == [e EXCEPT !.owner = c]
           x == SetE(w, a, h)
<1>3. h \in DirEntry /\ f = [h EXCEPT !.st = "M"] /\ h = [e EXCEPT !.owner = c]
  BY <1>1 DEF DirEntry, Owning, Cores
<1>4. x = SetE(w, a, h)
  OBVIOUS
<1> HIDE DEF h, x
<1>5. x.d.e[a] = h /\ SetE(x, a, f) = SetE(w, a, f)
  BY <1>2, <1>3, <1>4, EntrySetTwice
<1>6. [w EXCEPT !.d.e[a].owner = c] = x
  BY <1>1, <1>3, <1>4 DEF SetE
<1>7. [x EXCEPT !.d.e[a].st = "M"] = SetE(x, a, f)
  BY <1>3, <1>5 DEF SetE
<1>8. MakeOwner(w, a, c) = [[w EXCEPT !.d.e[a].owner = c] EXCEPT !.d.e[a].st = "M"]
  BY DEF MakeOwner
<1> QED BY <1>2, <1>5, <1>6, <1>7, <1>8


(* What Ready gives at once. *)
LEMMA ReadyParts ==
  ASSUME NEW w, NEW rest, NEW a, NEW q, NEW e, NEW rep, Ready(w, rest, a, q, e, rep)
  PROVE  /\ Fine(w, rest) /\ At(w, a, q, e, rep) /\ HasEntry(w, a) /\ w.next = FALSE
         /\ q # <<>> /\ ~Head(q).wait /\ (Granted(q) => e.st = "S") /\ Calm(w, rest, a)
         /\ e.st \in {"U", "S", "E", "M"} /\ NoData \in Data /\ a \in Addrs /\ e \in DirEntry
<1>1. e \in DirEntry /\ a \in Addrs
  BY DEF Ready, At
<1> QED BY <1>1 DEF Ready, DirEntry, Data

LEMMA ExDone ==
  ASSUME NEW w, NEW rest, NEW a, NEW q, NEW e, NEW rep, Ready(w, rest, a, q, e, rep),
         Head(q).t = "EX_REQ", NEW buf \in Data,
         NEW z, z = processExReq(w, a, buf), z.err = NoFailure
  PROVE  w.err = NoFailure /\ Goes(z, rest, a)
<1> DEFINE c == Head(q).c
           cond == buf = NoData
           v == Assert_(w, cond, "data for a cached line")
           f == Granting(e, c, "M")
           y == SetE(w, a, f)
<1>1. c = Head(q).c /\ v = Assert_(w, cond, "data for a cached line")
  OBVIOUS
<1>2. /\ Fine(w, rest) /\ At(w, a, q, e, rep) /\ HasEntry(w, a) /\ w.next = FALSE
      /\ q # <<>> /\ ~Head(q).wait /\ (Granted(q) => e.st = "S") /\ Calm(w, rest, a)
      /\ e.st \in {"U", "S", "E", "M"} /\ NoData \in Data /\ a \in Addrs /\ e \in DirEntry
  BY ReadyParts
<1>3. FrontFacts(q, e, rep)
  BY ReadyFront
<1>4. c \in Llcs /\ ~Granted(q) /\ c \notin e.sharers
  BY <1>1, <1>3 DEF FrontFacts, Fetches
<1>5. FrontReq(w, a) = Head(q) /\ Dstate(w, a) = e.st /\ Sharers(w, a) = e.sharers /\ w.d.e[a] = e
  BY <1>2, AtFront
<1>6. CASE e.st \in {"E", "M"}
  <2>1. z = Send(v, e.owner, "FLUSH_REQ", a, NoData)
    BY <1>1, <1>5, <1>6 DEF processExReq
  <2> HIDE DEF c, cond, v, f, y
  <2>2. MayAsk(w, rest, a, q, e, "FLUSH_REQ", {e.owner})
    BY <1>1, <1>2, <1>4, <1>6 DEF MayAsk
  <2>3. "data for a cached line" \in Failures
    BY DEF Failures
  <2> QED BY <1>1, <1>2, <2>1, <2>2, <2>3, AskedChecked
<1>7. CASE e.st = "S"
  <2>1. z = SendAll(v, e.sharers, "INV_REQ", a)
    BY <1>1, <1>5, <1>7 DEF processExReq
  <2> HIDE DEF c, cond, v, f, y
  <2>2. MayAsk(w, rest, a, q, e, "INV_REQ", e.sharers)
    BY DEF MayAsk
  <2>3. "data for a cached line" \in Failures
    BY DEF Failures
  <2> QED BY <1>1, <1>2, <2>1, <2>2, <2>3, AskedAllChecked
<1>8. CASE e.st = "U"
  <2>1. z = retrieveDataAndSend(Grant(w, a, c, "M"), "EX_REP", c, a, buf)
    BY <1>1, <1>5, <1>8 DEF processExReq
  <2>7. f = Granting(e, c, "M") /\ y = SetE(w, a, f)
    OBVIOUS
  <2> HIDE DEF c, cond, v, f, y
  <2>2. Grant(w, a, c, "M") = y /\ f \in DirEntry /\ f.sharers = e.sharers \union {c} /\ f.owner = c /\ f.st = "M"
    BY <1>2, <1>4, <2>7, GrantIs
  <2>3. e.sharers = {}
    BY <1>3, <1>8 DEF FrontFacts
  <2>4. Grantable(q, e)
    BY <1>1, <1>2, <1>4, <1>8 DEF Grantable
  <2>5. Grants(q, e, f, "EX_REP")
    BY <1>1, <2>2, <2>3 DEF Grants, DataReps
  <2>6. z = retrieveDataAndSend(y, "EX_REP", c, a, buf)
    BY <2>1, <2>2
  <2> QED BY <1>1, <1>2, <2>4, <2>5, <2>6, <2>7, RetrievedNew
<1> QED BY <1>2, <1>6, <1>7, <1>8

LEMMA ShDone ==
  ASSUME NEW w, NEW rest, NEW a, NEW q, NEW e, NEW rep, Ready(w, rest, a, q, e, rep),
         Head(q).t = "SH_REQ", NEW buf \in Data,
         NEW z, z = processShReq(w, a, buf), z.err = NoFailure
  PROVE  w.err = NoFailure /\ Goes(z, rest, a)
<1> DEFINE c == Head(q).c
           cond == buf = NoData /\ (e.st = "E" => c # e.owner)
           v == Assert_(w, cond, "WB_REQ with data, or to the requester")
           one == IF w.one \in e.sharers THEN w.one ELSE CHOOSE x \in e.sharers : TRUE
<1>1. c = Head(q).c /\ v = Assert_(w, cond, "WB_REQ with data, or to the requester")
  OBVIOUS
<1>2. /\ Fine(w, rest) /\ At(w, a, q, e, rep) /\ HasEntry(w, a) /\ w.next = FALSE
      /\ q # <<>> /\ ~Head(q).wait /\ (Granted(q) => e.st = "S") /\ Calm(w, rest, a)
      /\ e.st \in {"U", "S", "E", "M"} /\ NoData \in Data /\ a \in Addrs /\ e \in DirEntry
  BY ReadyParts
<1>3. FrontFacts(q, e, rep)
  BY ReadyFront
<1>4. c \in Llcs /\ (~Granted(q) => c \notin e.sharers) /\ (Granted(q) => c \in e.sharers)
  BY <1>1, <1>3 DEF FrontFacts, Fetches
<1>5. FrontReq(w, a) = Head(q) /\ Dstate(w, a) = e.st /\ Sharers(w, a) = e.sharers /\ w.d.e[a] = e
  BY <1>2, AtFront
<1>6. CASE e.st \in {"E", "M"}
  <2>1. z = Send(v, e.owner, "WB_REQ", a, NoData)
    BY <1>1, <1>5, <1>6 DEF processShReq
  <2> HIDE DEF c, cond, v
  <2>2. MayAsk(w, rest, a, q, e, "WB_REQ", {e.owner})
    BY <1>2, <1>6 DEF MayAsk
  <2>3. "WB_REQ with data, or to the requester" \in Failures
    BY DEF Failures
  <2> QED BY <1>1, <1>2, <2>1, <2>2, <2>3, AskedChecked
<1>7. CASE e.st = "S" /\ c \in e.sharers
  <2>1. z = retrieveDataAndSend(w, "SH_REP", c, a, buf)
    BY <1>1, <1>5, <1>7 DEF processShReq
  <2> HIDE DEF c, cond, v, one
  <2>2. Granted(q)
    BY <1>4, <1>7
  <2> QED BY <1>1, <2>1, <2>2, RetrievedGranted
<1>8. CASE e.st = "S" /\ c \notin e.sharers /\ EntryFull(w, a)
  <2>1. z = Send(w, one, "INV_REQ", a, NoData)
    BY <1>1, <1>5, <1>8 DEF processShReq
  <2> HIDE DEF c, cond, v, one
  <2>2. MayAsk(w, rest, a, q, e, "INV_REQ", {one})
    BY DEF MayAsk
  <2> QED BY <1>1, <1>2, <2>1, <2>2, AskedOne
<1>9. CASE e.st = "S" /\ c \notin e.sharers /\ ~EntryFull(w, a)
  <2> DEFINE f == Sharing(e, c)
             y == SetE(w, a, f)
  <2>1. z = retrieveDataAndSend(addSharer(w, a, c), "SH_REP", c, a, buf)
    BY <1>1, <1>5, <1>9 DEF processShReq
  <2>2. f = Sharing(e, c) /\ y = SetE(w, a, f)
    OBVIOUS
  <2> HIDE DEF c, cond, v, one, f, y
  <2>3. addSharer(w, a, c) = y /\ f \in DirEntry /\ f.sharers = e.sharers \union {c} /\ f.st = e.st
    BY <1>2, <1>4, <2>2, SharingIs
  <2>4. Grantable(q, e)
    BY <1>1, <1>2, <1>4, <1>9 DEF Grantable
  <2>5. Grants(q, e, f, "SH_REP")
    BY <1>1, <1>9, <2>3 DEF Grants, DataReps
  <2>6. z = retrieveDataAndSend(y, "SH_REP", c, a, buf)
    BY <2>1, <2>3
  <2> QED BY <1>1, <1>2, <2>2, <2>4, <2>5, <2>6, RetrievedNew
<1>10. CASE e.st = "U" /\ Protocol = "msi"
  <2> DEFINE f == Granting(e, c, "S")
             y == SetE(w, a, f)
  <2>1. z = retrieveDataAndSend(Grant(w, a, c, "S"), "SH_REP", c, a, buf)
    BY <1>1, <1>5, <1>10 DEF processShReq
  <2>2. f = Granting(e, c, "S") /\ y = SetE(w, a, f)
    OBVIOUS
  <2> HIDE DEF c, cond, v, one, f, y
  <2>3. Grant(w, a, c, "S") = y /\ f \in DirEntry /\ f.sharers = e.sharers \union {c} /\ f.st = "S"
    BY <1>2, <1>4, <2>2, GrantIs
  <2>4. Grantable(q, e)
    BY <1>1, <1>2, <1>3, <1>4, <1>10 DEF Grantable, FrontFacts
  <2>5. Grants(q, e, f, "SH_REP")
    BY <1>1, <2>3 DEF Grants, DataReps
  <2>6. z = retrieveDataAndSend(y, "SH_REP", c, a, buf)
    BY <2>1, <2>3
  <2> QED BY <1>1, <1>2, <2>2, <2>4, <2>5, <2>6, RetrievedNew
<1>11. CASE e.st = "U" /\ Protocol # "msi"
  <2> DEFINE f == Granting(e, c, "E")
             y == SetE(w, a, f)
  <2>1. z = retrieveDataAndSend(Grant(w, a, c, "E"), "EX_REP", c, a, buf)
    BY <1>1, <1>5, <1>11 DEF processShReq
  <2>2. f = Granting(e, c, "E") /\ y = SetE(w, a, f)
    OBVIOUS
  <2> HIDE DEF c, cond, v, one, f, y
  <2>3. /\ Grant(w, a, c, "E") = y /\ f \in DirEntry /\ f.sharers = e.sharers \union {c} /\ f.st = "E"
        /\ f.owner = c
    BY <1>2, <1>4, <2>2, GrantIs
  <2>4. e.sharers = {}
    BY <1>3, <1>11 DEF FrontFacts
  <2>5. Grantable(q, e)
    BY <1>1, <1>2, <1>4, <1>11, <2>4 DEF Grantable
  <2>6. Grants(q, e, f, "EX_REP")
    BY <1>1, <2>3, <2>4 DEF Grants, DataReps
  <2>7. z = retrieveDataAndSend(y, "EX_REP", c, a, buf)
    BY <2>1, <2>3
  <2> QED BY <1>1, <1>2, <2>2, <2>5, <2>6, <2>7, RetrievedNew
<1> QED BY <1>2, <1>6, <1>7, <1>8, <1>9, <1>10, <1>11


(* The front request is answered with message m, and leaves entry f.             *)
Answers(q, e, f, m) ==
    /\ q # <<>> /\ Head(q).c \in Llcs
    /\ f \in DirEntry /\ f.sharers = e.sharers /\ f.st # "U" /\ (f.st = e.st \/ f.st = "M")
    /\ f.st \in {"E", "M"} => f.sharers = {f.owner}
    /\ \/ Granted(q) /\ m.t \in DataReps
       \/ ~Granted(q) /\ m.t = "UPGRADE_REP" /\ f.st = "M" /\ e.sharers = {Head(q).c}
    /\ m.t \in {"EX_REP", "UPGRADE_REP"} => f.st \in {"E", "M"}

LEMMA AnsweredFine ==
  ASSUME NEW w, NEW rest, NEW a, NEW q, NEW e, NEW rep, Fine(w, rest), At(w, a, q, e, rep),
         HasEntry(w, a), Calm(w, rest, a), NEW m \in ToCacheMsg, m.a = a,
         NEW f, Answers(q, e, f, m), NEW c, c = Head(q).c, NEW p, p = Tail(q),
         NEW z, At(z, a, p, f, <<>>), Apart(w, z, a), Sends(w, z, {c}, m),
         z.next = TRUE => p # <<>>
  PROVE  Goes(z, rest, a)
<1> DEFINE ss == Out(w)
           ss2 == Out(z)
           known == HasEntry(w, a)
<1>1. known = HasEntry(w, a) /\ ss = Out(w) /\ ss2 = Out(z) /\ known
  OBVIOUS
<1> HIDE DEF ss, ss2, known
<1>2. LineAt(w, rest, a, q, e, rep, known, ss)
  BY <1>1, FineLine
<1>3. LineOK(a, q, e, rep, known, ss, rest) /\ toCache \in [Llcs -> Seq(ToCacheMsg)]
  BY <1>2 DEF LineAt
<1>4. ss \in [Llcs -> Seq(ToCacheMsg)] /\ ss2 \in [Llcs -> Seq(ToCacheMsg)] /\ Joined(ss, ss2, {c}, m)
  BY <1>1, <1>3, OutJoined
<1>5. NoWriteBack(a, ss, rest)
  BY <1>1 DEF Calm
<1>6. /\ LineOK(a, Tail(q), f, <<>>, known, ss2, rest)
      /\ NoWriteBack(a, ss2, rest) /\ ~Granted(Tail(q))
  <2>1. Joined(ss, ss2, {Head(q).c}, m)
    BY <1>4
  <2>2. /\ q # <<>> /\ Head(q).c \in Llcs
        /\ f \in DirEntry /\ f.sharers = e.sharers /\ f.st # "U" /\ (f.st = e.st \/ f.st = "M")
        /\ f.st \in {"E", "M"} => f.sharers = {f.owner}
        /\ m.t \in {"EX_REP", "UPGRADE_REP"} => f.st \in {"E", "M"}
    BY DEF Answers
  <2>3. \/ Granted(q) /\ m.t \in DataReps
        \/ ~Granted(q) /\ m.t = "UPGRADE_REP" /\ f.st = "M" /\ e.sharers = {Head(q).c}
    BY DEF Answers
  <2> QED BY <1>1, <1>3, <1>4, <1>5, <2>1, <2>2, <2>3, LineAnswered
<1>7. LineOK(a, p, f, <<>>, known, ss2, rest)
  BY <1>6
<1>8. Fine(z, rest)
  BY <1>1, <1>7, ApartFine
<1>9. z.d.q[a] = p
  BY DEF At
<1> QED BY <1>1, <1>6, <1>8, <1>9 DEF Goes, Restart, Calm

LEMMA UpgradeGranted ==
  ASSUME NEW w, NEW rest, NEW a, NEW q, NEW e, NEW rep, Ready(w, rest, a, q, e, rep),
         Head(q).t = "UPGRADE_REQ", NEW c, c = Head(q).c, e.sharers = {c},
         NEW f, f = Owning(e, c), NEW y, y = SetE(w, a, f),
         NEW u, u = Send(y, c, "UPGRADE_REP", a, NoData),
         NEW v, At(v, a, q, f, rep), Apart(u, v, a), v.out = u.out, v.next = u.next,
         v.err = NoFailure => u.err = NoFailure,
         NEW z, z = processNextReq(v, a), z.err = NoFailure
  PROVE  w.err = NoFailure /\ Goes(z, rest, a)
<1> DEFINE m == Msg("UPGRADE_REP", a, NoData)
           p == Tail(q)
<1>1. m = Msg("UPGRADE_REP", a, NoData) /\ p = Tail(q)
  OBVIOUS
<1>2. /\ Fine(w, rest) /\ At(w, a, q, e, rep) /\ HasEntry(w, a) /\ w.next = FALSE
      /\ q # <<>> /\ ~Head(q).wait /\ (Granted(q) => e.st = "S") /\ Calm(w, rest, a)
      /\ e.st \in {"U", "S", "E", "M"} /\ NoData \in Data /\ a \in Addrs /\ e \in DirEntry
  BY ReadyParts
<1>3. m \in ToCacheMsg /\ m.a = a /\ m.t = "UPGRADE_REP"
  BY <1>2, Messages DEF Reps, DataReps
<1> HIDE DEF m, p
<1>4. FrontFacts(q, e, rep)
  BY ReadyFront
<1>5. c \in Llcs /\ ~Granted(q) /\ rep = <<>>
  BY <1>4 DEF FrontFacts
<1>6. f \in DirEntry /\ f.sharers = e.sharers /\ f.owner = c /\ f.st = "M"
  BY <1>2, <1>5, OwnedEntry
<1>7. At(y, a, q, f, rep) /\ Apart(w, y, a) /\ Quiet(w, y)
  BY <1>2, <1>6, AtEntry
<1>8. Apart(y, u, a) /\ Delivered(y, u, c, m)
  BY <1>1, <1>3, <1>7, AtSend
<1>9. At(z, a, p, f, rep) /\ Apart(v, z, a) /\ Finished(v, z, p)
  BY <1>1, <1>2, AtNext
<1>10. u.err = NoFailure
  BY <1>9 DEF Finished
<1>11. y.err = NoFailure /\ Sends(y, u, {c}, m)
  BY <1>8, <1>10 DEF Delivered
<1>12. w.err = NoFailure
  BY <1>7, <1>11 DEF Quiet
<1>13. Sends(w, u, {c}, m)
  BY <1>7, <1>11, SendsQuietly
<1>14. z.out = u.out /\ (z.next = TRUE => p # <<>>)
  BY <1>9 DEF Finished
<1>15. Sends(w, z, {c}, m)
  BY <1>13, <1>14, SendsBefore
<1>16. Apart(w, z, a)
  BY <1>7, <1>8, <1>9, ApartChain
<1>17. Answers(q, e, f, m)
  BY <1>2, <1>3, <1>5, <1>6 DEF Answers
<1>18. At(z, a, p, f, <<>>)
  BY <1>5, <1>9
<1>19. Goes(z, rest, a)
  BY <1>1, <1>2, <1>3, <1>14, <1>15, <1>16, <1>17, <1>18, AnsweredFine
<1> QED BY <1>12, <1>19


(* The first of a set of positions. *)
LEMMA LeastOf ==
  ASSUME NEW T, T \subseteq Nat, T # {}
  PROVE  Min(T) \in T /\ \A y \in T : Min(T) <= y
<1>1. IsWellFoundedOn(OpToRel(<, Nat), Nat)
  BY NatLessThanWellFounded
<1>2. \E x \in T : \A y \in T : ~ (<<y, x>> \in OpToRel(<, Nat))
  BY <1>1, WFMin
<1>3. PICK x \in T : \A y \in T : ~ (<<y, x>> \in OpToRel(<, Nat))
  BY <1>2
<1>4. \A y \in T : ~ (<<y, x>> \in {ss \in Nat \X Nat : ss[1] < ss[2]})
  BY <1>3, Zenon DEF OpToRel
<1>5. \A y \in T : ~(y < x)
  <2> TAKE y \in T
  <2>1. <<y, x>> \in Nat \X Nat /\ <<y, x>>[1] = y /\ <<y, x>>[2] = x
    OBVIOUS
  <2>2. ~ (<<y, x>> \in {ss \in Nat \X Nat : ss[1] < ss[2]})
    BY <1>4
  <2> QED BY <2>1, <2>2
<1>6. \A y \in T : x <= y
  BY <1>5
<1> QED BY <1>6, Zenon DEF Min

LEMMA MinOfOne ==
  ASSUME NEW x \in Nat PROVE Min({x}) = x
  BY DEF Min

LEMMA UpDone ==
  ASSUME NEW w, NEW rest, NEW a, NEW q, NEW e, NEW rep, Ready(w, rest, a, q, e, rep),
         Head(q).t = "UPGRADE_REQ", NEW buf \in Data,
         NEW z, z = processUpgradeReq(w, a, buf), z.err = NoFailure
  PROVE  w.err = NoFailure /\ Goes(z, rest, a)
<1> DEFINE c == Head(q).c
           f == Owning(e, c)
           y == SetE(w, a, f)
           u == Send(y, c, "UPGRADE_REP", a, NoData)
<1>1. c = Head(q).c /\ f = Owning(e, c) /\ y = SetE(w, a, f)
  OBVIOUS
<1>2. u = Send(y, c, "UPGRADE_REP", a, NoData)
  OBVIOUS
<1>3. /\ Fine(w, rest) /\ At(w, a, q, e, rep) /\ HasEntry(w, a) /\ w.next = FALSE
      /\ q # <<>> /\ ~Head(q).wait /\ (Granted(q) => e.st = "S") /\ Calm(w, rest, a)
      /\ e.st \in {"U", "S", "E", "M"} /\ NoData \in Data /\ a \in Addrs /\ e \in DirEntry
  BY ReadyParts
<1>4. FrontFacts(q, e, rep)
  BY ReadyFront
<1>5. c \in Llcs /\ ~Granted(q) /\ Head(q).buf \in Data
  BY <1>1, <1>4 DEF FrontFacts, DirReq
<1>6. FrontReq(w, a) = Head(q) /\ Dstate(w, a) = e.st /\ Sharers(w, a) = e.sharers /\ w.d.e[a] = e
  BY <1>3, AtFront
<1>7. MakeOwner(w, a, c) = y
  BY <1>1, <1>3, <1>5, OwningIs
<1>8. f \in DirEntry /\ f.sharers = e.sharers /\ f.owner = c /\ f.st = "M"
  BY <1>1, <1>3, <1>5, OwnedEntry
<1>9. Send([w EXCEPT !.d.e[a].owner = c, !.d.e[a].st = "M"], c, "UPGRADE_REP", a, NoData) = u
  BY <1>7 DEF MakeOwner
<1>10. At(u, a, q, f, rep)
  <2> DEFINE m == Msg("UPGRADE_REP", a, NoData)
  <2>1. m \in ToCacheMsg /\ m = Msg("UPGRADE_REP", a, NoData)
    BY <1>3, Messages DEF Reps, DataReps
  <2> HIDE DEF m, c, f, y, u
  <2>2. At(y, a, q, f, rep)
    BY <1>1, <1>3, <1>8, AtEntry
  <2> QED BY <1>2, <2>1, <2>2, AtSend
<1>11. CASE e.st \in {"E", "M"} /\ e.owner = c
  <2> DEFINE cond == w.d.e[a].owner = c
             v == Assert_(u, cond, "upgrade by no owner")
  <2>1. e.sharers = {c}
    BY <1>4, <1>11 DEF FrontFacts
  <2>2. Min(Sharers(w, a)) = c
    BY <1>5, <1>6, <2>1, MinOfOne, DirectoryAssumption
  <2>3. z = processNextReq(v, a)
    BY <1>6, <1>9, <1>11, <2>2 DEF processUpgradeReq
  <2>4. v = Assert_(u, cond, "upgrade by no owner")
    OBVIOUS
  <2> HIDE DEF c, f, y, u, cond, v
  <2>5. "upgrade by no owner" \in Failures
    BY DEF Failures
  <2>6. At(v, a, q, f, rep) /\ Apart(u, v, a) /\ Checked(u, v, cond)
    BY <1>10, <2>4, <2>5, AtAssert
  <2>7. v.out = u.out /\ v.next = u.next /\ (v.err = NoFailure => u.err = NoFailure)
    BY <2>6 DEF Checked
  <2> QED BY <1>1, <1>2, <2>1, <2>3, <2>6, <2>7, UpgradeGranted
<1>12. CASE e.st \in {"E", "M"} /\ e.owner # c
  <2>1. e.sharers = {e.owner} /\ e.owner \in Nat
    <3>1. e.sharers = {e.owner} /\ e.sharers \subseteq Llcs
      BY <1>3, <1>4, <1>12 DEF FrontFacts, DirEntry
    <3> QED BY <3>1, DirectoryAssumption
  <2>2. Min(Sharers(w, a)) # c
    BY <1>6, <1>12, <2>1, MinOfOne
  <2>3. z = Send(w, e.owner, "FLUSH_REQ", a, NoData)
    BY <1>6, <1>12, <2>2 DEF processUpgradeReq
  <2> HIDE DEF c, f, y, u
  <2>4. MayAsk(w, rest, a, q, e, "FLUSH_REQ", {e.owner})
    BY <1>1, <1>3, <1>12 DEF MayAsk
  <2> QED BY <1>3, <2>3, <2>4, AskedOne
<1>13. CASE e.st = "S" /\ e.sharers = {c}
  <2>1. z = processNextReq(u, a)
    BY <1>6, <1>9, <1>13 DEF processUpgradeReq, UpgradeDone
  <2> HIDE DEF c, f, y, u
  <2>2. Apart(u, u, a)
    BY <1>10 DEF Apart, At
  <2> QED BY <1>1, <1>2, <1>10, <1>13, <2>1, <2>2, UpgradeGranted
<1>14. CASE e.st = "S" /\ e.sharers # {c} /\ c \in e.sharers
  <2>1. z = SendAll(w, e.sharers \ {c}, "INV_REQ", a)
    BY <1>6, <1>14 DEF processUpgradeReq, UpgradeDone, InvalidateOthers
  <2> HIDE DEF c, f, y, u
  <2>2. MayAsk(w, rest, a, q, e, "INV_REQ", e.sharers \ {c})
    BY DEF MayAsk
  <2>3. Passed(w, z) /\ Goes(z, rest, a)
    BY <1>3, <2>1, <2>2, AskedAll
  <2> QED BY <2>3 DEF Passed
<1>15. CASE e.st = "S" /\ e.sharers # {c} /\ c \notin e.sharers
  <2> DEFINE others == e.sharers \ {c}
             first == Min(others)
             cs == others \ {first}
             v == SendAll(w, cs, "INV_REQ", a)
  <2>1. z = Send(v, first, "FLUSH_REQ", a, NoData)
    BY <1>6, <1>15 DEF processUpgradeReq, UpgradeDone, InvalidateOthers
  <2>2. v = SendAll(w, cs, "INV_REQ", a)
    OBVIOUS
  <2> HIDE DEF c, f, y, u, others, first, cs, v
  <2>3. MayAsk(w, rest, a, q, e, "INV_REQ", cs)
    BY DEF MayAsk
  <2>4. At(v, a, q, e, rep) /\ Passed(w, v) /\ Goes(v, rest, a)
    BY <1>3, <2>2, <2>3, AskedAll
  <2>5. Fine(v, rest) /\ v.err = w.err /\ v.next = FALSE
    BY <2>4 DEF Goes, Passed
  <2>6. MayAsk(v, rest, a, q, e, "FLUSH_REQ", {first})
    BY <1>1, <1>3, <1>15 DEF MayAsk, UpgradeWithoutCopy
  <2>7. v.err = NoFailure /\ Goes(z, rest, a)
    BY <2>1, <2>4, <2>5, <2>6, AskedOne
  <2> QED BY <2>5, <2>7
<1>16. CASE e.st = "U"
  <2> DEFINE data == IF buf = NoData THEN Head(q).buf ELSE buf
             g == Granting(e, c, "M")
             x == SetE(w, a, g)
  <2>1. z = retrieveDataAndSend(Grant(w, a, c, "M"), "EX_REP", c, a, data)
    BY <1>6, <1>16 DEF processUpgradeReq
  <2>2. g = Granting(e, c, "M") /\ x = SetE(w, a, g) /\ data \in Data
    BY <1>5
  <2> HIDE DEF c, f, y, u, data, g, x
  <2>3. /\ Grant(w, a, c, "M") = x /\ g \in DirEntry /\ g.sharers = e.sharers \union {c}
        /\ g.owner = c /\ g.st = "M"
    BY <1>3, <1>5, <2>2, GrantIs
  <2>4. e.sharers = {}
    BY <1>4, <1>16 DEF FrontFacts
  <2>5. Grantable(q, e)
    BY <1>1, <1>3, <1>5, <1>16, <2>4 DEF Grantable
  <2>6. Grants(q, e, g, "EX_REP")
    BY <1>1, <2>3, <2>4 DEF Grants, DataReps
  <2>7. z = retrieveDataAndSend(x, "EX_REP", c, a, data)
    BY <2>1, <2>3
  <2> QED BY <1>1, <1>3, <2>2, <2>5, <2>6, <2>7, RetrievedNew
<1> QED BY <1>3, <1>11, <1>12, <1>13, <1>14, <1>15, <1>16


-----------------------------------------------------------------------------
(* A replaced entry: its copies are called back; once there are none it is gone. *)
Nullified(w, z, a, q) == /\ w.err = NoFailure /\ OnlyAt(w, z, a)
                         /\ z.next = TRUE => Tail(q) # <<>>

(* The entry at a is put aside no more. *)
Dropped(w, a) == [w EXCEPT !.d.replaced = @ \ {a}]
OthersAs(w, z, a) ==
    \A b \in Addrs \ {a} :
        z.d.q[b] = w.d.q[b] /\ z.d.e[b] = w.d.e[b] /\ z.d.reply[b] = w.d.reply[b]
DropsOnly(w, z, a) == /\ Quiet(w, z) /\ z.d.slots = w.d.slots
                      /\ z.d.replaced = w.d.replaced \ {a} /\ OthersAs(w, z, a)

LEMMA DroppedSet ==
  ASSUME NEW w, NEW a, NEW q, NEW e, NEW rep, At(w, a, q, e, rep),
         NEW z, z = Dropped(w, a)
  PROVE  At(z, a, q, e, rep) /\ DropsOnly(w, z, a)
<1> DEFINE d == [w.d EXCEPT !.replaced = @ \ {a}]
<1>1. w \in Works /\ w.d \in Directory
  BY FieldTypes DEF At
<1>2. /\ d \in Directory /\ d.q = w.d.q /\ d.e = w.d.e /\ d.reply = w.d.reply /\ d.slots = w.d.slots
      /\ d.replaced = w.d.replaced \ {a}
  BY <1>1 DEF Directory
<1>3. z = [w EXCEPT !.d = d]
  BY DEF Dropped
<1> HIDE DEF d
<1>4. /\ z \in Works /\ z.d = d /\ z.out = w.out /\ z.err = w.err /\ z.next = w.next
      /\ z.victim = w.victim /\ z.one = w.one
  BY <1>1, <1>2, <1>3, DirectorySet
<1> QED BY <1>2, <1>4 DEF At, Quiet, DropsOnly, OthersAs

LEMMA NullifyDone ==
  ASSUME NEW w, NEW rest, NEW a, NEW q, NEW e, NEW rep, Ready(w, rest, a, q, e, rep),
         Head(q).t = "NULLIFY_REQ",
         NEW z, z = processNullifyReq(w, a), z.err = NoFailure
  PROVE  Goes(z, rest, a) /\ Nullified(w, z, a, q)
<1>1. /\ Fine(w, rest) /\ At(w, a, q, e, rep) /\ HasEntry(w, a) /\ w.next = FALSE
      /\ q # <<>> /\ ~Head(q).wait /\ (Granted(q) => e.st = "S") /\ Calm(w, rest, a)
      /\ e.st \in {"U", "S", "E", "M"} /\ NoData \in Data /\ a \in Addrs /\ e \in DirEntry
  BY ReadyParts
<1>2. FrontFacts(q, e, rep)
  BY ReadyFront
<1>3. Dstate(w, a) = e.st /\ Sharers(w, a) = e.sharers /\ w.d.e[a] = e
  BY <1>1, AtFront
<1>4. Head(q).c \notin Llcs
  <2>1. 1 \in DOMAIN q /\ Head(q) = q[1]
    BY <1>1, <1>2, Popped DEF FrontFacts
  <2>2. q[1].c = NoCore
    BY <1>2, <2>1 DEF FrontFacts, FrontWaits
  <2> QED BY <2>1, <2>2, NoCoreIsNone
<1>5. CASE e.st \in {"E", "M"}
  <2>1. z = Send(w, e.owner, "FLUSH_REQ", a, NoData)
    BY <1>3, <1>5 DEF processNullifyReq
  <2>2. MayAsk(w, rest, a, q, e, "FLUSH_REQ", {e.owner})
    BY <1>1, <1>4, <1>5 DEF MayAsk, DirEntry
  <2>3. w.err = NoFailure /\ Goes(z, rest, a) /\ Local(w, z, a)
    BY <1>1, <2>1, <2>2, AskedOne
  <2> QED BY <2>3 DEF Local, Nullified
<1>6. CASE e.st = "S"
  <2>1. z = SendAll(w, e.sharers, "INV_REQ", a)
    BY <1>3, <1>6 DEF processNullifyReq
  <2>2. MayAsk(w, rest, a, q, e, "INV_REQ", e.sharers)
    BY DEF MayAsk
  <2>3. Passed(w, z) /\ Goes(z, rest, a) /\ Local(w, z, a)
    BY <1>1, <2>1, <2>2, AskedAll
  <2> QED BY <2>3 DEF Local, Nullified, Passed
<1>7. CASE e.st = "U"
  <2> DEFINE v == Dropped(w, a)
             cond == a \in w.d.replaced
             u == Assert_(v, cond, "invalidateDirectoryEntry")
             p == Tail(q)
             known == HasEntry(w, a)
             still == HasEntry(z, a)
             ss == Out(w)
  <2>1. z = processNextReq(u, a)
    BY <1>3, <1>7 DEF processNullifyReq, Dropped
  <2>2. v = Dropped(w, a) /\ p = Tail(q)
    OBVIOUS
  <2>3. u = Assert_(v, cond, "invalidateDirectoryEntry")
    OBVIOUS
  <2>4. known = HasEntry(w, a) /\ still = HasEntry(z, a) /\ ss = Out(w)
    OBVIOUS
  <2> HIDE DEF v, cond, u, p, known, still, ss
  <2>5. At(v, a, q, e, rep) /\ DropsOnly(w, v, a)
    BY <1>1, <2>2, DroppedSet
  <2>6. "invalidateDirectoryEntry" \in Failures
    BY DEF Failures
  <2>7. At(u, a, q, e, rep) /\ Apart(v, u, a) /\ Checked(v, u, cond)
    BY <2>3, <2>5, <2>6, AtAssert
  <2>8. At(z, a, p, e, rep) /\ Apart(u, z, a) /\ Finished(u, z, p)
    BY <1>1, <2>1, <2>2, <2>7, AtNext
  <2>9. u.err = NoFailure
    BY <2>8 DEF Finished
  <2>10. u = v /\ v.err = NoFailure
    BY <2>7, <2>9 DEF Checked
  <2>11. w.err = NoFailure /\ z.out = w.out /\ (z.next = TRUE => p # <<>>)
    BY <2>5, <2>8, <2>10 DEF Quiet, Finished, DropsOnly
  <2>12. LineAt(w, rest, a, q, e, rep, known, ss)
    BY <1>1, <2>4, FineLine
  <2>13. LineOK(a, q, e, rep, known, ss, rest) /\ toCache \in [Llcs -> Seq(ToCacheMsg)]
    BY <2>12 DEF LineAt
  <2>14. /\ LineOK(a, Tail(q), e, rep, still, ss, rest)
         /\ NoWriteBack(a, ss, rest) /\ ~Granted(Tail(q))
    BY <1>1, <1>7, <2>13, LineNullified
  <2>15. Out(z) = ss
    BY <2>4, <2>11, OutSame
  <2>16. FineAt(z, rest, a)
    BY <2>2, <2>4, <2>8, <2>14, <2>15 DEF FineAt, At
  <2>17. OnlyAt(w, z, a)
    <3>1. z \in Works /\ w \in Works
      BY <1>1, <2>8 DEF At
    <3>2. z.d.slots = w.d.slots /\ z.d.replaced = w.d.replaced \ {a}
      BY <2>5, <2>8, <2>10 DEF Apart, DropsOnly, OthersAs
    <3>3. \A b \in Addrs \ {a} :
              z.d.q[b] = w.d.q[b] /\ z.d.e[b] = w.d.e[b] /\ z.d.reply[b] = w.d.reply[b]
      BY <2>5, <2>8, <2>10 DEF Apart, DropsOnly, OthersAs
    <3>4. \A k \in Llcs : \A b \in Addrs \ {a} : Alike(Out(w)[k], Out(z)[k], b)
      BY <2>4, <2>15, AlikeSelf
    <3> QED BY <3>1, <3>2, <3>3, <3>4 DEF OnlyAt
  <2>18. Fine(z, rest)
    BY <1>1, <2>16, <2>17, OnlyAtFine
  <2>19. z.d.q[a] = p
    BY <2>8 DEF At
  <2>20. Goes(z, rest, a)
    BY <2>2, <2>11, <2>14, <2>15, <2>18, <2>19 DEF Goes, Restart, Calm
  <2> QED BY <2>2, <2>11, <2>17, <2>20 DEF Nullified
<1> QED BY <1>1, <1>5, <1>6, <1>7


-----------------------------------------------------------------------------
(* An entry is claimed. *)
Claimed(w, a) == [w EXCEPT !.d.slots = @ \union {a}, !.d.e[a] = NewEntry(w.d.junk)]
Blank(f, e) == f \in DirEntry /\ f.st = e.st /\ f.sharers = e.sharers
ClaimsOnly(w, z, a, f) ==
    /\ Quiet(w, z) /\ z.d.slots = w.d.slots \union {a} /\ z.d.replaced = w.d.replaced
    /\ OthersAs(w, z, a) /\ f.st = "U" /\ f.sharers = {}

LEMMA ClaimedSet ==
  ASSUME NEW w, NEW a, NEW q, NEW e, NEW rep, At(w, a, q, e, rep),
         NEW f, f = NewEntry(w.d.junk), NEW z, z = Claimed(w, a)
  PROVE  At(z, a, q, f, rep) /\ ClaimsOnly(w, z, a, f)
<1> DEFINE es == [w.d.e EXCEPT ![a] = f]
           d1 == [w.d EXCEPT !.slots = @ \union {a}]
           d == [d1 EXCEPT !.e = es]
<1>1. w \in Works /\ w.d \in Directory /\ a \in Addrs /\ w.d.e \in [Addrs -> DirEntry] /\ w.d.junk \in Cores
  BY FieldTypes DEF At
<1>2. f \in DirEntry /\ f.st = "U" /\ f.sharers = {}
  BY <1>1 DEF DirEntry, NewEntry, Cores
<1>3. es \in [Addrs -> DirEntry] /\ es[a] = f /\ \A b \in Addrs \ {a} : es[b] = w.d.e[b]
  BY <1>1, <1>2
<1> HIDE DEF es
<1>4. /\ d1 \in Directory /\ d1.q = w.d.q /\ d1.e = w.d.e /\ d1.reply = w.d.reply
      /\ d1.slots = w.d.slots \union {a} /\ d1.replaced = w.d.replaced
  BY <1>1 DEF Directory
<1>5. d = [d1 EXCEPT !.e = es]
  OBVIOUS
<1>6. /\ d \in Directory /\ d.q = w.d.q /\ d.e = es /\ d.reply = w.d.reply
      /\ d.slots = w.d.slots \union {a} /\ d.replaced = w.d.replaced
  <2> HIDE DEF d1, d
  <2> QED BY <1>3, <1>4, <1>5 DEF Directory
<1>7. z = [w EXCEPT !.d = d]
  <2>1. [w EXCEPT !.d.slots = @ \union {a}] = [w EXCEPT !.d = d1]
    OBVIOUS
  <2> DEFINE y == [w EXCEPT !.d = d1]
  <2>2. z = [y EXCEPT !.d.e[a] = f]
    BY <2>1 DEF Claimed
  <2>3. y = [w EXCEPT !.d = d1]
    OBVIOUS
  <2> HIDE DEF d1, d, y
  <2>4. y.d = d1 /\ y \in Works
    BY <1>1, <1>4, <2>3 DEF Works
  <2>5. z = [y EXCEPT !.d = [y.d EXCEPT !.e = [y.d.e EXCEPT ![a] = f]]]
    BY <2>2
  <2>6. [y.d EXCEPT !.e = [y.d.e EXCEPT ![a] = f]] = d
    BY <1>4, <1>5, <2>4 DEF es
  <2>7. z = [y EXCEPT !.d = d]
    BY <2>5, <2>6
  <2> QED BY <1>1, <2>3, <2>7 DEF Works
<1> HIDE DEF d1, d
<1>8. /\ z \in Works /\ z.d = d /\ z.out = w.out /\ z.err = w.err /\ z.next = w.next
      /\ z.victim = w.victim /\ z.one = w.one
  BY <1>1, <1>6, <1>7, DirectorySet
<1> QED BY <1>1, <1>2, <1>3, <1>6, <1>8 DEF At, Quiet, ClaimsOnly, OthersAs

(* getDirectoryEntry: the line may have an entry afterwards, and has one if it   *)
(* had one; if not, all slots are taken.                                     *)
Got(w, z, a, q, e, rep, f) ==
    /\ At(z, a, q, f, rep) /\ Blank(f, e) /\ Quiet(w, z) /\ OthersAs(w, z, a)
    /\ HasEntry(w, a) => z = w /\ f = e
    /\ ~HasEntry(z, a) => z = w /\ f = e /\ Cardinality(w.d.slots) >= DirWays

LEMMA SlotsClaimed ==
  ASSUME NEW d, NEW a, SlotsInv(d), Cardinality(d.slots) < DirWays, a \notin d.slots,
         sys \in Systems, NEW g, g.slots = d.slots \union {a}, g.replaced = d.replaced
  PROVE  SlotsInv(g) /\ d.replaced = {}
<1>1. IsFiniteSet(d.slots) /\ (d.replaced # {} => Cardinality(d.slots) >= DirWays)
  BY DEF SlotsInv
<1>2. DirWays \in Nat
  BY DirectoryAssumption DEF DirWays
<1>3. Cardinality(d.slots) \in Nat
  BY <1>1, FS_CardinalityType
<1>4. d.replaced = {}
  BY <1>1, <1>2, <1>3
<1>5. IsFiniteSet(g.slots)
  BY <1>1, FS_AddElement
<1> QED BY <1>4, <1>5 DEF SlotsInv

LEMMA EntryGot ==
  ASSUME NEW w, NEW rest, NEW a, NEW q, NEW e, NEW rep, Fine(w, rest), At(w, a, q, e, rep),
         sys \in Systems, NEW z, z = getDirectoryEntry(w, a)
  PROVE  Fine(z, rest) /\ \E f : Got(w, z, a, q, e, rep, f)
<1> DEFINE ss == Out(w)
           known == HasEntry(w, a)
<1>1. known = HasEntry(w, a) /\ ss = Out(w) /\ w \in Works /\ a \in Addrs /\ e \in DirEntry
  BY DEF At
<1> HIDE DEF ss, known
<1>2. LineAt(w, rest, a, q, e, rep, known, ss)
  BY <1>1, FineLine
<1>3. LineOK(a, q, e, rep, known, ss, rest) /\ LineInv(q, e, rep, known)
      /\ toCache \in [Llcs -> Seq(ToCacheMsg)] /\ rest \in [Llcs -> Seq(ToDirMsg)]
  BY <1>2 DEF LineAt, LineOK
<1>4. IsFiniteSet(w.d.slots) /\ SlotsInv(w.d)
      /\ (w.d.replaced # {} => Cardinality(w.d.slots) >= DirWays)
  BY DEF Fine, SlotsInv
<1>5. Cardinality(w.d.slots) \in Nat /\ DirWays \in Nat
  BY <1>4, FS_CardinalityType, DirectoryAssumption DEF DirWays
<1>6. CASE a \in w.d.slots \/ Cardinality(w.d.slots) >= DirWays
  <2>1. z = w
    BY <1>6 DEF getDirectoryEntry
  <2>2. OthersAs(w, z, a) /\ Quiet(w, z)
    BY <2>1 DEF OthersAs, Quiet
  <2>3. ~HasEntry(z, a) => Cardinality(w.d.slots) >= DirWays
    BY <1>6, <2>1 DEF HasEntry
  <2>4. Got(w, z, a, q, e, rep, e)
    BY <1>1, <2>1, <2>2, <2>3 DEF Got, Blank
  <2> QED BY <2>1, <2>4
<1>7. CASE ~(a \in w.d.slots \/ Cardinality(w.d.slots) >= DirWays)
  <2> DEFINE f == NewEntry(w.d.junk)
  <2>1. z = Claimed(w, a) /\ f = NewEntry(w.d.junk)
    BY <1>7 DEF getDirectoryEntry, Claimed
  <2> HIDE DEF f
  <2>2. At(z, a, q, f, rep) /\ ClaimsOnly(w, z, a, f)
    BY <2>1, ClaimedSet
  <2>3. SlotsInv(z.d) /\ w.d.replaced = {}
    <3>1. Cardinality(w.d.slots) < DirWays /\ a \notin w.d.slots
      BY <1>5, <1>7
    <3>2. z.d.slots = w.d.slots \union {a} /\ z.d.replaced = w.d.replaced
      BY <2>2 DEF ClaimsOnly
    <3> QED BY <1>4, <3>1, <3>2, SlotsClaimed
  <2>4. ~HasEntry(w, a) /\ HasEntry(z, a)
    BY <1>7, <2>2, <2>3 DEF HasEntry, ClaimsOnly
  <2>5. e.st = "U" /\ e.sharers = {}
    BY <1>1, <1>3, <2>4 DEF LineInv
  <2>6. f \in DirEntry /\ f.st = "U" /\ f.sharers = {}
    BY <2>2 DEF At, ClaimsOnly
  <2>7. Out(z) = ss
    BY <1>1, <2>2, OutSame DEF ClaimsOnly, Quiet
  <2> DEFINE still == HasEntry(z, a)
  <2>8. still = HasEntry(z, a) /\ still
    BY <2>4
  <2> HIDE DEF still
  <2>9. \A k \in Llcs : Alike(ss[k], ss[k], a) /\ Alike(rest[k], rest[k], a)
    BY AlikeSelf
  <2>10. LineOK(a, q, f, rep, still, ss, rest)
    <3>1. /\ f \in DirEntry /\ f.st = e.st /\ f.sharers = e.sharers
          /\ f.st \in {"E", "M"} => f.owner = e.owner
          /\ ~still => ~known \/ e.st = "U"
      BY <2>5, <2>6
    <3>2. LineOK(a, q, e, rep, known, ss, rest)
      BY <1>3
    <3> QED BY <2>9, <3>1, <3>2, LineAlike
  <2>11. FineAt(z, rest, a)
    BY <2>2, <2>7, <2>8, <2>10 DEF FineAt, At
  <2>12. ASSUME NEW b \in Addrs, b # a PROVE FineAt(z, rest, b)
    <3>1. FineAt(w, rest, b)
      BY DEF Fine
    <3>2. z.d.q[b] = w.d.q[b] /\ z.d.e[b] = w.d.e[b] /\ z.d.reply[b] = w.d.reply[b]
      BY <2>2, <2>12 DEF ClaimsOnly, OthersAs
    <3>3. HasEntry(z, b) = HasEntry(w, b)
      BY <2>2, <2>12 DEF ClaimsOnly, HasEntry
    <3> QED BY <1>1, <2>7, <3>1, <3>2, <3>3 DEF FineAt
  <2>13. Fine(z, rest)
    BY <1>3, <2>2, <2>3, <2>11, <2>12 DEF Fine, At
  <2>14. Got(w, z, a, q, e, rep, f)
    BY <2>2, <2>4, <2>5, <2>6 DEF Got, Blank, ClaimsOnly
  <2> QED BY <2>13, <2>14
<1> QED BY <1>6, <1>7


-----------------------------------------------------------------------------
(* An entry is replaced. *)
Moved(w, v, a) == [w EXCEPT !.d.slots = (@ \ {v}) \union {a}, !.d.replaced = @ \union {v}]
Nullify == Request("NULLIFY_REQ", NoCore)

MovesOnly(w, z, v, a) ==
    /\ z \in Works /\ Quiet(w, z)
    /\ z.d.slots = (w.d.slots \ {v}) \union {a} /\ z.d.replaced = w.d.replaced \union {v}
    /\ z.d.e = w.d.e /\ z.d.q = w.d.q /\ z.d.reply = w.d.reply

LEMMA MovedSet ==
  ASSUME NEW w \in Works, NEW a \in Addrs, NEW v \in Addrs, NEW z, z = Moved(w, v, a)
  PROVE  MovesOnly(w, z, v, a)
<1> DEFINE d1 == [w.d EXCEPT !.slots = (@ \ {v}) \union {a}]
           d == [d1 EXCEPT !.replaced = @ \union {v}]
           y == [w EXCEPT !.d = d1]
<1>1. w.d \in Directory
  BY FieldTypes
<1>2. /\ d1 \in Directory /\ d1.q = w.d.q /\ d1.e = w.d.e /\ d1.reply = w.d.reply
      /\ d1.slots = (w.d.slots \ {v}) \union {a} /\ d1.replaced = w.d.replaced
  BY <1>1 DEF Directory
<1>3. /\ z = [y EXCEPT !.d = [y.d EXCEPT !.replaced = @ \union {v}]]
      /\ y = [w EXCEPT !.d = d1] /\ d = [d1 EXCEPT !.replaced = @ \union {v}]
  BY DEF Moved
<1> HIDE DEF d1, d, y
<1>4. y \in Works /\ y.d = d1
  BY <1>2, <1>3, DirectorySet
<1>5. /\ d \in Directory /\ d.q = w.d.q /\ d.e = w.d.e /\ d.reply = w.d.reply
      /\ d.slots = (w.d.slots \ {v}) \union {a} /\ d.replaced = w.d.replaced \union {v}
  BY <1>2, <1>3 DEF Directory
<1>6. z = [y EXCEPT !.d = d]
  BY <1>3, <1>4
<1>7. z = [w EXCEPT !.d = d]
  BY <1>3, <1>6 DEF Works
<1>8. /\ z \in Works /\ z.d = d /\ z.out = w.out /\ z.err = w.err /\ z.next = w.next
      /\ z.victim = w.victim /\ z.one = w.one
  BY <1>5, <1>7, DirectorySet
<1> QED BY <1>5, <1>8 DEF MovesOnly, Quiet

(* The directory after the replacement: line a has a new entry, line v a request. *)
ReplacesOnly(w, x, v, a, f) ==
    /\ x \in Works /\ Quiet(w, x)
    /\ x.d.slots = (w.d.slots \ {v}) \union {a} /\ x.d.replaced = w.d.replaced \union {v}
    /\ x.d.reply = w.d.reply
    /\ x.d.e[a] = f /\ f \in DirEntry /\ f.st = "U" /\ f.sharers = {}
    /\ \A b \in Addrs \ {a} : x.d.e[b] = w.d.e[b]
    /\ x.d.q[v] = Append(w.d.q[v], Nullify)
    /\ \A b \in Addrs \ {v} : x.d.q[b] = w.d.q[b]

LEMMA NullifyType ==
  Nullify \in DirReq /\ ~Nullify.wait /\ Nullify.from = NoCore /\ Nullify.c = NoCore
  /\ Nullify.t = "NULLIFY_REQ"
BY DEF Nullify, Request, DirReq, Cores, Data

LEMMA ReplaceSet ==
  ASSUME NEW w \in Works, NEW a \in Addrs, NEW v \in Addrs,
         NEW f, f = NewEntry(w.d.junk), NEW x, x = Replace(w, v, a)
  PROVE  ReplacesOnly(w, x, v, a, f)
<1> DEFINE y == Moved(w, v, a)
           z == SetE(y, a, f)
           p == Append(w.d.q[v], Nullify)
<1>1. y = Moved(w, v, a) /\ z = SetE(y, a, f) /\ p = Append(w.d.q[v], Nullify)
  OBVIOUS
<1>2. x = [[y EXCEPT !.d.e[a] = f] EXCEPT !.d.q[v] = Append(@, Nullify)]
  BY DEF Replace, Moved, Nullify
<1> HIDE DEF y, z, p
<1>3. f \in DirEntry /\ f.st = "U" /\ f.sharers = {}
  BY FieldTypes DEF DirEntry, NewEntry, Cores
<1>4. MovesOnly(w, y, v, a)
  BY <1>1, MovedSet
<1>5. y \in Works /\ y.d.e = w.d.e /\ y.d.q = w.d.q /\ y.d.reply = w.d.reply /\ Quiet(w, y)
      /\ y.d.slots = (w.d.slots \ {v}) \union {a} /\ y.d.replaced = w.d.replaced \union {v}
  BY <1>4 DEF MovesOnly
<1>6. /\ Kept(y, z) /\ z.d.e = [w.d.e EXCEPT ![a] = f] /\ z.d.q = w.d.q
      /\ z.d.reply = w.d.reply /\ z.d.slots = y.d.slots /\ z.d.replaced = y.d.replaced
      /\ z.out = y.out /\ z.err = y.err /\ z.next = y.next
  BY <1>1, <1>3, <1>5, EntrySet
<1>7. z \in Works /\ z.d.q[v] = w.d.q[v]
  BY <1>6 DEF Kept
<1>8. p \in Seq(DirReq)
  BY <1>1, FieldTypes, NullifyType
<1>9. x = SetQ(z, v, p)
  BY <1>1, <1>2, <1>7 DEF SetE, SetQ
<1>10. /\ Kept(z, x) /\ x.d.e = z.d.e /\ x.d.q = [z.d.q EXCEPT ![v] = p]
       /\ x.d.reply = z.d.reply /\ x.d.slots = z.d.slots /\ x.d.replaced = z.d.replaced
       /\ x.out = z.out /\ x.err = z.err /\ x.next = z.next
  BY <1>7, <1>8, <1>9, QueueSet
<1>11. x \in Works /\ Quiet(w, x)
  BY <1>5, <1>6, <1>10 DEF Kept, Quiet
<1>12. x.d.e = [w.d.e EXCEPT ![a] = f] /\ x.d.q = [w.d.q EXCEPT ![v] = p]
  BY <1>6, <1>10
<1>13. w.d.e \in [Addrs -> DirEntry] /\ w.d.q \in [Addrs -> Seq(DirReq)]
  BY FieldTypes
<1> QED BY <1>1, <1>3, <1>5, <1>6, <1>10, <1>11, <1>12, <1>13 DEF ReplacesOnly

LEMMA SlotsMoved ==
  ASSUME NEW d, NEW a, NEW v, SlotsInv(d), Cardinality(d.slots) >= DirWays, a \notin d.slots,
         v \in d.slots, NEW g, g.slots = (d.slots \ {v}) \union {a}
  PROVE  SlotsInv(g)
<1>1. IsFiniteSet(d.slots)
  BY DEF SlotsInv
<1>2. IsFiniteSet(d.slots \ {v}) /\ Cardinality(d.slots \ {v}) = Cardinality(d.slots) - 1
  BY <1>1, FS_RemoveElement
<1>3. /\ IsFiniteSet((d.slots \ {v}) \union {a})
      /\ Cardinality((d.slots \ {v}) \union {a}) = Cardinality(d.slots \ {v}) + 1
  BY <1>2, FS_AddElement
<1>4. Cardinality(d.slots) \in Nat
  BY <1>1, FS_CardinalityType
<1>5. Cardinality(g.slots) = Cardinality(d.slots)
  BY <1>2, <1>3, <1>4
<1> QED BY <1>3, <1>5 DEF SlotsInv

(* Then the NULLIFY_REQ can be processed, and a has a slot. *)
ToNullify(x, rest, v) ==
    \E p, g, new : Ready(x, rest, v, p, g, new) /\ Head(p).t = "NULLIFY_REQ" /\ Tail(p) = <<>>
RoomMade(w, x, v, a, q, e, rep) ==
    \E f : At(x, a, q, f, rep) /\ Blank(f, e) /\ Quiet(w, x) /\ a \in x.d.slots /\ a # v

LEMMA Replaced ==
  ASSUME NEW w, NEW rest, NEW a, NEW q, NEW e, NEW rep, Fine(w, rest), At(w, a, q, e, rep),
         ~HasEntry(w, a), Cardinality(w.d.slots) >= DirWays, w.next = FALSE,
         NEW v \in Replaceable(w), NEW x, x = Replace(w, v, a)
  PROVE  ToNullify(x, rest, v) /\ RoomMade(w, x, v, a, q, e, rep)
<1> DEFINE f == NewEntry(w.d.junk)
           p == <<Nullify>>
           g == w.d.e[v]
           new == w.d.reply[v]
           ss == Out(w)
<1>1. f = NewEntry(w.d.junk) /\ g = w.d.e[v] /\ new = w.d.reply[v] /\ ss = Out(w) /\ p = Append(<<>>, Nullify)
  OBVIOUS
<1>2. p # <<>> /\ Head(p) = Nullify /\ Tail(p) = <<>> /\ p \in Seq(DirReq)
  BY NullifyType
<1> HIDE DEF f, p, g, new, ss
<1>3. w \in Works /\ a \in Addrs /\ e \in DirEntry /\ w.d \in Directory
  BY FieldTypes DEF At
<1>4. v \in w.d.slots /\ w.d.q[v] = <<>> /\ v \in Addrs /\ v # a /\ HasEntry(w, v) /\ a \notin w.d.slots
  BY <1>3 DEF Replaceable, HasEntry, Directory
<1>5. ReplacesOnly(w, x, v, a, f)
  BY <1>1, <1>3, <1>4, ReplaceSet
<1>6. x \in Works /\ Quiet(w, x) /\ x.d.q[v] = p /\ x.d.e[v] = g /\ x.d.reply[v] = new
      /\ x.d.q[a] = q /\ x.d.e[a] = f /\ x.d.reply[a] = rep /\ f \in DirEntry
      /\ f.st = "U" /\ f.sharers = {}
  BY <1>1, <1>3, <1>4, <1>5 DEF ReplacesOnly, At
<1>7. x.d.slots = (w.d.slots \ {v}) \union {a} /\ x.d.replaced = w.d.replaced \union {v}
  BY <1>5 DEF ReplacesOnly
<1>8. HasEntry(x, a) /\ HasEntry(x, v) /\ \A b \in Addrs : b # a => HasEntry(x, b) = HasEntry(w, b)
  BY <1>4, <1>7 DEF HasEntry
<1>9. Out(x) = ss
  BY <1>1, <1>6, OutSame DEF Quiet
<1>10. /\ toCache \in [Llcs -> Seq(ToCacheMsg)] /\ rest \in [Llcs -> Seq(ToDirMsg)]
       /\ SlotsInv(w.d) /\ \A b \in Addrs : FineAt(w, rest, b)
  BY DEF Fine
<1>11. SlotsInv(x.d)
  BY <1>4, <1>7, <1>10, SlotsMoved
<1>12. FineAt(x, rest, a)
  <2> DEFINE known == HasEntry(w, a)
             still == HasEntry(x, a)
  <2>1. LineOK(a, q, e, rep, known, ss, rest)
    BY <1>1, <1>3, <1>10 DEF FineAt, At
  <2>2. e.st = "U" /\ e.sharers = {}
    BY <2>1 DEF LineOK, LineInv
  <2>3. still /\ still = HasEntry(x, a)
    BY <1>8
  <2> HIDE DEF known, still
  <2>4. /\ f \in DirEntry /\ f.st = e.st /\ f.sharers = e.sharers
        /\ f.st \in {"E", "M"} => f.owner = e.owner
        /\ ~still => ~known \/ e.st = "U"
    BY <1>6, <2>2
  <2>5. \A k \in Llcs : Alike(ss[k], ss[k], a) /\ Alike(rest[k], rest[k], a)
    BY AlikeSelf
  <2>6. LineOK(a, q, f, rep, still, ss, rest)
    BY <2>1, <2>4, <2>5, LineAlike
  <2> QED BY <1>6, <1>9, <2>3, <2>6 DEF FineAt
<1>13. FineAt(x, rest, v) /\ NoWriteBack(v, ss, rest)
  <2> DEFINE known == HasEntry(w, v)
  <2>1. LineOK(v, <<>>, g, new, known, ss, rest)
    BY <1>1, <1>4, <1>10 DEF FineAt
  <2>2. known = HasEntry(w, v)
    OBVIOUS
  <2> HIDE DEF known
  <2>3. LineOK(v, p, g, new, known, ss, rest)
    BY <1>1, <2>1, NullifyType, LineReplaced
  <2>4. FineAt(x, rest, v)
    BY <1>4, <1>6, <1>8, <1>9, <2>2, <2>3 DEF FineAt
  <2>5. NoWriteBack(v, ss, rest)
    BY <2>1, WhenNoWriteBack
  <2> QED BY <2>4, <2>5
<1>14. ASSUME NEW b \in Addrs, b # a, b # v PROVE FineAt(x, rest, b)
  <2>1. FineAt(w, rest, b)
    BY <1>10
  <2>2. x.d.q[b] = w.d.q[b] /\ x.d.e[b] = w.d.e[b] /\ x.d.reply[b] = w.d.reply[b]
    BY <1>5, <1>14 DEF ReplacesOnly
  <2>3. HasEntry(x, b) = HasEntry(w, b)
    BY <1>8, <1>14
  <2> QED BY <1>1, <1>9, <2>1, <2>2, <2>3 DEF FineAt
<1>15. Fine(x, rest)
  BY <1>6, <1>10, <1>11, <1>12, <1>13, <1>14 DEF Fine
<1>16. At(x, v, p, g, new)
  BY <1>1, <1>2, <1>3, <1>4, <1>6, FieldTypes DEF At
<1>17. Ready(x, rest, v, p, g, new)
  <2>1. ~Head(p).wait /\ ~Granted(p)
    BY <1>2, NullifyType DEF Granted
  <2>2. Calm(x, rest, v)
    BY <1>9, <1>13 DEF Calm
  <2>3. x.next = FALSE
    BY <1>6 DEF Quiet
  <2> QED BY <1>2, <1>8, <1>15, <1>16, <2>1, <2>2, <2>3 DEF Ready
<1>18. Head(p).t = "NULLIFY_REQ"
  BY <1>2, NullifyType
<1>19. At(x, a, q, f, rep)
  BY <1>3, <1>6 DEF At
<1>20. Blank(f, e)
  BY <1>6, <1>10, <1>12, <1>3 DEF Blank, FineAt, LineOK, LineInv, At
<1>21. a \in x.d.slots
  BY <1>7
<1> QED BY <1>2, <1>4, <1>6, <1>17, <1>18, <1>19, <1>20, <1>21 DEF ToNullify, RoomMade


-----------------------------------------------------------------------------
(* A request is started: its line gets an entry, and the request is processed.   *)
LEMMA CalmAlike ==
  ASSUME NEW w, NEW z, NEW rest, NEW a, Calm(w, rest, a),
         \A k \in Llcs : Alike(Out(w)[k], Out(z)[k], a)
  PROVE  Calm(z, rest, a)
<1> DEFINE ss == Out(w)
           zz == Out(z)
<1>1. NoWriteBack(a, ss, rest) /\ \A k \in Llcs : Alike(ss[k], zz[k], a)
  BY DEF Calm
<1> HIDE DEF ss, zz
<1>2. ASSUME NEW k \in Llcs PROVE ~Live(zz[k], {"WB_REQ"}, a, cache[k][a].st # "I")
  <2> DEFINE copy == cache[k][a].st # "I"
  <2>1. copy \in BOOLEAN /\ ~Live(ss[k], {"WB_REQ"}, a, copy) /\ Alike(ss[k], zz[k], a)
    BY <1>1 DEF NoWriteBack
  <2> HIDE DEF copy
  <2>2. ~Live(zz[k], {"WB_REQ"}, a, copy)
    BY <2>1, AlikeLive
  <2> QED BY <2>2 DEF copy
<1>3. NoWriteBack(a, zz, rest)
  BY <1>1, <1>2 DEF NoWriteBack
<1> QED BY <1>3 DEF Calm, zz

(* The line has an entry, and nothing else about it has changed. *)
Entered(w, z, rest, a, q, e, rep) ==
    /\ Fine(z, rest) /\ HasEntry(z, a) /\ z.next = FALSE
    /\ \E f : At(z, a, q, f, rep) /\ Blank(f, e)
    /\ Calm(w, rest, a) => Calm(z, rest, a)

LEMMA EntryThere ==
  ASSUME NEW w, NEW rest, NEW a, NEW q, NEW e, NEW rep, Fine(w, rest), At(w, a, q, e, rep),
         w.next = FALSE, sys \in Systems, NEW z, z = WithEntry(w, a), z.err = NoFailure
  PROVE  w.err = NoFailure /\ Entered(w, z, rest, a, q, e, rep)
<1> DEFINE y == getDirectoryEntry(w, a)
<1>1. y = getDirectoryEntry(w, a) /\ z = OrAllocate(y, a)
  BY DEF WithEntry
<1> HIDE DEF y
<1>2. Fine(y, rest) /\ \E f : Got(w, y, a, q, e, rep, f)
  BY <1>1, EntryGot
<1>3. PICK f : Got(w, y, a, q, e, rep, f)
  BY <1>2
<1>4. At(y, a, q, f, rep) /\ Blank(f, e) /\ Quiet(w, y)
      /\ (~HasEntry(y, a) => y = w /\ Cardinality(w.d.slots) >= DirWays)
  BY <1>3 DEF Got
<1>5. y.next = FALSE /\ y.err = w.err /\ Out(y) = Out(w)
  BY <1>4, OutSame DEF Quiet
<1>6. Calm(w, rest, a) => Calm(y, rest, a)
  BY <1>5 DEF Calm
<1>7. CASE HasEntry(y, a)
  <2>1. z = y
    BY <1>1, <1>7 DEF OrAllocate
  <2> QED BY <1>2, <1>4, <1>5, <1>6, <1>7, <2>1 DEF Entered
<1>8. CASE ~HasEntry(y, a)
  <2> DEFINE cs == Candidates(y)
             v == IF y.victim \in cs THEN y.victim ELSE CHOOSE x \in cs : TRUE
             x == Replace(y, v, a)
  <2>1. z = processDirectoryEntryAllocationReq(y, a)
    BY <1>1, <1>8 DEF OrAllocate
  <2>2. cs # {}
    <3>1. ASSUME cs = {} PROVE FALSE
      <4>1. z = Assert_(y, FALSE, "no directory entry to be replaced")
        BY <2>1, <3>1 DEF processDirectoryEntryAllocationReq
      <4>2. "no directory entry to be replaced" \in Failures
        BY DEF Failures
      <4>3. Checked(y, z, FALSE)
        BY <1>4, <4>1, <4>2, AtAssert
      <4> QED BY <4>3 DEF Checked
    <3> QED BY <3>1
  <2>3. z = processNullifyReq(x, v) /\ x = Replace(y, v, a)
    BY <2>1, <2>2 DEF processDirectoryEntryAllocationReq
  <2>4. v \in Replaceable(y)
    BY <2>2 DEF Candidates
  <2> HIDE DEF cs, v, x
  <2>5. ToNullify(x, rest, v) /\ RoomMade(y, x, v, a, q, f, rep)
    <3>1. Cardinality(y.d.slots) >= DirWays
      BY <1>4, <1>8
    <3>2. Fine(y, rest) /\ At(y, a, q, f, rep) /\ y.next = FALSE
      BY <1>2, <1>4, <1>5
    <3>3. x = Replace(y, v, a)
      BY <2>3
    <3> QED BY <1>8, <2>4, <3>1, <3>2, <3>3, Replaced
  <2>6. PICK p, g, new : Ready(x, rest, v, p, g, new) /\ Head(p).t = "NULLIFY_REQ" /\ Tail(p) = <<>>
    BY <2>5 DEF ToNullify
  <2>7. PICK h : At(x, a, q, h, rep) /\ Blank(h, f) /\ Quiet(y, x) /\ a \in x.d.slots /\ a # v
    BY <2>5 DEF RoomMade
  <2>8. Goes(z, rest, v) /\ Nullified(x, z, v, p)
    BY <2>3, <2>6, NullifyDone
  <2>9. Fine(z, rest) /\ z \in Works
    BY <2>8 DEF Goes, Fine
  <2>10. x.err = NoFailure /\ OnlyAt(x, z, v) /\ z.next # TRUE
    BY <2>6, <2>8 DEF Nullified
  <2>11. z.next = FALSE
    BY <2>9, <2>10 DEF Works
  <2>12. a \in Addrs \ {v}
    BY <2>7 DEF At
  <2>13. HasEntry(z, a) /\ At(z, a, q, h, rep)
    BY <2>7, <2>9, <2>10, <2>12 DEF OnlyAt, At, HasEntry
  <2>14. Blank(h, e)
    BY <1>4, <2>7 DEF Blank
  <2>15. w.err = NoFailure
    BY <1>5, <2>7, <2>10 DEF Quiet
  <2>16. Calm(w, rest, a) => Calm(z, rest, a)
    <3>1. Calm(y, rest, a) => Calm(x, rest, a)
      BY <2>7, OutSame DEF Calm, Quiet
    <3>2. \A k \in Llcs : Alike(Out(x)[k], Out(z)[k], a)
      BY <2>10, <2>12 DEF OnlyAt
    <3>3. Calm(x, rest, a) => Calm(z, rest, a)
      BY <3>2, CalmAlike
    <3> QED BY <1>6, <3>1, <3>3
  <2> QED BY <2>9, <2>11, <2>13, <2>14, <2>15, <2>16 DEF Entered
<1> QED BY <1>7, <1>8

LEMMA Started ==
  ASSUME NEW w, NEW rest, NEW a, NEW q, NEW e, NEW rep, Fine(w, rest), At(w, a, q, e, rep),
         Restart(w, rest, a), sys \in Systems, NEW z, z = StartReq(w, a), z.err = NoFailure
  PROVE  w.err = NoFailure /\ Goes(z, rest, a)
<1> DEFINE x == [w EXCEPT !.next = FALSE]
           y == WithEntry(x, a)
<1>1. x = [w EXCEPT !.next = FALSE] /\ y = WithEntry(x, a)
      /\ z = IF y.err # NoFailure THEN y ELSE processFront(y, a)
  BY DEF StartReq
<1> HIDE DEF x, y
<1>2. w \in Works /\ q = w.d.q[a] /\ q # <<>> /\ ~Granted(q) /\ Calm(w, rest, a) /\ q \in Seq(DirReq)
  BY DEF At, Restart
<1>3. Kept(w, x) /\ x.d = w.d /\ x.out = w.out /\ x.err = w.err /\ x.next = FALSE
  BY <1>1, <1>2, NextSet
<1>4. At(x, a, q, e, rep) /\ Out(x) = Out(w)
  BY <1>3, AtSame, OutSame
<1>5. Fine(x, rest)
  BY <1>3, <1>4 DEF Fine, FineAt, Kept, HasEntry
<1>6. Calm(x, rest, a)
  BY <1>2, <1>4 DEF Calm
<1>7. y.err = NoFailure /\ z = processFront(y, a)
  BY <1>1
<1>8. x.err = NoFailure /\ Entered(x, y, rest, a, q, e, rep)
  <2>1. y = WithEntry(x, a) /\ x.next = FALSE /\ At(x, a, q, e, rep) /\ y.err = NoFailure
    BY <1>1, <1>3, <1>4, <1>7
  <2> QED BY <1>5, <2>1, EntryThere
<1>9. PICK f : At(y, a, q, f, rep) /\ Blank(f, e)
  BY <1>8 DEF Entered
<1>10. Fine(y, rest) /\ HasEntry(y, a) /\ y.next = FALSE /\ Calm(y, rest, a)
  BY <1>6, <1>8 DEF Entered
<1>11. Ready(y, rest, a, q, f, rep)
  BY <1>2, <1>9, <1>10 DEF Ready, Granted
<1>12. FrontReq(y, a) = Head(q)
  BY <1>9, AtFront
<1>13. Head(q).t \in {"EX_REQ", "SH_REQ", "UPGRADE_REQ", "NULLIFY_REQ"} /\ NoData \in Data
  <2>1. Head(q) \in DirReq
    BY <1>2, Popped
  <2> QED BY <2>1 DEF DirReq, Reqs, Data
<1>14. Goes(z, rest, a)
  <2>1. CASE Head(q).t = "EX_REQ"
    <3>1. z = processExReq(y, a, NoData)
      BY <1>7, <1>12, <2>1 DEF processFront
    <3> QED BY <1>11, <1>13, <2>1, <3>1, ExDone
  <2>2. CASE Head(q).t = "SH_REQ"
    <3>1. z = processShReq(y, a, NoData)
      BY <1>7, <1>12, <2>2 DEF processFront
    <3> QED BY <1>11, <1>13, <2>2, <3>1, ShDone
  <2>3. CASE Head(q).t = "UPGRADE_REQ"
    <3>1. z = processUpgradeReq(y, a, NoData)
      BY <1>7, <1>12, <2>3 DEF processFront
    <3> QED BY <1>11, <1>13, <2>3, <3>1, UpDone
  <2>4. CASE Head(q).t = "NULLIFY_REQ"
    <3>1. z = Assert_(y, FALSE, "Unrecognized Request")
      BY <1>7, <1>12, <2>4 DEF processFront
    <3>2. "Unrecognized Request" \in Failures
      BY DEF Failures
    <3>3. Checked(y, z, FALSE)
      BY <1>9, <3>1, <3>2, AtAssert
    <3> QED BY <3>3 DEF Checked
  <2> QED BY <1>13, <2>1, <2>2, <2>3, <2>4
<1> QED BY <1>3, <1>8, <1>14

(* processNextReqFromL2Cache. *)
LEMMA Settled ==
  ASSUME NEW w, NEW rest, NEW a, NEW q, NEW e, NEW rep, Goes(w, rest, a), At(w, a, q, e, rep),
         sys \in Systems, NEW z, z = Settle(w, a), z.err = NoFailure
  PROVE  w.err = NoFailure /\ Fine(z, rest)
<1> DEFINE first == StartReq(w, a)
<1>1. first = StartReq(w, a)
  OBVIOUS
<1>2. CASE ~GoesOn(w)
  <2>1. z = w
    BY <1>2 DEF Settle
  <2> QED BY <2>1 DEF Goes
<1>3. CASE GoesOn(w)
  <2>1. z = IF GoesOn(first) THEN StartReq(first, a) ELSE first
    BY <1>3 DEF Settle
  <2>2. w.next = TRUE /\ w.err = NoFailure
    <3>1. w.next \in BOOLEAN
      BY DEF At, Works
    <3> QED BY <1>3, <3>1 DEF GoesOn
  <2>3. Fine(w, rest) /\ Restart(w, rest, a)
    BY <2>2 DEF Goes
  <2> HIDE DEF first
  <2>4. first.err = NoFailure
    BY <2>1 DEF GoesOn
  <2>5. Goes(first, rest, a)
    BY <1>1, <2>3, <2>4, Started
  <2>6. CASE GoesOn(first)
    <3> DEFINE p == first.d.q[a]
               f == first.d.e[a]
               new == first.d.reply[a]
    <3>1. Fine(first, rest) /\ first \in Works /\ a \in Addrs
      BY <2>5 DEF Goes, Fine, At
    <3>2. At(first, a, p, f, new)
      BY <3>1, FieldTypes DEF At
    <3>3. first.next = TRUE
      BY <2>6, <3>1 DEF GoesOn, Works
    <3>4. Restart(first, rest, a)
      BY <2>5, <3>3 DEF Goes
    <3>5. z = StartReq(first, a)
      BY <2>1, <2>6
    <3> HIDE DEF p, f, new
    <3>6. Goes(z, rest, a)
      BY <3>1, <3>2, <3>4, <3>5, Started
    <3> QED BY <2>2, <3>6 DEF Goes
  <2>7. CASE ~GoesOn(first)
    <3>1. z = first
      BY <2>1, <2>7
    <3> QED BY <2>2, <2>5, <3>1 DEF Goes
  <2> QED BY <2>6, <2>7
<1> QED BY <1>2, <1>3

(* An assertion that failed in a handler is not lost. *)
LEMMA SettledErr ==
  ASSUME NEW w, NEW a, NEW z, z = Settle(w, a), z.err = NoFailure
  PROVE  w.err = NoFailure
<1>1. CASE ~GoesOn(w)
  BY <1>1 DEF Settle
<1>2. CASE GoesOn(w)
  BY <1>2 DEF GoesOn
<1> QED BY <1>1, <1>2

(* A line whose messages are alike stays as it is. *)
AlikeAll(ss, zz, a) == \A k \in Llcs : Alike(ss[k], zz[k], a)
StillKnown(known, still) == known => still
LEMMA LineStays ==
  ASSUME NEW a, NEW q, NEW e, NEW rep, NEW known, NEW ss, NEW rr, LineOK(a, q, e, rep, known, ss, rr),
         NEW still, StillKnown(known, still),
         NEW zz, NEW yy, AlikeAll(ss, zz, a), AlikeAll(rr, yy, a)
  PROVE  LineOK(a, q, e, rep, still, zz, yy)
<1>1. e \in DirEntry
  BY DEF LineOK
<1>2. ~still => ~known \/ e.st = "U"
  BY DEF StillKnown
<1>3. \A k \in Llcs : Alike(ss[k], zz[k], a) /\ Alike(rr[k], yy[k], a)
  BY DEF AlikeAll
<1>4. e.st = e.st /\ e.sharers = e.sharers /\ (e.st \in {"E", "M"} => e.owner = e.owner)
  OBVIOUS
<1> QED BY <1>1, <1>2, <1>3, <1>4, LineAlike

(* A message about line a has been taken from cache d. *)
LEMMA TakenFine ==
  ASSUME NEW w, NEW z, NEW a \in Addrs, NEW rr, NEW rr2 \in [Llcs -> Seq(ToDirMsg)], Fine(w, rr),
         NEW d \in Llcs, Taken(rr, rr2, d), rr[d] # <<>>, Head(rr[d]).a = a,
         OnlyAt(w, z, a), FineAt(z, rr2, a)
  PROVE  Fine(z, rr2)
<1>1. z \in Works /\ SlotsInv(z.d) /\ rr \in [Llcs -> Seq(ToDirMsg)]
      /\ toCache \in [Llcs -> Seq(ToCacheMsg)]
  BY DEF Fine, OnlyAt, SlotsInv
<1>2. ASSUME NEW b \in Addrs, b # a PROVE FineAt(z, rr2, b)
  <2>1. /\ LineOK(b, w.d.q[b], w.d.e[b], w.d.reply[b], HasEntry(w, b), Out(w), rr)
        /\ z.d.q[b] = w.d.q[b] /\ z.d.e[b] = w.d.e[b] /\ z.d.reply[b] = w.d.reply[b]
        /\ HasEntry(z, b) <=> HasEntry(w, b)
        /\ \A k \in Llcs : Alike(Out(w)[k], Out(z)[k], b)
    BY <1>2 DEF Fine, FineAt, OnlyAt, HasEntry
  <2>2. w.d.e[b] \in DirEntry
    BY DEF Fine, Works, Directory
  <2>3. ASSUME NEW k \in Llcs PROVE Alike(rr[k], rr2[k], b)
    <3>1. CASE k = d
      <4>1. rr2[k] = Tail(rr[k]) /\ rr[k] \in Seq(ToDirMsg) /\ rr[k] # <<>> /\ Head(rr[k]).a # b
        BY <1>1, <1>2, <3>1 DEF Taken
      <4> QED BY <4>1, PopOther
    <3>2. CASE k # d
      <4>1. rr2[k] = rr[k]
        BY <3>2 DEF Taken
      <4> QED BY <4>1, AlikeSelf
    <3> QED BY <3>1, <3>2
  <2>4. LineOK(b, w.d.q[b], w.d.e[b], w.d.reply[b], HasEntry(z, b), Out(z), rr2)
    <3> DEFINE g == w.d.e[b]
               known == HasEntry(w, b)
               still == HasEntry(z, b)
               ss == Out(w)
               zz == Out(z)
               q == w.d.q[b]
               rep == w.d.reply[b]
    <3>1. LineOK(b, q, g, rep, known, ss, rr) /\ g \in DirEntry
      BY <2>1, <2>2
    <3>2. still <=> known
      BY <2>1
    <3>3. AlikeAll(ss, zz, b) /\ AlikeAll(rr, rr2, b)
      BY <2>1, <2>3 DEF AlikeAll
    <3>4. StillKnown(known, still)
      BY <3>2 DEF StillKnown
    <3> HIDE DEF g, known, still, ss, zz, q, rep
    <3>5. LineOK(b, q, g, rep, still, zz, rr2)
      BY <3>1, <3>3, <3>4, LineStays
    <3> QED BY <3>5 DEF g, known, still, ss, zz, q, rep
  <2> QED BY <2>1, <2>4 DEF FineAt
<1> QED BY <1>1, <1>2 DEF Fine

LEMMA ApartOnly ==
  ASSUME NEW w, NEW z, NEW a, Apart(w, z, a), z.out = w.out
  PROVE  OnlyAt(w, z, a)
<1>1. Out(z) = Out(w)
  BY OutSame
<1> QED BY <1>1, AlikeSelf DEF Apart, OnlyAt

(* A handler begins: the message at the head of cache d's queue is about line a,  *)
(* and the directory is fine with it still to come.                          *)
Arriving(w, rr, rr2, d, a, q, e, rep) ==
    /\ Fine(w, rr) /\ At(w, a, q, e, rep) /\ w.next = FALSE /\ d \in Llcs
    /\ rr2 \in [Llcs -> Seq(ToDirMsg)] /\ Taken(rr, rr2, d)
    /\ rr[d] # <<>> /\ Head(rr[d]) \in ToDirMsg /\ Head(rr[d]).a = a

LEMMA QueueCalm ==
  ASSUME NEW a, NEW ss, NEW rr \in [Llcs -> Seq(ToDirMsg)], NEW rr2, NEW d, NoWriteBack(a, ss, rr),
         rr[d] # <<>>, Taken(rr, rr2, d)
  PROVE  NoWriteBack(a, ss, rr2)
<1>1. ASSUME NEW k \in Llcs PROVE ~Has(rr2[k], {"WB_REP"}, a)
  <2>1. ~Has(rr[k], {"WB_REP"}, a) /\ rr[k] \in Seq(ToDirMsg)
    BY DEF NoWriteBack
  <2>2. CASE k = d
    <3>1. rr2[k] = Tail(rr[k]) /\ rr[k] # <<>>
      BY <2>2 DEF Taken
    <3> QED BY <2>1, <3>1, PopHas
  <2>3. CASE k # d
    BY <2>1, <2>3 DEF Taken
  <2> QED BY <2>2, <2>3
<1> QED BY <1>1 DEF NoWriteBack

LEMMA Enqueued ==
  ASSUME NEW w, NEW rr, NEW rr2, NEW d, NEW a, NEW q, NEW e, NEW rep,
         Arriving(w, rr, rr2, d, a, q, e, rep), NEW m, m = Head(rr[d]), m.t \in Reqs,
         sys \in Systems, NEW z, z = EnqueueReq(w, d, m), z.err = NoFailure
  PROVE  Goes(z, rr2, a)
<1> DEFINE x == Request(m.t, d)
           y == getDirectoryEntry(w, a)
           p == Append(q, x)
           v == SetQ(y, a, p)
<1>1. /\ Fine(w, rr) /\ At(w, a, q, e, rep) /\ w.next = FALSE /\ d \in Llcs
      /\ rr2 \in [Llcs -> Seq(ToDirMsg)] /\ Taken(rr, rr2, d)
      /\ rr[d] # <<>> /\ m \in ToDirMsg /\ m.a = a
  BY DEF Arriving
<1>2. x \in DirReq /\ ~x.wait /\ x.from = NoCore /\ x.c = d /\ x.t = m.t
  BY <1>1 DEF Request, DirReq, Cores, Data, Reqs
<1>3. y = getDirectoryEntry(w, a) /\ p = Append(q, x) /\ v = SetQ(y, a, p)
  OBVIOUS
<1>4. Fine(y, rr) /\ \E f : Got(w, y, a, q, e, rep, f)
  BY <1>1, <1>3, EntryGot
<1>5. PICK f : Got(w, y, a, q, e, rep, f)
  BY <1>4
<1>6. At(y, a, q, f, rep) /\ Quiet(w, y)
  BY <1>5 DEF Got
<1>7. y.d.q[a] = q /\ w.d.q[a] = q /\ q \in Seq(DirReq) /\ a \in Addrs
  BY <1>1, <1>6 DEF At
<1>8. z = IF q = <<>> THEN StartReq(v, a) ELSE v
  BY <1>1, <1>7 DEF EnqueueReq, SetQ
<1> HIDE DEF x, y, p, v
<1>9. p \in Seq(DirReq) /\ p # <<>> /\ (Granted(p) <=> Granted(q))
  BY <1>2, <1>3, <1>7, QueuePushed
<1>10. At(v, a, p, f, rep) /\ Apart(y, v, a) /\ Quiet(y, v)
  BY <1>3, <1>6, <1>9, AtQueue
<1> DEFINE known == HasEntry(y, a)
           ss == Out(y)
<1>11. known = HasEntry(y, a) /\ ss = Out(y)
  OBVIOUS
<1> HIDE DEF known, ss
<1>12. LineAt(y, rr, a, q, f, rep, known, ss)
  BY <1>4, <1>6, <1>11, FineLine
<1>13. LineOK(a, q, f, rep, known, ss, rr) /\ rr \in [Llcs -> Seq(ToDirMsg)]
  BY <1>12 DEF LineAt
<1>14. LineOK(a, p, f, rep, known, ss, rr2)
  <2>1. /\ x.c \in Llcs /\ rr[x.c] # <<>> /\ Head(rr[x.c]).a = a /\ Head(rr[x.c]).t = x.t
        /\ x.t \in Reqs /\ Taken(rr, rr2, x.c)
    BY <1>1, <1>2
  <2>2. LineOK(a, Append(q, x), f, rep, known, ss, rr2)
    BY <1>2, <1>13, <2>1, LineAsks
  <2> QED BY <1>3, <2>2
<1>15. HasEntry(v, a) = known /\ Out(v) = ss
  BY <1>10, <1>11, OutSame DEF Apart, Quiet, HasEntry
<1>16. FineAt(v, rr2, a)
  BY <1>10, <1>14, <1>15 DEF FineAt, At
<1>17. OnlyAt(y, v, a)
  BY <1>10, ApartOnly DEF Quiet
<1>18. Fine(v, rr2)
  BY <1>1, <1>4, <1>7, <1>16, <1>17, TakenFine
<1>19. v.next = FALSE
  BY <1>1, <1>6, <1>10 DEF Quiet
<1>20. CASE q # <<>>
  <2>1. z = v
    BY <1>8, <1>20
  <2> QED BY <1>18, <1>19, <2>1 DEF Goes
<1>21. CASE q = <<>>
  <2>1. z = StartReq(v, a)
    BY <1>8, <1>21
  <2>2. NoWriteBack(a, ss, rr)
    BY <1>13, <1>21, WhenNoWriteBack
  <2>3. NoWriteBack(a, ss, rr2)
    BY <1>1, <1>13, <2>2, QueueCalm
  <2>4. Calm(v, rr2, a)
    BY <1>15, <2>3 DEF Calm
  <2>5. ~Granted(p) /\ v.d.q[a] = p
    BY <1>9, <1>10, <1>21 DEF Granted, At
  <2>6. Restart(v, rr2, a)
    BY <1>9, <2>4, <2>5 DEF Restart
  <2> QED BY <1>10, <1>18, <2>1, <2>6, Started
<1> QED BY <1>20, <1>21


-----------------------------------------------------------------------------
(* DRAM has answered: the read is taken off, and the front request, granted       *)
(* before, gets the data.                                                    *)
GrantedFacts(q, e) ==
    /\ q \in Seq(DirReq) /\ q # <<>> /\ Granted(q) /\ Head(q).wait
    /\ Head(q).c \in Llcs /\ Head(q).c \in e.sharers /\ e \in DirEntry
    /\ e.st # "U" /\ (e.st \in {"E", "M"} => e.sharers = {e.owner})
    /\ Head(q).t \in Reqs /\ (Head(q).t # "SH_REQ" => e.st = "M")

LEMMA FrontGranted ==
  ASSUME NEW a, NEW q, NEW e, NEW rep, NEW known, NEW ss, NEW rr, LineOK(a, q, e, rep, known, ss, rr),
         q # <<>>, Head(q).wait
  PROVE  GrantedFacts(q, e) /\ known
<1>1. LineInv(q, e, rep, known) /\ q \in Seq(DirReq) /\ e \in DirEntry
  BY DEF LineOK
<1>2. FrontWaits(q, e) /\ (e.st \in {"E", "M"} => e.sharers = {e.owner})
      /\ (e.st = "U" => e.sharers = {}) /\ (~known => e.st = "U")
  BY <1>1 DEF LineInv
<1>3. Head(q) = q[1] /\ Head(q) \in DirReq /\ 1 \in DOMAIN q
  BY <1>1, Popped
<1>4. Head(q).t # "NULLIFY_REQ" /\ (Head(q).t # "SH_REQ" => e.st = "M")
  BY <1>2, <1>3 DEF FrontWaits
<1>5. Head(q).t \in Reqs
  BY <1>3, <1>4 DEF DirReq, Reqs
<1>6. Head(q).c \in Llcs
  BY <1>1, <1>2, <1>4, RequesterIsCache
<1>7. Granted(q) /\ GrantedTo(q, Head(q).c)
  BY DEF Granted, GrantedTo
<1>8. Head(q).c \in e.sharers
  <2> DEFINE c == Head(q).c
  <2>1. PairInv(c, a, cache[c][a].st, waiters[c][a], ss[c], rr[c], q, e)
    BY <1>6 DEF LineOK
  <2> QED BY <1>7, <2>1 DEF PairInv, Listed
<1>9. e.st # "U" /\ known
  BY <1>2, <1>8
<1> QED BY <1>1, <1>2, <1>4, <1>5, <1>6, <1>7, <1>8, <1>9 DEF GrantedFacts

LEMMA ReadTaken ==
  ASSUME NEW w, NEW rest, NEW a, NEW q, NEW e, NEW rep, Fine(w, rest), At(w, a, q, e, rep),
         rep # <<>>, NEW z, z = SetR(w, a, Tail(rep))
  PROVE  /\ Fine(z, rest) /\ At(z, a, q, e, <<>>) /\ Quiet(w, z) /\ HasEntry(z, a)
         /\ Calm(z, rest, a) /\ GrantedFacts(q, e)
<1> DEFINE known == HasEntry(w, a)
           ss == Out(w)
           new == Tail(rep)
<1>1. known = HasEntry(w, a) /\ ss = Out(w) /\ new = Tail(rep)
  OBVIOUS
<1> HIDE DEF known, ss
<1>2. LineAt(w, rest, a, q, e, rep, known, ss)
  BY <1>1, FineLine
<1>3. LineOK(a, q, e, rep, known, ss, rest) /\ q # <<>> /\ Head(q).wait /\ Len(rep) <= 1
      /\ a \in Addrs
  BY <1>2 DEF LineAt
<1>4. GrantedFacts(q, e) /\ known
  BY <1>3, FrontGranted
<1>5. q \in Seq(DirReq)
  BY <1>4 DEF GrantedFacts
<1>6. new = <<>> /\ new \in Seq(Filled)
  <2>1. rep \in Seq(Filled)
    BY DEF At
  <2> QED BY <1>3, <2>1
<1>7. At(z, a, q, e, new) /\ Apart(w, z, a) /\ Quiet(w, z)
  BY <1>6, AtReply
<1> HIDE DEF new
<1>8. LineOK(a, q, e, new, known, ss, rest)
  <2>1. Len(new) <= 1 /\ (new # <<>> => q[1].wait)
    BY <1>6
  <2> QED BY <1>3, <1>5, <2>1, LineMarked
<1>9. NoWriteBack(a, ss, rest)
  BY <1>3, WhenNoWriteBack
<1>10. Out(z) = ss
  BY <1>1, <1>7, OutSame DEF Quiet
<1>11. OnlyAt(w, z, a)
  BY <1>7, ApartOnly DEF Quiet
<1>12. HasEntry(z, a) = known
  BY <1>1, <1>7 DEF Apart, HasEntry
<1>13. FineAt(z, rest, a)
  BY <1>7, <1>8, <1>10, <1>12 DEF FineAt, At
<1>14. Fine(z, rest)
  BY <1>3, <1>11, <1>13, OnlyAtFine
<1>15. Calm(z, rest, a)
  BY <1>9, <1>10 DEF Calm
<1> QED BY <1>4, <1>6, <1>7, <1>12, <1>14, <1>15


LEMMA DramAnswers ==
  ASSUME NEW w, NEW rest, NEW a, NEW q, NEW e, Fine(w, rest), At(w, a, q, e, <<>>), HasEntry(w, a),
         Calm(w, rest, a), GrantedFacts(q, e), NEW data \in Filled,
         NEW z, z = DramReplied(w, a, data), z.err = NoFailure
  PROVE  Goes(z, rest, a)
<1> DEFINE c == Head(q).c
           t == IF Head(q).t = "SH_REQ" /\ e.st # "E" THEN "SH_REP" ELSE "EX_REP"
           ok == CASE Head(q).t = "SH_REQ" -> e.st \in {"S", "E"}
                   [] Head(q).t = "EX_REQ" -> e.st = "M"
                   [] OTHER          -> Head(q).t = "UPGRADE_REQ"
           cond == ok /\ HasEntry(w, a)
           v == Assert_(w, cond, "DRAM reply in a wrong state")
           u == Send(v, c, t, a, data)
           m == Msg(t, a, data)
           p == Tail(q)
<1>1. FrontReq(w, a) = Head(q) /\ Dstate(w, a) = e.st /\ w.d.q[a] = q
  BY AtFront
<1>2. q # <<>> /\ a \in Addrs
  BY DEF GrantedFacts, At
<1>3. z = processNextReq(u, a)
  BY <1>1, <1>2 DEF DramReplied
<1>4. v = Assert_(w, cond, "DRAM reply in a wrong state")
  OBVIOUS
<1>5. u = Send(v, c, t, a, data) /\ m = Msg(t, a, data) /\ p = Tail(q) /\ c = Head(q).c
  OBVIOUS
<1>6. cond => ok
  OBVIOUS
<1>7. t \in DataReps /\ (t = "EX_REP" => Head(q).t # "SH_REQ" \/ e.st = "E")
  BY DEF DataReps
<1> HIDE DEF cond, ok, v, u, m, p, c, t
<1>8. m \in ToCacheMsg /\ m.a = a /\ m.t = t
  BY <1>2, <1>5, <1>7, Messages DEF DataReps, Reps, Filled
<1>9. "DRAM reply in a wrong state" \in Failures
  BY DEF Failures
<1>10. At(v, a, q, e, <<>>) /\ Apart(w, v, a) /\ Checked(w, v, cond)
  BY <1>4, <1>9, AtAssert
<1>11. At(u, a, q, e, <<>>) /\ Apart(v, u, a) /\ Delivered(v, u, c, m)
  BY <1>8, <1>10, <1>5, AtSend
<1>12. At(z, a, p, e, <<>>) /\ Apart(u, z, a) /\ Finished(u, z, p)
  BY <1>2, <1>3, <1>11, <1>5, AtNext
<1>13. u.err = NoFailure /\ z.out = u.out /\ (z.next = TRUE => p # <<>>)
  BY <1>12 DEF Finished
<1>14. v.err = NoFailure /\ Sends(v, u, {c}, m)
  BY <1>11, <1>13 DEF Delivered
<1>15. cond /\ v = w
  BY <1>10, <1>14 DEF Checked
<1>16. Sends(w, u, {c}, m)
  BY <1>14, <1>15
<1>17. Sends(w, z, {c}, m)
  BY <1>13, <1>16, SendsBefore
<1>18. Apart(w, z, a)
  BY <1>10, <1>11, <1>12, ApartChain
<1>19. Answers(q, e, e, m)
  BY <1>7, <1>8 DEF GrantedFacts, Answers, DataReps
<1>20. Goes(z, rest, a)
  BY <1>8, <1>12, <1>13, <1>17, <1>18, <1>19, <1>5, AnsweredFine
<1> QED BY <1>20

LEMMA DramDone ==
  ASSUME NEW w, NEW rest, NEW a, NEW q, NEW e, NEW rep, Fine(w, rest), At(w, a, q, e, rep),
         rep # <<>>, sys \in Systems,
         NEW z, z = processDRAMReply(w, a), z.err = NoFailure
  PROVE  Fine(z, rest)
<1> DEFINE x == SetR(w, a, Tail(rep))
           y == getDirectoryEntry(x, a)
           data == Head(rep)
           u == DramReplied(y, a, data)
<1>1. x = SetR(w, a, Tail(rep)) /\ y = getDirectoryEntry(x, a) /\ u = DramReplied(y, a, data)
  OBVIOUS
<1>2. w.d.reply[a] = rep /\ data \in Filled
  <2>1. rep \in Seq(Filled) /\ w.d.reply[a] = rep
    BY DEF At
  <2> QED BY <2>1
<1>3. z = Settle(u, a)
  BY <1>2 DEF processDRAMReply, SetR
<1> HIDE DEF x, y, data, u
<1>4. /\ Fine(x, rest) /\ At(x, a, q, e, <<>>) /\ Quiet(w, x) /\ HasEntry(x, a)
      /\ Calm(x, rest, a) /\ GrantedFacts(q, e)
  BY <1>1, ReadTaken
<1>5. y = x
  <2>1. \E f : Got(x, y, a, q, e, <<>>, f)
    BY <1>1, <1>4, EntryGot
  <2> QED BY <1>4, <2>1 DEF Got
<1>6. u.err = NoFailure
  BY <1>3, SettledErr
<1>7. Goes(u, rest, a)
  BY <1>1, <1>2, <1>4, <1>5, <1>6, DramAnswers
<1>8. At(u, a, u.d.q[a], u.d.e[a], u.d.reply[a])
  <2>1. u \in Works /\ a \in Addrs
    BY <1>4, <1>7 DEF Goes, Fine, At
  <2> QED BY <2>1, FieldTypes DEF At
<1>9. Fine(z, rest)
  BY <1>3, <1>7, <1>8, Settled
<1> QED BY <1>9

-----------------------------------------------------------------------------
(* A copy is given up or written back: what becomes of the entry.                *)
Without(e, d) == [e EXCEPT !.sharers = @ \ {d}]
Leaving(e, d) == [e EXCEPT !.sharers = @ \ {d}, !.st = IF e.sharers \ {d} = {} THEN "U" ELSE @]
Remaining(w, a, s) ==
    [w EXCEPT !.d.e[a].sharers = s, !.d.e[a].st = IF s = {} THEN "U" ELSE @]
SetSharers(w, a, s) == [w EXCEPT !.d.e[a].sharers = s]
SetState(w, a, s) == [w EXCEPT !.d.e[a].st = IF s = {} THEN "U" ELSE @]
(* Only the entry of line a changes, and the assertions that failed.             *)
EntryOnly(w, z, a, q, f, rep) ==
    At(z, a, q, f, rep) /\ Apart(w, z, a) /\ z.out = w.out /\ z.next = w.next

LEMMA EntryOnlyChain ==
  ASSUME NEW w, NEW y, NEW z, NEW a, NEW q, NEW e, NEW f, NEW rep,
         EntryOnly(w, y, a, q, e, rep), EntryOnly(y, z, a, q, f, rep)
  PROVE  EntryOnly(w, z, a, q, f, rep)
<1>1. Apart(w, z, a)
  BY ApartChain DEF EntryOnly
<1> QED BY <1>1 DEF EntryOnly

LEMMA EntryAsserted ==
  ASSUME NEW w, NEW a, NEW q, NEW e, NEW rep, At(w, a, q, e, rep), NEW cond, NEW what \in Failures,
         NEW z, z = Assert_(w, cond, what)
  PROVE  EntryOnly(w, z, a, q, e, rep)
<1>1. At(z, a, q, e, rep) /\ Apart(w, z, a) /\ Checked(w, z, cond)
  BY AtAssert
<1> QED BY <1>1 DEF EntryOnly, Checked

LEMMA EntryChanged ==
  ASSUME NEW w, NEW a, NEW q, NEW e, NEW rep, At(w, a, q, e, rep), NEW f \in DirEntry,
         NEW z, z = SetE(w, a, f)
  PROVE  EntryOnly(w, z, a, q, f, rep)
<1>1. At(z, a, q, f, rep) /\ Apart(w, z, a) /\ Quiet(w, z)
  BY AtEntry
<1> QED BY <1>1 DEF EntryOnly, Quiet

LEMMA RemovingIs ==
  ASSUME NEW w, NEW a, NEW q, NEW e, NEW rep, At(w, a, q, e, rep), NEW d \in Llcs,
         NEW f, f = Leaving(e, d)
  PROVE  /\ Remaining(w, a, e.sharers \ {d}) = SetE(w, a, f)
         /\ Left(f, e, d) /\ f.owner = e.owner /\ f.fwd = e.fwd
<1>1. w \in Works /\ a \in Addrs /\ w.d \in Directory /\ w.d.e \in [Addrs -> DirEntry] /\ w.d.e[a] = e
      /\ e \in DirEntry
  BY FieldTypes DEF At
<1> DEFINE g == Without(e, d)
           y == SetE(w, a, g)
<1>2. g \in DirEntry /\ g.st = e.st /\ g.sharers = e.sharers \ {d} /\ g.owner = e.owner
      /\ g.fwd = e.fwd
  BY <1>1 DEF DirEntry, Without
<1>3. f = [g EXCEPT !.st = IF e.sharers \ {d} = {} THEN "U" ELSE @]
  BY <1>1 DEF DirEntry, Without, Leaving
<1>4. f \in DirEntry /\ f.sharers = g.sharers /\ f.owner = g.owner /\ f.fwd = g.fwd
      /\ f.st = IF e.sharers \ {d} = {} THEN "U" ELSE e.st
  BY <1>2, <1>3 DEF DirEntry
<1>5. y = SetE(w, a, g)
  OBVIOUS
<1>6. y = SetSharers(w, a, e.sharers \ {d})
  BY <1>1 DEF SetE, Without, SetSharers
<1> HIDE DEF g, y
<1>7. g \in DirEntry /\ f \in DirEntry
  BY <1>2, <1>4
<1>8. y.d.e[a] = g /\ SetE(y, a, f) = SetE(w, a, f)
  BY <1>5, <1>7, EntrySetTwice
<1>9. SetState(y, a, e.sharers \ {d}) = SetE(y, a, f)
  BY <1>3, <1>8 DEF SetE, SetState
<1>10. Remaining(w, a, e.sharers \ {d}) = SetState(SetSharers(w, a, e.sharers \ {d}), a, e.sharers \ {d})
  BY DEF Remaining, SetState, SetSharers
<1>11. Remaining(w, a, e.sharers \ {d}) = SetE(w, a, f)
  BY <1>6, <1>8, <1>9, <1>10
<1> QED BY <1>2, <1>4, <1>11 DEF Left

LEMMA Removed ==
  ASSUME NEW w, NEW a, NEW q, NEW e, NEW rep, At(w, a, q, e, rep), NEW d \in Llcs,
         NEW z, z = removeSharer(w, a, d), NEW f, f = Leaving(e, d)
  PROVE  EntryOnly(w, z, a, q, f, rep) /\ Left(f, e, d)
<1> DEFINE cond == d \in Sharers(w, a)
           v == Assert_(w, cond, "removeSharer of a core that is none")
<1>1. v = Assert_(w, cond, "removeSharer of a core that is none")
  OBVIOUS
<1>2. Sharers(w, a) = e.sharers
  BY AtFront
<1>3. z = Remaining(v, a, e.sharers \ {d})
  BY <1>2 DEF removeSharer, Remaining
<1> HIDE DEF cond, v
<1>4. "removeSharer of a core that is none" \in Failures
  BY DEF Failures
<1>5. EntryOnly(w, v, a, q, e, rep)
  BY <1>1, <1>4, EntryAsserted
<1>6. At(v, a, q, e, rep)
  BY <1>5 DEF EntryOnly
<1>7. z = SetE(v, a, f) /\ Left(f, e, d)
  BY <1>3, <1>6, RemovingIs
<1>8. EntryOnly(v, z, a, q, f, rep)
  BY <1>6, <1>7, EntryChanged DEF Left
<1> QED BY <1>5, <1>7, <1>8, EntryOnlyChain


LEMMA EntryOnlyAt ==
  ASSUME NEW w, NEW z, NEW a, NEW q, NEW f, NEW rep, EntryOnly(w, z, a, q, f, rep)
  PROVE  At(z, a, q, f, rep)
  BY DEF EntryOnly

(* The entry's forwarder, its owner, its owner and state are set. *)
ClearFwd(w, a, d) == [w EXCEPT !.d.e[a].fwd = IF @ = d THEN NoCore ELSE @]
ClearBoth(w, a) == [w EXCEPT !.d.e[a].fwd = NoCore, !.d.e[a].owner = NoCore]
ToShared(w, a) == [w EXCEPT !.d.e[a].owner = NoCore, !.d.e[a].st = "S"]
SetFwd(w, a) == [w EXCEPT !.d.e[a].fwd = NoCore]
SetOwner(w, a) == [w EXCEPT !.d.e[a].owner = NoCore]
SetShared(w, a) == [w EXCEPT !.d.e[a].st = "S"]
NoFwd(e) == [e EXCEPT !.fwd = NoCore]
NoOwner(e) == [e EXCEPT !.owner = NoCore]
InShared(e) == [e EXCEPT !.st = "S"]

LEMMA FieldsCleared ==
  ASSUME NEW e \in DirEntry
  PROVE  /\ NoFwd(e) \in DirEntry /\ NoFwd(e).st = e.st /\ NoFwd(e).sharers = e.sharers
         /\ NoOwner(e) \in DirEntry /\ NoOwner(e).st = e.st /\ NoOwner(e).sharers = e.sharers
         /\ InShared(e) \in DirEntry /\ InShared(e).st = "S" /\ InShared(e).sharers = e.sharers
  BY DEF NoFwd, NoOwner, InShared, DirEntry, Cores

LEMMA FieldSet ==
  ASSUME NEW w, NEW a, NEW q, NEW e, NEW rep, At(w, a, q, e, rep)
  PROVE  /\ SetFwd(w, a) = SetE(w, a, NoFwd(e))
         /\ SetOwner(w, a) = SetE(w, a, NoOwner(e))
         /\ SetShared(w, a) = SetE(w, a, InShared(e))
<1>1. w.d.e[a] = e
  BY DEF At
<1>2. SetFwd(w, a) = SetE(w, a, NoFwd(e))
  BY <1>1 DEF SetFwd, NoFwd, SetE
<1>3. SetOwner(w, a) = SetE(w, a, NoOwner(e))
  BY <1>1 DEF SetOwner, NoOwner, SetE
<1>4. SetShared(w, a) = SetE(w, a, InShared(e))
  BY <1>1 DEF SetShared, InShared, SetE
<1> QED BY <1>2, <1>3, <1>4

LEMMA ForwarderCleared ==
  ASSUME NEW w, NEW a, NEW q, NEW e, NEW rep, At(w, a, q, e, rep), NEW d,
         NEW z, z = ClearFwd(w, a, d)
  PROVE  \E f \in DirEntry : /\ EntryOnly(w, z, a, q, f, rep)
                             /\ f.st = e.st /\ f.sharers = e.sharers
<1>1. w.d.e[a] = e /\ e \in DirEntry
  BY DEF At
<1> DEFINE f == [e EXCEPT !.fwd = IF @ = d THEN NoCore ELSE @]
<1>2. f \in DirEntry /\ f.st = e.st /\ f.sharers = e.sharers
  BY <1>1 DEF DirEntry, Cores
<1>3. z = SetE(w, a, f)
  BY <1>1 DEF ClearFwd, SetE
<1> HIDE DEF f
<1>4. EntryOnly(w, z, a, q, f, rep)
  BY <1>2, <1>3, EntryChanged
<1> QED BY <1>2, <1>4

LEMMA BothCleared ==
  ASSUME NEW w, NEW a, NEW q, NEW e, NEW rep, At(w, a, q, e, rep), NEW z, z = ClearBoth(w, a)
  PROVE  \E f \in DirEntry : /\ EntryOnly(w, z, a, q, f, rep)
                             /\ f.st = e.st /\ f.sharers = e.sharers
<1> DEFINE y == SetFwd(w, a)
           g == NoFwd(e)
           f == NoOwner(g)
<1>1. y = SetFwd(w, a) /\ g = NoFwd(e) /\ f = NoOwner(g) /\ e \in DirEntry
  BY DEF At
<1>2. z = SetOwner(y, a)
  BY DEF ClearBoth, SetOwner, SetFwd
<1> HIDE DEF y, g, f
<1>3. g \in DirEntry /\ f \in DirEntry /\ f.st = e.st /\ f.sharers = e.sharers
  BY <1>1, FieldsCleared
<1>4. y = SetE(w, a, g)
  BY <1>1, FieldSet
<1>5. EntryOnly(w, y, a, q, g, rep)
  BY <1>3, <1>4, EntryChanged
<1>6. At(y, a, q, g, rep)
  BY <1>5, EntryOnlyAt
<1>7. z = SetE(y, a, f)
  BY <1>1, <1>2, <1>6, FieldSet
<1>8. EntryOnly(y, z, a, q, f, rep)
  BY <1>3, <1>6, <1>7, EntryChanged
<1>9. EntryOnly(w, z, a, q, f, rep)
  BY <1>5, <1>8, EntryOnlyChain
<1> QED BY <1>3, <1>9

LEMMA MadeShared ==
  ASSUME NEW w, NEW a, NEW q, NEW e, NEW rep, At(w, a, q, e, rep), NEW z, z = ToShared(w, a)
  PROVE  \E f \in DirEntry : /\ EntryOnly(w, z, a, q, f, rep)
                             /\ f.st = "S" /\ f.sharers = e.sharers
<1> DEFINE y == SetOwner(w, a)
           g == NoOwner(e)
           f == InShared(g)
<1>1. y = SetOwner(w, a) /\ g = NoOwner(e) /\ f = InShared(g) /\ e \in DirEntry
  BY DEF At
<1>2. z = SetShared(y, a)
  BY DEF ToShared, SetOwner, SetShared
<1> HIDE DEF y, g, f
<1>3. g \in DirEntry /\ f \in DirEntry /\ f.st = "S" /\ f.sharers = e.sharers
  BY <1>1, FieldsCleared
<1>4. y = SetE(w, a, g)
  BY <1>1, FieldSet
<1>5. EntryOnly(w, y, a, q, g, rep)
  BY <1>3, <1>4, EntryChanged
<1>6. At(y, a, q, g, rep)
  BY <1>5, EntryOnlyAt
<1>7. z = SetE(y, a, f)
  BY <1>1, <1>2, <1>6, FieldSet
<1>8. EntryOnly(y, z, a, q, f, rep)
  BY <1>3, <1>6, <1>7, EntryChanged
<1>9. EntryOnly(w, z, a, q, f, rep)
  BY <1>5, <1>8, EntryOnlyChain
<1> QED BY <1>3, <1>9


(* The entry after INV_REP, FLUSH_REP and WB_REP. *)
LeftBehind(w, z, a, q, e, rep, d) == \E f : EntryOnly(w, z, a, q, f, rep) /\ Left(f, e, d)
SharedBehind(w, z, a, q, e, rep) ==
    \E f \in DirEntry : EntryOnly(w, z, a, q, f, rep) /\ f.st = "S" /\ f.sharers = e.sharers

LEMMA LeftAlike ==
  ASSUME NEW w, NEW y, NEW z, NEW a, NEW q, NEW e, NEW rep, NEW d, NEW g, Left(g, e, d),
         EntryOnly(w, y, a, q, g, rep),
         \E f \in DirEntry : EntryOnly(y, z, a, q, f, rep) /\ f.st = g.st /\ f.sharers = g.sharers
  PROVE  LeftBehind(w, z, a, q, e, rep, d)
<1>1. PICK f \in DirEntry : EntryOnly(y, z, a, q, f, rep) /\ f.st = g.st /\ f.sharers = g.sharers
  OBVIOUS
<1>2. EntryOnly(w, z, a, q, f, rep)
  BY <1>1, EntryOnlyChain
<1>3. Left(f, e, d)
  BY <1>1 DEF Left
<1> QED BY <1>2, <1>3 DEF LeftBehind

LEMMA InvalidatedEntry ==
  ASSUME NEW w, NEW a, NEW q, NEW e, NEW rep, At(w, a, q, e, rep), NEW d \in Llcs,
         NEW z, z = Invalidated(w, d, a)
  PROVE  LeftBehind(w, z, a, q, e, rep, d)
<1> DEFINE cond == HasEntry(w, a) /\ Dstate(w, a) \in {"S", "E"}
           v == Assert_(w, cond, "Ooops")
           u == removeSharer(v, a, d)
           g == Leaving(e, d)
<1>1. v = Assert_(w, cond, "Ooops")
  OBVIOUS
<1>2. u = removeSharer(v, a, d) /\ g = Leaving(e, d)
  OBVIOUS
<1>3. z = ClearFwd(u, a, d)
  BY DEF Invalidated, ClearFwd
<1> HIDE DEF cond, v, u, g
<1>4. "Ooops" \in Failures
  BY DEF Failures
<1>5. EntryOnly(w, v, a, q, e, rep)
  BY <1>1, <1>4, EntryAsserted
<1>6. At(v, a, q, e, rep)
  BY <1>5, EntryOnlyAt
<1>7. EntryOnly(v, u, a, q, g, rep) /\ Left(g, e, d)
  BY <1>2, <1>6, Removed
<1>8. EntryOnly(w, u, a, q, g, rep)
  BY <1>5, <1>7, EntryOnlyChain
<1>9. At(u, a, q, g, rep)
  BY <1>8, EntryOnlyAt
<1>10. \E f \in DirEntry : EntryOnly(u, z, a, q, f, rep) /\ f.st = g.st /\ f.sharers = g.sharers
  BY <1>3, <1>9, ForwarderCleared
<1> QED BY <1>7, <1>8, <1>10, LeftAlike

LEMMA FlushedEntry ==
  ASSUME NEW w, NEW a, NEW q, NEW e, NEW rep, At(w, a, q, e, rep), NEW d \in Llcs,
         NEW z, z = Flushed(w, d, a)
  PROVE  LeftBehind(w, z, a, q, e, rep, d)
<1> DEFINE cond == HasEntry(w, a)
           v == Assert_(w, cond, "flush without entry")
           u == removeSharer(v, a, d)
           cond2 == Dstate(u, a) \in {"U", "S"}
           x == Assert_(u, cond2, "flush leaves sharers")
           g == Leaving(e, d)
<1>1. v = Assert_(w, cond, "flush without entry")
  OBVIOUS
<1>2. u = removeSharer(v, a, d) /\ g = Leaving(e, d)
  OBVIOUS
<1>3. x = Assert_(u, cond2, "flush leaves sharers")
  OBVIOUS
<1>4. z = ClearBoth(x, a)
  BY DEF Flushed, ClearBoth
<1> HIDE DEF cond, v, u, g, cond2, x
<1>5. "flush without entry" \in Failures
  BY DEF Failures
<1>6. "flush leaves sharers" \in Failures
  BY DEF Failures
<1>7. EntryOnly(w, v, a, q, e, rep)
  BY <1>1, <1>5, EntryAsserted
<1>8. At(v, a, q, e, rep)
  BY <1>7, EntryOnlyAt
<1>9. EntryOnly(v, u, a, q, g, rep) /\ Left(g, e, d)
  BY <1>2, <1>8, Removed
<1>10. EntryOnly(w, u, a, q, g, rep)
  BY <1>7, <1>9, EntryOnlyChain
<1>11. At(u, a, q, g, rep)
  BY <1>10, EntryOnlyAt
<1>12. EntryOnly(u, x, a, q, g, rep)
  BY <1>3, <1>6, <1>11, EntryAsserted
<1>13. EntryOnly(w, x, a, q, g, rep)
  BY <1>10, <1>12, EntryOnlyChain
<1>14. At(x, a, q, g, rep)
  BY <1>13, EntryOnlyAt
<1>15. \E f \in DirEntry : EntryOnly(x, z, a, q, f, rep) /\ f.st = g.st /\ f.sharers = g.sharers
  BY <1>4, <1>14, BothCleared
<1> QED BY <1>9, <1>13, <1>15, LeftAlike

LEMMA WrittenBackEntry ==
  ASSUME NEW w, NEW a, NEW q, NEW e, NEW rep, At(w, a, q, e, rep), NEW d \in Llcs,
         NEW z, z = WrittenBack(w, d, a)
  PROVE  SharedBehind(w, z, a, q, e, rep)
<1> DEFINE cond == HasEntry(w, a) /\ d \in Sharers(w, a)
           v == Assert_(w, cond, "WB_REP of no sharer")
<1>1. v = Assert_(w, cond, "WB_REP of no sharer")
  OBVIOUS
<1>2. z = ToShared(v, a)
  BY DEF WrittenBack, ToShared
<1> HIDE DEF cond, v
<1>3. "WB_REP of no sharer" \in Failures
  BY DEF Failures
<1>4. EntryOnly(w, v, a, q, e, rep)
  BY <1>1, <1>3, EntryAsserted
<1>5. At(v, a, q, e, rep)
  BY <1>4, EntryOnlyAt
<1>6. PICK f \in DirEntry : EntryOnly(v, z, a, q, f, rep) /\ f.st = "S" /\ f.sharers = e.sharers
  BY <1>2, <1>5, MadeShared
<1>7. EntryOnly(w, z, a, q, f, rep)
  BY <1>4, <1>6, EntryOnlyChain
<1> QED BY <1>6, <1>7 DEF SharedBehind


(* A cache has given up its copy: what the handler then finds. *)
Given(w, rest, d, a, q, f, rep) ==
    /\ Fine(w, rest) /\ At(w, a, q, f, rep) /\ HasEntry(w, a) /\ w.next = FALSE
    /\ d \in Llcs /\ d \notin f.sharers /\ f.st \in {"U", "S"}
    /\ Granted(q) => f.st = "S" /\ Head(q).t = "SH_REQ"
FlushGives(q, f) == f.st = "S" => q # <<>> /\ Head(q).t = "UPGRADE_REQ" /\ ~Head(q).wait

LEMMA GivenFine ==
  ASSUME NEW w, NEW rr, NEW rr2, NEW d, NEW a, NEW q, NEW e, NEW rep,
         Arriving(w, rr, rr2, d, a, q, e, rep), NEW m, m = Head(rr[d]), m.t \in Gives,
         NEW z, LeftBehind(w, z, a, q, e, rep, d)
  PROVE  /\ HasEntry(w, a)
         /\ \E f : Given(z, rr2, d, a, q, f, rep) /\ (m.t = "FLUSH_REP" => FlushGives(q, f))
<1> DEFINE known == HasEntry(w, a)
           ss == Out(w)
<1>1. PICK f : EntryOnly(w, z, a, q, f, rep) /\ Left(f, e, d)
  BY DEF LeftBehind
<1>2. /\ At(z, a, q, f, rep) /\ Apart(w, z, a) /\ z.out = w.out /\ z.next = w.next
      /\ f \in DirEntry /\ f.sharers = e.sharers \ {d}
      /\ f.st = IF f.sharers = {} THEN "U" ELSE e.st
  BY <1>1 DEF EntryOnly, Left
<1>3. /\ Fine(w, rr) /\ At(w, a, q, e, rep) /\ w.next = FALSE /\ d \in Llcs
      /\ rr2 \in [Llcs -> Seq(ToDirMsg)] /\ Taken(rr, rr2, d)
      /\ rr[d] # <<>> /\ m.a = a /\ a \in Addrs
  BY DEF Arriving, At
<1>4. known = HasEntry(w, a) /\ ss = Out(w)
  OBVIOUS
<1> HIDE DEF known, ss
<1>5. LineAt(w, rr, a, q, e, rep, known, ss)
  BY <1>3, <1>4, FineLine
<1>6. LineOK(a, q, e, rep, known, ss, rr) /\ rr \in [Llcs -> Seq(ToDirMsg)]
  BY <1>5 DEF LineAt
<1>7. LineOK(a, q, f, rep, known, ss, rr2) /\ LeftFacts(q, f, known, m.t)
  <2>1. /\ LineOK(a, q, e, rep, known, ss, rr) /\ rr \in [Llcs -> Seq(ToDirMsg)] /\ d \in Llcs
        /\ rr[d] # <<>> /\ Head(rr[d]).a = a /\ Taken(rr, rr2, d)
    BY <1>3, <1>6
  <2> QED BY <1>1, <2>1, LineGives
<1>8. HasEntry(z, a) = known /\ Out(z) = ss
  BY <1>2, <1>4, OutSame DEF Apart, HasEntry
<1>9. FineAt(z, rr2, a)
  BY <1>2, <1>7, <1>8 DEF FineAt, At
<1>10. OnlyAt(w, z, a)
  BY <1>2, ApartOnly
<1>11. Fine(z, rr2)
  BY <1>3, <1>9, <1>10, TakenFine
<1>12. Given(z, rr2, d, a, q, f, rep)
  BY <1>2, <1>3, <1>7, <1>8, <1>11 DEF Given, LeftFacts
<1>13. m.t = "FLUSH_REP" => FlushGives(q, f)
  BY <1>7 DEF FlushGives, LeftFacts
<1> QED BY <1>4, <1>7, <1>12, <1>13 DEF LeftFacts

(* No write-back is under way from the cache that gave up its copy, nor, if the   *)
(* front request waits for that cache, from any other.                       *)
LEMMA SenderCalm ==
  ASSUME NEW a, NEW q, NEW f, NEW rep, NEW known, NEW ss, NEW rr, LineOK(a, q, f, rep, known, ss, rr),
         f.st \in {"U", "S"}, NEW d \in Llcs, d \notin f.sharers, q # <<>>, Head(q).from = d
  PROVE  NoWriteBack(a, ss, rr)
<1> SUFFICES ASSUME NEW k \in Llcs
             PROVE  /\ ~Live(ss[k], {"WB_REQ"}, a, cache[k][a].st # "I")
                    /\ ~Has(rr[k], {"WB_REP"}, a)
  BY DEF NoWriteBack
<1>1. PairInv(k, a, cache[k][a].st, waiters[k][a], ss[k], rr[k], q, f)
  BY DEF LineOK
<1>2. CASE k = d
  BY <1>1, <1>2, NotListed
<1>3. CASE k # d
  BY <1>1, <1>3 DEF PairInv, WriteBackUnderWay
<1> QED BY <1>2, <1>3

LEMMA GivenReady ==
  ASSUME NEW w, NEW rest, NEW d, NEW a, NEW q, NEW f, NEW rep, Given(w, rest, d, a, q, f, rep),
         q # <<>>, Head(q).t = "SH_REQ" => ~KeepsWaiting(Head(q), d)
  PROVE  Ready(w, rest, a, q, f, rep)
<1> DEFINE known == HasEntry(w, a)
           ss == Out(w)
<1>1. known = HasEntry(w, a) /\ ss = Out(w)
  OBVIOUS
<1> HIDE DEF known, ss
<1>2. /\ Fine(w, rest) /\ At(w, a, q, f, rep) /\ HasEntry(w, a) /\ w.next = FALSE
      /\ d \in Llcs /\ d \notin f.sharers /\ f.st \in {"U", "S"}
      /\ Granted(q) => f.st = "S" /\ Head(q).t = "SH_REQ"
  BY DEF Given
<1>3. LineAt(w, rest, a, q, f, rep, known, ss)
  BY <1>1, <1>2, FineLine
<1>4. LineOK(a, q, f, rep, known, ss, rest)
  BY <1>3 DEF LineAt
<1>5. ~Head(q).wait
  BY <1>2 DEF KeepsWaiting, Granted
<1>6. NoWriteBack(a, ss, rest)
  <2>1. CASE Head(q).t # "SH_REQ" \/ Head(q).from = NoCore
    BY <1>2, <1>4, <2>1, WhenNoWriteBack
  <2>2. CASE Head(q).t = "SH_REQ" /\ Head(q).from # NoCore
    <3>1. Head(q).from = d
      BY <2>2 DEF KeepsWaiting
    <3> QED BY <1>2, <1>4, <3>1, SenderCalm
  <2> QED BY <2>1, <2>2
<1>7. Calm(w, rest, a)
  BY <1>1, <1>6 DEF Calm
<1> QED BY <1>2, <1>5, <1>7 DEF Ready


(* What was given goes to DRAM. *)
LEMMA GivenMemory ==
  ASSUME NEW w, NEW rest, NEW d, NEW a, NEW q, NEW f, NEW rep, Given(w, rest, d, a, q, f, rep),
         NEW data \in Filled, NEW z, z = sendDataToDram(w, a, data)
  PROVE  Given(z, rest, d, a, q, f, rep)
<1>1. /\ Fine(w, rest) /\ At(w, a, q, f, rep) /\ HasEntry(w, a) /\ w.next = FALSE
      /\ d \in Llcs /\ d \notin f.sharers /\ f.st \in {"U", "S"}
      /\ Granted(q) => f.st = "S" /\ Head(q).t = "SH_REQ"
  BY DEF Given
<1>2. At(z, a, q, f, rep) /\ Apart(w, z, a) /\ Quiet(w, z)
  BY <1>1, AtMemory
<1>3. OnlyAt(w, z, a)
  BY <1>2, ApartOnly DEF Quiet
<1>4. Out(z) = Out(w) /\ (HasEntry(z, a) <=> HasEntry(w, a))
  BY <1>2, OutSame DEF Apart, Quiet, HasEntry
<1>5. FineAt(z, rest, a)
  <2>1. FineAt(w, rest, a) /\ a \in Addrs
    BY <1>1 DEF Fine, At
  <2>2. HasEntry(z, a) = HasEntry(w, a)
    BY <1>2 DEF Apart, HasEntry
  <2> QED BY <1>1, <1>2, <1>4, <2>1, <2>2 DEF FineAt, At
<1>6. Fine(z, rest)
  <2>1. a \in Addrs
    BY <1>1 DEF At
  <2> QED BY <1>1, <1>3, <1>5, <2>1, OnlyAtFine
<1>7. z.next = FALSE
  BY <1>1, <1>2 DEF Quiet
<1> QED BY <1>1, <1>2, <1>4, <1>6, <1>7 DEF Given

LEMMA GivenGoes ==
  ASSUME NEW w, NEW rest, NEW d, NEW a, NEW q, NEW f, NEW rep, Given(w, rest, d, a, q, f, rep)
  PROVE  Goes(w, rest, a)
  BY DEF Given, Goes

LEMMA GivenParts ==
  ASSUME NEW w, NEW rest, NEW d, NEW a, NEW q, NEW f, NEW rep, Given(w, rest, d, a, q, f, rep)
  PROVE  /\ At(w, a, q, f, rep) /\ w.d.q[a] = q /\ FrontReq(w, a) = Head(q) /\ Dstate(w, a) = f.st
         /\ Sharers(w, a) = f.sharers /\ f.st \in {"U", "S"} /\ NoData \in Data
         /\ q # <<>> => Head(q).t \in Reqs \union {"NULLIFY_REQ"}
<1>1. At(w, a, q, f, rep) /\ f.st \in {"U", "S"}
  BY DEF Given
<1>2. FrontReq(w, a) = Head(q) /\ Dstate(w, a) = f.st /\ Sharers(w, a) = f.sharers /\ w.d.q[a] = q
  BY <1>1, AtFront
<1>3. q # <<>> => Head(q).t \in Reqs \union {"NULLIFY_REQ"}
  <2> SUFFICES ASSUME q # <<>> PROVE Head(q).t \in Reqs \union {"NULLIFY_REQ"}
    OBVIOUS
  <2>1. q \in Seq(DirReq)
    BY <1>1 DEF At
  <2>2. Head(q) \in DirReq
    BY <2>1, Popped
  <2> QED BY <2>2 DEF DirReq
<1> QED BY <1>1, <1>2, <1>3 DEF Data

LEMMA AfterInvDone ==
  ASSUME NEW w, NEW rest, NEW d, NEW a, NEW q, NEW f, NEW rep, Given(w, rest, d, a, q, f, rep),
         NEW z, z = AfterInv(w, d, a), z.err = NoFailure
  PROVE  Goes(z, rest, a)
<1>1. /\ At(w, a, q, f, rep) /\ w.d.q[a] = q /\ FrontReq(w, a) = Head(q) /\ Dstate(w, a) = f.st
      /\ Sharers(w, a) = f.sharers /\ f.st \in {"U", "S"} /\ NoData \in Data
      /\ q # <<>> => Head(q).t \in Reqs \union {"NULLIFY_REQ"}
  BY GivenParts
<1>2. CASE z = w
  BY <1>2, GivenGoes
<1>3. CASE q # <<>> /\ Head(q).t = "EX_REQ" /\ z = processExReq(w, a, NoData)
  <2>1. Ready(w, rest, a, q, f, rep)
    BY <1>3, GivenReady
  <2> QED BY <1>1, <1>3, <2>1, ExDone
<1>4. CASE q # <<>> /\ Head(q).t = "UPGRADE_REQ" /\ z = processUpgradeReq(w, a, NoData)
  <2>1. Ready(w, rest, a, q, f, rep)
    BY <1>4, GivenReady
  <2> QED BY <1>1, <1>4, <2>1, UpDone
<1>5. CASE q # <<>> /\ Head(q).t = "SH_REQ" /\ ~KeepsWaiting(Head(q), d) /\ z = processShReq(w, a, NoData)
  <2>1. Ready(w, rest, a, q, f, rep)
    BY <1>5, GivenReady
  <2> QED BY <1>1, <1>5, <2>1, ShDone
<1>6. CASE q # <<>> /\ Head(q).t = "NULLIFY_REQ" /\ z = processNullifyReq(w, a)
  <2>1. Ready(w, rest, a, q, f, rep)
    BY <1>6, GivenReady
  <2> QED BY <1>6, <2>1, NullifyDone
<1>7. \/ z = w
      \/ q # <<>> /\ Head(q).t = "EX_REQ" /\ z = processExReq(w, a, NoData)
      \/ q # <<>> /\ Head(q).t = "UPGRADE_REQ" /\ z = processUpgradeReq(w, a, NoData)
      \/ q # <<>> /\ Head(q).t = "SH_REQ" /\ ~KeepsWaiting(Head(q), d) /\ z = processShReq(w, a, NoData)
      \/ q # <<>> /\ Head(q).t = "NULLIFY_REQ" /\ z = processNullifyReq(w, a)
  <2>1. CASE q = <<>>
    BY <1>1, <2>1 DEF AfterInv
  <2>2. CASE q # <<>> /\ Head(q).t = "EX_REQ"
    BY <1>1, <2>2 DEF AfterInv
  <2>3. CASE q # <<>> /\ Head(q).t = "UPGRADE_REQ"
    BY <1>1, <2>3 DEF AfterInv
  <2>4. CASE q # <<>> /\ Head(q).t = "SH_REQ"
    BY <1>1, <2>4 DEF AfterInv
  <2>5. CASE q # <<>> /\ Head(q).t = "NULLIFY_REQ"
    BY <1>1, <2>5 DEF AfterInv
  <2> QED BY <1>1, <2>1, <2>2, <2>3, <2>4, <2>5 DEF Reqs
<1> QED BY <1>2, <1>3, <1>4, <1>5, <1>6, <1>7


(* What was flushed is kept with the upgrade that waits for more invalidations.  *)
KeepBuf(w, a, data) == [w EXCEPT !.d.q[a][1].buf = data]

LEMMA Buffered ==
  ASSUME NEW w, NEW rest, NEW d, NEW a, NEW q, NEW f, NEW rep, Given(w, rest, d, a, q, f, rep),
         q # <<>>, NEW data \in Data, NEW z, z = KeepBuf(w, a, data)
  PROVE  Goes(z, rest, a)
<1> DEFINE p == MarkBuf(q, data)
           known == HasEntry(w, a)
           ss == Out(w)
<1>1. /\ Fine(w, rest) /\ At(w, a, q, f, rep) /\ w.next = FALSE
  BY DEF Given
<1>2. w.d.q[a] = q /\ q \in Seq(DirReq) /\ a \in Addrs
  BY <1>1 DEF At
<1>3. z = SetQ(w, a, p)
  BY <1>2 DEF KeepBuf, SetQ, MarkBuf
<1>4. p = MarkBuf(q, data) /\ known = HasEntry(w, a) /\ ss = Out(w)
  OBVIOUS
<1> HIDE DEF p, known, ss
<1>5. Marks(p, q) /\ p[1].from = q[1].from /\ p[1].wait = q[1].wait
  BY <1>2, <1>4, MarkedBuf
<1>6. /\ p \in Seq(DirReq) /\ p # <<>> /\ Len(p) = Len(q)
      /\ \A i \in 1 .. Len(q) : p[i].c = q[i].c /\ p[i].t = q[i].t /\ p[i].from = q[i].from
      /\ \A i \in 2 .. Len(q) : p[i].wait = q[i].wait
      /\ Granted(q) => Granted(p)
  BY <1>5 DEF Marks, Granted
<1>7. At(z, a, p, f, rep) /\ Apart(w, z, a) /\ Quiet(w, z)
  BY <1>1, <1>3, <1>6, AtQueue
<1>8. LineAt(w, rest, a, q, f, rep, known, ss)
  BY <1>1, <1>4, FineLine
<1>9. /\ LineOK(a, q, f, rep, known, ss, rest) /\ Len(rep) <= 1
      /\ rep # <<>> => q # <<>> /\ Head(q).wait
  BY <1>8 DEF LineAt
<1>10. LineOK(a, p, f, rep, known, ss, rest)
  <2>1. rep # <<>> => p[1].wait
    BY <1>5, <1>9 DEF Marks
  <2> QED BY <1>5, <1>6, <1>9, <2>1, LineMarked
<1>11. Out(z) = ss /\ HasEntry(z, a) = known
  BY <1>4, <1>7, OutSame DEF Apart, Quiet, HasEntry
<1>12. OnlyAt(w, z, a)
  BY <1>7, ApartOnly DEF Quiet
<1>13. FineAt(z, rest, a)
  BY <1>7, <1>10, <1>11 DEF FineAt, At
<1>14. Fine(z, rest)
  BY <1>1, <1>2, <1>12, <1>13, OnlyAtFine
<1>15. z.next = FALSE
  BY <1>1, <1>7 DEF Quiet
<1> QED BY <1>14, <1>15 DEF Goes

LEMMA AfterFlushDone ==
  ASSUME NEW w, NEW rest, NEW d, NEW a, NEW q, NEW f, NEW rep, Given(w, rest, d, a, q, f, rep),
         FlushGives(q, f), NEW data \in Filled,
         NEW z, z = AfterFlush(w, a, data), z.err = NoFailure
  PROVE  Goes(z, rest, a)
<1> DEFINE v == sendDataToDram(w, a, data)
<1>1. /\ At(w, a, q, f, rep) /\ w.d.q[a] = q /\ FrontReq(w, a) = Head(q) /\ Dstate(w, a) = f.st
      /\ Sharers(w, a) = f.sharers /\ f.st \in {"U", "S"} /\ data \in Data
      /\ q # <<>> => Head(q).t \in Reqs \union {"NULLIFY_REQ"}
  BY GivenParts DEF Filled
<1>2. v = sendDataToDram(w, a, data)
  OBVIOUS
<1> HIDE DEF v
<1>3. Given(v, rest, d, a, q, f, rep)
  BY <1>2, GivenMemory
<1>4. q # <<>> /\ Head(q).t = "SH_REQ" => ~KeepsWaiting(Head(q), d)
  <2>1. q # <<>> /\ Head(q).t = "SH_REQ" => ~Granted(q)
    BY DEF FlushGives, Given
  <2> QED BY <2>1 DEF Granted, KeepsWaiting
<1>5. CASE q = <<>>
  <2>1. z = v
    BY <1>1, <1>2, <1>5 DEF AfterFlush
  <2> QED BY <1>3, <2>1, GivenGoes
<1>6. CASE q # <<>> /\ Head(q).t = "EX_REQ"
  <2>1. Ready(w, rest, a, q, f, rep)
    BY <1>6, GivenReady
  <2>2. z = processExReq(w, a, data)
    BY <1>1, <1>6 DEF AfterFlush
  <2> QED BY <1>1, <1>6, <2>1, <2>2, ExDone
<1>7. CASE q # <<>> /\ Head(q).t = "SH_REQ"
  <2>1. Ready(v, rest, a, q, f, rep)
    BY <1>3, <1>4, <1>7, GivenReady
  <2>2. z = processShReq(v, a, data)
    BY <1>1, <1>2, <1>7 DEF AfterFlush
  <2> QED BY <1>1, <1>7, <2>1, <2>2, ShDone
<1>8. CASE q # <<>> /\ Head(q).t = "UPGRADE_REQ"
  <2>1. CASE f.st = "U"
    <3>1. Ready(w, rest, a, q, f, rep)
      BY <1>8, GivenReady
    <3>2. z = processUpgradeReq(w, a, data)
      BY <1>1, <1>8, <2>1 DEF AfterFlush
    <3> QED BY <1>1, <1>8, <3>1, <3>2, UpDone
  <2>2. CASE f.st # "U"
    <3>1. z = KeepBuf(w, a, data)
      BY <1>1, <1>8, <2>2 DEF AfterFlush, KeepBuf
    <3> QED BY <1>1, <1>8, <3>1, Buffered
  <2> QED BY <2>1, <2>2
<1>9. CASE q # <<>> /\ Head(q).t = "NULLIFY_REQ"
  <2>1. Ready(v, rest, a, q, f, rep)
    BY <1>3, <1>9, GivenReady
  <2>2. z = processNullifyReq(v, a)
    BY <1>1, <1>2, <1>9 DEF AfterFlush
  <2> QED BY <1>9, <2>1, <2>2, NullifyDone
<1> QED BY <1>1, <1>5, <1>6, <1>7, <1>8, <1>9 DEF Reqs

(* The owner has written the line back, for the read that waits. *)
LEMMA WrittenReady ==
  ASSUME NEW w, NEW rr, NEW rr2, NEW d, NEW a, NEW q, NEW e, NEW rep,
         Arriving(w, rr, rr2, d, a, q, e, rep), NEW m, m = Head(rr[d]), m.t = "WB_REP",
         NEW z, SharedBehind(w, z, a, q, e, rep)
  PROVE  /\ HasEntry(w, a) /\ q # <<>> /\ Head(q).t = "SH_REQ"
         /\ \E f : Ready(z, rr2, a, q, f, rep)
<1> DEFINE known == HasEntry(w, a)
           ss == Out(w)
<1>1. PICK f \in DirEntry : EntryOnly(w, z, a, q, f, rep) /\ f.st = "S" /\ f.sharers = e.sharers
  BY DEF SharedBehind
<1>2. /\ At(z, a, q, f, rep) /\ Apart(w, z, a) /\ z.out = w.out /\ z.next = w.next
      /\ Written(f, e)
  BY <1>1 DEF EntryOnly, Written
<1>3. /\ Fine(w, rr) /\ At(w, a, q, e, rep) /\ w.next = FALSE /\ d \in Llcs
      /\ rr2 \in [Llcs -> Seq(ToDirMsg)] /\ Taken(rr, rr2, d)
      /\ rr[d] # <<>> /\ m.a = a /\ a \in Addrs
  BY DEF Arriving, At
<1>4. known = HasEntry(w, a) /\ ss = Out(w)
  OBVIOUS
<1> HIDE DEF known, ss
<1>5. LineAt(w, rr, a, q, e, rep, known, ss)
  BY <1>3, <1>4, FineLine
<1>6. LineOK(a, q, e, rep, known, ss, rr) /\ rr \in [Llcs -> Seq(ToDirMsg)]
  BY <1>5 DEF LineAt
<1>7. LineOK(a, q, f, rep, known, ss, rr2) /\ NoWriteBack(a, ss, rr2) /\ ReadsNow(q, known)
  <2>1. /\ LineOK(a, q, e, rep, known, ss, rr) /\ rr \in [Llcs -> Seq(ToDirMsg)] /\ d \in Llcs
        /\ rr[d] # <<>> /\ Head(rr[d]).a = a /\ Head(rr[d]).t = "WB_REP" /\ Taken(rr, rr2, d)
    BY <1>3, <1>6
  <2> QED BY <1>2, <2>1, LineWritesBack
<1>8. HasEntry(z, a) = known /\ Out(z) = ss
  BY <1>2, <1>4, OutSame DEF Apart, HasEntry
<1>9. FineAt(z, rr2, a)
  BY <1>2, <1>7, <1>8 DEF FineAt, At
<1>10. OnlyAt(w, z, a)
  BY <1>2, ApartOnly
<1>11. Fine(z, rr2)
  BY <1>3, <1>9, <1>10, TakenFine
<1>12. Calm(z, rr2, a)
  BY <1>7, <1>8 DEF Calm
<1>13. known /\ q # <<>> /\ Head(q).t = "SH_REQ" /\ ~Head(q).wait
  BY <1>7 DEF ReadsNow
<1>14. Ready(z, rr2, a, q, f, rep)
  BY <1>1, <1>2, <1>3, <1>8, <1>11, <1>12, <1>13 DEF Ready
<1> QED BY <1>4, <1>13, <1>14


(* The three messages that give a line up or write it back. *)
LEMMA InvHandled ==
  ASSUME NEW w, NEW rr, NEW rr2, NEW d, NEW a, NEW q, NEW e, NEW rep,
         Arriving(w, rr, rr2, d, a, q, e, rep), NEW m, m = Head(rr[d]), m.t = "INV_REP",
         sys \in Systems, NEW z, z = processInvRep(w, d, a), z.err = NoFailure
  PROVE  Goes(z, rr2, a)
<1> DEFINE y == getDirectoryEntry(w, a)
           v == Invalidated(w, d, a)
<1>1. y = getDirectoryEntry(w, a) /\ v = Invalidated(w, d, a)
  OBVIOUS
<1>2. z = AfterInv(Invalidated(y, d, a), d, a)
  BY DEF processInvRep
<1> HIDE DEF y, v
<1>3. Fine(w, rr) /\ At(w, a, q, e, rep) /\ d \in Llcs
  BY DEF Arriving
<1>4. LeftBehind(w, v, a, q, e, rep, d)
  BY <1>1, <1>3, InvalidatedEntry
<1>5. m.t \in Gives
  BY DEF Gives
<1>6. HasEntry(w, a) /\ \E f : Given(v, rr2, d, a, q, f, rep)
  BY <1>4, <1>5, GivenFine
<1>7. PICK f : Given(v, rr2, d, a, q, f, rep)
  BY <1>6
<1>8. y = w
  <2>1. \E g : Got(w, y, a, q, e, rep, g)
    BY <1>1, <1>3, EntryGot
  <2> QED BY <1>6, <2>1 DEF Got
<1>9. z = AfterInv(v, d, a)
  BY <1>1, <1>2, <1>8
<1> QED BY <1>7, <1>9, AfterInvDone

LEMMA FlushHandled ==
  ASSUME NEW w, NEW rr, NEW rr2, NEW d, NEW a, NEW q, NEW e, NEW rep,
         Arriving(w, rr, rr2, d, a, q, e, rep), NEW m, m = Head(rr[d]), m.t = "FLUSH_REP",
         sys \in Systems, NEW data \in Filled,
         NEW z, z = processFlushRep(w, d, a, data), z.err = NoFailure
  PROVE  Goes(z, rr2, a)
<1> DEFINE y == getDirectoryEntry(w, a)
           v == Flushed(w, d, a)
<1>1. y = getDirectoryEntry(w, a) /\ v = Flushed(w, d, a)
  OBVIOUS
<1>2. z = AfterFlush(Flushed(y, d, a), a, data)
  BY DEF processFlushRep
<1> HIDE DEF y, v
<1>3. Fine(w, rr) /\ At(w, a, q, e, rep) /\ d \in Llcs
  BY DEF Arriving
<1>4. LeftBehind(w, v, a, q, e, rep, d)
  BY <1>1, <1>3, FlushedEntry
<1>5. m.t \in Gives
  BY DEF Gives
<1>6. /\ HasEntry(w, a)
      /\ \E f : Given(v, rr2, d, a, q, f, rep) /\ (m.t = "FLUSH_REP" => FlushGives(q, f))
  BY <1>4, <1>5, GivenFine
<1>7. PICK f : Given(v, rr2, d, a, q, f, rep) /\ FlushGives(q, f)
  BY <1>6
<1>8. y = w
  <2>1. \E g : Got(w, y, a, q, e, rep, g)
    BY <1>1, <1>3, EntryGot
  <2> QED BY <1>6, <2>1 DEF Got
<1>9. z = AfterFlush(v, a, data)
  BY <1>1, <1>2, <1>8
<1> QED BY <1>7, <1>9, AfterFlushDone

LEMMA WbHandled ==
  ASSUME NEW w, NEW rr, NEW rr2, NEW d, NEW a, NEW q, NEW e, NEW rep,
         Arriving(w, rr, rr2, d, a, q, e, rep), NEW m, m = Head(rr[d]), m.t = "WB_REP",
         sys \in Systems, NEW data \in Data,
         NEW z, z = processWbRep(w, d, a, data), z.err = NoFailure
  PROVE  Goes(z, rr2, a)
<1> DEFINE y == getDirectoryEntry(w, a)
           v == WrittenBack(w, d, a)
<1>1. y = getDirectoryEntry(w, a) /\ v = WrittenBack(w, d, a)
  OBVIOUS
<1>2. z = AfterWb(WrittenBack(y, d, a), a, data)
  BY DEF processWbRep
<1> HIDE DEF y, v
<1>3. Fine(w, rr) /\ At(w, a, q, e, rep) /\ d \in Llcs
  BY DEF Arriving
<1>4. SharedBehind(w, v, a, q, e, rep)
  BY <1>1, <1>3, WrittenBackEntry
<1>5. HasEntry(w, a) /\ q # <<>> /\ Head(q).t = "SH_REQ" /\ \E f : Ready(v, rr2, a, q, f, rep)
  BY <1>4, WrittenReady
<1>6. PICK f : Ready(v, rr2, a, q, f, rep)
  BY <1>5
<1>7. y = w
  <2>1. \E g : Got(w, y, a, q, e, rep, g)
    BY <1>1, <1>3, EntryGot
  <2> QED BY <1>5, <2>1 DEF Got
<1>8. At(v, a, q, f, rep)
  BY <1>6 DEF Ready
<1>9. v.d.q[a] = q /\ FrontReq(v, a) = Head(q)
  BY <1>8, AtFront
<1>10. z = processShReq(v, a, data)
  BY <1>1, <1>2, <1>5, <1>7, <1>9 DEF AfterWb
<1> QED BY <1>5, <1>6, <1>10, ShDone

(* handleMsgFromL2Cache. *)
LEMMA MessageHandled ==
  ASSUME NEW w, NEW rr, NEW rr2, NEW d, NEW a, NEW q, NEW e, NEW rep,
         Arriving(w, rr, rr2, d, a, q, e, rep), NEW m, m = Head(rr[d]),
         sys \in Systems, NEW z, z = handleMsgFromL2Cache(w, d, m), z.err = NoFailure
  PROVE  Fine(z, rr2)
<1> DEFINE y == Handled(w, d, m)
<1>1. m \in ToDirMsg /\ m.a = a /\ a \in Addrs
  BY DEF Arriving, At
<1>2. /\ m.t \in Reqs \union Gives \union {"WB_REP"} /\ m.data \in Data
      /\ m.t = "FLUSH_REP" => m.data \in Filled
  BY <1>1 DEF ToDirMsg, Filled
<1>3. y = Handled(w, d, m) /\ z = Settle(y, a)
  BY <1>1 DEF handleMsgFromL2Cache
<1> HIDE DEF y
<1>4. y.err = NoFailure
  BY <1>3, SettledErr
<1>5. Goes(y, rr2, a)
  <2>1. CASE m.t \in Reqs
    <3>1. y = EnqueueReq(w, d, m)
      BY <1>3, <2>1 DEF Handled, Reqs
    <3> QED BY <1>4, <2>1, <3>1, Enqueued
  <2>2. CASE m.t = "INV_REP"
    <3>1. y = processInvRep(w, d, a)
      BY <1>1, <1>3, <2>2 DEF Handled
    <3> QED BY <1>4, <2>2, <3>1, InvHandled
  <2>3. CASE m.t = "FLUSH_REP"
    <3>1. y = processFlushRep(w, d, a, m.data)
      BY <1>1, <1>3, <2>3 DEF Handled
    <3> QED BY <1>2, <1>4, <2>3, <3>1, FlushHandled
  <2>4. CASE m.t = "WB_REP"
    <3>1. y = processWbRep(w, d, a, m.data)
      BY <1>1, <1>3, <2>4 DEF Handled
    <3> QED BY <1>2, <1>4, <2>4, <3>1, WbHandled
  <2> QED BY <1>2, <2>1, <2>2, <2>3, <2>4 DEF Gives
<1>6. At(y, a, y.d.q[a], y.d.e[a], y.d.reply[a])
  <2>1. y \in Works
    BY <1>5 DEF Goes, Fine
  <2> QED BY <1>1, <2>1, FieldTypes DEF At
<1> QED BY <1>3, <1>5, <1>6, Settled

-----------------------------------------------------------------------------
(* The invariant and the directory at work.                                      *)
LEMMA EmptyAfter ==
  ASSUME NEW s \in Seq(ToCacheMsg) PROVE s \o <<>> = s
  OBVIOUS

LEMMA WorkBegins ==
  ASSUME IInv, NEW v \in Addrs, NEW o \in Llcs, NEW w, w = Working(dir, v, o)
  PROVE  Fine(w, toDir) /\ w.d = dir /\ w.next = FALSE
<1>1. /\ dir \in Directory /\ toCache \in [Llcs -> Seq(ToCacheMsg)]
      /\ toDir \in [Llcs -> Seq(ToDirMsg)] /\ SlotsInv(dir)
  BY DEF IInv, Types
<1>2. /\ w.d = dir /\ w.out = [c \in Llcs |-> <<>>] /\ w.err = NoFailure /\ w.next = FALSE
      /\ w.victim = v /\ w.one = o
  BY DEF Working
<1>3. w \in Works
  <2>1. [c \in Llcs |-> <<>>] \in [Llcs -> Seq(ToCacheMsg)]
    OBVIOUS
  <2>2. NoFailure \in Failures \union {NoFailure}
    OBVIOUS
  <2> QED BY <1>1, <2>1, <2>2 DEF Working, Works
<1>4. Out(w) = toCache
  <2>1. ASSUME NEW k \in Llcs PROVE toCache[k] \o w.out[k] = toCache[k]
    BY <1>1, <1>2, EmptyAfter
  <2> QED BY <1>1, <2>1 DEF Out
<1>5. ASSUME NEW b \in Addrs PROVE FineAt(w, toDir, b)
  <2>1. LineInv(dir.q[b], dir.e[b], dir.reply[b], b \in dir.slots \union dir.replaced)
    BY DEF IInv, Lines
  <2>2. \A k \in Llcs :
           PairInv(k, b, cache[k][b].st, waiters[k][b], toCache[k], toDir[k], dir.q[b], dir.e[b])
    BY DEF IInv, Pairs
  <2>3. dir.q[b] \in Seq(DirReq) /\ dir.e[b] \in DirEntry
    BY <1>1 DEF Directory
  <2>4. HasEntry(w, b) = (b \in dir.slots \union dir.replaced)
    BY <1>2 DEF HasEntry
  <2>5. LineOK(b, dir.q[b], dir.e[b], dir.reply[b], HasEntry(w, b), toCache, toDir)
    BY <2>1, <2>2, <2>3, <2>4 DEF LineOK
  <2> QED BY <1>2, <1>4, <2>5 DEF FineAt
<1> QED BY <1>1, <1>2, <1>3, <1>5 DEF Fine

LEMMA WorkEnds ==
  ASSUME NEW z, NEW rest, Fine(z, rest), sys \in Systems,
         cache \in [Llcs -> [Addrs -> CacheLine]],
         waiters \in [Llcs -> [Addrs -> Seq(Waiter)]],
         UNCHANGED <<sys, cache, waiters>>, dir' = z.d, toDir' = rest, toCache' = Out(z)
  PROVE  IInv'
<1>1. z \in Works /\ toCache \in [Llcs -> Seq(ToCacheMsg)] /\ rest \in [Llcs -> Seq(ToDirMsg)]
      /\ SlotsInv(z.d) /\ \A b \in Addrs : FineAt(z, rest, b)
  BY DEF Fine
<1>2. Out(z) \in [Llcs -> Seq(ToCacheMsg)] /\ z.d \in Directory
  BY <1>1, OutType DEF Works
<1>3. Types'
  BY <1>1, <1>2 DEF Types
<1>4. SlotsInv(dir)'
  BY <1>1 DEF SlotsInv, DirWays
<1>5. ASSUME NEW b \in Addrs
      PROVE  /\ LineInv(dir.q[b], dir.e[b], dir.reply[b], b \in dir.slots \union dir.replaced)'
             /\ \A k \in Llcs :
                  PairInv(k, b, cache[k][b].st, waiters[k][b], toCache[k], toDir[k], dir.q[b], dir.e[b])'
  <2>1. LineOK(b, z.d.q[b], z.d.e[b], z.d.reply[b], HasEntry(z, b), Out(z), rest)
    BY <1>1 DEF FineAt
  <2>2. LineInv(z.d.q[b], z.d.e[b], z.d.reply[b], b \in z.d.slots \union z.d.replaced)
    BY <2>1 DEF LineOK, HasEntry
  <2>3. \A k \in Llcs :
           PairInv(k, b, cache[k][b].st, waiters[k][b], Out(z)[k], rest[k], z.d.q[b], z.d.e[b])
    BY <2>1 DEF LineOK
  <2>4. LineInv(dir.q[b], dir.e[b], dir.reply[b], b \in dir.slots \union dir.replaced)'
    BY <2>2
  <2>5. ASSUME NEW k \in Llcs
        PROVE  PairInv(k, b, cache[k][b].st, waiters[k][b], toCache[k], toDir[k], dir.q[b], dir.e[b])'
    BY <2>3
  <2> QED BY <2>4, <2>5
<1>6. Pairs' /\ Lines'
  BY <1>5 DEF Pairs, Lines
<1> QED BY <1>3, <1>4, <1>6 DEF IInv

LEMMA InvStays ==
  ASSUME IInv, UNCHANGED <<sys, cache, waiters, toDir, toCache, dir>>
  PROVE  IInv'
<1>1. Types'
  BY DEF IInv, Types
<1>2. SlotsInv(dir)'
  BY DEF IInv, SlotsInv, DirWays
<1>3. Pairs'
  BY DEF IInv, Pairs
<1>4. Lines'
  BY DEF IInv, Lines
<1> QED BY <1>1, <1>2, <1>3, <1>4 DEF IInv

LEMMA DirStepInv ==
  ASSUME IInv, NEW z, NEW rest, z.err = NoFailure => Fine(z, rest), DirStep(z, rest), UNCHANGED sys
  PROVE  IInv'
<1>1. CASE z.err # NoFailure
  BY <1>1, InvStays DEF DirStep, Stop
<1>2. CASE z.err = NoFailure
  <2>1. /\ dir' = z.d /\ toDir' = rest
        /\ toCache' = [c \in Llcs |-> toCache[c] \o z.out[c]]
        /\ UNCHANGED <<cache, waiters>>
    BY <1>2 DEF DirStep
  <2>2. toCache' = Out(z)
    BY <2>1 DEF Out
  <2>3. /\ sys \in Systems /\ cache \in [Llcs -> [Addrs -> CacheLine]]
        /\ waiters \in [Llcs -> [Addrs -> Seq(Waiter)]]
    BY DEF IInv, Types
  <2>4. Fine(z, rest)
    BY <1>2
  <2> QED BY <2>1, <2>2, <2>3, <2>4, WorkEnds
<1> QED BY <1>1, <1>2

LEMMA DirHandlesInv ==
  ASSUME IInv, NEW c \in Llcs, NEW v \in Addrs, NEW o \in Llcs, DirHandles(c, v, o)
  PROVE  IInv'
<1> DEFINE w == Working(dir, v, o)
           m == Head(toDir[c])
           z == handleMsgFromL2Cache(w, c, m)
           rest == [toDir EXCEPT ![c] = Tail(@)]
<1>1. toDir[c] # <<>> /\ DirStep(z, rest) /\ UNCHANGED sys
  BY DEF DirHandles
<1>2. w = Working(dir, v, o) /\ m = Head(toDir[c]) /\ z = handleMsgFromL2Cache(w, c, m)
  OBVIOUS
<1>3. /\ sys \in Systems /\ toDir \in [Llcs -> Seq(ToDirMsg)]
  BY DEF IInv, Types
<1>4. toDir[c] \in Seq(ToDirMsg) /\ m \in ToDirMsg /\ m.a \in Addrs
  <2>1. toDir[c] \in Seq(ToDirMsg)
    BY <1>3
  <2>2. m \in ToDirMsg
    BY <1>1, <2>1, Popped
  <2> QED BY <2>1, <2>2 DEF ToDirMsg
<1>5. rest \in [Llcs -> Seq(ToDirMsg)] /\ Taken(toDir, rest, c)
  BY <1>1, <1>3, <1>4 DEF Taken
<1> HIDE DEF w, m, z, rest
<1>6. Fine(w, toDir) /\ w.next = FALSE
  BY <1>2, WorkBegins
<1> DEFINE a == m.a
           q == w.d.q[a]
           e == w.d.e[a]
           rep == w.d.reply[a]
<1>7. At(w, a, q, e, rep)
  <2>1. w \in Works
    BY <1>6 DEF Fine
  <2> QED BY <1>4, <2>1, FieldTypes DEF At
<1>8. Arriving(w, toDir, rest, c, a, q, e, rep)
  BY <1>1, <1>2, <1>4, <1>5, <1>6, <1>7 DEF Arriving
<1> HIDE DEF a, q, e, rep
<1>9. z.err = NoFailure => Fine(z, rest)
  BY <1>2, <1>3, <1>8, MessageHandled
<1> QED BY <1>1, <1>9, DirStepInv

LEMMA DramRepliesInv ==
  ASSUME IInv, NEW a \in Addrs, NEW v \in Addrs, NEW o \in Llcs, DramReplies(a, v, o)
  PROVE  IInv'
<1> DEFINE w == Working(dir, v, o)
           z == processDRAMReply(w, a)
           q == w.d.q[a]
           e == w.d.e[a]
           rep == w.d.reply[a]
<1>1. dir.reply[a] # <<>> /\ DirStep(z, toDir) /\ UNCHANGED sys
  BY DEF DramReplies
<1>2. w = Working(dir, v, o) /\ z = processDRAMReply(w, a) /\ q = w.d.q[a] /\ e = w.d.e[a]
      /\ rep = w.d.reply[a]
  OBVIOUS
<1>3. sys \in Systems
  BY DEF IInv, Types
<1> HIDE DEF w, z, q, e, rep
<1>4. Fine(w, toDir) /\ w.d = dir
  BY <1>2, WorkBegins
<1>5. At(w, a, q, e, rep)
  <2>1. w \in Works
    BY <1>4 DEF Fine
  <2> QED BY <1>2, <2>1, FieldTypes DEF At
<1>6. rep # <<>>
  BY <1>1, <1>2, <1>4
<1>7. z.err = NoFailure => Fine(z, toDir)
  BY <1>2, <1>3, <1>4, <1>5, <1>6, DramDone
<1> QED BY <1>1, <1>7, DirStepInv

-----------------------------------------------------------------------------
(* A store makes other copies old: only data changes.                            *)
LEMMA OldType ==
  ASSUME NEW data \in Data PROVE Old(data) \in Data /\ (data # NoData => Old(data) # NoData)
  BY DEF Old, Data, NoData, Uninit, Stale

LEMMA SequenceOf ==
  ASSUME NEW M, NEW n \in Nat, NEW z, z = [i \in 1 .. n |-> z[i]], \A i \in 1 .. n : z[i] \in M
  PROVE  z \in Seq(M) /\ Len(z) = n
  OBVIOUS

LEMMA OldToDir ==
  ASSUME NEW s \in Seq(ToDirMsg), NEW a, NEW b, NEW z, z = OldMsgs(s, a)
  PROVE  z \in Seq(ToDirMsg) /\ Alike(s, z, b)
<1>1. ASSUME NEW m \in ToDirMsg, NEW x, x = [m EXCEPT !.data = Old(@)]
      PROVE  x \in ToDirMsg /\ x.a = m.a /\ x.t = m.t
  <2>1. Old(m.data) \in Data /\ (m.data # NoData => Old(m.data) # NoData)
    BY OldType DEF ToDirMsg
  <2> QED BY <1>1, <2>1 DEF ToDirMsg
<1>2. ASSUME NEW i \in 1 .. Len(s) PROVE z[i] \in ToDirMsg /\ z[i].a = s[i].a /\ z[i].t = s[i].t
  <2>1. s[i] \in ToDirMsg /\ i \in DOMAIN s
    OBVIOUS
  <2>2. CASE s[i].a = a
    <3>1. z[i] = [s[i] EXCEPT !.data = Old(@)]
      BY <2>1, <2>2 DEF OldMsgs
    <3> QED BY <1>1, <2>1, <3>1
  <2>3. CASE s[i].a # a
    <3>1. z[i] = s[i]
      BY <2>1, <2>3 DEF OldMsgs
    <3> QED BY <2>1, <3>1
  <2> QED BY <2>2, <2>3
<1>3. z \in Seq(ToDirMsg) /\ Len(z) = Len(s)
  <2>1. z = [i \in 1 .. Len(s) |-> z[i]] /\ Len(s) \in Nat
    BY DEF OldMsgs
  <2>2. \A i \in 1 .. Len(s) : z[i] \in ToDirMsg
    BY <1>2
  <2> QED BY <2>1, <2>2, SequenceOf
<1> QED BY <1>2, <1>3, AlikeData

LEMMA OldToCache ==
  ASSUME NEW s \in Seq(ToCacheMsg), NEW a, NEW b, NEW z, z = OldMsgs(s, a)
  PROVE  z \in Seq(ToCacheMsg) /\ Alike(s, z, b)
<1>1. ASSUME NEW m \in ToCacheMsg, NEW x, x = [m EXCEPT !.data = Old(@)]
      PROVE  x \in ToCacheMsg /\ x.a = m.a /\ x.t = m.t
  <2>1. Old(m.data) \in Data /\ (m.data # NoData => Old(m.data) # NoData)
    BY OldType DEF ToCacheMsg
  <2> QED BY <1>1, <2>1 DEF ToCacheMsg
<1>2. ASSUME NEW i \in 1 .. Len(s) PROVE z[i] \in ToCacheMsg /\ z[i].a = s[i].a /\ z[i].t = s[i].t
  <2>1. s[i] \in ToCacheMsg /\ i \in DOMAIN s
    OBVIOUS
  <2>2. CASE s[i].a = a
    <3>1. z[i] = [s[i] EXCEPT !.data = Old(@)]
      BY <2>1, <2>2 DEF OldMsgs
    <3> QED BY <1>1, <2>1, <3>1
  <2>3. CASE s[i].a # a
    <3>1. z[i] = s[i]
      BY <2>1, <2>3 DEF OldMsgs
    <3> QED BY <2>1, <3>1
  <2> QED BY <2>2, <2>3
<1>3. z \in Seq(ToCacheMsg) /\ Len(z) = Len(s)
  <2>1. z = [i \in 1 .. Len(s) |-> z[i]] /\ Len(s) \in Nat
    BY DEF OldMsgs
  <2>2. \A i \in 1 .. Len(s) : z[i] \in ToCacheMsg
    BY <1>2
  <2> QED BY <2>1, <2>2, SequenceOf
<1> QED BY <1>2, <1>3, AlikeData

(* The directory's requests with other data. *)
QueueAged(q, p) ==
    /\ p \in Seq(DirReq) /\ Len(p) = Len(q)
    /\ \A i \in 1 .. Len(q) : /\ p[i].c = q[i].c /\ p[i].t = q[i].t
                              /\ p[i].wait = q[i].wait /\ p[i].from = q[i].from
DirAged(d, g) ==
    /\ g.slots = d.slots /\ g.replaced = d.replaced /\ g.e = d.e
    /\ \A b \in Addrs : QueueAged(d.q[b], g.q[b]) /\ Len(g.reply[b]) = Len(d.reply[b])

LEMMA QueueAgedFront ==
  ASSUME NEW q \in Seq(DirReq), NEW p, QueueAged(q, p), q # <<>>
  PROVE  /\ p # <<>> /\ Head(q) = q[1] /\ Head(p) = p[1] /\ 1 \in 1 .. Len(q)
         /\ Head(p).c = Head(q).c /\ Head(p).t = Head(q).t
         /\ Head(p).wait = Head(q).wait /\ Head(p).from = Head(q).from
         /\ Granted(p) <=> Granted(q)
<1>1. 1 \in 1 .. Len(q) /\ p \in Seq(DirReq) /\ Len(p) = Len(q)
  BY DEF QueueAged
<1>2. p # <<>> /\ Head(q) = q[1] /\ Head(p) = p[1]
  BY <1>1
<1>3. /\ p[1].c = q[1].c /\ p[1].t = q[1].t
      /\ p[1].wait = q[1].wait /\ p[1].from = q[1].from
  BY <1>1 DEF QueueAged
<1> QED BY <1>1, <1>2, <1>3 DEF Granted

LEMMA LineAged ==
  ASSUME NEW q \in Seq(DirReq), NEW e, NEW rep, NEW known, LineInv(q, e, rep, known),
         NEW p, QueueAged(q, p), NEW new, rep \in Seq(Filled), new \in Seq(Filled), Len(new) = Len(rep)
  PROVE  LineInv(p, e, new, known)
<1>1. FrontWaits(q, e) /\ Len(rep) <= 1 /\ (rep # <<>> => q # <<>> /\ Head(q).wait)
  BY DEF LineInv
<1>2. FrontWaits(p, e)
  <2>1. DOMAIN p = 1 .. Len(q) /\ DOMAIN q = 1 .. Len(q)
    BY DEF QueueAged
  <2> QED BY <1>1, <2>1 DEF FrontWaits, QueueAged
<1>3. new # <<>> => p # <<>> /\ Head(p).wait
  <2>1. new # <<>> => rep # <<>>
    OBVIOUS
  <2> QED BY <1>1, <2>1, QueueAgedFront
<1> QED BY <1>1, <1>2, <1>3 DEF LineInv

LEMMA PairAged ==
  ASSUME NEW c, NEW a, NEW st, NEW ws, NEW s, NEW r, NEW q \in Seq(DirReq), NEW e,
         PairInv(c, a, st, ws, s, r, q, e), NEW z, NEW y, Alike(s, z, a), Alike(r, y, a),
         NEW p, QueueAged(q, p)
  PROVE  PairInv(c, a, st, ws, z, y, p, e)
<1>1. PairInv(c, a, st, ws, z, y, q, e)
  BY PairAlike
<1>2. p \in Seq(DirReq) /\ Len(p) = Len(q)
  BY DEF QueueAged
<1>3. CASE q = <<>>
  BY <1>1, <1>2, <1>3
<1>4. CASE q # <<>>
  <2>1. /\ \A i \in 1 .. Len(q) : p[i].c = q[i].c /\ p[i].t = q[i].t
        /\ Granted(p) <=> Granted(q)
        /\ Head(p).from = Head(q).from /\ Head(p).wait = Head(q).wait
    BY <1>4, QueueAgedFront DEF QueueAged
  <2> QED BY <1>1, <1>2, <1>4, <2>1, PairMarked
<1> QED BY <1>3, <1>4

(* A right to write that is used. *)
LEMMA PairWrites ==
  ASSUME NEW c, NEW a, NEW st \in {"E", "M"}, NEW ws, NEW s, NEW r, NEW q, NEW e,
         PairInv(c, a, st, ws, s, r, q, e)
  PROVE  PairInv(c, a, "M", ws, s, r, q, e)
<1>1. st # "I" /\ st # "SU" /\ st \in {"E", "M"} /\ (st # "I") = TRUE /\ ("M" # "I") = TRUE
  OBVIOUS
<1>2. Listed(c, a, "M", s, r, q, e) /\ OneStake(c, a, "M", s, r, q) /\ OneRequest(c, a, s, r, q)
  BY <1>1 DEF PairInv, Listed, OneStake
<1>3. SomebodyWaits(c, a, "M", ws, s, r, q) /\ FetchAfterGive(c, a, "M", r, q, e)
  BY <1>1 DEF PairInv, SomebodyWaits, FetchAfterGive
<1>4. OwnerKnown(a, "M", s, e)
  BY <1>1 DEF PairInv, OwnerKnown
<1>5. WriteBackUnderWay(c, a, "M", s, r, q, e)
  BY <1>1 DEF PairInv, WriteBackUnderWay
<1>6. FlushUnderWay(c, a, "M", s, r, q, e)
  BY <1>1 DEF PairInv, FlushUnderWay
<1> QED BY <1>2, <1>3, <1>4, <1>5, <1>6 DEF PairInv

(* What a store does to the directory. *)
LEMMA RequestAged ==
  ASSUME NEW m \in DirReq, NEW x, x = [m EXCEPT !.buf = Old(@)]
  PROVE  /\ x \in DirReq /\ x.c = m.c /\ x.t = m.t /\ x.wait = m.wait /\ x.from = m.from
<1>1. Old(m.buf) \in Data
  BY OldType DEF DirReq
<1> QED BY <1>1 DEF DirReq

LEMMA QueueOld ==
  ASSUME NEW q \in Seq(DirReq), NEW p, p = OldReqs(q)
  PROVE  QueueAged(q, p)
<1>1. /\ p = [i \in 1 .. Len(q) |-> p[i]] /\ Len(q) \in Nat
      /\ \A i \in 1 .. Len(q) : q[i] \in DirReq /\ p[i] = [q[i] EXCEPT !.buf = Old(@)]
  BY DEF OldReqs
<1>2. \A i \in 1 .. Len(q) : /\ p[i] \in DirReq /\ p[i].c = q[i].c /\ p[i].t = q[i].t
                             /\ p[i].wait = q[i].wait /\ p[i].from = q[i].from
  BY <1>1, RequestAged
<1>3. p \in Seq(DirReq) /\ Len(p) = Len(q)
  BY <1>1, <1>2, SequenceOf
<1> QED BY <1>2, <1>3 DEF QueueAged

LEMMA QueueAgedSelf == ASSUME NEW q \in Seq(DirReq) PROVE QueueAged(q, q)
  BY DEF QueueAged

LEMMA RepliesOld ==
  ASSUME NEW s \in Seq(Filled), NEW p, p = [i \in DOMAIN s |-> Stale]
  PROVE  p \in Seq(Filled) /\ Len(p) = Len(s)
<1>1. /\ p = [i \in 1 .. Len(s) |-> p[i]] /\ Len(s) \in Nat /\ \A i \in 1 .. Len(s) : p[i] \in Filled
  BY DEF Data, Filled, Stale, NoData
<1> QED BY <1>1, SequenceOf

LEMMA OldDirAged ==
  ASSUME NEW d \in Directory, NEW a \in Addrs, NEW g, g = OldDir(d, a)
  PROVE  g \in Directory /\ DirAged(d, g)
<1> DEFINE newReply == [i \in DOMAIN d.reply[a] |-> Stale]
           newQ == OldReqs(d.q[a])
<1>1. /\ d.reply \in [Addrs -> Seq(Filled)] /\ d.q \in [Addrs -> Seq(DirReq)]
      /\ d.mem \in [Addrs -> Filled]
  BY DEF Directory
<1>2. newReply \in Seq(Filled) /\ Len(newReply) = Len(d.reply[a])
  BY <1>1, RepliesOld
<1>3. QueueAged(d.q[a], newQ)
  BY <1>1, QueueOld
<1>4. g = [d EXCEPT !.mem[a] = Stale, !.reply[a] = newReply, !.q[a] = newQ]
  BY DEF OldDir
<1> HIDE DEF newReply, newQ
<1>5. newQ \in Seq(DirReq)
  BY <1>3 DEF QueueAged
<1>6. Stale \in Filled
  BY DEF Data, Filled, Stale, NoData
<1>7. /\ g.slots = d.slots /\ g.replaced = d.replaced /\ g.e = d.e
      /\ g.q = [d.q EXCEPT ![a] = newQ] /\ g.reply = [d.reply EXCEPT ![a] = newReply]
      /\ g.mem = [d.mem EXCEPT ![a] = Stale] /\ g.junk = d.junk
      /\ g = [slots |-> g.slots, replaced |-> g.replaced, junk |-> g.junk, e |-> g.e,
               q |-> g.q, mem |-> g.mem, reply |-> g.reply]
  BY <1>4 DEF Directory
<1>8. g \in Directory
  <2>1. /\ g.q \in [Addrs -> Seq(DirReq)] /\ g.reply \in [Addrs -> Seq(Filled)]
        /\ g.mem \in [Addrs -> Filled]
    BY <1>1, <1>2, <1>5, <1>6, <1>7
  <2>2. /\ g.slots \in SUBSET Addrs /\ g.replaced \in SUBSET Addrs /\ g.junk \in Cores
        /\ g.e \in [Addrs -> DirEntry]
    BY <1>7 DEF Directory
  <2> QED BY <1>7, <2>1, <2>2 DEF Directory
<1>9. ASSUME NEW b \in Addrs
      PROVE  QueueAged(d.q[b], g.q[b]) /\ Len(g.reply[b]) = Len(d.reply[b])
  <2>1. CASE b = a
    <3>1. g.q[b] = newQ /\ g.reply[b] = newReply
      BY <1>1, <1>7, <2>1
    <3> QED BY <1>2, <1>3, <2>1, <3>1
  <2>2. CASE b # a
    <3>1. g.q[b] = d.q[b] /\ g.reply[b] = d.reply[b] /\ d.q[b] \in Seq(DirReq)
      BY <1>1, <1>7, <2>2
    <3> QED BY <3>1, QueueAgedSelf
  <2> QED BY <2>1, <2>2
<1> QED BY <1>7, <1>8, <1>9 DEF DirAged

LEMMA DirAgedSelf == ASSUME NEW d \in Directory PROVE DirAged(d, d)
<1>1. \A b \in Addrs : d.q[b] \in Seq(DirReq)
  BY DEF Directory
<1> QED BY <1>1, QueueAgedSelf DEF DirAged

LEMMA DirLines ==
  ASSUME NEW d \in Directory, NEW g \in Directory, DirAged(d, g), NEW a \in Addrs,
         LineInv(d.q[a], d.e[a], d.reply[a], a \in d.slots \union d.replaced)
  PROVE  LineInv(g.q[a], g.e[a], g.reply[a], a \in g.slots \union g.replaced)
<1>1. /\ d.q[a] \in Seq(DirReq) /\ d.reply[a] \in Seq(Filled)
      /\ g.reply[a] \in Seq(Filled)
  BY DEF Directory
<1>2. /\ g.slots = d.slots /\ g.replaced = d.replaced /\ g.e = d.e
      /\ QueueAged(d.q[a], g.q[a]) /\ Len(g.reply[a]) = Len(d.reply[a])
  BY DEF DirAged
<1>3. LineInv(g.q[a], d.e[a], g.reply[a], a \in d.slots \union d.replaced)
  BY <1>1, <1>2, LineAged
<1> QED BY <1>2, <1>3

(* A step of a cache, which changes of the directory data alone. *)
LEMMA PairsGiveInv ==
  ASSUME IInv, Types', UNCHANGED sys, DirAged(dir, dir'), Pairs'
  PROVE  IInv'
<1>1. dir \in Directory /\ dir' \in Directory /\ Lines /\ SlotsInv(dir)
  BY DEF IInv, Types
<1>2. Lines'
  BY <1>1, DirLines DEF Lines
<1>3. SlotsInv(dir)'
  <2>1. dir'.slots = dir.slots /\ dir'.replaced = dir.replaced
    BY DEF DirAged
  <2> QED BY <1>1, <2>1 DEF SlotsInv, DirWays
<1> QED BY <1>2, <1>3 DEF IInv


-----------------------------------------------------------------------------
(* Steps of a cache. *)
WaitersType == [Llcs -> [Addrs -> Seq(Waiter)]]

LEMMA StepPlain ==
  ASSUME Types, NEW c \in Llcs, NEW lines \in [Addrs -> CacheLine], NEW out,
         CacheStep(c, lines, out, {})
  PROVE  /\ cache' = [k \in Llcs |-> IF k = c THEN lines ELSE cache[k]]
         /\ toDir' = [k \in Llcs |-> IF k = c THEN toDir[k] \o out ELSE toDir[k]]
         /\ dir' = dir
<1>1. /\ cache' = [k \in Llcs |-> IF k = c THEN [x \in Addrs |-> lines[x]]
                                            ELSE [x \in Addrs |-> cache[k][x]]]
      /\ toDir' = [k \in Llcs |-> IF k = c THEN toDir[k] \o out ELSE toDir[k]]
      /\ dir' = dir
  BY DEF CacheStep
<1>2. \A k \in Llcs : cache[k] \in [Addrs -> CacheLine]
  BY DEF Types
<1>3. \A f \in [Addrs -> CacheLine] : [x \in Addrs |-> f[x]] = f
  OBVIOUS
<1> QED BY <1>1, <1>2, <1>3

(* What holds of a cache and of the others after a step of it. *)
OthersKept(c, ss) ==
    \A k \in Llcs : k # c => ss[k] = toCache[k] /\ waiters'[k] = waiters[k]
PairsAfter(c, lines, s, r) ==
    \A b \in Addrs : PairInv(c, b, lines[b].st, waiters'[c][b], s, r, dir.q[b], dir.e[b])

LEMMA StepInvMoved ==
  ASSUME IInv, NEW c \in Llcs, NEW lines \in [Addrs -> CacheLine], NEW out \in Seq(ToDirMsg),
         cache' = [k \in Llcs |-> IF k = c THEN lines ELSE cache[k]],
         toDir' = [k \in Llcs |-> IF k = c THEN toDir[k] \o out ELSE toDir[k]],
         dir' = dir, UNCHANGED sys, waiters' \in WaitersType,
         toCache' \in [Llcs -> Seq(ToCacheMsg)], OthersKept(c, toCache'),
         PairsAfter(c, lines, toCache'[c], toDir[c] \o out)
  PROVE  IInv'
<1>1. Types /\ Pairs /\ dir \in Directory
  BY DEF IInv, Types
<1>2. /\ cache' = [k \in Llcs |-> IF k = c THEN lines ELSE cache[k]]
      /\ toDir' = [k \in Llcs |-> IF k = c THEN toDir[k] \o out ELSE toDir[k]]
      /\ dir' = dir
  OBVIOUS
<1>3. Types'
  <2>1. toDir[c] \o out \in Seq(ToDirMsg)
    BY <1>1 DEF Types
  <2>2. cache' \in [Llcs -> [Addrs -> CacheLine]] /\ toDir' \in [Llcs -> Seq(ToDirMsg)]
    BY <1>1, <1>2, <2>1 DEF Types
  <2> QED BY <1>1, <1>2, <2>2 DEF Types, WaitersType
<1>4. ASSUME NEW b \in Addrs, NEW k \in Llcs
      PROVE  PairInv(k, b, cache'[k][b].st, waiters'[k][b], toCache'[k], toDir'[k],
                     dir'.q[b], dir'.e[b])
  <2>1. CASE k = c
    <3>1. cache'[k] = lines /\ toDir'[k] = toDir[c] \o out
      BY <1>2, <2>1
    <3> QED BY <1>2, <2>1, <3>1 DEF PairsAfter
  <2>2. CASE k # c
    <3>1. /\ cache'[k] = cache[k] /\ toDir'[k] = toDir[k]
          /\ toCache'[k] = toCache[k] /\ waiters'[k] = waiters[k]
      BY <1>2, <2>2 DEF OthersKept
    <3>2. PairInv(k, b, cache[k][b].st, waiters[k][b], toCache[k], toDir[k], dir.q[b], dir.e[b])
      BY <1>1 DEF Pairs
    <3> QED BY <1>2, <3>1, <3>2
  <2> QED BY <2>1, <2>2
<1>5. Pairs'
  BY <1>4 DEF Pairs
<1>6. DirAged(dir, dir')
  BY <1>1, <1>2, DirAgedSelf
<1> QED BY <1>3, <1>5, <1>6, PairsGiveInv

LEMMA StepInvPlain ==
  ASSUME IInv, NEW c \in Llcs, NEW lines \in [Addrs -> CacheLine], NEW out \in Seq(ToDirMsg),
         CacheStep(c, lines, out, {}), UNCHANGED sys, waiters' \in WaitersType,
         toCache' \in [Llcs -> Seq(ToCacheMsg)], OthersKept(c, toCache'),
         PairsAfter(c, lines, toCache'[c], toDir[c] \o out)
  PROVE  IInv'
<1>1. Types
  BY DEF IInv
<1>2. /\ cache' = [k \in Llcs |-> IF k = c THEN lines ELSE cache[k]]
      /\ toDir' = [k \in Llcs |-> IF k = c THEN toDir[k] \o out ELSE toDir[k]]
      /\ dir' = dir
  BY <1>1, StepPlain
<1> QED BY <1>2, StepInvMoved

LEMMA StepStore ==
  ASSUME NEW c \in Llcs, NEW lines, NEW out, NEW a \in Addrs, CacheStep(c, lines, out, {a})
  PROVE  /\ cache' = [k \in Llcs |-> IF k = c
               THEN [x \in Addrs |-> IF x = a THEN Line("M", Fresh) ELSE lines[x]]
               ELSE [x \in Addrs |-> IF x = a THEN [cache[k][x] EXCEPT !.data = Old(@)]
                                              ELSE cache[k][x]]]
         /\ toDir' = [k \in Llcs |-> OldMsgs(IF k = c THEN toDir[k] \o out ELSE toDir[k], a)]
         /\ dir' = OldDir(dir, a)
<1>1. (CHOOSE x \in {a} : TRUE) = a /\ {a} # {} /\ \A x : x \in {a} <=> x = a
  OBVIOUS
<1> DEFINE S == {a}
<1>2. (CHOOSE x \in S : TRUE) = a /\ S # {} /\ (\A x : x \in S <=> x = a) /\ CacheStep(c, lines, out, S)
  BY <1>1
<1> HIDE DEF S
<1> QED BY <1>2 DEF CacheStep

LEMMA LineOld ==
  ASSUME NEW m \in CacheLine, NEW x, x = [m EXCEPT !.data = Old(@)]
  PROVE  x \in CacheLine /\ x.st = m.st
<1>1. Old(m.data) \in Data /\ (m.data # NoData => Old(m.data) # NoData)
  BY OldType DEF CacheLine
<1> QED BY <1>1 DEF CacheLine

LEMMA WrittenLine == Line("M", Fresh) \in CacheLine /\ Line("M", Fresh).st = "M"
  BY DEF Line, CacheLine, CStates, Data, Fresh, NoData

LEMMA StepInvStore ==
  ASSUME IInv, NEW c \in Llcs, NEW lines \in [Addrs -> CacheLine], NEW out \in Seq(ToDirMsg),
         NEW a \in Addrs, lines[a].st \in {"E", "M"},
         CacheStep(c, lines, out, {a}), UNCHANGED sys, waiters' \in WaitersType,
         NEW ss \in [Llcs -> Seq(ToCacheMsg)], OthersKept(c, ss),
         toCache' = [k \in Llcs |-> OldMsgs(ss[k], a)],
         PairsAfter(c, lines, ss[c], toDir[c] \o out)
  PROVE  IInv'
<1>1. Types /\ Pairs /\ dir \in Directory
  BY DEF IInv, Types
<1> DEFINE rr == [k \in Llcs |-> IF k = c THEN toDir[k] \o out ELSE toDir[k]]
           mine == [x \in Addrs |-> IF x = a THEN Line("M", Fresh) ELSE lines[x]]
           others(k) == [x \in Addrs |-> IF x = a THEN [cache[k][x] EXCEPT !.data = Old(@)]
                                                  ELSE cache[k][x]]
<1>2. /\ cache' = [k \in Llcs |-> IF k = c THEN mine ELSE others(k)]
      /\ toDir' = [k \in Llcs |-> OldMsgs(rr[k], a)]
      /\ dir' = OldDir(dir, a)
  BY StepStore
<1>3. rr \in [Llcs -> Seq(ToDirMsg)] /\ rr[c] = toDir[c] \o out /\ \A k \in Llcs : k # c => rr[k] = toDir[k]
  <2>1. toDir[c] \o out \in Seq(ToDirMsg)
    BY <1>1 DEF Types
  <2> QED BY <1>1, <2>1 DEF Types
<1>4. /\ mine \in [Addrs -> CacheLine] /\ mine[a].st = "M"
      /\ \A b \in Addrs : b # a => mine[b] = lines[b]
  BY WrittenLine
<1>5. ASSUME NEW k \in Llcs
      PROVE  others(k) \in [Addrs -> CacheLine] /\ \A b \in Addrs : others(k)[b].st = cache[k][b].st
  <2>1. cache[k] \in [Addrs -> CacheLine]
    BY <1>1 DEF Types
  <2>2. ASSUME NEW b \in Addrs
        PROVE  others(k)[b] \in CacheLine /\ others(k)[b].st = cache[k][b].st
    <3>1. cache[k][b] \in CacheLine
      BY <2>1
    <3>2. CASE b = a
      <4>1. others(k)[b] = [cache[k][b] EXCEPT !.data = Old(@)]
        BY <3>2
      <4> QED BY <3>1, <4>1, LineOld
    <3>3. CASE b # a
      <4>1. others(k)[b] = cache[k][b]
        BY <3>3
      <4> QED BY <3>1, <4>1
    <3> QED BY <3>2, <3>3
  <2> QED BY <2>2
<1>6. ASSUME NEW k \in Llcs, NEW b \in Addrs
      PROVE  /\ toCache'[k] \in Seq(ToCacheMsg) /\ Alike(ss[k], toCache'[k], b)
             /\ toDir'[k] \in Seq(ToDirMsg) /\ Alike(rr[k], toDir'[k], b)
  <2>1. toCache'[k] = OldMsgs(ss[k], a) /\ toDir'[k] = OldMsgs(rr[k], a)
    BY <1>2
  <2>2. ss[k] \in Seq(ToCacheMsg) /\ rr[k] \in Seq(ToDirMsg)
    BY <1>3
  <2> HIDE DEF rr
  <2> QED BY <2>1, <2>2, OldToDir, OldToCache
<1>7. dir' \in Directory /\ DirAged(dir, dir')
  BY <1>1, <1>2, OldDirAged
<1> HIDE DEF rr, mine, others
<1>8. ASSUME NEW b \in Addrs, NEW k \in Llcs
      PROVE  PairInv(k, b, cache'[k][b].st, waiters'[k][b], toCache'[k], toDir'[k],
                     dir'.q[b], dir'.e[b])
  <2>1. /\ dir.q[b] \in Seq(DirReq) /\ QueueAged(dir.q[b], dir'.q[b]) /\ dir'.e = dir.e
    BY <1>1, <1>7 DEF Directory, DirAged
  <2>2. Alike(ss[k], toCache'[k], b) /\ Alike(rr[k], toDir'[k], b)
    BY <1>6
  <2>3. PairInv(k, b, cache'[k][b].st, waiters'[k][b], ss[k], rr[k], dir.q[b], dir.e[b])
    <3>1. CASE k = c
      <4>1. PairInv(c, b, lines[b].st, waiters'[c][b], ss[c], rr[c], dir.q[b], dir.e[b])
        BY <1>3 DEF PairsAfter
      <4>2. cache'[c] = mine
        BY <1>2
      <4>3. CASE b = a
        <5>1. PairInv(c, b, "M", waiters'[c][b], ss[c], rr[c], dir.q[b], dir.e[b])
          BY <4>1, <4>3, PairWrites
        <5> QED BY <1>4, <3>1, <4>2, <4>3, <5>1
      <4>4. CASE b # a
        BY <1>4, <3>1, <4>1, <4>2, <4>4
      <4> QED BY <4>3, <4>4
    <3>2. CASE k # c
      <4>1. cache'[k] = others(k) /\ rr[k] = toDir[k] /\ ss[k] = toCache[k] /\ waiters'[k] = waiters[k]
        BY <1>2, <1>3, <3>2 DEF OthersKept
      <4>2. cache'[k][b].st = cache[k][b].st
        BY <1>5, <4>1
      <4>3. PairInv(k, b, cache[k][b].st, waiters[k][b], toCache[k], toDir[k], dir.q[b], dir.e[b])
        BY <1>1 DEF Pairs
      <4> QED BY <4>1, <4>2, <4>3
    <3> QED BY <3>1, <3>2
  <2> QED BY <2>1, <2>2, <2>3, PairAged
<1>9. Pairs'
  BY <1>8 DEF Pairs
<1>10. Types'
  <2>1. cache' \in [Llcs -> [Addrs -> CacheLine]]
    BY <1>2, <1>4, <1>5
  <2>2. toDir' \in [Llcs -> Seq(ToDirMsg)] /\ toCache' \in [Llcs -> Seq(ToCacheMsg)]
    <3>1. /\ toDir' = [k \in Llcs |-> toDir'[k]] /\ toCache' = [k \in Llcs |-> toCache'[k]]
      BY <1>2
    <3>2. \A k \in Llcs : toDir'[k] \in Seq(ToDirMsg) /\ toCache'[k] \in Seq(ToCacheMsg)
      BY <1>6
    <3> QED BY <3>1, <3>2
  <2> QED BY <1>1, <1>7, <2>1, <2>2 DEF Types, WaitersType
<1> QED BY <1>7, <1>9, <1>10, PairsGiveInv


-----------------------------------------------------------------------------
(* What the steps of a cache do to a pair.  A request from the directory is     *)
(* taken, whether or not there is a copy to answer for.                       *)
LEMMA PairConsumes ==
  ASSUME NEW c, NEW a, NEW st, NEW ws, NEW s \in Seq(ToCacheMsg), NEW r, NEW q, NEW e,
         s # <<>>, Head(s).a = a, Head(s).t \in {"INV_REQ", "FLUSH_REQ", "WB_REQ"},
         PairInv(c, a, st, ws, s, r, q, e)
  PROVE  PairInv(c, a, st, ws, Tail(s), r, q, e)
<1> DEFINE z == Tail(s)
           m == Head(s)
           copy == st # "I"
<1>1. ASSUME NEW b \in BOOLEAN
      PROVE  /\ \A T : Has(s, T, a) <=> On(m, T, a) \/ Has(z, T, a)
             /\ AtMostOne(s, Reps, a) => AtMostOne(z, Reps, a)
             /\ ~Behind(s, {"WB_REQ"}, {"UPGRADE_REP"}, a) => ~Behind(z, {"WB_REQ"}, {"UPGRADE_REP"}, a)
             /\ Live(z, {"WB_REQ"}, a, b) => Live(s, {"WB_REQ"}, a, b)
             /\ LiveTwice(z, {"WB_REQ"}, a, b) => LiveTwice(s, {"WB_REQ"}, a, b)
             /\ Live(z, {"FLUSH_REQ"}, a, b) => Live(s, {"FLUSH_REQ"}, a, b)
  <2>1. CASE b = TRUE
    BY <2>1, PopFromCache
  <2>2. CASE b = FALSE
    BY <2>2, PopFromCache
  <2> QED BY <2>1, <2>2
<1>2. /\ \A T : Has(s, T, a) <=> On(m, T, a) \/ Has(z, T, a)
      /\ AtMostOne(s, Reps, a) => AtMostOne(z, Reps, a)
      /\ ~Behind(s, {"WB_REQ"}, {"UPGRADE_REP"}, a) => ~Behind(z, {"WB_REQ"}, {"UPGRADE_REP"}, a)
      /\ Live(z, {"WB_REQ"}, a, copy) => Live(s, {"WB_REQ"}, a, copy)
      /\ LiveTwice(z, {"WB_REQ"}, a, copy) => LiveTwice(s, {"WB_REQ"}, a, copy)
      /\ Live(z, {"FLUSH_REQ"}, a, copy) => Live(s, {"FLUSH_REQ"}, a, copy)
  <2>1. copy \in BOOLEAN
    OBVIOUS
  <2> HIDE DEF copy, z, m
  <2> QED BY <1>1, <2>1
<1>3. ~On(m, DataReps, a) /\ ~On(m, Reps, a) /\ ~On(m, {"EX_REP"}, a) /\ ~On(m, {"UPGRADE_REP"}, a)
  BY DEF On, DataReps, Reps
<1> HIDE DEF z, m
<1>4. /\ Has(z, DataReps, a) <=> Has(s, DataReps, a)
      /\ Has(z, Reps, a) <=> Has(s, Reps, a)
      /\ Has(z, {"EX_REP"}, a) <=> Has(s, {"EX_REP"}, a)
      /\ Has(z, {"UPGRADE_REP"}, a) <=> Has(s, {"UPGRADE_REP"}, a)
  BY <1>2, <1>3
<1>5. Listed(c, a, st, z, r, q, e) /\ OneStake(c, a, st, z, r, q)
  BY <1>4 DEF PairInv, Listed, OneStake
<1>6. OneRequest(c, a, z, r, q) /\ SomebodyWaits(c, a, st, ws, z, r, q)
  BY <1>2, <1>4 DEF PairInv, OneRequest, SomebodyWaits
<1>7. FetchAfterGive(c, a, st, r, q, e) /\ OwnerKnown(a, st, z, e)
  BY <1>4 DEF PairInv, OwnerKnown
<1>8. WriteBackUnderWay(c, a, st, z, r, q, e)
  BY <1>2, <1>4 DEF PairInv, WriteBackUnderWay
<1>9. FlushUnderWay(c, a, st, z, r, q, e)
  BY <1>2 DEF PairInv, FlushUnderWay
<1>10. PairInv(c, a, st, ws, z, r, q, e)
  BY <1>5, <1>6, <1>7, <1>8, <1>9 DEF PairInv
<1> QED BY <1>10 DEF z

(* A copy is given up: invalidated, flushed or evicted. *)
LEMMA PairReleases ==
  ASSUME NEW c, NEW a, NEW st, NEW ws, NEW s, NEW r \in Seq(ToDirMsg), NEW q, NEW e,
         NEW m \in ToDirMsg, m.a = a, m.t \in Gives, st # "I",
         PairInv(c, a, st, ws, s, r, q, e),
         m.t = "FLUSH_REP" =>
             /\ ~Has(r, {"WB_REP"}, a)
             /\ e.st \in {"E", "M"} \/ (q # <<>> /\ ~Head(q).wait /\ UpgradeWithoutCopy(q, e))
  PROVE  PairInv(c, a, "I", ws, s, Append(r, m), q, e)
<1> DEFINE z == Append(r, m)
<1>1. /\ Has(z, Gives, a)
      /\ Has(z, Reqs, a) <=> Has(r, Reqs, a)
      /\ Has(z, Fetches, a) <=> Has(r, Fetches, a)
      /\ Has(z, {"WB_REP"}, a) <=> Has(r, {"WB_REP"}, a)
      /\ Has(z, {"FLUSH_REP"}, a) <=> Has(r, {"FLUSH_REP"}, a) \/ m.t = "FLUSH_REP"
      /\ AtMostOne(r, Gives, a) /\ ~Has(r, Gives, a) => AtMostOne(z, Gives, a)
      /\ AtMostOne(r, {"WB_REP"}, a) => AtMostOne(z, {"WB_REP"}, a)
      /\ AtMostOne(r, Reqs, a) => AtMostOne(z, Reqs, a)
      /\ Behind(z, Fetches, Gives, a) => Behind(r, Fetches, Gives, a) \/ Has(r, Fetches, a)
      /\ Behind(z, Gives, {"WB_REP"}, a) => Behind(r, Gives, {"WB_REP"}, a)
  BY PushGive
<1> HIDE DEF z
<1>2. /\ ~Has(s, DataReps, a) /\ ~GrantedTo(q, c) /\ ~Has(r, Gives, a) /\ c \in e.sharers
      /\ ~Has(r, Fetches, a)
  BY DEF PairInv, Listed, OneStake, FetchAfterGive
<1>3. ~Has(s, {"EX_REP"}, a)
  BY <1>2, Kinds
<1>4. ("I" # "I") = FALSE /\ \A T : ~Live(s, T, a, FALSE) /\ ~LiveTwice(s, T, a, FALSE)
  BY <1>2, NoneLive
<1>5. Listed(c, a, "I", s, z, q, e) /\ OneStake(c, a, "I", s, z, q)
  BY <1>1, <1>2 DEF PairInv, Listed, OneStake
<1>6. OneRequest(c, a, s, z, q) /\ SomebodyWaits(c, a, "I", ws, s, z, q)
  BY <1>1 DEF PairInv, OneRequest, SomebodyWaits
<1>7. FetchAfterGive(c, a, "I", z, q, e) /\ OwnerKnown(a, "I", s, e)
  BY <1>1, <1>2, <1>3 DEF PairInv, OwnerKnown, FetchAfterGive
<1>8. WriteBackUnderWay(c, a, "I", s, z, q, e)
  BY <1>1, <1>2, <1>3, <1>4 DEF PairInv, WriteBackUnderWay
<1>9. FlushUnderWay(c, a, "I", s, z, q, e)
  BY <1>1, <1>4 DEF PairInv, FlushUnderWay
<1>10. PairInv(c, a, "I", ws, s, z, q, e)
  BY <1>5, <1>6, <1>7, <1>8, <1>9 DEF PairInv
<1> QED BY <1>10 DEF z

(* A copy arrives; its cache has no other request. *)
Idle(c, a, s, r, q) == ~Has(s, Reps, a) /\ ~Has(r, Reqs, a) /\ ~Queued(q, c)

LEMMA PairTakesData ==
  ASSUME NEW c, NEW a, NEW ws, NEW vs, NEW s \in Seq(ToCacheMsg), NEW r, NEW q, NEW e,
         s # <<>>, Head(s).a = a, Head(s).t \in DataReps,
         NEW st, st = IF Head(s).t = "EX_REP" THEN "E" ELSE "S",
         PairInv(c, a, "I", ws, s, r, q, e)
  PROVE  PairInv(c, a, st, vs, Tail(s), r, q, e) /\ Idle(c, a, Tail(s), r, q)
<1> DEFINE z == Tail(s)
           m == Head(s)
<1>1. On(m, DataReps, a) /\ On(m, Reps, a) /\ (st = "E" => On(m, {"EX_REP"}, a))
  BY DEF On, DataReps, Reps
<1>2. /\ \A T : Has(s, T, a) <=> On(m, T, a) \/ Has(z, T, a)
      /\ AtMostOne(s, Reps, a) => AtMostOne(z, Reps, a) /\ (On(m, Reps, a) => ~Has(z, Reps, a))
      /\ Live(z, {"WB_REQ"}, a, TRUE) => Live(s, {"WB_REQ"}, a, FALSE)
      /\ LiveTwice(z, {"WB_REQ"}, a, TRUE) => LiveTwice(s, {"WB_REQ"}, a, FALSE)
      /\ Live(z, {"FLUSH_REQ"}, a, TRUE) => Live(s, {"FLUSH_REQ"}, a, FALSE)
  BY <1>1, PopFromCache
<1>3. st # "I" /\ st # "SU" /\ st # "M" /\ (st # "I") = TRUE /\ ("I" # "I") = FALSE
  OBVIOUS
<1> HIDE DEF z, m
<1>4. Idle(c, a, z, r, q) /\ AtMostOne(z, Reps, a)
  BY <1>1, <1>2 DEF PairInv, OneRequest, Idle
<1>5. /\ ~Has(z, DataReps, a) /\ ~Has(z, {"EX_REP"}, a) /\ ~Has(z, {"UPGRADE_REP"}, a)
      /\ ~Has(r, Fetches, a) /\ ~Behind(z, {"WB_REQ"}, {"UPGRADE_REP"}, a)
  BY <1>4, Kinds DEF Idle, Behind, Has
<1>6. Has(s, DataReps, a) /\ (st = "E" => Has(s, {"EX_REP"}, a))
  BY <1>1, <1>2
<1>7. Listed(c, a, st, z, r, q, e) /\ OneStake(c, a, st, z, r, q)
  BY <1>3, <1>5, <1>6 DEF PairInv, Listed, OneStake
<1>8. OneRequest(c, a, z, r, q) /\ SomebodyWaits(c, a, st, vs, z, r, q)
  BY <1>3, <1>4 DEF PairInv, OneRequest, SomebodyWaits, Idle
<1>9. FetchAfterGive(c, a, st, r, q, e) /\ OwnerKnown(a, st, z, e)
  BY <1>3, <1>5, <1>6 DEF PairInv, OwnerKnown, FetchAfterGive
<1>10. WriteBackUnderWay(c, a, st, z, r, q, e)
  BY <1>2, <1>3, <1>5, <1>6 DEF PairInv, WriteBackUnderWay
<1>11. FlushUnderWay(c, a, st, z, r, q, e)
  BY <1>2, <1>3 DEF PairInv, FlushUnderWay
<1>12. PairInv(c, a, st, vs, z, r, q, e)
  BY <1>7, <1>8, <1>9, <1>10, <1>11 DEF PairInv
<1> QED BY <1>4, <1>12 DEF z

(* A request is sent. *)
LEMMA PairRequests ==
  ASSUME NEW c, NEW a, NEW st, NEW ws, NEW vs, NEW s, NEW r \in Seq(ToDirMsg), NEW q, NEW e,
         NEW m \in ToDirMsg, m.a = a, NEW new,
         \/ m.t \in Fetches /\ st = "I" /\ new = "I"
         \/ m.t = "UPGRADE_REQ" /\ st = "S" /\ new = "SU",
         PairInv(c, a, st, ws, s, r, q, e), Idle(c, a, s, r, q), vs # <<>>
  PROVE  PairInv(c, a, new, vs, s, Append(r, m), q, e)
<1> DEFINE z == Append(r, m)
<1>1. m.t \in Reqs /\ (new # "I") = (st # "I") /\ new \notin {"E", "M"}
  BY DEF Reqs, Fetches
<1>2. /\ Has(z, Gives, a) <=> Has(r, Gives, a)
      /\ Has(z, Fetches, a) <=> Has(r, Fetches, a) \/ m.t \in Fetches
      /\ Has(z, {"WB_REP"}, a) <=> Has(r, {"WB_REP"}, a)
      /\ Has(z, {"FLUSH_REP"}, a) <=> Has(r, {"FLUSH_REP"}, a)
      /\ AtMostOne(r, Gives, a) => AtMostOne(z, Gives, a)
      /\ AtMostOne(r, {"WB_REP"}, a) => AtMostOne(z, {"WB_REP"}, a)
      /\ AtMostOne(r, Reqs, a) /\ ~Has(r, Reqs, a) => AtMostOne(z, Reqs, a)
      /\ Behind(z, Fetches, Gives, a) => Behind(r, Fetches, Gives, a)
      /\ Behind(z, Gives, {"WB_REP"}, a) => Behind(r, Gives, {"WB_REP"}, a)
  BY <1>1, PushRequest
<1> HIDE DEF z
<1>3. ~Has(r, Fetches, a) /\ (m.t \in Fetches => new = "I")
  <2>1. "UPGRADE_REQ" \notin Fetches
    BY DEF Fetches
  <2> QED BY <2>1, Kinds DEF Idle
<1>4. Listed(c, a, new, s, z, q, e) /\ OneStake(c, a, new, s, z, q)
  BY <1>1, <1>2 DEF PairInv, Listed, OneStake
<1>5. OneRequest(c, a, s, z, q) /\ SomebodyWaits(c, a, new, vs, s, z, q)
  BY <1>2 DEF PairInv, OneRequest, SomebodyWaits, Idle
<1>6. FetchAfterGive(c, a, new, z, q, e)
  BY <1>2, <1>3 DEF PairInv, FetchAfterGive
<1>7. OwnerKnown(a, new, s, e)
  BY <1>1 DEF PairInv, OwnerKnown
<1>8. WriteBackUnderWay(c, a, new, s, z, q, e)
  BY <1>1, <1>2 DEF PairInv, WriteBackUnderWay
<1>9. FlushUnderWay(c, a, new, s, z, q, e)
  BY <1>1, <1>2 DEF PairInv, FlushUnderWay
<1>10. PairInv(c, a, new, vs, s, z, q, e)
  BY <1>4, <1>5, <1>6, <1>7, <1>8, <1>9 DEF PairInv
<1> QED BY <1>10 DEF z


(* An upgrade is granted. *)
LEMMA PairUpgraded ==
  ASSUME NEW c, NEW a, NEW ws, NEW vs, NEW s \in Seq(ToCacheMsg), NEW r, NEW q, NEW e,
         s # <<>>, Head(s).a = a, Head(s).t = "UPGRADE_REP",
         PairInv(c, a, "SU", ws, s, r, q, e)
  PROVE  PairInv(c, a, "M", vs, Tail(s), r, q, e) /\ Idle(c, a, Tail(s), r, q)
<1> DEFINE z == Tail(s)
           m == Head(s)
<1>1. On(m, Reps, a) /\ On(m, {"UPGRADE_REP"}, a) /\ ~On(m, DataReps, a)
  BY DEF On, DataReps, Reps
<1>2. /\ \A T : Has(s, T, a) <=> On(m, T, a) \/ Has(z, T, a)
      /\ AtMostOne(s, Reps, a) => AtMostOne(z, Reps, a) /\ (On(m, Reps, a) => ~Has(z, Reps, a))
      /\ Live(z, {"WB_REQ"}, a, TRUE) => Live(s, {"WB_REQ"}, a, TRUE)
      /\ LiveTwice(z, {"WB_REQ"}, a, TRUE) => LiveTwice(s, {"WB_REQ"}, a, TRUE)
      /\ Live(z, {"FLUSH_REQ"}, a, TRUE) => Live(s, {"FLUSH_REQ"}, a, TRUE)
  BY PopFromCache
<1>3. ("M" # "I") = TRUE /\ ("SU" # "I") = TRUE /\ "M" # "I" /\ "SU" # "I" /\ "M" # "SU"
  OBVIOUS
<1> HIDE DEF z, m
<1>4. Idle(c, a, z, r, q) /\ AtMostOne(z, Reps, a)
  BY <1>1, <1>2 DEF PairInv, OneRequest, Idle
<1>5. /\ ~Has(z, DataReps, a) /\ ~Has(z, {"EX_REP"}, a) /\ ~Has(z, {"UPGRADE_REP"}, a)
      /\ ~Has(r, Fetches, a) /\ ~Behind(z, {"WB_REQ"}, {"UPGRADE_REP"}, a)
  BY <1>4, Kinds DEF Idle, Behind, Has
<1>6. /\ Has(s, {"UPGRADE_REP"}, a) /\ e.st \in {"E", "M"} /\ ~Has(r, {"WB_REP"}, a)
      /\ ~Has(s, DataReps, a)
  BY <1>1, <1>2, <1>3 DEF PairInv, OwnerKnown, WriteBackUnderWay, OneStake
<1>7. Listed(c, a, "M", z, r, q, e) /\ OneStake(c, a, "M", z, r, q)
  BY <1>3, <1>5 DEF PairInv, Listed, OneStake
<1>8. OneRequest(c, a, z, r, q) /\ SomebodyWaits(c, a, "M", vs, z, r, q)
  BY <1>3, <1>4 DEF PairInv, OneRequest, SomebodyWaits, Idle
<1>9. FetchAfterGive(c, a, "M", r, q, e) /\ OwnerKnown(a, "M", z, e)
  BY <1>5, <1>6 DEF PairInv, OwnerKnown, FetchAfterGive
<1>10. WriteBackUnderWay(c, a, "M", z, r, q, e)
  BY <1>2, <1>3, <1>5, <1>6 DEF PairInv, WriteBackUnderWay
<1>11. FlushUnderWay(c, a, "M", z, r, q, e)
  BY <1>2, <1>3 DEF PairInv, FlushUnderWay
<1>12. PairInv(c, a, "M", vs, z, r, q, e)
  BY <1>7, <1>8, <1>9, <1>10, <1>11 DEF PairInv
<1> QED BY <1>4, <1>12 DEF z

(* A copy is written back. *)
LEMMA PairWritesOut ==
  ASSUME NEW c, NEW a, NEW st, NEW ws, NEW s \in Seq(ToCacheMsg), NEW r \in Seq(ToDirMsg),
         NEW q, NEW e, s # <<>>, Head(s).a = a, Head(s).t = "WB_REQ", st # "I",
         NEW new, new = IF st = "SU" THEN "SU" ELSE "S",
         NEW x \in ToDirMsg, x.a = a, x.t = "WB_REP",
         PairInv(c, a, st, ws, s, r, q, e)
  PROVE  PairInv(c, a, new, ws, Tail(s), Append(r, x), q, e)
<1> DEFINE z == Tail(s)
           m == Head(s)
           y == Append(r, x)
<1>1. On(m, {"WB_REQ"}, a) /\ ~On(m, Reps, a) /\ ~On(m, DataReps, a)
  BY DEF On, DataReps, Reps
<1>2. /\ \A T : Has(s, T, a) <=> On(m, T, a) \/ Has(z, T, a)
      /\ AtMostOne(s, Reps, a) => AtMostOne(z, Reps, a)
      /\ Live(s, {"WB_REQ"}, a, TRUE)
      /\ Live(z, {"WB_REQ"}, a, TRUE) => LiveTwice(s, {"WB_REQ"}, a, TRUE)
      /\ LiveTwice(z, {"WB_REQ"}, a, TRUE) => LiveTwice(s, {"WB_REQ"}, a, TRUE)
      /\ Live(z, {"FLUSH_REQ"}, a, TRUE) => Live(s, {"FLUSH_REQ"}, a, TRUE)
  BY <1>1, PopFromCache
<1>3. Has(z, {"UPGRADE_REP"}, a) => Behind(s, {"WB_REQ"}, {"UPGRADE_REP"}, a)
  BY <1>1, PopHas
<1>4. /\ Has(y, Gives, a) <=> Has(r, Gives, a)
      /\ Has(y, Reqs, a) <=> Has(r, Reqs, a)
      /\ Has(y, Fetches, a) <=> Has(r, Fetches, a)
      /\ Has(y, {"WB_REP"}, a)
      /\ Has(y, {"FLUSH_REP"}, a) <=> Has(r, {"FLUSH_REP"}, a)
      /\ AtMostOne(r, Gives, a) => AtMostOne(y, Gives, a)
      /\ AtMostOne(r, {"WB_REP"}, a) /\ ~Has(r, {"WB_REP"}, a) => AtMostOne(y, {"WB_REP"}, a)
      /\ AtMostOne(r, Reqs, a) => AtMostOne(y, Reqs, a)
      /\ Behind(y, Fetches, Gives, a) => Behind(r, Fetches, Gives, a)
      /\ Behind(y, Gives, {"WB_REP"}, a) => Behind(r, Gives, {"WB_REP"}, a) \/ Has(r, Gives, a)
  BY PushWriteBack
<1>5. new # "I" /\ (new # "I") = TRUE /\ (st # "I") = TRUE /\ new \notin {"E", "M"} /\ (new = "SU" => st = "SU")
  OBVIOUS
<1> HIDE DEF z, m, y
<1>6. /\ ~Has(s, DataReps, a) /\ ~Has(r, Gives, a) /\ ~GrantedTo(q, c) /\ ~Has(r, Fetches, a)
      /\ c \in e.sharers
  BY <1>5 DEF PairInv, OneStake, FetchAfterGive, Listed
<1>7. /\ ~Has(z, DataReps, a) /\ ~Has(z, {"EX_REP"}, a) /\ ~Has(r, {"FLUSH_REP"}, a)
      /\ Has(z, Reps, a) => Has(s, Reps, a)
  BY <1>2, <1>6, Kinds
<1>8. /\ q # <<>> /\ Head(q).t = "SH_REQ" /\ ~Head(q).wait
      /\ e.st \in {"E", "M"} \/ Head(q).from = c
      /\ ~Has(r, {"WB_REP"}, a) /\ ~Has(z, {"UPGRADE_REP"}, a)
      /\ ~Live(z, {"WB_REQ"}, a, TRUE) /\ ~LiveTwice(z, {"WB_REQ"}, a, TRUE)
      /\ AtMostOne(r, {"WB_REP"}, a) /\ ~Behind(r, Gives, {"WB_REP"}, a)
  BY <1>2, <1>3, <1>5 DEF PairInv, WriteBackUnderWay
<1>9. ~Behind(z, {"WB_REQ"}, {"UPGRADE_REP"}, a)
  BY <1>8 DEF Behind, Has
<1>10. Listed(c, a, new, z, y, q, e) /\ OneStake(c, a, new, z, y, q)
  BY <1>4, <1>5, <1>6, <1>7 DEF PairInv, Listed, OneStake
<1>11. OneRequest(c, a, z, y, q) /\ SomebodyWaits(c, a, new, ws, z, y, q)
  BY <1>2, <1>4, <1>5, <1>7 DEF PairInv, OneRequest, SomebodyWaits
<1>12. FetchAfterGive(c, a, new, y, q, e) /\ OwnerKnown(a, new, z, e)
  BY <1>4, <1>5, <1>6, <1>7, <1>8 DEF PairInv, OwnerKnown, FetchAfterGive
<1>13. WriteBackUnderWay(c, a, new, z, y, q, e)
  BY <1>4, <1>5, <1>6, <1>7, <1>8, <1>9 DEF WriteBackUnderWay
<1>14. FlushUnderWay(c, a, new, z, y, q, e)
  BY <1>2, <1>4, <1>5, <1>7 DEF PairInv, FlushUnderWay
<1>15. PairInv(c, a, new, ws, z, y, q, e)
  BY <1>10, <1>11, <1>12, <1>13, <1>14 DEF PairInv
<1> QED BY <1>15 DEF z, y

(* Who waits for an answer may be joined by others. *)
LEMMA PairJoined ==
  ASSUME NEW c, NEW a, NEW st, NEW ws, NEW vs, NEW s, NEW r, NEW q, NEW e,
         PairInv(c, a, st, ws, s, r, q, e), vs # <<>>
  PROVE  PairInv(c, a, st, vs, s, r, q, e)
  BY AlikeSelf, PairAlike

(* Messages about another line. *)
LEMMA PairElsewhere ==
  ASSUME NEW c, NEW a, NEW st, NEW ws, NEW s, NEW z, NEW r, NEW y, NEW q, NEW e,
         PairInv(c, a, st, ws, s, r, q, e), Alike(s, z, a), Alike(r, y, a)
  PROVE  PairInv(c, a, st, ws, z, y, q, e)
  BY PairAlike


-----------------------------------------------------------------------------
(* The steps of a cache, one by one. *)
LEMMA CacheTypes ==
  ASSUME IInv
  PROVE  /\ cache \in [Llcs -> [Addrs -> CacheLine]] /\ waiters \in WaitersType
         /\ toDir \in [Llcs -> Seq(ToDirMsg)] /\ toCache \in [Llcs -> Seq(ToCacheMsg)]
         /\ dir \in Directory /\ sys \in Systems
  BY DEF IInv, Types, WaitersType

PairHere(c, b) ==
    PairInv(c, b, cache[c][b].st, waiters[c][b], toCache[c], toDir[c], dir.q[b], dir.e[b])

LEMMA PairsHere == ASSUME IInv, NEW c \in Llcs, NEW b \in Addrs PROVE PairHere(c, b)
  BY DEF IInv, Pairs, PairHere

LEMMA ThreadsCache ==
  ASSUME IInv, NEW th \in Threads
  PROVE  LlcOf[th] \in Llcs /\ Uses[th] \subseteq Addrs
  BY CacheTypes, CacheAssumption DEF LlcOf, Uses

LEMMA NothingSent == ASSUME NEW M, NEW s \in Seq(M) PROVE s \o <<>> = s /\ <<>> \in Seq(M)
  OBVIOUS

LEMMA OneSent ==
  ASSUME NEW M, NEW s \in Seq(M), NEW m \in M
  PROVE  s \o <<m>> = Append(s, m) /\ <<m>> \in Seq(M)
  OBVIOUS

LEMMA QueueGrows ==
  ASSUME NEW M, NEW s \in Seq(M), NEW m \in M
  PROVE  Append(s, m) \in Seq(M) /\ Append(s, m) # <<>>
<1>1. Append(s, m) \in Seq(M) /\ Len(Append(s, m)) = Len(s) + 1 /\ Len(s) \in Nat
  OBVIOUS
<1>2. Len(<<>>) = 0
  OBVIOUS
<1> DEFINE q == Append(s, m)
<1>3. q \in Seq(M) /\ Len(q) # 0
  BY <1>1
<1> HIDE DEF q
<1>4. q # <<>>
  BY <1>2, <1>3
<1> QED BY <1>3, <1>4 DEF q

LEMMA WriteHitInv ==
  ASSUME IInv, NEW th \in Threads, NEW a \in Addrs, WriteHit(th, a) PROVE IInv'
<1> DEFINE c == LlcOf[th]
<1>1. c \in Llcs
  BY ThreadsCache
<1>2. /\ cache[c][a].st \in {"E", "M"}
      /\ CacheStep(c, cache[c], <<>>, {a})
      /\ toCache' = [k \in Llcs |-> OldMsgs(toCache[k], a)]
      /\ UNCHANGED <<sys, waiters, failed>>
  BY DEF WriteHit
<1> HIDE DEF c
<1>3. /\ cache[c] \in [Addrs -> CacheLine] /\ waiters' \in WaitersType
      /\ toDir[c] \in Seq(ToDirMsg) /\ toCache \in [Llcs -> Seq(ToCacheMsg)]
  BY <1>1, <1>2, CacheTypes
<1>4. toDir[c] \o <<>> = toDir[c] /\ <<>> \in Seq(ToDirMsg)
  BY <1>3, NothingSent
<1>5. OthersKept(c, toCache)
  BY <1>2 DEF OthersKept
<1>6. PairsAfter(c, cache[c], toCache[c], toDir[c] \o <<>>)
  BY <1>1, <1>2, <1>4, PairsHere DEF PairsAfter, PairHere
<1> DEFINE lines == cache[c]
           out == <<>>
<1>7. /\ lines \in [Addrs -> CacheLine] /\ out \in Seq(ToDirMsg) /\ lines[a].st \in {"E", "M"}
      /\ CacheStep(c, lines, out, {a}) /\ PairsAfter(c, lines, toCache[c], toDir[c] \o out)
  BY <1>2, <1>3, <1>4, <1>6
<1> HIDE DEF lines, out
<1> QED BY <1>1, <1>2, <1>3, <1>5, <1>7, StepInvStore

(* The first miss. *)
LEMMA IdleIfNobodyWaits ==
  ASSUME NEW c, NEW a, NEW st, NEW s, NEW r, NEW q, NEW e, PairInv(c, a, st, <<>>, s, r, q, e)
  PROVE  Idle(c, a, s, r, q)
  BY DEF PairInv, SomebodyWaits, Idle

MissStep(c, a, x, lines, out) ==
    /\ waiters' = [waiters EXCEPT ![c][a] = Append(@, x)]
    /\ cache' = [cache EXCEPT ![c] = lines]
    /\ toDir' = [toDir EXCEPT ![c] = toDir[c] \o out]
    /\ UNCHANGED <<sys, toCache, dir>>
OtherLines(c, a, lines, out) ==
    \A b \in Addrs : b # a => /\ lines[b] = cache[c][b]
                              /\ Alike(toDir[c], toDir[c] \o out, b)
ThisLine(c, a, lines, out) ==
    \A vs : vs # <<>> => PairInv(c, a, lines[a].st, vs, toCache[c], toDir[c] \o out,
                                 dir.q[a], dir.e[a])

LEMMA MissMoves ==
  ASSUME IInv, NEW c \in Llcs, NEW a \in Addrs, NEW x \in Waiter,
         NEW lines \in [Addrs -> CacheLine], NEW out \in Seq(ToDirMsg),
         MissStep(c, a, x, lines, out), OtherLines(c, a, lines, out), ThisLine(c, a, lines, out)
  PROVE  IInv'
<1>1. /\ cache \in [Llcs -> [Addrs -> CacheLine]] /\ waiters \in WaitersType
      /\ toDir \in [Llcs -> Seq(ToDirMsg)] /\ toCache \in [Llcs -> Seq(ToCacheMsg)]
  BY CacheTypes
<1>2. /\ cache' = [k \in Llcs |-> IF k = c THEN lines ELSE cache[k]]
      /\ toDir' = [k \in Llcs |-> IF k = c THEN toDir[k] \o out ELSE toDir[k]]
      /\ UNCHANGED <<sys, toCache, dir>>
  BY <1>1 DEF MissStep
<1>3. waiters[c] \in [Addrs -> Seq(Waiter)] /\ waiters[c][a] \in Seq(Waiter)
  BY <1>1 DEF WaitersType
<1> DEFINE ws == Append(waiters[c][a], x)
<1>4. ws \in Seq(Waiter) /\ ws # <<>>
  BY <1>3, QueueGrows, Zenon
<1>5. waiters' = [waiters EXCEPT ![c] = [waiters[c] EXCEPT ![a] = ws]]
  BY DEF MissStep
<1> HIDE DEF ws
<1>6. /\ waiters' \in WaitersType /\ waiters'[c][a] = ws
      /\ \A b \in Addrs : b # a => waiters'[c][b] = waiters[c][b]
      /\ \A k \in Llcs : k # c => waiters'[k] = waiters[k]
  BY <1>1, <1>3, <1>4, <1>5 DEF WaitersType
<1>7. OthersKept(c, toCache')
  BY <1>2, <1>6 DEF OthersKept
<1>8. ASSUME NEW b \in Addrs
      PROVE  PairInv(c, b, lines[b].st, waiters'[c][b], toCache'[c], toDir[c] \o out,
                     dir.q[b], dir.e[b])
  <2>1. CASE b = a
    BY <1>2, <1>4, <1>6, <2>1 DEF ThisLine
  <2>2. CASE b # a
    <3>1. PairInv(c, b, cache[c][b].st, waiters[c][b], toCache[c], toDir[c], dir.q[b], dir.e[b])
      BY PairsHere DEF PairHere
    <3>2. Alike(toDir[c], toDir[c] \o out, b) /\ lines[b] = cache[c][b]
      BY <2>2 DEF OtherLines
    <3>3. PairInv(c, b, cache[c][b].st, waiters[c][b], toCache[c], toDir[c] \o out, dir.q[b], dir.e[b])
      BY <3>1, <3>2, AlikeSelf, PairElsewhere
    <3> QED BY <1>2, <1>6, <2>2, <3>2, <3>3
  <2> QED BY <2>1, <2>2
<1>9. PairsAfter(c, lines, toCache'[c], toDir[c] \o out)
  BY <1>8 DEF PairsAfter
<1> QED BY <1>1, <1>2, <1>6, <1>7, <1>9, StepInvMoved


MissSent(c, a, x, lines, m) ==
    /\ waiters[c][a] = <<>>
    /\ waiters' = [waiters EXCEPT ![c][a] = Append(@, x)]
    /\ cache' = [cache EXCEPT ![c] = lines]
    /\ toDir' = [toDir EXCEPT ![c] = Append(@, m)]
    /\ UNCHANGED <<sys, toCache, dir>>
MissLines(c, a, lines, m) ==
    /\ \A b \in Addrs : b # a => lines[b] = cache[c][b]
    /\ \/ m.t \in Fetches /\ cache[c][a].st = "I" /\ lines[a].st = "I"
       \/ m.t = "UPGRADE_REQ" /\ cache[c][a].st = "S" /\ lines[a].st = "SU"

LEMMA MissSends ==
  ASSUME IInv, NEW c \in Llcs, NEW a \in Addrs, NEW x \in Waiter,
         NEW lines \in [Addrs -> CacheLine], NEW m \in ToDirMsg, m.a = a,
         MissSent(c, a, x, lines, m), MissLines(c, a, lines, m)
  PROVE  IInv'
<1>0. /\ waiters[c][a] = <<>> /\ \A b \in Addrs : b # a => lines[b] = cache[c][b]
      /\ \/ m.t \in Fetches /\ cache[c][a].st = "I" /\ lines[a].st = "I"
         \/ m.t = "UPGRADE_REQ" /\ cache[c][a].st = "S" /\ lines[a].st = "SU"
  BY DEF MissSent, MissLines
<1>1. toDir[c] \in Seq(ToDirMsg)
  BY CacheTypes
<1> DEFINE out == <<m>>
<1>2. toDir[c] \o out = Append(toDir[c], m) /\ out \in Seq(ToDirMsg)
  BY <1>1, OneSent
<1> HIDE DEF out
<1>3. MissStep(c, a, x, lines, out)
  BY <1>2 DEF MissStep, MissSent
<1>4. ASSUME NEW b \in Addrs, b # a
      PROVE  lines[b] = cache[c][b] /\ Alike(toDir[c], toDir[c] \o out, b)
  <2>1. Alike(toDir[c], Append(toDir[c], m), b)
    BY <1>1, <1>4, PushOther
  <2> QED BY <1>0, <1>2, <1>4, <2>1
<1>5. ASSUME NEW vs, vs # <<>>
      PROVE  PairInv(c, a, lines[a].st, vs, toCache[c], toDir[c] \o out, dir.q[a], dir.e[a])
  <2>1. PairInv(c, a, cache[c][a].st, waiters[c][a], toCache[c], toDir[c], dir.q[a], dir.e[a])
    BY PairsHere DEF PairHere
  <2>2. PairInv(c, a, cache[c][a].st, <<>>, toCache[c], toDir[c], dir.q[a], dir.e[a])
    BY <1>0, <2>1
  <2>3. Idle(c, a, toCache[c], toDir[c], dir.q[a])
    BY <2>2, IdleIfNobodyWaits
  <2>4. PairInv(c, a, lines[a].st, vs, toCache[c], Append(toDir[c], m), dir.q[a], dir.e[a])
    BY <1>0, <1>1, <1>5, <2>2, <2>3, PairRequests
  <2> QED BY <1>2, <2>4
<1>6. OtherLines(c, a, lines, out) /\ ThisLine(c, a, lines, out)
  BY <1>4, <1>5 DEF OtherLines, ThisLine
<1> QED BY <1>2, <1>3, <1>6, MissMoves

LEMMA MissJoins ==
  ASSUME IInv, NEW c \in Llcs, NEW a \in Addrs, NEW x \in Waiter,
         waiters' = [waiters EXCEPT ![c][a] = Append(@, x)],
         UNCHANGED <<sys, cache, toDir, toCache, dir>>
  PROVE  IInv'
<1>1. /\ cache \in [Llcs -> [Addrs -> CacheLine]] /\ toDir \in [Llcs -> Seq(ToDirMsg)]
      /\ toDir[c] \in Seq(ToDirMsg) /\ cache[c] \in [Addrs -> CacheLine]
  BY CacheTypes
<1> DEFINE out == <<>>
           lines == cache[c]
<1>2. toDir[c] \o out = toDir[c] /\ out \in Seq(ToDirMsg)
  BY <1>1, NothingSent
<1> HIDE DEF out
<1>3. MissStep(c, a, x, lines, out)
  BY <1>1, <1>2 DEF MissStep
<1>4. ASSUME NEW b \in Addrs, b # a
      PROVE  lines[b] = cache[c][b] /\ Alike(toDir[c], toDir[c] \o out, b)
  BY <1>2, AlikeSelf
<1>5. ASSUME NEW vs, vs # <<>>
      PROVE  PairInv(c, a, lines[a].st, vs, toCache[c], toDir[c] \o out, dir.q[a], dir.e[a])
  <2>1. PairInv(c, a, cache[c][a].st, waiters[c][a], toCache[c], toDir[c], dir.q[a], dir.e[a])
    BY PairsHere DEF PairHere
  <2>2. PairInv(c, a, cache[c][a].st, vs, toCache[c], toDir[c], dir.q[a], dir.e[a])
    BY <1>5, <2>1, PairJoined
  <2> QED BY <1>2, <2>2
<1>6. lines \in [Addrs -> CacheLine]
  BY <1>1
<1> HIDE DEF lines
<1>7. OtherLines(c, a, lines, out) /\ ThisLine(c, a, lines, out)
  BY <1>4, <1>5 DEF OtherLines, ThisLine
<1> QED BY <1>2, <1>3, <1>6, <1>7, MissMoves

LEMMA StateSet ==
  ASSUME NEW lines \in [Addrs -> CacheLine], NEW a \in Addrs, NEW st \in CStates,
         lines[a].st # "I", NEW new, new = [lines EXCEPT ![a].st = st]
  PROVE  /\ new \in [Addrs -> CacheLine] /\ new[a].st = st /\ new[a].data = lines[a].data
         /\ \A b \in Addrs : b # a => new[b] = lines[b]
<1>1. lines[a] \in CacheLine
  OBVIOUS
<1> DEFINE l == [lines[a] EXCEPT !.st = st]
<1>2. l \in CacheLine /\ l.st = st /\ l.data = lines[a].data
  BY <1>1 DEF CacheLine
<1>3. new = [lines EXCEPT ![a] = l]
  OBVIOUS
<1> HIDE DEF l
<1> QED BY <1>2, <1>3

LEMMA MissInv ==
  ASSUME IInv, NEW th \in Threads, NEW a \in Addrs, NEW ex \in BOOLEAN, Miss(th, a, ex) PROVE IInv'
<1> DEFINE c == LlcOf[th]
           st == cache[c][a].st
           first == waiters[c][a] = <<>>
           t == CASE ex /\ st = "S" -> "UPGRADE_REQ"
                  [] ex /\ st # "S" -> "EX_REQ"
                  [] ~ex            -> "SH_REQ"
           fails == first /\ t = "EX_REQ" /\ st # "I"
           x == [th |-> th, ex |-> ex]
           m == Msg(t, a, NoData)
<1>1. c \in Llcs
  BY ThreadsCache
<1>2. /\ ~Permissible(st, ex) /\ UNCHANGED sys
      /\ fails => UNCHANGED <<cache, waiters, toDir, toCache, dir>>
      /\ ~fails => /\ waiters' = [waiters EXCEPT ![c][a] = Append(@, x)]
                   /\ toDir' = IF first THEN [toDir EXCEPT ![c] = Append(@, m)] ELSE toDir
                   /\ cache' = IF first /\ t = "UPGRADE_REQ" THEN [cache EXCEPT ![c][a].st = "SU"]
                                                             ELSE cache
                   /\ UNCHANGED <<toCache, dir>>
  <2> HIDE DEF c
  <2> QED BY DEF Miss, Stop, c
<1>3. x \in Waiter
  BY DEF Waiter
<1>4. cache \in [Llcs -> [Addrs -> CacheLine]] /\ cache[c] \in [Addrs -> CacheLine] /\ st \in CStates
  <2>1. cache \in [Llcs -> [Addrs -> CacheLine]]
    BY CacheTypes
  <2> QED BY <1>1, <2>1 DEF CacheLine
<1>5. t \in Reqs /\ (t # "UPGRADE_REQ" => t \in Fetches) /\ (t = "UPGRADE_REQ" => st = "S")
  BY DEF Reqs, Fetches
<1>6. m \in ToDirMsg /\ m.a = a /\ m.t = t
  <2> HIDE DEF t
  <2> QED BY <1>5 DEF Msg, ToDirMsg, Data, Reqs
<1>7. first => st # "SU"
  <2>1. PairInv(c, a, st, waiters[c][a], toCache[c], toDir[c], dir.q[a], dir.e[a])
    BY <1>1, PairsHere DEF PairHere
  <2> QED BY <2>1 DEF PairInv, SomebodyWaits
<1>8. ~fails /\ first /\ t # "UPGRADE_REQ" => st = "I"
  BY <1>2, <1>4, <1>7 DEF Permissible, CStates
<1> HIDE DEF c, st, t, x, m
<1>9. CASE fails
  <2>1. UNCHANGED <<sys, cache, waiters, toDir, toCache, dir>>
    BY <1>2, <1>9
  <2> QED BY <2>1, InvStays
<1>10. CASE ~fails /\ ~first
  <2>1. waiters' = [waiters EXCEPT ![c][a] = Append(@, x)] /\ UNCHANGED <<sys, cache, toDir, toCache, dir>>
    BY <1>2, <1>10
  <2> QED BY <1>1, <1>3, <2>1, MissJoins
<1>11. CASE ~fails /\ first /\ t = "UPGRADE_REQ"
  <2> DEFINE lines == [cache[c] EXCEPT ![a].st = "SU"]
  <2>1. "SU" \in CStates /\ cache[c][a].st = "S"
    BY <1>5, <1>11 DEF CStates, st
  <2>2. /\ lines \in [Addrs -> CacheLine] /\ lines[a].st = "SU"
        /\ \A b \in Addrs : b # a => lines[b] = cache[c][b]
    <3>1. lines = [cache[c] EXCEPT ![a].st = "SU"]
      OBVIOUS
    <3> HIDE DEF lines
    <3> QED BY <1>4, <2>1, <3>1, StateSet
  <2>3. cache' = [cache EXCEPT ![c] = lines]
    BY <1>2, <1>11
  <2> HIDE DEF lines
  <2>4. /\ waiters' = [waiters EXCEPT ![c][a] = Append(@, x)] /\ waiters[c][a] = <<>>
        /\ toDir' = [toDir EXCEPT ![c] = Append(@, m)] /\ UNCHANGED <<sys, toCache, dir>>
    BY <1>2, <1>11
  <2>5. m.t = "UPGRADE_REQ"
    BY <1>6, <1>11
  <2>6. MissSent(c, a, x, lines, m) /\ MissLines(c, a, lines, m)
    BY <2>1, <2>2, <2>3, <2>4, <2>5 DEF MissSent, MissLines
  <2> QED BY <1>1, <1>3, <1>6, <2>2, <2>6, MissSends
<1>12. CASE ~fails /\ first /\ t # "UPGRADE_REQ"
  <2> DEFINE lines == cache[c]
  <2>1. m.t \in Fetches /\ cache[c][a].st = "I" /\ lines[a].st = "I"
    BY <1>5, <1>6, <1>8, <1>12 DEF st
  <2>2. /\ lines \in [Addrs -> CacheLine] /\ cache' = [cache EXCEPT ![c] = lines]
        /\ \A b \in Addrs : b # a => lines[b] = cache[c][b]
    BY <1>2, <1>4, <1>12
  <2> HIDE DEF lines
  <2>3. /\ waiters' = [waiters EXCEPT ![c][a] = Append(@, x)] /\ waiters[c][a] = <<>>
        /\ toDir' = [toDir EXCEPT ![c] = Append(@, m)] /\ UNCHANGED <<sys, toCache, dir>>
    BY <1>2, <1>12
  <2>4. MissSent(c, a, x, lines, m) /\ MissLines(c, a, lines, m)
    BY <2>1, <2>2, <2>3 DEF MissSent, MissLines
  <2> QED BY <1>1, <1>3, <1>6, <2>2, <2>4, MissSends
<1> QED BY <1>9, <1>10, <1>11, <1>12


(* A reply serves the waiters. *)
LEMMA WaitersSet ==
  ASSUME waiters \in WaitersType, NEW c \in Llcs, NEW a \in Addrs, NEW ws \in Seq(Waiter),
         waiters' = [waiters EXCEPT ![c][a] = ws]
  PROVE  /\ waiters' \in WaitersType /\ waiters'[c][a] = ws
         /\ \A b \in Addrs : b # a => waiters'[c][b] = waiters[c][b]
         /\ \A k \in Llcs : k # c => waiters'[k] = waiters[k]
<1>1. waiters[c] \in [Addrs -> Seq(Waiter)]
  BY DEF WaitersType
<1> QED BY <1>1 DEF WaitersType

LEMMA FirstWriter ==
  ASSUME waiters \in WaitersType, NEW c \in Llcs, NEW a \in Addrs, Writers(c, a) # {},
         NEW w, w = waiters[c][a]
  PROVE  /\ SubSeq(w, Min(Writers(c, a)), Len(w)) \in Seq(Waiter)
         /\ SubSeq(w, Min(Writers(c, a)), Len(w)) # <<>>
<1>1. w \in Seq(Waiter)
  BY DEF WaitersType
<1>2. Writers(c, a) \subseteq 1 .. Len(w)
  BY <1>1 DEF Writers
<1>3. Writers(c, a) \subseteq Nat
  BY <1>1, <1>2
<1> DEFINE n == Min(Writers(c, a))
<1>4. n \in Writers(c, a)
  BY <1>3, LeastOf
<1>5. n \in 1 .. Len(w)
  BY <1>2, <1>4
<1> HIDE DEF n
<1>6. SubSeq(w, n, Len(w)) \in Seq(Waiter) /\ Len(SubSeq(w, n, Len(w))) > 0
  BY <1>1, <1>5
<1>7. \A z \in Seq(Waiter) : Len(z) > 0 => z # <<>>
  OBVIOUS
<1>8. SubSeq(w, n, Len(w)) # <<>>
  BY <1>6, <1>7, Zenon
<1> QED BY <1>6, <1>8, Zenon DEF n

Answered(c) == [k \in Llcs |-> IF k = c THEN Tail(toCache[k]) ELSE toCache[k]]
Replying(c, a, lines, out) ==
    /\ lines[a].st \in {"E", "S", "M"}
    /\ \A b \in Addrs : b # a =>
           PairInv(c, b, lines[b].st, waiters[c][b], Tail(toCache[c]), toDir[c] \o out,
                   dir.q[b], dir.e[b])
    /\ \A vs : PairInv(c, a, lines[a].st, vs, Tail(toCache[c]), toDir[c] \o out,
                       dir.q[a], dir.e[a])
    /\ Idle(c, a, Tail(toCache[c]), toDir[c] \o out, dir.q[a])

LEMMA AnsweredIs ==
  ASSUME IInv, NEW c \in Llcs, toCache[c] # <<>>, NEW ss, ss = Answered(c)
  PROVE  /\ ss \in [Llcs -> Seq(ToCacheMsg)] /\ ss[c] = Tail(toCache[c])
         /\ \A k \in Llcs : k # c => ss[k] = toCache[k]
<1>1. toCache \in [Llcs -> Seq(ToCacheMsg)] /\ toCache[c] \in Seq(ToCacheMsg)
  BY CacheTypes
<1>2. Tail(toCache[c]) \in Seq(ToCacheMsg)
  BY <1>1
<1> QED BY <1>1, <1>2 DEF Answered

(* No waiter is left. *)
LEMMA RepliesAfter ==
  ASSUME NEW c, NEW a, NEW lines, NEW out, Replying(c, a, lines, out),
         NEW s, s = Tail(toCache[c]),
         \A b \in Addrs : b # a => waiters'[c][b] = waiters[c][b]
  PROVE  PairsAfter(c, lines, s, toDir[c] \o out)
<1>1. ASSUME NEW b \in Addrs
      PROVE  PairInv(c, b, lines[b].st, waiters'[c][b], s, toDir[c] \o out, dir.q[b], dir.e[b])
  <2>1. CASE b = a
    BY <2>1 DEF Replying
  <2>2. CASE b # a
    BY <2>2 DEF Replying
  <2> QED BY <2>1, <2>2
<1> QED BY <1>1 DEF PairsAfter

LEMMA ReplyServes ==
  ASSUME IInv, NEW c \in Llcs, NEW a \in Addrs, toCache[c] # <<>>,
         NEW lines \in [Addrs -> CacheLine], NEW out \in Seq(ToDirMsg), Replying(c, a, lines, out),
         waiters' = [waiters EXCEPT ![c][a] = <<>>], UNCHANGED sys,
         CacheStep(c, lines, out, {}), toCache' = Answered(c)
  PROVE  IInv'
<1>1. waiters \in WaitersType /\ <<>> \in Seq(Waiter)
  BY CacheTypes
<1>2. /\ waiters' \in WaitersType /\ waiters'[c][a] = <<>>
      /\ \A b \in Addrs : b # a => waiters'[c][b] = waiters[c][b]
      /\ \A k \in Llcs : k # c => waiters'[k] = waiters[k]
  BY <1>1, WaitersSet
<1>3. /\ toCache' \in [Llcs -> Seq(ToCacheMsg)] /\ toCache'[c] = Tail(toCache[c])
      /\ \A k \in Llcs : k # c => toCache'[k] = toCache[k]
  BY AnsweredIs
<1>4. OthersKept(c, toCache')
  BY <1>2, <1>3 DEF OthersKept
<1>5. PairsAfter(c, lines, toCache'[c], toDir[c] \o out)
  BY <1>2, <1>3, RepliesAfter
<1> QED BY <1>2, <1>3, <1>4, <1>5, StepInvPlain

LEMMA ReplyStores ==
  ASSUME IInv, NEW c \in Llcs, NEW a \in Addrs, toCache[c] # <<>>,
         NEW lines \in [Addrs -> CacheLine], NEW out \in Seq(ToDirMsg), Replying(c, a, lines, out),
         lines[a].st \in {"E", "M"},
         waiters' = [waiters EXCEPT ![c][a] = <<>>], UNCHANGED sys,
         CacheStep(c, lines, out, {a}),
         toCache' = [k \in Llcs |-> OldMsgs(Answered(c)[k], a)]
  PROVE  IInv'
<1>1. waiters \in WaitersType /\ <<>> \in Seq(Waiter)
  BY CacheTypes
<1>2. /\ waiters' \in WaitersType /\ waiters'[c][a] = <<>>
      /\ \A b \in Addrs : b # a => waiters'[c][b] = waiters[c][b]
      /\ \A k \in Llcs : k # c => waiters'[k] = waiters[k]
  BY <1>1, WaitersSet
<1> DEFINE ss == Answered(c)
<1>3. /\ ss \in [Llcs -> Seq(ToCacheMsg)] /\ ss[c] = Tail(toCache[c])
      /\ \A k \in Llcs : k # c => ss[k] = toCache[k]
  BY AnsweredIs
<1>4. toCache' = [k \in Llcs |-> OldMsgs(ss[k], a)]
  OBVIOUS
<1> HIDE DEF ss
<1>5. OthersKept(c, ss)
  BY <1>2, <1>3 DEF OthersKept
<1>6. PairsAfter(c, lines, ss[c], toDir[c] \o out)
  BY <1>2, <1>3, RepliesAfter
<1> QED BY <1>2, <1>3, <1>4, <1>5, <1>6, StepInvStore

UpgradeStep(c, a, lines, out) ==
    CacheStep(c, [lines EXCEPT ![a].st = "SU"], out \o UpgradeForWriter(a), {})

OneMore(out, m, z) == z = out \o <<m>>
AlsoSent(s, out, m, z) == z \in Seq(ToDirMsg) /\ s \o z = Append(s \o out, m)

LEMMA SentAfter ==
  ASSUME NEW s \in Seq(ToDirMsg), NEW out \in Seq(ToDirMsg), NEW m \in ToDirMsg,
         NEW z, OneMore(out, m, z)
  PROVE  AlsoSent(s, out, m, z)
  BY DEF OneMore, AlsoSent

LEMMA ReplyUpgrades ==
  ASSUME IInv, NEW c \in Llcs, NEW a \in Addrs, toCache[c] # <<>>,
         NEW lines \in [Addrs -> CacheLine], NEW out \in Seq(ToDirMsg), Replying(c, a, lines, out),
         lines[a].st = "S", NEW ws \in Seq(Waiter), ws # <<>>,
         waiters' = [waiters EXCEPT ![c][a] = ws], UNCHANGED sys,
         UpgradeStep(c, a, lines, out),
         toCache' = Answered(c)
  PROVE  IInv'
<1>1. /\ waiters \in WaitersType /\ toDir[c] \in Seq(ToDirMsg)
      /\ toDir[c] \o out \in Seq(ToDirMsg)
  BY CacheTypes
<1>2. /\ waiters' \in WaitersType /\ waiters'[c][a] = ws
      /\ \A b \in Addrs : b # a => waiters'[c][b] = waiters[c][b]
      /\ \A k \in Llcs : k # c => waiters'[k] = waiters[k]
  BY <1>1, WaitersSet
<1>3. /\ toCache' \in [Llcs -> Seq(ToCacheMsg)] /\ toCache'[c] = Tail(toCache[c])
      /\ \A k \in Llcs : k # c => toCache'[k] = toCache[k]
  BY AnsweredIs
<1>4. OthersKept(c, toCache')
  BY <1>2, <1>3 DEF OthersKept
<1> DEFINE m == Msg("UPGRADE_REQ", a, NoData)
           ups == UpgradeForWriter(a)
           out2 == out \o ups
           lines2 == [lines EXCEPT ![a].st = "SU"]
<1>5. m \in ToDirMsg /\ m.a = a /\ m.t = "UPGRADE_REQ" /\ ups = <<m>>
  BY DEF Msg, ToDirMsg, Data, Reqs, UpgradeForWriter
<1>6. "SU" \in CStates
  BY DEF CStates
<1>7. CacheStep(c, lines2, out2, {})
  BY DEF UpgradeStep
<1>8. lines2 = [lines EXCEPT ![a].st = "SU"]
  OBVIOUS
<1>9. OneMore(out, m, out2)
  BY <1>5 DEF OneMore
<1> HIDE DEF m, ups, out2, lines2
<1>10. /\ lines2 \in [Addrs -> CacheLine] /\ lines2[a].st = "SU"
      /\ \A b \in Addrs : b # a => lines2[b] = lines[b]
  BY <1>6, <1>8, StateSet
<1>11. out2 \in Seq(ToDirMsg) /\ toDir[c] \o out2 = Append(toDir[c] \o out, m)
  <2>1. m \in ToDirMsg /\ toDir[c] \in Seq(ToDirMsg)
    BY <1>1, <1>5
  <2>2. AlsoSent(toDir[c], out, m, out2)
    BY <1>9, <2>1, SentAfter
  <2> QED BY <2>2 DEF AlsoSent
<1> DEFINE r == toDir[c] \o out
           s == Tail(toCache[c])
<1>12. ASSUME NEW b \in Addrs
       PROVE  PairInv(c, b, lines2[b].st, waiters'[c][b], s, Append(r, m), dir.q[b], dir.e[b])
  <2>1. CASE b = a
    <3>1. PairInv(c, a, "S", ws, s, r, dir.q[a], dir.e[a]) /\ Idle(c, a, s, r, dir.q[a])
      BY DEF Replying
    <3>2. r \in Seq(ToDirMsg)
      BY <1>1
    <3> HIDE DEF r, s
    <3>3. PairInv(c, a, "SU", ws, s, Append(r, m), dir.q[a], dir.e[a])
      BY <1>5, <3>1, <3>2, PairRequests
    <3> QED BY <1>2, <1>10, <2>1, <3>3
  <2>2. CASE b # a
    <3>1. PairInv(c, b, lines[b].st, waiters[c][b], s, r, dir.q[b], dir.e[b])
      BY <2>2 DEF Replying
    <3>2. r \in Seq(ToDirMsg)
      BY <1>1
    <3> HIDE DEF r, s
    <3>3. Alike(r, Append(r, m), b) /\ Alike(s, s, b)
      BY <1>5, <2>2, <3>2, PushOther, AlikeSelf
    <3>4. PairInv(c, b, lines[b].st, waiters[c][b], s, Append(r, m), dir.q[b], dir.e[b])
      BY <3>1, <3>3, PairElsewhere
    <3> QED BY <1>2, <1>10, <2>2, <3>4
  <2> QED BY <2>1, <2>2
<1>13. PairsAfter(c, lines2, toCache'[c], toDir[c] \o out2)
  BY <1>3, <1>11, <1>12 DEF PairsAfter
<1> QED BY <1>2, <1>3, <1>4, <1>7, <1>10, <1>11, <1>13, StepInvPlain


LEMMA ReplyInv ==
  ASSUME IInv, NEW c \in Llcs, NEW a \in Addrs, toCache[c] # <<>>,
         NEW lines \in [Addrs -> CacheLine], NEW out \in Seq(ToDirMsg), Replying(c, a, lines, out),
         Reply(c, a, lines, out), UNCHANGED sys
  PROVE  IInv'
<1>1. lines[a].st \in {"E", "S", "M"} /\ "S" \notin {"E", "M"}
  BY DEF Replying
<1>2. CASE Writers(c, a) = {}
  <2>1. /\ waiters' = [waiters EXCEPT ![c][a] = <<>>] /\ CacheStep(c, lines, out, {})
        /\ toCache' = Answered(c)
    BY <1>2 DEF Reply, Answered
  <2> QED BY <2>1, ReplyServes
<1>3. CASE Writers(c, a) # {} /\ lines[a].st = "S"
  <2> DEFINE ws == SubSeq(waiters[c][a], Min(Writers(c, a)), Len(waiters[c][a]))
  <2>1. waiters' = [waiters EXCEPT ![c][a] = ws] /\ toCache' = Answered(c)
    BY <1>1, <1>3 DEF Reply, Answered
  <2>2. UpgradeStep(c, a, lines, out)
    BY <1>1, <1>3 DEF Reply, UpgradeStep
  <2>3. ws \in Seq(Waiter) /\ ws # <<>>
    BY <1>3, FirstWriter, CacheTypes
  <2> HIDE DEF ws
  <2> QED BY <1>3, <2>1, <2>2, <2>3, ReplyUpgrades
<1>4. CASE Writers(c, a) # {} /\ lines[a].st # "S"
  <2>1. lines[a].st \in {"E", "M"}
    BY <1>1, <1>4
  <2>2. /\ waiters' = [waiters EXCEPT ![c][a] = <<>>] /\ CacheStep(c, lines, out, {a})
        /\ toCache' = [k \in Llcs |-> OldMsgs(Answered(c)[k], a)]
    BY <1>1, <1>4, <2>1 DEF Reply, Answered
  <2> QED BY <2>1, <2>2, ReplyStores
<1> QED BY <1>2, <1>3, <1>4

(* The head of the messages to a cache. *)
LEMMA HeadHere ==
  ASSUME IInv, NEW c \in Llcs, toCache[c] # <<>>
  PROVE  /\ HeadMsg(c) \in ToCacheMsg /\ HeadMsg(c).a \in Addrs
         /\ toCache[c] \in Seq(ToCacheMsg) /\ toDir[c] \in Seq(ToDirMsg)
         /\ Tail(toCache[c]) \in Seq(ToCacheMsg)
         /\ cache[c] \in [Addrs -> CacheLine]
         /\ \A b \in Addrs : b # HeadMsg(c).a => Alike(toCache[c], Tail(toCache[c]), b)
<1>1. toCache[c] \in Seq(ToCacheMsg) /\ toDir[c] \in Seq(ToDirMsg) /\ cache[c] \in [Addrs -> CacheLine]
  BY CacheTypes
<1>2. Head(toCache[c]) \in ToCacheMsg /\ Tail(toCache[c]) \in Seq(ToCacheMsg)
  BY <1>1, Popped
<1>3. HeadMsg(c) \in ToCacheMsg /\ HeadMsg(c).a \in Addrs
  BY <1>2 DEF HeadMsg, ToCacheMsg
<1>4. \A b \in Addrs : b # HeadMsg(c).a => Alike(toCache[c], Tail(toCache[c]), b)
  BY <1>1, PopOther DEF HeadMsg
<1> QED BY <1>1, <1>2, <1>3, <1>4

(* The victim of an insertion. *)
LEMMA VictimHeld ==
  ASSUME NEW c, NEW v, v \in Victims(c) PROVE v \in Addrs /\ cache[c][v].st # "I"
  BY DEF Victims, Held

LEMMA VictimPair ==
  ASSUME IInv, NEW c \in Llcs, NEW v \in Addrs, cache[c][v].st # "I", NEW m, m = EvictMsg(c, v)
  PROVE  /\ m \in ToDirMsg /\ m.a = v
         /\ PairInv(c, v, "I", waiters[c][v], toCache[c], Append(toDir[c], m), dir.q[v], dir.e[v])
<1> DEFINE st == cache[c][v].st
           data == IF st = "M" THEN cache[c][v].data ELSE NoData
           t == IF st = "M" THEN "FLUSH_REP" ELSE "INV_REP"
<1>1. cache[c] \in [Addrs -> CacheLine] /\ toDir[c] \in Seq(ToDirMsg)
  BY CacheTypes
<1>2. /\ data \in Data /\ t \in Gives /\ t # "WB_REP"
      /\ t = "FLUSH_REP" => st = "M" /\ data # NoData
  BY <1>1 DEF CacheLine, Data, Gives
<1>3. m = Msg(t, v, data)
  BY DEF EvictMsg
<1>4. PairInv(c, v, st, waiters[c][v], toCache[c], toDir[c], dir.q[v], dir.e[v])
  BY PairsHere DEF PairHere
<1>5. st # "I"
  OBVIOUS
<1> HIDE DEF st, data, t
<1>6. m \in ToDirMsg /\ m.a = v /\ m.t = t
  BY <1>2, <1>3 DEF Msg, ToDirMsg
<1>7. st = "M" => dir.e[v].st \in {"E", "M"} /\ ~Has(toDir[c], {"WB_REP"}, v)
  BY <1>4 DEF PairInv, OwnerKnown, WriteBackUnderWay
<1> DEFINE q == dir.q[v]
           e == dir.e[v]
<1>8. m.t = "FLUSH_REP" =>
          /\ ~Has(toDir[c], {"WB_REP"}, v)
          /\ e.st \in {"E", "M"} \/ (q # <<>> /\ ~Head(q).wait /\ UpgradeWithoutCopy(q, e))
  BY <1>2, <1>6, <1>7
<1>9. m.t \in Gives
  BY <1>2, <1>6
<1>10. PairInv(c, v, st, waiters[c][v], toCache[c], toDir[c], q, e)
  BY <1>4
<1> HIDE DEF q, e
<1>11. PairInv(c, v, "I", waiters[c][v], toCache[c], Append(toDir[c], m), q, e)
  BY <1>1, <1>5, <1>6, <1>8, <1>9, <1>10, PairReleases
<1> QED BY <1>6, <1>11 DEF q, e


(* The lines and the message of an insertion. *)
LEMMA InsertedIs ==
  ASSUME IInv, NEW c \in Llcs, NEW a \in Addrs, NEW line \in CacheLine, NEW v \in Addrs,
         cache[c][a].st = "I", Evicts(c) => cache[c][v].st # "I",
         NEW lines, lines = Inserted(c, a, line, v)
  PROVE  /\ lines \in [Addrs -> CacheLine] /\ lines[a] = line
         /\ \A b \in Addrs : b # a /\ (b = v => ~Evicts(c)) => lines[b] = cache[c][b]
         /\ Evicts(c) => lines[v].st = "I" /\ v # a
<1>1. cache[c] \in [Addrs -> CacheLine]
  BY CacheTypes
<1>2. Absent \in CacheLine /\ Absent.st = "I"
  BY DEF Absent, Line, CacheLine, CStates, Data
<1>3. Evicts(c) => v # a
  OBVIOUS
<1>4. lines \in [Addrs -> CacheLine]
  BY <1>1, <1>2 DEF Inserted
<1>5. lines[a] = line /\ (Evicts(c) => lines[v] = Absent)
  BY <1>3 DEF Inserted
<1>6. \A b \in Addrs : b # a /\ (b = v => ~Evicts(c)) => lines[b] = cache[c][b]
  BY DEF Inserted
<1> QED BY <1>2, <1>3, <1>4, <1>5, <1>6

(* Where the insertion leaves the other lines of the cache. *)
EvictedPair(c, b, st, out) ==
    PairInv(c, b, st, waiters[c][b], toCache[c], toDir[c] \o out, dir.q[b], dir.e[b])

LEMMA OthersInserted ==
  ASSUME IInv, NEW c \in Llcs, NEW a \in Addrs, NEW line \in CacheLine, NEW v \in Addrs,
         cache[c][a].st = "I", Evicts(c) => cache[c][v].st # "I",
         NEW lines, lines = Inserted(c, a, line, v), NEW out, out = Evicted(c, v)
  PROVE  /\ out \in Seq(ToDirMsg) /\ Alike(toDir[c], toDir[c] \o out, a)
         /\ \A b \in Addrs : b # a => EvictedPair(c, b, lines[b].st, out)
<1>1. /\ \A b \in Addrs : b # a /\ (b = v => ~Evicts(c)) => lines[b] = cache[c][b]
      /\ Evicts(c) => lines[v].st = "I" /\ v # a
  BY InsertedIs
<1>2. toDir[c] \in Seq(ToDirMsg)
  BY CacheTypes
<1>3. \A b \in Addrs :
          PairInv(c, b, cache[c][b].st, waiters[c][b], toCache[c], toDir[c], dir.q[b], dir.e[b])
  BY PairsHere DEF PairHere
<1>4. CASE ~Evicts(c)
  <2>1. out = <<>>
    BY <1>4 DEF Evicted
  <2>2. toDir[c] \o out = toDir[c] /\ out \in Seq(ToDirMsg)
    BY <1>2, <2>1, NothingSent
  <2>3. \A b \in Addrs : b # a => EvictedPair(c, b, lines[b].st, out)
    BY <1>1, <1>3, <1>4, <2>2 DEF EvictedPair
  <2> QED BY <2>2, <2>3, AlikeSelf
<1>5. CASE Evicts(c)
  <2> DEFINE m == EvictMsg(c, v)
  <2>1. out = <<m>> /\ v # a /\ cache[c][v].st # "I" /\ lines[v].st = "I"
    BY <1>1, <1>5 DEF Evicted
  <2>2. /\ m \in ToDirMsg /\ m.a = v
        /\ PairInv(c, v, "I", waiters[c][v], toCache[c], Append(toDir[c], m), dir.q[v], dir.e[v])
    BY <2>1, VictimPair
  <2> HIDE DEF m
  <2>3. toDir[c] \o out = Append(toDir[c], m) /\ out \in Seq(ToDirMsg)
    BY <1>2, <2>1, <2>2, OneSent
  <2>4. \A b \in Addrs : b # v => Alike(toDir[c], Append(toDir[c], m), b)
    BY <1>2, <2>2, PushOther
  <2>5. ASSUME NEW b \in Addrs, b # a PROVE EvictedPair(c, b, lines[b].st, out)
    <3>1. CASE b = v
      BY <2>1, <2>2, <2>3, <3>1 DEF EvictedPair
    <3>2. CASE b # v
      <4>1. PairInv(c, b, cache[c][b].st, waiters[c][b], toCache[c], toDir[c], dir.q[b], dir.e[b])
        BY <1>3
      <4>2. Alike(toDir[c], toDir[c] \o out, b)
        BY <2>3, <2>4, <3>2
      <4>3. PairInv(c, b, cache[c][b].st, waiters[c][b], toCache[c], toDir[c] \o out, dir.q[b], dir.e[b])
        BY <4>1, <4>2, AlikeSelf, PairElsewhere
      <4>4. lines[b] = cache[c][b]
        BY <1>1, <2>5, <3>2
      <4> QED BY <4>3, <4>4 DEF EvictedPair
    <3> QED BY <3>1, <3>2
  <2> QED BY <2>1, <2>3, <2>4, <2>5
<1> QED BY <1>4, <1>5

LEMMA DataReplyInv ==
  ASSUME IInv, NEW c \in Llcs, NEW v \in Addrs, DataReply(c, v) PROVE IInv'
<1> DEFINE m == HeadMsg(c)
           a == m.a
           st == IF m.t = "EX_REP" THEN "E" ELSE "S"
           line == Line(st, m.data)
           lines == Inserted(c, a, line, v)
           out == Evicted(c, v)
           fails == \/ cache[c][a].st # "I" \/ waiters[c][a] = <<>>
                    \/ Evicts(c) /\ cache[c][v].st = "SU"
<1>1. /\ toCache[c] # <<>> /\ m.t \in {"EX_REP", "SH_REP"} /\ UNCHANGED sys
      /\ Evicts(c) => v \in Victims(c)
  BY DEF DataReply, Arrives, HeadMsg
<1>2. /\ fails => UNCHANGED <<cache, waiters, toDir, toCache, dir>>
      /\ ~fails => Reply(c, a, lines, out)
  BY DEF DataReply, Stop
<1>3. CASE fails
  <2>1. UNCHANGED <<sys, cache, waiters, toDir, toCache, dir>>
    BY <1>1, <1>2, <1>3
  <2> QED BY <2>1, InvStays
<1>4. CASE ~fails
  <2>1. /\ m \in ToCacheMsg /\ a \in Addrs
        /\ toCache[c] \in Seq(ToCacheMsg) /\ toDir[c] \in Seq(ToDirMsg)
        /\ \A b \in Addrs : b # a => Alike(toCache[c], Tail(toCache[c]), b)
    BY <1>1, HeadHere
  <2>2. line \in CacheLine /\ line.st = st /\ st \in {"E", "S", "M"}
    BY <1>1, <2>1 DEF Line, CacheLine, CStates, ToCacheMsg, DataReps
  <2>3. cache[c][a].st = "I" /\ (Evicts(c) => cache[c][v].st # "I")
    BY <1>1, <1>4, VictimHeld
  <2>4. Reply(c, a, lines, out)
    BY <1>2, <1>4
  <2>5. lines = Inserted(c, a, line, v) /\ out = Evicted(c, v) /\ m = Head(toCache[c])
    BY DEF HeadMsg
  <2>6. st = IF Head(toCache[c]).t = "EX_REP" THEN "E" ELSE "S"
    BY <2>5
  <2>7. a = m.a
    OBVIOUS
  <2> HIDE DEF fails, st, line, lines, out, m, a
  <2>8. /\ lines \in [Addrs -> CacheLine] /\ lines[a].st = st
        /\ out \in Seq(ToDirMsg) /\ Alike(toDir[c], toDir[c] \o out, a)
        /\ \A b \in Addrs : b # a => EvictedPair(c, b, lines[b].st, out)
    BY <2>1, <2>2, <2>3, <2>5, InsertedIs, OthersInserted
  <2> DEFINE s == toCache[c]
             z == Tail(toCache[c])
             r == toDir[c]
             y == toDir[c] \o out
  <2>9. ASSUME NEW b \in Addrs, b # a
        PROVE  PairInv(c, b, lines[b].st, waiters[c][b], z, y, dir.q[b], dir.e[b])
    <3>1. PairInv(c, b, lines[b].st, waiters[c][b], s, y, dir.q[b], dir.e[b])
      BY <2>8, <2>9 DEF EvictedPair
    <3>2. Alike(s, z, b) /\ Alike(y, y, b)
      BY <2>1, <2>9, AlikeSelf
    <3> HIDE DEF s, z, r, y
    <3> QED BY <3>1, <3>2, PairElsewhere
  <2>10. PairInv(c, a, "I", waiters[c][a], s, r, dir.q[a], dir.e[a])
    <3>1. PairInv(c, a, cache[c][a].st, waiters[c][a], s, r, dir.q[a], dir.e[a])
      BY <2>1, PairsHere DEF PairHere
    <3> QED BY <2>3, <3>1
  <2>11. s # <<>> /\ Head(s).a = a /\ Head(s).t \in DataReps /\ s \in Seq(ToCacheMsg)
    BY <1>1, <2>1, <2>5, <2>7 DEF DataReps
  <2>12. st = (IF Head(s).t = "EX_REP" THEN "E" ELSE "S") /\ z = Tail(s)
    BY <2>6
  <2>13. ASSUME NEW vs
         PROVE  PairInv(c, a, st, vs, z, y, dir.q[a], dir.e[a]) /\ Idle(c, a, z, y, dir.q[a])
    <3>1. Alike(r, y, a) /\ Alike(z, z, a)
      BY <2>8, AlikeSelf
    <3> HIDE DEF s, z, r, y
    <3>2. PairInv(c, a, st, vs, z, r, dir.q[a], dir.e[a]) /\ Idle(c, a, z, r, dir.q[a])
      BY <2>10, <2>11, <2>12, PairTakesData
    <3>3. PairInv(c, a, st, vs, z, y, dir.q[a], dir.e[a])
      BY <3>1, <3>2, PairElsewhere
    <3>4. Has(y, Reqs, a) <=> Has(r, Reqs, a)
      BY <3>1 DEF Alike
    <3> QED BY <3>2, <3>3, <3>4 DEF Idle
  <2>14. Replying(c, a, lines, out)
    <3>1. lines[a].st \in {"E", "S", "M"} /\ lines[a].st = st
      BY <2>2, <2>8
    <3> QED BY <2>9, <2>13, <3>1 DEF Replying
  <2> QED BY <1>1, <2>1, <2>4, <2>8, <2>14, ReplyInv
<1> QED BY <1>3, <1>4

LEMMA UpgradeReplyInv ==
  ASSUME IInv, NEW c \in Llcs, UpgradeReply(c) PROVE IInv'
<1> DEFINE m == HeadMsg(c)
           a == m.a
           lines == [cache[c] EXCEPT ![a].st = "M"]
           out == <<>>
           fails == cache[c][a].st # "SU"
<1>1. toCache[c] # <<>> /\ m.t = "UPGRADE_REP" /\ UNCHANGED sys
  BY DEF UpgradeReply, Arrives, HeadMsg
<1>2. /\ fails => UNCHANGED <<cache, waiters, toDir, toCache, dir>>
      /\ ~fails => Reply(c, a, lines, out)
  BY DEF UpgradeReply, Stop
<1>3. CASE fails
  <2>1. UNCHANGED <<sys, cache, waiters, toDir, toCache, dir>>
    BY <1>1, <1>2, <1>3
  <2> QED BY <2>1, InvStays
<1>4. CASE ~fails
  <2>1. /\ m \in ToCacheMsg /\ a \in Addrs
        /\ toCache[c] \in Seq(ToCacheMsg) /\ toDir[c] \in Seq(ToDirMsg)
        /\ cache[c] \in [Addrs -> CacheLine]
        /\ \A b \in Addrs : b # a => Alike(toCache[c], Tail(toCache[c]), b)
    BY <1>1, HeadHere
  <2>2. Reply(c, a, lines, out) /\ cache[c][a].st = "SU" /\ "M" \in CStates
    BY <1>2, <1>4 DEF CStates
  <2>3. lines = [cache[c] EXCEPT ![a].st = "M"]
    OBVIOUS
  <2>4. m = Head(toCache[c]) /\ a = m.a
    BY DEF HeadMsg
  <2>5. toDir[c] \o out = toDir[c] /\ out \in Seq(ToDirMsg)
    BY <2>1, NothingSent
  <2> HIDE DEF fails, lines, out, m, a
  <2>6. /\ lines \in [Addrs -> CacheLine] /\ lines[a].st = "M"
        /\ \A b \in Addrs : b # a => lines[b] = cache[c][b]
    <3>1. a \in Addrs /\ cache[c] \in [Addrs -> CacheLine] /\ cache[c][a].st # "I"
      BY <2>1, <2>2
    <3>2. "M" \in CStates
      BY <2>2
    <3> QED BY <2>3, <3>1, <3>2, StateSet
  <2> DEFINE s == toCache[c]
             z == Tail(toCache[c])
             r == toDir[c]
  <2>7. ASSUME NEW b \in Addrs, b # a
        PROVE  PairInv(c, b, lines[b].st, waiters[c][b], z, r, dir.q[b], dir.e[b])
    <3>1. PairInv(c, b, cache[c][b].st, waiters[c][b], s, r, dir.q[b], dir.e[b])
      BY PairsHere DEF PairHere
    <3>2. Alike(s, z, b) /\ Alike(r, r, b) /\ lines[b] = cache[c][b]
      BY <2>1, <2>6, <2>7, AlikeSelf
    <3> HIDE DEF s, z, r
    <3>3. PairInv(c, b, cache[c][b].st, waiters[c][b], z, r, dir.q[b], dir.e[b])
      BY <3>1, <3>2, PairElsewhere
    <3> QED BY <3>2, <3>3
  <2>8. PairInv(c, a, "SU", waiters[c][a], s, r, dir.q[a], dir.e[a])
    <3>1. PairInv(c, a, cache[c][a].st, waiters[c][a], s, r, dir.q[a], dir.e[a])
      BY <2>1, PairsHere DEF PairHere
    <3> QED BY <2>2, <3>1
  <2>9. s # <<>> /\ Head(s).a = a /\ Head(s).t = "UPGRADE_REP" /\ s \in Seq(ToCacheMsg) /\ z = Tail(s)
    BY <1>1, <2>1, <2>4
  <2>10. ASSUME NEW vs
         PROVE  PairInv(c, a, "M", vs, z, r, dir.q[a], dir.e[a]) /\ Idle(c, a, z, r, dir.q[a])
    <3> HIDE DEF s, z, r
    <3> QED BY <2>8, <2>9, PairUpgraded
  <2>11. Replying(c, a, lines, out)
    BY <2>5, <2>6, <2>7, <2>10 DEF Replying
  <2> QED BY <1>1, <2>1, <2>2, <2>5, <2>6, <2>11, ReplyInv
<1> QED BY <1>3, <1>4


(* A request from the directory is taken. *)
LEMMA ConsumeIs ==
  ASSUME IInv, NEW c \in Llcs, toCache[c] # <<>>, Consume(c), waiters' = waiters
  PROVE  /\ toCache' \in [Llcs -> Seq(ToCacheMsg)] /\ toCache'[c] = Tail(toCache[c])
         /\ OthersKept(c, toCache') /\ waiters' \in WaitersType
<1>1. /\ toCache \in [Llcs -> Seq(ToCacheMsg)] /\ toCache[c] \in Seq(ToCacheMsg)
      /\ waiters \in WaitersType
  BY CacheTypes
<1>2. Tail(toCache[c]) \in Seq(ToCacheMsg)
  BY <1>1
<1>3. toCache' = [k \in Llcs |-> IF k = c THEN Tail(toCache[k]) ELSE toCache[k]]
  BY <1>1 DEF Consume
<1> QED BY <1>1, <1>2, <1>3 DEF OthersKept

LEMMA Ignored ==
  ASSUME IInv, NEW c \in Llcs, toCache[c] # <<>>,
         HeadMsg(c).t \in {"INV_REQ", "FLUSH_REQ", "WB_REQ"},
         Consume(c), UNCHANGED <<sys, cache, waiters, toDir, dir>>
  PROVE  IInv'
<1> DEFINE a == HeadMsg(c).a
           s == toCache[c]
           z == Tail(toCache[c])
           r == toDir[c]
           out == <<>>
           lines == cache[c]
<1>1. /\ a \in Addrs /\ s \in Seq(ToCacheMsg) /\ r \in Seq(ToDirMsg)
      /\ lines \in [Addrs -> CacheLine]
  BY HeadHere
<1>2. \A b \in Addrs : b # a => Alike(s, z, b)
  BY HeadHere
<1>3. /\ toCache' \in [Llcs -> Seq(ToCacheMsg)] /\ toCache'[c] = z
      /\ OthersKept(c, toCache') /\ waiters' \in WaitersType
  BY ConsumeIs
<1>4. r \o out = r /\ out \in Seq(ToDirMsg)
  BY <1>1, NothingSent
<1>5. s # <<>> /\ Head(s).a = a /\ Head(s).t \in {"INV_REQ", "FLUSH_REQ", "WB_REQ"} /\ z = Tail(s)
  BY DEF HeadMsg
<1>6. /\ cache' = [k \in Llcs |-> IF k = c THEN lines ELSE cache[k]]
      /\ toDir' = [k \in Llcs |-> IF k = c THEN toDir[k] \o out ELSE toDir[k]]
  <2>1. cache \in [Llcs -> [Addrs -> CacheLine]] /\ toDir \in [Llcs -> Seq(ToDirMsg)]
    BY CacheTypes
  <2> HIDE DEF out
  <2> QED BY <1>4, <2>1
<1>7. ASSUME NEW b \in Addrs
      PROVE  PairInv(c, b, lines[b].st, waiters[c][b], z, r, dir.q[b], dir.e[b])
  <2>1. PairInv(c, b, lines[b].st, waiters[c][b], s, r, dir.q[b], dir.e[b])
    BY PairsHere DEF PairHere
  <2> HIDE DEF a, s, z, r, out, lines
  <2>2. CASE b = a
    BY <1>1, <1>5, <2>1, <2>2, PairConsumes
  <2>3. CASE b # a
    <3>1. Alike(s, z, b) /\ Alike(r, r, b)
      BY <1>2, <2>3, AlikeSelf
    <3> QED BY <2>1, <3>1, PairElsewhere
  <2> QED BY <2>2, <2>3
<1>8. PairsAfter(c, lines, toCache'[c], toDir[c] \o out)
  <2> HIDE DEF a, z, out, lines
  <2> QED BY <1>3, <1>4, <1>7 DEF PairsAfter
<1> HIDE DEF a, s, z, r, out, lines
<1>9. out \in Seq(ToDirMsg) /\ lines \in [Addrs -> CacheLine]
  BY <1>1, <1>4
<1> QED BY <1>3, <1>6, <1>8, <1>9, StepInvMoved

(* A request from the directory is answered. *)
LEMMA AnsweredFor ==
  ASSUME IInv, NEW c \in Llcs, toCache[c] # <<>>, NEW lines \in [Addrs -> CacheLine],
         NEW x \in ToDirMsg, NEW a \in Addrs, a = HeadMsg(c).a, x.a = a,
         \A b \in Addrs : b # a => lines[b] = cache[c][b],
         PairInv(c, a, lines[a].st, waiters[c][a], Tail(toCache[c]), Append(toDir[c], x),
                 dir.q[a], dir.e[a]),
         CacheStep(c, lines, <<x>>, {}), Consume(c), UNCHANGED <<sys, waiters>>
  PROVE  IInv'
<1> DEFINE s == toCache[c]
           z == Tail(toCache[c])
           r == toDir[c]
           y == Append(toDir[c], x)
           out == <<x>>
<1>1. s \in Seq(ToCacheMsg) /\ r \in Seq(ToDirMsg)
  BY HeadHere
<1>2. \A b \in Addrs : b # a => Alike(s, z, b)
  BY HeadHere
<1>3. /\ toCache' \in [Llcs -> Seq(ToCacheMsg)] /\ toCache'[c] = z
      /\ OthersKept(c, toCache') /\ waiters' \in WaitersType /\ UNCHANGED <<sys, waiters>>
  BY ConsumeIs
<1>4. r \o out = y /\ out \in Seq(ToDirMsg)
  BY <1>1, OneSent
<1>5. ASSUME NEW b \in Addrs
      PROVE  PairInv(c, b, lines[b].st, waiters[c][b], z, y, dir.q[b], dir.e[b])
  <2>1. CASE b = a
    BY <2>1
  <2>2. CASE b # a
    <3>1. PairInv(c, b, cache[c][b].st, waiters[c][b], s, r, dir.q[b], dir.e[b])
      BY PairsHere DEF PairHere
    <3>2. Alike(s, z, b) /\ Alike(r, y, b) /\ lines[b] = cache[c][b]
      BY <1>1, <1>2, <2>2, PushOther
    <3> HIDE DEF s, z, r, y, out
    <3>3. PairInv(c, b, cache[c][b].st, waiters[c][b], z, y, dir.q[b], dir.e[b])
      BY <3>1, <3>2, PairElsewhere
    <3> QED BY <3>2, <3>3
  <2> QED BY <2>1, <2>2
<1>6. CacheStep(c, lines, out, {})
  OBVIOUS
<1>7. PairsAfter(c, lines, toCache'[c], toDir[c] \o out)
  <2>1. toDir[c] \o out = y
    BY <1>4
  <2> HIDE DEF s, z, r, y, out
  <2> QED BY <1>3, <1>5, <2>1 DEF PairsAfter
<1> HIDE DEF s, z, r, y, out
<1> QED BY <1>3, <1>4, <1>6, <1>7, StepInvPlain


LEMMA LineSet ==
  ASSUME NEW lines \in [Addrs -> CacheLine], NEW a \in Addrs, NEW line \in CacheLine,
         NEW new, new = [lines EXCEPT ![a] = line]
  PROVE  /\ new \in [Addrs -> CacheLine] /\ new[a] = line
         /\ \A b \in Addrs : b # a => new[b] = lines[b]
  OBVIOUS

LEMMA AbsentIs == Absent \in CacheLine /\ Absent.st = "I"
  BY DEF Absent, Line, CacheLine, CStates, Data

LEMMA InvalidateInv ==
  ASSUME IInv, NEW c \in Llcs, Invalidate(c) PROVE IInv'
<1> DEFINE a == HeadMsg(c).a
           st == cache[c][a].st
           x == Msg("INV_REP", a, NoData)
           lines == [cache[c] EXCEPT ![a] = Absent]
<1>1. toCache[c] # <<>> /\ HeadMsg(c).t = "INV_REQ" /\ UNCHANGED sys
  BY DEF Invalidate, Arrives, HeadMsg
<1>2. a \in Addrs /\ cache[c] \in [Addrs -> CacheLine] /\ toDir[c] \in Seq(ToDirMsg)
      /\ toCache[c] \in Seq(ToCacheMsg)
  BY <1>1, HeadHere
<1>3. CASE st = "I"
  <2>1. Consume(c) /\ UNCHANGED <<sys, cache, waiters, toDir, dir>>
    BY <1>1, <1>3 DEF Invalidate
  <2> QED BY <1>1, <2>1, Ignored
<1>4. CASE st = "M"
  <2>1. UNCHANGED <<sys, cache, waiters, toDir, toCache, dir>>
    BY <1>1, <1>4 DEF Invalidate, Stop
  <2> QED BY <2>1, InvStays
<1>5. CASE st \notin {"I", "M"}
  <2>1. CacheStep(c, lines, <<x>>, {}) /\ Consume(c) /\ UNCHANGED <<sys, waiters>>
    BY <1>1, <1>5 DEF Invalidate, InvStateAfter
  <2>2. /\ lines \in [Addrs -> CacheLine] /\ lines[a].st = "I"
        /\ \A b \in Addrs : b # a => lines[b] = cache[c][b]
    <3>1. lines = [cache[c] EXCEPT ![a] = Absent]
      OBVIOUS
    <3> HIDE DEF lines, a
    <3> QED BY <1>2, <3>1, AbsentIs, LineSet
  <2>3. x \in ToDirMsg /\ x.a = a /\ x.t \in Gives /\ x.t # "FLUSH_REP"
    BY <1>2 DEF Msg, ToDirMsg, Gives, Data
  <2> DEFINE s == toCache[c]
             z == Tail(toCache[c])
             r == toDir[c]
             y == Append(toDir[c], x)
  <2>4. PairInv(c, a, st, waiters[c][a], s, r, dir.q[a], dir.e[a])
    BY <1>2, PairsHere DEF PairHere
  <2>5. s # <<>> /\ Head(s).a = a /\ Head(s).t \in {"INV_REQ", "FLUSH_REQ", "WB_REQ"} /\ st # "I"
        /\ s \in Seq(ToCacheMsg) /\ r \in Seq(ToDirMsg) /\ y = Append(r, x) /\ z = Tail(s)
    BY <1>1, <1>2, <1>5 DEF HeadMsg
  <2>6. PairInv(c, a, "I", waiters[c][a], z, y, dir.q[a], dir.e[a])
    <3> HIDE DEF a, st, x, lines, s, z, r, y
    <3>1. PairInv(c, a, st, waiters[c][a], z, r, dir.q[a], dir.e[a])
      BY <2>4, <2>5, PairConsumes
    <3>2. PairInv(c, a, "I", waiters[c][a], z, Append(r, x), dir.q[a], dir.e[a])
      BY <2>3, <2>5, <3>1, PairReleases
    <3> QED BY <2>5, <3>2
  <2>7. PairInv(c, a, lines[a].st, waiters[c][a], z, y, dir.q[a], dir.e[a])
    BY <2>2, <2>6
  <2>8. a = HeadMsg(c).a
    OBVIOUS
  <2> HIDE DEF a, st, x, lines
  <2> QED BY <1>1, <1>2, <2>1, <2>2, <2>3, <2>7, <2>8, AnsweredFor
<1> QED BY <1>3, <1>4, <1>5

LEMMA FlushLineInv ==
  ASSUME IInv, NEW c \in Llcs, FlushLine(c) PROVE IInv'
<1> DEFINE a == HeadMsg(c).a
           st == cache[c][a].st
           x == Msg("FLUSH_REP", a, cache[c][a].data)
           lines == [cache[c] EXCEPT ![a] = Absent]
<1>1. /\ toCache[c] # <<>> /\ HeadMsg(c).t = "FLUSH_REQ" /\ UNCHANGED <<sys, waiters>>
      /\ Consume(c)
  BY DEF FlushLine, Arrives, HeadMsg
<1>2. a \in Addrs /\ cache[c] \in [Addrs -> CacheLine] /\ toDir[c] \in Seq(ToDirMsg)
      /\ toCache[c] \in Seq(ToCacheMsg)
  BY <1>1, HeadHere
<1>3. CASE st = "I"
  <2>1. UNCHANGED <<sys, cache, waiters, toDir, dir>>
    BY <1>1, <1>3 DEF FlushLine
  <2> QED BY <1>1, <2>1, Ignored
<1>4. CASE st # "I"
  <2>1. CacheStep(c, lines, <<x>>, {})
    BY <1>4 DEF FlushLine
  <2>2. /\ lines \in [Addrs -> CacheLine] /\ lines[a].st = "I"
        /\ \A b \in Addrs : b # a => lines[b] = cache[c][b]
    <3>1. lines = [cache[c] EXCEPT ![a] = Absent]
      OBVIOUS
    <3> HIDE DEF lines, a
    <3> QED BY <1>2, <3>1, AbsentIs, LineSet
  <2>3. x \in ToDirMsg /\ x.a = a /\ x.t \in Gives
    <3>1. cache[c][a].data \in Data /\ cache[c][a].data # NoData
      BY <1>2, <1>4 DEF CacheLine
    <3> QED BY <1>2, <3>1 DEF Msg, ToDirMsg, Gives
  <2> DEFINE s == toCache[c]
             z == Tail(toCache[c])
             r == toDir[c]
             y == Append(toDir[c], x)
             q == dir.q[a]
             e == dir.e[a]
  <2>4. PairInv(c, a, st, waiters[c][a], s, r, q, e)
    BY <1>2, PairsHere DEF PairHere
  <2>5. s # <<>> /\ Head(s).a = a /\ Head(s).t = "FLUSH_REQ" /\ st # "I"
        /\ s \in Seq(ToCacheMsg) /\ r \in Seq(ToDirMsg) /\ y = Append(r, x) /\ z = Tail(s)
    BY <1>1, <1>2, <1>4 DEF HeadMsg
  <2>6. PairInv(c, a, "I", waiters[c][a], z, y, q, e)
    <3> HIDE DEF a, st, x, lines, s, z, r, y, q, e
    <3>1. PairInv(c, a, st, waiters[c][a], z, r, q, e)
      BY <2>4, <2>5, PairConsumes
    <3>2. (st # "I") = TRUE /\ Live(s, {"FLUSH_REQ"}, a, TRUE)
      <4>1. Has(s, {"FLUSH_REQ"}, a)
        BY <2>5, Popped DEF Has, On
      <4> QED BY <2>5, <4>1, Kinds
    <3>3. /\ q # <<>> /\ Head(q).t # "SH_REQ" /\ ~Head(q).wait
          /\ e.st \in {"E", "M"} \/ UpgradeWithoutCopy(q, e)
      BY <2>4, <3>2 DEF PairInv, FlushUnderWay
    <3>4. ~Has(r, {"WB_REP"}, a)
      BY <2>4, <3>3 DEF PairInv, WriteBackUnderWay
    <3>5. PairInv(c, a, "I", waiters[c][a], z, Append(r, x), q, e)
      BY <2>3, <2>5, <3>1, <3>3, <3>4, PairReleases
    <3> QED BY <2>5, <3>5
  <2>7. PairInv(c, a, lines[a].st, waiters[c][a], z, y, dir.q[a], dir.e[a])
    BY <2>2, <2>6
  <2>8. a = HeadMsg(c).a
    OBVIOUS
  <2> HIDE DEF a, st, x, lines
  <2> QED BY <1>1, <1>2, <2>1, <2>2, <2>3, <2>7, <2>8, AnsweredFor
<1> QED BY <1>3, <1>4

LEMMA WriteBackInv ==
  ASSUME IInv, NEW c \in Llcs, WriteBack(c) PROVE IInv'
<1> DEFINE a == HeadMsg(c).a
           st == cache[c][a].st
           new == WriteBackState(st)
           data == IF st = "SU" THEN Uninit ELSE cache[c][a].data
           x == Msg("WB_REP", a, data)
           lines == [cache[c] EXCEPT ![a].st = new]
<1>1. /\ toCache[c] # <<>> /\ HeadMsg(c).t = "WB_REQ" /\ UNCHANGED <<sys, waiters>>
      /\ Consume(c)
  BY DEF WriteBack, Arrives, HeadMsg
<1>2. a \in Addrs /\ cache[c] \in [Addrs -> CacheLine] /\ toDir[c] \in Seq(ToDirMsg)
      /\ toCache[c] \in Seq(ToCacheMsg)
  BY <1>1, HeadHere
<1>3. CASE st = "I"
  <2>1. UNCHANGED <<sys, cache, waiters, toDir, dir>>
    BY <1>1, <1>3 DEF WriteBack
  <2> QED BY <1>1, <2>1, Ignored
<1>4. CASE st # "I"
  <2>1. CacheStep(c, lines, <<x>>, {})
    BY <1>4 DEF WriteBack
  <2>2. new = (IF st = "SU" THEN "SU" ELSE "S") /\ new \in CStates
    BY DEF WriteBackState, CStates
  <2>3. /\ lines \in [Addrs -> CacheLine] /\ lines[a].st = new
        /\ \A b \in Addrs : b # a => lines[b] = cache[c][b]
    <3>1. lines = [cache[c] EXCEPT ![a].st = new]
      OBVIOUS
    <3>2. /\ a \in Addrs /\ cache[c] \in [Addrs -> CacheLine] /\ new \in CStates
          /\ cache[c][a].st # "I"
      BY <1>2, <1>4, <2>2
    <3> HIDE DEF lines, a, new
    <3> QED BY <3>1, <3>2, StateSet
  <2>4. x \in ToDirMsg /\ x.a = a /\ x.t = "WB_REP"
    <3>1. cache[c][a].data \in Data /\ cache[c][a].data # NoData
      BY <1>2, <1>4 DEF CacheLine
    <3>2. data \in Data /\ data # NoData
      BY <3>1 DEF Data, Uninit, NoData
    <3> HIDE DEF data
    <3> QED BY <1>2, <3>2 DEF Msg, ToDirMsg
  <2> DEFINE s == toCache[c]
             z == Tail(toCache[c])
             r == toDir[c]
             y == Append(toDir[c], x)
  <2>5. PairInv(c, a, st, waiters[c][a], s, r, dir.q[a], dir.e[a])
    BY <1>2, PairsHere DEF PairHere
  <2>6. s # <<>> /\ Head(s).a = a /\ Head(s).t = "WB_REQ" /\ st # "I"
        /\ s \in Seq(ToCacheMsg) /\ r \in Seq(ToDirMsg) /\ y = Append(r, x) /\ z = Tail(s)
    BY <1>1, <1>2, <1>4 DEF HeadMsg
  <2>7. PairInv(c, a, new, waiters[c][a], z, y, dir.q[a], dir.e[a])
    <3> HIDE DEF a, st, new, data, x, lines, s, z, r, y
    <3>1. PairInv(c, a, new, waiters[c][a], z, Append(r, x), dir.q[a], dir.e[a])
      BY <2>2, <2>4, <2>5, <2>6, PairWritesOut
    <3> QED BY <2>6, <3>1
  <2>8. PairInv(c, a, lines[a].st, waiters[c][a], z, y, dir.q[a], dir.e[a])
    <3> HIDE DEF z, y, lines, new
    <3> QED BY <2>3, <2>7
  <2>9. a = HeadMsg(c).a
    OBVIOUS
  <2> HIDE DEF a, st, new, data, x, lines
  <2> QED BY <1>1, <1>2, <2>1, <2>3, <2>4, <2>8, <2>9, AnsweredFor
<1> QED BY <1>3, <1>4


-----------------------------------------------------------------------------
(* The invariant is inductive. *)
LEMMA PairInit ==
  ASSUME NEW c, NEW a, NEW e, e.sharers = {}
  PROVE  PairInv(c, a, "I", <<>>, <<>>, <<>>, <<>>, e)
<1>1. /\ \A T : /\ ~Has(<<>>, T, a) /\ AtMostOne(<<>>, T, a)
                /\ ~Live(<<>>, T, a, FALSE) /\ ~LiveTwice(<<>>, T, a, FALSE)
      /\ \A T, U : ~Behind(<<>>, T, U, a)
  BY EmptyQueue
<1>2. ("I" # "I") = FALSE /\ "I" # "SU" /\ "I" \notin {"E", "M"} /\ c \notin e.sharers
  OBVIOUS
<1>3. ~GrantedTo(<<>>, c) /\ ~Queued(<<>>, c) /\ Unique(<<>>, c) /\ ~Pending(<<>>, c)
  BY DEF GrantedTo, Granted, Queued, Unique, Pending
<1> DEFINE s == <<>>
<1>4. /\ \A T : /\ ~Has(s, T, a) /\ AtMostOne(s, T, a)
                /\ ~Live(s, T, a, FALSE) /\ ~LiveTwice(s, T, a, FALSE)
      /\ \A T, U : ~Behind(s, T, U, a)
      /\ ~GrantedTo(s, c) /\ ~Queued(s, c) /\ Unique(s, c) /\ ~Pending(s, c)
  BY <1>1, <1>3
<1> HIDE DEF s
<1>5. Listed(c, a, "I", s, s, s, e) /\ OneStake(c, a, "I", s, s, s)
  BY <1>2, <1>4 DEF Listed, OneStake
<1>6. OneRequest(c, a, s, s, s) /\ SomebodyWaits(c, a, "I", s, s, s, s)
  BY <1>2, <1>4 DEF OneRequest, SomebodyWaits
<1>7. FetchAfterGive(c, a, "I", s, s, e) /\ OwnerKnown(a, "I", s, e)
  BY <1>2, <1>4 DEF FetchAfterGive, OwnerKnown
<1>8. WriteBackUnderWay(c, a, "I", s, s, s, e) /\ FlushUnderWay(c, a, "I", s, s, s, e)
  BY <1>2, <1>4 DEF WriteBackUnderWay, FlushUnderWay
<1>9. PairInv(c, a, "I", s, s, s, s, e)
  BY <1>5, <1>6, <1>7, <1>8 DEF PairInv
<1> QED BY <1>9 DEF s

LEMMA InitInv == Init => IInv
<1> SUFFICES ASSUME Init PROVE IInv
  OBVIOUS
<1>1. PICK junk \in Llcs \union {NoCore} : dir = InitDirectory(junk)
  BY DEF Init
<1>2. /\ sys \in Systems
      /\ cache = [c \in Llcs |-> [a \in Addrs |-> Absent]]
      /\ waiters = [c \in Llcs |-> [a \in Addrs |-> <<>>]]
      /\ toDir = [c \in Llcs |-> <<>>] /\ toCache = [c \in Llcs |-> <<>>]
  BY DEF Init
<1> DEFINE e == NewEntry(junk)
<1>3. e \in DirEntry /\ e.st = "U" /\ e.sharers = {}
  BY DEF NewEntry, DirEntry, Cores
<1>4. /\ dir.slots = {} /\ dir.replaced = {} /\ dir.junk = junk
      /\ dir.e = [a \in Addrs |-> e] /\ dir.q = [a \in Addrs |-> <<>>]
      /\ dir.mem = [a \in Addrs |-> Fresh] /\ dir.reply = [a \in Addrs |-> <<>>]
      /\ dir = [slots |-> dir.slots, replaced |-> dir.replaced, junk |-> dir.junk, e |-> dir.e,
                q |-> dir.q, mem |-> dir.mem, reply |-> dir.reply]
  BY <1>1 DEF InitDirectory
<1> HIDE DEF e
<1>5. dir \in Directory
  <2>1. /\ dir.e \in [Addrs -> DirEntry] /\ dir.q \in [Addrs -> Seq(DirReq)]
        /\ dir.mem \in [Addrs -> Filled] /\ dir.reply \in [Addrs -> Seq(Filled)] /\ dir.junk \in Cores
        /\ dir.slots \in SUBSET Addrs /\ dir.replaced \in SUBSET Addrs
    BY <1>3, <1>4 DEF Data, Filled, Fresh, NoData, Cores
  <2> QED BY <1>4, <2>1 DEF Directory
<1>6. Types
  BY <1>2, <1>5, AbsentIs DEF Types
<1>7. Pairs
  <2> SUFFICES ASSUME NEW a \in Addrs, NEW c \in Llcs
               PROVE  PairInv(c, a, cache[c][a].st, waiters[c][a], toCache[c], toDir[c],
                              dir.q[a], dir.e[a])
    BY DEF Pairs
  <2>1. /\ cache[c][a].st = "I" /\ waiters[c][a] = <<>> /\ toCache[c] = <<>> /\ toDir[c] = <<>>
        /\ dir.q[a] = <<>> /\ dir.e[a] = e
    BY <1>2, <1>4, AbsentIs
  <2>2. PairInv(c, a, "I", <<>>, <<>>, <<>>, <<>>, e)
    BY <1>3, PairInit
  <2> QED BY <2>1, <2>2
<1>8. Lines
  <2> SUFFICES ASSUME NEW a \in Addrs
               PROVE  LineInv(dir.q[a], dir.e[a], dir.reply[a], a \in dir.slots \union dir.replaced)
    BY DEF Lines
  <2>1. dir.q[a] = <<>> /\ dir.e[a] = e /\ dir.reply[a] = <<>>
    BY <1>4
  <2>2. LineInv(<<>>, e, <<>>, a \in dir.slots \union dir.replaced)
    BY <1>3 DEF LineInv, FrontWaits
  <2> QED BY <2>1, <2>2
<1>9. SlotsInv(dir)
  BY <1>4, FS_EmptySet DEF SlotsInv
<1> QED BY <1>6, <1>7, <1>8, <1>9 DEF IInv

LEMMA NextInv == IInv /\ [Next]_vars => IInv'
<1> SUFFICES ASSUME IInv, [Next]_vars PROVE IInv'
  OBVIOUS
<1>1. CASE UNCHANGED vars
  BY <1>1, InvStays DEF vars
<1>2. ASSUME NEW th \in Threads, UserStep(th) PROVE IInv'
  <2>1. PICK a \in Uses[th] : WriteHit(th, a) \/ \E ex \in BOOLEAN : Miss(th, a, ex)
    BY <1>2 DEF UserStep
  <2>2. a \in Addrs
    BY ThreadsCache
  <2> QED BY <2>1, <2>2, WriteHitInv, MissInv
<1>3. ASSUME NEW c \in Llcs, CacheThread(c) PROVE IInv'
  BY <1>3, DataReplyInv, UpgradeReplyInv, InvalidateInv, FlushLineInv, WriteBackInv DEF CacheThread
<1>4. ASSUME NEW c \in Llcs, DirThread(c) PROVE IInv'
  BY <1>4, DirHandlesInv DEF DirThread
<1>5. ASSUME NEW a \in Addrs, DramThread(a) PROVE IInv'
  BY <1>5, DramRepliesInv DEF DramThread
<1> QED BY <1>1, <1>2, <1>3, <1>4, <1>5 DEF Next

LEMMA Invariant == Spec => []IInv
  BY InitInv, NextInv, PTL DEF Spec

-----------------------------------------------------------------------------
(* What a cache may do with a line, in the cache or on its way to it. *)
LEMMA CopyListed ==
  ASSUME IInv, NEW c \in Llcs, NEW a \in Addrs,
         cache[c][a].st # "I" \/ Has(toCache[c], DataReps, a)
  PROVE  c \in dir.e[a].sharers
<1>1. PairInv(c, a, cache[c][a].st, waiters[c][a], toCache[c], toDir[c], dir.q[a], dir.e[a])
  BY PairsHere DEF PairHere
<1> QED BY <1>1 DEF PairInv, Listed

LEMMA WriterAlone ==
  ASSUME IInv, NEW c \in Llcs, NEW a \in Addrs,
         cache[c][a].st \in {"E", "M"} \/ Has(toCache[c], {"EX_REP"}, a)
  PROVE  dir.e[a].sharers = {c}
<1>1. PairInv(c, a, cache[c][a].st, waiters[c][a], toCache[c], toDir[c], dir.q[a], dir.e[a])
  BY PairsHere DEF PairHere
<1>2. dir.e[a].st \in {"E", "M"}
  BY <1>1 DEF PairInv, OwnerKnown
<1>3. LineInv(dir.q[a], dir.e[a], dir.reply[a], a \in dir.slots \union dir.replaced)
  BY DEF IInv, Lines
<1>4. dir.e[a].sharers = {dir.e[a].owner}
  BY <1>2, <1>3 DEF LineInv
<1>5. Has(toCache[c], {"EX_REP"}, a) => Has(toCache[c], DataReps, a)
  BY Kinds
<1>6. cache[c][a].st # "I" \/ Has(toCache[c], DataReps, a)
  BY <1>5
<1>7. c \in dir.e[a].sharers
  BY <1>6, CopyListed
<1> QED BY <1>4, <1>7

(* A line that one cache may write is in no other cache.                         *)
THEOREM SingleWriterCorrect == Spec => []SingleWriter
<1>1. IInv => SingleWriter
  <2> SUFFICES ASSUME IInv, NEW a \in Addrs, NEW c \in Llcs, cache[c][a].st \in {"E", "M"},
                      NEW k \in Llcs \ {c}
               PROVE  cache[k][a].st = "I"
    BY DEF SingleWriter
  <2>1. dir.e[a].sharers = {c}
    BY WriterAlone
  <2>2. cache[k][a].st # "I" => k \in dir.e[a].sharers
    BY CopyListed
  <2> QED BY <2>1, <2>2
<1> QED BY <1>1, Invariant, PTL

(* The right to write, in the cache or still on its way to it, excludes every      *)
(* other copy, in a cache or on its way: whatever requests, evictions and        *)
(* replies overtake each other.                                              *)
SingleWriterInFlight ==
    \A a \in Addrs, c \in Llcs :
        cache[c][a].st \in {"E", "M"} \/ Has(toCache[c], {"EX_REP"}, a) =>
            \A k \in Llcs \ {c} : cache[k][a].st = "I" /\ ~Has(toCache[k], DataReps, a)

THEOREM SingleWriterInFlightCorrect == Spec => []SingleWriterInFlight
<1>1. IInv => SingleWriterInFlight
  <2> SUFFICES ASSUME IInv, NEW a \in Addrs, NEW c \in Llcs,
                      cache[c][a].st \in {"E", "M"} \/ Has(toCache[c], {"EX_REP"}, a),
                      NEW k \in Llcs \ {c}
               PROVE  cache[k][a].st = "I" /\ ~Has(toCache[k], DataReps, a)
    BY DEF SingleWriterInFlight
  <2>1. dir.e[a].sharers = {c}
    BY WriterAlone
  <2>2. cache[k][a].st # "I" \/ Has(toCache[k], DataReps, a) => k \in dir.e[a].sharers
    BY CopyListed
  <2> QED BY <2>1, <2>2
<1> QED BY <1>1, Invariant, PTL

(* The directory has an entry for every cached line, and it lists the cache.       *)
THEOREM DirectoryKnowsCopiesCorrect == Spec => []DirectoryKnowsCopies
<1>1. IInv => DirectoryKnowsCopies
  <2> SUFFICES ASSUME IInv, NEW a \in Addrs, NEW c \in Llcs, cache[c][a].st # "I"
               PROVE  a \in dir.slots \union dir.replaced /\ c \in dir.e[a].sharers
    BY DEF DirectoryKnowsCopies
  <2>1. c \in dir.e[a].sharers
    BY CopyListed
  <2>2. LineInv(dir.q[a], dir.e[a], dir.reply[a], a \in dir.slots \union dir.replaced)
    BY DEF IInv, Lines
  <2>3. a \notin dir.slots \union dir.replaced => dir.e[a].sharers = {}
    BY <2>2 DEF LineInv
  <2> QED BY <2>1, <2>3
<1> QED BY <1>1, Invariant, PTL

(* A copy that arrives finds what processExRepFromDramDirectory and its sibling     *)
(* expect (initiateDirectoryAccess sent one request for it): the line is not      *)
(* there yet, somebody waits for it, and no second request is under way.        *)
RepliesExpected ==
    \A a \in Addrs, c \in Llcs :
        Has(toCache[c], DataReps, a) => /\ cache[c][a].st = "I" /\ waiters[c][a] # <<>>
                                        /\ ~Has(toDir[c], Reqs, a) /\ ~Queued(dir.q[a], c)

THEOREM RepliesExpectedCorrect == Spec => []RepliesExpected
<1>1. IInv => RepliesExpected
  <2> SUFFICES ASSUME IInv, NEW a \in Addrs, NEW c \in Llcs, Has(toCache[c], DataReps, a)
               PROVE  /\ cache[c][a].st = "I" /\ waiters[c][a] # <<>>
                      /\ ~Has(toDir[c], Reqs, a) /\ ~Queued(dir.q[a], c)
    BY DEF RepliesExpected
  <2>1. PairInv(c, a, cache[c][a].st, waiters[c][a], toCache[c], toDir[c], dir.q[a], dir.e[a])
    BY PairsHere DEF PairHere
  <2>2. Has(toCache[c], Reps, a)
    BY Kinds
  <2> QED BY <2>1, <2>2 DEF PairInv, OneStake, OneRequest, SomebodyWaits
<1> QED BY <1>1, Invariant, PTL


=============================================================================
